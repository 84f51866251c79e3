----------------------------- MODULE MessageRow -----------------------------
(* What the protocol compiler generates for one message, as a row of tables.   *)
(* Each table stands for one generated function and is read off that function  *)
(* alone, so that a field forgotten, or given another has-bit, in one of them  *)
(* shows as a disagreement between tables.                                     *)
(*                                                                             *)
(*  class    the members of Impl_ in layout order:                             *)
(*           <<field, field number, type, message type>>                       *)
(*  access   the has-bit that the setters and clear_<field> use                *)
(*  copy     the copy constructor: members copied one by one, sub-messages     *)
(*           copied when their has-bit is set, the range of members memcpy'd   *)
(*  new      SharedCtor: members with a constructor, the range memset to zero  *)
(*  fast     the fast slots of the parse table:                                *)
(*           <<tag, has-bit, parser, field>>, or <<>> for MiniParse            *)
(*  entries  the field entries, by number: <<field, has-bit, type>>            *)
(*  clear    Clear: <<has-bit, field>> cleared one by one, <<has-bits, first,  *)
(*           last>> memset together when one of the bits is set, members reset *)
(*           in any case                                                       *)
(*  write    _InternalSerialize: <<has-bit, field number, writer, field>>      *)
(*  size     ByteSizeLong: <<has-bit, bytes of the tag, sizer, field>>         *)
(*  merge    MergeImpl: <<has-bit, field>>                                     *)
(*  swap     InternalSwap: members swapped one by one, and the range memswap'd *)
(*                                                                             *)
(* A range is <<first member, last member>>, or <<>>.  The BatchCheckHasBit    *)
(* around a group of fields tests the union of the bits the fields test again, *)
(* so it only saves work and is not a column.                                  *)
EXTENDS Naturals, Sequences

\* Of each field, its place in the layout, its type and its message type.
Column(class, c) ==
  [f \in {class[k][1] : k \in DOMAIN class} |->
     LET k == CHOOSE n \in DOMAIN class : class[n][1] = f IN <<k, class[k][3], class[k][4]>>[c]]

Row(class, access, copy, new, fast, entries, clear, write, size, merge, swap) ==
  [position |-> Column(class, 1), kind |-> Column(class, 2), of |-> Column(class, 3),
   access |-> access, copy |-> copy, new |-> new, fast |-> fast, entries |-> entries,
   clear |-> clear, write |-> write, size |-> size, merge |-> merge, swap |-> swap]

\* The fields of the message whose row is t.
Fields(t) == DOMAIN t.kind

\* The members that a memset, memcpy or memswap from the first to the last one touches.
Members(t, range) ==
  IF range = <<>> THEN {}
  ELSE {f \in Fields(t) : t.position[f] \in t.position[range[1]] .. t.position[range[2]]}

\* A message without fields (ZeroFieldsBase).
Empty ==
  Row(<<>>, <<>>, [members |-> {}, sub |-> {}, range |-> <<>>],
      [members |-> {}, zero |-> <<>>], << <<>>, <<>> >>, <<>>,
      [one |-> {}, batch |-> {}, always |-> {}], <<>>, {}, {},
      [one |-> {}, range |-> <<>>])
=============================================================================
