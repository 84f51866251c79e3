---------------------------- MODULE ProtoMessage ----------------------------
(* A generated message object and the functions that interpret its tables.     *)
(*                                                                             *)
(* An object is its has-bits, its members and the unknown fields it keeps.  A  *)
(* string is a sequence of bytes, a sub-message pointer is <<>> (nullptr) or   *)
(* <<object>>, a repeated field the sequence of its elements.  The per-type    *)
(* behaviour of WireFormatLite and TcParser is external to this repository.    *)
EXTENDS Integers, SequencesExt, MessageRow

IsScalar(kind) == kind \in {"Bool", "UInt32", "UInt64", "Int32", "Int"}

Default(kind) == IF IsScalar(kind) THEN 0 ELSE <<>>

\* What a member no constructor wrote may hold.
Uninitialized(kind) == IF IsScalar(kind) THEN 99 ELSE <<>>

(* ---- construction, setters, Clear, copy, merge, swap ---- *)

New(t) ==
  [has |-> {}, unknown |-> <<>>,
   val |-> [f \in Fields(t) |->
     IF f \in t.new.members \cup Members(t, t.new.zero)
     THEN Default(t.kind[f]) ELSE Uninitialized(t.kind[f])]]

\* set_<f>, add_<f>, mutable_<f>: the member and the has-bit.
Assign(t, m, f, v) ==
  [m EXCEPT !.val[f] = v, !.has = @ \cup {t.access[f]}]

RECURSIVE Clear(_, _)

\* Clearing a sub-message keeps the object its pointer owns.
ClearMember(t, f, v) ==
  IF t.kind[f] = "Message"
  THEN [i \in DOMAIN v |-> Clear(t.of[f], v[i])]
  ELSE Default(t.kind[f])

\* The members Clear resets: those whose bits, or whose groups, are set.
Cleared(t, row, has) ==
  {c[2] : c \in {x \in row.one : x[1] \in has}} \cup row.always
  \cup UNION {Members(t, <<b[2], b[3]>>) : b \in {x \in row.batch : x[1] \cap has # {}}}

Clear(t, m) ==
  [has |-> {}, unknown |-> <<>>,
   val |-> [f \in Fields(t) |->
     IF f \in Cleared(t, t.clear, m.has) THEN ClearMember(t, f, m.val[f]) ELSE m.val[f]]]

\* clear_<f>.
ClearField(t, m, f) ==
  [m EXCEPT !.val[f] = ClearMember(t, f, @), !.has = @ \ {t.access[f]}]

RECURSIVE Copy(_, _)

CopyMember(t, row, f, m) ==
  CASE f \in row.members ->
         IF t.kind[f] = "Repeated"
         THEN [i \in DOMAIN m.val[f] |-> Copy(t.of[f], m.val[f][i])] ELSE m.val[f]
    [] \E c \in row.sub : c[2] = f ->
         IF \E c \in row.sub : c[2] = f /\ c[1] \in m.has
         THEN <<Copy(t.of[f], m.val[f][1])>> ELSE <<>>
    [] f \in Members(t, row.range) -> m.val[f]
    [] OTHER -> Uninitialized(t.kind[f])

\* The copy constructor.
Copy(t, m) ==
  [m EXCEPT !.val = [f \in Fields(t) |-> CopyMember(t, t.copy, f, m)]]

RECURSIVE Merge(_, _, _)

MergeMember(t, f, to, from) ==
  CASE t.kind[f] = "Message" ->
         IF to = <<>> THEN <<Copy(t.of[f], from[1])>>
         ELSE <<Merge(t.of[f], to[1], from[1])>>
    [] t.kind[f] = "Repeated" -> to \o [i \in DOMAIN from |-> Copy(t.of[f], from[i])]
    [] t.kind[f] = "Packed" -> to \o from
    [] OTHER -> IF from # Default(t.kind[f]) THEN from ELSE to

\* MergeImpl: to.MergeFrom(from).
Merge(t, to, from) ==
  [has |-> to.has \cup from.has, unknown |-> to.unknown \o from.unknown,
   val |-> [f \in Fields(t) |->
     IF \E c \in t.merge : c[2] = f /\ c[1] \in from.has
     THEN MergeMember(t, f, to.val[f], from.val[f]) ELSE to.val[f]]]

CopyFrom(t, to, from) == Merge(t, Clear(t, to), from)

\* What is in x after x.InternalSwap(y).
Swapped(t, x, y) ==
  [y EXCEPT !.val = [f \in Fields(t) |->
     IF f \in t.swap.one \cup Members(t, t.swap.range)
     THEN y.val[f] ELSE x.val[f]]]

(* ---- the wire format ---- *)

RECURSIVE Varint(_)
Varint(n) == IF n < 128 THEN <<n>> ELSE <<128 + (n % 128)>> \o Varint(n \div 128)

\* ReadVarint(b)[1] is the number b starts with, [2] what follows it.
RECURSIVE ReadVarint(_)
ReadVarint(b) ==
  IF b = <<>> THEN <<0, <<>>>>
  ELSE IF b[1] < 128 THEN <<b[1], Tail(b)>>
  ELSE LET rest == ReadVarint(Tail(b)) IN <<b[1] - 128 + 128 * rest[1], rest[2]>>

VarintSize(n) ==
  1 + Cardinality({k \in 1 .. 4 : n >= 128 ^ k})

ZigZag(n) == IF n >= 0 THEN 2 * n ELSE -2 * n - 1
UnZigZag(n) == IF n % 2 = 0 THEN n \div 2 ELSE -((n + 1) \div 2)

Encode(writer, v) == Varint(IF writer = "SInt32" THEN ZigZag(v) ELSE v)
EncodeSize(sizer, v) == VarintSize(IF sizer = "SInt32" THEN ZigZag(v) ELSE v)

Concat(seqs) == FlattenSeq(seqs)
Total(seq) == FoldLeft(LAMBDA x, y : x + y, 0, seq)

\* Whether the size and the serializer count a member: it has its bit and is
\* not its default.
Sent(t, m, bit, f) == bit \in m.has /\ m.val[f] # Default(t.kind[f])

RECURSIVE ByteSizeLong(_, _)

DelimitedSize(tag, n) == tag + VarintSize(n) + n

SizeOf(t, s, v) ==
  CASE s[3] = "String" -> DelimitedSize(s[2], Len(v))
    [] s[3] = "Packed" -> DelimitedSize(s[2], Total([i \in DOMAIN v |-> VarintSize(v[i])]))
    [] s[3] = "Message" ->
         Total([i \in DOMAIN v |-> DelimitedSize(s[2], ByteSizeLong(t.of[s[4]], v[i]))])
    [] OTHER -> s[2] + EncodeSize(s[3], v)

ByteSizeLong(t, m) ==
  Len(m.unknown)
  + FoldSet(LAMBDA s, n : n + SizeOf(t, s, m.val[s[4]]), 0,
            {s \in t.size : Sent(t, m, s[1], s[4])})

RECURSIVE Serialize(_, _)

Tagged(number, size, b) == Varint(8 * number + 2) \o Varint(size) \o b
TaggedBytes(number, b) == Tagged(number, Len(b), b)

\* A sub-message is prefixed with the size ByteSizeLong cached for it.
WriteMember(t, w, v) ==
  CASE w[3] = "String" -> TaggedBytes(w[2], v)
    [] w[3] = "Packed" -> TaggedBytes(w[2], Concat([i \in DOMAIN v |-> Varint(v[i])]))
    [] w[3] = "Message" ->
         Concat([i \in DOMAIN v |->
           Tagged(w[2], ByteSizeLong(t.of[w[4]], v[i]), Serialize(t.of[w[4]], v[i]))])
    [] OTHER -> Varint(8 * w[2]) \o Encode(w[3], v)

Serialize(t, m) ==
  Concat([k \in DOMAIN t.write |->
           IF Sent(t, m, t.write[k][1], t.write[k][4])
           THEN WriteMember(t, t.write[k], m.val[t.write[k][4]]) ELSE <<>>])
  \o m.unknown

(* ---- the table-driven parser ---- *)

\* The byte 255 is in no UTF-8 string; the other bytes of the model are ASCII.
Utf8(s) == \A i \in DOMAIN s : s[i] # 255

Delimited(parser) == parser \in {"Utf8String", "Message", "Repeated", "Packed"}

\* Where the tag leads: <<field, has-bit, parser>>, by the fast slot or by the
\* entry of the field number, or <<>> for a field this build does not know.  A
\* fast slot compares the tag's byte: a tag that the writer padded misses it.
Lookup(t, tag, padded) ==
  LET fast == t.fast
      entries == t.entries
      slot == fast[((tag \div 8) % Len(fast)) + 1]
      number == tag \div 8
      known == /\ number \in DOMAIN entries
               /\ tag % 8 = IF Delimited(entries[number][3]) THEN 2 ELSE 0
  IN  IF ~padded /\ slot # <<>> /\ slot[1] = tag THEN <<slot[4], slot[2], slot[3]>>
      ELSE IF known THEN entries[number]
      ELSE <<>>

RECURSIVE ReadAll(_)
ReadAll(b) ==
  IF b = <<>> THEN <<>> ELSE <<ReadVarint(b)[1]>> \o ReadAll(ReadVarint(b)[2])

\* The field that b starts with: its tag, the number or the bytes that follow
\* it, all its bytes, and what comes after it; ok unless it is cut off or of a
\* wire type no field of these messages has.
Delimit(b, tag, n) ==
  LET size == IF tag % 8 = 2 THEN n[1] ELSE 0
      rest == SubSeq(n[2], size + 1, Len(n[2]))
  IN  IF tag % 8 \notin {0, 2} \/ size > Len(n[2]) THEN [ok |-> FALSE]
      ELSE [ok |-> TRUE, tag |-> tag, rest |-> rest, bytes |-> SubSeq(b, 1, Len(b) - Len(rest)),
            payload |-> IF tag % 8 = 2 THEN SubSeq(n[2], 1, size) ELSE n[1]]
FirstField(b) ==
  LET tag == ReadVarint(b)
  IN  Delimit(b, tag[1], ReadVarint(tag[2]))

\* The fields in b, up to one that is not ok.
RECURSIVE Split(_)
Split(b) ==
  LET field == FirstField(b)
  IN  IF b = <<>> THEN <<>>
      ELSE <<field>> \o (IF field.ok THEN Split(field.rest) ELSE <<>>)

RECURSIVE Parse(_, _, _, _)

\* The value of a member of message type, once its bytes were read.
Held(parser, old, read) ==
  IF ~read.ok THEN <<>>
  ELSE IF parser = "Message" THEN << <<read.msg>> >> ELSE <<Append(old, read.msg)>>

\* The new value of a member, given its old one and the number or the bytes
\* that follow the tag; <<v>>, or <<>> when the parser gives up.
Store(sub, parser, old, x, padded) ==
  CASE parser = "Bool" -> <<IF x = 0 THEN 0 ELSE 1>>
    [] parser = "SInt32" -> <<UnZigZag(x)>>
    [] parser = "Utf8String" -> IF Utf8(x) THEN <<x>> ELSE <<>>
    [] parser = "Packed" -> <<old \o ReadAll(x)>>
    [] parser \in {"Message", "Repeated"} ->
         Held(parser, old,
              Parse(sub, IF parser = "Message" /\ old # <<>> THEN old[1] ELSE New(sub), x, padded))
    [] OTHER -> <<x>>

\* read, with the value v of a field of its message and the field's has-bit.
Stored(read, f, bit, v) ==
  IF v = <<>> THEN [read EXCEPT !.ok = FALSE]
  ELSE [read EXCEPT !.msg.val[f] = v[1], !.msg.has = @ \cup {bit}]

\* read, with one more field merged into its message, which leads to the entry to.
ParseField(t, read, field, to, padded) ==
  IF to = <<>> THEN [read EXCEPT !.msg.unknown = @ \o field.bytes]
  ELSE Stored(read, to[1], to[2],
              Store(t.of[to[1]], to[3], read.msg.val[to[1]], field.payload, padded))

\* Merges the fields in b into m, one after the other, until one is refused.
Parse(t, m, b, padded) ==
  FoldLeft(LAMBDA read, field :
             IF ~(read.ok /\ field.ok) THEN [read EXCEPT !.ok = FALSE]
             ELSE ParseField(t, read, field, Lookup(t, field.tag, padded), padded),
           [ok |-> TRUE, msg |-> m], Split(b))
=============================================================================
