---------------------------- MODULE MessageCodec ----------------------------
(* Two objects of one generated message type: m, which a server fills in, and  *)
(* other, which it copies to, merges from, or which the peer reads m into.     *)
(* Each action is one call of the generated interface.                         *)
EXTENDS ProtoMessage

CONSTANTS
  Types,          \* Types[name]: the tables of the message type
  Value,          \* Value[kind]: the values the setters of a scalar or string are given
  UnknownField,   \* the bytes of a field that only a newer peer knows
  MaxCalls        \* how many calls a behaviour makes

VARIABLES type, m, other, calls
vars == <<type, m, other, calls>>

\* An object with every field set, through its setters.
RECURSIVE Full(_)
Full(t) ==
  [has |-> {t.access[f] : f \in Fields(t)}, unknown |-> <<>>,
   val |-> [f \in Fields(t) |->
     CASE t.kind[f] \in {"Message", "Repeated"} -> <<Full(t.of[f])>>
       [] t.kind[f] = "Packed" -> <<1, 300>>
       [] OTHER -> CHOOSE v \in Value[t.kind[f]] : v # Default(t.kind[f])]]

Init ==
  /\ \E name \in DOMAIN Types : type = Types[name]
  /\ m \in {New(type), Full(type)}
  /\ other = New(type)
  /\ calls = 0

-----------------------------------------------------------------------------
Call ==
  /\ calls < MaxCalls
  /\ calls' = calls + 1
  /\ UNCHANGED type

\* set_<f>(v)
SetScalar(f) ==
  /\ Call
  /\ type.kind[f] \in DOMAIN Value
  /\ \E v \in Value[type.kind[f]] : m' = Assign(type, m, f, v)
  /\ UNCHANGED other

\* add_<f>(): an element, empty or filled in
AddElement(f) ==
  /\ Call
  /\ type.kind[f] \in {"Repeated", "Packed"}
  /\ \E x \in IF type.kind[f] = "Packed" THEN {1, 300}
              ELSE {New(type.of[f]), Full(type.of[f])} :
       m' = Assign(type, m, f, Append(m.val[f], x))
  /\ UNCHANGED other

\* mutable_<f>()->set_<g>(v)
SetMember(f, sub, old) ==
  \E g \in {h \in Fields(sub) : sub.kind[h] \in DOMAIN Value} :
  \E v \in Value[sub.kind[g]] : m' = Assign(type, m, f, <<Assign(sub, old, g, v)>>)
SetInSub(f) ==
  /\ Call
  /\ type.kind[f] = "Message"
  /\ SetMember(f, type.of[f], IF m.val[f] = <<>> THEN New(type.of[f]) ELSE m.val[f][1])
  /\ UNCHANGED other

ClearOne(f) == Call /\ m' = ClearField(type, m, f) /\ UNCHANGED other

ClearAll == Call /\ m' = Clear(type, m) /\ UNCHANGED other

\* other = m, and a new object constructed from m
CopyTo == Call /\ other' \in {CopyFrom(type, other, m), Copy(type, m)} /\ UNCHANGED m

\* m.Swap(&other), which a move assignment is too
Exchange == Call /\ m' = Swapped(type, m, other) /\ other' = Swapped(type, other, m)

MergeIn == Call /\ m' = Merge(type, m, other) /\ UNCHANGED other

\* A message that does not parse is dropped.
Received(read) == IF read.ok THEN read.msg ELSE New(type)

\* SerializeToArray here, ParseFromArray at the peer.  A newer build of this
\* server may have appended a field, and another implementation of the wire
\* format may have padded the tags.
Deliver ==
  /\ Call
  /\ \E extra \in {<<>>, UnknownField}, padded \in BOOLEAN :
       other' = Received(Parse(type, Clear(type, other), Serialize(type, m) \o extra, padded))
  /\ UNCHANGED m

Next ==
  \/ \E f \in Fields(type) : SetScalar(f) \/ AddElement(f) \/ SetInSub(f) \/ ClearOne(f)
  \/ ClearAll
  \/ CopyTo
  \/ Exchange
  \/ MergeIn
  \/ Deliver

Spec == Init /\ [][Next]_vars
-----------------------------------------------------------------------------
\* The record a user of the object sees: a sub-message only while its has-bit
\* is set, whatever object the pointer still owns.
RECURSIVE Visible(_, _)
Visible(t, x) ==
  [unknown |-> x.unknown,
   val |-> [f \in Fields(t) |->
     CASE t.kind[f] = "Message" ->
            IF t.access[f] \in x.has THEN <<Visible(t.of[f], x.val[f][1])>> ELSE <<>>
       [] t.kind[f] = "Repeated" ->
            [i \in DOMAIN x.val[f] |-> Visible(t.of[f], x.val[f][i])]
       [] OTHER -> x.val[f]]]

Plain == INSTANCE PlainMessage WITH a <- Visible(type, m), b <- Visible(type, other)

\* SerializeToArray writes exactly the bytes ByteSizeLong counted, in both
\* objects: BuildFramedMessage sizes its buffer and its header with the count.
SizeExact ==
  \A x \in {m, other} : Len(Serialize(type, x)) = ByteSizeLong(type, x)

\* CheckHasBitConsistency: a member that is not its default has its has-bit set,
\* in every object and in every element and sub-message of it, so that no value
\* is skipped by a function that tests the bit.
RECURSIVE Present(_, _)
Present(t, x) ==
  \A f \in Fields(t) :
    CASE t.kind[f] = "Message" ->
           \A i \in DOMAIN x.val[f] :
             /\ Present(t.of[f], x.val[f][i])
             /\ t.access[f] \notin x.has => x.val[f][i] = New(t.of[f])
      [] t.kind[f] = "Repeated" ->
           /\ x.val[f] # <<>> => t.access[f] \in x.has
           /\ \A i \in DOMAIN x.val[f] : Present(t.of[f], x.val[f][i])
      [] OTHER -> x.val[f] # Default(t.kind[f]) => t.access[f] \in x.has

HasBitsConsistent == Present(type, m) /\ Present(type, other)

\* Every call does to the record the user sees what PlainMessage says: setters,
\* Clear, copy, merge and swap, and the trip over the wire.
MessagesAreRecords == Plain!Spec
=============================================================================
