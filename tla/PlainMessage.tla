---------------------------- MODULE PlainMessage ----------------------------
(* What a message promises its users: a record of fields, each with a value.   *)
(* a and b are two such records of one message type: assignments change one    *)
(* field, copies are exact, a merge lays one record over the other, and what   *)
(* one server writes is what the other one reads, unless a string in it is not *)
(* UTF-8: then the receiver gets nothing of the message.                       *)
EXTENDS Integers, SequencesExt, MessageRow

CONSTANTS
  Types,          \* Types[name]: the tables of the message type
  Value,          \* Value[kind]: the values a scalar or a string is set to
  UnknownField    \* the bytes of a field that only a newer peer knows

VARIABLES type, a, b
vars == <<type, a, b>>

Scalar == {"Bool", "UInt32", "UInt64", "Int32", "Int"}

Zero(t, f) == IF t.kind[f] \in Scalar THEN 0 ELSE <<>>

Blank(t) == [unknown |-> <<>>, val |-> [f \in Fields(t) |-> Zero(t, f)]]

\* A record with every field set.
RECURSIVE Filled(_)
Filled(t) ==
  [unknown |-> <<>>, val |-> [f \in Fields(t) |->
     CASE t.kind[f] \in {"Message", "Repeated"} -> <<Filled(t.of[f])>>
       [] t.kind[f] = "Packed" -> <<1, 300>>
       [] OTHER -> CHOOSE v \in Value[t.kind[f]] : v # Zero(t, f)]]

RECURSIVE Readable(_, _)
Readable(t, r) ==
  \A f \in Fields(t) :
    LET v == r.val[f]
    IN  CASE t.kind[f] = "String" -> \A i \in DOMAIN v : v[i] # 255
          [] t.kind[f] \in {"Message", "Repeated"} ->
               \A i \in DOMAIN v : Readable(t.of[f], v[i])
          [] OTHER -> TRUE

RECURSIVE Over(_, _, _)
Over(t, low, high) ==
  [unknown |-> low.unknown \o high.unknown,
   val |-> [f \in Fields(t) |->
     LET x == low.val[f]
         y == high.val[f]
     IN  CASE t.kind[f] \in {"Repeated", "Packed"} -> x \o y
           [] t.kind[f] = "Message" /\ x # <<>> /\ y # <<>> ->
                <<Over(t.of[f], x[1], y[1])>>
           [] OTHER -> IF y = Zero(t, f) THEN x ELSE y]]

-----------------------------------------------------------------------------
Init ==
  /\ \E name \in DOMAIN Types : type = Types[name]
  /\ a \in {Blank(type), Filled(type)}
  /\ b = Blank(type)

Set(f) == \E v \in Value[type.kind[f]] : a' = [a EXCEPT !.val[f] = v]

Add(f) ==
  a' \in {[a EXCEPT !.val[f] = Append(@, x)] :
            x \in IF type.kind[f] = "Packed" THEN {1, 300}
                  ELSE {Blank(type.of[f]), Filled(type.of[f])}}

SetInside(f) ==
  LET sub == type.of[f]
      old == IF a.val[f] = <<>> THEN Blank(sub) ELSE a.val[f][1]
  IN  \E g \in {h \in Fields(sub) : sub.kind[h] \in DOMAIN Value} :
      \E v \in Value[sub.kind[g]] :
        a' = [a EXCEPT !.val[f] = <<[old EXCEPT !.val[g] = v]>>]

Assign ==
  /\ \E f \in Fields(type) :
       CASE type.kind[f] \in DOMAIN Value -> Set(f)
         [] type.kind[f] = "Message" -> SetInside(f)
         [] OTHER -> Add(f)
  /\ b' = b

Reset ==
  /\ \/ a' = Blank(type)
     \/ \E f \in Fields(type) : a' = [a EXCEPT !.val[f] = Zero(type, f)]
  /\ b' = b

CopyTo == b' = a /\ a' = a

Exchange == a' = b /\ b' = a

MergeIn == a' = Over(type, a, b) /\ b' = b

Deliver ==
  /\ \E extra \in {<<>>, UnknownField} :
       b' = IF Readable(type, a) THEN [a EXCEPT !.unknown = @ \o extra] ELSE Blank(type)
  /\ a' = a

Next ==
  /\ type' = type
  /\ Assign \/ Reset \/ CopyTo \/ Exchange \/ MergeIn \/ Deliver

Spec == Init /\ [][Next]_vars
=============================================================================
