--------------------------- MODULE MCMessageCodec ---------------------------
(* Model checking of the generated messages.                                   *)
EXTENDS MessageCodec, GeneratedMessages

\* Zero, a one-byte and a two-byte varint, a negative number, a string that is
\* UTF-8 and one that is not.
SampleValue ==
  [Bool |-> {1}, UInt32 |-> {0, 300}, UInt64 |-> {128}, Int32 |-> {-1, 64},
   Int |-> {2}, String |-> {<<97>>, <<255>>}]

\* Field 15, a varint.
NewerField == <<120, 7>>
=============================================================================
