-------------------------- MODULE MCLineTransport --------------------------
(* A small outbound line: the size of the second frame wraps to less than a    *)
(* header, the last frame is lossy, the third fits with no other.              *)
EXTENDS LineTransport

FourBodies == <<60, 65532, 120, 60>>
LossyLast == {4}
=============================================================================
