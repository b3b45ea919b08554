----------------------------- MODULE MCInspector -----------------------------
EXTENDS Inspector, TLC

CONSTANTS r1, r2

(* The upload of r2 is longer than the cap.  Two entries of r1 are too many *)
(* bytes with both their bodies, two of r2 even without them.              *)
MCSize == r1 :> [req |-> 1, res |-> 0] @@ r2 :> [req |-> 2, res |-> 0]
MCHeaderBytes == r1 :> 1 @@ r2 :> 2
=============================================================================
