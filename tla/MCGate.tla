------------------------------- MODULE MCGate -------------------------------
(* Gate with one request and one session beside the two workers: liveness   *)
(* excludes symmetry, and GateProofs has the safety of any number.          *)
EXTENDS Gate
=============================================================================
