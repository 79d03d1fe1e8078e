------------------------------ MODULE MCDnsPlan ------------------------------
(* DnsPlan with one record, the delays scaled to a few seconds.               *)
EXTENDS DnsPlan
===============================================================================
