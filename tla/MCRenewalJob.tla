---------------------------- MODULE MCRenewalJob ----------------------------
(* RenewalJob with two records. *)
EXTENDS RenewalJob

MCRows == {1, 2}
=============================================================================
