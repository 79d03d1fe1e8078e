--------------------------- MODULE MCRenewalTiming ---------------------------
(* RenewalTiming on small instances: one short lifetime and two windows, one  *)
(* of them past when it is first read.                                        *)
EXTENDS RenewalTiming

MCLife == [start |-> 1, end |-> 6]
MCWindows == {[start |-> 1, end |-> 2], [start |-> 3, end |-> 6]}
===============================================================================
