---------------------------- MODULE MCEventBudget ----------------------------
(* EventBudget on small instances, scaled from the limits of the code.        *)
EXTENDS EventBudget
===============================================================================
