----------------------- MODULE MCAccountRegistration -----------------------
(* AccountRegistration with one session: liveness excludes symmetry, and     *)
(* RegistrationProofs has the safety of any number.                          *)
EXTENDS AccountRegistration
=============================================================================
