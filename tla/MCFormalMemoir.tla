--------------------------- MODULE MCFormalMemoir ---------------------------
(* The instance of FormalMemoir that TLC checks.  It states fairness, so   *)
(* runs and workers are not reduced by symmetry.                           *)
EXTENDS FormalMemoir
=============================================================================
