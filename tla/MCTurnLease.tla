---------------------------- MODULE MCTurnLease ----------------------------
(* TurnLease on a small instance. The liveness property is checked along with
   the invariants, so the sessions are not permuted. *)
EXTENDS TurnLease, TLC
=============================================================================
