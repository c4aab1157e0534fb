---------------------------- MODULE MCMobileTurns ----------------------------
(* The instance of MobileTurns for TLC: one turn, whose runs, discards and *)
(* restarts interleave.  Turns meet only in enqueue, which OnePendingTurn  *)
(* is about; MobileTurnsProofs proves it for every set of turns.           *)
EXTENDS MobileTurns

=============================================================================
