------------------------ MODULE MCOriginalRecordings ------------------------
(* OriginalRecordings on a small instance. *)
EXTENDS OriginalRecordings, TLC

RequestSymmetry == Permutations(Requests)
=============================================================================
