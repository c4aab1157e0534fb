---------------------------- MODULE MCReplyTurn ----------------------------
(* Two attempts of one turn for TLC.                                       *)
EXTENDS ReplyTurn
=============================================================================
