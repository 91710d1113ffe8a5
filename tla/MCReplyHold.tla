---------------------------- MODULE MCReplyHold ----------------------------
(* ReplyHold for TLC: every constant is given in the configuration. *)
EXTENDS ReplyHold
=============================================================================
