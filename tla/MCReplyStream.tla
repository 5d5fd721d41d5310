--------------------------- MODULE MCReplyStream ---------------------------
(* Both services; five requests overrun a channel of two answers.            *)
EXTENDS ReplyStream
============================================================================
