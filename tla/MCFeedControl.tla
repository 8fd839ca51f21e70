--------------------------- MODULE MCFeedControl ---------------------------
(* Small instances of FeedControl for TLC. *)
EXTENDS FeedControl

=============================================================================
