---------------------------- MODULE MCReplySender ----------------------------
(* ReplySender on the two lengths that differ: a reply that SetBuf cut to  *)
(* nothing, and one that may take two writes.                              *)
EXTENDS ReplySender

SomeLens == {0, 2}
=============================================================================
