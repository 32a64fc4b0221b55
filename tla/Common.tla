------------------------------- MODULE Common -------------------------------
(* What the components beside the pipeline share: the null of every column. *)
CONSTANT None
=============================================================================
