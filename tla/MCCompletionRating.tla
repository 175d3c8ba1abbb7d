--------------------------- MODULE MCCompletionRating ---------------------------
(* A small instance of CompletionRating. *)
EXTENDS CompletionRating
================================================================================
