----------------------------- MODULE MCTaskDispatch -----------------------------
(* A small instance of TaskDispatch. *)
EXTENDS TaskDispatch
================================================================================
