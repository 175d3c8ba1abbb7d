------------------------------ MODULE MCOwnLedger ------------------------------
(* A small instance of OwnLedger. *)
EXTENDS OwnLedger
================================================================================
