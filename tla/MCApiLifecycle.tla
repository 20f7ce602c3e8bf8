---------------------------- MODULE MCApiLifecycle ----------------------------
(* ApiLifecycle for TLC. *)
EXTENDS ApiLifecycle

CONSTANT l1
================================================================================
