---------------------------- MODULE MCCardReader -----------------------------
(* CardReader for TLC. *)
EXTENDS CardReader
=============================================================================
