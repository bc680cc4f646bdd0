------------------------------- MODULE MCConsole -------------------------------
(***************************************************************************)
(* Instances of Console for TLC.                                            *)
(***************************************************************************)
EXTENDS Console

Asked == {"open", "close", "shutdown"}
================================================================================
