----------------------------- MODULE MCLeanRepl -----------------------------
(***************************************************************************)
(* Small instances of LeanRepl.                                            *)
(***************************************************************************)
EXTENDS LeanRepl

CONSTANTS t1, t2, mathlib, lean, noOne
=============================================================================
