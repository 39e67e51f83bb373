---------------------------- MODULE MCHousekeeping ----------------------------
(***************************************************************************)
(* A small instance of Housekeeping: of the papers every other one has a   *)
(* finite core.                                                            *)
(***************************************************************************)
EXTENDS Housekeeping

CONSTANT NPapers

MCPapers == 1 .. NPapers

MCCored == {p \in MCPapers : p % 2 = 1}
=============================================================================
