--------------------------- MODULE MCLedgerRuntime ---------------------------
(***************************************************************************)
(* Small instances of LedgerRuntime: a production daemon and one started   *)
(* for another instance, on the same file.                                 *)
(***************************************************************************)
EXTENDS LedgerRuntime, TLC

CONSTANTS prodDaemon, uatDaemon, prod, uat, untagged, id1, id2, id3

MCInstanceOf == (prodDaemon :> prod) @@ (uatDaemon :> uat)
=============================================================================
