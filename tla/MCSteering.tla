------------------------------ MODULE MCSteering ------------------------------
(***************************************************************************)
(* A small instance of Steering: a coarse band in which every window is    *)
(* above or below the aim.                                                 *)
(***************************************************************************)
EXTENDS Steering

MCJitters == <<0, 1>>
=============================================================================
