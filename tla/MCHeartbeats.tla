---------------------------- MODULE MCHeartbeats ----------------------------
(***************************************************************************)
(* Instances of Heartbeats for TLC: peer 1 may be restarted once, and may  *)
(* trade its address with peer 3.                                          *)
(***************************************************************************)
EXTENDS Heartbeats, TLC

CONSTANTS a1, a2, a3

MCPool == (1 :> {a1, a3} @@ 2 :> {a2} @@ 3 :> {a1, a3})

MCMaxStops == (1 :> 1 @@ 2 :> 0 @@ 3 :> 0)
=============================================================================
