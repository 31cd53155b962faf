---------------------------- MODULE MCDelayQueue ----------------------------
(***************************************************************************)
(* Delay queues for TLC: three elements, two with the same deadline, so    *)
(* that an addition goes before, between and behind what is queued; two    *)
(* takers, so that one notification must wake both; two clients, so that   *)
(* one may remove what the other has not yet notified of.                  *)
(***************************************************************************)
EXTENDS DelayQueue, TLC

CONSTANTS early, late, tied, t1, t2, c1, c2

TwoTakers == {t1, t2}
TwoClients == {c1, c2}
ThreeItems == {early, late, tied}
Deadlines == early :> 1 @@ late :> 2 @@ tied :> 2
=============================================================================
