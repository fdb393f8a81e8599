---------------------------- MODULE MCSupportDesk ----------------------------
(* Instances of SupportDesk for TLC. *)
EXTENDS SupportDesk, TLC

CONSTANTS a1, a2, north, south

(* a1 lives in the north; a2 in the south and helps out in the north. *)
MCHome  == (a1 :> north) @@ (a2 :> south) @@ (Bot :> NoRegion)
MCExtra == (a1 :> {}) @@ (a2 :> {north}) @@ (Bot :> {})

Slots == Permutations(Call) \cup Permutations(Requester \ Agent)
=============================================================================
