----------------------------- MODULE MCHubClient -----------------------------
(* Instances of HubClient for TLC: the two connections that a page builds  *)
(* when it mounts, and one more.                                           *)
EXTENDS HubClient, TLC

CONSTANTS c1, c2, c3
=============================================================================
