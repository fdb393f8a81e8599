----------------------------- MODULE MCChatPage -----------------------------
(* Two rooms and one that is created meanwhile, and two moves beside the   *)
(* selection the address starts by itself.                                 *)
EXTENDS ChatPage

CONSTANTS r1, r2, r3

=============================================================================
