---------------------------- MODULE MCChatClient ----------------------------
(* One room, the user and one peer, a link and the connection its page    *)
(* leaked.                                                                  *)
EXTENDS ChatClient

CONSTANTS r1, r2, ann, bea, c1, c2

=============================================================================
