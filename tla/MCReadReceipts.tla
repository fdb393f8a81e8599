---------------------------- MODULE MCReadReceipts ----------------------------
(* Instances of ReadReceipts for TLC: ann and bea are members; ann's page  *)
(* may have to reconnect, and bea may have two pages.                      *)
EXTENDS ReadReceipts, TLC

CONSTANTS ann, bea, a1, a2, b1, b2

MCUserOf == [c \in Conn |-> IF c \in {a1, a2} THEN ann ELSE bea]
=============================================================================
