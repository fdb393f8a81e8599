----------------------------- MODULE MCScreens ------------------------------
(* Two of everything that can be mistaken for another: rooms, groups, texts,*)
(* agents, tickets, chats.  One ticket has a region, one has none.          *)
EXTENDS Screens

CONSTANTS r1, r2, g1, g2, w1, w2, a1, a2, t1, t2, c1, c2, north

MCPlaceOf == [t \in Ticket |-> IF t = t1 THEN north ELSE Unset]

=============================================================================
