------------------------------ MODULE TicketLife ------------------------------
(***************************************************************************)
(* What the desk promises about the life of each ticket, whoever serves    *)
(* it: who may own it and which changes of hands and of status exist.      *)
(* SupportDesk implements the strict life while its handlers run one after *)
(* the other, and the loose one however they overlap.                      *)
(***************************************************************************)
CONSTANTS Ticket, Person, Bot, Nobody,
          Serves        \* the pairs <<person, region>> the region rules allow

VARIABLES
    life,   \* ticket -> [stat, owner, region, by]
    held    \* ticket -> the states of it that somebody has read and may still change

Ongoing(x) == x.stat \in {"Open", "InProgress"}

Init == \A t \in Ticket : life[t].stat = "none" /\ life[t].owner = Nobody

MayOwn(a, rg) == a \in Person => <<a, rg>> \in Serves

(* Region and requester are settled when the ticket is opened. *)
Keeps(x, y) == y.region = x.region /\ y.by = x.by

Ask(x, y)  == x.stat = "none" /\ y.stat = "Open"

(* A person takes over what the bot held. *)
Take(x, y) == Ongoing(x) /\ x.owner = Bot /\ y.owner \in Person /\ y.stat = "InProgress"

(* The owner leaves: another one goes on, or the ticket waits again. *)
HandOver(x, y) ==
    /\ Ongoing(x) /\ x.owner # Nobody
    /\ y.stat = IF y.owner = Nobody THEN "Open" ELSE "InProgress"

Transfer(x, y) == x.stat # "none" /\ y.stat = "Transferred" /\ y.owner # Nobody

Close(x, y) == x.stat # "none" /\ y.stat = "Closed" /\ y.owner = x.owner

(* The owner's row is deleted, and its tickets, the closed ones too, move on. *)
Inherit(x, y) == x.stat # "none" /\ x.owner # Nobody /\ y.stat = x.stat

Step(x, y) ==
    /\ MayOwn(y.owner, y.region)
    /\ \/ Ask(x, y)
       \/ Keeps(x, y) /\ \/ Take(x, y) \/ HandOver(x, y) \/ Transfer(x, y)
                         \/ Close(x, y) \/ Inherit(x, y)

Next == \A t \in Ticket : life'[t] # life[t] => Step(life[t], life'[t])

Spec == Init /\ [][Next]_life

-----------------------------------------------------------------------------
(* What is left of it when handlers overlap: a ticket changes by a step of the
   strict life, but from a state that somebody has read before, and only the
   columns this step changes reach the ticket as it is now.                *)

(* Who has read a ticket as nobody's may give it an owner, its status as it is:
   the sweep finds by the database what it remembers otherwise. *)
Adopt(v, w) == v.stat # "none" /\ v.owner = Nobody /\ w.stat = v.stat /\ MayOwn(w.owner, w.region)

Statuses == {"Open", "InProgress", "Closed", "Transferred"}

Merged(x, v, w) == [x EXCEPT !.stat  = IF w.stat  # v.stat  THEN w.stat  ELSE @,
                             !.owner = IF w.owner # v.owner THEN w.owner ELSE @]

Stays(t) == life'[t] = life[t] /\ held'[t] \subseteq held[t] \cup {life[t]}

Opens(t) == Ask(life[t], life'[t]) /\ MayOwn(life'[t].owner, life'[t].region) /\ held'[t] = {}

Moves(t) ==
    \E v \in held[t], s \in Statuses, o \in Person \cup {Bot, Nobody} :
        LET w == [v EXCEPT !.stat = s, !.owner = o]
        IN /\ Step(v, w) \/ Adopt(v, w)
           /\ life'[t] = Merged(life[t], v, w)
           /\ held'[t] \subseteq held[t] \cup {life'[t], w}

LooseInit == Init /\ \A t \in Ticket : held[t] = {}
LooseNext == \A t \in Ticket : Stays(t) \/ Opens(t) \/ Moves(t)

LooseSpec == LooseInit /\ [][LooseNext]_<<life, held>>
=============================================================================
