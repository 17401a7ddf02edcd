------------------------------ MODULE SlotPool ------------------------------
(***************************************************************************)
(* What a bounded pool of slots promises its clients: at most Slots of     *)
(* them are inside at a time, nobody waits while a slot is free, at most   *)
(* Places wait, and a slot that is given up while somebody waits passes to *)
(* a waiting client in the same step.                                      *)
(***************************************************************************)
EXTENDS Naturals, FiniteSets

CONSTANTS Client, Slots, Places

VARIABLES
    inside,     \* clients that own a slot
    waiting     \* clients that were promised one

Init == inside = {} /\ waiting = {}

Enter(c) ==
    /\ c \notin inside \cup waiting
    /\ Cardinality(inside) < Slots
    /\ inside' = inside \cup {c}
    /\ UNCHANGED waiting

Wait(c) ==
    /\ c \notin inside \cup waiting
    /\ Cardinality(inside) >= Slots
    /\ Cardinality(waiting) < Places
    /\ waiting' = waiting \cup {c}
    /\ UNCHANGED inside

GiveUp(c) ==
    /\ c \in waiting
    /\ waiting' = waiting \ {c}
    /\ UNCHANGED inside

HandOver(c, d) ==
    /\ c \in inside /\ d \in waiting
    /\ inside' = (inside \ {c}) \cup {d}
    /\ waiting' = waiting \ {d}

Leave(c) ==
    /\ c \in inside /\ waiting = {}
    /\ inside' = inside \ {c}
    /\ UNCHANGED waiting

Next ==
    \E c \in Client :
        \/ Enter(c) \/ Wait(c) \/ GiveUp(c) \/ Leave(c)
        \/ \E d \in Client : HandOver(c, d)

Spec == Init /\ [][Next]_<<inside, waiting>>

=============================================================================
