--------------------------- MODULE TracingConsent ---------------------------
(***************************************************************************)
(* What discovery promises the owner of a device about each repository on  *)
(* it: the device holds usable binding credentials only while the owner    *)
(* asks for tracing, tracing is shown only after the device was offered    *)
(* the binding of that very decision and acknowledged it, and everything   *)
(* else that happens takes the credentials away.                           *)
(* One step may move several repositories.                                 *)
(***************************************************************************)
CONSTANT Candidate

VARIABLES
    phase,      \* where the owner's decision about each repository stands
    usable      \* its credentials are accepted

Phases == {"off", "asked", "offered", "traced", "failed", "stopping"}

Init ==
    /\ phase = [c \in Candidate |-> "off"]
    /\ usable = [c \in Candidate |-> FALSE]

Moves(c, p, u) == phase'[c] = p /\ usable'[c] = u

Ask(c)      == Moves(c, "asked", usable[c])
Offer(c)    == phase[c] \in {"asked", "offered"} /\ Moves(c, "offered", TRUE)
Trace(c)    == phase[c] = "offered" /\ Moves(c, "traced", usable[c])
Fail(c)     == phase[c] = "offered" /\ Moves(c, "failed", FALSE)
Stop(c)     == Moves(c, "stopping", FALSE)
Stopped(c)  == phase[c] = "stopping" /\ Moves(c, "off", FALSE)
Withdraw(c) == Moves(c, "off", FALSE)      \* the repository no longer matches
Revoke(c)   == Moves(c, phase[c], FALSE)   \* by the owner of the project
Stay(c)     == Moves(c, phase[c], usable[c])

Step(c) ==
    \/ Ask(c) \/ Offer(c) \/ Trace(c) \/ Fail(c) \/ Stop(c)
    \/ Stopped(c) \/ Withdraw(c) \/ Revoke(c) \/ Stay(c)

Next ==
    /\ phase' \in [Candidate -> Phases]
    /\ usable' \in [Candidate -> BOOLEAN]
    /\ \A c \in Candidate : Step(c)

Spec == Init /\ [][Next]_<<phase, usable>>

\* Credentials are accepted only while the owner's decision is to trace.
ConsentGivesAccess ==
    \A c \in Candidate : usable[c] => phase[c] \in {"asked", "offered", "traced"}

=============================================================================
