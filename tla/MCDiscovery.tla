---------------------------- MODULE MCDiscovery ----------------------------
(***************************************************************************)
(* Instances of Discovery for TLC.  All candidates are clones of one       *)
(* repository: two projects that attach its remote are the ambiguous match *)
(* of the source, two candidates the two clones of one repository.         *)
(***************************************************************************)
EXTENDS Discovery, TLC

CONSTANTS k1, c1, p1

MCKeyOf == [c \in Candidate |-> k1]

\* Candidates share their key; projects differ in nothing but their name.
Symmetry == Permutations(Candidate) \cup Permutations(Project)

\* Later in the life of a device: two clones were traced into one project and
\* both were stopped.  A poll has just handed out one of them, selected again, and
\* a new scan, and the device may crash with the two; the other one may now be
\* linked to the second project and selected, or selected as it is.
MCAgain(c) == c # c1
MCStopped ==
    /\ device = "active" /\ access = Project /\ remote = [p \in Project |-> IF p = p1 THEN k1 ELSE None]
    /\ known = Candidate
    /\ matched = [c \in Candidate |-> p1]
    /\ status = [c \in Candidate |-> "matched"]
    /\ explicit = [c \in Candidate |-> None]
    /\ tracking = [c \in Candidate |-> IF MCAgain(c) THEN "pending" ELSE "stopped"]
    /\ revision = [c \in Candidate |-> IF MCAgain(c) THEN MaxRevision ELSE MaxRevision - 2]
    /\ sel = [c \in Candidate |->
                [desired |-> MCAgain(c), revision |-> revision[c], completed |-> ~MCAgain(c),
                 lease |-> "held", token |-> IF MCAgain(c) THEN 4 ELSE 3]]
    /\ tracked = [c \in Candidate |-> None]
    /\ root = [c \in Candidate |-> [project |-> p1, approved |-> MCAgain(c)]]
    /\ scan = [state |-> "running", lease |-> "held", token |-> 4]
    /\ push = [i \in PushId |-> NoPush]
    /\ issued = {ScanWork(4)} \cup {SelectionWork(c, 4) : c \in {d \in Candidate : MCAgain(d)}}
    /\ claims = 4 /\ scans = MaxScan /\ expiries = 0 /\ crashes = 0

MCLiveSpec == MCStopped /\ [][Next]_vars /\ Fairness

=============================================================================
