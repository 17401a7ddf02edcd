------------------------------ MODULE Discovery ------------------------------
(***************************************************************************)
(* Repository discovery, selection and leased device work of ONE enrolled  *)
(* device (lib/tracemini-discovery.ts and the link operation of            *)
(* lib/tracemini-node-git.ts).                                             *)
(*                                                                         *)
(* Every handler of the source is one PostgreSQL transaction that locks    *)
(* the device row first, so every action below is one transaction.  A      *)
(* handler that raises rolls back: it is an action that is not enabled.    *)
(* Devices share no rows but the projects, so one device is modelled.      *)
(*                                                                         *)
(* The device itself is not trusted to be timely: `issued' only grows, so  *)
(* a work item handed out by a poll may be answered late, twice, out of    *)
(* order or never.                                                         *)
(***************************************************************************)
EXTENDS Naturals, FiniteSets

CONSTANTS
    Candidate,     \* repositories on the device: (device, repository key, fingerprint)
    Project,       \* projects of the device's company
    Key,           \* canonical repository keys
    None,          \* SQL null
    KeyOf,         \* repository key of each candidate
    LocalKey,      \* the `local:' keys, of repositories without a hosted remote
    PushId,        \* rows of the pending push table
    \* Bounds on the environment, named in the guards that use them
    MaxRevision,   \* users stop selecting and linking at this revision
    MaxScan,       \* scans a user requests
    MaxExpiry,     \* timeouts that elapse although the device holds the work
    MaxCrash       \* crashes of the device

ASSUME DiscoveryAssumption ==
    /\ None \notin Project
    /\ None \notin Key
    /\ None \notin Candidate
    /\ KeyOf \in [Candidate -> Key]
    /\ LocalKey \subseteq Key
    /\ MaxRevision \in Nat
    /\ MaxScan \in Nat
    /\ MaxExpiry \in Nat
    /\ MaxCrash \in Nat

VARIABLES
    \* what other parts of the portal decide
    device,        \* "active" or "revoked"
    access,        \* approved projects the device's user owns or is an active member of
    remote,        \* git_repository_key of each project, None until attached
    \* tracemini_repository_candidates, column by column
    known,         \* candidates that have a row
    matched, status, explicit, tracking, revision,
    \* the other tables, one row per candidate
    sel,           \* tracemini_repository_selections
    tracked,       \* tracemini_tracked_repositories: its project, None without a row
    root,          \* project_tracemini_roots row with the candidate's root hash
    scan,          \* the newest row of tracemini_scan_requests
    push,          \* tracemini_pending_pushes
    \* the device and the clock
    issued,        \* work items that polls handed out and the device still holds
    claims,        \* polls that handed out work: source of fresh claim tokens
    scans,         \* scans requested so far
    expiries,      \* timeouts that elapsed so far
    crashes        \* crashes so far

authority == <<device, access, remote>>
candidates == <<known, matched, status, explicit, tracking, revision>>
clock == <<claims, scans, expiries, crashes>>
vars == <<authority, candidates, sel, tracked, root, scan, push, issued, clock>>

-----------------------------------------------------------------------------
(* Rows *)

Lease == {"free", "held", "stale"}       \* claimed_at: null, recent, older than 10 minutes

Selection == [desired: BOOLEAN, revision: Nat, lease: Lease, token: Nat, completed: BOOLEAN]

\* A candidate nobody selected yet.  No candidate has revision 0.
NoSelection ==
    [desired |-> FALSE, revision |-> 0, lease |-> "free", token |-> 0, completed |-> TRUE]

Root == [project: Project \cup {None}, approved: BOOLEAN]
NoRoot == [project |-> None, approved |-> FALSE]

ScanState == {"none", "queued", "running", "completed", "error"}
Scan == [state: ScanState, lease: Lease, token: Nat]

Push == [candidate: Candidate \cup {None}, status: {"none", "pending", "verified", "failed"},
         due: BOOLEAN, token: Nat]
NoPush == [candidate |-> None, status |-> "none", due |-> FALSE, token |-> 0]

\* What a poll returns.  Push and scan items carry no revision.
Work == [kind: {"scan", "selection", "push"}, id: Candidate \cup PushId \cup {None},
         revision: Nat, token: Nat]
ScanWork(t) == [kind |-> "scan", id |-> None, revision |-> 0, token |-> t]
SelectionWork(c, t) == [kind |-> "selection", id |-> c, revision |-> sel[c].revision, token |-> t]
PushWork(i, t) == [kind |-> "push", id |-> i, revision |-> 0, token |-> t]

-----------------------------------------------------------------------------
(* Matching a candidate to a project *)

\* Approved projects of the user that claim the candidate: the explicitly
\* linked one, or those whose remote is the candidate's repository.
Matches(c) ==
    {p \in access : IF explicit[c] # None THEN p = explicit[c] ELSE remote[p] = KeyOf[c]}

Unique(S) == \E p \in S : S = {p}

AuthorizedMatch(c) ==
    IF Unique(Matches(c)) THEN CHOOSE p \in Project : Matches(c) = {p} ELSE None

MatchStatus(c) ==
    IF Matches(c) = {} THEN "unmatched"
    ELSE IF Unique(Matches(c)) THEN "matched" ELSE "ambiguous"

\* Mutant: the update forgets its root hash condition.
RevokeRootsOfDevice(S) ==
    [c \in Candidate |-> IF S # {} THEN [root[c] EXCEPT !.approved = FALSE] ELSE root[c]]

RevokeRoots(S) ==
    [c \in Candidate |-> IF c \in S THEN [root[c] EXCEPT !.approved = FALSE] ELSE root[c]]

-----------------------------------------------------------------------------
Init ==
    /\ device = "active"
    /\ access = {}
    /\ remote = [p \in Project |-> None]
    /\ known = {}
    /\ matched = [c \in Candidate |-> None]
    /\ status = [c \in Candidate |-> "unmatched"]
    /\ explicit = [c \in Candidate |-> None]
    /\ tracking = [c \in Candidate |-> "unselected"]
    /\ revision = [c \in Candidate |-> 1]
    /\ sel = [c \in Candidate |-> NoSelection]
    /\ tracked = [c \in Candidate |-> None]
    /\ root = [c \in Candidate |-> NoRoot]
    /\ scan = [state |-> "none", lease |-> "free", token |-> 0]
    /\ push = [i \in PushId |-> NoPush]
    /\ issued = {}
    /\ claims = 0
    /\ scans = 0
    /\ expiries = 0
    /\ crashes = 0

-----------------------------------------------------------------------------
(* Authority.  The portal only ever adds to it: no operation withdraws an   *)
(* active membership or an approval, and an attached remote is immutable.   *)

GrantAccess(p) ==
    /\ p \notin access
    /\ access' = access \cup {p}
    /\ UNCHANGED <<device, remote, candidates, sel, tracked, root, scan, push, issued, clock>>

AttachProjectGitRemote(p, k) ==
    /\ remote[p] = None /\ k \notin LocalKey
    /\ remote' = [remote EXCEPT ![p] = k]
    /\ UNCHANGED <<device, access, candidates, sel, tracked, root, scan, push, issued, clock>>

RevokeDevice ==
    /\ device = "active"
    /\ device' = "revoked"
    /\ UNCHANGED <<access, remote, candidates, sel, tracked, root, scan, push, issued, clock>>

\* A project owner withdraws one approved root; candidate and selection stay.
RevokeTraceMiniRoot(c) ==
    /\ root[c].approved
    /\ root' = RevokeRoots({c})
    /\ UNCHANGED <<authority, candidates, sel, tracked, scan, push, issued, clock>>

-----------------------------------------------------------------------------
(* The browser *)

\* A request made while one is queued or running joins it.
CreateRepositoryScan ==
    /\ device = "active"
    /\ scan.state \notin {"queued", "running"}
    /\ scans < MaxScan
    /\ scan' = [state |-> "queued", lease |-> "free", token |-> 0]
    /\ scans' = scans + 1
    /\ UNCHANGED <<authority, candidates, sel, tracked, root, push, issued, claims, expiries,
                   crashes>>

\* rev is the revision the browser loaded.
SelectRepositoryCandidate(c, desired, rev) ==
    /\ device = "active"
    /\ c \in known
    /\ desired => AuthorizedMatch(c) # None
    /\ revision[c] = rev
    /\ rev < MaxRevision
    /\ tracking' = [tracking EXCEPT ![c] = "pending"]
    /\ revision' = [revision EXCEPT ![c] = rev + 1]
    /\ sel' = [sel EXCEPT ![c] = [desired |-> desired, revision |-> rev + 1,
                                  lease |-> "free", token |-> 0, completed |-> FALSE]]
    /\ root' = IF desired THEN root ELSE RevokeRoots({c})
    /\ UNCHANGED <<authority, known, matched, status, explicit, tracked, scan, push,
                   issued, clock>>

\* Mutant: the candidate's state alone is asked, not the device's answer.
StopRequested(c) == tracking[c] # "tracking"

\* Nothing on the device may still be attributed to the previous project.
StopAcknowledged(c) ==
    /\ tracking[c] # "tracking"
    /\ ~sel[c].desired /\ sel[c].completed
    /\ tracked[c] = None

LinkCandidate(c, p, rev) ==
    /\ device = "active"
    /\ c \in known
    /\ p \in access
    /\ revision[c] = rev
    /\ rev < MaxRevision
    /\ StopAcknowledged(c)
    /\ KeyOf[c] \notin LocalKey
    /\ root' = RevokeRoots({c})
    /\ explicit' = [explicit EXCEPT ![c] = p]
    /\ matched' = [matched EXCEPT ![c] = p]
    /\ status' = [status EXCEPT ![c] = "matched"]
    /\ tracking' = [tracking EXCEPT ![c] = "unselected"]
    /\ revision' = [revision EXCEPT ![c] = rev + 1]
    /\ UNCHANGED <<authority, known, sel, tracked, scan, push, issued, clock>>

-----------------------------------------------------------------------------
(* The device polls for work *)

ScanDue ==
    \/ scan.state = "queued"
    \/ scan.state = "running" /\ scan.lease # "held"

\* Mutants: a superseded selection is handed out; a completed one is; a
\* lost one is not.
SelectionsDueAnyRevision == {c \in known : ~sel[c].completed /\ sel[c].lease # "held"}
SelectionsDueCompleted ==
    {c \in known : sel[c].revision = revision[c] /\ sel[c].lease # "held"}
SelectionsDueOnce ==
    {c \in known : sel[c].revision = revision[c] /\ ~sel[c].completed /\ sel[c].lease = "free"}

SelectionsDue ==
    {c \in known : /\ sel[c].revision = revision[c]
                   /\ ~sel[c].completed
                   /\ sel[c].lease # "held"}

\* Wanted, but no longer (or not uniquely) matched to a project of the user.
Refused == {c \in SelectionsDue : sel[c].desired /\ AuthorizedMatch(c) = None}
Granted == SelectionsDue \ Refused
Bound == {c \in Granted : sel[c].desired}

PushesDue == {i \in PushId : push[i].status = "pending" /\ push[i].due}

\* The root table holds one row per (project, device, root hash), which is
\* what the upsert of deviceBinding resolves, AND one row per (device, root
\* hash): binding a candidate to another project than before raises.
BindingConflict(c) == root[c].project \notin {None, AuthorizedMatch(c)}

ClaimDeviceWork ==
    LET token == claims + 1 IN
    /\ device = "active"
    /\ ScanDue \/ SelectionsDue # {} \/ PushesDue # {}
    /\ ~\E c \in Bound : BindingConflict(c)
    /\ scan' = IF ScanDue THEN [state |-> "running", lease |-> "held", token |-> token] ELSE scan
    /\ sel' = [c \in Candidate |->
                 IF c \in SelectionsDue THEN [sel[c] EXCEPT !.lease = "held", !.token = token]
                                        ELSE sel[c]]
    /\ matched' = [c \in Candidate |->
                     IF c \in SelectionsDue THEN AuthorizedMatch(c) ELSE matched[c]]
    /\ status' = [c \in Candidate |-> IF c \in Refused THEN "unmatched" ELSE status[c]]
    /\ tracking' = [c \in Candidate |-> IF c \in Refused THEN "stopped" ELSE tracking[c]]
    /\ revision' = [c \in Candidate |-> IF c \in Refused THEN revision[c] + 1 ELSE revision[c]]
    /\ root' = [c \in Candidate |->
                  IF c \in Bound THEN [project |-> AuthorizedMatch(c), approved |-> TRUE]
                  ELSE RevokeRoots(Refused)[c]]
    /\ push' = [i \in PushId |->
                  IF i \in PushesDue THEN [push[i] EXCEPT !.due = FALSE, !.token = token]
                                     ELSE push[i]]
    /\ issued' = issued \cup (IF ScanDue THEN {ScanWork(token)} ELSE {})
                        \cup {SelectionWork(c, token) : c \in Granted}
                        \cup {PushWork(i, token) : i \in PushesDue}
    /\ claims' = token
    /\ UNCHANGED <<authority, known, explicit, tracked, scans, expiries, crashes>>

\* The device still holds the work of the claim with this token.
Held(token) == \E w \in issued : w.token = token

\* Ten minutes pass on a lease, five on a push that was handed out.  They always
\* do when the device lost the work; MaxExpiry bounds the rest.
Elapse(token) ==
    IF Held(token) THEN expiries < MaxExpiry /\ expiries' = expiries + 1
                   ELSE UNCHANGED expiries

ScanLeaseExpires ==
    /\ scan.state = "running" /\ scan.lease = "held"
    /\ Elapse(scan.token)
    /\ scan' = [scan EXCEPT !.lease = "stale"]
    /\ UNCHANGED <<authority, candidates, sel, tracked, root, push, issued, claims, scans, crashes>>

SelectionLeaseExpires(c) ==
    /\ ~sel[c].completed /\ sel[c].lease = "held"
    /\ Elapse(sel[c].token)
    /\ sel' = [sel EXCEPT ![c].lease = "stale"]
    /\ UNCHANGED <<authority, candidates, tracked, root, scan, push, issued, claims, scans, crashes>>

PushCheckDue(i) ==
    /\ push[i].status = "pending" /\ ~push[i].due
    /\ Elapse(push[i].token)
    /\ push' = [push EXCEPT ![i].due = TRUE]
    /\ UNCHANGED <<authority, candidates, sel, tracked, root, scan, issued, claims, scans, crashes>>

\* Work in hand lives in the memory of the polling process, or in a response
\* that never arrived.
DeviceCrash ==
    /\ crashes < MaxCrash /\ issued # {}
    /\ crashes' = crashes + 1
    /\ issued' = {}
    /\ UNCHANGED <<authority, candidates, sel, tracked, root, scan, push, claims, scans, expiries>>

-----------------------------------------------------------------------------
(* The device answers *)

\* The stored match is compared with the recomputed one, project and status.
MatchMoved(c) == matched[c] # AuthorizedMatch(c) \/ status[c] # MatchStatus(c)

\* A device publishes what a scan found, as often as the scan's lease lets it.
\* The match of every published candidate is recomputed; a candidate whose
\* stored match disagrees loses its selection.
PublishRepositoryCandidates(w, repositories) ==
    LET moved == {c \in repositories : MatchMoved(c)} IN
    /\ device = "active"
    /\ w.kind = "scan"
    /\ scan.state = "running" /\ scan.token = w.token
    /\ known' = known \cup repositories
    /\ matched' = [c \in Candidate |-> IF c \in moved THEN AuthorizedMatch(c) ELSE matched[c]]
    /\ status' = [c \in Candidate |-> IF c \in moved THEN MatchStatus(c) ELSE status[c]]
    /\ revision' = [c \in Candidate |-> IF c \in moved THEN revision[c] + 1 ELSE revision[c]]
    /\ tracking' = [c \in Candidate |-> IF c \in moved THEN "unselected" ELSE tracking[c]]
    /\ tracked' = [c \in Candidate |-> IF c \in moved THEN None ELSE tracked[c]]
    /\ root' = RevokeRoots(moved)
    /\ UNCHANGED <<authority, explicit, sel, scan, push, issued, clock>>

CompleteScan(w, error) ==
    /\ device = "active"
    /\ w.kind = "scan"
    /\ scan.state = "running" /\ scan.token = w.token
    /\ scan' = [scan EXCEPT !.state = IF error THEN "error" ELSE "completed"]
    /\ UNCHANGED <<authority, candidates, sel, tracked, root, push, issued, clock>>

\* Mutant: the candidate's revision may have moved on.
CurrentLeaseAnyRevision(w) ==
    /\ w.kind = "selection"
    /\ w.id \in known
    /\ sel[w.id].revision = w.revision
    /\ sel[w.id].token = w.token
    /\ ~sel[w.id].completed

\* The lease the device answers for is still the current one.
CurrentLease(w) ==
    /\ w.kind = "selection"
    /\ w.id \in known
    /\ sel[w.id].revision = w.revision /\ revision[w.id] = w.revision
    /\ sel[w.id].token = w.token
    /\ ~sel[w.id].completed

\* isTracked and error are what the device reports.
CompleteSelection(w, isTracked, error) ==
    LET c == w.id IN
    /\ device = "active"
    /\ CurrentLease(w)
    /\ ~error => sel[c].desired = isTracked
    /\ error => ~isTracked /\ sel[c].desired
    /\ isTracked => matched[c] # None /\ AuthorizedMatch(c) = matched[c]
    /\ root' = IF isTracked THEN root ELSE RevokeRoots({c})
    /\ tracking' = [tracking EXCEPT ![c] = IF isTracked THEN "tracking" ELSE "stopped"]
    /\ tracked' = [tracked EXCEPT ![c] = IF isTracked THEN matched[c] ELSE None]
    /\ sel' = [sel EXCEPT ![c].completed = TRUE]
    /\ UNCHANGED <<authority, known, matched, status, explicit, revision, scan, push,
                   issued, clock>>

\* A managed Git hook reports a push of a tracked clone.
CreatePendingPush(i, c) ==
    /\ device = "active"
    /\ push[i].status = "none"
    /\ c \in known /\ tracked[c] # None /\ tracking[c] = "tracking"
    /\ push' = [push EXCEPT ![i] = [candidate |-> c, status |-> "pending",
                                    due |-> TRUE, token |-> 0]]
    /\ UNCHANGED <<authority, candidates, sel, tracked, root, scan, issued, clock>>

OpenPush(w) ==
    /\ w.kind = "push"
    /\ push[w.id].status = "pending" /\ push[w.id].token = w.token

\* outcome "pending" leaves the row for the next check.
CompletePush(w, outcome) ==
    /\ device = "active"
    /\ OpenPush(w)
    /\ push' = [push EXCEPT ![w.id].status = outcome]
    /\ UNCHANGED <<authority, candidates, sel, tracked, root, scan, issued, clock>>

-----------------------------------------------------------------------------
Portal ==
    \/ \E p \in Project : GrantAccess(p)
    \/ \E p \in Project, k \in Key : AttachProjectGitRemote(p, k)
    \/ RevokeDevice
    \/ \E c \in Candidate : RevokeTraceMiniRoot(c)

Browser ==
    \/ CreateRepositoryScan
    \/ \E c \in Candidate, desired \in BOOLEAN, rev \in 1..MaxRevision :
          SelectRepositoryCandidate(c, desired, rev)
    \/ \E c \in Candidate, p \in Project, rev \in 1..MaxRevision : LinkCandidate(c, p, rev)

Answer(w) ==
    \/ \E repositories \in SUBSET Candidate : PublishRepositoryCandidates(w, repositories)
    \/ \E error \in BOOLEAN : CompleteScan(w, error)
    \/ \E isTracked, error \in BOOLEAN : CompleteSelection(w, isTracked, error)
    \/ \E outcome \in {"pending", "verified", "failed"} : CompletePush(w, outcome)

Device ==
    \/ ClaimDeviceWork
    \/ \E w \in issued : Answer(w)
    \/ \E i \in PushId, c \in Candidate : CreatePendingPush(i, c)

Time ==
    \/ ScanLeaseExpires
    \/ \E c \in Candidate : SelectionLeaseExpires(c)
    \/ \E i \in PushId : PushCheckDue(i)

Next == Portal \/ Browser \/ Device \/ Time \/ DeviceCrash

Spec == Init /\ [][Next]_vars

\* The agent service polls on a timer and answers what it was handed; a lease
\* it lost to a crash is handed out again when it goes stale.
AnswersSelection(c) ==
    \E w \in issued, isTracked \in BOOLEAN :
        w.id = c /\ CompleteSelection(w, isTracked, FALSE)
ReportsActivationFailure(c) ==
    \E w \in issued : w.id = c /\ CompleteSelection(w, FALSE, TRUE)
AnswersScan == \E w \in issued, error \in BOOLEAN : CompleteScan(w, error)

Fairness ==
    /\ WF_vars(ClaimDeviceWork)
    /\ WF_vars(AnswersScan)
    /\ WF_vars(ScanLeaseExpires)
    /\ \A c \in Candidate :
          /\ WF_vars(AnswersSelection(c) \/ ReportsActivationFailure(c))
          /\ WF_vars(SelectionLeaseExpires(c))

FairSpec == Spec /\ Fairness

-----------------------------------------------------------------------------
(* Properties *)

TypeOK ==
    /\ device \in {"active", "revoked"}
    /\ access \subseteq Project
    /\ remote \in [Project -> Key \cup {None}]
    /\ known \subseteq Candidate
    /\ matched \in [Candidate -> Project \cup {None}]
    /\ status \in [Candidate -> {"matched", "unmatched", "ambiguous"}]
    /\ explicit \in [Candidate -> Project \cup {None}]
    /\ tracking \in [Candidate -> {"unselected", "pending", "tracking", "stopped"}]
    /\ revision \in [Candidate -> Nat \ {0}]
    /\ sel \in [Candidate -> Selection]
    /\ tracked \in [Candidate -> Project \cup {None}]
    /\ root \in [Candidate -> Root]
    /\ scan \in Scan
    /\ push \in [PushId -> Push]
    /\ issued \subseteq Work
    /\ claims \in Nat /\ scans \in Nat /\ expiries \in Nat /\ crashes \in Nat

\* The candidate's newest revision is the selection's: it is the decision in force.
InForce(c) == sel[c].revision = revision[c]

\* Where the owner's decision about a candidate stands.
Phase(c) ==
    IF ~InForce(c) THEN "off"
    ELSE IF ~sel[c].desired THEN IF sel[c].completed THEN "off" ELSE "stopping"
    ELSE IF ~sel[c].completed THEN IF sel[c].lease = "free" THEN "asked" ELSE "offered"
    ELSE IF tracking[c] = "tracking" THEN "traced" ELSE "failed"

Consent == INSTANCE TracingConsent WITH
    phase <- [c \in Candidate |-> Phase(c)],
    usable <- [c \in Candidate |-> root[c].approved]

\* Every transaction of the portal, and every answer of the device, is a step
\* (or several at once) of the consent the owner of the device was promised.
ImplementsConsent == Consent!Spec

\* A device holds usable binding credentials for a repository only while its
\* user's decision in force is to trace that repository into that project
\* (selectRepositoryCandidate, publishRepositoryCandidates, completeDeviceWork
\* and the link operation all have to revoke in the same transaction).
BoundBySelection(c) ==
    root[c].approved =>
        /\ InForce(c) /\ sel[c].desired
        /\ matched[c] # None /\ matched[c] = root[c].project

BindingFollowsSelection == \A c \in Candidate : BoundBySelection(c)

\* A candidate's row says tracking only when the device acknowledged the
\* decision in force, for a project the user may reach, under the root that
\* was bound to that same project (the owner may have revoked it since).
Acknowledged(c) ==
    tracking[c] = "tracking" =>
        /\ InForce(c) /\ sel[c].desired /\ sel[c].completed
        /\ tracked[c] # None /\ tracked[c] = matched[c]
        /\ tracked[c] \in access
        /\ root[c].project = tracked[c]

\* What the browser is told: the state of the list, which is derived from the
\* authority of the moment, and with it that of the page.
Listed(c) ==
    IF AuthorizedMatch(c) = None \/ AuthorizedMatch(c) # matched[c] THEN "unselected"
    ELSE IF tracking[c] = "tracking" /\ root[c] # [project |-> AuthorizedMatch(c), approved |-> TRUE]
         THEN "stopped" ELSE tracking[c]

Shown(c) ==
    LET asked == InForce(c) /\ ~sel[c].completed
        desired == InForce(c) /\ sel[c].desired
        tracing == Listed(c) = "tracking"
    IN  [pending |-> asked, traced |-> IF asked THEN ~desired ELSE tracing,
         error |-> InForce(c) /\ ~asked /\ desired # tracing]

\* A repository whose decision was answered is shown as traced only if the
\* device has usable credentials for just that project; and one for which it
\* has credentials never looks untraced without an error next to it.
PageIsHonest(c) ==
    /\ Shown(c).traced /\ ~Shown(c).pending =>
          /\ tracked[c] # None
          /\ root[c] = [project |-> tracked[c], approved |-> TRUE] /\ tracked[c] = AuthorizedMatch(c)
    /\ root[c].approved => Shown(c).pending \/ Shown(c).traced \/ Shown(c).error

TrackingIsAcknowledged == \A c \in Candidate : Acknowledged(c) /\ PageIsHonest(c)

\* A tracked row outlives its decision only while the stop is still owed to
\* the device: a candidate that is neither tracking nor about to be told to
\* stop has no tracked row after its selection completed.
Owed(c) ==
    tracked[c] # None =>
        /\ c \in known
        /\ InForce(c) /\ sel[c].completed => tracking[c] = "tracking"
        /\ ~InForce(c) => sel[c].desired /\ tracking[c] = "stopped"

TrackedRowIsOwed == \A c \in Candidate : Owed(c)

\* Changing the project of a candidate never takes a tracked clone or a
\* usable binding with it (the stop_acknowledgement_required guard of link).
RelinkLeavesNothingBehind ==
    [][\A c \in Candidate : explicit'[c] # explicit[c] =>
          tracked[c] = None /\ ~root[c].approved]_vars

\* A binding is withdrawn for its own candidate's sake: by its owner, by a new
\* decision about it, or by the answer to one.  Polls and scans handle many
\* candidates of the device in one transaction.
WithdrawnForOwnDecision ==
    [][\A c \in Candidate : root[c].approved /\ ~root'[c].approved =>
          \/ RevokeTraceMiniRoot(c)
          \/ revision'[c] > revision[c]
          \/ sel'[c].completed /\ ~sel[c].completed]_vars

\* An acknowledged decision is settled: whatever late, repeated or re-leased
\* answers arrive, its row changes again only with a newer revision.
AcknowledgementIsFinal ==
    [][\A c \in Candidate :
          sel[c].completed /\ sel'[c].revision = sel[c].revision => sel'[c] = sel[c]]_vars

\* A push row is settled once: verified or failed never changes again.
PushIsFinal ==
    [][\A i \in PushId : push[i].status \in {"verified", "failed"} => push'[i] = push[i]]_vars

\* Both: an answer of the device is never overtaken by a later answer to the
\* same question (completeDeviceWork).
AnswersAreFinal == AcknowledgementIsFinal /\ PushIsFinal

\* Selected again after it was linked to another project than the one its root
\* was first bound to: the upsert of deviceBinding raises, and rolls back the
\* poll, whatever else it would have handed out.
Pending(c) == c \in known /\ InForce(c) /\ ~sel[c].completed
Stuck(c) ==
    /\ Pending(c) /\ sel[c].desired
    /\ explicit[c] # None /\ root[c].project \notin {None, explicit[c]}
EveryPollRaises == \E c \in Candidate : Stuck(c)

\* A due selection of a polling device is acknowledged or superseded.
SelectionSettles ==
    \A c \in Candidate : Pending(c) ~> (~Pending(c) \/ device = "revoked" \/ EveryPollRaises)

\* A requested scan ends.
ScanSettles ==
    (scan.state \in {"queued", "running"}) ~>
        (scan.state \in {"completed", "error"} \/ device = "revoked" \/ EveryPollRaises)

\* A device that keeps polling and answering settles everything it is asked,
\* though it may crash with the work in its hands, and whatever is withdrawn or
\* claimed by another project meanwhile.  The one exception the code makes is
\* a relinked repository that is selected again: as long as that decision
\* stands every poll of the device raises, and NOTHING pending on it settles,
\* of no repository and no scan.
WorkSettles == SelectionSettles /\ ScanSettles

=============================================================================
