------------------------------ MODULE Telemetry ------------------------------
(***************************************************************************)
(* Git telemetry of a Node device, end to end: the owner's controls of     *)
(* lib/tracemini.ts, the operations of lib/tracemini-node-git.ts, and the  *)
(* device that calls them through packages/tracemini-cloud-adapter.        *)
(*                                                                         *)
(* The selections and leases are those of Discovery, whose transactions    *)
(* are reused as they are.  The device is no longer arbitrary: it is the   *)
(* vendored agent's loop (poll, drop what is no longer authorized, handle  *)
(* the selections one by one, confirm pushes, flush the queue) over the    *)
(* adapter's mapping files.  Hooks of a traced clone queue events at any   *)
(* time.                                                                   *)
(*                                                                         *)
(* A telemetry transaction is two actions: Begin reads and locks (`for     *)
(* update of c,s,r,p', after the device row), Commit writes.  What another *)
(* transaction may do in between is what Locks lets it do.  The device may *)
(* stop waiting for the answer at any moment (crash, or the 30 second      *)
(* timeout): the transaction then commits unheard.                         *)
(***************************************************************************)
EXTENDS Discovery

CONSTANTS
    Commit,        \* recent commits of a clone, imported when it is activated
    HookEvent,     \* what the managed Git hooks record
    MaxControl,    \* configuration saves and wipes
    MaxFault       \* crashes of the device and answers lost while it waits for them

ASSUME TelemetryAssumption ==
    /\ Commit \cap HookEvent = {} /\ Commit \cap PushId = {} /\ HookEvent \cap PushId = {}
    /\ None \notin Commit \cup HookEvent \cup PushId
    /\ Key # {}
    /\ MaxControl \in Nat /\ MaxFault \in Nat

VARIABLES
    \* the portal
    paused,        \* projects.tracemini_telemetry_paused
    epoch,         \* projects.tracemini_resume_epoch
    saves,         \* configuration saves that read the project and did not write it yet
    registered,    \* tracemini_node_registrations: revision and claim, 0 without a row
    events,        \* project_tracemini_events, one per root and event key
    tx,            \* the telemetry transaction between its read and its commit
    \* the device
    mapping,       \* the adapter's file of each repository: revision and claim
    hand,          \* work of the last poll that is not handled yet
    job,           \* where the loop stands
    clones,        \* project each traced clone is configured for
    siblings,      \* projects the device traces yet another repository of, left alone here
    queue,         \* the durable event queue
    \* history of the run
    recorded,      \* events the hooks recorded so far
    delivered,     \* events that were ever stored
    retired,       \* events recorded before an acknowledged stop, but for LeftBehind
    used, lost     \* saves and wipes, lost answers so far

controls == <<paused, epoch, saves, used, siblings>>
records == <<registered, events, delivered>>
agent == <<mapping, hand, job, clones, queue>>
ghosts == <<recorded, retired, lost>>
telemetry == <<controls, records, tx, agent, ghosts>>
all == <<vars, telemetry>>

Event == HookEvent \cup PushId \cup Commit
Grant == [revision : Nat, token : Nat]
NoGrant == [revision |-> 0, token |-> 0]
\* The adapter's file, with what its last work item asked for.
Mapping == [grant : Grant, desired : BOOLEAN, project : Project \cup {None}]
NoMapping == [grant |-> NoGrant, desired |-> FALSE, project |-> None]
Steps == {"idle", "poll", "register", "history", "install", "remove", "purge", "complete", "report"}
NoWork == [kind |-> "scan", id |-> None, revision |-> 0, token |-> 0]
Idle == [step |-> "idle", work |-> NoWork, sent |-> {}]
NoTx == [op |-> "none", cand |-> None, key |-> None, project |-> None, grant |-> NoGrant,
         work |-> NoWork, status |-> "none", heard |-> FALSE]

\* A project whose owner resumed telemetry; the repository of every candidate is
\* published and uniquely matched.
TelemetryInit ==
    \E home \in Project :
    /\ device = "active" /\ access = {home}
    /\ remote = [p \in Project |-> IF p = home THEN CHOOSE k \in Key : TRUE ELSE None]
    /\ known = Candidate
    /\ matched = [c \in Candidate |-> home]
    /\ status = [c \in Candidate |-> "matched"]
    /\ explicit = [c \in Candidate |-> None]
    /\ tracking = [c \in Candidate |-> "unselected"]
    /\ revision = [c \in Candidate |-> 2]
    /\ sel = [c \in Candidate |-> NoSelection]
    /\ tracked = [c \in Candidate |-> None]
    /\ root = [c \in Candidate |-> NoRoot]
    /\ scan = [state |-> "completed", lease |-> "held", token |-> 1]
    /\ push = [i \in PushId |-> NoPush]
    /\ issued = {} /\ claims = 1 /\ scans = 1 /\ expiries = 0 /\ crashes = 0
    /\ paused = [p \in Project |-> FALSE] /\ epoch = [p \in Project |-> 0]
    /\ saves = {} /\ used \in 0..MaxControl /\ siblings \in SUBSET Project
    /\ registered = [c \in Candidate |-> NoGrant] /\ events = {} /\ delivered = {}
    /\ tx = NoTx
    /\ mapping = [c \in Candidate |-> NoMapping] /\ hand = {} /\ job = Idle
    /\ clones = [c \in Candidate |-> None] /\ queue = {}
    /\ recorded = {} /\ retired = {} /\ lost = 0

-----------------------------------------------------------------------------
(* Row locks of the telemetry transaction in progress *)

\* Mutant: the join is read without locking the project.
LocksWithoutProject == {"device", "candidate", "root"}
\* The candidate's row stands for its selection's.
Locks == {"device", "candidate", "root", "project"}

Free(row) == tx = NoTx \/ row \notin Locks

-----------------------------------------------------------------------------
(* The owner's browser *)

\* saveTraceMiniConfig reads the project, and later writes both columns: a save
\* that names no `enabled' writes back the value it read.
ReadForSave(p, sets) ==
    /\ used < MaxControl /\ used' = used + 1
    /\ saves' = saves \cup {[project |-> p,
                             paused |-> IF sets = "retention" THEN paused[p] ELSE sets = "disable"]}
    /\ UNCHANGED <<vars, paused, epoch, siblings, records, tx, agent, ghosts>>

SaveTraceMiniConfig(s) ==
    /\ s \in saves /\ Free("project")
    /\ paused' = [paused EXCEPT ![s.project] = s.paused]
    /\ saves' = saves \ {s}
    /\ UNCHANGED <<vars, epoch, used, siblings, records, tx, agent, ghosts>>

WipeTraceMiniTelemetry(p) ==
    /\ Free("project")
    /\ used < MaxControl /\ used' = used + 1
    /\ paused' = [paused EXCEPT ![p] = TRUE]
    /\ epoch' = [epoch EXCEPT ![p] = @ + 1]
    /\ events' = {e \in events : e.project # p}
    /\ UNCHANGED <<vars, saves, siblings, registered, delivered, tx, agent, ghosts>>

RevokeRoot(c) == Free("root") /\ RevokeTraceMiniRoot(c) /\ UNCHANGED telemetry

SelectCandidate(c, desired) ==
    /\ Free("candidate") /\ Free("device")
    /\ SelectRepositoryCandidate(c, desired, revision[c])
    /\ UNCHANGED telemetry

-----------------------------------------------------------------------------
(* Telemetry requests *)

\* What every operation joins: the decision in force is to trace, under the root
\* bound to the one project the user may reach.
Joined(c) ==
    /\ device = "active"
    /\ sel[c].revision = revision[c] /\ sel[c].desired
    /\ matched[c] # None /\ AuthorizedMatch(c) = matched[c]
    /\ root[c] = [project |-> matched[c], approved |-> TRUE]

CurrentGrant(c) == [revision |-> revision[c], token |-> sel[c].token]

MayRegister(c) ==
    /\ Joined(c) /\ ~sel[c].completed
    /\ mapping[c].grant = CurrentGrant(c)
    /\ mapping[c].project = matched[c]

\* Until the selection is completed the request also has to name its claim.
Authorized(c) ==
    /\ Joined(c)
    /\ registered[c] = CurrentGrant(c)
    /\ sel[c].completed \/ mapping[c].grant.token = sel[c].token

TelemetryAllowed(c) == ~paused[matched[c]]

Begin(op, c, key, work, outcome) ==
    /\ tx = NoTx
    /\ tx' = [op |-> op, cand |-> c, key |-> key, project |-> matched[c],
              grant |-> CurrentGrant(c),
              work |-> work, status |-> outcome, heard |-> TRUE]
    /\ UNCHANGED <<vars, controls, records, agent, ghosts>>

\* The insert does nothing when the root already has the key.
Stored(c, key) ==
    /\ delivered' = delivered \cup {[cand |-> c, key |-> key]}
    /\ events' = IF \E e \in events : e.cand = c /\ e.key = key THEN events
                 ELSE events \cup {[cand |-> c, key |-> key, project |-> tx.project,
                                    epoch |-> epoch[tx.project]]}

\* Mutants: the first registration wins; a push counts as seen when announced.
RegisterOnce ==
    /\ tx.op = "register"
    /\ registered' = IF registered[tx.cand] = NoGrant
                     THEN [registered EXCEPT ![tx.cand] = tx.grant] ELSE registered
    /\ UNCHANGED <<vars, events, delivered>>
ConfirmUnseen ==
    /\ tx.op = "confirm"
    /\ push' = [push EXCEPT ![tx.work.id].status = tx.status]
    /\ Stored(tx.cand, tx.key)
    /\ UNCHANGED <<authority, candidates, sel, tracked, root, scan, issued, clock, registered>>

Register ==
    /\ tx.op = "register"
    /\ registered' = [registered EXCEPT ![tx.cand] = tx.grant]
    /\ UNCHANGED <<vars, events, delivered>>

Activity ==
    /\ tx.op = "activity"
    /\ Stored(tx.cand, tx.key)
    /\ UNCHANGED <<vars, registered>>

\* A repeated announcement finds its row.
AnnouncePush ==
    /\ tx.op = "push"
    /\ push' = IF push[tx.key].status # "none" THEN push
               ELSE [push EXCEPT ![tx.key] = [candidate |-> tx.cand, status |-> "pending",
                                              due |-> TRUE, token |-> 0]]
    /\ UNCHANGED <<authority, candidates, sel, tracked, root, scan, issued, clock, records>>

\* The event is stored when the remote was seen to hold the pushed commit.
ConfirmPush ==
    /\ tx.op = "confirm"
    /\ push' = [push EXCEPT ![tx.work.id].status = tx.status]
    /\ IF tx.status = "verified" THEN Stored(tx.cand, tx.key) ELSE UNCHANGED <<events, delivered>>
    /\ UNCHANGED <<authority, candidates, sel, tracked, root, scan, issued, clock, registered>>

-----------------------------------------------------------------------------
(* The device's loop *)

Waiting == tx.heard
At(step) == job.step = step /\ ~Waiting
Selections(work) == {w \in work : w.kind = "selection"}
Handled == hand' = hand \ {job.work} /\ job' = Idle

\* One request for work.  Leases are taken in the portal's transaction; the
\* adapter saves the claim of every selection it is handed.
Poll ==
    /\ At("idle") /\ Selections(hand) = {} /\ Free("device") /\ Free("candidate")
    /\ ClaimDeviceWork
    /\ hand' = {w \in issued' : w.token = claims'}
    /\ mapping' = [c \in Candidate |->
                     IF \E w \in Selections(hand') : w.id = c
                     THEN [grant |-> [revision |-> sel[c].revision, token |-> claims'],
                           desired |-> sel[c].desired,
                           project |-> IF sel[c].desired \/ mapping[c].project = None
                                       THEN matched'[c] ELSE mapping[c].project]
                     ELSE mapping[c]]
    /\ job' = [Idle EXCEPT !.step = "poll"]
    /\ UNCHANGED <<controls, records, tx, clones, queue, ghosts>>

PollNothing ==
    /\ At("idle") /\ Selections(hand) = {} /\ device = "active"
    /\ ~ScanDue /\ SelectionsDue = {} /\ PushesDue = {}
    /\ queue # {} \/ \E c \in Candidate : clones[c] # None
    /\ hand' = {} /\ job' = [Idle EXCEPT !.step = "poll"]
    /\ UNCHANGED <<vars, controls, records, tx, mapping, clones, queue, ghosts>>

\* The projects the poll lists, read after its transaction: those the device
\* has an approved root for.
Workspaces == ({matched[c] : c \in {d \in Candidate : root[d].approved}} \cup siblings) \cap access

\* Clones and queued events of every other project are dropped.
Reconcile ==
    /\ At("poll")
    /\ clones' = [c \in Candidate |-> IF clones[c] \in Workspaces THEN clones[c] ELSE None]
    /\ queue' = {e \in queue : e.project \in Workspaces}
    /\ job' = Idle
    /\ UNCHANGED <<vars, controls, records, tx, mapping, hand, ghosts>>

\* A clone that was activated before imports only what is new since.
Start(w) ==
    /\ At("idle") /\ w \in Selections(hand)
    /\ job' = [step |-> IF mapping[w.id].desired THEN "register" ELSE "remove",
               work |-> w, sent |-> IF clones[w.id] = None THEN {} ELSE Commit]
    /\ UNCHANGED <<vars, controls, records, tx, mapping, hand, clones, queue, ghosts>>

RegisterRequest ==
    /\ At("register") /\ MayRegister(job.work.id)
    /\ Begin("register", job.work.id, None, NoWork, "none")

\* History goes to the portal directly, not through the queue.
HistoryRequest(k) ==
    /\ At("history") /\ k \in Commit \ job.sent
    /\ Authorized(job.work.id) /\ TelemetryAllowed(job.work.id)
    /\ Begin("activity", job.work.id, k, NoWork, "none")

\* The hooks are installed and the clone is written to the configuration.
Install ==
    /\ At("history") /\ job.sent = Commit
    /\ clones' = [clones EXCEPT ![job.work.id] = mapping[job.work.id].project]
    /\ job' = [job EXCEPT !.step = "complete"]
    /\ UNCHANGED <<vars, controls, records, tx, mapping, hand, queue, ghosts>>

\* A failed activation takes the clone back before it is reported.
GiveUp ==
    /\ clones' = [clones EXCEPT ![job.work.id] = None]
    /\ job' = [job EXCEPT !.step = "report"]
    /\ UNCHANGED <<mapping, hand, queue>>

RequestRefused ==
    LET c == job.work.id IN
    /\ tx = NoTx
    /\ \/ At("register") /\ ~MayRegister(c)
       \/ At("history") /\ job.sent # Commit /\ ~(Authorized(c) /\ TelemetryAllowed(c))
    /\ GiveUp
    /\ UNCHANGED <<vars, controls, records, tx, ghosts>>

\* The configuration is written first, the queue is cleaned after it.
Remove ==
    /\ At("remove")
    /\ job' = [job EXCEPT !.step = IF clones[job.work.id] = None THEN "complete" ELSE "purge"]
    /\ clones' = [clones EXCEPT ![job.work.id] = None]
    /\ UNCHANGED <<vars, controls, records, tx, mapping, hand, queue, ghosts>>

Purge ==
    /\ At("purge")
    /\ queue' = {e \in queue : e.cand # job.work.id}
    /\ job' = [job EXCEPT !.step = "complete"]
    /\ UNCHANGED <<vars, controls, records, tx, mapping, hand, clones, ghosts>>

Recorded(c) == {e \in recorded : e.cand = c}

\* Events of a clone that was given up, or dropped before a crash, stay queued
\* as long as the device is authorized for their project by another repository.
ListedFor(p, others) == p \in siblings \/ \E d \in others : root[d].project = p
LeftBehind(c) ==
    {e \in Recorded(c) : \E q \in queue :
        q.cand = c /\ q.key = e.key /\ ListedFor(q.project, Candidate \ {c})}

\* The answer to a selection, which may be lost on its way back.
Complete ==
    LET c == job.work.id IN
    /\ At("complete") /\ tx = NoTx
    /\ CompleteSelection(job.work, mapping[c].desired, FALSE)
    /\ retired' = IF mapping[c].desired THEN retired ELSE retired \cup (Recorded(c) \ LeftBehind(c))
    /\ \/ Handled /\ UNCHANGED <<mapping, clones, queue, lost>>
       \/ /\ lost + crashes < MaxFault /\ lost' = lost + 1
          /\ IF mapping[c].desired THEN GiveUp
             ELSE Handled /\ UNCHANGED <<mapping, clones, queue>>
    /\ UNCHANGED <<controls, records, tx, recorded>>

MayComplete(c) == /\ device = "active" /\ CurrentLease(job.work)
                  /\ mapping[c].desired => matched[c] # None /\ AuthorizedMatch(c) = matched[c]

CompleteRefused ==
    LET c == job.work.id IN
    /\ At("complete") /\ tx = NoTx /\ ~MayComplete(c)
    /\ IF mapping[c].desired THEN GiveUp ELSE Handled /\ UNCHANGED <<mapping, clones, queue>>
    /\ UNCHANGED <<vars, controls, records, tx, ghosts>>

\* Whether the failure was recorded makes no difference to the device.
Report ==
    /\ At("report") /\ tx = NoTx
    /\ \/ CompleteSelection(job.work, FALSE, TRUE)
       \/ ~(device = "active" /\ CurrentLease(job.work)) /\ UNCHANGED vars
    /\ Handled
    /\ UNCHANGED <<controls, records, tx, mapping, clones, queue, ghosts>>

Resting == At("idle") /\ Selections(hand) = {}

\* The claim a confirmation names is the push's own, never the selection's.
Confirm(w, outcome) ==
    LET c == push[w.id].candidate IN
    /\ Resting /\ w \in hand /\ OpenPush(w)
    /\ clones[c] # None
    /\ Authorized(c) /\ sel[c].completed /\ TelemetryAllowed(c)
    /\ Begin("confirm", c, w.id, w, outcome)

Flush(e) ==
    /\ Resting /\ e \in queue
    /\ Authorized(e.cand) /\ TelemetryAllowed(e.cand)
    /\ Begin(IF e.key \in PushId THEN "push" ELSE "activity", e.cand, e.key, NoWork, "none")

\* A hook of a configured clone, in its own process.
Hook(c, k) ==
    /\ clones[c] # None
    /\ \A e \in recorded : e.key # k
    /\ recorded' = recorded \cup {[cand |-> c, key |-> k]}
    /\ queue' = queue \cup {[cand |-> c, key |-> k, project |-> clones[c]]}
    /\ UNCHANGED <<vars, controls, records, tx, mapping, hand, job, clones, retired, lost>>

Heard ==
    /\ job' = CASE tx.op = "register" -> [job EXCEPT !.step = "history"]
                [] tx.key \in Commit -> [job EXCEPT !.sent = @ \cup {tx.key}]
                [] OTHER -> job
    /\ queue' = IF tx.op = "confirm" THEN queue
                ELSE {e \in queue : ~(e.cand = tx.cand /\ e.key = tx.key)}
    /\ hand' = hand \ {tx.work}
    /\ UNCHANGED <<mapping, clones>>

CommitTx ==
    /\ tx # NoTx
    /\ Register \/ Activity \/ AnnouncePush \/ ConfirmPush
    /\ tx' = NoTx
    /\ IF tx.heard THEN Heard ELSE UNCHANGED agent
    /\ UNCHANGED <<controls, ghosts>>

\* Mutant: an event that was sent is not kept.
ForgottenSent == {e \in queue : ~(e.cand = tx.cand /\ e.key = tx.key)}

\* What stays queued when an answer does not come: the event, for a later flush.
Kept == queue

LoseAnswer ==
    /\ Waiting /\ lost + crashes < MaxFault
    /\ lost' = lost + 1
    /\ tx' = [tx EXCEPT !.heard = FALSE]
    /\ IF job.step \in {"register", "history"} THEN GiveUp
       ELSE hand' = hand \ {tx.work} /\ queue' = Kept /\ UNCHANGED <<mapping, job, clones>>
    /\ UNCHANGED <<vars, controls, records, recorded, retired>>

\* Mapping files, configuration and queue survive; the poll's work does not.
\* At rest the loop holds only pushes to confirm, which are handed out again.
AgentCrash ==
    /\ job # Idle
    /\ lost + crashes < MaxFault
    /\ DeviceCrash
    /\ hand' = {} /\ job' = Idle /\ tx' = [tx EXCEPT !.heard = FALSE]
    /\ UNCHANGED <<controls, records, mapping, clones, queue, ghosts>>

\* Ten minutes on a selection's lease: at once when the device has lost it.
LeaseElapses(c) ==
    /\ ~sel[c].completed /\ sel[c].lease = "held"
    /\ IF \E w \in hand : w.token = sel[c].token
       THEN expiries < MaxExpiry /\ expiries' = expiries + 1 ELSE UNCHANGED expiries
    /\ sel' = [sel EXCEPT ![c].lease = "stale"]
    /\ UNCHANGED <<authority, candidates, tracked, root, scan, push, issued, claims, scans, crashes>>
    /\ UNCHANGED telemetry

-----------------------------------------------------------------------------
Owner ==
    \/ \E p \in Project : \E sets \in {"enable", "disable", "retention"} : ReadForSave(p, sets)
    \/ \E s \in saves : SaveTraceMiniConfig(s)
    \/ \E p \in access : WipeTraceMiniTelemetry(p)
    \/ \E c \in Candidate : RevokeRoot(c)
    \/ \E c \in Candidate, desired \in BOOLEAN : SelectCandidate(c, desired)

Activation ==
    \/ \E w \in hand : Start(w)
    \/ RegisterRequest
    \/ \E k \in Commit : HistoryRequest(k)
    \/ Install \/ RequestRefused \/ Remove \/ Purge \/ Complete \/ CompleteRefused \/ Report

Loop == Poll \/ PollNothing \/ Reconcile \/ Activation

Agent ==
    \/ Loop
    \/ \E w \in hand, outcome \in {"pending", "verified"} : Confirm(w, outcome)
    \/ \E e \in queue : Flush(e)

Environment ==
    \/ \E c \in Candidate, k \in HookEvent \cup PushId : Hook(c, k)
    \/ LoseAnswer \/ AgentCrash
    \/ \E c \in Candidate : LeaseElapses(c)
    \/ \E i \in PushId : PushCheckDue(i) /\ UNCHANGED telemetry

TelemetryNext == Owner \/ Agent \/ CommitTx \/ Environment

\* The service polls every minute, works off what it holds and flushes; the
\* portal commits what it began; a lost lease goes stale.
TelemetryFairness ==
    /\ WF_all(Loop)
    /\ WF_all(CommitTx)
    /\ \A c \in Candidate : WF_all(LeaseElapses(c))
    /\ \A c \in Candidate, k \in HookEvent :
          SF_all(\E e \in queue : e.cand = c /\ e.key = k /\ Flush(e))

TelemetrySpec == TelemetryInit /\ [][TelemetryNext]_all /\ TelemetryFairness

-----------------------------------------------------------------------------
(* Properties *)

TelemetryTypeOK ==
    /\ TypeOK
    /\ paused \in [Project -> BOOLEAN] /\ epoch \in [Project -> Nat] /\ siblings \subseteq Project
    /\ saves \subseteq [project : Project, paused : BOOLEAN]
    /\ registered \in [Candidate -> Grant]
    /\ events \subseteq [cand : Candidate, key : Event, project : Project, epoch : Nat]
    /\ tx.op \in {"none", "register", "activity", "push", "confirm"}
    /\ mapping \in [Candidate -> Mapping]
    /\ hand \subseteq Work /\ job \in [step : Steps, work : Work, sent : SUBSET Commit]
    /\ clones \in [Candidate -> Project \cup {None}]
    /\ queue \subseteq [cand : Candidate, key : HookEvent \cup PushId, project : Project]
    /\ recorded \subseteq [cand : Candidate, key : HookEvent \cup PushId]
    /\ delivered \subseteq [cand : Candidate, key : Event]
    /\ retired \subseteq recorded

\* While a project's telemetry is paused nothing is added to it, not even by a
\* request that was authorized before the pause or the wipe (every operation
\* holds the project's row from its check to its commit).
PausedMeansQuiet ==
    [][\A e \in events' \ events : ~paused[e.project]]_all

\* A root its owner or its user withdrew collects nothing: no event, and no
\* registration that would let one in later.
RevokedRootIsQuiet ==
    [][\A c \in Candidate : ~root[c].approved =>
          /\ \A e \in events' \ events : e.cand # c
          /\ registered'[c] = registered[c]]_all

\* tests/tracemini-node-core.test.mjs: "intent alone is not verified push
\* evidence".  A push event is stored only for a push the device confirmed.
PushEventIsVerified ==
    \A e \in delivered : e.key \in PushId => push[e.key].status = "verified"

\* The portal holds a row of the push, verified or yet to be confirmed.
Announced(e, rows) ==
    e.key \in PushId /\ rows[e.key].status # "none" /\ rows[e.key].candidate = e.cand

\* After the device acknowledged a stop, nothing its hooks had recorded before
\* and still held reaches the portal: no event is stored and no push announced,
\* whatever is selected later and wherever the device crashed on the way (the
\* queue is purged after the configuration; a crash in between is caught by the
\* next poll, which lists no project without a root).  Two things escape:
\*   - LeftBehind: that poll catches nothing while another repository keeps the
\*     project listed, and a later selection delivers what stayed queued;
\*   - a push the portal had announced before the stop.  The stop leaves its row
\*     pending, so once the repository is selected again the device confirms it
\*     and its event is stored.
AcknowledgedStopIsFinal ==
    [][\A e \in retired :
          /\ Announced(e, push') => Announced(e, push)
          /\ e \in delivered' => e \in delivered \/ Announced(e, push)]_all

\* A queued event leaves the queue only when the portal has it, or because its
\* clone is no longer traced: an answer that never came loses nothing.
Has(e) == IF e.key \in PushId THEN push'[e.key].status # "none"
          ELSE [cand |-> e.cand, key |-> e.key] \in delivered'
QueueIsDurable ==
    [][\A e \in queue \ queue' : Has(e) \/ clones'[e.cand] = None]_all

\* A repository shown as tracking is registered under the very claim its
\* selection was settled with, so the portal accepts what its hooks record.
TrackingIsRegistered ==
    \A c \in Candidate : tracking[c] = "tracking" => registered[c] = CurrentGrant(c)

\* What a hook recorded reaches the portal, unless the owner pauses the
\* project or the root is withdrawn.
Undelivered(c, k) == \E e \in queue : e.cand = c /\ e.key = k
RecordedIsDelivered ==
    \A c \in Candidate, k \in HookEvent :
        Undelivered(c, k) ~> \/ ~Undelivered(c, k)
                             \/ ~root[c].approved
                             \/ paused[root[c].project]

\* What the portal holds of a traced repository: a push only as the device
\* verified it, and a registration for every repository shown as tracking.
TelemetryAgrees ==
    /\ TelemetryTypeOK
    /\ PushEventIsVerified
    /\ TrackingIsRegistered

\* Whoever says stop is obeyed at once: the owner who pauses or wipes, who
\* withdraws the root, and the user whose stop the device acknowledged (but for
\* the two things AcknowledgedStopIsFinal names).
StopMeansQuiet ==
    /\ PausedMeansQuiet
    /\ RevokedRootIsQuiet
    /\ AcknowledgedStopIsFinal

=============================================================================
