---------------------------- MODULE AgentBridge ----------------------------
(***************************************************************************)
(* The loopback adapter scripts/project-agent-bridge.mjs: an HTTP server   *)
(* that starts one Codex process group per chat request, in a scratch      *)
(* directory of its own.                                                   *)
(*                                                                         *)
(* An action is the code between two awaits.  Clients hang up, both timers *)
(* fire, processes end and file operations fail at any moment; the bridge  *)
(* may crash, and its detached children do not die with it.  The name of a *)
(* request that ended is used again.                                       *)
(***************************************************************************)
EXTENDS Naturals, FiniteSets

CONSTANTS
    Request,            \* names of requests
    CONCURRENCY,        \* LIMITS.concurrency
    MaxFaults           \* bound: crashes and failures of chmod and rm

ASSUME AgentBridgeAssumption ==
    /\ IsFiniteSet(Request)
    /\ CONCURRENCY \in Nat \ {0}
    /\ MaxFaults \in Nat

VARIABLES
    pc,                 \* the await each request is suspended at
    gone,               \* requests whose client hung up
    aborted,            \* requests whose controller was aborted
    child,              \* the Codex process of each request
    stragglers,         \* requests with processes left in a group whose leader ended
    deaf,               \* requests aborted before their child was there to listen
    overflow,           \* requests whose child wrote too much
    result,             \* what each request is going to be answered
    dirs,               \* requests with a scratch directory
    active,             \* slots in use
    litter,             \* scratch directories nobody will remove
    orphans,            \* process groups that outlived the bridge
    faults

request == <<pc, gone, aborted, child, stragglers, deaf, overflow, result, dirs>>
vars == <<request, active, litter, orphans, faults>>

\* "body": readJsonBody; "mkdtemp" and "prepare": runCodex before it spawns;
\* "running": the child; "output": readFile; "cleanup": rm.
PC == {"idle", "body", "mkdtemp", "prepare", "running", "output", "cleanup"}
Children == {"none", "alive", "succeeded", "failed"}

Busy == {r \in Request : pc[r] # "idle"}
Processes == {r \in Request : child[r] = "alive" \/ r \in stragglers}

Init ==
    /\ pc = [r \in Request |-> "idle"]
    /\ child = [r \in Request |-> "none"]
    /\ result = [r \in Request |-> "error"]
    /\ gone = {} /\ aborted = {} /\ stragglers = {} /\ deaf = {} /\ overflow = {} /\ dirs = {}
    /\ active = 0 /\ litter = 0 /\ orphans = 0 /\ faults = 0

-----------------------------------------------------------------------------
(* createBridge *)

\* A request that passed the method, token and type checks takes a slot.  With
\* every slot taken it gets a 503 and nothing changes.
Accept(r) ==
    /\ pc[r] = "idle"
    /\ active < CONCURRENCY
    /\ active' = active + 1
    /\ pc' = [pc EXCEPT ![r] = "body"]
    /\ UNCHANGED <<gone, aborted, child, stragglers, deaf, overflow, result, dirs,
                   litter, orphans, faults>>

\* The catch and the finally of the handler: the answer goes out, if the client is
\* still there, and the slot is free again.
Finish(r) ==
    /\ pc' = [pc EXCEPT ![r] = "idle"]
    /\ active' = active - 1
    /\ gone' = gone \ {r} /\ aborted' = aborted \ {r}

\* The body is complete and valid; or it is too large, no JSON, no request of
\* either contract, or cut off.
BodyEnds(r, valid) ==
    /\ pc[r] = "body"
    /\ \/ /\ valid /\ r \notin gone
          /\ pc' = [pc EXCEPT ![r] = "mkdtemp"]
          /\ UNCHANGED <<gone, aborted, active>>
       \/ /\ ~valid
          /\ Finish(r)
    /\ UNCHANGED <<child, stragglers, deaf, overflow, result, dirs, litter, orphans, faults>>

-----------------------------------------------------------------------------
(* runCodex up to the child.  The timer is not stopped by a slow body, and an
   abort before the child exists finds nobody who listens. *)

MakeDirectory(r, ok) ==
    /\ pc[r] = "mkdtemp"
    /\ \/ /\ ok
          /\ pc' = [pc EXCEPT ![r] = "prepare"]
          /\ dirs' = dirs \cup {r}
          /\ UNCHANGED <<gone, aborted, active>>
       \/ /\ ~ok
          /\ Finish(r)
          /\ UNCHANGED dirs
    /\ UNCHANGED <<child, stragglers, deaf, overflow, result, litter, orphans, faults>>

\* chmod is outside the try: when it fails the directory stays.
ChmodFails(r) ==
    /\ pc[r] = "prepare" /\ faults < MaxFaults
    /\ faults' = faults + 1
    /\ litter' = litter + 1 /\ dirs' = dirs \ {r}
    /\ Finish(r)
    /\ UNCHANGED <<child, stragglers, deaf, overflow, result, orphans>>

\* The schema is written and Codex started; or one of the two fails.
Spawn(r, ok) ==
    /\ pc[r] = "prepare"
    /\ \/ /\ ok
          /\ pc' = [pc EXCEPT ![r] = "running"]
          /\ child' = [child EXCEPT ![r] = "alive"]
          /\ deaf' = IF r \in aborted THEN deaf \cup {r} ELSE deaf
       \/ /\ ~ok
          /\ pc' = [pc EXCEPT ![r] = "cleanup"]
          /\ UNCHANGED <<child, deaf>>
    /\ UNCHANGED <<gone, aborted, stragglers, overflow, result, dirs, active, litter, orphans, faults>>

-----------------------------------------------------------------------------
(* The child *)

\* SIGKILL to the whole process group, whose leader may be gone already.
KillGroup(r) ==
    /\ child' = IF child[r] = "alive" THEN [child EXCEPT ![r] = "failed"] ELSE child
    /\ stragglers' = stragglers \ {r}

\* Codex exits, and may leave processes of its group behind.
ChildExits(r, code, leaves) ==
    /\ child[r] = "alive"
    /\ child' = [child EXCEPT ![r] = code]
    /\ stragglers' = IF leaves THEN stragglers \cup {r} ELSE stragglers
    /\ UNCHANGED <<pc, gone, aborted, deaf, overflow, result, dirs, active, litter, orphans, faults>>

\* Codex, or a process it left, wrote too much to stdout or stderr.
Overflow(r) ==
    /\ pc[r] = "running" /\ child[r] # "none" /\ r \notin overflow
    /\ overflow' = overflow \cup {r}
    /\ KillGroup(r)
    /\ UNCHANGED <<pc, gone, aborted, deaf, result, dirs, active, litter, orphans, faults>>

\* The controller aborts once.  While the child runs its listener kills.
Abort(r) ==
    /\ aborted' = aborted \cup {r}
    /\ IF pc[r] = "running" /\ r \notin aborted THEN KillGroup(r)
       ELSE UNCHANGED <<child, stragglers>>

\* The client hangs up before the response ended.
Disconnect(r) ==
    /\ r \in Busy \ gone
    /\ gone' = gone \cup {r}
    /\ Abort(r)
    /\ UNCHANGED <<pc, deaf, overflow, result, dirs, active, litter, orphans, faults>>

\* The timer of the request.
Timeout(r) ==
    /\ r \in Busy \ aborted
    /\ Abort(r)
    /\ UNCHANGED <<pc, gone, deaf, overflow, result, dirs, active, litter, orphans, faults>>

\* The timer of the child, as long as that of the request and started later:
\* the controller has been aborted when it fires.  Mutant: it is cleared
\* when the controller aborts.
ChildTimeoutUnlessAborted(r) ==
    /\ pc[r] = "running" /\ r \notin aborted
    /\ r \in Processes
    /\ KillGroup(r)
    /\ UNCHANGED <<pc, gone, aborted, deaf, overflow, result, dirs, active, litter, orphans, faults>>

ChildTimeout(r) ==
    /\ pc[r] = "running" /\ r \in aborted
    /\ r \in Processes
    /\ KillGroup(r)
    /\ UNCHANGED <<pc, gone, aborted, deaf, overflow, result, dirs, active, litter, orphans, faults>>

\* The event close: the leader ended and its pipes are closed.  Aborts,
\* overflows and exit codes are looked at in this order; any of them is an error.
\* Mutant: the exit code alone decides.
ClosedByCode(r) ==
    IF child[r] = "succeeded" THEN "output" ELSE "cleanup"

ClosedBy(r) ==
    IF r \notin aborted /\ r \notin overflow /\ child[r] = "succeeded" THEN "output" ELSE "cleanup"

ChildClosed(r) ==
    /\ pc[r] = "running" /\ child[r] \in {"succeeded", "failed"}
    /\ pc' = [pc EXCEPT ![r] = ClosedBy(r)]
    /\ UNCHANGED <<gone, aborted, child, stragglers, deaf, overflow, result, dirs,
                   active, litter, orphans, faults>>

\* parseAndValidate: the output is an answer with at most five well-formed actions.
Verdict == {"ok", "error"}

ReadOutput(r, verdict) ==
    /\ pc[r] = "output"
    /\ pc' = [pc EXCEPT ![r] = "cleanup"]
    /\ result' = [result EXCEPT ![r] = verdict]
    /\ UNCHANGED <<gone, aborted, child, stragglers, deaf, overflow, dirs,
                   active, litter, orphans, faults>>

\* The finally of runCodex, then the end of the request.  A directory that cannot
\* be removed stays, and what was to be returned is lost.  Mutant: the finally
\* does not kill.
CleanupWithoutKill(r, removed) ==
    /\ pc[r] = "cleanup" /\ removed
    /\ child' = [child EXCEPT ![r] = "none"]
    /\ dirs' = dirs \ {r} /\ deaf' = deaf \ {r} /\ overflow' = overflow \ {r}
    /\ result' = [result EXCEPT ![r] = "error"]
    /\ Finish(r)
    /\ UNCHANGED <<stragglers, litter, orphans, faults>>
Cleanup(r, removed) ==
    /\ pc[r] = "cleanup"
    /\ stragglers' = stragglers \ {r}
    /\ child' = [child EXCEPT ![r] = "none"]
    /\ dirs' = dirs \ {r} /\ deaf' = deaf \ {r} /\ overflow' = overflow \ {r}
    /\ result' = [result EXCEPT ![r] = "error"]
    /\ Finish(r)
    /\ \/ /\ removed
          /\ UNCHANGED <<litter, faults>>
       \/ /\ ~removed /\ faults < MaxFaults
          /\ faults' = faults + 1 /\ litter' = litter + 1
    /\ UNCHANGED orphans

-----------------------------------------------------------------------------
(* The bridge crashes and is started again.  Process groups are detached: they
   run on, and nothing ever kills them. *)

Crash ==
    /\ faults < MaxFaults
    /\ faults' = faults + 1
    /\ orphans' = orphans + Cardinality(Processes)
    /\ litter' = litter + Cardinality(dirs)
    /\ active' = 0
    /\ pc' = [r \in Request |-> "idle"]
    /\ child' = [r \in Request |-> "none"]
    /\ result' = [r \in Request |-> "error"]
    /\ gone' = {} /\ aborted' = {} /\ stragglers' = {} /\ deaf' = {} /\ overflow' = {} /\ dirs' = {}

OrphanEnds ==
    /\ orphans > 0
    /\ orphans' = orphans - 1
    /\ UNCHANGED <<request, active, litter, faults>>

Next ==
    \/ \E r \in Request :
        \/ Accept(r) \/ ChmodFails(r) \/ Overflow(r) \/ Disconnect(r) \/ Timeout(r)
        \/ ChildTimeout(r) \/ ChildClosed(r)
        \/ \E ok \in BOOLEAN :
              BodyEnds(r, ok) \/ MakeDirectory(r, ok) \/ Spawn(r, ok) \/ Cleanup(r, ok)
        \/ \E code \in {"succeeded", "failed"}, leaves \in BOOLEAN : ChildExits(r, code, leaves)
        \/ \E verdict \in Verdict : ReadOutput(r, verdict)
    \/ Crash \/ OrphanEnds

Spec == Init /\ [][Next]_vars

\* The runtime resumes what is ready, file operations return, timers fire, a
\* killed group dies and its pipes close.  Node ends a connection whose body
\* does not come (requestTimeout).  Codex owes nothing.
Fairness ==
    \A r \in Request :
        /\ WF_vars(BodyEnds(r, FALSE))
        /\ WF_vars(\E ok \in BOOLEAN : MakeDirectory(r, ok) \/ Spawn(r, ok))
        /\ WF_vars(Timeout(r))
        /\ WF_vars(ChildTimeout(r))
        /\ WF_vars(r \notin stragglers /\ ChildClosed(r))
        /\ WF_vars(\E verdict \in Verdict : ReadOutput(r, verdict))
        /\ WF_vars(\E removed \in BOOLEAN : Cleanup(r, removed))

FairSpec == Spec /\ Fairness

-----------------------------------------------------------------------------
(* Properties *)

TypeOK ==
    /\ pc \in [Request -> PC]
    /\ child \in [Request -> Children]
    /\ result \in [Request -> Verdict]
    /\ gone \subseteq Request /\ aborted \subseteq Request /\ stragglers \subseteq Request
    /\ deaf \subseteq Request /\ overflow \subseteq Request /\ dirs \subseteq Request
    /\ active \in Nat /\ litter \in Nat /\ orphans \in Nat
    /\ faults \in 0..MaxFaults

\* The counter is the number of requests under way, whatever way they end, and
\* stays within the limit.
SlotsAccounted ==
    /\ active = Cardinality(Busy)
    /\ active <= CONCURRENCY

\* Process groups are bounded by the slots: the limit holds for Codex itself and
\* not only for requests, but for what outlived a crash of the bridge.
ProcessesBounded ==
    Cardinality(Processes) + orphans <= CONCURRENCY * (faults + 1)

\* An abort kills the group, unless the request was aborted before it spawned:
\* then nobody listens, and the group lives until its own timer.
AbortKills == aborted \cap Processes \cap {r \in Request : pc[r] = "running"} \subseteq deaf

\* No process and no directory of a request is left when it ended.
NothingOutlives == Processes \cup dirs \subseteq Busy

\* Scratch directories stay only where a fault left them.
LitterExplained == litter + Cardinality(dirs) <= CONCURRENCY * (faults + 1)

\* The slots account for everything a request uses of the machine: the counter,
\* the process groups and the scratch directories, over the dozen ways a request
\* ends, two of them often at once (handle and runCodex of the bridge).
SlotsCoverTheMachine ==
    /\ TypeOK
    /\ SlotsAccounted
    /\ ProcessesBounded
    /\ AbortKills
    /\ NothingOutlives
    /\ LitterExplained

\* A request is answered with an output only if its child ended by itself, with
\* code 0, had not written too much and had not outlived an abort.
OkIsGenuine ==
    \A r \in Request : pc[r] = "output" \/ result[r] = "ok" =>
        child[r] = "succeeded" /\ r \notin overflow \cup deaf

\* Every request ends: its slot is freed though Codex may never end, the abort
\* may go unheard, and the client may never send its body.
RequestsEnd == \A r \in Request : pc[r] # "idle" ~> pc[r] = "idle"

=============================================================================
