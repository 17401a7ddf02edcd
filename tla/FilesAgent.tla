----------------------------- MODULE FilesAgent -----------------------------
(***************************************************************************)
(* Enrolment of files-agent devices, their telemetry, the daily summary    *)
(* and the telemetry wipe: lib/files-agent.ts,                             *)
(* lib/files-agent-daily-summary.ts, the setup helpers of lib/db.ts and    *)
(* the bootstrap route.                                                    *)
(*                                                                         *)
(* Requests run on servers that each keep a pool of POOL_MAX connections.  *)
(* A step is what a request does between two waits, for a lock of the      *)
(* database or for a connection; READ COMMITTED lets every statement see   *)
(* what was committed when it began.  One company and one day of summary   *)
(* are modelled.  The tables of the retired agent, which nothing fills,    *)
(* are left out of the wipe.                                               *)
(***************************************************************************)
EXTENDS Naturals, FiniteSets

CONSTANTS
    User,               \* approved accounts; nothing takes an approval back
    Code,               \* enrolment codes; a device is named by its code
    Event,              \* event ids
    Mint, Exchange, Ingest, Persist, Wipe,      \* requests, by their handler
    Server,
    server,             \* the server of each request
    POOL_MAX,           \* DATABASE_POOL_MAX, '1' unless set
    ENROLLMENT_RATE_PER_HOUR,
    DEVICE_LIMIT_PER_USER,
    BatchLimit,         \* rows a statement of the wipe deletes at most
    FirstPause,         \* the row of app_settings before the first request
    MaxCrash,           \* bound: wipes whose server dies
    None

Request == Mint \cup Exchange \cup Ingest \cup Persist \cup Wipe

ASSUME FilesAgentAssumption ==
    /\ IsFiniteSet(Code)
    /\ IsFiniteSet(Request)
    /\ None \notin User \cup Code \cup Nat \cup {"active", "revoked"}
    /\ server \in [Request -> Server]
    /\ POOL_MAX \in Nat \ {0}
    /\ ENROLLMENT_RATE_PER_HOUR \in Nat
    /\ DEVICE_LIMIT_PER_USER \in Nat
    /\ BatchLimit \in Nat \ {0}
    /\ FirstPause \in {"absent", "0", "1"}
    /\ MaxCrash \in Nat

VARIABLES
    owner,              \* files_agent_enrollments: the user of a code, None before
    enrollments,        \* the codes whose row is there
    age,                \* time since the code was issued
    used,               \* codes with used_at
    device,             \* files_agent_devices, None without a row
    events,             \* files_agent_events, unique by device and event id
    pause,              \* telemetry_paused of app_settings, or "absent"
    summary,            \* the row of files_agent_daily_summaries is there
    mint,               \* the user of a waiting mint and the codes it counted
    exchange,           \* the code an exchange has locked
    counted,            \* the devices it counted under its user's lock
    ingest,             \* the device of an ingest under way
    share,              \* ingests that hold the pause row for share
    persist, wipe,      \* where deliveries and wipes wait
    full,               \* wipes that repeat until nothing is left
    zero,               \* wipes whose batch has deleted nothing so far
    vouched,            \* wipes since whose pause nobody resumed telemetry
    clean,              \* such a wipe reported that it was done
    crashes

database == <<owner, enrollments, age, used, device, events>>
agentVars == <<mint, exchange, counted, ingest, share>>
wipeVars == <<wipe, full, zero, vouched, clean, crashes>>
vars == <<database, pause, summary, agentVars, persist, wipeVars>>

Init ==
    /\ owner = [c \in Code |-> None]
    /\ enrollments = {}
    /\ age = [c \in Code |-> "fresh"]
    /\ used = {}
    /\ device = [c \in Code |-> None]
    /\ events = {}
    /\ pause = FirstPause
    /\ summary = FALSE
    /\ mint = [m \in Mint |-> None]
    /\ exchange = [x \in Exchange |-> None]
    /\ counted = [x \in Exchange |-> None]
    /\ ingest = [i \in Ingest |-> None]
    /\ share = {}
    /\ persist = [p \in Persist |-> "idle"]
    /\ wipe = [w \in Wipe |-> "idle"]
    /\ full = {}
    /\ zero = {}
    /\ vouched = {}
    /\ clean = FALSE
    /\ crashes = 0

-----------------------------------------------------------------------------
(* Connections and locks *)

Connected ==
    {m \in Mint : mint[m] # None} \cup {x \in Exchange : exchange[x] # None}
    \cup {i \in Ingest : ingest[i] # None} \cup {p \in Persist : persist[p] # "idle"}
    \cup {w \in Wipe : wipe[w] \notin {"idle", "connect"}}

\* The pool of r's server has a connection left.
ConnectionFree(r) ==
    Cardinality({q \in Connected : server[q] = server[r]}) < POOL_MAX

Active(u) == {c \in Code : device[c] = "active" /\ owner[c] = u}
Recent(u) == {c \in enrollments : owner[c] = u /\ age[c] \in {"fresh", "hour"}}

\* pg_advisory_xact_lock of the user's id, held by an exchange that counted.
UserLockFree(u) ==
    \A x \in {y \in Exchange : counted[y] # None} : owner[exchange[x]] # u

\* The advisory lock 'files-agent-summary-wipe'.
\* Mutant: deliveries go without it.
Deleting == {"events", "devices", "enrollments", "summaries"}
LockFreeOfWipes == \A w \in Wipe : wipe[w] \notin Deleting
SummaryLockFree ==
    /\ \A p \in Persist : persist[p] \notin {"read", "store"}
    /\ \A w \in Wipe : wipe[w] \notin Deleting

-----------------------------------------------------------------------------
(* createFilesAgentEnrollment: one statement, whose snapshot is taken before
   it waits for the lock of the user inside. *)

MintBegin(m, u) ==
    /\ mint[m] = None
    /\ ConnectionFree(m)
    /\ mint' = [mint EXCEPT ![m] = [user |-> u, seen |-> Cardinality(Recent(u))]]
    /\ UNCHANGED <<database, pause, summary, exchange, counted, ingest, share, persist, wipeVars>>

MintInserts(m, c) ==
    /\ mint[m] # None
    /\ UserLockFree(mint[m].user)
    /\ mint[m].seen < ENROLLMENT_RATE_PER_HOUR
    /\ owner[c] = None
    /\ owner' = [owner EXCEPT ![c] = mint[m].user]
    /\ enrollments' = enrollments \cup {c}
    /\ mint' = [mint EXCEPT ![m] = None]
    /\ UNCHANGED <<age, used, device, events, pause, summary, exchange, counted, ingest, share, persist, wipeVars>>

\* Refused by the rate, or failed.
MintRaises(m) ==
    /\ mint[m] # None
    /\ mint' = [mint EXCEPT ![m] = None]
    /\ UNCHANGED <<database, pause, summary, exchange, counted, ingest, share, persist, wipeVars>>

\* Ten minutes, an hour and a day after it was issued.
Ages == <<"fresh", "hour", "day", "stale">>
TimePasses(c) ==
    /\ c \in enrollments
    /\ \E n \in 1..3 : age[c] = Ages[n] /\ age' = [age EXCEPT ![c] = Ages[n + 1]]
    /\ UNCHANGED <<owner, enrollments, used, device, events, pause, summary, agentVars, persist, wipeVars>>

-----------------------------------------------------------------------------
(* exchangeFilesAgentEnrollment *)

\* select ... for update of e: a second exchange of the code waits, then finds
\* it used.
ExchangeBegin(x, c) ==
    /\ exchange[x] = None
    /\ ConnectionFree(x)
    /\ c \in enrollments \ used
    /\ age[c] = "fresh"
    /\ \A y \in Exchange : exchange[y] # c
    /\ exchange' = [exchange EXCEPT ![x] = c]
    /\ UNCHANGED <<database, pause, summary, mint, counted, ingest, share, persist, wipeVars>>

\* Mutant: the devices are counted without the lock of the user.
CountsWithoutLock(x) ==
    /\ exchange[x] # None
    /\ counted[x] = None
    /\ counted' = [counted EXCEPT ![x] = Cardinality(Active(owner[exchange[x]]))]
    /\ UNCHANGED <<database, pause, summary, mint, exchange, ingest, share, persist, wipeVars>>

ExchangeCounts(x) ==
    /\ exchange[x] # None
    /\ counted[x] = None
    /\ UserLockFree(owner[exchange[x]])
    /\ counted' = [counted EXCEPT ![x] = Cardinality(Active(owner[exchange[x]]))]
    /\ UNCHANGED <<database, pause, summary, mint, exchange, ingest, share, persist, wipeVars>>

ExchangeEnds(x) ==
    /\ exchange' = [exchange EXCEPT ![x] = None]
    /\ counted' = [counted EXCEPT ![x] = None]
    /\ UNCHANGED <<owner, enrollments, age, events, pause, summary, mint, ingest, share, persist, wipeVars>>

ExchangeInserts(x) ==
    /\ exchange[x] # None
    /\ counted[x] # None
    /\ counted[x] < DEVICE_LIMIT_PER_USER
    /\ device' = [device EXCEPT ![exchange[x]] = "active"]
    /\ used' = used \cup {exchange[x]}
    /\ ExchangeEnds(x)

\* Refused by the limit, or failed; the transaction is rolled back.
ExchangeRaises(x) ==
    /\ exchange[x] # None
    /\ ExchangeEnds(x)
    /\ UNCHANGED <<device, used>>

RevokeFilesAgentDevice(c) ==
    /\ device[c] = "active"
    /\ device' = [device EXCEPT ![c] = "revoked"]
    /\ UNCHANGED <<owner, enrollments, age, used, events, pause, summary, agentVars, persist, wipeVars>>

-----------------------------------------------------------------------------
(* ingestFilesAgentEvents *)

\* Mutant: the pause row is read without for share.
IngestWithoutShare(i, c) ==
    /\ ingest[i] = None
    /\ ConnectionFree(i)
    /\ device[c] # None
    /\ pause # "1"
    /\ ingest' = [ingest EXCEPT ![i] = c]
    /\ UNCHANGED <<database, pause, summary, share, mint, exchange, counted, persist, wipeVars>>

\* select ... from app_settings ... for share: locks the row if there is one.
\* The route's own look at the flag comes earlier and holds nothing.
IngestBegin(i, c) ==
    /\ ingest[i] = None
    /\ ConnectionFree(i)
    /\ device[c] # None
    /\ pause # "1"
    /\ ingest' = [ingest EXCEPT ![i] = c]
    /\ share' = IF pause = "absent" THEN share ELSE share \cup {i}
    /\ UNCHANGED <<database, pause, summary, mint, exchange, counted, persist, wipeVars>>

IngestEnds(i) ==
    /\ ingest' = [ingest EXCEPT ![i] = None]
    /\ share' = share \ {i}
    /\ UNCHANGED <<owner, enrollments, age, used, device, pause, summary, mint, exchange, counted, persist, wipeVars>>

\* The device is locked, the events it had not sent before are inserted.
IngestInserts(i, batch) ==
    /\ ingest[i] # None
    /\ device[ingest[i]] = "active"
    /\ batch # {}
    /\ events' = events \cup {ingest[i]} \X batch
    /\ IngestEnds(i)

\* Unknown or revoked device, ingest_rate exceeded, or failed.
IngestRaises(i) ==
    /\ ingest[i] # None
    /\ IngestEnds(i)
    /\ UNCHANGED events

\* The two statements of cleanupFilesAgentRetention, each on its own.
CleanupEvents(old) ==
    /\ old \subseteq events /\ old # {}
    /\ events' = events \ old
    /\ UNCHANGED <<owner, enrollments, age, used, device, pause, summary, agentVars, persist, wipeVars>>

CleanupEnrollments ==
    LET doomed == {c \in enrollments : /\ age[c] = "stale" /\ device[c] = None
                                       /\ \A x \in Exchange : exchange[x] # c} IN
    /\ doomed # {}
    /\ enrollments' = enrollments \ doomed
    /\ UNCHANGED <<owner, age, used, device, events, pause, summary, agentVars, persist, wipeVars>>

-----------------------------------------------------------------------------
(* persistFilesAgentDailySummary.  Old rows of other days are out of sight. *)

PersistBegin(p) ==
    /\ persist[p] = "idle"
    /\ ConnectionFree(p)
    /\ persist' = [persist EXCEPT ![p] = "lock"]
    /\ UNCHANGED <<database, pause, summary, agentVars, wipeVars>>

PersistLock(p) ==
    /\ persist[p] = "lock"
    /\ SummaryLockFree
    /\ persist' = [persist EXCEPT ![p] = "read"]
    /\ UNCHANGED <<database, pause, summary, agentVars, wipeVars>>

\* Mutant: the summary is stored whether telemetry is paused or not.
StoresWhilePaused(p) ==
    /\ persist[p] = "read"
    /\ persist' = [persist EXCEPT ![p] = "store"]
    /\ UNCHANGED <<database, pause, summary, agentVars, wipeVars>>

PersistReadsPause(p) ==
    /\ persist[p] = "read"
    /\ persist' = [persist EXCEPT ![p] = IF pause = "1" THEN "idle" ELSE "store"]
    /\ UNCHANGED <<database, pause, summary, agentVars, wipeVars>>

PersistStores(p) ==
    /\ persist[p] = "store"
    /\ summary' = TRUE
    /\ persist' = [persist EXCEPT ![p] = "idle"]
    /\ UNCHANGED <<database, pause, agentVars, wipeVars>>

PersistRaises(p) ==
    /\ persist[p] # "idle"
    /\ persist' = [persist EXCEPT ![p] = "idle"]
    /\ UNCHANGED <<database, pause, summary, agentVars, wipeVars>>

-----------------------------------------------------------------------------
(* The bootstrap route: set_telemetry_pause, wipe_telemetry and
   wipe_telemetry_batch *)

\* The upsert of the pause row waits for those who hold it for share.
PauseRowFree == share = {}

SetTelemetryPause(paused) ==
    /\ PauseRowFree
    /\ pause' = IF paused THEN "1" ELSE "0"
    /\ vouched' = IF paused THEN vouched ELSE {}
    /\ clean' = (clean /\ paused)
    /\ UNCHANGED <<database, summary, agentVars, persist, wipe, full, zero, crashes>>

WipeBegin(w, repeat) ==
    /\ wipe[w] = "idle"
    /\ PauseRowFree
    /\ ConnectionFree(w)
    /\ pause' = "1"
    /\ vouched' = vouched \cup {w}
    /\ full' = IF repeat THEN full \cup {w} ELSE full \ {w}
    /\ wipe' = [wipe EXCEPT ![w] = "connect"]
    /\ UNCHANGED <<database, summary, agentVars, persist, zero, clean, crashes>>

WipeConnect(w) ==
    /\ wipe[w] = "connect"
    /\ ConnectionFree(w)
    /\ wipe' = [wipe EXCEPT ![w] = "lock"]
    /\ UNCHANGED <<database, pause, summary, agentVars, persist, full, zero, vouched, clean, crashes>>

WipeLock(w) ==
    /\ wipe[w] = "lock"
    /\ SummaryLockFree
    /\ wipe' = [wipe EXCEPT ![w] = "events"]
    /\ zero' = zero \cup {w}
    /\ UNCHANGED <<database, pause, summary, agentVars, persist, full, vouched, clean, crashes>>

\* A batch of the rows a statement finds.
Doomed(rows) ==
    {S \in SUBSET rows : Cardinality(S) = BatchLimit \/ (S = rows /\ Cardinality(S) < BatchLimit)}

\* wipeTelemetryBatchForSetup takes a connection of its own for each statement
\* and goes on to the next table when nothing was left in this one.
WipeGoes(w, gone, next) ==
    /\ ConnectionFree(w)
    /\ wipe' = [wipe EXCEPT ![w] = IF gone = {} THEN next ELSE "summaries"]
    /\ zero' = IF gone = {} THEN zero ELSE zero \ {w}
    /\ UNCHANGED <<owner, age, used, pause, summary, agentVars, persist, full, vouched, clean, crashes>>

WipeEvents(w) ==
    /\ wipe[w] = "events"
    /\ \E gone \in Doomed(events) :
          /\ events' = events \ gone
          /\ WipeGoes(w, gone, "devices")
    /\ UNCHANGED <<enrollments, device>>

\* Rows that others refer to cannot be deleted.
Referenced(c) == \E e \in events : e[1] = c

WipeDevices(w) ==
    /\ wipe[w] = "devices"
    /\ \E gone \in Doomed({c \in Code : device[c] # None}) :
          /\ \A c \in gone : ~Referenced(c)
          /\ device' = [c \in Code |-> IF c \in gone THEN None ELSE device[c]]
          /\ WipeGoes(w, gone, "enrollments")
    /\ UNCHANGED <<enrollments, events>>

\* A code that an exchange has locked is waited for.  When the exchange has
\* changed its row it is passed over, or found again and refused (Refused):
\* that depends on the plan of the statement.
WipeEnrollments(w) ==
    /\ wipe[w] = "enrollments"
    /\ \E doomed \in Doomed(enrollments) :
          LET gone == {c \in doomed : \A x \in Exchange : exchange[x] # c} IN
          /\ \A c \in gone : device[c] = None
          /\ enrollments' = enrollments \ gone
          /\ WipeGoes(w, gone, "summaries")
    /\ UNCHANGED <<device, events>>

\* wipeFilesAgentDailySummariesForSetup on the connection that holds the lock,
\* then its commit; a full wipe repeats until nothing was left.
WipeSummaries(w) ==
    LET done == w \in zero /\ ~summary IN
    /\ wipe[w] = "summaries"
    /\ summary' = FALSE
    /\ wipe' = [wipe EXCEPT ![w] = IF w \in full /\ ~done THEN "connect" ELSE "idle"]
    /\ clean' = (clean \/ (done /\ w \in vouched))
    /\ UNCHANGED <<database, pause, agentVars, persist, full, zero, vouched, crashes>>

\* A statement refers to rows others refer to.
Refused(w) ==
    \/ /\ wipe[w] = "devices"
       /\ \E c \in Code : device[c] # None /\ Referenced(c)
    \/ /\ wipe[w] = "enrollments"
       /\ \E c \in enrollments : device[c] # None

\* A foreign key refuses, or no connection was free for eight seconds: the
\* route answers 500, what was deleted stays deleted.
WipeRaises(w) ==
    /\ \/ Refused(w)
       \/ wipe[w] \in {"connect", "events", "devices", "enrollments"} /\ ~ConnectionFree(w)
    /\ wipe' = [wipe EXCEPT ![w] = "idle"]
    /\ UNCHANGED <<database, pause, summary, agentVars, persist, full, zero, vouched, clean, crashes>>

\* The server dies.
WipeCrashes(w) ==
    /\ wipe[w] # "idle"
    /\ crashes < MaxCrash
    /\ crashes' = crashes + 1
    /\ wipe' = [wipe EXCEPT ![w] = "idle"]
    /\ UNCHANGED <<database, pause, summary, agentVars, persist, full, zero, vouched, clean>>

-----------------------------------------------------------------------------
MintStep(m) ==
    \/ \E u \in User : MintBegin(m, u)
    \/ \E c \in Code : MintInserts(m, c)
    \/ MintRaises(m)

ExchangeStep(x) ==
    \/ \E c \in Code : ExchangeBegin(x, c)
    \/ ExchangeCounts(x)
    \/ ExchangeInserts(x)
    \/ ExchangeRaises(x)

IngestStep(i) ==
    \/ \E c \in Code : IngestBegin(i, c)
    \/ \E batch \in SUBSET Event : IngestInserts(i, batch)
    \/ IngestRaises(i)

PersistStep(p) ==
    \/ PersistBegin(p)
    \/ PersistLock(p)
    \/ PersistReadsPause(p)
    \/ PersistStores(p)
    \/ PersistRaises(p)

\* The steps a wipe takes by itself once it has begun.
WipeContinues(w) ==
    \/ WipeConnect(w)
    \/ WipeLock(w)
    \/ WipeEvents(w)
    \/ WipeDevices(w)
    \/ WipeEnrollments(w)
    \/ WipeSummaries(w)

WipeStep(w) ==
    \/ \E repeat \in BOOLEAN : WipeBegin(w, repeat)
    \/ WipeContinues(w)
    \/ WipeRaises(w)
    \/ WipeCrashes(w)

Housekeeping ==
    \/ \E c \in Code : TimePasses(c) \/ RevokeFilesAgentDevice(c)
    \/ \E old \in SUBSET events : CleanupEvents(old)
    \/ CleanupEnrollments
    \/ \E paused \in BOOLEAN : SetTelemetryPause(paused)

Next ==
    \/ \E m \in Mint : MintStep(m)
    \/ \E x \in Exchange : ExchangeStep(x)
    \/ \E i \in Ingest : IngestStep(i)
    \/ \E p \in Persist : PersistStep(p)
    \/ \E w \in Wipe : WipeStep(w)
    \/ Housekeeping

Spec == Init /\ [][Next]_vars

\* A request that began runs on; the database grants locks in the order they
\* were asked for, so one that is granted again and again is granted to all.
FairSpec ==
    /\ Spec
    /\ \A w \in Wipe : SF_vars(WipeContinues(w)) /\ WF_vars(WipeRaises(w))
    /\ \A p \in Persist : WF_vars(PersistReadsPause(p)) /\ WF_vars(PersistStores(p))

-----------------------------------------------------------------------------
TypeOK ==
    /\ owner \in [Code -> User \cup {None}]
    /\ enrollments \subseteq Code
    /\ age \in [Code -> {"fresh", "hour", "day", "stale"}]
    /\ used \subseteq Code
    /\ device \in [Code -> {None, "active", "revoked"}]
    /\ {c \in Code : device[c] # None} \subseteq used
    /\ events \subseteq Code \X Event
    /\ pause \in {"absent", "0", "1"}
    /\ summary \in BOOLEAN
    /\ mint \in [Mint -> {None} \cup [user : User, seen : Nat]]
    /\ exchange \in [Exchange -> Code \cup {None}]
    /\ counted \in [Exchange -> Nat \cup {None}]
    /\ ingest \in [Ingest -> Code \cup {None}]
    /\ share \subseteq Ingest
    /\ persist \in [Persist -> {"idle", "lock", "read", "store"}]
    /\ wipe \in [Wipe -> {"idle", "connect", "lock"} \cup Deleting]
    /\ full \subseteq Wipe /\ zero \subseteq Wipe /\ vouched \subseteq Wipe
    /\ clean \in BOOLEAN
    /\ crashes \in 0..MaxCrash

\* Once a wipe has reported that it is done, no event and no summary is there
\* until telemetry is resumed: not from an ingest or a delivery that was under
\* way when it began, nor from one that began in between.
WipedStaysWiped == clean => events = {} /\ ~summary

\* However many exchanges of one user run at once, the user never has more
\* devices than allowed.
DeviceLimit == \A u \in User : Cardinality(Active(u)) <= DEVICE_LIMIT_PER_USER

\* While telemetry is paused no event is recorded, by ingests that looked at
\* the flag before it was set either.
PausedMeansQuiet == [][pause = "1" => events' \subseteq events]_vars

\* An operator who starts full wipes for as long as it takes gets one done, if
\* telemetry stays paused and devices stop enrolling: no delivery, lock, foreign
\* key or crash on the way makes it fail again and again.
FullWipeCleans ==
    \A w \in Wipe :
        /\ <>[](pause = "1" /\ \A x \in Exchange : exchange[x] = None)
        /\ []<>(w \in full /\ wipe[w] # "idle")
        => <>[]clean

=============================================================================
