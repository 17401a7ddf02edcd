-------------------------- MODULE FilesAgent_proofs --------------------------
(***************************************************************************)
(* Proofs about FilesAgent, for any users, codes, requests, servers, pool  *)
(* sizes and limits.                                                       *)
(***************************************************************************)
EXTENDS FilesAgent, FiniteSetTheorems, TLAPS

(* The inductive invariant.  A code that was exchanged belongs to somebody and
   is never exchanged again; an ingest is of an exchanged code. *)
CodesAreOwned ==
    /\ \A c \in enrollments \cup used : owner[c] # None
    /\ \A x \in Exchange : exchange[x] # None =>
          exchange[x] \in enrollments \ used
    /\ \A x, y \in Exchange : x # y /\ exchange[x] # None => exchange[x] # exchange[y]
    /\ \A i \in Ingest : ingest[i] # None => ingest[i] \in used

(* The lock of a user: one exchange at a time has counted, and it counted all
   devices there are. *)
CountsAreCurrent ==
    /\ \A x \in Exchange : counted[x] # None =>
          /\ exchange[x] # None
          /\ Cardinality(Active(owner[exchange[x]])) <= counted[x]
    /\ \A x, y \in Exchange : x # y /\ counted[x] # None /\ counted[y] # None
          => owner[exchange[x]] # owner[exchange[y]]
    /\ DeviceLimit

(* The row lock of the pause: nobody holds it for share while telemetry is
   paused, and every ingest holds it once the row is there from the start. *)
PauseIsHeld ==
    /\ share # {} => pause = "0"
    /\ FirstPause # "absent" =>
          /\ pause # "absent"
          /\ \A i \in Ingest : ingest[i] # None => i \in share

(* The lock of the summaries. *)
SummaryLockIsHeld ==
    \A w \in Wipe : wipe[w] \in Deleting =>
        \A p \in Persist : persist[p] \notin {"read", "store"}

(* No ingest under way can still record an event. *)
NothingArrives ==
    /\ events = {}
    /\ \A i \in Ingest : ingest[i] # None => device[ingest[i]] = None

(* What a wipe has established when it gets this far without deleting. *)
WipeHasEmptied ==
    /\ \A e \in events : device[e[1]] # None
    /\ vouched # {} \/ clean => pause = "1"
    /\ \A w \in vouched \cap zero : wipe[w] \in {"enrollments", "summaries"} => NothingArrives
    /\ clean =>
          /\ NothingArrives
          /\ ~summary
          /\ \A p \in Persist : persist[p] # "store"

IInv ==
    /\ TypeOK
    /\ CodesAreOwned
    /\ CountsAreCurrent
    /\ PauseIsHeld
    /\ SummaryLockIsHeld
    /\ WipeHasEmptied

-----------------------------------------------------------------------------
(* What each kind of request leaves alone. *)

LEMMA MintFrame ==
    ASSUME NEW m \in Mint, MintStep(m)
    PROVE  /\ UNCHANGED <<age, used, device, events, pause, summary, persist, wipeVars>>
           /\ UNCHANGED <<exchange, counted, ingest, share>>
BY DEF MintStep, MintBegin, MintInserts, MintRaises, database

LEMMA ExchangeFrame ==
    ASSUME NEW x \in Exchange, ExchangeStep(x)
    PROVE  /\ UNCHANGED <<owner, enrollments, age, events, pause, summary, persist, wipeVars>>
           /\ UNCHANGED <<mint, ingest, share>>
BY DEF ExchangeStep, ExchangeBegin, ExchangeCounts, ExchangeInserts, ExchangeRaises, ExchangeEnds, database

LEMMA IngestFrame ==
    ASSUME NEW i \in Ingest, IngestStep(i)
    PROVE  /\ UNCHANGED <<owner, enrollments, age, used, device, pause, summary, persist, wipeVars>>
           /\ UNCHANGED <<mint, exchange, counted>>
BY DEF IngestStep, IngestBegin, IngestInserts, IngestRaises, IngestEnds, database

LEMMA PersistFrame ==
    ASSUME NEW p \in Persist, PersistStep(p)
    PROVE  UNCHANGED <<database, pause, agentVars, wipeVars>>
BY DEF PersistStep, PersistBegin, PersistLock, PersistReadsPause, PersistStores, PersistRaises

LEMMA WipeFrame ==
    ASSUME NEW w \in Wipe, WipeStep(w)
    PROVE  UNCHANGED <<owner, age, used, agentVars, persist>>
BY DEF WipeStep, WipeContinues, WipeBegin, WipeConnect, WipeLock, WipeEvents, WipeDevices,
       WipeEnrollments, WipeGoes, WipeSummaries, WipeRaises, WipeCrashes, database

LEMMA HousekeepingFrame ==
    ASSUME Housekeeping
    PROVE  UNCHANGED <<owner, used, summary, agentVars, persist, wipe, full, zero, crashes>>
BY DEF Housekeeping, TimePasses, RevokeFilesAgentDevice, CleanupEvents, CleanupEnrollments,
       SetTelemetryPause, database, wipeVars

-----------------------------------------------------------------------------
(* Types *)

LEMMA MintTypes ==
    ASSUME TypeOK, NEW m \in Mint, MintStep(m)
    PROVE  TypeOK'
<1> USE DEF TypeOK, wipeVars
<1>1. ASSUME NEW u \in User, MintBegin(m, u) PROVE TypeOK'
    <2>1. IsFiniteSet(Recent(u)) /\ Cardinality(Recent(u)) \in Nat
        BY FS_Subset, FS_CardinalityType, FilesAgentAssumption DEF Recent
    <2>2. mint' \in [Mint -> {None} \cup [user : User, seen : Nat]]
        BY <1>1, <2>1 DEF MintBegin
    <2> QED
        BY <1>1, <2>2, MintFrame DEF MintBegin, database
<1>2. ASSUME NEW c \in Code, MintInserts(m, c) PROVE TypeOK'
    <2>1. mint[m].user \in User
        BY <1>2 DEF MintInserts
    <2> QED
        BY <1>2, <2>1, MintFrame DEF MintInserts
<1>3. CASE MintRaises(m)
    BY <1>3, MintFrame DEF MintRaises, database
<1> QED
    BY <1>1, <1>2, <1>3 DEF MintStep

LEMMA ExchangeTypes ==
    ASSUME TypeOK, NEW x \in Exchange, ExchangeStep(x)
    PROVE  TypeOK'
<1> USE DEF TypeOK, wipeVars, database
<1>1. ASSUME NEW c \in Code, ExchangeBegin(x, c) PROVE TypeOK'
    BY <1>1, ExchangeFrame DEF ExchangeBegin
<1>2. CASE ExchangeCounts(x)
    <2>1. PICK u : u = owner[exchange[x]]
        OBVIOUS
    <2>2. IsFiniteSet(Active(u)) /\ Cardinality(Active(u)) \in Nat
        BY FS_Subset, FS_CardinalityType, FilesAgentAssumption DEF Active
    <2> QED
        BY <1>2, <2>1, <2>2, ExchangeFrame DEF ExchangeCounts
<1>3. CASE ExchangeInserts(x)
    BY <1>3, ExchangeFrame DEF ExchangeInserts, ExchangeEnds
<1>4. CASE ExchangeRaises(x)
    BY <1>4, ExchangeFrame DEF ExchangeRaises, ExchangeEnds
<1> QED
    BY <1>1, <1>2, <1>3, <1>4 DEF ExchangeStep

LEMMA IngestTypes ==
    ASSUME TypeOK, NEW i \in Ingest, IngestStep(i)
    PROVE  TypeOK'
<1> USE DEF TypeOK, wipeVars, database
<1>1. ASSUME NEW c \in Code, IngestBegin(i, c) PROVE TypeOK'
    BY <1>1, IngestFrame DEF IngestBegin
<1>2. ASSUME NEW batch \in SUBSET Event, IngestInserts(i, batch) PROVE TypeOK'
    <2>1. events' \subseteq Code \X Event
        BY <1>2 DEF IngestInserts
    <2> QED
        BY <1>2, <2>1, IngestFrame DEF IngestInserts, IngestEnds
<1>3. CASE IngestRaises(i)
    BY <1>3, IngestFrame DEF IngestRaises, IngestEnds
<1> QED
    BY <1>1, <1>2, <1>3 DEF IngestStep

LEMMA PersistTypes ==
    ASSUME TypeOK, NEW p \in Persist, PersistStep(p)
    PROVE  TypeOK'
<1>1. /\ persist' \in [Persist -> {"idle", "lock", "read", "store"}]
      /\ summary' \in BOOLEAN
    BY DEF TypeOK, PersistStep, PersistBegin, PersistLock, PersistReadsPause, PersistStores, PersistRaises
<1> QED
    BY <1>1, PersistFrame DEF TypeOK, database, agentVars, wipeVars

LEMMA WipeTypes ==
    ASSUME TypeOK, NEW w \in Wipe, WipeStep(w)
    PROVE  TypeOK'
<1> USE DEF TypeOK, agentVars, database, WipeGoes, Deleting
<1>1. ASSUME NEW repeat \in BOOLEAN, WipeBegin(w, repeat) PROVE TypeOK'
    BY <1>1, WipeFrame DEF WipeBegin
<1>2. CASE WipeConnect(w)
    BY <1>2, WipeFrame DEF WipeConnect
<1>3. CASE WipeLock(w)
    BY <1>3, WipeFrame DEF WipeLock
<1>4. CASE WipeEvents(w)
    BY <1>4, WipeFrame DEF WipeEvents
<1>5. CASE WipeDevices(w)
    BY <1>5, WipeFrame DEF WipeDevices
<1>6. CASE WipeEnrollments(w)
    BY <1>6, WipeFrame DEF WipeEnrollments
<1>7. CASE WipeSummaries(w)
    BY <1>7, WipeFrame DEF WipeSummaries
<1>8. CASE WipeRaises(w)
    BY <1>8, WipeFrame DEF WipeRaises
<1>9. CASE WipeCrashes(w)
    BY <1>9, WipeFrame, FilesAgentAssumption DEF WipeCrashes
<1> QED
    BY <1>1, <1>2, <1>3, <1>4, <1>5, <1>6, <1>7, <1>8, <1>9 DEF WipeStep, WipeContinues

LEMMA HousekeepingTypes ==
    ASSUME TypeOK, Housekeeping
    PROVE  TypeOK'
<1> USE DEF TypeOK, agentVars, database, wipeVars
<1>1. ASSUME NEW c \in Code, TimePasses(c) PROVE TypeOK'
    <2>1. age' \in [Code -> {"fresh", "hour", "day", "stale"}]
        BY <1>1 DEF TimePasses, Ages
    <2> QED
        BY <1>1, <2>1 DEF TimePasses
<1>2. ASSUME NEW c \in Code, RevokeFilesAgentDevice(c) PROVE TypeOK'
    BY <1>2, FilesAgentAssumption DEF RevokeFilesAgentDevice
<1>3. ASSUME NEW old \in SUBSET events, CleanupEvents(old) PROVE TypeOK'
    BY <1>3 DEF CleanupEvents
<1>4. CASE CleanupEnrollments
    BY <1>4 DEF CleanupEnrollments
<1>5. ASSUME NEW paused \in BOOLEAN, SetTelemetryPause(paused) PROVE TypeOK'
    BY <1>5 DEF SetTelemetryPause
<1> QED
    BY <1>1, <1>2, <1>3, <1>4, <1>5 DEF Housekeeping

LEMMA TypeStep == TypeOK /\ [Next]_vars => TypeOK'
<1> SUFFICES ASSUME TypeOK, [Next]_vars PROVE TypeOK'
    OBVIOUS
<1>1. CASE UNCHANGED vars
    BY <1>1 DEF vars, database, agentVars, wipeVars, TypeOK
<1> QED
    BY <1>1, MintTypes, ExchangeTypes, IngestTypes, PersistTypes, WipeTypes, HousekeepingTypes DEF Next

LEMMA TypeInit == Init => TypeOK
<1> SUFFICES ASSUME Init PROVE TypeOK
    OBVIOUS
<1>1. /\ owner \in [Code -> User \cup {None}]
      /\ age \in [Code -> {"fresh", "hour", "day", "stale"}]
      /\ device \in [Code -> {None, "active", "revoked"}]
      /\ {c \in Code : device[c] # None} \subseteq used
      /\ pause \in {"absent", "0", "1"}
      /\ crashes \in 0..MaxCrash
    BY FilesAgentAssumption DEF Init
<1>2. /\ mint \in [Mint -> {None} \cup [user : User, seen : Nat]]
      /\ exchange \in [Exchange -> Code \cup {None}]
      /\ counted \in [Exchange -> Nat \cup {None}]
      /\ ingest \in [Ingest -> Code \cup {None}]
      /\ persist \in [Persist -> {"idle", "lock", "read", "store"}]
      /\ wipe \in [Wipe -> {"idle", "connect", "lock"} \cup Deleting]
    BY DEF Init
<1>3. /\ enrollments \subseteq Code /\ used \subseteq Code
      /\ events \subseteq Code \X Event
      /\ summary \in BOOLEAN /\ clean \in BOOLEAN
      /\ share \subseteq Ingest
      /\ full \subseteq Wipe /\ zero \subseteq Wipe /\ vouched \subseteq Wipe
    BY DEF Init
<1> QED
    BY <1>1, <1>2, <1>3 DEF TypeOK

\* Every variable keeps its type, and a code that has a device has been used,
\* for any users, codes, requests and limits.
THEOREM TypeCorrect == Spec => []TypeOK
BY TypeInit, TypeStep, PTL DEF Spec

-----------------------------------------------------------------------------
(* Codes *)

LEMMA CodesStep ==
    ASSUME TypeOK, CodesAreOwned, [Next]_vars
    PROVE  CodesAreOwned'
<1> USE DEF CodesAreOwned
<1>1. ASSUME NEW m \in Mint, MintStep(m) PROVE CodesAreOwned'
    <2>1. \A c \in enrollments' \cup used' : owner'[c] # None
        <3>1. CASE UNCHANGED <<owner, enrollments>>
            BY <1>1, <3>1, MintFrame
        <3>2. ASSUME NEW c \in Code, MintInserts(m, c)
              PROVE  \A d \in enrollments' \cup used' : owner'[d] # None
            BY <1>1, <3>2, MintFrame, FilesAgentAssumption DEF MintInserts, TypeOK
        <3> QED
            BY <1>1, <3>1, <3>2 DEF MintStep, MintBegin, MintRaises, database
    <2>2. enrollments \subseteq enrollments'
        BY <1>1 DEF MintStep, MintBegin, MintRaises, MintInserts, database
    <2> QED
        BY <1>1, <2>1, <2>2, MintFrame
<1>2. ASSUME NEW x \in Exchange, ExchangeStep(x) PROVE CodesAreOwned'
    <2>1. ASSUME NEW c \in Code, ExchangeBegin(x, c) PROVE CodesAreOwned'
        BY <2>1, ExchangeFrame, <1>2 DEF ExchangeBegin, TypeOK, database
    <2>2. CASE ExchangeCounts(x)
        BY <2>2, ExchangeFrame, <1>2 DEF ExchangeCounts, database
    <2>3. CASE ExchangeInserts(x)
        BY <2>3, ExchangeFrame, <1>2 DEF ExchangeInserts, ExchangeEnds, TypeOK
    <2>4. CASE ExchangeRaises(x)
        BY <2>4, ExchangeFrame, <1>2 DEF ExchangeRaises, ExchangeEnds, TypeOK
    <2> QED
        BY <1>2, <2>1, <2>2, <2>3, <2>4 DEF ExchangeStep
<1>3. ASSUME NEW i \in Ingest, IngestStep(i) PROVE CodesAreOwned'
    <2>1. \A j \in Ingest : ingest'[j] # None => ingest'[j] = ingest[j] \/ device[ingest'[j]] # None
        BY <1>3 DEF IngestStep, IngestBegin, IngestInserts, IngestRaises, IngestEnds, TypeOK
    <2>2. \A j \in Ingest : ingest'[j] # None => ingest'[j] \in used
        <3> SUFFICES ASSUME NEW j \in Ingest, ingest'[j] # None PROVE ingest'[j] \in used
            OBVIOUS
        <3>1. ingest'[j] \in Code
            BY IngestTypes, <1>3 DEF TypeOK
        <3> QED
            BY <2>1, <3>1 DEF TypeOK
    <2> QED
        BY <1>3, <2>2, IngestFrame
<1>4. ASSUME NEW p \in Persist, PersistStep(p) PROVE CodesAreOwned'
    BY <1>4, PersistFrame DEF database, agentVars
<1>5. ASSUME NEW w \in Wipe, WipeStep(w) PROVE CodesAreOwned'
    <2>1. enrollments' \subseteq enrollments
        BY <1>5 DEF WipeStep, WipeContinues, WipeBegin, WipeConnect, WipeLock, WipeEvents, WipeDevices,
                    WipeEnrollments, WipeSummaries, WipeRaises, WipeCrashes, database
    <2>2. \A x \in Exchange : exchange[x] # None /\ exchange[x] \in enrollments => exchange[x] \in enrollments'
        BY <1>5 DEF WipeStep, WipeContinues, WipeBegin, WipeConnect, WipeLock, WipeEvents, WipeDevices,
                    WipeEnrollments, WipeSummaries, WipeRaises, WipeCrashes, database
    <2> QED
        BY <1>5, <2>1, <2>2, WipeFrame DEF agentVars
<1>6. CASE Housekeeping
    <2>1. enrollments' \subseteq enrollments
        BY <1>6 DEF Housekeeping, TimePasses, RevokeFilesAgentDevice, CleanupEvents, CleanupEnrollments,
                    SetTelemetryPause, database
    <2>2. \A x \in Exchange : exchange[x] # None /\ exchange[x] \in enrollments => exchange[x] \in enrollments'
        BY <1>6 DEF Housekeeping, TimePasses, RevokeFilesAgentDevice, CleanupEvents, CleanupEnrollments,
                    SetTelemetryPause, database
    <2> QED
        BY <1>6, <2>1, <2>2, HousekeepingFrame DEF agentVars
<1>7. CASE UNCHANGED vars
    BY <1>7 DEF vars, database, agentVars
<1> QED
    BY <1>1, <1>2, <1>3, <1>4, <1>5, <1>6, <1>7 DEF Next

-----------------------------------------------------------------------------
(* Devices and their limit *)

LEMMA ActiveIsFinite ==
    ASSUME NEW u
    PROVE  IsFiniteSet(Active(u)) /\ Cardinality(Active(u)) \in Nat
BY FS_Subset, FS_CardinalityType, FilesAgentAssumption DEF Active

\* What a step leaves of the devices and of the exchanges that counted, when it
\* enrols none.
LEMMA NoneEnrolled ==
    ASSUME TypeOK, CodesAreOwned, CountsAreCurrent,
           \A c \in used : owner'[c] = owner[c],
           \A c \in Code : device'[c] = "active" => device[c] = "active",
           UNCHANGED <<exchange, counted>>,
           \A c \in enrollments : owner'[c] = owner[c]
    PROVE  CountsAreCurrent'
<1>1. \A u : Active(u)' \subseteq Active(u)
    <2> SUFFICES ASSUME NEW u, NEW c \in Code, device'[c] = "active", owner'[c] = u
                 PROVE  device[c] = "active" /\ owner[c] = u
        BY DEF Active
    <2>1. device[c] = "active" /\ device[c] # None
        BY FilesAgentAssumption
    <2> QED
        BY <2>1 DEF TypeOK
<1>2. \A u : Cardinality(Active(u)') \in Nat /\ Cardinality(Active(u)') <= Cardinality(Active(u))
    <2> TAKE u
    <2>1. PICK S : S = Active(u)
        OBVIOUS
    <2>2. PICK T : T = Active(u)'
        OBVIOUS
    <2>3. T \subseteq S /\ IsFiniteSet(S)
        BY <1>1, <2>1, <2>2, ActiveIsFinite
    <2> QED
        BY <2>1, <2>2, <2>3, FS_Subset, FS_CardinalityType
<1>3. \A x \in Exchange : counted[x] # None => owner'[exchange[x]] = owner[exchange[x]]
    BY DEF CountsAreCurrent, CodesAreOwned
<1>4. \A x \in Exchange : counted[x] # None => counted[x] \in Nat
    BY DEF TypeOK
<1>5. ASSUME NEW x \in Exchange, counted'[x] # None
      PROVE  exchange'[x] # None /\ (Cardinality(Active(owner[exchange[x]])) <= counted[x])'
    <2>1. PICK u : u = owner[exchange[x]]
        OBVIOUS
    <2>2. u = owner'[exchange'[x]] /\ exchange[x] # None
        BY <1>3, <1>5, <2>1 DEF CountsAreCurrent
    <2>3. Cardinality(Active(u)) <= counted[x] /\ counted[x] \in Nat
        BY <1>4, <1>5, <2>1 DEF CountsAreCurrent
    <2>4. Cardinality(Active(u)') <= counted[x]
        BY <1>2, <2>3, ActiveIsFinite
    <2> QED
        BY <2>2, <2>4
<1>6. DeviceLimit'
    <2> SUFFICES ASSUME NEW u \in User PROVE Cardinality(Active(u)') <= DEVICE_LIMIT_PER_USER
        BY DEF DeviceLimit
    <2> QED
        BY <1>2, ActiveIsFinite, FilesAgentAssumption DEF CountsAreCurrent, DeviceLimit
<1> QED
    BY <1>3, <1>5, <1>6 DEF CountsAreCurrent

LEMMA ExchangeCountsStep ==
    ASSUME TypeOK, CodesAreOwned, CountsAreCurrent, NEW x \in Exchange, ExchangeStep(x)
    PROVE  CountsAreCurrent'
<1>1. UNCHANGED owner
    BY ExchangeFrame
<1>2. ASSUME UNCHANGED device,
             \A y \in Exchange : counted'[y] # None =>
                 counted'[y] = counted[y] /\ exchange'[y] = exchange[y]
      PROVE  CountsAreCurrent'
    <2>1. \A u : Active(u)' = Active(u)
        BY <1>1, <1>2 DEF Active
    <2>2. \A y \in Exchange : counted'[y] # None =>
              owner'[exchange'[y]] = owner[exchange[y]]
        BY <1>1, <1>2
    <2> QED
        BY <1>2, <2>1, <2>2 DEF CountsAreCurrent, DeviceLimit
<1>3. ASSUME NEW c \in Code, ExchangeBegin(x, c) PROVE CountsAreCurrent'
    <2>1. counted[x] = None
        BY <1>3 DEF ExchangeBegin, CountsAreCurrent
    <2>2. \A y \in Exchange : y # x => exchange'[y] = exchange[y]
        BY <1>3 DEF ExchangeBegin, TypeOK
    <2> QED
        BY <1>2, <1>3, <2>1, <2>2 DEF ExchangeBegin, database
<1>4. CASE ExchangeCounts(x)
    <2>1. PICK u : u = owner[exchange[x]]
        OBVIOUS
    <2>2. UNCHANGED <<device, exchange>> /\ exchange[x] # None
        BY <1>4 DEF ExchangeCounts, database
    <2>3. counted'[x] = Cardinality(Active(u)) /\ \A y \in Exchange : y # x => counted'[y] = counted[y]
        BY <1>4, <2>1 DEF ExchangeCounts, TypeOK
    <2>4. \A v : Active(v)' = Active(v)
        BY <1>1, <2>2 DEF Active
    <2>5. \A y \in Exchange : y # x /\ counted[y] # None => owner[exchange[y]] # u
        BY <1>4, <2>1 DEF ExchangeCounts, UserLockFree
    <2>6. Cardinality(Active(u)') <= counted'[x]
        BY <2>3, <2>4, ActiveIsFinite
    <2>7. \A y \in Exchange : counted'[y] # None =>
              exchange'[y] # None /\ (Cardinality(Active(owner[exchange[y]])) <= counted[y])'
        <3> SUFFICES ASSUME NEW y \in Exchange, counted'[y] # None
                     PROVE  exchange'[y] # None /\ (Cardinality(Active(owner[exchange[y]])) <= counted[y])'
            OBVIOUS
        <3>1. CASE y = x
            BY <1>1, <2>1, <2>2, <2>6, <3>1
        <3>2. CASE y # x
            <4>1. PICK v : v = owner[exchange[y]]
                OBVIOUS
            <4>2. exchange[y] # None /\ Cardinality(Active(v)) <= counted[y]
                BY <2>3, <3>2, <4>1 DEF CountsAreCurrent
            <4> QED
                BY <1>1, <2>2, <2>3, <2>4, <3>2, <4>1, <4>2
        <3> QED
            BY <3>1, <3>2
    <2>8. \A y, z \in Exchange : y # z /\ counted'[y] # None /\ counted'[z] # None
              => owner'[exchange'[y]] # owner'[exchange'[z]]
        BY <1>1, <2>1, <2>2, <2>3, <2>5 DEF CountsAreCurrent
    <2>9. DeviceLimit'
        BY <2>4 DEF CountsAreCurrent, DeviceLimit
    <2> QED
        BY <2>7, <2>8, <2>9 DEF CountsAreCurrent
<1>5. CASE ExchangeInserts(x)
    <2>1. PICK c : c = exchange[x]
        OBVIOUS
    <2>2. PICK u : u = owner[c]
        OBVIOUS
    <2>3. c \in Code /\ counted[x] # None
        BY <1>5, <2>1 DEF ExchangeInserts, TypeOK
    <2>4. /\ Cardinality(Active(u)) <= counted[x] /\ counted[x] \in Nat
          /\ counted[x] < DEVICE_LIMIT_PER_USER
        BY <1>5, <2>1, <2>2 DEF ExchangeInserts, CountsAreCurrent, TypeOK
    <2>5. device' = [device EXCEPT ![c] = "active"]
        BY <1>5, <2>1 DEF ExchangeInserts
    <2>6. \A v : v # u => Active(v)' = Active(v)
        BY <1>1, <2>2, <2>3, <2>5 DEF Active, TypeOK
    <2>7. Active(u)' = Active(u) \cup {c}
        BY <1>1, <2>2, <2>3, <2>5 DEF Active, TypeOK
    <2>8. Cardinality(Active(u)') <= DEVICE_LIMIT_PER_USER
        <3>1. PICK S : S = Active(u)
            OBVIOUS
        <3>2. IsFiniteSet(S) /\ Cardinality(S) \in Nat
            BY <3>1, ActiveIsFinite
        <3>3. Cardinality(S \cup {c}) <= Cardinality(S) + 1
            <4>1. Cardinality(S \cup {c}) = Cardinality(S) \/ Cardinality(S \cup {c}) = Cardinality(S) + 1
                BY <3>2, FS_AddElement, Zenon
            <4> QED
                BY <3>2, <4>1
        <3>4. Cardinality(S \cup {c}) \in Nat
            BY <3>2, FS_AddElement, FS_CardinalityType
        <3>5. Cardinality(S) + 1 <= DEVICE_LIMIT_PER_USER
            BY <2>4, <3>1, <3>2, FilesAgentAssumption
        <3>6. Cardinality(S \cup {c}) <= DEVICE_LIMIT_PER_USER
            BY <3>2, <3>3, <3>4, <3>5, FilesAgentAssumption
        <3> QED
            BY <2>7, <3>1, <3>6
    <2>9. DeviceLimit'
        <3> SUFFICES ASSUME NEW v \in User PROVE Cardinality(Active(v)') <= DEVICE_LIMIT_PER_USER
            BY DEF DeviceLimit
        <3>1. CASE v = u
            BY <2>8, <3>1
        <3>2. CASE v # u
            BY <2>6, <3>2 DEF CountsAreCurrent, DeviceLimit
        <3> QED
            BY <3>1, <3>2
    <2>10. \A y \in Exchange : counted'[y] # None =>
              y # x /\ counted'[y] = counted[y] /\ exchange'[y] = exchange[y]
        BY <1>5 DEF ExchangeInserts, ExchangeEnds, TypeOK
    <2>11. \A y \in Exchange : counted'[y] # None =>
              owner'[exchange'[y]] = owner[exchange[y]] /\ owner[exchange[y]] # u
        BY <1>1, <2>1, <2>2, <2>3, <2>10 DEF CountsAreCurrent
    <2>12. \A y \in Exchange : counted'[y] # None =>
              exchange'[y] # None /\ (Cardinality(Active(owner[exchange[y]])) <= counted[y])'
        <3> SUFFICES ASSUME NEW y \in Exchange, counted'[y] # None
                     PROVE  exchange'[y] # None /\ (Cardinality(Active(owner[exchange[y]])) <= counted[y])'
            OBVIOUS
        <3>1. PICK v : v = owner[exchange[y]]
            OBVIOUS
        <3>2. exchange[y] # None /\ Cardinality(Active(v)) <= counted[y] /\ v # u
            BY <2>10, <2>11, <3>1 DEF CountsAreCurrent
        <3> QED
            BY <2>6, <2>10, <2>11, <3>1, <3>2
    <2> QED
        BY <2>9, <2>10, <2>11, <2>12 DEF CountsAreCurrent
<1>6. CASE ExchangeRaises(x)
    BY <1>2, <1>6 DEF ExchangeRaises, ExchangeEnds, TypeOK
<1> QED
    BY <1>3, <1>4, <1>5, <1>6 DEF ExchangeStep

LEMMA CountsStep ==
    ASSUME TypeOK, CodesAreOwned, CountsAreCurrent, [Next]_vars
    PROVE  CountsAreCurrent'
<1>1. ASSUME NEW m \in Mint, MintStep(m) PROVE CountsAreCurrent'
    <2>1. \A c \in enrollments \cup used : owner'[c] = owner[c]
        BY <1>1 DEF MintStep, MintBegin, MintInserts, MintRaises, database, CodesAreOwned, TypeOK
    <2> QED
        BY <1>1, <2>1, MintFrame, NoneEnrolled
<1>2. ASSUME NEW i \in Ingest, IngestStep(i) PROVE CountsAreCurrent'
    BY <1>2, IngestFrame, NoneEnrolled
<1>3. ASSUME NEW p \in Persist, PersistStep(p) PROVE CountsAreCurrent'
    BY <1>3, PersistFrame, NoneEnrolled DEF database, agentVars
<1>4. ASSUME NEW w \in Wipe, WipeStep(w) PROVE CountsAreCurrent'
    <2>1. \A c \in Code : device'[c] = "active" => device[c] = "active"
        <3>1. UNCHANGED device \/ WipeDevices(w)
            BY <1>4 DEF WipeStep, WipeContinues, WipeBegin, WipeConnect, WipeLock, WipeEvents,
                        WipeEnrollments, WipeSummaries, WipeRaises, WipeCrashes, database
        <3>2. CASE WipeDevices(w)
            BY <3>2, FilesAgentAssumption DEF WipeDevices
        <3> QED
            BY <3>1, <3>2
    <2> QED
        BY <1>4, <2>1, WipeFrame, NoneEnrolled DEF agentVars
<1>5. CASE Housekeeping
    <2>1. \A c \in Code : device'[c] = "active" => device[c] = "active"
        BY <1>5 DEF Housekeeping, TimePasses, RevokeFilesAgentDevice, CleanupEvents, CleanupEnrollments,
                    SetTelemetryPause, database, TypeOK
    <2> QED
        BY <1>5, <2>1, HousekeepingFrame, NoneEnrolled DEF agentVars
<1>6. CASE UNCHANGED vars
    BY <1>6, NoneEnrolled DEF vars, database, agentVars
<1> QED
    BY <1>1, <1>2, <1>3, <1>4, <1>5, <1>6, ExchangeCountsStep DEF Next

-----------------------------------------------------------------------------
(* The two locks *)

LEMMA PauseStep ==
    ASSUME TypeOK, PauseIsHeld, [Next]_vars
    PROVE  PauseIsHeld'
<1> USE DEF PauseIsHeld
<1>1. ASSUME UNCHANGED <<share, pause, ingest>> PROVE PauseIsHeld'
    BY <1>1
<1>2. ASSUME NEW i \in Ingest, IngestStep(i) PROVE PauseIsHeld'
    <2>1. ASSUME NEW c \in Code, IngestBegin(i, c) PROVE PauseIsHeld'
        BY <2>1 DEF IngestBegin, TypeOK
    <2>2. ASSUME IngestEnds(i) PROVE PauseIsHeld'
        BY <2>2 DEF IngestEnds, TypeOK
    <2> QED
        BY <1>2, <2>1, <2>2 DEF IngestStep, IngestInserts, IngestRaises
<1>3. ASSUME NEW w \in Wipe, WipeStep(w) PROVE PauseIsHeld'
    <2>1. UNCHANGED pause \/ (share = {} /\ pause' = "1")
        BY <1>3 DEF WipeStep, WipeContinues, WipeBegin, WipeConnect, WipeLock, WipeEvents, WipeDevices,
                    WipeEnrollments, WipeGoes, WipeSummaries, WipeRaises, WipeCrashes, PauseRowFree
    <2> QED
        BY <1>3, <2>1, WipeFrame DEF agentVars
<1>4. CASE Housekeeping
    <2>1. UNCHANGED pause \/ (share = {} /\ pause' \in {"0", "1"})
        BY <1>4 DEF Housekeeping, TimePasses, RevokeFilesAgentDevice, CleanupEvents, CleanupEnrollments,
                    SetTelemetryPause, PauseRowFree
    <2> QED
        BY <1>4, <2>1, HousekeepingFrame DEF agentVars
<1>5. ASSUME NEW m \in Mint, MintStep(m) PROVE PauseIsHeld'
    BY <1>1, <1>5, MintFrame
<1>6. ASSUME NEW x \in Exchange, ExchangeStep(x) PROVE PauseIsHeld'
    BY <1>1, <1>6, ExchangeFrame
<1>7. ASSUME NEW p \in Persist, PersistStep(p) PROVE PauseIsHeld'
    BY <1>1, <1>7, PersistFrame DEF agentVars
<1>8. CASE UNCHANGED vars
    BY <1>1, <1>8 DEF vars, agentVars
<1> QED
    BY <1>2, <1>3, <1>4, <1>5, <1>6, <1>7, <1>8 DEF Next

LEMMA SummaryLockStep ==
    ASSUME TypeOK, SummaryLockIsHeld, [Next]_vars
    PROVE  SummaryLockIsHeld'
<1> USE DEF SummaryLockIsHeld
<1>1. ASSUME UNCHANGED <<persist, wipe>> PROVE SummaryLockIsHeld'
    BY <1>1
<1>2. ASSUME NEW p \in Persist, PersistStep(p) PROVE SummaryLockIsHeld'
    <2>1. \A q \in Persist : persist'[q] \in {"read", "store"} =>
              persist[q] \in {"read", "store"} \/ \A w \in Wipe : wipe[w] \notin Deleting
        BY <1>2 DEF PersistStep, PersistBegin, PersistLock, PersistReadsPause, PersistStores,
                    PersistRaises, SummaryLockFree, TypeOK
    <2> QED
        BY <1>2, <2>1, PersistFrame DEF wipeVars
<1>3. ASSUME NEW w \in Wipe, WipeStep(w) PROVE SummaryLockIsHeld'
    <2>1. \A v \in Wipe : wipe'[v] \in Deleting =>
              wipe[v] \in Deleting \/ \A p \in Persist : persist[p] \notin {"read", "store"}
        <3>1. wipe'[w] \in Deleting =>
                  wipe[w] \in Deleting \/ \A p \in Persist : persist[p] \notin {"read", "store"}
            BY <1>3 DEF WipeStep, WipeContinues, WipeBegin, WipeConnect, WipeLock, WipeEvents, WipeDevices,
                    WipeEnrollments, WipeGoes, WipeSummaries, WipeRaises, WipeCrashes, SummaryLockFree,
                    TypeOK, Deleting
        <3>2. \A v \in Wipe : v # w => wipe'[v] = wipe[v]
            BY <1>3 DEF WipeStep, WipeContinues, WipeBegin, WipeConnect, WipeLock, WipeEvents, WipeDevices,
                    WipeEnrollments, WipeGoes, WipeSummaries, WipeRaises, WipeCrashes, TypeOK
        <3> QED
            BY <3>1, <3>2
    <2> QED
        BY <1>3, <2>1, WipeFrame
<1>4. CASE Housekeeping
    BY <1>1, <1>4, HousekeepingFrame
<1>5. ASSUME NEW m \in Mint, MintStep(m) PROVE SummaryLockIsHeld'
    BY <1>1, <1>5, MintFrame DEF wipeVars
<1>6. ASSUME NEW x \in Exchange, ExchangeStep(x) PROVE SummaryLockIsHeld'
    BY <1>1, <1>6, ExchangeFrame DEF wipeVars
<1>7. ASSUME NEW i \in Ingest, IngestStep(i) PROVE SummaryLockIsHeld'
    BY <1>1, <1>7, IngestFrame DEF wipeVars
<1>8. CASE UNCHANGED vars
    BY <1>1, <1>8 DEF vars, wipeVars
<1> QED
    BY <1>2, <1>3, <1>4, <1>5, <1>6, <1>7, <1>8 DEF Next

-----------------------------------------------------------------------------
(* What a wipe leaves *)

LEMMA EventsReferStep ==
    ASSUME TypeOK, \A e \in events : device[e[1]] # None, [Next]_vars
    PROVE  (\A e \in events : device[e[1]] # None)'
<1> USE FilesAgentAssumption
<1>1. \A e \in events : e[1] \in Code
    BY DEF TypeOK
<1>2. ASSUME events' \subseteq events, \A c \in Code : device[c] # None => device'[c] # None
      PROVE  \A e \in events' : device'[e[1]] # None
    BY <1>1, <1>2
<1>3. ASSUME NEW x \in Exchange, ExchangeStep(x) PROVE \A e \in events' : device'[e[1]] # None
    <2>1. \A c \in Code : device[c] # None => device'[c] # None
        BY <1>3 DEF ExchangeStep, ExchangeBegin, ExchangeCounts, ExchangeInserts, ExchangeRaises, database, TypeOK
    <2> QED
        BY <1>2, <1>3, <2>1, ExchangeFrame
<1>4. ASSUME NEW i \in Ingest, IngestStep(i) PROVE \A e \in events' : device'[e[1]] # None
    <2>1. \A e \in events' : e \in events \/ device[e[1]] # None
        BY <1>4 DEF IngestStep, IngestBegin, IngestInserts, IngestRaises, database
    <2> QED
        BY <1>4, <2>1, IngestFrame
<1>5. ASSUME NEW w \in Wipe, WipeStep(w) PROVE \A e \in events' : device'[e[1]] # None
    <2>1. CASE WipeDevices(w)
        <3>1. PICK gone \in Doomed({c \in Code : device[c] # None}) :
                  /\ \A c \in gone : ~Referenced(c)
                  /\ device' = [c \in Code |-> IF c \in gone THEN None ELSE device[c]]
            BY <2>1, Zenon DEF WipeDevices
        <3>2. \A e \in events : e[1] \notin gone
            BY <3>1 DEF Referenced
        <3>3. UNCHANGED events
            BY <2>1 DEF WipeDevices
        <3> QED
            BY <1>1, <3>1, <3>2, <3>3
    <2>2. CASE ~WipeDevices(w)
        <3>1. UNCHANGED device /\ events' \subseteq events
            BY <1>5, <2>2 DEF WipeStep, WipeContinues, WipeBegin, WipeConnect, WipeLock, WipeEvents,
                        WipeEnrollments, WipeSummaries, WipeRaises, WipeCrashes, database
        <3> QED
            BY <3>1, <1>2
    <2> QED
        BY <2>1, <2>2
<1>6. CASE Housekeeping
    <2>1. /\ events' \subseteq events
          /\ \A c \in Code : device[c] # None => device'[c] # None
        BY <1>6 DEF Housekeeping, TimePasses, RevokeFilesAgentDevice, CleanupEvents, CleanupEnrollments,
                    SetTelemetryPause, database, TypeOK
    <2> QED
        BY <1>2, <2>1
<1>7. ASSUME NEW m \in Mint, MintStep(m) PROVE \A e \in events' : device'[e[1]] # None
    BY <1>2, <1>7, MintFrame
<1>8. ASSUME NEW p \in Persist, PersistStep(p) PROVE \A e \in events' : device'[e[1]] # None
    BY <1>2, <1>8, PersistFrame DEF database
<1>9. CASE UNCHANGED vars
    BY <1>2, <1>9 DEF vars, database
<1> QED
    BY <1>3, <1>4, <1>5, <1>6, <1>7, <1>8, <1>9 DEF Next

\* Once nothing can arrive, nothing arrives while telemetry is paused: no
\* ingest begins, those under way lost their device, and no code that was
\* exchanged gets another.
LEMMA NothingArrivesStep ==
    ASSUME TypeOK, CodesAreOwned, NothingArrives, pause = "1", [Next]_vars
    PROVE  NothingArrives'
<1> USE FilesAgentAssumption DEF NothingArrives
<1>1. \A i \in Ingest : ingest[i] # None => ingest[i] \in Code
    BY DEF TypeOK
<1>2. ASSUME UNCHANGED ingest, events' \subseteq events,
             \A c \in Code : device[c] = None /\ c \in used => device'[c] = None
      PROVE  NothingArrives'
    BY <1>1, <1>2 DEF CodesAreOwned
<1>3. ASSUME NEW x \in Exchange, ExchangeStep(x) PROVE NothingArrives'
    <2>1. \A c \in Code : device[c] = None /\ c \in used => device'[c] = None
        BY <1>3 DEF ExchangeStep, ExchangeBegin, ExchangeCounts, ExchangeInserts, ExchangeRaises, database,
                    TypeOK, CodesAreOwned
    <2> QED
        BY <1>2, <1>3, <2>1, ExchangeFrame
<1>4. ASSUME NEW i \in Ingest, IngestStep(i) PROVE NothingArrives'
    <2>1. ~ \E c \in Code : IngestBegin(i, c)
        BY DEF IngestBegin
    <2>2. ~ \E batch \in SUBSET Event : IngestInserts(i, batch)
        BY DEF IngestInserts
    <2>3. UNCHANGED events /\ \A j \in Ingest : ingest'[j] = ingest[j] \/ ingest'[j] = None
        BY <1>4, <2>1, <2>2 DEF IngestStep, IngestRaises, IngestEnds, TypeOK
    <2> QED
        BY <1>4, <2>3, IngestFrame
<1>5. ASSUME NEW w \in Wipe, WipeStep(w) PROVE NothingArrives'
    <2>1. events' \subseteq events
        BY <1>5 DEF WipeStep, WipeContinues, WipeBegin, WipeConnect, WipeLock, WipeEvents, WipeDevices,
                    WipeEnrollments, WipeSummaries, WipeRaises, WipeCrashes, database
    <2>2. UNCHANGED device \/ WipeDevices(w)
        BY <1>5 DEF WipeStep, WipeContinues, WipeBegin, WipeConnect, WipeLock, WipeEvents,
                    WipeEnrollments, WipeSummaries, WipeRaises, WipeCrashes, database
    <2>3. \A c \in Code : device[c] = None => device'[c] = None
        BY <2>2 DEF WipeDevices
    <2> QED
        BY <1>2, <1>5, <2>1, <2>3, WipeFrame DEF agentVars
<1>6. CASE Housekeeping
    <2>1. /\ events' \subseteq events
          /\ \A c \in Code : device[c] = None => device'[c] = None
        BY <1>6 DEF Housekeeping, TimePasses, RevokeFilesAgentDevice, CleanupEvents, CleanupEnrollments,
                    SetTelemetryPause, database, TypeOK
    <2> QED
        BY <1>2, <1>6, <2>1, HousekeepingFrame DEF agentVars
<1>7. ASSUME NEW m \in Mint, MintStep(m) PROVE NothingArrives'
    BY <1>2, <1>7, MintFrame
<1>8. ASSUME NEW p \in Persist, PersistStep(p) PROVE NothingArrives'
    BY <1>2, <1>8, PersistFrame DEF database, agentVars
<1>9. CASE UNCHANGED vars
    BY <1>2, <1>9 DEF vars, database, agentVars
<1> QED
    BY <1>3, <1>4, <1>5, <1>6, <1>7, <1>8, <1>9 DEF Next

\* A statement that found no device left shows that nothing can arrive.
LEMMA NoDeviceNothingArrives ==
    ASSUME TypeOK, WipeHasEmptied, NEW w \in Wipe, WipeDevices(w), w \in zero'
    PROVE  NothingArrives'
<1>1. PICK gone \in Doomed({c \in Code : device[c] # None}) :
          /\ device' = [c \in Code |-> IF c \in gone THEN None ELSE device[c]]
          /\ WipeGoes(w, gone, "enrollments")
    BY Zenon DEF WipeDevices
<1>2. gone = {}
    BY <1>1 DEF WipeGoes, TypeOK
<1>3. Cardinality({}) = 0
    BY FS_EmptySet
<1>4. {c \in Code : device[c] # None} = {}
    BY <1>1, <1>2, <1>3, FilesAgentAssumption DEF Doomed
<1>5. \A c \in Code : device'[c] = None
    BY <1>1, <1>2, <1>4
<1>6. events = {}
    BY <1>4 DEF WipeHasEmptied, TypeOK
<1>7. UNCHANGED <<events, ingest>>
    BY DEF WipeDevices, WipeGoes, agentVars
<1> QED
    BY <1>5, <1>6, <1>7 DEF NothingArrives, TypeOK

LEMMA PausedStep ==
    ASSUME TypeOK, vouched # {} \/ clean => pause = "1", [Next]_vars
    PROVE  (vouched # {} \/ clean => pause = "1")'
<1>1. ASSUME UNCHANGED <<pause, wipeVars>> PROVE vouched' # {} \/ clean' => pause' = "1"
    BY <1>1 DEF wipeVars
<1>2. ASSUME NEW w \in Wipe, WipeStep(w) PROVE vouched' # {} \/ clean' => pause' = "1"
    BY <1>2 DEF WipeStep, WipeContinues, WipeBegin, WipeConnect, WipeLock, WipeEvents, WipeDevices,
                WipeEnrollments, WipeGoes, WipeSummaries, WipeRaises, WipeCrashes
<1>3. CASE Housekeeping
    BY <1>3 DEF Housekeeping, TimePasses, RevokeFilesAgentDevice, CleanupEvents, CleanupEnrollments,
                SetTelemetryPause, wipeVars
<1>4. ASSUME NEW i \in Ingest, IngestStep(i) PROVE vouched' # {} \/ clean' => pause' = "1"
    BY <1>1, <1>4, IngestFrame
<1>5. ASSUME NEW m \in Mint, MintStep(m) PROVE vouched' # {} \/ clean' => pause' = "1"
    BY <1>1, <1>5, MintFrame
<1>6. ASSUME NEW x \in Exchange, ExchangeStep(x) PROVE vouched' # {} \/ clean' => pause' = "1"
    BY <1>1, <1>6, ExchangeFrame
<1>7. ASSUME NEW p \in Persist, PersistStep(p) PROVE vouched' # {} \/ clean' => pause' = "1"
    BY <1>1, <1>7, PersistFrame
<1>8. CASE UNCHANGED vars
    BY <1>1, <1>8 DEF vars
<1> QED
    BY <1>2, <1>3, <1>4, <1>5, <1>6, <1>7, <1>8 DEF Next

\* The two ways a wipe comes to have found nothing: it had, or its statement
\* about the devices is the last that could have.
LEMMA EmptiedStep ==
    ASSUME TypeOK, CodesAreOwned, WipeHasEmptied, [Next]_vars,
           NEW v \in vouched' \cap zero', wipe'[v] \in {"enrollments", "summaries"}
    PROVE  NothingArrives'
<1>1. v \in Wipe
    BY TypeStep DEF TypeOK
<1>2. ASSUME v \in vouched \cap zero, wipe[v] \in {"enrollments", "summaries"} PROVE NothingArrives'
    <2>1. pause = "1" /\ NothingArrives
        BY <1>2 DEF WipeHasEmptied
    <2> QED
        BY <2>1, NothingArrivesStep
<1>3. ASSUME UNCHANGED <<wipe, zero>>, vouched' \subseteq vouched PROVE NothingArrives'
    BY <1>2, <1>3
<1>4. ASSUME NEW w \in Wipe, WipeStep(w) PROVE NothingArrives'
    <2>1. CASE WipeDevices(w) /\ v = w
        BY <2>1, NoDeviceNothingArrives
    <2>2. CASE ~(WipeDevices(w) /\ v = w)
        <3>1. CASE v # w
            <4>1. wipe'[v] = wipe[v]
                BY <1>1, <1>4, <3>1 DEF WipeStep, WipeContinues, WipeBegin, WipeConnect, WipeLock, WipeEvents,
                    WipeDevices, WipeEnrollments, WipeGoes, WipeSummaries, WipeRaises, WipeCrashes, TypeOK
            <4>2. zero' \subseteq zero \cup {w} /\ vouched' \subseteq vouched \cup {w}
                BY <1>4 DEF WipeStep, WipeContinues, WipeBegin, WipeConnect, WipeLock, WipeEvents,
                    WipeDevices, WipeEnrollments, WipeGoes, WipeSummaries, WipeRaises, WipeCrashes
            <4> QED
                BY <1>2, <3>1, <4>1, <4>2
        <3>2. CASE v = w /\ ~WipeDevices(w)
            <4>1. CASE WipeEvents(w)
                <5>1. PICK gone \in Doomed(events) : WipeGoes(w, gone, "devices")
                    BY <4>1, Zenon DEF WipeEvents
                <5> QED
                    BY <3>2, <5>1 DEF WipeGoes, TypeOK
            <4>2. CASE WipeEnrollments(w)
                <5>1. wipe[w] = "enrollments" /\ vouched' = vouched /\ zero' \subseteq zero
                    BY <4>2 DEF WipeEnrollments, WipeGoes
                <5> QED
                    BY <1>2, <3>2, <5>1
            <4>3. CASE ~WipeEvents(w) /\ ~WipeEnrollments(w)
                <5>1. wipe'[w] \in {"idle", "connect", "lock", "events"}
                    BY <1>4, <3>2, <4>3 DEF WipeStep, WipeContinues, WipeBegin, WipeConnect, WipeLock,
                                            WipeSummaries, WipeRaises, WipeCrashes, TypeOK
                <5> QED
                    BY <3>2, <5>1
            <4> QED
                BY <4>1, <4>2, <4>3
        <3> QED
            BY <2>2, <3>1, <3>2
    <2> QED
        BY <2>1, <2>2
<1>5. CASE Housekeeping
    <2>1. vouched' \subseteq vouched
        BY <1>5 DEF Housekeeping, TimePasses, RevokeFilesAgentDevice, CleanupEvents, CleanupEnrollments,
                    SetTelemetryPause, wipeVars
    <2> QED
        BY <1>3, <1>5, <2>1, HousekeepingFrame
<1>6. ASSUME NEW m \in Mint, MintStep(m) PROVE NothingArrives'
    BY <1>3, <1>6, MintFrame DEF wipeVars
<1>7. ASSUME NEW x \in Exchange, ExchangeStep(x) PROVE NothingArrives'
    BY <1>3, <1>7, ExchangeFrame DEF wipeVars
<1>8. ASSUME NEW i \in Ingest, IngestStep(i) PROVE NothingArrives'
    BY <1>3, <1>8, IngestFrame DEF wipeVars
<1>9. ASSUME NEW p \in Persist, PersistStep(p) PROVE NothingArrives'
    BY <1>3, <1>9, PersistFrame DEF wipeVars
<1>10. CASE UNCHANGED vars
    BY <1>3, <1>10 DEF vars, wipeVars
<1> QED
    BY <1>4, <1>5, <1>6, <1>7, <1>8, <1>9, <1>10 DEF Next

\* A delivery cannot have read the flag before the pause and store after the
\* wipe: it would have held the lock of the summaries.
LEMMA CleanStep ==
    ASSUME TypeOK, CodesAreOwned, SummaryLockIsHeld, WipeHasEmptied, [Next]_vars, clean'
    PROVE  /\ NothingArrives'
           /\ ~summary'
           /\ \A p \in Persist : persist'[p] # "store"
<1>1. CASE \E w \in Wipe : WipeSummaries(w) /\ ~clean
    <2>1. PICK w \in Wipe : WipeSummaries(w) /\ ~clean
        BY <1>1
    <2>2. w \in zero /\ w \in vouched /\ wipe[w] = "summaries" /\ summary' = FALSE
        BY <2>1 DEF WipeSummaries, TypeOK
    <2>3. NothingArrives /\ pause = "1"
        BY <2>2 DEF WipeHasEmptied
    <2>4. UNCHANGED persist
        BY <2>1 DEF WipeSummaries
    <2>5. \A p \in Persist : persist[p] # "store"
        BY <2>2 DEF SummaryLockIsHeld, Deleting
    <2> QED
        BY <2>2, <2>3, <2>4, <2>5, NothingArrivesStep
<1>2. CASE clean
    <2>1. /\ NothingArrives /\ ~summary /\ pause = "1"
          /\ \A p \in Persist : persist[p] # "store"
        BY <1>2 DEF WipeHasEmptied
    <2>2. ASSUME UNCHANGED persist, summary' = summary \/ ~summary'
          PROVE  ~summary' /\ \A p \in Persist : persist'[p] # "store"
        BY <2>1, <2>2
    <2>3. ASSUME NEW p \in Persist, PersistStep(p)
          PROVE  ~summary' /\ \A q \in Persist : persist'[q] # "store"
        BY <2>1, <2>3 DEF PersistStep, PersistBegin, PersistLock, PersistReadsPause, PersistStores,
                          PersistRaises, TypeOK
    <2>4. ASSUME NEW w \in Wipe, WipeStep(w)
          PROVE  ~summary' /\ \A p \in Persist : persist'[p] # "store"
        <3>1. summary' = summary \/ ~summary'
            BY <2>4 DEF WipeStep, WipeContinues, WipeBegin, WipeConnect, WipeLock, WipeEvents, WipeDevices,
                        WipeEnrollments, WipeGoes, WipeSummaries, WipeRaises, WipeCrashes
        <3> QED
            BY <2>2, <2>4, <3>1, WipeFrame
    <2>5. ~summary' /\ \A p \in Persist : persist'[p] # "store"
        BY <2>2, <2>3, <2>4, MintFrame, ExchangeFrame, IngestFrame, HousekeepingFrame DEF Next, vars
    <2> QED
        BY <2>1, <2>5, NothingArrivesStep
<1>3. clean \/ \E w \in Wipe : WipeSummaries(w)
    <2>1. ASSUME NEW w \in Wipe, WipeStep(w), ~WipeSummaries(w) PROVE clean' = clean
        BY <2>1 DEF WipeStep, WipeContinues, WipeBegin, WipeConnect, WipeLock, WipeEvents, WipeDevices,
                    WipeEnrollments, WipeGoes, WipeRaises, WipeCrashes
    <2>2. ASSUME Housekeeping PROVE clean' => clean
        BY <2>2 DEF Housekeeping, TimePasses, RevokeFilesAgentDevice, CleanupEvents, CleanupEnrollments,
                    SetTelemetryPause, wipeVars, TypeOK
    <2> QED
        BY <2>1, <2>2, MintFrame, ExchangeFrame, IngestFrame, PersistFrame DEF Next, vars, wipeVars, TypeOK
<1> QED
    BY <1>1, <1>2, <1>3 DEF TypeOK

-----------------------------------------------------------------------------
(* The theorems *)

LEMMA InitIInv == Init => IInv
<1> SUFFICES ASSUME Init PROVE IInv
    OBVIOUS
<1>1. TypeOK
    BY TypeInit
<1>2. CodesAreOwned /\ PauseIsHeld
    BY FilesAgentAssumption DEF Init, CodesAreOwned, PauseIsHeld
<1>3. SummaryLockIsHeld /\ WipeHasEmptied
    BY DEF Init, SummaryLockIsHeld, WipeHasEmptied, Deleting
<1>4. CountsAreCurrent
    <2>1. \A u : Active(u) = {}
        BY FilesAgentAssumption DEF Init, Active
    <2>2. DeviceLimit
        BY <2>1, FS_EmptySet, FilesAgentAssumption DEF DeviceLimit
    <2> QED
        BY <2>2 DEF Init, CountsAreCurrent
<1> QED
    BY <1>1, <1>2, <1>3, <1>4 DEF IInv

LEMMA StepIInv == IInv /\ [Next]_vars => IInv'
<1> SUFFICES ASSUME IInv, [Next]_vars PROVE IInv'
    OBVIOUS
<1>1. TypeOK' /\ CodesAreOwned' /\ CountsAreCurrent' /\ PauseIsHeld' /\ SummaryLockIsHeld'
    BY TypeStep, CodesStep, CountsStep, PauseStep, SummaryLockStep DEF IInv
<1>2. (\A e \in events : device[e[1]] # None)'
    BY EventsReferStep DEF IInv, WipeHasEmptied
<1>3. (vouched # {} \/ clean => pause = "1")'
    BY PausedStep DEF IInv, WipeHasEmptied
<1>4. (\A w \in vouched \cap zero : wipe[w] \in {"enrollments", "summaries"} => NothingArrives)'
    BY EmptiedStep DEF IInv
<1>5. (clean => NothingArrives /\ ~summary /\ \A p \in Persist : persist[p] # "store")'
    BY CleanStep DEF IInv
<1> QED
    BY <1>1, <1>2, <1>3, <1>4, <1>5 DEF IInv, WipeHasEmptied

\* The locks, counts and rows of the files agent fit together.
THEOREM Safety == Spec => []IInv
BY InitIInv, StepIInv, PTL DEF Spec

\* Whatever was under way when a wipe began, no event and no summary is there
\* once it reported that it was done, until telemetry is resumed.
THEOREM Wiped == Spec => []WipedStaysWiped
<1>1. IInv => WipedStaysWiped
    BY DEF IInv, WipeHasEmptied, NothingArrives, WipedStaysWiped
<1> QED
    BY <1>1, Safety, PTL

\* However many exchanges run at once, no user gets more devices than allowed.
THEOREM Limit == Spec => []DeviceLimit
<1>1. IInv => DeviceLimit
    BY DEF IInv, CountsAreCurrent
<1> QED
    BY <1>1, Safety, PTL

\* Where the row of the pause exists from the start, no event is recorded
\* while telemetry is paused.
THEOREM Quiet ==
    ASSUME FirstPause # "absent"
    PROVE  Spec => PausedMeansQuiet
<1> DEFINE A == pause = "1" => events' \subseteq events
<1>1. IInv /\ [Next]_vars => A
    <2> SUFFICES ASSUME IInv, [Next]_vars, pause = "1" PROVE events' \subseteq events
        OBVIOUS
    <2>1. \A i \in Ingest : ingest[i] = None
        BY DEF IInv, PauseIsHeld
    <2>2. ASSUME NEW i \in Ingest, IngestStep(i) PROVE events' \subseteq events
        BY <2>1, <2>2 DEF IngestStep, IngestBegin, IngestInserts, IngestRaises, database
    <2>3. ASSUME NEW w \in Wipe, WipeStep(w) PROVE events' \subseteq events
        BY <2>3 DEF WipeStep, WipeContinues, WipeBegin, WipeConnect, WipeLock, WipeEvents, WipeDevices,
                    WipeEnrollments, WipeSummaries, WipeRaises, WipeCrashes, database
    <2>4. ASSUME Housekeeping PROVE events' \subseteq events
        BY <2>4 DEF Housekeeping, TimePasses, RevokeFilesAgentDevice, CleanupEvents, CleanupEnrollments,
                    SetTelemetryPause, database
    <2> QED
        BY <2>2, <2>3, <2>4, MintFrame, ExchangeFrame, PersistFrame DEF Next, vars, database
<1>2. IInv /\ [Next]_vars => A \/ UNCHANGED vars
    BY <1>1
<1> QED
    BY <1>1, Safety, PTL DEF Spec, PausedMeansQuiet

=============================================================================
