------------------------- MODULE AgentBridge_proofs -------------------------
(***************************************************************************)
(* Theorems about AgentBridge, for any finite set of requests, any number  *)
(* of slots and any number of faults.                                      *)
(*                                                                         *)
(* The counter, the processes and the directories are tied together by     *)
(* what is known of one request at each of its awaits (RequestOK): a       *)
(* process or a directory belongs to a request that has a slot, so what is *)
(* known of the counter bounds the two.                                    *)
(***************************************************************************)
EXTENDS AgentBridge, FiniteSetTheorems, TLAPS

\* The awaits at which a request has a scratch directory, and those at which it
\* has had a child.
WithDirectory == {"prepare", "running", "output", "cleanup"}
WithChild == {"running", "output", "cleanup"}

\* What is known of one request: what it has at each await, that nobody kills
\* the group of a request that was aborted before it spawned, and that an output
\* is read of a child that ended by itself.
RequestOK(r) ==
    /\ r \in dirs <=> pc[r] \in WithDirectory
    /\ child[r] # "none" \/ r \in stragglers \cup overflow \cup deaf => pc[r] \in WithChild
    /\ pc[r] = "running" => child[r] # "none"
    /\ child[r] = "alive" => pc[r] = "running"
    /\ r \in deaf => r \in aborted
    /\ pc[r] = "running" /\ r \in aborted /\ r \in Processes => r \in deaf
    /\ result[r] = "ok" => pc[r] = "cleanup"
    /\ pc[r] = "output" \/ result[r] = "ok" => child[r] = "succeeded" /\ r \notin overflow \cup deaf

RequestsOK == \A r \in Request : RequestOK(r)

\* What the bridge cannot account for any more was left by faults, each of
\* which found at most CONCURRENCY requests under way.
FaultsExplain ==
    /\ orphans <= CONCURRENCY * faults
    /\ litter <= CONCURRENCY * faults

IInv == TypeOK /\ SlotsAccounted /\ RequestsOK /\ FaultsExplain

-----------------------------------------------------------------------------
(* The slots *)

LEMMA BusyIsFinite == IsFiniteSet(Busy)
  <1>1. Busy \subseteq Request BY DEF Busy
  <1> QED BY <1>1, AgentBridgeAssumption, FS_Subset

\* One fault more leaves at most CONCURRENCY things more.
LEMMA OneFaultMore ==
  ASSUME NEW f \in Nat
  PROVE  /\ CONCURRENCY * f \in Nat
         /\ CONCURRENCY * (f + 1) = CONCURRENCY * f + CONCURRENCY
  BY AgentBridgeAssumption, SMT

\* A fault explains what up to CONCURRENCY requests leave behind.
LEMMA FaultExplains ==
  ASSUME TypeOK, FaultsExplain, faults' = faults + 1,
         NEW n \in Nat, n <= CONCURRENCY, orphans' = orphans + n,
         NEW m \in Nat, m <= CONCURRENCY, litter' = litter + m
  PROVE  FaultsExplain'
  <1> DEFINE bound == CONCURRENCY * faults
  <1>1. bound \in Nat /\ CONCURRENCY * faults' = bound + CONCURRENCY
    BY OneFaultMore DEF TypeOK
  <1>2. orphans <= bound /\ litter <= bound BY DEF FaultsExplain
  <1> HIDE DEF bound
  <1>3. orphans' <= bound + CONCURRENCY /\ litter' <= bound + CONCURRENCY
    BY <1>1, <1>2, AgentBridgeAssumption DEF TypeOK
  <1> QED BY <1>1, <1>3 DEF FaultsExplain

\* A request that is accepted takes a slot.
LEMMA Accepts ==
  ASSUME TypeOK, SlotsAccounted, NEW r \in Request, Accept(r)
  PROVE  SlotsAccounted'
  <1>1. Busy' = Busy \cup {r} /\ r \notin Busy
    BY DEF Accept, Busy, TypeOK
  <1>2. Cardinality(Busy \cup {r}) = Cardinality(Busy) + 1
    BY <1>1, BusyIsFinite, FS_AddElement
  <1>3. active' = active + 1 /\ active < CONCURRENCY BY DEF Accept
  <1> QED BY <1>1, <1>2, <1>3, AgentBridgeAssumption DEF SlotsAccounted, TypeOK

\* A request that ends gives its slot back, and no other.
LEMMA Finishes ==
  ASSUME TypeOK, SlotsAccounted, NEW r \in Busy, Finish(r)
  PROVE  SlotsAccounted' /\ active' \in Nat
  <1>1. Busy' = Busy \ {r}
    BY DEF Finish, Busy, TypeOK
  <1>2. /\ Cardinality(Busy \ {r}) = Cardinality(Busy) - 1
        /\ Cardinality(Busy) \in Nat /\ Cardinality(Busy) # 0
    BY BusyIsFinite, FS_RemoveElement, FS_EmptySet, FS_CardinalityType
  <1>3. active' = active - 1 BY DEF Finish
  <1> QED BY <1>1, <1>2, <1>3, AgentBridgeAssumption DEF SlotsAccounted, TypeOK

\* Every other step leaves the slots alone.
LEMMA SlotsStay ==
  ASSUME SlotsAccounted, Busy' = Busy, UNCHANGED active
  PROVE  SlotsAccounted'
  BY DEF SlotsAccounted

\* Whatever requests have of the machine, there is at most one of it for a slot.
LEMMA SlotsBound ==
  ASSUME TypeOK, SlotsAccounted, NEW S, S \subseteq Busy
  PROVE  IsFiniteSet(S) /\ Cardinality(S) \in Nat /\ Cardinality(S) <= CONCURRENCY
  <1>1. IsFiniteSet(S) /\ Cardinality(S) <= Cardinality(Busy)
    BY BusyIsFinite, FS_Subset
  <1>2. Cardinality(S) \in Nat /\ Cardinality(Busy) \in Nat
    BY <1>1, BusyIsFinite, FS_CardinalityType
  <1> QED BY <1>1, <1>2, AgentBridgeAssumption DEF SlotsAccounted, TypeOK

LEMMA OwnedByBusy ==
  ASSUME TypeOK, RequestsOK
  PROVE  Processes \subseteq Busy /\ dirs \subseteq Busy
  BY DEF TypeOK, RequestsOK, RequestOK, Processes, Busy, WithChild, WithDirectory, PC

-----------------------------------------------------------------------------
(* One request at a time *)

\* A step of one request leaves the others as they are.
Elsewhere(r) ==
    \A q \in Request \ {r} :
        /\ pc'[q] = pc[q] /\ child'[q] = child[q] /\ result'[q] = result[q]
        /\ q \in aborted' <=> q \in aborted
        /\ q \in stragglers' <=> q \in stragglers
        /\ q \in deaf' <=> q \in deaf
        /\ q \in overflow' <=> q \in overflow
        /\ q \in dirs' <=> q \in dirs

LEMMA OthersStayOK ==
  ASSUME RequestsOK, NEW r \in Request, Elsewhere(r), RequestOK(r)'
  PROVE  RequestsOK'
  BY DEF RequestsOK, RequestOK, Elsewhere, Processes

\* The steps of one request.
StepOf(r) ==
    \/ Accept(r) \/ ChmodFails(r) \/ Overflow(r) \/ Disconnect(r) \/ Timeout(r)
    \/ ChildTimeout(r) \/ ChildClosed(r)
    \/ \E ok \in BOOLEAN :
          BodyEnds(r, ok) \/ MakeDirectory(r, ok) \/ Spawn(r, ok) \/ Cleanup(r, ok)
    \/ \E code \in {"succeeded", "failed"}, leaves \in BOOLEAN : ChildExits(r, code, leaves)
    \/ \E verdict \in Verdict : ReadOutput(r, verdict)

\* What a step of one request has to show.
Good(r) ==
    TypeOK' /\ Elsewhere(r) /\ RequestOK(r)' /\ SlotsAccounted' /\ FaultsExplain'

LEMMA StepIsGood ==
  ASSUME IInv, NEW r \in Request, StepOf(r)
  PROVE  Good(r)
  <1> USE DEF IInv, PC, Children, Verdict, WithDirectory, WithChild, Processes
  <1>ok. RequestOK(r) BY DEF RequestsOK
  <1>f. 0 <= CONCURRENCY /\ 1 <= CONCURRENCY BY AgentBridgeAssumption
  <1>1. CASE Accept(r)
    <2>1. SlotsAccounted' BY <1>1, Accepts
    <2>2. TypeOK' /\ Elsewhere(r) /\ FaultsExplain'
      BY <1>1 DEF Accept, TypeOK, Elsewhere, FaultsExplain
    <2>3. RequestOK(r)' BY <1>1, <1>ok DEF Accept, TypeOK, RequestOK
    <2> QED BY <2>1, <2>2, <2>3 DEF Good
  <1>2. CASE ChmodFails(r)
    <2>1. r \in Busy /\ Finish(r) BY <1>2 DEF ChmodFails, Busy
    <2>2. SlotsAccounted' /\ active' \in Nat BY <2>1, Finishes
    <2>3. TypeOK' /\ Elsewhere(r)
      BY <1>2, <2>2, AgentBridgeAssumption DEF ChmodFails, Finish, TypeOK, Elsewhere
    <2>4. FaultsExplain'
      <3>1. faults' = faults + 1 /\ orphans' = orphans + 0 /\ litter' = litter + 1
        BY <1>2 DEF ChmodFails, TypeOK
      <3> QED BY <3>1, <1>f, FaultExplains
    <2>5. RequestOK(r)' BY <1>2, <1>ok DEF ChmodFails, Finish, TypeOK, RequestOK
    <2> QED BY <2>2, <2>3, <2>4, <2>5 DEF Good
  <1>3. CASE Overflow(r)
    <2>1. Busy' = Busy BY <1>3 DEF Overflow, Busy
    <2>2. TypeOK' /\ Elsewhere(r) /\ FaultsExplain'
      BY <1>3 DEF Overflow, KillGroup, TypeOK, Elsewhere, FaultsExplain
    <2>3. RequestOK(r)' BY <1>3, <1>ok DEF Overflow, KillGroup, TypeOK, RequestOK
    <2>4. SlotsAccounted' BY <1>3, <2>1, SlotsStay DEF Overflow
    <2> QED BY <2>2, <2>3, <2>4 DEF Good
  <1>4. CASE Disconnect(r) \/ Timeout(r)
    <2>1. Abort(r) /\ UNCHANGED <<pc, deaf, overflow, result, dirs, active, litter, orphans, faults>>
          /\ gone' \subseteq Request
      BY <1>4 DEF Disconnect, Timeout, TypeOK
    <2>2. Busy' = Busy BY <2>1 DEF Busy
    <2>3. TypeOK' /\ Elsewhere(r) /\ FaultsExplain'
      BY <2>1 DEF Abort, KillGroup, TypeOK, Elsewhere, FaultsExplain
    <2>4. RequestOK(r)' BY <2>1, <1>ok DEF Abort, KillGroup, TypeOK, RequestOK
    <2>5. SlotsAccounted' BY <2>1, <2>2, SlotsStay
    <2> QED BY <2>3, <2>4, <2>5 DEF Good
  <1>5. CASE ChildTimeout(r)
    <2>1. Busy' = Busy BY <1>5 DEF ChildTimeout, Busy
    <2>2. TypeOK' /\ Elsewhere(r) /\ FaultsExplain'
      BY <1>5 DEF ChildTimeout, KillGroup, TypeOK, Elsewhere, FaultsExplain
    <2>3. RequestOK(r)' BY <1>5, <1>ok DEF ChildTimeout, KillGroup, TypeOK, RequestOK
    <2>4. SlotsAccounted' BY <1>5, <2>1, SlotsStay DEF ChildTimeout
    <2> QED BY <2>2, <2>3, <2>4 DEF Good
  <1>6. CASE ChildClosed(r)
    <2>1. Busy' = Busy BY <1>6 DEF ChildClosed, ClosedBy, Busy, TypeOK
    <2>2. TypeOK' /\ Elsewhere(r) /\ FaultsExplain'
      BY <1>6 DEF ChildClosed, ClosedBy, TypeOK, Elsewhere, FaultsExplain
    <2>3. RequestOK(r)' BY <1>6, <1>ok DEF ChildClosed, ClosedBy, TypeOK, RequestOK
    <2>4. SlotsAccounted' BY <1>6, <2>1, SlotsStay DEF ChildClosed
    <2> QED BY <2>2, <2>3, <2>4 DEF Good
  <1>7. ASSUME NEW ok \in BOOLEAN, BodyEnds(r, ok) PROVE Good(r)
    <2>1. CASE ok
      <3>1. Busy' = Busy BY <1>7, <2>1 DEF BodyEnds, Busy, TypeOK
      <3>2. SlotsAccounted' BY <1>7, <2>1, <3>1, SlotsStay DEF BodyEnds
      <3>3. TypeOK' /\ Elsewhere(r) /\ FaultsExplain'
        BY <1>7, <2>1 DEF BodyEnds, TypeOK, Elsewhere, FaultsExplain
      <3>4. RequestOK(r)' BY <1>7, <2>1, <1>ok DEF BodyEnds, TypeOK, RequestOK
      <3> QED BY <3>2, <3>3, <3>4 DEF Good
    <2>2. CASE ~ok
      <3>1. r \in Busy /\ Finish(r) BY <1>7, <2>2 DEF BodyEnds, Busy
      <3>2. SlotsAccounted' /\ active' \in Nat BY <3>1, Finishes
      <3>3. TypeOK' /\ Elsewhere(r) /\ FaultsExplain'
        BY <1>7, <3>1, <3>2 DEF BodyEnds, Finish, TypeOK, Elsewhere, FaultsExplain
      <3>4. RequestOK(r)' BY <1>7, <3>1, <1>ok DEF BodyEnds, Finish, TypeOK, RequestOK
      <3> QED BY <3>2, <3>3, <3>4 DEF Good
    <2> QED BY <2>1, <2>2
  <1>8. ASSUME NEW ok \in BOOLEAN, MakeDirectory(r, ok) PROVE Good(r)
    <2>1. CASE ok
      <3>1. Busy' = Busy BY <1>8, <2>1 DEF MakeDirectory, Busy, TypeOK
      <3>2. SlotsAccounted' BY <1>8, <2>1, <3>1, SlotsStay DEF MakeDirectory
      <3>3. TypeOK' /\ Elsewhere(r) /\ FaultsExplain'
        BY <1>8, <2>1 DEF MakeDirectory, TypeOK, Elsewhere, FaultsExplain
      <3>4. RequestOK(r)' BY <1>8, <2>1, <1>ok DEF MakeDirectory, TypeOK, RequestOK
      <3> QED BY <3>2, <3>3, <3>4 DEF Good
    <2>2. CASE ~ok
      <3>1. r \in Busy /\ Finish(r) BY <1>8, <2>2 DEF MakeDirectory, Busy
      <3>2. SlotsAccounted' /\ active' \in Nat BY <3>1, Finishes
      <3>3. TypeOK' /\ Elsewhere(r) /\ FaultsExplain'
        BY <1>8, <2>2, <3>1, <3>2 DEF MakeDirectory, Finish, TypeOK, Elsewhere, FaultsExplain
      <3>4. RequestOK(r)' BY <1>8, <2>2, <3>1, <1>ok DEF MakeDirectory, Finish, TypeOK, RequestOK
      <3> QED BY <3>2, <3>3, <3>4 DEF Good
    <2> QED BY <2>1, <2>2
  <1>9. ASSUME NEW ok \in BOOLEAN, Spawn(r, ok) PROVE Good(r)
    <2>1. Busy' = Busy BY <1>9 DEF Spawn, Busy, TypeOK
    <2>2. SlotsAccounted' BY <1>9, <2>1, SlotsStay DEF Spawn
    <2>3. TypeOK' /\ Elsewhere(r) /\ FaultsExplain'
      BY <1>9 DEF Spawn, TypeOK, Elsewhere, FaultsExplain
    <2>4. RequestOK(r)' BY <1>9, <1>ok DEF Spawn, TypeOK, RequestOK
    <2> QED BY <2>2, <2>3, <2>4 DEF Good
  <1>10. ASSUME NEW ok \in BOOLEAN, Cleanup(r, ok) PROVE Good(r)
    <2>1. r \in Busy /\ Finish(r) BY <1>10 DEF Cleanup, Busy
    <2>2. SlotsAccounted' /\ active' \in Nat BY <2>1, Finishes
    <2>3. TypeOK' /\ Elsewhere(r)
      BY <1>10, <2>2, AgentBridgeAssumption DEF Cleanup, Finish, TypeOK, Elsewhere
    <2>4. FaultsExplain'
      <3>1. CASE UNCHANGED <<litter, faults, orphans>> BY <3>1 DEF FaultsExplain
      <3>2. CASE faults' = faults + 1 /\ orphans' = orphans + 0 /\ litter' = litter + 1
        BY <3>2, <1>f, FaultExplains
      <3> QED BY <3>1, <3>2, <1>10 DEF Cleanup, TypeOK
    <2>5. RequestOK(r)' BY <1>10, <1>ok DEF Cleanup, Finish, TypeOK, RequestOK
    <2> QED BY <2>2, <2>3, <2>4, <2>5 DEF Good
  <1>11. ASSUME NEW code \in {"succeeded", "failed"}, NEW leaves \in BOOLEAN,
                ChildExits(r, code, leaves)
         PROVE  Good(r)
    <2>1. Busy' = Busy BY <1>11 DEF ChildExits, Busy
    <2>2. SlotsAccounted' BY <1>11, <2>1, SlotsStay DEF ChildExits
    <2>3. TypeOK' /\ Elsewhere(r) /\ FaultsExplain'
      BY <1>11 DEF ChildExits, TypeOK, Elsewhere, FaultsExplain
    <2>4. RequestOK(r)' BY <1>11, <1>ok DEF ChildExits, TypeOK, RequestOK
    <2> QED BY <2>2, <2>3, <2>4 DEF Good
  <1>12. ASSUME NEW verdict \in Verdict, ReadOutput(r, verdict) PROVE Good(r)
    <2>1. Busy' = Busy BY <1>12 DEF ReadOutput, Busy, TypeOK
    <2>2. SlotsAccounted' BY <1>12, <2>1, SlotsStay DEF ReadOutput
    <2>3. TypeOK' /\ Elsewhere(r) /\ FaultsExplain'
      BY <1>12 DEF ReadOutput, TypeOK, Elsewhere, FaultsExplain
    <2>4. RequestOK(r)' BY <1>12, <1>ok DEF ReadOutput, TypeOK, RequestOK
    <2> QED BY <2>2, <2>3, <2>4 DEF Good
  <1> QED BY <1>1, <1>2, <1>3, <1>4, <1>5, <1>6, <1>7, <1>8, <1>9, <1>10, <1>11, <1>12, Zenon
          DEF StepOf

-----------------------------------------------------------------------------
(* The invariant *)

\* A crash: what ran or lay around is left to itself, and one fault explains it.
LEMMA Crashes ==
  ASSUME IInv, Crash
  PROVE  IInv'
  <1>1. Processes \subseteq Busy /\ dirs \subseteq Busy BY OwnedByBusy DEF IInv
  <1>2. /\ Cardinality(Processes) \in Nat /\ Cardinality(Processes) <= CONCURRENCY
        /\ Cardinality(dirs) \in Nat /\ Cardinality(dirs) <= CONCURRENCY
    BY <1>1, SlotsBound DEF IInv
  <1>4. FaultsExplain' BY <1>2, FaultExplains DEF IInv, Crash
  <1>5. TypeOK'
    BY <1>2, AgentBridgeAssumption DEF IInv, Crash, TypeOK, PC, Children, Verdict
  <1>6. Busy' = {} BY DEF Crash, Busy
  <1>7. SlotsAccounted' BY <1>6, FS_EmptySet, AgentBridgeAssumption DEF Crash, SlotsAccounted
  <1>8. RequestsOK'
    BY DEF Crash, RequestsOK, RequestOK, WithDirectory, WithChild, Processes
  <1> QED BY <1>4, <1>5, <1>7, <1>8 DEF IInv

LEMMA OrphansEnd ==
  ASSUME IInv, OrphanEnds
  PROVE  IInv'
  <1>1. CONCURRENCY * faults \in Nat BY OneFaultMore DEF IInv, TypeOK
  <1>2. TypeOK' /\ FaultsExplain'
    BY <1>1 DEF IInv, OrphanEnds, request, TypeOK, FaultsExplain
  <1>3. RequestsOK'
    BY DEF IInv, OrphanEnds, request, RequestsOK, RequestOK, Processes
  <1>4. SlotsAccounted' BY SlotsStay DEF IInv, OrphanEnds, request, Busy
  <1> QED BY <1>2, <1>3, <1>4 DEF IInv

LEMMA InitInv == Init => IInv
  <1> SUFFICES ASSUME Init PROVE IInv OBVIOUS
  <1>1. TypeOK BY AgentBridgeAssumption DEF Init, TypeOK, PC, Children, Verdict
  <1>2. Busy = {} BY DEF Init, Busy
  <1>3. SlotsAccounted BY <1>2, FS_EmptySet, AgentBridgeAssumption DEF Init, SlotsAccounted
  <1>4. RequestsOK BY DEF Init, RequestsOK, RequestOK, WithDirectory, WithChild, Processes
  <1>5. FaultsExplain BY OneFaultMore DEF Init, FaultsExplain
  <1> QED BY <1>1, <1>3, <1>4, <1>5 DEF IInv

LEMMA NextInv == IInv /\ [Next]_vars => IInv'
  <1> SUFFICES ASSUME IInv, [Next]_vars PROVE IInv' OBVIOUS
  <1>1. ASSUME NEW r \in Request, StepOf(r) PROVE IInv'
    <2>1. Good(r) BY <1>1, StepIsGood
    <2>2. RequestsOK' BY <2>1, OthersStayOK DEF Good, IInv
    <2> QED BY <2>1, <2>2 DEF Good, IInv
  <1>2. CASE Crash BY <1>2, Crashes
  <1>3. CASE OrphanEnds BY <1>3, OrphansEnd
  <1>4. CASE UNCHANGED vars
    BY <1>4, SlotsStay DEF IInv, vars, request, TypeOK, SlotsAccounted, Busy, RequestsOK, RequestOK,
       Processes, FaultsExplain
  <1>5. Next => Crash \/ OrphanEnds \/ \E r \in Request : StepOf(r)
    BY Zenon DEF Next, StepOf
  <1> QED BY <1>1, <1>2, <1>3, <1>4, <1>5

\* The inductive invariant of the bridge: the counter, what each request has at
\* each await, and what faults left (handle and runCodex).
THEOREM Safety == Spec => []IInv
  BY InitInv, NextInv, PTL DEF Spec

\* Over every way a request ends and every crash, slots, process groups and
\* scratch directories are accounted for: nothing outlives its request but what
\* a fault left, and the limit on requests is one on processes.
THEOREM Machine == Spec => []SlotsCoverTheMachine
  <1>1. IInv => SlotsCoverTheMachine
    <2> SUFFICES ASSUME IInv PROVE SlotsCoverTheMachine OBVIOUS
    <2>1. Processes \subseteq Busy /\ dirs \subseteq Busy BY OwnedByBusy DEF IInv
    <2>2. /\ Cardinality(Processes) \in Nat /\ Cardinality(Processes) <= CONCURRENCY
          /\ Cardinality(dirs) \in Nat /\ Cardinality(dirs) <= CONCURRENCY
      BY <2>1, SlotsBound DEF IInv
    <2>3. /\ CONCURRENCY * faults \in Nat
          /\ CONCURRENCY * (faults + 1) = CONCURRENCY * faults + CONCURRENCY
      BY OneFaultMore DEF IInv, TypeOK
    <2>4. ProcessesBounded /\ LitterExplained
      BY <2>2, <2>3, AgentBridgeAssumption
         DEF IInv, TypeOK, FaultsExplain, ProcessesBounded, LitterExplained
    <2>5. AbortKills BY DEF IInv, RequestsOK, RequestOK, AbortKills
    <2>6. NothingOutlives BY <2>1 DEF NothingOutlives
    <2> QED BY <2>4, <2>5, <2>6 DEF IInv, SlotsCoverTheMachine
  <1> QED BY <1>1, Safety, PTL

\* No client is answered with the output of a child that was killed, failed,
\* wrote too much or outlived an abort.
THEOREM Genuine == Spec => []OkIsGenuine
  <1>1. IInv => OkIsGenuine
    BY DEF IInv, RequestsOK, RequestOK, OkIsGenuine
  <1> QED BY <1>1, Safety, PTL

=============================================================================
