--------------------------- MODULE Discovery_proofs ---------------------------
(***************************************************************************)
(* Proofs about Discovery and Telemetry, for every number of candidates,   *)
(* projects, pushes and events and for every bound.                        *)
(*                                                                         *)
(* The safety properties of Discovery follow from one inductive invariant: *)
(* a conjunction over the candidates, since no row of one candidate is     *)
(* related to a row of another.  Then come what no step may do, and that   *)
(* Discovery implements TracingConsent.                                    *)
(*                                                                         *)
(* The second half is about the requests of the device.  Its transactions  *)
(* are steps of Discovery, whose invariant is kept for free; what is added *)
(* says what a request in progress may rely on, where the device stands    *)
(* with the selection in its hand, and what is queued of a stop.           *)
(***************************************************************************)
EXTENDS Telemetry, TLAPS

-----------------------------------------------------------------------------
(* Helpers *)

\* A candidate matches a project its user may reach, or none.
LEMMA MatchType ==
    ASSUME access \subseteq Project, NEW c \in Candidate
    PROVE  AuthorizedMatch(c) \in access \cup {None}
<1>1. CASE Unique(Matches(c))
    <2>1. PICK p \in Matches(c) : Matches(c) = {p}
        BY <1>1 DEF Unique
    <2>2. p \in access
        BY <2>1 DEF Matches
    <2>3. AuthorizedMatch(c) = CHOOSE q \in Project : Matches(c) = {q}
        BY <1>1 DEF AuthorizedMatch
    <2>4. Matches(c) = {AuthorizedMatch(c)}
        BY <2>1, <2>2, <2>3
    <2> QED
        BY <2>1, <2>2, <2>4
<1>2. CASE ~Unique(Matches(c))
    BY <1>2 DEF AuthorizedMatch
<1> QED
    BY <1>1, <1>2

\* A check of a push, and an answer to it, change the one or the other column.
LEMMA PushDue == ASSUME NEW p \in Push PROVE [p EXCEPT !.due = TRUE] \in Push
BY DEF Push

LEMMA PushStatus ==
    ASSUME NEW p \in Push, NEW s \in {"none", "pending", "verified", "failed"}
    PROVE  [p EXCEPT !.status = s] \in Push
BY DEF Push

\* So does the answer to a selection.
LEMMA SelectionCompleted ==
    ASSUME NEW s \in Selection PROVE [s EXCEPT !.completed = TRUE] \in Selection
BY DEF Selection

LEMMA MatchStatusType ==
    ASSUME NEW c \in Candidate
    PROVE  MatchStatus(c) \in {"matched", "unmatched", "ambiguous"}
BY DEF MatchStatus

LEMMA RevokeRootsType ==
    ASSUME root \in [Candidate -> Root], NEW S
    PROVE  /\ RevokeRoots(S) \in [Candidate -> Root]
           /\ \A c \in Candidate :
                /\ RevokeRoots(S)[c].project = root[c].project
                /\ c \in S => ~RevokeRoots(S)[c].approved
                /\ c \notin S => RevokeRoots(S)[c] = root[c]
BY DEF RevokeRoots, Root

-----------------------------------------------------------------------------
(* Types *)

LEMMA InitTypeOK == Init => TypeOK
BY DiscoveryAssumption
   DEF Init, TypeOK, NoSelection, Selection, Lease, NoRoot, Root, Scan, ScanState, NoPush, Push

LEMMA ClaimTypeOK ==
    ASSUME TypeOK, ClaimDeviceWork
    PROVE  TypeOK'
<1> DEFINE token == claims + 1
<1>1. token \in Nat
    BY DEF TypeOK
<1>2. scan' \in Scan
    <2>1. scan' = IF ScanDue THEN [state |-> "running", lease |-> "held", token |-> token] ELSE scan
        BY DEF ClaimDeviceWork
    <2>2. [state |-> "running", lease |-> "held", token |-> token] \in Scan
        BY <1>1 DEF Scan, ScanState, Lease
    <2> QED
        BY <2>1, <2>2 DEF TypeOK
<1>3. sel' \in [Candidate -> Selection]
    <2>1. sel' = [c \in Candidate |->
                    IF c \in SelectionsDue THEN [sel[c] EXCEPT !.lease = "held", !.token = token]
                                           ELSE sel[c]]
        BY DEF ClaimDeviceWork
    <2>2. ASSUME NEW c \in Candidate
          PROVE  [sel[c] EXCEPT !.lease = "held", !.token = token] \in Selection
        BY <1>1 DEF TypeOK, Selection, Lease
    <2> QED
        BY <2>1, <2>2 DEF TypeOK
<1>4. matched' \in [Candidate -> Project \cup {None}]
    BY MatchType DEF ClaimDeviceWork, TypeOK
<1>5. /\ status' \in [Candidate -> {"matched", "unmatched", "ambiguous"}]
      /\ tracking' \in [Candidate -> {"unselected", "pending", "tracking", "stopped"}]
    BY DEF ClaimDeviceWork, TypeOK
<1>6. revision' \in [Candidate -> Nat \ {0}]
    <2>1. revision' = [c \in Candidate |-> IF c \in Refused THEN revision[c] + 1 ELSE revision[c]]
        BY DEF ClaimDeviceWork
    <2>2. revision \in [Candidate -> Nat \ {0}]
        BY DEF TypeOK
    <2> QED
        BY <2>1, <2>2
<1>7. root' \in [Candidate -> Root]
    <2>1. RevokeRoots(Refused) \in [Candidate -> Root]
        BY RevokeRootsType DEF TypeOK
    <2>2. \A c \in Candidate : [project |-> AuthorizedMatch(c), approved |-> TRUE] \in Root
        BY MatchType DEF Root, TypeOK
    <2> QED
        BY <2>1, <2>2 DEF ClaimDeviceWork
<1>8. push' \in [PushId -> Push]
    <2>1. push' = [i \in PushId |->
                     IF i \in PushesDue THEN [push[i] EXCEPT !.due = FALSE, !.token = token]
                                        ELSE push[i]]
        BY DEF ClaimDeviceWork
    <2>2. ASSUME NEW i \in PushId
          PROVE  [push[i] EXCEPT !.due = FALSE, !.token = token] \in Push
        BY <1>1 DEF TypeOK, Push
    <2> QED
        BY <2>1, <2>2 DEF TypeOK
<1>9. issued' \subseteq Work
    <2>1. issued' = issued \cup (IF ScanDue THEN {ScanWork(token)} ELSE {})
                           \cup {SelectionWork(c, token) : c \in Granted}
                           \cup {PushWork(i, token) : i \in PushesDue}
        BY DEF ClaimDeviceWork
    <2>2. ScanWork(token) \in Work
        BY <1>1 DEF ScanWork, Work
    <2>3. ASSUME NEW c \in Granted PROVE SelectionWork(c, token) \in Work
        <3>1. c \in Candidate /\ sel[c].revision \in Nat
            BY DEF Granted, SelectionsDue, TypeOK, Selection
        <3> QED
            BY <1>1, <3>1 DEF SelectionWork, Work
    <2>4. ASSUME NEW i \in PushesDue PROVE PushWork(i, token) \in Work
        BY <1>1 DEF PushesDue, PushWork, Work
    <2>5. issued \subseteq Work
        BY DEF TypeOK
    <2> QED
        BY <2>1, <2>2, <2>3, <2>4, <2>5
<1>10. claims' \in Nat
    BY <1>1 DEF ClaimDeviceWork
<1>11. UNCHANGED <<device, access, remote, known, explicit, tracked, scans, expiries, crashes>>
    BY DEF ClaimDeviceWork, authority
<1> QED
    BY <1>2, <1>3, <1>4, <1>5, <1>6, <1>7, <1>8, <1>9, <1>10, <1>11 DEF TypeOK

LEMMA StepTypeOK == TypeOK /\ [Next]_vars => TypeOK'
<1> SUFFICES ASSUME TypeOK, [Next]_vars PROVE TypeOK'
    OBVIOUS
<1> USE DiscoveryAssumption DEF TypeOK, authority, candidates, clock
<1>1. ASSUME NEW p \in Project, GrantAccess(p) PROVE TypeOK'
    BY <1>1 DEF GrantAccess
<1>2. ASSUME NEW p \in Project, NEW k \in Key, AttachProjectGitRemote(p, k) PROVE TypeOK'
    BY <1>2 DEF AttachProjectGitRemote
<1>3. CASE RevokeDevice
    BY <1>3 DEF RevokeDevice
<1>4. ASSUME NEW c \in Candidate, RevokeTraceMiniRoot(c) PROVE TypeOK'
    BY <1>4, RevokeRootsType DEF RevokeTraceMiniRoot
<1>5. CASE CreateRepositoryScan
    BY <1>5 DEF CreateRepositoryScan, Scan, ScanState, Lease
<1>6. ASSUME NEW c \in Candidate, NEW desired \in BOOLEAN, NEW rev \in 1..MaxRevision,
             SelectRepositoryCandidate(c, desired, rev)
      PROVE  TypeOK'
    <2>1. sel' \in [Candidate -> Selection]
        BY <1>6 DEF SelectRepositoryCandidate, Selection, Lease
    <2>2. root' \in [Candidate -> Root]
        BY <1>6, RevokeRootsType DEF SelectRepositoryCandidate
    <2>3. revision' \in [Candidate -> Nat \ {0}]
        BY <1>6 DEF SelectRepositoryCandidate
    <2> QED
        BY <1>6, <2>1, <2>2, <2>3 DEF SelectRepositoryCandidate
<1>7. ASSUME NEW c \in Candidate, NEW p \in Project, NEW rev \in 1..MaxRevision,
             LinkCandidate(c, p, rev)
      PROVE  TypeOK'
    <2>1. root' \in [Candidate -> Root]
        BY <1>7, RevokeRootsType DEF LinkCandidate
    <2>2. revision' \in [Candidate -> Nat \ {0}]
        BY <1>7 DEF LinkCandidate
    <2> QED
        BY <1>7, <2>1, <2>2 DEF LinkCandidate
<1>8. CASE ClaimDeviceWork
    BY <1>8, ClaimTypeOK
<1>9. ASSUME NEW w \in issued, NEW repositories \in SUBSET Candidate,
             PublishRepositoryCandidates(w, repositories)
      PROVE  TypeOK'
    <2>1. matched' \in [Candidate -> Project \cup {None}]
        BY <1>9, MatchType DEF PublishRepositoryCandidates
    <2>2. status' \in [Candidate -> {"matched", "unmatched", "ambiguous"}]
        BY <1>9, MatchStatusType DEF PublishRepositoryCandidates
    <2>3. root' \in [Candidate -> Root]
        BY <1>9, RevokeRootsType DEF PublishRepositoryCandidates
    <2>4. revision' \in [Candidate -> Nat \ {0}]
        BY <1>9 DEF PublishRepositoryCandidates
    <2> QED
        BY <1>9, <2>1, <2>2, <2>3, <2>4 DEF PublishRepositoryCandidates
<1>10. ASSUME NEW w \in issued, NEW error \in BOOLEAN, CompleteScan(w, error) PROVE TypeOK'
    BY <1>10 DEF CompleteScan, Scan, ScanState
<1>11. ASSUME NEW w \in issued, NEW isTracked \in BOOLEAN, NEW error \in BOOLEAN,
              CompleteSelection(w, isTracked, error)
       PROVE  TypeOK'
    <2>1. root' \in [Candidate -> Root]
        BY <1>11, RevokeRootsType DEF CompleteSelection
    <2>2. sel' \in [Candidate -> Selection]
        <3>1. sel \in [Candidate -> Selection]
            OBVIOUS
        <3>2. \A c \in Candidate : [sel[c] EXCEPT !.completed = TRUE] \in Selection
            BY <3>1, SelectionCompleted
        <3>3. sel' = [sel EXCEPT ![w.id].completed = TRUE]
            BY <1>11 DEF CompleteSelection
        <3>4. sel' = [c \in Candidate |->
                        IF c = w.id THEN [sel[c] EXCEPT !.completed = TRUE] ELSE sel[c]]
            BY <3>1, <3>3
        <3> QED
            BY <3>1, <3>2, <3>4
    <2>3. /\ tracking' \in [Candidate -> {"unselected", "pending", "tracking", "stopped"}]
          /\ tracked' \in [Candidate -> Project \cup {None}]
        BY <1>11 DEF CompleteSelection, CurrentLease
    <2> QED
        BY <1>11, <2>1, <2>2, <2>3 DEF CompleteSelection
<1>12. ASSUME NEW i \in PushId, NEW c \in Candidate, CreatePendingPush(i, c) PROVE TypeOK'
    BY <1>12 DEF CreatePendingPush, Push
<1>13. ASSUME NEW w \in issued, NEW outcome \in {"pending", "verified", "failed"},
              CompletePush(w, outcome)
       PROVE  TypeOK'
    <2>1. push' = [push EXCEPT ![w.id].status = outcome]
        BY <1>13 DEF CompletePush
    <2>2. push' \in [PushId -> Push]
        <3>1. push \in [PushId -> Push]
            OBVIOUS
        <3>2. \A i \in PushId : [push[i] EXCEPT !.status = outcome] \in Push
            BY <3>1, PushStatus
        <3>3. push' = [i \in PushId |->
                         IF i = w.id THEN [push[i] EXCEPT !.status = outcome] ELSE push[i]]
            BY <2>1, <3>1
        <3> QED
            BY <3>1, <3>2, <3>3
    <2> QED
        BY <1>13, <2>2 DEF CompletePush, OpenPush
<1>14. CASE ScanLeaseExpires
    BY <1>14 DEF ScanLeaseExpires, Elapse, Scan, Lease
<1>15. ASSUME NEW c \in Candidate, SelectionLeaseExpires(c) PROVE TypeOK'
    BY <1>15 DEF SelectionLeaseExpires, Elapse, Selection, Lease
<1>16. ASSUME NEW i \in PushId, PushCheckDue(i) PROVE TypeOK'
    <2>1. push' = [push EXCEPT ![i].due = TRUE]
        BY <1>16 DEF PushCheckDue
    <2>2. push' \in [PushId -> Push]
        <3>1. push \in [PushId -> Push]
            OBVIOUS
        <3>2. \A j \in PushId : [push[j] EXCEPT !.due = TRUE] \in Push
            BY <3>1, PushDue
        <3>3. push' = [j \in PushId |->
                         IF j = i THEN [push[j] EXCEPT !.due = TRUE] ELSE push[j]]
            BY <2>1, <3>1
        <3> QED
            BY <3>1, <3>2, <3>3
    <2> QED
        BY <1>16, <2>2 DEF PushCheckDue, Elapse
<1>17. CASE DeviceCrash
    BY <1>17 DEF DeviceCrash
<1>18. CASE UNCHANGED vars
    BY <1>18 DEF vars
<1> QED
    BY <1>1, <1>2, <1>3, <1>4, <1>5, <1>6, <1>7, <1>8, <1>9, <1>10, <1>11, <1>12, <1>13,
       <1>14, <1>15, <1>16, <1>17, <1>18
    DEF Next, Portal, Browser, Device, Answer, Time

\* Every row keeps its type, whatever the portal, the browser, the device and
\* the clock do.
THEOREM TypeCorrect == Spec => []TypeOK
BY InitTypeOK, StepTypeOK, PTL DEF Spec

-----------------------------------------------------------------------------
(* The inductive invariant *)

\* A selection never runs ahead of its candidate: once left behind by a newer
\* revision it stays behind.
RevisionOrder(c) == sel[c].revision <= revision[c]

\* A claimed selection for tracing was bound by the poll that handed it out.
HeldIsBound(c) ==
    InForce(c) /\ sel[c].desired /\ ~sel[c].completed /\ sel[c].lease # "free" =>
        matched[c] # None /\ root[c].project = matched[c]

\* No answer can quote the token of a selection that was never handed out.
FreeHasNoToken(c) == sel[c].lease = "free" => sel[c].token = 0
TokensArePositive == \A w \in issued : w.token > 0

CandidateOK(c) ==
    /\ RevisionOrder(c)
    /\ HeldIsBound(c)
    /\ FreeHasNoToken(c)
    /\ BoundBySelection(c)
    /\ Acknowledged(c)
    /\ Owed(c)

IndInv == TypeOK /\ TokensArePositive /\ \A c \in Candidate : CandidateOK(c)

-----------------------------------------------------------------------------
\* A candidate whose rows a step leaves alone keeps its part of the invariant.
LEMMA Untouched ==
    ASSUME NEW c \in Candidate, CandidateOK(c),
           access \subseteq access', known \subseteq known',
           matched'[c] = matched[c], tracking'[c] = tracking[c], revision'[c] = revision[c],
           sel'[c] = sel[c], tracked'[c] = tracked[c], root'[c] = root[c]
    PROVE  CandidateOK(c)'
BY DEF CandidateOK, RevisionOrder, HeldIsBound, FreeHasNoToken, BoundBySelection, Acknowledged,
       Owed, InForce

LEMMA InitIndInv == Init => IndInv
<1> SUFFICES ASSUME Init PROVE IndInv
    OBVIOUS
<1>1. TypeOK
    BY InitTypeOK
<1>2. ASSUME NEW c \in Candidate PROVE CandidateOK(c)
    BY DEF Init, CandidateOK, RevisionOrder, HeldIsBound, FreeHasNoToken, BoundBySelection,
           Acknowledged, Owed, InForce, NoSelection, NoRoot
<1> QED
    BY <1>1, <1>2 DEF IndInv, TokensArePositive, Init

LEMMA StepTokens ==
    ASSUME TypeOK, TokensArePositive, [Next]_vars
    PROVE  TokensArePositive'
<1>1. CASE ClaimDeviceWork
    <2>1. issued' = issued \cup (IF ScanDue THEN {ScanWork(claims + 1)} ELSE {})
                           \cup {SelectionWork(c, claims + 1) : c \in Granted}
                           \cup {PushWork(i, claims + 1) : i \in PushesDue}
        BY <1>1 DEF ClaimDeviceWork
    <2>2. claims + 1 > 0
        BY DEF TypeOK
    <2> QED
        BY <2>1, <2>2 DEF TokensArePositive, ScanWork, SelectionWork, PushWork
<1>2. CASE issued' \subseteq issued
    BY <1>2 DEF TokensArePositive
<1>3. ClaimDeviceWork \/ issued' \subseteq issued
    BY DEF Next, Portal, Browser, Device, Answer, Time, vars, GrantAccess, AttachProjectGitRemote,
           RevokeDevice, RevokeTraceMiniRoot, CreateRepositoryScan, SelectRepositoryCandidate,
           LinkCandidate, PublishRepositoryCandidates, CompleteScan, CompleteSelection,
           CreatePendingPush, CompletePush, ScanLeaseExpires, SelectionLeaseExpires, PushCheckDue,
           DeviceCrash
<1> QED
    BY <1>1, <1>2, <1>3

-----------------------------------------------------------------------------
(* One lemma per action that writes a candidate's rows *)

LEMMA SelectOK ==
    ASSUME TypeOK, NEW c \in Candidate, NEW d \in Candidate, CandidateOK(c),
           NEW desired \in BOOLEAN, NEW rev \in 1..MaxRevision,
           SelectRepositoryCandidate(d, desired, rev)
    PROVE  CandidateOK(c)'
<1>1. CASE c # d
    BY <1>1, Untouched, RevokeRootsType
    DEF SelectRepositoryCandidate, TypeOK, authority
<1>2. CASE c = d
    <2>1. /\ revision'[c] = rev + 1 /\ tracking'[c] = "pending"
          /\ sel'[c] = [desired |-> desired, revision |-> rev + 1, lease |-> "free",
                        token |-> 0, completed |-> FALSE]
          /\ matched' = matched /\ tracked' = tracked /\ c \in known /\ known' = known
        BY <1>2 DEF SelectRepositoryCandidate, TypeOK
    <2>2. root'[c] = IF desired THEN root[c] ELSE RevokeRoots({c})[c]
        BY <1>2 DEF SelectRepositoryCandidate
    <2>3. root'[c].approved => desired /\ root'[c] = root[c]
        BY <2>2, RevokeRootsType DEF TypeOK
    <2> QED
        BY <2>1, <2>3 DEF CandidateOK, RevisionOrder, HeldIsBound, FreeHasNoToken,
           BoundBySelection, Acknowledged, Owed, InForce
<1> QED
    BY <1>1, <1>2

LEMMA LinkOK ==
    ASSUME TypeOK, NEW c \in Candidate, NEW d \in Candidate, CandidateOK(c),
           NEW p \in Project, NEW rev \in 1..MaxRevision,
           LinkCandidate(d, p, rev)
    PROVE  CandidateOK(c)'
<1>1. CASE c # d
    BY <1>1, Untouched, RevokeRootsType DEF LinkCandidate, TypeOK, authority
<1>2. CASE c = d
    <2>1. /\ revision'[c] = revision[c] + 1 /\ tracking'[c] = "unselected"
          /\ sel' = sel /\ tracked'[c] = None
        BY <1>2 DEF LinkCandidate, StopAcknowledged, TypeOK
    <2>2. ~root'[c].approved
        BY <1>2, RevokeRootsType DEF LinkCandidate, TypeOK
    <2>3. sel[c].revision \in Nat /\ revision[c] \in Nat
        BY DEF TypeOK, Selection
    <2> QED
        BY <2>1, <2>2, <2>3 DEF CandidateOK, RevisionOrder, HeldIsBound, FreeHasNoToken,
           BoundBySelection, Acknowledged, Owed, InForce
<1> QED
    BY <1>1, <1>2

LEMMA RevokeRootOK ==
    ASSUME TypeOK, NEW c \in Candidate, NEW d \in Candidate, CandidateOK(c),
           RevokeTraceMiniRoot(d)
    PROVE  CandidateOK(c)'
<1>1. root'[c].project = root[c].project /\ (root'[c].approved => root'[c] = root[c])
    BY RevokeRootsType DEF RevokeTraceMiniRoot, TypeOK
<1> QED
    BY <1>1 DEF RevokeTraceMiniRoot, authority, candidates, CandidateOK, RevisionOrder,
       HeldIsBound, FreeHasNoToken, BoundBySelection, Acknowledged, Owed, InForce

LEMMA ClaimOK ==
    ASSUME TypeOK, NEW c \in Candidate, CandidateOK(c), ClaimDeviceWork
    PROVE  CandidateOK(c)'
<1> DEFINE token == claims + 1
<1>1. /\ sel'[c] = IF c \in SelectionsDue THEN [sel[c] EXCEPT !.lease = "held", !.token = token]
                                         ELSE sel[c]
      /\ matched'[c] = IF c \in SelectionsDue THEN AuthorizedMatch(c) ELSE matched[c]
      /\ tracking'[c] = IF c \in Refused THEN "stopped" ELSE tracking[c]
      /\ revision'[c] = IF c \in Refused THEN revision[c] + 1 ELSE revision[c]
      /\ root'[c] = IF c \in Bound THEN [project |-> AuthorizedMatch(c), approved |-> TRUE]
                    ELSE RevokeRoots(Refused)[c]
      /\ tracked' = tracked /\ known' = known /\ access' = access
    BY DEF ClaimDeviceWork, authority
<1>2. sel[c] \in Selection /\ sel[c].revision \in Nat /\ revision[c] \in Nat
    BY DEF TypeOK, Selection
<1>3. CASE c \notin SelectionsDue
    <2>1. c \notin Refused /\ c \notin Bound
        BY <1>3 DEF Refused, Bound, Granted
    <2>2. RevokeRoots(Refused)[c] = root[c]
        BY <2>1, RevokeRootsType DEF TypeOK
    <2> QED
        BY <1>1, <1>3, <2>1, <2>2, Untouched
<1>4. CASE c \in Refused
    <2>1. c \in SelectionsDue /\ c \notin Bound /\ sel[c].desired /\ c \in known /\ InForce(c)
        BY <1>4 DEF Refused, Bound, Granted, SelectionsDue, InForce
    <2>2. ~RevokeRoots(Refused)[c].approved
        BY <1>4, RevokeRootsType DEF TypeOK
    <2>3. sel'[c].revision = sel[c].revision /\ sel'[c].desired = sel[c].desired
          /\ sel'[c].lease = "held"
        BY <1>1, <1>2, <2>1 DEF Selection
    <2> QED
        BY <1>1, <1>2, <1>4, <2>1, <2>2, <2>3 DEF CandidateOK, RevisionOrder, HeldIsBound,
           FreeHasNoToken, BoundBySelection, Acknowledged, Owed, InForce
<1>5. CASE c \in Granted
    <2>1. /\ c \in SelectionsDue /\ c \notin Refused /\ c \in known /\ InForce(c)
          /\ ~sel[c].completed
        BY <1>5 DEF Granted, SelectionsDue, InForce
    <2>2. /\ sel'[c].revision = sel[c].revision /\ sel'[c].desired = sel[c].desired
          /\ sel'[c].lease = "held" /\ sel'[c].completed = sel[c].completed
        BY <1>1, <1>2, <2>1 DEF Selection
    <2>3. CASE sel[c].desired
        <3>1. c \in Bound /\ AuthorizedMatch(c) # None
            BY <1>5, <2>1, <2>3 DEF Bound, Granted, Refused
        <3>2. root'[c].project = AuthorizedMatch(c) /\ matched'[c] = AuthorizedMatch(c)
            BY <1>1, <2>1, <3>1
        <3> QED
            BY <1>1, <1>2, <2>1, <2>2, <2>3, <3>1, <3>2 DEF CandidateOK, RevisionOrder, HeldIsBound,
               FreeHasNoToken, BoundBySelection, Acknowledged, Owed, InForce
    <2>4. CASE ~sel[c].desired
        <3>1. c \notin Bound /\ root'[c] = root[c]
            BY <1>1, <2>1, <2>4, RevokeRootsType DEF Bound, TypeOK
        <3> QED
            BY <1>1, <1>2, <2>1, <2>2, <2>4, <3>1 DEF CandidateOK, RevisionOrder, HeldIsBound,
               FreeHasNoToken, BoundBySelection, Acknowledged, Owed, InForce
    <2> QED
        BY <2>3, <2>4
<1> QED
    BY <1>3, <1>4, <1>5 DEF Granted

LEMMA PublishOK ==
    ASSUME TypeOK, NEW c \in Candidate, CandidateOK(c), NEW w \in issued,
           NEW repositories \in SUBSET Candidate, PublishRepositoryCandidates(w, repositories)
    PROVE  CandidateOK(c)'
<1> DEFINE moved == {d \in repositories : MatchMoved(d)}
<1>1. /\ known \subseteq known' /\ access' = access /\ sel' = sel
      /\ matched'[c] = IF c \in moved THEN AuthorizedMatch(c) ELSE matched[c]
      /\ revision'[c] = IF c \in moved THEN revision[c] + 1 ELSE revision[c]
      /\ tracking'[c] = IF c \in moved THEN "unselected" ELSE tracking[c]
      /\ tracked'[c] = IF c \in moved THEN None ELSE tracked[c]
      /\ root' = RevokeRoots(moved)
    BY DEF PublishRepositoryCandidates, authority
<1>2. sel[c].revision \in Nat /\ revision[c] \in Nat
    BY DEF TypeOK, Selection
<1>3. CASE c \in moved
    <2>1. ~root'[c].approved
        BY <1>1, <1>3, RevokeRootsType DEF TypeOK
    <2> QED
        BY <1>1, <1>2, <1>3, <2>1 DEF CandidateOK, RevisionOrder, HeldIsBound,
           FreeHasNoToken, BoundBySelection, Acknowledged, Owed, InForce
<1>4. CASE c \notin moved
    <2>1. root'[c] = root[c]
        BY <1>1, <1>4, RevokeRootsType DEF TypeOK
    <2> QED
        BY <1>1, <1>4, <2>1, Untouched
<1> QED
    BY <1>3, <1>4

LEMMA CompleteOK ==
    ASSUME TypeOK, TokensArePositive, NEW c \in Candidate, CandidateOK(c), NEW w \in issued,
           NEW isTracked \in BOOLEAN, NEW error \in BOOLEAN,
           CompleteSelection(w, isTracked, error)
    PROVE  CandidateOK(c)'
<1>1. CASE c # w.id
    BY <1>1, Untouched, RevokeRootsType DEF CompleteSelection, TypeOK, authority
<1>2. CASE c = w.id
    <2>1. /\ InForce(c) /\ ~sel[c].completed /\ sel[c].token = w.token /\ c \in known
        BY <1>2 DEF CompleteSelection, CurrentLease, InForce
    <2>2. sel[c].lease # "free"
        BY <2>1 DEF CandidateOK, FreeHasNoToken, TokensArePositive, TypeOK, Work
    <2>3. sel[c] \in Selection
        BY DEF TypeOK
    <2>4. sel'[c] = [sel[c] EXCEPT !.completed = TRUE]
        BY <1>2 DEF CompleteSelection, TypeOK
    <2>5. /\ sel'[c].completed /\ sel'[c].revision = sel[c].revision
          /\ sel'[c].desired = sel[c].desired /\ sel'[c].lease = sel[c].lease
          /\ sel'[c].token = sel[c].token
        BY <2>3, <2>4 DEF Selection
    <2>6. /\ tracking'[c] = IF isTracked THEN "tracking" ELSE "stopped"
          /\ tracked'[c] = IF isTracked THEN matched[c] ELSE None
          /\ matched' = matched /\ revision' = revision /\ known' = known /\ access' = access
        BY <1>2 DEF CompleteSelection, TypeOK, authority
    <2>7. CASE isTracked
        <3>1. /\ sel[c].desired /\ matched[c] # None /\ AuthorizedMatch(c) = matched[c]
              /\ root' = root
            BY <1>2, <2>7 DEF CompleteSelection
        <3>2. matched[c] \in access
            BY <3>1, MatchType DEF TypeOK
        <3>3. root[c].project = matched[c]
            BY <2>1, <2>2, <3>1 DEF CandidateOK, HeldIsBound
        <3> QED
            BY <2>1, <2>5, <2>6, <2>7, <3>1, <3>2, <3>3 DEF CandidateOK, RevisionOrder,
               HeldIsBound, FreeHasNoToken, BoundBySelection, Acknowledged, Owed, InForce
    <2>8. CASE ~isTracked
        <3>1. ~root'[c].approved
            BY <1>2, <2>8, RevokeRootsType DEF CompleteSelection, TypeOK
        <3> QED
            BY <2>1, <2>5, <2>6, <2>8, <3>1 DEF CandidateOK, RevisionOrder, HeldIsBound,
               FreeHasNoToken, BoundBySelection, Acknowledged, Owed, InForce
    <2> QED
        BY <2>7, <2>8
<1> QED
    BY <1>1, <1>2

LEMMA ExpiryOK ==
    ASSUME TypeOK, NEW c \in Candidate, NEW d \in Candidate, CandidateOK(c),
           SelectionLeaseExpires(d)
    PROVE  CandidateOK(c)'
<1>1. CASE c # d
    BY <1>1, Untouched DEF SelectionLeaseExpires, TypeOK, authority, candidates
<1>2. CASE c = d
    <2>1. sel[c] \in Selection /\ sel[c].lease = "held"
          /\ sel'[c] = [sel[c] EXCEPT !.lease = "stale"]
        BY <1>2 DEF SelectionLeaseExpires, TypeOK
    <2>2. /\ sel'[c].completed = sel[c].completed /\ sel'[c].revision = sel[c].revision
          /\ sel'[c].desired = sel[c].desired /\ sel'[c].lease = "stale"
        BY <2>1 DEF Selection
    <2>3. UNCHANGED <<access, known, matched, tracking, revision, tracked, root>>
        BY <1>2 DEF SelectionLeaseExpires, authority, candidates
    <2> QED
        BY <2>1, <2>2, <2>3 DEF CandidateOK, RevisionOrder, HeldIsBound, FreeHasNoToken,
           BoundBySelection, Acknowledged, Owed, InForce
<1> QED
    BY <1>1, <1>2

-----------------------------------------------------------------------------
\* Every step keeps every candidate's part.
LEMMA StepCandidate ==
    ASSUME TypeOK, TokensArePositive, [Next]_vars, NEW c \in Candidate, CandidateOK(c)
    PROVE  CandidateOK(c)'
<1> DEFINE Keeps == /\ access \subseteq access'
                    /\ UNCHANGED <<known, matched, tracking, revision, sel, tracked, root>>
<1>1. CASE Keeps
    BY <1>1, Untouched
<1>2. ASSUME NEW p \in Project, GrantAccess(p) PROVE Keeps
    BY <1>2 DEF GrantAccess, candidates
<1>3. ASSUME NEW p \in Project, NEW k \in Key, AttachProjectGitRemote(p, k) PROVE Keeps
    BY <1>3 DEF AttachProjectGitRemote, candidates
<1>4. CASE \/ RevokeDevice \/ CreateRepositoryScan \/ ScanLeaseExpires \/ DeviceCrash
           \/ UNCHANGED vars
    BY <1>4, <1>1 DEF RevokeDevice, CreateRepositoryScan, ScanLeaseExpires, DeviceCrash, vars,
       authority, candidates
<1>5. ASSUME NEW w \in issued, NEW error \in BOOLEAN, CompleteScan(w, error) PROVE Keeps
    BY <1>5 DEF CompleteScan, authority, candidates
<1>6. ASSUME NEW i \in PushId, NEW d \in Candidate, CreatePendingPush(i, d) PROVE Keeps
    BY <1>6 DEF CreatePendingPush, authority, candidates
<1>7. ASSUME NEW w \in issued, NEW outcome \in {"pending", "verified", "failed"},
             CompletePush(w, outcome)
      PROVE  Keeps
    BY <1>7 DEF CompletePush, authority, candidates
<1>8. ASSUME NEW i \in PushId, PushCheckDue(i) PROVE Keeps
    BY <1>8 DEF PushCheckDue, authority, candidates
<1> HIDE DEF Keeps
<1> QED
    BY <1>1, <1>2, <1>3, <1>4, <1>5, <1>6, <1>7, <1>8, SelectOK, LinkOK, RevokeRootOK, ClaimOK,
       PublishOK, CompleteOK, ExpiryOK
    DEF Next, Portal, Browser, Device, Answer, Time

\* The rows of every candidate agree with each other in every state.
THEOREM Safety == Spec => []IndInv
<1>1. IndInv /\ [Next]_vars => IndInv'
    BY StepTypeOK, StepTokens, StepCandidate DEF IndInv
<1> QED
    BY InitIndInv, <1>1, PTL DEF Spec

\* What the device may still use is what its user still wants traced.
THEOREM Binding == Spec => []BindingFollowsSelection
<1>1. IndInv => BindingFollowsSelection
    BY DEF IndInv, CandidateOK, BindingFollowsSelection
<1> QED
    BY Safety, <1>1, PTL

\* The page follows from the rows: it is derived from the tracking that was
\* acknowledged and the binding that follows the selection.
LEMMA Honest ==
    ASSUME NEW c \in Candidate, root[c] \in Root, BoundBySelection(c), Acknowledged(c)
    PROVE  PageIsHonest(c)
<1>1. ASSUME Shown(c).traced, ~Shown(c).pending
      PROVE  /\ tracked[c] # None
             /\ root[c] = [project |-> tracked[c], approved |-> TRUE] /\ tracked[c] = AuthorizedMatch(c)
    <2>1. Listed(c) = "tracking"
        BY <1>1 DEF Shown
    <2>2. /\ AuthorizedMatch(c) # None /\ AuthorizedMatch(c) = matched[c]
          /\ tracking[c] = "tracking"
          /\ root[c] = [project |-> AuthorizedMatch(c), approved |-> TRUE]
        BY <2>1 DEF Listed
    <2> QED
        BY <2>2 DEF Acknowledged
<1>2. ASSUME root[c].approved
      PROVE  Shown(c).pending \/ Shown(c).traced \/ Shown(c).error
    BY <1>2 DEF BoundBySelection, Shown
<1> QED
    BY <1>1, <1>2 DEF PageIsHonest

\* What is tracked was acknowledged, for a project in reach, and the page of
\* its owner tells so.
THEOREM Tracking == Spec => []TrackingIsAcknowledged
<1>1. IndInv => TrackingIsAcknowledged
    BY Honest DEF IndInv, TypeOK, CandidateOK, TrackingIsAcknowledged
<1> QED
    BY Safety, <1>1, PTL

\* A tracked row is either acknowledged or its stop is still owed.
THEOREM TrackedRows == Spec => []TrackedRowIsOwed
<1>1. IndInv => TrackedRowIsOwed
    BY DEF IndInv, CandidateOK, TrackedRowIsOwed
<1> QED
    BY Safety, <1>1, PTL

-----------------------------------------------------------------------------
(* Action properties *)

\* The explicit project of a candidate is written by the link operation alone,
\* after the device acknowledged that it stopped.
THEOREM Relink == Spec => RelinkLeavesNothingBehind
<1> DEFINE A == \A c \in Candidate : explicit'[c] # explicit[c] =>
                   tracked[c] = None /\ ~root[c].approved
<1>1. IndInv /\ [Next]_vars => A
    <2> SUFFICES ASSUME IndInv, [Next]_vars, NEW c \in Candidate, explicit'[c] # explicit[c]
                 PROVE  tracked[c] = None /\ ~root[c].approved
        OBVIOUS
    <2>1. PICK d \in Candidate, p \in Project, rev \in 1..MaxRevision : LinkCandidate(d, p, rev)
        BY DEF Next, Portal, Browser, Device, Answer, Time, vars, GrantAccess,
           AttachProjectGitRemote, RevokeDevice, RevokeTraceMiniRoot, CreateRepositoryScan,
           SelectRepositoryCandidate, ClaimDeviceWork, PublishRepositoryCandidates, CompleteScan,
           CompleteSelection, CreatePendingPush, CompletePush, ScanLeaseExpires,
           SelectionLeaseExpires, PushCheckDue, DeviceCrash, candidates
    <2>2. c = d
        BY <2>1 DEF LinkCandidate, IndInv, TypeOK
    <2>3. StopAcknowledged(c)
        BY <2>1, <2>2 DEF LinkCandidate
    <2> QED
        BY <2>3 DEF StopAcknowledged, IndInv, CandidateOK, BoundBySelection
<1> QED
    BY Safety, <1>1, PTL DEF Spec, RelinkLeavesNothingBehind

\* A completed selection is handed out, expired or answered no more; only a new
\* decision replaces it, under a revision of its own.
THEOREM Acknowledgement == Spec => AcknowledgementIsFinal
<1> DEFINE A == \A c \in Candidate :
                   sel[c].completed /\ sel'[c].revision = sel[c].revision => sel'[c] = sel[c]
<1>1. IndInv /\ [Next]_vars => A
    <2> SUFFICES ASSUME IndInv, [Next]_vars, NEW c \in Candidate,
                        sel[c].completed, sel'[c].revision = sel[c].revision
                 PROVE  sel'[c] = sel[c]
        OBVIOUS
    <2>1. sel \in [Candidate -> Selection] /\ revision[c] \in Nat /\ sel[c].revision \in Nat
        BY DEF IndInv, TypeOK, Selection
    <2>2. ASSUME NEW d \in Candidate, NEW desired \in BOOLEAN, NEW rev \in 1..MaxRevision,
                 SelectRepositoryCandidate(d, desired, rev)
          PROVE  sel'[c] = sel[c]
        <3>1. revision[d] = rev
            BY <2>2 DEF SelectRepositoryCandidate
        <3>2. sel' = [sel EXCEPT ![d] = [desired |-> desired, revision |-> rev + 1,
                                         lease |-> "free", token |-> 0, completed |-> FALSE]]
            BY <2>2 DEF SelectRepositoryCandidate
        <3>3. c # d
            BY <2>1, <3>1, <3>2 DEF IndInv, CandidateOK, RevisionOrder
        <3> QED
            BY <2>1, <3>2, <3>3
    <2>3. CASE ClaimDeviceWork
        BY <2>3 DEF ClaimDeviceWork, SelectionsDue
    <2>4. ASSUME NEW w \in issued, NEW isTracked \in BOOLEAN, NEW error \in BOOLEAN,
                 CompleteSelection(w, isTracked, error)
          PROVE  sel'[c] = sel[c]
        <3>1. sel' = [sel EXCEPT ![w.id].completed = TRUE] /\ ~sel[w.id].completed
            BY <2>4 DEF CompleteSelection, CurrentLease
        <3> QED
            BY <2>1, <3>1
    <2>5. ASSUME NEW d \in Candidate, SelectionLeaseExpires(d) PROVE sel'[c] = sel[c]
        <3>1. sel' = [sel EXCEPT ![d].lease = "stale"] /\ ~sel[d].completed
            BY <2>5 DEF SelectionLeaseExpires
        <3> QED
            BY <2>1, <3>1
    <2>6. CASE sel' = sel
        BY <2>6
    <2> QED
        BY <2>2, <2>3, <2>4, <2>5, <2>6
        DEF Next, Portal, Browser, Device, Answer, Time, vars, GrantAccess,
           AttachProjectGitRemote, RevokeDevice, RevokeTraceMiniRoot, CreateRepositoryScan,
           LinkCandidate, PublishRepositoryCandidates, CompleteScan, CreatePendingPush,
           CompletePush, ScanLeaseExpires, PushCheckDue, DeviceCrash
<1> QED
    BY Safety, <1>1, PTL DEF Spec, AcknowledgementIsFinal

\* A push row that was settled is not due, not handed out and not answered again.
THEOREM Settled == Spec => PushIsFinal
<1> DEFINE B == \A i \in PushId : push[i].status \in {"verified", "failed"} => push'[i] = push[i]
<1>1. IndInv /\ [Next]_vars => B
    <2> SUFFICES ASSUME IndInv, [Next]_vars, NEW i \in PushId,
                        push[i].status \in {"verified", "failed"}
                 PROVE  push'[i] = push[i]
        OBVIOUS
    <2>1. push \in [PushId -> Push]
        BY DEF IndInv, TypeOK
    <2>2. CASE ClaimDeviceWork
        BY <2>1, <2>2 DEF ClaimDeviceWork, PushesDue
    <2>3. ASSUME NEW j \in PushId, PushCheckDue(j) PROVE push'[i] = push[i]
        BY <2>1, <2>3 DEF PushCheckDue
    <2>4. ASSUME NEW j \in PushId, NEW c \in Candidate, CreatePendingPush(j, c)
          PROVE  push'[i] = push[i]
        BY <2>1, <2>4 DEF CreatePendingPush
    <2>5. ASSUME NEW w \in issued, NEW outcome, CompletePush(w, outcome)
          PROVE  push'[i] = push[i]
        BY <2>1, <2>5 DEF CompletePush, OpenPush
    <2>6. CASE push' = push
        BY <2>6
    <2> QED
        BY <2>2, <2>3, <2>4, <2>5, <2>6
        DEF Next, Portal, Browser, Device, Answer, Time, vars, GrantAccess,
           AttachProjectGitRemote, RevokeDevice, RevokeTraceMiniRoot, CreateRepositoryScan,
           SelectRepositoryCandidate, LinkCandidate, PublishRepositoryCandidates, CompleteScan,
           CompleteSelection, ScanLeaseExpires, SelectionLeaseExpires, DeviceCrash
<1> QED
    BY Safety, <1>1, PTL DEF Spec, PushIsFinal

\* Whatever answers the device repeats or delivers late, none of them changes
\* what an earlier answer to the same question settled.
THEOREM Answers == Spec => AnswersAreFinal
BY Acknowledgement, Settled DEF AnswersAreFinal

\* A poll or a scan that handles many candidates of the device withdraws none of
\* them for the sake of another.
THEOREM OwnDecision == Spec => WithdrawnForOwnDecision
<1> DEFINE W(c) == root[c].approved /\ ~root'[c].approved =>
                      \/ RevokeTraceMiniRoot(c)
                      \/ revision'[c] > revision[c]
                      \/ sel'[c].completed /\ ~sel[c].completed
<1>1. IndInv /\ [Next]_vars => \A c \in Candidate : W(c)
    <2> SUFFICES ASSUME IndInv, [Next]_vars, NEW c \in Candidate,
                        root[c].approved, ~root'[c].approved
                 PROVE  \/ RevokeTraceMiniRoot(c)
                        \/ revision'[c] > revision[c]
                        \/ sel'[c].completed /\ ~sel[c].completed
        OBVIOUS
    <2>1. /\ sel \in [Candidate -> Selection] /\ root \in [Candidate -> Root]
          /\ revision \in [Candidate -> Nat]
        BY DEF IndInv, TypeOK
    <2>2. root' # root
        OBVIOUS
    <2>3. ASSUME NEW d \in Candidate, RevokeTraceMiniRoot(d) PROVE RevokeTraceMiniRoot(c)
        <3>1. c = d
            BY <2>1, <2>3 DEF RevokeTraceMiniRoot, RevokeRoots
        <3> QED
            BY <2>3, <3>1
    <2>4. ASSUME NEW d \in Candidate, NEW desired \in BOOLEAN, NEW rev \in 1..MaxRevision,
                 SelectRepositoryCandidate(d, desired, rev)
          PROVE  revision'[c] > revision[c]
        <3>1. c = d
            BY <2>1, <2>4 DEF SelectRepositoryCandidate, RevokeRoots
        <3> QED
            BY <2>1, <2>4, <3>1 DEF SelectRepositoryCandidate
    <2>5. ASSUME NEW d \in Candidate, NEW p \in Project, NEW rev \in 1..MaxRevision,
                 LinkCandidate(d, p, rev)
          PROVE  revision'[c] > revision[c]
        <3>1. c = d
            BY <2>1, <2>5 DEF LinkCandidate, RevokeRoots
        <3> QED
            BY <2>1, <2>5, <3>1 DEF LinkCandidate
    <2>6. ASSUME ClaimDeviceWork PROVE revision'[c] > revision[c]
        <3>1. root' = [d \in Candidate |->
                         IF d \in Bound THEN [project |-> AuthorizedMatch(d), approved |-> TRUE]
                         ELSE RevokeRoots(Refused)[d]]
            BY <2>6, Zenon DEF ClaimDeviceWork
        <3>2. c \in Refused
            BY <2>1, <3>1 DEF RevokeRoots
        <3>3. revision' = [d \in Candidate |-> IF d \in Refused THEN revision[d] + 1 ELSE revision[d]]
            BY <2>6, Zenon DEF ClaimDeviceWork
        <3> QED
            BY <2>1, <3>2, <3>3
    <2>7. ASSUME NEW w \in issued, NEW repositories \in SUBSET Candidate,
                 PublishRepositoryCandidates(w, repositories)
          PROVE  revision'[c] > revision[c]
        <3> DEFINE moved == {d \in repositories : MatchMoved(d)}
        <3>1. /\ root' = RevokeRoots(moved)
              /\ revision' = [d \in Candidate |-> IF d \in moved THEN revision[d] + 1 ELSE revision[d]]
            BY <2>7 DEF PublishRepositoryCandidates
        <3> HIDE DEF moved
        <3>2. c \in moved
            BY <2>1, <3>1 DEF RevokeRoots
        <3> QED
            BY <2>1, <3>1, <3>2
    <2>8. ASSUME NEW w \in issued, NEW isTracked \in BOOLEAN, NEW error \in BOOLEAN,
                 CompleteSelection(w, isTracked, error)
          PROVE  sel'[c].completed /\ ~sel[c].completed
        <3>1. /\ root' = IF isTracked THEN root ELSE RevokeRoots({w.id})
              /\ sel' = [sel EXCEPT ![w.id].completed = TRUE]
              /\ ~sel[w.id].completed
            BY <2>8 DEF CompleteSelection, CurrentLease
        <3>2. c = w.id
            BY <2>1, <2>2, <3>1 DEF RevokeRoots
        <3> QED
            BY <2>1, <3>1, <3>2
    <2> QED
        BY <2>2, <2>3, <2>4, <2>5, <2>6, <2>7, <2>8
        DEF Next, Portal, Browser, Device, Answer, Time, vars, GrantAccess,
           AttachProjectGitRemote, RevokeDevice, CreateRepositoryScan, CompleteScan,
           CreatePendingPush, CompletePush, ScanLeaseExpires, SelectionLeaseExpires,
           PushCheckDue, DeviceCrash
<1> QED
    BY Safety, <1>1, PTL DEF Spec, WithdrawnForOwnDecision

-----------------------------------------------------------------------------
(* Refinement *)

LEMMA InitConsent == Init => Consent!Init
BY DEF Init, Consent!Init, Phase, InForce, NoSelection, NoRoot

\* The move of one candidate, in the terms of the abstract machine.
LEMMA Move ==
    ASSUME NEW c \in Candidate, NEW p, NEW u, Phase(c)' = p, root'[c].approved = u
    PROVE  Consent!Moves(c, p, u)
BY DEF Consent!Moves

LEMMA Stays ==
    ASSUME NEW c \in Candidate, Phase(c)' = Phase(c),
           root'[c].approved = root[c].approved \/ root'[c].approved = FALSE
    PROVE  Consent!Step(c)
BY DEF Consent!Step, Consent!Stay, Consent!Revoke, Consent!Moves

LEMMA Withdrawn ==
    ASSUME NEW c \in Candidate, Phase(c)' = "off", root'[c].approved = FALSE
    PROVE  Consent!Step(c)
BY Move DEF Consent!Step, Consent!Withdraw

\* A candidate whose decision and binding a step leaves alone stays where it is.
LEMMA StaysPut ==
    ASSUME NEW c \in Candidate,
           sel'[c] = sel[c], revision'[c] = revision[c], tracking'[c] = tracking[c],
           root'[c] = root[c]
    PROVE  Consent!Step(c)
<1>1. Phase(c)' = Phase(c)
    BY DEF Phase, InForce
<1> QED
    BY <1>1, Stays

LEMMA SelectConsent ==
    ASSUME TypeOK, NEW c \in Candidate, NEW d \in Candidate,
           NEW desired \in BOOLEAN, NEW rev \in 1..MaxRevision,
           SelectRepositoryCandidate(d, desired, rev)
    PROVE  Consent!Step(c)
<1>1. CASE c # d
    BY <1>1, StaysPut, RevokeRootsType DEF SelectRepositoryCandidate, TypeOK
<1>2. CASE c = d
    <2>1. /\ revision'[c] = rev + 1
          /\ sel'[c] = [desired |-> desired, revision |-> rev + 1, lease |-> "free",
                        token |-> 0, completed |-> FALSE]
        BY <1>2 DEF SelectRepositoryCandidate, TypeOK
    <2>2. CASE desired
        <3>1. Phase(c)' = "asked" /\ root' = root
            BY <2>1, <2>2 DEF Phase, InForce, SelectRepositoryCandidate
        <3> QED
            BY <3>1 DEF Consent!Step, Consent!Ask, Consent!Moves
    <2>3. CASE ~desired
        <3>1. Phase(c)' = "stopping"
            BY <2>1, <2>3 DEF Phase, InForce
        <3>2. root'[c] \in Root /\ ~root'[c].approved
            BY <1>2, <2>3, RevokeRootsType DEF SelectRepositoryCandidate, TypeOK
        <3>3. root'[c].approved = FALSE
            BY <3>2 DEF Root
        <3> QED
            BY <3>1, <3>3, Move DEF Consent!Step, Consent!Stop
    <2> QED
        BY <2>2, <2>3
<1> QED
    BY <1>1, <1>2

LEMMA LinkConsent ==
    ASSUME TypeOK, NEW c \in Candidate, NEW d \in Candidate, CandidateOK(c),
           NEW p \in Project, NEW rev \in 1..MaxRevision,
           LinkCandidate(d, p, rev)
    PROVE  Consent!Step(c)
<1>1. CASE c # d
    BY <1>1, StaysPut, RevokeRootsType DEF LinkCandidate, TypeOK
<1>2. CASE c = d
    <2>1. revision'[c] = revision[c] + 1 /\ sel' = sel
        BY <1>2 DEF LinkCandidate, TypeOK
    <2>2. sel[c].revision \in Nat /\ revision[c] \in Nat /\ sel[c].revision <= revision[c]
        BY DEF TypeOK, Selection, CandidateOK, RevisionOrder
    <2>3. Phase(c)' = "off"
        BY <2>1, <2>2 DEF Phase, InForce
    <2>4. root'[c] \in Root /\ ~root'[c].approved
        BY <1>2, RevokeRootsType DEF LinkCandidate, TypeOK
    <2> QED
        BY <2>3, <2>4, Withdrawn DEF Root
<1> QED
    BY <1>1, <1>2

LEMMA RevokeConsent ==
    ASSUME TypeOK, NEW c \in Candidate, NEW d \in Candidate, RevokeTraceMiniRoot(d)
    PROVE  Consent!Step(c)
<1>1. Phase(c)' = Phase(c)
    BY DEF RevokeTraceMiniRoot, candidates, Phase, InForce
<1>2. root'[c] \in Root /\ (root'[c] = root[c] \/ ~root'[c].approved)
    BY RevokeRootsType DEF RevokeTraceMiniRoot, TypeOK
<1> QED
    BY <1>1, <1>2, Stays DEF Root

LEMMA ClaimConsent ==
    ASSUME TypeOK, NEW c \in Candidate, CandidateOK(c), ClaimDeviceWork
    PROVE  Consent!Step(c)
<1> DEFINE token == claims + 1
<1>1. /\ sel'[c] = IF c \in SelectionsDue THEN [sel[c] EXCEPT !.lease = "held", !.token = token]
                                         ELSE sel[c]
      /\ tracking'[c] = IF c \in Refused THEN "stopped" ELSE tracking[c]
      /\ revision'[c] = IF c \in Refused THEN revision[c] + 1 ELSE revision[c]
      /\ root'[c] = IF c \in Bound THEN [project |-> AuthorizedMatch(c), approved |-> TRUE]
                    ELSE RevokeRoots(Refused)[c]
    BY DEF ClaimDeviceWork
<1>2. sel[c] \in Selection /\ sel[c].revision \in Nat /\ revision[c] \in Nat
    BY DEF TypeOK, Selection
<1>3. CASE c \notin SelectionsDue
    <2>1. c \notin Refused /\ c \notin Bound
        BY <1>3 DEF Refused, Bound, Granted
    <2>2. RevokeRoots(Refused)[c] = root[c]
        BY <2>1, RevokeRootsType DEF TypeOK
    <2> QED
        BY <1>1, <1>3, <2>1, <2>2, StaysPut
<1>4. CASE c \in Refused
    <2>1. c \in SelectionsDue /\ c \notin Bound /\ InForce(c)
        BY <1>4 DEF Refused, Bound, Granted, SelectionsDue, InForce
    <2>2. sel'[c].revision = sel[c].revision
        BY <1>1, <1>2, <2>1 DEF Selection
    <2>3. Phase(c)' = "off"
        BY <1>1, <1>2, <1>4, <2>1, <2>2 DEF Phase, InForce
    <2>4. root'[c] \in Root /\ ~root'[c].approved
        BY <1>1, <1>4, <2>1, RevokeRootsType DEF TypeOK
    <2> QED
        BY <2>3, <2>4, Withdrawn DEF Root
<1>5. CASE c \in Granted
    <2>1. /\ c \in SelectionsDue /\ c \notin Refused /\ InForce(c) /\ ~sel[c].completed
        BY <1>5 DEF Granted, SelectionsDue, InForce
    <2>2. /\ sel'[c].revision = sel[c].revision /\ sel'[c].desired = sel[c].desired
          /\ sel'[c].lease = "held" /\ sel'[c].completed = sel[c].completed
        BY <1>1, <1>2, <2>1 DEF Selection
    <2>3. CASE sel[c].desired
        <3>1. c \in Bound
            BY <1>5, <2>3 DEF Bound
        <3>2. root'[c].approved = TRUE
            BY <1>1, <3>1
        <3>3. Phase(c)' = "offered" /\ Phase(c) \in {"asked", "offered"}
            BY <1>1, <2>1, <2>2, <2>3 DEF Phase, InForce
        <3> QED
            BY <3>2, <3>3, Move DEF Consent!Step, Consent!Offer
    <2>4. CASE ~sel[c].desired
        <3>1. root'[c] = root[c]
            BY <1>1, <2>1, <2>4, RevokeRootsType DEF Bound, TypeOK
        <3>2. Phase(c)' = Phase(c)
            BY <1>1, <2>1, <2>2, <2>4 DEF Phase, InForce
        <3> QED
            BY <3>1, <3>2, Stays
    <2> QED
        BY <2>3, <2>4
<1> QED
    BY <1>3, <1>4, <1>5 DEF Granted

LEMMA PublishConsent ==
    ASSUME TypeOK, NEW c \in Candidate, CandidateOK(c), NEW w \in issued,
           NEW repositories \in SUBSET Candidate, PublishRepositoryCandidates(w, repositories)
    PROVE  Consent!Step(c)
<1> DEFINE moved == {d \in repositories : MatchMoved(d)}
<1>1. /\ sel' = sel
      /\ revision'[c] = IF c \in moved THEN revision[c] + 1 ELSE revision[c]
      /\ tracking'[c] = IF c \in moved THEN "unselected" ELSE tracking[c]
      /\ root' = RevokeRoots(moved)
    BY DEF PublishRepositoryCandidates
<1>2. sel[c].revision \in Nat /\ revision[c] \in Nat /\ sel[c].revision <= revision[c]
    BY DEF TypeOK, Selection, CandidateOK, RevisionOrder
<1>3. CASE c \in moved
    <2>1. Phase(c)' = "off"
        BY <1>1, <1>2, <1>3 DEF Phase, InForce
    <2>2. root'[c] \in Root /\ ~root'[c].approved
        BY <1>1, <1>3, RevokeRootsType DEF TypeOK
    <2> QED
        BY <2>1, <2>2, Withdrawn DEF Root
<1>4. CASE c \notin moved
    <2>1. root'[c] = root[c]
        BY <1>1, <1>4, RevokeRootsType DEF TypeOK
    <2> QED
        BY <1>1, <1>4, <2>1, StaysPut
<1> QED
    BY <1>3, <1>4

LEMMA CompleteConsent ==
    ASSUME TypeOK, TokensArePositive, NEW c \in Candidate, CandidateOK(c), NEW w \in issued,
           NEW isTracked \in BOOLEAN, NEW error \in BOOLEAN,
           CompleteSelection(w, isTracked, error)
    PROVE  Consent!Step(c)
<1>1. CASE c # w.id
    BY <1>1, StaysPut, RevokeRootsType DEF CompleteSelection, TypeOK
<1>2. CASE c = w.id
    <2>1. InForce(c) /\ ~sel[c].completed /\ sel[c].token = w.token
        BY <1>2 DEF CompleteSelection, CurrentLease, InForce
    <2>2. sel[c].lease # "free"
        BY <2>1 DEF CandidateOK, FreeHasNoToken, TokensArePositive, TypeOK, Work
    <2>3. /\ sel'[c].completed /\ sel'[c].revision = sel[c].revision
          /\ sel'[c].desired = sel[c].desired
        <3>1. sel[c] \in Selection
            BY DEF TypeOK
        <3>2. sel'[c] = [sel[c] EXCEPT !.completed = TRUE]
            BY <1>2 DEF CompleteSelection, TypeOK
        <3> QED
            BY <3>1, <3>2 DEF Selection
    <2>4. revision' = revision /\ tracking'[c] = IF isTracked THEN "tracking" ELSE "stopped"
        BY <1>2 DEF CompleteSelection, TypeOK
    <2>5. CASE isTracked
        <3>1. sel[c].desired /\ root' = root
            BY <1>2, <2>5 DEF CompleteSelection
        <3>2. Phase(c) = "offered" /\ Phase(c)' = "traced"
            BY <2>1, <2>2, <2>3, <2>4, <2>5, <3>1 DEF Phase, InForce
        <3> QED
            BY <3>1, <3>2 DEF Consent!Step, Consent!Trace, Consent!Moves
    <2>6. CASE ~isTracked
        <3>1. root'[c] \in Root /\ ~root'[c].approved
            BY <1>2, <2>6, RevokeRootsType DEF CompleteSelection, TypeOK
        <3>2. root'[c].approved = FALSE
            BY <3>1 DEF Root
        <3>3. CASE sel[c].desired
            <4>1. Phase(c) = "offered" /\ Phase(c)' = "failed"
                BY <2>1, <2>2, <2>3, <2>4, <2>6, <3>3 DEF Phase, InForce
            <4> QED
                BY <3>2, <4>1, Move DEF Consent!Step, Consent!Fail
        <3>4. CASE ~sel[c].desired
            <4>1. Phase(c) = "stopping" /\ Phase(c)' = "off"
                BY <2>1, <2>3, <2>4, <3>4 DEF Phase, InForce
            <4> QED
                BY <3>2, <4>1, Withdrawn
        <3> QED
            BY <3>3, <3>4
    <2> QED
        BY <2>5, <2>6
<1> QED
    BY <1>1, <1>2

LEMMA ExpiryConsent ==
    ASSUME TypeOK, NEW c \in Candidate, NEW d \in Candidate, SelectionLeaseExpires(d)
    PROVE  Consent!Step(c)
<1>1. CASE c # d
    BY <1>1, StaysPut DEF SelectionLeaseExpires, TypeOK, candidates
<1>2. CASE c = d
    <2>1. sel[c] \in Selection /\ sel[c].lease = "held"
          /\ sel'[c] = [sel[c] EXCEPT !.lease = "stale"]
        BY <1>2 DEF SelectionLeaseExpires, TypeOK
    <2>2. /\ sel'[c].completed = sel[c].completed /\ sel'[c].revision = sel[c].revision
          /\ sel'[c].desired = sel[c].desired /\ sel'[c].lease = "stale"
        BY <2>1 DEF Selection
    <2>3. UNCHANGED <<tracking, revision, root>>
        BY <1>2 DEF SelectionLeaseExpires, candidates
    <2>4. Phase(c)' = Phase(c)
        BY <2>1, <2>2, <2>3 DEF Phase, InForce
    <2> QED
        BY <2>3, <2>4, Stays
<1> QED
    BY <1>1, <1>2

\* Every step of Discovery is a step of each candidate's consent.
LEMMA CandidateConsent ==
    ASSUME IndInv, [Next]_vars, NEW c \in Candidate
    PROVE  Consent!Step(c)
<1> DEFINE Keeps == UNCHANGED <<tracking, revision, sel, root>>
<1>1. CASE Keeps
    BY <1>1, StaysPut
<1>2. ASSUME NEW p \in Project, GrantAccess(p) PROVE Keeps
    BY <1>2 DEF GrantAccess, candidates
<1>3. ASSUME NEW p \in Project, NEW k \in Key, AttachProjectGitRemote(p, k) PROVE Keeps
    BY <1>3 DEF AttachProjectGitRemote, candidates
<1>4. CASE \/ RevokeDevice \/ CreateRepositoryScan \/ ScanLeaseExpires \/ DeviceCrash
           \/ UNCHANGED vars
    BY <1>4, <1>1 DEF RevokeDevice, CreateRepositoryScan, ScanLeaseExpires, DeviceCrash, vars,
       candidates
<1>5. ASSUME NEW w \in issued, NEW error \in BOOLEAN, CompleteScan(w, error) PROVE Keeps
    BY <1>5 DEF CompleteScan, candidates
<1>6. ASSUME NEW i \in PushId, NEW d \in Candidate, CreatePendingPush(i, d) PROVE Keeps
    BY <1>6 DEF CreatePendingPush, candidates
<1>7. ASSUME NEW w \in issued, NEW outcome \in {"pending", "verified", "failed"},
             CompletePush(w, outcome)
      PROVE  Keeps
    BY <1>7 DEF CompletePush, candidates
<1>8. ASSUME NEW i \in PushId, PushCheckDue(i) PROVE Keeps
    BY <1>8 DEF PushCheckDue, candidates
<1>9. TypeOK /\ TokensArePositive /\ CandidateOK(c)
    BY DEF IndInv
<1> HIDE DEF Keeps
<1> QED
    BY <1>1, <1>2, <1>3, <1>4, <1>5, <1>6, <1>7, <1>8, <1>9, SelectConsent, LinkConsent,
       RevokeConsent, ClaimConsent, PublishConsent, CompleteConsent, ExpiryConsent
    DEF Next, Portal, Browser, Device, Answer, Time

\* The owner of a device gets what TracingConsent promises, for any number of
\* repositories and projects.
THEOREM Refinement == Spec => ImplementsConsent
<1>1. IndInv /\ IndInv' /\ [Next]_vars => Consent!Next
    <2> SUFFICES ASSUME IndInv, IndInv', [Next]_vars PROVE Consent!Next
        OBVIOUS
    <2>1. ASSUME NEW c \in Candidate
          PROVE  Phase(c)' \in Consent!Phases /\ root'[c].approved \in BOOLEAN
        BY DEF IndInv, TypeOK, Root, Phase, Consent!Phases
    <2> QED
        BY <2>1, CandidateConsent DEF Consent!Next
<1> QED
    BY InitConsent, Safety, <1>1, PTL DEF Spec, ImplementsConsent, Consent!Spec

\* What the abstract machine guarantees holds of the code: a device whose
\* activation failed, or whose owner asked it to stop, has no credentials.
THEOREM ConsentHolds == Spec => []Consent!ConsentGivesAccess
<1>1. Consent!Init => Consent!ConsentGivesAccess
    BY DEF Consent!Init, Consent!ConsentGivesAccess
<1>2. Consent!ConsentGivesAccess /\ Consent!Next => Consent!ConsentGivesAccess'
    <2> SUFFICES ASSUME Consent!ConsentGivesAccess, Consent!Next, NEW c \in Candidate,
                        root'[c].approved
                 PROVE  Phase(c)' \in {"asked", "offered", "traced"}
        BY DEF Consent!ConsentGivesAccess
    <2>1. Consent!Step(c)
        BY DEF Consent!Next
    <2> QED
        BY <2>1 DEF Consent!ConsentGivesAccess, Consent!Step, Consent!Ask, Consent!Offer,
           Consent!Trace, Consent!Fail, Consent!Stop, Consent!Stopped, Consent!Withdraw,
           Consent!Revoke, Consent!Stay, Consent!Moves
<1>3. Consent!ConsentGivesAccess /\ UNCHANGED <<[c \in Candidate |-> Phase(c)],
                                                [c \in Candidate |-> root[c].approved]>>
      => Consent!ConsentGivesAccess'
    BY DEF Consent!ConsentGivesAccess
<1> QED
    BY Refinement, <1>1, <1>2, <1>3, PTL DEF ImplementsConsent, Consent!Spec

-----------------------------------------------------------------------------
(* Telemetry: the invariant.  What the portal checked when a request began *)
(* holds until it commits, and what the device still has in hand of a stop *)
(* is accounted for until it is acknowledged.                              *)

Requests ==
    [op : {"register", "activity", "push", "confirm"}, cand : Candidate, key : Event \cup {None},
     project : Project, grant : Grant, work : Work, status : {"none", "pending", "verified"},
     heard : BOOLEAN]

WorkGrant(w) == [revision |-> w.revision, token |-> w.token]

\* No two polls hand out the same claim.
IssuedOK ==
    \A w \in issued : /\ w.token <= claims
                      /\ w.kind = "selection" => w.id \in Candidate
                      /\ w.kind = "push" => w.id \in PushId

\* A selection in hand is the one its repository's file was written for.
HandOK == hand \subseteq issued /\ \A w \in Selections(hand) : mapping[w.id].grant = WorkGrant(w)

\* The device is of one project; what it queues and traces is of that one.
OneProject ==
    /\ \A p, q \in access : p = q
    /\ \A c \in Candidate : /\ mapping[c].project \in access \cup {None}
                            /\ clones[c] \in access \cup {None}
    /\ \A e \in queue : e.project \in access

\* Where the loop stands with the selection it handles.
JobOK ==
    LET c == job.work.id IN
    /\ job.step \notin {"idle", "poll"} => job.work \in Selections(hand)
    /\ job.step \in {"register", "history"} => mapping[c].desired
    /\ job.step \in {"remove", "purge"} => ~mapping[c].desired
    /\ job.step = "purge" => clones[c] = None
    /\ job.step = "complete" /\ ~mapping[c].desired => clones[c] = None
    /\ job.step = "history" \/ (job.step = "complete" /\ mapping[c].desired) =>
          registered[c] = mapping[c].grant

\* What a request was authorized for is so until it commits.
TxOK ==
    tx # NoTx =>
        /\ tx \in Requests
        /\ tx.grant = CurrentGrant(tx.cand) /\ root[tx.cand].approved
        /\ tx.work.kind # "selection"
        /\ tx.op \in {"activity", "confirm"} => ~paused[tx.project]
        /\ tx.op = "register" =>
              /\ tx.key = None
              /\ IF tx.heard THEN /\ job.step = "register" /\ job.work.id = tx.cand
                                  /\ tx.grant = mapping[tx.cand].grant
                 ELSE job.step = "report" \/ Selections(hand) = {}
        /\ tx.op = "activity" => tx.key \in Commit \cup HookEvent
        /\ tx.op = "push" => tx.key \in PushId
        /\ tx.op = "confirm" =>
              /\ tx.work.id = tx.key /\ tx.key \in PushId
              /\ push[tx.key].status = "pending" /\ push[tx.key].candidate = tx.cand
              /\ tx.status # "none"

\* A push that was announced is of a clone.
PushesOK == \A i \in PushId : push[i].status # "none" => push[i].candidate \in Candidate

\* A stop in hand: nothing of its repository stays queued but what its removal
\* will purge, or what the last poll kept for another repository.
StopOK(w) ==
    LET c == w.id IN
    /\ ~root[c].approved
    /\ job.step # "poll" =>
          \A e \in queue : e.cand = c =>
              \/ clones[c] # None
              \/ job.step = "purge" /\ job.work = w
              \/ ListedFor(e.project, Candidate \ {c})
StopsOK == \A w \in Selections(hand) : ~mapping[w.id].desired => StopOK(w)

\* What was retired is queued no more, and no request carries it, unless the
\* portal knows it already.
Gone(e) ==
    /\ \A q \in queue : ~(q.cand = e.cand /\ q.key = e.key)
    /\ ~(tx.op \in {"activity", "push"} /\ tx.cand = e.cand /\ tx.key = e.key)
RetiredIsGone == \A e \in retired : e \notin delivered /\ ~Announced(e, push) => Gone(e)

TInv ==
    /\ IndInv /\ TelemetryAgrees
    /\ IssuedOK /\ HandOK /\ OneProject /\ JobOK /\ TxOK /\ PushesOK /\ StopsOK /\ RetiredIsGone

-----------------------------------------------------------------------------
(* Who writes what *)

\* A transaction that needs a row the request in progress locks waits for it.
LEMMA Locked == ASSUME NEW row \in Locks, Free(row) PROVE tx = NoTx
BY DEF Free

LEMMA Writers ==
    ASSUME TelemetryNext
    PROVE  /\ access' = access /\ siblings' = siblings
           /\ (issued' = issued /\ claims' = claims) \/ Poll \/ AgentCrash
           /\ mapping' = mapping \/ Poll
           /\ root' = root \/ Poll \/ Complete \/ Report
              \/ (\E c \in Candidate : RevokeRoot(c))
              \/ (\E c \in Candidate, desired \in BOOLEAN : SelectCandidate(c, desired))
           /\ push' = push \/ Poll \/ CommitTx \/ (\E i \in PushId : PushCheckDue(i))
           /\ (registered' = registered /\ delivered' = delivered) \/ CommitTx
           /\ clones' = clones \/ Reconcile \/ Install \/ RequestRefused \/ Remove \/ Complete
              \/ CompleteRefused \/ LoseAnswer
           /\ tx' = tx \/ CommitTx \/ LoseAnswer \/ AgentCrash \/ RegisterRequest
              \/ (\E k \in Commit : HistoryRequest(k))
              \/ (\E w \in hand, outcome \in {"pending", "verified"} : Confirm(w, outcome))
              \/ (\E e \in queue : Flush(e))
           /\ hand' = hand \/ Poll \/ PollNothing \/ Complete \/ CompleteRefused \/ Report
              \/ CommitTx \/ LoseAnswer \/ AgentCrash
           /\ queue' = queue \/ Reconcile \/ Purge \/ CommitTx
              \/ (\E c \in Candidate, k \in HookEvent \cup PushId : Hook(c, k))
           /\ job' = job \/ Poll \/ PollNothing \/ Reconcile \/ Install \/ RequestRefused \/ Remove
              \/ Purge \/ Complete \/ CompleteRefused \/ Report \/ CommitTx \/ LoseAnswer \/ AgentCrash
              \/ (\E w \in hand : Start(w))
           /\ (tracking' = tracking /\ revision' = revision /\ sel' = sel) \/ Poll \/ Complete \/ Report
              \/ (\E c \in Candidate, desired \in BOOLEAN : SelectCandidate(c, desired))
              \/ (\E c \in Candidate : LeaseElapses(c))
           /\ paused' = paused \/ (\E s \in saves : SaveTraceMiniConfig(s))
              \/ (\E p \in access : WipeTraceMiniTelemetry(p))
           /\ (saves' = saves /\ epoch' = epoch)
              \/ (\E p \in Project, sets \in {"enable", "disable", "retention"} : ReadForSave(p, sets))
              \/ (\E s \in saves : SaveTraceMiniConfig(s))
              \/ (\E p \in access : WipeTraceMiniTelemetry(p))
           /\ retired' = retired \/ Complete
           /\ recorded' = recorded \/ (\E c \in Candidate, k \in HookEvent \cup PushId : Hook(c, k))
<1> USE DEF TelemetryNext, Owner, Agent, Loop, Activation, Environment, vars, authority, candidates,
        clock, controls, records, agent, ghosts, telemetry, ReadForSave, SaveTraceMiniConfig,
        WipeTraceMiniTelemetry, PollNothing, Reconcile, Start, Install, Remove, Purge, CompleteRefused,
        RequestRefused, GiveUp, Handled, Hook, LoseAnswer, LeaseElapses, PushCheckDue, Begin,
        RegisterRequest, HistoryRequest, Confirm, Flush
<1>1. access' = access /\ siblings' = siblings
    BY DEF Poll, Complete, Report, RevokeRoot, SelectCandidate, CommitTx, AgentCrash,
       ClaimDeviceWork, CompleteSelection, RevokeTraceMiniRoot, SelectRepositoryCandidate,
       DeviceCrash, Register, Activity, AnnouncePush, ConfirmPush
<1>2. (issued' = issued /\ claims' = claims) \/ Poll \/ AgentCrash
    BY DEF Complete, Report, RevokeRoot, SelectCandidate, CommitTx, CompleteSelection,
       RevokeTraceMiniRoot, SelectRepositoryCandidate, Register, Activity, AnnouncePush, ConfirmPush
<1>3. mapping' = mapping \/ Poll
    BY DEF Complete, Report, RevokeRoot, SelectCandidate, CommitTx, AgentCrash, Heard
<1>4. \/ root' = root \/ Poll \/ Complete \/ Report
      \/ \E c \in Candidate : RevokeRoot(c)
      \/ \E c \in Candidate, desired \in BOOLEAN : SelectCandidate(c, desired)
    BY DEF CommitTx, AgentCrash, DeviceCrash, Register, Activity, AnnouncePush, ConfirmPush
<1>5. push' = push \/ Poll \/ CommitTx \/ \E i \in PushId : PushCheckDue(i)
    BY DEF Complete, Report, RevokeRoot, SelectCandidate, AgentCrash, CompleteSelection,
       RevokeTraceMiniRoot, SelectRepositoryCandidate, DeviceCrash
<1>6. (registered' = registered /\ delivered' = delivered) \/ CommitTx
    BY DEF Complete, Report, RevokeRoot, SelectCandidate, AgentCrash, Poll
<1>7. \/ clones' = clones \/ Reconcile \/ Install \/ RequestRefused \/ Remove \/ Complete
      \/ CompleteRefused \/ LoseAnswer
    BY DEF Report, RevokeRoot, SelectCandidate, AgentCrash, CommitTx, Heard, Poll
<1>8. \/ tx' = tx \/ CommitTx \/ LoseAnswer \/ AgentCrash \/ RegisterRequest
      \/ \E k \in Commit : HistoryRequest(k)
      \/ \E w \in hand, outcome \in {"pending", "verified"} : Confirm(w, outcome)
      \/ \E e \in queue : Flush(e)
    BY DEF Report, RevokeRoot, SelectCandidate, Poll, Complete
<1>9. \/ hand' = hand \/ Poll \/ PollNothing \/ Complete \/ CompleteRefused \/ Report
      \/ CommitTx \/ LoseAnswer \/ AgentCrash
    BY DEF RevokeRoot, SelectCandidate
<1>10. \/ queue' = queue \/ Reconcile \/ Purge \/ CommitTx
       \/ \E c \in Candidate, k \in HookEvent \cup PushId : Hook(c, k)
    BY DEF RevokeRoot, SelectCandidate, Poll, Complete, Report, AgentCrash, Kept
<1>11. \/ job' = job \/ Poll \/ PollNothing \/ Reconcile \/ Install \/ RequestRefused \/ Remove
       \/ Purge \/ Complete \/ CompleteRefused \/ Report \/ CommitTx \/ LoseAnswer \/ AgentCrash
       \/ \E w \in hand : Start(w)
    BY DEF RevokeRoot, SelectCandidate
<1>12. \/ tracking' = tracking /\ revision' = revision /\ sel' = sel
       \/ Poll \/ Complete \/ Report
       \/ \E c \in Candidate, desired \in BOOLEAN : SelectCandidate(c, desired)
       \/ \E c \in Candidate : LeaseElapses(c)
    BY DEF RevokeRoot, RevokeTraceMiniRoot, CommitTx, AgentCrash, DeviceCrash, Register, Activity,
       AnnouncePush, ConfirmPush
<1>13. \/ paused' = paused \/ \E s \in saves : SaveTraceMiniConfig(s)
       \/ \E p \in access : WipeTraceMiniTelemetry(p)
    BY DEF RevokeRoot, SelectCandidate, Poll, Complete, Report, CommitTx, AgentCrash
<1>14. retired' = retired \/ Complete
    BY DEF RevokeRoot, SelectCandidate, Poll, Report, CommitTx, AgentCrash
<1>15. \/ saves' = saves /\ epoch' = epoch
       \/ \E p \in Project, sets \in {"enable", "disable", "retention"} : ReadForSave(p, sets)
       \/ \E s \in saves : SaveTraceMiniConfig(s)
       \/ \E p \in access : WipeTraceMiniTelemetry(p)
    BY DEF RevokeRoot, SelectCandidate, Poll, Complete, Report, CommitTx, AgentCrash
<1>16. recorded' = recorded \/ \E c \in Candidate, k \in HookEvent \cup PushId : Hook(c, k)
    BY DEF RevokeRoot, SelectCandidate, Poll, Complete, Report, CommitTx, AgentCrash
<1> HIDE DEF TelemetryNext, Owner, Agent, Loop, Activation, Environment, vars, authority, candidates,
        clock, controls, records, agent, ghosts, telemetry, ReadForSave, SaveTraceMiniConfig,
        WipeTraceMiniTelemetry, PollNothing, Reconcile, Start, Install, Remove, Purge, CompleteRefused,
        RequestRefused, GiveUp, Handled, Hook, LoseAnswer, LeaseElapses, PushCheckDue, Begin,
        RegisterRequest, HistoryRequest, Confirm, Flush
<1> QED
    BY <1>1, <1>2, <1>3, <1>4, <1>5, <1>6, <1>7, <1>8, <1>9, <1>10, <1>11, <1>12, <1>13, <1>14,
       <1>15, <1>16

-----------------------------------------------------------------------------
(* The work in hand *)

\* What a poll hands out is new, and for rows that exist.
LEMMA PollIssues ==
    ASSUME TypeOK, Poll
    PROVE  /\ claims' = claims + 1 /\ claims \in Nat
           /\ issued' \subseteq issued \cup {ScanWork(claims + 1)}
                                \cup {SelectionWork(c, claims + 1) : c \in Granted}
                                \cup {PushWork(i, claims + 1) : i \in PushesDue}
           /\ hand' = {w \in issued' : w.token = claims + 1}
BY DEF Poll, ClaimDeviceWork, TypeOK

LEMMA IssuedStep == ASSUME TInv, TelemetryNext PROVE IssuedOK'
<1>1. CASE issued' = issued /\ claims' = claims
    BY <1>1 DEF TInv, IssuedOK
<1>2. CASE AgentCrash
    BY <1>2 DEF AgentCrash, DeviceCrash, IssuedOK
<1>3. CASE Poll
    <2>1. TypeOK /\ issued \subseteq Work
        BY DEF TInv, IndInv, TypeOK
    <2>2. SUFFICES ASSUME NEW w \in issued'
                   PROVE  /\ w.token <= claims'
                          /\ w.kind = "selection" => w.id \in Candidate
                          /\ w.kind = "push" => w.id \in PushId
        BY DEF IssuedOK
    <2>3. CASE w \in issued
        <3>1. w.token \in Nat
            BY <2>1, <2>3 DEF Work
        <3> QED
            BY <1>3, <2>1, <2>3, <3>1, PollIssues DEF TInv, IssuedOK
    <2>4. CASE w = ScanWork(claims + 1)
        BY <1>3, <2>1, <2>4, PollIssues DEF ScanWork
    <2>5. CASE w \in {SelectionWork(c, claims + 1) : c \in Granted}
        BY <1>3, <2>1, <2>5, PollIssues DEF SelectionWork, Granted, SelectionsDue, TypeOK
    <2>6. CASE w \in {PushWork(i, claims + 1) : i \in PushesDue}
        BY <1>3, <2>1, <2>6, PollIssues DEF PushWork, PushesDue
    <2> QED
        BY <1>3, <2>1, <2>3, <2>4, <2>5, <2>6, PollIssues
<1> QED
    BY <1>1, <1>2, <1>3, Writers

\* The selections a poll hands out: granted, and written to their files.
LEMMA PollHand ==
    ASSUME TInv, Poll, NEW w \in Selections(hand')
    PROVE  /\ w.id \in Granted /\ w = SelectionWork(w.id, claims + 1)
           /\ mapping'[w.id].grant = WorkGrant(w)
           /\ mapping'[w.id].desired = sel[w.id].desired
<1>1. TypeOK /\ w \in issued' /\ w.token = claims + 1 /\ w.kind = "selection"
    BY PollIssues DEF TInv, IndInv, Selections
<1>2. w \notin issued
    BY <1>1, PollIssues DEF TInv, IssuedOK
<1>3. PICK c \in Granted : w = SelectionWork(c, claims + 1)
    BY <1>1, <1>2, PollIssues DEF ScanWork, PushWork
<1>4. c \in Candidate /\ w.id = c /\ w.revision = sel[c].revision
    BY <1>1, <1>3 DEF SelectionWork, Granted, SelectionsDue, TypeOK
<1>5. mapping'[c] = [grant |-> [revision |-> sel[c].revision, token |-> claims'],
                     desired |-> sel[c].desired,
                     project |-> IF sel[c].desired \/ mapping[c].project = None
                                 THEN matched'[c] ELSE mapping[c].project]
    BY <1>4 DEF Poll
<1> QED
    BY <1>1, <1>3, <1>4, <1>5, PollIssues DEF WorkGrant

LEMMA HandStep == ASSUME TInv, TelemetryNext PROVE HandOK'
<1>1. CASE Poll
    BY <1>1, PollHand DEF Poll, HandOK
<1>2. CASE PollNothing \/ AgentCrash
    BY <1>2 DEF PollNothing, AgentCrash, HandOK, Selections
<1>3. CASE ~Poll /\ ~AgentCrash /\ hand' \subseteq hand
    BY <1>3, Writers DEF TInv, HandOK, Selections
<1>4. CASE Complete \/ CompleteRefused \/ Report \/ CommitTx \/ LoseAnswer
    <2>1. hand' \subseteq hand
        BY <1>4 DEF Complete, CompleteRefused, Report, CommitTx, LoseAnswer, GiveUp, Handled, Heard,
           agent
    <2> QED
        BY <1>1, <1>2, <1>3, <2>1
<1> QED
    BY <1>1, <1>2, <1>3, <1>4, Writers

\* A selection in hand is known by its repository.
LEMMA OneInHand ==
    ASSUME TInv, NEW v \in Selections(hand), NEW w \in Selections(hand), v.id = w.id
    PROVE  v = w
<1>1. v \in Work /\ w \in Work /\ v.kind = w.kind
    BY DEF TInv, IndInv, TypeOK, HandOK, Selections
<1>2. WorkGrant(v) = WorkGrant(w)
    BY DEF TInv, HandOK
<1>3. v.revision = w.revision /\ v.token = w.token
    BY <1>2 DEF WorkGrant
<1> QED
    BY <1>1, <1>3 DEF Work

\* The selection the loop handles.
LEMMA AtWork ==
    ASSUME TInv, job.step \notin {"idle", "poll"}
    PROVE  /\ job.work \in Selections(hand) /\ job.work \in issued /\ job.work.kind = "selection"
           /\ job.work.id \in Candidate /\ mapping[job.work.id].grant = WorkGrant(job.work)
           /\ mapping[job.work.id].desired \in BOOLEAN
<1>1. job.work \in Selections(hand)
    BY DEF TInv, JobOK
<1>2. job.work \in issued /\ job.work.kind = "selection" /\ job.work.id \in Candidate
    BY <1>1 DEF TInv, HandOK, IssuedOK, Selections
<1> QED
    BY <1>1, <1>2 DEF TInv, HandOK, TelemetryAgrees, TelemetryTypeOK, Mapping

-----------------------------------------------------------------------------
(* The project, the pushes and the registrations *)

LEMMA OneProjectStep == ASSUME TInv, TelemetryNext PROVE OneProject'
<1>1. TypeOK /\ access' = access /\ access \subseteq Project
    BY Writers DEF TInv, IndInv, TypeOK
<1>2. \A c \in Candidate : mapping'[c].project \in access \cup {None}
    <2>1. CASE mapping' = mapping
        BY <2>1 DEF TInv, OneProject
    <2>2. CASE Poll
        <3>1. \A c \in Candidate : matched'[c] \in {matched[c], AuthorizedMatch(c)}
            BY <2>2 DEF Poll, ClaimDeviceWork
        <3>2. SUFFICES ASSUME NEW c \in Candidate PROVE mapping'[c].project \in access \cup {None}
            OBVIOUS
        <3>3. CASE \E w \in Selections(hand') : w.id = c
            <4>1. c \in SelectionsDue
                BY <2>2, <3>3, PollHand DEF Granted
            <4>2. matched'[c] = AuthorizedMatch(c)
                BY <2>2, <4>1 DEF Poll, ClaimDeviceWork
            <4>3. mapping'[c].project \in {matched'[c], mapping[c].project}
                BY <2>2, <3>3 DEF Poll
            <4> QED
                BY <1>1, <4>2, <4>3, MatchType DEF TInv, OneProject
        <3>4. CASE ~\E w \in Selections(hand') : w.id = c
            BY <2>2, <3>4 DEF Poll, TInv, OneProject
        <3> QED
            BY <3>3, <3>4
    <2> QED
        BY <2>1, <2>2, Writers
<1>3. \A c \in Candidate : clones'[c] \in access \cup {None}
    <2>0. clones \in [Candidate -> Project \cup {None}]
        BY DEF TInv, TelemetryAgrees, TelemetryTypeOK
    <2>1. CASE clones' = clones
        BY <2>1 DEF TInv, OneProject
    <2>2. CASE Install
        BY <2>0, <2>2, AtWork DEF Install, At, TInv, OneProject
    <2>3. CASE Reconcile
        BY <2>3 DEF Reconcile, TInv, OneProject
    <2>4. CASE Remove \/ RequestRefused \/ Complete \/ CompleteRefused \/ LoseAnswer
        BY <2>0, <2>4 DEF Remove, RequestRefused, Complete, CompleteRefused, LoseAnswer, GiveUp, Handled,
           TInv, OneProject
    <2> QED
        BY <2>1, <2>2, <2>3, <2>4, Writers
<1>4. \A e \in queue' : e.project \in access
    <2>1. CASE queue' \subseteq queue
        BY <2>1 DEF TInv, OneProject
    <2>2. CASE Reconcile \/ Purge \/ CommitTx
        BY <2>1, <2>2 DEF Reconcile, Purge, CommitTx, Heard, agent
    <2>3. ASSUME NEW c \in Candidate, NEW k \in HookEvent \cup PushId, Hook(c, k)
          PROVE  \A e \in queue' : e.project \in access
        BY <2>3 DEF Hook, TInv, OneProject
    <2> QED
        BY <2>1, <2>2, <2>3, Writers
<1> QED
    BY <1>1, <1>2, <1>3, <1>4 DEF OneProject, TInv

\* What a request carries, by its operation.
LEMMA InTx ==
    ASSUME TInv, tx # NoTx
    PROVE  /\ tx.op \in {"register", "activity", "push", "confirm"} /\ tx.cand \in Candidate
           /\ tx.key \in Event \cup {None} /\ tx.project \in Project /\ tx.grant \in Grant
           /\ tx.work \in Work /\ tx.work.kind # "selection"
           /\ tx.heard \in BOOLEAN /\ tx.status \in {"none", "pending", "verified"}
           /\ tx.grant = CurrentGrant(tx.cand) /\ root[tx.cand].approved
BY DEF TInv, TxOK, Requests

\* A push row changes by its poll, its announcement, its confirmation or its clock.
LEMMA PushWriters ==
    ASSUME TInv, TelemetryNext, NEW i \in PushId
    PROVE  \/ push'[i].status = push[i].status /\ push'[i].candidate = push[i].candidate
           \/ /\ AnnouncePush /\ CommitTx /\ tx.key = i /\ push[i].status = "none"
              /\ push'[i].status = "pending" /\ push'[i].candidate = tx.cand
           \/ /\ ConfirmPush /\ CommitTx /\ tx.key = i /\ push[i].status = "pending"
              /\ push'[i].status = tx.status /\ push'[i].candidate = push[i].candidate
<1>1. push \in [PushId -> Push]
    BY DEF TInv, IndInv, TypeOK
<1>2. CASE push' = push
    BY <1>2
<1>3. CASE Poll
    <2>1. push'[i] \in {push[i], [push[i] EXCEPT !.due = FALSE, !.token = claims + 1]}
        BY <1>3 DEF Poll, ClaimDeviceWork
    <2> QED
        BY <1>1, <2>1 DEF Push
<1>4. ASSUME NEW j \in PushId, PushCheckDue(j) PROVE push'[i].status = push[i].status
                                                  /\ push'[i].candidate = push[i].candidate
    BY <1>1, <1>4 DEF PushCheckDue, Push
<1>5. CASE CommitTx
    <2>1. tx # NoTx /\ (Register \/ Activity \/ AnnouncePush \/ ConfirmPush)
        BY <1>5 DEF CommitTx
    <2>2. CASE Register \/ Activity
        BY <2>2 DEF Register, Activity, vars
    <2>3. CASE AnnouncePush
        <3>1. tx.key \in PushId
            BY <2>1, <2>3 DEF TInv, TxOK, AnnouncePush
        <3> QED
            BY <1>1, <1>5, <2>3, <3>1 DEF AnnouncePush
    <2>4. CASE ConfirmPush
        <3>1. tx.key \in PushId /\ tx.work.id = tx.key /\ push[tx.key].status = "pending"
            BY <2>1, <2>4 DEF TInv, TxOK, ConfirmPush
        <3>2. push' = [push EXCEPT ![tx.key].status = tx.status]
            BY <2>4, <3>1 DEF ConfirmPush
        <3> QED
            BY <1>1, <1>5, <2>4, <3>1, <3>2 DEF Push
    <2> QED
        BY <2>1, <2>2, <2>3, <2>4
<1> QED
    BY <1>2, <1>3, <1>4, <1>5, Writers

\* What the portal announced stays announced.
LEMMA AnnouncedStays ==
    ASSUME TInv, TelemetryNext, NEW e, Announced(e, push)
    PROVE  Announced(e, push')
<1>1. e.key \in PushId /\ push[e.key].status # "none" /\ push[e.key].candidate = e.cand
    BY DEF Announced
<1>2. ConfirmPush /\ CommitTx => tx.status # "none"
    BY DEF ConfirmPush, CommitTx, TInv, TxOK
<1> QED
    BY <1>1, <1>2, PushWriters DEF Announced

LEMMA PushesStep == ASSUME TInv, TelemetryNext PROVE PushesOK'
<1>1. SUFFICES ASSUME NEW i \in PushId, push'[i].status # "none" PROVE push'[i].candidate \in Candidate
    BY DEF PushesOK
<1>2. CASE CommitTx
    <2>1. tx # NoTx
        BY <1>2 DEF CommitTx
    <2> QED
        BY <1>1, <2>1, PushWriters, InTx DEF TInv, PushesOK
<1> QED
    BY <1>1, <1>2, PushWriters DEF TInv, PushesOK

\* What is stored, and by which requests.
LEMMA Deliveries ==
    ASSUME TelemetryNext
    PROVE  \/ delivered' = delivered
           \/ /\ CommitTx /\ tx # NoTx
              /\ Activity \/ (ConfirmPush /\ tx.status = "verified")
              /\ delivered' = delivered \cup {[cand |-> tx.cand, key |-> tx.key]}
BY Writers DEF CommitTx, Register, Activity, AnnouncePush, ConfirmPush, Stored, records

LEMMA PushEventStep == ASSUME TInv, TelemetryNext PROVE PushEventIsVerified'
<1>1. SUFFICES ASSUME NEW e \in delivered', e.key \in PushId PROVE push'[e.key].status = "verified"
    BY DEF PushEventIsVerified
<1>2. CASE e \in delivered
    <2>1. push[e.key].status = "verified"
        BY <1>1, <1>2 DEF TInv, TelemetryAgrees, PushEventIsVerified
    <2> QED
        BY <1>1, <2>1, PushWriters
<1>3. CASE e \notin delivered
    <2>1. /\ CommitTx /\ tx # NoTx /\ e.key = tx.key
          /\ Activity \/ (ConfirmPush /\ tx.status = "verified")
        BY <1>3, Deliveries
    <2>2. tx.op # "activity"
        BY <1>1, <2>1, TelemetryAssumption DEF TInv, TxOK
    <2>3. ConfirmPush /\ tx.status = "verified" /\ tx.op = "confirm"
        BY <2>1, <2>2 DEF Activity, ConfirmPush
    <2>4. tx.work.id = tx.key /\ push \in [PushId -> Push]
        BY <2>1, <2>3 DEF TInv, TxOK, IndInv, TypeOK
    <2>5. push' = [push EXCEPT ![tx.key].status = "verified"]
        BY <2>3, <2>4 DEF ConfirmPush
    <2> QED
        BY <1>1, <2>1, <2>4, <2>5 DEF Push
<1> QED
    BY <1>2, <1>3

\* Registrations change by committed register requests only.
LEMMA Registrations ==
    ASSUME TInv, TelemetryNext, NEW c \in Candidate
    PROVE  \/ registered'[c] = registered[c]
           \/ /\ CommitTx /\ tx # NoTx /\ Register /\ tx.op = "register" /\ c = tx.cand
              /\ registered'[c] = tx.grant
<1>1. registered \in [Candidate -> Grant]
    BY DEF TInv, TelemetryAgrees, TelemetryTypeOK
<1> QED
    BY <1>1, Writers DEF CommitTx, Register, Activity, AnnouncePush, ConfirmPush, records

\* An answer settles the selection it names.
LEMMA AnswerRows ==
    ASSUME TInv, TelemetryNext, Complete \/ Report, sel' # sel \/ tracking' # tracking \/ root' # root,
           NEW c \in Candidate
    PROVE  LET w == job.work IN
           /\ w.id \in Candidate /\ CurrentLease(w) /\ w.token > 0
           /\ revision' = revision
           /\ sel'[c].token = sel[c].token /\ sel'[c].revision = sel[c].revision
           /\ root'[c].project = root[c].project /\ (root'[c].approved => root[c].approved)
           /\ tracking'[c] = IF c # w.id THEN tracking[c]
                             ELSE IF Complete /\ mapping[c].desired THEN "tracking" ELSE "stopped"
<1> DEFINE w == job.work
<1>1. TypeOK /\ TokensArePositive
    BY DEF TInv, IndInv
<1>2. job.step \in {"complete", "report"} /\ (Report => job.step = "report")
      /\ (Complete => job.step = "complete")
    BY DEF Complete, Report, At
<1>3. w \in issued /\ w.id \in Candidate
    BY <1>2, AtWork
<1>4. PICK isTracked \in BOOLEAN, error \in BOOLEAN :
         /\ CompleteSelection(w, isTracked, error)
         /\ isTracked <=> Complete /\ mapping[w.id].desired
    <2>1. CASE Complete
        BY <1>2, <2>1, AtWork DEF Complete
    <2>2. CASE Report
        BY <1>2, <2>2 DEF Report, vars, candidates
    <2> QED
        BY <2>1, <2>2
<1>5. sel \in [Candidate -> Selection] /\ tracking \in [Candidate -> {"unselected", "pending", "tracking", "stopped"}]
    BY <1>1 DEF TypeOK
<1>6. /\ revision' = revision
      /\ tracking' = [tracking EXCEPT ![w.id] = IF isTracked THEN "tracking" ELSE "stopped"]
      /\ sel' = [sel EXCEPT ![w.id].completed = TRUE]
      /\ root' = IF isTracked THEN root ELSE RevokeRoots({w.id})
    BY <1>4 DEF CompleteSelection
<1>7. sel'[c].token = sel[c].token /\ sel'[c].revision = sel[c].revision
    BY <1>5, <1>6 DEF Selection
<1>8. root'[c].project = root[c].project /\ (root'[c].approved => root[c].approved)
    BY <1>1, <1>6, RevokeRootsType DEF TypeOK
<1>9. w.token > 0 /\ CurrentLease(w)
    BY <1>1, <1>3, <1>4 DEF TokensArePositive, CompleteSelection
<1> QED
    BY <1>3, <1>4, <1>5, <1>6, <1>7, <1>8, <1>9

LEMMA TrackingStep == ASSUME TInv, TelemetryNext PROVE TrackingIsRegistered'
<1>1. SUFFICES ASSUME NEW c \in Candidate, tracking'[c] = "tracking"
               PROVE  registered'[c] = CurrentGrant(c)'
    BY DEF TrackingIsRegistered
<1>2. TypeOK /\ CandidateOK(c)
    BY DEF TInv, IndInv
<1>3. tracking[c] = "tracking" => registered[c] = CurrentGrant(c)
    BY DEF TInv, TelemetryAgrees, TrackingIsRegistered
<1>4. CASE CommitTx
    <2>1. tracking' = tracking /\ revision' = revision /\ sel' = sel /\ tx # NoTx
        BY <1>4 DEF CommitTx, Register, Activity, AnnouncePush, ConfirmPush, vars, candidates
    <2> QED
        BY <1>1, <1>3, <2>1, Registrations, InTx DEF CurrentGrant
<1>5. CASE ~CommitTx /\ tracking'[c] = tracking[c] /\ revision'[c] = revision[c]
                     /\ sel'[c].token = sel[c].token
    BY <1>1, <1>3, <1>5, Writers DEF CurrentGrant
<1>6. CASE \E d \in Candidate, desired \in BOOLEAN : SelectCandidate(d, desired)
    <2>1. PICK d \in Candidate, desired \in BOOLEAN : SelectCandidate(d, desired)
        BY <1>6
    <2>2. c # d
        BY <1>1, <1>2, <2>1 DEF SelectCandidate, SelectRepositoryCandidate, TypeOK
    <2> QED
        BY <1>2, <1>3, <1>1, <2>1, <2>2 DEF SelectCandidate, SelectRepositoryCandidate, telemetry, records,
           CurrentGrant, TypeOK
<1>7. CASE \E d \in Candidate : LeaseElapses(d)
    <2>1. PICK d \in Candidate : LeaseElapses(d)
        BY <1>7
    <2>2. sel'[c].token = sel[c].token
        <3>1. sel \in [Candidate -> Selection]
            BY <1>2 DEF TypeOK
        <3>2. sel' = [sel EXCEPT ![d].lease = "stale"]
            BY <2>1 DEF LeaseElapses
        <3> QED
            BY <3>1, <3>2 DEF Selection
    <2> QED
        BY <1>1, <1>3, <2>1, <2>2 DEF LeaseElapses, telemetry, records, candidates, CurrentGrant
<1>8. CASE Poll
    <2>1. tracking'[c] = IF c \in Refused THEN "stopped" ELSE tracking[c]
        BY <1>8 DEF Poll, ClaimDeviceWork
    <2>2. tracking[c] = "tracking" /\ c \notin Refused
        BY <1>1, <2>1
    <2>3. c \notin SelectionsDue
        BY <1>2, <2>2 DEF CandidateOK, Acknowledged, SelectionsDue
    <2>4. sel'[c] = sel[c] /\ revision'[c] = revision[c]
        BY <1>8, <2>2, <2>3 DEF Poll, ClaimDeviceWork
    <2>5. registered' = registered
        BY <1>8 DEF Poll, records
    <2> QED
        BY <1>3, <2>2, <2>4, <2>5 DEF CurrentGrant
<1>9. CASE (Complete \/ Report) /\ (sel' # sel \/ tracking' # tracking)
    <2>1. registered' = registered
        BY <1>9 DEF Complete, Report, records
    <2>2. CASE c = job.work.id
        <3>1. Complete /\ mapping[c].desired /\ CurrentLease(job.work)
            BY <1>1, <1>9, <2>2, AnswerRows
        <3>2. registered[c] = WorkGrant(job.work)
            BY <2>2, <3>1, AtWork DEF Complete, At, TInv, JobOK
        <3> QED
            BY <1>9, <2>1, <2>2, <3>1, <3>2, AnswerRows DEF CurrentLease, WorkGrant, CurrentGrant
    <2>3. CASE c # job.work.id
        BY <1>1, <1>3, <1>9, <2>1, <2>3, AnswerRows DEF CurrentGrant
    <2> QED
        BY <2>2, <2>3
<1>10. CASE (Complete \/ Report) /\ sel' = sel /\ tracking' = tracking
    BY <1>1, <1>3, <1>10 DEF Complete, Report, CompleteSelection, records, vars, candidates, CurrentGrant
<1> QED
    BY <1>4, <1>5, <1>6, <1>7, <1>8, <1>9, <1>10, Writers

-----------------------------------------------------------------------------
(* The loop *)

\* At rest, or back from the portal, the loop handles nothing.
LEMMA AtRest == ASSUME job'.step \in {"idle", "poll", "report"},
                         job'.step = "report" => job'.work \in Selections(hand')
                  PROVE  JobOK'
BY DEF JobOK

\* A clone is given up only for a selection that was to be traced.
LEMMA GivenUp ==
    ASSUME TInv, GiveUp, job.step \notin {"idle", "poll"}
    PROVE  /\ JobOK' /\ job'.step = "report" /\ job'.work = job.work
           /\ \A c \in Candidate : clones'[c] = IF c = job.work.id THEN None ELSE clones[c]
<1>1. job \in [step : Steps, work : Work, sent : SUBSET Commit]
      /\ clones \in [Candidate -> Project \cup {None}]
    BY DEF TInv, TelemetryAgrees, TelemetryTypeOK
<1>2. job'.step = "report" /\ job'.work = job.work /\ hand' = hand
    BY <1>1 DEF GiveUp
<1>3. \A c \in Candidate : clones'[c] = IF c = job.work.id THEN None ELSE clones[c]
    BY <1>1 DEF GiveUp
<1> QED
    BY <1>2, <1>3, AtWork, AtRest

LEMMA JobStep == ASSUME TInv, TelemetryNext PROVE JobOK'
<1>1. /\ job \in [step : Steps, work : Work, sent : SUBSET Commit]
      /\ clones \in [Candidate -> Project \cup {None}] /\ JobOK
      /\ Idle.step = "idle"
    BY DEF TInv, TelemetryAgrees, TelemetryTypeOK, Idle
<1>2. CASE \/ Poll \/ PollNothing \/ Reconcile \/ Report \/ AgentCrash
           \/ CompleteRefused /\ job' = Idle
           \/ Complete /\ job' = Idle
    BY <1>1, <1>2, AtRest DEF Poll, PollNothing, Reconcile, Report, Handled, AgentCrash, Idle
<1>3. CASE \/ RequestRefused
           \/ CompleteRefused /\ job' # Idle
           \/ Complete /\ job' # Idle
           \/ LoseAnswer /\ GiveUp /\ job.step \in {"register", "history"}
    BY <1>3, GivenUp DEF RequestRefused, CompleteRefused, Complete, Handled, At
<1>4. CASE LoseAnswer /\ ~(job.step \in {"register", "history"})
    <2>1. tx # NoTx /\ hand' = hand \ {tx.work} /\ job' = job /\ mapping' = mapping /\ clones' = clones
          /\ registered' = registered
        BY <1>4 DEF LoseAnswer, Waiting, NoTx, records
    <2>2. job.step \notin {"idle", "poll"} => job'.work \in Selections(hand')
        BY <2>1, AtWork, InTx DEF Selections
    <2> QED
        BY <1>1, <2>1, <2>2 DEF JobOK
<1>5. ASSUME NEW w \in hand, Start(w) PROVE JobOK'
    <2>1. /\ w \in Selections(hand) /\ hand' = hand /\ mapping' = mapping
          /\ job'.work = w /\ job'.step = IF mapping[w.id].desired THEN "register" ELSE "remove"
        BY <1>5 DEF Start
    <2> QED
        BY <2>1 DEF JobOK
<1>6. CASE Install
    <2>1. /\ job.step = "history" /\ job'.step = "complete" /\ job'.work = job.work
          /\ UNCHANGED <<hand, mapping, registered>>
        BY <1>1, <1>6 DEF Install, At, records
    <2> QED
        BY <1>1, <2>1 DEF JobOK
<1>7. CASE Remove
    <2>1. /\ job.step = "remove" /\ job'.work = job.work
          /\ job'.step \in {"complete", "purge"}
          /\ UNCHANGED <<hand, mapping, registered>>
        BY <1>1, <1>7 DEF Remove, At, records
    <2>2. clones'[job.work.id] = None
        BY <1>1, <1>7, <2>1, AtWork DEF Remove
    <2> QED
        BY <1>1, <2>1, <2>2 DEF JobOK
<1>8. CASE Purge
    <2>1. /\ job.step = "purge" /\ job'.work = job.work /\ job'.step = "complete"
          /\ UNCHANGED <<hand, mapping, clones, registered>>
        BY <1>1, <1>8 DEF Purge, At, records
    <2> QED
        BY <1>1, <2>1 DEF JobOK
<1>9. CASE CommitTx
    <2>1. tx # NoTx /\ mapping' = mapping /\ clones' = clones
        BY <1>9 DEF CommitTx, agent, Heard
    <2>0. tx.op = "register" => tx.key \notin Commit
        BY <2>1, TelemetryAssumption DEF TInv, TxOK
    <2>2. hand' \in {hand, hand \ {tx.work}} /\ job'.work = job.work
          /\ job'.step = IF tx.heard /\ tx.op = "register" THEN "history" ELSE job.step
        BY <1>1, <1>9, <2>0 DEF CommitTx, agent, Heard
    <2>3. job.step \notin {"idle", "poll"} => job'.work \in Selections(hand')
        BY <2>1, <2>2, AtWork, InTx DEF Selections
    <2>4. CASE tx.op = "register" /\ tx.heard
        <3>1. job.step = "register" /\ job.work.id = tx.cand /\ tx.grant = mapping[tx.cand].grant
            BY <2>1, <2>4 DEF TInv, TxOK
        <3>2. registered'[tx.cand] = tx.grant
            <4>1. registered \in [Candidate -> Grant]
                BY DEF TInv, TelemetryAgrees, TelemetryTypeOK
            <4> QED
                BY <1>9, <2>1, <2>4, <4>1, InTx DEF CommitTx, Register, Activity, AnnouncePush, ConfirmPush
        <3> QED
            BY <1>1, <2>1, <2>2, <2>3, <2>4, <3>1, <3>2 DEF JobOK
    <2>5. CASE tx.op = "register" /\ ~tx.heard
        <3>1. job.step \in {"idle", "poll", "report"}
            BY <2>1, <2>5, AtWork DEF TInv, TxOK
        <3> QED
            BY <2>2, <2>3, <2>5, <3>1, AtRest
    <2>6. CASE tx.op # "register"
        <3>1. job.step \notin {"idle", "poll"} => registered'[job.work.id] = registered[job.work.id]
            BY <2>6, AtWork, Registrations
        <3> QED
            BY <1>1, <2>1, <2>2, <2>3, <2>6, <3>1 DEF JobOK
    <2> QED
        BY <2>4, <2>5, <2>6
<1>10. CASE UNCHANGED <<job, hand, mapping, clones, registered>>
    BY <1>1, <1>10 DEF JobOK
<1>11. LoseAnswer /\ job.step \in {"register", "history"} => GiveUp
    BY DEF LoseAnswer
<1> QED
    BY <1>2, <1>3, <1>4, <1>5, <1>6, <1>7, <1>8, <1>9, <1>10, <1>11, Writers

-----------------------------------------------------------------------------
(* The request *)

\* A request the portal accepts carries what it was authorized for.
LEMMA BeginsWell ==
    ASSUME TInv, NEW op \in {"register", "activity", "push", "confirm"}, NEW c \in Candidate,
           NEW key \in Event \cup {None}, NEW work \in Work, work.kind # "selection",
           NEW outcome \in {"none", "pending", "verified"}, Joined(c), Begin(op, c, key, work, outcome)
    PROVE  /\ tx' \in Requests /\ tx' # NoTx /\ tx'.grant = CurrentGrant(c)' /\ root'[c].approved
           /\ tx'.op = op /\ tx'.cand = c /\ tx'.key = key /\ tx'.work = work /\ tx'.status = outcome
           /\ tx'.project = matched[c] /\ tx'.heard
           /\ UNCHANGED <<paused, push, job, mapping>>
<1>1. revision[c] \in Nat /\ sel[c].token \in Nat /\ matched[c] \in Project
    BY DEF TInv, IndInv, TypeOK, Selection, Joined
<1>2. CurrentGrant(c) \in Grant
    BY <1>1 DEF CurrentGrant, Grant
<1>3. tx' = [op |-> op, cand |-> c, key |-> key, project |-> matched[c], grant |-> CurrentGrant(c),
             work |-> work, status |-> outcome, heard |-> TRUE]
      /\ UNCHANGED <<paused, push, job, mapping, revision, sel, root>>
    BY DEF Begin, vars, candidates, controls, agent
<1>4. root'[c].approved
    BY <1>3 DEF Joined
<1> QED
    BY <1>1, <1>2, <1>3, <1>4 DEF Requests, NoTx, CurrentGrant

LEMMA NothingToDo == NoWork \in Work /\ NoWork.kind # "selection"
BY DEF NoWork, Work

LEMMA BeginStep ==
    ASSUME TInv,
           \/ RegisterRequest
           \/ \E k \in Commit : HistoryRequest(k)
           \/ \E w \in hand, outcome \in {"pending", "verified"} : Confirm(w, outcome)
           \/ \E e \in queue : Flush(e)
    PROVE  TxOK'
<1>1. CASE RegisterRequest
    <2>1. job.step = "register"
        BY <1>1 DEF RegisterRequest, At
    <2>2. PICK c \in Candidate : c = job.work.id
        BY <2>1, AtWork
    <2>3. Joined(c) /\ mapping[c].grant = CurrentGrant(c) /\ Begin("register", c, None, NoWork, "none")
        BY <1>1, <2>2 DEF RegisterRequest, MayRegister
    <2>4. /\ tx' \in Requests /\ tx' # NoTx /\ tx'.grant = CurrentGrant(c)' /\ root'[c].approved
          /\ tx'.op = "register" /\ tx'.cand = c /\ tx'.key = None /\ tx'.work = NoWork
          /\ tx'.heard /\ UNCHANGED <<job, mapping>>
        BY <2>3, BeginsWell, NothingToDo
    <2>5. CurrentGrant(c)' = CurrentGrant(c)
        BY <2>3 DEF Begin, vars, candidates, CurrentGrant
    <2> QED
        BY <2>1, <2>2, <2>3, <2>4, <2>5, NothingToDo DEF TxOK
<1>2. ASSUME NEW k \in Commit, HistoryRequest(k) PROVE TxOK'
    <2>1. PICK c \in Candidate : c = job.work.id
        BY <1>2, AtWork DEF HistoryRequest, At
    <2>2. Joined(c) /\ ~paused[matched[c]] /\ Begin("activity", c, k, NoWork, "none")
        BY <1>2, <2>1 DEF HistoryRequest, Authorized, TelemetryAllowed
    <2>3. k \in Event
        BY DEF Event
    <2> QED
        BY <2>2, <2>3, BeginsWell, NothingToDo DEF TxOK
<1>3. ASSUME NEW w \in hand, NEW outcome \in {"pending", "verified"}, Confirm(w, outcome) PROVE TxOK'
    <2>1. w.kind = "push" /\ push[w.id].status = "pending"
        BY <1>3 DEF Confirm, OpenPush
    <2>2. w \in Work /\ w.id \in PushId /\ w.id \in Event
        BY <2>1 DEF TInv, HandOK, IssuedOK, IndInv, TypeOK, Event
    <2>3. PICK c \in Candidate : c = push[w.id].candidate
        BY <2>1, <2>2 DEF TInv, PushesOK
    <2>4. Joined(c) /\ ~paused[matched[c]] /\ Begin("confirm", c, w.id, w, outcome)
        BY <1>3, <2>3 DEF Confirm, Authorized, TelemetryAllowed
    <2> QED
        BY <2>1, <2>2, <2>3, <2>4, BeginsWell DEF TxOK
<1>4. ASSUME NEW e \in queue, Flush(e) PROVE TxOK'
    <2> DEFINE op == IF e.key \in PushId THEN "push" ELSE "activity"
    <2>1. /\ Joined(e.cand) /\ ~paused[matched[e.cand]] /\ Begin(op, e.cand, e.key, NoWork, "none")
        BY <1>4 DEF Flush, Authorized, TelemetryAllowed
    <2>2. e.cand \in Candidate /\ e.key \in HookEvent \cup PushId /\ e.key \in Event
        BY DEF TInv, TelemetryAgrees, TelemetryTypeOK, Event
    <2> QED
        BY <2>1, <2>2, BeginsWell, NothingToDo DEF TxOK
<1> QED
    BY <1>1, <1>2, <1>3, <1>4

LEMMA TxStep == ASSUME TInv, TelemetryNext PROVE TxOK'
<1>1. CASE tx' = NoTx
    BY <1>1 DEF TxOK
<1>2. CASE CommitTx
    BY <1>1, <1>2 DEF CommitTx
<1>3. CASE \/ RegisterRequest
           \/ \E k \in Commit : HistoryRequest(k)
           \/ \E w \in hand, outcome \in {"pending", "verified"} : Confirm(w, outcome)
           \/ \E e \in queue : Flush(e)
    BY <1>3, BeginStep
<1>4. CASE LoseAnswer
    <2>1. /\ tx # NoTx /\ tx' = [tx EXCEPT !.heard = FALSE]
          /\ UNCHANGED <<paused, push, mapping, revision, sel, root>>
        BY <1>4 DEF LoseAnswer, Waiting, NoTx, vars, candidates, controls, GiveUp
    <2>2. tx \in Requests /\ TxOK
        BY <2>1 DEF TInv, TxOK
    <2>3. tx' \in Requests /\ ~tx'.heard /\ tx'.op = tx.op /\ tx'.cand = tx.cand /\ tx'.key = tx.key
          /\ tx'.project = tx.project /\ tx'.grant = tx.grant /\ tx'.work = tx.work
          /\ tx'.status = tx.status
        BY <2>1, <2>2 DEF Requests
    <2>4. tx.op = "register" => job'.step = "report"
        <3>1. tx.heard
            BY <1>4 DEF LoseAnswer, Waiting
        <3>2. tx.op = "register" => job.step = "register"
            BY <2>1, <2>2, <3>1 DEF TxOK
        <3> QED
            BY <1>4, <3>2, GivenUp DEF LoseAnswer
    <2> QED
        BY <2>1, <2>2, <2>3, <2>4 DEF TxOK, CurrentGrant
<1>5. CASE AgentCrash
    <2>1. /\ tx' = [tx EXCEPT !.heard = FALSE] /\ Selections(hand') = {}
          /\ UNCHANGED <<paused, push, mapping, revision, sel, root>>
        BY <1>5 DEF AgentCrash, DeviceCrash, candidates, controls, Selections
    <2>2. CASE tx = NoTx
        BY <1>1, <2>1, <2>2 DEF NoTx
    <2>3. CASE tx # NoTx
        <3>1. tx \in Requests /\ TxOK
            BY <2>3 DEF TInv, TxOK
        <3>2. tx' \in Requests /\ ~tx'.heard /\ tx'.op = tx.op /\ tx'.cand = tx.cand /\ tx'.key = tx.key
              /\ tx'.project = tx.project /\ tx'.grant = tx.grant /\ tx'.work = tx.work
              /\ tx'.status = tx.status
            BY <2>1, <3>1 DEF Requests
        <3> QED
            BY <2>1, <2>3, <3>1, <3>2 DEF TxOK, CurrentGrant
    <2> QED
        BY <2>2, <2>3
\* What may happen while a request is in progress.
<1>6. ASSUME tx # NoTx, tx' = tx
      PROVE  /\ paused' = paused /\ root' = root /\ mapping' = mapping /\ revision' = revision
             /\ \A c \in Candidate : sel'[c].token = sel[c].token
             /\ tx.op = "confirm" => /\ push'[tx.key].status = push[tx.key].status
                                      /\ push'[tx.key].candidate = push[tx.key].candidate
    <2>1. ~CommitTx
        BY <1>6 DEF CommitTx
    <2>2. ~Poll /\ ~Complete /\ ~Report
        BY <1>6, Locked DEF Poll, Complete, Report, Locks
    <2>3. /\ ~\E c \in Candidate : RevokeRoot(c)
          /\ ~\E c \in Candidate, desired \in BOOLEAN : SelectCandidate(c, desired)
          /\ ~\E s \in saves : SaveTraceMiniConfig(s)
          /\ ~\E p \in access : WipeTraceMiniTelemetry(p)
        BY <1>6, Locked DEF RevokeRoot, SelectCandidate, SaveTraceMiniConfig, WipeTraceMiniTelemetry, Locks
    <2>4. \A c \in Candidate : sel'[c].token = sel[c].token
        <3>1. sel \in [Candidate -> Selection]
            BY DEF TInv, IndInv, TypeOK
        <3>2. sel' = sel \/ \E c \in Candidate : sel' = [sel EXCEPT ![c].lease = "stale"]
            BY <2>2, <2>3, Writers DEF LeaseElapses
        <3> QED
            BY <3>1, <3>2 DEF Selection
    <2>5. revision' = revision
        BY <2>2, <2>3, Writers DEF LeaseElapses, candidates
    <2>6. tx.op = "confirm" => /\ push'[tx.key].status = push[tx.key].status
                               /\ push'[tx.key].candidate = push[tx.key].candidate
        BY <1>6, <2>1, PushWriters DEF TInv, TxOK
    <2> QED
        BY <2>1, <2>2, <2>3, <2>4, <2>5, <2>6, Writers
<1>7. ASSUME tx # NoTx, tx' = tx, tx.op = "register"
      PROVE  IF tx.heard THEN job' = job
             ELSE job'.step = "report" \/ Selections(hand') = {}
    <2>1. ~CommitTx /\ ~Poll /\ ~Complete /\ ~CompleteRefused /\ ~Report /\ ~RequestRefused
        BY <1>7, Locked DEF CommitTx, Poll, Complete, CompleteRefused, Report, RequestRefused, Locks
    <2>2. ~LoseAnswer
        BY <1>7, InTx DEF LoseAnswer, Waiting, TInv, TxOK, Requests
    <2>3. CASE tx.heard
        BY <1>7, <2>1, <2>2, <2>3, Writers DEF PollNothing, Reconcile, Start, Install, Remove, Purge, At,
           Waiting, AgentCrash, TInv, TxOK, Requests
    <2>4. CASE ~tx.heard
        <3>1. job.step = "report" \/ Selections(hand) = {}
            BY <1>7, <2>4 DEF TInv, TxOK
        <3>2. job.step \in {"idle", "poll", "report"}
            BY <3>1, AtWork
        <3>3. CASE PollNothing \/ AgentCrash
            BY <2>4, <3>3 DEF PollNothing, AgentCrash, Selections
        <3>4. CASE Reconcile
            BY <2>4, <3>1, <3>4 DEF Reconcile, At
        <3>5. CASE Install \/ Remove \/ Purge
            BY <2>4, <3>2, <3>5 DEF Install, Remove, Purge, At
        <3>6. CASE \E w \in hand : Start(w)
            BY <2>4, <3>1, <3>6 DEF Start, At
        <3>7. CASE job' = job /\ hand' = hand
            BY <2>4, <3>1, <3>7
        <3> QED
            BY <2>1, <2>2, <3>3, <3>4, <3>5, <3>6, <3>7, Writers
    <2> QED
        BY <1>7, <2>3, <2>4, InTx
<1>8. CASE tx # NoTx /\ tx' = tx
    <2>1. TxOK /\ tx.cand \in Candidate
        BY <1>8, InTx DEF TInv
    <2>2. tx'.grant = CurrentGrant(tx.cand)'
        BY <1>6, <1>8, <2>1 DEF TxOK, CurrentGrant
    <2> QED
        BY <1>6, <1>7, <1>8, <2>1, <2>2 DEF TxOK
<1> QED
    BY <1>1, <1>2, <1>3, <1>4, <1>5, <1>8, Writers

-----------------------------------------------------------------------------
(* Stops *)

\* The project of a root is set by its first poll and never changed.
LEMMA RootsKeepProject ==
    ASSUME TInv, TelemetryNext, NEW c \in Candidate
    PROVE  /\ root'[c].project = root[c].project \/ (Poll /\ root'[c].approved)
           /\ root'[c].approved => root[c].approved \/ Poll
<1>1. TypeOK /\ root \in [Candidate -> Root]
    BY DEF TInv, IndInv, TypeOK
<1>2. CASE \E d \in Candidate : RevokeRoot(d)
    BY <1>1, <1>2, RevokeRootsType DEF RevokeRoot, RevokeTraceMiniRoot
<1>3. CASE \E d \in Candidate, desired \in BOOLEAN : SelectCandidate(d, desired)
    BY <1>1, <1>3, RevokeRootsType DEF SelectCandidate, SelectRepositoryCandidate
<1>4. CASE Poll
    <2>1. root'[c] = IF c \in Bound THEN [project |-> AuthorizedMatch(c), approved |-> TRUE]
                     ELSE RevokeRoots(Refused)[c]
        BY <1>4 DEF Poll, ClaimDeviceWork
    <2> QED
        BY <1>1, <1>4, <2>1, RevokeRootsType
<1>5. CASE (Complete \/ Report) /\ root' # root
    BY <1>5, AnswerRows
<1> QED
    BY <1>2, <1>3, <1>4, <1>5, Writers

\* What a stop leaves behind, where nothing but the loop's own variables moved.
LEMMA StopStays ==
    ASSUME TInv, TelemetryNext, NEW w \in Selections(hand), ~mapping[w.id].desired, ~Poll,
           job.step # "poll", queue' \subseteq queue,
           clones'[w.id] = clones[w.id],
           job.step = "purge" => job'.step = "purge" /\ job'.work = job.work
    PROVE  StopOK(w)'
<1>1. StopOK(w) /\ w.id \in Candidate
    BY DEF TInv, StopsOK, HandOK, IssuedOK, Selections
<1>2. siblings' = siblings /\ \A d \in Candidate : root'[d].project = root[d].project
    BY Writers, RootsKeepProject
<1>3. \A e \in queue : ListedFor(e.project, Candidate \ {w.id}) => ListedFor(e.project, Candidate \ {w.id})'
    BY <1>2 DEF ListedFor
<1>4. ~root'[w.id].approved
    BY <1>1, RootsKeepProject DEF StopOK
<1> QED
    BY <1>1, <1>3, <1>4 DEF StopOK

LEMMA StopsStep == ASSUME TInv, TelemetryNext PROVE StopsOK'
<1>1. CASE Poll
    <2>1. SUFFICES ASSUME NEW w \in Selections(hand'), ~mapping'[w.id].desired
                   PROVE  ~root'[w.id].approved /\ job'.step = "poll"
        BY DEF StopsOK, StopOK
    <2>2. w.id \in Granted /\ ~sel[w.id].desired /\ w.id \in Candidate /\ TypeOK
        BY <1>1, <2>1, PollHand DEF TInv, IndInv, TypeOK, Granted, SelectionsDue
    <2>3. ~root[w.id].approved
        BY <2>2 DEF TInv, IndInv, CandidateOK, BoundBySelection
    <2>4. root'[w.id] = RevokeRoots(Refused)[w.id]
        BY <1>1, <2>2 DEF Poll, ClaimDeviceWork, Bound
    <2>5. ~root'[w.id].approved
        BY <2>2, <2>3, <2>4, RevokeRootsType DEF Granted, TypeOK
    <2> QED
        BY <1>1, <2>5 DEF Poll, Idle
<1>2. CASE PollNothing \/ AgentCrash
    BY <1>2 DEF PollNothing, AgentCrash, StopsOK, Selections
<1>3. SUFFICES ASSUME ~Poll, ~PollNothing, ~AgentCrash, NEW w \in Selections(hand'),
                      ~mapping'[w.id].desired
               PROVE  StopOK(w)'
    BY <1>1, <1>2 DEF StopsOK
<1>4. /\ w \in Selections(hand) /\ mapping' = mapping /\ ~mapping[w.id].desired /\ w.id \in Candidate
      /\ StopOK(w)
    <2>1. hand' \subseteq hand
        BY <1>3, Writers DEF Complete, CompleteRefused, Report, CommitTx, LoseAnswer, GiveUp, Handled,
           Heard, agent
    <2> QED
        BY <1>3, <2>1, Writers DEF Selections, TInv, StopsOK, HandOK, IssuedOK
<1>5. /\ job \in [step : Steps, work : Work, sent : SUBSET Commit]
      /\ clones \in [Candidate -> Project \cup {None}] /\ TypeOK
    BY DEF TInv, TelemetryAgrees, TelemetryTypeOK, IndInv
<1>6. CASE Reconcile
    <2>1. ~root[w.id].approved /\ root' = root /\ siblings' = siblings
        BY <1>4, <1>6 DEF StopOK, Reconcile, vars, controls
    <2>2. ASSUME NEW e \in queue', e.cand = w.id PROVE ListedFor(e.project, Candidate \ {w.id})
        <3>1. e.project \in Workspaces
            BY <1>6, <2>2 DEF Reconcile
        <3>2. CASE e.project \in siblings
            BY <3>2 DEF ListedFor
        <3>3. CASE e.project \notin siblings
            <4>1. PICK d \in Candidate : root[d].approved /\ e.project = matched[d]
                BY <3>1, <3>3 DEF Workspaces
            <4>2. root[d].project = matched[d]
                BY <4>1 DEF TInv, IndInv, CandidateOK, BoundBySelection
            <4> QED
                BY <2>1, <4>1, <4>2 DEF ListedFor
        <3> QED
            BY <3>2, <3>3
    <2> QED
        BY <2>1, <2>2 DEF StopOK, ListedFor
<1>7. CASE Purge
    <2>1. /\ job.step = "purge" /\ root' = root /\ siblings' = siblings /\ clones' = clones
          /\ queue' = {e \in queue : e.cand # job.work.id}
        BY <1>7 DEF Purge, At, vars, controls
    <2> QED
        BY <1>4, <2>1 DEF StopOK, ListedFor
<1>8. CASE Remove
    <2>1. /\ job.step = "remove" /\ job'.work = job.work
          /\ job'.step = IF clones[job.work.id] = None THEN "complete" ELSE "purge"
          /\ queue' = queue /\ root' = root /\ siblings' = siblings
          /\ \A c \in Candidate : clones'[c] = IF c = job.work.id THEN None ELSE clones[c]
        BY <1>5, <1>8 DEF Remove, At, vars, controls
    <2>2. CASE w.id # job.work.id
        BY <1>4, <2>1, <2>2 DEF StopOK, ListedFor
    <2>3. CASE w.id = job.work.id
        <3>1. w = job.work
            BY <1>4, <2>1, <2>3, AtWork, OneInHand
        <3> QED
            BY <1>4, <2>1, <2>3, <3>1 DEF StopOK, ListedFor
    <2> QED
        BY <2>2, <2>3
<1>9. CASE \E c \in Candidate, k \in HookEvent \cup PushId : Hook(c, k)
    <2>1. PICK c \in Candidate, k \in HookEvent \cup PushId : Hook(c, k)
        BY <1>9
    <2>2. /\ clones[c] # None /\ UNCHANGED <<root, siblings, clones, job>>
          /\ queue' = queue \cup {[cand |-> c, key |-> k, project |-> clones[c]]}
        BY <2>1 DEF Hook, vars, controls
    <2> QED
        BY <1>4, <2>2 DEF StopOK, ListedFor
<1>10. CASE Install \/ RequestRefused \/ (LoseAnswer /\ job.step \in {"register", "history"})
    <2>1. /\ job.step \in {"register", "history"} /\ queue' = queue
          /\ \A c \in Candidate : c = job.work.id \/ clones'[c] = clones[c]
        BY <1>5, <1>10 DEF Install, RequestRefused, LoseAnswer, GiveUp, At
    <2>2. w.id # job.work.id
        BY <1>4, <2>1 DEF TInv, JobOK
    <2> QED
        BY <1>3, <1>4, <2>1, <2>2, StopStays
<1>11. CASE Complete \/ CompleteRefused
    <2>1. /\ job.step = "complete" /\ queue' = queue
          /\ \/ clones' = clones
             \/ /\ mapping[job.work.id].desired
                /\ \A c \in Candidate : c = job.work.id \/ clones'[c] = clones[c]
        BY <1>5, <1>11 DEF Complete, CompleteRefused, GiveUp, Handled, At
    <2> QED
        BY <1>3, <1>4, <2>1, StopStays
<1>12. CASE Report \/ (\E v \in hand : Start(v))
    <2>1. job.step \in {"idle", "report"} /\ queue' = queue /\ clones' = clones
        BY <1>12 DEF Report, Start, At
    <2> QED
        BY <1>3, <1>4, <2>1, StopStays
<1>13. CASE CommitTx \/ (LoseAnswer /\ ~(job.step \in {"register", "history"}))
    <2>1. /\ clones' = clones /\ queue' \subseteq queue /\ job'.work = job.work
          /\ job.step = job'.step \/ (tx.op = "register" /\ tx.heard /\ job'.step = "history")
        <3>1. CASE CommitTx
            <4>1. tx.op = "register" => tx.key \notin Commit
                BY <3>1, TelemetryAssumption DEF TInv, TxOK, CommitTx
            <4> QED
                BY <1>5, <3>1, <4>1 DEF CommitTx, Heard, agent
        <3>2. CASE LoseAnswer /\ ~(job.step \in {"register", "history"})
            BY <3>2 DEF LoseAnswer, Kept
        <3> QED
            BY <1>13, <3>1, <3>2
    <2>2. job.step # job'.step => job.step = "register"
        BY <2>1 DEF TInv, TxOK, NoTx
    <2>3. CASE job.step # "poll"
        BY <1>3, <1>4, <2>1, <2>2, <2>3, StopStays
    <2>4. CASE job.step = "poll"
        BY <1>4, <2>2, <2>4, RootsKeepProject, <1>3 DEF StopOK
    <2> QED
        BY <2>3, <2>4
<1>14. CASE job' = job /\ queue' = queue /\ clones' = clones
    <2>1. CASE job.step # "poll"
        BY <1>3, <1>4, <1>14, <2>1, StopStays
    <2>2. CASE job.step = "poll"
        BY <1>3, <1>4, <1>14, <2>2, RootsKeepProject DEF StopOK
    <2> QED
        BY <2>1, <2>2
<1> QED
    BY <1>3, <1>6, <1>7, <1>8, <1>9, <1>10, <1>11, <1>12, <1>13, <1>14, Writers

LEMMA RetiredStep == ASSUME TInv, TelemetryNext PROVE RetiredIsGone'
<1>1. SUFFICES ASSUME NEW e \in retired', e \notin delivered', ~Announced(e, push') PROVE Gone(e)'
    BY DEF RetiredIsGone
<1>2. e \notin delivered /\ ~Announced(e, push)
    BY <1>1, Deliveries, AnnouncedStays
<1>3. retired \subseteq recorded /\ recorded \subseteq [cand : Candidate, key : HookEvent \cup PushId]
    BY DEF TInv, TelemetryAgrees, TelemetryTypeOK
\* A stop that is acknowledged leaves nothing queued.
<1>4. CASE e \notin retired
    <2> DEFINE c == job.work.id
    <2>1. /\ Complete /\ job.step = "complete" /\ tx = NoTx /\ ~mapping[c].desired
          /\ e \in Recorded(c) \ LeftBehind(c)
        BY <1>1, <1>4, Writers DEF Complete, At
    <2>2. clones[c] = None /\ job.work \in Selections(hand) /\ c \in Candidate
        BY <2>1, AtWork DEF TInv, JobOK
    <2>3. \A q \in queue : q.cand = c => ListedFor(q.project, Candidate \ {c})
        BY <2>1, <2>2 DEF TInv, StopsOK, StopOK
    <2>4. \A q \in queue : ~(q.cand = e.cand /\ q.key = e.key)
        BY <2>1, <2>3 DEF LeftBehind, Recorded
    <2>5. queue' = queue /\ tx' = tx
        BY <2>1 DEF Complete, GiveUp, Handled
    <2> QED
        BY <2>1, <2>4, <2>5 DEF Gone, NoTx
<1>5. CASE e \in retired
    <2>1. Gone(e)
        BY <1>1, <1>2, <1>5 DEF TInv, RetiredIsGone
    <2>2. \A q \in queue' : ~(q.cand = e.cand /\ q.key = e.key)
        <3>1. CASE queue' \subseteq queue
            BY <2>1, <3>1 DEF Gone
        <3>2. CASE Reconcile \/ Purge \/ CommitTx
            BY <3>1, <3>2 DEF Reconcile, Purge, CommitTx, Heard, agent
        <3>3. ASSUME NEW c \in Candidate, NEW k \in HookEvent \cup PushId, Hook(c, k)
              PROVE  \A q \in queue' : ~(q.cand = e.cand /\ q.key = e.key)
            <4>1. e.key # k
                BY <1>3, <1>5, <3>3 DEF Hook
            <4> QED
                BY <2>1, <3>3, <4>1 DEF Hook, Gone
        <3> QED
            BY <3>1, <3>2, <3>3, Writers
    <2>3. ~(tx'.op \in {"activity", "push"} /\ tx'.cand = e.cand /\ tx'.key = e.key)
        <3>1. CASE tx' = tx
            BY <2>1, <3>1 DEF Gone
        <3>2. CASE CommitTx \/ LoseAnswer \/ AgentCrash
            <4>1. tx' = NoTx \/ tx' = [tx EXCEPT !.heard = FALSE]
                BY <3>2 DEF CommitTx, LoseAnswer, AgentCrash
            <4>2. tx = NoTx \/ tx \in Requests
                BY DEF TInv, TxOK
            <4> QED
                BY <2>1, <4>1, <4>2 DEF Gone, NoTx, Requests
        <3>3. CASE RegisterRequest
            BY <3>3 DEF RegisterRequest, Begin
        <3>4. ASSUME NEW k \in Commit, HistoryRequest(k)
              PROVE  ~(tx'.op \in {"activity", "push"} /\ tx'.cand = e.cand /\ tx'.key = e.key)
            <4>1. e.key \in HookEvent \cup PushId
                BY <1>3, <1>5
            <4> QED
                BY <3>4, <4>1, TelemetryAssumption DEF HistoryRequest, Begin
        <3>5. ASSUME NEW w \in hand, NEW outcome \in {"pending", "verified"}, Confirm(w, outcome)
              PROVE  ~(tx'.op \in {"activity", "push"} /\ tx'.cand = e.cand /\ tx'.key = e.key)
            BY <3>5 DEF Confirm, Begin
        <3>6. ASSUME NEW q \in queue, Flush(q)
              PROVE  ~(tx'.op \in {"activity", "push"} /\ tx'.cand = e.cand /\ tx'.key = e.key)
            BY <2>1, <3>6 DEF Flush, Begin, Gone
        <3> QED
            BY <3>1, <3>2, <3>3, <3>4, <3>5, <3>6, Writers
    <2> QED
        BY <2>2, <2>3 DEF Gone
<1> QED
    BY <1>4, <1>5

-----------------------------------------------------------------------------
(* The rows of Discovery, under the steps of Telemetry *)

\* All but three actions of Telemetry are transactions of Discovery, or none.
LEMMA DiscoverySteps ==
    ASSUME TInv, TelemetryNext
    PROVE  \/ [Next]_vars
           \/ \E c \in Candidate : LeaseElapses(c)
           \/ CommitTx /\ (AnnouncePush \/ ConfirmPush)
<1>1. TypeOK
    BY DEF TInv, IndInv
<1>2. CASE UNCHANGED vars
    BY <1>2
<1>3. CASE \/ \E p \in Project, sets \in {"enable", "disable", "retention"} : ReadForSave(p, sets)
           \/ \E s \in saves : SaveTraceMiniConfig(s)
           \/ \E p \in access : WipeTraceMiniTelemetry(p)
           \/ \E w \in hand : Start(w)
           \/ \E c \in Candidate, k \in HookEvent \cup PushId : Hook(c, k)
           \/ PollNothing \/ Reconcile \/ Install \/ RequestRefused \/ Remove \/ Purge \/ CompleteRefused
           \/ LoseAnswer
    BY <1>2, <1>3 DEF ReadForSave, SaveTraceMiniConfig, WipeTraceMiniTelemetry, Start, Hook, PollNothing,
       Reconcile, Install, RequestRefused, Remove, Purge, CompleteRefused, LoseAnswer
<1>4. CASE \/ RegisterRequest
           \/ \E k \in Commit : HistoryRequest(k)
           \/ \E w \in hand, outcome \in {"pending", "verified"} : Confirm(w, outcome)
           \/ \E e \in queue : Flush(e)
    BY <1>2, <1>4 DEF RegisterRequest, HistoryRequest, Confirm, Flush, Begin
<1>5. CASE CommitTx
    <2>1. CASE Register \/ Activity
        BY <1>2, <2>1 DEF Register, Activity
    <2> QED
        BY <1>5, <2>1 DEF CommitTx
<1>6. CASE \E c \in Candidate : RevokeRoot(c)
    BY <1>6 DEF RevokeRoot, Next, Portal
<1>7. ASSUME NEW c \in Candidate, NEW desired \in BOOLEAN, SelectCandidate(c, desired) PROVE Next
    <2>1. SelectRepositoryCandidate(c, desired, revision[c]) /\ revision[c] < MaxRevision
        BY <1>7 DEF SelectCandidate, SelectRepositoryCandidate
    <2>2. revision[c] \in 1..MaxRevision
        BY <1>1, <2>1, DiscoveryAssumption DEF TypeOK
    <2> QED
        BY <2>1, <2>2 DEF Next, Browser
<1>8. CASE Poll
    BY <1>8 DEF Poll, Next, Device
<1>9. CASE Complete
    <2>1. job.work \in issued /\ mapping[job.work.id].desired \in BOOLEAN
        BY <1>9, AtWork DEF Complete, At
    <2>2. CompleteSelection(job.work, mapping[job.work.id].desired, FALSE)
        BY <1>9 DEF Complete
    <2> QED
        BY <2>1, <2>2 DEF Next, Device, Answer
<1>10. CASE Report
    <2>1. job.work \in issued
        BY <1>10, AtWork DEF Report, At
    <2>2. CompleteSelection(job.work, FALSE, TRUE) \/ UNCHANGED vars
        BY <1>10 DEF Report
    <2> QED
        BY <2>1, <2>2 DEF Next, Device, Answer
<1>11. CASE AgentCrash
    BY <1>11 DEF AgentCrash, Next
<1>12. CASE \E i \in PushId : PushCheckDue(i) /\ UNCHANGED telemetry
    BY <1>12 DEF Next, Time
<1> QED
    BY <1>3, <1>4, <1>5, <1>6, <1>7, <1>8, <1>9, <1>10, <1>11, <1>12
    DEF TelemetryNext, Owner, Agent, Loop, Activation, Environment

LEMMA RowsStep == ASSUME TInv, TelemetryNext PROVE IndInv'
<1>1. TypeOK /\ TokensArePositive /\ IndInv
    BY DEF TInv, IndInv
<1>2. CASE [Next]_vars
    BY <1>1, <1>2, StepTypeOK, StepTokens, StepCandidate DEF IndInv
<1>3. ASSUME NEW d \in Candidate, LeaseElapses(d) PROVE IndInv'
    <2>1. /\ sel' = [sel EXCEPT ![d].lease = "stale"] /\ sel[d].lease = "held"
          /\ UNCHANGED <<authority, candidates, tracked, root, scan, push, issued, claims, scans, crashes>>
          /\ expiries' \in {expiries, expiries + 1}
        BY <1>3 DEF LeaseElapses
    <2>2. sel' \in [Candidate -> Selection]
        BY <1>1, <2>1 DEF TypeOK, Selection, Lease
    <2>3. TypeOK'
        BY <1>1, <2>1, <2>2 DEF TypeOK, authority, candidates
    <2>4. ASSUME NEW c \in Candidate PROVE CandidateOK(c)'
        <3>1. CandidateOK(c) /\ sel[c] \in Selection
            BY <1>1 DEF IndInv, TypeOK
        <3>2. CASE c # d
            BY <1>1, <2>1, <3>1, <3>2, Untouched DEF TypeOK, authority, candidates
        <3>3. CASE c = d
            <4>1. /\ sel'[c].completed = sel[c].completed /\ sel'[c].revision = sel[c].revision
                  /\ sel'[c].desired = sel[c].desired /\ sel'[c].lease = "stale"
                BY <1>1, <2>1, <3>1, <3>3 DEF Selection, TypeOK
            <4>2. UNCHANGED <<access, known, matched, tracking, revision, tracked, root>>
                BY <2>1 DEF authority, candidates
            <4> QED
                BY <2>1, <3>1, <3>3, <4>1, <4>2 DEF CandidateOK, RevisionOrder, HeldIsBound, FreeHasNoToken,
                   BoundBySelection, Acknowledged, Owed, InForce
        <3> QED
            BY <3>2, <3>3
    <2> QED
        BY <1>1, <2>1, <2>3, <2>4 DEF IndInv, TokensArePositive
<1>4. CASE CommitTx /\ (AnnouncePush \/ ConfirmPush)
    <2>1. UNCHANGED <<authority, candidates, sel, tracked, root, scan, issued, clock>>
        BY <1>4 DEF AnnouncePush, ConfirmPush
    <2>2. push' \in [PushId -> Push]
        <3>1. push \in [PushId -> Push] /\ tx # NoTx
            BY <1>1, <1>4 DEF TypeOK, CommitTx
        <3>2. CASE AnnouncePush
            <4>1. [candidate |-> tx.cand, status |-> "pending", due |-> TRUE, token |-> 0] \in Push
                BY <3>1, InTx DEF Push
            <4> QED
                BY <3>1, <3>2, <4>1 DEF AnnouncePush
        <3>3. CASE ConfirmPush
            <4>1. tx.status \in {"pending", "verified"}
                BY <3>1, <3>3, InTx DEF TInv, TxOK, ConfirmPush
            <4>2. \A i \in PushId : [push[i] EXCEPT !.status = tx.status] \in Push
                BY <3>1, <4>1 DEF Push
            <4>3. push' = [i \in PushId |-> IF i = tx.work.id THEN [push[i] EXCEPT !.status = tx.status]
                                            ELSE push[i]]
                BY <3>1, <3>3 DEF ConfirmPush
            <4> QED
                BY <3>1, <4>2, <4>3
        <3> QED
            BY <1>4, <3>2, <3>3
    <2>3. TypeOK'
        BY <1>1, <2>1, <2>2 DEF TypeOK, authority, candidates, clock
    <2>4. ASSUME NEW c \in Candidate PROVE CandidateOK(c)'
        BY <1>1, <2>1, Untouched DEF IndInv, authority, candidates
    <2> QED
        BY <1>1, <2>1, <2>3, <2>4 DEF IndInv, TokensArePositive
<1> QED
    BY <1>2, <1>3, <1>4, DiscoverySteps

-----------------------------------------------------------------------------
(* Types of the telemetry variables *)

\* What is stored is of the request's project.
LEMMA EventWriters ==
    ASSUME TelemetryNext
    PROVE  \/ events' \subseteq events
           \/ /\ CommitTx /\ tx # NoTx
              /\ Activity \/ (ConfirmPush /\ tx.status = "verified")
              /\ events' = events \cup {[cand |-> tx.cand, key |-> tx.key, project |-> tx.project,
                                         epoch |-> epoch[tx.project]]}
<1> USE DEF TelemetryNext, Owner, Agent, Loop, Activation, Environment, records, telemetry, ReadForSave,
        SaveTraceMiniConfig, WipeTraceMiniTelemetry, PollNothing, Reconcile, Start, Install, Remove, Purge,
        CompleteRefused, RequestRefused, Hook, LoseAnswer, LeaseElapses, PushCheckDue, Begin,
        RegisterRequest, HistoryRequest, Confirm, Flush
<1>1. events' \subseteq events \/ CommitTx
    BY DEF Complete, Report, RevokeRoot, SelectCandidate, AgentCrash, Poll
<1>2. CASE CommitTx
    BY <1>2 DEF CommitTx, Register, Activity, AnnouncePush, ConfirmPush, Stored
<1> QED
    BY <1>1, <1>2

LEMMA TypesStep == ASSUME TInv, TelemetryNext PROVE TelemetryTypeOK'
<1>1. /\ paused \in [Project -> BOOLEAN] /\ epoch \in [Project -> Nat] /\ siblings \subseteq Project
      /\ saves \subseteq [project : Project, paused : BOOLEAN]
      /\ registered \in [Candidate -> Grant]
      /\ events \subseteq [cand : Candidate, key : Event, project : Project, epoch : Nat]
      /\ mapping \in [Candidate -> Mapping]
      /\ hand \subseteq Work /\ job \in [step : Steps, work : Work, sent : SUBSET Commit]
      /\ clones \in [Candidate -> Project \cup {None}]
      /\ queue \subseteq [cand : Candidate, key : HookEvent \cup PushId, project : Project]
      /\ recorded \subseteq [cand : Candidate, key : HookEvent \cup PushId]
      /\ delivered \subseteq [cand : Candidate, key : Event]
      /\ retired \subseteq recorded
    BY DEF TInv, TelemetryAgrees, TelemetryTypeOK
<1>2. TypeOK /\ TypeOK' /\ access \subseteq Project
    BY RowsStep DEF TInv, IndInv, TypeOK
<1>3. paused' \in [Project -> BOOLEAN] /\ epoch' \in [Project -> Nat] /\ siblings' \subseteq Project
      /\ saves' \subseteq [project : Project, paused : BOOLEAN]
    <2>1. ASSUME NEW p \in Project, NEW sets \in {"enable", "disable", "retention"}, ReadForSave(p, sets)
          PROVE  /\ paused' = paused /\ epoch' = epoch
                 /\ saves' \subseteq [project : Project, paused : BOOLEAN]
        <3>1. (IF sets = "retention" THEN paused[p] ELSE sets = "disable") \in BOOLEAN
            BY <1>1
        <3>2. saves' = saves \cup {[project |-> p,
                                    paused |-> IF sets = "retention" THEN paused[p] ELSE sets = "disable"]}
            BY <2>1 DEF ReadForSave
        <3> QED
            BY <1>1, <2>1, <3>1, <3>2 DEF ReadForSave
    <2>2. ASSUME NEW s \in saves, SaveTraceMiniConfig(s)
          PROVE  /\ paused' \in [Project -> BOOLEAN] /\ epoch' = epoch
                 /\ saves' \subseteq saves
        BY <1>1, <2>2 DEF SaveTraceMiniConfig
    <2>3. ASSUME NEW p \in access, WipeTraceMiniTelemetry(p)
          PROVE  /\ paused' \in [Project -> BOOLEAN] /\ epoch' \in [Project -> Nat] /\ saves' = saves
        BY <1>1, <1>2, <2>3 DEF WipeTraceMiniTelemetry
    <2> QED
        BY <1>1, <2>1, <2>2, <2>3, Writers
<1>4. registered' \in [Candidate -> Grant]
    <2>1. CASE CommitTx
        BY <1>1, <2>1, InTx DEF CommitTx, Register, Activity, AnnouncePush, ConfirmPush, records
    <2> QED
        BY <1>1, <2>1, Writers
<1>5. events' \subseteq [cand : Candidate, key : Event, project : Project, epoch : Nat]
      /\ delivered' \subseteq [cand : Candidate, key : Event]
    <2>1. tx # NoTx /\ (Activity \/ ConfirmPush) =>
             /\ tx.cand \in Candidate /\ tx.key \in Event /\ tx.project \in Project
             /\ epoch[tx.project] \in Nat
        BY <1>1, InTx DEF TInv, TxOK, Activity, ConfirmPush, Event
    <2> QED
        BY <1>1, <2>1, Deliveries, EventWriters
<1>6. tx'.op \in {"none", "register", "activity", "push", "confirm"}
    BY TxStep DEF TxOK, Requests, NoTx
<1>7. mapping' \in [Candidate -> Mapping]
    <2>1. CASE Poll
        <3>1. claims' \in Nat /\ matched' \in [Candidate -> Project \cup {None}]
            BY <1>2 DEF TypeOK
        <3>2. ASSUME NEW c \in Candidate
              PROVE  [grant |-> [revision |-> sel[c].revision, token |-> claims'],
                      desired |-> sel[c].desired,
                      project |-> IF sel[c].desired \/ mapping[c].project = None
                                  THEN matched'[c] ELSE mapping[c].project] \in Mapping
            <4>1. sel[c].revision \in Nat /\ sel[c].desired \in BOOLEAN
                BY <1>2 DEF TypeOK, Selection
            <4>2. mapping[c].project \in Project \cup {None} /\ matched'[c] \in Project \cup {None}
                BY <1>1, <3>1 DEF Mapping
            <4> QED
                BY <3>1, <4>1, <4>2 DEF Mapping, Grant
        <3> QED
            BY <1>1, <2>1, <3>2 DEF Poll
    <2> QED
        BY <1>1, <2>1, Writers
<1>8. hand' \subseteq Work
    BY <1>2, HandStep DEF TypeOK, HandOK
<1>9. job' \in [step : Steps, work : Work, sent : SUBSET Commit]
    <2>1. Idle \in [step : Steps, work : Work, sent : SUBSET Commit]
        BY NothingToDo DEF Idle, Steps
    <2>2. CASE Poll \/ PollNothing
        BY <2>1, <2>2, NothingToDo DEF Poll, PollNothing, Idle, Steps
    <2>3. CASE Reconcile \/ AgentCrash \/ Report
        BY <2>1, <2>3 DEF Reconcile, AgentCrash, Report, Handled
    <2>4. CASE Install \/ RequestRefused \/ Remove \/ Purge \/ Complete \/ CompleteRefused \/ LoseAnswer
        BY <1>1, <2>1, <2>4 DEF Install, RequestRefused, Remove, Purge, Complete, CompleteRefused, LoseAnswer,
           GiveUp, Handled, Steps
    <2>5. CASE \E w \in hand : Start(w)
        BY <1>1, <2>5 DEF Start, Steps
    <2>6. CASE CommitTx
        BY <1>1, <2>6 DEF CommitTx, Heard, agent, Steps
    <2> QED
        BY <1>1, <2>2, <2>3, <2>4, <2>5, <2>6, Writers
<1>10. clones' \in [Candidate -> Project \cup {None}]
    <2>1. CASE Install
        <3>1. mapping[job.work.id].project \in Project \cup {None}
            BY <1>1, <2>1, AtWork DEF Install, At, Mapping
        <3> QED
            BY <1>1, <2>1, <3>1 DEF Install
    <2>2. CASE Reconcile \/ RequestRefused \/ Remove \/ Complete \/ CompleteRefused \/ LoseAnswer
        BY <1>1, <2>2 DEF Reconcile, RequestRefused, Remove, Complete, CompleteRefused, LoseAnswer, GiveUp,
           Handled
    <2> QED
        BY <1>1, <2>1, <2>2, Writers
<1>11. /\ queue' \subseteq [cand : Candidate, key : HookEvent \cup PushId, project : Project]
       /\ recorded' \subseteq [cand : Candidate, key : HookEvent \cup PushId]
       /\ recorded \subseteq recorded'
    <2>1. ASSUME NEW c \in Candidate, NEW k \in HookEvent \cup PushId, Hook(c, k)
          PROVE  /\ queue' \subseteq [cand : Candidate, key : HookEvent \cup PushId, project : Project]
                 /\ recorded' \subseteq [cand : Candidate, key : HookEvent \cup PushId]
                 /\ recorded \subseteq recorded'
        BY <1>1, <2>1 DEF Hook
    <2>2. CASE Reconcile \/ Purge \/ CommitTx
        BY <1>1, <2>2 DEF Reconcile, Purge, CommitTx, Heard, agent, ghosts
    <2> QED
        BY <1>1, <2>1, <2>2, Writers
<1>12. retired' \subseteq recorded'
    BY <1>1, <1>11, Writers DEF Complete, Recorded
<1> QED
    BY <1>2, <1>3, <1>4, <1>5, <1>6, <1>7, <1>8, <1>9, <1>10, <1>11, <1>12 DEF TelemetryTypeOK

-----------------------------------------------------------------------------
(* The invariant holds *)

LEMMA InitTInv == TelemetryInit => TInv
<1> SUFFICES ASSUME TelemetryInit PROVE TInv
    OBVIOUS
<1>1. TypeOK
    <2>1. \A p \in Project : remote[p] \in Key \cup {None}
        BY TelemetryAssumption DEF TelemetryInit
    <2>2. remote \in [Project -> Key \cup {None}]
        BY <2>1, TelemetryAssumption DEF TelemetryInit
    <2> QED
        BY <2>2 DEF TelemetryInit, TypeOK, NoSelection, Selection, Lease, NoRoot, Root, Scan, ScanState,
           NoPush, Push
<1>2. IndInv
    BY <1>1 DEF TelemetryInit, IndInv, TokensArePositive, CandidateOK, RevisionOrder, HeldIsBound,
       FreeHasNoToken, BoundBySelection, Acknowledged, Owed, InForce, NoSelection, NoRoot
<1>3. NoGrant \in Grant /\ NoMapping \in Mapping /\ Idle \in [step : Steps, work : Work, sent : SUBSET Commit]
    BY NothingToDo DEF NoGrant, Grant, NoMapping, Mapping, Idle, Steps
<1>4. TelemetryTypeOK
    BY <1>1, <1>3 DEF TelemetryInit, TelemetryTypeOK, NoTx
<1>5. TelemetryAgrees
    BY <1>4 DEF TelemetryInit, TelemetryAgrees, PushEventIsVerified, TrackingIsRegistered
<1>6. IssuedOK /\ HandOK /\ JobOK /\ TxOK /\ PushesOK /\ StopsOK /\ RetiredIsGone
    BY DEF TelemetryInit, IssuedOK, HandOK, JobOK, TxOK, PushesOK, StopsOK, RetiredIsGone, Selections, Idle,
       NoPush
<1>7. OneProject
    BY DEF TelemetryInit, OneProject, NoMapping
<1> QED
    BY <1>2, <1>5, <1>6, <1>7 DEF TInv

LEMMA TInvStep == TInv /\ [TelemetryNext]_all => TInv'
<1>1. ASSUME TInv, TelemetryNext PROVE TInv'
    BY <1>1, RowsStep, TypesStep, PushEventStep, TrackingStep, IssuedStep, HandStep, OneProjectStep, JobStep,
       TxStep, PushesStep, StopsStep, RetiredStep
    DEF TInv, TelemetryAgrees
<1>2. ASSUME TInv, UNCHANGED all PROVE TInv'
    <2> USE <1>2 DEF all, vars, telemetry, authority, candidates, clock, controls, records, agent, ghosts
    <2>1. IndInv' /\ TelemetryAgrees'
        BY DEF TInv, IndInv, TypeOK, TokensArePositive, CandidateOK, RevisionOrder, HeldIsBound,
           FreeHasNoToken, BoundBySelection, Acknowledged, Owed, InForce, TelemetryAgrees, TelemetryTypeOK,
           PushEventIsVerified, TrackingIsRegistered, CurrentGrant
    <2>2. IssuedOK' /\ HandOK' /\ OneProject' /\ JobOK' /\ PushesOK'
        BY DEF TInv, IssuedOK, HandOK, OneProject, JobOK, PushesOK, Selections
    <2>3. TxOK' /\ StopsOK' /\ RetiredIsGone'
        BY DEF TInv, TxOK, StopsOK, StopOK, ListedFor, RetiredIsGone, Gone, Selections, CurrentGrant
    <2> QED
        BY <2>1, <2>2, <2>3 DEF TInv
<1> QED
    BY <1>1, <1>2

\* What the portal checked for a request, and what the device knows of the work
\* in its hand, holds in every state of Telemetry.
THEOREM TelemetrySafety == TelemetrySpec => []TInv
BY InitTInv, TInvStep, PTL DEF TelemetrySpec

\* What the portal holds of a traced repository agrees with what the device was
\* told: a push event only for a push seen at the remote, and a registration
\* under the settled claim for every repository shown as tracking.
THEOREM TelemetryAgreement == TelemetrySpec => []TelemetryAgrees
<1>1. TInv => TelemetryAgrees
    BY DEF TInv
<1> QED
    BY TelemetrySafety, <1>1, PTL

-----------------------------------------------------------------------------
(* Stop means stop *)

LEMMA PauseStep == TInv /\ [TelemetryNext]_all => \A e \in events' \ events : ~paused[e.project]
<1> SUFFICES ASSUME TInv, [TelemetryNext]_all, NEW e \in events' \ events PROVE ~paused[e.project]
    OBVIOUS
<1>1. TelemetryNext
    BY DEF all, telemetry, records
<1>2. tx # NoTx /\ tx.op \in {"activity", "confirm"} /\ e.project = tx.project
    BY <1>1, EventWriters DEF Activity, ConfirmPush
<1> QED
    BY <1>2 DEF TInv, TxOK

LEMMA RevokeStep ==
    TInv /\ [TelemetryNext]_all =>
        \A c \in Candidate : ~root[c].approved =>
            /\ \A e \in events' \ events : e.cand # c
            /\ registered'[c] = registered[c]
<1> SUFFICES ASSUME TInv, [TelemetryNext]_all, NEW c \in Candidate, ~root[c].approved
             PROVE  /\ \A e \in events' \ events : e.cand # c
                    /\ registered'[c] = registered[c]
    OBVIOUS
<1>1. CASE TelemetryNext
    <2>1. tx # NoTx => tx.cand # c
        BY InTx
    <2> QED
        BY <1>1, <2>1, EventWriters, Registrations
<1>2. CASE UNCHANGED all
    BY <1>2 DEF all, telemetry, records
<1> QED
    BY <1>1, <1>2

LEMMA RetireStep ==
    TInv /\ [TelemetryNext]_all =>
        \A e \in retired :
            /\ Announced(e, push') => Announced(e, push)
            /\ e \in delivered' => e \in delivered \/ Announced(e, push)
<1> SUFFICES ASSUME TInv, [TelemetryNext]_all, NEW e \in retired, ~Announced(e, push)
             PROVE  ~Announced(e, push') /\ (e \in delivered' => e \in delivered)
    OBVIOUS
<1>1. CASE UNCHANGED all
    BY <1>1 DEF all, vars, telemetry, records
<1>2. CASE TelemetryNext
    <2>1. ~Announced(e, push')
        <3> SUFFICES ASSUME Announced(e, push') PROVE FALSE
            OBVIOUS
        <3>1. e.key \in PushId /\ push'[e.key].status # "none" /\ push'[e.key].candidate = e.cand
            BY DEF Announced
        <3>2. /\ AnnouncePush /\ tx.key = e.key /\ tx.cand = e.cand /\ push[e.key].status = "none"
            BY <1>2, <3>1, PushWriters DEF Announced
        <3>3. e \notin delivered
            BY <3>1, <3>2 DEF TInv, TelemetryAgrees, PushEventIsVerified
        <3>4. Gone(e)
            BY <3>3 DEF TInv, RetiredIsGone
        <3> QED
            BY <3>2, <3>4 DEF Gone, AnnouncePush
    <2>2. ASSUME e \in delivered', e \notin delivered PROVE FALSE
        <3>1. /\ tx # NoTx /\ (Activity \/ ConfirmPush) /\ e = [cand |-> tx.cand, key |-> tx.key]
            BY <1>2, <2>2, Deliveries
        <3>2. Gone(e)
            BY <2>2 DEF TInv, RetiredIsGone
        <3>3. tx.op = "confirm"
            BY <3>1, <3>2 DEF Gone, Activity, ConfirmPush
        <3> QED
            BY <3>1, <3>3 DEF TInv, TxOK, Announced
    <2> QED
        BY <2>1, <2>2
<1> QED
    BY <1>1, <1>2

\* Once the owner paused or wiped, or the root is withdrawn, nothing more is
\* stored, whatever was under way.  Once the device has acknowledged a stop,
\* nothing its hooks had recorded and still held is stored or announced; what
\* escapes is a push announced before, and what LeftBehind names.
THEOREM Quiet == TelemetrySpec => StopMeansQuiet
BY TelemetrySafety, PauseStep, RevokeStep, RetireStep, PTL
DEF TelemetrySpec, StopMeansQuiet, PausedMeansQuiet, RevokedRootIsQuiet, AcknowledgedStopIsFinal

-----------------------------------------------------------------------------
(* The queue *)

LEMMA QueueStep == TInv /\ [TelemetryNext]_all => \A e \in queue \ queue' : Has(e) \/ clones'[e.cand] = None
<1> SUFFICES ASSUME TInv, [TelemetryNext]_all, NEW e \in queue, e \notin queue'
             PROVE  Has(e) \/ clones'[e.cand] = None
    OBVIOUS
<1>1. TelemetryNext
    BY DEF all, telemetry, agent
<1>2. e.cand \in Candidate /\ e.key \in HookEvent \cup PushId /\ e.project \in access
    BY DEF TInv, TelemetryAgrees, TelemetryTypeOK, OneProject
<1>3. CASE Reconcile
    <2>1. e.project \notin Workspaces
        BY <1>3 DEF Reconcile
    <2>2. clones[e.cand] = None \/ clones[e.cand] = e.project
        BY <1>2 DEF TInv, OneProject
    <2> QED
        BY <1>2, <1>3, <2>1, <2>2 DEF Reconcile
<1>4. CASE Purge
    BY <1>4 DEF Purge, At, TInv, JobOK
<1>5. CASE CommitTx
    <2>1. tx # NoTx /\ tx.op # "confirm" /\ e.cand = tx.cand /\ e.key = tx.key
        BY <1>5 DEF CommitTx, Heard, agent
    <2>2. tx.op # "register"
        BY <1>2, <2>1, TelemetryAssumption DEF TInv, TxOK
    <2>3. CASE Activity
        <3>1. e.key \notin PushId
            BY <2>1, <2>3, TelemetryAssumption DEF Activity, TInv, TxOK
        <3> QED
            BY <2>1, <2>3, <3>1 DEF Activity, Stored, Has
    <2>4. CASE AnnouncePush
        <3>1. e.key \in PushId
            BY <2>1, <2>4 DEF AnnouncePush, TInv, TxOK
        <3>2. push'[e.key].status # "none"
            BY <1>1, <2>1, <2>4, <3>1 DEF AnnouncePush, TInv, IndInv, TypeOK
        <3> QED
            BY <3>1, <3>2 DEF Has
    <2> QED
        BY <1>5, <2>1, <2>2, <2>3, <2>4 DEF CommitTx, Register, ConfirmPush
<1> QED
    BY <1>1, <1>3, <1>4, <1>5, Writers DEF Hook

\* No answer that never came, crash or reconciliation loses an event of a
\* clone that is still traced.
THEOREM Durable == TelemetrySpec => QueueIsDurable
BY TelemetrySafety, QueueStep, PTL DEF TelemetrySpec, QueueIsDurable

=============================================================================
