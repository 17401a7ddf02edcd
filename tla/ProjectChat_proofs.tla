------------------------ MODULE ProjectChat_proofs ------------------------
(***************************************************************************)
(* Proofs about ProjectChat: the types, the locks of first transactions,   *)
(* the uniqueness of live paths and the audit trail of files and progress. *)
(* The second half is about BackendSlots, the other state machine of       *)
(* lib/project-chat.ts, for every number of calls, slots, places and       *)
(* attempts.                                                               *)
(***************************************************************************)
EXTENDS ProjectChat, BackendSlots, FiniteSetTheorems, SequenceTheorems, WellFoundedInduction, TLAPS

-----------------------------------------------------------------------------
(* The inductive invariant *)

\* Only first transactions hold path locks, and no two hold the same.  They
\* know the canonical path of every lock they hold: it is missing, or taken.
LocksOK(t) ==
    /\ phase[t] # "bootstrap" => locked[t] = {} /\ missing[t] = {}
    /\ \A u \in Turn : \A i \in locked[t] : i \in locked[u] => t = u
    /\ \A p \in missing[t] : \E i \in locked[t] : p = Canonical[i]
    /\ \A i \in locked[t] : Canonical[i] \in missing[t] \/ Taken(Canonical[i])

Locks == \A t \in Turn : LocksOK(t)

\* The part of the audit trail that is about one file.
Audited(f) ==
    /\ versions[f] = 1..head[f].version
    /\ head[f].version > 0 => OnePerVersion(EditsOf(f), head[f].version)
    /\ head[f].version = 0 => EditsOf(f) = {}

IndInv ==
    /\ TypeOK
    /\ Locks
    /\ BootstrapIsUndisturbed
    /\ LivePathsUnique
    /\ FilesAreAudited
    /\ ProgressIsAudited

-----------------------------------------------------------------------------
(* Proposals *)

LEMMA CreateFields ==
    ASSUME NEW r \in Create
    PROVE  r.type = "create_file" /\ r.file \in File /\ r.path \in Path
BY DEF Create

LEMMA EditFields ==
    ASSUME NEW r \in Edit
    PROVE  /\ r.type \in {"update_file", "delete_file", "rename_file"}
           /\ r.file \in File
           /\ r.basis \in 1..MaxVersion
           /\ r.type = "rename_file" => r.path \in Path
BY DEF Edit

LEMMA ReportFields ==
    ASSUME NEW r \in Report
    PROVE  /\ r.type = "update_project_progress"
           /\ r.basis \in 1..MaxVersion
           /\ r.percent \in Percent
BY DEF Report

LEMMA NoInputIsNoProposal == NoInput \notin Create /\ NoInput \notin Edit /\ NoInput \notin Report
<1>1. NoInput.type = "none"
    BY DEF NoInput
<1> QED
    BY <1>1, CreateFields, EditFields, ReportFields

LEMMA KindsDiffer ==
    ASSUME NEW r \in Proposal
    PROVE  /\ r.type = "create_file" => r \in Create /\ r \notin Edit /\ r \notin Report
           /\ r \in Edit => r \notin Report
BY CreateFields, EditFields, ReportFields DEF Proposal

-----------------------------------------------------------------------------
(* Creation of files, by a first transaction or with a response *)

CreateFiles(N, path) ==
    /\ N \subseteq UnusedFile
    /\ path \in [N -> Path]
    /\ \A f, g \in N : path[f] = path[g] => f = g
    /\ \A f \in N : ~Taken(path[f])
    /\ head' = [f \in File |-> IF f \in N THEN Document(path[f]) ELSE head[f]]
    /\ versions' = [f \in File |-> IF f \in N THEN {1} ELSE versions[f]]

LEMMA DocumentFields ==
    ASSUME NEW p \in Path
    PROVE  /\ Document(p) \in FileHead
           /\ Document(p).version = 1 /\ Document(p).path = p /\ Document(p).deleted = FALSE
BY DEF Document, FileHead

\* A head is a row of the table, or the file has no row.
LEMMA HeadFields ==
    ASSUME TypeOK, NEW f \in File
    PROVE  /\ head[f].version \in Nat /\ head[f].deleted \in BOOLEAN
           /\ head[f].version > 0 => head[f] \in FileHead /\ head[f].path \in Path
           /\ head[f].version = 0 => head[f].deleted = FALSE
           /\ Live(f) => head[f].path \in Path
<1>1. head[f] \in FileHead \/ head[f] = NoHead
    BY DEF TypeOK
<1>2. CASE head[f] \in FileHead
    BY <1>2 DEF FileHead, Live
<1>3. CASE head[f] = NoHead
    <2>1. head[f].version = 0 /\ head[f].deleted = FALSE
        BY <1>3 DEF NoHead
    <2>2. ~(head[f].version > 0) /\ head[f].version \in Nat
        BY <2>1
    <2> QED
        BY <2>1, <2>2 DEF Live
<1> QED
    BY <1>1, <1>2, <1>3

LEMMA CreatedTypes ==
    ASSUME TypeOK, NEW N, NEW path, CreateFiles(N, path)
    PROVE  head' \in [File -> FileHead \cup {NoHead}] /\ versions' \in [File -> SUBSET Nat]
<1>1. \A f \in N : Document(path[f]) \in FileHead
    BY DocumentFields DEF CreateFiles
<1> QED
    BY <1>1 DEF CreateFiles, TypeOK

LEMMA CreatedLive ==
    ASSUME TypeOK, NEW N, NEW path, CreateFiles(N, path), NEW f \in File
    PROVE  /\ Live(f)' <=> (Live(f) \/ f \in N)
           /\ f \in N => head'[f].path = path[f] /\ ~Live(f)
           /\ f \notin N => head'[f] = head[f]
<1>1. CASE f \in N
    <2>1. head'[f] = Document(path[f]) /\ path[f] \in Path /\ head[f].version = 0
        BY <1>1 DEF CreateFiles, UnusedFile
    <2>2. head'[f].version = 1 /\ head'[f].path = path[f] /\ head'[f].deleted = FALSE
        BY <2>1, DocumentFields
    <2>3. Live(f)' /\ ~Live(f)
        BY <2>1, <2>2 DEF Live
    <2> QED
        BY <1>1, <2>2, <2>3
<1>2. CASE f \notin N
    BY <1>2 DEF CreateFiles, Live
<1> QED
    BY <1>1, <1>2

LEMMA CreatedTaken ==
    ASSUME TypeOK, NEW N, NEW path, CreateFiles(N, path), NEW p
    PROVE  Taken(p)' <=> (Taken(p) \/ \E f \in N : path[f] = p)
<1>1. N \subseteq File
    BY DEF CreateFiles, UnusedFile
<1>2. ASSUME Taken(p)' PROVE Taken(p) \/ \E f \in N : path[f] = p
    <2>1. PICK f \in File : Live(f)' /\ head'[f].path = p
        BY <1>2 DEF Taken
    <2> QED
        BY <2>1, CreatedLive DEF Taken
<1>3. ASSUME Taken(p) PROVE Taken(p)'
    <2>1. PICK f \in File : Live(f) /\ head[f].path = p
        BY <1>3 DEF Taken
    <2>2. Live(f)' /\ head'[f].path = p
        BY <2>1, CreatedLive
    <2> QED
        BY <2>2 DEF Taken
<1>4. ASSUME NEW f \in N, path[f] = p PROVE Taken(p)'
    <2>1. Live(f)' /\ head'[f].path = p
        BY <1>1, <1>4, CreatedLive
    <2> QED
        BY <1>1, <2>1 DEF Taken
<1> QED
    BY <1>2, <1>3, <1>4

LEMMA CreatedUnique ==
    ASSUME TypeOK, LivePathsUnique, NEW N, NEW path, CreateFiles(N, path)
    PROVE  LivePathsUnique'
<1> SUFFICES ASSUME NEW f \in File, NEW g \in File, Live(f)', Live(g)', head'[f].path = head'[g].path
             PROVE  f = g
    BY DEF LivePathsUnique
<1>1. CASE f \in N /\ g \in N
    <2>1. path[f] = path[g]
        BY <1>1, CreatedLive
    <2> QED
        BY <1>1, <2>1 DEF CreateFiles
<1>2. ASSUME NEW h \in N, NEW k \in File \ N, h \in File, Live(k)' PROVE head'[h].path # head'[k].path
    <2>1. Live(k) /\ head'[k].path = head[k].path /\ head'[h].path = path[h]
        BY <1>2, CreatedLive
    <2>2. ~Taken(path[h])
        BY DEF CreateFiles
    <2> QED
        BY <2>1, <2>2 DEF Taken
<1>3. CASE f \notin N /\ g \notin N
    <2>1. Live(f) /\ Live(g) /\ head[f].path = head[g].path
        BY <1>3, CreatedLive
    <2> QED
        BY <2>1 DEF LivePathsUnique
<1> QED
    BY <1>1, <1>2, <1>3

\* A new file has its first version and no edits.
LEMMA CreatedAudited ==
    ASSUME TypeOK, FilesAreAudited, NEW N, NEW path, CreateFiles(N, path),
           \A f \in File : EditsOf(f)' = EditsOf(f),
           \A f \in File : \A a \in EditsOf(f) : input'[a] = input[a]
    PROVE  FilesAreAudited'
<1> SUFFICES ASSUME NEW f \in File PROVE Audited(f)'
    BY DEF FilesAreAudited, Audited
<1>1. Audited(f)
    BY DEF FilesAreAudited, Audited
<1>2. CASE f \in N
    <2>1. /\ head'[f].version = 1 /\ versions'[f] = {1} /\ head[f].version = 0
        BY <1>2, DocumentFields DEF CreateFiles, UnusedFile
    <2>2. EditsOf(f)' = {}
        BY <1>1, <2>1 DEF Audited
    <2>3. {1} = 1..1 /\ {} = 1..(1 - 1)
        OBVIOUS
    <2> QED
        BY <2>1, <2>2, <2>3 DEF Audited, OnePerVersion
<1>3. CASE f \notin N
    <2>1. head'[f] = head[f] /\ versions'[f] = versions[f]
        BY <1>3 DEF CreateFiles
    <2> QED
        BY <1>1, <2>1 DEF Audited, OnePerVersion
<1> QED
    BY <1>2, <1>3

-----------------------------------------------------------------------------
(* The initial states *)

LEMMA CanonicalPaths == \A i \in DOMAIN Canonical : Canonical[i] \in Path
BY ProjectChatAssumption, ElementOfSeq, LenProperties DEF Canonical

\* The files of a new project are its documents, one per canonical path.
Documents(N, path) ==
    /\ N \subseteq File /\ path \in [N -> Path]
    /\ \A f, g \in N : path[f] = path[g] => f = g
    /\ \A f \in N : head[f] = Document(path[f]) /\ versions[f] = {1}
    /\ \A f \in File \ N : head[f] = NoHead /\ versions[f] = {}

LEMMA InitDocuments == Init => \E N, path : Documents(N, path)
<1> SUFFICES ASSUME Init PROVE \E N, path : Documents(N, path)
    OBVIOUS
<1>1. PICK docs \in {{}, DOMAIN Canonical} : \E name \in [docs -> File] :
        /\ \A i, j \in docs : name[i] = name[j] => i = j
        /\ head = [f \in File |-> IF \E i \in docs : name[i] = f
                                   THEN Document(Canonical[CHOOSE i \in docs : name[i] = f])
                                   ELSE NoHead]
        /\ versions = [f \in File |-> IF \E i \in docs : name[i] = f THEN {1} ELSE {}]
    BY DEF Init
<1>2. PICK name \in [docs -> File] :
        /\ \A i, j \in docs : name[i] = name[j] => i = j
        /\ head = [f \in File |-> IF \E i \in docs : name[i] = f
                                   THEN Document(Canonical[CHOOSE i \in docs : name[i] = f])
                                   ELSE NoHead]
        /\ versions = [f \in File |-> IF \E i \in docs : name[i] = f THEN {1} ELSE {}]
    BY <1>1
<1> DEFINE N == {name[i] : i \in docs}
           at(f) == CHOOSE i \in docs : name[i] = f
           path == [f \in N |-> Canonical[at(f)]]
<1>3. \A f \in N : at(f) \in docs /\ name[at(f)] = f /\ at(f) \in DOMAIN Canonical
    BY <1>1
<1>4. N \subseteq File /\ path \in [N -> Path]
    BY <1>3, CanonicalPaths
<1>5. ASSUME NEW f \in N, NEW g \in N, path[f] = path[g] PROVE f = g
    <2>1. at(f) = at(g)
        BY <1>3, <1>5, ProjectChatAssumption
    <2> QED
        BY <1>3, <2>1
<1>6. ASSUME NEW f \in File
      PROVE  /\ f \in N => head[f] = Document(path[f]) /\ versions[f] = {1}
             /\ f \notin N => head[f] = NoHead /\ versions[f] = {}
    <2>1. (\E i \in docs : name[i] = f) <=> f \in N
        OBVIOUS
    <2>2. head[f] = IF \E i \in docs : name[i] = f THEN Document(Canonical[at(f)]) ELSE NoHead
        BY <1>2
    <2>3. versions[f] = IF \E i \in docs : name[i] = f THEN {1} ELSE {}
        BY <1>2
    <2>4. f \in N => path[f] = Canonical[at(f)]
        OBVIOUS
    <2> HIDE DEF N, at, path
    <2> QED
        BY <2>1, <2>2, <2>3, <2>4
<1> HIDE DEF N, path
<1>7. Documents(N, path)
    BY <1>4, <1>5, <1>6 DEF Documents
<1> QED
    BY <1>7

LEMMA InitIndInv == Init => IndInv
<1>1. ASSUME Init PROVE IndInv
    <2>1. PICK N, path : Documents(N, path)
        BY <1>1, InitDocuments
    <2>2. ASSUME NEW f \in N
          PROVE  /\ f \in File /\ path[f] \in Path /\ versions[f] = {1} /\ head[f] \in FileHead
                 /\ head[f].version = 1 /\ head[f].path = path[f]
        <3>1. f \in File /\ path[f] \in Path /\ versions[f] = {1} /\ head[f] = Document(path[f])
            BY <2>1 DEF Documents
        <3> QED
            BY <3>1, DocumentFields
    <2>3. ASSUME NEW f \in File \ N
          PROVE  head[f] = NoHead /\ head[f].version = 0 /\ versions[f] = {} /\ ~Live(f)
        <3>1. head[f] = NoHead /\ versions[f] = {}
            BY <2>1 DEF Documents
        <3>2. head[f].version = 0 /\ ~(0 > 0)
            BY <3>1 DEF NoHead
        <3> QED
            BY <3>1, <3>2 DEF Live
    <2>4. TypeOK
        <3>1. head \in [File -> FileHead \cup {NoHead}] /\ versions \in [File -> SUBSET Nat]
            <4>1. head = [f \in File |-> head[f]] /\ versions = [f \in File |-> versions[f]]
                BY <1>1 DEF Init
            <4>2. \A f \in File : head[f] \in FileHead \cup {NoHead} /\ versions[f] \in SUBSET Nat
                BY <2>2, <2>3
            <4> QED
                BY <4>1, <4>2
        <3>2. progress \in Progress
            BY <1>1 DEF Init, Progress
        <3> QED
            BY <1>1, <3>1, <3>2 DEF Init, TypeOK
    <2>5. Locks /\ BootstrapIsUndisturbed
        BY <1>1 DEF Init, Locks, LocksOK, BootstrapIsUndisturbed
    <2>6. LivePathsUnique
        BY <2>1, <2>2, <2>3 DEF LivePathsUnique, Documents
    <2>7. \A type : Confirmed(type) = {}
        BY <1>1 DEF Init, Confirmed
    <2>8. {1} = 1..1 /\ {} = 1..0 /\ 1 - 1 = 0 /\ ~(0 > 0)
        OBVIOUS
    <2>9. ASSUME NEW f \in File PROVE Audited(f)
        <3>1. EditsOf(f) = {}
            BY <2>7 DEF EditsOf
        <3>2. CASE f \in N
            BY <2>2, <2>8, <3>1, <3>2 DEF Audited, OnePerVersion
        <3>3. CASE f \notin N
            BY <2>3, <2>8, <3>1, <3>3 DEF Audited
        <3> QED
            BY <3>2, <3>3
    <2>10. FilesAreAudited
        BY <2>9 DEF FilesAreAudited, Audited
    <2>11. ProgressIsAudited
        BY <1>1, <2>7, <2>8 DEF Init, ProgressIsAudited, OnePerVersion
    <2> QED
        BY <2>4, <2>5, <2>6, <2>10, <2>11 DEF IndInv
<1> QED
    BY <1>1

-----------------------------------------------------------------------------
(* First transactions *)

\* A step that leaves files, actions and progress alone.
LEMMA DataKept ==
    ASSUME IndInv, UNCHANGED <<progress, files, actions>>
    PROVE  /\ LivePathsUnique' /\ FilesAreAudited' /\ ProgressIsAudited'
           /\ \A p : Taken(p)' <=> Taken(p)
BY DEF IndInv, files, actions, LivePathsUnique, FilesAreAudited, ProgressIsAudited, Live, Taken,
       OnePerVersion, EditsOf, Confirmed

LEMMA BeginOK ==
    ASSUME IndInv, NEW t \in Turn, BeginTurn(t)
    PROVE  IndInv'
<1>1. TypeOK' /\ phase' = [phase EXCEPT ![t] = "bootstrap"] /\ phase \in [Turn -> {"idle", "bootstrap", "thinking"}]
    BY DEF IndInv, TypeOK, BeginTurn, project, files, actions
<1>2. phase[t] = "idle" /\ UNCHANGED <<progress, files, actions, locked, missing>>
    BY DEF BeginTurn, project
<1>3. locked[t] = {} /\ missing[t] = {}
    BY <1>2 DEF IndInv, Locks, LocksOK
<1>4. Locks' /\ BootstrapIsUndisturbed'
    BY <1>1, <1>2, <1>3, DataKept DEF IndInv, Locks, LocksOK, BootstrapIsUndisturbed
<1> QED
    BY <1>1, <1>2, <1>4, DataKept DEF IndInv

LEMMA LockPathOK ==
    ASSUME IndInv, NEW t \in Turn, NEW i \in DOMAIN Canonical, LockPath(t, i)
    PROVE  IndInv'
<1>1. /\ phase[t] = "bootstrap" /\ UNCHANGED <<progress, files, actions, phase>>
      /\ locked' = [locked EXCEPT ![t] = @ \cup {i}]
      /\ missing' = [missing EXCEPT ![t] = IF Taken(Canonical[i]) THEN @ ELSE @ \cup {Canonical[i]}]
      /\ \A u \in Turn : i \notin locked[u]
    BY DEF LockPath, NextPath, project
<1>2. TypeOK'
    BY CanonicalPaths DEF IndInv, TypeOK, LockPath, project, files, actions
<1>3. locked \in [Turn -> SUBSET DOMAIN Canonical] /\ missing \in [Turn -> SUBSET Path]
    BY DEF IndInv, TypeOK
<1>4. ASSUME NEW u \in Turn PROVE LocksOK(u)'
    <2>1. \A v \in Turn : LocksOK(v)
        BY DEF IndInv, Locks
    <2>2. CASE u = t
        <3>1. /\ locked'[t] = locked[t] \cup {i}
              /\ missing'[t] = IF Taken(Canonical[i]) THEN missing[t] ELSE missing[t] \cup {Canonical[i]}
              /\ \A v \in Turn : v # t => locked'[v] = locked[v]
            BY <1>1, <1>3
        <3> QED
            BY <1>1, <2>1, <2>2, <3>1, DataKept DEF LocksOK
    <2>3. CASE u # t
        <3>1. locked'[u] = locked[u] /\ missing'[u] = missing[u]
            BY <1>1, <1>3, <2>3
        <3>2. \A v \in Turn : \A j \in locked[u] : j \in locked'[v] => j \in locked[v]
            BY <1>1, <1>3
        <3> QED
            BY <1>1, <2>1, <3>1, <3>2, DataKept DEF LocksOK
    <2> QED
        BY <2>2, <2>3
<1>5. BootstrapIsUndisturbed'
    BY <1>1, <1>3, DataKept DEF IndInv, BootstrapIsUndisturbed
<1> QED
    BY <1>1, <1>2, <1>4, <1>5, DataKept DEF IndInv, Locks

LEMMA FailOK ==
    ASSUME IndInv, NEW t \in Turn, FailTurn(t)
    PROVE  IndInv'
<1>1. /\ UNCHANGED <<progress, files, actions>> /\ phase' = [phase EXCEPT ![t] = "idle"]
      /\ locked' = [locked EXCEPT ![t] = {}] /\ missing' = [missing EXCEPT ![t] = {}]
    BY DEF FailTurn, project
<1>2. TypeOK'
    BY DEF IndInv, TypeOK, FailTurn, project, files, actions
<1>3. TypeOK
    BY DEF IndInv
<1>4. /\ phase'[t] = "idle" /\ locked'[t] = {} /\ missing'[t] = {}
      /\ \A u \in Turn : u # t => phase'[u] = phase[u] /\ locked'[u] = locked[u] /\ missing'[u] = missing[u]
    BY <1>1, <1>3 DEF TypeOK
<1>5. Locks' /\ BootstrapIsUndisturbed'
    BY <1>1, <1>4, DataKept DEF IndInv, Locks, LocksOK, BootstrapIsUndisturbed
<1> QED
    BY <1>1, <1>2, <1>5, DataKept DEF IndInv

\* The documents it creates are the ones it found missing.
Names(t, name) ==
    /\ name \in [missing[t] -> UnusedFile]
    /\ \A p, q \in missing[t] : name[p] = name[q] => p = q
    /\ head' = [f \in File |->
                  IF \E p \in missing[t] : name[p] = f
                  THEN Document(CHOOSE p \in missing[t] : name[p] = f)
                  ELSE head[f]]
    /\ versions' = [f \in File |->
                      IF \E p \in missing[t] : name[p] = f THEN {1} ELSE versions[f]]

LEMMA CommitCreates ==
    ASSUME IndInv, NEW t \in Turn, CommitBootstrap(t)
    PROVE  \E N, path : CreateFiles(N, path) /\ {path[f] : f \in N} = missing[t]
<1>1. PICK M : M = missing[t] /\ M \subseteq Path
    BY DEF IndInv, TypeOK
<1>2. PICK name : Names(t, name)
    BY DEF CommitBootstrap, Names
<1> DEFINE N == {name[p] : p \in M}
           at(f) == CHOOSE p \in M : name[p] = f
           path == [f \in N |-> at(f)]
<1>3. \A f \in N : at(f) \in M /\ name[at(f)] = f /\ path[f] = at(f)
    OBVIOUS
<1>4. \A p \in M : name[p] \in N /\ path[name[p]] = p
    <2> TAKE p \in M
    <2>1. name[p] \in N
        OBVIOUS
    <2>2. \A q \in M : name[p] = name[q] => p = q
        BY <1>1, <1>2 DEF Names
    <2>3. at(name[p]) = p
        BY <1>3, <2>1, <2>2
    <2> QED
        BY <1>3, <2>1, <2>3
<1>5. N \subseteq UnusedFile
    BY <1>1, <1>2 DEF Names
<1>6. path \in [N -> Path]
    BY <1>1, <1>3
<1>7. \A f \in File : /\ (\E p \in missing[t] : name[p] = f) <=> f \in N
                      /\ f \in N => (CHOOSE p \in missing[t] : name[p] = f) = path[f]
    BY <1>1, <1>3
<1>8. {path[f] : f \in N} = missing[t]
    <2>1. \A f \in N : path[f] \in M
        BY <1>3
    <2> HIDE DEF N, path, at
    <2> QED
        BY <1>1, <1>4, <2>1
<1>9. \A f, g \in N : path[f] = path[g] => f = g
    BY <1>3
<1>10. \A f \in N : ~Taken(path[f])
    BY <1>1, <1>3 DEF CommitBootstrap
<1> HIDE DEF N, path, at
<1>11. /\ head' = [f \in File |-> IF f \in N THEN Document(path[f]) ELSE head[f]]
       /\ versions' = [f \in File |-> IF f \in N THEN {1} ELSE versions[f]]
    <2>1. \A f \in File :
            /\ (IF \E p \in missing[t] : name[p] = f
                THEN Document(CHOOSE p \in missing[t] : name[p] = f) ELSE head[f])
               = (IF f \in N THEN Document(path[f]) ELSE head[f])
            /\ (IF \E p \in missing[t] : name[p] = f THEN {1} ELSE versions[f])
               = (IF f \in N THEN {1} ELSE versions[f])
        BY <1>7
    <2> QED
        BY <1>2, <2>1 DEF Names
<1>12. CreateFiles(N, path)
    BY <1>5, <1>6, <1>9, <1>10, <1>11 DEF CreateFiles
<1> QED
    BY <1>8, <1>12

LEMMA CommitOK ==
    ASSUME IndInv, NEW t \in Turn, CommitBootstrap(t)
    PROVE  IndInv' /\ \A i \in DOMAIN Canonical : Taken(Canonical[i])'
<1> USE DEF IndInv
<1>1. PICK N, path : CreateFiles(N, path) /\ {path[f] : f \in N} = missing[t]
    BY CommitCreates
<1>2. /\ phase[t] = "bootstrap" /\ locked[t] = DOMAIN Canonical
      /\ phase' = [phase EXCEPT ![t] = "thinking"]
      /\ locked' = [locked EXCEPT ![t] = {}] /\ missing' = [missing EXCEPT ![t] = {}]
      /\ UNCHANGED <<project, actions>>
    BY DEF CommitBootstrap, Checked
<1>3. TypeOK'
    BY <1>1, <1>2, CreatedTypes DEF TypeOK, project, actions
<1>4. /\ phase'[t] = "thinking" /\ locked'[t] = {} /\ missing'[t] = {}
      /\ \A u \in Turn : u # t => phase'[u] = phase[u] /\ locked'[u] = locked[u] /\ missing'[u] = missing[u]
    BY <1>2 DEF TypeOK
<1>5. \A p : Taken(p)' <=> (Taken(p) \/ p \in missing[t])
    <2> TAKE p
    <2>1. Taken(p)' <=> (Taken(p) \/ \E f \in N : path[f] = p)
        BY <1>1, CreatedTaken
    <2> QED
        BY <1>1, <2>1
<1>6. \A u \in Turn : LocksOK(u)
    BY DEF Locks
<1>7. ASSUME NEW u \in Turn PROVE LocksOK(u)'
    <2>1. CASE u = t
        BY <1>4, <2>1 DEF LocksOK
    <2>2. CASE u # t
        BY <1>4, <1>5, <1>6, <2>2 DEF LocksOK
    <2> QED
        BY <2>1, <2>2
<1>8. BootstrapIsUndisturbed'
    <2> SUFFICES ASSUME NEW u \in Turn, phase'[u] = "bootstrap", NEW p \in missing'[u]
                 PROVE  ~Taken(p)'
        BY DEF BootstrapIsUndisturbed
    <2>1. u # t /\ phase[u] = "bootstrap" /\ p \in missing[u] /\ ~Taken(p)
        BY <1>4 DEF BootstrapIsUndisturbed
    <2>2. PICK i \in locked[u] : p = Canonical[i]
        BY <1>6, <2>1 DEF LocksOK
    <2>3. ASSUME p \in missing[t] PROVE FALSE
        <3>1. PICK j \in locked[t] : p = Canonical[j]
            BY <1>6, <2>3 DEF LocksOK
        <3>2. i = j
            BY <2>2, <3>1, ProjectChatAssumption DEF TypeOK
        <3> QED
            BY <1>6, <2>1, <2>2, <3>1, <3>2 DEF LocksOK
    <2> QED
        BY <1>5, <2>1, <2>3
<1>9. LivePathsUnique'
    BY <1>1, CreatedUnique
<1>10. FilesAreAudited' /\ ProgressIsAudited'
    <2>1. \A f \in File : EditsOf(f)' = EditsOf(f) /\ \A a \in EditsOf(f) : input'[a] = input[a]
        BY <1>2 DEF EditsOf, Confirmed, actions
    <2>2. ProgressIsAudited'
        BY <1>2 DEF ProgressIsAudited, OnePerVersion, Confirmed, actions, project
    <2> QED
        BY <1>1, <2>1, <2>2, CreatedAudited
<1>11. \A i \in DOMAIN Canonical : Taken(Canonical[i])'
    BY <1>2, <1>5, <1>6 DEF LocksOK
<1> QED
    BY <1>3, <1>7, <1>8, <1>9, <1>10, <1>11 DEF Locks

-----------------------------------------------------------------------------
(* Transactions that lock the project for update *)

\* No first transaction runs while they do.
LEMMA Excluded ==
    ASSUME IndInv, ProjectLock, UNCHANGED <<locked, missing>>,
           \A t \in Turn : phase'[t] # "bootstrap"
    PROVE  Locks' /\ BootstrapIsUndisturbed'
BY DEF IndInv, Locks, LocksOK, ProjectLock, BootstrapIsUndisturbed

LEMMA SubmitCreates ==
    ASSUME IndInv, NEW t \in Turn, NEW rows \in SUBSET UnusedAction, NEW response \in [rows -> Proposal],
           SubmitProjectChat(t, response)
    PROVE  \E N, path : CreateFiles(N, path)
<1> DEFINE created == Creations(response)
           N == {response[a].file : a \in created}
           by(f) == CHOOSE a \in created : response[a].file = f
           path == [f \in N |-> response[by(f)].path]
<1>1. \A a \in created : /\ a \in rows /\ response[a] \in Create
                         /\ response[a].file \in UnusedFile /\ response[a].path \in Path
                         /\ PathAvailable(response[a].file, response[a].path)
    <2> TAKE a \in created
    <2>1. a \in rows /\ response[a] \in Proposal /\ response[a].type = "create_file"
        BY DEF Creations
    <2>2. response[a] \in Create
        BY <2>1, KindsDiffer
    <2> QED
        BY <2>1, <2>2, CreateFields DEF SubmitProjectChat
<1>2. \A a, b \in created : response[a].file = response[b].file \/ response[a].path = response[b].path => a = b
    BY DEF SubmitProjectChat
<1>3. \A f \in N : by(f) \in created /\ response[by(f)].file = f /\ path[f] = response[by(f)].path
    OBVIOUS
<1>4. N \subseteq UnusedFile
    BY <1>1
<1>5. path \in [N -> Path]
    BY <1>1, <1>3
<1>6. \A f, g \in N : path[f] = path[g] => f = g
    BY <1>2, <1>3
<1>7. \A f \in N : ~Taken(path[f])
    <2> TAKE f \in N
    <2>1. f \in UnusedFile /\ PathAvailable(f, path[f])
        BY <1>1, <1>3
    <2>2. ~Live(f)
        BY <2>1 DEF UnusedFile, Live
    <2> QED
        BY <2>1, <2>2 DEF PathAvailable, Taken
<1>8. \A f \in File : /\ (\E a \in created : response[a].file = f) <=> f \in N
                      /\ f \in N => response[CHOOSE a \in created : response[a].file = f].path = path[f]
    BY <1>3
<1>9. /\ head' = [f \in File |->
                    IF \E a \in created : response[a].file = f
                    THEN Document(response[CHOOSE a \in created : response[a].file = f].path) ELSE head[f]]
      /\ versions' = [f \in File |-> IF \E a \in created : response[a].file = f THEN {1} ELSE versions[f]]
    BY DEF SubmitProjectChat
<1> HIDE DEF N, path, by, created
<1>10. /\ head' = [f \in File |-> IF f \in N THEN Document(path[f]) ELSE head[f]]
       /\ versions' = [f \in File |-> IF f \in N THEN {1} ELSE versions[f]]
    <2>1. \A f \in File :
            /\ (IF \E a \in created : response[a].file = f
                THEN Document(response[CHOOSE a \in created : response[a].file = f].path) ELSE head[f])
               = (IF f \in N THEN Document(path[f]) ELSE head[f])
            /\ (IF \E a \in created : response[a].file = f THEN {1} ELSE versions[f])
               = (IF f \in N THEN {1} ELSE versions[f])
        BY <1>8
    <2> QED
        BY <1>9, <2>1
<1>11. CreateFiles(N, path)
    BY <1>4, <1>5, <1>6, <1>7, <1>10 DEF CreateFiles
<1> QED
    BY <1>11

LEMMA SubmitOK ==
    ASSUME IndInv, NEW t \in Turn, NEW rows \in SUBSET UnusedAction, NEW response \in [rows -> Proposal],
           SubmitProjectChat(t, response)
    PROVE  IndInv'
<1> USE DEF IndInv
<1>1. PICK N, path : CreateFiles(N, path)
    BY SubmitCreates
<1>2. /\ ProjectLock /\ phase' = [phase EXCEPT ![t] = "idle"] /\ UNCHANGED <<project, locked, missing>>
      /\ input' = [a \in Action |-> IF a \in rows THEN response[a] ELSE input[a]]
      /\ state' = [a \in Action |-> IF a \in Creations(response) THEN "confirmed"
                                     ELSE IF a \in rows THEN "pending" ELSE state[a]]
    BY DEF SubmitProjectChat
<1>3. rows \subseteq Action /\ \A a \in rows : state[a] = "none"
    BY DEF UnusedAction
<1>4. TypeOK'
    <2>1. input' \in [Action -> Proposal \cup {NoInput}]
        BY <1>2 DEF TypeOK
    <2>2. state' \in [Action -> {"none", "pending", "confirmed", "cancelled"}]
        BY <1>2 DEF TypeOK
    <2>3. phase' \in [Turn -> {"idle", "bootstrap", "thinking"}]
        BY <1>2 DEF TypeOK
    <2> QED
        BY <1>1, <1>2, <2>1, <2>2, <2>3, CreatedTypes DEF TypeOK, project
<1>5. Locks' /\ BootstrapIsUndisturbed'
    <2>1. \A u \in Turn : phase'[u] # "bootstrap"
        BY <1>2 DEF ProjectLock, TypeOK
    <2> QED
        BY <1>2, <2>1, Excluded
<1>6. ASSUME NEW type \in {Edit, Report}
      PROVE  /\ {a \in Action : state'[a] = "confirmed" /\ input'[a] \in type} = Confirmed(type)
             /\ \A a \in Confirmed(type) : input'[a] = input[a]
    <2>1. ASSUME NEW a \in rows
          PROVE  ~(state'[a] = "confirmed" /\ input'[a] \in type) /\ a \notin Confirmed(type)
        <3>1. CASE a \in Creations(response)
            BY <1>2, <1>3, <2>1, <3>1, KindsDiffer DEF Creations, Confirmed
        <3>2. CASE a \notin Creations(response)
            BY <1>2, <1>3, <2>1, <3>2 DEF Confirmed
        <3> QED
            BY <3>1, <3>2
    <2>2. ASSUME NEW a \in Action \ rows
          PROVE  state'[a] = state[a] /\ input'[a] = input[a]
        BY <1>2, <2>2 DEF Creations
    <2> QED
        BY <2>1, <2>2 DEF Confirmed
<1>7. FilesAreAudited'
    <2>1. \A f \in File : EditsOf(f)' = EditsOf(f) /\ \A a \in EditsOf(f) : input'[a] = input[a]
        BY <1>6 DEF EditsOf, Confirmed
    <2> QED
        BY <1>1, <2>1, CreatedAudited
<1>8. ProgressIsAudited'
    <2>1. Confirmed(Report)' = Confirmed(Report) /\ \A a \in Confirmed(Report) : input'[a] = input[a]
        BY <1>6 DEF Confirmed
    <2>2. progress' = progress
        BY <1>2 DEF project
    <2> QED
        BY <2>1, <2>2 DEF ProgressIsAudited, OnePerVersion
<1> QED
    BY <1>1, <1>4, <1>5, <1>7, <1>8, CreatedUnique

LEMMA CancelOK ==
    ASSUME IndInv, NEW a \in Action, CancelProjectAgentAction(a)
    PROVE  IndInv'
<1>1. /\ state' = [state EXCEPT ![a] = "cancelled"] /\ state[a] = "pending"
      /\ UNCHANGED <<project, files, input, turns>>
    BY DEF CancelProjectAgentAction
<1>2. TypeOK'
    BY <1>1 DEF IndInv, TypeOK, project, files, turns
<1>3. \A type : Confirmed(type)' = Confirmed(type)
    BY <1>1 DEF IndInv, TypeOK, Confirmed
<1>4. Locks' /\ BootstrapIsUndisturbed' /\ LivePathsUnique'
    BY <1>1 DEF IndInv, files, turns, Locks, LocksOK, BootstrapIsUndisturbed, LivePathsUnique, Live, Taken
<1>5. FilesAreAudited' /\ ProgressIsAudited'
    BY <1>1, <1>3 DEF IndInv, project, files, FilesAreAudited, ProgressIsAudited, OnePerVersion, EditsOf
<1> QED
    BY <1>2, <1>4, <1>5 DEF IndInv

LEMMA UpdateProjectOK ==
    ASSUME IndInv, NEW s \in Status, UpdateProject(s)
    PROVE  IndInv'
<1>1. UNCHANGED <<progress, files, actions, turns>> /\ status' = s
    BY DEF UpdateProject
<1>2. TypeOK'
    BY <1>1 DEF IndInv, TypeOK, files, actions, turns
<1>3. Locks' /\ BootstrapIsUndisturbed'
    BY <1>1 DEF IndInv, files, turns, Locks, LocksOK, BootstrapIsUndisturbed, Live, Taken
<1> QED
    BY <1>1, <1>2, <1>3, DataKept DEF IndInv

-----------------------------------------------------------------------------
(* Confirmations *)

\* One more action, which names the last version, accounts for the next one.
LEMMA OneMoreVersion ==
    ASSUME NEW rows, NEW a, NEW last \in Nat \ {0}, OnePerVersion(rows, last), input[a].basis = last
    PROVE  OnePerVersion(rows \cup {a}, last + 1)
<1>1. {input[b].basis : b \in rows} = 1..(last - 1) /\ last \notin 1..(last - 1)
    BY DEF OnePerVersion
<1>2. {input[b].basis : b \in rows \cup {a}} = {input[b].basis : b \in rows} \cup {last}
    OBVIOUS
<1>3. 1..(last - 1) \cup {last} = 1..(last + 1 - 1)
    OBVIOUS
<1>4. \A b \in rows : input[b].basis # last
    BY <1>1
<1>5. \A b, c \in rows \cup {a} : input[b].basis = input[c].basis => b = c
    BY <1>4 DEF OnePerVersion
<1> QED
    BY <1>1, <1>2, <1>3, <1>5 DEF OnePerVersion

\* The head and the versions of the file an edit is about.
LEMMA EditedFile ==
    ASSUME TypeOK, NEW r \in Edit, ExecuteFileAction(r)
    PROVE  /\ Live(r.file) /\ head[r.file].version = r.basis
           /\ head'[r.file] \in FileHead
           /\ head'[r.file].version = r.basis + 1
           /\ versions'[r.file] = versions[r.file] \cup {r.basis + 1}
           /\ \/ head'[r.file].path = head[r.file].path
              \/ head'[r.file].path = r.path /\ PathAvailable(r.file, r.path)
           /\ \A f \in File : f # r.file => head'[f] = head[f] /\ versions'[f] = versions[f]
<1> DEFINE new == [version |-> head[r.file].version + 1,
                   path |-> IF r.type = "rename_file" THEN r.path ELSE head[r.file].path,
                   deleted |-> r.type = "delete_file"]
<1>1. r.file \in File /\ r.basis \in Nat /\ (r.type = "rename_file" => r.path \in Path)
    BY EditFields, ProjectChatAssumption
<1>2. Live(r.file) /\ head[r.file].version = r.basis
    BY DEF ExecuteFileAction, Latest
<1>3. head[r.file].path \in Path
    BY <1>1, <1>2, HeadFields
<1>4. /\ r.type = "rename_file" => PathAvailable(r.file, r.path)
      /\ versions' = [versions EXCEPT ![r.file] = @ \cup {head[r.file].version + 1}]
      /\ head' = [head EXCEPT ![r.file] = new]
    BY DEF ExecuteFileAction
<1>5. head'[r.file] = new /\ \A f \in File : f # r.file => head'[f] = head[f]
    BY <1>1, <1>4 DEF TypeOK
<1>6. /\ versions'[r.file] = versions[r.file] \cup {head[r.file].version + 1}
      /\ \A f \in File : f # r.file => versions'[f] = versions[f]
    BY <1>1, <1>4 DEF TypeOK
<1>7. /\ new.version = head[r.file].version + 1
      /\ new.path = IF r.type = "rename_file" THEN r.path ELSE head[r.file].path
      /\ new.path \in Path
    BY <1>1, <1>3
<1>8. new \in FileHead
    <2>1. (r.type = "delete_file") \in BOOLEAN
        OBVIOUS
    <2>2. head[r.file].version + 1 \in Nat \ {0}
        BY <1>1, <1>2
    <2> QED
        BY <1>7, <2>1, <2>2 DEF FileHead
<1> HIDE DEF new
<1> QED
    BY <1>2, <1>4, <1>5, <1>6, <1>7, <1>8

LEMMA ConfirmEditOK ==
    ASSUME IndInv, NEW a \in Action, ConfirmProjectAgentAction(a), input[a] \in Edit,
           ExecuteFileAction(input[a]), UNCHANGED progress
    PROVE  IndInv'
<1> USE DEF IndInv
<1>1. PICK r \in Edit : r = input[a]
    OBVIOUS
<1>2. PICK e \in File : e = r.file
    BY EditFields
<1>3. ExecuteFileAction(r)
    BY <1>1
<1>4. /\ Live(e) /\ head[e].version = r.basis /\ head'[e] \in FileHead /\ head'[e].version = r.basis + 1
      /\ versions'[e] = versions[e] \cup {r.basis + 1}
      /\ \/ head'[e].path = head[e].path
         \/ head'[e].path = r.path /\ PathAvailable(e, r.path)
      /\ \A f \in File : f # e => head'[f] = head[f] /\ versions'[f] = versions[f]
    BY <1>2, <1>3, EditedFile
<1>5. /\ state[a] = "pending" /\ ProjectLock
      /\ state' = [state EXCEPT ![a] = "confirmed"] /\ UNCHANGED <<status, input, turns>>
    BY DEF ConfirmProjectAgentAction
<1>6. r.basis \in Nat \ {0} /\ r \notin Report
    BY EditFields, ReportFields, ProjectChatAssumption
<1>7. TypeOK'
    <2>1. head' = [f \in File |-> head'[f]] /\ versions' = [f \in File |-> versions'[f]]
        BY <1>3 DEF ExecuteFileAction, TypeOK
    <2>2. \A f \in File : head'[f] \in FileHead \cup {NoHead} /\ versions'[f] \in SUBSET Nat
        BY <1>4, <1>6 DEF TypeOK
    <2>3. head' \in [File -> FileHead \cup {NoHead}] /\ versions' \in [File -> SUBSET Nat]
        BY <2>1, <2>2
    <2> QED
        BY <1>5, <2>3 DEF TypeOK, turns
<1>8. Locks' /\ BootstrapIsUndisturbed'
    BY <1>5, Excluded DEF ProjectLock, turns
<1>9. LivePathsUnique'
    <2> SUFFICES ASSUME NEW f \in File, NEW g \in File, Live(f)', Live(g)', head'[f].path = head'[g].path,
                        f # g
                 PROVE  FALSE
        BY DEF LivePathsUnique
    <2>1. ASSUME NEW h \in File, h # e, Live(h)' PROVE head'[h].path # head'[e].path
        <3>1. Live(h) /\ head'[h].path = head[h].path
            BY <1>4, <2>1 DEF Live
        <3> QED
            BY <1>4, <2>1, <3>1 DEF LivePathsUnique, PathAvailable
    <2>2. CASE f # e /\ g # e
        BY <1>4, <2>2 DEF LivePathsUnique, Live
    <2> QED
        BY <2>1, <2>2
<1>10. /\ Confirmed(Edit)' = Confirmed(Edit) \cup {a} /\ a \notin Confirmed(Edit)
       /\ Confirmed(Report)' = Confirmed(Report)
    BY <1>1, <1>5, <1>6 DEF Confirmed, TypeOK
<1>11. ASSUME NEW f \in File PROVE Audited(f)'
    <2>1. Audited(f)
        BY DEF FilesAreAudited, Audited
    <2>2. CASE f = e
        <3>1. PICK R : R = EditsOf(e)
            OBVIOUS
        <3>2. EditsOf(e)' = R \cup {a}
            BY <1>1, <1>2, <1>5, <1>10, <3>1 DEF EditsOf
        <3>3. OnePerVersion(R, r.basis) /\ versions[e] = 1..r.basis
            BY <1>4, <1>6, <2>1, <2>2, <3>1 DEF Audited
        <3>4. OnePerVersion(R \cup {a}, r.basis + 1)
            BY <1>1, <1>6, <3>3, OneMoreVersion
        <3>5. (OnePerVersion(EditsOf(e), head[e].version))'
            BY <1>4, <1>5, <3>2, <3>4 DEF OnePerVersion
        <3>6. versions'[e] = 1..(r.basis + 1) /\ r.basis + 1 # 0
            BY <1>4, <1>6, <3>3
        <3> QED
            BY <1>4, <2>2, <3>5, <3>6 DEF Audited
    <2>3. CASE f # e
        <3>1. EditsOf(f)' = EditsOf(f)
            BY <1>1, <1>2, <1>5, <1>10, <2>3 DEF EditsOf
        <3> QED
            BY <1>4, <1>5, <2>1, <2>3, <3>1 DEF Audited, OnePerVersion
    <2> QED
        BY <2>2, <2>3
<1>12. FilesAreAudited'
    BY <1>11 DEF FilesAreAudited, Audited
<1>13. ProgressIsAudited'
    BY <1>5, <1>10 DEF ProgressIsAudited, OnePerVersion
<1> QED
    BY <1>7, <1>8, <1>9, <1>12, <1>13

LEMMA ConfirmReportOK ==
    ASSUME IndInv, NEW a \in Action, ConfirmProjectAgentAction(a), input[a] \in Report,
           UpdateProgress(input[a]), UNCHANGED files
    PROVE  IndInv'
<1> USE DEF IndInv
<1>1. /\ state[a] = "pending" /\ ProjectLock
      /\ state' = [state EXCEPT ![a] = "confirmed"] /\ UNCHANGED <<status, input, turns>>
    BY DEF ConfirmProjectAgentAction
<1>2. /\ input[a].basis = progress.version
      /\ progress' = [percent |-> input[a].percent, version |-> progress.version + 1]
    BY DEF UpdateProgress
<1>3. progress.version \in Nat \ {0} /\ input[a].percent \in Percent
    BY ReportFields DEF TypeOK, Progress
<1>4. progress' \in Progress /\ progress'.version = progress.version + 1
    BY <1>2, <1>3 DEF Progress
<1>5. TypeOK'
    BY <1>1, <1>4 DEF TypeOK, files, turns
<1>6. Locks' /\ BootstrapIsUndisturbed'
    BY <1>1, Excluded DEF ProjectLock, turns
<1>7. LivePathsUnique'
    BY DEF LivePathsUnique, Live, files
<1>8. /\ Confirmed(Report)' = Confirmed(Report) \cup {a}
      /\ Confirmed(Edit)' = Confirmed(Edit)
    BY <1>1, EditFields, ReportFields DEF Confirmed, TypeOK
<1>9. FilesAreAudited'
    BY <1>1, <1>8 DEF FilesAreAudited, OnePerVersion, EditsOf, files
<1>10. ProgressIsAudited'
    <2>1. PICK R : R = Confirmed(Report)
        OBVIOUS
    <2>2. PICK v : v = progress.version
        OBVIOUS
    <2>3. OnePerVersion(R \cup {a}, v + 1)
        BY <1>2, <1>3, <2>1, <2>2, OneMoreVersion DEF ProgressIsAudited
    <2> QED
        BY <1>1, <1>4, <1>8, <2>1, <2>2, <2>3 DEF ProgressIsAudited, OnePerVersion
<1> QED
    BY <1>5, <1>6, <1>7, <1>9, <1>10

LEMMA ConfirmOK ==
    ASSUME IndInv, NEW a \in Action, ConfirmProjectAgentAction(a)
    PROVE  IndInv'
<1>1. \/ input[a] \in Report /\ UpdateProgress(input[a]) /\ UNCHANGED files
      \/ input[a] \in Edit /\ ExecuteFileAction(input[a]) /\ UNCHANGED progress
    BY DEF ConfirmProjectAgentAction
<1> QED
    BY <1>1, ConfirmEditOK, ConfirmReportOK

-----------------------------------------------------------------------------
(* Theorems *)

\* A response decides about actions nobody has, or the step is one of the others.
LEMMA Steps ==
    ASSUME Next
    PROVE  \/ \E t \in Turn : BeginTurn(t) \/ CommitBootstrap(t) \/ FailTurn(t)
           \/ \E t \in Turn, i \in DOMAIN Canonical : LockPath(t, i)
           \/ \E t \in Turn, rows \in SUBSET UnusedAction :
                \E response \in [rows -> Proposal] : SubmitProjectChat(t, response)
           \/ \E a \in Action : ConfirmProjectAgentAction(a) \/ CancelProjectAgentAction(a)
           \/ \E s \in Status : UpdateProject(s)
BY DEF Next

LEMMA StepIndInv == IndInv /\ [Next]_vars => IndInv'
<1> SUFFICES ASSUME IndInv, [Next]_vars PROVE IndInv'
    OBVIOUS
<1>1. CASE Next
    BY <1>1, Steps, BeginOK, LockPathOK, CommitOK, FailOK, SubmitOK, ConfirmOK, CancelOK, UpdateProjectOK
<1>2. CASE UNCHANGED vars
    <2>1. UNCHANGED <<progress, files, actions, turns, status>>
        BY <1>2 DEF vars, project
    <2>2. TypeOK'
        BY <2>1 DEF IndInv, TypeOK, files, actions, turns
    <2>3. Locks' /\ BootstrapIsUndisturbed'
        BY <2>1, DataKept DEF IndInv, turns, Locks, LocksOK, BootstrapIsUndisturbed
    <2> QED
        BY <2>1, <2>2, <2>3, DataKept DEF IndInv
<1> QED
    BY <1>1, <1>2

\* The inductive invariant of chat turns, agent actions and versioned files.
THEOREM Safety == Spec => []IndInv
BY InitIndInv, StepIndInv, PTL DEF Spec

\* Every row keeps its columns, and every turn its locks.
THEOREM TypeCorrect == Spec => []TypeOK
<1>1. IndInv => TypeOK
    BY DEF IndInv
<1> QED
    BY <1>1, Safety, PTL

\* What ensureCanonicalProjectDocuments found missing stays missing until it
\* creates it: the path locks and the share lock on the project suffice.
THEOREM Undisturbed == Spec => []BootstrapIsUndisturbed
<1>1. IndInv => BootstrapIsUndisturbed
    BY DEF IndInv
<1> QED
    BY <1>1, Safety, PTL

\* assertPathAvailable and the first transactions keep live paths unique
\* without the help of the index project_file_heads_active_path_unique.
THEOREM Paths == Spec => []LivePathsUnique
<1>1. IndInv => LivePathsUnique
    BY DEF IndInv
<1> QED
    BY <1>1, Safety, PTL

\* Each version of a file after the first has its confirmed action, and each
\* confirmed edit its version.
THEOREM FileAudit == Spec => []FilesAreAudited
<1>1. IndInv => FilesAreAudited
    BY DEF IndInv
<1> QED
    BY <1>1, Safety, PTL

\* No confirmed progress update is lost or applied to a version it was not
\* proposed for.
THEOREM ProgressAudit == Spec => []ProgressIsAudited
<1>1. IndInv => ProgressIsAudited
    BY DEF IndInv
<1> QED
    BY <1>1, Safety, PTL

\* Both trails together.
THEOREM AuditTrail == Spec => []AuditTrailIsExact
<1>1. IndInv => AuditTrailIsExact
    BY DEF IndInv, AuditTrailIsExact
<1> QED
    BY <1>1, Safety, PTL

-----------------------------------------------------------------------------
(* Action properties *)

\* Files that change are new or live.
LEMMA StepHead ==
    ASSUME IndInv, [Next]_vars, NEW f \in File
    PROVE  head'[f] # head[f] => head[f].version = 0 \/ Live(f)
<1>1. ASSUME NEW N, NEW path, CreateFiles(N, path)
      PROVE  head'[f] # head[f] => head[f].version = 0
    BY <1>1 DEF CreateFiles, UnusedFile
<1>2. ASSUME NEW t \in Turn, CommitBootstrap(t)
      PROVE  head'[f] # head[f] => head[f].version = 0
    BY <1>1, <1>2, CommitCreates
<1>3. ASSUME NEW t \in Turn, NEW rows \in SUBSET UnusedAction, NEW response \in [rows -> Proposal],
             SubmitProjectChat(t, response)
      PROVE  head'[f] # head[f] => head[f].version = 0
    BY <1>1, <1>3, SubmitCreates
<1>4. ASSUME NEW a \in Action, ConfirmProjectAgentAction(a)
      PROVE  head'[f] # head[f] => Live(f)
    <2>1. CASE input[a] \in Report /\ UNCHANGED files
        BY <2>1 DEF files
    <2>2. CASE input[a] \in Edit /\ ExecuteFileAction(input[a])
        <3>1. PICK r \in Edit : r = input[a]
            BY <2>2
        <3>2. Live(r.file) /\ \A g \in File : g # r.file => head'[g] = head[g]
            BY <2>2, <3>1, EditedFile DEF IndInv
        <3> QED
            BY <3>2
    <2> QED
        BY <1>4, <2>1, <2>2 DEF ConfirmProjectAgentAction
<1>5. ASSUME UNCHANGED files PROVE head'[f] = head[f]
    BY <1>5 DEF files
<1>6. ASSUME NEW t \in Turn, BeginTurn(t) \/ FailTurn(t) PROVE UNCHANGED files
    BY <1>6 DEF BeginTurn, FailTurn
<1>7. ASSUME NEW t \in Turn, NEW i \in DOMAIN Canonical, LockPath(t, i) PROVE UNCHANGED files
    BY <1>7 DEF LockPath
<1>8. ASSUME NEW a \in Action, CancelProjectAgentAction(a) PROVE UNCHANGED files
    BY <1>8 DEF CancelProjectAgentAction
<1>9. ASSUME NEW s \in Status, UpdateProject(s) PROVE UNCHANGED files
    BY <1>9 DEF UpdateProject
<1>10. CASE Next
    BY <1>10, <1>2, <1>3, <1>4, <1>5, <1>6, <1>7, <1>8, <1>9, Steps
<1>11. CASE UNCHANGED vars
    BY <1>5, <1>11 DEF vars
<1> QED
    BY <1>10, <1>11

\* latestFileForUpdate refuses a removed file, whatever is pending about it.
THEOREM Removed == Spec => RemovedForGood
<1> DEFINE A == \A f \in File : head[f].deleted => head'[f] = head[f]
<1>1. IndInv /\ [Next]_vars => A
    <2> SUFFICES ASSUME IndInv, [Next]_vars, NEW f \in File, head[f].deleted
                 PROVE  head'[f] = head[f]
        OBVIOUS
    <2>1. head[f].version # 0 /\ ~Live(f)
        BY HeadFields DEF IndInv, Live
    <2> QED
        BY <2>1, StepHead
<1> QED
    BY Safety, <1>1, PTL DEF Spec, RemovedForGood

\* A confirmation reads the status again under the lock of the project.
THEOREM Full == Spec => FullWhenCompleted
<1> DEFINE A == progress.percent # "full" /\ progress'.percent = "full" => status = "completed"
<1>1. [Next]_vars => A
    <2> SUFFICES ASSUME [Next]_vars, progress.percent # "full", progress'.percent = "full"
                 PROVE  status = "completed"
        OBVIOUS
    <2>1. PICK a \in Action : ConfirmProjectAgentAction(a)
        <3>1. progress' # progress
            OBVIOUS
        <3> QED
            BY <3>1, Steps DEF vars, project, BeginTurn, CommitBootstrap, FailTurn, LockPath,
               SubmitProjectChat, CancelProjectAgentAction, UpdateProject
    <2>2. UpdateProgress(input[a])
        BY <2>1 DEF ConfirmProjectAgentAction
    <2>3. Authorized(input[a]) /\ progress'.percent = input[a].percent
        BY <2>2 DEF UpdateProgress
    <2> QED
        BY <2>3 DEF Authorized
<1> QED
    BY <1>1, PTL DEF Spec, FullWhenCompleted

\* No confirmation can take a document away while a first transaction runs.
THEOREM Context == Spec => ContextIsComplete
<1> DEFINE A == \A t \in Turn : phase[t] = "bootstrap" /\ phase'[t] = "thinking" =>
                   \A i \in DOMAIN Canonical : Taken(Canonical[i])'
<1>1. IndInv /\ [Next]_vars => A
    <2> SUFFICES ASSUME IndInv, [Next]_vars,
                        NEW t \in Turn, phase[t] = "bootstrap", phase'[t] = "thinking"
                 PROVE  \A i \in DOMAIN Canonical : Taken(Canonical[i])'
        OBVIOUS
    <2>1. phase \in [Turn -> {"idle", "bootstrap", "thinking"}]
        BY DEF IndInv, TypeOK
    <2>2. CommitBootstrap(t)
        <3>1. ASSUME NEW u \in Turn, BeginTurn(u) \/ FailTurn(u) PROVE FALSE
            BY <2>1, <3>1 DEF BeginTurn, FailTurn
        <3>2. ASSUME NEW u \in Turn, CommitBootstrap(u) PROVE u = t
            BY <2>1, <3>2 DEF CommitBootstrap
        <3>3. ASSUME NEW u \in Turn, NEW rows, NEW response \in [rows -> Proposal],
                     SubmitProjectChat(u, response)
              PROVE  FALSE
            BY <2>1, <3>3 DEF SubmitProjectChat
        <3>4. ASSUME UNCHANGED phase PROVE FALSE
            BY <3>4
        <3>5. CASE Next
            BY <3>1, <3>2, <3>3, <3>4, <3>5, Steps DEF LockPath, ConfirmProjectAgentAction,
               CancelProjectAgentAction, UpdateProject, turns
        <3>6. CASE UNCHANGED vars
            BY <3>4, <3>6 DEF vars, turns
        <3> QED
            BY <3>5, <3>6
    <2> QED
        BY <2>2, CommitOK
<1> QED
    BY Safety, <1>1, PTL DEF Spec, ContextIsComplete

-----------------------------------------------------------------------------
(* First transactions do not wait for each other in a circle *)

\* The canonical paths a turn has locked are the first ones.
LocksArePrefixes == \A t \in Turn : \E k \in 0..Len(Canonical) : locked[t] = 1..k

LEMMA InitPrefixes == Init => LocksArePrefixes
<1> SUFFICES ASSUME Init, NEW t \in Turn PROVE \E k \in 0..Len(Canonical) : locked[t] = 1..k
    BY DEF LocksArePrefixes
<1>1. Len(Canonical) \in Nat
    BY LenProperties, ProjectChatAssumption
<1>2. locked[t] = 1..0
    BY DEF Init
<1> QED
    BY <1>1, <1>2

LEMMA StepPrefixes == IndInv /\ LocksArePrefixes /\ [Next]_vars => LocksArePrefixes'
<1> SUFFICES ASSUME IndInv, LocksArePrefixes, [Next]_vars PROVE LocksArePrefixes'
    OBVIOUS
<1>1. Len(Canonical) \in Nat /\ DOMAIN Canonical = 1..Len(Canonical)
    BY LenProperties, ProjectChatAssumption
<1>2. locked \in [Turn -> SUBSET (DOMAIN Canonical)]
    BY DEF IndInv, TypeOK
<1>3. ASSUME UNCHANGED locked PROVE LocksArePrefixes'
    BY <1>3 DEF LocksArePrefixes
<1>4. ASSUME NEW t \in Turn, locked' = [locked EXCEPT ![t] = {}] PROVE LocksArePrefixes'
    <2>1. 0 \in 0..Len(Canonical) /\ {} = 1..0
        BY <1>1
    <2> QED
        BY <1>2, <1>4, <2>1 DEF LocksArePrefixes
<1>5. ASSUME NEW t \in Turn, NEW i \in DOMAIN Canonical, LockPath(t, i) PROVE LocksArePrefixes'
    <2>1. locked[t] = 1..(i - 1) /\ locked' = [locked EXCEPT ![t] = @ \cup {i}]
        BY <1>5 DEF LockPath, NextPath
    <2>2. i \in 0..Len(Canonical) /\ 1..(i - 1) \cup {i} = 1..i
        BY <1>1
    <2> QED
        BY <1>2, <2>1, <2>2 DEF LocksArePrefixes
<1>6. CASE Next
    BY <1>3, <1>4, <1>5, <1>6, Steps DEF BeginTurn, CommitBootstrap, FailTurn, SubmitProjectChat,
       ConfirmProjectAgentAction, CancelProjectAgentAction, UpdateProject, turns
<1>7. CASE UNCHANGED vars
    BY <1>3, <1>7 DEF vars, turns
<1> QED
    BY <1>6, <1>7

\* A set of natural numbers has a least element.
LEMMA LeastNatural ==
    ASSUME NEW S \in SUBSET Nat, S # {}
    PROVE  \E m \in S : \A k \in S : m <= k
<1> DEFINE Less == OpToRel(<, Nat)
<1>1. IsWellFoundedOn(Less, Nat)
    BY NatLessThanWellFounded
<1>2. PICK m \in S : \A k \in S : <<k, m>> \notin Less
    <2> HIDE DEF Less
    <2> QED
        BY <1>1, WFMin
<1>3. \A k \in S : ~(k < m)
    BY <1>2 DEF OpToRel
<1> QED
    BY <1>3

\* The first transaction that has come furthest has all its locks, or nobody
\* holds the next one: those behind it have fewer.
LEMMA SomeProceeds == IndInv /\ LocksArePrefixes => FirstTransactionsProceed
<1> SUFFICES ASSUME IndInv, LocksArePrefixes, NEW t0 \in Turn, phase[t0] = "bootstrap"
             PROVE  \E t \in Turn : /\ phase[t] = "bootstrap"
                                    /\ Checked(t) \/ \E i \in DOMAIN Canonical : NextPath(t, i)
    BY DEF FirstTransactionsProceed
<1> DEFINE n == Len(Canonical)
           All == {m \in 0..n : \E t \in Turn : phase[t] = "bootstrap" /\ locked[t] = 1..(n - m)}
<1>1. n \in Nat /\ DOMAIN Canonical = 1..n
    BY LenProperties, ProjectChatAssumption
<1> HIDE DEF n
<1>2. ASSUME NEW t \in Turn PROVE \E m \in 0..n : locked[t] = 1..(n - m)
    <2>1. PICK k \in 0..n : locked[t] = 1..k
        BY DEF LocksArePrefixes, n
    <2>2. n - k \in 0..n /\ n - (n - k) = k
        BY <1>1
    <2> QED
        BY <2>1, <2>2
<1>3. All # {} /\ All \in SUBSET Nat
    <2>1. PICK m \in 0..n : locked[t0] = 1..(n - m)
        BY <1>2
    <2>2. m \in All
        BY <2>1
    <2>3. All \subseteq 0..n /\ 0..n \subseteq Nat
        BY <1>1
    <2> HIDE DEF All
    <2> QED
        BY <2>2, <2>3
<1>4. PICK m \in All : \A k \in All : m <= k
    BY <1>3, LeastNatural
<1>5. PICK t \in Turn : phase[t] = "bootstrap" /\ locked[t] = 1..(n - m)
    OBVIOUS
<1>6. CASE m = 0
    <2>1. Checked(t)
        BY <1>1, <1>5, <1>6 DEF Checked
    <2> QED
        BY <1>5, <2>1
<1>7. CASE m # 0
    <2> DEFINE i == n - m + 1
    <2>1. i \in 1..n /\ i - 1 = n - m
        BY <1>1, <1>7
    <2>2. ASSUME NEW u \in Turn PROVE i \notin locked[u]
        <3>1. CASE phase[u] # "bootstrap"
            BY <3>1 DEF IndInv, Locks, LocksOK
        <3>2. CASE phase[u] = "bootstrap"
            <4>1. PICK k \in 0..n : locked[u] = 1..(n - k)
                BY <1>2
            <4>2. m <= k
                BY <1>4, <3>2, <4>1
            <4>3. ~(i <= n - k)
                BY <1>1, <4>2
            <4> QED
                BY <4>1, <4>3, <1>1
        <3> QED
            BY <3>1, <3>2
    <2>3. NextPath(t, i)
        BY <1>5, <2>1, <2>2 DEF NextPath
    <2> QED
        BY <1>1, <1>5, <2>1, <2>3
<1> QED
    BY <1>6, <1>7

\* First transactions take their path locks one by one and keep them, yet some
\* first transaction under way can always go on: pg_advisory_xact_lock in the
\* order of the canonical paths never deadlocks, for any number of chats and
\* paths.
THEOREM NoDeadlock == Spec => []FirstTransactionsProceed
<1>1. IndInv /\ LocksArePrefixes /\ [Next]_vars => LocksArePrefixes'
    BY StepPrefixes
<1> QED
    BY Safety, InitPrefixes, <1>1, SomeProceeds, PTL DEF Spec

-----------------------------------------------------------------------------
(* BackendSlots: the inductive invariant *)

\* A call that gave up is not in the queue, so Release skips nobody.
LiveQueue == \A i \in DOMAIN waiters : waiters[i] \notin aborted

SlotsIndInv == SlotsTypeOK /\ SlotsAccounted /\ QueueIsWaiting /\ NoIdleSlot /\ LiveQueue

LEMMA HoldersFinite == IsFiniteSet(Holders) /\ Cardinality(Holders) \in Nat
BY BackendSlotsAssumption, FS_Subset, FS_CardinalityType DEF Holders

LEMMA InitSlotsIndInv == SlotsInit => SlotsIndInv
<1> SUFFICES ASSUME SlotsInit PROVE SlotsIndInv
    OBVIOUS
<1>1. Holders = {} /\ Waiting = {}
    BY DEF SlotsInit, Holders, Waiting
<1>2. SlotsTypeOK
    BY BackendSlotsAssumption, EmptySeq DEF SlotsInit, SlotsTypeOK, PC
<1>3. DOMAIN waiters = {}
    BY DEF SlotsInit
<1> QED
    BY <1>1, <1>2, <1>3, FS_EmptySet, BackendSlotsAssumption
    DEF SlotsInit, SlotsIndInv, SlotsAccounted, QueueIsWaiting, NoIdleSlot, LiveQueue

LEMMA Queue ==
    ASSUME SlotsTypeOK
    PROVE  /\ Len(waiters) \in Nat /\ DOMAIN waiters = 1..Len(waiters)
           /\ \A i \in 1..Len(waiters) : waiters[i] \in Call
BY LenProperties, ElementOfSeq DEF SlotsTypeOK

\* The pool counts as this module does.
LEMMA PoolCardinality == \A S : Pool!Cardinality(S) = Cardinality(S)
BY DEF Pool!Cardinality, Cardinality

-----------------------------------------------------------------------------
(* Steps that move no call in or out *)

LEMMA SameHolders ==
    ASSUME SlotsIndInv, SlotsTypeOK', Holders' = Holders, Waiting' = Waiting,
           UNCHANGED <<activeRequests, waiters>>, \A i \in DOMAIN waiters : waiters[i] \notin aborted'
    PROVE  SlotsIndInv'
BY DEF SlotsIndInv, SlotsAccounted, QueueIsWaiting, NoIdleSlot, LiveQueue

-----------------------------------------------------------------------------
(* Entering *)

LEMMA CallOK ==
    ASSUME SlotsIndInv, NEW c \in Call, CallBackend(c)
    PROVE  SlotsIndInv' /\ GrantInOrder /\ (Pool!Enter(c) \/ Pool!Wait(c))
<1> USE DEF SlotsIndInv
<1>1. c \notin Holders /\ c \notin Waiting /\ pc \in [Call -> PC]
    BY DEF CallBackend, Holders, Waiting, SlotsTypeOK
<1>2. activeRequests \in Nat /\ MAX_CONCURRENCY \in Nat
    BY BackendSlotsAssumption DEF SlotsTypeOK
<1>3. attempt' \in [Call -> 0..BACKEND_ATTEMPTS] /\ aborted' = aborted \ {c}
    BY BackendSlotsAssumption DEF SlotsTypeOK, CallBackend
<1>4. CASE activeRequests < MAX_CONCURRENCY
    <2>1. /\ activeRequests' = activeRequests + 1
          /\ pc' = [pc EXCEPT ![c] = "granted"]
          /\ waiters' = waiters
        BY <1>2, <1>4 DEF CallBackend
    <2>2. Holders' = Holders \cup {c} /\ Waiting' = Waiting
        BY <1>1, <2>1 DEF Holders, Waiting, PC
    <2>3. Cardinality(Holders \cup {c}) = Cardinality(Holders) + 1
        BY <1>1, HoldersFinite, FS_AddElement
    <2>4. SlotsTypeOK'
        BY <1>1, <1>2, <1>3, <2>1 DEF SlotsTypeOK, PC
    <2>5. waiters = <<>>
        BY <1>2, <1>4 DEF NoIdleSlot
    <2>6. SlotsAccounted' /\ QueueIsWaiting' /\ NoIdleSlot' /\ LiveQueue'
        BY <1>2, <1>3, <1>4, <2>1, <2>2, <2>3, <2>5
        DEF SlotsAccounted, QueueIsWaiting, NoIdleSlot, LiveQueue
    <2>7. Pool!Enter(c)
        BY <1>1, <1>4, <2>2, PoolCardinality DEF Pool!Enter, SlotsAccounted
    <2>8. GrantInOrder
        BY <1>1, <2>1, <2>5 DEF GrantInOrder, Waiting
    <2> QED
        BY <2>4, <2>6, <2>7, <2>8
<1>5. CASE activeRequests >= MAX_CONCURRENCY
    <2>1. /\ activeRequests' = activeRequests
          /\ pc' = [pc EXCEPT ![c] = "waiting"]
          /\ waiters' = Append(waiters, c)
          /\ Len(waiters) < MAX_WAITERS
        BY <1>2, <1>5 DEF CallBackend
    <2>2. Holders' = Holders /\ Waiting' = Waiting \cup {c}
        BY <1>1, <2>1 DEF Holders, Waiting, PC
    <2>3. /\ waiters' \in Seq(Call) /\ Len(waiters') = Len(waiters) + 1
          /\ \A i \in 1..Len(waiters) : waiters'[i] = waiters[i]
          /\ waiters'[Len(waiters) + 1] = c
        BY <2>1, AppendProperties DEF SlotsTypeOK
    <2>4. DOMAIN waiters' = 1..(Len(waiters) + 1)
        BY <2>3, LenProperties
    <2>5. SlotsTypeOK'
        BY <1>1, <1>2, <1>3, <2>1, <2>3 DEF SlotsTypeOK, PC
    <2>6. \A i \in 1..Len(waiters) : waiters[i] # c
        BY <1>1, Queue DEF QueueIsWaiting
    <2>7. {waiters'[i] : i \in DOMAIN waiters'} = Waiting'
        BY <2>2, <2>3, <2>4, Queue DEF QueueIsWaiting
    <2>8. \A i, j \in DOMAIN waiters' : waiters'[i] = waiters'[j] => i = j
        BY <2>3, <2>4, <2>6, Queue DEF QueueIsWaiting
    <2>9. LiveQueue'
        BY <1>3, <2>3, <2>4, Queue DEF LiveQueue
    <2>10. SlotsAccounted' /\ NoIdleSlot'
        BY <1>2, <1>5, <2>1, <2>2 DEF SlotsAccounted, NoIdleSlot
    <2>11. Cardinality(Waiting) <= Len(waiters)
        <3>1. waiters \in Surjection(1..Len(waiters), Waiting)
            <4>1. waiters \in [1..Len(waiters) -> Call]
                BY LenProperties DEF SlotsTypeOK
            <4>2. \A i \in 1..Len(waiters) : waiters[i] \in Waiting
                BY Queue DEF QueueIsWaiting
            <4>3. waiters \in [1..Len(waiters) -> Waiting]
                BY <4>1, <4>2
            <4>4. \A d \in Waiting : \E i \in 1..Len(waiters) : waiters[i] = d
                BY Queue DEF QueueIsWaiting
            <4> QED
                BY <4>3, <4>4 DEF Surjection
        <3>2. ExistsSurjection(1..Len(waiters), Waiting)
            BY <3>1 DEF ExistsSurjection
        <3> QED
            BY <3>2, Queue, FS_SurjCardinalityBound
    <2>12. Cardinality(Waiting) < MAX_WAITERS
        <3>1. Cardinality(Waiting) \in Nat
            BY BackendSlotsAssumption, FS_Subset, FS_CardinalityType DEF Waiting
        <3> QED
            BY <2>1, <2>11, <3>1, Queue, BackendSlotsAssumption
    <2>13. Pool!Wait(c)
        BY <1>1, <1>2, <1>5, <2>2, <2>12, PoolCardinality DEF Pool!Wait, SlotsAccounted
    <2>14. GrantInOrder
        BY <1>1, <2>1 DEF GrantInOrder
    <2> QED
        BY <2>5, <2>7, <2>8, <2>9, <2>10, <2>13, <2>14 DEF QueueIsWaiting
<1> QED
    BY <1>2, <1>4, <1>5

-----------------------------------------------------------------------------
(* Leaving *)

\* What Release leaves in the queue.
LEMMA AfterFirst ==
    ASSUME NEW S, NEW s \in Seq(S), s # <<>>
    PROVE  /\ SubSeq(s, 2, Len(s)) \in Seq(S)
           /\ Len(SubSeq(s, 2, Len(s))) = Len(s) - 1
           /\ \A i \in 1..(Len(s) - 1) : SubSeq(s, 2, Len(s))[i] = s[i + 1]
<1> DEFINE rest == SubSeq(s, 2, Len(s))
<1>1. /\ Len(s) \in Nat /\ Len(s) >= 1
      /\ \A i \in 2..Len(s) : s[i] \in S
    BY LenProperties, ElementOfSeq, EmptySeq
<1>2. /\ rest \in Seq(S)
      /\ Len(rest) = IF 2 <= Len(s) THEN Len(s) - 2 + 1 ELSE 0
      /\ \A i \in 1..(Len(s) - 2 + 1) : rest[i] = s[2 + i - 1]
    BY <1>1, SubSeqProperties
<1> HIDE DEF rest
<1>3. Len(rest) = Len(s) - 1
    <2>1. ASSUME NEW n \in Nat, n >= 1, Len(rest) = IF 2 <= n THEN n - 2 + 1 ELSE 0
          PROVE  Len(rest) = n - 1
        <3>1. CASE n = 1
            BY <2>1, <3>1
        <3>2. CASE n >= 2
            BY <2>1, <3>2
        <3> QED
            BY <2>1, <3>1, <3>2
    <2> QED
        BY <1>1, <1>2, <2>1
<1>4. \A i \in 1..(Len(s) - 1) : rest[i] = s[i + 1]
    <2> TAKE i \in 1..(Len(s) - 1)
    <2>1. i \in 1..(Len(s) - 2 + 1) /\ 2 + i - 1 = i + 1
        BY <1>1
    <2>2. rest[i] = s[2 + i - 1]
        BY <1>2, <2>1
    <2> QED
        BY <2>1, <2>2
<1> QED
    BY <1>2, <1>3, <1>4 DEF rest

LEMMA FinishOK ==
    ASSUME SlotsIndInv, NEW c \in Call, c \in Holders, Finish(c)
    PROVE  SlotsIndInv' /\ GrantInOrder /\ (Pool!Leave(c) \/ \E d \in Call : Pool!HandOver(c, d))
<1> USE DEF SlotsIndInv
<1>1. LiveWaiters = 1..Len(waiters)
    BY Queue DEF LiveWaiters, LiveQueue
<1>2. c \notin Waiting /\ pc \in [Call -> PC] /\ activeRequests \in Nat
    BY DEF Holders, Waiting, SlotsTypeOK
<1>3. UNCHANGED <<attempt, aborted>>
    BY DEF Finish
<1>4. Cardinality(Holders \ {c}) = Cardinality(Holders) - 1 /\ IsFiniteSet(Holders \ {c})
    BY HoldersFinite, FS_RemoveElement
<1>5. Cardinality(Holders \ {c}) \in Nat
    BY <1>4, FS_CardinalityType
<1>6. CASE waiters = <<>>
    <2>1. Len(waiters) = 0 /\ DOMAIN waiters = {}
        BY <1>6
    <2>2. /\ pc' = [pc EXCEPT ![c] = "idle"] /\ waiters' = <<>>
          /\ activeRequests' = activeRequests - 1
        BY <1>1, <2>1 DEF Finish, Release
    <2>3. Holders' = Holders \ {c} /\ Waiting' = Waiting
        BY <1>2, <2>2 DEF Holders, Waiting, PC
    <2>4. SlotsTypeOK'
        BY <1>2, <1>3, <1>4, <1>5, <2>2, EmptySeq DEF SlotsTypeOK, SlotsAccounted, PC
    <2>5. SlotsAccounted'
        BY <1>2, <1>4, <2>2, <2>3, BackendSlotsAssumption DEF SlotsAccounted
    <2>6. QueueIsWaiting' /\ NoIdleSlot' /\ LiveQueue'
        BY <1>6, <2>1, <2>2, <2>3 DEF QueueIsWaiting, NoIdleSlot, LiveQueue
    <2>7. Waiting = {}
        BY <2>1 DEF QueueIsWaiting
    <2>8. Pool!Leave(c)
        BY <2>3, <2>7 DEF Pool!Leave
    <2>9. GrantInOrder
        BY <1>2, <2>2 DEF GrantInOrder
    <2> QED
        BY <2>4, <2>5, <2>6, <2>8, <2>9
<1>7. CASE waiters # <<>>
    <2> DEFINE d == waiters[1]
               rest == SubSeq(waiters, 2, Len(waiters))
    <2>1. Len(waiters) \in Nat \ {0}
        BY <1>7, EmptySeq DEF SlotsTypeOK
    <2>2. /\ pc' = [pc EXCEPT ![c] = "idle", ![d] = "granted"] /\ waiters' = rest
          /\ activeRequests' = activeRequests
        <3>0. 1 \in LiveWaiters /\ LiveWaiters # {}
            BY <1>1, <2>1
        <3>1. PICK i \in LiveWaiters :
                /\ \A j \in LiveWaiters : i <= j
                /\ pc' = [pc EXCEPT ![c] = "idle", ![waiters[i]] = "granted"]
                /\ waiters' = SubSeq(waiters, i + 1, Len(waiters))
                /\ UNCHANGED activeRequests
            BY <3>0, Zenon DEF Finish, Release
        <3>2. i = 1
            BY <1>1, <2>1, <3>0, <3>1
        <3> QED
            BY <3>1, <3>2
    <2>3. d \in Waiting /\ d \in Call /\ d # c /\ d \notin Holders
        <3>1. d \in Waiting
            BY <2>1, Queue DEF QueueIsWaiting
        <3> QED
            BY <1>2, <3>1 DEF Waiting, Holders
    <2>4. Holders' = (Holders \ {c}) \cup {d} /\ Waiting' = Waiting \ {d}
        BY <1>2, <2>2, <2>3 DEF Holders, Waiting, PC
    <2>5. Cardinality((Holders \ {c}) \cup {d}) = Cardinality(Holders)
        <3>1. Cardinality((Holders \ {c}) \cup {d}) = Cardinality(Holders \ {c}) + 1
            BY <1>4, <2>3, FS_AddElement
        <3> QED
            BY <1>4, <3>1, HoldersFinite
    <2>6. /\ rest \in Seq(Call) /\ Len(rest) = Len(waiters) - 1
          /\ \A i \in 1..(Len(waiters) - 1) : rest[i] = waiters[i + 1]
        BY <2>1, AfterFirst DEF SlotsTypeOK
    <2>7. DOMAIN rest = 1..(Len(waiters) - 1)
        BY <2>6, LenProperties
    <2> HIDE DEF rest
    <2>8. SlotsTypeOK'
        BY <1>2, <1>3, <2>2, <2>3, <2>6 DEF SlotsTypeOK, PC
    <2>9. {rest[i] : i \in DOMAIN rest} = Waiting \ {d}
        <3>1. ASSUME NEW i \in DOMAIN rest PROVE rest[i] \in Waiting \ {d}
            BY <2>1, <2>6, <2>7, Queue DEF QueueIsWaiting
        <3>2. ASSUME NEW e \in Waiting \ {d} PROVE \E i \in DOMAIN rest : rest[i] = e
            <4>1. PICK k \in 1..Len(waiters) : waiters[k] = e
                BY Queue DEF QueueIsWaiting
            <4>2. k # 1 /\ k - 1 \in 1..(Len(waiters) - 1)
                BY <2>1, <4>1
            <4>3. rest[k - 1] = e
                BY <2>1, <2>6, <4>1, <4>2
            <4> QED
                BY <2>7, <4>2, <4>3
        <3> QED
            BY <3>1, <3>2
    <2>10. \A i, j \in DOMAIN rest : rest[i] = rest[j] => i = j
        BY <2>1, <2>6, <2>7, Queue DEF QueueIsWaiting
    <2>11. LiveQueue'
        BY <1>3, <2>1, <2>2, <2>6, <2>7, Queue DEF LiveQueue
    <2>12. SlotsAccounted' /\ NoIdleSlot'
        BY <1>7, <2>2, <2>4, <2>5 DEF SlotsAccounted, NoIdleSlot
    <2>13. Pool!HandOver(c, d)
        BY <2>3, <2>4 DEF Pool!HandOver
    <2>14. GrantInOrder
        BY <1>2, <2>2, <2>3 DEF GrantInOrder, Waiting
    <2> QED
        BY <2>2, <2>3, <2>4, <2>8, <2>9, <2>10, <2>11, <2>12, <2>13, <2>14 DEF QueueIsWaiting
<1> QED
    BY <1>6, <1>7

-----------------------------------------------------------------------------
(* Giving up *)

\* What the abort listener leaves in the queue.
LEMMA Without ==
    ASSUME NEW S, NEW s \in Seq(S), NEW i \in 1..Len(s),
           \A j, k \in 1..Len(s) : s[j] = s[k] => j = k
    PROVE  /\ RemoveAt(s, i) \in Seq(S)
           /\ Len(RemoveAt(s, i)) = Len(s) - 1
           /\ DOMAIN RemoveAt(s, i) = 1..(Len(s) - 1)
           /\ \A k \in 1..(Len(s) - 1) : RemoveAt(s, i)[k] = s[IF k < i THEN k ELSE k + 1]
<1> DEFINE left == SubSeq(s, 1, i - 1)
           right == SubSeq(s, i + 1, Len(s))
<1>1. Len(s) \in Nat /\ i \in Nat /\ \A k \in 1..Len(s) : s[k] \in S
    BY LenProperties, ElementOfSeq
<1>2. /\ left \in Seq(S) /\ Len(left) = i - 1
      /\ \A k \in 1..(i - 1) : left[k] = s[k]
    <2>1. \A k \in 1..(i - 1) : s[k] \in S
        BY <1>1
    <2>2. left \in Seq(S) /\ Len(left) = IF 1 <= i - 1 THEN i - 1 - 1 + 1 ELSE 0
        BY <1>1, <2>1, SubSeqProperties
    <2>3. \A k \in 1..(i - 1 - 1 + 1) : left[k] = s[1 + k - 1]
        BY <1>1, <2>1, SubSeqProperties
    <2> QED
        BY <1>1, <2>2, <2>3
<1>3. /\ right \in Seq(S) /\ Len(right) = Len(s) - i
      /\ \A k \in 1..(Len(s) - i) : right[k] = s[i + k]
    <2>1. \A k \in (i + 1)..Len(s) : s[k] \in S
        BY <1>1
    <2>2. right \in Seq(S) /\ Len(right) = IF i + 1 <= Len(s) THEN Len(s) - (i + 1) + 1 ELSE 0
        BY <1>1, <2>1, SubSeqProperties
    <2>3. \A k \in 1..(Len(s) - (i + 1) + 1) : right[k] = s[i + 1 + k - 1]
        BY <1>1, <2>1, SubSeqProperties
    <2> QED
        BY <1>1, <2>2, <2>3
<1>4. RemoveAt(s, i) = left \o right
    BY DEF RemoveAt
<1> HIDE DEF left, right
<1>5. /\ left \o right \in Seq(S) /\ Len(left \o right) = Len(s) - 1
      /\ \A k \in 1..(Len(s) - 1) :
            (left \o right)[k] = IF k <= i - 1 THEN left[k] ELSE right[k - (i - 1)]
    <2>1. Len(left) + Len(right) = Len(s) - 1
        BY <1>1, <1>2, <1>3
    <2> QED
        BY <1>2, <1>3, <2>1, ConcatProperties
<1>6. ASSUME NEW k \in 1..(Len(s) - 1)
      PROVE  (left \o right)[k] = s[IF k < i THEN k ELSE k + 1]
    <2>1. CASE k < i
        BY <1>1, <1>2, <1>5, <2>1
    <2>2. CASE ~ (k < i)
        <3>1. k - (i - 1) \in 1..(Len(s) - i) /\ i + (k - (i - 1)) = k + 1
            BY <1>1, <2>2
        <3> QED
            BY <1>1, <1>3, <1>5, <2>2, <3>1
    <2> QED
        BY <2>1, <2>2
<1>7. DOMAIN (left \o right) = 1..(Len(s) - 1)
    BY <1>5, LenProperties
<1> QED
    BY <1>4, <1>5, <1>6, <1>7

LEMMA TimeoutOK ==
    ASSUME SlotsIndInv, NEW c \in Call, Timeout(c)
    PROVE  SlotsIndInv' /\ GrantInOrder /\ (Pool!GiveUp(c) \/ UNCHANGED <<Holders, Waiting>>)
<1> USE DEF SlotsIndInv
<1>1. /\ pc \in [Call -> PC] /\ activeRequests' = activeRequests /\ attempt' = attempt
      /\ aborted' = aborted \cup {c} /\ aborted' \subseteq Call
    BY DEF SlotsTypeOK, Timeout
<1>2. CASE pc[c] # "waiting"
    <2>1. pc' = pc /\ waiters' = waiters
        BY <1>2 DEF Timeout
    <2>2. Holders' = Holders /\ Waiting' = Waiting
        BY <2>1 DEF Holders, Waiting
    <2>3. SlotsTypeOK'
        BY <1>1, <2>1 DEF SlotsTypeOK
    <2>4. \A i \in DOMAIN waiters : waiters[i] # c
        BY <1>2 DEF QueueIsWaiting, Waiting
    <2>5. \A i \in DOMAIN waiters : waiters[i] \notin aborted'
        BY <1>1, <2>4 DEF LiveQueue
    <2>6. GrantInOrder
        BY <2>1 DEF GrantInOrder
    <2> QED
        BY <1>1, <2>1, <2>2, <2>3, <2>5, <2>6, SameHolders
<1>3. CASE pc[c] = "waiting"
    <2>1. PICK i \in 1..Len(waiters) : waiters[i] = c /\ waiters' = RemoveAt(waiters, i)
        BY <1>3, Queue DEF Timeout, RejectWaiter
    <2>2. pc' = [pc EXCEPT ![c] = "idle"]
        BY <1>3 DEF Timeout, RejectWaiter
    <2>3. Holders' = Holders /\ Waiting' = Waiting \ {c} /\ c \in Waiting
        BY <1>1, <1>3, <2>2 DEF Holders, Waiting, PC
    <2>4. \A j, k \in 1..Len(waiters) : waiters[j] = waiters[k] => j = k
        BY Queue DEF QueueIsWaiting
    <2>5. /\ waiters' \in Seq(Call) /\ DOMAIN waiters' = 1..(Len(waiters) - 1)
          /\ \A k \in 1..(Len(waiters) - 1) : waiters'[k] = waiters[IF k < i THEN k ELSE k + 1]
        BY <2>1, <2>4, Without DEF SlotsTypeOK
    <2>6. SlotsTypeOK'
        BY <1>1, <2>2, <2>5 DEF SlotsTypeOK, PC
    <2>7. \A k \in 1..(Len(waiters) - 1) :
              /\ (IF k < i THEN k ELSE k + 1) \in 1..Len(waiters)
              /\ (IF k < i THEN k ELSE k + 1) # i
        BY Queue
    <2>8. \A j, k \in DOMAIN waiters' : waiters'[j] = waiters'[k] => j = k
        <3> SUFFICES ASSUME NEW j \in 1..(Len(waiters) - 1), NEW k \in 1..(Len(waiters) - 1),
                            waiters'[j] = waiters'[k]
                     PROVE  j = k
            BY <2>5
        <3>1. (IF j < i THEN j ELSE j + 1) = (IF k < i THEN k ELSE k + 1)
            BY <2>4, <2>5, <2>7
        <3> QED
            BY <3>1, Queue
    <2>9. {waiters'[k] : k \in DOMAIN waiters'} = Waiting \ {c}
        <3>1. ASSUME NEW k \in DOMAIN waiters' PROVE waiters'[k] \in Waiting \ {c}
            <4>1. PICK l \in 1..Len(waiters) : l # i /\ waiters'[k] = waiters[l]
                BY <2>5, <2>7
            <4> QED
                BY <2>1, <2>4, <4>1, Queue DEF QueueIsWaiting
        <3>2. ASSUME NEW d \in Waiting \ {c} PROVE \E k \in DOMAIN waiters' : waiters'[k] = d
            <4>1. PICK l \in 1..Len(waiters) : waiters[l] = d
                BY Queue DEF QueueIsWaiting
            <4>2. CASE l < i
                <5>1. l \in 1..(Len(waiters) - 1)
                    BY <4>2, Queue
                <5> QED
                    BY <2>5, <4>1, <4>2, <5>1
            <4>3. CASE i < l
                <5>1. l - 1 \in 1..(Len(waiters) - 1) /\ ~ (l - 1 < i) /\ l - 1 + 1 = l
                    BY <4>3, Queue
                <5> QED
                    BY <2>5, <4>1, <5>1
            <4> QED
                BY <2>1, <4>1, <4>2, <4>3, Queue
        <3> QED
            BY <3>1, <3>2
    <2>10. LiveQueue'
        <3> SUFFICES ASSUME NEW k \in DOMAIN waiters' PROVE waiters'[k] \notin aborted'
            BY DEF LiveQueue
        <3>1. PICK l \in 1..Len(waiters) : l # i /\ waiters'[k] = waiters[l]
            BY <2>5, <2>7
        <3> QED
            BY <1>1, <2>1, <2>4, <3>1, Queue DEF LiveQueue
    <2>11. waiters # <<>>
        BY <2>1
    <2>12. SlotsAccounted' /\ NoIdleSlot'
        BY <1>1, <2>3, <2>11 DEF SlotsAccounted, NoIdleSlot
    <2>13. Pool!GiveUp(c)
        BY <2>3 DEF Pool!GiveUp
    <2>14. GrantInOrder
        BY <1>1, <2>2 DEF GrantInOrder
    <2> QED
        BY <2>3, <2>6, <2>8, <2>9, <2>10, <2>12, <2>13, <2>14 DEF QueueIsWaiting
<1> QED
    BY <1>2, <1>3

-----------------------------------------------------------------------------
(* Every step *)

\* The steps of a call that keeps its slot.
LEMMA KeepOK ==
    ASSUME SlotsIndInv, NEW c \in Call, c \in Holders,
           \E p \in {"fetching", "cancelling", "reading"} : pc' = [pc EXCEPT ![c] = p],
           attempt' \in [Call -> 0..BACKEND_ATTEMPTS],
           UNCHANGED <<aborted, activeRequests, waiters>>
    PROVE  SlotsIndInv' /\ GrantInOrder /\ UNCHANGED <<Holders, Waiting>>
<1>1. pc \in [Call -> PC]
    BY DEF SlotsIndInv, SlotsTypeOK
<1>2. Holders' = Holders /\ Waiting' = Waiting
    BY <1>1 DEF Holders, Waiting, PC
<1>3. SlotsTypeOK'
    BY <1>1 DEF SlotsIndInv, SlotsTypeOK, PC
<1>4. GrantInOrder
    BY <1>1 DEF GrantInOrder
<1>5. \A i \in DOMAIN waiters : waiters[i] \notin aborted'
    BY DEF SlotsIndInv, LiveQueue
<1> QED
    BY <1>2, <1>3, <1>4, <1>5, SameHolders

LEMMA RetryOK ==
    ASSUME SlotsIndInv, NEW c \in Call, c \in Holders, Retry(c)
    PROVE  SlotsIndInv' /\ GrantInOrder /\ UNCHANGED <<Holders, Waiting>>
<1>1. attempt' \in [Call -> 0..BACKEND_ATTEMPTS]
    BY BackendSlotsAssumption DEF SlotsIndInv, SlotsTypeOK, Retry
<1>2. \E p \in {"fetching", "cancelling", "reading"} : pc' = [pc EXCEPT ![c] = p]
    BY DEF Retry
<1> QED
    BY <1>1, <1>2, KeepOK DEF Retry

LEMMA StepOK ==
    ASSUME SlotsIndInv, SlotsNext
    PROVE  SlotsIndInv' /\ GrantInOrder /\ [Pool!Next]_<<Holders, Waiting>>
<1>1. PICK c \in Call :
          \/ CallBackend(c) \/ Continue(c)
          \/ FetchRejects(c) \/ BodyEnds(c) \/ Timeout(c)
          \/ \E ok \in BOOLEAN : FetchResolves(c, ok)
          \/ \E retryable \in BOOLEAN : Cancelled(c, retryable)
    BY Zenon DEF SlotsNext
<1>2. pc[c] \in {"granted", "fetching", "cancelling", "reading"} => c \in Holders
    BY DEF Holders
<1>3. CASE CallBackend(c)
    BY <1>3, CallOK DEF Pool!Next
<1>4. ASSUME c \in Holders, Finish(c)
      PROVE  SlotsIndInv' /\ GrantInOrder /\ [Pool!Next]_<<Holders, Waiting>>
    BY <1>4, FinishOK DEF Pool!Next
<1>5. CASE Continue(c)
    <2>1. ASSUME pc' = [pc EXCEPT ![c] = "fetching"], attempt' = [attempt EXCEPT ![c] = 1],
                 UNCHANGED <<aborted, activeRequests, waiters>>
          PROVE  SlotsIndInv' /\ GrantInOrder /\ UNCHANGED <<Holders, Waiting>>
        <3>1. attempt' \in [Call -> 0..BACKEND_ATTEMPTS]
            BY <2>1, BackendSlotsAssumption DEF SlotsIndInv, SlotsTypeOK
        <3>2. c \in Holders
            BY <1>2, <1>5 DEF Continue
        <3>3. \E p \in {"fetching", "cancelling", "reading"} : pc' = [pc EXCEPT ![c] = p]
            BY <2>1
        <3> QED
            BY <2>1, <3>1, <3>2, <3>3, KeepOK
    <2> QED
        BY <1>2, <1>4, <1>5, <2>1 DEF Continue
<1>6. CASE FetchRejects(c)
    BY <1>2, <1>4, <1>6, RetryOK DEF FetchRejects
<1>7. CASE BodyEnds(c)
    BY <1>2, <1>4, <1>7 DEF BodyEnds
<1>8. CASE Timeout(c)
    BY <1>8, TimeoutOK DEF Pool!Next
<1>9. ASSUME NEW ok \in BOOLEAN, FetchResolves(c, ok)
      PROVE  SlotsIndInv' /\ GrantInOrder /\ [Pool!Next]_<<Holders, Waiting>>
    <2>1. \E p \in {"fetching", "cancelling", "reading"} : pc' = [pc EXCEPT ![c] = p]
        BY <1>9 DEF FetchResolves
    <2>2. attempt' \in [Call -> 0..BACKEND_ATTEMPTS] /\ UNCHANGED <<aborted, activeRequests, waiters>>
        BY <1>9 DEF FetchResolves, SlotsIndInv, SlotsTypeOK
    <2> QED
        BY <1>2, <1>9, <2>1, <2>2, KeepOK DEF FetchResolves
<1>10. ASSUME NEW retryable \in BOOLEAN, Cancelled(c, retryable)
       PROVE  SlotsIndInv' /\ GrantInOrder /\ [Pool!Next]_<<Holders, Waiting>>
    BY <1>2, <1>4, <1>10, RetryOK DEF Cancelled
<1> QED
    BY <1>1, <1>3, <1>5, <1>6, <1>7, <1>8, <1>9, <1>10

LEMMA StutterOK ==
    ASSUME SlotsIndInv, UNCHANGED slotsVars
    PROVE  SlotsIndInv' /\ GrantInOrder /\ UNCHANGED <<Holders, Waiting>>
<1>1. Holders' = Holders /\ Waiting' = Waiting /\ SlotsTypeOK'
    BY DEF slotsVars, Holders, Waiting, SlotsIndInv, SlotsTypeOK
<1>2. GrantInOrder
    BY DEF slotsVars, GrantInOrder
<1> QED
    BY <1>1, <1>2 DEF slotsVars, SlotsIndInv, SlotsAccounted, QueueIsWaiting, NoIdleSlot, LiveQueue

-----------------------------------------------------------------------------
(* The theorems *)

\* The counter is the number of slots in use, the queue is the set of waiting
\* calls, and no slot is idle while a call waits, in every reachable state of
\* acquireBackendSlot and callBackend.
THEOREM SlotsSafety == SlotsSpec => []SlotsIndInv
<1>1. SlotsIndInv /\ [SlotsNext]_slotsVars => SlotsIndInv'
    BY StepOK, StutterOK
<1> QED
    BY <1>1, InitSlotsIndInv, PTL DEF SlotsSpec

\* The variables keep their types.
THEOREM SlotsTypeCorrect == SlotsSpec => []SlotsTypeOK
<1>1. SlotsIndInv => SlotsTypeOK
    BY DEF SlotsIndInv
<1> QED
    BY <1>1, SlotsSafety, PTL

\* The slot of a call is freed or passed on exactly once, however it ends.
THEOREM Accounting == SlotsSpec => []SlotsAccounted
<1>1. SlotsIndInv => SlotsAccounted
    BY DEF SlotsIndInv
<1> QED
    BY <1>1, SlotsSafety, PTL

\* The queue holds the waiting calls, each once, none that gave up.
THEOREM Queued == SlotsSpec => []QueueIsWaiting
<1>1. SlotsIndInv => QueueIsWaiting
    BY DEF SlotsIndInv
<1> QED
    BY <1>1, SlotsSafety, PTL

\* No call waits while a slot is free.
THEOREM Busy == SlotsSpec => []NoIdleSlot
<1>1. SlotsIndInv => NoIdleSlot
    BY DEF SlotsIndInv
<1> QED
    BY <1>1, SlotsSafety, PTL

\* Slots are given in the order in which calls asked.
THEOREM Order == SlotsSpec => FirstComeFirstServed
<1>1. SlotsIndInv /\ [SlotsNext]_slotsVars => [GrantInOrder]_slotsVars
    BY StepOK, StutterOK
<1> QED
    BY <1>1, SlotsSafety, PTL DEF SlotsSpec, FirstComeFirstServed

\* The counter and the list of resolvers implement the abstract pool.
THEOREM Refinement == SlotsSpec => ImplementsPool
<1>1. SlotsInit => Pool!Init
    BY DEF SlotsInit, Pool!Init, Holders, Waiting
<1>2. SlotsIndInv /\ [SlotsNext]_slotsVars => [Pool!Next]_<<Holders, Waiting>>
    BY StepOK, StutterOK
<1> QED
    BY <1>1, <1>2, SlotsSafety, PTL DEF SlotsSpec, ImplementsPool, Pool!Spec

=============================================================================
