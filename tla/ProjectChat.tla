---------------------------- MODULE ProjectChat ----------------------------
(***************************************************************************)
(* Chat turns, agent actions and versioned outputs of ONE project:         *)
(* submitProjectChat, confirmProjectAgentAction, cancelProjectAgentAction  *)
(* and executeFileAction of lib/project-chat.ts,                           *)
(* ensureCanonicalProjectDocuments of lib/project-agent-documents.ts and   *)
(* updateProject of lib/projects.ts.                                       *)
(*                                                                         *)
(* A turn is two transactions around a backend call.  The first holds a    *)
(* share lock on the project row and one advisory lock per canonical path, *)
(* so turns run it interleaved; its statements are actions of their own.   *)
(* Every other transaction locks the row for update: it waits for first    *)
(* transactions to end and is then one action.  A transaction that raises  *)
(* is rolled back: it is not enabled, or fails the turn.                   *)
(*                                                                         *)
(* The backend is not trusted: it may name any file, version and path.     *)
(* Actions are private to the user who asked for them; who that is, and    *)
(* the content of files, change nothing here.                              *)
(***************************************************************************)
EXTENDS Naturals, FiniteSets, Sequences

CONSTANTS
    Turn,           \* chat requests being served
    Action,         \* ids of project_agent_actions
    File,           \* file ids
    Path,
    CANONICAL_PROJECT_AGENT_PATHS,
    None,
    MAX_ACTIONS,    \* actions of one response
    MaxVersion      \* bound: users confirm nothing past this version

Canonical == CANONICAL_PROJECT_AGENT_PATHS

ASSUME ProjectChatAssumption ==
    /\ Canonical \in Seq(Path)
    /\ \A i, j \in DOMAIN Canonical : Canonical[i] = Canonical[j] => i = j
    /\ None \notin Path /\ None \notin File
    /\ MAX_ACTIONS \in Nat
    /\ MaxVersion \in Nat

VARIABLES
    status,         \* projects: "completed", or any other status
    progress,       \* projects: percent and version
    head,           \* project_file_heads
    versions,       \* project_files: versions of each file
    state, input,   \* project_agent_actions: status and proposed action
    \* turns
    phase,
    locked,         \* indices of the canonical paths a first transaction has locked
    missing         \* canonical paths it found no live file at

project == <<status, progress>>
files == <<head, versions>>
actions == <<state, input>>
turns == <<phase, locked, missing>>
vars == <<project, files, actions, turns>>

-----------------------------------------------------------------------------
Status == {"open", "completed"}
Percent == {"partial", "full"}          \* below 100, 100

Progress == [percent: Percent, version: Nat \ {0}]
FileHead == [version: Nat \ {0}, path: Path, deleted: BOOLEAN]
NoHead == [version |-> 0, path |-> None, deleted |-> FALSE]
Document(p) == [version |-> 1, path |-> p, deleted |-> FALSE]

\* Sanitized actions.  The file of a creation is the id the server draws for it.
Create == [type: {"create_file"}, file: File, basis: {0}, path: Path, percent: {None}]
Edit == [type: {"update_file", "delete_file"}, file: File, basis: 1..MaxVersion,
         path: {None}, percent: {None}]
        \cup [type: {"rename_file"}, file: File, basis: 1..MaxVersion,
              path: Path, percent: {None}]
Report == [type: {"update_project_progress"}, file: {None}, basis: 1..MaxVersion,
           path: {None}, percent: Percent]
Proposal == Create \cup Edit \cup Report
NoInput == [type |-> "none", file |-> None, basis |-> 0, path |-> None, percent |-> None]

Live(f) == head[f].version > 0 /\ ~head[f].deleted
Taken(p) == \E f \in File : Live(f) /\ head[f].path = p
UnusedFile == {f \in File : head[f].version = 0}
UnusedAction == {a \in Action : state[a] = "none"}

\* No first transaction holds its share lock: the row can be locked for update.
ProjectLock == \A t \in Turn : phase[t] # "bootstrap"

\* A project created by the current portal has its canonical documents; an
\* older one has none.
Init ==
    /\ status \in Status
    /\ progress \in [percent: Percent, version: {1}]
    /\ \E docs \in {{}, DOMAIN Canonical} :
         \E name \in [docs -> File] :
            /\ \A i, j \in docs : name[i] = name[j] => i = j
            /\ head = [f \in File |-> IF \E i \in docs : name[i] = f
                                       THEN Document(Canonical[CHOOSE i \in docs : name[i] = f])
                                       ELSE NoHead]
            /\ versions = [f \in File |-> IF \E i \in docs : name[i] = f THEN {1} ELSE {}]
    /\ state = [a \in Action |-> "none"]
    /\ input = [a \in Action |-> NoInput]
    /\ phase = [t \in Turn |-> "idle"]
    /\ locked = [t \in Turn |-> {}]
    /\ missing = [t \in Turn |-> {}]

-----------------------------------------------------------------------------
(* The first transaction of a turn *)

BeginTurn(t) ==
    /\ phase[t] = "idle"
    /\ phase' = [phase EXCEPT ![t] = "bootstrap"]
    /\ UNCHANGED <<project, files, actions, locked, missing>>

\* Paths are locked in their order, each until the transaction ends, and
\* looked up once they are.
\* Mutant: the order is not kept.
NextInAnyOrder(t, i) == \A u \in Turn : i \notin locked[u]

NextPath(t, i) ==
    /\ locked[t] = 1..(i - 1)
    /\ \A u \in Turn : i \notin locked[u]

LockPath(t, i) ==
    /\ phase[t] = "bootstrap"
    /\ NextPath(t, i)
    /\ locked' = [locked EXCEPT ![t] = @ \cup {i}]
    /\ missing' = [missing EXCEPT ![t] =
                      IF Taken(Canonical[i]) THEN @ ELSE @ \cup {Canonical[i]}]
    /\ UNCHANGED <<project, files, actions, phase>>

Checked(t) == phase[t] = "bootstrap" /\ locked[t] = DOMAIN Canonical

\* What was missing is created, unless the unique index of live paths objects.
CommitBootstrap(t) ==
    /\ Checked(t)
    /\ \A p \in missing[t] : ~Taken(p)
    /\ \E name \in [missing[t] -> UnusedFile] :
          /\ \A p, q \in missing[t] : name[p] = name[q] => p = q
          /\ head' = [f \in File |->
                        IF \E p \in missing[t] : name[p] = f
                        THEN Document(CHOOSE p \in missing[t] : name[p] = f)
                        ELSE head[f]]
          /\ versions' = [f \in File |->
                            IF \E p \in missing[t] : name[p] = f THEN {1} ELSE versions[f]]
    /\ phase' = [phase EXCEPT ![t] = "thinking"]
    /\ locked' = [locked EXCEPT ![t] = {}]
    /\ missing' = [missing EXCEPT ![t] = {}]
    /\ UNCHANGED <<project, actions>>

\* An error in either transaction or in the backend call.
FailTurn(t) ==
    /\ phase[t] # "idle"
    /\ phase' = [phase EXCEPT ![t] = "idle"]
    /\ locked' = [locked EXCEPT ![t] = {}]
    /\ missing' = [missing EXCEPT ![t] = {}]
    /\ UNCHANGED <<project, files, actions>>

-----------------------------------------------------------------------------
(* The second transaction of a turn *)

\* assertPathAvailable for file f.
\* Mutant: a file is not compared with those renamed since it was created.
PathAvailableAtCreation(f, p) == ~\E g \in File \ {f} : head[g] = Document(p)
PathAvailable(f, p) == ~\E g \in File \ {f} : Live(g) /\ head[g].path = p

\* A progress proposal the message did not authorize is filtered out; 100%
\* needs a completed project.
Authorized(a) == a.percent = "full" => status = "completed"

Creations(response) == {a \in DOMAIN response : response[a].type = "create_file"}

\* Creations are executed at once, in one transaction with everything else of
\* the response: if one fails, the turn fails.
SubmitProjectChat(t, response) ==
    LET created == Creations(response)
        file(a) == response[a].file
        path(a) == response[a].path
    IN
    /\ phase[t] = "thinking"
    /\ ProjectLock
    /\ \A a \in DOMAIN response : Authorized(response[a])
    /\ \A a \in created : file(a) \in UnusedFile /\ PathAvailable(file(a), path(a))
    /\ \A a, b \in created : file(a) = file(b) \/ path(a) = path(b) => a = b
    /\ head' = [f \in File |->
                  IF \E a \in created : file(a) = f
                  THEN Document(path(CHOOSE a \in created : file(a) = f)) ELSE head[f]]
    /\ versions' = [f \in File |->
                      IF \E a \in created : file(a) = f THEN {1} ELSE versions[f]]
    /\ input' = [a \in Action |-> IF a \in DOMAIN response THEN response[a] ELSE input[a]]
    /\ state' = [a \in Action |->
                   IF a \in created THEN "confirmed"
                   ELSE IF a \in DOMAIN response THEN "pending" ELSE state[a]]
    /\ phase' = [phase EXCEPT ![t] = "idle"]
    /\ UNCHANGED <<project, locked, missing>>

-----------------------------------------------------------------------------
(* Decisions about pending actions *)

\* Mutants: latestFileForUpdate compares no version; it does not look at
\* deleted_at.
LatestAnyVersion(a) == Live(a.file)
LatestEvenDeleted(a) == head[a.file].version = a.basis

Latest(a) == Live(a.file) /\ head[a.file].version = a.basis

ExecuteFileAction(a) ==
    LET previous == head[a.file]
        version == previous.version + 1
    IN
    /\ Latest(a)
    /\ a.type = "rename_file" => PathAvailable(a.file, a.path)
    /\ version \notin versions[a.file]      \* unique(project_id, file_id, version)
    /\ versions' = [versions EXCEPT ![a.file] = @ \cup {version}]
    /\ head' = [head EXCEPT ![a.file] =
                  [version |-> version,
                   path |-> IF a.type = "rename_file" THEN a.path ELSE previous.path,
                   deleted |-> a.type = "delete_file"]]

UpdateProgress(a) ==
    /\ Authorized(a)
    /\ a.basis = progress.version
    /\ progress' = [percent |-> a.percent, version |-> progress.version + 1]

\* Mutant: the project row is locked for share.
ConfirmUnderShareLock(a) ==
    /\ state[a] = "pending"
    /\ input[a].basis < MaxVersion
    /\ state' = [state EXCEPT ![a] = "confirmed"]
    /\ \/ input[a] \in Report /\ UpdateProgress(input[a]) /\ UNCHANGED files
       \/ input[a] \in Edit /\ ExecuteFileAction(input[a]) /\ UNCHANGED progress
    /\ UNCHANGED <<status, input, turns>>

ConfirmProjectAgentAction(a) ==
    /\ state[a] = "pending"
    /\ input[a].basis < MaxVersion
    /\ ProjectLock
    /\ state' = [state EXCEPT ![a] = "confirmed"]
    /\ \/ input[a] \in Report /\ UpdateProgress(input[a]) /\ UNCHANGED files
       \/ input[a] \in Edit /\ ExecuteFileAction(input[a]) /\ UNCHANGED progress
    /\ UNCHANGED <<status, input, turns>>

CancelProjectAgentAction(a) ==
    /\ state[a] = "pending"
    /\ state' = [state EXCEPT ![a] = "cancelled"]
    /\ UNCHANGED <<project, files, input, turns>>

\* The client edits the project; any status may follow any.
UpdateProject(s) ==
    /\ ProjectLock
    /\ status' = s
    /\ UNCHANGED <<progress, files, actions, turns>>

-----------------------------------------------------------------------------
Next ==
    \/ \E t \in Turn :
          \/ BeginTurn(t) \/ CommitBootstrap(t) \/ FailTurn(t)
          \/ \E i \in DOMAIN Canonical : LockPath(t, i)
          \/ \E rows \in SUBSET UnusedAction :
                /\ Cardinality(rows) <= MAX_ACTIONS
                /\ \E response \in [rows -> Proposal] : SubmitProjectChat(t, response)
    \/ \E a \in Action : ConfirmProjectAgentAction(a) \/ CancelProjectAgentAction(a)
    \/ \E s \in Status : UpdateProject(s)

Spec == Init /\ [][Next]_vars

-----------------------------------------------------------------------------
(* Properties *)

TypeOK ==
    /\ status \in Status
    /\ progress \in Progress
    /\ head \in [File -> FileHead \cup {NoHead}]
    /\ versions \in [File -> SUBSET Nat]
    /\ state \in [Action -> {"none", "pending", "confirmed", "cancelled"}]
    /\ input \in [Action -> Proposal \cup {NoInput}]
    /\ phase \in [Turn -> {"idle", "bootstrap", "thinking"}]
    /\ locked \in [Turn -> SUBSET (DOMAIN Canonical)]
    /\ missing \in [Turn -> SUBSET Path]

\* The unique index of live paths never has to object: what a first
\* transaction found missing stays missing until it creates it.
BootstrapIsUndisturbed ==
    \A t \in Turn : phase[t] = "bootstrap" => \A p \in missing[t] : ~Taken(p)

\* No two live files have one path, over creations, renames, deletions and
\* first transactions in any order.
LivePathsUnique ==
    \A f, g \in File : Live(f) /\ Live(g) /\ head[f].path = head[g].path => f = g

\* When a turn reads the context for the backend, every canonical document
\* is there, the ones it found in earlier statements included.
ContextIsComplete ==
    [][\A t \in Turn : phase[t] = "bootstrap" /\ phase'[t] = "thinking" =>
          \A i \in DOMAIN Canonical : Taken(Canonical[i])']_vars

\* The audit trail is complete and exact: the versions of a file are 1 to its
\* head, and each after the first was made by exactly one confirmed action,
\* which named the version before it.
Confirmed(type) == {a \in Action : state[a] = "confirmed" /\ input[a] \in type}
EditsOf(f) == {a \in Confirmed(Edit) : input[a].file = f}
OnePerVersion(rows, last) ==
    /\ {input[a].basis : a \in rows} = 1..(last - 1)
    /\ \A a, b \in rows : input[a].basis = input[b].basis => a = b
FilesAreAudited ==
    \A f \in File :
        /\ versions[f] = 1..head[f].version
        /\ head[f].version > 0 => OnePerVersion(EditsOf(f), head[f].version)
        /\ head[f].version = 0 => EditsOf(f) = {}

\* So is the progress of the project.
ProgressIsAudited == OnePerVersion(Confirmed(Report), progress.version)

\* Both trails: nothing changes a file or the progress without exactly one
\* confirmed action to show for it (executeFileAction, confirmProjectAgentAction).
AuditTrailIsExact == FilesAreAudited /\ ProgressIsAudited

\* A removed file never comes back under its id.
RemovedForGood == [][\A f \in File : head[f].deleted => head'[f] = head[f]]_vars

\* Progress reaches 100% only in a completed project, though the status may
\* change between a proposal and its confirmation.
FullWhenCompleted ==
    [][progress.percent # "full" /\ progress'.percent = "full" => status = "completed"]_vars

\* First transactions never wait for each other in a circle: of those under
\* way, one always has its next lock for the asking or has all of them.
FirstTransactionsProceed ==
    (\E t \in Turn : phase[t] = "bootstrap") =>
        \E t \in Turn :
            /\ phase[t] = "bootstrap"
            /\ Checked(t) \/ \E i \in DOMAIN Canonical : NextPath(t, i)

=============================================================================
