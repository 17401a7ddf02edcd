# Employee Tracker verification

TLA+ models, TLC runs and TLAPS proofs about the Employee Tracker portal (`src/`): a Next.js
application over PostgreSQL in which clients and engineers share projects, a chat backend acts as
project agent, and an agent on the engineer's machine reports the Git activity of selected
repositories.

Modelled are repository discovery and leased device work, Git telemetry from the hook of a clone to
the row in the portal, the enrolment of both kinds of agent, accounts and sessions, projects and
memberships, project chat with its versioned outputs, the slots in front of the chat backend and the
bridge behind it, files-agent telemetry with its wipe and its daily summary, and the workspace page.

## 1. The system

| Component | State | Operations | What is hard |
| --- | --- | --- | --- |
| Repository discovery and device work (`lib/tracemini-discovery.ts`, link in `lib/tracemini-node-git.ts`) | scan requests, candidates, selections, tracked repositories, project roots (bindings), pending pushes; claim tokens on rows | request a scan, publish candidates, select / stop, link to a project, poll for work, complete work, report a push | work is leased for ten minutes and redelivered; answers come late, twice or never; one poll writes many rows; authority changes in between |
| Node Git operations, cloud adapter, vendored agent (`lib/tracemini-node-git.ts`, `packages/tracemini-cloud-adapter`, `vendor/tracemini/.../agent.ts`) | registrations, events, pushes in the portal; mapping files, configured clones and a durable queue on the device | register, record activity, announce and confirm a push, poll, complete; import history, flush, purge | requests authorized before a stop commit after it; lost answers and crashes between two files; retries of what was stored |
| Embedded TraceMini configuration (`lib/tracemini.ts`) | pause, epoch and settings of a project, roots, reports, schedules | save, pause, resume, wipe, withdraw a root | a wipe or a pause that races work in flight |
| Node installation (`lib/tracemini-install.ts`) | install tokens, devices, credentials on machines | mint, exchange, abort, expire | limits counted by requests that race; an exchange whose answer is lost |
| Authentication (`lib/auth.ts`, account functions of `lib/db.ts`) | companies, accounts, signed cookies | register, sign up, approve, review, recover, log in and out | a registration is two inserts without a transaction; a cookie is a copy of the account for twelve hours |
| Projects and memberships (`lib/projects.ts`, `ProjectsClient.tsx`) | projects, memberships, records, artifacts; the form on the page | create, update, link, invite, request, decide, version | idempotent creation over retries and edits; decisions that race, from two releases; two orders of row locks |
| Project chat (`lib/project-chat.ts`, `lib/project-agent-documents.ts`) | project files and heads, pending actions, progress percent and version | submit, confirm, cancel; seeding of canonical documents | two transactions around a network call; proposals refer to versions that may be gone; advisory locks taken one by one |
| Chat backend slots (`acquireBackendSlot`, `callBackend`) | `activeRequests`, `waiters`, in the memory of one server | acquire, release, two attempts, abort by timer | promises resolve before their continuation runs; a timer fires between the two |
| Project agent bridge (`scripts/project-agent-bridge.mjs`) | slots, process groups, scratch directories | accept, run Codex, abort, time out, clean up | a dozen ways to end, several at once; processes outlive their leader and the bridge |
| Files agent enrolment and ingest (`lib/files-agent.ts`) | enrolment codes, devices, events | issue, exchange, ingest, revoke, retention | counts read in the snapshot of a waiting statement; a pause that an ingest under way has not seen |
| Daily summary and telemetry wipe (`lib/files-agent-daily-summary.ts`, its route, `lib/db.ts`, the bootstrap route) | summaries, the pause flag, connections of the pool | walk the tenants, deliver, expire; pause, resume, wipe in one or in many batches | tenants and events arrive during the walk; two calendars; delivery and ingest race the wipe; a request that needs two connections |
| Workspace page (`WorkspaceClient.tsx`) | what it shows, what was typed, `busy`, request counters | load, send a message, decide, update, invite | loads overtake each other; every operation clears the state of every other |
| Progress policy and TraceMini evidence (`lib/tracemini-progress.ts`) | evidence rows, progress version | evaluate evidence, confirm a proposal | no code inserts evidence |
| Report worker, embedded ingest, packages, dashboards, helpers | | | see section 7 |

The components share the database and call each other in a few places only.  Browsers call the
portal; the portal never calls a device: devices poll.  The portal calls one service, the chat
backend, over HTTP, which may be the bridge.  Accounts decide who has a session and a device;
memberships decide what discovery may match a repository to; the link operation of the Node client
writes the candidate rows of discovery; discovery, telemetry, chat and memberships all lock rows of
the same tables before they write, and it is these locks that the models take as the unit of a step.

What makes each modelled component correct:

* Discovery: credentials and tracked rows follow the decision of the user in force; an acknowledged
  decision is settled; nothing pending is lost to a crash; the page says what is the case.
* Telemetry: whoever says stop is obeyed at once; what a hook recorded is neither lost nor forgotten;
  a push counts only as the device verified it.
* Accounts and installation: approvals are final, a session that died stays dead, one founder per
  company, one live device per machine and the limits of an account over racing requests.
* Projects: one project per submitted content; members by consent of both sides; decisions final.
* Slots and bridge: no slot is lost or counted twice, nobody waits beside a free slot, first come
  first served; every process and directory belongs to a slot; an output is genuine.
* Chat: each version of a file or of the progress comes from exactly one confirmed action that named
  the version before it; live paths are unique; documents are seeded once; no circular wait.
* Files agent and summary: limits hold over concurrent requests; nothing is recorded while paused;
  what a finished wipe removed stays removed; each tenant gets each day once, without any text.
* Workspace: one message at a time; a page at rest shows what the portal holds; the box stays the
  client's.

## 2. Modules

| Module | Models | Source |
| --- | --- | --- |
| `Discovery` | one enrolled device, its repositories and the projects that may claim them | `lib/tracemini-discovery.ts`, the browser's operations of `lib/tracemini-node-git.ts`, migrations 019, 020, 023 |
| `TracingConsent` | abstract: what the owner of a device is promised about each repository | implemented by `Discovery` |
| `Telemetry` (extends `Discovery`) | one device end to end: owner's controls, telemetry requests, adapter, agent loop, hooks and queue | `lib/tracemini.ts`, `lib/tracemini-node-git.ts`, `packages/tracemini-cloud-adapter`, `vendor/.../agent.ts`, migration 022 |
| `Accounts` | companies, accounts, their approval and their sessions | `lib/db.ts`, `lib/auth.ts`, `reviewAccount` |
| `NodeInstall` (extends `Accounts`) | install tokens, exchanges, devices and credentials of the Node CLI | `lib/tracemini-install.ts`, migration 021 |
| `Projects` | creation, memberships, decisions, proposals, records, links and what users are shown | `lib/projects.ts`, `ProjectsClient.tsx`, triggers in `lib/db.ts` |
| `ProjectChat` | chat turns, agent actions, versioned files and progress of one project | `lib/project-chat.ts`, `lib/project-agent-documents.ts`, migrations 006, 008 |
| `BackendSlots` | the calls of one server process to the chat backend | `lib/project-chat.ts` |
| `SlotPool` | abstract: a bounded pool with a bounded queue | implemented by `BackendSlots` |
| `AgentBridge` | requests, slots and Codex process groups of the bridge | `scripts/project-agent-bridge.mjs` |
| `FilesAgent` | enrolment codes and devices, ingest, the summary, pause and wipe of one company | `lib/files-agent.ts`, `lib/files-agent-daily-summary.ts:237-360`, `lib/db.ts`, the bootstrap route, migrations 002, 004 |
| `DailySummary` | the cron over the tenants, what a summary counts and keeps, its days | `lib/files-agent-daily-summary.ts`, the daily-summary route |
| `Workspace` | the workspace page of a client against the portal | `WorkspaceClient.tsx`, what it reads |
| `MC*` | values of the constants and symmetry sets for TLC | |
| `Discovery_proofs`, `Projects_proofs`, `ProjectChat_proofs`, `AgentBridge_proofs`, `FilesAgent_proofs`, `DailySummary_proofs`, `NodeInstall_proofs`, `Workspace_proofs` | theorems and proofs; `Discovery_proofs` is also about `Telemetry`, `NodeInstall_proofs` about `Accounts`, `ProjectChat_proofs` about `BackendSlots` | |

### Discovery

Each handler is one transaction that locks the row of the device first, so each is one action; a
handler that raises rolls back and is an action that is not enabled.  Devices share no rows but the
projects, so one device is modelled.  The variables are the columns of the tables:
`known, matched, status, explicit, tracking, revision` are those of
`tracemini_repository_candidates`, `sel` a row of `tracemini_repository_selections`, `tracked` the
project of a row of `tracemini_tracked_repositories`, `root` the row of `project_tracemini_roots`
with the hash of the candidate, `scan` the newest scan request and `push` the pending pushes.
`claimed_at` is `Lease`: null, recent or older than ten minutes.  A claim token is a number drawn
from `claims`.

`issued` is the network and the device: every item a poll handed out stays there, and an answer to
it may be sent late, twice, in any order or never, until a crash loses it.  `Answer` lets the device
give any answer the handler accepts, a failed activation included.  `GrantAccess`,
`AttachProjectGitRemote`, `RevokeTraceMiniRoot` and `RevokeDevice` are what the rest of the portal
does to what discovery reads; authority only grows, because no operation of `lib/projects.ts`
withdraws an active membership.

`ClaimDeviceWork` is the poll: in one step it takes a due scan, every due selection (refusing those
that lost their authority, binding the others) and every due push.  If one candidate cannot be bound
(`BindingConflict`, the unique keys of `project_tracemini_roots`) the whole poll raises.  `Listed`
and `Shown` are what `listRepositoryCandidates` and the page of repositories make of these rows.

### BackendSlots

A call is at one of the points of `PC`: waiting for a slot, granted one but not yet continued,
fetching, reading or cancelling a body, between attempts, or idle.  A waiter's promise is resolved
by the call that passes on its slot (`Release`), and only runs later (`Continue`): the two are two
actions, and everything else, the timer (`Timeout`) included, may happen in between.  The backend
may reject, answer with an error to be retried, answer or hang at any point.

### ProjectChat

A turn has a first transaction that locks the project row for share and then one advisory lock per
canonical path; first transactions interleave, so `BeginTurn`, `LockPath` and `CommitBootstrap` are
actions of their own.  Every other transaction locks the project row for update (`ProjectLock`), so
it excludes first transactions and is one action.  `thinking` is the call to the backend, which may
propose any actions for any file, version and path, guesses and stale versions included.  Creations
are executed with the response, everything else waits for `ConfirmProjectAgentAction` or
`CancelProjectAgentAction`.  A file id is drawn at random by the server and never drawn again
(`UnusedFile`).  Actions are private to the user who asked for them; which user that is changes
nothing in the other rows and is left out, as are the contents of files and messages.

### FilesAgent

A step is what a request does between two waits, for a lock of the database or for a connection of
the pool (`ConnectionFree`).  A request for a code is two steps, because its single statement takes
its snapshot (`MintBegin`) before it gets the lock inside and inserts (`MintInserts`).  An exchange
locks its code (`ExchangeBegin`), then the user (`ExchangeCounts`, which counts in a statement of
its own), then inserts; `UserLockFree` is the advisory lock of the user.  An ingest reads the pause
for share (`share` are the ingests that hold the row, `PauseRowFree` is what a change of the flag
waits for), then locks its device and inserts.  A delivery takes the lock of the summaries, reads
the pause and stores.  A wipe sets the pause, takes a connection, the lock of the summaries, and
then a connection for every statement; `WipeGoes` is what it does next, `zero` the wipes whose
batch has deleted nothing so far, `full` those that repeat until nothing is left.  A statement that
a foreign key refuses is not enabled; `WipeRaises` answers 500 then, and when no connection came.

Rows are named by their code: a device is the device of its code, an event a pair of a device and an
event id, both unique in the database.  `age` is the time since a code was issued, as far as the
code tells it apart: ten minutes, an hour, a day.  `FirstPause` is the row of the pause in
`app_settings` before the first request; a new database has none.  `vouched` and `clean` say of a
wipe that nobody resumed telemetry since its pause, and that it reported to be done.

### Telemetry

Extends `Discovery`, whose transactions on candidates, selections and leases it uses as they are, and
replaces the arbitrary device by the real one.  The portal gains the pause and the epoch of a
project, registrations and events; the device has the adapter's mapping file (`mapping`), the work
of its last poll (`hand`), the place in its loop (`job`), the clones it traces and its queue.  A
telemetry transaction is `Begin` (authorize, and lock candidate, selection, root and project) and a
commit per operation; `Locks` says what other transactions cannot do in between.  The device may
stop waiting at any moment (`LoseAnswer`, `AgentCrash`); the transaction commits unheard.  Saves of
the configuration read and write in two steps.  `recorded`, `delivered` and `retired` are history;
a project stays in the list a poll returns while the device traces another repository of it
(`ListedFor`): one of the modelled ones, or of those left out, whose projects are `siblings`.

### Accounts and NodeInstall

`Accounts` has the table of companies, the account of each email, and in each browser the token: a
copy of the account as it was at login, which every request compares with the row (`Current`).  A
registration is two inserts and may die between them (`RegistrationDies`); all else is one statement.
`NodeInstall` adds what an account enrols.  Minting and exchanging lock the account first and count
in another statement, so each is two steps; the answer of an exchange may not reach the machine
(`Answered`), which keeps the credential it had, and may lose it (`LosesCredential`).

### Projects

A request that waits or decides by what an earlier statement read has several steps, `op` says
which; being at a step is holding its locks (`MemberLocked`, `ProjectLocked`, `RecordLocked`), and
whatever one statement decides is one action.  A page (`pages`) has a form, its idempotency key and
how often it was edited; it may give up on an answer at any time and submit again.  The initial
states include a project of the time before creation keys and a proposal that waits for a decision;
`DecideProposal` is a process of the release before, as the trigger lets it act.  `Listed`,
`LinkShown` and `Section` are what `listProjects` and the page make of the rows.

### AgentBridge

`pc` is the await a request is suspended at, `child` its Codex process, `stragglers` the groups
whose leader ended but which still hold the pipes, `deaf` the requests aborted before anybody
listened to the abort.  A crash makes running groups `orphans` and directories `litter`.

### DailySummary

A cron request reads pages of companies by id (`FetchPage`), turns to each (`NextTenant`) and
delivers in a transaction that may have begun long before it gets its lock (`began`).  Ids are given
in order and become visible in any order.  `Build` is what a summary counts, over groups of events as the
query makes them, `Sanitize` what is kept; `Namings` are other texts the same telemetry could have
had, which tell the same projects apart.  A total is the number of units of what is summed; `Tally`
is the grouping, and `CountBy` what `increment` makes of it in an object that starts as `{}`: a string
under an `Inherited` name, nothing under `Proto`.  Users, devices and projects have a `Place`, which is
what sorting comes to: users and devices with equal counts stand in the order of their texts, as in the
arrays that are stored, and where a string is among the counts of projects any order may come out
(`Tops`).  Time is ticks; Karachi is `Offset` ahead of UTC.

### Workspace

The page has what it shows, the banner, `busy`, the text in the box and two refs; the requests it
made are `chats` and `ops`.  `Serve` answers one part of a load at a time, so a load may see the
portal in three different states.  The handlers of the portal are one step each; other people act
by `Join` and `DecideElsewhere`.  `unsure` remembers that the page was not told of something.

## 3. Runs

| Run | Question | Bounds |
| --- | --- | --- |
| `discovery` | do bindings and tracked rows follow the decision in force, is the page honest, what do late, repeated and re-leased answers do, and does the code implement `TracingConsent`? | 1 repository, 2 projects that may both claim it (matches are unique, ambiguous or none), 4 new decisions (revisions 1 to 5), so that the conflict of section 6 is reached, 1 scan, 1 push, 1 timeout that elapses although the device holds the work |
| `discovery_live` | does everything pending settle as long as no poll must raise, and do two clones that one poll or one scan handles disturb each other? | 2 clones of one repository, 2 projects; starts at `MCStopped`: both were traced into one project and stopped, a poll has handed out one of them, selected again, and a scan, which a crash may lose; the other may be linked to the second project and selected |
| `telemetry` | does a stop stop, is anything recorded lost, does everything recorded arrive? | 1 clone, the only one of its project or not (then no saves and wipes), 1 commit of history, 1 hook event, 1 push, 3 decisions (revisions 2 to 5), 1 save or wipe, 1 crash or lost answer |
| `accounts` | do accounts, sessions and installations agree over races, failures and lost answers? | 2 accounts of one domain, 2 requests, 1 browser, 2 tokens, 2 devices, 2 machines, both limits 1 |
| `projects` | one project per content, members by consent, decisions final, lists exact? | 2 projects, 1 client, 1 engineer, a page of each, 2 forms, 1 edit, 2 keys, 2 requests, 2 versions |
| `chat` | do versions, paths and progress stay consistent under stale proposals, and first transactions seed the documents once without waiting in a circle? | 2 turns, 2 canonical paths, 2 actions, 3 files, versions up to 3 |
| `slots` | are slots accounted for over every end of a call, is `SlotPool` implemented, does every call end? | 4 calls, 1 slot, 2 places: both limits are reached and one call is turned away |
| `bridge` | are slots, processes and directories accounted for, are outputs genuine, does every request end? | 3 requests, 2 slots, 1 fault |
| `files_agent` | does anything come back after a wipe, or get recorded during a pause; does the limit of devices hold over concurrent exchanges? | 2 codes and 2 exchanges (limit 1), ingest, delivery, wipe, 3 connections, batches of 1 row |
| `files_agent_live` | does a repeated full wipe get done, and does it stay so across a crash? | 1 request of each of the five kinds (code, exchange, ingest, delivery, wipe), 5 connections; a wipe uses two at a time, so one request may still have to wait; 1 crash |
| `summary` | is each tenant served once, on the right day, with numbers that agree and no text? | 3 companies, pages of 2, 5 events on shared devices and paths, among them ties and, on the second day, a project named like an inherited property and an agent named `__proto__`, days of 4 ticks, 5 ticks, 1 day kept |
| `workspace` | one message at a time, a quiet page exact, the box the client's? | 2 messages, 2 other operations at once, 1 engineer, 4 events (operations, losses, commits of others) |

Why they are enough.  In `Discovery` rows of different candidates meet only in matching and in the
transactions that handle several of them, which takes two candidates (`discovery_live`).  A race of
leases takes a second holder of one piece of work, hence one expiry, and two answers from each
because answers repeat; a relink takes a track, a stop, a link and a track, hence four decisions, the
last of which meets the row of the former project.  `discovery_live` begins where such a life has
come to its stop, so that a crash, a scan, a second clone and the relinked selection fit in one run.
In `Telemetry` the stale registration of an earlier decision takes a track, a stop and a track again,
and a crash between two writes takes one crash.  `BackendSlots` needs a queue of two to tell the
order of grants, and one call more than slots and places; the bridge likewise one request more than
slots.  In `ProjectChat` a lost update takes two actions on one version; two paths and two turns give
every circular wait there is between two transactions.  In `NodeInstall` every race is one of two
requests, and a machine that comes back meets its own row or another's.  In `Projects` two requests
of one page (the first given up on) and two keys show a creation done twice; a second engineer adds
no race, since no statement writes two memberships but the one of a creation.  In `FilesAgent` a wipe races one
request of each kind, and a batch of one row with one event, device and enrolment takes every turn
of the loop; a limit of one is exceeded by two exchanges.  In `DailySummary` three companies make a
full page and one that is not, and midnight passes in both zones.  In `Workspace` loads overtake each other with two
operations, and a third state of the portal is reached by one more event.  What the bounds cannot
show, the theorems of section 5 do.

Every bound is a constant named in a guard: `MaxRevision`, `MaxScan`, `MaxExpiry`, `MaxCrash`,
`MaxControl` and `MaxFault` limit what users, the clock and the device do in `Discovery` and
`Telemetry`, `MaxVersion` what users confirm in `ProjectChat`, `MaxEdits` and `MaxVersions` what they
do in `Projects`, `MaxFaults` the crashes and file errors of the bridge, `MaxClock` the time of
`DailySummary`, `MaxSends` and `MaxEvents` what happens around the page.  `MAX_CONCURRENCY`,
`MAX_WAITERS`, `BACKEND_ATTEMPTS`, `MAX_ACTIONS`, `CONCURRENCY`, `INSTALL_RATE`, `DEVICE_LIMIT`,
`PageSize`, `KeepDays`, `TopLimit`, `POOL_MAX`, `DEVICE_LIMIT_PER_USER`, `ENROLLMENT_RATE_PER_HOUR`
and `BatchLimit` are constants of the code.  Deadlock is checked, except for `Discovery`,
`Telemetry`, `Workspace` and `DailySummary`, where users, clock and environment stop at their bounds.

## 4. Fairness

* `Discovery!FairSpec`: the agent runs `tick` from a service that restarts it, so it polls
  (`ClaimDeviceWork`) and answers what it holds (`AnswersScan`, `AnswersSelection`); a lease that
  lost its device goes stale because time passes (`ScanLeaseExpires`, `SelectionLeaseExpires`).
  Users, scans' results, crashes and authority are not fair.  The run assumes clones that can be
  read: a device that fails to carry out a stop answers with an error, which the portal refuses
  (`lib/tracemini-discovery.ts:302`), so that stop stays pending.  `WorkSettles` excepts behaviours in which a relinked repository is
  selected again (`EveryPollRaises`): as long as that decision stands, `ClaimDeviceWork` is never
  enabled, and no fairness of the device helps (section 6).
* `Telemetry!TelemetrySpec`: the agent's loop goes on (`Loop`), a transaction that began ends
  (`CommitTx`), a lost lease goes stale.  A flush of a given event takes strong fairness: each
  round of the loop tries the queue again, and in between the event cannot be sent.  Users, hooks,
  crashes and lost answers are not fair.
* `BackendSlots!FairSlots`: a resolved promise continues (weak fairness), a timer set by `setTimeout`
  fires, and an aborted fetch ends.  The last two are not enabled while the process runs something
  else, which it may do again and again, so they take strong fairness: the event loop gets to every
  timer and every task in the end.  Nothing is assumed of the backend.
* `AgentBridge!FairSpec`: file operations return, both timers fire, a killed group dies and its pipes
  close, and Node ends a connection whose body does not come.  Nothing is assumed of Codex, of
  clients, or of processes that leave the group.
* `FilesAgent!FairSpec`: a wipe and a delivery run on once they began; locks and connections are
  granted in the order they were asked for, so a wipe gets what is free again and again (strong
  fairness of `WipeContinues`).  An operator is not fair: `FullWipeCleans` speaks of behaviours in
  which one starts full wipes for as long as it takes, telemetry stays paused and, from some point
  on, no device enrols.
* `Workspace!FairSpec`: the portal handles a message that reached it and a browser hears of every
  request it made, an answer or a failure.  The client does nothing by necessity.

## 5. Proofs

All theorems hold for any values of the constants that satisfy the named assumptions
(`DiscoveryAssumption`, `TelemetryAssumption`, `BackendSlotsAssumption`, `ProjectChatAssumption`,
`FilesAgentAssumption`, `ProjectsAssumption`, `AgentBridgeAssumption`, `DailySummaryAssumption`,
`AccountsAssumption`, `InstallAssumption`, `WorkspaceAssumption`): any candidates, projects and bounds, any emails, tokens,
devices and machines, any finite set of calls or requests and limits, any turns, files and lists of
distinct canonical paths, any users, pages and forms, any messages and overlapping requests of a page, any companies, page size and calendar.

Discovery. `Discovery_proofs` proves the type invariant action by action, and `IndInv`: the types,
that issued items carry positive tokens, and for each candidate `CandidateOK`, whose parts are the
three properties and what they need to be inductive: `RevisionOrder` (a selection is never newer
than its candidate), `HeldIsBound` (a lease on a decision to track means that its root was bound to
the matched project, which is what makes a late answer harmless) and `FreeHasNoToken` (a row nobody
holds matches no answer). The lemma `Untouched` carries a candidate over every step that leaves its
rows alone, so that each action is examined only at the candidates it writes. `Binding`, `Tracking`
and `TrackedRows` follow. The same module proves what no step may do, and the refinement of
`TracingConsent` one action at a time; `ConsentHolds` then carries the guarantee of the abstract
machine back.

Telemetry, in the second half of the same module. A transaction on candidates is a step of
`Discovery`, so `IndInv` is kept without another proof; `TInv` adds what is new. `IssuedOK` and
`HandOK`: no two polls hand out one claim, and the selection in hand is the one its mapping was
written for. `TxOK`: what a request was authorized for (the claim, the approved root, a project that
is not paused) is so until it commits, because it holds the rows (`Locked`); the first two parts of
`StopMeansQuiet` follow from it. `JobOK`: at each point of the loop the mapping, the clone and the
registration are as the loop left them, whatever the portal did in between; `TrackingIsRegistered`
rests on it. `OneProject` is the restriction of the model to one project. `StopsOK` and
`RetiredIsGone` are the third part, `AcknowledgedStopIsFinal`, for hook events and pushes alike: when a
stop is acknowledged nothing of the repository is queued any more but what `LeftBehind` excepts, and
what was retired is neither queued nor carried by a request, unless it is a push the portal had
`Announced`. That is the second exception of the property: the row of such a push stays pending over
the stop (`AnnouncedStays`), and only a row can be confirmed, so no push enters the portal anew. The first attempt failed for a reason: `LeftBehind` used to except only repositories that
are not modelled, but another traced candidate of the same project keeps the project listed just as
well, and the bound of one clone had hidden that. `ListedFor` is the corrected exception.

BackendSlots, in the second half of `ProjectChat_proofs` (both are parts of `lib/project-chat.ts`).
`SlotsIndInv` joins the types, `SlotsAccounted`, `QueueIsWaiting`, `NoIdleSlot` and
`LiveQueue` (a call that gave up left the queue, so `Release` skips nobody): the counter and the
queue have to be right together, because a release frees a slot only when nobody is queued. The
lemmas on cardinality and on sequences without an element come first. `Order` and the refinement of
`SlotPool` follow from it.

ProjectChat. `IndInv` joins the types, the four state properties and `Locks`: only first
transactions hold path locks, no two hold the same, and each knows of every path it locked that it
is missing or taken. With it `Undisturbed` says that neither the other first transactions (other
locks) nor any other transaction (the lock on the project) can create what one found missing, and
`Context` that nothing it found can go. `CreateFiles` states once what a first transaction and a
response both do, so that unique paths and the audit trail are proved once for the two;
`OneMoreVersion` is the arithmetic of the audit trail, used for files and for the progress.
`LivePathsUnique` is proved without the unique index, so the index never has to reject anything
these handlers do.

FilesAgent. `IInv` joins the types and five parts. `CodesAreOwned`: a code that was exchanged is
never exchanged again, so a device that was wiped does not come back under a running ingest.
`CountsAreCurrent`: one exchange of a user at a time has counted, and its count is still an upper
bound when it inserts (`Limit`). `PauseIsHeld`: the row lock of the pause, from which `Quiet`
follows where the row exists; the assumption `FirstPause # "absent"` is needed (section 6).
`SummaryLockIsHeld`: no delivery has read the flag while a wipe deletes. `WipeHasEmptied`: once a
statement of a wipe finds no device, the foreign keys say that there is no event, and no ingest
under way has a device left (`NothingArrives`); that is kept while telemetry is paused, with and
without the row lock, and so `Wiped` needs no assumption about it.

Projects. `IInv` says what is known of one membership (`MemberOK`: who asked, who answered, and that
it is of an approved project unless it is the proposal of the project itself), of one project
(`ProjectOK`), and of one request under way (`OpOK`: what it read before it waited is still so).
`Kept` is the other half: no step takes back an approval, an owner, a link or a decided membership.
`NextInv` proves `IInv' /\ Kept` together, one lemma per action; `Relies` then carries `OpOK` of
every other request over any step by `Kept` alone, which is why so few locks are needed, and
`WriteStep` carries the rows of every other project. `Decisions` is `Kept` again, `Members` follows
from `IInv`. `Creation` has an invariant of its own beside it, `CInv`: a key belongs to one client
and one form, whether a page, a request or a project has it (`KeysAgree`); an author with one page
has used no more keys than he edited the form, and one for what was sent (`KeysBounded`); a key has
become one project, and is about to become one in one request at most (`OneProjectPerKey`,
`OneCreator`), whose engineers were approved and stay so (`CreatorsAdmitted`, `ProjectsAreWhole`).

AgentBridge. `IInv` joins the types, the counter (`active` is the number of requests past their
body), `RequestOK` of each request at each await, and what faults explain: every orphan and piece of
litter was a slot at one of at most `faults` crashes. Cardinalities change by one at a time, so each
action is examined once for the counter and once for the request that takes it.

DailySummary. `WalkOK` places a cron's cursor: the companies up to it are behind, those above are on
its page or beyond all of a full page; ids that become visible late lie above every cursor or are
not among those that existed at the start. `Days` is arithmetic of the two calendars, from what a
delivery that waited knows of the clock (it began no later than now); `OneDay`, the third part of
`StoredSummariesAddUp`, says that the days of Karachi neither overlap nor leave an instant out, and
`SInv` that a delivery stores a row of a company and a date. `SummariesAddUp` proves the whole of
`StoredSummariesAddUp`, from `StoredInv` (the events are finitely many and every stored row adds up, on
a plain day in all its groupings).
A sum in the model is a number of units (`Total`), because that can be reasoned about where a fold
cannot: to group rows by user, device, action, agent or project is to part one finite set, and
`UnionOfParts` says that disjoint parts add up to the whole and others to no less. `TallyAddsUp`
is that for counts, and `CountsAreTallies` says that `increment` groups as it should where no name is
inherited: that is all a plain day (`PlainDay`) is needed for, and users, devices and actions, which are
kept in maps or have fixed names, add up on every day. The top projects are the labels by their
`Place`, which `RankGrows` and `SortedType` show to be a numbering; what is cut off is a part of the
units (`TopAddsUp`), and `SummaryIsStored` carries all of it over `Sanitize`.
`BlindToTexts` needs more than that labels are replaced by numbers: their order could give a text away.
`HeightIsReached` says that the count at place i is at least v exactly when i labels reach v, which
depends on no label, so that names that tell the same projects apart leave the same list
(`TopIsBlind`). Users and devices are different, because their ids are kept: among equal counts the
order of their texts shows. `PlacesAreBlind` says that it shows there only, an entry whose count nobody
shares has a place that depends on the counts alone, and `SummariesAreBlind` puts the parts together.

NodeInstall. `IInv` joins the types, `AccountsInv` and `InstallInv`. Accounts: a registration
between its two inserts is alone with its company, which has no founder yet (`FoundingIsExclusive`),
so that founders stay one; a restored administrator is of the company of its email
(`AdminsAreAtHome`), so that restoring one again changes none of its sessions; a session is of an
approved account, and differs from its row only where an account was restored as administrator over
what it was before (`SessionsAreApproved`), which is never undone: that is why a dead session stays
dead. Installations: whoever mints or exchanges holds the row of the account alone (`LocksAreHeld`),
what it counted is still so when it inserts (`CountsAreCurrent`, over the finite sets of
`RowsAreFinite`), and each device was paid for with one token. Every action is reduced first to what
it does to one account (`Founded` and the definitions after it) and to one row, and the invariants
are proved from that.

Workspace. `QuietPageIsExact` speaks of a page at rest and is far from inductive: a page comes to
rest by many ways, each of which had to bring every part of what it shows. `IInv` says what holds on
the way. `OneAtATime`: `submissionPendingRef` is set exactly while a message is in flight, which is
`OneSubmission` without a word about the disabled controls. `ReadsAreCurrent`: what the newest load
has read is still so, unless the page was not told of something (`Calm`); it is why three reads at
three moments make one picture. `LoadsMeetNoChat`: a load and a message in flight never meet unseen.
`CalmPage`: with nothing else under way the page shows the portal, and while a message is under way
it differs by that message alone, at each point of the submission (`ExactBut`): the placeholder
stands last, then the turn does, then its change, and the counts come at the end. Two parts are
needed only to carry these: `Shown` (a page that sends shows the project, so that the end of a
submission has something to be exact about) and, among the types, that turns never outnumber the
places used for messages. Each action gets one lemma for the types and one for the rest;
`SamePage`, `IssueSafe`, `UncalmSafe`, `ChatStep` and `ChatEnd` say once what the actions of a kind
share. Before them come the lemmas about lists in the order of their numbers: `Ascending` orders a
finite set by the rank of its members (`AscendingProperties`, `AscendingIs`), so that appending the
newest turn is what the portal's `order by` gives (`AscendingAppend`), and taking the placeholder
out leaves the rest as it was (`WithoutLast`). The model orders by rank because of these proofs: a
sequence chosen by a recursive sort could not have been reasoned about.

Only model-checked, and why: liveness (`WorkSettles`, `CallsEnd`, `RequestsEnd`, `FullWipeCleans`,
`RecordedIsDelivered`, `ComposerReopens`), which is out of the prover's reach; the other half of
`ComposerIsTheClients` is the theorem `DraftIsKept`. Every invariant and every
action property the runs check is a theorem.

## 6. Known disagreements

Places where the code does something else than a document, a comment or a test of the repository
says.  The models do what the code does; the properties checked are those that hold.

* A poll that binds a selection stores the project of its candidate but not the match status, which
  the next scan compares (`lib/tracemini-discovery.ts:224`, `266`): a rescan that finds nothing new
  withdraws the selection.  `tests/tracemini-activation-safety.test.mjs:123` says an unchanged rescan
  does not.  In `discovery`: a `PublishCandidates` that repeats what is known changes `revision`.
* The upsert that binds a root names one unique key of `project_tracemini_roots`
  (`lib/tracemini-discovery.ts:122`, migration 019:40); after the project of a repository was
  changed, the row of the former project collides on the other one and the poll raises, for this and
  every other item of the device: as long as that decision stands nothing pending settles.
  `RepositorySelection.tsx` says the project can be changed once cleanup is acknowledged.  In
  `discovery`: the invariant `\A c \in Bound : ~BindingConflict(c)` fails.  `WorkSettles` excepts such
  decisions (`EveryPollRaises`); without the exception it fails in `discovery_live`.
* Counts are kept in plain objects (`increment`, `lib/files-agent-daily-summary.ts:89`).  A project or
  an agent named like an inherited property (`/projects/constructor/x`) gets a string for a count; for
  a project that string is stored, and `isFilesAgentDailySummary`, which "validates the complete durable
  JSON boundary" (line 283), refuses the row when it is read.  Counts under `__proto__` are dropped, so
  projects do not add up, and a user whose agents all have that name gets none.  In `summary`: without
  the condition `PlainDay`, `StoredSummariesAddUp` fails.
* `sanitizeFilesAgentDailySummary` "removes all telemetry-derived text" (line 216) but keeps the order
  of users and devices, which at equal counts is that of their names (lines 190, 195).  In `summary`:
  if the places of ties had to be equal too, `DeliveryIsBlind` would fail.
* A wipe holds the connection of the summary lock and deletes through the pool, which has one
  connection unless `DATABASE_POOL_MAX` says otherwise: by default every wipe fails.
  `docs/files-agent-daily-summary.md:33` says full wipes repeat until nothing is left.  In
  `files_agent_live`: `POOL_MAX = 1` breaks `FullWipeCleans`.
* No row of the pause exists before the first pause, so an ingest has nothing to lock and records its
  events after it.  `tests/password-auth.test.mjs:39` says setup can pause ingestion while wiping.
  In `files_agent`: `FirstPause = "absent"` breaks `PausedMeansQuiet`.  The wipe is not undone by it
  (`Wiped` needs no such assumption): its next statement fails.
* Two requests for a code at once both succeed at the limit, because the count is in the snapshot of
  the statement that waits for the lock (`lib/files-agent.ts:115`).
  `tests/files-agent-release-security.test.mjs:49` says enrolment limits are applied.  With two names
  in `Mint`, `\A u \in User : Cardinality(Recent(u)) <= ENROLLMENT_RATE_PER_HOUR` fails.
* A proposal of the release before that still waits can be decided by that release only: this one
  answers 409 to its owner, because the project is not approved (`lib/projects.ts:457-470`).
* A stop purges the queue only when it still finds the clone (`agent.ts:331`, `346`).  Events of a clone
  that a failed activation took back, or that were queued when the device crashed between the two
  writes, stay queued while another repository keeps the project listed, and a later selection
  delivers them.  `TraceMiniProjectDiscovery.tsx:123` calls the control "Stop tracking".  In
  `telemetry`: without the exception `LeftBehind`, `AcknowledgedStopIsFinal` fails.
* An acknowledged stop leaves the row of a push that was announced before it pending
  (`lib/tracemini-node-git.ts:148-175`, `lib/tracemini-discovery.ts:294-309`); once the repository is
  selected again the poll hands it out, the device confirms it and its event is stored under the new
  decision.  In `telemetry`: without the exception `Announced`, `AcknowledgedStopIsFinal` fails.
* The statements of a wipe commit one by one while devices may still enrol, so a device inserted
  between the deletion of devices and that of enrolments makes the latter fail with 500
  (`lib/db.ts:1001`).  Repeating the wipe then succeeds (`files_agent_live`).

## 7. Not modelled

Of the system:

* `embedded-tracemini-ingest.ts` reads `company_id` of `projects`, which has no such column
  (lines 79, 139): each ingest raises, so there is no behaviour to model.
* Nothing starts `lib/tracemini-worker.ts` or calls `createTraceMiniReport`, whose
  `on conflict (dedupe_key)` matches no unique constraint, so the report queue has no behaviour in
  this commit; `saveTraceMiniSchedule` writes a row nobody reads but the page.
* Nothing inserts rows of `project_tracemini_evidence`, so the branch of a confirmation that checks
  them cannot be reached and is left out of `ProjectChat`.
* The local Python agent's loop on its disk (`files_agent.py`); `Discovery` lets it answer anything
  the portal accepts.
* Parsing, formatting, cryptography, the packaging of agents, the dashboards that only read, and
  pages that only render.

Inside the modelled parts:

* Rows and advisory locks are modelled where they interleave; elsewhere a transaction is one step.
* `Telemetry`: one project, scans left to `Discovery`; the global pause is left out, since nothing in
  the application sets it; other repositories of the project only keep it listed (`siblings`); an
  epoch labels events and is compared by nobody; the history of a clone is imported only while it is
  activated.  A completion whose answer is lost is sent again after the lease.  `Reconcile` merges two
  writes of the agent (`agent.ts:86-109`).  A confirmation that is refused ends the tick before the
  flush (`agent.ts:400`), which is left out: a push is handed out every five minutes at most, so other
  ticks flush, as the fairness of `Flush` says.
* `Accounts`: passwords, hashing and the signature of a cookie; a browser that logs in knows the
  password.
* `Projects`: texts of projects and records, and deletion, which no operation does; `Insert` omits the
  check that the client an engineer creates for is approved (`lib/projects.ts:163`), since clients are.
* `AgentBridge`: `Cleanup` kills the group and removes the directory in one step.
* `FilesAgent`: the rate of an ingest and the validation of events, which only refuse, and the tables
  of the retired agent that a wipe also empties.
* `DailySummary`: one cron at a time in the run; a text is its rank in the collation or one of the
  names objects inherit, and users or devices with equal counts and equal texts share a place (the
  query gives them no order); the lock against wipes is `FilesAgent`'s.  The code leaves these open: events that arrive after their
  day was delivered are in no summary, a day whose cron did not run is delivered only on demand, and an old
  date asked for explicitly is stored and expired in one transaction.
* `Workspace`: a client's page; the TraceMini panel, the Git link and the list of 100 messages at its
  limit.  A message whose answer was lost is sent again by the client as a new turn; that is the
  reason for `unsure`.
* Membership changes while a chat turn waits for the backend: both transactions check membership,
  and no operation withdraws one.

## 8. Plan

1. The local agent's tick with its files on disk and crashes between their writes, composed with
   `Discovery` in place of `Answer`.
2. The report queue: leases of workers, attempts, schedules, once something starts the worker.
