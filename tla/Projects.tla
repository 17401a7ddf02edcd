------------------------------ MODULE Projects ------------------------------
(***************************************************************************)
(* Projects, their members and their records: lib/projects.ts, with the    *)
(* form of ProjectsClient.tsx that creates projects, and the row locks     *)
(* that lockProjectAccess of lib/project-chat.ts takes.                    *)
(*                                                                         *)
(* A transaction that may wait, or is decided by what an earlier statement *)
(* read, is a request with several steps; whatever one statement decides   *)
(* is one action.  A lock is held by being at a step: no variable holds    *)
(* locks.                                                                  *)
(***************************************************************************)
EXTENDS Naturals, FiniteSets

CONSTANTS
    Project,            \* rows of projects
    Client, Engineer,
    Page, AuthorOf,     \* pages with the form, each with an author
    OpenPages,          \* the sets of pages that may be open
    Form,               \* what can be filled in; the normalised inputs
    OwnerIn(_, _),      \* the client a form makes the owner, when an author sends it
    EngineersIn(_, _),  \* the engineers a form makes creators
    Key,                \* creation keys: random UUIDs
    Link, LinkOf,       \* Git remotes, and the one of each form
    Process,            \* requests under way at the server
    MaxEdits, MaxVersions   \* bounds

None == "none"

ASSUME ProjectsAssumption ==
    /\ AuthorOf \in [Page -> Client \cup Engineer] /\ OpenPages \subseteq SUBSET Page
    /\ LinkOf \in [Form -> Link]
    /\ Form # {}
    /\ Client \cap Engineer = {}
    /\ None \notin Client \cup Engineer \cup Project \cup Key \cup Link \cup Form \cup Process
    /\ \A a \in Client \cup Engineer, f \in Form : OwnerIn(a, f) \in Client /\ EngineersIn(a, f) \subseteq Engineer
    /\ MaxEdits \in Nat /\ MaxVersions \in Nat \ {0}

VARIABLES
    projects,
    members,            \* project_memberships, for each project and engineer
    approved,           \* engineers whose account is approved
    versions,           \* versions of the record each project has
    authors,            \* who wrote records or artifacts of each project
    pages,
    op                  \* what each request has got to

vars == <<projects, members, approved, versions, authors, pages, op>>

NoProject == [owner |-> None]
NoMember == [type |-> None, status |-> None, proposal |-> FALSE]
Idle == [pc |-> "idle"]

ProjectRow == [owner : Client, by : Client \cup Engineer \cup {None}, key : Key \cup {None},
               form : Form \cup {None}, approval : {"pending", "approved", "rejected"},
               open : BOOLEAN, link : Link \cup {None}]
MemberRow == [type : {"creator", "invitation", "request"},
              status : {"pending", "active", "declined", "rejected"},
              createdBy : Client \cup Engineer, respondedBy : Client \cup Engineer \cup {None},
              proposal : BOOLEAN]
PageState == [form : Form, key : Key \cup {None}, keyForm : Form \cup {None}, edits : 0..MaxEdits,
              request : Process \cup {None}, at : Project \cup {None}]

Exists(x) == projects[x] # NoProject
Approved(x) == Exists(x) /\ projects[x].approval = "approved"
Active(x, e) == members[x][e].status = "active"

\* projectAccessSql: the owner and the active members of an approved project.
HasAccess(x, u) == Approved(x) /\ (projects[x].owner = u \/ (u \in Engineer /\ Active(x, u)))

At(p, pc) == op[p].pc = pc
Goto(p, state) == op' = [op EXCEPT ![p] = state]

\* Rows that a request under way has locked.
MemberLocked(x, e) == \E p \in Process : At(p, "respond") /\ op[p].project = x /\ op[p].engineer = e
ProjectLocked(x) == \E p \in Process : At(p, "chat") /\ op[p].project = x

\* A fresh installation and an open form, or a project of the time before
\* projects had Git links: approved, or the draft an engineer proposed to a
\* client, which waits with his request for the decision of the client.
NewPage == [form |-> CHOOSE f \in Form : TRUE, key |-> None, keyForm |-> None,
            edits |-> 0, request |-> None, at |-> None]
NoMembers == [x \in Project |-> [e \in Engineer |-> NoMember]]
NoProjects == [x \in Project |-> NoProject]
Legacy(c, by, approval, open) ==
    [owner |-> c, by |-> by, key |-> None, form |-> None, approval |-> approval,
     open |-> open, link |-> None]
Proposal(e) ==
    [type |-> "request", status |-> "pending", createdBy |-> e, respondedBy |-> None, proposal |-> TRUE]

Init ==
    /\ \/ projects = NoProjects /\ members = NoMembers
       \/ \E x \in Project, c \in Client, open \in BOOLEAN :
             /\ projects = [NoProjects EXCEPT ![x] = Legacy(c, None, "approved", open)]
             /\ members = NoMembers
       \/ \E x \in Project, c \in Client, e \in Engineer :
             /\ projects = [NoProjects EXCEPT ![x] = Legacy(c, e, "pending", FALSE)]
             /\ members = [NoMembers EXCEPT ![x][e] = Proposal(e)]
    /\ approved \in SUBSET Engineer
    /\ versions = [x \in Project |-> 0]
    /\ authors = [x \in Project |-> {}]
    /\ IF \E x \in Project : Exists(x) THEN pages = <<>>
       ELSE \E G \in OpenPages : pages = [g \in G |-> NewPage]
    /\ op = [p \in Process |-> Idle]

Open == DOMAIN pages

-----------------------------------------------------------------------------
(* The form.  It is locked while a request is pending, and left for the project
   when the request succeeds. *)

Edit(g, f) ==
    /\ g \in Open
    /\ pages[g].request = None /\ pages[g].at = None
    /\ f # pages[g].form /\ pages[g].edits < MaxEdits
    /\ pages' = [pages EXCEPT ![g].form = f, ![g].edits = @ + 1]
    /\ UNCHANGED <<projects, members, approved, versions, authors, op>>

\* The key of the last attempt is sent again if the form is as it was then.
\* Mutant: a key for each attempt.
Fresh == {k \in Key : /\ \A g \in Open : pages[g].key # k
                      /\ \A x \in Project : Exists(x) => projects[x].key # k
                      /\ \A p \in Process : op[p].pc \in {"create", "created", "replay"} => op[p].key # k}
KeyPerAttempt(g) == Fresh
KeyFor(g) == IF pages[g].keyForm = pages[g].form THEN {pages[g].key} ELSE Fresh

Submit(g, p) ==
    /\ g \in Open
    /\ pages[g].request = None /\ pages[g].at = None
    /\ op[p] = Idle
    /\ \E k \in KeyFor(g) :
          /\ pages' = [pages EXCEPT ![g].key = k, ![g].keyForm = pages[g].form, ![g].request = p]
          /\ Goto(p, [pc |-> "create", by |-> AuthorOf[g], key |-> k, form |-> pages[g].form])
    /\ UNCHANGED <<projects, members, approved, versions, authors>>

\* The connection fails: the page may try again while the request goes on.
PageGivesUp(g) ==
    /\ g \in Open
    /\ pages[g].request # None
    /\ pages' = [pages EXCEPT ![g].request = None]
    /\ UNCHANGED <<projects, members, approved, versions, authors, op>>

\* The answer of a request, if its page still waits for it: a project, or None for an error.
Answer(p, x) ==
    /\ pages' = [g \in Open |->
          IF pages[g].request = p THEN [pages[g] EXCEPT !.request = None, !.at = x] ELSE pages[g]]
    /\ Goto(p, Idle)

-----------------------------------------------------------------------------
(* createProject *)

WithKey(p) == {x \in Project : Exists(x) /\ projects[x].by = op[p].by /\ projects[x].key = op[p].key}
Creators(p) == EngineersIn(op[p].by, op[p].form)

\* Every engineer of the form must be approved.
Admitted(p) == Creators(p) \subseteq approved

\* INSERT ... ON CONFLICT waits for a transaction that inserts the same key.
Insert(p) ==
    /\ At(p, "create")
    /\ \A q \in Process : At(q, "created") => op[q].by # op[p].by \/ op[q].key # op[p].key
    /\ \/ /\ WithKey(p) # {}
          /\ Goto(p, [op[p] EXCEPT !.pc = "replay"]) /\ UNCHANGED pages
       \/ /\ WithKey(p) = {} /\ Admitted(p)
          /\ Goto(p, [op[p] EXCEPT !.pc = "created"]) /\ UNCHANGED pages
       \/ /\ WithKey(p) = {} /\ ~Admitted(p)
          /\ Answer(p, None)
    /\ UNCHANGED <<projects, members, approved, versions, authors>>

\* The documents of the project are written in the same transaction.
CommitCreation(p) ==
    /\ At(p, "created")
    /\ \E x \in Project :
          /\ ~Exists(x)
          /\ \E open \in BOOLEAN : projects' = [projects EXCEPT ![x] =
                [owner |-> OwnerIn(op[p].by, op[p].form), by |-> op[p].by, key |-> op[p].key,
                 form |-> op[p].form, approval |-> "approved", open |-> open \/ op[p].by \in Engineer, link |-> LinkOf[op[p].form]]]
          /\ members' = [members EXCEPT ![x] = [e \in Engineer |->
                IF e \in Creators(p) \cap approved
                THEN [type |-> "creator", status |-> "active", createdBy |-> op[p].by,
                      respondedBy |-> None, proposal |-> FALSE]
                ELSE NoMember]]
          /\ Answer(p, x)
    /\ UNCHANGED <<approved, versions, authors>>

\* A replay returns the project of the key, if the fingerprint is the same.
Replay(p) ==
    /\ At(p, "replay")
    /\ \E x \in WithKey(p) : Answer(p, IF projects[x].form = op[p].form THEN x ELSE None)
    /\ UNCHANGED <<projects, members, approved, versions, authors>>

\* Any transaction may fail, and rolls back.
Fails(p) ==
    /\ ~At(p, "idle")
    /\ Answer(p, None)
    /\ UNCHANGED <<projects, members, approved, versions, authors>>

-----------------------------------------------------------------------------
(* One statement each *)

\* reviewAccount: an approval is never withdrawn.
ApproveEngineer(e) ==
    /\ approved' = approved \cup {e}
    /\ UNCHANGED <<projects, members, versions, authors, pages, op>>

UpdateProject(x, open) ==
    /\ Approved(x) /\ ~ProjectLocked(x)
    /\ projects' = [projects EXCEPT ![x].open = open]
    /\ UNCHANGED <<members, approved, versions, authors, pages, op>>

Join(x, e, type, by) ==
    /\ ~ProjectLocked(x)
    /\ members[x][e] = NoMember
    /\ members' = [members EXCEPT ![x][e] =
          [type |-> type, status |-> "pending", createdBy |-> by, respondedBy |-> None, proposal |-> FALSE]]
    /\ UNCHANGED <<projects, approved, versions, authors, pages, op>>

InviteEngineer(x, e) == Approved(x) /\ e \in approved /\ Join(x, e, "invitation", projects[x].owner)
RequestMembership(x, e) == Approved(x) /\ e \in approved /\ projects[x].open /\ Join(x, e, "request", e)

\* Who may write is decided by the statement that writes.
Contribute(x, u) ==
    /\ HasAccess(x, u)
    /\ authors' = [authors EXCEPT ![x] = @ \cup {u}]
    /\ UNCHANGED <<projects, members, approved, pages, op>>

\* One record of each project is followed.
CreateRecord(x, u) == Contribute(x, u) /\ versions[x] = 0 /\ versions' = [versions EXCEPT ![x] = 1]
CreateArtifact(x, u) == Contribute(x, u) /\ UNCHANGED versions

-----------------------------------------------------------------------------
(* respondToMembership: one statement locks the membership, then the project. *)

\* An invitation is for the engineer, a request for the owner.  Mutant: anyone
\* of the two.
EitherDecides(x, e, u) == u \in {e, projects[x].owner}
Decides(x, e, u) == u = IF members[x][e].type = "invitation" THEN e ELSE projects[x].owner

Respond(p, x, e, u, accept) ==
    /\ op[p] = Idle
    /\ Exists(x) /\ members[x][e] # NoMember /\ members[x][e].type # "creator"
    /\ Decides(x, e, u)
    /\ ~MemberLocked(x, e)
    /\ Goto(p, [pc |-> "respond", project |-> x, engineer |-> e, by |-> u,
                status |-> IF accept THEN "active" ELSE IF u = e THEN "declined" ELSE "rejected"])
    /\ UNCHANGED <<projects, members, approved, versions, authors, pages>>

\* With both locks: a decision, the same decision again, or a conflict; what was
\* asked of a project that is not approved is a conflict for its owner.
\* Mutant: the last decision counts.
AnyStatus(x, e) == TRUE
Undecided(x, e) == members[x][e].status = "pending"

Decide(p) ==
    LET x == op[p].project  e == op[p].engineer IN
    /\ At(p, "respond")
    /\ ~ProjectLocked(x)
    /\ members' = IF Undecided(x, e) /\ (Approved(x) \/ op[p].by = e)
                  THEN [members EXCEPT ![x][e].status = op[p].status, ![x][e].respondedBy = op[p].by]
                  ELSE members
    /\ Goto(p, Idle)
    /\ UNCHANGED <<projects, approved, versions, authors, pages>>

-----------------------------------------------------------------------------
(* Processes of the release before, which still decide proposals while this one
   is being rolled out: they update the membership, and the trigger
   enforce_project_proposal_membership takes the project along or raises. *)

Outcome(status) == IF status = "active" THEN "approved" ELSE "rejected"

ProposalGuard(x, e, u, status) ==
    /\ members[x][e].status = "pending" /\ u = projects[x].owner
    /\ status \in {"active", "rejected"}
    /\ projects[x].approval \in {"pending", Outcome(status)}

DecideProposal(x, e, u, status) ==
    /\ members[x][e].proposal
    /\ ~MemberLocked(x, e) /\ ~ProjectLocked(x)
    /\ ProposalGuard(x, e, u, status)
    /\ members' = [members EXCEPT ![x][e].status = status, ![x][e].respondedBy = u]
    /\ projects' = IF projects[x].approval # "pending" THEN projects
                   ELSE [projects EXCEPT ![x].approval = Outcome(status), ![x].open = (status = "active")]
    /\ UNCHANGED <<approved, versions, authors, pages, op>>

-----------------------------------------------------------------------------
(* lockProjectAccess for a member: the project, whose access is checked, then
   the membership, which must be active still. *)

ChatMember(x, e) == Active(x, e)

ChatLock(p, x, e) ==
    /\ op[p] = Idle
    /\ Approved(x) /\ ChatMember(x, e)
    /\ ~ProjectLocked(x)
    /\ Goto(p, [pc |-> "chat", project |-> x, engineer |-> e])
    /\ UNCHANGED <<projects, members, approved, versions, authors, pages>>

ChatDone(p) ==
    /\ At(p, "chat")
    /\ ~MemberLocked(op[p].project, op[p].engineer)
    /\ Goto(p, Idle)
    /\ UNCHANGED <<projects, members, approved, versions, authors, pages>>

-----------------------------------------------------------------------------
(* createRecordVersion, under the advisory lock of the record *)

RecordLocked(x) == \E q \in Process : op[q].pc \in {"version", "numbered"} /\ op[q].project = x

VersionLock(p, x, u) ==
    /\ op[p] = Idle
    /\ Exists(x) /\ versions[x] > 0
    /\ ~RecordLocked(x)
    /\ Goto(p, [pc |-> "version", project |-> x, by |-> u])
    /\ UNCHANGED <<projects, members, approved, versions, authors, pages>>

VersionNumber(p) ==
    /\ At(p, "version")
    /\ HasAccess(op[p].project, op[p].by)
    /\ versions[op[p].project] < MaxVersions
    /\ Goto(p, [pc |-> "numbered", project |-> op[p].project, by |-> op[p].by,
                version |-> versions[op[p].project] + 1])
    /\ UNCHANGED <<projects, members, approved, versions, authors, pages>>

\* A number that is taken violates the unique key of the table.
VersionInsert(p) ==
    LET x == op[p].project IN
    /\ At(p, "numbered")
    /\ op[p].version > versions[x]
    /\ versions' = [versions EXCEPT ![x] = op[p].version]
    /\ authors' = [authors EXCEPT ![x] = @ \cup {op[p].by}]
    /\ Goto(p, Idle)
    /\ UNCHANGED <<projects, members, approved, pages>>

-----------------------------------------------------------------------------
(* attachProjectGitRemote: the link is read, then written if it is not there *)

LinkRead(p, x, l) ==
    /\ op[p] = Idle
    /\ Approved(x) /\ projects[x].link = None
    /\ Goto(p, [pc |-> "link", project |-> x, link |-> l])
    /\ UNCHANGED <<projects, members, approved, versions, authors, pages>>

NoLink(x) == projects[x].link = None

LinkWrite(p) ==
    LET x == op[p].project IN
    /\ At(p, "link")
    /\ ~ProjectLocked(x)
    /\ projects' = IF NoLink(x) THEN [projects EXCEPT ![x].link = op[p].link] ELSE projects
    /\ Goto(p, Idle)
    /\ UNCHANGED <<members, approved, versions, authors, pages>>

-----------------------------------------------------------------------------
(* What a user is shown: listProjects, and the sections into which the page
   sorts the projects of an engineer. *)

Joined(x, e) == members[x][e] # NoMember
Listed(u) ==
    IF u \in Client THEN {x \in Project : Exists(x) /\ projects[x].owner = u}
    ELSE {x \in Project : Exists(x) /\ (Joined(x, u) \/ (Approved(x) /\ projects[x].open))}

LinkShown(u) == {x \in Listed(u) : projects[x].link # None /\ (u \in Client \/ Active(x, u))}

Section(e) ==
    LET with(statuses) == {x \in Listed(e) : members[x][e].status \in statuses} IN
    [active |-> with({"active"}),
     pending |-> with({"pending"}),
     terminal |-> with({"declined", "rejected"}) \cup {x \in Listed(e) : projects[x].approval = "rejected"},
     open |-> {x \in Listed(e) : Approved(x) /\ projects[x].open /\ ~Joined(x, e)}]

-----------------------------------------------------------------------------
User == Client \cup Engineer

PageStep == \E g \in Page : PageGivesUp(g) \/ (\E f \in Form : Edit(g, f)) \/ (\E p \in Process : Submit(g, p))

Step(p) ==
    \/ Insert(p) \/ CommitCreation(p) \/ Replay(p) \/ Fails(p)
    \/ Decide(p) \/ ChatDone(p)
    \/ VersionNumber(p) \/ VersionInsert(p)
    \/ LinkWrite(p)

Start(p, x) ==
    \/ \E e \in Engineer, u \in User, accept \in BOOLEAN : Respond(p, x, e, u, accept)
    \/ \E e \in Engineer : ChatLock(p, x, e)
    \/ \E u \in User : VersionLock(p, x, u)
    \/ \E l \in Link : LinkRead(p, x, l)

Statement ==
    \/ \E e \in Engineer : ApproveEngineer(e)
    \/ \E x \in Project, open \in BOOLEAN : UpdateProject(x, open)
    \/ \E x \in Project, e \in Engineer : InviteEngineer(x, e) \/ RequestMembership(x, e)
    \/ \E x \in Project, u \in User : CreateRecord(x, u) \/ CreateArtifact(x, u)
    \/ \E x \in Project, e \in Engineer, u \in User, status \in {"active", "declined", "rejected"} :
          DecideProposal(x, e, u, status)

Next ==
    \/ PageStep
    \/ Statement
    \/ \E p \in Process : Step(p) \/ (\E x \in Project : Start(p, x))

Spec == Init /\ [][Next]_vars

-----------------------------------------------------------------------------
(* Properties *)

OpState ==
    {Idle}
    \cup [pc : {"create", "created", "replay"}, by : User, key : Key, form : Form]
    \cup [pc : {"respond"}, project : Project, engineer : Engineer, by : User,
          status : {"active", "declined", "rejected"}]
    \cup [pc : {"chat"}, project : Project, engineer : Engineer]
    \cup [pc : {"version"}, project : Project, by : User]
    \cup [pc : {"numbered"}, project : Project, by : User, version : 1..MaxVersions]
    \cup [pc : {"link"}, project : Project, link : Link]

\* The variables have their types.
TypeOK ==
    /\ projects \in [Project -> ProjectRow \cup {NoProject}]
    /\ members \in [Project -> [Engineer -> MemberRow \cup {NoMember}]]
    /\ approved \in SUBSET Engineer
    /\ versions \in [Project -> 0..MaxVersions]
    /\ authors \in [Project -> SUBSET User]
    /\ Open \subseteq Page /\ \A g \in Open : pages[g] \in PageState
    /\ op \in [Process -> OpState]

\* However often a page submits, gives up and submits again, its author gets at
\* most one project for each content the form has had.
CreatedBy(u) == {x \in Project : Exists(x) /\ projects[x].by = u /\ projects[x].key # None}
NoDoubleCreate ==
    \A g \in Open : (\A h \in Open : AuthorOf[h] = AuthorOf[g] => h = g) =>
        Cardinality(CreatedBy(AuthorOf[g])) <= pages[g].edits + 1

\* A page never sends a key with another content than the first time: the
\* conflict of createProject is for clients other than the page.
ReplayMatches ==
    \A p \in Process : At(p, "replay") => \A x \in WithKey(p) : projects[x].form = op[p].form

\* A project never exists with some of the engineers it was asked to have.
CreationIsWhole ==
    \A x \in Project : Exists(x) /\ projects[x].key # None =>
        /\ {e \in Engineer : members[x][e].type = "creator"} = EngineersIn(projects[x].by, projects[x].form)
        /\ \A e \in EngineersIn(projects[x].by, projects[x].form) : Active(x, e)

\* A decision on a membership is final, whoever else decides at the same time.
DecidedOnce ==
    [][\A x \in Project, e \in Engineer : members[x][e].status \notin {None, "pending"} =>
          members'[x][e] = members[x][e]]_vars

\* Unless he made the project, an engineer works on it with the consent of both
\* sides: one of the two asked, and the other accepted.
ConsentOfBoth ==
    \A x \in Project, e \in Engineer : Active(x, e) /\ members[x][e].type # "creator" =>
        {members[x][e].createdBy, members[x][e].respondedBy} = {projects[x].owner, e}

\* A decision and a chat confirmation may wait for one another, since each has
\* the lock the other needs; only a decision that was made already is lost then.
Circle(p, q) ==
    /\ At(p, "respond") /\ At(q, "chat")
    /\ op[p].project = op[q].project /\ op[p].engineer = op[q].engineer
NoCircleOnFirstDecision ==
    \A p, q \in Process : Circle(p, q) => members[op[p].project][op[p].engineer].status # "pending"

\* Two members who add a version at the same time both succeed.
VersionsNeverCollide ==
    \A p \in Process : At(p, "numbered") => op[p].version = versions[op[p].project] + 1

\* The Git link of a project, once it has one, never changes.
LinkIsFinal ==
    [][\A x \in Project : Exists(x) /\ projects[x].link # None => projects'[x].link = projects[x].link]_vars

\* Records and artifacts are by the owner or by engineers both sides agreed on:
\* invited, refused or waiting engineers write nothing.
AuthorsAreMembers ==
    \A x \in Project : \A u \in authors[x] :
        u = projects[x].owner \/ (u \in Engineer /\ Active(x, u))

\* The request of a proposal and the approval of its project say the same,
\* whichever release decides; and until then nobody joins, writes or links.
ProposalsAgree ==
    \A x \in Project : Exists(x) =>
        /\ \A e \in Engineer : members[x][e].proposal =>
              projects[x].approval = IF members[x][e].status = "pending" THEN "pending"
                                     ELSE Outcome(members[x][e].status)
        /\ ~Approved(x) =>
              /\ projects[x].link = None /\ authors[x] = {}
              /\ \A e \in Engineer : ~members[x][e].proposal => members[x][e] = NoMember

\* An approval or a rejection of a project is never taken back.
ApprovalIsFinal ==
    [][\A x \in Project : Exists(x) /\ projects[x].approval # "pending" =>
          projects'[x].approval = projects[x].approval]_vars

\* Every project an engineer is shown is in exactly one section of the page, the
\* active ones are those he has access to, and nobody sees the Git link of a
\* project he has no access to (listProjects and the page of projects).
ListsAreExact ==
    /\ \A e \in Engineer :
          /\ \A x \in Listed(e) : Cardinality({k \in DOMAIN Section(e) : x \in Section(e)[k]}) = 1
          /\ Section(e).active = {x \in Project : HasAccess(x, e)}
    /\ \A u \in User : \A x \in LinkShown(u) : HasAccess(x, u)

\* Creation, as a page retries it: at most one project for each content, the
\* replay of the same, and all or none of its engineers (createProject and the
\* page's idempotency key).
CreatedOnceAndWhole ==
    /\ NoDoubleCreate
    /\ ReplayMatches
    /\ CreationIsWhole

\* Who works on a project: engineers both sides agreed on, and only they and the
\* owner are authors of what it holds; no decision and no version is lost to a
\* race (requestMembership, respondToMembership, createRecordVersion).
MembersByConsent ==
    /\ TypeOK
    /\ ConsentOfBoth
    /\ ProposalsAgree
    /\ AuthorsAreMembers
    /\ ListsAreExact
    /\ NoCircleOnFirstDecision
    /\ VersionsNeverCollide

\* What is decided once, whoever decides at the same time: a membership, the
\* approval and the Git link of a project.
DecisionsAreFinal ==
    /\ DecidedOnce
    /\ ApprovalIsFinal
    /\ LinkIsFinal

=============================================================================
