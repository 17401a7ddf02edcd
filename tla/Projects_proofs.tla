-------------------------- MODULE Projects_proofs --------------------------
(***************************************************************************)
(* Theorems about Projects, for any projects, users, pages, forms and      *)
(* requests under way.                                                     *)
(*                                                                         *)
(* What a request under way read stays true until it writes (OpOK), because*)
(* no step takes back an approval, a membership or an owner (Kept): that is*)
(* why the statements of this module need so few locks.  Creation rests on *)
(* the keys of the pages (CInv), which is a second invariant beside it.    *)
(***************************************************************************)
EXTENDS Projects, FiniteSetTheorems, TLAPS

-----------------------------------------------------------------------------
(* Types *)

\* A page that remembers a form remembers the key it was sent with.
PagesOK ==
    /\ Open \subseteq Page
    /\ \A g \in Open : pages[g] \in PageState
    /\ \A g \in Open : pages[g].keyForm # None => pages[g].key \in Key

ProjectsType == projects \in [Project -> ProjectRow \cup {NoProject}]
MembersType == members \in [Project -> [Engineer -> MemberRow \cup {NoMember}]]
VersionsType == versions \in [Project -> 0..MaxVersions]
AuthorsType == authors \in [Project -> SUBSET User]
OpType == op \in [Process -> OpState]
RowTypes == ProjectsType /\ MembersType /\ VersionsType /\ AuthorsType /\ approved \in SUBSET Engineer
Types == RowTypes /\ PagesOK /\ OpType

\* A row that is not there is no row.
LEMMA RowsAreRows ==
  /\ \A r \in ProjectRow : r # NoProject /\ r.owner # None
  /\ \A r \in MemberRow : r # NoMember /\ r.status # None
  <1>1. ASSUME NEW r \in ProjectRow PROVE r # NoProject /\ r.owner # None
    <2>1. r.owner \in Client BY DEF ProjectRow
    <2> QED BY <2>1, ProjectsAssumption DEF NoProject
  <1>2. ASSUME NEW r \in MemberRow PROVE r # NoMember /\ r.status # None
    <2>1. r.status \in {"pending", "active", "declined", "rejected"} BY DEF MemberRow
    <2> QED BY <2>1 DEF NoMember, None
  <1> QED BY <1>1, <1>2

LEMMA ProjectIsRow ==
  ASSUME ProjectsType, NEW x \in Project, Exists(x)
  PROVE  projects[x] \in ProjectRow
  BY DEF ProjectsType, Exists

LEMMA MemberIsRow ==
  ASSUME MembersType, NEW x \in Project, NEW e \in Engineer
  PROVE  /\ members[x][e] # NoMember => members[x][e] \in MemberRow
         /\ members[x][e].status # None <=> members[x][e] # NoMember
  <1>1. members[x][e] \in MemberRow \cup {NoMember} BY DEF MembersType
  <1>2. NoMember.status = None BY DEF NoMember
  <1> QED BY <1>1, <1>2, RowsAreRows

\* What a request under way carries, by the step it is at.
LEMMA OpTypes ==
  ASSUME OpType, NEW p \in Process
  PROVE  /\ op[p].pc \in {"create", "created", "replay"} =>
               /\ op[p].by \in User /\ op[p].key \in Key /\ op[p].form \in Form
               /\ \A pc \in {"created", "replay"} : [op[p] EXCEPT !.pc = pc] \in OpState
         /\ At(p, "respond") =>
               /\ op[p].project \in Project /\ op[p].engineer \in Engineer /\ op[p].by \in User
               /\ op[p].status \in {"active", "declined", "rejected"}
         /\ At(p, "chat") => op[p].project \in Project /\ op[p].engineer \in Engineer
         /\ At(p, "version") => op[p].project \in Project /\ op[p].by \in User
         /\ At(p, "numbered") =>
               op[p].project \in Project /\ op[p].by \in User /\ op[p].version \in 1..MaxVersions
         /\ At(p, "link") => op[p].project \in Project /\ op[p].link \in Link
  <1>1. op[p] \in OpState BY DEF OpType
  <1>2. CASE op[p] = Idle BY <1>2 DEF Idle, At
  <1>3. CASE op[p] \in [pc : {"create", "created", "replay"}, by : User, key : Key, form : Form]
    BY <1>3 DEF At, OpState
  <1>4. CASE op[p] \in [pc : {"respond"}, project : Project, engineer : Engineer, by : User,
                        status : {"active", "declined", "rejected"}]
    BY <1>4 DEF At
  <1>5. CASE op[p] \in [pc : {"chat"}, project : Project, engineer : Engineer] BY <1>5 DEF At
  <1>6. CASE op[p] \in [pc : {"version"}, project : Project, by : User] BY <1>6 DEF At
  <1>7. CASE op[p] \in [pc : {"numbered"}, project : Project, by : User, version : 1..MaxVersions]
    BY <1>7 DEF At
  <1>8. CASE op[p] \in [pc : {"link"}, project : Project, link : Link] BY <1>8 DEF At
  <1> QED BY <1>1, <1>2, <1>3, <1>4, <1>5, <1>6, <1>7, <1>8, Zenon DEF OpState

LEMMA GotoType ==
  ASSUME OpType, NEW p \in Process, NEW s \in OpState, Goto(p, s)
  PROVE  OpType' /\ op'[p] = s /\ \A q \in Process \ {p} : op'[q] = op[q]
  BY DEF OpType, Goto

LEMMA IdleIsState == Idle \in OpState /\ Idle.pc = "idle"
  BY DEF OpState, Idle

LEMMA AnswerType ==
  ASSUME PagesOK, OpType, NEW p \in Process, NEW x \in Project \cup {None}, Answer(p, x)
  PROVE  PagesOK' /\ OpType' /\ op'[p] = Idle /\ \A q \in Process \ {p} : op'[q] = op[q]
  <1>1. OpType' /\ op'[p] = Idle /\ \A q \in Process \ {p} : op'[q] = op[q]
    BY IdleIsState, GotoType DEF Answer
  <1>2. Open' = Open BY DEF Answer, Open
  <1>3. ASSUME NEW g \in Open
        PROVE  /\ pages'[g] \in PageState
               /\ pages'[g].keyForm # None => pages'[g].key \in Key
    BY DEF Answer, PagesOK, PageState, Open
  <1> QED BY <1>1, <1>2, <1>3 DEF PagesOK

-----------------------------------------------------------------------------
(* The invariant *)

\* What is known of a membership: who asked, that both sides agreed to an active
\* one, and that it is of an approved project unless it is a proposal, which
\* says the same as its project.
MemberOK(x, e) ==
    members[x][e] # NoMember =>
        /\ Exists(x)
        /\ members[x][e].type = "invitation" => members[x][e].createdBy = projects[x].owner
        /\ members[x][e].type = "request" => members[x][e].createdBy = e
        /\ Active(x, e) /\ members[x][e].type # "creator" => Decides(x, e, members[x][e].respondedBy)
        /\ ~members[x][e].proposal => Approved(x)
        /\ members[x][e].proposal =>
              /\ members[x][e].type = "request"
              /\ projects[x].approval = IF members[x][e].status = "pending" THEN "pending"
                                        ELSE Outcome(members[x][e].status)

\* What is known of a project: what it holds is by those who have access, it has
\* a link only when approved, and was proposed by one engineer at most.
ProjectOK(x) ==
    /\ \A u \in authors[x] : HasAccess(x, u)
    /\ Exists(x) /\ projects[x].link # None => Approved(x)
    /\ \A e, f \in Engineer : members[x][e].proposal /\ members[x][f].proposal => e = f

\* What a request under way relies on.
OpOK(p) ==
    /\ At(p, "respond") =>
          /\ Exists(op[p].project)
          /\ members[op[p].project][op[p].engineer] # NoMember
          /\ members[op[p].project][op[p].engineer].type # "creator"
          /\ Decides(op[p].project, op[p].engineer, op[p].by)
    /\ At(p, "chat") => Active(op[p].project, op[p].engineer)
    /\ At(p, "version") => versions[op[p].project] > 0
    /\ At(p, "numbered") =>
          /\ HasAccess(op[p].project, op[p].by)
          /\ op[p].version = versions[op[p].project] + 1
          /\ versions[op[p].project] > 0
    /\ At(p, "link") => Approved(op[p].project)

\* The advisory lock of the record.
OneVersioner ==
    \A p, q \in Process :
        /\ op[p].pc \in {"version", "numbered"} /\ op[q].pc \in {"version", "numbered"}
        /\ op[p].project = op[q].project
        => p = q

RowsOK == \A x \in Project : ProjectOK(x) /\ \A e \in Engineer : MemberOK(x, e)

IInv == Types /\ RowsOK /\ (\A p \in Process : OpOK(p)) /\ OneVersioner

\* What no step takes back.
Kept ==
    \A x \in Project :
        /\ Exists(x) => Exists(x)' /\ projects'[x].owner = projects[x].owner
        /\ Exists(x) /\ projects[x].approval # "pending" =>
              projects'[x].approval = projects[x].approval
        /\ Exists(x) /\ projects[x].link # None => projects'[x].link = projects[x].link
        /\ \A e \in Engineer :
              /\ members[x][e] # NoMember =>
                    /\ members'[x][e] # NoMember
                    /\ members'[x][e].type = members[x][e].type
              /\ members[x][e].status \notin {None, "pending"} => members'[x][e] = members[x][e]

-----------------------------------------------------------------------------
(* Requests that are not at a step of theirs *)

LEMMA ApprovalStays ==
  ASSUME Kept, NEW x \in Project, Approved(x)
  PROVE  Approved(x)'
  BY DEF Kept, Approved, Exists

LEMMA AccessStays ==
  ASSUME Kept, NEW x \in Project, NEW u, HasAccess(x, u)
  PROVE  HasAccess(x, u)'
  <1>1. Approved(x)' /\ projects'[x].owner = projects[x].owner
    BY ApprovalStays DEF HasAccess, Kept, Approved
  <1>2. u \in Engineer /\ Active(x, u) => Active(x, u)'
    BY DEF Kept, Active, None
  <1> QED BY <1>1, <1>2 DEF HasAccess

\* What a request relies on stays true when others write.
LEMMA Relies ==
  ASSUME OpType, Kept, NEW p \in Process, OpOK(p), op'[p] = op[p],
         op[p].pc \in {"version", "numbered"} => versions'[op[p].project] = versions[op[p].project]
  PROVE  OpOK(p)'
  <1>1. CASE At(p, "respond")
    <2> DEFINE x == op[p].project  e == op[p].engineer
    <2>1. x \in Project /\ e \in Engineer BY <1>1, OpTypes
    <2>2. /\ Exists(x) /\ members[x][e] # NoMember /\ members[x][e].type # "creator"
          /\ Decides(x, e, op[p].by)
      BY <1>1 DEF OpOK
    <2>3. /\ Exists(x)' /\ projects'[x].owner = projects[x].owner
          /\ members'[x][e] # NoMember /\ members'[x][e].type = members[x][e].type
      BY <2>1, <2>2 DEF Kept
    <2> QED BY <1>1, <2>2, <2>3 DEF OpOK, At, Decides, Exists
  <1>2. CASE At(p, "chat")
    <2> DEFINE x == op[p].project  e == op[p].engineer
    <2>1. x \in Project /\ e \in Engineer BY <1>2, OpTypes
    <2>2. members[x][e].status = "active" BY <1>2 DEF OpOK, Active
    <2>3. members'[x][e] = members[x][e] BY <2>1, <2>2 DEF Kept, None
    <2> QED BY <1>2, <2>2, <2>3 DEF OpOK, At, Active
  <1>3. CASE At(p, "version") BY <1>3 DEF OpOK, At
  <1>4. CASE At(p, "numbered")
    <2> DEFINE x == op[p].project  u == op[p].by
    <2>1. x \in Project BY <1>4, OpTypes
    <2>2. HasAccess(x, u) BY <1>4 DEF OpOK
    <2>3. HasAccess(x, u)' BY <2>1, <2>2, AccessStays
    <2> QED BY <1>4, <2>3 DEF OpOK, At
  <1>5. CASE At(p, "link")
    <2> DEFINE x == op[p].project
    <2>1. x \in Project BY <1>5, OpTypes
    <2>2. Approved(x)' BY <1>5, <2>1, ApprovalStays DEF OpOK
    <2> QED BY <1>5, <2>2 DEF OpOK, At
  <1>6. CASE op[p].pc \notin {"respond", "chat", "version", "numbered", "link"}
    BY <1>6 DEF OpOK, At
  <1> QED BY <1>1, <1>2, <1>3, <1>4, <1>5, <1>6 DEF At

\* A step that writes no row disturbs nobody's rows.
LEMMA RowsStay ==
  ASSUME UNCHANGED <<projects, members, versions, authors>>
  PROVE  /\ RowsOK => RowsOK'
         /\ ProjectsType /\ MembersType /\ VersionsType /\ AuthorsType =>
               (ProjectsType /\ MembersType /\ VersionsType /\ AuthorsType)'
         /\ Kept
  BY DEF RowsOK, ProjectOK, MemberOK, HasAccess, Approved, Exists, Active, Decides, Outcome,
         ProjectsType, MembersType, VersionsType, AuthorsType, Kept

\* Neither does a request that leaves for a step at which it relies on nothing.
LEMMA OthersRely ==
  ASSUME IInv, Kept, NEW p \in Process, \A q \in Process \ {p} : op'[q] = op[q],
         \A q \in Process \ {p} : op[q].pc \in {"version", "numbered"} =>
             versions'[op[q].project] = versions[op[q].project]
  PROVE  \A q \in Process \ {p} : OpOK(q)'
  BY Relies DEF IInv, Types

\* A request at a step at which it relies on nothing and holds no record.
Carefree(p) == op[p].pc \notin {"respond", "chat", "version", "numbered", "link"}

LEMMA CarefreeIsOK == ASSUME NEW p \in Process, Carefree(p) PROVE OpOK(p)
  BY DEF Carefree, OpOK, At

LEMMA StillOneVersioner ==
  ASSUME OneVersioner, NEW p \in Process, \A q \in Process \ {p} : op'[q] = op[q],
         \/ op'[p].pc \notin {"version", "numbered"}
         \/ /\ op[p].pc \in {"version", "numbered"} /\ op'[p].project = op[p].project
  PROVE  OneVersioner'
  BY DEF OneVersioner

-----------------------------------------------------------------------------
(* Steps of requests, pages and accounts that write no row *)

LEMMA QuietStep ==
  ASSUME IInv, UNCHANGED <<projects, members, versions, authors>>,
         approved' \in SUBSET Engineer, PagesOK', OpType',
         NEW p \in Process, \A q \in Process \ {p} : op'[q] = op[q], OpOK(p)', OneVersioner'
  PROVE  IInv' /\ Kept
  <1>1. RowsOK' /\ RowTypes' /\ Kept BY RowsStay DEF IInv, Types, RowTypes
  <1>2. \A q \in Process \ {p} : OpOK(q)' BY <1>1, OthersRely
  <1> QED BY <1>1, <1>2 DEF IInv, Types

LEMMA StepWithoutOp ==
  ASSUME IInv, UNCHANGED <<projects, members, versions, authors, op>>,
         approved' \in SUBSET Engineer, PagesOK'
  PROVE  IInv' /\ Kept
  <1>1. RowsOK' /\ RowTypes' /\ Kept BY RowsStay DEF IInv, Types, RowTypes
  <1>2. OpType' /\ OneVersioner' BY DEF IInv, Types, OpType, OneVersioner
  <1>3. \A q \in Process : OpOK(q)' BY <1>1, Relies DEF IInv, Types
  <1> QED BY <1>1, <1>2, <1>3 DEF IInv, Types

LEMMA PageSteps ==
  ASSUME IInv, NEW g \in Page
  PROVE  /\ PageGivesUp(g) => IInv' /\ Kept
         /\ \A f \in Form : Edit(g, f) => IInv' /\ Kept
         /\ \A p \in Process : Submit(g, p) => IInv' /\ Kept
  <1>1. ASSUME PageGivesUp(g) PROVE IInv' /\ Kept
    <2>1. PagesOK' BY <1>1 DEF PageGivesUp, IInv, Types, PagesOK, PageState, Open
    <2> QED BY <1>1, <2>1, StepWithoutOp DEF PageGivesUp, IInv, Types, RowTypes
  <1>2. ASSUME NEW f \in Form, Edit(g, f) PROVE IInv' /\ Kept
    <2>1. PagesOK'
      BY <1>2, ProjectsAssumption DEF Edit, IInv, Types, PagesOK, PageState, Open
    <2> QED BY <1>2, <2>1, StepWithoutOp DEF Edit, IInv, Types, RowTypes
  <1>3. ASSUME NEW p \in Process, Submit(g, p) PROVE IInv' /\ Kept
    <2>1. PICK k \in KeyFor(g) :
            /\ pages' = [pages EXCEPT ![g].key = k, ![g].keyForm = pages[g].form, ![g].request = p]
            /\ Goto(p, [pc |-> "create", by |-> AuthorOf[g], key |-> k, form |-> pages[g].form])
      BY <1>3 DEF Submit
    <2>2. g \in Open /\ pages[g] \in PageState /\ pages[g].form \in Form
          /\ (pages[g].keyForm # None => pages[g].key \in Key)
      BY <1>3 DEF Submit, IInv, Types, PagesOK, PageState
    <2>3. k \in Key
      <3>1. pages[g].form # None BY <2>2, ProjectsAssumption
      <3> QED BY <3>1, <2>2 DEF KeyFor, Fresh
    <2>4. PagesOK' BY <2>1, <2>2, <2>3 DEF IInv, Types, PagesOK, PageState, Open
    <2> DEFINE s == [pc |-> "create", by |-> AuthorOf[g], key |-> k, form |-> pages[g].form]
    <2>5. s \in OpState BY <2>2, <2>3, ProjectsAssumption DEF OpState, User
    <2>6. OpType' /\ op'[p] = s /\ \A q \in Process \ {p} : op'[q] = op[q]
      BY <2>1, <2>5, GotoType DEF IInv, Types
    <2>7. op'[p].pc = "create" BY <2>6
    <2>8. OpOK(p)' BY <2>7 DEF OpOK, At
    <2>9. OneVersioner' BY <2>6, <2>7, StillOneVersioner DEF IInv
    <2>10. /\ UNCHANGED <<projects, members, versions, authors>>
           /\ approved' \in SUBSET Engineer
      BY <1>3 DEF Submit, IInv, Types, RowTypes
    <2> QED BY <2>4, <2>6, <2>8, <2>9, <2>10, QuietStep
  <1> QED BY <1>1, <1>2, <1>3

\* A request that answers its page and writes no row.
LEMMA AnswerStep ==
  ASSUME IInv, NEW p \in Process, NEW x \in Project \cup {None}, Answer(p, x),
         UNCHANGED <<projects, members, approved, versions, authors>>
  PROVE  IInv' /\ Kept
  <1>1. PagesOK' /\ OpType' /\ op'[p] = Idle /\ \A q \in Process \ {p} : op'[q] = op[q]
    BY AnswerType DEF IInv, Types
  <1>2. op'[p].pc = "idle" BY <1>1, IdleIsState
  <1>3. OpOK(p)' BY <1>2 DEF OpOK, At
  <1>4. OneVersioner' BY <1>1, <1>2, StillOneVersioner DEF IInv
  <1>5. approved' \in SUBSET Engineer BY DEF IInv, Types, RowTypes
  <1> QED BY <1>1, <1>3, <1>4, <1>5, QuietStep

\* A request that goes to another step of its own and writes no row.
LEMMA GotoStep ==
  ASSUME IInv, NEW p \in Process, NEW s \in OpState, Goto(p, s),
         UNCHANGED <<projects, members, approved, versions, authors, pages>>,
         OpOK(p)', OneVersioner'
  PROVE  IInv' /\ Kept
  <1>1. OpType' /\ \A q \in Process \ {p} : op'[q] = op[q]
    BY GotoType DEF IInv, Types
  <1>2. PagesOK' /\ approved' \in SUBSET Engineer BY DEF IInv, Types, RowTypes, PagesOK, Open
  <1> QED BY <1>1, <1>2, QuietStep

LEMMA InsertStep ==
  ASSUME IInv, NEW p \in Process, Insert(p)
  PROVE  IInv' /\ Kept
  <1>1. ASSUME NEW pc \in {"created", "replay"}, Goto(p, [op[p] EXCEPT !.pc = pc]), UNCHANGED pages
        PROVE  IInv' /\ Kept
    <2> DEFINE s == [op[p] EXCEPT !.pc = pc]
    <2>1. s \in OpState BY OpTypes DEF Insert, At, IInv, Types
    <2>2. op'[p] = s /\ \A q \in Process \ {p} : op'[q] = op[q]
      BY <1>1, <2>1, GotoType DEF IInv, Types
    <2>3. op'[p].pc = pc BY <2>2, OpTypes DEF Insert, At, IInv, Types, OpType, OpState, Idle
    <2>4. OpOK(p)' BY <2>3 DEF OpOK, At
    <2>5. OneVersioner' BY <2>2, <2>3, StillOneVersioner DEF IInv
    <2> QED BY <1>1, <2>1, <2>4, <2>5, GotoStep DEF Insert
  <1>2. CASE Answer(p, None) BY <1>2, AnswerStep DEF Insert
  <1> QED BY <1>1, <1>2 DEF Insert

LEMMA ReplayAndFailure ==
  ASSUME IInv, NEW p \in Process, Replay(p) \/ Fails(p)
  PROVE  IInv' /\ Kept
  <1>1. PICK y \in Project \cup {None} : Answer(p, y) BY DEF Replay, Fails, WithKey
  <1> QED BY <1>1, AnswerStep DEF Replay, Fails

LEMMA StartStep ==
  ASSUME IInv, NEW p \in Process, NEW x \in Project, Start(p, x)
  PROVE  IInv' /\ Kept
  <1>i. op[p].pc = "idle"
    BY IdleIsState DEF Start, Respond, ChatLock, VersionLock, LinkRead
  <1>1. ASSUME NEW e \in Engineer, NEW u \in User, NEW accept \in BOOLEAN, Respond(p, x, e, u, accept)
        PROVE  IInv' /\ Kept
    <2> DEFINE s == [pc |-> "respond", project |-> x, engineer |-> e, by |-> u,
                     status |-> IF accept THEN "active" ELSE IF u = e THEN "declined" ELSE "rejected"]
    <2>1. s \in OpState BY DEF OpState
    <2>2. op'[p] = s /\ \A q \in Process \ {p} : op'[q] = op[q]
      BY <1>1, <2>1, GotoType DEF Respond, IInv, Types
    <2>3. OpOK(p)' BY <1>1, <2>2 DEF Respond, OpOK, At, Exists, Decides
    <2>4. OneVersioner' BY <2>2, StillOneVersioner DEF IInv
    <2> QED BY <1>1, <2>1, <2>3, <2>4, GotoStep DEF Respond
  <1>2. ASSUME NEW e \in Engineer, ChatLock(p, x, e) PROVE IInv' /\ Kept
    <2> DEFINE s == [pc |-> "chat", project |-> x, engineer |-> e]
    <2>1. s \in OpState BY DEF OpState
    <2>2. op'[p] = s /\ \A q \in Process \ {p} : op'[q] = op[q]
      BY <1>2, <2>1, GotoType DEF ChatLock, IInv, Types
    <2>3. OpOK(p)' BY <1>2, <2>2 DEF ChatLock, OpOK, At, ChatMember, Active
    <2>4. OneVersioner' BY <2>2, StillOneVersioner DEF IInv
    <2> QED BY <1>2, <2>1, <2>3, <2>4, GotoStep DEF ChatLock
  <1>3. ASSUME NEW u \in User, VersionLock(p, x, u) PROVE IInv' /\ Kept
    <2> DEFINE s == [pc |-> "version", project |-> x, by |-> u]
    <2>1. s \in OpState BY DEF OpState
    <2>2. op'[p] = s /\ \A q \in Process \ {p} : op'[q] = op[q]
      BY <1>3, <2>1, GotoType DEF VersionLock, IInv, Types
    <2>3. OpOK(p)' BY <1>3, <2>2 DEF VersionLock, OpOK, At
    <2>4. OneVersioner'
      <3>1. \A q \in Process \ {p} : ~(op[q].pc \in {"version", "numbered"} /\ op[q].project = x)
        BY <1>3 DEF VersionLock, RecordLocked
      <3> QED BY <2>2, <3>1 DEF IInv, OneVersioner
    <2> QED BY <1>3, <2>1, <2>3, <2>4, GotoStep DEF VersionLock
  <1>4. ASSUME NEW l \in Link, LinkRead(p, x, l) PROVE IInv' /\ Kept
    <2> DEFINE s == [pc |-> "link", project |-> x, link |-> l]
    <2>1. s \in OpState BY DEF OpState
    <2>2. op'[p] = s /\ \A q \in Process \ {p} : op'[q] = op[q]
      BY <1>4, <2>1, GotoType DEF LinkRead, IInv, Types
    <2>3. OpOK(p)' BY <1>4, <2>2 DEF LinkRead, OpOK, At, Approved, Exists
    <2>4. OneVersioner' BY <2>2, StillOneVersioner DEF IInv
    <2> QED BY <1>4, <2>1, <2>3, <2>4, GotoStep DEF LinkRead
  <1> QED BY <1>1, <1>2, <1>3, <1>4 DEF Start

LEMMA ChatDoneStep ==
  ASSUME IInv, NEW p \in Process, ChatDone(p)
  PROVE  IInv' /\ Kept
  <1>1. op'[p] = Idle /\ \A q \in Process \ {p} : op'[q] = op[q]
    BY IdleIsState, GotoType DEF ChatDone, IInv, Types
  <1>2. OpOK(p)' /\ OneVersioner'
    BY <1>1, IdleIsState, StillOneVersioner DEF OpOK, At, IInv
  <1> QED BY <1>2, IdleIsState, GotoStep DEF ChatDone

LEMMA NumberStep ==
  ASSUME IInv, NEW p \in Process, VersionNumber(p)
  PROVE  IInv' /\ Kept
  <1>0. PICK x \in Project, u \in User : x = op[p].project /\ u = op[p].by
    BY OpTypes DEF VersionNumber, IInv, Types
  <1> DEFINE s == [pc |-> "numbered", project |-> x, by |-> u, version |-> versions[x] + 1]
  <1>2. versions[x] \in 0..MaxVersions /\ versions[x] < MaxVersions /\ MaxVersions \in Nat
    BY <1>0, ProjectsAssumption DEF VersionNumber, IInv, Types, RowTypes, VersionsType
  <1>3. versions[x] + 1 \in 1..MaxVersions BY <1>2
  <1>4. s \in OpState BY <1>3 DEF OpState
  <1>5. op'[p] = s /\ \A q \in Process \ {p} : op'[q] = op[q]
    BY <1>0, <1>4, GotoType DEF VersionNumber, IInv, Types
  <1>6. OpOK(p)'
    <2>1. versions[x] > 0 /\ HasAccess(x, u) BY <1>0 DEF VersionNumber, IInv, OpOK
    <2>2. HasAccess(x, u)'
      BY <2>1 DEF VersionNumber, HasAccess, Approved, Exists, Active
    <2>3. versions' = versions BY DEF VersionNumber
    <2>4. op'[p].pc = "numbered" /\ op'[p].project = x /\ op'[p].by = u
          /\ op'[p].version = versions[x] + 1
      BY <1>5
    <2> QED BY <2>1, <2>2, <2>3, <2>4 DEF OpOK, At
  <1>7. OneVersioner' BY <1>0, <1>5, StillOneVersioner DEF IInv, VersionNumber, At
  <1> QED BY <1>0, <1>4, <1>6, <1>7, GotoStep DEF VersionNumber

-----------------------------------------------------------------------------
(* Steps that write rows of one project *)

\* The rows of every other project.
Elsewhere(x) ==
    \A y \in Project \ {x} :
        /\ projects'[y] = projects[y] /\ members'[y] = members[y] /\ authors'[y] = authors[y]

\* What writing rows of x has to show, beyond the types.
LEMMA WriteStep ==
  ASSUME IInv, NEW x \in Project, Elsewhere(x), RowTypes',
         ProjectOK(x)', \A e \in Engineer : MemberOK(x, e)',
         Kept
  PROVE  RowsOK' /\ RowTypes' /\ Kept
  <1>1. ASSUME NEW y \in Project \ {x}
        PROVE  ProjectOK(y)' /\ \A e \in Engineer : MemberOK(y, e)'
    BY DEF Elsewhere, IInv, RowsOK, ProjectOK, MemberOK, HasAccess, Approved, Exists, Active,
           Decides, Outcome
  <1> QED BY <1>1 DEF RowsOK

\* A statement of its own, which leaves the requests alone.
LEMMA StatementStep ==
  ASSUME IInv, RowsOK', RowTypes', Kept, UNCHANGED <<pages, op>>,
         \A q \in Process : op[q].pc \in {"version", "numbered"} =>
             versions'[op[q].project] = versions[op[q].project]
  PROVE  IInv'
  <1>1. PagesOK' /\ OpType' /\ OneVersioner'
    BY DEF IInv, Types, PagesOK, Open, OpType, OneVersioner
  <1>2. \A q \in Process : OpOK(q)' BY Relies DEF IInv, Types
  <1> QED BY <1>1, <1>2 DEF IInv, Types

\* The last step of a request.
LEMMA LastStep ==
  ASSUME IInv, RowsOK', RowTypes', Kept, PagesOK',
         NEW p \in Process, op'[p] = Idle, OpType', \A q \in Process \ {p} : op'[q] = op[q],
         \A q \in Process \ {p} : op[q].pc \in {"version", "numbered"} =>
             versions'[op[q].project] = versions[op[q].project]
  PROVE  IInv'
  <1>1. op'[p].pc = "idle" BY IdleIsState
  <1>2. OpOK(p)' BY <1>1 DEF OpOK, At
  <1>3. OneVersioner' BY <1>1, StillOneVersioner DEF IInv
  <1>4. \A q \in Process \ {p} : OpOK(q)' BY OthersRely
  <1> QED BY <1>2, <1>3, <1>4 DEF IInv, Types

\* Access to a project is not lost, so its authors keep it.
LEMMA AuthorsStay ==
  ASSUME RowsOK, Kept, NEW x \in Project, NEW u \in authors[x]
  PROVE  HasAccess(x, u)'
  BY AccessStays DEF RowsOK, ProjectOK

LEMMA ApproveEngineerStep ==
  ASSUME IInv, NEW e \in Engineer, ApproveEngineer(e)
  PROVE  IInv' /\ Kept
  <1>1. approved' \in SUBSET Engineer BY DEF ApproveEngineer, IInv, Types, RowTypes
  <1>2. PagesOK' BY DEF ApproveEngineer, IInv, Types, PagesOK, Open
  <1> QED BY <1>1, <1>2, StepWithoutOp DEF ApproveEngineer

LEMMA CreationStep ==
  ASSUME IInv, NEW p \in Process, CommitCreation(p)
  PROVE  IInv' /\ Kept
  <1>0. PICK u \in User, k \in Key, f \in Form : u = op[p].by /\ k = op[p].key /\ f = op[p].form
    BY OpTypes DEF CommitCreation, At, IInv, Types
  <1>1. PICK x \in Project :
          /\ ~Exists(x)
          /\ \E open \in BOOLEAN : projects' = [projects EXCEPT ![x] =
                [owner |-> OwnerIn(u, f), by |-> u, key |-> k, form |-> f, approval |-> "approved",
                 open |-> open \/ u \in Engineer, link |-> LinkOf[f]]]
          /\ members' = [members EXCEPT ![x] = [e \in Engineer |->
                IF e \in Creators(p) \cap approved
                THEN [type |-> "creator", status |-> "active", createdBy |-> u,
                      respondedBy |-> None, proposal |-> FALSE]
                ELSE NoMember]]
          /\ Answer(p, x)
    BY <1>0 DEF CommitCreation
  <1>2. PICK open \in BOOLEAN : projects' = [projects EXCEPT ![x] =
                [owner |-> OwnerIn(u, f), by |-> u, key |-> k, form |-> f, approval |-> "approved",
                 open |-> open \/ u \in Engineer, link |-> LinkOf[f]]]
    BY <1>1
  <1> DEFINE row == [owner |-> OwnerIn(u, f), by |-> u, key |-> k, form |-> f, approval |-> "approved",
                     open |-> open \/ u \in Engineer, link |-> LinkOf[f]]
             creator == [type |-> "creator", status |-> "active", createdBy |-> u,
                         respondedBy |-> None, proposal |-> FALSE]
  <1>3. row \in ProjectRow
    <2>1. OwnerIn(u, f) \in Client BY ProjectsAssumption DEF User
    <2>2. LinkOf[f] \in Link BY ProjectsAssumption
    <2> QED BY <2>1, <2>2 DEF ProjectRow, User
  <1>4. creator \in MemberRow BY DEF MemberRow, User
  <1>5. ProjectsType /\ MembersType BY DEF IInv, Types, RowTypes
  <1>6. /\ projects'[x] = row /\ \A y \in Project \ {x} : projects'[y] = projects[y]
        /\ \A e \in Engineer : members'[x][e] = creator \/ members'[x][e] = NoMember
        /\ \A y \in Project \ {x} : members'[y] = members[y]
        /\ UNCHANGED <<approved, versions, authors>>
    BY <1>1, <1>2, <1>5 DEF ProjectsType, MembersType, CommitCreation
  <1>7. ProjectsType' /\ MembersType'
    <2>1. ProjectsType' BY <1>2, <1>3, <1>5 DEF ProjectsType
    <2>2. MembersType' BY <1>1, <1>4, <1>5 DEF MembersType
    <2> QED BY <2>1, <2>2
  <1>8. RowTypes' BY <1>6, <1>7 DEF IInv, Types, RowTypes, VersionsType, AuthorsType
  <1>9. \A e \in Engineer : members[x][e] = NoMember
    BY <1>1 DEF IInv, RowsOK, MemberOK
  <1>10. Kept
    <2>1. \A y \in Project \ {x} : (Exists(y) => Exists(y)') BY <1>6 DEF Exists
    <2>2. \A e \in Engineer : members[x][e].status = None BY <1>9 DEF NoMember
    <2> QED BY <1>1, <1>6, <1>9, <2>1, <2>2 DEF Kept
  <1>11. Approved(x)' BY <1>3, <1>6, RowsAreRows DEF Approved, Exists
  <1>12. ProjectOK(x)'
    <2>1. authors'[x] = {}
      BY <1>1, <1>6 DEF IInv, RowsOK, ProjectOK, HasAccess, Approved
    <2>2. \A e \in Engineer : ~members'[x][e].proposal BY <1>6 DEF NoMember
    <2> QED BY <2>1, <2>2, <1>11 DEF ProjectOK
  <1>13. \A e \in Engineer : MemberOK(x, e)'
    BY <1>6, <1>11 DEF MemberOK, Approved
  <1>14. Elsewhere(x) BY <1>6 DEF Elsewhere
  <1>15. RowsOK' BY <1>8, <1>10, <1>12, <1>13, <1>14, WriteStep
  <1>16. PagesOK' /\ OpType' /\ op'[p] = Idle /\ \A q \in Process \ {p} : op'[q] = op[q]
    BY <1>1, AnswerType DEF IInv, Types
  <1> QED BY <1>6, <1>8, <1>10, <1>15, <1>16, LastStep

LEMMA UpdateStep ==
  ASSUME IInv, NEW x \in Project, NEW open \in BOOLEAN, UpdateProject(x, open)
  PROVE  IInv' /\ Kept
  <1>1. projects[x] \in ProjectRow /\ ProjectsType /\ MembersType
    BY ProjectIsRow DEF UpdateProject, Approved, IInv, Types, RowTypes
  <1>2. /\ projects'[x] = [projects[x] EXCEPT !.open = open]
        /\ \A y \in Project \ {x} : projects'[y] = projects[y]
        /\ UNCHANGED <<members, approved, versions, authors, pages, op>>
    BY <1>1 DEF UpdateProject, ProjectsType
  <1>3. projects'[x] \in ProjectRow BY <1>1, <1>2 DEF ProjectRow
  <1>4. RowTypes'
    BY <1>1, <1>3, <1>2 DEF UpdateProject, IInv, Types, RowTypes, ProjectsType, MembersType, VersionsType, AuthorsType
  <1>5. /\ projects'[x] # NoProject
        /\ projects'[x].owner = projects[x].owner /\ projects'[x].approval = projects[x].approval
        /\ projects'[x].link = projects[x].link
    BY <1>1, <1>2, <1>3, RowsAreRows DEF ProjectRow
  <1>6. Kept BY <1>2, <1>5 DEF Kept, Exists
  <1>7. ProjectOK(x)' /\ \A e \in Engineer : MemberOK(x, e)'
    <2>1. ProjectOK(x) /\ \A e \in Engineer : MemberOK(x, e) BY DEF IInv, RowsOK
    <2>2. Approved(x)' = Approved(x) /\ Exists(x) BY <1>2, <1>5, <1>1, RowsAreRows DEF Approved, Exists
    <2>3. \A w \in authors'[x] : HasAccess(x, w)' BY <1>2, <1>6, AuthorsStay DEF IInv
    <2>4. ProjectOK(x)' BY <1>2, <1>5, <2>1, <2>2, <2>3 DEF ProjectOK
    <2>5. ASSUME NEW e \in Engineer PROVE MemberOK(x, e)'
      BY <1>2, <1>5, <2>1, <2>2 DEF MemberOK, Exists, Active, Decides, Outcome
    <2> QED BY <2>4, <2>5
  <1>8. Elsewhere(x) BY <1>2 DEF Elsewhere
  <1>9. RowsOK' BY <1>4, <1>6, <1>7, <1>8, WriteStep
  <1> QED BY <1>2, <1>4, <1>6, <1>9, StatementStep

\* An invitation or a request of a project that is approved.
LEMMA JoinStep ==
  ASSUME IInv, NEW x \in Project, NEW e \in Engineer, Approved(x),
         NEW type \in {"invitation", "request"},
         NEW by, by = IF type = "invitation" THEN projects[x].owner ELSE e,
         Join(x, e, type, by)
  PROVE  IInv' /\ Kept
  <1> DEFINE new == [type |-> type, status |-> "pending", createdBy |-> by, respondedBy |-> None,
                     proposal |-> FALSE]
  <1>1. projects[x] \in ProjectRow /\ ProjectsType /\ MembersType
    BY ProjectIsRow DEF Approved, IInv, Types, RowTypes
  <1>2. new \in MemberRow
    <2>1. by \in Client \cup Engineer BY <1>1 DEF ProjectRow
    <2> QED BY <2>1 DEF MemberRow
  <1>3. /\ members[x][e] = NoMember /\ members'[x][e] = new
        /\ \A f \in Engineer \ {e} : members'[x][f] = members[x][f]
        /\ \A y \in Project \ {x} : members'[y] = members[y]
        /\ UNCHANGED <<projects, approved, versions, authors, pages, op>>
    BY <1>1 DEF Join, MembersType
  <1>4. RowTypes'
    BY <1>1, <1>2 DEF Join, IInv, Types, RowTypes, ProjectsType, MembersType, VersionsType, AuthorsType
  <1>5. Kept BY <1>1, <1>3, MemberIsRow DEF Kept, Exists
  <1>6. \A f \in Engineer : MemberOK(x, f)'
    <2>1. MemberOK(x, e)' BY <1>3 DEF MemberOK, Approved, Exists, Active
    <2>2. ASSUME NEW f \in Engineer \ {e} PROVE MemberOK(x, f)'
      BY <2>2, <1>3 DEF IInv, RowsOK, MemberOK, Approved, Exists, Active, Decides, Outcome
    <2> QED BY <2>1, <2>2
  <1>7. ProjectOK(x)'
    <2>1. \A u \in authors'[x] : HasAccess(x, u)' BY <1>3, <1>5, AuthorsStay DEF IInv
    <2>2. ~members'[x][e].proposal BY <1>3
    <2> QED BY <2>1, <2>2, <1>3 DEF IInv, RowsOK, ProjectOK, Exists, Approved
  <1>8. Elsewhere(x) BY <1>3 DEF Elsewhere
  <1>9. RowsOK' BY <1>4, <1>5, <1>6, <1>7, <1>8, WriteStep
  <1> QED BY <1>3, <1>4, <1>5, <1>9, StatementStep

\* A user who has access writes: the authors of x are one more.
LEMMA AuthorsOK ==
  ASSUME IInv, NEW x \in Project, NEW u \in User, HasAccess(x, u),
         authors' = [authors EXCEPT ![x] = @ \cup {u}], UNCHANGED <<projects, members, approved>>
  PROVE  RowsOK' /\ Kept /\ AuthorsType' /\ ProjectsType' /\ MembersType'
  <1>1. ProjectsType /\ MembersType /\ AuthorsType BY DEF IInv, Types, RowTypes
  <1>2. Kept BY DEF Kept, Exists
  <1>3. /\ authors'[x] = authors[x] \cup {u}
        /\ \A y \in Project \ {x} : authors'[y] = authors[y]
    BY <1>1 DEF AuthorsType
  <1>4. AuthorsType' /\ ProjectsType' /\ MembersType'
    BY <1>1 DEF AuthorsType, ProjectsType, MembersType
  <1>5. ASSUME NEW y \in Project PROVE ProjectOK(y)' /\ \A e \in Engineer : MemberOK(y, e)'
    <2>1. \A w \in authors'[y] : HasAccess(y, w)
      BY <1>3 DEF IInv, RowsOK, ProjectOK
    <2> QED
      BY <2>1 DEF IInv, RowsOK, ProjectOK, MemberOK, HasAccess, Approved, Exists, Active, Decides, Outcome
  <1> QED BY <1>2, <1>4, <1>5 DEF RowsOK

LEMMA RecordStep ==
  ASSUME IInv, NEW x \in Project, NEW u \in User, CreateRecord(x, u) \/ CreateArtifact(x, u)
  PROVE  IInv' /\ Kept
  <1>1. /\ HasAccess(x, u) /\ authors' = [authors EXCEPT ![x] = @ \cup {u}]
        /\ UNCHANGED <<projects, members, approved, pages, op>>
    BY DEF CreateRecord, CreateArtifact, Contribute
  <1>2. RowsOK' /\ Kept /\ AuthorsType' /\ ProjectsType' /\ MembersType' BY <1>1, AuthorsOK
  <1>3. VersionsType BY DEF IInv, Types, RowTypes
  <1>4. VersionsType'
    BY <1>3, ProjectsAssumption DEF CreateRecord, CreateArtifact, VersionsType
  <1>5. RowTypes' BY <1>1, <1>2, <1>4 DEF RowTypes, IInv, Types
  <1>6. ASSUME NEW q \in Process, op[q].pc \in {"version", "numbered"}
        PROVE  versions'[op[q].project] = versions[op[q].project]
    <2>1. op[q].project \in Project /\ versions[op[q].project] > 0
      BY <1>6, OpTypes DEF IInv, Types, OpOK, At
    <2> QED BY <2>1, <1>3 DEF CreateRecord, CreateArtifact, VersionsType
  <1> QED BY <1>1, <1>2, <1>5, <1>6, StatementStep

LEMMA VersionStep ==
  ASSUME IInv, NEW p \in Process, VersionInsert(p)
  PROVE  IInv' /\ Kept
  <1>1. PICK x \in Project, u \in User : x = op[p].project /\ u = op[p].by
    BY OpTypes DEF VersionInsert, IInv, Types
  <1>2. HasAccess(x, u) /\ op[p].version \in 1..MaxVersions /\ MaxVersions \in Nat
    BY <1>1, OpTypes, ProjectsAssumption DEF VersionInsert, IInv, Types, OpOK
  <1>3. /\ authors' = [authors EXCEPT ![x] = @ \cup {u}]
        /\ versions' = [versions EXCEPT ![x] = op[p].version]
        /\ Goto(p, Idle) /\ UNCHANGED <<projects, members, approved, pages>>
    BY <1>1 DEF VersionInsert
  <1>4. RowsOK' /\ Kept /\ AuthorsType' /\ ProjectsType' /\ MembersType'
    BY <1>2, <1>3, AuthorsOK
  <1>5. VersionsType BY DEF IInv, Types, RowTypes
  <1>6. VersionsType' BY <1>2, <1>3, <1>5 DEF VersionsType
  <1>7. RowTypes' BY <1>3, <1>4, <1>6 DEF RowTypes, IInv, Types
  <1>8. OpType' /\ op'[p] = Idle /\ \A q \in Process \ {p} : op'[q] = op[q]
    BY <1>3, IdleIsState, GotoType DEF IInv, Types
  <1>9. PagesOK' BY <1>3 DEF IInv, Types, PagesOK, Open
  <1>10. ASSUME NEW q \in Process \ {p}, op[q].pc \in {"version", "numbered"}
         PROVE  versions'[op[q].project] = versions[op[q].project]
    <2>1. op[q].project # x BY <1>1, <1>10 DEF VersionInsert, At, IInv, OneVersioner
    <2>2. op[q].project \in Project BY <1>10, OpTypes DEF IInv, Types, At
    <2> QED BY <2>1, <2>2, <1>3, <1>5 DEF VersionsType
  <1> QED BY <1>4, <1>7, <1>8, <1>9, <1>10, LastStep

LEMMA LinkStep ==
  ASSUME IInv, NEW p \in Process, LinkWrite(p)
  PROVE  IInv' /\ Kept
  <1>1. PICK x \in Project, l \in Link : x = op[p].project /\ l = op[p].link
    BY OpTypes DEF LinkWrite, IInv, Types
  <1>2. Approved(x) BY <1>1 DEF LinkWrite, IInv, OpOK
  <1>3. projects[x] \in ProjectRow /\ ProjectsType /\ MembersType
    BY <1>2, ProjectIsRow DEF Approved, IInv, Types, RowTypes
  <1>4. /\ projects'[x] = IF projects[x].link = None THEN [projects[x] EXCEPT !.link = l] ELSE projects[x]
        /\ \A y \in Project \ {x} : projects'[y] = projects[y]
        /\ UNCHANGED <<members, approved, versions, authors, pages>>
        /\ projects' \in [Project -> {projects[y] : y \in Project} \cup {projects'[x]}]
    BY <1>1, <1>3 DEF LinkWrite, NoLink, ProjectsType
  <1>5. projects'[x] \in ProjectRow BY <1>3, <1>4 DEF ProjectRow
  <1>6. RowTypes'
    BY <1>3, <1>4, <1>5 DEF IInv, Types, RowTypes, ProjectsType, MembersType, VersionsType, AuthorsType
  <1>7. /\ projects'[x] # NoProject
        /\ projects'[x].owner = projects[x].owner /\ projects'[x].approval = projects[x].approval
        /\ projects[x].link # None => projects'[x].link = projects[x].link
    BY <1>3, <1>4, <1>5, RowsAreRows DEF ProjectRow
  <1>8. Kept BY <1>4, <1>7 DEF Kept, Exists
  <1>9. Approved(x)' BY <1>2, <1>7 DEF Approved, Exists
  <1>10. ProjectOK(x)' /\ \A e \in Engineer : MemberOK(x, e)'
    BY <1>2, <1>4, <1>7, <1>9 DEF IInv, RowsOK, ProjectOK, MemberOK, HasAccess, Approved, Exists, Active, Decides
  <1>11. Elsewhere(x) BY <1>4 DEF Elsewhere
  <1>12. RowsOK' BY <1>6, <1>8, <1>10, <1>11, WriteStep
  <1>13. OpType' /\ op'[p] = Idle /\ \A q \in Process \ {p} : op'[q] = op[q]
    BY IdleIsState, GotoType DEF LinkWrite, IInv, Types
  <1>14. PagesOK' BY <1>4 DEF IInv, Types, PagesOK, Open
  <1> QED BY <1>4, <1>6, <1>8, <1>12, <1>13, <1>14, LastStep

\* A decision, and that of a proposal, changes the membership of e only.
Decided(x, e, u, status) ==
    members' = [members EXCEPT ![x][e].status = status, ![x][e].respondedBy = u]

LEMMA DecisionRow ==
  ASSUME IInv, NEW x \in Project, NEW e \in Engineer, NEW u \in User, NEW status,
         status \in {"active", "declined", "rejected"}, members[x][e] # NoMember, Decided(x, e, u, status)
  PROVE  /\ MembersType'
         /\ members'[x][e] # NoMember
         /\ members'[x][e].type = members[x][e].type
         /\ members'[x][e].createdBy = members[x][e].createdBy
         /\ members'[x][e].proposal = members[x][e].proposal
         /\ members'[x][e].status = status /\ members'[x][e].respondedBy = u
         /\ \A f \in Engineer \ {e} : members'[x][f] = members[x][f]
         /\ \A y \in Project \ {x} : members'[y] = members[y]
  <1>1. MembersType /\ members[x][e] \in MemberRow
    BY MemberIsRow DEF IInv, Types, RowTypes
  <1> DEFINE new == [members[x][e] EXCEPT !.status = status, !.respondedBy = u]
  <1>2. /\ members'[x][e] = new
        /\ \A f \in Engineer \ {e} : members'[x][f] = members[x][f]
        /\ \A y \in Project \ {x} : members'[y] = members[y]
    BY <1>1 DEF MembersType, Decided
  <1>3. /\ new \in MemberRow /\ new.type = members[x][e].type
        /\ new.createdBy = members[x][e].createdBy /\ new.proposal = members[x][e].proposal
        /\ new.status = status /\ new.respondedBy = u
    BY <1>1 DEF MemberRow, User
  <1>4. MembersType'
    <2>1. members' = [members EXCEPT ![x] = [members[x] EXCEPT ![e] = new]]
      BY <1>1 DEF MembersType, Decided
    <2>2. new \in MemberRow \cup {NoMember} BY <1>3
    <2> HIDE DEF new
    <2> QED BY <1>1, <2>1, <2>2 DEF MembersType
  <1> QED BY <1>2, <1>3, <1>4, RowsAreRows

LEMMA DecideStep ==
  ASSUME IInv, NEW p \in Process, Decide(p)
  PROVE  IInv' /\ Kept
  <1>1. PICK x \in Project, e \in Engineer, u \in User, status \in {"active", "declined", "rejected"} :
          x = op[p].project /\ e = op[p].engineer /\ u = op[p].by /\ status = op[p].status
    BY OpTypes, Zenon DEF Decide, IInv, Types
  <1>2. /\ Exists(x) /\ members[x][e] # NoMember /\ members[x][e].type # "creator"
        /\ Decides(x, e, u)
    BY <1>1 DEF Decide, IInv, OpOK
  <1>3. OpType' /\ op'[p] = Idle /\ \A q \in Process \ {p} : op'[q] = op[q]
    BY IdleIsState, GotoType DEF Decide, IInv, Types
  <1>4. PagesOK' BY DEF Decide, IInv, Types, PagesOK, Open
  <1>5. UNCHANGED <<projects, approved, versions, authors>> BY DEF Decide
  <1>6. RowsOK' /\ RowTypes' /\ Kept
    <2>1. CASE UNCHANGED members
      BY <2>1, <1>5, RowsStay DEF IInv, Types, RowTypes
    <2>2. CASE /\ members[x][e].status = "pending" /\ (Approved(x) \/ u = e)
               /\ members' = [members EXCEPT ![x][e].status = status, ![x][e].respondedBy = u]
      <3>1. /\ MembersType'
            /\ members'[x][e] # NoMember
            /\ members'[x][e].type = members[x][e].type
            /\ members'[x][e].createdBy = members[x][e].createdBy
            /\ members'[x][e].proposal = members[x][e].proposal
            /\ members'[x][e].respondedBy = u
            /\ \A f \in Engineer \ {e} : members'[x][f] = members[x][f]
            /\ \A y \in Project \ {x} : members'[y] = members[y]
        <4>1. Decided(x, e, u, status) BY <2>2 DEF Decided
        <4> QED BY <4>1, <1>2, DecisionRow
      <3>2. RowTypes'
        BY <1>5, <3>1 DEF IInv, Types, RowTypes, ProjectsType, VersionsType, AuthorsType
      <3>3. Kept BY <1>5, <2>2, <3>1 DEF Kept, Exists
      <3>4. MemberOK(x, e) BY DEF IInv, RowsOK
      <3>5. ~members[x][e].proposal
        <4>1. SUFFICES ASSUME members[x][e].proposal PROVE FALSE OBVIOUS
        <4>2. u = projects[x].owner /\ ~Approved(x)
          BY <1>2, <2>2, <3>4, <4>1 DEF MemberOK, Decides, Approved
        <4>3. u \in Client BY <1>2, <4>2, ProjectIsRow DEF IInv, Types, RowTypes, ProjectRow
        <4> QED BY <2>2, <4>2, <4>3, ProjectsAssumption
      <3>6. \A f \in Engineer : MemberOK(x, f)'
        <4>1. MemberOK(x, e)'
          BY <1>2, <1>5, <3>1, <3>4, <3>5 DEF MemberOK, Exists, Approved, Active, Decides
        <4>2. ASSUME NEW f \in Engineer \ {e} PROVE MemberOK(x, f)'
          BY <1>5, <3>1 DEF IInv, RowsOK, MemberOK, Exists, Approved, Active, Decides, Outcome
        <4> QED BY <4>1, <4>2
      <3>7. ProjectOK(x)'
        <4>1. \A w \in authors'[x] : HasAccess(x, w)' BY <1>5, <3>3, AuthorsStay DEF IInv
        <4>2. \A f \in Engineer : members'[x][f].proposal = members[x][f].proposal BY <3>1
        <4> QED BY <1>5, <4>1, <4>2 DEF IInv, RowsOK, ProjectOK, Exists, Approved
      <3>8. Elsewhere(x) BY <1>5, <3>1 DEF Elsewhere
      <3> QED BY <3>2, <3>3, <3>6, <3>7, <3>8, WriteStep
    <2> QED BY <1>1, <2>1, <2>2 DEF Decide, Undecided
  <1> QED BY <1>3, <1>4, <1>5, <1>6, LastStep

LEMMA ProposalStep ==
  ASSUME IInv, NEW x \in Project, NEW e \in Engineer, NEW u \in User,
         NEW status \in {"active", "declined", "rejected"}, DecideProposal(x, e, u, status)
  PROVE  IInv' /\ Kept
  <1>1. /\ members[x][e].proposal /\ members[x][e].status = "pending" /\ u = projects[x].owner
        /\ status \in {"active", "rejected"}
        /\ projects[x].approval \in {"pending", Outcome(status)}
        /\ UNCHANGED <<approved, versions, authors, pages, op>>
    BY DEF DecideProposal, ProposalGuard
  <1>2. members[x][e] # NoMember BY <1>1 DEF NoMember
  <1>3. /\ MembersType'
        /\ members'[x][e] # NoMember
        /\ members'[x][e].type = members[x][e].type
        /\ members'[x][e].createdBy = members[x][e].createdBy
        /\ members'[x][e].proposal = members[x][e].proposal
        /\ members'[x][e].status = status /\ members'[x][e].respondedBy = u
        /\ \A f \in Engineer \ {e} : members'[x][f] = members[x][f]
        /\ \A y \in Project \ {x} : members'[y] = members[y]
    <2>1. Decided(x, e, u, status) BY DEF DecideProposal, Decided
    <2> QED BY <1>2, <2>1, DecisionRow
  <1>4. MemberOK(x, e) /\ ProjectOK(x) BY DEF IInv, RowsOK
  <1>5. /\ Exists(x) /\ projects[x].approval = "pending" /\ members[x][e].type = "request"
        /\ members[x][e].createdBy = e /\ projects[x] \in ProjectRow /\ ProjectsType
    BY <1>1, <1>2, <1>4, ProjectIsRow DEF MemberOK, IInv, Types, RowTypes
  <1> DEFINE new == [projects[x] EXCEPT !.approval = Outcome(status), !.open = (status = "active")]
  <1>6. /\ projects'[x] = new
        /\ \A y \in Project \ {x} : projects'[y] = projects[y]
    BY <1>5 DEF DecideProposal, ProjectsType
  <1>7. /\ new \in ProjectRow /\ new.owner = projects[x].owner /\ new.approval = Outcome(status)
        /\ new.link = projects[x].link
    BY <1>5 DEF ProjectRow, Outcome
  <1>8. ProjectsType' BY <1>5, <1>7 DEF DecideProposal, ProjectsType
  <1>9. RowTypes'
    BY <1>1, <1>3, <1>8 DEF IInv, Types, RowTypes, VersionsType, AuthorsType
  <1>10. Exists(x)' BY <1>6, <1>7, RowsAreRows DEF Exists
  <1>11. Kept
    <2>1. \A y \in Project \ {x} : Exists(y) => Exists(y)' BY <1>6 DEF Exists
    <2>2. projects[x].link = None BY <1>4, <1>5 DEF ProjectOK, Approved
    <2>3. ASSUME NEW y \in Project, NEW f \in Engineer
          PROVE  /\ members[y][f] # NoMember =>
                       members'[y][f] # NoMember /\ members'[y][f].type = members[y][f].type
                 /\ members[y][f].status \notin {None, "pending"} => members'[y][f] = members[y][f]
      <3>1. CASE y = x /\ f = e BY <1>1, <1>3, <3>1
      <3>2. CASE ~(y = x /\ f = e)
        <4>1. members'[y][f] = members[y][f] BY <1>3, <3>2
        <4> QED BY <4>1
      <3> QED BY <3>1, <3>2
    <2>4. ASSUME NEW y \in Project
          PROVE  /\ Exists(y) => Exists(y)' /\ projects'[y].owner = projects[y].owner
                 /\ Exists(y) /\ projects[y].approval # "pending" =>
                       projects'[y].approval = projects[y].approval
                 /\ Exists(y) /\ projects[y].link # None => projects'[y].link = projects[y].link
      <3>1. CASE y = x BY <1>5, <1>6, <1>7, <1>10, <2>2, <3>1
      <3>2. CASE y # x BY <1>6, <2>1, <3>2
      <3> QED BY <3>1, <3>2
    <2> QED BY <2>3, <2>4 DEF Kept
  <1>12. \A f \in Engineer : MemberOK(x, f)'
    <2>1. MemberOK(x, e)'
      BY <1>1, <1>3, <1>5, <1>6, <1>7, <1>10 DEF MemberOK, Active, Decides, Outcome
    <2>2. ASSUME NEW f \in Engineer \ {e} PROVE MemberOK(x, f)'
      <3>1. ~members[x][f].proposal BY <1>1, <1>4 DEF ProjectOK
      <3>2. members[x][f] = NoMember
        BY <1>5, <3>1 DEF IInv, RowsOK, MemberOK, Approved
      <3> QED BY <1>3, <3>2 DEF MemberOK
    <2> QED BY <2>1, <2>2
  <1>13. ProjectOK(x)'
    <2>1. \A w \in authors'[x] : HasAccess(x, w)' BY <1>1, <1>11, AuthorsStay DEF IInv
    <2>2. \A f \in Engineer : members'[x][f].proposal = members[x][f].proposal BY <1>3
    <2>3. projects'[x].link = None
      BY <1>4, <1>5, <1>6, <1>7 DEF ProjectOK, Approved
    <2> QED BY <1>4, <2>1, <2>2, <2>3 DEF ProjectOK
  <1>14. Elsewhere(x) BY <1>1, <1>3, <1>6 DEF Elsewhere
  <1>15. RowsOK' BY <1>9, <1>11, <1>12, <1>13, <1>14, WriteStep
  <1> QED BY <1>1, <1>9, <1>11, <1>15, StatementStep

-----------------------------------------------------------------------------
(* The invariant *)

LEMMA InitInv == Init => IInv
  <1> SUFFICES ASSUME Init PROVE IInv OBVIOUS
  <1>1. PagesOK
    <2>1. NewPage \in PageState /\ NewPage.keyForm = None
      <3>1. (CHOOSE f \in Form : TRUE) \in Form BY ProjectsAssumption
      <3> QED BY <3>1, ProjectsAssumption DEF NewPage, PageState
    <2>2. CASE pages = <<>> BY <2>2 DEF PagesOK, Open
    <2>3. CASE \E G \in OpenPages : pages = [g \in G |-> NewPage]
      BY <2>1, <2>3, ProjectsAssumption DEF PagesOK, Open
    <2> QED BY <2>2, <2>3 DEF Init
  <1>2. OpType /\ \A p \in Process : op[p].pc = "idle"
    BY IdleIsState DEF Init, OpType
  <1>3. (\A p \in Process : OpOK(p)) /\ OneVersioner
    BY <1>2 DEF OpOK, At, OneVersioner
  <1>4. VersionsType /\ AuthorsType /\ approved \in SUBSET Engineer
        /\ \A x \in Project : authors[x] = {}
    BY ProjectsAssumption DEF Init, VersionsType, AuthorsType
  <1>5. NoMember.proposal = FALSE BY DEF NoMember
  <1>6. CASE projects = NoProjects /\ members = NoMembers
    <2>1. ProjectsType /\ MembersType BY <1>6 DEF ProjectsType, MembersType, NoProjects, NoMembers
    <2>2. RowsOK
      BY <1>4, <1>5, <1>6 DEF RowsOK, ProjectOK, MemberOK, Exists, NoProjects, NoMembers
    <2> QED BY <1>1, <1>2, <1>3, <1>4, <2>1, <2>2 DEF IInv, Types, RowTypes
  <1>7. ASSUME NEW x \in Project, NEW c \in Client, NEW open \in BOOLEAN,
               projects = [NoProjects EXCEPT ![x] = Legacy(c, None, "approved", open)],
               members = NoMembers
        PROVE  IInv
    <2>1. Legacy(c, None, "approved", open) \in ProjectRow BY DEF Legacy, ProjectRow
    <2>2. ProjectsType /\ MembersType
      BY <1>7, <2>1 DEF ProjectsType, MembersType, NoProjects, NoMembers
    <2>3. \A y \in Project : Exists(y) => y = x /\ projects[y].link = None
      BY <1>7 DEF Exists, NoProjects, Legacy
    <2>4. RowsOK
      BY <1>4, <1>5, <1>7, <2>3 DEF RowsOK, ProjectOK, MemberOK, NoMembers
    <2> QED BY <1>1, <1>2, <1>3, <1>4, <2>2, <2>4 DEF IInv, Types, RowTypes
  <1>8. ASSUME NEW x \in Project, NEW c \in Client, NEW e \in Engineer,
               projects = [NoProjects EXCEPT ![x] = Legacy(c, e, "pending", FALSE)],
               members = [NoMembers EXCEPT ![x][e] = Proposal(e)]
        PROVE  IInv
    <2>1. Legacy(c, e, "pending", FALSE) \in ProjectRow BY DEF Legacy, ProjectRow
    <2>2. Proposal(e) \in MemberRow BY DEF Proposal, MemberRow
    <2>3. ProjectsType /\ MembersType
      BY <1>8, <2>1, <2>2 DEF ProjectsType, MembersType, NoProjects, NoMembers
    <2>4. /\ projects[x] = Legacy(c, e, "pending", FALSE) /\ members[x][e] = Proposal(e)
          /\ \A y \in Project, f \in Engineer : members[y][f] # NoMember => y = x /\ f = e
          /\ \A y \in Project : Exists(y) => y = x
      BY <1>8 DEF Exists, NoProjects, NoMembers
    <2>5. Exists(x) /\ projects[x].approval = "pending" /\ projects[x].link = None
      <3>1. projects[x] # NoProject BY <2>1, <2>4, RowsAreRows
      <3>2. Legacy(c, e, "pending", FALSE).approval = "pending" /\ Legacy(c, e, "pending", FALSE).link = None
        BY DEF Legacy
      <3> QED BY <2>4, <3>1, <3>2 DEF Exists
    <2>6. \A y \in Project, f \in Engineer : MemberOK(y, f)
      <3>1. /\ Proposal(e).type = "request" /\ Proposal(e).status = "pending"
            /\ Proposal(e).createdBy = e /\ Proposal(e).proposal
        BY DEF Proposal
      <3>2. MemberOK(x, e) BY <2>4, <2>5, <3>1 DEF MemberOK, Active
      <3>3. ASSUME NEW y \in Project, NEW f \in Engineer PROVE MemberOK(y, f)
        <4>1. CASE members[y][f] = NoMember BY <4>1 DEF MemberOK
        <4>2. CASE members[y][f] # NoMember BY <2>4, <3>2, <4>2
        <4> QED BY <4>1, <4>2
      <3> QED BY <3>3
    <2>7. \A y \in Project : ProjectOK(y)
      BY <1>4, <1>5, <2>4, <2>5 DEF ProjectOK
    <2> QED BY <1>1, <1>2, <1>3, <1>4, <2>3, <2>6, <2>7 DEF IInv, Types, RowTypes, RowsOK
  <1> QED BY <1>6, <1>7, <1>8, Zenon DEF Init

LEMMA NextInv ==
  ASSUME IInv, [Next]_vars
  PROVE  IInv' /\ Kept
  <1>1. CASE PageStep BY <1>1, PageSteps DEF PageStep
  <1>2. CASE Statement
    <2>1. ASSUME NEW e \in Engineer, ApproveEngineer(e) PROVE IInv' /\ Kept
      BY <2>1, ApproveEngineerStep
    <2>2. ASSUME NEW x \in Project, NEW open \in BOOLEAN, UpdateProject(x, open) PROVE IInv' /\ Kept
      BY <2>2, UpdateStep
    <2>3. ASSUME NEW x \in Project, NEW e \in Engineer, InviteEngineer(x, e) \/ RequestMembership(x, e)
          PROVE  IInv' /\ Kept
      <3>1. CASE InviteEngineer(x, e)
        <4>1. PICK by : by = projects[x].owner OBVIOUS
        <4> QED BY <3>1, <4>1, JoinStep DEF InviteEngineer
      <3>2. CASE RequestMembership(x, e) BY <3>2, JoinStep DEF RequestMembership
      <3> QED BY <2>3, <3>1, <3>2
    <2>4. ASSUME NEW x \in Project, NEW u \in User, CreateRecord(x, u) \/ CreateArtifact(x, u)
          PROVE  IInv' /\ Kept
      BY <2>4, RecordStep
    <2>5. ASSUME NEW x \in Project, NEW e \in Engineer, NEW u \in User,
                 NEW status \in {"active", "declined", "rejected"}, DecideProposal(x, e, u, status)
          PROVE  IInv' /\ Kept
      BY <2>5, ProposalStep
    <2> QED BY <1>2, <2>1, <2>2, <2>3, <2>4, <2>5, Zenon DEF Statement
  <1>3. ASSUME NEW p \in Process, Step(p) PROVE IInv' /\ Kept
    BY <1>3, InsertStep, CreationStep, ReplayAndFailure, DecideStep, ChatDoneStep, NumberStep,
       VersionStep, LinkStep, Zenon DEF Step
  <1>4. ASSUME NEW p \in Process, NEW x \in Project, Start(p, x) PROVE IInv' /\ Kept
    BY <1>4, StartStep
  <1>5. CASE UNCHANGED vars
    <2>1. UNCHANGED <<projects, members, versions, authors, op, approved, pages>> BY <1>5 DEF vars
    <2>2. PagesOK' /\ approved' \in SUBSET Engineer
      BY <2>1 DEF IInv, Types, RowTypes, PagesOK, Open
    <2> QED BY <2>1, <2>2, StepWithoutOp
  <1> QED BY <1>1, <1>2, <1>3, <1>4, <1>5, Zenon DEF Next

LEMMA Inductive == IInv /\ [Next]_vars => IInv'
  BY NextInv

\* The inductive invariant of projects, memberships and the requests under way.
THEOREM Safety == Spec => []IInv
  BY InitInv, Inductive, PTL DEF Spec

\* A membership, the approval and the Git link of a project are decided once,
\* over any interleaving of the requests of its users, and of two releases.
THEOREM Decisions == Spec => DecisionsAreFinal
  <1> DEFINE
      Once == \A x \in Project, e \in Engineer :
                  members[x][e].status \notin {None, "pending"} => members'[x][e] = members[x][e]
      Approval == \A x \in Project : Exists(x) /\ projects[x].approval # "pending" =>
                      projects'[x].approval = projects[x].approval
      TheLink == \A x \in Project : Exists(x) /\ projects[x].link # None =>
                      projects'[x].link = projects[x].link
  <1>1. IInv /\ [Next]_vars => Once /\ Approval /\ TheLink
    <2>1. Kept => Once /\ Approval /\ TheLink BY DEF Kept
    <2> QED BY <2>1, NextInv
  <1> QED BY <1>1, Safety, PTL DEF Spec, DecisionsAreFinal, DecidedOnce, ApprovalIsFinal, LinkIsFinal

-----------------------------------------------------------------------------
(* Who works on a project *)

\* What an engineer is shown of a project he knows of.
LEMMA OneSection ==
  ASSUME IInv, NEW e \in Engineer, NEW x \in Listed(e)
  PROVE  Cardinality({k \in DOMAIN Section(e) : x \in Section(e)[k]}) = 1
  <1> DEFINE status == members[x][e].status
             In == {k \in DOMAIN Section(e) : x \in Section(e)[k]}
  <1>1. /\ x \in Project /\ Exists(x) /\ (Joined(x, e) \/ (Approved(x) /\ projects[x].open))
        /\ MemberOK(x, e) /\ projects[x] \in ProjectRow
        /\ status \in {None, "pending", "active", "declined", "rejected"}
        /\ (status = None <=> members[x][e] = NoMember)
    <2>1. e \notin Client BY ProjectsAssumption
    <2>2. x \in Project /\ Exists(x) /\ (Joined(x, e) \/ (Approved(x) /\ projects[x].open))
      BY <2>1 DEF Listed
    <2>3. ProjectsType /\ MembersType /\ MemberOK(x, e) BY <2>2 DEF IInv, Types, RowTypes, RowsOK
    <2>4. members[x][e] \in MemberRow => status \in {"pending", "active", "declined", "rejected"}
      BY DEF MemberRow
    <2> QED BY <2>2, <2>3, <2>4, ProjectIsRow, MemberIsRow
  <1>2. /\ DOMAIN Section(e) = {"active", "pending", "terminal", "open"}
        /\ x \in Section(e).active <=> status = "active"
        /\ x \in Section(e).pending <=> status = "pending"
        /\ x \in Section(e).terminal <=>
              status \in {"declined", "rejected"} \/ projects[x].approval = "rejected"
        /\ x \in Section(e).open <=> Approved(x) /\ projects[x].open /\ ~Joined(x, e)
    BY DEF Section
  <1>3. Approved(x) => projects[x].approval # "rejected" BY DEF Approved
  <1>4. ~Approved(x) => members[x][e].proposal /\ Joined(x, e)
    BY <1>1 DEF MemberOK, Joined, None
  <1>5. status = "active" => Approved(x)
    <2> SUFFICES ASSUME status = "active" PROVE Approved(x) OBVIOUS
    <2>1. members[x][e] # NoMember BY <1>1 DEF None
    <2>2. members[x][e].proposal => projects[x].approval = "approved"
      <3>1. members[x][e].proposal => projects[x].approval = Outcome(status)
        BY <1>1, <2>1 DEF MemberOK
      <3> QED BY <3>1 DEF Outcome
    <2>3. ~members[x][e].proposal => Approved(x) BY <1>1, <2>1 DEF MemberOK
    <2> QED BY <1>1, <2>2, <2>3 DEF Approved
  <1>6. status = "pending" => projects[x].approval # "rejected"
    <2> SUFFICES ASSUME status = "pending" PROVE projects[x].approval # "rejected" OBVIOUS
    <2>1. members[x][e] # NoMember BY <1>1 DEF None
    <2>2. members[x][e].proposal => projects[x].approval = "pending" BY <1>1, <2>1 DEF MemberOK
    <2>3. ~members[x][e].proposal => Approved(x) BY <1>1, <2>1 DEF MemberOK
    <2> QED BY <1>3, <2>2, <2>3
  <1>7. Joined(x, e) <=> status # None BY <1>1 DEF Joined, None
  <1>8. \E k : In = {k}
    <2> HIDE DEF status
    <2>1. CASE status = "active" 
      <3>1. In = {"active"} BY <1>2, <1>3, <1>5, <1>7, <2>1 DEF None
      <3> QED BY <3>1
    <2>2. CASE status = "pending"
      <3>1. In = {"pending"} BY <1>2, <1>6, <1>7, <2>2 DEF None
      <3> QED BY <3>1
    <2>3. CASE status \in {"declined", "rejected"}
      <3>1. In = {"terminal"} BY <1>2, <1>7, <2>3 DEF None
      <3> QED BY <3>1
    <2>4. CASE status = None
      <3>1. In = {"open"} BY <1>1, <1>2, <1>3, <1>4, <1>7, <2>4 DEF None
      <3> QED BY <3>1
    <2> QED BY <1>1, <2>1, <2>2, <2>3, <2>4
  <1>9. PICK k : In = {k} BY <1>8
  <1> HIDE DEF In
  <1> QED BY <1>9, FS_Singleton DEF In

LEMMA Lists == IInv => ListsAreExact
  <1> SUFFICES ASSUME IInv PROVE ListsAreExact OBVIOUS
  <1>1. ASSUME NEW e \in Engineer PROVE Section(e).active = {x \in Project : HasAccess(x, e)}
    <2>1. e \notin Client BY ProjectsAssumption
    <2>2. ASSUME NEW x \in Project
          PROVE  /\ Active(x, e) => Approved(x) /\ Exists(x) /\ Joined(x, e)
                 /\ HasAccess(x, e) <=> Active(x, e)
      <3>1. MemberOK(x, e) /\ ProjectsType /\ MembersType BY DEF IInv, RowsOK, Types, RowTypes
      <3>2. Active(x, e) => members[x][e] # NoMember BY DEF Active, NoMember, None
      <3>3. Active(x, e) => Approved(x) BY <3>1, <3>2 DEF MemberOK, Active, Approved, Outcome
      <3>4. Exists(x) => projects[x].owner # e BY <2>1, <3>1, ProjectIsRow DEF ProjectRow
      <3>5. Approved(x) => Exists(x) BY DEF Approved
      <3> QED BY <3>2, <3>3, <3>4, <3>5 DEF HasAccess, Joined, Active, None
    <2>3. Section(e).active = {x \in Listed(e) : Active(x, e)} BY DEF Section, Active
    <2>4. Listed(e) = {x \in Project : Exists(x) /\ (Joined(x, e) \/ (Approved(x) /\ projects[x].open))}
      BY <2>1 DEF Listed
    <2> QED BY <2>2, <2>3, <2>4
  <1>2. ASSUME NEW u \in User, NEW x \in LinkShown(u) PROVE HasAccess(x, u)
    <2>1. x \in Listed(u) /\ projects[x].link # None /\ (u \in Client \/ Active(x, u))
      BY DEF LinkShown
    <2>2. x \in Project /\ Exists(x) /\ (u \in Client => projects[x].owner = u) BY <2>1 DEF Listed
    <2>3. Approved(x) BY <2>1, <2>2 DEF IInv, RowsOK, ProjectOK
    <2> QED BY <2>1, <2>2, <2>3 DEF HasAccess, User
  <1> QED BY <1>1, <1>2, OneSection DEF ListsAreExact

LEMMA Consent == IInv => ConsentOfBoth
  <1> SUFFICES ASSUME IInv, NEW x \in Project, NEW e \in Engineer,
                      Active(x, e), members[x][e].type # "creator"
               PROVE  {members[x][e].createdBy, members[x][e].respondedBy} = {projects[x].owner, e}
    BY DEF ConsentOfBoth
  <1>1. MemberOK(x, e) /\ MembersType BY DEF IInv, RowsOK, Types, RowTypes
  <1>2. members[x][e] # NoMember BY DEF Active, NoMember, None
  <1>3. members[x][e].type \in {"invitation", "request"} BY <1>1, <1>2, MemberIsRow DEF MemberRow
  <1> QED BY <1>1, <1>2, <1>3 DEF MemberOK, Decides

LEMMA Proposals == IInv => ProposalsAgree
  <1> SUFFICES ASSUME IInv, NEW x \in Project, Exists(x)
               PROVE  /\ \A e \in Engineer : members[x][e].proposal =>
                            projects[x].approval = IF members[x][e].status = "pending" THEN "pending"
                                                   ELSE Outcome(members[x][e].status)
                      /\ ~Approved(x) =>
                            /\ projects[x].link = None /\ authors[x] = {}
                            /\ \A e \in Engineer : ~members[x][e].proposal => members[x][e] = NoMember
    BY DEF ProposalsAgree
  <1>1. ProjectOK(x) /\ \A e \in Engineer : MemberOK(x, e) BY DEF IInv, RowsOK
  <1>2. NoMember.proposal = FALSE BY DEF NoMember
  <1>3. ~Approved(x) => authors[x] = {} BY <1>1 DEF ProjectOK, HasAccess
  <1> QED BY <1>1, <1>2, <1>3 DEF ProjectOK, MemberOK

\* Who works on a project, and what is shown of it, over any interleaving of
\* requests: both sides agreed, no first decision and no version is lost.
THEOREM Members == Spec => []MembersByConsent
  <1>1. IInv => MembersByConsent
    <2> SUFFICES ASSUME IInv PROVE MembersByConsent OBVIOUS
    <2>1. TypeOK
      BY DEF IInv, Types, RowTypes, ProjectsType, MembersType, VersionsType, AuthorsType, PagesOK,
             OpType, TypeOK
    <2>2. AuthorsAreMembers BY DEF IInv, RowsOK, ProjectOK, HasAccess, AuthorsAreMembers
    <2>3. NoCircleOnFirstDecision
      <3>1. ASSUME NEW p \in Process, NEW q \in Process, Circle(p, q)
            PROVE  members[op[p].project][op[p].engineer].status # "pending"
        BY <3>1 DEF IInv, OpOK, Circle, Active
      <3> QED BY <3>1 DEF NoCircleOnFirstDecision
    <2>4. VersionsNeverCollide BY DEF IInv, OpOK, VersionsNeverCollide
    <2> QED BY <2>1, <2>2, <2>3, <2>4, Lists, Consent, Proposals DEF MembersByConsent
  <1> QED BY <1>1, Safety, PTL

-----------------------------------------------------------------------------
(* Creation.  A key that a page sends, a request carries or a project has is
   used with one author and one form: the page sends it again only with the
   form of the first time, and what is Fresh is used by nobody.  So there are
   no more keys of an author than edits of the page that is alone in sending
   for him, and one more from when the form was sent. *)

Creating(p) == op[p].pc \in {"create", "created", "replay"}
Keyed(x) == Exists(x) /\ projects[x].key # None

PageUses(g, u, k, f) ==
    pages[g].keyForm # None /\ AuthorOf[g] = u /\ pages[g].key = k /\ pages[g].keyForm = f
RequestUses(p, u, k, f) == Creating(p) /\ op[p].by = u /\ op[p].key = k /\ op[p].form = f
ProjectUses(x, u, k, f) ==
    Keyed(x) /\ projects[x].by = u /\ projects[x].key = k /\ projects[x].form = f

\* The author u sent, sends or has the key k with the form f.
Used(u, k, f) ==
    \/ \E g \in Open : PageUses(g, u, k, f)
    \/ \E p \in Process : RequestUses(p, u, k, f)
    \/ \E x \in Project : ProjectUses(x, u, k, f)

Author == User \cup {None}
Content == Form \cup {None}

KeysOf(u) == {k \in Key : \E f \in Content : Used(u, k, f)}
Alone(g) == \A h \in Open : AuthorOf[h] = AuthorOf[g] => h = g
Sent(g) == pages[g].edits + (IF pages[g].keyForm = pages[g].form THEN 1 ELSE 0)

KeysAgree ==
    \A k \in Key, u, v \in Author, f, g \in Content : Used(u, k, f) /\ Used(v, k, g) => u = v /\ f = g
KeysBounded ==
    \A g \in Open : Alone(g) =>
        /\ IsFiniteSet(KeysOf(AuthorOf[g]))
        /\ Cardinality(KeysOf(AuthorOf[g])) <= Sent(g)

\* A key becomes one project; who is about to create it is the only one, and
\* its engineers were approved, as approved engineers stay.
OneProjectPerKey ==
    \A x, y \in Project :
        Keyed(x) /\ Keyed(y) /\ projects[x].by = projects[y].by /\ projects[x].key = projects[y].key => x = y
OneCreator ==
    \A p, q \in Process :
        At(p, "created") /\ At(q, "created") /\ op[p].by = op[q].by /\ op[p].key = op[q].key => p = q
CreatorsAdmitted ==
    \A p \in Process : At(p, "created") => WithKey(p) = {} /\ Admitted(p)

Whole(x) ==
    /\ {e \in Engineer : members[x][e].type = "creator"} = EngineersIn(projects[x].by, projects[x].form)
    /\ \A e \in EngineersIn(projects[x].by, projects[x].form) : Active(x, e)
ProjectsAreWhole == \A x \in Project : Keyed(x) => Whole(x)

CInv ==
    /\ KeysAgree /\ KeysBounded
    /\ OneProjectPerKey /\ OneCreator /\ CreatorsAdmitted
    /\ ProjectsAreWhole

\* The pages keep their keys, and may have sent no less.
PagesSame ==
    /\ Open' = Open
    /\ \A g \in Open :
          /\ pages'[g].key = pages[g].key /\ pages'[g].keyForm = pages[g].keyForm
          /\ Sent(g) <= Sent(g)'

\* No project is made, and none gets another key or other creators.
RowsSame ==
    \A x \in Project :
        /\ Exists(x)' <=> Exists(x)
        /\ Exists(x) => /\ projects'[x].by = projects[x].by
                        /\ projects'[x].key = projects[x].key
                        /\ projects'[x].form = projects[x].form
        /\ \A e \in Engineer : members'[x][e].type = "creator" <=> members[x][e].type = "creator"

\* No request begins a creation, and none is further with one.
RequestsSame ==
    \A p \in Process : Creating(p)' =>
        /\ Creating(p)
        /\ op'[p].by = op[p].by /\ op'[p].key = op[p].key /\ op'[p].form = op[p].form
        /\ op'[p].pc = "created" => op[p].pc = "created"

LEMMA SentType ==
  ASSUME PagesOK, NEW g \in Open
  PROVE  Sent(g) \in Nat
  BY ProjectsAssumption DEF PagesOK, PageState, Sent

\* When nobody uses a key that was not used, the keys stay in order.
LEMMA KeysKept ==
  ASSUME IInv, IInv', CInv, PagesSame,
         \A u \in Author, k \in Key, f \in Content : Used(u, k, f)' => Used(u, k, f)
  PROVE  KeysAgree' /\ KeysBounded'
  <1>1. KeysAgree' BY DEF CInv, KeysAgree
  <1>2. ASSUME NEW g \in Open', Alone(g)'
        PROVE  IsFiniteSet(KeysOf(AuthorOf[g])') /\ Cardinality(KeysOf(AuthorOf[g])') <= Sent(g)'
    <2>1. g \in Open /\ g \in Page /\ Alone(g) BY <1>2 DEF PagesSame, Alone, IInv, Types, PagesOK
    <2> DEFINE u == AuthorOf[g]
    <2>2. u \in Author BY <2>1, ProjectsAssumption DEF Author, User
    <2>3. KeysOf(u)' \subseteq KeysOf(u) BY <2>2 DEF KeysOf
    <2>4. IsFiniteSet(KeysOf(u)) /\ Cardinality(KeysOf(u)) <= Sent(g)
      BY <2>1 DEF CInv, KeysBounded
    <2>5. IsFiniteSet(KeysOf(u)') /\ Cardinality(KeysOf(u)') <= Cardinality(KeysOf(u))
      BY <2>3, <2>4, FS_Subset
    <2>6. Cardinality(KeysOf(u)) \in Nat /\ Cardinality(KeysOf(u)') \in Nat
      BY <2>4, <2>5, FS_CardinalityType
    <2>7. Sent(g) \in Nat BY <2>1, SentType DEF IInv, Types
    <2>8. (Sent(g)') \in Nat
      <3>1. PagesOK' BY DEF IInv, Types
      <3> QED BY <1>2, <3>1 , ProjectsAssumption DEF PagesOK, PageState, Sent
    <2>9. Sent(g) <= Sent(g)' BY <2>1 DEF PagesSame
    <2> QED BY <2>4, <2>5, <2>6, <2>7, <2>8, <2>9
  <1> QED BY <1>1, <1>2 DEF KeysBounded

LEMMA ProjectsKept ==
  ASSUME CInv, Kept, RowsSame, IInv
  PROVE  OneProjectPerKey' /\ ProjectsAreWhole'
  <1>1. \A x \in Project : Keyed(x)' => Keyed(x) BY DEF RowsSame, Keyed
  <1>2. OneProjectPerKey' BY <1>1 DEF CInv, OneProjectPerKey, RowsSame, Keyed
  <1>3. ASSUME NEW x \in Project, Keyed(x)' PROVE Whole(x)'
    <2>1. Keyed(x) /\ Whole(x) BY <1>1, <1>3 DEF CInv, ProjectsAreWhole
    <2>2. projects'[x].by = projects[x].by /\ projects'[x].form = projects[x].form
      BY <2>1 DEF RowsSame, Keyed
    <2>3. \A e \in Engineer : members'[x][e].type = "creator" <=> members[x][e].type = "creator"
      BY DEF RowsSame
    <2>4. EngineersIn(projects[x].by, projects[x].form) \subseteq Engineer BY <2>1 DEF Whole
    <2>5. \A e \in Engineer : Active(x, e) => Active(x, e)' BY DEF Kept, Active, None
    <2> QED BY <2>1, <2>2, <2>3, <2>4, <2>5 DEF Whole
  <1> QED BY <1>2, <1>3 DEF ProjectsAreWhole

LEMMA CreatorsKept ==
  ASSUME CInv, RowsSame, approved \subseteq approved',
         \A p \in Process : op'[p].pc = "created" =>
             /\ op[p].pc = "created"
             /\ op'[p].by = op[p].by /\ op'[p].key = op[p].key /\ op'[p].form = op[p].form
  PROVE  OneCreator' /\ CreatorsAdmitted'
  <1>1. OneCreator' BY DEF CInv, OneCreator, At
  <1>2. ASSUME NEW p \in Process, At(p, "created")' PROVE (WithKey(p) = {})' /\ Admitted(p)'
    <2>1. /\ At(p, "created")
          /\ op'[p].by = op[p].by /\ op'[p].key = op[p].key /\ op'[p].form = op[p].form
      BY <1>2 DEF At
    <2>2. WithKey(p) = {} /\ Admitted(p) BY <2>1 DEF CInv, CreatorsAdmitted
    <2>3. (WithKey(p) = {})' BY <2>1, <2>2 DEF WithKey, RowsSame
    <2>4. Admitted(p)' BY <2>1, <2>2 DEF Admitted, Creators
    <2> QED BY <2>3, <2>4
  <1> QED BY <1>1, <1>2 DEF CreatorsAdmitted

LEMMA UsesSame ==
  ASSUME PagesSame, RowsSame,
         \A p \in Process : Creating(p)' =>
             Creating(p) /\ op'[p].by = op[p].by /\ op'[p].key = op[p].key /\ op'[p].form = op[p].form,
         NEW u, NEW k, NEW f, Used(u, k, f)'
  PROVE  Used(u, k, f)
  <1>1. ASSUME NEW g \in Open', PageUses(g, u, k, f)' PROVE Used(u, k, f)
    BY <1>1 DEF PagesSame, PageUses, Used
  <1>2. ASSUME NEW p \in Process, RequestUses(p, u, k, f)' PROVE Used(u, k, f)
    BY <1>2 DEF RequestUses, Used
  <1>3. ASSUME NEW x \in Project, ProjectUses(x, u, k, f)' PROVE Used(u, k, f)
    BY <1>3 DEF ProjectUses, Used, RowsSame, Keyed
  <1> QED BY <1>1, <1>2, <1>3 DEF Used

\* A step that begins no creation and ends none.
LEMMA FrameKeeps ==
  ASSUME IInv, IInv', CInv, Kept, PagesSame, RowsSame, RequestsSame, approved \subseteq approved'
  PROVE  CInv'
  <1>1. \A u \in Author, k \in Key, f \in Content : Used(u, k, f)' => Used(u, k, f)
    BY UsesSame DEF RequestsSame
  <1>2. \A p \in Process : op'[p].pc = "created" =>
            /\ op[p].pc = "created"
            /\ op'[p].by = op[p].by /\ op'[p].key = op[p].key /\ op'[p].form = op[p].form
    BY DEF RequestsSame, Creating
  <1> QED BY <1>1, <1>2, KeysKept, ProjectsKept, CreatorsKept DEF CInv

-----------------------------------------------------------------------------
(* Steps that begin no creation and end none *)

LEMMA SameRows ==
  ASSUME UNCHANGED <<projects, members>>
  PROVE  RowsSame
  BY DEF RowsSame, Exists

LEMMA SamePages ==
  ASSUME UNCHANGED pages, IInv
  PROVE  PagesSame
  <1>1. \A g \in Open : Sent(g) \in Nat BY SentType DEF IInv, Types
  <1>2. \A g \in Open : Sent(g)' = Sent(g) BY DEF Sent
  <1> QED BY <1>1, <1>2 DEF PagesSame, Open

LEMMA OtherRequest ==
  ASSUME NEW p \in Process, \A q \in Process \ {p} : op'[q] = op[q], ~Creating(p)'
  PROVE  RequestsSame
  BY DEF RequestsSame, Creating

LEMMA AnswerPages ==
  ASSUME IInv, NEW p \in Process, NEW x \in Project \cup {None}, Answer(p, x)
  PROVE  PagesSame /\ RequestsSame
  <1>1. op'[p] = Idle /\ \A q \in Process \ {p} : op'[q] = op[q]
    BY AnswerType DEF IInv, Types
  <1>2. ~Creating(p)' BY <1>1, IdleIsState DEF Creating
  <1>3. Open' = Open BY DEF Answer, Open
  <1>4. ASSUME NEW g \in Open
        PROVE  /\ pages'[g].key = pages[g].key /\ pages'[g].keyForm = pages[g].keyForm
               /\ Sent(g) <= Sent(g)'
    <2>1. pages[g] \in PageState /\ Sent(g) \in Nat BY SentType DEF IInv, Types, PagesOK
    <2>2. /\ pages'[g].key = pages[g].key /\ pages'[g].keyForm = pages[g].keyForm
          /\ pages'[g].form = pages[g].form /\ pages'[g].edits = pages[g].edits
      BY <2>1 DEF Answer, Open, PageState
    <2> QED BY <2>1, <2>2 DEF Sent
  <1> QED BY <1>1, <1>2, <1>3, <1>4, OtherRequest DEF PagesSame

LEMMA PageFrame ==
  ASSUME IInv, NEW g \in Page, PageGivesUp(g) \/ \E f \in Form : Edit(g, f)
  PROVE  PagesSame /\ RowsSame /\ RequestsSame /\ approved \subseteq approved'
  <1>1. RowsSame BY SameRows DEF PageGivesUp, Edit
  <1>2. RequestsSame /\ approved \subseteq approved' BY DEF PageGivesUp, Edit, RequestsSame, Creating
  <1>3. g \in Open /\ Open' = Open BY DEF PageGivesUp, Edit, Open
  <1>4. pages[g] \in PageState /\ Sent(g) \in Nat BY <1>3, SentType DEF IInv, Types, PagesOK
  <1>5. ASSUME NEW h \in Open
        PROVE  /\ pages'[h].key = pages[h].key /\ pages'[h].keyForm = pages[h].keyForm
               /\ Sent(h) <= Sent(h)'
    <2>1. Sent(h) \in Nat BY SentType DEF IInv, Types
    <2>2. CASE h # g
      <3>1. pages'[h] = pages[h] BY <2>2 DEF PageGivesUp, Edit, Open
      <3> QED BY <2>1, <3>1 DEF Sent
    <2>3. CASE h = g
      <3>1. CASE PageGivesUp(g) BY <1>4, <2>3, <3>1 DEF PageGivesUp, Open, Sent, PageState
      <3>2. ASSUME NEW f \in Form, Edit(g, f)
            PROVE  /\ pages'[g].key = pages[g].key /\ pages'[g].keyForm = pages[g].keyForm
                   /\ Sent(g) <= Sent(g)'
        <4>1. /\ pages'[g].key = pages[g].key /\ pages'[g].keyForm = pages[g].keyForm
              /\ pages'[g].edits = pages[g].edits + 1
          BY <1>3, <1>4, <3>2 DEF Edit, Open, PageState
        <4>2. pages[g].edits \in Nat BY <1>4, ProjectsAssumption DEF PageState
        <4> QED BY <4>1, <4>2 DEF Sent
      <3> QED BY <2>3, <3>1, <3>2
    <2> QED BY <2>2, <2>3
  <1> QED BY <1>1, <1>2, <1>3, <1>5 DEF PagesSame

LEMMA StartFrame ==
  ASSUME IInv, NEW p \in Process, NEW x \in Project, Start(p, x)
  PROVE  PagesSame /\ RowsSame /\ RequestsSame /\ approved \subseteq approved'
  <1>1. UNCHANGED <<projects, members, approved, pages>>
    BY DEF Start, Respond, ChatLock, VersionLock, LinkRead
  <1>2. PICK s \in OpState : Goto(p, s) /\ s.pc \in {"respond", "chat", "version", "link"}
    <2>1. ASSUME NEW e \in Engineer, NEW u \in User, NEW accept \in BOOLEAN, Respond(p, x, e, u, accept)
          PROVE  \E s \in OpState : Goto(p, s) /\ s.pc \in {"respond", "chat", "version", "link"}
      <3> DEFINE s == [pc |-> "respond", project |-> x, engineer |-> e, by |-> u,
                       status |-> IF accept THEN "active" ELSE IF u = e THEN "declined" ELSE "rejected"]
      <3>1. s \in OpState /\ s.pc = "respond" BY DEF OpState
      <3> QED BY <2>1, <3>1 DEF Respond
    <2>2. ASSUME NEW e \in Engineer, ChatLock(p, x, e)
          PROVE  \E s \in OpState : Goto(p, s) /\ s.pc \in {"respond", "chat", "version", "link"}
      <3> DEFINE s == [pc |-> "chat", project |-> x, engineer |-> e]
      <3>1. s \in OpState /\ s.pc = "chat" BY DEF OpState
      <3> QED BY <2>2, <3>1 DEF ChatLock
    <2>3. ASSUME NEW u \in User, VersionLock(p, x, u)
          PROVE  \E s \in OpState : Goto(p, s) /\ s.pc \in {"respond", "chat", "version", "link"}
      <3> DEFINE s == [pc |-> "version", project |-> x, by |-> u]
      <3>1. s \in OpState /\ s.pc = "version" BY DEF OpState
      <3> QED BY <2>3, <3>1 DEF VersionLock
    <2>4. ASSUME NEW l \in Link, LinkRead(p, x, l)
          PROVE  \E s \in OpState : Goto(p, s) /\ s.pc \in {"respond", "chat", "version", "link"}
      <3> DEFINE s == [pc |-> "link", project |-> x, link |-> l]
      <3>1. s \in OpState /\ s.pc = "link" BY DEF OpState
      <3> QED BY <2>4, <3>1 DEF LinkRead
    <2> QED BY <2>1, <2>2, <2>3, <2>4 DEF Start
  <1>3. op'[p] = s /\ \A q \in Process \ {p} : op'[q] = op[q]
    BY <1>2, GotoType DEF IInv, Types
  <1>4. RequestsSame BY <1>2, <1>3, OtherRequest DEF Creating
  <1> QED BY <1>1, <1>4, SameRows, SamePages

\* A project that is there is updated.
LEMMA RowUpdated ==
  ASSUME Kept, NEW x \in Project, Exists(x), NEW new,
         new.by = projects[x].by /\ new.key = projects[x].key /\ new.form = projects[x].form,
         projects'[x] = new, \A y \in Project \ {x} : projects'[y] = projects[y],
         \A y \in Project, e \in Engineer :
             members'[y][e].type = "creator" <=> members[y][e].type = "creator"
  PROVE  RowsSame
  <1>1. Exists(x)' BY DEF Kept
  <1> QED BY <1>1 DEF RowsSame, Exists

LEMMA StatementFrame ==
  ASSUME IInv, Kept, Statement
  PROVE  PagesSame /\ RowsSame /\ RequestsSame /\ approved \subseteq approved'
  <1>1. UNCHANGED <<pages, op>> /\ approved \subseteq approved'
    BY DEF Statement, ApproveEngineer, UpdateProject, InviteEngineer, RequestMembership, Join,
           CreateRecord, CreateArtifact, Contribute, DecideProposal
  <1>2. RowsSame
    <2>1. ASSUME NEW e \in Engineer, ApproveEngineer(e) PROVE RowsSame
      BY <2>1, SameRows DEF ApproveEngineer
    <2>2. ASSUME NEW x \in Project, NEW open \in BOOLEAN, UpdateProject(x, open) PROVE RowsSame
      <3>1. Exists(x) /\ ProjectsType BY <2>2 DEF UpdateProject, Approved, IInv, Types, RowTypes
      <3>2. projects[x] \in ProjectRow BY <3>1, ProjectIsRow
      <3> DEFINE new == [projects[x] EXCEPT !.open = open]
      <3>3. /\ projects'[x] = new /\ \A y \in Project \ {x} : projects'[y] = projects[y]
            /\ UNCHANGED members
        BY <2>2, <3>1 DEF UpdateProject, ProjectsType
      <3>4. new.by = projects[x].by /\ new.key = projects[x].key /\ new.form = projects[x].form
        BY <3>2 DEF ProjectRow
      <3> HIDE DEF new
      <3> QED BY <3>1, <3>3, <3>4, RowUpdated
    <2>3. ASSUME NEW x \in Project, NEW e \in Engineer, InviteEngineer(x, e) \/ RequestMembership(x, e)
          PROVE  RowsSame
      <3>1. PICK type, by : type \in {"invitation", "request"} /\ Join(x, e, type, by)
        BY <2>3 DEF InviteEngineer, RequestMembership
      <3> DEFINE new == [type |-> type, status |-> "pending", createdBy |-> by, respondedBy |-> None,
                         proposal |-> FALSE]
      <3>2. MembersType /\ members[x][e] = NoMember /\ UNCHANGED projects
            /\ members' = [members EXCEPT ![x][e] = new]
        BY <3>1 DEF Join, IInv, Types, RowTypes
      <3>3. new.type # "creator" /\ NoMember.type # "creator" BY <3>1 DEF NoMember, None
      <3> HIDE DEF new
      <3>4. \A y \in Project, f \in Engineer :
              members'[y][f].type = "creator" <=> members[y][f].type = "creator"
        BY <3>2, <3>3 DEF MembersType
      <3> QED BY <3>2, <3>4 DEF RowsSame, Exists
    <2>4. ASSUME NEW x \in Project, NEW u \in User, CreateRecord(x, u) \/ CreateArtifact(x, u)
          PROVE  RowsSame
      BY <2>4, SameRows DEF CreateRecord, CreateArtifact, Contribute
    <2>5. ASSUME NEW x \in Project, NEW e \in Engineer, NEW u \in User,
                 NEW status \in {"active", "declined", "rejected"}, DecideProposal(x, e, u, status)
          PROVE  RowsSame
      <3>1. members[x][e] # NoMember /\ Decided(x, e, u, status)
        BY <2>5 DEF DecideProposal, NoMember, Decided
      <3>2. Exists(x) BY <3>1 DEF IInv, RowsOK, MemberOK
      <3>3. \A y \in Project, f \in Engineer : members'[y][f].type = members[y][f].type
        BY <3>1, DecisionRow
      <3>4. projects[x] \in ProjectRow /\ ProjectsType
        BY <3>2, ProjectIsRow DEF IInv, Types, RowTypes
      <3>5. CASE UNCHANGED projects BY <3>3, <3>5 DEF RowsSame, Exists
      <3> DEFINE new == [projects[x] EXCEPT !.approval = Outcome(status), !.open = (status = "active")]
      <3>6. CASE projects' = [projects EXCEPT ![x].approval = Outcome(status),
                                              ![x].open = (status = "active")]
        <4>1. projects'[x] = new /\ \A y \in Project \ {x} : projects'[y] = projects[y]
          BY <3>4, <3>6 DEF ProjectsType
        <4>2. new.by = projects[x].by /\ new.key = projects[x].key /\ new.form = projects[x].form
          BY <3>4 DEF ProjectRow
        <4> HIDE DEF new
        <4> QED BY <3>2, <3>3, <4>1, <4>2, RowUpdated
      <3> QED BY <2>5, <3>5, <3>6 DEF DecideProposal
    <2> QED BY <2>1, <2>2, <2>3, <2>4, <2>5, Zenon DEF Statement
  <1>3. RequestsSame BY <1>1 DEF RequestsSame, Creating
  <1> QED BY <1>1, <1>2, <1>3, SamePages

LEMMA DecideFrame ==
  ASSUME IInv, NEW p \in Process, Decide(p)
  PROVE  RowsSame
  <1>1. PICK x \in Project, e \in Engineer, u \in User, status \in {"active", "declined", "rejected"} :
          x = op[p].project /\ e = op[p].engineer /\ u = op[p].by /\ status = op[p].status
    BY OpTypes, Zenon DEF Decide, IInv, Types
  <1>2. members[x][e] # NoMember BY <1>1 DEF Decide, IInv, OpOK
  <1>3. UNCHANGED projects BY DEF Decide
  <1>4. CASE UNCHANGED members BY <1>3, <1>4, SameRows
  <1>5. CASE Decided(x, e, u, status)
    <2>1. \A y \in Project, f \in Engineer : members'[y][f].type = members[y][f].type
      BY <1>2, <1>5, DecisionRow
    <2> QED BY <1>3, <2>1 DEF RowsSame, Exists
  <1> QED BY <1>1, <1>4, <1>5 DEF Decide, Decided

LEMMA LinkFrame ==
  ASSUME IInv, Kept, NEW p \in Process, LinkWrite(p)
  PROVE  RowsSame
  <1>1. PICK x \in Project, l \in Link : x = op[p].project /\ l = op[p].link
    BY OpTypes DEF LinkWrite, IInv, Types
  <1>2. Exists(x) /\ ProjectsType BY <1>1 DEF LinkWrite, IInv, OpOK, Approved, Types, RowTypes
  <1>3. projects[x] \in ProjectRow BY <1>2, ProjectIsRow
  <1> DEFINE new == [projects[x] EXCEPT !.link = l]
  <1>4. CASE UNCHANGED projects BY <1>4, SameRows DEF LinkWrite
  <1>5. CASE projects' = [projects EXCEPT ![x].link = l]
    <2>1. projects'[x] = new /\ \A y \in Project \ {x} : projects'[y] = projects[y]
      BY <1>2, <1>5 DEF ProjectsType
    <2>2. new.by = projects[x].by /\ new.key = projects[x].key /\ new.form = projects[x].form
      BY <1>3 DEF ProjectRow
    <2> HIDE DEF new
    <2> QED BY <1>2, <2>1, <2>2, RowUpdated DEF LinkWrite
  <1> QED BY <1>1, <1>4, <1>5 DEF LinkWrite

\* The steps of a request that is no creation.
LEMMA OtherSteps ==
  ASSUME IInv, Kept, NEW p \in Process,
         Decide(p) \/ ChatDone(p) \/ VersionNumber(p) \/ VersionInsert(p) \/ LinkWrite(p)
  PROVE  PagesSame /\ RowsSame /\ RequestsSame /\ approved \subseteq approved'
  <1>1. UNCHANGED <<pages, approved>>
    BY DEF Decide, ChatDone, VersionNumber, VersionInsert, LinkWrite
  <1>2. RowsSame
    BY SameRows, DecideFrame, LinkFrame DEF ChatDone, VersionNumber, VersionInsert
  <1>3. PICK s : Goto(p, s) /\ s.pc \in {"idle", "numbered"}
    <2>1. CASE VersionNumber(p)
      <3> DEFINE s == [pc |-> "numbered", project |-> op[p].project, by |-> op[p].by,
                       version |-> versions[op[p].project] + 1]
      <3>1. Goto(p, s) /\ s.pc = "numbered" BY <2>1 DEF VersionNumber
      <3> QED BY <3>1
    <2>2. CASE ~VersionNumber(p)
      <3>1. Goto(p, Idle) BY <2>2 DEF Decide, ChatDone, VersionInsert, LinkWrite
      <3> QED BY <3>1, IdleIsState
    <2> QED BY <2>1, <2>2
  <1>4. op'[p] = s /\ \A q \in Process \ {p} : op'[q] = op[q]
    BY <1>3 DEF Goto, IInv, Types, OpType
  <1>5. RequestsSame BY <1>3, <1>4, OtherRequest DEF Creating
  <1> QED BY <1>1, <1>2, <1>5, SamePages

-----------------------------------------------------------------------------
(* Steps that begin a creation or end one *)

LEMMA SubmitKeeps ==
  ASSUME IInv, IInv', CInv, Kept, NEW g \in Page, NEW p \in Process, Submit(g, p)
  PROVE  CInv'
  <1>1. PICK k \in KeyFor(g) :
          /\ pages' = [pages EXCEPT ![g].key = k, ![g].keyForm = pages[g].form, ![g].request = p]
          /\ Goto(p, [pc |-> "create", by |-> AuthorOf[g], key |-> k, form |-> pages[g].form])
    BY DEF Submit
  <1> DEFINE u == AuthorOf[g]  f == pages[g].form
             s == [pc |-> "create", by |-> u, key |-> k, form |-> f]
  <1>2. g \in Open /\ pages[g] \in PageState /\ f \in Form /\ u \in User /\ f # None
    <2>1. g \in Open /\ pages[g] \in PageState BY DEF Submit, IInv, Types, PagesOK
    <2> QED BY <2>1, ProjectsAssumption DEF PageState, User
  <1>3. op'[p] = s /\ \A q \in Process \ {p} : op'[q] = op[q]
    BY <1>1 DEF Goto, IInv, Types, OpType
  <1>4. op'[p].pc = "create" /\ op'[p].by = u /\ op'[p].key = k /\ op'[p].form = f BY <1>3
  <1>5. /\ Open' = Open
        /\ pages'[g].key = k /\ pages'[g].keyForm = f /\ pages'[g].form = f
        /\ pages'[g].edits = pages[g].edits
        /\ \A h \in Open \ {g} : pages'[h] = pages[h]
    BY <1>1, <1>2 DEF Open, PageState
  <1>6. UNCHANGED <<projects, members, approved>> BY DEF Submit
  <1>7. RowsSame BY <1>6, SameRows
  <1>8. OneProjectPerKey' /\ ProjectsAreWhole' BY <1>7, ProjectsKept
  <1>9. OneCreator' /\ CreatorsAdmitted' BY <1>3, <1>4, <1>6, <1>7, CreatorsKept
  <1>10. ASSUME NEW v, NEW l, NEW c, Used(v, l, c)'
         PROVE  Used(v, l, c) \/ (v = u /\ l = k /\ c = f)
    <2>1. ASSUME NEW h \in Open', PageUses(h, v, l, c)'
          PROVE  Used(v, l, c) \/ (v = u /\ l = k /\ c = f)
      <3>1. CASE h = g BY <1>5, <2>1, <3>1 DEF PageUses
      <3>2. CASE h # g BY <1>5, <2>1, <3>2 DEF PageUses, Used
      <3> QED BY <3>1, <3>2
    <2>2. ASSUME NEW q \in Process, RequestUses(q, v, l, c)'
          PROVE  Used(v, l, c) \/ (v = u /\ l = k /\ c = f)
      <3>1. CASE q = p BY <1>4, <2>2, <3>1 DEF RequestUses
      <3>2. CASE q # p BY <1>3, <2>2, <3>2 DEF RequestUses, Creating, Used
      <3> QED BY <3>1, <3>2
    <2>3. ASSUME NEW x \in Project, ProjectUses(x, v, l, c)' PROVE Used(v, l, c)
      BY <1>6, <2>3 DEF ProjectUses, Keyed, Exists, Used
    <2> QED BY <1>10, <2>1, <2>2, <2>3 DEF Used
  <1>11. KeysAgree' /\ KeysBounded'
    <2>1. CASE pages[g].keyForm = f
      <3>1. k = pages[g].key BY <2>1 DEF KeyFor
      <3>2. PageUses(g, u, k, f) BY <1>2, <2>1, <3>1 DEF PageUses
      <3>3. Used(u, k, f) BY <1>2, <3>2 DEF Used
      <3>4. \A v \in Author, l \in Key, c \in Content : Used(v, l, c)' => Used(v, l, c)
        BY <1>10, <3>3
      <3>5. PagesSame
        <4>1. \A h \in Open : Sent(h) \in Nat BY SentType DEF IInv, Types
        <4>2. \A h \in Open : Sent(h)' = Sent(h) BY <1>5, <2>1 DEF Sent
        <4> QED BY <1>5, <2>1, <3>1, <4>1, <4>2 DEF PagesSame
      <3> QED BY <3>4, <3>5, KeysKept
    <2>2. CASE pages[g].keyForm # f
      <3>1. k \in Fresh BY <2>2 DEF KeyFor
      <3>2. \A v, c : ~Used(v, k, c)
        BY <3>1 DEF Fresh, Used, PageUses, RequestUses, ProjectUses, Creating, Keyed
      <3>3. KeysAgree' BY <1>10, <3>2 DEF CInv, KeysAgree
      <3>4. ASSUME NEW h \in Open', Alone(h)'
            PROVE  IsFiniteSet(KeysOf(AuthorOf[h])') /\ Cardinality(KeysOf(AuthorOf[h])') <= Sent(h)'
        <4>1. h \in Open /\ Alone(h) /\ h \in Page
          BY <1>5, <3>4 DEF Alone, IInv, Types, PagesOK
        <4> DEFINE v == AuthorOf[h]
        <4>2. v \in Author BY <4>1, ProjectsAssumption DEF Author, User
        <4>3. /\ IsFiniteSet(KeysOf(v)) /\ Cardinality(KeysOf(v)) <= Sent(h)
              /\ Cardinality(KeysOf(v)) \in Nat /\ Sent(h) \in Nat
          BY <4>1, SentType, FS_CardinalityType DEF CInv, KeysBounded, IInv, Types
        <4>4. CASE h = g
          <5>1. KeysOf(v)' \subseteq KeysOf(v) \cup {k} BY <1>10, <4>2 DEF KeysOf
          <5>2. /\ IsFiniteSet(KeysOf(v) \cup {k})
                /\ Cardinality(KeysOf(v) \cup {k}) <= Cardinality(KeysOf(v)) + 1
            BY <4>3, FS_AddElement
          <5>3. /\ IsFiniteSet(KeysOf(v)')
                /\ Cardinality(KeysOf(v)') <= Cardinality(KeysOf(v) \cup {k})
            BY <5>1, <5>2, FS_Subset
          <5>4. Cardinality(KeysOf(v)') \in Nat /\ Cardinality(KeysOf(v) \cup {k}) \in Nat
            BY <5>2, <5>3, FS_CardinalityType
          <5>5. Sent(h)' = Sent(h) + 1 
            <6>1. pages[g].edits \in Nat BY <1>2, ProjectsAssumption DEF PageState
            <6> QED BY <1>5, <2>2, <4>4, <6>1 DEF Sent
          <5> QED BY <4>3, <5>2, <5>3, <5>4, <5>5
        <4>5. CASE h # g
          <5>1. v # u BY <1>2, <4>1, <4>5 DEF Alone
          <5>2. KeysOf(v)' \subseteq KeysOf(v) BY <1>10, <4>2, <5>1 DEF KeysOf
          <5>3. IsFiniteSet(KeysOf(v)') /\ Cardinality(KeysOf(v)') <= Cardinality(KeysOf(v))
            BY <4>3, <5>2, FS_Subset
          <5>4. Cardinality(KeysOf(v)') \in Nat BY <5>3, FS_CardinalityType
          <5>5. Sent(h)' = Sent(h) BY <1>5, <4>1, <4>5 DEF Sent
          <5> QED BY <4>3, <5>3, <5>4, <5>5
        <4> QED BY <4>4, <4>5
      <3> QED BY <3>3, <3>4 DEF KeysBounded
    <2> QED BY <2>1, <2>2
  <1> QED BY <1>8, <1>9, <1>11 DEF CInv

\* Nobody else is about to create the project of the key.
LEMMA InsertKeeps ==
  ASSUME IInv, IInv', CInv, Kept, NEW p \in Process, Insert(p)
  PROVE  CInv'
  <1>1. UNCHANGED <<projects, members, approved>> BY DEF Insert
  <1>2. RowsSame BY <1>1, SameRows
  <1>3. CASE Answer(p, None) BY <1>1, <1>2, <1>3, AnswerPages, FrameKeeps
  <1>4. ASSUME NEW pc \in {"created", "replay"}, Goto(p, [op[p] EXCEPT !.pc = pc]), UNCHANGED pages,
               pc = "created" => WithKey(p) = {} /\ Admitted(p)
        PROVE  CInv'
    <2> DEFINE s == [op[p] EXCEPT !.pc = pc]
    <2>1. s \in OpState /\ op[p].pc = "create" BY OpTypes DEF Insert, At, IInv, Types
    <2>2. op'[p] = s /\ \A q \in Process \ {p} : op'[q] = op[q]
      BY <1>4, <2>1, GotoType DEF IInv, Types
    <2>3. op'[p].pc = pc /\ op'[p].by = op[p].by /\ op'[p].key = op[p].key /\ op'[p].form = op[p].form
      BY <2>1, <2>2 DEF IInv, Types, OpType, OpState, Idle
    <2>4. PagesSame BY <1>4, SamePages
    <2>5. \A q \in Process : Creating(q)' =>
              Creating(q) /\ op'[q].by = op[q].by /\ op'[q].key = op[q].key /\ op'[q].form = op[q].form
      BY <2>1, <2>2, <2>3 DEF Creating
    <2>6. \A u \in Author, k \in Key, f \in Content : Used(u, k, f)' => Used(u, k, f)
      BY <1>2, <2>4, <2>5, UsesSame
    <2>7. KeysAgree' /\ KeysBounded' BY <2>4, <2>6, KeysKept
    <2>8. OneProjectPerKey' /\ ProjectsAreWhole' BY <1>2, ProjectsKept
    <2>9. OneCreator' /\ CreatorsAdmitted'
      <3>1. CASE pc = "replay" BY <1>1, <1>2, <2>2, <2>3, <3>1, CreatorsKept
      <3>2. CASE pc = "created"
        <4>1. \A q \in Process \ {p} : At(q, "created")' => op[q].by # op[p].by \/ op[q].key # op[p].key
          BY <2>2 DEF Insert, At
        <4>2. OneCreator'
          <5>1. ASSUME NEW q \in Process, NEW r \in Process, op'[q].pc = "created", op'[r].pc = "created",
                       op'[q].by = op'[r].by, op'[q].key = op'[r].key
                PROVE  q = r
            <6>1. CASE q # p /\ r # p BY <2>2, <5>1, <6>1 DEF CInv, OneCreator, At
            <6>2. CASE q = p /\ r # p BY <2>2, <2>3, <4>1, <5>1, <6>2 DEF At
            <6>3. CASE q # p /\ r = p BY <2>2, <2>3, <4>1, <5>1, <6>3 DEF At
            <6> QED BY <6>1, <6>2, <6>3
          <5> QED BY <5>1 DEF OneCreator, At
        <4>3. (WithKey(p) = {})' /\ Admitted(p)'
          BY <1>1, <1>4, <2>3, <3>2 DEF WithKey, Exists, Admitted, Creators
        <4>4. ASSUME NEW q \in Process \ {p}, At(q, "created")'
              PROVE  (WithKey(q) = {})' /\ Admitted(q)'
          <5>1. WithKey(q) = {} /\ Admitted(q)
            BY <2>2, <4>4 DEF At, CInv, CreatorsAdmitted
          <5> QED BY <1>1, <2>2, <5>1 DEF WithKey, Exists, Admitted, Creators
        <4> QED BY <4>2, <4>3, <4>4 DEF CreatorsAdmitted
      <3> QED BY <3>1, <3>2
    <2> QED BY <2>7, <2>8, <2>9 DEF CInv
  <1> QED BY <1>3, <1>4 DEF Insert

\* The project of a key is made once, with all the engineers of its form.
LEMMA CommitKeeps ==
  ASSUME IInv, IInv', CInv, Kept, NEW p \in Process, CommitCreation(p)
  PROVE  CInv'
  <1>1. PICK u \in User, k \in Key, f \in Form : u = op[p].by /\ k = op[p].key /\ f = op[p].form
    BY OpTypes DEF CommitCreation, At, IInv, Types
  <1>2. PICK x \in Project :
          /\ ~Exists(x)
          /\ \E open \in BOOLEAN : projects' = [projects EXCEPT ![x] =
                [owner |-> OwnerIn(u, f), by |-> u, key |-> k, form |-> f, approval |-> "approved",
                 open |-> open \/ u \in Engineer, link |-> LinkOf[f]]]
          /\ members' = [members EXCEPT ![x] = [e \in Engineer |->
                IF e \in Creators(p) \cap approved
                THEN [type |-> "creator", status |-> "active", createdBy |-> u,
                      respondedBy |-> None, proposal |-> FALSE]
                ELSE NoMember]]
          /\ Answer(p, x)
    BY <1>1 DEF CommitCreation
  <1> DEFINE creator == [type |-> "creator", status |-> "active", createdBy |-> u,
                         respondedBy |-> None, proposal |-> FALSE]
  <1>3. /\ projects'[x].by = u /\ projects'[x].key = k /\ projects'[x].form = f
        /\ \A y \in Project \ {x} : projects'[y] = projects[y] /\ members'[y] = members[y]
        /\ \A e \in Engineer : members'[x][e] = IF e \in Creators(p) \cap approved THEN creator ELSE NoMember
        /\ UNCHANGED approved
    <2> DEFINE row(open) == [owner |-> OwnerIn(u, f), by |-> u, key |-> k, form |-> f,
                             approval |-> "approved", open |-> open \/ u \in Engineer, link |-> LinkOf[f]]
    <2>1. ProjectsType /\ MembersType BY DEF IInv, Types, RowTypes
    <2>2. PICK open \in BOOLEAN : projects' = [projects EXCEPT ![x] = row(open)] BY <1>2
    <2>3. row(open).by = u /\ row(open).key = k /\ row(open).form = f OBVIOUS
    <2> HIDE DEF row
    <2>4. /\ projects'[x].by = u /\ projects'[x].key = k /\ projects'[x].form = f
          /\ \A y \in Project \ {x} : projects'[y] = projects[y]
      BY <2>1, <2>2, <2>3 DEF ProjectsType
    <2>5. /\ \A y \in Project \ {x} : members'[y] = members[y]
          /\ \A e \in Engineer :
                members'[x][e] = IF e \in Creators(p) \cap approved THEN creator ELSE NoMember
      BY <1>2, <2>1 DEF MembersType
    <2> QED BY <2>4, <2>5 DEF CommitCreation
  <1>4. PagesSame BY <1>2, AnswerPages
  <1>5. op'[p] = Idle /\ \A q \in Process \ {p} : op'[q] = op[q]
    BY <1>2, AnswerType DEF IInv, Types
  <1>6. op'[p].pc = "idle" /\ op[p].pc = "created" BY <1>5, IdleIsState DEF CommitCreation, At
  <1>7. WithKey(p) = {} /\ Creators(p) \subseteq approved /\ Creators(p) = EngineersIn(u, f)
        /\ Creators(p) \subseteq Engineer
    <2>1. WithKey(p) = {} /\ Creators(p) \subseteq approved
      BY <1>6 DEF CInv, CreatorsAdmitted, Admitted, At
    <2>2. Creators(p) = EngineersIn(u, f) BY <1>1 DEF Creators
    <2> QED BY <2>1, <2>2, ProjectsAssumption DEF User
  <1>8. KeysAgree' /\ KeysBounded'
    <2>1. ASSUME NEW v, NEW l, NEW c, Used(v, l, c)' PROVE Used(v, l, c)
      <3>1. ASSUME NEW g \in Open', PageUses(g, v, l, c)' PROVE Used(v, l, c)
        BY <1>4, <3>1 DEF PagesSame, PageUses, Used
      <3>2. ASSUME NEW q \in Process, RequestUses(q, v, l, c)' PROVE Used(v, l, c)
        BY <1>5, <1>6, <3>2 DEF RequestUses, Creating, Used
      <3>3. ASSUME NEW y \in Project, ProjectUses(y, v, l, c)' PROVE Used(v, l, c)
        <4>1. CASE y = x
          <5>1. RequestUses(p, v, l, c)
            BY <1>1, <1>3, <1>6, <3>3, <4>1 DEF ProjectUses, RequestUses, Creating
          <5> QED BY <5>1 DEF Used
        <4>2. CASE y # x BY <1>3, <3>3, <4>2 DEF ProjectUses, Keyed, Exists, Used
        <4> QED BY <4>1, <4>2
      <3> QED BY <2>1, <3>1, <3>2, <3>3 DEF Used
    <2> QED BY <1>4, <2>1, KeysKept
  <1>9. OneProjectPerKey'
    <2>1. ASSUME NEW y \in Project \ {x}, Keyed(y)'
          PROVE  Keyed(y) /\ ~(projects'[y].by = u /\ projects'[y].key = k)
      <3>1. Keyed(y) BY <1>3, <2>1 DEF Keyed, Exists
      <3>2. y \notin WithKey(p) BY <1>7
      <3> QED BY <1>1, <1>3, <3>1, <3>2 DEF WithKey, Keyed
    <2> QED BY <1>3, <2>1 DEF CInv, OneProjectPerKey
  <1>10. ProjectsAreWhole'
    <2>1. ASSUME NEW y \in Project, Keyed(y)' PROVE Whole(y)'
      <3>1. CASE y = x
        <4>1. creator.type = "creator" /\ creator.status = "active" /\ NoMember.type # "creator"
          BY DEF NoMember, None
        <4> HIDE DEF creator
        <4>2. \A e \in Engineer : members'[x][e].type = "creator" <=> e \in EngineersIn(u, f)
          BY <1>3, <1>7, <4>1
        <4>3. \A e \in EngineersIn(u, f) : members'[x][e].status = "active" BY <1>3, <1>7, <4>1
        <4> QED BY <1>3, <1>7, <3>1, <4>2, <4>3 DEF Whole, Active
      <3>2. CASE y # x
        <4>1. Whole(y) BY <1>3, <2>1, <3>2 DEF Keyed, Exists, CInv, ProjectsAreWhole
        <4> QED BY <1>3, <3>2, <4>1 DEF Whole, Active
      <3> QED BY <3>1, <3>2
    <2> QED BY <2>1 DEF ProjectsAreWhole
  <1>11. OneCreator' BY <1>5, <1>6 DEF CInv, OneCreator, At
  <1>12. CreatorsAdmitted'
    <2>1. ASSUME NEW q \in Process, At(q, "created")' PROVE (WithKey(q) = {})' /\ Admitted(q)'
      <3>1. q # p /\ At(q, "created") /\ op'[q] = op[q] BY <1>5, <1>6, <2>1 DEF At
      <3>2. WithKey(q) = {} /\ Admitted(q) BY <3>1 DEF CInv, CreatorsAdmitted
      <3>3. ~(op[q].by = u /\ op[q].key = k)
        BY <1>1, <1>6, <3>1 DEF CInv, OneCreator, At
      <3>4. (WithKey(q) = {})' BY <1>3, <3>1, <3>2, <3>3 DEF WithKey, Exists
      <3>5. Admitted(q)' BY <1>3, <3>1, <3>2 DEF Admitted, Creators
      <3> QED BY <3>4, <3>5
    <2> QED BY <2>1 DEF CreatorsAdmitted
  <1> QED BY <1>8, <1>9, <1>10, <1>11, <1>12 DEF CInv

-----------------------------------------------------------------------------
(* The invariant of creations *)

LEMMA CreationInit == Init => CInv
  <1> SUFFICES ASSUME Init PROVE CInv OBVIOUS
  <1>1. \A p \in Process : op[p].pc = "idle" BY IdleIsState DEF Init
  <1>2. \A x \in Project : ~Keyed(x)
    BY DEF Init, Keyed, Exists, NoProjects, Legacy
  <1>3. \A g \in Open : pages[g].keyForm = None BY DEF Init, Open, NewPage
  <1>4. \A u, k, f : ~Used(u, k, f)
    BY <1>1, <1>2, <1>3 DEF Used, PageUses, RequestUses, ProjectUses, Creating
  <1>5. \A u : KeysOf(u) = {} BY <1>4 DEF KeysOf
  <1>6. \A g \in Open : Sent(g) \in Nat BY InitInv, SentType DEF IInv, Types
  <1>7. KeysBounded BY <1>5, <1>6, FS_EmptySet DEF KeysBounded
  <1> QED BY <1>1, <1>2, <1>4, <1>7
          DEF CInv, KeysAgree, OneProjectPerKey, OneCreator, CreatorsAdmitted, ProjectsAreWhole, At

LEMMA CreationNext == IInv /\ CInv /\ [Next]_vars => CInv'
  <1> SUFFICES ASSUME IInv, CInv, [Next]_vars PROVE CInv' OBVIOUS
  <1>1. IInv' /\ Kept BY NextInv
  <1>2. CASE PageStep
    <2>1. PICK g \in Page :
            PageGivesUp(g) \/ (\E f \in Form : Edit(g, f)) \/ (\E p \in Process : Submit(g, p))
      BY <1>2 DEF PageStep
    <2>2. CASE PageGivesUp(g) \/ \E f \in Form : Edit(g, f)
      BY <1>1, <2>2, PageFrame, FrameKeeps
    <2>3. CASE \E p \in Process : Submit(g, p) BY <1>1, <2>3, SubmitKeeps
    <2> QED BY <2>1, <2>2, <2>3
  <1>3. CASE Statement BY <1>1, <1>3, StatementFrame, FrameKeeps
  <1>4. ASSUME NEW p \in Process, Step(p) PROVE CInv'
    <2>1. CASE Insert(p) BY <1>1, <2>1, InsertKeeps
    <2>2. CASE CommitCreation(p) BY <1>1, <2>2, CommitKeeps
    <2>3. CASE Replay(p) \/ Fails(p)
      <3>1. PICK y \in Project \cup {None} : Answer(p, y) BY <2>3 DEF Replay, Fails, WithKey
      <3>2. UNCHANGED <<projects, members, approved>> BY <2>3 DEF Replay, Fails
      <3> QED BY <1>1, <3>1, <3>2, SameRows, AnswerPages, FrameKeeps
    <2>4. CASE Decide(p) \/ ChatDone(p) \/ VersionNumber(p) \/ VersionInsert(p) \/ LinkWrite(p)
      BY <1>1, <2>4, OtherSteps, FrameKeeps
    <2> QED BY <1>4, <2>1, <2>2, <2>3, <2>4 DEF Step
  <1>5. ASSUME NEW p \in Process, NEW x \in Project, Start(p, x) PROVE CInv'
    BY <1>1, <1>5, StartFrame, FrameKeeps
  <1>6. CASE UNCHANGED vars
    <2>1. UNCHANGED <<projects, members, approved, pages, op>> BY <1>6 DEF vars
    <2>2. RequestsSame BY <2>1 DEF RequestsSame, Creating
    <2> QED BY <1>1, <2>1, <2>2, SameRows, SamePages, FrameKeeps
  <1> QED BY <1>2, <1>3, <1>4, <1>5, <1>6, Zenon DEF Next

LEMMA OncePerContent == IInv /\ CInv => NoDoubleCreate
  <1> SUFFICES ASSUME IInv, CInv, NEW g \in Open, Alone(g)
               PROVE  Cardinality(CreatedBy(AuthorOf[g])) <= pages[g].edits + 1
    BY DEF NoDoubleCreate, Alone
  <1> DEFINE u == AuthorOf[g]  S == CreatedBy(u)  T == KeysOf(u)
             f == [x \in S |-> projects[x].key]
  <1>1. g \in Page /\ pages[g] \in PageState BY DEF IInv, Types, PagesOK
  <1>2. IsFiniteSet(T) /\ Cardinality(T) <= Sent(g) BY DEF CInv, KeysBounded
  <1>3. f \in [S -> T]
    <2>1. ASSUME NEW x \in S PROVE projects[x].key \in T
      <3>1. x \in Project /\ Exists(x) /\ projects[x].by = u /\ projects[x].key # None
        BY DEF CreatedBy
      <3>2. projects[x] \in ProjectRow BY <3>1, ProjectIsRow DEF IInv, Types, RowTypes
      <3>3. projects[x].key \in Key /\ projects[x].form \in Content
        BY <3>1, <3>2 DEF ProjectRow, Content
      <3>4. Used(u, projects[x].key, projects[x].form) BY <3>1 DEF Used, ProjectUses, Keyed
      <3> QED BY <3>3, <3>4 DEF KeysOf
    <2> QED BY <2>1
  <1>4. \A x, y \in S : f[x] = f[y] => x = y
    BY DEF CInv, OneProjectPerKey, Keyed, CreatedBy
  <1>5. f \in Injection(S, T) BY <1>3, <1>4 DEF Injection, IsInjective
  <1>6. IsFiniteSet(S) /\ Cardinality(S) <= Cardinality(T) BY <1>2, <1>5, FS_Injection
  <1>7. Cardinality(S) \in Nat /\ Cardinality(T) \in Nat BY <1>2, <1>6, FS_CardinalityType
  <1>8. pages[g].edits \in Nat BY <1>1, ProjectsAssumption DEF PageState
  <1>9. Sent(g) \in Nat /\ Sent(g) <= pages[g].edits + 1 BY <1>8 DEF Sent
  <1> QED BY <1>2, <1>6, <1>7, <1>8, <1>9

\* However often pages submit, give up and submit again, and whichever requests
\* fail: at most one project for each content a page has had, a replay answers
\* with the project of the same content, and a project has all its engineers.
THEOREM Creation == Spec => []CreatedOnceAndWhole
  <1>1. IInv /\ CInv => CreatedOnceAndWhole
    <2> SUFFICES ASSUME IInv, CInv PROVE CreatedOnceAndWhole OBVIOUS
    <2>1. ASSUME NEW p \in Process, At(p, "replay"), NEW x \in WithKey(p)
          PROVE  projects[x].form = op[p].form
      <3>1. op[p].by \in User /\ op[p].key \in Key /\ op[p].form \in Form
        BY <2>1, OpTypes DEF IInv, Types, At
      <3>2. x \in Project /\ Exists(x) /\ projects[x].by = op[p].by /\ projects[x].key = op[p].key
        BY DEF WithKey
      <3>3. Keyed(x) BY <3>1, <3>2, ProjectsAssumption DEF Keyed
      <3>4. projects[x].form \in Content
        BY <3>2, ProjectIsRow DEF IInv, Types, RowTypes, ProjectRow, Content
      <3>5. Used(op[p].by, op[p].key, op[p].form)
        BY <2>1 DEF Used, RequestUses, Creating, At
      <3>6. Used(op[p].by, op[p].key, projects[x].form)
        BY <3>2, <3>3 DEF Used, ProjectUses
      <3> QED BY <3>1, <3>4, <3>5, <3>6 DEF CInv, KeysAgree, Author, Content
    <2>2. CreationIsWhole BY DEF CInv, ProjectsAreWhole, Whole, Keyed, CreationIsWhole
    <2> QED BY <2>1, <2>2, OncePerContent DEF CreatedOnceAndWhole, ReplayMatches
  <1>2. Init => CInv BY CreationInit
  <1>3. IInv /\ IInv' /\ CInv /\ [Next]_vars => CInv' BY CreationNext
  <1> QED BY <1>1, <1>2, <1>3, Safety, PTL DEF Spec

=============================================================================
