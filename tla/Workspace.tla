------------------------------ MODULE Workspace ------------------------------
(***************************************************************************)
(* The workspace page of one project as its client sees it                 *)
(* (app/projects/[projectId]/WorkspaceClient.tsx) against the portal's     *)
(* committed state, of which it reads three parts by separate requests:    *)
(* the overview (lib/project-overview.ts), the chat with its pending       *)
(* changes (listProjectChat) and the membership requests                   *)
(* (listProjectMemberships).                                               *)
(*                                                                         *)
(* A turn is its message and its answer; turn n is the n-th committed one. *)
(* A turn proposes at most one change, which has the turn's number.  The   *)
(* page shows turns and, for a message it waits on, a placeholder.  Every  *)
(* request is sent, handled, and answered or lost.  Handlers are           *)
(* transactions, modelled in Projects and ProjectChat; here each is one    *)
(* step of the portal.                                                     *)
(***************************************************************************)
EXTENDS Integers, FiniteSets, Sequences, SequencesExt

CONSTANTS
    Text,         \* what the client types
    Empty,        \* the empty box
    Status,       \* statuses of a project the client chooses among
    Member,       \* engineers who may ask to join
    Slot,         \* requests of the page, other than chats, that may overlap
    None,         \* not read, not loaded
    \* Bounds on the environment, named in the guards that use them
    MaxSends,     \* messages submitted on this page
    MaxEvents     \* messages, other operations, losses and commits of others, together

ASSUME WorkspaceAssumption ==
    /\ Empty \notin Text
    /\ IsFiniteSet(Member)
    /\ MaxSends \in Nat
    /\ MaxEvents \in Nat

VARIABLES
    \* the portal
    turns,        \* committed turns of this client
    pending,      \* their proposed changes that wait for a decision
    confirmed,    \* changes confirmed in the project
    status,       \* projects.status
    members,      \* project_memberships: the state of each engineer's row
    \* the page
    overview, messages, actions, memberships,   \* what it shows
    error,        \* its banner
    busy,         \* the operation the controls show as under way, None without one
    agentCommand, \* the text in the box
    submitting,   \* submissionPendingRef
    workspaceRequest,   \* workspaceRequestRef: the newest load
    \* requests in flight
    chats, ops,
    \* the environment
    events,
    unsure        \* history: the page may have missed something it was not told of

portal == <<turns, pending, confirmed, status, members>>
page == <<overview, messages, actions, memberships>>
vars == <<portal, page, error, busy, agentCommand, submitting, workspaceRequest,
          chats, ops, events, unsure>>

-----------------------------------------------------------------------------
(* What the three requests read, each at one moment *)

\* A set of numbers in their order.
Rank(a, S) == Cardinality({b \in S : b <= a})
Ascending(S) == [i \in 1..Cardinality(S) |-> CHOOSE a \in S : Rank(a, S) = i]

Engineers == {m \in Member : members[m] \in {"approved", "accepted"}}
Pending == {m \in Member : members[m] \in {"request", "invitation"}}
Overview == [status |-> status, engineers |-> Cardinality(Engineers), confirmed |-> confirmed,
             pending |-> Cardinality(pending), chats |-> turns]
Chat == [messages |-> [n \in 1..turns |-> n], actions |-> Ascending(pending)]
Parts == {"overview", "chat", "requests"}
ReadPart(part) ==
    CASE part = "overview" -> Overview [] part = "chat" -> Chat [] part = "requests" -> Pending

-----------------------------------------------------------------------------
(* Requests in flight *)

\* A message: its state, its text, the turn that stored it, and the overview
\* the page asks for after the answer.
NoChat == [state |-> "idle", text |-> Empty, turn |-> 0, proposes |-> FALSE, overview |-> None]
\* Another operation: its key (the value of busy), then its load of the workspace.
NoOp == [state |-> "idle", key |-> None, id |-> 0, read |-> [part \in Parts |-> None]]

Sends == 1..MaxSends
Chatting == \E n \in Sends : chats[n].state # "idle"
Loading == \E o \in Slot : ops[o].state = "loading"
Placeholder(n) == -n
Agent == <<"agent">>
Event == events < MaxEvents /\ events' = events + 1

Init ==
    /\ turns = 0 /\ pending = {} /\ confirmed = 0
    /\ status \in Status
    /\ members = [m \in Member |-> "none"]
    /\ overview = None /\ messages = <<>> /\ actions = <<>> /\ memberships = {}
    /\ error = FALSE /\ busy = None /\ agentCommand = Empty /\ submitting = FALSE
    /\ workspaceRequest = 0
    /\ chats = [n \in Sends |-> NoChat]
    /\ ops = [o \in Slot |-> NoOp]
    /\ events = 0
    /\ unsure = FALSE

-----------------------------------------------------------------------------
(* loadWorkspace: three requests, each read at its own moment; the page takes *)
(* the answers only of its newest load.                                       *)

\* The load issued by slot o: a fresh request number and a cleared banner.
Issue(o, key) ==
    /\ workspaceRequest' = workspaceRequest + 1
    /\ error' = FALSE
    /\ ops' = [ops EXCEPT ![o] = [NoOp EXCEPT !.state = "loading", !.key = key,
                                              !.id = workspaceRequest + 1]]
    /\ unsure' = Chatting

\* The page mounts, or Retry is pressed where the overview should be.
Open(o) ==
    /\ ops[o] = NoOp
    /\ overview = None
    /\ workspaceRequest = 0 \/ error
    /\ Event
    /\ Issue(o, None)
    /\ UNCHANGED <<portal, page, busy, agentCommand, submitting, chats>>

\* The portal answers one of the three requests of a load.
Serve(o, part) ==
    /\ ops[o].state = "loading"
    /\ ops[o].read[part] = None
    /\ ops' = [ops EXCEPT ![o].read[part] = ReadPart(part)]
    /\ UNCHANGED <<portal, page, error, busy, agentCommand, submitting, workspaceRequest,
                   chats, events, unsure>>

\* What the operation that awaited the load does last: it clears busy, whatever
\* else may be under way.
Finish(o) ==
    /\ ops' = [ops EXCEPT ![o] = NoOp]
    /\ busy' = IF ops[o].key = None THEN busy ELSE None

Show(o) ==
    /\ overview' = ops[o].read["overview"]
    /\ messages' = ops[o].read["chat"].messages
    /\ actions' = ops[o].read["chat"].actions
    /\ memberships' = ops[o].read["requests"]

\* Mutant: the answers of a superseded load are shown as well.
ApplyAny(o) ==
    /\ ops[o].state = "loading"
    /\ \A part \in Parts : ops[o].read[part] # None
    /\ Show(o)
    /\ Finish(o)
    /\ UNCHANGED <<portal, error, agentCommand, submitting, workspaceRequest, chats, events,
                   unsure>>

Apply(o) ==
    /\ ops[o].state = "loading"
    /\ \A part \in Parts : ops[o].read[part] # None
    /\ \/ ops[o].id = workspaceRequest /\ Show(o)
       \/ ops[o].id # workspaceRequest /\ UNCHANGED page
    /\ Finish(o)
    /\ UNCHANGED <<portal, error, agentCommand, submitting, workspaceRequest, chats, events,
                   unsure>>

\* One of the three fails: the page keeps what it shows and says so.
LoadFails(o) ==
    /\ ops[o].state = "loading"
    /\ Event
    /\ error' = (error \/ ops[o].id = workspaceRequest)
    /\ Finish(o)
    /\ UNCHANGED <<portal, page, agentCommand, submitting, workspaceRequest, chats, unsure>>

-----------------------------------------------------------------------------
(* The other operations: change the status (disabled while a change of status *)
(* is shown), approve or reject a membership (never disabled), confirm or     *)
(* cancel a proposed change (disabled while the change is shown as busy).     *)

StatusChoices == IF busy # None /\ busy[1] = "status" THEN {} ELSE Status \ {overview.status}
Undecided == {a \in ToSet(actions) : busy \notin {<<"confirm", a>>, <<"cancel", a>>}}

Offered ==
    {<<"status", s>> : s \in StatusChoices}
    \cup {<<d, m>> : d \in {"approve", "reject"}, m \in memberships}
    \cup {<<d, a>> : d \in {"confirm", "cancel"}, a \in Undecided}

Start(o, key) ==
    /\ ops[o] = NoOp
    /\ Event
    /\ busy' = key
    /\ error' = FALSE
    /\ ops' = [ops EXCEPT ![o] = [NoOp EXCEPT !.state = "sent", !.key = key]]
    /\ UNCHANGED <<portal, page, agentCommand, submitting, workspaceRequest, chats, unsure>>

\* Requests that change nothing: the decision the membership already had.
Repeated(key) ==
    \/ key[1] = "approve" /\ members[key[2]] = "approved"
    \/ key[1] = "reject" /\ members[key[2]] = "rejected"

\* The portal decides a request or a change once; an invitation, which the page
\* offers to decide as well, is not the client's to decide.
Accepted(key) ==
    \/ key[1] = "status"
    \/ key[1] \in {"approve", "reject"} /\ members[key[2]] = "request"
    \/ key[1] \in {"confirm", "cancel"} /\ key[2] \in pending

Decided == [approve |-> "approved", reject |-> "rejected"]

Effect(key) ==
    /\ status' = IF key[1] = "status" THEN key[2] ELSE status
    /\ members' = IF key[1] \in DOMAIN Decided THEN [members EXCEPT ![key[2]] = Decided[key[1]]]
                                             ELSE members
    /\ pending' = IF key[1] \in {"confirm", "cancel"} THEN pending \ {key[2]} ELSE pending
    /\ confirmed' = IF key[1] = "confirm" THEN confirmed + 1 ELSE confirmed
    /\ UNCHANGED turns

\* A confirmation is also refused when the file or the progress it was proposed
\* for has changed.
Handle(o) ==
    /\ ops[o].state = "sent"
    /\ LET key == ops[o].key IN
       \/ Accepted(key) /\ Effect(key) /\ ops' = [ops EXCEPT ![o].state = "done"]
       \/ Repeated(key) /\ ops' = [ops EXCEPT ![o].state = "done"] /\ UNCHANGED portal
       \/ /\ ~(Accepted(key) \/ Repeated(key)) \/ key[1] = "confirm"
          /\ ops' = [ops EXCEPT ![o].state = "failed"]
          /\ UNCHANGED portal
    /\ UNCHANGED <<page, error, busy, agentCommand, submitting, workspaceRequest, chats, events,
                   unsure>>

\* The request is lost before, or its answer after, the portal handled it.
LoseOp(o) ==
    /\ ops[o].state \in {"sent", "done"}
    /\ Event
    /\ ops' = [ops EXCEPT ![o].state = "failed"]
    /\ UNCHANGED <<portal, page, error, busy, agentCommand, submitting, workspaceRequest, chats,
                   unsure>>

Answered(o) ==
    /\ ops[o].state = "done"
    /\ Issue(o, ops[o].key)
    /\ UNCHANGED <<portal, page, busy, agentCommand, submitting, chats, events>>

Refused(o) ==
    /\ ops[o].state = "failed"
    /\ error' = TRUE
    /\ Finish(o)
    /\ UNCHANGED <<portal, page, agentCommand, submitting, workspaceRequest, chats, events,
                   unsure>>

-----------------------------------------------------------------------------
(* The chat.  The box and its button are disabled only while busy says        *)
(* "agent", which any other operation clears; submittingRef is what is left.  *)

\* Typing, or a starter prompt, which stays enabled on an empty conversation.
Typing(t) ==
    /\ overview # None
    /\ busy # Agent \/ messages = <<>>
    /\ t # agentCommand
    /\ agentCommand' = t
    /\ UNCHANGED <<portal, page, error, busy, submitting, workspaceRequest, chats, ops, events,
                   unsure>>

\* The message goes out in place n.
Submit(n) ==
    /\ submitting' = TRUE
    /\ busy' = Agent
    /\ messages' = Append(messages, Placeholder(n))
    /\ agentCommand' = Empty
    /\ chats' = [chats EXCEPT ![n] = [NoChat EXCEPT !.state = "sent", !.text = agentCommand]]
    /\ unsure' = (unsure \/ Loading)
    /\ Event
    /\ UNCHANGED <<portal, overview, actions, memberships, error, workspaceRequest, ops>>

\* Mutant: only the disabled controls keep a second message back.
SendCommandByBusy(n) ==
    /\ overview # None
    /\ busy # Agent
    /\ agentCommand # Empty
    /\ chats[n] = NoChat
    /\ Submit(n)

SendCommand(n) ==
    /\ overview # None
    /\ busy # Agent
    /\ ~submitting
    /\ agentCommand # Empty
    /\ chats[n] = NoChat
    /\ Submit(n)

\* chatWithProjectAgent commits the turn; a change it proposes waits for a
\* decision, a file it creates is confirmed at once.
StoreTurn(n) ==
    /\ chats[n].state = "sent"
    /\ turns' = turns + 1
    /\ \E outcome \in {"answer", "proposal", "file"} :
          /\ pending' = IF outcome = "proposal" THEN pending \cup {turns + 1} ELSE pending
          /\ confirmed' = IF outcome = "file" THEN confirmed + 1 ELSE confirmed
          /\ chats' = [chats EXCEPT ![n].state = "stored", ![n].turn = turns + 1,
                                    ![n].proposes = (outcome = "proposal")]
    /\ UNCHANGED <<status, members, page, error, busy, agentCommand, submitting,
                   workspaceRequest, ops, events, unsure>>

\* The agent is unavailable, the request is lost, or the answer to it is.
LoseChat(n) ==
    /\ chats[n].state \in {"sent", "stored"}
    /\ Event
    /\ chats' = [chats EXCEPT ![n].state = "failed"]
    /\ unsure' = (unsure \/ chats[n].state = "stored")
    /\ UNCHANGED <<portal, page, error, busy, agentCommand, submitting, workspaceRequest, ops>>

\* The messages at the positions that are kept, in their order.
WithoutPlaceholder(n) ==
    LET kept == Ascending({i \in DOMAIN messages : messages[i] # Placeholder(n)})
    IN  [i \in DOMAIN kept |-> messages[kept[i]]]

Reply(n) ==
    /\ chats[n].state = "stored"
    /\ messages' = Append(WithoutPlaceholder(n), chats[n].turn)
    /\ actions' = IF chats[n].proposes THEN Append(actions, chats[n].turn) ELSE actions
    /\ chats' = [chats EXCEPT ![n].state = "counting"]
    /\ UNCHANGED <<portal, overview, memberships, error, busy, agentCommand, submitting,
                   workspaceRequest, ops, events, unsure>>

\* loadOverview after the answer: it takes no part in the numbering of loads.
ServeOverview(n) ==
    /\ chats[n].state = "counting"
    /\ chats[n].overview = None
    /\ chats' = [chats EXCEPT ![n].overview = Overview]
    /\ UNCHANGED <<portal, page, error, busy, agentCommand, submitting, workspaceRequest, ops,
                   events, unsure>>

\* The submission ends; the place is not used again.
EndSubmission(n) ==
    /\ chats' = [chats EXCEPT ![n] = [NoChat EXCEPT !.text = chats[n].text]]
    /\ submitting' = FALSE
    /\ busy' = None

Counted(n) ==
    /\ chats[n].state = "counting"
    /\ \/ chats[n].overview # None /\ overview' = chats[n].overview /\ UNCHANGED <<events, unsure>>
       \/ Event /\ unsure' = TRUE /\ UNCHANGED overview
    /\ EndSubmission(n)
    /\ UNCHANGED <<portal, messages, actions, memberships, error, agentCommand, workspaceRequest,
                   ops>>

\* Mutant: the text goes back into the box, whatever is in it.
ChatFailsOverwrites(n) ==
    /\ chats[n].state = "failed"
    /\ messages' = WithoutPlaceholder(n)
    /\ agentCommand' = chats[n].text
    /\ EndSubmission(n)
    /\ UNCHANGED <<portal, overview, actions, memberships, error, workspaceRequest, ops, events,
                   unsure>>

ChatFails(n) ==
    /\ chats[n].state = "failed"
    /\ messages' = WithoutPlaceholder(n)
    /\ agentCommand' = IF agentCommand = Empty THEN chats[n].text ELSE agentCommand
    /\ EndSubmission(n)
    /\ UNCHANGED <<portal, overview, actions, memberships, error, workspaceRequest, ops, events,
                   unsure>>

-----------------------------------------------------------------------------
(* Other pages and other people *)

Elsewhere ==
    /\ Event
    /\ unsure' = TRUE
    /\ UNCHANGED <<page, error, busy, agentCommand, submitting, workspaceRequest, chats,
                   ops>>

\* The engineer asks or is invited, and answers an invitation.
Join(m) ==
    /\ Elsewhere
    /\ \/ members[m] = "none" /\ members' \in {[members EXCEPT ![m] = s] : s \in {"request", "invitation"}}
       \/ members[m] = "invitation" /\ members' \in {[members EXCEPT ![m] = s] : s \in {"accepted", "declined"}}
    /\ UNCHANGED <<turns, pending, confirmed, status>>

DecideElsewhere(a) ==
    /\ Elsewhere
    /\ a \in pending
    /\ pending' = pending \ {a}
    /\ UNCHANGED <<turns, confirmed, status, members>>

-----------------------------------------------------------------------------
Next ==
    \/ \E o \in Slot :
          \/ Open(o) \/ Apply(o) \/ LoadFails(o)
          \/ \E part \in Parts : Serve(o, part)
          \/ overview # None /\ \E key \in Offered : Start(o, key)
          \/ Handle(o) \/ LoseOp(o) \/ Answered(o) \/ Refused(o)
    \/ \E t \in Text \cup {Empty} : Typing(t)
    \/ \E n \in Sends :
          \/ SendCommand(n) \/ StoreTurn(n) \/ LoseChat(n) \/ Reply(n)
          \/ ServeOverview(n) \/ Counted(n) \/ ChatFails(n)
    \/ \E m \in Member : Join(m)
    \/ \E a \in 1..MaxSends : DecideElsewhere(a)

Spec == Init /\ [][Next]_vars

\* The portal handles what reaches it and a browser hears of every request it
\* made: an answer or a failure.  Nobody has to type, press or lose anything.
Fairness ==
    \A n \in Sends :
        /\ WF_vars(StoreTurn(n)) /\ WF_vars(Reply(n)) /\ WF_vars(ServeOverview(n))
        /\ WF_vars(Counted(n)) /\ WF_vars(ChatFails(n))
FairSpec == Spec /\ Fairness

-----------------------------------------------------------------------------
(* Properties *)

TypeOK ==
    /\ turns \in 0..MaxSends /\ pending \subseteq 1..turns /\ confirmed \in Nat
    /\ status \in Status
    /\ members \in [Member -> {"none", "request", "invitation", "approved", "rejected",
                              "accepted", "declined"}]
    /\ ToSet(messages) \subseteq 1..turns \cup {Placeholder(n) : n \in Sends}
    /\ ToSet(actions) \subseteq 1..turns /\ memberships \subseteq Member
    /\ agentCommand \in Text \cup {Empty}
    /\ error \in BOOLEAN /\ submitting \in BOOLEAN /\ unsure \in BOOLEAN
    /\ \A n \in Sends :
          /\ chats[n].state \in {"idle", "sent", "stored", "failed", "counting"}
          /\ chats[n].text \in Text \cup {Empty} /\ chats[n].turn \in 0..turns
    /\ \A o \in Slot :
          /\ ops[o].state \in {"idle", "sent", "done", "failed", "loading"}
          /\ ops[o].id \in 0..workspaceRequest
    /\ workspaceRequest \in Nat /\ events \in 0..MaxEvents

\* The page never has two messages in flight, although any other operation that
\* ends takes the box and the button out of their disabled state
\* (submissionPendingRef, WorkspaceClient.tsx:199).
OneSubmission ==
    /\ TypeOK
    /\ Cardinality({n \in Sends : chats[n].state # "idle"}) <= 1

\* When nothing is under way, no banner shows, no load met a chat in flight, no
\* answer of a chat was lost and nobody else changed the project, the page shows
\* exactly what the portal holds: every turn once and in order, the changes that
\* still wait, the pending requests and the counts (loadWorkspace, sendCommand).
QuietPageIsExact ==
    (/\ ~Chatting /\ \A o \in Slot : ops[o] = NoOp
     /\ overview # None /\ ~error /\ ~unsure) =>
        /\ overview = Overview
        /\ messages = Chat.messages
        /\ actions = Chat.actions
        /\ memberships = Pending

\* What the client typed while a message was under way is only replaced by what
\* the client does, never by the answer or the failure that arrives
\* (sendCommand's setAgentCommand, WorkspaceClient.tsx:209 and 219).
AnswersKeepTheDraft ==
    [][agentCommand # Empty /\ agentCommand' # agentCommand =>
          \/ \E t \in Text \cup {Empty} : Typing(t)
          \/ ~submitting /\ submitting']_vars

\* A submission ends, with its answer or with its failure: the box does not stay
\* closed (the finally of sendCommand).
ComposerReopens == submitting ~> ~submitting

\* The composer is the client's: the portal's answers neither take what was
\* typed nor leave the box closed.
ComposerIsTheClients == AnswersKeepTheDraft /\ ComposerReopens

=============================================================================
