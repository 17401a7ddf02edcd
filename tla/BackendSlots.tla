---------------------------- MODULE BackendSlots ----------------------------
(***************************************************************************)
(* Concurrency control of the chat backend in one server process:          *)
(* acquireBackendSlot and callBackend of lib/project-chat.ts.              *)
(*                                                                         *)
(* JavaScript runs each piece of code between two awaits to its end, so an *)
(* action is one such piece.  A call whose promise was resolved continues  *)
(* before any timer or network event is delivered (microtasks first).      *)
(* A finished call's name is used again: calls never run out.              *)
(***************************************************************************)
EXTENDS Naturals, FiniteSets, Sequences, SequencesExt

CONSTANTS
    Call,               \* names of calls
    MAX_CONCURRENCY,
    MAX_WAITERS,
    BACKEND_ATTEMPTS

ASSUME BackendSlotsAssumption ==
    /\ IsFiniteSet(Call)
    /\ MAX_CONCURRENCY \in Nat \ {0}
    /\ MAX_WAITERS \in Nat
    /\ BACKEND_ATTEMPTS \in Nat \ {0}

VARIABLES
    pc,                 \* where each call is suspended
    attempt,            \* its fetch attempt
    aborted,            \* calls whose AbortController was aborted
    activeRequests,     \* module variables of project-chat.ts
    waiters

slotsVars == <<pc, attempt, aborted, activeRequests, waiters>>

\* "granted": slot promised, continuation queued.  "fetching", "cancelling"
\* and "reading": awaiting the response, the disposal of a failed response
\* before a retry, and the body.
PC == {"idle", "waiting", "granted", "fetching", "cancelling", "reading"}

Holders == {c \in Call : pc[c] \in {"granted", "fetching", "cancelling", "reading"}}
Waiting == {c \in Call : pc[c] = "waiting"}

\* No continuation is queued: the event loop may deliver the next event.
EventLoop == \A c \in Call : pc[c] # "granted"

SlotsInit ==
    /\ pc = [c \in Call |-> "idle"]
    /\ attempt = [c \in Call |-> 0]
    /\ aborted = {}
    /\ activeRequests = 0
    /\ waiters = <<>>

-----------------------------------------------------------------------------
(* acquireBackendSlot.  With MAX_WAITERS in the queue it raises (503
   chat_busy) and nothing changes. *)

CallBackend(c) ==
    /\ EventLoop
    /\ pc[c] = "idle"
    /\ attempt' = [attempt EXCEPT ![c] = 0]
    /\ aborted' = aborted \ {c}
    /\ \/ /\ activeRequests < MAX_CONCURRENCY
          /\ activeRequests' = activeRequests + 1
          /\ pc' = [pc EXCEPT ![c] = "granted"]
          /\ UNCHANGED waiters
       \/ /\ activeRequests >= MAX_CONCURRENCY
          /\ Len(waiters) < MAX_WAITERS
          /\ waiters' = Append(waiters, c)
          /\ pc' = [pc EXCEPT ![c] = "waiting"]
          /\ UNCHANGED activeRequests

\* The function acquireBackendSlot returned, called by the finally of callBackend.
\* The slot passes to the first waiter that is not aborted; those before it
\* are dropped.
LiveWaiters == {i \in DOMAIN waiters : waiters[i] \notin aborted}

\* Mutant: the slot is not passed on.
ReleaseWithoutHandOver(c) ==
    /\ pc' = [pc EXCEPT ![c] = "idle"]
    /\ activeRequests' = activeRequests - 1
    /\ UNCHANGED waiters

Release(c) ==
    \/ \E i \in LiveWaiters :
          /\ \A j \in LiveWaiters : i <= j
          /\ pc' = [pc EXCEPT ![c] = "idle", ![waiters[i]] = "granted"]
          /\ waiters' = SubSeq(waiters, i + 1, Len(waiters))
          /\ UNCHANGED activeRequests
    \/ /\ LiveWaiters = {}
       /\ pc' = [pc EXCEPT ![c] = "idle"]
       /\ waiters' = <<>>
       /\ activeRequests' = activeRequests - 1

Finish(c) == Release(c) /\ UNCHANGED <<attempt, aborted>>

-----------------------------------------------------------------------------
(* callBackend, after the slot was granted *)

\* The first fetch, or the 413 of an oversized request.
Continue(c) ==
    /\ pc[c] = "granted"
    /\ \/ /\ pc' = [pc EXCEPT ![c] = "fetching"]
          /\ attempt' = [attempt EXCEPT ![c] = 1]
          /\ UNCHANGED <<aborted, activeRequests, waiters>>
       \/ Finish(c)

Retry(c) ==
    /\ attempt[c] < BACKEND_ATTEMPTS
    /\ attempt' = [attempt EXCEPT ![c] = @ + 1]
    /\ pc' = [pc EXCEPT ![c] = "fetching"]
    /\ UNCHANGED <<aborted, activeRequests, waiters>>

\* fetch rejects: the network failed, or the call was aborted.
FetchRejects(c) ==
    /\ EventLoop
    /\ pc[c] = "fetching"
    /\ IF c \in aborted \/ attempt[c] = BACKEND_ATTEMPTS THEN Finish(c) ELSE Retry(c)

\* A response that is not ok is disposed of; a server error may be retried after.
FetchResolves(c, ok) ==
    /\ EventLoop
    /\ pc[c] = "fetching" /\ c \notin aborted
    /\ pc' = [pc EXCEPT ![c] = IF ok THEN "reading" ELSE "cancelling"]
    /\ UNCHANGED <<attempt, aborted, activeRequests, waiters>>

Cancelled(c, retryable) ==
    /\ EventLoop
    /\ pc[c] = "cancelling"
    /\ IF retryable /\ attempt[c] < BACKEND_ATTEMPTS THEN Retry(c) ELSE Finish(c)

\* The body ends, exceeds its limit, or fails: each leaves callBackend.
BodyEnds(c) ==
    /\ EventLoop
    /\ pc[c] = "reading"
    /\ Finish(c)

\* The abort listener of a waiter: it leaves the queue and its promise rejects.
\* Mutant: nobody listens.
RejectNobody(c) == UNCHANGED <<pc, waiters>>

RejectWaiter(c) ==
    /\ pc' = [pc EXCEPT ![c] = "idle"]
    /\ \E i \in DOMAIN waiters : waiters[i] = c /\ waiters' = RemoveAt(waiters, i)

\* BACKEND_TIMEOUT_MS after callBackend started.  Calls that hold a
\* slot learn of it from the fetch they await.
Timeout(c) ==
    /\ EventLoop
    /\ pc[c] # "idle" /\ c \notin aborted
    /\ aborted' = aborted \cup {c}
    /\ IF pc[c] = "waiting" THEN RejectWaiter(c) ELSE UNCHANGED <<pc, waiters>>
    /\ UNCHANGED <<attempt, activeRequests>>

SlotsNext ==
    \E c \in Call :
        \/ CallBackend(c) \/ Continue(c)
        \/ FetchRejects(c) \/ BodyEnds(c) \/ Timeout(c)
        \/ \E ok \in BOOLEAN : FetchResolves(c, ok)
        \/ \E retryable \in BOOLEAN : Cancelled(c, retryable)

SlotsSpec == SlotsInit /\ [][SlotsNext]_slotsVars

\* The runtime continues what was resolved, timers fire, and fetch rejects once
\* its signal is aborted.  The continuations of other calls go first again and
\* again (EventLoop), but the event loop gets to every timer and task in the
\* end.  The backend itself owes nothing.
AbortEnds(c) == c \in aborted /\ (FetchRejects(c) \/ Cancelled(c, FALSE) \/ BodyEnds(c))

SlotsFairness ==
    \A c \in Call : /\ WF_slotsVars(Continue(c))
                   /\ SF_slotsVars(Timeout(c))
                   /\ SF_slotsVars(AbortEnds(c))

FairSlots == SlotsSpec /\ SlotsFairness

-----------------------------------------------------------------------------
(* Properties *)

SlotsTypeOK ==
    /\ pc \in [Call -> PC]
    /\ attempt \in [Call -> 0..BACKEND_ATTEMPTS]
    /\ aborted \subseteq Call
    /\ activeRequests \in Nat
    /\ waiters \in Seq(Call)

\* The counter is the number of calls that own a slot, and never exceeds the
\* limit: whatever way a call ends, its slot is freed or passed on, once.
SlotsAccounted ==
    /\ activeRequests = Cardinality(Holders)
    /\ activeRequests <= MAX_CONCURRENCY

\* The queue holds every waiting call once, and no call that gave up.
QueueIsWaiting ==
    /\ {waiters[i] : i \in DOMAIN waiters} = Waiting
    /\ \A i, j \in DOMAIN waiters : waiters[i] = waiters[j] => i = j

\* No call waits while a slot is free.
NoIdleSlot == waiters # <<>> => activeRequests = MAX_CONCURRENCY

\* A call gets a slot in the order in which it asked, also over those that
\* arrive when a slot is passed on.
GrantInOrder ==
    \A c \in Call : pc[c] # "granted" /\ pc'[c] = "granted" =>
        IF pc[c] = "waiting" THEN waiters[1] = c ELSE waiters = <<>>
FirstComeFirstServed == [][GrantInOrder]_slotsVars

\* Every call ends, though the backend may never answer.
CallsEnd == \A c \in Call : pc[c] # "idle" ~> pc[c] = "idle"

\* The abstract pool, owned by the calls that hold a slot.
Pool == INSTANCE SlotPool WITH
    Client <- Call, Slots <- MAX_CONCURRENCY, Places <- MAX_WAITERS,
    inside <- Holders, waiting <- Waiting

ImplementsPool == Pool!Spec

=============================================================================
