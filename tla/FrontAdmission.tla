---------------------------- MODULE FrontAdmission ----------------------------
(***************************************************************************)
(* The front of the AgentServer: ExecutionAdmission and RequestRegistry    *)
(* (jiuwenswarm/server/front/admission.py, request_registry.py), Readiness *)
(* (server/lifecycle.py), and the connections and the server-push slot of  *)
(* ConnectionHandler (server/front/connection.py).                         *)
(*                                                                         *)
(* The bodies of the asyncio locks contain no await, so a registration, a  *)
(* completion or a count is one step.  The backend is the                  *)
(* RuntimeSupervisor, which accepts requests while it warms.               *)
(***************************************************************************)
EXTENDS Integers, Sequences, FiniteSets, SequencesExt

CONSTANTS
    Requests,     \* execution requests
    Connections,  \* websocket connections, each opened once
    Keys,         \* caller-scoped request ids
    Sessions,     \* caller-scoped session ids
    Key,          \* request -> its key, or None: a request without an id
    Session,      \* request -> its session
    Conn,         \* request -> the connection it arrives on
    Streams,      \* the requests with is_stream
    Reloads,      \* the AGENT_RELOAD_CONFIG requests
    Rpc,          \* the connections that declare the rpc role
    QueueLimit,   \* _queue_limit
    MaxMarks,     \* bound on the readiness reports of a behaviour
    None

ASSUME FrontAssumption ==
    /\ Key \in [Requests -> Keys \cup {None}] /\ None \notin Keys
    /\ Session \in [Requests -> Sessions]
    /\ Conn \in [Requests -> Connections]
    /\ Streams \subseteq Requests /\ Reloads \subseteq Requests
    /\ Rpc \subseteq Connections
    /\ None \notin Requests \cup Connections
    /\ QueueLimit \in Nat /\ MaxMarks \in Nat

VARIABLES
    state,      \* Readiness._state
    event,      \* Readiness._agent_ready is set
    marks,      \* history: the readiness reports so far
    backend,    \* _backend: not yet attached, attached, or detached
    waiting,    \* ExecutionAdmission._waiting
    items,      \* RequestRegistry._items
    cancelled,  \* the requests whose cancelled event is set
    pc,         \* request -> where its task is
    wait,       \* request -> where the wait_agent_ready of its task is
    dying,      \* the requests whose task has a cancel pending
    conns,      \* connection -> not yet there, open, broken (the peer is gone but
                \* the handler has not noticed) or closed
    push,       \* _push_conns
    target,     \* the connection of the EventForwarder
    gateway     \* the backend's _gateway_ws

readyVars == <<state, event, marks>>
connVars == <<conns, push, target, gateway>>
vars == <<readyVars, backend, waiting, items, cancelled, pc, wait, dying, connVars>>

States == {"STARTING", "RUNTIME_WARMING", "AGENT_READY", "DEGRADED", "DRAINING", "FAILED"}
AgentStates == {"AGENT_READY", "DEGRADED"}
Places == {"none", "recovering", "warming", "emitting", "waiting", "refusing",
           "rejecting", "dispatched", "ended"}
AgentReady == state \in AgentStates
Live(r) == pc[r] \notin {"none", "ended"}

\* The requests that hold a place of the queue, and those that are registered.
InQueue == {r \in Requests : pc[r] \in {"emitting", "waiting"}}
Registered == {r \in Requests :
                 pc[r] \in {"warming", "emitting", "waiting", "refusing", "dispatched"}}

Init ==
    /\ state = "STARTING" /\ event = FALSE /\ marks = 0
    /\ backend = "unset"
    /\ waiting = 0
    /\ items = [k \in Keys |-> None]
    /\ cancelled = {} /\ dying = {}
    /\ pc = [r \in Requests |-> "none"]
    /\ wait = [r \in Requests |-> "none"]
    /\ conns = [c \in Connections |-> "none"]
    /\ push = <<>> /\ target = None /\ gateway = None

-----------------------------------------------------------------------------
\* Readiness.  Setting the event resolves the waits that stand before it.
Wake(set) == wait' = [r \in Requests |-> IF set /\ wait[r] = "parked" THEN "woken"
                                         ELSE wait[r]]
Report == marks < MaxMarks /\ marks' = marks + 1
Rest == <<backend, waiting, items, cancelled, pc, dying, connVars>>

\* FrontServer.start: mark_transport_ready, mark_control_ready, mark_runtime_warming.
Start ==
    /\ state = "STARTING"
    /\ state' = "RUNTIME_WARMING"
    /\ UNCHANGED <<event, marks, wait, Rest>>

\* mark_runtime_warming; note_warmup_retry only adds a reason to it.
MarkRuntimeWarming ==
    /\ Report /\ state \notin {"STARTING", "FAILED", "DRAINING"}
    /\ event' = (event /\ ~AgentReady)
    /\ state' = "RUNTIME_WARMING"
    /\ UNCHANGED <<wait, Rest>>

\* Reports of the supervisor, which exists once it is attached.
MarkAgentReady ==
    /\ Report /\ backend # "unset" /\ state # "DRAINING"
    /\ state' = "AGENT_READY" /\ event' = TRUE
    /\ Wake(TRUE)
    /\ UNCHANGED Rest

MarkDegraded ==
    /\ Report /\ state = "AGENT_READY"
    /\ state' = "DEGRADED" /\ event' = TRUE
    /\ Wake(TRUE)
    /\ UNCHANGED Rest

MarkFailed ==
    /\ Report /\ state \notin {"STARTING", "DRAINING"}
    /\ state' = "FAILED" /\ event' = TRUE
    /\ Wake(TRUE)
    /\ UNCHANGED Rest

MarkRecovering ==
    /\ Report /\ state = "FAILED" /\ backend # "unset"
    /\ state' = "RUNTIME_WARMING" /\ event' = FALSE
    /\ UNCHANGED <<wait, Rest>>

\* attach_runtime_backend, once, after the front has started to listen.
AttachBackend ==
    /\ backend = "unset" /\ state # "STARTING"
    /\ backend' = "on"
    /\ gateway' = IF push = <<>> THEN gateway ELSE Last(push)
    /\ UNCHANGED <<readyVars, waiting, items, cancelled, pc, wait, dying,
                   conns, push, target>>

\* begin_drain: mark_draining and detach_backend.
BeginDrain ==
    /\ Report /\ state # "STARTING"
    /\ IF state = "FAILED" THEN UNCHANGED <<state, event, wait>>
       ELSE state' = "DRAINING" /\ event' = TRUE /\ Wake(TRUE)
    /\ backend' = IF backend = "unset" THEN backend ELSE "off"
    /\ UNCHANGED <<waiting, items, cancelled, pc, dying, connVars>>

-----------------------------------------------------------------------------
\* RequestRegistry.register: refused when the key is in use.
Duplicate(r) == Key[r] # None /\ items[Key[r]] # None
RegistryOf(r) == IF Key[r] = None THEN items ELSE [items EXCEPT ![Key[r]] = r]

\* RequestRegistry.complete: only the entry of this very request.
Completed(r) == [k \in Keys |-> IF items[k] = r THEN None ELSE items[k]]

At(r, place) == pc' = [pc EXCEPT ![r] = place]

\* The queue of dispatch: full, a duplicate (whose place is given back), or in.
Enqueue(r) ==
    IF waiting >= QueueLimit \/ Duplicate(r)
    THEN At(r, "rejecting") /\ UNCHANGED <<waiting, items>>
    ELSE /\ waiting' = waiting + 1
         /\ items' = RegistryOf(r)
         /\ At(r, "emitting")

\* Mutant: an id in use is taken over.
MutForward(r) ==
    /\ items' = RegistryOf(r)
    /\ At(r, IF ~AgentReady /\ r \in Streams THEN "warming" ELSE "dispatched")
    /\ UNCHANGED waiting

\* The direct path of dispatch: register and hand over to the backend, after a
\* warming frame for a stream.
Forward(r) ==
    IF Duplicate(r) THEN At(r, "rejecting") /\ UNCHANGED <<waiting, items>>
    ELSE /\ items' = RegistryOf(r)
         /\ At(r, IF ~AgentReady /\ r \in Streams THEN "warming" ELSE "dispatched")
         /\ UNCHANGED waiting

Admit(r) == IF backend = "on" THEN Forward(r) ELSE Enqueue(r)

\* dispatch of an execution request, up to its first await.
Dispatch(r) ==
    /\ pc[r] = "none" /\ conns[Conn[r]] \in {"open", "broken"}
    /\ IF state = "FAILED" /\ r \in Reloads /\ backend = "on"
       THEN At(r, "recovering") /\ UNCHANGED <<waiting, items>>
       ELSE IF state \in {"DRAINING", "FAILED"}
       THEN At(r, "rejecting") /\ UNCHANGED <<waiting, items>>
       ELSE Admit(r)
    /\ UNCHANGED <<readyVars, backend, cancelled, wait, dying, connVars>>

\* recover_from_failed returns to _try_recover_after_failed; it is true only when
\* the agent is ready.
Recovered(r) ==
    /\ pc[r] = "recovering" /\ r \notin dying
    /\ \/ At(r, "rejecting") /\ UNCHANGED <<waiting, items>>
       \/ AgentReady /\ Admit(r)
    /\ UNCHANGED <<readyVars, backend, cancelled, wait, dying, connVars>>

\* _emit_warming returns, whether the frame was sent or not.
Emitted(r) ==
    /\ r \notin dying
    /\ \/ pc[r] = "warming" /\ At(r, "dispatched") /\ UNCHANGED wait
       \/ /\ pc[r] = "emitting" /\ At(r, "waiting")
          /\ wait' = [wait EXCEPT ![r] = "start"]
    /\ UNCHANGED <<readyVars, backend, waiting, items, cancelled, dying, connVars>>

\* The answer wait_agent_ready gives in this state.
Verdict == IF AgentReady THEN "yes" ELSE "no"

\* wait_agent_ready: its first step, and the one after the event was set.
ReadyWait(r) ==
    /\ wait[r] \in {"start", "woken"}
    /\ wait' = [wait EXCEPT ![r] = IF wait[r] = "start" /\ ~event THEN "parked" ELSE Verdict]
    /\ UNCHANGED <<readyVars, Rest>>

\* Mutant: wait_agent_ready without a timeout.
MutReadyTimeout(r) == FALSE /\ UNCHANGED vars

\* wait_agent_ready: wait_seconds have passed.
ReadyTimeout(r) ==
    /\ wait[r] = "parked"
    /\ wait' = [wait EXCEPT ![r] = "no"]
    /\ UNCHANGED <<readyVars, Rest>>

\* Mutant: a cancel that came with the readiness is not looked at.
MutRefused(r) == wait[r] = "none"

Refused(r) == r \in cancelled
Dispatchable(r) == /\ state \notin {"DRAINING", "FAILED"}
                   /\ wait[r] = "yes" /\ backend = "on"

\* dispatch after _wait_ready_or_cancel: cancelled, refused or dispatched.
Decide(r) ==
    /\ pc[r] = "waiting" /\ r \notin dying
    /\ wait[r] \in {"yes", "no"} \/ r \in cancelled
    /\ waiting' = waiting - 1
    /\ wait' = [wait EXCEPT ![r] = "none"]
    /\ IF Refused(r) THEN At(r, "refusing") /\ UNCHANGED items
       ELSE IF Dispatchable(r) THEN At(r, "dispatched") /\ UNCHANGED items
       ELSE At(r, "rejecting") /\ items' = Completed(r)
    /\ UNCHANGED <<readyVars, backend, cancelled, dying, connVars>>

\* A task's last step: its reply is sent, or the backend returns.  A reply that
\* cannot be sent raises, and the refusal of a cancelled request then does not
\* reach its completion.
Finish(r) ==
    /\ pc[r] \in {"refusing", "rejecting", "dispatched"} /\ r \notin dying
    /\ At(r, "ended")
    /\ items' = IF pc[r] = "dispatched" \/ (pc[r] = "refusing" /\ conns[Conn[r]] = "open")
                THEN Completed(r) ELSE items
    /\ cancelled' = cancelled \ {r}
    /\ UNCHANGED <<readyVars, backend, waiting, wait, dying, connVars>>

\* Mutant: every cancelled task gives a place back.
MutLeaves(r) == waiting - 1

\* The finally block of the wait.
Leaves(r) == IF r \in InQueue THEN waiting - 1 ELSE waiting

\* CancelledError reaches the task of a closed connection.  Only a dispatched
\* request is completed.
Die(r) ==
    /\ r \in dying
    /\ At(r, "ended")
    /\ waiting' = Leaves(r)
    /\ items' = IF pc[r] = "dispatched" THEN Completed(r) ELSE items
    /\ wait' = [wait EXCEPT ![r] = "none"]
    /\ dying' = dying \ {r}
    /\ cancelled' = cancelled \ {r}
    /\ UNCHANGED <<readyVars, backend, connVars>>

\* _dispatch_cancel of one id or of a session: the registry's part.  A backend
\* that is attached hears of it too.  On an entry without a task it has no effect.
CancelThem(S) ==
    /\ cancelled' = cancelled \cup (S \cap Registered)
    /\ UNCHANGED <<readyVars, backend, waiting, items, pc, wait, dying, connVars>>

CancelRequest(k) == items[k] # None /\ CancelThem({items[k]})
CancelSession(s) ==
    LET found == {items[k] : k \in Keys} \ {None}
    IN  CancelThem({r \in found : Session[r] = s})

-----------------------------------------------------------------------------
\* _publish_push_target.
Publish(c) ==
    /\ target' = c
    /\ gateway' = IF backend = "on" THEN c ELSE gateway

\* A connection is accepted.
Connect(c) ==
    /\ conns[c] = "none"
    /\ conns' = [conns EXCEPT ![c] = "open"]
    /\ IF c \in Rpc THEN UNCHANGED <<push, target, gateway>>
       ELSE push' = Append(push, c) /\ Publish(c)
    /\ UNCHANGED <<readyVars, backend, waiting, items, cancelled, pc, wait, dying>>

\* Where a connection stands in _push_conns.
Index(c) == CHOOSE i \in DOMAIN push : push[i] = c

\* Mutant: the slot is given up with its connection.
MutRelease(c) ==
    /\ push' = RemoveAt(push, Index(c))
    /\ IF Index(c) # Len(push) THEN UNCHANGED <<target, gateway>>
       ELSE /\ target' = None
            /\ gateway' = IF backend = "on" /\ gateway = c THEN None ELSE gateway

\* _release_push_target: the newest connection left takes the slot.
Release(c) ==
    /\ push' = RemoveAt(push, Index(c))
    /\ IF Index(c) # Len(push) THEN UNCHANGED <<target, gateway>>
       ELSE IF push' # <<>> THEN Publish(Last(push'))
       ELSE /\ target' = IF target = c THEN None ELSE target
            /\ gateway' = IF backend = "on" /\ gateway = c THEN None ELSE gateway

\* The peer of a connection goes away while a request of it is under way: sends
\* fail from now on.
Break(c) ==
    /\ conns[c] = "open" /\ \E r \in Requests : Conn[r] = c /\ Live(r)
    /\ conns' = [conns EXCEPT ![c] = "broken"]
    /\ UNCHANGED <<readyVars, backend, waiting, items, cancelled, pc, wait, dying,
                   push, target, gateway>>

\* A connection ends: its tasks are cancelled, its slot is released.
Disconnect(c) ==
    /\ conns[c] \in {"open", "broken"}
    /\ conns' = [conns EXCEPT ![c] = "closed"]
    /\ dying' = dying \cup {r \in Requests : Conn[r] = c /\ Live(r)}
    /\ IF c \in Rpc THEN UNCHANGED <<push, target, gateway>> ELSE Release(c)
    /\ UNCHANGED <<readyVars, backend, waiting, items, cancelled, pc, wait>>

ReadinessStep == Start \/ MarkRuntimeWarming \/ MarkAgentReady \/ MarkDegraded
                 \/ MarkFailed \/ MarkRecovering \/ AttachBackend \/ BeginDrain

TaskStep(r) == Emitted(r) \/ ReadyWait(r) \/ ReadyTimeout(r) \/ Decide(r) \/ Die(r)

Next ==
    \/ ReadinessStep
    \/ \E r \in Requests : Dispatch(r) \/ Recovered(r) \/ TaskStep(r) \/ Finish(r)
    \/ \E k \in Keys : CancelRequest(k)
    \/ \E s \in Sessions : CancelSession(s)
    \/ \E c \in Connections : Connect(c) \/ Break(c) \/ Disconnect(c)

\* A send ends, and wait_agent_ready ends by wait_seconds.  Nothing is assumed of
\* the backend or of a recovery.
Fairness == \A r \in Requests : WF_vars(TaskStep(r))

Safety == Init /\ [][Next]_vars
Spec == Safety /\ Fairness

-----------------------------------------------------------------------------
\* Type invariant.
TypeOK ==
    /\ state \in States /\ event \in BOOLEAN /\ marks \in 0..MaxMarks
    /\ backend \in {"unset", "on", "off"}
    /\ waiting \in 0..QueueLimit
    /\ items \in [Keys -> Requests \cup {None}]
    /\ cancelled \subseteq Requests /\ dying \subseteq Requests
    /\ pc \in [Requests -> Places]
    /\ wait \in [Requests -> {"none", "start", "parked", "woken", "yes", "no"}]
    /\ conns \in [Connections -> {"none", "open", "broken", "closed"}]
    /\ push \in Seq(Connections)
    /\ target \in Connections \cup {None} /\ gateway \in Connections \cup {None}

\* _waiting counts exactly the requests in the queue, through refusals, cancels
\* and connections that close: no place is lost and none is given back twice.
QueueExact == waiting = Cardinality(InQueue)

\* "Track Front-accepted requests until they complete or cancel"
\* (request_registry.py:42): a registered request is the one found under its key,
\* so no two of one key are under way and a cancel reaches it; and an entry whose
\* request has ended is one whose connection is gone.
RegistryExact ==
    /\ \A r \in Registered : Key[r] # None => items[Key[r]] = r
    /\ \A k \in Keys : items[k] # None =>
          items[k] \in Registered \/ conns[Conn[items[k]]] # "open"

\* The event that releases waiters is set exactly in the states in which nobody
\* should wait (lifecycle.py:130: "A restarted Worker must block chat again").
EventMatchesState == event <=> state \in AgentStates \cup {"DRAINING", "FAILED"}

\* The front's books are exact: the queue's counter, the registry and the event.
BooksExact == QueueExact /\ RegistryExact /\ EventMatchesState

\* "newest one owns the push slot" (connection.py:72): the forwarder and the
\* attached backend push to the newest connection that is open.
PushFollowsNewest ==
    LET newest == IF push = <<>> THEN None ELSE Last(push)
    IN  /\ target = newest
        /\ backend = "on" => gateway = newest
        /\ ToSet(push) = {c \in Connections \ Rpc : conns[c] \in {"open", "broken"}}

\* A request cancelled while it is queued is never handed to the Worker, even if
\* the readiness it waited for came first; and "Reject new execution"
\* (server.py:107): after begin_drain nothing more goes to the backend, except what
\* had already been admitted and was telling its client.
StaysBack ==
    [][\A r \in Requests : pc[r] # "dispatched" /\ pc'[r] = "dispatched" =>
          /\ r \in InQueue => r \notin cancelled
          /\ backend = "off" => pc[r] = "warming"]_vars

\* A queued request is dispatched, refused or gone with its connection.
QueuedSettles == \A r \in Requests : r \in InQueue ~> r \notin InQueue
=============================================================================
