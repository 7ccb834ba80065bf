---------------------------- MODULE ControlDelivery ----------------------------
(***************************************************************************)
(* Questions and answers in jiuwenswarm/runtime/session/coordinator.py:    *)
(* executions that pause for control input, the answers that resume them   *)
(* (deliver_control, deliver_control_stream), supplemental inputs          *)
(* (stream_session_input), the control gate that holds mailbox messages    *)
(* back, and the deadline of a Heartbeat.                                  *)
(*                                                                         *)
(* One generation of one Session.  The lane is seen as what                *)
(* SessionWorkScheduler guarantees: one lane operation runs at a time.  A  *)
(* wait for a cancelled task may always time out.                          *)
(***************************************************************************)
EXTENDS Integers, Sequences, FiniteSets

CONSTANTS
    Chats,         \* CHAT_STREAM executions
    Messages,      \* SESSION_MESSAGE executions of submit_unary
    Heartbeats,    \* HEARTBEAT executions: direct, wait_for_terminal, deadline
    Inputs,        \* stream_session_input calls
    UnaryAnswers,  \* deliver_control calls
    StreamAnswers, \* deliver_control_stream calls
    Questions,     \* control request ids
    Tuples,        \* the tuples of ids an answer may carry
    BelowAsks,     \* whether inputs and streamed answers below a Heartbeat ask
    MaxExecs,      \* bound on the executions of a behaviour
    MaxFaults,     \* bound on the cancels, closes, deadlines and fences of one
    None

Answers == UnaryAnswers \cup StreamAnswers
Roots == Chats \cup Messages \cup Heartbeats \cup Inputs
Execs == Roots \cup Answers

ASSUME ControlAssumption ==
    /\ None \notin Execs
    /\ Tuples \subseteq Seq(Questions)
    /\ BelowAsks \in BOOLEAN
    /\ MaxExecs \in Nat /\ MaxFaults \in Nat
    /\ Chats \cap (Messages \cup Heartbeats \cup Inputs \cup Answers) = {}
    /\ Messages \cap (Heartbeats \cup Inputs \cup Answers) = {}
    /\ Heartbeats \cap (Inputs \cup Answers) = {}
    /\ Inputs \cap Answers = {} /\ UnaryAnswers \cap StreamAnswers = {}

VARIABLES
    handle,     \* execution -> its handle's state and waiting_control_ids
    cancelReq,  \* execution -> cancellation_requested
    par,        \* execution -> parent_execution_id
    order,      \* the registered executions, oldest first
    task,       \* execution -> where the task of its entry point is
    cancelling, \* the executions whose task has a cancel pending
    rec,        \* the state of the Session's record
    gate,       \* control_ready is set
    names,      \* answer -> the ids it carries
    on,         \* answer -> the delivery whose settled event it awaits
    waitFor,    \* answer -> waiting_for
    claimed,    \* answer -> the ids its parent waited on when it was claimed
    was,        \* answer -> parent_was_waiting
    reissued,   \* answer -> the ids its stream has asked, answered since or not
    reap,       \* execution -> what its _cancel_descendants waits for, and
                \* whether the Session's state is refreshed after it
    expired,    \* the Heartbeats whose deadline has passed
    asked,      \* question -> the root execution it belongs to
    sweep,      \* where a cancel_execution waits
    fenced,     \* history: the Session has been quiesced
    faults      \* history: the disturbances so far

answerVars == <<names, on, waitFor, claimed, was, reissued>>
vars == <<handle, cancelReq, par, order, task, cancelling, rec, gate,
          answerVars, reap, expired, asked, sweep, fenced, faults>>

ExecStates == {"none", "queued", "running", "waiting", "succeeded", "failed", "cancelled"}
TaskStates == {"none", "start", "gated", "released", "queued", "running", "raised",
               "parked", "reaping", "joining", "claiming", "ended"}
NoReap == [set |-> {}, again |-> FALSE]
NoSweep == [ph |-> "idle", set |-> {}, late |-> {}]

State(e) == handle[e].st
Ids(e) == handle[e].ids
TerminalIn(h, e) == h[e].st \in {"succeeded", "failed", "cancelled"}
Terminal(e) == TerminalIn(handle, e)
ActiveIn(h, e) == h[e].st # "none" /\ ~TerminalIn(h, e)
Active(e) == ActiveIn(handle, e)
IsChat(e) == e \in Chats \/ (e \in Inputs /\ par[e] = None)
LaneWork(e) == e \in Messages \/ IsChat(e)

Init ==
    /\ handle = [e \in Execs |-> [st |-> "none", ids |-> {}]]
    /\ cancelReq = [e \in Execs |-> FALSE]
    /\ par = [e \in Execs |-> None]
    /\ order = <<>>
    /\ task = [e \in Execs |-> "none"]
    /\ cancelling = {}
    /\ rec = "READY"
    /\ gate = TRUE
    /\ names = [a \in Answers |-> <<>>]
    /\ on = [a \in Answers |-> None]
    /\ waitFor = [a \in Answers |-> None]
    /\ claimed = [a \in Answers |-> {}]
    /\ was = [a \in Answers |-> FALSE]
    /\ reissued = [a \in Answers |-> {}]
    /\ reap = [e \in Execs |-> NoReap]
    /\ expired = {}
    /\ asked = [q \in Questions |-> None]
    /\ sweep = NoSweep
    /\ fenced = FALSE
    /\ faults = 0

\* A disturbance from outside, of which a behaviour has at most MaxFaults.
Fault == faults < MaxFaults /\ faults' = faults + 1

-----------------------------------------------------------------------------
\* SessionExecutionRegistry's marks, on the handles h.
MarkTerminal(h, e, st) ==
    IF TerminalIn(h, e) THEN h ELSE [h EXCEPT ![e] = [st |-> st, ids |-> {}]]
MarkWaiting(h, e) == IF TerminalIn(h, e) THEN h ELSE [h EXCEPT ![e].st = "waiting"]
MarkAwaiting(h, e, ids) ==
    IF TerminalIn(h, e) THEN h ELSE [h EXCEPT ![e].ids = @ \cup ids]
ResumeWaiting(h, e) ==
    [h EXCEPT ![e].st = IF @ = "waiting" THEN "running" ELSE @]
MarkAllCancelled(h, S) ==
    [e \in Execs |-> IF e \in S /\ ActiveIn(h, e)
                     THEN [st |-> "cancelled", ids |-> {}] ELSE h[e]]

\* Mutant: the waits for the gate are not resolved.
MutReleased(open, tk) == tk

\* Mutant: the gate is only ever opened.
MutRefreshGate(h, tk) == gate' = TRUE /\ task' = tk

\* _refresh_control_gate: closed while an active handle waits for an answer.
\* Opening it resolves the wait of every message that stands before it.
GateOf(h) == \A e \in Execs : ActiveIn(h, e) => h[e].ids = {}
Released(open, tk) ==
    [e \in Execs |-> IF open /\ tk[e] = "gated" THEN "released" ELSE tk[e]]
RefreshGate(h, tk) ==
    /\ gate' = GateOf(h)
    /\ task' = Released(GateOf(h), tk)

\* _refresh_session_state: gate and state, unless the record is fenced.
Refresh(h, tk) ==
    IF rec = "QUIESCING"
    THEN task' = tk /\ UNCHANGED <<gate, rec>>
    ELSE /\ RefreshGate(h, tk)
         /\ rec' = IF \E e \in Execs : ActiveIn(h, e) THEN "ACTIVE" ELSE "READY"

\* An execution and its ancestors (parent_execution_id): the least set that has the
\* parent of each of its members.
Ancestors(e) ==
    LET parents == {par[x] : x \in Execs} \ {None}
        Closed(S) == \A x \in S \cup {e} : par[x] \in S \cup {None}
    IN  {e} \cup {x \in parents : \A S \in SUBSET parents : Closed(S) => x \in S}
Root(e) == CHOOSE r \in Ancestors(e) : par[r] = None
AncestorIn(e, kind) == IF Ancestors(e) \cap kind = {} THEN None
                       ELSE CHOOSE x \in Ancestors(e) \cap kind : TRUE

\* _with_descendants: S and the active executions below it, through active ones.
WithDescendants(S) ==
    LET children == {x \in Execs : Active(x) /\ par[x] # None}
        Closed(T) == \A x \in children : par[x] \in S \cup T => x \in T
    IN  S \cup {x \in children : \A T \in SUBSET children : Closed(T) => x \in T}

\* The youngest of a set of executions.
Latest(S) == order[CHOOSE i \in DOMAIN order : order[i] \in S
                      /\ \A j \in DOMAIN order : order[j] \in S => j <= i]

\* _require_open_session.
Open == rec \in {"READY", "ACTIVE"}

\* The waiting chats and Heartbeats a new chat replaces (_new_execution).
Superseded == {e \in Execs : (IsChat(e) \/ e \in Heartbeats) /\ State(e) = "waiting"}

\* _new_execution and register: the handle, its parent, and an ACTIVE record.
\* The control gate is left as it is.
NewExecution(e, p, st, replaced) ==
    /\ State(e) = "none" /\ Open
    /\ Len(order) < MaxExecs
    /\ handle' = [MarkAllCancelled(handle, replaced) EXCEPT ![e].st = st]
    /\ cancelReq' = [x \in Execs |-> cancelReq[x] \/ x \in replaced]
    /\ par' = [par EXCEPT ![e] = p]
    /\ order' = Append(order, e)
    /\ rec' = "ACTIVE"
    /\ UNCHANGED gate

-----------------------------------------------------------------------------
\* run_stream of a chat: queued in the lane.
RunChat(e) ==
    /\ e \in Chats
    /\ NewExecution(e, None, "queued", Superseded)
    /\ task' = [task EXCEPT ![e] = "queued"]
    /\ UNCHANGED <<cancelling, answerVars, reap, expired, asked, sweep, fenced, faults>>

\* submit_unary of a mailbox message: its task waits for the control gate.
SubmitMessage(e) ==
    /\ e \in Messages
    /\ NewExecution(e, None, "queued", {})
    /\ task' = [task EXCEPT ![e] = "start"]
    /\ UNCHANGED <<cancelling, answerVars, reap, expired, asked, sweep, fenced, faults>>

\* submitted(): the first step, or the one after the gate has opened.  Cancelled
\* before the gate, the task ends and leaves the handle to its canceller.
MessageStep(e) ==
    /\ e \in Messages /\ task[e] \in {"start", "gated", "released"}
    /\ task[e] = "gated" => e \in cancelling
    /\ task' = [task EXCEPT ![e] =
                   IF e \in cancelling THEN "ended"
                   ELSE IF task[e] = "start" /\ ~gate THEN "gated" ELSE "queued"]
    /\ cancelling' = cancelling \ {e}
    /\ UNCHANGED <<handle, cancelReq, par, order, rec, gate, answerVars,
                   reap, expired, asked, sweep, fenced, faults>>

\* run_unary of a Heartbeat: direct, in the caller's task.
RunHeartbeat(e) ==
    /\ e \in Heartbeats
    /\ NewExecution(e, None, "running", {})
    /\ task' = [task EXCEPT ![e] = "running"]
    /\ UNCHANGED <<cancelling, answerVars, reap, expired, asked, sweep, fenced, faults>>

\* stream_session_input: refused while a question is open or the running work is
\* being cancelled; a child of the youngest running work, or a chat when idle.
SessionInput(e) ==
    LET parents == {x \in Execs : State(x) = "running" /\ (x \in Inputs => IsChat(x))}
    IN  /\ e \in Inputs
        /\ \A x \in Execs : Active(x) => Ids(x) = {}
        /\ \A x \in parents : ~cancelReq[x]
        /\ IF parents = {} THEN NewExecution(e, None, "queued", Superseded)
           ELSE NewExecution(e, Latest(parents), "queued", {})
        /\ task' = [task EXCEPT ![e] = "queued"]
        /\ UNCHANGED <<cancelling, answerVars, reap, expired, asked, sweep, fenced, faults>>

\* produce() or tracked() begins: mark_running.  One lane operation at a time;
\* a cancelled task never begins.
StartOp(e) ==
    /\ task[e] = "queued"
    /\ IF e \in cancelling
       THEN task' = [task EXCEPT ![e] = "ended"] /\ UNCHANGED <<handle, rec>>
       ELSE /\ LaneWork(e) => \A x \in Execs : LaneWork(x) => task[x] # "running"
            /\ task' = [task EXCEPT ![e] = "running"]
            /\ handle' = [handle EXCEPT ![e].st = IF @ = "queued" THEN "running" ELSE @]
            /\ rec' = "ACTIVE"
    /\ cancelling' = cancelling \ {e}
    /\ UNCHANGED <<cancelReq, par, order, gate, answerVars, reap, expired, asked, sweep, fenced, faults>>

\* A running operation asks question q: an item of its stream, or
\* record_interaction.  A question belongs to the execution that first asked it
\* and to the answers below it.
Ask(e, q) ==
    /\ task[e] = "running" /\ e \notin UnaryAnswers
    /\ BelowAsks \/ AncestorIn(e, Heartbeats) \in {None, e}
    /\ asked[q] \in {None, Root(e)}
    /\ handle' = MarkAwaiting(handle, e, {q})
    /\ RefreshGate(handle', task)
    /\ asked' = [asked EXCEPT ![q] = Root(e)]
    /\ reissued' = [a \in Answers |-> IF a = e THEN reissued[a] \cup {q} ELSE reissued[a]]
    /\ UNCHANGED <<cancelReq, par, order, cancelling, rec, names, on, waitFor, claimed,
                   was, reap, expired, sweep, fenced, faults>>

\* An operation that returned pauses for its open questions or succeeds.
PauseOrSucceed(h, e) ==
    IF h[e].ids # {} THEN MarkWaiting(h, e) ELSE MarkTerminal(h, e, "succeeded")

\* The operation of a chat, message or input ends.  A message's submitter hears
\* of an error in a step of its own.
EndOp(e, how) ==
    /\ e \in Roots \ Heartbeats /\ task[e] = "running"
    /\ how = "cancelled" => e \in cancelling
    /\ handle' = CASE how = "returned" -> PauseOrSucceed(handle, e)
                   [] how = "raised" -> MarkTerminal(handle, e, "failed")
                   [] how = "cancelled" -> MarkTerminal(handle, e, "cancelled")
    /\ Refresh(handle', [task EXCEPT ![e] =
                 IF e \in Messages /\ how # "returned" THEN "raised" ELSE "ended"])
    /\ reap' = [reap EXCEPT ![e].again = how = "cancelled"]
    /\ cancelling' = cancelling \ {e}
    /\ UNCHANGED <<cancelReq, par, order, answerVars, expired, asked, sweep, fenced, faults>>

-----------------------------------------------------------------------------
TaskLive(e) == task[e] \notin {"none", "ended"}

\* _run_unary ends with an error, the handles being h: _cancel_descendants.
\* The task waits there only for live tasks.  The Session's state is refreshed
\* before it by tracked() itself, and after it only for a CancelledError (again).
Raise(e, h, tracked, again) ==
    LET below == WithDescendants({e}) \ {e}
        live == {x \in below : TaskLive(x)}
        swept == MarkAllCancelled(h, below)
        next == [task EXCEPT ![e] = IF live = {} THEN "ended" ELSE "reaping"]
    IN  /\ handle' = IF live = {} THEN swept ELSE h
        /\ IF live = {} /\ again THEN Refresh(swept, next)
           ELSE IF tracked THEN Refresh(h, next)
           ELSE task' = next /\ UNCHANGED <<rec, gate>>
        /\ reap' = [reap EXCEPT ![e] = [set |-> below, again |-> again]]
        /\ cancelReq' = [x \in Execs |-> cancelReq[x] \/ x \in below
                                         \/ (x = e /\ again)]
        /\ cancelling' = (cancelling \ {e}) \cup {x \in live : ~cancelReq[x]}

\* The submitter of a message hears that its operation raised.
MessageRaises(e) ==
    /\ e \in Messages /\ task[e] = "raised"
    /\ Raise(e, IF reap[e].again THEN MarkTerminal(handle, e, "cancelled") ELSE handle,
             FALSE, reap[e].again)
    /\ UNCHANGED <<par, order, answerVars, expired, asked, sweep, fenced, faults>>

\* The deadline of a Heartbeat passes: its task is cancelled.
Deadline(e) ==
    /\ e \in Heartbeats \ expired
    /\ task[e] \in {"running", "parked", "reaping"}
    /\ expired' = expired \cup {e}
    /\ cancelling' = cancelling \cup {e}
    /\ Fault
    /\ UNCHANGED <<handle, cancelReq, par, order, task, rec, gate, answerVars,
                   reap, asked, sweep, fenced>>

\* Mutant: a deadline is not told from a cancel.
MutCancelOutcome(e) == "cancelled"

\* What a CancelledError means: the deadline, or a cancel.
CancelOutcome(e) == IF e \in expired THEN "failed" ELSE "cancelled"

\* The operation of a Heartbeat ends: it returns, and the task waits for the
\* handle's end; or it raises.
EndHeartbeat(e, how) ==
    /\ e \in Heartbeats /\ task[e] = "running"
    /\ how = "cancelled" => e \in cancelling
    /\ IF how = "returned" /\ e \notin expired
       THEN /\ handle' = PauseOrSucceed(handle, e)
            /\ Refresh(handle', [task EXCEPT ![e] =
                                    IF TerminalIn(handle', e) THEN "ended" ELSE "parked"])
            /\ UNCHANGED <<cancelReq, cancelling, reap>>
       ELSE Raise(e, MarkTerminal(handle, e, IF how = "cancelled" THEN CancelOutcome(e)
                                             ELSE "failed"), TRUE, how = "cancelled")
    /\ UNCHANGED <<par, order, answerVars, expired, asked, sweep, fenced, faults>>

\* A parked Heartbeat's task wakes up: its handle has ended, or it was cancelled.
HeartbeatWakes(e) ==
    /\ e \in Heartbeats /\ task[e] = "parked"
    /\ Terminal(e) \/ e \in cancelling
    /\ IF e \notin cancelling /\ State(e) = "succeeded"
       THEN /\ task' = [task EXCEPT ![e] = "ended"]
            /\ UNCHANGED <<handle, cancelReq, cancelling, rec, gate, reap>>
       ELSE Raise(e, MarkTerminal(handle, e, CancelOutcome(e)), FALSE, TRUE)
    /\ UNCHANGED <<par, order, answerVars, expired, asked, sweep, fenced, faults>>

\* The bounded wait of _cancel_descendants is over: mark what has ended and
\* wait for the rest.  A cancel interrupts it and nothing is marked.
Reap(e) ==
    LET live == {x \in reap[e].set : TaskLive(x)}
        next == [task EXCEPT ![e] = IF live = {} THEN "ended" ELSE "joining"]
    IN  /\ task[e] = "reaping"
        /\ IF e \in cancelling
           THEN /\ task' = [task EXCEPT ![e] = "ended"]
                /\ UNCHANGED <<handle, rec, gate>>
           ELSE /\ handle' = MarkAllCancelled(handle, reap[e].set \ live)
                /\ IF live = {} /\ reap[e].again THEN Refresh(handle', next)
                   ELSE task' = next /\ UNCHANGED <<rec, gate>>
        /\ cancelling' = cancelling \ {e}
        /\ UNCHANGED <<cancelReq, par, order, answerVars, reap, expired, asked, sweep, fenced, faults>>

\* _wait_for_handles_uninterruptibly.
Join(e) ==
    /\ task[e] = "joining"
    /\ \A x \in reap[e].set : ~TaskLive(x)
    /\ LET next == [task EXCEPT ![e] = "ended"]
       IN  IF reap[e].again THEN Refresh(handle, next)
           ELSE task' = next /\ UNCHANGED <<rec, gate>>
    /\ UNCHANGED <<handle, cancelReq, par, order, cancelling, answerVars, reap,
                   expired, asked, sweep, fenced, faults>>

-----------------------------------------------------------------------------
\* _control_parent: the youngest execution that waits on q and takes answers.
ControlParent(q) ==
    LET parents == {e \in Execs : q \in Ids(e) /\ ~cancelReq[e]
                                  /\ State(e) \in {"running", "waiting"}}
    IN  IF parents = {} THEN None ELSE Latest(parents)

\* _control_target: the first of the ids that has a parent.
ControlTarget(ids) ==
    LET found == {i \in DOMAIN ids : ControlParent(ids[i]) # None}
    IN  IF found = {} THEN None
        ELSE ControlParent(ids[CHOOSE i \in found : \A j \in found : i <= j])

NamesOf(ids) == {ids[i] : i \in DOMAIN ids}

\* record.deliveries: the answers in flight, and the one to execution e.
InFlight == {a \in Answers : task[a] = "running"}
Deliveries(e) == {a \in InFlight : par[a] = e}

\* Mutant: only a repeat of the whole answer is refused, a busy parent is not.
MutBusy(e) == FALSE

\* Another answer is being delivered to the execution.
Busy(e) == Deliveries(e) # {}

\* The locals of a call end with it.
Forget(a) ==
    /\ names' = [names EXCEPT ![a] = <<>>]
    /\ on' = [on EXCEPT ![a] = None]
    /\ waitFor' = [waitFor EXCEPT ![a] = None]
    /\ claimed' = [claimed EXCEPT ![a] = {}]
    /\ was' = [was EXCEPT ![a] = FALSE]
    /\ reissued' = [reissued EXCEPT ![a] = {}]

\* One turn of _claim_control_parent's loop for answer a with these ids: it is
\* refused, or waits for the delivery in flight, or claims the execution and
\* becomes its running CONTROL_INPUT child.
Claim(a, ids) ==
    LET target == ControlTarget(ids)
        refused == \/ ~Open
                   \/ \E b \in InFlight : NamesOf(ids) \subseteq NamesOf(names[b])
                   \/ target = None
                   \/ /\ waitFor[a] # None /\ target # None
                      /\ waitFor[a] \notin Ancestors(target)
        heartbeat == AncestorIn(target, Heartbeats)
    IN  \/ /\ refused
           /\ task' = [task EXCEPT ![a] = "ended"]
           /\ Forget(a)
           /\ UNCHANGED <<handle, cancelReq, par, order, rec, gate>>
        \/ /\ ~refused /\ Busy(target)
           /\ task' = [task EXCEPT ![a] = "claiming"]
           /\ names' = [names EXCEPT ![a] = ids]
           /\ on' = [on EXCEPT ![a] = CHOOSE b \in Deliveries(target) : TRUE]
           /\ waitFor' = [waitFor EXCEPT ![a] = IF heartbeat = None THEN target ELSE heartbeat]
           /\ UNCHANGED <<handle, cancelReq, par, order, rec, gate, claimed, was, reissued>>
        \/ /\ ~refused /\ ~Busy(target)
           /\ handle' = [ResumeWaiting(handle, target) EXCEPT ![a].st = "running"]
           /\ par' = [par EXCEPT ![a] = target]
           /\ order' = Append(order, a)
           /\ rec' = "ACTIVE"
           /\ task' = [task EXCEPT ![a] = "running"]
           /\ names' = [names EXCEPT ![a] = ids]
           /\ claimed' = [claimed EXCEPT ![a] = Ids(target)]
           /\ was' = [was EXCEPT ![a] = State(target) = "waiting"]
           /\ on' = [on EXCEPT ![a] = None]
           /\ waitFor' = [waitFor EXCEPT ![a] = None]
           /\ UNCHANGED <<cancelReq, gate, reissued>>

\* An answer to questions that were asked arrives.
Answer(a, ids) ==
    /\ task[a] = "none"
    /\ Len(order) < MaxExecs
    /\ \A q \in NamesOf(ids) : asked[q] # None
    /\ Claim(a, ids)
    /\ UNCHANGED <<cancelling, reap, expired, asked, sweep, fenced, faults>>

\* Mutant: only a delivery that succeeds settles.
MutClaimAgain(a) ==
    /\ task[a] = "claiming"
    /\ State(on[a]) = "succeeded"
    /\ Claim(a, names[a])
    /\ UNCHANGED <<cancelling, reap, expired, asked, sweep, fenced, faults>>

\* The delivery an answer waited for has settled.
ClaimAgain(a) ==
    /\ task[a] = "claiming"
    /\ task[on[a]] # "running"
    /\ Claim(a, names[a])
    /\ UNCHANGED <<cancelling, reap, expired, asked, sweep, fenced, faults>>

\* The client's task is cancelled while its answer is being delivered, or
\* closes the generator.
CloseAnswer(a) ==
    /\ a \in InFlight \ cancelling
    /\ cancelling' = cancelling \cup {a}
    /\ Fault
    /\ UNCHANGED <<handle, cancelReq, par, order, task, rec, gate, answerVars,
                   reap, expired, asked, sweep, fenced>>

\* Mutant: _answered takes every question of the parent, asked since or not.
MutAnswered(h, p, ids, wasWaiting) ==
    IF wasWaiting \/ h[p].st = "waiting" THEN MarkTerminal(h, p, "succeeded")
    ELSE [h EXCEPT ![p].ids = {}]

\* _answered: the parent no longer waits on the ids; a paused parent with none
\* left has succeeded.
Answered(h, p, ids, wasWaiting) ==
    LET less == [h EXCEPT ![p].ids = @ \ ids]
    IN  IF wasWaiting \/ h[p].st = "waiting" THEN PauseOrSucceed(less, p) ELSE less

\* Mutant: an answer that failed leaves its parent running.
MutPauseAgain(a) == handle

\* An answer that failed or was cancelled: the parent it resumed pauses again.
PauseAgain(a) == IF was[a] THEN MarkWaiting(handle, par[a]) ELSE handle

\* What an answer that has asked Q takes from its parent: what it claimed, or,
\* below anything but a mailbox message, what it names and what it has asked.
Taken(a, Q) ==
    IF Q # {} /\ AncestorIn(par[a], Messages) = None
    THEN NamesOf(names[a]) \cup Q ELSE claimed[a]

\* The handles after deliver_control's operation returned with the questions Q.
\* Below a Heartbeat the questions go back to the root.
UnaryReturned(a, Q) ==
    LET p == par[a]
        root == AncestorIn(p, Heartbeats)
        parked == MarkWaiting(MarkAwaiting([handle EXCEPT ![p].ids = @ \ Taken(a, Q)],
                                           root, Q), root)
        answered == Answered(handle, p, Taken(a, Q), was[a])
    IN  IF Terminal(p) \/ rec = "QUIESCING" THEN MarkTerminal(handle, a, "cancelled")
        ELSE IF Q = {} THEN MarkTerminal(answered, a, "succeeded")
        ELSE IF root # None THEN MarkTerminal(parked, a, "succeeded")
        ELSE MarkWaiting(MarkAwaiting(answered, a, Q), a)

\* The handles after deliver_control_stream's source is exhausted.
StreamReturned(a) ==
    PauseOrSucceed(Answered(handle, par[a], Taken(a, reissued[a]), was[a]), a)

\* The operation of an answer ends; the claim is released in the same step.
EndAnswer(a, how, Q) ==
    /\ a \in InFlight
    /\ how = "cancelled" => a \in cancelling
    /\ how # "returned" \/ a \in StreamAnswers => Q = {}
    /\ \A q \in Q : asked[q] \in {None, Root(a)}
    /\ handle' = CASE how = "raised" -> MarkTerminal(PauseAgain(a), a, "failed")
                   [] how = "cancelled" -> MarkTerminal(PauseAgain(a), a, "cancelled")
                   [] how = "returned" -> IF a \in UnaryAnswers THEN UnaryReturned(a, Q)
                                          ELSE StreamReturned(a)
    /\ Refresh(handle', [task EXCEPT ![a] = "ended"])
    /\ Forget(a)
    /\ asked' = [q \in Questions |-> IF q \in Q THEN Root(a) ELSE asked[q]]
    /\ cancelling' = cancelling \ {a}
    /\ UNCHANGED <<cancelReq, par, order, reap, expired, sweep, fenced, faults>>

-----------------------------------------------------------------------------
\* The direct part of cancel_execution: cancel the tasks of S outside the lane
\* and wait for them.
Direct(e) == e \in Messages \/ ~LaneWork(e)
CancelDirect(S, late, tk) ==
    LET direct == {e \in S : Direct(e)}
        live == {e \in direct : tk[e] \notin {"none", "ended"} /\ Active(e)}
    IN  /\ cancelReq' = [e \in Execs |-> cancelReq[e] \/ e \in S]
        /\ cancelling' = cancelling \cup {e \in live : ~cancelReq[e]}
        /\ IF live = {}
           THEN /\ handle' = MarkAllCancelled(handle, S \ late)
                /\ Refresh(handle', tk)
                /\ sweep' = NoSweep
           ELSE /\ sweep' = [ph |-> "direct", set |-> S, late |-> late]
                /\ task' = tk
                /\ UNCHANGED <<handle, rec, gate>>

\* cancel_execution of e and what is below it, up to its first wait: queued lane
\* work leaves the lane, a running lane operation is cancelled.
CancelExecution(e) ==
    LET S == WithDescendants({e})
        lane == {x \in S : LaneWork(x)}
        busy == {x \in lane : task[x] = "running"}
        tk == [x \in Execs |-> IF x \in lane /\ task[x] = "queued"
                               THEN IF x \in Messages THEN "raised" ELSE "ended"
                               ELSE task[x]]
    IN  /\ sweep.ph = "idle" /\ Active(e)
        /\ reap' = [x \in Execs |-> IF tk[x] = "raised" /\ task[x] = "queued"
                                    THEN [reap[x] EXCEPT !.again = TRUE] ELSE reap[x]]
        /\ IF busy = {} THEN CancelDirect(S, {}, tk)
           ELSE /\ cancelReq' = [x \in Execs |-> cancelReq[x] \/ (x \in S /\ ~Direct(x))]
                /\ cancelling' = cancelling \cup busy
                /\ sweep' = [ph |-> "lane", set |-> S, late |-> {}]
                /\ task' = tk
                /\ UNCHANGED <<handle, rec, gate>>
        /\ Fault
        /\ UNCHANGED <<par, order, answerVars, expired, asked, fenced>>

\* The waits of cancel_execution are over: the tasks have ended, or cancel_timeout
\* has passed.
CancelLaneWaited ==
    /\ sweep.ph = "lane"
    /\ CancelDirect(sweep.set, {e \in sweep.set : LaneWork(e) /\ task[e] = "running"}, task)
    /\ UNCHANGED <<par, order, answerVars, reap, expired, asked, fenced, faults>>

CancelTaskWaited ==
    /\ sweep.ph = "direct"
    /\ LET late == sweep.late \cup {e \in sweep.set : Direct(e) /\ TaskLive(e)}
       IN  handle' = MarkAllCancelled(handle, sweep.set \ late)
    /\ Refresh(handle', task)
    /\ sweep' = NoSweep
    /\ UNCHANGED <<cancelReq, par, order, cancelling, answerVars, reap, expired, asked, fenced, faults>>

\* quiesce_session: the admission fence.
Quiesce ==
    /\ Open
    /\ rec' = "QUIESCING"
    /\ fenced' = TRUE
    /\ Fault
    /\ UNCHANGED <<handle, cancelReq, par, order, task, cancelling, gate,
                   answerVars, reap, expired, asked, sweep>>

Ends == {"returned", "raised", "cancelled"}

Admit(e) == RunChat(e) \/ SubmitMessage(e) \/ RunHeartbeat(e) \/ SessionInput(e)

TaskStep(e) ==
    \/ MessageStep(e) \/ StartOp(e) \/ MessageRaises(e)
    \/ \E how \in Ends : EndOp(e, how) \/ EndHeartbeat(e, how)
    \/ HeartbeatWakes(e) \/ Reap(e) \/ Join(e)

AnswerStep(a) ==
    \/ ClaimAgain(a)
    \/ \E how \in Ends, Q \in SUBSET Questions : EndAnswer(a, how, Q)

\* The steps of tasks that are ready to run, and the ends of operations and of
\* bounded waits.
SystemStep ==
    \/ \E e \in Execs : TaskStep(e)
    \/ \E a \in Answers : AnswerStep(a)
    \/ CancelLaneWaited \/ CancelTaskWaited

Next ==
    \/ SystemStep
    \/ \E e \in Execs : \/ Admit(e) \/ Deadline(e) \/ CancelExecution(e)
                        \/ \E q \in Questions : Ask(e, q)
    \/ \E a \in Answers : (\E ids \in Tuples : Answer(a, ids)) \/ CloseAnswer(a)
    \/ Quiesce

\* The loop does not stop while a task is ready to run.  Requests, questions and
\* faults are bounded, so no task is passed over for ever.
Fairness == WF_vars(SystemStep)

Safety == Init /\ [][Next]_vars
Spec == Safety /\ Fairness

-----------------------------------------------------------------------------
\* Type invariant.
TypeOK ==
    /\ handle \in [Execs -> [st : ExecStates, ids : SUBSET Questions]]
    /\ cancelReq \in [Execs -> BOOLEAN]
    /\ par \in [Execs -> Execs \cup {None}]
    /\ order \in Seq(Execs)
    /\ task \in [Execs -> TaskStates]
    /\ cancelling \subseteq Execs
    /\ rec \in {"READY", "ACTIVE", "QUIESCING"}
    /\ gate \in BOOLEAN
    /\ names \in [Answers -> {<<>>} \cup Tuples]
    /\ on \in [Answers -> Answers \cup {None}]
    /\ waitFor \in [Answers -> Execs \cup {None}]
    /\ claimed \in [Answers -> SUBSET Questions]
    /\ was \in [Answers -> BOOLEAN]
    /\ reissued \in [Answers -> SUBSET Questions]
    /\ reap \in [Execs -> [set : SUBSET Execs, again : BOOLEAN]]
    /\ expired \subseteq Heartbeats
    /\ asked \in [Questions -> Roots \cup {None}]
    /\ sweep \in [ph : {"idle", "lane", "direct"}, set : SUBSET Execs, late : SUBSET Execs]
    /\ fenced \in BOOLEAN
    /\ faults \in 0..MaxFaults

\* "never deliver together" (tests/unit_tests/runtime/
\* test_interaction_answer_delivery.py:139): one execution takes one answer at a
\* time, however the answers and the waits for earlier ones interleave.
OneDelivery == \A a, b \in InFlight : par[a] = par[b] => a = b

\* A paused execution has a question whose answer can resume it.
PauseHasQuestion == \A e \in Execs : State(e) = "waiting" => Ids(e) # {}

\* Until the Session is fenced, a handle is running only while its
\* operation runs, an answer resumes it, or a cancel of it is under way: no
\* delivery leaves its parent running for ever.
RunningIsDriven ==
    ~fenced => \A e \in Execs : State(e) = "running"
                => TaskLive(e) \/ Deliveries(e) # {} \/ e \in sweep.set

\* Nobody is stranded: what is paused can be resumed, and what is running ends.
NobodyStranded == PauseHasQuestion /\ RunningIsDriven

\* Until the Session is fenced, the control gate is open only if no execution
\* waits for an answer.
GateGuards == gate /\ ~fenced => GateOf(handle)

\* A question an active execution waits on leaves it only with an answer to it that
\* claimed it, named it or has asked it as well, by moving to the Heartbeat, or with
\* the end of the execution.
QuestionsKept ==
    [][\A e \in Execs : \A q \in Ids(e) \ handle'[e].ids :
          \/ TerminalIn(handle', e) /\ handle'[e].st # "succeeded"
          \/ \E a \in Deliveries(e) :
                /\ task'[a] = "ended"
                /\ \/ q \in claimed[a] \cup NamesOf(names[a]) \cup reissued[a]
                   \/ \E x \in Execs : q \in handle'[x].ids]_vars

\* A Heartbeat whose deadline has passed ends as failed or succeeded, also when a
\* cancel raced it; only a chat that replaces it makes it cancelled.
ExpiredIsFailed ==
    [][\A h \in expired : Active(h) /\ handle'[h].st = "cancelled"
          => \E c \in Execs : State(c) = "none" /\ handle'[c].st = "queued"]_vars

\* An answer that waits for another one's delivery gets its turn or its refusal.
ClaimSettles == \A a \in Answers : task[a] = "claiming" ~> task[a] # "claiming"

\* A mailbox message does not stay behind the control gate once no question is
\* open any more.
MessagePasses ==
    \A m \in Messages : ~<>[](task[m] = "gated" /\ GateOf(handle) /\ ~fenced)
=============================================================================
