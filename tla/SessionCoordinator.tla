-------------------------- MODULE SessionCoordinator --------------------------
(***************************************************************************)
(* The lifecycle of Sessions and executions in jiuwenswarm/runtime/       *)
(* session/coordinator.py (class RuntimeSessionCoordinator), composed      *)
(* with the lanes of SessionWorkScheduler.                                 *)
(*                                                                         *)
(* Every action is what one task does between two real suspensions.  The   *)
(* executions are split by the entry point that admits them: unary chats   *)
(* (run_unary in the lane), lane streams (run_stream), mailbox messages    *)
(* (submit_unary) and direct work (run_unary outside the lane).  Pauses    *)
(* for a user's answer are left out, and the buffer of a stream is         *)
(* StreamPump's subject: here a stream runs, marks its handle, closes its  *)
(* source and puts its last item, which may take for ever.                 *)
(***************************************************************************)
EXTENDS SessionWorkScheduler

CONSTANTS
    Chats,     \* CHAT_UNARY executions
    Streams,   \* CHAT_STREAM executions
    Messages,  \* SESSION_MESSAGE executions
    Directs,   \* executions of kinds that are not scheduled
    Stubborn   \* those whose operation may outlast a cancel wait's timeout

Scheduled == Chats \cup Streams \cup Messages

ASSUME CoordinatorAssumption ==
    /\ Execs = Scheduled \cup Directs
    /\ LatestFirst = Chats \cup Streams
    /\ Stubborn \subseteq Execs
    /\ Chats \cap (Streams \cup Messages \cup Directs) = {}
    /\ Streams \cap (Messages \cup Directs) = {}
    /\ Messages \cap Directs = {}

VARIABLES
    gen,          \* session -> _generations, 0 before the first registration
    state,        \* session -> the state of the record in _sessions
    accepting,    \* _accepting
    home,         \* execution -> the session and generation of its handle
    exec,         \* execution -> the state of its handle
    cancelReq,    \* execution -> handle.cancellation_requested
    owner,        \* execution -> the task that runs its entry point
    ownerCancel,  \* execution -> a cancel is pending on that task
    canceller,    \* execution -> where a cancel_execution of it waits
    closer,       \* session -> where a close_session of it waits
    tail,         \* stream -> where produce() is once its handle is marked
    strays        \* history: executions admitted or submitted while a close of
                  \* their Session waited, or submitted after their handle ended

coordVars == <<gen, state, accepting, home, exec, cancelReq, owner,
               ownerCancel, canceller, closer, tail, strays>>
vars == <<schedVars, coordVars>>

RecordStates == {"none", "READY", "ACTIVE", "QUIESCING", "CLOSED"}
ExecStates == {"none", "queued", "running", "succeeded", "failed", "cancelled"}
OwnerStates == {"none", "start", "submitted", "reaping", "running", "ended"}
CancelPhases == {"idle", "lane", "task", "late"}
ClosePhases == {"idle", "direct", "lane", "settle"}

\* Where a close_session waits: its generation, the executions it found active,
\* the lane it detached, whose tasks it waits for and which ones were late.
Closes == [ph : ClosePhases, gen : Gens, active : SUBSET Execs,
           lane : Execs \cup {None}, wait : SUBSET Execs, late : SUBSET Execs]
NoClose == [ph |-> "idle", gen |-> 0, active |-> {}, lane |-> None,
            wait |-> {}, late |-> {}]

\* The finally block of produce(): how the body ended, and whether the source is
\* being closed or the terminal item put into the buffer.
Tails == [ph : {"none", "closing", "putting"}, how : Ends]
NoTail == [ph |-> "none", how |-> "cancelled"]

Terminal(h, e) == h[e] \in {"succeeded", "failed", "cancelled"}
Active(h, e) == h[e] \in {"queued", "running"}
Home(s) == [sess |-> s, gen |-> gen[s]]
IsHome(e, s, g) == home[e].sess = s /\ home[e].gen = g

\* The record the execution was admitted to is still the one in _sessions.
RecordCurrent(e) == home[e].gen = gen[home[e].sess]

Init ==
    /\ SchedInit
    /\ gen = [s \in Sessions |-> 0]
    /\ state = [s \in Sessions |-> "none"]
    /\ accepting = TRUE
    /\ home = [e \in Execs |-> [sess |-> None, gen |-> 0]]
    /\ exec = [e \in Execs |-> "none"]
    /\ cancelReq = [e \in Execs |-> FALSE]
    /\ owner = [e \in Execs |-> "none"]
    /\ ownerCancel = [e \in Execs |-> FALSE]
    /\ canceller = [e \in Execs |-> "idle"]
    /\ closer = [s \in Sessions |-> NoClose]
    /\ tail = [e \in Execs |-> NoTail]
    /\ strays = {}

-----------------------------------------------------------------------------

\* SessionExecutionRegistry.mark_terminal: a terminal state is never replaced.
MarkTerminal(e, st) == [exec EXCEPT ![e] = IF Terminal(exec, e) THEN @ ELSE st]

\* _refresh_session_state of the record in _sessions, given the handles h.
Refreshed(s, h) ==
    IF state[s] \in {"QUIESCING", "CLOSED"} THEN state[s]
    ELSE IF \E e \in Execs : IsHome(e, s, gen[s]) /\ Active(h, e)
         THEN "ACTIVE" ELSE "READY"

\* Mutant: the end of one execution makes the Session READY.
MutRefreshOwn(e, h) ==
    IF RecordCurrent(e) /\ state[home[e].sess] = "ACTIVE"
    THEN [state EXCEPT ![home[e].sess] = "READY"]
    ELSE state

\* _refresh_session_state(record) for the record an execution belongs to.
RefreshOwn(e, h) ==
    IF RecordCurrent(e)
    THEN [state EXCEPT ![home[e].sess] = Refreshed(home[e].sess, h)]
    ELSE state

\* A cancel timeout may pass while the operation of e runs on, or while a stream
\* closes its source or finds no room for its terminal item.  Tasks that have not
\* begun, or only wait for a result, end as soon as they are cancelled.
Outlasts(e) ==
    \/ e \in Stubborn /\ (task[e] = "running" \/ owner[e] = "running")
    \/ tail[e].ph # "none"

\* A wait of at most cancel_timeout for a task of execution e ends: the task is
\* done, or it is one that outlasts the timeout.
WaitOver(live, e) == live => Outlasts(e)

\* handle.task is set and not done.  The scheduler puts an operation's task
\* there when it makes it; a message has its owner's task there before.
HandleTaskLive(e) ==
    /\ Active(exec, e)
    /\ \/ TaskLive(e)
       \/ e \in Messages /\ task[e] = "none" /\ owner[e] \in {"start", "submitted"}
       \/ e \in Directs /\ owner[e] = "running"

-----------------------------------------------------------------------------
\* register_session of an unknown or closed Session: a new generation.
RegisterSession(s) ==
    /\ accepting
    /\ state[s] \in {"none", "CLOSED"}
    /\ gen[s] < MaxGen
    /\ gen' = [gen EXCEPT ![s] = @ + 1]
    /\ state' = [state EXCEPT ![s] = "READY"]
    /\ UNCHANGED <<schedVars, accepting, home, exec, cancelReq, owner,
                   ownerCancel, canceller, closer, tail, strays>>

\* _require_open_session.
OpenSession(s) == accepting /\ state[s] \in {"READY", "ACTIVE"}

\* _new_execution: the handle is registered and the record becomes ACTIVE.
NewExecution(e, s, st) ==
    /\ exec[e] = "none"
    /\ OpenSession(s)
    /\ exec' = [exec EXCEPT ![e] = st]
    /\ home' = [home EXCEPT ![e] = Home(s)]
    /\ state' = [state EXCEPT ![s] = "ACTIVE"]
    /\ strays' = IF closer[s].ph # "idle" THEN strays \cup {e} ELSE strays
    /\ UNCHANGED <<gen, accepting, cancelReq, ownerCancel, canceller, closer, tail>>

\* submit_and_wait: the caller waits for the result, or gets a RuntimeError.
Submit(e, s, g) ==
    \/ /\ SubmitAndWait(e, s, g)
       /\ owner' = [owner EXCEPT ![e] = "submitted"]
    \/ /\ SubmitRefused(e, s, g)
       /\ owner' = [owner EXCEPT ![e] = "ended"]

\* run_unary of a chat reaches `await result` without suspending.
RunUnary(e, s) ==
    /\ e \in Chats
    /\ NewExecution(e, s, "queued")
    /\ Submit(e, s, gen[s])

\* run_stream and submit_unary make a task that submits later.
SubmitLater(e, s) ==
    /\ e \in Streams \cup Messages
    /\ NewExecution(e, s, "queued")
    /\ owner' = [owner EXCEPT ![e] = "start"]
    /\ UNCHANGED schedVars

\* run_unary of direct work runs its operation in the caller's task.
RunDirect(e, s) ==
    /\ e \in Directs
    /\ NewExecution(e, s, "running")
    /\ owner' = [owner EXCEPT ![e] = "running"]
    /\ UNCHANGED schedVars

\* The first step of the task made by SubmitLater; a task cancelled before it
\* never runs.
OwnerStarts(e) ==
    /\ owner[e] = "start"
    /\ \/ ~ownerCancel[e] /\ Submit(e, home[e].sess, home[e].gen)
       \/ /\ ownerCancel[e]
          /\ owner' = [owner EXCEPT ![e] = "ended"]
          /\ UNCHANGED schedVars
    /\ strays' = IF closer[home[e].sess].ph # "idle" \/ Terminal(exec, e)
                 THEN strays \cup {e} ELSE strays
    /\ UNCHANGED <<gen, state, accepting, home, exec, cancelReq, ownerCancel,
                   canceller, closer, tail>>

\* tracked() or produce() begins: mark_running, and the record becomes ACTIVE
\* whatever it was.
StartOp(e) ==
    /\ StartTask(e)
    /\ IF cancelling[e] THEN UNCHANGED <<exec, state>>
       ELSE /\ exec' = [exec EXCEPT ![e] = IF @ = "queued" THEN "running" ELSE @]
            /\ state' = IF RecordCurrent(e)
                        THEN [state EXCEPT ![home[e].sess] = "ACTIVE"] ELSE state
    /\ UNCHANGED <<gen, accepting, home, cancelReq, owner, ownerCancel,
                   canceller, closer, tail, strays>>

\* The state a handle gets when its operation ends.
EndState(how) == CASE how = "returned" -> "succeeded"
                   [] how = "raised" -> "failed"
                   [] how = "cancelled" -> "cancelled"

\* tracked() ends: mark_terminal, then _refresh_session_state.
EndOp(e, how) ==
    /\ e \notin Streams
    /\ EndTask(e, how)
    /\ exec' = MarkTerminal(e, EndState(how))
    /\ state' = RefreshOwn(e, exec')
    /\ UNCHANGED <<gen, accepting, home, cancelReq, owner, ownerCancel,
                   canceller, closer, tail, strays>>

\* The source of a stream ends, fails or is cancelled: produce() marks the handle
\* and begins to close the source.
StreamMarks(e, how) ==
    /\ e \in Streams /\ task[e] = "running" /\ tail[e].ph = "none"
    /\ how = "cancelled" => cancelling[e]
    /\ exec' = MarkTerminal(e, EndState(how))
    /\ tail' = [tail EXCEPT ![e] = [ph |-> "closing", how |-> how]]
    /\ UNCHANGED <<schedVars, gen, state, accepting, home, cancelReq, owner,
                   ownerCancel, canceller, closer, strays>>

\* aclose() has returned: _refresh_session_state, then the put of the terminal item.
StreamRefreshes(e) ==
    /\ tail[e].ph = "closing"
    /\ state' = RefreshOwn(e, exec)
    /\ tail' = [tail EXCEPT ![e].ph = "putting"]
    /\ UNCHANGED <<schedVars, gen, accepting, home, exec, cancelReq, owner,
                   ownerCancel, canceller, closer, strays>>

\* produce() leaves: the terminal item found room, aclose() raised, or a cancel
\* reached either await.  Only a body that was cancelled, and raises again, or an
\* exception in the finally block make the task end otherwise than by returning.
StreamEnds(e, how) ==
    /\ tail[e].ph # "none"
    /\ EndTask(e, how)
    /\ \/ how = "cancelled"
       \/ tail[e].ph = "closing" /\ how = "raised"
       \/ tail[e].ph = "putting" /\ tail[e].how # "cancelled" /\ how = "returned"
    /\ tail' = [tail EXCEPT ![e] = NoTail]
    /\ UNCHANGED <<gen, state, accepting, home, exec, cancelReq, owner,
                   ownerCancel, canceller, closer, strays>>

\* Direct work ends in its caller's task.
EndDirect(e, how) ==
    /\ e \in Directs /\ owner[e] = "running"
    /\ how = "cancelled" => ownerCancel[e]
    /\ exec' = MarkTerminal(e, EndState(how))
    /\ state' = RefreshOwn(e, exec')
    /\ owner' = [owner EXCEPT ![e] = "ended"]
    /\ ownerCancel' = [ownerCancel EXCEPT ![e] = FALSE]
    /\ UNCHANGED <<schedVars, gen, accepting, home, cancelReq, canceller,
                   closer, tail, strays>>

\* The client's task of a unary chat is cancelled while it awaits the result.
AbandonRequest(e) ==
    /\ e \in Chats /\ owner[e] = "submitted"
    /\ CancelCaller(e)
    /\ UNCHANGED coordVars

\* Mutant: the cancelled caller leaves its handle as it is.
MutOwnerGivesUp(e) ==
    /\ owner' = [owner EXCEPT ![e] = "ended"]
    /\ UNCHANGED <<exec, state>>

\* What _run_unary does with a CancelledError once its cancel_handles is over.
OwnerGivesUp(e) ==
    /\ exec' = MarkTerminal(e, "cancelled")
    /\ state' = RefreshOwn(e, exec')
    /\ owner' = [owner EXCEPT ![e] = "ended"]

\* The caller of submit_and_wait wakes up.  A stream's task just ends; _run_unary
\* answers a cancelled result by cancelling the lane's work and waiting for it.
OwnerReturns(e) ==
    /\ owner[e] = "submitted"
    /\ result[e] \in {"value", "error", "cancelled"}
    /\ IF result[e] # "cancelled" \/ e \in Streams
       THEN /\ owner' = [owner EXCEPT ![e] = "ended"]
            /\ UNCHANGED <<schedVars, exec, state, cancelReq>>
       ELSE /\ CancelHandle(e, exec[e] = "queued")
            /\ cancelReq' = [cancelReq EXCEPT ![e] = TRUE]
            /\ IF IsCurrent(e)
               THEN /\ owner' = [owner EXCEPT ![e] = "reaping"]
                    /\ UNCHANGED <<exec, state>>
               ELSE OwnerGivesUp(e)
    /\ UNCHANGED <<gen, accepting, home, ownerCancel, canceller, closer, tail, strays>>

\* The wait of that cancel_handles is over.
OwnerReaps(e) ==
    /\ owner[e] = "reaping"
    /\ WaitOver(TaskLive(e), e)
    /\ OwnerGivesUp(e)
    /\ UNCHANGED <<schedVars, gen, accepting, home, cancelReq, ownerCancel,
                   canceller, closer, tail, strays>>

-----------------------------------------------------------------------------
\* Mutant: a cancel of a running message cancels its result as well.
MutCancelHandleTasks(D) ==
    /\ cancelling' = [e \in Execs |-> cancelling[e] \/ (e \in D /\ TaskLive(e))]
    /\ result' = [e \in Execs |-> IF e \in D /\ result[e] = "pending"
                                  THEN "cancelled" ELSE result[e]]
    /\ UNCHANGED <<laneVars, task, closed>>
    /\ ownerCancel' = [e \in Execs |-> ownerCancel[e]
                          \/ (e \in D /\ owner[e] \in {"start", "running"})]

\* task.cancel() on the handle.task, which is live, of the executions in D
\* (_cancel_direct_handles): on an operation's task, on an owner that has not
\* submitted, on an owner's result, or on the task of direct work.
CancelHandleTasks(D) ==
    /\ CancelTasks(D)
    /\ ownerCancel' = [e \in Execs |-> ownerCancel[e]
                          \/ (e \in D /\ owner[e] \in {"start", "running"})]

\* The last part of cancel_execution: mark what did not time out, refresh the
\* Session's record.
CancelDone(e, late) ==
    /\ exec' = IF late THEN exec ELSE MarkTerminal(e, "cancelled")
    /\ state' = [state EXCEPT ![home[e].sess] = Refreshed(home[e].sess, exec')]
    /\ canceller' = [canceller EXCEPT ![e] = "idle"]

\* _request_direct_cancel([e]) up to its wait, and the end if there is none.
RequestDirectCancel(e, late) ==
    /\ IF ~cancelReq[e] /\ HandleTaskLive(e)
       THEN CancelHandleTasks({e}) ELSE UNCHANGED <<schedVars, ownerCancel>>
    /\ cancelReq' = [cancelReq EXCEPT ![e] = TRUE]
    /\ IF HandleTaskLive(e)
       THEN /\ canceller' = [canceller EXCEPT ![e] = IF late THEN "late" ELSE "task"]
            /\ UNCHANGED <<exec, state>>
       ELSE CancelDone(e, late)

\* cancel_execution(execution_id=e) of an active execution, up to its first
\* wait.  Lane work is cancelled through the scheduler; a message also through
\* its task, as is direct work.
CancelExecution(e) ==
    /\ Active(exec, e)
    /\ canceller[e] = "idle"
    /\ IF e \in Scheduled /\ IsCurrent(e)
       THEN /\ CancelHandle(e, exec[e] = "queued")
            /\ cancelReq' = [cancelReq EXCEPT ![e] = @ \/ e \notin Messages]
            /\ canceller' = [canceller EXCEPT ![e] = "lane"]
            /\ UNCHANGED <<exec, state, ownerCancel>>
       ELSE IF e \in LatestFirst
       THEN /\ CancelHandle(e, exec[e] = "queued")
            /\ cancelReq' = [cancelReq EXCEPT ![e] = TRUE]
            /\ CancelDone(e, FALSE)
            /\ UNCHANGED ownerCancel
       ELSE RequestDirectCancel(e, FALSE)
    /\ UNCHANGED <<gen, accepting, home, owner, closer, tail, strays>>

\* The scheduler's part of cancel_execution has waited; a message goes on with
\* its task.
CancelLaneWaited(e) ==
    /\ canceller[e] = "lane"
    /\ WaitOver(TaskLive(e), e)
    /\ IF e \in Messages THEN RequestDirectCancel(e, TaskLive(e))
       ELSE /\ CancelDone(e, TaskLive(e))
            /\ UNCHANGED <<schedVars, cancelReq, ownerCancel>>
    /\ UNCHANGED <<gen, accepting, home, owner, closer, tail, strays>>

\* The direct part of cancel_execution has waited.
CancelTaskWaited(e) ==
    /\ canceller[e] \in {"task", "late"}
    /\ WaitOver(HandleTaskLive(e), e)
    /\ CancelDone(e, canceller[e] = "late" \/ HandleTaskLive(e))
    /\ UNCHANGED <<schedVars, gen, accepting, home, cancelReq, owner,
                   ownerCancel, closer, tail, strays>>

-----------------------------------------------------------------------------
\* Mutant: the Session is reported closed although tasks have timed out.
MutCloseFinish(s, g, st, late) ==
    LET mine == {e \in Execs : IsHome(e, s, g) /\ Active(exec, e)}
    IN  /\ cancelReq' = [e \in Execs |-> cancelReq[e] \/ e \in mine]
        /\ exec' = [e \in Execs |-> IF e \in mine \ late THEN "cancelled" ELSE exec[e]]
        /\ state' = [state EXCEPT ![s] = IF gen[s] = g THEN "CLOSED" ELSE st]
        /\ closer' = [closer EXCEPT ![s] = NoClose]

\* The end of close_session, of generation g and with the record in state st:
\* mark what did not time out; close the record only if nothing did.
CloseFinish(s, g, st, late) ==
    LET mine == {e \in Execs : IsHome(e, s, g) /\ Active(exec, e)}
    IN  /\ cancelReq' = [e \in Execs |-> cancelReq[e] \/ e \in mine]
        /\ exec' = [e \in Execs |-> IF e \in mine \ late THEN "cancelled" ELSE exec[e]]
        /\ state' = [state EXCEPT ![s] =
                        IF late = {} /\ gen[s] = g THEN "CLOSED" ELSE st]
        /\ closer' = [closer EXCEPT ![s] = NoClose]

\* close_session after _request_direct_cancel: close the lane and wait for its
\* processor, or, without a lane, wait for the tasks an earlier close left.
CloseDetach(s, g, st, active, requested, late) ==
    LET left == {e \in active \cap Scheduled : HandleTaskLive(e)}
        Wait(ph, l, wait) ==
            /\ closer' = [closer EXCEPT ![s] =
                  [ph |-> ph, gen |-> g, active |-> active, lane |-> l,
                   wait |-> wait, late |-> late]]
            /\ state' = [state EXCEPT ![s] = st]
            /\ cancelReq' = [e \in Execs |-> cancelReq[e] \/ e \in requested]
            /\ UNCHANGED exec
    IN  IF lanes[s] # None /\ scope[lanes[s]].gen = g
        THEN CloseLane(s, g) /\ Wait("lane", lanes[s], {current[lanes[s]]} \ {None})
        ELSE /\ UNCHANGED schedVars
             /\ IF left = {} THEN CloseFinish(s, g, st, late)
                ELSE Wait("settle", None, left)

\* close_session up to its first wait: fence the record and cancel direct work.
\* Without a task to wait for, it goes on to the lane in the same turn.
CloseBegin(s) ==
    /\ closer[s].ph = "idle"
    /\ gen[s] > 0
    /\ LET active == {e \in Execs : IsHome(e, s, gen[s]) /\ Active(exec, e)}
           direct == active \cap (Messages \cup Directs)
           wait == {e \in direct : HandleTaskLive(e)}
       IN  IF wait = {}
           THEN /\ CloseDetach(s, gen[s], "QUIESCING", active, direct, {})
                /\ UNCHANGED ownerCancel
           ELSE /\ CancelHandleTasks({e \in wait : ~cancelReq[e]})
                /\ cancelReq' = [e \in Execs |-> cancelReq[e] \/ e \in direct]
                /\ closer' = [closer EXCEPT ![s] =
                      [ph |-> "direct", gen |-> gen[s], active |-> active,
                       lane |-> None, wait |-> wait, late |-> {}]]
                /\ state' = [state EXCEPT ![s] = "QUIESCING"]
                /\ UNCHANGED exec
    /\ UNCHANGED <<gen, accepting, home, owner, canceller, tail, strays>>

\* The wait for the direct work is over.
CloseDirectWaited(s) ==
    /\ closer[s].ph = "direct"
    /\ \A e \in closer[s].wait : WaitOver(HandleTaskLive(e), e)
    /\ CloseDetach(s, closer[s].gen, state[s], closer[s].active, {},
                   {e \in closer[s].wait : HandleTaskLive(e)})
    /\ UNCHANGED <<gen, accepting, home, owner, ownerCancel, canceller, tail, strays>>

\* The tasks the last wait of close_session still finds alive.
ClosePending(s) ==
    IF closer[s].ph = "lane"
    THEN IF proc[closer[s].lane] = "done" THEN {} ELSE closer[s].wait
    ELSE {e \in closer[s].wait : HandleTaskLive(e)}

\* The wait for the lane's processor and task, or for left tasks, is over.
CloseWaited(s) ==
    /\ closer[s].ph \in {"lane", "settle"}
    /\ closer[s].ph = "lane" /\ ClosePending(s) = {} => proc[closer[s].lane] = "done"
    /\ \A e \in ClosePending(s) : Outlasts(e)
    /\ CloseFinish(s, closer[s].gen, state[s], closer[s].late \cup ClosePending(s))
    /\ UNCHANGED <<schedVars, gen, accepting, home, owner, ownerCancel, canceller,
                   tail, strays>>

\* quiesce_session: the admission fence alone.
QuiesceSession(s) ==
    /\ state[s] \in {"READY", "ACTIVE"}
    /\ state' = [state EXCEPT ![s] = "QUIESCING"]
    /\ UNCHANGED <<schedVars, gen, accepting, home, exec, cancelReq, owner,
                   ownerCancel, canceller, closer, tail, strays>>

-----------------------------------------------------------------------------
\* close(): refuse everything, close every Session (CloseBegin), then the
\* scheduler if no Session timed out, then the lanes it still has.
BeginShutdown ==
    /\ accepting
    /\ accepting' = FALSE
    /\ UNCHANGED <<schedVars, gen, state, home, exec, cancelReq, owner,
                   ownerCancel, canceller, closer, tail, strays>>

ShutdownScheduler ==
    /\ ~accepting
    /\ \A s \in Sessions : state[s] \in {"none", "CLOSED"} /\ closer[s].ph = "idle"
    /\ CloseScheduler
    /\ UNCHANGED coordVars

ShutdownLane(s) ==
    /\ closed
    /\ lanes[s] # None
    /\ CloseLane(s, scope[lanes[s]].gen)
    /\ UNCHANGED coordVars

Processor(l) ==
    /\ ProcessorTake(l) \/ ProcessorCancelled(l) \/ ProcessorResume(l)
    /\ UNCHANGED coordVars

\* The steps of tasks that are ready to run.
TaskStep(e) ==
    \/ Processor(e)
    \/ OwnerStarts(e)
    \/ StartOp(e)
    \/ \E how \in Ends : EndOp(e, how) \/ EndDirect(e, how)
    \/ \E how \in Ends : StreamMarks(e, how) \/ StreamEnds(e, how)
    \/ StreamRefreshes(e)
    \/ OwnerReturns(e)
    \/ OwnerReaps(e)
    \/ CancelLaneWaited(e)
    \/ CancelTaskWaited(e)

Request(e) ==
    \/ \E s \in Sessions : RunUnary(e, s) \/ SubmitLater(e, s) \/ RunDirect(e, s)
    \/ AbandonRequest(e)
    \/ CancelExecution(e)

SessionStep(s) ==
    \/ RegisterSession(s)
    \/ QuiesceSession(s)
    \/ CloseBegin(s)
    \/ CloseDirectWaited(s)
    \/ CloseWaited(s)
    \/ ShutdownLane(s)

Next ==
    \/ \E e \in Execs : Request(e) \/ TaskStep(e)
    \/ \E s \in Sessions : SessionStep(s)
    \/ BeginShutdown
    \/ ShutdownScheduler

\* The loop runs every ready task, timeouts fire, and operations end.  A stream's
\* source is closed, but nothing makes room for its terminal item.
Fairness ==
    /\ \A e \in Execs :
          /\ WF_vars(Processor(e))
          /\ WF_vars(OwnerStarts(e))
          /\ WF_vars(StartOp(e))
          /\ WF_vars(\E how \in Ends : EndOp(e, how) \/ EndDirect(e, how))
          /\ WF_vars((\E how \in Ends : StreamMarks(e, how)) \/ StreamRefreshes(e))
          /\ WF_vars((OwnerReturns(e) \/ OwnerReaps(e)))
          /\ WF_vars((CancelLaneWaited(e) \/ CancelTaskWaited(e)))
    /\ \A s \in Sessions : /\ WF_vars(CloseDirectWaited(s))
                           /\ WF_vars(CloseWaited(s))

Safety == Init /\ [][Next]_vars
Spec == Safety /\ Fairness

-----------------------------------------------------------------------------
\* The types of what the coordinator itself keeps.
HandleTypes ==
    /\ gen \in [Sessions -> Gens]
    /\ state \in [Sessions -> RecordStates]
    /\ accepting \in BOOLEAN
    /\ home \in [Execs -> Scopes]
    /\ exec \in [Execs -> ExecStates]
    /\ cancelReq \in [Execs -> BOOLEAN]
    /\ owner \in [Execs -> OwnerStates]
    /\ ownerCancel \in [Execs -> BOOLEAN]
    /\ canceller \in [Execs -> CancelPhases]
    /\ closer \in [Sessions -> Closes]

\* Type invariant of the coordinator, its streams and the history included.
TypeOK == HandleTypes /\ tail \in [Execs -> Tails] /\ strays \subseteq Execs

\* "Runs one operation at a time per Session" (work_scheduler.py:38): two
\* operations of the lanes of one Session never run together, across closes,
\* generations and detached lanes.
OneAtATime ==
    \A e, f \in Scheduled :
        task[e] = "running" /\ task[f] = "running" /\ home[e].sess = home[f].sess
        => e = f

\* However a Session's lanes are closed, left behind and made again, at most one of
\* its running operations has not been cancelled: an operation beside the current
\* one is what a close gave up.
OneUncancelled ==
    \A e, f \in Scheduled :
        /\ task[e] = "running" /\ task[f] = "running"
        /\ home[e].sess = home[f].sess
        /\ ~cancelling[e] /\ ~cancelling[f]
        => e = f

\* What close_session leaves of a Session it reports closed, closes that timed out
\* before and cancels of what they left included: terminal handles only, no direct
\* work, and no operation that was not cancelled, except of work that came while a
\* close waited or after its handle had ended.
ClosedIsSettled ==
    \A e \in Execs :
        /\ home[e].sess # None
        /\ state[home[e].sess] = "CLOSED" /\ RecordCurrent(e)
        => /\ Terminal(exec, e)
           /\ \/ e \in strays
              \/ (TaskLive(e) => cancelling[e]) /\ owner[e] # "running"

\* Once close_session has detached the lane, the Session admits nothing until
\* that close has returned.
CloseFence ==
    \A s \in Sessions : closer[s].ph \in {"lane", "settle"} => state[s] = "QUIESCING"

\* A terminal handle keeps its state, whichever of its operation, its owner, a
\* cancel and a close gets there first.
TerminalStays ==
    [][\A e \in Execs : Terminal(exec, e) => exec'[e] = exec[e]]_vars

\* READY and ACTIVE say whether the Session has an active execution.
StateTracksWork ==
    \A s \in Sessions : state[s] \in {"READY", "ACTIVE"} =>
        (state[s] = "ACTIVE" <=>
         \E e \in Execs : IsHome(e, s, gen[s]) /\ Active(exec, e))

\* When an owner has ended and nobody cancels or closes, its handle is terminal:
\* no execution stays active for ever in the registry.
NoLeakedHandle ==
    \A e \in Execs :
        owner[e] = "ended" /\ canceller[e] = "idle"
        /\ closer[home[e].sess].ph = "idle" => Terminal(exec, e)

\* Every request's task returns, run_unary to its client, a stream's or a message's
\* by itself, unless a stream of the Session waits for ever to put its last item.
OwnerEnds ==
    \A e \in Execs : owner[e] = "submitted" ~>
        \/ owner[e] = "ended"
        \/ [](\E f \in Streams : tail[f].ph = "putting" /\ home[f].sess = home[e].sess)

\* close_session returns.
CloseReturns == \A s \in Sessions : closer[s].ph # "idle" ~> closer[s].ph = "idle"

\* The scheduler's steps are those SessionWorkScheduler allows.
UsesScheduler == SchedSafety
=============================================================================
