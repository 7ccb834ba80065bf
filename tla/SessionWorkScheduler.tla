------------------------- MODULE SessionWorkScheduler -------------------------
(***************************************************************************)
(* The per-Session work lanes of jiuwenswarm/runtime/session/             *)
(* work_scheduler.py (class SessionWorkScheduler).                         *)
(*                                                                         *)
(* Every coroutine of the program runs on one asyncio loop, so a step here *)
(* is what one task does between two points where it really suspends.  A   *)
(* lane is named by the execution whose submission created it: an          *)
(* execution is submitted at most once, so a name is never reused.  The    *)
(* callers (which execution, Session and generation is submitted, who is   *)
(* cancelled, what is closed) are left open; SessionCoordinator closes     *)
(* them.                                                                   *)
(***************************************************************************)
EXTENDS Integers, FiniteSets

CONSTANTS
    Sessions,     \* session ids
    Execs,        \* executions, each submitted at most once
    LatestFirst,  \* those whose work_kind.latest_first holds (chats)
    MaxGen,       \* bound on the generations of a session
    Outcomes,     \* how an operation may end by itself
    None          \* Python's None

ASSUME SchedulerAssumption ==
    /\ LatestFirst \subseteq Execs
    /\ MaxGen \in Nat
    /\ Outcomes \subseteq {"returned", "raised"}
    /\ None \notin Execs
    /\ None \notin Sessions

VARIABLES
    lanes,        \* _lanes: session -> its attached lane, or None
    scope,        \* lane -> the session and generation it was made for
    queue,        \* lane -> the executions in its PriorityQueue
    priority,     \* lane -> lane.priority
    sequence,     \* lane -> lane.sequence
    key,          \* execution -> its priority triple in the queue
    proc,         \* lane -> where its _process task is
    current,      \* lane -> lane.current, or None
    interrupted,  \* lane -> a cancel is pending on the _process task itself
    task,         \* execution -> its operation's task
    cancelling,   \* execution -> a task.cancel() is pending on that task
    result,       \* execution -> its result future
    closed        \* _closed

laneVars == <<lanes, scope, queue, priority, sequence, key, proc, current,
              interrupted>>
schedVars == <<lanes, scope, queue, priority, sequence, key, proc, current,
               interrupted, task, cancelling, result, closed>>

Gens == 0..MaxGen
Scopes == [sess : Sessions \cup {None}, gen : Gens]
ProcStates == {"none", "new", "waiting", "awaiting", "done"}
TaskStates == {"none", "created", "running", "returned", "raised", "cancelled"}
ResultStates == {"none", "pending", "value", "error", "cancelled", "refused"}

TaskLive(e) == task[e] \in {"created", "running"}
TaskDone(e) == task[e] \in {"returned", "raised", "cancelled"}
Attached(l) == scope[l].sess # None /\ lanes[scope[l].sess] = l

\* The order of the PriorityQueue: the key triples, lexicographically.
Before(e, f) ==
    \/ key[e][1] < key[f][1]
    \/ key[e][1] = key[f][1] /\ key[e][2] < key[f][2]
    \/ key[e][1] = key[f][1] /\ key[e][2] = key[f][2] /\ key[e][3] < key[f][3]

SchedInit ==
    /\ lanes = [s \in Sessions |-> None]
    /\ scope = [l \in Execs |-> [sess |-> None, gen |-> 0]]
    /\ queue = [l \in Execs |-> {}]
    /\ priority = [l \in Execs |-> 0]
    /\ sequence = [l \in Execs |-> 0]
    /\ key = [e \in Execs |-> <<0, 0, 0>>]
    /\ proc = [l \in Execs |-> "none"]
    /\ current = [l \in Execs |-> None]
    /\ interrupted = [l \in Execs |-> FALSE]
    /\ task = [e \in Execs |-> "none"]
    /\ cancelling = [e \in Execs |-> FALSE]
    /\ result = [e \in Execs |-> "none"]
    /\ closed = FALSE

-----------------------------------------------------------------------------
\* Mutant: chats keep their submission order.
MutPriorityKey(e, l) ==
    IF e \in LatestFirst
    THEN <<0, sequence[l] + 1, sequence[l] + 1>>
    ELSE <<1, 0, sequence[l] + 1>>

\* The key submit_and_wait gives an execution: later chats before earlier ones,
\* and before every SESSION_MESSAGE, which stay in submission order.
PriorityKey(e, l) ==
    IF e \in LatestFirst
    THEN <<0, priority[l] - 1, sequence[l] + 1>>
    ELSE <<1, 0, sequence[l] + 1>>

\* _ensure_lane raises when the session's lane is of another generation.
LaneAccepts(s, g) == lanes[s] # None => scope[lanes[s]].gen = g

\* submit_and_wait up to `await result`: it finds or makes the lane, makes the
\* result and puts the item; none of this suspends.
SubmitAndWait(e, s, g) ==
    /\ result[e] = "none"
    /\ ~closed
    /\ LaneAccepts(s, g)
    /\ LET fresh == lanes[s] = None
           l == IF fresh THEN e ELSE lanes[s]
       IN  /\ lanes' = [lanes EXCEPT ![s] = l]
           /\ scope' = [scope EXCEPT ![l] = [sess |-> s, gen |-> g]]
           /\ proc' = [proc EXCEPT ![l] = IF fresh THEN "new" ELSE @]
           /\ sequence' = [sequence EXCEPT ![l] = @ + 1]
           /\ priority' = [priority EXCEPT ![l] =
                              IF e \in LatestFirst THEN @ - 1 ELSE @]
           /\ key' = [key EXCEPT ![e] = PriorityKey(e, l)]
           /\ queue' = [queue EXCEPT ![l] = @ \cup {e}]
           /\ result' = [result EXCEPT ![e] = "pending"]
    /\ UNCHANGED <<current, interrupted, task, cancelling, closed>>

\* submit_and_wait raises RuntimeError: nothing was queued.
SubmitRefused(e, s, g) ==
    /\ result[e] = "none"
    /\ closed \/ ~LaneAccepts(s, g)
    /\ result' = [result EXCEPT ![e] = "refused"]
    /\ UNCHANGED <<laneVars, task, cancelling, closed>>

-----------------------------------------------------------------------------
\* Mutant: the processor does not look at item.result.cancelled().
MutSkipped(e) == FALSE

\* An item whose result is cancelled is taken and skipped.
Skipped(e) == result[e] = "cancelled"

\* The loop of _process from its top, in an attached lane: take items until one
\* is live, make its task and await it; block in queue.get() when none is.
\* Setting current and current_task to None at the end of a round is part of it.
TakeNext(l) ==
    LET live == {e \in queue[l] : ~Skipped(e)}
    IN  IF live = {}
        THEN /\ queue' = [queue EXCEPT ![l] = {}]
             /\ proc' = [proc EXCEPT ![l] = "waiting"]
             /\ current' = [current EXCEPT ![l] = None]
             /\ UNCHANGED task
        ELSE \E e \in live :
             /\ \A f \in live \ {e} : Before(e, f)
             /\ queue' = [queue EXCEPT ![l] = {f \in @ : Before(e, f)}]
             /\ proc' = [proc EXCEPT ![l] = "awaiting"]
             /\ current' = [current EXCEPT ![l] = e]
             /\ task' = [task EXCEPT ![e] = "created"]

\* Mutant: the queue is emptied without cancelling the results.
MutDrained(l) == result

\* The results _drain_queued leaves after emptying the queue of lane l.
Drained(l) == [e \in Execs |-> IF e \in queue[l] /\ result[e] = "pending"
                               THEN "cancelled" ELSE result[e]]

\* The finally block of _process: leave _lanes if this lane is still there,
\* drain, finish.
ProcessorFinally(l) ==
    /\ lanes' = [s \in Sessions |-> IF lanes[s] = l THEN None ELSE lanes[s]]
    /\ queue' = [queue EXCEPT ![l] = {}]
    /\ proc' = [proc EXCEPT ![l] = "done"]
    /\ current' = [current EXCEPT ![l] = None]

\* The processor starts, or a put wakes it up in queue.get().
ProcessorTake(l) ==
    /\ proc[l] \in {"new", "waiting"}
    /\ Attached(l)
    /\ queue[l] # {}
    /\ TakeNext(l)
    /\ UNCHANGED <<lanes, scope, priority, sequence, key, interrupted,
                   cancelling, result, closed>>

\* Mutant: close_session leaves a processor alone that waits in queue.get().
MutProcessorCancelled(l) ==
    /\ proc[l] = "new"
    /\ ~Attached(l)
    /\ ProcessorFinally(l)
    /\ result' = Drained(l)
    /\ UNCHANGED <<scope, priority, sequence, key, interrupted, task,
                   cancelling, closed>>

\* The processor was cancelled before its first step or in queue.get().
ProcessorCancelled(l) ==
    /\ proc[l] \in {"new", "waiting"}
    /\ ~Attached(l)
    /\ ProcessorFinally(l)
    /\ result' = Drained(l)
    /\ UNCHANGED <<scope, priority, sequence, key, interrupted, task,
                   cancelling, closed>>

\* Mutant: the branch for CancelledError forgets the result.
MutSettledForgets(l) ==
    CASE task[current[l]] = "cancelled" -> "pending"
      [] task[current[l]] = "returned" -> "value"
      [] OTHER -> "error"

\* What the processor makes of the end of its operation's task.  A cancel that
\* reached the processor after the task had ended hides the value.
Settled(l) ==
    CASE interrupted[l] \/ task[current[l]] = "cancelled" -> "cancelled"
      [] ~interrupted[l] /\ task[current[l]] = "returned" -> "value"
      [] OTHER -> "error"

\* Mutant: a cancelled processor does not wait for its operation's task.
MutProcessorResume(l) ==
    /\ proc[l] = "awaiting"
    /\ TaskDone(current[l]) \/ ~Attached(l)
    /\ result' = [result EXCEPT ![current[l]] =
                     IF @ = "pending" THEN Settled(l) ELSE @]
    /\ interrupted' = [interrupted EXCEPT ![l] = FALSE]
    /\ \/ Attached(l) /\ TakeNext(l) /\ UNCHANGED lanes
       \/ ~Attached(l) /\ ProcessorFinally(l) /\ UNCHANGED task
    /\ UNCHANGED <<scope, priority, sequence, key, cancelling, closed>>

\* The processor wakes up after its operation's task: settle the result unless
\* the caller already cancelled it, then take the next item or return.
ProcessorResume(l) ==
    /\ proc[l] = "awaiting"
    /\ TaskDone(current[l])
    /\ result' = [result EXCEPT ![current[l]] =
                     IF @ = "pending" THEN Settled(l) ELSE @]
    /\ interrupted' = [interrupted EXCEPT ![l] = FALSE]
    /\ \/ Attached(l) /\ TakeNext(l) /\ UNCHANGED lanes
       \/ ~Attached(l) /\ ProcessorFinally(l) /\ UNCHANGED task
    /\ UNCHANGED <<scope, priority, sequence, key, cancelling, closed>>

-----------------------------------------------------------------------------
\* The operation's task runs its first step, unless it was cancelled before it:
\* then its body never runs.
StartTask(e) ==
    /\ task[e] = "created"
    /\ task' = [task EXCEPT ![e] = IF cancelling[e] THEN "cancelled" ELSE "running"]
    /\ cancelling' = [cancelling EXCEPT ![e] = FALSE]
    /\ UNCHANGED <<laneVars, result, closed>>

\* The operation ends; it may honour a cancel or swallow it.
EndTask(e, how) ==
    /\ task[e] = "running"
    /\ how = "cancelled" => cancelling[e]
    /\ task' = [task EXCEPT ![e] = how]
    /\ cancelling' = [cancelling EXCEPT ![e] = FALSE]
    /\ UNCHANGED <<laneVars, result, closed>>

\* cancel_handles finds e as the current item of an attached lane, still live.
IsCurrent(e) == \E s \in Sessions : /\ lanes[s] # None
                                    /\ current[lanes[s]] = e
                                    /\ TaskLive(e)

\* cancel_handles finds e among the queued items of an attached lane.
IsQueued(e) == \E s \in Sessions : lanes[s] # None /\ e \in queue[lanes[s]]

\* cancel_handles([e]) up to its wait: cancel the task of a current item, or the
\* result of a queued one.
CancelHandle(e, stateQueued) ==
    /\ cancelling' = [cancelling EXCEPT ![e] = @ \/ IsCurrent(e)]
    /\ result' = [result EXCEPT ![e] =
                     IF ~IsCurrent(e) /\ stateQueued /\ IsQueued(e) /\ @ = "pending"
                     THEN "cancelled" ELSE @]
    /\ UNCHANGED <<laneVars, task, closed>>

\* The task awaiting the result is cancelled: asyncio cancels the future.
CancelCaller(e) ==
    /\ result[e] = "pending"
    /\ result' = [result EXCEPT ![e] = "cancelled"]
    /\ UNCHANGED <<laneVars, task, cancelling, closed>>

\* Mutant: the cancel reaches a task only after its first step.
MutCloseLane(s, g) ==
    /\ lanes[s] # None
    /\ LET l == lanes[s]
           e == current[l]
           busy == proc[l] = "awaiting"
       IN  /\ scope[l].gen = g
           /\ lanes' = [lanes EXCEPT ![s] = None]
           /\ result' = Drained(l)
           /\ queue' = [queue EXCEPT ![l] = {}]
           /\ cancelling' = [f \in Execs |-> cancelling[f]
                                \/ (busy /\ f = e /\ task[f] = "running")]
           /\ interrupted' = [interrupted EXCEPT ![l] = busy /\ TaskDone(e)]
    /\ UNCHANGED <<scope, priority, sequence, key, proc, current, task, closed>>

\* close_session up to its wait: detach the lane, cancel what is queued, cancel
\* the processor.  A processor awaiting a live task passes the cancel on to it.
CloseLane(s, g) ==
    /\ lanes[s] # None
    /\ LET l == lanes[s]
           e == current[l]
           busy == proc[l] = "awaiting"
       IN  /\ scope[l].gen = g
           /\ lanes' = [lanes EXCEPT ![s] = None]
           /\ result' = Drained(l)
           /\ queue' = [queue EXCEPT ![l] = {}]
           /\ cancelling' = [f \in Execs |-> cancelling[f]
                                \/ (busy /\ f = e /\ TaskLive(f))]
           /\ interrupted' = [interrupted EXCEPT ![l] = busy /\ TaskDone(e)]
    /\ UNCHANGED <<scope, priority, sequence, key, proc, current, task, closed>>

\* close() refuses further submissions, then closes the lanes one by one.
CloseScheduler ==
    /\ ~closed
    /\ closed' = TRUE
    /\ UNCHANGED <<laneVars, task, cancelling, result>>

\* task.cancel() by others on the tasks of the executions in D: on a task that
\* awaits the result of an item not yet taken, and on an operation's task.
CancelTasks(D) ==
    /\ cancelling' = [e \in Execs |-> cancelling[e] \/ (e \in D /\ TaskLive(e))]
    /\ result' = [e \in Execs |->
                    IF e \in D /\ task[e] = "none" /\ result[e] = "pending"
                    THEN "cancelled" ELSE result[e]]
    /\ UNCHANGED <<laneVars, task, closed>>

Ends == Outcomes \cup {"cancelled"}

SchedNext ==
    \/ \E e \in Execs, s \in Sessions, g \in 1..MaxGen :
          SubmitAndWait(e, s, g) \/ SubmitRefused(e, s, g)
    \/ \E l \in Execs : ProcessorTake(l) \/ ProcessorCancelled(l) \/ ProcessorResume(l)
    \/ \E e \in Execs : StartTask(e) \/ CancelCaller(e)
    \/ \E e \in Execs, how \in Ends : EndTask(e, how)
    \/ \E e \in Execs, q \in BOOLEAN : CancelHandle(e, q)
    \/ \E D \in SUBSET Execs : CancelTasks(D)
    \/ \E s \in Sessions, g \in 1..MaxGen : CloseLane(s, g)
    \/ CloseScheduler

\* The loop runs every ready task, and operations end by themselves.
SchedFairness ==
    /\ \A l \in Execs : /\ WF_schedVars(ProcessorTake(l))
                        /\ WF_schedVars(ProcessorCancelled(l))
                        /\ WF_schedVars(ProcessorResume(l))
    /\ \A e \in Execs : /\ WF_schedVars(StartTask(e))
                        /\ WF_schedVars(\E how \in Ends : EndTask(e, how))

SchedSafety == SchedInit /\ [][SchedNext]_schedVars
SchedSpec == SchedSafety /\ SchedFairness

-----------------------------------------------------------------------------
\* Type invariant of the lane bookkeeping of SessionWorkScheduler.
SchedTypeOK ==
    /\ lanes \in [Sessions -> Execs \cup {None}]
    /\ scope \in [Execs -> Scopes]
    /\ queue \in [Execs -> SUBSET Execs]
    /\ priority \in [Execs -> Int]
    /\ sequence \in [Execs -> Nat]
    /\ key \in [Execs -> {0, 1} \X Int \X Nat]
    /\ proc \in [Execs -> ProcStates]
    /\ current \in [Execs -> Execs \cup {None}]
    /\ interrupted \in [Execs -> BOOLEAN]
    /\ task \in [Execs -> TaskStates]
    /\ cancelling \in [Execs -> BOOLEAN]
    /\ result \in [Execs -> ResultStates]
    /\ closed \in BOOLEAN

\* Whoever awaits a result in submit_and_wait is awaited for: the execution is
\* in the queue of an attached lane whose processor has not ended, or it is the
\* item whose task a processor awaits.  No close, cancel or exit of an old
\* processor leaves a pending result that nobody will settle.
ResultOwned ==
    \A e \in Execs : result[e] = "pending" =>
        \/ \E l \in Execs : /\ Attached(l) /\ proc[l] # "done"
                            /\ e \in queue[l]
        \/ \E l \in Execs : current[l] = e /\ proc[l] = "awaiting"

\* An operation's task that has not ended is awaited by the processor of one
\* lane: neither close_session nor the end of a processor orphans it.
TaskOwned ==
    \A e \in Execs : TaskLive(e) =>
        \E l \in Execs : current[l] = e /\ proc[l] = "awaiting"

\* The operation of an execution cancelled while it is queued never gets a task
\* (the comment in _cancel_queued: "makes the processor skip the item without
\* executing it").
CancelledNeverStarts ==
    [][\A e \in Execs : task[e] = "none" /\ result[e] = "cancelled"
                        => task'[e] = "none"]_schedVars

\* A lane starts the chat submitted last among those still waiting; it starts a
\* SESSION_MESSAGE only when no chat waits, and then the oldest one.
StartOrder ==
    [][\A l, e \in Execs :
          current'[l] = e /\ current[l] # e =>
          \A f \in (queue[l] \ {e}) :
             result[f] = "pending" =>
             IF e \in LatestFirst
             THEN f \in LatestFirst => key[f][3] < key[e][3]
             ELSE f \notin LatestFirst /\ key[e][3] < key[f][3]]_schedVars

\* Every pending result is settled, if operations end: a caller of
\* submit_and_wait is never left waiting.
PendingSettles ==
    \A e \in Execs : result[e] = "pending" ~> result[e] # "pending"

=============================================================================
