--------------------------- MODULE SessionMessages ---------------------------
(***************************************************************************)
(* The durable mailbox of one target Session: the SQLite store             *)
(* (SessionMessageStore) and the service that delivers from it             *)
(* (SessionMessageService), both under jiuwenswarm/server/runtime/session. *)
(*                                                                         *)
(* A message is delivered as a task of its own or as a steer, an input of  *)
(* the task that runs; each lane has at most one consumer.  rec is what    *)
(* SQLite keeps through a crash; everything else is the memory of one      *)
(* process.  The statuses succeeded, failed, cancelled and delivered are   *)
(* one here, "ended".  The Runtime that executes a message, the admission  *)
(* of the target and the decision that a steer must queue (plan mode, a    *)
(* running goal) are external.                                             *)
(***************************************************************************)
EXTENDS Naturals, FiniteSets

CONSTANTS
    MaxMessages, \* bound on the messages
    MaxTasks,    \* bound on the consumer tasks that exist at once
    MaxCalls,    \* bound on the callers between their write and their wakeup
    MaxFaults,   \* bound on crashes, stops, deletions, Gateway losses, repeated sends,
                 \* cancelled callers
    MaxLoad      \* bound on the messages and the faults together

ASSUME MailboxAssumption ==
    /\ MaxMessages \in Nat /\ MaxTasks \in Nat /\ MaxCalls \in Nat
    /\ MaxFaults \in Nat /\ MaxLoad \in Nat

VARIABLES
    rec,       \* the rows of session_messages: status, requested_input_mode, input_mode, released
    deletion,  \* how far the deletion of the target has come
    started,   \* _started
    stopping,  \* _stopping
    available, \* _available
    blocked,   \* the target is in _blocked_targets
    held,      \* the target is in _restart_held_targets
    lock,      \* the send that holds _target_state_lock, or NoSend
    calls,     \* the callers that have written and not yet called _ensure_worker
    late,      \* INSERTs whose sender is gone, by the mode it asked for
    worker,    \* _workers: the consumer of each lane, or 0
    fallbacks, \* _running_fallbacks
    task,      \* the consumer tasks
    admitted,  \* the consumer that holds the target's admission, or 0
    awaited,   \* the consumers begin_target_delete waits for
    air,       \* claims whose caller is gone but whose write is not done
    orphans,   \* history: messages claimed by such a write
    strays,    \* history: messages such an INSERT put into the queue of a deleted target
    unwoken,   \* history: a write was not followed by _ensure_worker, nor has been since
    early,     \* history: an aborted deletion may have begun consumers before start
    submits,   \* history: how often each message was given to the Runtime
    faults     \* history: faults so far

apart == <<calls, late, strays>>
memory == <<started, stopping, available, blocked, held, lock, worker, fallbacks, task,
            admitted, awaited, air>>
vars == <<rec, deletion, memory, apart, unwoken, orphans, early, submits, faults>>

\* A message is its sequence number; it stands for its idempotency key too.
Messages == 1..MaxMessages
None == 0

\* A send: of a new message, which gets its number when it is inserted, or again of
\* one that is known.
SendOf(kind, m, l) == [kind |-> kind, msg |-> m, asked |-> l]
NoSend == SendOf("no", None, "task")

Lane == {"task", "steer"}
Ids == 1..MaxTasks
Call == {"wake", "release"}
Row == [status : {"none", "queued", "running", "waiting", "unknown", "ended"},
        asked : Lane, lane : Lane, released : BOOLEAN]
NoRow == [status |-> "none", asked |-> "task", lane |-> "task", released |-> FALSE]
NoTask == [pc |-> "free", lane |-> "task", msg |-> None, claimed |-> FALSE,
           sent |-> FALSE, cancel |-> FALSE]

\* The service has started on an empty store and the Gateway is connected.
Init ==
    /\ rec = [m \in Messages |-> NoRow]
    /\ deletion = "no"
    /\ started = TRUE /\ stopping = FALSE /\ available = TRUE
    /\ blocked = FALSE /\ held = FALSE /\ lock = NoSend
    /\ worker = [l \in Lane |-> 0] /\ fallbacks = {}
    /\ task = [i \in Ids |-> NoTask]
    /\ admitted = 0 /\ awaited = {}
    /\ calls = [c \in Call |-> 0] /\ late = [l \in Lane |-> 0]
    /\ air = {} /\ orphans = {} /\ strays = {} /\ unwoken = FALSE /\ early = FALSE
    /\ submits = [m \in Messages |-> 0]
    /\ faults = 0

\* The rows that are still free, and the bounds on what happens in a behaviour.
Unsent == {m \in Messages : rec[m].status = "none"}
Load == faults + Cardinality(Messages \ Unsent) + late["task"] + late["steer"]
            + (IF lock.kind = "new" THEN 1 ELSE 0)
Fault == faults < MaxFaults /\ Load < MaxLoad /\ faults' = faults + 1

-----------------------------------------------------------------------------
(* The store *)

Has(r, l, s) == {m \in Messages : r[m].lane = l /\ r[m].status = s}
Queued == {m \in Messages : rec[m].status = "queued"}
Uncertain(r, l) == {m \in Has(r, l, "unknown") : ~r[m].released}

\* Mutant: an uncertain message does not hold its lane up.
MutBlockers(r, l) ==
    Has(r, l, "waiting") \cup (IF l = "task" THEN Has(r, l, "running") ELSE {})

\* What keeps next_queued from returning anything.
Blockers(r, l) ==
    Has(r, l, "waiting") \cup Uncertain(r, l)
        \cup (IF l = "task" THEN Has(r, l, "running") ELSE {})

\* ORDER BY sequence LIMIT 1.
First(Q) == CHOOSE m \in Q : \A n \in Q : m <= n

\* next_queued.
NextQueued(r, l) ==
    IF Blockers(r, l) # {} \/ Has(r, l, "queued") = {} THEN None ELSE First(Has(r, l, "queued"))

\* The rows after next_queued's defer_steering.
SteersDeferred ==
    IF Has(rec, "steer", "waiting") \cup Uncertain(rec, "steer") # {} THEN rec
    ELSE [m \in Messages |->
            IF m \in Has(rec, "steer", "queued") THEN [rec[m] EXCEPT !.lane = "task"] ELSE rec[m]]

\* transition_status: only from one of the expected statuses.
Transition(m, s, expected) ==
    rec' = [rec EXCEPT ![m].status = IF @ \in expected THEN s ELSE @]

-----------------------------------------------------------------------------
(* Consumers *)

\* Mutant: a restart does not hold the queue back.
MutMayStart == ~stopping' /\ ~blocked'

MayStart == ~stopping' /\ ~blocked' /\ ~held'

\* _ensure_delivery_worker, on a pair of workers and tasks.
EnsureLane(st, l) ==
    IF ~MayStart \/ st.w[l] # 0 THEN st
    ELSE LET i == CHOOSE k \in Ids : st.t[k].pc = "free" /\ \A n \in 1..(k-1) : st.t[n].pc # "free"
         IN  [w |-> [st.w EXCEPT ![l] = i],
              t |-> [st.t EXCEPT ![i] = [NoTask EXCEPT !.pc = "loop", !.lane = l]]]

\* MaxTasks leaves room for the consumer that is to begin.
Room(st, l) == MayStart /\ st.w[l] = 0 => \E k \in Ids : st.t[k].pc = "free"

\* _ensure_worker, beside a step that leaves the workers w and the tasks t.
EnsureWorker(w, t) ==
    LET one == EnsureLane([w |-> w, t |-> t], "task")
        both == EnsureLane(one, "steer")
    IN  /\ Room([w |-> w, t |-> t], "task") /\ Room(one, "steer")
        /\ worker' = both.w /\ task' = both.t
        /\ unwoken' = FALSE

\* The consumer goes round its loop.
Around(i) == [task EXCEPT ![i] = [NoTask EXCEPT !.pc = "loop", !.lane = task[i].lane,
                                                !.cancel = task[i].cancel]]

Continues(i) == task' = Around(i) /\ UNCHANGED <<worker, fallbacks>>

\* Mutant: the end of a consumer starts nothing.
MutRearmed(st, l) == st

\* _restart_worker_if_queued.
Rearmed(st, l) == IF NextQueued(rec', l) = None THEN st ELSE EnsureLane(st, l)

\* Mutant: the consumer stays registered.
MutDeregistered(i) == worker

\* _workers without a consumer that ended.
Deregistered(i) == [worker EXCEPT ![task[i].lane] = IF @ = i THEN 0 ELSE @]

\* The consumer returns, and its done callback _worker_finished runs; where that
\* looks at the queue again, the answer is there at once.
Leaves(i) ==
    LET l == task[i].lane
        st == Rearmed([w |-> Deregistered(i), t |-> [task EXCEPT ![i] = NoTask]], l)
    IN  /\ worker' = st.w /\ task' = st.t
        /\ fallbacks' = fallbacks \ {i}

\* A consumer that is no longer its lane's leaves.
ContinuesOrLeaves(i) == IF worker[task[i].lane] = i THEN Continues(i) ELSE Leaves(i)

At(i, pc) == task[i].pc = pc /\ ~task[i].cancel
Released(i) == IF admitted = i THEN 0 ELSE admitted

\* _defer_steering of a message that was not submitted: it joins the task lane.
Defer(i, m) ==
    /\ rec' = IF rec[m].lane = "steer" /\ rec[m].status \in {"queued", "running"}
              THEN [rec EXCEPT ![m].lane = "task", ![m].status = "queued"] ELSE rec
    /\ IF rec' # rec
       THEN EnsureWorker(worker, Around(i))
       ELSE task' = Around(i) /\ UNCHANGED <<worker, unwoken>>

\* The top of _consume_target: next_queued answers.  A steer is deferred or will be
\* claimed, a task first needs the target's admission.
Loop(i) ==
    /\ At(i, "loop")
    /\ stopping \/ blocked \/ available
    /\ UNCHANGED <<stopping, blocked, held>>
    /\ LET m == NextQueued(rec, task[i].lane)
           Goes(pc) == /\ task' = [task EXCEPT ![i].pc = pc, ![i].msg = m]
                       /\ UNCHANGED <<rec, worker, unwoken>>
       IN  \/ (stopping \/ blocked \/ m = None) /\ Goes("leave")
           \/ ~(stopping \/ blocked \/ m = None) /\ task[i].lane = "task" /\ Goes("admit")
           \/ /\ ~(stopping \/ blocked \/ m = None) /\ task[i].lane = "steer"
              /\ Goes("claim") \/ Defer(i, m)
    /\ UNCHANGED <<apart, deletion, started, available, lock, fallbacks, admitted, awaited, air,
                   orphans, early, submits, faults>>

\* Nothing to do: whatever was enqueued since, the consumer leaves.
Leave(i) ==
    /\ At(i, "leave")
    /\ UNCHANGED <<rec, stopping, blocked, held>>
    /\ Leaves(i)
    /\ UNCHANGED <<apart, unwoken, deletion, started, available, lock, admitted, awaited, air, orphans, early,
                   submits, faults>>

\* begin_session_message lets the task in, and the queue is read again with the
\* steers that must queue; or the target is being closed and the message fails.
Admit(i) ==
    /\ At(i, "admit")
    /\ UNCHANGED <<stopping, blocked, held>>
    /\ \/ /\ admitted = 0
          /\ \E deferred \in BOOLEAN : rec' = IF deferred THEN SteersDeferred ELSE rec
          /\ LET m == NextQueued(rec', "task")
             IN  IF m = None \/ ~available \/ stopping \/ blocked
                 THEN task' = Around(i) /\ UNCHANGED admitted
                 ELSE task' = [task EXCEPT ![i].pc = "claim", ![i].msg = m] /\ admitted' = i
          /\ UNCHANGED <<worker, fallbacks>>
       \/ /\ Transition(task[i].msg, "ended", {"queued"})
          /\ ContinuesOrLeaves(i)
          /\ UNCHANGED admitted
    /\ UNCHANGED <<apart, unwoken, deletion, started, available, lock, awaited, air, orphans, early, submits,
                   faults>>

\* The condition of claim's UPDATE.
Claimable(m, l) == rec[m].status = "queued" /\ rec[m].lane = l

Claim(i) ==
    /\ At(i, "claim")
    /\ LET m == task[i].msg
       IN  IF Claimable(m, task[i].lane)
           THEN /\ rec' = [rec EXCEPT ![m].status = "running"]
                /\ task' = [task EXCEPT ![i].pc = "exec", ![i].claimed = TRUE]
                /\ UNCHANGED admitted
           ELSE task' = Around(i) /\ admitted' = Released(i) /\ UNCHANGED rec
    /\ UNCHANGED <<apart, unwoken, deletion, started, stopping, available, blocked, held, lock, worker,
                   fallbacks, awaited, air, orphans, early, submits, faults>>

-----------------------------------------------------------------------------
(* Execution *)

\* The Runtime takes the message.
Submit(i) ==
    /\ At(i, "exec") /\ ~task[i].sent
    /\ task' = [task EXCEPT ![i].sent = TRUE]
    /\ submits' = [submits EXCEPT ![task[i].msg] = @ + 1]
    /\ UNCHANGED <<apart, unwoken, rec, deletion, started, stopping, available, blocked, held, lock, worker,
                   fallbacks, admitted, awaited, air, orphans, early, faults>>

\* Mutant: a refusal is believed even after the message was submitted.
MutRefusable(i) == task[i].lane = "steer"

\* The Runtime refuses a steer before it takes it.
Refusable(i) == task[i].lane = "steer" /\ ~task[i].sent

Refuse(i) ==
    /\ At(i, "exec") /\ Refusable(i)
    /\ UNCHANGED <<stopping, blocked, held>>
    /\ Defer(i, task[i].msg)
    /\ UNCHANGED <<apart, deletion, started, available, lock, fallbacks, admitted, awaited, air,
                   orphans, early, submits, faults>>

\* on_steering_fallback_started: the target was idle and the steer became its
\* task; the next steer gets a consumer of its own.
Fallback(i) ==
    /\ At(i, "exec") /\ task[i].sent /\ task[i].lane = "steer" /\ worker["steer"] = i
    /\ UNCHANGED <<stopping, blocked, held>>
    /\ fallbacks' = fallbacks \cup {i}
    /\ LET st == [w |-> [worker EXCEPT !["steer"] = 0], t |-> task]
       IN  /\ Room(st, "steer")
           /\ worker' = EnsureLane(st, "steer").w /\ task' = EnsureLane(st, "steer").t
    /\ UNCHANGED <<apart, unwoken, rec, deletion, started, available, lock, admitted, awaited,
                   air, orphans, early, submits, faults>>

\* mark_waiting: the execution asks the user something.
MarkWaiting(i) ==
    /\ At(i, "exec") /\ task[i].sent
    /\ task[i].lane = "task" \/ i \in fallbacks
    /\ rec[task[i].msg].status = "running"
    /\ Transition(task[i].msg, "waiting", {"running"})
    /\ UNCHANGED <<apart, unwoken, deletion, memory, orphans, early, submits, faults>>

\* The outcome is written: an end, a question, or unknown (an error, the
\* watchdog).  A consumer that is no longer its lane's leaves.
Settle(i) ==
    /\ At(i, "exec")
    /\ UNCHANGED <<stopping, blocked, held>>
    /\ \/ Transition(task[i].msg, "unknown", {"running", "waiting"})
       \/ task[i].sent /\ Transition(task[i].msg, "ended", {"running", "waiting"})
       \/ task[i].lane = "task" /\ ~task[i].sent
            /\ Transition(task[i].msg, "ended", {"running", "waiting"})
       \/ /\ task[i].sent /\ (task[i].lane = "task" \/ i \in fallbacks)
          /\ Transition(task[i].msg, "waiting", {"running"})
    /\ ContinuesOrLeaves(i)
    /\ admitted' = Released(i)
    /\ UNCHANGED <<apart, unwoken, deletion, started, available, lock, awaited, air, orphans, early, submits,
                   faults>>

\* Mutant: a cancelled consumer leaves its message as it is.
MutInterrupted(i) == UNCHANGED rec

\* The outcome of a message whose consumer is cancelled is not known.
Interrupted(i) ==
    IF task[i].claimed
    THEN Transition(task[i].msg, "unknown", {"running", "waiting"})
    ELSE UNCHANGED rec

\* CancelledError in the consumer.  The thread that writes a claim is not
\* cancelled with it.
Cancelled(i) ==
    /\ task[i].cancel
    /\ UNCHANGED <<stopping, blocked, held>>
    /\ Interrupted(i)
    /\ Leaves(i)
    /\ admitted' = Released(i)
    /\ \/ UNCHANGED air
       \/ task[i].pc = "claim" /\ air' = air \cup {<<task[i].msg, task[i].lane>>}
    /\ UNCHANGED <<apart, unwoken, deletion, started, available, lock, awaited, orphans, early, submits, faults>>

\* That write is done.
LateClaim(c) ==
    /\ c \in air
    /\ air' = air \ {c}
    /\ IF Claimable(c[1], c[2])
       THEN /\ rec' = [rec EXCEPT ![c[1]].status = "running"]
            /\ orphans' = orphans \cup {c[1]}
       ELSE UNCHANGED <<rec, orphans>>
    /\ UNCHANGED <<apart, unwoken, deletion, started, stopping, available, blocked, held, lock, worker,
                   fallbacks, task, admitted, awaited, early, submits, faults>>

-----------------------------------------------------------------------------
(* Senders and users *)

\* The target's metadata is there.
Present == deletion \in {"no", "accepted", "stopping", "stopped"}

\* send_message takes _target_state_lock and finds the target accepting.  The
\* message is new, or its sender did not hear of it and sends it again.
Send(l) ==
    /\ started /\ lock = NoSend /\ ~blocked /\ Present
    /\ \/ Load < MaxLoad /\ Unsent # {} /\ lock' = SendOf("new", None, l) /\ UNCHANGED faults
       \/ \E m \in Messages \ Unsent : lock' = SendOf("again", m, l) /\ Fault
    /\ UNCHANGED <<apart, unwoken, rec, deletion, started, stopping, available, blocked, held,
                   worker, fallbacks, task, admitted, awaited, air, orphans, early, submits>>

\* The row of a new message, in the lane that it asked for or, where a steer must
\* queue, in the task lane.
Insert(asked) ==
    \E l \in {"task", asked} :
        rec' = [rec EXCEPT ![First(Unsent)] =
                   [status |-> "queued", asked |-> asked, lane |-> l, released |-> FALSE]]

\* enqueue, the release of the lock and _ensure_worker.  A send is refused when there
\* is no room for its row, or when its key is known with other arguments.
Enqueue ==
    /\ lock # NoSend
    /\ lock' = NoSend
    /\ UNCHANGED <<stopping, blocked, held>>
    /\ \/ /\ lock.kind = "new" /\ Unsent # {}
          /\ Insert(lock.asked)
          /\ EnsureWorker(worker, task)
       \/ /\ lock.kind = "again" /\ rec[lock.msg].asked = lock.asked
          /\ EnsureWorker(worker, task) /\ UNCHANGED rec
       \/ /\ \/ lock.kind = "new" /\ Unsent = {}
             \/ lock.kind = "again" /\ rec[lock.msg].asked # lock.asked
          /\ UNCHANGED <<rec, worker, task, unwoken>>
    /\ UNCHANGED <<apart, deletion, started, available, fallbacks, admitted, awaited, air,
                   orphans, early, submits, faults>>

\* The sender is cancelled and leaves the lock: before its write, or during it, and
\* then the write goes on in its thread.
CancelSend ==
    /\ lock # NoSend /\ Fault
    /\ lock' = NoSend
    /\ \/ UNCHANGED late
       \/ lock.kind = "new" /\ late' = [late EXCEPT ![lock.asked] = @ + 1]
    /\ UNCHANGED <<calls, strays, unwoken, rec, deletion, started, stopping, available, blocked,
                   held, worker, fallbacks, task, admitted, awaited, air, orphans, early, submits>>

\* The write of such a sender is done; nobody calls _ensure_worker.
LateEnqueue(l) ==
    /\ late[l] > 0
    /\ late' = [late EXCEPT ![l] = @ - 1]
    /\ IF Unsent = {} THEN UNCHANGED <<rec, strays, unwoken>>
       ELSE /\ Insert(l)
            /\ strays' = IF deletion = "deleted" THEN strays \cup {First(Unsent)} ELSE strays
            /\ unwoken' = TRUE
    /\ UNCHANGED <<calls, deletion, memory, orphans, early, submits, faults>>

\* A call that changes rows and then wakes the consumers has made its write: it awaits
\* the thread, and _notify, before it goes on.
Writes(c) ==
    /\ calls["wake"] + calls["release"] < MaxCalls
    /\ calls' = [calls EXCEPT ![c] = @ + 1]
    /\ UNCHANGED <<late, strays, unwoken, deletion, memory, orphans, early, submits, faults>>

\* resolve_unknown: the user knows the outcome, or lets the queue go on (once:
\* what is released can be released again, to no effect on the rows).
ResolveUnknown(m) ==
    /\ started /\ rec[m].status = "unknown"
    /\ \/ rec' = [rec EXCEPT ![m].status = "ended"]
       \/ ~rec[m].released /\ rec' = [rec EXCEPT ![m].released = TRUE]
    /\ Writes("release")

\* continue_queued_for_target, where there is something to release.
ContinueQueued ==
    /\ started /\ ~blocked /\ Present
    /\ held \/ \E l \in Lane : Uncertain(rec, l) # {} /\ Has(rec, l, "queued") # {}
    /\ rec' = [m \in Messages |->
                 IF m \in Uncertain(rec, rec[m].lane) /\ Has(rec, rec[m].lane, "queued") # {}
                 THEN [rec[m] EXCEPT !.released = TRUE] ELSE rec[m]]
    /\ Writes("release")

\* finalize_waiting_message: the answered execution ended, or cannot be known.  The
\* answer was related to its message by this process (find_waiting_for_pause).
Finalize(m) ==
    /\ started \/ stopping
    /\ rec[m].status = "waiting"
    /\ \E s \in {"ended", "unknown"} : Transition(m, s, {"waiting"})
    /\ Writes("wake")

\* supersede_waiting_for_target: the user began a turn of his own.
Supersede ==
    /\ started /\ Has(rec, "task", "waiting") \cup Has(rec, "steer", "waiting") # {}
    /\ rec' = [m \in Messages |->
                 IF rec[m].status = "waiting" THEN [rec[m] EXCEPT !.status = "ended"] ELSE rec[m]]
    /\ Writes("wake")

\* The call goes on: what a restart held back is let go by a release, and
\* _ensure_worker.
Wake(c) ==
    /\ calls[c] > 0
    /\ calls' = [calls EXCEPT ![c] = @ - 1]
    /\ held' = IF c = "release" THEN FALSE ELSE held
    /\ UNCHANGED <<stopping, blocked>>
    /\ EnsureWorker(worker, task)
    /\ UNCHANGED <<late, strays, rec, deletion, started, available, lock, fallbacks, admitted,
                   awaited, air, orphans, early, submits, faults>>

\* The call is cancelled first.
CallerGone(c) ==
    /\ calls[c] > 0 /\ Fault
    /\ calls' = [calls EXCEPT ![c] = @ - 1]
    /\ unwoken' = TRUE
    /\ UNCHANGED <<late, strays, rec, deletion, memory, orphans, early, submits>>

-----------------------------------------------------------------------------
(* The life of the service *)

\* recover_inflight_as_unknown.
Recovered ==
    [m \in Messages |-> IF rec[m].status \in {"running", "waiting"}
                        THEN [rec[m] EXCEPT !.status = "unknown"] ELSE rec[m]]

\* start, which every operation calls first.
Start ==
    /\ ~started
    /\ started' = TRUE /\ stopping' = FALSE
    /\ rec' = Recovered
    /\ held' = (held \/ Queued # {})
    /\ orphans' = {} /\ unwoken' = FALSE
    /\ UNCHANGED <<apart, deletion, available, blocked, lock, worker, fallbacks, task, admitted,
                   awaited, air, early, submits, faults>>

\* set_available: the Gateway connects, or is gone.
GatewayUp ==
    /\ ~available
    /\ available' = TRUE
    /\ UNCHANGED <<stopping, blocked, held>>
    /\ IF started /\ Queued # {} THEN EnsureWorker(worker, task) ELSE UNCHANGED <<worker, task, unwoken>>
    /\ UNCHANGED <<apart, rec, deletion, started, lock, fallbacks, admitted, awaited,
                   air, orphans, early, submits, faults>>

GatewayDown ==
    /\ available /\ Fault
    /\ available' = FALSE
    /\ UNCHANGED <<apart, unwoken, rec, deletion, started, stopping, blocked, held, lock, worker, fallbacks,
                   task, admitted, awaited, air, orphans, early, submits>>

\* task.cancel() for those of a set of consumers that are not done.
CancelTasks(T) ==
    task' = [i \in Ids |-> IF i \in T /\ task[i].pc # "free"
                           THEN [task[i] EXCEPT !.cancel = TRUE] ELSE task[i]]

Consumers == ({worker[l] : l \in Lane} \ {0}) \cup fallbacks

\* stop: no new consumers, and the present ones are cancelled.
Stop ==
    /\ started /\ ~stopping /\ Fault
    /\ stopping' = TRUE
    /\ CancelTasks(Consumers)
    /\ worker' = [l \in Lane |-> 0] /\ fallbacks' = {}
    /\ UNCHANGED <<apart, unwoken, rec, deletion, started, available, blocked, held, lock, admitted,
                   awaited, air, orphans, early, submits>>

Stopped ==
    /\ started /\ stopping
    /\ \A i \in Ids : task[i].pc = "free"
    /\ started' = FALSE /\ held' = FALSE /\ early' = FALSE
    /\ UNCHANGED <<apart, unwoken, rec, deletion, stopping, available, blocked, lock, worker, fallbacks,
                   task, admitted, awaited, air, orphans, submits, faults>>

\* The process dies; the store and the lifecycle record of a deletion stay.
Crash ==
    /\ Fault
    /\ started' = FALSE /\ stopping' = FALSE /\ available' = FALSE
    /\ blocked' = FALSE /\ held' = FALSE /\ lock' = NoSend
    /\ worker' = [l \in Lane |-> 0] /\ fallbacks' = {}
    /\ task' = [i \in Ids |-> NoTask]
    /\ calls' = [c \in Call |-> 0] /\ late' = [l \in Lane |-> 0] /\ unwoken' = FALSE
    /\ admitted' = 0 /\ awaited' = {} /\ air' = {} /\ early' = FALSE
    /\ deletion' = CASE deletion \in {"stopping", "stopped"} -> "accepted"
                      [] deletion \in {"clearing", "cleared"} -> "removed"
                      [] OTHER -> deletion
    /\ UNCHANGED <<rec, orphans, strays, submits>>

-----------------------------------------------------------------------------
(* Deletion of the target, driven by session_archive.py *)

\* The deletion is accepted: block_target_delete.
AcceptDelete ==
    /\ deletion = "no" /\ Fault
    /\ deletion' = "accepted" /\ blocked' = TRUE
    /\ UNCHANGED <<apart, unwoken, rec, started, stopping, available, held, lock, worker, fallbacks, task,
                   admitted, awaited, air, orphans, early, submits>>

\* Mutant: a send under way is not waited for.
MutLockFree == TRUE

LockFree == lock = NoSend

\* begin_target_delete, before the Session's resources go and again in
\* on_target_deleted: past a send under way, the consumers are cancelled.
BeginDelete ==
    /\ deletion \in {"accepted", "removed"} /\ LockFree
    /\ deletion = "removed" => started
    /\ deletion' = IF deletion = "accepted" THEN "stopping" ELSE "clearing"
    /\ blocked' = TRUE
    /\ awaited' = Consumers
    /\ CancelTasks(Consumers)
    /\ UNCHANGED <<apart, unwoken, rec, started, stopping, available, held, lock, worker, fallbacks,
                   admitted, air, orphans, early, submits, faults>>

ConsumersStopped ==
    /\ deletion \in {"stopping", "clearing"}
    /\ \A i \in awaited : task[i].pc = "free"
    /\ deletion' = IF deletion = "stopping" THEN "stopped" ELSE "cleared"
    /\ awaited' = {}
    /\ UNCHANGED <<apart, unwoken, rec, started, stopping, available, blocked, held, lock, worker,
                   fallbacks, task, admitted, air, orphans, early, submits, faults>>

\* The Session's Runtime is stopped and its directory removed.
RemoveTarget ==
    /\ deletion = "stopped"
    /\ deletion' = "removed"
    /\ UNCHANGED <<apart, unwoken, rec, memory, orphans, early, submits, faults>>

\* The rest of on_target_deleted: cancel_pending_for_target, then the barrier
\* falls.
TargetDeleted ==
    /\ deletion = "cleared"
    /\ rec' = [m \in Messages |-> IF rec[m].status = "none" THEN rec[m]
                                  ELSE [rec[m] EXCEPT !.status = "ended"]]
    /\ deletion' = "deleted" /\ blocked' = FALSE
    /\ UNCHANGED <<apart, unwoken, started, stopping, available, held, lock, worker, fallbacks, task,
                   admitted, awaited, air, orphans, early, submits, faults>>

\* The deletion is given up: abort_target_delete, which does not call start.
AbortDelete ==
    /\ deletion \in {"accepted", "stopping", "stopped"} /\ lock = NoSend
    /\ deletion' = "no" /\ blocked' = FALSE /\ awaited' = {}
    /\ UNCHANGED <<stopping, held>>
    /\ EnsureWorker(worker, task)
    /\ early' = (early \/ ~started)
    /\ UNCHANGED <<apart, rec, started, available, lock, fallbacks, admitted, air,
                   orphans, submits, faults>>

-----------------------------------------------------------------------------
ConsumerStep(i) ==
    \/ Loop(i) \/ Leave(i) \/ Admit(i) \/ Claim(i)
    \/ Submit(i) \/ Refuse(i) \/ Fallback(i) \/ MarkWaiting(i) \/ Settle(i)
    \/ Cancelled(i)

SenderStep == (\E l \in Lane : Send(l) \/ LateEnqueue(l)) \/ Enqueue \/ CancelSend

UserStep ==
    \/ \E m \in Messages : ResolveUnknown(m) \/ Finalize(m)
    \/ ContinueQueued \/ Supersede
    \/ \E c \in Call : Wake(c) \/ CallerGone(c)

LifeStep ==
    \/ Start \/ GatewayUp \/ GatewayDown \/ Stop \/ Stopped \/ Crash
    \/ AcceptDelete \/ BeginDelete \/ ConsumersStopped \/ RemoveTarget
    \/ TargetDeleted \/ AbortDelete

Next ==
    \/ \E i \in Ids : ConsumerStep(i)
    \/ \E c \in air : LateClaim(c)
    \/ SenderStep \/ UserStep \/ LifeStep

Safety == Init /\ [][Next]_vars

-----------------------------------------------------------------------------
\* Type invariant; what _workers and _running_fallbacks name is alive, and MaxTasks
\* consumers are enough.
TypeOK ==
    /\ rec \in [Messages -> Row]
    /\ deletion \in {"no", "accepted", "stopping", "stopped", "removed", "clearing", "cleared",
                     "deleted"}
    /\ started \in BOOLEAN /\ stopping \in BOOLEAN /\ available \in BOOLEAN
    /\ blocked \in BOOLEAN /\ held \in BOOLEAN
    /\ lock \in [kind : {"no", "new", "again"}, msg : Messages \cup {None}, asked : Lane]
    /\ calls \in [Call -> 0..MaxCalls] /\ late \in [Lane -> Nat]
    /\ worker \in [Lane -> Ids \cup {0}] /\ fallbacks \subseteq Ids
    /\ \A i \in Consumers : task[i].pc # "free"
    /\ task \in [Ids -> [pc : {"free", "loop", "leave", "admit", "claim", "exec"},
                         lane : Lane, msg : Messages \cup {None}, claimed : BOOLEAN,
                         sent : BOOLEAN, cancel : BOOLEAN]]
    /\ admitted \in Ids \cup {0} /\ awaited \subseteq Ids
    /\ air \subseteq Messages \X Lane /\ orphans \subseteq Messages /\ strays \subseteq Messages
    /\ unwoken \in BOOLEAN /\ early \in BOOLEAN
    /\ submits \in [Messages -> Nat] /\ faults \in 0..MaxFaults

\* A message is given to the Runtime at most once, whatever is cancelled, refused,
\* deferred, retried by its sender, or lost in a crash: "an uncertain delivery must
\* never take this automatic path" (session_message_service.py:1181).
AtMostOnce == \A m \in Messages : submits[m] <= 1

\* A running message has a consumer that works on it, or waits for start() to
\* quarantine it.  The exception is a message whose claim was written after its
\* consumer was cancelled.
RunningIsOwned ==
    \A m \in Messages : rec[m].status = "running" =>
        \/ \E i \in Ids : task[i].claimed /\ task[i].msg = m /\ task[i].pc = "exec"
        \/ ~started
        \/ m \in orphans

\* The target of a completed deletion has no message left that is queued, running,
\* waiting or unknown, not even one whose send raced with the deletion: begin_target_delete
\* waits for "an in-flight enqueue" (session_message_service.py:914).  The exception is
\* a message that was inserted when the deletion was over, by the thread of a sender
\* that had been cancelled.
DeletedIsEmpty ==
    deletion = "deleted" => \A m \in Messages \ strays : rec[m].status \in {"none", "ended"}

\* A consumer takes a task only while no other task of the target runs, waits for the
\* user, or ended in an unknown way that nobody has looked at; and messages sent as
\* tasks are taken in the order they were accepted in.  (Late claims and consumers
\* begun before start() excepted from the first.)
TasksInTurn ==
    [][\A i \in Ids : task[i].pc = "claim" /\ task'[i].pc = "exec" =>
          /\ task[i].lane = "task" =>
               \/ \A m \in Messages \ orphans : rec[m].lane = "task" =>
                      rec[m].status \in {"none", "queued", "ended"} \/ rec[m].released
               \/ early
          /\ rec[task[i].msg].asked = "task" =>
               \A m \in 1..(task[i].msg - 1) :
                   rec[m].asked = "task" => rec[m].status # "queued"]_vars

\* After a restart nothing is delivered until a user lets the queue go on.  The exception
\* is a restart in which an aborted deletion began the consumers before start() did.
HeldStaysBack ==
    [][\A m \in Messages : submits'[m] # submits[m] => ~held \/ early]_vars

\* No wakeup is lost: "Close the enqueue/worker-exit race without polling idle targets"
\* (session_message_service.py:1045).  When next_queued has a message for a lane, the
\* lane has a consumer, or delivery is held up for the whole target, or a caller is
\* about to begin the consumer.  The exception is a caller that was cancelled between
\* its write and its wakeup, until somebody else wakes the consumers.
QueueIsServed ==
    \A l \in Lane : NextQueued(rec, l) # None =>
        \/ worker[l] # 0
        \/ ~started \/ stopping \/ blocked \/ held
        \/ \E c \in Call : calls[c] > 0
        \/ unwoken
=============================================================================
