----------------------- MODULE SessionExecutionRegistry -----------------------
(***************************************************************************)
(* The bounded registry of executions in jiuwenswarm/runtime/session/     *)
(* execution_registry.py (class SessionExecutionRegistry): two indexes     *)
(* over the live executions and a history of the ended ones that is cut    *)
(* by age and by length.                                                   *)
(*                                                                         *)
(* The registry is called by the coordinator on one event loop, so every   *)
(* method is one step.  handle.task is assigned by the coordinator and the *)
(* scheduler; it is modelled from how they use it.                         *)
(***************************************************************************)
EXTENDS Integers, Sequences, FiniteSets

CONSTANTS
    Sessions,  \* session ids
    Requests,  \* request ids
    Execs,     \* execution ids, each registered at most once
    Capacity,  \* terminal_capacity
    TTL,       \* terminal_ttl, in ticks
    MaxTime    \* bound on the clock

ASSUME RegistryAssumption ==
    /\ Capacity \in Nat
    /\ TTL \in Nat
    /\ MaxTime \in Nat

VARIABLES
    executions,  \* the keys of _executions
    bySession,   \* _by_session, an absent key being the empty set
    byRequest,   \* _by_request, likewise
    history,     \* _terminal
    where,       \* execution -> the session and request of its handle
    status,      \* execution -> the state of its handle
    retain,      \* execution -> handle.retain_owner_task
    owner,       \* execution -> handle.task: none, a live task or a done one
    attached,    \* execution -> who has set handle.task (history of the model)
    finished,    \* execution -> handle.finished_at
    now          \* time.monotonic()

vars == <<executions, bySession, byRequest, history, where, status, retain,
          owner, attached, finished, now>>

Places == [sess : Sessions, req : Requests]
ActiveStates == {"queued", "running", "waiting"}
Statuses == ActiveStates \cup {"unknown", "ended"}
OwnerStates == {"none", "live", "done"}
\* Nobody, the caller of register, or the lane's processor while the execution was
\* active or only after it had ended.
Attachers == {"no", "own", "lane", "late"}
Active(e) == status[e] \in ActiveStates

Init ==
    /\ executions = {}
    /\ bySession = [s \in Sessions |-> {}]
    /\ byRequest = [p \in Places |-> {}]
    /\ history = <<>>
    /\ where \in [Execs -> Places]
    /\ status = [e \in Execs |-> "unknown"]
    /\ retain \in [Execs -> BOOLEAN]
    /\ owner = [e \in Execs |-> "none"]
    /\ attached = [e \in Execs |-> "no"]
    /\ finished = [e \in Execs |-> 0]
    /\ now = 0

-----------------------------------------------------------------------------
\* The handle is terminal and its task is not a live one.
Removable(e) == e \in executions /\ status'[e] = "ended" /\ owner'[e] # "live"

\* Mutant: the capacity is off by one.
MutStaysBelow(h, i) ==
    /\ h[i] \in executions
    /\ now - finished'[h[i]] <= TTL
    /\ Len(h) - i + 1 < Capacity

\* The i-th entry of h stops the loop of _evict_terminal once those before it
\* are gone: its handle is there, not too old, and the rest fits the capacity.
Stays(h, i) ==
    /\ h[i] \in executions
    /\ \A j \in 1..(i - 1) : h[j] = h[i] => ~Removable(h[j])
    /\ now - finished'[h[i]] <= TTL
    /\ Len(h) - i + 1 <= Capacity

\* _evict_terminal on the history h, with _remove of the handles it drops.  It
\* runs inside the other methods; register goes on to add the handle in new.
EvictTerminal(h, new) ==
    \E k \in 0..Len(h) :
        /\ k < Len(h) => Stays(h, k + 1)
        /\ \A i \in 1..k : ~Stays(h, i)
        /\ LET gone == {e \in {h[i] : i \in 1..k} : Removable(e)}
           IN  /\ history' = SubSeq(h, k + 1, Len(h))
               /\ executions' = (executions \ gone) \cup new
               /\ bySession' = [s \in Sessions |->
                      (bySession[s] \ {e \in gone : where[e].sess = s})
                      \cup {e \in new : where[e].sess = s}]
               /\ byRequest' = [p \in Places |->
                      (byRequest[p] \ {e \in gone : where[e] = p})
                      \cup {e \in new : where[e] = p}]

\* get, select and active evict before they look.
Lookup ==
    /\ UNCHANGED <<where, status, retain, owner, attached, finished, now>>
    /\ EvictTerminal(history, {})

\* register, for a caller that keeps its task in the handle or not.
Register(e, task) ==
    /\ status[e] = "unknown"
    /\ retain[e] => task = "live"
    /\ status' = [status EXCEPT ![e] = "queued"]
    /\ owner' = [owner EXCEPT ![e] = task]
    /\ attached' = [attached EXCEPT ![e] = IF task = "live" THEN "own" ELSE "no"]
    /\ UNCHANGED <<where, retain, finished, now>>
    /\ EvictTerminal(history, {e})

\* mark_running.
MarkRunning(e) ==
    /\ status[e] = "queued"
    /\ status' = [status EXCEPT ![e] = "running"]
    /\ UNCHANGED <<executions, bySession, byRequest, history, where, retain,
                   owner, attached, finished, now>>

\* mark_waiting drops the task unless its owner stays to wait.
MarkWaiting(e) ==
    /\ Active(e)
    /\ status' = [status EXCEPT ![e] = "waiting"]
    /\ owner' = [owner EXCEPT ![e] = IF retain[e] THEN @ ELSE "none"]
    /\ UNCHANGED <<executions, bySession, byRequest, history, where, retain,
                   attached, finished, now>>

\* resume_waiting.
ResumeWaiting(e) ==
    /\ status[e] = "waiting"
    /\ status' = [status EXCEPT ![e] = "running"]
    /\ UNCHANGED <<executions, bySession, byRequest, history, where, retain,
                   owner, attached, finished, now>>

\* Mutant: mark_terminal appends although a live task owns the handle.
MutJoined(e) == Append(history, e)

\* The history after e has joined it, unless a live task still owns it.
Joined(e) == IF owner'[e] = "live" THEN history ELSE Append(history, e)

\* mark_terminal of a handle that is not terminal yet: it joins the history
\* now, or when its owner task is released.
MarkTerminal(e) ==
    /\ Active(e)
    /\ status' = [status EXCEPT ![e] = "ended"]
    /\ finished' = [finished EXCEPT ![e] = now]
    /\ owner' = [owner EXCEPT ![e] = IF retain[e] THEN @ ELSE "none"]
    /\ UNCHANGED <<where, retain, attached, now>>
    /\ EvictTerminal(Joined(e), {})

\* release_owner_task, the done-callback of a retained owner task.
ReleaseOwnerTask(e) ==
    /\ retain[e]
    /\ owner[e] = "done"
    /\ owner' = [owner EXCEPT ![e] = "none"]
    /\ UNCHANGED <<where, status, retain, attached, finished, now>>
    /\ IF status[e] = "ended" THEN EvictTerminal(Joined(e), {})
       ELSE UNCHANGED <<executions, bySession, byRequest, history>>

\* The lane's processor begins the execution and sets handle.task, once, without
\* looking at the handle: the execution may have ended (cancelled before its work
\* was submitted) and may even be gone.  A retained owner is never scheduled.
AttachTask(e) ==
    /\ status[e] # "unknown"
    /\ ~retain[e]
    /\ attached[e] = "no"
    /\ owner' = [owner EXCEPT ![e] = "live"]
    /\ attached' = [attached EXCEPT ![e] = IF Active(e) THEN "lane" ELSE "late"]
    /\ UNCHANGED <<executions, bySession, byRequest, history, where, status,
                   retain, finished, now>>

\* The task in handle.task ends.  A retained owner awaits the terminal event
\* first, and marks the handle itself when it is cancelled (_run_unary).
TaskEnds(e) ==
    /\ owner[e] = "live"
    /\ IF retain[e] THEN status[e] = "ended" ELSE attached[e] # "own"
    /\ owner' = [owner EXCEPT ![e] = "done"]
    /\ UNCHANGED <<executions, bySession, byRequest, history, where, status,
                   retain, attached, finished, now>>

\* handle.task = None in the finally of the processor, whose task is done, or of
\* the caller that runs unscheduled work in its own task.
DropTask(e) ==
    /\ ~retain[e]
    /\ owner[e] = "done" \/ (owner[e] = "live" /\ attached[e] = "own")
    /\ owner' = [owner EXCEPT ![e] = "none"]
    /\ UNCHANGED <<executions, bySession, byRequest, history, where, status,
                   retain, attached, finished, now>>

\* Time passes.
Tick ==
    /\ now < MaxTime
    /\ now' = now + 1
    /\ UNCHANGED <<executions, bySession, byRequest, history, where, status,
                   retain, owner, attached, finished>>

Next ==
    \/ Lookup
    \/ Tick
    \/ \E e \in Execs : \/ \E task \in {"none", "live"} : Register(e, task)
                        \/ MarkRunning(e)
                        \/ MarkWaiting(e)
                        \/ ResumeWaiting(e)
                        \/ MarkTerminal(e)
                        \/ ReleaseOwnerTask(e)
                        \/ AttachTask(e)
                        \/ TaskEnds(e)
                        \/ DropTask(e)

Spec == Init /\ [][Next]_vars

-----------------------------------------------------------------------------
\* Type invariant of the registry.
TypeOK ==
    /\ executions \subseteq Execs
    /\ bySession \in [Sessions -> SUBSET Execs]
    /\ byRequest \in [Places -> SUBSET Execs]
    /\ history \in Seq(Execs)
    /\ where \in [Execs -> Places]
    /\ status \in [Execs -> Statuses]
    /\ retain \in [Execs -> BOOLEAN]
    /\ owner \in [Execs -> OwnerStates]
    /\ attached \in [Execs -> Attachers]
    /\ finished \in [Execs -> Nat]
    /\ now \in Nat

\* The indexes hold exactly the registered executions, after every eviction:
\* select by session or by request misses none and names none that is gone.
IndexesAgree ==
    /\ \A s \in Sessions : bySession[s] = {e \in executions : where[e].sess = s}
    /\ \A p \in Places : byRequest[p] = {e \in executions : where[e] = p}

\* An execution whose task was attached after it had ended: the one kind of
\* handle that eviction can lose sight of.
Late(e) == attached[e] = "late"

\* An execution stays findable while it is active and while a live task owns it,
\* unless the task came too late: eviction hides none that cancel or
\* close_session could still reach.
OwnedIsFindable ==
    \A e \in Execs : Active(e) \/ (owner[e] = "live" /\ ~Late(e)) => e \in executions

\* An ended execution that is still registered is in the history, or its owner
\* task will put it there: only one with a late task, which eviction drops from
\* the history without removing it, escapes the capacity for ever.
EndedIsTracked ==
    \A e \in executions : status[e] = "ended" =>
        \/ \E i \in 1..Len(history) : history[i] = e
        \/ retain[e] /\ owner[e] \in {"live", "done"}
        \/ Late(e)

\* The history holds ended, registered executions without a task (but for a late
\* one), each once, although mark_terminal and release_owner_task both append.
HistoryOnce ==
    /\ \A i \in 1..Len(history) : /\ history[i] \in executions
                                  /\ status[history[i]] = "ended"
                                  /\ owner[history[i]] = "none" \/ Late(history[i])
    /\ \A i, j \in 1..Len(history) : history[i] = history[j] => i = j

\* The history respects terminal_capacity between any two calls.
HistoryBounded == Len(history) <= Capacity

\* The registry is sound through every call and eviction, whenever the processor
\* sets handle.task: exact indexes, nothing active or owned hidden, every ended
\* execution on its way out, once, in bounds, but for late tasks.
RegistrySound == IndexesAgree /\ OwnedIsFindable /\ EndedIsTracked /\ HistoryOnce /\ HistoryBounded

\* An execution leaves the registry only after it ended, when its time is over
\* or the history is full.
KeptWhileRecent ==
    [][\A e \in Execs : e \in executions /\ e \notin executions' =>
          /\ status'[e] = "ended"
          /\ \/ now - finished'[e] > TTL
             \/ Len(history) + 1 > Capacity]_vars
=============================================================================
