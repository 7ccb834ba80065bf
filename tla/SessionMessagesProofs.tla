------------------------ MODULE SessionMessagesProofs ------------------------
(***************************************************************************)
(* Proofs about the mailbox, for any number of messages, consumers and     *)
(* faults: a message is submitted at most once, a deleted Session's        *)
(* mailbox is empty, a restart holds the queue back, what is registered is *)
(* alive, what runs has an owner, tasks are taken in their turn, and no    *)
(* wakeup of a consumer is lost.                                           *)
(***************************************************************************)
EXTENDS SessionMessages, WellFoundedInduction, TLAPS

\* The consumer tasks.
Task == [pc : {"free", "loop", "leave", "admit", "claim", "exec"}, lane : Lane,
         msg : Messages \cup {None}, claimed : BOOLEAN, sent : BOOLEAN, cancel : BOOLEAN]

\* Statuses a message can be claimed from, now or later, and those it never leaves.
Fresh == {"none", "queued"}
Closed == {"none", "ended"}

\* What may hold _target_state_lock.
Sends == [kind : {"no", "new", "again"}, msg : Messages \cup {None}, asked : Lane]

Types ==
    /\ rec \in [Messages -> Row]
    /\ task \in [Ids -> Task]
    /\ submits \in [Messages -> Nat]
    /\ lock \in Sends
    /\ air \subseteq Messages \X Lane

\* A consumer that is past its choice of a message has one, and has not submitted it
\* before it executes it.
Chosen ==
    \A i \in Ids :
        /\ task[i].pc \in {"admit", "claim", "exec"} => task[i].msg \in Messages
        /\ task[i].pc # "exec" => ~task[i].sent

\* One consumer executes a message, and what it has not yet submitted nobody has.
Executing ==
    /\ \A i \in Ids : task[i].pc = "exec" =>
         /\ rec[task[i].msg].status \notin Fresh
         /\ ~task[i].sent => submits[task[i].msg] = 0
    /\ \A i, j \in Ids :
         task[i].pc = "exec" /\ task[j].pc = "exec" /\ task[i].msg = task[j].msg => i = j

\* What was submitted can no longer be claimed.
Submitted ==
    \A m \in Messages :
        /\ submits[m] \in {0, 1}
        /\ submits[m] = 1 => rec[m].status \notin Fresh

\* The inductive invariant behind AtMostOnce.
OnceInv == Types /\ Chosen /\ Executing /\ Submitted

\* Strengthens DeletedIsEmpty: past the first wait for the lock no send is under way,
\* and none begins.
DeletionInv ==
    /\ deletion \notin {"no", "accepted"} => lock = NoSend
    /\ deletion \in {"stopping", "stopped"} => blocked
    /\ DeletedIsEmpty

-----------------------------------------------------------------------------
(* What the store returns *)

\* A set of messages that is not empty has a first one.
LEMMA FirstInSet ==
    ASSUME NEW Q, Q \subseteq Messages, Q # {}
    PROVE  First(Q) \in Q /\ \A n \in Q : First(Q) <= n
<1>1. Q \subseteq Nat
  BY MailboxAssumption DEF Messages
<1>2. \E m \in Q : \A n \in Q : ~(<<n, m>> \in OpToRel(<, Nat))
  BY <1>1, NatLessThanWellFounded, WFMin, Zenon
<1>3. \E m \in Q : \A n \in Q : m <= n
  <2>1. PICK m \in Q : \A n \in Q : ~(<<n, m>> \in OpToRel(<, Nat))
    BY <1>2
  <2>2. \A n \in Q : ~(n < m)
    BY <1>1, <2>1 DEF OpToRel
  <2>3. \A n \in Q : m \in Nat /\ n \in Nat
    BY <1>1
  <2>4. \A n \in Q : m <= n
    BY <2>2, <2>3
  <2>5. QED
    BY <2>4
<1>4. QED
  BY <1>3 DEF First

\* next_queued returns a queued message of its lane, or nothing.
LEMMA NextIsQueued ==
    ASSUME NEW r \in [Messages -> Row], NEW l \in Lane
    PROVE  /\ NextQueued(r, l) \in Messages \cup {None}
           /\ NextQueued(r, l) # None =>
                /\ NextQueued(r, l) \in Messages
                /\ r[NextQueued(r, l)].status = "queued" /\ r[NextQueued(r, l)].lane = l
<1>1. Has(r, l, "queued") # {} => First(Has(r, l, "queued")) \in Has(r, l, "queued")
  BY FirstInSet DEF Has
<1>2. QED
  BY <1>1 DEF NextQueued, Has

-----------------------------------------------------------------------------
(* What a step does to the tasks and the rows *)

\* Every consumer is as in t, or begins its loop.
Begins(c) == c.pc = "loop" /\ ~c.sent /\ ~c.claimed
Begun(t) == task' \in [Ids -> Task] /\ \A k \in Ids : task'[k] = t[k] \/ Begins(task'[k])

\* No consumer begins to execute, and none that executes changes its message.
Kept ==
    /\ task' \in [Ids -> Task]
    /\ \A k \in Ids : task'[k].pc = "exec" =>
         task[k].pc = "exec" /\ task'[k].msg = task[k].msg /\ task'[k].sent = task[k].sent
    /\ \A k \in Ids : task'[k].pc \in {"admit", "claim"} => task'[k].msg \in Messages
    /\ \A k \in Ids : task'[k].pc # "exec" => ~task'[k].sent

\* No row can be claimed again.
Onward ==
    /\ rec' \in [Messages -> Row]
    /\ \A m \in Messages : rec'[m].status \in Fresh => rec[m].status \in Fresh

\* A row that is not there or has ended stays so.
Calm == \A m \in Messages : rec[m].status \in Closed => rec'[m].status = rec[m].status

\* _ensure_delivery_worker only begins a consumer, and none while it may not.
LEMMA EnsureLaneTasks ==
    ASSUME NEW st, st.t \in [Ids -> Task], NEW l \in Lane
    PROVE  /\ EnsureLane(st, l).t \in [Ids -> Task]
           /\ \A k \in Ids : EnsureLane(st, l).t[k] = st.t[k] \/ Begins(EnsureLane(st, l).t[k])
           /\ ~MayStart => EnsureLane(st, l) = st
<1>1. CASE ~MayStart \/ st.w[l] # 0
  BY <1>1 DEF EnsureLane
<1>2. CASE ~(~MayStart \/ st.w[l] # 0)
  <2>1. PICK i : EnsureLane(st, l).t =
          [st.t EXCEPT ![i] = [NoTask EXCEPT !.pc = "loop", !.lane = l]]
    BY <1>2 DEF EnsureLane
  <2>2. [NoTask EXCEPT !.pc = "loop", !.lane = l] \in Task
    BY DEF NoTask, Task
  <2>3. Begins([NoTask EXCEPT !.pc = "loop", !.lane = l])
    BY DEF NoTask, Begins
  <2>4. QED
    BY <1>2, <2>1, <2>2, <2>3
<1>3. QED
  BY <1>1, <1>2

LEMMA EnsureWorkerTasks ==
    ASSUME NEW w, NEW t \in [Ids -> Task], EnsureWorker(w, t)
    PROVE  /\ Begun(t)
           /\ ~MayStart => worker' = w /\ task' = t
<1> DEFINE s0 == [w |-> w, t |-> t]
           s1 == EnsureLane(s0, "task")
           s2 == EnsureLane(s1, "steer")
<1>1. s0.t = t /\ s0.w = w
  OBVIOUS
<1>2. "task" \in Lane /\ "steer" \in Lane
  BY DEF Lane
<1>3. /\ s1.t \in [Ids -> Task]
      /\ \A k \in Ids : s1.t[k] = t[k] \/ Begins(s1.t[k])
      /\ ~MayStart => s1 = s0
  BY <1>1, <1>2, EnsureLaneTasks
<1>4. /\ s2.t \in [Ids -> Task]
      /\ \A k \in Ids : s2.t[k] = s1.t[k] \/ Begins(s2.t[k])
      /\ ~MayStart => s2 = s1
  <2> HIDE DEF s1
  <2> QED
    BY <1>2, <1>3, EnsureLaneTasks
<1>5. worker' = s2.w /\ task' = s2.t
  BY DEF EnsureWorker
<1>6. QED
  <2> HIDE DEF s1, s2
  <2> QED
    BY <1>1, <1>3, <1>4, <1>5 DEF Begun

\* The end of a consumer leaves the others as they are.
LEMMA LeavesTasks ==
    ASSUME task \in [Ids -> Task], NEW i \in Ids, Leaves(i)
    PROVE  /\ Begun([task EXCEPT ![i] = NoTask])
           /\ ~MayStart => worker' = Deregistered(i)
<1> DEFINE l == task[i].lane
           t == [task EXCEPT ![i] = NoTask]
           s0 == [w |-> Deregistered(i), t |-> t]
           s1 == Rearmed(s0, l)
<1>1. l \in Lane
  BY DEF Task
<1>2. t \in [Ids -> Task]
  BY DEF NoTask, Task, Lane, None
<1>3. s0.t = t /\ s0.w = Deregistered(i)
  OBVIOUS
<1>4. /\ EnsureLane(s0, l).t \in [Ids -> Task]
      /\ \A k \in Ids : EnsureLane(s0, l).t[k] = t[k] \/ Begins(EnsureLane(s0, l).t[k])
      /\ ~MayStart => EnsureLane(s0, l) = s0
  <2> HIDE DEF l, t
  <2> QED
    BY <1>1, <1>2, <1>3, EnsureLaneTasks
<1>5. s1 = s0 \/ s1 = EnsureLane(s0, l)
  BY DEF Rearmed
<1>6. worker' = s1.w /\ task' = s1.t
  BY DEF Leaves
<1>7. QED
  <2> HIDE DEF l, t, s1
  <2>1. s1.t \in [Ids -> Task] /\ \A k \in Ids : s1.t[k] = t[k] \/ Begins(s1.t[k])
    BY <1>2, <1>3, <1>4, <1>5
  <2>2. ~MayStart => s1.w = Deregistered(i)
    BY <1>3, <1>4, <1>5
  <2>3. QED
    BY <1>6, <2>1, <2>2 DEF Begun, t

\* Going round the loop, likewise.
LEMMA AroundTasks ==
    ASSUME task \in [Ids -> Task], NEW i \in Ids
    PROVE  /\ Around(i) \in [Ids -> Task]
           /\ \A k \in Ids : Around(i)[k] = task[k] \/ Begins(Around(i)[k])
BY DEF Around, Task, NoTask, None, Begins

LEMMA MovesTasks ==
    ASSUME task \in [Ids -> Task], NEW i \in Ids, ContinuesOrLeaves(i)
    PROVE  \/ Begun(task)
           \/ Begun([task EXCEPT ![i] = NoTask])
<1>1. CASE Continues(i)
  BY <1>1, AroundTasks DEF Continues, Begun
<1>2. CASE Leaves(i)
  BY <1>2, LeavesTasks
<1>3. QED
  BY <1>1, <1>2 DEF ContinuesOrLeaves

\* A step that only begins, ends or cancels consumers keeps those that execute.
LEMMA BegunIsKept ==
    ASSUME OnceInv,
           \/ Begun(task)
           \/ \E i \in Ids : Begun([task EXCEPT ![i] = NoTask])
    PROVE  Kept
<1>1. CASE Begun(task)
  BY <1>1 DEF OnceInv, Types, Chosen, Begun, Begins, Kept
<1>2. ASSUME NEW i \in Ids, Begun([task EXCEPT ![i] = NoTask])
      PROVE  Kept
  BY <1>2 DEF OnceInv, Types, Chosen, Begun, Begins, Kept, NoTask
<1>3. QED
  BY <1>1, <1>2

LEMMA SameIsKept ==
    ASSUME OnceInv, UNCHANGED task
    PROVE  Kept
BY DEF OnceInv, Types, Chosen, Kept

\* transition_status from statuses that are neither fresh nor closed, or to the end.
LEMMA TransitionIsOnward ==
    ASSUME rec \in [Messages -> Row], NEW m \in Messages, NEW s, NEW expected,
           Transition(m, s, expected), s \in {"waiting", "unknown", "ended"},
           expected \subseteq {"queued", "running", "waiting"}
    PROVE  Onward /\ Calm
BY DEF Transition, Onward, Calm, Row, Fresh, Closed

LEMMA SameIsOnward ==
    ASSUME rec \in [Messages -> Row], UNCHANGED rec
    PROVE  Onward /\ Calm
BY DEF Onward, Calm

\* The invariant survives every step of that shape.
LEMMA KeptAndOnward ==
    ASSUME OnceInv, Kept, Onward, UNCHANGED submits,
           lock' \in {lock, NoSend} \cup Sends,
           air' \subseteq Messages \X Lane
    PROVE  OnceInv'
<1>1. Types'
  BY DEF OnceInv, Types, Kept, Onward, Sends, NoSend, SendOf, Lane
<1>2. Chosen'
  BY DEF OnceInv, Types, Chosen, Kept
<1>3. Executing'
  BY DEF OnceInv, Types, Chosen, Executing, Kept, Onward
<1>4. Submitted'
  BY DEF OnceInv, Types, Submitted, Onward
<1>5. QED
  BY <1>1, <1>2, <1>3, <1>4 DEF OnceInv

-----------------------------------------------------------------------------
(* The consumer's steps *)

\* _defer_steering touches one row, and makes it claimable only where it was running.
LEMMA DeferRows ==
    ASSUME OnceInv, NEW i \in Ids, NEW m \in Messages, Defer(i, m)
    PROVE  /\ Begun(task) /\ Calm
           /\ rec' \in [Messages -> Row]
           /\ \A n \in Messages \ {m} : rec'[n] = rec[n]
           /\ rec[m].status = "queued" => rec'[m].status = "queued"
<1>1. /\ rec' \in [Messages -> Row] /\ Calm
      /\ \A n \in Messages \ {m} : rec'[n] = rec[n]
      /\ rec[m].status = "queued" => rec'[m].status = "queued"
  BY DEF OnceInv, Types, Defer, Row, Lane, Calm, Closed
<1>2. Begun(task)
  <2>1. task \in [Ids -> Task]
    BY DEF OnceInv, Types
  <2>2. CASE rec' # rec
    <3>1. EnsureWorker(worker, Around(i))
      BY <2>2 DEF Defer
    <3>2. Begun(Around(i))
      BY <2>1, <3>1, AroundTasks, EnsureWorkerTasks
    <3>3. QED
      BY <2>1, <3>2, AroundTasks DEF Begun
  <2>3. CASE rec' = rec
    BY <2>1, <2>3, AroundTasks DEF Defer, Begun
  <2>4. QED
    BY <2>2, <2>3
<1>3. QED
  BY <1>1, <1>2

LEMMA LoopStep ==
    ASSUME OnceInv, NEW i \in Ids, Loop(i)
    PROVE  Kept /\ Onward /\ Calm
<1> DEFINE m == NextQueued(rec, task[i].lane)
<1>1. /\ rec \in [Messages -> Row] /\ task \in [Ids -> Task] /\ task[i].lane \in Lane
      /\ ~task[i].sent
  BY DEF OnceInv, Types, Chosen, Task, Loop, At
<1>2. m \in Messages \cup {None} /\ (m # None => m \in Messages /\ rec[m].status = "queued")
  BY <1>1, NextIsQueued
<1> HIDE DEF m
<1>3. CASE \E pc \in {"leave", "admit", "claim"} :
             /\ pc # "leave" => m # None
             /\ task' = [task EXCEPT ![i].pc = pc, ![i].msg = m] /\ UNCHANGED rec
  <2>1. PICK pc \in {"leave", "admit", "claim"} :
          /\ pc # "leave" => m \in Messages
          /\ task' = [task EXCEPT ![i].pc = pc, ![i].msg = m] /\ UNCHANGED rec
    BY <1>2, <1>3
  <2>2. task' \in [Ids -> Task]
    <3>1. [task[i] EXCEPT !.pc = pc, !.msg = m] \in Task
      BY <1>1, <1>2 DEF Task
    <3>2. task' = [task EXCEPT ![i] = [task[i] EXCEPT !.pc = pc, !.msg = m]]
      BY <1>1, <2>1
    <3>3. QED
      BY <1>1, <3>1, <3>2
  <2>3. /\ task'[i].pc = pc /\ task'[i].msg = m /\ task'[i].sent = task[i].sent
        /\ \A k \in Ids \ {i} : task'[k] = task[k]
    BY <1>1, <2>1 DEF Task
  <2>4. Kept
    BY <1>1, <2>1, <2>2, <2>3 DEF OnceInv, Chosen, Kept
  <2>5. QED
    BY <1>1, <2>1, <2>4, SameIsOnward
<1>4. CASE m # None /\ Defer(i, m)
  <2>1. m \in Messages
    BY <1>2, <1>4
  <2>2. /\ Begun(task) /\ Calm
        /\ rec' \in [Messages -> Row]
        /\ \A n \in Messages \ {m} : rec'[n] = rec[n]
        /\ rec'[m].status = "queued"
    BY <1>2, <1>4, <2>1, DeferRows
  <2>3. Onward
    BY <1>2, <1>4, <2>2 DEF Onward, Fresh
  <2>4. QED
    BY <2>2, <2>3, BegunIsKept
<1>5. QED
  BY <1>3, <1>4 DEF Loop, m

LEMMA LeaveStep ==
    ASSUME OnceInv, NEW i \in Ids, Leave(i)
    PROVE  Kept /\ Onward /\ Calm
<1>1. Kept
  BY LeavesTasks, BegunIsKept DEF OnceInv, Types, Leave
<1>2. QED
  BY <1>1, SameIsOnward DEF OnceInv, Types, Leave

LEMMA AdmitStep ==
    ASSUME OnceInv, NEW i \in Ids, Admit(i)
    PROVE  Kept /\ Onward /\ Calm
<1>1. /\ rec \in [Messages -> Row] /\ task \in [Ids -> Task] /\ task[i].msg \in Messages
      /\ ~task[i].sent
  BY DEF OnceInv, Types, Chosen, Admit, At
<1>2. CASE Transition(task[i].msg, "ended", {"queued"}) /\ ContinuesOrLeaves(i)
  <2>1. Onward /\ Calm
    BY <1>1, <1>2, TransitionIsOnward
  <2>2. QED
    BY <1>1, <1>2, <2>1, MovesTasks, BegunIsKept
<1>3. CASE /\ rec' \in {SteersDeferred, rec}
           /\ LET m == NextQueued(rec', "task")
              IN  \/ task' = Around(i)
                  \/ m # None /\ task' = [task EXCEPT ![i].pc = "claim", ![i].msg = m]
  <2>1. rec' \in [Messages -> Row] /\ \A m \in Messages : rec'[m].status = rec[m].status
    BY <1>1, <1>3 DEF SteersDeferred, Row, Lane
  <2>2. Onward /\ Calm
    BY <2>1 DEF Onward, Calm
  <2>3. "task" \in Lane
    BY DEF Lane
  <2>4. NextQueued(rec', "task") # None => NextQueued(rec', "task") \in Messages
    BY <2>1, <2>3, NextIsQueued
  <2>5. CASE task' = Around(i)
    BY <1>1, <2>2, <2>5, AroundTasks, BegunIsKept DEF Begun
  <2>6. CASE /\ NextQueued(rec', "task") # None
             /\ task' = [task EXCEPT ![i].pc = "claim", ![i].msg = NextQueued(rec', "task")]
    BY <1>1, <2>2, <2>4, <2>6 DEF OnceInv, Chosen, Kept, Task
  <2>7. QED
    BY <1>3, <2>5, <2>6
<1>4. QED
  <2>1. \/ Transition(task[i].msg, "ended", {"queued"}) /\ ContinuesOrLeaves(i)
        \/ /\ \E deferred \in BOOLEAN : rec' = IF deferred THEN SteersDeferred ELSE rec
           /\ LET m == NextQueued(rec', "task")
              IN  \/ task' = Around(i)
                  \/ m # None /\ task' = [task EXCEPT ![i].pc = "claim", ![i].msg = m]
    BY DEF Admit
  <2>2. QED
    BY <1>2, <1>3, <2>1

\* A claim gives a message to one consumer: it was fresh, so nobody executes it.
LEMMA ClaimStep ==
    ASSUME OnceInv, NEW i \in Ids, Claim(i)
    PROVE  OnceInv' /\ Calm
<1> DEFINE m == task[i].msg
<1>1. /\ rec \in [Messages -> Row] /\ task \in [Ids -> Task] /\ m \in Messages
      /\ UNCHANGED <<submits, lock, air>> /\ ~task[i].sent
  BY DEF OnceInv, Types, Chosen, Claim, At
<1>2. CASE /\ rec[m].status = "queued" /\ rec' = [rec EXCEPT ![m].status = "running"]
           /\ task' = [task EXCEPT ![i].pc = "exec", ![i].claimed = TRUE]
  <2>1. Types' /\ Calm
    <3>1. rec' \in [Messages -> Row] /\ Calm
      BY <1>1, <1>2 DEF Row, Calm, Closed
    <3>2. task' \in [Ids -> Task]
      <4>1. [task[i] EXCEPT !.pc = "exec", !.claimed = TRUE] \in Task
        BY <1>1 DEF Task
      <4>2. task' = [task EXCEPT ![i] = [task[i] EXCEPT !.pc = "exec", !.claimed = TRUE]]
        BY <1>1, <1>2
      <4>3. QED
        BY <1>1, <4>1, <4>2
    <3>3. QED
      BY <1>1, <3>1, <3>2 DEF OnceInv, Types
  <2>2. Chosen'
    <3>1. task'[i].pc = "exec" /\ task'[i].msg = m /\ \A k \in Ids \ {i} : task'[k] = task[k]
      BY <1>1, <1>2 DEF Task
    <3>2. QED
      BY <1>1, <3>1 DEF OnceInv, Chosen
  <2>3. submits[m] = 0
    BY <1>1, <1>2 DEF OnceInv, Types, Submitted, Fresh
  <2>4. \A k \in Ids : task[k].pc = "exec" => task[k].msg # m
    BY <1>1, <1>2 DEF OnceInv, Executing, Fresh
  <2>5. Executing'
    BY <1>1, <1>2, <2>3, <2>4 DEF OnceInv, Types, Chosen, Executing, Task, Fresh
  <2>6. Submitted'
    BY <1>1, <1>2 DEF OnceInv, Submitted, Fresh, Row
  <2>7. QED
    BY <2>1, <2>2, <2>5, <2>6 DEF OnceInv
<1>3. CASE task' = Around(i) /\ UNCHANGED rec
  <2>1. Kept
    BY <1>1, <1>3, AroundTasks, BegunIsKept DEF Begun
  <2>2. QED
    BY <1>1, <1>3, <2>1, SameIsOnward, KeptAndOnward DEF OnceInv, Types
<1>4. QED
  BY <1>2, <1>3 DEF Claim, Claimable

-----------------------------------------------------------------------------
(* Execution *)

LEMMA SubmitStep ==
    ASSUME OnceInv, NEW i \in Ids, Submit(i)
    PROVE  OnceInv' /\ Calm
<1> DEFINE m == task[i].msg
<1>1. /\ task \in [Ids -> Task] /\ m \in Messages /\ submits \in [Messages -> Nat]
      /\ task[i].pc = "exec" /\ submits[m] = 0 /\ rec[m].status \notin Fresh
      /\ UNCHANGED <<rec, lock, air>>
      /\ task' = [task EXCEPT ![i].sent = TRUE] /\ submits' = [submits EXCEPT ![m] = @ + 1]
  BY DEF OnceInv, Types, Chosen, Executing, Submit, At
<1>2. /\ task' \in [Ids -> Task] /\ submits' \in [Messages -> Nat]
      /\ submits'[m] = 1 /\ \A n \in Messages \ {m} : submits'[n] = submits[n]
      /\ \A k \in Ids : task'[k].pc = task[k].pc /\ task'[k].msg = task[k].msg
      /\ task'[i].sent /\ \A k \in Ids \ {i} : task'[k] = task[k]
  <2>1. [task[i] EXCEPT !.sent = TRUE] \in Task
    BY <1>1 DEF Task
  <2>2. task' = [task EXCEPT ![i] = [task[i] EXCEPT !.sent = TRUE]]
    BY <1>1
  <2>3. task' \in [Ids -> Task] /\ \A k \in Ids \ {i} : task'[k] = task[k]
    BY <1>1, <2>1, <2>2
  <2>4. task'[i] = [task[i] EXCEPT !.sent = TRUE]
    BY <1>1, <2>2
  <2>5. task'[i].sent /\ task'[i].pc = task[i].pc /\ task'[i].msg = task[i].msg
    BY <1>1, <2>4 DEF Task
  <2>6. submits' \in [Messages -> Nat] /\ submits'[m] = 1
        /\ \A n \in Messages \ {m} : submits'[n] = submits[n]
    BY <1>1
  <2>7. QED
    BY <2>3, <2>5, <2>6
<1>3. Types' /\ Chosen'
  BY <1>1, <1>2 DEF OnceInv, Types, Chosen
<1>4. Executing'
  BY <1>1, <1>2 DEF OnceInv, Chosen, Executing
<1>5. Submitted'
  BY <1>1, <1>2 DEF OnceInv, Submitted
<1>6. QED
  BY <1>1, <1>3, <1>4, <1>5 DEF OnceInv, Calm

\* A refusal makes the message claimable again: it was not submitted, and its
\* consumer stops executing it.
LEMMA RefuseStep ==
    ASSUME OnceInv, NEW i \in Ids, Refuse(i)
    PROVE  OnceInv' /\ Calm
<1> DEFINE m == task[i].msg
<1>1. /\ task \in [Ids -> Task] /\ m \in Messages /\ task[i].pc = "exec" /\ submits[m] = 0
      /\ UNCHANGED <<submits, lock, air>> /\ Defer(i, m)
  BY DEF OnceInv, Types, Chosen, Executing, Refuse, Refusable, At
<1>2. /\ Begun(task) /\ Calm /\ rec' \in [Messages -> Row]
      /\ \A n \in Messages \ {m} : rec'[n] = rec[n]
  BY <1>1, DeferRows
<1>3. Begins(task'[i])
  <2>1. Begins(Around(i)[i]) /\ Around(i) \in [Ids -> Task]
    BY <1>1, AroundTasks DEF Around, Begins, NoTask, Task
  <2>2. task' = Around(i) \/ EnsureWorker(worker, Around(i))
    BY <1>1 DEF Defer
  <2>3. task' = Around(i) \/ Begun(Around(i))
    BY <2>1, <2>2, EnsureWorkerTasks
  <2>4. QED
    BY <2>1, <2>3 DEF Begun
<1>4. /\ task' \in [Ids -> Task]
      /\ \A k \in Ids : task'[k] = task[k] \/ Begins(task'[k])
  BY <1>2 DEF Begun
<1>5. \A k \in Ids : task'[k].pc = "exec" =>
        task'[k] = task[k] /\ task[k].pc = "exec" /\ task[k].msg \in Messages \ {m}
  BY <1>1, <1>3, <1>4 DEF OnceInv, Chosen, Executing, Begins
<1>6. Types'
  BY <1>1, <1>2, <1>4 DEF OnceInv, Types
<1>7. Chosen'
  BY <1>4 DEF OnceInv, Chosen, Begins
<1>8. Executing'
  BY <1>1, <1>2, <1>5 DEF OnceInv, Executing
<1>9. Submitted'
  BY <1>1, <1>2 DEF OnceInv, Submitted
<1>10. QED
  BY <1>2, <1>6, <1>7, <1>8, <1>9 DEF OnceInv

LEMMA FallbackStep ==
    ASSUME OnceInv, NEW i \in Ids, Fallback(i)
    PROVE  Kept /\ Onward /\ Calm
<1> DEFINE st == [w |-> [worker EXCEPT !["steer"] = 0], t |-> task]
<1>1. st.t = task /\ task \in [Ids -> Task] /\ "steer" \in Lane
  BY DEF OnceInv, Types, Lane
<1>2. task' = EnsureLane(st, "steer").t /\ UNCHANGED rec
  BY DEF Fallback
<1> HIDE DEF st
<1>3. Begun(task)
  BY <1>1, <1>2, EnsureLaneTasks DEF Begun
<1>4. QED
  BY <1>2, <1>3, BegunIsKept, SameIsOnward DEF OnceInv, Types

LEMMA MarkWaitingStep ==
    ASSUME OnceInv, NEW i \in Ids, MarkWaiting(i)
    PROVE  Kept /\ Onward /\ Calm
<1>1. rec \in [Messages -> Row] /\ task[i].msg \in Messages /\ UNCHANGED task
  BY DEF OnceInv, Types, Chosen, MarkWaiting, At, memory
<1>2. Transition(task[i].msg, "waiting", {"running"})
  BY DEF MarkWaiting
<1>3. Onward /\ Calm
  BY <1>1, <1>2, TransitionIsOnward
<1>4. QED
  BY <1>1, <1>3, SameIsKept

LEMMA SettleStep ==
    ASSUME OnceInv, NEW i \in Ids, Settle(i)
    PROVE  Kept /\ Onward /\ Calm
<1>1. /\ rec \in [Messages -> Row] /\ task \in [Ids -> Task] /\ task[i].msg \in Messages
      /\ ContinuesOrLeaves(i)
  BY DEF OnceInv, Types, Chosen, Settle, At
<1>2. \E s \in {"waiting", "unknown", "ended"} : \E expected \in {{"running"}, {"running", "waiting"}} :
        Transition(task[i].msg, s, expected)
  BY DEF Settle
<1>3. Onward /\ Calm
  BY <1>1, <1>2, TransitionIsOnward
<1>4. QED
  BY <1>1, <1>3, MovesTasks, BegunIsKept

LEMMA CancelledStep ==
    ASSUME OnceInv, NEW i \in Ids, Cancelled(i)
    PROVE  Kept /\ Onward /\ Calm /\ air' \subseteq Messages \X Lane
<1>1. /\ rec \in [Messages -> Row] /\ task \in [Ids -> Task] /\ air \subseteq Messages \X Lane
      /\ Leaves(i) /\ Interrupted(i)
  BY DEF OnceInv, Types, Cancelled
<1>2. Kept
  BY <1>1, LeavesTasks, BegunIsKept
<1>3. Onward /\ Calm
  BY <1>1 DEF Interrupted, Transition, Onward, Calm, Row, Fresh, Closed
<1>4. air' \subseteq Messages \X Lane
  <2>1. CASE UNCHANGED air
    BY <1>1, <2>1
  <2>2. CASE task[i].pc = "claim" /\ air' = air \cup {<<task[i].msg, task[i].lane>>}
    <3>1. task[i].msg \in Messages /\ task[i].lane \in Lane
      BY <1>1, <2>2 DEF OnceInv, Chosen, Task
    <3>2. QED
      BY <1>1, <2>2, <3>1
  <2>3. QED
    BY <2>1, <2>2 DEF Cancelled
<1>5. QED
  BY <1>2, <1>3, <1>4

LEMMA LateClaimStep ==
    ASSUME OnceInv, NEW c \in air, LateClaim(c)
    PROVE  Kept /\ Onward /\ Calm /\ air' \subseteq Messages \X Lane
<1>1. /\ rec \in [Messages -> Row] /\ air \subseteq Messages \X Lane /\ c[1] \in Messages
      /\ UNCHANGED task /\ air' = air \ {c}
      /\ rec' = rec \/ (rec[c[1]].status = "queued" /\ rec' = [rec EXCEPT ![c[1]].status = "running"])
  BY DEF OnceInv, Types, LateClaim, Claimable
<1>2. Onward /\ Calm
  BY <1>1 DEF Onward, Calm, Row, Fresh, Closed
<1>3. QED
  BY <1>1, <1>2, SameIsKept

-----------------------------------------------------------------------------
(* Senders, users, the service and deletion *)

\* A step that ensures consumers, or begins none, keeps those that execute.
LEMMA EnsuredIsKept ==
    ASSUME OnceInv, EnsureWorker(worker, task) \/ UNCHANGED task
    PROVE  Kept
<1>1. task \in [Ids -> Task]
  BY DEF OnceInv, Types
<1>2. QED
  BY <1>1, EnsureWorkerTasks, BegunIsKept, SameIsKept

LEMMA CancelTasksIsKept ==
    ASSUME OnceInv, NEW T, CancelTasks(T)
    PROVE  Kept
<1>1. task \in [Ids -> Task]
  BY DEF OnceInv, Types
<1>2. \A k \in Ids : task'[k] = task[k] \/ task'[k] = [task[k] EXCEPT !.cancel = TRUE]
  BY DEF CancelTasks
<1>3. \A k \in Ids : [task[k] EXCEPT !.cancel = TRUE] \in Task
  BY <1>1 DEF Task
<1>4. task' \in [Ids -> Task]
  <2>1. \A k \in Ids : task'[k] \in Task
    BY <1>1, <1>2, <1>3
  <2>2. QED
    BY <2>1 DEF CancelTasks
<1>5. \A k \in Ids : /\ task'[k].pc = task[k].pc /\ task'[k].msg = task[k].msg
                     /\ task'[k].sent = task[k].sent
  BY <1>1, <1>2 DEF Task
<1>6. QED
  BY <1>4, <1>5 DEF OnceInv, Chosen, Kept

\* The rows that senders, users and the service write.
LEMMA RowSteps ==
    ASSUME OnceInv,
           \/ \E m \in Messages : ResolveUnknown(m) \/ Finalize(m)
           \/ ContinueQueued \/ Supersede \/ Start \/ TargetDeleted
    PROVE  Onward /\ Calm
<1>1. rec \in [Messages -> Row]
  BY DEF OnceInv, Types
<1>2. ASSUME NEW m \in Messages, ResolveUnknown(m)
      PROVE  Onward /\ Calm
  <2>1. \/ rec' = [rec EXCEPT ![m].status = "ended"]
        \/ rec' = [rec EXCEPT ![m].released = TRUE]
    BY <1>2 DEF ResolveUnknown
  <2>2. rec[m].status = "unknown"
    BY <1>2 DEF ResolveUnknown
  <2>3. CASE rec' = [rec EXCEPT ![m].status = "ended"]
    BY <1>1, <2>2, <2>3 DEF Onward, Calm, Row, Fresh, Closed
  <2>4. CASE rec' = [rec EXCEPT ![m].released = TRUE]
    <3>1. [rec[m] EXCEPT !.released = TRUE] \in Row
      BY <1>1 DEF Row
    <3>2. rec' = [rec EXCEPT ![m] = [rec[m] EXCEPT !.released = TRUE]]
      BY <2>4
    <3>3. rec' \in [Messages -> Row] /\ \A n \in Messages : rec'[n].status = rec[n].status
      BY <1>1, <3>1, <3>2 DEF Row
    <3>4. QED
      BY <3>3 DEF Onward, Calm
  <2>5. QED
    BY <2>1, <2>3, <2>4
<1>3. ASSUME NEW m \in Messages, Finalize(m)
      PROVE  Onward /\ Calm
  BY <1>1, <1>3, TransitionIsOnward DEF Finalize
<1>4. CASE ContinueQueued
  <2>1. /\ rec' = [m \in Messages |-> rec'[m]]
        /\ \A m \in Messages : rec'[m] = rec[m] \/ rec'[m] = [rec[m] EXCEPT !.released = TRUE]
    BY <1>4 DEF ContinueQueued
  <2>2. \A m \in Messages : [rec[m] EXCEPT !.released = TRUE] \in Row
    BY <1>1 DEF Row
  <2>3. rec' \in [Messages -> Row] /\ \A n \in Messages : rec'[n].status = rec[n].status
    BY <1>1, <2>1, <2>2 DEF Row
  <2>4. QED
    BY <2>3 DEF Onward, Calm
<1>5. CASE Supersede
  BY <1>1, <1>5 DEF Supersede, Writes, Wake,
         CallerGone, CancelSend, Onward, Calm, Row, Fresh, Closed
<1>6. CASE Start
  BY <1>1, <1>6 DEF Start, Recovered, Onward, Calm, Row, Fresh, Closed
<1>7. CASE TargetDeleted
  BY <1>1, <1>7 DEF TargetDeleted, Onward, Calm, Row, Fresh, Closed
<1>8. QED
  BY <1>2, <1>3, <1>4, <1>5, <1>6, <1>7

\* The steps that are not a consumer's, a send or an enqueue.
OtherStep ==
    \/ \E m \in Messages : ResolveUnknown(m) \/ Finalize(m)
    \/ ContinueQueued \/ Supersede
    \/ (\E c \in Call : Wake(c) \/ CallerGone(c)) \/ CancelSend
    \/ Start \/ GatewayUp \/ GatewayDown \/ Stop \/ Stopped \/ Crash
    \/ AcceptDelete \/ BeginDelete \/ ConsumersStopped \/ RemoveTarget
    \/ TargetDeleted \/ AbortDelete

\* What is not a consumer's step.
ServiceStep ==
    \/ Enqueue \/ OtherStep
    \/ \E l \in Lane : Send(l) \/ LateEnqueue(l)
    \/ \E c \in air : LateClaim(c)

LEMMA NextSteps ==
    ASSUME [Next]_vars
    PROVE  (\E i \in Ids : ConsumerStep(i)) \/ ServiceStep \/ UNCHANGED vars
BY DEF Next, SenderStep, UserStep, LifeStep, OtherStep, ServiceStep

LEMMA OtherSteps ==
    ASSUME OnceInv, OtherStep
    PROVE  /\ Kept /\ Onward /\ Calm /\ UNCHANGED submits
           /\ lock' \in {lock, NoSend} /\ air' \in {air, {}}
<1>1. Onward /\ Calm
  <2>1. CASE \/ \E m \in Messages : ResolveUnknown(m) \/ Finalize(m)
             \/ ContinueQueued \/ Supersede \/ Start \/ TargetDeleted
    BY <2>1, RowSteps
  <2>2. CASE UNCHANGED rec
    BY <2>2, SameIsOnward DEF OnceInv, Types
  <2>3. QED
    BY <2>1, <2>2 DEF OtherStep, Wake, CallerGone, CancelSend, GatewayUp, GatewayDown, Stop,
                      Stopped, Crash, AcceptDelete,
                      BeginDelete, ConsumersStopped, RemoveTarget, AbortDelete
<1>2. Kept
  <2>1. CASE EnsureWorker(worker, task) \/ UNCHANGED task
    BY <2>1, EnsuredIsKept
  <2>2. CASE \E T : CancelTasks(T)
    BY <2>2, CancelTasksIsKept
  <2>3. CASE Crash
    BY <2>3 DEF Crash, Kept, NoTask, Task, Lane, None
  <2>4. QED
    BY <2>1, <2>2, <2>3
       DEF OtherStep, ResolveUnknown, Finalize, ContinueQueued, Supersede, Writes, Wake,
         CallerGone, CancelSend, Start, GatewayUp,
           GatewayDown, Stop, Stopped, AcceptDelete, BeginDelete, ConsumersStopped,
           RemoveTarget, TargetDeleted, AbortDelete, memory
<1>3. UNCHANGED submits /\ lock' \in {lock, NoSend} /\ air' \in {air, {}}
  BY DEF OtherStep, ResolveUnknown, Finalize, ContinueQueued, Supersede, Writes, Wake,
         CallerGone, CancelSend, Start, GatewayUp,
         GatewayDown, Stop, Stopped, Crash, AcceptDelete, BeginDelete, ConsumersStopped,
         RemoveTarget, TargetDeleted, AbortDelete, memory
<1>4. QED
  BY <1>1, <1>2, <1>3

LEMMA SendStep ==
    ASSUME OnceInv, NEW l \in Lane, Send(l)
    PROVE  Kept /\ Onward /\ Calm /\ lock' \in Sends /\ UNCHANGED <<air, submits>>
<1>1. UNCHANGED <<rec, task, air, submits>>
  BY DEF Send
<1>2. lock' \in Sends
  BY DEF Send, SendOf, Sends
<1>3. QED
  BY <1>1, <1>2, SameIsKept, SameIsOnward DEF OnceInv, Types

\* An INSERT writes one row, which was not there, with the next number.
LEMMA InsertRow ==
    ASSUME rec \in [Messages -> Row], Unsent # {}, NEW asked \in Lane, Insert(asked)
    PROVE  /\ First(Unsent) \in Messages /\ rec[First(Unsent)].status = "none"
           /\ \A n \in Messages : rec[n].status = "none" => First(Unsent) <= n
           /\ rec' \in [Messages -> Row]
           /\ rec'[First(Unsent)].status = "queued"
           /\ rec'[First(Unsent)].asked = "task" => rec'[First(Unsent)].lane = "task"
           /\ \A n \in Messages \ {First(Unsent)} : rec'[n] = rec[n]
<1>1. PICK m : m = First(Unsent)
  OBVIOUS
<1>2. Unsent \subseteq Messages
  BY DEF Unsent
<1>3. m \in Unsent /\ \A n \in Unsent : m <= n
  BY <1>1, <1>2, FirstInSet
<1>4. PICK l \in {"task", asked} :
        rec' = [rec EXCEPT ![m] = [status |-> "queued", asked |-> asked, lane |-> l,
                                   released |-> FALSE]]
  BY <1>1 DEF Insert
<1>5. PICK r : r = [status |-> "queued", asked |-> asked, lane |-> l, released |-> FALSE]
  OBVIOUS
<1>6. r \in Row /\ r.status = "queued" /\ r.asked = asked /\ r.lane = l
  BY <1>5 DEF Row, Lane
<1>7. m \in Messages
  BY <1>3 DEF Unsent
<1>8. rec' \in [Messages -> Row] /\ rec'[m] = r /\ \A n \in Messages \ {m} : rec'[n] = rec[n]
  BY <1>4, <1>5, <1>6, <1>7
<1>9. QED
  BY <1>1, <1>3, <1>6, <1>7, <1>8 DEF Unsent

\* The steps that insert: one with, one without its sender.
Inserts == Enqueue \/ \E l \in Lane : LateEnqueue(l)

LEMMA InsertsRow ==
    ASSUME OnceInv, Inserts
    PROVE  UNCHANGED rec \/ (Unsent # {} /\ \E l \in Lane : Insert(l))
<1>1. lock.asked \in Lane
  BY DEF OnceInv, Types, Sends
<1>2. QED
  BY <1>1 DEF Inserts, Enqueue, LateEnqueue

LEMMA EnqueueStep ==
    ASSUME OnceInv, Inserts
    PROVE  /\ Kept /\ Onward
           /\ lock' \in {lock, NoSend} /\ UNCHANGED <<air, submits, deletion, blocked>>
<1>1. rec \in [Messages -> Row]
  BY DEF OnceInv, Types
<1>2. Kept
  BY EnsuredIsKept DEF Inserts, Enqueue, LateEnqueue, memory
<1>3. Onward
  <2>1. CASE UNCHANGED rec
    BY <1>1, <2>1, SameIsOnward
  <2>2. ASSUME Unsent # {}, NEW l \in Lane, Insert(l)
        PROVE  Onward
    BY <1>1, <2>2, InsertRow DEF Onward, Fresh
  <2>3. QED
    BY <2>1, <2>2, InsertsRow
<1>4. lock' \in {lock, NoSend} /\ UNCHANGED <<air, submits, deletion, blocked>>
  BY DEF Inserts, Enqueue, LateEnqueue, memory
<1>5. QED
  BY <1>2, <1>3, <1>4

-----------------------------------------------------------------------------
(* At most once *)

LEMMA OnceInit ==
    ASSUME Init
    PROVE  OnceInv
<1>1. rec \in [Messages -> Row]
  BY DEF Init, NoRow, Row, Lane
<1>2. task \in [Ids -> Task] /\ \A i \in Ids : task[i].pc = "free" /\ ~task[i].sent
  BY DEF Init, NoTask, Task, Lane, None
<1>3. QED
  <2>1. Types
    BY <1>1, <1>2 DEF Init, Types, Sends, NoSend, SendOf, Lane
  <2>2. Chosen /\ Executing
    BY <1>2 DEF Chosen, Executing
  <2>3. Submitted
    BY DEF Init, Submitted
  <2>4. QED
    BY <2>1, <2>2, <2>3 DEF OnceInv

LEMMA OnceNext ==
    ASSUME OnceInv, [Next]_vars
    PROVE  OnceInv'
<1>1. lock \in Sends
  BY DEF OnceInv, Types
<1>2. air \subseteq Messages \X Lane
  BY DEF OnceInv, Types
<1>3. ASSUME NEW i \in Ids, Loop(i) \/ Leave(i) \/ Admit(i) \/ Fallback(i) \/ MarkWaiting(i) \/ Settle(i)
      PROVE  OnceInv'
  <2>1. Kept /\ Onward
    BY <1>3, LoopStep, LeaveStep, AdmitStep, FallbackStep, MarkWaitingStep, SettleStep
  <2>2. UNCHANGED <<lock, air, submits>>
    BY <1>3 DEF Loop, Leave, Admit, Fallback, MarkWaiting, Settle, memory
  <2>3. QED
    BY <1>1, <1>2, <2>1, <2>2, KeptAndOnward
<1>4. ASSUME NEW i \in Ids, Claim(i) \/ Submit(i) \/ Refuse(i)
      PROVE  OnceInv'
  BY <1>4, ClaimStep, SubmitStep, RefuseStep
<1>5. ASSUME NEW i \in Ids, Cancelled(i)
      PROVE  OnceInv'
  <2>1. UNCHANGED <<lock, submits>>
    BY <1>5 DEF Cancelled
  <2>2. QED
    BY <1>1, <1>5, <2>1, CancelledStep, KeptAndOnward
<1>6. ASSUME NEW c \in air, LateClaim(c)
      PROVE  OnceInv'
  <2>1. UNCHANGED <<lock, submits>>
    BY <1>6 DEF LateClaim
  <2>2. QED
    BY <1>1, <1>6, <2>1, LateClaimStep, KeptAndOnward
<1>7. CASE Inserts
  BY <1>1, <1>2, <1>7, EnqueueStep, KeptAndOnward
<1>8. ASSUME NEW l \in Lane, Send(l)
      PROVE  OnceInv'
  BY <1>2, <1>8, SendStep, KeptAndOnward
<1>9. CASE OtherStep
  <2>1. /\ Kept /\ Onward /\ UNCHANGED submits
        /\ lock' \in {lock, NoSend} /\ air' \in {air, {}}
    BY <1>9, OtherSteps
  <2>2. QED
    BY <1>1, <1>2, <2>1, KeptAndOnward
<1>10. CASE UNCHANGED vars
  <2>1. UNCHANGED <<rec, task, lock, air, submits>>
    BY <1>10 DEF vars, memory
  <2>2. QED
    BY <2>1 DEF OnceInv, Types, Chosen, Executing, Submitted
<1>11. QED
  BY <1>3, <1>4, <1>5, <1>6, <1>7, <1>8, <1>9, <1>10, NextSteps
     DEF ConsumerStep, ServiceStep, Inserts

\* No message reaches the Runtime twice, whatever its sender repeats and whatever is
\* cancelled, refused, deferred, superseded or recovered after a crash.
THEOREM SubmittedAtMostOnce == Safety => []AtMostOnce
<1>1. Init => OnceInv
  BY OnceInit
<1>2. OnceInv /\ [Next]_vars => OnceInv'
  BY OnceNext
<1>3. OnceInv => AtMostOnce
  BY DEF OnceInv, Submitted, AtMostOnce
<1>4. QED
  BY <1>1, <1>2, <1>3, PTL DEF Safety

-----------------------------------------------------------------------------
(* A deleted Session's mailbox *)

\* The phases of a deletion move, and the barrier with them, in a few steps only.
LEMMA DeletionNext ==
    ASSUME OnceInv, DeletionInv, [Next]_vars
    PROVE  DeletionInv'
<1>1. ASSUME Calm, deletion = "deleted", strays \subseteq strays'
      PROVE  \A m \in Messages \ strays' : rec'[m].status \in {"none", "ended"}
  BY <1>1 DEF DeletionInv, DeletedIsEmpty, Calm, Closed
<1>2. ASSUME NEW i \in Ids, ConsumerStep(i)
      PROVE  DeletionInv'
  <2>1. Calm
    BY <1>2, LoopStep, LeaveStep, AdmitStep, ClaimStep, SubmitStep, RefuseStep, FallbackStep,
       MarkWaitingStep, SettleStep, CancelledStep DEF ConsumerStep
  <2>2. UNCHANGED <<lock, deletion, blocked, strays>>
    BY <1>2 DEF ConsumerStep, Loop, Leave, Admit, Claim, Submit, Refuse, Fallback, MarkWaiting,
                Settle, Cancelled, memory, apart
  <2>3. QED
    BY <1>1, <2>1, <2>2 DEF DeletionInv, DeletedIsEmpty
<1>3. ASSUME NEW c \in air, LateClaim(c)
      PROVE  DeletionInv'
  <2>1. Calm /\ UNCHANGED <<lock, deletion, blocked, strays>>
    BY <1>3, LateClaimStep DEF LateClaim, apart
  <2>2. QED
    BY <1>1, <2>1 DEF DeletionInv, DeletedIsEmpty
<1>4. CASE Enqueue
  <2>1. lock # NoSend /\ lock' = NoSend /\ UNCHANGED <<deletion, blocked>>
    BY <1>4 DEF Enqueue
  <2>2. QED
    BY <2>1 DEF DeletionInv, DeletedIsEmpty
<1>5. ASSUME NEW l \in Lane, LateEnqueue(l)
      PROVE  DeletionInv'
  <2>1. UNCHANGED <<lock, deletion, blocked>>
    BY <1>5 DEF LateEnqueue, memory
  <2>2. ASSUME deletion = "deleted"
        PROVE  \A m \in Messages \ strays' : rec'[m].status \in {"none", "ended"}
    <3>1. \A m \in Messages \ strays : rec[m].status \in {"none", "ended"}
      BY <2>2 DEF DeletionInv, DeletedIsEmpty
    <3>2. CASE UNCHANGED <<rec, strays>>
      BY <3>1, <3>2
    <3>3. CASE Unsent # {} /\ Insert(l) /\ strays' = strays \cup {First(Unsent)}
      <4>1. \A n \in Messages \ {First(Unsent)} : rec'[n] = rec[n]
        BY <3>3, InsertRow DEF OnceInv, Types
      <4>2. QED
        BY <3>1, <3>3, <4>1
    <3>4. QED
      BY <1>5, <2>2, <3>2, <3>3 DEF LateEnqueue
  <2>3. QED
    BY <2>1, <2>2 DEF DeletionInv, DeletedIsEmpty
<1>6. ASSUME NEW l \in Lane, Send(l)
      PROVE  DeletionInv'
  <2>1. deletion \in {"no", "accepted"} /\ UNCHANGED <<rec, deletion, blocked>>
    BY <1>6 DEF Send, Present, DeletionInv
  <2>2. QED
    BY <2>1 DEF DeletionInv, DeletedIsEmpty
<1>7. CASE OtherStep
  <2>1. Calm
    BY <1>7, OtherSteps
  <2>0. UNCHANGED strays
    BY <1>7 DEF OtherStep, ResolveUnknown, Finalize, ContinueQueued, Supersede, Writes, Wake,
                CallerGone, CancelSend, Start, GatewayUp, GatewayDown, Stop, Stopped, Crash,
                AcceptDelete, BeginDelete, ConsumersStopped, RemoveTarget, TargetDeleted,
                AbortDelete, apart
  <2>2. CASE lock' \in {lock, NoSend} /\ UNCHANGED <<deletion, blocked>>
    BY <1>1, <2>0, <2>1, <2>2 DEF DeletionInv, DeletedIsEmpty
  <2>3. CASE TargetDeleted
    BY <2>3 DEF TargetDeleted, DeletionInv, DeletedIsEmpty, OnceInv, Types, Row
  <2>4. CASE Crash
    BY <1>1, <2>0, <2>1, <2>4 DEF Crash, DeletionInv, DeletedIsEmpty
  <2>5. CASE AcceptDelete \/ BeginDelete \/ ConsumersStopped \/ RemoveTarget \/ AbortDelete
    BY <2>5 DEF AcceptDelete, BeginDelete, ConsumersStopped, RemoveTarget, AbortDelete,
                LockFree, DeletionInv, DeletedIsEmpty, memory
  <2>6. QED
    BY <1>7, <2>2, <2>3, <2>4, <2>5
       DEF OtherStep, ResolveUnknown, Finalize, ContinueQueued, Supersede, Writes, Wake,
           CallerGone, CancelSend, Start, GatewayUp, GatewayDown, Stop, Stopped, memory
<1>8. CASE UNCHANGED vars
  BY <1>8 DEF vars, memory, apart, DeletionInv, DeletedIsEmpty
<1>9. QED
  BY <1>2, <1>3, <1>4, <1>5, <1>6, <1>7, <1>8, NextSteps DEF ServiceStep

\* A completed deletion leaves no message that is queued, running, waiting or unknown:
\* neither a send that raced with it nor a late claim brings one back.  What can is the
\* INSERT of a sender that was cancelled in it, when it is done after the deletion.
THEOREM DeletionIsComplete == Safety => []DeletedIsEmpty
<1>1. Init => OnceInv /\ DeletionInv
  BY OnceInit DEF Init, DeletionInv, DeletedIsEmpty
<1>2. OnceInv /\ DeletionInv /\ [Next]_vars => OnceInv' /\ DeletionInv'
  BY OnceNext, DeletionNext
<1>3. DeletionInv => DeletedIsEmpty
  BY DEF DeletionInv
<1>4. QED
  BY <1>1, <1>2, <1>3, PTL DEF Safety

-----------------------------------------------------------------------------
(* A restart holds the queue *)

Idle ==
    /\ \A i \in Ids : task[i].pc = "free"
    /\ worker = [l \in Lane |-> 0] /\ fallbacks = {}

\* Before start() and while it holds the queue there is no consumer, and none is being
\* cancelled; a stop() has taken them all out of _workers and _running_fallbacks.
HoldInv ==
    /\ \A i \in Ids : task[i].pc = "free" => ~task[i].cancel
    /\ stopping => worker = [l \in Lane |-> 0] /\ fallbacks = {}
    /\ ~started => stopping \/ (lock = NoSend /\ \A c \in Call : calls[c] = 0)
    /\ (~started \/ held) /\ ~early => Idle

\* What H1 of a step needs: no consumer that is done is cancelled.
Whole == \A i \in Ids : task'[i].pc = "free" => ~task'[i].cancel

\* _workers and _running_fallbacks stay empty while the service stops.
Emptied == stopping' => worker' = [l \in Lane |-> 0] /\ fallbacks' = {}

LEMMA BegunIsWhole ==
    ASSUME OnceInv, HoldInv,
           \/ Begun(task)
           \/ \E i \in Ids : Begun([task EXCEPT ![i] = NoTask])
    PROVE  Whole
<1>1. CASE Begun(task)
  BY <1>1 DEF HoldInv, Begun, Begins, Whole
<1>2. ASSUME NEW i \in Ids, Begun([task EXCEPT ![i] = NoTask])
      PROVE  Whole
  BY <1>2 DEF OnceInv, Types, HoldInv, Begun, Begins, Whole, NoTask
<1>3. QED
  BY <1>1, <1>2

\* Ensuring consumers where none may start changes nothing.
LEMMA EnsureHeld ==
    ASSUME OnceInv, HoldInv, EnsureWorker(worker, task), UNCHANGED <<fallbacks, stopping>>
    PROVE  /\ Whole /\ Emptied
           /\ ~MayStart => UNCHANGED <<worker, task>>
<1>1. task \in [Ids -> Task]
  BY DEF OnceInv, Types
<1>2. Begun(task) /\ (~MayStart => UNCHANGED <<worker, task>>)
  BY <1>1, EnsureWorkerTasks
<1>3. Whole
  BY <1>2, BegunIsWhole
<1>4. Emptied
  BY <1>2 DEF Emptied, MayStart, HoldInv
<1>5. QED
  BY <1>2, <1>3, <1>4

LEMMA LeavesHeld ==
    ASSUME OnceInv, HoldInv, NEW i \in Ids, Leaves(i), UNCHANGED stopping
    PROVE  Whole /\ Emptied
<1>1. task \in [Ids -> Task] /\ task[i].lane \in Lane
  BY DEF OnceInv, Types, Task
<1>2. Begun([task EXCEPT ![i] = NoTask]) /\ (~MayStart => worker' = Deregistered(i))
  BY <1>1, LeavesTasks
<1>3. Whole
  BY <1>2, BegunIsWhole
<1>4. Emptied
  <2>1. SUFFICES ASSUME stopping'
                 PROVE  worker' = [l \in Lane |-> 0] /\ fallbacks' = {}
    BY DEF Emptied
  <2>2. worker = [l \in Lane |-> 0] /\ fallbacks = {} /\ worker' = Deregistered(i)
    BY <1>2, <2>1 DEF HoldInv, MayStart
  <2>3. Deregistered(i) = worker
    BY <1>1, <2>2 DEF Deregistered
  <2>4. QED
    BY <2>2, <2>3 DEF Leaves
<1>5. QED
  BY <1>3, <1>4

LEMMA AroundHeld ==
    ASSUME OnceInv, HoldInv, NEW i \in Ids, UNCHANGED <<worker, fallbacks, stopping>>,
           task' = Around(i)
    PROVE  Whole /\ Emptied
<1>1. task \in [Ids -> Task]
  BY DEF OnceInv, Types
<1>2. Begun(task)
  BY <1>1, AroundTasks DEF Begun
<1>3. QED
  BY <1>2, BegunIsWhole DEF Emptied, HoldInv

LEMMA DeferHeld ==
    ASSUME OnceInv, HoldInv, NEW i \in Ids, NEW m \in Messages, Defer(i, m),
           UNCHANGED <<fallbacks, stopping>>
    PROVE  Whole /\ Emptied
<1>1. Begun(task) /\ task \in [Ids -> Task]
  BY DeferRows DEF OnceInv, Types
<1>2. stopping' => worker' = worker
  <2>1. CASE rec' # rec
    <3>1. EnsureWorker(worker, Around(i)) /\ Around(i) \in [Ids -> Task]
      BY <1>1, <2>1, AroundTasks DEF Defer
    <3>2. QED
      BY <3>1, EnsureWorkerTasks DEF MayStart
  <2>2. CASE rec' = rec
    BY <2>2 DEF Defer
  <2>3. QED
    BY <2>1, <2>2
<1>3. QED
  BY <1>1, <1>2, BegunIsWhole DEF Emptied, HoldInv

LEMMA ConsumerHeld ==
    ASSUME OnceInv, HoldInv, NEW i \in Ids,
           ConsumerStep(i)
    PROVE  HoldInv'
<1>1. UNCHANGED <<started, stopping, held, lock, early, calls>>
  BY DEF ConsumerStep, apart, Loop, Leave, Admit, Claim, Submit, Refuse, Fallback, MarkWaiting,
         Settle, Cancelled, memory
<1>2. ~Idle
  BY DEF ConsumerStep, Loop, Leave, Admit, Claim, Submit, Refuse, Fallback, MarkWaiting, Settle,
         Cancelled, At, Idle, HoldInv
<1>0. SUFFICES Whole /\ Emptied
  BY <1>1, <1>2 DEF Whole, Emptied, HoldInv
<1>3. task \in [Ids -> Task]
  BY DEF OnceInv, Types
<1>4. ASSUME UNCHANGED <<worker, fallbacks>>,
             \A k \in Ids \ {i} : task'[k] = task[k], task'[i].pc # "free"
      PROVE  Whole /\ Emptied
  BY <1>1, <1>4 DEF Whole, Emptied, HoldInv
<1>5. CASE Loop(i)
  <2> DEFINE m == NextQueued(rec, task[i].lane)
  <2>1. UNCHANGED fallbacks
    BY <1>5 DEF Loop
  <2>2. CASE \E pc \in {"leave", "admit", "claim"} :
               task' = [task EXCEPT ![i].pc = pc, ![i].msg = m] /\ UNCHANGED worker
    BY <1>3, <1>4, <2>1, <2>2 DEF Task
  <2>3. CASE m # None /\ Defer(i, m)
    <3>1. m \in Messages
      BY <1>3, <2>3, NextIsQueued DEF OnceInv, Types, Task
    <3>2. QED
      BY <1>1, <2>1, <2>3, <3>1, DeferHeld
  <2>4. QED
    BY <1>5, <2>2, <2>3 DEF Loop
<1>6. CASE Leave(i)
  BY <1>1, <1>6, LeavesHeld DEF Leave
<1>7. CASE Admit(i)
  <2>1. CASE UNCHANGED <<worker, fallbacks>> /\ task' = Around(i)
    BY <1>1, <2>1, AroundHeld
  <2>2. CASE UNCHANGED <<worker, fallbacks>> /\ \E m :
               task' = [task EXCEPT ![i].pc = "claim", ![i].msg = m]
    BY <1>3, <1>4, <2>2 DEF Task
  <2>3. CASE ContinuesOrLeaves(i)
    BY <1>1, <2>3, AroundHeld, LeavesHeld DEF ContinuesOrLeaves, Continues
  <2>4. QED
    BY <1>7, <2>1, <2>2, <2>3 DEF Admit
<1>8. CASE Claim(i)
  <2>1. UNCHANGED <<worker, fallbacks>>
    BY <1>8 DEF Claim
  <2>2. CASE task' = Around(i)
    BY <1>1, <2>1, <2>2, AroundHeld
  <2>3. CASE task' = [task EXCEPT ![i].pc = "exec", ![i].claimed = TRUE]
    BY <1>3, <1>4, <2>1, <2>3 DEF Task
  <2>4. QED
    BY <1>8, <2>2, <2>3 DEF Claim
<1>9. CASE Submit(i)
  <2>1. task'[i].pc = task[i].pc /\ task[i].pc = "exec" /\ \A k \in Ids \ {i} : task'[k] = task[k]
    BY <1>3, <1>9 DEF Submit, At, Task
  <2>2. QED
    BY <1>4, <1>9, <2>1 DEF Submit
<1>10. CASE Refuse(i)
  <2>1. task[i].msg \in Messages /\ Defer(i, task[i].msg) /\ UNCHANGED fallbacks
    BY <1>10 DEF Refuse, At, OnceInv, Chosen
  <2>2. QED
    BY <1>1, <2>1, DeferHeld
<1>11. CASE Fallback(i)
  <2> DEFINE st == [w |-> [worker EXCEPT !["steer"] = 0], t |-> task]
  <2>1. st.t = task /\ "steer" \in Lane
    BY DEF Lane
  <2>2. task' = EnsureLane(st, "steer").t
    BY <1>11 DEF Fallback
  <2> HIDE DEF st
  <2>3. Begun(task)
    BY <1>3, <2>1, <2>2, EnsureLaneTasks DEF Begun
  <2>4. i # 0 /\ worker["steer"] = i
    BY <1>11, MailboxAssumption DEF Fallback, Ids
  <2>5. ~stopping
    BY <2>1, <2>4 DEF HoldInv
  <2>6. QED
    BY <1>1, <2>3, <2>5, BegunIsWhole DEF Emptied
<1>12. CASE MarkWaiting(i)
  BY <1>12 DEF MarkWaiting, memory, HoldInv, Whole, Emptied
<1>13. CASE Settle(i)
  <2>1. ContinuesOrLeaves(i)
    BY <1>13 DEF Settle
  <2>2. QED
    BY <1>1, <2>1, AroundHeld, LeavesHeld DEF ContinuesOrLeaves, Continues
<1>14. CASE Cancelled(i)
  BY <1>1, <1>14, LeavesHeld DEF Cancelled
<1>15. QED
  BY <1>5, <1>6, <1>7, <1>8, <1>9, <1>10, <1>11, <1>12, <1>13, <1>14 DEF ConsumerStep

\* The other steps: consumers begin only where HoldInv has nothing to say.
LEMMA ServiceHeld ==
    ASSUME OnceInv, HoldInv,
           ServiceStep
    PROVE  HoldInv'
<1>1. CASE /\ UNCHANGED <<task, worker, fallbacks, stopping, started, held, early>>
           /\ (lock' \in {lock, NoSend} /\ UNCHANGED calls) \/ started \/ stopping
  BY <1>1 DEF HoldInv, Idle
<1>2. CASE /\ EnsureWorker(worker, task) /\ UNCHANGED <<fallbacks, stopping, started, early>>
           /\ lock' \in {lock, NoSend} /\ (~started => stopping)
           /\ UNCHANGED held \/ ~held'
  <2>1. Whole /\ Emptied /\ (~MayStart => UNCHANGED <<worker, task>>)
    BY <1>2, EnsureHeld
  <2>2. ASSUME ~started' \/ held', ~early'
        PROVE  Idle'
    <3>1. ~MayStart /\ (~started \/ held)
      BY <1>2, <2>2 DEF MayStart
    <3>2. QED
      BY <1>2, <2>1, <2>2, <3>1 DEF HoldInv, Idle
  <2>3. QED
    BY <1>2, <2>1, <2>2 DEF Whole, Emptied, HoldInv
<1>3. CASE Enqueue
  <2>1. lock # NoSend /\ (EnsureWorker(worker, task) \/ UNCHANGED <<worker, task>>)
        /\ UNCHANGED <<fallbacks, stopping, started, early, held, calls>> /\ lock' = NoSend
    BY <1>3 DEF Enqueue, apart
  <2>2. QED
    BY <1>1, <1>2, <2>1 DEF HoldInv
<1>4. CASE \E l \in Lane : Send(l) \/ LateEnqueue(l)
  BY <1>1, <1>4 DEF Send, LateEnqueue, memory, apart
<1>5. CASE \E c \in air : LateClaim(c)
  BY <1>1, <1>5 DEF LateClaim, apart
<1>6. CASE OtherStep
  <2>1. CASE \/ \E m \in Messages : ResolveUnknown(m) \/ Finalize(m)
             \/ ContinueQueued \/ Supersede
    BY <1>1, <2>1 DEF ResolveUnknown, Finalize, ContinueQueued, Supersede, Writes, memory
  <2>2. ASSUME NEW c \in Call, Wake(c)
        PROVE  HoldInv'
    <3>1. /\ EnsureWorker(worker, task) /\ UNCHANGED <<fallbacks, stopping, started, early, lock>>
          /\ calls[c] > 0 /\ (UNCHANGED held \/ ~held')
      BY <2>2 DEF Wake
    <3>2. ~started => stopping
      BY <3>1 DEF HoldInv
    <3>3. QED
      BY <1>2, <3>1, <3>2
  <2>13. ASSUME NEW c \in Call, CallerGone(c)
         PROVE  HoldInv'
    <3>1. /\ UNCHANGED <<task, worker, fallbacks, stopping, started, held, early, lock>>
          /\ calls[c] > 0
      BY <2>13 DEF CallerGone, memory
    <3>2. ~started => stopping
      BY <3>1 DEF HoldInv
    <3>3. started \/ stopping
      BY <3>2
    <3>4. QED
      BY <1>1, <3>1, <3>3
  <2>14. CASE CancelSend
    BY <1>1, <2>14 DEF CancelSend
  <2>3. CASE GatewayUp
    <3>1. UNCHANGED <<fallbacks, stopping, started, early, held, lock, calls>>
      BY <2>3 DEF GatewayUp, apart
    <3>2. (started /\ EnsureWorker(worker, task)) \/ UNCHANGED <<worker, task>>
      BY <2>3 DEF GatewayUp
    <3>3. QED
      BY <1>1, <1>2, <3>1, <3>2
  <2>4. CASE GatewayDown \/ AcceptDelete \/ ConsumersStopped \/ RemoveTarget \/ TargetDeleted
    BY <1>1, <2>4
       DEF GatewayDown, AcceptDelete, ConsumersStopped, RemoveTarget, TargetDeleted, memory, apart
  <2>5. CASE Start
    BY <2>5 DEF Start, HoldInv, Idle
  <2>6. CASE Stopped
    BY <2>6 DEF Stopped, HoldInv, Idle
  <2>7. CASE Crash
    BY <2>7 DEF Crash, HoldInv, Idle, NoTask
  <2>8. ASSUME NEW T, CancelTasks(T)
        PROVE  /\ Whole
               /\ \A i \in Ids : task'[i].pc = task[i].pc
    <3>1. task \in [Ids -> Task]
      BY DEF OnceInv, Types
    <3>2. \A i \in Ids : \/ task'[i] = task[i]
                         \/ task[i].pc # "free" /\ task'[i] = [task[i] EXCEPT !.cancel = TRUE]
      BY <2>8 DEF CancelTasks
    <3>3. \A i \in Ids : [task[i] EXCEPT !.cancel = TRUE].pc = task[i].pc
      BY <3>1 DEF Task
    <3>4. QED
      BY <3>2, <3>3 DEF Whole, HoldInv
  <2>9. CASE BeginDelete
    <3>1. Whole /\ \A i \in Ids : task'[i].pc = task[i].pc
      BY <2>8, <2>9 DEF BeginDelete
    <3>2. QED
      BY <2>9, <3>1 DEF BeginDelete, Whole, HoldInv, Idle, apart
  <2>10. CASE Stop
    <3>1. Whole /\ \A i \in Ids : task'[i].pc = task[i].pc
      BY <2>8, <2>10 DEF Stop
    <3>2. QED
      BY <2>10, <3>1 DEF Stop, Whole, HoldInv, Idle, apart
  <2>11. CASE AbortDelete
    <3>1. EnsureWorker(worker, task) /\ early' = (early \/ ~started)
          /\ UNCHANGED <<fallbacks, stopping, held, started, lock, calls>>
      BY <2>11 DEF AbortDelete, apart
    <3>2. Whole /\ Emptied /\ (~MayStart => UNCHANGED <<worker, task>>)
      BY <3>1, EnsureHeld
    <3>3. ASSUME ~started' \/ held', ~early'
          PROVE  Idle'
      <4>1. ~MayStart /\ held /\ ~early
        BY <3>1, <3>3 DEF MayStart
      <4>2. QED
        BY <3>1, <3>2, <4>1 DEF HoldInv, Idle
    <3>4. QED
      BY <3>1, <3>2, <3>3 DEF Whole, Emptied, HoldInv
  <2>12. QED
    BY <1>6, <2>1, <2>2, <2>3, <2>4, <2>5, <2>6, <2>7, <2>9, <2>10, <2>11, <2>13, <2>14
       DEF OtherStep
<1>7. QED
  BY <1>3, <1>4, <1>5, <1>6 DEF ServiceStep

LEMMA HoldNext ==
    ASSUME OnceInv, HoldInv, [Next]_vars
    PROVE  HoldInv'
<1>1. CASE UNCHANGED vars
  BY <1>1 DEF vars, memory, apart, HoldInv, Idle
<1>2. QED
  BY <1>1, ConsumerHeld, ServiceHeld, NextSteps

\* The Runtime is given a message only in a Submit, by a consumer that lives.
LEMMA SubmitsOnlySubmit ==
    ASSUME OnceInv, [Next]_vars, UNCHANGED submits \/ \E i \in Ids : Submit(i), HoldInv
    PROVE  \A m \in Messages : submits'[m] # submits[m] => ~held \/ early
<1>1. CASE \E i \in Ids : Submit(i)
  BY <1>1 DEF Submit, At, HoldInv, Idle
<1>2. QED
  BY <1>1

\* After a restart no message is given to the Runtime until a user lets the queue go on,
\* unless an aborted deletion began consumers before start().
THEOREM RestartHolds == Safety => HeldStaysBack
<1>1. Init => OnceInv /\ HoldInv
  <2> SUFFICES ASSUME Init
               PROVE  OnceInv /\ HoldInv
    OBVIOUS
  <2>1. \A i \in Ids : task[i].pc = "free" /\ ~task[i].cancel
    BY DEF Init, NoTask
  <2>2. QED
    BY <2>1, OnceInit DEF Init, HoldInv
<1>2. OnceInv /\ HoldInv /\ [Next]_vars => OnceInv' /\ HoldInv'
  BY OnceNext, HoldNext
<1>3. OnceInv /\ HoldInv /\ [Next]_vars =>
        [\A m \in Messages : submits'[m] # submits[m] => ~held \/ early]_vars
  <2> SUFFICES ASSUME OnceInv, HoldInv, [Next]_vars
               PROVE  \A m \in Messages : submits'[m] # submits[m] => ~held \/ early
    OBVIOUS
  <2>1. UNCHANGED submits \/ \E i \in Ids : Submit(i)
    <3>1. CASE OtherStep
      BY <3>1, OtherSteps
    <3>2. QED
      BY <3>1, NextSteps
         DEF ConsumerStep, ServiceStep, Loop, Leave, Admit, Claim, Refuse, Fallback,
             MarkWaiting, Settle, Cancelled, LateClaim, LateEnqueue, Enqueue, Send, vars
  <2>2. QED
    BY <2>1, SubmitsOnlySubmit
<1>4. QED
  BY <1>1, <1>2, <1>3, PTL DEF Safety, HeldStaysBack

-----------------------------------------------------------------------------
(* Consumers and where they are registered *)

\* What is in _workers is alive and serves the lane it is registered for.
Placed(w, t) ==
    /\ w \in [Lane -> Ids \cup {0}] /\ t \in [Ids -> Task]
    /\ \A l \in Lane : w[l] # 0 => t[w[l]].pc # "free" /\ t[w[l]].lane = l

\* Strengthens TypeOK: without the lane of a registered consumer its end could leave
\* its registration behind.
WorkInv ==
    /\ Placed(worker, task)
    /\ fallbacks \subseteq Ids /\ \A i \in fallbacks : task[i].pc # "free"
    /\ admitted \in Ids \cup {0} /\ awaited \subseteq Ids
    /\ orphans \subseteq Messages /\ strays \subseteq Messages
    /\ calls \in [Call -> 0..MaxCalls] /\ late \in [Lane -> Nat]
    /\ deletion \in {"no", "accepted", "stopping", "stopped", "removed", "clearing", "cleared",
                     "deleted"}
    /\ faults \in 0..MaxFaults
    /\ started \in BOOLEAN /\ stopping \in BOOLEAN /\ available \in BOOLEAN
    /\ blocked \in BOOLEAN /\ held \in BOOLEAN /\ early \in BOOLEAN /\ unwoken \in BOOLEAN

\* A consumer has claimed what it executes, and nothing else.
Claims ==
    \A i \in Ids : /\ task[i].pc = "exec" => task[i].claimed
                   /\ task[i].claimed => task[i].pc = "exec"

\* A message is executed in its own lane.
InLane == \A i \in Ids : task[i].pc = "exec" => rec[task[i].msg].lane = task[i].lane

\* The inductive invariant behind RunningIsOwned.
OwnInv == Claims /\ InLane /\ RunningIsOwned

\* A message sent as a task is never a steer; rows appear in the order of the sequence.
RowsInOrder ==
    /\ \A m \in Messages : rec[m].status # "none" /\ rec[m].asked = "task" => rec[m].lane = "task"
    /\ \A m, n \in Messages : n < m /\ rec[m].status # "none" => rec[n].status # "none"

\* The task that is claimed or executed holds the target's admission.
Admitted ==
    \A i \in Ids : task[i].pc \in {"claim", "exec"} /\ task[i].lane = "task" => admitted = i

\* A row that holds no task back.
Clean(m) ==
    \/ m \in orphans \/ rec[m].lane # "task"
    \/ rec[m].status \in {"none", "queued", "ended"} \/ rec[m].released

\* A task about to be claimed finds nothing in its way.
ClearWay ==
    \A i \in Ids : task[i].pc = "claim" /\ task[i].lane = "task" /\ ~early =>
        \A m \in Messages : Clean(m)

\* What is about to be claimed is the first of those sent as tasks.
FirstOfTasks ==
    \A i \in Ids : task[i].pc = "claim" =>
        /\ rec[task[i].msg].status # "none"
        /\ rec[task[i].msg].asked = "task" =>
             \A m \in Messages : m < task[i].msg /\ rec[m].asked = "task" =>
                 rec[m].status # "queued"

\* The inductive invariant behind TasksInTurn.
TurnInv == RowsInOrder /\ Admitted /\ ClearWay /\ FirstOfTasks

\* The smallest consumer that is free.
LEMMA FreeTask ==
    ASSUME NEW t \in [Ids -> Task], \E k \in Ids : t[k].pc = "free"
    PROVE  \E k \in Ids : t[k].pc = "free" /\ \A n \in 1..(k-1) : t[n].pc # "free"
<1> DEFINE Q == {k \in Ids : t[k].pc = "free"}
<1>1. Q \subseteq Nat /\ Q # {}
  BY MailboxAssumption DEF Ids
<1>2. \E k \in Q : \A n \in Q : ~(<<n, k>> \in OpToRel(<, Nat))
  <2> HIDE DEF Q
  <2> QED
    BY <1>1, NatLessThanWellFounded, WFMin, Zenon
<1>3. PICK k \in Q : \A n \in Q : ~(<<n, k>> \in OpToRel(<, Nat))
  BY <1>2
<1>4. k \in Nat /\ \A n \in Q : ~(n < k)
  <2> HIDE DEF Q
  <2> QED
    BY <1>1, <1>3 DEF OpToRel
<1>5. ASSUME NEW n \in 1..(k-1)
      PROVE  t[n].pc # "free"
  <2>1. n \in Ids /\ n < k
    BY <1>4, MailboxAssumption DEF Ids
  <2>2. QED
    BY <1>4, <2>1
<1>6. QED
  BY <1>5

Newborn(l) == [NoTask EXCEPT !.pc = "loop", !.lane = l]

LEMMA NewbornFacts ==
    ASSUME NEW l \in Lane
    PROVE  Newborn(l) \in Task /\ Newborn(l).lane = l /\ Begins(Newborn(l))
BY DEF Newborn, NoTask, Task, Begins

\* Of the consumers in t none that is alive is touched on the way to u.
Spares(t, u) ==
    \A k \in Ids : u[k] = t[k] \/ (t[k].pc = "free" /\ Begins(u[k]))

\* _ensure_delivery_worker begins a consumer in a place that is free.
LEMMA EnsureLanePlaces ==
    ASSUME NEW st, Placed(st.w, st.t), NEW l \in Lane, Room(st, l)
    PROVE  /\ Placed(EnsureLane(st, l).w, EnsureLane(st, l).t)
           /\ Spares(st.t, EnsureLane(st, l).t)
<1>1. CASE ~MayStart \/ st.w[l] # 0
  BY <1>1 DEF EnsureLane, Spares
<1>2. CASE MayStart /\ st.w[l] = 0
  <2>1. st.t \in [Ids -> Task] /\ st.w \in [Lane -> Ids \cup {0}]
    BY DEF Placed
  <2>2. \E k \in Ids : st.t[k].pc = "free"
    BY <1>2 DEF Room
  <2>3. \E k \in Ids : st.t[k].pc = "free" /\ \A n \in 1..(k-1) : st.t[n].pc # "free"
    BY <2>1, <2>2, FreeTask
  <2>4. PICK i \in Ids : /\ st.t[i].pc = "free"
                         /\ EnsureLane(st, l) = [w |-> [st.w EXCEPT ![l] = i],
                                                 t |-> [st.t EXCEPT ![i] = Newborn(l)]]
    <3> DEFINE i == CHOOSE k \in Ids : st.t[k].pc = "free"
                                       /\ \A n \in 1..(k-1) : st.t[n].pc # "free"
    <3>1. i \in Ids /\ st.t[i].pc = "free"
      BY <2>3
    <3>2. EnsureLane(st, l) = [w |-> [st.w EXCEPT ![l] = i],
                               t |-> [st.t EXCEPT ![i] = Newborn(l)]]
      BY <1>2 DEF EnsureLane, Newborn
    <3> HIDE DEF i
    <3>3. QED
      BY <3>1, <3>2
  <2>5. PICK w, t : /\ w = [st.w EXCEPT ![l] = i] /\ t = [st.t EXCEPT ![i] = Newborn(l)]
                    /\ EnsureLane(st, l).w = w /\ EnsureLane(st, l).t = t
    BY <2>4
  <2>6. /\ t \in [Ids -> Task] /\ w \in [Lane -> Ids \cup {0}]
        /\ w[l] = i /\ \A m \in Lane \ {l} : w[m] = st.w[m]
        /\ t[i] = Newborn(l) /\ \A k \in Ids \ {i} : t[k] = st.t[k]
    BY <2>1, <2>5, NewbornFacts
  <2>7. t[i].lane = l /\ t[i].pc = "loop" /\ Begins(t[i])
    BY <2>6, NewbornFacts DEF Begins
  <2>8. ASSUME NEW m \in Lane \ {l}, w[m] # 0
        PROVE  t[w[m]].pc # "free" /\ t[w[m]].lane = m
    <3>1. PICK j : j = st.w[m]
      OBVIOUS
    <3>2. j # 0 /\ w[m] = j /\ j \in Ids /\ st.t[j].pc # "free" /\ st.t[j].lane = m
      BY <2>1, <2>6, <2>8, <3>1 DEF Placed
    <3>3. t[j] = st.t[j]
      BY <2>4, <2>6, <3>2
    <3>4. QED
      BY <3>2, <3>3
  <2>9. Placed(w, t)
    BY <2>6, <2>7, <2>8 DEF Placed
  <2>10. Spares(st.t, t)
    BY <2>4, <2>6, <2>7 DEF Spares
  <2>11. QED
    BY <2>5, <2>9, <2>10
<1>3. QED
  BY <1>1, <1>2

LEMMA EnsureWorkerPlaces ==
    ASSUME NEW w, NEW t, Placed(w, t), EnsureWorker(w, t)
    PROVE  Placed(worker', task') /\ Spares(t, task')
<1>0. PICK s0 : s0 = [w |-> w, t |-> t]
  OBVIOUS
<1>1. s0 = [w |-> w, t |-> t] /\ s0.w = w /\ s0.t = t
  BY <1>0
<1>2. PICK s1 : s1 = EnsureLane(s0, "task")
  OBVIOUS
<1>3. "task" \in Lane /\ "steer" \in Lane
  BY DEF Lane
<1>4. /\ Room(s0, "task") /\ Room(s1, "steer")
      /\ worker' = EnsureLane(s1, "steer").w /\ task' = EnsureLane(s1, "steer").t
  BY <1>1, <1>2 DEF EnsureWorker
<1>5. Placed(s1.w, s1.t) /\ Spares(t, s1.t)
  BY <1>1, <1>2, <1>3, <1>4, EnsureLanePlaces
<1>6. Placed(worker', task') /\ Spares(s1.t, task')
  BY <1>3, <1>4, <1>5, EnsureLanePlaces
<1>7. Spares(t, task')
  BY <1>5, <1>6 DEF Spares, Begins
<1>8. QED
  BY <1>6, <1>7

\* The consumer's own change of t, and the place it leaves.
LEMMA LeavesPlaces ==
    ASSUME Placed(worker, task), NEW i \in Ids, task[i].pc # "free", Leaves(i)
    PROVE  /\ Placed(worker', task') /\ Spares([task EXCEPT ![i] = NoTask], task')
           /\ fallbacks' = fallbacks \ {i}
<1>1. task \in [Ids -> Task] /\ worker \in [Lane -> Ids \cup {0}]
  BY DEF Placed
<1>2. PICK l \in Lane : l = task[i].lane
  BY <1>1 DEF Task
<1>3. PICK t : t = [task EXCEPT ![i] = NoTask]
  OBVIOUS
<1>4. PICK w : w = Deregistered(i)
  OBVIOUS
<1>5. NoTask \in Task /\ NoTask.pc = "free"
  BY DEF NoTask, Task, Lane, None
<1>6. t \in [Ids -> Task] /\ t[i].pc = "free" /\ \A k \in Ids \ {i} : t[k] = task[k]
  BY <1>1, <1>3, <1>5
<1>7. /\ w \in [Lane -> Ids \cup {0}] /\ \A m \in Lane \ {l} : w[m] = worker[m]
      /\ w[l] = IF worker[l] = i THEN 0 ELSE worker[l]
  BY <1>1, <1>2, <1>4 DEF Deregistered
<1>8. Placed(w, t)
  <2>1. ASSUME NEW m \in Lane, w[m] # 0
        PROVE  t[w[m]].pc # "free" /\ t[w[m]].lane = m
    <3>1. PICK j : j = worker[m]
      OBVIOUS
    <3>2. w[m] = j /\ j # 0 /\ (m = l => j # i)
      BY <1>7, <2>1, <3>1
    <3>3. j \in Ids /\ task[j].pc # "free" /\ task[j].lane = m
      BY <1>1, <3>1, <3>2 DEF Placed
    <3>4. j # i
      BY <1>2, <3>2, <3>3
    <3>5. t[j] = task[j]
      BY <1>6, <3>3, <3>4
    <3>6. QED
      BY <3>2, <3>3, <3>5
  <2>2. QED
    BY <1>6, <1>7, <2>1 DEF Placed
<1>0. PICK s0 : s0 = [w |-> w, t |-> t]
  OBVIOUS
<1>9. s0 = [w |-> w, t |-> t] /\ s0.w = w /\ s0.t = t
  BY <1>0
<1>10. /\ worker' = Rearmed(s0, l).w /\ task' = Rearmed(s0, l).t
       /\ fallbacks' = fallbacks \ {i}
  BY <1>2, <1>3, <1>4, <1>9 DEF Leaves
<1>11. Room(s0, l)
  BY <1>6, <1>9 DEF Room
<1>12. /\ Placed(EnsureLane(s0, l).w, EnsureLane(s0, l).t)
       /\ Spares(t, EnsureLane(s0, l).t)
  BY <1>8, <1>9, <1>11, EnsureLanePlaces
<1>13. Rearmed(s0, l) = s0 \/ Rearmed(s0, l) = EnsureLane(s0, l)
  BY DEF Rearmed
<1>14. QED
  BY <1>3, <1>8, <1>9, <1>10, <1>12, <1>13 DEF Spares

-----------------------------------------------------------------------------
(* What a consumer's step does to itself and to the others *)

\* The others stay as they are; a place that was free may be filled.
Beside(i) ==
    /\ Placed(worker', task')
    /\ \A k \in Ids \ {i} : task'[k] = task[k] \/ (task[k].pc = "free" /\ Begins(task'[k]))
    /\ fallbacks' \subseteq Ids /\ \A k \in fallbacks' : task'[k].pc # "free"

\* The consumer neither claims nor executes.
Sits(i) == task'[i].pc \notin {"claim", "exec"} /\ ~task'[i].claimed

LEMMA AroundPlaces ==
    ASSUME Placed(worker, task), NEW i \in Ids, task[i].pc # "free"
    PROVE  /\ Placed(worker, Around(i))
           /\ \A k \in Ids \ {i} : Around(i)[k] = task[k]
           /\ Around(i)[i].pc = "loop" /\ ~Around(i)[i].claimed
<1>1. task \in [Ids -> Task] /\ worker \in [Lane -> Ids \cup {0}]
  BY DEF Placed
<1>2. PICK c : c = [NoTask EXCEPT !.pc = "loop", !.lane = task[i].lane, !.cancel = task[i].cancel]
  OBVIOUS
<1>3. c \in Task /\ c.pc = "loop" /\ c.lane = task[i].lane /\ ~c.claimed
  BY <1>1, <1>2 DEF Task, NoTask, None
<1>4. PICK t : t = Around(i)
  OBVIOUS
<1>5. t \in [Ids -> Task] /\ t[i] = c /\ \A k \in Ids \ {i} : t[k] = task[k]
  BY <1>1, <1>2, <1>3, <1>4 DEF Around
<1>6. \A k \in Ids : t[k].lane = task[k].lane /\ (task[k].pc # "free" => t[k].pc # "free")
  BY <1>3, <1>5
<1>7. Placed(worker, t)
  BY <1>1, <1>5, <1>6 DEF Placed
<1>8. QED
  BY <1>3, <1>4, <1>5, <1>7

\* The ways in which a consumer ends a round.
LEMMA RoundEnds ==
    ASSUME WorkInv, NEW i \in Ids, task[i].pc # "free",
           \/ task' = Around(i) /\ UNCHANGED <<worker, fallbacks>>
           \/ EnsureWorker(worker, Around(i)) /\ UNCHANGED fallbacks
           \/ Leaves(i)
    PROVE  Beside(i) /\ Sits(i)
<1>1. /\ Placed(worker, task) /\ fallbacks \subseteq Ids
      /\ \A k \in fallbacks : task[k].pc # "free"
  BY DEF WorkInv
<1>2. PICK t : t = Around(i)
  OBVIOUS
<1>3. /\ Placed(worker, t) /\ \A k \in Ids \ {i} : t[k] = task[k]
      /\ t[i].pc = "loop" /\ ~t[i].claimed
  BY <1>1, <1>2, AroundPlaces
<1>4. CASE task' = t /\ UNCHANGED <<worker, fallbacks>>
  <2>1. \A k \in fallbacks' : task'[k].pc # "free"
    BY <1>1, <1>3, <1>4
  <2>2. QED
    BY <1>1, <1>3, <1>4, <2>1 DEF Beside, Sits
<1>5. CASE EnsureWorker(worker, t) /\ UNCHANGED fallbacks
  <2>1. Placed(worker', task') /\ Spares(t, task')
    BY <1>3, <1>5, EnsureWorkerPlaces
  <2>2. task'[i] = t[i]
    BY <1>3, <2>1 DEF Spares
  <2>3. \A k \in Ids \ {i} : task'[k] = task[k] \/ (task[k].pc = "free" /\ Begins(task'[k]))
    BY <1>3, <2>1 DEF Spares
  <2>4. \A k \in fallbacks' : task'[k].pc # "free"
    BY <1>1, <1>3, <1>5, <2>2, <2>3 DEF Begins
  <2>5. QED
    BY <1>1, <1>3, <1>5, <2>1, <2>2, <2>3, <2>4 DEF Beside, Sits
<1>6. CASE Leaves(i)
  <2>1. PICK u : u = [task EXCEPT ![i] = NoTask]
    OBVIOUS
  <2>2. Placed(worker', task') /\ Spares(u, task') /\ fallbacks' = fallbacks \ {i}
    BY <1>1, <1>6, <2>1, LeavesPlaces
  <2>3. u[i] = NoTask /\ \A k \in Ids \ {i} : u[k] = task[k]
    BY <1>1, <2>1 DEF Placed
  <2>4. NoTask.pc = "free" /\ ~NoTask.claimed
    BY DEF NoTask
  <2>5. Sits(i)
    BY <2>2, <2>3, <2>4 DEF Spares, Begins, Sits
  <2>6. \A k \in Ids \ {i} : task'[k] = task[k] \/ (task[k].pc = "free" /\ Begins(task'[k]))
    BY <2>2, <2>3 DEF Spares
  <2>7. \A k \in fallbacks' : task'[k].pc # "free"
    BY <1>1, <2>2, <2>6 DEF Begins
  <2>8. QED
    BY <1>1, <2>2, <2>5, <2>6, <2>7 DEF Beside
<1>7. QED
  BY <1>2, <1>4, <1>5, <1>6

\* A consumer that stays in its place.
LEMMA StaysBeside ==
    ASSUME WorkInv, NEW i \in Ids, UNCHANGED <<worker, fallbacks>>, task' \in [Ids -> Task],
           \A k \in Ids \ {i} : task'[k] = task[k],
           task'[i].pc # "free", task'[i].lane = task[i].lane
    PROVE  Beside(i)
<1>1. Placed(worker', task')
  <2>1. \A k \in Ids : task'[k].lane = task[k].lane /\ (task[k].pc # "free" => task'[k].pc # "free")
    OBVIOUS
  <2>2. QED
    BY <2>1 DEF WorkInv, Placed
<1>2. \A k \in fallbacks' : task'[k].pc # "free"
  BY DEF WorkInv
<1>3. QED
  BY <1>1, <1>2 DEF Beside, WorkInv

LEMMA DeferMoves ==
    ASSUME WorkInv, NEW i \in Ids, NEW m, task[i].pc # "free", Defer(i, m), UNCHANGED fallbacks
    PROVE  Beside(i) /\ Sits(i)
BY RoundEnds DEF Defer

LEMMA ContinuesMoves ==
    ASSUME WorkInv, NEW i \in Ids, task[i].pc # "free", ContinuesOrLeaves(i)
    PROVE  Beside(i) /\ Sits(i)
BY RoundEnds DEF ContinuesOrLeaves, Continues

LEMMA LoopMoves ==
    ASSUME OnceInv, WorkInv, Claims, NEW i \in Ids, Loop(i)
    PROVE  /\ Beside(i)
           /\ \/ Sits(i)
              \/ /\ task'[i].pc = "claim" /\ ~task'[i].claimed /\ task'[i].lane = "steer"
                 /\ task'[i].msg = NextQueued(rec, "steer") /\ task'[i].msg # None
                 /\ UNCHANGED rec
           /\ UNCHANGED rec \/ (NextQueued(rec, "steer") # None /\ Defer(i, NextQueued(rec, "steer")))
<1>1. /\ task \in [Ids -> Task] /\ rec \in [Messages -> Row] /\ task[i].lane \in Lane
      /\ task[i].pc = "loop" /\ ~task[i].claimed
  BY DEF OnceInv, Types, Task, Loop, At, Claims
<1>2. PICK m : m = NextQueued(rec, task[i].lane)
  OBVIOUS
<1>3. m \in Messages \cup {None}
  BY <1>1, <1>2, NextIsQueued
<1>4. UNCHANGED fallbacks
  BY DEF Loop
<1>5. ASSUME NEW pc \in {"leave", "admit", "claim"}, UNCHANGED <<rec, worker>>,
             task' = [task EXCEPT ![i].pc = pc, ![i].msg = m]
      PROVE  /\ Beside(i) /\ task'[i].pc = pc /\ task'[i].msg = m /\ ~task'[i].claimed
             /\ task'[i].lane = task[i].lane
  <2>1. PICK c : c = [task[i] EXCEPT !.pc = pc, !.msg = m]
    OBVIOUS
  <2>2. c \in Task /\ c.pc = pc /\ c.msg = m /\ c.claimed = task[i].claimed /\ c.lane = task[i].lane
    BY <1>1, <1>3, <2>1 DEF Task
  <2>3. task' = [task EXCEPT ![i] = c]
    BY <1>1, <1>5, <2>1
  <2>4. task' \in [Ids -> Task] /\ task'[i] = c /\ \A k \in Ids \ {i} : task'[k] = task[k]
    BY <1>1, <2>2, <2>3
  <2>5. Beside(i)
    BY <1>4, <1>5, <2>2, <2>4, StaysBeside
  <2>6. QED
    BY <1>1, <2>2, <2>4, <2>5
<1>6. CASE \E pc \in {"leave", "admit"} :
             task' = [task EXCEPT ![i].pc = pc, ![i].msg = m] /\ UNCHANGED <<rec, worker>>
  BY <1>5, <1>6 DEF Sits
<1>7. CASE /\ m # None /\ task[i].lane = "steer"
           /\ task' = [task EXCEPT ![i].pc = "claim", ![i].msg = m] /\ UNCHANGED <<rec, worker>>
  BY <1>2, <1>5, <1>7
<1>8. CASE m # None /\ task[i].lane = "steer" /\ Defer(i, m)
  BY <1>1, <1>2, <1>4, <1>8, DeferMoves
<1>9. QED
  BY <1>2, <1>6, <1>7, <1>8 DEF Loop

LEMMA AdmitMoves ==
    ASSUME OnceInv, WorkInv, Claims, NEW i \in Ids, Admit(i)
    PROVE  /\ Beside(i)
           /\ \/ Sits(i) /\ UNCHANGED admitted
              \/ /\ task'[i].pc = "claim" /\ ~task'[i].claimed
                 /\ task'[i].msg = NextQueued(rec', "task") /\ task'[i].msg # None
                 /\ admitted = 0 /\ admitted' = i
<1>1. /\ task \in [Ids -> Task] /\ rec \in [Messages -> Row] /\ "task" \in Lane
      /\ task[i].pc = "admit" /\ ~task[i].claimed
  BY DEF OnceInv, Types, Admit, At, Claims, Lane
<1>2. rec' \in [Messages -> Row]
  BY AdmitStep DEF Onward
<1>3. PICK m : m = NextQueued(rec', "task")
  OBVIOUS
<1>4. m \in Messages \cup {None}
  BY <1>1, <1>2, <1>3, NextIsQueued
<1>5. CASE ContinuesOrLeaves(i) /\ UNCHANGED admitted
  BY <1>1, <1>5, ContinuesMoves
<1>6. CASE task' = Around(i) /\ UNCHANGED <<worker, fallbacks, admitted>>
  BY <1>1, <1>6, RoundEnds
<1>7. CASE /\ m # None /\ admitted = 0 /\ admitted' = i /\ UNCHANGED <<worker, fallbacks>>
           /\ task' = [task EXCEPT ![i].pc = "claim", ![i].msg = m]
  <2>1. PICK c : c = [task[i] EXCEPT !.pc = "claim", !.msg = m]
    OBVIOUS
  <2>2. /\ c \in Task /\ c.pc = "claim" /\ c.msg = m /\ c.claimed = task[i].claimed
        /\ c.lane = task[i].lane
    BY <1>1, <1>4, <2>1 DEF Task
  <2>3. task' = [task EXCEPT ![i] = c]
    BY <1>1, <1>7, <2>1
  <2>4. task' \in [Ids -> Task] /\ task'[i] = c /\ \A k \in Ids \ {i} : task'[k] = task[k]
    BY <1>1, <2>2, <2>3
  <2>5. Beside(i)
    BY <1>7, <2>2, <2>4, StaysBeside
  <2>6. QED
    BY <1>1, <1>3, <1>7, <2>2, <2>4, <2>5
<1>8. QED
  BY <1>3, <1>5, <1>6, <1>7 DEF Admit

LEMMA ClaimMoves ==
    ASSUME OnceInv, WorkInv, Claims, NEW i \in Ids, Claim(i)
    PROVE  /\ Beside(i)
           /\ \/ Sits(i) /\ UNCHANGED rec /\ admitted' = Released(i)
              \/ /\ task'[i].pc = "exec" /\ task'[i].claimed /\ task'[i].msg = task[i].msg
                 /\ task'[i].lane = task[i].lane /\ UNCHANGED admitted
                 /\ Claimable(task[i].msg, task[i].lane)
                 /\ rec' = [rec EXCEPT ![task[i].msg].status = "running"]
<1>1. task \in [Ids -> Task] /\ task[i].pc = "claim" /\ UNCHANGED <<worker, fallbacks>>
  BY DEF OnceInv, Types, Claim, At
<1>2. CASE task' = Around(i) /\ admitted' = Released(i) /\ UNCHANGED rec
  BY <1>1, <1>2, RoundEnds
<1>3. CASE /\ task' = [task EXCEPT ![i].pc = "exec", ![i].claimed = TRUE] /\ UNCHANGED admitted
           /\ Claimable(task[i].msg, task[i].lane)
           /\ rec' = [rec EXCEPT ![task[i].msg].status = "running"]
  <2>1. PICK c : c = [task[i] EXCEPT !.pc = "exec", !.claimed = TRUE]
    OBVIOUS
  <2>2. /\ c \in Task /\ c.pc = "exec" /\ c.msg = task[i].msg /\ c.claimed
        /\ c.lane = task[i].lane
    BY <1>1, <2>1 DEF Task
  <2>3. task' = [task EXCEPT ![i] = c]
    BY <1>1, <1>3, <2>1
  <2>4. task' \in [Ids -> Task] /\ task'[i] = c /\ \A k \in Ids \ {i} : task'[k] = task[k]
    BY <1>1, <2>2, <2>3
  <2>5. Beside(i)
    BY <1>1, <2>2, <2>4, StaysBeside
  <2>6. QED
    BY <1>3, <2>2, <2>4, <2>5
<1>4. QED
  BY <1>2, <1>3 DEF Claim

\* The consumer is where it was.
Remains(i) ==
    /\ task'[i].pc = task[i].pc /\ task'[i].msg = task[i].msg
    /\ task'[i].lane = task[i].lane /\ task'[i].claimed = task[i].claimed

LEMMA SubmitMoves ==
    ASSUME OnceInv, WorkInv, NEW i \in Ids, Submit(i)
    PROVE  Beside(i) /\ Remains(i)
<1>1. /\ task \in [Ids -> Task] /\ task[i].pc = "exec" /\ UNCHANGED <<worker, fallbacks>>
      /\ task' = [task EXCEPT ![i].sent = TRUE]
  BY DEF OnceInv, Types, Submit, At
<1>2. PICK c : c = [task[i] EXCEPT !.sent = TRUE]
  OBVIOUS
<1>3. /\ c \in Task /\ c.pc = task[i].pc /\ c.msg = task[i].msg /\ c.claimed = task[i].claimed
      /\ c.lane = task[i].lane
  BY <1>1, <1>2 DEF Task
<1>4. task' = [task EXCEPT ![i] = c]
  BY <1>1, <1>2
<1>5. task' \in [Ids -> Task] /\ task'[i] = c /\ \A k \in Ids \ {i} : task'[k] = task[k]
  BY <1>1, <1>3, <1>4
<1>6. Beside(i)
  BY <1>1, <1>3, <1>5, StaysBeside
<1>7. QED
  BY <1>3, <1>5, <1>6 DEF Remains

\* The lane gets a consumer beside the one that goes on with its message.
LEMMA FallbackMoves ==
    ASSUME OnceInv, WorkInv, NEW i \in Ids, Fallback(i)
    PROVE  Beside(i) /\ Remains(i)
<1>1. /\ task \in [Ids -> Task] /\ worker \in [Lane -> Ids \cup {0}] /\ task[i].pc = "exec"
      /\ worker["steer"] = i /\ "steer" \in Lane /\ fallbacks \subseteq Ids
      /\ \A k \in fallbacks : task[k].pc # "free"
  BY DEF OnceInv, Types, Fallback, At, WorkInv, Placed, Lane
<1>2. PICK w : w = [worker EXCEPT !["steer"] = 0]
  OBVIOUS
<1>3. Placed(w, task)
  <2>1. w \in [Lane -> Ids \cup {0}] /\ \A l \in Lane : w[l] = 0 \/ w[l] = worker[l]
    BY <1>1, <1>2
  <2>2. QED
    BY <2>1 DEF WorkInv, Placed
<1>4. PICK st : st = [w |-> w, t |-> task]
  OBVIOUS
<1>5. st.w = w /\ st.t = task
  BY <1>4
<1>6. /\ Room(st, "steer") /\ fallbacks' = fallbacks \cup {i}
      /\ worker' = EnsureLane(st, "steer").w /\ task' = EnsureLane(st, "steer").t
  BY <1>2, <1>4 DEF Fallback
<1>7. Placed(worker', task') /\ Spares(task, task')
  BY <1>1, <1>3, <1>5, <1>6, EnsureLanePlaces
<1>8. task'[i] = task[i]
  BY <1>1, <1>7 DEF Spares
<1>9. \A k \in fallbacks' : task'[k].pc # "free"
  BY <1>1, <1>6, <1>7, <1>8 DEF Spares
<1>10. QED
  BY <1>1, <1>6, <1>7, <1>8, <1>9 DEF Beside, Remains, Spares

LEMMA EndMoves ==
    ASSUME OnceInv, WorkInv, HoldInv, NEW i \in Ids,
           Leave(i) \/ Refuse(i) \/ Settle(i) \/ Cancelled(i)
    PROVE  Beside(i) /\ Sits(i)
<1>1. task[i].pc # "free"
  BY DEF Leave, Refuse, Settle, Cancelled, At, HoldInv
<1>2. CASE Leave(i) \/ Cancelled(i)
  BY <1>1, <1>2, RoundEnds DEF Leave, Cancelled
<1>3. CASE Refuse(i)
  BY <1>1, <1>3, DeferMoves DEF Refuse
<1>4. CASE Settle(i)
  BY <1>1, <1>4, ContinuesMoves DEF Settle
<1>5. QED
  BY <1>2, <1>3, <1>4

LEMMA MarkWaitingMoves ==
    ASSUME OnceInv, WorkInv, NEW i \in Ids, MarkWaiting(i)
    PROVE  Beside(i) /\ Remains(i) /\ UNCHANGED task
<1>1. UNCHANGED <<task, worker, fallbacks>> /\ task[i].pc = "exec" /\ task \in [Ids -> Task]
  BY DEF MarkWaiting, memory, At, OnceInv, Types
<1>2. QED
  BY <1>1, StaysBeside DEF Remains

\* The steps of the service and its users: a consumer begins, is cancelled, or dies.
LEMMA CancelPlaces ==
    ASSUME OnceInv, WorkInv, NEW T, CancelTasks(T)
    PROVE  /\ Placed(worker, task') /\ \A k \in Ids : Remains(k)
           /\ \A k \in fallbacks : task'[k].pc # "free"
<1>1. task \in [Ids -> Task]
  BY DEF OnceInv, Types
<1>2. \A k \in Ids : task'[k] = task[k] \/ task'[k] = [task[k] EXCEPT !.cancel = TRUE]
  BY DEF CancelTasks
<1>3. \A k \in Ids : Remains(k)
  BY <1>1, <1>2 DEF Task, Remains
<1>4. task' \in [Ids -> Task]
  BY CancelTasksIsKept DEF Kept
<1>5. \A k \in Ids : task'[k].pc = task[k].pc /\ task'[k].lane = task[k].lane
  BY <1>3 DEF Remains
<1>6. Placed(worker, task')
  BY <1>4, <1>5 DEF WorkInv, Placed
<1>7. QED
  BY <1>3, <1>5, <1>6 DEF WorkInv

\* What the steps that are not a consumer's do to the consumers.
Undisturbed == \A k \in Ids : Remains(k) \/ (task[k].pc = "free" /\ Begins(task'[k]))

LEMMA EnsurePlaces ==
    ASSUME WorkInv, EnsureWorker(worker, task), UNCHANGED fallbacks
    PROVE  /\ Placed(worker', task') /\ Undisturbed
           /\ \A k \in fallbacks' : task'[k].pc # "free"
<1>1. Placed(worker', task') /\ Spares(task, task')
  BY EnsureWorkerPlaces DEF WorkInv
<1>2. Undisturbed
  BY <1>1 DEF Spares, Undisturbed, Remains
<1>3. \A k \in fallbacks' : task'[k].pc # "free"
  BY <1>1 DEF WorkInv, Spares, Begins
<1>4. QED
  BY <1>1, <1>2, <1>3

LEMMA ServicePlaces ==
    ASSUME OnceInv, WorkInv,
           ServiceStep
    PROVE  /\ Placed(worker', task') /\ (Crash \/ Undisturbed)
           /\ fallbacks' \subseteq Ids /\ \A k \in fallbacks' : task'[k].pc # "free"
<1>1. CASE EnsureWorker(worker, task) /\ UNCHANGED fallbacks
  BY <1>1, EnsurePlaces DEF WorkInv
<1>2. CASE UNCHANGED <<worker, task, fallbacks>>
  BY <1>2 DEF WorkInv, Undisturbed, Remains
<1>3. CASE Crash
  <2>1. NoTask \in Task
    BY DEF NoTask, Task, Lane, None
  <2>2. Placed(worker', task')
    BY <1>3, <2>1 DEF Crash, Placed
  <2>3. QED
    BY <1>3, <2>2 DEF Crash
<1>4. CASE BeginDelete
  <2>1. CancelTasks(Consumers) /\ UNCHANGED <<worker, fallbacks>>
    BY <1>4 DEF BeginDelete
  <2>2. QED
    BY <2>1, CancelPlaces DEF Undisturbed, WorkInv
<1>5. CASE Stop
  <2>1. CancelTasks(Consumers) /\ worker' = [l \in Lane |-> 0] /\ fallbacks' = {}
    BY <1>5 DEF Stop
  <2>2. Placed(worker, task') /\ \A k \in Ids : Remains(k)
    BY <2>1, CancelPlaces
  <2>3. QED
    BY <2>1, <2>2 DEF Undisturbed, Placed
<1>6. CASE Enqueue
  BY <1>1, <1>2, <1>6 DEF Enqueue
<1>7. CASE \E l \in Lane : Send(l) \/ LateEnqueue(l)
  BY <1>2, <1>7 DEF Send, LateEnqueue, memory
<1>8. CASE \E c \in air : LateClaim(c)
  BY <1>2, <1>8 DEF LateClaim
<1>9. CASE OtherStep
  BY <1>1, <1>2, <1>3, <1>4, <1>5, <1>9
     DEF OtherStep, ResolveUnknown, Finalize, ContinueQueued, Supersede, Writes, Wake,
         CallerGone, CancelSend, Start, GatewayUp,
         GatewayDown, Stopped, AcceptDelete, ConsumersStopped, RemoveTarget, TargetDeleted,
         AbortDelete, memory
<1>10. QED
  BY <1>6, <1>7, <1>8, <1>9 DEF ServiceStep

\* What is not a consumer.
Counters ==
    /\ admitted \in Ids \cup {0} /\ awaited \subseteq Ids
    /\ orphans \subseteq Messages /\ strays \subseteq Messages
    /\ calls \in [Call -> 0..MaxCalls] /\ late \in [Lane -> Nat]
    /\ deletion \in {"no", "accepted", "stopping", "stopped", "removed", "clearing", "cleared",
                     "deleted"}
    /\ faults \in 0..MaxFaults

Flags ==
    /\ started \in BOOLEAN /\ stopping \in BOOLEAN /\ available \in BOOLEAN
    /\ blocked \in BOOLEAN /\ held \in BOOLEAN /\ early \in BOOLEAN /\ unwoken \in BOOLEAN

LEMMA ConsumerCounters ==
    ASSUME Counters, Flags, NEW i \in Ids, ConsumerStep(i)
    PROVE  Counters' /\ Flags'
<1>1. admitted' \in {admitted, 0, i}
  BY DEF ConsumerStep, Loop, Leave, Admit, Claim, Submit, Refuse, Fallback, MarkWaiting,
         Settle, Cancelled, Released, memory
<1>2. /\ UNCHANGED <<awaited, orphans, deletion, faults, started, stopping, available, blocked,
                     held, early, apart>>
      /\ unwoken' \in {unwoken, FALSE}
  BY DEF ConsumerStep, Loop, Leave, Admit, Claim, Submit, Refuse, Fallback, MarkWaiting,
         Settle, Cancelled, Defer, EnsureWorker, memory
<1>3. Counters'
  BY <1>1, <1>2 DEF Counters, apart
<1>4. Flags'
  BY <1>2 DEF Flags
<1>5. QED
  BY <1>3, <1>4

LEMMA ServiceCounters ==
    ASSUME OnceInv, WorkInv, Counters, Flags,
           ServiceStep
    PROVE  Counters' /\ Flags'
<1>1. faults' = faults \/ Fault
  BY DEF ServiceStep, Enqueue, OtherStep, Send, LateClaim, LateEnqueue, ResolveUnknown, Finalize,
         ContinueQueued, Supersede, Writes, Wake, CallerGone, CancelSend, Start, GatewayUp,
         GatewayDown, Stop, Stopped, Crash, AcceptDelete, BeginDelete, ConsumersStopped,
         RemoveTarget, TargetDeleted, AbortDelete
<1>2. faults' \in 0..MaxFaults
  BY <1>1, MailboxAssumption DEF Fault, Counters
<1>3. admitted' \in {admitted, 0}
  BY DEF ServiceStep, Enqueue, OtherStep, Send, LateClaim, LateEnqueue, ResolveUnknown, Finalize,
         ContinueQueued, Supersede, Writes, Wake, CallerGone, CancelSend, Start, GatewayUp,
         GatewayDown, Stop, Stopped, Crash, AcceptDelete, BeginDelete, ConsumersStopped,
         RemoveTarget, TargetDeleted, AbortDelete, memory
<1>4. awaited' \in {awaited, {}, Consumers}
  BY DEF ServiceStep, Enqueue, OtherStep, Send, LateClaim, LateEnqueue, ResolveUnknown, Finalize,
         ContinueQueued, Supersede, Writes, Wake, CallerGone, CancelSend, Start, GatewayUp,
         GatewayDown, Stop, Stopped, Crash, AcceptDelete, BeginDelete, ConsumersStopped,
         RemoveTarget, TargetDeleted, AbortDelete, memory
<1>5. Consumers \subseteq Ids
  BY DEF Consumers, WorkInv, Placed
<1>6. orphans' \subseteq Messages
  <2>1. CASE \E c \in air : LateClaim(c)
    BY <2>1 DEF LateClaim, OnceInv, Types, Counters
  <2>2. CASE orphans' \in {orphans, {}}
    BY <2>2 DEF Counters
  <2>3. QED
    BY <2>1, <2>2
       DEF ServiceStep, Enqueue, OtherStep, Send, LateEnqueue, ResolveUnknown, Finalize,
           ContinueQueued, Supersede, Writes, Wake, CallerGone, CancelSend, Start, GatewayUp,
           GatewayDown, Stop, Stopped, Crash, AcceptDelete, BeginDelete, ConsumersStopped,
           RemoveTarget, TargetDeleted, AbortDelete, memory
<1>7. deletion' \in {"no", "accepted", "stopping", "stopped", "removed", "clearing", "cleared",
                     "deleted"}
  BY DEF ServiceStep, Enqueue, OtherStep, Send, LateClaim, LateEnqueue, ResolveUnknown, Finalize,
         ContinueQueued, Supersede, Writes, Wake, CallerGone, CancelSend, Start, GatewayUp,
         GatewayDown, Stop, Stopped, Crash, AcceptDelete, BeginDelete, ConsumersStopped,
         RemoveTarget, TargetDeleted, AbortDelete, memory, Counters
<1>11. strays' \subseteq Messages
  <2>1. ASSUME NEW l \in Lane, LateEnqueue(l)
        PROVE  strays' \subseteq Messages
    <3>1. Unsent # {} => First(Unsent) \in Messages
      BY FirstInSet DEF Unsent
    <3>2. QED
      BY <2>1, <3>1 DEF LateEnqueue, Counters
  <2>2. CASE UNCHANGED strays
    BY <2>2 DEF Counters
  <2>3. QED
    BY <2>1, <2>2
       DEF ServiceStep, Enqueue, OtherStep, Send, LateClaim, ResolveUnknown, Finalize,
           ContinueQueued, Supersede, Writes, Wake, CallerGone, CancelSend, Start, GatewayUp,
           GatewayDown, Stop, Stopped, Crash, AcceptDelete, BeginDelete, ConsumersStopped,
           RemoveTarget, TargetDeleted, AbortDelete, apart
<1>12. calls' \in [Call -> 0..MaxCalls]
  <2>1. calls \in [Call -> 0..MaxCalls] /\ MaxCalls \in Nat
    BY MailboxAssumption DEF Counters
  <2>2. ASSUME NEW c \in Call, Writes(c)
        PROVE  calls' \in [Call -> 0..MaxCalls]
    <3>1. calls["wake"] \in 0..MaxCalls /\ calls["release"] \in 0..MaxCalls
      BY <2>1 DEF Call
    <3>2. calls[c] + 1 \in 0..MaxCalls
      BY <2>1, <2>2, <3>1 DEF Writes, Call
    <3>3. QED
      BY <2>1, <2>2, <3>2 DEF Writes
  <2>3. ASSUME NEW c \in Call, calls[c] > 0, calls' = [calls EXCEPT ![c] = @ - 1]
        PROVE  calls' \in [Call -> 0..MaxCalls]
    BY <2>1, <2>3
  <2>4. CASE UNCHANGED calls \/ Crash
    BY <2>1, <2>4 DEF Crash
  <2>5. CASE \/ \E m \in Messages : ResolveUnknown(m) \/ Finalize(m)
             \/ ContinueQueued \/ Supersede
    BY <2>2, <2>5 DEF ResolveUnknown, Finalize, ContinueQueued, Supersede, Call
  <2>6. CASE \E c \in Call : Wake(c) \/ CallerGone(c)
    BY <2>3, <2>6 DEF Wake, CallerGone
  <2>7. QED
    BY <2>4, <2>5, <2>6
       DEF ServiceStep, Enqueue, OtherStep, Send, LateClaim, LateEnqueue, CancelSend, Start,
           GatewayUp, GatewayDown, Stop, Stopped, AcceptDelete, BeginDelete, ConsumersStopped,
           RemoveTarget, TargetDeleted, AbortDelete, apart
<1>13. late' \in [Lane -> Nat]
  <2>1. late \in [Lane -> Nat] /\ lock.asked \in Lane
    BY DEF Counters, OnceInv, Types, Sends
  <2>2. CASE UNCHANGED late \/ Crash
    BY <2>1, <2>2 DEF Crash
  <2>3. CASE CancelSend
    BY <2>1, <2>3 DEF CancelSend
  <2>4. ASSUME NEW l \in Lane, LateEnqueue(l)
        PROVE  late' \in [Lane -> Nat]
    BY <2>1, <2>4 DEF LateEnqueue
  <2>5. QED
    BY <2>2, <2>3, <2>4
       DEF ServiceStep, Enqueue, OtherStep, Send, LateClaim, ResolveUnknown, Finalize,
           ContinueQueued, Supersede, Writes, Wake, CallerGone, Start, GatewayUp, GatewayDown,
           Stop, Stopped, AcceptDelete, BeginDelete, ConsumersStopped, RemoveTarget,
           TargetDeleted, AbortDelete, apart
<1>8. Counters'
  BY <1>2, <1>3, <1>4, <1>5, <1>6, <1>7, <1>11, <1>12, <1>13 DEF Counters
<1>14. unwoken' \in BOOLEAN
  <2>1. CASE EnsureWorker(worker, task)
    BY <2>1 DEF EnsureWorker
  <2>2. CASE unwoken' \in {unwoken, TRUE, FALSE}
    BY <2>2 DEF Flags
  <2>3. QED
    BY <2>1, <2>2
       DEF ServiceStep, Enqueue, OtherStep, Send, LateClaim, LateEnqueue, ResolveUnknown,
           Finalize, ContinueQueued, Supersede, Writes, Wake, CallerGone, CancelSend, Start,
           GatewayUp, GatewayDown, Stop, Stopped, Crash, AcceptDelete, BeginDelete,
           ConsumersStopped, RemoveTarget, TargetDeleted, AbortDelete
<1>15. /\ started' \in BOOLEAN /\ stopping' \in BOOLEAN /\ available' \in BOOLEAN
       /\ blocked' \in BOOLEAN /\ held' \in BOOLEAN /\ early' \in BOOLEAN
  BY DEF ServiceStep, Enqueue, OtherStep, Send, LateClaim, LateEnqueue, ResolveUnknown,
         Finalize, ContinueQueued, Supersede, Writes, Wake, CallerGone, CancelSend, Start,
         GatewayUp, GatewayDown, Stop, Stopped, Crash, AcceptDelete, BeginDelete,
         ConsumersStopped, RemoveTarget, TargetDeleted, AbortDelete, memory, Flags
<1>9. Flags'
  BY <1>14, <1>15 DEF Flags
<1>10. QED
  BY <1>8, <1>9

LEMMA ConsumerMoves ==
    ASSUME OnceInv, HoldInv, WorkInv, Claims, NEW i \in Ids, ConsumerStep(i)
    PROVE  Beside(i)
BY LoopMoves, AdmitMoves, ClaimMoves, SubmitMoves, FallbackMoves, EndMoves, MarkWaitingMoves
   DEF ConsumerStep

LEMMA WorkNext ==
    ASSUME OnceInv, HoldInv, WorkInv, Claims, [Next]_vars
    PROVE  WorkInv'
<1>1. Counters /\ Flags
  BY DEF WorkInv, Counters, Flags
<1>2. ASSUME NEW i \in Ids, ConsumerStep(i)
      PROVE  WorkInv'
  <2>1. Beside(i) /\ Counters' /\ Flags'
    BY <1>1, <1>2, ConsumerMoves, ConsumerCounters
  <2>2. QED
    BY <2>1 DEF WorkInv, Counters, Flags, Beside
<1>3. CASE ServiceStep
  <2>1. /\ Placed(worker', task') /\ Counters' /\ Flags'
        /\ fallbacks' \subseteq Ids /\ \A k \in fallbacks' : task'[k].pc # "free"
    BY <1>1, <1>3, ServicePlaces, ServiceCounters
  <2>2. QED
    BY <2>1 DEF WorkInv, Counters, Flags
<1>4. CASE UNCHANGED vars
  <2>1. UNCHANGED <<worker, task, fallbacks>> /\ Counters' /\ Flags'
    BY <1>1, <1>4 DEF vars, memory, apart, Counters, Flags
  <2>2. QED
    BY <2>1 DEF WorkInv, Counters, Flags, Placed
<1>5. QED
  BY <1>2, <1>3, <1>4, NextSteps

\* A consumer has claimed exactly what it executes.
LEMMA ClaimsNext ==
    ASSUME OnceInv, HoldInv, WorkInv, Claims, [Next]_vars
    PROVE  Claims'
<1>1. ASSUME NEW i \in Ids, Beside(i), Sits(i) \/ Remains(i)
                                       \/ (task'[i].pc = "claim" /\ ~task'[i].claimed)
                                       \/ (task'[i].pc = "exec" /\ task'[i].claimed)
      PROVE  Claims'
  <2>1. \A k \in Ids : \/ Remains(k) \/ Begins(task'[k]) \/ Sits(k)
                       \/ (task'[k].pc = "claim" /\ ~task'[k].claimed)
                       \/ (task'[k].pc = "exec" /\ task'[k].claimed)
    BY <1>1 DEF Beside, Remains
  <2>2. QED
    BY <2>1 DEF Claims, Begins, Remains, Sits
<1>2. ASSUME NEW i \in Ids, ConsumerStep(i)
      PROVE  Claims'
  BY <1>1, <1>2, LoopMoves, AdmitMoves, ClaimMoves, SubmitMoves, FallbackMoves, EndMoves,
     MarkWaitingMoves DEF ConsumerStep
<1>3. CASE Crash
  BY <1>3 DEF Crash, Claims, NoTask
<1>4. CASE Undisturbed
  BY <1>4 DEF Undisturbed, Remains, Begins, Claims
<1>5. CASE UNCHANGED vars
  BY <1>5 DEF vars, memory, Claims
<1>6. QED
  BY <1>2, <1>3, <1>4, <1>5, ServicePlaces, NextSteps

LEMMA WorkInit ==
    ASSUME Init
    PROVE  WorkInv /\ Claims /\ HoldInv
<1>1. NoTask \in Task /\ NoTask.pc = "free" /\ ~NoTask.claimed /\ ~NoTask.cancel
  BY DEF NoTask, Task, Lane, None
<1>2. Placed(worker, task)
  BY <1>1 DEF Init, Placed
<1>3. \A i \in Ids : task[i] = NoTask
  BY DEF Init
<1>4. Claims /\ HoldInv
  BY <1>1, <1>3 DEF Init, Claims, HoldInv
<1>5. Counters
  BY MailboxAssumption DEF Init, Counters
<1>6. Flags
  BY DEF Init, Flags
<1>7. QED
  BY <1>2, <1>4, <1>5, <1>6 DEF Init, WorkInv, Counters, Flags

\* Every consumer that _workers or _running_fallbacks names is alive, in every state, and
\* every variable has its type: the bookkeeping of _worker_finished, stop and the steering
\* fallback leaves no registration behind.
THEOREM MailboxTypes == Safety => []TypeOK
<1>1. Init => OnceInv /\ HoldInv /\ WorkInv /\ Claims
  BY OnceInit, WorkInit
<1>2. OnceInv /\ HoldInv /\ WorkInv /\ Claims /\ [Next]_vars
        => (OnceInv /\ HoldInv /\ WorkInv /\ Claims)'
  BY OnceNext, HoldNext, WorkNext, ClaimsNext
<1>3. OnceInv /\ WorkInv => TypeOK
  <2> SUFFICES ASSUME OnceInv, WorkInv
               PROVE  TypeOK
    OBVIOUS
  <2>1. \A i \in Consumers : task[i].pc # "free"
    BY DEF Consumers, WorkInv, Placed
  <2>2. lock \in [kind : {"no", "new", "again"}, msg : Messages \cup {None}, asked : Lane]
    BY DEF OnceInv, Types, Sends
  <2>3. Flags /\ Counters
    BY DEF WorkInv, Flags, Counters
  <2>4. QED
    BY <2>1, <2>2, <2>3 DEF OnceInv, Types, WorkInv, Placed, Task, Flags, Counters, TypeOK
<1>4. QED
  BY <1>1, <1>2, <1>3, PTL DEF Safety

-----------------------------------------------------------------------------
(* What a step does to a row *)

\* Nothing; a status past running; the user's release; a steer that joins the tasks; a claim.
Same(m) == rec'[m] = rec[m]
Settled(m) ==
    /\ rec[m].status # "none" /\ rec'[m].status \notin {"none", "queued", "running"}
    /\ rec'[m].asked = rec[m].asked /\ rec'[m].lane = rec[m].lane
    /\ rec[m].released => rec'[m].released
LetGo(m) ==
    /\ rec[m].status = "unknown" /\ rec'[m].status = "unknown"
    /\ rec'[m].asked = rec[m].asked /\ rec'[m].lane = rec[m].lane /\ rec'[m].released
Joined(m) ==
    /\ rec[m].lane = "steer" /\ rec[m].status \in {"queued", "running"}
    /\ rec'[m].lane = "task" /\ rec'[m].status = "queued" /\ rec'[m].asked = rec[m].asked
Taken(m) ==
    /\ rec[m].status = "queued" /\ rec'[m].status = "running"
    /\ rec'[m].asked = rec[m].asked /\ rec'[m].lane = rec[m].lane

LEMMA TransitionRows ==
    ASSUME rec \in [Messages -> Row], NEW m \in Messages, NEW s, NEW expected,
           Transition(m, s, expected), s \in {"waiting", "unknown", "ended"},
           expected \subseteq {"queued", "running", "waiting"}
    PROVE  /\ \A n \in Messages \ {m} : Same(n)
           /\ Same(m) \/ (Settled(m) /\ rec[m].status \in expected /\ rec'[m].status = s)
           /\ rec[m].status \in expected => rec'[m].status = s
<1>1. CASE rec[m].status \in expected
  <2>1. rec' = [rec EXCEPT ![m].status = s]
    BY <1>1 DEF Transition
  <2>2. PICK r : r = [rec[m] EXCEPT !.status = s]
    OBVIOUS
  <2>3. r.status = s /\ r.asked = rec[m].asked /\ r.lane = rec[m].lane /\ r.released = rec[m].released
    BY <2>2 DEF Row
  <2>4. rec'[m] = r /\ \A n \in Messages \ {m} : rec'[n] = rec[n]
    BY <2>1, <2>2
  <2>5. Settled(m)
    BY <1>1, <2>3, <2>4 DEF Settled
  <2>6. QED
    BY <1>1, <2>3, <2>4, <2>5 DEF Same
<1>2. CASE rec[m].status \notin expected
  <2>1. rec' = [rec EXCEPT ![m].status = rec[m].status]
    BY <1>2 DEF Transition
  <2>2. rec' = rec
    BY <2>1 DEF Row
  <2>3. QED
    BY <1>2, <2>2 DEF Same
<1>3. QED
  BY <1>1, <1>2

LEMMA DeferRow ==
    ASSUME rec \in [Messages -> Row], NEW i, NEW m \in Messages, Defer(i, m)
    PROVE  /\ \A n \in Messages \ {m} : Same(n)
           /\ Same(m) \/ Joined(m)
           /\ rec[m].lane = "steer" => rec'[m].status # "running"
<1>1. CASE rec[m].lane = "steer" /\ rec[m].status \in {"queued", "running"}
  <2>1. rec' = [rec EXCEPT ![m].lane = "task", ![m].status = "queued"]
    BY <1>1 DEF Defer
  <2>2. PICK r : r = [rec[m] EXCEPT !.lane = "task", !.status = "queued"]
    OBVIOUS
  <2>3. r.status = "queued" /\ r.asked = rec[m].asked /\ r.lane = "task"
    BY <2>2 DEF Row
  <2>4. rec'[m] = r /\ \A n \in Messages \ {m} : rec'[n] = rec[n]
    BY <2>1, <2>2
  <2>5. QED
    BY <1>1, <2>3, <2>4 DEF Same, Joined
<1>2. CASE ~(rec[m].lane = "steer" /\ rec[m].status \in {"queued", "running"})
  <2>1. rec' = rec
    BY <1>2 DEF Defer
  <2>2. QED
    BY <1>2, <2>1 DEF Same
<1>3. QED
  BY <1>1, <1>2

\* next_queued's defer_steering.
LEMMA SteersDeferredRows ==
    ASSUME rec \in [Messages -> Row], rec' \in {SteersDeferred, rec}
    PROVE  \A m \in Messages : Same(m) \/ (Joined(m) /\ rec[m].status = "queued")
<1>1. CASE rec' = rec
  BY <1>1 DEF Same
<1>2. CASE rec' # rec
  <2>1. \A m \in Messages : \/ rec'[m] = rec[m]
                            \/ /\ m \in Has(rec, "steer", "queued")
                               /\ rec'[m] = [rec[m] EXCEPT !.lane = "task"]
    BY <1>2 DEF SteersDeferred
  <2>2. ASSUME NEW m \in Messages, m \in Has(rec, "steer", "queued"),
               rec'[m] = [rec[m] EXCEPT !.lane = "task"]
        PROVE  Joined(m) /\ rec[m].status = "queued"
    BY <2>2 DEF Has, Row, Joined
  <2>3. QED
    BY <2>1, <2>2 DEF Same
<1>3. QED
  BY <1>1, <1>2

\* The rows of a consumer's step: its own, and the steers that join the tasks.
RowsOf(i) ==
    \A m \in Messages :
        \/ Same(m)
        \/ /\ Settled(m) /\ m = task[i].msg
           /\ task[i].pc = "exec" \/ rec'[m].status = "ended"
        \/ /\ Joined(m) /\ (rec[m].status = "queued" \/ (task[i].pc = "exec" /\ task[i].msg = m))
        \/ /\ Taken(m) /\ m = task[i].msg /\ task[i].pc = "claim" /\ rec[m].lane = task[i].lane
           /\ task'[i].pc = "exec" /\ task'[i].msg = m /\ task'[i].lane = task[i].lane
           /\ task'[i].claimed

\* A consumer that stops executing a message does not leave it running.
PutsDown(i) ==
    task[i].pc = "exec" => \/ Remains(i)
                           \/ Sits(i) /\ rec'[task[i].msg].status # "running"

LEMMA ConsumerRows ==
    ASSUME OnceInv, HoldInv, WorkInv, Claims, InLane, NEW i \in Ids, ConsumerStep(i)
    PROVE  RowsOf(i) /\ PutsDown(i)
<1>1. rec \in [Messages -> Row] /\ task \in [Ids -> Task]
  BY DEF OnceInv, Types
<1>2. task[i].pc \in {"admit", "claim", "exec"} => task[i].msg \in Messages
  BY DEF OnceInv, Chosen
<1>3. ASSUME UNCHANGED rec
      PROVE  RowsOf(i)
  BY <1>3 DEF RowsOf, Same
<1>4. CASE Loop(i)
  <2>1. "steer" \in Lane /\ task[i].pc = "loop"
    BY <1>4 DEF Lane, Loop, At
  <2>2. PICK m : m = NextQueued(rec, "steer")
    OBVIOUS
  <2>3. m # None => m \in Messages /\ rec[m].status = "queued"
    BY <1>1, <2>1, <2>2, NextIsQueued
  <2>4. UNCHANGED rec \/ (m # None /\ Defer(i, m))
    BY <1>4, <2>2, LoopMoves
  <2>5. CASE m # None /\ Defer(i, m)
    <3>1. (\A n \in Messages \ {m} : Same(n)) /\ (Same(m) \/ Joined(m))
      BY <1>1, <2>3, <2>5, DeferRow
    <3>2. RowsOf(i)
      BY <2>3, <2>5, <3>1 DEF RowsOf
    <3>3. QED
      BY <2>1, <3>2 DEF PutsDown
  <2>6. QED
    BY <1>3, <2>1, <2>4, <2>5 DEF PutsDown
<1>5. CASE Leave(i)
  BY <1>3, <1>5 DEF Leave, At, PutsDown
<1>6. CASE Admit(i)
  <2>1. task[i].pc = "admit" /\ task[i].msg \in Messages
    BY <1>2, <1>6 DEF Admit, At
  <2>2. CASE Transition(task[i].msg, "ended", {"queued"})
    <3>1. /\ \A n \in Messages \ {task[i].msg} : Same(n)
          /\ Same(task[i].msg) \/ (Settled(task[i].msg) /\ rec'[task[i].msg].status = "ended")
      BY <1>1, <2>1, <2>2, TransitionRows
    <3>2. QED
      BY <2>1, <3>1 DEF RowsOf, PutsDown
  <2>3. CASE rec' \in {SteersDeferred, rec}
    <3>1. \A m \in Messages : Same(m) \/ (Joined(m) /\ rec[m].status = "queued")
      BY <1>1, <2>3, SteersDeferredRows
    <3>2. QED
      BY <2>1, <3>1 DEF RowsOf, PutsDown
  <2>4. QED
    BY <1>6, <2>2, <2>3 DEF Admit
<1>7. CASE Claim(i)
  <2>1. PICK m \in Messages : m = task[i].msg
    BY <1>2, <1>7 DEF Claim, At
  <2>2. task[i].pc = "claim"
    BY <1>7 DEF Claim, At
  <2>3. CASE UNCHANGED rec
    BY <1>3, <2>2, <2>3 DEF PutsDown
  <2>4. CASE /\ task'[i].pc = "exec" /\ task'[i].claimed /\ task'[i].msg = task[i].msg
             /\ task'[i].lane = task[i].lane
             /\ Claimable(task[i].msg, task[i].lane)
             /\ rec' = [rec EXCEPT ![task[i].msg].status = "running"]
    <3>1. PICK r : r = [rec[m] EXCEPT !.status = "running"]
      OBVIOUS
    <3>2. r.status = "running" /\ r.asked = rec[m].asked /\ r.lane = rec[m].lane
      BY <1>1, <3>1 DEF Row
    <3>3. rec'[m] = r /\ \A n \in Messages \ {m} : rec'[n] = rec[n]
      BY <1>1, <2>1, <2>4, <3>1
    <3>4. rec[m].status = "queued" /\ rec[m].lane = task[i].lane
      BY <2>1, <2>4 DEF Claimable
    <3>5. Taken(m) /\ \A n \in Messages \ {m} : Same(n)
      BY <3>2, <3>3, <3>4 DEF Taken, Same
    <3>6. RowsOf(i)
      BY <2>1, <2>2, <2>4, <3>4, <3>5 DEF RowsOf
    <3>7. QED
      BY <2>2, <3>6 DEF PutsDown
  <2>5. QED
    BY <1>7, <2>3, <2>4, ClaimMoves
<1>8. CASE Submit(i)
  BY <1>3, <1>8, SubmitMoves DEF Submit, PutsDown
<1>9. CASE Refuse(i)
  <2>1. PICK m \in Messages : m = task[i].msg
    BY <1>2, <1>9 DEF Refuse, At
  <2>2. task[i].pc = "exec" /\ task[i].lane = "steer" /\ Defer(i, m)
    BY <1>9, <2>1 DEF Refuse, Refusable, At
  <2>3. rec[m].lane = "steer"
    BY <2>1, <2>2 DEF InLane
  <2>4. /\ \A n \in Messages \ {m} : Same(n)
        /\ Same(m) \/ Joined(m)
        /\ rec'[m].status # "running"
    BY <1>1, <2>2, <2>3, DeferRow
  <2>5. Sits(i)
    BY <1>9, EndMoves
  <2>6. RowsOf(i)
    BY <2>1, <2>2, <2>4 DEF RowsOf
  <2>7. QED
    BY <2>1, <2>4, <2>5, <2>6 DEF PutsDown
<1>10. CASE Fallback(i)
  BY <1>3, <1>10, FallbackMoves DEF Fallback, PutsDown
<1>11. CASE MarkWaiting(i)
  <2>1. PICK m \in Messages : m = task[i].msg
    BY <1>2, <1>11 DEF MarkWaiting, At
  <2>2. task[i].pc = "exec" /\ Transition(m, "waiting", {"running"})
    BY <1>11, <2>1 DEF MarkWaiting, At
  <2>3. (\A n \in Messages \ {m} : Same(n)) /\ (Same(m) \/ Settled(m))
    BY <1>1, <2>2, TransitionRows
  <2>4. RowsOf(i)
    BY <2>1, <2>2, <2>3 DEF RowsOf
  <2>5. QED
    BY <1>11, <2>4, MarkWaitingMoves DEF PutsDown
<1>12. CASE Settle(i)
  <2>1. PICK m \in Messages : m = task[i].msg
    BY <1>2, <1>12 DEF Settle, At
  <2>2. task[i].pc = "exec"
    BY <1>12 DEF Settle, At
  <2>3. PICK s \in {"waiting", "unknown", "ended"}, expected \in {{"running"}, {"running", "waiting"}} :
          Transition(m, s, expected)
    BY <1>12, <2>1 DEF Settle
  <2>4. /\ \A n \in Messages \ {m} : Same(n)
        /\ Same(m) \/ Settled(m)
        /\ rec[m].status \in expected => rec'[m].status = s
    BY <1>1, <2>3, TransitionRows
  <2>5. rec'[m].status # "running"
    BY <2>3, <2>4 DEF Same, Settled
  <2>6. RowsOf(i)
    BY <2>1, <2>2, <2>4 DEF RowsOf
  <2>7. QED
    BY <1>12, <2>1, <2>5, <2>6, EndMoves DEF PutsDown
<1>13. CASE Cancelled(i)
  <2>1. Sits(i)
    BY <1>13, EndMoves
  <2>2. CASE task[i].pc # "exec"
    <3>1. UNCHANGED rec
      BY <1>13, <2>2 DEF Cancelled, Interrupted, Claims
    <3>2. QED
      BY <1>3, <2>2, <3>1 DEF PutsDown
  <2>3. CASE task[i].pc = "exec"
    <3>1. PICK m \in Messages : m = task[i].msg
      BY <1>2, <2>3
    <3>2. Transition(m, "unknown", {"running", "waiting"})
      BY <1>13, <2>3, <3>1 DEF Cancelled, Interrupted, Claims
    <3>3. /\ \A n \in Messages \ {m} : Same(n)
          /\ Same(m) \/ Settled(m)
          /\ rec[m].status \in {"running", "waiting"} => rec'[m].status = "unknown"
      BY <1>1, <3>2, TransitionRows
    <3>4. rec'[m].status # "running"
      BY <3>3 DEF Same, Settled
    <3>5. RowsOf(i)
      BY <2>3, <3>1, <3>3 DEF RowsOf
    <3>6. QED
      BY <2>1, <3>1, <3>4, <3>5 DEF PutsDown
  <2>4. QED
    BY <2>2, <2>3
<1>14. QED
  BY <1>4, <1>5, <1>6, <1>7, <1>8, <1>9, <1>10, <1>11, <1>12, <1>13 DEF ConsumerStep

\* enqueue.
Inserted(m) ==
    /\ \A n \in Messages : rec[n].status = "none" => m <= n
    /\ rec[m].status = "none" /\ rec'[m].status = "queued"
    /\ rec'[m].asked = "task" => rec'[m].lane = "task"

\* The rows of the other steps.
RowsServed ==
    \A m \in Messages :
        \/ Same(m)
        \/ Settled(m) /\ (rec'[m].status = "ended" \/ rec[m].status = "waiting" \/ Start)
        \/ LetGo(m)
        \/ Taken(m) /\ m \in orphans'
        \/ Inserted(m)

LEMMA OtherRows ==
    ASSUME OnceInv, OtherStep
    PROVE  RowsServed
<1>1. rec \in [Messages -> Row]
  BY DEF OnceInv, Types
<1>2. CASE UNCHANGED rec
  BY <1>2 DEF RowsServed, Same
<1>3. ASSUME NEW m \in Messages, ResolveUnknown(m)
      PROVE  RowsServed
  <2>1. rec[m].status = "unknown"
    BY <1>3 DEF ResolveUnknown
  <2>2. CASE rec' = [rec EXCEPT ![m].status = "ended"]
    <3>1. PICK r : r = [rec[m] EXCEPT !.status = "ended"]
      OBVIOUS
    <3>2. /\ r.status = "ended" /\ r.asked = rec[m].asked /\ r.lane = rec[m].lane
          /\ r.released = rec[m].released
      BY <1>1, <3>1 DEF Row
    <3>3. rec'[m] = r /\ \A n \in Messages \ {m} : rec'[n] = rec[n]
      BY <1>1, <2>2, <3>1
    <3>4. Settled(m) /\ rec'[m].status = "ended"
      BY <2>1, <3>2, <3>3 DEF Settled
    <3>5. QED
      BY <3>3, <3>4 DEF RowsServed, Same
  <2>3. CASE rec' = [rec EXCEPT ![m].released = TRUE]
    <3>1. PICK r : r = [rec[m] EXCEPT !.released = TRUE]
      OBVIOUS
    <3>2. /\ r.status = rec[m].status /\ r.asked = rec[m].asked /\ r.lane = rec[m].lane
          /\ r.released
      BY <1>1, <3>1 DEF Row
    <3>3. rec'[m] = r /\ \A n \in Messages \ {m} : rec'[n] = rec[n]
      BY <1>1, <2>3, <3>1
    <3>4. LetGo(m)
      BY <2>1, <3>2, <3>3 DEF LetGo
    <3>5. QED
      BY <3>3, <3>4 DEF RowsServed, Same
  <2>4. QED
    BY <1>3, <2>2, <2>3 DEF ResolveUnknown
<1>4. ASSUME NEW m \in Messages, Finalize(m)
      PROVE  RowsServed
  <2>1. PICK s \in {"ended", "unknown"} : Transition(m, s, {"waiting"})
    BY <1>4 DEF Finalize
  <2>2. /\ \A n \in Messages \ {m} : Same(n)
        /\ Same(m) \/ (Settled(m) /\ rec[m].status \in {"waiting"})
    BY <1>1, <2>1, TransitionRows
  <2>3. QED
    BY <2>2 DEF RowsServed
<1>5. CASE ContinueQueued
  <2>1. \A m \in Messages : \/ rec'[m] = rec[m]
                            \/ /\ m \in Uncertain(rec, rec[m].lane)
                               /\ rec'[m] = [rec[m] EXCEPT !.released = TRUE]
    BY <1>5 DEF ContinueQueued
  <2>2. ASSUME NEW m \in Messages, m \in Uncertain(rec, rec[m].lane),
               rec'[m] = [rec[m] EXCEPT !.released = TRUE]
        PROVE  LetGo(m)
    BY <1>1, <2>2 DEF Uncertain, Has, Row, LetGo
  <2>3. QED
    BY <2>1, <2>2 DEF RowsServed, Same
<1>6. ASSUME NEW m \in Messages, NEW s \in {"ended", "unknown"}, rec[m].status # "none",
             rec'[m] = [rec[m] EXCEPT !.status = s]
      PROVE  Settled(m) /\ rec'[m].status = s
  BY <1>1, <1>6 DEF Row, Settled
<1>7. CASE Supersede
  <2>1. \A m \in Messages : \/ rec'[m] = rec[m]
                            \/ /\ rec[m].status = "waiting"
                               /\ rec'[m] = [rec[m] EXCEPT !.status = "ended"]
    BY <1>7 DEF Supersede
  <2>2. QED
    BY <1>6, <2>1 DEF RowsServed, Same
<1>8. CASE Start
  <2>1. \A m \in Messages : \/ rec'[m] = rec[m]
                            \/ /\ rec[m].status \in {"running", "waiting"}
                               /\ rec'[m] = [rec[m] EXCEPT !.status = "unknown"]
    BY <1>8 DEF Start, Recovered
  <2>2. QED
    BY <1>6, <1>8, <2>1 DEF RowsServed, Same
<1>9. CASE TargetDeleted
  <2>1. \A m \in Messages : \/ rec'[m] = rec[m]
                            \/ /\ rec[m].status # "none"
                               /\ rec'[m] = [rec[m] EXCEPT !.status = "ended"]
    BY <1>9 DEF TargetDeleted
  <2>2. QED
    BY <1>6, <2>1 DEF RowsServed, Same
<1>10. QED
  BY <1>2, <1>3, <1>4, <1>5, <1>7, <1>8, <1>9
     DEF OtherStep, Wake, CallerGone, CancelSend, GatewayUp, GatewayDown, Stop, Stopped, Crash,
         AcceptDelete, BeginDelete, ConsumersStopped, RemoveTarget, AbortDelete

LEMMA ServiceRows ==
    ASSUME OnceInv, ServiceStep
    PROVE  RowsServed
<1>1. rec \in [Messages -> Row]
  BY DEF OnceInv, Types
<1>2. CASE UNCHANGED rec
  BY <1>2 DEF RowsServed, Same
<1>3. CASE Inserts
  <2>1. ASSUME Unsent # {}, NEW l \in Lane, Insert(l)
        PROVE  RowsServed
    <3>1. PICK m \in Messages : m = First(Unsent)
      BY <1>1, <2>1, InsertRow
    <3>2. Inserted(m) /\ \A n \in Messages \ {m} : rec'[n] = rec[n]
      BY <1>1, <2>1, <3>1, InsertRow DEF Inserted
    <3>3. QED
      BY <3>2 DEF RowsServed, Same
  <2>2. QED
    BY <1>2, <1>3, <2>1, InsertsRow
<1>4. ASSUME NEW c \in air, LateClaim(c)
      PROVE  RowsServed
  <2>1. PICK m \in Messages : m = c[1]
    BY DEF OnceInv, Types
  <2>2. CASE /\ rec[m].status = "queued" /\ rec' = [rec EXCEPT ![m].status = "running"]
             /\ m \in orphans'
    <3>1. PICK r : r = [rec[m] EXCEPT !.status = "running"]
      OBVIOUS
    <3>2. r.status = "running" /\ r.asked = rec[m].asked /\ r.lane = rec[m].lane
      BY <1>1, <3>1 DEF Row
    <3>3. rec'[m] = r /\ \A n \in Messages \ {m} : rec'[n] = rec[n]
      BY <1>1, <2>2, <3>1
    <3>4. Taken(m)
      BY <2>2, <3>2, <3>3 DEF Taken
    <3>5. QED
      BY <2>2, <3>3, <3>4 DEF RowsServed, Same
  <2>3. QED
    BY <1>2, <1>4, <2>1, <2>2 DEF LateClaim, Claimable
<1>5. CASE \E l \in Lane : Send(l)
  BY <1>2, <1>5 DEF Send
<1>6. QED
  BY <1>3, <1>4, <1>5, OtherRows DEF ServiceStep, Inserts

\* What the service does to the histories.
LEMMA ServiceHistory ==
    ASSUME ServiceStep
    PROVE  \/ Start \/ Crash \/ Stopped
           \/ orphans \subseteq orphans' /\ UNCHANGED started
BY DEF ServiceStep, Enqueue, OtherStep, Send, LateClaim, LateEnqueue, ResolveUnknown, Finalize,
       ContinueQueued, Supersede, Writes, Wake,
         CallerGone, CancelSend, GatewayUp, GatewayDown, Stop, AcceptDelete, BeginDelete,
       ConsumersStopped, RemoveTarget, TargetDeleted, AbortDelete, memory

-----------------------------------------------------------------------------
(* Who runs what *)

LEMMA ConsumerOwns ==
    ASSUME OnceInv, HoldInv, WorkInv, OwnInv, NEW i \in Ids, ConsumerStep(i)
    PROVE  InLane' /\ RunningIsOwned'
<1>1. Claims /\ InLane /\ RunningIsOwned /\ Beside(i) /\ RowsOf(i) /\ PutsDown(i)
  BY ConsumerMoves, ConsumerRows DEF OwnInv
<1>2. UNCHANGED <<started, orphans>>
  BY DEF ConsumerStep, Loop, Leave, Admit, Claim, Submit, Refuse, Fallback, MarkWaiting,
         Settle, Cancelled, memory
<1>3. Executing /\ Chosen
  BY DEF OnceInv
<1>4. \A k \in Ids \ {i} : task'[k] = task[k] \/ (task[k].pc = "free" /\ task'[k].pc = "loop")
  BY <1>1 DEF Beside, Begins
<1>5. ASSUME NEW k \in Ids, task'[k].pc = "exec"
      PROVE  rec'[task'[k].msg].lane = task'[k].lane
  <2>1. CASE k # i
    <3>1. task'[k] = task[k] /\ task[k].pc = "exec"
      BY <1>4, <1>5, <2>1
    <3>2. PICK m \in Messages : m = task[k].msg
      BY <1>3, <3>1 DEF Chosen
    <3>3. rec[m].lane = task[k].lane /\ rec[m].status \notin Fresh
      BY <1>1, <1>3, <3>1, <3>2 DEF InLane, Executing
    <3>4. ~(task[i].pc = "exec" /\ task[i].msg = m)
      BY <1>3, <2>1, <3>1, <3>2 DEF Executing
    <3>5. Same(m) \/ Settled(m) \/ Taken(m)
      BY <1>1, <3>3, <3>4 DEF RowsOf, Fresh
    <3>6. rec'[m].lane = rec[m].lane
      BY <3>5 DEF Same, Settled, Taken
    <3>7. QED
      BY <3>1, <3>2, <3>3, <3>6
  <2>2. CASE k = i /\ Remains(i)
    <3>1. task[i].pc = "exec" /\ task'[i].msg = task[i].msg /\ task'[i].lane = task[i].lane
      BY <1>5, <2>2 DEF Remains
    <3>2. PICK m \in Messages : m = task[i].msg
      BY <1>3, <3>1 DEF Chosen
    <3>3. rec[m].lane = task[i].lane
      BY <1>1, <3>1, <3>2 DEF InLane
    <3>4. UNCHANGED rec \/ Settled(m) \/ Same(m) \/ Joined(m)
      BY <1>1, <3>1, <3>2 DEF RowsOf
    <3>5. ~Joined(m)
      <4>1. CASE Submit(i) \/ Fallback(i)
        BY <4>1 DEF Submit, Fallback, Joined
      <4>2. CASE MarkWaiting(i)
        <5>1. rec \in [Messages -> Row] /\ Transition(m, "waiting", {"running"})
          BY <3>2, <4>2 DEF OnceInv, Types, MarkWaiting
        <5>2. Same(m) \/ Settled(m)
          BY <5>1, TransitionRows
        <5>3. QED
          BY <5>2 DEF Same, Settled, Joined
      <4>3. CASE Leave(i) \/ Refuse(i) \/ Settle(i) \/ Cancelled(i)
        BY <1>5, <2>2, <4>3, EndMoves DEF Sits
      <4>4. CASE Loop(i) \/ Admit(i) \/ Claim(i)
        BY <3>1, <4>4 DEF Loop, Admit, Claim, At
      <4>5. QED
        BY <4>1, <4>2, <4>3, <4>4 DEF ConsumerStep
    <3>6. rec'[m].lane = rec[m].lane
      BY <3>4, <3>5 DEF Same, Settled
    <3>7. QED
      BY <2>2, <3>1, <3>2, <3>3, <3>6
  <2>3. CASE k = i /\ ~Remains(i)
    <3>1. task[i].pc # "exec"
      BY <1>1, <1>5, <2>3 DEF PutsDown, Sits
    <3>2. Claim(i)
      <4>1. ~(Loop(i) \/ Admit(i))
        BY <1>1, <1>5, <2>3, LoopMoves, AdmitMoves DEF Sits
      <4>2. ~(Leave(i) \/ Refuse(i) \/ Settle(i) \/ Cancelled(i))
        BY <1>5, <2>3, EndMoves DEF Sits
      <4>3. ~(Submit(i) \/ Fallback(i) \/ MarkWaiting(i))
        BY <3>1 DEF Submit, Fallback, MarkWaiting, At
      <4>4. QED
        BY <4>1, <4>2, <4>3 DEF ConsumerStep
    <3>3. /\ task'[i].msg = task[i].msg /\ task'[i].lane = task[i].lane
          /\ Claimable(task[i].msg, task[i].lane) /\ task[i].pc = "claim"
          /\ rec' = [rec EXCEPT ![task[i].msg].status = "running"]
      BY <1>1, <1>5, <2>3, <3>2, ClaimMoves DEF Sits, Claim, At
    <3>4. PICK m \in Messages : m = task[i].msg
      BY <1>3, <3>3 DEF Chosen
    <3>5. rec'[m].lane = rec[m].lane
      BY <3>3, <3>4 DEF OnceInv, Types, Row
    <3>6. QED
      BY <2>3, <3>3, <3>4, <3>5 DEF Claimable
  <2>4. QED
    BY <2>1, <2>2, <2>3
<1>6. ASSUME NEW m \in Messages, rec'[m].status = "running"
      PROVE  \/ \E k \in Ids : task'[k].claimed /\ task'[k].msg = m /\ task'[k].pc = "exec"
             \/ ~started' \/ m \in orphans'
  <2>1. CASE Taken(m) /\ task'[i].pc = "exec" /\ task'[i].msg = m /\ task'[i].claimed
    BY <2>1
  <2>2. CASE Same(m)
    <3>1. rec[m].status = "running"
      BY <1>6, <2>2 DEF Same
    <3>2. CASE ~started \/ m \in orphans
      BY <1>2, <3>2
    <3>3. ASSUME NEW k \in Ids, task[k].claimed, task[k].msg = m, task[k].pc = "exec"
          PROVE  task'[k].claimed /\ task'[k].msg = m /\ task'[k].pc = "exec"
      <4>1. CASE k # i
        BY <1>4, <3>3, <4>1
      <4>2. CASE k = i
        BY <1>1, <1>6, <3>3, <4>2 DEF PutsDown, Remains
      <4>3. QED
        BY <4>1, <4>2
    <3>4. QED
      BY <1>1, <3>1, <3>2, <3>3 DEF RunningIsOwned
  <2>3. QED
    BY <1>1, <1>6, <2>1, <2>2 DEF RowsOf, Settled, Joined
<1>7. QED
  BY <1>5, <1>6 DEF InLane, RunningIsOwned

LEMMA ServiceOwns ==
    ASSUME OnceInv, HoldInv, WorkInv, OwnInv, ServiceStep
    PROVE  InLane' /\ RunningIsOwned'
<1>1. InLane /\ RunningIsOwned /\ RowsServed /\ (Crash \/ Undisturbed)
  BY ServicePlaces, ServiceRows DEF OwnInv, ServiceStep
<1>2. CASE Crash
  <2>1. ~started' /\ \A k \in Ids : task'[k].pc = "free"
    BY <1>2 DEF Crash, NoTask
  <2>2. QED
    BY <2>1 DEF InLane, RunningIsOwned
<1>3. CASE Undisturbed
  <2>1. ASSUME NEW k \in Ids, task'[k].pc = "exec"
        PROVE  rec'[task'[k].msg].lane = task'[k].lane
    <3>1. Remains(k) /\ task[k].pc = "exec"
      BY <1>3, <2>1 DEF Undisturbed, Begins, Remains
    <3>2. PICK m \in Messages : m = task[k].msg
      BY <3>1 DEF OnceInv, Chosen
    <3>3. rec[m].lane = task[k].lane /\ rec[m].status \notin Fresh
      BY <1>1, <3>1, <3>2 DEF InLane, OnceInv, Executing
    <3>4. rec'[m].lane = rec[m].lane
      BY <1>1, <3>3 DEF RowsServed, Same, Settled, LetGo, Taken, Inserted, Fresh
    <3>5. QED
      BY <3>1, <3>2, <3>3, <3>4 DEF Remains
  <2>2. ASSUME NEW m \in Messages, rec'[m].status = "running"
        PROVE  \/ \E k \in Ids : task'[k].claimed /\ task'[k].msg = m /\ task'[k].pc = "exec"
               \/ ~started' \/ m \in orphans'
    <3>1. m \in orphans' \/ Same(m)
      BY <1>1, <2>2 DEF RowsServed, Settled, LetGo, Inserted
    <3>2. ASSUME Same(m)
          PROVE  ~Start
      <4>1. ASSUME Start
            PROVE  FALSE
        <5>1. rec'[m].status # "running"
          BY <4>1 DEF Start, Recovered, OnceInv, Types, Row
        <5>2. QED
          BY <2>2, <5>1
      <4>2. QED
        BY <4>1
    <3>3. CASE Stopped \/ Crash
      BY <3>3 DEF Stopped, Crash
    <3>4. CASE Same(m) /\ orphans \subseteq orphans' /\ UNCHANGED started
      <4>1. rec[m].status = "running"
        BY <2>2, <3>4 DEF Same
      <4>2. ASSUME NEW k \in Ids, task[k].claimed, task[k].msg = m, task[k].pc = "exec"
            PROVE  task'[k].claimed /\ task'[k].msg = m /\ task'[k].pc = "exec"
        BY <1>3, <4>2 DEF Undisturbed, Remains
      <4>3. QED
        BY <1>1, <3>4, <4>1, <4>2 DEF RunningIsOwned
    <3>5. QED
      BY <3>1, <3>2, <3>3, <3>4, ServiceHistory
  <2>3. QED
    BY <2>1, <2>2 DEF InLane, RunningIsOwned
<1>4. QED
  BY <1>1, <1>2, <1>3

LEMMA OwnNext ==
    ASSUME OnceInv, HoldInv, WorkInv, OwnInv, [Next]_vars
    PROVE  OwnInv'
<1>1. Claims'
  BY ClaimsNext DEF OwnInv
<1>2. CASE \E i \in Ids : ConsumerStep(i)
  BY <1>1, <1>2, ConsumerOwns DEF OwnInv
<1>3. CASE ServiceStep
  BY <1>1, <1>3, ServiceOwns DEF OwnInv
<1>4. CASE UNCHANGED vars
  BY <1>4 DEF vars, memory, OwnInv, Claims, InLane, RunningIsOwned
<1>5. QED
  BY <1>2, <1>3, <1>4, NextSteps

LEMMA OwnInit ==
    ASSUME Init
    PROVE  OwnInv
<1>1. NoTask.pc = "free" /\ NoRow.status = "none"
  BY DEF NoTask, NoRow
<1>2. QED
  BY <1>1, WorkInit DEF Init, OwnInv, InLane, RunningIsOwned

\* A message that is running is being executed, or waits for start() to quarantine it:
\* no cancellation, refusal, fallback, deletion or stop leaves one behind that nobody
\* will settle, a claim written after its consumer was cancelled excepted.
THEOREM RunningHasOwner == Safety => []RunningIsOwned
<1>1. Init => OnceInv /\ HoldInv /\ WorkInv /\ OwnInv
  BY OnceInit, WorkInit, OwnInit
<1>2. OnceInv /\ HoldInv /\ WorkInv /\ OwnInv /\ [Next]_vars
        => (OnceInv /\ HoldInv /\ WorkInv /\ OwnInv)'
  BY OnceNext, HoldNext, WorkNext, OwnNext DEF OwnInv
<1>3. OwnInv => RunningIsOwned
  BY DEF OwnInv
<1>4. QED
  BY <1>1, <1>2, <1>3, PTL DEF Safety

-----------------------------------------------------------------------------
(* Whose turn it is *)

\* next_queued returns the first of its lane, and a task only where none holds it back.
LEMMA NextIsFirst ==
    ASSUME NEW r \in [Messages -> Row], NEW l \in Lane, NextQueued(r, l) # None
    PROVE  /\ \A n \in Messages : r[n].lane = l /\ r[n].status = "queued" => NextQueued(r, l) <= n
           /\ l = "task" => \A m \in Messages : r[m].lane = "task" =>
                r[m].status \in {"none", "queued", "ended"} \/ r[m].released
<1>1. /\ Blockers(r, l) = {} /\ Has(r, l, "queued") # {}
      /\ NextQueued(r, l) = First(Has(r, l, "queued"))
  BY DEF NextQueued
<1>2. Has(r, l, "queued") \subseteq Messages
  BY DEF Has
<1>3. \A n \in Has(r, l, "queued") : NextQueued(r, l) <= n
  BY <1>1, <1>2, FirstInSet
<1>4. ASSUME l = "task", NEW m \in Messages, r[m].lane = "task"
      PROVE  r[m].status \in {"none", "queued", "ended"} \/ r[m].released
  <2>1. m \notin Has(r, l, "waiting") /\ m \notin Uncertain(r, l) /\ m \notin Has(r, l, "running")
    BY <1>1, <1>4 DEF Blockers
  <2>2. r[m].status \in {"none", "queued", "running", "waiting", "unknown", "ended"}
    BY DEF Row
  <2>3. QED
    BY <1>4, <2>1, <2>2 DEF Has, Uncertain
<1>5. QED
  BY <1>3, <1>4 DEF Has

\* No row goes away, changes what its sender asked for, or comes back to the queue of
\* those sent as tasks.
Lasting ==
    \A m \in Messages :
        /\ rec[m].status # "none" => rec'[m].status # "none" /\ rec'[m].asked = rec[m].asked
        /\ rec[m].status = "none" => rec'[m].status = "none" \/ Inserted(m)
        /\ rec'[m].status = "queued" /\ rec'[m].asked = "task" => rec[m].status \in {"none", "queued"}
        /\ rec'[m].status # "none" /\ rec'[m].asked = "task" => rec'[m].lane = "task"

LEMMA RowsLast ==
    ASSUME RowsInOrder,
           \A m \in Messages : \/ Same(m) \/ Settled(m) \/ LetGo(m) \/ Joined(m) \/ Taken(m)
                               \/ Inserted(m)
    PROVE  Lasting
<1> SUFFICES ASSUME NEW m \in Messages
             PROVE  /\ rec[m].status # "none" =>
                         rec'[m].status # "none" /\ rec'[m].asked = rec[m].asked
                    /\ rec[m].status = "none" => rec'[m].status = "none" \/ Inserted(m)
                    /\ rec'[m].status = "queued" /\ rec'[m].asked = "task" =>
                         rec[m].status \in {"none", "queued"}
                    /\ rec'[m].status # "none" /\ rec'[m].asked = "task" => rec'[m].lane = "task"
  BY DEF Lasting
<1>1. rec[m].status # "none" /\ rec[m].asked = "task" => rec[m].lane = "task"
  BY DEF RowsInOrder
<1>2. CASE Same(m)
  BY <1>1, <1>2 DEF Same
<1>3. CASE Settled(m)
  BY <1>1, <1>3 DEF Settled
<1>4. CASE LetGo(m)
  BY <1>1, <1>4 DEF LetGo
<1>5. CASE Joined(m)
  BY <1>1, <1>5 DEF Joined
<1>6. CASE Taken(m)
  BY <1>1, <1>6 DEF Taken
<1>7. CASE Inserted(m)
  BY <1>7 DEF Inserted
<1>8. QED
  BY <1>2, <1>3, <1>4, <1>5, <1>6, <1>7

\* Rows appear in the order of the sequence, because an INSERT takes the next number.
LEMMA RowsNext ==
    ASSUME OnceInv, RowsInOrder, Lasting
    PROVE  RowsInOrder'
<1>1. \A m \in Messages : rec'[m].status # "none" /\ rec'[m].asked = "task" => rec'[m].lane = "task"
  BY DEF Lasting
<1>2. ASSUME NEW m \in Messages, NEW n \in Messages, n < m, rec'[m].status # "none"
      PROVE  rec'[n].status # "none"
  <2>1. rec[n].status # "none"
    <3>1. CASE rec[m].status # "none"
      BY <1>2, <3>1 DEF RowsInOrder
    <3>2. CASE Inserted(m)
      <4>1. m \in Nat /\ n \in Nat
        BY MailboxAssumption DEF Messages
      <4>2. QED
        BY <1>2, <3>2, <4>1 DEF Inserted
    <3>3. QED
      BY <1>2, <3>1, <3>2 DEF Lasting
  <2>2. QED
    BY <2>1 DEF Lasting
<1>3. QED
  BY <1>1, <1>2 DEF RowsInOrder

\* What was first of those sent as tasks stays so.
LEMMA FirstLasts ==
    ASSUME OnceInv, RowsInOrder, FirstOfTasks, Lasting, NEW k \in Ids, task[k].pc = "claim"
    PROVE  /\ rec'[task[k].msg].status # "none"
           /\ rec'[task[k].msg].asked = "task" =>
                \A m \in Messages : m < task[k].msg /\ rec'[m].asked = "task" =>
                    rec'[m].status # "queued"
<1>1. PICK c \in Messages : c = task[k].msg
  BY DEF OnceInv, Chosen
<1>2. /\ rec[c].status # "none"
      /\ rec[c].asked = "task" =>
           \A m \in Messages : m < c /\ rec[m].asked = "task" => rec[m].status # "queued"
  BY <1>1 DEF FirstOfTasks
<1>3. rec'[c].status # "none" /\ rec'[c].asked = rec[c].asked
  BY <1>2 DEF Lasting
<1>4. ASSUME rec'[c].asked = "task", NEW m \in Messages, m < c, rec'[m].asked = "task",
             rec'[m].status = "queued"
      PROVE  FALSE
  <2>1. rec[m].status # "none"
    BY <1>2, <1>4 DEF RowsInOrder
  <2>2. rec[m].status = "queued" /\ rec[m].asked = "task"
    BY <1>4, <2>1 DEF Lasting
  <2>3. QED
    BY <1>2, <1>3, <1>4, <2>2
<1>5. QED
  BY <1>1, <1>3, <1>4

LEMMA ConsumerTurns ==
    ASSUME OnceInv, HoldInv, WorkInv, OwnInv, TurnInv, NEW i \in Ids, ConsumerStep(i)
    PROVE  TurnInv'
<1>1. /\ Claims /\ InLane /\ Beside(i) /\ RowsOf(i) /\ PutsDown(i)
      /\ RowsInOrder /\ Admitted /\ ClearWay /\ FirstOfTasks
  BY ConsumerMoves, ConsumerRows DEF OwnInv, TurnInv
<1>2. UNCHANGED <<lock, early, orphans>>
  BY DEF ConsumerStep, Loop, Leave, Admit, Claim, Submit, Refuse, Fallback, MarkWaiting,
         Settle, Cancelled, memory
<1>3. \A k \in Ids \ {i} : task'[k] = task[k] \/ (task[k].pc = "free" /\ task'[k].pc = "loop")
  BY <1>1 DEF Beside, Begins
<1>4. Lasting
  <2>1. \A m \in Messages : Same(m) \/ Settled(m) \/ Joined(m) \/ Taken(m)
    BY <1>1 DEF RowsOf
  <2>2. QED
    BY <1>1, <2>1, RowsLast
<1>5. RowsInOrder'
  BY <1>1, <1>4, RowsNext
<1>6. rec \in [Messages -> Row] /\ rec' \in [Messages -> Row]
  <2>1. OnceInv'
    BY OnceNext DEF Next
  <2>2. QED
    BY <2>1 DEF OnceInv, Types
<1>7. "task" \in Lane /\ "steer" \in Lane /\ 0 \notin Ids
  BY MailboxAssumption DEF Lane, Ids
\* The consumer itself.
<1>8. \/ Sits(i) /\ admitted' \in {admitted, Released(i)}
      \/ Remains(i) /\ UNCHANGED admitted /\ task[i].pc = "exec"
      \/ /\ task'[i].pc = "claim" /\ task'[i].lane = "steer" /\ UNCHANGED <<rec, admitted>>
         /\ task'[i].msg = NextQueued(rec, "steer") /\ task'[i].msg # None
      \/ /\ task'[i].pc = "claim" /\ admitted = 0 /\ admitted' = i
         /\ task'[i].msg = NextQueued(rec', "task") /\ task'[i].msg # None
      \/ /\ task'[i].pc = "exec" /\ task[i].pc = "claim" /\ task'[i].lane = task[i].lane
         /\ UNCHANGED admitted
  <2>1. CASE Loop(i)
    <3>1. UNCHANGED admitted
      BY <2>1 DEF Loop
    <3>2. QED
      BY <1>1, <2>1, <3>1, LoopMoves
  <2>2. CASE Admit(i)
    BY <1>1, <2>2, AdmitMoves
  <2>3. CASE Claim(i)
    BY <1>1, <2>3, ClaimMoves DEF Claim, At
  <2>4. CASE Submit(i) \/ Fallback(i) \/ MarkWaiting(i)
    <3>1. task[i].pc = "exec" /\ UNCHANGED admitted
      BY <2>4 DEF Submit, Fallback, MarkWaiting, At, memory
    <3>2. QED
      BY <2>4, <3>1, SubmitMoves, FallbackMoves, MarkWaitingMoves
  <2>5. CASE Leave(i) \/ Refuse(i) \/ Settle(i) \/ Cancelled(i)
    <3>1. admitted' \in {admitted, Released(i)}
      BY <2>5 DEF Leave, Refuse, Settle, Cancelled
    <3>2. QED
      BY <2>5, <3>1, EndMoves
  <2>6. QED
    BY <2>1, <2>2, <2>3, <2>4, <2>5 DEF ConsumerStep
<1>9. Admitted'
  <2>1. ASSUME NEW k \in Ids \ {i}, task'[k].pc \in {"claim", "exec"}, task'[k].lane = "task"
        PROVE  admitted' = k
    <3>1. admitted = k
      BY <1>1, <1>3, <2>1 DEF Admitted
    <3>2. QED
      BY <1>7, <1>8, <2>1, <3>1 DEF Released
  <2>2. ASSUME task'[i].pc \in {"claim", "exec"}, task'[i].lane = "task"
        PROVE  admitted' = i
    BY <1>1, <1>8, <2>2 DEF Sits, Remains, Admitted
  <2>3. QED
    BY <2>1, <2>2 DEF Admitted
<1>10. ClearWay'
  <2> SUFFICES ASSUME NEW k \in Ids, task'[k].pc = "claim", task'[k].lane = "task", ~early',
                      NEW m \in Messages
               PROVE  Clean(m)'
    BY DEF ClearWay
  <2>1. CASE k = i
    <3>1. task'[i].msg = NextQueued(rec', "task") /\ task'[i].msg # None
      BY <1>8, <2>1 DEF Sits, Remains
    <3>2. rec'[m].lane = "task" =>
            rec'[m].status \in {"none", "queued", "ended"} \/ rec'[m].released
      BY <1>6, <1>7, <3>1, NextIsFirst
    <3>3. QED
      BY <3>2 DEF Clean
  <2>2. CASE k # i
    <3>1. task[k].pc = "claim" /\ task[k].lane = "task"
      BY <1>3, <2>2
    <3>2. Clean(m) /\ admitted = k
      BY <1>1, <1>2, <3>1 DEF ClearWay, Admitted
    <3>3. task[i].pc \in {"claim", "exec"} => task[i].lane # "task"
      BY <1>1, <2>2, <3>2 DEF Admitted
    <3>4. CASE Same(m)
      BY <1>2, <3>2, <3>4 DEF Same, Clean
    <3>5. CASE Settled(m) /\ m = task[i].msg /\ (task[i].pc = "exec" \/ rec'[m].status = "ended")
      <4>1. CASE rec'[m].status = "ended"
        BY <4>1 DEF Clean
      <4>2. CASE task[i].pc = "exec"
        <5>1. rec[m].lane # "task"
          BY <1>1, <3>3, <3>5, <4>2 DEF InLane
        <5>2. QED
          BY <3>5, <5>1 DEF Settled, Clean
      <4>3. QED
        BY <3>5, <4>1, <4>2
    <3>6. CASE Joined(m)
      BY <3>6 DEF Joined, Clean
    <3>7. CASE Taken(m) /\ task[i].pc = "claim" /\ rec[m].lane = task[i].lane
      BY <3>3, <3>7 DEF Taken, Clean
    <3>8. QED
      BY <1>1, <3>4, <3>5, <3>6, <3>7 DEF RowsOf
  <2>3. QED
    BY <2>1, <2>2
<1>11. FirstOfTasks'
  <2> SUFFICES ASSUME NEW k \in Ids, task'[k].pc = "claim"
               PROVE  /\ rec'[task'[k].msg].status # "none"
                      /\ rec'[task'[k].msg].asked = "task" =>
                           \A m \in Messages : m < task'[k].msg /\ rec'[m].asked = "task" =>
                               rec'[m].status # "queued"
    BY DEF FirstOfTasks
  <2>1. CASE k # i
    <3>1. task'[k] = task[k] /\ task[k].pc = "claim"
      BY <1>3, <2>1
    <3>2. QED
      BY <1>1, <1>4, <3>1, FirstLasts
  <2>2. CASE /\ k = i /\ UNCHANGED rec
             /\ task'[i].msg = NextQueued(rec, "steer") /\ task'[i].msg # None
    <3>1. PICK c : c = task'[i].msg
      OBVIOUS
    <3>2. c \in Messages /\ rec[c].status = "queued" /\ rec[c].lane = "steer"
      BY <1>6, <1>7, <2>2, <3>1, NextIsQueued
    <3>3. rec[c].asked # "task"
      BY <1>1, <3>2 DEF RowsInOrder
    <3>4. QED
      BY <2>2, <3>1, <3>2, <3>3
  <2>3. CASE k = i /\ task'[i].msg = NextQueued(rec', "task") /\ task'[i].msg # None
    <3>1. PICK c : c = task'[i].msg
      OBVIOUS
    <3>2. c \in Messages /\ rec'[c].status = "queued"
      BY <1>6, <1>7, <2>3, <3>1, NextIsQueued
    <3>3. \A n \in Messages : rec'[n].lane = "task" /\ rec'[n].status = "queued" => c <= n
      BY <1>6, <1>7, <2>3, <3>1, NextIsFirst
    <3>4. ASSUME NEW m \in Messages, m < c, rec'[m].asked = "task", rec'[m].status = "queued"
          PROVE  FALSE
      <4>1. rec'[m].lane = "task"
        BY <1>5, <3>4 DEF RowsInOrder
      <4>2. c <= m
        BY <3>3, <3>4, <4>1
      <4>3. c \in Nat /\ m \in Nat
        BY <3>2, MailboxAssumption DEF Messages
      <4>4. QED
        BY <3>4, <4>2, <4>3
    <3>5. QED
      BY <2>3, <3>1, <3>2, <3>4
  <2>4. QED
    BY <1>8, <2>1, <2>2, <2>3 DEF Sits, Remains
<1>12. QED
  BY <1>5, <1>9, <1>10, <1>11 DEF TurnInv

LEMMA ServiceTurns ==
    ASSUME OnceInv, HoldInv, WorkInv, OwnInv, TurnInv, ServiceStep
    PROVE  TurnInv'
<1>1. /\ RowsServed /\ (Crash \/ Undisturbed)
      /\ RowsInOrder /\ Admitted /\ ClearWay /\ FirstOfTasks
  BY ServicePlaces, ServiceRows DEF TurnInv, ServiceStep
<1>2. Lasting
  <2>1. \A m \in Messages : Same(m) \/ Settled(m) \/ LetGo(m) \/ Taken(m) \/ Inserted(m)
    BY <1>1 DEF RowsServed
  <2>2. QED
    BY <1>1, <2>1, RowsLast
<1>3. RowsInOrder'
  BY <1>1, <1>2, RowsNext
<1>4. CASE Crash
  <2>1. \A k \in Ids : task'[k].pc = "free"
    BY <1>4 DEF Crash, NoTask
  <2>2. QED
    BY <1>3, <2>1 DEF TurnInv, Admitted, ClearWay, FirstOfTasks
<1>5. CASE Undisturbed /\ ~Crash
  <2>1. \A k \in Ids : task'[k].pc \in {"claim", "exec"} =>
          /\ task[k].pc = task'[k].pc /\ task'[k].msg = task[k].msg /\ task'[k].lane = task[k].lane
    BY <1>5 DEF Undisturbed, Remains, Begins
  <2>2. UNCHANGED admitted
    BY <1>5 DEF ServiceStep, Enqueue, OtherStep, Send, LateClaim, LateEnqueue, ResolveUnknown,
                Finalize, ContinueQueued, Supersede, Writes, Wake, CallerGone, CancelSend, Start,
                GatewayUp, GatewayDown, Stop, Stopped, AcceptDelete, BeginDelete,
                ConsumersStopped, RemoveTarget, TargetDeleted, AbortDelete, memory
  <2>3. Admitted'
    BY <1>1, <2>1, <2>2 DEF Admitted
  <2>4. FirstOfTasks'
    <3> SUFFICES ASSUME NEW k \in Ids, task'[k].pc = "claim"
                 PROVE  /\ rec'[task'[k].msg].status # "none"
                        /\ rec'[task'[k].msg].asked = "task" =>
                             \A m \in Messages : m < task'[k].msg /\ rec'[m].asked = "task" =>
                                 rec'[m].status # "queued"
      BY DEF FirstOfTasks
    <3>1. task[k].pc = "claim" /\ task'[k].msg = task[k].msg
      BY <2>1
    <3>2. QED
      BY <1>1, <1>2, <3>1, FirstLasts
  <2>5. ClearWay'
    <3> SUFFICES ASSUME NEW k \in Ids, task'[k].pc = "claim", task'[k].lane = "task", ~early',
                        NEW m \in Messages
                 PROVE  Clean(m)'
      BY DEF ClearWay
    <3>1. task[k].pc = "claim" /\ task[k].lane = "task"
      BY <2>1
    <3>2. ~Stopped
      BY <3>1 DEF Stopped
    <3>3. ~early
      BY <1>5, <3>2 DEF ServiceStep, Enqueue, OtherStep, Send, LateClaim, LateEnqueue,
                        ResolveUnknown, Finalize, ContinueQueued, Supersede, Writes, Wake,
                        CallerGone, CancelSend, Start, GatewayUp, GatewayDown, Stop,
                        AcceptDelete, BeginDelete, ConsumersStopped, RemoveTarget, TargetDeleted,
                        AbortDelete, memory
    <3>4. ~Start
      BY <3>1, <3>3 DEF Start, HoldInv, Idle
    <3>5. Clean(m) /\ orphans \subseteq orphans'
      BY <1>1, <1>5, <3>1, <3>2, <3>3, <3>4, ServiceHistory DEF ClearWay
    <3>6. CASE Same(m)
      BY <3>5, <3>6 DEF Same, Clean
    <3>7. CASE Settled(m) /\ (rec'[m].status = "ended" \/ rec[m].status = "waiting")
      BY <3>5, <3>7 DEF Settled, Clean
    <3>8. CASE LetGo(m)
      BY <3>8 DEF LetGo, Clean
    <3>9. CASE m \in orphans'
      BY <3>9 DEF Clean
    <3>10. CASE Inserted(m)
      BY <3>10 DEF Inserted, Clean
    <3>11. QED
      BY <1>1, <3>4, <3>6, <3>7, <3>8, <3>9, <3>10 DEF RowsServed
  <2>6. QED
    BY <1>3, <2>3, <2>4, <2>5 DEF TurnInv
<1>6. QED
  BY <1>1, <1>4, <1>5

LEMMA TurnNext ==
    ASSUME OnceInv, HoldInv, WorkInv, OwnInv, TurnInv, [Next]_vars
    PROVE  TurnInv'
<1>1. CASE UNCHANGED vars
  BY <1>1 DEF vars, memory, TurnInv, RowsInOrder, Admitted, ClearWay, Clean, FirstOfTasks
<1>2. QED
  BY <1>1, ConsumerTurns, ServiceTurns, NextSteps

LEMMA TurnInit ==
    ASSUME Init
    PROVE  TurnInv
<1>1. NoTask.pc = "free" /\ NoRow.status = "none"
  BY DEF NoTask, NoRow
<1>2. (\A i \in Ids : task[i].pc = "free") /\ (\A m \in Messages : rec[m].status = "none")
  BY <1>1 DEF Init
<1>3. QED
  BY <1>2 DEF Init, TurnInv, RowsInOrder, Admitted, ClearWay, FirstOfTasks

\* A consumer takes a task only while no other task of the target runs, waits or is
\* uncertain, and messages sent as tasks are taken in the order in which they were
\* accepted, whatever is deferred, refused, cancelled, released or recovered meanwhile.
THEOREM TasksTakeTurns == Safety => TasksInTurn
<1>1. Init => OnceInv /\ HoldInv /\ WorkInv /\ OwnInv /\ TurnInv
  BY OnceInit, WorkInit, OwnInit, TurnInit
<1>2. OnceInv /\ HoldInv /\ WorkInv /\ OwnInv /\ TurnInv /\ [Next]_vars
        => (OnceInv /\ HoldInv /\ WorkInv /\ OwnInv /\ TurnInv)'
  BY OnceNext, HoldNext, WorkNext, OwnNext, TurnNext DEF OwnInv
<1> DEFINE InTurn ==
      \A i \in Ids : task[i].pc = "claim" /\ task'[i].pc = "exec" =>
          /\ task[i].lane = "task" =>
               \/ \A m \in Messages \ orphans : rec[m].lane = "task" =>
                      rec[m].status \in {"none", "queued", "ended"} \/ rec[m].released
               \/ early
          /\ rec[task[i].msg].asked = "task" =>
               \A m \in 1..(task[i].msg - 1) :
                   rec[m].asked = "task" => rec[m].status # "queued"
<1>3. OnceInv /\ TurnInv /\ [Next]_vars => [InTurn]_vars
  <2> SUFFICES ASSUME OnceInv, TurnInv
               PROVE  InTurn
    OBVIOUS
  <2>1. ASSUME NEW i \in Ids, task[i].pc = "claim", task[i].lane = "task", ~early,
               NEW m \in Messages \ orphans, rec[m].lane = "task"
        PROVE  rec[m].status \in {"none", "queued", "ended"} \/ rec[m].released
    BY <2>1 DEF TurnInv, ClearWay, Clean
  <2>2. ASSUME NEW i \in Ids, task[i].pc = "claim", rec[task[i].msg].asked = "task",
               NEW m \in 1..(task[i].msg - 1), rec[m].asked = "task"
        PROVE  rec[m].status # "queued"
    <3>1. PICK c \in Messages : c = task[i].msg
      BY <2>2 DEF OnceInv, Chosen
    <3>2. m \in Messages /\ m < c
      BY <2>2, <3>1, MailboxAssumption DEF Messages
    <3>3. QED
      BY <2>2, <3>1, <3>2 DEF TurnInv, FirstOfTasks
  <2>3. QED
    BY <2>1, <2>2
<1>4. QED
  BY <1>1, <1>2, <1>3, PTL DEF Safety, TasksInTurn

-----------------------------------------------------------------------------
(* No wakeup is lost *)

\* A consumer of the task lane is the one _workers names: only steers leave it, as
\* fallbacks.
Posted(w, t) == \A i \in Ids : t[i].pc # "free" /\ t[i].lane = "task" => w["task"] = i

\* Strengthens QueueIsServed: the consumer that is admitted with the steers that must queue
\* is the registered one, which goes on to look for them.
ServedInv ==
    /\ \A i \in Ids : task[i].pc = "admit" => task[i].lane = "task"
    /\ stopping \/ Posted(worker, task)
    /\ ~started /\ stopping => \A i \in Ids : task[i].pc = "free"
    /\ QueueIsServed

\* The row brings no message into a lane's queue, and lifts nothing that holds it up.
Keeps(m, l) ==
    /\ m \in Has(rec', l, "queued") => m \in Has(rec, l, "queued")
    /\ m \in Blockers(rec, l) => m \in Blockers(rec', l)

LEMMA KeptIsServed ==
    ASSUME NEW l \in Lane, \A m \in Messages : Keeps(m, l), NextQueued(rec', l) # None
    PROVE  NextQueued(rec, l) # None
<1>1. Blockers(rec', l) = {} /\ Has(rec', l, "queued") # {}
  BY DEF NextQueued
<1>2. Blockers(rec, l) \subseteq Messages /\ Has(rec', l, "queued") \subseteq Messages
  BY DEF Blockers, Has, Uncertain
<1>3. Blockers(rec, l) = {} /\ Has(rec, l, "queued") # {}
  BY <1>1, <1>2 DEF Keeps
<1>4. First(Has(rec, l, "queued")) \in Has(rec, l, "queued")
  BY <1>3, FirstInSet DEF Has
<1>5. First(Has(rec, l, "queued")) # None
  BY <1>4, MailboxAssumption DEF Has, Messages, None
<1>6. QED
  BY <1>3, <1>5 DEF NextQueued

LEMMA RowKeeps ==
    ASSUME rec \in [Messages -> Row], NEW m \in Messages, NEW l \in Lane,
           \/ Same(m)
           \/ rec[m].lane # l /\ rec'[m].lane # l
           \/ Taken(m)
           \/ Joined(m) /\ rec[m].status = "queued" /\ l = "steer"
           \/ Settled(m) /\ rec[m].status = "queued"
           \/ Settled(m) /\ rec'[m].status = "waiting" /\ rec[m].status = "running"
    PROVE  Keeps(m, l)
<1>1. CASE Same(m)
  BY <1>1 DEF Same, Keeps, Has, Blockers, Uncertain
<1>2. CASE rec[m].lane # l /\ rec'[m].lane # l
  BY <1>2 DEF Keeps, Has, Blockers, Uncertain
<1>3. CASE Taken(m)
  BY <1>3 DEF Taken, Keeps, Has, Blockers, Uncertain
<1>4. CASE Joined(m) /\ rec[m].status = "queued" /\ l = "steer"
  BY <1>4 DEF Joined, Keeps, Has, Blockers, Uncertain
<1>5. CASE Settled(m) /\ rec[m].status = "queued"
  BY <1>5 DEF Settled, Keeps, Has, Blockers, Uncertain
<1>6. CASE Settled(m) /\ rec'[m].status = "waiting" /\ rec[m].status = "running"
  BY <1>6 DEF Settled, Keeps, Has, Blockers, Uncertain
<1>7. QED
  BY <1>1, <1>2, <1>3, <1>4, <1>5, <1>6

\* _ensure_delivery_worker leaves its lane with a consumer where one may start, and the
\* other lane as it was.
LEMMA EnsureLaneServes ==
    ASSUME NEW st, Placed(st.w, st.t), NEW l \in Lane, Room(st, l)
    PROVE  /\ MayStart => EnsureLane(st, l).w[l] # 0
           /\ \A m \in Lane \ {l} : EnsureLane(st, l).w[m] = st.w[m]
           /\ Posted(st.w, st.t) => Posted(EnsureLane(st, l).w, EnsureLane(st, l).t)
<1>1. CASE ~MayStart \/ st.w[l] # 0
  BY <1>1 DEF EnsureLane
<1>2. CASE MayStart /\ st.w[l] = 0
  <2>1. st.t \in [Ids -> Task] /\ st.w \in [Lane -> Ids \cup {0}]
    BY DEF Placed
  <2>2. \E k \in Ids : st.t[k].pc = "free" /\ \A n \in 1..(k-1) : st.t[n].pc # "free"
    BY <1>2, <2>1, FreeTask DEF Room
  <2>3. PICK i \in Ids : EnsureLane(st, l) = [w |-> [st.w EXCEPT ![l] = i],
                                              t |-> [st.t EXCEPT ![i] = Newborn(l)]]
    <3> DEFINE i == CHOOSE k \in Ids : st.t[k].pc = "free"
                                       /\ \A n \in 1..(k-1) : st.t[n].pc # "free"
    <3>1. i \in Ids
      BY <2>2
    <3>2. EnsureLane(st, l) = [w |-> [st.w EXCEPT ![l] = i],
                               t |-> [st.t EXCEPT ![i] = Newborn(l)]]
      BY <1>2 DEF EnsureLane, Newborn
    <3> HIDE DEF i
    <3>3. QED
      BY <3>1, <3>2
  <2>4. PICK w, t : /\ w = [st.w EXCEPT ![l] = i] /\ t = [st.t EXCEPT ![i] = Newborn(l)]
                    /\ EnsureLane(st, l).w = w /\ EnsureLane(st, l).t = t
    BY <2>3
  <2>5. /\ w[l] = i /\ \A m \in Lane \ {l} : w[m] = st.w[m]
        /\ t[i] = Newborn(l) /\ \A k \in Ids \ {i} : t[k] = st.t[k]
    BY <2>1, <2>4
  <2>6. i # 0 /\ "task" \in Lane
    BY MailboxAssumption DEF Ids, Lane
  <2>7. ASSUME Posted(st.w, st.t), NEW k \in Ids, t[k].pc # "free", t[k].lane = "task"
        PROVE  w["task"] = k
    <3>1. CASE k = i
      <4>1. l = "task"
        BY <2>5, <2>7, <3>1, NewbornFacts
      <4>2. QED
        BY <2>5, <3>1, <4>1
    <3>2. CASE k # i
      <4>1. st.w["task"] = k
        BY <2>5, <2>7, <3>2 DEF Posted
      <4>2. k # 0
        BY MailboxAssumption DEF Ids
      <4>3. l # "task"
        BY <1>2, <4>1, <4>2
      <4>4. QED
        BY <2>5, <2>6, <4>1, <4>3
    <3>3. QED
      BY <3>1, <3>2
  <2>8. Posted(st.w, st.t) => Posted(w, t)
    BY <2>7 DEF Posted
  <2>9. QED
    BY <2>4, <2>5, <2>6, <2>8
<1>3. QED
  BY <1>1, <1>2

LEMMA EnsureServes ==
    ASSUME NEW w, NEW t, Placed(w, t), EnsureWorker(w, t)
    PROVE  /\ MayStart => \A l \in Lane : worker'[l] # 0
           /\ Posted(w, t) => Posted(worker', task')
<1>0. PICK s0 : s0 = [w |-> w, t |-> t]
  OBVIOUS
<1>1. s0 = [w |-> w, t |-> t] /\ s0.w = w /\ s0.t = t
  BY <1>0
<1>2. PICK s1 : s1 = EnsureLane(s0, "task")
  OBVIOUS
<1>3. "task" \in Lane /\ "steer" \in Lane
  BY DEF Lane
<1>4. /\ Room(s0, "task") /\ Room(s1, "steer")
      /\ worker' = EnsureLane(s1, "steer").w /\ task' = EnsureLane(s1, "steer").t
  BY <1>1, <1>2 DEF EnsureWorker
<1>5. Placed(s1.w, s1.t)
  BY <1>1, <1>2, <1>3, <1>4, EnsureLanePlaces
<1>6. (MayStart => s1.w["task"] # 0) /\ (Posted(w, t) => Posted(s1.w, s1.t))
  BY <1>1, <1>2, <1>3, <1>4, EnsureLaneServes
<1>7. /\ MayStart => worker'["steer"] # 0
      /\ worker'["task"] = s1.w["task"]
      /\ Posted(s1.w, s1.t) => Posted(worker', task')
  BY <1>3, <1>4, <1>5, EnsureLaneServes DEF Lane
<1>8. QED
  BY <1>6, <1>7 DEF Lane

\* The end of a consumer looks at its own lane again, and leaves the other.
LEMMA LeavesServes ==
    ASSUME Placed(worker, task), NEW i \in Ids, task[i].pc # "free", Leaves(i)
    PROVE  /\ NextQueued(rec', task[i].lane) # None /\ MayStart => worker'[task[i].lane] # 0
           /\ \A m \in Lane \ {task[i].lane} : worker'[m] = worker[m]
           /\ Posted(worker, task) => Posted(worker', task')
<1>1. task \in [Ids -> Task] /\ worker \in [Lane -> Ids \cup {0}]
  BY DEF Placed
<1>2. PICK l \in Lane : l = task[i].lane
  BY <1>1 DEF Task
<1>3. PICK t : t = [task EXCEPT ![i] = NoTask]
  OBVIOUS
<1>4. PICK w : w = Deregistered(i)
  OBVIOUS
<1>5. NoTask \in Task /\ NoTask.pc = "free"
  BY DEF NoTask, Task, Lane, None
<1>6. t \in [Ids -> Task] /\ t[i].pc = "free" /\ \A k \in Ids \ {i} : t[k] = task[k]
  BY <1>1, <1>3, <1>5
<1>7. /\ w \in [Lane -> Ids \cup {0}] /\ \A m \in Lane \ {l} : w[m] = worker[m]
      /\ w[l] = IF worker[l] = i THEN 0 ELSE worker[l]
  BY <1>1, <1>2, <1>4 DEF Deregistered
<1>8. Placed(w, t)
  <2>1. ASSUME NEW m \in Lane, w[m] # 0
        PROVE  t[w[m]].pc # "free" /\ t[w[m]].lane = m
    <3>1. PICK j : j = worker[m]
      OBVIOUS
    <3>2. w[m] = j /\ j # 0 /\ (m = l => j # i)
      BY <1>7, <2>1, <3>1
    <3>3. j \in Ids /\ task[j].pc # "free" /\ task[j].lane = m
      BY <1>1, <3>1, <3>2 DEF Placed
    <3>4. j # i
      BY <1>2, <3>2, <3>3
    <3>5. t[j] = task[j]
      BY <1>6, <3>3, <3>4
    <3>6. QED
      BY <3>2, <3>3, <3>5
  <2>2. QED
    BY <1>6, <1>7, <2>1 DEF Placed
<1>9. Posted(worker, task) => Posted(w, t)
  <2>1. ASSUME Posted(worker, task), NEW k \in Ids, t[k].pc # "free", t[k].lane = "task"
        PROVE  w["task"] = k
    <3>1. k # i /\ t[k] = task[k]
      BY <1>6, <2>1
    <3>2. worker["task"] = k /\ "task" \in Lane
      BY <2>1, <3>1 DEF Posted, Lane
    <3>3. QED
      BY <1>7, <3>1, <3>2
  <2>2. QED
    BY <2>1 DEF Posted
<1>10. PICK s0 : s0 = [w |-> w, t |-> t]
  OBVIOUS
<1>11. s0 = [w |-> w, t |-> t] /\ s0.w = w /\ s0.t = t
  BY <1>10
<1>12. worker' = Rearmed(s0, l).w /\ task' = Rearmed(s0, l).t
  BY <1>2, <1>3, <1>4, <1>11 DEF Leaves
<1>13. Room(s0, l)
  BY <1>6, <1>11 DEF Room
<1>14. /\ MayStart => EnsureLane(s0, l).w[l] # 0
       /\ \A m \in Lane \ {l} : EnsureLane(s0, l).w[m] = w[m]
       /\ Posted(w, t) => Posted(EnsureLane(s0, l).w, EnsureLane(s0, l).t)
  BY <1>8, <1>11, <1>13, EnsureLaneServes
<1>15. CASE NextQueued(rec', l) = None
  <2>1. worker' = w /\ task' = t
    BY <1>11, <1>12, <1>15 DEF Rearmed
  <2>2. QED
    BY <1>2, <1>7, <1>9, <1>15, <2>1
<1>16. CASE NextQueued(rec', l) # None
  <2>1. worker' = EnsureLane(s0, l).w /\ task' = EnsureLane(s0, l).t
    BY <1>12, <1>16 DEF Rearmed
  <2>2. QED
    BY <1>2, <1>7, <1>9, <1>14, <2>1
<1>17. QED
  BY <1>15, <1>16

\* Where QueueIsServed has nothing to say of a lane.
Excuse == ~started \/ stopping \/ blocked \/ held \/ (\E c \in Call : calls[c] > 0) \/ unwoken

\* The ways in which a step keeps a lane served.
LEMMA LaneServed ==
    ASSUME ServedInv, NEW l \in Lane,
           \/ Excuse'
           \/ worker'[l] # 0
           \/ NextQueued(rec', l) = None
           \/ (\A m \in Messages : Keeps(m, l)) /\ worker'[l] = worker[l] /\ (Excuse => Excuse')
    PROVE  NextQueued(rec', l) # None => worker'[l] # 0 \/ Excuse'
<1>1. NextQueued(rec, l) # None => worker[l] # 0 \/ Excuse
  BY DEF ServedInv, QueueIsServed, Excuse
<1>2. QED
  BY <1>1, KeptIsServed

LEMMA SameKeeps ==
    ASSUME rec \in [Messages -> Row], UNCHANGED rec, NEW l \in Lane
    PROVE  \A m \in Messages : Keeps(m, l)
BY RowKeeps DEF Same

\* What a consumer's step leaves of the excuses.
LEMMA ConsumerExcuse ==
    ASSUME NEW i \in Ids, ConsumerStep(i)
    PROVE  /\ UNCHANGED <<started, stopping, blocked, held, calls>>
           /\ UNCHANGED unwoken \/ (\E t : t = Around(i) /\ EnsureWorker(worker, t))
           /\ ~MayStart => Excuse'
<1>1. UNCHANGED <<started, stopping, blocked, held, calls>>
  BY DEF ConsumerStep, Loop, Leave, Admit, Claim, Submit, Refuse, Fallback, MarkWaiting,
         Settle, Cancelled, memory, apart
<1>2. UNCHANGED unwoken \/ EnsureWorker(worker, Around(i))
  BY DEF ConsumerStep, Loop, Leave, Admit, Claim, Submit, Refuse, Fallback, MarkWaiting,
         Settle, Cancelled, Defer
<1>3. QED
  BY <1>1, <1>2 DEF MayStart, Excuse

LEMMA ConsumerServes ==
    ASSUME OnceInv, HoldInv, WorkInv, OwnInv, ServedInv, NEW i \in Ids, ConsumerStep(i)
    PROVE  /\ \A l \in Lane : NextQueued(rec', l) # None => worker'[l] # 0 \/ Excuse'
           /\ stopping' \/ Posted(worker', task')
<1>1. /\ rec \in [Messages -> Row] /\ task \in [Ids -> Task] /\ Placed(worker, task)
      /\ Claims /\ InLane
  BY DEF OnceInv, Types, WorkInv, OwnInv
<1>2. task[i].pc # "free" /\ task[i].lane \in Lane /\ i # 0 /\ "task" \in Lane /\ "steer" \in Lane
  BY <1>1, MailboxAssumption
     DEF ConsumerStep, Loop, Leave, Admit, Claim, Submit, Refuse, Fallback, MarkWaiting,
         Settle, Cancelled, At, HoldInv, Task, Ids, Lane
<1>3. /\ UNCHANGED <<started, stopping, blocked, held, calls>>
      /\ ~MayStart => Excuse'
      /\ UNCHANGED unwoken \/ EnsureWorker(worker, Around(i))
  BY ConsumerExcuse
<1>4. Placed(worker, Around(i)) /\ (Posted(worker, task) => Posted(worker, Around(i)))
  <2>1. Placed(worker, Around(i)) /\ \A k \in Ids \ {i} : Around(i)[k] = task[k]
    BY <1>1, <1>2, AroundPlaces
  <2>2. Around(i)[i].lane = task[i].lane
    BY <1>1 DEF Around, NoTask, Task
  <2>3. QED
    BY <1>2, <2>1, <2>2 DEF Posted
\* It ensured the consumers.
<1>5. CASE EnsureWorker(worker, Around(i))
  <2>1. (MayStart => \A l \in Lane : worker'[l] # 0) /\ (stopping \/ Posted(worker', task'))
    BY <1>4, <1>5, EnsureServes DEF ServedInv
  <2>2. QED
    BY <1>3, <2>1
<1>6. CASE UNCHANGED unwoken
  <2>0. Excuse => Excuse'
    BY <1>3, <1>6 DEF Excuse
  \* It stays, in its place.
  <2>1. ASSUME UNCHANGED worker, task' \in [Ids -> Task],
               \A k \in Ids : task'[k].lane = task[k].lane /\ (task[k].pc = "free" => task'[k].pc = "free")
        PROVE  stopping' \/ Posted(worker', task')
    BY <1>3, <2>1 DEF ServedInv, Posted
  <2>2. ASSUME UNCHANGED <<rec, worker>>
        PROVE  \A l \in Lane : NextQueued(rec', l) # None => worker'[l] # 0 \/ Excuse'
    BY <1>1, <2>0, <2>2, SameKeeps, LaneServed
  <2>3. ASSUME task' = Around(i), UNCHANGED worker
        PROVE  stopping' \/ Posted(worker', task')
    BY <1>3, <1>4, <2>3 DEF ServedInv
  \* It goes round or leaves, having touched rows of its own lane only.
  <2>4. ASSUME (Continues(i) /\ worker[task[i].lane] = i) \/ Leaves(i),
               \A l \in Lane \ {task[i].lane} : \A m \in Messages : Keeps(m, l)
        PROVE  /\ \A l \in Lane : NextQueued(rec', l) # None => worker'[l] # 0 \/ Excuse'
               /\ stopping' \/ Posted(worker', task')
    <3>1. CASE Continues(i) /\ worker[task[i].lane] = i
      <4>1. task' = Around(i) /\ UNCHANGED worker
        BY <3>1 DEF Continues
      <4>2. ASSUME NEW l \in Lane, l # task[i].lane
            PROVE  NextQueued(rec', l) # None => worker'[l] # 0 \/ Excuse'
        BY <2>0, <2>4, <4>1, <4>2, LaneServed
      <4>3. QED
        BY <1>2, <2>3, <3>1, <4>1, <4>2
    <3>2. CASE Leaves(i)
      <4>1. /\ NextQueued(rec', task[i].lane) # None /\ MayStart => worker'[task[i].lane] # 0
            /\ \A l \in Lane \ {task[i].lane} : worker'[l] = worker[l]
            /\ Posted(worker, task) => Posted(worker', task')
        BY <1>1, <1>2, <3>2, LeavesServes
      <4>2. ASSUME NEW l \in Lane, l # task[i].lane
            PROVE  NextQueued(rec', l) # None => worker'[l] # 0 \/ Excuse'
        BY <2>0, <2>4, <4>1, <4>2, LaneServed
      <4>3. QED
        BY <1>3, <4>1, <4>2 DEF ServedInv
    <3>3. QED
      BY <2>4, <3>1, <3>2
  <2>5. CASE Loop(i) \/ Refuse(i)
    <3>1. CASE \E pc, m : task' = [task EXCEPT ![i].pc = pc, ![i].msg = m] /\ UNCHANGED <<rec, worker>>
      <4>1. \A k \in Ids : task'[k].lane = task[k].lane /\ (task[k].pc = "free" => task'[k].pc = "free")
        BY <1>1, <1>2, <3>1 DEF Task
      <4>2. task' \in [Ids -> Task]
        BY ConsumerMoves, <1>1 DEF Beside, Placed
      <4>3. QED
        BY <2>1, <2>2, <3>1, <4>1, <4>2
    <3>2. CASE \E m : Defer(i, m)
      BY <1>5, <2>2, <2>3, <3>2 DEF Defer
    <3>3. QED
      BY <2>5, <3>1, <3>2 DEF Loop, Refuse
  <2>6. CASE Leave(i)
    BY <1>1, <2>4, <2>6, SameKeeps DEF Leave
  <2>7. CASE Admit(i)
    <3>1. task[i].lane = "task" /\ task[i].msg \in Messages
      BY <2>7 DEF Admit, At, ServedInv, OnceInv, Chosen
    <3>2. CASE Transition(task[i].msg, "ended", {"queued"}) /\ ContinuesOrLeaves(i)
      <4>1. \A m \in Messages : Same(m) \/ (Settled(m) /\ rec[m].status = "queued")
        BY <1>1, <3>1, <3>2, TransitionRows
      <4>2. \A l \in Lane, m \in Messages : Keeps(m, l)
        BY <1>1, <4>1, RowKeeps
      <4>3. QED
        BY <2>4, <3>2, <4>2 DEF ContinuesOrLeaves
    <3>3. CASE rec' \in {SteersDeferred, rec} /\ UNCHANGED worker
      <4>1. \A m \in Messages : Same(m) \/ (Joined(m) /\ rec[m].status = "queued")
        BY <1>1, <3>3, SteersDeferredRows
      <4>2. \A m \in Messages : Keeps(m, "steer")
        BY <1>1, <1>2, <4>1, RowKeeps
      <4>3. stopping \/ worker["task"] = i
        BY <1>2, <3>1 DEF ServedInv, Posted
      <4>4. \A l \in Lane : NextQueued(rec', l) # None => worker'[l] # 0 \/ Excuse'
        <5>1. NextQueued(rec', "steer") # None => worker'["steer"] # 0 \/ Excuse'
          BY <1>2, <2>0, <3>3, <4>2, LaneServed
        <5>2. worker'["task"] # 0 \/ Excuse'
          BY <1>2, <1>3, <3>3, <4>3 DEF Excuse
        <5>3. QED
          BY <5>1, <5>2 DEF Lane
      <4>5. CASE task' = Around(i)
        BY <2>3, <3>3, <4>4, <4>5
      <4>6. CASE \E m : task' = [task EXCEPT ![i].pc = "claim", ![i].msg = m]
        <5>1. \A k \in Ids : task'[k].lane = task[k].lane /\ (task[k].pc = "free" => task'[k].pc = "free")
          BY <1>1, <1>2, <4>6 DEF Task
        <5>2. task' \in [Ids -> Task]
          BY ConsumerMoves, <1>1 DEF Beside, Placed
        <5>3. QED
          BY <2>1, <3>3, <4>4, <5>1, <5>2
      <4>7. QED
        BY <2>7, <3>2, <4>5, <4>6 DEF Admit
    <3>4. QED
      BY <2>7, <3>2, <3>3 DEF Admit
  <2>8. CASE Claim(i)
    <3>1. UNCHANGED worker
      BY <2>8 DEF Claim
    <3>2. \A m \in Messages : Same(m) \/ Taken(m)
      <4>1. RowsOf(i) /\ task[i].pc = "claim" /\ (UNCHANGED rec \/ Claimable(task[i].msg, task[i].lane))
        BY <1>1, <2>8, ConsumerRows DEF Claim, At
      <4>2. UNCHANGED rec \/ rec' = [rec EXCEPT ![task[i].msg].status = "running"]
        BY <2>8 DEF Claim
      <4>3. \A m \in Messages : ~Joined(m) /\ ~(Settled(m) /\ rec'[m].status = "ended" /\ ~Same(m))
        BY <1>1, <4>2 DEF Joined, Settled, Same, Row
      <4>4. QED
        BY <4>1, <4>3 DEF RowsOf
    <3>3. \A l \in Lane, m \in Messages : Keeps(m, l)
      BY <1>1, <3>2, RowKeeps
    <3>4. \A l \in Lane : NextQueued(rec', l) # None => worker'[l] # 0 \/ Excuse'
      BY <2>0, <3>1, <3>3, LaneServed
    <3>5. CASE task' = Around(i)
      BY <2>3, <3>1, <3>4, <3>5
    <3>6. CASE task' = [task EXCEPT ![i].pc = "exec", ![i].claimed = TRUE]
      <4>1. \A k \in Ids : task'[k].lane = task[k].lane /\ (task[k].pc = "free" => task'[k].pc = "free")
        BY <1>1, <1>2, <3>6 DEF Task
      <4>2. task' \in [Ids -> Task]
        BY ConsumerMoves, <1>1 DEF Beside, Placed
      <4>3. QED
        BY <2>1, <3>1, <3>4, <4>1, <4>2
    <3>7. QED
      BY <2>8, <3>5, <3>6 DEF Claim
  <2>9. CASE Submit(i)
    <3>1. UNCHANGED <<rec, worker>> /\ task' \in [Ids -> Task]
      BY <1>1, <2>9, ConsumerMoves DEF Submit, Beside, Placed
    <3>2. \A k \in Ids : task'[k].lane = task[k].lane /\ task'[k].pc = task[k].pc
      BY <1>1, <2>9 DEF Submit, Task
    <3>3. QED
      BY <2>1, <2>2, <3>1, <3>2
  <2>10. CASE Fallback(i)
    <3>1. PICK w : w = [worker EXCEPT !["steer"] = 0]
      OBVIOUS
    <3>2. w \in [Lane -> Ids \cup {0}] /\ w["task"] = worker["task"] /\ w["steer"] = 0
      BY <1>1, <1>2, <3>1 DEF Placed, Lane
    <3>3. Placed(w, task) /\ (Posted(worker, task) => Posted(w, task))
      <4>1. \A l \in Lane : w[l] = 0 \/ w[l] = worker[l]
        BY <3>2 DEF Lane
      <4>2. Placed(w, task)
        BY <1>1, <3>2, <4>1 DEF Placed
      <4>3. QED
        BY <3>2, <4>2 DEF Posted
    <3>4. PICK st : st = [w |-> w, t |-> task]
      OBVIOUS
    <3>5. st.w = w /\ st.t = task
      BY <3>4
    <3>6. /\ Room(st, "steer") /\ UNCHANGED rec
          /\ worker' = EnsureLane(st, "steer").w /\ task' = EnsureLane(st, "steer").t
      BY <2>10, <3>1, <3>4 DEF Fallback
    <3>7. /\ MayStart => worker'["steer"] # 0
          /\ worker'["task"] = worker["task"]
          /\ Posted(worker, task) => Posted(worker', task')
      BY <1>2, <3>2, <3>3, <3>5, <3>6, EnsureLaneServes DEF Lane
    <3>8. NextQueued(rec', "task") # None => worker'["task"] # 0 \/ Excuse'
      BY <1>1, <1>2, <2>0, <3>6, <3>7, SameKeeps, LaneServed
    <3>9. QED
      BY <1>3, <3>7, <3>8 DEF Lane, ServedInv
  <2>11. CASE MarkWaiting(i)
    <3>1. UNCHANGED <<worker, task>> /\ task[i].msg \in Messages
      BY <2>11 DEF MarkWaiting, memory, At, OnceInv, Chosen
    <3>2. Transition(task[i].msg, "waiting", {"running"})
      BY <2>11 DEF MarkWaiting
    <3>3. \A m \in Messages : \/ Same(m)
                              \/ Settled(m) /\ rec'[m].status = "waiting" /\ rec[m].status = "running"
      BY <1>1, <3>1, <3>2, TransitionRows
    <3>4. \A l \in Lane, m \in Messages : Keeps(m, l)
      BY <1>1, <3>3, RowKeeps
    <3>5. \A l \in Lane : NextQueued(rec', l) # None => worker'[l] # 0 \/ Excuse'
      BY <2>0, <3>1, <3>4, LaneServed
    <3>6. QED
      BY <1>3, <3>1, <3>5 DEF ServedInv
  <2>12. CASE Settle(i) \/ Cancelled(i)
    <3>1. (Continues(i) /\ worker[task[i].lane] = i) \/ Leaves(i)
      BY <2>12 DEF Settle, Cancelled, ContinuesOrLeaves
    <3>2. RowsOf(i) /\ (task[i].pc = "exec" \/ UNCHANGED rec)
      BY <1>1, <2>12, ConsumerRows DEF Settle, Cancelled, At, Interrupted, Claims
    <3>3. ASSUME NEW l \in Lane \ {task[i].lane}, NEW m \in Messages, task[i].pc = "exec"
          PROVE  Keeps(m, l)
      <4>1. CASE m = task[i].msg
        <5>1. rec[m].lane = task[i].lane
          BY <1>1, <3>3, <4>1 DEF InLane
        <5>2. ~Joined(m) \/ Same(m)
          <6>1. \E s, expected : Transition(m, s, expected) \/ UNCHANGED rec
            BY <2>12, <4>1 DEF Settle, Cancelled, Interrupted
          <6>2. rec'[m].lane = rec[m].lane
            BY <1>1, <6>1 DEF Transition, Row
          <6>3. QED
            BY <6>2 DEF Joined
        <5>3. rec'[m].lane = rec[m].lane
          BY <3>2, <3>3, <5>2 DEF RowsOf, Same, Settled, Taken
        <5>4. QED
          BY <1>1, <3>3, <5>1, <5>3, RowKeeps
      <4>2. CASE m # task[i].msg
        <5>1. Same(m)
          <6>1. \E s, expected : Transition(task[i].msg, s, expected) \/ UNCHANGED rec
            BY <2>12 DEF Settle, Cancelled, Interrupted
          <6>2. QED
            BY <1>1, <4>2, <6>1 DEF Transition, Same
        <5>2. QED
          BY <1>1, <3>3, <5>1, RowKeeps
      <4>3. QED
        BY <4>1, <4>2
    <3>4. \A l \in Lane \ {task[i].lane} : \A m \in Messages : Keeps(m, l)
      BY <1>1, <3>2, <3>3, SameKeeps
    <3>5. QED
      BY <2>4, <3>1, <3>4
  <2>13. QED
    BY <2>5, <2>6, <2>7, <2>8, <2>9, <2>10, <2>11, <2>12 DEF ConsumerStep
<1>7. QED
  BY <1>3, <1>5, <1>6

LEMMA ServiceServes ==
    ASSUME OnceInv, HoldInv, WorkInv, ServedInv, ServiceStep
    PROVE  /\ \A l \in Lane : NextQueued(rec', l) # None => worker'[l] # 0 \/ Excuse'
           /\ stopping' \/ Posted(worker', task')
<1>1. rec \in [Messages -> Row] /\ task \in [Ids -> Task] /\ Placed(worker, task)
  BY DEF OnceInv, Types, WorkInv
<1>2. ASSUME EnsureWorker(worker, task), UNCHANGED stopping
      PROVE  /\ \A l \in Lane : NextQueued(rec', l) # None => worker'[l] # 0 \/ Excuse'
             /\ stopping' \/ Posted(worker', task')
  <2>1. (MayStart => \A l \in Lane : worker'[l] # 0) /\ (stopping \/ Posted(worker', task'))
    BY <1>1, <1>2, EnsureServes DEF ServedInv
  <2>2. ~MayStart => Excuse'
    BY DEF MayStart, Excuse
  <2>3. QED
    BY <1>2, <2>1, <2>2
<1>3. ASSUME UNCHANGED <<rec, worker, task, stopping>>, Excuse => Excuse'
      PROVE  /\ \A l \in Lane : NextQueued(rec', l) # None => worker'[l] # 0 \/ Excuse'
             /\ stopping' \/ Posted(worker', task')
  <2>1. \A l \in Lane, m \in Messages : Keeps(m, l)
    BY <1>1, <1>3, SameKeeps
  <2>2. \A l \in Lane : NextQueued(rec', l) # None => worker'[l] # 0 \/ Excuse'
    BY <1>3, <2>1, LaneServed
  <2>3. QED
    BY <1>3, <2>2 DEF ServedInv
<1>4. ASSUME Excuse', UNCHANGED <<worker, task, stopping>>
      PROVE  /\ \A l \in Lane : NextQueued(rec', l) # None => worker'[l] # 0 \/ Excuse'
             /\ stopping' \/ Posted(worker', task')
  BY <1>4 DEF ServedInv
<1>5. CASE Enqueue
  <2>1. CASE EnsureWorker(worker, task)
    BY <1>2, <1>5, <2>1 DEF Enqueue
  <2>2. CASE UNCHANGED <<rec, worker, task, unwoken>>
    BY <1>3, <1>5, <2>2 DEF Enqueue, apart, Excuse
  <2>3. QED
    BY <1>5, <2>1, <2>2 DEF Enqueue
<1>6. ASSUME NEW l \in Lane, LateEnqueue(l)
      PROVE  /\ \A k \in Lane : NextQueued(rec', k) # None => worker'[k] # 0 \/ Excuse'
             /\ stopping' \/ Posted(worker', task')
  <2>1. CASE UNCHANGED <<rec, unwoken>>
    BY <1>3, <1>6, <2>1 DEF LateEnqueue, memory, Excuse
  <2>2. CASE unwoken'
    BY <1>4, <1>6, <2>2 DEF LateEnqueue, memory, Excuse
  <2>3. QED
    BY <1>6, <2>1, <2>2 DEF LateEnqueue
<1>7. CASE (\E l \in Lane : Send(l)) \/ CancelSend \/ GatewayDown \/ ConsumersStopped \/ RemoveTarget
  BY <1>3, <1>7 DEF Send, CancelSend, GatewayDown, ConsumersStopped, RemoveTarget, memory, apart,
                    Excuse
<1>8. ASSUME NEW c \in air, LateClaim(c)
      PROVE  /\ \A l \in Lane : NextQueued(rec', l) # None => worker'[l] # 0 \/ Excuse'
             /\ stopping' \/ Posted(worker', task')
  <2>1. UNCHANGED <<worker, task, stopping>> /\ (Excuse => Excuse')
    BY <1>8 DEF LateClaim, apart, Excuse
  <2>2. PICK m \in Messages : m = c[1]
    BY DEF OnceInv, Types
  <2>3. \A n \in Messages : Same(n) \/ Taken(n)
    BY <1>1, <1>8, <2>2 DEF LateClaim, Claimable, Same, Taken, Row
  <2>4. \A l \in Lane, n \in Messages : Keeps(n, l)
    BY <1>1, <2>3, RowKeeps
  <2>5. \A l \in Lane : NextQueued(rec', l) # None => worker'[l] # 0 \/ Excuse'
    BY <2>1, <2>4, LaneServed
  <2>6. QED
    BY <2>1, <2>5 DEF ServedInv
<1>9. CASE \/ \E m \in Messages : ResolveUnknown(m) \/ Finalize(m)
           \/ ContinueQueued \/ Supersede
  <2>1. PICK c \in Call : Writes(c)
    BY <1>9 DEF ResolveUnknown, Finalize, ContinueQueued, Supersede, Call
  <2>2. calls'[c] > 0
    BY <2>1, MailboxAssumption DEF Writes, WorkInv
  <2>3. UNCHANGED <<worker, task, stopping>>
    BY <2>1 DEF Writes, memory
  <2>4. QED
    BY <1>4, <2>2, <2>3 DEF Excuse
<1>10. CASE \E c \in Call : Wake(c)
  BY <1>2, <1>10 DEF Wake
<1>11. CASE \E c \in Call : CallerGone(c)
  BY <1>4, <1>11 DEF CallerGone, memory, Excuse
<1>12. CASE Start
  <2>1. stopping => \A i \in Ids : task[i].pc = "free"
    BY <1>12 DEF Start, ServedInv
  <2>2. Posted(worker', task')
    BY <1>12, <2>1 DEF Start, ServedInv, Posted
  <2>3. ASSUME NEW l \in Lane, NextQueued(rec', l) # None
        PROVE  Excuse'
    <3>1. PICK m \in Messages : rec'[m].status = "queued"
      BY <2>3 DEF NextQueued, Has
    <3>2. rec[m].status = "queued"
      BY <1>1, <1>12, <3>1 DEF Start, Recovered, Row
    <3>3. held'
      BY <1>12, <3>2 DEF Start, Queued
    <3>4. QED
      BY <3>3 DEF Excuse
  <2>4. QED
    BY <2>2, <2>3
<1>13. CASE GatewayUp
  <2>1. CASE EnsureWorker(worker, task)
    BY <1>2, <1>13, <2>1 DEF GatewayUp
  <2>2. CASE UNCHANGED <<worker, task, unwoken>>
    BY <1>3, <1>13, <2>2 DEF GatewayUp, apart, Excuse
  <2>3. QED
    BY <1>13, <2>1, <2>2 DEF GatewayUp
<1>14. CASE Stop
  BY <1>14 DEF Stop, Excuse
<1>15. CASE Stopped
  BY <1>4, <1>15 DEF Stopped, Excuse
<1>16. CASE Crash
  BY <1>16 DEF Crash, Excuse, Posted, NoTask
<1>17. CASE AcceptDelete
  BY <1>4, <1>17 DEF AcceptDelete, Excuse
<1>18. CASE BeginDelete
  <2>1. blocked' /\ UNCHANGED <<worker, stopping>> /\ CancelTasks(Consumers)
    BY <1>18 DEF BeginDelete
  <2>2. \A k \in Ids : Remains(k)
    BY <2>1, CancelPlaces
  <2>3. QED
    BY <2>1, <2>2 DEF Excuse, Remains, ServedInv, Posted
<1>19. CASE TargetDeleted
  <2>1. \A m \in Messages : rec'[m].status # "queued"
    BY <1>1, <1>19 DEF TargetDeleted, Row
  <2>2. \A l \in Lane : NextQueued(rec', l) = None
    BY <2>1 DEF NextQueued, Has
  <2>3. QED
    BY <1>19, <2>2 DEF TargetDeleted, ServedInv
<1>20. CASE AbortDelete
  BY <1>2, <1>20 DEF AbortDelete
<1>21. QED
  BY <1>5, <1>6, <1>7, <1>8, <1>9, <1>10, <1>11, <1>12, <1>13, <1>14, <1>15, <1>16, <1>17,
     <1>18, <1>19, <1>20 DEF ServiceStep, OtherStep

\* The two plain parts of ServedInv.
LEMMA ServedNext ==
    ASSUME OnceInv, HoldInv, WorkInv, OwnInv, ServedInv, [Next]_vars
    PROVE  ServedInv'
<1>1. CASE UNCHANGED vars
  BY <1>1 DEF vars, memory, apart, ServedInv, Posted, QueueIsServed, NextQueued, Blockers, Has,
              Uncertain
<1>2. ASSUME \A l \in Lane : NextQueued(rec', l) # None => worker'[l] # 0 \/ Excuse'
      PROVE  QueueIsServed'
  BY <1>2 DEF QueueIsServed, Excuse
<1>3. ASSUME NEW i \in Ids, ConsumerStep(i)
      PROVE  ServedInv'
  <2>1. /\ \A l \in Lane : NextQueued(rec', l) # None => worker'[l] # 0 \/ Excuse'
        /\ stopping' \/ Posted(worker', task')
    BY <1>3, ConsumerServes
  <2>2. task[i].pc # "free" /\ task \in [Ids -> Task] /\ Claims
    BY <1>3
       DEF ConsumerStep, Loop, Leave, Admit, Claim, Submit, Refuse, Fallback, MarkWaiting,
           Settle, Cancelled, At, HoldInv, OnceInv, Types, OwnInv
  <2>3. UNCHANGED <<started, stopping>>
    BY <1>3, ConsumerExcuse
  <2>4. Beside(i)
    BY <1>3, <2>2, ConsumerMoves
  <2>5. task'[i].pc = "admit" => task'[i].lane = "task"
    <3>1. CASE Loop(i)
      <4>1. CASE \E pc, m : /\ task' = [task EXCEPT ![i].pc = pc, ![i].msg = m]
                            /\ pc = "admit" => task[i].lane = "task"
        BY <2>2, <4>1 DEF Task
      <4>2. CASE \E m : Defer(i, m)
        <5>1. Sits(i) /\ task'[i].pc # "admit"
          <6>1. task' = Around(i) \/ EnsureWorker(worker, Around(i))
            BY <4>2 DEF Defer
          <6>2. Placed(worker, Around(i)) /\ Around(i)[i].pc = "loop"
            BY <2>2, AroundPlaces DEF WorkInv
          <6>3. Sits(i)
            BY <2>2, <3>1, <4>2, DeferMoves DEF Loop
          <6>4. CASE EnsureWorker(worker, Around(i))
            BY <6>2, <6>3, <6>4, EnsureWorkerPlaces DEF Spares, Begins
          <6>5. QED
            BY <6>1, <6>2, <6>3, <6>4
        <5>2. QED
          BY <5>1
      <4>3. QED
        BY <3>1, <4>1, <4>2 DEF Loop
    <3>2. CASE Submit(i) \/ Fallback(i) \/ MarkWaiting(i)
      <4>1. Remains(i) /\ task[i].pc = "exec"
        BY <3>2, SubmitMoves, FallbackMoves, MarkWaitingMoves DEF Submit, Fallback, MarkWaiting, At
      <4>2. QED
        BY <4>1 DEF Remains
    <3>3. CASE ~Loop(i) /\ ~(Submit(i) \/ Fallback(i) \/ MarkWaiting(i))
      <4>1. task \in [Ids -> Task]
        BY <2>2
      <4>2. ASSUME \E t \in [Ids -> Task] : t[i].pc # "admit" /\ Begun(t)
            PROVE  task'[i].pc # "admit"
        BY <4>2 DEF Begun, Begins
      <4>3. /\ Around(i) \in [Ids -> Task] /\ Around(i)[i].pc = "loop"
            /\ [task EXCEPT ![i] = NoTask] \in [Ids -> Task]
            /\ [task EXCEPT ![i] = NoTask][i].pc = "free"
        BY <2>2, AroundTasks DEF Around, NoTask, Task, Lane, None
      <4>4. ASSUME Leaves(i) \/ EnsureWorker(worker, Around(i))
            PROVE  task'[i].pc # "admit"
        BY <4>1, <4>2, <4>3, <4>4, LeavesTasks, EnsureWorkerTasks
      <4>5. ASSUME task' = Around(i)
            PROVE  task'[i].pc # "admit"
        BY <4>3, <4>5
      <4>6. CASE Leave(i) \/ Cancelled(i)
        BY <4>4, <4>6 DEF Leave, Cancelled
      <4>7. CASE Refuse(i)
        BY <4>4, <4>5, <4>7 DEF Refuse, Defer
      <4>8. CASE Settle(i)
        BY <4>4, <4>5, <4>8 DEF Settle, ContinuesOrLeaves, Continues
      <4>9. CASE Claim(i)
        <5>1. CASE task' = Around(i)
          BY <4>5, <5>1
        <5>2. CASE task' = [task EXCEPT ![i].pc = "exec", ![i].claimed = TRUE]
          BY <4>1, <5>2 DEF Task
        <5>3. QED
          BY <4>9, <5>1, <5>2 DEF Claim
      <4>10. CASE Admit(i)
        <5>1. CASE ContinuesOrLeaves(i)
          BY <4>4, <4>5, <5>1 DEF ContinuesOrLeaves, Continues
        <5>2. CASE \E m : task' = [task EXCEPT ![i].pc = "claim", ![i].msg = m]
          BY <4>1, <5>2 DEF Task
        <5>3. CASE task' = Around(i)
          BY <4>5, <5>3
        <5>4. QED
          BY <4>10, <5>1, <5>2, <5>3 DEF Admit
      <4>11. QED
        BY <1>3, <3>3, <4>6, <4>7, <4>8, <4>9, <4>10 DEF ConsumerStep
    <3>4. QED
      BY <3>1, <3>2, <3>3
  <2>6. \A k \in Ids : task'[k].pc = "admit" => task'[k].lane = "task"
    BY <2>4, <2>5 DEF Beside, Begins, ServedInv
  <2>7. started' \/ ~stopping'
    BY <2>2, <2>3 DEF ServedInv
  <2>8. QED
    BY <1>2, <2>1, <2>6, <2>7 DEF ServedInv
<1>4. CASE ServiceStep
  <2>1. /\ \A l \in Lane : NextQueued(rec', l) # None => worker'[l] # 0 \/ Excuse'
        /\ stopping' \/ Posted(worker', task')
    BY <1>4, ServiceServes
  <2>2. Crash \/ Undisturbed
    BY <1>4, ServicePlaces
  <2>3. \A k \in Ids : task'[k].pc = "admit" => task'[k].lane = "task"
    BY <2>2 DEF Crash, NoTask, Undisturbed, Remains, Begins, ServedInv
  <2>4. ASSUME ~started', stopping', NEW k \in Ids
        PROVE  task'[k].pc = "free"
    <3>1. CASE Stopped
      BY <3>1 DEF Stopped
    <3>2. CASE ~started /\ stopping
      <4>1. \A j \in Ids : task[j].pc = "free"
        BY <3>2 DEF ServedInv
      <4>2. CASE EnsureWorker(worker, task)
        <5>1. ~MayStart
          BY <2>4 DEF MayStart
        <5>2. task' = task
          BY <4>2, <5>1, EnsureWorkerTasks DEF OnceInv, Types
        <5>3. QED
          BY <4>1, <5>2
      <4>3. CASE UNCHANGED task
        BY <4>1, <4>3
      <4>4. CASE BeginDelete
        <5>1. \A j \in Ids : Remains(j)
          BY <4>4, CancelPlaces DEF BeginDelete
        <5>2. QED
          BY <4>1, <5>1 DEF Remains
      <4>5. QED
        BY <1>4, <2>4, <3>2, <4>2, <4>3, <4>4
           DEF ServiceStep, Enqueue, OtherStep, Send, LateClaim, LateEnqueue, ResolveUnknown,
               Finalize, ContinueQueued, Supersede, Writes, Wake, CallerGone, CancelSend, Start,
               GatewayUp, GatewayDown, Stop, Stopped, Crash, AcceptDelete, ConsumersStopped,
               RemoveTarget, TargetDeleted, AbortDelete, memory
    <3>3. CASE Start \/ Stop \/ Crash
      BY <2>4, <3>3 DEF Start, Stop, Crash
    <3>4. CASE UNCHANGED <<started, stopping>>
      BY <2>4, <3>2, <3>4
    <3>5. UNCHANGED <<started, stopping>> \/ Stopped \/ Start \/ Stop \/ Crash
      BY <1>4
         DEF ServiceStep, Enqueue, OtherStep, Send, LateClaim, LateEnqueue, ResolveUnknown,
             Finalize, ContinueQueued, Supersede, Writes, Wake, CallerGone, CancelSend,
             GatewayUp, GatewayDown, AcceptDelete, BeginDelete, ConsumersStopped,
             RemoveTarget, TargetDeleted, AbortDelete, memory
    <3>6. QED
      BY <3>1, <3>3, <3>4, <3>5
  <2>5. QED
    BY <1>2, <2>1, <2>3, <2>4 DEF ServedInv
<1>5. QED
  BY <1>1, <1>3, <1>4, NextSteps

\* No wakeup is lost: when next_queued has a message for a lane, the lane has a consumer,
\* delivery is held up for the whole target, or somebody is about to begin one; unless the
\* caller whose part it was to begin it was cancelled.
THEOREM NoWakeupLost == Safety => []QueueIsServed
<1>1. Init => OnceInv /\ HoldInv /\ WorkInv /\ OwnInv /\ ServedInv
  <2> SUFFICES ASSUME Init
               PROVE  OnceInv /\ HoldInv /\ WorkInv /\ OwnInv /\ ServedInv
    OBVIOUS
  <2>1. NoTask.pc = "free" /\ NoRow.status = "none"
    BY DEF NoTask, NoRow
  <2>2. (\A i \in Ids : task[i].pc = "free") /\ (\A m \in Messages : rec[m].status = "none")
    BY <2>1 DEF Init
  <2>3. \A l \in Lane : NextQueued(rec, l) = None
    BY <2>2 DEF NextQueued, Has
  <2>4. ServedInv
    BY <2>2, <2>3 DEF Init, ServedInv, Posted, QueueIsServed
  <2>5. QED
    BY <2>4, OnceInit, WorkInit, OwnInit
<1>2. OnceInv /\ HoldInv /\ WorkInv /\ OwnInv /\ ServedInv /\ [Next]_vars
        => (OnceInv /\ HoldInv /\ WorkInv /\ OwnInv /\ ServedInv)'
  BY OnceNext, HoldNext, WorkNext, OwnNext, ServedNext DEF OwnInv
<1>3. ServedInv => QueueIsServed
  BY DEF ServedInv
<1>4. QED
  BY <1>1, <1>2, <1>3, PTL DEF Safety
=============================================================================
