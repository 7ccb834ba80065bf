---------------------- MODULE SessionWorkSchedulerProofs ----------------------
(***************************************************************************)
(* Proofs about SessionWorkScheduler, for any sets of Sessions and         *)
(* executions and any number of generations.                               *)
(***************************************************************************)
EXTENDS SessionWorkScheduler, TLAPS

\* A lane in _lanes belongs to that Session and its processor has not ended; a
\* lane that is not there has nothing queued.
LanesSound ==
    /\ \A s \in Sessions : lanes[s] # None =>
          /\ scope[lanes[s]].sess = s
          /\ scope[lanes[s]].gen \in 1..MaxGen
          /\ proc[lanes[s]] \in {"new", "waiting", "awaiting"}
    /\ \A l \in Execs : queue[l] # {} => Attached(l)
    /\ \A l \in Execs : proc[l] = "none" => current[l] = None
    /\ \A l \in Execs : result[l] = "none" => proc[l] = "none"

\* A processor has a current item exactly while it awaits its task.
CurrentSound ==
    \A l \in Execs :
        /\ current[l] # None <=> proc[l] = "awaiting"
        /\ current[l] # None => task[current[l]] # "none" /\ result[current[l]] # "none"

\* A queued item was submitted, was not taken yet, and is in one queue only; an
\* item that was taken is the current one of at most one lane.
ItemsSound ==
    /\ \A l, e \in Execs : e \in queue[l] => task[e] = "none" /\ result[e] # "none"
    /\ \A l, m, e \in Execs : e \in queue[l] /\ e \in queue[m] => l = m
    /\ \A l, m \in Execs : current[l] # None /\ current[l] = current[m] => l = m
    /\ \A e \in Execs : result[e] = "none" => task[e] = "none"

\* The inductive invariant.
SchedInv == SchedTypeOK /\ LanesSound /\ CurrentSound /\ ItemsSound /\ ResultOwned /\ TaskOwned

\* A scheduler without lanes satisfies the invariant.
LEMMA SchedInitInv == SchedulerAssumption /\ SchedInit => SchedInv
<1> SUFFICES ASSUME SchedulerAssumption, SchedInit PROVE SchedInv
  OBVIOUS
<1>1. SchedTypeOK
  <2>1. scope \in [Execs -> Scopes]
    <3>1. [sess |-> None, gen |-> 0] \in Scopes
      BY DEF Scopes, Gens, SchedulerAssumption
    <3> QED BY <3>1 DEF SchedInit
  <2>2. key \in [Execs -> {0, 1} \X Int \X Nat]
    <3>1. <<0, 0, 0>> \in {0, 1} \X Int \X Nat
      OBVIOUS
    <3> QED BY <3>1 DEF SchedInit
  <2> QED BY <2>1, <2>2 DEF SchedInit, SchedTypeOK, ProcStates, TaskStates, ResultStates
<1>2. LanesSound /\ CurrentSound /\ ItemsSound
  BY DEF SchedInit, LanesSound, CurrentSound, ItemsSound
<1>3. ResultOwned /\ TaskOwned
  BY DEF SchedInit, ResultOwned, TaskOwned, TaskLive
<1> QED BY <1>1, <1>2, <1>3 DEF SchedInv

-----------------------------------------------------------------------------
\* The order of the queue is strict.
LEMMA BeforeIrreflexive ==
    ASSUME SchedTypeOK, NEW e \in Execs
    PROVE  ~Before(e, e)
<1>1. key[e][1] \in Int /\ key[e][2] \in Int /\ key[e][3] \in Int
  BY DEF SchedTypeOK
<1> QED BY <1>1 DEF Before

\* What one turn of the loop of _process does: it drops cancelled items only,
\* and takes at most one item, which is not cancelled.
Dropped(l, rest) ==
    /\ rest \subseteq queue[l]
    /\ \A f \in queue[l] \ rest : result[f] = "cancelled"
    /\ queue' = [queue EXCEPT ![l] = rest]

TookNothing(l) ==
    /\ Dropped(l, {})
    /\ proc' = [proc EXCEPT ![l] = "waiting"]
    /\ current' = [current EXCEPT ![l] = None]
    /\ task' = task

Took(l, e, rest) ==
    /\ rest \subseteq queue[l] \ {e}
    /\ \A f \in queue[l] \ {e} : f \notin rest => result[f] = "cancelled"
    /\ queue' = [queue EXCEPT ![l] = rest]
    /\ proc' = [proc EXCEPT ![l] = "awaiting"]
    /\ current' = [current EXCEPT ![l] = e]
    /\ task' = [task EXCEPT ![e] = "created"]

\* What one round of the loop of _process does to its lane.
LEMMA TakeNextFacts ==
    ASSUME SchedTypeOK, NEW l \in Execs, TakeNext(l)
    PROVE  \/ TookNothing(l)
           \/ \E e \in queue[l] : result[e] # "cancelled"
                                  /\ \E rest \in SUBSET Execs : Took(l, e, rest)
<1> DEFINE live == {e \in queue[l] : ~Skipped(e)}
<1>1. queue[l] \subseteq Execs
  BY DEF SchedTypeOK
<1>2. CASE live = {}
  BY <1>2, <1>1 DEF TakeNext, TookNothing, Dropped, Skipped
<1>3. CASE live # {}
  <2>1. PICK e \in live :
           /\ \A f \in live \ {e} : Before(e, f)
           /\ queue' = [queue EXCEPT ![l] = {f \in @ : Before(e, f)}]
           /\ proc' = [proc EXCEPT ![l] = "awaiting"]
           /\ current' = [current EXCEPT ![l] = e]
           /\ task' = [task EXCEPT ![e] = "created"]
    BY <1>3 DEF TakeNext
  <2> DEFINE rest == {f \in queue[l] : Before(e, f)}
  <2>2. queue' = [queue EXCEPT ![l] = rest]
    BY <2>1
  <2>3. rest \subseteq queue[l] \ {e}
    BY <1>1, BeforeIrreflexive
  <2>4. \A f \in queue[l] \ {e} : f \notin rest => result[f] = "cancelled"
    BY <2>1 DEF Skipped
  <2>5. rest \in SUBSET Execs
    BY <1>1
  <2> HIDE DEF rest
  <2>6. Took(l, e, rest)
    BY <2>1, <2>2, <2>3, <2>4 DEF Took
  <2>7. e \in queue[l] /\ result[e] # "cancelled"
    BY DEF Skipped
  <2> QED BY <2>5, <2>6, <2>7
<1> QED BY <1>2, <1>3

\* submit_and_wait keeps the invariant.
LEMMA SubmitInv ==
    ASSUME SchedulerAssumption, SchedInv, NEW e \in Execs, NEW s \in Sessions,
           NEW g \in 1..MaxGen, SubmitAndWait(e, s, g)
    PROVE  SchedInv'
<1> DEFINE fresh == lanes[s] = None
<1>0. PICK l \in Execs : l = IF fresh THEN e ELSE lanes[s]
  BY DEF SchedInv, SchedTypeOK
<1>1. /\ result[e] = "none"
      /\ LaneAccepts(s, g)
      /\ lanes' = [lanes EXCEPT ![s] = l]
      /\ scope' = [scope EXCEPT ![l] = [sess |-> s, gen |-> g]]
      /\ proc' = [proc EXCEPT ![l] = IF fresh THEN "new" ELSE @]
      /\ sequence' = [sequence EXCEPT ![l] = @ + 1]
      /\ priority' = [priority EXCEPT ![l] = IF e \in LatestFirst THEN @ - 1 ELSE @]
      /\ key' = [key EXCEPT ![e] = PriorityKey(e, l)]
      /\ queue' = [queue EXCEPT ![l] = @ \cup {e}]
      /\ result' = [result EXCEPT ![e] = "pending"]
      /\ UNCHANGED <<current, interrupted, task, cancelling, closed>>
  BY <1>0 DEF SubmitAndWait
<1>2. l # None
  BY DEF SchedulerAssumption
<1>3. SchedTypeOK
  BY DEF SchedInv
<1>4. ~fresh => /\ scope[l].sess = s /\ scope[l] = [sess |-> s, gen |-> g]
                /\ proc[l] \in {"new", "waiting", "awaiting"}
  <2> SUFFICES ASSUME ~fresh
               PROVE  /\ scope[l].sess = s /\ scope[l] = [sess |-> s, gen |-> g]
                      /\ proc[l] \in {"new", "waiting", "awaiting"}
    OBVIOUS
  <2>1. scope[l].sess = s /\ scope[l].gen = g /\ proc[l] \in {"new", "waiting", "awaiting"}
    BY <1>0, <1>1 DEF SchedInv, LanesSound, LaneAccepts
  <2>2. scope[l] \in [sess : Sessions \cup {None}, gen : Gens]
    BY <1>2, <1>3 DEF SchedTypeOK, Scopes
  <2> QED BY <2>1, <2>2
<1>5. fresh => /\ proc[l] = "none" /\ current[l] = None /\ queue[l] = {}
               /\ \A r \in Sessions : lanes[r] # l
  <2> SUFFICES ASSUME fresh
               PROVE  /\ proc[l] = "none" /\ current[l] = None /\ queue[l] = {}
                      /\ \A r \in Sessions : lanes[r] # l
    OBVIOUS
  <2>1. result[l] = "none"
    BY <1>0, <1>1
  <2>2. proc[l] = "none" /\ current[l] = None
    BY <2>1 DEF SchedInv, LanesSound
  <2>3. \A r \in Sessions : lanes[r] # l
    BY <1>2, <2>2 DEF SchedInv, LanesSound
  <2>4. queue[l] = {}
    <3>1. ~Attached(l)
      BY <2>3, <1>3 DEF Attached, SchedTypeOK, Scopes
    <3> QED BY <3>1 DEF SchedInv, LanesSound
  <2> QED BY <2>2, <2>3, <2>4
<1>6. \A r \in Sessions : r # s => lanes[r] # l \/ lanes[r] = None
  BY <1>0, <1>4, <1>5 DEF SchedInv, LanesSound
<1>7. \A m \in Execs : e \notin queue[m] /\ current[m] # e
  BY <1>1, <1>3 DEF SchedInv, ItemsSound, CurrentSound, SchedTypeOK, SchedulerAssumption
<1>8. PriorityKey(e, l) \in {0, 1} \X Int \X Nat
  <2>1. priority[l] \in Int /\ sequence[l] \in Nat
    BY <1>2, <1>3 DEF SchedTypeOK
  <2> QED BY <2>1 DEF PriorityKey
<1>9. SchedTypeOK'
  <2>1. [sess |-> s, gen |-> g] \in Scopes
    BY DEF Scopes, Gens, SchedulerAssumption
  <2>2. lanes' \in [Sessions -> Execs \cup {None}] /\ scope' \in [Execs -> Scopes]
    BY <1>1, <1>2, <1>3, <2>1 DEF SchedTypeOK
  <2>3. key' \in [Execs -> {0, 1} \X Int \X Nat]
    BY <1>1, <1>3, <1>8 DEF SchedTypeOK
  <2>4. queue' \in [Execs -> SUBSET Execs] /\ proc' \in [Execs -> ProcStates]
        /\ result' \in [Execs -> ResultStates]
    BY <1>1, <1>2, <1>3 DEF SchedTypeOK, ProcStates, ResultStates
  <2>5. priority' \in [Execs -> Int] /\ sequence' \in [Execs -> Nat]
    BY <1>1, <1>2, <1>3 DEF SchedTypeOK
  <2> QED BY <1>1, <1>3, <2>2, <2>3, <2>4, <2>5 DEF SchedTypeOK
<1>10. \A m \in Execs : Attached(m) => Attached(m)'
  BY <1>0, <1>1, <1>2, <1>3, <1>4, <1>5, <1>6 DEF Attached, SchedTypeOK
<1>11. Attached(l)' /\ proc'[l] \in {"new", "waiting", "awaiting"}
  BY <1>1, <1>2, <1>3, <1>4 DEF Attached, SchedTypeOK, SchedulerAssumption
<1>12. LanesSound'
  <2>1. \A r \in Sessions : lanes'[r] # None =>
          /\ scope'[lanes'[r]].sess = r
          /\ scope'[lanes'[r]].gen \in 1..MaxGen
          /\ proc'[lanes'[r]] \in {"new", "waiting", "awaiting"}
    BY <1>1, <1>2, <1>3, <1>6, <1>11 DEF SchedInv, LanesSound, SchedTypeOK
  <2>2. \A m \in Execs : queue'[m] # {} => Attached(m)'
    BY <1>1, <1>2, <1>3, <1>10, <1>11 DEF SchedInv, LanesSound, SchedTypeOK
  <2>3. \A m \in Execs : proc'[m] = "none" => current'[m] = None
    BY <1>1, <1>2, <1>3, <1>11 DEF SchedInv, LanesSound, SchedTypeOK
  <2>4. \A m \in Execs : result'[m] = "none" => proc'[m] = "none"
    BY <1>0, <1>1, <1>2, <1>3 DEF SchedInv, LanesSound, SchedTypeOK
  <2> QED BY <2>1, <2>2, <2>3, <2>4 DEF LanesSound
<1>13. CurrentSound'
  BY <1>1, <1>2, <1>3, <1>5, <1>7 DEF SchedInv, CurrentSound, SchedTypeOK
<1>14. ItemsSound'
  <2>1. task[e] = "none"
    BY <1>1 DEF SchedInv, ItemsSound
  <2> QED BY <1>1, <1>2, <1>3, <1>7, <2>1 DEF SchedInv, ItemsSound, SchedTypeOK
<1>15. ResultOwned'
  <2> SUFFICES ASSUME NEW f \in Execs, result'[f] = "pending"
               PROVE  \/ \E m \in Execs : Attached(m)' /\ proc'[m] # "done" /\ f \in queue'[m]
                      \/ \E m \in Execs : current'[m] = f /\ proc'[m] = "awaiting"
    BY DEF ResultOwned
  <2>1. CASE f = e
    BY <2>1, <1>1, <1>2, <1>3, <1>11 DEF SchedTypeOK
  <2>2. CASE f # e
    <3>1. result[f] = "pending"
      BY <2>2, <1>1, <1>3 DEF SchedTypeOK
    <3>2. CASE \E m \in Execs : Attached(m) /\ proc[m] # "done" /\ f \in queue[m]
      BY <3>2, <1>1, <1>2, <1>3, <1>10 DEF SchedTypeOK
    <3>3. CASE \E m \in Execs : current[m] = f /\ proc[m] = "awaiting"
      <4>1. PICK m \in Execs : current[m] = f /\ proc[m] = "awaiting"
        BY <3>3
      <4>2. fresh => m # l
        BY <4>1, <1>5
      <4>3. proc'[m] = "awaiting" /\ current'[m] = f
        BY <4>1, <4>2, <1>1, <1>2, <1>3 DEF SchedTypeOK
      <4> QED BY <4>3
    <3> QED BY <3>1, <3>2, <3>3 DEF SchedInv, ResultOwned
  <2> QED BY <2>1, <2>2
<1>16. TaskOwned'
  <2>1. \A m \in Execs : proc[m] = "awaiting" => proc'[m] = "awaiting"
    BY <1>1, <1>2, <1>3, <1>5 DEF SchedTypeOK
  <2> QED BY <1>1, <2>1 DEF SchedInv, TaskOwned, TaskLive
<1> QED BY <1>9, <1>12, <1>13, <1>14, <1>15, <1>16 DEF SchedInv

-----------------------------------------------------------------------------
\* What a step of the processor of lane l does to the results: it settles that
\* of its current item, whose task is done, and touches no other.
SettlesCurrent(l) ==
    /\ result' \in [Execs -> ResultStates]
    /\ \A f \in Execs : f # current[l] => result'[f] = result[f]
    /\ current[l] # None => /\ TaskDone(current[l])
                            /\ result'[current[l]] \notin {"none", "pending"}

\* A turn of the loop keeps the invariant.
LEMMA TakeInv ==
    ASSUME SchedulerAssumption, SchedInv, NEW l \in Execs, Attached(l),
           TakeNext(l), SettlesCurrent(l), interrupted' \in [Execs -> BOOLEAN],
           UNCHANGED <<lanes, scope, priority, sequence, key, cancelling, closed>>
    PROVE  SchedInv'
<1>1. SchedTypeOK
  BY DEF SchedInv
<1>2. lanes' = lanes /\ scope' = scope
  OBVIOUS
<1>3. \A m \in Execs : Attached(m)' <=> Attached(m)
  BY DEF Attached
<1>4. \A e \in Execs : e \in queue[l] => current[l] # e /\ result'[e] = result[e]
  BY DEF SchedInv, ItemsSound, CurrentSound, SettlesCurrent, SchedulerAssumption
<1>5. \A e \in Execs : result'[e] = "none" <=> result[e] = "none"
  BY DEF SettlesCurrent, SchedInv, CurrentSound, SchedulerAssumption
<1>6. result[l] # "none"
  <2>1. scope[l].sess \in Sessions /\ lanes[scope[l].sess] = l
    BY <1>1 DEF Attached, SchedTypeOK, Scopes
  <2>2. proc[l] # "none"
    BY <2>1 DEF SchedInv, LanesSound, SchedulerAssumption
  <2> QED BY <2>2 DEF SchedInv, LanesSound
<1>7. CASE TookNothing(l)
  <2>1. /\ queue' = [queue EXCEPT ![l] = {}]
        /\ \A f \in queue[l] : result[f] = "cancelled"
        /\ proc' = [proc EXCEPT ![l] = "waiting"]
        /\ current' = [current EXCEPT ![l] = None]
        /\ task' = task
    BY <1>7 DEF TookNothing, Dropped
  <2>2. SchedTypeOK'
    BY <1>1, <2>1 DEF SchedTypeOK, SettlesCurrent, ProcStates
  <2>3. LanesSound'
    BY <1>1, <1>2, <1>3, <1>5, <1>6, <2>1 DEF SchedInv, LanesSound, SchedTypeOK
  <2>4. CurrentSound'
    BY <1>1, <1>5, <2>1 DEF SchedInv, CurrentSound, SchedTypeOK
  <2>5. ItemsSound'
    BY <1>1, <1>5, <2>1 DEF SchedInv, ItemsSound, SchedTypeOK
  <2>6. ResultOwned'
    <3> SUFFICES ASSUME NEW f \in Execs, result'[f] = "pending"
                 PROVE  \/ \E m \in Execs : Attached(m)' /\ proc'[m] # "done" /\ f \in queue'[m]
                        \/ \E m \in Execs : current'[m] = f /\ proc'[m] = "awaiting"
      BY DEF ResultOwned
    <3>1. result[f] = "pending" /\ f # current[l] /\ f \notin queue[l]
      BY <2>1, <1>4 DEF SettlesCurrent, SchedulerAssumption
    <3>2. \/ \E m \in Execs : Attached(m) /\ proc[m] # "done" /\ f \in queue[m]
          \/ \E m \in Execs : current[m] = f /\ proc[m] = "awaiting"
      BY <3>1 DEF SchedInv, ResultOwned
    <3> QED BY <3>1, <3>2, <2>1, <1>1, <1>3 DEF SchedTypeOK
  <2>7. TaskOwned'
    <3>1. \A e \in Execs : TaskLive(e)' => TaskLive(e) /\ e # current[l]
      BY <2>1 DEF TaskLive, SettlesCurrent, TaskDone, SchedulerAssumption
    <3> QED BY <3>1, <2>1, <1>1 DEF SchedInv, TaskOwned, SchedTypeOK
  <2> QED BY <2>2, <2>3, <2>4, <2>5, <2>6, <2>7 DEF SchedInv
<1>8. ASSUME NEW e \in queue[l], result[e] # "cancelled", NEW rest \in SUBSET Execs,
             Took(l, e, rest)
      PROVE  SchedInv'
  <2>1. /\ queue' = [queue EXCEPT ![l] = rest]
        /\ rest \subseteq queue[l] \ {e}
        /\ \A f \in queue[l] \ {e} : f \notin rest => result[f] = "cancelled"
        /\ proc' = [proc EXCEPT ![l] = "awaiting"]
        /\ current' = [current EXCEPT ![l] = e]
        /\ task' = [task EXCEPT ![e] = "created"]
    BY <1>8 DEF Took
  <2>2. e \in Execs /\ e # None
    BY <1>1 DEF SchedTypeOK, SchedulerAssumption
  <2>3. /\ task[e] = "none" /\ result[e] # "none"
        /\ \A m \in Execs : current[m] # e /\ (m # l => e \notin queue[m])
    BY <2>2 DEF SchedInv, ItemsSound, CurrentSound
  <2>4. SchedTypeOK'
    BY <1>1, <2>1, <2>2 DEF SchedTypeOK, SettlesCurrent, ProcStates, TaskStates
  <2>5. LanesSound'
    BY <1>1, <1>2, <1>3, <1>5, <1>6, <2>1 DEF SchedInv, LanesSound, SchedTypeOK
  <2>6. CurrentSound'
    BY <1>1, <1>5, <2>1, <2>2, <2>3 DEF SchedInv, CurrentSound, SchedTypeOK
  <2>7. ItemsSound'
    <3>1. \A m, f \in Execs : f \in queue'[m] => f \in queue[m] /\ f # e
      BY <1>1, <2>1, <2>3 DEF SchedTypeOK
    <3>2. \A m, f \in Execs : f \in queue'[m] => task'[f] = "none" /\ result'[f] # "none"
      BY <3>1, <1>1, <1>5, <2>1 DEF SchedInv, ItemsSound, SchedTypeOK
    <3>3. \A m, n, f \in Execs : f \in queue'[m] /\ f \in queue'[n] => m = n
      BY <3>1 DEF SchedInv, ItemsSound
    <3>4. \A m, n \in Execs : current'[m] # None /\ current'[m] = current'[n] => m = n
      BY <1>1, <2>1, <2>3 DEF SchedInv, ItemsSound, SchedTypeOK
    <3>5. \A f \in Execs : result'[f] = "none" => task'[f] = "none"
      BY <1>1, <1>5, <2>1, <2>3 DEF SchedInv, ItemsSound, SchedTypeOK
    <3> QED BY <3>2, <3>3, <3>4, <3>5 DEF ItemsSound
  <2>8. ResultOwned'
    <3> SUFFICES ASSUME NEW f \in Execs, result'[f] = "pending"
                 PROVE  \/ \E m \in Execs : Attached(m)' /\ proc'[m] # "done" /\ f \in queue'[m]
                        \/ \E m \in Execs : current'[m] = f /\ proc'[m] = "awaiting"
      BY DEF ResultOwned
    <3>1. result[f] = "pending" /\ f # current[l]
      BY DEF SettlesCurrent, SchedulerAssumption
    <3>2. CASE f = e
      BY <3>2, <2>1, <1>1 DEF SchedTypeOK
    <3>3. CASE f # e
      <4>1. \/ \E m \in Execs : Attached(m) /\ proc[m] # "done" /\ f \in queue[m]
            \/ \E m \in Execs : current[m] = f /\ proc[m] = "awaiting"
        BY <3>1 DEF SchedInv, ResultOwned
      <4>2. f \in queue[l] => f \in rest
        BY <3>1, <3>3, <2>1
      <4> QED BY <3>1, <4>1, <4>2, <2>1, <1>1, <1>3 DEF SchedTypeOK
    <3> QED BY <3>2, <3>3
  <2>9. TaskOwned'
    <3> SUFFICES ASSUME NEW f \in Execs, TaskLive(f)'
                 PROVE  \E m \in Execs : current'[m] = f /\ proc'[m] = "awaiting"
      BY DEF TaskOwned
    <3>1. CASE f = e
      BY <3>1, <2>1, <1>1 DEF SchedTypeOK
    <3>2. CASE f # e
      <4>1. TaskLive(f) /\ f # current[l]
        BY <3>2, <2>1, <1>1 DEF TaskLive, SchedTypeOK, SettlesCurrent, TaskDone, SchedulerAssumption
      <4> QED BY <4>1, <2>1, <1>1 DEF SchedInv, TaskOwned, SchedTypeOK
    <3> QED BY <3>1, <3>2
  <2> QED BY <2>4, <2>5, <2>6, <2>7, <2>8, <2>9 DEF SchedInv
<1> QED BY <1>1, <1>7, <1>8, TakeNextFacts

\* The end of the processor of a detached lane keeps the invariant.
LEMMA FinallyInv ==
    ASSUME SchedulerAssumption, SchedInv, NEW l \in Execs, ~Attached(l),
           ProcessorFinally(l), SettlesCurrent(l), interrupted' \in [Execs -> BOOLEAN],
           proc[l] # "none",
           UNCHANGED <<scope, priority, sequence, key, task, cancelling, closed>>
    PROVE  SchedInv'
<1>1. SchedTypeOK
  BY DEF SchedInv
<1>2. queue[l] = {}
  BY DEF SchedInv, LanesSound
<1>3. \A s \in Sessions : lanes[s] # l
  BY DEF SchedInv, LanesSound, Attached, SchedulerAssumption
<1>4. /\ lanes' = lanes
      /\ queue' = queue
      /\ proc' = [proc EXCEPT ![l] = "done"]
      /\ current' = [current EXCEPT ![l] = None]
  BY <1>1, <1>2, <1>3 DEF ProcessorFinally, SchedTypeOK
<1>5. \A m \in Execs : Attached(m)' <=> Attached(m)
  BY <1>4 DEF Attached
<1>6. \A e \in Execs : result'[e] = "none" <=> result[e] = "none"
  BY DEF SettlesCurrent, SchedInv, CurrentSound, SchedulerAssumption
<1>7. SchedTypeOK'
  BY <1>1, <1>4 DEF SchedTypeOK, SettlesCurrent, ProcStates
<1>8. LanesSound'
  BY <1>1, <1>3, <1>4, <1>5, <1>6 DEF SchedInv, LanesSound, SchedTypeOK
<1>9. CurrentSound' /\ ItemsSound'
  BY <1>1, <1>4, <1>6 DEF SchedInv, CurrentSound, ItemsSound, SchedTypeOK
<1>10. ResultOwned'
  <2> SUFFICES ASSUME NEW f \in Execs, result'[f] = "pending"
               PROVE  \/ \E m \in Execs : Attached(m)' /\ proc'[m] # "done" /\ f \in queue'[m]
                      \/ \E m \in Execs : current'[m] = f /\ proc'[m] = "awaiting"
    BY DEF ResultOwned
  <2>1. result[f] = "pending" /\ f # current[l]
    BY DEF SettlesCurrent, SchedulerAssumption
  <2>2. \/ \E m \in Execs : Attached(m) /\ proc[m] # "done" /\ f \in queue[m]
        \/ \E m \in Execs : current[m] = f /\ proc[m] = "awaiting"
    BY <2>1 DEF SchedInv, ResultOwned
  <2> QED BY <2>1, <2>2, <1>1, <1>2, <1>4, <1>5 DEF SchedTypeOK
<1>11. TaskOwned'
  <2>1. \A e \in Execs : TaskLive(e)' => TaskLive(e) /\ e # current[l]
    BY DEF TaskLive, SettlesCurrent, TaskDone, SchedulerAssumption
  <2> QED BY <2>1, <1>1, <1>4 DEF SchedInv, TaskOwned, SchedTypeOK
<1> QED BY <1>7, <1>8, <1>9, <1>10, <1>11 DEF SchedInv

-----------------------------------------------------------------------------
\* The three steps of a processor are steps of the two lemmas above.
LEMMA ProcessorInv ==
    ASSUME SchedulerAssumption, SchedInv, NEW l \in Execs,
           ProcessorTake(l) \/ ProcessorCancelled(l) \/ ProcessorResume(l)
    PROVE  SchedInv'
<1>1. SchedTypeOK
  BY DEF SchedInv
<1>2. CASE ProcessorTake(l)
  <2>1. SettlesCurrent(l)
    BY <1>1, <1>2 DEF ProcessorTake, SettlesCurrent, SchedInv, CurrentSound, SchedTypeOK
  <2> QED BY <1>1, <1>2, <2>1, TakeInv DEF ProcessorTake, SchedTypeOK
<1>3. CASE ProcessorCancelled(l)
  <2>1. queue[l] = {}
    BY <1>3 DEF ProcessorCancelled, SchedInv, LanesSound
  <2>2. result' = result
    BY <1>1, <1>3, <2>1 DEF ProcessorCancelled, Drained, SchedTypeOK
  <2>3. SettlesCurrent(l)
    BY <1>1, <1>3, <2>2 DEF ProcessorCancelled, SettlesCurrent, SchedInv, CurrentSound, SchedTypeOK
  <2> QED BY <1>1, <1>3, <2>3, FinallyInv DEF ProcessorCancelled, SchedTypeOK
<1>4. CASE ProcessorResume(l)
  <2>1. current[l] # None /\ current[l] \in Execs /\ result[current[l]] # "none"
    BY <1>1, <1>4 DEF ProcessorResume, SchedInv, CurrentSound, SchedTypeOK
  <2>2. Settled(l) \in {"cancelled", "value", "error"}
    BY DEF Settled
  <2>3. SettlesCurrent(l)
    BY <1>1, <1>4, <2>1, <2>2 DEF ProcessorResume, SettlesCurrent, SchedTypeOK, ResultStates
  <2>4. interrupted' \in [Execs -> BOOLEAN]
    BY <1>1, <1>4 DEF ProcessorResume, SchedTypeOK
  <2>5. CASE Attached(l)
    BY <1>4, <2>3, <2>4, <2>5, TakeInv DEF ProcessorResume
  <2>6. CASE ~Attached(l)
    BY <1>4, <2>3, <2>4, <2>6, FinallyInv DEF ProcessorResume
  <2> QED BY <2>5, <2>6
<1> QED BY <1>2, <1>3, <1>4

\* A step that leaves the lanes alone, and of the tasks and results only ends,
\* starts or cancels what is there, keeps the invariant.
LEMMA QuietInv ==
    ASSUME SchedInv, UNCHANGED laneVars,
           task' \in [Execs -> TaskStates], cancelling' \in [Execs -> BOOLEAN],
           result' \in [Execs -> ResultStates], closed' \in BOOLEAN,
           \A e \in Execs : /\ task'[e] = "none" <=> task[e] = "none"
                            /\ TaskLive(e)' => TaskLive(e)
                            /\ result'[e] = "pending" => result[e] = "pending"
                            /\ result'[e] = "none" => result[e] = "none"
                            /\ result[e] = "none" /\ result'[e] # "none" => result'[e] = "refused"
    PROVE  SchedInv'
<1>1. /\ lanes' = lanes /\ scope' = scope /\ queue' = queue /\ priority' = priority
      /\ sequence' = sequence /\ key' = key /\ proc' = proc /\ current' = current
      /\ interrupted' = interrupted
  BY DEF laneVars
<1>2. \A m \in Execs : Attached(m)' <=> Attached(m)
  BY <1>1 DEF Attached
<1>3. SchedTypeOK'
  BY <1>1 DEF SchedInv, SchedTypeOK
<1>4. LanesSound' /\ CurrentSound' /\ ItemsSound'
  BY <1>1, <1>2 DEF SchedInv, SchedTypeOK, LanesSound, CurrentSound, ItemsSound
<1>5. ResultOwned' /\ TaskOwned'
  BY <1>1, <1>2 DEF SchedInv, ResultOwned, TaskOwned
<1> QED BY <1>3, <1>4, <1>5 DEF SchedInv

\* close_session keeps the invariant: the detached lane has nothing queued, and
\* its processor still awaits the task of the current item.
LEMMA CloseInv ==
    ASSUME SchedulerAssumption, SchedInv, NEW s \in Sessions, NEW g, CloseLane(s, g)
    PROVE  SchedInv'
<1>1. SchedTypeOK
  BY DEF SchedInv
<1>2. PICK l \in Execs : l = lanes[s]
  BY <1>1 DEF CloseLane, SchedTypeOK
<1>3. /\ lanes' = [lanes EXCEPT ![s] = None]
      /\ result' = Drained(l)
      /\ queue' = [queue EXCEPT ![l] = {}]
      /\ cancelling' = [f \in Execs |-> cancelling[f]
                           \/ (proc[l] = "awaiting" /\ f = current[l] /\ TaskLive(f))]
      /\ interrupted' = [interrupted EXCEPT ![l] =
                           proc[l] = "awaiting" /\ TaskDone(current[l])]
      /\ UNCHANGED <<scope, priority, sequence, key, proc, current, task, closed>>
  BY <1>2 DEF CloseLane
<1>4. scope[l].sess = s
  BY <1>2 DEF CloseLane, SchedInv, LanesSound
<1>5. \A m \in Execs : m # l /\ Attached(m) => Attached(m)'
  BY <1>1, <1>2, <1>3, <1>4 DEF Attached, SchedTypeOK
<1>6. \A e \in Execs : /\ result'[e] = "none" <=> result[e] = "none"
                       /\ result'[e] = "pending" => result[e] = "pending" /\ e \notin queue[l]
  BY <1>3 DEF Drained
<1>7. SchedTypeOK'
  <2>1. result' \in [Execs -> ResultStates]
    BY <1>1, <1>3 DEF Drained, SchedTypeOK, ResultStates
  <2>2. cancelling' \in [Execs -> BOOLEAN]
    BY <1>1, <1>3 DEF SchedTypeOK, TaskLive
  <2>3. interrupted' \in [Execs -> BOOLEAN]
    BY <1>1, <1>3 DEF SchedTypeOK, TaskDone
  <2> QED BY <1>1, <1>3, <2>1, <2>2, <2>3 DEF SchedTypeOK
<1>8. LanesSound'
  <2>1. \A r \in Sessions : lanes'[r] # None => lanes'[r] = lanes[r]
    BY <1>1, <1>3 DEF SchedTypeOK
  <2>2. \A m \in Execs : queue'[m] # {} => Attached(m)'
    BY <1>1, <1>3, <1>5 DEF SchedInv, LanesSound, SchedTypeOK
  <2> QED BY <1>1, <1>3, <1>6, <2>1, <2>2 DEF SchedInv, LanesSound
<1>9. CurrentSound'
  BY <1>1, <1>3, <1>6 DEF SchedInv, CurrentSound, SchedTypeOK
<1>10. ItemsSound'
  <2>1. \A m, e \in Execs : e \in queue'[m] => e \in queue[m]
    BY <1>1, <1>3 DEF SchedTypeOK
  <2> QED BY <1>3, <1>6, <2>1 DEF SchedInv, ItemsSound
<1>11. ResultOwned'
  <2> SUFFICES ASSUME NEW f \in Execs, result'[f] = "pending"
               PROVE  \/ \E m \in Execs : Attached(m)' /\ proc'[m] # "done" /\ f \in queue'[m]
                      \/ \E m \in Execs : current'[m] = f /\ proc'[m] = "awaiting"
    BY DEF ResultOwned
  <2>1. result[f] = "pending" /\ f \notin queue[l]
    BY <1>6
  <2>2. \/ \E m \in Execs : Attached(m) /\ proc[m] # "done" /\ f \in queue[m]
        \/ \E m \in Execs : current[m] = f /\ proc[m] = "awaiting"
    BY <2>1 DEF SchedInv, ResultOwned
  <2>3. \A m \in Execs : f \in queue[m] => m # l /\ f \in queue'[m]
    BY <2>1, <1>1, <1>3 DEF SchedTypeOK
  <2> QED BY <2>2, <2>3, <1>3, <1>5
<1>12. TaskOwned'
  BY <1>3 DEF SchedInv, TaskOwned, TaskLive
<1> QED BY <1>7, <1>8, <1>9, <1>10, <1>11, <1>12 DEF SchedInv

\* Every step of the scheduler and of its callers keeps the invariant.
LEMMA SchedNextInv == SchedulerAssumption /\ SchedInv /\ [SchedNext]_schedVars => SchedInv'
<1> SUFFICES ASSUME SchedulerAssumption, SchedInv, [SchedNext]_schedVars PROVE SchedInv'
  OBVIOUS
<1>1. SchedTypeOK
  BY DEF SchedInv
<1>2. ASSUME NEW e \in Execs, NEW s \in Sessions, NEW g \in 1..MaxGen,
             SubmitAndWait(e, s, g)
      PROVE  SchedInv'
  BY <1>2, SubmitInv
<1>3. ASSUME NEW e \in Execs, NEW s \in Sessions, NEW g \in 1..MaxGen,
             SubmitRefused(e, s, g)
      PROVE  SchedInv'
  BY <1>1, <1>3, QuietInv DEF SubmitRefused, SchedTypeOK, ResultStates, TaskLive
<1>4. ASSUME NEW l \in Execs,
             ProcessorTake(l) \/ ProcessorCancelled(l) \/ ProcessorResume(l)
      PROVE  SchedInv'
  BY <1>4, ProcessorInv
<1>5. ASSUME NEW e \in Execs, StartTask(e)
      PROVE  SchedInv'
  BY <1>1, <1>5, QuietInv DEF StartTask, SchedTypeOK, TaskStates, TaskLive
<1>6. ASSUME NEW e \in Execs, CancelCaller(e)
      PROVE  SchedInv'
  BY <1>1, <1>6, QuietInv DEF CancelCaller, SchedTypeOK, ResultStates, TaskLive
<1>7. ASSUME NEW e \in Execs, NEW how \in Ends, EndTask(e, how)
      PROVE  SchedInv'
  <2>1. how \in {"returned", "raised", "cancelled"}
    BY DEF Ends, SchedulerAssumption
  <2> QED BY <1>1, <1>7, <2>1, QuietInv DEF EndTask, SchedTypeOK, TaskStates, TaskLive
<1>8. ASSUME NEW e \in Execs, NEW q \in BOOLEAN, CancelHandle(e, q)
      PROVE  SchedInv'
  <2>1. result' \in [Execs -> ResultStates] /\ cancelling' \in [Execs -> BOOLEAN]
    BY <1>1, <1>8 DEF CancelHandle, SchedTypeOK, ResultStates, IsCurrent
  <2> QED BY <1>1, <1>8, <2>1, QuietInv DEF CancelHandle, SchedTypeOK, TaskLive
<1>9. ASSUME NEW D \in SUBSET Execs, CancelTasks(D)
      PROVE  SchedInv'
  <2>1. result' \in [Execs -> ResultStates] /\ cancelling' \in [Execs -> BOOLEAN]
    BY <1>1, <1>9 DEF CancelTasks, SchedTypeOK, ResultStates, TaskLive
  <2> QED BY <1>1, <1>9, <2>1, QuietInv DEF CancelTasks, SchedTypeOK, TaskLive
<1>10. ASSUME NEW s \in Sessions, NEW g \in 1..MaxGen, CloseLane(s, g)
       PROVE  SchedInv'
  BY <1>10, CloseInv
<1>11. CASE CloseScheduler
  BY <1>1, <1>11, QuietInv DEF CloseScheduler, SchedTypeOK, TaskLive
<1>12. CASE UNCHANGED schedVars
  BY <1>1, <1>12, QuietInv DEF schedVars, laneVars, SchedTypeOK, TaskLive
<1> QED BY <1>2, <1>3, <1>4, <1>5, <1>6, <1>7, <1>8, <1>9, <1>10, <1>11, <1>12 DEF SchedNext

\* The lanes are type correct.
THEOREM SchedulerTypes == SchedSafety => []SchedTypeOK
<1>1. SchedInv => SchedTypeOK
  BY DEF SchedInv
<1> QED BY <1>1, SchedInitInv, SchedNextInv, SchedulerAssumption, PTL DEF SchedSafety

\* Nobody waits in submit_and_wait for a result that no processor will settle,
\* whatever is closed, cancelled and submitted in the meantime.
THEOREM ResultsAreOwned == SchedSafety => []ResultOwned
<1>1. SchedInv => ResultOwned
  BY DEF SchedInv
<1> QED BY <1>1, SchedInitInv, SchedNextInv, SchedulerAssumption, PTL DEF SchedSafety

\* No operation's task runs that no processor awaits.
THEOREM TasksAreOwned == SchedSafety => []TaskOwned
<1>1. SchedInv => TaskOwned
  BY DEF SchedInv
<1> QED BY <1>1, SchedInitInv, SchedNextInv, SchedulerAssumption, PTL DEF SchedSafety

-----------------------------------------------------------------------------
\* The only step that makes a task, or changes the current item of a lane to
\* another one, is a turn of the loop of _process.
LEMMA OnlyTakeStarts ==
    ASSUME SchedulerAssumption, SchedInv, SchedNext
    PROVE  \/ /\ \A e \in Execs : task[e] = "none" => task'[e] = "none"
              /\ \A l \in Execs : current'[l] = current[l] \/ current'[l] = None
           \/ \E l \in Execs : TakeNext(l)
<1> DEFINE Quiet == /\ \A e \in Execs : task[e] = "none" => task'[e] = "none"
                    /\ \A l \in Execs : current'[l] = current[l] \/ current'[l] = None
           Goal == Quiet \/ \E l \in Execs : TakeNext(l)
<1>1. SchedTypeOK
  BY DEF SchedInv
<1>2. ASSUME NEW e \in Execs, NEW s \in Sessions, NEW g \in 1..MaxGen, SubmitAndWait(e, s, g)
      PROVE  Goal
  BY <1>2 DEF SubmitAndWait
<1>3. ASSUME NEW e \in Execs, NEW s \in Sessions, NEW g \in 1..MaxGen, SubmitRefused(e, s, g)
      PROVE  Goal
  BY <1>3 DEF SubmitRefused, laneVars
<1>4. ASSUME NEW l \in Execs,
             ProcessorTake(l) \/ ProcessorCancelled(l) \/ ProcessorResume(l)
      PROVE  Goal
  BY <1>1, <1>4 DEF ProcessorTake, ProcessorCancelled, ProcessorResume, ProcessorFinally, SchedTypeOK
<1>5. ASSUME NEW e \in Execs, StartTask(e) \/ CancelCaller(e) \/ \E how \in Ends : EndTask(e, how)
      PROVE  Goal
  <2>1. \A f \in Execs : task[f] = "none" => task'[f] = "none"
    BY <1>1, <1>5 DEF StartTask, CancelCaller, EndTask, SchedTypeOK
  <2>2. current' = current
    BY <1>5 DEF StartTask, CancelCaller, EndTask, laneVars
  <2> QED BY <2>1, <2>2
<1>6. ASSUME NEW e \in Execs, NEW q \in BOOLEAN, CancelHandle(e, q)
      PROVE  Goal
  BY <1>6 DEF CancelHandle, laneVars
<1>7. ASSUME NEW D \in SUBSET Execs, CancelTasks(D)
      PROVE  Goal
  BY <1>7 DEF CancelTasks, laneVars
<1>8. ASSUME NEW s \in Sessions, NEW g \in 1..MaxGen, CloseLane(s, g)
      PROVE  Goal
  BY <1>8 DEF CloseLane
<1>9. ASSUME CloseScheduler PROVE Goal
  BY <1>9 DEF CloseScheduler, laneVars
<1>10. Goal
  <2> HIDE DEF Goal
  <2> QED BY <1>2, <1>3, <1>4, <1>5, <1>6, <1>7, <1>8, <1>9 DEF SchedNext
<1> QED BY <1>10

\* The operation of an execution that is cancelled in its queue never gets a
\* task: _process skips it.
THEOREM CancelledWorkNeverStarts == SchedSafety => CancelledNeverStarts
<1> DEFINE Skips == \A e \in Execs : task[e] = "none" /\ result[e] = "cancelled"
                                     => task'[e] = "none"
<1>1. SchedulerAssumption /\ SchedInv /\ [SchedNext]_schedVars => [Skips]_schedVars
  <2> SUFFICES ASSUME SchedulerAssumption, SchedInv, SchedNext PROVE Skips
    OBVIOUS
  <2>1. SchedTypeOK
    BY DEF SchedInv
  <2>2. ASSUME NEW l \in Execs, TakeNext(l)
        PROVE  Skips
    BY <2>1, <2>2, TakeNextFacts DEF TookNothing, Took, SchedTypeOK
  <2> QED BY <2>2, OnlyTakeStarts
<1> QED BY <1>1, SchedInitInv, SchedNextInv, SchedulerAssumption, PTL
        DEF SchedSafety, CancelledNeverStarts

\* The keys of the items of one queue: different sequence numbers, not above the
\* lane's counter; chats have class 0 and a priority that falls as the sequence
\* rises, not below the lane's; messages have class 1 and priority 0.
KeysSound ==
    \A l \in Execs :
        /\ \A e \in queue[l] :
              /\ key[e][3] <= sequence[l]
              /\ e \in LatestFirst => key[e][1] = 0 /\ priority[l] <= key[e][2]
              /\ e \notin LatestFirst => key[e][1] = 1 /\ key[e][2] = 0
        /\ \A e, f \in queue[l] :
              /\ e # f => key[e][3] # key[f][3]
              /\ e \in LatestFirst /\ f \in LatestFirst /\ key[e][3] < key[f][3]
                    => key[f][2] < key[e][2]

\* The keys submit_and_wait gives keep the order of submission.
LEMMA KeysInv == SchedulerAssumption /\ SchedInv /\ KeysSound /\ [SchedNext]_schedVars => KeysSound'
<1> SUFFICES ASSUME SchedulerAssumption, SchedInv, KeysSound, [SchedNext]_schedVars
             PROVE  KeysSound'
  OBVIOUS
<1>1. SchedTypeOK
  BY DEF SchedInv
<1>2. ASSUME key' = key, sequence' = sequence, priority' = priority,
             \A l \in Execs : queue'[l] \subseteq queue[l]
      PROVE  KeysSound'
  BY <1>2 DEF KeysSound
<1>3. ASSUME NEW e \in Execs, NEW s \in Sessions, NEW g \in 1..MaxGen,
             SubmitAndWait(e, s, g)
      PROVE  KeysSound'
  <2>1. PICK l \in Execs : l = IF lanes[s] = None THEN e ELSE lanes[s]
    BY <1>1 DEF SchedTypeOK
  <2>2. /\ result[e] = "none"
        /\ sequence' = [sequence EXCEPT ![l] = @ + 1]
        /\ priority' = [priority EXCEPT ![l] = IF e \in LatestFirst THEN @ - 1 ELSE @]
        /\ key' = [key EXCEPT ![e] = PriorityKey(e, l)]
        /\ queue' = [queue EXCEPT ![l] = @ \cup {e}]
    BY <1>3, <2>1 DEF SubmitAndWait
  <2>3. \A m \in Execs : e \notin queue[m] /\ queue[m] \subseteq Execs
    BY <2>2, <1>1 DEF SchedInv, ItemsSound, SchedTypeOK
  <2>4. \A m \in Execs : priority[m] \in Int /\ sequence[m] \in Nat
    BY <1>1 DEF SchedTypeOK
  <2>5. \A f \in Execs : key[f][1] \in Int /\ key[f][2] \in Int /\ key[f][3] \in Nat
    BY <1>1 DEF SchedTypeOK
  <2>6. /\ key'[e][3] = sequence[l] + 1
        /\ e \in LatestFirst => key'[e][1] = 0 /\ key'[e][2] = priority[l] - 1
        /\ e \notin LatestFirst => key'[e][1] = 1 /\ key'[e][2] = 0
    BY <2>2, <1>1 DEF PriorityKey, SchedTypeOK
  <2>7. \A f \in Execs : f # e => key'[f] = key[f]
    BY <2>2, <1>1 DEF SchedTypeOK
  <2>8. /\ sequence'[l] = sequence[l] + 1
        /\ priority'[l] = IF e \in LatestFirst THEN priority[l] - 1 ELSE priority[l]
        /\ queue'[l] = queue[l] \cup {e}
        /\ \A m \in Execs : m # l => /\ sequence'[m] = sequence[m]
                                     /\ priority'[m] = priority[m]
                                     /\ queue'[m] = queue[m]
    BY <2>2, <1>1 DEF SchedTypeOK
  <2> SUFFICES ASSUME NEW m \in Execs
               PROVE  /\ \A f \in queue'[m] :
                            /\ key'[f][3] <= sequence'[m]
                            /\ f \in LatestFirst => key'[f][1] = 0 /\ priority'[m] <= key'[f][2]
                            /\ f \notin LatestFirst => key'[f][1] = 1 /\ key'[f][2] = 0
                      /\ \A f, h \in queue'[m] :
                            /\ f # h => key'[f][3] # key'[h][3]
                            /\ f \in LatestFirst /\ h \in LatestFirst /\ key'[f][3] < key'[h][3]
                                  => key'[h][2] < key'[f][2]
    BY DEF KeysSound
  <2>9. CASE m # l
    BY <2>9, <2>3, <2>7, <2>8 DEF KeysSound
  <2>10. CASE m = l
    <3>1. ASSUME NEW f \in queue[l]
          PROVE  /\ f \in Execs /\ f # e /\ key'[f] = key[f]
                 /\ key[f][3] <= sequence[l]
                 /\ f \in LatestFirst => key[f][1] = 0 /\ priority[l] <= key[f][2]
                 /\ f \notin LatestFirst => key[f][1] = 1 /\ key[f][2] = 0
      BY <2>3, <2>7 DEF KeysSound
    <3>2. \A f \in queue'[m] :
             /\ key'[f][3] <= sequence'[m]
             /\ f \in LatestFirst => key'[f][1] = 0 /\ priority'[m] <= key'[f][2]
             /\ f \notin LatestFirst => key'[f][1] = 1 /\ key'[f][2] = 0
      <4> SUFFICES ASSUME NEW f \in queue'[m]
                   PROVE  /\ key'[f][3] <= sequence'[m]
                          /\ f \in LatestFirst => key'[f][1] = 0 /\ priority'[m] <= key'[f][2]
                          /\ f \notin LatestFirst => key'[f][1] = 1 /\ key'[f][2] = 0
        OBVIOUS
      <4>1. CASE f = e
        BY <4>1, <2>4, <2>6, <2>8, <2>10
      <4>2. CASE f \in queue[l]
        BY <4>2, <3>1, <2>4, <2>5, <2>8, <2>10
      <4> QED BY <4>1, <4>2, <2>8, <2>10
    <3>3. ASSUME NEW f \in queue'[m], NEW h \in queue'[m]
          PROVE  /\ f # h => key'[f][3] # key'[h][3]
                 /\ f \in LatestFirst /\ h \in LatestFirst /\ key'[f][3] < key'[h][3]
                       => key'[h][2] < key'[f][2]
      <4>1. CASE f \in queue[l] /\ h \in queue[l]
        BY <4>1, <3>1 DEF KeysSound
      <4>2. CASE f = e /\ h \in queue[l]
        BY <4>2, <3>1, <2>4, <2>5, <2>6
      <4>3. CASE f \in queue[l] /\ h = e
        BY <4>3, <3>1, <2>4, <2>5, <2>6
      <4>4. CASE f = e /\ h = e
        BY <4>4, <2>4, <2>6
      <4> QED BY <4>1, <4>2, <4>3, <4>4, <2>8, <2>10
    <3> QED BY <3>2, <3>3
  <2> QED BY <2>9, <2>10
<1>4. ASSUME NEW l \in Execs,
             ProcessorTake(l) \/ ProcessorCancelled(l) \/ ProcessorResume(l)
      PROVE  KeysSound'
  <2>1. key' = key /\ sequence' = sequence /\ priority' = priority
    BY <1>4 DEF ProcessorTake, ProcessorCancelled, ProcessorResume
  <2>2. TakeNext(l) => \A m \in Execs : queue'[m] \subseteq queue[m]
    <3> SUFFICES ASSUME TakeNext(l) PROVE \A m \in Execs : queue'[m] \subseteq queue[m]
      OBVIOUS
    <3>1. CASE TookNothing(l)
      BY <1>1, <3>1 DEF TookNothing, Dropped, SchedTypeOK
    <3>2. ASSUME NEW e \in queue[l], NEW rest \in SUBSET Execs, Took(l, e, rest)
          PROVE  \A m \in Execs : queue'[m] \subseteq queue[m]
      BY <1>1, <3>2 DEF Took, SchedTypeOK
    <3> QED BY <1>1, <3>1, <3>2, TakeNextFacts
  <2>3. ProcessorFinally(l) => \A m \in Execs : queue'[m] \subseteq queue[m]
    BY <1>1 DEF ProcessorFinally, SchedTypeOK
  <2>4. TakeNext(l) \/ ProcessorFinally(l)
    BY <1>4 DEF ProcessorTake, ProcessorCancelled, ProcessorResume
  <2> QED BY <2>1, <2>2, <2>3, <2>4, <1>2
<1>5. ASSUME NEW e \in Execs, NEW s \in Sessions, NEW g \in 1..MaxGen, SubmitRefused(e, s, g)
      PROVE  KeysSound'
  BY <1>5, <1>2 DEF SubmitRefused, laneVars
<1>6. ASSUME NEW e \in Execs, StartTask(e) \/ CancelCaller(e) \/ \E how \in Ends : EndTask(e, how)
      PROVE  KeysSound'
  BY <1>6, <1>2 DEF StartTask, CancelCaller, EndTask, laneVars
<1>7. ASSUME NEW e \in Execs, NEW q \in BOOLEAN, CancelHandle(e, q)
      PROVE  KeysSound'
  BY <1>7, <1>2 DEF CancelHandle, laneVars
<1>8. ASSUME NEW D \in SUBSET Execs, CancelTasks(D)
      PROVE  KeysSound'
  BY <1>8, <1>2 DEF CancelTasks, laneVars
<1>9. ASSUME NEW s \in Sessions, NEW g \in 1..MaxGen, CloseLane(s, g)
      PROVE  KeysSound'
  <2>1. lanes[s] \in Execs /\ queue' = [queue EXCEPT ![lanes[s]] = {}]
    BY <1>1, <1>9 DEF CloseLane, SchedTypeOK
  <2>2. \A m \in Execs : queue'[m] \subseteq queue[m]
    BY <1>1, <2>1 DEF SchedTypeOK
  <2> QED BY <1>9, <2>2, <1>2 DEF CloseLane
<1>10. CASE CloseScheduler
  BY <1>10, <1>2 DEF CloseScheduler, laneVars
<1>11. CASE UNCHANGED schedVars
  BY <1>11, <1>2 DEF schedVars
<1> QED BY <1>3, <1>4, <1>5, <1>6, <1>7, <1>8, <1>9, <1>10, <1>11 DEF SchedNext

\* A lane starts the newest waiting chat, and the oldest message when no chat
\* waits: the order of the queue's keys is the order the callers expect.
THEOREM LanesStartInOrder == SchedSafety => StartOrder
<1> DEFINE InOrder ==
        \A l, e \in Execs :
            current'[l] = e /\ current[l] # e =>
            \A f \in (queue[l] \ {e}) :
               result[f] = "pending" =>
               IF e \in LatestFirst
               THEN f \in LatestFirst => key[f][3] < key[e][3]
               ELSE f \notin LatestFirst /\ key[e][3] < key[f][3]
<1>1. SchedInit => KeysSound
  BY DEF SchedInit, KeysSound
<1>2. SchedulerAssumption /\ SchedInv /\ KeysSound /\ [SchedNext]_schedVars => [InOrder]_schedVars
  <2> SUFFICES ASSUME SchedulerAssumption, SchedInv, KeysSound, SchedNext,
                      NEW l \in Execs, NEW e \in Execs,
                      current'[l] = e, current[l] # e,
                      NEW f \in (queue[l] \ {e}), result[f] = "pending"
               PROVE  IF e \in LatestFirst
                      THEN f \in LatestFirst => key[f][3] < key[e][3]
                      ELSE f \notin LatestFirst /\ key[e][3] < key[f][3]
    OBVIOUS
  <2>1. SchedTypeOK
    BY DEF SchedInv
  <2>2. PICK m \in Execs : TakeNext(m)
    BY OnlyTakeStarts DEF SchedulerAssumption
  <2>3. m = l
    <3>1. PICK x : current' = [current EXCEPT ![m] = x]
      BY <2>2 DEF TakeNext
    <3> QED BY <2>1, <3>1 DEF SchedTypeOK
  <2>4. e \in queue[l] /\ Before(e, f)
    <3>1. {x \in queue[l] : ~Skipped(x)} # {} /\ f \in {x \in queue[l] : ~Skipped(x)}
      BY DEF Skipped
    <3>2. PICK x \in {x \in queue[l] : ~Skipped(x)} :
             /\ \A y \in {y \in queue[l] : ~Skipped(y)} \ {x} : Before(x, y)
             /\ current' = [current EXCEPT ![l] = x]
      BY <2>2, <2>3, <3>1 DEF TakeNext
    <3>3. x = e
      BY <2>1, <3>2 DEF SchedTypeOK
    <3> QED BY <3>1, <3>2, <3>3
  <2>5. f \in queue[l] /\ f # e /\ f \in Execs
    BY <2>1 DEF SchedTypeOK
  <2>6. /\ key[e][1] \in Int /\ key[e][2] \in Int /\ key[e][3] \in Int
        /\ key[f][1] \in Int /\ key[f][2] \in Int /\ key[f][3] \in Int
    BY <2>1, <2>5 DEF SchedTypeOK
  <2>7. /\ e \in LatestFirst => key[e][1] = 0
        /\ f \in LatestFirst => key[f][1] = 0
        /\ e \notin LatestFirst => key[e][1] = 1 /\ key[e][2] = 0
        /\ f \notin LatestFirst => key[f][1] = 1 /\ key[f][2] = 0
        /\ key[e][3] # key[f][3]
        /\ e \in LatestFirst /\ f \in LatestFirst /\ key[e][3] < key[f][3]
              => key[f][2] < key[e][2]
    BY <2>4, <2>5 DEF KeysSound
  <2>8. CASE e \in LatestFirst /\ f \in LatestFirst
    BY <2>4, <2>6, <2>7, <2>8 DEF Before
  <2>9. CASE e \notin LatestFirst
    BY <2>4, <2>6, <2>7, <2>9 DEF Before
  <2> QED BY <2>8, <2>9
<1> QED BY <1>1, <1>2, SchedInitInv, SchedNextInv, KeysInv, SchedulerAssumption, PTL
        DEF SchedSafety, StartOrder
-----------------------------------------------------------------------------
\* The task a processor still awaits after close_session detached its lane has a
\* cancel pending: the processor passed its own cancel on to it.
Abandoned ==
    \A l \in Execs : ~Attached(l) /\ current[l] # None /\ TaskLive(current[l])
                     => cancelling[current[l]]

\* A step that leaves the lanes alone and takes no cancel back from a live task.
LEMMA AbandonedQuiet ==
    ASSUME SchedInv, Abandoned, UNCHANGED laneVars,
           \A e \in Execs : TaskLive(e)' => TaskLive(e) /\ (cancelling[e] => cancelling'[e])
    PROVE  Abandoned'
<1>1. lanes' = lanes /\ scope' = scope /\ current' = current
  BY DEF laneVars
<1>2. \A l \in Execs : current[l] # None => current[l] \in Execs
  BY DEF SchedInv, SchedTypeOK
<1> QED BY <1>1, <1>2 DEF Abandoned, Attached

\* Every step of the lanes keeps it.
LEMMA AbandonedInv ==
    SchedulerAssumption /\ SchedInv /\ Abandoned /\ [SchedNext]_schedVars => Abandoned'
<1> SUFFICES ASSUME SchedulerAssumption, SchedInv, Abandoned, [SchedNext]_schedVars
             PROVE  Abandoned'
  OBVIOUS
<1>0. SchedTypeOK /\ LanesSound /\ CurrentSound /\ ItemsSound
  BY DEF SchedInv
<1>1. ASSUME NEW e \in Execs, NEW s \in Sessions, NEW g \in 1..MaxGen, SubmitAndWait(e, s, g)
      PROVE  Abandoned'
  <2> DEFINE l == IF lanes[s] = None THEN e ELSE lanes[s]
  <2>1. /\ result[e] = "none" /\ LaneAccepts(s, g)
        /\ lanes' = [lanes EXCEPT ![s] = l]
        /\ scope' = [scope EXCEPT ![l] = [sess |-> s, gen |-> g]]
        /\ UNCHANGED <<current, task, cancelling>>
    BY <1>1 DEF SubmitAndWait
  <2>2. l \in Execs /\ (lanes[s] # None => scope[l].sess = s)
    BY <1>0 DEF SchedTypeOK, LanesSound
  <2>3. current[e] = None
    BY <1>0, <2>1 DEF LanesSound
  <2>4. ASSUME NEW m \in Execs, Attached(m), m # e
        PROVE  Attached(m)'
    <3>1. scope[m].sess \in Sessions
      BY <1>0, <2>4 DEF Attached, SchedTypeOK, Scopes
    <3>2. scope'[m].sess = scope[m].sess
      BY <1>0, <2>1, <2>2, <2>4 DEF SchedTypeOK
    <3>3. lanes'[scope[m].sess] = m
      BY <1>0, <2>1, <2>4, <3>1 DEF Attached, SchedTypeOK, SchedulerAssumption
    <3> QED BY <2>4, <3>2, <3>3 DEF Attached
  <2> HIDE DEF l
  <2> QED BY <2>1, <2>3, <2>4 DEF Abandoned, TaskLive
<1>2. ASSUME NEW l \in Execs,
             ProcessorTake(l) \/ ProcessorCancelled(l) \/ ProcessorResume(l)
      PROVE  Abandoned'
  <2>1. CASE Attached(l) /\ TakeNext(l) /\ UNCHANGED <<lanes, scope, cancelling>>
    <3>1. Attached(l)' /\ \A m \in Execs : Attached(m)' <=> Attached(m)
      BY <2>1 DEF Attached
    <3>2. \A m \in Execs : m # l => current'[m] = current[m]
      BY <1>0, <2>1, TakeNextFacts DEF TookNothing, Took, SchedTypeOK
    <3>3. \A m \in Execs : m # l /\ current[m] # None => task'[current[m]] = task[current[m]]
      BY <1>0, <2>1, TakeNextFacts DEF TookNothing, Took, SchedTypeOK, ItemsSound, CurrentSound
    <3> QED BY <2>1, <3>1, <3>2, <3>3 DEF Abandoned, TaskLive
  <2>2. CASE ~Attached(l) /\ ProcessorFinally(l) /\ UNCHANGED <<scope, task, cancelling>>
    <3>1. lanes' = lanes
      <4>1. \A s \in Sessions : lanes[s] # l
        BY <1>0, <2>2 DEF LanesSound, Attached, SchedTypeOK, SchedulerAssumption
      <4> QED BY <1>0, <2>2, <4>1 DEF ProcessorFinally, SchedTypeOK
    <3>2. current' = [current EXCEPT ![l] = None]
      BY <2>2 DEF ProcessorFinally
    <3> QED BY <1>0, <2>2, <3>1, <3>2 DEF Abandoned, Attached, TaskLive, SchedTypeOK
  <2> QED BY <1>2, <2>1, <2>2 DEF ProcessorTake, ProcessorCancelled, ProcessorResume
<1>3. ASSUME NEW e \in Execs, StartTask(e)
      PROVE  Abandoned'
  <2>1. /\ task' = [task EXCEPT ![e] = IF cancelling[e] THEN "cancelled" ELSE "running"]
        /\ cancelling' = [cancelling EXCEPT ![e] = FALSE]
        /\ UNCHANGED laneVars
        /\ TaskLive(e)
    BY <1>3 DEF StartTask, TaskLive
  <2>2. \A f \in Execs : TaskLive(f)' => TaskLive(f) /\ (cancelling[f] => cancelling'[f])
    BY <1>0, <2>1 DEF TaskLive, SchedTypeOK
  <2> QED BY <2>1, <2>2, AbandonedQuiet
<1>4. ASSUME NEW e \in Execs, NEW how \in Ends, EndTask(e, how)
      PROVE  Abandoned'
  <2>1. \A f \in Execs : TaskLive(f)' => TaskLive(f) /\ (cancelling[f] => cancelling'[f])
    BY <1>0, <1>4 DEF EndTask, TaskLive, SchedTypeOK, Ends, SchedulerAssumption
  <2> QED BY <1>4, <2>1, AbandonedQuiet DEF EndTask
<1>5. ASSUME NEW e \in Execs, NEW q \in BOOLEAN, CancelHandle(e, q)
      PROVE  Abandoned'
  BY <1>0, <1>5, AbandonedQuiet DEF CancelHandle, TaskLive, SchedTypeOK
<1>6. ASSUME NEW D \in SUBSET Execs, CancelTasks(D)
      PROVE  Abandoned'
  BY <1>0, <1>6, AbandonedQuiet DEF CancelTasks, TaskLive, SchedTypeOK
<1>7. ASSUME NEW s \in Sessions, NEW g \in 1..MaxGen, CloseLane(s, g)
      PROVE  Abandoned'
  <2> DEFINE l == lanes[s]
             busy == proc[l] = "awaiting"
  <2>1. /\ l # None
        /\ lanes' = [lanes EXCEPT ![s] = None]
        /\ cancelling' = [f \in Execs |-> cancelling[f]
                             \/ (busy /\ f = current[l] /\ TaskLive(f))]
        /\ UNCHANGED <<scope, current, task>>
    BY <1>7 DEF CloseLane
  <2>2. ASSUME NEW m \in Execs, m # l, ~Attached(m)'
        PROVE  ~Attached(m)
    BY <1>0, <2>1, <2>2 DEF Attached, SchedTypeOK, Scopes, SchedulerAssumption
  <2>3. current[l] # None => busy /\ current[l] \in Execs
    BY <1>0, <2>1 DEF CurrentSound, SchedTypeOK
  <2>4. \A m \in Execs : current[m] # None => current[m] \in Execs
    BY <1>0 DEF SchedTypeOK
  <2> HIDE DEF l, busy
  <2> QED BY <2>1, <2>2, <2>3, <2>4 DEF Abandoned, TaskLive
<1>8. ASSUME \/ \E e \in Execs, s \in Sessions, g \in 1..MaxGen : SubmitRefused(e, s, g)
             \/ \E e \in Execs : CancelCaller(e)
             \/ CloseScheduler
             \/ UNCHANGED schedVars
      PROVE  Abandoned'
  BY <1>8, AbandonedQuiet DEF SubmitRefused, CancelCaller, CloseScheduler, schedVars, laneVars, TaskLive
<1> QED BY <1>1, <1>2, <1>3, <1>4, <1>5, <1>6, <1>7, <1>8 DEF SchedNext

=============================================================================
