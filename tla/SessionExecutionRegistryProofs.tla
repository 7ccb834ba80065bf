-------------------- MODULE SessionExecutionRegistryProofs --------------------
(***************************************************************************)
(* Proofs about SessionExecutionRegistry, for any sets of Sessions,        *)
(* requests and executions and any terminal_capacity and terminal_ttl.     *)
(***************************************************************************)
EXTENDS SessionExecutionRegistry, SequenceTheorems, TLAPS

\* A history that _evict_terminal may be given: the entries are different
\* registered executions that are, after the step, ended, and unowned or late.
Clean(h) ==
    /\ h \in Seq(Execs)
    /\ \A i \in 1..Len(h) : /\ h[i] \in executions
                            /\ status'[h[i]] = "ended"
                            /\ owner'[h[i]] = "none" \/ attached'[h[i]] = "late"
    /\ \A i, j \in 1..Len(h) : h[i] = h[j] => i = j

\* What _evict_terminal, and the additions of register, do to a clean history
\* and to the indexes.
LEMMA EvictKeeps ==
    ASSUME TypeOK, IndexesAgree, RegistryAssumption, finished' \in [Execs -> Nat],
           NEW h, Clean(h), NEW new \in SUBSET Execs, EvictTerminal(h, new)
    PROVE  /\ executions' \subseteq Execs
           /\ bySession' \in [Sessions -> SUBSET Execs]
           /\ byRequest' \in [Places -> SUBSET Execs]
           /\ history' \in Seq(Execs)
           /\ \A s \in Sessions : bySession'[s] = {e \in executions' : where[e].sess = s}
           /\ \A p \in Places : byRequest'[p] = {e \in executions' : where[e] = p}
           /\ \A i \in 1..Len(history') :
                 /\ history'[i] \in executions'
                 /\ \E j \in 1..Len(h) : history'[i] = h[j]
           /\ \A i, j \in 1..Len(history') : history'[i] = history'[j] => i = j
           /\ Len(history') <= Capacity
           /\ \A e \in executions \ executions' :
                 /\ status'[e] = "ended" /\ (owner'[e] = "none" \/ attached'[e] = "late")
                 /\ now - finished'[e] > TTL \/ Len(h) > Capacity
           /\ \A e \in executions' : e \in executions \/ e \in new
           /\ new \subseteq executions'
           /\ \A e \in executions' :
                 (\E j \in 1..Len(h) : h[j] = e)
                 => \/ e \in new \/ attached'[e] = "late"
                    \/ \E i \in 1..Len(history') : history'[i] = e
<1>1. PICK k \in 0..Len(h) :
         /\ k < Len(h) => Stays(h, k + 1)
         /\ \A i \in 1..k : ~Stays(h, i)
         /\ LET gone == {e \in {h[i] : i \in 1..k} : Removable(e)}
            IN  /\ history' = SubSeq(h, k + 1, Len(h))
                /\ executions' = (executions \ gone) \cup new
                /\ bySession' = [s \in Sessions |->
                       (bySession[s] \ {e \in gone : where[e].sess = s})
                       \cup {e \in new : where[e].sess = s}]
                /\ byRequest' = [p \in Places |->
                       (byRequest[p] \ {e \in gone : where[e] = p})
                       \cup {e \in new : where[e] = p}]
  BY DEF EvictTerminal
<1> DEFINE gone == {e \in {h[i] : i \in 1..k} : Removable(e)}
<1>2. h \in Seq(Execs) /\ Len(h) \in Nat /\ k \in Nat /\ k <= Len(h)
  BY LenProperties DEF Clean
<1>3. \A i \in 1..k : i \in 1..Len(h) /\ h[i] \in executions /\ h[i] \in Execs
  BY <1>2 DEF Clean, TypeOK
<1>4. \A i \in 1..k : h[i] \in gone \/ attached'[h[i]] = "late"
  BY <1>2, <1>3 DEF Clean, Removable
<1>5. /\ history' = SubSeq(h, k + 1, Len(h))
      /\ executions' = (executions \ gone) \cup new
      /\ bySession' = [s \in Sessions |->
             (bySession[s] \ {e \in gone : where[e].sess = s})
             \cup {e \in new : where[e].sess = s}]
      /\ byRequest' = [p \in Places |->
             (byRequest[p] \ {e \in gone : where[e] = p})
             \cup {e \in new : where[e] = p}]
  BY <1>1
<1>6. \A i \in (k + 1)..Len(h) : h[i] \in Execs
  BY <1>2, ElementOfSeq
<1>7. /\ history' \in Seq(Execs)
      /\ Len(history') = Len(h) - k
      /\ \A i \in 1..(Len(h) - k) : history'[i] = h[k + i]
  <2>1. /\ SubSeq(h, k + 1, Len(h)) \in Seq(Execs)
        /\ Len(SubSeq(h, k + 1, Len(h))) =
              IF k + 1 <= Len(h) THEN Len(h) - (k + 1) + 1 ELSE 0
        /\ \A i \in 1..(Len(h) - (k + 1) + 1) :
              SubSeq(h, k + 1, Len(h))[i] = h[(k + 1) + i - 1]
    <3>1. k + 1 \in Int /\ Len(h) \in Int
      BY <1>2
    <3> QED BY <3>1, <1>6, SubSeqProperties
  <2>2. \A i \in Nat : (k + 1) + i - 1 = k + i
    BY <1>2
  <2>3. Len(h) - (k + 1) + 1 = Len(h) - k
    BY <1>2
  <2>4. Len(SubSeq(h, k + 1, Len(h))) = Len(h) - k
    <3>1. (IF k + 1 <= Len(h) THEN Len(h) - (k + 1) + 1 ELSE 0) = Len(h) - k
      BY <1>2
    <3> QED BY <3>1, <2>1
  <2>5. \A i \in 1..(Len(h) - k) : SubSeq(h, k + 1, Len(h))[i] = h[k + i]
    <3>1. \A i \in 1..(Len(h) - k) : i \in Nat
      BY <1>2
    <3> QED BY <2>1, <2>2, <2>3, <3>1
  <2> QED BY <2>1, <2>4, <2>5, <1>5
<1>8. executions' \subseteq Execs
  BY <1>5 DEF TypeOK
<1>9. /\ \A s \in Sessions : bySession'[s] = {e \in executions' : where[e].sess = s}
      /\ \A p \in Places : byRequest'[p] = {e \in executions' : where[e] = p}
  BY <1>5 DEF IndexesAgree
<1>10. /\ bySession' \in [Sessions -> SUBSET Execs]
       /\ byRequest' \in [Places -> SUBSET Execs]
  <2>1. /\ bySession' = [s \in Sessions |-> bySession'[s]]
        /\ byRequest' = [p \in Places |-> byRequest'[p]]
    BY <1>5
  <2> QED BY <2>1, <1>8, <1>9
<1>11. ASSUME NEW i \in 1..Len(history')
       PROVE  /\ k + i \in 1..Len(h)
              /\ history'[i] = h[k + i]
              /\ history'[i] \in executions'
  <2>1. k + i \in 1..Len(h) /\ history'[i] = h[k + i]
    BY <1>2, <1>7
  <2>2. h[k + i] \in executions /\ h[k + i] \notin gone
    <3>1. \A j \in 1..k : j # k + i /\ j \in 1..Len(h)
      BY <1>2
    <3> QED BY <2>1, <3>1, <1>2 DEF Clean
  <2> QED BY <2>1, <2>2, <1>5
<1>12. \A i, j \in 1..Len(history') : history'[i] = history'[j] => i = j
  <2> SUFFICES ASSUME NEW i \in 1..Len(history'), NEW j \in 1..Len(history'),
                      history'[i] = history'[j]
               PROVE  i = j
    OBVIOUS
  <2>1. k + i \in 1..Len(h) /\ k + j \in 1..Len(h) /\ h[k + i] = h[k + j]
    BY <1>11
  <2>2. \A a, b \in 1..Len(h) : h[a] = h[b] => a = b
    BY DEF Clean
  <2>3. k + i = k + j
    BY <2>1, <2>2
  <2> QED BY <2>3, <1>2, <1>7
<1>13. Len(history') <= Capacity
  <2>1. CASE k = Len(h)
    BY <2>1, <1>2, <1>7 DEF RegistryAssumption
  <2>2. CASE k < Len(h)
    <3>1. Len(h) - (k + 1) + 1 <= Capacity
      BY <2>2, <1>1 DEF Stays
    <3> QED BY <3>1, <1>2, <1>7 DEF RegistryAssumption
  <2> QED BY <2>1, <2>2, <1>2
<1>14. ASSUME NEW e \in executions \ executions'
       PROVE  /\ status'[e] = "ended" /\ (owner'[e] = "none" \/ attached'[e] = "late")
              /\ now - finished'[e] > TTL \/ Len(h) > Capacity
  <2>1. PICK i \in 1..k : e = h[i]
    BY <1>5
  <2>2. status'[e] = "ended" /\ (owner'[e] = "none" \/ attached'[e] = "late")
    BY <2>1, <1>3, <1>5 DEF Clean
  <2>3. \A j \in 1..(i - 1) : h[j] # h[i]
    BY <1>2, <2>1 DEF Clean
  <2>4. ~(now - finished'[e] <= TTL) \/ ~(Len(h) - i + 1 <= Capacity)
    BY <1>1, <2>1, <2>3, <1>3 DEF Stays
  <2>5. ~(Len(h) - i + 1 <= Capacity) => Len(h) > Capacity
    BY <1>2 DEF RegistryAssumption
  <2>6. ~(now - finished'[e] <= TTL) => now - finished'[e] > TTL
    <3>1. finished'[e] \in Nat /\ now \in Nat
      BY DEF TypeOK
    <3> QED BY <3>1 DEF RegistryAssumption
  <2> QED BY <2>2, <2>4, <2>5, <2>6
<1>15. /\ \A e \in executions' : e \in executions \/ e \in new
       /\ new \subseteq executions'
  BY <1>5
<1>16. ASSUME NEW e \in executions', NEW j \in 1..Len(h), h[j] = e
       PROVE  e \in new \/ attached'[e] = "late" \/ \E i \in 1..Len(history') : history'[i] = e
  <2>1. CASE j <= k
    BY <2>1, <1>16, <1>2, <1>4, <1>5
  <2>2. CASE j > k
    <3>1. j - k \in 1..Len(history') /\ j - k \in 1..(Len(h) - k) /\ k + (j - k) = j
      BY <2>2, <1>2, <1>7
    <3> QED BY <3>1, <1>7, <1>16
  <2> QED BY <2>1, <2>2, <1>2
<1> HIDE DEF gone
<1> QED BY <1>7, <1>8, <1>9, <1>10, <1>11, <1>12, <1>13, <1>14, <1>15, <1>16

-----------------------------------------------------------------------------
\* How the state of a handle and its task go together: an unknown execution has
\* no task, a retained owner lives at least as long as its execution is active,
\* every other task is dropped at the end unless it came late, and whatever has a
\* task that did not come late is registered.
Lifecycle ==
    \A e \in Execs :
        /\ status[e] = "unknown" => owner[e] = "none" /\ e \notin executions
        /\ retain[e] /\ Active(e) => owner[e] = "live"
        /\ ~retain[e] /\ status[e] = "ended" => owner[e] = "none" \/ Late(e)
        /\ Active(e) \/ (owner[e] # "none" /\ ~Late(e)) => e \in executions
        /\ Late(e) => ~retain[e] /\ status[e] = "ended"

\* The inductive invariant.
Inv == TypeOK /\ IndexesAgree /\ EndedIsTracked /\ HistoryOnce /\ HistoryBounded /\ Lifecycle

\* An empty registry satisfies the invariant.
LEMMA InitInv == RegistryAssumption /\ Init => Inv
<1> SUFFICES ASSUME RegistryAssumption, Init PROVE Inv
  OBVIOUS
<1>1. history = <<>> /\ Len(history) = 0 /\ history \in Seq(Execs)
  BY EmptySeq DEF Init
<1>2. TypeOK
  BY <1>1 DEF Init, TypeOK, Statuses, ActiveStates, OwnerStates, Attachers
<1>3. IndexesAgree
  BY DEF Init, IndexesAgree
<1>4. EndedIsTracked /\ HistoryOnce /\ HistoryBounded
  BY <1>1 DEF Init, EndedIsTracked, HistoryOnce, HistoryBounded, RegistryAssumption
<1>5. Lifecycle
  BY DEF Init, Lifecycle, Active, ActiveStates, Late
<1> QED BY <1>2, <1>3, <1>4, <1>5 DEF Inv

\* What a step does to the handles before it evicts: the types, and the facts
\* of Lifecycle as far as they do not depend on the eviction.
HandleStep(new) ==
    /\ where' = where /\ retain' = retain /\ now' \in Nat
    /\ status' \in [Execs -> Statuses]
    /\ owner' \in [Execs -> OwnerStates]
    /\ attached' \in [Execs -> Attachers]
    /\ finished' \in [Execs -> Nat]
    /\ \A e \in new : status'[e] # "ended"
    /\ \A e \in Execs :
          /\ status'[e] = "unknown" =>
                owner'[e] = "none" /\ e \notin executions /\ e \notin new
          /\ retain[e] /\ status'[e] \in ActiveStates => owner'[e] = "live"
          /\ ~retain[e] /\ status'[e] = "ended" => owner'[e] = "none" \/ attached'[e] = "late"
          /\ status'[e] \in ActiveStates \/ (owner'[e] # "none" /\ attached'[e] # "late")
                => e \in executions \/ e \in new
          /\ attached'[e] = "late" => ~retain[e] /\ status'[e] = "ended"

\* The history h given to the eviction has every ended execution that no owner
\* task will add.
Tracks(h) ==
    \A e \in executions : status'[e] = "ended" =>
        \/ \E i \in 1..Len(h) : h[i] = e
        \/ retain[e] /\ owner'[e] \in {"live", "done"}
        \/ attached'[e] = "late"

\* The part of the step that is common to the methods that evict.
LEMMA EvictInv ==
    ASSUME RegistryAssumption, Inv, NEW h, Clean(h), NEW new \in SUBSET Execs,
           EvictTerminal(h, new), HandleStep(new), Tracks(h)
    PROVE  Inv'
<1>1. TypeOK /\ IndexesAgree /\ finished' \in [Execs -> Nat]
  BY DEF Inv, HandleStep
<1>2. /\ executions' \subseteq Execs
      /\ bySession' \in [Sessions -> SUBSET Execs]
      /\ byRequest' \in [Places -> SUBSET Execs]
      /\ history' \in Seq(Execs)
      /\ \A s \in Sessions : bySession'[s] = {e \in executions' : where[e].sess = s}
      /\ \A p \in Places : byRequest'[p] = {e \in executions' : where[e] = p}
      /\ \A i \in 1..Len(history') :
            /\ history'[i] \in executions'
            /\ \E j \in 1..Len(h) : history'[i] = h[j]
      /\ \A i, j \in 1..Len(history') : history'[i] = history'[j] => i = j
      /\ Len(history') <= Capacity
      /\ \A e \in executions \ executions' : status'[e] = "ended" /\ (owner'[e] = "none" \/ attached'[e] = "late")
      /\ \A e \in executions' : e \in executions \/ e \in new
      /\ new \subseteq executions'
      /\ \A e \in executions' :
            (\E j \in 1..Len(h) : h[j] = e)
            => \/ e \in new \/ attached'[e] = "late"
               \/ \E i \in 1..Len(history') : history'[i] = e
  BY <1>1, EvictKeeps, SMTT(60)
<1>3. TypeOK'
  BY <1>1, <1>2 DEF TypeOK, HandleStep
<1>4. IndexesAgree'
  BY <1>2 DEF IndexesAgree, HandleStep
<1>5. HistoryOnce'
  <2>1. ASSUME NEW i \in 1..Len(history')
        PROVE  /\ history'[i] \in executions'
               /\ status'[history'[i]] = "ended"
               /\ owner'[history'[i]] = "none" \/ attached'[history'[i]] = "late"
    <3>1. PICK j \in 1..Len(h) : history'[i] = h[j]
      BY <1>2
    <3> QED BY <3>1, <1>2 DEF Clean
  <2>2. \A i, j \in 1..Len(history') : history'[i] = history'[j] => i = j
    BY <1>2
  <2> QED BY <2>1, <2>2 DEF HistoryOnce, Late
<1>6. HistoryBounded'
  BY <1>2 DEF HistoryBounded
<1>7. EndedIsTracked'
  BY <1>2 DEF EndedIsTracked, HandleStep, Tracks, Late
<1>8. Lifecycle'
  BY <1>2 DEF Lifecycle, Active, HandleStep, ActiveStates, Late
<1> QED BY <1>3, <1>4, <1>5, <1>6, <1>7, <1>8 DEF Inv

\* The history of the current state is clean for a step that leaves its entries
\* ended, and unowned or late.
LEMMA HistoryClean ==
    ASSUME Inv, \A e \in executions : attached'[e] = attached[e],
           \A e \in executions : status[e] = "ended" /\ (owner[e] = "none" \/ Late(e))
                => status'[e] = "ended" /\ (owner'[e] = "none" \/ Late(e))
    PROVE  Clean(history)
BY DEF Inv, TypeOK, HistoryOnce, Clean, Late

\* An execution that ends, or whose owner is released, joins a clean history.
LEMMA AppendClean ==
    ASSUME Clean(history), NEW e \in Execs, e \in executions,
           status'[e] = "ended", owner'[e] = "none",
           \A i \in 1..Len(history) : history[i] # e
    PROVE  /\ Clean(Append(history, e))
           /\ Len(Append(history, e)) = Len(history) + 1
           /\ \E i \in 1..Len(Append(history, e)) : Append(history, e)[i] = e
           /\ \A i \in 1..Len(history) : /\ i \in 1..Len(Append(history, e))
                                         /\ Append(history, e)[i] = history[i]
<1> DEFINE h == Append(history, e)
<1>1. history \in Seq(Execs) /\ Len(history) \in Nat
  BY LenProperties DEF Clean
<1>2. /\ h \in Seq(Execs)
      /\ Len(h) = Len(history) + 1
      /\ \A i \in 1..Len(history) : h[i] = history[i]
      /\ h[Len(history) + 1] = e
  BY <1>1, AppendProperties
<1> HIDE DEF h
<1>3. \A i \in 1..Len(h) : i \in 1..Len(history) \/ i = Len(history) + 1
  BY <1>1, <1>2
<1>4. \A i \in 1..Len(h) : /\ h[i] \in executions /\ status'[h[i]] = "ended"
                           /\ owner'[h[i]] = "none" \/ attached'[h[i]] = "late"
  BY <1>2, <1>3 DEF Clean
<1>5. \A i, j \in 1..Len(h) : h[i] = h[j] => i = j
  BY <1>2, <1>3 DEF Clean
<1>6. Len(history) + 1 \in 1..Len(h) /\ \A i \in 1..Len(history) : i \in 1..Len(h)
  BY <1>1, <1>2
<1>7. Clean(h)
  BY <1>2, <1>4, <1>5 DEF Clean
<1> QED BY <1>2, <1>6, <1>7 DEF h

\* Every method of the registry, and time, keep the invariant.
LEMMA NextInv == RegistryAssumption /\ Inv /\ [Next]_vars => Inv'
<1> SUFFICES ASSUME RegistryAssumption, Inv, [Next]_vars PROVE Inv'
  OBVIOUS
<1> USE DEF Statuses, ActiveStates, OwnerStates, Attachers, Late
<1>1. CASE Lookup
  <2>1. Clean(history)
    BY <1>1, HistoryClean DEF Lookup
  <2>2. EvictTerminal(history, {})
    BY <1>1 DEF Lookup
  <2>3. HandleStep({})
    BY <1>1 DEF HandleStep, Inv, TypeOK, Lifecycle, Active, Lookup
  <2>4. Tracks(history)
    BY <1>1 DEF Tracks, Lookup, Inv, EndedIsTracked
  <2> QED BY <2>1, <2>2, <2>3, <2>4, EvictInv
<1>2. CASE Tick
  BY <1>2 DEF Tick, Inv, TypeOK, IndexesAgree, EndedIsTracked, HistoryOnce,
     HistoryBounded, Lifecycle, Active
<1>3. ASSUME NEW e \in Execs, NEW task \in {"none", "live"}, Register(e, task)
      PROVE  Inv'
  <2>1. e \notin executions
    BY <1>3 DEF Register, Inv, Lifecycle
  <2>2. Clean(history)
    <3>1. \A f \in executions : f # e /\ f \in Execs
      BY <2>1 DEF Inv, TypeOK
    <3>2. \A f \in executions : /\ status'[f] = status[f] /\ owner'[f] = owner[f]
                                 /\ attached'[f] = attached[f]
      BY <3>1, <1>3 DEF Register, Inv, TypeOK
    <3> QED BY <3>2, HistoryClean
  <2>3. EvictTerminal(history, {e})
    BY <1>3 DEF Register
  <2>4. HandleStep({e})
    BY <1>3 DEF HandleStep, Inv, TypeOK, Lifecycle, Active, Register
  <2>5. Tracks(history)
    BY <1>3, <2>1 DEF Tracks, Register, Inv, TypeOK, EndedIsTracked
  <2> QED BY <2>2, <2>3, <2>4, <2>5, EvictInv
<1>4. ASSUME NEW e \in Execs, MarkRunning(e)
      PROVE  Inv'
  BY <1>4 DEF MarkRunning, Inv, TypeOK, IndexesAgree, EndedIsTracked, HistoryOnce,
     HistoryBounded, Lifecycle, Active
<1>5. ASSUME NEW e \in Execs, MarkWaiting(e)
      PROVE  Inv'
  BY <1>5 DEF MarkWaiting, Inv, TypeOK, IndexesAgree, EndedIsTracked, HistoryOnce,
     HistoryBounded, Lifecycle, Active
<1>6. ASSUME NEW e \in Execs, ResumeWaiting(e)
      PROVE  Inv'
  BY <1>6 DEF ResumeWaiting, Inv, TypeOK, IndexesAgree, EndedIsTracked, HistoryOnce,
     HistoryBounded, Lifecycle, Active
<1>7. ASSUME NEW e \in Execs, MarkTerminal(e)
      PROVE  Inv'
  <2>1. e \in executions /\ status[e] # "ended"
    BY <1>7 DEF MarkTerminal, Inv, Lifecycle, Active
  <2>2. \A i \in 1..Len(history) : history[i] # e
    BY <2>1 DEF Inv, HistoryOnce
  <2>3. Clean(history)
    BY <1>7, <2>1, HistoryClean DEF MarkTerminal, Inv, TypeOK
  <2>4. HandleStep({})
    BY <1>7, <2>1 DEF HandleStep, Inv, TypeOK, Lifecycle, Active, MarkTerminal
  <2>5. CASE retain[e]
    <3>1. EvictTerminal(history, {})
      BY <1>7, <2>5 DEF MarkTerminal, Joined, Inv, TypeOK, Lifecycle, Active
    <3>2. Tracks(history)
      BY <1>7, <2>5 DEF Tracks, MarkTerminal, Inv, TypeOK, Lifecycle, Active, EndedIsTracked
    <3> QED BY <2>3, <2>4, <3>1, <3>2, EvictInv
  <2>6. CASE ~retain[e]
    <3>1. owner'[e] = "none" /\ status'[e] = "ended"
      BY <1>7, <2>6 DEF MarkTerminal, Inv, TypeOK
    <3>2. EvictTerminal(Append(history, e), {})
      BY <1>7, <3>1 DEF MarkTerminal, Joined
    <3>3. /\ Clean(Append(history, e))
          /\ \E i \in 1..Len(Append(history, e)) : Append(history, e)[i] = e
          /\ \A i \in 1..Len(history) : /\ i \in 1..Len(Append(history, e))
                                        /\ Append(history, e)[i] = history[i]
      BY <2>1, <2>2, <2>3, <3>1, AppendClean
    <3>4. Tracks(Append(history, e))
      BY <1>7, <3>3 DEF Tracks, MarkTerminal, Inv, TypeOK, EndedIsTracked
    <3> QED BY <2>4, <3>2, <3>3, <3>4, EvictInv
  <2> QED BY <2>5, <2>6
<1>8. ASSUME NEW e \in Execs, ReleaseOwnerTask(e)
      PROVE  Inv'
  <2>1. e \in executions /\ status[e] = "ended" /\ owner'[e] = "none" /\ status'[e] = "ended"
    BY <1>8 DEF ReleaseOwnerTask, Inv, TypeOK, Lifecycle, Active
  <2>2. \A i \in 1..Len(history) : history[i] # e
    BY <1>8 DEF ReleaseOwnerTask, Inv, HistoryOnce, Lifecycle
  <2>3. Clean(history)
    BY <1>8, HistoryClean DEF ReleaseOwnerTask, Inv, TypeOK
  <2>4. EvictTerminal(Append(history, e), {})
    BY <1>8, <2>1 DEF ReleaseOwnerTask, Joined
  <2>5. /\ Clean(Append(history, e))
        /\ \E i \in 1..Len(Append(history, e)) : Append(history, e)[i] = e
        /\ \A i \in 1..Len(history) : /\ i \in 1..Len(Append(history, e))
                                      /\ Append(history, e)[i] = history[i]
    BY <2>1, <2>2, <2>3, AppendClean
  <2>6. HandleStep({})
    BY <1>8, <2>1 DEF HandleStep, Inv, TypeOK, Lifecycle, Active, ReleaseOwnerTask
  <2>7. Tracks(Append(history, e))
    <3>1. /\ owner \in [Execs -> OwnerStates] /\ executions \subseteq Execs
          /\ status' = status /\ attached' = attached /\ owner' = [owner EXCEPT ![e] = "none"]
      BY <1>8 DEF ReleaseOwnerTask, Inv, TypeOK
    <3>2. SUFFICES ASSUME NEW f \in executions, status'[f] = "ended", f # e
                   PROVE  \/ \E i \in 1..Len(Append(history, e)) : Append(history, e)[i] = f
                          \/ retain[f] /\ owner'[f] \in {"live", "done"}
                          \/ attached'[f] = "late"
      BY <2>5 DEF Tracks
    <3>3. owner'[f] = owner[f]
      BY <3>1, <3>2
    <3>4. \/ \E i \in 1..Len(history) : history[i] = f
          \/ retain[f] /\ owner[f] \in {"live", "done"}
          \/ attached'[f] = "late"
      BY <3>1, <3>2 DEF Inv, EndedIsTracked
    <3> QED BY <2>5, <3>3, <3>4
  <2> QED BY <2>4, <2>5, <2>6, <2>7, EvictInv
<1>9. ASSUME NEW e \in Execs, AttachTask(e)
      PROVE  Inv'
  BY <1>9 DEF AttachTask, Inv, TypeOK, IndexesAgree, EndedIsTracked, HistoryOnce,
     HistoryBounded, Lifecycle, Active
<1>10. ASSUME NEW e \in Execs, TaskEnds(e)
       PROVE  Inv'
  BY <1>10 DEF TaskEnds, Inv, TypeOK, IndexesAgree, EndedIsTracked, HistoryOnce,
     HistoryBounded, Lifecycle, Active
<1>12. ASSUME NEW e \in Execs, DropTask(e)
       PROVE  Inv'
  BY <1>12 DEF DropTask, Inv, TypeOK, IndexesAgree, EndedIsTracked, HistoryOnce,
     HistoryBounded, Lifecycle, Active
<1>11. CASE UNCHANGED vars
  BY <1>11 DEF vars, Inv, TypeOK, IndexesAgree, EndedIsTracked, HistoryOnce,
     HistoryBounded, Lifecycle, Active
<1> QED BY <1>1, <1>2, <1>3, <1>4, <1>5, <1>6, <1>7, <1>8, <1>9, <1>10, <1>11, <1>12 DEF Next

\* The registry of executions keeps its indexes exact, evicts nothing that is
\* active or owned, keeps every ended execution on its way out, and respects
\* terminal_capacity, for any number of Sessions, requests and executions and
\* whenever handle.task is set; the one exception, a task attached to an execution
\* that has ended, is named.
THEOREM RegistryCorrect ==
    Spec => [](TypeOK /\ RegistrySound)
<1>1. Inv => TypeOK /\ RegistrySound
  BY DEF Inv, OwnedIsFindable, Lifecycle, RegistrySound
<1> QED BY <1>1, InitInv, NextInv, RegistryAssumption, PTL DEF Spec

\* _evict_terminal drops an execution only after it has ended, and only when it
\* is older than terminal_ttl or the history was full.
THEOREM EvictionIsJustified == Spec => KeptWhileRecent
<1> DEFINE Kept == \A e \in Execs : e \in executions /\ e \notin executions' =>
                      /\ status'[e] = "ended"
                      /\ \/ now - finished'[e] > TTL
                         \/ Len(history) + 1 > Capacity
<1>1. ASSUME RegistryAssumption, Inv, NEW h, Clean(h), NEW new \in SUBSET Execs,
             EvictTerminal(h, new), finished' \in [Execs -> Nat],
             Len(h) <= Len(history) + 1
      PROVE  Kept
  <2>1. TypeOK /\ IndexesAgree
    BY <1>1 DEF Inv
  <2>2. \A e \in executions \ executions' :
           /\ status'[e] = "ended"
           /\ now - finished'[e] > TTL \/ Len(h) > Capacity
    BY <1>1, <2>1, EvictKeeps
  <2>3. Len(h) > Capacity => Len(history) + 1 > Capacity
    <3>1. Len(h) \in Nat /\ Len(history) \in Nat
      BY <1>1, <2>1, LenProperties DEF Clean, TypeOK
    <3> QED BY <1>1, <3>1 DEF RegistryAssumption
  <2> QED BY <2>2, <2>3
<1>2. RegistryAssumption /\ Inv /\ [Next]_vars => [Kept]_vars
  <2> SUFFICES ASSUME RegistryAssumption, Inv, Next PROVE Kept
    OBVIOUS
  <2>1. Len(history) \in Nat /\ Len(history) <= Len(history) + 1
    BY LenProperties DEF Inv, TypeOK
  <2>2. CASE Lookup
    <3>1. Clean(history)
      BY <2>2, HistoryClean DEF Lookup
    <3> QED BY <2>1, <2>2, <3>1, <1>1 DEF Lookup, Inv, TypeOK
  <2>3. ASSUME NEW e \in Execs, NEW task \in {"none", "live"}, Register(e, task)
        PROVE  Kept
    <3>1. \A f \in executions : f # e /\ f \in Execs
      BY <2>3 DEF Register, Inv, TypeOK, Lifecycle
    <3>2. \A f \in executions : /\ status'[f] = status[f] /\ owner'[f] = owner[f]
                                 /\ attached'[f] = attached[f]
      BY <3>1, <2>3 DEF Register, Inv, TypeOK
    <3>3. Clean(history)
      BY <3>2, HistoryClean
    <3> QED BY <2>1, <2>3, <3>3, <1>1 DEF Register, Inv, TypeOK
  <2>4. ASSUME NEW e \in Execs, MarkTerminal(e) \/ ReleaseOwnerTask(e)
        PROVE  Kept
    <3>1. finished' \in [Execs -> Nat] /\ owner'[e] \in OwnerStates
      <4>1. /\ finished \in [Execs -> Nat] /\ now \in Nat
            /\ owner \in [Execs -> OwnerStates] /\ "none" \in OwnerStates
        BY DEF Inv, TypeOK, OwnerStates
      <4>2. CASE MarkTerminal(e)
        <5>1. /\ finished' = [finished EXCEPT ![e] = now]
              /\ owner' = [owner EXCEPT ![e] = IF retain[e] THEN @ ELSE "none"]
          BY <4>2 DEF MarkTerminal
        <5> QED BY <4>1, <5>1
      <4>3. CASE ReleaseOwnerTask(e)
        <5>1. finished' = finished /\ owner' = [owner EXCEPT ![e] = "none"]
          BY <4>3 DEF ReleaseOwnerTask
        <5> QED BY <4>1, <5>1
      <4> QED BY <2>4, <4>2, <4>3
    <3>2. Clean(history)
      BY <2>4, HistoryClean DEF MarkTerminal, ReleaseOwnerTask, Inv, TypeOK, Active, ActiveStates
    <3>3. CASE executions' = executions
      BY <3>3
    <3>4. CASE executions' # executions
      <4>1. EvictTerminal(Joined(e), {}) /\ status'[e] = "ended"
        BY <2>4, <3>4 DEF MarkTerminal, ReleaseOwnerTask, Inv, TypeOK
      <4>2. e \in executions /\ \A i \in 1..Len(history) : history[i] # e
        BY <2>4 DEF MarkTerminal, ReleaseOwnerTask, Inv, Lifecycle, HistoryOnce, Active, ActiveStates, Late
      <4>3. CASE owner'[e] = "live"
        BY <4>1, <4>3, <3>1, <3>2, <2>1, <1>1 DEF Joined
      <4>4. CASE owner'[e] # "live"
        <5>1. owner'[e] = "none"
          BY <2>4, <4>4 DEF MarkTerminal, ReleaseOwnerTask, Inv, TypeOK, Lifecycle, Active
        <5>2. /\ Clean(Append(history, e))
              /\ Len(Append(history, e)) = Len(history) + 1
          BY <3>2, <4>1, <4>2, <5>1, AppendClean
        <5>3. EvictTerminal(Append(history, e), {})
          BY <4>1, <4>4 DEF Joined
        <5>4. Len(Append(history, e)) <= Len(history) + 1
          BY <2>1, <5>2
        <5> DEFINE h == Append(history, e)
        <5>5. Clean(h) /\ EvictTerminal(h, {}) /\ Len(h) <= Len(history) + 1
          BY <5>2, <5>3, <5>4
        <5> HIDE DEF h, Kept
        <5> QED BY <3>1, <5>5, <1>1
      <4> QED BY <4>3, <4>4
    <3> QED BY <3>3, <3>4
  <2>5. CASE Tick
    BY <2>5 DEF Tick
  <2>6. ASSUME NEW e \in Execs, \/ MarkRunning(e) \/ MarkWaiting(e) \/ ResumeWaiting(e)
                                \/ AttachTask(e) \/ TaskEnds(e) \/ DropTask(e)
        PROVE  Kept
    BY <2>6 DEF MarkRunning, MarkWaiting, ResumeWaiting, AttachTask, TaskEnds, DropTask
  <2> QED BY <2>2, <2>3, <2>4, <2>5, <2>6 DEF Next
<1> QED BY <1>2, InitInv, NextInv, RegistryAssumption, PTL DEF Spec, KeptWhileRecent
=============================================================================
