------------------------ MODULE ControlDeliveryProofs ------------------------
(***************************************************************************)
(* Proofs about questions and answers: one answer at a time, a gate that   *)
(* is closed while a question is open, no question lost and nobody         *)
(* stranded, for any number of executions, questions and faults.           *)
(***************************************************************************)
EXTENDS ControlDelivery, SequenceTheorems, WellFoundedInduction, TLAPS

\* The registered executions.
Known == {order[i] : i \in 1..Len(order)}

\* A parent is registered before its child; every registered answer has one, and
\* only inputs and answers may.
Ordered ==
    /\ \A e \in Execs : State(e) # "none" <=> e \in Known
    /\ \A e \in Execs \ Known : par[e] = None /\ Ids(e) = {}
    /\ \A i \in 1..Len(order) :
          par[order[i]] = None \/ \E j \in 1..(i-1) : order[j] = par[order[i]]
    /\ \A e \in Execs : e \in Answers \cap Known => par[e] # None
    /\ \A e \in Execs : par[e] # None => e \in Inputs \cup Answers

\* How far a handle is, by where its task is.
Waits == {"start", "gated", "released", "queued"}
Tasks ==
    /\ \A a \in Answers :
          /\ task[a] \in {"none", "claiming", "running", "ended"}
          /\ task[a] \in {"none", "claiming"} => State(a) = "none"
          /\ task[a] = "running" => State(a) = "running"
    /\ \A e \in Roots : task[e] = "none" <=> State(e) = "none"
    /\ \A e \in Execs :
          /\ task[e] \in Waits => State(e) = "queued" \/ Terminal(e)
          /\ task[e] = "raised" => Terminal(e) \/ reap[e].again
          /\ task[e] \in {"reaping", "joining"} => Terminal(e)
    /\ \A h \in Heartbeats :
          /\ task[h] \notin Waits \cup {"raised"}
          /\ State(h) # "none" /\ ~TaskLive(h) => Terminal(h)

\* An answer in flight has a parent of its own that has asked something.
Delivering ==
    /\ OneDelivery
    /\ \A a \in InFlight :
          /\ par[a] \in Known
          /\ State(par[a]) \in {"running", "waiting"} \/ Terminal(par[a])
          /\ ~Terminal(par[a]) => Ids(par[a]) # {}
          /\ was[a] /\ par[a] \in Answers => task[par[a]] = "ended"

\* An execution that has ended waits on nothing, and a unary answer asks nothing
\* before it returns.
Cleared ==
    /\ \A e \in Execs : Terminal(e) => Ids(e) = {}
    /\ \A a \in UnaryAnswers : task[a] # "ended" => Ids(a) = {}

\* The inductive invariant, whoever asks.
CoreInv ==
    /\ TypeOK /\ Ordered /\ Tasks /\ Delivering /\ Cleared
    /\ rec = "QUIESCING" => fenced
    /\ sweep.ph = "idle" => sweep.set = {}
    /\ GateGuards

\* Below a Heartbeat only the Heartbeat itself has asked.
RootAsks == \A e \in Execs : Ids(e) # {} => AncestorIn(e, Heartbeats) \in {None, e}

\* Strengthens RunningIsDriven: an answer that found its parent running leaves it so
\* only if something else drives it, and a sweep drives what it has not given up.
Drives(e) == TaskLive(e) \/ e \in sweep.set \ sweep.late
Driven ==
    ~fenced => /\ \A e \in Execs : State(e) = "running" => Drives(e) \/ Deliveries(e) # {}
               /\ \A a \in InFlight : ~was[a] /\ State(par[a]) = "running" => Drives(par[a])

\* What is invariant besides, when only Heartbeats ask below a Heartbeat.
RootInv == RootAsks /\ PauseHasQuestion /\ Driven

-----------------------------------------------------------------------------
(* Lemmas about the operators *)

Handles == [Execs -> [st : ExecStates, ids : SUBSET Questions]]
Ended == {"succeeded", "failed", "cancelled"}

LEMMA Kinds ==
    /\ Answers \subseteq Execs /\ Roots \subseteq Execs /\ Answers \cap Roots = {}
    /\ Chats \subseteq Roots /\ Messages \subseteq Roots
    /\ Heartbeats \subseteq Roots /\ Inputs \subseteq Roots
    /\ UnaryAnswers \subseteq Answers /\ StreamAnswers \subseteq Answers
    /\ Heartbeats \cap (Chats \cup Messages \cup Inputs \cup Answers) = {}
    /\ \A e \in Execs : e # None
    /\ \A e \in Execs : e \in Roots \/ e \in Answers
BY ControlAssumption DEF Answers, Roots, Execs

\* A set of numbers that is not empty has a least one.
LEMMA LeastNumber ==
    ASSUME NEW S, S \subseteq Nat, S # {}
    PROVE  \E m \in S : \A n \in S : m <= n
<1>1. \E m \in S : \A n \in S : ~(<<n, m>> \in OpToRel(<, Nat))
  BY NatLessThanWellFounded, WFMin, Zenon
<1>2. PICK m \in S : \A n \in S : ~(<<n, m>> \in OpToRel(<, Nat))
  BY <1>1
<1>3. \A n \in S : ~(n < m)
  BY <1>2 DEF OpToRel
<1>4. \A n \in S : m \in Nat /\ n \in Nat
  OBVIOUS
<1>5. \A n \in S : m <= n
  BY <1>3, <1>4
<1>6. QED
  BY <1>5

\* The youngest of a set of registered executions is one of them.
LEMMA LatestFacts ==
    ASSUME order \in Seq(Execs), NEW S, S \cap Known # {}
    PROVE  Latest(S) \in S \cap Known
<1> DEFINE n == Len(order)
           I == {i \in 1..n : order[i] \in S}
           D == {n - i : i \in I}
<1>1. n \in Nat /\ DOMAIN order = 1..n
  BY LenProperties
<1>2. I # {}
  BY DEF Known
<1>3. D \subseteq Nat /\ D # {}
  BY <1>1, <1>2
<1>4. PICK m \in D : \A k \in D : m <= k
  <2> HIDE DEF D
  <2> QED
    BY <1>3, LeastNumber
<1>5. PICK i \in I : m = n - i
  OBVIOUS
<1>6. \A j \in I : n - i <= n - j
  BY <1>4, <1>5
<1>7. \A j \in I : j <= i
  BY <1>1, <1>6
<1>8. \E k \in DOMAIN order : order[k] \in S /\ \A j \in DOMAIN order : order[j] \in S => j <= k
  BY <1>1, <1>7
<1> DEFINE k == CHOOSE k \in DOMAIN order :
                   order[k] \in S /\ \A j \in DOMAIN order : order[j] \in S => j <= k
<1>9. k \in DOMAIN order /\ order[k] \in S
  BY <1>8
<1>10. QED
  BY <1>1, <1>9 DEF Latest, Known

\* An execution that takes an answer is running or paused, and waits on a question.
Asker(e) == /\ e \in Execs /\ e \in Known /\ Ids(e) # {}
            /\ State(e) \in {"running", "waiting"} /\ ~cancelReq[e]

LEMMA ControlParentFacts ==
    ASSUME TypeOK, Ordered, NEW q
    PROVE  ControlParent(q) = None \/ Asker(ControlParent(q))
<1> DEFINE parents == {e \in Execs : q \in Ids(e) /\ ~cancelReq[e]
                                     /\ State(e) \in {"running", "waiting"}}
<1>1. parents \subseteq Known
  BY DEF Ordered
<1>2. CASE parents = {}
  BY <1>2 DEF ControlParent
<1>3. CASE parents # {}
  <2>1. Latest(parents) \in parents \cap Known
    <3> HIDE DEF parents
    <3> QED
      BY <1>1, <1>3, LatestFacts DEF TypeOK
  <2>2. ControlParent(q) = Latest(parents)
    BY <1>3 DEF ControlParent
  <2>3. QED
    BY <2>1, <2>2 DEF Asker
<1>4. QED
  BY <1>2, <1>3

LEMMA ControlTargetFacts ==
    ASSUME TypeOK, Ordered, NEW ids \in {<<>>} \cup Tuples
    PROVE  ControlTarget(ids) = None \/ Asker(ControlTarget(ids))
<1> DEFINE found == {i \in DOMAIN ids : ControlParent(ids[i]) # None}
<1>1. CASE found = {}
  BY <1>1 DEF ControlTarget
<1>2. CASE found # {}
  <2>1. found \subseteq Nat
    <3>1. ids \in Seq(Questions)
      BY ControlAssumption, EmptySeq
    <3>2. DOMAIN ids = 1..Len(ids)
      BY <3>1, LenProperties
    <3>3. QED
      BY <3>2
  <2>2. \E i \in found : \A j \in found : i <= j
    <3> HIDE DEF found
    <3> QED
      BY <1>2, <2>1, LeastNumber
  <2>3. (CHOOSE i \in found : \A j \in found : i <= j) \in found
    <3> HIDE DEF found
    <3> QED
      BY <2>2
  <2>4. PICK i \in found : ControlTarget(ids) = ControlParent(ids[i])
    BY <1>2, <2>3 DEF ControlTarget
  <2>5. QED
    BY <2>4, ControlParentFacts
<1>3. QED
  BY <1>1, <1>2

\* The ancestors of an execution, given the parents f, are the least set that holds it
\* and its members' parents.
AncestorsOf(f, e) ==
    LET parents == {f[x] : x \in Execs} \ {None}
        Closed(S) == \A x \in S \cup {e} : f[x] \in S \cup {None}
    IN  {e} \cup {x \in parents : \A S \in SUBSET parents : Closed(S) => x \in S}

LEMMA AncestorsFacts ==
    ASSUME NEW f \in [Execs -> Execs \cup {None}], NEW e \in Execs
    PROVE  /\ e \in AncestorsOf(f, e) /\ AncestorsOf(f, e) \subseteq Execs
           /\ \A x \in AncestorsOf(f, e) : f[x] \in AncestorsOf(f, e) \cup {None}
           /\ \A T : e \in T /\ (\A x \in T : x \in Execs /\ f[x] \in T \cup {None})
                       => AncestorsOf(f, e) \subseteq T
<1> DEFINE parents == {f[x] : x \in Execs} \ {None}
           Closed(S) == \A x \in S \cup {e} : f[x] \in S \cup {None}
           A == {e} \cup {x \in parents : \A S \in SUBSET parents : Closed(S) => x \in S}
<1>1. AncestorsOf(f, e) = A
  BY DEF AncestorsOf
<1>2. parents \subseteq Execs /\ \A x \in Execs : f[x] \in parents \cup {None}
  OBVIOUS
<1>3. \A x \in A : f[x] \in A \cup {None}
  <2>1. SUFFICES ASSUME NEW x \in A, f[x] # None
                 PROVE  f[x] \in A
    OBVIOUS
  <2>2. x \in Execs
    BY <1>2
  <2>3. f[x] \in parents
    BY <1>2, <2>1, <2>2
  <2>4. ASSUME NEW S \in SUBSET parents, Closed(S)
        PROVE  f[x] \in S
    BY <2>1, <2>4
  <2>5. QED
    BY <2>3, <2>4
<1>4. ASSUME NEW T, e \in T, \A x \in T : x \in Execs /\ f[x] \in T \cup {None}
      PROVE  A \subseteq T
  <2>1. T \cap parents \in SUBSET parents
    OBVIOUS
  <2>2. Closed(T \cap parents)
    BY <1>2, <1>4
  <2>3. QED
    BY <1>4, <2>1, <2>2
<1>5. e \in A /\ A \subseteq Execs
  BY <1>2
<1> HIDE DEF A
<1>6. QED
  BY <1>1, <1>3, <1>4, <1>5

\* The ancestors of a registered execution are registered.
LEMMA KnownFacts ==
    ASSUME TypeOK, Ordered
    PROVE  /\ Known \subseteq Execs
           /\ \A x \in Known : par[x] \in Known \cup {None}
           /\ \A e \in Execs : Ancestors(e) = AncestorsOf(par, e)
           /\ \A e \in Known :
                /\ e \in Ancestors(e) /\ Ancestors(e) \subseteq Known
                /\ \A x \in Ancestors(e) : par[x] \in Ancestors(e) \cup {None}
<1>1. /\ par \in [Execs -> Execs \cup {None}] /\ Len(order) \in Nat
      /\ \A i \in 1..Len(order) : order[i] \in Execs
  BY LenProperties, ElementOfSeq DEF TypeOK
<1>2. Known \subseteq Execs
  BY <1>1 DEF Known
<1>3. \A x \in Known : par[x] \in Known \cup {None}
  <2>1. SUFFICES ASSUME NEW i \in 1..Len(order), par[order[i]] # None
                 PROVE  par[order[i]] \in Known
    BY DEF Known
  <2>2. PICK j \in 1..(i-1) : order[j] = par[order[i]]
    BY <2>1 DEF Ordered
  <2>3. j \in 1..Len(order)
    BY <1>1
  <2>4. QED
    BY <2>2, <2>3 DEF Known
<1>4. \A e \in Execs : Ancestors(e) = AncestorsOf(par, e)
  BY DEF Ancestors, AncestorsOf
<1>5. ASSUME NEW e \in Known
      PROVE  /\ e \in AncestorsOf(par, e) /\ AncestorsOf(par, e) \subseteq Known
             /\ \A x \in AncestorsOf(par, e) : par[x] \in AncestorsOf(par, e) \cup {None}
  BY <1>1, <1>2, <1>3, AncestorsFacts
<1>6. QED
  BY <1>2, <1>3, <1>4, <1>5

LEMMA AncestorInFacts ==
    ASSUME NEW e, NEW K
    PROVE  /\ AncestorIn(e, K) = None \/ AncestorIn(e, K) \in K \cap Ancestors(e)
           /\ None \notin K /\ AncestorIn(e, K) = None => Ancestors(e) \cap K = {}
BY DEF AncestorIn

\* A registered execution has a root, and it is no answer.
LEMMA RootFacts ==
    ASSUME TypeOK, Ordered, NEW e \in Known
    PROVE  Root(e) \in Roots
<1> DEFINE n == Len(order)
           I == {i \in 1..n : order[i] \in Ancestors(e)}
<1>1. n \in Nat
  BY LenProperties DEF TypeOK
<1>2. e \in Execs /\ Known \subseteq Execs
  BY KnownFacts
<1>4. /\ e \in Ancestors(e) /\ Ancestors(e) \subseteq Known
      /\ \A x \in Ancestors(e) : par[x] \in Ancestors(e) \cup {None}
  BY KnownFacts
<1>5. I # {} /\ I \subseteq Nat
  BY <1>1, <1>4 DEF Known
<1>6. PICK i \in I : \A j \in I : i <= j
  <2> HIDE DEF I
  <2> QED
    BY <1>5, LeastNumber
<1>7. par[order[i]] = None
  <2>1. SUFFICES ASSUME par[order[i]] # None PROVE FALSE
    OBVIOUS
  <2>2. PICK j \in 1..(i-1) : order[j] = par[order[i]]
    BY <2>1 DEF Ordered
  <2>3. j \in 1..n /\ ~(i <= j)
    BY <1>1
  <2>4. order[j] \in Ancestors(e)
    BY <1>4, <2>1, <2>2
  <2>5. QED
    BY <1>6, <2>3, <2>4
<1>8. \E r \in Ancestors(e) : par[r] = None
  BY <1>7
<1>9. Root(e) \in Ancestors(e) /\ par[Root(e)] = None
  BY <1>8 DEF Root
<1>10. QED
  BY <1>2, <1>4, <1>9, Kinds DEF Ordered

\* Nothing but S itself and children is below S.
LEMMA DescendantsFacts ==
    ASSUME NEW S, S \subseteq Execs
    PROVE  /\ S \subseteq WithDescendants(S) /\ WithDescendants(S) \subseteq Execs
           /\ \A x \in WithDescendants(S) \ S : par[x] # None /\ Active(x)
BY DEF WithDescendants

-----------------------------------------------------------------------------
(* The steps that register nothing and deliver nothing *)

\* What such a step may do to one handle: nothing; end it, and as succeeded only if no
\* question of it is open; pause it for its questions, its operation having returned;
\* or start it.
Advance(x) ==
    \/ handle'[x] = handle[x]
    \/ /\ Active(x) /\ handle'[x].st \in Ended /\ handle'[x].ids = {}
       /\ handle'[x].st = "succeeded" => Ids(x) = {}
    \/ /\ Active(x) /\ Ids(x) # {} /\ handle'[x].st = "waiting" /\ handle'[x].ids = Ids(x)
       /\ task'[x] = IF x \in Heartbeats THEN "parked" ELSE "ended"
    \/ /\ State(x) = "queued" /\ handle'[x].st = "running" /\ handle'[x].ids = Ids(x)
       /\ task'[x] = "running"

\* What it may do to one task.
Proceeds(e) ==
    /\ e \in Answers => task'[e] = task[e] /\ (task[e] = "running" => handle'[e] = handle[e])
    /\ task'[e] \in Waits => task[e] \in Waits
    /\ task'[e] = "none" <=> task[e] = "none"
    /\ task'[e] = "raised" => TerminalIn(handle', e) \/ reap'[e].again
    /\ task'[e] \in {"reaping", "joining"} => TerminalIn(handle', e)
    /\ e \in Heartbeats => /\ task'[e] # "raised"
                           /\ task'[e] = "ended" /\ task[e] # "ended" => TerminalIn(handle', e)
    /\ handle'[e].st = "running" /\ Drives(e) => Drives(e)'

\* What it may do to the rest.
Surrounds ==
    /\ UNCHANGED <<par, order, answerVars, asked>>
    /\ cancelReq' \in [Execs -> BOOLEAN] /\ cancelling' \subseteq Execs
    /\ reap' \in [Execs -> [set : SUBSET Execs, again : BOOLEAN]]
    /\ expired' \subseteq Heartbeats
    /\ sweep' \in [ph : {"idle", "lane", "direct"}, set : SUBSET Execs, late : SUBSET Execs]
    /\ sweep'.ph = "idle" => sweep'.set = {}
    /\ fenced' \in BOOLEAN /\ (fenced => fenced')
    /\ faults' \in 0..MaxFaults

GateMoves ==
    /\ rec' \in {"READY", "ACTIVE", "QUIESCING"} /\ (rec' = "QUIESCING" => fenced')
    /\ gate' \in BOOLEAN
    /\ gate' = gate \/ (gate' => GateOf(handle'))

Advancing ==
    /\ handle' \in Handles /\ task' \in [Execs -> TaskStates]
    /\ \A x \in Execs : Advance(x) /\ Proceeds(x)
    /\ \A h \in expired : Active(h) => handle'[h].st # "cancelled"
    /\ Surrounds /\ GateMoves

LEMMA StateFacts ==
    ASSUME handle \in Handles, NEW e \in Execs
    PROVE  /\ State(e) \in ExecStates /\ Ids(e) \subseteq Questions
           /\ handle[e] = [st |-> State(e), ids |-> Ids(e)]
           /\ Terminal(e) <=> State(e) \in Ended
           /\ Active(e) <=> State(e) \in {"queued", "running", "waiting"}
BY DEF Handles, State, Ids, Terminal, TerminalIn, Active, ActiveIn, Ended, ExecStates

LEMMA AdvancingCore ==
    ASSUME CoreInv, Advancing
    PROVE  CoreInv'
<1>1. /\ TypeOK /\ Ordered /\ Tasks /\ Delivering /\ Cleared /\ GateGuards
      /\ handle \in Handles
  BY DEF CoreInv, TypeOK, Handles
<1>2. /\ handle' \in Handles /\ task' \in [Execs -> TaskStates]
      /\ \A x \in Execs : Advance(x) /\ Proceeds(x)
      /\ Surrounds /\ GateMoves
  BY DEF Advancing
<1>3. \A x \in Execs : /\ Terminal(x) <=> State(x) \in Ended
                       /\ Active(x) <=> State(x) \in {"queued", "running", "waiting"}
  BY <1>1, StateFacts
<1>4. \A x \in Execs : TerminalIn(handle', x) <=> handle'[x].st \in Ended
  BY DEF TerminalIn, Ended
<1>5. UNCHANGED <<par, order, answerVars, asked>>
  BY <1>2 DEF Surrounds
<1>6. TypeOK'
  BY <1>1, <1>2, <1>5 DEF TypeOK, Surrounds, GateMoves, Handles, answerVars
<1>7. Known' = Known
  BY <1>5 DEF Known
<1>8. \A x \in Execs : /\ State(x) = "none" => handle'[x] = handle[x]
                       /\ State(x) # "none" => handle'[x].st # "none"
  BY <1>2, <1>3 DEF Advance, Ended, State
<1>9. Ordered'
  BY <1>1, <1>5, <1>7, <1>8 DEF Ordered, State, Ids
<1>10. Tasks'
  <2>1. ASSUME NEW a \in Answers
        PROVE  /\ task'[a] \in {"none", "claiming", "running", "ended"}
               /\ task'[a] \in {"none", "claiming"} => handle'[a].st = "none"
               /\ task'[a] = "running" => handle'[a].st = "running"
    <3>1. a \in Execs
      BY Kinds
    <3>2. task'[a] = task[a] /\ (task[a] = "running" => handle'[a] = handle[a])
      BY <1>2, <3>1 DEF Proceeds
    <3>3. QED
      BY <1>1, <1>8, <3>1, <3>2 DEF Tasks, State
  <2>2. ASSUME NEW e \in Roots
        PROVE  task'[e] = "none" <=> handle'[e].st = "none"
    <3>1. e \in Execs
      BY Kinds
    <3>2. task'[e] = "none" <=> task[e] = "none"
      BY <1>2, <3>1 DEF Proceeds
    <3>3. QED
      BY <1>1, <1>8, <3>1, <3>2 DEF Tasks, State
  <2>3. ASSUME NEW e \in Execs
        PROVE  /\ task'[e] \in Waits => handle'[e].st = "queued" \/ TerminalIn(handle', e)
               /\ task'[e] = "raised" => TerminalIn(handle', e) \/ reap'[e].again
               /\ task'[e] \in {"reaping", "joining"} => TerminalIn(handle', e)
    <3>1. Advance(e) /\ Proceeds(e)
      BY <1>2
    <3>2. ASSUME task'[e] \in Waits
          PROVE  handle'[e].st = "queued" \/ TerminalIn(handle', e)
      <4>1. State(e) = "queued" \/ State(e) \in Ended
        BY <1>1, <1>3, <3>1, <3>2 DEF Proceeds, Tasks
      <4>2. handle'[e] = handle[e] \/ handle'[e].st \in Ended
        BY <3>1, <3>2 DEF Advance, Waits
      <4>3. QED
        BY <1>4, <4>1, <4>2 DEF State
    <3>3. QED
      BY <3>1, <3>2 DEF Proceeds
  <2>4. ASSUME NEW h \in Heartbeats
        PROVE  /\ task'[h] \notin Waits \cup {"raised"}
               /\ handle'[h].st # "none" /\ task'[h] \in {"none", "ended"} => TerminalIn(handle', h)
    <3>1. h \in Execs /\ Advance(h) /\ Proceeds(h)
      BY <1>2, Kinds
    <3>2. task'[h] \notin Waits \cup {"raised"}
      BY <1>1, <3>1 DEF Proceeds, Tasks
    <3>3. ASSUME task'[h] \in {"none", "ended"}, handle'[h].st # "none"
          PROVE  TerminalIn(handle', h)
      <4>1. CASE task'[h] = "ended" /\ task[h] # "ended"
        BY <3>1, <4>1 DEF Proceeds
      <4>2. CASE task[h] \in {"none", "ended"}
        <5>1. State(h) # "none"
          BY <1>8, <3>1, <3>3 DEF State
        <5>2. State(h) \in Ended
          BY <1>1, <1>3, <3>1, <4>2, <5>1 DEF Tasks, TaskLive
        <5>3. handle'[h] = handle[h]
          BY <1>3, <3>1, <5>2 DEF Advance, Ended
        <5>4. QED
          BY <1>4, <3>1, <5>2, <5>3 DEF State
      <4>3. QED
        BY <3>1, <3>3, <4>1, <4>2 DEF Proceeds
    <3>4. QED
      BY <3>2, <3>3
  <2>5. QED
    BY <2>1, <2>2, <2>3, <2>4 DEF Tasks, State, Terminal, TaskLive
<1>11. InFlight' = InFlight
  BY <1>2, Kinds DEF InFlight, Proceeds
<1>12. Delivering'
  <2>1. OneDelivery'
    BY <1>1, <1>5, <1>11 DEF Delivering, OneDelivery
  <2>2. ASSUME NEW a \in InFlight
        PROVE  /\ par[a] \in Known
               /\ handle'[par[a]].st \in {"running", "waiting"} \/ TerminalIn(handle', par[a])
               /\ ~TerminalIn(handle', par[a]) => handle'[par[a]].ids # {}
               /\ was[a] /\ par[a] \in Answers => task'[par[a]] = "ended"
    <3>1. /\ par[a] \in Known /\ State(par[a]) \in {"running", "waiting"} \cup Ended
          /\ ~Terminal(par[a]) => Ids(par[a]) # {}
          /\ was[a] /\ par[a] \in Answers => task[par[a]] = "ended"
      BY <1>1 DEF Delivering, Terminal, TerminalIn, State, Ended
    <3>2. par[a] \in Execs
      <4>1. a \in Execs
        BY Kinds DEF InFlight
      <4>2. par[a] # None
        BY <1>1, <3>1, <4>1 DEF Ordered, InFlight, Tasks, State
      <4>3. QED
        BY <1>1, <4>1, <4>2 DEF TypeOK
    <3>3. Advance(par[a]) /\ Proceeds(par[a])
      BY <1>2, <3>2
    <3>4. handle'[par[a]].st \in {"running", "waiting"} \cup Ended
      BY <3>1, <3>3 DEF Advance, State
    <3>5. handle'[par[a]].st \notin Ended => handle'[par[a]].ids # {}
      <4>1. SUFFICES ASSUME handle'[par[a]].st \notin Ended
                     PROVE  handle'[par[a]].ids # {}
        OBVIOUS
      <4>2. CASE handle'[par[a]] = handle[par[a]]
        <5>1. ~Terminal(par[a])
          BY <1>3, <3>2, <4>1, <4>2 DEF State
        <5>2. QED
          BY <3>1, <4>2, <5>1 DEF Ids
      <4>3. CASE handle'[par[a]] # handle[par[a]]
        <5>1. Active(par[a]) /\ handle'[par[a]].ids = Ids(par[a])
          BY <1>3, <3>2, <3>3, <4>1, <4>3 DEF Advance
        <5>2. ~Terminal(par[a])
          BY <5>1 DEF Active, ActiveIn, Terminal
        <5>3. QED
          BY <3>1, <5>1, <5>2
      <4>4. QED
        BY <4>2, <4>3
    <3>6. QED
      BY <1>4, <3>1, <3>2, <3>3, <3>4, <3>5 DEF Proceeds
  <2>3. QED
    BY <1>5, <1>7, <1>11, <2>1, <2>2 DEF Delivering, State, Ids, Terminal, answerVars
<1>13. Cleared'
  <2>1. \A e \in Execs : TerminalIn(handle', e) => handle'[e].ids = {}
    BY <1>1, <1>2, <1>3, <1>4 DEF Cleared, Advance, State, Ids, Ended
  <2>2. \A a \in UnaryAnswers : task'[a] # "ended" => handle'[a].ids = {}
    <3>1. SUFFICES ASSUME NEW a \in UnaryAnswers, task'[a] # "ended"
                   PROVE  handle'[a].ids = {}
      OBVIOUS
    <3>2. a \in Execs /\ a \in Answers
      BY Kinds
    <3>3. task[a] # "ended" /\ Advance(a)
      BY <1>2, <3>1, <3>2 DEF Proceeds
    <3>4. Ids(a) = {}
      BY <1>1, <3>3 DEF Cleared
    <3>5. QED
      BY <3>3, <3>4 DEF Advance, Ids
  <2>3. QED
    BY <2>1, <2>2 DEF Cleared, Terminal, Ids
<1>14. GateGuards'
  <2>1. SUFFICES ASSUME gate', ~fenced', gate' = gate
                 PROVE  GateOf(handle')
    BY <1>2 DEF GateGuards, GateMoves
  <2>2. GateOf(handle)
    BY <1>1, <1>2, <2>1 DEF GateGuards, Surrounds
  <2>3. \A x \in Execs : ActiveIn(handle', x) =>
           handle'[x].ids = {} \/ (Active(x) /\ handle'[x].ids = Ids(x))
    BY <1>2, <1>3 DEF Advance, ActiveIn, TerminalIn, Active, Ids
  <2>4. QED
    BY <2>2, <2>3 DEF GateOf, Active, Ids
<1>15. (rec' = "QUIESCING" => fenced') /\ (sweep'.ph = "idle" => sweep'.set = {})
  BY <1>2 DEF GateMoves, Surrounds
<1>16. QED
  BY <1>6, <1>9, <1>10, <1>12, <1>13, <1>14, <1>15 DEF CoreInv

\* The ancestors depend on the parents only.
LEMMA SameAncestors ==
    ASSUME UNCHANGED par, NEW e
    PROVE  AncestorIn(e, Heartbeats)' = AncestorIn(e, Heartbeats)
BY DEF AncestorIn, Ancestors

LEMMA AdvancingRoot ==
    ASSUME CoreInv, RootInv, Advancing
    PROVE  RootInv'
<1>1. /\ TypeOK /\ Ordered /\ Tasks /\ Delivering /\ Cleared /\ RootAsks /\ PauseHasQuestion
      /\ Driven /\ handle \in Handles
  BY DEF CoreInv, RootInv, TypeOK, Handles
<1>2. /\ handle' \in Handles /\ task' \in [Execs -> TaskStates]
      /\ \A x \in Execs : Advance(x) /\ Proceeds(x)
      /\ Surrounds
  BY DEF Advancing
<1>3. UNCHANGED <<par, was>> /\ (fenced => fenced')
  BY <1>2 DEF Surrounds, answerVars
<1>4. \A x \in Execs : handle'[x].ids = {} \/ handle'[x].ids = Ids(x)
  BY <1>2 DEF Advance, Ids
<1>5. RootAsks'
  <2>1. ASSUME NEW e \in Execs, handle'[e].ids # {}
        PROVE  AncestorIn(e, Heartbeats)' \in {None, e}
    <3>1. AncestorIn(e, Heartbeats) \in {None, e}
      BY <1>1, <1>4, <2>1 DEF RootAsks
    <3>2. QED
      BY <1>3, <3>1, SameAncestors
  <2>2. QED
    BY <2>1 DEF RootAsks, Ids
<1>6. PauseHasQuestion'
  <2>1. \A e \in Execs : handle'[e].st = "waiting" => handle'[e].ids # {}
    BY <1>1, <1>2 DEF PauseHasQuestion, Advance, State, Ids, Ended
  <2>2. QED
    BY <2>1 DEF PauseHasQuestion, State, Ids
<1>7. InFlight' = InFlight
  BY <1>2, Kinds DEF InFlight, Proceeds
<1>8. Driven'
  <2>1. SUFFICES ASSUME ~fenced'
                 PROVE  /\ \A e \in Execs : handle'[e].st = "running" =>
                             Drives(e)' \/ Deliveries(e)' # {}
                        /\ \A a \in InFlight : ~was[a] /\ handle'[par[a]].st = "running"
                             => Drives(par[a])'
    BY <1>3, <1>7 DEF Driven, State, Drives, TaskLive
  <2>2. ~fenced
    BY <1>3, <2>1
  <2>3. ASSUME NEW e \in Execs, handle'[e].st = "running"
        PROVE  Drives(e)' \/ (State(e) = "running" /\ (Drives(e) => Drives(e)'))
    <3>1. Advance(e) /\ Proceeds(e)
      BY <1>2
    <3>2. CASE State(e) = "running"
      BY <2>3, <3>1, <3>2 DEF Proceeds
    <3>3. CASE State(e) # "running"
      <4>1. task'[e] = "running"
        BY <2>3, <3>1, <3>3 DEF Advance, Ended, State
      <4>2. QED
        BY <4>1 DEF Drives, TaskLive
    <3>4. QED
      BY <3>2, <3>3
  <2>4. ASSUME NEW e \in Execs, handle'[e].st = "running"
        PROVE  Drives(e)' \/ Deliveries(e)' # {}
    <3>1. Deliveries(e)' = Deliveries(e)
      BY <1>3, <1>7 DEF Deliveries
    <3>2. QED
      BY <1>1, <2>2, <2>3, <2>4, <3>1 DEF Driven
  <2>5. ASSUME NEW a \in InFlight, ~was[a], handle'[par[a]].st = "running"
        PROVE  Drives(par[a])'
    <3>1. PICK p \in Execs : p = par[a]
      <4>1. a \in Execs /\ a \in Answers /\ State(a) # "none"
        BY <1>1, Kinds DEF InFlight, Tasks
      <4>2. QED
        BY <1>1, <4>1 DEF Ordered, TypeOK
    <3>2. Drives(p)' \/ (State(p) = "running" /\ (Drives(p) => Drives(p)'))
      BY <2>3, <2>5, <3>1
    <3>3. State(p) = "running" => Drives(p)
      BY <1>1, <2>2, <2>5, <3>1 DEF Driven
    <3>4. Drives(p)'
      BY <3>2, <3>3
    <3>5. QED
      BY <1>3, <3>1, <3>4
  <2>6. QED
    BY <2>4, <2>5
<1>9. QED
  BY <1>5, <1>6, <1>8 DEF RootInv

\* The tasks tk, with the messages before the gate released or not.
Loosened(tk, x) == task'[x] = tk[x] \/ (tk[x] = "gated" /\ task'[x] = "released")

LEMMA RefreshFacts ==
    ASSUME CoreInv, NEW h, NEW tk \in [Execs -> TaskStates], Refresh(h, tk)
    PROVE  /\ task' \in [Execs -> TaskStates] /\ \A x \in Execs : Loosened(tk, x)
           /\ rec' \in {"READY", "ACTIVE", "QUIESCING"} /\ (rec' = "QUIESCING" => fenced)
           /\ gate' \in BOOLEAN
           /\ gate' = gate \/ gate' = GateOf(h)
<1>1. GateOf(h) \in BOOLEAN
  BY DEF GateOf
<1>2. CASE rec = "QUIESCING"
  BY <1>2 DEF CoreInv, TypeOK, Refresh, Loosened
<1>3. CASE rec # "QUIESCING"
  BY <1>1, <1>3 DEF CoreInv, TypeOK, Refresh, RefreshGate, Released, Loosened, TaskStates
<1>4. QED
  BY <1>2, <1>3

\* An execution whose own task does not move in a step.
LEMMA Bystander ==
    ASSUME CoreInv, NEW x \in Execs, Advance(x), Loosened(task, x), handle' \in Handles,
           x \in Answers /\ task[x] = "running" => handle'[x] = handle[x],
           reap[x].again => reap'[x].again,
           handle'[x].st = "running" /\ x \in sweep.set \ sweep.late
             => x \in sweep'.set \ sweep'.late \/ TaskLive(x)
    PROVE  Proceeds(x)
<1>1. Tasks /\ handle \in Handles
  BY DEF CoreInv, TypeOK, Handles
<1>2. TerminalIn(handle, x) => TerminalIn(handle', x)
  BY <1>1, StateFacts DEF Advance, Terminal, TerminalIn, Active, ActiveIn
<1>3. x \in Answers => task'[x] = task[x]
  BY <1>1 DEF Tasks, Loosened
<1>4. /\ task'[x] = "raised" => TerminalIn(handle', x) \/ reap'[x].again
      /\ task'[x] \in {"reaping", "joining"} => TerminalIn(handle', x)
  BY <1>1, <1>2 DEF Tasks, Loosened, Terminal
<1>5. x \in Heartbeats => task'[x] = task[x] /\ task[x] # "raised"
  BY <1>1 DEF Tasks, Loosened, Waits
<1>6. /\ task'[x] \in Waits => task[x] \in Waits
      /\ task'[x] = "none" <=> task[x] = "none"
  BY DEF Loosened, Waits
<1>7. handle'[x].st = "running" /\ Drives(x) => Drives(x)'
  BY DEF Loosened, Drives, TaskLive
<1>8. QED
  BY <1>3, <1>4, <1>5, <1>6, <1>7 DEF Proceeds

\* The marks, one handle at a time.
LEMMA MarkTerminalFacts ==
    ASSUME NEW h \in Handles, NEW e \in Execs, NEW st \in ExecStates
    PROVE  /\ MarkTerminal(h, e, st) \in Handles
           /\ \A x \in Execs \ {e} : MarkTerminal(h, e, st)[x] = h[x]
           /\ MarkTerminal(h, e, st)[e] =
                IF TerminalIn(h, e) THEN h[e] ELSE [st |-> st, ids |-> {}]
<1>1. CASE TerminalIn(h, e)
  BY <1>1 DEF MarkTerminal
<1>2. CASE ~TerminalIn(h, e)
  <2>1. MarkTerminal(h, e, st) = [h EXCEPT ![e] = [st |-> st, ids |-> {}]]
    BY <1>2 DEF MarkTerminal
  <2>2. PICK r \in [st : ExecStates, ids : SUBSET Questions] : r = [st |-> st, ids |-> {}]
    OBVIOUS
  <2>3. MarkTerminal(h, e, st) = [h EXCEPT ![e] = r]
    BY <2>1, <2>2
  <2>4. QED
    BY <1>2, <2>2, <2>3 DEF Handles
<1>3. QED
  BY <1>1, <1>2

LEMMA MarkWaitingFacts ==
    ASSUME NEW h \in Handles, NEW e \in Execs
    PROVE  /\ MarkWaiting(h, e) \in Handles
           /\ \A x \in Execs \ {e} : MarkWaiting(h, e)[x] = h[x]
           /\ MarkWaiting(h, e)[e] =
                IF TerminalIn(h, e) THEN h[e] ELSE [st |-> "waiting", ids |-> h[e].ids]
<1>1. CASE TerminalIn(h, e)
  BY <1>1 DEF MarkWaiting
<1>2. CASE ~TerminalIn(h, e)
  <2>1. PICK g : g = MarkWaiting(h, e)
    OBVIOUS
  <2>2. g = [h EXCEPT ![e].st = "waiting"]
    BY <1>2, <2>1 DEF MarkWaiting
  <2>3. g \in Handles
    BY <2>2 DEF Handles, ExecStates
  <2>4. \A x \in Execs \ {e} : g[x] = h[x]
    BY <2>2 DEF Handles
  <2>5. g[e] = [st |-> "waiting", ids |-> h[e].ids]
    BY <2>2 DEF Handles
  <2>6. QED
    BY <1>2, <2>1, <2>3, <2>4, <2>5
<1>3. QED
  BY <1>1, <1>2

LEMMA MarkAwaitingFacts ==
    ASSUME NEW h \in Handles, NEW e \in Execs, NEW Q \in SUBSET Questions
    PROVE  /\ MarkAwaiting(h, e, Q) \in Handles
           /\ \A x \in Execs \ {e} : MarkAwaiting(h, e, Q)[x] = h[x]
           /\ MarkAwaiting(h, e, Q)[e] =
                IF TerminalIn(h, e) THEN h[e] ELSE [st |-> h[e].st, ids |-> h[e].ids \cup Q]
<1>1. CASE TerminalIn(h, e)
  BY <1>1 DEF MarkAwaiting
<1>2. CASE ~TerminalIn(h, e)
  <2>0. PICK I \in SUBSET Questions : I = h[e].ids \cup Q
    BY DEF Handles
  <2>1. PICK g : g = MarkAwaiting(h, e, Q)
    OBVIOUS
  <2>2. g = [h EXCEPT ![e].ids = I]
    BY <1>2, <2>0, <2>1 DEF MarkAwaiting, Handles
  <2>3. g \in Handles
    BY <2>2 DEF Handles
  <2>4. \A x \in Execs \ {e} : g[x] = h[x]
    BY <2>2 DEF Handles
  <2>5. g[e].st = h[e].st /\ g[e].ids = I /\ g[e] \in [st : ExecStates, ids : SUBSET Questions]
    BY <2>2 DEF Handles
  <2>6. QED
    BY <1>2, <2>0, <2>1, <2>3, <2>4, <2>5
<1>3. QED
  BY <1>1, <1>2

Without(h, e, D) == [h EXCEPT ![e].ids = @ \ D]

LEMMA WithoutFacts ==
    ASSUME NEW h \in Handles, NEW e \in Execs, NEW D
    PROVE  /\ Without(h, e, D) \in Handles
           /\ \A x \in Execs \ {e} : Without(h, e, D)[x] = h[x]
           /\ Without(h, e, D)[e] = [st |-> h[e].st, ids |-> h[e].ids \ D]
<1>0. PICK g : g = Without(h, e, D)
  OBVIOUS
<1>1. PICK I \in SUBSET Questions : I = h[e].ids \ D
  BY DEF Handles
<1>2. g = [h EXCEPT ![e].ids = I]
  BY <1>0, <1>1 DEF Handles, Without
<1>3. g \in Handles
  BY <1>2 DEF Handles
<1>4. \A x \in Execs \ {e} : g[x] = h[x]
  BY <1>2 DEF Handles
<1>5. g[e].st = h[e].st /\ g[e].ids = I /\ g[e] \in [st : ExecStates, ids : SUBSET Questions]
  BY <1>2 DEF Handles
<1>6. QED
  BY <1>0, <1>1, <1>3, <1>4, <1>5

LEMMA MarkAllFacts ==
    ASSUME NEW h \in Handles, NEW S
    PROVE  /\ MarkAllCancelled(h, S) \in Handles
           /\ \A x \in Execs : MarkAllCancelled(h, S)[x] =
                IF x \in S /\ ActiveIn(h, x) THEN [st |-> "cancelled", ids |-> {}] ELSE h[x]
           /\ GateOf(h) => GateOf(MarkAllCancelled(h, S))
<1>1. /\ MarkAllCancelled(h, S) \in Handles
      /\ \A x \in Execs : MarkAllCancelled(h, S)[x] =
           IF x \in S /\ ActiveIn(h, x) THEN [st |-> "cancelled", ids |-> {}] ELSE h[x]
  BY DEF Handles, MarkAllCancelled, ExecStates
<1>2. QED
  BY <1>1 DEF GateOf, ActiveIn, TerminalIn

LEMMA MessageStepAdvances ==
    ASSUME CoreInv, NEW e \in Execs, MessageStep(e)
    PROVE  Advancing
<1>1. TypeOK /\ Tasks /\ handle \in Handles
  BY DEF CoreInv, TypeOK, Handles
<1>2. /\ UNCHANGED <<handle, cancelReq, par, order, rec, gate, answerVars,
                     reap, expired, asked, sweep, fenced, faults>>
      /\ e \in Messages /\ task[e] \in Waits
      /\ task' \in [Execs -> TaskStates] /\ \A x \in Execs \ {e} : task'[x] = task[x]
      /\ task'[e] \in {"ended", "gated", "queued"}
      /\ cancelling' = cancelling \ {e}
  BY <1>1 DEF MessageStep, Waits, TypeOK, TaskStates
<1>3. \A x \in Execs : Advance(x)
  BY <1>2 DEF Advance
<1>4. \A x \in Execs \ {e} : Proceeds(x)
  BY <1>1, <1>2, <1>3, Bystander DEF Loosened
<1>5. Proceeds(e)
  <2>1. State(e) # "running"
    BY <1>1, <1>2 DEF Tasks, Terminal, TerminalIn, State
  <2>2. e \notin Answers /\ e \notin Heartbeats
    BY <1>2, Kinds
  <2>3. QED
    BY <1>2, <2>1, <2>2 DEF Proceeds, Waits, State
<1>6. Surrounds /\ GateMoves
  BY <1>1, <1>2 DEF CoreInv, TypeOK, Surrounds, GateMoves
<1>7. \A h \in expired : Active(h) => handle'[h].st # "cancelled"
  BY <1>2 DEF Active, ActiveIn, TerminalIn
<1>8. QED
  BY <1>1, <1>2, <1>3, <1>4, <1>5, <1>6, <1>7 DEF Advancing

LEMMA StartOpAdvances ==
    ASSUME CoreInv, NEW e \in Execs, StartOp(e)
    PROVE  Advancing
<1>1. TypeOK /\ Tasks /\ handle \in Handles
  BY DEF CoreInv, TypeOK, Handles
<1>2. /\ UNCHANGED <<cancelReq, par, order, gate, answerVars, reap, expired, asked, sweep,
                     fenced, faults>>
      /\ task[e] = "queued" /\ cancelling' = cancelling \ {e}
  BY DEF StartOp
<1>3. e \notin Answers /\ e \notin Heartbeats /\ (State(e) = "queued" \/ Terminal(e))
  BY <1>1, <1>2 DEF Tasks, Waits
<1>4. CASE e \in cancelling
  <2>1. task' = [task EXCEPT ![e] = "ended"] /\ UNCHANGED <<handle, rec>>
    BY <1>4 DEF StartOp
  <2>2. task' \in [Execs -> TaskStates] /\ task'[e] = "ended" /\ \A x \in Execs \ {e} : task'[x] = task[x]
    BY <1>1, <2>1 DEF TypeOK, TaskStates
  <2>3. \A x \in Execs : Advance(x)
    BY <2>1 DEF Advance
  <2>4. \A x \in Execs \ {e} : Proceeds(x)
    BY <1>1, <1>2, <2>1, <2>2, <2>3, Bystander DEF Loosened
  <2>5. State(e) # "running"
    BY <1>3 DEF Terminal, TerminalIn, State
  <2>6. Proceeds(e)
    BY <1>2, <1>3, <2>1, <2>2, <2>5 DEF Proceeds, Waits, State
  <2>7. Surrounds /\ GateMoves
    BY <1>1, <1>2, <2>1 DEF CoreInv, TypeOK, Surrounds, GateMoves
  <2>8. \A h \in expired : Active(h) => handle'[h].st # "cancelled"
    BY <2>1 DEF Active, ActiveIn, TerminalIn
  <2>9. QED
    BY <1>1, <2>1, <2>2, <2>3, <2>4, <2>6, <2>7, <2>8 DEF Advancing
<1>5. CASE e \notin cancelling
  <2>1. /\ task' = [task EXCEPT ![e] = "running"] /\ rec' = "ACTIVE"
        /\ handle' = [handle EXCEPT ![e].st = IF @ = "queued" THEN "running" ELSE @]
    BY <1>5 DEF StartOp
  <2>2. task' \in [Execs -> TaskStates] /\ task'[e] = "running" /\ \A x \in Execs \ {e} : task'[x] = task[x]
    BY <1>1, <2>1 DEF TypeOK, TaskStates
  <2>3. /\ handle' \in Handles /\ \A x \in Execs \ {e} : handle'[x] = handle[x]
        /\ handle'[e].ids = Ids(e)
        /\ State(e) = "queued" => handle'[e].st = "running"
        /\ State(e) # "queued" => handle'[e] = handle[e]
    BY <1>1, <2>1 DEF Handles, ExecStates, State, Ids
  <2>4. \A x \in Execs : Advance(x)
    BY <2>2, <2>3 DEF Advance
  <2>5. \A x \in Execs \ {e} : Proceeds(x)
    BY <1>1, <1>2, <2>2, <2>3, <2>4, Bystander DEF Loosened
  <2>6. Proceeds(e)
    BY <1>2, <1>3, <2>2 DEF Proceeds, Waits, Drives, TaskLive
  <2>7. Surrounds /\ GateMoves
    BY <1>1, <1>2, <2>1 DEF CoreInv, TypeOK, Surrounds, GateMoves
  <2>8. \A h \in expired : Active(h) => handle'[h].st # "cancelled"
    <3>1. \A h \in expired : h \in Execs /\ h # e
      BY <1>1, <1>3, Kinds DEF TypeOK
    <3>2. QED
      BY <2>3, <3>1 DEF Active, ActiveIn, TerminalIn
  <2>9. QED
    BY <2>2, <2>3, <2>4, <2>5, <2>6, <2>7, <2>8 DEF Advancing
<1>6. QED
  BY <1>4, <1>5

\* What an operation that returned leaves: a pause for its questions, or success.
LEMMA PauseOrSucceedFacts ==
    ASSUME NEW h \in Handles, NEW e \in Execs
    PROVE  /\ PauseOrSucceed(h, e) \in Handles
           /\ \A x \in Execs \ {e} : PauseOrSucceed(h, e)[x] = h[x]
           /\ PauseOrSucceed(h, e)[e] =
                IF TerminalIn(h, e) THEN h[e]
                ELSE IF h[e].ids # {} THEN [st |-> "waiting", ids |-> h[e].ids]
                ELSE [st |-> "succeeded", ids |-> {}]
<1>1. "succeeded" \in ExecStates
  BY DEF ExecStates
<1>2. CASE h[e].ids # {}
  BY <1>2, MarkWaitingFacts DEF PauseOrSucceed
<1>3. CASE h[e].ids = {}
  BY <1>1, <1>3, MarkTerminalFacts DEF PauseOrSucceed
<1>4. QED
  BY <1>2, <1>3

LEMMA EndOpAdvances ==
    ASSUME CoreInv, NEW e \in Execs, NEW how \in Ends, EndOp(e, how)
    PROVE  Advancing
<1>1. TypeOK /\ Tasks /\ Cleared /\ handle \in Handles
  BY DEF CoreInv, TypeOK, Handles
<1>2. /\ UNCHANGED <<cancelReq, par, order, answerVars, expired, asked, sweep, fenced, faults>>
      /\ e \in Roots \ Heartbeats /\ task[e] = "running"
      /\ cancelling' = cancelling \ {e} /\ reap' = [reap EXCEPT ![e].again = how = "cancelled"]
  BY DEF EndOp
<1>3. e \notin Answers
  BY <1>2, Kinds
<1> DEFINE tk == [task EXCEPT ![e] = IF e \in Messages /\ how # "returned" THEN "raised" ELSE "ended"]
<1>4. /\ tk \in [Execs -> TaskStates] /\ \A x \in Execs \ {e} : tk[x] = task[x]
      /\ tk[e] = "ended" \/ (tk[e] = "raised" /\ how # "returned")
  BY <1>1 DEF TypeOK, TaskStates
<1>5. Refresh(handle', tk)
  BY DEF EndOp
<1> HIDE DEF tk
<1>6. /\ task' \in [Execs -> TaskStates] /\ \A x \in Execs : Loosened(tk, x)
      /\ rec' \in {"READY", "ACTIVE", "QUIESCING"} /\ (rec' = "QUIESCING" => fenced)
      /\ gate' \in BOOLEAN
      /\ gate' = gate \/ gate' = GateOf(handle')
  BY <1>4, <1>5, RefreshFacts
<1>7. /\ \A x \in Execs \ {e} : Loosened(task, x)
      /\ task'[e] = "ended" \/ (task'[e] = "raised" /\ how # "returned")
  BY <1>4, <1>6 DEF Loosened
<1>8. /\ handle' \in Handles /\ \A x \in Execs \ {e} : handle'[x] = handle[x]
      /\ \/ TerminalIn(handle, e) /\ handle'[e] = handle[e]
         \/ ~TerminalIn(handle, e) /\ handle'[e].st \in {"failed", "cancelled"} /\ handle'[e].ids = {}
         \/ /\ ~TerminalIn(handle, e) /\ how = "returned" /\ Ids(e) = {}
            /\ handle'[e].st = "succeeded" /\ handle'[e].ids = {}
         \/ /\ ~TerminalIn(handle, e) /\ how = "returned" /\ Ids(e) # {}
            /\ handle'[e].st = "waiting" /\ handle'[e].ids = Ids(e)
  <2>1. CASE how = "returned"
    <3>1. handle' = PauseOrSucceed(handle, e)
      BY <2>1 DEF EndOp
    <3>2. /\ handle' \in Handles /\ \A x \in Execs \ {e} : handle'[x] = handle[x]
          /\ handle'[e] = IF TerminalIn(handle, e) THEN handle[e]
                          ELSE IF handle[e].ids # {} THEN [st |-> "waiting", ids |-> handle[e].ids]
                          ELSE [st |-> "succeeded", ids |-> {}]
      BY <1>1, <3>1, PauseOrSucceedFacts
    <3>3. QED
      BY <2>1, <3>2 DEF Ids
  <2>2. CASE how \in {"raised", "cancelled"}
    <3>1. PICK st \in {"failed", "cancelled"} : handle' = MarkTerminal(handle, e, st)
      <4>1. CASE how = "raised"
        BY <4>1 DEF EndOp
      <4>2. CASE how = "cancelled"
        BY <4>2 DEF EndOp
      <4>3. QED
        BY <2>2, <4>1, <4>2
    <3>2. st \in ExecStates
      BY DEF ExecStates
    <3>3. /\ handle' \in Handles /\ \A x \in Execs \ {e} : handle'[x] = handle[x]
          /\ handle'[e] = IF TerminalIn(handle, e) THEN handle[e] ELSE [st |-> st, ids |-> {}]
      BY <1>1, <3>1, <3>2, MarkTerminalFacts
    <3>4. QED
      BY <3>3
  <2>3. QED
    BY <2>1, <2>2 DEF Ends
<1>9. Active(e) \/ TerminalIn(handle, e)
  <2>1. State(e) # "none"
    BY <1>1, <1>2 DEF Tasks
  <2>2. QED
    BY <2>1 DEF Active, ActiveIn, State
<1>10. Advance(e)
  <2>1. how = "returned" => task'[e] = "ended"
    BY <1>7
  <2>2. QED
    BY <1>2, <1>8, <1>9, <2>1 DEF Advance, Ended
<1>11. \A x \in Execs : Advance(x)
  BY <1>8, <1>10 DEF Advance
<1>12. \A x \in Execs \ {e} : Proceeds(x)
  <2>1. \A x \in Execs \ {e} : reap'[x] = reap[x]
    BY <1>1, <1>2 DEF TypeOK
  <2>2. QED
    BY <1>2, <1>7, <1>8, <1>11, <2>1, Bystander
<1>13. Proceeds(e)
  <2>1. handle'[e].st # "running"
    BY <1>8 DEF TerminalIn
  <2>2. task'[e] = "raised" => TerminalIn(handle', e)
    BY <1>7, <1>8 DEF TerminalIn
  <2>3. QED
    BY <1>2, <1>3, <1>7, <2>1, <2>2 DEF Proceeds, Waits
<1>14. Surrounds
  <2>1. reap' \in [Execs -> [set : SUBSET Execs, again : BOOLEAN]]
    <3>1. PICK b \in BOOLEAN : b = (how = "cancelled")
      OBVIOUS
    <3>2. reap' = [reap EXCEPT ![e].again = b]
      BY <1>2, <3>1
    <3>3. QED
      BY <1>1, <3>2 DEF TypeOK
  <2>2. QED
    BY <1>1, <1>2, <2>1 DEF CoreInv, TypeOK, Surrounds
<1>15. GateMoves
  BY <1>2, <1>6 DEF GateMoves
<1>16. \A h \in expired : Active(h) => handle'[h].st # "cancelled"
  <2>1. \A h \in expired : h \in Execs /\ h # e
    BY <1>1, <1>2, Kinds DEF TypeOK
  <2>2. QED
    BY <1>8, <2>1 DEF Active, ActiveIn, TerminalIn
<1>17. QED
  BY <1>6, <1>8, <1>11, <1>12, <1>13, <1>14, <1>15, <1>16 DEF Advancing

\* The end of _run_unary with an error, its own handle having ended.
LEMMA RaiseAdvances ==
    ASSUME CoreInv, NEW e \in Execs, NEW h \in Handles, NEW tracked, NEW again \in BOOLEAN,
           e \notin Answers, task[e] \notin {"none", "ended"},
           \A x \in Execs \ {e} : h[x] = handle[x],
           \/ h[e] = handle[e]
           \/ Active(e) /\ h[e].st \in {"failed", "cancelled"} /\ h[e].ids = {},
           TerminalIn(h, e),
           e \in expired /\ Active(e) => h[e].st # "cancelled",
           Raise(e, h, tracked, again),
           UNCHANGED <<par, order, answerVars, expired, asked, sweep, fenced, faults>>
    PROVE  Advancing
<1>1. TypeOK /\ Tasks /\ Ordered /\ Cleared /\ handle \in Handles
  BY DEF CoreInv, TypeOK, Handles
<1> DEFINE below == WithDescendants({e}) \ {e}
           live == {x \in below : TaskLive(x)}
           swept == MarkAllCancelled(h, below)
           next == [task EXCEPT ![e] = IF live = {} THEN "ended" ELSE "reaping"]
<1>2. below \subseteq Execs /\ e \notin below /\ \A x \in below : par[x] # None
  BY DescendantsFacts
<1>3. below \cap Heartbeats = {}
  BY <1>1, <1>2, Kinds DEF Ordered
<1>4. /\ handle' = IF live = {} THEN swept ELSE h
      /\ \/ Refresh(handle', next)
         \/ Refresh(h, next)
         \/ task' = next /\ UNCHANGED <<rec, gate>>
      /\ reap' = [reap EXCEPT ![e] = [set |-> below, again |-> again]]
      /\ cancelReq' = [x \in Execs |-> cancelReq[x] \/ x \in below \/ (x = e /\ again)]
      /\ cancelling' = (cancelling \ {e}) \cup {x \in live : ~cancelReq[x]}
  BY DEF Raise
<1>5. \A x \in below : live = {} => task[x] \in {"none", "ended"}
  BY DEF TaskLive
<1>6. /\ next \in [Execs -> TaskStates] /\ next[e] \in {"ended", "reaping"}
      /\ \A x \in Execs \ {e} : next[x] = task[x]
  BY <1>1 DEF TypeOK, TaskStates
<1>7. live \subseteq Execs
  BY <1>2
<1> HIDE DEF next, below, live
<1>8. /\ swept \in Handles
      /\ \A x \in Execs : swept[x] =
           IF x \in below /\ ActiveIn(h, x) THEN [st |-> "cancelled", ids |-> {}] ELSE h[x]
      /\ GateOf(h) => GateOf(swept)
  BY MarkAllFacts
<1> HIDE DEF swept
<1>9. /\ handle' \in Handles /\ handle'[e] = h[e]
      /\ \A x \in Execs \ {e} :
           \/ handle'[x] = handle[x]
           \/ /\ x \in below /\ live = {} /\ Active(x)
              /\ handle'[x].st = "cancelled" /\ handle'[x].ids = {}
      /\ GateOf(h) => GateOf(handle')
  <2>1. CASE live = {}
    BY <1>2, <1>4, <1>8, <2>1 DEF Active, ActiveIn, TerminalIn
  <2>2. CASE live # {}
    BY <1>4, <2>2
  <2>3. QED
    BY <2>1, <2>2
<1>10. /\ task' \in [Execs -> TaskStates] /\ \A x \in Execs : Loosened(next, x)
       /\ rec' \in {"READY", "ACTIVE", "QUIESCING"} /\ (rec' = "QUIESCING" => fenced)
       /\ gate' \in BOOLEAN
       /\ gate' = gate \/ gate' = GateOf(handle') \/ gate' = GateOf(h)
  <2>1. CASE Refresh(handle', next)
    BY <1>6, <2>1, RefreshFacts
  <2>2. CASE Refresh(h, next)
    BY <1>6, <2>2, RefreshFacts
  <2>3. CASE task' = next /\ UNCHANGED <<rec, gate>>
    BY <1>1, <1>6, <2>3 DEF Loosened, CoreInv, TypeOK
  <2>4. QED
    BY <1>4, <2>1, <2>2, <2>3
<1>11. GateMoves
  BY <1>9, <1>10 DEF GateMoves
<1>12. /\ \A x \in Execs \ {e} : Loosened(task, x)
       /\ task'[e] \in {"ended", "reaping"}
  BY <1>6, <1>10 DEF Loosened
<1>13. \A x \in Execs \ {e} : Advance(x)
  <2>1. SUFFICES ASSUME NEW x \in Execs \ {e} PROVE Advance(x)
    OBVIOUS
  <2>2. \/ handle'[x] = handle[x]
        \/ Active(x) /\ handle'[x].st = "cancelled" /\ handle'[x].ids = {}
    BY <1>9
  <2>3. QED
    BY <2>2 DEF Advance, Ended
<1>14. Advance(e)
  BY <1>9 DEF Advance, Ended
<1>15. \A x \in Execs \ {e} : Proceeds(x)
  <2>1. SUFFICES ASSUME NEW x \in Execs \ {e} PROVE Proceeds(x)
    OBVIOUS
  <2>2. reap'[x] = reap[x]
    BY <1>1, <1>4 DEF TypeOK
  <2>3. x \in Answers /\ task[x] = "running" => handle'[x] = handle[x]
    BY <1>5, <1>9
  <2>4. QED
    BY <1>9, <1>12, <1>13, <2>2, <2>3, Bystander
<1>16. Proceeds(e)
  <2>1. TerminalIn(handle', e)
    BY <1>9 DEF TerminalIn
  <2>2. handle'[e].st # "running"
    BY <2>1 DEF TerminalIn
  <2>3. QED
    BY <1>12, <2>1, <2>2 DEF Proceeds, Waits
<1>17. Surrounds
  <2>1. reap' \in [Execs -> [set : SUBSET Execs, again : BOOLEAN]]
    BY <1>1, <1>2, <1>4 DEF TypeOK
  <2>2. cancelReq' \in [Execs -> BOOLEAN]
    BY <1>4
  <2>3. cancelling' \subseteq Execs
    BY <1>1, <1>4, <1>7 DEF TypeOK
  <2>4. QED
    BY <1>1, <2>1, <2>2, <2>3 DEF CoreInv, TypeOK, Surrounds
<1>18. \A x \in expired : Active(x) => handle'[x].st # "cancelled"
  <2>1. SUFFICES ASSUME NEW x \in expired, Active(x) PROVE handle'[x].st # "cancelled"
    OBVIOUS
  <2>2. x \in Heartbeats /\ x \in Execs
    BY <1>1, Kinds DEF TypeOK
  <2>3. CASE x = e
    BY <1>9, <2>1, <2>3
  <2>4. CASE x # e
    <3>1. handle'[x] = handle[x]
      BY <1>3, <1>9, <2>2, <2>4
    <3>2. QED
      BY <2>1, <3>1 DEF Active, ActiveIn, TerminalIn
  <2>5. QED
    BY <2>3, <2>4
<1>19. QED
  BY <1>9, <1>10, <1>11, <1>13, <1>14, <1>15, <1>16, <1>17, <1>18 DEF Advancing

LEMMA MessageRaisesAdvances ==
    ASSUME CoreInv, NEW e \in Execs, MessageRaises(e)
    PROVE  Advancing
<1>1. TypeOK /\ Tasks /\ handle \in Handles
  BY DEF CoreInv, TypeOK, Handles
<1>2. /\ e \in Messages /\ task[e] = "raised"
      /\ UNCHANGED <<par, order, answerVars, expired, asked, sweep, fenced, faults>>
  BY DEF MessageRaises
<1>3. e \notin Answers /\ e \notin Heartbeats /\ e \in Roots
  BY <1>2, Kinds
<1>4. e \notin expired
  BY <1>1, <1>3 DEF TypeOK
<1> DEFINE h == IF reap[e].again THEN MarkTerminal(handle, e, "cancelled") ELSE handle
<1>5. Raise(e, h, FALSE, reap[e].again)
  BY DEF MessageRaises
<1>6. "cancelled" \in ExecStates
  BY DEF ExecStates
<1>7. Active(e) \/ Terminal(e)
  BY <1>1, <1>2, <1>3 DEF Tasks, Active, ActiveIn, Terminal, State
<1>8. /\ h \in Handles /\ \A x \in Execs \ {e} : h[x] = handle[x]
      /\ TerminalIn(h, e)
      /\ \/ h[e] = handle[e]
         \/ Active(e) /\ h[e].st \in {"failed", "cancelled"} /\ h[e].ids = {}
  <2>1. CASE reap[e].again
    <3>1. h = MarkTerminal(handle, e, "cancelled")
      BY <2>1
    <3> HIDE DEF h
    <3>2. /\ h \in Handles /\ \A x \in Execs \ {e} : h[x] = handle[x]
          /\ h[e] = IF TerminalIn(handle, e) THEN handle[e] ELSE [st |-> "cancelled", ids |-> {}]
      BY <1>1, <1>6, <3>1, MarkTerminalFacts
    <3>3. QED
      BY <1>7, <3>2 DEF TerminalIn, Terminal
  <2>2. CASE ~reap[e].again
    <3>1. h = handle
      BY <2>2
    <3>2. Terminal(e)
      BY <1>1, <1>2, <2>2 DEF Tasks
    <3>3. QED
      BY <1>1, <3>1, <3>2 DEF Terminal
  <2>3. QED
    BY <2>1, <2>2
<1>9. reap[e].again \in BOOLEAN
  BY <1>1 DEF TypeOK
<1> HIDE DEF h
<1>10. QED
  BY <1>2, <1>3, <1>4, <1>5, <1>8, <1>9, RaiseAdvances

\* What a CancelledError or an error makes of a Heartbeat.
LEMMA HeartbeatEnds ==
    ASSUME CoreInv, NEW e \in Heartbeats, TaskLive(e), NEW st \in {"failed", "cancelled"},
           e \in expired => st = "failed"
    PROVE  /\ e \in Execs /\ e \notin Answers
           /\ MarkTerminal(handle, e, st) \in Handles
           /\ \A x \in Execs \ {e} : MarkTerminal(handle, e, st)[x] = handle[x]
           /\ TerminalIn(MarkTerminal(handle, e, st), e)
           /\ \/ MarkTerminal(handle, e, st)[e] = handle[e]
              \/ /\ Active(e) /\ MarkTerminal(handle, e, st)[e].st \in {"failed", "cancelled"}
                 /\ MarkTerminal(handle, e, st)[e].ids = {}
           /\ e \in expired /\ Active(e) => MarkTerminal(handle, e, st)[e].st # "cancelled"
<1>1. Tasks /\ handle \in Handles
  BY DEF CoreInv, TypeOK, Handles
<1>2. e \in Execs /\ e \notin Answers /\ e \in Roots
  BY Kinds
<1>3. Active(e) \/ Terminal(e)
  BY <1>1, <1>2 DEF Tasks, Active, ActiveIn, Terminal, State, TaskLive
<1> DEFINE h == MarkTerminal(handle, e, st)
<1>4. st \in ExecStates
  BY DEF ExecStates
<1>5. /\ h \in Handles /\ \A x \in Execs \ {e} : h[x] = handle[x]
      /\ h[e] = IF TerminalIn(handle, e) THEN handle[e] ELSE [st |-> st, ids |-> {}]
  BY <1>1, <1>2, <1>4, MarkTerminalFacts
<1> HIDE DEF h
<1>6. /\ TerminalIn(h, e)
      /\ h[e] = handle[e] \/ (Active(e) /\ h[e].st \in {"failed", "cancelled"} /\ h[e].ids = {})
      /\ e \in expired /\ Active(e) => h[e].st # "cancelled"
  <2>1. CASE Terminal(e)
    BY <1>5, <2>1 DEF Terminal, TerminalIn, Active, ActiveIn
  <2>2. CASE ~Terminal(e)
    <3>1. h[e] = [st |-> st, ids |-> {}] /\ Active(e)
      BY <1>3, <1>5, <2>2 DEF Terminal
    <3>2. QED
      BY <3>1 DEF TerminalIn
  <2>3. QED
    BY <2>1, <2>2
<1>7. QED
  BY <1>2, <1>5, <1>6 DEF h

LEMMA EndHeartbeatAdvances ==
    ASSUME CoreInv, NEW e \in Execs, NEW how \in Ends, EndHeartbeat(e, how)
    PROVE  Advancing
<1>1. TypeOK /\ Tasks /\ Cleared /\ handle \in Handles
  BY DEF CoreInv, TypeOK, Handles
<1>2. /\ e \in Heartbeats /\ task[e] = "running"
      /\ UNCHANGED <<par, order, answerVars, expired, asked, sweep, fenced, faults>>
  BY DEF EndHeartbeat
<1>3. e \notin Answers /\ e \in Roots
  BY <1>2, Kinds
<1>4. CASE how = "returned" /\ e \notin expired
  <2> DEFINE tk == [task EXCEPT ![e] = IF TerminalIn(handle', e) THEN "ended" ELSE "parked"]
  <2>1. /\ handle' = PauseOrSucceed(handle, e) /\ Refresh(handle', tk)
        /\ UNCHANGED <<cancelReq, cancelling, reap>>
    BY <1>4 DEF EndHeartbeat
  <2>2. /\ tk \in [Execs -> TaskStates] /\ \A x \in Execs \ {e} : tk[x] = task[x]
        /\ tk[e] = IF TerminalIn(handle', e) THEN "ended" ELSE "parked"
    BY <1>1 DEF TypeOK, TaskStates
  <2> HIDE DEF tk
  <2>3. /\ task' \in [Execs -> TaskStates] /\ \A x \in Execs : Loosened(tk, x)
        /\ rec' \in {"READY", "ACTIVE", "QUIESCING"} /\ (rec' = "QUIESCING" => fenced)
        /\ gate' \in BOOLEAN
        /\ gate' = gate \/ gate' = GateOf(handle')
    BY <2>1, <2>2, RefreshFacts
  <2>4. /\ \A x \in Execs \ {e} : Loosened(task, x)
        /\ task'[e] = IF TerminalIn(handle', e) THEN "ended" ELSE "parked"
    BY <2>2, <2>3 DEF Loosened
  <2>5. /\ handle' \in Handles /\ \A x \in Execs \ {e} : handle'[x] = handle[x]
        /\ handle'[e] = IF TerminalIn(handle, e) THEN handle[e]
                        ELSE IF handle[e].ids # {} THEN [st |-> "waiting", ids |-> handle[e].ids]
                        ELSE [st |-> "succeeded", ids |-> {}]
    BY <1>1, <2>1, PauseOrSucceedFacts
  <2>6. \/ handle'[e] = handle[e] /\ TerminalIn(handle', e)
        \/ /\ Active(e) /\ Ids(e) = {} /\ handle'[e].st = "succeeded" /\ handle'[e].ids = {}
        \/ /\ Active(e) /\ Ids(e) # {} /\ handle'[e].st = "waiting" /\ handle'[e].ids = Ids(e)
           /\ ~TerminalIn(handle', e)
    <3>1. Active(e) \/ TerminalIn(handle, e)
      BY <1>1, <1>2, <1>3 DEF Tasks, Active, ActiveIn, State
    <3>2. QED
      BY <2>5, <3>1 DEF TerminalIn, Ids
  <2>7. Advance(e)
    BY <1>2, <2>4, <2>6 DEF Advance, Ended
  <2>8. \A x \in Execs : Advance(x)
    BY <2>5, <2>7 DEF Advance
  <2>9. \A x \in Execs \ {e} : Proceeds(x)
    BY <1>2, <2>1, <2>4, <2>5, <2>8, Bystander
  <2>10. Proceeds(e)
    <3>1. handle'[e].st # "running"
      BY <2>6 DEF TerminalIn
    <3>2. QED
      BY <1>2, <1>3, <2>4, <3>1 DEF Proceeds, Waits
  <2>11. Surrounds /\ GateMoves
    BY <1>1, <1>2, <2>1, <2>3 DEF CoreInv, TypeOK, Surrounds, GateMoves
  <2>12. \A x \in expired : Active(x) => handle'[x].st # "cancelled"
    <3>1. \A x \in expired : x \in Execs /\ x # e
      BY <1>1, <1>4, Kinds DEF TypeOK
    <3>2. QED
      BY <2>5, <3>1 DEF Active, ActiveIn, TerminalIn
  <2>13. QED
    BY <2>3, <2>5, <2>8, <2>9, <2>10, <2>11, <2>12 DEF Advancing
<1>5. CASE ~(how = "returned" /\ e \notin expired)
  <2>1. PICK st \in {"failed", "cancelled"}, again \in BOOLEAN :
          /\ e \in expired => st = "failed"
          /\ Raise(e, MarkTerminal(handle, e, st), TRUE, again)
    <3>1. PICK again \in BOOLEAN : again = (how = "cancelled")
      OBVIOUS
    <3>2. Raise(e, MarkTerminal(handle, e, IF how = "cancelled" THEN CancelOutcome(e)
                                           ELSE "failed"), TRUE, again)
      BY <1>5, <3>1 DEF EndHeartbeat
    <3>3. PICK st \in {"failed", "cancelled"} :
            /\ st = IF how = "cancelled" THEN CancelOutcome(e) ELSE "failed"
            /\ e \in expired => st = "failed"
      BY DEF CancelOutcome
    <3>4. Raise(e, MarkTerminal(handle, e, st), TRUE, again)
      BY <3>2, <3>3
    <3>5. QED
      BY <3>3, <3>4
  <2>2. TaskLive(e)
    BY <1>2 DEF TaskLive
  <2> DEFINE h == MarkTerminal(handle, e, st)
  <2>3. /\ h \in Handles /\ \A x \in Execs \ {e} : h[x] = handle[x]
        /\ TerminalIn(h, e)
        /\ h[e] = handle[e] \/ (Active(e) /\ h[e].st \in {"failed", "cancelled"} /\ h[e].ids = {})
        /\ e \in expired /\ Active(e) => h[e].st # "cancelled"
    BY <1>2, <2>1, <2>2, HeartbeatEnds
  <2>4. Raise(e, h, TRUE, again)
    BY <2>1
  <2> HIDE DEF h
  <2>5. QED
    BY <1>2, <1>3, <2>2, <2>3, <2>4, RaiseAdvances DEF TaskLive
<1>6. QED
  BY <1>4, <1>5

LEMMA HeartbeatWakesAdvances ==
    ASSUME CoreInv, NEW e \in Execs, HeartbeatWakes(e)
    PROVE  Advancing
<1>1. TypeOK /\ Tasks /\ Cleared /\ handle \in Handles
  BY DEF CoreInv, TypeOK, Handles
<1>2. /\ e \in Heartbeats /\ task[e] = "parked"
      /\ UNCHANGED <<par, order, answerVars, expired, asked, sweep, fenced, faults>>
  BY DEF HeartbeatWakes
<1>3. e \notin Answers /\ e \in Roots
  BY <1>2, Kinds
<1>4. CASE e \notin cancelling /\ State(e) = "succeeded"
  <2>1. /\ task' = [task EXCEPT ![e] = "ended"]
        /\ UNCHANGED <<handle, cancelReq, cancelling, rec, gate, reap>>
    BY <1>4 DEF HeartbeatWakes
  <2>2. task' \in [Execs -> TaskStates] /\ task'[e] = "ended" /\ \A x \in Execs \ {e} : task'[x] = task[x]
    BY <1>1, <2>1 DEF TypeOK, TaskStates
  <2>3. \A x \in Execs : Advance(x)
    BY <2>1 DEF Advance
  <2>4. \A x \in Execs \ {e} : Proceeds(x)
    BY <1>1, <1>2, <2>1, <2>2, <2>3, Bystander DEF Loosened
  <2>5. Proceeds(e)
    <3>1. TerminalIn(handle', e) /\ handle'[e].st # "running"
      BY <1>4, <2>1 DEF TerminalIn, State
    <3>2. QED
      BY <1>2, <1>3, <2>2, <3>1 DEF Proceeds, Waits
  <2>6. Surrounds /\ GateMoves
    BY <1>1, <1>2, <2>1 DEF CoreInv, TypeOK, Surrounds, GateMoves
  <2>7. \A x \in expired : Active(x) => handle'[x].st # "cancelled"
    BY <2>1 DEF Active, ActiveIn, TerminalIn
  <2>8. QED
    BY <1>1, <2>1, <2>2, <2>3, <2>4, <2>5, <2>6, <2>7 DEF Advancing
<1>5. CASE ~(e \notin cancelling /\ State(e) = "succeeded")
  <2>1. PICK st \in {"failed", "cancelled"} : /\ st = CancelOutcome(e)
                                              /\ e \in expired => st = "failed"
    BY DEF CancelOutcome
  <2>2. TaskLive(e)
    BY <1>2 DEF TaskLive
  <2> DEFINE h == MarkTerminal(handle, e, st)
  <2>3. /\ h \in Handles /\ \A x \in Execs \ {e} : h[x] = handle[x]
        /\ TerminalIn(h, e)
        /\ h[e] = handle[e] \/ (Active(e) /\ h[e].st \in {"failed", "cancelled"} /\ h[e].ids = {})
        /\ e \in expired /\ Active(e) => h[e].st # "cancelled"
    BY <1>2, <2>1, <2>2, HeartbeatEnds
  <2>4. Raise(e, h, FALSE, TRUE)
    BY <1>5, <2>1 DEF HeartbeatWakes
  <2> HIDE DEF h
  <2>5. QED
    BY <1>2, <1>3, <2>2, <2>3, <2>4, RaiseAdvances DEF TaskLive
<1>6. QED
  BY <1>4, <1>5

\* The steps that mark a set of executions cancelled, their tasks having ended.
LEMMA SweepAdvances ==
    ASSUME CoreInv, NEW S, NEW tk \in [Execs -> TaskStates],
           handle' = handle \/ handle' = MarkAllCancelled(handle, S),
           Refresh(handle', tk) \/ (task' = tk /\ UNCHANGED rec /\ gate' = gate),
           \A x \in S \cap (Heartbeats \cup Answers) : Active(x) => ~TaskLive(x),
           \A x \in Execs :
             \/ tk[x] = task[x] /\ (reap[x].again => reap'[x].again)
             \/ /\ task[x] \in Waits
                /\ tk[x] = "ended" \/ (tk[x] = "raised" /\ reap'[x].again)
             \/ task[x] \in {"reaping", "joining"} /\ tk[x] \in {"ended", "joining"},
           \A x \in Execs : handle'[x].st = "running" /\ x \in sweep.set \ sweep.late
                              => x \in sweep'.set \ sweep'.late \/ TaskLive(x),
           Surrounds
    PROVE  Advancing
<1>1. TypeOK /\ Tasks /\ handle \in Handles
  BY DEF CoreInv, TypeOK, Handles
<1>2. /\ handle' \in Handles
      /\ \A x \in Execs :
           \/ handle'[x] = handle[x]
           \/ x \in S /\ Active(x) /\ handle'[x].st = "cancelled" /\ handle'[x].ids = {}
  <2>1. CASE handle' = handle
    BY <1>1, <2>1
  <2>2. CASE handle' = MarkAllCancelled(handle, S)
    <3>1. /\ handle' \in Handles
          /\ \A x \in Execs : handle'[x] =
               IF x \in S /\ ActiveIn(handle, x) THEN [st |-> "cancelled", ids |-> {}] ELSE handle[x]
      BY <1>1, <2>2, MarkAllFacts
    <3>2. QED
      BY <3>1 DEF Active
  <2>3. QED
    BY <2>1, <2>2
<1>3. /\ task' \in [Execs -> TaskStates] /\ \A x \in Execs : Loosened(tk, x)
      /\ rec' \in {"READY", "ACTIVE", "QUIESCING"} /\ (rec' = "QUIESCING" => fenced)
      /\ gate' \in BOOLEAN
      /\ gate' = gate \/ gate' = GateOf(handle')
  <2>1. CASE Refresh(handle', tk)
    BY <2>1, RefreshFacts
  <2>2. CASE task' = tk /\ UNCHANGED rec /\ gate' = gate
    BY <1>1, <2>2 DEF Loosened, CoreInv, TypeOK
  <2>3. QED
    BY <2>1, <2>2
<1>4. \A x \in Execs : Advance(x)
  BY <1>2 DEF Advance, Ended
<1>5. \A x \in Answers : task[x] = "running" => handle'[x] = handle[x]
  BY <1>2, Kinds DEF TaskLive
<1>6. \A x \in Heartbeats : handle'[x] = handle[x]
  <2>1. SUFFICES ASSUME NEW x \in Heartbeats PROVE handle'[x] = handle[x]
    OBVIOUS
  <2>2. x \in Execs
    BY Kinds
  <2>3. x \in S /\ Active(x) => FALSE
    BY <1>1 DEF Tasks, Active, ActiveIn, State, Terminal
  <2>4. QED
    BY <1>2, <2>2, <2>3
<1>7. ASSUME NEW x \in Execs PROVE Proceeds(x)
  <2>1. CASE tk[x] = task[x] /\ (reap[x].again => reap'[x].again)
    <3>1. Loosened(task, x)
      BY <1>3, <2>1 DEF Loosened
    <3>2. QED
      BY <1>2, <1>4, <1>5, <2>1, <3>1, Bystander
  <2>2. CASE /\ task[x] \in Waits
             /\ tk[x] = "ended" \/ (tk[x] = "raised" /\ reap'[x].again)
    <3>1. task'[x] = tk[x]
      BY <1>3, <2>2 DEF Loosened
    <3>2. x \notin Answers /\ x \notin Heartbeats
      BY <1>1, <2>2 DEF Tasks, Waits
    <3>3. State(x) # "running"
      BY <1>1, <2>2 DEF Tasks, Terminal, TerminalIn, State
    <3>4. handle'[x].st # "running"
      BY <1>2, <3>3 DEF State
    <3>5. QED
      BY <2>2, <3>1, <3>2, <3>4 DEF Proceeds, Waits
  <2>3. CASE task[x] \in {"reaping", "joining"} /\ tk[x] \in {"ended", "joining"}
    <3>1. task'[x] \in {"ended", "joining"}
      BY <1>3, <2>3 DEF Loosened
    <3>2. x \notin Answers /\ Terminal(x)
      BY <1>1, <2>3 DEF Tasks
    <3>3. handle'[x] = handle[x]
      BY <1>2, <3>2 DEF Active, ActiveIn, Terminal
    <3>4. TerminalIn(handle', x) /\ handle'[x].st # "running"
      BY <3>2, <3>3 DEF Terminal, TerminalIn
    <3>5. QED
      BY <2>3, <3>1, <3>2, <3>4 DEF Proceeds, Waits
  <2>4. QED
    BY <2>1, <2>2, <2>3
<1>8. \A x \in expired : Active(x) => handle'[x].st # "cancelled"
  <2>1. SUFFICES ASSUME NEW x \in expired, Active(x) PROVE handle'[x].st # "cancelled"
    OBVIOUS
  <2>2. handle'[x] = handle[x]
    BY <1>1, <1>6 DEF TypeOK
  <2>3. QED
    BY <2>1, <2>2 DEF Active, ActiveIn, TerminalIn
<1>9. GateMoves
  <2>1. fenced => fenced'
    BY DEF Surrounds
  <2>2. QED
    BY <1>3, <2>1 DEF GateMoves
<1>10. QED
  BY <1>2, <1>3, <1>4, <1>7, <1>8, <1>9 DEF Advancing

LEMMA ReapAdvances ==
    ASSUME CoreInv, NEW e \in Execs, Reap(e)
    PROVE  Advancing
<1>1. TypeOK /\ handle \in Handles
  BY DEF CoreInv, TypeOK, Handles
<1> DEFINE live == {x \in reap[e].set : TaskLive(x)}
           S == reap[e].set \ live
<1>2. /\ task[e] = "reaping" /\ cancelling' = cancelling \ {e}
      /\ UNCHANGED <<cancelReq, par, order, answerVars, reap, expired, asked, sweep, fenced, faults>>
  BY DEF Reap
<1>3. PICK st \in {"ended", "joining"} :
        \/ /\ task' = [task EXCEPT ![e] = st]
           /\ UNCHANGED <<rec, gate>>
           /\ handle' = handle \/ handle' = MarkAllCancelled(handle, S)
        \/ /\ Refresh(handle', [task EXCEPT ![e] = st])
           /\ handle' = handle \/ handle' = MarkAllCancelled(handle, S)
  <2>1. CASE e \in cancelling
    <3>1. task' = [task EXCEPT ![e] = "ended"] /\ UNCHANGED <<handle, rec, gate>>
      BY <2>1 DEF Reap
    <3>2. QED
      BY <3>1
  <2>2. CASE e \notin cancelling
    <3>1. PICK st \in {"ended", "joining"} : st = IF live = {} THEN "ended" ELSE "joining"
      OBVIOUS
    <3>2. /\ handle' = MarkAllCancelled(handle, S)
          /\ \/ Refresh(handle', [task EXCEPT ![e] = st])
             \/ task' = [task EXCEPT ![e] = st] /\ UNCHANGED <<rec, gate>>
      BY <2>2, <3>1 DEF Reap
    <3>3. QED
      BY <3>2
  <2>3. QED
    BY <2>1, <2>2
<1>4. \A x \in S : ~TaskLive(x)
  OBVIOUS
<1> DEFINE tk == [task EXCEPT ![e] = st]
<1>5. tk \in [Execs -> TaskStates] /\ tk[e] = st /\ \A x \in Execs \ {e} : tk[x] = task[x]
  BY <1>1 DEF TypeOK, TaskStates
<1>6. /\ handle' = handle \/ handle' = MarkAllCancelled(handle, S)
      /\ Refresh(handle', tk) \/ (task' = tk /\ UNCHANGED rec /\ gate' = gate)
  BY <1>3
<1> HIDE DEF tk, S
<1>7. Surrounds
  BY <1>1, <1>2 DEF CoreInv, TypeOK, Surrounds
<1>8. QED
  BY <1>2, <1>4, <1>5, <1>6, <1>7, SweepAdvances

LEMMA JoinAdvances ==
    ASSUME CoreInv, NEW e \in Execs, Join(e)
    PROVE  Advancing
<1>1. TypeOK /\ handle \in Handles
  BY DEF CoreInv, TypeOK, Handles
<1> DEFINE tk == [task EXCEPT ![e] = "ended"]
<1>2. /\ task[e] = "joining"
      /\ UNCHANGED <<handle, cancelReq, par, order, cancelling, answerVars, reap,
                     expired, asked, sweep, fenced, faults>>
      /\ Refresh(handle, tk) \/ (task' = tk /\ UNCHANGED <<rec, gate>>)
  BY DEF Join
<1>3. tk \in [Execs -> TaskStates] /\ tk[e] = "ended" /\ \A x \in Execs \ {e} : tk[x] = task[x]
  BY <1>1 DEF TypeOK, TaskStates
<1> HIDE DEF tk
<1>4. Refresh(handle', tk) \/ (task' = tk /\ UNCHANGED rec /\ gate' = gate)
  <2>1. CASE Refresh(handle, tk)
    BY <1>2, <2>1
  <2>2. QED
    BY <1>2, <2>1
<1>5. Surrounds
  BY <1>1, <1>2 DEF CoreInv, TypeOK, Surrounds
<1>6. PICK S : \A x \in S \cap (Heartbeats \cup Answers) : Active(x) => ~TaskLive(x)
  <2>1. \A x \in {} \cap (Heartbeats \cup Answers) : Active(x) => ~TaskLive(x)
    OBVIOUS
  <2>2. QED
    BY <2>1
<1>7. handle' = handle \/ handle' = MarkAllCancelled(handle, S)
  BY <1>2
<1>8. QED
  BY <1>2, <1>3, <1>4, <1>5, <1>6, <1>7, SweepAdvances

\* The steps that move no handle and no task: a deadline, a client that leaves, the fence.
LEMMA OutsideAdvances ==
    ASSUME CoreInv,
           \/ \E e \in Execs : Deadline(e)
           \/ \E a \in Answers : CloseAnswer(a)
           \/ Quiesce
    PROVE  Advancing
<1>1. TypeOK /\ handle \in Handles
  BY DEF CoreInv, TypeOK, Handles
<1>2. /\ UNCHANGED <<handle, cancelReq, par, order, task, answerVars, reap, asked, sweep>>
      /\ gate' = gate
  BY DEF Deadline, CloseAnswer, Quiesce
<1>3. faults' \in 0..MaxFaults
  <2>1. faults < MaxFaults /\ faults' = faults + 1
    BY DEF Deadline, CloseAnswer, Quiesce, Fault
  <2>2. QED
    BY <1>1, <2>1, ControlAssumption DEF TypeOK
<1>4. /\ cancelling' \subseteq Execs /\ expired' \subseteq Heartbeats
      /\ rec' = rec \/ rec' = "QUIESCING"
      /\ fenced' \in BOOLEAN /\ (fenced => fenced')
      /\ rec' = "QUIESCING" => rec = "QUIESCING" \/ fenced'
  <2>1. CASE \E e \in Execs : Deadline(e)
    BY <1>1, <2>1 DEF Deadline, TypeOK
  <2>2. CASE \E a \in Answers : CloseAnswer(a)
    BY <1>1, <2>2, Kinds DEF CloseAnswer, InFlight, TypeOK
  <2>3. CASE Quiesce
    BY <1>1, <2>3 DEF Quiesce, TypeOK
  <2>4. QED
    BY <2>1, <2>2, <2>3
<1>5. rec = "QUIESCING" => fenced
  BY DEF CoreInv
<1>6. Surrounds
  <2>1. sweep'.ph = "idle" => sweep'.set = {}
    BY <1>2 DEF CoreInv
  <2>2. QED
    BY <1>1, <1>2, <1>3, <1>4, <2>1 DEF TypeOK, Surrounds
<1>7. GateMoves
  BY <1>1, <1>2, <1>4, <1>5 DEF TypeOK, GateMoves
<1>8. \A x \in Execs : Advance(x)
  BY <1>2 DEF Advance
<1>9. \A x \in Execs : Proceeds(x)
  BY <1>1, <1>2, <1>8, Bystander DEF Loosened
<1>10. \A x \in expired : Active(x) => handle'[x].st # "cancelled"
  BY <1>2 DEF Active, ActiveIn, TerminalIn
<1>11. QED
  BY <1>1, <1>2, <1>6, <1>7, <1>8, <1>9, <1>10 DEF Advancing, TypeOK

\* Heartbeats and answers do not run in the lane.
LEMMA DirectKinds ==
    ASSUME NEW x \in Heartbeats \cup Answers
    PROVE  Direct(x) /\ ~LaneWork(x) /\ x \notin Messages
<1>1. x \notin Chats /\ x \notin Messages /\ x \notin Inputs
  BY Kinds
<1>2. QED
  BY <1>1 DEF Direct, LaneWork, IsChat

LEMMA CancelDirectAdvances ==
    ASSUME CoreInv, NEW S \in SUBSET Execs, NEW late \in SUBSET Execs,
           NEW tk \in [Execs -> TaskStates], CancelDirect(S, late, tk),
           \A x \in Execs :
             \/ tk[x] = task[x] /\ (reap[x].again => reap'[x].again)
             \/ /\ task[x] \in Waits
                /\ tk[x] = "ended" \/ (tk[x] = "raised" /\ reap'[x].again),
           \A x \in late : TaskLive(x), sweep.set \subseteq S,
           UNCHANGED <<par, order, answerVars, expired, asked, fenced>>,
           reap' \in [Execs -> [set : SUBSET Execs, again : BOOLEAN]],
           faults' \in 0..MaxFaults
    PROVE  Advancing
<1>1. TypeOK /\ Tasks /\ handle \in Handles
  BY DEF CoreInv, TypeOK, Handles
<1> DEFINE live == {e \in {e \in S : Direct(e)} : tk[e] \notin {"none", "ended"} /\ Active(e)}
           R == S \ late
<1>2. live \subseteq S
  OBVIOUS
<1>3. /\ cancelReq' = [e \in Execs |-> cancelReq[e] \/ e \in S]
      /\ cancelling' = cancelling \cup {e \in live : ~cancelReq[e]}
      /\ \/ /\ live = {} /\ handle' = MarkAllCancelled(handle, R)
            /\ Refresh(handle', tk) /\ sweep' = NoSweep
         \/ /\ sweep' = [ph |-> "direct", set |-> S, late |-> late]
            /\ task' = tk /\ UNCHANGED <<handle, rec, gate>>
  BY DEF CancelDirect
<1>4. live = {} => \A x \in R \cap (Heartbeats \cup Answers) : Active(x) => ~TaskLive(x)
  <2>1. SUFFICES ASSUME live = {}, NEW x \in R \cap (Heartbeats \cup Answers), Active(x)
                 PROVE  ~TaskLive(x)
    OBVIOUS
  <2>2. Direct(x) /\ x \in S /\ x \in Execs
    BY DirectKinds
  <2>3. tk[x] \in {"none", "ended"}
    BY <2>1, <2>2
  <2>4. task[x] \notin Waits
    BY <1>1 DEF Tasks, Waits
  <2>5. tk[x] = task[x]
    BY <2>2, <2>4
  <2>6. QED
    BY <2>3, <2>5 DEF TaskLive
<1> HIDE DEF live, R
<1>5. /\ sweep' \in [ph : {"idle", "lane", "direct"}, set : SUBSET Execs, late : SUBSET Execs]
      /\ sweep'.ph = "idle" => sweep'.set = {}
  <2>1. CASE sweep' = NoSweep
    BY <2>1 DEF NoSweep
  <2>2. CASE sweep' = [ph |-> "direct", set |-> S, late |-> late]
    BY <2>2
  <2>3. QED
    BY <1>3, <2>1, <2>2
<1>6. Surrounds
  <2>1. cancelReq' \in [Execs -> BOOLEAN] /\ cancelling' \subseteq Execs
    BY <1>1, <1>2, <1>3 DEF TypeOK
  <2>2. QED
    BY <1>1, <1>5, <2>1 DEF TypeOK, Surrounds
<1>7. CASE /\ live = {} /\ handle' = MarkAllCancelled(handle, R)
           /\ Refresh(handle', tk) /\ sweep' = NoSweep
  <2>1. ASSUME NEW x \in Execs, handle'[x].st = "running", x \in sweep.set \ sweep.late
        PROVE  TaskLive(x)
    <3>1. handle'[x] = IF x \in R /\ ActiveIn(handle, x) THEN [st |-> "cancelled", ids |-> {}]
                       ELSE handle[x]
      BY <1>1, <1>7, MarkAllFacts
    <3>2. x \notin R
      BY <2>1, <3>1 DEF ActiveIn, TerminalIn
    <3>3. QED
      BY <2>1, <3>2 DEF R
  <2>2. QED
    BY <1>4, <1>6, <1>7, <2>1, SweepAdvances
<1>8. CASE /\ sweep' = [ph |-> "direct", set |-> S, late |-> late]
           /\ task' = tk /\ UNCHANGED <<handle, rec, gate>>
  <2>1. ASSUME NEW x \in Execs, x \in sweep.set \ sweep.late
        PROVE  x \in sweep'.set \ sweep'.late \/ TaskLive(x)
    BY <1>8, <2>1
  <2>2. PICK E : E = {}
    OBVIOUS
  <2>3. \A x \in E \cap (Heartbeats \cup Answers) : Active(x) => ~TaskLive(x)
    BY <2>2
  <2>4. /\ handle' = handle \/ handle' = MarkAllCancelled(handle, E)
        /\ task' = tk /\ UNCHANGED rec /\ gate' = gate
    BY <1>8
  <2>5. QED
    BY <1>6, <2>1, <2>3, <2>4, SweepAdvances
<1>9. QED
  BY <1>3, <1>7, <1>8

LEMMA CancelExecutionAdvances ==
    ASSUME CoreInv, NEW e \in Execs, CancelExecution(e)
    PROVE  Advancing
<1>1. TypeOK /\ Tasks /\ handle \in Handles
  BY DEF CoreInv, TypeOK, Handles
<1> DEFINE S == WithDescendants({e})
           lane == {x \in S : LaneWork(x)}
           busy == {x \in lane : task[x] = "running"}
           tk == [x \in Execs |-> IF x \in lane /\ task[x] = "queued"
                                  THEN IF x \in Messages THEN "raised" ELSE "ended"
                                  ELSE task[x]]
<1>2. /\ sweep.ph = "idle" /\ faults < MaxFaults /\ faults' = faults + 1
      /\ reap' = [x \in Execs |-> IF tk[x] = "raised" /\ task[x] = "queued"
                                  THEN [reap[x] EXCEPT !.again = TRUE] ELSE reap[x]]
      /\ \/ CancelDirect(S, {}, tk)
         \/ /\ cancelReq' = [x \in Execs |-> cancelReq[x] \/ (x \in S /\ ~Direct(x))]
            /\ cancelling' = cancelling \cup busy
            /\ sweep' = [ph |-> "lane", set |-> S, late |-> {}]
            /\ task' = tk
            /\ UNCHANGED <<handle, rec, gate>>
      /\ UNCHANGED <<par, order, answerVars, expired, asked, fenced>>
  BY DEF CancelExecution, Fault
<1>3. S \subseteq Execs
  BY DescendantsFacts
<1>4. busy \subseteq Execs
  BY <1>3
<1>5. /\ tk \in [Execs -> TaskStates]
      /\ \A x \in Execs : tk[x] = task[x] \/ (task[x] = "queued" /\ tk[x] \in {"ended", "raised"})
  BY <1>1 DEF TypeOK, TaskStates
<1>6. sweep.set = {}
  BY <1>2 DEF CoreInv
<1> HIDE DEF S, busy, tk
<1>7. /\ reap' \in [Execs -> [set : SUBSET Execs, again : BOOLEAN]]
      /\ \A x \in Execs : /\ reap[x].again => reap'[x].again
                          /\ tk[x] = "raised" /\ task[x] = "queued" => reap'[x].again
  <2>1. reap \in [Execs -> [set : SUBSET Execs, again : BOOLEAN]]
    BY <1>1 DEF TypeOK
  <2>2. ASSUME NEW x \in Execs
        PROVE  /\ reap'[x] \in [set : SUBSET Execs, again : BOOLEAN]
               /\ reap[x].again => reap'[x].again
               /\ tk[x] = "raised" /\ task[x] = "queued" => reap'[x].again
    <3>1. CASE tk[x] = "raised" /\ task[x] = "queued"
      <4>1. reap'[x] = [reap[x] EXCEPT !.again = TRUE]
        BY <1>2, <3>1
      <4>2. QED
        BY <2>1, <4>1
    <3>2. CASE ~(tk[x] = "raised" /\ task[x] = "queued")
      <4>1. reap'[x] = reap[x]
        BY <1>2, <3>2
      <4>2. QED
        BY <2>1, <3>2, <4>1
    <3>3. QED
      BY <3>1, <3>2
  <2>3. reap' = [x \in Execs |-> reap'[x]]
    BY <1>2
  <2>4. QED
    BY <2>2, <2>3
<1>8. faults' \in 0..MaxFaults
  BY <1>1, <1>2, ControlAssumption DEF TypeOK
<1>9. \A x \in Execs :
        \/ tk[x] = task[x] /\ (reap[x].again => reap'[x].again)
        \/ /\ task[x] \in Waits
           /\ tk[x] = "ended" \/ (tk[x] = "raised" /\ reap'[x].again)
  BY <1>5, <1>7 DEF Waits
<1>10. CASE CancelDirect(S, {}, tk)
  <2>1. PICK late \in SUBSET Execs : late = {}
    OBVIOUS
  <2>2. (\A x \in late : TaskLive(x)) /\ sweep.set \subseteq S /\ S \in SUBSET Execs
    BY <1>3, <1>6, <2>1
  <2>3. CancelDirect(S, late, tk)
    BY <1>10, <2>1
  <2>4. UNCHANGED <<par, order, answerVars, expired, asked, fenced>>
    BY <1>2
  <2>5. reap' \in [Execs -> [set : SUBSET Execs, again : BOOLEAN]]
    BY <1>7
  <2>6. tk \in [Execs -> TaskStates]
    BY <1>5
  <2>7. QED
    BY <1>8, <1>9, <2>2, <2>3, <2>4, <2>5, <2>6, CancelDirectAdvances
<1>11. CASE /\ cancelReq' = [x \in Execs |-> cancelReq[x] \/ (x \in S /\ ~Direct(x))]
            /\ cancelling' = cancelling \cup busy
            /\ sweep' = [ph |-> "lane", set |-> S, late |-> {}]
            /\ task' = tk
            /\ UNCHANGED <<handle, rec, gate>>
  <2>1. Surrounds
    <3>1. cancelReq' \in [Execs -> BOOLEAN] /\ cancelling' \subseteq Execs
      BY <1>1, <1>4, <1>11 DEF TypeOK
    <3>2. /\ sweep' \in [ph : {"idle", "lane", "direct"}, set : SUBSET Execs, late : SUBSET Execs]
          /\ sweep'.ph = "idle" => sweep'.set = {}
      BY <1>3, <1>11
    <3>3. QED
      BY <1>1, <1>2, <1>7, <1>8, <3>1, <3>2 DEF TypeOK, Surrounds
  <2>2. PICK E : E = {}
    OBVIOUS
  <2>3. \A x \in E \cap (Heartbeats \cup Answers) : Active(x) => ~TaskLive(x)
    BY <2>2
  <2>4. /\ handle' = handle \/ handle' = MarkAllCancelled(handle, E)
        /\ task' = tk /\ UNCHANGED rec /\ gate' = gate
    BY <1>11
  <2>5. \A x \in Execs : x \notin sweep.set
    BY <1>6
  <2>6. QED
    BY <1>5, <1>9, <2>1, <2>3, <2>4, <2>5, SweepAdvances
<1>12. QED
  BY <1>2, <1>10, <1>11

LEMMA CancelWaitedAdvances ==
    ASSUME CoreInv, CancelLaneWaited \/ CancelTaskWaited
    PROVE  Advancing
<1>1. TypeOK /\ Tasks /\ handle \in Handles
  BY DEF CoreInv, TypeOK, Handles
<1>2. sweep.set \in SUBSET Execs /\ task \in [Execs -> TaskStates]
  BY <1>1 DEF TypeOK
<1>3. CASE CancelLaneWaited
  <2> DEFINE late == {e \in sweep.set : LaneWork(e) /\ task[e] = "running"}
  <2>1. /\ CancelDirect(sweep.set, late, task)
        /\ UNCHANGED <<par, order, answerVars, reap, expired, asked, fenced, faults>>
    BY <1>3 DEF CancelLaneWaited
  <2>2. late \in SUBSET Execs /\ \A x \in late : TaskLive(x)
    BY <1>2 DEF TaskLive
  <2> HIDE DEF late
  <2>3. reap' \in [Execs -> [set : SUBSET Execs, again : BOOLEAN]] /\ faults' \in 0..MaxFaults
    BY <1>1, <2>1 DEF TypeOK
  <2>4. QED
    BY <1>2, <2>1, <2>2, <2>3, CancelDirectAdvances
<1>4. CASE CancelTaskWaited
  <2> DEFINE late == sweep.late \cup {e \in sweep.set : Direct(e) /\ TaskLive(e)}
             S == sweep.set \ late
  <2>1. /\ handle' = MarkAllCancelled(handle, S)
        /\ Refresh(handle', task) /\ sweep' = NoSweep
        /\ UNCHANGED <<cancelReq, par, order, cancelling, answerVars, reap, expired, asked, fenced, faults>>
    BY <1>4 DEF CancelTaskWaited
  <2>2. \A x \in S \cap (Heartbeats \cup Answers) : Active(x) => ~TaskLive(x)
    BY DirectKinds
  <2>3. ASSUME NEW x \in Execs, handle'[x].st = "running", x \in sweep.set \ sweep.late
        PROVE  TaskLive(x)
    <3>1. handle'[x] = IF x \in S /\ ActiveIn(handle, x) THEN [st |-> "cancelled", ids |-> {}]
                       ELSE handle[x]
      BY <1>1, <2>1, MarkAllFacts
    <3>2. x \notin S
      BY <2>3, <3>1 DEF ActiveIn, TerminalIn
    <3>3. QED
      BY <2>3, <3>2
  <2>4. Surrounds
    <3>1. /\ sweep' \in [ph : {"idle", "lane", "direct"}, set : SUBSET Execs, late : SUBSET Execs]
          /\ sweep'.ph = "idle" => sweep'.set = {}
      BY <2>1 DEF NoSweep
    <3>2. QED
      BY <1>1, <2>1, <3>1 DEF TypeOK, Surrounds
  <2> HIDE DEF S
  <2>5. QED
    BY <1>2, <2>1, <2>2, <2>3, <2>4, SweepAdvances
<1>5. QED
  BY <1>3, <1>4

-----------------------------------------------------------------------------
(* The steps that register an execution *)

\* Registering an execution does not change who is above the others.
LEMMA KeptAncestors ==
    ASSUME TypeOK, Ordered, NEW e \in Execs \ Known, NEW p \in Execs \cup {None},
           par' = [par EXCEPT ![e] = p], NEW x \in Known
    PROVE  Ancestors(x)' = Ancestors(x) /\ AncestorIn(x, Heartbeats)' = AncestorIn(x, Heartbeats)
<1>1. par \in [Execs -> Execs \cup {None}]
  BY DEF TypeOK
<1>2. par' \in [Execs -> Execs \cup {None}]
  BY <1>1
<1>3. x \in Execs /\ Known \subseteq Execs /\ (\A y \in Known : par[y] \in Known \cup {None})
  BY KnownFacts
<1>4. \A y \in Known : par'[y] = par[y]
  BY <1>1, <1>3
<1> DEFINE A == AncestorsOf(par, x)
           B == AncestorsOf(par', x)
<1>5. /\ x \in A /\ A \subseteq Known
      /\ \A y \in A : par[y] \in A \cup {None}
      /\ \A T : x \in T /\ (\A y \in T : y \in Execs /\ par[y] \in T \cup {None}) => A \subseteq T
  BY <1>1, <1>3, AncestorsFacts
<1>6. /\ x \in B
      /\ \A y \in B : par'[y] \in B \cup {None}
      /\ \A T : x \in T /\ (\A y \in T : y \in Execs /\ par'[y] \in T \cup {None}) => B \subseteq T
  BY <1>2, <1>3, AncestorsFacts
<1> HIDE DEF A, B
<1>7. B \subseteq A
  BY <1>3, <1>4, <1>5, <1>6
<1>8. A \subseteq B
  <2>1. \A y \in B : y \in Execs /\ par[y] \in B \cup {None}
    BY <1>3, <1>4, <1>5, <1>6, <1>7
  <2>2. QED
    BY <1>5, <1>6, <2>1
<1>9. Ancestors(x) = A
  BY <1>3, KnownFacts DEF A
<1>10. Ancestors(x)' = B
  BY DEF Ancestors, AncestorsOf, B
<1>11. Ancestors(x)' = Ancestors(x)
  BY <1>7, <1>8, <1>9, <1>10
<1>12. QED
  BY <1>11 DEF AncestorIn

\* A new execution comes last and its parent before it.
LEMMA RegisterFacts ==
    ASSUME TypeOK, Ordered, NEW e \in Execs \ Known, NEW p \in Known \cup {None},
           order' = Append(order, e), par' = [par EXCEPT ![e] = p],
           handle' \in Handles, handle'[e].st # "none",
           \A x \in Execs \ {e} : handle'[x].st # "none" <=> State(x) # "none",
           \A x \in Execs \ Known : x # e => handle'[x].ids = {},
           e \in Answers => p # None, p # None => e \in Inputs \cup Answers
    PROVE  Ordered' /\ Known' = Known \cup {e}
<1> DEFINE n == Len(order)
<1>1. /\ order \in Seq(Execs) /\ n \in Nat /\ par \in [Execs -> Execs \cup {None}]
      /\ \A i \in 1..n : order[i] \in Execs
  BY LenProperties, ElementOfSeq DEF TypeOK
<1>2. /\ Len(order') = n + 1 /\ order'[n + 1] = e
      /\ \A i \in 1..n : order'[i] = order[i]
  BY <1>1, AppendProperties
<1>3. 1..(n + 1) = 1..n \cup {n + 1}
  BY <1>1
<1>4. Known' = {order'[i] : i \in 1..(n + 1)}
  BY <1>2 DEF Known
<1>5. Known' = Known \cup {e}
  BY <1>1, <1>2, <1>3, <1>4 DEF Known
<1>6. par'[e] = p /\ \A x \in Execs \ {e} : par'[x] = par[x]
  BY <1>1
<1>7. ASSUME NEW i \in 1..(n + 1)
      PROVE  par'[order'[i]] = None \/ \E j \in 1..(i-1) : order'[j] = par'[order'[i]]
  <2>1. CASE i \in 1..n
    <3>1. order[i] # e
      BY <2>1 DEF Known
    <3>2. order'[i] = order[i] /\ par'[order'[i]] = par[order[i]]
      BY <1>1, <1>2, <1>6, <2>1, <3>1
    <3>3. CASE par[order[i]] = None
      BY <3>2, <3>3
    <3>4. CASE par[order[i]] # None
      <4>1. PICK j \in 1..(i-1) : order[j] = par[order[i]]
        BY <2>1, <3>4 DEF Ordered
      <4>2. j \in 1..n
        BY <1>1, <2>1
      <4>3. QED
        BY <1>2, <3>2, <4>1, <4>2
    <3>5. QED
      BY <3>3, <3>4
  <2>2. CASE i = n + 1
    <3>1. order'[i] = e /\ par'[order'[i]] = p
      BY <1>2, <1>6, <2>2
    <3>2. CASE p # None
      <4>1. PICK j \in 1..n : order[j] = p
        BY <3>2 DEF Known
      <4>2. j \in 1..(i-1)
        BY <1>1, <2>2
      <4>3. QED
        BY <1>2, <3>1, <4>1, <4>2
    <3>3. QED
      BY <3>1, <3>2
  <2>3. QED
    BY <1>3, <2>1, <2>2
<1>8. \A e2 \in Execs : handle'[e2].st # "none" <=> e2 \in Known'
  BY <1>5 DEF Ordered
<1>9. \A e2 \in Execs \ Known' : par'[e2] = None /\ handle'[e2].ids = {}
  BY <1>5, <1>6 DEF Ordered
<1>10. \A e2 \in Execs : e2 \in Answers \cap Known' => par'[e2] # None
  BY <1>5, <1>6 DEF Ordered
<1>11. \A e2 \in Execs : par'[e2] # None => e2 \in Inputs \cup Answers
  BY <1>6 DEF Ordered
<1>12. Ordered'
  BY <1>2, <1>7, <1>8, <1>9, <1>10, <1>11 DEF Ordered, State, Ids
<1>13. QED
  BY <1>5, <1>12

\* The four entry points that register an execution of their own.
Admitting(e, p, t, st, replaced) ==
    /\ e \in Roots /\ p \in Known \cup {None} /\ (p # None => e \in Inputs)
    /\ \/ t \in {"start", "queued"} /\ st = "queued" /\ e \notin Heartbeats
       \/ t = "running" /\ st = "running"
    /\ replaced = {} \/ (replaced = Superseded /\ st = "queued")
    /\ NewExecution(e, p, st, replaced)
    /\ task' = [task EXCEPT ![e] = t]
    /\ UNCHANGED <<cancelling, answerVars, reap, expired, asked, sweep, fenced, faults>>

LEMMA AdmitAdmitting ==
    ASSUME CoreInv, NEW e \in Execs, Admit(e)
    PROVE  \E p, t, st, replaced : Admitting(e, p, t, st, replaced)
<1>1. TypeOK /\ Ordered
  BY DEF CoreInv
<1>2. CASE RunChat(e)
  <2>1. e \in Roots /\ e \notin Heartbeats
    BY <1>2, Kinds DEF RunChat
  <2>2. Admitting(e, None, "queued", "queued", Superseded)
    BY <1>2, <2>1 DEF RunChat, Admitting
  <2>3. QED
    BY <2>2
<1>3. CASE SubmitMessage(e)
  <2>1. e \in Roots /\ e \notin Heartbeats
    BY <1>3, Kinds DEF SubmitMessage
  <2>2. Admitting(e, None, "start", "queued", {})
    BY <1>3, <2>1 DEF SubmitMessage, Admitting
  <2>3. QED
    BY <2>2
<1>4. CASE RunHeartbeat(e)
  <2>1. e \in Roots
    BY <1>4, Kinds DEF RunHeartbeat
  <2>2. Admitting(e, None, "running", "running", {})
    BY <1>4, <2>1 DEF RunHeartbeat, Admitting
  <2>3. QED
    BY <2>2
<1>5. CASE SessionInput(e)
  <2> DEFINE parents == {x \in Execs : State(x) = "running" /\ (x \in Inputs => IsChat(x))}
  <2>1. e \in Inputs /\ e \in Roots /\ e \notin Heartbeats
    BY <1>5, Kinds DEF SessionInput
  <2>2. CASE parents = {}
    <3>1. Admitting(e, None, "queued", "queued", Superseded)
      BY <1>5, <2>1, <2>2 DEF SessionInput, Admitting
    <3>2. QED
      BY <3>1
  <2>3. CASE parents # {}
    <3>1. parents \subseteq Known
      BY <1>1 DEF Ordered
    <3>2. NewExecution(e, Latest(parents), "queued", {})
      BY <1>5, <2>3 DEF SessionInput
    <3>3. Latest(parents) \in Known
      <4> HIDE DEF parents
      <4> QED
        BY <1>1, <2>3, <3>1, LatestFacts DEF TypeOK
    <3> HIDE DEF parents
    <3>4. Admitting(e, Latest(parents), "queued", "queued", {})
      BY <1>5, <2>1, <3>2, <3>3 DEF SessionInput, Admitting
    <3>5. QED
      BY <3>4
  <2>4. QED
    BY <2>2, <2>3
<1>6. QED
  BY <1>2, <1>3, <1>4, <1>5 DEF Admit

\* What it does to the handles, the tasks and the parents.
LEMMA AdmittingFacts ==
    ASSUME CoreInv, NEW e \in Execs, NEW p, NEW t, NEW st, NEW replaced,
           Admitting(e, p, t, st, replaced)
    PROVE  /\ e \notin Known /\ e \notin Answers /\ State(e) = "none" /\ task[e] = "none"
           /\ handle' \in Handles /\ task' \in [Execs -> TaskStates]
           /\ handle'[e].st = st /\ handle'[e].ids = {} /\ task'[e] = t
           /\ \A x \in Execs \ {e} :
                /\ task'[x] = task[x] /\ par'[x] = par[x]
                /\ \/ handle'[x] = handle[x]
                   \/ /\ State(x) = "waiting" /\ st = "queued"
                      /\ handle'[x].st = "cancelled" /\ handle'[x].ids = {}
<1>1. TypeOK /\ Ordered /\ Tasks /\ handle \in Handles
  BY DEF CoreInv, TypeOK, Handles
<1>2. /\ e \in Roots /\ State(e) = "none" /\ st \in ExecStates /\ t \in TaskStates
      /\ replaced = {} \/ (replaced = Superseded /\ st = "queued")
      /\ handle' = [MarkAllCancelled(handle, replaced) EXCEPT ![e].st = st]
      /\ task' = [task EXCEPT ![e] = t] /\ par' = [par EXCEPT ![e] = p]
  BY DEF Admitting, NewExecution, ExecStates, TaskStates
<1>3. e \notin Known /\ e \notin Answers /\ task[e] = "none" /\ Ids(e) = {}
  BY <1>1, <1>2, Kinds DEF Ordered, Tasks
<1> DEFINE h == MarkAllCancelled(handle, replaced)
<1>4. /\ h \in Handles
      /\ \A x \in Execs : h[x] =
           IF x \in replaced /\ ActiveIn(handle, x) THEN [st |-> "cancelled", ids |-> {}] ELSE handle[x]
  BY <1>1, MarkAllFacts
<1>5. handle' = [h EXCEPT ![e].st = st]
  BY <1>2
<1> HIDE DEF h
<1>6. h[e] = handle[e]
  BY <1>2, <1>4 DEF ActiveIn, State
<1>7. handle' \in Handles
  BY <1>2, <1>4, <1>5 DEF Handles
<1>8. handle'[e].st = st /\ handle'[e].ids = {}
  BY <1>3, <1>4, <1>5, <1>6 DEF Handles, Ids
<1>9. \A x \in Execs \ {e} : handle'[x] = h[x]
  BY <1>4, <1>5 DEF Handles
<1>10. \A x \in Execs \ {e} : \/ handle'[x] = handle[x]
                              \/ /\ State(x) = "waiting" /\ st = "queued"
                                 /\ handle'[x].st = "cancelled" /\ handle'[x].ids = {}
  BY <1>2, <1>4, <1>9 DEF Superseded
<1>11. /\ task' \in [Execs -> TaskStates] /\ task'[e] = t
       /\ \A x \in Execs \ {e} : task'[x] = task[x] /\ par'[x] = par[x]
  BY <1>1, <1>2 DEF TypeOK
<1>12. QED
  BY <1>2, <1>3, <1>7, <1>8, <1>10, <1>11

LEMMA AdmittingCore ==
    ASSUME CoreInv, NEW e \in Execs, NEW p, NEW t, NEW st, NEW replaced,
           Admitting(e, p, t, st, replaced)
    PROVE  CoreInv'
<1>1. /\ TypeOK /\ Ordered /\ Tasks /\ Delivering /\ Cleared /\ GateGuards /\ handle \in Handles
      /\ sweep.ph = "idle" => sweep.set = {}
  BY DEF CoreInv, TypeOK, Handles
<1>2. /\ e \notin Known /\ e \notin Answers /\ State(e) = "none" /\ task[e] = "none"
      /\ handle' \in Handles /\ task' \in [Execs -> TaskStates]
      /\ handle'[e].st = st /\ handle'[e].ids = {} /\ task'[e] = t
      /\ \A x \in Execs \ {e} :
           /\ task'[x] = task[x] /\ par'[x] = par[x]
           /\ \/ handle'[x] = handle[x]
              \/ State(x) = "waiting" /\ handle'[x].st = "cancelled" /\ handle'[x].ids = {}
  BY AdmittingFacts
<1>3. /\ e \in Roots /\ p \in Known \cup {None} /\ (p # None => e \in Inputs)
      /\ \/ t \in {"start", "queued"} /\ st = "queued" /\ e \notin Heartbeats
         \/ t = "running" /\ st = "running"
      /\ order' = Append(order, e) /\ rec' = "ACTIVE" /\ gate' = gate
      /\ cancelReq' = [x \in Execs |-> cancelReq[x] \/ x \in replaced]
      /\ par' = [par EXCEPT ![e] = p]
      /\ UNCHANGED <<cancelling, answerVars, reap, expired, asked, sweep, fenced, faults>>
  BY DEF Admitting, NewExecution
<1>4. Known \subseteq Execs
  BY <1>1, KnownFacts
<1>5. TypeOK'
  <2>1. order' \in Seq(Execs)
    BY <1>1, <1>3, AppendProperties DEF TypeOK
  <2>2. par' \in [Execs -> Execs \cup {None}]
    BY <1>1, <1>3, <1>4 DEF TypeOK
  <2>3. cancelReq' \in [Execs -> BOOLEAN]
    BY <1>3
  <2>4. QED
    BY <1>1, <1>2, <1>3, <2>1, <2>2, <2>3 DEF TypeOK, Handles, answerVars
<1>6. Ordered' /\ Known' = Known \cup {e}
  <2>1. \A x \in Execs \ {e} : handle'[x].st # "none" <=> State(x) # "none"
    BY <1>2 DEF State
  <2>2. \A x \in Execs \ Known : x # e => handle'[x].ids = {}
    BY <1>1, <1>2 DEF Ordered, Ids
  <2>3. handle'[e].st # "none" /\ (e \in Answers => p # None) /\ (p # None => e \in Inputs \cup Answers)
    BY <1>2, <1>3
  <2>4. QED
    BY <1>1, <1>2, <1>3, <2>1, <2>2, <2>3, RegisterFacts
<1>7. Tasks'
  <2>1. ASSUME NEW a \in Answers
        PROVE  /\ task'[a] \in {"none", "claiming", "running", "ended"}
               /\ task'[a] \in {"none", "claiming"} => handle'[a].st = "none"
               /\ task'[a] = "running" => handle'[a].st = "running"
    BY <1>1, <1>2, Kinds DEF Tasks, State
  <2>2. ASSUME NEW x \in Roots
        PROVE  task'[x] = "none" <=> handle'[x].st = "none"
    <3>1. CASE x = e
      BY <1>2, <1>3, <3>1
    <3>2. CASE x # e
      BY <1>1, <1>2, <3>2, Kinds DEF Tasks, State
    <3>3. QED
      BY <3>1, <3>2
  <2>3. ASSUME NEW x \in Execs
        PROVE  /\ task'[x] \in Waits => handle'[x].st = "queued" \/ TerminalIn(handle', x)
               /\ task'[x] = "raised" => TerminalIn(handle', x) \/ reap'[x].again
               /\ task'[x] \in {"reaping", "joining"} => TerminalIn(handle', x)
    <3>1. CASE x = e
      BY <1>2, <1>3, <3>1 DEF Waits
    <3>2. CASE x # e
      <4>1. CASE handle'[x] = handle[x]
        BY <1>1, <1>2, <1>3, <3>2, <4>1 DEF Tasks, State, Terminal, TerminalIn
      <4>2. CASE handle'[x].st = "cancelled"
        BY <4>2 DEF TerminalIn
      <4>3. QED
        BY <1>2, <3>2, <4>1, <4>2
    <3>3. QED
      BY <3>1, <3>2
  <2>4. ASSUME NEW h \in Heartbeats
        PROVE  /\ task'[h] \notin Waits \cup {"raised"}
               /\ handle'[h].st # "none" /\ task'[h] \in {"none", "ended"} => TerminalIn(handle', h)
    <3>1. CASE h = e
      BY <1>2, <1>3, <3>1 DEF Waits
    <3>2. CASE h # e
      <4>1. h \in Execs /\ task'[h] = task[h]
        BY <1>2, <3>2, Kinds
      <4>2. CASE handle'[h] = handle[h]
        BY <1>1, <4>1, <4>2 DEF Tasks, State, Terminal, TerminalIn, TaskLive
      <4>3. CASE handle'[h].st = "cancelled"
        BY <1>1, <4>1, <4>3 DEF Tasks, TerminalIn
      <4>4. QED
        BY <1>2, <3>2, <4>1, <4>2, <4>3
    <3>3. QED
      BY <3>1, <3>2
  <2>5. QED
    BY <2>1, <2>2, <2>3, <2>4 DEF Tasks, State, Terminal, TaskLive
<1>8. InFlight' = InFlight /\ \A a \in InFlight : a \in Execs /\ a # e /\ par'[a] = par[a]
  BY <1>2, Kinds DEF InFlight
<1>9. Delivering'
  <2>1. OneDelivery'
    BY <1>1, <1>8 DEF Delivering, OneDelivery
  <2>2. ASSUME NEW a \in InFlight
        PROVE  /\ par'[a] \in Known'
               /\ handle'[par'[a]].st \in {"running", "waiting"} \/ TerminalIn(handle', par'[a])
               /\ ~TerminalIn(handle', par'[a]) => handle'[par'[a]].ids # {}
               /\ was[a] /\ par'[a] \in Answers => task'[par'[a]] = "ended"
    <3>1. PICK y : y = par[a] /\ par'[a] = y
      BY <1>8
    <3>2. /\ y \in Known /\ (State(y) \in {"running", "waiting"} \/ Terminal(y))
          /\ ~Terminal(y) => Ids(y) # {}
          /\ was[a] /\ y \in Answers => task[y] = "ended"
      BY <1>1, <3>1 DEF Delivering
    <3>3. y \in Execs /\ y # e /\ y \in Known' /\ y \in Known
      BY <1>1, <1>2, <1>4, <1>6, <3>1 DEF Delivering
    <3>4. CASE handle'[y] = handle[y]
      <4>1. /\ handle'[y].st \in {"running", "waiting"} \/ TerminalIn(handle', y)
            /\ ~TerminalIn(handle', y) => handle'[y].ids # {}
        BY <3>2, <3>4 DEF State, Ids, Terminal, TerminalIn
      <4>2. QED
        BY <1>2, <3>1, <3>2, <3>3, <4>1
    <3>5. CASE handle'[y].st = "cancelled"
      <4>1. TerminalIn(handle', y)
        BY <3>5 DEF TerminalIn
      <4>2. QED
        BY <1>2, <3>1, <3>2, <3>3, <4>1
    <3>6. QED
      BY <1>2, <3>3, <3>4, <3>5
  <2>3. QED
    BY <1>3, <1>8, <2>1, <2>2 DEF Delivering, State, Ids, Terminal, answerVars
<1>10. Cleared'
  <2>1. \A x \in Execs : TerminalIn(handle', x) => handle'[x].ids = {}
    BY <1>1, <1>2 DEF Cleared, Terminal, TerminalIn, Ids
  <2>2. \A a \in UnaryAnswers : task'[a] # "ended" => handle'[a].ids = {}
    BY <1>1, <1>2, Kinds DEF Cleared, Ids
  <2>3. QED
    BY <2>1, <2>2 DEF Cleared, Terminal, Ids
<1>11. GateGuards'
  <2>1. GateOf(handle) => GateOf(handle')
    BY <1>2 DEF GateOf, ActiveIn, TerminalIn
  <2>2. QED
    BY <1>1, <1>3, <2>1 DEF GateGuards
<1>12. (rec' = "QUIESCING" => fenced') /\ (sweep'.ph = "idle" => sweep'.set = {})
  BY <1>1, <1>3
<1>13. QED
  BY <1>5, <1>6, <1>7, <1>9, <1>10, <1>11, <1>12 DEF CoreInv

LEMMA AdmittingRoot ==
    ASSUME CoreInv, RootInv, NEW e \in Execs, NEW p, NEW t, NEW st, NEW replaced,
           Admitting(e, p, t, st, replaced)
    PROVE  RootInv'
<1>1. /\ TypeOK /\ Ordered /\ Tasks /\ Delivering /\ handle \in Handles
      /\ RootAsks /\ PauseHasQuestion /\ Driven
  BY DEF CoreInv, RootInv, TypeOK, Handles
<1>2. /\ e \notin Known /\ e \notin Answers
      /\ handle'[e].st = st /\ handle'[e].ids = {} /\ task'[e] = t
      /\ \A x \in Execs \ {e} :
           /\ task'[x] = task[x] /\ par'[x] = par[x]
           /\ \/ handle'[x] = handle[x]
              \/ State(x) = "waiting" /\ handle'[x].st = "cancelled" /\ handle'[x].ids = {}
  BY AdmittingFacts
<1>3. /\ p \in Known \cup {None} /\ t \in {"start", "queued", "running"} /\ st \in {"queued", "running"}
      /\ par' = [par EXCEPT ![e] = p] /\ UNCHANGED <<was, sweep, fenced>>
  BY DEF Admitting, NewExecution, answerVars
<1>4. Known \subseteq Execs
  BY <1>1, KnownFacts
<1>5. RootAsks'
  <2>1. ASSUME NEW x \in Execs, handle'[x].ids # {}
        PROVE  AncestorIn(x, Heartbeats)' \in {None, x}
    <3>1. x # e /\ handle'[x] = handle[x]
      BY <1>2, <2>1
    <3>2. Ids(x) # {}
      BY <2>1, <3>1 DEF Ids
    <3>3. x \in Known
      BY <1>1, <3>2 DEF Ordered
    <3>4. AncestorIn(x, Heartbeats)' = AncestorIn(x, Heartbeats)
      BY <1>1, <1>2, <1>3, <1>4, <3>3, KeptAncestors
    <3>5. QED
      BY <1>1, <3>2, <3>4 DEF RootAsks
  <2>2. QED
    BY <2>1 DEF RootAsks, Ids
<1>6. PauseHasQuestion'
  <2>1. \A x \in Execs : handle'[x].st = "waiting" => handle'[x].ids # {}
    BY <1>1, <1>2, <1>3 DEF PauseHasQuestion, State, Ids
  <2>2. QED
    BY <2>1 DEF PauseHasQuestion, State, Ids
<1>7. InFlight' = InFlight /\ \A a \in InFlight : a \in Execs /\ a # e /\ par'[a] = par[a]
  BY <1>2, Kinds DEF InFlight
<1>8. \A x \in Execs : Deliveries(x)' = Deliveries(x)
  BY <1>7 DEF Deliveries
<1>9. \A x \in Execs : Drives(x) /\ x # e => Drives(x)'
  BY <1>2, <1>3 DEF Drives, TaskLive
<1>10. Driven'
  <2>1. SUFFICES ASSUME ~fenced
                 PROVE  /\ \A x \in Execs : handle'[x].st = "running" =>
                             Drives(x)' \/ Deliveries(x)' # {}
                        /\ \A a \in InFlight : ~was[a] /\ handle'[par'[a]].st = "running"
                             => Drives(par[a])'
    BY <1>3, <1>7 DEF Driven, State, Drives, TaskLive
  <2>2. ASSUME NEW x \in Execs, handle'[x].st = "running"
        PROVE  Drives(x)' \/ Deliveries(x)' # {}
    <3>1. CASE x = e
      BY <1>2, <1>3, <3>1 DEF Drives, TaskLive
    <3>2. CASE x # e
      <4>1. State(x) = "running"
        BY <1>2, <2>2, <3>2 DEF State
      <4>2. QED
        BY <1>1, <1>8, <1>9, <2>1, <3>2, <4>1 DEF Driven
    <3>3. QED
      BY <3>1, <3>2
  <2>3. ASSUME NEW a \in InFlight, ~was[a], handle'[par'[a]].st = "running"
        PROVE  Drives(par[a])'
    <3>1. PICK y \in Execs : y = par[a] /\ y = par'[a] /\ y # e
      BY <1>1, <1>2, <1>4, <1>7 DEF Delivering
    <3>2. State(y) = "running"
      BY <1>2, <2>3, <3>1 DEF State
    <3>3. Drives(y)
      BY <1>1, <2>1, <2>3, <3>1, <3>2 DEF Driven
    <3>4. Drives(y)'
      BY <1>9, <3>1, <3>3
    <3>5. QED
      BY <3>1, <3>4
  <2>4. QED
    BY <2>2, <2>3
<1>11. QED
  BY <1>5, <1>6, <1>10 DEF RootInv

-----------------------------------------------------------------------------
(* A question *)

\* A running task has a registered execution.
LEMMA RunningKnown ==
    ASSUME CoreInv, NEW e \in Execs, task[e] = "running"
    PROVE  e \in Known /\ State(e) # "none"
<1>1. State(e) # "none"
  <2>1. CASE e \in Answers
    BY <2>1 DEF CoreInv, Tasks
  <2>2. CASE e \in Roots
    BY <2>2 DEF CoreInv, Tasks
  <2>3. QED
    BY <2>1, <2>2, Kinds
<1>2. QED
  BY <1>1 DEF CoreInv, Ordered

LEMMA AskFacts ==
    ASSUME CoreInv, NEW e \in Execs, NEW q \in Questions, Ask(e, q)
    PROVE  /\ e \in Known /\ e \notin UnaryAnswers /\ handle' \in Handles
           /\ task' \in [Execs -> TaskStates]
           /\ \A x \in Execs : Loosened(task, x) /\ handle'[x].st = State(x)
           /\ \A x \in Execs : /\ x # e => handle'[x].ids = Ids(x)
                               /\ Terminal(x) => handle'[x].ids = Ids(x)
                               /\ Ids(x) \subseteq handle'[x].ids
           /\ gate' = GateOf(handle') /\ asked' \in [Questions -> Roots \cup {None}]
           /\ reissued' \in [Answers -> SUBSET Questions]
           /\ BelowAsks \/ AncestorIn(e, Heartbeats) \in {None, e}
           /\ UNCHANGED <<cancelReq, par, order, cancelling, rec, names, on, waitFor, claimed, was, reap,
                          expired, sweep, fenced, faults>>
<1>1. TypeOK /\ Ordered /\ handle \in Handles /\ task \in [Execs -> TaskStates]
  BY DEF CoreInv, TypeOK, Handles
<1>2. /\ task[e] = "running" /\ e \notin UnaryAnswers
      /\ handle' = MarkAwaiting(handle, e, {q}) /\ RefreshGate(handle', task)
      /\ BelowAsks \/ AncestorIn(e, Heartbeats) \in {None, e}
      /\ asked' = [asked EXCEPT ![q] = Root(e)]
      /\ reissued' = [a \in Answers |-> IF a = e THEN reissued[a] \cup {q} ELSE reissued[a]]
      /\ UNCHANGED <<cancelReq, par, order, cancelling, rec, names, on, waitFor, claimed, was, reap,
                     expired, sweep, fenced, faults>>
  BY DEF Ask
<1>3. e \in Known
  BY <1>2, RunningKnown
<1>4. Root(e) \in Roots
  BY <1>1, <1>3, RootFacts
<1>5. asked' \in [Questions -> Roots \cup {None}]
  BY <1>1, <1>2, <1>4 DEF TypeOK
<1>6. PICK Q \in SUBSET Questions : Q = {q}
  OBVIOUS
<1>7. /\ handle' \in Handles /\ \A x \in Execs \ {e} : handle'[x] = handle[x]
      /\ handle'[e] = IF TerminalIn(handle, e) THEN handle[e]
                      ELSE [st |-> handle[e].st, ids |-> handle[e].ids \cup Q]
  <2>1. handle' = MarkAwaiting(handle, e, Q)
    BY <1>2, <1>6
  <2>2. QED
    BY <1>1, <2>1, MarkAwaitingFacts
<1>8. \A x \in Execs : handle'[x].st = State(x)
  BY <1>7 DEF State
<1>9. \A x \in Execs : /\ x # e => handle'[x].ids = Ids(x)
                       /\ Terminal(x) => handle'[x].ids = Ids(x)
                       /\ Ids(x) \subseteq handle'[x].ids
  BY <1>7 DEF Ids, Terminal
<1>10. gate' = GateOf(handle') /\ task' = Released(GateOf(handle'), task)
  BY <1>2 DEF RefreshGate
<1>11. task' \in [Execs -> TaskStates] /\ \A x \in Execs : Loosened(task, x)
  BY <1>1, <1>10 DEF Released, Loosened, TaskStates
<1>12. reissued' \in [Answers -> SUBSET Questions]
  BY <1>1, <1>2 DEF TypeOK
<1>13. QED
  BY <1>2, <1>3, <1>5, <1>7, <1>8, <1>9, <1>10, <1>11, <1>12

LEMMA AskCore ==
    ASSUME CoreInv, NEW e \in Execs, NEW q \in Questions, Ask(e, q)
    PROVE  CoreInv'
<1>1. /\ TypeOK /\ Ordered /\ Tasks /\ Delivering /\ Cleared /\ handle \in Handles
      /\ sweep.ph = "idle" => sweep.set = {} 
      /\ rec = "QUIESCING" => fenced
  BY DEF CoreInv, TypeOK, Handles
<1>2. /\ e \in Known /\ e \notin UnaryAnswers /\ handle' \in Handles
      /\ task' \in [Execs -> TaskStates]
      /\ \A x \in Execs : Loosened(task, x) /\ handle'[x].st = State(x)
      /\ \A x \in Execs : /\ x # e => handle'[x].ids = Ids(x)
                          /\ Terminal(x) => handle'[x].ids = Ids(x)
                          /\ Ids(x) \subseteq handle'[x].ids
      /\ gate' = GateOf(handle') /\ asked' \in [Questions -> Roots \cup {None}]
      /\ reissued' \in [Answers -> SUBSET Questions]
      /\ UNCHANGED <<cancelReq, par, order, cancelling, rec, names, on, waitFor, claimed, was, reap,
                     expired, sweep, fenced, faults>>
  BY AskFacts
<1>3. TypeOK'
  <2>1. gate' \in BOOLEAN
    BY <1>2 DEF GateOf
  <2>2. QED
    BY <1>1, <1>2, <2>1 DEF TypeOK, Handles, answerVars
<1>4. Known' = Known
  BY <1>2 DEF Known
<1>5. \A x \in Execs : TerminalIn(handle', x) <=> Terminal(x)
  BY <1>2 DEF TerminalIn, Terminal, State
<1>6. Ordered'
  BY <1>1, <1>2, <1>4 DEF Ordered, State, Ids
<1>7. \A x \in Execs : task'[x] = task[x] \/ (task[x] = "gated" /\ task'[x] = "released")
  BY <1>2 DEF Loosened
<1>8. Tasks'
  <2>1. ASSUME NEW a \in Answers
        PROVE  /\ task'[a] = task[a] /\ task'[a] \in {"none", "claiming", "running", "ended"}
               /\ task'[a] \in {"none", "claiming"} => handle'[a].st = "none"
               /\ task'[a] = "running" => handle'[a].st = "running"
    BY <1>1, <1>2, <1>7, Kinds DEF Tasks
  <2>2. ASSUME NEW x \in Roots
        PROVE  task'[x] = "none" <=> handle'[x].st = "none"
    BY <1>1, <1>2, <1>7, Kinds DEF Tasks
  <2>3. ASSUME NEW x \in Execs
        PROVE  /\ task'[x] \in Waits => handle'[x].st = "queued" \/ TerminalIn(handle', x)
               /\ task'[x] = "raised" => TerminalIn(handle', x) \/ reap'[x].again
               /\ task'[x] \in {"reaping", "joining"} => TerminalIn(handle', x)
    BY <1>1, <1>2, <1>5, <1>7 DEF Tasks, Waits
  <2>4. ASSUME NEW h \in Heartbeats
        PROVE  /\ task'[h] \notin Waits \cup {"raised"}
               /\ handle'[h].st # "none" /\ task'[h] \in {"none", "ended"} => TerminalIn(handle', h)
    <3>1. h \in Execs
      BY Kinds
    <3>2. QED
      BY <1>1, <1>2, <1>5, <1>7, <3>1 DEF Tasks, Waits, TaskLive
  <2>5. QED
    BY <2>1, <2>2, <2>3, <2>4 DEF Tasks, State, Terminal, TaskLive
<1>9. InFlight' = InFlight
  BY <1>1, <1>7, Kinds DEF InFlight, Tasks
<1>10. Delivering'
  <2>1. OneDelivery'
    BY <1>1, <1>2, <1>9 DEF Delivering, OneDelivery
  <2>2. ASSUME NEW a \in InFlight
        PROVE  /\ par[a] \in Known
               /\ handle'[par[a]].st \in {"running", "waiting"} \/ TerminalIn(handle', par[a])
               /\ ~TerminalIn(handle', par[a]) => handle'[par[a]].ids # {}
               /\ was[a] /\ par[a] \in Answers => task'[par[a]] = "ended"
    <3>1. /\ par[a] \in Known
          /\ State(par[a]) \in {"running", "waiting"} \/ Terminal(par[a])
          /\ ~Terminal(par[a]) => Ids(par[a]) # {}
          /\ was[a] /\ par[a] \in Answers => task[par[a]] = "ended"
      BY <1>1 DEF Delivering
    <3>2. par[a] \in Execs
      BY <1>1, <3>1, KnownFacts
    <3>3. QED
      BY <1>2, <1>5, <1>7, <3>1, <3>2
  <2>3. QED
    BY <1>2, <1>4, <1>9, <2>1, <2>2 DEF Delivering, State, Ids, Terminal, answerVars
<1>11. Cleared'
  <2>1. \A x \in Execs : TerminalIn(handle', x) => handle'[x].ids = {}
    BY <1>1, <1>2, <1>5 DEF Cleared
  <2>2. \A a \in UnaryAnswers : task'[a] # "ended" => handle'[a].ids = {}
    BY <1>1, <1>2, <1>7, Kinds DEF Cleared
  <2>3. QED
    BY <2>1, <2>2 DEF Cleared, Terminal, Ids
<1>12. GateGuards'
  BY <1>2 DEF GateGuards
<1>13. QED
  BY <1>1, <1>2, <1>3, <1>6, <1>8, <1>10, <1>11, <1>12 DEF CoreInv

LEMMA AskRoot ==
    ASSUME CoreInv, RootInv, BelowAsks = FALSE, NEW e \in Execs, NEW q \in Questions, Ask(e, q)
    PROVE  RootInv'
<1>1. /\ TypeOK /\ Ordered /\ Tasks /\ Delivering /\ RootAsks /\ PauseHasQuestion /\ Driven
  BY DEF CoreInv, RootInv
<1>2. /\ \A x \in Execs : Loosened(task, x) /\ handle'[x].st = State(x)
      /\ \A x \in Execs : /\ x # e => handle'[x].ids = Ids(x)
                          /\ Ids(x) \subseteq handle'[x].ids
      /\ AncestorIn(e, Heartbeats) \in {None, e}
      /\ UNCHANGED <<par, was, sweep, fenced>>
  BY AskFacts DEF answerVars
<1>3. RootAsks'
  <2>1. ASSUME NEW x \in Execs, handle'[x].ids # {}
        PROVE  AncestorIn(x, Heartbeats)' \in {None, x}
    <3>1. AncestorIn(x, Heartbeats) \in {None, x}
      BY <1>1, <1>2, <2>1 DEF RootAsks
    <3>2. QED
      BY <1>2, <3>1, SameAncestors
  <2>2. QED
    BY <2>1 DEF RootAsks, Ids
<1>4. PauseHasQuestion'
  <2>1. \A x \in Execs : handle'[x].st = "waiting" => handle'[x].ids # {}
    BY <1>1, <1>2 DEF PauseHasQuestion
  <2>2. QED
    BY <2>1 DEF PauseHasQuestion, State, Ids
<1>5. InFlight' = InFlight
  BY <1>1, <1>2, Kinds DEF InFlight, Tasks, Loosened
<1>6. \A x \in Execs : Drives(x) => Drives(x)'
  BY <1>2 DEF Drives, TaskLive, Loosened
<1>7. Driven'
  <2>1. SUFFICES ASSUME ~fenced
                 PROVE  /\ \A x \in Execs : handle'[x].st = "running" =>
                             Drives(x)' \/ Deliveries(x)' # {}
                        /\ \A a \in InFlight : ~was[a] /\ handle'[par[a]].st = "running"
                             => Drives(par[a])'
    BY <1>2, <1>5 DEF Driven, State, Drives, TaskLive
  <2>2. ASSUME NEW x \in Execs, handle'[x].st = "running"
        PROVE  Drives(x)' \/ Deliveries(x)' # {}
    <3>1. Deliveries(x)' = Deliveries(x)
      BY <1>2, <1>5 DEF Deliveries
    <3>2. State(x) = "running"
      BY <1>2, <2>2
    <3>3. QED
      BY <1>1, <1>6, <2>1, <3>1, <3>2 DEF Driven
  <2>3. ASSUME NEW a \in InFlight, ~was[a], handle'[par[a]].st = "running"
        PROVE  Drives(par[a])'
    <3>1. PICK y \in Execs : y = par[a]
      BY <1>1, KnownFacts DEF Delivering
    <3>2. State(y) = "running"
      BY <1>2, <2>3, <3>1
    <3>3. Drives(y)
      BY <1>1, <2>1, <2>3, <3>1, <3>2 DEF Driven
    <3>4. Drives(y)'
      BY <1>6, <3>3
    <3>5. QED
      BY <1>2, <3>1, <3>4
  <2>4. QED
    BY <2>2, <2>3
<1>8. QED
  BY <1>3, <1>4, <1>7 DEF RootInv

-----------------------------------------------------------------------------
(* A turn of the claim of an answer *)

\* The answer is refused, or waits for the delivery in flight.
Stays(a) ==
    /\ task'[a] \in {"ended", "claiming"} /\ task' \in [Execs -> TaskStates]
    /\ \A x \in Execs \ {a} : task'[x] = task[x]
    /\ \A b \in Answers \ {a} : was'[b] = was[b]
    /\ names' \in [Answers -> {<<>>} \cup Tuples] /\ on' \in [Answers -> Answers \cup {None}]
    /\ waitFor' \in [Answers -> Execs \cup {None}]
    /\ claimed' \in [Answers -> SUBSET Questions] /\ was' \in [Answers -> BOOLEAN]
    /\ reissued' \in [Answers -> SUBSET Questions]
    /\ UNCHANGED <<handle, cancelReq, par, order, rec, gate, cancelling, reap, expired,
                   asked, sweep, fenced, faults>>

\* It becomes a running child of the execution that asked.
Takes(a, p) ==
    /\ Asker(p) /\ Deliveries(p) = {}
    /\ handle' \in Handles
    /\ \A x \in Execs \ {a} : /\ handle'[x].ids = Ids(x)
                              /\ x # p => handle'[x].st = State(x)
    /\ handle'[p].st = "running" /\ handle'[a].st = "running" /\ handle'[a].ids = Ids(a)
    /\ par' = [par EXCEPT ![a] = p] /\ order' = Append(order, a) /\ rec' = "ACTIVE"
    /\ task' = [task EXCEPT ![a] = "running"]
    /\ \A b \in Answers \ {a} : was'[b] = was[b]
    /\ was'[a] = (State(p) = "waiting")
    /\ names' \in [Answers -> {<<>>} \cup Tuples] /\ on' \in [Answers -> Answers \cup {None}]
    /\ waitFor' \in [Answers -> Execs \cup {None}]
    /\ claimed' \in [Answers -> SUBSET Questions] /\ was' \in [Answers -> BOOLEAN]
    /\ reissued' \in [Answers -> SUBSET Questions]
    /\ UNCHANGED <<cancelReq, gate, cancelling, reap, expired, asked, sweep, fenced, faults>>

LEMMA ForgetFacts ==
    ASSUME TypeOK, NEW a \in Answers, Forget(a)
    PROVE  /\ names' \in [Answers -> {<<>>} \cup Tuples] /\ on' \in [Answers -> Answers \cup {None}]
           /\ waitFor' \in [Answers -> Execs \cup {None}]
           /\ claimed' \in [Answers -> SUBSET Questions] /\ was' \in [Answers -> BOOLEAN]
           /\ reissued' \in [Answers -> SUBSET Questions]
           /\ \A b \in Answers \ {a} : was'[b] = was[b]
<1>1. names' \in [Answers -> {<<>>} \cup Tuples] /\ on' \in [Answers -> Answers \cup {None}]
  BY DEF TypeOK, Forget
<1>2. waitFor' \in [Answers -> Execs \cup {None}] /\ claimed' \in [Answers -> SUBSET Questions]
  BY DEF TypeOK, Forget
<1>3. was' \in [Answers -> BOOLEAN] /\ \A b \in Answers \ {a} : was'[b] = was[b]
  BY DEF TypeOK, Forget
<1>4. reissued' \in [Answers -> SUBSET Questions]
  BY DEF TypeOK, Forget
<1>5. QED
  BY <1>1, <1>2, <1>3, <1>4

LEMMA ClaimFacts ==
    ASSUME CoreInv, NEW a \in Answers, NEW ids \in {<<>>} \cup Tuples, Claim(a, ids),
           UNCHANGED <<cancelling, reap, expired, asked, sweep, fenced, faults>>
    PROVE  Stays(a) \/ \E p \in Execs : Takes(a, p)
<1>1. TypeOK /\ Ordered /\ handle \in Handles
  BY DEF CoreInv, TypeOK, Handles
<1>2. a \in Execs
  BY Kinds
<1> DEFINE target == ControlTarget(ids)
           refused == \/ ~Open
                      \/ \E b \in InFlight : NamesOf(ids) \subseteq NamesOf(names[b])
                      \/ target = None
                      \/ /\ waitFor[a] # None /\ target # None
                         /\ waitFor[a] \notin Ancestors(target)
           heartbeat == AncestorIn(target, Heartbeats)
<1>3. CASE /\ task' = [task EXCEPT ![a] = "ended"]
           /\ Forget(a)
           /\ UNCHANGED <<handle, cancelReq, par, order, rec, gate>>
  <2>1. /\ task'[a] = "ended" /\ task' \in [Execs -> TaskStates]
        /\ \A x \in Execs \ {a} : task'[x] = task[x]
    BY <1>1, <1>2, <1>3 DEF TypeOK, TaskStates
  <2>2. Stays(a)
    BY <1>1, <1>3, <2>1, ForgetFacts DEF Stays
  <2>3. QED
    BY <2>2
<1>4. ~refused => Asker(target)
  BY <1>1, ControlTargetFacts
<1> HIDE DEF target, refused
<1>5. CASE /\ ~refused /\ Busy(target)
           /\ task' = [task EXCEPT ![a] = "claiming"]
           /\ names' = [names EXCEPT ![a] = ids]
           /\ on' = [on EXCEPT ![a] = CHOOSE b \in Deliveries(target) : TRUE]
           /\ waitFor' = [waitFor EXCEPT ![a] = IF heartbeat = None THEN target ELSE heartbeat]
           /\ UNCHANGED <<handle, cancelReq, par, order, rec, gate, claimed, was, reissued>>
  <2>1. /\ task'[a] = "claiming" /\ task' \in [Execs -> TaskStates]
        /\ \A x \in Execs \ {a} : task'[x] = task[x]
    BY <1>1, <1>2, <1>5 DEF TypeOK, TaskStates
  <2>2. on' \in [Answers -> Answers \cup {None}]
    <3>1. PICK b \in Answers : b = CHOOSE d \in Deliveries(target) : TRUE
      BY <1>5 DEF Busy, Deliveries, InFlight
    <3>2. on' = [on EXCEPT ![a] = b]
      BY <1>5, <3>1
    <3>3. QED
      BY <1>1, <3>2 DEF TypeOK
  <2>3. waitFor' \in [Answers -> Execs \cup {None}]
    <3>1. PICK w \in Execs : w = IF heartbeat = None THEN target ELSE heartbeat
      <4>1. target \in Execs
        BY <1>4, <1>5 DEF Asker
      <4>2. heartbeat = None \/ heartbeat \in Heartbeats
        BY AncestorInFacts
      <4>3. QED
        BY <4>1, <4>2, Kinds
    <3>2. waitFor' = [waitFor EXCEPT ![a] = w]
      BY <1>5, <3>1
    <3>3. QED
      BY <1>1, <3>2 DEF TypeOK
  <2>4. names' \in [Answers -> {<<>>} \cup Tuples]
    BY <1>1, <1>5 DEF TypeOK
  <2>5. Stays(a)
    BY <1>1, <1>5, <2>1, <2>2, <2>3, <2>4 DEF Stays, TypeOK
  <2>6. QED
    BY <2>5
<1>6. CASE /\ ~refused /\ ~Busy(target)
           /\ handle' = [ResumeWaiting(handle, target) EXCEPT ![a].st = "running"]
           /\ par' = [par EXCEPT ![a] = target]
           /\ order' = Append(order, a)
           /\ rec' = "ACTIVE"
           /\ task' = [task EXCEPT ![a] = "running"]
           /\ names' = [names EXCEPT ![a] = ids]
           /\ claimed' = [claimed EXCEPT ![a] = Ids(target)]
           /\ was' = [was EXCEPT ![a] = State(target) = "waiting"]
           /\ on' = [on EXCEPT ![a] = None]
           /\ waitFor' = [waitFor EXCEPT ![a] = None]
           /\ UNCHANGED <<cancelReq, gate, reissued>>
  <2>1. /\ Asker(target) /\ target \in Execs /\ Deliveries(target) = {}
        /\ State(target) \in {"running", "waiting"}
    BY <1>4, <1>6 DEF Asker, Busy
  <2> DEFINE h == ResumeWaiting(handle, target)
  <2>2. /\ h \in Handles /\ \A x \in Execs : h[x].ids = Ids(x)
        /\ \A x \in Execs \ {target} : h[x] = handle[x]
        /\ h[target].st = "running"
    <3>1. PICK st \in ExecStates : st = IF handle[target].st = "waiting" THEN "running" ELSE handle[target].st
      BY <1>1, <2>1 DEF Handles, ExecStates
    <3>2. h = [handle EXCEPT ![target].st = st]
      BY <1>1, <2>1, <3>1 DEF ResumeWaiting, Handles
    <3> HIDE DEF h
    <3>3. h \in Handles /\ \A x \in Execs : h[x].ids = Ids(x)
      BY <1>1, <2>1, <3>2 DEF Handles, Ids
    <3>4. h[target].st = st /\ \A x \in Execs \ {target} : h[x] = handle[x]
      BY <1>1, <2>1, <3>2 DEF Handles
    <3>5. QED
      BY <2>1, <3>1, <3>3, <3>4 DEF State
  <2>3. handle' = [h EXCEPT ![a].st = "running"]
    BY <1>6
  <2> HIDE DEF h
  <2>4. handle' \in Handles /\ \A x \in Execs : handle'[x].ids = Ids(x)
    BY <1>2, <2>2, <2>3 DEF Handles, ExecStates
  <2>5. handle'[a].st = "running" /\ \A x \in Execs \ {a} : handle'[x] = h[x]
    BY <1>2, <2>2, <2>3 DEF Handles
  <2>6. handle'[target].st = "running" /\ \A x \in Execs \ {a} : x # target => handle'[x].st = State(x)
    BY <2>1, <2>2, <2>5 DEF State
  <2>7. /\ names' \in [Answers -> {<<>>} \cup Tuples] /\ on' \in [Answers -> Answers \cup {None}]
        /\ waitFor' \in [Answers -> Execs \cup {None}]
    BY <1>1, <1>6 DEF TypeOK
  <2>8. claimed' \in [Answers -> SUBSET Questions]
    <3>1. Ids(target) \in SUBSET Questions
      BY <1>1, <2>1 DEF Handles, Ids
    <3>2. QED
      BY <1>1, <1>6, <3>1 DEF TypeOK
  <2>9. /\ was' \in [Answers -> BOOLEAN] /\ was'[a] = (State(target) = "waiting")
        /\ \A b \in Answers \ {a} : was'[b] = was[b]
    <3>1. PICK w \in BOOLEAN : w = (State(target) = "waiting")
      OBVIOUS
    <3>2. was' = [was EXCEPT ![a] = w]
      BY <1>6, <3>1
    <3>3. was' \in [Answers -> BOOLEAN] /\ was'[a] = w /\ \A b \in Answers \ {a} : was'[b] = was[b]
      BY <1>1, <3>2 DEF TypeOK
    <3>4. QED
      BY <3>1, <3>3
  <2>10. Takes(a, target)
    BY <1>1, <1>2, <1>6, <2>1, <2>4, <2>5, <2>6, <2>7, <2>8, <2>9 DEF Takes, TypeOK
  <2>11. QED
    BY <2>1, <2>10
<1>7. QED
  BY <1>3, <1>5, <1>6 DEF Claim, target, refused

LEMMA StaysKeeps ==
    ASSUME CoreInv, NEW a \in Answers, task[a] \in {"none", "claiming"}, Stays(a)
    PROVE  CoreInv' /\ (RootInv => RootInv')
<1>1. /\ TypeOK /\ Ordered /\ Tasks /\ Delivering /\ Cleared /\ GateGuards
  BY DEF CoreInv
<1>2. /\ UNCHANGED <<handle, cancelReq, par, order, rec, gate, cancelling, reap, expired,
                     asked, sweep, fenced, faults>>
      /\ task'[a] \in {"ended", "claiming"} /\ \A x \in Execs \ {a} : task'[x] = task[x]
      /\ \A b \in Answers \ {a} : was'[b] = was[b]
  BY DEF Stays
<1>3. a \in Execs /\ a \notin Roots /\ a \notin Heartbeats /\ State(a) = "none"
  BY <1>1, Kinds DEF Tasks
<1>4. TypeOK'
  BY <1>1 DEF TypeOK, Stays
<1>5. Ordered' /\ Known' = Known
  BY <1>1, <1>2 DEF Ordered, Known, State, Ids
<1>6. Tasks'
  <2>1. ASSUME NEW b \in Answers
        PROVE  /\ task'[b] \in {"none", "claiming", "running", "ended"}
               /\ task'[b] \in {"none", "claiming"} => State(b) = "none"
               /\ task'[b] = "running" => State(b) = "running"
    BY <1>1, <1>2, <1>3, Kinds DEF Tasks
  <2>2. ASSUME NEW x \in Roots PROVE task'[x] = "none" <=> State(x) = "none"
    BY <1>1, <1>2, <1>3, Kinds DEF Tasks
  <2>3. ASSUME NEW x \in Execs
        PROVE  /\ task'[x] \in Waits => State(x) = "queued" \/ Terminal(x)
               /\ task'[x] = "raised" => Terminal(x) \/ reap[x].again
               /\ task'[x] \in {"reaping", "joining"} => Terminal(x)
    BY <1>1, <1>2 DEF Tasks, Waits
  <2>4. ASSUME NEW h \in Heartbeats
        PROVE  /\ task'[h] \notin Waits \cup {"raised"}
               /\ State(h) # "none" /\ task'[h] \in {"none", "ended"} => Terminal(h)
    BY <1>1, <1>2, <1>3, Kinds DEF Tasks, TaskLive
  <2>5. QED
    BY <1>2, <2>1, <2>2, <2>3, <2>4 DEF Tasks, State, Terminal, TerminalIn, TaskLive
<1>7. InFlight' = InFlight /\ a \notin InFlight
  BY <1>2, Kinds DEF InFlight
<1>8. Delivering'
  <2>1. \A b \in InFlight : was'[b] = was[b]
    BY <1>2, <1>7 DEF InFlight
  <2>2. \A b \in InFlight : par[b] \in Execs /\ par[b] # a
    BY <1>1, <1>3, KnownFacts DEF Delivering, Terminal, TerminalIn, State
  <2>3. QED
    BY <1>1, <1>2, <1>5, <1>7, <2>1, <2>2 DEF Delivering, OneDelivery, State, Ids, Terminal, TerminalIn
<1>9. Cleared'
  <2>1. \A b \in UnaryAnswers : task'[b] # "ended" => Ids(b) = {}
    BY <1>1, <1>2, <1>3, Kinds DEF Cleared
  <2>2. QED
    BY <1>1, <1>2, <2>1 DEF Cleared, Terminal, TerminalIn, Ids
<1>10. GateGuards'
  BY <1>1, <1>2 DEF GateGuards, GateOf, ActiveIn, TerminalIn
<1>11. CoreInv'
  BY <1>2, <1>4, <1>5, <1>6, <1>8, <1>9, <1>10 DEF CoreInv
<1>12. ASSUME RootInv PROVE RootInv'
  <2>1. RootAsks /\ PauseHasQuestion /\ Driven
    BY <1>12 DEF RootInv
  <2>2. RootAsks'
    BY <1>2, <2>1, SameAncestors DEF RootAsks, Ids
  <2>3. PauseHasQuestion'
    BY <1>2, <2>1 DEF PauseHasQuestion, State, Ids
  <2>4. \A x \in Execs : Drives(x) /\ x # a => Drives(x)'
    BY <1>2 DEF Drives, TaskLive
  <2>5. \A x \in Execs : Deliveries(x)' = Deliveries(x)
    BY <1>2, <1>7 DEF Deliveries
  <2>6. ASSUME NEW b \in InFlight, ~fenced, ~was'[b], State(par[b]) = "running"
        PROVE  Drives(par[b])'
    <3>1. PICK y \in Execs : y = par[b] /\ y # a
      BY <1>1, <1>3, KnownFacts DEF Delivering, Terminal, TerminalIn, State
    <3>2. ~was[b]
      BY <1>2, <1>7, <2>6 DEF InFlight
    <3>3. Drives(y)
      BY <2>1, <2>6, <3>1, <3>2 DEF Driven
    <3>4. Drives(y)'
      BY <2>4, <3>1, <3>3
    <3>5. QED
      BY <1>2, <3>1, <3>4
  <2>7. ASSUME NEW x \in Execs, ~fenced, State(x) = "running"
        PROVE  Drives(x)' \/ Deliveries(x)' # {}
    BY <1>3, <2>1, <2>4, <2>5, <2>7 DEF Driven
  <2>8. Driven'
    BY <1>2, <1>7, <2>6, <2>7 DEF Driven, State
  <2>9. QED
    BY <2>2, <2>3, <2>8 DEF RootInv
<1>13. QED
  BY <1>11, <1>12

LEMMA TakesCore ==
    ASSUME CoreInv, NEW a \in Answers, task[a] \in {"none", "claiming"}, NEW p \in Execs, Takes(a, p)
    PROVE  /\ CoreInv' /\ a \in Execs \ Known /\ p # a /\ p \in Known
           /\ InFlight' = InFlight \cup {a} /\ par'[a] = p
           /\ \A x \in Execs \ {a} : par'[x] = par[x] /\ task'[x] = task[x]
           /\ \A b \in InFlight : b # a /\ par[b] \in Execs /\ par[b] \notin {a, p}
<1>1. /\ TypeOK /\ Ordered /\ Tasks /\ Delivering /\ Cleared /\ GateGuards
  BY DEF CoreInv
<1>2. /\ handle' \in Handles
      /\ \A x \in Execs \ {a} : /\ handle'[x].ids = Ids(x)
                                /\ x # p => handle'[x].st = State(x)
      /\ handle'[p].st = "running" /\ handle'[a].st = "running" /\ handle'[a].ids = Ids(a)
      /\ par' = [par EXCEPT ![a] = p] /\ order' = Append(order, a) /\ rec' = "ACTIVE"
      /\ task' = [task EXCEPT ![a] = "running"]
      /\ \A b \in Answers \ {a} : was'[b] = was[b]
      /\ was'[a] = (State(p) = "waiting")
      /\ UNCHANGED <<cancelReq, gate, cancelling, reap, expired, asked, sweep, fenced, faults>>
  BY DEF Takes
<1>3. /\ p \in Known /\ Ids(p) # {} /\ State(p) \in {"running", "waiting"} /\ Deliveries(p) = {}
  BY DEF Takes, Asker
<1>4. a \in Execs /\ a \notin Roots /\ a \notin Heartbeats /\ State(a) = "none"
  BY <1>1, Kinds DEF Tasks
<1>5. a \notin Known /\ p # a /\ Ids(a) = {}
  BY <1>1, <1>3, <1>4 DEF Ordered
<1>6. /\ task' \in [Execs -> TaskStates] /\ task'[a] = "running"
      /\ \A x \in Execs \ {a} : task'[x] = task[x]
  BY <1>1, <1>2, <1>4 DEF TypeOK, TaskStates
<1>7. /\ par' \in [Execs -> Execs \cup {None}] /\ par'[a] = p
      /\ \A x \in Execs \ {a} : par'[x] = par[x]
  BY <1>1, <1>2, <1>4 DEF TypeOK
<1>8. TypeOK'
  <2>1. order' \in Seq(Execs)
    BY <1>1, <1>2, <1>4, AppendProperties DEF TypeOK
  <2>2. QED
    BY <1>1, <1>6, <1>7, <2>1 DEF TypeOK, Takes, Handles
<1>9. Ordered' /\ Known' = Known \cup {a}
  <2>1. \A x \in Execs \ {a} : handle'[x].st # "none" <=> State(x) # "none"
    BY <1>2, <1>3
  <2>2. \A x \in Execs \ Known : x # a => handle'[x].ids = {}
    BY <1>1, <1>2 DEF Ordered
  <2>3. /\ handle'[a].st # "none" /\ (a \in Answers => p # None)
        /\ (p # None => a \in Inputs \cup Answers)
    BY <1>2, Kinds
  <2>4. QED
    BY <1>1, <1>2, <1>3, <1>4, <1>5, <2>1, <2>2, <2>3, RegisterFacts
<1>10. \A x \in Execs \ {a, p} : TerminalIn(handle', x) <=> Terminal(x)
  BY <1>2 DEF Terminal, TerminalIn, State
<1>11. /\ task[p] \notin Waits \cup {"reaping", "joining", "none"} /\ ~Terminal(p)
       /\ p \in Answers => task[p] # "claiming"
       /\ ~TerminalIn(handle', p) /\ ~TerminalIn(handle', a)
  <2>1. ~Terminal(p) /\ State(p) # "none" /\ State(p) # "queued"
    BY <1>3 DEF Terminal, TerminalIn, State
  <2>2. task[p] # "none" /\ (p \in Answers => task[p] # "claiming")
    <3>1. CASE p \in Answers
      BY <1>1, <2>1, <3>1 DEF Tasks
    <3>2. CASE p \in Roots
      BY <1>1, <2>1, <3>2, Kinds DEF Tasks
    <3>3. QED
      BY <3>1, <3>2, Kinds
  <2>3. QED
    BY <1>1, <1>2, <2>1, <2>2 DEF Tasks, TerminalIn
<1>12. Tasks'
  <2>1. ASSUME NEW b \in Answers
        PROVE  /\ task'[b] \in {"none", "claiming", "running", "ended"}
               /\ task'[b] \in {"none", "claiming"} => handle'[b].st = "none"
               /\ task'[b] = "running" => handle'[b].st = "running"
    <3>1. CASE b \in {a, p}
      BY <1>1, <1>2, <1>6, <1>11, <3>1 DEF Tasks
    <3>2. CASE b \notin {a, p}
      BY <1>1, <1>2, <1>6, <3>2, Kinds DEF Tasks
    <3>3. QED
      BY <3>1, <3>2
  <2>2. ASSUME NEW x \in Roots PROVE task'[x] = "none" <=> handle'[x].st = "none"
    <3>1. CASE x = p
      BY <1>2, <1>4, <1>6, <1>11, <3>1
    <3>2. CASE x # p
      BY <1>1, <1>2, <1>4, <1>6, <3>2, Kinds DEF Tasks
    <3>3. QED
      BY <3>1, <3>2
  <2>3. ASSUME NEW x \in Execs
        PROVE  /\ task'[x] \in Waits => handle'[x].st = "queued" \/ TerminalIn(handle', x)
               /\ task'[x] = "raised" => TerminalIn(handle', x) \/ reap'[x].again
               /\ task'[x] \in {"reaping", "joining"} => TerminalIn(handle', x)
    <3>1. CASE x = a
      BY <1>6, <3>1 DEF Waits
    <3>2. CASE x = p
      BY <1>1, <1>2, <1>5, <1>6, <1>11, <3>2 DEF Tasks
    <3>3. CASE x \notin {a, p}
      BY <1>1, <1>2, <1>6, <1>10, <3>3 DEF Tasks
    <3>4. QED
      BY <3>1, <3>2, <3>3
  <2>4. ASSUME NEW h \in Heartbeats
        PROVE  /\ task'[h] \notin Waits \cup {"raised"}
               /\ handle'[h].st # "none" /\ task'[h] \in {"none", "ended"} => TerminalIn(handle', h)
    <3>1. h \in Execs /\ h # a /\ task'[h] = task[h]
      BY <1>4, <1>6, Kinds
    <3>2. task[h] \notin Waits \cup {"raised"} /\ (State(h) # "none" /\ ~TaskLive(h) => Terminal(h))
      BY <1>1 DEF Tasks
    <3>3. CASE h = p
      <4>1. TaskLive(p)
        BY <1>3, <1>11, <3>2, <3>3
      <4>2. QED
        BY <3>1, <3>2, <3>3, <4>1 DEF TaskLive
    <3>4. CASE h # p
      BY <1>2, <1>10, <3>1, <3>2, <3>4 DEF TaskLive
    <3>5. QED
      BY <3>3, <3>4
  <2>5. QED
    BY <2>1, <2>2, <2>3, <2>4 DEF Tasks, State, Terminal, TaskLive
<1>13. InFlight' = InFlight \cup {a}
  BY <1>6, Kinds DEF InFlight
<1>14. \A b \in InFlight : b \in Execs /\ b # a /\ par[b] \in Execs /\ par[b] \notin {a, p}
  <2>1. SUFFICES ASSUME NEW b \in InFlight PROVE b \in Execs /\ b # a /\ par[b] \in Execs /\ par[b] \notin {a, p}
    OBVIOUS
  <2>2. b \in Execs /\ b # a
    BY Kinds DEF InFlight
  <2>3. par[b] \in Known
    BY <1>1 DEF Delivering
  <2>4. par[b] \in Execs
    BY <1>1, <2>3, KnownFacts
  <2>5. QED
    BY <1>3, <1>5, <2>2, <2>3, <2>4 DEF Deliveries
<1>15. Delivering'
  <2>1. OneDelivery'
    BY <1>1, <1>7, <1>13, <1>14 DEF Delivering, OneDelivery
  <2>2. ASSUME NEW b \in InFlight
        PROVE  /\ par'[b] \in Known'
               /\ handle'[par'[b]].st \in {"running", "waiting"} \/ TerminalIn(handle', par'[b])
               /\ ~TerminalIn(handle', par'[b]) => handle'[par'[b]].ids # {}
               /\ was'[b] /\ par'[b] \in Answers => task'[par'[b]] = "ended"
    <3>1. PICK y \in Execs \ {a, p} : y = par[b] /\ y = par'[b]
      BY <1>7, <1>14
    <3>2. /\ y \in Known /\ (State(y) \in {"running", "waiting"} \/ Terminal(y))
          /\ ~Terminal(y) => Ids(y) # {}
          /\ was[b] /\ y \in Answers => task[y] = "ended"
      BY <1>1, <3>1 DEF Delivering
    <3>3. was'[b] = was[b] /\ task'[y] = task[y] /\ y \in Known'
      BY <1>1, <1>2, <1>6, <1>9, <1>14, <3>1 DEF InFlight, Delivering
    <3>4. handle'[y].st = State(y) /\ handle'[y].ids = Ids(y) /\ (TerminalIn(handle', y) <=> Terminal(y))
      BY <1>2, <1>10, <3>1
    <3>5. QED
      BY <3>1, <3>2, <3>3, <3>4
  <2>3. /\ par'[a] \in Known' /\ handle'[par'[a]].st = "running" /\ handle'[par'[a]].ids # {}
        /\ was'[a] /\ par'[a] \in Answers => task'[par'[a]] = "ended"
    <3>1. p \in Answers /\ State(p) = "waiting" => task[p] = "ended"
      BY <1>1, <1>11 DEF Tasks
    <3>2. was'[a] /\ p \in Answers => task'[p] = "ended"
      BY <1>2, <1>5, <1>6, <3>1
    <3>3. QED
      BY <1>2, <1>3, <1>5, <1>7, <1>9, <3>2
  <2>4. QED
    BY <1>13, <2>1, <2>2, <2>3 DEF Delivering, State, Ids, Terminal
<1>16. Cleared'
  <2>1. \A x \in Execs : TerminalIn(handle', x) => handle'[x].ids = {}
    BY <1>1, <1>2, <1>10, <1>11 DEF Cleared
  <2>2. \A b \in UnaryAnswers : task'[b] # "ended" => handle'[b].ids = {}
    BY <1>1, <1>2, <1>5, <1>6, Kinds DEF Cleared
  <2>3. QED
    BY <2>1, <2>2 DEF Cleared, Terminal, Ids
<1>17. GateGuards'
  <2>1. ~GateOf(handle)
    BY <1>3 DEF GateOf, ActiveIn, TerminalIn, State, Ids
  <2>2. QED
    BY <1>1, <1>2, <2>1 DEF GateGuards
<1>18. (rec' = "QUIESCING" => fenced') /\ (sweep'.ph = "idle" => sweep'.set = {})
  BY <1>2 DEF CoreInv
<1>19. CoreInv'
  BY <1>8, <1>9, <1>12, <1>15, <1>16, <1>17, <1>18 DEF CoreInv
<1>20. QED
  BY <1>3, <1>4, <1>5, <1>6, <1>7, <1>13, <1>14, <1>19

LEMMA TakesRoot ==
    ASSUME CoreInv, RootInv, NEW a \in Answers, task[a] \in {"none", "claiming"},
           NEW p \in Execs, Takes(a, p)
    PROVE  RootInv'
<1>1. /\ TypeOK /\ Ordered /\ Tasks /\ Delivering /\ RootAsks /\ PauseHasQuestion /\ Driven
  BY DEF CoreInv, RootInv
<1>2. /\ \A x \in Execs \ {a} : /\ handle'[x].ids = Ids(x)
                                /\ x # p => handle'[x].st = State(x)
      /\ handle'[p].st = "running" /\ handle'[a].st = "running" /\ handle'[a].ids = Ids(a)
      /\ par' = [par EXCEPT ![a] = p] /\ task'[a] = "running"
      /\ \A b \in Answers \ {a} : was'[b] = was[b]
      /\ was'[a] = (State(p) = "waiting") /\ Deliveries(p) = {}
      /\ State(p) \in {"running", "waiting"}
      /\ UNCHANGED <<sweep, fenced>>
  <2>1. task'[a] = "running"
    BY <1>1, Kinds DEF Takes, TypeOK
  <2>2. QED
    BY <2>1 DEF Takes, Asker
<1>3. /\ a \in Execs \ Known /\ p # a /\ p \in Known
      /\ InFlight' = InFlight \cup {a} /\ par'[a] = p
      /\ \A x \in Execs \ {a} : par'[x] = par[x] /\ task'[x] = task[x]
      /\ \A b \in InFlight : b # a /\ par[b] \in Execs /\ par[b] \notin {a, p}
  BY TakesCore
<1>4. Ids(a) = {}
  BY <1>1, <1>3 DEF Ordered
<1>5. RootAsks'
  <2>1. ASSUME NEW x \in Execs, handle'[x].ids # {}
        PROVE  AncestorIn(x, Heartbeats)' \in {None, x}
    <3>1. x # a /\ Ids(x) # {}
      BY <1>2, <1>4, <2>1
    <3>2. x \in Known
      BY <1>1, <3>1 DEF Ordered
    <3>3. AncestorIn(x, Heartbeats)' = AncestorIn(x, Heartbeats)
      BY <1>1, <1>2, <1>3, <3>2, KeptAncestors
    <3>4. QED
      BY <1>1, <3>1, <3>3 DEF RootAsks
  <2>2. QED
    BY <2>1 DEF RootAsks, Ids
<1>6. PauseHasQuestion'
  <2>1. \A x \in Execs : handle'[x].st = "waiting" => handle'[x].ids # {}
    BY <1>1, <1>2 DEF PauseHasQuestion
  <2>2. QED
    BY <2>1 DEF PauseHasQuestion, State, Ids
<1>7. \A x \in Execs : Drives(x) /\ x # a => Drives(x)'
  BY <1>2, <1>3 DEF Drives, TaskLive
<1>8. \A b \in InFlight : par'[b] = par[b] /\ was'[b] = was[b] /\ b \in Execs
  BY <1>2, <1>3, Kinds DEF InFlight
<1>9. Driven'
  <2>1. SUFFICES ASSUME ~fenced
                 PROVE  /\ \A x \in Execs : handle'[x].st = "running" =>
                             Drives(x)' \/ Deliveries(x)' # {}
                        /\ \A b \in InFlight' : ~was'[b] /\ handle'[par'[b]].st = "running"
                             => Drives(par[b])'
    BY <1>2 DEF Driven, State
  <2>2. ASSUME NEW x \in Execs, handle'[x].st = "running"
        PROVE  Drives(x)' \/ Deliveries(x)' # {}
    <3>1. CASE x = a
      BY <1>2, <3>1 DEF Drives, TaskLive
    <3>2. CASE x = p
      BY <1>3, <3>2 DEF Deliveries
    <3>3. CASE x \notin {a, p}
      <4>1. State(x) = "running"
        BY <1>2, <2>2, <3>3
      <4>2. Drives(x) \/ Deliveries(x) # {}
        BY <1>1, <2>1, <4>1 DEF Driven
      <4>3. Deliveries(x) \subseteq Deliveries(x)'
        BY <1>3, <1>8 DEF Deliveries
      <4>4. QED
        BY <1>7, <3>3, <4>2, <4>3
    <3>4. QED
      BY <3>1, <3>2, <3>3
  <2>3. ASSUME NEW b \in InFlight', ~was'[b], handle'[par'[b]].st = "running"
        PROVE  Drives(par[b])'
    <3>1. CASE b = a
      <4>1. State(p) = "running"
        BY <1>2, <2>3, <3>1
      <4>2. Drives(p)
        BY <1>1, <1>2, <2>1, <4>1 DEF Driven
      <4>3. Drives(p)'
        BY <1>3, <1>7, <4>2
      <4>4. QED
        BY <1>3, <3>1, <4>3
    <3>2. CASE b \in InFlight
      <4>1. PICK y \in Execs \ {a, p} : y = par[b] /\ y = par'[b]
        BY <1>3, <1>8, <3>2
      <4>2. State(y) = "running" /\ ~was[b]
        BY <1>2, <1>8, <2>3, <3>2, <4>1
      <4>3. Drives(y)
        BY <1>1, <2>1, <3>2, <4>1, <4>2 DEF Driven
      <4>4. Drives(y)'
        BY <1>7, <4>1, <4>3
      <4>5. QED
        BY <4>1, <4>4
    <3>3. QED
      BY <1>3, <2>3, <3>1, <3>2
  <2>4. QED
    BY <2>2, <2>3
<1>10. QED
  BY <1>5, <1>6, <1>9 DEF RootInv

-----------------------------------------------------------------------------
(* The end of an answer *)

LEMMA ParentDiffers ==
    ASSUME TypeOK, Ordered, NEW e \in Known
    PROVE  par[e] # e
<1>1. SUFFICES ASSUME par[e] = e PROVE FALSE
  OBVIOUS
<1> DEFINE I == {i \in 1..Len(order) : order[i] = e}
<1>2. Len(order) \in Nat /\ e # None
  BY LenProperties, KnownFacts, Kinds DEF TypeOK
<1>3. I # {} /\ I \subseteq Nat
  BY <1>2 DEF Known
<1>4. PICK i \in I : \A j \in I : i <= j
  <2> HIDE DEF I
  <2> QED
    BY <1>3, LeastNumber
<1>5. PICK j \in 1..(i-1) : order[j] = e
  BY <1>1, <1>2 DEF Ordered
<1>6. j \in 1..Len(order) /\ ~(i <= j)
  BY <1>2
<1>7. QED
  BY <1>4, <1>5, <1>6

\* An answer in flight and its parent.
LEMMA InFlightFacts ==
    ASSUME CoreInv, NEW a \in InFlight
    PROVE  /\ a \in Answers /\ a \in Execs /\ a \in Known /\ a \notin Roots /\ a \notin Heartbeats
           /\ task[a] = "running" /\ State(a) = "running"
           /\ ~Terminal(a)
           /\ par[a] \in Execs /\ par[a] \in Known /\ par[a] # a
           /\ ~Terminal(par[a]) => Active(par[a]) /\ Ids(par[a]) # {}
                                   /\ State(par[a]) \in {"running", "waiting"}
           /\ Terminal(par[a]) => Ids(par[a]) = {}
<1>1. /\ TypeOK /\ Ordered /\ Tasks /\ Delivering /\ Cleared
  BY DEF CoreInv
<1>2. a \in Answers /\ a \in Execs /\ a \notin Roots /\ a \notin Heartbeats /\ task[a] = "running"
  BY Kinds DEF InFlight
<1>3. State(a) = "running"
  BY <1>1, <1>2 DEF Tasks
<1>4. ~Terminal(a) /\ a \in Known
  BY <1>1, <1>2, <1>3 DEF Terminal, TerminalIn, State, Ordered
<1>5. par[a] \in Known /\ par[a] \in Execs
  BY <1>1, KnownFacts DEF Delivering
<1>6. par[a] # a
  BY <1>1, <1>4, ParentDiffers
<1>7. /\ State(par[a]) \in {"running", "waiting"} \/ Terminal(par[a])
      /\ ~Terminal(par[a]) => Ids(par[a]) # {}
  BY <1>1 DEF Delivering
<1>8. ~Terminal(par[a]) => Active(par[a])
  BY <1>7 DEF Active, ActiveIn, Terminal, State
<1>9. Terminal(par[a]) => Ids(par[a]) = {}
  BY <1>1, <1>5 DEF Cleared
<1>10. QED
  BY <1>2, <1>3, <1>4, <1>5, <1>6, <1>7, <1>8, <1>9

\* What _answered makes of the parent.
LEMMA AnsweredFacts ==
    ASSUME CoreInv, NEW a \in InFlight, NEW p, p = par[a], NEW R,
           NEW h, h = Answered(handle, p, Taken(a, R), was[a])
    PROVE  /\ h \in Handles /\ \A x \in Execs \ {p} : h[x] = handle[x]
           /\ h[p] = IF Terminal(p) THEN handle[p]
                     ELSE IF was[a] \/ State(p) = "waiting"
                     THEN IF Ids(p) \ Taken(a, R) = {} THEN [st |-> "succeeded", ids |-> {}]
                          ELSE [st |-> "waiting", ids |-> Ids(p) \ Taken(a, R)]
                     ELSE [st |-> State(p), ids |-> Ids(p) \ Taken(a, R)]
<1>1. handle \in Handles /\ p \in Execs /\ (Terminal(p) => Ids(p) = {})
  BY InFlightFacts DEF CoreInv, TypeOK, Handles
<1>2. PICK D : D = Taken(a, R)
  OBVIOUS
<1>3. PICK g : g = Without(handle, p, D)
  OBVIOUS
<1>4. /\ g \in Handles /\ \A x \in Execs \ {p} : g[x] = handle[x]
      /\ g[p] = [st |-> handle[p].st, ids |-> handle[p].ids \ D]
  BY <1>1, <1>3, WithoutFacts
<1>5. g[p].st = State(p) /\ g[p].ids = Ids(p) \ D /\ (TerminalIn(g, p) <=> Terminal(p))
  BY <1>4 DEF Terminal, TerminalIn, State, Ids
<1>6. Terminal(p) => g[p] = handle[p]
  <2>1. ASSUME Terminal(p) PROVE g[p] = handle[p]
    <3>1. handle[p].ids \ D = handle[p].ids
      BY <1>1, <2>1 DEF Ids
    <3>2. handle[p] = [st |-> handle[p].st, ids |-> handle[p].ids]
      BY <1>1 DEF Handles
    <3>3. QED
      BY <1>4, <3>1, <3>2
  <2>2. QED
    BY <2>1
<1>7. CASE was[a] \/ State(p) = "waiting"
  <2>1. h = PauseOrSucceed(g, p)
    BY <1>2, <1>3, <1>7 DEF Answered, Without, State
  <2>2. /\ h \in Handles /\ \A x \in Execs \ {p} : h[x] = g[x]
        /\ h[p] = IF TerminalIn(g, p) THEN g[p]
                  ELSE IF g[p].ids # {} THEN [st |-> "waiting", ids |-> g[p].ids]
                  ELSE [st |-> "succeeded", ids |-> {}]
    <3>1. g \in Handles /\ p \in Execs
      BY <1>1, <1>4
    <3>2. /\ PauseOrSucceed(g, p) \in Handles
          /\ \A x \in Execs \ {p} : PauseOrSucceed(g, p)[x] = g[x]
          /\ PauseOrSucceed(g, p)[p] =
               IF TerminalIn(g, p) THEN g[p]
               ELSE IF g[p].ids # {} THEN [st |-> "waiting", ids |-> g[p].ids]
               ELSE [st |-> "succeeded", ids |-> {}]
      BY <3>1, PauseOrSucceedFacts
    <3>3. QED
      BY <2>1, <3>2
  <2>3. QED
    BY <1>2, <1>4, <1>5, <1>6, <1>7, <2>2
<1>8. CASE ~(was[a] \/ State(p) = "waiting")
  <2>1. h = g
    BY <1>2, <1>3, <1>8 DEF Answered, Without, State
  <2>2. h[p] = IF Terminal(p) THEN handle[p] ELSE [st |-> State(p), ids |-> Ids(p) \ D]
    BY <1>4, <1>6, <2>1 DEF State, Ids
  <2>3. QED
    BY <1>2, <1>4, <1>8, <2>1, <2>2
<1>9. QED
  BY <1>7, <1>8

\* How an answer a to p ends: it failed; its answer came too late; it resolved what p
\* waited on, and asks R itself; or it hands the questions Q to the Heartbeat above.
Fails(a, p) ==
    /\ \A x \in Execs \ {a, p} : handle'[x] = handle[x]
    /\ handle'[a].st \in {"failed", "cancelled"} /\ handle'[a].ids = {}
    /\ handle'[p] = IF was[a] /\ ~Terminal(p) THEN [st |-> "waiting", ids |-> Ids(p)] ELSE handle[p]

Drops(a, p) ==
    /\ \A x \in Execs \ {a} : handle'[x] = handle[x]
    /\ handle'[a].st = "cancelled" /\ handle'[a].ids = {}
    /\ Terminal(p) \/ fenced

Resolves(a, p, R, S) ==
    /\ R \subseteq Questions /\ (a \in UnaryAnswers => S = R)
    /\ a \in StreamAnswers => R = Ids(a) /\ S = reissued[a]
    /\ a \in UnaryAnswers /\ R # {} => AncestorIn(p, Heartbeats) = None
    /\ \A x \in Execs \ {a, p} : handle'[x] = handle[x]
    /\ handle'[a] = IF R = {} THEN [st |-> "succeeded", ids |-> {}] ELSE [st |-> "waiting", ids |-> R]
    /\ handle'[p] = IF Terminal(p) THEN handle[p]
                    ELSE IF was[a] \/ State(p) = "waiting"
                    THEN IF Ids(p) \ Taken(a, S) = {} THEN [st |-> "succeeded", ids |-> {}]
                         ELSE [st |-> "waiting", ids |-> Ids(p) \ Taken(a, S)]
                    ELSE [st |-> State(p), ids |-> Ids(p) \ Taken(a, S)]

HandsUp(a, p, r, Q) ==
    /\ Q \subseteq Questions /\ Q # {} /\ a \in UnaryAnswers /\ ~Terminal(p)
    /\ r \in Heartbeats /\ r \in Ancestors(p) /\ r = AncestorIn(p, Heartbeats)
    /\ handle'[a].st = "succeeded" /\ handle'[a].ids = {}
    /\ \A x \in Execs \ {a, p, r} : handle'[x] = handle[x]
    /\ p # r => /\ handle'[p] = [st |-> State(p), ids |-> Ids(p) \ Taken(a, Q)]
                /\ handle'[r] = IF Terminal(r) THEN handle[r]
                                ELSE [st |-> "waiting", ids |-> Ids(r) \cup Q]
    /\ p = r => handle'[p] = [st |-> "waiting", ids |-> (Ids(p) \ Taken(a, Q)) \cup Q]

LEMMA EndAnswerCases ==
    ASSUME CoreInv, NEW a \in Answers, NEW how \in Ends, NEW Q \in SUBSET Questions,
           EndAnswer(a, how, Q), NEW p, p = par[a]
    PROVE  /\ handle' \in Handles
           /\ \/ Fails(a, p) \/ Drops(a, p)
              \/ \E R, S : Resolves(a, p, R, S)
              \/ \E r : HandsUp(a, p, r, Q)
<1>1. TypeOK /\ Cleared /\ handle \in Handles /\ (rec = "QUIESCING" => fenced)
  BY DEF CoreInv, TypeOK, Handles
<1>2. a \in InFlight
  BY DEF EndAnswer
<1>3. /\ a \in Execs /\ a \notin Heartbeats /\ task[a] = "running" /\ ~Terminal(a)
      /\ p \in Execs /\ p # a /\ (Terminal(p) => Ids(p) = {})
  BY <1>2, InFlightFacts
<1>4. {"succeeded", "failed", "cancelled", "waiting"} \subseteq ExecStates
  BY DEF ExecStates
<1>5. a \in UnaryAnswers => Ids(a) = {}
  BY <1>1, <1>3 DEF Cleared
<1>6. CASE how \in {"raised", "cancelled"}
  <2>1. PICK st \in {"failed", "cancelled"} : handle' = MarkTerminal(PauseAgain(a), a, st)
    <3>1. CASE how = "raised"
      BY <3>1 DEF EndAnswer
    <3>2. CASE how = "cancelled"
      BY <3>2 DEF EndAnswer
    <3>3. QED
      BY <1>6, <3>1, <3>2
  <2> DEFINE h == PauseAgain(a)
  <2>2. /\ h \in Handles /\ \A x \in Execs \ {p} : h[x] = handle[x]
        /\ h[p] = IF was[a] /\ ~Terminal(p) THEN [st |-> "waiting", ids |-> Ids(p)] ELSE handle[p]
    <3>1. CASE was[a]
      <4>1. h = MarkWaiting(handle, p)
        BY <3>1 DEF PauseAgain
      <4> HIDE DEF h
      <4>2. QED
        BY <1>1, <1>3, <3>1, <4>1, MarkWaitingFacts DEF Terminal, Ids
    <3>2. CASE ~was[a]
      <4>1. h = handle
        BY <3>2 DEF PauseAgain
      <4> HIDE DEF h
      <4>2. QED
        BY <1>1, <3>2, <4>1
    <3>3. QED
      BY <3>1, <3>2
  <2>3. handle' = MarkTerminal(h, a, st)
    BY <2>1
  <2> HIDE DEF h
  <2>4. /\ handle' \in Handles /\ \A x \in Execs \ {a} : handle'[x] = h[x]
        /\ handle'[a] = IF TerminalIn(h, a) THEN h[a] ELSE [st |-> st, ids |-> {}]
    BY <1>3, <1>4, <2>2, <2>3, MarkTerminalFacts
  <2>5. ~TerminalIn(h, a)
    BY <1>3, <2>2 DEF Terminal, TerminalIn
  <2>6. handle'[a].st = st /\ handle'[a].ids = {}
    BY <2>4, <2>5
  <2>7. Fails(a, p)
    BY <1>3, <2>2, <2>4, <2>6 DEF Fails
  <2>8. QED
    BY <2>4, <2>7
<1>7. CASE how = "returned" /\ a \in UnaryAnswers
  <2>1. handle' = UnaryReturned(a, Q)
    BY <1>7 DEF EndAnswer
  <2>2. CASE Terminal(p) \/ rec = "QUIESCING"
    <3>1. handle' = MarkTerminal(handle, a, "cancelled")
      BY <2>1, <2>2 DEF UnaryReturned
    <3>2. /\ handle' \in Handles /\ \A x \in Execs \ {a} : handle'[x] = handle[x]
          /\ handle'[a] = IF TerminalIn(handle, a) THEN handle[a] ELSE [st |-> "cancelled", ids |-> {}]
      BY <1>1, <1>3, <1>4, <3>1, MarkTerminalFacts
    <3>3. handle'[a].st = "cancelled" /\ handle'[a].ids = {}
      BY <1>3, <3>2 DEF Terminal
    <3>4. Drops(a, p)
      BY <1>1, <2>2, <3>2, <3>3 DEF Drops
    <3>5. QED
      BY <3>2, <3>4
  <2>3. CASE ~(Terminal(p) \/ rec = "QUIESCING")
    <3> DEFINE h == Answered(handle, p, Taken(a, Q), was[a])
    <3>1. /\ h \in Handles /\ \A x \in Execs \ {p} : h[x] = handle[x]
          /\ h[p] = IF Terminal(p) THEN handle[p]
                    ELSE IF was[a] \/ State(p) = "waiting"
                    THEN IF Ids(p) \ Taken(a, Q) = {} THEN [st |-> "succeeded", ids |-> {}]
                         ELSE [st |-> "waiting", ids |-> Ids(p) \ Taken(a, Q)]
                    ELSE [st |-> State(p), ids |-> Ids(p) \ Taken(a, Q)]
      BY <1>2, AnsweredFacts
    <3>2. ~TerminalIn(h, a) /\ h[a].ids = {}
      <4>1. h[a] = handle[a]
        BY <1>3, <3>1
      <4> HIDE DEF h
      <4>2. QED
        BY <1>3, <1>5, <1>7, <4>1 DEF Terminal, TerminalIn, Ids
    <3> HIDE DEF h
    <3>3. CASE Q = {}
      <4>1. handle' = MarkTerminal(h, a, "succeeded")
        BY <2>1, <2>3, <3>3 DEF UnaryReturned, h
      <4>2. /\ handle' \in Handles /\ \A x \in Execs \ {a} : handle'[x] = h[x]
            /\ handle'[a] = IF TerminalIn(h, a) THEN h[a] ELSE [st |-> "succeeded", ids |-> {}]
        BY <1>3, <1>4, <3>1, <4>1, MarkTerminalFacts
      <4>3. handle'[a] = [st |-> "succeeded", ids |-> {}]
        BY <3>2, <4>2
      <4>4. \A x \in Execs \ {a, p} : handle'[x] = handle[x]
        BY <3>1, <4>2
      <4>5. handle'[p] = h[p]
        BY <1>3, <4>2
      <4>6. a \notin StreamAnswers
        BY <1>7, ControlAssumption
      <4>7. Resolves(a, p, Q, Q)
        BY <3>1, <3>3, <4>3, <4>4, <4>5, <4>6 DEF Resolves
      <4>8. QED
        BY <4>2, <4>7
    <3>4. CASE Q # {} /\ AncestorIn(p, Heartbeats) = None
      <4>1. PICK g : g = MarkAwaiting(h, a, Q)
        OBVIOUS
      <4>2. handle' = MarkWaiting(g, a)
        BY <2>1, <2>3, <3>4, <4>1 DEF UnaryReturned, h
      <4>3. /\ g \in Handles /\ \A x \in Execs \ {a} : g[x] = h[x]
            /\ g[a] = [st |-> h[a].st, ids |-> h[a].ids \cup Q]
        BY <1>3, <3>1, <3>2, <4>1, MarkAwaitingFacts
      <4>4. ~TerminalIn(g, a) /\ g[a].ids = Q
        BY <3>2, <4>3 DEF TerminalIn
      <4>5. /\ handle' \in Handles /\ \A x \in Execs \ {a} : handle'[x] = g[x]
            /\ handle'[a] = [st |-> "waiting", ids |-> Q]
        <5>1. /\ handle' \in Handles /\ \A x \in Execs \ {a} : handle'[x] = g[x]
              /\ handle'[a] =
                   IF TerminalIn(g, a) THEN g[a] ELSE [st |-> "waiting", ids |-> g[a].ids]
          BY <1>3, <4>2, <4>3, MarkWaitingFacts
        <5>2. handle'[a] = [st |-> "waiting", ids |-> Q]
          BY <4>4, <5>1
        <5>3. QED
          BY <5>1, <5>2
      <4>6. a \notin StreamAnswers
        BY <1>7, ControlAssumption
      <4>7. handle'[p] = h[p] /\ \A x \in Execs \ {a, p} : handle'[x] = handle[x]
        BY <1>3, <3>1, <4>3, <4>5
      <4>8. Resolves(a, p, Q, Q)
        BY <3>1, <3>4, <4>5, <4>6, <4>7 DEF Resolves
      <4>9. QED
        BY <4>5, <4>8
    <3>5. CASE Q # {} /\ AncestorIn(p, Heartbeats) # None
      <4>1. PICK r \in Heartbeats : r = AncestorIn(p, Heartbeats) /\ r \in Ancestors(p)
        BY <3>5, AncestorInFacts
      <4>2. r \in Execs /\ r # a
        BY <1>3, Kinds
      <4>3. PICK g1 : g1 = Without(handle, p, Taken(a, Q))
        OBVIOUS
      <4>4. /\ g1 \in Handles /\ \A x \in Execs \ {p} : g1[x] = handle[x]
            /\ g1[p] = [st |-> State(p), ids |-> Ids(p) \ Taken(a, Q)]
        BY <1>1, <1>3, <4>3, WithoutFacts DEF State, Ids
      <4>5. PICK g2 : g2 = MarkAwaiting(g1, r, Q)
        OBVIOUS
      <4>6. /\ g2 \in Handles /\ \A x \in Execs \ {r} : g2[x] = g1[x]
            /\ g2[r] = IF TerminalIn(g1, r) THEN g1[r]
                       ELSE [st |-> g1[r].st, ids |-> g1[r].ids \cup Q]
        BY <4>2, <4>4, <4>5, MarkAwaitingFacts
      <4>7. PICK g3 : g3 = MarkWaiting(g2, r)
        OBVIOUS
      <4>8. /\ g3 \in Handles /\ \A x \in Execs \ {r} : g3[x] = g2[x]
            /\ g3[r] = IF TerminalIn(g2, r) THEN g2[r]
                       ELSE [st |-> "waiting", ids |-> g2[r].ids]
        BY <4>2, <4>6, <4>7, MarkWaitingFacts
      <4>9. g3[r] = IF TerminalIn(g1, r) THEN g1[r]
                    ELSE [st |-> "waiting", ids |-> g1[r].ids \cup Q]
        BY <4>6, <4>8 DEF TerminalIn
      <4>10. handle' = MarkTerminal(g3, a, "succeeded")
        BY <2>1, <2>3, <3>5, <4>1, <4>3, <4>5, <4>7 DEF UnaryReturned, Without
      <4>11. /\ handle' \in Handles /\ \A x \in Execs \ {a} : handle'[x] = g3[x]
             /\ handle'[a] = IF TerminalIn(g3, a) THEN g3[a] ELSE [st |-> "succeeded", ids |-> {}]
        BY <1>3, <1>4, <4>8, <4>10, MarkTerminalFacts
      <4>12. g3[a] = handle[a]
        BY <1>3, <4>2, <4>4, <4>6, <4>8
      <4>13. handle'[a].st = "succeeded" /\ handle'[a].ids = {}
        BY <1>3, <4>11, <4>12 DEF Terminal, TerminalIn
      <4>14. \A x \in Execs \ {a, p, r} : handle'[x] = handle[x]
        BY <4>4, <4>6, <4>8, <4>11
      <4>15. ASSUME p # r
             PROVE  /\ handle'[p] = [st |-> State(p), ids |-> Ids(p) \ Taken(a, Q)]
                    /\ handle'[r] = IF Terminal(r) THEN handle[r]
                                    ELSE [st |-> "waiting", ids |-> Ids(r) \cup Q]
        <5>1. handle'[p] = g1[p]
          BY <1>3, <4>6, <4>8, <4>11, <4>15
        <5>2. handle'[r] = g3[r] /\ g1[r] = handle[r]
          BY <4>2, <4>4, <4>11, <4>15
        <5>3. TerminalIn(g1, r) <=> Terminal(r)
          BY <5>2 DEF Terminal, TerminalIn
        <5>4. QED
          BY <4>4, <4>9, <5>1, <5>2, <5>3 DEF Ids
      <4>16. ASSUME p = r
             PROVE  handle'[p] = [st |-> "waiting", ids |-> (Ids(p) \ Taken(a, Q)) \cup Q]
        <5>1. ~TerminalIn(g1, p)
          BY <2>3, <4>4 DEF Terminal, TerminalIn, State
        <5>2. handle'[p] = g3[p]
          BY <1>3, <4>11
        <5>3. g3[p] = [st |-> "waiting", ids |-> g1[p].ids \cup Q]
          BY <4>9, <4>16, <5>1
        <5>4. QED
          BY <4>4, <5>2, <5>3
      <4>17. HandsUp(a, p, r, Q)
        BY <1>7, <2>3, <3>5, <4>1, <4>13, <4>14, <4>15, <4>16 DEF HandsUp
      <4>18. QED
        BY <4>11, <4>17
    <3>6. QED
      BY <3>3, <3>4, <3>5
  <2>4. QED
    BY <2>2, <2>3
<1>8. CASE how = "returned" /\ a \notin UnaryAnswers
  <2> DEFINE R == Ids(a)
             S == reissued[a]
             h == Answered(handle, p, Taken(a, S), was[a])
  <2>1. handle' = PauseOrSucceed(h, a)
    BY <1>8 DEF EndAnswer, StreamReturned, S
  <2>2. R \subseteq Questions
    BY <1>1, <1>3, StateFacts
  <2> HIDE DEF R, S
  <2>3. /\ h \in Handles /\ \A x \in Execs \ {p} : h[x] = handle[x]
        /\ h[p] = IF Terminal(p) THEN handle[p]
                  ELSE IF was[a] \/ State(p) = "waiting"
                  THEN IF Ids(p) \ Taken(a, S) = {} THEN [st |-> "succeeded", ids |-> {}]
                       ELSE [st |-> "waiting", ids |-> Ids(p) \ Taken(a, S)]
                  ELSE [st |-> State(p), ids |-> Ids(p) \ Taken(a, S)]
    BY <1>2, AnsweredFacts
  <2> HIDE DEF h
  <2>4. h[a] = handle[a]
    BY <1>3, <2>3
  <2>5. ~TerminalIn(h, a) /\ h[a].ids = R
    BY <1>3, <2>4 DEF Terminal, TerminalIn, R, Ids
  <2>6. /\ handle' \in Handles /\ \A x \in Execs \ {a} : handle'[x] = h[x]
        /\ handle'[a] = IF R # {} THEN [st |-> "waiting", ids |-> R]
                        ELSE [st |-> "succeeded", ids |-> {}]
    BY <1>3, <2>1, <2>3, <2>5, PauseOrSucceedFacts
  <2>7. handle'[p] = h[p] /\ \A x \in Execs \ {a, p} : handle'[x] = handle[x]
    BY <1>3, <2>3, <2>6
  <2>8. R = Ids(a) /\ S = reissued[a]
    BY DEF R, S
  <2>9. Resolves(a, p, R, S)
    BY <1>8, <2>2, <2>3, <2>6, <2>7, <2>8 DEF Resolves
  <2>10. QED
    BY <2>6, <2>9
<1>9. QED
  BY <1>6, <1>7, <1>8 DEF Ends

\* What the end of an answer does, one handle at a time.
LEMMA SettledFacts ==
    ASSUME CoreInv, NEW a \in Answers, NEW how \in Ends, NEW Q \in SUBSET Questions,
           EndAnswer(a, how, Q)
    PROVE  /\ handle' \in Handles
           /\ \/ handle'[a].st \in Ended /\ handle'[a].ids = {}
              \/ handle'[a].st = "waiting" /\ handle'[a].ids # {}
           /\ \A x \in Execs \ {a} :
                \/ handle'[x] = handle[x]
                \/ /\ Active(x) /\ x \in Heartbeats \cup {par[a]}
                   /\ (x \in Answers /\ task[x] # "ended" => handle'[x].st = State(x))
                   /\ \/ handle'[x].st = "waiting" /\ handle'[x].ids # {}
                      \/ x = par[a] /\ handle'[x].st = "succeeded" /\ handle'[x].ids = {}
                      \/ x = par[a] /\ handle'[x].st = State(x) /\ handle'[x].ids \subseteq Ids(x)
<1>1. Tasks /\ Delivering /\ handle \in Handles
  BY DEF CoreInv, TypeOK, Handles
<1>2. a \in InFlight
  BY DEF EndAnswer
<1>3. PICK p \in Execs : /\ p = par[a] /\ p # a /\ a \in Execs
                         /\ ~Terminal(p) => Active(p) /\ Ids(p) # {}
                         /\ (was[a] \/ State(p) = "waiting") /\ p \in Answers => task[p] = "ended"
  <2>1. /\ par[a] \in Execs /\ par[a] # a /\ a \in Execs
        /\ ~Terminal(par[a]) => Active(par[a]) /\ Ids(par[a]) # {}
    BY <1>2, InFlightFacts
  <2>2. was[a] /\ par[a] \in Answers => task[par[a]] = "ended"
    BY <1>1, <1>2 DEF Delivering
  <2>3. State(par[a]) = "waiting" /\ par[a] \in Answers => task[par[a]] = "ended"
    BY <1>1 DEF Tasks
  <2>4. QED
    BY <2>1, <2>2, <2>3
<1>4. /\ handle' \in Handles
      /\ \/ Fails(a, p) \/ Drops(a, p)
         \/ \E R, S : Resolves(a, p, R, S)
         \/ \E r : HandsUp(a, p, r, Q)
  BY <1>3, EndAnswerCases
<1>5. CASE Fails(a, p)
  <2>1. handle'[a].st \in Ended /\ handle'[a].ids = {}
    BY <1>5 DEF Fails, Ended
  <2>2. ASSUME NEW x \in Execs \ {a}
        PROVE  \/ handle'[x] = handle[x]
               \/ /\ Active(x) /\ x \in Heartbeats \cup {p}
                  /\ (x \in Answers /\ task[x] # "ended" => handle'[x].st = State(x))
                  /\ handle'[x].st = "waiting" /\ handle'[x].ids # {}
    <3>1. CASE x # p
      BY <1>5, <3>1 DEF Fails
    <3>2. CASE x = p /\ was[a] /\ ~Terminal(p)
      <4>1. handle'[p] = [st |-> "waiting", ids |-> Ids(p)]
        BY <1>5, <3>2 DEF Fails
      <4>2. QED
        BY <1>3, <3>2, <4>1
    <3>3. CASE x = p /\ ~(was[a] /\ ~Terminal(p))
      BY <1>5, <3>3 DEF Fails
    <3>4. QED
      BY <3>1, <3>2, <3>3
  <2>3. QED
    BY <1>3, <1>4, <2>1, <2>2
<1>6. CASE Drops(a, p)
  <2>1. handle'[a].st \in Ended /\ handle'[a].ids = {}
    BY <1>6 DEF Drops, Ended
  <2>2. \A x \in Execs \ {a} : handle'[x] = handle[x]
    BY <1>6 DEF Drops
  <2>3. QED
    BY <1>4, <2>1, <2>2
<1>7. ASSUME NEW R, NEW S, Resolves(a, p, R, S)
      PROVE  /\ \/ handle'[a].st \in Ended /\ handle'[a].ids = {}
                \/ handle'[a].st = "waiting" /\ handle'[a].ids # {}
             /\ \A x \in Execs \ {a} :
                  \/ handle'[x] = handle[x]
                  \/ /\ Active(x) /\ x \in Heartbeats \cup {p}
                     /\ (x \in Answers /\ task[x] # "ended" => handle'[x].st = State(x))
                     /\ \/ handle'[x].st = "waiting" /\ handle'[x].ids # {}
                        \/ x = p /\ handle'[x].st = "succeeded" /\ handle'[x].ids = {}
                        \/ x = p /\ handle'[x].st = State(x) /\ handle'[x].ids \subseteq Ids(x)
  <2>1. handle'[a] = IF R = {} THEN [st |-> "succeeded", ids |-> {}] ELSE [st |-> "waiting", ids |-> R]
    BY <1>7 DEF Resolves
  <2>2. \/ handle'[a].st \in Ended /\ handle'[a].ids = {}
        \/ handle'[a].st = "waiting" /\ handle'[a].ids # {}
    BY <2>1 DEF Ended
  <2>3. \A x \in Execs \ {a, p} : handle'[x] = handle[x]
    BY <1>7 DEF Resolves
  <2>4. CASE Terminal(p)
    <3>1. handle'[p] = handle[p]
      BY <1>7, <2>4 DEF Resolves
    <3>2. QED
      BY <2>2, <2>3, <3>1
  <2>5. CASE ~Terminal(p) /\ (was[a] \/ State(p) = "waiting")
    <3>1. PICK L : L = Ids(p) \ Taken(a, S)
      OBVIOUS
    <3>2. handle'[p] = IF L = {} THEN [st |-> "succeeded", ids |-> {}] ELSE [st |-> "waiting", ids |-> L]
      BY <1>7, <2>5, <3>1 DEF Resolves
    <3>3. \/ handle'[p].st = "waiting" /\ handle'[p].ids # {}
          \/ handle'[p].st = "succeeded" /\ handle'[p].ids = {}
      BY <3>2
    <3>4. QED
      BY <1>3, <2>2, <2>3, <2>5, <3>3
  <2>6. CASE ~Terminal(p) /\ ~(was[a] \/ State(p) = "waiting")
    <3>1. handle'[p] = [st |-> State(p), ids |-> Ids(p) \ Taken(a, S)]
      BY <1>7, <2>6 DEF Resolves
    <3>2. handle'[p].st = State(p) /\ handle'[p].ids \subseteq Ids(p)
      BY <3>1
    <3>3. QED
      BY <1>3, <2>2, <2>3, <2>6, <3>2
  <2>7. QED
    BY <2>4, <2>5, <2>6
<1>8. ASSUME NEW r, HandsUp(a, p, r, Q)
      PROVE  /\ handle'[a].st \in Ended /\ handle'[a].ids = {}
             /\ \A x \in Execs \ {a} :
                  \/ handle'[x] = handle[x]
                  \/ /\ Active(x) /\ x \in Heartbeats \cup {p}
                     /\ (x \in Answers /\ task[x] # "ended" => handle'[x].st = State(x))
                     /\ \/ handle'[x].st = "waiting" /\ handle'[x].ids # {}
                        \/ x = p /\ handle'[x].st = State(x) /\ handle'[x].ids \subseteq Ids(x)
  <2>1. /\ handle'[a].st \in Ended /\ handle'[a].ids = {}
        /\ \A x \in Execs \ {a, p, r} : handle'[x] = handle[x]
        /\ Active(p) /\ r \in Heartbeats /\ Q # {} /\ r \in Ancestors(p)
    BY <1>3, <1>8 DEF HandsUp, Ended
  <2>2. CASE p = r
    <3>1. handle'[p] = [st |-> "waiting", ids |-> (Ids(p) \ Taken(a, Q)) \cup Q]
      BY <1>8, <2>2 DEF HandsUp
    <3>2. handle'[p].st = "waiting" /\ handle'[p].ids # {}
      BY <2>1, <3>1
    <3>3. p \notin Answers
      BY <2>1, <2>2, Kinds
    <3>4. QED
      BY <2>1, <2>2, <3>2, <3>3
  <2>3. CASE p # r
    <3>1. /\ handle'[p] = [st |-> State(p), ids |-> Ids(p) \ Taken(a, Q)]
          /\ handle'[r] = IF Terminal(r) THEN handle[r]
                          ELSE [st |-> "waiting", ids |-> Ids(r) \cup Q]
      BY <1>8, <2>3 DEF HandsUp
    <3>2. handle'[p].st = State(p) /\ handle'[p].ids \subseteq Ids(p)
      BY <3>1
    <3>3. r \notin Answers /\ r \in Execs
      BY <2>1, Kinds
    <3>4. Terminal(r) => handle'[r] = handle[r]
      BY <3>1
    <3>5. ~Terminal(r) => handle'[r].st = "waiting" /\ handle'[r].ids # {}
      BY <2>1, <3>1
    <3>6. ~Terminal(r) => Active(r)
      <4>1. r \in Known
        <5>1. p \in Known
          BY <1>2, <1>3, InFlightFacts
        <5>2. QED
          BY <2>1, <5>1, KnownFacts DEF CoreInv
      <4>2. State(r) # "none"
        BY <3>3, <4>1 DEF CoreInv, Ordered
      <4>3. QED
        BY <4>2 DEF Active, ActiveIn, Terminal, State
    <3>7. QED
      BY <2>1, <2>3, <3>2, <3>3, <3>4, <3>5, <3>6
  <2>4. QED
    BY <2>2, <2>3
<1>9. QED
  BY <1>3, <1>4, <1>5, <1>6, <1>7, <1>8

\* What else it does.
LEMMA EndAnswerFacts ==
    ASSUME CoreInv, NEW a \in Answers, NEW how \in Ends, NEW Q \in SUBSET Questions,
           EndAnswer(a, how, Q)
    PROVE  /\ a \in InFlight /\ task' \in [Execs -> TaskStates] /\ task'[a] = "ended"
           /\ \A x \in Execs \ {a} : Loosened(task, x)
           /\ \A b \in Answers \ {a} : task'[b] = task[b] /\ was'[b] = was[b]
           /\ InFlight' = InFlight \ {a}
           /\ \A b \in InFlight \ {a} : par[b] # par[a]
           /\ gate' \in BOOLEAN /\ (~fenced => gate' = GateOf(handle'))
           /\ rec' \in {"READY", "ACTIVE", "QUIESCING"} /\ (rec' = "QUIESCING" => fenced)
           /\ asked' \in [Questions -> Roots \cup {None}]
           /\ names' \in [Answers -> {<<>>} \cup Tuples] /\ on' \in [Answers -> Answers \cup {None}]
           /\ waitFor' \in [Answers -> Execs \cup {None}]
           /\ claimed' \in [Answers -> SUBSET Questions] /\ was' \in [Answers -> BOOLEAN]
           /\ reissued' \in [Answers -> SUBSET Questions]
           /\ cancelling' \subseteq Execs
           /\ UNCHANGED <<cancelReq, par, order, reap, expired, sweep, fenced, faults>>
<1>1. TypeOK /\ Ordered /\ Tasks /\ Delivering /\ (rec = "QUIESCING" => fenced)
  BY DEF CoreInv
<1> DEFINE tk == [task EXCEPT ![a] = "ended"]
<1>2. /\ a \in InFlight /\ Refresh(handle', tk) /\ Forget(a)
      /\ asked' = [q \in Questions |-> IF q \in Q THEN Root(a) ELSE asked[q]]
      /\ cancelling' = cancelling \ {a}
      /\ UNCHANGED <<cancelReq, par, order, reap, expired, sweep, fenced, faults>>
  BY DEF EndAnswer
<1>3. a \in Execs /\ a \in Known
  BY <1>2, InFlightFacts
<1>4. tk \in [Execs -> TaskStates] /\ tk[a] = "ended" /\ \A x \in Execs \ {a} : tk[x] = task[x]
  BY <1>1, <1>3 DEF TypeOK, TaskStates
<1> HIDE DEF tk
<1>5. /\ task' \in [Execs -> TaskStates] /\ \A x \in Execs : Loosened(tk, x)
      /\ rec' \in {"READY", "ACTIVE", "QUIESCING"} /\ (rec' = "QUIESCING" => fenced)
      /\ gate' \in BOOLEAN
  BY <1>2, <1>4, RefreshFacts
<1>6. task'[a] = "ended" /\ \A x \in Execs \ {a} : Loosened(task, x)
  BY <1>3, <1>4, <1>5 DEF Loosened
<1>7. \A b \in Answers \ {a} : task'[b] = task[b]
  BY <1>1, <1>6, Kinds DEF Tasks, Loosened
<1>8. InFlight' = InFlight \ {a}
  BY <1>6, <1>7 DEF InFlight
<1>9. ~fenced => gate' = GateOf(handle')
  BY <1>1, <1>2 DEF Refresh, RefreshGate
<1>10. asked' \in [Questions -> Roots \cup {None}]
  <2>1. Root(a) \in Roots
    BY <1>1, <1>3, RootFacts
  <2>2. QED
    BY <1>1, <1>2, <2>1 DEF TypeOK
<1>11. \A b \in InFlight \ {a} : par[b] # par[a]
  BY <1>1, <1>2 DEF Delivering, OneDelivery
<1>12. /\ names' \in [Answers -> {<<>>} \cup Tuples] /\ on' \in [Answers -> Answers \cup {None}]
       /\ waitFor' \in [Answers -> Execs \cup {None}]
       /\ claimed' \in [Answers -> SUBSET Questions] /\ was' \in [Answers -> BOOLEAN]
       /\ reissued' \in [Answers -> SUBSET Questions]
       /\ \A b \in Answers \ {a} : was'[b] = was[b]
  BY <1>1, <1>2, ForgetFacts
<1>13. cancelling' \subseteq Execs
  BY <1>1, <1>2 DEF TypeOK
<1>14. QED
  BY <1>2, <1>5, <1>6, <1>7, <1>8, <1>9, <1>10, <1>11, <1>12, <1>13

LEMMA EndAnswerCore ==
    ASSUME CoreInv, NEW a \in Answers, NEW how \in Ends, NEW Q \in SUBSET Questions,
           EndAnswer(a, how, Q)
    PROVE  CoreInv'
<1>1. /\ TypeOK /\ Ordered /\ Tasks /\ Delivering /\ Cleared /\ handle \in Handles
      /\ sweep.ph = "idle" => sweep.set = {}
  BY DEF CoreInv, TypeOK, Handles
<1>2. /\ handle' \in Handles
      /\ \/ handle'[a].st \in Ended /\ handle'[a].ids = {}
         \/ handle'[a].st = "waiting" /\ handle'[a].ids # {}
      /\ \A x \in Execs \ {a} :
           \/ handle'[x] = handle[x]
           \/ /\ Active(x) /\ x \in Heartbeats \cup {par[a]}
              /\ (x \in Answers /\ task[x] # "ended" => handle'[x].st = State(x))
              /\ \/ handle'[x].st = "waiting" /\ handle'[x].ids # {}
                 \/ x = par[a] /\ handle'[x].st = "succeeded" /\ handle'[x].ids = {}
                 \/ x = par[a] /\ handle'[x].st = State(x) /\ handle'[x].ids \subseteq Ids(x)
  BY SettledFacts
<1>3. /\ a \in InFlight /\ task' \in [Execs -> TaskStates] /\ task'[a] = "ended"
      /\ \A x \in Execs \ {a} : Loosened(task, x)
      /\ \A b \in Answers \ {a} : task'[b] = task[b] /\ was'[b] = was[b]
      /\ InFlight' = InFlight \ {a}
      /\ \A b \in InFlight \ {a} : par[b] # par[a]
      /\ gate' \in BOOLEAN /\ (~fenced => gate' = GateOf(handle'))
      /\ rec' \in {"READY", "ACTIVE", "QUIESCING"} /\ (rec' = "QUIESCING" => fenced)
      /\ UNCHANGED <<cancelReq, par, order, reap, expired, sweep, fenced, faults>>
  BY EndAnswerFacts
<1>4. /\ a \in Execs /\ a \in Known /\ a \notin Roots /\ a \notin Heartbeats
      /\ par[a] \in Execs /\ State(a) = "running"
      /\ State(par[a]) \in {"running", "waiting"} \/ Terminal(par[a])
  BY <1>3, InFlightFacts
<1>5. TypeOK'
  <2>1. /\ asked' \in [Questions -> Roots \cup {None}]
        /\ names' \in [Answers -> {<<>>} \cup Tuples] /\ on' \in [Answers -> Answers \cup {None}]
        /\ waitFor' \in [Answers -> Execs \cup {None}]
        /\ claimed' \in [Answers -> SUBSET Questions] /\ was' \in [Answers -> BOOLEAN]
        /\ reissued' \in [Answers -> SUBSET Questions]
        /\ cancelling' \subseteq Execs
    BY EndAnswerFacts
  <2>2. QED
    BY <1>1, <1>2, <1>3, <2>1 DEF TypeOK, Handles
<1>6. \A x \in Execs : Terminal(x) => ~Active(x)
  BY DEF Terminal, Active, ActiveIn
<1>7. \A x \in Execs : Active(x) => State(x) # "none"
  BY DEF Active, ActiveIn, State
<1>8. Known' = Known
  BY <1>3 DEF Known
<1>9. Ordered'
  <2>1. \A x \in Execs : handle'[x].st # "none" <=> State(x) # "none"
    BY <1>2, <1>4, <1>7 DEF Ended, State
  <2>2. \A x \in Execs \ Known : handle'[x].ids = {}
    BY <1>1, <1>2, <1>4, <1>7 DEF Ordered, Ids
  <2>3. QED
    BY <1>1, <1>3, <1>8, <2>1, <2>2 DEF Ordered, State, Ids
<1>10. \A x \in Execs \ {a} : Terminal(x) => handle'[x] = handle[x] /\ TerminalIn(handle', x)
  BY <1>2, <1>6 DEF Terminal, TerminalIn
<1>11. \A x \in Execs \ {a} : task'[x] = task[x] \/ (task[x] = "gated" /\ task'[x] = "released")
  BY <1>3 DEF Loosened
<1>12. Tasks'
  <2>1. ASSUME NEW b \in Answers
        PROVE  /\ task'[b] \in {"none", "claiming", "running", "ended"}
               /\ task'[b] \in {"none", "claiming"} => handle'[b].st = "none"
               /\ task'[b] = "running" => handle'[b].st = "running"
    <3>1. CASE b = a
      BY <1>3, <3>1
    <3>2. CASE b # a
      <4>1. b \in Execs \ {a} /\ task'[b] = task[b]
        BY <1>3, <3>2, Kinds
      <4>2. task[b] # "ended" => handle'[b].st = State(b)
        BY <1>2, <4>1 DEF State
      <4>3. QED
        BY <1>1, <4>1, <4>2 DEF Tasks
    <3>3. QED
      BY <3>1, <3>2
  <2>2. ASSUME NEW x \in Roots PROVE task'[x] = "none" <=> handle'[x].st = "none"
    <3>1. x \in Execs \ {a}
      BY <1>4, Kinds
    <3>2. handle'[x].st = "none" <=> State(x) = "none"
      BY <1>2, <1>7, <3>1 DEF State
    <3>3. QED
      BY <1>1, <1>11, <3>1, <3>2 DEF Tasks
  <2>3. ASSUME NEW x \in Execs
        PROVE  /\ task'[x] \in Waits => handle'[x].st = "queued" \/ TerminalIn(handle', x)
               /\ task'[x] = "raised" => TerminalIn(handle', x) \/ reap'[x].again
               /\ task'[x] \in {"reaping", "joining"} => TerminalIn(handle', x)
    <3>1. CASE x = a
      BY <1>3, <3>1 DEF Waits
    <3>2. CASE x # a
      <4>1. /\ task[x] \in Waits => State(x) = "queued" \/ Terminal(x)
            /\ task[x] = "raised" => Terminal(x) \/ reap[x].again
            /\ task[x] \in {"reaping", "joining"} => Terminal(x)
        BY <1>1 DEF Tasks
      <4>2. task'[x] = task[x] \/ (task[x] \in Waits /\ task'[x] \in Waits)
        BY <1>11, <3>2 DEF Waits
      <4>3. reap'[x] = reap[x]
        BY <1>3
      <4>4. ASSUME task[x] \in Waits, State(x) = "queued" PROVE handle'[x].st = "queued"
        <5>1. x \notin Heartbeats /\ x # par[a]
          BY <1>1, <1>4, <4>4 DEF Tasks, Terminal, TerminalIn, State
        <5>2. handle'[x] = handle[x]
          <6>1. x \notin Answers
            BY <1>1, <4>4 DEF Tasks, Waits
          <6>2. QED
            BY <1>2, <3>2, <5>1, <6>1
        <5>3. QED
          BY <4>4, <5>2 DEF State
      <4>5. QED
        BY <1>10, <3>2, <4>1, <4>2, <4>3, <4>4 DEF Waits
    <3>3. QED
      BY <3>1, <3>2
  <2>4. ASSUME NEW h \in Heartbeats
        PROVE  /\ task'[h] \notin Waits \cup {"raised"}
               /\ handle'[h].st # "none" /\ task'[h] \in {"none", "ended"} => TerminalIn(handle', h)
    <3>1. h \in Execs \ {a}
      BY <1>4, Kinds
    <3>2. task[h] \notin Waits \cup {"raised"} /\ (State(h) # "none" /\ ~TaskLive(h) => Terminal(h))
      BY <1>1 DEF Tasks
    <3>3. task'[h] = task[h]
      BY <1>11, <3>1, <3>2 DEF Waits
    <3>4. handle'[h].st # "none" => State(h) # "none"
      BY <1>2, <1>7, <3>1 DEF State
    <3>5. QED
      BY <1>10, <3>1, <3>2, <3>3, <3>4 DEF TaskLive
  <2>5. QED
    BY <2>1, <2>2, <2>3, <2>4 DEF Tasks, State, Terminal, TaskLive
<1>13. Delivering'
  <2>1. OneDelivery'
    BY <1>1, <1>3 DEF Delivering, OneDelivery
  <2>2. ASSUME NEW b \in InFlight \ {a}
        PROVE  /\ par[b] \in Known
               /\ handle'[par[b]].st \in {"running", "waiting"} \/ TerminalIn(handle', par[b])
               /\ ~TerminalIn(handle', par[b]) => handle'[par[b]].ids # {}
               /\ was'[b] /\ par[b] \in Answers => task'[par[b]] = "ended"
    <3>1. PICK y \in Execs : y = par[b] /\ y # par[a]
      BY <1>1, <1>3, KnownFacts DEF Delivering
    <3>2. /\ y \in Known /\ (State(y) \in {"running", "waiting"} \/ Terminal(y))
          /\ ~Terminal(y) => Ids(y) # {}
          /\ was[b] /\ y \in Answers => task[y] = "ended"
      BY <1>1, <3>1 DEF Delivering
    <3>3. was'[b] = was[b] /\ y \in Known
      BY <1>1, <1>3, <3>1 DEF InFlight, Delivering
    <3>4. was[b] /\ y \in Answers => task'[y] = "ended"
      BY <1>3, <3>2
    <3>5. CASE y = a
      <4>1. \/ TerminalIn(handle', y)
            \/ handle'[y].st = "waiting" /\ handle'[y].ids # {}
        BY <1>2, <3>5 DEF TerminalIn, Ended
      <4>2. QED
        BY <3>1, <3>3, <3>4, <4>1
    <3>6. CASE y # a
      <4>1. CASE handle'[y] = handle[y]
        <5>1. /\ handle'[y].st \in {"running", "waiting"} \/ TerminalIn(handle', y)
              /\ ~TerminalIn(handle', y) => handle'[y].ids # {}
          BY <3>2, <4>1 DEF State, Ids, Terminal, TerminalIn
        <5>2. QED
          BY <3>1, <3>3, <3>4, <5>1
      <4>2. CASE handle'[y].st = "waiting" /\ handle'[y].ids # {}
        BY <3>1, <3>3, <3>4, <4>2
      <4>3. QED
        BY <1>2, <3>1, <3>6, <4>1, <4>2
    <3>7. QED
      BY <3>5, <3>6
  <2>3. QED
    BY <1>3, <1>8, <2>1, <2>2 DEF Delivering, State, Ids, Terminal
<1>14. Cleared'
  <2>1. ASSUME NEW x \in Execs, TerminalIn(handle', x) PROVE handle'[x].ids = {}
    <3>1. CASE x = a
      BY <1>2, <2>1, <3>1 DEF TerminalIn
    <3>2. CASE x # a /\ handle'[x] = handle[x]
      BY <1>1, <2>1, <3>2 DEF Cleared, Terminal, TerminalIn, Ids
    <3>3. CASE x # a /\ handle'[x] # handle[x]
      <4>1. Active(x) /\ handle'[x].st # "waiting"
        BY <1>2, <2>1, <3>3 DEF TerminalIn
      <4>2. handle'[x].st # State(x)
        BY <2>1, <4>1 DEF Active, ActiveIn, TerminalIn, State
      <4>3. QED
        BY <1>2, <3>3, <4>1, <4>2
    <3>4. QED
      BY <3>1, <3>2, <3>3
  <2>2. ASSUME NEW b \in UnaryAnswers, task'[b] # "ended" PROVE handle'[b].ids = {}
    <3>1. b \in Answers /\ b \in Execs /\ b # a
      BY <1>3, <2>2, Kinds
    <3>2. task[b] # "ended" /\ Ids(b) = {}
      BY <1>1, <1>3, <2>2, <3>1 DEF Cleared
    <3>3. CASE handle'[b] = handle[b]
      BY <3>2, <3>3 DEF Ids
    <3>4. CASE handle'[b] # handle[b]
      <4>1. b \notin Heartbeats
        BY <3>1, Kinds
      <4>2. handle'[b].st = State(b) /\ b = par[a]
        BY <1>2, <3>1, <3>2, <3>4, <4>1
      <4>3. Ids(b) # {}
        <5>1. ~Terminal(b)
          BY <1>2, <1>6, <3>1, <3>4
        <5>2. QED
          BY <1>3, <4>2, <5>1, InFlightFacts
      <4>4. QED
        BY <3>2, <4>3
    <3>5. QED
      BY <3>3, <3>4
  <2>3. QED
    BY <2>1, <2>2 DEF Cleared, Terminal, Ids
<1>15. GateGuards'
  BY <1>3 DEF GateGuards
<1>16. QED
  BY <1>1, <1>3, <1>5, <1>9, <1>12, <1>13, <1>14, <1>15 DEF CoreInv

\* What an answer takes is what it claimed, named or asks again.
LEMMA TakenFacts ==
    ASSUME NEW a, NEW R
    PROVE  Taken(a, R) \subseteq claimed[a] \cup NamesOf(names[a]) \cup R
BY DEF Taken

\* When only Heartbeats ask below a Heartbeat, an answer ends with its own handle and
\* its parent's; what leaves the parent was claimed, named or asked by the answer.
LEMMA EndAnswerRooted ==
    ASSUME CoreInv, RootInv, NEW a \in Answers, NEW how \in Ends, NEW Q \in SUBSET Questions,
           EndAnswer(a, how, Q), NEW p, p = par[a]
    PROVE  /\ \A x \in Execs \ {a, p} : handle'[x] = handle[x]
           /\ handle'[p].ids # {} => AncestorIn(p, Heartbeats) \in {None, p}
           /\ handle'[a].ids # {} => AncestorIn(a, Heartbeats) \in {None, a}
           /\ handle'[p].st = "waiting" => handle'[p].ids # {}
           /\ ~fenced /\ handle'[p].st = "running" => State(p) = "running" /\ ~was[a]
           /\ \A q \in Ids(p) \ handle'[p].ids :
                 q \in claimed[a] \cup NamesOf(names[a]) \cup reissued[a] \cup handle'[a].ids
           /\ \A q \in Ids(a) \ handle'[a].ids : handle'[a].st \in {"failed", "cancelled"}
<1>1. TypeOK /\ Ordered /\ Cleared /\ RootAsks /\ PauseHasQuestion /\ handle \in Handles
  BY DEF CoreInv, RootInv, TypeOK, Handles
<1>2. a \in InFlight
  BY DEF EndAnswer
<1>3. /\ a \in Execs /\ a \in Known /\ a \notin Heartbeats /\ task[a] = "running"
      /\ p \in Execs /\ p \in Known /\ p # a
      /\ (Terminal(p) => Ids(p) = {})
      /\ ~Terminal(p) => Ids(p) # {}
  BY <1>2, InFlightFacts
<1>4. a \in UnaryAnswers => Ids(a) = {}
  BY <1>1, <1>3 DEF Cleared
<1>5. Ids(p) # {} => AncestorIn(p, Heartbeats) \in {None, p}
  BY <1>1, <1>3 DEF RootAsks
<1>6. Ids(a) # {} => AncestorIn(a, Heartbeats) \in {None, a}
  BY <1>1, <1>3 DEF RootAsks
<1>7. State(p) = "waiting" => Ids(p) # {}
  BY <1>1, <1>3 DEF PauseHasQuestion
<1>8. Terminal(p) => State(p) \notin {"running", "waiting"}
  BY DEF Terminal, TerminalIn, State
<1>9. AncestorIn(p, Heartbeats) = None => AncestorIn(a, Heartbeats) = None
  <2>1. SUFFICES ASSUME AncestorIn(p, Heartbeats) = None
                 PROVE  Ancestors(a) \cap Heartbeats = {}
    BY DEF AncestorIn
  <2>2. Ancestors(p) \cap Heartbeats = {}
    <3>1. None \notin Heartbeats
      BY Kinds
    <3>2. QED
      BY <2>1, <3>1, AncestorInFacts
  <2>3. PICK T : T = {a} \cup Ancestors(p)
    OBVIOUS
  <2>4. a \in T /\ \A x \in T : x \in Execs /\ par[x] \in T \cup {None}
    <3>1. /\ p \in Ancestors(p) /\ Ancestors(p) \subseteq Execs
          /\ \A x \in Ancestors(p) : par[x] \in Ancestors(p) \cup {None}
      BY <1>1, <1>3, KnownFacts
    <3>2. QED
      BY <1>3, <2>3, <3>1
  <2>5. Ancestors(a) \subseteq T
    <3>1. par \in [Execs -> Execs \cup {None}] /\ Ancestors(a) = AncestorsOf(par, a)
      BY <1>1, <1>3, KnownFacts DEF TypeOK
    <3>2. AncestorsOf(par, a) \subseteq T
      BY <1>3, <2>4, <3>1, AncestorsFacts
    <3>3. QED
      BY <3>1, <3>2
  <2>6. QED
    BY <1>3, <2>2, <2>3, <2>5
<1>10. \/ Fails(a, p) \/ Drops(a, p)
       \/ \E R, S : Resolves(a, p, R, S)
       \/ \E r : HandsUp(a, p, r, Q)
  BY EndAnswerCases
<1>11. CASE Fails(a, p)
  <2>1. /\ \A x \in Execs \ {a, p} : handle'[x] = handle[x]
        /\ handle'[a].st \in {"failed", "cancelled"} /\ handle'[a].ids = {}
        /\ handle'[p] = IF was[a] /\ ~Terminal(p) THEN [st |-> "waiting", ids |-> Ids(p)] ELSE handle[p]
    BY <1>11 DEF Fails
  <2>2. CASE was[a] /\ ~Terminal(p)
    <3>1. handle'[p] = [st |-> "waiting", ids |-> Ids(p)]
      BY <2>1, <2>2
    <3>2. handle'[p].st = "waiting" /\ handle'[p].ids = Ids(p)
      BY <3>1
    <3>3. QED
      BY <1>3, <1>5, <2>1, <2>2, <3>2
  <2>3. CASE ~(was[a] /\ ~Terminal(p))
    <3>1. handle'[p] = handle[p]
      BY <2>1, <2>3
    <3>2. handle'[p].st = State(p) /\ handle'[p].ids = Ids(p)
      BY <3>1 DEF State, Ids
    <3>3. QED
      BY <1>5, <1>7, <1>8, <2>1, <2>3, <3>2
  <2>4. QED
    BY <2>2, <2>3
<1>12. CASE Drops(a, p)
  <2>1. /\ \A x \in Execs \ {a} : handle'[x] = handle[x]
        /\ handle'[a].st = "cancelled" /\ handle'[a].ids = {}
        /\ Terminal(p) \/ fenced
    BY <1>12 DEF Drops
  <2>2. handle'[p].st = State(p) /\ handle'[p].ids = Ids(p)
    BY <1>3, <2>1 DEF State, Ids
  <2>3. QED
    BY <1>5, <1>7, <1>8, <2>1, <2>2
<1>13. ASSUME NEW R, NEW S, Resolves(a, p, R, S)
       PROVE  /\ \A x \in Execs \ {a, p} : handle'[x] = handle[x]
              /\ handle'[p].ids # {} => AncestorIn(p, Heartbeats) \in {None, p}
              /\ handle'[a].ids # {} => AncestorIn(a, Heartbeats) \in {None, a}
              /\ handle'[p].st = "waiting" => handle'[p].ids # {}
              /\ ~fenced /\ handle'[p].st = "running" => State(p) = "running" /\ ~was[a]
              /\ \A q \in Ids(p) \ handle'[p].ids :
                    q \in claimed[a] \cup NamesOf(names[a]) \cup reissued[a] \cup handle'[a].ids
              /\ \A q \in Ids(a) \ handle'[a].ids : handle'[a].st \in {"failed", "cancelled"}
  <2>1. /\ a \in StreamAnswers => R = Ids(a) /\ S = reissued[a]
        /\ a \in UnaryAnswers => S = R
        /\ a \in UnaryAnswers /\ R # {} => AncestorIn(p, Heartbeats) = None
        /\ \A x \in Execs \ {a, p} : handle'[x] = handle[x]
        /\ handle'[a] = IF R = {} THEN [st |-> "succeeded", ids |-> {}] ELSE [st |-> "waiting", ids |-> R]
    BY <1>13 DEF Resolves
  <2>2. handle'[a].ids = R
    BY <2>1
  <2>3. handle'[a].ids # {} => AncestorIn(a, Heartbeats) \in {None, a}
    BY <1>6, <1>9, <2>1, <2>2 DEF Answers
  <2>4. Ids(a) \subseteq handle'[a].ids
    BY <1>4, <2>1, <2>2 DEF Answers
  <2>5. PICK D : D = Taken(a, S)
    OBVIOUS
  <2>6. D \subseteq claimed[a] \cup NamesOf(names[a]) \cup reissued[a] \cup R
    BY <2>1, <2>5, TakenFacts DEF Answers
  <2>7. handle'[p] = IF Terminal(p) THEN handle[p]
                     ELSE IF was[a] \/ State(p) = "waiting"
                     THEN IF Ids(p) \ D = {} THEN [st |-> "succeeded", ids |-> {}]
                          ELSE [st |-> "waiting", ids |-> Ids(p) \ D]
                     ELSE [st |-> State(p), ids |-> Ids(p) \ D]
    BY <1>13, <2>5 DEF Resolves
  <2>8. CASE Terminal(p)
    <3>1. handle'[p].st = State(p) /\ handle'[p].ids = Ids(p)
      BY <2>7, <2>8 DEF State, Ids
    <3>2. QED
      BY <1>5, <1>8, <2>1, <2>3, <2>4, <2>8, <3>1
  <2>9. CASE ~Terminal(p) /\ (was[a] \/ State(p) = "waiting")
    <3>1. /\ handle'[p].ids = Ids(p) \ D /\ handle'[p].st # "running"
          /\ handle'[p].st = "waiting" => handle'[p].ids # {}
      BY <2>7, <2>9
    <3>2. QED
      BY <1>5, <2>1, <2>2, <2>3, <2>4, <2>6, <3>1
  <2>10. CASE ~Terminal(p) /\ ~(was[a] \/ State(p) = "waiting")
    <3>1. handle'[p].ids = Ids(p) \ D /\ handle'[p].st = State(p)
      BY <2>7, <2>10
    <3>2. QED
      BY <1>5, <2>1, <2>2, <2>3, <2>4, <2>6, <2>10, <3>1
  <2>11. QED
    BY <2>8, <2>9, <2>10
<1>14. ASSUME NEW r, HandsUp(a, p, r, Q)
       PROVE  /\ \A x \in Execs \ {a, p} : handle'[x] = handle[x]
              /\ handle'[p].ids # {} => AncestorIn(p, Heartbeats) \in {None, p}
              /\ handle'[a].ids # {} => AncestorIn(a, Heartbeats) \in {None, a}
              /\ handle'[p].st = "waiting" => handle'[p].ids # {}
              /\ ~fenced /\ handle'[p].st = "running" => State(p) = "running" /\ ~was[a]
              /\ \A q \in Ids(p) \ handle'[p].ids :
                    q \in claimed[a] \cup NamesOf(names[a]) \cup reissued[a] \cup handle'[a].ids
              /\ \A q \in Ids(a) \ handle'[a].ids : handle'[a].st \in {"failed", "cancelled"}
  <2>1. /\ Q # {} /\ a \in UnaryAnswers /\ ~Terminal(p)
        /\ r \in Heartbeats /\ r = AncestorIn(p, Heartbeats)
        /\ handle'[a].ids = {}
        /\ \A x \in Execs \ {a, p, r} : handle'[x] = handle[x]
    BY <1>14 DEF HandsUp
  <2>2. r = p
    <3>1. r # None
      BY <2>1, Kinds
    <3>2. QED
      BY <1>3, <1>5, <2>1, <3>1
  <2>3. PICK D : D = Taken(a, Q)
    OBVIOUS
  <2>4. D \subseteq claimed[a] \cup NamesOf(names[a]) \cup Q
    BY <2>3, TakenFacts
  <2>5. handle'[p] = [st |-> "waiting", ids |-> (Ids(p) \ D) \cup Q]
    BY <1>14, <2>2, <2>3 DEF HandsUp
  <2>6. handle'[p].st = "waiting" /\ handle'[p].ids = (Ids(p) \ D) \cup Q
    BY <2>5
  <2>7. QED
    BY <1>4, <1>5, <2>1, <2>2, <2>4, <2>6
<1>15. QED
  BY <1>10, <1>11, <1>12, <1>13, <1>14

LEMMA EndAnswerRoot ==
    ASSUME CoreInv, RootInv, NEW a \in Answers, NEW how \in Ends, NEW Q \in SUBSET Questions,
           EndAnswer(a, how, Q)
    PROVE  RootInv'
<1>1. RootAsks /\ PauseHasQuestion /\ Driven /\ Delivering
  BY DEF CoreInv, RootInv
<1>2. /\ a \in InFlight /\ task'[a] = "ended"
      /\ \A x \in Execs \ {a} : Loosened(task, x)
      /\ \A b \in Answers \ {a} : was'[b] = was[b]
      /\ InFlight' = InFlight \ {a}
      /\ \A b \in InFlight \ {a} : par[b] # par[a]
      /\ UNCHANGED <<par, sweep, fenced>>
  BY EndAnswerFacts
<1>3. PICK p \in Execs : p = par[a] /\ p # a
  BY <1>2, InFlightFacts
<1>4. /\ \A x \in Execs \ {a, p} : handle'[x] = handle[x]
      /\ handle'[p].ids # {} => AncestorIn(p, Heartbeats) \in {None, p}
      /\ handle'[a].ids # {} => AncestorIn(a, Heartbeats) \in {None, a}
      /\ handle'[p].st = "waiting" => handle'[p].ids # {}
      /\ ~fenced /\ handle'[p].st = "running" => State(p) = "running" /\ ~was[a]
  BY <1>3, EndAnswerRooted
<1>5. /\ handle'[a].st # "running"
      /\ handle'[a].st = "waiting" => handle'[a].ids # {}
  <2>1. \/ handle'[a].st \in Ended /\ handle'[a].ids = {}
        \/ handle'[a].st = "waiting" /\ handle'[a].ids # {}
    BY SettledFacts
  <2>2. QED
    BY <2>1 DEF Ended
<1>6. RootAsks'
  <2>1. ASSUME NEW x \in Execs, handle'[x].ids # {}
        PROVE  AncestorIn(x, Heartbeats)' \in {None, x}
    <3>1. AncestorIn(x, Heartbeats) \in {None, x}
      <4>1. CASE x \in {a, p}
        BY <1>4, <2>1, <4>1
      <4>2. CASE x \notin {a, p}
        BY <1>1, <1>4, <2>1, <4>2 DEF RootAsks, Ids
      <4>3. QED
        BY <4>1, <4>2
    <3>2. QED
      BY <1>2, <3>1, SameAncestors
  <2>2. QED
    BY <2>1 DEF RootAsks, Ids
<1>7. PauseHasQuestion'
  <2>1. ASSUME NEW x \in Execs, handle'[x].st = "waiting" PROVE handle'[x].ids # {}
    <3>1. CASE x \in {a, p}
      BY <1>4, <1>5, <2>1, <3>1
    <3>2. CASE x \notin {a, p}
      BY <1>1, <1>4, <2>1, <3>2 DEF PauseHasQuestion, State, Ids
    <3>3. QED
      BY <3>1, <3>2
  <2>2. QED
    BY <2>1 DEF PauseHasQuestion, State, Ids
<1>8. ASSUME NEW x \in Execs, Drives(x), x # a PROVE Drives(x)'
  <2>1. TaskLive(x) => task'[x] \notin {"none", "ended"}
    BY <1>2, <1>8 DEF Loosened, TaskLive
  <2>2. QED
    BY <1>2, <1>8, <2>1 DEF Drives, TaskLive
<1>9. Driven'
  <2>1. SUFFICES ASSUME ~fenced
                 PROVE  /\ \A x \in Execs : handle'[x].st = "running" =>
                             Drives(x)' \/ Deliveries(x)' # {}
                        /\ \A b \in InFlight' : ~was'[b] /\ handle'[par'[b]].st = "running"
                             => Drives(par[b])'
    BY <1>2 DEF Driven, State
  <2>2. ASSUME NEW x \in Execs, handle'[x].st = "running"
        PROVE  Drives(x)' \/ Deliveries(x)' # {}
    <3>1. x # a
      BY <1>5, <2>2
    <3>2. CASE x = p
      <4>1. Drives(p)
        BY <1>1, <1>2, <1>3, <1>4, <2>1, <2>2, <3>2 DEF Driven
      <4>2. QED
        BY <1>8, <3>1, <3>2, <4>1
    <3>3. CASE x # p
      <4>1. State(x) = "running"
        BY <1>4, <2>2, <3>1, <3>3 DEF State
      <4>2. Drives(x) \/ Deliveries(x) # {}
        BY <1>1, <2>1, <4>1 DEF Driven
      <4>3. Deliveries(x) \subseteq Deliveries(x)'
        BY <1>2, <1>3, <3>3 DEF Deliveries
      <4>4. QED
        BY <1>8, <3>1, <4>2, <4>3
    <3>4. QED
      BY <3>2, <3>3
  <2>3. ASSUME NEW b \in InFlight', ~was'[b], handle'[par'[b]].st = "running"
        PROVE  Drives(par[b])'
    <3>1. b \in InFlight \ {a} /\ b \in Answers /\ was'[b] = was[b]
      BY <1>2, <2>3 DEF InFlight
    <3>2. PICK y \in Execs : y = par[b] /\ y # p /\ y = par'[b]
      BY <1>2, <1>3, <3>1, InFlightFacts
    <3>3. y # a
      BY <1>5, <2>3, <3>2
    <3>4. State(y) = "running" /\ ~was[b]
      BY <1>4, <2>3, <3>1, <3>2, <3>3 DEF State
    <3>5. Drives(y)
      BY <1>1, <2>1, <3>1, <3>2, <3>4 DEF Driven
    <3>6. Drives(y)'
      BY <1>8, <3>3, <3>5
    <3>7. QED
      BY <3>2, <3>6
  <2>4. QED
    BY <2>2, <2>3
<1>10. QED
  BY <1>6, <1>7, <1>9 DEF RootInv

-----------------------------------------------------------------------------
(* The specification *)

\* Every step is of one of five kinds.
LEMMA NextKinds ==
    ASSUME CoreInv, Next
    PROVE  \/ Advancing
           \/ \E e \in Execs : \E p, t, st, replaced : Admitting(e, p, t, st, replaced)
           \/ \E e \in Execs, q \in Questions : Ask(e, q)
           \/ \E a \in Answers : /\ task[a] \in {"none", "claiming"}
                                 /\ Stays(a) \/ \E p \in Execs : Takes(a, p)
           \/ \E a \in Answers, how \in Ends, Q \in SUBSET Questions : EndAnswer(a, how, Q)
<1>1. TypeOK
  BY DEF CoreInv
<1>2. ASSUME NEW e \in Execs, TaskStep(e) PROVE Advancing
  <2>1. CASE MessageStep(e)
    BY <2>1, MessageStepAdvances
  <2>2. CASE StartOp(e)
    BY <2>2, StartOpAdvances
  <2>3. CASE MessageRaises(e)
    BY <2>3, MessageRaisesAdvances
  <2>4. ASSUME NEW how \in Ends, EndOp(e, how) PROVE Advancing
    BY <2>4, EndOpAdvances
  <2>5. ASSUME NEW how \in Ends, EndHeartbeat(e, how) PROVE Advancing
    BY <2>5, EndHeartbeatAdvances
  <2>6. CASE HeartbeatWakes(e)
    BY <2>6, HeartbeatWakesAdvances
  <2>7. CASE Reap(e)
    BY <2>7, ReapAdvances
  <2>8. CASE Join(e)
    BY <2>8, JoinAdvances
  <2>9. QED
    BY <1>2, <2>1, <2>2, <2>3, <2>4, <2>5, <2>6, <2>7, <2>8 DEF TaskStep
<1>3. ASSUME NEW a \in Answers, NEW ids \in {<<>>} \cup Tuples, Claim(a, ids),
             task[a] \in {"none", "claiming"},
             UNCHANGED <<cancelling, reap, expired, asked, sweep, fenced, faults>>
      PROVE  \E b \in Answers : /\ task[b] \in {"none", "claiming"}
                                /\ Stays(b) \/ \E p \in Execs : Takes(b, p)
  <2>1. Stays(a) \/ \E p \in Execs : Takes(a, p)
    BY <1>3, ClaimFacts
  <2>2. QED
    BY <1>3, <2>1
<1>4. ASSUME NEW a \in Answers, ClaimAgain(a)
      PROVE  \E b \in Answers : /\ task[b] \in {"none", "claiming"}
                                /\ Stays(b) \/ \E p \in Execs : Takes(b, p)
  <2>1. /\ task[a] = "claiming" /\ Claim(a, names[a])
        /\ UNCHANGED <<cancelling, reap, expired, asked, sweep, fenced, faults>>
    BY <1>4 DEF ClaimAgain
  <2>2. names[a] \in {<<>>} \cup Tuples
    BY <1>1 DEF TypeOK
  <2>3. QED
    BY <1>3, <2>1, <2>2
<1>5. ASSUME NEW a \in Answers, NEW ids \in Tuples, Answer(a, ids)
      PROVE  \E b \in Answers : /\ task[b] \in {"none", "claiming"}
                                /\ Stays(b) \/ \E p \in Execs : Takes(b, p)
  <2>1. /\ task[a] = "none" /\ Claim(a, ids)
        /\ UNCHANGED <<cancelling, reap, expired, asked, sweep, fenced, faults>>
    BY <1>5 DEF Answer
  <2>2. QED
    BY <1>3, <2>1
<1>6. CASE SystemStep
  <2>1. CASE \E e \in Execs : TaskStep(e)
    BY <1>2, <2>1
  <2>2. CASE \E a \in Answers : AnswerStep(a)
    <3>1. PICK a \in Answers : AnswerStep(a)
      BY <2>2
    <3>2. CASE ClaimAgain(a)
      BY <1>4, <3>2
    <3>3. CASE \E how \in Ends, Q \in SUBSET Questions : EndAnswer(a, how, Q)
      BY <3>3
    <3>4. QED
      BY <3>1, <3>2, <3>3 DEF AnswerStep
  <2>3. CASE CancelLaneWaited \/ CancelTaskWaited
    BY <2>3, CancelWaitedAdvances
  <2>4. QED
    BY <1>6, <2>1, <2>2, <2>3 DEF SystemStep
<1>7. ASSUME NEW e \in Execs, Admit(e)
      PROVE  \E p, t, st, replaced : Admitting(e, p, t, st, replaced)
  BY <1>7, AdmitAdmitting
<1>8. ASSUME NEW e \in Execs, CancelExecution(e) PROVE Advancing
  BY <1>8, CancelExecutionAdvances
<1>9. ASSUME \/ \E e \in Execs : Deadline(e)
             \/ \E a \in Answers : CloseAnswer(a)
             \/ Quiesce
      PROVE  Advancing
  BY <1>9, OutsideAdvances
<1>10. CASE \E e \in Execs : \/ Admit(e) \/ Deadline(e) \/ CancelExecution(e)
                             \/ \E q \in Questions : Ask(e, q)
  <2>1. PICK e \in Execs : \/ Admit(e) \/ Deadline(e) \/ CancelExecution(e)
                           \/ \E q \in Questions : Ask(e, q)
    BY <1>10
  <2>2. CASE Admit(e)
    BY <1>7, <2>2
  <2>3. CASE Deadline(e) \/ CancelExecution(e)
    BY <1>8, <1>9, <2>3
  <2>4. CASE \E q \in Questions : Ask(e, q)
    BY <2>4
  <2>5. QED
    BY <2>1, <2>2, <2>3, <2>4
<1>11. CASE \E a \in Answers : (\E ids \in Tuples : Answer(a, ids)) \/ CloseAnswer(a)
  <2>1. PICK a \in Answers : (\E ids \in Tuples : Answer(a, ids)) \/ CloseAnswer(a)
    BY <1>11
  <2>2. CASE \E ids \in Tuples : Answer(a, ids)
    BY <1>5, <2>2
  <2>3. CASE CloseAnswer(a)
    BY <1>9, <2>3
  <2>4. QED
    BY <2>1, <2>2, <2>3
<1>12. QED
  BY <1>6, <1>9, <1>10, <1>11 DEF Next

LEMMA InitCore ==
    ASSUME Init
    PROVE  CoreInv /\ RootInv
<1>1. /\ order = <<>> /\ Len(order) = 0 /\ Known = {}
      /\ \A e \in Execs : handle[e] = [st |-> "none", ids |-> {}] /\ par[e] = None /\ task[e] = "none"
  BY EmptySeq DEF Init, Known
<1>2. \A e \in Execs : State(e) = "none" /\ Ids(e) = {} /\ ~Terminal(e) /\ ~Active(e)
  BY <1>1 DEF State, Ids, Terminal, TerminalIn, Active, ActiveIn
<1>3. TypeOK
  <2>1. handle \in [Execs -> [st : ExecStates, ids : SUBSET Questions]]
    BY DEF Init, ExecStates
  <2>2. order \in Seq(Execs)
    BY <1>1, EmptySeq
  <2>3. task \in [Execs -> TaskStates]
    BY DEF Init, TaskStates
  <2>4. /\ cancelReq \in [Execs -> BOOLEAN] /\ par \in [Execs -> Execs \cup {None}]
        /\ cancelling \subseteq Execs /\ rec \in {"READY", "ACTIVE", "QUIESCING"}
        /\ gate \in BOOLEAN /\ expired \subseteq Heartbeats
        /\ asked \in [Questions -> Roots \cup {None}]
    BY DEF Init
  <2>5. /\ names \in [Answers -> {<<>>} \cup Tuples] /\ on \in [Answers -> Answers \cup {None}]
        /\ waitFor \in [Answers -> Execs \cup {None}]
        /\ claimed \in [Answers -> SUBSET Questions] /\ was \in [Answers -> BOOLEAN]
        /\ reissued \in [Answers -> SUBSET Questions]
    BY DEF Init
  <2>6. /\ reap \in [Execs -> [set : SUBSET Execs, again : BOOLEAN]]
        /\ sweep \in [ph : {"idle", "lane", "direct"}, set : SUBSET Execs, late : SUBSET Execs]
        /\ fenced \in BOOLEAN
    BY DEF Init, NoReap, NoSweep
  <2>7. faults \in 0..MaxFaults
    BY ControlAssumption DEF Init
  <2>8. QED
    BY <2>1, <2>2, <2>3, <2>4, <2>5, <2>6, <2>7 DEF TypeOK
<1>4. Ordered
  <2>1. \A i \in 1..Len(order) : FALSE
    BY <1>1
  <2>2. QED
    BY <1>1, <1>2, <2>1 DEF Ordered
<1>5. Tasks
  BY <1>1, <1>2, Kinds DEF Tasks, Waits, TaskLive
<1>6. InFlight = {}
  BY <1>1, Kinds DEF InFlight
<1>7. Delivering
  BY <1>6 DEF Delivering, OneDelivery
<1>8. Cleared
  BY <1>2, Kinds DEF Cleared
<1>9. GateGuards
  BY <1>2 DEF GateGuards, GateOf, Active
<1>10. rec # "QUIESCING" /\ sweep.set = {}
  BY DEF Init, NoSweep
<1>11. CoreInv
  BY <1>3, <1>4, <1>5, <1>7, <1>8, <1>9, <1>10 DEF CoreInv
<1>12. RootInv
  BY <1>2, <1>6 DEF RootInv, RootAsks, PauseHasQuestion, Driven
<1>13. QED
  BY <1>11, <1>12

LEMMA StutterKeeps ==
    ASSUME UNCHANGED vars
    PROVE  (CoreInv => CoreInv') /\ (RootInv => RootInv')
<1>1. UNCHANGED <<handle, cancelReq, par, order, task, cancelling, rec, gate, names, on, waitFor,
                  claimed, was, reissued, reap, expired, asked, sweep, fenced, faults>>
  BY DEF vars, answerVars
<1>2. TypeOK' = TypeOK
  BY <1>1 DEF TypeOK
<1>3. Known' = Known /\ InFlight' = InFlight
  BY <1>1 DEF Known, InFlight
<1>4. Ordered' = Ordered /\ Tasks' = Tasks
  BY <1>1, <1>3 DEF Ordered, Tasks, State, Ids, Terminal, TerminalIn, TaskLive
<1>5. Delivering' = Delivering /\ Cleared' = Cleared /\ GateGuards' = GateGuards
  BY <1>1, <1>3 DEF Delivering, OneDelivery, Cleared, GateGuards, GateOf, State, Ids, Terminal
<1>6. CoreInv' = CoreInv
  BY <1>1, <1>2, <1>4, <1>5 DEF CoreInv
<1>7. RootAsks' = RootAsks
  BY <1>1 DEF RootAsks, AncestorIn, Ancestors, Ids
<1>8. PauseHasQuestion' = PauseHasQuestion /\ Driven' = Driven
  BY <1>1, <1>3 DEF PauseHasQuestion, Driven, Drives, Deliveries, TaskLive, State, Ids
<1>9. QED
  BY <1>6, <1>7, <1>8 DEF RootInv

LEMMA StepCore ==
    ASSUME CoreInv, [Next]_vars
    PROVE  CoreInv'
<1>1. CASE UNCHANGED vars
  BY <1>1, StutterKeeps
<1>2. CASE Next
  <2>1. CASE Advancing
    BY <2>1, AdvancingCore
  <2>2. CASE \E e \in Execs : \E p, t, st, replaced : Admitting(e, p, t, st, replaced)
    BY <2>2, AdmittingCore
  <2>3. CASE \E e \in Execs, q \in Questions : Ask(e, q)
    BY <2>3, AskCore
  <2>4. CASE \E a \in Answers : /\ task[a] \in {"none", "claiming"}
                                /\ Stays(a) \/ \E p \in Execs : Takes(a, p)
    BY <2>4, StaysKeeps, TakesCore
  <2>5. CASE \E a \in Answers, how \in Ends, Q \in SUBSET Questions : EndAnswer(a, how, Q)
    BY <2>5, EndAnswerCore
  <2>6. QED
    BY <1>2, <2>1, <2>2, <2>3, <2>4, <2>5, NextKinds
<1>3. QED
  BY <1>1, <1>2

LEMMA StepRoot ==
    ASSUME CoreInv, RootInv, BelowAsks = FALSE, [Next]_vars
    PROVE  RootInv'
<1>1. CASE UNCHANGED vars
  BY <1>1, StutterKeeps
<1>2. CASE Next
  <2>1. CASE Advancing
    BY <2>1, AdvancingRoot
  <2>2. CASE \E e \in Execs : \E p, t, st, replaced : Admitting(e, p, t, st, replaced)
    BY <2>2, AdmittingRoot
  <2>3. CASE \E e \in Execs, q \in Questions : Ask(e, q)
    BY <2>3, AskRoot
  <2>4. CASE \E a \in Answers : /\ task[a] \in {"none", "claiming"}
                                /\ Stays(a) \/ \E p \in Execs : Takes(a, p)
    BY <2>4, StaysKeeps, TakesRoot
  <2>5. CASE \E a \in Answers, how \in Ends, Q \in SUBSET Questions : EndAnswer(a, how, Q)
    BY <2>5, EndAnswerRoot
  <2>6. QED
    BY <1>2, <2>1, <2>2, <2>3, <2>4, <2>5, NextKinds
<1>3. QED
  BY <1>1, <1>2

\* What a step may do to the questions, and to the Heartbeats that are overdue.
KeepsQuestions ==
    \A e \in Execs : \A q \in Ids(e) \ handle'[e].ids :
       \/ TerminalIn(handle', e) /\ handle'[e].st # "succeeded"
       \/ \E a \in Deliveries(e) :
             /\ task'[a] = "ended"
             /\ \/ q \in claimed[a] \cup NamesOf(names[a]) \cup reissued[a]
                \/ \E x \in Execs : q \in handle'[x].ids

FailsExpired ==
    \A h \in expired : Active(h) /\ handle'[h].st = "cancelled"
       => \E c \in Execs : State(c) = "none" /\ handle'[c].st = "queued"

LEMMA StepKeepsQuestions ==
    ASSUME CoreInv, RootInv, Next
    PROVE  KeepsQuestions
<1>1. TypeOK /\ Ordered /\ handle \in Handles
  BY DEF CoreInv, TypeOK, Handles
<1>2. CASE Advancing
  <2>1. ASSUME NEW e \in Execs, NEW q \in Ids(e) \ handle'[e].ids
        PROVE  TerminalIn(handle', e) /\ handle'[e].st # "succeeded"
    <3>1. Advance(e)
      BY <1>2 DEF Advancing
    <3>2. QED
      BY <3>1 DEF Advance, Ids, TerminalIn, Ended
  <2>2. QED
    BY <2>1 DEF KeepsQuestions
<1>3. CASE \E e \in Execs : \E p, t, st, replaced : Admitting(e, p, t, st, replaced)
  <2>0. PICK e \in Execs : \E p, t, st, replaced : Admitting(e, p, t, st, replaced)
    BY <1>3
  <2>1. PICK p, t, st, replaced : Admitting(e, p, t, st, replaced)
    BY <2>0
  <2>2. ASSUME NEW x \in Execs, NEW q \in Ids(x) \ handle'[x].ids
        PROVE  TerminalIn(handle', x) /\ handle'[x].st # "succeeded"
    <3>1. x # e
      BY <1>1, <2>1, AdmittingFacts DEF Ordered
    <3>2. handle'[x] = handle[x] \/ handle'[x].st = "cancelled"
      BY <2>1, <3>1, AdmittingFacts
    <3>3. QED
      BY <3>2 DEF Ids, TerminalIn
  <2>3. QED
    BY <2>2 DEF KeepsQuestions
<1>4. CASE \E e \in Execs, q \in Questions : Ask(e, q)
  <2>1. \A x \in Execs : Ids(x) \subseteq handle'[x].ids
    BY <1>4, AskFacts
  <2>2. QED
    BY <2>1 DEF KeepsQuestions
<1>5. CASE \E a \in Answers : /\ task[a] \in {"none", "claiming"}
                              /\ Stays(a) \/ \E p \in Execs : Takes(a, p)
  <2>1. \A x \in Execs : Ids(x) = handle'[x].ids
    BY <1>5 DEF Stays, Takes, Ids
  <2>2. QED
    BY <2>1 DEF KeepsQuestions
<1>6. CASE \E a \in Answers, how \in Ends, Q \in SUBSET Questions : EndAnswer(a, how, Q)
  <2>1. PICK a \in Answers, how \in Ends, Q \in SUBSET Questions : EndAnswer(a, how, Q)
    BY <1>6
  <2>2. PICK p : p = par[a]
    OBVIOUS
  <2>3. /\ \A x \in Execs \ {a, p} : handle'[x] = handle[x]
        /\ \A q \in Ids(p) \ handle'[p].ids :
              q \in claimed[a] \cup NamesOf(names[a]) \cup reissued[a] \cup handle'[a].ids
        /\ \A q \in Ids(a) \ handle'[a].ids : handle'[a].st \in {"failed", "cancelled"}
    BY <2>1, <2>2, EndAnswerRooted
  <2>4. a \in InFlight /\ task'[a] = "ended" /\ a \in Execs
    BY <2>1, EndAnswerFacts, Kinds
  <2>5. ASSUME NEW x \in Execs, NEW q \in Ids(x) \ handle'[x].ids
        PROVE  \/ TerminalIn(handle', x) /\ handle'[x].st # "succeeded"
               \/ \E b \in Deliveries(x) :
                     /\ task'[b] = "ended"
                     /\ \/ q \in claimed[b] \cup NamesOf(names[b]) \cup reissued[b]
                        \/ \E y \in Execs : q \in handle'[y].ids
    <3>1. x \in {a, p}
      BY <2>3 DEF Ids
    <3>2. CASE x = a
      BY <2>3, <3>2 DEF TerminalIn
    <3>3. CASE x = p
      <4>1. a \in Deliveries(x)
        BY <2>2, <2>4, <3>3 DEF Deliveries
      <4>2. q \in claimed[a] \cup NamesOf(names[a]) \cup reissued[a] \/ q \in handle'[a].ids
        BY <2>3, <3>3
      <4>3. QED
        BY <2>4, <4>1, <4>2
    <3>4. QED
      BY <3>1, <3>2, <3>3
  <2>6. QED
    BY <2>5 DEF KeepsQuestions
<1>7. QED
  BY <1>2, <1>3, <1>4, <1>5, <1>6, NextKinds

LEMMA StepFailsExpired ==
    ASSUME CoreInv, Next
    PROVE  FailsExpired
<1>1. /\ handle \in Handles /\ expired \subseteq Execs /\ expired \subseteq Heartbeats
  BY Kinds DEF CoreInv, TypeOK, Handles
<1>2. \A x \in Execs : Active(x) => State(x) # "cancelled" /\ handle[x].st # "cancelled"
  BY DEF Active, ActiveIn, TerminalIn, State
<1>3. CASE Advancing
  BY <1>3 DEF Advancing, FailsExpired
<1>4. CASE \E e \in Execs : \E p, t, st, replaced : Admitting(e, p, t, st, replaced)
  <2>0. PICK e \in Execs : \E p, t, st, replaced : Admitting(e, p, t, st, replaced)
    BY <1>4
  <2>1. PICK p, t, st, replaced : Admitting(e, p, t, st, replaced)
    BY <2>0
  <2>2. ASSUME NEW h \in expired, Active(h), handle'[h].st = "cancelled"
        PROVE  State(e) = "none" /\ handle'[e].st = "queued"
    <3>1. State(e) = "none" /\ handle'[e].st = st
      BY <2>1, AdmittingFacts
    <3>2. h # e
      BY <2>2, <3>1 DEF Active, ActiveIn, State
    <3>3. handle'[h] = handle[h] \/ st = "queued"
      BY <1>1, <2>1, <3>2, AdmittingFacts
    <3>4. QED
      BY <1>1, <1>2, <2>2, <3>1, <3>3
  <2>3. QED
    BY <2>2 DEF FailsExpired
<1>5. CASE \E e \in Execs, q \in Questions : Ask(e, q)
  <2>1. \A x \in Execs : handle'[x].st = State(x)
    BY <1>5, AskFacts
  <2>2. QED
    BY <1>1, <1>2, <2>1 DEF FailsExpired
<1>6. CASE \E a \in Answers : /\ task[a] \in {"none", "claiming"}
                              /\ Stays(a) \/ \E p \in Execs : Takes(a, p)
  <2>1. \A x \in Execs : handle'[x].st \in {State(x), "running"}
    BY <1>6 DEF Stays, Takes, State
  <2>2. QED
    BY <1>1, <1>2, <2>1 DEF FailsExpired
<1>7. CASE \E a \in Answers, how \in Ends, Q \in SUBSET Questions : EndAnswer(a, how, Q)
  <2>1. PICK a \in Answers, how \in Ends, Q \in SUBSET Questions : EndAnswer(a, how, Q)
    BY <1>7
  <2>2. ASSUME NEW h \in expired, Active(h) PROVE handle'[h].st # "cancelled"
    <3>1. h \in Execs \ {a}
      BY <1>1, Kinds
    <3>2. \/ handle'[h] = handle[h]
          \/ handle'[h].st = "waiting" \/ handle'[h].st = "succeeded" \/ handle'[h].st = State(h)
      BY <2>1, <3>1, SettledFacts
    <3>3. QED
      BY <1>2, <2>2, <3>1, <3>2
  <2>3. QED
    BY <2>2 DEF FailsExpired
<1>8. QED
  BY <1>3, <1>4, <1>5, <1>6, <1>7, NextKinds

LEMMA AlwaysCore == Safety => []CoreInv
<1>1. Init => CoreInv
  BY InitCore
<1>2. CoreInv /\ [Next]_vars => CoreInv'
  BY StepCore
<1>3. QED
  BY <1>1, <1>2, PTL DEF Safety

LEMMA AlwaysRoot ==
    ASSUME BelowAsks = FALSE
    PROVE  Safety => []RootInv
<1>1. Init => CoreInv /\ RootInv
  BY InitCore
<1>2. CoreInv /\ RootInv /\ [Next]_vars => CoreInv' /\ RootInv'
  BY StepCore, StepRoot
<1>3. QED
  BY <1>1, <1>2, PTL DEF Safety

\* The variables of the coordinator's control delivery keep their types, whatever the
\* calls of run_stream, submit_unary, deliver_control and cancel_execution and their order.
THEOREM ControlTypes == Safety => []TypeOK
<1>1. CoreInv => TypeOK
  BY DEF CoreInv
<1>2. QED
  BY <1>1, AlwaysCore, PTL

\* _claim_control_parent never lets two answers be delivered to one execution together,
\* however many answers wait and whichever of them wakes first.
THEOREM OneAnswerAtATime == Safety => []OneDelivery
<1>1. CoreInv => OneDelivery
  BY DEF CoreInv, Delivering
<1>2. QED
  BY <1>1, AlwaysCore, PTL

\* Until quiesce_session, an open control gate means that no execution waits for an
\* answer: no mailbox message overtakes an open question.
THEOREM GateHolds == Safety => []GateGuards
<1>1. CoreInv => GateGuards
  BY DEF CoreInv
<1>2. QED
  BY <1>1, AlwaysCore, PTL

\* A Heartbeat past its deadline does not end as cancelled, whatever cancels, answers and
\* sweeps race its deadline, unless a new chat replaces it (_new_execution).
THEOREM DeadlineFails == Safety => ExpiredIsFailed
<1>1. CoreInv /\ [Next]_vars => [FailsExpired]_vars
  BY StepFailsExpired
<1>2. Safety => [][FailsExpired]_vars
  BY <1>1, AlwaysCore, PTL DEF Safety
<1>3. QED
  BY <1>2 DEF ExpiredIsFailed, FailsExpired

\* Where only the Heartbeat asks below a Heartbeat, every paused execution has a question
\* whose answer resumes it, and every running one is driven by its task, by an answer or
\* by a cancel: deliver_control and its error paths leave nobody behind.
THEOREM NobodyLeftBehind ==
    ASSUME BelowAsks = FALSE
    PROVE  Safety => []NobodyStranded
<1>1. RootInv => NobodyStranded
  <2>1. ASSUME Driven PROVE RunningIsDriven
    BY <2>1 DEF Driven, RunningIsDriven, Drives
  <2>2. QED
    BY <2>1 DEF RootInv, NobodyStranded
<1>2. QED
  BY <1>1, AlwaysRoot, PTL

\* Where only the Heartbeat asks below a Heartbeat, no step loses a question: it leaves its
\* execution with an answer that claimed or named it, by moving to another handle, or with
\* the end of the execution.
THEOREM NoQuestionLost ==
    ASSUME BelowAsks = FALSE
    PROVE  Safety => QuestionsKept
<1>1. CoreInv /\ RootInv /\ [Next]_vars => [KeepsQuestions]_vars
  BY StepKeepsQuestions
<1>2. Safety => [][KeepsQuestions]_vars
  BY <1>1, AlwaysCore, AlwaysRoot, PTL DEF Safety
<1>3. QED
  BY <1>2 DEF QuestionsKept, KeepsQuestions
=============================================================================
