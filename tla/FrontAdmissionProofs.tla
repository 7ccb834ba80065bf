------------------------ MODULE FrontAdmissionProofs ------------------------
(***************************************************************************)
(* Proofs about the front: its books are exact, its push slot follows the  *)
(* newest connection and it holds back what it must, for any number of     *)
(* requests, ids, connections and readiness reports.                       *)
(***************************************************************************)
EXTENDS FrontAdmission, FiniteSetTheorems, SequenceTheorems, TLAPS

\* A request has arrived on a connection that was accepted, and one whose task is
\* being cancelled has lost it.
Arrived ==
    /\ \A r \in Requests : pc[r] # "none" => conns[Conn[r]] # "none"
    /\ \A k \in Keys : items[k] # None => pc[items[k]] # "none"
    /\ \A r \in dying : conns[Conn[r]] = "closed" /\ pc[r] # "none"

\* Each connection is in _push_conns once; a backend that is not attached yet has no
\* gateway.
PushInv ==
    /\ PushFollowsNewest
    /\ \A i, j \in 1..Len(push) : push[i] = push[j] => i = j
    /\ backend = "unset" => gateway = None

\* The inductive invariant.
FrontInv ==
    /\ TypeOK
    /\ IsFiniteSet(InQueue) /\ QueueExact
    /\ RegistryExact /\ Arrived
    /\ EventMatchesState
    /\ PushInv

-----------------------------------------------------------------------------
(* What a step does to the queue and the registry *)

\* The requests in the queue and in the registry after one request moved.
LEMMA MoveFacts ==
    ASSUME pc \in [Requests -> Places], NEW r \in Requests, NEW p \in Places, At(r, p)
    PROVE  /\ pc' \in [Requests -> Places]
           /\ pc'[r] = p /\ \A q \in Requests \ {r} : pc'[q] = pc[q]
           /\ InQueue' = IF p \in {"emitting", "waiting"} THEN InQueue \cup {r}
                         ELSE InQueue \ {r}
           /\ Registered' = IF p \in {"warming", "emitting", "waiting", "refusing", "dispatched"}
                            THEN Registered \cup {r} ELSE Registered \ {r}
<1>1. /\ pc' \in [Requests -> Places]
      /\ pc'[r] = p /\ \A q \in Requests \ {r} : pc'[q] = pc[q]
  BY DEF At
<1>2. QED
  BY <1>1 DEF InQueue, Registered

LEMMA SamePlaces ==
    ASSUME UNCHANGED pc
    PROVE  InQueue' = InQueue /\ Registered' = Registered
BY DEF InQueue, Registered

\* The registry keeps its type when a request is registered or completed.
LEMMA RegistryTypes ==
    ASSUME TypeOK, NEW r \in Requests
    PROVE  /\ RegistryOf(r) \in [Keys -> Requests \cup {None}]
           /\ Completed(r) \in [Keys -> Requests \cup {None}]
           /\ Key[r] = None \/ Key[r] \in Keys
           /\ r # None
BY FrontAssumption DEF TypeOK, RegistryOf, Completed

\* The two outcomes of admitting a request: turned away, or registered, with a place
\* of the queue when no backend is attached.
Admitted(r) ==
    /\ ~Duplicate(r) /\ items' = RegistryOf(r)
    /\ \/ backend = "on" /\ waiting' = waiting /\ \E p \in {"warming", "dispatched"} : At(r, p)
       \/ waiting < QueueLimit /\ waiting' = waiting + 1 /\ At(r, "emitting")
TurnedAway(r) ==
    /\ UNCHANGED <<waiting, items>>
    /\ \E p \in {"rejecting", "recovering"} : At(r, p)

LEMMA AdmitOutcome ==
    ASSUME TypeOK, NEW r \in Requests, Admit(r)
    PROVE  TurnedAway(r) \/ Admitted(r)
BY FrontAssumption DEF TypeOK, Admit, Forward, Enqueue, TurnedAway, Admitted

LEMMA DispatchOutcome ==
    ASSUME TypeOK, NEW r \in Requests, Dispatch(r) \/ Recovered(r)
    PROVE  /\ TurnedAway(r) \/ Admitted(r)
           /\ pc[r] \in {"none", "recovering"}
           /\ pc[r] = "none" => conns[Conn[r]] # "none"
           /\ UNCHANGED <<readyVars, backend, cancelled, wait, dying, connVars>>
<1>1. CASE Dispatch(r)
  <2>1. Admit(r) \/ TurnedAway(r)
    BY <1>1 DEF Dispatch, TurnedAway
  <2>2. QED
    BY <1>1, <2>1, AdmitOutcome DEF Dispatch
<1>2. CASE Recovered(r)
  <2>1. Admit(r) \/ TurnedAway(r)
    BY <1>2 DEF Recovered, TurnedAway
  <2>2. QED
    BY <1>2, <2>1, AdmitOutcome DEF Recovered
<1>3. QED
  BY <1>1, <1>2

\* A step of the queue's counter: it counts one more, one less or the same.
Counted ==
    \/ InQueue' = InQueue /\ waiting' = waiting
    \/ /\ waiting < QueueLimit /\ waiting' = waiting + 1
       /\ \E r \in Requests \ InQueue : InQueue' = InQueue \cup {r}
    \/ /\ waiting' = waiting - 1
       /\ \E r \in InQueue : InQueue' = InQueue \ {r}

LEMMA CountedIsExact ==
    ASSUME TypeOK, IsFiniteSet(InQueue), QueueExact, Counted
    PROVE  IsFiniteSet(InQueue') /\ QueueExact' /\ waiting' \in 0..QueueLimit
<1>1. waiting \in Nat /\ waiting <= QueueLimit /\ QueueLimit \in Nat /\ waiting = Cardinality(InQueue)
  BY FrontAssumption DEF TypeOK, QueueExact
<1>2. CASE InQueue' = InQueue /\ waiting' = waiting
  BY <1>1, <1>2 DEF QueueExact
<1>3. ASSUME waiting < QueueLimit, waiting' = waiting + 1,
             NEW r \in Requests \ InQueue, InQueue' = InQueue \cup {r}
      PROVE  IsFiniteSet(InQueue') /\ QueueExact' /\ waiting' \in 0..QueueLimit
  <2>1. IsFiniteSet(InQueue \cup {r}) /\ Cardinality(InQueue \cup {r}) = Cardinality(InQueue) + 1
    BY <1>3, FS_AddElement
  <2>2. QED
    BY <1>1, <1>3, <2>1 DEF QueueExact
<1>4. ASSUME waiting' = waiting - 1, NEW r \in InQueue, InQueue' = InQueue \ {r}
      PROVE  IsFiniteSet(InQueue') /\ QueueExact' /\ waiting' \in 0..QueueLimit
  <2>1. IsFiniteSet(InQueue \ {r}) /\ Cardinality(InQueue \ {r}) = Cardinality(InQueue) - 1
    BY <1>4, FS_RemoveElement
  <2>2. Cardinality(InQueue \ {r}) \in Nat
    BY <2>1, FS_CardinalityType
  <2>3. QED
    BY <1>1, <1>4, <2>1, <2>2 DEF QueueExact
<1>5. QED
  BY <1>2, <1>3, <1>4 DEF Counted

\* What a step may do to the registry: nothing, enter one request under its free key,
\* or take one out; a request that leaves without being taken out has lost its
\* connection, or was never entered.
Booked ==
    \/ UNCHANGED items /\ Registered' = Registered
    \/ \E r \in Requests :
         /\ r \notin Registered /\ ~Duplicate(r) /\ items' = RegistryOf(r)
         /\ Registered' = Registered \cup {r}
    \/ \E r \in Requests : items' = Completed(r) /\ Registered' = Registered \ {r}
    \/ \E r \in Requests : /\ UNCHANGED items /\ Registered' = Registered \ {r}
                           /\ r \in Registered => conns[Conn[r]] # "open"

LEMMA BookedIsExact ==
    ASSUME TypeOK, RegistryExact, Arrived, Booked,
           \A c \in Connections : conns[c] \in {"broken", "closed"} => conns'[c] # "open",
           \A c \in Connections : conns'[c] = "open" => conns[c] \in {"none", "open"}
    PROVE  RegistryExact'
<1>1. /\ items \in [Keys -> Requests \cup {None}] /\ Conn \in [Requests -> Connections]
      /\ Key \in [Requests -> Keys \cup {None}]
      /\ None \notin Keys /\ None \notin Requests /\ Registered \subseteq Requests
      /\ conns \in [Connections -> {"none", "open", "broken", "closed"}]
  BY FrontAssumption DEF TypeOK, Registered
<1>2. \A k \in Keys : items[k] # None /\ items[k] \notin Registered
                        => conns'[Conn[items[k]]] # "open"
  <2>1. ASSUME NEW k \in Keys, items[k] # None, items[k] \notin Registered
        PROVE  conns'[Conn[items[k]]] # "open"
    <3>1. items[k] \in Requests /\ Conn[items[k]] \in Connections
      BY <1>1, <2>1
    <3>2. conns[Conn[items[k]]] # "open" /\ conns[Conn[items[k]]] # "none"
      BY <2>1, <3>1 DEF RegistryExact, Arrived
    <3>3. QED
      BY <3>1, <3>2
  <2>2. QED
    BY <2>1
<1>3. CASE UNCHANGED items /\ Registered' = Registered
  BY <1>2, <1>3 DEF RegistryExact
<1>4. ASSUME NEW r \in Requests, r \notin Registered, ~Duplicate(r), items' = RegistryOf(r),
             Registered' = Registered \cup {r}
      PROVE  RegistryExact'
  <2>1. CASE Key[r] = None
    BY <1>1, <1>2, <1>4, <2>1 DEF RegistryExact, RegistryOf
  <2>2. CASE Key[r] # None
    <3>1. Key[r] \in Keys /\ items[Key[r]] = None /\ items' = [items EXCEPT ![Key[r]] = r]
      BY <1>1, <1>4, <2>2 DEF RegistryOf, Duplicate
    <3>2. \A q \in Registered : Key[q] # None => Key[q] \in Keys /\ Key[q] # Key[r]
      BY <1>1, <3>1 DEF RegistryExact
    <3>3. \A q \in Registered \cup {r} : Key[q] # None => items'[Key[q]] = q
      BY <1>1, <3>1, <3>2 DEF RegistryExact
    <3>4. \A k \in Keys : items'[k] # None =>
             items'[k] \in Registered \cup {r} \/ conns'[Conn[items'[k]]] # "open"
      BY <1>1, <1>2, <3>1
    <3>5. QED
      BY <1>4, <3>3, <3>4 DEF RegistryExact
  <2>3. QED
    BY <2>1, <2>2
<1>5. ASSUME NEW r \in Requests, items' = Completed(r), Registered' = Registered \ {r}
      PROVE  RegistryExact'
  <2>1. \A k \in Keys : items'[k] = IF items[k] = r THEN None ELSE items[k]
    BY <1>5 DEF Completed
  <2>2. \A q \in Registered \ {r} : Key[q] # None => items'[Key[q]] = q
    BY <1>1, <2>1 DEF RegistryExact
  <2>3. \A k \in Keys : items'[k] # None =>
           items'[k] \in Registered \ {r} \/ conns'[Conn[items'[k]]] # "open"
    BY <1>2, <2>1
  <2>4. QED
    BY <1>5, <2>2, <2>3 DEF RegistryExact
<1>6. ASSUME NEW r \in Requests, UNCHANGED items, Registered' = Registered \ {r},
             r \in Registered => conns[Conn[r]] # "open"
      PROVE  RegistryExact'
  <2>1. r \in Registered => conns'[Conn[r]] # "open"
    <3>1. Conn[r] \in Connections
      BY <1>1
    <3>2. r \in Registered => conns[Conn[r]] # "none"
      BY DEF Arrived, Registered
    <3>3. QED
      BY <1>6, <3>1, <3>2
  <2>2. QED
    BY <1>2, <1>6, <2>1 DEF RegistryExact
<1>7. QED
  BY <1>3, <1>4, <1>5, <1>6 DEF Booked

-----------------------------------------------------------------------------
(* The push slot *)

\* A connection in _push_conns has one place there; without it the others keep their
\* order.
LEMMA RemovalFacts ==
    ASSUME push \in Seq(Connections), NEW c \in ToSet(push),
           \A i, j \in 1..Len(push) : push[i] = push[j] => i = j
    PROVE  LET n == Len(push)
               p == RemoveAt(push, Index(c))
           IN  /\ n \in Nat \ {0} /\ Index(c) \in 1..n /\ push[Index(c)] = c
               /\ p \in Seq(Connections) /\ Len(p) = n - 1
               /\ \A i \in 1..(n - 1) : p[i] = IF i < Index(c) THEN push[i] ELSE push[i + 1]
<1> DEFINE n == Len(push)
           k == Index(c)
           s == SubSeq(push, 1, k - 1)
           t == SubSeq(push, k + 1, n)
<1>1. n \in Nat /\ DOMAIN push = 1..n /\ \A i \in 1..n : push[i] \in Connections
  BY LenProperties, ElementOfSeq
<1>2. k \in 1..n /\ push[k] = c
  BY <1>1 DEF ToSet, Index
<1> HIDE DEF k
<1>3. n \in Nat \ {0} /\ k \in Int /\ k - 1 \in Int /\ k + 1 \in Int /\ 1 <= k /\ k <= n
  BY <1>1, <1>2
<1>4. \A i \in 1..(k - 1) : push[i] \in Connections
  BY <1>1, <1>3
<1>5. \A i \in (k + 1)..n : push[i] \in Connections
  BY <1>1, <1>3
<1>6. /\ s \in Seq(Connections)
      /\ Len(s) = IF 1 <= k - 1 THEN (k - 1) - 1 + 1 ELSE 0
      /\ \A i \in 1..((k - 1) - 1 + 1) : s[i] = push[1 + i - 1]
  BY <1>3, <1>4, SubSeqProperties
<1>7. /\ t \in Seq(Connections)
      /\ Len(t) = IF k + 1 <= n THEN n - (k + 1) + 1 ELSE 0
      /\ \A i \in 1..(n - (k + 1) + 1) : t[i] = push[(k + 1) + i - 1]
  BY <1>3, <1>5, SubSeqProperties
<1>8. /\ s \o t \in Seq(Connections)
      /\ Len(s \o t) = Len(s) + Len(t)
      /\ \A i \in 1..(Len(s) + Len(t)) :
            (s \o t)[i] = IF i <= Len(s) THEN s[i] ELSE t[i - Len(s)]
  BY <1>6, <1>7, ConcatProperties
<1> HIDE DEF n, s, t
<1>9. Len(s) = k - 1 /\ Len(t) = n - k
  BY <1>3, <1>6, <1>7
<1>10. \A i \in 1..(k - 1) : s[i] = push[i]
  BY <1>3, <1>6
<1>11. \A i \in 1..(n - k) : t[i] = push[k + i]
  BY <1>3, <1>7
<1>12. Len(s \o t) = n - 1
  BY <1>3, <1>8, <1>9
<1>13. \A i \in 1..(n - 1) : (s \o t)[i] = IF i < k THEN push[i] ELSE push[i + 1]
  <2>1. ASSUME NEW i \in 1..(n - 1), i < k
        PROVE  (s \o t)[i] = push[i]
    <3>1. i \in 1..(Len(s) + Len(t)) /\ i <= Len(s) /\ i \in 1..(k - 1)
      BY <1>3, <1>9, <2>1
    <3>2. QED
      BY <1>8, <1>10, <3>1
  <2>2. ASSUME NEW i \in 1..(n - 1), ~(i < k)
        PROVE  (s \o t)[i] = push[i + 1]
    <3>1. /\ i \in 1..(Len(s) + Len(t)) /\ ~(i <= Len(s))
          /\ i - Len(s) \in 1..(n - k) /\ k + (i - Len(s)) = i + 1
      BY <1>3, <1>9, <2>2
    <3>2. QED
      BY <1>8, <1>11, <3>1
  <2>3. QED
    BY <2>1, <2>2
<1>14. RemoveAt(push, Index(c)) = s \o t
  BY DEF RemoveAt, s, t, k, n
<1>15. QED
  BY <1>2, <1>3, <1>8, <1>12, <1>13, <1>14 DEF k, n

\* A connection that is not the newest leaves the slot where it is; when the newest
\* leaves, the next newest takes it.
LEMMA DisconnectPush ==
    ASSUME TypeOK, PushInv, NEW c \in Connections, Disconnect(c)
    PROVE  PushInv' /\ push' \in Seq(Connections) /\ target' \in Connections \cup {None}
                    /\ gateway' \in Connections \cup {None}
<1>1. /\ push \in Seq(Connections) /\ target \in Connections \cup {None}
      /\ gateway \in Connections \cup {None}
      /\ conns \in [Connections -> {"none", "open", "broken", "closed"}]
      /\ conns' = [conns EXCEPT ![c] = "closed"] /\ conns[c] \in {"open", "broken"}
      /\ backend' = backend /\ Rpc \subseteq Connections
  BY FrontAssumption DEF TypeOK, Disconnect
<1>2. /\ ToSet(push) = {d \in Connections \ Rpc : conns[d] \in {"open", "broken"}}
      /\ \A i, j \in 1..Len(push) : push[i] = push[j] => i = j
      /\ target = IF push = <<>> THEN None ELSE Last(push)
      /\ backend = "on" => gateway = IF push = <<>> THEN None ELSE Last(push)
      /\ backend = "unset" => gateway = None
  BY DEF PushInv, PushFollowsNewest
<1>3. CASE c \in Rpc
  <2>1. UNCHANGED <<push, target, gateway>>
    BY <1>3 DEF Disconnect
  <2>2. {d \in Connections \ Rpc : conns'[d] \in {"open", "broken"}} =
        {d \in Connections \ Rpc : conns[d] \in {"open", "broken"}}
    BY <1>1, <1>3
  <2>3. QED
    BY <1>1, <1>2, <2>1, <2>2 DEF PushInv, PushFollowsNewest
<1>4. CASE c \notin Rpc
  <2> DEFINE n == Len(push)
             k == Index(c)
  <2>1. c \in ToSet(push)
    BY <1>1, <1>2, <1>4
  <2>2. push' = RemoveAt(push, k) /\ Release(c)
    BY <1>4 DEF Disconnect, Release
  <2>3. /\ n \in Nat \ {0} /\ k \in 1..n /\ push[k] = c
        /\ push' \in Seq(Connections) /\ Len(push') = n - 1
        /\ \A i \in 1..(n - 1) : push'[i] = IF i < k THEN push[i] ELSE push[i + 1]
    BY <1>1, <1>2, <2>1, <2>2, RemovalFacts
  <2>4. DOMAIN push = 1..n /\ DOMAIN push' = 1..(n - 1) /\ push # <<>>
    BY <1>1, <2>3, LenProperties, EmptySeq
  <2> HIDE DEF n, k
  <2>5. \A i \in 1..(n - 1) :
           \E m \in 1..n : m # k /\ push'[i] = push[m] /\ m = IF i < k THEN i ELSE i + 1
    <3>1. ASSUME NEW i \in 1..(n - 1), i < k
          PROVE  i \in 1..n /\ i # k /\ push'[i] = push[i]
      BY <2>3, <3>1
    <3>2. ASSUME NEW i \in 1..(n - 1), ~(i < k)
          PROVE  i + 1 \in 1..n /\ i + 1 # k /\ push'[i] = push[i + 1]
      BY <2>3, <3>2
    <3>3. QED
      BY <3>1, <3>2
  <2>6. \A i, j \in 1..Len(push') : push'[i] = push'[j] => i = j
    <3>1. ASSUME NEW i \in 1..(n - 1), NEW j \in 1..(n - 1), push'[i] = push'[j]
          PROVE  i = j
      <4>1. PICK m \in 1..n : push'[i] = push[m] /\ m = IF i < k THEN i ELSE i + 1
        BY <2>5
      <4>2. PICK o \in 1..n : push'[j] = push[o] /\ o = IF j < k THEN j ELSE j + 1
        BY <2>5
      <4>3. m = o
        BY <1>2, <3>1, <4>1, <4>2 DEF n
      <4>4. i \in Int /\ j \in Int /\ k \in Int
        BY <2>3
      <4>5. QED
        BY <4>1, <4>2, <4>3, <4>4
    <3>2. QED
      BY <2>3, <3>1
  <2>7. ToSet(push') = ToSet(push) \ {c}
    <3>1. ASSUME NEW i \in 1..(n - 1)
          PROVE  push'[i] \in ToSet(push) /\ push'[i] # c
      BY <1>2, <2>3, <2>4, <2>5 DEF ToSet, n
    <3>2. ASSUME NEW m \in 1..n, push[m] # c
          PROVE  \E i \in 1..(n - 1) : push'[i] = push[m]
      <4>1. CASE m < k
        <5>1. m \in 1..(n - 1)
          BY <2>3, <4>1
        <5>2. QED
          BY <2>3, <4>1, <5>1
      <4>2. CASE ~(m < k)
        <5>1. m # k
          BY <2>3, <3>2
        <5>2. m - 1 \in 1..(n - 1) /\ ~(m - 1 < k) /\ (m - 1) + 1 = m
          BY <2>3, <4>2, <5>1
        <5>3. QED
          BY <2>3, <5>2
      <4>3. QED
        BY <4>1, <4>2
    <3>3. ToSet(push') \subseteq ToSet(push) \ {c}
      BY <2>4, <3>1 DEF ToSet
    <3>4. ToSet(push) \ {c} \subseteq ToSet(push')
      BY <2>4, <3>2 DEF ToSet
    <3>5. QED
      BY <3>3, <3>4
  <2>8. ToSet(push') = {d \in Connections \ Rpc : conns'[d] \in {"open", "broken"}}
    BY <1>1, <1>2, <2>7
  <2>9. CASE k # n
    <3>1. UNCHANGED <<target, gateway>>
      BY <2>2, <2>9 DEF Release, k, n
    <3>2. n - 1 \in 1..(n - 1) /\ ~(n - 1 < k) /\ (n - 1) + 1 = n
      BY <2>3, <2>9
    <3>3. push' # <<>> /\ Last(push') = Last(push)
      <4>1. push'[n - 1] = push[n]
        BY <2>3, <3>2
      <4>2. Len(push') # 0
        BY <2>3, <3>2
      <4>3. QED
        BY <2>3, <4>1, <4>2, EmptySeq DEF Last, n
    <3>4. QED
      BY <1>1, <1>2, <2>3, <2>4, <2>6, <2>8, <3>1, <3>3 DEF PushInv, PushFollowsNewest
  <2>10. CASE k = n /\ push' # <<>>
    <3>1. target' = Last(push') /\ gateway' = IF backend = "on" THEN Last(push') ELSE gateway
      BY <2>2, <2>10 DEF Release, Publish, k, n
    <3>2. Last(push') \in Connections
      <4>1. Len(push') \in 1..Len(push')
        BY <2>3, <2>10, EmptySeq, LenProperties
      <4>2. QED
        BY <2>3, <4>1, ElementOfSeq DEF Last
    <3>3. QED
      BY <1>1, <1>2, <2>3, <2>6, <2>8, <2>10, <3>1, <3>2 DEF PushInv, PushFollowsNewest
  <2>11. CASE k = n /\ push' = <<>>
    <3>1. /\ target' = IF target = c THEN None ELSE target
          /\ gateway' = IF backend = "on" /\ gateway = c THEN None ELSE gateway
      BY <2>2, <2>11 DEF Release, k, n
    <3>2. Last(push) = c
      BY <2>3, <2>11 DEF Last, n
    <3>3. QED
      BY <1>1, <1>2, <2>3, <2>4, <2>6, <2>8, <2>11, <3>1, <3>2 DEF PushInv, PushFollowsNewest
  <2>12. QED
    BY <2>9, <2>10, <2>11
<1>5. QED
  BY <1>3, <1>4

\* A new connection is the newest one.
LEMMA ConnectPush ==
    ASSUME TypeOK, PushInv, NEW c \in Connections, Connect(c)
    PROVE  PushInv' /\ push' \in Seq(Connections) /\ target' \in Connections \cup {None}
                    /\ gateway' \in Connections \cup {None}
<1>1. /\ push \in Seq(Connections) /\ target \in Connections \cup {None}
      /\ gateway \in Connections \cup {None}
      /\ conns \in [Connections -> {"none", "open", "broken", "closed"}]
      /\ conns' = [conns EXCEPT ![c] = "open"] /\ conns[c] = "none"
      /\ backend' = backend
  BY DEF TypeOK, Connect
<1>2. /\ ToSet(push) = {d \in Connections \ Rpc : conns[d] \in {"open", "broken"}}
      /\ \A i, j \in 1..Len(push) : push[i] = push[j] => i = j
  BY DEF PushInv, PushFollowsNewest
<1>3. CASE c \in Rpc
  <2>1. UNCHANGED <<push, target, gateway>>
    BY <1>3 DEF Connect
  <2>2. {d \in Connections \ Rpc : conns'[d] \in {"open", "broken"}} =
        {d \in Connections \ Rpc : conns[d] \in {"open", "broken"}}
    BY <1>1, <1>3
  <2>3. QED
    BY <1>1, <2>1, <2>2 DEF PushInv, PushFollowsNewest
<1>4. CASE c \notin Rpc
  <2> DEFINE n == Len(push)
  <2>1. /\ push' = Append(push, c) /\ target' = c
        /\ gateway' = IF backend = "on" THEN c ELSE gateway
    BY <1>4 DEF Connect, Publish
  <2>2. /\ push' \in Seq(Connections) /\ push' # <<>>
        /\ Len(push') = n + 1 /\ n \in Nat
        /\ \A i \in 1..n : push'[i] = push[i]
        /\ push'[n + 1] = c
    BY <1>1, <2>1, AppendProperties, LenProperties
  <2>3. DOMAIN push = 1..n /\ DOMAIN push' = 1..(n + 1)
    BY <1>1, <2>2, LenProperties
  <2>4. \A i \in 1..(n + 1) : i \in 1..n \/ i = n + 1
    BY <2>2
  <2>5. \A i \in 1..n : push[i] # c
    BY <1>1, <1>2, <2>3 DEF ToSet
  <2> HIDE DEF n
  <2>6. \A i, j \in 1..Len(push') : push'[i] = push'[j] => i = j
    BY <1>2, <2>2, <2>4, <2>5 DEF n
  <2>7. ToSet(push') = ToSet(push) \cup {c}
    <3>1. \A i \in 1..n : i \in 1..(n + 1)
      BY <2>2
    <3>2. n + 1 \in 1..(n + 1)
      BY <2>2
    <3>3. QED
      BY <2>2, <2>3, <2>4, <3>1, <3>2 DEF ToSet
  <2>8. ToSet(push') = {d \in Connections \ Rpc : conns'[d] \in {"open", "broken"}}
    BY <1>1, <1>2, <1>4, <2>7
  <2>9. Last(push') = c
    BY <2>2 DEF Last
  <2>10. QED
    BY <1>1, <2>1, <2>2, <2>6, <2>8, <2>9 DEF PushInv, PushFollowsNewest
<1>5. QED
  BY <1>3, <1>4

\* A step that leaves the connections alone, or only breaks one.
LEMMA SamePush ==
    ASSUME TypeOK, PushInv, UNCHANGED <<push, target>>,
           \A c \in Connections : conns'[c] = conns[c] \/ (conns[c] = "open" /\ conns'[c] = "broken"),
           \/ UNCHANGED <<backend, gateway>>
           \/ AttachBackend
           \/ backend' = (IF backend = "unset" THEN backend ELSE "off") /\ gateway' = gateway
    PROVE  PushInv'
<1>1. {d \in Connections \ Rpc : conns'[d] \in {"open", "broken"}} =
      {d \in Connections \ Rpc : conns[d] \in {"open", "broken"}}
  OBVIOUS
<1>2. /\ backend' = "on" => gateway' = IF push = <<>> THEN None ELSE Last(push)
      /\ backend' = "unset" => gateway' = None
  BY DEF TypeOK, PushInv, PushFollowsNewest, AttachBackend
<1>3. QED
  BY <1>1, <1>2 DEF PushInv, PushFollowsNewest

-----------------------------------------------------------------------------
(* The invariant *)

LEMMA FrontInit ==
    ASSUME Init
    PROVE  FrontInv
<1>1. InQueue = {} /\ Registered = {}
  BY DEF Init, InQueue, Registered
<1>2. IsFiniteSet(InQueue) /\ QueueExact
  BY <1>1, FS_EmptySet DEF Init, QueueExact
<1>3. push \in Seq(Connections) /\ ToSet(push) = {} /\ Len(push) = 0
  BY EmptySeq DEF Init, ToSet
<1>4. TypeOK
  <2>1. event \in BOOLEAN
    BY DEF Init
  <2>2. waiting \in 0..QueueLimit /\ marks \in 0..MaxMarks
    BY FrontAssumption DEF Init
  <2>3. QED
    BY <1>3, <2>1, <2>2 DEF Init, TypeOK, States, Places
<1>5. RegistryExact /\ Arrived
  BY <1>1 DEF Init, RegistryExact, Arrived
<1>6. EventMatchesState
  BY DEF Init, EventMatchesState, AgentStates
<1>7. PushInv
  BY <1>3 DEF Init, PushInv, PushFollowsNewest
<1>8. QED
  BY <1>2, <1>4, <1>5, <1>6, <1>7 DEF FrontInv

\* The reports of the runtime and the backend's coming and going.
LEMMA ReadinessSteps ==
    ASSUME FrontInv, ReadinessStep
    PROVE  FrontInv'
<1>1. UNCHANGED <<waiting, items, cancelled, pc, dying, conns, push, target>>
  BY DEF ReadinessStep, Start, MarkRuntimeWarming, MarkAgentReady, MarkDegraded, MarkFailed,
     MarkRecovering, AttachBackend, BeginDrain, Rest, connVars
<1>2. TypeOK /\ PushInv /\ RegistryExact /\ Arrived /\ QueueExact /\ EventMatchesState
  BY DEF FrontInv
<1>3. state' \in States /\ event' \in BOOLEAN /\ backend' \in {"unset", "on", "off"}
  BY <1>2 DEF ReadinessStep, Start, MarkRuntimeWarming, MarkAgentReady, MarkDegraded, MarkFailed,
     MarkRecovering, AttachBackend, BeginDrain, Rest, readyVars, TypeOK, States
<1>4. marks' \in 0..MaxMarks
  <2>1. marks' = marks \/ Report
    BY DEF ReadinessStep, Start, MarkRuntimeWarming, MarkAgentReady, MarkDegraded, MarkFailed,
       MarkRecovering, AttachBackend, BeginDrain, readyVars
  <2>2. QED
    BY <1>2, <2>1, FrontAssumption DEF Report, TypeOK
<1>5. wait' \in [Requests -> {"none", "start", "parked", "woken", "yes", "no"}]
  <2>1. wait' = wait \/ Wake(TRUE)
    BY DEF ReadinessStep, Start, MarkRuntimeWarming, MarkAgentReady, MarkDegraded, MarkFailed,
       MarkRecovering, AttachBackend, BeginDrain, Rest, readyVars
  <2>2. QED
    BY <1>2, <2>1 DEF TypeOK, Wake
<1>6. gateway' \in Connections \cup {None}
  <2>1. push # <<>> => Last(push) \in Connections
    <3>1. push \in Seq(Connections)
      BY <1>2 DEF TypeOK
    <3>2. push # <<>> => Len(push) \in 1..Len(push)
      BY <3>1, EmptySeq
    <3>3. QED
      BY <3>1, <3>2, ElementOfSeq DEF Last
  <2>2. gateway' = gateway \/ (push # <<>> /\ gateway' = Last(push))
    BY DEF ReadinessStep, Start, MarkRuntimeWarming, MarkAgentReady, MarkDegraded, MarkFailed,
       MarkRecovering, AttachBackend, BeginDrain, Rest, connVars
  <2>3. QED
    BY <1>2, <2>1, <2>2 DEF TypeOK
<1>7. TypeOK'
  BY <1>1, <1>2, <1>3, <1>4, <1>5, <1>6 DEF TypeOK
<1>8. IsFiniteSet(InQueue') /\ QueueExact' /\ RegistryExact' /\ Arrived'
  BY <1>1, <1>2, SamePlaces DEF FrontInv, QueueExact, RegistryExact, Arrived
<1>9. EventMatchesState'
  <2>1. CASE Start
    BY <1>2, <2>1 DEF Start, AgentStates, EventMatchesState
  <2>2. CASE MarkRuntimeWarming
    <3>1. event => AgentReady
      BY <1>2, <2>2 DEF MarkRuntimeWarming, AgentReady, EventMatchesState
    <3>2. ~event'
      BY <2>2, <3>1 DEF MarkRuntimeWarming
    <3>3. QED
      BY <2>2, <3>2 DEF MarkRuntimeWarming, AgentStates, EventMatchesState
  <2>3. CASE MarkAgentReady \/ MarkDegraded \/ MarkFailed \/ MarkRecovering
    BY <2>3 DEF MarkAgentReady, MarkDegraded, MarkFailed, MarkRecovering, AgentStates,
       EventMatchesState
  <2>4. CASE AttachBackend
    BY <1>2, <2>4 DEF AttachBackend, readyVars, EventMatchesState
  <2>5. CASE BeginDrain
    BY <1>2, <2>5 DEF BeginDrain, AgentStates, EventMatchesState
  <2>6. QED
    BY <2>1, <2>2, <2>3, <2>4, <2>5 DEF ReadinessStep
<1>10. PushInv'
  <2>1. \/ UNCHANGED <<backend, gateway>>
        \/ AttachBackend
        \/ backend' = (IF backend = "unset" THEN backend ELSE "off") /\ gateway' = gateway
    BY DEF ReadinessStep, Start, MarkRuntimeWarming, MarkAgentReady, MarkDegraded, MarkFailed,
       MarkRecovering, BeginDrain, Rest, connVars
  <2>2. QED
    BY <1>1, <1>2, <2>1, SamePush
<1>11. QED
  BY <1>7, <1>8, <1>9, <1>10 DEF FrontInv

\* The steps of a request's task leave the readiness, the backend and the connections
\* alone; what they do to the books is Counted and Booked.
LEMMA TaskKeeps ==
    ASSUME FrontInv, UNCHANGED <<readyVars, backend, connVars>>, Counted, Booked,
           items' \in [Keys -> Requests \cup {None}], pc' \in [Requests -> Places],
           cancelled' \subseteq Requests, dying' \subseteq dying,
           wait' \in [Requests -> {"none", "start", "parked", "woken", "yes", "no"}],
           \A r \in Requests : pc[r] = "none" /\ pc'[r] # "none" => conns[Conn[r]] # "none",
           \A k \in Keys : items'[k] # None => pc'[items'[k]] # "none",
           \A r \in Requests : pc[r] # "none" => pc'[r] # "none"
    PROVE  FrontInv'
<1>1. /\ TypeOK /\ RegistryExact /\ Arrived /\ QueueExact /\ IsFiniteSet(InQueue)
      /\ EventMatchesState /\ PushInv
  BY DEF FrontInv
<1>2. /\ UNCHANGED <<state, event, marks>>
      /\ UNCHANGED <<conns, push, target, gateway>>
  BY DEF readyVars, connVars
<1>3. IsFiniteSet(InQueue') /\ QueueExact' /\ waiting' \in 0..QueueLimit
  BY <1>1, CountedIsExact
<1>4. TypeOK'
  BY <1>1, <1>2, <1>3 DEF TypeOK
<1>5. RegistryExact'
  BY <1>1, <1>2, BookedIsExact
<1>6. Arrived'
  <2>1. dying \subseteq Requests
    BY <1>1 DEF TypeOK
  <2>2. QED
    BY <1>1, <1>2, <2>1 DEF Arrived
<1>7. EventMatchesState'
  BY <1>1, <1>2 DEF EventMatchesState
<1>8. PushInv'
  BY <1>1, <1>2, SamePush
<1>9. QED
  BY <1>3, <1>4, <1>5, <1>6, <1>7, <1>8 DEF FrontInv

LEMMA DispatchSteps ==
    ASSUME FrontInv, NEW r \in Requests, Dispatch(r) \/ Recovered(r)
    PROVE  FrontInv'
<1>1. TypeOK /\ Arrived
  BY DEF FrontInv
<1>2. /\ items \in [Keys -> Requests \cup {None}] /\ pc \in [Requests -> Places]
      /\ r # None /\ (Key[r] = None \/ Key[r] \in Keys)
  BY <1>1, RegistryTypes DEF TypeOK
<1>3. /\ TurnedAway(r) \/ Admitted(r)
      /\ pc[r] \in {"none", "recovering"}
      /\ pc[r] = "none" => conns[Conn[r]] # "none"
      /\ UNCHANGED <<readyVars, backend, cancelled, wait, dying, connVars>>
  BY <1>1, DispatchOutcome
<1>4. r \notin InQueue /\ r \notin Registered
  BY <1>3 DEF InQueue, Registered
<1>5. CASE TurnedAway(r)
  <2>1. PICK p \in {"rejecting", "recovering"} : At(r, p)
    BY <1>5 DEF TurnedAway
  <2>2. /\ pc' \in [Requests -> Places] /\ pc'[r] = p
        /\ \A q \in Requests \ {r} : pc'[q] = pc[q]
        /\ InQueue' = InQueue \ {r} /\ Registered' = Registered \ {r}
    BY <1>2, <2>1, MoveFacts DEF Places
  <2>3. Counted /\ Booked
    BY <1>4, <1>5, <2>2 DEF TurnedAway, Counted, Booked
  <2>4. /\ items' = items
        /\ \A k \in Keys : items'[k] # None => pc'[items'[k]] # "none"
    BY <1>1, <1>2, <1>5, <2>2 DEF TurnedAway, Arrived
  <2>5. QED
    BY <1>1, <1>2, <1>3, <2>2, <2>3, <2>4, TaskKeeps DEF TypeOK
<1>6. CASE Admitted(r)
  <2>1. ~Duplicate(r) /\ items' = RegistryOf(r) /\ items' \in [Keys -> Requests \cup {None}]
    BY <1>1, <1>6, RegistryTypes DEF Admitted
  <2>2. \E p \in {"warming", "dispatched", "emitting"} :
          /\ At(r, p)
          /\ p # "emitting" => waiting' = waiting
          /\ p = "emitting" => waiting < QueueLimit /\ waiting' = waiting + 1
    BY <1>6 DEF Admitted
  <2>3. PICK p \in {"warming", "dispatched", "emitting"} :
          /\ At(r, p)
          /\ p # "emitting" => waiting' = waiting
          /\ p = "emitting" => waiting < QueueLimit /\ waiting' = waiting + 1
    BY <2>2
  <2>4. /\ pc' \in [Requests -> Places] /\ pc'[r] = p
        /\ \A q \in Requests \ {r} : pc'[q] = pc[q]
        /\ InQueue' = IF p = "emitting" THEN InQueue \cup {r} ELSE InQueue \ {r}
        /\ Registered' = Registered \cup {r}
    BY <1>2, <2>3, MoveFacts DEF Places
  <2>5. Counted
    BY <1>4, <2>3, <2>4 DEF Counted
  <2>6. Booked
    BY <1>4, <2>1, <2>4 DEF Booked
  <2>7. \A k \in Keys : items'[k] # None => pc'[items'[k]] # "none"
    BY <1>1, <1>2, <2>1, <2>4 DEF RegistryOf, Arrived
  <2>8. QED
    BY <1>1, <1>2, <1>3, <2>1, <2>4, <2>5, <2>6, <2>7, TaskKeeps DEF TypeOK
<1>7. QED
  BY <1>3, <1>5, <1>6

\* The steps in which a task waits, is refused or ends.
LEMMA MovingSteps ==
    ASSUME FrontInv, NEW r \in Requests, NEW p \in Places \ {"none"},
           At(r, p), pc[r] # "none",
           UNCHANGED <<readyVars, backend, connVars>>,
           cancelled' \subseteq Requests, dying' \subseteq dying,
           wait' \in [Requests -> {"none", "start", "parked", "woken", "yes", "no"}],
           waiting' = IF r \in InQueue /\ p \notin {"emitting", "waiting"}
                      THEN waiting - 1 ELSE waiting,
           p \in {"emitting", "waiting"} => r \in InQueue,
           \/ /\ items' = Completed(r) /\ p \in {"rejecting", "ended"}
           \/ /\ UNCHANGED items
              /\ \/ r \in Registered /\ p \in {"warming", "emitting", "waiting", "refusing", "dispatched"}
                 \/ /\ p \in {"rejecting", "ended"}
                    /\ r \in Registered => conns[Conn[r]] # "open"
    PROVE  FrontInv'
<1>1. TypeOK /\ Arrived
  BY DEF FrontInv
<1>2. /\ items \in [Keys -> Requests \cup {None}] /\ pc \in [Requests -> Places]
      /\ Completed(r) \in [Keys -> Requests \cup {None}]
  BY <1>1, RegistryTypes DEF TypeOK
<1>3. /\ pc' \in [Requests -> Places] /\ pc'[r] = p
      /\ \A q \in Requests \ {r} : pc'[q] = pc[q]
      /\ InQueue' = IF p \in {"emitting", "waiting"} THEN InQueue \cup {r} ELSE InQueue \ {r}
      /\ Registered' = IF p \in {"warming", "emitting", "waiting", "refusing", "dispatched"}
                       THEN Registered \cup {r} ELSE Registered \ {r}
  BY <1>2, MoveFacts
<1>4. Counted
  <2>1. CASE r \in InQueue /\ p \notin {"emitting", "waiting"}
    BY <1>3, <2>1 DEF Counted
  <2>2. CASE ~(r \in InQueue /\ p \notin {"emitting", "waiting"})
    <3>1. InQueue' = InQueue
      BY <1>3, <2>2
    <3>2. QED
      BY <2>2, <3>1 DEF Counted
  <2>3. QED
    BY <2>1, <2>2
<1>5. Booked
  <2>1. CASE items' = Completed(r) /\ p \in {"rejecting", "ended"}
    <3>1. Registered' = Registered \ {r}
      BY <1>3, <2>1
    <3>2. QED
      BY <2>1, <3>1 DEF Booked
  <2>2. CASE /\ UNCHANGED items /\ r \in Registered
             /\ p \in {"warming", "emitting", "waiting", "refusing", "dispatched"}
    <3>1. Registered' = Registered
      BY <1>3, <2>2
    <3>2. QED
      BY <2>2, <3>1 DEF Booked
  <2>3. CASE /\ UNCHANGED items /\ p \in {"rejecting", "ended"}
             /\ r \in Registered => conns[Conn[r]] # "open"
    <3>1. Registered' = Registered \ {r}
      BY <1>3, <2>3
    <3>2. QED
      BY <2>3, <3>1 DEF Booked
  <2>4. QED
    BY <2>1, <2>2, <2>3
<1>6. items' \in [Keys -> Requests \cup {None}]
  BY <1>2
<1>7. \A k \in Keys : items'[k] # None => pc'[items'[k]] # "none"
  BY <1>1, <1>2, <1>3 DEF Arrived, Completed
<1>8. \A q \in Requests : pc[q] = "none" /\ pc'[q] # "none" => conns[Conn[q]] # "none"
  BY <1>3
<1>9. QED
  BY <1>3, <1>4, <1>5, <1>6, <1>7, <1>8, TaskKeeps

LEMMA TaskSteps ==
    ASSUME FrontInv, NEW r \in Requests, TaskStep(r) \/ Finish(r)
    PROVE  FrontInv'
<1>1. TypeOK /\ Arrived
  BY DEF FrontInv
<1>2. /\ pc \in [Requests -> Places] /\ cancelled \subseteq Requests /\ waiting \in Int
      /\ wait \in [Requests -> {"none", "start", "parked", "woken", "yes", "no"}]
      /\ items \in [Keys -> Requests \cup {None}]
  BY <1>1 DEF TypeOK
<1>3. CASE Emitted(r)
  <2>1. CASE pc[r] = "warming"
    <3>1. /\ r \in Registered /\ r \notin InQueue /\ At(r, "dispatched")
          /\ UNCHANGED <<readyVars, backend, waiting, items, cancelled, dying, wait, connVars>>
      BY <1>3, <2>1 DEF Emitted, Registered, InQueue
    <3>2. QED
      BY <1>2, <2>1, <3>1, MovingSteps DEF Places
  <2>2. CASE pc[r] = "emitting"
    <3>1. /\ r \in Registered /\ r \in InQueue /\ At(r, "waiting")
          /\ UNCHANGED <<readyVars, backend, waiting, items, cancelled, dying, connVars>>
          /\ wait' = [wait EXCEPT ![r] = "start"]
      BY <1>3, <2>2 DEF Emitted, Registered, InQueue
    <3>2. QED
      BY <1>2, <2>2, <3>1, MovingSteps DEF Places
  <2>3. QED
    BY <1>3, <2>1, <2>2 DEF Emitted
<1>4. CASE ReadyWait(r) \/ ReadyTimeout(r)
  <2>1. /\ UNCHANGED <<readyVars, backend, connVars>>
        /\ UNCHANGED <<waiting, items, cancelled, pc, dying>>
    BY <1>4 DEF ReadyWait, ReadyTimeout, Rest
  <2>2. wait' \in [Requests -> {"none", "start", "parked", "woken", "yes", "no"}]
    BY <1>2, <1>4 DEF ReadyWait, ReadyTimeout, Verdict
  <2>3. Counted /\ Booked
    BY <2>1, SamePlaces DEF Counted, Booked
  <2>4. QED
    BY <1>1, <1>2, <2>1, <2>2, <2>3, TaskKeeps DEF Arrived
<1>5. CASE Decide(r)
  <2>1. /\ r \in Registered /\ r \in InQueue
        /\ UNCHANGED <<readyVars, backend, cancelled, dying, connVars>>
        /\ waiting' = waiting - 1 /\ wait' = [wait EXCEPT ![r] = "none"]
    BY <1>5 DEF Decide, Registered, InQueue
  <2>2. \/ At(r, "refusing") /\ UNCHANGED items
        \/ At(r, "dispatched") /\ UNCHANGED items
        \/ At(r, "rejecting") /\ items' = Completed(r)
    BY <1>5 DEF Decide
  <2>3. wait' \in [Requests -> {"none", "start", "parked", "woken", "yes", "no"}]
    BY <1>2, <2>1
  <2>4. pc[r] # "none"
    BY <1>5 DEF Decide
  <2>5. QED
    BY <1>2, <2>1, <2>2, <2>3, <2>4, MovingSteps DEF Places
<1>6. CASE Finish(r)
  <2>1. /\ r \notin InQueue /\ pc[r] # "none" /\ At(r, "ended")
        /\ UNCHANGED <<readyVars, backend, waiting, wait, dying, connVars>>
        /\ cancelled' = cancelled \ {r}
    BY <1>6 DEF Finish, InQueue
  <2>2. \/ items' = Completed(r)
        \/ UNCHANGED items /\ (r \in Registered => conns[Conn[r]] # "open")
    BY <1>6 DEF Finish, Registered
  <2>3. QED
    BY <1>2, <2>1, <2>2, MovingSteps DEF Places
<1>7. CASE Die(r)
  <2>1. /\ At(r, "ended") /\ waiting' = Leaves(r)
        /\ UNCHANGED <<readyVars, backend, connVars>>
        /\ wait' = [wait EXCEPT ![r] = "none"]
        /\ dying' = dying \ {r} /\ cancelled' = cancelled \ {r}
        /\ items' = Completed(r) \/ UNCHANGED items
    BY <1>7 DEF Die
  <2>2. conns[Conn[r]] = "closed"
    BY <1>1, <1>7 DEF Die, Arrived
  <2>3. wait' \in [Requests -> {"none", "start", "parked", "woken", "yes", "no"}]
    BY <1>2, <2>1
  <2>4. pc[r] # "none"
    BY <1>1, <1>7 DEF Die, Arrived
  <2>5. QED
    BY <1>2, <2>1, <2>2, <2>3, <2>4, MovingSteps DEF Places, Leaves
<1>8. QED
  BY <1>3, <1>4, <1>5, <1>6, <1>7 DEF TaskStep

LEMMA CancelSteps ==
    ASSUME FrontInv, NEW S, CancelThem(S)
    PROVE  FrontInv'
<1>1. TypeOK /\ Arrived
  BY DEF FrontInv
<1>2. /\ UNCHANGED <<readyVars, backend, connVars>>
      /\ UNCHANGED <<waiting, items, pc, wait, dying>>
      /\ cancelled' \subseteq Requests
  BY <1>1 DEF CancelThem, Registered, TypeOK
<1>3. Counted /\ Booked
  BY <1>2, SamePlaces DEF Counted, Booked
<1>4. QED
  BY <1>1, <1>2, <1>3, TaskKeeps DEF TypeOK, Arrived

LEMMA ConnectionSteps ==
    ASSUME FrontInv, NEW c \in Connections, Connect(c) \/ Break(c) \/ Disconnect(c)
    PROVE  FrontInv'
<1>1. /\ TypeOK /\ RegistryExact /\ Arrived /\ QueueExact /\ IsFiniteSet(InQueue)
      /\ EventMatchesState /\ PushInv
  BY DEF FrontInv
<1>2. /\ UNCHANGED <<state, event, marks, backend, waiting, items, cancelled, pc, wait>>
      /\ \E p \in {"open", "broken", "closed"} :
            /\ conns' = [conns EXCEPT ![c] = p]
            /\ p = "open" => conns[c] = "none"
            /\ conns[c] # "closed"
            /\ p # "closed" => dying' = dying
            /\ p = "closed" => dying' = dying \cup {r \in Requests : Conn[r] = c /\ Live(r)}
  BY DEF Connect, Break, Disconnect, readyVars
<1>3. PICK p \in {"open", "broken", "closed"} :
            /\ conns' = [conns EXCEPT ![c] = p]
            /\ p = "open" => conns[c] = "none"
            /\ conns[c] # "closed"
            /\ p # "closed" => dying' = dying
            /\ p = "closed" => dying' = dying \cup {r \in Requests : Conn[r] = c /\ Live(r)}
  BY <1>2
<1>4. conns \in [Connections -> {"none", "open", "broken", "closed"}]
  BY <1>1 DEF TypeOK
<1>5. PushInv' /\ push' \in Seq(Connections) /\ target' \in Connections \cup {None}
               /\ gateway' \in Connections \cup {None}
  <2>1. CASE Connect(c)
    BY <1>1, <2>1, ConnectPush
  <2>2. CASE Break(c)
    <3>1. /\ UNCHANGED <<push, target, gateway, backend>> /\ conns[c] = "open"
          /\ conns' = [conns EXCEPT ![c] = "broken"]
      BY <2>2 DEF Break
    <3>2. \A d \in Connections :
             conns'[d] = conns[d] \/ (conns[d] = "open" /\ conns'[d] = "broken")
      BY <1>4, <3>1
    <3>3. QED
      BY <1>1, <3>1, <3>2, SamePush DEF TypeOK
  <2>3. CASE Disconnect(c)
    BY <1>1, <2>3, DisconnectPush
  <2>4. QED
    BY <2>1, <2>2, <2>3
<1>6. TypeOK'
  <2>1. dying' \subseteq Requests
    BY <1>1, <1>3 DEF TypeOK
  <2>2. conns' \in [Connections -> {"none", "open", "broken", "closed"}]
    BY <1>3, <1>4
  <2>3. QED
    BY <1>1, <1>2, <1>5, <2>1, <2>2 DEF TypeOK
<1>7. IsFiniteSet(InQueue') /\ QueueExact'
  BY <1>1, <1>2, SamePlaces DEF QueueExact
<1>8. RegistryExact'
  <2>1. Booked
    BY <1>2, SamePlaces DEF Booked
  <2>2. /\ \A d \in Connections : conns[d] \in {"broken", "closed"} => conns'[d] # "open"
        /\ \A d \in Connections : conns'[d] = "open" => conns[d] \in {"none", "open"}
    BY <1>3, <1>4
  <2>3. QED
    BY <1>1, <2>1, <2>2, BookedIsExact
<1>9. Arrived'
  <2>1. Conn \in [Requests -> Connections]
    BY FrontAssumption
  <2>2. dying \subseteq Requests
    BY <1>1 DEF TypeOK
  <2>3. \A r \in Requests : pc'[r] # "none" => conns'[Conn[r]] # "none"
    BY <1>1, <1>2, <1>3, <1>4, <2>1 DEF Arrived
  <2>4. \A r \in dying' : conns'[Conn[r]] = "closed" /\ pc'[r] # "none"
    BY <1>1, <1>2, <1>3, <1>4, <2>1, <2>2 DEF Arrived, Live
  <2>5. QED
    BY <1>1, <1>2, <2>3, <2>4 DEF Arrived
<1>10. EventMatchesState'
  BY <1>1, <1>2 DEF EventMatchesState
<1>11. QED
  BY <1>5, <1>6, <1>7, <1>8, <1>9, <1>10 DEF FrontInv

LEMMA FrontNext ==
    ASSUME FrontInv, [Next]_vars
    PROVE  FrontInv'
<1>1. CASE ReadinessStep
  BY <1>1, ReadinessSteps
<1>2. ASSUME NEW r \in Requests, Dispatch(r) \/ Recovered(r) \/ TaskStep(r) \/ Finish(r)
      PROVE  FrontInv'
  BY <1>2, DispatchSteps, TaskSteps
<1>3. CASE \/ \E k \in Keys : CancelRequest(k)
           \/ \E s \in Sessions : CancelSession(s)
  <2>1. \E S : CancelThem(S)
    BY <1>3 DEF CancelRequest, CancelSession
  <2>2. QED
    BY <2>1, CancelSteps
<1>4. ASSUME NEW c \in Connections, Connect(c) \/ Break(c) \/ Disconnect(c)
      PROVE  FrontInv'
  BY <1>4, ConnectionSteps
<1>5. CASE UNCHANGED vars
  <2>1. /\ UNCHANGED <<readyVars, backend, connVars>>
        /\ UNCHANGED <<waiting, items, cancelled, pc, wait, dying>>
    BY <1>5 DEF vars
  <2>2. Counted /\ Booked
    BY <2>1, SamePlaces DEF Counted, Booked
  <2>3. QED
    BY <2>1, <2>2, TaskKeeps DEF FrontInv, TypeOK, Arrived
<1>6. QED
  BY <1>1, <1>2, <1>3, <1>4, <1>5 DEF Next

LEMMA FrontInvariant == Spec => []FrontInv
BY FrontInit, FrontNext, PTL DEF Spec, Safety

\* The front's variables keep their types; in particular _waiting stays within the
\* queue's limit and never goes below zero.
THEOREM FrontTypes == Spec => []TypeOK
<1>1. FrontInv => TypeOK
  BY DEF FrontInv
<1>2. QED
  BY <1>1, FrontInvariant, PTL

\* The books of the front are exact: the counter of the queue, the registry under its
\* keys, and the event that releases the waiters.
THEOREM BooksStayExact == Spec => []BooksExact
<1>1. FrontInv => BooksExact
  BY DEF FrontInv, BooksExact
<1>2. QED
  BY <1>1, FrontInvariant, PTL

\* The push slot belongs to the newest connection that is not closed, at the forwarder
\* and at an attached backend.
THEOREM PushIsNewest == Spec => []PushFollowsNewest
<1>1. FrontInv => PushFollowsNewest
  BY DEF FrontInv, PushInv
<1>2. QED
  BY <1>1, FrontInvariant, PTL

\* No step hands a request to the Worker that was cancelled in the queue, or after the
\* backend was detached, except one that was already telling its client.
THEOREM HeldBack == Spec => StaysBack
<1> DEFINE Held == \A r \in Requests : pc[r] # "dispatched" /\ pc'[r] = "dispatched" =>
                      /\ r \in InQueue => r \notin cancelled
                      /\ backend = "off" => pc[r] = "warming"
<1>1. ASSUME FrontInv, [Next]_vars
      PROVE  [Held]_vars
  <2>1. TypeOK /\ pc \in [Requests -> Places]
    BY <1>1 DEF FrontInv, TypeOK
  <2>2. SUFFICES ASSUME NEW r \in Requests, pc[r] # "dispatched", pc'[r] = "dispatched"
                 PROVE  /\ r \in InQueue => r \notin cancelled
                        /\ backend = "off" => pc[r] = "warming"
    OBVIOUS
  <2>3. ~(UNCHANGED pc)
    BY <2>2
  <2>4. PICK q \in Requests : Dispatch(q) \/ Recovered(q) \/ TaskStep(q) \/ Finish(q)
    BY <1>1, <2>3 DEF Next, ReadinessStep, Start, MarkRuntimeWarming, MarkAgentReady,
       MarkDegraded, MarkFailed, MarkRecovering, AttachBackend, BeginDrain, Rest,
       CancelRequest, CancelSession, CancelThem, Connect, Break, Disconnect, vars
  <2>5. CASE Dispatch(q) \/ Recovered(q)
    <3>1. /\ TurnedAway(q) \/ Admitted(q)
          /\ pc[q] \in {"none", "recovering"}
      BY <2>1, <2>5, DispatchOutcome
    <3>2. \E p \in {"rejecting", "recovering", "warming", "dispatched", "emitting"} :
            At(q, p) /\ (p = "dispatched" => backend = "on")
      BY <3>1 DEF TurnedAway, Admitted
    <3>3. r = q /\ backend = "on"
      BY <2>1, <2>2, <3>2 DEF At
    <3>4. QED
      BY <3>1, <3>3 DEF InQueue
  <2>6. CASE Emitted(q)
    BY <2>1, <2>2, <2>6 DEF Emitted, At, InQueue
  <2>7. CASE Decide(q)
    <3>1. r = q /\ ~Refused(q) /\ Dispatchable(q)
      BY <2>1, <2>2, <2>7 DEF Decide, At
    <3>2. QED
      BY <3>1 DEF Refused, Dispatchable
  <2>8. CASE ReadyWait(q) \/ ReadyTimeout(q)
    BY <2>3, <2>8 DEF ReadyWait, ReadyTimeout, Rest
  <2>9. CASE Die(q) \/ Finish(q)
    BY <2>1, <2>2, <2>9 DEF Die, Finish, At
  <2>10. QED
    BY <2>4, <2>5, <2>6, <2>7, <2>8, <2>9 DEF TaskStep
<1>2. QED
  BY <1>1, FrontInvariant, PTL DEF Spec, Safety, StaysBack
=============================================================================
