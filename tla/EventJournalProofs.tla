------------------------- MODULE EventJournalProofs -------------------------
(***************************************************************************)
(* Proofs about the way of a conversation's events: for any size of the    *)
(* journal and of the queue, any number of events, subscriptions, losses   *)
(* and crashes, the types of EventJournal hold and what the Worker writes  *)
(* implements EventFeed.                                                   *)
(***************************************************************************)
EXTENDS EventJournal, SequenceTheorems, TLAPS

El(s) == Feed!Elements(s)

\* The order of events: by Worker, then by sequence.
Before(d, e) == d[1] < e[1] \/ (d[1] = e[1] /\ d[2] < e[2])

\* What a replay whose connection is alive will still write.
Left == IF replay # None /\ replay.gen = gen /\ ipc THEN replay.left ELSE {}

\* The journal holds every frame after the expired sequence, and marks as own what
\* is in the log.
JournalExact ==
    /\ expired + Len(frames) = seq
    /\ \A i \in 1..Len(frames) :
          /\ frames[i].seq = expired + i
          /\ frames[i].own <=> <<inst, expired + i>> \in El(log)

\* A Worker of instance i at sequence n has come to event e, or past it.
Reached(e, i, n) == e[1] < i \/ (e[1] = i /\ e[2] <= n)

\* The log grows in order, and no further than the Worker has come.
LogInOrder ==
    /\ \A i \in 1..Len(log) : Reached(log[i], inst, seq)
    /\ \A i, j \in 1..Len(log) : i < j => Before(log[i], log[j])

\* A replay belongs to this connection or to an older one; what a living replay has
\* left is of this Worker and later than all that was written.
ReplaySound ==
    /\ replay # None => replay.gen <= gen
    /\ \A e \in Left : e \in El(log) /\ e[1] = inst
    /\ given \subseteq El(log)
    /\ \A g \in given : \A e \in Left : Before(g, e)

\* The reader was given what it is owed, or the replay has it, or it was a question
\* nobody waits for.
NothingMissing ==
    \A e \in El(log) : e \in past \cup given \cup Left \/ IsQuestion(e)

JournalInv == TypeOK /\ JournalExact /\ LogInOrder /\ ReplaySound /\ NothingMissing

-----------------------------------------------------------------------------
(* Lemmas about sequences and events *)

LEMMA ElIs ==
    ASSUME NEW S, NEW s \in Seq(S)
    PROVE  /\ El(s) \subseteq S
           /\ \A e : e \in El(s) <=> \E i \in 1..Len(s) : s[i] = e
           /\ \A i \in 1..Len(s) : s[i] \in El(s)
BY DEF El, Feed!Elements

LEMMA ElEmpty == El(<<>>) = {}
BY DEF El, Feed!Elements

LEMMA ElAppend ==
    ASSUME NEW S, NEW s \in Seq(S), NEW e \in S
    PROVE  /\ Append(s, e) \in Seq(S) /\ Len(Append(s, e)) = Len(s) + 1
           /\ \A i \in 1..Len(s) : Append(s, e)[i] = s[i]
           /\ Append(s, e)[Len(s) + 1] = e
           /\ El(Append(s, e)) = El(s) \cup {e}
<1>1. /\ Append(s, e) \in Seq(S) /\ Len(Append(s, e)) = Len(s) + 1 /\ Len(s) \in Nat
      /\ \A i \in 1..Len(s) : Append(s, e)[i] = s[i]
      /\ Append(s, e)[Len(s) + 1] = e
  BY AppendProperties, LenProperties
<1>2. \A d : d \in El(Append(s, e)) <=> \E i \in 1..Len(Append(s, e)) : Append(s, e)[i] = d
  BY <1>1, ElIs
<1>3. \A d : d \in El(s) <=> \E i \in 1..Len(s) : s[i] = d
  BY ElIs
<1>4. ASSUME NEW d PROVE d \in El(Append(s, e)) <=> d \in El(s) \/ d = e
  <2>1. 1..Len(Append(s, e)) = 1..Len(s) \cup {Len(s) + 1}
    BY <1>1
  <2> QED BY <1>1, <1>2, <1>3, <2>1
<1> QED BY <1>1, <1>4

LEMMA ElTail ==
    ASSUME NEW S, NEW s \in Seq(S), s # <<>>
    PROVE  /\ Tail(s) \in Seq(S) /\ Len(Tail(s)) = Len(s) - 1 /\ Len(s) \in Nat \ {0}
           /\ \A i \in 1..Len(Tail(s)) : Tail(s)[i] = s[i + 1] /\ i + 1 \in 1..Len(s)
           /\ Head(s) = s[1] /\ Head(s) \in S
           /\ El(s) = {Head(s)} \cup El(Tail(s))
<1>1. /\ Tail(s) \in Seq(S) /\ Len(Tail(s)) = Len(s) - 1 /\ Len(s) \in Nat \ {0}
      /\ \A i \in 1..Len(Tail(s)) : Tail(s)[i] = s[i + 1] /\ i + 1 \in 1..Len(s)
      /\ Head(s) = s[1] /\ Head(s) \in S
  BY HeadTailProperties, EmptySeq, LenProperties
<1>2. \A d : d \in El(Tail(s)) <=> \E i \in 1..Len(Tail(s)) : Tail(s)[i] = d
  <2>1. Tail(s) \in Seq(S)
    BY <1>1
  <2> QED BY ONLY <2>1, ElIs, Zenon
<1>3. \A d : d \in El(s) <=> \E i \in 1..Len(s) : s[i] = d
  BY ElIs
<1>4. ASSUME NEW d PROVE d \in El(s) <=> d = Head(s) \/ d \in El(Tail(s))
  <2>1. ASSUME NEW i \in 1..Len(s), s[i] = d, i # 1
        PROVE  d \in El(Tail(s))
    <3>1. i - 1 \in 1..Len(Tail(s)) /\ Tail(s)[i - 1] = s[i]
      BY <1>1, <2>1
    <3> QED BY <1>2, <2>1, <3>1
  <2> QED BY <1>1, <1>2, <1>3, <2>1
<1> QED BY <1>1, <1>4

LEMMA EventIs ==
    ASSUME NEW e \in Events
    PROVE  e[1] \in Nat /\ e[2] \in Nat /\ e[1] >= 1 /\ e[2] >= 1 /\ e = <<e[1], e[2]>>
BY JournalAssumption DEF Events

LEMMA InitInv == Init => JournalInv
<1> SUFFICES ASSUME Init PROVE JournalInv
  OBVIOUS
<1>1. El(log) = {} /\ Left = {} /\ Len(log) = 0 /\ Len(frames) = 0
  BY ElEmpty DEF Init, Left
<1>2. TypeOK
  BY JournalAssumption DEF Init, TypeOK, NoCursor
<1>3. JournalExact /\ LogInOrder
  BY <1>1 DEF Init, JournalExact, LogInOrder
<1>4. ReplaySound /\ NothingMissing
  BY <1>1 DEF Init, ReplaySound, NothingMissing
<1> QED BY <1>2, <1>3, <1>4 DEF JournalInv

LEMMA TypesOf ==
    ASSUME TypeOK
    PROVE  /\ inst \in Nat /\ inst >= 1 /\ seq \in Nat /\ expired \in Nat /\ expired <= seq /\ gen \in Nat
           /\ frames \in Seq([seq : 1..seq, own : BOOLEAN]) /\ Len(frames) \in Nat
           /\ log \in Seq(Events) /\ Len(log) \in Nat /\ DOMAIN log = 1..Len(log)
           /\ El(log) \subseteq Events /\ net \in Seq(Events) /\ Len(net) \in Nat
           /\ faults \in Nat /\ inst <= MaxFaults + 1
BY LenProperties, ElIs, JournalAssumption DEF TypeOK

-----------------------------------------------------------------------------
(* Publication *)

\* append: one frame more at the end, some fewer at the beginning.
LEMMA AppendStep ==
    ASSUME TypeOK, JournalExact, NEW own \in BOOLEAN, JournalAppend(own)
    PROVE  /\ seq' = seq + 1 /\ seq' <= MaxEvents /\ inst' = inst
           /\ expired' \in Nat /\ expired <= expired' /\ expired' <= seq'
           /\ frames' \in Seq([seq : 1..seq', own : BOOLEAN]) /\ Len(frames') <= MaxFrames
           /\ expired' + Len(frames') = seq'
           /\ \A i \in 1..Len(frames') :
                 /\ frames'[i].seq = expired' + i
                 /\ \/ expired' + i = seq + 1 /\ frames'[i].own = own
                    \/ \E j \in 1..Len(frames) : expired' + i = expired + j /\ frames'[i].own = frames[j].own
<1> DEFINE F == [seq : 1..(seq + 1), own : BOOLEAN]
           new == [seq |-> seq + 1, own |-> own]
           all == Append(frames, new)
<1>0. /\ seq \in Nat /\ expired \in Nat /\ Len(frames) \in Nat /\ expired + Len(frames) = seq
      /\ \A i \in 1..Len(frames) : frames[i].seq = expired + i
  BY TypesOf DEF JournalExact
<1>1. frames \in Seq(F) /\ new \in F
  <2>1. [seq : 1..seq, own : BOOLEAN] \subseteq F
    BY <1>0
  <2>2. new \in F
    BY <1>0
  <2> QED BY <2>1, <2>2, TypesOf, SeqMonotonic
<1>2. /\ all \in Seq(F) /\ Len(all) = Len(frames) + 1
      /\ \A i \in 1..Len(frames) : all[i] = frames[i]
      /\ all[Len(frames) + 1] = new
  BY <1>1, AppendProperties
<1> HIDE DEF F, all
<1>3. PICK n \in 0..Len(all) : Len(all) - n <= MaxFrames /\ Evict(all, n)
  BY DEF JournalAppend, all
<1>4. seq' = seq + 1 /\ seq' <= MaxEvents /\ inst' = inst
  BY <1>0, JournalAssumption DEF JournalAppend
<1>5. \A i \in 1..Len(all) : all[i].seq = expired + i
  <2>1. ASSUME NEW i \in 1..Len(all) PROVE all[i].seq = expired + i
    <3>1. CASE i = Len(frames) + 1
      <4>1. all[i] = new
        BY <1>2, <3>1
      <4>2. all[i].seq = seq + 1
        BY <4>1
      <4> QED BY <1>0, <3>1, <4>2
    <3>2. CASE i # Len(frames) + 1
      <4>1. i \in 1..Len(frames)
        BY <1>0, <1>2, <3>2
      <4> QED BY <1>0, <1>2, <4>1
    <3> QED BY <3>1, <3>2
  <2> QED BY <2>1
<1>6. expired' = expired + n
  <2>1. CASE n = 0
    BY <1>0, <1>3, <2>1 DEF Evict
  <2>2. CASE n # 0
    BY <1>3, <1>5, <2>2 DEF Evict
  <2> QED BY <2>1, <2>2
<1>7. /\ frames' \in Seq(F) /\ Len(frames') = Len(all) - n
      /\ \A i \in 1..Len(frames') : frames'[i] = all[n + i]
  <2>1. frames' = SubSeq(all, n + 1, Len(all))
    BY <1>3 DEF Evict
  <2>2. Len(all) \in Nat
    BY <1>0, <1>2
  <2>3. n + 1 \in 1..(Len(all) + 1) /\ Len(all) \in n..Len(all) /\ n \in Nat
    BY <1>3, <2>2
  <2> QED BY <1>2, <2>1, <2>2, <2>3, SubSeqProperties
<1>8. ASSUME NEW i \in 1..Len(frames')
      PROVE  /\ frames'[i].seq = expired' + i
             /\ \/ expired' + i = seq + 1 /\ frames'[i].own = own
                \/ \E j \in 1..Len(frames) : expired' + i = expired + j /\ frames'[i].own = frames[j].own
  <2>1. n + i \in 1..Len(all) /\ expired' + i = expired + (n + i)
    BY <1>0, <1>2, <1>3, <1>6, <1>7
  <2>2. frames'[i].seq = expired' + i
    <3>1. frames'[i] = all[n + i]
      BY <1>7
    <3>2. all[n + i].seq = expired + (n + i)
      BY <1>5, <2>1
    <3> QED BY <1>0, <1>3, <1>6, <3>1, <3>2
  <2>3. frames'[i] = all[n + i]
    BY <1>7
  <2>4. CASE n + i = Len(frames) + 1
    <3>1. frames'[i] = new
      BY <1>2, <2>3, <2>4
    <3>2. frames'[i].own = own
      BY <3>1
    <3>3. expired' + i = seq + 1
      BY <1>0, <1>3, <1>6, <2>4
    <3> QED BY <2>2, <3>2, <3>3
  <2>5. CASE n + i # Len(frames) + 1
    <3>1. n + i \in 1..Len(frames)
      <4>1. Len(all) = Len(frames) + 1 /\ Len(frames) \in Nat
        BY <1>0, <1>2
      <4> QED BY <2>1, <2>5, <4>1
    <3>2. frames'[i] = frames[n + i]
      BY <1>2, <2>3, <3>1
    <3>3. frames'[i].own = frames[n + i].own
      BY <3>2
    <3> QED BY <2>1, <2>2, <3>1, <3>3
  <2> QED BY <2>4, <2>5
<1>9. expired' \in Nat /\ expired <= expired' /\ expired' <= seq' /\ expired' + Len(frames') = seq'
  <2>1. n \in Nat /\ n <= Len(all) /\ Len(all) = Len(frames) + 1
    BY <1>0, <1>2, <1>3
  <2>2. Len(frames') = Len(all) - n
    BY <1>7
  <2> QED BY <1>0, <1>4, <1>6, <2>1, <2>2
<1>10. frames' \in Seq([seq : 1..seq', own : BOOLEAN]) /\ Len(frames') <= MaxFrames
  BY <1>3, <1>4, <1>7 DEF F
<1> QED BY <1>4, <1>8, <1>9, <1>10

\* The event that append() numbers is new, and later than all others.
LEMMA NewEvent ==
    ASSUME TypeOK, LogInOrder, seq < MaxEvents
    PROVE  /\ <<inst, seq + 1>> \in Events /\ <<inst, seq + 1>> \notin El(log)
           /\ \A d \in El(log) : Reached(d, inst, seq) /\ Before(d, <<inst, seq + 1>>)
<1>1. <<inst, seq + 1>> \in Events
  BY JournalAssumption DEF TypeOK, Events
<1>2. ASSUME NEW d \in El(log)
      PROVE  Reached(d, inst, seq) /\ Before(d, <<inst, seq + 1>>) /\ d # <<inst, seq + 1>>
  <2>1. Reached(d, inst, seq)
    BY TypesOf, ElIs DEF LogInOrder
  <2>2. d[1] \in Nat /\ d[2] \in Nat /\ inst \in Nat /\ seq \in Nat
    BY TypesOf, EventIs
  <2> QED BY <2>1, <2>2 DEF Reached, Before
<1> QED BY <1>1, <1>2

\* What a publication leaves in order whichever conversation it is for: the journal
\* and the log.
LEMMA PublishStep ==
    ASSUME TypeOK, JournalExact, LogInOrder, NEW own \in BOOLEAN, JournalAppend(own),
           log' = IF own THEN Append(log, <<inst, seq + 1>>) ELSE log
    PROVE  /\ inst' = inst /\ <<inst, seq + 1>> \in Events
           /\ seq' \in 0..MaxEvents /\ expired' \in 0..seq'
           /\ frames' \in Seq([seq : 1..seq', own : BOOLEAN]) /\ Len(frames') <= MaxFrames
           /\ log' \in Seq(Events)
           /\ El(log') = El(log) \cup (IF own THEN {<<inst, seq + 1>>} ELSE {})
           /\ JournalExact' /\ LogInOrder'
<1> DEFINE new == <<inst, seq + 1>>
<1>0. TypeOK /\ JournalExact /\ LogInOrder
  OBVIOUS
<1>1. /\ seq' = seq + 1 /\ seq' <= MaxEvents /\ inst' = inst
      /\ expired' \in Nat /\ expired <= expired' /\ expired' <= seq'
      /\ frames' \in Seq([seq : 1..seq', own : BOOLEAN]) /\ Len(frames') <= MaxFrames
      /\ expired' + Len(frames') = seq'
  BY <1>0, AppendStep
<1>2. seq < MaxEvents
  BY DEF JournalAppend
<1>3. /\ new \in Events /\ new \notin El(log)
      /\ \A d \in El(log) : Reached(d, inst, seq) /\ Before(d, new)
  BY <1>0, <1>2, NewEvent
<1>4. /\ inst \in Nat /\ seq \in Nat /\ expired \in Nat /\ Len(frames) \in Nat /\ Len(log) \in Nat
      /\ log \in Seq(Events) /\ El(log) \subseteq Events
  BY <1>0, TypesOf
<1>5. /\ log' \in Seq(Events)
      /\ El(log') = El(log) \cup (IF own THEN {new} ELSE {})
  <2>1. CASE own
    <3>1. log' = Append(log, new)
      BY <2>1
    <3>2. new \in Events /\ log \in Seq(Events)
      BY <1>3, <1>4
    <3> HIDE DEF new
    <3>3. log' \in Seq(Events) /\ El(log') = El(log) \cup {new}
      BY ONLY <3>1, <3>2, ElAppend
    <3> QED BY ONLY <2>1, <3>3
  <2>2. CASE ~own
    <3>1. log' = log /\ log \in Seq(Events)
      BY <1>4, <2>2
    <3> QED BY ONLY <2>2, <3>1
  <2> QED BY <2>1, <2>2
<1>6. JournalExact'
  <2>1. ASSUME NEW i \in 1..Len(frames')
        PROVE  /\ frames'[i].seq = expired' + i
               /\ frames'[i].own <=> <<inst, expired' + i>> \in El(log')
    <3>1. /\ frames'[i].seq = expired' + i
          /\ \/ expired' + i = seq + 1 /\ frames'[i].own = own
             \/ \E j \in 1..Len(frames) : expired' + i = expired + j /\ frames'[i].own = frames[j].own
      BY <1>0, AppendStep
    <3>2. CASE expired' + i = seq + 1 /\ frames'[i].own = own
      BY <1>3, <1>5, <3>1, <3>2
    <3>3. ASSUME NEW j \in 1..Len(frames), expired' + i = expired + j, frames'[i].own = frames[j].own
          PROVE  frames'[i].own <=> <<inst, expired' + i>> \in El(log')
      <4>1. frames[j].own <=> <<inst, expired + j>> \in El(log)
        BY <1>0 DEF JournalExact
      <4>2. expired' + i <= seq
        <5>1. expired + Len(frames) = seq /\ expired \in Nat /\ Len(frames) \in Nat
          BY <1>0, <1>4 DEF JournalExact
        <5> QED BY <3>3, <5>1
      <4>3. <<inst, expired' + i>> # new
        BY <1>4, <4>2
      <4> QED BY <1>5, <3>3, <4>1, <4>3
    <3> QED BY <3>1, <3>2, <3>3
  <2> QED BY <1>1, <2>1 DEF JournalExact
<1>7. LogInOrder'
  <2>1. CASE own
    <3>1. log' = Append(log, new)
      BY <2>1
    <3>2. /\ Len(log') = Len(log) + 1 /\ log'[Len(log) + 1] = new
          /\ \A i \in 1..Len(log) : log'[i] = log[i] /\ log[i] \in El(log)
      BY <1>3, <1>4, <3>1, ElAppend, ElIs
    <3>3. ASSUME NEW i \in 1..Len(log') PROVE Reached(log'[i], inst', seq')
      <4>1. CASE i = Len(log) + 1
        BY <1>1, <1>4, <3>2, <4>1 DEF Reached
      <4>2. CASE i \in 1..Len(log)
        <5>1. log'[i] = log[i] /\ Reached(log[i], inst, seq) /\ log[i] \in Events
          BY <1>3, <1>4, <3>2, <4>2
        <5>2. log[i][2] \in Nat
          BY <5>1, EventIs
        <5>3. Reached(log[i], inst', seq')
          BY <1>1, <1>4, <5>1, <5>2 DEF Reached
        <5> QED BY <5>1, <5>3
      <4>3. i = Len(log) + 1 \/ i \in 1..Len(log)
        BY <1>4, <3>2
      <4> QED BY <4>1, <4>2, <4>3
    <3>4. ASSUME NEW i \in 1..Len(log'), NEW j \in 1..Len(log'), i < j
          PROVE  Before(log'[i], log'[j])
      <4>1. i \in 1..Len(log)
        BY <1>4, <3>2, <3>4
      <4>2. CASE j \in 1..Len(log)
        BY <1>0, <3>2, <3>4, <4>1, <4>2 DEF LogInOrder
      <4>3. CASE j = Len(log) + 1
        BY <1>3, <3>2, <4>1, <4>3
      <4> QED BY <1>4, <3>2, <4>2, <4>3
    <3> QED BY <3>3, <3>4 DEF LogInOrder, Before
  <2>2. CASE ~own
    <3>1. log' = log
      BY <2>2
    <3>2. ASSUME NEW i \in 1..Len(log) PROVE Reached(log[i], inst', seq')
      <4>1. log[i] \in Events /\ Reached(log[i], inst, seq)
        BY <1>3, <1>4, ElIs
      <4>2. log[i][2] \in Nat
        BY <4>1, EventIs
      <4> QED BY <1>1, <1>4, <3>1, <4>1, <4>2 DEF Reached
    <3> QED BY <1>0, <3>1, <3>2 DEF LogInOrder, Before
  <2> QED BY <2>1, <2>2
<1>8. seq' \in 0..MaxEvents /\ expired' \in 0..seq'
  BY <1>1, <1>4, JournalAssumption
<1> QED BY <1>1, <1>3, <1>5, <1>6, <1>7, <1>8

\* The steps that leave the Worker, the log and the replay alone, and so the journal,
\* what is owed and what is left.
LEMMA AtRest ==
    ASSUME JournalInv, UNCHANGED <<worker, gen, ipc, replay, feed>>
    PROVE  JournalExact' /\ LogInOrder' /\ ReplaySound' /\ NothingMissing'
<1>1. /\ inst' = inst /\ seq' = seq /\ frames' = frames /\ expired' = expired
      /\ gen' = gen /\ ipc' = ipc /\ replay' = replay
      /\ log' = log /\ past' = past /\ given' = given
  BY DEF worker, feed
<1>2. Left' = Left
  BY <1>1 DEF Left
<1> QED BY <1>1, <1>2 DEF JournalInv, JournalExact, LogInOrder, ReplaySound, NothingMissing,
                          Reached, Before

\* A frame joins the queue of the Front, which keeps its type.
LEMMA QueueTypes ==
    ASSUME TypeOK, NEW e \in Events, QueueForward(e)
    PROVE  net' \in Seq(Events) /\ Len(net') <= MaxNet
<1>1. net \in Seq(Events) /\ Len(net) \in Nat /\ Len(net) <= MaxNet /\ MaxNet \in Nat
  BY JournalAssumption, TypesOf DEF TypeOK
<1>2. CASE Len(net) < MaxNet
  <2>1. net' = Append(net, e)
    BY <1>2 DEF QueueForward
  <2>2. net' \in Seq(Events) /\ Len(net') = Len(net) + 1
    BY ONLY <1>1, <2>1, AppendProperties, e \in Events
  <2> QED BY <1>1, <1>2, <2>2
<1>3. CASE ~(Len(net) < MaxNet)
  BY <1>1, <1>3 DEF QueueForward
<1> QED BY <1>2, <1>3

LEMMA PublishOtherInv == ASSUME JournalInv, PublishOther PROVE JournalInv'
<1>0. TypeOK /\ JournalExact /\ LogInOrder /\ ReplaySound /\ NothingMissing
  BY DEF JournalInv
<1>1. /\ JournalAppend(FALSE) /\ log' = log /\ past' = past /\ given' = given
      /\ gen' = gen /\ ipc' = ipc /\ subs' = subs /\ replay' = replay /\ net' = net
      /\ cursor' = cursor /\ shown' = shown /\ twice' = twice
      /\ queries' = queries /\ faults' = faults
  BY DEF PublishOther, feed, client
<1>2. /\ inst' = inst /\ seq' \in 0..MaxEvents /\ expired' \in 0..seq'
      /\ frames' \in Seq([seq : 1..seq', own : BOOLEAN]) /\ Len(frames') <= MaxFrames
      /\ JournalExact' /\ LogInOrder'
  <2>1. log' = IF FALSE THEN Append(log, <<inst, seq + 1>>) ELSE log
    BY <1>1
  <2> QED BY <1>0, <1>1, <2>1, PublishStep
<1>3. TypeOK'
  BY <1>0, <1>1, <1>2 DEF TypeOK
<1>4. Left' = Left
  BY <1>1 DEF Left
<1>5. ReplaySound' /\ NothingMissing'
  BY <1>0, <1>1, <1>2, <1>4 DEF ReplaySound, NothingMissing, Before
<1> QED BY <1>2, <1>3, <1>5 DEF JournalInv

LEMMA PublishInv == ASSUME JournalInv, Publish PROVE JournalInv'
<1> DEFINE new == <<inst, seq + 1>>
<1>0. TypeOK /\ JournalExact /\ LogInOrder /\ ReplaySound /\ NothingMissing
  BY DEF JournalInv
<1>1. /\ JournalAppend(TRUE) /\ log' = Append(log, new) /\ replay = None
      /\ gen' = gen /\ ipc' = ipc /\ subs' = subs /\ replay' = replay
      /\ cursor' = cursor /\ shown' = shown /\ twice' = twice /\ queries' = queries
      /\ \/ ipc /\ QueueForward(new) /\ given' = given \cup {new} /\ past' = past /\ faults' = faults
         \/ /\ IF ipc THEN Fault ELSE faults' = faults
            /\ past' = past \cup {new} /\ net' = net /\ given' = given
  BY DEF Publish, MayPublish, client
<1>2. /\ inst' = inst /\ new \in Events /\ seq' \in 0..MaxEvents /\ expired' \in 0..seq'
      /\ frames' \in Seq([seq : 1..seq', own : BOOLEAN]) /\ Len(frames') <= MaxFrames
      /\ log' \in Seq(Events) /\ El(log') = El(log) \cup {new}
      /\ JournalExact' /\ LogInOrder'
  <2>1. log' = IF TRUE THEN Append(log, <<inst, seq + 1>>) ELSE log
    BY <1>1
  <2> QED BY <1>0, <1>1, <2>1, PublishStep
<1>3. net' \in Seq(Events) /\ Len(net') <= MaxNet
  BY <1>0, <1>1, <1>2, QueueTypes DEF TypeOK
<1>4. faults' \in 0..MaxFaults /\ inst' \in 1..(faults' + 1)
  <2>1. faults \in Nat /\ MaxFaults \in Nat /\ faults <= MaxFaults /\ inst \in Nat
        /\ inst >= 1 /\ inst <= faults + 1
    BY <1>0, JournalAssumption DEF TypeOK
  <2>2. faults' = faults \/ (faults' = faults + 1 /\ faults < MaxFaults)
    BY <1>1 DEF Fault
  <2> QED BY <1>2, <2>1, <2>2
<1> HIDE DEF new
<1>5. past' \subseteq Events /\ given' \subseteq Events
  BY <1>0, <1>1, <1>2 DEF TypeOK
<1>6. TypeOK'
  BY <1>0, <1>1, <1>2, <1>3, <1>4, <1>5 DEF TypeOK
<1>7. Left = {} /\ Left' = {}
  BY <1>1 DEF Left
<1>8. ReplaySound' /\ NothingMissing'
  BY <1>0, <1>1, <1>2, <1>7 DEF ReplaySound, NothingMissing
<1> QED BY <1>2, <1>6, <1>8 DEF JournalInv

-----------------------------------------------------------------------------
(* Queries and replays *)

LEMMA AskInv == ASSUME JournalInv, Resume \/ Load PROVE JournalInv'
<1>0. TypeOK
  BY DEF JournalInv
<1>1. PICK i \in Nat, n \in Nat : Ask(i, n)
  <2>1. CASE Resume
    BY <1>0, <2>1 DEF Resume, TypeOK
  <2>2. CASE Load
    BY <1>0, <2>2, TypesOf DEF Load
  <2> QED BY <2>1, <2>2
<1> DEFINE q == [gen |-> gen, inst |-> i, after |-> n]
           Q == [gen : Nat, inst : Nat, after : Nat]
<1>2. /\ UNCHANGED <<worker, gen, ipc, replay, feed>> /\ net' = net /\ faults' = faults
      /\ subs' = Append(subs, q) /\ queries' = queries + 1 /\ queries < MaxQueries
  BY <1>1 DEF Ask
<1>3. JournalExact' /\ LogInOrder' /\ ReplaySound' /\ NothingMissing'
  BY <1>2, AtRest
<1>4. subs' \in Seq(Q)
  <2>1. subs \in Seq(Q) /\ q \in Q
    BY <1>0 DEF TypeOK
  <2> QED BY <1>2, <2>1, AppendProperties
<1>5. cursor' \in [inst : Nat, after : Nat, seen : Seq(Nat)] /\ shown' \subseteq Events /\ twice' \subseteq Events
  <2>1. CASE UNCHANGED client
    BY <1>0, <2>1 DEF client, TypeOK
  <2>2. CASE cursor' = NoCursor /\ shown' = {} /\ twice' = {}
    BY <2>2 DEF NoCursor
  <2> QED BY <2>1, <2>2 DEF Resume, Load
<1>6. queries' \in 0..MaxQueries
  BY <1>0, <1>2, JournalAssumption DEF TypeOK
<1>7. TypeOK'
  BY <1>0, <1>2, <1>4, <1>5, <1>6 DEF TypeOK, worker, feed
<1> QED BY <1>3, <1>7 DEF JournalInv

\* The frames of a replay are events of this Worker.
LEMMA ReplayIsOwn ==
    ASSUME TypeOK, JournalExact, NEW q
    PROVE  /\ Replayed(q) \subseteq Events
           /\ \A e \in Replayed(q) : e \in El(log) /\ e[1] = inst
<1>1. ASSUME NEW e \in Replayed(q) PROVE e \in Events /\ e \in El(log) /\ e[1] = inst
  <2>1. PICK i \in DOMAIN frames : frames[i].own /\ e = <<inst, frames[i].seq>>
    BY <1>1 DEF Replayed
  <2>2. i \in 1..Len(frames)
    BY <2>1, TypesOf, LenProperties
  <2>3. frames[i].seq = expired + i /\ (frames[i].own <=> <<inst, expired + i>> \in El(log))
    BY <2>2 DEF JournalExact
  <2>4. e \in El(log)
    BY <2>1, <2>3
  <2> QED BY <2>1, <2>4, TypesOf
<1> QED BY <1>1

\* Between what the reader has or is told to fetch and what is replayed, no event of
\* the log is missing.
LEMMA NothingBetween ==
    ASSUME TypeOK, JournalExact, LogInOrder, NEW q, q.after \in Nat, NEW e \in El(log),
           e \notin Claimed(q) \cup Told(q)
    PROVE  e \in Replayed(q)
<1>1. e[1] \in Nat /\ e[2] \in Nat /\ e[2] >= 1 /\ e = <<e[1], e[2]>> /\ Reached(e, inst, seq)
  <2>1. e \in Events
    BY TypesOf
  <2>2. PICK i \in 1..Len(log) : log[i] = e
    BY TypesOf, ElIs
  <2>3. Reached(e, inst, seq)
    BY <2>2 DEF LogInOrder
  <2> QED BY <2>1, <2>3, EventIs
<1>2. /\ inst \in Nat /\ seq \in Nat /\ expired \in Nat /\ Len(frames) \in Nat
      /\ expired + Len(frames) = seq /\ DOMAIN frames = 1..Len(frames)
  BY TypesOf, LenProperties DEF JournalExact
<1>3. e \in Feed!Elements(log)
  BY DEF El
<1>4. q.inst = inst => e[1] = inst /\ ~(e[2] <= q.after)
  BY <1>3 DEF Claimed
<1>5. HistoryRequired(q) => e[1] = inst /\ ~(e[2] <= expired)
  BY <1>3 DEF Told
<1>6. e[1] = inst /\ e[2] <= seq
  BY <1>1, <1>2, <1>4, <1>5 DEF HistoryRequired, Reached
<1>7. expired < e[2]
  <2>1. CASE HistoryRequired(q)
    BY <1>1, <1>2, <1>5, <2>1
  <2>2. CASE ~HistoryRequired(q)
    BY <1>1, <1>2, <1>4, <2>2 DEF HistoryRequired
  <2> QED BY <2>1, <2>2
<1>8. e[2] > After(q)
  BY <1>1, <1>4 DEF After
<1>9. e[2] - expired \in 1..Len(frames) /\ expired + (e[2] - expired) = e[2]
  BY <1>1, <1>2, <1>6, <1>7
<1>10. frames[e[2] - expired].seq = e[2] /\ frames[e[2] - expired].own
  <2>1. /\ frames[e[2] - expired].seq = expired + (e[2] - expired)
        /\ frames[e[2] - expired].own <=> <<inst, expired + (e[2] - expired)>> \in El(log)
    BY <1>9 DEF JournalExact
  <2> QED BY <1>1, <1>6, <1>9, <2>1
<1>11. e = <<inst, frames[e[2] - expired].seq>> /\ e[2] - expired \in DOMAIN frames
  BY <1>1, <1>2, <1>6, <1>9, <1>10
<1> QED BY <1>8, <1>10, <1>11 DEF Replayed

LEMMA SubscribeInv == ASSUME JournalInv, Subscribe PROVE JournalInv'
<1> DEFINE q == Head(subs)
           Q == [gen : Nat, inst : Nat, after : Nat]
<1>0. TypeOK /\ JournalExact /\ LogInOrder /\ ReplaySound /\ NothingMissing
  BY DEF JournalInv
<1>1. /\ subs # <<>> /\ replay = None /\ subs' = Tail(subs)
      /\ UNCHANGED worker /\ gen' = gen /\ ipc' = ipc /\ net' = net
      /\ cursor' = cursor /\ shown' = shown /\ twice' = twice /\ log' = log
      /\ queries' = queries /\ faults' = faults
  BY DEF Subscribe, client
<1>2. q \in Q /\ subs' \in Seq(Q)
  <2>1. subs \in Seq(Q)
    BY <1>0 DEF TypeOK
  <2> QED BY <1>1, <2>1, HeadTailProperties, EmptySeq
<1>3. JournalExact' /\ LogInOrder'
  BY <1>0, <1>1 DEF JournalExact, LogInOrder, worker, Reached, Before
<1>4. CASE q.gen # gen \/ ~ipc
  <2>1. replay' = replay /\ past' = past /\ given' = given
    BY <1>4 DEF Subscribe
  <2>2. UNCHANGED <<worker, gen, ipc, replay, feed>>
    BY <1>1, <2>1 DEF feed
  <2>3. TypeOK'
    BY <1>0, <1>1, <1>2, <2>1 DEF TypeOK, worker
  <2> QED BY <2>2, <2>3, AtRest DEF JournalInv
<1>5. CASE ~(q.gen # gen \/ ~ipc)
  <2>1. /\ replay' = [gen |-> gen, left |-> Replayed(q)]
        /\ past' = Claimed(q) \cup Told(q) /\ given' = {}
    BY <1>5 DEF Subscribe
  <2>2. q.after \in Nat
    BY <1>2
  <2> HIDE DEF q
  <2>3. /\ Replayed(q) \subseteq Events
        /\ \A e \in Replayed(q) : e \in El(log) /\ e[1] = inst
    BY <1>0, ReplayIsOwn
  <2>4. replay' \in Replays /\ replay' # None /\ replay'.gen = gen /\ replay'.left = Replayed(q)
    BY <1>0, <2>1, <2>3, JournalAssumption DEF Replays, TypeOK
  <2>5. Left' = Replayed(q)
    BY <1>1, <1>5, <2>4 DEF Left
  <2>6. past' \subseteq Events
    BY <1>0, <2>1, TypesOf DEF Claimed, Told, El
  <2>7. TypeOK'
    BY <1>0, <1>1, <1>2, <2>1, <2>4, <2>6 DEF TypeOK, worker
  <2>8. ReplaySound'
    BY <1>0, <1>1, <2>1, <2>3, <2>4, <2>5, TypesOf DEF ReplaySound, worker
  <2>9. NothingMissing'
    <3>1. ASSUME NEW e \in El(log), e \notin Claimed(q) \cup Told(q) PROVE e \in Replayed(q)
      BY ONLY <1>0, <2>2, <3>1, NothingBetween
    <3> QED BY <1>1, <2>1, <2>5, <3>1 DEF NothingMissing
  <2> QED BY <1>3, <2>7, <2>8, <2>9 DEF JournalInv
<1> QED BY <1>4, <1>5

LEMMA EndReplayInv == ASSUME JournalInv, EndReplay PROVE JournalInv'
<1>0. TypeOK /\ JournalExact /\ LogInOrder /\ ReplaySound /\ NothingMissing
  BY DEF JournalInv
<1>1. /\ replay # None /\ ReplayEnds(replay) /\ replay' = None
      /\ UNCHANGED worker /\ gen' = gen /\ ipc' = ipc /\ subs' = subs /\ net' = net
      /\ cursor' = cursor /\ shown' = shown /\ twice' = twice
      /\ log' = log /\ past' = past /\ given' = given /\ queries' = queries /\ faults' = faults
  BY DEF EndReplay, client, feed
<1>2. Left = {} /\ Left' = {}
  BY <1>1 DEF Left, ReplayEnds
<1>3. JournalExact' /\ LogInOrder'
  BY <1>0, <1>1 DEF JournalExact, LogInOrder, worker, Reached, Before
<1>4. TypeOK'
  BY <1>0, <1>1 DEF TypeOK, worker
<1>5. ReplaySound' /\ NothingMissing'
  BY <1>0, <1>1, <1>2 DEF ReplaySound, NothingMissing
<1> QED BY <1>3, <1>4, <1>5 DEF JournalInv

LEMMA ReplayFrameInv == ASSUME JournalInv, ReplayFrame PROVE JournalInv'
<1>0. TypeOK /\ JournalExact /\ LogInOrder /\ ReplaySound /\ NothingMissing
  BY DEF JournalInv
<1>1. PICK e \in replay.left :
        /\ IsNext(e, replay.left)
        /\ replay' = [replay EXCEPT !.left = @ \ {e}]
        /\ \/ QueueForward(e) /\ given' = given \cup {e}
           \/ IsQuestion(e) /\ net' = net /\ given' = given
  BY DEF ReplayFrame
<1>2. /\ replay # None /\ replay.gen = gen /\ ipc
      /\ UNCHANGED worker /\ gen' = gen /\ ipc' = ipc /\ subs' = subs
      /\ cursor' = cursor /\ shown' = shown /\ twice' = twice
      /\ log' = log /\ past' = past /\ queries' = queries /\ faults' = faults
  BY DEF ReplayFrame, client
<1>3. replay \in Replays /\ e \in Events /\ Left = replay.left
  BY <1>0, <1>2 DEF TypeOK, Replays, Left
<1>4. replay' = [gen |-> replay.gen, left |-> replay.left \ {e}]
  BY <1>1, <1>3 DEF Replays
<1>5. replay' \in Replays /\ replay' # None /\ replay'.gen = replay.gen /\ replay'.left = replay.left \ {e}
  BY <1>3, <1>4, JournalAssumption DEF Replays
<1>6. Left' = Left \ {e}
  BY <1>2, <1>3, <1>5 DEF Left
<1>7. net' \in Seq(Events) /\ Len(net') <= MaxNet
  BY <1>0, <1>1, <1>3, QueueTypes DEF TypeOK
<1>8. given' \subseteq given \cup {e}
  BY <1>1
<1>9. TypeOK'
  BY <1>0, <1>2, <1>3, <1>5, <1>7, <1>8 DEF TypeOK, worker
<1>10. JournalExact' /\ LogInOrder'
  BY <1>0, <1>2 DEF JournalExact, LogInOrder, worker, Reached, Before
<1>11. ReplaySound'
  <2>1. ASSUME NEW d \in Left \ {e} PROVE Before(e, d)
    <3>1. e[2] <= d[2] /\ e[1] = inst /\ d[1] = inst /\ d \in El(log) /\ e \in El(log)
      BY <1>0, <1>1, <1>3, <2>1 DEF IsNext, ReplaySound
    <3>2. e = <<e[1], e[2]>> /\ d = <<d[1], d[2]>> /\ e[2] \in Nat /\ d[2] \in Nat
      BY <1>0, <3>1, TypesOf, EventIs
    <3>3. e[2] # d[2]
      BY <2>1, <3>1, <3>2
    <3> QED BY <3>1, <3>2, <3>3 DEF Before
  <2>2. \A g \in given' : \A d \in Left' : Before(g, d)
    BY <1>0, <1>6, <1>8, <2>1 DEF ReplaySound
  <2>3. given' \subseteq El(log) /\ \A d \in Left' : d \in El(log) /\ d[1] = inst
    BY <1>0, <1>3, <1>6, <1>8 DEF ReplaySound
  <2>4. replay'.gen <= gen
    BY <1>0, <1>2, <1>5 DEF ReplaySound
  <2> QED BY <1>2, <2>2, <2>3, <2>4 DEF ReplaySound, Before, worker
<1>12. NothingMissing'
  <2>1. e \in given' \/ IsQuestion(e)
    BY <1>1
  <2>2. given \subseteq given'
    BY <1>1
  <2>3. ASSUME NEW d \in El(log) PROVE d \in past \cup given' \cup Left' \/ IsQuestion(d)
    <3>1. d \in past \cup given \cup Left \/ IsQuestion(d)
      BY <1>0 DEF NothingMissing
    <3> QED BY <1>6, <2>1, <2>2, <3>1
  <2> QED BY <1>2, <2>3 DEF NothingMissing
<1> QED BY <1>9, <1>10, <1>11, <1>12 DEF JournalInv

-----------------------------------------------------------------------------
(* The client and the losses *)

LEMMA ForwardInv == ASSUME JournalInv, Forward PROVE JournalInv'
<1> DEFINE e == Head(net)
           c == CursorFor(e)
           C == [inst : Nat, after : Nat, seen : Seq(Nat)]
<1>0. TypeOK
  BY DEF JournalInv
<1>1. /\ net # <<>> /\ net' = Tail(net) /\ UNCHANGED <<worker, gen, ipc, replay, feed>>
      /\ subs' = subs /\ queries' = queries /\ faults' = faults
      /\ Observe(e) \/ UNCHANGED client
  BY DEF Forward
<1>2. net' \in Seq(Events) /\ e \in Events /\ Len(net') <= MaxNet
  <2>1. net \in Seq(Events) /\ Len(net) <= MaxNet /\ MaxNet \in Nat
    BY <1>0, JournalAssumption DEF TypeOK
  <2>2. /\ Tail(net) \in Seq(Events) /\ Len(Tail(net)) = Len(net) - 1 /\ Len(net) \in Nat \ {0}
        /\ Head(net) \in Events
    BY <1>1, <2>1, ElTail
  <2> QED BY <1>1, <2>1, <2>2
<1>3. e[1] \in Nat /\ e[2] \in Nat
  BY <1>2, EventIs
<1> HIDE DEF e
<1>4. cursor' \in C /\ shown' \subseteq Events /\ twice' \subseteq Events
  <2>1. CASE UNCHANGED client
    BY <1>0, <2>1 DEF client, TypeOK
  <2>2. CASE Observe(e)
    <3>1. c \in C
      <4>1. cursor \in C
        BY <1>0 DEF TypeOK
      <4>2. CASE cursor.inst = e[1]
        BY <4>1, <4>2 DEF CursorFor
      <4>3. CASE cursor.inst # e[1]
        <5>1. c = [inst |-> e[1], after |-> 0, seen |-> <<>>]
          BY <4>3 DEF CursorFor, NoCursor
        <5> QED BY <1>3, <5>1
      <4> QED BY <4>2, <4>3
    <3> HIDE DEF c
    <3>2. CASE ~Fresh(c, e)
      BY <1>0, <2>2, <3>1, <3>2 DEF Observe, TypeOK, c
    <3>3. CASE Fresh(c, e)
      <4>1. /\ cursor' = [inst |-> e[1], seen |-> Remember(c.seen, e[2]),
                          after |-> IF e[2] > c.after THEN e[2] ELSE c.after]
            /\ shown' = shown \cup {e} /\ twice' = twice \cup ({e} \cap shown)
        BY <2>2, <3>3 DEF Observe, c
      <4>2. c.seen \in Seq(Nat) /\ c.after \in Nat
        BY <3>1
      <4>3. Remember(c.seen, e[2]) \in Seq(Nat)
        <5>1. Append(c.seen, e[2]) \in Seq(Nat) /\ Append(c.seen, e[2]) # <<>>
          BY ONLY <1>3, <4>2, AppendProperties
        <5>2. Tail(Append(c.seen, e[2])) \in Seq(Nat)
          BY ONLY <5>1, ElTail
        <5> QED BY <5>1, <5>2 DEF Remember
      <4>4. cursor' \in C
        BY <1>3, <4>1, <4>2, <4>3
      <4> QED BY <1>0, <1>2, <4>1, <4>4 DEF TypeOK
    <3> QED BY <3>2, <3>3
  <2> QED BY <1>1, <2>1, <2>2
<1>5. TypeOK'
  BY <1>0, <1>1, <1>2, <1>4 DEF TypeOK, worker, feed
<1> QED BY <1>1, <1>5, AtRest DEF JournalInv

LEMMA FaultTypes ==
    ASSUME TypeOK, Fault
    PROVE  faults' = faults + 1 /\ faults' \in 0..MaxFaults /\ faults \in Nat
BY JournalAssumption DEF TypeOK, Fault

LEMMA LoseIpcInv == ASSUME JournalInv, LoseIpc PROVE JournalInv'
<1>0. TypeOK /\ JournalExact /\ LogInOrder /\ ReplaySound
  BY DEF JournalInv
<1>1. /\ ipc' = FALSE /\ past' = El(log) /\ given' = {} /\ Fault
      /\ UNCHANGED worker /\ gen' = gen /\ subs' = subs /\ replay' = replay /\ net' = net
      /\ cursor' = cursor /\ shown' = shown /\ twice' = twice /\ log' = log /\ queries' = queries
  BY DEF LoseIpc, Detached, client, El
<1>2. faults' = faults + 1 /\ faults' \in 0..MaxFaults /\ faults \in Nat
  BY <1>0, <1>1, FaultTypes
<1>3. TypeOK'
  <2>1. El(log) \subseteq Events /\ {} \subseteq Events
    BY <1>0, TypesOf
  <2>2. inst' \in 1..(faults' + 1) /\ inst' = inst /\ seq' = seq /\ frames' = frames /\ expired' = expired
    BY <1>0, <1>1, <1>2 DEF TypeOK, worker
  <2>3. past' \subseteq Events /\ given' \subseteq Events
    BY <1>1, <2>1
  <2> QED BY <1>0, <1>1, <1>2, <2>2, <2>3 DEF TypeOK
<1>4. Left' = {}
  BY <1>1 DEF Left
<1>5. JournalExact' /\ LogInOrder'
  BY <1>0, <1>1 DEF JournalExact, LogInOrder, worker, Reached, Before
<1>6. ReplaySound' /\ NothingMissing'
  BY <1>0, <1>1, <1>4 DEF ReplaySound, NothingMissing
<1> QED BY <1>3, <1>5, <1>6 DEF JournalInv

LEMMA OpenIpcInv == ASSUME JournalInv, OpenIpc PROVE JournalInv'
<1>0. TypeOK /\ JournalExact /\ LogInOrder /\ ReplaySound /\ NothingMissing
  BY DEF JournalInv
<1>1. /\ ~ipc /\ ipc' = TRUE /\ gen' = gen + 1 /\ net' = <<>>
      /\ UNCHANGED worker /\ subs' = subs /\ replay' = replay
      /\ cursor' = cursor /\ shown' = shown /\ twice' = twice
      /\ log' = log /\ past' = past /\ given' = given /\ queries' = queries /\ faults' = faults
  BY DEF OpenIpc, client, feed
<1>2. net' \in Seq(Events) /\ Len(net') <= MaxNet
  BY <1>1, JournalAssumption
<1>3. TypeOK'
  BY <1>0, <1>1, <1>2 DEF TypeOK, worker
<1>4. replay # None => replay.gen \in Nat /\ replay.gen <= gen /\ gen \in Nat
  BY <1>0 DEF TypeOK, Replays, ReplaySound
<1>5. Left = {} /\ Left' = {}
  <2>1. replay # None => replay.gen # gen + 1
    BY <1>4
  <2> QED BY <1>1, <2>1 DEF Left
<1>6. JournalExact' /\ LogInOrder'
  BY <1>0, <1>1 DEF JournalExact, LogInOrder, worker, Reached, Before
<1>7. ReplaySound' /\ NothingMissing'
  BY <1>0, <1>1, <1>4, <1>5 DEF ReplaySound, NothingMissing
<1> QED BY <1>3, <1>6, <1>7 DEF JournalInv

LEMMA CrashInv == ASSUME JournalInv, Crash PROVE JournalInv'
<1>0. TypeOK /\ JournalExact /\ LogInOrder /\ ReplaySound
  BY DEF JournalInv
<1>1. /\ inst' = inst + 1 /\ seq' = 0 /\ frames' = <<>> /\ expired' = 0
      /\ ipc' = FALSE /\ subs' = <<>> /\ replay' = None /\ Fault
      /\ past' = El(log) /\ given' = {} /\ gen' = gen /\ net' = net
      /\ cursor' = cursor /\ shown' = shown /\ twice' = twice /\ log' = log /\ queries' = queries
  BY DEF Crash, NewWorker, Detached, client, El
<1>2. faults' = faults + 1 /\ faults' \in 0..MaxFaults /\ faults \in Nat
  BY <1>0, <1>1, FaultTypes
<1>3. inst' \in 1..(faults' + 1) /\ Len(frames') = 0
  BY <1>0, <1>1, <1>2 DEF TypeOK
<1>4. TypeOK'
  <2>1. El(log) \subseteq Events /\ {} \subseteq Events
    BY <1>0, TypesOf
  <2>2. past' \subseteq Events /\ given' \subseteq Events
    BY <1>1, <2>1
  <2>3. frames' \in Seq([seq : 1..seq', own : BOOLEAN]) /\ Len(frames') <= MaxFrames
    BY <1>1, JournalAssumption
  <2>4. subs' \in Seq([gen : Nat, inst : Nat, after : Nat])
    BY <1>1
  <2>5. seq' \in 0..MaxEvents /\ expired' \in 0..seq'
    BY <1>1, JournalAssumption
  <2> QED BY <1>0, <1>1, <1>2, <1>3, <2>2, <2>3, <2>4, <2>5 DEF TypeOK
<1>5. JournalExact'
  BY <1>1, <1>3 DEF JournalExact
<1>6. LogInOrder'
  <2>1. ASSUME NEW i \in 1..Len(log) PROVE Reached(log[i], inst + 1, 0)
    <3>1. Reached(log[i], inst, seq) /\ log[i] \in Events
      BY <1>0, TypesOf, ElIs DEF LogInOrder
    <3>2. log[i][1] \in Nat /\ inst \in Nat
      BY <1>0, <3>1, TypesOf, EventIs
    <3> QED BY <3>1, <3>2 DEF Reached
  <2> QED BY <1>0, <1>1, <2>1 DEF LogInOrder, Before
<1>7. Left' = {}
  BY <1>1 DEF Left
<1>8. ReplaySound' /\ NothingMissing'
  BY <1>1, <1>7 DEF ReplaySound, NothingMissing
<1> QED BY <1>4, <1>5, <1>6, <1>8 DEF JournalInv

-----------------------------------------------------------------------------
(* The theorems *)

LEMMA NextInv == JournalInv /\ [Next]_vars => JournalInv'
<1> SUFFICES ASSUME JournalInv, [Next]_vars PROVE JournalInv'
  OBVIOUS
<1>1. CASE UNCHANGED vars
  <2>1. UNCHANGED <<worker, gen, ipc, replay, feed>>
    BY <1>1 DEF vars
  <2>2. TypeOK'
    BY <1>1 DEF JournalInv, TypeOK, vars, worker, client, feed
  <2> QED BY <2>1, <2>2, AtRest DEF JournalInv
<1>2. CASE SystemStep
  BY <1>2, SubscribeInv, EndReplayInv, ReplayFrameInv DEF SystemStep
<1> QED BY <1>1, <1>2, PublishInv, PublishOtherInv, AskInv, ForwardInv, LoseIpcInv, OpenIpcInv,
           CrashInv DEF Next

LEMMA JournalInvariant == Safety => []JournalInv
BY InitInv, NextInv, PTL DEF Safety

\* What the store, the bridge, the dispatcher, the Front's queue and the client keep is
\* of its type, and neither the journal nor the queue exceeds its limit, for every
\* number of events, subscriptions and faults.
THEOREM JournalTypes == Spec => []TypeOK
<1>1. JournalInv => TypeOK
  BY DEF JournalInv
<1> QED BY <1>1, JournalInvariant, PTL DEF Spec

\* A publication is something new that happens: it is handed over when everything
\* before it has been, or stays in the journal.
LEMMA PublishHappens ==
    ASSUME JournalInv, Publish
    PROVE  \E e \in Events : Feed!Happen(e)
<1> DEFINE new == <<inst, seq + 1>>
<1>0. TypeOK /\ LogInOrder /\ NothingMissing
  BY DEF JournalInv
<1>1. /\ seq < MaxEvents /\ log' = Append(log, new) /\ replay = None
      /\ \/ given' = given \cup {new} /\ past' = past
         \/ past' = past \cup {new} /\ given' = given
  BY DEF Publish, MayPublish, JournalAppend
<1>2. new \in Events /\ new \notin Feed!Elements(log)
  BY <1>0, <1>1, NewEvent DEF El
<1> HIDE DEF new
<1>3. Feed!DueAt(Len(log) + 1)
  <2>1. ASSUME NEW j \in 1..((Len(log) + 1) - 1)
        PROVE  log[j] \in past \cup given \/ IsQuestion(log[j])
    <3>1. j \in 1..Len(log) /\ log \in Seq(Events)
      BY <1>0, TypesOf
    <3>2. log[j] \in El(log)
      BY <3>1, ElIs
    <3>3. Left = {}
      BY <1>1 DEF Left
    <3> QED BY <1>0, <3>2, <3>3 DEF NothingMissing
  <2> QED BY <2>1 DEF Feed!DueAt
<1>4. Feed!Happen(new)
  BY <1>1, <1>2, <1>3 DEF Feed!Happen
<1> QED BY <1>2, <1>4

\* A replayed frame is the next event the reader is owed.
LEMMA ReplayGives ==
    ASSUME JournalInv, ReplayFrame
    PROVE  (\E i \in DOMAIN log : Feed!Give(i)) \/ UNCHANGED <<log, past, given>>
<1>0. TypeOK /\ LogInOrder /\ ReplaySound /\ NothingMissing
  BY DEF JournalInv
<1>1. PICK e \in replay.left :
        /\ IsNext(e, replay.left)
        /\ given' = given \cup {e} \/ given' = given
  BY DEF ReplayFrame
<1>2. replay # None /\ replay.gen = gen /\ ipc /\ log' = log /\ past' = past
  BY DEF ReplayFrame
<1>3. Left = replay.left /\ e \in Left /\ e \in El(log) /\ e[1] = inst
  BY <1>0, <1>1, <1>2 DEF Left, ReplaySound
<1>4. log \in Seq(Events) /\ Len(log) \in Nat /\ DOMAIN log = 1..Len(log) /\ El(log) \subseteq Events
  BY <1>0, TypesOf
<1>5. PICK i \in 1..Len(log) : log[i] = e
  BY <1>3, <1>4, ElIs
<1>6. e[1] \in Nat /\ e[2] \in Nat
  BY <1>3, <1>4, EventIs
<1>7. ASSUME NEW j \in 1..(i-1) PROVE log[j] \in past \cup given \/ IsQuestion(log[j])
  <2>1. j \in 1..Len(log) /\ j < i
    BY <1>4
  <2>2. Before(log[j], e) /\ log[j] \in El(log)
    BY <1>0, <1>4, <1>5, <2>1, ElIs DEF LogInOrder
  <2>3. log[j][1] \in Nat /\ log[j][2] \in Nat
    BY <1>4, <2>2, EventIs
  <2>4. log[j] \notin Left
    <3>1. SUFFICES ASSUME log[j] \in Left PROVE FALSE
      OBVIOUS
    <3>2. log[j][1] = inst /\ e[2] <= log[j][2]
      BY <1>0, <1>1, <1>3, <3>1 DEF ReplaySound, IsNext
    <3> QED BY <1>3, <1>6, <2>2, <2>3, <3>2 DEF Before
  <2> QED BY <1>0, <2>2, <2>4 DEF NothingMissing
<1>8. ASSUME NEW j \in 1..Len(log), j >= i PROVE log[j] \notin given
  <2>1. SUFFICES ASSUME log[j] \in given PROVE FALSE
    OBVIOUS
  <2>2. Before(log[j], e)
    BY <1>0, <1>3, <2>1 DEF ReplaySound
  <2>3. log[j] = e \/ Before(e, log[j])
    BY <1>0, <1>4, <1>5, <1>8 DEF LogInOrder
  <2>4. log[j] \in El(log)
    BY <1>4, ElIs
  <2>5. log[j][1] \in Nat /\ log[j][2] \in Nat
    BY <1>4, <2>4, EventIs
  <2> QED BY <1>6, <2>2, <2>3, <2>5 DEF Before
<1>9. Feed!DueAt(i)
  BY <1>7 DEF Feed!DueAt
<1>10. CASE given' = given \cup {e}
  <2>1. Feed!Give(i)
    BY <1>2, <1>4, <1>5, <1>8, <1>9, <1>10 DEF Feed!Give
  <2> QED BY <1>4, <2>1
<1>11. CASE given' = given
  BY <1>2, <1>11
<1> QED BY <1>1, <1>10, <1>11

\* A reader that loses its connection, and one whose subscription is answered, begin
\* at a place in the log.
LEMMA LossBegins ==
    ASSUME JournalInv, LoseIpc \/ Crash
    PROVE  Feed!Begin
<1>1. past' = Feed!Elements(log) /\ given' = {} /\ log' = log
  BY DEF LoseIpc, Crash, Detached
<1>2. log \in Seq(Events) /\ DOMAIN log = 1..Len(log) /\ Len(log) \in Nat
  BY TypesOf DEF JournalInv
<1>3. \A i \in DOMAIN log : \A j \in 1..i : log[j] \in past'
  BY <1>1, <1>2, ElIs DEF El
<1> QED BY <1>1, <1>3 DEF Feed!Begin

LEMMA AnswerBegins ==
    ASSUME JournalInv, Subscribe
    PROVE  Feed!Begin \/ UNCHANGED <<log, past, given>>
<1> DEFINE q == Head(subs)
<1>0. TypeOK /\ LogInOrder
  BY DEF JournalInv
<1>1. CASE q.gen # gen \/ ~ipc
  BY <1>1 DEF Subscribe
<1>2. CASE ~(q.gen # gen \/ ~ipc)
  <2>1. past' = Claimed(q) \cup Told(q) /\ given' = {} /\ log' = log
    BY <1>2 DEF Subscribe
  <2>2. subs # <<>> /\ subs \in Seq([gen : Nat, inst : Nat, after : Nat])
    BY <1>0 DEF Subscribe, TypeOK
  <2>3. q \in [gen : Nat, inst : Nat, after : Nat]
    BY <2>2, HeadTailProperties, EmptySeq
  <2>4. q.inst \in Nat /\ q.after \in Nat
    BY <2>3
  <2> HIDE DEF q
  <2>5. /\ inst \in Nat /\ expired \in Nat /\ log \in Seq(Events) /\ Len(log) \in Nat
        /\ DOMAIN log = 1..Len(log) /\ El(log) \subseteq Events
    BY <1>0, TypesOf
  <2>6. past' \subseteq Feed!Elements(log)
    BY <2>1 DEF Claimed, Told
  <2>7. ASSUME NEW i \in DOMAIN log, log[i] \in past', NEW j \in 1..i PROVE log[j] \in past'
    <3>1. i \in 1..Len(log) /\ j \in 1..Len(log) /\ log[i] \in El(log) /\ log[j] \in El(log)
      BY <2>5, ElIs
    <3>2. /\ log[i][1] \in Nat /\ log[i][2] \in Nat /\ log[j][1] \in Nat /\ log[j][2] \in Nat
          /\ Reached(log[i], inst, seq)
      BY <1>0, <2>5, <3>1, EventIs DEF LogInOrder
    <3>3. log[j] = log[i] \/ Before(log[j], log[i])
      <4>1. CASE j = i
        BY <4>1
      <4>2. CASE j # i
        <5>1. j < i
          BY <3>1, <4>2
        <5> QED BY <1>0, <3>1, <5>1 DEF LogInOrder
      <4> QED BY <4>1, <4>2
    <3>4. ASSUME NEW n \in Nat, log[i][1] # inst \/ log[i][2] <= n, Before(log[j], log[i])
          PROVE  log[j][1] # inst \/ log[j][2] <= n
      BY <2>5, <3>2, <3>4 DEF Before, Reached
    <3>5. log[j] \in Feed!Elements(log) /\ log[i] \in Feed!Elements(log)
      BY <3>1 DEF El
    <3>6. CASE log[i] \in Claimed(q)
      BY <2>1, <2>4, <3>3, <3>4, <3>5, <3>6 DEF Claimed
    <3>7. CASE log[i] \in Told(q)
      BY <2>1, <2>5, <3>3, <3>4, <3>5, <3>7 DEF Told
    <3> QED BY <2>1, <2>7, <3>6, <3>7
  <2> QED BY <2>1, <2>6, <2>7 DEF Feed!Begin
<1> QED BY <1>1, <1>2

\* "Publish replay before later live events" (dispatcher.py:602): every step of the
\* journal, the bridge, the dispatcher, the Front and the client is a step of the feed
\* or none, so on every connection the Worker writes, from the place the snapshot
\* names, every event of the conversation, once and in order; for every size of the
\* journal and every number of events, evictions, subscriptions, lost connections and
\* dead Workers.
THEOREM JournalKeepsPromise == Spec => ImplementsFeed
<1>1. Init => Feed!FeedInit
  BY DEF Init, Feed!FeedInit
<1>2. JournalInv /\ [Next]_vars => [Feed!FeedNext]_(Feed!feedVars)
  <2> SUFFICES ASSUME JournalInv, [Next]_vars
               PROVE  Feed!FeedNext \/ UNCHANGED <<log, past, given>>
    BY DEF Feed!feedVars
  <2>1. CASE Publish
    BY <2>1, PublishHappens DEF Feed!FeedNext
  <2>2. CASE Subscribe
    BY <2>2, AnswerBegins DEF Feed!FeedNext
  <2>3. CASE ReplayFrame
    BY <2>3, ReplayGives DEF Feed!FeedNext
  <2>4. CASE LoseIpc \/ Crash
    BY <2>4, LossBegins DEF Feed!FeedNext
  <2>5. CASE PublishOther \/ Resume \/ Load \/ EndReplay \/ Forward \/ OpenIpc
    BY <2>5 DEF PublishOther, Resume, Load, Ask, EndReplay, Forward, OpenIpc, feed
  <2>6. CASE UNCHANGED vars
    BY <2>6 DEF vars, feed
  <2> QED BY <2>1, <2>2, <2>3, <2>4, <2>5, <2>6 DEF Next, SystemStep
<1>3. Safety => []JournalInv
  BY JournalInvariant
<1> QED BY <1>1, <1>2, <1>3, PTL DEF Spec, Safety, ImplementsFeed, Feed!FeedSpec
=============================================================================
