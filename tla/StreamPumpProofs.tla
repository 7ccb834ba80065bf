-------------------------- MODULE StreamPumpProofs --------------------------
(***************************************************************************)
(* Proofs about one stream: for every buffer size, every length of the     *)
(* source and every interruption, what the client takes is the items of    *)
(* the source in order and then one end.                                   *)
(***************************************************************************)
EXTENDS StreamPump, SequenceTheorems, TLAPS

\* The client's items continue, without a gap, in the values of the buffer.
InOrder ==
    /\ \A i \in 1..Len(got) : got[i] = i
    /\ \A i \in 1..Len(buffer) : buffer[i].kind = "value" => buffer[i].n = Len(got) + i

\* No item is missing: what was yielded is with the client, in the buffer or in the
\* hand of a producer that waits for room, until an error drops that one.
NoneMissing ==
    /\ producer \in {"new", "queued", "pulling"} => Len(got) + Len(buffer) = sent
    /\ producer = "blocked" => Len(got) + Len(buffer) = sent - 1
    /\ producer \in {"closing", "marking"} /\ marker = "done" => Len(got) + Len(buffer) = sent
    /\ \A i \in 1..Len(buffer) : buffer[i].kind = "done" => Len(got) + i = sent + 1
    /\ client = "joins" => Len(got) = sent /\ producer = "ended"

\* The marker in the buffer is the one produce() chose, and it chose none before it
\* left its loop.
MarkerChosen ==
    /\ producer \in {"new", "queued", "pulling", "blocked"} => marker = "none"
    /\ producer \in {"closing", "marking"} => marker # "none"
    /\ \A i \in 1..Len(buffer) : buffer[i].kind # "value" => buffer[i].kind = marker
    /\ client = "joins" => marker = "done"

\* A producer that pulls has a running handle, and "done" is chosen for a handle that
\* succeeded, unless a cancel had found no producer.
HandleFollows ==
    /\ producer = "new" => ~cancelling /\ exec # "running"
    /\ producer \in {"new", "queued"} /\ ~cancelling => exec = "queued" \/ stray
    /\ producer \in {"pulling", "blocked"} => exec = "running" \/ stray
    /\ marker = "done" => exec = "succeeded" \/ stray

\* The inductive invariant behind StreamFaithful.
StreamInv == TypeOK /\ MarkerIsLast /\ InOrder /\ NoneMissing /\ MarkerChosen /\ HandleFollows

-----------------------------------------------------------------------------
(* Lemmas about the items and the buffer *)

LEMMA ItemFacts ==
    /\ \A n \in 1..MaxItems : Value(n) \in StreamItems /\ Value(n).kind = "value" /\ Value(n).n = n
    /\ \A mk \in {"done", "error"} : Marker(mk) \in StreamItems /\ Marker(mk).kind = mk
    /\ \A e \in StreamItems : /\ e.kind \in {"value", "done", "error"}
                              /\ e.kind = "value" => e.n \in 1..MaxItems
BY DEF StreamItems, Value, Marker

\* put() adds one entry at the end.
LEMMA PutFacts ==
    ASSUME TypeOK, NEW e \in StreamItems
    PROVE  /\ Append(buffer, e) \in Seq(StreamItems)
           /\ Len(Append(buffer, e)) = Len(buffer) + 1
           /\ \A i \in 1..Len(buffer) : Append(buffer, e)[i] = buffer[i]
           /\ Append(buffer, e)[Len(buffer) + 1] = e
           /\ Len(buffer) \in Nat /\ Len(got) \in Nat
BY AppendProperties, LenProperties DEF TypeOK

\* A value that is put is the next one of the source.
LEMMA PutValue ==
    ASSUME StreamInv, producer \in {"pulling", "blocked"}, producer' = "pulling",
           sent' \in 1..MaxItems, Len(got) + Len(buffer) = sent' - 1,
           buffer' = Append(buffer, Value(sent')),
           UNCHANGED <<marker, cancelling, exec, client, got, stray>>
    PROVE  StreamInv'
<1>1. TypeOK /\ MarkerIsLast /\ InOrder /\ NoneMissing /\ MarkerChosen /\ HandleFollows
  BY DEF StreamInv
<1>2. /\ buffer' \in Seq(StreamItems)
      /\ Len(buffer') = Len(buffer) + 1
      /\ \A i \in 1..Len(buffer) : buffer'[i] = buffer[i]
      /\ buffer'[Len(buffer) + 1] = Value(sent')
      /\ Len(buffer) \in Nat /\ Len(got) \in Nat
  BY <1>1, PutFacts, ItemFacts
<1>3. Value(sent').kind = "value" /\ Value(sent').n = sent'
  BY ItemFacts
<1>4. \A i \in 1..Len(buffer) : buffer[i].kind = "value"
  BY <1>1 DEF MarkerIsLast
<1>5. \A i \in 1..Len(buffer') : i \in 1..Len(buffer) \/ i = Len(buffer) + 1
  BY <1>2
<1>6. \A i \in 1..Len(buffer') : buffer'[i].kind = "value"
  BY <1>2, <1>3, <1>4, <1>5
<1>7. TypeOK'
  BY <1>1, <1>2 DEF TypeOK, ProducerStates
<1>8. InOrder'
  <2>1. \A i \in 1..Len(buffer) : buffer'[i].n = Len(got) + i
    BY <1>1, <1>2, <1>4 DEF InOrder
  <2>2. buffer'[Len(buffer) + 1].n = Len(got) + (Len(buffer) + 1)
    <3>1. sent' = Len(got) + (Len(buffer) + 1)
      BY <1>2
    <3>2. buffer'[Len(buffer) + 1].n = sent'
      BY <1>2, <1>3
    <3>3. QED
      BY <3>1, <3>2
  <2>3. \A i \in 1..Len(buffer') : buffer'[i].n = Len(got) + i
    BY <1>5, <2>1, <2>2
  <2>4. QED
    BY <1>1, <2>3 DEF InOrder
<1>9. MarkerIsLast'
  BY <1>6 DEF MarkerIsLast
<1>10. NoneMissing'
  BY <1>1, <1>2, <1>6 DEF NoneMissing, TypeOK
<1>11. MarkerChosen' /\ HandleFollows'
  BY <1>1, <1>6 DEF MarkerChosen, HandleFollows
<1>12. QED
  BY <1>7, <1>8, <1>9, <1>10, <1>11 DEF StreamInv

\* The marker is put once, behind every value.
LEMMA PutTheMarker ==
    ASSUME StreamInv, producer \in {"closing", "marking"}, producer' = "ended",
           buffer' = Append(buffer, Marker(marker)),
           UNCHANGED <<sent, marker, cancelling, exec, client, got, stray>>
    PROVE  StreamInv'
<1>1. TypeOK /\ MarkerIsLast /\ InOrder /\ NoneMissing /\ MarkerChosen /\ HandleFollows
  BY DEF StreamInv
<1>2. marker \in {"done", "error"}
  BY <1>1 DEF TypeOK, Markers, MarkerChosen
<1>3. /\ buffer' \in Seq(StreamItems)
      /\ Len(buffer') = Len(buffer) + 1
      /\ \A i \in 1..Len(buffer) : buffer'[i] = buffer[i]
      /\ buffer'[Len(buffer) + 1] = Marker(marker)
      /\ Len(buffer) \in Nat /\ Len(got) \in Nat
  BY <1>1, <1>2, PutFacts, ItemFacts
<1>4. Marker(marker).kind = marker
  BY <1>2, ItemFacts
<1>5. \A i \in 1..Len(buffer) : buffer[i].kind = "value"
  BY <1>1 DEF MarkerIsLast
<1>6. \A i \in 1..Len(buffer') : i \in 1..Len(buffer) \/ i = Len(buffer) + 1
  BY <1>3
<1>7. \A i \in 1..Len(buffer') : buffer'[i].kind # "value" => i = Len(buffer) + 1 /\ i = Len(buffer')
  BY <1>3, <1>5, <1>6
<1>8. TypeOK'
  BY <1>1, <1>3 DEF TypeOK, ProducerStates
<1>9. InOrder'
  BY <1>1, <1>2, <1>3, <1>4, <1>6 DEF InOrder
<1>10. MarkerIsLast'
  BY <1>7 DEF MarkerIsLast
<1>11. NoneMissing'
  <2>1. ASSUME NEW i \in 1..Len(buffer'), buffer'[i].kind = "done" PROVE Len(got) + i = sent + 1
    <3>1. i = Len(buffer) + 1 /\ marker = "done"
      BY <1>3, <1>4, <1>7, <2>1
    <3>2. Len(got) + Len(buffer) = sent /\ sent \in Nat
      BY <1>1, <3>1 DEF NoneMissing, TypeOK
    <3>3. QED
      BY <1>3, <3>1, <3>2
  <2>2. client' = "joins" => Len(got') = sent' /\ producer' = "ended"
    BY <1>1 DEF NoneMissing
  <2>3. \A i \in 1..Len(buffer') : buffer'[i].kind = "done" => Len(got') + i = sent' + 1
    BY <2>1
  <2>4. QED
    BY <2>2, <2>3 DEF NoneMissing
<1>12. MarkerChosen' /\ HandleFollows'
  BY <1>1, <1>3, <1>4, <1>7 DEF MarkerChosen, HandleFollows
<1>13. QED
  BY <1>8, <1>9, <1>10, <1>11, <1>12 DEF StreamInv

\* The generator takes the oldest entry.
LEMMA GetTakes ==
    ASSUME StreamInv, Get
    PROVE  StreamInv'
<1>1. TypeOK /\ MarkerIsLast /\ InOrder /\ NoneMissing /\ MarkerChosen /\ HandleFollows
  BY DEF StreamInv
<1>2. /\ buffer \in Seq(StreamItems) /\ buffer # <<>> /\ buffer' = Tail(buffer)
      /\ UNCHANGED <<producer, sent, marker, cancelling, exec, stray>>
  BY <1>1 DEF TypeOK, Get
<1>3. /\ buffer' \in Seq(StreamItems)
      /\ Len(buffer') = Len(buffer) - 1
      /\ \A i \in 1..Len(buffer') : buffer'[i] = buffer[i + 1]
  BY <1>2, HeadTailProperties
<1>4. Len(buffer) \in Nat \ {0} /\ Head(buffer) = buffer[1] /\ buffer[1] \in StreamItems
  BY <1>2, EmptySeq, HeadTailProperties
<1>5. Len(got) \in Nat /\ Len(buffer') \in Nat /\ got \in Seq(1..MaxItems) /\ sent \in Nat
  BY <1>1, <1>3, <1>4, LenProperties DEF TypeOK
<1>6. \A i \in 1..Len(buffer') : i + 1 \in 1..Len(buffer)
  BY <1>3, <1>4, <1>5
<1>7. MarkerIsLast'
  <2>1. ASSUME NEW i \in 1..Len(buffer'), buffer'[i].kind # "value"
        PROVE  i = Len(buffer') /\ producer' = "ended"
    <3>1. i + 1 = Len(buffer) /\ producer = "ended"
      BY <1>1, <1>3, <1>6, <2>1 DEF MarkerIsLast
    <3>2. i \in Int
      OBVIOUS
    <3>3. QED
      <4>1. i = Len(buffer')
        BY <1>3, <1>5, <3>1, <3>2
      <4>2. QED
        BY <1>2, <3>1, <4>1
  <2>2. QED
    BY <2>1 DEF MarkerIsLast
<1>8. CASE buffer[1].kind = "value"
  <2>1. got' = Append(got, buffer[1].n) /\ client' = "holds"
    BY <1>4, <1>8 DEF Get
  <2>2. buffer[1].n \in 1..MaxItems /\ buffer[1].n = Len(got) + 1
    BY <1>1, <1>4, <1>5, <1>8, ItemFacts DEF InOrder
  <2>3. /\ got' \in Seq(1..MaxItems) /\ Len(got') = Len(got) + 1
        /\ \A i \in 1..Len(got) : got'[i] = got[i]
        /\ got'[Len(got) + 1] = Len(got) + 1
    BY <1>5, <2>1, <2>2, AppendProperties
  <2>4. TypeOK'
    BY <1>1, <1>2, <1>3, <2>1, <2>3 DEF TypeOK, ClientStates
  <2>5. InOrder'
    <3>1. \A i \in 1..Len(got') : got'[i] = i
      BY <1>1, <1>5, <2>3 DEF InOrder
    <3>2. \A i \in 1..Len(buffer') : buffer'[i].kind = "value" => buffer'[i].n = Len(got') + i
      <4>1. ASSUME NEW i \in 1..Len(buffer'), buffer'[i].kind = "value"
            PROVE  buffer'[i].n = Len(got') + i
        <5>1. buffer'[i].n = Len(got) + (i + 1)
          BY <1>1, <1>3, <1>6, <4>1 DEF InOrder
        <5>2. QED
          BY <1>5, <2>3, <5>1
      <4>2. QED
        BY <4>1
    <3>3. QED
      BY <3>1, <3>2 DEF InOrder
  <2>6. NoneMissing'
    <3>1. Len(got') + Len(buffer') = Len(got) + Len(buffer)
      BY <1>3, <1>4, <1>5, <2>3
    <3>2. \A i \in 1..Len(buffer') : buffer'[i].kind = "done" => Len(got') + i = sent' + 1
      BY <1>1, <1>2, <1>3, <1>5, <1>6, <2>3 DEF NoneMissing
    <3>3. QED
      BY <1>1, <1>2, <2>1, <3>1, <3>2 DEF NoneMissing
  <2>7. MarkerChosen' /\ HandleFollows'
    BY <1>1, <1>2, <1>3, <1>6, <2>1 DEF MarkerChosen, HandleFollows
  <2>8. QED
    BY <1>7, <2>4, <2>5, <2>6, <2>7 DEF StreamInv
<1>9. CASE buffer[1].kind # "value"
  <2>1. Len(buffer) = 1 /\ producer = "ended"
    BY <1>1, <1>4, <1>9 DEF MarkerIsLast
  <2>2. 1..Len(buffer') = {}
    BY <1>3, <2>1
  <2>3. /\ got' = got
        /\ \/ buffer[1].kind = "done" /\ client' = "joins"
           \/ client' = "closed"
    BY <1>4, <1>9 DEF Get
  <2>4. TypeOK'
    BY <1>1, <1>2, <1>3, <2>3 DEF TypeOK, ClientStates
  <2>5. InOrder'
    BY <1>1, <2>2, <2>3 DEF InOrder
  <2>6. client' = "joins" => Len(got) = sent /\ marker = "done"
    <3>1. buffer[1].kind = "done" => Len(got) + 1 = sent + 1 /\ marker = "done"
      BY <1>1, <2>1 DEF NoneMissing, MarkerChosen
    <3>2. QED
      BY <1>5, <2>3, <3>1
  <2>7. NoneMissing'
    BY <1>1, <1>2, <2>1, <2>2, <2>3, <2>6 DEF NoneMissing
  <2>8. MarkerChosen' /\ HandleFollows'
    BY <1>1, <1>2, <2>1, <2>2, <2>6 DEF MarkerChosen, HandleFollows
  <2>9. QED
    BY <1>7, <2>4, <2>5, <2>7, <2>8 DEF StreamInv
<1>10. QED
  BY <1>8, <1>9

-----------------------------------------------------------------------------
(* The invariant *)

LEMMA StreamInit ==
    ASSUME Init
    PROVE  StreamInv
<1>1. Len(buffer) = 0 /\ Len(got) = 0 /\ buffer \in Seq(StreamItems) /\ got \in Seq(1..MaxItems)
  BY EmptySeq DEF Init
<1>2. TypeOK
  <2>1. sent \in 0..MaxItems
    BY StreamAssumption DEF Init
  <2>2. cancelling \in BOOLEAN
    BY DEF Init
  <2>3. stray \in BOOLEAN
    BY DEF Init
  <2>4. QED
    BY <1>1, <2>1, <2>2, <2>3 DEF Init, TypeOK, ProducerStates, Markers, ExecStates, ClientStates
<1>3. MarkerIsLast /\ InOrder /\ NoneMissing /\ MarkerChosen /\ HandleFollows
  BY <1>1 DEF Init, MarkerIsLast, InOrder, NoneMissing, MarkerChosen, HandleFollows
<1>4. QED
  BY <1>2, <1>3 DEF StreamInv

\* The steps that put nothing and take nothing.
LEMMA QuietSteps ==
    ASSUME StreamInv, UNCHANGED <<buffer, sent, got>>,
           \/ Submit \/ Start \/ SourceEnds \/ CancelArrives \/ MarkerLost \/ Resume \/ Join
           \/ ClientCloses \/ CancelWaited \/ CancelQueued \/ CancelRunning \/ SessionCloses
           \/ UNCHANGED vars
    PROVE  StreamInv'
<1>1. TypeOK /\ MarkerIsLast /\ InOrder /\ NoneMissing /\ MarkerChosen /\ HandleFollows
  BY DEF StreamInv
<1>2. TypeOK'
  BY <1>1 DEF TypeOK, Submit, Start, SourceEnds, CancelArrives, MarkerLost, Resume, Join, ClientCloses,
     CancelWaited, CancelQueued, CancelRunning, SessionCloses, CancelProducer, vars, Leave, MarkTerminal,
     Active, ProducerStates, Markers, ExecStates, ClientStates
<1>3. InOrder'
  BY <1>1 DEF InOrder
<1>4. \A i \in 1..Len(buffer) : producer # "ended" => buffer[i].kind = "value"
  BY <1>1 DEF MarkerIsLast
<1>5. MarkerIsLast'
  BY <1>1, <1>4 DEF MarkerIsLast, Submit, Start, SourceEnds, CancelArrives, MarkerLost, Resume, Join,
     ClientCloses, CancelWaited, CancelQueued, CancelRunning, SessionCloses, CancelProducer, vars, Leave
<1>6. NoneMissing'
  BY <1>1 DEF NoneMissing, MarkerChosen, Submit, Start, SourceEnds, CancelArrives, MarkerLost, Resume,
     Join, ClientCloses, CancelWaited, CancelQueued, CancelRunning, SessionCloses, CancelProducer, vars, Leave
<1>7. MarkerChosen'
  BY <1>1, <1>4 DEF NoneMissing, MarkerChosen, Submit, Start, SourceEnds, CancelArrives, MarkerLost,
     Resume, Join, ClientCloses, CancelWaited, CancelQueued, CancelRunning, SessionCloses,
     CancelProducer, vars, Leave
<1>8. HandleFollows'
  <2>1. CASE Submit \/ Start
    BY <1>1, <2>1 DEF TypeOK, MarkerChosen, HandleFollows, Submit, Start
  <2>2. CASE SourceEnds \/ CancelArrives
    BY <1>1, <2>2 DEF TypeOK, HandleFollows, SourceEnds, CancelArrives, Leave, MarkTerminal,
       Active, ExecStates
  <2>3. CASE MarkerLost \/ Resume \/ Join \/ UNCHANGED vars
    BY <1>1, <2>3 DEF HandleFollows, MarkerLost, Resume, Join, vars
  <2>4. CASE ClientCloses
    BY <1>1, <2>4 DEF TypeOK, MarkerChosen, HandleFollows, ClientCloses, CancelProducer, Active,
       ProducerStates
  <2>5. CASE CancelWaited \/ CancelRunning
    <3>1. CASE CancelWaited
      <4>1. /\ UNCHANGED <<producer, marker, cancelling, stray>>
            /\ exec' = exec \/ (producer = "ended" /\ exec \in {"queued", "running"})
        BY <3>1 DEF CancelWaited, MarkTerminal, Active
      <4>2. QED
        BY <1>1, <4>1 DEF HandleFollows
    <3>2. CASE CancelRunning
      <4>1. UNCHANGED <<producer, marker, exec, stray>> /\ cancelling' /\ producer # "new"
        BY <1>1, <3>2 DEF CancelRunning, HandleFollows
      <4>2. QED
        BY <1>1, <4>1 DEF HandleFollows
    <3>3. QED
      BY <2>5, <3>1, <3>2
  <2>6. CASE CancelQueued
    BY <1>1, <2>6 DEF TypeOK, MarkerChosen, HandleFollows, CancelQueued, CancelProducer,
       ProducerStates
  <2>7. CASE SessionCloses
    BY <1>1, <2>7 DEF TypeOK, MarkerChosen, HandleFollows, SessionCloses, CancelProducer,
       MarkTerminal, Active, ProducerStates
  <2>8. QED
    BY <2>1, <2>2, <2>3, <2>4, <2>5, <2>6, <2>7
<1>9. QED
  BY <1>2, <1>3, <1>5, <1>6, <1>7, <1>8 DEF StreamInv

LEMMA StreamNext ==
    ASSUME StreamInv, [Next]_vars
    PROVE  StreamInv'
<1>1. /\ TypeOK /\ NoneMissing
      /\ Len(got) \in Nat /\ Len(buffer) \in Nat
  BY LenProperties DEF StreamInv, TypeOK
<1>2. CASE Pull
  <2>1. CASE Full
    <3>1. /\ producer' = "blocked" /\ sent' = sent + 1 /\ sent' \in 0..MaxItems
          /\ producer = "pulling"
          /\ UNCHANGED <<buffer, marker, cancelling, exec, client, got, stray>>
      BY <1>1, <1>2, <2>1, StreamAssumption DEF Pull, TypeOK
    <3>2. \A i \in 1..Len(buffer) : buffer[i].kind = "value"
      BY <3>1 DEF StreamInv, MarkerIsLast
    <3>3. TypeOK' /\ MarkerIsLast' /\ InOrder'
      BY <3>1, <3>2 DEF StreamInv, TypeOK, MarkerIsLast, InOrder, ProducerStates
    <3>4. NoneMissing'
      BY <1>1, <3>1, <3>2 DEF NoneMissing, TypeOK
    <3>5. MarkerChosen' /\ HandleFollows'
      BY <3>1, <3>2 DEF StreamInv, MarkerChosen, HandleFollows
    <3>6. QED
      BY <3>3, <3>4, <3>5 DEF StreamInv
  <2>2. CASE ~Full
    <3>1. sent' \in 1..MaxItems /\ Len(got) + Len(buffer) = sent' - 1
      BY <1>1, <1>2, StreamAssumption DEF Pull, TypeOK, NoneMissing
    <3>2. QED
      BY <1>2, <2>2, <3>1, PutValue DEF Pull
  <2>3. QED
    BY <2>1, <2>2
<1>3. CASE Unblock
  <2>1. sent' = sent /\ sent' \in 1..MaxItems /\ Len(got) + Len(buffer) = sent' - 1
    BY <1>1, <1>3 DEF Unblock, TypeOK, NoneMissing
  <2>2. QED
    BY <1>3, <2>1, PutValue DEF Unblock
<1>4. CASE SourceClosed
  <2>1. CASE Full
    <3>1. /\ producer = "closing" /\ producer' = "marking"
          /\ UNCHANGED <<buffer, sent, marker, cancelling, exec, client, got, stray>>
      BY <1>4, <2>1 DEF SourceClosed
    <3>2. QED
      BY <3>1 DEF StreamInv, TypeOK, MarkerIsLast, InOrder, NoneMissing, MarkerChosen,
         HandleFollows, ProducerStates
  <2>2. CASE ~Full
    BY <1>4, <2>2, PutTheMarker DEF SourceClosed
  <2>3. QED
    BY <2>1, <2>2
<1>5. CASE PutMarker
  BY <1>5, PutTheMarker DEF PutMarker
<1>6. CASE Get
  BY <1>6, GetTakes
<1>7. CASE \/ Submit \/ Start \/ SourceEnds \/ CancelArrives \/ MarkerLost \/ Resume \/ Join
           \/ ClientCloses \/ CancelWaited \/ CancelQueued \/ CancelRunning \/ SessionCloses
           \/ UNCHANGED vars
  <2>1. UNCHANGED <<buffer, sent, got>>
    BY <1>7 DEF Submit, Start, SourceEnds, CancelArrives, MarkerLost, Resume, Join, ClientCloses,
       CancelWaited, CancelQueued, CancelRunning, SessionCloses, CancelProducer, vars, Leave
  <2>2. QED
    BY <1>7, <2>1, QuietSteps
<1>8. QED
  BY <1>2, <1>3, <1>4, <1>5, <1>6, <1>7
     DEF Next, SourceStep, ProducerStep, GeneratorStep

LEMMA StreamInvariant == Spec => []StreamInv
BY StreamInit, StreamNext, PTL DEF Spec

\* The variables keep their types, for every buffer size and length of the source.
THEOREM StreamTypes == Spec => []TypeOK
<1>1. StreamInv => TypeOK
  BY DEF StreamInv
<1>2. QED
  BY <1>1, StreamInvariant, PTL

\* A client that sees its stream complete has every item of the source, once and in
\* order, from a handle that succeeded or was cancelled before the stream had submitted
\* itself; and nothing is put behind a terminal marker,
\* whatever closes or cancels either side.
THEOREM StreamIsFaithful == Spec => []StreamFaithful
<1>1. StreamInv => StreamFaithful
  <2>1. ASSUME StreamInv, client = "joins"
        PROVE  (exec = "succeeded" \/ stray) /\ got = [i \in 1..sent |-> i]
    <3>1. (exec = "succeeded" \/ stray) /\ Len(got) = sent /\ \A i \in 1..Len(got) : got[i] = i
      BY <2>1 DEF StreamInv, NoneMissing, MarkerChosen, HandleFollows, InOrder
    <3>2. got \in [1..Len(got) -> 1..MaxItems]
      BY <2>1, LenProperties DEF StreamInv, TypeOK
    <3>3. QED
      BY <3>1, <3>2
  <2>2. QED
    BY <2>1 DEF StreamInv, StreamFaithful, CompleteMeansAll
<1>2. QED
  BY <1>1, StreamInvariant, PTL
=============================================================================
