------------------------------ MODULE StreamPump ------------------------------
(***************************************************************************)
(* One stream of RuntimeSessionCoordinator._run_stream (jiuwenswarm/       *)
(* runtime/session/coordinator.py): the produce() task that pulls items    *)
(* from the operation into a bounded buffer, and the generator body that   *)
(* hands them to the client.  The lane is seen from the stream's side: the *)
(* producer starts at some time, and close_session or cancel_execution may *)
(* cancel it before or after.                                              *)
(***************************************************************************)
EXTENDS Integers, Sequences

CONSTANTS
    BufferSize,  \* _stream_buffer_size, at least 1
    MaxItems,    \* bound on the items of the source
    Interrupts   \* what may happen to the stream: see Interruptions

Interruptions == {"client closes", "cancel queued", "cancel running",
                  "session closes"}

ASSUME StreamAssumption ==
    /\ BufferSize \in Nat \ {0}
    /\ MaxItems \in Nat
    /\ Interrupts \subseteq Interruptions

VARIABLES
    buffer,      \* the bounded asyncio.Queue
    producer,    \* where produce() is
    sent,        \* items the source has yielded
    marker,      \* terminal_item: none, done or error
    cancelling,  \* a cancel is pending on the producer's task
    exec,        \* the state of the handle
    client,      \* where the generator body is
    got,         \* the items the client received
    stray        \* history: cancelled before it had submitted itself

vars == <<buffer, producer, sent, marker, cancelling, exec, client, got, stray>>

ProducerStates == {"new", "queued", "pulling", "blocked", "closing", "marking", "ended"}
ClientStates == {"get", "holds", "cancels", "joins", "closed"}
ExecStates == {"queued", "running", "succeeded", "failed", "cancelled"}
Markers == {"none", "done", "error"}
Active == exec \in {"queued", "running"}
Full == Len(buffer) >= BufferSize

\* _StreamItem: the n-th value of the source, or a terminal marker.
Value(n) == [kind |-> "value", n |-> n]
Marker(mk) == [kind |-> mk, n |-> 0]
StreamItems == {Value(n) : n \in 1..MaxItems} \cup {Marker("done"), Marker("error")}

\* A stream of lane work submits itself in a task of its own (use_lane); streamed
\* mailbox work is that task.
Init ==
    /\ buffer = <<>>
    /\ producer \in {"new", "queued"}
    /\ sent = 0
    /\ marker = "none"
    /\ cancelling = FALSE
    /\ exec = "queued"
    /\ client = "get"
    /\ got = <<>>
    /\ stray = FALSE

\* mark_terminal.
MarkTerminal(st) == IF Active THEN st ELSE exec

\* A cancel reaches the producer's task, once there is one to find.
CancelProducer ==
    /\ cancelling' = (producer # "new")
    /\ stray' = (stray \/ producer = "new")

-----------------------------------------------------------------------------
\* submit_and_wait puts the stream in its lane, cancelled or not.
Submit ==
    /\ producer = "new"
    /\ producer' = "queued"
    /\ UNCHANGED <<buffer, sent, marker, cancelling, exec, client, got, stray>>

\* produce() runs its first step; cancelled before it, it never runs: no marker
\* is put.
Start ==
    /\ producer = "queued"
    /\ IF cancelling
       THEN producer' = "ended" /\ UNCHANGED exec
       ELSE producer' = "pulling" /\ exec' = IF exec = "queued" THEN "running" ELSE exec
    /\ cancelling' = FALSE
    /\ UNCHANGED <<buffer, sent, marker, client, got, stray>>

\* Mutant: put_nowait, and an item that finds the buffer full is dropped.
MutPull ==
    /\ producer = "pulling" /\ ~cancelling
    /\ sent < MaxItems
    /\ sent' = sent + 1
    /\ buffer' = IF Full THEN buffer ELSE Append(buffer, Value(sent'))
    /\ UNCHANGED <<producer, marker, cancelling, exec, client, got, stray>>

\* The source yields; put() waits when the buffer is full.
Pull ==
    /\ producer = "pulling" /\ ~cancelling
    /\ sent < MaxItems
    /\ sent' = sent + 1
    /\ IF Full THEN producer' = "blocked" /\ UNCHANGED buffer
       ELSE buffer' = Append(buffer, Value(sent')) /\ UNCHANGED producer
    /\ UNCHANGED <<marker, cancelling, exec, client, got, stray>>

\* A waiting put() finds room.
Unblock ==
    /\ producer = "blocked" /\ ~cancelling
    /\ ~Full
    /\ buffer' = Append(buffer, Value(sent))
    /\ producer' = "pulling"
    /\ UNCHANGED <<sent, marker, cancelling, exec, client, got, stray>>

\* The except and else clauses: mark the handle and choose the marker.
Leave(st, mk) ==
    /\ exec' = MarkTerminal(st)
    /\ marker' = mk
    /\ producer' = "closing"
    /\ UNCHANGED <<buffer, sent, client, got, stray>>

\* The source is exhausted, or raises.
SourceEnds ==
    /\ producer = "pulling" /\ ~cancelling
    /\ \/ Leave("succeeded", "done")
       \/ Leave("failed", "error")
    /\ UNCHANGED cancelling

\* Mutant: the branch for CancelledError sets no terminal item.
MutCancelNoMarker ==
    /\ producer \in {"pulling", "blocked"} /\ cancelling
    /\ Leave("cancelled", "none")
    /\ cancelling' = FALSE

\* Mutant: a cancel does not wake a producer that waits for room.
MutCancelAtPull ==
    /\ producer = "pulling" /\ cancelling
    /\ Leave("cancelled", "error")
    /\ cancelling' = FALSE

\* CancelledError at the pull or at the put.
CancelArrives ==
    /\ producer \in {"pulling", "blocked"} /\ cancelling
    /\ Leave("cancelled", "error")
    /\ cancelling' = FALSE

\* The finally clause: the source's aclose() is over; put the marker, waiting
\* when the buffer is full.
SourceClosed ==
    /\ producer = "closing" /\ ~cancelling
    /\ IF Full THEN producer' = "marking" /\ UNCHANGED buffer
       ELSE producer' = "ended" /\ buffer' = Append(buffer, Marker(marker))
    /\ UNCHANGED <<sent, marker, cancelling, exec, client, got, stray>>

PutMarker ==
    /\ producer = "marking" /\ ~cancelling
    /\ ~Full
    /\ producer' = "ended"
    /\ buffer' = Append(buffer, Marker(marker))
    /\ UNCHANGED <<sent, marker, cancelling, exec, client, got, stray>>

\* A cancel during the finally clause leaves it without the marker.
MarkerLost ==
    /\ producer \in {"closing", "marking"} /\ cancelling
    /\ producer' = "ended"
    /\ cancelling' = FALSE
    /\ UNCHANGED <<buffer, sent, marker, exec, client, got, stray>>

-----------------------------------------------------------------------------
\* The generator takes an item: a value is handed to the client, the done marker
\* ends the loop, an error is raised (its handle is terminal, so the finally
\* clause finds nothing to cancel).
Get ==
    /\ client = "get"
    /\ buffer # <<>>
    /\ buffer' = Tail(buffer)
    /\ \/ /\ Head(buffer).kind = "value"
          /\ got' = Append(got, Head(buffer).n)
          /\ client' = "holds"
       \/ /\ Head(buffer).kind = "done"
          /\ client' = "joins"
          /\ UNCHANGED got
       \/ /\ Head(buffer).kind = "error"
          /\ client' = "closed"
          /\ UNCHANGED got
    /\ UNCHANGED <<producer, sent, marker, cancelling, exec, stray>>

\* The client asks for the next item.
Resume ==
    /\ client = "holds"
    /\ client' = "get"
    /\ UNCHANGED <<buffer, producer, sent, marker, cancelling, exec, got, stray>>

\* await scheduled.
Join ==
    /\ client = "joins" /\ producer = "ended"
    /\ client' = "closed"
    /\ UNCHANGED <<buffer, producer, sent, marker, cancelling, exec, got, stray>>

\* The client closes the generator, or its task is cancelled: the finally clause
\* calls cancel_execution, which finds the handle only while it is active, marks
\* a queued one at once and waits for a running one.
ClientCloses ==
    /\ "client closes" \in Interrupts
    /\ client \in {"get", "holds"}
    /\ IF Active THEN CancelProducer ELSE UNCHANGED <<cancelling, stray>>
    /\ client' = IF exec = "running" THEN "cancels" ELSE "closed"
    /\ exec' = IF exec = "queued" THEN "cancelled" ELSE exec
    /\ UNCHANGED <<buffer, producer, sent, marker, got>>

\* The wait in cancel_execution is over: the producer has ended, or it timed out.
CancelWaited ==
    /\ client = "cancels"
    /\ client' = "closed"
    /\ exec' = IF producer = "ended" THEN MarkTerminal("cancelled") ELSE exec
    /\ UNCHANGED <<buffer, producer, sent, marker, cancelling, got, stray>>

\* cancel_execution by another party, of a stream still queued in its lane, or not
\* even submitted: then the handle is marked and the stream runs all the same.
CancelQueued ==
    /\ "cancel queued" \in Interrupts
    /\ exec = "queued"
    /\ CancelProducer
    /\ exec' = "cancelled"
    /\ UNCHANGED <<buffer, producer, sent, marker, client, got>>

\* cancel_execution by another party, of a running stream.
CancelRunning ==
    /\ "cancel running" \in Interrupts
    /\ exec = "running"
    /\ cancelling' = TRUE
    /\ UNCHANGED <<buffer, producer, sent, marker, exec, client, got, stray>>

\* close_session cancels the lane's processor, which passes it on to the
\* producer wherever it is, and marks a queued handle.
SessionCloses ==
    /\ "session closes" \in Interrupts
    /\ producer # "ended"
    /\ CancelProducer
    /\ exec' = IF producer \in {"new", "queued"} THEN MarkTerminal("cancelled") ELSE exec
    /\ UNCHANGED <<buffer, producer, sent, marker, client, got>>

SourceStep == Pull \/ SourceEnds
ProducerStep == \/ Submit \/ Start \/ Unblock \/ CancelArrives
                \/ SourceClosed \/ PutMarker \/ MarkerLost
GeneratorStep == Get \/ Join \/ CancelWaited

Next ==
    \/ SourceStep
    \/ ProducerStep
    \/ GeneratorStep
    \/ Resume
    \/ ClientCloses
    \/ CancelQueued
    \/ CancelRunning
    \/ SessionCloses

\* The loop runs ready tasks, the lane reaches the stream, and a source that is
\* being closed finishes.  Nothing obliges the source to yield or to end, nor the
\* client to come back for the next item.
Fairness == WF_vars(ProducerStep) /\ WF_vars(GeneratorStep)

Spec == Init /\ [][Next]_vars /\ Fairness

-----------------------------------------------------------------------------
\* Type invariant of one stream.
TypeOK ==
    /\ buffer \in Seq(StreamItems)
    /\ producer \in ProducerStates
    /\ sent \in 0..MaxItems
    /\ marker \in Markers
    /\ cancelling \in BOOLEAN
    /\ exec \in ExecStates
    /\ client \in ClientStates
    /\ got \in Seq(1..MaxItems)
    /\ stray \in BOOLEAN

\* A client that sees the stream complete has received every item of the source,
\* each once and in order, and its handle succeeded, unless it was cancelled before
\* the stream had submitted itself.
CompleteMeansAll ==
    client = "joins" => /\ exec = "succeeded" \/ stray
                        /\ got = [i \in 1..sent |-> i]

\* The marker is the last entry of the buffer and nothing follows it.
MarkerIsLast ==
    \A i \in 1..Len(buffer) : buffer[i].kind # "value" => i = Len(buffer) /\ producer = "ended"

\* What the client takes from the buffer is the source's items and then one end,
\* whatever interrupts either side.
StreamFaithful == CompleteMeansAll /\ MarkerIsLast

\* A running stream that is cancelled reaches a terminal state even if its source
\* hangs and its buffer stays full.
CancelEnds == (exec = "running" /\ cancelling) ~> ~Active
=============================================================================
