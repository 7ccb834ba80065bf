---------------------------- MODULE EventJournal ----------------------------
(***************************************************************************)
(* The way of a conversation's events from a resident Worker to the web    *)
(* client: the bounded journal (WorkerEventStore,                          *)
(* jiuwenswarm/server/worker/event_store.py), live publication and replay  *)
(* under the publication lock (WorkerGatewayBridge, gateway_bridge.py;     *)
(* _subscribe, dispatcher.py), the forwarding queue of the Front           *)
(* (RuntimeSupervisor, supervisor/runtime_supervisor.py) and the cursor of *)
(* the client (RuntimeResume, channels/web/.../runtimeResume.ts).          *)
(*                                                                         *)
(* One conversation is watched; the others share the journal and push its  *)
(* frames out.  The Front, the Gateway and the client's socket lose frames *)
(* but do not reorder them.  The snapshot that answers a query comes back  *)
(* apart from the frames, early, late or never, and changes no cursor, so  *)
(* it is not part of the state.                                            *)
(***************************************************************************)
EXTENDS Naturals, Sequences

CONSTANTS
    MaxFrames,   \* _max_events
    MaxEvents,   \* bound on the events of one Worker
    MaxNet,      \* _FORWARD_QUEUE_SIZE
    SeenMax,     \* how many sequences the client remembers
    Questions,   \* the sequences that are questions to the user
    MaxQueries,  \* bound on the subscriptions of a behaviour
    MaxFaults,   \* bound on the losses and crashes of a behaviour
    MaxLoad,     \* bound on a Worker's events, the subscriptions and the faults together
    None

VARIABLES
    inst,     \* the Worker's instance id
    seq,      \* _sequence
    frames,   \* _frames
    expired,  \* _expired_sequence
    gen,      \* ConnHolder.generation
    ipc,      \* the Worker has a connection to the Front
    subs,     \* the subscriptions on their way to the Worker or before its lock
    replay,   \* the replay that holds the publication lock, or None
    net,      \* _forward_queue: the conversation's frames in the Front
    cursor,   \* RuntimeResume: instance, after and seen
    shown,    \* history: the events the client has shown since its page was loaded
    twice,    \* history: those it has shown again
    log, past, given,  \* history: see EventFeed
    queries, faults    \* history: how many there were

worker == <<inst, seq, frames, expired>>
client == <<cursor, shown, twice>>
feed == <<log, past, given>>
vars == <<worker, gen, ipc, subs, replay, net, client, feed, queries, faults>>

\* An event is named by its Worker's instance and its sequence.
Events == (1..(MaxFaults + 1)) \X (1..MaxEvents)

IsQuestion(e) == e[2] \in Questions

\* A replay under way: its connection, and what is left of it.
Replays == [gen : Nat, left : SUBSET Events]

\* The client remembers more than the frames that can still come again: 4096
\* sequences for a journal of 2048 frames.
ASSUME JournalAssumption ==
    /\ MaxFrames \in Nat /\ MaxEvents \in Nat /\ MaxNet \in Nat /\ SeenMax \in Nat
    /\ SeenMax + 1 >= 2 * MaxFrames
    /\ Questions \subseteq Nat
    /\ MaxQueries \in Nat /\ MaxFaults \in Nat /\ MaxLoad \in Nat
    /\ None \notin Replays

Feed == INSTANCE EventFeed WITH Event <- Events, Skippable <- IsQuestion

NoCursor == [inst |-> 0, after |-> 0, seen |-> <<>>]

Init ==
    /\ inst = 1 /\ seq = 0 /\ frames = <<>> /\ expired = 0
    /\ gen = 1 /\ ipc = TRUE
    /\ subs = <<>> /\ replay = None /\ net = <<>>
    /\ cursor = NoCursor /\ shown = {} /\ twice = {}
    /\ log = <<>> /\ past = {} /\ given = {}
    /\ queries = 0 /\ faults = 0

Room == seq + queries + faults < MaxLoad

Fault == Room /\ faults < MaxFaults /\ faults' = faults + 1

-----------------------------------------------------------------------------
\* The oldest n frames leave; the last of them is the expired sequence.
Evict(all, n) ==
    /\ frames' = SubSeq(all, n + 1, Len(all))
    /\ expired' = IF n = 0 THEN expired ELSE all[n].seq

\* WorkerEventStore.append.  At most MaxFrames frames stay; the bound on their
\* bytes may push out more, even the new one.
JournalAppend(own) ==
    /\ Room /\ seq < MaxEvents
    /\ seq' = seq + 1
    /\ LET all == Append(frames, [seq |-> seq + 1, own |-> own])
       IN  \E n \in 0..Len(all) : Len(all) - n <= MaxFrames /\ Evict(all, n)
    /\ UNCHANGED inst

\* RuntimeSupervisor._handle: a frame that finds the queue full is dropped.
QueueForward(e) == net' = IF Len(net) < MaxNet THEN Append(net, e) ELSE net

\* Mutant: live frames do not wait for the replay.
MutMayPublish == TRUE

\* The publication lock of the conversation is free.
MayPublish == replay = None

\* WorkerGatewayBridge.send of the watched conversation, under its publication
\* lock: append, then write.  Without a connection, or when the publisher is
\* cancelled before its turn to write, the frame stays in the journal only.
Publish ==
    /\ MayPublish
    /\ JournalAppend(TRUE)
    /\ log' = Append(log, <<inst, seq + 1>>)
    /\ \/ /\ ipc /\ QueueForward(<<inst, seq + 1>>)
          /\ given' = given \cup {<<inst, seq + 1>>}
          /\ UNCHANGED <<past, faults>>
       \/ /\ IF ipc THEN Fault ELSE UNCHANGED faults
          /\ past' = past \cup {<<inst, seq + 1>>}
          /\ UNCHANGED <<net, given>>
    /\ UNCHANGED <<gen, ipc, subs, replay, client, queries>>

\* The same for another conversation, which has a lock of its own.
PublishOther ==
    /\ JournalAppend(FALSE)
    /\ UNCHANGED <<gen, ipc, subs, replay, net, client, feed, queries, faults>>

-----------------------------------------------------------------------------
\* RuntimeSupervisor.get_runtime_snapshot: the query goes to the Worker with the
\* generation of the connection; without a connection it is not sent.
Ask(i, n) ==
    /\ ipc /\ Room /\ queries < MaxQueries
    /\ queries' = queries + 1
    /\ subs' = Append(subs, [gen |-> gen, inst |-> i, after |-> n])
    /\ UNCHANGED <<worker, gen, ipc, replay, net, feed, faults>>

\* resumeExecutions: the client's socket is open again, or its last query was not
\* answered in time.  A client without a cursor asks nothing.
Resume ==
    /\ cursor # NoCursor
    /\ Ask(cursor.inst, cursor.after)
    /\ UNCHANGED client

\* session.get_metadata of a conversation that is opened, in a page that may just
\* have been loaded: a query from the beginning.
Load ==
    /\ Ask(inst, 0)
    /\ \/ UNCHANGED client
       \/ cursor' = NoCursor /\ shown' = {} /\ twice' = {}

\* snapshot()'s history_required, and a Worker the client does not know.
HistoryRequired(q) == q.inst # inst \/ q.after < expired

\* The cursor the replay starts from.
After(q) == IF q.inst # inst THEN 0 ELSE q.after

\* WorkerEventStore.replay: the conversation's retained frames after the cursor.
\* Frames lie in the order of their sequences, so the copy is a set of them.
Replayed(q) ==
    {<<inst, frames[i].seq>> : i \in {j \in DOMAIN frames : frames[j].own /\ frames[j].seq > After(q)}}

\* The frame of the copy that is next.
IsNext(e, left) == e \in left /\ \A d \in left : e[2] <= d[2]

\* What the reader says it has (a cursor of this Worker stands for all earlier
\* Workers too), and what the snapshot tells it to fetch from the history.
Claimed(q) ==
    IF q.inst # inst THEN {} ELSE {e \in Feed!Elements(log) : e[1] # inst \/ e[2] <= q.after}
Told(q) ==
    IF HistoryRequired(q) THEN {e \in Feed!Elements(log) : e[1] # inst \/ e[2] <= expired} ELSE {}

\* _subscribe has the publication lock: a subscription of an older connection is
\* dropped; otherwise the snapshot is sent and the replay copied before any
\* other frame of the conversation can be published.
Subscribe ==
    /\ subs # <<>> /\ replay = None
    /\ LET q == Head(subs)
       IN  IF q.gen # gen \/ ~ipc
           THEN UNCHANGED <<replay, past, given>>
           ELSE /\ replay' = [gen |-> gen, left |-> Replayed(q)]
                /\ past' = Claimed(q) \cup Told(q)
                /\ given' = {}
    /\ subs' = Tail(subs)
    /\ UNCHANGED <<worker, gen, ipc, net, client, log, queries, faults>>

\* Mutant: a replay whose connection is gone keeps the publication lock.
MutReplayEnds(r) == r.left = {}

\* The replay is over: all frames sent, or the connection replaced.
ReplayEnds(r) == r.left = {} \/ r.gen # gen \/ ~ipc

EndReplay ==
    /\ replay # None /\ ReplayEnds(replay)
    /\ replay' = None
    /\ UNCHANGED <<worker, gen, ipc, subs, net, client, feed, queries, faults>>

\* WorkerGatewayBridge.replay: the next frame.  The recovery filter leaves out
\* questions nobody waits for any more.
ReplayFrame ==
    /\ replay # None /\ ~(replay.gen # gen \/ ~ipc)
    /\ \E e \in replay.left :
          /\ IsNext(e, replay.left)
          /\ replay' = [replay EXCEPT !.left = @ \ {e}]
          /\ \/ QueueForward(e) /\ given' = given \cup {e}
             \/ IsQuestion(e) /\ UNCHANGED <<net, given>>
    /\ UNCHANGED <<worker, gen, ipc, subs, client, log, past, queries, faults>>

-----------------------------------------------------------------------------
\* The cursor for the instance of event e, and whether the event is new to it.
CursorFor(e) == IF cursor.inst = e[1] THEN cursor ELSE [NoCursor EXCEPT !.inst = e[1]]
Fresh(c, e) == \A i \in DOMAIN c.seen : c.seen[i] # e[2]


\* The sequence is remembered; the one remembered longest goes when there are
\* too many.
Remember(s, n) == IF Len(s) >= SeenMax THEN Tail(Append(s, n)) ELSE Append(s, n)

\* RuntimeResume.observe.
Observe(e) ==
    LET c == CursorFor(e)
    IN  IF Fresh(c, e)
        THEN /\ cursor' = [inst |-> e[1], seen |-> Remember(c.seen, e[2]),
                           after |-> IF e[2] > c.after THEN e[2] ELSE c.after]
             /\ shown' = shown \cup {e}
             /\ twice' = twice \cup ({e} \cap shown)
        ELSE cursor' = c /\ UNCHANGED <<shown, twice>>

\* RuntimeSupervisor._forward_messages: the oldest frame reaches the client, or is
\* lost in a timeout, a failure or a route that is gone, or with the client's socket.
Forward ==
    /\ net # <<>>
    /\ net' = Tail(net)
    /\ Observe(Head(net)) \/ UNCHANGED client
    /\ UNCHANGED <<worker, gen, ipc, subs, replay, feed, queries, faults>>

-----------------------------------------------------------------------------
\* The reader is owed nothing of what happened so far until it asks.
Detached == past' = Feed!Elements(log) /\ given' = {}

\* The IPC connection is lost: ConnHolder.close_session.  The client's socket
\* stays open; what the Front has received may still be forwarded.
LoseIpc ==
    /\ ipc /\ Fault
    /\ ipc' = FALSE
    /\ Detached
    /\ UNCHANGED <<worker, gen, subs, replay, net, client, log, queries>>

\* The supervisor connects again: open_session.  The old queue has been drained.
OpenIpc ==
    /\ ~ipc
    /\ ipc' = TRUE /\ gen' = gen + 1
    /\ net' = <<>>
    /\ UNCHANGED <<worker, subs, replay, client, feed, queries, faults>>

\* A Worker starts with an instance id of its own and an empty journal.
NewWorker ==
    /\ inst' = inst + 1 /\ seq' = 0
    /\ frames' = <<>> /\ expired' = 0

\* The Worker dies, its journal with it, and another one takes its place.
Crash ==
    /\ Fault
    /\ NewWorker
    /\ ipc' = FALSE /\ subs' = <<>> /\ replay' = None
    /\ Detached
    /\ UNCHANGED <<gen, net, client, log, queries>>

SystemStep == Subscribe \/ EndReplay \/ ReplayFrame

Next == \/ SystemStep \/ Publish \/ PublishOther \/ Resume \/ Load \/ Forward
        \/ LoseIpc \/ OpenIpc \/ Crash

\* A task of the Worker that is ready runs, and a write on a connection ends or
\* fails.  Nothing is assumed of publishers, the Front and the client.
Fairness == WF_vars(SystemStep)

Safety == Init /\ [][Next]_vars
Spec == Safety /\ Fairness

-----------------------------------------------------------------------------
\* Type invariant.
TypeOK ==
    /\ inst \in 1..(faults + 1) /\ seq \in 0..MaxEvents /\ expired \in 0..seq
    /\ frames \in Seq([seq : 1..seq, own : BOOLEAN]) /\ Len(frames) <= MaxFrames
    /\ gen \in Nat /\ ipc \in BOOLEAN
    /\ subs \in Seq([gen : Nat, inst : Nat, after : Nat])
    /\ replay = None \/ replay \in Replays
    /\ net \in Seq(Events) /\ Len(net) <= MaxNet
    /\ cursor \in [inst : Nat, after : Nat, seen : Seq(Nat)]
    /\ shown \subseteq Events /\ twice \subseteq Events
    /\ log \in Seq(Events) /\ past \subseteq Events /\ given \subseteq Events
    /\ queries \in 0..MaxQueries /\ faults \in 0..MaxFaults

\* "Publish replay before later live events" (dispatcher.py:602): on every
\* connection, from the cursor of the last subscription that was answered, the
\* Worker writes every event the snapshot did not send to the history, once and in
\* order, whatever other conversations evict meanwhile, however often the client
\* asks again, and whichever connection, replay or Worker is lost in between.
ImplementsFeed == Feed!FeedSpec


\* Every subscription is answered or dropped and every replay gives the publication
\* lock back (dispatcher.py:605, gateway_bridge.py:151), whatever happens to the
\* connections: no live event is held back for good.
LockComesFree == []<>(subs = <<>> /\ replay = None)
=============================================================================
