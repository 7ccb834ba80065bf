------------------------------ MODULE EventFeed ------------------------------
(***************************************************************************)
(* What a Worker promises whoever reads a conversation over one connection *)
(* (jiuwenswarm/server/worker/dispatcher.py, _subscribe: "Publish replay   *)
(* before later live events"): from the place where the reader begins it   *)
(* is handed every event, once and in order, before any later one.         *)
(***************************************************************************)
EXTENDS Naturals, Sequences

CONSTANTS
    Event,
    Skippable(_)  \* events that may be left out: questions nobody waits for

VARIABLES
    log,    \* the events of the conversation, in the order they happened
    past,   \* the events the reader is not owed: it has them, fetches them from
            \* the history, or lost them with a connection
    given   \* the events it was handed since it began

feedVars == <<log, past, given>>

Elements(s) == {s[i] : i \in DOMAIN s}

FeedInit == log = <<>> /\ past = {} /\ given = {}

\* Everything owed before the i-th event has been handed over.
DueAt(i) == \A j \in 1..(i-1) : log[j] \in past \cup given \/ Skippable(log[j])

\* Something new happens.  It is handed over at once, if it is its turn, or the
\* reader has to ask for it.
Happen(e) ==
    /\ e \notin Elements(log)
    /\ log' = Append(log, e)
    /\ \/ DueAt(Len(log) + 1) /\ given' = given \cup {e} /\ UNCHANGED past
       \/ past' = past \cup {e} /\ UNCHANGED given

\* The i-th event is handed over, later ones not being so yet.
Give(i) ==
    /\ DueAt(i)
    /\ \A j \in DOMAIN log : j >= i => log[j] \notin given
    /\ given' = given \cup {log[i]}
    /\ UNCHANGED <<log, past>>

\* The reader begins, somewhere in the log: of what lies before it is owed nothing,
\* of what lies behind everything.
Begin ==
    /\ past' \subseteq Elements(log)
    /\ \A i \in DOMAIN log : log[i] \in past' => \A j \in 1..i : log[j] \in past'
    /\ given' = {}
    /\ UNCHANGED log

FeedNext ==
    \/ \E e \in Event : Happen(e)
    \/ \E i \in DOMAIN log : Give(i)
    \/ Begin

FeedSpec == FeedInit /\ [][FeedNext]_feedVars
=============================================================================
