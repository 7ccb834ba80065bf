----------------------- MODULE SessionCoordinatorProofs -----------------------
(***************************************************************************)
(* Proofs about SessionCoordinator, for any sets of Sessions and           *)
(* executions of every kind, any number of generations, and any set of     *)
(* operations that outlast the cancel timeout.                             *)
(*                                                                         *)
(* Nothing is assumed about how Sessions are used: they may mix chats,     *)
(* streams, messages and direct work in any way.                           *)
(***************************************************************************)
EXTENDS SessionCoordinator, SessionWorkSchedulerProofs

\* Generations start at 1 and only grow: a record that exists, a close that
\* waits and the home of an execution all have one.
GenerationsSound ==
    /\ \A s \in Sessions : state[s] # "none" \/ closer[s].ph # "idle" => gen[s] >= 1
    /\ \A e \in Execs : home[e].sess \in Sessions =>
          1 <= home[e].gen /\ home[e].gen <= gen[home[e].sess]
    /\ \A e \in Execs : owner[e] = "start" => home[e].sess \in Sessions

\* With the scheduler's invariant, the inductive invariant.
CoordInv == HandleTypes /\ GenerationsSound

\* The coordinator starts with no record, no handle and no close.
LEMMA CoordInitInv == SchedulerAssumption /\ Init => CoordInv
<1> SUFFICES ASSUME SchedulerAssumption, Init PROVE CoordInv
  OBVIOUS
<1>1. [sess |-> None, gen |-> 0] \in Scopes /\ 0 \in Gens
  BY DEF Scopes, Gens, SchedulerAssumption
<1>2. NoClose \in Closes
  BY <1>1 DEF NoClose, Closes, ClosePhases
<1>3. HandleTypes
  BY <1>1, <1>2 DEF Init, HandleTypes, RecordStates, ExecStates, OwnerStates, CancelPhases
<1>4. GenerationsSound
  BY DEF Init, GenerationsSound, SchedulerAssumption, NoClose
<1> QED BY <1>3, <1>4 DEF CoordInv

-----------------------------------------------------------------------------
\* submit_and_wait, as the coordinator calls it, is a step of the lanes.
LEMMA SubmitRefines ==
    ASSUME NEW e \in Execs, NEW s \in Sessions, NEW g \in 1..MaxGen, Submit(e, s, g)
    PROVE  SchedNext
BY DEF Submit, SchedNext

\* The detach step of close_session is CloseLane or leaves the lanes alone.
LEMMA DetachRefines ==
    ASSUME SchedInv, NEW s \in Sessions, NEW g, NEW st, NEW active, NEW requested, NEW late,
           CloseDetach(s, g, st, active, requested, late)
    PROVE  SchedNext \/ UNCHANGED schedVars
<1>1. CASE lanes[s] # None /\ scope[lanes[s]].gen = g
  <2>1. CloseLane(s, g)
    BY <1>1 DEF CloseDetach
  <2>2. g \in 1..MaxGen
    BY <1>1 DEF SchedInv, LanesSound
  <2> QED BY <2>1, <2>2 DEF SchedNext
<1>2. CASE ~(lanes[s] # None /\ scope[lanes[s]].gen = g)
  BY <1>2 DEF CloseDetach
<1> QED BY <1>1, <1>2

\* task.cancel() on handle tasks is CancelTasks to the lanes.
LEMMA CancelRefines ==
    ASSUME NEW D \in SUBSET Execs, CancelHandleTasks(D)
    PROVE  SchedNext
BY DEF CancelHandleTasks, SchedNext

\* Every step of the coordinator is a step of the scheduler's specification, or
\* leaves the lanes alone.
LEMMA NextRefines ==
    ASSUME SchedulerAssumption, CoordinatorAssumption, SchedInv, CoordInv, [Next]_vars
    PROVE  SchedNext \/ UNCHANGED schedVars
<1> DEFINE Goal == SchedNext \/ UNCHANGED schedVars
<1>0. HandleTypes /\ GenerationsSound
  BY DEF CoordInv
<1>1. ASSUME NEW e \in Execs, NEW s \in Sessions, RunUnary(e, s)
      PROVE  Goal
  <2>1. gen[s] \in 1..MaxGen
    BY <1>0, <1>1 DEF RunUnary, NewExecution, OpenSession, GenerationsSound, HandleTypes, Gens, SchedulerAssumption
  <2> QED BY <1>1, <2>1, SubmitRefines DEF RunUnary
<1>2. ASSUME NEW e \in Execs, NEW s \in Sessions, SubmitLater(e, s) \/ RunDirect(e, s)
      PROVE  Goal
  BY <1>2 DEF SubmitLater, RunDirect
<1>3. ASSUME NEW e \in Execs, AbandonRequest(e)
      PROVE  Goal
  BY <1>3 DEF AbandonRequest, SchedNext
<1>4. ASSUME NEW e \in Execs, NEW late, RequestDirectCancel(e, late)
      PROVE  Goal
  BY <1>4, CancelRefines DEF RequestDirectCancel
<1>5. ASSUME NEW e \in Execs, NEW st, CancelHandle(e, exec[e] = st)
      PROVE  Goal
  BY <1>5 DEF SchedNext
<1>6. ASSUME NEW e \in Execs, CancelExecution(e)
      PROVE  Goal
  BY <1>4, <1>5, <1>6 DEF CancelExecution
<1>7. ASSUME NEW e \in Execs, Processor(e)
      PROVE  Goal
  BY <1>7 DEF Processor, SchedNext
<1>8. ASSUME NEW e \in Execs, OwnerStarts(e)
      PROVE  Goal
  <2>1. owner[e] = "start" => home[e].sess \in Sessions /\ home[e].gen \in 1..MaxGen
    <3> SUFFICES ASSUME owner[e] = "start"
                 PROVE  home[e].sess \in Sessions /\ home[e].gen \in 1..MaxGen
      OBVIOUS
    <3>1. home[e].sess \in Sessions
      BY <1>0 DEF GenerationsSound
    <3>2. gen[home[e].sess] \in 0..MaxGen /\ home[e].gen \in 0..MaxGen
      BY <1>0, <3>1 DEF HandleTypes, Gens, Scopes
    <3> QED BY <1>0, <3>1, <3>2 DEF GenerationsSound, SchedulerAssumption
  <2> QED BY <1>8, <2>1, SubmitRefines DEF OwnerStarts
<1>9. ASSUME NEW e \in Execs, \/ StartOp(e) \/ StreamRefreshes(e)
                                \/ \E how \in Ends : \/ EndOp(e, how) \/ EndDirect(e, how)
                                                     \/ StreamMarks(e, how) \/ StreamEnds(e, how)
      PROVE  Goal
  BY <1>9 DEF StartOp, EndOp, EndDirect, StreamMarks, StreamRefreshes, StreamEnds, SchedNext
<1>10. ASSUME NEW e \in Execs, OwnerReturns(e)
       PROVE  Goal
  BY <1>5, <1>10 DEF OwnerReturns
<1>11. ASSUME NEW e \in Execs, OwnerReaps(e) \/ CancelTaskWaited(e)
       PROVE  Goal
  BY <1>11 DEF OwnerReaps, CancelTaskWaited
<1>12. ASSUME NEW e \in Execs, CancelLaneWaited(e)
       PROVE  Goal
  BY <1>4, <1>12 DEF CancelLaneWaited
<1>13. ASSUME NEW s \in Sessions, RegisterSession(s) \/ QuiesceSession(s) \/ CloseWaited(s)
       PROVE  Goal
  BY <1>13 DEF RegisterSession, QuiesceSession, CloseWaited
<1>14. ASSUME NEW s \in Sessions, CloseBegin(s)
       PROVE  Goal
  <2>1. \A D \in SUBSET Execs : CancelHandleTasks(D) => Goal
    BY CancelRefines
  <2> QED BY <1>14, <2>1, DetachRefines DEF CloseBegin
<1>15. ASSUME NEW s \in Sessions, CloseDirectWaited(s)
       PROVE  Goal
  BY <1>15, DetachRefines DEF CloseDirectWaited
<1>16. ASSUME NEW s \in Sessions, ShutdownLane(s)
       PROVE  Goal
  <2>1. scope[lanes[s]].gen \in 1..MaxGen
    BY <1>16 DEF ShutdownLane, SchedInv, LanesSound
  <2> QED BY <1>16, <2>1 DEF ShutdownLane, SchedNext
<1>17. ASSUME BeginShutdown \/ ShutdownScheduler
       PROVE  Goal
  BY <1>17 DEF BeginShutdown, ShutdownScheduler, SchedNext
<1>18. ASSUME UNCHANGED vars
       PROVE  Goal
  BY <1>18 DEF vars, schedVars
<1>19. Goal
  <2> HIDE DEF Goal
  <2>1. ASSUME NEW e \in Execs, Request(e)
        PROVE  Goal
    BY <2>1, <1>1, <1>2, <1>3, <1>6 DEF Request
  <2>2. ASSUME NEW e \in Execs, TaskStep(e)
        PROVE  Goal
    BY <2>2, <1>7, <1>8, <1>9, <1>10, <1>11, <1>12 DEF TaskStep
  <2>3. ASSUME NEW s \in Sessions, SessionStep(s)
        PROVE  Goal
    BY <2>3, <1>13, <1>14, <1>15, <1>16 DEF SessionStep
  <2> QED BY <2>1, <2>2, <2>3, <1>17, <1>18 DEF Next
<1> QED BY <1>19

-----------------------------------------------------------------------------
\* mark_terminal and _refresh_session_state yield states, and the latter makes
\* no record where there was none.
LEMMA MarkTypes ==
    ASSUME HandleTypes, NEW e \in Execs, NEW st \in ExecStates
    PROVE  MarkTerminal(e, st) \in [Execs -> ExecStates]
BY DEF HandleTypes, MarkTerminal

\* _refresh_session_state of the record in _sessions.
LEMMA RefreshTypes ==
    ASSUME CoordInv, NEW e \in Execs, NEW h
    PROVE  LET st == [state EXCEPT ![home[e].sess] = Refreshed(home[e].sess, h)]
           IN  /\ st \in [Sessions -> RecordStates]
               /\ \A s \in Sessions : st[s] # "none" => gen[s] >= 1
<1>1. HandleTypes /\ GenerationsSound
  BY DEF CoordInv
<1>2. \A s \in Sessions : Refreshed(s, h) \in RecordStates
  BY <1>1 DEF Refreshed, RecordStates, HandleTypes
<1>3. home[e].sess \in Sessions => gen[home[e].sess] >= 1
  <2> SUFFICES ASSUME home[e].sess \in Sessions PROVE gen[home[e].sess] >= 1
    OBVIOUS
  <2>1. gen[home[e].sess] \in Int /\ home[e].gen \in Int
    BY <1>1 DEF HandleTypes, Gens, Scopes
  <2> QED BY <1>1, <2>1 DEF GenerationsSound
<1>4. CASE home[e].sess \in Sessions
  BY <1>1, <1>2, <1>3, <1>4 DEF HandleTypes, GenerationsSound
<1>5. CASE home[e].sess \notin Sessions
  <2>1. [state EXCEPT ![home[e].sess] = Refreshed(home[e].sess, h)] = state
    BY <1>1, <1>5 DEF HandleTypes
  <2> QED BY <1>1, <2>1 DEF HandleTypes, GenerationsSound
<1> QED BY <1>4, <1>5

\* _refresh_session_state of the record an execution belongs to.
LEMMA RefreshOwnTypes ==
    ASSUME CoordInv, NEW e \in Execs, NEW h
    PROVE  /\ RefreshOwn(e, h) \in [Sessions -> RecordStates]
           /\ \A s \in Sessions : RefreshOwn(e, h)[s] # "none" => gen[s] >= 1
<1>1. CASE RecordCurrent(e)
  BY <1>1, RefreshTypes DEF RefreshOwn
<1>2. CASE ~RecordCurrent(e)
  BY <1>2 DEF RefreshOwn, CoordInv, HandleTypes, GenerationsSound
<1> QED BY <1>1, <1>2

\* A step that leaves the generations and homes alone keeps the invariant if it
\* keeps the types and makes no record and no close out of nothing.
LEMMA KeepsInv ==
    ASSUME CoordInv,
           gen' = gen, home' = home, accepting' \in BOOLEAN,
           state' \in [Sessions -> RecordStates],
           \A s \in Sessions : state'[s] # "none" => gen[s] >= 1,
           exec' \in [Execs -> ExecStates],
           cancelReq' \in [Execs -> BOOLEAN],
           owner' \in [Execs -> OwnerStates],
           \A e \in Execs : owner'[e] = "start" => owner[e] = "start",
           ownerCancel' \in [Execs -> BOOLEAN],
           canceller' \in [Execs -> CancelPhases],
           closer' \in [Sessions -> Closes],
           \A s \in Sessions : closer'[s].ph # "idle" => gen[s] >= 1
    PROVE  CoordInv'
<1>1. HandleTypes'
  BY DEF CoordInv, HandleTypes
<1>2. GenerationsSound'
  BY DEF CoordInv, GenerationsSound
<1> QED BY <1>1, <1>2 DEF CoordInv

\* The same for the steps that change neither records nor closes.
LEMMA KeepsInvQuiet ==
    ASSUME CoordInv,
           gen' = gen, home' = home, accepting' \in BOOLEAN, state' = state,
           exec' \in [Execs -> ExecStates],
           cancelReq' \in [Execs -> BOOLEAN],
           owner' \in [Execs -> OwnerStates],
           \A e \in Execs : owner'[e] = "start" => owner[e] = "start",
           ownerCancel' \in [Execs -> BOOLEAN],
           canceller' \in [Execs -> CancelPhases],
           closer' = closer
    PROVE  CoordInv'
BY KeepsInv DEF CoordInv, HandleTypes, GenerationsSound

\* The admission of an execution keeps the invariant.
LEMMA AdmitInv ==
    ASSUME SchedulerAssumption, CoordInv, NEW e \in Execs, NEW s \in Sessions,
           NEW st \in ExecStates, NewExecution(e, s, st), owner' \in [Execs -> OwnerStates],
           \A f \in Execs : f # e => owner'[f] = owner[f]
    PROVE  CoordInv'
<1>1. HandleTypes /\ GenerationsSound
  BY DEF CoordInv
<1>2. /\ exec' = [exec EXCEPT ![e] = st]
      /\ home' = [home EXCEPT ![e] = [sess |-> s, gen |-> gen[s]]]
      /\ state' = [state EXCEPT ![s] = "ACTIVE"]
      /\ UNCHANGED <<gen, accepting, cancelReq, ownerCancel, canceller, closer>>
      /\ gen[s] >= 1 /\ gen[s] \in Gens
  BY <1>1 DEF NewExecution, Home, OpenSession, HandleTypes, GenerationsSound
<1>3. [sess |-> s, gen |-> gen[s]] \in Scopes
  BY <1>2 DEF Scopes
<1>4. HandleTypes'
  BY <1>1, <1>2, <1>3 DEF HandleTypes, RecordStates
<1>5. GenerationsSound'
  <2>1. \A r \in Sessions : state'[r] # "none" \/ closer'[r].ph # "idle" => gen'[r] >= 1
    BY <1>1, <1>2 DEF HandleTypes, GenerationsSound
  <2>2. home'[e].sess = s /\ home'[e].gen = gen[s] /\ \A f \in Execs : f # e => home'[f] = home[f]
    BY <1>1, <1>2 DEF HandleTypes
  <2>3. \A f \in Execs : home'[f].sess \in Sessions =>
           1 <= home'[f].gen /\ home'[f].gen <= gen'[home'[f].sess]
    <3>1. 1 <= gen[s] /\ gen[s] <= gen[s]
      BY <1>2 DEF Gens
    <3> QED BY <1>1, <1>2, <2>2, <3>1 DEF GenerationsSound
  <2>4. \A f \in Execs : owner'[f] = "start" => home'[f].sess \in Sessions
    BY <1>1, <2>2 DEF GenerationsSound
  <2> QED BY <2>1, <2>3, <2>4 DEF GenerationsSound
<1> QED BY <1>4, <1>5 DEF CoordInv

\* The parts of close_session keep the invariant.
LEMMA FinishInv ==
    ASSUME SchedulerAssumption, CoordInv, NEW s \in Sessions, gen[s] >= 1,
           NEW g, NEW st \in RecordStates, NEW late, CloseFinish(s, g, st, late),
           UNCHANGED <<gen, accepting, home, owner, ownerCancel, canceller>>
    PROVE  CoordInv'
<1>1. HandleTypes /\ GenerationsSound
  BY DEF CoordInv
<1>2. NoClose \in Closes /\ NoClose.ph = "idle"
  BY DEF NoClose, Closes, ClosePhases, Gens, SchedulerAssumption
<1>3. exec' \in [Execs -> ExecStates]
  BY <1>1 DEF CloseFinish, HandleTypes, ExecStates
<1>4. cancelReq' \in [Execs -> BOOLEAN]
  BY <1>1 DEF CloseFinish, HandleTypes
<1>5. /\ state' \in [Sessions -> RecordStates]
      /\ \A r \in Sessions : state'[r] # "none" => gen[r] >= 1
  BY <1>1 DEF CloseFinish, HandleTypes, GenerationsSound, RecordStates
<1>6. /\ closer' \in [Sessions -> Closes]
      /\ \A r \in Sessions : closer'[r].ph # "idle" => gen[r] >= 1
  BY <1>1, <1>2 DEF CloseFinish, HandleTypes, GenerationsSound
<1>7. /\ owner' \in [Execs -> OwnerStates] /\ owner' = owner
      /\ ownerCancel' \in [Execs -> BOOLEAN]
      /\ canceller' \in [Execs -> CancelPhases]
      /\ accepting' \in BOOLEAN
  BY <1>1 DEF HandleTypes
<1> QED BY <1>3, <1>4, <1>5, <1>6, <1>7, KeepsInv

\* close_session after its direct work: closing the lane or settling.
LEMMA DetachInv ==
    ASSUME SchedulerAssumption, SchedTypeOK, CoordInv, NEW s \in Sessions, gen[s] >= 1,
           NEW g \in Gens, NEW st \in RecordStates, NEW active \in SUBSET Execs,
           NEW requested, NEW late \in SUBSET Execs,
           CloseDetach(s, g, st, active, requested, late),
           UNCHANGED <<gen, accepting, home, owner, ownerCancel, canceller>>
    PROVE  CoordInv'
<1>1. HandleTypes /\ GenerationsSound
  BY DEF CoordInv
<1>2. ASSUME NEW ph \in ClosePhases, NEW l \in Execs \cup {None}, NEW wait \in SUBSET Execs,
             closer' = [closer EXCEPT ![s] =
                [ph |-> ph, gen |-> g, active |-> active, lane |-> l,
                 wait |-> wait, late |-> late]],
             state' = [state EXCEPT ![s] = st],
             cancelReq' = [e \in Execs |-> cancelReq[e] \/ e \in requested],
             UNCHANGED exec
      PROVE  CoordInv'
  <2>1. [ph |-> ph, gen |-> g, active |-> active, lane |-> l, wait |-> wait, late |-> late] \in Closes
    BY DEF Closes
  <2>2. /\ closer' \in [Sessions -> Closes]
        /\ \A r \in Sessions : closer'[r].ph # "idle" => gen[r] >= 1
    BY <1>1, <1>2, <2>1 DEF HandleTypes, GenerationsSound
  <2>3. /\ state' \in [Sessions -> RecordStates]
        /\ \A r \in Sessions : state'[r] # "none" => gen[r] >= 1
    BY <1>1, <1>2 DEF HandleTypes, GenerationsSound
  <2>4. cancelReq' \in [Execs -> BOOLEAN]
    BY <1>1, <1>2 DEF HandleTypes
  <2>5. /\ owner' \in [Execs -> OwnerStates] /\ owner' = owner
        /\ ownerCancel' \in [Execs -> BOOLEAN]
        /\ canceller' \in [Execs -> CancelPhases]
        /\ accepting' \in BOOLEAN
        /\ exec' \in [Execs -> ExecStates]
    BY <1>1, <1>2 DEF HandleTypes
  <2> QED BY <2>2, <2>3, <2>4, <2>5, KeepsInv
<1> DEFINE left == {e \in active \cap Scheduled : HandleTaskLive(e)}
<1>3. CASE lanes[s] # None /\ scope[lanes[s]].gen = g
  <2>1. lanes[s] \in Execs /\ {current[lanes[s]]} \ {None} \in SUBSET Execs
    BY <1>3 DEF SchedTypeOK
  <2>2. /\ closer' = [closer EXCEPT ![s] =
              [ph |-> "lane", gen |-> g, active |-> active, lane |-> lanes[s],
               wait |-> {current[lanes[s]]} \ {None}, late |-> late]]
        /\ state' = [state EXCEPT ![s] = st]
        /\ cancelReq' = [e \in Execs |-> cancelReq[e] \/ e \in requested]
        /\ UNCHANGED exec
    BY <1>3 DEF CloseDetach
  <2> QED BY <1>2, <2>1, <2>2 DEF ClosePhases
<1>4. CASE ~(lanes[s] # None /\ scope[lanes[s]].gen = g) /\ left = {}
  <2>1. CloseFinish(s, g, st, late)
    BY <1>4 DEF CloseDetach
  <2> QED BY <2>1, FinishInv
<1>5. CASE ~(lanes[s] # None /\ scope[lanes[s]].gen = g) /\ left # {}
  <2>1. left \in SUBSET Execs
    OBVIOUS
  <2>2. /\ closer' = [closer EXCEPT ![s] =
              [ph |-> "settle", gen |-> g, active |-> active, lane |-> None,
               wait |-> left, late |-> late]]
        /\ state' = [state EXCEPT ![s] = st]
        /\ cancelReq' = [e \in Execs |-> cancelReq[e] \/ e \in requested]
        /\ UNCHANGED exec
    BY <1>5 DEF CloseDetach
  <2> QED BY <1>2, <2>1, <2>2 DEF ClosePhases
<1> QED BY <1>3, <1>4, <1>5

\* The end of cancel_execution, and its direct part, keep the types.
LEMMA CancelDoneTypes ==
    ASSUME CoordInv, NEW e \in Execs, NEW late, CancelDone(e, late)
    PROVE  /\ exec' \in [Execs -> ExecStates]
           /\ state' \in [Sessions -> RecordStates]
           /\ \A s \in Sessions : state'[s] # "none" => gen[s] >= 1
           /\ canceller' \in [Execs -> CancelPhases]
<1>1. HandleTypes
  BY DEF CoordInv
<1>2. exec' \in [Execs -> ExecStates]
  BY <1>1, MarkTypes DEF CancelDone, HandleTypes, ExecStates
<1>3. /\ state' \in [Sessions -> RecordStates]
      /\ \A s \in Sessions : state'[s] # "none" => gen[s] >= 1
  BY RefreshTypes DEF CancelDone
<1>4. canceller' \in [Execs -> CancelPhases]
  BY <1>1 DEF CancelDone, HandleTypes, CancelPhases
<1> QED BY <1>2, <1>3, <1>4

\* _request_direct_cancel, as cancel_execution calls it.
LEMMA DirectCancelInv ==
    ASSUME CoordInv, NEW e \in Execs, NEW late, RequestDirectCancel(e, late),
           UNCHANGED <<gen, accepting, home, owner, closer>>
    PROVE  CoordInv'
<1>1. HandleTypes /\ GenerationsSound
  BY DEF CoordInv
<1>2. ownerCancel' \in [Execs -> BOOLEAN]
  BY <1>1 DEF RequestDirectCancel, CancelHandleTasks, HandleTypes
<1>3. cancelReq' \in [Execs -> BOOLEAN]
  BY <1>1 DEF RequestDirectCancel, HandleTypes
<1>4. /\ exec' \in [Execs -> ExecStates]
      /\ state' \in [Sessions -> RecordStates]
      /\ \A s \in Sessions : state'[s] # "none" => gen[s] >= 1
      /\ canceller' \in [Execs -> CancelPhases]
  <2>1. CASE HandleTaskLive(e)
    BY <1>1, <2>1 DEF RequestDirectCancel, HandleTypes, GenerationsSound, CancelPhases
  <2>2. CASE ~HandleTaskLive(e)
    BY <2>2, CancelDoneTypes DEF RequestDirectCancel
  <2> QED BY <2>1, <2>2
<1>5. /\ owner' \in [Execs -> OwnerStates] /\ owner' = owner
      /\ accepting' \in BOOLEAN
      /\ closer' \in [Sessions -> Closes]
      /\ \A s \in Sessions : closer'[s].ph # "idle" => gen[s] >= 1
  BY <1>1 DEF HandleTypes, GenerationsSound
<1> QED BY <1>2, <1>3, <1>4, <1>5, KeepsInv

-----------------------------------------------------------------------------
\* Every step of the coordinator keeps its invariant.
LEMMA CoordNextInv ==
    ASSUME SchedulerAssumption, SchedInv, CoordInv, [Next]_vars
    PROVE  CoordInv'
<1> DEFINE Goal == CoordInv'
<1>0. HandleTypes /\ GenerationsSound /\ SchedTypeOK
  BY DEF CoordInv, SchedInv
<1>1. ASSUME NEW s \in Sessions, RegisterSession(s)
      PROVE  Goal
  <2>1. /\ gen' = [gen EXCEPT ![s] = @ + 1]
        /\ state' = [state EXCEPT ![s] = "READY"]
        /\ gen[s] < MaxGen
        /\ UNCHANGED <<accepting, home, exec, cancelReq, owner, ownerCancel, canceller, closer>>
    BY <1>1 DEF RegisterSession
  <2>2. gen[s] + 1 \in Gens /\ gen[s] \in Nat
    BY <1>0, <2>1 DEF HandleTypes, Gens, SchedulerAssumption
  <2>3. HandleTypes'
    BY <1>0, <2>1, <2>2 DEF HandleTypes, RecordStates
  <2>4. \A r \in Sessions : gen'[r] \in Int /\ gen[r] \in Int /\ gen[r] <= gen'[r]
    BY <1>0, <2>1, <2>2 DEF HandleTypes, Gens
  <2>5. \A r \in Sessions : state'[r] # "none" \/ closer'[r].ph # "idle" => gen'[r] >= 1
    BY <1>0, <2>1, <2>2, <2>4 DEF HandleTypes, GenerationsSound
  <2>6. \A e \in Execs : home'[e].sess \in Sessions =>
           1 <= home'[e].gen /\ home'[e].gen <= gen'[home'[e].sess]
    <3> SUFFICES ASSUME NEW e \in Execs, home[e].sess \in Sessions
                 PROVE  1 <= home[e].gen /\ home[e].gen <= gen'[home[e].sess]
      BY <2>1
    <3>1. home[e].gen \in Int
      BY <1>0 DEF HandleTypes, Scopes, Gens
    <3>2. 1 <= home[e].gen /\ home[e].gen <= gen[home[e].sess]
      BY <1>0 DEF GenerationsSound
    <3> QED BY <2>4, <3>1, <3>2
  <2>7. \A e \in Execs : owner'[e] = "start" => home'[e].sess \in Sessions
    BY <1>0, <2>1 DEF GenerationsSound
  <2> QED BY <2>3, <2>5, <2>6, <2>7 DEF CoordInv, GenerationsSound
<1>2. ASSUME NEW e \in Execs, NEW s \in Sessions, RunUnary(e, s)
      PROVE  Goal
  <2>1. /\ owner' \in [Execs -> OwnerStates]
        /\ \A f \in Execs : f # e => owner'[f] = owner[f]
    BY <1>0, <1>2 DEF RunUnary, Submit, HandleTypes, OwnerStates
  <2>2. NewExecution(e, s, "queued") /\ "queued" \in ExecStates
    BY <1>2 DEF RunUnary, ExecStates
  <2> QED BY <2>1, <2>2, AdmitInv
<1>3. ASSUME NEW e \in Execs, NEW s \in Sessions, SubmitLater(e, s) \/ RunDirect(e, s)
      PROVE  Goal
  <2>1. /\ owner' \in [Execs -> OwnerStates]
        /\ \A f \in Execs : f # e => owner'[f] = owner[f]
    BY <1>0, <1>3 DEF SubmitLater, RunDirect, HandleTypes, OwnerStates
  <2>2. \E st \in ExecStates : NewExecution(e, s, st)
    BY <1>3 DEF SubmitLater, RunDirect, ExecStates
  <2> QED BY <2>1, <2>2, AdmitInv
<1>4. ASSUME UNCHANGED coordVars
      PROVE  Goal
  BY <1>0, <1>4 DEF coordVars, CoordInv, HandleTypes, GenerationsSound
<1>5. ASSUME NEW e \in Execs, OwnerStarts(e)
      PROVE  Goal
  <2>1. /\ owner' \in [Execs -> OwnerStates]
        /\ \A f \in Execs : owner'[f] = "start" => owner[f] = "start"
    BY <1>0, <1>5 DEF OwnerStarts, Submit, HandleTypes, OwnerStates
  <2>2. UNCHANGED <<gen, state, accepting, home, exec, cancelReq, ownerCancel, canceller, closer>>
    BY <1>5 DEF OwnerStarts
  <2> QED BY <1>0, <2>1, <2>2, KeepsInvQuiet DEF HandleTypes
<1>6. ASSUME NEW e \in Execs, StartOp(e)
      PROVE  Goal
  <2>1. UNCHANGED <<gen, accepting, home, cancelReq, owner, ownerCancel, canceller, closer>>
    BY <1>6 DEF StartOp
  <2>2. exec' \in [Execs -> ExecStates]
    BY <1>0, <1>6 DEF StartOp, HandleTypes, ExecStates
  <2>3. home[e].sess \in Sessions => gen[home[e].sess] >= 1
    <3> SUFFICES ASSUME home[e].sess \in Sessions PROVE gen[home[e].sess] >= 1
      OBVIOUS
    <3>1. gen[home[e].sess] \in Int /\ home[e].gen \in Int
      BY <1>0 DEF HandleTypes, Gens, Scopes
    <3> QED BY <1>0, <3>1 DEF GenerationsSound
  <2>4. state' = state \/ state' = [state EXCEPT ![home[e].sess] = "ACTIVE"]
    BY <1>6 DEF StartOp
  <2>5. /\ state' \in [Sessions -> RecordStates]
        /\ \A s \in Sessions : state'[s] # "none" => gen[s] >= 1
    BY <1>0, <2>3, <2>4 DEF HandleTypes, GenerationsSound, RecordStates
  <2>6. \A s \in Sessions : closer'[s].ph # "idle" => gen[s] >= 1
    BY <1>0, <2>1 DEF GenerationsSound
  <2> QED BY <1>0, <2>1, <2>2, <2>5, <2>6, KeepsInv DEF HandleTypes
<1>7. ASSUME NEW e \in Execs, NEW st \in ExecStates, exec' = MarkTerminal(e, st),
             state' = RefreshOwn(e, exec'),
             owner' \in [Execs -> OwnerStates],
             \A f \in Execs : owner'[f] = "start" => owner[f] = "start",
             cancelReq' \in [Execs -> BOOLEAN], ownerCancel' \in [Execs -> BOOLEAN],
             UNCHANGED <<gen, accepting, home, canceller, closer>>
      PROVE  Goal
  <2>1. exec' \in [Execs -> ExecStates]
    BY <1>0, <1>7, MarkTypes
  <2>2. /\ state' \in [Sessions -> RecordStates]
        /\ \A s \in Sessions : state'[s] # "none" => gen[s] >= 1
    BY <1>7, RefreshOwnTypes
  <2>3. \A s \in Sessions : closer'[s].ph # "idle" => gen[s] >= 1
    BY <1>0, <1>7 DEF GenerationsSound
  <2>4. gen' = gen /\ home' = home /\ accepting' \in BOOLEAN
    BY <1>0, <1>7 DEF HandleTypes
  <2>5. closer' \in [Sessions -> Closes] /\ canceller' \in [Execs -> CancelPhases]
    BY <1>0, <1>7 DEF HandleTypes
  <2> QED BY <1>7, <2>1, <2>2, <2>3, <2>4, <2>5, KeepsInv
<1>8. ASSUME NEW e \in Execs, NEW how \in Ends, EndOp(e, how) \/ EndDirect(e, how)
      PROVE  Goal
  <2>1. EndState(how) \in ExecStates
    BY DEF EndState, Ends, ExecStates
  <2>2. /\ exec' = MarkTerminal(e, EndState(how))
        /\ state' = RefreshOwn(e, exec')
        /\ UNCHANGED <<gen, accepting, home, canceller, closer, cancelReq>>
    BY <1>8 DEF EndOp, EndDirect
  <2>3. /\ owner' \in [Execs -> OwnerStates]
        /\ \A f \in Execs : owner'[f] = "start" => owner[f] = "start"
    BY <1>0, <1>8 DEF EndOp, EndDirect, HandleTypes, OwnerStates
  <2>4. cancelReq' \in [Execs -> BOOLEAN] /\ ownerCancel' \in [Execs -> BOOLEAN]
    BY <1>0, <1>8 DEF EndOp, EndDirect, HandleTypes
  <2> QED BY <1>7, <2>1, <2>2, <2>3, <2>4
<1>9. ASSUME NEW e \in Execs, OwnerGivesUp(e), cancelReq' \in [Execs -> BOOLEAN],
             UNCHANGED <<gen, accepting, home, ownerCancel, canceller, closer>>
      PROVE  Goal
  <2>1. "cancelled" \in ExecStates
    BY DEF ExecStates
  <2>2. /\ exec' = MarkTerminal(e, "cancelled")
        /\ state' = RefreshOwn(e, exec')
    BY <1>9 DEF OwnerGivesUp
  <2>3. /\ owner' \in [Execs -> OwnerStates]
        /\ \A f \in Execs : owner'[f] = "start" => owner[f] = "start"
    BY <1>0, <1>9 DEF OwnerGivesUp, HandleTypes, OwnerStates
  <2>4. ownerCancel' \in [Execs -> BOOLEAN]
    BY <1>0, <1>9 DEF HandleTypes
  <2> QED BY <1>7, <1>9, <2>1, <2>2, <2>3, <2>4
<1>10. ASSUME NEW e \in Execs, OwnerReturns(e)
       PROVE  Goal
  <2>1. UNCHANGED <<gen, accepting, home, ownerCancel, canceller, closer>>
    BY <1>10 DEF OwnerReturns
  <2>2. cancelReq' \in [Execs -> BOOLEAN]
    BY <1>0, <1>10 DEF OwnerReturns, HandleTypes
  <2>3. \/ OwnerGivesUp(e)
        \/ /\ UNCHANGED <<exec, state>>
           /\ \E o \in {"ended", "reaping"} : owner' = [owner EXCEPT ![e] = o]
    BY <1>10 DEF OwnerReturns
  <2>4. ASSUME NEW o \in {"ended", "reaping"}, owner' = [owner EXCEPT ![e] = o],
               UNCHANGED <<exec, state>>
        PROVE  Goal
    <3>1. /\ owner' \in [Execs -> OwnerStates]
          /\ \A f \in Execs : owner'[f] = "start" => owner[f] = "start"
      BY <1>0, <2>4 DEF HandleTypes, OwnerStates
    <3> QED BY <1>0, <2>1, <2>2, <2>4, <3>1, KeepsInvQuiet DEF HandleTypes
  <2> QED BY <1>9, <2>1, <2>2, <2>3, <2>4
<1>11. ASSUME NEW e \in Execs, OwnerReaps(e)
       PROVE  Goal
  <2>1. OwnerGivesUp(e) /\ UNCHANGED <<gen, accepting, home, cancelReq, ownerCancel, canceller, closer>>
    BY <1>11 DEF OwnerReaps
  <2> QED BY <1>0, <1>9, <2>1 DEF HandleTypes
<1>12. ASSUME NEW e \in Execs, NEW late, CancelDone(e, late), cancelReq' \in [Execs -> BOOLEAN],
              UNCHANGED <<gen, accepting, home, owner, ownerCancel, closer>>
       PROVE  Goal
  <2>1. \A s \in Sessions : closer'[s].ph # "idle" => gen[s] >= 1
    BY <1>0, <1>12 DEF GenerationsSound
  <2> QED BY <1>0, <1>12, <2>1, CancelDoneTypes, KeepsInv DEF HandleTypes
<1>13. ASSUME NEW e \in Execs, CancelExecution(e)
       PROVE  Goal
  <2>1. UNCHANGED <<gen, accepting, home, owner, closer>>
    BY <1>13 DEF CancelExecution
  <2>2. CASE e \in Scheduled /\ IsCurrent(e)
    <3>1. /\ cancelReq' = [cancelReq EXCEPT ![e] = @ \/ e \notin Messages]
          /\ canceller' = [canceller EXCEPT ![e] = "lane"]
          /\ UNCHANGED <<exec, state, ownerCancel>>
      BY <1>13, <2>2 DEF CancelExecution
    <3>2. cancelReq' \in [Execs -> BOOLEAN]
      BY <1>0, <3>1 DEF HandleTypes
    <3>3. canceller' \in [Execs -> CancelPhases]
      BY <1>0, <3>1 DEF HandleTypes, CancelPhases
    <3> QED BY <1>0, <2>1, <3>1, <3>2, <3>3, KeepsInvQuiet DEF HandleTypes
  <2>3. CASE ~(e \in Scheduled /\ IsCurrent(e)) /\ e \in LatestFirst
    <3>1. /\ cancelReq' = [cancelReq EXCEPT ![e] = TRUE]
          /\ CancelDone(e, FALSE)
          /\ UNCHANGED ownerCancel
      BY <1>13, <2>3 DEF CancelExecution
    <3>2. cancelReq' \in [Execs -> BOOLEAN]
      BY <1>0, <3>1 DEF HandleTypes
    <3> QED BY <1>12, <2>1, <3>1, <3>2
  <2>4. CASE ~(e \in Scheduled /\ IsCurrent(e)) /\ e \notin LatestFirst
    <3>1. RequestDirectCancel(e, FALSE)
      BY <1>13, <2>4 DEF CancelExecution
    <3> QED BY <2>1, <3>1, DirectCancelInv
  <2> QED BY <2>2, <2>3, <2>4
<1>14. ASSUME NEW e \in Execs, CancelLaneWaited(e)
       PROVE  Goal
  <2>1. UNCHANGED <<gen, accepting, home, owner, closer>>
    BY <1>14 DEF CancelLaneWaited
  <2>2. CASE e \in Messages
    BY <1>14, <2>1, <2>2, DirectCancelInv DEF CancelLaneWaited
  <2>3. CASE e \notin Messages
    <3>1. CancelDone(e, TaskLive(e)) /\ UNCHANGED <<cancelReq, ownerCancel>>
      BY <1>14, <2>3 DEF CancelLaneWaited
    <3> QED BY <1>0, <1>12, <2>1, <3>1 DEF HandleTypes
  <2> QED BY <2>2, <2>3
<1>15. ASSUME NEW e \in Execs, CancelTaskWaited(e)
       PROVE  Goal
  <2>1. /\ CancelDone(e, canceller[e] = "late" \/ HandleTaskLive(e))
        /\ UNCHANGED <<gen, accepting, home, cancelReq, owner, ownerCancel, closer>>
    BY <1>15 DEF CancelTaskWaited
  <2> QED BY <1>0, <1>12, <2>1 DEF HandleTypes
<1>16. ASSUME NEW s \in Sessions, CloseBegin(s)
       PROVE  Goal
  <2> DEFINE active == {e \in Execs : IsHome(e, s, gen[s]) /\ Active(exec, e)}
             direct == active \cap (Messages \cup Directs)
             wait == {e \in direct : HandleTaskLive(e)}
  <2>1. /\ UNCHANGED <<gen, accepting, home, owner, canceller>>
        /\ gen[s] >= 1 /\ gen[s] \in Gens
    BY <1>0, <1>16 DEF CloseBegin, HandleTypes, Gens
  <2>2. active \in SUBSET Execs /\ wait \in SUBSET Execs /\ {} \in SUBSET Execs
    OBVIOUS
  <2>3. "QUIESCING" \in RecordStates /\ "direct" \in ClosePhases
    BY DEF RecordStates, ClosePhases
  <2>4. CASE wait = {}
    <3>1. CloseDetach(s, gen[s], "QUIESCING", active, direct, {}) /\ UNCHANGED ownerCancel
      BY <1>16, <2>4 DEF CloseBegin
    <3> HIDE DEF active, direct, wait
    <3> QED BY <1>0, <2>1, <2>2, <2>3, <3>1, DetachInv
  <2>5. CASE wait # {}
    <3>1. /\ CancelHandleTasks({e \in wait : ~cancelReq[e]})
          /\ cancelReq' = [e \in Execs |-> cancelReq[e] \/ e \in direct]
          /\ closer' = [closer EXCEPT ![s] =
                [ph |-> "direct", gen |-> gen[s], active |-> active,
                 lane |-> None, wait |-> wait, late |-> {}]]
          /\ state' = [state EXCEPT ![s] = "QUIESCING"]
          /\ UNCHANGED exec
      BY <1>16, <2>5 DEF CloseBegin
    <3> HIDE DEF active, wait, direct
    <3>2. [ph |-> "direct", gen |-> gen[s], active |-> active,
           lane |-> None, wait |-> wait, late |-> {}] \in Closes
      BY <2>1, <2>2, <2>3 DEF Closes
    <3>3. /\ closer' \in [Sessions -> Closes]
          /\ \A r \in Sessions : closer'[r].ph # "idle" => gen[r] >= 1
      BY <1>0, <2>1, <3>1, <3>2 DEF HandleTypes, GenerationsSound
    <3>4. /\ state' \in [Sessions -> RecordStates]
          /\ \A r \in Sessions : state'[r] # "none" => gen[r] >= 1
      BY <1>0, <2>1, <2>3, <3>1 DEF HandleTypes, GenerationsSound
    <3>5. cancelReq' \in [Execs -> BOOLEAN]
      BY <1>0, <3>1 DEF HandleTypes
    <3>6. ownerCancel' \in [Execs -> BOOLEAN]
      BY <1>0, <3>1 DEF HandleTypes, CancelHandleTasks
    <3> QED BY <1>0, <2>1, <3>1, <3>3, <3>4, <3>5, <3>6, KeepsInv DEF HandleTypes
  <2> QED BY <2>4, <2>5
<1>17. ASSUME NEW s \in Sessions, CloseDirectWaited(s)
       PROVE  Goal
  <2> DEFINE late == {e \in closer[s].wait : HandleTaskLive(e)}
  <2>1. /\ CloseDetach(s, closer[s].gen, state[s], closer[s].active, {}, late)
        /\ UNCHANGED <<gen, accepting, home, owner, ownerCancel, canceller>>
        /\ closer[s].ph = "direct"
    BY <1>17 DEF CloseDirectWaited
  <2>2. /\ closer[s].gen \in Gens /\ closer[s].active \in SUBSET Execs
        /\ closer[s].wait \in SUBSET Execs /\ state[s] \in RecordStates
    BY <1>0 DEF HandleTypes, Closes
  <2>3. late \in SUBSET Execs
    BY <2>2
  <2>4. gen[s] >= 1
    BY <1>0, <2>1 DEF GenerationsSound
  <2> HIDE DEF late
  <2> QED BY <1>0, <2>1, <2>2, <2>3, <2>4, DetachInv
<1>18. ASSUME NEW s \in Sessions, CloseWaited(s)
       PROVE  Goal
  <2>1. /\ CloseFinish(s, closer[s].gen, state[s], closer[s].late \cup ClosePending(s))
        /\ UNCHANGED <<gen, accepting, home, owner, ownerCancel, canceller>>
        /\ closer[s].ph # "idle"
    BY <1>18 DEF CloseWaited
  <2>2. gen[s] >= 1 /\ state[s] \in RecordStates
    BY <1>0, <2>1 DEF GenerationsSound, HandleTypes
  <2> QED BY <2>1, <2>2, FinishInv
<1>19. ASSUME NEW s \in Sessions, QuiesceSession(s)
       PROVE  Goal
  <2>1. /\ state' = [state EXCEPT ![s] = "QUIESCING"]
        /\ state[s] # "none"
        /\ UNCHANGED <<gen, accepting, home, exec, cancelReq, owner, ownerCancel, canceller, closer>>
    BY <1>19 DEF QuiesceSession
  <2>2. /\ state' \in [Sessions -> RecordStates]
        /\ \A r \in Sessions : state'[r] # "none" => gen[r] >= 1
        /\ \A r \in Sessions : closer'[r].ph # "idle" => gen[r] >= 1
    BY <1>0, <2>1 DEF HandleTypes, GenerationsSound, RecordStates
  <2> QED BY <1>0, <2>1, <2>2, KeepsInv DEF HandleTypes
<1>20. ASSUME BeginShutdown
       PROVE  Goal
  BY <1>0, <1>20, KeepsInvQuiet DEF BeginShutdown, HandleTypes
<1>21. ASSUME NEW e \in Execs,
              StreamRefreshes(e) \/ \E how \in Ends : StreamMarks(e, how) \/ StreamEnds(e, how)
       PROVE  Goal
  <2>1. CASE StreamRefreshes(e)
    <3>1. /\ state' = RefreshOwn(e, exec)
          /\ UNCHANGED <<gen, accepting, home, exec, cancelReq, owner, ownerCancel, canceller, closer>>
      BY <2>1 DEF StreamRefreshes
    <3>2. \A s \in Sessions : closer'[s].ph # "idle" => gen[s] >= 1
      BY <1>0, <3>1 DEF GenerationsSound
    <3> QED BY <1>0, <3>1, <3>2, RefreshOwnTypes, KeepsInv DEF HandleTypes
  <2>2. ASSUME NEW how \in Ends, StreamMarks(e, how)
        PROVE  Goal
    <3>1. /\ exec' = MarkTerminal(e, EndState(how))
          /\ UNCHANGED <<gen, state, accepting, home, cancelReq, owner, ownerCancel, canceller, closer>>
      BY <2>2 DEF StreamMarks
    <3>2. EndState(how) \in ExecStates
      BY DEF EndState, Ends, ExecStates
    <3>3. exec' \in [Execs -> ExecStates]
      BY <1>0, <3>1, <3>2, MarkTypes
    <3> QED BY <1>0, <3>1, <3>3, KeepsInvQuiet DEF HandleTypes
  <2>3. ASSUME NEW how \in Ends, StreamEnds(e, how)
        PROVE  Goal
    BY <1>0, <2>3, KeepsInvQuiet DEF StreamEnds, HandleTypes
  <2> QED BY <1>21, <2>1, <2>2, <2>3
<1>22. CoordInv'
  <2> HIDE DEF Goal
  <2>1. ASSUME NEW e \in Execs, Request(e)
        PROVE  Goal
    BY <2>1, <1>2, <1>3, <1>4, <1>13 DEF Request, AbandonRequest
  <2>2. ASSUME NEW e \in Execs, TaskStep(e)
        PROVE  Goal
    BY <2>2, <1>4, <1>5, <1>6, <1>8, <1>10, <1>11, <1>14, <1>15, <1>21 DEF TaskStep, Processor
  <2>3. ASSUME NEW s \in Sessions, SessionStep(s)
        PROVE  Goal
    BY <2>3, <1>1, <1>4, <1>16, <1>17, <1>18, <1>19 DEF SessionStep, ShutdownLane
  <2>4. ASSUME UNCHANGED vars
        PROVE  Goal
    BY <2>4, <1>4 DEF vars, coordVars
  <2>5. Goal
    BY <2>1, <2>2, <2>3, <2>4, <1>4, <1>20 DEF Next, ShutdownScheduler
  <2> QED BY <2>5 DEF Goal
<1> QED BY <1>22

-----------------------------------------------------------------------------
\* The two invariants hold together: the coordinator's says that what it hands
\* to the scheduler is legal, the scheduler's that the lanes keep their promises.
LEMMA CoordInvariant == Safety => [](SchedInv /\ CoordInv)
<1> USE SchedulerAssumption, CoordinatorAssumption
<1>1. Init => SchedInv /\ CoordInv
  BY SchedInitInv, CoordInitInv DEF Init
<1>2. SchedInv /\ CoordInv /\ [Next]_vars => SchedInv' /\ CoordInv'
  <2> SUFFICES ASSUME SchedInv, CoordInv, [Next]_vars
               PROVE  SchedInv' /\ CoordInv'
    OBVIOUS
  <2>1. [SchedNext]_schedVars
    BY NextRefines
  <2> QED BY <2>1, SchedNextInv, CoordNextInv
<1> QED BY <1>1, <1>2, PTL DEF Safety

\* Every step of the coordinator (admission, operations that start and end,
\* cancels, closes, shutdown) uses the lanes as SessionWorkScheduler allows, so
\* that what is proved about the lanes alone holds of the composed system.
THEOREM CoordinatorUsesScheduler == Safety => UsesScheduler
<1> USE SchedulerAssumption, CoordinatorAssumption
<1>1. Init => SchedInit
  BY DEF Init
<1>2. SchedInv /\ CoordInv /\ [Next]_vars => [SchedNext]_schedVars
  BY NextRefines
<1> QED BY <1>1, <1>2, CoordInvariant, PTL DEF Safety, UsesScheduler, SchedSafety

\* In the composed system nobody waits for a result that no lane will set, and
\* no task of a lane runs without a processor that will collect it.
THEOREM CoordinatorResultsOwned == Safety => [](ResultOwned /\ TaskOwned)
<1>1. SchedInv /\ CoordInv => ResultOwned /\ TaskOwned
  BY DEF SchedInv
<1> QED BY <1>1, CoordInvariant, PTL

\* Where a stream's produce() is and what counts as a stray.
TailTypes == tail \in [Execs -> Tails] /\ strays \subseteq Execs

\* The types of what every step leaves: handles, owners, waits of cancels and
\* closes, the tails of streams and the history.
THEOREM CoordinatorTypes == Safety => []TypeOK
<1>1. Init => TailTypes
  BY DEF Init, TailTypes, NoTail, Tails, Ends
<1>2. TailTypes /\ [Next]_vars => TailTypes'
  <2> SUFFICES ASSUME TailTypes, [Next]_vars PROVE TailTypes'
    OBVIOUS
  <2>1. ASSUME UNCHANGED <<tail, strays>> PROVE TailTypes'
    BY <2>1 DEF TailTypes
  <2>2. ASSUME NEW e \in Execs, Request(e) PROVE TailTypes'
    BY <2>1, <2>2 DEF Request, RunUnary, SubmitLater, RunDirect, NewExecution, AbandonRequest,
       CancelExecution, coordVars, TailTypes
  <2>3. ASSUME NEW e \in Execs, NEW how \in Ends, StreamMarks(e, how) PROVE TailTypes'
    BY <2>3 DEF StreamMarks, TailTypes, Tails
  <2>4. ASSUME NEW e \in Execs, NEW how \in Ends, StreamEnds(e, how) PROVE TailTypes'
    BY <2>4 DEF StreamEnds, TailTypes, NoTail, Tails, Ends
  <2>5. ASSUME NEW e \in Execs, StreamRefreshes(e) PROVE TailTypes'
    <3>1. tail' = [tail EXCEPT ![e].ph = "putting"] /\ strays' = strays
      BY <2>5 DEF StreamRefreshes
    <3> QED BY <3>1 DEF TailTypes, Tails
  <2>6. ASSUME NEW e \in Execs, TaskStep(e) PROVE TailTypes'
    BY <2>1, <2>3, <2>4, <2>5, <2>6 DEF TaskStep, Processor, coordVars, OwnerStarts, StartOp,
       EndOp, EndDirect, OwnerReturns, OwnerReaps, CancelLaneWaited, CancelTaskWaited, TailTypes
  <2>7. ASSUME NEW s \in Sessions, SessionStep(s) PROVE TailTypes'
    BY <2>1, <2>7 DEF SessionStep, RegisterSession, QuiesceSession, CloseBegin, CloseDirectWaited,
       CloseWaited, ShutdownLane, coordVars
  <2>8. ASSUME BeginShutdown \/ ShutdownScheduler \/ UNCHANGED vars PROVE TailTypes'
    BY <2>1, <2>8 DEF BeginShutdown, ShutdownScheduler, vars, coordVars
  <2> QED BY <2>2, <2>6, <2>7, <2>8 DEF Next
<1>3. CoordInv /\ TailTypes => TypeOK
  BY DEF CoordInv, TailTypes, TypeOK
<1> QED BY <1>1, <1>2, <1>3, CoordInvariant, PTL DEF Safety

-----------------------------------------------------------------------------
\* mark_terminal is the only way to a terminal state, and never replaces one.
LEMMA TerminalStep ==
    ASSUME HandleTypes, [Next]_vars, NEW f \in Execs, Terminal(exec, f)
    PROVE  exec'[f] = exec[f]
<1> DEFINE Goal == exec'[f] = exec[f]
<1>0. exec \in [Execs -> ExecStates] /\ exec[f] \notin {"none", "queued", "running"}
  BY DEF HandleTypes, Terminal
<1>1. ASSUME NEW e \in Execs, NEW st, exec' = MarkTerminal(e, st)
      PROVE  Goal
  BY <1>0, <1>1 DEF MarkTerminal
<1>2. ASSUME NEW e \in Execs, NEW s \in Sessions, NEW st, NewExecution(e, s, st)
      PROVE  Goal
  BY <1>0, <1>2 DEF NewExecution
<1>3. ASSUME UNCHANGED exec
      PROVE  Goal
  BY <1>3
<1>4. ASSUME NEW e \in Execs, NEW late, CancelDone(e, late)
      PROVE  Goal
  BY <1>1, <1>4 DEF CancelDone
<1>5. ASSUME NEW s, NEW g, NEW st, NEW late, CloseFinish(s, g, st, late)
      PROVE  Goal
  <2>1. f \notin {e \in Execs : IsHome(e, s, g) /\ Active(exec, e)}
    BY <1>0 DEF Active
  <2> QED BY <1>5, <2>1 DEF CloseFinish
<1>6. ASSUME NEW s, NEW g, NEW st, NEW active, NEW requested, NEW late,
             CloseDetach(s, g, st, active, requested, late)
      PROVE  Goal
  BY <1>5, <1>6 DEF CloseDetach
<1>7. ASSUME NEW e \in Execs, NEW late, RequestDirectCancel(e, late)
      PROVE  Goal
  BY <1>4, <1>7 DEF RequestDirectCancel
<1>8. ASSUME NEW e \in Execs, Request(e)
      PROVE  Goal
  BY <1>2, <1>3, <1>4, <1>7, <1>8
     DEF Request, RunUnary, SubmitLater, RunDirect, AbandonRequest, CancelExecution, coordVars
<1>9. ASSUME NEW e \in Execs, StartOp(e)
      PROVE  Goal
  BY <1>0, <1>9 DEF StartOp
<1>10. ASSUME NEW e \in Execs, TaskStep(e)
       PROVE  Goal
  BY <1>1, <1>3, <1>4, <1>7, <1>9, <1>10
     DEF TaskStep, Processor, coordVars, OwnerStarts, EndOp, EndDirect, StreamMarks,
         StreamRefreshes, StreamEnds, OwnerReturns,
         OwnerReaps, OwnerGivesUp, CancelLaneWaited, CancelTaskWaited
<1>11. ASSUME NEW s \in Sessions, SessionStep(s)
       PROVE  Goal
  BY <1>3, <1>5, <1>6, <1>11
     DEF SessionStep, RegisterSession, QuiesceSession, CloseBegin, CloseDirectWaited,
         CloseWaited, ShutdownLane, coordVars
<1>12. ASSUME BeginShutdown \/ ShutdownScheduler \/ UNCHANGED vars
       PROVE  Goal
  BY <1>3, <1>12 DEF BeginShutdown, ShutdownScheduler, vars, coordVars
<1> QED BY <1>8, <1>10, <1>11, <1>12 DEF Next

\* A terminal handle keeps its state, whichever of its operation, its owner, a
\* cancel_execution, a close_session and a late result gets to it first.
THEOREM TerminalIsFinal == Safety => TerminalStays
<1> DEFINE Stays == \A e \in Execs : Terminal(exec, e) => exec'[e] = exec[e]
<1>1. SchedInv /\ CoordInv /\ [Next]_vars => [Stays]_vars
  <2> SUFFICES ASSUME CoordInv, [Next]_vars PROVE Stays
    OBVIOUS
  <2> QED BY TerminalStep DEF CoordInv
<1> QED BY <1>1, CoordInvariant, PTL DEF Safety, TerminalStays

-----------------------------------------------------------------------------
\* What an execution must have before it takes part: a handle.  Only lane work is
\* submitted, and only direct work runs in its caller's task.
Known ==
    /\ \A e \in Execs : exec[e] = "none" =>
          result[e] = "none" /\ owner[e] = "none" /\ canceller[e] = "idle"
          /\ home[e].sess = None
    /\ \A e \in Execs : exec[e] # "none" => home[e].sess \in Sessions
    /\ \A e \in Directs : result[e] = "none" /\ owner[e] \in {"none", "running", "ended"}
    /\ \A e \in Execs : canceller[e] = "lane" => e \in Scheduled
    /\ \A e \in Execs : owner[e] = "running" => e \in Directs

\* What a lane queues or runs belongs to the Session and generation of the lane.
ItemHome == \A l, e \in Execs : e \in queue[l] \/ current[l] = e => home[e] = scope[l]

\* All steps but a submission only take items and lanes away.
Shrinks ==
    /\ scope' = scope
    /\ \A s \in Sessions : lanes'[s] = lanes[s] \/ lanes'[s] = None
    /\ \A l \in Execs : queue'[l] \subseteq queue[l]
    /\ \A l \in Execs : current'[l] \in {None, current[l]} \cup queue[l]
    /\ \A e \in Execs : result[e] = "none" => result'[e] = "none"

\* The steps of the lanes that are no submissions.
LEMMA SchedShrinks ==
    ASSUME SchedInv,
           \/ \E l \in Execs : ProcessorTake(l) \/ ProcessorCancelled(l) \/ ProcessorResume(l)
           \/ \E e \in Execs : StartTask(e) \/ CancelCaller(e)
           \/ \E e \in Execs, how \in Ends : EndTask(e, how)
           \/ \E e \in Execs, q \in BOOLEAN : CancelHandle(e, q)
           \/ \E D \in SUBSET Execs : CancelTasks(D)
           \/ \E s \in Sessions : \E g : CloseLane(s, g)
           \/ CloseScheduler
           \/ UNCHANGED schedVars
    PROVE  Shrinks
<1>0. SchedTypeOK /\ CurrentSound
  BY DEF SchedInv
<1>1. ASSUME UNCHANGED laneVars, \A e \in Execs : result[e] = "none" => result'[e] = "none"
      PROVE  Shrinks
  BY <1>1 DEF laneVars, Shrinks
<1>2. ASSUME NEW l \in Execs, TakeNext(l), UNCHANGED <<lanes, scope>>,
             \A e \in Execs : result[e] = "none" => result'[e] = "none"
      PROVE  Shrinks
  <2>1. CASE TookNothing(l)
    BY <1>0, <1>2, <2>1 DEF TookNothing, Dropped, Shrinks, SchedTypeOK
  <2>2. ASSUME NEW e \in queue[l], NEW rest \in SUBSET Execs, Took(l, e, rest)
        PROVE  Shrinks
    BY <1>0, <1>2, <2>2 DEF Took, Shrinks, SchedTypeOK
  <2> QED BY <1>0, <1>2, <2>1, <2>2, TakeNextFacts
<1>3. ASSUME NEW l \in Execs, ProcessorFinally(l), UNCHANGED scope,
             \A e \in Execs : result[e] = "none" => result'[e] = "none"
      PROVE  Shrinks
  BY <1>0, <1>3 DEF ProcessorFinally, Shrinks, SchedTypeOK
<1>4. ASSUME NEW l \in Execs, ProcessorTake(l) \/ ProcessorCancelled(l) \/ ProcessorResume(l)
      PROVE  Shrinks
  <2>1. \A e \in Execs : result[e] = "none" => result'[e] = "none"
    BY <1>0, <1>4 DEF ProcessorTake, ProcessorCancelled, ProcessorResume, Drained,
       CurrentSound, SchedTypeOK
  <2> QED BY <1>2, <1>3, <1>4, <2>1 DEF ProcessorTake, ProcessorCancelled, ProcessorResume
<1>5. ASSUME NEW e \in Execs, \/ StartTask(e) \/ CancelCaller(e) \/ \E how \in Ends : EndTask(e, how)
                              \/ \E q \in BOOLEAN : CancelHandle(e, q)
      PROVE  Shrinks
  <2>1. UNCHANGED laneVars
    BY <1>5 DEF StartTask, CancelCaller, EndTask, CancelHandle
  <2>2. \A f \in Execs : result[f] = "none" => result'[f] = "none"
    BY <1>0, <1>5 DEF StartTask, CancelCaller, EndTask, CancelHandle, SchedTypeOK
  <2> QED BY <1>1, <2>1, <2>2
<1>6. ASSUME \/ \E D \in SUBSET Execs : CancelTasks(D) \/ CloseScheduler
             \/ UNCHANGED schedVars
      PROVE  Shrinks
  <2>1. UNCHANGED laneVars
    BY <1>6 DEF CancelTasks, CloseScheduler, schedVars, laneVars
  <2>2. \A f \in Execs : result[f] = "none" => result'[f] = "none"
    BY <1>6 DEF CancelTasks, CloseScheduler, schedVars
  <2> QED BY <1>1, <2>1, <2>2
<1>7. ASSUME NEW s \in Sessions, NEW g, CloseLane(s, g)
      PROVE  Shrinks
  <2>1. /\ scope' = scope /\ current' = current
        /\ lanes' = [lanes EXCEPT ![s] = None]
        /\ queue' = [queue EXCEPT ![lanes[s]] = {}]
        /\ result' = Drained(lanes[s])
    BY <1>7 DEF CloseLane
  <2>2. /\ \A r \in Sessions : lanes'[r] = lanes[r] \/ lanes'[r] = None
        /\ \A l \in Execs : queue'[l] \subseteq queue[l]
    BY <1>0, <2>1 DEF SchedTypeOK
  <2>3. \A e \in Execs : result[e] = "none" => result'[e] = "none"
    BY <2>1 DEF Drained
  <2> QED BY <2>1, <2>2, <2>3 DEF Shrinks
<1> QED BY <1>4, <1>5, <1>6, <1>7

-----------------------------------------------------------------------------
\* The handles of a Session that is closed are terminal.
ClosedTerminal ==
    \A s \in Sessions, e \in Execs :
        state[s] = "CLOSED" /\ IsHome(e, s, gen[s]) => Terminal(exec, e)

\* close_session has detached the lane of generation g of Session s.
Over(s, g) ==
    \/ state[s] = "CLOSED" /\ gen[s] = g
    \/ closer[s].ph \in {"lane", "settle"} /\ closer[s].gen = g

\* A lane of such a generation was made again by strays, and has only those.
OverLanes ==
    \A s \in Sessions, l, e \in Execs :
        lanes[s] = l /\ Over(s, scope[l].gen) /\ (e \in queue[l] \/ current[l] = e)
        => e \in strays

\* Nobody marks the handle of direct work while it runs, except of a stray.
DirectsKept ==
    \A e \in Execs : owner[e] = "running" /\ e \notin strays => Active(exec, e)

\* A close knows the direct work of its generation that runs, except strays: it
\* waits for it, or has counted it as late.
DirectsSeen ==
    \A s \in Sessions, e \in Execs :
        /\ closer[s].ph # "idle" /\ IsHome(e, s, closer[s].gen)
        /\ owner[e] = "running" /\ e \notin strays
        => e \in (IF closer[s].ph = "direct" THEN closer[s].wait ELSE closer[s].late)

\* With the invariants above, the inductive invariant.
WorkInv ==
    Known /\ ItemHome /\ ClosedTerminal /\ OverLanes /\ DirectsKept /\ DirectsSeen

\* What a step that neither admits nor submits may do to a handle and its tasks.
Steady(e) ==
    /\ exec[e] = "none" => exec'[e] = "none" /\ owner'[e] = "none" /\ canceller'[e] = "idle"
    /\ exec[e] # "none" => exec'[e] # "none"
    /\ Terminal(exec, e) => exec'[e] = exec[e]
    /\ owner'[e] = "running" =>
          owner[e] = "running" /\ (Active(exec, e) /\ e \notin strays => Active(exec, e)')
    /\ e \in Directs => owner'[e] \in {owner[e], "ended"}
    /\ canceller'[e] = "lane" => canceller[e] = "lane" \/ e \in Scheduled

\* The parts about the lanes, under such a step.
LEMMA ShrinkHome ==
    ASSUME SchedulerAssumption, SchedInv, ItemHome, Shrinks, UNCHANGED home
    PROVE  ItemHome'
<1>1. \A l, e \in Execs : e \in queue'[l] \/ current'[l] = e => e \in queue[l] \/ current[l] = e
  BY DEF Shrinks, SchedulerAssumption
<1> QED BY <1>1 DEF ItemHome, Shrinks

LEMMA ShrinkOver ==
    ASSUME SchedulerAssumption, SchedInv, OverLanes, Shrinks, strays \subseteq strays',
           \A s \in Sessions : \A g : Over(s, g)' => Over(s, g)
    PROVE  OverLanes'
<1>1. \A l, e \in Execs : e \in queue'[l] \/ current'[l] = e => e \in queue[l] \/ current[l] = e
  BY DEF Shrinks, SchedulerAssumption
<1>2. \A s \in Sessions, l \in Execs : lanes'[s] = l => lanes[s] = l
  BY DEF Shrinks, SchedulerAssumption
<1>3. scope' = scope
  BY DEF Shrinks
<1> QED BY <1>1, <1>2, <1>3 DEF OverLanes

\* The parts about handles and tasks, under such a step.
LEMMA SteadyKnown ==
    ASSUME CoordinatorAssumption, Known, Shrinks, \A e \in Execs : Steady(e), UNCHANGED home
    PROVE  Known'
<1>1. \A e \in Execs : result[e] = "none" => result'[e] = "none"
  BY DEF Shrinks
<1>2. \A e \in Directs : e \in Execs
  BY DEF CoordinatorAssumption
<1>3. \A e \in Directs : result'[e] = "none" /\ owner'[e] \in {"none", "running", "ended"}
  BY <1>1, <1>2 DEF Known, Steady
<1>4. \A e \in Execs : exec'[e] = "none" =>
          result'[e] = "none" /\ owner'[e] = "none" /\ canceller'[e] = "idle" /\ home'[e].sess = None
  BY <1>1 DEF Known, Steady
<1>5. \A e \in Execs : exec'[e] # "none" => home'[e].sess \in Sessions
  BY DEF Known, Steady
<1>6. \A e \in Execs : /\ canceller'[e] = "lane" => e \in Scheduled
                       /\ owner'[e] = "running" => e \in Directs
  BY DEF Known, Steady
<1> QED BY <1>3, <1>4, <1>5, <1>6 DEF Known, Scheduled

\* A step that neither admits nor submits, ends no close and closes no record.
LEMMA KeepsWork ==
    ASSUME SchedulerAssumption, CoordinatorAssumption, SchedInv, WorkInv, Shrinks,
           \A e \in Execs : Steady(e),
           UNCHANGED <<gen, home, closer, strays>>,
           \A s \in Sessions : state'[s] = "CLOSED" => state[s] = "CLOSED"
    PROVE  WorkInv'
<1>0. Known /\ ItemHome /\ ClosedTerminal /\ OverLanes /\ DirectsKept /\ DirectsSeen
  BY DEF WorkInv
<1>1. Known' /\ ItemHome'
  BY <1>0, SteadyKnown, ShrinkHome
<1>2. ClosedTerminal'
  BY <1>0 DEF ClosedTerminal, IsHome, Terminal, Steady
<1>3. OverLanes'
  <2>1. \A s \in Sessions : \A g : Over(s, g)' => Over(s, g)
    BY DEF Over
  <2> QED BY <1>0, <2>1, ShrinkOver
<1>4. DirectsKept'
  BY <1>0 DEF DirectsKept, Steady
<1>5. DirectsSeen'
  BY <1>0 DEF DirectsSeen, IsHome, Steady
<1> QED BY <1>1, <1>2, <1>3, <1>4, <1>5 DEF WorkInv

-----------------------------------------------------------------------------
\* An execution that was not submitted is in no lane, and names none.
LEMMA NotSubmitted ==
    ASSUME SchedulerAssumption, SchedInv, NEW e \in Execs, result[e] = "none"
    PROVE  /\ \A l \in Execs : e \notin queue[l] /\ current[l] # e
           /\ queue[e] = {} /\ current[e] = None
           /\ \A s \in Sessions : lanes[s] # e
<1>1. proc[e] = "none" /\ current[e] = None
  BY DEF SchedInv, LanesSound
<1>2. \A s \in Sessions : lanes[s] # e
  BY <1>1 DEF SchedInv, LanesSound, SchedulerAssumption
<1>3. ~Attached(e)
  BY <1>2 DEF Attached, SchedInv, SchedTypeOK, Scopes
<1>4. queue[e] = {}
  BY <1>3 DEF SchedInv, LanesSound
<1>5. \A l \in Execs : e \notin queue[l] /\ current[l] # e
  BY DEF SchedInv, ItemsSound, CurrentSound, SchedulerAssumption
<1> QED BY <1>1, <1>2, <1>4, <1>5

\* What submit_and_wait of e does to the lanes.
LEMMA SubmitFacts ==
    ASSUME SchedulerAssumption, SchedInv, NEW e \in Execs, NEW s \in Sessions, NEW g \in Gens,
           SubmitAndWait(e, s, g)
    PROVE  \E l \in Execs :
              /\ lanes' = [lanes EXCEPT ![s] = l]
              /\ scope'[l] = [sess |-> s, gen |-> g]
              /\ \A m \in Execs : m # e => scope'[m] = scope[m]
              /\ l = e \/ (lanes[s] = l /\ scope[l] = [sess |-> s, gen |-> g] /\ scope' = scope)
              /\ \A m, f \in Execs : f \in queue'[m] => f \in queue[m] \/ (f = e /\ m = l)
              /\ current' = current
              /\ result[e] = "none" /\ result' = [result EXCEPT ![e] = "pending"]
<1> DEFINE l == IF lanes[s] = None THEN e ELSE lanes[s]
<1>0. SchedTypeOK
  BY DEF SchedInv
<1>1. /\ result[e] = "none" /\ LaneAccepts(s, g)
      /\ lanes' = [lanes EXCEPT ![s] = l]
      /\ scope' = [scope EXCEPT ![l] = [sess |-> s, gen |-> g]]
      /\ queue' = [queue EXCEPT ![l] = @ \cup {e}]
      /\ result' = [result EXCEPT ![e] = "pending"]
      /\ current' = current
  BY DEF SubmitAndWait
<1>2. l \in Execs
  BY <1>0 DEF SchedTypeOK
<1>3. l = e \/ (lanes[s] = l /\ scope[l] = [sess |-> s, gen |-> g])
  <2> SUFFICES ASSUME lanes[s] # None PROVE scope[lanes[s]] = [sess |-> s, gen |-> g]
    OBVIOUS
  <2>1. scope[lanes[s]].sess = s /\ scope[lanes[s]].gen = g /\ scope[lanes[s]] \in Scopes
    BY <1>0, <1>1 DEF LaneAccepts, SchedInv, LanesSound, SchedTypeOK
  <2> QED BY <2>1 DEF Scopes
<1> HIDE DEF l
<1>4. l # e => scope' = scope
  BY <1>0, <1>1, <1>2, <1>3 DEF SchedTypeOK
<1>5. /\ scope'[l] = [sess |-> s, gen |-> g]
      /\ \A m \in Execs : m # e => scope'[m] = scope[m]
  BY <1>0, <1>1, <1>2, <1>4 DEF SchedTypeOK
<1>6. \A m, f \in Execs : f \in queue'[m] => f \in queue[m] \/ (f = e /\ m = l)
  BY <1>0, <1>1, <1>2 DEF SchedTypeOK
<1> QED BY <1>1, <1>2, <1>3, <1>4, <1>5, <1>6

\* Its item has the home of its lane.
LEMMA SubmitHome ==
    ASSUME SchedulerAssumption, SchedInv, ItemHome,
           NEW e \in Execs, NEW s \in Sessions, NEW g \in Gens, SubmitAndWait(e, s, g),
           home'[e] = [sess |-> s, gen |-> g], \A f \in Execs : f # e => home'[f] = home[f]
    PROVE  ItemHome'
<1>1. PICK l \in Execs :
         /\ scope'[l] = [sess |-> s, gen |-> g]
         /\ \A m \in Execs : m # e => scope'[m] = scope[m]
         /\ \A m, f \in Execs : f \in queue'[m] => f \in queue[m] \/ (f = e /\ m = l)
         /\ current' = current
         /\ result[e] = "none"
  BY SubmitFacts
<1>2. /\ \A m \in Execs : e \notin queue[m] /\ current[m] # e
      /\ queue[e] = {} /\ current[e] = None
  BY <1>1, NotSubmitted
<1>3. ASSUME NEW m \in Execs, NEW f \in Execs, f \in queue'[m] \/ current'[m] = f
      PROVE  home'[f] = scope'[m]
  <2>1. CASE f = e
    BY <1>1, <1>2, <1>3, <2>1
  <2>2. CASE f # e
    <3>1. (f \in queue[m] \/ current[m] = f) /\ m # e
      BY <1>1, <1>2, <1>3, <2>2 DEF SchedulerAssumption
    <3> QED BY <1>1, <2>2, <3>1 DEF ItemHome
  <2> QED BY <2>1, <2>2
<1> QED BY <1>3 DEF ItemHome

\* A submission to a generation whose lane close_session has detached is a stray's.
LEMMA SubmitOver ==
    ASSUME SchedulerAssumption, SchedInv, OverLanes,
           NEW e \in Execs, NEW s \in Sessions, NEW g \in Gens, SubmitAndWait(e, s, g),
           \A r \in Sessions : \A h : Over(r, h)' => Over(r, h),
           strays \subseteq strays', Over(s, g)' => e \in strays'
    PROVE  OverLanes'
<1>1. PICK l \in Execs :
         /\ lanes' = [lanes EXCEPT ![s] = l]
         /\ scope'[l] = [sess |-> s, gen |-> g]
         /\ \A m \in Execs : m # e => scope'[m] = scope[m]
         /\ l = e \/ (lanes[s] = l /\ scope[l] = [sess |-> s, gen |-> g] /\ scope' = scope)
         /\ \A m, f \in Execs : f \in queue'[m] => f \in queue[m] \/ (f = e /\ m = l)
         /\ current' = current
         /\ result[e] = "none"
  BY SubmitFacts
<1>2. /\ \A m \in Execs : e \notin queue[m] /\ current[m] # e
      /\ queue[e] = {} /\ current[e] = None
      /\ \A r \in Sessions : lanes[r] # e
  BY <1>1, NotSubmitted
<1>3. lanes'[s] = l /\ \A r \in Sessions : r # s => lanes'[r] = lanes[r]
  BY <1>1 DEF SchedInv, SchedTypeOK
<1>4. ASSUME NEW r \in Sessions, NEW m \in Execs, NEW f \in Execs,
             lanes'[r] = m, Over(r, scope[m].gen)', f \in queue'[m] \/ current'[m] = f
      PROVE  f \in strays'
  <2>1. CASE r = s
    <3>1. m = l /\ Over(s, g)' /\ Over(s, g)
      <4>1. m = l /\ scope'[m].gen = g
        BY <1>1, <1>3, <1>4, <2>1
      <4> QED BY <1>4, <2>1, <4>1 DEF Over
    <3>2. CASE f = e
      BY <3>1, <3>2
    <3>3. CASE f # e
      <4>1. f \in queue[l] \/ current[l] = f
        BY <1>1, <1>4, <3>1, <3>3
      <4>2. l # e
        BY <1>2, <4>1 DEF SchedulerAssumption
      <4>3. lanes[s] = l /\ scope[l].gen = g
        BY <1>1, <4>2
      <4> QED BY <3>1, <4>1, <4>3 DEF OverLanes
    <3> QED BY <3>2, <3>3
  <2>2. CASE r # s
    <3>1. lanes[r] = m /\ m # e
      BY <1>2, <1>3, <1>4, <2>2
    <3>2. m # l
      <4>1. scope[m].sess = r
        BY <3>1 DEF SchedInv, LanesSound, SchedulerAssumption
      <4>2. l = e \/ scope[l].sess = s
        BY <1>1
      <4> QED BY <2>2, <3>1, <4>1, <4>2
    <3>3. f \in queue[m] \/ current[m] = f
      BY <1>1, <1>4, <3>2
    <3>4. Over(r, scope[m].gen)
      <4>1. scope'[m].gen = scope[m].gen
        BY <1>1, <3>1
      <4> QED BY <1>4, <4>1 DEF Over
    <3> QED BY <3>1, <3>3, <3>4 DEF OverLanes
  <2> QED BY <2>1, <2>2
<1> QED BY <1>4 DEF OverLanes

\* What the admission of e to Session s establishes.
Admitted(e, s) ==
    /\ Known' /\ ClosedTerminal' /\ DirectsKept' /\ DirectsSeen'
    /\ home'[e] = [sess |-> s, gen |-> gen[s]] /\ result[e] = "none"
    /\ \A f \in Execs : f # e => home'[f] = home[f]
    /\ \A r \in Sessions : \A g : Over(r, g)' => Over(r, g)
    /\ strays \subseteq strays' /\ \A g : Over(s, g)' => e \in strays'

\* The admission of an execution, whatever its entry point does with the lanes.
LEMMA AdmitParts ==
    ASSUME SchedulerAssumption, CoordinatorAssumption, SchedInv, CoordInv, WorkInv,
           NEW e \in Execs, NEW s \in Sessions, NEW st \in {"queued", "running"},
           NewExecution(e, s, st), NEW o \in OwnerStates \ {"none"},
           owner' = [owner EXCEPT ![e] = o],
           o = "running" => e \in Directs /\ st = "running",
           e \in Directs => o = "running" /\ UNCHANGED result,
           \A f \in Execs : f # e => result'[f] = result[f]
    PROVE  Admitted(e, s)
<1>0. /\ HandleTypes /\ GenerationsSound
      /\ Known /\ ItemHome /\ ClosedTerminal /\ OverLanes /\ DirectsKept /\ DirectsSeen
  BY DEF CoordInv, WorkInv
<1>1. /\ exec[e] = "none" /\ state[s] \in {"READY", "ACTIVE"}
      /\ exec' = [exec EXCEPT ![e] = st]
      /\ home' = [home EXCEPT ![e] = [sess |-> s, gen |-> gen[s]]]
      /\ state' = [state EXCEPT ![s] = "ACTIVE"]
      /\ strays' = IF closer[s].ph # "idle" THEN strays \cup {e} ELSE strays
      /\ UNCHANGED <<gen, accepting, cancelReq, ownerCancel, canceller, closer, tail>>
  BY DEF NewExecution, OpenSession, Home
<1>2. /\ exec'[e] = st /\ \A f \in Execs : f # e => exec'[f] = exec[f]
      /\ home'[e] = [sess |-> s, gen |-> gen[s]] /\ \A f \in Execs : f # e => home'[f] = home[f]
      /\ owner'[e] = o /\ \A f \in Execs : f # e => owner'[f] = owner[f]
      /\ state'[s] = "ACTIVE" /\ \A r \in Sessions : r # s => state'[r] = state[r]
  BY <1>0, <1>1 DEF HandleTypes
<1>3. strays \subseteq strays' /\ (closer[s].ph # "idle" => e \in strays')
  BY <1>1
<1>4. result[e] = "none" /\ canceller[e] = "idle"
  BY <1>0, <1>1 DEF Known
<1>5. Known'
  <2>1. \A f \in Execs : exec'[f] = "none" =>
            result'[f] = "none" /\ owner'[f] = "none" /\ canceller'[f] = "idle" /\ home'[f].sess = None
    BY <1>0, <1>1, <1>2 DEF Known
  <2>2. \A f \in Execs : exec'[f] # "none" => home'[f].sess \in Sessions
    BY <1>0, <1>2 DEF Known
  <2>3. \A f \in Directs : result'[f] = "none" /\ owner'[f] \in {"none", "running", "ended"}
    BY <1>0, <1>2, <1>4 DEF Known, CoordinatorAssumption
  <2>4. \A f \in Execs : /\ canceller'[f] = "lane" => f \in Scheduled
                         /\ owner'[f] = "running" => f \in Directs
    BY <1>0, <1>1, <1>2 DEF Known
  <2> QED BY <2>1, <2>2, <2>3, <2>4 DEF Known, Scheduled
<1>6. ClosedTerminal'
  <2> SUFFICES ASSUME NEW r \in Sessions, NEW f \in Execs, state'[r] = "CLOSED",
                      home'[f].sess = r, home'[f].gen = gen'[r]
               PROVE  Terminal(exec, f)'
    BY DEF ClosedTerminal, IsHome
  <2>1. r # s /\ f # e /\ state[r] = "CLOSED"
    BY <1>2
  <2> QED BY <1>0, <1>1, <1>2, <2>1 DEF ClosedTerminal, IsHome, Terminal
<1>7. DirectsKept'
  BY <1>0, <1>2, <1>3 DEF DirectsKept, Active
<1>8. DirectsSeen'
  <2> SUFFICES ASSUME NEW r \in Sessions, NEW f \in Execs, closer'[r].ph # "idle",
                      home'[f].sess = r, home'[f].gen = closer'[r].gen,
                      owner'[f] = "running", f \notin strays'
               PROVE  f \in (IF closer'[r].ph = "direct" THEN closer'[r].wait ELSE closer'[r].late)
    BY DEF DirectsSeen, IsHome
  <2>1. f # e
    BY <1>1, <1>2, <1>3
  <2> QED BY <1>0, <1>1, <1>2, <1>3, <2>1 DEF DirectsSeen, IsHome
<1>9. \A r \in Sessions : \A g : Over(r, g)' => Over(r, g)
  BY <1>1, <1>2 DEF Over
<1>10. \A g : Over(s, g)' => e \in strays'
  BY <1>1, <1>2, <1>3 DEF Over
<1> QED BY <1>2, <1>3, <1>4, <1>5, <1>6, <1>7, <1>8, <1>9, <1>10 DEF Admitted

\* A step that leaves the lanes' items alone, but gives one handle its home.
LEMMA AdmitQuiet ==
    ASSUME SchedulerAssumption, SchedInv, ItemHome, OverLanes, UNCHANGED laneVars,
           NEW e \in Execs, result[e] = "none",
           \A f \in Execs : f # e => home'[f] = home[f],
           \A r \in Sessions : \A g : Over(r, g)' => Over(r, g), strays \subseteq strays'
    PROVE  ItemHome' /\ OverLanes'
<1>1. queue' = queue /\ current' = current /\ lanes' = lanes /\ scope' = scope
  BY DEF laneVars
<1>2. \A l \in Execs : e \notin queue[l] /\ current[l] # e
  BY NotSubmitted
<1>3. ItemHome'
  BY <1>1, <1>2 DEF ItemHome
<1>4. OverLanes'
  BY <1>1 DEF OverLanes
<1> QED BY <1>3, <1>4

\* run_unary, run_stream and submit_unary.
LEMMA RequestWork ==
    ASSUME SchedulerAssumption, CoordinatorAssumption, SchedInv, CoordInv, WorkInv,
           NEW e \in Execs, NEW s \in Sessions, RunUnary(e, s) \/ SubmitLater(e, s) \/ RunDirect(e, s)
    PROVE  WorkInv'
<1>0. ItemHome /\ OverLanes /\ gen[s] \in Gens
  BY DEF WorkInv, CoordInv, HandleTypes
<1>1. CASE SubmitLater(e, s)
  <2>1. /\ NewExecution(e, s, "queued") /\ owner' = [owner EXCEPT ![e] = "start"]
        /\ UNCHANGED schedVars /\ e \notin Directs
    BY <1>1 DEF SubmitLater, CoordinatorAssumption
  <2>2. "start" \in OwnerStates \ {"none"} /\ UNCHANGED laneVars /\ UNCHANGED result
    BY <2>1 DEF OwnerStates, schedVars, laneVars
  <2> QED BY <1>0, <2>1, <2>2, AdmitParts, AdmitQuiet DEF WorkInv, Admitted
<1>2. CASE RunDirect(e, s)
  <2>1. /\ NewExecution(e, s, "running") /\ owner' = [owner EXCEPT ![e] = "running"]
        /\ UNCHANGED schedVars /\ e \in Directs
    BY <1>2 DEF RunDirect
  <2>2. "running" \in OwnerStates \ {"none"} /\ UNCHANGED laneVars /\ UNCHANGED result
    BY <2>1 DEF OwnerStates, schedVars, laneVars
  <2> QED BY <1>0, <2>1, <2>2, AdmitParts, AdmitQuiet DEF WorkInv, Admitted
<1>3. CASE RunUnary(e, s)
  <2>1. NewExecution(e, s, "queued") /\ e \notin Directs
    BY <1>3 DEF RunUnary, CoordinatorAssumption
  <2>2. CASE SubmitAndWait(e, s, gen[s]) /\ owner' = [owner EXCEPT ![e] = "submitted"]
    <3>1. "submitted" \in OwnerStates \ {"none"} /\ \A f \in Execs : f # e => result'[f] = result[f]
      BY <2>2 DEF OwnerStates, SubmitAndWait, SchedInv, SchedTypeOK
    <3>2. Admitted(e, s)
      BY <2>1, <2>2, <3>1, AdmitParts
    <3>3. ItemHome'
      BY <1>0, <2>2, <3>2, SubmitHome DEF Admitted
    <3>4. OverLanes'
      BY <1>0, <2>2, <3>2, SubmitOver DEF Admitted
    <3> QED BY <3>2, <3>3, <3>4 DEF WorkInv, Admitted
  <2>3. CASE SubmitRefused(e, s, gen[s]) /\ owner' = [owner EXCEPT ![e] = "ended"]
    <3>1. /\ "ended" \in OwnerStates \ {"none"} /\ UNCHANGED laneVars
          /\ \A f \in Execs : f # e => result'[f] = result[f]
      BY <2>3 DEF OwnerStates, SubmitRefused, SchedInv, SchedTypeOK
    <3> QED BY <1>0, <2>1, <2>3, <3>1, AdmitParts, AdmitQuiet DEF WorkInv, Admitted
  <2> QED BY <1>3, <2>2, <2>3 DEF RunUnary, Submit
<1> QED BY <1>1, <1>2, <1>3

-----------------------------------------------------------------------------
\* The first step of a task made by run_stream or submit_unary.
LEMMA OwnerStartsWork ==
    ASSUME SchedulerAssumption, CoordinatorAssumption, SchedInv, CoordInv, WorkInv,
           NEW e \in Execs, OwnerStarts(e)
    PROVE  WorkInv'
<1>0. /\ HandleTypes /\ GenerationsSound
      /\ Known /\ ItemHome /\ ClosedTerminal /\ OverLanes /\ DirectsKept /\ DirectsSeen
  BY DEF CoordInv, WorkInv
<1> DEFINE s == home[e].sess
           g == home[e].gen
<1>1. /\ owner[e] = "start"
      /\ strays' = IF closer[s].ph # "idle" \/ Terminal(exec, e) THEN strays \cup {e} ELSE strays
      /\ UNCHANGED <<gen, state, home, exec, canceller, closer>>
  BY DEF OwnerStarts
<1>2. s \in Sessions /\ g \in Gens /\ home[e] = [sess |-> s, gen |-> g]
  <2>1. s \in Sessions /\ home[e] \in Scopes
    BY <1>0, <1>1 DEF GenerationsSound, HandleTypes
  <2> QED BY <2>1 DEF Scopes
<1>3. e \notin Directs /\ exec[e] # "none"
  BY <1>0, <1>1 DEF Known
<1>4. \/ SubmitAndWait(e, s, g) /\ owner' = [owner EXCEPT ![e] = "submitted"]
      \/ SubmitRefused(e, s, g) /\ owner' = [owner EXCEPT ![e] = "ended"]
      \/ UNCHANGED schedVars /\ owner' = [owner EXCEPT ![e] = "ended"]
  BY DEF OwnerStarts, Submit
<1>5. /\ \A f \in Execs : f # e => owner'[f] = owner[f]
      /\ owner'[e] \in {"submitted", "ended"}
  BY <1>0, <1>4 DEF HandleTypes
<1>6. \A f \in Execs : f # e => result'[f] = result[f]
  BY <1>4 DEF SubmitAndWait, SubmitRefused, schedVars, SchedInv, SchedTypeOK
<1>7. strays \subseteq strays'
  BY <1>1
<1>8. Over(s, g) => e \in strays'
  BY <1>0, <1>1, <1>2 DEF Over, ClosedTerminal, IsHome
<1>9. \A r \in Sessions : \A h : Over(r, h)' <=> Over(r, h)
  BY <1>1 DEF Over
<1> HIDE DEF s, g
<1>10. Known'
  <2>1. \A f \in Execs : exec'[f] = "none" =>
            result'[f] = "none" /\ owner'[f] = "none" /\ canceller'[f] = "idle" /\ home'[f].sess = None
    BY <1>0, <1>1, <1>3, <1>5, <1>6 DEF Known
  <2>2. \A f \in Execs : exec'[f] # "none" => home'[f].sess \in Sessions
    BY <1>0, <1>1 DEF Known
  <2>3. \A f \in Directs : result'[f] = "none" /\ owner'[f] \in {"none", "running", "ended"}
    BY <1>0, <1>3, <1>5, <1>6 DEF Known, CoordinatorAssumption
  <2>4. \A f \in Execs : /\ canceller'[f] = "lane" => f \in Scheduled
                         /\ owner'[f] = "running" => f \in Directs
    BY <1>0, <1>1, <1>5 DEF Known
  <2> QED BY <2>1, <2>2, <2>3, <2>4 DEF Known, Scheduled
<1>11. ItemHome' /\ OverLanes'
  <2>1. CASE SubmitAndWait(e, s, g)
    <3>1. home'[e] = [sess |-> s, gen |-> g] /\ \A f \in Execs : f # e => home'[f] = home[f]
      BY <1>1, <1>2
    <3> QED BY <1>0, <1>2, <1>7, <1>8, <1>9, <2>1, <3>1, SubmitHome, SubmitOver
  <2>2. CASE UNCHANGED laneVars
    BY <1>0, <1>1, <1>7, <1>9, <2>2 DEF laneVars, ItemHome, OverLanes
  <2> QED BY <1>4, <2>1, <2>2 DEF SubmitRefused, schedVars, laneVars
<1>12. ClosedTerminal'
  BY <1>0, <1>1 DEF ClosedTerminal, IsHome, Terminal
<1>13. DirectsKept' /\ DirectsSeen'
  <2>1. \A f \in Execs : owner'[f] = "running" => owner[f] = "running"
    BY <1>5
  <2> QED BY <1>0, <1>1, <1>7, <2>1 DEF DirectsKept, DirectsSeen, IsHome, Active
<1> QED BY <1>10, <1>11, <1>12, <1>13 DEF WorkInv

-----------------------------------------------------------------------------
\* A step that changes one handle.
LEMMA SteadyOne ==
    ASSUME Known, NEW e \in Execs, Steady(e),
           \A f \in Execs : f # e => /\ exec'[f] = exec[f] /\ owner'[f] = owner[f]
                                     /\ canceller'[f] = canceller[f]
    PROVE  \A f \in Execs : Steady(f)
BY DEF Known, Steady, Active, Terminal

\* mark_terminal of a handle, by somebody who does not run it.
LEMMA MarkSteady ==
    ASSUME HandleTypes, Known, NEW e \in Execs, NEW st \in {"succeeded", "failed", "cancelled"},
           exec[e] # "none", exec' = MarkTerminal(e, st),
           owner' = owner \/ owner' = [owner EXCEPT ![e] = "ended"],
           canceller' = canceller \/ canceller' = [canceller EXCEPT ![e] = "idle"],
           owner'[e] = "running" => ~Active(exec, e)
    PROVE  \A f \in Execs : Steady(f)
<1>1. \A f \in Execs : f # e => /\ exec'[f] = exec[f] /\ owner'[f] = owner[f]
                                /\ canceller'[f] = canceller[f]
  BY DEF HandleTypes, MarkTerminal
<1>2. exec'[e] = IF Terminal(exec, e) THEN exec[e] ELSE st
  BY DEF HandleTypes, MarkTerminal
<1>3. Steady(e)
  <2>1. exec'[e] # "none" /\ (Terminal(exec, e) => exec'[e] = exec[e])
    BY <1>2
  <2>2. owner'[e] \in {owner[e], "ended"}
    BY DEF HandleTypes
  <2>3. canceller'[e] \in {canceller[e], "idle"}
    BY DEF HandleTypes
  <2> QED BY <2>1, <2>2, <2>3 DEF Steady
<1> QED BY <1>1, <1>3, SteadyOne

\* _refresh_session_state closes no record.
LEMMA RefreshClosesNone ==
    ASSUME HandleTypes, NEW e \in Execs, NEW h,
           \/ state' = RefreshOwn(e, h)
           \/ state' = [state EXCEPT ![home[e].sess] = Refreshed(home[e].sess, h)]
    PROVE  \A s \in Sessions : state'[s] = "CLOSED" => state[s] = "CLOSED"
BY DEF HandleTypes, RefreshOwn, Refreshed

\* The last part of cancel_execution, for a handle whose task has ended or that it
\* leaves alone.
LEMMA CancelDoneSteady ==
    ASSUME HandleTypes, Known, NEW e \in Execs, NEW late \in BOOLEAN, CancelDone(e, late),
           exec[e] # "none", UNCHANGED owner,
           late \/ owner[e] # "running" \/ ~Active(exec, e)
    PROVE  /\ \A f \in Execs : Steady(f)
           /\ \A s \in Sessions : state'[s] = "CLOSED" => state[s] = "CLOSED"
<1>1. /\ exec' = IF late THEN exec ELSE MarkTerminal(e, "cancelled")
      /\ state' = [state EXCEPT ![home[e].sess] = Refreshed(home[e].sess, exec')]
      /\ canceller' = [canceller EXCEPT ![e] = "idle"]
  BY DEF CancelDone
<1>2. CASE late
  <2>1. \A f \in Execs : f # e => canceller'[f] = canceller[f]
    BY <1>1 DEF HandleTypes
  <2>2. canceller'[e] = "idle"
    BY <1>1 DEF HandleTypes
  <2>3. Steady(e)
    BY <1>1, <1>2, <2>2 DEF Steady, Active
  <2> QED BY <1>1, <1>2, <2>1, <2>3, SteadyOne, RefreshClosesNone
<1>3. CASE ~late
  BY <1>1, <1>3, MarkSteady, RefreshClosesNone
<1> QED BY <1>2, <1>3

\* _request_direct_cancel and what follows if nothing has to be waited for.
LEMMA DirectCancelSteady ==
    ASSUME CoordinatorAssumption, SchedInv, HandleTypes, Known, NEW e \in Execs,
           NEW late \in BOOLEAN, RequestDirectCancel(e, late), exec[e] # "none", UNCHANGED owner
    PROVE  /\ Shrinks /\ \A f \in Execs : Steady(f)
           /\ \A s \in Sessions : state'[s] = "CLOSED" => state[s] = "CLOSED"
<1>1. Shrinks
  <2>1. CancelTasks({e}) \/ UNCHANGED schedVars
    BY DEF RequestDirectCancel, CancelHandleTasks
  <2>2. {e} \in SUBSET Execs
    OBVIOUS
  <2> QED BY <2>1, <2>2, SchedShrinks
<1>2. CASE HandleTaskLive(e)
  <2>1. /\ canceller' = [canceller EXCEPT ![e] = IF late THEN "late" ELSE "task"]
        /\ UNCHANGED <<exec, state>>
    BY <1>2 DEF RequestDirectCancel
  <2>2. \A f \in Execs : f # e => canceller'[f] = canceller[f]
    BY <2>1 DEF HandleTypes
  <2>3. canceller'[e] # "lane"
    BY <2>1 DEF HandleTypes
  <2>4. Steady(e)
    BY <2>1, <2>3 DEF Steady, Active
  <2> QED BY <1>1, <2>1, <2>2, <2>4, SteadyOne
<1>3. CASE ~HandleTaskLive(e)
  <2>1. CancelDone(e, late)
    BY <1>3 DEF RequestDirectCancel
  <2>2. owner[e] # "running" \/ ~Active(exec, e)
    BY <1>3 DEF HandleTaskLive, Known
  <2> QED BY <1>1, <2>1, <2>2, CancelDoneSteady
<1> QED BY <1>2, <1>3

-----------------------------------------------------------------------------
\* The steps of tasks and cancels keep the invariant.
LEMMA TaskWork ==
    ASSUME SchedulerAssumption, CoordinatorAssumption, SchedInv, CoordInv, WorkInv,
           NEW e \in Execs, TaskStep(e) \/ AbandonRequest(e) \/ CancelExecution(e)
    PROVE  WorkInv'
<1>0. HandleTypes /\ Known
  BY DEF CoordInv, WorkInv
<1> DEFINE Closes0 == \A s \in Sessions : state'[s] = "CLOSED" => state[s] = "CLOSED"
           Frame == UNCHANGED <<gen, home, closer, strays>>
<1>1. ASSUME Frame, Shrinks, \A f \in Execs : Steady(f), Closes0
      PROVE  WorkInv'
  BY <1>1, KeepsWork
<1>2. ASSUME Frame, Shrinks, UNCHANGED <<exec, owner, canceller>>, Closes0
      PROVE  WorkInv'
  <2>1. \A f \in Execs : Steady(f)
    BY <1>0, <1>2 DEF Steady, Known, Active
  <2> QED BY <1>1, <1>2, <2>1
<1>3. ASSUME NEW st \in {"succeeded", "failed", "cancelled"}, Frame, Shrinks, Closes0,
             exec' = MarkTerminal(e, st), exec[e] # "none", UNCHANGED canceller,
             owner' = owner \/ owner' = [owner EXCEPT ![e] = "ended"],
             owner'[e] # "running"
      PROVE  WorkInv'
  BY <1>0, <1>1, <1>3, MarkSteady
<1>4. task[e] # "none" => e \notin Directs /\ exec[e] # "none" /\ owner[e] # "running"
  <2>1. task[e] # "none" => result[e] # "none"
    BY DEF SchedInv, ItemsSound
  <2> QED BY <1>0, <2>1 DEF Known
<1>5. CASE Processor(e)
  <2>1. Shrinks
    BY <1>5, SchedShrinks DEF Processor
  <2> QED BY <1>2, <1>5, <2>1 DEF Processor, coordVars
<1>6. CASE AbandonRequest(e)
  <2>1. Shrinks
    BY <1>6, SchedShrinks DEF AbandonRequest
  <2> QED BY <1>2, <1>6, <2>1 DEF AbandonRequest, coordVars
<1>7. CASE StartOp(e)
  <2>1. Shrinks /\ exec[e] # "none"
    BY <1>4, <1>7, SchedShrinks DEF StartOp, StartTask
  <2>2. /\ Frame /\ UNCHANGED <<owner, canceller>>
        /\ exec' = exec \/ exec' = [exec EXCEPT ![e] = IF @ = "queued" THEN "running" ELSE @]
    BY <1>7 DEF StartOp
  <2>3. Closes0
    BY <1>0, <1>7 DEF StartOp, HandleTypes
  <2>4. Steady(e)
    BY <1>0, <2>1, <2>2 DEF Steady, HandleTypes, Active, Terminal
  <2>5. \A f \in Execs : f # e => exec'[f] = exec[f]
    BY <1>0, <2>2 DEF HandleTypes
  <2> QED BY <1>0, <1>1, <2>1, <2>2, <2>3, <2>4, <2>5, SteadyOne
<1>8. ASSUME NEW how \in Ends, EndOp(e, how)
      PROVE  WorkInv'
  <2>1. /\ Shrinks /\ Frame /\ UNCHANGED <<owner, canceller>>
        /\ exec' = MarkTerminal(e, EndState(how)) /\ state' = RefreshOwn(e, exec')
        /\ task[e] # "none"
    BY <1>8, SchedShrinks DEF EndOp, EndTask
  <2>2. EndState(how) \in {"succeeded", "failed", "cancelled"}
    BY DEF EndState, Ends, SchedulerAssumption
  <2> QED BY <1>0, <1>3, <1>4, <2>1, <2>2, RefreshClosesNone
<1>9. ASSUME NEW how \in Ends, StreamMarks(e, how)
      PROVE  WorkInv'
  <2>1. /\ Shrinks /\ Frame /\ UNCHANGED <<owner, canceller, state>>
        /\ exec' = MarkTerminal(e, EndState(how)) /\ task[e] # "none"
    BY <1>9, SchedShrinks DEF StreamMarks
  <2>2. EndState(how) \in {"succeeded", "failed", "cancelled"}
    BY DEF EndState, Ends, SchedulerAssumption
  <2> QED BY <1>0, <1>3, <1>4, <2>1, <2>2
<1>10. ASSUME NEW how \in Ends, EndDirect(e, how)
       PROVE  WorkInv'
  <2>1. /\ Shrinks /\ Frame /\ UNCHANGED canceller
        /\ owner' = [owner EXCEPT ![e] = "ended"] /\ owner[e] = "running"
        /\ exec' = MarkTerminal(e, EndState(how)) /\ state' = RefreshOwn(e, exec')
    BY <1>10, SchedShrinks DEF EndDirect
  <2>2. EndState(how) \in {"succeeded", "failed", "cancelled"}
    BY DEF EndState, Ends, SchedulerAssumption
  <2>3. owner'[e] # "running" /\ exec[e] # "none"
    BY <1>0, <2>1 DEF HandleTypes, Known
  <2> QED BY <1>0, <1>3, <2>1, <2>2, <2>3, RefreshClosesNone
<1>11. CASE StreamRefreshes(e)
  <2>1. /\ Shrinks /\ Frame /\ UNCHANGED <<exec, owner, canceller>> /\ state' = RefreshOwn(e, exec)
    BY <1>11, SchedShrinks DEF StreamRefreshes
  <2> QED BY <1>0, <1>2, <2>1, RefreshClosesNone
<1>12. ASSUME NEW how \in Ends, StreamEnds(e, how)
       PROVE  WorkInv'
  <2>1. Shrinks /\ Frame /\ UNCHANGED <<exec, owner, canceller, state>>
    BY <1>12, SchedShrinks DEF StreamEnds
  <2> QED BY <1>2, <2>1
<1>13. ASSUME Shrinks, Frame, OwnerGivesUp(e), UNCHANGED canceller, owner[e] \in {"submitted", "reaping"}
       PROVE  WorkInv'
  <2>1. /\ exec' = MarkTerminal(e, "cancelled") /\ state' = RefreshOwn(e, exec')
        /\ owner' = [owner EXCEPT ![e] = "ended"]
    BY <1>13 DEF OwnerGivesUp
  <2>2. owner'[e] # "running" /\ exec[e] # "none"
    BY <1>0, <1>13, <2>1 DEF HandleTypes, Known
  <2> QED BY <1>0, <1>3, <1>13, <2>1, <2>2, RefreshClosesNone
<1>14. CASE OwnerReturns(e)
  <2>1. Shrinks
    <3>1. (exec[e] = "queued") \in BOOLEAN
      OBVIOUS
    <3>2. UNCHANGED schedVars \/ \E q \in BOOLEAN : CancelHandle(e, q)
      BY <1>14, <3>1 DEF OwnerReturns
    <3> QED BY <3>2, SchedShrinks
  <2>2. /\ Frame /\ UNCHANGED canceller /\ owner[e] = "submitted"
        /\ \/ OwnerGivesUp(e)
           \/ /\ UNCHANGED <<exec, state>>
              /\ \E o \in {"ended", "reaping"} : owner' = [owner EXCEPT ![e] = o]
    BY <1>14 DEF OwnerReturns
  <2>3. CASE OwnerGivesUp(e)
    BY <1>13, <2>1, <2>2, <2>3
  <2>4. ASSUME UNCHANGED <<exec, state>>, NEW o \in {"ended", "reaping"},
               owner' = [owner EXCEPT ![e] = o]
        PROVE  WorkInv'
    <3>1. owner'[e] = o /\ \A f \in Execs : f # e => owner'[f] = owner[f]
      BY <1>0, <2>4 DEF HandleTypes
    <3>2. e \notin Directs /\ exec[e] # "none"
      BY <1>0, <2>2 DEF Known
    <3>3. Steady(e)
      BY <2>2, <2>4, <3>1, <3>2 DEF Steady
    <3> QED BY <1>0, <1>1, <2>1, <2>2, <2>4, <3>1, <3>3, SteadyOne
  <2> QED BY <2>2, <2>3, <2>4
<1>15. CASE OwnerReaps(e)
  <2>1. Shrinks
    BY <1>15, SchedShrinks DEF OwnerReaps
  <2> QED BY <1>13, <1>15, <2>1 DEF OwnerReaps
<1>16. CASE CancelExecution(e)
  <2>1. Frame /\ UNCHANGED owner /\ Active(exec, e)
    BY <1>16 DEF CancelExecution
  <2>2. exec[e] # "none"
    BY <2>1 DEF Active
  <2>3. ASSUME CancelHandle(e, exec[e] = "queued") PROVE Shrinks
    <3>1. (exec[e] = "queued") \in BOOLEAN
      OBVIOUS
    <3>2. \E q \in BOOLEAN : CancelHandle(e, q)
      BY <2>3, <3>1
    <3> QED BY <3>2, SchedShrinks
  <2>4. CASE e \in Scheduled /\ IsCurrent(e)
    <3>1. /\ CancelHandle(e, exec[e] = "queued")
          /\ canceller' = [canceller EXCEPT ![e] = "lane"] /\ UNCHANGED <<exec, state>>
      BY <1>16, <2>4 DEF CancelExecution
    <3>2. \A f \in Execs : f # e => canceller'[f] = canceller[f]
      BY <1>0, <3>1 DEF HandleTypes
    <3>3. Steady(e)
      BY <2>1, <2>2, <2>4, <3>1 DEF Steady, Active
    <3> QED BY <1>0, <1>1, <2>1, <2>3, <3>1, <3>2, <3>3, SteadyOne
  <2>5. CASE ~(e \in Scheduled /\ IsCurrent(e)) /\ e \in LatestFirst
    <3>1. CancelHandle(e, exec[e] = "queued") /\ CancelDone(e, FALSE)
      BY <1>16, <2>5 DEF CancelExecution
    <3>2. owner[e] # "running"
      BY <1>0, <2>5 DEF Known, CoordinatorAssumption
    <3> QED BY <1>0, <1>1, <2>1, <2>2, <2>3, <3>1, <3>2, CancelDoneSteady
  <2>6. CASE ~(e \in Scheduled /\ IsCurrent(e)) /\ e \notin LatestFirst
    <3>1. RequestDirectCancel(e, FALSE)
      BY <1>16, <2>6 DEF CancelExecution
    <3> QED BY <1>0, <1>1, <2>1, <2>2, <3>1, DirectCancelSteady
  <2> QED BY <2>4, <2>5, <2>6
<1>17. CASE CancelLaneWaited(e)
  <2>1. Frame /\ UNCHANGED owner /\ canceller[e] = "lane"
    BY <1>17 DEF CancelLaneWaited
  <2>2. exec[e] # "none" /\ e \in Scheduled
    BY <1>0, <2>1 DEF Known
  <2>3. owner[e] # "running"
    BY <1>0, <2>2 DEF Known, Scheduled, CoordinatorAssumption
  <2>4. TaskLive(e) \in BOOLEAN
    BY DEF TaskLive
  <2>5. CASE e \in Messages
    <3>1. RequestDirectCancel(e, TaskLive(e))
      BY <1>17, <2>5 DEF CancelLaneWaited
    <3> QED BY <1>0, <1>1, <2>1, <2>2, <2>4, <3>1, DirectCancelSteady
  <2>6. CASE e \notin Messages
    <3>1. CancelDone(e, TaskLive(e)) /\ UNCHANGED schedVars
      BY <1>17, <2>6 DEF CancelLaneWaited
    <3>2. Shrinks
      BY <3>1, SchedShrinks
    <3> QED BY <1>0, <1>1, <2>1, <2>2, <2>3, <2>4, <3>1, <3>2, CancelDoneSteady
  <2> QED BY <2>5, <2>6
<1>18. CASE CancelTaskWaited(e)
  <2> DEFINE late == canceller[e] = "late" \/ HandleTaskLive(e)
  <2>1. /\ Frame /\ UNCHANGED <<owner, schedVars>> /\ canceller[e] \in {"task", "late"}
        /\ CancelDone(e, late)
    BY <1>18 DEF CancelTaskWaited
  <2>2. exec[e] # "none" /\ Shrinks
    BY <1>0, <2>1, SchedShrinks DEF Known
  <2>3. late \/ owner[e] # "running" \/ ~Active(exec, e)
    BY <1>0 DEF HandleTaskLive, Known
  <2>4. late \in BOOLEAN
    OBVIOUS
  <2> HIDE DEF late
  <2> QED BY <1>0, <1>1, <2>1, <2>2, <2>3, <2>4, CancelDoneSteady
<1>19. WorkInv'
  <2> HIDE DEF Frame, Closes0
  <2> QED BY <1>5, <1>6, <1>7, <1>8, <1>9, <1>10, <1>11, <1>12, <1>14, <1>15, <1>16, <1>17, <1>18,
             OwnerStartsWork DEF TaskStep
<1> QED BY <1>19

-----------------------------------------------------------------------------
\* The lane of generation g of Session s, if it is there, has only strays.
Cleared(s, g) ==
    \A l, e \in Execs :
        lanes[s] = l /\ scope[l].gen = g /\ (e \in queue[l] \/ current[l] = e) => e \in strays

\* The same, and Over, in the next state.
ClearedNext(s, g) ==
    \A l, e \in Execs :
        lanes'[s] = l /\ scope'[l].gen = g /\ (e \in queue'[l] \/ current'[l] = e) => e \in strays'

OverNext(s, g) ==
    \/ state'[s] = "CLOSED" /\ gen'[s] = g
    \/ closer'[s].ph \in {"lane", "settle"} /\ closer'[s].gen = g

\* A step of a close of Session s: a generation counts as over from now on only if
\* its lane is cleared, and its direct work is known to the close.
LEMMA CloseWork ==
    ASSUME SchedulerAssumption, CoordinatorAssumption, SchedInv, WorkInv, Shrinks,
           \A e \in Execs : Steady(e), UNCHANGED <<gen, home, strays>>,
           NEW s \in Sessions,
           \A r \in Sessions : r # s => state'[r] = state[r] /\ closer'[r] = closer[r],
           \A g : OverNext(s, g) => Over(s, g) \/ ClearedNext(s, g),
           state'[s] = "CLOSED" =>
              \/ state[s] = "CLOSED"
              \/ \A e \in Execs : IsHome(e, s, gen[s]) => Terminal(exec, e)',
           closer'[s].ph # "idle" =>
              \A e \in Execs :
                 IsHome(e, s, closer'[s].gen) /\ owner[e] = "running" /\ e \notin strays =>
                 e \in (IF closer'[s].ph = "direct" THEN closer'[s].wait ELSE closer'[s].late)
    PROVE  WorkInv'
<1>0. Known /\ ItemHome /\ ClosedTerminal /\ OverLanes /\ DirectsKept /\ DirectsSeen
  BY DEF WorkInv
<1>1. Known' /\ ItemHome'
  BY <1>0, SteadyKnown, ShrinkHome
<1>2. ClosedTerminal'
  <2> SUFFICES ASSUME NEW r \in Sessions, NEW e \in Execs, state'[r] = "CLOSED",
                      IsHome(e, r, gen[r])
               PROVE  Terminal(exec, e)'
    BY DEF ClosedTerminal, IsHome
  <2>1. CASE state[r] = "CLOSED"
    BY <1>0, <2>1 DEF ClosedTerminal, Steady, Terminal
  <2>2. CASE state[r] # "CLOSED"
    <3>1. r = s
      BY <2>2
    <3> QED BY <2>2, <3>1
  <2> QED BY <2>1, <2>2
<1>3. OverLanes'
  <2> SUFFICES ASSUME NEW r \in Sessions, NEW l \in Execs, NEW e \in Execs,
                      lanes'[r] = l, Over(r, scope[l].gen)', e \in queue'[l] \/ current'[l] = e
               PROVE  e \in strays
    BY DEF OverLanes
  <2>1. lanes[r] = l /\ (e \in queue[l] \/ current[l] = e) /\ scope' = scope
    BY DEF Shrinks, SchedulerAssumption
  <2> DEFINE g == scope[l].gen
  <2>2. OverNext(r, g)
    BY <2>1 DEF Over, OverNext
  <2>3. CASE Over(r, g)
    BY <1>0, <2>1, <2>3 DEF OverLanes
  <2>4. CASE ~Over(r, g)
    <3> HIDE DEF g
    <3>1. r = s
      BY <2>2, <2>4 DEF Over, OverNext
    <3>2. ClearedNext(s, g)
      BY <2>2, <2>4, <3>1
    <3>3. scope'[l].gen = g
      BY <2>1 DEF g
    <3> QED BY <2>1, <3>1, <3>2, <3>3 DEF ClearedNext
  <2> QED BY <2>3, <2>4
<1>4. DirectsKept'
  BY <1>0 DEF DirectsKept, Steady
<1>5. DirectsSeen'
  <2> SUFFICES ASSUME NEW r \in Sessions, NEW e \in Execs, closer'[r].ph # "idle",
                      IsHome(e, r, closer'[r].gen), owner[e] = "running", e \notin strays
               PROVE  e \in (IF closer'[r].ph = "direct" THEN closer'[r].wait ELSE closer'[r].late)
    BY DEF DirectsSeen, IsHome, Steady
  <2>1. CASE r = s
    BY <2>1
  <2>2. CASE r # s
    BY <1>0, <2>2 DEF DirectsSeen
  <2> QED BY <2>1, <2>2
<1> QED BY <1>1, <1>2, <1>3, <1>4, <1>5 DEF WorkInv

\* The direct work of a generation that runs, except strays, is in a set.
KnownDirects(s, g, D) ==
    \A e \in Execs : IsHome(e, s, g) /\ owner[e] = "running" /\ e \notin strays => e \in D

\* The end of close_session.
LEMMA FinishWork ==
    ASSUME SchedulerAssumption, CoordinatorAssumption, SchedInv, CoordInv, WorkInv,
           NEW s \in Sessions, NEW g, NEW st, NEW late, CloseFinish(s, g, st, late),
           st # "CLOSED" \/ st = state[s], KnownDirects(s, g, late),
           Cleared(s, g), UNCHANGED <<schedVars, gen, home, owner, canceller, strays>>
    PROVE  WorkInv'
<1>0. HandleTypes /\ Known
  BY DEF CoordInv, WorkInv
<1> DEFINE mine == {e \in Execs : IsHome(e, s, g) /\ Active(exec, e)}
<1>1. /\ exec' = [e \in Execs |-> IF e \in mine \ late THEN "cancelled" ELSE exec[e]]
      /\ state' = [state EXCEPT ![s] = IF late = {} /\ gen[s] = g THEN "CLOSED" ELSE st]
      /\ closer' = [closer EXCEPT ![s] = NoClose]
  BY DEF CloseFinish
<1>2. Shrinks
  BY SchedShrinks
<1>3. ASSUME NEW e \in Execs PROVE Steady(e)
  <2>1. exec'[e] = IF e \in mine \ late THEN "cancelled" ELSE exec[e]
    BY <1>1
  <2>2. owner[e] = "running" /\ e \notin strays => e \notin mine \ late
    BY DEF KnownDirects
  <2>3. e \in mine => Active(exec, e)
    OBVIOUS
  <2> HIDE DEF mine
  <2> QED BY <1>0, <2>1, <2>2, <2>3 DEF Steady, Known, Active, Terminal
<1>4. \A r \in Sessions : r # s => state'[r] = state[r] /\ closer'[r] = closer[r]
  BY <1>0, <1>1 DEF HandleTypes
<1>5. state'[s] = "CLOSED" => state[s] = "CLOSED" \/ (late = {} /\ gen[s] = g)
  BY <1>0, <1>1 DEF HandleTypes
<1>6. closer'[s].ph = "idle"
  BY <1>0, <1>1 DEF HandleTypes, NoClose
<1>7. ASSUME NEW h, OverNext(s, h) PROVE Over(s, h) \/ ClearedNext(s, h)
  <2>1. state'[s] = "CLOSED" /\ gen[s] = h
    BY <1>6, <1>7 DEF OverNext
  <2>2. CASE state[s] = "CLOSED"
    BY <2>1, <2>2 DEF Over
  <2>3. CASE gen[s] = g
    BY <2>1, <2>3 DEF Cleared, ClearedNext, schedVars
  <2> QED BY <1>5, <2>1, <2>2, <2>3
<1>8. ASSUME state'[s] = "CLOSED", state[s] # "CLOSED", NEW e \in Execs, IsHome(e, s, gen[s])
      PROVE  Terminal(exec, e)'
  <2>1. late = {} /\ gen[s] = g
    BY <1>5, <1>8
  <2>2. exec[e] # "none" /\ exec[e] \in ExecStates
    <3>1. home[e].sess # None
      BY <1>8 DEF IsHome, SchedulerAssumption
    <3> QED BY <1>0, <3>1 DEF Known, HandleTypes
  <2>3. CASE Active(exec, e)
    BY <1>1, <1>8, <2>1, <2>3 DEF Terminal
  <2>4. CASE ~Active(exec, e)
    BY <1>1, <2>2, <2>4 DEF Terminal, Active, ExecStates
  <2> QED BY <2>3, <2>4
<1> HIDE DEF mine
<1> QED BY <1>2, <1>3, <1>4, <1>6, <1>7, <1>8, CloseWork

\* A step of a close that goes on to wait.
LEMMA WaitWork ==
    ASSUME SchedulerAssumption, CoordinatorAssumption, SchedInv, CoordInv, WorkInv, Shrinks,
           NEW s \in Sessions, NEW c, NEW st, st # "CLOSED" \/ st = state[s],
           closer' = [closer EXCEPT ![s] = c], state' = [state EXCEPT ![s] = st],
           c.ph \in {"direct", "lane", "settle"},
           c.ph # "direct" => ClearedNext(s, c.gen),
           KnownDirects(s, c.gen, IF c.ph = "direct" THEN c.wait ELSE c.late),
           UNCHANGED <<gen, home, exec, owner, canceller, strays>>
    PROVE  WorkInv'
<1>0. HandleTypes /\ Known
  BY DEF CoordInv, WorkInv
<1>1. \A e \in Execs : Steady(e)
  BY <1>0 DEF Steady, Known, Active
<1>2. /\ \A r \in Sessions : r # s => state'[r] = state[r] /\ closer'[r] = closer[r]
      /\ closer'[s] = c /\ state'[s] = st
  BY <1>0 DEF HandleTypes
<1>3. \A g : OverNext(s, g) => Over(s, g) \/ ClearedNext(s, g)
  BY <1>2 DEF Over, OverNext
<1>4. \A e \in Execs :
         IsHome(e, s, closer'[s].gen) /\ owner[e] = "running" /\ e \notin strays =>
         e \in (IF closer'[s].ph = "direct" THEN closer'[s].wait ELSE closer'[s].late)
  BY <1>2 DEF KnownDirects
<1>5. state'[s] = "CLOSED" => state[s] = "CLOSED"
  BY <1>2
<1> QED BY <1>1, <1>2, <1>3, <1>4, <1>5, CloseWork

\* close_session after its direct work.
LEMMA DetachWork ==
    ASSUME SchedulerAssumption, CoordinatorAssumption, SchedInv, CoordInv, WorkInv,
           NEW s \in Sessions, NEW g, NEW st, NEW active, NEW requested, NEW late,
           CloseDetach(s, g, st, active, requested, late),
           st # "CLOSED" \/ st = state[s], KnownDirects(s, g, late),
           UNCHANGED <<gen, home, owner, canceller, strays>>
    PROVE  WorkInv'
<1>0. SchedTypeOK
  BY DEF SchedInv
<1>1. CASE lanes[s] # None /\ scope[lanes[s]].gen = g
  <2> DEFINE c == [ph |-> "lane", gen |-> g, active |-> active, lane |-> lanes[s],
                   wait |-> {current[lanes[s]]} \ {None}, late |-> late]
  <2>1. /\ CloseLane(s, g)
        /\ closer' = [closer EXCEPT ![s] = c] /\ state' = [state EXCEPT ![s] = st]
        /\ UNCHANGED exec
    BY <1>1 DEF CloseDetach
  <2>2. Shrinks
    BY <2>1, SchedShrinks
  <2>3. lanes'[s] = None
    BY <1>0, <2>1 DEF CloseLane, SchedTypeOK
  <2>4. ClearedNext(s, g)
    BY <2>3 DEF ClearedNext, SchedulerAssumption
  <2>5. c.ph = "lane" /\ c.gen = g /\ c.late = late
    OBVIOUS
  <2> HIDE DEF c
  <2>6. ClearedNext(s, c.gen)
    BY <2>4, <2>5
  <2> QED BY <2>1, <2>2, <2>5, <2>6, WaitWork
<1>2. CASE ~(lanes[s] # None /\ scope[lanes[s]].gen = g)
  <2> DEFINE left == {e \in active \cap Scheduled : HandleTaskLive(e)}
             c == [ph |-> "settle", gen |-> g, active |-> active, lane |-> None,
                   wait |-> left, late |-> late]
  <2>1. /\ UNCHANGED schedVars
        /\ \/ CloseFinish(s, g, st, late)
           \/ /\ closer' = [closer EXCEPT ![s] = c] /\ state' = [state EXCEPT ![s] = st]
              /\ UNCHANGED exec
    BY <1>2 DEF CloseDetach
  <2>2. Cleared(s, g) /\ Shrinks
    BY <1>2, <2>1, SchedShrinks DEF Cleared, SchedulerAssumption
  <2>3. c.ph = "settle" /\ c.gen = g /\ c.late = late
    OBVIOUS
  <2> HIDE DEF c
  <2>4. ClearedNext(s, c.gen)
    BY <2>1, <2>2, <2>3 DEF Cleared, ClearedNext, schedVars
  <2>5. CASE CloseFinish(s, g, st, late)
    BY <2>1, <2>2, <2>5, FinishWork
  <2> QED BY <2>1, <2>2, <2>3, <2>4, <2>5, WaitWork
<1> QED BY <1>1, <1>2

\* The steps of Sessions keep the invariant.
LEMMA SessionWork ==
    ASSUME SchedulerAssumption, CoordinatorAssumption, SchedInv, CoordInv, WorkInv,
           NEW s \in Sessions, SessionStep(s)
    PROVE  WorkInv'
<1>0. /\ HandleTypes
      /\ Known /\ ItemHome /\ ClosedTerminal /\ OverLanes /\ DirectsKept /\ DirectsSeen
  BY DEF CoordInv, WorkInv
<1>1. \A e \in Directs : owner[e] = "running" /\ Active(exec, e) => HandleTaskLive(e)
  BY DEF HandleTaskLive
<1>2. CASE RegisterSession(s)
  <2>1. /\ state' = [state EXCEPT ![s] = "READY"] /\ gen' = [gen EXCEPT ![s] = @ + 1]
        /\ UNCHANGED <<schedVars, home, exec, owner, canceller, closer, strays>>
    BY <1>2 DEF RegisterSession
  <2>2. /\ state'[s] = "READY"
        /\ \A r \in Sessions : r # s => state'[r] = state[r] /\ gen'[r] = gen[r]
    BY <1>0, <2>1 DEF HandleTypes
  <2>3. Known' /\ ItemHome' /\ DirectsKept' /\ DirectsSeen'
    BY <1>0, <2>1 DEF schedVars, Known, ItemHome, DirectsKept, DirectsSeen, IsHome, Active
  <2>4. ClosedTerminal'
    BY <1>0, <2>1, <2>2 DEF ClosedTerminal, IsHome, Terminal
  <2>5. Shrinks
    BY <2>1, SchedShrinks
  <2>6. \A r \in Sessions : \A g : Over(r, g)' => Over(r, g)
    BY <2>1, <2>2 DEF Over
  <2>7. OverLanes'
    BY <1>0, <2>1, <2>5, <2>6, ShrinkOver
  <2> QED BY <2>3, <2>4, <2>7 DEF WorkInv
<1>3. ASSUME UNCHANGED <<gen, home, exec, owner, canceller, closer, strays>>, Shrinks,
             \A r \in Sessions : state'[r] = "CLOSED" => state[r] = "CLOSED"
      PROVE  WorkInv'
  <2>1. \A e \in Execs : Steady(e)
    BY <1>0, <1>3 DEF Steady, Known, Active
  <2> QED BY <1>3, <2>1, KeepsWork
<1>4. CASE QuiesceSession(s)
  <2>1. /\ Shrinks /\ UNCHANGED <<gen, home, exec, owner, canceller, closer, strays>>
        /\ state' = [state EXCEPT ![s] = "QUIESCING"]
    BY <1>4, SchedShrinks DEF QuiesceSession
  <2> QED BY <1>0, <1>3, <2>1 DEF HandleTypes
<1>5. CASE ShutdownLane(s)
  <2>1. Shrinks
    BY <1>5, SchedShrinks DEF ShutdownLane
  <2> QED BY <1>3, <1>5, <2>1 DEF ShutdownLane, coordVars
<1>6. CASE CloseBegin(s)
  <2> DEFINE active == {e \in Execs : IsHome(e, s, gen[s]) /\ Active(exec, e)}
             direct == active \cap (Messages \cup Directs)
             wait == {e \in direct : HandleTaskLive(e)}
  <2>1. UNCHANGED <<gen, home, owner, canceller, strays>>
    BY <1>6 DEF CloseBegin
  <2>2. KnownDirects(s, gen[s], wait)
    <3> SUFFICES ASSUME NEW e \in Execs, IsHome(e, s, gen[s]), owner[e] = "running", e \notin strays
                 PROVE  e \in wait
      BY DEF KnownDirects
    <3>1. e \in Directs /\ Active(exec, e)
      BY <1>0 DEF Known, DirectsKept
    <3> QED BY <1>1, <3>1
  <2>3. CASE wait = {}
    <3>1. CloseDetach(s, gen[s], "QUIESCING", active, direct, {})
      BY <1>6, <2>3 DEF CloseBegin
    <3>2. KnownDirects(s, gen[s], {})
      BY <2>2, <2>3
    <3> HIDE DEF active, direct, wait
    <3> QED BY <2>1, <3>1, <3>2, DetachWork
  <2>4. CASE wait # {}
    <3> DEFINE c == [ph |-> "direct", gen |-> gen[s], active |-> active,
                     lane |-> None, wait |-> wait, late |-> {}]
    <3>1. /\ CancelHandleTasks({e \in wait : ~cancelReq[e]})
          /\ closer' = [closer EXCEPT ![s] = c]
          /\ state' = [state EXCEPT ![s] = "QUIESCING"]
          /\ UNCHANGED exec
      BY <1>6, <2>4 DEF CloseBegin
    <3>2. Shrinks
      <4>1. {e \in wait : ~cancelReq[e]} \in SUBSET Execs
        OBVIOUS
      <4>2. \E D \in SUBSET Execs : CancelTasks(D)
        BY <3>1, <4>1 DEF CancelHandleTasks
      <4> QED BY <4>2, SchedShrinks
    <3> HIDE DEF wait, active
    <3>3. c.ph = "direct" /\ c.gen = gen[s] /\ c.wait = wait
      OBVIOUS
    <3> HIDE DEF c
    <3>4. KnownDirects(s, c.gen, IF c.ph = "direct" THEN c.wait ELSE c.late)
      BY <2>2, <3>3
    <3> QED BY <2>1, <3>1, <3>2, <3>3, <3>4, WaitWork
  <2> QED BY <2>3, <2>4
<1>7. CASE CloseDirectWaited(s)
  <2> DEFINE late == {e \in closer[s].wait : HandleTaskLive(e)}
  <2>1. /\ closer[s].ph = "direct"
        /\ CloseDetach(s, closer[s].gen, state[s], closer[s].active, {}, late)
        /\ UNCHANGED <<gen, home, owner, canceller, strays>>
    BY <1>7 DEF CloseDirectWaited
  <2>2. KnownDirects(s, closer[s].gen, late)
    <3> SUFFICES ASSUME NEW e \in Execs, IsHome(e, s, closer[s].gen), owner[e] = "running",
                        e \notin strays
                 PROVE  e \in late
      BY DEF KnownDirects
    <3>1. e \in Directs /\ Active(exec, e)
      BY <1>0 DEF Known, DirectsKept
    <3>2. e \in closer[s].wait
      BY <1>0, <2>1 DEF DirectsSeen
    <3> QED BY <1>1, <3>1, <3>2
  <2> HIDE DEF late
  <2> QED BY <2>1, <2>2, DetachWork
<1>8. CASE CloseWaited(s)
  <2> DEFINE late == closer[s].late \cup ClosePending(s)
  <2>1. /\ closer[s].ph \in {"lane", "settle"}
        /\ CloseFinish(s, closer[s].gen, state[s], late)
        /\ UNCHANGED <<schedVars, gen, home, owner, canceller, strays>>
    BY <1>8 DEF CloseWaited
  <2>2. KnownDirects(s, closer[s].gen, late)
    BY <1>0, <2>1 DEF KnownDirects, DirectsSeen
  <2>3. Cleared(s, closer[s].gen)
    BY <1>0, <2>1 DEF Cleared, OverLanes, Over
  <2> HIDE DEF late
  <2> QED BY <2>1, <2>2, <2>3, FinishWork
<1> QED BY <1>2, <1>4, <1>5, <1>6, <1>7, <1>8 DEF SessionStep

\* The three invariants hold together.
LEMMA WorkInvariant == Safety => [](SchedInv /\ CoordInv /\ Abandoned /\ WorkInv)
<1> USE SchedulerAssumption, CoordinatorAssumption
<1>1. Init => Abandoned /\ WorkInv
  <2> SUFFICES ASSUME Init PROVE Abandoned /\ WorkInv
    OBVIOUS
  <2>1. Abandoned
    BY DEF Init, SchedInit, Abandoned
  <2>2. Known
    BY DEF Init, SchedInit, Known, SchedulerAssumption, CoordinatorAssumption
  <2>3. ItemHome
    BY DEF Init, SchedInit, ItemHome, SchedulerAssumption
  <2>4. ClosedTerminal
    BY DEF Init, ClosedTerminal
  <2>5. OverLanes
    BY DEF Init, SchedInit, OverLanes, SchedulerAssumption
  <2>6. DirectsKept /\ DirectsSeen
    BY DEF Init, DirectsKept, DirectsSeen
  <2> QED BY <2>1, <2>2, <2>3, <2>4, <2>5, <2>6 DEF WorkInv
<1>2. SchedInv /\ CoordInv /\ Abandoned /\ WorkInv /\ [Next]_vars => Abandoned' /\ WorkInv'
  <2> SUFFICES ASSUME SchedInv, CoordInv, Abandoned, WorkInv, [Next]_vars
               PROVE  Abandoned' /\ WorkInv'
    OBVIOUS
  <2>1. [SchedNext]_schedVars
    BY NextRefines
  <2>2. ASSUME UNCHANGED coordVars, Shrinks
        PROVE  WorkInv'
    <3>1. \A e \in Execs : Steady(e)
      BY <2>2 DEF coordVars, Steady, WorkInv, Known, Active
    <3> QED BY <2>2, <3>1, KeepsWork DEF coordVars
  <2>3. ASSUME BeginShutdown PROVE WorkInv'
    <3>1. Shrinks /\ UNCHANGED <<gen, state, home, exec, owner, canceller, closer, strays>>
      BY <2>3, SchedShrinks DEF BeginShutdown
    <3>2. \A e \in Execs : Steady(e)
      BY <3>1 DEF Steady, WorkInv, Known, Active
    <3> QED BY <3>1, <3>2, KeepsWork
  <2>4. ASSUME ShutdownScheduler \/ UNCHANGED vars PROVE WorkInv'
    <3>1. Shrinks
      BY <2>4, SchedShrinks DEF ShutdownScheduler, vars
    <3> QED BY <2>2, <2>4, <3>1 DEF ShutdownScheduler, vars
  <2>5. WorkInv'
    BY <2>3, <2>4, RequestWork, TaskWork, SessionWork DEF Next, Request
  <2> QED BY <2>1, <2>5, AbandonedInv
<1>3. SchedInv /\ CoordInv /\ [Next]_vars => SchedInv' /\ CoordInv'
  <2> SUFFICES ASSUME SchedInv, CoordInv, [Next]_vars PROVE SchedInv' /\ CoordInv'
    OBVIOUS
  <2>1. [SchedNext]_schedVars
    BY NextRefines
  <2> QED BY <2>1, SchedNextInv, CoordNextInv
<1>4. Init => SchedInv /\ CoordInv
  BY SchedInitInv, CoordInitInv DEF Init
<1> QED BY <1>1, <1>2, <1>3, <1>4, PTL DEF Safety

\* Whatever mix of chats, streams and messages a Session has, and however its lanes
\* are closed, given up and made again: of the operations of one Session that run,
\* at most one was not cancelled.
THEOREM SecondOperationWasCancelled == Safety => []OneUncancelled
<1>1. SchedInv /\ CoordInv /\ Abandoned /\ WorkInv => OneUncancelled
  <2> SUFFICES ASSUME SchedInv, Abandoned, WorkInv, NEW e \in Scheduled, NEW f \in Scheduled,
                      task[e] = "running", task[f] = "running", home[e].sess = home[f].sess,
                      ~cancelling[e], ~cancelling[f]
               PROVE  e = f
    BY DEF OneUncancelled
  <2>1. e \in Execs /\ f \in Execs
    BY CoordinatorAssumption DEF CoordinatorAssumption
  <2>2. ASSUME NEW x \in Execs, task[x] = "running", ~cancelling[x]
        PROVE  \E l \in Execs : current[l] = x /\ l = lanes[home[x].sess]
    <3>1. PICK l \in Execs : current[l] = x /\ proc[l] = "awaiting"
      BY <2>2 DEF SchedInv, TaskOwned, TaskLive
    <3>2. Attached(l)
      BY <2>2, <3>1, SchedulerAssumption DEF Abandoned, TaskLive, SchedulerAssumption
    <3>3. home[x] = scope[l]
      BY <2>2, <3>1 DEF WorkInv, ItemHome
    <3> QED BY <3>1, <3>2, <3>3 DEF Attached
  <2> QED BY <2>1, <2>2
<1> QED BY <1>1, WorkInvariant, PTL

\* A Session that close_session reports closed has terminal handles only, no direct
\* work and no operation that was not cancelled, whatever closes timed out before
\* and whatever was cancelled meanwhile, except of strays: work that came while a
\* close waited or after its handle had ended.
THEOREM ClosedSessionsAreSettled == Safety => []ClosedIsSettled
<1>1. SchedInv /\ CoordInv /\ Abandoned /\ WorkInv => ClosedIsSettled
  <2> SUFFICES ASSUME SchedInv, CoordInv, Abandoned, WorkInv, NEW e \in Execs,
                      home[e].sess # None, state[home[e].sess] = "CLOSED", RecordCurrent(e)
               PROVE  /\ Terminal(exec, e)
                      /\ \/ e \in strays
                         \/ (TaskLive(e) => cancelling[e]) /\ owner[e] # "running"
    BY DEF ClosedIsSettled
  <2>0. Known /\ ItemHome /\ ClosedTerminal /\ OverLanes /\ DirectsKept
    BY DEF WorkInv
  <2> DEFINE s == home[e].sess
  <2>1. s \in Sessions /\ home[e].gen = gen[s]
    BY DEF CoordInv, HandleTypes, Scopes, RecordCurrent
  <2>2. Terminal(exec, e)
    BY <2>0, <2>1 DEF ClosedTerminal, IsHome
  <2>3. TaskLive(e) /\ ~cancelling[e] => e \in strays
    <3> SUFFICES ASSUME TaskLive(e), ~cancelling[e] PROVE e \in strays
      OBVIOUS
    <3>1. PICK l \in Execs : current[l] = e /\ proc[l] = "awaiting"
      BY DEF SchedInv, TaskOwned
    <3>2. Attached(l)
      BY <3>1, SchedulerAssumption DEF Abandoned, SchedulerAssumption
    <3>3. home[e] = scope[l]
      BY <2>0, <3>1 DEF ItemHome
    <3>4. lanes[s] = l /\ Over(s, scope[l].gen)
      BY <2>1, <3>2, <3>3 DEF Attached, Over
    <3> QED BY <2>0, <2>1, <3>1, <3>4 DEF OverLanes
  <2>4. owner[e] = "running" => e \in strays
    BY <2>0, <2>2 DEF DirectsKept, Active, Terminal
  <2> QED BY <2>2, <2>3, <2>4
<1> QED BY <1>1, WorkInvariant, PTL

=============================================================================
