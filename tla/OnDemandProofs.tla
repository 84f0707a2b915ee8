--------------------------- MODULE OnDemandProofs ---------------------------
(***************************************************************************)
(* Theorems about OnDemand for any sets of requests, sweepers, operators,  *)
(* processes and rows, any PID assignment and any window.                  *)
(***************************************************************************)
EXTENDS OnDemand, FiniteSetTheorems, TLAPS

CallType == [Threads -> [at : Steps, model : Models, proc : Procs \cup {NoProc}]]

-----------------------------------------------------------------------------
(* Type correctness. *)

\* Writing a frame keeps call a table of frames.
LEMMA FrameType ==
    ASSUME BackendTypeOK, NEW t \in Threads, NEW at \in Steps, NEW m \in Models,
           NEW p \in Procs \cup {NoProc},
           call' = [call EXCEPT ![t] = Frame(at, m, p)]
    PROVE  call' \in CallType
  BY DEF BackendTypeOK, Frame, CallType

\* The same for Goto, which keeps the frame's model.
LEMMA GotoType ==
    ASSUME BackendTypeOK, NEW t \in Threads, NEW at \in Steps, Goto(t, at)
    PROVE  call' \in CallType
  <1>1. call[t].model \in Models
    BY DEF BackendTypeOK
  <1> QED BY <1>1, FrameType DEF Goto

\* The same for a call that ends.
LEMMA EndsType ==
    ASSUME BackendTypeOK, NEW t \in Threads, NEW result \in Results, Ends(t, result)
    PROVE  call' \in CallType
  <1>1. result \in Steps /\ "idle" \in Steps
    BY DEF Steps, Results
  <1>2. CASE t \in Readers
    BY <1>1, <1>2, GotoType DEF Ends
  <1>3. CASE t \notin Readers
    BY <1>1, <1>3, GotoType DEF Ends
  <1> QED BY <1>2, <1>3

\* A step of start keeps the types of the process manager's state.
LEMMA StartType ==
    ASSUME BackendTypeOK, NEW t \in Threads, StartStep(t)
    PROVE  BackendTypeOK'
  <1> DEFINE m == call[t].model
  <1>0. m \in Models
    BY DEF BackendTypeOK
  <1>s. /\ "probe" \in Steps /\ "spawn" \in Steps
        /\ "ok" \in Results /\ "already" \in Results /\ "failed" \in Results
    BY DEF Steps, Results
  <1>1. CASE StartChecks(t)
    <2>1. call' \in CallType
      BY <1>1, <1>s, EndsType, GotoType DEF StartChecks
    <2>2. adopted' \in [Models -> Procs \cup {NoProc}]
      BY <1>1 DEF StartChecks, NotRunning, Forgotten, BackendTypeOK
    <2> QED BY <1>1, <2>1, <2>2 DEF StartChecks, osVars, BackendTypeOK, CallType
  <1>2. CASE StartProbes(t)
    <2>1. call' \in CallType
      BY <1>2, <1>s, EndsType, GotoType DEF StartProbes
    <2> QED BY <1>2, <2>1 DEF StartProbes, osVars, BackendTypeOK, CallType
  <1>3. CASE StartSpawns(t)
    <2>1. call' \in CallType
      BY <1>3, <1>s, EndsType DEF StartSpawns
    <2>2. Port[m] \in Nat
      BY <1>0, BackendAssumption
    <2>3. CASE UNCHANGED <<osVars, handle>>
      BY <1>3, <2>1, <2>3 DEF StartSpawns, osVars, BackendTypeOK, CallType
    <2>4. CASE \E p \in Procs :
                  /\ phase'  = [phase EXCEPT ![p] = "loading"]
                  /\ port'   = [port EXCEPT ![p] = Port[m]]
                  /\ origin' = [origin EXCEPT ![p] = "hub"]
                  /\ handle' = [handle EXCEPT ![m] = p]
      <3>1. phase' \in [Procs -> Phases] /\ origin' \in [Procs -> Origins]
        BY <2>4 DEF BackendTypeOK, Phases, Origins
      <3>2. port' \in [Procs -> Nat] /\ handle' \in [Models -> Procs \cup {NoProc}]
        BY <2>2, <2>4 DEF BackendTypeOK
      <3> QED BY <1>3, <2>1, <3>1, <3>2 DEF StartSpawns, BackendTypeOK, CallType
    <2> QED BY <1>3, <2>3, <2>4 DEF StartSpawns
  <1> QED BY <1>1, <1>2, <1>3 DEF StartStep

\* A step of stop keeps the types of the process manager's state.
LEMMA StopType ==
    ASSUME BackendTypeOK, NEW t \in Threads, StopStep(t)
    PROVE  BackendTypeOK'
  <1> DEFINE m == call[t].model
  <1>0. m \in Models
    BY DEF BackendTypeOK
  <1>s. /\ "ok" \in Results /\ "failed" \in Results
        /\ "wait" \in Steps /\ "forget" \in Steps /\ "kill" \in Steps
    BY DEF Steps, Results
  <1>1. CASE StopFindsAdopted(t)
    <2>1. adopted[m] \in Procs \cup {NoProc}
      BY <1>0 DEF BackendTypeOK
    <2>2. call' \in CallType
      BY <1>0, <1>1, <1>s, <2>1, FrameType DEF StopFindsAdopted
    <2> QED BY <1>1, <2>2 DEF StopFindsAdopted, osVars, BackendTypeOK, CallType
  <1>6. CASE StopForgets(t)
    <2>1. call[t].proc \in Procs \cup {NoProc}
      BY DEF BackendTypeOK
    <2>2. call' \in CallType
      BY <1>0, <1>6, <1>s, <2>1, FrameType DEF StopForgets
    <2> QED BY <1>6, <2>2 DEF StopForgets, Forgotten, osVars, BackendTypeOK, CallType
  <1>7. CASE StopKills(t)
    <2>1. call' \in CallType
      BY <1>7, <1>s, EndsType DEF StopKills
    <2>2. phase' \in [Procs -> Phases]
      BY <1>7 DEF StopKills, Killed, BackendTypeOK, Phases
    <2> QED BY <1>7, <2>1, <2>2 DEF StopKills, BackendTypeOK, CallType
  <1>2. CASE StopFindsNothing(t)
    <2>1. call' \in CallType
      BY <1>2, <1>s, EndsType DEF StopFindsNothing
    <2>2. /\ adopted' \in [Models -> Procs \cup {NoProc}]
          /\ handle' \in [Models -> Procs \cup {NoProc}]
      BY <1>2 DEF StopFindsNothing, NotRunning, Forgotten, BackendTypeOK
    <2> QED BY <1>2, <2>1, <2>2 DEF StopFindsNothing, osVars, BackendTypeOK, CallType
  <1>3. CASE StopSignals(t)
    <2>1. handle[m] \in Procs \cup {NoProc}
      BY <1>0 DEF BackendTypeOK
    <2>2. call' \in CallType
      BY <1>0, <1>3, <1>s, <2>1, FrameType DEF StopSignals
    <2>3. phase' \in [Procs -> Phases]
      BY <1>3 DEF StopSignals, BackendTypeOK, Phases
    <2> QED BY <1>3, <2>2, <2>3 DEF StopSignals, BackendTypeOK, CallType
  <1>4. CASE StopReaps(t)
    <2>1. call' \in CallType
      BY <1>4, <1>s, EndsType DEF StopReaps
    <2>2. handle' \in [Models -> Procs \cup {NoProc}]
      BY <1>4 DEF StopReaps, BackendTypeOK
    <2> QED BY <1>4, <2>1, <2>2 DEF StopReaps, osVars, BackendTypeOK, CallType
  <1>5. CASE StopGivesUp(t)
    <2>1. call' \in CallType
      BY <1>5, <1>s, EndsType DEF StopGivesUp
    <2> QED BY <1>5, <2>1 DEF StopGivesUp, osVars, BackendTypeOK, CallType
  <1> QED BY <1>1, <1>2, <1>3, <1>4, <1>5, <1>6, <1>7 DEF StopStep

\* A step of a process keeps the types of the process manager's state.
LEMMA OsType ==
    ASSUME BackendTypeOK, NEW p \in Procs, OsStep(p)
    PROVE  BackendTypeOK'
  <1>1. CASE Loads(p)
    BY <1>1 DEF Loads, BackendTypeOK, Phases
  <1>2. CASE Exits(p)
    BY <1>2 DEF Exits, BackendTypeOK, Phases, Origins
  <1>3. CASE Appears(p)
    BY <1>3 DEF Appears, BackendTypeOK, Phases, Origins
  <1> QED BY <1>1, <1>2, <1>3 DEF OsStep

\* A request that moves keeps the types of what it moves.
LEMMA MovesType ==
    ASSUME TypeOK, NEW r \in Requests, NEW station \in Stations, Moves(r, station)
    PROVE  /\ kind' = kind
           /\ pc' \in [Requests -> Stations]
           /\ quiet' \in 0..Window
  <1>1. 0 \in 0..Window
    BY OnDemandAssumption
  <1> QED BY <1>1 DEF Moves, Quieter, TypeOK

\* A step of ensure_ready keeps the type invariant.
LEMMA EnsureReadyType ==
    ASSUME TypeOK, NEW r \in Requests, EnsureReady(r)
    PROVE  TypeOK'
  <1>s. /\ "ready" \in Stations /\ "lock" \in Stations /\ "recheck" \in Stations
        /\ "starting" \in Stations /\ "poll" \in Stations /\ "answered" \in Stations
        /\ "idle" \in Steps /\ "check" \in Steps
    BY DEF Stations, Steps, Results
  <1>t. r \in Threads /\ Row \in Models
    BY OnDemandAssumption
  <1>1. CASE Probes(r)
    <2>1. kind' = kind /\ pc' \in [Requests -> Stations] /\ quiet' \in 0..Window
      BY <1>1, <1>s, MovesType DEF Probes
    <2> QED BY <1>1, <2>1 DEF Probes, TypeOK, BackendTypeOK, bpVars
  <1>2. CASE Acquires(r)
    <2>1. kind' = kind /\ pc' \in [Requests -> Stations] /\ quiet' \in 0..Window
      BY <1>2, <1>s, MovesType DEF Acquires
    <2> QED BY <1>2, <2>1 DEF Acquires, TypeOK, BackendTypeOK, bpVars
  <1>3. CASE Rechecks(r)
    <2>1. kind' = kind /\ pc' \in [Requests -> Stations] /\ quiet' \in 0..Window
      BY <1>3, <1>s, MovesType DEF Rechecks
    <2>2. lock' \in Requests \cup {NoOne}
      BY <1>3 DEF Rechecks, Releases, TypeOK
    <2>3. call' \in CallType
      <3>1. CASE UNCHANGED call
        BY <3>1 DEF TypeOK, BackendTypeOK, CallType
      <3>2. CASE StartCalled(r, Row)
        BY <3>2, <1>s, <1>t, FrameType DEF StartCalled, Calls, TypeOK
      <3> QED BY <1>3, <3>1, <3>2 DEF Rechecks
    <2>4. adopted' \in [Models -> Procs \cup {NoProc}]
      BY <1>3 DEF Rechecks, NotRunning, Forgotten, TypeOK, BackendTypeOK
    <2> QED BY <1>3, <2>1, <2>2, <2>3, <2>4
            DEF Rechecks, TypeOK, BackendTypeOK, osVars, CallType
  <1>4. CASE StartReturns(r)
    <2>1. kind' = kind /\ pc' \in [Requests -> Stations] /\ quiet' \in 0..Window
      BY <1>4, <1>s, MovesType DEF StartReturns
    <2>2. lock' \in Requests \cup {NoOne}
      BY <1>4 DEF StartReturns, Releases, TypeOK
    <2>3. call' \in CallType
      BY <1>4, <1>s, <1>t, GotoType DEF StartReturns, Returned, TypeOK
    <2> QED BY <1>4, <2>1, <2>2, <2>3
            DEF StartReturns, TypeOK, BackendTypeOK, osVars, CallType
  <1>5. CASE Polls(r)
    <2>1. kind' = kind /\ pc' \in [Requests -> Stations] /\ quiet' \in 0..Window
      BY <1>5, <1>s, MovesType DEF Polls
    <2> QED BY <1>5, <2>1 DEF Polls, Releases, TypeOK, BackendTypeOK, bpVars
  <1>6. CASE Expires(r)
    <2>1. kind' = kind /\ pc' \in [Requests -> Stations] /\ quiet' \in 0..Window
      BY <1>6, <1>s, MovesType DEF Expires
    <2> QED BY <1>6, <2>1 DEF Expires, Releases, TypeOK, BackendTypeOK, bpVars
  <1> QED BY <1>1, <1>2, <1>3, <1>4, <1>5, <1>6 DEF EnsureReady

\* A step of a request's dispatch keeps the type invariant.
LEMMA DispatchType ==
    ASSUME TypeOK, NEW r \in Requests, Arrives(r) \/ Dispatch(r)
    PROVE  TypeOK'
  <1>s. /\ "probe" \in Stations /\ "answered" \in Stations
        /\ "serving" \in Stations /\ "unread" \in Stations /\ "dropped" \in Stations
    BY DEF Stations
  <1>0. 0 \in Never..Window
    BY OnDemandAssumption DEF Never
  <1>1. CASE Arrives(r)
    <2>1. kind' = kind /\ pc' \in [Requests -> Stations] /\ quiet' \in 0..Window
      BY <1>1, <1>s, MovesType DEF Arrives
    <2> QED BY <1>1, <2>1 DEF Arrives, TypeOK, BackendTypeOK, bpVars
  <1>2. CASE Rejects(r)
    <2>1. kind' = kind /\ pc' \in [Requests -> Stations] /\ quiet' \in 0..Window
      BY <1>2, <1>s, MovesType DEF Rejects
    <2> QED BY <1>2, <2>1 DEF Rejects, TypeOK, BackendTypeOK, bpVars
  <1>3. CASE Dispatches(r)
    <2>1. kind' = kind /\ pc' \in [Requests -> Stations] /\ quiet' \in 0..Window
      BY <1>3, <1>s, MovesType DEF Dispatches
    <2>2. inFlight' \in Nat /\ age' \in Never..Window
      BY <1>3, <1>0 DEF Dispatches, RequestStarted, TypeOK
    <2> QED BY <1>3, <2>1, <2>2 DEF Dispatches, TypeOK, BackendTypeOK, bpVars
  <1>4. CASE StreamOpens(r)
    <2>1. kind' = kind /\ pc' \in [Requests -> Stations] /\ quiet' \in 0..Window
      BY <1>4, <1>s, MovesType DEF StreamOpens
    <2> QED BY <1>4, <2>1 DEF StreamOpens, TypeOK, BackendTypeOK, bpVars
  <1>5. CASE StreamDropped(r)
    <2>1. kind' = kind /\ pc' \in [Requests -> Stations] /\ quiet' \in 0..Window
      BY <1>5, <1>s, MovesType DEF StreamDropped
    <2> QED BY <1>5, <2>1 DEF StreamDropped, TypeOK, BackendTypeOK, bpVars
  <1>6. CASE Finishes(r)
    <2>1. kind' = kind /\ pc' \in [Requests -> Stations] /\ quiet' \in 0..Window
      BY <1>6, <1>s, MovesType DEF Finishes
    <2>2. inFlight' \in Nat /\ age' \in Never..Window
      BY <1>6, <1>0 DEF Finishes, RequestFinished, TypeOK
    <2> QED BY <1>6, <2>1, <2>2 DEF Finishes, TypeOK, BackendTypeOK, bpVars
  <1> QED BY <1>1, <1>2, <1>3, <1>4, <1>5, <1>6 DEF Dispatch

\* Steps of the watchdog, of an operator and of time keep the type invariant.
LEMMA HubType ==
    ASSUME TypeOK,
           \/ \E s \in Sweepers : Sweep(s)
           \/ \E o \in Operators : OperatorCalls(o)
           \/ Tick
    PROVE  TypeOK'
  <1>s. "check" \in Steps /\ "stop" \in Steps
    BY DEF Steps, Results
  <1>t. Row \in Models
    BY OnDemandAssumption
  <1>1. ASSUME NEW s \in Sweepers, SweepSkips(s)
        PROVE  TypeOK'
    <2>1. adopted' \in [Models -> Procs \cup {NoProc}]
      BY <1>1 DEF SweepSkips, NotRunning, Forgotten, TypeOK, BackendTypeOK
    <2> QED BY <1>1, <2>1 DEF SweepSkips, TypeOK, BackendTypeOK, osVars, odVars
  <1>2. ASSUME NEW s \in Sweepers, SweepArms(s)
        PROVE  TypeOK'
    <2>1. 0 \in Never..Window
      BY OnDemandAssumption DEF Never
    <2> QED BY <1>2, <2>1 DEF SweepArms, TypeOK, BackendTypeOK, bpVars
  <1>3. ASSUME NEW s \in Sweepers, SweepUnloads(s)
        PROVE  TypeOK'
    <2>1. s \in Threads
      BY OnDemandAssumption
    <2>2. call' \in CallType
      BY <1>3, <1>s, <1>t, <2>1, FrameType DEF SweepUnloads, StopCalled, Calls, TypeOK
    <2> QED BY <1>3, <2>2 DEF SweepUnloads, TypeOK, BackendTypeOK, osVars, odVars, CallType
  <1>4. ASSUME NEW o \in Operators, OperatorCalls(o)
        PROVE  TypeOK'
    <2>1. o \in Threads
      BY OnDemandAssumption
    <2>2. call' \in CallType
      BY <1>4, <1>s, <1>t, <2>1, FrameType
         DEF OperatorCalls, StartCalled, StopCalled, Calls, TypeOK
    <2> QED BY <1>4, <2>2 DEF OperatorCalls, TypeOK, BackendTypeOK, osVars, odVars, CallType
  <1>5. CASE Tick
    <2>1. age' \in Never..Window /\ quiet' \in 0..Window
      BY <1>5, OnDemandAssumption DEF Tick, TypeOK, Never
    <2> QED BY <1>5, <2>1 DEF Tick, TypeOK, BackendTypeOK, bpVars
  <1> QED BY <1>1, <1>2, <1>3, <1>4, <1>5 DEF Sweep

\* The initial states have the declared types.
LEMMA InitType == Init => TypeOK
  <1> SUFFICES ASSUME Init PROVE TypeOK
    OBVIOUS
  <1>1. Row \in Models /\ Port[Row] \in Nat
    BY OnDemandAssumption, BackendAssumption
  <1>2. kind \in [Requests -> {"chat", "stream", "audio"}]
    <2>1. PICK K \in RowKinds : kind \in [Requests -> K]
      BY DEF Init
    <2>2. K \subseteq {"chat", "stream", "audio"}
      BY <2>1 DEF RowKinds
    <2> QED BY <2>1, <2>2
  <1>3. call \in CallType
    BY <1>1 DEF Init, CallType, Frame, Steps, Results
  <1>4. /\ phase \in [Procs -> Phases]
        /\ port \in [Procs -> Nat]
        /\ origin \in [Procs -> Origins]
        /\ handle \in [Models -> Procs \cup {NoProc}]
        /\ adopted \in [Models -> Procs \cup {NoProc}]
    BY <1>1 DEF Init, Phases, Origins
  <1>5. /\ pc \in [Requests -> Stations]
        /\ lock \in Requests \cup {NoOne}
        /\ inFlight \in Nat
        /\ age \in Never..Window
        /\ quiet \in 0..Window
    BY OnDemandAssumption DEF Init, Stations, Never
  <1> QED BY <1>2, <1>3, <1>4, <1>5 DEF TypeOK, BackendTypeOK, CallType

\* Type correctness: every state of the process manager and of on_demand.py
\* keeps the types of its variables.
THEOREM TypeCorrect == Spec => []TypeOK
  <1>1. TypeOK /\ [Next]_vars => TypeOK'
    <2> SUFFICES ASSUME TypeOK, [Next]_vars PROVE TypeOK'
      OBVIOUS
    <2>1. ASSUME NEW r \in Requests, Arrives(r) \/ EnsureReady(r) \/ Dispatch(r)
          PROVE  TypeOK'
      BY <2>1, EnsureReadyType, DispatchType
    <2>2. ASSUME NEW t \in Threads, CallStep(t)
          PROVE  TypeOK'
      <3>1. BackendTypeOK'
        BY <2>2, StartType, StopType DEF CallStep, TypeOK
      <3> QED BY <2>2, <3>1 DEF CallStep, odVars, TypeOK
    <2>3. ASSUME NEW p \in Procs, OsStep(p), UNCHANGED odVars
          PROVE  TypeOK'
      <3>1. BackendTypeOK'
        BY <2>3, OsType DEF TypeOK
      <3> QED BY <2>3, <3>1 DEF odVars, TypeOK
    <2>4. CASE UNCHANGED vars
      BY <2>4 DEF vars, bpVars, odVars, TypeOK, BackendTypeOK
    <2> QED BY <2>1, <2>2, <2>3, <2>4, HubType DEF Next
  <1> QED BY InitType, <1>1, PTL DEF Spec

-----------------------------------------------------------------------------
(* The in-flight count. *)

\* A request that moves enters or leaves the tracked set by itself.
LEMMA TrackedMoves ==
    ASSUME TypeOK, NEW r \in Requests, NEW station \in Stations, Moves(r, station)
    PROVE  /\ Tracked(r)' <=> kind[r] # "audio" /\ station \in {"serving", "unread", "dropped"}
           /\ Tracked(r)' => TrackedSet' = TrackedSet \cup {r}
           /\ ~Tracked(r)' => TrackedSet' = TrackedSet \ {r}
           /\ quiet' = IF TrackedSet' = {} THEN quiet ELSE 0
  <1>1. pc' = [pc EXCEPT ![r] = station] /\ kind' = kind
    BY DEF Moves
  <1>2. \A q \in Requests : q # r => (Tracked(q)' <=> Tracked(q))
    BY <1>1 DEF Tracked, TypeOK
  <1>3. pc'[r] = station
    BY <1>1 DEF TypeOK
  <1>4. quiet' = Quieter(quiet)
    BY DEF Moves
  <1>5. TrackedSet' = {} <=> ~ \E q \in Requests : Tracked(q)'
    BY DEF TrackedSet
  <1>6. Tracked(r)' <=> kind[r] # "audio" /\ station \in {"serving", "unread", "dropped"}
    BY <1>1, <1>3 DEF Tracked
  <1>7. Tracked(r)' => TrackedSet' = TrackedSet \cup {r}
    BY <1>2 DEF TrackedSet
  <1>8. ~Tracked(r)' => TrackedSet' = TrackedSet \ {r}
    BY <1>2 DEF TrackedSet
  <1> QED BY <1>4, <1>5, <1>6, <1>7, <1>8 DEF Quieter

\* A request that moves from one station outside the tracker's block to another,
\* or from one inside it to another, leaves the tracked set alone.
LEMMA TrackedStays ==
    ASSUME TypeOK, NEW r \in Requests, NEW station \in Stations, Moves(r, station),
           kind[r] = "audio" \/ (pc[r] \in {"serving", "unread", "dropped"}
                                  <=> station \in {"serving", "unread", "dropped"})
    PROVE  /\ TrackedSet' = TrackedSet
           /\ quiet' = IF TrackedSet = {} THEN quiet ELSE 0
  <1>1. Tracked(r)' <=> Tracked(r)
    BY TrackedMoves DEF Tracked
  <1>2. Tracked(r) <=> r \in TrackedSet
    BY DEF TrackedSet
  <1>3. TrackedSet' = TrackedSet
    BY <1>1, <1>2, TrackedMoves
  <1> QED BY <1>3, TrackedMoves

\* The tracked set is finite, and the cardinality of one is 0 when it is empty.
LEMMA TrackedFinite ==
    /\ IsFiniteSet(TrackedSet)
    /\ Cardinality(TrackedSet) \in Nat
    /\ Cardinality(TrackedSet) = 0 <=> TrackedSet = {}
  <1>1. TrackedSet \subseteq Requests
    BY DEF TrackedSet
  <1>2. IsFiniteSet(TrackedSet)
    BY <1>1, FS_Subset, OnDemandAssumption
  <1> QED BY <1>2, FS_CardinalityType, FS_EmptySet

\* Everything that is neither the start nor the end of a tracker.
Neutral == UNCHANGED inFlight /\ TrackedSet' = TrackedSet

\* ensure_ready neither opens nor closes a tracker, and leaves the clock alone.
LEMMA EnsureReadyNeutral ==
    ASSUME TypeOK, NEW r \in Requests, Arrives(r) \/ EnsureReady(r)
    PROVE  Neutral /\ UNCHANGED age /\ quiet' = IF TrackedSet = {} THEN quiet ELSE 0
  <1>s. /\ "ready" \in Stations /\ "lock" \in Stations /\ "recheck" \in Stations
        /\ "starting" \in Stations /\ "poll" \in Stations
        /\ "answered" \in Stations /\ "probe" \in Stations
    BY DEF Stations
  <1>1. CASE Arrives(r)
    BY <1>1, <1>s, TrackedStays DEF Arrives, Neutral
  <1>2. CASE Probes(r)
    BY <1>2, <1>s, TrackedStays DEF Probes, Neutral
  <1>3. CASE Acquires(r)
    BY <1>3, <1>s, TrackedStays DEF Acquires, Neutral
  <1>4. CASE Rechecks(r)
    BY <1>4, <1>s, TrackedStays DEF Rechecks, Neutral
  <1>5. CASE StartReturns(r)
    BY <1>5, <1>s, TrackedStays DEF StartReturns, Neutral
  <1>6. CASE Polls(r)
    BY <1>6, <1>s, TrackedStays DEF Polls, Neutral
  <1>7. CASE Expires(r)
    BY <1>7, <1>s, TrackedStays DEF Expires, Neutral
  <1> QED BY <1>1, <1>2, <1>3, <1>4, <1>5, <1>6, <1>7 DEF EnsureReady

\* Neither does a step of the dispatch that is not Dispatches or Finishes.
LEMMA DispatchNeutral ==
    ASSUME TypeOK, NEW r \in Requests, Rejects(r) \/ StreamOpens(r) \/ StreamDropped(r)
    PROVE  Neutral /\ UNCHANGED age /\ quiet' = IF TrackedSet = {} THEN quiet ELSE 0
  <1>s. "answered" \in Stations /\ "serving" \in Stations /\ "dropped" \in Stations
    BY DEF Stations
  <1>1. CASE Rejects(r)
    BY <1>1, <1>s, TrackedStays DEF Rejects, Neutral
  <1>2. CASE StreamOpens(r)
    BY <1>2, <1>s, TrackedStays DEF StreamOpens, Neutral
  <1>3. CASE StreamDropped(r)
    BY <1>3, <1>s, TrackedStays DEF StreamDropped, Neutral
  <1> QED BY <1>1, <1>2, <1>3

\* Dispatches opens the tracker of a counted request: one more is tracked.
LEMMA DispatchesTracks ==
    ASSUME TypeOK, NEW r \in Requests, Dispatches(r)
    PROVE  \/ /\ kind[r] = "audio" /\ Neutral /\ UNCHANGED age
              /\ quiet' = IF TrackedSet = {} THEN quiet ELSE 0
           \/ /\ inFlight' = inFlight + 1 /\ quiet' = 0 /\ TrackedSet' # {}
              /\ r \notin TrackedSet /\ TrackedSet' = TrackedSet \cup {r}
  <1>s. "serving" \in Stations /\ "unread" \in Stations
    BY DEF Stations
  <1>1. CASE kind[r] = "audio"
    BY <1>1, <1>s, TrackedStays DEF Dispatches, Neutral
  <1>2. CASE kind[r] # "audio"
    <2>1. inFlight' = inFlight + 1
      BY <1>2 DEF Dispatches, RequestStarted
    <2>2. Moves(r, "serving") \/ Moves(r, "unread")
      BY DEF Dispatches
    <2>3. TrackedSet' = TrackedSet \cup {r} /\ quiet' = 0
      BY <1>2, <1>s, <2>2, TrackedMoves
    <2>4. r \notin TrackedSet
      BY DEF Dispatches, TrackedSet, Tracked
    <2> QED BY <2>1, <2>3, <2>4
  <1> QED BY <1>1, <1>2

\* Finishes closes it.
LEMMA FinishesUntracks ==
    ASSUME TypeOK, NEW r \in Requests, Finishes(r)
    PROVE  \/ /\ kind[r] = "audio" /\ Neutral /\ UNCHANGED age
              /\ quiet' = IF TrackedSet = {} THEN quiet ELSE 0
           \/ /\ r \in TrackedSet /\ TrackedSet' = TrackedSet \ {r}
              /\ RequestFinished
              /\ quiet' = IF TrackedSet' = {} THEN quiet ELSE 0
  <1>s. "answered" \in Stations
    BY DEF Stations
  <1>1. CASE kind[r] = "audio"
    BY <1>1, <1>s, TrackedStays DEF Finishes, Tracked, Neutral
  <1>2. CASE kind[r] # "audio"
    <2>1. Tracked(r)
      BY <1>2 DEF Finishes, Tracked
    <2>2. r \in TrackedSet /\ RequestFinished
      BY <2>1 DEF Finishes, TrackedSet
    <2>3. Moves(r, "answered")
      BY DEF Finishes
    <2>4. /\ TrackedSet' = TrackedSet \ {r}
          /\ quiet' = IF TrackedSet' = {} THEN quiet ELSE 0
      BY <1>s, <2>3, TrackedMoves
    <2> QED BY <2>2, <2>4
  <1> QED BY <1>1, <1>2

\* A step of anybody but the requests leaves kind and pc alone.
LEMMA OthersNeutral ==
    ASSUME UNCHANGED <<kind, pc>>
    PROVE  TrackedSet' = TrackedSet
  BY DEF TrackedSet, Tracked

\* The count stays accurate.
LEMMA CountStep ==
    ASSUME TypeOK, InFlightAccurate, [Next]_vars
    PROVE  InFlightAccurate'
  <1>0. ASSUME Neutral PROVE InFlightAccurate'
    BY <1>0 DEF Neutral, InFlightAccurate
  <1>1. ASSUME NEW r \in Requests, Dispatches(r)
        PROVE  InFlightAccurate'
    <2>1. CASE Neutral
      BY <1>0, <2>1
    <2>2. CASE /\ inFlight' = inFlight + 1
               /\ r \notin TrackedSet /\ TrackedSet' = TrackedSet \cup {r}
      <3>1. Cardinality(TrackedSet \cup {r}) = Cardinality(TrackedSet) + 1
        BY <2>2, TrackedFinite, FS_AddElement
      <3> QED BY <2>2, <3>1 DEF InFlightAccurate
    <2> QED BY <1>1, <2>1, <2>2, DispatchesTracks
  <1>2. ASSUME NEW r \in Requests, Finishes(r)
        PROVE  InFlightAccurate'
    <2>1. CASE Neutral
      BY <1>0, <2>1
    <2>2. CASE r \in TrackedSet /\ TrackedSet' = TrackedSet \ {r} /\ RequestFinished
      <3>1. Cardinality(TrackedSet \ {r}) = Cardinality(TrackedSet) - 1
        BY <2>2, TrackedFinite, FS_RemoveElement
      <3>2. inFlight # 0
        BY <2>2, TrackedFinite DEF InFlightAccurate
      <3> QED BY <2>2, <3>1, <3>2 DEF InFlightAccurate, RequestFinished
    <2> QED BY <1>2, <2>1, <2>2, FinishesUntracks
  <1>3. ASSUME NEW r \in Requests,
               Arrives(r) \/ EnsureReady(r) \/ Rejects(r) \/ StreamOpens(r) \/ StreamDropped(r)
        PROVE  InFlightAccurate'
    BY <1>0, <1>3, EnsureReadyNeutral, DispatchNeutral
  <1>4. CASE UNCHANGED <<kind, pc, inFlight>>
    BY <1>0, <1>4, OthersNeutral DEF Neutral
  <1>5. CASE \E s \in Sweepers : Sweep(s)
    BY <1>4, <1>5 DEF Sweep, SweepSkips, SweepArms, SweepUnloads, odVars
  <1>6. CASE \/ \E t \in Threads : CallStep(t)
             \/ \E o \in Operators : OperatorCalls(o)
             \/ \E p \in Procs : OsStep(p) /\ UNCHANGED odVars
             \/ Tick
             \/ UNCHANGED vars
    BY <1>4, <1>6 DEF CallStep, OperatorCalls, Tick, odVars, vars
  <1> QED BY <1>1, <1>2, <1>3, <1>5, <1>6 DEF Next, Dispatch

\* The in-flight count is the number of open trackers, for any number of
\* requests of any kind, whatever way each of them ends.
THEOREM InFlightCorrect == Spec => []InFlightAccurate
  <1>1. Init => InFlightAccurate
    <2> SUFFICES ASSUME Init PROVE InFlightAccurate
      OBVIOUS
    <2>1. TrackedSet = {}
      BY DEF Init, TrackedSet, Tracked
    <2> QED BY <2>1, TrackedFinite DEF Init, InFlightAccurate
  <1> QED BY <1>1, TypeCorrect, CountStep, PTL DEF Spec

-----------------------------------------------------------------------------
(* The idle window. *)

\* The clock on_demand.py keeps is never ahead of the requests' own history.
ClockSound ==
    /\ TrackedSet # {} => quiet = 0
    /\ TrackedSet = {} /\ age # Never => age <= quiet

\* No step makes the clock run ahead.
LEMMA ClockStep ==
    ASSUME TypeOK, ClockSound, [Next]_vars
    PROVE  ClockSound'
  <1>t. /\ age \in Int /\ quiet \in Int /\ Window \in Int
        /\ 0 <= quiet /\ quiet <= Window /\ age <= Window
    BY OnDemandAssumption DEF TypeOK, Never
  <1>0. ASSUME TrackedSet' = TrackedSet, UNCHANGED age,
               quiet' = IF TrackedSet = {} THEN quiet ELSE 0
        PROVE  ClockSound'
    BY <1>0 DEF ClockSound
  <1>1. ASSUME NEW r \in Requests, Dispatches(r)
        PROVE  ClockSound'
    BY <1>0, <1>1, DispatchesTracks DEF Neutral, ClockSound
  <1>2. ASSUME NEW r \in Requests, Finishes(r)
        PROVE  ClockSound'
    <2>1. CASE Neutral /\ UNCHANGED age /\ quiet' = IF TrackedSet = {} THEN quiet ELSE 0
      BY <1>0, <2>1 DEF Neutral
    <2>2. CASE RequestFinished /\ quiet' = IF TrackedSet' = {} THEN quiet ELSE 0
      <3>1. age' = 0 /\ 0 <= quiet'
        BY <1>t, <2>2 DEF RequestFinished
      <3> QED BY <2>2, <3>1 DEF ClockSound
    <2> QED BY <1>2, <2>1, <2>2, FinishesUntracks
  <1>3. ASSUME NEW r \in Requests,
               Arrives(r) \/ EnsureReady(r) \/ Rejects(r) \/ StreamOpens(r) \/ StreamDropped(r)
        PROVE  ClockSound'
    BY <1>0, <1>3, EnsureReadyNeutral, DispatchNeutral DEF Neutral
  <1>4. CASE UNCHANGED odVars
    <2>1. TrackedSet' = TrackedSet /\ UNCHANGED <<age, quiet>>
      BY <1>4, OthersNeutral DEF odVars
    <2> QED BY <2>1 DEF ClockSound
  <1>5. ASSUME NEW s \in Sweepers, SweepArms(s)
        PROVE  ClockSound'
    <2>1. TrackedSet' = TrackedSet
      BY <1>5, OthersNeutral DEF SweepArms
    <2>2. age' = 0 /\ quiet' = quiet
      BY <1>5 DEF SweepArms
    <2> QED BY <1>t, <2>1, <2>2 DEF ClockSound
  <1>6. CASE Tick
    <2>1. TrackedSet' = TrackedSet
      BY <1>6, OthersNeutral DEF Tick
    <2>2. CASE TrackedSet # {}
      BY <1>6, <2>1, <2>2 DEF Tick, ClockSound
    <2>3. CASE TrackedSet = {} /\ age = Never
      BY <1>6, <2>1, <2>3 DEF Tick, ClockSound
    <2>4. CASE TrackedSet = {} /\ age # Never
      <3>1. age <= quiet
        BY <2>4 DEF ClockSound
      <3>2. age' <= quiet'
        BY <1>6, <1>t, <2>4, <3>1 DEF Tick
      <3> QED BY <2>1, <2>4, <3>2 DEF ClockSound
    <2> QED BY <2>2, <2>3, <2>4
  <1>7. ASSUME NEW s \in Sweepers, SweepSkips(s) \/ SweepUnloads(s)
        PROVE  ClockSound'
    BY <1>4, <1>7 DEF SweepSkips, SweepUnloads
  <1>8. CASE \/ \E t \in Threads : CallStep(t)
             \/ \E o \in Operators : OperatorCalls(o)
             \/ \E p \in Procs : OsStep(p) /\ UNCHANGED odVars
             \/ UNCHANGED vars
    BY <1>4, <1>8 DEF CallStep, OperatorCalls, vars
  <1> QED BY <1>1, <1>2, <1>3, <1>5, <1>6, <1>7, <1>8 DEF Next, Dispatch, Sweep

\* A thread inside start or stop does not decide anything, and changes only its
\* own frame.
LEMMA CallMoves ==
    ASSUME TypeOK, NEW t \in Threads, NEW s \in Threads, StartStep(t) \/ StopStep(t)
    PROVE  ~Decides(s)
  <1>1. call[t].at # "idle" /\ \E f : call' = [call EXCEPT ![t] = f]
    BY DEF StartStep, StartChecks, StartProbes, StartSpawns, StopStep, StopFindsAdopted,
           StopForgets, StopKills, StopFindsNothing, StopSignals, StopReaps, StopGivesUp,
           Ends, Goto
  <1>2. s # t => call'[s] = call[s]
    BY <1>1
  <1> QED BY <1>1, <1>2 DEF Decides

\* Only the watchdog's own pass decides to unload.
LEMMA OnlySweepDecides ==
    ASSUME TypeOK, [Next]_vars, NEW s \in Sweepers, Decides(s)
    PROVE  \E x \in Sweepers : SweepUnloads(x)
  <1>s. s \in Threads /\ s \notin Requests /\ s \notin Operators
    BY OnDemandAssumption
  <1>1. ASSUME UNCHANGED call PROVE FALSE
    BY <1>1 DEF Decides
  <1>2. ASSUME NEW x \in Threads, x # s, NEW f, call' = [call EXCEPT ![x] = f]
        PROVE  FALSE
    BY <1>2, <1>s DEF Decides
  <1>3. ASSUME NEW r \in Requests, Arrives(r) \/ EnsureReady(r) \/ Dispatch(r)
        PROVE  FALSE
    <2>1. UNCHANGED call \/ \E f : call' = [call EXCEPT ![r] = f]
      BY <1>3 DEF Arrives, EnsureReady, Probes, Acquires, Rechecks, StartReturns, Polls,
                  Expires, Dispatch, Rejects, Dispatches, StreamOpens, StreamDropped,
                  Finishes, StartCalled, Calls, Returned, Goto, bpVars
    <2> QED BY <1>1, <1>2, <1>s, <2>1, OnDemandAssumption
  <1>4. ASSUME NEW o \in Operators, OperatorCalls(o)
        PROVE  FALSE
    <2>1. \E f : call' = [call EXCEPT ![o] = f]
      BY <1>4 DEF OperatorCalls, StartCalled, StopCalled, Calls
    <2> QED BY <1>2, <1>s, <2>1, OnDemandAssumption
  <1>5. ASSUME NEW t \in Threads, CallStep(t)
        PROVE  FALSE
    BY <1>5, <1>s, CallMoves DEF CallStep
  <1>6. ASSUME NEW x \in Sweepers, SweepSkips(x) \/ SweepArms(x)
        PROVE  FALSE
    BY <1>1, <1>6 DEF SweepSkips, SweepArms, bpVars
  <1>7. CASE (\E p \in Procs : OsStep(p) /\ UNCHANGED odVars) \/ Tick \/ UNCHANGED vars
    BY <1>1, <1>7 DEF OsStep, Loads, Exits, Appears, Tick, vars, bpVars
  <1> QED BY <1>3, <1>4, <1>5, <1>6, <1>7 DEF Next, Sweep

\* The watchdog unloads only after a whole window without a counted request,
\* for every window and any number of requests: the count says that none is
\* there now, and the clock, never ahead, that none was for a window.
THEOREM UnloadOnlyWhenQuiet == Spec => UnloadAfterQuietWindow
  <1>1. Init => ClockSound
    BY DEF Init, ClockSound, TrackedSet, Tracked, Never
  <1>2. TypeOK /\ InFlightAccurate /\ ClockSound /\ [Next]_vars
          => [\A s \in Sweepers : Decides(s) => quiet = Window]_vars
    <2> SUFFICES ASSUME TypeOK, InFlightAccurate, ClockSound, [Next]_vars,
                        NEW s \in Sweepers, Decides(s)
                 PROVE  quiet = Window
      OBVIOUS
    <2>1. PICK x \in Sweepers : SweepUnloads(x)
      BY OnlySweepDecides
    <2>2. TrackedSet = {}
      BY <2>1, TrackedFinite DEF SweepUnloads, InFlightAccurate
    <2>3. Window <= age /\ age <= quiet
      BY <2>1, <2>2 DEF SweepUnloads, ClockSound
    <2> QED BY <2>3, OnDemandAssumption DEF TypeOK, Never
  <1> QED BY <1>1, <1>2, ClockStep, TypeCorrect, InFlightCorrect, PTL
          DEF Spec, UnloadAfterQuietWindow

-----------------------------------------------------------------------------
(* Ownership: the Popen object and the inherited PID. *)

\* A row has one of the two, and a start that is past its check has dropped the
\* inherited PID.
OwnershipInv ==
    /\ \A m \in Models : handle[m] # NoProc => adopted[m] = NoProc
    /\ \A t \in Threads :
          call[t].at \in {"probe", "spawn"} => adopted[call[t].model] = NoProc

\* Nothing is adopted after the hub has started.
AdoptedShrinks == \A m \in Models : adopted'[m] \in {adopted[m], NoProc}

\* A thread that writes a frame other than "probe" and "spawn", and no handle,
\* keeps OwnershipInv.
LEMMA OwnershipFrame ==
    ASSUME TypeOK, OwnershipInv, AdoptedShrinks,
           \A m \in Models : handle'[m] \in {handle[m], NoProc},
           \/ UNCHANGED call
           \/ \E t \in Threads : \E f :
                 call' = [call EXCEPT ![t] = f] /\ f.at \notin {"probe", "spawn"}
    PROVE  OwnershipInv'
  <1>1. \A m \in Models : handle'[m] # NoProc => adopted'[m] = NoProc
    BY DEF OwnershipInv, AdoptedShrinks
  <1>2. ASSUME NEW t \in Threads, call'[t].at \in {"probe", "spawn"}
        PROVE  adopted'[call'[t].model] = NoProc
    <2>1. call'[t] = call[t]
      BY <1>2 DEF TypeOK, BackendTypeOK
    <2>2. call[t].model \in Models
      BY DEF TypeOK, BackendTypeOK
    <2> QED BY <1>2, <2>1, <2>2 DEF OwnershipInv, AdoptedShrinks
  <1> QED BY <1>1, <1>2 DEF OwnershipInv

\* A call that ends writes such a frame.
LEMMA EndsFrame ==
    ASSUME NEW t \in Threads, NEW result \in Results, Ends(t, result)
    PROVE  \E f : /\ call' = [call EXCEPT ![t] = f]
                  /\ f.at \in {"idle", result}
                  /\ f.model = call[t].model
                  /\ f.proc = NoProc
  <1>1. PICK at \in {"idle", result} : Goto(t, at)
    BY DEF Ends
  <1>2. call' = [call EXCEPT ![t] = Frame(at, call[t].model, NoProc)]
    BY <1>1 DEF Goto
  <1>3. /\ Frame(at, call[t].model, NoProc).at \in {"idle", result}
        /\ Frame(at, call[t].model, NoProc).model = call[t].model
        /\ Frame(at, call[t].model, NoProc).proc = NoProc
    BY DEF Frame
  <1> QED BY <1>2, <1>3

\* start keeps OwnershipInv: it spawns only for a row with no inherited PID.
LEMMA OwnershipStart ==
    ASSUME TypeOK, OwnershipInv, NEW t \in Threads, StartStep(t)
    PROVE  OwnershipInv'
  <1> DEFINE m == call[t].model
  <1>0. m \in Models
    BY DEF TypeOK, BackendTypeOK
  <1>s. "ok" \in Results /\ "already" \in Results /\ "failed" \in Results
    BY DEF Results
  <1>e. ASSUME NEW result \in Results, Ends(t, result), UNCHANGED <<handle, adopted>>
        PROVE  OwnershipInv'
    <2>1. \E f : /\ call' = [call EXCEPT ![t] = f]
                 /\ f.at \notin {"probe", "spawn"}
      BY <1>e, EndsFrame DEF Results
    <2> QED BY <1>e, <2>1, OwnershipFrame DEF AdoptedShrinks
  <1>1. CASE StartChecks(t) /\ Ends(t, "already") /\ UNCHANGED adopted
    BY <1>1, <1>e, <1>s DEF StartChecks
  <1>2. CASE StartChecks(t) /\ NotRunning(m) /\ Goto(t, "probe")
    <2>1. adopted' = [adopted EXCEPT ![m] = NoProc] /\ handle' = handle
      BY <1>2 DEF StartChecks, NotRunning, Forgotten
    <2>2. call' = [call EXCEPT ![t] = Frame("probe", m, NoProc)]
      BY <1>2 DEF StartChecks, Goto
    <2>3. \A x \in Threads : call'[x].model = call[x].model
      BY <2>2 DEF Frame, TypeOK, BackendTypeOK
    <2>4. \A x \in Threads : x # t => call'[x] = call[x]
      BY <2>2 DEF TypeOK, BackendTypeOK
    <2>5. \A x \in Threads : call[x].model \in Models
      BY DEF TypeOK, BackendTypeOK
    <2>6. adopted'[m] = NoProc /\ \A n \in Models : adopted'[n] \in {adopted[n], NoProc}
      BY <1>0, <2>1 DEF TypeOK, BackendTypeOK
    <2> QED BY <2>1, <2>3, <2>4, <2>5, <2>6 DEF OwnershipInv
  <1>3. CASE StartProbes(t) /\ Ends(t, "ok")
    BY <1>3, <1>e, <1>s DEF StartProbes
  <1>4. CASE StartProbes(t) /\ Goto(t, "spawn")
    <2>1. call[t].at = "probe" /\ UNCHANGED <<handle, adopted>>
      BY <1>4 DEF StartProbes
    <2>2. \A x \in Threads : /\ call'[x].model = call[x].model
                             /\ x # t => call'[x] = call[x]
      BY <1>4 DEF Goto, Frame, TypeOK, BackendTypeOK
    <2> QED BY <2>1, <2>2 DEF OwnershipInv
  <1>5. CASE StartSpawns(t) /\ UNCHANGED handle
    BY <1>5, <1>e, <1>s DEF StartSpawns
  <1>6. CASE StartSpawns(t) /\ \E p \in Procs : handle' = [handle EXCEPT ![m] = p]
    <2>1. adopted' = adopted /\ adopted[m] = NoProc
      BY <1>6 DEF StartSpawns, OwnershipInv
    <2>2. PICK f : call' = [call EXCEPT ![t] = f] /\ f.at \in {"idle", "ok", "failed"}
      <3>1. Ends(t, "ok") \/ Ends(t, "failed")
        BY <1>6 DEF StartSpawns
      <3> QED BY <1>s, <3>1, EndsFrame
    <2>3. \A n \in Models : handle'[n] # NoProc => adopted'[n] = NoProc
      BY <1>0, <1>6, <2>1 DEF OwnershipInv, TypeOK, BackendTypeOK
    <2>4. \A x \in Threads : call'[x].at \in {"probe", "spawn"} => call'[x] = call[x]
      BY <2>2 DEF TypeOK, BackendTypeOK
    <2> QED BY <2>1, <2>3, <2>4 DEF OwnershipInv
  <1> QED BY <1>1, <1>2, <1>3, <1>4, <1>5, <1>6
          DEF StartStep, StartChecks, StartProbes, StartSpawns

\* stop keeps OwnershipInv: it only forgets.
LEMMA OwnershipStop ==
    ASSUME TypeOK, OwnershipInv, NEW t \in Threads, StopStep(t)
    PROVE  OwnershipInv'
  <1>s. "ok" \in Results /\ "failed" \in Results
    BY DEF Results
  <1>1. /\ AdoptedShrinks
        /\ \A m \in Models : handle'[m] \in {handle[m], NoProc}
    BY DEF StopStep, StopFindsAdopted, StopForgets, StopKills, StopFindsNothing,
           StopSignals, StopReaps, StopGivesUp, NotRunning, Forgotten, AdoptedShrinks,
           TypeOK, BackendTypeOK
  <1>2. \E f : call' = [call EXCEPT ![t] = f] /\ f.at \notin {"probe", "spawn"}
    <2>1. ASSUME NEW at \in {"wait", "forget", "kill"}, NEW p,
                 call' = [call EXCEPT ![t] = Frame(at, call[t].model, p)]
          PROVE  \E f : call' = [call EXCEPT ![t] = f] /\ f.at \notin {"probe", "spawn"}
      <3> DEFINE f == Frame(at, call[t].model, p)
      <3>1. f.at = at
        BY DEF Frame
      <3> HIDE DEF f
      <3>2. call' = [call EXCEPT ![t] = f]
        BY <2>1 DEF f
      <3> QED BY <3>1, <3>2
    <2>2. CASE Ends(t, "ok") \/ Ends(t, "failed")
      BY <1>s, <2>2, EndsFrame
    <2>3. CASE StopSignals(t) \/ StopFindsAdopted(t) \/ StopForgets(t)
      BY <2>1, <2>3 DEF StopSignals, StopFindsAdopted, StopForgets
    <2> QED BY <2>2, <2>3 DEF StopStep, StopKills, StopFindsNothing, StopReaps,
                             StopGivesUp
  <1> QED BY <1>1, <1>2, OwnershipFrame

\* No step breaks OwnershipInv.
LEMMA OwnershipStep ==
    ASSUME TypeOK, OwnershipInv, [Next]_vars
    PROVE  OwnershipInv'
  <1>0. ASSUME UNCHANGED handle, AdoptedShrinks,
               \/ UNCHANGED call
               \/ \E t \in Threads : \E f :
                     call' = [call EXCEPT ![t] = f] /\ f.at \notin {"probe", "spawn"}
        PROVE  OwnershipInv'
    BY <1>0, OwnershipFrame
  <1>t. \A x \in Requests \cup Sweepers \cup Operators : x \in Threads
    BY OnDemandAssumption
  <1>1. ASSUME NEW r \in Requests, EnsureReady(r)
        PROVE  OwnershipInv'
    <2>1. UNCHANGED handle /\ AdoptedShrinks
      BY <1>1 DEF EnsureReady, Probes, Acquires, Rechecks, StartReturns, Polls, Expires,
                  NotRunning, Forgotten, AdoptedShrinks, bpVars, TypeOK, BackendTypeOK
    <2>2. \/ UNCHANGED call
          \/ \E f : call' = [call EXCEPT ![r] = f] /\ f.at \notin {"probe", "spawn"}
      BY <1>1 DEF EnsureReady, Probes, Acquires, Rechecks, StartReturns, Polls, Expires,
                  StartCalled, Calls, Returned, Goto, Frame, bpVars
    <2> QED BY <1>0, <1>t, <2>1, <2>2
  <1>2. ASSUME NEW o \in Operators, OperatorCalls(o)
        PROVE  OwnershipInv'
    <2>1. \E f : call' = [call EXCEPT ![o] = f] /\ f.at \notin {"probe", "spawn"}
      BY <1>2 DEF OperatorCalls, StartCalled, StopCalled, Calls, Frame
    <2> QED BY <1>0, <1>2, <1>t, <2>1 DEF OperatorCalls, AdoptedShrinks
  <1>3. ASSUME NEW s \in Sweepers, Sweep(s)
        PROVE  OwnershipInv'
    <2>1. \/ UNCHANGED call
          \/ \E f : call' = [call EXCEPT ![s] = f] /\ f.at \notin {"probe", "spawn"}
      BY <1>3 DEF Sweep, SweepSkips, SweepArms, SweepUnloads, StopCalled, Calls, Frame,
                  bpVars
    <2>2. UNCHANGED handle /\ AdoptedShrinks
      BY <1>3 DEF Sweep, SweepSkips, SweepArms, SweepUnloads, NotRunning, Forgotten, AdoptedShrinks,
                  bpVars, TypeOK, BackendTypeOK
    <2> QED BY <1>0, <1>t, <2>1, <2>2
  <1>4. CASE UNCHANGED <<handle, adopted, call>>
    BY <1>0, <1>4 DEF AdoptedShrinks
  <1>5. ASSUME NEW r \in Requests, Arrives(r) \/ Dispatch(r)
        PROVE  OwnershipInv'
    BY <1>4, <1>5 DEF Arrives, Dispatch, Rejects, Dispatches, StreamOpens, StreamDropped,
                      Finishes, bpVars
  <1>6. CASE (\E p \in Procs : OsStep(p) /\ UNCHANGED odVars) \/ Tick \/ UNCHANGED vars
    BY <1>4, <1>6 DEF OsStep, Loads, Exits, Appears, Tick, vars, bpVars
  <1> QED BY <1>1, <1>2, <1>3, <1>5, <1>6, OwnershipStart, OwnershipStop DEF Next, CallStep

\* A row never has a Popen object and an inherited PID at once, for any threads
\* that start and stop it in any order: start drops the inherited PID before it
\* probes, long before it stores the Popen object.
THEOREM OwnershipCorrect == Spec => []OwnershipExclusive
  <1>1. Init => OwnershipInv
    BY DEF Init, OwnershipInv, Frame
  <1>2. OwnershipInv => OwnershipExclusive
    BY OnDemandAssumption DEF OwnershipInv, OwnershipExclusive
  <1> QED BY <1>1, <1>2, OwnershipStep, TypeCorrect, PTL DEF Spec

-----------------------------------------------------------------------------
(* What the hub signals. *)

\* What the hub holds while it is alive is a process of the hub's own or one it
\* inherited, and no two live processes share a PID number.
KnownInv ==
    /\ \A m \in Models : HandleAlive(m) => origin[handle[m]] = "hub"
    /\ \A m \in Models : AdoptedAlive(m) => origin[adopted[m]] = "survivor"
    /\ \A p, q \in Procs : Alive(p) /\ Alive(q) /\ Pid[p] = Pid[q] => p = q

\* A step that gives no process life and learns of none keeps KnownInv.
LEMMA KnownQuiet ==
    ASSUME TypeOK, KnownInv,
           \A p \in Procs : phase'[p] # "dead"
                            => phase[p] # "dead" /\ origin'[p] = origin[p],
           \A m \in Models : /\ handle'[m] \in {handle[m], NoProc}
                             /\ adopted'[m] \in {adopted[m], NoProc}
    PROVE  KnownInv'
  <1>t. \A m \in Models : /\ handle[m] \in Procs \cup {NoProc}
                          /\ adopted[m] \in Procs \cup {NoProc}
    BY DEF TypeOK, BackendTypeOK
  <1>1. \A m \in Models : HandleAlive(m)' => HandleAlive(m) /\ handle'[m] = handle[m]
    BY <1>t DEF HandleAlive, Alive
  <1>2. \A m \in Models : AdoptedAlive(m)' => AdoptedAlive(m) /\ adopted'[m] = adopted[m]
    BY <1>t DEF AdoptedAlive, Alive
  <1>3. ASSUME NEW m \in Models, HandleAlive(m)'
        PROVE  origin'[handle'[m]] = "hub"
    <2>1. handle'[m] \in Procs /\ phase'[handle'[m]] # "dead"
      BY <1>3, <1>t DEF HandleAlive, Alive
    <2> QED BY <1>1, <1>3, <2>1 DEF KnownInv
  <1>4. ASSUME NEW m \in Models, AdoptedAlive(m)'
        PROVE  origin'[adopted'[m]] = "survivor"
    <2>1. adopted'[m] \in Procs /\ phase'[adopted'[m]] # "dead"
      BY <1>4, <1>t DEF AdoptedAlive, Alive
    <2> QED BY <1>2, <1>4, <2>1 DEF KnownInv
  <1>5. \A p, q \in Procs : Alive(p)' /\ Alive(q)' /\ Pid[p] = Pid[q] => p = q
    BY DEF KnownInv, Alive
  <1> QED BY <1>3, <1>4, <1>5 DEF KnownInv

\* A fresh process is nobody's, and its PID number is free.
LEMMA FreshIsUnknown ==
    ASSUME TypeOK, NEW p \in Procs, Fresh(p)
    PROVE  /\ ~Alive(p)
           /\ \A m \in Models : handle[m] # p /\ adopted[m] # p
           /\ \A t \in Threads : call[t].proc # p
           /\ \A q \in Procs : Alive(q) => Pid[q] # Pid[p]
  <1>1. ~Alive(p)
    BY DEF Fresh
  <1>2. \A m \in Models : adopted[m] # p
    BY DEF Fresh
  <1>3. \A q \in Procs : Alive(q) \/ q \in Pinned => Pid[q] # Pid[p]
    BY DEF Fresh
  <1>4. p \notin Pinned
    BY <1>3
  <1>5. \A m \in Models : handle[m] # p
    BY <1>4 DEF Pinned
  <1>6. \A t \in Threads : call[t].proc # p
    BY DEF Fresh
  <1> QED BY <1>1, <1>2, <1>3, <1>5, <1>6

\* The birth of a process keeps KnownInv: whoever learns of it spawned it.
LEMMA KnownBirth ==
    ASSUME TypeOK, KnownInv, NEW p \in Procs, Fresh(p),
           NEW o \in Origins, NEW s \in Phases,
           phase' = [phase EXCEPT ![p] = s],
           origin' = [origin EXCEPT ![p] = o],
           adopted' = adopted,
           \A m \in Models : handle'[m] = handle[m] \/ (handle'[m] = p /\ o = "hub")
    PROVE  KnownInv'
  <1>t. \A m \in Models : /\ handle[m] \in Procs \cup {NoProc}
                          /\ adopted[m] \in Procs \cup {NoProc}
    BY DEF TypeOK, BackendTypeOK
  <1>1. /\ origin'[p] = o
        /\ \A q \in Procs : q # p => phase'[q] = phase[q] /\ origin'[q] = origin[q]
    BY DEF TypeOK, BackendTypeOK
  <1>2. ASSUME NEW m \in Models, HandleAlive(m)'
        PROVE  origin'[handle'[m]] = "hub"
    <2>1. CASE handle'[m] = p /\ o = "hub"
      BY <1>1, <2>1
    <2>2. CASE handle'[m] = handle[m]
      <3>1. handle[m] \in Procs /\ handle[m] # p
        BY <1>2, <1>t, <2>2, FreshIsUnknown DEF HandleAlive
      <3>2. phase[handle[m]] # "dead" /\ handle[m] # NoProc
        BY <1>1, <1>2, <2>2, <3>1 DEF HandleAlive, Alive
      <3> QED BY <1>1, <2>2, <3>1, <3>2 DEF KnownInv, HandleAlive, Alive
    <2> QED BY <2>1, <2>2
  <1>3. ASSUME NEW m \in Models, AdoptedAlive(m)'
        PROVE  origin'[adopted'[m]] = "survivor"
    <2>1. adopted[m] \in Procs /\ adopted[m] # p
      BY <1>3, <1>t, FreshIsUnknown DEF AdoptedAlive
    <2>2. phase[adopted[m]] # "dead" /\ adopted[m] # NoProc
      BY <1>1, <1>3, <2>1 DEF AdoptedAlive, Alive
    <2> QED BY <1>1, <2>1, <2>2 DEF KnownInv, AdoptedAlive, Alive
  <1>4. ASSUME NEW x \in Procs, NEW y \in Procs, Alive(x)', Alive(y)', Pid[x] = Pid[y]
        PROVE  x = y
    <2>1. CASE x # p /\ y # p
      BY <1>1, <1>4, <2>1 DEF KnownInv, Alive
    <2>2. CASE x # p /\ y = p
      BY <1>1, <1>4, <2>2, FreshIsUnknown DEF Alive
    <2>3. CASE x = p /\ y # p
      BY <1>1, <1>4, <2>3, FreshIsUnknown DEF Alive
    <2> QED BY <2>1, <2>2, <2>3
  <1> QED BY <1>2, <1>3, <1>4 DEF KnownInv

\* No step breaks KnownInv.
LEMMA KnownStep ==
    ASSUME TypeOK, KnownInv, [Next]_vars
    PROVE  KnownInv'
  <1>0. ASSUME UNCHANGED <<phase, origin, handle>>, AdoptedShrinks
        PROVE  KnownInv'
    BY <1>0, KnownQuiet DEF Alive, AdoptedShrinks
  <1>1. ASSUME NEW t \in Threads, StopStep(t)
        PROVE  KnownInv'
    <2>1. \A p \in Procs : phase'[p] # "dead" => phase[p] # "dead"
      BY <1>1 DEF StopStep, StopFindsAdopted, StopForgets, StopKills, StopFindsNothing,
                  StopSignals, StopReaps, StopGivesUp, Killed, HandleAlive, Alive, osVars,
                  TypeOK, BackendTypeOK
    <2>2. origin' = origin
      BY <1>1 DEF StopStep, StopFindsAdopted, StopForgets, StopKills, StopFindsNothing,
                  StopSignals, StopReaps, StopGivesUp, osVars
    <2>3. \A m \in Models : /\ handle'[m] \in {handle[m], NoProc}
                            /\ adopted'[m] \in {adopted[m], NoProc}
      BY <1>1 DEF StopStep, StopFindsAdopted, StopForgets, StopKills, StopFindsNothing,
                  StopSignals, StopReaps, StopGivesUp, NotRunning, Forgotten, TypeOK,
                  BackendTypeOK
    <2> QED BY <2>1, <2>2, <2>3, KnownQuiet DEF Alive
  <1>2. ASSUME NEW t \in Threads, StartSpawns(t)
        PROVE  KnownInv'
    <2>1. CASE UNCHANGED <<osVars, handle>>
      BY <1>0, <1>2, <2>1 DEF StartSpawns, osVars, AdoptedShrinks
    <2>2. ASSUME NEW p \in Procs, Fresh(p),
                 phase'  = [phase EXCEPT ![p] = "loading"],
                 origin' = [origin EXCEPT ![p] = "hub"],
                 handle' = [handle EXCEPT ![call[t].model] = p]
          PROVE  KnownInv'
      <3>1. \A m \in Models : handle'[m] = handle[m] \/ handle'[m] = p
        BY <2>2 DEF TypeOK, BackendTypeOK
      <3>2. "hub" \in Origins /\ "loading" \in Phases
        BY DEF Origins, Phases
      <3>3. adopted' = adopted
        BY <1>2 DEF StartSpawns
      <3> QED BY <2>2, <3>1, <3>2, <3>3, KnownBirth
    <2> QED BY <1>2, <2>1, <2>2 DEF StartSpawns
  <1>3. ASSUME NEW p \in Procs, Appears(p)
        PROVE  KnownInv'
    <2>1. "other" \in Origins /\ "ready" \in Phases
      BY DEF Origins, Phases
    <2> QED BY <1>3, <2>1, KnownBirth DEF Appears
  <1>4. ASSUME NEW p \in Procs, Loads(p) \/ Exits(p)
        PROVE  KnownInv'
    <2>1. \A q \in Procs : phase'[q] # "dead"
                             => phase[q] # "dead" /\ origin'[q] = origin[q]
      BY <1>4 DEF Loads, Exits, TypeOK, BackendTypeOK
    <2>2. handle' = handle /\ adopted' = adopted
      BY <1>4 DEF Loads, Exits
    <2> QED BY <2>1, <2>2, KnownQuiet DEF Alive
  <1>5. ASSUME NEW t \in Threads, StartChecks(t) \/ StartProbes(t)
        PROVE  KnownInv'
    BY <1>0, <1>5 DEF StartChecks, StartProbes, NotRunning, Forgotten, AdoptedShrinks, osVars, TypeOK,
                      BackendTypeOK
  <1>6. ASSUME NEW r \in Requests, Arrives(r) \/ EnsureReady(r) \/ Dispatch(r)
        PROVE  KnownInv'
    <2>1. UNCHANGED <<phase, origin, handle>> /\ AdoptedShrinks
      BY <1>6 DEF Arrives, EnsureReady, Probes, Acquires, Rechecks, StartReturns, Polls,
                  Expires, Dispatch, Rejects, Dispatches, StreamOpens, StreamDropped,
                  Finishes, NotRunning, Forgotten, AdoptedShrinks, bpVars, osVars, TypeOK, BackendTypeOK
    <2> QED BY <1>0, <2>1
  <1>7. CASE \/ \E s \in Sweepers : Sweep(s)
             \/ \E o \in Operators : OperatorCalls(o)
             \/ Tick
             \/ UNCHANGED vars
    <2>1. UNCHANGED <<phase, origin, handle>> /\ AdoptedShrinks
      BY <1>7 DEF Sweep, SweepSkips, SweepArms, SweepUnloads, OperatorCalls, Tick, NotRunning, Forgotten,
                  AdoptedShrinks, vars, bpVars, osVars, TypeOK, BackendTypeOK
    <2> QED BY <1>0, <2>1
  <1> QED BY <1>1, <1>2, <1>3, <1>4, <1>5, <1>6, <1>7
          DEF Next, CallStep, StartStep, OsStep

\* Nothing but stop signals a process.
LEMMA OnlyStopSignals ==
    ASSUME TypeOK, [Next]_vars, NEW p \in Procs,
           phase[p] # "stopping", phase'[p] = "stopping"
    PROVE  \E t \in Threads : StopKills(t) \/ StopSignals(t)
  <1>0. ASSUME phase' = phase PROVE FALSE
    BY <1>0
  <1>1. ASSUME NEW r \in Requests, Arrives(r) \/ EnsureReady(r) \/ Dispatch(r)
        PROVE  FALSE
    BY <1>0, <1>1 DEF Arrives, EnsureReady, Probes, Acquires, Rechecks, StartReturns, Polls,
                      Expires, Dispatch, Rejects, Dispatches, StreamOpens, StreamDropped,
                      Finishes, bpVars, osVars
  <1>2. CASE \/ \E s \in Sweepers : Sweep(s)
             \/ \E o \in Operators : OperatorCalls(o)
             \/ Tick
             \/ UNCHANGED vars
    BY <1>0, <1>2 DEF Sweep, SweepSkips, SweepArms, SweepUnloads, OperatorCalls, Tick,
                      vars, bpVars, osVars
  <1>3. ASSUME NEW q \in Procs, OsStep(q)
        PROVE  FALSE
    BY <1>3 DEF OsStep, Loads, Exits, Appears, TypeOK, BackendTypeOK
  <1>4. ASSUME NEW t \in Threads, StartStep(t)
        PROVE  FALSE
    BY <1>4 DEF StartStep, StartChecks, StartProbes, StartSpawns, osVars, TypeOK,
                BackendTypeOK
  <1>5. ASSUME NEW t \in Threads, StopStep(t)
        PROVE  StopKills(t) \/ StopSignals(t)
    BY <1>0, <1>5 DEF StopStep, StopFindsAdopted, StopForgets, StopFindsNothing, StopReaps,
                      StopGivesUp, osVars
  <1> QED BY <1>1, <1>2, <1>3, <1>4, <1>5 DEF Next, CallStep

\* KnownInv holds throughout.
LEMMA KnownAlways == Spec => []KnownInv
  <1>1. Init => KnownInv
    <2> SUFFICES ASSUME Init PROVE KnownInv
      OBVIOUS
    <2>1. \A m \in Models : ~HandleAlive(m)
      BY DEF Init, HandleAlive
    <2>2. \A m \in Models : AdoptedAlive(m) => origin[adopted[m]] = "survivor"
      BY DEF Init, AdoptedAlive, Alive
    <2>3. \A p, q \in Procs : Alive(p) /\ Alive(q) => p = q
      BY DEF Init, Alive
    <2> QED BY <2>1, <2>2, <2>3 DEF KnownInv
  <1> QED BY <1>1, KnownStep, TypeCorrect, PTL DEF Spec

\* A process that lives after a step lived before with the same origin, or was
\* fresh.
LEMMA LifeMoves ==
    ASSUME TypeOK, [Next]_vars, NEW p \in Procs, Alive(p)'
    PROVE  Fresh(p) \/ (Alive(p) /\ origin'[p] = origin[p])
  <1>0. ASSUME UNCHANGED <<phase, origin>> PROVE Alive(p) /\ origin'[p] = origin[p]
    BY <1>0 DEF Alive
  <1>1. ASSUME NEW r \in Requests, Arrives(r) \/ EnsureReady(r) \/ Dispatch(r)
        PROVE  UNCHANGED <<phase, origin>>
    BY <1>1 DEF Arrives, EnsureReady, Probes, Acquires, Rechecks, StartReturns, Polls,
                Expires, Dispatch, Rejects, Dispatches, StreamOpens, StreamDropped,
                Finishes, bpVars, osVars
  <1>2. CASE \/ \E s \in Sweepers : Sweep(s)
             \/ \E o \in Operators : OperatorCalls(o)
             \/ Tick
             \/ UNCHANGED vars
    BY <1>0, <1>2 DEF Sweep, SweepSkips, SweepArms, SweepUnloads, OperatorCalls, Tick,
                      vars, bpVars, osVars
  <1>3. ASSUME NEW q \in Procs, OsStep(q)
        PROVE  Fresh(p) \/ (Alive(p) /\ origin'[p] = origin[p])
    BY <1>3 DEF OsStep, Loads, Exits, Appears, Alive, TypeOK, BackendTypeOK
  <1>4. ASSUME NEW t \in Threads, StartStep(t)
        PROVE  Fresh(p) \/ (Alive(p) /\ origin'[p] = origin[p])
    BY <1>4 DEF StartStep, StartChecks, StartProbes, StartSpawns, osVars, Alive, TypeOK,
                BackendTypeOK
  <1>5. ASSUME NEW t \in Threads, StopStep(t)
        PROVE  Alive(p) /\ origin'[p] = origin[p]
    BY <1>5 DEF StopStep, StopFindsAdopted, StopForgets, StopKills, StopFindsNothing,
                StopSignals, StopReaps, StopGivesUp, Killed, HandleAlive, Alive, osVars,
                TypeOK, BackendTypeOK
  <1> QED BY <1>0, <1>1, <1>2, <1>3, <1>4, <1>5 DEF Next, CallStep

\* A stop that aims after a step aimed before at the same process, or has just
\* passed the identity check.
LEMMA AimMoves ==
    ASSUME TypeOK, [Next]_vars, NEW t \in Threads, Aims(t)'
    PROVE  \/ Aims(t) /\ call'[t].proc = call[t].proc
           \/ StopFindsAdopted(t)
  <1> DEFINE Held == Aims(t) /\ call'[t].proc = call[t].proc
  <1>0. ASSUME call'[t] = call[t] PROVE Held
    BY <1>0 DEF Aims
  <1>x. ASSUME NEW x \in Threads, NEW f, call' = [call EXCEPT ![x] = f],
               f.at \notin {"forget", "kill"}
        PROVE  Held
    <2>1. CASE x = t
      BY <1>x, <2>1 DEF Aims, TypeOK, BackendTypeOK
    <2>2. CASE x # t
      BY <1>0, <1>x, <2>2
    <2> QED BY <2>1, <2>2
  <1>t. \A x \in Requests \cup Sweepers \cup Operators : x \in Threads
    BY OnDemandAssumption
  <1>1. ASSUME NEW r \in Requests, Arrives(r) \/ EnsureReady(r) \/ Dispatch(r)
        PROVE  Held
    <2>1. UNCHANGED call \/ \E f : /\ call' = [call EXCEPT ![r] = f]
                                  /\ f.at \notin {"forget", "kill"}
      BY <1>1 DEF Arrives, EnsureReady, Probes, Acquires, Rechecks, StartReturns, Polls,
                  Expires, Dispatch, Rejects, Dispatches, StreamOpens, StreamDropped,
                  Finishes, StartCalled, Calls, Returned, Goto, Frame, bpVars
    <2> QED BY <1>0, <1>t, <1>x, <2>1
  <1>2. ASSUME NEW s \in Sweepers, Sweep(s)
        PROVE  Held
    <2>1. UNCHANGED call \/ \E f : /\ call' = [call EXCEPT ![s] = f]
                                  /\ f.at \notin {"forget", "kill"}
      BY <1>2 DEF Sweep, SweepSkips, SweepArms, SweepUnloads, StopCalled, Calls, Frame,
                  bpVars
    <2> QED BY <1>0, <1>t, <1>x, <2>1
  <1>3. ASSUME NEW o \in Operators, OperatorCalls(o)
        PROVE  Held
    <2>1. \E f : call' = [call EXCEPT ![o] = f] /\ f.at \notin {"forget", "kill"}
      BY <1>3 DEF OperatorCalls, StartCalled, StopCalled, Calls, Frame
    <2> QED BY <1>t, <1>x, <2>1
  <1>4. ASSUME NEW x \in Threads, StartStep(x)
        PROVE  Held
    <2>1. \E f : call' = [call EXCEPT ![x] = f] /\ f.at \notin {"forget", "kill"}
      BY <1>4 DEF StartStep, StartChecks, StartProbes, StartSpawns, Ends, Goto, Frame
    <2> QED BY <1>x, <2>1
  <1>5. ASSUME NEW x \in Threads, StopStep(x)
        PROVE  Held \/ StopFindsAdopted(t)
    <2>1. CASE x # t
      <3>1. \E f : call' = [call EXCEPT ![x] = f]
        BY <1>5 DEF StopStep, StopFindsAdopted, StopForgets, StopKills, StopFindsNothing,
                    StopSignals, StopReaps, StopGivesUp, Ends, Goto
      <3> QED BY <1>0, <2>1, <3>1
    <2>2. CASE x = t /\ StopForgets(x)
      BY <2>2 DEF StopForgets, Frame, Aims, TypeOK, BackendTypeOK
    <2>3. CASE /\ x = t
               /\ \/ StopKills(x) \/ StopFindsNothing(x)
                  \/ StopReaps(x) \/ StopGivesUp(x)
      <3>1. Ends(x, "ok") \/ Ends(x, "failed")
        BY <2>3 DEF StopKills, StopFindsNothing, StopReaps, StopGivesUp
      <3>2. "ok" \in Results /\ "failed" \in Results
        BY DEF Results
      <3> QED BY <1>x, <3>1, <3>2, EndsFrame
    <2>4. CASE x = t /\ StopSignals(x)
      <3> DEFINE f == Frame("wait", call[x].model, handle[call[x].model])
      <3>1. f.at = "wait"
        BY DEF Frame
      <3> HIDE DEF f
      <3>2. call' = [call EXCEPT ![x] = f]
        BY <2>4 DEF StopSignals, f
      <3> QED BY <1>x, <3>1, <3>2
    <2> QED BY <1>5, <2>1, <2>2, <2>3, <2>4 DEF StopStep
  <1>6. CASE (\E p \in Procs : OsStep(p)) \/ Tick \/ UNCHANGED vars
    BY <1>0, <1>6 DEF OsStep, Loads, Exits, Appears, Tick, vars, bpVars
  <1> QED BY <1>1, <1>2, <1>3, <1>4, <1>5, <1>6 DEF Next, CallStep

\* As long as the process a stop aims at lives, it is not a stranger.
AimInv ==
    \A t \in Threads : Aims(t) =>
        /\ call[t].proc \in Procs
        /\ Alive(call[t].proc) => origin[call[t].proc] # "other"

\* A stop takes aim at a backend that lives and that the hub inherited.
LEMMA AimsWell ==
    ASSUME TypeOK, KnownInv, NEW t \in Threads, StopFindsAdopted(t)
    PROVE  /\ call'[t].proc \in Procs
           /\ phase'[call'[t].proc] # "dead"
           /\ origin'[call'[t].proc] = "survivor"
  <1> DEFINE m == call[t].model
  <1>1. m \in Models /\ adopted[m] \in Procs \cup {NoProc}
    BY DEF TypeOK, BackendTypeOK
  <1>2. AdoptedAlive(m) /\ UNCHANGED osVars
    BY DEF StopFindsAdopted
  <1>3. call'[t].proc = adopted[m]
    BY DEF StopFindsAdopted, Frame, TypeOK, BackendTypeOK
  <1> QED BY <1>1, <1>2, <1>3 DEF KnownInv, AdoptedAlive, Alive, osVars

\* No step breaks AimInv: a process that is aimed at is not born again.
LEMMA AimStep ==
    ASSUME TypeOK, KnownInv, AimInv, [Next]_vars
    PROVE  AimInv'
  <1> SUFFICES ASSUME NEW t \in Threads, Aims(t)'
               PROVE  /\ call'[t].proc \in Procs
                      /\ Alive(call[t].proc)' => origin'[call'[t].proc] # "other"
    BY DEF AimInv
  <1>1. CASE StopFindsAdopted(t)
    BY <1>1, AimsWell
  <1>2. CASE Aims(t) /\ call'[t].proc = call[t].proc
    <2> DEFINE p == call[t].proc
    <2>1. p \in Procs /\ (Alive(p) => origin[p] # "other")
      BY <1>2 DEF AimInv
    <2>2. ~Fresh(p)
      BY <2>1, FreshIsUnknown
    <2>3. phase'[p] # "dead" => origin'[p] # "other"
      BY <2>1, <2>2, LifeMoves DEF Alive
    <2> QED BY <1>2, <2>1, <2>3 DEF Alive
  <1> QED BY <1>1, <1>2, AimMoves

\* AimInv holds throughout.
LEMMA AimAlways == Spec => []AimInv
  <1>1. Init => AimInv
    BY DEF Init, AimInv, Aims, Frame
  <1> QED BY <1>1, AimStep, KnownAlways, TypeCorrect, PTL DEF Spec

\* A stop, whoever calls it and whenever, aims only at a living backend of the
\* hub's own, and a process the hub neither spawned nor inherited is signalled
\* only where the backend aimed at has died before the kill and its PID number
\* is that process's: what the hub holds while it is alive is its own, and no
\* two living processes share a number.
THEOREM StopsOnlyItsOwnCorrect == Spec => StopsOnlyItsOwn
  <1> DEFINE AimsAtItsOwn ==
                 \A t \in Threads : ~Aims(t) /\ Aims(t)' =>
                     LET p == call'[t].proc IN phase'[p] # "dead" /\ origin'[p] # "other"
             StrangersByReuse ==
                 \A p \in Procs : HitsStranger(p) =>
                     \E t \in Threads : /\ call[t].at = "kill"
                                       /\ Pid[call[t].proc] = Pid[p]
                                       /\ ~Alive(call[t].proc)
  <1>1. TypeOK /\ KnownInv /\ [Next]_vars => AimsAtItsOwn
    BY AimMoves, AimsWell
  <1>2. TypeOK /\ KnownInv /\ AimInv /\ [Next]_vars => StrangersByReuse
    <2> SUFFICES ASSUME TypeOK, KnownInv, AimInv, [Next]_vars, NEW p \in Procs,
                        HitsStranger(p)
                 PROVE  \E t \in Threads : /\ call[t].at = "kill"
                                          /\ Pid[call[t].proc] = Pid[p]
                                          /\ ~Alive(call[t].proc)
      OBVIOUS
    <2>1. PICK t \in Threads : StopKills(t) \/ StopSignals(t)
      BY OnlyStopSignals DEF HitsStranger
    <2>2. CASE StopKills(t)
      <3>1. /\ call[t].at = "kill" /\ Alive(p)
            /\ Pid[p] = Pid[call[t].proc]
        BY <2>2 DEF StopKills, Killed, HitsStranger
      <3>2. /\ call[t].proc \in Procs
            /\ Alive(call[t].proc) => origin[call[t].proc] # "other"
        BY <3>1 DEF AimInv, Aims
      <3>3. ~Alive(call[t].proc)
        BY <3>1, <3>2 DEF KnownInv, HitsStranger
      <3> QED BY <3>1, <3>3
    <2>3. CASE StopSignals(t)
      <3>1. call[t].model \in Models
        BY DEF TypeOK, BackendTypeOK
      <3>2. HandleAlive(call[t].model) /\ p = handle[call[t].model]
        BY <2>3 DEF StopSignals, HitsStranger, TypeOK, BackendTypeOK
      <3> QED BY <3>1, <3>2 DEF KnownInv, HitsStranger
    <2> QED BY <2>1, <2>2, <2>3
  <1>3. TypeOK /\ KnownInv /\ AimInv /\ [Next]_vars
          => [/\ \A t \in Threads : ~Aims(t) /\ Aims(t)' =>
                     LET p == call'[t].proc IN phase'[p] # "dead" /\ origin'[p] # "other"
              /\ \A p \in Procs : HitsStranger(p) =>
                     \E t \in Threads : /\ call[t].at = "kill"
                                       /\ Pid[call[t].proc] = Pid[p]
                                       /\ ~Alive(call[t].proc)]_vars
    BY <1>1, <1>2
  <1> QED BY <1>3, AimAlways, KnownAlways, TypeCorrect, PTL DEF Spec, StopsOnlyItsOwn

-----------------------------------------------------------------------------
(* One process per row, when only requests start it. *)

\* A thread is inside stop.
Stops == {"stop", "wait", "forget", "kill"}

\* The spawn lock is held from the re-check to the end of the poll, a thread is
\* inside start only while it holds it, and what was spawned here and lives is
\* the process of the Popen object.
SpawnInv ==
    /\ \A r \in Requests : pc[r] \in Locked => lock = r
    /\ \A r \in Requests : call[r].at # "idle" => pc[r] = "starting"
    /\ \A r \in Requests : call[r].at \notin Stops /\ call[r].model = Row
    /\ \A r \in Requests : call[r].at \in {"probe", "spawn"} => ~HandleAlive(Row)
    /\ \A p \in Procs : SpawnedHere(p) => p = handle[Row]

\* ensure_ready keeps SpawnInv: start is called with the lock held, and the lock
\* is not released before start has returned.
LEMMA SpawnEnsureReady ==
    ASSUME TypeOK, SpawnInv, NEW r \in Requests, EnsureReady(r)
    PROVE  SpawnInv'
  <1>t. /\ r \in Threads /\ Requests \subseteq Threads
        /\ NoOne \notin Requests /\ Row \in Models
    BY OnDemandAssumption
  <1>0. UNCHANGED <<osVars, handle>>
    BY DEF EnsureReady, Probes, Acquires, Rechecks, StartReturns, Polls, Expires, bpVars,
           osVars
  <1>1. /\ \A p \in Procs : SpawnedHere(p)' => p = handle'[Row]
        /\ HandleAlive(Row)' <=> HandleAlive(Row)
    BY <1>0 DEF SpawnInv, SpawnedHere, HandleAlive, Alive, osVars
  <1>2. \A q \in Requests : q # r => call'[q] = call[q] /\ pc'[q] = pc[q]
    BY <1>t DEF EnsureReady, Probes, Acquires, Rechecks, StartReturns, Polls, Expires,
                Moves, StartCalled, Calls, Returned, Goto, bpVars, TypeOK, BackendTypeOK
  <1>3. CASE Probes(r) \/ Acquires(r)
    <2>1. call' = call
      BY <1>3 DEF Probes, Acquires, bpVars
    <2>2. pc'[r] # "starting" /\ pc[r] # "starting"
      BY <1>3 DEF Probes, Acquires, Moves, TypeOK
    <2>3. \A q \in Requests : pc'[q] \in Locked => lock' = q
      BY <1>2, <1>3, <1>t DEF Probes, Acquires, Moves, Locked, SpawnInv, TypeOK
    <2> QED BY <1>1, <1>2, <2>1, <2>2, <2>3 DEF SpawnInv
  <1>4. CASE Rechecks(r) /\ UNCHANGED call
    <2>1. pc[r] = "recheck" /\ pc'[r] = "ready" /\ call[r].at = "idle"
      BY <1>4, <1>t DEF Rechecks, Moves, StartCalled, Calls, Frame, SpawnInv, TypeOK,
                        BackendTypeOK
    <2>2. \A q \in Requests : pc'[q] \in Locked => lock' = q
      BY <1>2, <2>1, <1>4, <1>t DEF Locked, SpawnInv
    <2> QED BY <1>1, <1>2, <1>4, <2>1, <2>2 DEF SpawnInv
  <1>5. CASE Rechecks(r) /\ StartCalled(r, Row)
    <2>1. /\ pc[r] = "recheck" /\ pc'[r] = "starting" /\ lock' = lock
          /\ call'[r] = Frame("check", Row, NoProc)
      BY <1>5, <1>t DEF Rechecks, Moves, StartCalled, Calls, Frame, SpawnInv, TypeOK,
                        BackendTypeOK
    <2>2. call'[r].at = "check" /\ call'[r].model = Row
      BY <2>1 DEF Frame
    <2>3. \A q \in Requests : pc'[q] \in Locked => lock' = q
      BY <1>2, <2>1 DEF Locked, SpawnInv
    <2> QED BY <1>1, <1>2, <2>1, <2>2, <2>3 DEF SpawnInv, Stops
  <1>6. CASE StartReturns(r)
    <2>1. /\ pc[r] = "starting" /\ pc'[r] \in {"answered", "poll"}
          /\ pc'[r] = "poll" => lock' = lock
      BY <1>6, <1>t DEF StartReturns, Moves, TypeOK
    <2>2. call'[r].at = "idle" /\ call'[r].model = Row
      BY <1>6, <1>t DEF StartReturns, Returned, Goto, Frame, SpawnInv, TypeOK, BackendTypeOK
    <2>3. \A q \in Requests : pc'[q] \in Locked => lock' = q
      BY <1>2, <2>1 DEF Locked, SpawnInv
    <2> QED BY <1>1, <1>2, <2>1, <2>2, <2>3 DEF SpawnInv, Stops
  <1>7. CASE Polls(r) \/ Expires(r)
    <2>1. pc[r] = "poll" /\ pc'[r] \in {"ready", "answered"} /\ call' = call
      BY <1>7 DEF Polls, Expires, Moves, bpVars, TypeOK
    <2>2. \A q \in Requests : pc'[q] \in Locked => lock' = q
      BY <1>2, <2>1 DEF Locked, SpawnInv
    <2> QED BY <1>1, <1>2, <2>1, <2>2 DEF SpawnInv
  <1> QED BY <1>3, <1>4, <1>5, <1>6, <1>7 DEF EnsureReady, Rechecks

\* start keeps SpawnInv: at most one thread is inside, and it spawns only when
\* the row's process is gone.
LEMMA SpawnStart ==
    ASSUME TypeOK, SpawnInv, NEW r \in Requests, StartStep(r), UNCHANGED odVars
    PROVE  SpawnInv'
  <1>t. /\ r \in Threads /\ Requests \subseteq Threads /\ r \in Readers
        /\ Row \in Models /\ call[r].model = Row
    BY OnDemandAssumption DEF SpawnInv
  <1>1. call[r].at \in {"check", "probe", "spawn"}
    BY DEF StartStep, StartChecks, StartProbes, StartSpawns
  <1>2. \A q \in Requests : q # r => call[q].at = "idle"
    BY <1>1 DEF SpawnInv, Locked
  <1>3. /\ \A q \in Requests : q # r => call'[q] = call[q]
        /\ call'[r].model = Row /\ call'[r].at \in {"probe", "spawn", "ok", "already", "failed"}
    BY <1>t DEF StartStep, StartChecks, StartProbes, StartSpawns, Ends, Goto, Frame,
                TypeOK, BackendTypeOK
  <1>4. /\ \A q \in Requests : pc'[q] \in Locked => lock' = q
        /\ \A q \in Requests : call'[q].at # "idle" => pc'[q] = "starting"
        /\ \A q \in Requests : call'[q].at \notin Stops /\ call'[q].model = Row
    BY <1>1, <1>2, <1>3 DEF SpawnInv, Stops, odVars
  <1>5. CASE StartChecks(r) \/ StartProbes(r)
    <2>1. UNCHANGED <<osVars, handle>>
      BY <1>5 DEF StartChecks, StartProbes
    <2>2. /\ \A p \in Procs : SpawnedHere(p)' => p = handle'[Row]
          /\ HandleAlive(Row)' <=> HandleAlive(Row)
      BY <2>1 DEF SpawnInv, SpawnedHere, HandleAlive, Alive, osVars
    <2>3. call'[r].at \in {"probe", "spawn"} => ~HandleAlive(Row)
      BY <1>5, <1>t DEF StartChecks, StartProbes, Ends, Goto, Frame, NotRunning, SpawnInv,
                        TypeOK, BackendTypeOK
    <2> QED BY <1>2, <1>3, <1>4, <2>2, <2>3 DEF SpawnInv
  <1>6. CASE StartSpawns(r)
    <2>1. call[r].at = "spawn" /\ (Ends(r, "ok") \/ Ends(r, "failed"))
      BY <1>6 DEF StartSpawns
    <2>2. call'[r].at \notin {"probe", "spawn"}
      BY <1>t, <2>1 DEF Ends, Goto, Frame, TypeOK, BackendTypeOK
    <2>3. \A q \in Requests : call'[q].at \notin {"probe", "spawn"}
      BY <1>2, <1>3, <2>2
    <2>4. ~HandleAlive(Row)
      BY <2>1 DEF SpawnInv
    <2>5. \A p \in Procs : ~SpawnedHere(p)
      BY <2>4, BackendAssumption DEF SpawnInv, SpawnedHere, HandleAlive
    <2>6. CASE UNCHANGED <<osVars, handle>>
      <3>1. \A p \in Procs : ~SpawnedHere(p)'
        BY <2>5, <2>6 DEF SpawnedHere, Alive, osVars
      <3> QED BY <1>4, <2>3, <3>1 DEF SpawnInv
    <2>7. ASSUME NEW p \in Procs,
                 phase'  = [phase EXCEPT ![p] = "loading"],
                 origin' = [origin EXCEPT ![p] = "hub"],
                 handle' = [handle EXCEPT ![Row] = p]
          PROVE  SpawnInv'
      <3>1. handle'[Row] = p
        BY <1>t, <2>7 DEF TypeOK, BackendTypeOK
      <3>2. \A q \in Procs : q # p => ~SpawnedHere(q)'
        BY <2>5, <2>7 DEF SpawnedHere, Alive, TypeOK, BackendTypeOK
      <3> QED BY <1>4, <2>3, <3>1, <3>2 DEF SpawnInv
    <2> QED BY <1>6, <1>t, <2>6, <2>7 DEF StartSpawns
  <1> QED BY <1>5, <1>6 DEF StartStep

\* Processes come and go; only start makes one of the hub's own.
LEMMA SpawnOs ==
    ASSUME TypeOK, SpawnInv, NEW p \in Procs, OsStep(p), UNCHANGED odVars
    PROVE  SpawnInv'
  <1>1. handle' = handle /\ call' = call
    BY DEF OsStep, Loads, Exits, Appears
  <1>2. Row \in Models
    BY OnDemandAssumption
  <1>3. \A q \in Procs : SpawnedHere(q)' => SpawnedHere(q)
    BY DEF OsStep, Loads, Exits, Appears, SpawnedHere, Alive, TypeOK, BackendTypeOK
  <1>4. HandleAlive(Row)' => HandleAlive(Row)
    <2>1. CASE Loads(p) \/ Exits(p)
      BY <1>1, <1>2, <2>1 DEF Loads, Exits, HandleAlive, Alive, TypeOK, BackendTypeOK
    <2>2. CASE Appears(p)
      <3>1. Fresh(p)
        BY <2>2 DEF Appears
      <3>2. handle[Row] # p
        BY <1>2, <3>1, FreshIsUnknown
      <3> QED BY <1>1, <1>2, <2>2, <3>2 DEF Appears, HandleAlive, Alive, TypeOK, BackendTypeOK
    <2> QED BY <2>1, <2>2 DEF OsStep
  <1> QED BY <1>1, <1>3, <1>4 DEF SpawnInv, odVars

\* SpawnInv holds throughout when nothing but requests starts or stops the row.
LEMMA SpawnAlways ==
    ASSUME Sweepers = {}, Operators = {}
    PROVE  Spec => []SpawnInv
  <1>1. Init => SpawnInv
    BY OnDemandAssumption
       DEF Init, SpawnInv, Stops, Locked, Frame, SpawnedHere, HandleAlive, Alive
  <1>2. TypeOK /\ SpawnInv /\ [Next]_vars => SpawnInv'
    <2> SUFFICES ASSUME TypeOK, SpawnInv, [Next]_vars PROVE SpawnInv'
      OBVIOUS
    <2>t. Threads = Requests
      BY OnDemandAssumption
    <2>1. ASSUME NEW r \in Requests, CallStep(r)
          PROVE  SpawnInv'
      <3>1. ~StopStep(r)
        BY DEF SpawnInv, Stops, StopStep, StopFindsAdopted, StopForgets, StopKills,
               StopFindsNothing, StopSignals, StopReaps, StopGivesUp
      <3> QED BY <2>1, <3>1, SpawnStart DEF CallStep
    <2>2. ASSUME NEW r \in Requests, Arrives(r) \/ Dispatch(r)
          PROVE  SpawnInv'
      <3>1. UNCHANGED <<bpVars, lock>>
        BY <2>2 DEF Arrives, Dispatch, Rejects, Dispatches, StreamOpens, StreamDropped,
                    Finishes
      <3>2. /\ \A q \in Requests : q # r => pc'[q] = pc[q]
            /\ pc[r] \notin Locked /\ pc'[r] \notin Locked
        BY <2>2 DEF Arrives, Dispatch, Rejects, Dispatches, StreamOpens, StreamDropped,
                    Finishes, Moves, Locked, TypeOK
      <3>3. pc[r] # "starting" /\ call[r].at = "idle"
        BY <3>2 DEF SpawnInv, Locked
      <3>4. /\ \A p \in Procs : SpawnedHere(p)' => p = handle'[Row]
            /\ HandleAlive(Row)' <=> HandleAlive(Row)
        BY <3>1 DEF SpawnInv, SpawnedHere, HandleAlive, Alive, bpVars
      <3> QED BY <3>1, <3>2, <3>3, <3>4 DEF SpawnInv, bpVars
    <2>3. CASE UNCHANGED <<bpVars, pc, lock>>
      BY <2>3 DEF SpawnInv, SpawnedHere, HandleAlive, Alive, bpVars
    <2>4. CASE Tick \/ UNCHANGED vars
      BY <2>3, <2>4 DEF Tick, vars, odVars
    <2> QED BY <2>1, <2>2, <2>4, <2>t, SpawnEnsureReady, SpawnOs DEF Next
  <1> QED BY <1>1, <1>2, TypeCorrect, PTL DEF Spec

\* However many requests find the row cold at the same time, the hub never has
\* two backend processes of its own, as long as nothing but requests starts and
\* stops the row (an operator's start takes no lock: OnDemandTwoStarts).
THEOREM NoDoubleSpawnCorrect ==
    ASSUME Sweepers = {}, Operators = {}
    PROVE  Spec => []NoDoubleSpawn
  <1>1. SpawnInv => NoDoubleSpawn
    BY DEF SpawnInv, NoDoubleSpawn
  <1>2. Spec => []SpawnInv
    BY SpawnAlways
  <1> QED BY <1>1, <1>2, PTL

-----------------------------------------------------------------------------
(* A row that only requests use is a SpawnGate. *)

\* With nobody to stop it, a process loads and then answers until it is gone;
\* what the hub spawned has the row's port, and so has what it inherited.
GateInv ==
    /\ \A p \in Procs : phase[p] # "stopping"
    /\ \A p \in Procs : phase[p] = "loading" => origin[p] = "hub"
    /\ \A p \in Procs : SpawnedHere(p) => port[p] = Port[Row]
    /\ AdoptedAlive(Row) => phase[adopted[Row]] = "ready" /\ port[adopted[Row]] = Port[Row]

AllInv == TypeOK /\ KnownInv /\ SpawnInv /\ GateInv

\* Threads that are inside start or stop are requests inside start.
LEMMA OnlyStarts ==
    ASSUME Sweepers = {}, Operators = {}, SpawnInv, NEW t \in Threads, CallStep(t)
    PROVE  t \in Requests /\ StartStep(t) /\ UNCHANGED odVars /\ call[t].model = Row
  <1>1. t \in Requests
    BY OnDemandAssumption
  <1>2. ~StopStep(t)
    BY <1>1 DEF SpawnInv, Stops, StopStep, StopFindsAdopted, StopForgets, StopKills,
                StopFindsNothing, StopSignals, StopReaps, StopGivesUp
  <1> QED BY <1>1, <1>2 DEF CallStep, SpawnInv

\* A step that leaves the processes alone keeps GateInv.
LEMMA GateQuiet ==
    ASSUME GateInv, UNCHANGED osVars, adopted'[Row] \in {adopted[Row], NoProc}
    PROVE  GateInv'
  BY DEF GateInv, SpawnedHere, AdoptedAlive, Alive, osVars

\* A step of the system keeps it.
LEMMA GateOs ==
    ASSUME AllInv, NEW p \in Procs, OsStep(p)
    PROVE  GateInv'
  <1>t. Row \in Models /\ GateInv /\ adopted[Row] \in Procs \cup {NoProc}
    BY OnDemandAssumption DEF AllInv, TypeOK, BackendTypeOK
  <1>1. adopted' = adopted
    BY DEF OsStep, Loads, Exits, Appears
  <1>2. \A q \in Procs : q # p => phase'[q] = phase[q] /\ port'[q] = port[q] /\ origin'[q] = origin[q]
    BY DEF OsStep, Loads, Exits, Appears, AllInv, TypeOK, BackendTypeOK
  <1>3. CASE Loads(p)
    <2>1. phase[p] = "loading" /\ phase'[p] = "ready" /\ port'[p] = port[p] /\ origin'[p] = origin[p]
      BY <1>3 DEF Loads, AllInv, TypeOK, BackendTypeOK
    <2> QED
      BY <1>t, <1>1, <1>2, <2>1 DEF GateInv, SpawnedHere, AdoptedAlive, Alive
  <1>4. CASE Exits(p)
    <2>1. phase'[p] = "dead"
      BY <1>4 DEF Exits, AllInv, TypeOK, BackendTypeOK
    <2> QED
      BY <1>t, <1>1, <1>2, <2>1 DEF GateInv, SpawnedHere, AdoptedAlive, Alive
  <1>5. CASE Appears(p)
    <2>1. phase'[p] = "ready" /\ origin'[p] = "other"
      BY <1>5 DEF Appears, AllInv, TypeOK, BackendTypeOK
    <2>2. adopted[Row] # p
      BY <1>5, <1>t, FreshIsUnknown DEF Appears, AllInv
    <2> QED
      BY <1>t, <1>1, <1>2, <2>1, <2>2 DEF GateInv, SpawnedHere, AdoptedAlive, Alive
  <1> QED BY <1>3, <1>4, <1>5 DEF OsStep

\* A spawn keeps it.
LEMMA GateSpawns ==
    ASSUME AllInv, NEW r \in Requests, StartSpawns(r)
    PROVE  GateInv'
  <1>t. /\ Row \in Models /\ GateInv /\ adopted[Row] \in Procs \cup {NoProc}
        /\ call[r].model = Row
    BY OnDemandAssumption DEF AllInv, TypeOK, BackendTypeOK, SpawnInv
  <1>1. adopted' = adopted
    BY DEF StartSpawns
  <1>2. CASE UNCHANGED osVars
    BY <1>1, <1>2, GateQuiet DEF AllInv
  <1>3. ASSUME NEW p \in Procs, Fresh(p),
               phase'  = [phase EXCEPT ![p] = "loading"],
               port'   = [port EXCEPT ![p] = Port[Row]],
               origin' = [origin EXCEPT ![p] = "hub"]
        PROVE  GateInv'
    <2>1. /\ phase'[p] = "loading" /\ port'[p] = Port[Row] /\ origin'[p] = "hub"
          /\ \A q \in Procs : q # p =>
                 phase'[q] = phase[q] /\ port'[q] = port[q] /\ origin'[q] = origin[q]
      BY <1>3 DEF AllInv, TypeOK, BackendTypeOK
    <2>2. adopted[Row] # p
      BY <1>3, <1>t, FreshIsUnknown DEF AllInv
    <2> QED
      BY <1>t, <1>1, <2>1, <2>2 DEF GateInv, SpawnedHere, AdoptedAlive, Alive
  <1> QED BY <1>t, <1>2, <1>3 DEF StartSpawns

\* No step breaks GateInv.
LEMMA GateStep ==
    ASSUME Sweepers = {}, Operators = {}, AllInv, [Next]_vars
    PROVE  GateInv'
  <1>t. Row \in Models /\ adopted[Row] \in Procs \cup {NoProc}
    BY OnDemandAssumption DEF AllInv, TypeOK, BackendTypeOK
  <1>1. ASSUME NEW r \in Requests, Arrives(r) \/ Dispatch(r)
        PROVE  GateInv'
    <2>1. UNCHANGED bpVars
      BY <1>1 DEF Arrives, Dispatch, Rejects, Dispatches, StreamOpens, StreamDropped, Finishes
    <2> QED BY <2>1, GateQuiet DEF AllInv, bpVars, osVars
  <1>2. ASSUME NEW r \in Requests, EnsureReady(r)
        PROVE  GateInv'
    <2>1. UNCHANGED osVars /\ adopted'[Row] \in {adopted[Row], NoProc}
      BY <1>2, <1>t DEF EnsureReady, Probes, Acquires, Rechecks, StartReturns, Polls, Expires,
                  bpVars, osVars, NotRunning, Forgotten, AllInv, TypeOK, BackendTypeOK
    <2> QED BY <2>1, GateQuiet DEF AllInv
  <1>3. ASSUME NEW t \in Threads, CallStep(t)
        PROVE  GateInv'
    <2>1. t \in Requests /\ StartStep(t) /\ call[t].model = Row
      BY <1>3, OnlyStarts DEF AllInv
    <2>2. CASE StartChecks(t) \/ StartProbes(t)
      <3>1. UNCHANGED osVars /\ adopted'[Row] \in {adopted[Row], NoProc}
        BY <2>1, <2>2, <1>t DEF StartChecks, StartProbes, NotRunning, Forgotten,
                    AllInv, TypeOK, BackendTypeOK
      <3> QED BY <3>1, GateQuiet DEF AllInv
    <2> QED BY <2>1, <2>2, GateSpawns DEF StartStep
  <1>4. CASE Tick \/ UNCHANGED vars
    <2>1. UNCHANGED bpVars
      BY <1>4 DEF Tick, vars
    <2> QED BY <2>1, GateQuiet DEF AllInv, bpVars, osVars
  <1> QED BY <1>1, <1>2, <1>3, <1>4, GateOs DEF Next

\* What the hub's own backend is, for each value of OwnBackend.
LEMMA OwnIs ==
    /\ OwnBackend = "up" <=> \E p \in Procs : SpawnedHere(p) /\ phase[p] = "ready"
    /\ OwnBackend = "none" <=> ~ \E p \in Procs : SpawnedHere(p)
    /\ OwnBackend \in {"none", "loading", "up"}
  BY DEF OwnBackend

\* Where the row is reachable, its own backend or another server answers.
LEMMA ReachableAnswers ==
    ASSUME Reachable(Row)
    PROVE  Gate!Answers
  BY OwnIs DEF Reachable, Gate!Answers, OtherAnswers, SpawnedHere, Alive

\* When one request moves and no process does, its stage is all that changes.
LEMMA OneStage ==
    ASSUME NEW r \in Requests, UNCHANGED osVars,
           \A q \in Requests : q # r => pc'[q] = pc[q] /\ call'[q] = call[q],
           NEW s, Stage(r)' = s
    PROVE  Gate!Becomes(r, s) /\ OwnBackend' = OwnBackend /\ OtherAnswers' = OtherAnswers
  <1>1. \A q \in Requests : q # r => Stage(q)' = Stage(q)
    BY DEF Stage
  <1>2. Gate!Becomes(r, s)
    BY <1>1 DEF Gate!Becomes
  <1>3. OwnBackend' = OwnBackend
    BY DEF OwnBackend, SpawnedHere, Alive, osVars
  <1>4. OtherAnswers' = OtherAnswers
    BY DEF OtherAnswers, osVars
  <1> QED BY <1>2, <1>3, <1>4

LEMMA SameStage ==
    ASSUME NEW r \in Requests, UNCHANGED osVars,
           \A q \in Requests : q # r => pc'[q] = pc[q] /\ call'[q] = call[q],
           Stage(r)' = Stage(r)
    PROVE  UNCHANGED Gate!gateVars
  <1>1. \A q \in Requests : Stage(q)' = Stage(q)
    BY DEF Stage
  <1>2. OwnBackend' = OwnBackend
    BY DEF OwnBackend, SpawnedHere, Alive, osVars
  <1>3. OtherAnswers' = OtherAnswers
    BY DEF OtherAnswers, osVars
  <1> QED BY <1>1, <1>2, <1>3 DEF Gate!gateVars

\* While a request is inside start nobody waits: a request that waits holds the
\* spawn lock.
LEMMA NobodyWaits ==
    ASSUME SpawnInv, NEW r \in Requests, pc[r] = "starting", call[r].at \notin {"ok", "already"}
    PROVE  Gate!NoWaiter
  <1>1. \A q \in Requests : Stage(q) = "waiting" => lock = q
    BY DEF Stage, SpawnInv, Locked
  <1>2. lock = r /\ Stage(r) # "waiting"
    BY DEF Stage, SpawnInv, Locked
  <1> QED BY <1>1, <1>2 DEF Gate!NoWaiter

LEMMA InitGate ==
    ASSUME Init
    PROVE  Gate!Init /\ GateInv
  <1>t. Row \in Models /\ Port[Row] # 0
    BY OnDemandAssumption, BackendAssumption
  <1>1. \A p \in Procs : ~SpawnedHere(p) /\ phase[p] \in {"dead", "ready"}
    BY DEF Init, SpawnedHere, Alive
  <1>2. AdoptedAlive(Row) => phase[adopted[Row]] = "ready" /\ port[adopted[Row]] = Port[Row]
    BY <1>t DEF Init, AdoptedAlive, Alive
  <1>3. \A r \in Requests : Stage(r) = "new"
    <2>1. \A r \in Requests : pc[r] = "new"
      BY DEF Init
    <2> QED BY <2>1 DEF Stage, Settled
  <1>4. OwnBackend = "none" /\ OtherAnswers \in BOOLEAN
    BY <1>1, OwnIs DEF OtherAnswers
  <1> QED BY <1>1, <1>2, <1>3, <1>4 DEF GateInv, Gate!Init

\* The way of a request through ensure_ready.
LEMMA EnsureReadyGate ==
    ASSUME AllInv, NEW r \in Requests, EnsureReady(r)
    PROVE  [Gate!Next]_(Gate!gateVars)
  <1>t. r \in Threads /\ Requests \subseteq Threads
    BY OnDemandAssumption
  <1>0. UNCHANGED osVars
    BY DEF EnsureReady, Probes, Acquires, Rechecks, StartReturns, Polls, Expires, bpVars,
           osVars
  <1>2. \A q \in Requests : q # r => pc'[q] = pc[q] /\ call'[q] = call[q]
    BY <1>t DEF EnsureReady, Probes, Acquires, Rechecks, StartReturns, Polls, Expires,
                Moves, StartCalled, Calls, Returned, Goto, bpVars, AllInv, TypeOK, BackendTypeOK
  <1>m. \A s : Moves(r, s) => pc'[r] = s
    BY DEF Moves, AllInv, TypeOK
  <1>n. pc[r] # "starting" => call[r].at = "idle"
    BY DEF AllInv, SpawnInv
  <1>l. ASSUME Stage(r) \in {"asking", "waiting"}, Stage(r)' = "in", Reachable(Row)
        PROVE  Gate!Next
    BY <1>0, <1>2, <1>l, OneStage, ReachableAnswers DEF Gate!LetIn, Gate!Next
  <1>g. ASSUME Stage(r) \in {"asking", "waiting"}, Stage(r)' = "gone"
        PROVE  Gate!Next
    BY <1>0, <1>2, <1>g, OneStage DEF Gate!Leaves, Gate!Next
  <1>3. CASE Stage(r)' = Stage(r)
    BY <1>0, <1>2, <1>3, SameStage
  <1>4. CASE Probes(r)
    <2>1. pc[r] = "probe" /\ ((Reachable(Row) /\ pc'[r] = "ready") \/ pc'[r] = "lock")
      BY <1>4, <1>m DEF Probes
    <2> QED BY <1>3, <1>l, <2>1 DEF Stage, Settled
  <1>5. CASE Acquires(r)
    <2>1. pc[r] = "lock" /\ pc'[r] = "recheck"
      BY <1>5, <1>m DEF Acquires
    <2> QED BY <1>3, <2>1 DEF Stage, Settled
  <1>6. CASE Rechecks(r)
    <2>1. /\ pc[r] = "recheck"
          /\ \/ Reachable(Row) /\ pc'[r] = "ready"
             \/ pc'[r] = "starting" /\ StartCalled(r, Row)
      BY <1>6, <1>m DEF Rechecks
    <2>2. StartCalled(r, Row) => call'[r].at = "check"
      BY <1>t DEF StartCalled, Calls, Frame, AllInv, TypeOK, BackendTypeOK
    <2> QED BY <1>3, <1>l, <2>1, <2>2 DEF Stage, Settled
  <1>7. CASE StartReturns(r)
    <2>1. /\ pc[r] = "starting"
          /\ \/ call[r].at = "failed" /\ pc'[r] = "answered"
             \/ call[r].at \in {"ok", "already"} /\ pc'[r] = "poll"
      BY <1>7, <1>m DEF StartReturns
    <2> QED BY <1>3, <1>g, <2>1 DEF Stage, Settled
  <1>8. CASE Polls(r)
    <2>1. pc[r] = "poll" /\ pc'[r] = "ready" /\ Reachable(Row)
      BY <1>8, <1>m DEF Polls
    <2> QED BY <1>l, <2>1 DEF Stage, Settled
  <1>9. CASE Expires(r)
    <2>1. pc[r] = "poll" /\ pc'[r] = "answered"
      BY <1>9, <1>m DEF Expires
    <2> QED BY <1>g, <2>1 DEF Stage, Settled
  <1> QED BY <1>4, <1>5, <1>6, <1>7, <1>8, <1>9 DEF EnsureReady

\* Its arrival, and its way through the dispatch.
LEMMA DispatchGate ==
    ASSUME AllInv, NEW r \in Requests, Arrives(r) \/ Dispatch(r)
    PROVE  [Gate!Next]_(Gate!gateVars)
  <1>0. UNCHANGED bpVars
    BY DEF Arrives, Dispatch, Rejects, Dispatches, StreamOpens, StreamDropped, Finishes
  <1>1. UNCHANGED <<osVars, call>>
    BY <1>0 DEF bpVars, osVars
  <1>2. \A q \in Requests : q # r => pc'[q] = pc[q] /\ call'[q] = call[q]
    BY <1>1 DEF Arrives, Dispatch, Rejects, Dispatches, StreamOpens, StreamDropped, Finishes,
                Moves, AllInv, TypeOK
  <1>3. \/ pc[r] = "new" /\ pc'[r] = "probe"
        \/ pc[r] \in {"ready", "serving", "unread"}
           /\ pc'[r] \in {"serving", "unread", "answered", "dropped"}
    BY DEF Arrives, Dispatch, Rejects, Dispatches, StreamOpens, StreamDropped, Finishes,
           Moves, AllInv, TypeOK
  <1>4. CASE Stage(r)' = Stage(r)
    BY <1>1, <1>2, <1>4, SameStage
  <1>5. CASE Stage(r) = "new" /\ Stage(r)' = "asking"
    BY <1>1, <1>2, <1>5, OneStage DEF Gate!Asks, Gate!Next
  <1>6. CASE Stage(r) = "in" /\ Stage(r)' = "gone"
    BY <1>1, <1>2, <1>6, OneStage DEF Gate!Leaves, Gate!Next
  <1> QED BY <1>3, <1>4, <1>5, <1>6 DEF Stage, Settled

\* A step of start: the request finds a backend or spawns one, and waits then.
LEMMA StartGate ==
    ASSUME AllInv, NEW r \in Requests, StartStep(r), UNCHANGED odVars
    PROVE  [Gate!Next]_(Gate!gateVars)
  <1>t. /\ r \in Threads /\ Requests \subseteq Threads /\ r \in Readers
        /\ Row \in Models /\ call[r].model = Row
    BY OnDemandAssumption DEF AllInv, SpawnInv
  <1>1. /\ call[r].at \in {"check", "probe", "spawn"}
        /\ \A q \in Requests : q # r => call'[q] = call[q]
        /\ \A s : Ends(r, s) \/ Goto(r, s) => call'[r].at = s
    BY <1>t DEF StartStep, StartChecks, StartProbes, StartSpawns, Ends, Goto, Frame,
                AllInv, TypeOK, BackendTypeOK
  <1>2. pc[r] = "starting" /\ pc' = pc
    BY <1>1 DEF AllInv, SpawnInv, odVars
  <1>3. Stage(r) = "asking" /\ Gate!NoWaiter
    <2>1. Stage(r) = "asking"
      BY <1>1, <1>2 DEF Stage, Settled
    <2> QED BY <1>1, <1>2, <2>1, NobodyWaits DEF AllInv
  <1>4. /\ call'[r].at \in {"probe", "spawn", "failed"} => Stage(r)' = "asking"
        /\ call'[r].at \in {"ok", "already"} => Stage(r)' = "waiting"
    BY <1>2 DEF Stage, Settled
  <1>5. ASSUME UNCHANGED osVars, call'[r].at \in {"probe", "spawn", "failed"}
        PROVE  UNCHANGED Gate!gateVars
    BY <1>1, <1>2, <1>3, <1>4, <1>5, SameStage
  <1>6. ASSUME UNCHANGED osVars, call'[r].at \in {"ok", "already"},
               OwnBackend # "none" \/ OtherAnswers
        PROVE  Gate!Next
    BY <1>1, <1>2, <1>3, <1>4, <1>6, OneStage DEF Gate!Joins, Gate!Next
  <1>7. CASE StartChecks(r)
    <2>1. /\ UNCHANGED osVars
          /\ (IsRunning(Row) /\ call'[r].at = "already") \/ call'[r].at = "probe"
      BY <1>t, <1>1, <1>7 DEF StartChecks
    <2>2. IsRunning(Row) => OwnBackend # "none" \/ OtherAnswers
      <3>1. handle[Row] \in Procs \cup {NoProc} /\ adopted[Row] \in Procs \cup {NoProc}
        BY <1>t DEF AllInv, TypeOK, BackendTypeOK
      <3>2. CASE HandleAlive(Row)
        <4>1. handle[Row] \in Procs /\ SpawnedHere(handle[Row])
          BY <1>t, <3>1, <3>2 DEF AllInv, KnownInv, HandleAlive, SpawnedHere
        <4> QED BY <4>1, OwnIs
      <3>3. CASE AdoptedAlive(Row)
        <4>1. /\ adopted[Row] \in Procs /\ origin[adopted[Row]] = "survivor"
              /\ phase[adopted[Row]] = "ready" /\ port[adopted[Row]] = Port[Row]
          BY <1>t, <3>1, <3>3 DEF AllInv, KnownInv, GateInv, AdoptedAlive
        <4> QED BY <4>1 DEF OtherAnswers
      <3> QED BY <3>2, <3>3 DEF IsRunning
    <2> QED BY <1>5, <1>6, <2>1, <2>2
  <1>8. CASE StartProbes(r)
    <2>1. /\ UNCHANGED osVars
          /\ (Reachable(Row) /\ call'[r].at = "ok") \/ call'[r].at = "spawn"
      BY <1>t, <1>1, <1>8 DEF StartProbes
    <2>2. Reachable(Row) => OwnBackend # "none" \/ OtherAnswers
      BY ReachableAnswers DEF Gate!Answers
    <2> QED BY <1>5, <1>6, <2>1, <2>2
  <1>9. CASE StartSpawns(r)
    <2>1. CASE UNCHANGED osVars /\ Ends(r, "failed")
      BY <1>1, <1>5, <2>1
    <2>2. ASSUME NEW p \in Procs, Fresh(p), Ends(r, "ok"),
                 phase'  = [phase EXCEPT ![p] = "loading"],
                 port'   = [port EXCEPT ![p] = Port[Row]],
                 origin' = [origin EXCEPT ![p] = "hub"]
          PROVE  Gate!Spawns(r)
      <3>1. /\ phase'[p] = "loading" /\ origin'[p] = "hub" /\ phase[p] = "dead"
            /\ \A q \in Procs : q # p =>
                   phase'[q] = phase[q] /\ port'[q] = port[q] /\ origin'[q] = origin[q]
        BY <2>2, <1>t DEF AllInv, TypeOK, BackendTypeOK, Fresh, Alive
      <3>2. \A q \in Procs : ~SpawnedHere(q)
        <4>1. ~HandleAlive(Row)
          BY <1>1, <1>9 DEF StartSpawns, AllInv, SpawnInv
        <4> QED BY <4>1, BackendAssumption DEF AllInv, SpawnInv, SpawnedHere, HandleAlive
      <3>3. OwnBackend = "none"
        BY <3>2, OwnIs
      <3>4. OwnBackend' = "loading"
        <4>1. SpawnedHere(p)' /\ \A q \in Procs : q # p => ~SpawnedHere(q)'
          BY <3>1, <3>2 DEF SpawnedHere, Alive
        <4> QED BY <3>1, <4>1 DEF OwnBackend
      <3>5. OtherAnswers' = OtherAnswers
        BY <3>1 DEF OtherAnswers
      <3>6. Gate!Becomes(r, "waiting")
        <4>1. \A q \in Requests : q # r => Stage(q)' = Stage(q)
          BY <1>1, <1>2 DEF Stage
        <4>2. Stage(r)' = "waiting"
          BY <1>1, <1>4, <2>2
        <4> QED BY <4>1, <4>2 DEF Gate!Becomes
      <3> QED BY <1>3, <3>3, <3>4, <3>5, <3>6 DEF Gate!Spawns
    <2> QED BY <1>9, <1>t, <2>1, <2>2 DEF StartSpawns, Gate!Next
  <1> QED BY <1>7, <1>8, <1>9 DEF StartStep

\* What the system does.
LEMMA OsGate ==
    ASSUME AllInv, NEW p \in Procs, OsStep(p), UNCHANGED odVars
    PROVE  [Gate!Next]_(Gate!gateVars)
  <1>t. /\ Row \in Models /\ Port[Row] # 0
        /\ \A q \in Procs : SpawnedHere(q) => q = handle[Row]
        /\ GateInv
    BY OnDemandAssumption, BackendAssumption DEF AllInv, SpawnInv
  <1>1. \A q \in Procs : q # p => phase'[q] = phase[q] /\ port'[q] = port[q] /\ origin'[q] = origin[q]
    BY DEF OsStep, Loads, Exits, Appears, AllInv, TypeOK, BackendTypeOK
  <1>2. UNCHANGED [r \in Requests |-> Stage(r)]
    <2>1. \A r \in Requests : Stage(r)' = Stage(r)
      BY DEF OsStep, Loads, Exits, Appears, odVars, Stage
    <2> QED BY <2>1
  <1>3. CASE Loads(p)
    <2>1. /\ phase[p] = "loading" /\ phase'[p] = "ready"
          /\ port'[p] = port[p] /\ origin'[p] = origin[p]
          /\ \A q \in Procs : phase[q] = "ready" => port[q] # port[p]
      BY <1>3 DEF Loads, AllInv, TypeOK, BackendTypeOK
    <2>2. SpawnedHere(p) /\ port[p] = Port[Row]
      BY <1>t, <2>1 DEF GateInv, SpawnedHere, Alive
    <2>3. OwnBackend = "loading"
      BY <1>t, <2>1, <2>2 DEF OwnBackend
    <2>4. OwnBackend' = "up"
      BY <2>1, <2>2 DEF OwnBackend, SpawnedHere, Alive
    <2>5. ~OtherAnswers /\ ~OtherAnswers'
      BY <1>1, <2>1, <2>2 DEF OtherAnswers, SpawnedHere
    <2>6. OtherAnswers' = OtherAnswers
      BY <2>5 DEF OtherAnswers
    <2> QED BY <1>2, <2>3, <2>4, <2>5, <2>6 DEF Gate!ComesUp, Gate!Next
  <1>4. CASE Exits(p)
    <2>1. phase[p] # "dead" /\ phase'[p] = "dead"
      BY <1>4 DEF Exits, Alive, AllInv, TypeOK, BackendTypeOK
    <2>2. CASE origin[p] = "hub"
      <3>1. SpawnedHere(p)
        BY <2>1, <2>2 DEF SpawnedHere, Alive
      <3>2. OwnBackend # "none"
        BY <3>1, OwnIs
      <3>3. OwnBackend' = "none"
        BY <1>t, <1>1, <2>1, <3>1 DEF OwnBackend, SpawnedHere, Alive
      <3>4. OtherAnswers' = OtherAnswers
        BY <1>1, <2>1, <2>2 DEF OtherAnswers
      <3> QED BY <1>2, <3>2, <3>3, <3>4 DEF Gate!GoesDown, Gate!Next
    <2>3. CASE origin[p] # "hub"
      <3>1. \A q \in Procs : /\ SpawnedHere(q)' <=> SpawnedHere(q)
                             /\ SpawnedHere(q) => phase'[q] = phase[q]
        BY <1>1, <2>1, <2>3 DEF SpawnedHere, Alive
      <3>2. OwnBackend' = OwnBackend
        BY <3>1 DEF OwnBackend
      <3>3. OtherAnswers' => OtherAnswers
        BY <1>1, <2>1 DEF OtherAnswers
      <3>4. OtherAnswers \in BOOLEAN /\ OtherAnswers' \in BOOLEAN
        BY DEF OtherAnswers
      <3> QED BY <1>2, <3>2, <3>3, <3>4 DEF Gate!OtherEnds, Gate!Next, Gate!gateVars
    <2> QED BY <2>2, <2>3
  <1>5. CASE Appears(p)
    <2>1. phase[p] = "dead" /\ port'[p] = 0 /\ origin'[p] = "other"
      BY <1>5 DEF Appears, Fresh, Alive, AllInv, TypeOK, BackendTypeOK
    <2>2. OtherAnswers' = OtherAnswers
      BY <1>t, <1>1, <2>1 DEF OtherAnswers, Appears
    <2>3. \A q \in Procs : /\ SpawnedHere(q)' <=> SpawnedHere(q)
                           /\ SpawnedHere(q) => phase'[q] = phase[q]
      BY <1>1, <2>1 DEF SpawnedHere, Alive
    <2>4. OwnBackend' = OwnBackend
      BY <2>3 DEF OwnBackend
    <2> QED BY <1>2, <2>2, <2>4 DEF Gate!gateVars
  <1> QED BY <1>3, <1>4, <1>5 DEF OsStep

\* As long as nothing but requests starts and stops the row, the probes, the
\* spawn lock and start are a SpawnGate, for any number of requests and any
\* processes, PID numbers and ports.
THEOREM RowIsGate ==
    ASSUME Sweepers = {}, Operators = {}
    PROVE  Spec => ImplementsGate
  <1>1. Init => Gate!Init /\ GateInv
    BY InitGate
  <1>2. AllInv /\ [Next]_vars => GateInv'
    BY GateStep
  <1>3. AllInv /\ [Next]_vars => [Gate!Next]_(Gate!gateVars)
    <2> SUFFICES ASSUME AllInv, [Next]_vars PROVE [Gate!Next]_(Gate!gateVars)
      OBVIOUS
    <2>1. ASSUME NEW t \in Threads, CallStep(t)
          PROVE  [Gate!Next]_(Gate!gateVars)
      BY <2>1, OnlyStarts, StartGate DEF AllInv
    <2>2. CASE Tick \/ UNCHANGED vars
      <3>1. UNCHANGED <<phase, origin, port, pc, call>>
        BY <2>2 DEF Tick, vars, bpVars, odVars
      <3>2. \A r \in Requests : Stage(r)' = Stage(r)
        BY <3>1 DEF Stage
      <3>3. OwnBackend' = OwnBackend /\ OtherAnswers' = OtherAnswers
        BY <3>1 DEF OwnBackend, OtherAnswers, SpawnedHere, Alive
      <3> QED BY <3>2, <3>3 DEF Gate!gateVars
    <2> QED BY <2>1, <2>2, EnsureReadyGate, DispatchGate, OsGate DEF Next
  <1>4. Spec => []SpawnInv
    BY SpawnAlways
  <1>5. AllInv <=> TypeOK /\ KnownInv /\ SpawnInv /\ GateInv
    BY DEF AllInv
  <1> QED BY <1>1, <1>2, <1>3, <1>4, <1>5, TypeCorrect, KnownAlways, PTL
          DEF Spec, Gate!Spec, ImplementsGate
=============================================================================
