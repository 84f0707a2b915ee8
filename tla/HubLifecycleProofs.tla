------------------------- MODULE HubLifecycleProofs -------------------------
(***************************************************************************)
(* Theorems about HubLifecycle for any sets of hubs, watchdogs, rows and   *)
(* processes, any autostart list, and careful and careless launching.      *)
(***************************************************************************)
EXTENDS HubLifecycle, SequenceTheorems, TLAPS

ProcType == Procs \cup {None}

-----------------------------------------------------------------------------
(* Type correctness. *)

\* A thread is inside start only while there is a row it was called for.
InCall == \A h \in Hubs : auto[h] \in {"check", "spawn"} => todo[h] # <<>>

TypeInv == TypeOK /\ InCall

\* The rest of a non-empty list of rows is a list of rows.
LEMMA TailType ==
    ASSUME NEW s \in Seq(Rows), s # <<>>
    PROVE  Head(s) \in Rows /\ Tail(s) \in Seq(Rows)
  BY HeadTailProperties

\* A hub that is launched has fresh module state.
LEMMA LaunchedType ==
    ASSUME TypeInv, NEW h \in Hubs, Launched(h), UNCHANGED osVars,
           watch' \in [Watchdogs -> [at : {"idle", "exit", "port"},
                                     parent : Hubs \cup {None}]]
    PROVE  TypeInv'
  <1>1. <<>> \in Seq(Rows)
    OBVIOUS
  <1>2. TypeOK'
    BY <1>1 DEF TypeInv, TypeOK, Launched, Enters, osVars, Stages, AutoStages
  <1>3. InCall'
    BY DEF TypeInv, TypeOK, InCall, Launched
  <1> QED BY <1>2, <1>3 DEF TypeInv

\* The end of a call keeps the list of rows and the task's place.
LEMMA CallEndsType ==
    ASSUME TypeInv, NEW h \in Hubs, auto[h] \in {"check", "spawn"}, CallEnds(h)
    PROVE  /\ auto' \in [Hubs -> AutoStages]
           /\ todo' \in [Hubs -> Seq(Rows)]
           /\ InCall'
  <1>1. todo[h] \in Seq(Rows) /\ todo[h] # <<>>
    BY DEF TypeInv, TypeOK, InCall
  <1>2. Tail(todo[h]) \in Seq(Rows)
    BY <1>1, TailType
  <1>3. auto' \in [Hubs -> AutoStages]
    BY DEF TypeInv, TypeOK, CallEnds, AutoStages
  <1>4. todo' \in [Hubs -> Seq(Rows)]
    BY <1>2 DEF TypeInv, TypeOK, CallEnds
  <1>5. InCall'
    BY DEF TypeInv, TypeOK, InCall, CallEnds
  <1> QED BY <1>3, <1>4, <1>5

\* A step of the autostart task keeps every variable's type.
LEMMA AutostartType ==
    ASSUME TypeInv, NEW h \in Hubs, Autostart(h)
    PROVE  TypeInv'
  <1>1. CASE AutostartCalls(h)
    <2>1. TypeOK'
      BY <1>1 DEF TypeInv, TypeOK, AutostartCalls, AutoStages, hubVars, rowVars, osVars
    <2>2. InCall'
      BY <1>1 DEF TypeInv, TypeOK, InCall, AutostartCalls
    <2> QED BY <2>1, <2>2 DEF TypeInv
  <1>2. CASE AutostartChecks(h)
    <2>1. auto[h] = "check"
      BY <1>2 DEF AutostartChecks
    <2>2. CASE CallEnds(h)
      BY <1>2, <2>1, <2>2, CallEndsType
         DEF TypeInv, TypeOK, AutostartChecks, hubVars, rowVars, osVars
    <2>3. CASE auto' = [auto EXCEPT ![h] = "spawn"] /\ UNCHANGED todo
      <3>1. auto' \in [Hubs -> AutoStages]
        BY <2>3 DEF TypeInv, TypeOK, AutoStages
      <3>2. InCall'
        BY <2>1, <2>3 DEF TypeInv, TypeOK, InCall
      <3> QED BY <1>2, <2>3, <3>1, <3>2
              DEF TypeInv, TypeOK, AutostartChecks, hubVars, rowVars, osVars
    <2> QED BY <1>2, <2>2, <2>3 DEF AutostartChecks
  <1>3. CASE AutostartSpawns(h)
    <2>1. auto[h] = "spawn" /\ CallEnds(h)
      BY <1>3 DEF AutostartSpawns
    <2>2. /\ auto' \in [Hubs -> AutoStages]
          /\ todo' \in [Hubs -> Seq(Rows)]
          /\ InCall'
      BY <2>1, CallEndsType
    <2>3. Head(todo[h]) \in Rows
      BY <2>1, TailType DEF TypeInv, TypeOK, InCall
    <2>4. /\ phase' \in [Procs -> {"dead", "loading", "ready"}]
          /\ row' \in [Procs -> Rows]
          /\ keeper' \in [Procs -> Hubs \cup {None}]
          /\ owned' \in [Hubs -> [Rows -> Procs \cup {None}]]
          /\ inherited' \in [Hubs -> SUBSET Rows]
      <3>1. CASE UNCHANGED <<osVars, rowVars>>
        BY <3>1 DEF TypeInv, TypeOK, osVars, rowVars
      <3>2. CASE ~ UNCHANGED <<osVars, rowVars>>
        <4>1. PICK p \in Procs :
                /\ phase' = [phase EXCEPT ![p] = "loading"]
                /\ row' = [row EXCEPT ![p] = Head(todo[h])]
                /\ keeper' = [keeper EXCEPT ![p] = h]
                /\ inherited' = [inherited EXCEPT ![h] = @ \ {Head(todo[h])}]
                /\ owned' = [g \in Hubs |->
                               [m \in Rows |->
                                  IF g = h /\ m = Head(todo[h]) THEN p
                                  ELSE IF owned[g][m] = p THEN None ELSE owned[g][m]]]
          BY <1>3, <3>2 DEF AutostartSpawns
        <4>2. owned' \in [Hubs -> [Rows -> Procs \cup {None}]]
          BY <4>1 DEF TypeInv, TypeOK
        <4>3. inherited' \in [Hubs -> SUBSET Rows]
          BY <4>1 DEF TypeInv, TypeOK
        <4> QED BY <2>3, <4>1, <4>2, <4>3 DEF TypeInv, TypeOK
      <3> QED BY <3>1, <3>2
    <2> QED BY <1>3, <2>2, <2>4 DEF TypeInv, TypeOK, AutostartSpawns, hubVars
  <1> QED BY <1>1, <1>2, <1>3 DEF Autostart

\* An exit that is under way changes stages and flags only.
LEMMA ShutdownType ==
    ASSUME TypeInv, NEW h \in Hubs, Drains(h) \/ Shutdown(h) \/ Killed(h)
    PROVE  TypeInv'
  <1>1. CASE Closes(h)
    BY <1>1 DEF TypeInv, TypeOK, InCall, Closes, Enters, Stages, rowVars, taskVars, osVars
  <1>2. CASE Drains(h)
    BY <1>2 DEF TypeInv, TypeOK, InCall, Drains, Enters, Stages, rowVars, taskVars, osVars
  <1>3. CASE CancelsTasks(h)
    BY <1>3 DEF TypeInv, TypeOK, InCall, CancelsTasks, Enters, Stages, AutoStages, rowVars, osVars
  <1>4. CASE BeginsTearDown(h)
    <2>1. CASE restarting[h]
      BY <1>4, <2>1 DEF TypeInv, TypeOK, InCall, BeginsTearDown, Enters, Stages, rowVars, osVars
    <2>2. CASE ~restarting[h]
      <3> DEFINE running == {m \in Rows : IsRunning(h, m)}
      <3>0. /\ children' = [children EXCEPT ![h] = running]
            /\ clean' = [clean EXCEPT ![h] = TRUE]
            /\ hub' = [hub EXCEPT ![h] = "teardown"]
        BY <1>4, <2>2 DEF BeginsTearDown, Enters
      <3>1. running \in SUBSET Rows
        OBVIOUS
      <3> HIDE DEF running
      <3>2. children' \in [Hubs -> SUBSET Rows] /\ clean' \in [Hubs -> BOOLEAN]
        BY <3>0, <3>1 DEF TypeInv, TypeOK
      <3>3. hub' \in [Hubs -> Stages]
        BY <3>0 DEF TypeInv, TypeOK, Stages
      <3>4. UNCHANGED <<told, restarting, rowVars, todo, auto, watch, osVars>>
        BY <1>4 DEF BeginsTearDown
      <3> QED BY <3>2, <3>3, <3>4 DEF TypeInv, TypeOK, InCall, rowVars, osVars
    <2> QED BY <2>1, <2>2
  <1>5. CASE \E m \in Rows : StopsChild(h, m)
    <2>1. PICK m \in Rows : StopsChild(h, m)
      BY <1>5
    <2>2. owned' \in [Hubs -> [Rows -> Procs \cup {None}]]
      <3>1. [owned[h] EXCEPT ![m] = None] \in [Rows -> Procs \cup {None}]
        BY DEF TypeInv, TypeOK
      <3>2. \/ owned' = owned
            \/ owned' = [owned EXCEPT ![h] = [owned[h] EXCEPT ![m] = None]]
        BY <2>1 DEF TypeInv, TypeOK, StopsChild
      <3> QED BY <3>1, <3>2 DEF TypeInv, TypeOK
    <2>3. phase' \in [Procs -> {"dead", "loading", "ready"}]
      BY <2>1 DEF TypeInv, TypeOK, StopsChild
    <2>4. /\ clean' \in [Hubs -> BOOLEAN]
          /\ children' \in [Hubs -> SUBSET Rows] /\ inherited' \in [Hubs -> SUBSET Rows]
      BY <2>1 DEF TypeInv, TypeOK, StopsChild
    <2> QED BY <2>1, <2>2, <2>3, <2>4 DEF TypeInv, TypeOK, InCall, StopsChild
  <1>6. CASE EndsTearDown(h)
    BY <1>6 DEF TypeInv, TypeOK, InCall, EndsTearDown, Enters, Stages, rowVars, taskVars, osVars
  <1>7. CASE Leaves(h)
    BY <1>7 DEF TypeInv, TypeOK, InCall, Leaves, Enters, Stages, rowVars, taskVars, osVars
  <1>8. CASE Killed(h)
    BY <1>8 DEF TypeInv, TypeOK, InCall, Killed, Enters, Stages, AutoStages, rowVars, osVars
  <1> QED BY <1>1, <1>2, <1>3, <1>4, <1>5, <1>6, <1>7, <1>8 DEF Shutdown

\* A look-up that fails forgets a record.
LEMMA LookUpType ==
    ASSUME TypeInv, NEW h \in Hubs, NEW m \in Rows, LookUpFails(h, m)
    PROVE  TypeInv'
  <1>1. owned' \in [Hubs -> [Rows -> Procs \cup {None}]]
    <2>1. [owned[h] EXCEPT ![m] = None] \in [Rows -> Procs \cup {None}]
      BY DEF TypeInv, TypeOK
    <2>2. owned' = [owned EXCEPT ![h] = [owned[h] EXCEPT ![m] = None]]
      BY DEF TypeInv, TypeOK, LookUpFails
    <2> QED BY <2>1, <2>2 DEF TypeInv, TypeOK
  <1>2. inherited' \in [Hubs -> SUBSET Rows] /\ keeper' \in [Procs -> Hubs \cup {None}]
    BY DEF TypeInv, TypeOK, LookUpFails
  <1> QED BY <1>1, <1>2 DEF TypeInv, TypeOK, InCall, LookUpFails, hubVars, taskVars, osVars

\* So does any step of a hub process ...
LEMMA HubStepType ==
    ASSUME TypeInv, NEW h \in Hubs, HubStep(h)
    PROVE  TypeInv'
  <1>1. CASE Starts(h)
    BY <1>1, LaunchedType DEF Starts, TypeInv, TypeOK
  <1>2. CASE Inherits(h)
    <2>1. Eager \in Seq(Rows)
      BY HubAssumption
    <2>2. TypeOK'
      BY <1>2, <2>1 DEF TypeInv, TypeOK, Inherits, Enters, Stages, AutoStages, osVars
    <2>3. InCall'
      BY <1>2 DEF TypeInv, TypeOK, InCall, Inherits
    <2> QED BY <2>2, <2>3 DEF TypeInv
  <1>3. CASE Binds(h)
    BY <1>3 DEF TypeInv, TypeOK, InCall, Binds, Enters, Stages, rowVars, taskVars, osVars
  <1>4. CASE Autostart(h)
    BY <1>4, AutostartType
  <1>5. CASE StopRequested(h)
    BY <1>5 DEF TypeInv, TypeOK, InCall, StopRequested, rowVars, taskVars, osVars
  <1>6. CASE RestartRequested(h)
    <2>1. /\ told' \in [Hubs -> BOOLEAN]
          /\ watch' \in [Watchdogs -> [at : {"idle", "exit", "port"},
                                       parent : Hubs \cup {None}]]
      <3>1. CASE UNCHANGED <<watch, told>>
        BY <3>1 DEF TypeInv, TypeOK
      <3>2. CASE ~ UNCHANGED <<watch, told>>
        <4>1. PICK w \in Watchdogs :
                /\ watch' = [watch EXCEPT ![w] = [at |-> "exit", parent |-> h]]
                /\ told' = [told EXCEPT ![h] = TRUE]
          BY <1>6, <3>2 DEF RestartRequested, SpawnsWatchdog
        <4>2. [at |-> "exit", parent |-> h] \in [at : {"idle", "exit", "port"},
                                                 parent : Hubs \cup {None}]
          OBVIOUS
        <4> QED BY <4>1, <4>2 DEF TypeInv, TypeOK
      <3> QED BY <3>1, <3>2
    <2> QED BY <1>6, <2>1
            DEF TypeInv, TypeOK, InCall, RestartRequested, rowVars, taskVars, osVars
  <1>7. CASE Drains(h) \/ Shutdown(h) \/ Killed(h)
    BY <1>7, ShutdownType
  <1>8. CASE \E m \in Rows : LookUpFails(h, m)
    BY <1>8, LookUpType
  <1> QED BY <1>1, <1>2, <1>3, <1>4, <1>5, <1>6, <1>7, <1>8 DEF HubStep

\* ... and any step of a respawn watchdog.
LEMMA WatchdogType ==
    ASSUME TypeInv, NEW w \in Watchdogs, WatchdogStep(w)
    PROVE  TypeInv'
  <1>1. watch' \in [Watchdogs -> [at : {"idle", "exit", "port"},
                                  parent : Hubs \cup {None}]]
    <2>1. /\ [at |-> "port", parent |-> None] \in [at : {"idle", "exit", "port"},
                                                   parent : Hubs \cup {None}]
          /\ [at |-> "idle", parent |-> None] \in [at : {"idle", "exit", "port"},
                                                   parent : Hubs \cup {None}]
      OBVIOUS
    <2>2. \/ watch' = [watch EXCEPT ![w] = [at |-> "port", parent |-> None]]
          \/ watch' = [watch EXCEPT ![w] = [at |-> "idle", parent |-> None]]
      BY DEF WatchdogStep, ParentExits, Relaunches
    <2> QED BY <2>1, <2>2 DEF TypeInv, TypeOK
  <1>2. CASE ParentExits(w)
    BY <1>1, <1>2 DEF TypeInv, TypeOK, InCall, ParentExits, hubVars, rowVars, taskVars, osVars
  <1>3. CASE Relaunches(w)
    <2>1. PICK h \in Hubs : Launched(h)
      BY <1>3 DEF Relaunches
    <2> QED BY <1>1, <1>3, <2>1, LaunchedType DEF Relaunches
  <1> QED BY <1>2, <1>3 DEF WatchdogStep

\* No hub, no backend: the types hold.
LEMMA InitTypeInv == Init => TypeInv
  <1> SUFFICES ASSUME Init PROVE TypeInv
    OBVIOUS
  <1>1. <<>> \in Seq(Rows)
    OBVIOUS
  <1> QED BY <1>1 DEF Init, TypeInv, TypeOK, InCall, Stages, AutoStages

\* Every step keeps them.
LEMMA StepTypeInv == TypeInv /\ [Next]_vars => TypeInv'
  <1> SUFFICES ASSUME TypeInv, [Next]_vars PROVE TypeInv'
    OBVIOUS
  <1>1. CASE \E h \in Hubs : HubStep(h)
    BY <1>1, HubStepType
  <1>2. CASE \E w \in Watchdogs : WatchdogStep(w)
    BY <1>2, WatchdogType
  <1>3. CASE \E p \in Procs : Loads(p) \/ Exits(p)
    BY <1>3 DEF TypeInv, TypeOK, InCall, Loads, Exits, hubVars, rowVars, taskVars
  <1>4. CASE UNCHANGED vars
    BY <1>4 DEF TypeInv, TypeOK, InCall, vars, hubVars, rowVars, taskVars, osVars
  <1> QED BY <1>1, <1>2, <1>3, <1>4 DEF Next

\* The inductive form of type correctness.
LEMMA TypeInvariant == Spec => []TypeInv
  BY InitTypeInv, StepTypeInv, PTL DEF Spec

\* Every variable of the hub life-cycle keeps its type.
THEOREM HubTypeCorrect == Spec => []TypeOK
  <1>1. TypeInv => TypeOK
    BY DEF TypeInv
  <1> QED BY <1>1, TypeInvariant, PTL

-----------------------------------------------------------------------------
(* No orphan after an ordinary shutdown. *)

\* The hub has not lost a record: only a stop that failed makes it, in a tear-down.
Remembers(h) ==
    /\ hub[h] # "gone"
    /\ hub[h] \in {"teardown", "joining"} => clean[h]

\* A hub has a record of every live backend it was the last to spawn or inherit,
\* unless a look-up has lost it.
Known ==
    \A h \in Hubs, p \in Procs :
        Remembers(h) /\ LeftBy(h, p) => \E m \in Rows : owned[h][m] = p

\* A hub that has not taken its inventory has nothing, not even a task.
NewHub ==
    \A h \in Hubs : hub[h] = "starting" =>
        auto[h] = "none" /\ \A p \in Procs : keeper[p] # h

\* A call of start that is past its check would overwrite no live process.
NotOwned ==
    \A h \in Hubs : auto[h] = "spawn" => ~IsRunning(h, Head(todo[h]))

\* A cancelled task calls nothing more, and no thread outlives its process.
TaskOver ==
    \A h \in Hubs :
        /\ Cancelled(h) \/ hub[h] = "gone" => auto[h] # "loop"
        /\ hub[h] = "gone" => auto[h] \notin {"check", "spawn"}

\* The tear-down has a list of rows, and no other time of a hub's life has one.
ListUsed ==
    \A h \in Hubs :
        /\ clean[h] => hub[h] \in {"teardown", "joining", "gone"}
        /\ hub[h] \notin {"teardown", "gone"} => children[h] = {}

\* With autostart over, what still runs is on the list.
Listed ==
    \A h \in Hubs :
        hub[h] \in {"teardown", "joining"} /\ clean[h] /\ auto[h] = "done" =>
            \A m \in Rows : IsRunning(h, m) => m \in children[h]

OrphanInv ==
    /\ TypeInv
    /\ Known
    /\ NewHub
    /\ NotOwned
    /\ TaskOver
    /\ ListUsed
    /\ Listed
    /\ NoOrphan

\* Nobody has started anything, so nothing is left behind.
LEMMA InitOrphanInv == Init => OrphanInv
  <1> SUFFICES ASSUME Init PROVE OrphanInv
    OBVIOUS
  <1>1. TypeInv
    BY InitTypeInv
  <1> QED BY <1>1 DEF Init, OrphanInv, Known, Remembers, NewHub, NotOwned, TaskOver, ListUsed,
                      Listed, NoOrphan, LeftBy, Alive, Cancelled

\* Launching a hub gives it a clean slate and changes nothing for the others.
LEMMA LaunchedOrphan ==
    ASSUME OrphanInv, TypeInv', NEW h \in Hubs, Launched(h), UNCHANGED osVars
    PROVE  OrphanInv'
  <1> USE DEF OrphanInv, Launched, Enters, osVars, TypeInv, TypeOK
  <1>1. None \notin Hubs
    BY HubAssumption
  <1>2. Known'
    BY <1>1 DEF Known, Remembers, LeftBy, Alive
  <1>3. NewHub'
    BY <1>1 DEF NewHub
  <1>4. NotOwned'
    BY DEF NotOwned, IsRunning, Alive
  <1>5. TaskOver'
    BY DEF TaskOver, Cancelled
  <1>6. ListUsed'
    BY DEF ListUsed
  <1>7. Listed'
    BY DEF Listed, IsRunning, Alive
  <1>8. NoOrphan'
    BY <1>1 DEF NoOrphan, LeftBy, Alive
  <1> QED BY <1>2, <1>3, <1>4, <1>5, <1>6, <1>7, <1>8

\* A hub that inherits has a record of exactly what it takes over.
LEMMA InheritsOrphan ==
    ASSUME OrphanInv, TypeInv', NEW h \in Hubs, Inherits(h)
    PROVE  OrphanInv'
  <1> USE DEF OrphanInv, TypeInv, TypeOK
  <1>1. PICK found \in [Rows -> Procs \cup {None}] :
          /\ \A m \in Rows : found[m] # None => Listens(found[m], m)
          /\ owned' = [owned EXCEPT ![h] = found]
          /\ keeper' = [p \in Procs |->
                          IF \E m \in Rows : found[m] = p THEN h ELSE keeper[p]]
    BY DEF Inherits
  <1>2. /\ hub[h] = "starting"
        /\ hub' = [hub EXCEPT ![h] = "binding"]
        /\ auto' = [auto EXCEPT ![h] = "loop"]
        /\ UNCHANGED <<told, restarting, clean, children, watch, phase, row>>
        /\ \A g \in Hubs : g # h => todo'[g] = todo[g]
    BY DEF Inherits, Enters, osVars
  <1>3. Known'
    <2> SUFFICES ASSUME NEW g \in Hubs, NEW p \in Procs,
                        Remembers(g)', LeftBy(g, p)'
                 PROVE  \E m \in Rows : owned'[g][m] = p
      BY DEF Known
    <2>1. CASE g = h
      BY <1>1, <1>2, <2>1 DEF NewHub, LeftBy
    <2>2. CASE g # h
      BY <1>1, <1>2, <2>2 DEF Known, Remembers, LeftBy, Alive
    <2> QED BY <2>1, <2>2
  <1>4. NewHub'
    BY <1>1, <1>2 DEF NewHub
  <1>5. NotOwned'
    BY <1>1, <1>2 DEF NotOwned, IsRunning, Alive
  <1>6. TaskOver'
    BY <1>2 DEF TaskOver, Cancelled
  <1>7. ListUsed'
    BY <1>2 DEF ListUsed
  <1>8. Listed'
    BY <1>1, <1>2 DEF Listed, IsRunning, Alive
  <1>9. NoOrphan'
    BY <1>1, <1>2 DEF NoOrphan, LeftBy, Alive
  <1> QED BY <1>3, <1>4, <1>5, <1>6, <1>7, <1>8, <1>9

\* A spawn is recorded, and it overwrites no record of a live process.
LEMMA AutostartOrphan ==
    ASSUME OrphanInv, TypeInv', NEW h \in Hubs, Autostart(h)
    PROVE  OrphanInv'
  <1> USE DEF OrphanInv, TypeInv, TypeOK
  <1>1. CASE AutostartCalls(h)
    <2> USE <1>1 DEF AutostartCalls, hubVars, rowVars, osVars
    <2>1. Known' /\ NewHub' /\ ListUsed'
      BY DEF Known, Remembers, NewHub, ListUsed, LeftBy, Alive
    <2>2. NotOwned'
      BY DEF NotOwned, IsRunning, Alive
    <2>3. TaskOver'
      BY DEF TaskOver, Cancelled
    <2>4. Listed'
      BY DEF Listed, IsRunning, Alive, Cancelled, ListUsed
    <2>5. NoOrphan'
      BY DEF NoOrphan, LeftBy, Alive, TaskOver
    <2> QED BY <2>1, <2>2, <2>3, <2>4, <2>5
  <1>2. CASE AutostartChecks(h)
    <2> USE <1>2 DEF hubVars, rowVars, osVars
    <2>0. /\ auto[h] = "check"
          /\ UNCHANGED <<hubVars, rowVars, children, osVars>>
          /\ \A g \in Hubs : g # h => auto'[g] = auto[g] /\ todo'[g] = todo[g]
          /\ \/ auto'[h] \in {"loop", "late"} /\ (Cancelled(h) => auto'[h] = "late")
             \/ auto'[h] = "spawn" /\ todo' = todo /\ ~IsRunning(h, Head(todo[h]))
      BY DEF AutostartChecks, CallEnds
    <2>1. Known' /\ NewHub' /\ ListUsed'
      BY <2>0 DEF Known, Remembers, NewHub, ListUsed, LeftBy, Alive
    <2>2. NotOwned'
      <3> SUFFICES ASSUME NEW g \in Hubs, auto'[g] = "spawn"
                   PROVE  ~IsRunning(g, Head(todo[g]))'
        BY DEF NotOwned
      <3>1. ~IsRunning(g, Head(todo[g])) /\ todo'[g] = todo[g]
        BY <2>0 DEF NotOwned
      <3> QED BY <2>0, <3>1 DEF IsRunning, Alive
    <2>3. TaskOver'
      BY <2>0 DEF TaskOver, Cancelled
    <2>4. Listed'
      BY <2>0 DEF Listed, IsRunning, Alive
    <2>5. NoOrphan'
      <3> SUFFICES ASSUME NEW g \in Hubs, hub'[g] = "gone", clean'[g], auto'[g] = "done",
                          NEW p \in Procs, LeftBy(g, p)'
                   PROVE  FALSE
        BY DEF NoOrphan
      <3>1. hub[g] = "gone" /\ clean[g] /\ auto[g] = "done" /\ LeftBy(g, p)
        BY <2>0 DEF LeftBy, Alive
      <3> QED BY <3>1 DEF NoOrphan
    <2> QED BY <2>1, <2>2, <2>3, <2>4, <2>5
  <1>3. CASE AutostartSpawns(h)
    <2> DEFINE r == Head(todo[h])
    <2>0. /\ auto[h] = "spawn"
          /\ UNCHANGED <<hub, told, restarting, clean, children>>
          /\ \A g \in Hubs : g # h => auto'[g] = auto[g] /\ todo'[g] = todo[g]
          /\ auto'[h] \in {"loop", "late"}
          /\ Cancelled(h) => auto'[h] = "late"
      BY <1>3 DEF AutostartSpawns, CallEnds, hubVars
    <2>1. hub[h] \notin {"gone", "starting"} /\ ~IsRunning(h, r)
      BY <2>0 DEF TaskOver, NewHub, NotOwned
    <2>2. CASE UNCHANGED <<osVars, rowVars>>
      <3> USE <2>0, <2>2 DEF rowVars, osVars
      <3>1. Known' /\ NewHub' /\ ListUsed'
        BY <2>1 DEF Known, Remembers, NewHub, ListUsed, LeftBy, Alive
      <3>2. NotOwned'
        <4> SUFFICES ASSUME NEW g \in Hubs, auto'[g] = "spawn"
                     PROVE  ~IsRunning(g, Head(todo[g]))'
          BY DEF NotOwned
        <4>1. ~IsRunning(g, Head(todo[g])) /\ todo'[g] = todo[g]
          BY DEF NotOwned
        <4> QED BY <4>1 DEF IsRunning, Alive
      <3>3. TaskOver'
        BY DEF TaskOver, Cancelled
      <3>4. Listed'
        BY DEF Listed, IsRunning, Alive
      <3>5. NoOrphan'
        <4> SUFFICES ASSUME NEW g \in Hubs, hub'[g] = "gone", clean'[g], auto'[g] = "done",
                            NEW p \in Procs, LeftBy(g, p)'
                     PROVE  FALSE
          BY DEF NoOrphan
        <4>1. hub[g] = "gone" /\ clean[g] /\ auto[g] = "done" /\ LeftBy(g, p)
          BY DEF LeftBy, Alive
        <4> QED BY <4>1 DEF NoOrphan
      <3> QED BY <3>1, <3>2, <3>3, <3>4, <3>5
    <2>3. CASE ~ UNCHANGED <<osVars, rowVars>>
      <3>1. PICK p \in Procs :
              /\ ~Alive(p)
              /\ phase' = [phase EXCEPT ![p] = "loading"]
              /\ keeper' = [keeper EXCEPT ![p] = h]
              /\ owned' = [g \in Hubs |->
                             [m \in Rows |->
                                IF g = h /\ m = r THEN p
                                ELSE IF owned[g][m] = p THEN None ELSE owned[g][m]]]
        BY <1>3, <2>3 DEF AutostartSpawns
      <3>2. r \in Rows
        BY <2>0, TailType DEF InCall
      <3>3. None \notin Procs
        BY HubAssumption
      \* Aliveness of what anybody owns: only h's row r comes to life.
      <3>4. \A g \in Hubs, m \in Rows :
               (g # h \/ m # r) => (IsRunning(g, m)' <=> IsRunning(g, m))
        BY <3>1, <3>3 DEF IsRunning, Alive
      <3>5. Known'
        <4> SUFFICES ASSUME NEW g \in Hubs, NEW q \in Procs,
                            Remembers(g)', LeftBy(g, q)'
                     PROVE  \E m \in Rows : owned'[g][m] = q
          BY DEF Known
        <4>1. CASE q = p
          BY <3>1, <3>2, <4>1 DEF LeftBy
        <4>2. CASE q # p
          <5>1. PICK m \in Rows : owned[g][m] = q
            BY <2>0, <3>1, <4>2 DEF Known, Remembers, LeftBy, Alive
          <5>2. Alive(q)
            BY <3>1, <4>2 DEF LeftBy, Alive
          <5>3. ~(g = h /\ m = r)
            BY <2>1, <3>3, <5>1, <5>2 DEF IsRunning
          <5> QED BY <3>1, <4>2, <5>1, <5>3
        <4> QED BY <4>1, <4>2
      <3>6. NewHub'
        BY <2>0, <2>1, <3>1 DEF NewHub
      <3>7. NotOwned'
        <4> SUFFICES ASSUME NEW g \in Hubs, auto'[g] = "spawn"
                     PROVE  ~IsRunning(g, Head(todo[g]))'
          BY DEF NotOwned
        <4>1. g # h /\ auto[g] = "spawn" /\ todo'[g] = todo[g]
          BY <2>0
        <4>2. Head(todo[g]) \in Rows
          BY <4>1, TailType DEF InCall
        <4> QED BY <3>1, <3>3, <4>1, <4>2 DEF NotOwned, IsRunning, Alive
      <3>8. TaskOver' /\ ListUsed'
        BY <2>0 DEF TaskOver, ListUsed, Cancelled
      <3>9. Listed'
        BY <2>0, <3>4 DEF Listed
      <3>10. NoOrphan'
        BY <2>0, <2>1, <3>1 DEF NoOrphan, LeftBy, Alive
      <3> QED BY <3>5, <3>6, <3>7, <3>8, <3>9, <3>10
    <2> QED BY <2>2, <2>3
  <1> QED BY <1>1, <1>2, <1>3 DEF Autostart

\* A hub that moves on in its life, without starting or ending it, and without
\* touching rows, tasks or processes.
LEMMA StageOrphan ==
    ASSUME OrphanInv, TypeInv', NEW h \in Hubs, NEW stage \in Stages,
           hub[h] \notin {"gone", "teardown"}, ~Cancelled(h),
           stage \in {"serving", "closing", "shutdown"}, Enters(h, stage),
           UNCHANGED <<clean, owned, keeper, todo, auto, children, phase, row>>
    PROVE  OrphanInv'
  <1> USE DEF OrphanInv, TypeInv, TypeOK, Enters
  <1>1. Known'
    BY DEF Known, Remembers, Cancelled, LeftBy, Alive
  <1>2. NewHub' /\ TaskOver' /\ ListUsed'
    BY DEF NewHub, TaskOver, ListUsed, Cancelled
  <1>3. NotOwned'
    BY DEF NotOwned, IsRunning, Alive
  <1>4. Listed'
    BY DEF Listed, IsRunning, Alive
  <1>5. NoOrphan'
    BY DEF NoOrphan, LeftBy, Alive
  <1> QED BY <1>1, <1>2, <1>3, <1>4, <1>5

\* A step that changes neither hubs nor rows, tasks or processes.
LEMMA FrameOrphan ==
    ASSUME OrphanInv, TypeInv',
           UNCHANGED <<hub, clean, owned, keeper, todo, auto, children, phase, row>>
    PROVE  OrphanInv'
  BY DEF OrphanInv, Known, Remembers, NewHub, NotOwned, TaskOver, ListUsed, Listed, NoOrphan,
         LeftBy, IsRunning, Alive, Cancelled

\* What is true of the hubs that are gone stays true of them.
LEMMA GoneOrphan ==
    ASSUME NoOrphan, keeper' = keeper, \A p \in Procs : Alive(p)' => Alive(p),
           \A g \in Hubs : hub'[g] = "gone" /\ clean'[g] /\ auto'[g] = "done"
                             => hub[g] = "gone" /\ clean[g] /\ auto[g] = "done"
    PROVE  NoOrphan'
  <1> SUFFICES ASSUME NEW g \in Hubs, hub'[g] = "gone", clean'[g], auto'[g] = "done",
                      NEW p \in Procs, LeftBy(g, p)'
               PROVE  FALSE
    BY DEF NoOrphan
  <1>1. LeftBy(g, p)
    BY DEF LeftBy
  <1> QED BY <1>1 DEF NoOrphan

\* A backend that was known stays known while nobody's records change.
LEMMA KnownKept ==
    ASSUME Known, keeper' = keeper, owned' = owned,
           \A p \in Procs : Alive(p)' => Alive(p),
           \A g \in Hubs : Remembers(g)' => Remembers(g)
    PROVE  Known'
  <1> SUFFICES ASSUME NEW g \in Hubs, NEW p \in Procs, Remembers(g)', LeftBy(g, p)'
               PROVE  \E m \in Rows : owned'[g][m] = p
    BY DEF Known
  <1>1. Remembers(g) /\ LeftBy(g, p)
    BY DEF LeftBy
  <1> QED BY <1>1 DEF Known

\* A call that would overwrite nothing still would not, while no row comes up.
LEMMA NotOwnedKept ==
    ASSUME TypeInv, NotOwned, todo' = todo, auto' = auto,
           \A g \in Hubs, m \in Rows : IsRunning(g, m)' => IsRunning(g, m)
    PROVE  NotOwned'
  <1> SUFFICES ASSUME NEW g \in Hubs, auto'[g] = "spawn"
               PROVE  ~IsRunning(g, Head(todo[g]))'
    BY DEF NotOwned
  <1>1. Head(todo[g]) \in Rows
    BY TailType DEF TypeInv, TypeOK, InCall
  <1>2. PICK m \in Rows : m = Head(todo[g])
    BY <1>1
  <1>3. ~IsRunning(g, m)
    BY <1>2 DEF NotOwned
  <1>4. ~IsRunning(g, m)'
    BY <1>3
  <1> QED BY <1>2, <1>4 DEF IsRunning, Alive

\* An exit: what still runs is on the list, and the list is worked off.
LEMMA ShutdownOrphan ==
    ASSUME OrphanInv, TypeInv', NEW h \in Hubs, Drains(h) \/ Shutdown(h) \/ Killed(h)
    PROVE  OrphanInv'
  <1> USE DEF OrphanInv, TypeInv, TypeOK
  <1>1. CASE Closes(h)
    <2>1. hub[h] \notin {"gone", "teardown"} /\ ~Cancelled(h) /\ "closing" \in Stages
      BY <1>1 DEF Closes, Cancelled, Stages
    <2> QED BY <1>1, <2>1, StageOrphan DEF Closes, rowVars, taskVars, osVars
  <1>2. CASE Drains(h)
    <2>1. hub[h] \notin {"gone", "teardown"} /\ ~Cancelled(h) /\ "shutdown" \in Stages
      BY <1>2 DEF Drains, Cancelled, Stages
    <2> QED BY <1>2, <2>1, StageOrphan DEF Drains, rowVars, taskVars, osVars
  <1>3. CASE CancelsTasks(h)
    <2> USE <1>3 DEF CancelsTasks, Enters, rowVars, osVars
    <2>1. Known' /\ NewHub' /\ ListUsed'
      BY DEF Known, Remembers, NewHub, ListUsed, LeftBy, Alive
    <2>2. NotOwned'
      BY DEF NotOwned, IsRunning, Alive
    <2>3. TaskOver'
      BY DEF TaskOver, Cancelled
    <2>4. Listed'
      BY DEF Listed, IsRunning, Alive
    <2>5. NoOrphan'
      BY DEF NoOrphan, LeftBy, Alive
    <2> QED BY <2>1, <2>2, <2>3, <2>4, <2>5
  <1>4. CASE BeginsTearDown(h)
    <2>1. CASE restarting[h]
      <3> USE <1>4, <2>1 DEF BeginsTearDown, Enters, rowVars, osVars
      <3>0. \A p \in Procs : Alive(p)' => Alive(p)
        BY DEF Alive
      <3>1. Known'
        <4>1. \A g \in Hubs : Remembers(g)' => Remembers(g)
          BY DEF Remembers
        <4> QED BY <3>0, <4>1, KnownKept
      <3>2. NewHub' /\ ListUsed'
        <4>1. /\ hub[h] = "cancelled" /\ hub' = [hub EXCEPT ![h] = "joining"]
              /\ UNCHANGED <<clean, children, keeper, auto>>
          OBVIOUS
        <4> QED BY ONLY OrphanInv, <4>1 DEF OrphanInv, TypeInv, TypeOK, NewHub, ListUsed
      <3>3. NotOwned'
        BY DEF NotOwned, IsRunning, Alive
      <3>4. TaskOver'
        BY DEF TaskOver, Cancelled
      <3>5. Listed'
        <4>1. /\ hub[h] = "cancelled" /\ hub' = [hub EXCEPT ![h] = "joining"]
              /\ UNCHANGED <<clean, children, owned, phase, auto>>
          OBVIOUS
        <4>2. ~clean[h]
          BY <4>1 DEF ListUsed
        <4> QED BY ONLY OrphanInv, <4>1, <4>2
                DEF OrphanInv, TypeInv, TypeOK, Listed, IsRunning, Alive
      <3>6. NoOrphan'
        BY <3>0, GoneOrphan
      <3> QED BY <3>1, <3>2, <3>3, <3>4, <3>5, <3>6
    <2>2. CASE ~restarting[h]
      <3> DEFINE running == {m \in Rows : IsRunning(h, m)}
      <3>0. /\ hub[h] = "cancelled"
            /\ hub' = [hub EXCEPT ![h] = "teardown"]
            /\ clean' = [clean EXCEPT ![h] = TRUE]
            /\ children' = [children EXCEPT ![h] = running]
            /\ UNCHANGED <<owned, keeper, todo, auto, phase, row>>
        BY <1>4, <2>2 DEF BeginsTearDown, Enters, rowVars, osVars
      <3>1. children'[h] = running
        BY <3>0
      <3>2. \A g \in Hubs : g # h => /\ children'[g] = children[g]
                                     /\ clean'[g] = clean[g]
                                     /\ hub'[g] = hub[g]
        BY <3>0
      <3>3. hub'[h] = "teardown"
        BY <3>0
      <3>4. /\ hub[h] = "cancelled"
            /\ UNCHANGED <<owned, keeper, todo, auto, phase, row>>
        BY <3>0
      <3>5. \A m \in Rows : IsRunning(h, m) => m \in children'[h]
        BY <3>1
      <3> HIDE DEF running
      <3>6. \A g \in Hubs, m \in Rows : IsRunning(g, m)' <=> IsRunning(g, m)
        BY <3>4 DEF IsRunning, Alive
      <3>7. Known' /\ NewHub' /\ NoOrphan'
        <4>1. \A p \in Procs : Alive(p)' => Alive(p)
          BY <3>4 DEF Alive
        <4>2. \A g \in Hubs : hub'[g] \in {"gone", "starting"} => g # h
          BY <3>3
        <4>3. Known'
          <5>1. \A g \in Hubs : Remembers(g)' => Remembers(g)
            BY <3>2, <3>3, <3>4 DEF Remembers
          <5> QED BY <3>4, <4>1, <5>1, KnownKept
        <4>4. NoOrphan'
          BY <3>2, <3>4, <4>1, <4>2, GoneOrphan
        <4> QED BY <3>2, <3>4, <4>2, <4>3, <4>4 DEF NewHub
      <3>8. NotOwned'
        BY <3>4 DEF NotOwned, IsRunning, Alive
      <3>9. TaskOver' /\ ListUsed'
        BY <3>2, <3>3, <3>4 DEF TaskOver, ListUsed, Cancelled
      <3>10. Listed'
        BY <3>2, <3>5, <3>6, <3>4 DEF Listed
      <3> QED BY <3>7, <3>8, <3>9, <3>10
    <2> QED BY <2>1, <2>2
  <1>5. CASE \E m \in Rows : StopsChild(h, m)
    <2>1. PICK m \in Rows : StopsChild(h, m)
      BY <1>5
    <2>2. /\ hub[h] = "teardown"
          /\ UNCHANGED <<hub, keeper, todo, auto>>
          /\ children' = [children EXCEPT ![h] = @ \ {m}]
      BY <2>1 DEF StopsChild
    \* A stop that fails may leave the record or not, and the exit is no clean one.
    <2>3. \/ /\ IsRunning(h, m)
             /\ clean' = [clean EXCEPT ![h] = FALSE]
             /\ phase' = phase
             /\ \/ owned' = owned
                \/ owned' = [owned EXCEPT ![h] = [owned[h] EXCEPT ![m] = None]]
          \/ /\ clean' = clean
             /\ owned' = [owned EXCEPT ![h] = [owned[h] EXCEPT ![m] = None]]
             /\ \/ phase' = phase /\ ~IsRunning(h, m)
                \/ /\ owned[h][m] \in Procs
                   /\ phase' = [phase EXCEPT ![owned[h][m]] = "dead"]
      BY <2>1 DEF StopsChild, IsRunning
    <2>4. None \notin Procs
      BY HubAssumption
    <2>5. \A p \in Procs : Alive(p)' => Alive(p)
      BY <2>3 DEF Alive
    <2>6. \A g \in Hubs, n \in Rows : IsRunning(g, n)' => IsRunning(g, n)
      <3> SUFFICES ASSUME NEW g \in Hubs, NEW n \in Rows, IsRunning(g, n)'
                   PROVE  IsRunning(g, n)
        OBVIOUS
      <3>1. owned'[g][n] # None
        BY DEF IsRunning
      <3>2. owned'[g][n] = owned[g][n] /\ owned[g][n] \in Procs
        BY <2>3, <3>1
      <3> QED BY <2>5, <3>2, <2>4 DEF IsRunning, Alive
    <2>7. Known'
      <3> SUFFICES ASSUME NEW g \in Hubs, NEW p \in Procs,
                          Remembers(g)', LeftBy(g, p)'
                   PROVE  \E n \in Rows : owned'[g][n] = p
        BY DEF Known
      <3>0. Remembers(g) /\ (g = h => clean' = clean)
        BY <2>2, <2>3 DEF Remembers, ListUsed
      <3>1. PICK n \in Rows : owned[g][n] = p
        BY <2>2, <2>5, <3>0 DEF Known, LeftBy
      <3>2. Alive(p) /\ Alive(p)'
        BY <2>5 DEF LeftBy
      <3>3. CASE g = h /\ n = m
        BY <2>2, <2>3, <2>4, <3>1, <3>2, <3>3 DEF IsRunning, Alive, Remembers
      <3>4. CASE ~(g = h /\ n = m)
        BY <2>3, <3>1, <3>4
      <3> QED BY <3>3, <3>4
    <2>8. NewHub' /\ TaskOver'
      BY <2>2 DEF NewHub, TaskOver, Cancelled
    <2>9. NotOwned'
      BY <2>2, <2>6, NotOwnedKept
    <2>10. ListUsed'
      BY <2>2, <2>3 DEF ListUsed
    <2>11. Listed'
      <3> SUFFICES ASSUME NEW g \in Hubs, hub'[g] \in {"teardown", "joining"},
                          clean'[g], auto'[g] = "done",
                          NEW n \in Rows, IsRunning(g, n)'
                   PROVE  n \in children'[g]
        BY DEF Listed
      <3>1. clean[g] /\ clean'[g] = clean[g]
        BY <2>3
      <3>2. n \in children[g]
        BY <2>2, <2>6, <3>1 DEF Listed
      <3>3. CASE g = h /\ n = m
        BY <2>3, <2>4, <3>3 DEF IsRunning, Alive
      <3>4. CASE ~(g = h /\ n = m)
        BY <2>2, <3>2, <3>4
      <3> QED BY <3>3, <3>4
    <2>12. NoOrphan'
      <3>1. \A g \in Hubs : clean'[g] => clean[g]
        BY <2>3
      <3> QED BY <2>2, <2>5, <3>1, GoneOrphan
    <2> QED BY <2>7, <2>8, <2>9, <2>10, <2>11, <2>12
  <1>6. CASE EndsTearDown(h)
    <2> USE <1>6 DEF EndsTearDown, Enters, rowVars, taskVars, osVars
    <2>1. Known' /\ NewHub' /\ ListUsed'
      BY DEF Known, Remembers, NewHub, ListUsed, LeftBy, Alive
    <2>2. NotOwned'
      BY DEF NotOwned, IsRunning, Alive
    <2>3. TaskOver'
      BY DEF TaskOver, Cancelled
    <2>4. Listed'
      BY DEF Listed, IsRunning, Alive
    <2>5. NoOrphan'
      BY DEF NoOrphan, LeftBy, Alive
    <2> QED BY <2>1, <2>2, <2>3, <2>4, <2>5
  <1>7. CASE Leaves(h)
    <2> USE <1>7 DEF Leaves, Enters, rowVars, taskVars, osVars
    <2>1. Known' /\ NewHub' /\ ListUsed'
      BY DEF Known, Remembers, NewHub, ListUsed, LeftBy, Alive
    <2>2. NotOwned'
      BY DEF NotOwned, IsRunning, Alive
    <2>3. TaskOver'
      BY DEF TaskOver, Cancelled
    <2>4. Listed'
      BY DEF Listed, IsRunning, Alive
    <2>5. NoOrphan'
      <3> SUFFICES ASSUME NEW g \in Hubs, hub'[g] = "gone", clean'[g], auto'[g] = "done",
                          NEW p \in Procs, LeftBy(g, p)'
                   PROVE  FALSE
        BY DEF NoOrphan
      <3>0. clean[g] /\ auto[g] = "done" /\ LeftBy(g, p)
        BY DEF LeftBy, Alive
      <3>1. CASE g # h
        BY <3>0, <3>1 DEF NoOrphan
      <3>2. CASE g = h
        <4>1. PICK m \in Rows : owned[h][m] = p
          BY <3>0, <3>2 DEF Known, Remembers
        <4>2. IsRunning(h, m)
          BY <3>0, <4>1, HubAssumption DEF IsRunning, LeftBy
        <4>3. m \in children[h]
          BY <3>0, <3>2, <4>2 DEF Listed
        <4> QED BY <4>3 DEF ListUsed
      <3> QED BY <3>1, <3>2
    <2> QED BY <2>1, <2>2, <2>3, <2>4, <2>5
  <1>8. CASE Killed(h)
    <2> USE <1>8 DEF Killed, Enters, rowVars, osVars
    <2>1. Known' /\ NewHub' /\ ListUsed'
      BY DEF Known, Remembers, NewHub, ListUsed, LeftBy, Alive
    <2>2. NotOwned'
      BY DEF NotOwned, IsRunning, Alive
    <2>3. TaskOver'
      BY DEF TaskOver, Cancelled
    <2>4. Listed'
      BY DEF Listed, IsRunning, Alive
    <2>5. NoOrphan'
      BY DEF NoOrphan, LeftBy, Alive
    <2> QED BY <2>1, <2>2, <2>3, <2>4, <2>5
  <1> QED BY <1>1, <1>2, <1>3, <1>4, <1>5, <1>6, <1>7, <1>8 DEF Shutdown

\* A look-up that fails loses the record of one backend, and the hub is its keeper
\* no more.
LEMMA LookUpOrphan ==
    ASSUME OrphanInv, TypeInv', NEW h \in Hubs, NEW m \in Rows, LookUpFails(h, m)
    PROVE  OrphanInv'
  <1> USE DEF OrphanInv, TypeInv, TypeOK
  <1>1. /\ owned[h][m] \in Procs /\ None \notin Procs /\ None \notin Hubs
        /\ owned' = [owned EXCEPT ![h] = [owned[h] EXCEPT ![m] = None]]
        /\ keeper' = [keeper EXCEPT ![owned[h][m]] = IF @ = h THEN None ELSE @]
        /\ UNCHANGED <<hub, clean, todo, auto, children, phase, row>>
    BY HubAssumption DEF LookUpFails, IsRunning, hubVars, taskVars, osVars
  <1>2. \A g \in Hubs, p \in Procs : LeftBy(g, p)' => LeftBy(g, p) /\ (g = h => p # owned[h][m])
    BY <1>1 DEF LeftBy, Alive
  <1>3. \A g \in Hubs, n \in Rows : ~(g = h /\ n = m) => owned'[g][n] = owned[g][n]
    BY <1>1
  <1>4. \A g \in Hubs, n \in Rows : IsRunning(g, n)' => IsRunning(g, n)
    <2> SUFFICES ASSUME NEW g \in Hubs, NEW n \in Rows, IsRunning(g, n)'
                 PROVE  IsRunning(g, n)
      OBVIOUS
    <2>1. owned'[h][m] = None
      BY <1>1
    <2>2. ~(g = h /\ n = m)
      BY <2>1 DEF IsRunning
    <2> QED BY <1>1, <1>3, <2>2 DEF IsRunning, Alive
  <1>5. Known'
    <2> SUFFICES ASSUME NEW g \in Hubs, NEW p \in Procs, Remembers(g)', LeftBy(g, p)'
                 PROVE  \E n \in Rows : owned'[g][n] = p
      BY DEF Known
    <2>1. PICK n \in Rows : owned[g][n] = p
      BY <1>1, <1>2 DEF Known, Remembers
    <2>2. ~(g = h /\ n = m)
      BY <1>2, <2>1
    <2> QED BY <1>3, <2>1, <2>2
  <1>6. NewHub' /\ TaskOver' /\ ListUsed'
    BY <1>1 DEF NewHub, TaskOver, ListUsed, Cancelled
  <1>7. NotOwned'
    BY <1>1, <1>4, NotOwnedKept
  <1>8. Listed'
    BY <1>1, <1>4 DEF Listed
  <1>9. NoOrphan'
    BY <1>1, <1>2 DEF NoOrphan
  <1> QED BY <1>5, <1>6, <1>7, <1>8, <1>9

\* Every step of a hub process keeps the inductive invariant.
LEMMA HubStepOrphan ==
    ASSUME OrphanInv, TypeInv', NEW h \in Hubs, HubStep(h)
    PROVE  OrphanInv'
  <1>1. CASE Starts(h)
    BY <1>1, LaunchedOrphan DEF Starts
  <1>2. CASE Inherits(h)
    BY <1>2, InheritsOrphan
  <1>3. CASE Binds(h)
    <2> DEFINE stage == IF HubServes THEN "shutdown" ELSE "serving"
    <2>1. /\ hub[h] \notin {"gone", "teardown"} /\ ~Cancelled(h)
          /\ stage \in Stages /\ stage \in {"serving", "closing", "shutdown"}
          /\ Enters(h, stage)
      BY <1>3 DEF Binds, Cancelled, Stages
    <2> HIDE DEF stage
    <2> QED BY <1>3, <2>1, StageOrphan DEF Binds, rowVars, taskVars, osVars, hubVars
  <1>4. CASE Autostart(h)
    BY <1>4, AutostartOrphan
  <1>5. CASE StopRequested(h)
    BY <1>5, FrameOrphan DEF StopRequested, rowVars, taskVars, osVars
  <1>6. CASE RestartRequested(h)
    BY <1>6, FrameOrphan DEF RestartRequested, rowVars, taskVars, osVars
  <1>7. CASE Drains(h) \/ Shutdown(h) \/ Killed(h)
    BY <1>7, ShutdownOrphan
  <1>8. CASE \E m \in Rows : LookUpFails(h, m)
    BY <1>8, LookUpOrphan
  <1> QED BY <1>1, <1>2, <1>3, <1>4, <1>5, <1>6, <1>7, <1>8 DEF HubStep

\* A backend that loads or dies leaves no more behind than there was.
LEMMA ProcOrphan ==
    ASSUME OrphanInv, TypeInv', NEW p \in Procs, Loads(p) \/ Exits(p)
    PROVE  OrphanInv'
  <1> USE DEF OrphanInv, TypeInv, TypeOK
  <1>1. UNCHANGED <<hub, clean, owned, keeper, todo, auto, children>>
    BY DEF Loads, Exits, hubVars, rowVars, taskVars
  <1>2. \A q \in Procs : Alive(q)' => Alive(q)
    BY DEF Loads, Exits, Alive
  <1>3. \A g \in Hubs, m \in Rows : IsRunning(g, m)' => IsRunning(g, m)
    BY <1>1, <1>2, HubAssumption DEF IsRunning
  <1>4. Known' /\ NewHub' /\ ListUsed' /\ TaskOver'
    BY <1>1, <1>2 DEF Known, Remembers, NewHub, ListUsed, TaskOver, LeftBy, Cancelled
  <1>5. NotOwned'
    BY <1>1, <1>3, NotOwnedKept
  <1>6. Listed'
    BY <1>1, <1>3 DEF Listed
  <1>7. NoOrphan'
    BY <1>1, <1>2 DEF NoOrphan, LeftBy
  <1> QED BY <1>4, <1>5, <1>6, <1>7

\* Every step of the system keeps it.
LEMMA StepOrphanInv == OrphanInv /\ [Next]_vars => OrphanInv'
  <1> SUFFICES ASSUME OrphanInv, [Next]_vars PROVE OrphanInv'
    OBVIOUS
  <1>0. TypeInv'
    BY StepTypeInv DEF OrphanInv
  <1>1. CASE \E h \in Hubs : HubStep(h)
    BY <1>0, <1>1, HubStepOrphan
  <1>2. CASE \E w \in Watchdogs : WatchdogStep(w)
    <2>1. PICK w \in Watchdogs : WatchdogStep(w)
      BY <1>2
    <2>2. CASE ParentExits(w)
      BY <1>0, <2>2, FrameOrphan DEF ParentExits, hubVars, rowVars, taskVars, osVars
    <2>3. CASE Relaunches(w)
      BY <1>0, <2>3, LaunchedOrphan DEF Relaunches
    <2> QED BY <2>1, <2>2, <2>3 DEF WatchdogStep
  <1>3. CASE \E p \in Procs : Loads(p) \/ Exits(p)
    BY <1>0, <1>3, ProcOrphan
  <1>4. CASE UNCHANGED vars
    BY <1>0, <1>4, FrameOrphan DEF vars, hubVars, rowVars, taskVars, osVars
  <1> QED BY <1>1, <1>2, <1>3, <1>4 DEF Next

\* A hub that has gone through an ordinary shutdown, with autostart over and no
\* stop failed, leaves no backend behind, however many hubs, watchdogs and
\* launches there are at the same time, except one it had inherited and then
\* forgot because psutil raised.
THEOREM NoOrphanCorrect == Spec => []NoOrphan
  <1>1. OrphanInv => NoOrphan
    BY DEF OrphanInv
  <1> QED BY <1>1, InitOrphanInv, StepOrphanInv, PTL DEF Spec

-----------------------------------------------------------------------------
(* One restart at a time spares the hub that serves. *)

OneAtATime == Careful /\ \A v, w \in Watchdogs : v = w

\* A hub that has yet to go, or that would stop its backends when it goes.
Front(h) == \/ hub[h] \in {"starting", "binding", "serving"}
            \/ hub[h] # "gone" /\ ~restarting[h]

\* There is one at most; none while a watchdog is about to launch another, and
\* while it waits for a hub to go only that one, which keeps its backends.
FrontInv ==
    /\ \A g, h \in Hubs : Front(g) /\ Front(h) => g = h
    /\ \A w \in Watchdogs : watch[w].at = "port" => \A h \in Hubs : ~Front(h)
    /\ \A w \in Watchdogs : watch[w].at = "exit" =>
           /\ watch[w].parent \in Hubs
           /\ restarting[watch[w].parent]
           /\ hub[watch[w].parent] \notin {"starting", "binding"}
           /\ \A h \in Hubs : Front(h) => h = watch[w].parent
    /\ \A h \in Hubs : hub[h] = "teardown" => ~restarting[h]

SparesInv == TypeInv /\ FrontInv

\* A step that brings no hub to the front and leaves watchdogs and flags alone.
LEMMA FrontKept ==
    ASSUME FrontInv, UNCHANGED <<watch, restarting>>,
           \A g \in Hubs : Front(g)' => Front(g),
           \A g \in Hubs : hub'[g] \in {"starting", "binding"} => hub[g] \in {"starting", "binding"},
           \A g \in Hubs : hub'[g] = "teardown" => hub[g] = "teardown" \/ ~restarting[g]
    PROVE  FrontInv'
  BY DEF FrontInv

\* A hub that goes on to a later stage.
LEMMA FrontOnward ==
    ASSUME TypeInv, FrontInv, UNCHANGED <<watch, restarting>>,
           NEW h \in Hubs, NEW stage, Enters(h, stage), hub[h] # "gone",
           stage \in {"starting", "binding"} => hub[h] \in {"starting", "binding"},
           stage = "serving" => hub[h] = "binding",
           stage = "teardown" => ~restarting[h]
    PROVE  FrontInv'
  <1>1. \A g \in Hubs : hub'[g] = IF g = h THEN stage ELSE hub[g]
    BY DEF TypeInv, TypeOK, Enters
  <1>2. \A g \in Hubs : Front(g)' => Front(g)
    BY <1>1 DEF Front
  <1> QED BY <1>1, <1>2, FrontKept DEF FrontInv

\* A launch when nothing is at the front.
LEMMA FrontLaunched ==
    ASSUME TypeInv, FrontInv, NEW h \in Hubs, Launched(h),
           \A g \in Hubs : ~Front(g),
           \A w \in Watchdogs : watch'[w].at = "idle"
    PROVE  FrontInv'
  <1>1. /\ \A g \in Hubs : hub'[g] = IF g = h THEN "starting" ELSE hub[g]
        /\ \A g \in Hubs : g # h => restarting'[g] = restarting[g]
    BY DEF TypeInv, TypeOK, Launched, Enters
  <1>2. \A g \in Hubs : Front(g)' => g = h
    BY <1>1 DEF Front
  <1>3. \A g \in Hubs : hub'[g] = "teardown" => ~restarting'[g]
    BY <1>1 DEF FrontInv
  <1> QED BY <1>2, <1>3 DEF FrontInv

LEMMA HubStepFront ==
    ASSUME OneAtATime, SparesInv, NEW h \in Hubs, HubStep(h)
    PROVE  FrontInv'
  <1> USE DEF SparesInv
  <1>1. CASE Starts(h)
    <2>1. NoneComing /\ Launched(h) /\ UNCHANGED watch
      BY <1>1 DEF Starts, OneAtATime
    <2>2. /\ \A g \in Hubs : ~Front(g)
          /\ \A w \in Watchdogs : watch'[w].at = "idle"
      BY <2>1 DEF NoneComing, Front
    <2> QED BY <2>1, <2>2, FrontLaunched
  <1>2. CASE Inherits(h)
    BY <1>2, FrontOnward DEF Inherits
  <1>3. CASE Binds(h)
    BY <1>3, FrontOnward DEF Binds
  <1>4. CASE Autostart(h) \/ StopRequested(h)
    <2>1. UNCHANGED <<hub, watch, restarting>>
      BY <1>4 DEF Autostart, AutostartCalls, AutostartChecks, AutostartSpawns, StopRequested,
                  hubVars
    <2> QED BY <2>1, FrontKept DEF Front, FrontInv
  <1>5. CASE RestartRequested(h)
    <2>1. /\ hub[h] = "serving" /\ UNCHANGED hub
          /\ \A g \in Hubs : restarting'[g] = (g = h \/ restarting[g])
      BY <1>5 DEF RestartRequested, TypeInv, TypeOK
    <2>2. Front(h) /\ \A g \in Hubs : Front(g)' => g = h
      BY <2>1 DEF Front, FrontInv
    <2>3. \A g \in Hubs : hub'[g] = "teardown" => ~restarting'[g]
      BY <2>1 DEF FrontInv
    <2>4. CASE UNCHANGED watch
      BY <2>1, <2>2, <2>3, <2>4 DEF FrontInv
    <2>5. CASE \E w \in Watchdogs : SpawnsWatchdog(w, h)
      <3>1. \A w \in Watchdogs : watch'[w] = [at |-> "exit", parent |-> h]
        BY <2>5 DEF SpawnsWatchdog, OneAtATime, TypeInv, TypeOK
      <3>2. \A w \in Watchdogs : watch'[w].at = "exit" /\ watch'[w].parent = h
        BY <3>1
      <3>3. hub'[h] = "serving" /\ restarting'[h]
        BY <2>1
      <3>4. \A w \in Watchdogs : watch'[w].at = "exit" =>
                /\ watch'[w].parent \in Hubs
                /\ restarting'[watch'[w].parent]
                /\ hub'[watch'[w].parent] \notin {"starting", "binding"}
                /\ \A g \in Hubs : Front(g)' => g = watch'[w].parent
        BY <2>2, <3>2, <3>3
      <3> QED BY <2>2, <2>3, <3>2, <3>4 DEF FrontInv
    <2> QED BY <1>5, <2>4, <2>5 DEF RestartRequested
  <1>6. CASE Drains(h) \/ Closes(h) \/ CancelsTasks(h) \/ EndsTearDown(h) \/ Leaves(h) \/ Killed(h)
    BY <1>6, FrontOnward DEF Drains, Closes, CancelsTasks, EndsTearDown, Leaves, Killed
  <1>7. CASE BeginsTearDown(h)
    BY <1>7, FrontOnward DEF BeginsTearDown
  <1>8. CASE \E m \in Rows : StopsChild(h, m) \/ LookUpFails(h, m)
    <2>1. UNCHANGED <<hub, watch, restarting>>
      BY <1>8 DEF StopsChild, LookUpFails, hubVars
    <2> QED BY <2>1, FrontKept DEF Front, FrontInv
  <1> QED BY <1>1, <1>2, <1>3, <1>4, <1>5, <1>6, <1>7, <1>8 DEF HubStep, Shutdown

LEMMA WatchdogFront ==
    ASSUME OneAtATime, SparesInv, NEW w \in Watchdogs, WatchdogStep(w)
    PROVE  FrontInv'
  <1> USE DEF SparesInv
  <1>1. CASE ParentExits(w)
    <2>1. /\ watch[w].at = "exit" /\ hub[watch[w].parent] # "serving"
          /\ UNCHANGED <<hub, restarting>>
          /\ \A v \in Watchdogs : watch'[v].at = "port"
      BY <1>1 DEF ParentExits, hubVars, OneAtATime, TypeInv, TypeOK
    <2>2. \A h \in Hubs : ~Front(h)
      BY <2>1 DEF Front, FrontInv
    <2> QED BY <2>1, <2>2 DEF Front, FrontInv
  <1>2. CASE Relaunches(w)
    <2>1. \A v \in Watchdogs : watch'[v].at = "idle"
      BY <1>2 DEF Relaunches, OneAtATime, TypeInv, TypeOK
    <2>2. \A h \in Hubs : ~Front(h)
      BY <1>2 DEF Relaunches, FrontInv
    <2> QED BY <1>2, <2>1, <2>2, FrontLaunched DEF Relaunches
  <1> QED BY <1>1, <1>2 DEF WatchdogStep

LEMMA StepFront ==
    ASSUME OneAtATime, SparesInv, [Next]_vars
    PROVE  SparesInv'
  <1>1. TypeInv'
    BY StepTypeInv DEF SparesInv
  <1>2. CASE (\E p \in Procs : Loads(p) \/ Exits(p)) \/ UNCHANGED vars
    <2>1. UNCHANGED <<hub, watch, restarting>>
      BY <1>2 DEF Loads, Exits, vars, hubVars
    <2> QED BY <1>1, <2>1, FrontKept DEF Front, FrontInv, SparesInv
  <1> QED BY <1>1, <1>2, HubStepFront, WatchdogFront DEF Next, SparesInv

\* A step that changes what a hub has left to stop, and ends a process, is the
\* stop of a row in a tear-down.
LEMMA WhoStops ==
    ASSUME TypeInv, Next, NEW h \in Hubs, children'[h] # children[h], phase' # phase
    PROVE  hub[h] = "teardown"
  <1>1. PICK g \in Hubs : HubStep(g) \/ \E w \in Watchdogs : Relaunches(w)
    BY DEF Next, WatchdogStep, ParentExits, Loads, Exits, taskVars
  <1>2. \E m \in Rows : StopsChild(g, m)
    BY <1>1 DEF HubStep, Starts, Relaunches, Inherits, Binds, Autostart, AutostartCalls,
                AutostartChecks, AutostartSpawns, StopRequested, RestartRequested, Drains,
                Shutdown, Closes, CancelsTasks, BeginsTearDown, EndsTearDown, Leaves, Killed,
                LookUpFails, CallEnds, taskVars, osVars
  <1>3. hub[g] = "teardown" /\ \A k \in Hubs : k # g => children'[k] = children[k]
    BY <1>2 DEF StopsChild, TypeInv, TypeOK
  <1> QED BY <1>3

\* While people start a hub only when none is there or coming, and one restart
\* is under way at a time, no hub stops a backend of another that serves.
THEOREM SparesCorrect ==
    ASSUME OneAtATime
    PROVE  Spec => SparesServingHub
  <1>1. Init => SparesInv
    BY InitTypeInv DEF Init, SparesInv, FrontInv, Front
  <1>2. SparesInv /\ [Next]_vars => SparesInv'
    BY StepFront
  <1>3. SparesInv /\ [Next]_vars =>
            [\A h, g \in Hubs, m \in Rows :
                (g # h /\ hub[g] = "serving" /\ IsRunning(g, m) /\ children'[h] # children[h])
                    => phase'[owned[g][m]] # "dead"]_vars
    <2> SUFFICES ASSUME SparesInv, Next, NEW h \in Hubs, NEW g \in Hubs, NEW m \in Rows,
                        g # h, hub[g] = "serving", IsRunning(g, m),
                        children'[h] # children[h], phase'[owned[g][m]] = "dead"
                 PROVE  FALSE
      OBVIOUS
    <2>1. phase' # phase
      BY DEF IsRunning, Alive
    <2>2. hub[h] = "teardown"
      BY <2>1, WhoStops DEF SparesInv
    <2>3. Front(h) /\ Front(g)
      BY <2>2 DEF Front, SparesInv, FrontInv
    <2> QED BY <2>3 DEF SparesInv, FrontInv
  <1> QED BY <1>1, <1>2, <1>3, PTL DEF Spec, SparesServingHub
=============================================================================
