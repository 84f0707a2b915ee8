---------------------------- MODULE TrayHubProofs ----------------------------
(***************************************************************************)
(* Theorems about TrayHub for any trays, any hubs and whoever else starts  *)
(* and ends them: a hub serves alone, a restart that is told as done was   *)
(* one, and a tray that quits leaves no hub of its own.                    *)
(***************************************************************************)
EXTENDS TrayHub, FiniteSetTheorems, TLAPS

-----------------------------------------------------------------------------
(* The invariant *)

OneServing == \A g, h \in Hubs : hub[g] = "serving" /\ hub[h] = "serving" => g = h

\* In start or stop.
Busy(stage) == stage \notin {"idle", "ready", "restarted"}

\* Unless threads of a tray have met there, at most one is in start or stop.
AloneInv ==
    \A t \in Trays : ~crossed[t] =>
        \A v, w \in Workers : Busy(at[<<t, v>>]) /\ Busy(at[<<t, w>>]) => v = w

\* Only a running tray has threads that do anything.
OffInv ==
    \A t \in Trays : life[t] # "on" => \A w \in Workers : at[<<t, w>>] = "idle"

\* The autostart worker never stops a hub.
AutoInv == \A t \in Trays : at[<<t, "auto">>] \notin {"stop", "wait"}

\* What a tray has a record of was started, and what was not has no parent.
KnownInv ==
    /\ \A t \in Trays : proc[t] # NoHub => hub[proc[t]] # "none"
    /\ \A h \in Hubs : hub[h] = "none" => parent[h] = NoTray

\* The process that a thread has signalled is the one its tray has a record of.
HeldInv ==
    \A t \in Trays : \A w \in Workers :
        at[<<t, w>>] = "wait" /\ ~crossed[t] =>
            /\ held[<<t, w>>] = proc[t]
            /\ proc[t] \in Hubs
            /\ hub[proc[t]] \in {"dying", "dead"}

\* A thread that is about to spawn overwrites no record of a live process.
SpawnInv ==
    \A t \in Trays : \A w \in Workers :
        at[<<t, w>>] \in {"probe", "spawn"} /\ ~crossed[t] => ~Alive(proc[t])

\* A tray that has not quit has a record of the hub that it spawned.
ChildInv ==
    \A t \in Trays : ~crossed[t] /\ life[t] \in {"off", "on"} =>
        \A h \in Hubs : parent[h] = t /\ hub[h] \in {"starting", "serving"} => proc[t] = h

\* A restart that is on its way past stop has replaced the hub; one that has
\* still to stop it has a record of it, or of nothing alive.
RestartInv ==
    \A t \in Trays : old[t] # NoHub /\ ~missed[t] /\ ~crossed[t] /\ <<t, "click">> \notin raised =>
        /\ at[<<t, "click">>] = "stop" =>
              /\ hub[old[t]] \in {"serving", "dying", "dead"}
              /\ Alive(proc[t]) => proc[t] = old[t] \/ hub[old[t]] \in {"dying", "dead"}
        /\ at[<<t, "click">>] \notin {"idle", "stop"} => hub[old[t]] \in {"dying", "dead"}

TrayInv ==
    /\ TrayTypeOK /\ OneServing /\ AloneInv /\ OffInv /\ AutoInv /\ KnownInv
    /\ HeldInv /\ SpawnInv /\ ChildInv /\ RestartInv /\ QuitLeavesNoHub

-----------------------------------------------------------------------------
(* Types *)

\* A set without two elements has at most one.
LEMMA AtMostOne ==
    ASSUME NEW S, \A x, y \in S : x = y
    PROVE  Cardinality(S) <= 1
  <1>1. CASE S = {}
    BY <1>1, FS_EmptySet
  <1>2. CASE S # {}
    <2>1. PICK x : x \in S
      BY <1>2
    <2>2. S = {x}
      BY <2>1
    <2> QED BY <2>2, FS_Singleton
  <1> QED BY <1>1, <1>2

\* A thread is a worker of a tray.
LEMMA ThreadFacts ==
    /\ \A k \in Threads : k[1] \in Trays /\ k[2] \in Workers /\ k = <<k[1], k[2]>>
    /\ \A t \in Trays : \A w \in Workers : <<t, w>> \in Threads
    /\ \A t, u, v, w : <<t, v>> = <<u, w>> <=> t = u /\ v = w
  BY DEF Threads

\* The types, without the number of serving hubs.
TrayTypes ==
    /\ life \in [Trays -> {"off", "on", "quit", "crashed"}]
    /\ instance \in SUBSET Trays
    /\ mutex \in Threads \cup {NoThread}
    /\ proc \in [Trays -> Hubs \cup {NoHub}]
    /\ at \in [Threads -> Stages]
    /\ held \in [Threads -> Hubs \cup {NoHub}]
    /\ hub \in [Hubs -> {"none", "starting", "serving", "dying", "dead"}]
    /\ parent \in [Hubs -> Trays \cup {NoTray}]
    /\ old \in [Trays -> Hubs \cup {NoHub}]
    /\ missed \in [Trays -> BOOLEAN]
    /\ crossed \in [Trays -> BOOLEAN]
    /\ raised \in SUBSET Threads

\* The count follows from the invariant.
LEMMA TypesOfParts ==
    ASSUME TrayTypes, OneServing
    PROVE  TrayTypeOK
  <1>1. Cardinality({h \in Hubs : hub[h] = "serving"}) <= 1
    BY AtMostOne DEF OneServing
  <1> QED BY <1>1 DEF TrayTypes, TrayTypeOK

\* At the start nothing runs.
LEMMA InitTray == TrayInit => TrayInv
  <1> SUFFICES ASSUME TrayInit PROVE TrayInv
    OBVIOUS
  <1> USE DEF TrayInit
  <1>1. TrayTypes
    BY DEF TrayTypes, Threads, Stages
  <1>2. OneServing
    BY DEF OneServing
  <1>3. TrayTypeOK
    BY <1>1, <1>2, TypesOfParts
  <1>4. AloneInv /\ OffInv /\ AutoInv
    BY ThreadFacts DEF AloneInv, OffInv, AutoInv, Busy, Workers
  <1>5. KnownInv
    BY DEF KnownInv
  <1>6. HeldInv /\ SpawnInv
    BY ThreadFacts DEF HeldInv, SpawnInv
  <1>7. ChildInv /\ QuitLeavesNoHub
    BY DEF ChildInv, QuitLeavesNoHub
  <1>8. RestartInv
    BY DEF RestartInv
  <1> QED BY <1>2, <1>3, <1>4, <1>5, <1>6, <1>7, <1>8 DEF TrayInv

-----------------------------------------------------------------------------
(* Hubs *)

\* Hubs only go on: none, starting, serving, dying, dead.
Onward ==
    /\ hub' \in [Hubs -> {"none", "starting", "serving", "dying", "dead"}]
    /\ \A g \in Hubs : hub[g] # "none" => hub'[g] # "none"
    /\ \A g \in Hubs : hub[g] = "dead" => hub'[g] = "dead"
    /\ \A g \in Hubs : hub[g] \in {"dying", "dead"} => hub'[g] \in {"dying", "dead"}
    /\ \A g \in Hubs : hub[g] = "serving" => hub'[g] \in {"serving", "dying", "dead"}

\* A step that leaves the trays alone while hubs go on.
LEMMA HubsOnward ==
    ASSUME TrayInv, Onward, OneServing',
           UNCHANGED <<life, instance, mutex, proc, at, held, parent, old, missed, crossed, raised>>
    PROVE  TrayInv'
  <1> USE TrayAssumption DEF TrayInv
  <1>1. TrayTypeOK'
    <2>1. TrayTypes'
      BY DEF TrayTypeOK, TrayTypes, Onward
    <2>2. Cardinality({h \in Hubs : hub'[h] = "serving"}) <= 1
      BY AtMostOne DEF OneServing
    <2> QED BY <2>1, <2>2 DEF TrayTypes, TrayTypeOK
  <1>2. AloneInv' /\ OffInv' /\ AutoInv'
    BY DEF AloneInv, OffInv, AutoInv
  <1>3. KnownInv'
    BY DEF KnownInv, Onward, TrayTypeOK
  <1>4. \A t \in Trays : Alive(proc[t])' => Alive(proc[t])
    BY DEF Alive, KnownInv, Onward, TrayTypeOK
  <1>5. HeldInv'
    BY DEF HeldInv, Onward
  <1>6. SpawnInv'
    BY <1>4 DEF SpawnInv
  <1>7. ChildInv' /\ QuitLeavesNoHub'
    <2>1. \A h \in Hubs : \A t \in Trays :
              parent[h] = t /\ hub'[h] \in {"starting", "serving"} => hub[h] \in {"starting", "serving"}
      BY DEF KnownInv, Onward, TrayTypeOK
    <2> QED BY <2>1 DEF ChildInv, QuitLeavesNoHub
  <1>8. RestartInv'
    <2> SUFFICES ASSUME NEW t \in Trays, old[t] # NoHub, ~missed[t], ~crossed[t],
                        <<t, "click">> \notin raised
                 PROVE  /\ at[<<t, "click">>] = "stop" =>
                              /\ hub'[old[t]] \in {"serving", "dying", "dead"}
                              /\ Alive(proc[t])' => proc[t] = old[t] \/ hub'[old[t]] \in {"dying", "dead"}
                        /\ at[<<t, "click">>] \notin {"idle", "stop"} => hub'[old[t]] \in {"dying", "dead"}
      BY DEF RestartInv
    <2>1. old[t] \in Hubs
      BY DEF TrayTypeOK
    <2> QED BY <1>4, <2>1 DEF RestartInv, Onward
  <1> QED BY <1>1, <1>2, <1>3, <1>5, <1>6, <1>7, <1>8

\* A hub binds only a free port, and otherwise leaves.
LEMMA HubStepTray ==
    ASSUME TrayInv, NEW h \in Hubs, HubStep(h)
    PROVE  TrayInv'
  <1>1. PICK new \in {"starting", "serving", "dead"} :
        /\ hub' = [hub EXCEPT ![h] = new]
        /\ new = "starting" => hub[h] = "none"
        /\ new = "serving" => hub[h] = "starting" /\ Serving = {}
        /\ UNCHANGED <<life, instance, mutex, proc, at, held, parent, old, missed, crossed, raised>>
    BY DEF HubStep, HubBinds, HubEnds, OthersStart, processVars, historyVars
  <1>2. hub \in [Hubs -> {"none", "starting", "serving", "dying", "dead"}]
    BY DEF TrayInv, TrayTypeOK
  <1>3. Onward
    BY <1>1, <1>2 DEF Onward
  <1>4. OneServing'
    BY <1>1, <1>2 DEF TrayInv, OneServing, Serving
  <1> QED BY <1>1, <1>3, <1>4, HubsOnward

-----------------------------------------------------------------------------
(* Threads that change no hub *)

\* Thread k of tray t goes on to a stage in which it has no more to answer for
\* than before; the tray's record may go when nothing alive is lost.
LEMMA ThreadGoes ==
    ASSUME TrayInv, NEW t \in Trays, NEW w \in Workers, NEW stage \in Stages,
           at' = [at EXCEPT ![<<t, w>>] = stage],
           mutex' \in Threads \cup {NoThread},
           UNCHANGED <<life, instance, hub, parent, old, crossed>>,
           life[t] = "on" \/ stage = "idle",
           Busy(stage) => Busy(at[<<t, w>>]),
           stage = "wait" => at[<<t, w>>] = "wait",
           held' \in [Threads -> Hubs \cup {NoHub}],
           \A j \in Threads : j # <<t, w>> => held'[j] = held[j],
           stage = "wait" => held' = held /\ proc' = proc,
           proc' \in [Trays -> Hubs \cup {NoHub}],
           \A u \in Trays : u # t => proc'[u] = proc[u],
           proc'[t] \in {proc[t], NoHub},
           proc'[t] # proc[t] => (crossed[t] \/ ~Alive(proc[t])),
           proc'[t] # proc[t] => Busy(at[<<t, w>>]),
           stage \in {"probe", "spawn"} => at[<<t, w>>] \in {"probe", "spawn"} \/ ~Alive(proc[t]),
           missed' \in [Trays -> BOOLEAN],
           \A u \in Trays : missed[u] => missed'[u],
           raised' \in SUBSET Threads, raised \subseteq raised',
           stage = "stop" => at[<<t, w>>] = "stop",
           w = "click" /\ stage \notin {"idle", "stop"} /\ ~missed'[t] /\ ~crossed[t]
               /\ <<t, "click">> \notin raised' /\ old[t] # NoHub =>
               hub[old[t]] \in {"dying", "dead"}
    PROVE  TrayInv'
  <1> USE TrayAssumption DEF TrayInv
  <1>1. TrayTypeOK' /\ OneServing'
    <2>1. at' \in [Threads -> Stages]
      BY DEF TrayTypeOK
    <2>2. TrayTypes'
      BY <2>1 DEF TrayTypeOK, TrayTypes
    <2>3. OneServing'
      BY DEF OneServing
    <2>4. Cardinality({h \in Hubs : hub'[h] = "serving"}) <= 1
      BY DEF TrayTypeOK
    <2> QED BY <2>2, <2>3, <2>4 DEF TrayTypes, TrayTypeOK
  <1>2. /\ at'[<<t, w>>] = stage
        /\ \A u \in Trays : \A v \in Workers : u # t \/ v # w => at'[<<u, v>>] = at[<<u, v>>]
        /\ \A u \in Trays : \A v \in Workers : u # t \/ v # w => held'[<<u, v>>] = held[<<u, v>>]
    BY ThreadFacts DEF TrayTypeOK
  <1>3. AloneInv'
    <2> SUFFICES ASSUME NEW u \in Trays, ~crossed[u], NEW v1 \in Workers, NEW v2 \in Workers,
                        Busy(at'[<<u, v1>>]), Busy(at'[<<u, v2>>])
                 PROVE  v1 = v2
      BY DEF AloneInv
    <2>1. Busy(at[<<u, v1>>]) /\ Busy(at[<<u, v2>>])
      BY <1>2
    <2> QED BY <2>1 DEF AloneInv
  <1>4. OffInv' /\ AutoInv'
    <2>1. OffInv'
      BY <1>2 DEF OffInv
    <2>2. AutoInv'
      <3> SUFFICES ASSUME NEW u \in Trays PROVE at'[<<u, "auto">>] \notin {"stop", "wait"}
        BY DEF AutoInv
      <3>1. at[<<u, "auto">>] \notin {"stop", "wait"} /\ "auto" \in Workers
        BY DEF AutoInv, Workers
      <3> QED BY <1>2, <3>1
    <2> QED BY <2>1, <2>2
  <1>5. KnownInv'
    BY DEF KnownInv
  <1>6. \A u \in Trays : Alive(proc[u])' => Alive(proc[u])
    BY DEF Alive
  <1>7. HeldInv'
    <2> SUFFICES ASSUME NEW u \in Trays, NEW v \in Workers, at'[<<u, v>>] = "wait", ~crossed[u]
                 PROVE  /\ held'[<<u, v>>] = proc'[u]
                        /\ proc'[u] \in Hubs
                        /\ hub[proc'[u]] \in {"dying", "dead"}
      BY DEF HeldInv
    <2>1. at[<<u, v>>] = "wait" /\ held'[<<u, v>>] = held[<<u, v>>]
      BY <1>2, ThreadFacts
    <2>2. /\ held[<<u, v>>] = proc[u] /\ proc[u] \in Hubs
          /\ hub[proc[u]] \in {"dying", "dead"}
      BY <2>1 DEF HeldInv
    <2>3. proc'[u] = proc[u]
      <3>1. CASE u = t /\ v # w
        <4>1. ~Busy(at[<<t, w>>])
          BY <2>1, <3>1 DEF AloneInv, Busy
        <4> QED BY <3>1, <4>1
      <3>2. CASE u = t /\ v = w
        BY <1>2, <3>2
      <3> QED BY <3>1, <3>2
    <2> QED BY <2>1, <2>2, <2>3
  <1>8. SpawnInv'
    BY <1>2, <1>6 DEF SpawnInv
  <1>9. ChildInv' /\ QuitLeavesNoHub'
    BY DEF ChildInv, QuitLeavesNoHub, Alive, TrayTypeOK
  <1>10. RestartInv'
    <2> SUFFICES ASSUME NEW u \in Trays, old[u] # NoHub, ~missed'[u], ~crossed[u],
                        <<u, "click">> \notin raised'
                 PROVE  /\ at'[<<u, "click">>] = "stop" =>
                              /\ hub[old[u]] \in {"serving", "dying", "dead"}
                              /\ Alive(proc[u])' => proc'[u] = old[u] \/ hub[old[u]] \in {"dying", "dead"}
                        /\ at'[<<u, "click">>] \notin {"idle", "stop"} => hub[old[u]] \in {"dying", "dead"}
      BY DEF RestartInv
    <2>1. ~missed[u] /\ <<u, "click">> \notin raised
      OBVIOUS
    <2>2. Alive(proc[u])' => proc'[u] = proc[u]
      BY DEF Alive
    <2>3. CASE u = t /\ w = "click"
      BY <1>2, <1>6, <2>1, <2>2, <2>3 DEF RestartInv
    <2>4. CASE ~(u = t /\ w = "click")
      <3>1. at'[<<u, "click">>] = at[<<u, "click">>]
        BY <1>2, <2>4 DEF Workers
      <3> QED BY <1>6, <2>1, <2>2, <3>1 DEF RestartInv
    <2> QED BY <2>3, <2>4
  <1> QED BY <1>1, <1>3, <1>4, <1>5, <1>7, <1>8, <1>9, <1>10

\* The threads of a tray end with it; it may leave a hub of its own only if it
\* crashes or its threads have met.
LEMMA EndsTray ==
    ASSUME TrayInv, NEW t \in Trays, NEW how \in {"quit", "crashed"}, Ends(t, how),
           life[t] = "on",
           UNCHANGED <<hub, parent, old>>,
           held' \in [Threads -> Hubs \cup {NoHub}],
           \A u \in Trays : \A v \in Workers : u # t => held'[<<u, v>>] = held[<<u, v>>],
           proc' \in [Trays -> Hubs \cup {NoHub}],
           \A u \in Trays : u # t => proc'[u] = proc[u],
           proc'[t] \in {proc[t], NoHub},
           missed' \in [Trays -> BOOLEAN],
           \A u \in Trays : missed[u] => missed'[u],
           crossed' \in [Trays -> BOOLEAN],
           \A u \in Trays : crossed[u] => crossed'[u],
           raised' \in SUBSET Threads, raised \subseteq raised',
           how = "quit" /\ ~crossed'[t] /\ <<t, "quit">> \notin raised' =>
               \A h \in Hubs : parent[h] = t => hub[h] \notin {"starting", "serving"}
    PROVE  TrayInv'
  <1> USE TrayAssumption DEF TrayInv
  <1>1. /\ life' = [life EXCEPT ![t] = how]
        /\ at' = [j \in Threads |-> IF j[1] = t THEN "idle" ELSE at[j]]
        /\ instance' = instance \ {t}
        /\ mutex' \in {mutex, NoThread}
    BY DEF Ends
  <1>2. /\ \A v \in Workers : at'[<<t, v>>] = "idle"
        /\ \A u \in Trays : \A v \in Workers : u # t => at'[<<u, v>>] = at[<<u, v>>]
        /\ life'[t] = how
        /\ \A u \in Trays : u # t => life'[u] = life[u]
    BY <1>1, ThreadFacts DEF TrayTypeOK
  <1>3. TrayTypeOK' /\ OneServing'
    <2>1. at' \in [Threads -> Stages]
      BY <1>1 DEF TrayTypeOK, Stages
    <2>2. TrayTypes'
      BY <1>1, <2>1 DEF TrayTypeOK, TrayTypes
    <2>3. OneServing'
      BY DEF OneServing
    <2>4. Cardinality({h \in Hubs : hub'[h] = "serving"}) <= 1
      BY DEF TrayTypeOK
    <2> QED BY <2>2, <2>3, <2>4 DEF TrayTypes, TrayTypeOK
  <1>4. AloneInv' /\ OffInv' /\ AutoInv'
    <2>1. AloneInv' /\ OffInv'
      BY <1>2 DEF AloneInv, OffInv, Busy
    <2>2. AutoInv'
      BY <1>2 DEF AutoInv, Workers
    <2> QED BY <2>1, <2>2
  <1>5. KnownInv'
    BY DEF KnownInv
  <1>6. \A u \in Trays : Alive(proc[u])' => Alive(proc[u])
    BY DEF Alive
  <1>7. HeldInv' /\ SpawnInv'
    BY <1>2, <1>6 DEF HeldInv, SpawnInv
  <1>8. ChildInv' /\ QuitLeavesNoHub'
    BY <1>2 DEF ChildInv, QuitLeavesNoHub
  <1>9. RestartInv'
    <2> SUFFICES ASSUME NEW u \in Trays, old[u] # NoHub, ~missed'[u], ~crossed'[u],
                        <<u, "click">> \notin raised'
                 PROVE  /\ at'[<<u, "click">>] = "stop" =>
                              /\ hub[old[u]] \in {"serving", "dying", "dead"}
                              /\ Alive(proc[u])' => proc'[u] = old[u] \/ hub[old[u]] \in {"dying", "dead"}
                        /\ at'[<<u, "click">>] \notin {"idle", "stop"} => hub[old[u]] \in {"dying", "dead"}
      BY DEF RestartInv
    <2>1. ~missed[u] /\ ~crossed[u] /\ <<u, "click">> \notin raised /\ "click" \in Workers
      BY DEF Workers
    <2> QED BY <1>2, <1>6, <2>1 DEF RestartInv
  <1> QED BY <1>3, <1>4, <1>5, <1>7, <1>8, <1>9

-----------------------------------------------------------------------------
(* The steps of a thread *)

\* start, up to the spawn, and the wait for the hub.
LEMMA StartStepsTray ==
    ASSUME TrayInv, NEW t \in Trays, NEW w \in Workers,
           \/ Locks(<<t, w>>) \/ ChecksRunning(<<t, w>>)
           \/ ProbesHub(<<t, w>>) \/ WaitsReady(<<t, w>>)
    PROVE  TrayInv'
  <1> DEFINE k == <<t, w>>
  <1>1. k[1] = t /\ k[2] = w /\ k \in Threads
    BY ThreadFacts
  <1>2. PICK stage \in {"check", "ready", "probe", "spawn", "idle", "restarted"} :
        /\ at' = [at EXCEPT ![<<t, w>>] = stage]
        /\ mutex' \in {mutex, k, NoThread}
        /\ UNCHANGED <<life, instance, proc, held, hub, parent, old, crossed, raised>>
        /\ at[<<t, w>>] # "idle" /\ at[<<t, w>>] # "stop"
        /\ Busy(stage) => Busy(at[<<t, w>>])
        /\ stage \in {"probe", "spawn"} => at[<<t, w>>] \in {"probe", "spawn"} \/ ~Alive(proc[t])
        /\ \/ missed' = missed
           \/ missed' = [missed EXCEPT ![t] = TRUE]
    <2>1. CASE Locks(k)
      BY <1>1, <2>1 DEF Locks, Goes, Busy, hubVars, historyVars
    <2>2. CASE ChecksRunning(k)
      BY <1>1, <2>2 DEF ChecksRunning, Goes, Unlocks, Busy, hubVars, historyVars
    <2>3. CASE ProbesHub(k)
      BY <1>1, <2>3 DEF ProbesHub, Goes, Unlocks, MayMiss, Busy, hubVars
    <2>4. CASE WaitsReady(k)
      BY <1>1, <2>4 DEF WaitsReady, Goes, Busy, processVars, hubVars, historyVars
    <2> QED BY <2>1, <2>2, <2>3, <2>4
  <1>3. life[t] = "on"
    BY <1>2 DEF TrayInv, OffInv
  <1>4. /\ mutex' \in Threads \cup {NoThread}
        /\ missed' \in [Trays -> BOOLEAN]
        /\ \A u \in Trays : missed[u] => missed'[u]
        /\ proc \in [Trays -> Hubs \cup {NoHub}]
        /\ held \in [Threads -> Hubs \cup {NoHub}]
        /\ raised' = raised /\ raised \in SUBSET Threads
    BY <1>1, <1>2 DEF TrayInv, TrayTypeOK
  <1>5. w = "click" /\ ~missed'[t] /\ ~crossed[t] /\ <<t, "click">> \notin raised /\ old[t] # NoHub =>
            hub[old[t]] \in {"dying", "dead"}
    BY <1>2, <1>4 DEF TrayInv, RestartInv
  <1>6. stage \in Stages /\ stage # "wait" /\ stage # "stop"
    BY <1>2 DEF Stages
  <1> HIDE DEF k
  <1> QED BY <1>2, <1>3, <1>4, <1>5, <1>6, ThreadGoes

\* A hub is spawned: the record that it replaces is of nothing alive.
LEMMA SpawnsHubTray ==
    ASSUME TrayInv, NEW t \in Trays, NEW w \in Workers, SpawnsHub(<<t, w>>)
    PROVE  TrayInv'
  <1> USE TrayAssumption
  <1> DEFINE k == <<t, w>>
  <1>1. k[1] = t /\ k[2] = w /\ k \in Threads
    BY ThreadFacts
  <1>2. /\ at[<<t, w>>] = "spawn"
        /\ mutex' \in {mutex, NoThread}
        /\ UNCHANGED <<life, instance, held, old, missed, crossed, raised>>
    BY <1>1 DEF SpawnsHub, Unlocks, historyVars
  <1>3. life[t] = "on"
    BY <1>2 DEF TrayInv, OffInv
  <1>4. CASE /\ at' = [at EXCEPT ![<<t, w>>] = "idle"]
             /\ UNCHANGED <<hub, parent, proc>>
    <2>1. /\ mutex' \in Threads \cup {NoThread}
          /\ proc \in [Trays -> Hubs \cup {NoHub}]
          /\ held \in [Threads -> Hubs \cup {NoHub}]
          /\ missed \in [Trays -> BOOLEAN] /\ raised \in SUBSET Threads
          /\ "idle" \in Stages /\ ~Busy("idle")
      BY <1>2 DEF TrayInv, TrayTypeOK, Stages, Busy
    <2> QED BY <1>2, <1>3, <1>4, <2>1, ThreadGoes
  <1>5. ASSUME NEW h \in Hubs, hub[h] = "none",
               hub' = [hub EXCEPT ![h] = "starting"],
               parent' = [parent EXCEPT ![h] = t],
               proc' = [proc EXCEPT ![t] = h],
               at' = [at EXCEPT ![<<t, w>>] = "ready"]
        PROVE  TrayInv'
    <2> USE DEF TrayInv
    <2>1. /\ proc'[t] = h /\ \A u \in Trays : u # t => proc'[u] = proc[u]
          /\ hub'[h] = "starting" /\ \A g \in Hubs : g # h => hub'[g] = hub[g]
          /\ parent'[h] = t /\ \A g \in Hubs : g # h => parent'[g] = parent[g]
          /\ at'[<<t, w>>] = "ready"
          /\ \A u \in Trays : \A v \in Workers : u # t \/ v # w => at'[<<u, v>>] = at[<<u, v>>]
      BY <1>5, ThreadFacts DEF TrayTypeOK
    <2>2. OneServing'
      BY <2>1 DEF OneServing
    <2>3. TrayTypeOK'
      <3>1. TrayTypes'
        BY <1>1, <1>2, <1>5 DEF TrayTypeOK, TrayTypes, Stages
      <3>2. Cardinality({g \in Hubs : hub'[g] = "serving"}) <= 1
        BY <2>2, AtMostOne DEF OneServing
      <3> QED BY <3>1, <3>2 DEF TrayTypes, TrayTypeOK
    <2>4. AloneInv' /\ OffInv' /\ AutoInv'
      <3>1. AloneInv' /\ OffInv'
        BY <1>2, <1>3, <2>1 DEF AloneInv, OffInv, Busy
      <3>2. AutoInv'
        BY <2>1 DEF AutoInv, Workers
      <3> QED BY <3>1, <3>2
    <2>5. KnownInv'
      BY <2>1 DEF KnownInv, TrayTypeOK
    \* No other thread of t is in start or stop, unless they have met.
    <2>6. ~crossed[t] => \A v \in Workers : ~Busy(at'[<<t, v>>])
      BY <1>2, <2>1 DEF AloneInv, Busy
    <2>7. \A u \in Trays : u # t => (Alive(proc[u])' <=> Alive(proc[u]))
      <3>1. \A u \in Trays : u # t => proc[u] # h
        BY <1>5 DEF KnownInv
      <3> QED BY <2>1, <3>1 DEF Alive
    <2>8. HeldInv'
      <3> SUFFICES ASSUME NEW u \in Trays, NEW v \in Workers, at'[<<u, v>>] = "wait", ~crossed[u]
                   PROVE  /\ held[<<u, v>>] = proc'[u]
                          /\ proc'[u] \in Hubs
                          /\ hub'[proc'[u]] \in {"dying", "dead"}
        BY <1>2 DEF HeldInv
      <3>1. u # t
        BY <2>6 DEF Busy
      <3>2. /\ held[<<u, v>>] = proc[u] /\ proc[u] \in Hubs
            /\ hub[proc[u]] \in {"dying", "dead"}
        BY <2>1, <3>1 DEF HeldInv
      <3> QED BY <1>5, <2>1, <3>1, <3>2
    <2>9. SpawnInv'
      <3> SUFFICES ASSUME NEW u \in Trays, NEW v \in Workers,
                          at'[<<u, v>>] \in {"probe", "spawn"}, ~crossed[u]
                   PROVE  ~Alive(proc[u])'
        BY <1>2 DEF SpawnInv
      <3>1. u # t
        BY <2>6 DEF Busy
      <3> QED BY <2>1, <2>7, <3>1 DEF SpawnInv
    <2>10. ChildInv'
      <3> SUFFICES ASSUME NEW u \in Trays, ~crossed[u], life[u] \in {"off", "on"}, NEW g \in Hubs,
                          parent'[g] = u, hub'[g] \in {"starting", "serving"}
                   PROVE  proc'[u] = g
        BY <1>2 DEF ChildInv
      <3>1. CASE g = h
        BY <2>1, <3>1
      <3>2. CASE g # h
        <4>1. proc[u] = g
          BY <2>1, <3>2 DEF ChildInv
        <4>2. Alive(proc[u])
          BY <2>1, <3>2, <4>1 DEF Alive
        <4>3. u # t
          BY <1>2, <4>2 DEF SpawnInv
        <4> QED BY <2>1, <4>1, <4>3
      <3> QED BY <3>1, <3>2
    <2>11. QuitLeavesNoHub'
      BY <1>2, <1>3, <2>1 DEF QuitLeavesNoHub
    <2>12. RestartInv'
      <3> SUFFICES ASSUME NEW u \in Trays, old[u] # NoHub, ~missed[u], ~crossed[u],
                        <<u, "click">> \notin raised
                   PROVE  /\ at'[<<u, "click">>] = "stop" =>
                                /\ hub'[old[u]] \in {"serving", "dying", "dead"}
                                /\ Alive(proc[u])' => proc'[u] = old[u] \/ hub'[old[u]] \in {"dying", "dead"}
                          /\ at'[<<u, "click">>] \notin {"idle", "stop"} => hub'[old[u]] \in {"dying", "dead"}
        BY <1>2 DEF RestartInv
      <3>1. old[u] \in Hubs /\ "click" \in Workers
        BY DEF TrayTypeOK, Workers
      <3>2. hub[old[u]] # "none" => hub'[old[u]] = hub[old[u]]
        BY <1>5, <2>1, <3>1
      <3>3. CASE u = t
        <4>1. at'[<<u, "click">>] # "stop"
          BY <2>6, <3>1, <3>3 DEF Busy
        <4>2. at'[<<u, "click">>] \notin {"idle", "stop"} =>
                  at[<<u, "click">>] \notin {"idle", "stop"}
          BY <1>2, <2>1, <3>1, <3>3, ThreadFacts
        <4> QED BY <3>2, <4>1, <4>2 DEF RestartInv
      <3>4. CASE u # t
        BY <2>1, <2>7, <3>1, <3>2, <3>4 DEF RestartInv
      <3> QED BY <3>3, <3>4
    <2> QED BY <2>2, <2>3, <2>4, <2>5, <2>8, <2>9, <2>10, <2>11, <2>12
  <1> QED BY <1>1, <1>4, <1>5 DEF SpawnsHub, Goes, hubVars

\* What a tray has a record of and does not stop is not alive.
LEMMA StopFindsNoneTray ==
    ASSUME TrayInv, NEW t \in Trays, NEW w \in Workers, StopFindsNone(<<t, w>>)
    PROVE  TrayInv'
  <1> USE TrayAssumption
  <1> DEFINE k == <<t, w>>
  <1>1. k[1] = t /\ k[2] = w /\ k \in Threads
    BY ThreadFacts
  <1>2. /\ at[<<t, w>>] = "stop"
        /\ ~Alive(proc[t])
        /\ proc' = [proc EXCEPT ![t] = NoHub]
        /\ UNCHANGED <<held, hub, parent, old, crossed, raised>>
    BY <1>1 DEF StopFindsNone, hubVars
  <1>3. /\ proc' \in [Trays -> Hubs \cup {NoHub}]
        /\ proc'[t] = NoHub /\ \A u \in Trays : u # t => proc'[u] = proc[u]
        /\ held \in [Threads -> Hubs \cup {NoHub}]
        /\ mutex \in Threads \cup {NoThread}
        /\ missed \in [Trays -> BOOLEAN] /\ raised \in SUBSET Threads
        /\ life[t] = "on"
        /\ Busy(at[<<t, w>>])
        /\ "idle" \in Stages /\ "lock" \in Stages /\ ~Busy("idle")
    BY <1>2 DEF TrayInv, TrayTypeOK, OffInv, Stages, Busy
  <1>4. CASE w = "click" /\ Goes(k, "idle") /\ UNCHANGED <<processVars, missed>>
    <2>1. /\ at' = [at EXCEPT ![<<t, w>>] = "idle"]
          /\ UNCHANGED <<life, instance, mutex, missed>>
      BY <1>4 DEF Goes, processVars
    <2> QED BY <1>2, <1>3, <2>1, ThreadGoes
  <1>5. CASE MayMiss(k) /\ AfterStop(k)
    <2>1. /\ missed' \in [Trays -> BOOLEAN]
          /\ \A u \in Trays : missed[u] => missed'[u]
          /\ w = "click" /\ Serving # {} => missed'[t]
      BY <1>1, <1>3, <1>5 DEF MayMiss
    <2>2. CASE w = "click"
      <3>1. /\ at' = [at EXCEPT ![<<t, w>>] = "lock"]
            /\ UNCHANGED <<life, instance, mutex>>
        BY <1>1, <1>5, <2>2 DEF AfterStop, Goes, processVars
      <3>2. ~missed'[t] /\ ~crossed[t] /\ <<t, "click">> \notin raised /\ old[t] # NoHub =>
                hub[old[t]] \in {"dying", "dead"}
        <4> SUFFICES ASSUME ~missed'[t], ~crossed[t], <<t, "click">> \notin raised, old[t] # NoHub
                     PROVE  hub[old[t]] \in {"dying", "dead"}
          OBVIOUS
        <4>1. old[t] \in Hubs /\ hub[old[t]] \in {"serving", "dying", "dead"}
          BY <1>2, <2>1, <2>2 DEF TrayInv, TrayTypeOK, RestartInv
        <4>2. hub[old[t]] # "serving"
          BY <2>1, <2>2, <4>1 DEF Serving
        <4> QED BY <4>1, <4>2
      <3> QED BY <1>2, <1>3, <2>1, <2>2, <3>1, <3>2, ThreadGoes
    <2>3. CASE w # "click"
      <3>1. Ends(t, "quit")
        BY <1>1, <1>5, <2>3 DEF AfterStop
      <3>2. ~crossed'[t] => \A h \in Hubs : parent[h] = t => hub[h] \notin {"starting", "serving"}
        BY <1>2, <1>3 DEF TrayInv, ChildInv, Alive
      <3>3. crossed \in [Trays -> BOOLEAN]
        BY DEF TrayInv, TrayTypeOK
      <3> QED BY <1>2, <1>3, <2>1, <3>1, <3>2, <3>3, EndsTray
    <2> QED BY <2>2, <2>3
  <1> QED BY <1>1, <1>4, <1>5 DEF StopFindsNone

\* The tray's own hub is signalled.
LEMMA StopSignalsTray ==
    ASSUME TrayInv, NEW t \in Trays, NEW w \in Workers, StopSignals(<<t, w>>)
    PROVE  TrayInv'
  <1> USE TrayAssumption DEF TrayInv
  <1> DEFINE k == <<t, w>>
  <1>1. k[1] = t /\ k[2] = w /\ k \in Threads
    BY ThreadFacts
  <1>2. PICK h : h = proc[t]
    OBVIOUS
  <1>3. /\ at[<<t, w>>] = "stop"
        /\ h \in Hubs /\ hub[h] \in {"starting", "serving", "dying"}
        /\ held' = [held EXCEPT ![<<t, w>>] = h]
        /\ hub' = [hub EXCEPT ![h] = "dying"]
        /\ at' = [at EXCEPT ![<<t, w>>] = "wait"]
        /\ UNCHANGED <<life, instance, mutex, proc, parent, old, missed, crossed, raised>>
    BY <1>1, <1>2 DEF StopSignals, Alive, Goes, processVars, historyVars
  <1>4. /\ hub'[h] = "dying" /\ \A g \in Hubs : g # h => hub'[g] = hub[g]
        /\ at'[<<t, w>>] = "wait" /\ held'[<<t, w>>] = h
        /\ \A u \in Trays : \A v \in Workers : u # t \/ v # w =>
              at'[<<u, v>>] = at[<<u, v>>] /\ held'[<<u, v>>] = held[<<u, v>>]
    BY <1>3, ThreadFacts DEF TrayTypeOK
  <1>5. OneServing'
    BY <1>3, <1>4 DEF OneServing
  <1>6. TrayTypeOK'
    <2>1. TrayTypes'
      BY <1>1, <1>3 DEF TrayTypeOK, TrayTypes, Stages
    <2>2. Cardinality({g \in Hubs : hub'[g] = "serving"}) <= 1
      BY <1>5, AtMostOne DEF OneServing
    <2> QED BY <2>1, <2>2 DEF TrayTypes, TrayTypeOK
  <1>7. AloneInv' /\ OffInv' /\ AutoInv'
    <2>1. AloneInv' /\ OffInv'
      BY <1>3, <1>4 DEF AloneInv, OffInv, Busy
    <2>2. AutoInv'
      <3> SUFFICES ASSUME NEW u \in Trays PROVE at'[<<u, "auto">>] \notin {"stop", "wait"}
        BY DEF AutoInv
      <3>1. at[<<u, "auto">>] \notin {"stop", "wait"} /\ "auto" \in Workers
        BY DEF AutoInv, Workers
      <3> QED BY <1>3, <1>4, <3>1
    <2> QED BY <2>1, <2>2
  <1>8. KnownInv'
    BY <1>3, <1>4 DEF KnownInv, TrayTypeOK
  <1>9. \A u \in Trays : Alive(proc[u])' <=> Alive(proc[u])
    BY <1>3, <1>4 DEF Alive
  <1>10. HeldInv'
    BY <1>2, <1>3, <1>4 DEF HeldInv
  <1>11. SpawnInv'
    BY <1>3, <1>4, <1>9 DEF SpawnInv
  <1>12. ChildInv' /\ QuitLeavesNoHub'
    BY <1>3, <1>4 DEF ChildInv, QuitLeavesNoHub
  <1>13. RestartInv'
    <2> SUFFICES ASSUME NEW u \in Trays, old[u] # NoHub, ~missed[u], ~crossed[u],
                        <<u, "click">> \notin raised
                 PROVE  /\ at'[<<u, "click">>] = "stop" =>
                              /\ hub'[old[u]] \in {"serving", "dying", "dead"}
                              /\ Alive(proc[u])' => proc[u] = old[u] \/ hub'[old[u]] \in {"dying", "dead"}
                        /\ at'[<<u, "click">>] \notin {"idle", "stop"} => hub'[old[u]] \in {"dying", "dead"}
      BY <1>3 DEF RestartInv
    <2>1. old[u] \in Hubs /\ "click" \in Workers
      BY DEF TrayTypeOK, Workers
    <2>2. CASE u = t /\ w = "click"
      <3>1. hub'[old[t]] \in {"dying", "dead"}
        <4>1. Alive(proc[t])
          BY <1>2, <1>3 DEF Alive
        <4>2. proc[t] = old[t] \/ hub[old[t]] \in {"dying", "dead"}
          BY <1>3, <2>2, <4>1 DEF RestartInv
        <4> QED BY <1>2, <1>4, <2>1, <2>2, <4>2
      <3> QED BY <2>2, <3>1
    <2>3. CASE ~(u = t /\ w = "click")
      BY <1>4, <1>9, <2>1, <2>3 DEF RestartInv
    <2> QED BY <2>2, <2>3
  <1> QED BY <1>5, <1>6, <1>7, <1>8, <1>10, <1>11, <1>12, <1>13

\* No signal reaches the tray's hub: the thread is marked, and nothing else of
\* what the invariant relates has changed.
LEMMA StopRaisesTray ==
    ASSUME TrayInv, NEW t \in Trays, NEW w \in Workers, StopRaises(<<t, w>>)
    PROVE  TrayInv'
  <1> USE TrayAssumption
  <1> DEFINE k == <<t, w>>
  <1>1. k[1] = t /\ k[2] = w /\ k \in Threads
    BY ThreadFacts
  <1>2. /\ at[<<t, w>>] = "stop"
        /\ raised' = raised \cup {<<t, w>>}
        /\ AfterStop(<<t, w>>)
        /\ UNCHANGED <<proc, held, hub, parent, old, missed, crossed>>
    BY <1>1 DEF StopRaises, hubVars
  <1>3. /\ proc \in [Trays -> Hubs \cup {NoHub}]
        /\ held \in [Threads -> Hubs \cup {NoHub}]
        /\ mutex \in Threads \cup {NoThread}
        /\ missed \in [Trays -> BOOLEAN] /\ crossed \in [Trays -> BOOLEAN]
        /\ raised' \in SUBSET Threads /\ raised \subseteq raised'
        /\ life[t] = "on"
        /\ Busy(at[<<t, w>>])
        /\ "lock" \in Stages
    BY <1>1, <1>2 DEF TrayInv, TrayTypeOK, OffInv, Stages, Busy
  <1>4. <<t, w>> \in raised'
    BY <1>2
  <1>5. CASE w = "click"
    <2>1. /\ at' = [at EXCEPT ![<<t, w>>] = "lock"]
          /\ UNCHANGED <<life, instance, mutex>>
      BY <1>1, <1>2, <1>5 DEF AfterStop, Goes, processVars
    <2> HIDE DEF k
    <2> QED BY <1>2, <1>3, <1>4, <1>5, <2>1, ThreadGoes
  <1>6. CASE w # "click"
    <2>1. Ends(t, "quit")
      BY <1>1, <1>2, <1>6 DEF AfterStop
    <2>2. w = "quit"
      BY <1>2, <1>6 DEF TrayInv, AutoInv, Workers
    <2> QED BY <1>2, <1>3, <1>4, <2>1, <2>2, EndsTray
  <1> QED BY <1>5, <1>6

\* The process that was signalled is gone, or waiting for it failed.
LEMMA StopReturnsTray ==
    ASSUME TrayInv, NEW t \in Trays, NEW w \in Workers, StopReturns(<<t, w>>)
    PROVE  TrayInv'
  <1> USE TrayAssumption
  <1> DEFINE k == <<t, w>>
  <1>1. k[1] = t /\ k[2] = w /\ k \in Threads
    BY ThreadFacts
  <1>2. /\ at[<<t, w>>] = "wait"
        /\ held' = [held EXCEPT ![<<t, w>>] = NoHub]
        /\ \/ ~Alive(held[<<t, w>>]) /\ proc' = [proc EXCEPT ![t] = NoHub]
           \/ proc' = proc
        /\ AfterStop(<<t, w>>)
        /\ UNCHANGED <<hub, parent, old, missed, crossed, raised>>
    BY <1>1 DEF StopReturns, hubVars, historyVars
  <1>3. /\ proc' \in [Trays -> Hubs \cup {NoHub}]
        /\ proc'[t] \in {proc[t], NoHub}
        /\ \A u \in Trays : u # t => proc'[u] = proc[u]
        /\ held' \in [Threads -> Hubs \cup {NoHub}]
        /\ \A j \in Threads : j # <<t, w>> => held'[j] = held[j]
        /\ mutex \in Threads \cup {NoThread}
        /\ missed \in [Trays -> BOOLEAN] /\ crossed \in [Trays -> BOOLEAN]
        /\ raised \in SUBSET Threads
        /\ life[t] = "on"
        /\ Busy(at[<<t, w>>])
        /\ "lock" \in Stages
    BY <1>1, <1>2 DEF TrayInv, TrayTypeOK, OffInv, Stages, Busy
  <1>4. ~crossed[t] => /\ held[<<t, w>>] = proc[t] /\ proc[t] \in Hubs
                       /\ hub[proc[t]] \in {"dying", "dead"}
    BY <1>2 DEF TrayInv, HeldInv
  <1>5. proc'[t] # proc[t] => crossed[t] \/ ~Alive(proc[t])
    BY <1>2, <1>4
  <1>6. CASE w = "click"
    <2>1. /\ at' = [at EXCEPT ![<<t, w>>] = "lock"]
          /\ UNCHANGED <<life, instance, mutex>>
      BY <1>1, <1>2, <1>6 DEF AfterStop, Goes, processVars
    <2>2. ~missed[t] /\ ~crossed[t] /\ <<t, "click">> \notin raised /\ old[t] # NoHub => hub[old[t]] \in {"dying", "dead"}
      BY <1>2, <1>6 DEF TrayInv, RestartInv
    <2>3. "lock" # "wait" /\ "lock" # "stop" /\ "lock" \notin {"probe", "spawn"}
      OBVIOUS
    <2>4. \A u \in Trays : missed[u] => missed'[u]
      BY <1>2
    <2>5. mutex' \in Threads \cup {NoThread} /\ missed' \in [Trays -> BOOLEAN]
      BY <1>2, <1>3, <2>1
    <2>6. w = "click" /\ "lock" \notin {"idle", "stop"} /\ ~missed'[t] /\ ~crossed[t]
              /\ <<t, "click">> \notin raised' /\ old[t] # NoHub =>
              hub[old[t]] \in {"dying", "dead"}
      BY <1>2, <2>2
    <2> HIDE DEF k
    <2> QED BY <1>2, <1>3, <1>5, <2>1, <2>3, <2>4, <2>5, <2>6, ThreadGoes
  <1>7. CASE w # "click"
    <2>1. Ends(t, "quit")
      BY <1>1, <1>2, <1>7 DEF AfterStop
    <2>2. ~crossed[t] => \A h \in Hubs : parent[h] = t => hub[h] \notin {"starting", "serving"}
      BY <1>3, <1>4 DEF TrayInv, ChildInv
    <2>3. \A u \in Trays : \A v \in Workers : u # t => held'[<<u, v>>] = held[<<u, v>>]
      BY <1>3, ThreadFacts
    <2> QED BY <1>2, <1>3, <2>1, <2>2, <2>3, EndsTray
  <1> QED BY <1>6, <1>7

-----------------------------------------------------------------------------
(* The steps of a tray *)

\* Thread w of a resting kind sets out, and the tray is marked if it meets
\* another one in start or stop.
LEMMA ThreadSetsOut ==
    ASSUME TrayInv, NEW t \in Trays, NEW w \in Workers, NEW stage \in {"stop", "lock"},
           at' = [at EXCEPT ![<<t, w>>] = stage],
           UNCHANGED <<mutex, proc, held, hub, parent>>,
           instance' \in SUBSET Trays,
           life' \in [Trays -> {"off", "on", "quit", "crashed"}],
           \A u \in Trays : u # t => life'[u] = life[u],
           life[t] \in {"off", "on"}, life'[t] = "on",
           w = "auto" => stage = "lock",
           crossed' \in [Trays -> BOOLEAN],
           \A u \in Trays : crossed[u] => crossed'[u],
           (\E v \in Workers : Busy(at[<<t, v>>])) => crossed'[t],
           old' \in [Trays -> Hubs \cup {NoHub}],
           missed' \in [Trays -> BOOLEAN],
           \A u \in Trays : u # t \/ w # "click" => old'[u] = old[u] /\ missed'[u] = missed[u],
           raised' \in SUBSET Threads,
           \A j \in Threads : j # <<t, w>> \/ w # "click" => (j \in raised' <=> j \in raised),
           w = "click" => /\ stage = "stop"
                          /\ old'[t] # NoHub =>
                                /\ hub[old'[t]] = "serving"
                                /\ Alive(proc[t]) => proc[t] = old'[t]
    PROVE  TrayInv'
  <1> USE TrayAssumption DEF TrayInv
  <1>1. /\ at'[<<t, w>>] = stage
        /\ \A u \in Trays : \A v \in Workers : u # t \/ v # w => at'[<<u, v>>] = at[<<u, v>>]
    BY ThreadFacts DEF TrayTypeOK
  <1>2. TrayTypeOK' /\ OneServing'
    <2>1. at' \in [Threads -> Stages]
      BY DEF TrayTypeOK, Stages
    <2>2. TrayTypes'
      BY <2>1 DEF TrayTypeOK, TrayTypes
    <2>3. OneServing'
      BY DEF OneServing
    <2>4. Cardinality({h \in Hubs : hub'[h] = "serving"}) <= 1
      BY DEF TrayTypeOK
    <2> QED BY <2>2, <2>3, <2>4 DEF TrayTypes, TrayTypeOK
  <1>3. AloneInv'
    <2> SUFFICES ASSUME NEW u \in Trays, ~crossed'[u], NEW v1 \in Workers, NEW v2 \in Workers,
                        Busy(at'[<<u, v1>>]), Busy(at'[<<u, v2>>])
                 PROVE  v1 = v2
      BY DEF AloneInv
    <2>1. CASE u # t
      <3>1. ~crossed[u] /\ Busy(at[<<u, v1>>]) /\ Busy(at[<<u, v2>>])
        BY <1>1, <2>1
      <3> QED BY <3>1 DEF AloneInv
    <2>2. CASE u = t
      <3>1. \A v \in Workers : ~Busy(at[<<t, v>>])
        BY <2>2
      <3>2. v1 = w /\ v2 = w
        BY <1>1, <2>2, <3>1
      <3> QED BY <3>2
    <2> QED BY <2>1, <2>2
  <1>4. OffInv' /\ AutoInv'
    BY <1>1 DEF OffInv, AutoInv, Workers
  <1>5. KnownInv'
    BY DEF KnownInv
  <1>6. \A u \in Trays : Alive(proc[u])' <=> Alive(proc[u])
    BY DEF Alive
  <1>7. HeldInv'
    BY <1>1 DEF HeldInv
  <1>8. SpawnInv'
    BY <1>1, <1>6 DEF SpawnInv
  <1>9. ChildInv'
    <2>1. \A u \in Trays : life'[u] \in {"off", "on"} => life[u] \in {"off", "on"}
      OBVIOUS
    <2> QED BY <2>1 DEF ChildInv
  <1>10. QuitLeavesNoHub'
    <2>1. \A u \in Trays : u # t /\ <<u, "quit">> \notin raised' => <<u, "quit">> \notin raised
      BY ThreadFacts DEF Workers
    <2> QED BY <2>1 DEF QuitLeavesNoHub
  <1>11. RestartInv'
    <2> SUFFICES ASSUME NEW u \in Trays, old'[u] # NoHub, ~missed'[u], ~crossed'[u],
                        <<u, "click">> \notin raised'
                 PROVE  /\ at'[<<u, "click">>] = "stop" =>
                              /\ hub[old'[u]] \in {"serving", "dying", "dead"}
                              /\ Alive(proc[u])' => proc[u] = old'[u] \/ hub[old'[u]] \in {"dying", "dead"}
                        /\ at'[<<u, "click">>] \notin {"idle", "stop"} => hub[old'[u]] \in {"dying", "dead"}
      BY DEF RestartInv
    <2>1. "click" \in Workers
      BY DEF Workers
    <2>2. CASE u = t /\ w = "click"
      BY <1>1, <1>6, <2>2
    <2>3. CASE ~(u = t /\ w = "click")
      <3>1. /\ at'[<<u, "click">>] = at[<<u, "click">>]
            /\ old'[u] = old[u] /\ missed'[u] = missed[u] /\ ~crossed[u]
            /\ <<u, "click">> \notin raised
        BY <1>1, <2>1, <2>3, ThreadFacts
      <3> QED BY <1>6, <3>1 DEF RestartInv
    <2> QED BY <2>2, <2>3
  <1> QED BY <1>2, <1>3, <1>4, <1>5, <1>7, <1>8, <1>9, <1>10, <1>11

\* A tray opens, and its autostart worker sets out.
LEMMA TrayOpensTray ==
    ASSUME TrayInv, NEW t \in Trays, TrayOpens(t)
    PROVE  TrayInv'
  <1>1. /\ life[t] = "off" /\ life' = [life EXCEPT ![t] = "on"]
        /\ instance' \in {instance, {t}}
        /\ at' = [at EXCEPT ![<<t, "auto">>] = "lock"]
        /\ UNCHANGED <<mutex, proc, held, hub, parent, old, missed, crossed, raised>>
    BY DEF TrayOpens, hubVars, historyVars
  <1>2. \A v \in Workers : ~Busy(at[<<t, v>>])
    BY <1>1 DEF TrayInv, OffInv, Busy
  <1>3. /\ "auto" \in Workers /\ "auto" # "click"
        /\ instance' \in SUBSET Trays
        /\ life' \in [Trays -> {"off", "on", "quit", "crashed"}]
        /\ life'[t] = "on" /\ \A u \in Trays : u # t => life'[u] = life[u]
        /\ crossed \in [Trays -> BOOLEAN] /\ missed \in [Trays -> BOOLEAN]
        /\ old \in [Trays -> Hubs \cup {NoHub}] /\ raised \in SUBSET Threads
    BY <1>1 DEF TrayInv, TrayTypeOK, Workers
  <1> QED BY <1>1, <1>2, <1>3, ThreadSetsOut

\* What Crosses marks.
LEMMA CrossesFacts ==
    ASSUME TrayInv, NEW t \in Trays, Crosses(t)
    PROVE  /\ crossed' \in [Trays -> BOOLEAN]
           /\ \A u \in Trays : crossed[u] => crossed'[u]
           /\ (\E v \in Workers : Busy(at[<<t, v>>])) => crossed'[t]
  <1>1. PICK met \in BOOLEAN :
        /\ met = (crossed[t] \/ \E v \in Workers : Busy(at[<<t, v>>]))
        /\ crossed' = [crossed EXCEPT ![t] = met]
    BY DEF Crosses, Busy
  <1>2. crossed \in [Trays -> BOOLEAN]
    BY DEF TrayInv, TrayTypeOK
  <1> QED BY <1>1, <1>2

\* Restart is clicked: the hub that serves is remembered if it is the tray's.
LEMMA ClicksRestartTray ==
    ASSUME TrayInv, NEW t \in Trays, ClicksRestart(t)
    PROVE  TrayInv'
  <1>1. PICK was :
        /\ life[t] = "on"
        /\ at' = [at EXCEPT ![<<t, "click">>] = "stop"]
        /\ was = IF \E h \in Serving : h = proc[t] \/ ~Alive(proc[t])
                 THEN CHOOSE h \in Serving : TRUE ELSE NoHub
        /\ old' = [old EXCEPT ![t] = was]
        /\ missed' = [missed EXCEPT ![t] = FALSE]
        /\ raised' = raised \ {<<t, "click">>}
        /\ Crosses(t)
        /\ UNCHANGED <<life, instance, mutex, proc, held, hub, parent>>
    BY DEF ClicksRestart, Goes, processVars, hubVars
  <1>2. was \in Hubs \cup {NoHub}
    BY <1>1 DEF Serving
  <1>3. was # NoHub => hub[was] = "serving" /\ (Alive(proc[t]) => proc[t] = was)
    BY <1>1 DEF Serving, TrayInv, OneServing
  <1>4. /\ "click" \in Workers
        /\ old' \in [Trays -> Hubs \cup {NoHub}] /\ missed' \in [Trays -> BOOLEAN]
        /\ old'[t] = was
        /\ \A u \in Trays : u # t => old'[u] = old[u] /\ missed'[u] = missed[u]
        /\ instance \in SUBSET Trays
        /\ life \in [Trays -> {"off", "on", "quit", "crashed"}]
        /\ raised' \in SUBSET Threads
        /\ \A j \in Threads : j # <<t, "click">> => (j \in raised' <=> j \in raised)
    BY <1>1, <1>2 DEF TrayInv, TrayTypeOK, Workers
  <1> QED BY <1>1, <1>3, <1>4, CrossesFacts, ThreadSetsOut

\* Quit: a live hub of the tray's is to be stopped first, else the tray ends.
LEMMA QuitsTray ==
    ASSUME TrayInv, NEW t \in Trays, Quits(t)
    PROVE  TrayInv'
  <1> DEFINE k == <<t, "quit">>
  <1>1. k[1] = t /\ k[2] = "quit" /\ "quit" \in Workers /\ "quit" \notin {"click", "auto"}
    BY DEF Workers
  <1>2. /\ life[t] = "on"
        /\ Crosses(t)
        /\ UNCHANGED <<proc, held, hub, parent, old, missed, raised>>
    BY DEF Quits, hubVars
  <1>3. /\ proc \in [Trays -> Hubs \cup {NoHub}] /\ held \in [Threads -> Hubs \cup {NoHub}]
        /\ old \in [Trays -> Hubs \cup {NoHub}] /\ missed \in [Trays -> BOOLEAN]
        /\ raised \in SUBSET Threads
        /\ instance \in SUBSET Trays
        /\ life \in [Trays -> {"off", "on", "quit", "crashed"}]
    BY DEF TrayInv, TrayTypeOK
  <1>4. CASE Alive(proc[t])
    <2>1. /\ at' = [at EXCEPT ![<<t, "quit">>] = "stop"]
          /\ UNCHANGED <<life, instance, mutex>>
      BY <1>4 DEF Quits, Goes, processVars
    <2> QED BY <1>1, <1>2, <1>3, <2>1, CrossesFacts, ThreadSetsOut
  <1>5. CASE ~Alive(proc[t])
    <2>1. Ends(t, "quit")
      BY <1>1, <1>5 DEF Quits, AfterStop
    <2>2. ~crossed'[t] => ~crossed[t]
      BY <1>2, CrossesFacts
    <2>3. ~crossed'[t] => \A h \in Hubs : parent[h] = t => hub[h] \notin {"starting", "serving"}
      BY <1>2, <1>5, <2>2 DEF TrayInv, ChildInv, Alive
    <2> QED BY <1>2, <1>3, <2>1, <2>3, CrossesFacts, EndsTray
  <1> QED BY <1>4, <1>5

\* A crash promises nothing of the tray's hubs.
LEMMA TrayCrashesTray ==
    ASSUME TrayInv, NEW t \in Trays, TrayCrashes(t)
    PROVE  TrayInv'
  <1>1. /\ life[t] = "on" /\ Ends(t, "crashed")
        /\ UNCHANGED <<proc, held, hub, parent, old, missed, crossed, raised>>
    BY DEF TrayCrashes, hubVars, historyVars
  <1>2. /\ proc \in [Trays -> Hubs \cup {NoHub}] /\ held \in [Threads -> Hubs \cup {NoHub}]
        /\ missed \in [Trays -> BOOLEAN] /\ crossed \in [Trays -> BOOLEAN]
        /\ raised \in SUBSET Threads
    BY DEF TrayInv, TrayTypeOK
  <1> QED BY <1>1, <1>2, EndsTray

-----------------------------------------------------------------------------
(* The theorems *)

\* Every step keeps the invariant.
LEMMA StepTray ==
    ASSUME TrayInv, [TrayNext]_trayVars
    PROVE  TrayInv'
  <1>1. CASE \E h \in Hubs : HubStep(h)
    BY <1>1, HubStepTray
  <1>2. ASSUME NEW k \in Threads, ThreadStep(k)
        PROVE  TrayInv'
    <2>1. PICK t \in Trays, w \in Workers : k = <<t, w>>
      BY DEF Threads
    <2> QED BY <1>2, <2>1, StartStepsTray, SpawnsHubTray, StopFindsNoneTray, StopSignalsTray,
               StopRaisesTray, StopReturnsTray DEF ThreadStep
  <1>3. ASSUME NEW t \in Trays, TrayOpens(t) \/ ClicksRestart(t) \/ Quits(t) \/ TrayCrashes(t)
        PROVE  TrayInv'
    BY <1>3, TrayOpensTray, ClicksRestartTray, QuitsTray, TrayCrashesTray
  <1>4. CASE UNCHANGED trayVars
    <2>1. /\ UNCHANGED <<life, instance, mutex, proc, at, held, hub, parent, old, missed, crossed, raised>>
      BY <1>4 DEF trayVars
    <2>2. Onward /\ OneServing'
      BY <2>1 DEF Onward, TrayInv, TrayTypeOK, OneServing
    <2> QED BY <2>1, <2>2, HubsOnward
  <1> QED BY <1>1, <1>2, <1>3, <1>4 DEF TrayNext

\* In every reachable state the invariant holds.
THEOREM TrayInvariant == TraySpec => []TrayInv
  <1>1. TrayInit => TrayInv
    BY InitTray
  <1>2. TrayInv /\ [TrayNext]_trayVars => TrayInv'
    BY StepTray
  <1> QED BY <1>1, <1>2, PTL DEF TraySpec

\* The types hold, and never do two hubs serve: the port is the only lock that
\* every way to start a hub respects.
THEOREM TrayTypeCorrect == TraySpec => []TrayTypeOK
  <1>1. TrayInv => TrayTypeOK
    BY DEF TrayInv
  <1> QED BY <1>1, TrayInvariant, PTL

\* A restart that is told as done has replaced the hub that served when it was
\* asked for, unless its stop raised, a probe missed a hub or threads met.
THEOREM RestartCorrect == TraySpec => []RestartIsReal
  <1>1. TrayInv => RestartIsReal
    BY DEF TrayInv, RestartInv, RestartIsReal, Replaced
  <1> QED BY <1>1, TrayInvariant, PTL

\* A tray that quits has stopped the hub it spawned, whatever its restarts met,
\* unless the quit's own stop raised or its threads met.
THEOREM QuitCorrect == TraySpec => []QuitLeavesNoHub
  <1>1. TrayInv => QuitLeavesNoHub
    BY DEF TrayInv
  <1> QED BY <1>1, TrayInvariant, PTL
=============================================================================
