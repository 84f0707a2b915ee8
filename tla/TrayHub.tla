------------------------------- MODULE TrayHub -------------------------------
(***************************************************************************)
(* Trays that adopt or spawn the hub, restart it and quit: HubProcess and  *)
(* TrayApp's workers (src/tray/tray.py), the named mutexes                 *)
(* (src/tray/single_instance.py) and the entry (src/tray/__main__.py).     *)
(*                                                                         *)
(* A tray has two threads that call start and stop: the autostart worker   *)
(* and a restart worker (further clicks are left out), and the one that    *)
(* quits.                                                                  *)
(***************************************************************************)
EXTENDS Naturals, FiniteSets

CONSTANTS Trays,  \* tray processes
          Hubs,   \* incarnations of the hub
          NoHub   \* no hub

VARIABLES life,     \* tray processes
          instance, \* who owns the single-instance mutex
          mutex,    \* the thread that owns the hub-start mutex
          proc,     \* HubProcess.proc
          at,       \* where a thread is
          held,     \* the process it is stopping
          hub,      \* the hubs
          parent,   \* the tray that spawned a hub
          old,      \* history: the hub a restart is to replace
          missed,   \* history: a probe of this restart found no hub although one served
          crossed,  \* history: two threads of the tray were in start or stop at once
          raised    \* history: the threads whose stop raised and reached no hub

processVars == <<life, instance, mutex>>
hubVars     == <<hub, parent>>
historyVars == <<old, missed, crossed, raised>>
trayVars    == <<life, instance, mutex, proc, at, held, hub, parent, old, missed, crossed, raised>>

Workers == {"auto", "click", "quit"}
Threads == Trays \X Workers
NoTray == "notray"
NoThread == <<NoTray, "nothing">>

ASSUME TrayAssumption == NoTray \notin Trays /\ NoHub \notin Hubs

Stages == {"idle", "stop", "wait", "lock", "check", "probe", "spawn", "ready", "restarted"}

TrayTypeOK ==
    /\ life \in [Trays -> {"off", "on", "quit", "crashed"}]
    /\ instance \in SUBSET Trays
    /\ mutex \in Threads \cup {NoThread}
    /\ proc \in [Trays -> Hubs \cup {NoHub}]
    /\ at \in [Threads -> Stages]
    /\ held \in [Threads -> Hubs \cup {NoHub}]
    /\ hub \in [Hubs -> {"none", "starting", "serving", "dying", "dead"}]
    /\ parent \in [Hubs -> Trays \cup {NoTray}]
    /\ old \in [Trays -> Hubs \cup {NoHub}]
    /\ missed \in [Trays -> BOOLEAN]
    /\ crossed \in [Trays -> BOOLEAN]
    /\ raised \in SUBSET Threads
    /\ Cardinality({h \in Hubs : hub[h] = "serving"}) <= 1

TrayInit ==
    /\ life = [t \in Trays |-> "off"]
    /\ instance = {}
    /\ mutex = NoThread
    /\ proc = [t \in Trays |-> NoHub]
    /\ at = [k \in Threads |-> "idle"]
    /\ held = [k \in Threads |-> NoHub]
    /\ hub = [h \in Hubs |-> "none"]
    /\ parent = [h \in Hubs |-> NoTray]
    /\ old = [t \in Trays |-> NoHub]
    /\ missed = [t \in Trays |-> FALSE]
    /\ crossed = [t \in Trays |-> FALSE]
    /\ raised = {}

-----------------------------------------------------------------------------
(* Hubs, and who else starts and ends them *)

Serving == {h \in Hubs : hub[h] = "serving"}
Alive(h) == h \in Hubs /\ hub[h] \in {"starting", "serving", "dying"}

\* Mutant: a port that is taken is shared.
HubShares(h) ==
    /\ hub[h] = "starting"
    /\ hub' = [hub EXCEPT ![h] = "serving"]
    /\ UNCHANGED <<processVars, proc, at, held, parent, historyVars>>

\* The hub binds its port, or leaves because the port is taken.
HubBinds(h) ==
    /\ hub[h] = "starting"
    /\ hub' = [hub EXCEPT ![h] = IF Serving = {} THEN "serving" ELSE "dead"]
    /\ UNCHANGED <<processVars, proc, at, held, parent, historyVars>>

\* A crash, a stop from the admin page, or the end of a stop (external).
HubEnds(h) ==
    /\ Alive(h)
    /\ hub' = [hub EXCEPT ![h] = "dead"]
    /\ UNCHANGED <<processVars, proc, at, held, parent, historyVars>>

\* A launcher or the respawn watchdog (external).
OthersStart(h) ==
    /\ hub[h] = "none"
    /\ hub' = [hub EXCEPT ![h] = "starting"]
    /\ UNCHANGED <<processVars, proc, at, held, parent, historyVars>>

\* _tcp_reachable: a dying hub may still answer, a serving one be too slow.
Answers   == \E h \in Hubs : hub[h] \in {"serving", "dying"}
MayMiss(k) == missed' = IF k[2] = "click" /\ Serving # {}
                        THEN [missed EXCEPT ![k[1]] = TRUE] ELSE missed

-----------------------------------------------------------------------------
(* A tray comes and goes *)

\* SingleInstance; CreateMutexW may fail, and then the tray goes on.
TrayOpens(t) ==
    /\ life[t] = "off"
    /\ \/ instance = {} /\ instance' = {t}
       \/ UNCHANGED instance
    /\ life' = [life EXCEPT ![t] = "on"]
    /\ at' = [at EXCEPT ![<<t, "auto">>] = "lock"]
    /\ UNCHANGED <<mutex, proc, held, hubVars, historyVars>>

\* The process ends, and the system frees its mutexes.
Ends(t, how) ==
    /\ life' = [life EXCEPT ![t] = how]
    /\ at' = [j \in Threads |-> IF j[1] = t THEN "idle" ELSE at[j]]
    /\ instance' = instance \ {t}
    /\ mutex' = IF \E w \in Workers : mutex = <<t, w>> THEN NoThread ELSE mutex

TrayCrashes(t) ==
    /\ life[t] = "on"
    /\ Ends(t, "crashed")
    /\ UNCHANGED <<proc, held, hubVars, historyVars>>

-----------------------------------------------------------------------------
(* HubProcess.start and wait_ready *)

Goes(k, stage) == at' = [at EXCEPT ![k] = stage]
Unlocks(k) == mutex' = IF mutex = k THEN NoThread ELSE mutex

\* cross_process_lock; it fails open.
Locks(k) ==
    /\ at[k] = "lock"
    /\ \/ mutex = NoThread /\ mutex' = k
       \/ UNCHANGED mutex
    /\ Goes(k, "check")
    /\ UNCHANGED <<life, instance, proc, held, hubVars, historyVars>>

ChecksRunning(k) ==
    /\ at[k] = "check"
    /\ IF Alive(proc[k[1]]) THEN Goes(k, "ready") /\ Unlocks(k)
                            ELSE Goes(k, "probe") /\ UNCHANGED mutex
    /\ UNCHANGED <<life, instance, proc, held, hubVars, historyVars>>

ProbesHub(k) ==
    /\ at[k] = "probe"
    /\ \/ Answers /\ Goes(k, "ready") /\ Unlocks(k) /\ UNCHANGED missed
       \/ Goes(k, "spawn") /\ MayMiss(k) /\ UNCHANGED mutex
    /\ UNCHANGED <<life, instance, proc, held, hubVars, old, crossed, raised>>

SpawnsHub(k) ==
    /\ at[k] = "spawn"
    /\ \/ /\ \E h \in Hubs :
                /\ hub[h] = "none"
                /\ hub' = [hub EXCEPT ![h] = "starting"]
                /\ parent' = [parent EXCEPT ![h] = k[1]]
                /\ proc' = [proc EXCEPT ![k[1]] = h]
          /\ Goes(k, "ready")
       \/ Goes(k, "idle") /\ UNCHANGED <<hubVars, proc>>
    /\ Unlocks(k)
    /\ UNCHANGED <<life, instance, held, historyVars>>

\* What the worker tells when a hub answers, or that none did.
WaitsReady(k) ==
    /\ at[k] = "ready"
    /\ \/ Answers /\ Goes(k, IF k[2] = "click" THEN "restarted" ELSE "idle")
       \/ Goes(k, "idle")
    /\ UNCHANGED <<processVars, proc, held, hubVars, historyVars>>

-----------------------------------------------------------------------------
(* HubProcess.stop, in a restart worker or in _shutdown *)

\* A restart goes on to start; _shutdown ends in os._exit.
AfterStop(k) == IF k[2] = "click" THEN Goes(k, "lock") /\ UNCHANGED processVars
                                  ELSE Ends(k[1], "quit")

\* Another thread of the tray is inside start or stop.
Crosses(t) == crossed' = [crossed EXCEPT ![t] =
                  @ \/ \E w \in Workers : at[<<t, w>>] \notin {"idle", "ready", "restarted"}]

ClicksRestart(t) ==
    /\ life[t] = "on"
    /\ at[<<t, "click">>] \in {"idle", "restarted"}
    /\ Goes(<<t, "click">>, "stop")
    /\ old' = [old EXCEPT ![t] =
           IF \E h \in Serving : h = proc[t] \/ ~Alive(proc[t])
           THEN CHOOSE h \in Serving : TRUE ELSE NoHub]
    /\ missed' = [missed EXCEPT ![t] = FALSE]
    /\ raised' = raised \ {<<t, "click">>}
    /\ Crosses(t)
    /\ UNCHANGED <<processVars, proc, held, hubVars>>

\* Mutant: a hub that is not the tray's own is just "not running".
StopFindsNothing(k) ==
    /\ at[k] = "stop"
    /\ ~Alive(proc[k[1]])
    /\ proc' = [proc EXCEPT ![k[1]] = NoHub]
    /\ AfterStop(k)
    /\ UNCHANGED <<held, hubVars, historyVars>>

\* No live process of its own: "adopted" ends a restart, "not running" does not.
StopFindsNone(k) ==
    /\ at[k] = "stop"
    /\ ~Alive(proc[k[1]])
    /\ proc' = [proc EXCEPT ![k[1]] = NoHub]
    /\ \/ Answers /\ k[2] = "click" /\ Goes(k, "idle") /\ UNCHANGED <<processVars, missed>>
       \/ MayMiss(k) /\ AfterStop(k)
    /\ UNCHANGED <<held, hubVars, old, crossed, raised>>

\* Mutant: the record goes before the process does.
StopForgetsFirst(k) ==
    /\ at[k] = "stop"
    /\ Alive(proc[k[1]])
    /\ proc' = [proc EXCEPT ![k[1]] = NoHub]
    /\ AfterStop(k)
    /\ UNCHANGED <<held, hubVars, historyVars>>

\* CTRL_BREAK, terminate, kill: one of them reaches the process.
StopSignals(k) ==
    /\ at[k] = "stop"
    /\ Alive(proc[k[1]])
    /\ held' = [held EXCEPT ![k] = proc[k[1]]]
    /\ hub' = [hub EXCEPT ![proc[k[1]]] = "dying"]
    /\ Goes(k, "wait")
    /\ UNCHANGED <<processVars, proc, parent, historyVars>>

\* None does: CTRL_BREAK fails unseen, terminate raises, and stop gives up with
\* "error stopping".  The hub serves on, and the record stays.
StopRaises(k) ==
    /\ at[k] = "stop"
    /\ Alive(proc[k[1]])
    /\ raised' = raised \cup {k}
    /\ AfterStop(k)
    /\ UNCHANGED <<proc, held, hubVars, old, missed, crossed>>

\* The process is gone; or waiting for it raises, and the record stays.
StopReturns(k) ==
    /\ at[k] = "wait"
    /\ \/ ~Alive(held[k]) /\ proc' = [proc EXCEPT ![k[1]] = NoHub]
       \/ UNCHANGED proc
    /\ held' = [held EXCEPT ![k] = NoHub]
    /\ AfterStop(k)
    /\ UNCHANGED <<hubVars, historyVars>>

\* The menu's Quit: _shutdown stops a hub of the tray's own.
Quits(t) ==
    LET k == <<t, "quit">> IN
    /\ life[t] = "on"
    /\ at[k] = "idle"
    /\ Crosses(t)
    /\ IF Alive(proc[t]) THEN Goes(k, "stop") /\ UNCHANGED processVars ELSE AfterStop(k)
    /\ UNCHANGED <<proc, held, hubVars, old, missed, raised>>

HubStep(h) == HubBinds(h) \/ HubEnds(h) \/ OthersStart(h)

ThreadStep(k) ==
    \/ Locks(k) \/ ChecksRunning(k) \/ ProbesHub(k) \/ SpawnsHub(k) \/ WaitsReady(k)
    \/ StopFindsNone(k) \/ StopSignals(k) \/ StopRaises(k) \/ StopReturns(k)

TrayNext ==
    \/ \E h \in Hubs : HubStep(h)
    \/ \E k \in Threads : ThreadStep(k)
    \/ \E t \in Trays : TrayOpens(t) \/ ClicksRestart(t) \/ Quits(t) \/ TrayCrashes(t)

TraySpec == TrayInit /\ [][TrayNext]_trayVars

-----------------------------------------------------------------------------
(* Properties *)

\* The hub that this restart was to replace is on its way out.
Replaced(t) == old[t] = NoHub \/ hub[old[t]] \in {"dying", "dead"}

\* A restart that is told as done has replaced the hub that served when it was
\* asked for ("masking a build that never actually restarted"), unless its own
\* stop raised, a probe found no hub although one served, or another thread of
\* the tray was in start or stop.  A hub beside a live process of the tray's
\* own is not meant.  (After a stop that raised, start finds that process
\* "already running", and the worker, which looks only for "adopted", tells a
\* restart that was none.)
RestartIsReal ==
    \A t \in Trays : at[<<t, "click">>] = "restarted" =>
        Replaced(t) \/ <<t, "click">> \in raised \/ missed[t] \/ crossed[t]

\* A tray that quits leaves no hub behind that it spawned, whatever its earlier
\* restarts met (a stop that raised, a wait that did), unless the stop of the
\* quit itself raised or its threads met in start and stop.
QuitLeavesNoHub ==
    \A t \in Trays : life[t] = "quit" /\ ~crossed[t] /\ <<t, "quit">> \notin raised =>
        \A h \in Hubs : parent[h] = t => ~(hub[h] \in {"starting", "serving"})
=============================================================================
