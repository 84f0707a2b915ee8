---------------------------- MODULE HubLifecycle ----------------------------
(***************************************************************************)
(* Hub processes that come and go on one port, and the backends they start *)
(* and hand to each other: start-up and shutdown of the hub                *)
(* (src/src/server_lifecycle.py), the stop and restart endpoints           *)
(* (src/app_web/routers/hub.py), and the detached watchdog that respawns   *)
(* a hub (src/src/_respawn_watchdog.py).                                   *)
(*                                                                         *)
(* A member of Hubs is an operating-system process slot: when its hub is   *)
(* gone it may be launched again.  What BackendProcess shows of one row in *)
(* one hub is abstracted here: "owned" is the Popen object or the          *)
(* inherited PID, whichever is set ("inherited" tells them apart), and a   *)
(* stop takes one step.                                                    *)
(***************************************************************************)
EXTENDS Naturals, Sequences

CONSTANTS Hubs,       \* hub processes
          Watchdogs,  \* respawn watchdogs; as many restarts can be under way
          Rows,       \* registry rows with a local process and a port
          Eager,      \* desired_model_ids(): the rows autostart starts, in order
          Procs,      \* backend processes
          None,       \* no process, no hub
          Careful     \* people start a hub only when none is there or coming

ASSUME HubAssumption ==
    /\ Eager \in Seq(Rows)
    /\ None \notin Hubs \cup Procs
    /\ Careful \in BOOLEAN

VARIABLES hub,         \* where each hub process is in its life
          told,        \* its exit is scheduled: a signal is on its way
          restarting,  \* _restart_pending
          owned,       \* _STATES: per row the process it spawned or inherited
          inherited,   \* the rows of which that is an inherited PID
          todo,        \* rows the autostart loop has not finished with
          auto,        \* where the autostart task and its worker thread are
          children,    \* rows the tear-down has yet to stop
          clean,       \* history: an ordinary tear-down, and no stop failed
          watch,       \* respawn watchdogs
          phase,       \* backend processes
          row,         \* the row each was launched for
          keeper       \* history: the hub that last spawned or inherited it,
                       \* and to which no look-up has lost it

hubVars  == <<hub, told, restarting, clean>>
rowVars  == <<owned, inherited, keeper>>
taskVars == <<todo, auto, children>>
osVars   == <<phase, row>>
vars     == <<hubVars, rowVars, taskVars, watch, osVars>>

\* "starting": lifespan start-up before the inventory of the ports; "binding":
\* start-up complete, the listening socket not yet bound; "closing": socket
\* closed, open connections are waited for; "shutdown", "cancelled",
\* "teardown": the shutdown handlers; "joining": worker threads are joined.
Stages == {"gone", "starting", "binding", "serving", "closing", "shutdown",
           "cancelled", "teardown", "joining"}

\* "loop": the task is between two calls of start; "check", "spawn": a worker
\* thread is in start; "late": it was there when its task was cancelled.
AutoStages == {"none", "loop", "check", "spawn", "done", "late"}

TypeOK ==
    /\ hub \in [Hubs -> Stages]
    /\ told \in [Hubs -> BOOLEAN]
    /\ restarting \in [Hubs -> BOOLEAN]
    /\ clean \in [Hubs -> BOOLEAN]
    /\ owned \in [Hubs -> [Rows -> Procs \cup {None}]]
    /\ inherited \in [Hubs -> SUBSET Rows]
    /\ keeper \in [Procs -> Hubs \cup {None}]
    /\ todo \in [Hubs -> Seq(Rows)]
    /\ auto \in [Hubs -> AutoStages]
    /\ children \in [Hubs -> SUBSET Rows]
    /\ watch \in [Watchdogs -> [at : {"idle", "exit", "port"}, parent : Hubs \cup {None}]]
    /\ phase \in [Procs -> {"dead", "loading", "ready"}]
    /\ row \in [Procs -> Rows]

Init ==
    /\ hub = [h \in Hubs |-> "gone"]
    /\ told = [h \in Hubs |-> FALSE]
    /\ restarting = [h \in Hubs |-> FALSE]
    /\ clean = [h \in Hubs |-> FALSE]
    /\ owned = [h \in Hubs |-> [m \in Rows |-> None]]
    /\ inherited = [h \in Hubs |-> {}]
    /\ keeper = [p \in Procs |-> None]
    /\ todo = [h \in Hubs |-> <<>>]
    /\ auto = [h \in Hubs |-> "none"]
    /\ children = [h \in Hubs |-> {}]
    /\ watch = [w \in Watchdogs |-> [at |-> "idle", parent |-> None]]
    /\ phase = [p \in Procs |-> "dead"]
    /\ row \in [Procs -> Rows]

-----------------------------------------------------------------------------
Enters(h, stage) == hub' = [hub EXCEPT ![h] = stage]

Alive(p) == phase[p] # "dead"

Listens(p, m) == phase[p] = "ready" /\ row[p] = m

Reachable(m) == \E p \in Procs : Listens(p, m)

\* is_running can answer True.  Of an inherited PID it can also answer False
\* then, and forget it: LookUpFails.
IsRunning(h, m) == owned[h][m] # None /\ Alive(owned[h][m])

HubServes == \E h \in Hubs : hub[h] = "serving"

NoneComing ==
    /\ \A h \in Hubs : hub[h] = "gone"
    /\ \A w \in Watchdogs : watch[w].at = "idle"

-----------------------------------------------------------------------------
(* A hub starts. *)

\* A new process: module state is fresh.  A watchdog that still waits for a
\* process keeps its slot from being used again.
Launched(h) ==
    /\ hub[h] = "gone"
    /\ \A w \in Watchdogs : watch[w].parent # h
    /\ Enters(h, "starting")
    /\ told' = [told EXCEPT ![h] = FALSE]
    /\ restarting' = [restarting EXCEPT ![h] = FALSE]
    /\ clean' = [clean EXCEPT ![h] = FALSE]
    /\ owned' = [owned EXCEPT ![h] = [m \in Rows |-> None]]
    /\ inherited' = [inherited EXCEPT ![h] = {}]
    /\ keeper' = [p \in Procs |-> IF keeper[p] = h THEN None ELSE keeper[p]]
    /\ todo' = [todo EXCEPT ![h] = <<>>]
    /\ auto' = [auto EXCEPT ![h] = "none"]
    /\ children' = [children EXCEPT ![h] = {}]

\* python -m src.server, from a console or a launcher: main checks nothing.
Starts(h) ==
    /\ Careful => NoneComing
    /\ Launched(h)
    /\ UNCHANGED <<watch, osVars>>

\* wire_observatory_loop: inherit_running_backends takes every row's listener;
\* a look-up that fails skips the row.  Then the autostart task is created.
\* All this runs before uvicorn binds the hub's own port.
Inherits(h) ==
    /\ hub[h] = "starting"
    /\ \E found \in [Rows -> Procs \cup {None}] :
          /\ \A m \in Rows : found[m] # None => Listens(found[m], m)
          /\ owned' = [owned EXCEPT ![h] = found]
          /\ inherited' = [inherited EXCEPT ![h] = {m \in Rows : found[m] # None}]
          /\ keeper' = [p \in Procs |->
                          IF \E m \in Rows : found[m] = p THEN h ELSE keeper[p]]
    /\ todo' = [todo EXCEPT ![h] = Eager]
    /\ auto' = [auto EXCEPT ![h] = "loop"]
    /\ Enters(h, "binding")
    /\ UNCHANGED <<told, restarting, clean, children, watch, osVars>>

\* uvicorn: the socket is bound, or another hub has the port and the shutdown
\* handlers run before the process exits.
Binds(h) ==
    /\ hub[h] = "binding"
    /\ Enters(h, IF HubServes THEN "shutdown" ELSE "serving")
    /\ UNCHANGED <<told, restarting, clean, rowVars, taskVars, watch, osVars>>

-----------------------------------------------------------------------------
(* _autostart_configured_backends: start in a worker thread, row by row. *)

Cancelled(h) == hub[h] \in {"cancelled", "teardown", "joining"}

\* The call is over: the loop goes on with the next row, unless the task has
\* been cancelled, which a call in a worker thread does not notice.
CallEnds(h) ==
    /\ auto' = [auto EXCEPT ![h] = IF Cancelled(h) THEN "late" ELSE "loop"]
    /\ todo' = [todo EXCEPT ![h] = Tail(@)]

AutostartCalls(h) ==
    /\ auto[h] = "loop"
    /\ ~Cancelled(h)
    /\ auto' = [auto EXCEPT ![h] = IF todo[h] = <<>> THEN "done" ELSE "check"]
    /\ UNCHANGED <<hubVars, rowVars, todo, children, watch, osVars>>

\* Mutant: start looks at the port only, not at what the hub owns.
AutostartChecksPort(h) ==
    /\ auto[h] = "check"
    /\ \/ Reachable(Head(todo[h])) /\ CallEnds(h)
       \/ auto' = [auto EXCEPT ![h] = "spawn"] /\ UNCHANGED todo
    /\ UNCHANGED <<hubVars, rowVars, children, watch, osVars>>

\* start: "already running", an external instance is used as it is, or go on
\* to the spawn.  A probe may fail although something answers.
AutostartChecks(h) ==
    /\ auto[h] = "check"
    /\ \/ /\ IsRunning(h, Head(todo[h])) \/ Reachable(Head(todo[h]))
          /\ CallEnds(h)
       \/ /\ ~IsRunning(h, Head(todo[h]))
          /\ auto' = [auto EXCEPT ![h] = "spawn"]
          /\ UNCHANGED todo
    /\ UNCHANGED <<hubVars, rowVars, children, watch, osVars>>

\* build_command or Popen may raise.
AutostartSpawns(h) ==
    /\ auto[h] = "spawn"
    /\ \/ \E p \in Procs :
             /\ ~Alive(p)
             /\ phase' = [phase EXCEPT ![p] = "loading"]
             /\ row' = [row EXCEPT ![p] = Head(todo[h])]
             /\ keeper' = [keeper EXCEPT ![p] = h]
             /\ inherited' = [inherited EXCEPT ![h] = @ \ {Head(todo[h])}]
             /\ owned' = [g \in Hubs |->
                            [m \in Rows |->
                               IF g = h /\ m = Head(todo[h]) THEN p
                               ELSE IF owned[g][m] = p THEN None ELSE owned[g][m]]]
       \/ UNCHANGED <<osVars, rowVars>>
    /\ CallEnds(h)
    /\ UNCHANGED <<hubVars, children, watch>>

Autostart(h) == AutostartCalls(h) \/ AutostartChecks(h) \/ AutostartSpawns(h)

-----------------------------------------------------------------------------
\* Somebody asks is_running of a row with an inherited PID (start, the list of
\* the tear-down, stop, the idle loop, a page of the admin): psutil raises, and
\* the PID is forgotten although its process lives.  Nothing else follows: the
\* row is "not running" from here on.
LookUpFails(h, m) ==
    /\ hub[h] # "gone"
    /\ m \in inherited[h]
    /\ IsRunning(h, m)
    /\ owned' = [owned EXCEPT ![h][m] = None]
    /\ inherited' = [inherited EXCEPT ![h] = @ \ {m}]
    /\ keeper' = [keeper EXCEPT ![owned[h][m]] = IF @ = h THEN None ELSE @]
    /\ UNCHANGED <<hubVars, taskVars, watch, osVars>>

-----------------------------------------------------------------------------
(* A hub is asked to go. *)

\* POST /hub/stop, Ctrl-C, or the tray's CTRL_BREAK.
StopRequested(h) ==
    /\ hub[h] = "serving"
    /\ told' = [told EXCEPT ![h] = TRUE]
    /\ UNCHANGED <<hub, restarting, clean, rowVars, taskVars, watch, osVars>>

\* The detached watchdog is told whose exit to wait for.
SpawnsWatchdog(w, h) ==
    /\ watch[w].at = "idle"
    /\ watch' = [watch EXCEPT ![w] = [at |-> "exit", parent |-> h]]

\* POST /hub/restart: the flag, then the watchdog, then the delayed signal.
\* When the watchdog cannot be spawned the flag stays and nothing else happens.
\* Bound: a slot for the new hub is free.
RestartRequested(h) ==
    /\ hub[h] = "serving"
    /\ \E g \in Hubs : hub[g] = "gone"
    /\ restarting' = [restarting EXCEPT ![h] = TRUE]
    /\ \/ /\ \E w \in Watchdogs : SpawnsWatchdog(w, h)
          /\ told' = [told EXCEPT ![h] = TRUE]
       \/ UNCHANGED <<watch, told>>
    /\ UNCHANGED <<hub, clean, rowVars, taskVars, osVars>>

\* The signal arrives: uvicorn closes its listening socket first.
Closes(h) ==
    /\ hub[h] = "serving"
    /\ told[h]
    /\ Enters(h, "closing")
    /\ UNCHANGED <<told, restarting, clean, rowVars, taskVars, watch, osVars>>

\* It waits for open connections without a time-out: a log tail may never end.
Drains(h) ==
    /\ hub[h] = "closing"
    /\ Enters(h, "shutdown")
    /\ UNCHANGED <<told, restarting, clean, rowVars, taskVars, watch, osVars>>

\* stop_background_tasks: the task ends, a call in a worker thread does not.
CancelsTasks(h) ==
    /\ hub[h] = "shutdown"
    /\ Enters(h, "cancelled")
    /\ auto' = [auto EXCEPT ![h] = IF @ = "loop" THEN "done" ELSE @]
    /\ UNCHANGED <<told, restarting, clean, rowVars, todo, children, watch, osVars>>

\* Mutant: the tear-down does not look at the restart flag.
BeginsTearDownAlways(h) ==
    /\ hub[h] = "cancelled"
    /\ Enters(h, "teardown")
    /\ clean' = [clean EXCEPT ![h] = TRUE]
    /\ children' = [children EXCEPT ![h] = {m \in Rows : IsRunning(h, m)}]
    /\ UNCHANGED <<told, restarting, rowVars, todo, auto, watch, osVars>>

\* Mutant: the tear-down keeps processes where stop expects model ids.
BeginsTearDownByProcess(h) ==
    /\ hub[h] = "cancelled"
    /\ Enters(h, "teardown")
    /\ children' = [children EXCEPT ![h] = {owned[h][m] : m \in Rows}]
    /\ UNCHANGED <<told, restarting, clean, rowVars, todo, auto, watch, osVars>>

\* stop_backend_children: the flag is read, or the list of running backends
\* taken, once.
BeginsTearDown(h) ==
    /\ hub[h] = "cancelled"
    /\ IF restarting[h]
       THEN Enters(h, "joining") /\ UNCHANGED <<clean, children>>
       ELSE /\ Enters(h, "teardown")
            /\ clean' = [clean EXCEPT ![h] = TRUE]
            /\ children' = [children EXCEPT ![h] = {m \in Rows : IsRunning(h, m)}]
    /\ UNCHANGED <<told, restarting, rowVars, todo, auto, watch, osVars>>

\* stop of one row: the process is gone, or stop fails and that is logged (an
\* inherited PID is forgotten before the kill, a Popen object is kept).
StopsChild(h, m) ==
    /\ hub[h] = "teardown"
    /\ m \in children[h]
    /\ children' = [children EXCEPT ![h] = @ \ {m}]
    /\ \/ /\ IsRunning(h, m)
          /\ phase' = [phase EXCEPT ![owned[h][m]] = "dead"]
          /\ owned' = [owned EXCEPT ![h][m] = None]
          /\ UNCHANGED clean
       \/ /\ IsRunning(h, m)
          /\ clean' = [clean EXCEPT ![h] = FALSE]
          /\ owned' = IF m \in inherited[h] THEN [owned EXCEPT ![h][m] = None]
                      ELSE owned
          /\ UNCHANGED phase
       \/ /\ ~IsRunning(h, m)
          /\ owned' = [owned EXCEPT ![h][m] = None]
          /\ UNCHANGED <<phase, clean>>
    /\ inherited' = [inherited EXCEPT ![h] = @ \ {m}]
    /\ UNCHANGED <<hub, told, restarting, keeper, todo, auto, watch, row>>

EndsTearDown(h) ==
    /\ hub[h] = "teardown"
    /\ children[h] = {}
    /\ Enters(h, "joining")
    /\ UNCHANGED <<told, restarting, clean, rowVars, taskVars, watch, osVars>>

\* The interpreter joins its worker threads before the process ends.
Leaves(h) ==
    /\ hub[h] = "joining"
    /\ auto[h] \notin {"check", "spawn"}
    /\ Enters(h, "gone")
    /\ UNCHANGED <<told, restarting, clean, rowVars, taskVars, watch, osVars>>

\* A hub that was told to go and is too slow is terminated: by the tray after
\* its 5 seconds, by the user, or by uvicorn on a second Ctrl-C.
Killed(h) ==
    /\ told[h]
    /\ hub[h] # "gone"
    /\ Enters(h, "gone")
    /\ clean' = [clean EXCEPT ![h] = FALSE]
    /\ auto' = [auto EXCEPT ![h] = "done"]
    /\ UNCHANGED <<told, restarting, rowVars, todo, children, watch, osVars>>

Shutdown(h) ==
    \/ Closes(h) \/ CancelsTasks(h) \/ BeginsTearDown(h)
    \/ (\E m \in Rows : StopsChild(h, m)) \/ EndsTearDown(h) \/ Leaves(h)

-----------------------------------------------------------------------------
(* The respawn watchdog. *)

\* Mutant: no time-out on the wait for the parent.
ParentExitsEver(w) ==
    /\ watch[w].at = "exit"
    /\ hub[watch[w].parent] = "gone"
    /\ watch' = [watch EXCEPT ![w] = [at |-> "port", parent |-> None]]
    /\ UNCHANGED <<hubVars, rowVars, taskVars, osVars>>

\* The parent is gone, or PARENT_EXIT_TIMEOUT_S is over.  It is longer than the
\* 0.8 s after which the signal is sent, so the parent no longer serves.
ParentExits(w) ==
    /\ watch[w].at = "exit"
    /\ hub[watch[w].parent] # "serving"
    /\ watch' = [watch EXCEPT ![w] = [at |-> "port", parent |-> None]]
    /\ UNCHANGED <<hubVars, rowVars, taskVars, osVars>>

\* The port is free, or PORT_FREE_TIMEOUT_S is over because another hub has it:
\* relaunched in either case.
Relaunches(w) ==
    /\ watch[w].at = "port"
    /\ \E h \in Hubs : Launched(h)
    /\ watch' = [watch EXCEPT ![w] = [at |-> "idle", parent |-> None]]
    /\ UNCHANGED osVars

WatchdogStep(w) == ParentExits(w) \/ Relaunches(w)

-----------------------------------------------------------------------------
(* Backend processes (external). *)

Loads(p) ==
    /\ phase[p] = "loading"
    /\ ~Reachable(row[p])
    /\ phase' = [phase EXCEPT ![p] = "ready"]
    /\ UNCHANGED <<hubVars, rowVars, taskVars, watch, row>>

\* It crashes, or fails to bind its port.
Exits(p) ==
    /\ Alive(p)
    /\ phase' = [phase EXCEPT ![p] = "dead"]
    /\ UNCHANGED <<hubVars, rowVars, taskVars, watch, row>>

HubStep(h) ==
    \/ Starts(h) \/ Inherits(h) \/ Binds(h)
    \/ Autostart(h)
    \/ \E m \in Rows : LookUpFails(h, m)
    \/ StopRequested(h) \/ RestartRequested(h)
    \/ Drains(h) \/ Shutdown(h) \/ Killed(h)

Next ==
    \/ \E h \in Hubs : HubStep(h)
    \/ \E w \in Watchdogs : WatchdogStep(w)
    \/ \E p \in Procs : Loads(p) \/ Exits(p)

Spec == Init /\ [][Next]_vars

\* A process that was started runs: start-up, the scheduled signal and the
\* watchdog's waits all end.  Nothing makes a connection close, a stop come to
\* an end, or a backend load.
Fairness ==
    /\ \A h \in Hubs : WF_vars(Inherits(h)) /\ WF_vars(Binds(h)) /\ WF_vars(Closes(h))
    /\ \A w \in Watchdogs : WF_vars(WatchdogStep(w))

FairSpec == Spec /\ Fairness

-----------------------------------------------------------------------------
(* Properties *)

\* p runs, h was the last hub to spawn or inherit it, and has not lost it to a
\* look-up that raised.
LeftBy(h, p) == Alive(p) /\ keeper[p] = h

\* A hub that has gone the whole way of an ordinary shutdown leaves none of the
\* backends it spawned or inherited behind ("Tear down every model subprocess
\* the hub spawned"), provided autostart was over when its task was cancelled,
\* no stop failed, and psutil never raised on a backend it had inherited: such a
\* backend is not on the tear-down's list, and is left behind.
NoOrphan ==
    \A h \in Hubs : hub[h] = "gone" /\ clean[h] /\ auto[h] = "done"
                        => \A p \in Procs : ~LeftBy(h, p)

\* The same without the proviso.
NoOrphanEver ==
    \A h \in Hubs : hub[h] = "gone" /\ clean[h]
                        => \A p \in Procs : ~LeftBy(h, p)

\* No hub stops a backend that belongs to another hub which is serving: not an
\* old hub that is still on its way out after a restart, and not a new one
\* that never came to serve ("don't tear it down on their own exit").
SparesServingHub ==
    [][\A h, g \in Hubs, m \in Rows :
          (g # h /\ hub[g] = "serving" /\ IsRunning(g, m) /\ children'[h] # children[h])
              => phase'[owned[g][m]] # "dead"]_vars

\* A restart comes back: once the endpoint has spawned the watchdog a new hub
\* serves, though the old one may wait for a client's open stream for ever.
RestartComesBack ==
    \A w \in Watchdogs :
        watch[w].at = "exit" ~> \E h \in Hubs : hub[h] = "serving" /\ ~restarting[h]
=============================================================================
