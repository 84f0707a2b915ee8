--------------------------- MODULE BackendProcess ---------------------------
(***************************************************************************)
(* The hub's per-model process manager (src/src/process/backend_process.py *)
(* and kill_pid of server_process.py), as a library of actions: a module   *)
(* that composes it decides which hub thread calls start and stop and when.*)
(*                                                                         *)
(* start and stop hold no lock.  Each is split where another hub thread or *)
(* the operating system can get in between: a psutil look-up, an HTTP      *)
(* probe, the spawn, the wait for a terminated child, the kill of a PID    *)
(* that was looked up.  What one thread read at an earlier step (the       *)
(* inherited PID, the Popen object p) lives in its call frame, which is    *)
(* how the stale-read hazards of the code show.                            *)
(***************************************************************************)
EXTENDS Integers, FiniteSets

CONSTANTS Models,   \* enabled registry rows that have a local process
          Threads,  \* hub threads that may call start or stop
          Readers,  \* those whose caller acts on the (ok, msg) result
          Procs,    \* operating-system process incarnations
          NoProc,   \* None: no Popen object, no inherited PID
          Port,     \* [Models -> Nat \ {0}]; a virtual row shares a port
          Pid       \* [Procs -> Nat]; equal for incarnations that share a
                    \* PID number: PID reuse

ASSUME BackendAssumption ==
    /\ NoProc \notin Procs
    /\ Readers \subseteq Threads
    /\ Port \in [Models -> Nat \ {0}]
    /\ Pid \in [Procs -> Nat]

VARIABLES phase,    \* operating system: what each process is doing
          port,     \* operating system: the port it was launched for, or 0
          origin,   \* who launched it: this hub, an earlier one, somebody else
          handle,   \* _STATES[m].proc: the Popen object, by its process
          adopted,  \* _STATES[m].inherited_pid with inherited_identity
          call      \* per thread: where it stands in start or stop

osVars == <<phase, port, origin>>
bpVars == <<phase, port, origin, handle, adopted, call>>

\* "dead": never born or gone.  "stopping": signalled, no longer serving, but
\* not reaped.  A process that is no backend at all is "ready" on port 0.
Phases  == {"dead", "loading", "ready", "stopping"}
Origins == {"hub", "survivor", "other"}
Results == {"ok", "already", "failed"}
Steps   == {"idle", "check", "probe", "spawn", "stop", "wait", "forget", "kill"}
               \cup Results

\* proc is the Popen object that is waited for, or the adopted process whose
\* PID number a stop has read, up to its kill.

BackendTypeOK ==
    /\ phase \in [Procs -> Phases]
    /\ port \in [Procs -> Nat]
    /\ origin \in [Procs -> Origins]
    /\ handle \in [Models -> Procs \cup {NoProc}]
    /\ adopted \in [Models -> Procs \cup {NoProc}]
    /\ call \in [Threads -> [at : Steps, model : Models, proc : Procs \cup {NoProc}]]

-----------------------------------------------------------------------------
(* Operating-system helpers. *)

Alive(p) == phase[p] # "dead"

\* A process the hub holds a Popen object for keeps its PID number even when
\* dead: the handle (or the zombie) pins it.  An inherited PID pins nothing,
\* nor does one that a stop has read.
Pinned == {handle[m] : m \in Models}
              \cup {call[t].proc : t \in {u \in Threads : call[u].at = "wait"}}

\* Incarnations that can be born now: dead, remembered by nobody, and with a
\* PID number that is free.
Fresh(p) ==
    /\ ~Alive(p)
    /\ \A m \in Models : adopted[m] # p
    /\ \A t \in Threads : call[t].proc # p
    /\ \A q \in Procs : (Alive(q) \/ q \in Pinned) => Pid[q] # Pid[p]

\* is_reachable can succeed: something answers on the row's port.  It can
\* also fail then, because every exception and time-out reads as False, so
\* each use below has "not reachable" as an unconditional alternative.
Reachable(m) == \E p \in Procs : phase[p] = "ready" /\ port[p] = Port[m]

-----------------------------------------------------------------------------
(* What the manager knows of its own processes. *)

HandleAlive(m) == handle[m] # NoProc /\ Alive(handle[m])

\* Mutant: any process with the inherited PID counts as the adopted backend.
AdoptedAliveByPid(m) ==
    /\ adopted[m] # NoProc
    /\ \E q \in Procs : Alive(q) /\ Pid[q] = Pid[adopted[m]]

\* _inherited_alive: a live process with that PID is not enough, it must be
\* the incarnation recorded at adoption.
AdoptedAlive(m) == adopted[m] # NoProc /\ Alive(adopted[m])

\* is_running can answer True.
IsRunning(m) == HandleAlive(m) \/ AdoptedAlive(m)

Forgotten(m) == [adopted EXCEPT ![m] = NoProc]

\* is_running answers False: no Popen object that is alive, and the inherited
\* PID is dropped on the way, because it is stale or because the look-up raised.
NotRunning(m) == ~HandleAlive(m) /\ adopted' = Forgotten(m)

\* kill_pid: a PID number is all it gets.
Killed(n) ==
    [q \in Procs |-> IF Alive(q) /\ Pid[q] = n THEN "stopping" ELSE phase[q]]

Frame(at, m, p) == [at |-> at, model |-> m, proc |-> p]

Goto(t, at) == call' = [call EXCEPT ![t] = Frame(at, call[t].model, NoProc)]

\* Every other caller only logs or reports the result.
Ends(t, result) == Goto(t, IF t \in Readers THEN result ELSE "idle")

Calls(t, op, m) ==
    /\ call[t].at = "idle"
    /\ call' = [call EXCEPT ![t] = Frame(op, m, NoProc)]

StartCalled(t, m) == Calls(t, "check", m)
StopCalled(t, m)  == Calls(t, "stop", m)

\* The caller has read the (ok, msg) pair.
Returned(t) ==
    /\ call[t].at \in Results
    /\ Goto(t, "idle")

-----------------------------------------------------------------------------
(* start(model_id). *)

\* Mutant: an inherited PID found stale is not dropped.
StartChecksKeepingStale(t) ==
    /\ call[t].at = "check"
    /\ Goto(t, IF IsRunning(call[t].model) THEN "already" ELSE "probe")
    /\ UNCHANGED <<osVars, handle, adopted>>

StartChecks(t) ==
    LET m == call[t].model IN
    /\ call[t].at = "check"
    /\ \/ /\ IsRunning(m)
          /\ Ends(t, "already")
          /\ UNCHANGED adopted
       \/ NotRunning(m) /\ Goto(t, "probe")
    /\ UNCHANGED <<osVars, handle>>

\* A reachable port is "adopted": success, and no state is recorded.
StartProbes(t) ==
    /\ call[t].at = "probe"
    /\ \/ Reachable(call[t].model) /\ Ends(t, "ok")
       \/ Goto(t, "spawn")
    /\ UNCHANGED <<osVars, handle, adopted>>

\* build_command or Popen may raise.  Popen and the store to state.proc are
\* one step: until then nothing but the new process knows of it.
StartSpawns(t) ==
    LET m == call[t].model IN
    /\ call[t].at = "spawn"
    /\ \/ \E p \in Procs :
             /\ Fresh(p)
             /\ phase'  = [phase EXCEPT ![p] = "loading"]
             /\ port'   = [port EXCEPT ![p] = Port[m]]
             /\ origin' = [origin EXCEPT ![p] = "hub"]
             /\ handle' = [handle EXCEPT ![m] = p]
             /\ Ends(t, "ok")
       \/ /\ Ends(t, "failed")
          /\ UNCHANGED <<osVars, handle>>
    /\ UNCHANGED adopted

-----------------------------------------------------------------------------
(* stop(model_id). *)

\* No Popen object: the inherited process passes the identity check and its
\* PID is read.  (Where another stop has forgotten it in between, int(None)
\* raises and nothing is killed: that is StopFindsNothing.)
StopFindsAdopted(t) ==
    LET m == call[t].model IN
    /\ call[t].at = "stop"
    /\ handle[m] = NoProc
    /\ AdoptedAlive(m)
    /\ call' = [call EXCEPT ![t] = Frame("forget", m, adopted[m])]
    /\ UNCHANGED <<osVars, handle, adopted>>

\* The record goes first ...
StopForgets(t) ==
    /\ call[t].at = "forget"
    /\ adopted' = Forgotten(call[t].model)
    /\ call' = [call EXCEPT ![t] = Frame("kill", call[t].model, call[t].proc)]
    /\ UNCHANGED <<osVars, handle>>

\* ... and then whoever has that PID number by now.  If the kill fails the
\* backend stays alive, no longer known to the hub.
StopKills(t) ==
    /\ call[t].at = "kill"
    /\ \/ /\ phase' = Killed(Pid[call[t].proc])
          /\ Ends(t, "ok")
       \/ /\ Ends(t, "failed")
          /\ UNCHANGED phase
    /\ UNCHANGED <<port, origin, handle, adopted>>

StopFindsNothing(t) ==
    LET m == call[t].model IN
    /\ call[t].at = "stop"
    /\ \/ /\ handle[m] = NoProc
          /\ NotRunning(m)
          /\ UNCHANGED handle
       \/ /\ handle[m] # NoProc
          /\ ~HandleAlive(m)
          /\ handle' = [handle EXCEPT ![m] = NoProc]
          /\ UNCHANGED adopted
    /\ Ends(t, "failed")
    /\ UNCHANGED osVars

\* The local p = state.proc is taken here and waited for up to 8 + 5 s.
StopSignals(t) ==
    LET m == call[t].model IN
    /\ call[t].at = "stop"
    /\ HandleAlive(m)
    /\ phase' = [phase EXCEPT ![handle[m]] = "stopping"]
    /\ call' = [call EXCEPT ![t] = Frame("wait", m, handle[m])]
    /\ UNCHANGED <<port, origin, handle, adopted>>

\* state.proc = None, whatever state.proc has become during the wait.
StopReaps(t) ==
    /\ call[t].at = "wait"
    /\ ~Alive(call[t].proc)
    /\ handle' = [handle EXCEPT ![call[t].model] = NoProc]
    /\ Ends(t, "ok")
    /\ UNCHANGED <<osVars, adopted>>

\* The second wait expires too, or a signal raises: "error stopping".
StopGivesUp(t) ==
    /\ call[t].at = "wait"
    /\ Alive(call[t].proc)
    /\ Ends(t, "failed")
    /\ UNCHANGED <<osVars, handle, adopted>>

StartStep(t) == StartChecks(t) \/ StartProbes(t) \/ StartSpawns(t)

StopStep(t) ==
    \/ StopFindsAdopted(t) \/ StopForgets(t) \/ StopKills(t)
    \/ StopFindsNothing(t) \/ StopSignals(t) \/ StopReaps(t) \/ StopGivesUp(t)

-----------------------------------------------------------------------------
(* The operating system and the backends themselves (external). *)

\* One process can own a port: the first to finish loading gets it.
Loads(p) ==
    /\ phase[p] = "loading"
    /\ \A q \in Procs : phase[q] = "ready" => port[q] # port[p]
    /\ phase' = [phase EXCEPT ![p] = "ready"]
    /\ UNCHANGED <<port, origin, handle, adopted, call>>

\* A signalled process goes away; any other may crash or fail to bind.
Exits(p) ==
    /\ Alive(p)
    /\ phase' = [phase EXCEPT ![p] = "dead"]
    /\ port' = [port EXCEPT ![p] = 0]
    /\ origin' = [origin EXCEPT ![p] = "other"]
    /\ UNCHANGED <<handle, adopted, call>>

\* An unrelated process is given a free PID number.
Appears(p) ==
    /\ Fresh(p)
    /\ phase' = [phase EXCEPT ![p] = "ready"]
    /\ port' = [port EXCEPT ![p] = 0]
    /\ origin' = [origin EXCEPT ![p] = "other"]
    /\ UNCHANGED <<handle, adopted, call>>

OsStep(p) == Loads(p) \/ Exits(p) \/ Appears(p)
=============================================================================
