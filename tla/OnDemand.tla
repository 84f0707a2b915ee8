------------------------------ MODULE OnDemand ------------------------------
(***************************************************************************)
(* The life of one "startup: on_demand" registry row inside one hub        *)
(* process (src/src/on_demand.py and the dispatch paths that call it):     *)
(* requests load the backend and are counted while they are served, the    *)
(* watchdog unloads it when it is idle, and an operator may start or stop  *)
(* it at any time.  All the state of on_demand.py is keyed by model id and *)
(* so are its locks, so one row shows every interleaving a row can have.   *)
(*                                                                         *)
(* Every request is one thread that runs once.  Threads interleave at each *)
(* lock, probe, sleep and blocking call; time passes only in Tick.         *)
(***************************************************************************)
EXTENDS BackendProcess

CONSTANTS Row,        \* the row's model id
          Requests,   \* request threads: worker threads of the hub
          Sweepers,   \* the idle watchdog's thread; empty if it never runs
          Operators,  \* the event loop, where the admin handlers run
          Kinds,      \* the request kinds of a run: chat, stream, audio
          Window,     \* idle_unload_minutes, in ticks
          NoOne       \* the holder of a free spawn lock

ASSUME OnDemandAssumption ==
    /\ Row \in Models
    /\ Threads = Requests \cup Sweepers \cup Operators
    /\ Readers = Requests
    /\ Requests \cap (Sweepers \cup Operators) = {}
    /\ Sweepers \cap Operators = {}
    /\ IsFiniteSet(Requests)
    /\ NoOne \notin Requests
    /\ Kinds \subseteq {"chat", "stream", "audio"}
    /\ Window \in Nat \ {0}

VARIABLES kind,      \* what each request asks for, known on arrival
          pc,        \* where each request stands in its dispatch path
          lock,      \* _SPAWN_LOCKS[Row]
          inFlight,  \* _IN_FLIGHT[Row]
          age,       \* time since _LAST_USED[Row], up to Window; Never if unset
          quiet      \* history: time since a tracked request was last present

odVars == <<kind, pc, lock, inFlight, age, quiet>>
vars   == <<bpVars, odVars>>

Never == -1

\* "new" .. "poll": on the way through ensure_ready.  "unread": a streaming
\* response whose generator has not been iterated yet; "dropped": one that
\* never will be.
Stations == {"new", "probe", "lock", "recheck", "starting", "poll", "ready",
             "serving", "unread", "dropped", "answered"}

Locked  == {"recheck", "starting", "poll"}
Settled == {"answered", "dropped"}

\* A row has one backend type: it serves audio, or it serves chat and streams.
RowKinds == {K \in {{"audio"} \cap Kinds, {"chat", "stream"} \cap Kinds} : K # {}}

TypeOK ==
    /\ BackendTypeOK
    /\ kind \in [Requests -> {"chat", "stream", "audio"}]
    /\ pc \in [Requests -> Stations]
    /\ lock \in Requests \cup {NoOne}
    /\ inFlight \in Nat
    /\ age \in Never..Window
    /\ quiet \in 0..Window

-----------------------------------------------------------------------------
\* A tracker is open: request_started has run and request_finished has not.
Tracked(r) == kind[r] # "audio" /\ pc[r] \in {"serving", "unread", "dropped"}

TrackedSet == {r \in Requests : Tracked(r)}

\* The history variable looks at the requests, never at the code's clock.
Quieter(q) == IF \E r \in Requests : Tracked(r)' THEN 0 ELSE q

Moves(r, station) ==
    /\ pc' = [pc EXCEPT ![r] = station]
    /\ UNCHANGED kind
    /\ quiet' = Quieter(quiet)

Init ==
    /\ \E K \in RowKinds : kind \in [Requests -> K]
    /\ pc = [r \in Requests |-> "new"]
    /\ lock = NoOne
    /\ inFlight = 0
    /\ age = Never
    /\ quiet = 0
    /\ call = [t \in Threads |-> Frame("idle", Row, NoProc)]
    /\ handle = [m \in Models |-> NoProc]
    \* The port is free, or a backend survived the previous hub and has been
    \* inherited, or somebody else's server answers there and has not been.
    /\ \/ /\ phase = [p \in Procs |-> "dead"]
          /\ port = [p \in Procs |-> 0]
          /\ origin = [p \in Procs |-> "other"]
          /\ adopted = [m \in Models |-> NoProc]
       \/ \E p \in Procs, ours \in BOOLEAN :
             /\ phase = [q \in Procs |-> IF q = p THEN "ready" ELSE "dead"]
             /\ port = [q \in Procs |-> IF q = p THEN Port[Row] ELSE 0]
             /\ origin = [q \in Procs |->
                            IF q = p /\ ours THEN "survivor" ELSE "other"]
             /\ adopted = [m \in Models |->
                            IF m = Row /\ ours THEN p ELSE NoProc]

-----------------------------------------------------------------------------
(* ensure_ready *)

Arrives(r) ==
    /\ pc[r] = "new"
    /\ Moves(r, "probe")
    /\ UNCHANGED <<bpVars, lock, inFlight, age>>

\* The probe before the lock: reachable, or go for the lock.
Probes(r) ==
    /\ pc[r] = "probe"
    /\ \/ Reachable(Row) /\ Moves(r, "ready")
       \/ Moves(r, "lock")
    /\ UNCHANGED <<bpVars, lock, inFlight, age>>

\* Mutant: two first requests get past the spawn lock together.
AcquiresUnlocked(r) ==
    /\ pc[r] = "lock"
    /\ lock' = r
    /\ Moves(r, "recheck")
    /\ UNCHANGED <<bpVars, inFlight, age>>

Acquires(r) ==
    /\ pc[r] = "lock"
    /\ lock = NoOne
    /\ lock' = r
    /\ Moves(r, "recheck")
    /\ UNCHANGED <<bpVars, inFlight, age>>

Releases(r) == lock' = NoOne

\* Under the lock: reachable by now, or call start.  The VRAM warning in
\* between asks is_running of every row when the host has a ceiling.
Rechecks(r) ==
    /\ pc[r] = "recheck"
    /\ \/ /\ Reachable(Row)
          /\ Moves(r, "ready")
          /\ Releases(r)
          /\ UNCHANGED <<adopted, call>>
       \/ /\ UNCHANGED adopted \/ NotRunning(Row)
          /\ StartCalled(r, Row)
          /\ Moves(r, "starting")
          /\ UNCHANGED lock
    /\ UNCHANGED <<osVars, handle, inFlight, age>>

\* Mutant: the lock is held around start only, not while the backend loads.
StartReturnsUnlocking(r) ==
    /\ pc[r] = "starting"
    /\ Returned(r)
    /\ Moves(r, IF call[r].at = "failed" THEN "answered" ELSE "poll")
    /\ Releases(r)
    /\ UNCHANGED <<osVars, handle, adopted, inFlight, age>>

StartReturns(r) ==
    /\ pc[r] = "starting"
    /\ Returned(r)
    /\ \/ /\ call[r].at = "failed"
          /\ Moves(r, "answered")
          /\ Releases(r)
       \/ /\ call[r].at \in {"ok", "already"}
          /\ Moves(r, "poll")
          /\ UNCHANGED lock
    /\ UNCHANGED <<osVars, handle, adopted, inFlight, age>>

Polls(r) ==
    /\ pc[r] = "poll"
    /\ Reachable(Row)
    /\ Moves(r, "ready")
    /\ Releases(r)
    /\ UNCHANGED <<bpVars, inFlight, age>>

\* Mutant: the deadline is reported without leaving the lock's block.
ExpiresHoldingLock(r) ==
    /\ pc[r] = "poll"
    /\ Moves(r, "answered")
    /\ UNCHANGED <<bpVars, lock, inFlight, age>>

\* READY_DEADLINE_S has passed: OnDemandNotReady, answered with a 503.
Expires(r) ==
    /\ pc[r] = "poll"
    /\ Moves(r, "answered")
    /\ Releases(r)
    /\ UNCHANGED <<bpVars, inFlight, age>>

EnsureReady(r) ==
    \/ Probes(r) \/ Acquires(r) \/ Rechecks(r) \/ StartReturns(r)
    \/ Polls(r) \/ Expires(r)

-----------------------------------------------------------------------------
(* Dispatch, once ensure_ready has returned. *)

\* request_started and request_finished, under _LOCK.
RequestStarted == inFlight' = inFlight + 1 /\ age' = 0

\* Mutant: only arrivals refresh the idle clock.
RequestFinishedStale ==
    /\ inFlight' = IF inFlight = 0 THEN 0 ELSE inFlight - 1
    /\ UNCHANGED age

RequestFinished ==
    /\ inFlight' = IF inFlight = 0 THEN 0 ELSE inFlight - 1
    /\ age' = 0

\* The text-only check of the translated route raises before the tracker.
Rejects(r) ==
    /\ pc[r] = "ready"
    /\ kind[r] = "chat"
    /\ Moves(r, "answered")
    /\ UNCHANGED <<bpVars, lock, inFlight, age>>

\* A chat is served inside the tracker's block.  A stream's tracker is started
\* before the response object exists.  The audio proxy has no tracker.
Dispatches(r) ==
    /\ pc[r] = "ready"
    /\ \/ kind[r] = "chat" /\ RequestStarted /\ Moves(r, "serving")
       \/ kind[r] = "stream" /\ RequestStarted /\ Moves(r, "unread")
       \/ kind[r] = "audio" /\ Moves(r, "serving") /\ UNCHANGED <<inFlight, age>>
    /\ UNCHANGED <<bpVars, lock>>

\* The server iterates the generator for the first time, or the client went
\* away before: a generator that never started has no finally to run.
StreamOpens(r) ==
    /\ pc[r] = "unread"
    /\ Moves(r, "serving")
    /\ UNCHANGED <<bpVars, lock, inFlight, age>>

StreamDropped(r) ==
    /\ pc[r] = "unread"
    /\ Moves(r, "dropped")
    /\ UNCHANGED <<bpVars, lock, inFlight, age>>

\* Mutant: the tracker is closed on success only, not in a finally.
FinishesOnSuccess(r) ==
    /\ pc[r] = "serving"
    /\ \/ Tracked(r) /\ RequestFinished
       \/ UNCHANGED <<inFlight, age>>
    /\ Moves(r, "answered")
    /\ UNCHANGED <<bpVars, lock>>

\* Mutant: finish ignores "active", and the count has no floor.
FinishesUnpaired(r) ==
    /\ pc[r] = "serving"
    /\ inFlight' = inFlight - 1
    /\ age' = 0
    /\ Moves(r, "answered")
    /\ UNCHANGED <<bpVars, lock>>

\* The upstream call ends, well or not, or the client of an open stream goes:
\* the with block or the generator's finally closes the tracker.
Finishes(r) ==
    /\ pc[r] = "serving"
    /\ IF Tracked(r) THEN RequestFinished ELSE UNCHANGED <<inFlight, age>>
    /\ Moves(r, "answered")
    /\ UNCHANGED <<bpVars, lock>>

Dispatch(r) ==
    \/ Rejects(r) \/ Dispatches(r) \/ StreamOpens(r) \/ StreamDropped(r)
    \/ Finishes(r)

-----------------------------------------------------------------------------
(* idle_unload_pass *)

\* One pass up to its decision.  The pass reads its own time t first; whatever
\* touches the row after that only makes idle_s smaller, so one step is enough.
\* From the decision to the signal inside stop nothing is held or re-read.
SweepSkips(s) ==
    /\ call[s].at = "idle"
    /\ NotRunning(Row)
    /\ UNCHANGED <<osVars, handle, call, odVars>>

\* Mutant: a row that was never used in this hub run is left alone.
SweepIgnoresUntouched(s) ==
    /\ call[s].at = "idle"
    /\ IsRunning(Row)
    /\ age = Never
    /\ UNCHANGED vars

SweepArms(s) ==
    /\ call[s].at = "idle"
    /\ IsRunning(Row)
    /\ age = Never
    /\ age' = 0
    /\ UNCHANGED <<bpVars, kind, pc, lock, inFlight, quiet>>

SweepUnloads(s) ==
    /\ call[s].at = "idle"
    /\ IsRunning(Row)
    /\ age # Never
    /\ inFlight = 0
    /\ age >= Window
    /\ StopCalled(s, Row)
    /\ UNCHANGED <<osVars, handle, adopted, odVars>>

Sweep(s) == SweepSkips(s) \/ SweepArms(s) \/ SweepUnloads(s)

-----------------------------------------------------------------------------
(* The admin handlers for this row, and time. *)

OperatorCalls(o) ==
    /\ StartCalled(o, Row) \/ StopCalled(o, Row)
    /\ UNCHANGED <<osVars, handle, adopted, odVars>>

Tick ==
    /\ age' = IF age \in {Never, Window} THEN age ELSE age + 1
    /\ quiet' = IF TrackedSet # {} THEN 0
                ELSE IF quiet = Window THEN Window ELSE quiet + 1
    /\ UNCHANGED <<bpVars, kind, pc, lock, inFlight>>

CallStep(t) == (StartStep(t) \/ StopStep(t)) /\ UNCHANGED odVars

Next ==
    \/ \E r \in Requests : Arrives(r) \/ EnsureReady(r) \/ Dispatch(r)
    \/ \E t \in Threads : CallStep(t)
    \/ \E s \in Sweepers : Sweep(s)
    \/ \E o \in Operators : OperatorCalls(o)
    \/ \E p \in Procs : OsStep(p) /\ UNCHANGED odVars
    \/ Tick

Spec == Init /\ [][Next]_vars

-----------------------------------------------------------------------------
(* Fairness: threads keep running (each blocking call of theirs has a       *)
(* time-out), the watchdog loop wakes up for ever, time passes, and a       *)
(* process that was told to go, and killed if it did not, goes.  Nothing    *)
(* makes a client arrive, an operator act, or a backend finish loading.     *)

Fairness ==
    /\ \A r \in Requests : WF_vars(EnsureReady(r)) /\ WF_vars(Dispatch(r))
    /\ \A r \in Requests : WF_vars(Expires(r))
    /\ \A t \in Threads : WF_vars(CallStep(t))
    /\ \A s \in Sweepers : WF_vars(Sweep(s))
    /\ \A p \in Procs : WF_vars(phase[p] = "stopping" /\ Exits(p) /\ UNCHANGED odVars)
    /\ WF_vars(Tick)

FairSpec == Spec /\ Fairness

-----------------------------------------------------------------------------
(* Safety *)

\* The in-flight count is the number of open trackers, whatever way requests
\* end: no path finishes a tracker twice, or never, while the count says
\* otherwise (RequestTracking: "exactly one request_finished").
InFlightAccurate == inFlight = Cardinality(TrackedSet)

\* The row has a Popen object or an inherited PID, never both.  stop looks at
\* the inherited PID only when there is no Popen object, so with both it would
\* answer "not running" for a row whose inherited backend is up.
OwnershipExclusive == handle[Row] = NoProc \/ adopted[Row] = NoProc

SpawnedHere(p) == Alive(p) /\ origin[p] = "hub"

\* However many requests find the row cold at the same time, this hub has at
\* most one backend process for it (the comment on _SPAWN_LOCKS, and "its own
\* singleton process" in backend_process.py).
NoDoubleSpawn ==
    \A p, q \in Procs : SpawnedHere(p) /\ SpawnedHere(q) => p = q

-----------------------------------------------------------------------------
(* What a row promises when nobody but requests starts or stops it: the     *)
(* probes, the spawn lock and start, which holds no lock of its own, are    *)
(* SpawnGate.                                                               *)

\* A request whose start has succeeded waits for the backend.
Stage(r) ==
    CASE pc[r] = "new" -> "new"
      [] pc[r] = "starting" ->
             IF call[r].at \in {"ok", "already"} THEN "waiting" ELSE "asking"
      [] pc[r] = "poll" -> "waiting"
      [] pc[r] \in {"ready", "serving", "unread"} -> "in"
      [] pc[r] \in Settled -> "gone"
      [] OTHER -> "asking"

\* The hub's own process is starting up, answers, or is not there.
OwnBackend ==
    IF \E p \in Procs : SpawnedHere(p) /\ phase[p] = "ready" THEN "up"
    ELSE IF \E p \in Procs : SpawnedHere(p) THEN "loading"
    ELSE "none"

OtherAnswers ==
    \E p \in Procs : phase[p] = "ready" /\ port[p] = Port[Row] /\ origin[p] # "hub"

Gate == INSTANCE SpawnGate WITH stage <- [r \in Requests |-> Stage(r)],
                                backend <- OwnBackend,
                                other <- OtherAnswers

\* ensure_ready, the spawn lock and start are a SpawnGate: a backend is spawned
\* by a request that waits for it and only where there is none, one request at
\* a time waits, nobody is let in while nothing answers, and no request spawns
\* twice (the comment on _SPAWN_LOCKS, and ensure_ready's docstring: "spawns it
\* and blocks polling is_reachable until it answers or deadline_s expires").
ImplementsGate == Gate!Spec

-----------------------------------------------------------------------------
(* What a step may never do *)

Decides(s) == call[s].at = "idle" /\ call'[s].at = "stop"

\* A stop is about to kill an inherited PID.
Aims(t) == call[t].at \in {"forget", "kill"}

\* p is a process the hub has neither spawned nor inherited, and is signalled.
HitsStranger(p) ==
    origin[p] = "other" /\ phase[p] # "stopping" /\ phase'[p] = "stopping"

\* A stop takes aim at an inherited PID only while the adopted backend itself
\* has it, however many backends have died and PIDs been reused before; and it
\* signals a stranger (the external server on the row's port, a process that
\* got an old PID number) only if the backend it aimed at has died between the
\* identity check and the kill and its number was given away in that time.
StopsOnlyItsOwn ==
    [][/\ \A t \in Threads : ~Aims(t) /\ Aims(t)' =>
             LET p == call'[t].proc IN phase'[p] # "dead" /\ origin'[p] # "other"
       /\ \A p \in Procs : HitsStranger(p) =>
             \E t \in Threads : /\ call[t].at = "kill"
                               /\ Pid[call[t].proc] = Pid[p]
                               /\ ~Alive(call[t].proc)]_vars

\* The watchdog decides to unload only when no counted request has been there
\* for a whole window: a request longer than the window does not make the row
\* idle, its end starts the window again, and a backend inherited from an
\* earlier hub gets a full window from its first sighting.
UnloadAfterQuietWindow ==
    [][\A s \in Sweepers : Decides(s) => quiet = Window]_vars

\* "A model with work in flight is never idle": the watchdog does not decide
\* to unload while a request is being served by the backend.
UnloadSparesServed ==
    [][\A s \in Sweepers : Decides(s) =>
          \A r \in Requests : pc[r] # "serving"]_vars

\* "The request spawns it ... and blocks polling is_reachable until the process
\* answers", and the hub stops it "after that many minutes without a request":
\* the watchdog does not decide to unload a backend while it is loading for a
\* request that waits for it.
UnloadSparesLoading ==
    [][\A s \in Sweepers : Decides(s) =>
          ~ \E r \in Requests, p \in Procs :
                pc[r] = "poll" /\ p = handle[Row] /\ phase[p] = "loading"]_vars

-----------------------------------------------------------------------------
(* Liveness *)

\* Every request that arrives is answered, with a reply or a 503: a backend
\* that never loads, dies or is unloaded meanwhile blocks nobody for ever,
\* and neither does the thread that holds the spawn lock.
EveryRequestAnswered ==
    \A r \in Requests : pc[r] = "probe" ~> pc[r] \in Settled

\* Once no request is on its way or being served, the backend does not stay
\* up for ever: the idle window is not pinned open.
UnusedRowUnloaded ==
    <>[](\A r \in Requests : pc[r] \in {"new"} \cup Settled)
        => []<>~IsRunning(Row)
=============================================================================
