------------------------------ MODULE LogFanout ------------------------------
(***************************************************************************)
(* The ring of log lines and its live tails: RingHandler                   *)
(* (src/src/hub_log.py), AsyncFanout (src/src/async_fanout.py) and         *)
(* sse_stream (src/app_web/routers/_helpers.py).                           *)
(*                                                                         *)
(* The request list (src/src/hub_observability.py) is the same with every  *)
(* writer on the event loop.  A line is its number: the n-th in the ring.  *)
(* A seed is as long as the ring or the limit allows; what matters is the  *)
(* line it ends with.                                                      *)
(***************************************************************************)
EXTENDS Naturals, Sequences

CONSTANTS Writers,      \* callers of emit or record_request
          LoopWriters,  \* those that run on the event loop
          Tails,        \* requests for a tail
          QueueMax,     \* maxsize of a subscriber's queue
          MaxLines,     \* bound on the lines that are written
          None          \* nobody

ASSUME FanoutAssumption ==
    /\ LoopWriters \subseteq Writers
    /\ QueueMax \in Nat \ {0}
    /\ MaxLines \in Nat
    /\ None \notin Writers \cup Tails
    /\ Writers \cap Tails = {}

VARIABLES log,    \* _ring: who wrote which line
          lock,   \* the log handler's lock, held during emit
          emit,   \* writers inside emit: the step before them, line, copied _subs
          loop,   \* who runs on the event loop between two awaits
          subs,   \* _subs
          ready,  \* the event loop's callbacks: a line and the queues it is for
          queue,  \* the subscribers' queues
          tail,   \* where each tail is
          seed,   \* the last line of its seed
          sent,   \* the lines it has sent after the seed
          there,  \* its client is connected
          full    \* history: its queue was full when a line came

writerVars == <<log, lock, emit>>
tailVars   == <<tail, seed, sent, there>>
queueVars  == <<queue, full>>
vars       == <<writerVars, loop, subs, ready, queueVars, tailVars>>

\* "seeded": the seed is taken, not yet subscribed; "open": the response
\* exists, its generator has not run; "sending": it yielded; "waiting": in
\* q.get; "lost": a response whose generator was never run.
Stages == {"new", "seeded", "open", "sending", "waiting", "over", "lost"}

Lines == 1 .. MaxLines

Callbacks == [line : Lines, to : SUBSET Tails]

TypeOK ==
    /\ log \in Seq(Writers)
    /\ Len(log) <= MaxLines
    /\ lock \in Writers \cup {None}
    /\ emit \in [Writers -> [at : {"out", "copy", "schedule"}, line : 0 .. MaxLines,
                             to : SUBSET Tails]]
    /\ loop \in Writers \cup Tails \cup {None}
    /\ subs \in SUBSET Tails
    /\ ready \in Seq(Callbacks)
    /\ queue \in [Tails -> Seq(Lines)]
    /\ \A t \in Tails : Len(queue[t]) <= QueueMax
    /\ tail \in [Tails -> Stages]
    /\ seed \in [Tails -> 0 .. MaxLines]
    /\ sent \in [Tails -> Seq(Lines)]
    /\ there \in [Tails -> BOOLEAN]
    /\ full \in [Tails -> BOOLEAN]

Outside == [at |-> "out", line |-> 0, to |-> {}]

Init ==
    /\ log = <<>>
    /\ lock = None
    /\ emit = [w \in Writers |-> Outside]
    /\ loop = None
    /\ subs = {}
    /\ ready = <<>>
    /\ queue = [t \in Tails |-> <<>>]
    /\ tail = [t \in Tails |-> "new"]
    /\ seed = [t \in Tails |-> 0]
    /\ sent = [t \in Tails |-> <<>>]
    /\ there = [t \in Tails |-> TRUE]
    /\ full = [t \in Tails |-> FALSE]

-----------------------------------------------------------------------------
(* emit and record_request *)

\* Mutant: emit without the handler's lock.
AppendsUnlocked(w) ==
    /\ emit[w].at = "out"
    /\ Len(log) < MaxLines
    /\ w \in LoopWriters => loop = None
    /\ loop' = IF w \in LoopWriters THEN w ELSE loop
    /\ log' = Append(log, w)
    /\ emit' = [emit EXCEPT ![w] = [at |-> "copy", line |-> Len(log) + 1, to |-> {}]]
    /\ UNCHANGED <<lock, subs, ready, queueVars, tailVars>>

\* logging.Handler.handle takes the handler's lock around emit; a writer on the
\* loop holds the loop until it returns.
Appends(w) ==
    /\ emit[w].at = "out"
    /\ Len(log) < MaxLines
    /\ lock = None
    /\ lock' = w
    /\ w \in LoopWriters => loop = None
    /\ loop' = IF w \in LoopWriters THEN w ELSE loop
    /\ log' = Append(log, w)
    /\ emit' = [emit EXCEPT ![w] = [at |-> "copy", line |-> Len(log) + 1, to |-> {}]]
    /\ UNCHANGED <<subs, ready, queueVars, tailVars>>

Returns(w) ==
    /\ emit' = [emit EXCEPT ![w] = Outside]
    /\ lock' = None
    /\ loop' = IF loop = w THEN None ELSE loop

\* push: without a subscriber it returns at once.
CopiesSubs(w) ==
    /\ emit[w].at = "copy"
    /\ \/ subs = {} /\ Returns(w)
       \/ /\ subs # {}
          /\ emit' = [emit EXCEPT ![w] = [at |-> "schedule", line |-> @.line, to |-> subs]]
          /\ UNCHANGED <<lock, loop>>
    /\ UNCHANGED <<log, subs, ready, queueVars, tailVars>>

\* Mutant: the callback goes before those that wait.
SchedulesFirst(w) ==
    /\ emit[w].at = "schedule"
    /\ ready' = <<[line |-> emit[w].line, to |-> emit[w].to]>> \o ready
    /\ Returns(w)
    /\ UNCHANGED <<log, subs, queueVars, tailVars>>

\* Mutant: the writer waits until every queue has room.
SchedulesWhenRoom(w) ==
    /\ emit[w].at = "schedule"
    /\ \A t \in emit[w].to : Len(queue[t]) < QueueMax
    /\ ready' = Append(ready, [line |-> emit[w].line, to |-> emit[w].to])
    /\ Returns(w)
    /\ UNCHANGED <<log, subs, queueVars, tailVars>>

\* loop.call_soon_threadsafe
Schedules(w) ==
    /\ emit[w].at = "schedule"
    /\ ready' = Append(ready, [line |-> emit[w].line, to |-> emit[w].to])
    /\ Returns(w)
    /\ UNCHANGED <<log, subs, queueVars, tailVars>>

-----------------------------------------------------------------------------
(* The event loop: the callback _push, one at a time and in order. *)

Room(t) == Len(queue[t]) < QueueMax

\* Mutant: the first full queue ends the callback.
PushesUntilFull ==
    /\ loop = None
    /\ ready # <<>>
    /\ LET item == Head(ready) IN
         /\ queue' = [t \in Tails |-> IF t \in item.to /\ \A u \in item.to : Room(u)
                                      THEN Append(queue[t], item.line) ELSE queue[t]]
         /\ full' = [t \in Tails |-> full[t] \/ (t \in item.to /\ ~Room(t))]
    /\ ready' = Tail(ready)
    /\ UNCHANGED <<writerVars, loop, subs, tailVars>>

\* put_nowait for every copied queue; QueueFull is passed over.
Pushes ==
    /\ loop = None
    /\ ready # <<>>
    /\ LET item == Head(ready) IN
         /\ queue' = [t \in Tails |-> IF t \in item.to /\ Room(t)
                                      THEN Append(queue[t], item.line) ELSE queue[t]]
         /\ full' = [t \in Tails |-> full[t] \/ (t \in item.to /\ ~Room(t))]
    /\ ready' = Tail(ready)
    /\ UNCHANGED <<writerVars, loop, subs, tailVars>>

-----------------------------------------------------------------------------
(* A tail: log_tail or requests_stream, then sse_stream's generator. *)

Moves(t, stage) == tail' = [tail EXCEPT ![t] = stage]

\* Mutant: the seed leaves out the newest line.
SeedsShort(t) ==
    /\ tail[t] = "new"
    /\ loop = None
    /\ loop' = t
    /\ seed' = [seed EXCEPT ![t] = IF Len(log) = 0 THEN 0 ELSE Len(log) - 1]
    /\ Moves(t, "seeded")
    /\ UNCHANGED <<writerVars, subs, ready, queueVars, sent, there>>

\* The route evaluates the seed first; no await until it is subscribed.
Seeds(t) ==
    /\ tail[t] = "new"
    /\ loop = None
    /\ loop' = t
    /\ seed' = [seed EXCEPT ![t] = Len(log)]
    /\ Moves(t, "seeded")
    /\ UNCHANGED <<writerVars, subs, ready, queueVars, sent, there>>

\* Mutant: what is stored is the queue's content.
SubscribesContent(t) ==
    /\ tail[t] = "seeded"
    /\ subs' = subs \cup {queue[t]}
    /\ loop' = None
    /\ Moves(t, "open")
    /\ UNCHANGED <<writerVars, ready, queueVars, seed, sent, there>>

Subscribes(t) ==
    /\ tail[t] = "seeded"
    /\ subs' = subs \cup {t}
    /\ loop' = None
    /\ Moves(t, "open")
    /\ UNCHANGED <<writerVars, ready, queueVars, seed, sent, there>>

\* The generator runs for the first time and sends the seed.
Runs(t) ==
    /\ tail[t] = "open"
    /\ loop = None
    /\ Moves(t, "sending")
    /\ UNCHANGED <<writerVars, loop, subs, ready, queueVars, seed, sent, there>>

\* The client is gone before that: the generator and its finally never run.
NeverRuns(t) ==
    /\ tail[t] = "open"
    /\ loop = None
    /\ ~there[t]
    /\ Moves(t, "lost")
    /\ UNCHANGED <<writerVars, loop, subs, ready, queueVars, seed, sent, there>>

\* What was sent is taken by the client, at its own pace.
Taken(t) ==
    /\ tail[t] = "sending"
    /\ loop = None
    /\ Moves(t, "waiting")
    /\ UNCHANGED <<writerVars, loop, subs, ready, queueVars, seed, sent, there>>

\* q.get returns; the line is yielded.
Gets(t) ==
    /\ tail[t] = "waiting"
    /\ loop = None
    /\ queue[t] # <<>>
    /\ sent' = [sent EXCEPT ![t] = Append(@, Head(queue[t]))]
    /\ queue' = [queue EXCEPT ![t] = Tail(@)]
    /\ Moves(t, "sending")
    /\ UNCHANGED <<writerVars, loop, subs, ready, full, seed, there>>

\* wait_for times out: a keep-alive is yielded.  A line that comes at the same
\* time stays in the queue.
KeepsAlive(t) ==
    /\ tail[t] = "waiting"
    /\ loop = None
    /\ Moves(t, "sending")
    /\ UNCHANGED <<writerVars, loop, subs, ready, queueVars, seed, sent, there>>

\* Mutant: no finally.
EndsSubscribed(t) ==
    /\ tail[t] \in {"sending", "waiting"}
    /\ loop = None
    /\ ~there[t]
    /\ Moves(t, "over")
    /\ UNCHANGED <<writerVars, loop, subs, ready, queueVars, seed, sent, there>>

\* is_disconnected, or the response's task is cancelled: finally unsubscribes.
Ends(t) ==
    /\ tail[t] \in {"sending", "waiting"}
    /\ loop = None
    /\ ~there[t]
    /\ subs' = subs \ {t}
    /\ Moves(t, "over")
    /\ UNCHANGED <<writerVars, loop, ready, queueVars, seed, sent, there>>

\* The client disconnects (external).  Before the response exists nothing
\* would notice it.
Leaves(t) ==
    /\ tail[t] \in {"open", "sending", "waiting"}
    /\ there[t]
    /\ there' = [there EXCEPT ![t] = FALSE]
    /\ UNCHANGED <<writerVars, loop, subs, ready, queueVars, tail, seed, sent>>

WriterStep(w) == Appends(w) \/ CopiesSubs(w) \/ Schedules(w)

TailStep(t) ==
    \/ Seeds(t) \/ Subscribes(t) \/ Runs(t) \/ NeverRuns(t)
    \/ Taken(t) \/ Gets(t) \/ KeepsAlive(t) \/ Ends(t) \/ Leaves(t)

Next ==
    \/ \E w \in Writers : WriterStep(w)
    \/ Pushes
    \/ \E t \in Tails : TailStep(t)

Spec == Init /\ [][Next]_vars

\* The writer inside emit (the lock lets one in) goes on, a route goes on to
\* subscribe, and a generator notices within poll_timeout that its client has
\* gone.  Nothing makes a client take what was sent, or leave.
Fairness ==
    /\ WF_vars(\E w \in Writers : CopiesSubs(w) \/ Schedules(w))
    /\ \A t \in Tails : WF_vars(Subscribes(t) \/ Ends(t))

FairSpec == Spec /\ Fairness

-----------------------------------------------------------------------------
(* Properties *)

\* The lines on their way to t: sent, queued, in a callback, in a writer's hand.
Sent(t)      == {sent[t][i] : i \in 1 .. Len(sent[t])}
Queued(t)    == {queue[t][i] : i \in 1 .. Len(queue[t])}
Scheduled(t) == {ready[k].line : k \in {k \in 1 .. Len(ready) : t \in ready[k].to}}
InHand(t)    == {emit[w].line : w \in {w \in Writers : t \in emit[w].to}}

Live(t) == Sent(t) \cup Queued(t) \cup Scheduled(t) \cup InHand(t)

\* The last line of which the subscribers are known.
Through == IF \E w \in Writers : emit[w].at = "copy" THEN Len(log) - 1 ELSE Len(log)

Rising(s) == \A i, j \in 1 .. Len(s) : i < j => s[i] < s[j]

\* Lines reach a tail in the order in which they are in the ring, whichever
\* threads wrote them and whatever waits on the loop.
InOrder ==
    \A t \in Tails :
        /\ Rising(sent[t]) /\ Rising(queue[t])
        /\ \A k, l \in 1 .. Len(ready) :
              k < l /\ t \in ready[k].to \cap ready[l].to => ready[k].line < ready[l].line
        /\ \A m \in Sent(t) : \A n \in Queued(t) \cup Scheduled(t) \cup InHand(t) : m < n
        /\ \A m \in Queued(t) : \A n \in Scheduled(t) \cup InHand(t) : m < n
        /\ \A m \in Scheduled(t) : \A n \in InHand(t) : m < n

\* A tail whose own queue was never full has every line from its first one on,
\* however slow the other tails are ("one subscriber's slow/full queue never
\* blocks another's delivery").
NoHole ==
    \A t \in subs : ~full[t] =>
        \A m \in Live(t) : m <= Through /\ m .. Through \subseteq Live(t)

\* Between the seed and the live lines nothing that the loop itself wrote (a
\* request record, an access-log line) is lost or shown twice; a line of
\* another thread may be either.
SeamKeepsLoopLines ==
    \A t \in subs : ~full[t] =>
        \A n \in 1 .. Through :
            log[n] \in LoopWriters => (n > seed[t] <=> n \in Live(t))

\* Whoever is inside emit gets out and lets the next writer in, whatever the
\* clients do ("never blocks ... the publishing thread").
WritersReturn == lock # None ~> lock = None

\* A tail that has begun to send does not stay subscribed after its client has
\* gone (sse_stream's finally).
GoneTailUnsubscribed ==
    \A t \in Tails : (tail[t] \in {"sending", "waiting"} /\ ~there[t]) ~> t \notin subs

\* The tails are tails: the fan-out implements LogTail.
Tailing == INSTANCE LogTail WITH opened <- [t \in Tails |-> tail[t] # "new"],
                                 screen <- sent

ImplementsTail == Tailing!Spec
=============================================================================
