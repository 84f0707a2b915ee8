--------------------------- MODULE LogFanoutProofs ---------------------------
(***************************************************************************)
(* Theorems about LogFanout for any sets of writers and tails, any queue   *)
(* size and any number of lines: its types, that it implements LogTail,    *)
(* and what it delivers: in order, without a hole, and without losing or   *)
(* doubling a line of the loop's own at the seam between the seed and the  *)
(* live lines.                                                             *)
(***************************************************************************)
EXTENDS LogFanout, TLAPS

-----------------------------------------------------------------------------
(* Sequences *)

\* One element more: the old ones keep their places.
LEMMA AppendFacts ==
    ASSUME NEW S, NEW s \in Seq(S), NEW e \in S
    PROVE  /\ Append(s, e) \in Seq(S)
           /\ Len(Append(s, e)) = Len(s) + 1
           /\ \A i \in 1 .. Len(s) : Append(s, e)[i] = s[i]
           /\ Append(s, e)[Len(s) + 1] = e
  OBVIOUS

\* The first one taken away: the others move up.
LEMMA TailFacts ==
    ASSUME NEW S, NEW s \in Seq(S), s # <<>>
    PROVE  /\ Head(s) \in S
           /\ Head(s) = s[1]
           /\ Len(s) \in Nat \ {0}
           /\ Tail(s) \in Seq(S)
           /\ Len(Tail(s)) = Len(s) - 1
           /\ \A i \in 1 .. Len(s) - 1 : Tail(s)[i] = s[i + 1]
  OBVIOUS

-----------------------------------------------------------------------------
(* The invariant *)

\* Only the holder of the lock is inside emit, and its line is the last one.
LockInv ==
    \A w \in Writers : emit[w].at # "out" =>
        lock = w /\ emit[w].line = Len(log) /\ Len(log) >= 1

\* n is in the log, and nobody is about to push it.
Settled(n, last, holder) == n <= last /\ (holder # None => n < last)

ReadyInv ==
    /\ \A i, j \in 1 .. Len(ready) : i < j => ready[i].line < ready[j].line
    /\ \A i \in 1 .. Len(ready) : Settled(ready[i].line, Len(log), lock)

\* A queue is in order, and ahead of the callbacks.
QueueInv ==
    \A t \in Tails :
        /\ \A i, j \in 1 .. Len(queue[t]) : i < j => queue[t][i] < queue[t][j]
        /\ \A i \in 1 .. Len(queue[t]) :
              /\ Settled(queue[t][i], Len(log), lock)
              /\ \A k \in 1 .. Len(ready) : queue[t][i] < ready[k].line

\* What was sent is ahead of the queue and of the callbacks.
SentInv ==
    \A t \in Tails : \A i \in 1 .. Len(sent[t]) :
        /\ Settled(sent[t][i], Len(log), lock)
        /\ \A k \in 1 .. Len(queue[t]) : sent[t][i] < queue[t][k]
        /\ \A k \in 1 .. Len(ready) : sent[t][i] < ready[k].line

\* Nobody knows of a tail before it subscribes.
EarlyInv ==
    \A t \in Tails : tail[t] \in {"new", "seeded"} =>
        /\ t \notin subs
        /\ queue[t] = <<>>
        /\ sent[t] = <<>>
        /\ \A k \in 1 .. Len(ready) : t \notin ready[k].to
        /\ \A w \in Writers : t \notin emit[w].to

\* Nothing that comes live is older than the seed's last line.
SeedInv ==
    \A t \in Tails :
        /\ seed[t] <= Len(log)
        /\ \A i \in 1 .. Len(queue[t]) : queue[t][i] >= seed[t]
        /\ \A k \in 1 .. Len(ready) : t \in ready[k].to => ready[k].line >= seed[t]

OrderInv ==
    TypeOK /\ LockInv /\ ReadyInv /\ QueueInv /\ SentInv /\ EarlyInv /\ SeedInv

\* Whatever is on its way is the number of a line.
LEMMA LinesAreNumbers ==
    ASSUME TypeOK
    PROVE  /\ Len(log) \in Nat /\ Len(ready) \in Nat
           /\ \A k \in 1 .. Len(ready) : ready[k] \in Callbacks /\ ready[k].line \in Lines
           /\ \A t \in Tails :
                 /\ Len(queue[t]) \in Nat /\ Len(sent[t]) \in Nat
                 /\ seed[t] \in Nat
                 /\ \A i \in 1 .. Len(queue[t]) : queue[t][i] \in Lines
                 /\ \A i \in 1 .. Len(sent[t]) : sent[t][i] \in Lines
           /\ Lines \subseteq Nat
  <1>1. Lines \subseteq Nat
    BY FanoutAssumption DEF Lines
  <1>2. \A k \in 1 .. Len(ready) : ready[k] \in Callbacks
    BY DEF TypeOK
  <1>3. \A k \in 1 .. Len(ready) : ready[k].line \in Lines
    BY <1>2 DEF Callbacks
  <1>4. ASSUME NEW t \in Tails
        PROVE  /\ queue[t] \in Seq(Lines) /\ sent[t] \in Seq(Lines)
               /\ seed[t] \in Nat
    BY FanoutAssumption DEF TypeOK
  <1> QED BY <1>1, <1>2, <1>3, <1>4 DEF TypeOK

\* Nothing is written and nobody has come.
LEMMA InitOrder == Init => OrderInv
  <1> SUFFICES ASSUME Init PROVE OrderInv
    OBVIOUS
  <1>1. TypeOK
    <2>1. <<>> \in Seq(Writers) /\ <<>> \in Seq(Callbacks) /\ <<>> \in Seq(Lines)
      OBVIOUS
    <2>2. 0 <= MaxLines /\ 0 <= QueueMax /\ 0 \in 0 .. MaxLines
      BY FanoutAssumption
    <2> QED BY <2>1, <2>2 DEF Init, TypeOK, Outside, Stages
  <1>2. LockInv
    BY DEF Init, LockInv, Outside
  <1> QED BY <1>1, <1>2 DEF Init, OrderInv, ReadyInv, QueueInv, SentInv, EarlyInv,
                            SeedInv, Settled, Outside

-----------------------------------------------------------------------------
(* The writers *)

\* A line is appended: what was settled before is older than it.
LEMMA AppendsOrder ==
    ASSUME OrderInv, NEW w \in Writers, Appends(w)
    PROVE  OrderInv'
  <1> USE DEF OrderInv, TypeOK
  <1>1. /\ emit[w].at = "out"
        /\ Len(log) < MaxLines
        /\ lock = None
        /\ lock' = w
        /\ log' = Append(log, w)
        /\ emit' = [emit EXCEPT ![w] = [at |-> "copy", line |-> Len(log) + 1, to |-> {}]]
        /\ UNCHANGED <<subs, ready, queue, full, tail, seed, sent, there>>
    BY DEF Appends, queueVars, tailVars
  <1>2. /\ log' \in Seq(Writers)
        /\ Len(log') = Len(log) + 1
        /\ Len(log) \in Nat
    BY <1>1, AppendFacts
  <1>3. MaxLines \in Nat /\ None \notin Writers
    BY FanoutAssumption
  <1>4. TypeOK'
    <2>1. emit' \in [Writers -> [at : {"out", "copy", "schedule"}, line : 0 .. MaxLines,
                                 to : SUBSET Tails]]
      BY <1>1, <1>2, <1>3
    <2>2. loop' \in Writers \cup Tails \cup {None}
      BY DEF Appends
    <2>3. Len(log') <= MaxLines
      BY <1>1, <1>2, <1>3
    <2> QED BY <1>1, <1>2, <2>1, <2>2, <2>3
  <1>5. LockInv'
    BY <1>1, <1>2, <1>3 DEF LockInv
  <1>6. \A n \in Nat : Settled(n, Len(log), lock) => Settled(n, Len(log'), lock')
    BY <1>1, <1>2 DEF Settled
  <1>7. ReadyInv'
    <2>1. \A i \in 1 .. Len(ready) : ready[i].line \in Nat
      BY LinesAreNumbers
    <2> QED BY <1>1, <1>6, <2>1 DEF ReadyInv
  <1>8. QueueInv'
    <2>1. \A t \in Tails : \A i \in 1 .. Len(queue[t]) : queue[t][i] \in Nat
      BY LinesAreNumbers
    <2> QED BY <1>1, <1>6, <2>1 DEF QueueInv
  <1>9. SentInv'
    <2>1. \A t \in Tails : \A i \in 1 .. Len(sent[t]) : sent[t][i] \in Nat
      BY LinesAreNumbers
    <2> QED BY <1>1, <1>6, <2>1 DEF SentInv
  <1>10. EarlyInv'
    BY <1>1 DEF EarlyInv
  <1>11. SeedInv'
    BY <1>1, <1>2 DEF SeedInv
  <1> QED BY <1>4, <1>5, <1>7, <1>8, <1>9, <1>10, <1>11

\* A writer leaves emit: only the lock and its own frame change.
LEMMA ReturnsType ==
    ASSUME TypeOK, NEW w \in Writers, Returns(w)
    PROVE  /\ emit' \in [Writers -> [at : {"out", "copy", "schedule"}, line : 0 .. MaxLines,
                                     to : SUBSET Tails]]
           /\ lock' \in Writers \cup {None}
           /\ loop' \in Writers \cup Tails \cup {None}
  <1>1. Outside \in [at : {"out", "copy", "schedule"}, line : 0 .. MaxLines, to : SUBSET Tails]
    BY FanoutAssumption DEF Outside
  <1> QED BY <1>1 DEF TypeOK, Returns

\* Subscribers are past their seed, so a copy of them names no early tail.
LEMMA CopiesSubsOrder ==
    ASSUME OrderInv, NEW w \in Writers, CopiesSubs(w)
    PROVE  OrderInv'
  <1> USE DEF OrderInv
  <1>1. /\ emit[w].at = "copy"
        /\ UNCHANGED <<log, subs, ready, queue, full, tail, seed, sent, there>>
    BY DEF CopiesSubs, queueVars, tailVars
  <1>2. lock = w /\ None \notin Writers
    BY <1>1, FanoutAssumption DEF LockInv
  <1>3. CASE Returns(w)
    <2>1. TypeOK'
      BY <1>1, <1>3, ReturnsType DEF TypeOK
    <2>2. lock' = None /\ emit' = [emit EXCEPT ![w] = Outside]
      BY <1>3 DEF Returns
    <2>3. LockInv'
      BY <1>1, <1>2, <2>2 DEF LockInv, Outside, TypeOK
    <2>4. \A n \in Nat : Settled(n, Len(log), lock) => Settled(n, Len(log'), lock')
      BY <1>1, <2>2 DEF Settled
    <2>5. ReadyInv' /\ QueueInv' /\ SentInv'
      BY <1>1, <2>2 DEF ReadyInv, QueueInv, SentInv, Settled
    <2>6. EarlyInv'
      BY <1>1, <2>2 DEF EarlyInv, Outside, TypeOK
    <2>7. SeedInv'
      BY <1>1 DEF SeedInv
    <2> QED BY <2>1, <2>3, <2>5, <2>6, <2>7
  <1>4. CASE ~Returns(w)
    <2>1. /\ emit' = [emit EXCEPT ![w] = [at |-> "schedule", line |-> emit[w].line, to |-> subs]]
          /\ UNCHANGED <<lock, loop>>
      BY <1>4 DEF CopiesSubs
    <2>2. TypeOK'
      BY <1>1, <2>1 DEF TypeOK
    <2>3. LockInv'
      BY <1>1, <2>1 DEF LockInv, TypeOK
    <2>4. ReadyInv' /\ QueueInv' /\ SentInv' /\ SeedInv'
      BY <1>1, <2>1 DEF ReadyInv, QueueInv, SentInv, SeedInv, Settled
    <2>5. EarlyInv'
      BY <1>1, <2>1 DEF EarlyInv, TypeOK
    <2> QED BY <2>2, <2>3, <2>4, <2>5
  <1> QED BY <1>3, <1>4

\* The line that is scheduled is younger than everything under way.
LEMMA SchedulesOrder ==
    ASSUME OrderInv, NEW w \in Writers, Schedules(w)
    PROVE  OrderInv'
  <1> USE DEF OrderInv
  <1>0. emit[w].line \in Nat /\ emit[w].to \in SUBSET Tails
    BY FanoutAssumption DEF TypeOK
  <1>1. PICK item : /\ emit[w].at = "schedule"
        /\ item = [line |-> emit[w].line, to |-> emit[w].to]
        /\ ready' = Append(ready, item)
        /\ Returns(w)
        /\ UNCHANGED <<log, subs, queue, full, tail, seed, sent, there>>
    BY DEF Schedules, queueVars, tailVars
  <1>2. /\ lock = w /\ None \notin Writers
        /\ item.line = Len(log) /\ Len(log) >= 1
    BY <1>1, FanoutAssumption DEF LockInv
  <1>3. lock' = None /\ emit' = [emit EXCEPT ![w] = Outside]
    BY <1>1 DEF Returns
  <1>4. item \in Callbacks
    <2>1. Len(log) \in Lines
      BY <1>2, FanoutAssumption DEF TypeOK, Lines
    <2> QED BY <1>0, <1>1, <1>2, <2>1 DEF Callbacks
  <1>5. item.to = emit[w].to
    BY <1>1
  <1>6. /\ ready' \in Seq(Callbacks)
        /\ Len(ready') = Len(ready) + 1
        /\ \A k \in 1 .. Len(ready) : ready'[k] = ready[k]
        /\ ready'[Len(ready) + 1] = item
    BY <1>1, <1>4, AppendFacts DEF TypeOK
  <1>7. TypeOK'
    BY <1>1, <1>6, ReturnsType DEF TypeOK
  <1>8. LockInv'
    BY <1>1, <1>2, <1>3 DEF LockInv, Outside, TypeOK
  <1>9. Len(ready) \in Nat
    BY LinesAreNumbers
  \* What was settled while w was inside is older than w's line.
  <1>10. \A n \in Nat : Settled(n, Len(log), lock) => Settled(n, Len(log'), lock') /\ n < item.line
    BY <1>1, <1>2, <1>3, FanoutAssumption DEF Settled
  <1>11. /\ \A k \in 1 .. Len(ready) : ready[k].line \in Nat
         /\ \A t \in Tails : /\ \A i \in 1 .. Len(queue[t]) : queue[t][i] \in Nat
                             /\ \A i \in 1 .. Len(sent[t]) : sent[t][i] \in Nat
    BY LinesAreNumbers
  <1>12. \A k \in 1 .. Len(ready') : k \in 1 .. Len(ready) \/ ready'[k] = item
    BY <1>6, <1>9
  <1>13. Settled(item.line, Len(log'), lock')
    BY <1>1, <1>2, <1>3 DEF Settled, TypeOK
  <1>14. ReadyInv'
    <2>1. ASSUME NEW i \in 1 .. Len(ready'), NEW j \in 1 .. Len(ready'), i < j
          PROVE  ready'[i].line < ready'[j].line
      <3>1. i \in 1 .. Len(ready)
        BY <1>6, <1>9, <2>1
      <3> QED BY <1>6, <1>10, <1>11, <1>12, <2>1, <3>1 DEF ReadyInv
    <2>2. ASSUME NEW i \in 1 .. Len(ready') PROVE Settled(ready'[i].line, Len(log'), lock')
      BY <1>6, <1>10, <1>11, <1>12, <1>13 DEF ReadyInv
    <2> QED BY <2>1, <2>2 DEF ReadyInv
  <1>15. QueueInv'
    BY <1>1, <1>6, <1>10, <1>11, <1>12 DEF QueueInv
  <1>16. SentInv'
    BY <1>1, <1>6, <1>10, <1>11, <1>12 DEF SentInv
  <1>17. EarlyInv'
    BY <1>1, <1>3, <1>5, <1>6, <1>12 DEF EarlyInv, Outside, TypeOK
  <1>18. SeedInv'
    BY <1>1, <1>2, <1>6, <1>12 DEF SeedInv
  <1> QED BY <1>7, <1>8, <1>14, <1>15, <1>16, <1>17, <1>18

-----------------------------------------------------------------------------
(* The event loop and the tails *)

\* The oldest callback's line goes behind what the queues hold.
LEMMA PushesOrder ==
    ASSUME OrderInv, Pushes
    PROVE  OrderInv'
  <1> USE DEF OrderInv
  <1>1. PICK item :
        /\ ready # <<>>
        /\ item = Head(ready)
        /\ ready' = Tail(ready)
        /\ queue' = [t \in Tails |-> IF t \in item.to /\ Room(t)
                                     THEN Append(queue[t], item.line) ELSE queue[t]]
        /\ full' = [t \in Tails |-> full[t] \/ (t \in item.to /\ ~Room(t))]
        /\ UNCHANGED <<log, lock, emit, loop, subs, tail, seed, sent, there>>
    BY DEF Pushes, writerVars, tailVars
  <1>2. /\ item \in Callbacks /\ item = ready[1]
        /\ Len(ready) \in Nat \ {0}
        /\ ready' \in Seq(Callbacks)
        /\ Len(ready') = Len(ready) - 1
        /\ \A k \in 1 .. Len(ready') : k + 1 \in 1 .. Len(ready) /\ ready'[k] = ready[k + 1]
    BY <1>1, TailFacts DEF TypeOK
  <1>3. item.line \in Lines
    BY <1>2 DEF Callbacks
  \* A queue is what it was, or has the item's line at its end.
  <1>4. ASSUME NEW t \in Tails
        PROVE  /\ Len(queue[t]) \in Nat
               /\ queue'[t] \in Seq(Lines) /\ Len(queue'[t]) <= QueueMax
               /\ \/ queue'[t] = queue[t]
                  \/ /\ t \in item.to
                     /\ Len(queue'[t]) = Len(queue[t]) + 1
                     /\ \A i \in 1 .. Len(queue[t]) : queue'[t][i] = queue[t][i]
                     /\ queue'[t][Len(queue[t]) + 1] = item.line
    <2>1. queue[t] \in Seq(Lines) /\ Len(queue[t]) <= QueueMax /\ QueueMax \in Nat
      BY FanoutAssumption DEF TypeOK
    <2>2. CASE t \in item.to /\ Room(t)
      <3>1. queue'[t] = Append(queue[t], item.line)
        BY <1>1, <2>2
      <3> QED BY <1>3, <2>1, <2>2, <3>1, AppendFacts DEF Room
    <2>3. CASE ~(t \in item.to /\ Room(t))
      BY <1>1, <2>1, <2>3
    <2> QED BY <2>2, <2>3
  <1>5. TypeOK'
    <2>1. queue' \in [Tails -> Seq(Lines)] /\ \A t \in Tails : Len(queue'[t]) <= QueueMax
      BY <1>1, <1>4
    <2>2. full' \in [Tails -> BOOLEAN]
      BY <1>1
    <2> QED BY <1>1, <1>2, <2>1, <2>2 DEF TypeOK
  <1>6. LockInv'
    BY <1>1 DEF LockInv
  <1>7. \A n \in Nat : Settled(n, Len(log'), lock') <=> Settled(n, Len(log), lock)
    BY <1>1 DEF Settled
  <1>8. /\ \A k \in 1 .. Len(ready) : ready[k].line \in Nat
        /\ \A t \in Tails : /\ \A i \in 1 .. Len(queue[t]) : queue[t][i] \in Nat
                            /\ \A i \in 1 .. Len(sent[t]) : sent[t][i] \in Nat
                            /\ seed[t] \in Nat
    BY LinesAreNumbers
  \* The item is settled, and older than every callback that is left.
  <1>9. /\ Settled(item.line, Len(log), lock)
        /\ \A k \in 1 .. Len(ready') : item.line < ready'[k].line
        /\ \A t \in Tails : \A i \in 1 .. Len(queue[t]) : queue[t][i] < item.line
        /\ \A t \in Tails : \A i \in 1 .. Len(sent[t]) : sent[t][i] < item.line
        /\ \A t \in Tails : t \in item.to => item.line >= seed[t]
    <2>1. 1 \in 1 .. Len(ready)
      BY <1>2
    <2>2. \A k \in 1 .. Len(ready') : 1 < k + 1
      OBVIOUS
    <2> QED BY <1>2, <2>1, <2>2 DEF ReadyInv, QueueInv, SentInv, SeedInv
  <1>10. ReadyInv'
    <2>1. ASSUME NEW i \in 1 .. Len(ready'), NEW j \in 1 .. Len(ready'), i < j
          PROVE  ready'[i].line < ready'[j].line
      <3>1. i + 1 < j + 1
        BY <2>1
      <3> QED BY <1>2, <3>1 DEF ReadyInv
    <2>2. ASSUME NEW i \in 1 .. Len(ready') PROVE Settled(ready'[i].line, Len(log'), lock')
      BY <1>2, <1>7, <1>8 DEF ReadyInv
    <2> QED BY <2>1, <2>2 DEF ReadyInv
  <1>11. ASSUME NEW t \in Tails, NEW i \in 1 .. Len(queue'[t])
         PROVE  \/ i \in 1 .. Len(queue[t]) /\ queue'[t][i] = queue[t][i]
                \/ t \in item.to /\ i = Len(queue[t]) + 1 /\ queue'[t][i] = item.line
    BY <1>4
  <1>12. QueueInv'
    <2> SUFFICES ASSUME NEW t \in Tails
                 PROVE  /\ \A i, j \in 1 .. Len(queue'[t]) : i < j => queue'[t][i] < queue'[t][j]
                        /\ \A i \in 1 .. Len(queue'[t]) :
                              /\ Settled(queue'[t][i], Len(log'), lock')
                              /\ \A k \in 1 .. Len(ready') : queue'[t][i] < ready'[k].line
      BY DEF QueueInv
    <2>1. ASSUME NEW i \in 1 .. Len(queue'[t]), NEW j \in 1 .. Len(queue'[t]), i < j
          PROVE  queue'[t][i] < queue'[t][j]
      BY <1>4, <1>9, <1>11, <2>1 DEF QueueInv
    <2>2. ASSUME NEW i \in 1 .. Len(queue'[t])
          PROVE  /\ Settled(queue'[t][i], Len(log'), lock')
                 /\ \A k \in 1 .. Len(ready') : queue'[t][i] < ready'[k].line
      BY <1>2, <1>3, <1>7, <1>8, <1>9, <1>11, LinesAreNumbers DEF QueueInv
    <2> QED BY <2>1, <2>2
  <1>13. SentInv'
    BY <1>1, <1>2, <1>7, <1>8, <1>9, <1>11 DEF SentInv
  <1>14. EarlyInv'
    BY <1>1, <1>2, <1>4 DEF EarlyInv
  <1>15. SeedInv'
    BY <1>1, <1>2, <1>9, <1>11 DEF SeedInv
  <1> QED BY <1>5, <1>6, <1>10, <1>12, <1>13, <1>14, <1>15

\* A step that changes where a tail is, and whether it is subscribed, keeps all
\* that is on its way in order.
LEMMA StageOrder ==
    ASSUME OrderInv, TypeOK',
           UNCHANGED <<log, lock, emit, ready, queue, seed, sent>>,
           \A t \in Tails : tail'[t] \in {"new", "seeded"} =>
               tail[t] \in {"new", "seeded"} /\ (t \in subs' => t \in subs)
    PROVE  OrderInv'
  <1>1. LockInv'
    BY DEF OrderInv, LockInv
  <1>2. ReadyInv' /\ QueueInv' /\ SentInv' /\ SeedInv'
    BY DEF OrderInv, ReadyInv, QueueInv, SentInv, SeedInv, Settled
  <1>3. EarlyInv'
    BY DEF OrderInv, EarlyInv
  <1> QED BY <1>1, <1>2, <1>3 DEF OrderInv

\* A tail takes its seed: it has nothing on its way, so the seed may be as
\* young as the log is.
LEMMA SeedsOrder ==
    ASSUME OrderInv, NEW t \in Tails, Seeds(t)
    PROVE  OrderInv'
  <1>1. /\ tail[t] = "new"
        /\ loop' = t
        /\ seed' = [seed EXCEPT ![t] = Len(log)]
        /\ tail' = [tail EXCEPT ![t] = "seeded"]
        /\ UNCHANGED <<log, lock, emit, subs, ready, queue, full, sent, there>>
    BY DEF Seeds, Moves, writerVars, queueVars
  <1>2. Len(log) \in 0 .. MaxLines
    BY FanoutAssumption DEF OrderInv, TypeOK
  <1>3. TypeOK'
    BY <1>1, <1>2 DEF OrderInv, TypeOK, Stages
  <1>4. LockInv' /\ ReadyInv' /\ QueueInv' /\ SentInv'
    BY <1>1 DEF OrderInv, LockInv, ReadyInv, QueueInv, SentInv, Settled
  <1>5. EarlyInv'
    BY <1>1 DEF OrderInv, EarlyInv, TypeOK
  <1>6. SeedInv'
    <2> SUFFICES ASSUME NEW u \in Tails
                 PROVE  /\ seed'[u] <= Len(log')
                        /\ \A i \in 1 .. Len(queue'[u]) : queue'[u][i] >= seed'[u]
                        /\ \A k \in 1 .. Len(ready') :
                              u \in ready'[k].to => ready'[k].line >= seed'[u]
      BY DEF SeedInv
    <2>1. CASE u = t
      <3>1. queue[t] = <<>> /\ \A k \in 1 .. Len(ready) : t \notin ready[k].to
        BY <1>1 DEF OrderInv, EarlyInv
      <3>2. seed'[u] = Len(log)
        BY <1>1, <2>1 DEF OrderInv, TypeOK
      <3> QED BY <1>1, <1>2, <2>1, <3>1, <3>2
    <2>2. CASE u # t
      <3>1. seed'[u] = seed[u]
        BY <1>1, <2>2 DEF OrderInv, TypeOK
      <3> QED BY <1>1, <3>1 DEF OrderInv, SeedInv
    <2> QED BY <2>1, <2>2
  <1> QED BY <1>3, <1>4, <1>5, <1>6 DEF OrderInv

\* The head of the queue goes behind what was sent.
LEMMA GetsOrder ==
    ASSUME OrderInv, NEW t \in Tails, Gets(t)
    PROVE  OrderInv'
  <1>1. PICK line :
        /\ tail[t] = "waiting"
        /\ queue[t] # <<>>
        /\ line = Head(queue[t])
        /\ sent' = [sent EXCEPT ![t] = Append(sent[t], line)]
        /\ queue' = [queue EXCEPT ![t] = Tail(queue[t])]
        /\ tail' = [tail EXCEPT ![t] = "sending"]
        /\ UNCHANGED <<log, lock, emit, loop, subs, ready, full, seed, there>>
    BY DEF Gets, Moves, writerVars
  <1>2. queue[t] \in Seq(Lines) /\ sent[t] \in Seq(Lines) /\ Len(queue[t]) <= QueueMax
    BY DEF OrderInv, TypeOK
  <1>3. /\ line \in Lines /\ line = queue[t][1]
        /\ Len(queue[t]) \in Nat \ {0}
        /\ Tail(queue[t]) \in Seq(Lines)
        /\ Len(Tail(queue[t])) = Len(queue[t]) - 1
        /\ \A i \in 1 .. Len(queue[t]) - 1 : Tail(queue[t])[i] = queue[t][i + 1]
    BY <1>1, <1>2, TailFacts
  <1>4. /\ Append(sent[t], line) \in Seq(Lines)
        /\ Len(Append(sent[t], line)) = Len(sent[t]) + 1
        /\ Len(sent[t]) \in Nat
        /\ \A i \in 1 .. Len(sent[t]) : Append(sent[t], line)[i] = sent[t][i]
        /\ Append(sent[t], line)[Len(sent[t]) + 1] = line
    BY <1>2, <1>3, AppendFacts
  <1>5. /\ sent'[t] = Append(sent[t], line)
        /\ queue'[t] = Tail(queue[t])
        /\ \A u \in Tails : u # t => sent'[u] = sent[u] /\ queue'[u] = queue[u]
    BY <1>1 DEF OrderInv, TypeOK
  \* What is left of a queue was in it, one place further on.
  <1>6. ASSUME NEW i \in 1 .. Len(queue'[t])
        PROVE  i + 1 \in 1 .. Len(queue[t]) /\ queue'[t][i] = queue[t][i + 1]
    BY <1>3, <1>5
  <1>7. ASSUME NEW i \in 1 .. Len(sent'[t])
        PROVE  \/ i \in 1 .. Len(sent[t]) /\ sent'[t][i] = sent[t][i]
               \/ sent'[t][i] = line
    <2>1. i \in 1 .. Len(sent[t]) \/ i = Len(sent[t]) + 1
      BY <1>4, <1>5
    <2> QED BY <1>4, <1>5, <2>1
  <1>8. TypeOK'
    <2>1. Len(queue'[t]) <= QueueMax
      BY <1>2, <1>3, <1>5, FanoutAssumption
    <2>2. \A u \in Tails : Len(queue'[u]) <= QueueMax
      BY <1>5, <2>1 DEF OrderInv, TypeOK
    <2>3. queue' \in [Tails -> Seq(Lines)] /\ sent' \in [Tails -> Seq(Lines)]
      BY <1>1, <1>3, <1>4 DEF OrderInv, TypeOK
    <2> QED BY <1>1, <2>2, <2>3 DEF OrderInv, TypeOK, Stages
  <1>9. LockInv' /\ ReadyInv'
    BY <1>1 DEF OrderInv, LockInv, ReadyInv, Settled
  <1>10. \A n \in Nat : Settled(n, Len(log'), lock') <=> Settled(n, Len(log), lock)
    BY <1>1 DEF Settled
  <1>11. /\ \A u \in Tails : /\ \A i \in 1 .. Len(queue[u]) : queue[u][i] \in Nat
                             /\ \A i \in 1 .. Len(sent[u]) : sent[u][i] \in Nat
         /\ 1 \in 1 .. Len(queue[t])
    BY <1>3, LinesAreNumbers DEF OrderInv
  <1>12. QueueInv'
    <2> SUFFICES ASSUME NEW u \in Tails
                 PROVE  /\ \A i, j \in 1 .. Len(queue'[u]) : i < j => queue'[u][i] < queue'[u][j]
                        /\ \A i \in 1 .. Len(queue'[u]) :
                              /\ Settled(queue'[u][i], Len(log'), lock')
                              /\ \A k \in 1 .. Len(ready') : queue'[u][i] < ready'[k].line
      BY DEF QueueInv
    <2>1. CASE u = t
      <3>1. ASSUME NEW i \in 1 .. Len(queue'[t]), NEW j \in 1 .. Len(queue'[t]), i < j
            PROVE  queue'[t][i] < queue'[t][j]
        <4>1. i + 1 < j + 1
          BY <3>1
        <4> QED BY <1>6, <4>1 DEF OrderInv, QueueInv
      <3>2. ASSUME NEW i \in 1 .. Len(queue'[t])
            PROVE  /\ Settled(queue'[t][i], Len(log'), lock')
                   /\ \A k \in 1 .. Len(ready') : queue'[t][i] < ready'[k].line
        BY <1>1, <1>6, <1>10, <1>11 DEF OrderInv, QueueInv
      <3> QED BY <2>1, <3>1, <3>2
    <2>2. CASE u # t
      BY <1>1, <1>5, <1>10, <1>11, <2>2 DEF OrderInv, QueueInv
    <2> QED BY <2>1, <2>2
  <1>13. SentInv'
    <2> SUFFICES ASSUME NEW u \in Tails, NEW i \in 1 .. Len(sent'[u])
                 PROVE  /\ Settled(sent'[u][i], Len(log'), lock')
                        /\ \A k \in 1 .. Len(queue'[u]) : sent'[u][i] < queue'[u][k]
                        /\ \A k \in 1 .. Len(ready') : sent'[u][i] < ready'[k].line
      BY DEF SentInv
    <2>1. CASE u # t
      BY <1>1, <1>5, <1>10, <1>11, <2>1 DEF OrderInv, SentInv
    <2>2. CASE u = t /\ i \in 1 .. Len(sent[t]) /\ sent'[t][i] = sent[t][i]
      BY <1>1, <1>6, <1>10, <1>11, <2>2 DEF OrderInv, SentInv
    <2>3. CASE u = t /\ sent'[t][i] = line
      <3>1. \A k \in 1 .. Len(queue'[t]) : 1 < k + 1
        OBVIOUS
      <3>2. \A k \in 1 .. Len(queue'[t]) : line < queue'[t][k]
        BY <1>3, <1>6, <1>11, <3>1 DEF OrderInv, QueueInv
      <3>3. /\ Settled(line, Len(log), lock)
            /\ \A k \in 1 .. Len(ready) : line < ready[k].line
        BY <1>3, <1>11 DEF OrderInv, QueueInv
      <3>4. line \in Nat
        BY <1>3, <1>11
      <3> QED BY <1>1, <1>10, <2>3, <3>2, <3>3, <3>4
    <2> QED BY <1>7, <2>1, <2>2, <2>3
  <1>14. EarlyInv'
    BY <1>1 DEF OrderInv, EarlyInv, TypeOK
  <1>15. SeedInv'
    BY <1>1, <1>5, <1>6 DEF OrderInv, SeedInv
  <1> QED BY <1>8, <1>9, <1>12, <1>13, <1>14, <1>15 DEF OrderInv

\* Every step of a tail keeps the order.
LEMMA TailStepOrder ==
    ASSUME OrderInv, NEW t \in Tails, TailStep(t)
    PROVE  OrderInv'
  <1>1. CASE Seeds(t)
    BY <1>1, SeedsOrder
  <1>2. CASE Gets(t)
    BY <1>2, GetsOrder
  <1>3. CASE Subscribes(t) \/ Ends(t)
    <2>1. /\ tail[t] \in Stages
          /\ \E stage \in {"open", "over"} : tail' = [tail EXCEPT ![t] = stage]
          /\ subs' \in SUBSET Tails
          /\ \A u \in Tails : u # t => (u \in subs' => u \in subs)
          /\ UNCHANGED <<log, lock, emit, ready, queue, full, seed, sent, there>>
          /\ loop' \in {loop, None}
      BY <1>3 DEF Subscribes, Ends, Moves, OrderInv, TypeOK, writerVars, queueVars
    <2>2. TypeOK'
      BY <2>1 DEF OrderInv, TypeOK, Stages
    <2>3. \A u \in Tails : tail'[u] \in {"new", "seeded"} =>
              tail[u] \in {"new", "seeded"} /\ (u \in subs' => u \in subs)
      BY <2>1 DEF OrderInv, TypeOK
    <2> QED BY <2>1, <2>2, <2>3, StageOrder
  <1>4. CASE Runs(t) \/ NeverRuns(t) \/ Taken(t) \/ KeepsAlive(t)
    <2>1. /\ \E stage \in {"sending", "waiting", "lost"} : tail' = [tail EXCEPT ![t] = stage]
          /\ UNCHANGED <<log, lock, emit, loop, subs, ready, queue, full, seed, sent, there>>
      BY <1>4 DEF Runs, NeverRuns, Taken, KeepsAlive, Moves, writerVars, queueVars
    <2>2. TypeOK'
      BY <2>1 DEF OrderInv, TypeOK, Stages
    <2>3. \A u \in Tails : tail'[u] \in {"new", "seeded"} =>
              tail[u] \in {"new", "seeded"} /\ (u \in subs' => u \in subs)
      BY <2>1 DEF OrderInv, TypeOK
    <2> QED BY <2>1, <2>2, <2>3, StageOrder
  <1>5. CASE Leaves(t)
    <2>1. /\ there' = [there EXCEPT ![t] = FALSE]
          /\ UNCHANGED <<log, lock, emit, loop, subs, ready, queue, full, tail, seed, sent>>
      BY <1>5 DEF Leaves, writerVars, queueVars
    <2>2. TypeOK'
      BY <2>1 DEF OrderInv, TypeOK
    <2> QED BY <2>1, <2>2, StageOrder
  <1> QED BY <1>1, <1>2, <1>3, <1>4, <1>5 DEF TailStep

\* The invariant is inductive.
LEMMA StepOrder ==
    ASSUME OrderInv, [Next]_vars
    PROVE  OrderInv'
  <1>1. CASE \E w \in Writers : WriterStep(w)
    BY <1>1, AppendsOrder, CopiesSubsOrder, SchedulesOrder DEF WriterStep
  <1>2. CASE Pushes
    BY <1>2, PushesOrder
  <1>3. CASE \E t \in Tails : TailStep(t)
    BY <1>3, TailStepOrder
  <1>4. CASE UNCHANGED vars
    <2>1. UNCHANGED <<log, lock, emit, loop, subs, ready, queue, full, tail, seed, sent, there>>
      BY <1>4 DEF vars, writerVars, queueVars, tailVars
    <2>2. TypeOK'
      BY <2>1 DEF OrderInv, TypeOK
    <2> QED BY <2>1, <2>2, StageOrder
  <1> QED BY <1>1, <1>2, <1>3, <1>4 DEF Next

\* In every reachable state, lines are settled, queued and sent in order.
THEOREM FanoutOrder == Spec => []OrderInv
  <1>1. Init => OrderInv
    BY InitOrder
  <1>2. OrderInv /\ [Next]_vars => OrderInv'
    BY StepOrder
  <1> QED BY <1>1, <1>2, PTL DEF Spec

\* The types hold, the queues' size among them (AsyncFanout's maxsize).
THEOREM FanoutTypeCorrect == Spec => []TypeOK
  <1>1. OrderInv => TypeOK
    BY DEF OrderInv
  <1> QED BY <1>1, FanoutOrder, PTL

-----------------------------------------------------------------------------
(* LogTail *)

\* At the start the tail of the abstract specification is at its start too.
LEMMA InitTailing == Init => Tailing!Init
  BY DEF Init, Tailing!Init

\* A step that neither writes, nor takes a seed, nor sends, is a stutter.
LEMMA StepTailing ==
    ASSUME OrderInv, [Next]_vars
    PROVE  [Tailing!Next]_(Tailing!tailVars)
  <1>1. ASSUME NEW w \in Writers, Appends(w)
        PROVE  Tailing!Logs(w)
    BY <1>1 DEF Appends, Tailing!Logs, tailVars
  <1>2. ASSUME NEW t \in Tails, Seeds(t)
        PROVE  Tailing!Opens(t)
    <2>1. /\ tail[t] = "new"
          /\ seed' = [seed EXCEPT ![t] = Len(log)]
          /\ tail' = [tail EXCEPT ![t] = "seeded"]
          /\ UNCHANGED <<log, sent>>
      BY <1>2 DEF Seeds, Moves, writerVars
    <2>2. [u \in Tails |-> tail'[u] # "new"]
              = [[u \in Tails |-> tail[u] # "new"] EXCEPT ![t] = TRUE]
      BY <2>1 DEF OrderInv, TypeOK
    <2> QED BY <2>1, <2>2 DEF Tailing!Opens
  <1>3. ASSUME NEW t \in Tails, Gets(t)
        PROVE  Tailing!Shows(t)
    <2>1. PICK line :
          /\ tail[t] = "waiting"
          /\ queue[t] # <<>>
          /\ line = Head(queue[t])
          /\ sent' = [sent EXCEPT ![t] = Append(sent[t], line)]
          /\ tail' = [tail EXCEPT ![t] = "sending"]
          /\ UNCHANGED <<log, seed>>
      BY <1>3 DEF Gets, Moves, writerVars
    <2>2. line \in Lines /\ line = queue[t][1] /\ 1 \in 1 .. Len(queue[t])
      BY <2>1, TailFacts DEF OrderInv, TypeOK
    <2>3. line \in 1 .. Len(log)
      BY <2>2, LinesAreNumbers, FanoutAssumption DEF OrderInv, QueueInv, Settled, Lines
    <2>4. line >= seed[t]
      BY <2>2 DEF OrderInv, SeedInv
    <2>5. \A i \in 1 .. Len(sent[t]) : sent[t][i] < line
      BY <2>2 DEF OrderInv, SentInv
    <2>6. [u \in Tails |-> tail'[u] # "new"] = [u \in Tails |-> tail[u] # "new"]
      BY <2>1 DEF OrderInv, TypeOK
    <2>7. [u \in Tails |-> tail[u] # "new"][t]
      BY <2>1
    <2> QED BY <2>1, <2>3, <2>4, <2>5, <2>6, <2>7 DEF Tailing!Shows
  <1>4. ASSUME UNCHANGED <<log, seed, sent>>,
               \A t \in Tails : tail'[t] = "new" <=> tail[t] = "new"
        PROVE  UNCHANGED Tailing!tailVars
    BY <1>4 DEF Tailing!tailVars
  <1>5. CASE \E w \in Writers : CopiesSubs(w) \/ Schedules(w)
    BY <1>4, <1>5 DEF CopiesSubs, Schedules, tailVars
  <1>6. CASE Pushes \/ UNCHANGED vars
    BY <1>4, <1>6 DEF Pushes, vars, writerVars, tailVars
  <1>7. ASSUME NEW t \in Tails,
               Subscribes(t) \/ Runs(t) \/ NeverRuns(t) \/ Taken(t) \/ KeepsAlive(t)
                   \/ Ends(t) \/ Leaves(t)
        PROVE  UNCHANGED Tailing!tailVars
    <2>1. /\ UNCHANGED <<log, seed, sent>>
          /\ \/ UNCHANGED tail
             \/ /\ tail[t] # "new"
                /\ \E stage \in Stages \ {"new"} : tail' = [tail EXCEPT ![t] = stage]
      BY <1>7 DEF Subscribes, Runs, NeverRuns, Taken, KeepsAlive, Ends, Leaves, Moves,
                  Stages, writerVars
    <2>2. \A u \in Tails : tail'[u] = "new" <=> tail[u] = "new"
      BY <2>1 DEF OrderInv, TypeOK
    <2> QED BY <1>4, <2>1, <2>2
  <1> QED BY <1>1, <1>2, <1>3, <1>5, <1>6, <1>7
          DEF Next, WriterStep, TailStep, Tailing!Next

\* The fan-out implements LogTail: whatever the threads, the loop, full queues
\* and slow clients do, a tail shows lines of the log in order, each at most
\* once, none older than its seed's last line.
THEOREM FanoutImplementsTail == Spec => ImplementsTail
  <1>1. Init => Tailing!Init
    BY InitTailing
  <1>2. OrderInv /\ [Next]_vars => [Tailing!Next]_(Tailing!tailVars)
    BY StepTailing
  <1> QED BY <1>1, <1>2, FanoutOrder, PTL DEF Spec, Tailing!Spec, ImplementsTail

-----------------------------------------------------------------------------
(* Deliveries: the invariant on top of OrderInv *)

\* What was sent is in order.
RisingInv == \A t \in Tails : Rising(sent[t])

\* A writer has copied the subscribers only when it is about to schedule; the
\* last line is its own; one that runs on the loop holds the loop meanwhile.
HandInv ==
    \A w \in Writers :
        /\ emit[w].at # "schedule" => emit[w].to = {}
        /\ emit[w].at # "out" => log[Len(log)] = w
        /\ emit[w].at # "out" /\ w \in LoopWriters => loop = w

\* From its seed to its subscription a tail holds the loop, so the loop writes
\* nothing in between.
GapInv ==
    \A t \in Tails : tail[t] = "seeded" =>
        /\ loop = t
        /\ \A n \in seed[t] + 1 .. Len(log) : log[n] \notin LoopWriters

\* A line that a writer on the loop has in hand is younger than every seed.
FreshInv ==
    \A t \in Tails : \A w \in LoopWriters :
        tail[t] # "new" /\ emit[w].at # "out" => seed[t] < Len(log)

SeamInv ==
    RisingInv /\ HandInv /\ GapInv /\ FreshInv /\ NoHole /\ SeamKeepsLoopLines

-----------------------------------------------------------------------------
(* What is on its way *)

\* Appending adds a value.
LEMMA AppendValues ==
    ASSUME NEW S, NEW s \in Seq(S), NEW e \in S
    PROVE  {Append(s, e)[i] : i \in 1 .. Len(Append(s, e))}
               = {s[i] : i \in 1 .. Len(s)} \cup {e}
  <1>1. Len(s) \in Nat
    OBVIOUS
  <1>2. 1 .. Len(Append(s, e)) = (1 .. Len(s)) \cup {Len(s) + 1}
    BY <1>1, AppendFacts
  <1>3. \A i \in 1 .. Len(s) : Append(s, e)[i] = s[i]
    BY AppendFacts
  <1>4. Append(s, e)[Len(s) + 1] = e
    BY AppendFacts
  <1> QED BY <1>2, <1>3, <1>4

\* Taking the head away takes its value away, and at most that one.
LEMMA TailValues ==
    ASSUME NEW S, NEW s \in Seq(S), s # <<>>
    PROVE  {s[i] : i \in 1 .. Len(s)}
               = {Head(s)} \cup {Tail(s)[i] : i \in 1 .. Len(Tail(s))}
  <1>1. /\ Len(s) \in Nat \ {0} /\ Head(s) = s[1] /\ Len(Tail(s)) = Len(s) - 1
        /\ \A i \in 1 .. Len(s) - 1 : Tail(s)[i] = s[i + 1]
    BY TailFacts
  <1>2. ASSUME NEW i \in 1 .. Len(s)
        PROVE  s[i] \in {Head(s)} \cup {Tail(s)[j] : j \in 1 .. Len(Tail(s))}
    <2>1. CASE i = 1
      BY <1>1, <2>1
    <2>2. CASE i # 1
      <3>1. i - 1 \in 1 .. Len(s) - 1 /\ (i - 1) + 1 = i
        BY <1>1, <2>2
      <3>2. Tail(s)[i - 1] = s[i]
        BY <1>1, <3>1
      <3> QED BY <1>1, <3>1, <3>2
    <2> QED BY <2>1, <2>2
  <1>3. ASSUME NEW i \in 1 .. Len(Tail(s))
        PROVE  Tail(s)[i] \in {s[j] : j \in 1 .. Len(s)}
    <2>1. i \in 1 .. Len(s) - 1 /\ i + 1 \in 1 .. Len(s)
      BY <1>1
    <2> QED BY <1>1, <2>1
  <1>4. Head(s) \in {s[j] : j \in 1 .. Len(s)}
    <2>1. 1 \in 1 .. Len(s)
      BY <1>1
    <2> QED BY <1>1, <2>1
  <1> QED BY <1>2, <1>3, <1>4

\* The lines of the callbacks of q that are for t.
LinesFor(q, t) == {q[k].line : k \in {k \in 1 .. Len(q) : t \in q[k].to}}

\* A callback more: its line more, for the tails it is for.
LEMMA AppendLines ==
    ASSUME NEW q \in Seq(Callbacks), NEW item \in Callbacks, NEW t
    PROVE  LinesFor(Append(q, item), t)
               = LinesFor(q, t) \cup (IF t \in item.to THEN {item.line} ELSE {})
  <1>1. Len(q) \in Nat
    OBVIOUS
  <1>2. 1 .. Len(Append(q, item)) = (1 .. Len(q)) \cup {Len(q) + 1}
    BY <1>1, AppendFacts
  <1>3. \A k \in 1 .. Len(q) : Append(q, item)[k] = q[k]
    BY AppendFacts
  <1>4. Append(q, item)[Len(q) + 1] = item
    BY AppendFacts
  <1> QED BY <1>2, <1>3, <1>4 DEF LinesFor

\* The first callback less.
LEMMA TailLines ==
    ASSUME NEW q \in Seq(Callbacks), q # <<>>, NEW t
    PROVE  LinesFor(q, t)
               = LinesFor(Tail(q), t) \cup (IF t \in Head(q).to THEN {Head(q).line} ELSE {})
  <1>1. /\ Len(q) \in Nat \ {0} /\ Head(q) = q[1] /\ Len(Tail(q)) = Len(q) - 1
        /\ \A k \in 1 .. Len(q) - 1 : Tail(q)[k] = q[k + 1]
    BY TailFacts
  <1>2. ASSUME NEW k \in 1 .. Len(q), t \in q[k].to
        PROVE  q[k].line \in LinesFor(Tail(q), t)
                   \cup (IF t \in Head(q).to THEN {Head(q).line} ELSE {})
    <2>1. CASE k = 1
      BY <1>1, <1>2, <2>1
    <2>2. CASE k # 1
      <3>1. k - 1 \in 1 .. Len(Tail(q)) /\ (k - 1) + 1 = k
        BY <1>1, <2>2
      <3>2. Tail(q)[k - 1] = q[k]
        BY <1>1, <3>1
      <3> QED BY <1>2, <3>1, <3>2 DEF LinesFor
    <2> QED BY <2>1, <2>2
  <1>3. ASSUME NEW k \in 1 .. Len(Tail(q)), t \in Tail(q)[k].to
        PROVE  Tail(q)[k].line \in LinesFor(q, t)
    <2>1. k + 1 \in 1 .. Len(q) /\ Tail(q)[k] = q[k + 1]
      BY <1>1
    <2> QED BY <1>3, <2>1 DEF LinesFor
  <1>4. t \in Head(q).to => Head(q).line \in LinesFor(q, t)
    <2>1. 1 \in 1 .. Len(q)
      BY <1>1
    <2> QED BY <1>1, <2>1 DEF LinesFor
  <1> QED BY <1>2, <1>3, <1>4 DEF LinesFor

-----------------------------------------------------------------------------
(* The order *)

\* What is in a writer's hand is the last line, and the writer has the lock.
LEMMA HandIsLast ==
    ASSUME OrderInv, HandInv, NEW t \in Tails, NEW n \in InHand(t)
    PROVE  n = Len(log) /\ lock # None
  <1>1. PICK w \in Writers : t \in emit[w].to /\ n = emit[w].line
    BY DEF InHand
  <1>2. emit[w].at = "schedule"
    BY <1>1 DEF HandInv
  <1> QED BY <1>1, <1>2, FanoutAssumption DEF OrderInv, LockInv

\* What was sent is older than what is queued, that than what is scheduled,
\* and that than what a writer has in hand.
LEMMA OrderHolds ==
    ASSUME OrderInv, RisingInv, HandInv
    PROVE  InOrder
  <1> SUFFICES ASSUME NEW t \in Tails
               PROVE  /\ Rising(sent[t]) /\ Rising(queue[t])
                      /\ \A k, l \in 1 .. Len(ready) :
                            k < l /\ t \in ready[k].to \cap ready[l].to
                                => ready[k].line < ready[l].line
                      /\ \A m \in Sent(t) :
                            \A n \in Queued(t) \cup Scheduled(t) \cup InHand(t) : m < n
                      /\ \A m \in Queued(t) : \A n \in Scheduled(t) \cup InHand(t) : m < n
                      /\ \A m \in Scheduled(t) : \A n \in InHand(t) : m < n
    BY DEF InOrder
  <1>1. Rising(sent[t]) /\ Rising(queue[t])
    BY DEF OrderInv, RisingInv, QueueInv, Rising
  <1>2. \A k, l \in 1 .. Len(ready) : k < l => ready[k].line < ready[l].line
    BY DEF OrderInv, ReadyInv
  <1>3. ASSUME NEW m, NEW n \in InHand(t), Settled(m, Len(log), lock)
        PROVE  m < n
    BY <1>3, HandIsLast DEF Settled
  <1>4. ASSUME NEW m \in Sent(t), NEW n \in Queued(t) \cup Scheduled(t) \cup InHand(t)
        PROVE  m < n
    <2>1. PICK i \in 1 .. Len(sent[t]) : m = sent[t][i]
      BY DEF Sent
    <2>2. /\ Settled(m, Len(log), lock)
          /\ \A k \in 1 .. Len(queue[t]) : m < queue[t][k]
          /\ \A k \in 1 .. Len(ready) : m < ready[k].line
      BY <2>1 DEF OrderInv, SentInv
    <2> QED BY <1>3, <2>2 DEF Queued, Scheduled
  <1>5. ASSUME NEW m \in Queued(t), NEW n \in Scheduled(t) \cup InHand(t)
        PROVE  m < n
    <2>1. PICK i \in 1 .. Len(queue[t]) : m = queue[t][i]
      BY DEF Queued
    <2>2. /\ Settled(m, Len(log), lock)
          /\ \A k \in 1 .. Len(ready) : m < ready[k].line
      BY <2>1 DEF OrderInv, QueueInv
    <2> QED BY <1>3, <2>2 DEF Scheduled
  <1>6. ASSUME NEW m \in Scheduled(t), NEW n \in InHand(t)
        PROVE  m < n
    <2>1. PICK k \in 1 .. Len(ready) : m = ready[k].line
      BY DEF Scheduled
    <2>2. Settled(m, Len(log), lock)
      BY <2>1 DEF OrderInv, ReadyInv
    <2> QED BY <1>3, <2>2
  <1> QED BY <1>1, <1>2, <1>4, <1>5, <1>6

-----------------------------------------------------------------------------
(* The parts that one action, or none, disturbs *)

\* With one writer inside emit, what it is doing decides how far the
\* subscribers are known.
LEMMA ThroughFacts ==
    ASSUME OrderInv
    PROVE  /\ \A w \in Writers : emit[w].at = "copy" => Through = Len(log) - 1
           /\ \A w \in Writers : emit[w].at = "schedule" => Through = Len(log)
           /\ lock = None => Through = Len(log)
  <1>1. \A v, w \in Writers : emit[v].at # "out" /\ emit[w].at # "out" => v = w
    BY DEF OrderInv, LockInv
  <1>2. lock = None => \A w \in Writers : emit[w].at = "out"
    BY FanoutAssumption DEF OrderInv, LockInv
  <1> QED BY <1>1, <1>2 DEF Through

\* Nothing happens to the subscribers: what is true of their lines stays true.
LEMMA SameLive ==
    ASSUME NoHole, SeamKeepsLoopLines,
           Through' = Through,
           \A n \in 1 .. Through : log'[n] = log[n],
           \A t \in subs' : ~full'[t] =>
               t \in subs /\ ~full[t] /\ seed'[t] = seed[t] /\ Live(t)' = Live(t)
    PROVE  NoHole' /\ SeamKeepsLoopLines'
  <1>1. NoHole'
    BY DEF NoHole
  <1>2. SeamKeepsLoopLines'
    BY DEF SeamKeepsLoopLines
  <1> QED BY <1>1, <1>2

\* What is in whose hand: HandInv and FreshInv read no more than this.
LEMMA SameHands ==
    ASSUME HandInv, FreshInv,
           UNCHANGED <<log, emit, seed>>,
           \A w \in LoopWriters : loop = w => loop' = w,
           \A t \in Tails : tail'[t] # "new" => tail[t] # "new"
    PROVE  HandInv' /\ FreshInv'
  BY FanoutAssumption DEF HandInv, FreshInv

\* A tail between its seed and its subscription, while nothing is written.
LEMMA SameGap ==
    ASSUME GapInv,
           UNCHANGED <<log, loop, seed>>,
           \A t \in Tails : tail'[t] = "seeded" => tail[t] = "seeded"
    PROVE  GapInv'
  BY DEF GapInv

\* Nothing is sent.
LEMMA SameRising ==
    ASSUME RisingInv, UNCHANGED sent
    PROVE  RisingInv'
  BY DEF RisingInv

\* With the lock free nobody is inside emit, and nobody has a line in hand.
LEMMA NobodyInside ==
    ASSUME OrderInv, HandInv, lock = None
    PROVE  \A v \in Writers : emit[v].at = "out" /\ emit[v].to = {}
  <1>1. \A v \in Writers : emit[v].at = "out"
    BY FanoutAssumption DEF OrderInv, LockInv
  <1> QED BY <1>1 DEF HandInv

\* A writer inside emit is alone there, with the last line, which is its own.
LEMMA AloneInside ==
    ASSUME OrderInv, HandInv, NEW w \in Writers, emit[w].at # "out"
    PROVE  /\ lock = w /\ emit[w].line = Len(log) /\ Len(log) \in Nat \ {0}
           /\ log[Len(log)] = w
           /\ \A v \in Writers : v # w => emit[v].at = "out" /\ emit[v].to = {}
  <1>1. Len(log) \in Nat
    BY LinesAreNumbers DEF OrderInv
  <1>2. lock = w /\ emit[w].line = Len(log) /\ Len(log) >= 1
    BY DEF OrderInv, LockInv
  <1>3. \A v \in Writers : v # w => emit[v].at = "out"
    BY <1>2 DEF OrderInv, LockInv
  <1>4. \A v \in Writers : emit[v].at = "out" => emit[v].to = {}
    BY DEF HandInv
  <1>5. log[Len(log)] = w
    BY DEF HandInv
  <1> QED BY <1>1, <1>2, <1>3, <1>4, <1>5

-----------------------------------------------------------------------------
(* The writers *)

\* A line is appended that no subscriber is known of yet.  A writer on the loop
\* finds no tail between its seed and its subscription.
LEMMA AppendsSeam ==
    ASSUME OrderInv, OrderInv', SeamInv, NEW w \in Writers, Appends(w)
    PROVE  SeamInv'
  <1>1. /\ emit[w].at = "out"
        /\ lock = None /\ lock' = w
        /\ w \in LoopWriters => loop = None
        /\ loop' = IF w \in LoopWriters THEN w ELSE loop
        /\ log' = Append(log, w)
        /\ emit' = [emit EXCEPT ![w] = [at |-> "copy", line |-> Len(log) + 1, to |-> {}]]
        /\ UNCHANGED <<subs, ready, queue, full, tail, seed, sent, there>>
    BY DEF Appends, queueVars, tailVars
  <1>2. /\ Len(log) \in Nat
        /\ Len(log') = Len(log) + 1
        /\ \A n \in 1 .. Len(log) : log'[n] = log[n]
        /\ log'[Len(log) + 1] = w
    BY <1>1, AppendFacts DEF OrderInv, TypeOK
  <1>3. /\ \A v \in Writers : emit[v].at = "out" /\ emit[v].to = {}
        /\ emit'[w].at = "copy" /\ emit'[w].to = {}
        /\ \A v \in Writers : v # w => emit'[v] = emit[v]
    <2>1. \A v \in Writers : emit[v].at = "out" /\ emit[v].to = {}
      BY <1>1, NobodyInside DEF SeamInv
    <2> QED BY <1>1, <2>1 DEF OrderInv, TypeOK
  <1>4. /\ Through = Len(log)
        /\ Through' = Len(log)
    <2>1. Through' = Len(log') - 1
      BY <1>3 DEF Through
    <2> QED BY <1>1, <1>2, <2>1, ThroughFacts
  <1>5. \A t \in Tails : InHand(t) = {} /\ InHand(t)' = {}
    BY <1>3 DEF InHand
  <1>6. \A t \in Tails : Live(t)' = Live(t)
    BY <1>1, <1>5 DEF Live, Sent, Queued, Scheduled
  <1>7. NoHole' /\ SeamKeepsLoopLines'
    <2>1. \A t \in subs : t \in Tails
      BY DEF OrderInv, TypeOK
    <2> QED BY <1>1, <1>2, <1>4, <1>6, <2>1, SameLive DEF SeamInv
  <1>8. HandInv'
    BY <1>1, <1>2, <1>3 DEF HandInv
  <1>9. GapInv'
    <2> SUFFICES ASSUME NEW t \in Tails, tail'[t] = "seeded"
                 PROVE  /\ loop' = t
                        /\ \A n \in seed'[t] + 1 .. Len(log') : log'[n] \notin LoopWriters
      BY DEF GapInv
    <2>1. loop = t /\ \A n \in seed[t] + 1 .. Len(log) : log[n] \notin LoopWriters
      BY <1>1 DEF SeamInv, GapInv
    <2>2. w \notin LoopWriters
      BY <1>1, <2>1, FanoutAssumption
    <2>3. seed[t] \in Nat
      BY LinesAreNumbers DEF OrderInv
    <2> QED BY <1>1, <1>2, <2>1, <2>2, <2>3
  <1>10. FreshInv'
    <2> SUFFICES ASSUME NEW t \in Tails
                 PROVE  seed'[t] < Len(log')
      BY DEF FreshInv
    <2> QED BY <1>1, <1>2, LinesAreNumbers DEF OrderInv, SeedInv
  <1>11. RisingInv'
    BY <1>1, SameRising DEF SeamInv
  <1> QED BY <1>7, <1>8, <1>9, <1>10, <1>11 DEF SeamInv

\* A writer leaves: it takes nothing along, and nobody else is inside.
LEMMA ReturnsHands ==
    ASSUME OrderInv, HandInv, GapInv, FreshInv, NEW w \in Writers, Returns(w),
           UNCHANGED <<log, tail, seed>>
    PROVE  HandInv' /\ GapInv' /\ FreshInv'
  <1>1. /\ emit' = [emit EXCEPT ![w] = Outside]
        /\ loop' = IF loop = w THEN None ELSE loop
    BY DEF Returns
  <1>2. /\ emit'[w].at = "out" /\ emit'[w].to = {}
        /\ \A v \in Writers : v # w => emit'[v] = emit[v]
    BY <1>1 DEF OrderInv, TypeOK, Outside
  <1>3. HandInv'
    BY <1>1, <1>2 DEF HandInv
  <1>4. GapInv'
    BY <1>1, FanoutAssumption DEF GapInv
  <1>5. FreshInv'
    BY <1>2, FanoutAssumption DEF FreshInv
  <1> QED BY <1>3, <1>4, <1>5

\* The subscribers come to be known, and the line is in the hand for them.
LEMMA CopiesSubsSeam ==
    ASSUME OrderInv, OrderInv', SeamInv, NEW w \in Writers, CopiesSubs(w)
    PROVE  SeamInv'
  <1>1. /\ emit[w].at = "copy"
        /\ UNCHANGED <<log, subs, ready, queue, full, tail, seed, sent, there>>
    BY DEF CopiesSubs, queueVars, tailVars
  <1>2. RisingInv'
    BY <1>1, SameRising DEF SeamInv
  <1>3. CASE subs = {} /\ Returns(w)
    <2>1. NoHole' /\ SeamKeepsLoopLines'
      BY <1>1, <1>3 DEF NoHole, SeamKeepsLoopLines
    <2> QED BY <1>1, <1>2, <1>3, <2>1, ReturnsHands DEF SeamInv
  <1>4. CASE subs # {}
    <2>1. /\ emit' = [emit EXCEPT ![w] = [at |-> "schedule", line |-> emit[w].line, to |-> subs]]
          /\ UNCHANGED <<lock, loop>>
      BY <1>4 DEF CopiesSubs, Returns
    <2>2. /\ emit'[w].at = "schedule" /\ emit'[w].to = subs /\ emit'[w].line = emit[w].line
          /\ \A v \in Writers : v # w => emit'[v] = emit[v]
      BY <2>1 DEF OrderInv, TypeOK
    <2>3. /\ lock = w /\ emit[w].line = Len(log) /\ Len(log) \in Nat \ {0}
          /\ log[Len(log)] = w
          /\ emit[w].to = {}
          /\ \A v \in Writers : v # w => emit[v].at = "out" /\ emit[v].to = {}
      <3>1. emit[w].to = {}
        BY <1>1 DEF SeamInv, HandInv
      <3> QED BY <1>1, <3>1, AloneInside DEF SeamInv
    <2>4. HandInv' /\ GapInv' /\ FreshInv'
      BY <1>1, <2>1, <2>2, FanoutAssumption DEF SeamInv, HandInv, GapInv, FreshInv
    <2>5. Through = Len(log) - 1 /\ Through' = Len(log)
      <3>1. \A v \in Writers : emit'[v].at # "copy"
        BY <2>2, <2>3
      <3> QED BY <1>1, <3>1, ThroughFacts DEF Through
    <2>6. \A t \in subs : t \in Tails /\ InHand(t) = {} /\ InHand(t)' = {Len(log)}
      <3>1. \A t \in subs : t \in Tails
        BY DEF OrderInv, TypeOK
      <3> QED BY <2>2, <2>3, <3>1 DEF InHand
    <2>7. \A t \in subs : Live(t)' = Live(t) \cup {Len(log)}
      BY <1>1, <2>6 DEF Live, Sent, Queued, Scheduled
    <2>8. NoHole'
      <3> SUFFICES ASSUME NEW t \in subs, ~full[t], NEW m \in Live(t) \cup {Len(log)}
                   PROVE  m <= Len(log) /\ m .. Len(log) \subseteq Live(t) \cup {Len(log)}
        BY <1>1, <2>5, <2>7 DEF NoHole
      <3>1. CASE m = Len(log)
        BY <2>3, <3>1
      <3>2. CASE m \in Live(t)
        <4>1. m <= Len(log) - 1 /\ m .. Len(log) - 1 \subseteq Live(t)
          BY <2>5, <3>2 DEF SeamInv, NoHole
        <4>2. m \in Nat
          <5>1. t \in Tails
            BY <2>6
          <5>2. \A i \in 1 .. Len(sent[t]) : sent[t][i] \in Nat
            BY <5>1, LinesAreNumbers DEF OrderInv
          <5>3. \A i \in 1 .. Len(queue[t]) : queue[t][i] \in Nat
            BY <5>1, LinesAreNumbers DEF OrderInv
          <5>4. \A k \in 1 .. Len(ready) : ready[k].line \in Nat
            BY LinesAreNumbers DEF OrderInv
          <5>5. m \in Sent(t) \cup Queued(t) \cup Scheduled(t)
            BY <2>6, <3>2 DEF Live
          <5> QED BY <5>2, <5>3, <5>4, <5>5 DEF Sent, Queued, Scheduled
        <4> QED BY <2>3, <4>1, <4>2
      <3> QED BY <3>1, <3>2
    <2>9. SeamKeepsLoopLines'
      <3> SUFFICES ASSUME NEW t \in subs, ~full[t], NEW n \in 1 .. Len(log),
                          log[n] \in LoopWriters
                   PROVE  n > seed[t] <=> n \in Live(t) \cup {Len(log)}
        BY <1>1, <2>5, <2>7 DEF SeamKeepsLoopLines
      <3>1. CASE n = Len(log)
        <4>1. tail[t] # "new"
          BY <2>6 DEF OrderInv, EarlyInv
        <4>2. seed[t] < Len(log)
          BY <1>1, <2>3, <2>6, <3>1, <4>1 DEF SeamInv, FreshInv
        <4> QED BY <2>6, <3>1, <4>2, LinesAreNumbers DEF OrderInv
      <3>2. CASE n # Len(log)
        <4>1. n \in 1 .. Through
          BY <2>3, <2>5, <3>2
        <4> QED BY <3>2, <4>1 DEF SeamInv, SeamKeepsLoopLines
      <3> QED BY <3>1, <3>2
    <2> QED BY <1>2, <2>4, <2>8, <2>9 DEF SeamInv
  <1> QED BY <1>3, <1>4 DEF CopiesSubs

\* What was in the hand is scheduled.
LEMMA SchedulesSeam ==
    ASSUME OrderInv, OrderInv', SeamInv, NEW w \in Writers, Schedules(w)
    PROVE  SeamInv'
  <1>1. PICK item : /\ emit[w].at = "schedule"
        /\ item = [line |-> emit[w].line, to |-> emit[w].to]
        /\ ready' = Append(ready, item)
        /\ Returns(w)
        /\ UNCHANGED <<log, subs, queue, full, tail, seed, sent, there>>
    BY DEF Schedules, queueVars, tailVars
  <1>2. /\ lock = w /\ emit[w].line = Len(log) /\ Len(log) \in Nat \ {0}
        /\ \A v \in Writers : v # w => emit[v].at = "out" /\ emit[v].to = {}
    BY <1>1, AloneInside DEF SeamInv
  <1>3. item \in Callbacks /\ item.line = emit[w].line /\ item.to = emit[w].to
    <2>1. Len(log) \in Lines /\ emit[w].to \in SUBSET Tails
      BY <1>2, FanoutAssumption DEF OrderInv, TypeOK, Lines
    <2> QED BY <1>1, <1>2, <2>1 DEF Callbacks
  <1>4. /\ emit'[w].at = "out" /\ emit'[w].to = {}
        /\ \A v \in Writers : v # w => emit'[v] = emit[v]
        /\ lock' = None
    BY <1>1 DEF OrderInv, TypeOK, Outside, Returns
  <1>5. Through' = Through
    <2>1. Through' = Len(log')
      BY <1>2, <1>4 DEF Through
    <2> QED BY <1>1, <2>1, ThroughFacts
  <1>6. ASSUME NEW t \in Tails
        PROVE  Live(t)' = Live(t)
    <2>1. /\ InHand(t)' = {}
          /\ InHand(t) = IF t \in item.to THEN {item.line} ELSE {}
      BY <1>2, <1>3, <1>4 DEF InHand
    <2>2. /\ Scheduled(t) = LinesFor(ready, t)
          /\ Scheduled(t)' = LinesFor(ready', t)
      BY DEF Scheduled, LinesFor
    <2>3. LinesFor(ready', t)
              = LinesFor(ready, t) \cup (IF t \in item.to THEN {item.line} ELSE {})
      BY <1>1, <1>3, AppendLines DEF OrderInv, TypeOK
    <2> QED BY <1>1, <2>1, <2>2, <2>3 DEF Live, Sent, Queued
  <1>7. NoHole' /\ SeamKeepsLoopLines'
    <2>1. \A t \in subs : t \in Tails
      BY DEF OrderInv, TypeOK
    <2> QED BY <1>1, <1>5, <1>6, <2>1, SameLive DEF SeamInv
  <1> QED BY <1>1, <1>7, ReturnsHands, SameRising DEF SeamInv

-----------------------------------------------------------------------------
(* The event loop and the tails *)

\* A line leaves the callbacks for the queues; a tail whose queue has no room
\* for it counts as one that was full.
LEMMA PushesSeam ==
    ASSUME OrderInv, SeamInv, Pushes
    PROVE  SeamInv'
  <1>1. PICK item :
        /\ ready # <<>>
        /\ item = Head(ready)
        /\ ready' = Tail(ready)
        /\ queue' = [t \in Tails |-> IF t \in item.to /\ Room(t)
                                     THEN Append(queue[t], item.line) ELSE queue[t]]
        /\ full' = [t \in Tails |-> full[t] \/ (t \in item.to /\ ~Room(t))]
        /\ UNCHANGED <<log, lock, emit, loop, subs, tail, seed, sent, there>>
    BY DEF Pushes, writerVars, tailVars
  <1>2. item.line \in Lines
    <2>1. item \in Callbacks
      BY <1>1, TailFacts DEF OrderInv, TypeOK
    <2> QED BY <2>1 DEF Callbacks
  <1>3. ASSUME NEW t \in Tails, ~full'[t]
        PROVE  ~full[t] /\ Live(t)' = Live(t)
    <2>1. ~full[t] /\ (t \in item.to => Room(t))
      BY <1>1, <1>3
    <2>2. Queued(t)' = Queued(t) \cup (IF t \in item.to THEN {item.line} ELSE {})
      <3>1. CASE t \in item.to
        <4>1. queue'[t] = Append(queue[t], item.line)
          BY <1>1, <2>1, <3>1
        <4>2. queue[t] \in Seq(Lines)
          BY DEF OrderInv, TypeOK
        <4> QED BY <1>2, <3>1, <4>1, <4>2, AppendValues DEF Queued
      <3>2. CASE t \notin item.to
        BY <1>1, <3>2 DEF Queued
      <3> QED BY <3>1, <3>2
    <2>3. Scheduled(t) = Scheduled(t)' \cup (IF t \in item.to THEN {item.line} ELSE {})
      <3>1. LinesFor(ready, t)
                = LinesFor(ready', t) \cup (IF t \in item.to THEN {item.line} ELSE {})
        BY <1>1, TailLines DEF OrderInv, TypeOK
      <3> QED BY <3>1 DEF Scheduled, LinesFor
    <2> QED BY <1>1, <2>1, <2>2, <2>3 DEF Live, Sent, InHand
  <1>4. Through' = Through
    BY <1>1 DEF Through
  <1>5. NoHole' /\ SeamKeepsLoopLines'
    <2>1. \A t \in subs : t \in Tails
      BY DEF OrderInv, TypeOK
    <2> QED BY <1>1, <1>3, <1>4, <2>1, SameLive DEF SeamInv
  <1> QED BY <1>1, <1>5, SameHands, SameGap, SameRising DEF SeamInv

\* A tail takes its seed: nobody on the loop is inside emit.
LEMMA SeedsSeam ==
    ASSUME OrderInv, SeamInv, NEW t \in Tails, Seeds(t)
    PROVE  SeamInv'
  <1>1. /\ tail[t] = "new" /\ loop = None
        /\ loop' = t
        /\ seed' = [seed EXCEPT ![t] = Len(log)]
        /\ tail' = [tail EXCEPT ![t] = "seeded"]
        /\ UNCHANGED <<log, lock, emit, subs, ready, queue, full, sent, there>>
    BY DEF Seeds, Moves, writerVars, queueVars
  <1>2. /\ seed'[t] = Len(log) /\ Len(log) \in Nat
        /\ \A u \in Tails : u # t => seed'[u] = seed[u] /\ tail'[u] = tail[u]
    BY <1>1 DEF OrderInv, TypeOK
  <1>3. \A w \in LoopWriters : w \in Writers /\ emit[w].at = "out"
    BY <1>1, FanoutAssumption DEF SeamInv, HandInv
  <1>4. HandInv' /\ FreshInv'
    BY <1>1, <1>3 DEF SeamInv, HandInv, FreshInv
  <1>5. GapInv'
    <2> SUFFICES ASSUME NEW u \in Tails, tail'[u] = "seeded"
                 PROVE  /\ loop' = u
                        /\ \A n \in seed'[u] + 1 .. Len(log) : log[n] \notin LoopWriters
      BY <1>1 DEF GapInv
    <2>1. CASE u = t
      BY <1>1, <1>2, <2>1
    <2>2. CASE u # t
      <3>1. loop = u
        BY <1>2, <2>2 DEF SeamInv, GapInv
      <3> QED BY <1>1, <3>1, FanoutAssumption
    <2> QED BY <2>1, <2>2
  <1>6. NoHole' /\ SeamKeepsLoopLines'
    <2>1. \A u \in subs : u \in Tails /\ u # t
      BY <1>1 DEF OrderInv, TypeOK, EarlyInv
    <2>2. Through' = Through
      BY <1>1 DEF Through
    <2>3. \A u \in subs : Live(u)' = Live(u)
      BY <1>1 DEF Live, Sent, Queued, Scheduled, InHand
    <2> QED BY <1>1, <1>2, <2>1, <2>2, <2>3, SameLive DEF SeamInv
  <1> QED BY <1>1, <1>4, <1>5, <1>6, SameRising DEF SeamInv

\* A tail subscribes: nothing is on its way to it, and all that the loop wrote
\* is in its seed.
LEMMA SubscribesSeam ==
    ASSUME OrderInv, SeamInv, NEW t \in Tails, Subscribes(t)
    PROVE  SeamInv'
  <1>1. /\ tail[t] = "seeded"
        /\ subs' = subs \cup {t}
        /\ loop' = None
        /\ tail' = [tail EXCEPT ![t] = "open"]
        /\ UNCHANGED <<log, lock, emit, ready, queue, full, seed, sent, there>>
    BY DEF Subscribes, Moves, writerVars, queueVars
  <1>2. loop = t /\ \A n \in seed[t] + 1 .. Len(log) : log[n] \notin LoopWriters
    BY <1>1 DEF SeamInv, GapInv
  <1>3. /\ tail'[t] = "open"
        /\ \A u \in Tails : u # t => tail'[u] = tail[u]
    BY <1>1 DEF OrderInv, TypeOK
  <1>4. HandInv' /\ FreshInv'
    <2>1. \A w \in LoopWriters : loop # w
      BY <1>2, FanoutAssumption
    <2> QED BY <1>1, <1>3, <2>1, SameHands DEF SeamInv
  <1>5. GapInv'
    <2>1. \A u \in Tails : tail'[u] # "seeded"
      BY <1>2, <1>3 DEF SeamInv, GapInv
    <2> QED BY <2>1 DEF GapInv
  <1>6. Live(t) = {} /\ \A u \in subs' : Live(u)' = Live(u)
    <2>1. /\ queue[t] = <<>> /\ sent[t] = <<>>
          /\ \A k \in 1 .. Len(ready) : t \notin ready[k].to
          /\ \A w \in Writers : t \notin emit[w].to
      BY <1>1 DEF OrderInv, EarlyInv
    <2>2. Sent(t) = {} /\ Queued(t) = {}
      BY <2>1 DEF Sent, Queued
    <2>3. Scheduled(t) = {} /\ InHand(t) = {}
      BY <2>1 DEF Scheduled, InHand
    <2>4. \A u \in subs' : Live(u)' = Live(u)
      BY <1>1 DEF Live, Sent, Queued, Scheduled, InHand
    <2> QED BY <2>2, <2>3, <2>4 DEF Live
  <1>7. Through' = Through
    BY <1>1 DEF Through
  <1>8. NoHole'
    BY <1>1, <1>6, <1>7 DEF SeamInv, NoHole
  <1>9. SeamKeepsLoopLines'
    <2> SUFFICES ASSUME NEW u \in subs', ~full[u], NEW n \in 1 .. Through,
                        log[n] \in LoopWriters
                 PROVE  n > seed[u] <=> n \in Live(u)
      BY <1>1, <1>6, <1>7 DEF SeamKeepsLoopLines
    <2>1. CASE u = t
      <3>1. Through \in {Len(log), Len(log) - 1} /\ Len(log) \in Nat /\ seed[t] \in Nat
        BY LinesAreNumbers DEF Through, OrderInv
      <3>2. ~(n > seed[t])
        BY <1>2, <3>1
      <3> QED BY <1>6, <2>1, <3>2
    <2>2. CASE u # t
      BY <1>1, <2>2 DEF SeamInv, SeamKeepsLoopLines
    <2> QED BY <2>1, <2>2
  <1> QED BY <1>1, <1>4, <1>5, <1>8, <1>9, SameRising DEF SeamInv

\* The head of the queue goes to what was sent: it stays on its way, and it is
\* younger than what was sent before.
LEMMA GetsSeam ==
    ASSUME OrderInv, SeamInv, NEW t \in Tails, Gets(t)
    PROVE  SeamInv'
  <1>1. PICK line :
        /\ tail[t] = "waiting"
        /\ queue[t] # <<>>
        /\ line = Head(queue[t])
        /\ sent' = [sent EXCEPT ![t] = Append(sent[t], line)]
        /\ queue' = [queue EXCEPT ![t] = Tail(queue[t])]
        /\ tail' = [tail EXCEPT ![t] = "sending"]
        /\ UNCHANGED <<log, lock, emit, loop, subs, ready, full, seed, there>>
    BY DEF Gets, Moves, writerVars
  <1>2. queue[t] \in Seq(Lines) /\ sent[t] \in Seq(Lines)
    BY DEF OrderInv, TypeOK
  <1>3. line \in Lines /\ line = queue[t][1] /\ 1 \in 1 .. Len(queue[t])
    BY <1>1, <1>2, TailFacts
  <1>4. /\ sent'[t] = Append(sent[t], line) /\ queue'[t] = Tail(queue[t])
        /\ \A u \in Tails : u # t => sent'[u] = sent[u] /\ queue'[u] = queue[u]
        /\ \A u \in Tails : tail'[u] \in {tail[u], "sending"}
        /\ \A u \in Tails : tail'[u] # "new" => tail[u] # "new"
    BY <1>1 DEF OrderInv, TypeOK
  <1>5. RisingInv'
    <2> SUFFICES ASSUME NEW u \in Tails PROVE Rising(sent'[u])
      BY DEF RisingInv
    <2>1. CASE u # t
      BY <1>4, <2>1 DEF SeamInv, RisingInv
    <2>2. CASE u = t
      <3>1. /\ Len(sent[t]) \in Nat
            /\ Len(sent'[t]) = Len(sent[t]) + 1
            /\ \A i \in 1 .. Len(sent[t]) : sent'[t][i] = sent[t][i]
            /\ sent'[t][Len(sent[t]) + 1] = line
        BY <1>2, <1>3, <1>4, AppendFacts
      <3>2. \A i \in 1 .. Len(sent[t]) : sent[t][i] < line
        BY <1>3 DEF OrderInv, SentInv
      <3>3. Rising(sent[t])
        BY DEF SeamInv, RisingInv
      <3> QED BY <2>2, <3>1, <3>2, <3>3 DEF Rising
    <2> QED BY <2>1, <2>2
  <1>6. \A u \in Tails : Live(u)' = Live(u)
    <2>1. Sent(t)' = Sent(t) \cup {line}
      BY <1>2, <1>3, <1>4, AppendValues DEF Sent
    <2>2. Queued(t) = {line} \cup Queued(t)'
      <3>1. {queue[t][i] : i \in 1 .. Len(queue[t])}
                = {line} \cup {Tail(queue[t])[i] : i \in 1 .. Len(Tail(queue[t]))}
        BY <1>1, <1>2, TailValues
      <3> QED BY <1>4, <3>1 DEF Queued
    <2>3. Live(t)' = Live(t)
      BY <1>1, <2>1, <2>2 DEF Live, Scheduled, InHand
    <2>4. \A u \in Tails : u # t => Live(u)' = Live(u)
      BY <1>1, <1>4 DEF Live, Sent, Queued, Scheduled, InHand
    <2> QED BY <2>3, <2>4
  <1>7. NoHole' /\ SeamKeepsLoopLines'
    <2>1. \A u \in subs : u \in Tails
      BY DEF OrderInv, TypeOK
    <2>2. Through' = Through
      BY <1>1 DEF Through
    <2> QED BY <1>1, <1>6, <2>1, <2>2, SameLive DEF SeamInv
  <1>8. \A u \in Tails : tail'[u] = "seeded" => tail[u] = "seeded"
    BY <1>4
  <1> QED BY <1>1, <1>4, <1>5, <1>7, <1>8, SameHands, SameGap DEF SeamInv

\* A step that moves a tail on, away from its seed, and lets subscribers go.
LEMMA StageSeam ==
    ASSUME OrderInv, SeamInv,
           UNCHANGED <<log, emit, loop, ready, queue, full, seed, sent>>,
           subs' \subseteq subs,
           \A t \in Tails : /\ tail'[t] = "seeded" => tail[t] = "seeded"
                            /\ tail'[t] # "new" => tail[t] # "new"
    PROVE  SeamInv'
  <1>1. NoHole' /\ SeamKeepsLoopLines'
    <2>1. Through' = Through
      BY DEF Through
    <2>2. \A u \in subs : Live(u)' = Live(u)
      BY DEF Live, Sent, Queued, Scheduled, InHand
    <2> QED BY <2>1, <2>2, SameLive DEF SeamInv
  <1> QED BY <1>1, SameHands, SameGap, SameRising DEF SeamInv

\* Every step of a tail keeps the invariant.
LEMMA TailStepSeam ==
    ASSUME OrderInv, SeamInv, NEW t \in Tails, TailStep(t)
    PROVE  SeamInv'
  <1>1. CASE Seeds(t) \/ Subscribes(t) \/ Gets(t)
    BY <1>1, SeedsSeam, SubscribesSeam, GetsSeam
  <1>2. CASE \/ Runs(t) \/ NeverRuns(t) \/ Taken(t)
             \/ KeepsAlive(t) \/ Ends(t) \/ Leaves(t)
    <2>1. /\ UNCHANGED <<log, emit, loop, ready, queue, full, seed, sent>>
          /\ subs' \subseteq subs
          /\ \/ UNCHANGED tail
             \/ /\ tail[t] # "new"
                /\ \E stage \in {"sending", "waiting", "lost", "over"} :
                      tail' = [tail EXCEPT ![t] = stage]
      BY <1>2 DEF Runs, NeverRuns, Taken, KeepsAlive, Ends, Leaves, Moves,
                  writerVars, queueVars
    <2>2. \A u \in Tails : /\ tail'[u] = "seeded" => tail[u] = "seeded"
                           /\ tail'[u] # "new" => tail[u] # "new"
      BY <2>1 DEF OrderInv, TypeOK
    <2> QED BY <2>1, <2>2, StageSeam
  <1> QED BY <1>1, <1>2 DEF TailStep

\* At the start there is no subscriber and nobody writes.
LEMMA InitSeam == Init => SeamInv
  <1> SUFFICES ASSUME Init PROVE SeamInv
    OBVIOUS
  <1>1. RisingInv
    BY DEF Init, RisingInv, Rising
  <1>2. HandInv /\ GapInv /\ FreshInv
    BY FanoutAssumption DEF Init, HandInv, GapInv, FreshInv, Outside
  <1>3. NoHole /\ SeamKeepsLoopLines
    BY DEF Init, NoHole, SeamKeepsLoopLines
  <1> QED BY <1>1, <1>2, <1>3 DEF SeamInv

\* The invariant is inductive, on top of the order.
LEMMA StepSeam ==
    ASSUME OrderInv, OrderInv', SeamInv, [Next]_vars
    PROVE  SeamInv'
  <1>1. CASE \E w \in Writers : WriterStep(w)
    BY <1>1, AppendsSeam, CopiesSubsSeam, SchedulesSeam DEF WriterStep
  <1>2. CASE Pushes
    BY <1>2, PushesSeam
  <1>3. CASE \E t \in Tails : TailStep(t)
    BY <1>3, TailStepSeam
  <1>4. CASE UNCHANGED vars
    <2>1. UNCHANGED <<log, emit, loop, subs, ready, queue, full, tail, seed, sent>>
      BY <1>4 DEF vars, writerVars, queueVars, tailVars
    <2> QED BY <2>1, StageSeam
  <1> QED BY <1>1, <1>2, <1>3, <1>4 DEF Next

-----------------------------------------------------------------------------
(* What a tail may count on *)

\* In every reachable state the invariant holds.
THEOREM FanoutSeam == Spec => []SeamInv
  <1>1. Init => SeamInv
    BY InitSeam
  <1>2. OrderInv /\ OrderInv' /\ SeamInv /\ [Next]_vars => SeamInv'
    BY StepSeam
  <1> QED BY <1>1, <1>2, FanoutOrder, PTL DEF Spec

\* Lines reach every tail in the order of the ring, whichever threads wrote
\* them and wherever they are on their way.
THEOREM InOrderCorrect == Spec => []InOrder
  <1>1. OrderInv /\ SeamInv => InOrder
    BY OrderHolds DEF SeamInv
  <1> QED BY <1>1, FanoutOrder, FanoutSeam, PTL

\* A subscriber whose own queue was never full misses no line after its first,
\* however full the other queues are.
THEOREM NoHoleCorrect == Spec => []NoHole
  <1>1. SeamInv => NoHole
    BY DEF SeamInv
  <1> QED BY <1>1, FanoutSeam, PTL

\* Nothing that the loop itself writes is lost or shown twice between the seed
\* and the live lines: a route has no await between the two.
THEOREM SeamCorrect == Spec => []SeamKeepsLoopLines
  <1>1. SeamInv => SeamKeepsLoopLines
    BY DEF SeamInv
  <1> QED BY <1>1, FanoutSeam, PTL
=============================================================================
