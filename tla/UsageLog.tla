------------------------------ MODULE UsageLog ------------------------------
(***************************************************************************)
(* The usage log of the admin pages (src/src/usage_log.py): events of page *)
(* visits come in batches into a bounded table, and foreground_time turns  *)
(* the table into time per day, per device class and per view.             *)
(*                                                                         *)
(* Time passes in ticks; a report covers the ticks since .. until - 1.     *)
(* The server's clock does not go back.                                    *)
(***************************************************************************)
EXTENDS Integers, Sequences, FiniteSetsExt, SequencesExt

CONSTANTS Visits,       \* session_id
          DeviceOf,     \* the device class of a visit
          Views,        \* view ids
          NoView,       \* time before a visit's first view
          DayTicks,     \* ticks of a day
          IdleGap, MaxInterval,  \* idle_gap_desktop, max_interval
          MaxAge, MaxRows,       \* max_age_days, max_rows
          SentKinds,    \* the kinds that clients send here
          MaxBatch,     \* events of a batch
          MaxEvents, MaxClock    \* bounds

ASSUME UsageAssumption ==
    /\ MaxRows \in Nat /\ MaxAge \in Nat
    /\ DeviceOf \in [Visits -> {"phone", "tablet", "desktop"}]
    /\ DayTicks \in Nat \ {0} /\ IdleGap \in Nat /\ MaxInterval \in Nat

VARIABLES table,   \* rows in the order of their ids
          clock,
          events   \* events so far, the last id

usageVars == <<table, clock, events>>

Kinds == {"session_start", "view", "tap", "session_end", "referrer"}

UsageInit == table = <<>> /\ clock = 0 /\ events = 0

-----------------------------------------------------------------------------
(* Batches *)

\* What a client may send: an envelope that is fit or not, and events of which
\* validate_event refuses some.
Sent == [kind : SentKinds, view : Views] \cup {[kind |-> "other", view |-> NoView]}

\* validate_event: a known kind; only a view keeps the id as its view.
Valid(e) == e.kind \in Kinds
Row(e, v, n) == [id |-> n, ts |-> clock, visit |-> v, kind |-> e.kind,
                 view |-> IF e.kind = "view" THEN e.view ELSE NoView]

\* What s holds at the indices of I, in order: the WHERE of a statement.
Chosen(s, I) ==
    [k \in 1 .. Cardinality(I) |-> s[CHOOSE i \in I : Cardinality({j \in I : j <= i}) = k]]

Fresh(rows) == Chosen(rows, {i \in DOMAIN rows : rows[i].ts >= clock - MaxAge})

\* Mutant: the row cap is applied to the newest end.
PrunesNewest(rows) ==
    LET fresh == Fresh(rows)
    IN  SubSeq(fresh, 1, IF Len(fresh) > MaxRows THEN MaxRows ELSE Len(fresh))

\* _prune: first by age, then by the cap.
Prunes(rows) ==
    LET fresh == Fresh(rows)
    IN  SubSeq(fresh, IF Len(fresh) > MaxRows THEN Len(fresh) - MaxRows + 1 ELSE 1, Len(fresh))

\* post_events: one transaction for the events that are valid, and the pruning.
\* A batch whose envelope is refused, whose events are all refused, or whose
\* transaction fails changes nothing.
Posts(visit, batch) ==
    LET good == Chosen(batch, {i \in DOMAIN batch : Valid(batch[i])})
        rows == table \o [i \in 1 .. Len(good) |-> Row(good[i], visit, events + i)]
    IN  /\ good # <<>>
        /\ events + Len(good) <= MaxEvents
        /\ events' = events + Len(good)
        /\ table' = Prunes(rows)
        /\ UNCHANGED clock

ClockTicks ==
    /\ clock < MaxClock
    /\ clock' = clock + 1
    /\ UNCHANGED <<table, events>>

UsageNext ==
    \/ \E visit \in Visits : \E n \in 1 .. MaxBatch : \E batch \in [1 .. n -> Sent] :
           Posts(visit, batch)
    \/ ClockTicks

UsageSpec == UsageInit /\ [][UsageNext]_usageVars

-----------------------------------------------------------------------------
(* foreground_time *)

Lesser(a, b)  == IF a < b THEN a ELSE b
Greater(a, b) == IF a > b THEN a ELSE b

\* _visit_intervals: what one more row makes of the intervals so far.
Follow(acc, r) ==
    LET view    == IF r.kind = "view" THEN r.view ELSE acc.view
        opens   == r.kind = "session_start" \/ ~acc.open
        n       == Len(acc.intervals)
        current == acc.intervals[n]
        fresh   == [start |-> r.ts, order |-> r.id, device |-> DeviceOf[r.visit],
                    points |-> <<r.ts>>, views |-> <<<<r.ts, view>>>>]
        longer  == [start |-> current.start, order |-> current.order, device |-> current.device,
                    points |-> Append(current.points, r.ts),
                    views |-> IF r.kind = "view" THEN Append(current.views, <<r.ts, view>>)
                                                 ELSE current.views]
    IN  [intervals |-> IF opens THEN Append(acc.intervals, fresh)
                                ELSE [acc.intervals EXCEPT ![n] = longer],
         open |-> r.kind # "session_end", view |-> view]

Intervals(rows) ==
    FoldLeft(Follow, [intervals |-> <<>>, open |-> FALSE, view |-> NoView], rows).intervals

\* Mutant: a desktop's stretch counts in full.
SpansInFull(iv) == {<<iv.points[1], iv.points[Len(iv.points)]>>}

\* _active_spans
Spans(iv) ==
    LET last == iv.points[Len(iv.points)]
    IN  IF iv.device \in {"phone", "tablet"}
        THEN {<<iv.start, Lesser(last, iv.start + MaxInterval)>>}
        ELSE {<<iv.points[i], Lesser(iv.points[i + 1], iv.points[i] + IdleGap)>> :
                 i \in 1 .. Len(iv.points) - 1}

\* _view_slices
Slices(iv, since, until) ==
    LET n == Len(iv.views)
        Slice(span, i) ==
            LET a  == Greater(span[1], since)
                b  == Lesser(span[2], until)
                to == IF i < n THEN iv.views[i + 1][1] ELSE b
            IN  [from |-> Greater(a, iv.views[i][1]), to |-> Lesser(b, to),
                 device |-> iv.device, view |-> iv.views[i][2], start |-> iv.start, order |-> iv.order]
    IN  {s \in {Slice(span, i) : span \in Spans(iv), i \in 1 .. n} : s.to > s.from}

\* The visits that are looked at, and all their rows.
Recent(since, until) ==
    LET back == Greater(IdleGap, MaxInterval)
    IN  {r.visit : r \in {q \in ToSet(table) : q.ts >= since - back /\ q.ts <= until}}
RowsOf(visit) == Chosen(table, {i \in DOMAIN table : table[i].visit = visit})

AllSlices(since, until) ==
    UNION {UNION {Slices(iv, since, until) : iv \in ToSet(Intervals(RowsOf(v)))} :
              v \in Recent(since, until)}

\* _sweep: the pieces between two neighbouring edges, midnights among them.
Pieces(slices, since, until) ==
    LET edges == {s.from : s \in slices} \cup {s.to : s \in slices} \cup {since, until}
                 \cup {d \in since .. until : d % DayTicks = 0}
        Next(e) == Min({f \in edges : f > e})
        Active(e) == {s \in slices : s.from <= e /\ s.to > e}
    IN  {[lo |-> e, hi |-> Next(e), active |-> Active(e)] :
            e \in {f \in edges : f # Max(edges) /\ Active(f) # {}}}

\* The slice of the most recently started interval.
Top(active) == CHOOSE s \in active : \A q \in active :
                   q.start < s.start \/ (q.start = s.start /\ q.order <= s.order)

TimeOf(pieces) == FoldSet(LAMBDA p, sum : sum + p.hi - p.lo, 0, pieces)

\* The report: time per day in total, per device class and per view.
Report(since, until) ==
    LET pieces == Pieces(AllSlices(since, until), since, until)
        On(d)  == {p \in pieces : p.lo \div DayTicks = d}
        days   == since \div DayTicks .. (until - 1) \div DayTicks
    IN  [total  |-> [d \in days |-> TimeOf(On(d))],
         device |-> [d \in days |-> [c \in {DeviceOf[v] : v \in Visits} |->
                        TimeOf({p \in On(d) : \E s \in p.active : s.device = c})]],
         view   |-> [d \in days |-> [w \in Views \cup {NoView} |->
                        TimeOf({p \in On(d) : Top(p.active).view = w})]]]

-----------------------------------------------------------------------------
(* The rules of the module's documentation, tick by tick *)

\* The row of a visit that is the last one at tick u, 0 if there is none.
LastAt(rows, u) == Cardinality({i \in 1 .. Len(rows) : rows[i].ts <= u})

\* The row that opened the stretch which row i belongs to.
Opening(rows, i) ==
    Max({k \in 1 .. i : rows[k].kind = "session_start" \/ k = 1 \/ rows[k - 1].kind = "session_end"})

\* The visit is in the foreground during tick u (rules 2, 3 and 4).
Present(rows, u) ==
    LET i == LastAt(rows, u) IN
    /\ i > 0 /\ i < Len(rows)
    /\ rows[i].kind # "session_end" /\ rows[i + 1].kind # "session_start"
    /\ IF DeviceOf[rows[i].visit] = "desktop" THEN u < rows[i].ts + IdleGap
       ELSE u < rows[Opening(rows, i)].ts + MaxInterval

ViewAt(rows, u) ==
    LET seen == {i \in 1 .. LastAt(rows, u) : rows[i].kind = "view"}
    IN  IF seen = {} THEN NoView ELSE rows[Max(seen)].view

\* Of the visits in the foreground the one that started last (rule 6).
Leading(here, u) ==
    LET Since(v) == RowsOf(v)[Opening(RowsOf(v), LastAt(RowsOf(v), u))]
    IN  CHOOSE v \in here : \A w \in here : Since(w).id <= Since(v).id

Rules(since, until) ==
    LET Here(u) == {v \in Visits : Present(RowsOf(v), u)}
        On(d)   == {u \in since .. until - 1 : u \div DayTicks = d /\ Here(u) # {}}
        days    == since \div DayTicks .. (until - 1) \div DayTicks
    IN  [total  |-> [d \in days |-> Cardinality(On(d))],
         device |-> [d \in days |-> [c \in {DeviceOf[v] : v \in Visits} |->
                        Cardinality({u \in On(d) : \E v \in Here(u) : DeviceOf[v] = c})]],
         view   |-> [d \in days |-> [w \in Views \cup {NoView} |->
                        Cardinality({u \in On(d) : ViewAt(RowsOf(Leading(Here(u), u)), u) = w})]]]

-----------------------------------------------------------------------------
(* Properties *)

\* The intervals, spans, slices and pieces come to what the seven rules say of
\* every single tick, for any window up to now; so view rows sum to the total,
\* no overlap counts twice, and the look-back leaves out no visit that matters.
ReportFollowsRules ==
    table # <<>> => \A since \in {0, DayTicks - 1, DayTicks} :
        since < clock => Report(since, clock) = Rules(since, clock)

\* Retention takes the oldest rows only and leaves no more than it may: what is
\* left are the last events, without a gap.
RetentionTakesOldest ==
    /\ Len(table) <= MaxRows
    /\ \A i \in 1 .. Len(table) : table[i].id = events - Len(table) + i
=============================================================================
