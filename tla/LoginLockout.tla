---------------------------- MODULE LoginLockout ----------------------------
(***************************************************************************)
(* Wrong passwords at the admin login: the table of failure streaks        *)
(* (src/src/login_lockout.py) and the route in front of it                 *)
(* (src/app_web/routers/auth.py).                                          *)
(*                                                                         *)
(* Time passes in ticks.  What the code keeps as moments is kept as the    *)
(* time since then, which stops where it makes no more difference.         *)
(***************************************************************************)
EXTENDS Integers, FiniteSets

CONSTANTS Clients,      \* client addresses
          Attempts,     \* login requests that may be inside the route at once
          Free,         \* free_attempts
          BaseDelay, MaxDelay, Forget,  \* base_delay, max_delay, forget_after
          MaxClients,   \* max_clients
          AlertAfter, Cooldown,         \* alert_after, alert_cooldown
          MaxExponent,  \* largest n for which 2 ** n is a float (1023)
          MaxHeld,      \* bound on the alerts held back
          Nobody        \* no client

ASSUME LockoutAssumption ==
    /\ IsFiniteSet(Clients)
    /\ Free \in Nat /\ MaxExponent \in Nat /\ MaxHeld \in Nat
    /\ {BaseDelay, MaxDelay, Forget, MaxClients, AlertAfter} \subseteq Nat \ {0}
    /\ Cooldown \in Nat
    /\ BaseDelay <= MaxDelay /\ MaxDelay <= Forget
    /\ AlertAfter <= Free + MaxExponent + 1
    /\ Nobody \notin Clients

VARIABLES tracked,     \* keys of _streaks
          older,       \* their order: <<c, d>>, c comes before d
          streak,      \* _streaks[c], with the wait that is left and the age of the last failure
          sinceAlert,  \* time since _last_alert
          suppressed,  \* _suppressed
          inside,      \* the client of a request that was let in and has not answered
          untold       \* history: streaks that were due an alert and that no alert has told of

tableVars   == <<tracked, older, streak>>
alertVars   == <<sinceAlert, suppressed, untold>>
lockoutVars == <<tableVars, alertVars, inside>>

\* More failures than this behave alike.
Saturated == Free + MaxExponent + 2

Streaks == [failures : 0 .. Saturated, wait : 0 .. MaxDelay, age : 0 .. Forget, alerted : BOOLEAN]

NoStreak == [failures |-> 0, wait |-> 0, age |-> 0, alerted |-> FALSE]

LockoutTypeOK ==
    /\ tracked \in SUBSET Clients
    /\ Cardinality(tracked) <= MaxClients
    /\ older \in SUBSET (tracked \X tracked)
    /\ streak \in [Clients -> Streaks]
    /\ sinceAlert \in 0 .. Cooldown
    /\ suppressed \in 0 .. MaxHeld
    /\ inside \in [Attempts -> Clients \cup {Nobody}]
    /\ untold \in Int

LockoutInit ==
    /\ tracked = {}
    /\ older = {}
    /\ streak = [c \in Clients |-> NoStreak]
    /\ sinceAlert = Cooldown
    /\ suppressed = 0
    /\ inside = [a \in Attempts |-> Nobody]
    /\ untold = 0

-----------------------------------------------------------------------------
(* The table *)

Forgotten(c) == streak[c].age >= Forget

Among(S) == older \cap (S \X S)

\* Only the streaks in S are left.
Keeps(S) == /\ tracked' = S
            /\ older' = Among(S)
            /\ streak' = [c \in Clients |-> IF c \in S THEN streak[c] ELSE NoStreak]

\* _live drops the streak of c when it is forgotten.
Live(c) == IF c \in tracked /\ Forgotten(c) THEN tracked \ {c} ELSE tracked

\* Nobody in S comes before c.
First(S, c) == c \in S /\ \A d \in S : <<d, c>> \notin older

\* What _make_room leaves of S: the forgotten at the front go, and then the
\* first one if there is still no room.
Remembered(S) ==
    {c \in S : \E d \in S : ~Forgotten(d) /\ (d = c \/ <<d, c>> \in older)}

\* Mutant: the newest goes.
RoomInNewest(S) ==
    LET left == Remembered(S)
    IN  IF Cardinality(left) >= MaxClients
        THEN {c \in left : \E d \in left : <<c, d>> \in older} ELSE left

\* Mutant: nobody goes to make room.
RoomInAll(S) == Remembered(S)

RoomIn(S) ==
    LET left == Remembered(S)
    IN  IF Cardinality(left) >= MaxClients THEN {c \in left : ~First(left, c)} ELSE left

\* The doubled delay after n failures, and whether its computation raises.
Delay(n) == LET d == BaseDelay * 2 ^ (n - Free - 1)
            IN  IF n <= Free THEN 0 ELSE IF d < MaxDelay THEN d ELSE MaxDelay

Raises(n) == n - Free - 1 > MaxExponent

\* What the proofs use of powers.
ASSUME PowersAssumption == \A n \in 0 .. MaxExponent + 1 : 2 ^ n \in Nat \ {0} /\ 2 ^ n <= 2 ^ (n + 1)

More(n) == IF n < Saturated THEN n + 1 ELSE n

-----------------------------------------------------------------------------
(* The route *)

\* Mutant: a try during the wait counts as a failure and starts the wait again.
AdmitsOrProlongs(a, c) ==
    /\ inside[a] = Nobody
    /\ IF c \in Live(c) /\ streak[c].wait > 0
       THEN /\ streak' = [streak EXCEPT ![c].wait = Delay(streak[c].failures), ![c].age = 0]
            /\ UNCHANGED <<tracked, older, inside>>
       ELSE Keeps(Live(c)) /\ inside' = [inside EXCEPT ![a] = c]
    /\ UNCHANGED alertVars

\* retry_after answers 0; the route goes on to read the body.
Admits(a, c) ==
    /\ inside[a] = Nobody
    /\ c \in Live(c) => streak[c].wait = 0
    /\ Keeps(Live(c))
    /\ inside' = [inside EXCEPT ![a] = c]
    /\ UNCHANGED alertVars

\* 503, or the request ends while its body is read.
Leaves(a) ==
    /\ inside[a] # Nobody
    /\ inside' = [inside EXCEPT ![a] = Nobody]
    /\ UNCHANGED <<tableVars, alertVars>>

\* Mutant: an alert that is held back is not counted.
AlertsUncounted(due) ==
    IF ~due THEN UNCHANGED alertVars
    ELSE IF sinceAlert < Cooldown
         THEN /\ untold' = untold + 1
              /\ UNCHANGED <<sinceAlert, suppressed>>
         ELSE /\ sinceAlert' = 0
              /\ untold' = untold - suppressed
              /\ suppressed' = 0

\* _take_alert; an alert tells of its own streak and of those held back.
Alerts(due) ==
    IF ~due THEN UNCHANGED alertVars
    ELSE IF sinceAlert < Cooldown
         THEN /\ suppressed < MaxHeld
              /\ suppressed' = suppressed + 1
              /\ untold' = untold + 1
              /\ UNCHANGED sinceAlert
         ELSE /\ sinceAlert' = 0
              /\ untold' = untold - suppressed
              /\ suppressed' = 0

\* record_failure.  When the delay's computation raises, the failure is counted,
\* the deadline stays and no alert is looked at.
Fails(a) ==
    LET c     == inside[a]
        known == c \in Live(c)
        rest  == (IF known THEN tracked ELSE RoomIn(Live(c))) \ {c}
        old   == IF known THEN streak[c] ELSE NoStreak
        n     == More(old.failures)
        due   == ~Raises(n) /\ ~old.alerted /\ n >= AlertAfter
    IN  /\ c # Nobody
        /\ tracked' = rest \cup {c}
        /\ older' = Among(rest) \cup (rest \X {c})
        /\ streak' = [d \in Clients |->
               IF d = c THEN [failures |-> n, wait |-> IF Raises(n) THEN old.wait ELSE Delay(n),
                              age |-> 0, alerted |-> old.alerted \/ due]
               ELSE IF d \in rest THEN streak[d] ELSE NoStreak]
        /\ Alerts(due)
        /\ inside' = [inside EXCEPT ![a] = Nobody]

\* The right password: reset.
LogsIn(a) ==
    /\ inside[a] # Nobody
    /\ Keeps(tracked \ {inside[a]})
    /\ inside' = [inside EXCEPT ![a] = Nobody]
    /\ UNCHANGED alertVars

Aged(s) == [failures |-> s.failures,
            wait |-> IF s.wait > 0 THEN s.wait - 1 ELSE 0,
            age |-> IF s.age < Forget THEN s.age + 1 ELSE s.age,
            alerted |-> s.alerted]

Ticks ==
    /\ streak' = [c \in Clients |-> IF c \in tracked THEN Aged(streak[c]) ELSE NoStreak]
    /\ sinceAlert' = IF sinceAlert < Cooldown THEN sinceAlert + 1 ELSE sinceAlert
    /\ UNCHANGED <<tracked, older, suppressed, untold, inside>>

LockoutNext ==
    \/ \E a \in Attempts : \/ \E c \in Clients : Admits(a, c)
                           \/ Leaves(a) \/ Fails(a) \/ LogsIn(a)
    \/ Ticks

LockoutSpec == LockoutInit /\ [][LockoutNext]_lockoutVars

\* Time passes.
FairLockout == LockoutSpec /\ WF_lockoutVars(Ticks)

-----------------------------------------------------------------------------
(* Properties *)

Waits(c) == streak[c].wait > 0

\* What may become of a wait in one step: it stays, time passes, its client gets
\* in, or it is the oldest of a full table.
WaitHolds(c) ==
    \/ c \in tracked' /\ streak'[c].wait >= streak[c].wait
    \/ Ticks
    \/ \E a \in Attempts : inside[a] = c /\ LogsIn(a)
    \/ /\ Cardinality(tracked) = MaxClients
       /\ \A d \in tracked : ~Forgotten(d) /\ streak[d].age <= streak[c].age

\* Every streak that was long enough has been told to the owner or is counted
\* in _suppressed, once, whatever was evicted, reset or forgotten since ("alerts
\* it holds back are counted into the next one").
AlertsAccounted ==
    /\ untold = suppressed
    /\ \A c \in tracked : streak[c].alerted <=> streak[c].failures >= AlertAfter

\* A wait ends only with time or a right password; a later failure does not
\* shorten it.  The one exception is a full table of remembered clients: then
\* the client goes whose last failure is the oldest.
WaitStands == [][\A c \in Clients : Waits(c) => WaitHolds(c)]_lockoutVars

\* A client is never locked out for good, with however many of its requests
\* past the check when the wait began.
NeverLockedForGood == \A c \in Clients : []<>~Waits(c)
=============================================================================
