-------------------------- MODULE LoginLockoutProofs --------------------------
(***************************************************************************)
(* Proofs about the login lock-out, for any clients and any settings the   *)
(* constructor accepts.                                                    *)
(***************************************************************************)
EXTENDS LoginLockout, CommonLemmas

\* The order of the table is by last failure, the oldest first.
OldestFirst ==
    /\ \A c \in tracked : <<c, c>> \notin older
    /\ \A c, d \in tracked : c = d \/ <<c, d>> \in older \/ <<d, c>> \in older
    /\ \A c, d, e \in tracked : <<c, d>> \in older /\ <<d, e>> \in older => <<c, e>> \in older
    /\ \A c, d \in tracked : <<c, d>> \in older => streak[d].age <= streak[c].age

\* A wait is over before its streak is forgotten, and no failure count asks for
\* less than what is left of it.
WaitsEnd ==
    /\ \A c \in Clients \ tracked : streak[c] = NoStreak
    /\ \A c \in tracked : /\ Waits(c) => streak[c].wait + streak[c].age <= MaxDelay
                          /\ streak[c].wait <= Delay(streak[c].failures)

LockoutInv == LockoutTypeOK /\ OldestFirst /\ WaitsEnd /\ AlertsAccounted

-----------------------------------------------------------------------------
(* Numbers *)

\* The delay is a number up to max_delay, and it does not fall.
LEMMA DelayGrows ==
    ASSUME NEW n \in 0 .. Saturated
    PROVE  /\ Delay(n) \in 0 .. MaxDelay
           /\ More(n) \in 0 .. Saturated /\ More(n) >= n
           /\ Delay(n) <= Delay(More(n))
<1>0. Free \in Nat /\ MaxExponent \in Nat /\ BaseDelay \in Nat \ {0} /\ MaxDelay \in Nat \ {0}
  BY LockoutAssumption
<1>1. ASSUME NEW m \in 0 .. Saturated
      PROVE  Delay(m) \in 0 .. MaxDelay
  <2>1. CASE m <= Free
    BY <1>0, <2>1 DEF Delay
  <2>2. CASE m > Free
    <3>1. m - Free - 1 \in 0 .. MaxExponent + 1
      BY <1>0, <1>1, <2>2 DEF Saturated
    <3> DEFINE p == 2 ^ (m - Free - 1)
    <3>2. p \in Nat \ {0}
      BY <3>1, PowersAssumption
    <3>3. Delay(m) = IF BaseDelay * p < MaxDelay THEN BaseDelay * p ELSE MaxDelay
      BY <1>0, <2>2 DEF Delay
    <3> HIDE DEF p
    <3>4. BaseDelay * p \in Nat
      BY <1>0, <3>2
    <3> QED
      BY <1>0, <3>3, <3>4
  <2> QED
    BY <1>0, <1>1, <2>1, <2>2 DEF Saturated
<1>2. More(n) \in 0 .. Saturated /\ More(n) >= n
  BY <1>0 DEF More, Saturated
<1>3. Delay(n) <= Delay(More(n))
  <2>1. CASE More(n) = n
    BY <1>0, <1>1, <2>1
  <2>2. CASE More(n) # n /\ n <= Free
    <3>1. Delay(n) = 0
      BY <2>2 DEF Delay
    <3> QED
      BY <1>0, <1>1, <1>2, <3>1
  <2>3. CASE More(n) # n /\ n > Free
    <3> DEFINE k == n - Free - 1
               p == 2 ^ k
               q == 2 ^ (k + 1)
    <3>1. More(n) = n + 1 /\ n < Saturated
      BY <2>3 DEF More
    <3>2. k \in 0 .. MaxExponent + 1
      BY <1>0, <2>3, <3>1 DEF Saturated
    <3>3. (n + 1) - Free - 1 = k + 1 /\ n + 1 > Free /\ k + 1 \in 0 .. MaxExponent + 1
      BY <1>0, <2>3, <3>1 DEF Saturated
    <3>4. p \in Nat \ {0} /\ q \in Nat \ {0} /\ p <= q
      BY <3>2, <3>3, PowersAssumption
    <3>5. Delay(n) = IF BaseDelay * p < MaxDelay THEN BaseDelay * p ELSE MaxDelay
      BY <1>0, <2>3 DEF Delay
    <3>6. Delay(n + 1) = IF BaseDelay * q < MaxDelay THEN BaseDelay * q ELSE MaxDelay
      BY <1>0, <3>3 DEF Delay
    <3> HIDE DEF k, p, q
    <3>7. BaseDelay * p <= BaseDelay * q /\ BaseDelay * p \in Nat /\ BaseDelay * q \in Nat
      BY <1>0, <3>4
    <3> QED
      BY <1>0, <3>1, <3>5, <3>6, <3>7
  <2> QED
    BY <1>0, <2>1, <2>2, <2>3 DEF Saturated
<1> QED
  BY <1>1, <1>2, <1>3

-----------------------------------------------------------------------------
(* The table *)

\* Clients that are tracked have a first one.
LEMMA FirstExists ==
    ASSUME LockoutTypeOK, OldestFirst, NEW S, S \subseteq tracked, S # {}
    PROVE  \E c \in S : First(S, c)
<1> DEFINE before(c) == {d \in S : <<d, c>> \in older}
           counts == {Cardinality(before(c)) : c \in S}
<1>1. IsFiniteSet(S)
  <2>1. tracked \in SUBSET Clients /\ IsFiniteSet(Clients)
    BY LockoutAssumption DEF LockoutTypeOK
  <2> QED
    BY <2>1, FS_Subset
<1>2. \A c \in S : IsFiniteSet(before(c)) /\ Cardinality(before(c)) \in Nat
  BY <1>1, FS_Subset, FS_CardinalityType
<1>3. counts \subseteq Nat /\ counts # {}
  BY <1>2
<1>4. PICK n \in counts : \A m \in counts : n <= m
  <2> HIDE DEF counts
  <2> QED
    BY <1>3, LeastNumber
<1>5. PICK c \in S : Cardinality(before(c)) = n
  BY <1>4
<1>6. First(S, c)
  <2> SUFFICES ASSUME NEW d \in S, <<d, c>> \in older
               PROVE  FALSE
    BY DEF First
  <2>1. before(d) \subseteq before(c)
    BY DEF OldestFirst
  <2>2. d \in before(c) /\ d \notin before(d)
    BY DEF OldestFirst
  <2>3. Cardinality(before(d)) <= Cardinality(before(c))
    BY <1>2, <2>1, FS_Subset
  <2>4. Cardinality(before(d)) # Cardinality(before(c))
    BY <1>2, <2>1, <2>2, FS_Subset
  <2>5. n <= Cardinality(before(d))
    BY <1>4
  <2>6. n \in Nat /\ Cardinality(before(d)) \in Nat
    BY <1>2, <1>3, <1>4
  <2> HIDE DEF before
  <2> QED
    BY <1>5, <2>3, <2>4, <2>5, <2>6
<1> QED
  BY <1>6

\* Making room leaves clients that were there, fewer than max_clients of them.
\* A client that is not forgotten leaves only a full table, as its first.
LEMMA RoomIsMade ==
    ASSUME LockoutTypeOK, OldestFirst, NEW S, S \subseteq tracked
    PROVE  /\ RoomIn(S) \subseteq S
           /\ IsFiniteSet(RoomIn(S)) /\ Cardinality(RoomIn(S)) < MaxClients
           /\ \A d \in S \ RoomIn(S) : ~Forgotten(d) =>
                  Cardinality(tracked) = MaxClients /\ S = tracked /\ First(tracked, d)
<1> DEFINE left == Remembered(S)
<1>1. left \subseteq S
  BY DEF Remembered
<1>2. /\ IsFiniteSet(tracked) /\ Cardinality(tracked) \in Nat /\ Cardinality(tracked) <= MaxClients
      /\ MaxClients \in Nat \ {0}
  <2>1. tracked \in SUBSET Clients /\ IsFiniteSet(Clients)
    BY LockoutAssumption DEF LockoutTypeOK
  <2> QED
    BY <2>1, FS_Subset, FS_CardinalityType, LockoutAssumption DEF LockoutTypeOK
<1>3. IsFiniteSet(left) /\ Cardinality(left) \in Nat /\ Cardinality(left) <= Cardinality(tracked)
  BY <1>1, <1>2, FS_Subset, FS_CardinalityType
<1>4. \A d \in S : ~Forgotten(d) => d \in left
  BY DEF Remembered
<1>5. CASE Cardinality(left) < MaxClients
  <2>1. RoomIn(S) = left
    BY <1>2, <1>3, <1>5 DEF RoomIn
  <2> QED
    BY <1>1, <1>3, <1>4, <1>5, <2>1
<1>6. CASE Cardinality(left) >= MaxClients
  <2> DEFINE kept == {c \in left : ~First(left, c)}
  <2>1. RoomIn(S) = kept
    BY <1>6 DEF RoomIn
  <2>2. left # {}
    BY <1>2, <1>6, FS_EmptySet
  <2>3. PICK c \in left : First(left, c)
    BY <1>1, <2>2, FirstExists
  <2>4. IsFiniteSet(kept) /\ Cardinality(kept) \in Nat
        /\ Cardinality(kept) <= Cardinality(left) /\ Cardinality(kept) # Cardinality(left)
    <3>1. kept \in SUBSET left /\ c \in left /\ c \notin kept
      BY <2>3
    <3> HIDE DEF kept, left
    <3> QED
      BY <1>3, <3>1, FS_Subset, FS_CardinalityType
  <2>5. left = tracked /\ S = tracked /\ Cardinality(tracked) = MaxClients
    <3>1. left \in SUBSET tracked /\ Cardinality(left) = Cardinality(tracked) /\ Cardinality(tracked) = MaxClients
      BY <1>1, <1>2, <1>3, <1>6
    <3>2. left = tracked
      BY <1>2, <3>1, FS_Subset
    <3> QED
      BY <1>1, <3>1, <3>2
  <2> HIDE DEF left
  <2>6. \A d \in S \ kept : First(tracked, d)
    BY <2>5
  <2> HIDE DEF kept
  <2>7. Cardinality(kept) < MaxClients /\ kept \subseteq S
    <3>1. kept \subseteq left
      BY DEF kept
    <3> QED
      BY <1>1, <1>2, <1>3, <2>4, <2>5, <3>1
  <2> QED
    BY <2>1, <2>4, <2>5, <2>6, <2>7
<1> QED
  BY <1>2, <1>3, <1>5, <1>6

\* A smaller table is in order as well.
LEMMA KeepsOrder ==
    ASSUME LockoutInv, NEW S, S \subseteq tracked, Keeps(S)
    PROVE  /\ tracked' \in SUBSET Clients /\ Cardinality(tracked') <= MaxClients
           /\ older' \in SUBSET (tracked' \X tracked') /\ streak' \in [Clients -> Streaks]
           /\ OldestFirst' /\ WaitsEnd'
           /\ \A c \in tracked' : streak'[c] = streak[c]
<1>1. LockoutTypeOK /\ OldestFirst /\ WaitsEnd
  BY DEF LockoutInv
<1>2. /\ tracked' = S /\ older' = older \cap (S \X S)
      /\ streak' = [c \in Clients |-> IF c \in S THEN streak[c] ELSE NoStreak]
  BY DEF Keeps, Among
<1>3. NoStreak \in Streaks
  BY LockoutAssumption DEF NoStreak, Streaks, Saturated
<1>4. tracked \subseteq Clients /\ streak \in [Clients -> Streaks]
  BY <1>1 DEF LockoutTypeOK
<1>5. \A c \in S : streak'[c] = streak[c]
  BY <1>2, <1>4
<1>6. Cardinality(S) <= MaxClients
  <2>1. IsFiniteSet(tracked) /\ Cardinality(tracked) <= MaxClients
    BY <1>1, <1>4, LockoutAssumption, FS_Subset DEF LockoutTypeOK
  <2>2. Cardinality(S) <= Cardinality(tracked) /\ Cardinality(S) \in Nat /\ Cardinality(tracked) \in Nat
    BY <2>1, FS_Subset, FS_CardinalityType
  <2> QED
    BY <2>1, <2>2, LockoutAssumption
<1>7. OldestFirst'
  BY <1>1, <1>2, <1>5 DEF OldestFirst
<1>8. WaitsEnd'
  BY <1>1, <1>2, <1>4, <1>5 DEF WaitsEnd, Waits
<1> QED
  BY <1>2, <1>3, <1>4, <1>5, <1>6, <1>7, <1>8

\* _live leaves clients that were there, and drops only what is forgotten; a
\* client that waits is not.
LEMMA LiveKeepsWaits ==
    ASSUME LockoutInv, NEW c \in Clients
    PROVE  /\ Live(c) \subseteq tracked
           /\ \A d \in tracked \ Live(c) : d = c /\ Forgotten(d)
           /\ \A d \in Clients : Waits(d) => d \in Live(c) /\ ~Forgotten(d)
<1>1. ASSUME NEW d \in Clients, Waits(d)
      PROVE  d \in tracked /\ ~Forgotten(d)
  <2>1. d \in tracked
    BY <1>1 DEF LockoutInv, WaitsEnd, Waits, NoStreak
  <2>2. streak[d] \in Streaks
    BY DEF LockoutInv, LockoutTypeOK
  <2>3. streak[d].wait + streak[d].age <= MaxDelay /\ streak[d].wait > 0
    BY <1>1, <2>1 DEF LockoutInv, WaitsEnd, Waits
  <2> QED
    BY <2>1, <2>2, <2>3, LockoutAssumption DEF Forgotten, Streaks
<1> QED
  BY <1>1 DEF Live

-----------------------------------------------------------------------------
(* The steps *)

WaitsHold == \A c \in Clients : Waits(c) => WaitHolds(c)

\* A request that is let in.
LEMMA AdmitsStep ==
    ASSUME LockoutInv, NEW a \in Attempts, NEW c \in Clients, Admits(a, c)
    PROVE  LockoutInv' /\ WaitsHold
<1>1. LockoutTypeOK /\ AlertsAccounted
  BY DEF LockoutInv
<1>2. /\ Keeps(Live(c)) /\ inside' = [inside EXCEPT ![a] = c]
      /\ sinceAlert' = sinceAlert /\ suppressed' = suppressed /\ untold' = untold
  BY DEF Admits, alertVars
<1>3. Live(c) \subseteq tracked /\ \A d \in Clients : Waits(d) => d \in Live(c) /\ ~Forgotten(d)
  BY LiveKeepsWaits
<1>4. /\ tracked' \in SUBSET Clients /\ Cardinality(tracked') <= MaxClients
      /\ older' \in SUBSET (tracked' \X tracked') /\ streak' \in [Clients -> Streaks]
      /\ OldestFirst' /\ WaitsEnd'
      /\ \A d \in tracked' : streak'[d] = streak[d]
  BY <1>2, <1>3, KeepsOrder
<1>5. tracked' = Live(c)
  BY <1>2 DEF Keeps
<1>6. LockoutTypeOK'
  BY <1>1, <1>2, <1>4 DEF LockoutTypeOK
<1>7. AlertsAccounted'
  BY <1>1, <1>2, <1>3, <1>4, <1>5 DEF AlertsAccounted
<1>8. WaitsHold
  <2>1. \A d \in Clients : Waits(d) => d \in tracked' /\ streak'[d] = streak[d] /\ streak[d].wait \in Int
    BY <1>1, <1>3, <1>4, <1>5 DEF LockoutTypeOK, Streaks
  <2> QED
    BY <2>1 DEF WaitsHold, WaitHolds
<1> QED
  BY <1>4, <1>6, <1>7, <1>8 DEF LockoutInv

\* A request that ends without a verdict.
LEMMA LeavesStep ==
    ASSUME LockoutInv, NEW a \in Attempts, Leaves(a)
    PROVE  LockoutInv' /\ WaitsHold
<1>1. LockoutTypeOK /\ OldestFirst /\ WaitsEnd /\ AlertsAccounted
  BY DEF LockoutInv
<1>2. /\ inside' = [inside EXCEPT ![a] = Nobody]
      /\ UNCHANGED <<tracked, older, streak, sinceAlert, suppressed, untold>>
  BY DEF Leaves, tableVars, alertVars
<1>3. LockoutTypeOK'
  BY <1>1, <1>2 DEF LockoutTypeOK
<1>4. OldestFirst' /\ WaitsEnd' /\ AlertsAccounted'
  BY <1>1, <1>2 DEF OldestFirst, WaitsEnd, Waits, AlertsAccounted
<1>5. WaitsHold
  <2>1. \A d \in Clients : Waits(d) => d \in tracked /\ streak[d].wait \in Int
    BY <1>1 DEF LockoutTypeOK, WaitsEnd, Waits, NoStreak, Streaks
  <2> QED
    BY <1>2, <2>1 DEF WaitsHold, WaitHolds
<1> QED
  BY <1>3, <1>4, <1>5 DEF LockoutInv

\* The right password.
LEMMA LogsInStep ==
    ASSUME LockoutInv, NEW a \in Attempts, LogsIn(a)
    PROVE  LockoutInv' /\ WaitsHold
<1>1. LockoutTypeOK /\ AlertsAccounted /\ WaitsEnd
  BY DEF LockoutInv
<1> DEFINE S == tracked \ {inside[a]}
<1>2. /\ Keeps(S) /\ inside' = [inside EXCEPT ![a] = Nobody]
      /\ sinceAlert' = sinceAlert /\ suppressed' = suppressed /\ untold' = untold
  BY DEF LogsIn, alertVars
<1>3. S \subseteq tracked
  OBVIOUS
<1>4. tracked' = S
  BY <1>2 DEF Keeps
<1> HIDE DEF S
<1>5. /\ tracked' \in SUBSET Clients /\ Cardinality(tracked') <= MaxClients
      /\ older' \in SUBSET (tracked' \X tracked') /\ streak' \in [Clients -> Streaks]
      /\ OldestFirst' /\ WaitsEnd'
      /\ \A d \in tracked' : streak'[d] = streak[d]
  BY <1>2, <1>3, KeepsOrder
<1>6. LockoutTypeOK'
  BY <1>1, <1>2, <1>5 DEF LockoutTypeOK
<1>7. AlertsAccounted'
  BY <1>1, <1>2, <1>3, <1>4, <1>5 DEF AlertsAccounted
<1>8. WaitsHold
  <2> SUFFICES ASSUME NEW d \in Clients, Waits(d)
               PROVE  WaitHolds(d)
    BY DEF WaitsHold
  <2>1. CASE inside[a] = d
    BY <2>1 DEF WaitHolds
  <2>2. CASE inside[a] # d
    <3>1. d \in tracked /\ streak[d].wait \in Int
      BY <1>1 DEF LockoutTypeOK, WaitsEnd, Waits, NoStreak, Streaks
    <3>2. d \in tracked'
      BY <1>4, <2>2, <3>1 DEF S
    <3> QED
      BY <1>5, <3>1, <3>2 DEF WaitHolds
  <2> QED
    BY <2>1, <2>2
<1> QED
  BY <1>5, <1>6, <1>7, <1>8 DEF LockoutInv

\* Time passes.
LEMMA TicksStep ==
    ASSUME LockoutInv, Ticks
    PROVE  LockoutInv' /\ WaitsHold
<1>1. LockoutTypeOK /\ OldestFirst /\ WaitsEnd /\ AlertsAccounted
  BY DEF LockoutInv
<1>2. /\ streak' = [c \in Clients |-> IF c \in tracked THEN Aged(streak[c]) ELSE NoStreak]
      /\ sinceAlert' = IF sinceAlert < Cooldown THEN sinceAlert + 1 ELSE sinceAlert
      /\ UNCHANGED <<tracked, older, suppressed, untold, inside>>
  BY DEF Ticks
<1>3. NoStreak \in Streaks
  BY LockoutAssumption DEF NoStreak, Streaks, Saturated
<1>4. \A s \in Streaks : /\ Aged(s) \in Streaks
                         /\ Aged(s).failures = s.failures /\ Aged(s).alerted = s.alerted
                         /\ Aged(s).wait <= s.wait
                         /\ Aged(s).wait > 0 => s.wait > 0 /\ Aged(s).wait + Aged(s).age <= s.wait + s.age
                         /\ \A t \in Streaks : t.age <= s.age => Aged(t).age <= Aged(s).age
  BY LockoutAssumption DEF Aged, Streaks
<1>5. tracked \subseteq Clients /\ streak \in [Clients -> Streaks]
  BY <1>1 DEF LockoutTypeOK
<1>6. \A c \in tracked : streak'[c] = Aged(streak[c]) /\ streak[c] \in Streaks
  BY <1>2, <1>5
<1>7. LockoutTypeOK'
  <2>1. streak' \in [Clients -> Streaks]
    BY <1>2, <1>3, <1>4, <1>5
  <2>2. sinceAlert' \in 0 .. Cooldown
    BY <1>1, <1>2, LockoutAssumption DEF LockoutTypeOK
  <2> QED
    BY <1>1, <1>2, <2>1, <2>2 DEF LockoutTypeOK
<1>8. OldestFirst'
  BY <1>1, <1>2, <1>4, <1>6 DEF OldestFirst
<1>9. WaitsEnd'
  <2>1. \A c \in Clients \ tracked : streak'[c] = NoStreak
    BY <1>2
  <2>2. ASSUME NEW c \in tracked
        PROVE  /\ streak'[c].wait > 0 => streak'[c].wait + streak'[c].age <= MaxDelay
               /\ streak'[c].wait <= Delay(streak'[c].failures)
    <3>1. streak[c] \in Streaks /\ streak'[c] = Aged(streak[c]) /\ Aged(streak[c]) \in Streaks
      BY <1>4, <1>6
    <3>2. /\ streak[c].wait > 0 => streak[c].wait + streak[c].age <= MaxDelay
          /\ streak[c].wait <= Delay(streak[c].failures)
      BY <1>1 DEF WaitsEnd, Waits
    <3>3. Delay(streak[c].failures) \in 0 .. MaxDelay
      BY <3>1, DelayGrows DEF Streaks
    <3>4. /\ streak'[c].failures = streak[c].failures
          /\ streak'[c].wait <= streak[c].wait
          /\ streak'[c].wait > 0 =>
                 streak[c].wait > 0 /\ streak'[c].wait + streak'[c].age <= streak[c].wait + streak[c].age
      BY <1>4, <3>1
    <3>5. /\ streak[c].wait \in Int /\ streak[c].age \in Int
          /\ streak'[c].wait \in Int /\ streak'[c].age \in Int
      BY <3>1 DEF Streaks
    <3> QED
      BY <3>2, <3>3, <3>4, <3>5, LockoutAssumption
  <2> QED
    BY <1>2, <2>1, <2>2 DEF WaitsEnd, Waits
<1>10. AlertsAccounted'
  BY <1>1, <1>2, <1>4, <1>6 DEF AlertsAccounted
<1>11. WaitsHold
  BY DEF WaitsHold, WaitHolds
<1> QED
  BY <1>7, <1>8, <1>9, <1>10, <1>11 DEF LockoutInv

\* A wrong password.
LEMMA FailsStep ==
    ASSUME LockoutInv, NEW a \in Attempts, Fails(a)
    PROVE  LockoutInv' /\ WaitsHold
<1>1. LockoutTypeOK /\ OldestFirst /\ WaitsEnd /\ AlertsAccounted
  BY DEF LockoutInv
<1> DEFINE c     == inside[a]
           known == c \in Live(c)
           room  == IF known THEN tracked ELSE RoomIn(Live(c))
           rest  == room \ {c}
           old   == IF known THEN streak[c] ELSE NoStreak
           n     == More(old.failures)
           due   == ~Raises(n) /\ ~old.alerted /\ n >= AlertAfter
           mine  == [failures |-> n, wait |-> IF Raises(n) THEN old.wait ELSE Delay(n),
                     age |-> 0, alerted |-> old.alerted \/ due]
<1>2. /\ c # Nobody
      /\ tracked' = rest \cup {c}
      /\ older' = (older \cap (rest \X rest)) \cup (rest \X {c})
      /\ streak' = [d \in Clients |-> IF d = c THEN mine ELSE IF d \in rest THEN streak[d] ELSE NoStreak]
      /\ Alerts(due)
      /\ inside' = [inside EXCEPT ![a] = Nobody]
  BY DEF Fails, Among
<1>3. c \in Clients
  BY <1>1, <1>2 DEF LockoutTypeOK
<1>4. NoStreak \in Streaks
  BY LockoutAssumption DEF NoStreak, Streaks, Saturated
<1>5. tracked \subseteq Clients /\ streak \in [Clients -> Streaks] /\ IsFiniteSet(tracked)
      /\ Cardinality(tracked) <= MaxClients
  BY <1>1, LockoutAssumption, FS_Subset DEF LockoutTypeOK
<1>6. /\ Live(c) \subseteq tracked
      /\ \A d \in tracked \ Live(c) : d = c /\ Forgotten(d)
      /\ \A d \in Clients : Waits(d) => d \in Live(c) /\ ~Forgotten(d)
  BY <1>3, LiveKeepsWaits
<1>7. /\ RoomIn(Live(c)) \subseteq Live(c)
      /\ IsFiniteSet(RoomIn(Live(c))) /\ Cardinality(RoomIn(Live(c))) < MaxClients
      /\ \A d \in Live(c) \ RoomIn(Live(c)) : ~Forgotten(d) =>
             Cardinality(tracked) = MaxClients /\ Live(c) = tracked /\ First(tracked, d)
  BY <1>1, <1>6, RoomIsMade
<1>8. room \subseteq tracked /\ rest \subseteq tracked /\ c \notin rest
  BY <1>6, <1>7
<1>9. old \in Streaks
  BY <1>3, <1>4, <1>5
<1> HIDE DEF old
<1>10. n \in 0 .. Saturated /\ n >= old.failures /\ Delay(n) \in 0 .. MaxDelay
       /\ Delay(old.failures) <= Delay(n) /\ Delay(old.failures) \in 0 .. MaxDelay
  <2>1. old.failures \in 0 .. Saturated
    BY <1>9 DEF Streaks
  <2>2. More(old.failures) \in 0 .. Saturated
    BY <2>1, DelayGrows
  <2> QED
    BY <2>1, <2>2, DelayGrows
<1> HIDE DEF n
<1>11. mine \in Streaks
  BY <1>9, <1>10, LockoutAssumption DEF Streaks
<1>12. old.wait <= Delay(old.failures)
  <2>1. CASE known
    BY <1>1, <1>6, <2>1 DEF WaitsEnd, old
  <2>2. CASE ~known
    <3>1. old.wait = 0
      BY <2>2 DEF old, NoStreak
    <3> QED
      BY <1>10, <3>1, LockoutAssumption
  <2> QED
    BY <2>1, <2>2
<1>13. /\ mine.wait >= old.wait /\ mine.wait <= Delay(mine.failures) /\ mine.wait <= MaxDelay
       /\ mine.age = 0 /\ mine.failures = n
  <2>1. old.wait \in 0 .. MaxDelay
    BY <1>9 DEF Streaks
  <2>2. Delay(n) >= old.wait
    BY <1>10, <1>12, <2>1, LockoutAssumption
  <2> QED
    BY <1>10, <2>1, <2>2, LockoutAssumption
<1>14. mine.alerted <=> n >= AlertAfter
  <2>1. old.alerted <=> old.failures >= AlertAfter
    <3>1. CASE known
      BY <1>1, <1>6, <3>1 DEF AlertsAccounted, old
    <3>2. CASE ~known
      BY <3>2, LockoutAssumption DEF old, NoStreak
    <3> QED
      BY <3>1, <3>2
  <2>2. old.failures \in Nat /\ old.alerted \in BOOLEAN
    BY <1>9, LockoutAssumption DEF Streaks, Saturated
  <2>3. ~(old.failures >= AlertAfter) => ~Raises(n)
    <3>1. n <= old.failures + 1
      BY <2>2 DEF n, More
    <3> QED
      BY <1>10, <2>2, <3>1, LockoutAssumption DEF Raises, Saturated
  <2>4. n \in Nat
    BY <1>10, LockoutAssumption DEF Saturated
  <2>5. mine.alerted = (old.alerted \/ due)
    OBVIOUS
  <2>6. old.alerted => n >= AlertAfter
    BY <1>10, <2>1, <2>2, <2>4, LockoutAssumption
  <2> QED
    BY <2>1, <2>3, <2>5, <2>6
<1> HIDE DEF mine, due
<1>15. /\ streak'[c] = mine
       /\ \A d \in rest : streak'[d] = streak[d] /\ d \in Clients /\ d # c
       /\ \A d \in Clients \ tracked' : streak'[d] = NoStreak
  <2> HIDE DEF rest, c
  <2> QED
    BY <1>2, <1>3, <1>5, <1>8
<1>16. LockoutTypeOK'
  <2>1. tracked' \in SUBSET Clients /\ older' \in SUBSET (tracked' \X tracked')
    <3> HIDE DEF rest, c
    <3> QED
      BY <1>2, <1>3, <1>5, <1>8
  <2>2. Cardinality(tracked') <= MaxClients
    <3>1. CASE known
      <4>1. tracked' = tracked
        BY <1>2, <1>6, <3>1
      <4> QED
        BY <1>5, <4>1
    <3>2. CASE ~known
      <4>1. tracked' = RoomIn(Live(c)) \cup {c}
        BY <1>2, <3>2
      <4> DEFINE made == RoomIn(Live(c))
      <4>2. IsFiniteSet(made) /\ Cardinality(made) < MaxClients
        BY <1>7
      <4> HIDE DEF made, c
      <4>3. Cardinality(made) \in Nat
        BY <4>2, FS_CardinalityType
      <4>4. Cardinality(made \cup {c}) = IF c \in made THEN Cardinality(made) ELSE Cardinality(made) + 1
        BY <4>2, FS_AddElement
      <4>5. Cardinality(made \cup {c}) <= MaxClients
        BY <4>2, <4>3, <4>4, LockoutAssumption
      <4> QED
        BY <4>1, <4>5 DEF made
    <3> QED
      BY <3>1, <3>2
  <2>3. streak' \in [Clients -> Streaks]
    BY <1>2, <1>4, <1>5, <1>11
  <2>4. sinceAlert' \in 0 .. Cooldown /\ suppressed' \in 0 .. MaxHeld /\ untold' \in Int
    <3>1. sinceAlert \in 0 .. Cooldown /\ suppressed \in 0 .. MaxHeld /\ untold \in Int
      BY <1>1 DEF LockoutTypeOK
    <3>2. Cooldown \in Nat /\ MaxHeld \in Nat
      BY LockoutAssumption
    <3> QED
      BY <1>2, <3>1, <3>2 DEF Alerts, alertVars
  <2>5. inside' \in [Attempts -> Clients \cup {Nobody}]
    BY <1>1, <1>2 DEF LockoutTypeOK
  <2> QED
    BY <2>1, <2>2, <2>3, <2>4, <2>5 DEF LockoutTypeOK
<1>17. OldestFirst'
  <2>1. \A d \in rest : streak[d] \in Streaks
    BY <1>5, <1>8
  <2>2. \A d \in rest : streak'[c].age <= streak'[d].age
    BY <1>13, <1>15, <2>1 DEF Streaks
  <2>3. \A d, e \in tracked' : <<d, e>> \in older' <=>
            d \in rest /\ (e = c \/ (e \in rest /\ <<d, e>> \in older))
    <3> HIDE DEF rest, c
    <3> QED
      BY <1>2
  <2> HIDE DEF rest, c
  <2> QED
    BY <1>1, <1>2, <1>8, <1>15, <2>2, <2>3 DEF OldestFirst
<1>18. WaitsEnd'
  <2>1. ASSUME NEW d \in tracked'
        PROVE  /\ streak'[d].wait > 0 => streak'[d].wait + streak'[d].age <= MaxDelay
               /\ streak'[d].wait <= Delay(streak'[d].failures)
    <3>1. CASE d = c
      <4>1. mine.wait \in Int
        BY <1>11 DEF Streaks
      <4> QED
        BY <1>13, <1>15, <3>1, <4>1
    <3>2. CASE d \in rest
      BY <1>1, <1>8, <1>15, <3>2 DEF WaitsEnd, Waits
    <3> QED
      BY <1>2, <2>1, <3>1, <3>2
  <2> QED
    BY <1>15, <2>1 DEF WaitsEnd, Waits
<1>19. AlertsAccounted'
  <2>1. untold' = suppressed'
    BY <1>1, <1>2 DEF AlertsAccounted, LockoutTypeOK, Alerts, alertVars
  <2>2. \A d \in tracked' : streak'[d].alerted <=> streak'[d].failures >= AlertAfter
    BY <1>1, <1>2, <1>8, <1>13, <1>14, <1>15 DEF AlertsAccounted
  <2> QED
    BY <2>1, <2>2 DEF AlertsAccounted
<1>20. WaitsHold
  <2> SUFFICES ASSUME NEW d \in Clients, Waits(d)
               PROVE  WaitHolds(d)
    BY DEF WaitsHold
  <2>1. d \in Live(c) /\ ~Forgotten(d) /\ d \in tracked /\ streak[d].wait \in Int
    BY <1>5, <1>6 DEF Streaks
  <2>2. CASE d = c
    <3>1. old = streak[d]
      BY <2>1, <2>2 DEF old
    <3> QED
      BY <1>2, <1>13, <1>15, <2>2, <3>1 DEF WaitHolds
  <2>3. CASE d # c /\ d \in room
    BY <1>2, <1>15, <2>1, <2>3 DEF WaitHolds
  <2>4. CASE d # c /\ d \notin room
    <3>1. d \in Live(c) \ RoomIn(Live(c))
      BY <2>1, <2>4
    <3>2. Cardinality(tracked) = MaxClients /\ First(tracked, d)
      BY <1>7, <2>1, <3>1
    <3>3. ASSUME NEW e \in tracked
          PROVE  ~Forgotten(e) /\ streak[e].age <= streak[d].age
      <4>1. e = d \/ <<d, e>> \in older
        BY <1>1, <2>1, <3>2 DEF OldestFirst, First
      <4>2. streak[e].age \in Int /\ streak[d].age \in Int
        BY <1>5, <2>1 DEF Streaks
      <4>3. streak[e].age <= streak[d].age
        BY <1>1, <2>1, <4>1, <4>2 DEF OldestFirst
      <4> QED
        BY <2>1, <4>2, <4>3, LockoutAssumption DEF Forgotten
    <3> QED
      BY <3>2, <3>3 DEF WaitHolds
  <2> QED
    BY <2>2, <2>3, <2>4
<1> QED
  BY <1>16, <1>17, <1>18, <1>19, <1>20 DEF LockoutInv

\* Every step keeps the invariant and the waits.
LEMMA LockoutNextStep ==
    ASSUME LockoutInv, [LockoutNext]_lockoutVars
    PROVE  LockoutInv' /\ [WaitsHold]_lockoutVars
<1>1. CASE LockoutNext
  <2>1. ASSUME NEW a \in Attempts, NEW c \in Clients, Admits(a, c)
        PROVE  LockoutInv' /\ WaitsHold
    BY <2>1, AdmitsStep
  <2>2. ASSUME NEW a \in Attempts, Leaves(a)
        PROVE  LockoutInv' /\ WaitsHold
    BY <2>2, LeavesStep
  <2>3. ASSUME NEW a \in Attempts, Fails(a)
        PROVE  LockoutInv' /\ WaitsHold
    BY <2>3, FailsStep
  <2>4. ASSUME NEW a \in Attempts, LogsIn(a)
        PROVE  LockoutInv' /\ WaitsHold
    BY <2>4, LogsInStep
  <2>5. ASSUME Ticks
        PROVE  LockoutInv' /\ WaitsHold
    BY <2>5, TicksStep
  <2> QED
    BY <1>1, <2>1, <2>2, <2>3, <2>4, <2>5 DEF LockoutNext
<1>2. CASE UNCHANGED lockoutVars
  BY <1>2 DEF lockoutVars, tableVars, alertVars, LockoutInv, LockoutTypeOK, OldestFirst, WaitsEnd, Waits,
              AlertsAccounted
<1> QED
  BY <1>1, <1>2

\* An empty table satisfies the invariant.
LEMMA LockoutInitEstablishesInv ==
    ASSUME LockoutInit
    PROVE  LockoutInv
<1>1. NoStreak \in Streaks
  BY LockoutAssumption DEF NoStreak, Streaks, Saturated
<1>2. Cardinality({}) = 0
  BY FS_EmptySet
<1>3. LockoutTypeOK
  BY <1>1, <1>2, LockoutAssumption DEF LockoutInit, LockoutTypeOK
<1> QED
  BY <1>3 DEF LockoutInit, LockoutInv, OldestFirst, WaitsEnd, AlertsAccounted

-----------------------------------------------------------------------------

\* The table never holds more than max_clients streaks, nor anything that is not
\* a streak.
THEOREM LockoutTypeCorrect == LockoutSpec => []LockoutTypeOK
<1>1. LockoutInv => LockoutTypeOK
  BY DEF LockoutInv
<1> QED
  BY <1>1, LockoutInitEstablishesInv, LockoutNextStep, PTL DEF LockoutSpec

\* Every streak that was due an alert has been told of, or is counted.
THEOREM AlertsAlwaysAccounted == LockoutSpec => []AlertsAccounted
<1>1. LockoutInv => AlertsAccounted
  BY DEF LockoutInv
<1> QED
  BY <1>1, LockoutInitEstablishesInv, LockoutNextStep, PTL DEF LockoutSpec

\* A wait is ended by time, by the right password, or in a full table of clients
\* whose last failure is no older.
THEOREM WaitsAlwaysStand == LockoutSpec => WaitStands
<1>1. LockoutInv /\ [LockoutNext]_lockoutVars => [WaitsHold]_lockoutVars
  BY LockoutNextStep
<1>2. LockoutSpec => [][WaitsHold]_lockoutVars
  BY <1>1, LockoutInitEstablishesInv, LockoutNextStep, PTL DEF LockoutSpec
<1> QED
  BY <1>2, PTL DEF WaitStands, WaitsHold
=============================================================================
