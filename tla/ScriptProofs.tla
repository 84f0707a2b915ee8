---------------------------- MODULE ScriptProofs ----------------------------
(***************************************************************************)
(* Theorems about what runs beside the hub, for every choice of the        *)
(* constants: the ratchet scripts, the routing of the e2e tests and the    *)
(* installer.                                                              *)
(*                                                                         *)
(* NothingGrowsUnseen is not inductive: an update may lower the ceiling,   *)
(* so what is recorded has to be below it already.  RecordedBelow says     *)
(* that, and that a key no baseline records has no ceiling.                *)
(***************************************************************************)
EXTENDS Ratchets, E2eRouting, Installer, CommonLemmas

-----------------------------------------------------------------------------
(* Ratchets *)

\* The shape of the state.
RatchetTypeOK ==
    /\ stage \in RatchetStages
    /\ tree \in [RatchetFiles -> [hits : Nat, more : Nat, state : {"fine", "broken", "deleted"}]]
    /\ baseline \in [is : {"missing", "good", "bad"}, debt : [RatchetKeys -> Int],
                     records : SUBSET RatchetKeys]
    /\ ceiling \in [RatchetKeys -> Int]
    /\ vouched \in SUBSET RatchetKeys

\* What a good baseline records was accepted; what it does not record is the
\* near-limit band or the layout of an older one.
RecordedBelow ==
    baseline.is = "good" =>
        \A k \in RatchetKeys :
            /\ k \in baseline.records =>
                   ceiling[k] = Unlimited \/ baseline.debt[k] <= ceiling[k]
            /\ k \notin baseline.records =>
                   ceiling[k] = Unlimited /\ stage = "structure" /\ k \in {"band", "more"}

RatchetInv == RatchetTypeOK /\ RecordedBelow /\ NothingGrowsUnseen

-----------------------------------------------------------------------------

\* What a script counts is a number for every key.
LEMMA DebtTyped ==
    ASSUME RatchetTypeOK
    PROVE  StageDebt \in [RatchetKeys -> Int]
<1>1. \A S : HitsIn("own", S) \in Int /\ HitsIn("other", S) \in Int
  BY DEF RatchetTypeOK, HitsIn, RatchetFiles
<1>2. MoreIn("own") \in Int
  BY DEF RatchetTypeOK, MoreIn, RatchetFiles
<1>3. \A S : Debts(S) \in [RatchetKeys -> Int]
  BY <1>1 DEF Debts, NoDebt, RatchetKeys
<1>4. \A S : DebtsAndMore(S) \in [RatchetKeys -> Int]
  BY <1>2, <1>3 DEF DebtsAndMore, RatchetKeys
<1>5. DeadCodeDebt \in [RatchetKeys -> Int]
  BY <1>3 DEF DeadCodeDebt, RatchetKeys
<1>6. StructureDebt \in [RatchetKeys -> Int]
  <2>1. \A n \in Int : OverLimit(n) \in Int
    BY DEF OverLimit
  <2>2. Near("own") + Near("other") \in Int
    BY DEF Near
  <2>3. tree["own"].more \in Int
    BY DEF RatchetTypeOK, RatchetFiles
  <2> QED
    BY <1>1, <2>1, <2>2, <2>3 DEF StructureDebt, RatchetKeys
<1> QED
  BY <1>3, <1>4, <1>5, <1>6
     DEF RatchetTypeOK, RatchetStages, StageDebt, CommentDebt, ConventionsDebt, DocRefsDebt, DocsDebt,
         InstructionDebt, RuntimeWriteDebt, StaticDebt, UsageTrackDebt

\* What a run compares with.
RecordOf(q) == IF stage = "structure" THEN StructureRecord(q) ELSE baseline.debt
FoundBy(q) == IF stage = "structure" THEN StructureFound(q) ELSE StageDebt

\* What a run compares of the debt is the debt.
LEMMA FoundIsDebt ==
    ASSUME RatchetTypeOK, NEW q, NEW k \in Compared(q)
    PROVE  k \in RatchetKeys /\ FoundBy(q)[k] = StageDebt[k]
<1>1. k \in RatchetKeys
  BY DEF Compared
<1>2. CASE stage = "structure"
  <2>1. StageDebt = StructureDebt
    BY <1>2 DEF StageDebt
  <2>2. StructureDebt \in [RatchetKeys -> Int]
    BY <2>1, DebtTyped
  <2>3. q.fault = "no shape" => k # "more"
    BY <1>2 DEF Compared
  <2>4. StructureFound(q)[k] = StructureDebt[k]
    BY <1>1, <2>2, <2>3 DEF StructureFound
  <2> QED
    BY <1>1, <1>2, <2>1, <2>4 DEF FoundBy
<1>3. CASE stage # "structure"
  BY <1>1, <1>3 DEF FoundBy
<1> QED
  BY <1>2, <1>3

\* A run that nothing ends before passes as the comparison does.
LEMMA ComparisonDecides ==
    ASSUME NEW a, NEW b, NEW c, a # PASS, b # PASS,
           FirstOf(a, FirstOf(b, c)) = PASS
    PROVE  a = GoesOn /\ c = PASS
BY DEF FirstOf, PASS, GoesOn

\* An enabled stage is never passed for another reason than its counts, and only
\* an --init does without a good baseline.
LEMMA NoEarlyPass ==
    ASSUME NEW q \in RunRequests, baseline.is \in {"missing", "good", "bad"}
    PROVE  /\ Refusal(q, "on") # PASS
           /\ Refusal(q, "on") = GoesOn /\ q.mode # "init" => baseline.is = "good"
           /\ \A S : Unread(q, S) # PASS
BY DEF RunRequests, Refusal, Unread, PASS, RISE, BAD_CONFIG, NOT_CONFIRMED, GoesOn

\* A check or a plain update that passes has a good baseline and found no count
\* above it.
LEMMA PassMeansNoRise ==
    ASSUME RatchetTypeOK, NEW q \in RunRequests, Confirmed(q), q.mode \in {"check", "update"}
    PROVE  baseline.is = "good" /\ Risen(FoundBy(q), RecordOf(q)) = {}
<1>0. /\ StageRun(q) = PASS
      /\ StageConfig(q.fault) = "on"
      /\ baseline.is \in {"missing", "good", "bad"}
      /\ q.mode # "init"
  BY DEF Confirmed, RatchetTypeOK
<1>1. /\ Refusal(q, "on") # PASS
      /\ Refusal(q, "on") = GoesOn /\ q.mode # "init" => baseline.is = "good"
      /\ \A S : Unread(q, S) # PASS
  BY <1>0, NoEarlyPass
<1>2. \A debt, record : Judged(q, debt, record) = PASS => Risen(debt, record) = {}
  BY DEF Judged, PASS, RISE
<1>3. BAD_CONFIG # PASS /\ NOT_CONFIRMED # PASS /\ RISE # PASS
  BY DEF PASS, RISE, BAD_CONFIG, NOT_CONFIRMED
<1>4. CASE stage = "comment"
  <2>1. FirstOf(Refusal(q, "on"), FirstOf(Unread(q, CommentScope), Judged(q, CommentDebt, baseline.debt))) = PASS
    BY <1>0, <1>4 DEF StageRun, StageConfig, CommentRun
  <2> QED
    BY <1>0, <1>1, <1>2, <1>4, <2>1, ComparisonDecides DEF FoundBy, RecordOf, StageDebt
<1>5. CASE stage = "conventions"
  <2>1. FirstOf(Refusal(q, "on"), FirstOf(Unread(q, ConventionsScope), Judged(q, ConventionsDebt, baseline.debt))) = PASS
    BY <1>0, <1>5 DEF StageRun, StageConfig, ConventionsRun
  <2> QED
    BY <1>0, <1>1, <1>2, <1>5, <2>1, ComparisonDecides DEF FoundBy, RecordOf, StageDebt
<1>6. CASE stage = "dead_code"
  <2>1. FirstOf(Refusal(q, "on"), FirstOf(Unread(q, RatchetFiles), Judged(q, DeadCodeDebt, baseline.debt))) = PASS
    BY <1>0, <1>6 DEF StageRun, StageConfig, DeadCodeRun
  <2> QED
    BY <1>0, <1>1, <1>2, <1>6, <2>1, ComparisonDecides DEF FoundBy, RecordOf, StageDebt
<1>7. CASE stage = "doc_refs"
  <2>1. FirstOf(Refusal(q, "on"), FirstOf(Unread(q, DocRefsScope), Judged(q, DocRefsDebt, baseline.debt))) = PASS
    BY <1>0, <1>7 DEF StageRun, StageConfig, DocRefsRun
  <2> QED
    BY <1>0, <1>1, <1>2, <1>7, <2>1, ComparisonDecides DEF FoundBy, RecordOf, StageDebt
<1>8. CASE stage = "docs"
  <2>1. FirstOf(Refusal(q, "on"), FirstOf(Unread(q, DocsScope), Judged(q, DocsDebt, baseline.debt))) = PASS
    BY <1>0, <1>8 DEF StageRun, StageConfig, DocsRun
  <2> QED
    BY <1>0, <1>1, <1>2, <1>8, <2>1, ComparisonDecides DEF FoundBy, RecordOf, StageDebt
<1>9. CASE stage = "instruction"
  <2> DEFINE reads == IF q.fault = "missing file" THEN BAD_CONFIG ELSE Unread(q, InstructionScope)
  <2>1. FirstOf(Refusal(q, "on"), FirstOf(reads, Judged(q, InstructionDebt, baseline.debt))) = PASS
    BY <1>0, <1>9 DEF StageRun, StageConfig, InstructionRun
  <2>2. reads # PASS
    BY <1>1, <1>3
  <2> HIDE DEF reads
  <2> QED
    BY <1>0, <1>1, <1>2, <1>9, <2>1, <2>2, ComparisonDecides DEF FoundBy, RecordOf, StageDebt
<1>10. CASE stage = "runtime_write"
  <2> DEFINE judged == IF q.mode = "check" /\ Risen(RuntimeWriteDebt, baseline.debt) = {"more"}
                       THEN NOT_CONFIRMED ELSE Judged(q, RuntimeWriteDebt, baseline.debt)
  <2>1. FirstOf(Refusal(q, "on"), FirstOf(Unread(q, RuntimeWriteScope), judged)) = PASS
    BY <1>0, <1>10 DEF StageRun, StageConfig, RuntimeWriteRun
  <2>2. judged = PASS => Judged(q, RuntimeWriteDebt, baseline.debt) = PASS
    BY <1>3
  <2> HIDE DEF judged
  <2>3. Refusal(q, "on") = GoesOn /\ judged = PASS
    BY <1>1, <2>1, ComparisonDecides
  <2> QED
    BY <1>0, <1>1, <1>2, <1>10, <2>2, <2>3 DEF FoundBy, RecordOf, StageDebt
<1>11. CASE stage = "static"
  <2>1. FirstOf(Refusal(q, "on"), FirstOf(Unread(q, {}), Judged(q, StaticDebt, baseline.debt))) = PASS
    BY <1>0, <1>11 DEF StageRun, StageConfig, StaticRun
  <2> QED
    BY <1>0, <1>1, <1>2, <1>11, <2>1, ComparisonDecides DEF FoundBy, RecordOf, StageDebt
<1>12. CASE stage = "structure"
  <2> DEFINE refused == IF q.fault = "bad shape" THEN NOT_CONFIRMED ELSE Refusal(q, "on")
  <2>0. StructureConfig(q.fault) = "on"
    BY <1>0, <1>12 DEF StageConfig
  <2>1. FirstOf(refused, FirstOf(Unread(q, StructureScope), Judged(q, StructureFound(q), StructureRecord(q)))) = PASS
    BY <1>0, <1>12, <2>0 DEF StageRun, StructureRun
  <2>2. refused # PASS /\ (refused = GoesOn => Refusal(q, "on") = GoesOn)
    <3>1. NOT_CONFIRMED # PASS /\ NOT_CONFIRMED # GoesOn
      BY DEF NOT_CONFIRMED, PASS, GoesOn
    <3> QED
      BY <1>1, <3>1
  <2> HIDE DEF refused
  <2> QED
    BY <1>0, <1>1, <1>2, <1>12, <2>1, <2>2, ComparisonDecides DEF FoundBy, RecordOf
<1>13. CASE stage = "usage_track"
  <2> DEFINE reads == IF q.fault = "missing file" THEN BAD_CONFIG ELSE Unread(q, UsageTrackScope)
             judged == IF q.mode = "check" /\ q.fault = "unwired" THEN RISE
                       ELSE Judged(q, UsageTrackDebt, baseline.debt)
  <2>1. FirstOf(Refusal(q, "on"), FirstOf(reads, judged)) = PASS
    BY <1>0, <1>13 DEF StageRun, StageConfig, UsageTrackRun
  <2>2. reads # PASS /\ (judged = PASS => Judged(q, UsageTrackDebt, baseline.debt) = PASS)
    BY <1>1, <1>3
  <2> HIDE DEF reads, judged
  <2>3. Refusal(q, "on") = GoesOn /\ judged = PASS
    BY <1>1, <2>1, <2>2, ComparisonDecides
  <2> QED
    BY <1>0, <1>1, <1>2, <1>13, <2>2, <2>3 DEF FoundBy, RecordOf, StageDebt
<1> QED
  BY <1>4, <1>5, <1>6, <1>7, <1>8, <1>9, <1>10, <1>11, <1>12, <1>13 DEF RatchetTypeOK, RatchetStages

-----------------------------------------------------------------------------

\* A step that leaves what is looked at, and the ceiling, leaves what is said
\* about it.
LEMMA WriteKeepsInv ==
    ASSUME RatchetInv, NEW q \in RunRequests, WritesBaseline(q)
    PROVE  RatchetInv'
<1> DEFINE seen == [k \in RatchetKeys |-> IF k \in Compared(q) THEN StageDebt[k] ELSE 0]
<1>1. RatchetTypeOK /\ RecordedBelow
  BY DEF RatchetInv
<1>2. /\ baseline' = [is |-> "good", debt |-> seen, records |-> Compared(q)]
      /\ ceiling' = [k \in RatchetKeys |->
             IF k \notin Compared(q) THEN Unlimited
             ELSE IF q.mode = "update" THEN Lowered(ceiling[k], seen[k]) ELSE seen[k]]
      /\ vouched' = {}
      /\ UNCHANGED <<stage, place, tree>>
      /\ Confirmed(q)
  BY DEF WritesBaseline
<1>3. StageDebt \in [RatchetKeys -> Int]
  BY <1>1, DebtTyped
<1>4. Compared(q) \subseteq RatchetKeys
  BY DEF Compared
<1>5. seen \in [RatchetKeys -> Int]
  BY <1>3
<1>6. \A k \in RatchetKeys : k \in Compared(q) => seen[k] = StageDebt[k]
  OBVIOUS
<1>7. \A k \in RatchetKeys : k \notin Compared(q) => stage = "structure" /\ k = "more"
  BY DEF Compared
<1> HIDE DEF seen
<1>8. \A l, d \in Int : Lowered(l, d) \in Int
  BY DEF Lowered
<1>9. RatchetTypeOK'
  <2>1. ceiling' \in [RatchetKeys -> Int]
    BY <1>1, <1>2, <1>5, <1>8 DEF RatchetTypeOK, Unlimited
  <2> QED
    BY <1>1, <1>2, <1>4, <1>5, <2>1 DEF RatchetTypeOK
<1>10. \A k \in RatchetKeys : k \in Compared(q) => ceiling'[k] = Unlimited \/ seen[k] <= ceiling'[k]
  <2> SUFFICES ASSUME NEW k \in RatchetKeys, k \in Compared(q)
               PROVE  ceiling'[k] = Unlimited \/ seen[k] <= ceiling'[k]
    OBVIOUS
  <2>0. seen[k] \in Int /\ ceiling[k] \in Int
    BY <1>1, <1>5 DEF RatchetTypeOK
  <2>1. CASE q.mode # "update"
    BY <1>2, <2>0, <2>1
  <2>2. CASE q.mode = "update"
    <3>1. ceiling'[k] = Lowered(ceiling[k], seen[k])
      BY <1>2, <2>2
    <3>2. baseline.is = "good" /\ Risen(FoundBy(q), RecordOf(q)) = {}
      BY <1>1, <1>2, <2>2, PassMeansNoRise
    <3>3. ~(FoundBy(q)[k] > RecordOf(q)[k])
      BY <3>2 DEF Risen
    <3>4. CASE k \in baseline.records
      <4>1. RecordOf(q)[k] = baseline.debt[k]
        BY <3>4 DEF RecordOf, StructureRecord
      <4>2. FoundBy(q)[k] = seen[k]
        BY <1>1, <1>6, FoundIsDebt
      <4>3. ceiling[k] = Unlimited \/ baseline.debt[k] <= ceiling[k]
        BY <1>1, <3>2, <3>4 DEF RecordedBelow
      <4>4. baseline.debt[k] \in Int
        BY <1>1 DEF RatchetTypeOK
      <4> QED
        BY <2>0, <3>1, <3>3, <4>1, <4>2, <4>3, <4>4 DEF Lowered, Unlimited
    <3>5. CASE k \notin baseline.records
      <4>1. ceiling[k] = Unlimited
        BY <1>1, <3>2, <3>5 DEF RecordedBelow
      <4> QED
        BY <2>0, <3>1, <4>1 DEF Lowered
    <3> QED
      BY <3>4, <3>5
  <2> QED
    BY <2>1, <2>2
<1>11. RecordedBelow'
  BY <1>2, <1>4, <1>7, <1>10 DEF RecordedBelow
<1>12. NothingGrowsUnseen'
  BY <1>2 DEF NothingGrowsUnseen
<1> QED
  BY <1>9, <1>11, <1>12 DEF RatchetInv

\* A passing check has compared what is below the ceiling.
LEMMA CheckKeepsInv ==
    ASSUME RatchetInv, NEW q \in RunRequests, CheckPasses(q)
    PROVE  RatchetInv'
<1>1. RatchetTypeOK /\ RecordedBelow
  BY DEF RatchetInv
<1>2. vouched' = Compared(q) /\ UNCHANGED <<stage, place, tree, baseline, ceiling>>
  BY DEF CheckPasses
<1>3. baseline.is = "good" /\ Risen(FoundBy(q), RecordOf(q)) = {}
  BY <1>1, PassMeansNoRise DEF CheckPasses
<1>4. StageDebt \in [RatchetKeys -> Int]
  BY <1>1, DebtTyped
<1>5. StageDebt' = StageDebt
  BY <1>2 DEF StageDebt, CommentDebt, ConventionsDebt, DeadCodeDebt, DocRefsDebt, DocsDebt,
              InstructionDebt, RuntimeWriteDebt, StaticDebt, StructureDebt, UsageTrackDebt,
              CommentScope, ConventionsScope, DeadCodeScope, DocRefsScope, DocsScope,
              InstructionScope, RuntimeWriteScope, StaticScope, StructureScope, UsageTrackScope,
              Debts, DebtsAndMore, HitsIn, MoreIn, Near, NoTests, NoCopies
<1>6. Compared(q) \subseteq RatchetKeys
  BY DEF Compared
<1>7. ASSUME NEW k \in Compared(q)
      PROVE  ceiling[k] = Unlimited \/ StageDebt[k] <= ceiling[k]
  <2>0. k \in RatchetKeys
    BY <1>6
  <2>1. CASE k \in baseline.records
    <3>1. RecordOf(q)[k] = baseline.debt[k]
      BY <2>0, <2>1 DEF RecordOf, StructureRecord
    <3>2. FoundBy(q)[k] = StageDebt[k]
      BY <1>1, FoundIsDebt
    <3>3. ceiling[k] = Unlimited \/ baseline.debt[k] <= ceiling[k]
      BY <1>1, <1>3, <2>0, <2>1 DEF RecordedBelow
    <3>4. baseline.debt[k] \in Int /\ StageDebt[k] \in Int /\ ceiling[k] \in Int
      BY <1>1, <1>4, <2>0 DEF RatchetTypeOK
    <3>5. ~(StageDebt[k] > baseline.debt[k])
      BY <1>3, <2>0, <3>1, <3>2 DEF Risen
    <3> QED
      BY <3>3, <3>4, <3>5
  <2>2. CASE k \notin baseline.records
    BY <1>1, <1>3, <2>0, <2>2 DEF RecordedBelow
  <2> QED
    BY <2>1, <2>2
<1>8. NothingGrowsUnseen'
  BY <1>2, <1>5, <1>7 DEF NothingGrowsUnseen
<1>9. RatchetTypeOK' /\ RecordedBelow'
  BY <1>1, <1>2, <1>6 DEF RatchetTypeOK, RecordedBelow
<1> QED
  BY <1>8, <1>9 DEF RatchetInv

\* The steps of RatchetNext keep the invariant.
LEMMA RatchetNextKeepsInv ==
    ASSUME RatchetInv, [RatchetNext]_ratchetVars
    PROVE  RatchetInv'
<1>1. RatchetTypeOK /\ RecordedBelow /\ NothingGrowsUnseen
  BY DEF RatchetInv
<1>2. ASSUME NEW q \in RunRequests, CheckPasses(q)
      PROVE  RatchetInv'
  BY <1>2, CheckKeepsInv
<1>3. ASSUME NEW q \in RunRequests, WritesBaseline(q)
      PROVE  RatchetInv'
  BY <1>3, WriteKeepsInv
<1>4. ASSUME NEW q \in RunRequests, WriteTorn(q)
      PROVE  RatchetInv'
  <2>1. RatchetTypeOK'
    BY <1>1, <1>4 DEF WriteTorn, RatchetTypeOK, NoDebt
  <2> QED
    BY <1>4, <2>1 DEF WriteTorn, RatchetInv, RecordedBelow, NothingGrowsUnseen
<1>5. ASSUME NEW f \in RatchetFiles, NEW file \in EditsOf(f), EditsFile(f, file)
      PROVE  RatchetInv'
  <2>1. file \in [hits : Nat, more : Nat, state : {"fine", "broken", "deleted"}]
    <3>1. tree[f] \in [hits : Nat, more : Nat, state : {"fine", "broken", "deleted"}]
      BY <1>1 DEF RatchetTypeOK
    <3>2. MaxDebt \in Nat /\ MaxOther \in Nat
      BY RatchetAssumption
    <3> QED
      BY <3>1, <3>2 DEF EditsOf
  <2>2. RatchetTypeOK'
    BY <1>1, <1>5, <2>1 DEF EditsFile, RatchetTypeOK
  <2> QED
    BY <1>1, <1>5, <2>2 DEF EditsFile, RatchetInv, RecordedBelow, NothingGrowsUnseen
<1>6. ASSUME DiscardsBaseline
      PROVE  RatchetInv'
  <2>1. RatchetTypeOK'
    BY <1>1, <1>6 DEF DiscardsBaseline, RatchetTypeOK, NoDebt
  <2> QED
    BY <1>6, <2>1 DEF DiscardsBaseline, RatchetInv, RecordedBelow, NothingGrowsUnseen
<1>7. ASSUME TakesOlderBaseline
      PROVE  RatchetInv'
  <2> DEFINE debt == [k \in RatchetKeys |-> IF k \in LaterKeys THEN 0 ELSE baseline.debt[k]]
             kept == baseline.records \ LaterKeys
  <2>1. /\ stage = "structure" /\ baseline.is = "good"
        /\ baseline' = [is |-> "good", records |-> kept, debt |-> debt]
        /\ ceiling' = [k \in RatchetKeys |-> IF k \in LaterKeys THEN Unlimited ELSE ceiling[k]]
        /\ vouched' = {}
        /\ UNCHANGED <<stage, place, tree>>
    BY <1>7 DEF TakesOlderBaseline
  <2>2. /\ baseline.debt \in [RatchetKeys -> Int] /\ baseline.records \subseteq RatchetKeys
        /\ ceiling \in [RatchetKeys -> Int]
    BY <1>1 DEF RatchetTypeOK
  <2>3. debt \in [RatchetKeys -> Int] /\ ceiling' \in [RatchetKeys -> Int]
    BY <2>1, <2>2 DEF Unlimited
  <2>4. \A k \in kept : k \in RatchetKeys /\ k \notin LaterKeys /\ debt[k] = baseline.debt[k]
    BY <2>2
  <2>5. \A k \in RatchetKeys : k \notin kept => k \in LaterKeys
    BY <1>1, <2>1 DEF RecordedBelow, LaterKeys
  <2>6. \A k \in RatchetKeys : ceiling'[k] = IF k \in LaterKeys THEN Unlimited ELSE ceiling[k]
    BY <2>1
  <2>7. kept \subseteq baseline.records
    OBVIOUS
  <2> HIDE DEF debt, kept
  <2>8. RatchetTypeOK'
    <3>1. kept \subseteq RatchetKeys
      BY <2>4
    <3> QED
      BY <1>1, <2>1, <2>3, <3>1 DEF RatchetTypeOK
  <2>9. RecordedBelow'
    BY <1>1, <2>1, <2>4, <2>5, <2>6, <2>7 DEF RecordedBelow, LaterKeys
  <2> QED
    BY <2>1, <2>8, <2>9 DEF RatchetInv, NothingGrowsUnseen
<1>8. CASE UNCHANGED ratchetVars
  <2>1. StageDebt' = StageDebt
    BY <1>8 DEF ratchetVars, StageDebt, CommentDebt, ConventionsDebt, DeadCodeDebt, DocRefsDebt, DocsDebt,
                InstructionDebt, RuntimeWriteDebt, StaticDebt, StructureDebt, UsageTrackDebt,
                CommentScope, ConventionsScope, DeadCodeScope, DocRefsScope, DocsScope,
                InstructionScope, RuntimeWriteScope, StaticScope, StructureScope, UsageTrackScope,
                Debts, DebtsAndMore, HitsIn, MoreIn, Near, NoTests, NoCopies
  <2> QED
    BY <1>1, <1>8, <2>1 DEF ratchetVars, RatchetInv, RatchetTypeOK, RecordedBelow, NothingGrowsUnseen
<1> QED
  BY <1>2, <1>3, <1>4, <1>5, <1>6, <1>7, <1>8 DEF RatchetNext

\* A repository without baselines satisfies the invariant.
LEMMA RatchetInitEstablishesInv ==
    ASSUME RatchetInit
    PROVE  RatchetInv
<1>1. stage \in RatchetStages
  BY RatchetAssumption DEF RatchetInit
<1>2. RatchetTypeOK
  BY <1>1 DEF RatchetInit, RatchetTypeOK, NoDebt, RatchetFiles
<1> QED
  BY <1>2 DEF RatchetInit, RatchetInv, RecordedBelow, NothingGrowsUnseen

-----------------------------------------------------------------------------

\* Whatever a passing check of any ratchet script has compared is no more than
\* what --init or --allow-additions accepted.
THEOREM NothingGrowsUnseenAlways == RatchetSpec => []NothingGrowsUnseen
<1>1. RatchetInit => RatchetInv
  BY RatchetInitEstablishesInv
<1>2. RatchetInv /\ [RatchetNext]_ratchetVars => RatchetInv'
  BY RatchetNextKeepsInv
<1>3. RatchetInv => NothingGrowsUnseen
  BY DEF RatchetInv
<1> QED
  BY <1>1, <1>2, <1>3, PTL DEF RatchetSpec

-----------------------------------------------------------------------------
(* E2e routing: the maps *)

Maps == {MapOf[n] : n \in DOMAIN MapOf}

\* A path has the tier of a rule, or none.
LEMMA TierType ==
    ASSUME NEW map \in Maps, NEW p
    PROVE  ClassifyOne(map, p) \in {"unclassified", "none", "static", "full"}
  <1> DEFINE hits == {i \in DOMAIN map.rules : p \in map.rules[i].covers}
  <1>1. map.rules \in Seq([tier : {"none", "static", "full"}, covers : SUBSET RepoPaths])
    BY RoutingAssumption DEF Maps
  <1>2. hits \subseteq DOMAIN map.rules /\ DOMAIN map.rules \subseteq Nat
    BY <1>1
  <1>3. CASE hits = {}
    BY <1>3 DEF ClassifyOne
  <1>4. CASE hits # {}
    <2> DEFINE first == CHOOSE i \in hits : \A j \in hits : i <= j
    <2>1. \E i \in hits : \A j \in hits : i <= j
      BY <1>2, <1>4, LeastNumber
    <2>2. first \in hits
      BY <2>1
    <2>3. ClassifyOne(map, p) = map.rules[first].tier
      BY <1>4 DEF ClassifyOne
    <2>4. first \in DOMAIN map.rules
      BY <1>2, <2>2
    <2> DEFINE X == [tier : {"none", "static", "full"}, covers : SUBSET RepoPaths]
    <2> HIDE DEF first, hits
    <2>5. map.rules[first] \in X
      <3>1. map.rules \in Seq(X)
        BY <1>1
      <3> HIDE DEF X
      <3> QED BY <2>4, <3>1
    <2>6. map.rules[first].tier \in {"none", "static", "full"}
      BY <2>5
    <2> QED BY <2>3, <2>6
  <1> QED BY <1>3, <1>4

\* A map declares finitely many surfaces.
LEMMA SurfacesFinite ==
    ASSUME NEW map \in Maps
    PROVE  IsFiniteSet(LoadSurfaces(map))
  <1> DEFINE entries == {map.entries[i] : i \in DOMAIN map.entries}
             X == [name : STRING, sound : BOOLEAN, claims : SUBSET RepoPaths, selectors : SUBSET STRING]
  <1>1. map.entries \in Seq(X)
    BY RoutingAssumption DEF Maps
  <1> HIDE DEF X
  <1>2. DOMAIN map.entries = 1 .. Len(map.entries) /\ Len(map.entries) \in Nat
    BY <1>1
  <1>3. IsFiniteSet(DOMAIN map.entries)
    BY <1>2, FS_Interval
  <1>4. map.entries \in Surjection(DOMAIN map.entries, entries)
    BY <1>1, <1>2 DEF Surjection
  <1>5. IsFiniteSet(entries)
    BY <1>3, <1>4, FS_Surjection
  <1> QED BY <1>5, FS_EmptySet DEF LoadSurfaces

LEMMA OwnersFinite ==
    ASSUME NEW map \in Maps, NEW p, NEW seen
    PROVE  OwnersOf(map, p, seen) \subseteq LoadSurfaces(map) /\ IsFiniteSet(OwnersOf(map, p, seen))
  <1>1. OwnersOf(map, p, seen) \subseteq LoadSurfaces(map)
    BY DEF OwnersOf, SheetOwner
  <1> QED BY <1>1, SurfacesFinite, FS_Subset

-----------------------------------------------------------------------------
(* A narrowed run *)

\* Every path of a narrowed run belongs to its surface alone, or is a module of
\* the suite that the run names.
LEMMA NarrowedToOne ==
    ASSUME NEW map \in Maps, NEW paths, NEW seen, NEW r \in NarrowToSurface(map, paths, seen),
           NEW p \in paths
    PROVE  /\ r.tier = "surface"
           /\ ~EditsRouting(paths)
           /\ \/ ClassifyOne(map, p) = "none"
              \/ p \in r.modules /\ SelfOnly(p)
              \/ \E s : OwnersOf(map, p, seen) = {s} /\ r.surface = s.name
  <1> DEFINE counted == {q \in paths : ClassifyOne(map, q) # "none"}
             modules == {q \in counted : /\ q \notin map.sheets /\ OwnersOf(map, q, seen) = {}
                                         /\ ClassifyOne(map, q) = "full" /\ SelfOnly(q)}
             hits    == UNION {OwnersOf(map, q, seen) : q \in counted \ modules}
  <1>1. /\ ~EditsRouting(paths)
        /\ \A q \in counted \ modules : Cardinality(OwnersOf(map, q, seen)) = 1
        /\ Cardinality(hits) <= 1
        /\ r = [tier    |-> "surface",
                surface |-> IF hits = {} THEN "self" ELSE (CHOOSE s \in hits : TRUE).name,
                modules |-> modules]
    BY DEF NarrowToSurface
  <1>2. CASE p \notin counted
    BY <1>1, <1>2
  <1>3. CASE p \in modules
    BY <1>1, <1>3
  <1>4. CASE p \in counted \ modules
    <2>1. PICK s : OwnersOf(map, p, seen) = {s}
      BY <1>1, <1>4, OwnersFinite, FS_Singleton
    <2>2. s \in hits
      BY <1>4, <2>1
    <2>3. IsFiniteSet(hits)
      <3>1. hits \subseteq LoadSurfaces(map)
        BY OwnersFinite
      <3> QED BY <3>1, SurfacesFinite, FS_Subset
    <2> HIDE DEF hits
    <2>4. hits = {s}
      <3>1. Cardinality(hits) \in Nat /\ Cardinality(hits) # 0
        BY <2>2, <2>3, FS_CardinalityType, FS_EmptySet
      <3>2. Cardinality(hits) = 1
        BY <1>1, <3>1
      <3> QED BY <2>2, <2>3, <3>2, FS_Singleton
    <2>5. r.surface = (CHOOSE t \in hits : TRUE).name
      BY <1>1, <2>2
    <2>6. (CHOOSE t \in hits : TRUE) = s
      BY <2>4
    <2> QED BY <1>1, <2>1, <2>5, <2>6
  <1> QED BY <1>2, <1>3, <1>4

\* What a routing other than the full suite says of the paths it is for.
LEMMA ClassifyFacts ==
    ASSUME NEW map \in Maps, NEW paths, NEW seen
    PROVE  LET r == Classify(map, paths, seen)
           IN  /\ r.tier = "surface" => r \in NarrowToSurface(map, paths, seen)
               /\ r.tier = "static" => \A p \in paths : ClassifyOne(map, p) \in {"none", "static"}
               /\ r.tier = "skip" => \A p \in paths : ClassifyOne(map, p) = "none"
  <1> DEFINE tiers == {ClassifyOne(map, p) : p \in paths}
             narrowed == NarrowToSurface(map, paths, seen)
             plain == [tier |-> IF "static" \in tiers THEN "static" ELSE "skip",
                       surface |-> "", modules |-> {}]
  <1>1. CASE ~MapDeclared(map) \/ paths = {}
    BY <1>1 DEF Classify, FullRun
  <1>2. CASE ~(~MapDeclared(map) \/ paths = {}) /\ {"full", "unclassified"} \cap tiers # {}
    <2>1. CASE narrowed = {}
      BY <1>2, <2>1 DEF Classify, FullRun
    <2>2. CASE narrowed # {}
      <3>1. Classify(map, paths, seen) \in narrowed
        BY <1>2, <2>2 DEF Classify
      <3>2. Classify(map, paths, seen).tier = "surface"
        BY <3>1 DEF NarrowToSurface
      <3> QED BY <3>1, <3>2
    <2> QED BY <2>1, <2>2
  <1>3. CASE ~(~MapDeclared(map) \/ paths = {}) /\ {"full", "unclassified"} \cap tiers = {}
    <2>1. Classify(map, paths, seen) = plain
      BY <1>3 DEF Classify
    <2>2. \A p \in paths : ClassifyOne(map, p) \in {"none", "static"}
      BY <1>3, TierType
    <2>3. "static" \notin tiers => \A p \in paths : ClassifyOne(map, p) = "none"
      BY <2>2
    <2>4. \/ plain.tier = "static"
          \/ plain.tier = "skip" /\ "static" \notin tiers
      OBVIOUS
    <2> HIDE DEF tiers, plain, narrowed
    <2> QED BY <2>1, <2>2, <2>3, <2>4
  <1> QED BY <1>1, <1>2, <1>3

\* A path that one surface owns shows there only.
LEMMA OwnedShowsThere ==
    ASSUME fleet \in DOMAIN MapOf, NEW p, NEW seen, NEW s, OwnersOf(MapOf[fleet], p, seen) = {s}
    PROVE  ShowsOn(p) \subseteq {s.name}
  <1> DEFINE map == MapOf[fleet]
             sels == UNION {SelectorsOf[r] : r \in touched \ {"noise"}}
  <1>1. map.sheets \subseteq {SharedSheet}
    BY RoutingAssumption
  <1>2. CASE p \in map.sheets
    <2>1. s \in SheetOwner(map, seen)
      BY <1>2 DEF OwnersOf
    <2>2. /\ followed /\ Wide \notin sels
          /\ \A sel \in sels : SelectorOwners(map, sel) = {s}
      BY <2>1 DEF SheetOwner
    <2> QED BY <1>1, <1>2, <2>2 DEF ShowsOn
  <1>3. CASE p \notin map.sheets
    <2>1. {t \in LoadSurfaces(map) : p \in t.claims} = {s}
      BY <1>3 DEF OwnersOf
    <2> QED BY <1>3, <2>1 DEF ShowsOn
  <1> QED BY <1>2, <1>3

-----------------------------------------------------------------------------
(* E2e routing: the invariant *)

RoutingTypes ==
    /\ diff \in [RepoPaths -> {"same"} \cup Listings]
    /\ fleet \in DOMAIN MapOf

\* While the map of the branch is not that of main, the diff has the map's file.
MapListed == fleet # reviewed => diff[MapFile] # "same"

RoutingInv == RoutingTypes /\ MapListed /\ NarrowRunCovers /\ NarrowsByReviewedMap

\* After a change nothing is routed.
LEMMA UnroutedKeeps ==
    ASSUME routed' = NotRouted
    PROVE  NarrowRunCovers' /\ NarrowsByReviewedMap'
  BY DEF NotRouted, NarrowRunCovers, NarrowsByReviewedMap

\* An edit lists its path, and takes none from the diff.
LEMMA EditedLists ==
    ASSUME RoutingTypes, NEW p \in RepoPaths, Edited(p)
    PROVE  /\ diff' \in [RepoPaths -> {"same"} \cup Listings]
           /\ diff'[p] # "same"
           /\ \A q \in RepoPaths : diff[q] # "same" => diff'[q] # "same"
           /\ routed' = NotRouted
  BY DEF RoutingTypes, Edited, Listings

LEMMA BranchSteps ==
    ASSUME RoutingInv,
           \/ EditsPath \/ EditsMap \/ EditsSheet \/ EditsModule \/ CommitsAll \/ MergesToMain
           \/ \E p \in RepoPaths : ImportsModule(p)
    PROVE  RoutingInv'
  <1>1. MapFile \in RepoPaths /\ TestModule \in RepoPaths /\ SharedSheet \in RepoPaths
    BY RoutingAssumption
  <1>2. CASE EditsMap
    <2>1. Edited(MapFile) /\ fleet' \in DOMAIN MapOf
      BY <1>2 DEF EditsMap
    <2> QED BY <1>1, <2>1, EditedLists, UnroutedKeeps DEF RoutingInv, RoutingTypes, MapListed
  <1>3. CASE EditsPath \/ EditsSheet \/ EditsModule \/ \E p \in RepoPaths : ImportsModule(p)
    <2>1. (\E p \in RepoPaths : Edited(p)) /\ UNCHANGED <<fleet, reviewed>>
      BY <1>1, <1>3 DEF EditsPath, EditsSheet, EditsModule, ImportsModule
    <2> QED BY <1>1, <2>1, EditedLists, UnroutedKeeps DEF RoutingInv, RoutingTypes, MapListed
  <1>4. CASE CommitsAll
    <2>1. RoutingTypes' /\ MapListed'
      BY <1>1, <1>4 DEF CommitsAll, RoutingInv, RoutingTypes, MapListed, Listings
    <2> QED BY <1>4, <2>1, UnroutedKeeps DEF CommitsAll, RoutingInv
  <1>5. CASE MergesToMain
    <2>1. RoutingTypes' /\ MapListed'
      BY <1>5 DEF MergesToMain, RoutingInv, RoutingTypes, MapListed
    <2> QED BY <1>5, <2>1, UnroutedKeeps DEF MergesToMain, RoutingInv
  <1> QED BY <1>2, <1>3, <1>4, <1>5

\* A routing for which git listed everything is right.
LEMMA RoutesRightly ==
    ASSUME RoutingInv, RoutesDiff
    PROVE  RoutingInv'
  <1>1. PICK missed \in SUBSET Listings, seen \in BOOLEAN :
            LET r == Classify(MapOf[fleet], ChangedFiles(missed), seen)
            IN  routed' = [tier |-> r.tier, surface |-> r.surface, modules |-> r.modules,
                           listed |-> missed = {}]
    BY DEF RoutesDiff
  <1>2. UNCHANGED <<diff, touched, followed, module, fleet, reviewed>>
    BY DEF RoutesDiff
  <1>3. RoutingTypes' /\ MapListed'
    BY <1>2 DEF RoutingInv, RoutingTypes, MapListed
  <1> SUFFICES ASSUME routed'.listed
               PROVE  NarrowRunCovers' /\ NarrowsByReviewedMap'
    BY <1>3 DEF RoutingInv, NarrowRunCovers, NarrowsByReviewedMap
  <1> DEFINE map == MapOf[fleet]
             r == Classify(map, DiffersOn, seen)
  <1>4. ChangedFiles(missed) = DiffersOn
    <2>1. missed = {}
      BY <1>1
    <2> QED BY <2>1 DEF ChangedFiles
  <1>5. routed'.tier = r.tier /\ routed'.surface = r.surface /\ routed'.modules = r.modules
    BY <1>1, <1>4
  <1>6. map \in Maps
    BY DEF RoutingInv, RoutingTypes, Maps
  <1> HIDE DEF map
  <1>7. /\ r.tier = "surface" => r \in NarrowToSurface(map, DiffersOn, seen)
        /\ r.tier = "static" => \A p \in DiffersOn : ClassifyOne(map, p) \in {"none", "static"}
        /\ r.tier = "skip" => \A p \in DiffersOn : ClassifyOne(map, p) = "none"
    BY <1>6, ClassifyFacts
  <1> HIDE DEF r
  <1>8. NarrowsByReviewedMap'
    <2> SUFFICES ASSUME r.tier = "surface" PROVE fleet = reviewed
      BY <1>2, <1>5 DEF NarrowsByReviewedMap
    <2>1. CASE DiffersOn = {}
      BY <2>1, RoutingAssumption DEF DiffersOn, RoutingInv, MapListed
    <2>2. CASE DiffersOn # {}
      <3>1. ~EditsRouting(DiffersOn)
        BY <1>6, <1>7, <2>2, NarrowedToOne
      <3>2. diff[MapFile] = "same"
        BY <3>1, RoutingAssumption DEF EditsRouting, DiffersOn
      <3> QED BY <3>2 DEF RoutingInv, MapListed
    <2> QED BY <2>1, <2>2
  <1>9. NarrowRunCovers'
    <2> DEFINE Covered(p) ==
            \/ ClassifyOne(map, p) = "none"
            \/ r.tier = "static" /\ ClassifyOne(map, p) = "static"
            \/ /\ r.tier = "surface"
               /\ \/ ShowsOn(p) \subseteq {r.surface}
                  \/ p = TestModule /\ p \in r.modules /\ module = "alone"
    <2>1. ASSUME r.tier \in {"surface", "static", "skip"}, NEW p \in DiffersOn
          PROVE  Covered(p)
      <3>1. CASE r.tier = "surface"
        <4>1. \/ ClassifyOne(map, p) = "none"
              \/ p \in r.modules /\ SelfOnly(p)
              \/ \E s : OwnersOf(map, p, seen) = {s} /\ r.surface = s.name
          BY <1>6, <1>7, <3>1, NarrowedToOne
        <4>2. ASSUME NEW s, OwnersOf(map, p, seen) = {s}
              PROVE  ShowsOn(p) \subseteq {s.name}
          BY <4>2, OwnedShowsThere DEF map, RoutingInv, RoutingTypes
        <4> QED BY <3>1, <4>1, <4>2 DEF SelfOnly
      <3>2. CASE r.tier \in {"static", "skip"}
        BY <1>7, <3>2
      <3> QED BY <2>1, <3>1, <3>2
    <2>2. DiffersOn' = DiffersOn /\ \A p : ShowsOn(p)' = ShowsOn(p)
      BY <1>2 DEF DiffersOn, ShowsOn
    <2> QED BY <1>2, <1>5, <2>1, <2>2 DEF NarrowRunCovers, map
  <1> QED BY <1>8, <1>9

\* In every reachable state the invariant holds.
THEOREM RoutingInvariant == RoutingSpec => []RoutingInv
  <1>1. RoutingInit => RoutingInv
    <2> SUFFICES ASSUME RoutingInit PROVE RoutingInv
      OBVIOUS
    <2>1. RoutingTypes /\ MapListed
      BY DEF RoutingInit, RoutingTypes, MapListed
    <2>2. NarrowRunCovers /\ NarrowsByReviewedMap
      BY DEF RoutingInit, NotRouted, NarrowRunCovers, NarrowsByReviewedMap
    <2> QED BY <2>1, <2>2 DEF RoutingInv
  <1>2. RoutingInv /\ [RoutingNext]_routingVars => RoutingInv'
    <2>1. ASSUME RoutingInv, UNCHANGED routingVars
          PROVE  RoutingInv'
      <3>1. UNCHANGED <<diff, touched, followed, module, fleet, reviewed, routed>>
        BY <2>1 DEF routingVars
      <3>2. DiffersOn' = DiffersOn /\ \A p : ShowsOn(p)' = ShowsOn(p)
        BY <3>1 DEF DiffersOn, ShowsOn
      <3>3. NarrowRunCovers'
        BY <2>1, <3>1, <3>2 DEF RoutingInv, NarrowRunCovers
      <3> QED BY <2>1, <3>1, <3>3 DEF RoutingInv, RoutingTypes, MapListed, NarrowsByReviewedMap
    <2> QED BY <2>1, BranchSteps, RoutesRightly DEF RoutingNext
  <1> QED BY <1>1, <1>2, PTL DEF RoutingSpec

\* A run that is not the full suite visits every place where a changed path
\* shows, for any map and any sequence of edits, commits and merges.
THEOREM NarrowRunAlwaysCovers == RoutingSpec => []NarrowRunCovers
  <1>1. RoutingInv => NarrowRunCovers
    BY DEF RoutingInv
  <1> QED BY <1>1, RoutingInvariant, PTL

\* A diff is never narrowed by a map that main does not have.
THEOREM AlwaysByReviewedMap == RoutingSpec => []NarrowsByReviewedMap
  <1>1. RoutingInv => NarrowsByReviewedMap
    BY DEF RoutingInv
  <1> QED BY <1>1, RoutingInvariant, PTL

-----------------------------------------------------------------------------
(* The installer *)

\* Where a run is: its step, and the archive it is at.
Place == [step : {"rest", "look", "request", "load", "unpack", "remove",
                  "fetch", "move", "move others"}, n : 0 .. Archives]

AtArchive == {"look", "request", "load", "unpack", "remove"}

InstallerTypes ==
    /\ progress \in [InstallRuns -> Place]
    /\ \A r \in InstallRuns : progress[r].step \in AtArchive => progress[r].n \in 1 .. Archives
    /\ \A r \in InstallRuns : progress[r].step = "rest" => progress[r] = Resting
    /\ archive \in [1 .. Archives -> {"none", "partial", "whole", "bad"}]
    /\ shard \in [Shards -> {"none", "nested", "beside"}]

\* Run r is at work on archive n.
Holds(r, n) == progress[r].n = n /\ progress[r].step \in {"load", "unpack", "remove"}
Loads(r, n) == progress[r].n = n /\ progress[r].step = "load"

\* An archive in vendor/ has a run that is going to remove it, and one that is
\* written has a run that writes it.
ArchiveInv ==
    "archive" \notin broken =>
        \A n \in 1 .. Archives :
            /\ archive[n] # "none" => \E r \in InstallRuns : Holds(r, n)
            /\ archive[n] = "partial" => \E r \in InstallRuns : Loads(r, n)

\* The shards of a flat repository are in place as they are fetched; those of
\* another are moved when all are there.  While the file of `model_path` is
\* beside the model and others are not, a run moves or fetches them.
ShardInv ==
    /\ flat \in BOOLEAN
    /\ flat => \A s \in Shards : shard[s] # "nested"
    /\ \A r \in InstallRuns : progress[r].step \in {"move", "move others"} =>
           ~flat /\ \A s \in Shards : shard[s] # "none"
    /\ ModelPresent /\ ~flat => \A s \in Shards : shard[s] # "none"
    /\ ModelPresent /\ "model" \notin broken =>
           \/ \A s \in Shards : shard[s] = "beside"
           \/ \E r \in InstallRuns : progress[r].step = "move others"
           \/ flat /\ \E r \in InstallRuns : progress[r].step = "fetch"

InstallerInv == InstallerTypes /\ ArchiveInv /\ ShardInv

-----------------------------------------------------------------------------
(* The installer: the steps of one run *)

\* Run r goes to place p, and no other run moves.
Goes(r, p) ==
    /\ progress' = [progress EXCEPT ![r] = p]
    /\ p \in Place
    /\ p.step \in AtArchive => p.n \in 1 .. Archives
    /\ p.step = "rest" => p = Resting

\* The types after such a step.
LEMMA GoesTypes ==
    ASSUME InstallerTypes, NEW r \in InstallRuns, NEW p, Goes(r, p),
           archive' \in [1 .. Archives -> {"none", "partial", "whole", "bad"}],
           shard' \in [Shards -> {"none", "nested", "beside"}]
    PROVE  /\ InstallerTypes'
           /\ progress'[r] = p
           /\ \A q \in InstallRuns : q # r => progress'[q] = progress[q]
  BY DEF InstallerTypes, Goes

\* What allows run r to leave the shards as they are: it was not at them, or
\* they are all in place, or it is marked.
LeavesShards(r) ==
    progress[r].step \in {"move others", "fetch"} =>
        \/ "model" \in broken'
        \/ ~ModelPresent
        \/ \A s \in Shards : shard[s] = "beside"
        \/ progress[r].step = "fetch" /\ ~flat

\* A run that is not at the shards any longer does nothing to them.
LEMMA ShardsKept ==
    ASSUME InstallerTypes, ShardInv, NEW r \in InstallRuns, NEW p, Goes(r, p),
           UNCHANGED <<shard, flat>>, broken \subseteq broken',
           p.step \notin {"move", "move others"},
           LeavesShards(r)
    PROVE  ShardInv'
  <1>1. /\ progress'[r] = p
        /\ \A q \in InstallRuns : q # r => progress'[q] = progress[q]
    BY DEF InstallerTypes, Goes
  <1>2. ModelPresent' = ModelPresent
    BY DEF ModelPresent
  <1>3. \A q \in InstallRuns : progress'[q].step \in {"move", "move others"} => q # r
    BY <1>1
  <1>4. ASSUME ModelPresent, "model" \notin broken', ~\A s \in Shards : shard[s] = "beside"
        PROVE  \/ \E q \in InstallRuns : progress'[q].step = "move others"
               \/ flat /\ \E q \in InstallRuns : progress'[q].step = "fetch"
    <2>1. CASE \E q \in InstallRuns : progress[q].step = "move others"
      <3>1. PICK q \in InstallRuns : progress[q].step = "move others"
        BY <2>1
      <3> QED BY <1>1, <1>4, <3>1 DEF LeavesShards
    <2>2. CASE flat /\ \E q \in InstallRuns : progress[q].step = "fetch"
      <3>1. PICK q \in InstallRuns : progress[q].step = "fetch"
        BY <2>2
      <3> QED BY <1>1, <1>4, <2>2, <3>1 DEF LeavesShards
    <2> QED BY <1>4, <2>1, <2>2 DEF ShardInv
  <1>5. /\ flat' \in BOOLEAN
        /\ flat' => \A s \in Shards : shard'[s] # "nested"
        /\ ModelPresent' /\ ~flat' => \A s \in Shards : shard'[s] # "none"
    BY <1>2 DEF ShardInv
  <1>6. \A q \in InstallRuns : progress'[q].step \in {"move", "move others"} =>
            ~flat' /\ \A s \in Shards : shard'[s] # "none"
    BY <1>1, <1>3 DEF ShardInv
  <1> QED BY <1>2, <1>4, <1>5, <1>6 DEF ShardInv

\* A run that holds no archive, before and after, does nothing to them.
LEMMA ArchivesKept ==
    ASSUME InstallerTypes, ArchiveInv, NEW r \in InstallRuns, NEW p, Goes(r, p),
           UNCHANGED archive, "archive" \in broken => "archive" \in broken',
           progress[r].step \notin {"load", "unpack", "remove"} \/ "archive" \in broken'
    PROVE  ArchiveInv'
  <1> SUFFICES ASSUME "archive" \notin broken', NEW n \in 1 .. Archives
               PROVE  /\ archive[n] # "none" => \E q \in InstallRuns : Holds(q, n)'
                      /\ archive[n] = "partial" => \E q \in InstallRuns : Loads(q, n)'
    BY DEF ArchiveInv
  <1>1. \A q \in InstallRuns : q # r => progress'[q] = progress[q]
    BY DEF InstallerTypes, Goes
  <1>2. \A q \in InstallRuns : Holds(q, n) => Holds(q, n)'
    BY <1>1 DEF Holds
  <1>3. \A q \in InstallRuns : Loads(q, n) => Loads(q, n)'
    BY <1>1 DEF Loads
  <1> QED BY <1>2, <1>3 DEF ArchiveInv

\* Run r is at work on archive n, and leaves a holder and a writer behind where
\* there have to be some.
LEMMA OneArchive ==
    ASSUME InstallerTypes, ArchiveInv, NEW r \in InstallRuns, NEW p, Goes(r, p),
           NEW n \in 1 .. Archives, progress[r].n = n,
           NEW what \in {"none", "partial", "whole", "bad"},
           archive' = [archive EXCEPT ![n] = what],
           broken \subseteq broken',
           "archive" \notin broken' =>
               /\ what # "none" => \E q \in InstallRuns : Holds(q, n)'
               /\ what = "partial" => \E q \in InstallRuns : Loads(q, n)'
    PROVE  ArchiveInv'
  <1> SUFFICES ASSUME "archive" \notin broken', NEW m \in 1 .. Archives
               PROVE  /\ archive'[m] # "none" => \E q \in InstallRuns : Holds(q, m)'
                      /\ archive'[m] = "partial" => \E q \in InstallRuns : Loads(q, m)'
    BY DEF ArchiveInv
  <1>1. archive'[n] = what /\ (m # n => archive'[m] = archive[m])
    BY DEF InstallerTypes
  <1>2. \A q \in InstallRuns : q # r => progress'[q] = progress[q]
    BY DEF InstallerTypes, Goes
  <1>3. m # n => \A q \in InstallRuns : Holds(q, m) => Holds(q, m)'
    BY <1>2 DEF Holds
  <1>4. m # n => \A q \in InstallRuns : Loads(q, m) => Loads(q, m)'
    BY <1>2 DEF Loads
  <1> QED BY <1>1, <1>3, <1>4 DEF ArchiveInv

\* At the start there is nothing.
LEMMA InitInstaller == InstallerInit => InstallerInv
  <1> SUFFICES ASSUME InstallerInit PROVE InstallerInv
    OBVIOUS
  <1>1. InstallerTypes
    BY InstallerAssumption DEF InstallerInit, InstallerTypes, Resting, Place, AtArchive
  <1>2. ArchiveInv
    BY DEF InstallerInit, ArchiveInv
  <1>3. ShardInv
    BY InstallerAssumption DEF InstallerInit, ShardInv, ModelPresent, Resting
  <1> QED BY <1>1, <1>2, <1>3 DEF InstallerInv

\* Resting, and the places a run goes to.
LEMMA PlaceFacts ==
    /\ Resting \in Place /\ Resting.step = "rest"
    /\ \A step \in {"fetch", "move", "move others"} :
          [step |-> step, n |-> 0] \in Place /\ [step |-> step, n |-> 0].step = step
    /\ \A step \in AtArchive : \A n \in 1 .. Archives :
          /\ [step |-> step, n |-> n] \in Place
          /\ [step |-> step, n |-> n].step = step
          /\ [step |-> step, n |-> n].n = n
    /\ 1 \in 1 .. Archives
  BY InstallerAssumption DEF Resting, Place, AtArchive

\* A run at an archive is at one of the release's, and moves no shards.
LEMMA AtArchiveFacts ==
    ASSUME InstallerTypes, NEW r \in InstallRuns, progress[r].step \in AtArchive
    PROVE  /\ progress[r].n \in 1 .. Archives
           /\ progress[r].step \notin {"fetch", "move others"}
           /\ archive[progress[r].n] \in {"none", "partial", "whole", "bad"}
  BY DEF InstallerTypes, AtArchive

\* A step of a run that touches neither archives nor shards.
LEMMA QuietStep ==
    ASSUME InstallerInv, NEW r \in InstallRuns, NEW p, Goes(r, p),
           UNCHANGED <<archive, shard, flat>>, broken \subseteq broken',
           p.step \notin {"move", "move others"},
           progress[r].step \in {"load", "unpack", "remove"} => "archive" \in broken',
           LeavesShards(r)
    PROVE  InstallerInv'
  <1>1. InstallerTypes'
    BY GoesTypes DEF InstallerInv, InstallerTypes
  <1>2. ArchiveInv'
    BY ArchivesKept DEF InstallerInv
  <1>3. ShardInv'
    BY ShardsKept DEF InstallerInv
  <1> QED BY <1>1, <1>2, <1>3 DEF InstallerInv

\* A step of a run that changes the archive it is at.
LEMMA ArchiveStep ==
    ASSUME InstallerInv, NEW r \in InstallRuns, NEW p, Goes(r, p),
           progress[r].step \in AtArchive, NEW n, n = progress[r].n,
           NEW what \in {"none", "partial", "whole", "bad"},
           archive' = [archive EXCEPT ![n] = what],
           UNCHANGED <<shard, flat>>, broken \subseteq broken',
           p.step \notin {"move", "move others"},
           "archive" \notin broken' =>
               /\ what # "none" => \E q \in InstallRuns : Holds(q, n)'
               /\ what = "partial" => \E q \in InstallRuns : Loads(q, n)'
    PROVE  InstallerInv'
  <1>1. n \in 1 .. Archives /\ LeavesShards(r)
    BY AtArchiveFacts DEF InstallerInv, LeavesShards
  <1>2. InstallerTypes'
    <2>1. archive' \in [1 .. Archives -> {"none", "partial", "whole", "bad"}]
      BY <1>1 DEF InstallerInv, InstallerTypes
    <2> QED BY <2>1, GoesTypes DEF InstallerInv, InstallerTypes
  <1>3. ShardInv'
    BY <1>1, ShardsKept DEF InstallerInv
  <1>4. ArchiveInv'
    BY <1>1, OneArchive DEF InstallerInv
  <1> QED BY <1>2, <1>3, <1>4 DEF InstallerInv

-----------------------------------------------------------------------------
(* The installer: the server *)

\* Starting, looking and opening: who finds an archive finds its holder too.
LEMMA OpeningSteps ==
    ASSUME InstallerInv, NEW r \in InstallRuns,
           StartsInstall(r) \/ LooksForArchive(r) \/ OpensArchive(r)
    PROVE  InstallerInv'
  <1>0. PICK n : n = progress[r].n
    OBVIOUS
  <1>1. CASE StartsInstall(r)
    <2>1. PICK p \in {Resting, [step |-> "look", n |-> 1]} :
          /\ progress[r] = Resting
          /\ UNCHANGED <<archive, shard, flat, broken>>
          /\ progress' = [progress EXCEPT ![r] = p]
      BY <1>1 DEF StartsInstall, Stops, Steps
    <2>2. p \in Place /\ p.step \in {"rest", "look"} /\ (p.step = "look" => p.n = 1)
          /\ (p.step = "rest" => p = Resting)
      <3>1. CASE p = Resting
        BY <3>1, PlaceFacts
      <3>2. CASE p = [step |-> "look", n |-> 1]
        BY <3>2, InstallerAssumption DEF Place
      <3> QED BY <2>1, <3>1, <3>2
    <2>3. Goes(r, p)
      BY <2>1, <2>2, PlaceFacts DEF Goes, AtArchive
    <2> QED BY <2>1, <2>2, <2>3, PlaceFacts, QuietStep DEF LeavesShards
  <1>2. CASE LooksForArchive(r)
    <2>1. PICK p \in {[step |-> "request", n |-> n], [step |-> "unpack", n |-> n]} :
          /\ progress[r].step = "look"
          /\ UNCHANGED <<archive, shard, flat, broken>>
          /\ progress' = [progress EXCEPT ![r] = p]
      BY <1>0, <1>2 DEF LooksForArchive, Steps
    <2>2. n \in 1 .. Archives
      BY <1>0, <2>1, AtArchiveFacts DEF InstallerInv, AtArchive
    <2>3. p \in Place /\ p.step \in {"request", "unpack"} /\ p.n = n
      <3>1. CASE p = [step |-> "request", n |-> n]
        BY <2>2, <3>1, InstallerAssumption DEF Place
      <3>2. CASE p = [step |-> "unpack", n |-> n]
        BY <2>2, <3>2, InstallerAssumption DEF Place
      <3> QED BY <2>1, <3>1, <3>2
    <2>4. Goes(r, p)
      BY <2>1, <2>2, <2>3 DEF Goes
    <2> QED BY <2>1, <2>3, <2>4, QuietStep DEF LeavesShards
  <1>3. CASE OpensArchive(r)
    <2>1. /\ progress[r].step = "request" /\ progress[r].step \in AtArchive
          /\ UNCHANGED <<shard, flat, broken>>
      BY <1>3 DEF OpensArchive, AtArchive
    <2>2. n \in 1 .. Archives
      BY <1>0, <2>1, AtArchiveFacts DEF InstallerInv
    <2>3. CASE Stops(r) /\ UNCHANGED archive
      <3>1. Goes(r, Resting)
        BY <2>3, PlaceFacts DEF Goes, Stops, AtArchive
      <3> QED BY <2>1, <2>3, <3>1, PlaceFacts, QuietStep DEF LeavesShards
    <2>4. CASE Steps(r, "load", n) /\ archive' = [archive EXCEPT ![n] = "partial"]
      <3>1. PICK p : p = [step |-> "load", n |-> n]
        OBVIOUS
      <3>2. p.step = "load" /\ p.n = n /\ p \in Place
        BY <2>2, <3>1, PlaceFacts DEF AtArchive
      <3>3. Goes(r, p)
        BY <2>2, <2>4, <3>1, <3>2 DEF Goes, Steps, AtArchive
      <3>4. progress'[r] = p
        BY <3>3 DEF Goes, InstallerInv, InstallerTypes
      <3>5. Holds(r, n)' /\ Loads(r, n)'
        BY <3>2, <3>4 DEF Holds, Loads
      <3> QED BY <1>0, <2>1, <2>4, <3>2, <3>3, <3>5, ArchiveStep
    <2> QED BY <1>0, <1>3, <2>3, <2>4 DEF OpensArchive
  <1> QED BY <1>1, <1>2, <1>3

\* A file is removed, or what is left of it has another run that writes or
\* unpacks it.
LEMMA RemovesStep ==
    ASSUME InstallerInv, NEW r \in InstallRuns, progress[r].step \in AtArchive,
           NEW n, n = progress[r].n, NEW next,
           next = Resting \/ (n < Archives /\ next = [step |-> "look", n |-> n + 1]),
           NEW left \in {"none", "partial", "whole", "bad"}, Removes(r, n, left, next),
           "archive" \notin broken /\ left = "partial" => \E q \in InstallRuns \ {r} : Loads(q, n),
           UNCHANGED <<shard, flat, broken>>
    PROVE  InstallerInv'
  <1>1. n \in 1 .. Archives /\ archive[n] \in {"none", "partial", "whole", "bad"}
    BY AtArchiveFacts DEF InstallerInv
  <1>2. CASE archive' = [archive EXCEPT ![n] = "none"] /\ progress' = [progress EXCEPT ![r] = next]
    <2>1. /\ next \in Place
          /\ next.step \in {"rest", "look"}
          /\ next.step = "look" => next.n \in 1 .. Archives
          /\ next.step = "rest" => next = Resting
      <3>0. n \in 1 .. Archives
        BY <1>1
      <3>1. n \in Nat /\ Archives \in Nat
        BY <3>0, InstallerAssumption
      <3>2. n < Archives => n + 1 \in 1 .. Archives
        BY <3>1
      <3>3. CASE next = Resting
        BY <3>3, PlaceFacts
      <3>4. CASE n < Archives /\ next = [step |-> "look", n |-> n + 1]
        BY <3>2, <3>4, InstallerAssumption DEF Place
      <3> QED BY <3>3, <3>4
    <2>2. Goes(r, next)
      BY <1>2, <2>1 DEF Goes, AtArchive
    <2> QED BY <1>2, <2>1, <2>2, ArchiveStep
  <1>3. CASE /\ \E q \in InstallRuns \ {r} : progress[q].n = n /\ progress[q].step \in {"load", "unpack"}
             /\ Stops(r) /\ archive' = [archive EXCEPT ![n] = left]
    <2>1. Goes(r, Resting)
      BY <1>3, PlaceFacts DEF Goes, Stops, AtArchive
    <2>2. \A q \in InstallRuns : q # r => progress'[q] = progress[q]
      BY <2>1 DEF Goes, InstallerInv, InstallerTypes
    <2>3. \E q \in InstallRuns : Holds(q, n)'
      BY <1>3, <2>2 DEF Holds
    <2>4. "archive" \notin broken /\ left = "partial" => \E q \in InstallRuns : Loads(q, n)'
      BY <2>2 DEF Loads
    <2>5. archive' = [archive EXCEPT ![n] = left]
      BY <1>3
    <2> QED BY <2>1, <2>3, <2>4, <2>5, PlaceFacts, ArchiveStep
  <1> QED BY <1>2, <1>3 DEF Removes

\* A download ends: whole, other bytes, or mixed with another run's, which
\* then still writes.
LEMMA LoadsStep ==
    ASSUME InstallerInv, NEW r \in InstallRuns, LoadsArchive(r)
    PROVE  InstallerInv'
  <1>1. PICK n : n = progress[r].n
    OBVIOUS
  <1>2. progress[r].step = "load" /\ progress[r].step \in AtArchive
        /\ UNCHANGED <<shard, flat, broken>>
    BY DEF LoadsArchive, AtArchive
  <1>3. n \in 1 .. Archives
    BY <1>1, <1>2, AtArchiveFacts DEF InstallerInv
  <1>4. PICK got \in {"partial", "whole", "bad"} :
        /\ got = "partial" => \E q \in InstallRuns \ {r} : progress[q] = progress[r]
        /\ \/ archive[n] = "none" /\ Stops(r) /\ UNCHANGED archive
           \/ RejectsArchive(r, n, got)
           \/ Steps(r, "unpack", n) /\ archive' = [archive EXCEPT ![n] = got]
    BY <1>1 DEF LoadsArchive
  <1>5. CASE archive[n] = "none" /\ Stops(r) /\ UNCHANGED archive
    <2>1. Goes(r, Resting)
      BY <1>5, PlaceFacts DEF Goes, Stops, AtArchive
    <2>2. archive' = [archive EXCEPT ![n] = "none"]
      BY <1>3, <1>5 DEF InstallerInv, InstallerTypes
    <2> QED BY <1>1, <1>2, <2>1, <2>2, PlaceFacts, ArchiveStep
  <1>6. CASE RejectsArchive(r, n, got)
    <2>1. got = "partial" => \E q \in InstallRuns \ {r} : Loads(q, n)
      BY <1>1, <1>2, <1>4 DEF Loads
    <2>2. Removes(r, n, got, Resting)
      BY <1>6 DEF RejectsArchive
    <2> QED BY <1>1, <1>2, <2>1, <2>2, RemovesStep
  <1>7. CASE Steps(r, "unpack", n) /\ archive' = [archive EXCEPT ![n] = got]
    <2>1. PICK p : p = [step |-> "unpack", n |-> n]
      OBVIOUS
    <2>2. p.step = "unpack" /\ p.n = n /\ p \in Place
      BY <1>3, <2>1, PlaceFacts DEF AtArchive
    <2>3. Goes(r, p)
      BY <1>3, <1>7, <2>1, <2>2 DEF Goes, Steps
    <2>4. /\ progress'[r] = p
          /\ \A q \in InstallRuns : q # r => progress'[q] = progress[q]
      BY <2>3 DEF Goes, InstallerInv, InstallerTypes
    <2>5. Holds(r, n)'
      BY <2>2, <2>4 DEF Holds
    <2>6. got = "partial" => \E q \in InstallRuns : Loads(q, n)'
      BY <1>1, <1>2, <1>4, <2>4 DEF Loads
    <2> QED BY <1>1, <1>2, <1>7, <2>2, <2>3, <2>5, <2>6, ArchiveStep
  <1> QED BY <1>4, <1>5, <1>6, <1>7

\* Unpacking leaves a whole archive to be removed; any other one has its writer
\* still, or is marked.
LEMMA UnpacksStep ==
    ASSUME InstallerInv, NEW r \in InstallRuns, UnpacksArchive(r)
    PROVE  InstallerInv'
  <1>1. PICK n : n = progress[r].n
    OBVIOUS
  <1>2. /\ progress[r].step = "unpack" /\ progress[r].step \in AtArchive
        /\ UNCHANGED <<shard, flat, archive>>
        /\ broken \subseteq broken'
        /\ archive[n] = "bad" => "archive" \in broken'
    BY <1>1 DEF UnpacksArchive, AtArchive
  <1>3. n \in 1 .. Archives /\ archive[n] \in {"none", "partial", "whole", "bad"}
    BY <1>1, <1>2, AtArchiveFacts DEF InstallerInv
  <1>4. PICK what : what = archive[n]
    OBVIOUS
  <1>5. archive' = [archive EXCEPT ![n] = what]
    BY <1>2, <1>3, <1>4 DEF InstallerInv, InstallerTypes
  <1>6. CASE what = "whole"
    <2>1. PICK p : p = [step |-> "remove", n |-> n]
      OBVIOUS
    <2>2. p.step = "remove" /\ p.n = n /\ p \in Place
      BY <1>3, <2>1, PlaceFacts DEF AtArchive
    <2>3. Goes(r, p)
      BY <1>1, <1>3, <1>4, <1>6, <2>1, <2>2 DEF Goes, Steps, UnpacksArchive
    <2>4. progress'[r] = p
      BY <2>3 DEF Goes, InstallerInv, InstallerTypes
    <2>5. Holds(r, n)'
      BY <2>2, <2>4 DEF Holds
    <2> QED BY <1>1, <1>2, <1>5, <1>6, <2>2, <2>3, <2>5, ArchiveStep
  <1>7. CASE what # "whole"
    <2>1. Goes(r, Resting)
      BY <1>1, <1>4, <1>7, PlaceFacts DEF Goes, Stops, UnpacksArchive, AtArchive
    <2>2. \A q \in InstallRuns : q # r => progress'[q] = progress[q]
      BY <2>1 DEF Goes, InstallerInv, InstallerTypes
    <2>3. "archive" \notin broken' /\ what = "partial" => \E q \in InstallRuns : Loads(q, n)'
      <3> SUFFICES ASSUME "archive" \notin broken', what = "partial"
                   PROVE  \E q \in InstallRuns : Loads(q, n)'
        OBVIOUS
      <3>1. PICK q \in InstallRuns : Loads(q, n)
        BY <1>2, <1>3, <1>4 DEF InstallerInv, ArchiveInv
      <3>2. q # r
        BY <1>2, <3>1 DEF Loads
      <3> QED BY <2>2, <3>1, <3>2 DEF Loads
    <2>4. \A q \in InstallRuns : Loads(q, n)' => Holds(q, n)'
      BY DEF Loads, Holds
    <2>5. "archive" \notin broken' => /\ what # "none" => \E q \in InstallRuns : Holds(q, n)'
                                      /\ what = "partial" => \E q \in InstallRuns : Loads(q, n)'
      BY <1>2, <1>3, <1>4, <1>7, <2>3, <2>4
    <2>6. what \in {"none", "partial", "whole", "bad"}
      BY <1>3, <1>4
    <2>7. UNCHANGED <<shard, flat>> /\ broken \subseteq broken' /\ progress[r].step \in AtArchive
      BY <1>2
    <2> QED BY <1>1, <1>5, <2>1, <2>5, <2>6, <2>7, PlaceFacts, ArchiveStep
  <1> QED BY <1>6, <1>7

\* Every step of an installation keeps the invariant.
LEMMA ServerSteps ==
    ASSUME InstallerInv, NEW r \in InstallRuns,
           \/ StartsInstall(r) \/ LooksForArchive(r) \/ OpensArchive(r) \/ LoadsArchive(r)
           \/ LosesConnection(r) \/ UnpacksArchive(r) \/ RemovesArchive(r) \/ PurgesVendor(r)
    PROVE  InstallerInv'
  <1>1. CASE LosesConnection(r)
    <2>1. /\ progress[r].step = "load"
          /\ UNCHANGED <<archive, shard, flat>>
          /\ broken \subseteq broken' /\ "archive" \in broken'
      BY <1>1 DEF LosesConnection
    <2>2. Goes(r, Resting)
      BY <1>1, PlaceFacts DEF LosesConnection, Goes, Stops, AtArchive
    <2> QED BY <2>1, <2>2, PlaceFacts, QuietStep DEF LeavesShards
  <1>2. CASE RemovesArchive(r)
    <2>1. PICK n, next :
          /\ n = progress[r].n
          /\ next = IF n < Archives THEN [step |-> "look", n |-> n + 1] ELSE Resting
          /\ progress[r].step = "remove" /\ progress[r].step \in AtArchive
          /\ Removes(r, n, archive[n], next)
          /\ UNCHANGED <<shard, flat, broken>>
      BY <1>2 DEF RemovesArchive, AtArchive
    <2>2. PICK left : left = archive[n]
      OBVIOUS
    <2>3. n \in 1 .. Archives /\ left \in {"none", "partial", "whole", "bad"}
      BY <2>1, <2>2, AtArchiveFacts DEF InstallerInv
    <2>4. "archive" \notin broken /\ left = "partial" => \E q \in InstallRuns \ {r} : Loads(q, n)
      BY <2>1, <2>2, <2>3 DEF InstallerInv, ArchiveInv, Loads
    <2> QED BY <2>1, <2>2, <2>3, <2>4, RemovesStep
  <1>3. CASE PurgesVendor(r)
    <2>1. progress[r] = Resting /\ UNCHANGED <<shard, flat, broken>>
      BY <1>3 DEF PurgesVendor
    <2>2. PICK gone \in SUBSET (1 .. Archives), p \in {Resting, [step |-> "look", n |-> 1]} :
          /\ archive' = [n \in 1 .. Archives |-> IF n \in gone THEN "none" ELSE archive[n]]
          /\ progress' = [progress EXCEPT ![r] = p]
      <3>1. CASE Stops(r) /\ \E gone \in SUBSET (1 .. Archives) :
                     archive' = [n \in 1 .. Archives |-> IF n \in gone THEN "none" ELSE archive[n]]
        BY <3>1 DEF Stops
      <3>2. CASE Steps(r, "look", 1) /\ archive' = [n \in 1 .. Archives |-> "none"]
        <4>1. archive' = [n \in 1 .. Archives |-> IF n \in 1 .. Archives THEN "none" ELSE archive[n]]
          BY <3>2
        <4> QED BY <3>2, <4>1 DEF Steps
      <3> QED BY <1>3, <3>1, <3>2 DEF PurgesVendor
    <2>3. Goes(r, p) /\ p.step \in {"rest", "look"}
      <3>1. CASE p = Resting
        BY <2>2, <3>1, PlaceFacts DEF Goes, AtArchive
      <3>2. CASE p = [step |-> "look", n |-> 1]
        <4>1. p.step = "look" /\ p.n = 1 /\ p \in Place
          BY <3>2, PlaceFacts DEF AtArchive
        <4> QED BY <2>2, <4>1, PlaceFacts DEF Goes
      <3> QED BY <3>1, <3>2
    <2>4. archive' \in [1 .. Archives -> {"none", "partial", "whole", "bad"}]
      BY <2>2 DEF InstallerInv, InstallerTypes
    <2>5. InstallerTypes'
      BY <2>1, <2>3, <2>4, GoesTypes DEF InstallerInv, InstallerTypes
    <2>6. \A q \in InstallRuns : q # r => progress'[q] = progress[q]
      BY <2>3, GoesTypes, <2>1, <2>4 DEF InstallerInv, InstallerTypes
    <2>7. ArchiveInv'
      <3> SUFFICES ASSUME "archive" \notin broken', NEW n \in 1 .. Archives, archive'[n] # "none"
                   PROVE  /\ \E q \in InstallRuns : Holds(q, n)'
                          /\ archive'[n] = "partial" => \E q \in InstallRuns : Loads(q, n)'
        BY DEF ArchiveInv
      <3>1. archive'[n] = archive[n]
        BY <2>2
      <3>2. \A q \in InstallRuns : Holds(q, n) => Holds(q, n)'
        BY <2>1, <2>6, PlaceFacts DEF Holds
      <3>3. \A q \in InstallRuns : Loads(q, n) => Loads(q, n)'
        BY <2>1, <2>6, PlaceFacts DEF Loads
      <3> QED BY <2>1, <3>1, <3>2, <3>3 DEF InstallerInv, ArchiveInv
    <2>8. ShardInv'
      BY <2>1, <2>3, PlaceFacts, ShardsKept DEF InstallerInv, LeavesShards
    <2> QED BY <2>5, <2>7, <2>8 DEF InstallerInv
  <1> QED BY <1>1, <1>2, <1>3, OpeningSteps, LoadsStep, UnpacksStep

-----------------------------------------------------------------------------
(* The installer: the model *)

\* A step of a run that changes a shard, and no archive.
LEMMA ModelStep ==
    ASSUME InstallerInv, NEW r \in InstallRuns,
           UNCHANGED archive, "archive" \in broken => "archive" \in broken',
           shard' \in [Shards -> {"none", "nested", "beside"}],
           \/ UNCHANGED progress
           \/ /\ progress[r].step \in {"fetch", "move"}
              /\ \E p : Goes(r, p)
    PROVE  InstallerTypes' /\ ArchiveInv'
  <1>1. CASE UNCHANGED progress
    BY <1>1 DEF InstallerInv, InstallerTypes, ArchiveInv, Holds, Loads
  <1>2. CASE progress[r].step \in {"fetch", "move"} /\ \E p : Goes(r, p)
    <2>1. PICK p : Goes(r, p)
      BY <1>2
    <2>2. InstallerTypes'
      BY <2>1, GoesTypes DEF InstallerInv, InstallerTypes
    <2>3. ArchiveInv'
      BY <1>2, <2>1, ArchivesKept DEF InstallerInv
    <2> QED BY <2>2, <2>3
  <1> QED BY <1>1, <1>2

\* Fetching puts a shard in place or where the repository has it; moving begins
\* with the file of `model_path`, when all shards are there.
LEMMA ModelSteps ==
    ASSUME InstallerInv, NEW r \in InstallRuns,
           \/ StartsDownload(r) \/ FetchesShard(r) \/ HasFetched(r)
           \/ MovesFirst(r) \/ MovesOther(r)
    PROVE  InstallerInv'
  <1>1. CASE StartsDownload(r)
    <2>1. /\ progress[r] = Resting
          /\ UNCHANGED <<archive, shard, flat, broken>>
          /\ Goes(r, [step |-> "fetch", n |-> 0])
      BY <1>1, PlaceFacts DEF StartsDownload, Steps, Goes, AtArchive
    <2> QED BY <2>1, PlaceFacts, QuietStep DEF LeavesShards
  <1>2. CASE FetchesShard(r)
    <2>1. PICK s \in Shards :
          /\ progress[r].step = "fetch"
          /\ shard[s] = "none"
          /\ shard' = [shard EXCEPT ![s] = IF flat THEN "beside" ELSE "nested"]
          /\ UNCHANGED <<progress, archive, flat, broken>>
      BY <1>2 DEF FetchesShard, FetchedTo
    <2>2. shard \in [Shards -> {"none", "nested", "beside"}] /\ flat \in BOOLEAN
      BY DEF InstallerInv, InstallerTypes, ShardInv
    <2>3. InstallerTypes' /\ ArchiveInv'
      BY <2>1, <2>2, ModelStep
    <2>4. /\ \A u \in Shards : u # s => shard'[u] = shard[u]
          /\ shard'[s] = IF flat THEN "beside" ELSE "nested"
      BY <2>1, <2>2
    <2>5. CASE flat
      <3>1. \A u \in Shards : shard'[u] # "nested"
        BY <2>4, <2>5 DEF InstallerInv, ShardInv
      <3>2. \A q \in InstallRuns : progress'[q].step \notin {"move", "move others"}
        BY <2>1, <2>5 DEF InstallerInv, ShardInv
      <3>3. flat' /\ progress'[r].step = "fetch"
        BY <2>1, <2>5
      <3>4. ShardInv'
        BY <3>1, <3>2, <3>3 DEF ShardInv
      <3> QED BY <2>3, <3>4 DEF InstallerInv
    <2>6. CASE ~flat
      <3>1. ~ModelPresent /\ ~ModelPresent'
        <4>1. ~ModelPresent
          BY <2>1, <2>6 DEF InstallerInv, ShardInv
        <4> QED BY <2>4, <2>6, <4>1, InstallerAssumption DEF ModelPresent
      <3>2. flat' \in BOOLEAN /\ ~flat' /\ \A u \in Shards : shard[u] # "none" => shard'[u] # "none"
        BY <2>1, <2>2, <2>4, <2>6
      <3>3. \A q \in InstallRuns : progress'[q].step \in {"move", "move others"} =>
                \A u \in Shards : shard'[u] # "none"
        BY <2>1, <3>2 DEF InstallerInv, ShardInv
      <3>4. ShardInv'
        BY <3>1, <3>2, <3>3 DEF ShardInv
      <3> QED BY <2>3, <3>4 DEF InstallerInv
    <2> QED BY <2>2, <2>3, <2>5, <2>6 DEF InstallerInv
  <1>3. CASE HasFetched(r)
    <2>1. /\ progress[r].step = "fetch"
          /\ \A s \in Shards : shard[s] # "none"
          /\ UNCHANGED <<archive, shard, flat>>
          /\ broken' = IF flat THEN broken \ {"model"} ELSE broken
      BY <1>3 DEF HasFetched
    <2>2. PICK p \in {Resting, [step |-> "move", n |-> 0]} :
          /\ progress' = [progress EXCEPT ![r] = p]
          /\ p.step = "move" => ~ModelPresent
      BY <1>3, PlaceFacts DEF HasFetched, Stops, Steps
    <2>3. Goes(r, p) /\ p.step \in {"rest", "move"}
      <3>1. CASE p = Resting
        BY <2>2, <3>1, PlaceFacts DEF Goes, AtArchive
      <3>2. CASE p = [step |-> "move", n |-> 0]
        <4>1. p \in Place /\ p.step = "move"
          BY <3>2, PlaceFacts
        <4> QED BY <2>2, <4>1 DEF Goes, AtArchive
      <3> QED BY <3>1, <3>2
    <2>4. "archive" \in broken => "archive" \in broken'
      BY <2>1
    <2>5. shard \in [Shards -> {"none", "nested", "beside"}] /\ flat \in BOOLEAN
      BY DEF InstallerInv, InstallerTypes, ShardInv
    <2>6. InstallerTypes' /\ ArchiveInv'
      BY <2>1, <2>3, <2>4, <2>5, ModelStep
    <2>7. /\ progress'[r] = p
          /\ \A q \in InstallRuns : q # r => progress'[q] = progress[q]
      BY <2>3 DEF Goes, InstallerInv, InstallerTypes
    <2>8. CASE flat
      <3>1. \A s \in Shards : shard[s] = "beside"
        BY <2>1, <2>5, <2>8 DEF InstallerInv, ShardInv
      <3>2. ModelPresent
        BY <3>1, InstallerAssumption DEF ModelPresent
      <3>3. \A q \in InstallRuns : progress'[q].step \notin {"move", "move others"}
        BY <2>2, <2>3, <2>7, <2>8, <3>2 DEF InstallerInv, ShardInv
      <3> QED BY <2>1, <2>6, <2>8, <3>1, <3>3 DEF InstallerInv, ShardInv
    <2>9. CASE ~flat
      <3>1. broken' = broken /\ ModelPresent' = ModelPresent
        BY <2>1, <2>9 DEF ModelPresent
      <3>2. \A q \in InstallRuns : progress[q].step = "move others" => progress'[q] = progress[q]
        BY <2>1, <2>7
      <3> QED BY <2>1, <2>6, <2>9, <3>1, <3>2 DEF InstallerInv, ShardInv
    <2> QED BY <2>5, <2>8, <2>9
  <1>4. CASE MovesFirst(r)
    <2>1. progress[r].step = "move" /\ UNCHANGED <<archive, flat, broken>>
      BY <1>4 DEF MovesFirst
    <2>2. CASE ModelPresent
      <3>1. Goes(r, Resting) /\ UNCHANGED shard
        BY <1>4, <2>2, PlaceFacts DEF MovesFirst, Stops, Goes, AtArchive
      <3> QED BY <2>1, <3>1, PlaceFacts, QuietStep DEF LeavesShards
    <2>3. CASE ~ModelPresent
      <3>1. /\ shard' = [shard EXCEPT ![FirstShard] = "beside"]
            /\ Goes(r, [step |-> "move others", n |-> 0])
        BY <1>4, <2>3, PlaceFacts DEF MovesFirst, Steps, Goes, AtArchive
      <3>2. shard \in [Shards -> {"none", "nested", "beside"}]
            /\ shard' \in [Shards -> {"none", "nested", "beside"}]
        BY <3>1 DEF InstallerInv, InstallerTypes
      <3>3. InstallerTypes' /\ ArchiveInv'
        BY <2>1, <3>1, <3>2, ModelStep
      <3>4. ~flat /\ \A s \in Shards : shard'[s] # "none"
        BY <2>1, <3>1, <3>2 DEF InstallerInv, ShardInv
      <3>5. progress'[r].step = "move others"
        BY <3>1 DEF Goes, InstallerInv, InstallerTypes
      <3>6. ShardInv'
        <4>1. flat' \in BOOLEAN /\ ~flat'
          BY <2>1, <3>4 DEF InstallerInv, ShardInv
        <4> QED BY <3>4, <3>5, <4>1 DEF ShardInv
      <3> QED BY <3>3, <3>6 DEF InstallerInv
    <2> QED BY <2>2, <2>3
  <1>5. CASE MovesOther(r)
    <2>1. progress[r].step = "move others" /\ UNCHANGED <<archive, flat, broken>>
      BY <1>5 DEF MovesOther
    <2>2. shard \in [Shards -> {"none", "nested", "beside"}]
          /\ ~flat /\ \A s \in Shards : shard[s] # "none"
      BY <2>1 DEF InstallerInv, InstallerTypes, ShardInv
    <2>3. CASE \A s \in Shards : shard[s] # "nested"
      <3>1. Goes(r, Resting) /\ UNCHANGED shard
        BY <1>5, <2>3, PlaceFacts DEF MovesOther, Stops, Goes, AtArchive
      <3>2. \A s \in Shards : shard[s] = "beside"
        BY <2>2, <2>3
      <3> QED BY <2>1, <3>1, <3>2, PlaceFacts, QuietStep DEF LeavesShards
    <2>4. CASE ~\A s \in Shards : shard[s] # "nested"
      <3>1. PICK s \in Shards : shard' = [shard EXCEPT ![s] = "beside"]
        BY <1>5, <2>4 DEF MovesOther
      <3>2. UNCHANGED progress
        BY <1>5, <2>4 DEF MovesOther
      <3>3. /\ shard' \in [Shards -> {"none", "nested", "beside"}]
            /\ \A u \in Shards : shard'[u] # "none"
        BY <2>2, <3>1
      <3>4. InstallerTypes' /\ ArchiveInv'
        BY <2>1, <3>2, <3>3, ModelStep
      <3>5. ShardInv'
        <4>1. flat' \in BOOLEAN /\ ~flat' /\ progress'[r].step = "move others"
          BY <2>1, <2>2, <3>2 DEF InstallerInv, ShardInv
        <4> QED BY <3>3, <4>1 DEF ShardInv
      <3> QED BY <3>4, <3>5 DEF InstallerInv
    <2> QED BY <2>3, <2>4
  <1> QED BY <1>1, <1>2, <1>3, <1>4, <1>5

\* A run that is cut where it may leave something behind is marked.
LEMMA CutStep ==
    ASSUME InstallerInv, NEW r \in InstallRuns, IsCut(r)
    PROVE  InstallerInv'
  <1>1. UNCHANGED <<archive, shard, flat>> /\ broken \subseteq broken'
    BY DEF IsCut
  <1>2. progress[r].step \in {"load", "unpack", "remove"} => "archive" \in broken'
    BY DEF IsCut, LeftAt
  <1>3. LeavesShards(r)
    <2>1. shard \in [Shards -> {"none", "nested", "beside"}] /\ flat \in BOOLEAN
      BY DEF InstallerInv, InstallerTypes, ShardInv
    <2>2. CASE progress[r].step = "move others"
      BY <2>2 DEF IsCut, LeftAt, LeavesShards
    <2>3. CASE progress[r].step = "fetch"
      <3>1. CASE flat /\ ModelPresent /\ \E s \in Shards : shard[s] = "none"
        BY <2>3, <3>1 DEF IsCut, LeftAt, LeavesShards
      <3>2. CASE ~(flat /\ ModelPresent /\ \E s \in Shards : shard[s] = "none")
        BY <2>1, <2>3, <3>2 DEF InstallerInv, ShardInv, LeavesShards
      <3> QED BY <3>1, <3>2
    <2> QED BY <2>2, <2>3 DEF LeavesShards
  <1>4. Goes(r, Resting)
    BY PlaceFacts DEF IsCut, Stops, Goes, AtArchive
  <1> QED BY <1>1, <1>2, <1>3, <1>4, PlaceFacts, QuietStep

-----------------------------------------------------------------------------
(* The installer: the theorems *)

\* Every step keeps the invariant.
LEMMA StepInstaller ==
    ASSUME InstallerInv, [InstallerNext]_installVars
    PROVE  InstallerInv'
  <1>1. CASE InstallerNext
    BY <1>1, ServerSteps, ModelSteps, CutStep DEF InstallerNext
  <1>2. CASE UNCHANGED installVars
    <2>1. UNCHANGED <<progress, archive, shard, flat, broken>>
      BY <1>2 DEF installVars
    <2>2. InstallerTypes'
      BY <2>1 DEF InstallerInv, InstallerTypes
    <2>3. ArchiveInv'
      BY <2>1 DEF InstallerInv, ArchiveInv, Holds, Loads
    <2>4. ShardInv'
      BY <2>1 DEF InstallerInv, ShardInv, ModelPresent
    <2> QED BY <2>2, <2>3, <2>4 DEF InstallerInv
  <1> QED BY <1>1, <1>2

\* In every reachable state the invariant holds.
THEOREM InstallerInvariant == InstallerSpec => []InstallerInv
  <1>1. InstallerInit => InstallerInv
    BY InitInstaller
  <1>2. InstallerInv /\ [InstallerNext]_installVars => InstallerInv'
    BY StepInstaller
  <1> QED BY <1>1, <1>2, PTL DEF InstallerSpec

\* However many runs share vendor/, none leaves an archive there that a later
\* run would take for downloaded, unless one was cut while it held one or
\* unpacked what is not the release's.
THEOREM NoArchiveLeftCorrect == InstallerSpec => []NoArchiveLeft
  <1>1. InstallerInv => NoArchiveLeft
    <2>1. AllAtRest => \A r \in InstallRuns : progress[r].step = "rest"
      BY PlaceFacts DEF AllAtRest
    <2>2. AllAtRest => \A n \in 1 .. Archives : ~\E r \in InstallRuns : Holds(r, n)
      BY <2>1 DEF Holds
    <2> QED BY <2>2 DEF InstallerInv, ArchiveInv, NoArchiveLeft
  <1> QED BY <1>1, InstallerInvariant, PTL

\* A model that the checks take for installed has all its shards, however many
\* runs fetch and move them, unless one was cut while it moved them or, from a
\* flat repository, fetched them.
THEOREM PresentIsWholeCorrect == InstallerSpec => []PresentIsWhole
  <1>1. InstallerInv => PresentIsWhole
    <2>1. AllAtRest => \A r \in InstallRuns : progress[r].step = "rest"
      BY PlaceFacts DEF AllAtRest
    <2> QED BY <2>1 DEF InstallerInv, ShardInv, PresentIsWhole
  <1> QED BY <1>1, InstallerInvariant, PTL
=============================================================================
