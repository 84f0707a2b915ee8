------------------------------- MODULE Ratchets -------------------------------
(***************************************************************************)
(* The ratchet scripts of the repository (scripts/*_ratchet.py): each      *)
(* counts a kind of debt in the tracked files, file by file, and fails     *)
(* when a count is above its committed baseline.                           *)
(*                                                                         *)
(* A behaviour is about one script, `stage`.  The tree has a file of the   *)
(* repository's own and one more: another of its own, a test or a vendored *)
(* copy.  What the scripts find in a file is a number; .fleet.toml, git    *)
(* and the tools are inputs of a run.                                      *)
(***************************************************************************)
EXTENDS Integers

CONSTANTS RatchetCases,   \* the scripts, and what the other file is
          MaxDebt,        \* bound on the findings of the own file
          MaxOther,       \* and of the other file
          SizeLimit       \* max_file_lines; a file of just this size is near the limit

RatchetStages == {"comment", "conventions", "dead_code", "doc_refs", "docs", "instruction",
                  "runtime_write", "static", "structure", "usage_track"}

ASSUME RatchetAssumption ==
    /\ RatchetCases \subseteq RatchetStages \X {"beside", "test", "copy"}
    /\ {MaxDebt, MaxOther} \subseteq Nat \ {0}
    /\ SizeLimit \in Nat

VARIABLES stage,
          place,     \* what the other file is: one beside, a test or a vendored copy
          tree,      \* hits: findings of a file's first kind; more: of its second
          baseline,  \* the baseline file
          ceiling,   \* history: the debt that was accepted openly
          vouched    \* history: the keys that a passing check has compared, since when nothing changed

ratchetVars == <<stage, place, tree, baseline, ceiling, vouched>>

RatchetFiles == {"own", "other"}

\* Keys of a baseline: both kinds of the own file, the other file, and the
\* near-limit band of the structure ratchet.
RatchetKeys == {"hits", "more", "other", "band"}

NoDebt == [k \in RatchetKeys |-> 0]
Unlimited == -1   \* what no baseline records

RatchetInit ==
    /\ \E case \in RatchetCases : stage = case[1] /\ place = case[2]
    /\ tree = [f \in RatchetFiles |-> [hits |-> 0, more |-> 0, state |-> "fine"]]
    /\ baseline = [is |-> "missing", debt |-> NoDebt, records |-> {}]
    /\ ceiling = NoDebt
    /\ vouched = {}

-----------------------------------------------------------------------------
(* A run: its mode, and what .fleet.toml, git and the tools make of it *)

\* "typo": .fleet.toml is missing or cannot be read, or the table has a key that
\* is not known; "off": the table is missing or not enabled.
RunFaults == {"none", "typo", "off", "bad list", "bad number", "bad rules", "bad port",
              "off and bad port", "bad shape", "no shape", "missing file", "no git", "unwired"}

RunRequests == [mode : {"check", "init", "update", "allow"}, fault : RunFaults]

\* The exit codes; a run that has not ended yet goes on.
PASS == 0
RISE == 1
BAD_CONFIG == 2
NOT_CONFIRMED == 3
GoesOn == 4

\* What load_config makes of the table; a table that is not enabled is read no
\* further.
Table(fault, refused) ==
    IF fault \in {"typo"} \cup refused THEN "error"
    ELSE IF fault \in {"off", "off and bad port"} THEN "off" ELSE "on"

FirstOf(code, next) == IF code # GoesOn THEN code ELSE next

\* What ends a run before it looks at the tree.
Refusal(q, config) ==
    CASE config = "error" -> BAD_CONFIG
      [] config = "off" -> IF q.mode = "check" THEN PASS ELSE BAD_CONFIG
      [] config = "on" /\ q.mode = "init" ->
             IF baseline.is = "missing" THEN GoesOn ELSE BAD_CONFIG
      [] config = "on" /\ q.mode # "init" ->
             IF baseline.is = "missing" THEN RISE
             ELSE IF baseline.is = "bad" THEN BAD_CONFIG ELSE GoesOn

\* git cannot list the files, a tool fails, or a file cannot be read or parsed.
Unread(q, files) ==
    IF q.fault = "no git" \/ \E f \in files : tree[f].state = "broken"
    THEN NOT_CONFIRMED ELSE GoesOn

Risen(debt, record) == {k \in RatchetKeys : debt[k] > record[k]}

\* Mutant: --update-baseline writes whatever it finds.
JudgedLeniently(q, debt, record) ==
    IF q.mode = "check" /\ Risen(debt, record) # {} THEN RISE ELSE PASS

\* Only --allow-additions writes a risen count.
Judged(q, debt, record) ==
    IF q.mode \in {"check", "update"} /\ Risen(debt, record) # {} THEN RISE ELSE PASS

-----------------------------------------------------------------------------
(* What a script counts; a file that is tracked but deleted has nothing *)

HitsIn(f, scope) == IF f \in scope /\ tree[f].state # "deleted" THEN tree[f].hits ELSE 0
MoreIn(f) == IF tree[f].state # "deleted" THEN tree[f].more ELSE 0

Debts(scope) == [NoDebt EXCEPT !["hits"] = HitsIn("own", scope), !["other"] = HitsIn("other", scope)]
DebtsAndMore(scope) == [Debts(scope) EXCEPT !["more"] = MoreIn("own")]

OwnOnly == {"own"}
NoTests == IF place = "beside" THEN RatchetFiles ELSE OwnOnly
NoCopies == IF place = "copy" THEN OwnOnly ELSE RatchetFiles

-----------------------------------------------------------------------------
(* comment_ratchet: issue references in comments *)

CommentConfig(fault) == Table(fault, {"bad list"})
CommentScope == NoTests
CommentDebt == Debts(CommentScope)
CommentRun(q) ==
    FirstOf(Refusal(q, CommentConfig(q.fault)),
    FirstOf(Unread(q, CommentScope), Judged(q, CommentDebt, baseline.debt)))

-----------------------------------------------------------------------------
(* conventions_ratchet: hits of a rule; a test is held to one rule only *)

ConventionsConfig(fault) == Table(fault, {"bad list", "bad rules"})
ConventionsScope == NoCopies
ConventionsDebt == DebtsAndMore(ConventionsScope)
ConventionsRun(q) ==
    FirstOf(Refusal(q, ConventionsConfig(q.fault)),
    FirstOf(Unread(q, ConventionsScope), Judged(q, ConventionsDebt, baseline.debt)))

-----------------------------------------------------------------------------
(* dead_code_ratchet: definitions without a reference; a name that a text  *)
(* file mentions (own.more) is not certain enough                          *)

DeadCodeConfig(fault) == Table(fault, {"bad list", "bad number"})
DeadCodeScope == NoCopies
DeadCodeDebt == [Debts(DeadCodeScope) EXCEPT !["hits"] = IF tree["own"].more > 0 THEN 0 ELSE @]
\* A copy is read too, for what it refers to.
DeadCodeRun(q) ==
    FirstOf(Refusal(q, DeadCodeConfig(q.fault)),
    FirstOf(Unread(q, RatchetFiles), Judged(q, DeadCodeDebt, baseline.debt)))

-----------------------------------------------------------------------------
(* doc_refs_ratchet: references that do not resolve, and retired terms *)

\* The port is read whether the stage is enabled or not.
DocRefsConfig(fault) == Table(fault, {"bad list", "bad port", "off and bad port"})
DocRefsScope == NoTests
DocRefsDebt == DebtsAndMore(DocRefsScope)
DocRefsRun(q) ==
    FirstOf(Refusal(q, DocRefsConfig(q.fault)),
    FirstOf(Unread(q, DocRefsScope), Judged(q, DocRefsDebt, baseline.debt)))

-----------------------------------------------------------------------------
(* docs_ratchet: history markers, and a README over its budget *)

DocsConfig(fault) == Table(fault, {"bad list", "bad number"})
DocsScope == NoTests
DocsDebt == DebtsAndMore(DocsScope)
DocsRun(q) ==
    FirstOf(Refusal(q, DocsConfig(q.fault)),
    FirstOf(Unread(q, DocsScope), Judged(q, DocsDebt, baseline.debt)))

-----------------------------------------------------------------------------
(* instruction_ratchet: violations, and a file over its cap *)

InstructionConfig(fault) == Table(fault, {"bad list"})
\* By name, so a vendored copy counts as well.
InstructionScope == IF place = "test" THEN OwnOnly ELSE RatchetFiles
InstructionDebt == DebtsAndMore(InstructionScope)
\* extra_files that are missing are found only with the tree.
InstructionRun(q) ==
    FirstOf(Refusal(q, InstructionConfig(q.fault)),
    FirstOf(IF q.fault = "missing file" THEN BAD_CONFIG ELSE Unread(q, InstructionScope),
            Judged(q, InstructionDebt, baseline.debt)))

-----------------------------------------------------------------------------
(* runtime_write_ratchet: write targets under a code folder, and unresolved *)
(* ones                                                                     *)

RuntimeWriteConfig(fault) == Table(fault, {"bad list"})
RuntimeWriteScope == NoTests
RuntimeWriteDebt == DebtsAndMore(RuntimeWriteScope)
\* When only unresolved targets rose, a check is not confirmed.
RuntimeWriteRun(q) ==
    FirstOf(Refusal(q, RuntimeWriteConfig(q.fault)),
    FirstOf(Unread(q, RuntimeWriteScope),
            IF q.mode = "check" /\ Risen(RuntimeWriteDebt, baseline.debt) = {"more"}
            THEN NOT_CONFIRMED ELSE Judged(q, RuntimeWriteDebt, baseline.debt)))

-----------------------------------------------------------------------------
(* static_ratchet: fingerprints of what jscpd and ruff report *)

StaticConfig(fault) == Table(fault, {"bad list", "bad number", "bad rules"})
StaticScope == NoCopies
StaticDebt == Debts(StaticScope)
\* The files are the tools' to read; a tool that fails is "no git".
StaticRun(q) ==
    FirstOf(Refusal(q, StaticConfig(q.fault)),
    FirstOf(Unread(q, {}), Judged(q, StaticDebt, baseline.debt)))

-----------------------------------------------------------------------------
(* structure_ratchet: sizes over the limit, the number of files near it, and *)
(* the layout, which is only looked at when a shape is declared              *)

StructureConfig(fault) == Table(fault, {"bad list", "bad number"})
StructureScope == NoCopies

OverLimit(n) == IF n > SizeLimit THEN n ELSE 0

Near(f) == IF f \in StructureScope /\ tree[f].state # "deleted" /\ tree[f].hits = SizeLimit THEN 1 ELSE 0

StructureDebt ==
    [hits |-> OverLimit(HitsIn("own", StructureScope)), other |-> OverLimit(HitsIn("other", StructureScope)),
     more |-> tree["own"].more, band |-> Near("own") + Near("other")]

StructureFound(q) == IF q.fault = "no shape" THEN [StructureDebt EXCEPT !["more"] = 0] ELSE StructureDebt

\* A count that the baseline does not record yet is taken as it is.
StructureRecord(q) ==
    [k \in RatchetKeys |->
        IF k \in {"band", "more"} \ baseline.records THEN StructureFound(q)[k] ELSE baseline.debt[k]]

\* A shape that is not known ends every run.
StructureRun(q) ==
    FirstOf(IF StructureConfig(q.fault) = "on" /\ q.fault = "bad shape" THEN NOT_CONFIRMED
            ELSE Refusal(q, StructureConfig(q.fault)),
    FirstOf(Unread(q, StructureScope), Judged(q, StructureFound(q), StructureRecord(q))))

-----------------------------------------------------------------------------
(* usage_track_ratchet: controls and sheets without an id; the wiring is   *)
(* never baselined                                                         *)

UsageTrackConfig(fault) == Table(fault, {"bad list", "bad rules"})
UsageTrackScope == NoTests
UsageTrackDebt == DebtsAndMore(UsageTrackScope)
UsageTrackRun(q) ==
    FirstOf(Refusal(q, UsageTrackConfig(q.fault)),
    FirstOf(IF q.fault = "missing file" THEN BAD_CONFIG ELSE Unread(q, UsageTrackScope),
            IF q.mode = "check" /\ q.fault = "unwired" THEN RISE
            ELSE Judged(q, UsageTrackDebt, baseline.debt)))

-----------------------------------------------------------------------------
(* The stage of this behaviour *)

StageConfig(fault) ==
    CASE stage = "comment" -> CommentConfig(fault)
      [] stage = "conventions" -> ConventionsConfig(fault)
      [] stage = "dead_code" -> DeadCodeConfig(fault)
      [] stage = "doc_refs" -> DocRefsConfig(fault)
      [] stage = "docs" -> DocsConfig(fault)
      [] stage = "instruction" -> InstructionConfig(fault)
      [] stage = "runtime_write" -> RuntimeWriteConfig(fault)
      [] stage = "static" -> StaticConfig(fault)
      [] stage = "structure" -> StructureConfig(fault)
      [] stage = "usage_track" -> UsageTrackConfig(fault)

StageDebt ==
    CASE stage = "comment" -> CommentDebt
      [] stage = "conventions" -> ConventionsDebt
      [] stage = "dead_code" -> DeadCodeDebt
      [] stage = "doc_refs" -> DocRefsDebt
      [] stage = "docs" -> DocsDebt
      [] stage = "instruction" -> InstructionDebt
      [] stage = "runtime_write" -> RuntimeWriteDebt
      [] stage = "static" -> StaticDebt
      [] stage = "structure" -> StructureDebt
      [] stage = "usage_track" -> UsageTrackDebt

StageRun(q) ==
    CASE stage = "comment" -> CommentRun(q)
      [] stage = "conventions" -> ConventionsRun(q)
      [] stage = "dead_code" -> DeadCodeRun(q)
      [] stage = "doc_refs" -> DocRefsRun(q)
      [] stage = "docs" -> DocsRun(q)
      [] stage = "instruction" -> InstructionRun(q)
      [] stage = "runtime_write" -> RuntimeWriteRun(q)
      [] stage = "static" -> StaticRun(q)
      [] stage = "structure" -> StructureRun(q)
      [] stage = "usage_track" -> UsageTrackRun(q)

\* What a run looks at: the layout is not compared without a shape.
Compared(q) == IF stage = "structure" /\ q.fault = "no shape" THEN RatchetKeys \ {"more"} ELSE RatchetKeys

-----------------------------------------------------------------------------
(* Steps *)

Lowered(limit, debt) == IF limit # Unlimited /\ limit < debt THEN limit ELSE debt

Confirmed(q) == StageConfig(q.fault) = "on" /\ StageRun(q) = PASS

\* A check that passes.
CheckPasses(q) ==
    /\ q.mode = "check"
    /\ Confirmed(q)
    /\ vouched' = Compared(q)
    /\ UNCHANGED <<stage, place, tree, baseline, ceiling>>

\* --init, --update-baseline with or without --allow-additions: the baseline
\* becomes what was found.  Only a plain update accepts nothing new.
WritesBaseline(q) ==
    LET seen == [k \in RatchetKeys |-> IF k \in Compared(q) THEN StageDebt[k] ELSE 0]
    IN  /\ q.mode # "check"
        /\ Confirmed(q)
        /\ baseline' = [is |-> "good", debt |-> seen, records |-> Compared(q)]
        /\ ceiling' = [k \in RatchetKeys |->
               IF k \notin Compared(q) THEN Unlimited
               ELSE IF q.mode = "update" THEN Lowered(ceiling[k], seen[k]) ELSE seen[k]]
        /\ vouched' = {}
        /\ UNCHANGED <<stage, place, tree>>

\* The write is not atomic.
WriteTorn(q) ==
    /\ q.mode # "check"
    /\ Confirmed(q)
    /\ baseline' = [is |-> "bad", debt |-> NoDebt, records |-> {}]
    /\ vouched' = {}
    /\ UNCHANGED <<stage, place, tree, ceiling>>

\* The file after one change: of what is found in it, or of its state.
EditsOf(f) == {[tree[f] EXCEPT !.hits = n] : n \in 0 .. (IF f = "own" THEN MaxDebt ELSE MaxOther)}
              \cup {[tree[f] EXCEPT !.more = n] : n \in 0 .. 1}
              \cup {[tree[f] EXCEPT !.state = s] : s \in {"fine", "broken", "deleted"}}

\* Somebody edits, breaks, repairs, deletes or restores a file.  What ruff makes
\* of a file that it cannot parse is left out; of the other file only findings
\* of the first kind matter.
EditsFile(f, file) ==
    /\ stage = "static" => file.state # "broken"
    /\ f = "other" => file.more = 0
    /\ file # tree[f]
    /\ tree' = [tree EXCEPT ![f] = file]
    /\ vouched' = {}
    /\ UNCHANGED <<stage, place, baseline, ceiling>>

DiscardsBaseline ==
    /\ baseline.is # "missing"
    /\ baseline' = [is |-> "missing", debt |-> NoDebt, records |-> {}]
    /\ vouched' = {}
    /\ UNCHANGED <<stage, place, tree, ceiling>>

LaterKeys == {"band", "more"}

\* A baseline of an older version, without the near-limit band and the layout.
TakesOlderBaseline ==
    /\ stage = "structure" /\ baseline.is = "good"
    /\ baseline' = [is |-> "good", records |-> baseline.records \ LaterKeys,
                    debt |-> [k \in RatchetKeys |-> IF k \in LaterKeys THEN 0 ELSE baseline.debt[k]]]
    /\ ceiling' = [k \in RatchetKeys |-> IF k \in LaterKeys THEN Unlimited ELSE ceiling[k]]
    /\ vouched' = {}
    /\ UNCHANGED <<stage, place, tree>>

RatchetNext ==
    \/ \E q \in RunRequests : CheckPasses(q) \/ WritesBaseline(q) \/ WriteTorn(q)
    \/ \E f \in RatchetFiles : \E file \in EditsOf(f) : EditsFile(f, file)
    \/ DiscardsBaseline \/ TakesOlderBaseline

RatchetSpec == RatchetInit /\ [][RatchetNext]_ratchetVars

-----------------------------------------------------------------------------
(* Properties *)

\* Whatever a passing check has compared is no more than what somebody accepted
\* openly, with --init or --allow-additions, or less; this counts the debt in
\* files that could not be read too.  A plain --update-baseline, a broken file,
\* a torn baseline or a stage that was switched off in between let nothing in.
NothingGrowsUnseen == \A k \in vouched : ceiling[k] = Unlimited \/ StageDebt[k] <= ceiling[k]
=============================================================================
