----------------------------- MODULE E2eRouting -----------------------------
(***************************************************************************)
(* scripts/classify_e2e.py: which browser tests a branch has to run.  A    *)
(* branch changes files, the map in .fleet.toml among them, and shared     *)
(* stylesheets rule by rule; git lists the changes in three parts, each of *)
(* which may fail; the router reads lists and map and names what to run.   *)
(*                                                                         *)
(* A map is a record: `readable`, `rules` (a sequence of [tier, covers]),  *)
(* `entries` (a sequence of [name, sound, claims, selectors], the declared *)
(* surfaces) and `sheets` (the shared stylesheets).                        *)
(***************************************************************************)
EXTENDS Integers, Sequences, FiniteSets

CONSTANTS RepoPaths,
          MapFile,       \* .fleet.toml
          Router,        \* scripts/classify_e2e.py
          TestModule,    \* a test_*.py in the suite
          SharedSheet,   \* a stylesheet of several surfaces
          AddedPaths,    \* paths that a branch may add
          MapOf,         \* the maps .fleet.toml may hold, by name
          SheetRules,    \* the CSS rules of the sheet
          SelectorsOf,   \* the selectors of each, Wide among them when it reaches past them
          Wide,
          MaxChanges     \* bound on the paths a branch changes

ASSUME RoutingAssumption ==
    /\ {MapFile, Router, TestModule, SharedSheet} \cup AddedPaths \subseteq RepoPaths
    /\ \A n \in DOMAIN MapOf :
          /\ MapOf[n].rules \in Seq([tier : {"none", "static", "full"}, covers : SUBSET RepoPaths])
          /\ MapOf[n].entries \in Seq([name : STRING, sound : BOOLEAN, claims : SUBSET RepoPaths,
                                       selectors : SUBSET STRING])
          /\ MapOf[n].sheets \subseteq {SharedSheet}
    /\ SelectorsOf \in [SheetRules -> SUBSET (UNION {SelectorsOf[r] : r \in SheetRules})]
    /\ MaxChanges \in Nat

VARIABLES diff,       \* where git lists a path that differs from main: "same" when it does not
          touched,    \* the rules of the sheet that differ from main, and "noise" for a comment
          followed,   \* whether the scanner can follow both texts of the sheet
          module,     \* TestModule: "alone", "imported" by another file of the suite, "deleted"
          fleet,      \* the map of the working tree
          reviewed,   \* the map of main
          routed      \* the last routing, until something changes; `listed` if no listing failed

routingVars == <<diff, touched, followed, module, fleet, reviewed, routed>>

Listings == {"committed", "edited", "untracked"}

NotRouted == [tier |-> "none yet", surface |-> "", modules |-> {}, listed |-> TRUE]

RoutingInit ==
    /\ diff = [p \in RepoPaths |-> "same"]
    /\ touched = {} /\ followed = TRUE
    /\ module = "alone"
    /\ fleet \in DOMAIN MapOf /\ reviewed = fleet
    /\ routed = NotRouted

-----------------------------------------------------------------------------
(* Reading the map *)

\* All or nothing: one unusable entry or a name used twice leaves no surface.
LoadSurfaces(map) ==
    LET entries == {map.entries[i] : i \in DOMAIN map.entries}
    IN IF \A e \in entries : e.sound /\ Cardinality({i \in DOMAIN map.entries :
                                                     map.entries[i].name = e.name}) = 1
       THEN entries ELSE {}

MapDeclared(map) == map.readable /\ map.rules # <<>>

\* The tier of a path: that of the first rule that matches it.
ClassifyOne(map, p) ==
    LET hits == {i \in DOMAIN map.rules : p \in map.rules[i].covers}
    IN IF hits = {} THEN "unclassified"
       ELSE map.rules[CHOOSE i \in hits : \A j \in hits : i <= j].tier

-----------------------------------------------------------------------------
(* Narrowing a full run to a surface *)

SelectorOwners(map, sel) == {s \in LoadSurfaces(map) : sel \in s.selectors}

\* The surface that alone claims every selector the diff changes, if the
\* changes are known (`seen`), stay within their selectors and are not nothing.
SheetOwner(map, seen) ==
    LET sels == UNION {SelectorsOf[r] : r \in touched \ {"noise"}}
    IN IF ~seen \/ ~followed \/ Wide \in sels \/ sels = {} THEN {}
       ELSE {s \in LoadSurfaces(map) : \A sel \in sels : SelectorOwners(map, sel) = {s}}

OwnersOf(map, p, seen) ==
    IF p \in map.sheets THEN SheetOwner(map, seen)
    ELSE {s \in LoadSurfaces(map) : p \in s.claims}

SelfOnly(p) == p = TestModule /\ module = "alone"

\* Mutant: a diff that edits the map is judged by the map it edits.
EditsNoRouting(paths) == FALSE

\* The files that define the routing.
EditsRouting(paths) == paths \cap {MapFile, Router} # {}

\* Mutant: the diff may span two surfaces, and runs the first.
NarrowToFirst(map, paths, seen) ==
    LET counted == {p \in paths : ClassifyOne(map, p) # "none"}
        hits    == UNION {OwnersOf(map, p, seen) : p \in counted}
    IN IF /\ \A p \in paths : ClassifyOne(map, p) # "unclassified"
          /\ ~EditsRouting(paths)
          /\ \A p \in counted : Cardinality(OwnersOf(map, p, seen)) = 1
          /\ hits # {}
       THEN {[tier |-> "surface", surface |-> (CHOOSE s \in hits : TRUE).name, modules |-> {}]}
       ELSE {}

\* What `_narrow_to_surface` returns, as a set of at most one routing.
NarrowToSurface(map, paths, seen) ==
    LET counted == {p \in paths : ClassifyOne(map, p) # "none"}
        modules == {p \in counted : /\ p \notin map.sheets /\ OwnersOf(map, p, seen) = {}
                                    /\ ClassifyOne(map, p) = "full" /\ SelfOnly(p)}
        hits    == UNION {OwnersOf(map, p, seen) : p \in counted \ modules}
    IN IF /\ \A p \in paths : ClassifyOne(map, p) # "unclassified"
          /\ ~EditsRouting(paths)
          /\ \A p \in counted \ modules : Cardinality(OwnersOf(map, p, seen)) = 1
          /\ Cardinality(hits) <= 1
          /\ hits # {} \/ modules # {}
       THEN {[tier    |-> "surface",
              surface |-> IF hits = {} THEN "self" ELSE (CHOOSE s \in hits : TRUE).name,
              modules |-> modules]}
       ELSE {}

FullRun == [tier |-> "full", surface |-> "", modules |-> {}]

\* `classify`.
Classify(map, paths, seen) ==
    LET tiers == {ClassifyOne(map, p) : p \in paths}
        narrowed == NarrowToSurface(map, paths, seen)
    IN IF ~MapDeclared(map) \/ paths = {} THEN FullRun
       ELSE IF {"full", "unclassified"} \cap tiers # {}
            THEN IF narrowed = {} THEN FullRun ELSE CHOOSE r \in narrowed : TRUE
       ELSE [tier |-> IF "static" \in tiers THEN "static" ELSE "skip",
             surface |-> "", modules |-> {}]

-----------------------------------------------------------------------------
(* The branch, and the runs of the router *)

DiffersOn == {p \in RepoPaths : diff[p] # "same"}

\* A change of path p that has not been committed.
Edited(p) ==
    /\ Cardinality(DiffersOn \cup {p}) <= MaxChanges
    /\ \E where \in {"edited"} \cup (IF p \in AddedPaths THEN {"untracked"} ELSE {}) :
          diff' = [diff EXCEPT ![p] = where]
    /\ routed' = NotRouted

EditsPath ==
    /\ \E p \in RepoPaths \ {MapFile, TestModule, SharedSheet} : Edited(p)
    /\ UNCHANGED <<touched, followed, module, fleet, reviewed>>

EditsMap ==
    /\ Edited(MapFile)
    /\ fleet' \in DOMAIN MapOf
    /\ UNCHANGED <<touched, followed, module, reviewed>>

\* The sheet's text changes in some rule, in a comment, or past following.
EditsSheet ==
    /\ Edited(SharedSheet)
    /\ \E r \in SheetRules \cup {"noise"} : touched' = touched \cup {r}
    /\ followed' \in BOOLEAN
    /\ UNCHANGED <<module, fleet, reviewed>>

EditsModule ==
    /\ Edited(TestModule)
    /\ module' \in {module, "deleted"} \cup (IF module = "deleted" THEN {"alone"} ELSE {})
    /\ UNCHANGED <<touched, followed, fleet, reviewed>>

\* Another file of the suite, which the map has a path for, starts to import
\* the module or no longer does.
ImportsModule(p) ==
    /\ p \notin {MapFile, TestModule, SharedSheet}
    /\ Edited(p)
    /\ module # "deleted"
    /\ module' = IF module = "alone" THEN "imported" ELSE "alone"
    /\ UNCHANGED <<touched, followed, fleet, reviewed>>

CommitsAll ==
    /\ \E p \in RepoPaths : diff[p] \in {"edited", "untracked"}
    /\ diff' = [p \in RepoPaths |-> IF diff[p] = "same" THEN "same" ELSE "committed"]
    /\ routed' = NotRouted
    /\ UNCHANGED <<touched, followed, module, fleet, reviewed>>

\* The branch is merged, and the next one starts from it.
MergesToMain ==
    /\ DiffersOn # {} /\ \A p \in DiffersOn : diff[p] = "committed"
    /\ diff' = [p \in RepoPaths |-> "same"]
    /\ touched' = {} /\ followed' = TRUE
    /\ reviewed' = fleet /\ routed' = NotRouted
    /\ UNCHANGED <<module, fleet>>

\* `changed_files`: a git command that fails lists nothing.
ChangedFiles(missed) == {p \in DiffersOn : diff[p] \notin missed}

\* `main` on the live diff.  The sheet's old text cannot be read when its git
\* command fails.
RoutesDiff ==
    /\ routed' \in {LET r == Classify(MapOf[fleet], ChangedFiles(missed), seen)
                   IN [tier |-> r.tier, surface |-> r.surface, modules |-> r.modules,
                       listed |-> missed = {}] : missed \in SUBSET Listings, seen \in BOOLEAN}
    /\ UNCHANGED <<diff, touched, followed, module, fleet, reviewed>>

RoutingNext ==
    \/ EditsPath \/ EditsMap \/ EditsSheet \/ EditsModule \/ CommitsAll \/ MergesToMain \/ RoutesDiff
    \/ \E p \in RepoPaths : ImportsModule(p)

RoutingSpec == RoutingInit /\ [][RoutingNext]_routingVars

-----------------------------------------------------------------------------
(* Properties *)

\* Where a changed path shows, as the map declares it: on every page, unless
\* surfaces claim it; a rule of the sheet on the pages that claim a selector.
ShowsOn(p) ==
    LET everywhere == {s.name : s \in LoadSurfaces(MapOf[fleet])} \cup {"elsewhere"}
        claimed(ss) == IF ss = {} THEN everywhere ELSE {s.name : s \in ss}
    IN IF p = SharedSheet /\ p \in MapOf[fleet].sheets
       THEN IF ~followed \/ Wide \in UNION {SelectorsOf[r] : r \in touched \ {"noise"}}
            THEN everywhere
            ELSE UNION {claimed(SelectorOwners(MapOf[fleet], sel)) :
                          sel \in UNION {SelectorsOf[r] : r \in touched \ {"noise"}}}
       ELSE claimed({s \in LoadSurfaces(MapOf[fleet]) : p \in s.claims})

\* "uncertainty always escalates to full coverage, never narrows it": when git
\* lists the whole diff, a run that is not the full suite visits every place
\* where a changed path shows, over any sequence of edits, commits and merges,
\* with the rules of a shared stylesheet attributed one by one.
NarrowRunCovers ==
    routed.tier \in {"surface", "static", "skip"} /\ routed.listed =>
        \A p \in DiffersOn :
            \/ ClassifyOne(MapOf[fleet], p) = "none"
            \/ routed.tier = "static" /\ ClassifyOne(MapOf[fleet], p) = "static"
            \/ /\ routed.tier = "surface"
               /\ \/ ShowsOn(p) \subseteq {routed.surface}
                  \/ p = TestModule /\ p \in routed.modules /\ module = "alone"

\* "A diff that edits the surface map ... must not be judged by its own
\* unreviewed map": a diff is narrowed to a surface by the map of main only,
\* whichever way the map was edited and committed before.
NarrowsByReviewedMap ==
    routed.tier = "surface" /\ routed.listed => fleet = reviewed
=============================================================================
