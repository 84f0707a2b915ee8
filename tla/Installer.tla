------------------------------ MODULE Installer ------------------------------
(***************************************************************************)
(* Installing what the hub runs: scripts/install_llama_cpp.py and          *)
(* install_whisper_cpp.py with scripts/_lib.py, which download the archives *)
(* of a release into vendor/ and unpack them there, and                    *)
(* scripts/download_models.py, which fetches the shards of a model and     *)
(* moves them beside its `model_path`.  They are started by hand, by       *)
(* `python -m src.install --fix` and by the admin page's fix buttons,      *)
(* which run in threads of their own: two runs may be at work at once, and *)
(* a process may end, or a step fail, at any point.                        *)
(***************************************************************************)
EXTENDS Integers

CONSTANTS InstallRuns,
          Archives,      \* archives of the release, taken from 1 on
          Shards,        \* files of the model
          FirstShard,    \* the one that `model_path` names
          MaxInstalls    \* bound on the runs started

ASSUME InstallerAssumption ==
    /\ Archives \in Nat \ {0}
    /\ FirstShard \in Shards
    /\ MaxInstalls \in Nat

VARIABLES progress,   \* where a run is
          archive,   \* an archive in vendor/: "none", "partial", "whole", "bad" (other bytes)
          unpacked,  \* the archives whose files are in vendor/
          shard,     \* where a shard is: "none", "nested" as in the repository, "beside"
          digests,   \* whether the release publishes digests
          flat,      \* whether the repository keeps the shards at its root (the shipped rows)
          installs,  \* the runs started
          broken     \* history: what a run may have left behind, an "archive" or a part of the "model"

installVars == <<progress, archive, unpacked, shard, digests, flat, installs, broken>>

Resting == [step |-> "rest", n |-> 0]

InstallerInit ==
    /\ progress = [r \in InstallRuns |-> Resting]
    /\ archive = [n \in 1 .. Archives |-> "none"]
    /\ unpacked = {}
    /\ shard = [s \in Shards |-> "none"]
    /\ digests \in BOOLEAN
    /\ flat \in BOOLEAN
    /\ installs = 0 /\ broken = {}

Steps(r, step, n) == progress' = [progress EXCEPT ![r] = [step |-> step, n |-> n]]
Stops(r) == progress' = [progress EXCEPT ![r] = Resting]

\* The checks of src/install.py: the server starts, the model's file is there.
AlreadyInstalled == unpacked = 1 .. Archives
ModelPresent == shard[FirstShard] = "beside"

-----------------------------------------------------------------------------
(* The server: `main`, `install_assets`, `download`, `extract` *)

StartsInstall(r) ==
    /\ progress[r] = Resting /\ installs < MaxInstalls
    /\ installs' = installs + 1
    /\ IF AlreadyInstalled THEN Stops(r) ELSE Steps(r, "look", 1)
    /\ UNCHANGED <<archive, unpacked, shard, digests, flat, broken>>

\* An archive that is there is not downloaded.
LooksForArchive(r) ==
    /\ progress[r].step = "look"
    /\ IF archive[progress[r].n] = "none" THEN Steps(r, "request", progress[r].n) ELSE Steps(r, "unpack", progress[r].n)
    /\ UNCHANGED <<archive, unpacked, shard, digests, flat, installs, broken>>

\* The server answers and the file is opened for writing, or the request fails.
OpensArchive(r) ==
    /\ progress[r].step = "request"
    /\ \/ Steps(r, "load", progress[r].n) /\ archive' = [archive EXCEPT ![progress[r].n] = "partial"]
       \/ Stops(r) /\ UNCHANGED archive
    /\ UNCHANGED <<unpacked, shard, digests, flat, installs, broken>>

\* A file that another run writes or unpacks is removed on some systems only:
\* there `unlink` succeeds, elsewhere it raises, and the file is left.
Removes(r, n, left, next) ==
    \/ archive' = [archive EXCEPT ![n] = "none"] /\ progress' = [progress EXCEPT ![r] = next]
    \/ /\ \E q \in InstallRuns \ {r} : progress[q].n = n /\ progress[q].step \in {"load", "unpack"}
       /\ Stops(r) /\ archive' = [archive EXCEPT ![n] = left]

\* Mutant: a download whose digest is wrong is refused and left where it is.
RejectsAndKeeps(r, n, got) == Stops(r) /\ archive' = [archive EXCEPT ![n] = got]

\* What is done with a download whose digest is wrong.
RejectsArchive(r, n, got) == Removes(r, n, got, Resting)

\* The last byte is written.  While another run writes the same file it is not
\* whole; one that was removed meanwhile cannot be read back.
LoadsArchive(r) ==
    LET n == progress[r].n
        shared == \E q \in InstallRuns \ {r} : progress[q] = progress[r]
    IN /\ progress[r].step = "load"
       /\ \E got \in IF shared THEN {"partial"} ELSE {"whole", "bad"} :
             IF archive[n] = "none" THEN Stops(r) /\ UNCHANGED archive
             ELSE IF digests /\ got # "whole" THEN RejectsArchive(r, n, got)
             ELSE Steps(r, "unpack", n) /\ archive' = [archive EXCEPT ![n] = got]
       /\ UNCHANGED <<unpacked, shard, digests, flat, installs, broken>>

\* The connection fails while the archive is read: what was written stays.
LosesConnection(r) ==
    /\ progress[r].step = "load"
    /\ Stops(r)
    /\ broken' = broken \cup {"archive"}
    /\ UNCHANGED <<archive, unpacked, shard, digests, flat, installs>>

\* Only a whole archive unpacks; any other raises and stays.  It may be one that
\* no digest refused, or one that was refused and could not be removed.
UnpacksArchive(r) ==
    LET n == progress[r].n
    IN /\ progress[r].step = "unpack"
       /\ IF archive[n] = "whole" THEN Steps(r, "remove", n) /\ unpacked' = unpacked \cup {n}
          ELSE Stops(r) /\ UNCHANGED unpacked
       /\ broken' = IF archive[n] = "bad" THEN broken \cup {"archive"} ELSE broken
       /\ UNCHANGED <<archive, shard, digests, flat, installs>>

\* `unlink`, then the next archive, or flattening and the last check.
RemovesArchive(r) ==
    LET n == progress[r].n
    IN /\ progress[r].step = "remove"
       /\ Removes(r, n, archive[n], IF n < Archives THEN [step |-> "look", n |-> n + 1] ELSE Resting)
       /\ UNCHANGED <<unpacked, shard, digests, flat, installs, broken>>

\* `--force` (install_whisper_cpp.py): the vendored tree goes first, or a part of
\* it, where a server or another run holds a file, and then the run fails.
PurgesVendor(r) ==
    /\ progress[r] = Resting /\ installs < MaxInstalls
    /\ installs' = installs + 1
    /\ \/ /\ unpacked' = {} /\ archive' = [n \in 1 .. Archives |-> "none"]
          /\ Steps(r, "look", 1)
       \/ /\ unpacked' \in SUBSET unpacked
          /\ \E gone \in SUBSET (1 .. Archives) :
                archive' = [n \in 1 .. Archives |-> IF n \in gone THEN "none" ELSE archive[n]]
          /\ Stops(r)
    /\ UNCHANGED <<shard, digests, flat, broken>>

-----------------------------------------------------------------------------
(* The model: `download_one` *)

StartsDownload(r) ==
    /\ progress[r] = Resting /\ installs < MaxInstalls
    /\ installs' = installs + 1
    /\ Steps(r, "fetch", 0)
    /\ UNCHANGED <<archive, unpacked, shard, digests, flat, broken>>

\* Mutant: the file of `model_path` is put in its place as soon as it is fetched.
FetchedInPlace(s) == IF flat \/ s = FirstShard THEN "beside" ELSE "nested"

\* Where a fetched shard is put: as in the repository, below the directory of
\* `model_path`.
FetchedTo(s) == IF flat THEN "beside" ELSE "nested"

\* A shard is fetched, in any order; the run goes on when all are.
FetchesShard(r) ==
    /\ progress[r].step = "fetch"
    /\ \E s \in Shards : shard[s] = "none" /\ shard' = [shard EXCEPT ![s] = FetchedTo(s)]
    /\ UNCHANGED <<progress, archive, unpacked, digests, flat, installs, broken>>

\* The shards are moved only if the file of `model_path` is not there; those of
\* a flat repository are all in place.
HasFetched(r) ==
    /\ progress[r].step = "fetch" /\ \A s \in Shards : shard[s] # "none"
    /\ IF ModelPresent THEN Stops(r) ELSE Steps(r, "move", 0)
    /\ broken' = IF flat THEN broken \ {"model"} ELSE broken
    /\ UNCHANGED <<archive, unpacked, shard, digests, flat, installs>>

\* First that file, then the others.  A file that another run has moved since
\* raises.
MovesFirst(r) ==
    /\ progress[r].step = "move"
    /\ IF ModelPresent THEN Stops(r) /\ UNCHANGED shard
       ELSE Steps(r, "move others", 0) /\ shard' = [shard EXCEPT ![FirstShard] = "beside"]
    /\ UNCHANGED <<archive, unpacked, digests, flat, installs, broken>>

MovesOther(r) ==
    /\ progress[r].step = "move others"
    /\ IF \A s \in Shards : shard[s] # "nested" THEN Stops(r) /\ UNCHANGED shard
       ELSE /\ \E s \in Shards : shard[s] = "nested" /\ shard' = [shard EXCEPT ![s] = "beside"]
            /\ UNCHANGED progress
    /\ UNCHANGED <<archive, unpacked, digests, flat, installs, broken>>

\* What a run that ends at a step may leave behind.  The first shard of a flat
\* repository is at `model_path` while others are still to be fetched.
LeftAt(step) ==
    CASE step \in {"load", "unpack", "remove"} -> {"archive"}
      [] step = "move others" -> {"model"}
      [] step = "fetch" -> IF flat /\ ModelPresent /\ \E s \in Shards : shard[s] = "none"
                           THEN {"model"} ELSE {}
      [] OTHER -> {}

\* The process ends, or a step raises, wherever the run is.
IsCut(r) ==
    /\ progress[r] # Resting
    /\ Stops(r)
    /\ broken' = broken \cup LeftAt(progress[r].step)
    /\ UNCHANGED <<archive, unpacked, shard, digests, flat, installs>>

InstallerNext ==
    \E r \in InstallRuns :
        \/ StartsInstall(r) \/ LooksForArchive(r) \/ OpensArchive(r) \/ LoadsArchive(r)
        \/ LosesConnection(r) \/ UnpacksArchive(r) \/ RemovesArchive(r) \/ PurgesVendor(r)
        \/ StartsDownload(r) \/ FetchesShard(r) \/ HasFetched(r) \/ MovesFirst(r) \/ MovesOther(r)
        \/ IsCut(r)

InstallerSpec == InstallerInit /\ [][InstallerNext]_installVars

-----------------------------------------------------------------------------
(* Properties *)

AllAtRest == \A r \in InstallRuns : progress[r] = Resting

\* An archive that stays in vendor/ is taken for downloaded by every later run.
\* Runs leave none behind, however two of them share the directory (a download
\* whose digest is wrong does not stand in the way of the next try), unless a
\* run was cut while it held one, or one unpacked what is not the release's:
\* without a digest, or refused by another run that could not remove it then.
NoArchiveLeft ==
    AllAtRest /\ "archive" \notin broken => \A n \in 1 .. Archives : archive[n] = "none"

\* The checks take a model for installed once the file of `model_path` is
\* there.  Then its other shards are beside it, whichever runs fetched and moved
\* at once, unless a run ended early while it moved them or, with a fetch that
\* failed, while it fetched from a flat repository, which puts the first shard
\* there at once.  A later run that goes through makes up for the latter.
PresentIsWhole ==
    AllAtRest /\ "model" \notin broken /\ ModelPresent => \A s \in Shards : shard[s] = "beside"
=============================================================================
