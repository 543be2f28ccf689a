----------------------------- MODULE Migrations -----------------------------
(***************************************************************************)
(* Bringing an outdated repo to the version the program needs: the part of *)
(* daemonFunc that runs when fsrepo.Open says ErrNeedMigration             *)
(* (cmd/ipfs/daemon.go), RunMigration and its fetchers                     *)
(* (repo/fsrepo/migrations), the temporary node of the IPFS fetcher        *)
(* (migrations/ipfsfetcher) and addMigrations (cmd/ipfs/add_migrations.go).*)
(*                                                                         *)
(* The migration from version v to v + 1 is named v.  Every missing        *)
(* migration is downloaded by a goroutine of its own, which fetches the    *)
(* list of versions and then the archive; the fetchers are shared.         *)
(* DownloadDirectory and the temporary directories are counted, since what *)
(* matters of them is whether they are still there.                        *)
(***************************************************************************)
EXTENDS Naturals, Sequences, FiniteSets

CONSTANTS MgFrom,      \* the version of the repo on disk
          MgTarget,    \* fsrepo.RepoVersion
          MgFaults     \* bound on failures, crashes and foreign migrations

ASSUME MgAssumption == MgFrom \in Nat /\ MgTarget \in Nat /\ MgFrom <= MgTarget

VARIABLES
    mgPc,      \* where daemonFunc is
    mgVer,     \* the repo's version file
    mgTodo,    \* RunMigration's list: from fromVer, what is still to be run
    mgKeep,    \* Migration.Keep as read
    mgSrcs,    \* the fetchers, in order
    mgBins,    \* migrations with a binary: on the PATH, or downloaded
    mgThr,     \* the download goroutine of a migration
    mgTry,     \* the fetcher that goroutine asks next
    mgOnce,    \* IpfsFetcher: "no", "opening", "open" or "failed"
    mgRuns,    \* temporary nodes that run
    mgDirs,    \* temporary repos on disk
    mgPaths,   \* IpfsFetcher.fetched
    mgSaved,   \* archives in DownloadDirectory
    mgDlDir,   \* DownloadDirectory is set
    mgKept,    \* archives added to the node
    mgErr,     \* "Could not add migration to IPFS" was printed
    mgBad      \* failures so far

mgVars == <<mgPc, mgVer, mgTodo, mgKeep, mgSrcs, mgBins, mgThr, mgTry, mgOnce,
            mgRuns, mgDirs, mgPaths, mgSaved, mgDlDir, mgKept,
            mgErr, mgBad>>

Migs == MgFrom .. MgTarget - 1

(* Each goroutine asks for two files. *)
Files == {"versions", "archive"}

local == <<mgTodo, mgKeep, mgSrcs, mgBins, mgThr, mgTry, mgOnce, mgRuns,
           mgDirs, mgPaths, mgSaved, mgDlDir, mgKept, mgErr>>

FreshProcess ==
    /\ mgTodo' = <<>> /\ mgKeep' = "empty" /\ mgSrcs' = <<>> /\ mgBins' = {}
    /\ mgThr' = [m \in Migs |-> "none"] /\ mgTry' = [m \in Migs |-> 1]
    /\ mgOnce' = "no" /\ mgRuns' = 0 /\ mgDirs' = 0 /\ mgPaths' = {}
    /\ mgSaved' = {} /\ mgDlDir' = FALSE /\ mgKept' = {} /\ mgErr' = FALSE

MgInit ==
    /\ mgPc = "open" /\ mgVer = MgFrom /\ mgBad = 0
    /\ mgTodo = <<>> /\ mgKeep = "empty" /\ mgSrcs = <<>> /\ mgBins = {}
    /\ mgThr = [m \in Migs |-> "none"] /\ mgTry = [m \in Migs |-> 1]
    /\ mgOnce = "no" /\ mgRuns = 0 /\ mgDirs = 0 /\ mgPaths = {}
    /\ mgSaved = {} /\ mgDlDir = FALSE /\ mgKept = {} /\ mgErr = FALSE

Fault == mgBad < MgFaults /\ mgBad' = mgBad + 1

----------------------------------------------------------------------------
(* daemonFunc up to RunMigration. *)

(* fsrepo.Open: the first one may ask for migrations, which the user or the
   --migrate flag may refuse; the one after the migrations may not. *)
Open ==
    /\ mgPc = "open"
    /\ \/ mgVer = MgTarget /\ mgPc' = "served"
       \/ mgVer < MgTarget /\ mgPc' \in {"config", "failed"}
    /\ UNCHANGED <<mgVer, mgBad, local>>

(* ReadMigrationConfig: an empty Keep is "cache", and "pin" is not among the
   values it lets through; no source at all means the default ones.  The
   empty string is written "empty" here and below. *)
KeepAccepted(k) == k \in {"empty", "discard", "cache", "keep"}
ReadKeep(k) == IF k = "empty" THEN "cache" ELSE k
ReadSources(s) == IF s = <<>> THEN <<"HTTPS", "IPFS">> ELSE s

(* GetMigrationFetcher: a fetcher for every source that is not empty; a source
   that is neither keyword must be the address of a gateway. *)
FetcherOf == [HTTPS |-> "http", IPFS |-> "ipfs", gateway |-> "http"]
FetchersOf(s) ==
    LET named == SelectSeq(s, LAMBDA x : x # "empty")
    IN  [i \in 1 .. Len(named) |->
            IF named[i] \in DOMAIN FetcherOf THEN FetcherOf[named[i]] ELSE "bad"]
Usable(fetchers) ==
    fetchers # <<>> /\ fetchers \in Seq({"http", "ipfs"})

(* The configured values; then the download directory when archives are kept. *)
ReadMigrationConfig ==
    /\ mgPc = "config"
    /\ \E k \in {"empty", "discard", "pin"},
          s \in {<<>>, <<"empty", "gateway">>, <<"ftp">>, <<"IPFS">>,
                 <<"IPFS", "HTTPS">>} :
          LET fetchers == FetchersOf(ReadSources(s))
          IN  IF KeepAccepted(k) /\ Usable(fetchers)
              THEN /\ mgKeep' = ReadKeep(k) /\ mgSrcs' = fetchers
                   /\ mgDlDir' = (ReadKeep(k) \in {"cache", "pin"})
                   /\ mgPc' = "find"
              ELSE mgPc' = "failed" /\ UNCHANGED <<mgKeep, mgSrcs, mgDlDir>>
    /\ UNCHANGED <<mgVer, mgBad, mgTodo, mgBins, mgThr, mgTry, mgOnce, mgRuns,
                   mgDirs, mgPaths, mgSaved, mgKept, mgErr>>

(* RunMigration up to the download: the version is read again, findMigrations
   lists the steps to the target and looks each one up on the PATH, and a
   goroutine is started for every one it does not find. *)
StepsFrom(v) == [i \in 1 .. MgTarget - v |-> v + i - 1]

FindMigrations ==
    /\ mgPc = "find"
    /\ mgTodo' = StepsFrom(mgVer)
    /\ \E found \in SUBSET (mgVer .. MgTarget - 1) :
          /\ mgBins' = found
          /\ mgThr' = [m \in Migs |-> IF m >= mgVer /\ m \notin found
                                      THEN "versions" ELSE "none"]
    /\ mgPc' = "fetch"
    /\ UNCHANGED <<mgVer, mgBad, mgKeep, mgSrcs, mgTry, mgOnce, mgRuns,
                   mgDirs, mgPaths, mgSaved, mgDlDir, mgKept, mgErr>>

----------------------------------------------------------------------------
(* The download of migration m: LatestDistVersion, then FetchBinary. *)

Source(m) == mgSrcs[mgTry[m]]

\* Mutant: the archive is removed once it is unpacked.
FetchedAndRemoved(m) ==
    /\ mgTry' = [mgTry EXCEPT ![m] = 1]
    /\ IF mgThr[m] = "versions"
       THEN mgThr' = [mgThr EXCEPT ![m] = "archive"] /\ UNCHANGED mgBins
       ELSE /\ mgThr' = [mgThr EXCEPT ![m] = "done"]
            /\ mgBins' = mgBins \cup {m}
    /\ UNCHANGED mgSaved

(* Fetcher.Fetch gave a reader.  FetchBinary saves the archive and unpacks the
   binary from it. *)
Fetched(m) ==
    /\ mgTry' = [mgTry EXCEPT ![m] = 1]
    /\ IF mgThr[m] = "versions"
       THEN /\ mgThr' = [mgThr EXCEPT ![m] = "archive"]
            /\ UNCHANGED <<mgBins, mgSaved>>
       ELSE /\ mgThr' = [mgThr EXCEPT ![m] = "done"]
            /\ mgBins' = mgBins \cup {m}
            /\ mgSaved' = IF mgDlDir THEN mgSaved \cup {m} ELSE mgSaved

(* MultiFetcher.Fetch goes on to the next fetcher, or gives up. *)
NextFetcher(m) ==
    IF mgTry[m] < Len(mgSrcs)
    THEN mgTry' = [mgTry EXCEPT ![m] = @ + 1] /\ UNCHANGED mgThr
    ELSE mgThr' = [mgThr EXCEPT ![m] = "failed"] /\ UNCHANGED mgTry

HttpFetch(m) ==
    /\ mgThr[m] \in Files /\ Source(m) = "http"
    /\ \/ Fetched(m) /\ UNCHANGED mgBad
       \/ Fault /\ NextFetcher(m) /\ UNCHANGED <<mgBins, mgSaved>>
    /\ UNCHANGED <<mgPc, mgVer, mgTodo, mgKeep, mgSrcs, mgOnce, mgRuns, mgDirs,
                   mgPaths, mgDlDir, mgKept, mgErr>>

\* Mutant: the flag is set when the node is up, not when it is being started.
OpenAlways == mgOnce # "open"

(* openOnce: the first Fetch initialises and starts the temporary node, and
   the others wait for it. *)
MayOpen == mgOnce = "no"

OpenOnce(m) ==
    /\ mgThr[m] \in Files /\ Source(m) = "ipfs" /\ MayOpen
    /\ mgOnce' = "opening"
    /\ \/ mgDirs' = mgDirs + 1 /\ UNCHANGED mgBad
       \/ Fault /\ UNCHANGED mgDirs
    /\ UNCHANGED <<mgPc, mgVer, mgTodo, mgKeep, mgSrcs, mgBins, mgThr, mgTry,
                   mgRuns, mgPaths, mgSaved, mgDlDir, mgKept, mgErr>>

(* initTempNode may have failed (and removed its directory); startTempNode may
   fail too, and leaves the directory to Close. *)
StartTempNode ==
    /\ mgOnce = "opening"
    /\ \/ /\ mgDirs > 0 /\ mgOnce' = "open" /\ mgRuns' = mgRuns + 1
          /\ UNCHANGED mgBad
       \/ mgDirs = 0 /\ mgOnce' = "failed" /\ UNCHANGED <<mgRuns, mgBad>>
       \/ mgDirs > 0 /\ Fault /\ mgOnce' = "failed" /\ UNCHANGED mgRuns
    /\ UNCHANGED <<mgPc, mgVer, mgTodo, mgKeep, mgSrcs, mgBins, mgThr, mgTry,
                   mgDirs, mgPaths, mgSaved, mgDlDir, mgKept, mgErr>>

IpfsFetch(m) ==
    /\ mgThr[m] \in Files /\ Source(m) = "ipfs"
    /\ \/ /\ mgOnce = "open" /\ Fetched(m)
          /\ mgPaths' = mgPaths \cup {<<mgThr[m], m>>} /\ UNCHANGED mgBad
       \/ /\ mgOnce = "open" /\ Fault /\ NextFetcher(m)
          /\ UNCHANGED <<mgBins, mgSaved, mgPaths>>
       \/ /\ mgOnce = "failed" /\ NextFetcher(m)
          /\ UNCHANGED <<mgBins, mgSaved, mgPaths, mgBad>>
    /\ UNCHANGED <<mgPc, mgVer, mgTodo, mgKeep, mgSrcs, mgOnce, mgRuns, mgDirs,
                   mgDlDir, mgKept, mgErr>>

(* What follows a Fetch that succeeded may fail as well, and no other fetcher
   is asked then.  LatestDistVersion fails when the list cannot be read or
   names no version that is not a development one; FetchBinary when the
   archive cannot be saved or unpackArchive does not find the binary in it. *)
Unusable(m) ==
    /\ Source(m) = "ipfs" => mgOnce = "open"
    /\ Fault
    /\ mgThr' = [mgThr EXCEPT ![m] = "failed"]
    /\ mgPaths' = IF Source(m) = "ipfs" THEN mgPaths \cup {<<mgThr[m], m>>}
                  ELSE mgPaths
    /\ UNCHANGED <<mgPc, mgVer, mgTodo, mgKeep, mgSrcs, mgBins, mgTry, mgOnce,
                   mgRuns, mgDirs, mgSaved, mgDlDir, mgKept, mgErr>>

NoVersion(m) == mgThr[m] = "versions" /\ Unusable(m)

UnpackFails(m) == mgThr[m] = "archive" /\ Unusable(m)

\* Mutant: what could be downloaded is run.
AnyFetched ==
    /\ \A m \in Migs : mgThr[m] \notin Files
    /\ mgBins # {}

AllFetched == \A m \in Migs : mgThr[m] \in {"none", "done"}

FetchMigrations ==
    /\ mgPc = "fetch"
    /\ \A m \in Migs : mgThr[m] \notin Files
    /\ mgPc' = IF AllFetched THEN "run" ELSE "failing"
    /\ UNCHANGED <<mgVer, mgBad, local>>

----------------------------------------------------------------------------
(* Running them, and what daemonFunc does afterwards. *)

(* The program of migration m, an external binary, refuses a repo that is not
   at version m and writes the version file when it is done. *)
MigrationBinary(m) == mgVer = m /\ mgVer' = m + 1

\* Mutant: the list is taken from its end.
RunLast(todo) == todo[Len(todo)]

RunNext(todo) == Head(todo)

RunMigration ==
    /\ mgPc = "run" /\ mgTodo # <<>>
    /\ \/ /\ RunNext(mgTodo) \in mgBins /\ MigrationBinary(RunNext(mgTodo))
          /\ mgTodo' = Tail(mgTodo) /\ UNCHANGED <<mgPc, mgBad>>
       \/ /\ mgVer # RunNext(mgTodo) /\ mgPc' = "failing"
          /\ UNCHANGED <<mgVer, mgTodo, mgBad>>
       \/ Fault /\ mgPc' = "failing" /\ UNCHANGED <<mgVer, mgTodo>>
    /\ UNCHANGED <<mgKeep, mgSrcs, mgBins, mgThr, mgTry, mgOnce, mgRuns,
                   mgDirs, mgPaths, mgSaved, mgDlDir, mgKept, mgErr>>

Reopen ==
    /\ mgPc = "run" /\ mgTodo = <<>>
    /\ mgPc' = IF mgVer = MgTarget THEN "add" ELSE "failing"
    /\ UNCHANGED <<mgVer, mgBad, local>>

(* addMigrations walks the fetchers: the files the IPFS fetcher fetched are
   got from its node, and an IPFS fetcher that fetched nothing ends the walk
   with an error; for an HTTP fetcher everything in DownloadDirectory is
   added.  Its own error is only printed. *)
AddMigrationPaths == {m \in Migs : <<"archive", m>> \in mgPaths}
AddMigrationFiles == mgSaved

EndsWalk(i) == mgSrcs[i] = "ipfs" /\ mgPaths = {}
Reached(i) == \A j \in 1 .. i : ~EndsWalk(j)
AddedByWalk ==
    UNION {IF mgSrcs[i] = "ipfs" THEN AddMigrationPaths ELSE AddMigrationFiles :
              i \in {j \in 1 .. Len(mgSrcs) : Reached(j)}}

AddMigrations ==
    /\ mgPc = "add"
    /\ \/ ~mgDlDir /\ UNCHANGED <<mgKept, mgErr, mgBad>>
       \/ /\ mgDlDir /\ mgKept' = AddedByWalk
          /\ mgErr' = ~Reached(Len(mgSrcs)) /\ UNCHANGED mgBad
       \/ mgDlDir /\ Fault /\ mgErr' = TRUE /\ UNCHANGED mgKept
    /\ mgSaved' = {} /\ mgDlDir' = FALSE
    /\ mgPc' = "closing"
    /\ UNCHANGED <<mgVer, mgTodo, mgKeep, mgSrcs, mgBins, mgThr, mgTry, mgOnce,
                   mgRuns, mgDirs, mgPaths>>

----------------------------------------------------------------------------
(* The end: IpfsFetcher.Close, called by daemonFunc and again by its defer. *)

StopTempNode ==
    /\ mgPc \in {"closing", "failing"} /\ mgRuns > 0
    /\ mgRuns' = mgRuns - 1
    /\ UNCHANGED <<mgPc, mgVer, mgBad, mgTodo, mgKeep, mgSrcs, mgBins, mgThr,
                   mgTry, mgOnce, mgDirs, mgPaths, mgSaved, mgDlDir, mgKept, mgErr>>

(* ipfsStopFunc returns when the node's own context is done, which its stop
   function does last. *)
NodeStopped == mgRuns = 0

CloseFetcher ==
    /\ mgPc \in {"closing", "failing"} /\ NodeStopped
    /\ mgDirs' = IF mgDirs > 0 THEN mgDirs - 1 ELSE 0
    /\ mgSaved' = {} /\ mgDlDir' = FALSE
    /\ mgPc' = IF mgPc = "closing" THEN "served" ELSE "failed"
    /\ UNCHANGED <<mgVer, mgBad, mgTodo, mgKeep, mgSrcs, mgBins, mgThr, mgTry,
                   mgOnce, mgRuns, mgPaths, mgKept, mgErr>>

----------------------------------------------------------------------------
(* The world: the process is killed, or started again after a failure; a
   second daemon, or the user, migrates the same repo at the same time.  The
   repo lock is not held while migrations run. *)

Restart ==
    /\ mgPc # "open" /\ mgPc # "served" /\ Fault
    /\ mgPc' = "open" /\ FreshProcess /\ UNCHANGED mgVer

MigratedElsewhere ==
    /\ mgPc \in {"find", "fetch", "run"} /\ mgVer < MgTarget /\ Fault
    /\ mgVer' = mgVer + 1
    /\ UNCHANGED <<mgPc, local>>

MgNext ==
    \/ Open \/ ReadMigrationConfig \/ FindMigrations
    \/ \E m \in Migs : HttpFetch(m) \/ OpenOnce(m) \/ IpfsFetch(m)
                       \/ NoVersion(m) \/ UnpackFails(m)
    \/ StartTempNode \/ FetchMigrations \/ RunMigration \/ Reopen
    \/ AddMigrations \/ StopTempNode \/ CloseFetcher \/ Restart \/ MigratedElsewhere

MgSpec == MgInit /\ [][MgNext]_mgVars

----------------------------------------------------------------------------

(* A repo is not taken half way because a download failed: when a migration
   runs, every later one up to the target has its binary (RunMigration
   downloads everything before it runs anything). *)
NothingRunsUntilAllFetched ==
    [][mgPc = "run" /\ mgPc' = "run" /\ mgTodo' # mgTodo
        => \A i \in 1 .. Len(mgTodo) : mgTodo[i] \in mgBins]_mgVars

(* Migrations are applied in order and one version at a time, whatever failed,
   was restarted or was done by somebody else before: what is left to run
   after a migration is exactly the way from the repo's version to the
   target. *)
RunsInOrder ==
    [][mgPc = "run" /\ mgPc' = "run" /\ mgTodo' # mgTodo
        => /\ mgVer' = mgVer + 1 /\ Len(mgTodo') = MgTarget - mgVer'
           /\ mgTodo' # <<>> => Head(mgTodo') = mgVer']_mgVars

(* daemonFunc leaves nothing behind: whether the migrations succeed or fail,
   once it serves or has returned there is no temporary node, no temporary
   repo and no download directory (one openOnce, one closeOnce, and defers). *)
NothingLeftBehind ==
    mgPc \in {"served", "failed"}
        => mgRuns = 0 /\ mgDirs = 0 /\ ~mgDlDir /\ mgSaved = {}

(* With Keep = "cache" every archive that was downloaded, from whichever
   fetcher, is in the node once the daemon serves, unless addMigrations
   printed an error. *)
KeptOrReported ==
    mgPc = "served" /\ mgKeep = "cache" /\ ~mgErr
        => {m \in Migs : mgThr[m] = "done"} \subseteq mgKept

(* Migrations are applied in order, one version at a time, whatever failed or
   was restarted before, and none runs before all of the way have been
   fetched.  Once the daemon serves or has returned there is no temporary
   node, repository or download directory, and with Keep = cache every archive
   downloaded is in the node unless an error was printed (RunMigration,
   fetchMigrations, IpfsFetcher.Close, defers of daemonFunc, addMigrations). *)
MigratesCleanly ==
    /\ [](NothingLeftBehind /\ KeptOrReported)
    /\ NothingRunsUntilAllFetched /\ RunsInOrder

=============================================================================
