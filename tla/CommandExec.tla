---------------------------- MODULE CommandExec ----------------------------
(***************************************************************************)
(* Where a command line runs (cmd/ipfs/main.go): in the process that was   *)
(* started or, through the API file of the repository, in a daemon, with   *)
(* the local executor as the fallback of a client that cannot connect.     *)
(* `ipfs init` (cmd/ipfs/init.go) is one of the commands, step by step.    *)
(* A daemon starts, stops and crashes meanwhile; a crash leaves its API    *)
(* file behind.  Every process runs one command.  The log of requests that *)
(* a daemon keeps, a state machine of its own, is at the end.              *)
(***************************************************************************)
EXTENDS FiniteSets, Integers, Sequences

CONSTANTS UProcs,      \* processes started from a command line
          MaxStarts    \* bound: starts of the daemon

ASSUME UProcsAssumption == "daemon" \notin UProcs /\ "none" \notin UProcs

VARIABLES uRepo,       \* the repository is initialised
          uLock,       \* who holds repo.lock: "none", "daemon" or a process
          uApiFile,    \* the API file exists
          uDaemon,     \* "off", "open" (holds the repository) or "listening"
          uStarts,
          uPinned,     \* the documentation ipfs init seeds is pinned
          uPublished,  \* the empty directory is pinned and published under the identity
          uPc,         \* uPc[p]: the next step of the process
          uCmd, uApi,  \* its command; --api was given
          uFallback,   \* its client falls back on the local executor
          uRan,        \* where the command has run, in order
          uRes         \* what the user was told

uVars == <<uRepo, uLock, uApiFile, uDaemon, uStarts, uPinned, uPublished, uPc, uCmd, uApi,
           uFallback, uRan, uRes>>
uWorld == <<uRepo, uLock, uApiFile, uDaemon, uStarts, uPinned, uPublished>>

\* One command for each kind makeExecutor and the executors tell apart.
Inits == {"init", "initEmpty"}
UCommands == {"cat", "diagCmds", "keyRotate", "cid"} \cup Inits
NoLocal == {"diagCmds"}
NoRemote == {"keyRotate"} \cup Inits
DoesNotUseRepo == {"cid"} \cup Inits
ChecksDaemon == {"keyRotate"} \cup Inits

UInit ==
    /\ uRepo = FALSE /\ uLock = "none" /\ uApiFile = FALSE
    /\ uDaemon = "off" /\ uStarts = 0 /\ uPinned = FALSE /\ uPublished = FALSE
    /\ uPc = [p \in UProcs |-> "idle"]
    /\ uCmd = [p \in UProcs |-> "none"] /\ uApi = [p \in UProcs |-> FALSE]
    /\ uFallback = [p \in UProcs |-> FALSE]
    /\ uRan = [p \in UProcs |-> <<>>] /\ uRes = [p \in UProcs |-> "none"]

UGoto(p, at) == uPc' = [uPc EXCEPT ![p] = at] /\ UNCHANGED uRes
Done(p, res) == uPc' = [uPc EXCEPT ![p] = "done"] /\ uRes' = [uRes EXCEPT ![p] = res]
Runs(p, where) == uRan' = [uRan EXCEPT ![p] = Append(@, where)]
InvocationKept == UNCHANGED <<uCmd, uApi, uFallback>>

Invoke(p) ==
    /\ uPc[p] = "idle"
    /\ \E c \in UCommands, a \in BOOLEAN :
          uCmd' = [uCmd EXCEPT ![p] = c] /\ uApi' = [uApi EXCEPT ![p] = a]
    /\ UGoto(p, "make")
    /\ UNCHANGED <<uWorld, uFallback, uRan>>

(***************************************************************************)
(* makeExecutor.                                                           *)
(***************************************************************************)
\* Decided by the command alone, before anything is read from the repository.
ExecutorByCommand(p) ==
    \/ uCmd[p] \in DoesNotUseRepo \ NoLocal /\ UGoto(p, "prerun")
    \/ /\ uCmd[p] \in NoRemote \ DoesNotUseRepo
       /\ IF uApi[p] THEN Done(p, "error") ELSE UGoto(p, "prerun")

\* No API address: the client runs the command itself, or refuses.
NoApiAddr(p) == IF uCmd[p] \in NoLocal THEN Done(p, "error") ELSE UGoto(p, "prerun")

MakeExecutor(p) ==
    /\ uPc[p] = "make"
    /\ \/ ExecutorByCommand(p)
       \/ /\ uCmd[p] \notin NoRemote \cup DoesNotUseRepo
          /\ \/ (uApi[p] \/ uApiFile) /\ (UGoto(p, "client") \/ Done(p, "error"))  \* resolveAddr may fail
             \/ ~uApi[p] /\ ~uApiFile /\ NoApiAddr(p)
    /\ UNCHANGED <<uWorld, uRan>> /\ InvocationKept

\* Mutant: the fallback is not withheld from a command sent to a given daemon.
FallbackAlways(p) == uRepo
\* Whether the client may fall back: a repository, and no daemon asked for.
MayFallBack(p) == ~uApi[p] /\ uRepo

NewClient(p) ==
    /\ uPc[p] = "client"
    /\ uFallback' = [uFallback EXCEPT ![p] = MayFallBack(p)]
    /\ UGoto(p, "dial")
    /\ UNCHANGED <<uWorld, uCmd, uApi, uRan>>

(***************************************************************************)
(* The HTTP client: only a failure to connect selects the fallback.        *)
(***************************************************************************)
FallBack(p) == IF uFallback[p] THEN UGoto(p, "prerun") ELSE Done(p, "error")

Dial(p) ==
    /\ uPc[p] = "dial"
    /\ IF uDaemon = "listening" THEN UGoto(p, "sent") ELSE FallBack(p)
    /\ UNCHANGED <<uWorld, uRan>> /\ InvocationKept

DaemonRuns(p) ==
    /\ uPc[p] = "sent" /\ uDaemon = "listening"
    /\ Runs(p, "daemon") /\ UGoto(p, "answer")
    /\ UNCHANGED uWorld /\ InvocationKept

DaemonAnswers(p) ==
    /\ uPc[p] = "answer" /\ uDaemon = "listening"
    /\ Done(p, "ok")
    /\ UNCHANGED <<uWorld, uRan>> /\ InvocationKept

\* Mutant: any failure of the request selects the fallback.
LostFallsBack(p) ==
    /\ uPc[p] \in {"sent", "answer"} /\ uDaemon # "listening"
    /\ FallBack(p)
    /\ UNCHANGED <<uWorld, uRan>> /\ InvocationKept
\* The daemon went away under the request.
Lost(p) ==
    /\ uPc[p] \in {"sent", "answer"} /\ uDaemon # "listening"
    /\ Done(p, "error")
    /\ UNCHANGED <<uWorld, uRan>> /\ InvocationKept

(***************************************************************************)
(* The local executor.                                                     *)
(***************************************************************************)
PreRun(p) ==
    /\ uPc[p] = "prerun"
    /\ IF uCmd[p] \in ChecksDaemon /\ uLock # "none" THEN Done(p, "error") ELSE UGoto(p, "run")
    /\ UNCHANGED <<uWorld, uRan>> /\ InvocationKept

\* A command that needs no node.
RunAlone(p) ==
    /\ uPc[p] = "run" /\ uCmd[p] = "cid"
    /\ Runs(p, "local") /\ Done(p, "ok")
    /\ UNCHANGED uWorld /\ InvocationKept

\* Mutant: the node is made without the repository's lock.
OpenUnlocked == uRepo
\* fsrepo.Open succeeds: the repository is there and its lock is free.
CanOpen == uRepo /\ uLock = "none"

\* ConstructNode (and doRotate) open the repository; diag cmds reads only the request log.
ConstructNode(p) ==
    /\ uPc[p] = "run" /\ uCmd[p] \in {"cat", "keyRotate"}
    /\ IF CanOpen THEN uLock' = p /\ UGoto(p, "node") ELSE Done(p, "error") /\ UNCHANGED uLock
    /\ UNCHANGED <<uRepo, uApiFile, uDaemon, uStarts, uPinned, uPublished, uRan>> /\ InvocationKept

ReportLocally(p) ==
    /\ uPc[p] = "run" /\ uCmd[p] = "diagCmds"
    /\ Runs(p, "local") /\ Done(p, "ok")
    /\ UNCHANGED uWorld /\ InvocationKept

\* repo.Close, also by the operating system: the API file goes with a clean close only.
CloseRepo(p) == uLock' = "none" /\ uApiFile' = FALSE

\* The command runs and Context.Close closes the node; or NewNode fails and the process exits.
RunOnNode(p) ==
    /\ uPc[p] = "node"
    /\ \/ Runs(p, "local") /\ Done(p, "ok") /\ CloseRepo(p)
       \/ Done(p, "error") /\ uLock' = "none" /\ UNCHANGED <<uRan, uApiFile>>
    /\ UNCHANGED <<uRepo, uDaemon, uStarts, uPinned, uPublished>> /\ InvocationKept

(***************************************************************************)
(* ipfs init: create the repository, seed and pin the documentation,       *)
(* publish the empty directory.                                            *)
(***************************************************************************)
\* The given configuration is read or an identity made; either may fail.
initCmd(p) ==
    /\ uPc[p] = "run" /\ uCmd[p] \in Inits
    /\ UGoto(p, "doInit") \/ Done(p, "error")
    /\ UNCHANGED <<uWorld, uRan>> /\ InvocationKept

\* The directory cannot be written, or a profile does not apply.
checkWritable(p) == Done(p, "error") /\ UNCHANGED uRepo
applyProfiles(p) == ~uRepo /\ Done(p, "error") /\ UNCHANGED uRepo

doInit(p) ==
    /\ uPc[p] = "doInit"
    /\ \/ checkWritable(p) \/ applyProfiles(p)
       \/ uRepo /\ Done(p, "exists") /\ UNCHANGED uRepo
       \/ ~uRepo /\ uRepo' = TRUE /\ UGoto(p, IF uCmd[p] = "init" THEN "assets" ELSE "keyspace")
    /\ UNCHANGED <<uLock, uApiFile, uDaemon, uStarts, uPinned, uPublished, uRan>> /\ InvocationKept

\* One of init's two nodes opens the repository, or fails to.
InitOpen(p) ==
    /\ uPc[p] \in {"assets", "keyspace"} /\ uLock # p
    /\ IF CanOpen THEN uLock' = p /\ UNCHANGED <<uPc, uRes>> ELSE Done(p, "error") /\ UNCHANGED uLock
    /\ UNCHANGED <<uRepo, uApiFile, uDaemon, uStarts, uPinned, uPublished, uRan>> /\ InvocationKept

InitFails(p) == Done(p, "error") /\ uLock' = "none" /\ UNCHANGED <<uPinned, uPublished, uRan, uApiFile>>

\* The documents are added, linked into one directory and that is pinned, in this order.
addAssetList == uPinned' = TRUE

addDefaultAssets(p) ==
    /\ uPc[p] = "assets" /\ uLock = p
    /\ \/ UGoto(p, "keyspace") /\ CloseRepo(p) /\ addAssetList /\ UNCHANGED <<uPublished, uRan>>
       \/ InitFails(p)
    /\ UNCHANGED <<uRepo, uDaemon, uStarts>> /\ InvocationKept

\* Mutant: init answers without publishing when the publication fails.
KeyspaceIgnored(p) ==
    /\ uPc[p] = "keyspace" /\ uLock = p
    /\ Done(p, "ok") /\ Runs(p, "local") /\ CloseRepo(p)
    /\ uPublished' \in BOOLEAN
    /\ UNCHANGED <<uRepo, uDaemon, uStarts, uPinned>> /\ InvocationKept
initializeIpnsKeyspace(p) ==
    /\ uPc[p] = "keyspace" /\ uLock = p
    /\ \/ Done(p, "ok") /\ Runs(p, "local") /\ CloseRepo(p) /\ uPublished' = TRUE /\ UNCHANGED uPinned
       \/ InitFails(p)
    /\ UNCHANGED <<uRepo, uDaemon, uStarts>> /\ InvocationKept

\* A process is killed: the operating system drops its lock.
Kill(p) ==
    /\ uPc[p] \notin {"idle", "done"}
    /\ Done(p, "killed")
    /\ uLock' = IF uLock = p THEN "none" ELSE uLock
    /\ UNCHANGED <<uRepo, uApiFile, uDaemon, uStarts, uPinned, uPublished, uRan>> /\ InvocationKept

(***************************************************************************)
(* The daemon, by what it does to the repository.                          *)
(***************************************************************************)
DaemonStarts ==
    /\ uDaemon = "off" /\ uStarts < MaxStarts /\ CanOpen
    /\ uDaemon' = "open" /\ uLock' = "daemon" /\ uStarts' = uStarts + 1
    /\ UNCHANGED <<uRepo, uApiFile, uPinned, uPublished, uPc, uRes, uRan>> /\ InvocationKept

\* serveHTTPApi listens, then writes the address into the API file.
DaemonListens ==
    /\ uDaemon = "open"
    /\ uDaemon' = "listening"
    /\ UNCHANGED <<uRepo, uLock, uApiFile, uStarts, uPinned, uPublished, uPc, uRes, uRan>> /\ InvocationKept

WriteApiFile ==
    /\ uDaemon = "listening" /\ ~uApiFile
    /\ uApiFile' = TRUE
    /\ UNCHANGED <<uRepo, uLock, uDaemon, uStarts, uPinned, uPublished, uPc, uRes, uRan>> /\ InvocationKept

DaemonStops ==
    /\ uDaemon # "off"
    /\ uDaemon' = "off" /\ uLock' = "none" /\ uApiFile' \in {FALSE, uApiFile}   \* stopped or killed
    /\ UNCHANGED <<uRepo, uStarts, uPinned, uPublished, uPc, uRes, uRan>> /\ InvocationKept

UStep(p) ==
    \/ Invoke(p) \/ MakeExecutor(p) \/ NewClient(p) \/ Dial(p)
    \/ DaemonRuns(p) \/ DaemonAnswers(p) \/ Lost(p)
    \/ PreRun(p) \/ RunAlone(p) \/ ConstructNode(p) \/ ReportLocally(p) \/ RunOnNode(p)
    \/ initCmd(p) \/ doInit(p) \/ InitOpen(p) \/ addDefaultAssets(p) \/ initializeIpnsKeyspace(p) \/ Kill(p)

UNext == (\E p \in UProcs : UStep(p)) \/ DaemonStarts \/ DaemonListens \/ WriteApiFile \/ DaemonStops

USpec == UInit /\ [][UNext]_uVars

(***************************************************************************)
(* Properties.                                                             *)
(***************************************************************************)
\* A command runs at most once, even if the daemon it was sent to dies under it: the client
\* falls back on the local executor only when it could not connect.
AtMostOnce == \A p \in UProcs : Len(uRan[p]) <= 1

\* A command given --api that uses the repository never runs locally, whatever becomes of the
\* daemon and of its API file (main.go:223, the comment on daemonRequested).
RequestedMeansDaemon ==
    \A p \in UProcs : uApi[p] /\ uCmd[p] \notin DoesNotUseRepo => uRan[p] \in {<<>>, <<"daemon">>}

\* The repository is open in one place: while the daemon has it no command has made a node on it,
\* although the command looked for a daemon several steps before it opened the repository.
OneNode ==
    /\ uDaemon # "off" => uLock = "daemon"
    /\ \A p \in UProcs : uPc[p] = "node" => uLock = p

\* When ipfs init reports success the repository is there, the identity's name is published and,
\* unless --empty-repo was given, the documentation is pinned: no step that failed was passed over.
InitComplete ==
    \A p \in UProcs :
        uCmd[p] \in Inits /\ uRes[p] = "ok" => uRepo /\ uPublished /\ (uCmd[p] = "init" => uPinned)

\* A command marked NoLocal never runs in the process of the command line: "NoLocal denotes that a
\* command cannot be executed in a local environment" (go-ipfs-cmds command.go:97).  The code does not
\* keep this: see the README.
NoLocalNeverLocal ==
    \A p \in UProcs : uCmd[p] \in NoLocal => uRan[p] \in {<<>>, <<"daemon">>}

\* A command runs at most once and where it was sent, a repository has one node, and ipfs init
\* passes over no failed step, although daemons start and die under the commands (makeExecutor, the
\* client's fallback, fsrepo.Open, doInit).
RunsOnce == AtMostOnce /\ RequestedMeansDaemon /\ OneNode /\ InitComplete

-----------------------------------------------------------------------------
(* The log of the requests a daemon serves (commands/reqlog.go and         *)
(* Context.LogRequest) with the `diag cmds` commands that report and clean *)
(* it.  Every method holds the log's lock, so it is one step; requests     *)
(* overlap freely.  Finished entries are dropped only when the log's       *)
(* length is a multiple of CleanEvery (10 in the code) as a request ends.  *)

CONSTANTS CleanEvery,   \* how often maybeCleanup cleans
          MaxActive,    \* bound: requests served at once
          MaxLogged     \* bound: requests

VARIABLES wRequests,    \* rl.Requests: entries [id, active, recent: EndTime + keep is to come]
          wNextID,
          wKeep,        \* rl.keep is not zero
          wRunning,     \* ids of the requests being served
          wLax          \* two requests have overlapped, or rl.keep was set

wVars == <<wRequests, wNextID, wKeep, wRunning, wLax>>

WInit == wRequests = <<>> /\ wNextID = 0 /\ wKeep = FALSE /\ wRunning = {} /\ wLax = FALSE

\* Mutant: cleaning looks only at the time.
CleanByTime(log, keep) == SelectSeq(log, LAMBDA e : keep /\ e.recent)
\* cleanup: what is active or recent stays, in order.
cleanup(log, keep) == SelectSeq(log, LAMBDA e : e.active \/ (keep /\ e.recent))

\* Mutant: the log is cleaned once it is longer than the limit.
CleanBeyond(log) == IF Len(log) > CleanEvery THEN cleanup(log, wKeep) ELSE log
maybeCleanup(log) == IF Len(log) % CleanEvery = 0 THEN cleanup(log, wKeep) ELSE log

\* AddEntry of an active entry, for which it does not clean.
LogRequest ==
    /\ wNextID < MaxLogged /\ Cardinality(wRunning) < MaxActive
    /\ wRequests' = Append(wRequests, [id |-> wNextID, active |-> TRUE, recent |-> TRUE])
    /\ wNextID' = wNextID + 1
    /\ wRunning' = wRunning \cup {wNextID}
    /\ wLax' = (wLax \/ wRunning # {})
    /\ UNCHANGED wKeep

Ended(id) ==
    [i \in DOMAIN wRequests |->
        IF wRequests[i].id = id THEN [wRequests[i] EXCEPT !.active = FALSE] ELSE wRequests[i]]

Finish(id) ==
    /\ wRequests' = maybeCleanup(Ended(id))
    /\ wRunning' = wRunning \ {id}
    /\ UNCHANGED <<wNextID, wKeep, wLax>>

\* Time passes: EndTime + keep of a finished entry is over.
Expire ==
    /\ \E i \in DOMAIN wRequests :
          /\ ~wRequests[i].active /\ wRequests[i].recent
          /\ wRequests' = [wRequests EXCEPT ![i].recent = FALSE]
    /\ wKeep
    /\ UNCHANGED <<wNextID, wKeep, wRunning, wLax>>

\* diag cmds clear and set-time, themselves requests being served.
ClearInactive ==
    /\ wRunning # {}
    /\ wRequests' = cleanup(wRequests, FALSE)
    /\ UNCHANGED <<wNextID, wKeep, wRunning, wLax>>

SetKeepTime ==
    /\ wRunning # {}
    /\ wKeep' \in BOOLEAN /\ wLax' = TRUE
    /\ UNCHANGED <<wRequests, wNextID, wRunning>>

\* What diag cmds reports.
Report == [i \in DOMAIN wRequests |-> <<wRequests[i].id, wRequests[i].active>>]

WNext == LogRequest \/ (\E id \in wRunning : Finish(id)) \/ Expire \/ ClearInactive \/ SetKeepTime
WSpec == WInit /\ [][WNext]_wVars

\* The report lists every request being served exactly once, in the order they came, and no other
\* as active, however cleaning and requests that end interleave.
ActiveListed ==
    /\ \A i, j \in DOMAIN Report : i < j => Report[i][1] < Report[j][1]
    /\ {Report[i][1] : i \in {k \in DOMAIN Report : Report[k][2]}} = wRunning

\* While requests come one after the other and keep is zero the log holds fewer than CleanEvery
\* finished requests: maybeCleanup is always reached at the multiple.  (Overlapping requests can
\* step over every multiple, and then the log grows.)
SerialLogBounded == ~wLax => Len(wRequests) <= CleanEvery

\* diag cmds lists every request being served exactly once, in order, and no other as active, and
\* the log stays within its limit while requests do not overlap (ReqLog).
LogTrue == ActiveListed /\ SerialLogBounded
=============================================================================
