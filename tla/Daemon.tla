------------------------------- MODULE Daemon -------------------------------
(***************************************************************************)
(* The life of `ipfs daemon`: daemonFunc (cmd/ipfs/daemon.go) starting the *)
(* parts of the node one after the other, the goroutines it starts (one    *)
(* per HTTP server, one for the periodic garbage collection), the stop of  *)
(* the node (core/builder.go), the interrupt handler (cmd/ipfs/util) and   *)
(* the `ipfs shutdown` command, which is a request of the API server.      *)
(*                                                                         *)
(* Three things may ask for the end: the request context (cancelled by the *)
(* first signal), `ipfs shutdown` (closes the node, leaves the context),   *)
(* and a step of daemonFunc that fails (the deferred calls run).           *)
(***************************************************************************)
EXTENDS Naturals, FiniteSets

VARIABLES
    dPc,       \* the step daemonFunc is at
    dGC,       \* the collector goroutine: "off", "on", "returned", "ended"
    dReady,    \* "Daemon is ready" was printed
    dCtx,      \* req.Context is cancelled
    dNotify,   \* the signal channel of IntrHandler, capacity one
    dSignals,  \* signals handled so far
    dRepo,     \* the repository: "none", "open", "closed"
    dStop,     \* n.stop of NewNode: "none", "no", "process", "repo", "done"
    dProc,     \* node.Process: "none", "open", "closing", "closed"
    dPlugins,  \* plugins: "none", "started", "attached", "closed"
    dSrv,      \* state of the goroutine of each HTTP server
    dReq,      \* ordinary requests of each server: "none", "active"
    dShut,     \* the `ipfs shutdown` request: "none", "active", "done"
    dGrace     \* servers that gave up on their handlers: shutdownTimeout, or
               \* an accept loop that failed

dVars == <<dPc, dGC, dReady, dCtx, dNotify, dSignals, dRepo, dStop,
           dProc, dPlugins, dSrv, dReq, dShut, dGrace>>

Servers == {"api", "gateway"}
Gone == {"exited", "killed", "panicked"}
Alive == dPc \notin Gone

DInit ==
    /\ dPc = "init" /\ dGC = "off" /\ dReady = FALSE
    /\ dCtx = FALSE /\ dNotify = 0 /\ dSignals = 0
    /\ dRepo = "none" /\ dStop = "none" /\ dProc = "none"
    /\ dPlugins = "none"
    /\ dSrv = [s \in Servers |-> "off"]
    /\ dReq = [s \in Servers |-> "none"]
    /\ dShut = "none" /\ dGrace = {}

Goto(from, to) == dPc = from /\ dPc' = to
signalVars == <<dCtx, dNotify, dSignals>>
nodeVars == <<dRepo, dStop, dProc, dPlugins>>
serverVars == <<dSrv, dReq, dShut, dGrace>>

-----------------------------------------------------------------------------
(* daemonFunc.  A step that fails returns: a return runs the deferred      *)
(* calls registered so far, node.Close() before repo.Close().              *)

\* --init: doInit; its error ends daemonFunc before anything is deferred.
InitRepo ==
    /\ \/ Goto("init", "open") \/ Goto("init", "done")
    /\ UNCHANGED <<dGC, dReady, signalVars, nodeVars, serverVars>>

\* fsrepo.Open, with the migrations and the second Open when it asks for them.
OpenRepo ==
    /\ \/ Goto("open", "node") /\ dRepo' = "open"
       \/ Goto("open", "done") /\ UNCHANGED dRepo
    /\ UNCHANGED <<dGC, dReady, dStop, dProc, dPlugins, signalVars, serverVars>>

NodeFailsAndReturns ==
    /\ Goto("node", "done")
    /\ UNCHANGED <<dGC, dReady, signalVars, nodeVars, serverVars>>

\* Configuration, routing option and core.NewNode: the error leaves only the
\* deferred repo.Close().
NodeFails ==
    /\ Goto("node", "closeRepo")
    /\ UNCHANGED <<dGC, dReady, signalVars, nodeVars, serverVars>>

NewNode ==
    /\ Goto("node", "plugins")
    /\ dStop' = "no" /\ dProc' = "open"
    /\ UNCHANGED <<dGC, dReady, dRepo, dPlugins, signalVars, serverVars>>

\* PluginLoader.Start closes what it started when one of the plugins fails.
StartPlugins ==
    /\ \/ Goto("plugins", "attach") /\ dPlugins' = "started"
       \/ Goto("plugins", "closeNode") /\ dPlugins' = "closed"
    /\ UNCHANGED <<dGC, dReady, dRepo, dStop, dProc, signalVars, serverVars>>

AttachNothing ==
    /\ Goto("attach", "api")
    /\ UNCHANGED <<dGC, dReady, signalVars, nodeVars, serverVars>>

\* node.Process.AddChild(goprocess.WithTeardown(cctx.Plugins.Close)).
AttachPlugins ==
    /\ dPc = "attach"
    /\ \/ dProc = "closed" /\ dPc' = "panicked" /\ UNCHANGED dPlugins
       \/ dProc # "closed" /\ dPc' = "api" /\ dPlugins' = "attached"
    /\ UNCHANGED <<dGC, dReady, dRepo, dStop, dProc, signalVars, serverVars>>

\* serveHTTPApi and serveHTTPGateway: listen, then leave the server to a
\* goroutine; a listener that cannot be opened is an error.
ServeHTTP(s, from, to) ==
    /\ \/ Goto(from, to) /\ dSrv' = [dSrv EXCEPT ![s] = "starting"] /\ dReady' = (to = "run")
       \/ Goto(from, "closeNode") /\ UNCHANGED <<dSrv, dReady>>
    /\ UNCHANGED <<dGC, dReq, dShut, dGrace, signalVars, nodeVars>>

serveHTTPApi == ServeHTTP("api", "api", "mount")
serveHTTPGateway == ServeHTTP("gateway", "gateway", "run")

mountFuse ==
    /\ \/ Goto("mount", "gc")
       \/ Goto("mount", "closeNode")
    /\ UNCHANGED <<dGC, dReady, signalVars, nodeVars, serverVars>>

\* PeriodicGC returns at once when its period is zero or unreadable.
maybeRunGC ==
    /\ Goto("gc", "gateway")
    /\ dGC' \in {"off", "on", "returned"}
    /\ UNCHANGED <<dReady, signalVars, nodeVars, serverVars>>

MergedApiOnly ==
    /\ Goto("run", "closeNode")
    /\ dSrv["api"] = "ended"
    /\ dGC \in {"off", "ended"}
    /\ UNCHANGED <<dGC, dReady, signalVars, nodeVars, serverVars>>

\* `for err := range merge(apiErrc, gwErrc, gcErrc)`: ends when every channel
\* that is not nil is closed.
Merged ==
    /\ Goto("run", "closeNode")
    /\ \A s \in Servers : dSrv[s] = "ended"
    /\ dGC \in {"off", "ended"}
    /\ UNCHANGED <<dGC, dReady, signalVars, nodeVars, serverVars>>

\* The deferred node.Close(): n.stop, which every caller waits for.
CloseNode ==
    /\ Goto("closeNode", "closeRepo") /\ dStop = "done"
    /\ UNCHANGED <<dGC, dReady, signalVars, nodeVars, serverVars>>

CloseRepo ==
    /\ Goto("closeRepo", "done") /\ dRepo' = "closed"
    /\ UNCHANGED <<dGC, dReady, dStop, dProc, dPlugins, signalVars, serverVars>>

DaemonFunc ==
    \/ InitRepo \/ OpenRepo \/ NodeFails \/ NewNode
    \/ StartPlugins \/ AttachPlugins \/ serveHTTPApi \/ mountFuse
    \/ maybeRunGC \/ serveHTTPGateway \/ Merged \/ CloseNode \/ CloseRepo

-----------------------------------------------------------------------------
(* The stop of the node, run once: for the cancelled lifetime context, for *)
(* a shutdown request, or for the deferred Close.                          *)

StopBegins ==
    /\ Alive /\ dStop = "no"
    /\ dCtx \/ dShut = "active" \/ dPc = "closeNode"
    /\ dStop' = "process" /\ dProc' = "closing"
    /\ UNCHANGED <<dPc, dGC, dReady, dRepo, dPlugins, signalVars, serverVars>>

\* Process.Close waits for its children, the accept loops and the plugins.
StopProcess ==
    /\ Alive /\ dStop = "process"
    /\ \A s \in Servers : dSrv[s] # "serving"
    /\ dProc' = "closed" /\ dStop' = "repo"
    /\ dPlugins' = IF dPlugins = "attached" THEN "closed" ELSE dPlugins
    /\ UNCHANGED <<dPc, dGC, dReady, dRepo, signalVars, serverVars>>

\* The repository's hook was appended first, so it stops last.
StopRepo ==
    /\ Alive /\ dStop = "repo"
    /\ dRepo' = "closed" /\ dStop' = "done"
    /\ UNCHANGED <<dPc, dGC, dReady, dProc, dPlugins, signalVars, serverVars>>

Stop == StopBegins \/ StopProcess \/ StopRepo

-----------------------------------------------------------------------------
(* corehttp.Serve, one goroutine per server.                               *)

SetSrv(s, from, to) ==
    /\ Alive /\ dSrv[s] = from /\ dSrv' = [dSrv EXCEPT ![s] = to]
    /\ UNCHANGED <<dGC, dReady, dReq, dShut, signalVars, nodeVars>>

\* The check that the process is not closing.
SrvCheck(s) ==
    /\ SetSrv(s, "starting", IF dProc = "open" THEN "checked" ELSE "returned")
    /\ UNCHANGED <<dPc, dGrace>>

\* node.Process.Go: a child added to a closed process panics.
SrvGo(s) ==
    /\ SetSrv(s, "checked", "serving") /\ UNCHANGED dGrace
    /\ IF dProc = "closed" THEN dPc' = "panicked" ELSE UNCHANGED dPc

\* The accept loop fails by itself.
SrvFails(s) ==
    SetSrv(s, "serving", "returned") /\ UNCHANGED dPc /\ dGrace' = dGrace \cup {s}

SrvShutdownOnClosed(s) ==
    /\ dProc = "closed"
    /\ SetSrv(s, "serving", "draining") /\ UNCHANGED <<dPc, dGrace>>

\* server.Shutdown: the accept loop ends at once, its handlers do not.
SrvShutdown(s) ==
    /\ dProc # "open"
    /\ SetSrv(s, "serving", "draining") /\ UNCHANGED <<dPc, dGrace>>

Handlers(s) ==
    (IF dReq[s] = "active" THEN {"request"} ELSE {})
        \cup (IF s = "api" /\ dShut = "active" THEN {"shutdown"} ELSE {})

\* Shutdown returns when no handler is left, or after shutdownTimeout.
SrvDrained(s) ==
    /\ SetSrv(s, "draining", "returned") /\ UNCHANGED dPc
    /\ dGrace' = IF Handlers(s) = {} THEN dGrace ELSE dGrace \cup {s}

\* `errc <- Serve(...)`: nobody reads before daemonFunc merges the channels.
SrvReport(s) ==
    /\ dPc = "run"
    /\ SetSrv(s, "returned", "ended") /\ UNCHANGED <<dPc, dGrace>>

Serve(s) ==
    SrvCheck(s) \/ SrvGo(s) \/ SrvShutdown(s) \/ SrvDrained(s) \/ SrvReport(s)

Request(s) ==
    /\ Alive /\ dSrv[s] = "serving"
    /\ dReq[s] = "none" /\ dReq' = [dReq EXCEPT ![s] = "active"]
    /\ UNCHANGED <<dPc, dGC, dReady, dSrv, dShut, dGrace, signalVars, nodeVars>>

RequestDone(s) ==
    /\ Alive /\ dReq[s] = "active" /\ dReq' = [dReq EXCEPT ![s] = "none"]
    /\ UNCHANGED <<dPc, dGC, dReady, dSrv, dShut, dGrace, signalVars, nodeVars>>

\* daemonShutdownCmd: nd.Close(), that is n.stop.
ShutdownCmd ==
    /\ Alive /\ dSrv["api"] = "serving" /\ dShut = "none" /\ dShut' = "active"
    /\ UNCHANGED <<dPc, dGC, dReady, dSrv, dReq, dGrace, signalVars, nodeVars>>

ShutdownCmdDone ==
    /\ Alive /\ dShut = "active" /\ dStop = "done" /\ dShut' = "done"
    /\ UNCHANGED <<dPc, dGC, dReady, dSrv, dReq, dGrace, signalVars, nodeVars>>

\* PeriodicGC returns when req.Context is done, and only then; its answer too
\* waits for the merge.
PeriodicGC ==
    /\ Alive
    /\ \/ dGC = "on" /\ dCtx /\ dGC' = "returned"
       \/ dGC = "returned" /\ dPc = "run" /\ dGC' = "ended"
    /\ UNCHANGED <<dPc, dReady, signalVars, nodeVars, serverVars>>

-----------------------------------------------------------------------------
(* The interrupt handler, and the end of main.                             *)

Signal ==
    /\ Alive /\ dNotify = 0   \* a signal that finds the channel full is dropped
    /\ dNotify' = 1
    /\ UNCHANGED <<dPc, dGC, dReady, dCtx, dSignals, nodeVars, serverVars>>

HandleSignal ==
    /\ Alive /\ dNotify = 1 /\ dNotify' = 0
    /\ dSignals' = dSignals + 1
    /\ \/ dSignals = 0 /\ dCtx' = TRUE /\ UNCHANGED dPc
       \/ dSignals > 0 /\ dPc' = "killed" /\ UNCHANGED dCtx
    /\ UNCHANGED <<dGC, dReady, nodeVars, serverVars>>

\* mainRet's deferred intrh.Close() and the end of the process.
MainReturns ==
    /\ Goto("done", "exited")
    /\ UNCHANGED <<dGC, dReady, signalVars, nodeVars, serverVars>>

DNext ==
    \/ DaemonFunc \/ Stop \/ PeriodicGC \/ ShutdownCmd \/ ShutdownCmdDone
    \/ Signal \/ HandleSignal \/ MainReturns
    \/ \E s \in Servers : Serve(s) \/ SrvFails(s) \/ Request(s) \/ RequestDone(s)

\* Go schedules every goroutine that can run; clients and signals owe nothing.
DSpec ==
    /\ DInit /\ [][DNext]_dVars
    /\ WF_dVars(DaemonFunc) /\ WF_dVars(Stop) /\ WF_dVars(PeriodicGC)
    /\ WF_dVars(ShutdownCmdDone) /\ WF_dVars(HandleSignal)
    /\ WF_dVars(MainReturns)
    /\ \A s \in Servers : WF_dVars(Serve(s))

-----------------------------------------------------------------------------

\* Whatever step of daemonFunc fails, and whoever stops the node, a daemon that
\* returns has closed the repository it opened (daemon.go:364, builder.go:51).
RepoReleased == dPc \in {"done", "exited"} /\ dRepo # "none" => dRepo = "closed"

\* Plugins that were started are closed when daemonFunc returns: either by
\* Start itself or as a child of node.Process (daemon.go:465), also when a
\* signal stops the node while daemonFunc is still starting.
PluginsClosed ==
    dPc \in {"closeRepo", "done", "exited"} /\ dPlugins # "none"
        => dPlugins = "closed"

\* A daemon that reached its merge loop leaves no request behind that was not
\* given shutdownTimeout to finish (corehttp.go:124, daemon.go:583).
GraceGiven ==
    dReady /\ dPc \in {"closeNode", "closeRepo", "done", "exited"}
        => \A s \in Servers : dReq[s] = "active" => s \in dGrace

\* "Shut down the IPFS daemon." (core/commands/shutdown.go:10)
ShutdownEnds == (dShut # "none") ~> (dPc \in Gone)

\* What does hold: after the first signal the daemon ends, whatever it was doing and whatever its
\* clients do, and after ipfs shutdown where no periodic collection runs.
DBegun == dCtx \/ (dShut # "none" /\ dPc = "run" /\ dGC = "off")
DEnded == dPc \in Gone
DaemonEnds == DBegun ~> DEnded

\* When the daemon has ended, the repository and the plugins are closed and every request had its
\* grace period, whichever step failed (daemonFunc's defers, NewNode, corehttp.Serve, IntrHandler).
DaemonEndsClean == RepoReleased /\ PluginsClosed /\ GraceGiven
=============================================================================
