----------------------------- MODULE MCServices -----------------------------
(***************************************************************************)
(* Small instances of the services of a running node that answer, follow,  *)
(* retry and end: the periodic collection, repo verify, port forwarding,   *)
(* bootstrapping, the peer log, remote pinning, the daemon's life from     *)
(* start to shutdown, the routing commands, the subdomain gateway and ipfs *)
(* add. They share no state, so one run checks them side by side: focus,   *)
(* chosen at the start, names the component that takes steps. Each         *)
(* component has the fairness of its own specification.                    *)
(***************************************************************************)
EXTENDS GCService, RepoVerify, P2P, Bootstrapper, PeerLog, Daemon, DhtQueries, TLC

VARIABLES focus,
          \* RemotePins
          rRoot, rConf, rPins, rLast, rWait, rJob, rLoop, rCmd, rSpoilt, rId, rEdits, rFaults,
          \* HostGateway
          hUrl, hTls, hProxy, hWant, hGot, hHop, hStatus,
          \* AddCmd
          aFile, aGo, aSent, aLock, aEvents, aOpen, aErrCh, aFailed, aRun, aWire, aCtx, aQuiet,
          aPost, aHand, aRet, aBar, aShown, aLast, aCut

\* Hosts of the subdomain gateway, as sequences of labels: a subdomain gateway, a path gateway, a
\* wildcard gateway, and two names with a DNSLink record.
GatewayHost == <<<<"g">>>>
PathHost == <<<<"p">>>>
WildTail == <<<<"w">>>>
WildHost == <<<<"x">>, <<"w">>>>
SiteName == <<<<"a">>, <<"c">>>>
HyphenName == <<<<"a", "-", "a">>, <<"c">>>>

HostSpecs ==
    (GatewayHost :> [sub |-> TRUE, paths |-> {"ipfs", "ipns", "p2p"}, noDNSLink |-> FALSE])
    @@ (PathHost :> [sub |-> FALSE, paths |-> {"ipfs", "ipns"}, noDNSLink |-> TRUE])
    @@ (WildTail :> [sub |-> TRUE, paths |-> {"ipfs", "ipns"}, noDNSLink |-> FALSE])

HostIds ==
    {<<<<"cid", h, c, e>>>> : h \in {"sha", "id", "long"}, c \in {"dag-pb", "libp2p-key"},
                              e \in {"b32", "b36"}}
    \cup {<<<<"cid", "sha", "dag-pb", "b58">>>>, <<<<"cid", "id", "libp2p-key", "b58">>>>}
    \cup {SiteName, HyphenName}

(***************************************************************************)
(* The components on small constants.                                      *)
(***************************************************************************)
Remote == INSTANCE RemotePins WITH
    RSvcs <- {"s"}, RCids <- {"c", "d"}, MaxPinId <- 3, MaxEdits <- 1, MaxFaults <- 1

\* Keys to provide, of which the second root's graph contains the first root's.
MCQLinks == [a |-> {"b", "c"}, b |-> {"c"}, c |-> {}]
MCQRoots == <<"b", "a">>

Host == INSTANCE HostGateway WITH
    HExact <- {GatewayHost, PathHost}, HWild <- {WildTail}, HSpec <- HostSpecs,
    HHosts <- {GatewayHost, PathHost, WildHost, SiteName}, HSubs <- {GatewayHost, WildHost, PathHost},
    HIds <- HostIds, HNames <- {SiteName, HyphenName, WildHost}, HNoDNSLink <- FALSE, HProxies <- {FALSE}

Adding == INSTANCE AddCmd WITH
    AFiles <- <<[name |-> "a", parts |-> 1], [name |-> "b", parts |-> 1]>>, AQuieter <- BOOLEAN,
    AChanSize <- 1

\* The variables of each component.
remoteVars == <<rRoot, rConf, rPins, rLast, rWait, rJob, rLoop, rCmd, rSpoilt, rId, rEdits,
                rFaults>>
hostVars == <<hUrl, hTls, hProxy, hWant, hGot, hHop, hStatus>>
addingVars == <<aFile, aGo, aSent, aLock, aEvents, aOpen, aErrCh, aFailed, aRun, aWire, aCtx, aQuiet,
                aPost, aHand, aRet, aBar, aShown, aLast, aCut>>

(***************************************************************************)
(* One of them takes steps; the others begin in one of their initial       *)
(* states and keep it.                                                     *)
(***************************************************************************)
MCInit ==
    /\ focus \in {"gc", "verify", "p2p", "bootstrap", "peerlog", "remote", "daemon", "dht", "host", "add"}
    /\ GcInit /\ VInit /\ PInit /\ BInit /\ EInit /\ DInit
    /\ Remote!RInit /\ QInit /\ Host!HInit /\ Adding!AInit
    /\ focus = "add" \/ aQuiet = FALSE
    /\ focus = "remote" \/ rConf["s"] = "off"

\* Every component whose name is not c keeps its state.
Others(c) ==
    /\ UNCHANGED focus
    /\ IF c = "gc" THEN TRUE ELSE UNCHANGED gcVars
    /\ IF c = "verify" THEN TRUE ELSE UNCHANGED vVars
    /\ IF c = "p2p" THEN TRUE ELSE UNCHANGED pVars
    /\ IF c = "bootstrap" THEN TRUE ELSE UNCHANGED bVars
    /\ IF c = "peerlog" THEN TRUE ELSE UNCHANGED eVars
    /\ IF c = "remote" THEN TRUE ELSE UNCHANGED remoteVars
    /\ IF c = "daemon" THEN TRUE ELSE UNCHANGED dVars
    /\ IF c = "dht" THEN TRUE ELSE UNCHANGED qVars
    /\ IF c = "host" THEN TRUE ELSE UNCHANGED hostVars
    /\ IF c = "add" THEN TRUE ELSE UNCHANGED addingVars

MCNext ==
    \/ focus = "gc" /\ GcNext /\ Others("gc")
    \/ focus = "verify" /\ VNext /\ Others("verify")
    \/ focus = "p2p" /\ PNext /\ Others("p2p")
    \/ focus = "bootstrap" /\ BNext /\ Others("bootstrap")
    \/ focus = "peerlog" /\ ENext /\ Others("peerlog")
    \/ focus = "remote" /\ Remote!RNext /\ Others("remote")
    \/ focus = "daemon" /\ DNext /\ Others("daemon")
    \/ focus = "dht" /\ QNext /\ Others("dht")
    \/ focus = "host" /\ Host!HNext /\ Others("host")
    \/ focus = "add" /\ Adding!ANext /\ Others("add")

mcVars ==
    <<focus, gcVars, vVars, pVars, bVars, eVars, remoteVars,
      dVars, qVars, hostVars, addingVars>>

MCFairness ==
    /\ WF_gcVars(focus = "gc" /\ Collector)
    /\ WF_gcVars(focus = "gc" /\ Reader)
    /\ WF_vVars(focus = "verify" /\ VerifyEnds)
    /\ \A w \in {"v", "w"} : WF_vVars(focus = "verify" /\ Worker(w))
    /\ \A c \in {"c", "d"} : WF_pVars(focus = "p2p" /\ CopyDone(c))
    /\ \A c \in {"c", "d"} : WF_pVars(focus = "p2p" /\ DeregisterSome(c))
    /\ WF_bVars(focus = "bootstrap" /\ RoundSteps)
    /\ WF_bVars(focus = "bootstrap" /\ CallSteps)
    /\ WF_eVars(focus = "peerlog" /\ ECollect)
    /\ WF_remoteVars(focus = "remote" /\ Remote!RLoop)
    /\ WF_dVars(focus = "daemon" /\ DaemonFunc)
    /\ WF_dVars(focus = "daemon" /\ Stop)
    /\ WF_dVars(focus = "daemon" /\ PeriodicGC)
    /\ WF_dVars(focus = "daemon" /\ ShutdownCmdDone)
    /\ WF_dVars(focus = "daemon" /\ HandleSignal)
    /\ WF_dVars(focus = "daemon" /\ MainReturns)
    /\ \A s \in {"api", "gateway"} : WF_dVars(focus = "daemon" /\ Serve(s))
    /\ WF_qVars(focus = "dht" /\ QGoroutine)
    /\ WF_qVars(focus = "dht" /\ QRun)
    /\ WF_qVars(focus = "dht" /\ WaitThenClose)
    /\ WF_qVars(focus = "dht" /\ Api)
    /\ WF_hostVars(focus = "host" /\ Host!Answer)
    /\ WF_addingVars(focus = "add" /\ Adding!Goroutine)
    /\ WF_addingVars(focus = "add" /\ Adding!Run)
    /\ WF_addingVars(focus = "add" /\ Adding!PostRun)
    /\ WF_addingVars(focus = "add" /\ Adding!ProgressBar)

MCSpec == MCInit /\ [][MCNext]_mcVars /\ MCFairness

(***************************************************************************)
(* What each component promises; the claims are stated in its module.      *)
(***************************************************************************)
\* When root and configuration come to rest every service with the policy on comes to hold the
\* root, in one pin, and what lastPins says of it is true until an answer was lost, a pin failed or
\* a user removed it (pinMFSOnChange, pinAllMFS, pinMFS).
RootFollowed ==
    /\ [](focus = "remote" => Remote!OnePinPerName /\ Remote!LastPinTrue)
    /\ Remote!FollowsRoot

\* The answer a user agent comes to by following redirects is the content that it asked for, over
\* hosts that survive DNS; keys are served under the codec of keys (toSubdomainURL,
\* toDNSLinkDNSLabel, toDNSLabel, HostnameOption).
RedirectsLead ==
    [](focus = "host" => Host!OriginKept /\ Host!KeysHaveKeyCodec) /\ Host!RedirectsFitDNS

\* ipfs add returns success on the client only when it has shown every hash and all progress, and
\* never for an add that failed (PostRun, errCh).
AddAnswers == focus = "add" => Adding!ShownExact /\ Adding!FailureTold

(***************************************************************************)
(* What must eventually happen.  As focus never changes, one leads-to      *)
(* between the disjunctions says as much as one for each component; of the *)
(* connections of P2P, which are interchangeable, it follows one.          *)
(***************************************************************************)
Begun ==
    \/ focus = "gc" /\ gcHeld
    \/ focus = "verify" /\ VBegun
    \/ focus = "p2p" /\ PBegun("c")
    \/ focus = "bootstrap" /\ BBegun
    \/ focus = "peerlog" /\ EBegun
    \/ focus = "daemon" /\ DBegun
    \/ focus = "dht" /\ Command
    \/ focus = "host" /\ Host!Begun
    \/ focus = "add"

Ended ==
    \/ focus = "gc" /\ ~gcHeld
    \/ focus = "verify" /\ VEnded
    \/ focus = "p2p" /\ PEnded("c")
    \/ focus = "bootstrap" /\ BEnded
    \/ focus = "peerlog" /\ EEnded
    \/ focus = "daemon" /\ DEnded
    \/ focus = "dht" /\ QEnded
    \/ focus = "host" /\ ~Host!Begun
    \/ focus = "add" /\ Adding!Ended

\* What has begun ends, also when a client stops reading, a peer fails or a signal comes between: a
\* collection gives the GC lock back (LockComesBack), the workers of repo verify end (WorkersEnd),
\* the second direction of a stream ends after the first (BothDirectionsEnd), Bootstrap returns
\* (BootstrapReturns), the event queue is worked off (QueueDrains), the daemon ends after a signal
\* and, where no periodic collection runs, after ipfs shutdown (DaemonEnds), a routing command ends
\* (QueryEnds), redirects come to an answer (RedirectsEnd), ipfs add returns (AddReturns) and gives
\* PinLock back as long as the client stays (AddUnlocks).
EveryoneEnds == (Begun ~> Ended) /\ Adding!AddUnlocks
=============================================================================
