------------------------------ MODULE Peering ------------------------------
(***************************************************************************)
(* The peering service (peering/peering.go): it keeps connections to a set *)
(* of peers.  Each peer has a handler with a timer that is set while the   *)
(* peer is away; when it expires a goroutine dials, and sets it again if   *)
(* that fails.  Notifications of the network start short goroutines that   *)
(* stop the timer, or start it, after looking at the connections.          *)
(*                                                                         *)
(* A handler outlives RemovePeer in the goroutines that still use it, so a *)
(* peer that is added again has a new one.  The service's mutex and each   *)
(* handler's are held for single steps.  The addresses of a peer, and its  *)
(* protection in the connection manager, which follows the map of peers    *)
(* under the same mutex, are left out.                                     *)
(***************************************************************************)
EXTENDS Integers

CONSTANTS
    Peer,
    Handler,       \* handlers that can be made, each once
    NoPeer,
    NoHandler,
    InitialDelay,  \* initialDelay
    MaxBackoff,    \* maxBackoff
    Jitter,        \* maxBackoffJitter, in percent
    Flaky,         \* whether a connection can be lost between Connect and the check after it
    MaxConns,      \* bound: connections with one peer
    MaxNotes,      \* bound: notifications of a kind, for one peer, on their way
    MaxGo          \* bound: goroutines of a kind for one handler

ASSUME NamesAssumption == NoPeer \notin Peer /\ NoHandler \notin Handler
ASSUME DelaysAssumption ==
    /\ InitialDelay \in Nat \ {0}
    /\ MaxBackoff \in Nat
    /\ Jitter \in 0 .. 100
    /\ InitialDelay <= MaxBackoff - ((MaxBackoff * Jitter) \div 100)
    /\ (MaxBackoff * Jitter) \div 100 > 0
ASSUME FlakyAssumption == Flaky \in BOOLEAN
ASSUME BoundsAssumption == MaxConns \in Nat /\ MaxNotes \in Nat /\ MaxGo \in Nat

VARIABLES
    state,       \* of the service
    registered,  \* the service is registered for notifications
    peers,       \* handler of each peer
    peer,        \* peer of each handler that has been made
    canceled,    \* the handler's context is canceled
    timer,       \* reconnectTimer: nil, waiting, or expired
    nextDelay,
    starters,    \* goroutines about to run startIfDisconnected
    stoppers,    \* goroutines about to run stopIfConnected, for a notification
    dialers,     \* goroutines of reconnect in Connect
    checkers,    \* goroutines of reconnect about to run stopIfConnected
    conns,       \* connections with each peer
    ups,         \* notifications of new connections on their way
    downs        \* notifications of lost connections on their way

handlerVars == <<peer, canceled, timer, nextDelay, starters, stoppers, dialers, checkers>>
netVars == <<conns, ups, downs>>
vars == <<state, registered, peers, handlerVars, netVars>>

TypeOK ==
    /\ state \in {"init", "running", "stopped"}
    /\ registered \in BOOLEAN
    /\ peers \in [Peer -> Handler \cup {NoHandler}]
    /\ peer \in [Handler -> Peer \cup {NoPeer}]
    /\ canceled \in [Handler -> BOOLEAN]
    /\ timer \in [Handler -> {"nil", "waiting", "expired"}]
    /\ nextDelay \in [Handler -> InitialDelay .. MaxBackoff]
    /\ starters \in [Handler -> Nat]
    /\ stoppers \in [Handler -> Nat]
    /\ dialers \in [Handler -> Nat]
    /\ checkers \in [Handler -> Nat]
    /\ conns \in [Peer -> Nat]
    /\ ups \in [Peer -> Nat]
    /\ downs \in [Peer -> Nat]

Init ==
    /\ state = "init"
    /\ registered = FALSE
    /\ peers = [p \in Peer |-> NoHandler]
    /\ peer = [h \in Handler |-> NoPeer]
    /\ canceled = [h \in Handler |-> FALSE]
    /\ timer = [h \in Handler |-> "nil"]
    /\ nextDelay = [h \in Handler |-> InitialDelay]
    /\ starters = [h \in Handler |-> 0]
    /\ stoppers = [h \in Handler |-> 0]
    /\ dialers = [h \in Handler |-> 0]
    /\ checkers = [h \in Handler |-> 0]
    /\ conns = [p \in Peer |-> 0]
    /\ ups = [p \in Peer |-> 0]
    /\ downs = [p \in Peer |-> 0]

Inc(f, i) == [f EXCEPT ![i] = @ + 1]
Dec(f, i) == [f EXCEPT ![i] = @ - 1]

Connected(h) == conns[peer[h]] > 0
Handlers == {h \in Handler : \E p \in Peer : peers[p] = h}

-----------------------------------------------------------------------------
(* The handler *)

\* nextBackoff: half as long again up to two and a half times as long, and
\* once that is over the maximum a little less than the maximum.
NextBackoff(d) ==
    LET grown == IF d < MaxBackoff THEN {d + d \div 2 + r : r \in 0 .. d - 1} ELSE {d}
    IN {g \in grown : g <= MaxBackoff}
         \cup {MaxBackoff - r : r \in IF \E g \in grown : g > MaxBackoff
                                      THEN 0 .. (MaxBackoff * Jitter) \div 100 - 1 ELSE {}}

\* startIfDisconnected.
StartIfDisconnected(h) ==
    /\ starters[h] > 0
    /\ starters' = Dec(starters, h)
    /\ IF timer[h] = "nil" /\ ~Connected(h)
       THEN /\ \E d \in NextBackoff(nextDelay[h]) : nextDelay' = [nextDelay EXCEPT ![h] = d]
            /\ timer' = [timer EXCEPT ![h] = "waiting"]
       ELSE UNCHANGED <<timer, nextDelay>>
    /\ UNCHANGED <<state, registered, peers, peer, canceled, stoppers, dialers, checkers, netVars>>

\* Mutant: a notification of a new connection stops the timer unseen.
StopTimer(h) ==
    IF timer[h] # "nil"
    THEN /\ timer' = [timer EXCEPT ![h] = "nil"]
         /\ nextDelay' = [nextDelay EXCEPT ![h] = InitialDelay]
    ELSE UNCHANGED <<timer, nextDelay>>

\* stopIfConnected, by either kind of goroutine.
StopTimerIfConnected(h) ==
    IF timer[h] # "nil" /\ Connected(h)
    THEN /\ timer' = [timer EXCEPT ![h] = "nil"]
         /\ nextDelay' = [nextDelay EXCEPT ![h] = InitialDelay]
    ELSE UNCHANGED <<timer, nextDelay>>

StopIfConnected(h) ==
    /\ stoppers[h] > 0
    /\ stoppers' = Dec(stoppers, h)
    /\ StopTimerIfConnected(h)
    /\ UNCHANGED <<state, registered, peers, peer, canceled, starters, dialers, checkers, netVars>>

CheckAfterDial(h) ==
    /\ checkers[h] > 0
    /\ checkers' = Dec(checkers, h)
    /\ StopTimerIfConnected(h)
    /\ UNCHANGED <<state, registered, peers, peer, canceled, starters, stoppers, dialers, netVars>>

\* The timer expires and runs reconnect in a goroutine.
Expire(h) ==
    /\ timer[h] = "waiting"
    /\ dialers[h] < MaxGo
    /\ timer' = [timer EXCEPT ![h] = "expired"]
    /\ dialers' = Inc(dialers, h)
    /\ UNCHANGED <<state, registered, peers, peer, canceled, nextDelay, starters, stoppers, checkers,
                   netVars>>

\* Connect returns without an error: the peer was connected already, or the
\* dial has succeeded, for which the context must not be canceled.
DialOk(h) ==
    /\ dialers[h] > 0
    /\ checkers[h] < MaxGo
    /\ dialers' = Dec(dialers, h)
    /\ checkers' = Inc(checkers, h)
    /\ \/ Connected(h) /\ UNCHANGED netVars
       \/ /\ ~canceled[h]
          /\ conns[peer[h]] < MaxConns /\ ups[peer[h]] < MaxNotes
          /\ conns' = Inc(conns, peer[h])
          /\ ups' = Inc(ups, peer[h])
          /\ UNCHANGED downs
    /\ UNCHANGED <<state, registered, peers, peer, canceled, timer, nextDelay, starters, stoppers>>

\* Mutant: a timer that has expired is not set again.
DialFailGivesUp(h) ==
    /\ dialers[h] > 0
    /\ checkers[h] < MaxGo
    /\ dialers' = Dec(dialers, h)
    /\ checkers' = Inc(checkers, h)
    /\ UNCHANGED <<state, registered, peers, peer, canceled, timer, nextDelay, starters, stoppers,
                   netVars>>

\* Connect returns an error: the timer is set again if there is one.
DialFail(h) ==
    /\ dialers[h] > 0
    /\ checkers[h] < MaxGo
    /\ dialers' = Dec(dialers, h)
    /\ checkers' = Inc(checkers, h)
    /\ IF timer[h] # "nil"
       THEN /\ \E d \in NextBackoff(nextDelay[h]) : nextDelay' = [nextDelay EXCEPT ![h] = d]
            /\ timer' = [timer EXCEPT ![h] = "waiting"]
       ELSE UNCHANGED <<timer, nextDelay>>
    /\ UNCHANGED <<state, registered, peers, peer, canceled, starters, stoppers, netVars>>

-----------------------------------------------------------------------------
(* The service *)

\* Start and Stop are called once each, by the node's life cycle.
Start ==
    /\ state = "init"
    /\ \A h \in Handlers : starters[h] < MaxGo
    /\ registered' = TRUE
    /\ state' = "running"
    /\ starters' = [h \in Handler |-> IF h \in Handlers THEN starters[h] + 1 ELSE starters[h]]
    /\ UNCHANGED <<peers, peer, canceled, timer, nextDelay, stoppers, dialers, checkers, netVars>>

\* Stop: StopNotify, then the handlers under the mutex.  A service that was
\* never started has nothing to unregister.
StopNotify ==
    /\ state = "running"
    /\ registered
    /\ registered' = FALSE
    /\ UNCHANGED <<state, peers, handlerVars, netVars>>

Stop ==
    /\ state \in {"init", "running"}
    /\ ~registered
    /\ state' = "stopped"
    /\ canceled' = [h \in Handler |-> canceled[h] \/ h \in Handlers]
    /\ timer' = [h \in Handler |-> IF h \in Handlers THEN "nil" ELSE timer[h]]
    /\ UNCHANGED <<registered, peers, peer, nextDelay, starters, stoppers, dialers, checkers, netVars>>

\* AddPeer of a new peer; for a known one only its addresses change.
AddPeer(p) ==
    /\ peers[p] = NoHandler
    /\ \E h \in Handler :
          /\ peer[h] = NoPeer
          /\ peer' = [peer EXCEPT ![h] = p]
          /\ peers' = [peers EXCEPT ![p] = h]
          /\ starters' = IF state = "running" THEN Inc(starters, h) ELSE starters
          /\ canceled' = [canceled EXCEPT ![h] = state = "stopped"]
    /\ UNCHANGED <<state, registered, timer, nextDelay, stoppers, dialers, checkers, netVars>>

RemovePeer(p) ==
    /\ peers[p] # NoHandler
    /\ canceled' = [canceled EXCEPT ![peers[p]] = TRUE]
    /\ timer' = [timer EXCEPT ![peers[p]] = "nil"]
    /\ peers' = [peers EXCEPT ![p] = NoHandler]
    /\ UNCHANGED <<state, registered, peer, nextDelay, starters, stoppers, dialers, checkers, netVars>>

-----------------------------------------------------------------------------
(* The network *)

\* A notification is delivered, if the service is registered.
NotifyConnected(p) ==
    /\ ups[p] > 0
    /\ ups' = Dec(ups, p)
    /\ IF registered /\ peers[p] # NoHandler
       THEN stoppers[peers[p]] < MaxGo /\ stoppers' = Inc(stoppers, peers[p])
       ELSE UNCHANGED stoppers
    /\ UNCHANGED <<state, registered, peers, peer, canceled, timer, nextDelay, starters, dialers,
                   checkers, conns, downs>>

NotifyDisconnected(p) ==
    /\ downs[p] > 0
    /\ downs' = Dec(downs, p)
    /\ IF registered /\ peers[p] # NoHandler
       THEN starters[peers[p]] < MaxGo /\ starters' = Inc(starters, peers[p])
       ELSE UNCHANGED starters
    /\ UNCHANGED <<state, registered, peers, peer, canceled, timer, nextDelay, stoppers, dialers,
                   checkers, conns, ups>>

\* The peer connects, and a connection is lost.
Incoming(p) ==
    /\ conns[p] < MaxConns /\ ups[p] < MaxNotes
    /\ conns' = Inc(conns, p)
    /\ ups' = Inc(ups, p)
    /\ UNCHANGED <<state, registered, peers, handlerVars, downs>>

Lose(p) ==
    /\ conns[p] > 0 /\ downs[p] < MaxNotes
    /\ Flaky \/ conns[p] > 1 \/ \A h \in Handler : peer[h] = p => checkers[h] = 0
    /\ conns' = Dec(conns, p)
    /\ downs' = Inc(downs, p)
    /\ UNCHANGED <<state, registered, peers, handlerVars, ups>>

-----------------------------------------------------------------------------
HandlerStep(h) ==
    \/ StartIfDisconnected(h) \/ StopIfConnected(h) \/ CheckAfterDial(h)
    \/ Expire(h) \/ DialOk(h) \/ DialFail(h)

PeerStep(p) ==
    \/ AddPeer(p) \/ RemovePeer(p)
    \/ NotifyConnected(p) \/ NotifyDisconnected(p) \/ Incoming(p) \/ Lose(p)

Next ==
    \/ Start \/ StopNotify \/ Stop
    \/ \E h \in Handler : HandlerStep(h)
    \/ \E p \in Peer : PeerStep(p)

Spec == Init /\ [][Next]_vars

\* Goroutines run, timers expire and notifications arrive; a peer that is
\* dialled again and again answers some time.
Fairness ==
    /\ \A h \in Handler :
          /\ WF_vars(StartIfDisconnected(h)) /\ WF_vars(StopIfConnected(h))
          /\ WF_vars(CheckAfterDial(h)) /\ WF_vars(Expire(h))
          /\ WF_vars(DialOk(h) \/ DialFail(h)) /\ SF_vars(DialOk(h))
    /\ \A p \in Peer : WF_vars(NotifyConnected(p)) /\ WF_vars(NotifyDisconnected(p))

FairSpec == Spec /\ Fairness

-----------------------------------------------------------------------------
(* Properties *)

\* Nobody forgets a peer that is away: its handler's timer is set, or it has
\* expired and a goroutine is dialling, or something is on its way that will
\* start it ("PeeringService maintains connections to specified peers,
\* reconnecting on disconnect with a back-off").
Watched ==
    registered =>
        \A p \in Peer : peers[p] # NoHandler /\ conns[p] = 0 =>
            \/ downs[p] > 0
            \/ starters[peers[p]] > 0
            \/ timer[peers[p]] = "waiting"
            \/ timer[peers[p]] = "expired" /\ dialers[peers[p]] > 0

\* A peer of a running service is connected again and again, unless it is
\* removed or the service is stopped.
Reconnects ==
    \A p \in Peer : \A h \in Handler :
        registered /\ peers[p] = h ~> conns[p] > 0 \/ ~registered \/ peers[p] # h
=============================================================================
