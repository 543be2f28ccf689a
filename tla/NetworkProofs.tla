--------------------------- MODULE NetworkProofs ----------------------------
(***************************************************************************)
(* Proofs about the connections of a node: the peering service, stream     *)
(* forwarding and the bootstrapper, for any number of peers, handlers,     *)
(* connections, streams and goroutines.                                    *)
(***************************************************************************)
EXTENDS Peering, P2P, Bootstrapper, FiniteSetTheorems, TLAPS

\* Leaves are first-order unless they cite SMT.
USE Zenon

-----------------------------------------------------------------------------
(* The peering service.                                                   *)

\* A peer's handler is the peer's, no two peers share one, and a handler that
\* has not been made is not in use.
OwnerInv ==
    /\ \A p \in Peer : peers[p] # NoHandler => peer[peers[p]] = p
    /\ \A h \in Handler : peer[h] = NoPeer =>
          timer[h] = "nil" /\ starters[h] = 0 /\ stoppers[h] = 0 /\ dialers[h] = 0 /\ checkers[h] = 0

\* Notifications are on only while the service runs.
RegisteredInv == registered => state = "running"

\* Who will set an expired timer again, or turn it off: a goroutine that is
\* dialling, or one that is about to find the peer connected.
ExpiredInv ==
    \A h \in Handler : timer[h] = "expired" =>
        dialers[h] > 0 \/ (checkers[h] > 0 /\ conns[peer[h]] > 0)

TypeInv == TypeOK /\ OwnerInv

-----------------------------------------------------------------------------
(* The back-off *)

\* The delay that nextBackoff computes is at least the initial one and at most
\* the maximum.
LEMMA BackoffRange ==
    ASSUME NEW d \in InitialDelay .. MaxBackoff, NEW e \in NextBackoff(d)
    PROVE  e \in InitialDelay .. MaxBackoff
<1> DEFINE J == (MaxBackoff * Jitter) \div 100
<1>1. MaxBackoff * Jitter \in Nat
    BY SMT, DelaysAssumption
<1>2. J \in Nat
    BY SMT, <1>1
<1>3. InitialDelay \in Nat \ {0} /\ MaxBackoff \in Nat /\ InitialDelay <= MaxBackoff - J
    BY DelaysAssumption
<1>4. d \div 2 \in Nat
    BY SMT, <1>3
<1> HIDE DEF J
<1>5. \A r \in 0 .. d - 1 : d + d \div 2 + r \in Int /\ d + d \div 2 + r >= InitialDelay
    BY SMT, <1>3, <1>4
<1>6. CASE \E r \in 0 .. J - 1 : e = MaxBackoff - r
    BY SMT, <1>2, <1>3, <1>6
<1> QED
  <2>1. CASE \E r \in 0 .. d - 1 : e = d + d \div 2 + r /\ e <= MaxBackoff
      BY SMT, <2>1, <1>5, <1>3
  <2>2. CASE e = d
      BY <2>2
  <2> QED
      BY <1>6, <2>1, <2>2 DEF NextBackoff, J

-----------------------------------------------------------------------------
(* Types *)

LEMMA InitialInRange == InitialDelay \in InitialDelay .. MaxBackoff
<1>1. (MaxBackoff * Jitter) \div 100 \in Int /\ InitialDelay \in Nat /\ MaxBackoff \in Nat
    BY SMT, DelaysAssumption
<1> QED
    BY SMT, <1>1, DelaysAssumption

LEMMA InitType == Init => TypeInv
<1> SUFFICES ASSUME Init PROVE TypeInv
    OBVIOUS
<1>2. TypeOK
    BY InitialInRange DEF Init, TypeOK
<1>3. OwnerInv
    BY NamesAssumption DEF Init, OwnerInv
<1> QED
    BY <1>2, <1>3 DEF TypeInv

\* Steps of a handler that has been made.
LEMMA HandlerStepType ==
    ASSUME TypeInv, NEW h \in Handler, HandlerStep(h)
    PROVE  TypeInv'
<1> USE DEF TypeInv, OwnerInv
<1>1. CASE StartIfDisconnected(h)
  <2>1. \A d \in NextBackoff(nextDelay[h]) : d \in InitialDelay .. MaxBackoff
      BY BackoffRange DEF TypeOK
  <2>2. TypeOK'
      BY SMT, <1>1, <2>1 DEF StartIfDisconnected, TypeOK, Dec, netVars
  <2>3. OwnerInv'
      BY SMT, <1>1 DEF StartIfDisconnected, TypeOK, Dec, netVars
  <2> QED
      BY <2>2, <2>3
<1>2. CASE StopIfConnected(h)
  <2>2. TypeOK'
      BY SMT, <1>2, InitialInRange DEF StopIfConnected, StopTimerIfConnected, TypeOK, Dec, netVars
  <2>3. OwnerInv'
      BY SMT, <1>2 DEF StopIfConnected, StopTimerIfConnected, TypeOK, Dec, netVars
  <2> QED
      BY <2>2, <2>3
<1>3. CASE CheckAfterDial(h)
  <2>2. TypeOK'
      BY SMT, <1>3, InitialInRange DEF CheckAfterDial, StopTimerIfConnected, TypeOK, Dec, netVars
  <2>3. OwnerInv'
      BY SMT, <1>3 DEF CheckAfterDial, StopTimerIfConnected, TypeOK, Dec, netVars
  <2> QED
      BY <2>2, <2>3
<1>4. CASE Expire(h)
  <2>2. TypeOK'
      BY SMT, <1>4 DEF Expire, TypeOK, Inc, netVars
  <2>3. OwnerInv'
      BY <1>4 DEF Expire, TypeOK, Inc, netVars
  <2> QED
      BY <2>2, <2>3
<1>5. CASE DialOk(h)
  <2>1. peer[h] \in Peer
      BY SMT, <1>5 DEF DialOk, TypeOK
  <2>2. TypeOK'
      BY SMT, <1>5, <2>1 DEF DialOk, TypeOK, Inc, Dec, netVars
  <2>3. OwnerInv'
      BY SMT, <1>5, <2>1, NamesAssumption DEF DialOk, TypeOK, Inc, Dec
  <2> QED
      BY <2>2, <2>3
<1>6. CASE DialFail(h)
  <2>1. \A d \in NextBackoff(nextDelay[h]) : d \in InitialDelay .. MaxBackoff
      BY BackoffRange DEF TypeOK
  <2>2. TypeOK'
      BY SMT, <1>6, <2>1 DEF DialFail, TypeOK, Inc, Dec, netVars
  <2>3. OwnerInv'
      BY SMT, <1>6 DEF DialFail, TypeOK, Inc, Dec, netVars
  <2> QED
      BY <2>2, <2>3
<1> QED
    BY <1>1, <1>2, <1>3, <1>4, <1>5, <1>6 DEF HandlerStep

LEMMA PeerStepType ==
    ASSUME TypeInv, NEW p \in Peer, PeerStep(p)
    PROVE  TypeInv'
<1> USE NamesAssumption DEF TypeInv
<1>1. CASE AddPeer(p)
  <2>1. PICK h \in Handler :
          /\ peer[h] = NoPeer
          /\ peer' = [peer EXCEPT ![h] = p]
          /\ peers' = [peers EXCEPT ![p] = h]
          /\ starters' = IF state = "running" THEN Inc(starters, h) ELSE starters
          /\ canceled' = [canceled EXCEPT ![h] = state = "stopped"]
      BY <1>1 DEF AddPeer
  <2>2. UNCHANGED <<state, registered, timer, nextDelay, stoppers, dialers, checkers, conns, ups, downs>>
      BY <1>1 DEF AddPeer, netVars
  <2>3. canceled' \in [Handler -> BOOLEAN]
      BY <2>1, Zenon DEF TypeOK
  <2>4. starters' \in [Handler -> Nat]
      BY SMT, <2>1 DEF TypeOK, Inc
  <2>5. TypeOK'
      BY <2>1, <2>2, <2>3, <2>4 DEF TypeOK
  <2>6. OwnerInv'
      BY SMT, <2>1, <2>2 DEF TypeOK, OwnerInv, Inc
  <2> QED
      BY <2>5, <2>6
<1>2. CASE RemovePeer(p)
  <2>1. peers[p] \in Handler
      BY <1>2 DEF RemovePeer, TypeOK
  <2>2. TypeOK'
      BY <1>2, <2>1 DEF RemovePeer, TypeOK, netVars
  <2>3. OwnerInv'
      BY <1>2, <2>1 DEF RemovePeer, TypeOK, OwnerInv, netVars
  <2> QED
      BY <2>2, <2>3
<1>3. CASE NotifyConnected(p)
  <2>2. TypeOK'
      BY SMT, <1>3 DEF NotifyConnected, TypeOK, Inc, Dec
  <2>3. OwnerInv'
      BY SMT, <1>3 DEF NotifyConnected, TypeOK, OwnerInv, Inc, Dec
  <2> QED
      BY <2>2, <2>3
<1>4. CASE NotifyDisconnected(p)
  <2>2. TypeOK'
      BY SMT, <1>4 DEF NotifyDisconnected, TypeOK, Inc, Dec
  <2>3. OwnerInv'
      BY SMT, <1>4 DEF NotifyDisconnected, TypeOK, OwnerInv, Inc, Dec
  <2> QED
      BY <2>2, <2>3
<1>5. CASE Incoming(p)
  <2>2. TypeOK'
      BY SMT, <1>5 DEF Incoming, TypeOK, Inc, handlerVars
  <2>3. OwnerInv'
      BY <1>5 DEF Incoming, OwnerInv, handlerVars
  <2> QED
      BY <2>2, <2>3
<1>6. CASE Lose(p)
  <2>2. TypeOK'
      BY SMT, <1>6 DEF Lose, TypeOK, Inc, Dec, handlerVars
  <2>3. OwnerInv'
      BY <1>6 DEF Lose, OwnerInv, handlerVars
  <2> QED
      BY <2>2, <2>3
<1> QED
    BY <1>1, <1>2, <1>3, <1>4, <1>5, <1>6 DEF PeerStep

LEMMA NextType == TypeInv /\ [Next]_vars => TypeInv'
<1> SUFFICES ASSUME TypeInv, [Next]_vars PROVE TypeInv'
    OBVIOUS
<1> USE NamesAssumption DEF TypeInv
<1>0. \A h \in Handlers : peer[h] # NoPeer /\ h \in Handler
    BY SMT DEF Handlers, OwnerInv, TypeOK
<1>1. CASE Start
  <2>2. TypeOK'
      BY SMT, <1>1 DEF Start, TypeOK, netVars
  <2>3. OwnerInv'
      BY <1>0, <1>1 DEF Start, OwnerInv, TypeOK, netVars
  <2> QED
      BY <2>2, <2>3
<1>2. CASE StopNotify
    BY <1>2 DEF StopNotify, TypeOK, OwnerInv, handlerVars, netVars
<1>3. CASE Stop
  <2>1. canceled' \in [Handler -> BOOLEAN]
      BY <1>3, Zenon DEF Stop
  <2>2. TypeOK'
      BY <1>3, <2>1 DEF Stop, TypeOK, netVars
  <2>3. OwnerInv'
      BY <1>3 DEF Stop, OwnerInv, TypeOK, netVars
  <2> QED
      BY <2>2, <2>3
<1>4. CASE UNCHANGED vars
    BY <1>4 DEF vars, handlerVars, netVars, TypeOK, OwnerInv
<1> QED
    BY <1>1, <1>2, <1>3, <1>4, HandlerStepType, PeerStepType DEF Next

\* Every reachable state of the peering service is well typed: the back-off in
\* particular stays between initialDelay and maxBackoff.
THEOREM TypeCorrect == Spec => []TypeOK
<1>1. Spec => []TypeInv
    BY InitType, NextType, PTL DEF Spec
<1>2. TypeInv => TypeOK
    BY DEF TypeInv
<1> QED
    BY <1>1, <1>2, PTL

-----------------------------------------------------------------------------
(* No peer is forgotten *)

\* What makes a peer that is away come back.
Kept(p) ==
    peers[p] # NoHandler /\ conns[p] = 0 =>
        \/ downs[p] > 0
        \/ starters[peers[p]] > 0
        \/ timer[peers[p]] = "waiting"
        \/ timer[peers[p]] = "expired" /\ dialers[peers[p]] > 0

WatchInv == TypeInv /\ RegisteredInv /\ ExpiredInv /\ Watched

LEMMA WatchedIsKept == Watched <=> (registered => \A p \in Peer : Kept(p))
BY DEF Watched, Kept

\* A step of a handler keeps somebody in charge of the handler's timer.
LEMMA HandlerStepExpired ==
    ASSUME TypeInv, ExpiredInv, NEW h \in Handler, HandlerStep(h)
    PROVE  ExpiredInv'
<1> USE DEF ExpiredInv, TypeInv, TypeOK
<1>1. CASE StartIfDisconnected(h)
    BY <1>1 DEF StartIfDisconnected, Dec, netVars
<1>2. CASE StopIfConnected(h)
    BY SMT, <1>2 DEF StopIfConnected, StopTimerIfConnected, Dec, netVars
<1>3. CASE CheckAfterDial(h)
    BY SMT, <1>3 DEF CheckAfterDial, StopTimerIfConnected, Connected, Dec, netVars
<1>4. CASE Expire(h)
    BY SMT, <1>4 DEF Expire, Inc, netVars
<1>5. CASE DialOk(h)
  <2>1. peer[h] \in Peer
      BY SMT, <1>5 DEF DialOk, OwnerInv
  <2>2. \A g \in Handler : timer'[g] = "expired" /\ g # h =>
            dialers'[g] > 0 \/ (checkers'[g] > 0 /\ conns'[peer'[g]] > 0)
    <3> SUFFICES ASSUME NEW g \in Handler, timer[g] = "expired", g # h
                 PROVE  dialers'[g] > 0 \/ (checkers'[g] > 0 /\ conns'[peer'[g]] > 0)
        BY <1>5 DEF DialOk
    <3>1. dialers'[g] = dialers[g] /\ checkers'[g] = checkers[g] /\ peer' = peer
        BY <1>5 DEF DialOk, Inc, Dec
    <3>2. peer[g] \in Peer
        BY DEF OwnerInv
    <3>3. conns[peer[g]] > 0 => conns'[peer'[g]] > 0
        BY SMT, <1>5, <2>1, <3>1, <3>2 DEF DialOk, Inc, netVars
    <3> QED
        BY <3>1, <3>3
  <2>3. checkers'[h] > 0 /\ conns'[peer'[h]] > 0
      BY SMT, <1>5, <2>1 DEF DialOk, Connected, Inc, netVars
  <2> QED
      BY <2>2, <2>3
<1>6. CASE DialFail(h)
    BY SMT, <1>6 DEF DialFail, Inc, Dec, netVars
<1> QED
    BY <1>1, <1>2, <1>3, <1>4, <1>5, <1>6 DEF HandlerStep

\* Other steps do so too, if no connection is lost between the end of a dial
\* and the check after it.
LEMMA PeerStepExpired ==
    ASSUME ~Flaky, TypeInv, ExpiredInv, NEW p \in Peer, PeerStep(p)
    PROVE  ExpiredInv'
<1> USE NamesAssumption DEF ExpiredInv, TypeInv, TypeOK
<1>1. CASE AddPeer(p)
    BY SMT, <1>1 DEF AddPeer, OwnerInv, netVars
<1>2. CASE RemovePeer(p)
    BY <1>2 DEF RemovePeer, netVars
<1>3. CASE NotifyConnected(p)
    BY <1>3 DEF NotifyConnected
<1>4. CASE NotifyDisconnected(p)
    BY <1>4 DEF NotifyDisconnected
<1>5. CASE Incoming(p)
    BY SMT, <1>5 DEF Incoming, handlerVars, Inc, OwnerInv
<1>6. CASE Lose(p)
    BY SMT, <1>6 DEF Lose, handlerVars, Dec, OwnerInv
<1> QED
    BY <1>1, <1>2, <1>3, <1>4, <1>5, <1>6 DEF PeerStep

\* A step of handler h forgets no peer.
LEMMA HandlerStepKept ==
    ASSUME TypeInv, ExpiredInv, NEW h \in Handler, HandlerStep(h), NEW p \in Peer, Kept(p)
    PROVE  Kept(p)'
<1> SUFFICES ASSUME peers[p] # NoHandler, conns'[p] = 0
             PROVE  \/ downs'[p] > 0
                    \/ starters'[peers[p]] > 0
                    \/ timer'[peers[p]] = "waiting"
                    \/ timer'[peers[p]] = "expired" /\ dialers'[peers[p]] > 0
  <2>1. peers' = peers
      BY DEF HandlerStep, StartIfDisconnected, StopIfConnected, CheckAfterDial, Expire, DialOk, DialFail
  <2> QED
      BY <2>1 DEF Kept
<1> USE DEF TypeInv, TypeOK
<1>a. peers[p] \in Handler /\ peer[peers[p]] = p
    BY DEF OwnerInv
<1>b. conns[p] = 0
  <2>1. CASE UNCHANGED conns
      BY <2>1
  <2>2. CASE DialOk(h)
    <3>1. peer[h] \in Peer
        BY SMT, <2>2, NamesAssumption DEF DialOk, OwnerInv
    <3> QED
        BY SMT, <2>2, <3>1 DEF DialOk, Inc, netVars
  <2> QED
      BY <2>1, <2>2 DEF HandlerStep, StartIfDisconnected, StopIfConnected, CheckAfterDial, Expire,
                        DialFail, netVars
<1>c. timer[peers[p]] = "expired" => dialers[peers[p]] > 0
    BY SMT, <1>a, <1>b DEF ExpiredInv
<1>d. \/ downs[p] > 0
      \/ starters[peers[p]] > 0
      \/ timer[peers[p]] = "waiting"
      \/ timer[peers[p]] = "expired" /\ dialers[peers[p]] > 0
    BY <1>b DEF Kept
<1>1. CASE StartIfDisconnected(h)
    BY SMT, <1>1, <1>a, <1>b, <1>c, <1>d DEF StartIfDisconnected, Connected, Dec, netVars
<1>2. CASE StopIfConnected(h)
    BY SMT, <1>2, <1>a, <1>b, <1>d DEF StopIfConnected, StopTimerIfConnected, Connected, Dec, netVars
<1>3. CASE CheckAfterDial(h)
    BY SMT, <1>3, <1>a, <1>b, <1>d DEF CheckAfterDial, StopTimerIfConnected, Connected, Dec, netVars
<1>4. CASE Expire(h)
    BY SMT, <1>4, <1>a, <1>d DEF Expire, Inc, netVars
<1>5. CASE DialOk(h)
  <2>1. peers[p] # h
    <3>1. conns'[peer[h]] > 0
        BY SMT, <1>5, NamesAssumption DEF DialOk, Connected, Inc, netVars, OwnerInv
    <3> QED
        BY SMT, <3>1, <1>a
  <2> QED
      BY <1>5, <1>a, <1>d, <2>1 DEF DialOk, Inc, Dec, netVars
<1>6. CASE DialFail(h)
    BY <1>6, <1>a, <1>d DEF DialFail, Inc, Dec, netVars
<1> QED
    BY <1>1, <1>2, <1>3, <1>4, <1>5, <1>6 DEF HandlerStep

\* Nor does any other step.
LEMMA PeerStepKept ==
    ASSUME ~Flaky, TypeInv, RegisteredInv, ExpiredInv, registered,
           NEW q \in Peer, PeerStep(q), NEW p \in Peer, Kept(p)
    PROVE  Kept(p)'
<1> USE NamesAssumption DEF TypeInv, TypeOK
<1>a. peers[p] # NoHandler => peers[p] \in Handler /\ peer[peers[p]] = p
    BY DEF OwnerInv
<1>1. CASE AddPeer(q)
  <2>1. PICK h \in Handler :
          /\ peer[h] = NoPeer
          /\ peers' = [peers EXCEPT ![q] = h]
          /\ starters' = Inc(starters, h)
      BY <1>1 DEF AddPeer, RegisteredInv
  <2>2. UNCHANGED <<timer, dialers, conns, downs>>
      BY <1>1 DEF AddPeer, netVars
  <2>3. CASE p = q
    <3>1. peers'[p] = h /\ starters'[h] > 0
        BY SMT, <2>1, <2>3 DEF Inc
    <3> QED
        BY <3>1 DEF Kept
  <2>4. CASE p # q
    <3>1. peers'[p] = peers[p]
        BY <2>1, <2>4
    <3>2. peers[p] # NoHandler => starters'[peers[p]] = starters[peers[p]]
        BY <2>1, <1>a DEF Inc
    <3> QED
        BY <2>2, <3>1, <3>2 DEF Kept
  <2> QED
      BY <2>3, <2>4
<1>2. CASE RemovePeer(q)
  <2>1. CASE p = q
      BY <1>2, <2>1 DEF RemovePeer, Kept
  <2>2. CASE p # q
    <3>1. peers[p] # NoHandler => peers[p] # peers[q]
        BY <1>2, <2>2, <1>a DEF RemovePeer, OwnerInv
    <3>2. peers'[p] = peers[p] /\ UNCHANGED <<starters, dialers, conns, downs>>
        BY <1>2, <2>2 DEF RemovePeer, netVars
    <3>3. peers[p] # NoHandler => timer'[peers[p]] = timer[peers[p]]
        BY <1>2, <1>a, <3>1 DEF RemovePeer
    <3> QED
        BY <3>2, <3>3 DEF Kept
  <2> QED
      BY <2>1, <2>2
<1>3. CASE NotifyConnected(q)
    BY <1>3 DEF NotifyConnected, Kept
<1>4. CASE NotifyDisconnected(q)
  <2>1. UNCHANGED <<peers, timer, dialers, conns>>
      BY <1>4 DEF NotifyDisconnected
  <2>2. CASE p = q
      BY SMT, <1>4, <1>a, <2>1, <2>2 DEF NotifyDisconnected, Kept, Inc
  <2>3. CASE p # q
    <3>1. downs'[p] = downs[p]
        BY <1>4, <2>3 DEF NotifyDisconnected, Dec
    <3>2. peers[p] # NoHandler => starters'[peers[p]] >= starters[peers[p]]
        BY SMT, <1>4, <1>a DEF NotifyDisconnected, Inc
    <3>3. peers[p] # NoHandler => starters[peers[p]] \in Nat /\ starters'[peers[p]] \in Nat
        BY SMT, <1>4, <1>a DEF NotifyDisconnected, Inc
    <3> QED
        BY SMT, <2>1, <3>1, <3>2, <3>3 DEF Kept
  <2> QED
      BY <2>2, <2>3
<1>5. CASE Incoming(q)
    BY SMT, <1>5 DEF Incoming, Kept, Inc, handlerVars
<1>6. CASE Lose(q)
    BY SMT, <1>6 DEF Lose, Kept, Inc, Dec, handlerVars
<1> QED
    BY <1>1, <1>2, <1>3, <1>4, <1>5, <1>6 DEF PeerStep

LEMMA NextWatch ==
    ASSUME ~Flaky, WatchInv, [Next]_vars
    PROVE  WatchInv'
<1> USE DEF WatchInv
<1>1. TypeInv'
    BY NextType
<1>2. RegisteredInv'
    BY DEF RegisteredInv, Next, Start, StopNotify, Stop, HandlerStep, PeerStep, StartIfDisconnected,
           StopIfConnected, CheckAfterDial, Expire, DialOk, DialFail, AddPeer, RemovePeer,
           NotifyConnected, NotifyDisconnected, Incoming, Lose, vars
<1>3. CASE Start
  <2>1. ExpiredInv'
      BY <1>3 DEF Start, ExpiredInv, netVars
  <2>2. \A p \in Peer : peers[p] # NoHandler => starters'[peers[p]] > 0
      BY SMT, <1>3 DEF Start, TypeInv, TypeOK, Handlers
  <2>3. Watched'
      BY <1>3, <2>2 DEF Start, Watched
  <2> QED
      BY <1>1, <1>2, <2>1, <2>3
<1>4. CASE StopNotify
    BY <1>1, <1>2, <1>4 DEF StopNotify, ExpiredInv, Watched, handlerVars, netVars
<1>5. CASE Stop
    BY <1>1, <1>2, <1>5 DEF Stop, ExpiredInv, Watched, netVars, TypeInv, TypeOK
<1>6. ASSUME NEW h \in Handler, HandlerStep(h)
      PROVE  WatchInv'
  <2>1. registered' = registered
      BY <1>6 DEF HandlerStep, StartIfDisconnected, StopIfConnected, CheckAfterDial, Expire, DialOk,
                  DialFail
  <2>2. (\A p \in Peer : Kept(p)) => \A p \in Peer : Kept(p)'
      BY <1>6, HandlerStepKept
  <2>3. Watched'
      BY <2>1, <2>2, WatchedIsKept DEF Watched, Kept
  <2> QED
      BY <1>1, <1>2, <1>6, <2>3, HandlerStepExpired
<1>7. ASSUME NEW q \in Peer, PeerStep(q)
      PROVE  WatchInv'
  <2>1. registered' = registered
      BY <1>7 DEF PeerStep, AddPeer, RemovePeer, NotifyConnected, NotifyDisconnected, Incoming, Lose
  <2>2. registered /\ (\A p \in Peer : Kept(p)) => \A p \in Peer : Kept(p)'
      BY <1>7, PeerStepKept
  <2>3. Watched'
      BY <2>1, <2>2, WatchedIsKept DEF Watched, Kept
  <2> QED
      BY <1>1, <1>2, <1>7, <2>3, PeerStepExpired
<1>8. CASE UNCHANGED vars
    BY <1>1, <1>2, <1>8 DEF ExpiredInv, Watched, vars, handlerVars, netVars
<1> QED
    BY <1>3, <1>4, <1>5, <1>6, <1>7, <1>8 DEF Next

\* While the service is registered for notifications, every peer that is away
\* has a handler whose timer is set, or a goroutine or notification that will
\* see to it, for connections that are not lost between the end of a dial and
\* the check after it.
THEOREM NoPeerForgotten ==
    ASSUME ~Flaky
    PROVE  Spec => []Watched
<1>1. Init => WatchInv
    BY InitType DEF Init, WatchInv, RegisteredInv, ExpiredInv, Watched
<1>2. WatchInv /\ [Next]_vars => WatchInv'
    BY NextWatch
<1>3. WatchInv => Watched
    BY DEF WatchInv
<1> QED
    BY <1>1, <1>2, <1>3, PTL DEF Spec

-----------------------------------------------------------------------------
(* Stream forwarding.                                                      *)

\* A bound socket is in exactly one of the three stages of its listener.
SocketInv == NoOrphanSocket /\ pClosing \cap (pLocal \cup pOpening) = {}

\* The actions that move listeners, and that move connections.
ListenerStep ==
    \/ \E a \in Addrs : Forward(a) \/ RegisterLocal(a) \/ CloseLocal(a) \/ CloseSocket(a)
    \/ \E x \in Protos : Listen(x) \/ CloseProto(x)
ConnStep(c) ==
    \/ \E a \in Addrs, p \in PPeers : Accept(c, a, p)
    \/ \E x \in Protos, p \in PPeers : Match(c, x, p)
    \/ Dial(c) \/ Handle(c) \/ HandleStream(c) \/ Register(c) \/ StreamClose(c)
    \/ \E d \in {"in", "out"}, how \in {"closed", "reset"} : CopyEnds(c, d, how)
    \/ DeregisterSome(c)

LEMMA StreamSteps == PNext <=> ListenerStep \/ \E c \in Conns : ConnStep(c)
BY DEF PNext, ListenerStep, ConnStep

LEMMA ConnKeepsSockets ==
    ASSUME NEW c \in Conns, ConnStep(c)
    PROVE  UNCHANGED lis
BY DEF ConnStep, Accept, Match, Dial, Handle, HandleStream, Register, StreamClose, CopyEnds,
       DeregisterSome, Deregister

LEMMA SocketNext == SocketInv /\ [PNext]_pVars => SocketInv'
<1> SUFFICES ASSUME SocketInv, [PNext]_pVars PROVE SocketInv'
    OBVIOUS
<1> USE DEF SocketInv, NoOrphanSocket
<1>1. ASSUME NEW a \in Addrs, Forward(a) PROVE SocketInv'
    BY <1>1 DEF Forward
<1>2. ASSUME NEW a \in Addrs, RegisterLocal(a) PROVE SocketInv'
    BY <1>2 DEF RegisterLocal
<1>3. ASSUME NEW a \in Addrs, CloseLocal(a) PROVE SocketInv'
    BY <1>3 DEF CloseLocal
<1>4. ASSUME NEW a \in Addrs, CloseSocket(a) PROVE SocketInv'
    BY <1>4 DEF CloseSocket
<1>5. ASSUME NEW x \in Protos, Listen(x) \/ CloseProto(x) PROVE SocketInv'
    BY <1>5 DEF Listen, CloseProto
<1>6. CASE UNCHANGED lis
    BY <1>6 DEF lis
<1>7. UNCHANGED pVars => UNCHANGED lis
    BY DEF pVars
<1> QED
    BY <1>1, <1>2, <1>3, <1>4, <1>5, <1>6, <1>7, StreamSteps, ConnKeepsSockets DEF ListenerStep

Stages == Protos \cup {"new", "dial", "handle", "ready", "running", "gone", "dropped"}
EndStates == {"none", "open", "closed", "reset"}

StreamTypes ==
    /\ pStage \in [Conns -> Stages]
    /\ pLoc \in [Conns -> EndStates] /\ pRem \in [Conns -> EndStates]
    /\ pPeer \in [Conns -> PPeers]
    /\ pDirs \in [Conns -> SUBSET Closers] /\ pEnding \in [Conns -> SUBSET Closers]

\* A connection is in the registry, copied or being closed only while it runs, and whoever
\* has closed its ends, or taken it out of the registry, has left both closed.
ConnInv(c) ==
    /\ c \in pStreams \/ pDirs[c] # {} \/ pEnding[c] # {} => pStage[c] = "running"
    /\ pEnding[c] # {} \/ (pStage[c] = "running" /\ c \notin pStreams)
          => pLoc[c] = "closed" /\ pRem[c] # "open"

StreamInv ==
    /\ StreamTypes
    /\ pStreams \in SUBSET Conns /\ pCount \in [PPeers -> Nat]
    /\ \A c \in Conns : ConnInv(c)
    /\ TagsMatch

\* What a step of c leaves alone.
OthersKept(c) ==
    \A d \in Conns \ {c} :
        /\ pStage'[d] = pStage[d] /\ pLoc'[d] = pLoc[d] /\ pRem'[d] = pRem[d]
        /\ pPeer'[d] = pPeer[d] /\ pDirs'[d] = pDirs[d] /\ pEnding'[d] = pEnding[d]

\* A step of c that leaves the registry alone, and c's peer while c is registered.
LEMMA OneConnection ==
    ASSUME StreamInv, NEW c \in Conns, UNCHANGED reg, StreamTypes', OthersKept(c),
           c \in pStreams => pPeer'[c] = pPeer[c],
           ConnInv(c)'
    PROVE  StreamInv'
<1> USE DEF StreamInv
<1>1. UNCHANGED <<pStreams, pCount, pTags>>
    BY DEF reg
<1>2. \A d \in Conns \ {c} : ConnInv(d)'
    BY SMT, <1>1 DEF ConnInv, OthersKept
<1>3. \A p \in PPeers : {d \in pStreams' : pPeer'[d] = p} = {d \in pStreams : pPeer[d] = p}
    BY <1>1 DEF OthersKept
<1>4. TagsMatch'
    BY <1>1, <1>3 DEF TagsMatch
<1> QED
    BY <1>1, <1>2, <1>4

LEMMA StreamEnters ==
    ASSUME StreamInv, NEW c \in Conns, NEW p \in PPeers,
           (\E a \in Addrs : Accept(c, a, p)) \/ (\E x \in Protos : Match(c, x, p))
    PROVE  StreamInv'
<1>1. /\ pStage[c] = "new" /\ pPeer' = [pPeer EXCEPT ![c] = p]
      /\ UNCHANGED <<pDirs, pEnding, reg>>
    BY DEF Accept, Match
<1>2. PICK x \in Protos \cup {"dial"}, l \in {"none", "open"}, r \in {"none", "open"} :
         /\ pStage' = [pStage EXCEPT ![c] = x]
         /\ pLoc' = [pLoc EXCEPT ![c] = l] /\ pRem' = [pRem EXCEPT ![c] = r]
    BY DEF Accept, Match, Stage, SetEnds
<1>3. c \notin pStreams /\ pDirs[c] = {} /\ pEnding[c] = {}
    BY <1>1 DEF StreamInv, ConnInv
<1>4. x # "running"
    BY StreamsAssumption
<1>5. StreamTypes' /\ OthersKept(c)
    BY <1>1, <1>2 DEF StreamInv, StreamTypes, Stages, EndStates, OthersKept
<1>6. ConnInv(c)'
    BY <1>1, <1>2, <1>3, <1>4 DEF StreamInv, StreamTypes, ConnInv, reg
<1> QED
    BY <1>1, <1>3, <1>5, <1>6, OneConnection

LEMMA StreamSetUp ==
    ASSUME StreamInv, NEW c \in Conns, Dial(c) \/ Handle(c) \/ HandleStream(c)
    PROVE  StreamInv'
<1> USE DEF StreamInv, StreamTypes, EndStates
<1>1. UNCHANGED <<pPeer, pDirs, pEnding, reg>> /\ pStage[c] # "running"
    BY StreamsAssumption DEF Dial, Handle, HandleStream
<1>2. PICK x \in {"ready", "gone", "handle", "dropped"}, l \in EndStates, r \in EndStates :
         /\ pStage' = [pStage EXCEPT ![c] = x]
         /\ pLoc' = [pLoc EXCEPT ![c] = l] /\ pRem' = [pRem EXCEPT ![c] = r]
  <2>1. CASE Dial(c)
      BY <2>1 DEF Dial, Stage, SetEnds
  <2>2. CASE HandleStream(c)
      BY <2>2 DEF HandleStream, Stage, SetEnds
  <2>3. CASE Handle(c)
    <3>1. pLoc' = [pLoc EXCEPT ![c] = pLoc[c]] /\ pRem' = [pRem EXCEPT ![c] = pRem[c]]
        BY <2>3 DEF Handle
    <3>2. \E x \in {"handle", "dropped"} : pStage' = [pStage EXCEPT ![c] = x]
        BY <2>3 DEF Handle, Stage
    <3>3. pLoc[c] \in EndStates /\ pRem[c] \in EndStates
        OBVIOUS
    <3> QED
        BY <3>1, <3>2, <3>3
  <2> QED
      BY <2>1, <2>2, <2>3
<1>3. c \notin pStreams /\ pDirs[c] = {} /\ pEnding[c] = {}
    BY <1>1 DEF ConnInv
<1>4. StreamTypes' /\ OthersKept(c)
    BY <1>1, <1>2 DEF Stages, OthersKept
<1>5. ConnInv(c)'
    BY <1>1, <1>2, <1>3 DEF ConnInv, reg
<1> QED
    BY <1>1, <1>3, <1>4, <1>5, OneConnection

\* Whoever closes the ends of a stream that runs.
LEMMA StreamCloses ==
    ASSUME StreamInv, NEW c \in Conns,
           \/ StreamClose(c)
           \/ \E d \in {"in", "out"}, how \in {"closed", "reset"} : CopyEnds(c, d, how)
    PROVE  StreamInv'
<1> USE DEF StreamInv, StreamTypes, EndStates
<1>1. UNCHANGED <<pStage, pPeer, reg>>
    BY DEF StreamClose, CopyEnds
<1>2. PICK how \in {"closed", "reset"} :
         /\ pLoc' = [pLoc EXCEPT ![c] = "closed"]
         /\ pRem' = [pRem EXCEPT ![c] = IF pRem[c] = "open" THEN how ELSE pRem[c]]
    BY DEF StreamClose, CopyEnds, CloseEnds, SetEnds
<1>3. /\ pStage[c] = "running"
      /\ \E who \in Closers : pEnding' = [pEnding EXCEPT ![c] = @ \cup {who}]
      /\ pDirs' = pDirs \/ \E d \in Closers : pDirs' = [pDirs EXCEPT ![c] = @ \ {d}]
    BY DEF StreamClose, CopyEnds, ConnInv, Closers
<1>4. StreamTypes' /\ OthersKept(c)
    BY SMT, <1>1, <1>2, <1>3 DEF OthersKept
<1>5. ConnInv(c)'
    BY <1>1, <1>2, <1>3 DEF ConnInv
<1> QED
    BY <1>1, <1>4, <1>5, OneConnection

StreamsOf(p) == {c \in pStreams : pPeer[c] = p}

LEMMA StreamsFinite ==
    ASSUME StreamInv, NEW p \in PPeers
    PROVE  /\ IsFiniteSet(StreamsOf(p)) /\ Cardinality(StreamsOf(p)) \in Nat
           /\ pCount[p] = Cardinality(StreamsOf(p))
<1>1. StreamsOf(p) \in SUBSET Conns
    BY DEF StreamInv, StreamsOf
<1>2. IsFiniteSet(StreamsOf(p))
    BY <1>1, FS_Subset, StreamsAssumption
<1> QED
    BY <1>2, FS_CardinalityType DEF StreamInv, TagsMatch, StreamsOf

LEMMA StreamRegisters ==
    ASSUME StreamInv, NEW c \in Conns, Register(c)
    PROVE  StreamInv'
<1> DEFINE p == pPeer[c]
<1>1. /\ pStage[c] = "ready" /\ pStage' = [pStage EXCEPT ![c] = "running"]
      /\ pTags' = pTags \cup {p} /\ pCount' = [pCount EXCEPT ![p] = @ + 1]
      /\ pStreams' = pStreams \cup {c} /\ pDirs' = [pDirs EXCEPT ![c] = {"in", "out"}]
      /\ UNCHANGED <<pLoc, pRem, pPeer, pEnding>>
    BY DEF Register, Stage
<1>2. /\ StreamTypes /\ pStreams \in SUBSET Conns /\ pCount \in [PPeers -> Nat]
      /\ (\A d \in Conns : ConnInv(d)) /\ p \in PPeers /\ pTags = {q \in PPeers : pCount[q] > 0}
    BY DEF StreamInv, StreamTypes, TagsMatch
<1>3. c \notin pStreams /\ pEnding[c] = {}
    BY <1>1, <1>2 DEF ConnInv
<1>4. StreamTypes'
    BY <1>1, <1>2 DEF StreamTypes, Stages, Closers
<1>5. \A d \in Conns : ConnInv(d)'
    BY <1>1, <1>2, <1>3 DEF ConnInv, StreamTypes
<1>6. pCount' \in [PPeers -> Nat]
    BY SMT, <1>1, <1>2
<1>7. ASSUME NEW q \in PPeers
      PROVE  pCount'[q] = Cardinality({d \in pStreams' : pPeer'[d] = q})
  <2>1. CASE q = p
    <3>1. {d \in pStreams' : pPeer'[d] = q} = StreamsOf(q) \cup {c}
        BY <1>1, <2>1 DEF StreamsOf
    <3>2. c \notin StreamsOf(q)
        BY <1>3 DEF StreamsOf
    <3>3. Cardinality(StreamsOf(q) \cup {c}) = Cardinality(StreamsOf(q)) + 1
        BY <3>2, FS_AddElement, StreamsFinite
    <3>4. pCount'[q] = pCount[q] + 1
        BY <1>1, <1>2, <2>1
    <3> QED
        BY <3>1, <3>3, <3>4, StreamsFinite
  <2>2. CASE q # p
    <3>1. {d \in pStreams' : pPeer'[d] = q} = StreamsOf(q)
        BY <1>1, <2>2 DEF StreamsOf
    <3>2. pCount'[q] = pCount[q]
        BY <1>1, <1>2, <2>2
    <3> QED
        BY <3>1, <3>2, StreamsFinite
  <2> QED
      BY <2>1, <2>2
<1>8. pTags' = {q \in PPeers : pCount'[q] > 0}
    BY SMT, <1>1, <1>2
<1> QED
    BY SMT, <1>1, <1>2, <1>4, <1>5, <1>6, <1>7, <1>8 DEF StreamInv, TagsMatch

LEMMA StreamDeregisters ==
    ASSUME StreamInv, NEW c \in Conns, NEW w \in Closers, Deregister(c, w)
    PROVE  StreamInv'
<1> DEFINE p == pPeer[c]
<1>1. /\ w \in pEnding[c] /\ pEnding' = [pEnding EXCEPT ![c] = @ \ {w}]
      /\ UNCHANGED <<pStage, pLoc, pRem, pPeer, pDirs>>
    BY DEF Deregister
<1>2. /\ StreamTypes /\ pStreams \in SUBSET Conns /\ pCount \in [PPeers -> Nat]
      /\ (\A d \in Conns : ConnInv(d)) /\ p \in PPeers /\ pTags = {q \in PPeers : pCount[q] > 0}
    BY DEF StreamInv, StreamTypes, TagsMatch
<1>3. StreamTypes' /\ OthersKept(c)
    BY <1>1, <1>2 DEF StreamTypes, OthersKept
<1>4. CASE c \notin pStreams
  <2>1. UNCHANGED reg
      BY <1>4 DEF Deregister
  <2>2. ConnInv(c)'
      BY <1>1, <1>2, <1>4, <2>1 DEF ConnInv, StreamTypes, reg
  <2> QED
      BY <1>1, <1>3, <2>1, <2>2, OneConnection
<1>5. CASE c \in pStreams
  <2>1. /\ pStreams' = pStreams \ {c} /\ pCount' = [pCount EXCEPT ![p] = @ - 1]
        /\ pTags' = IF pCount[p] > 1 THEN pTags ELSE pTags \ {p}
      BY <1>5 DEF Deregister
  <2>2. ConnInv(c)'
      BY <1>1, <1>2, <2>1 DEF ConnInv, StreamTypes
  <2>3. \A d \in Conns \ {c} : ConnInv(d)'
      BY <1>1, <1>2, <2>1 DEF ConnInv, StreamTypes
  <2>4. /\ IsFiniteSet(StreamsOf(p)) /\ c \in StreamsOf(p)
        /\ pCount[p] = Cardinality(StreamsOf(p))
        /\ Cardinality(StreamsOf(p) \ {c}) = Cardinality(StreamsOf(p)) - 1
        /\ Cardinality(StreamsOf(p) \ {c}) \in Nat /\ pCount[p] \in Nat
    <3>1. IsFiniteSet(StreamsOf(p)) /\ pCount[p] = Cardinality(StreamsOf(p))
        BY <1>2, StreamsFinite
    <3>2. c \in StreamsOf(p)
        BY <1>5 DEF StreamsOf
    <3>3. /\ IsFiniteSet(StreamsOf(p) \ {c})
          /\ Cardinality(StreamsOf(p) \ {c}) = Cardinality(StreamsOf(p)) - 1
        BY <3>1, <3>2, FS_RemoveElement
    <3>4. Cardinality(StreamsOf(p) \ {c}) \in Nat
        BY <3>3, FS_CardinalityType
    <3> QED
        BY <1>2, <3>1, <3>2, <3>3, <3>4
  <2>5. pCount[p] >= 1
      BY SMT, <2>4
  <2>6. pCount' \in [PPeers -> Nat]
      BY SMT, <1>2, <2>1, <2>5
  <2>7. ASSUME NEW q \in PPeers
        PROVE  pCount'[q] = Cardinality({d \in pStreams' : pPeer'[d] = q})
    <3>1. CASE q = p
      <4>1. {d \in pStreams' : pPeer'[d] = q} = StreamsOf(p) \ {c}
          BY <1>1, <2>1, <3>1 DEF StreamsOf
      <4>2. pCount'[q] = pCount[p] - 1
          BY <1>2, <2>1, <3>1
      <4> QED
          BY <2>4, <4>1, <4>2
    <3>2. CASE q # p
      <4>1. {d \in pStreams' : pPeer'[d] = q} = StreamsOf(q)
          BY <1>1, <2>1, <3>2 DEF StreamsOf
      <4>2. pCount'[q] = pCount[q]
          BY <1>2, <2>1, <3>2
      <4> QED
          BY <4>1, <4>2, StreamsFinite
    <3> QED
        BY <3>1, <3>2
  <2>8. pTags' = {q \in PPeers : pCount'[q] > 0}
      BY SMT, <1>2, <2>1, <2>5
  <2> QED
      BY <1>2, <1>3, <2>1, <2>2, <2>3, <2>6, <2>7, <2>8 DEF StreamInv, TagsMatch
<1> QED
    BY <1>4, <1>5

LEMMA StreamNext == StreamInv /\ [PNext]_pVars => StreamInv'
<1> SUFFICES ASSUME StreamInv, [PNext]_pVars PROVE StreamInv'
    OBVIOUS
<1>1. CASE ListenerStep \/ UNCHANGED pVars
  <2>1. UNCHANGED <<ends, reg>>
      BY <1>1 DEF ListenerStep, Forward, RegisterLocal, CloseLocal, CloseSocket, Listen, CloseProto,
                  pVars
  <2> QED
      BY SMT, <2>1 DEF ends, reg, StreamInv, StreamTypes, ConnInv, TagsMatch
<1>2. ASSUME NEW c \in Conns, ConnStep(c) PROVE StreamInv'
    BY <1>2, StreamEnters, StreamSetUp, StreamCloses, StreamRegisters, StreamDeregisters
    DEF ConnStep, DeregisterSome
<1> QED
    BY <1>1, <1>2, StreamSteps

\* The registry counts a peer's streams and tags the peer while it has one, a stream that
\* has left it is closed at both ends, and no bound socket is lost, for any number of
\* listeners, streams and peers, in whatever order the closers of a stream arrive
\* (StreamRegistry, Stream.close, Listeners.Close, startStreaming).
THEOREM StreamsKept == PSpec => []StreamsAccounted
<1>1. ASSUME PInit PROVE SocketInv /\ StreamInv
  <2>1. SocketInv
      BY <1>1 DEF PInit, SocketInv, NoOrphanSocket
  <2>2. (CHOOSE p \in PPeers : TRUE) \in PPeers
      BY StreamsAssumption
  <2>3. StreamTypes /\ pStreams \in SUBSET Conns /\ pCount \in [PPeers -> Nat]
      BY <1>1, <2>2 DEF PInit, StreamTypes, Stages, EndStates
  <2>4. \A c \in Conns : ConnInv(c)
      BY <1>1 DEF PInit, ConnInv
  <2>5. \A p \in PPeers : {c \in pStreams : pPeer[c] = p} = {} /\ pCount[p] = 0
      BY <1>1 DEF PInit
  <2>6. TagsMatch
      BY SMT, <1>1, <2>5, FS_EmptySet DEF PInit, TagsMatch
  <2> QED
      BY <2>1, <2>3, <2>4, <2>6 DEF StreamInv
<1>2. SocketInv /\ StreamInv => StreamsAccounted
    BY DEF SocketInv, StreamInv, ConnInv, StreamsAccounted, LeftMeansClosed
<1> QED
    BY <1>1, <1>2, SocketNext, StreamNext, PTL DEF PSpec

-----------------------------------------------------------------------------
(* The bootstrapper.                                                       *)

\* A round dials and fails only what it set out to dial, dials nothing when it is not
\* dialling, and has done its work when it comes to the channel.
RoundInv ==
    /\ bRound \in [Rounds -> {"idle", "choose", "dial", "wait", "over"}]
    /\ bDial \in [Rounds -> SUBSET BPeers] /\ bAim \in [Rounds -> SUBSET BPeers]
    /\ bFailed \in [Rounds -> SUBSET BPeers]
    /\ bResult \in [Rounds -> {"none", "enough", "nobody", "ok", "error"}]
    /\ \A r \in Rounds :
          /\ bDial[r] \subseteq bAim[r] /\ bFailed[r] \subseteq bAim[r]
          /\ bRound[r] # "dial" => bDial[r] = {}
          /\ bRound[r] \in {"wait", "over"} => bComplete
          /\ bCall = "none" => bRound[r] = "idle"
    /\ RoundsDone

LEMMA RoundChosen ==
    ASSUME RoundInv, NEW r \in Rounds, bootstrapRound(r)
    PROVE  RoundInv'
<1> USE DEF RoundInv, RoundsDone, WaitsForRound, FailureMeansNone
<1>1. bRound[r] = "choose" /\ UNCHANGED <<bCall, bConn, bOpen, bTicks>>
    BY DEF bootstrapRound
<1>2. ASSUME NEW result \in {"enough", "nobody"}, RoundDone(r, result),
             UNCHANGED <<bDial, bFailed, bAim>>
      PROVE  RoundInv'
    BY <1>1, <1>2 DEF RoundDone
<1>3. ASSUME NEW s \in SUBSET BPeers,
             bDial' = [bDial EXCEPT ![r] = s], bAim' = [bAim EXCEPT ![r] = s],
             bFailed' = [bFailed EXCEPT ![r] = {}], bRound' = [bRound EXCEPT ![r] = "dial"],
             UNCHANGED <<bResult, bComplete>>
      PROVE  RoundInv'
    BY <1>1, <1>3
<1>4. \A n, m : randomSubsetOfPeers(n, m) \subseteq SUBSET n
    BY DEF randomSubsetOfPeers
<1> QED
    BY SMT, <1>2, <1>3, <1>4 DEF bootstrapRound

LEMMA RoundConnects ==
    ASSUME RoundInv, NEW r \in Rounds, NEW p \in BPeers, Connect(r, p)
    PROVE  RoundInv'
<1> USE DEF RoundInv, RoundsDone, WaitsForRound, FailureMeansNone
<1>1. /\ p \in bDial[r] /\ bDial' = [bDial EXCEPT ![r] = @ \ {p}]
      /\ UNCHANGED <<bCall, bRound, bAim, bResult, bComplete>> /\ bRound[r] = "dial"
    BY DEF Connect
<1>2. CASE UNCHANGED bFailed
    BY <1>1, <1>2
<1>3. CASE bFailed' = [bFailed EXCEPT ![r] = @ \cup {p}]
    BY SMT, <1>1, <1>3
<1> QED
    BY <1>2, <1>3 DEF Connect

LEMMA RoundConnected ==
    ASSUME RoundInv, NEW r \in Rounds, ConnectsDone(r)
    PROVE  RoundInv'
<1> USE DEF RoundInv, RoundsDone, WaitsForRound, FailureMeansNone
<1> DEFINE result == IF AllFailed(r) THEN "error" ELSE "ok"
<1>1. /\ bRound[r] = "dial" /\ bDial[r] = {} /\ UNCHANGED <<bCall, bDial, bFailed, bAim>>
      /\ bRound' = [bRound EXCEPT ![r] = "wait"] /\ bResult' = [bResult EXCEPT ![r] = result]
      /\ bComplete' = TRUE
    BY DEF ConnectsDone, RoundDone
<1>2. result \in {"ok", "error"}
    OBVIOUS
<1>3. result = "error" => bFailed[r] = bAim[r]
  <2>1. IsFiniteSet(bAim[r])
      BY FS_Subset, BPeersAssumption
  <2> QED
      BY <2>1, FS_Subset DEF AllFailed
<1> HIDE DEF result
<1> QED
    BY <1>1, <1>2, <1>3

LEMMA RoundNext == RoundInv /\ [BNext]_bVars => RoundInv'
<1> SUFFICES ASSUME RoundInv, [BNext]_bVars PROVE RoundInv'
    OBVIOUS
<1>1. CASE RoundSteps
  <2>1. ASSUME NEW r \in Rounds, PassGate(r) PROVE RoundInv'
      BY <2>1 DEF PassGate, RoundInv, RoundsDone, WaitsForRound, FailureMeansNone
  <2> QED
      BY <1>1, <2>1, RoundChosen, RoundConnects, RoundConnected DEF RoundSteps
<1> USE DEF RoundInv, RoundsDone, WaitsForRound, FailureMeansNone
<1>2. CASE Bootstrap
  <2>1. "now" \in Rounds
      BY DEF Rounds
  <2> QED
      BY <1>2, <2>1 DEF Bootstrap
<1>3. CASE Tick
  <2>1. /\ bCall # "none" /\ "tick" \in Rounds /\ bRound["tick"] \in {"idle", "over"}
        /\ bRound' = [bRound EXCEPT !["tick"] = "choose"]
        /\ UNCHANGED <<bCall, bDial, bFailed, bAim, bResult, bConn, bOpen, bComplete>>
      BY <1>3 DEF Tick, Rounds
  <2> QED
      BY <2>1
<1>4. CASE CallSteps
    BY SMT, <1>4 DEF CallSteps, RoutingStarts, SendToRound
<1>5. CASE Churn
    BY <1>5 DEF Churn
<1>6. CASE UNCHANGED bVars
    BY <1>6 DEF bVars
<1> QED
    BY <1>1, <1>2, <1>3, <1>4, <1>5, <1>6 DEF BNext

\* Bootstrap returns only after a first round has done its work, and a round fails only when
\* every peer it dialled did, for any list of peers, any threshold and any number of ticks
\* (doneWithRound, bootstrapConnect).
THEOREM RoundsComplete == BSpec => []RoundsDone
<1>1. BInit => RoundInv
    BY SMT DEF BInit, RoundInv, RoundsDone, WaitsForRound, FailureMeansNone
<1>2. RoundInv => RoundsDone
    BY DEF RoundInv
<1> QED
    BY <1>1, <1>2, RoundNext, PTL DEF BSpec
=============================================================================
