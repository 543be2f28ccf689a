---------------------------- MODULE Bootstrapper ----------------------------
(* The start of the periodic bootstrapper (core/bootstrap/bootstrap.go and   *)
(* IpfsNode.Bootstrap in core/core.go): one call of Bootstrap, the round it  *)
(* runs at once ("now"), the rounds of the ticker ("tick", one at a time,    *)
(* the ticker waits for its round), the dials of a round, each in a          *)
(* goroutine of its own, and the channel doneWithRound on which every round  *)
(* waits until the routing system has started.                               *)
EXTENDS Naturals, FiniteSets

CONSTANTS BPeers,            \* peers of the Bootstrap list of the configuration
          BOthers,           \* other peers that connect by themselves
          MinPeerThreshold,
          MaxTicks           \* bound: rounds the ticker starts

ASSUME BPeersAssumption == IsFiniteSet(BPeers)

VARIABLES bCall,             \* where Bootstrap is: none, routing, gate, closing, ok
          bRound,            \* round -> idle, choose, dial, wait, over
          bDial,             \* round -> peers being dialled
          bFailed,           \* round -> peers whose dial failed (channel errs)
          bAim,              \* round -> the subset the round set out to dial
          bResult,           \* round -> what bootstrapRound returned
          bConn,             \* connected peers
          bOpen,             \* doneWithRound is closed
          bComplete,         \* ghost: some round has done its work
          bTicks

bVars == <<bCall, bRound, bDial, bFailed, bAim, bResult, bConn, bOpen, bComplete, bTicks>>

Rounds == {"now", "tick"}

BInit ==
    /\ bCall = "none"
    /\ bRound = [r \in Rounds |-> "idle"]
    /\ bDial = [r \in Rounds |-> {}]
    /\ bFailed = [r \in Rounds |-> {}]
    /\ bAim = [r \in Rounds |-> {}]
    /\ bResult = [r \in Rounds |-> "none"]
    /\ bConn = {} /\ bOpen = FALSE /\ bComplete = FALSE /\ bTicks = 0

Bootstrap ==
    /\ bCall = "none"
    /\ bCall' = "routing"
    /\ bRound' = [bRound EXCEPT !["now"] = "choose"]
    /\ UNCHANGED <<bDial, bFailed, bAim, bResult, bConn, bOpen, bComplete, bTicks>>

\* The ticker fires. A round dials for ConnectionTimeout, a third of the
\* period, so the first round has stopped dialling by then. A closing process
\* starts no round.
Tick ==
    /\ bCall \notin {"none", "closing"} /\ bTicks < MaxTicks
    /\ bRound["now"] \in {"wait", "over"} /\ bRound["tick"] \in {"idle", "over"}
    /\ bRound' = [bRound EXCEPT !["tick"] = "choose"]
    /\ bTicks' = bTicks + 1
    /\ UNCHANGED <<bCall, bDial, bFailed, bAim, bResult, bConn, bOpen, bComplete>>

randomSubsetOfPeers(in, max) ==
    LET n == IF max > Cardinality(in) THEN Cardinality(in) ELSE max
    IN {s \in SUBSET in : Cardinality(s) = n}

FinishEarly(r, result) ==   \* mutant: a round with an error does not reach the channel
    /\ bRound' = [bRound EXCEPT ![r] = IF result = "error" THEN "over" ELSE "wait"]
    /\ bResult' = [bResult EXCEPT ![r] = result]
    /\ bComplete' = TRUE

\* The round returned: periodic goes on to <-doneWithRound.
RoundDone(r, result) ==
    /\ bRound' = [bRound EXCEPT ![r] = "wait"]
    /\ bResult' = [bResult EXCEPT ![r] = result]
    /\ bComplete' = TRUE

bootstrapRound(r) ==
    LET notConnected == BPeers \ bConn IN
    /\ bRound[r] = "choose"
    /\ \/ /\ Cardinality(bConn) >= MinPeerThreshold
          /\ RoundDone(r, "enough")
          /\ UNCHANGED <<bDial, bFailed, bAim>>
       \/ /\ Cardinality(bConn) < MinPeerThreshold /\ notConnected = {}
          /\ RoundDone(r, "nobody")
          /\ UNCHANGED <<bDial, bFailed, bAim>>
       \/ /\ Cardinality(bConn) < MinPeerThreshold /\ notConnected # {}
          /\ \E s \in randomSubsetOfPeers(notConnected, MinPeerThreshold - Cardinality(bConn)) :
                bDial' = [bDial EXCEPT ![r] = s] /\ bAim' = [bAim EXCEPT ![r] = s]
          /\ bFailed' = [bFailed EXCEPT ![r] = {}]
          /\ bRound' = [bRound EXCEPT ![r] = "dial"]
          /\ UNCHANGED <<bResult, bComplete>>
    /\ UNCHANGED <<bCall, bConn, bOpen, bTicks>>

\* One goroutine of bootstrapConnect: the peer answers, or the dial fails or
\* runs into the timeout of the round.
Connect(r, p) ==
    /\ p \in bDial[r]
    /\ bDial' = [bDial EXCEPT ![r] = @ \ {p}]
    /\ \/ bConn' = bConn \cup {p} /\ UNCHANGED bFailed
       \/ bFailed' = [bFailed EXCEPT ![r] = @ \cup {p}] /\ UNCHANGED bConn
    /\ UNCHANGED <<bCall, bRound, bAim, bResult, bOpen, bComplete, bTicks>>

AnyFailed(r) == bFailed[r] # {}   \* mutant: one failed dial fails the round

AllFailed(r) == Cardinality(bFailed[r]) = Cardinality(bAim[r])

\* wg.Wait returned: count the errors.
ConnectsDone(r) ==
    /\ bRound[r] = "dial" /\ bDial[r] = {}
    /\ RoundDone(r, IF AllFailed(r) THEN "error" ELSE "ok")
    /\ UNCHANGED <<bCall, bDial, bFailed, bAim, bConn, bOpen, bTicks>>

\* rt.Bootstrap returned. When it fails, Bootstrap closes its process, which
\* waits for every round, and every round waits on doneWithRound: that call
\* never returns, so "closing" has no step out of it.
RoutingStarts ==
    /\ bCall = "routing"
    /\ bCall' \in {"gate", "closing"}
    /\ UNCHANGED <<bRound, bDial, bFailed, bAim, bResult, bConn, bOpen, bComplete, bTicks>>

SendBuffered ==   \* mutant: a buffered channel takes the token with nobody waiting
    /\ bCall = "gate"
    /\ bOpen' = TRUE /\ bCall' = "ok"
    /\ UNCHANGED <<bRound, bDial, bFailed, bAim, bResult, bConn, bComplete, bTicks>>

\* doneWithRound <- struct{}{} meets a waiting round; close(doneWithRound).
SendToRound ==
    /\ bCall = "gate"
    /\ \E r \in Rounds : bRound[r] = "wait" /\ bRound' = [bRound EXCEPT ![r] = "over"]
    /\ bOpen' = TRUE /\ bCall' = "ok"
    /\ UNCHANGED <<bDial, bFailed, bAim, bResult, bConn, bComplete, bTicks>>

\* A round that waits, or comes later, passes the closed channel.
PassGate(r) ==
    /\ bOpen /\ bRound[r] = "wait"
    /\ bRound' = [bRound EXCEPT ![r] = "over"]
    /\ UNCHANGED <<bCall, bDial, bFailed, bAim, bResult, bConn, bOpen, bComplete, bTicks>>

\* The network: peers come and go.
Churn ==
    /\ \/ \E p \in BOthers \ bConn : bConn' = bConn \cup {p}
       \/ \E p \in bConn : bConn' = bConn \ {p}
    /\ UNCHANGED <<bCall, bRound, bDial, bFailed, bAim, bResult, bOpen, bComplete, bTicks>>

RoundSteps ==
    \E r \in Rounds : \/ bootstrapRound(r) \/ ConnectsDone(r) \/ PassGate(r)
                      \/ \E p \in BPeers : Connect(r, p)

CallSteps == RoutingStarts \/ SendToRound

BNext == Bootstrap \/ Tick \/ RoundSteps \/ CallSteps \/ Churn

BSpec == BInit /\ [][BNext]_bVars /\ WF_bVars(RoundSteps) /\ WF_bVars(CallSteps)

-----------------------------------------------------------------------------

\* Bootstrap returns only after a first round has done its work, whatever the
\* order of the round, the routing system and the ticker ("make a signal to
\* wait for one bootstrap round to complete").
WaitsForRound == bCall = "ok" => bComplete

\* A round reports failure only when every peer it set out to dial failed: one
\* connection is a success ("our failure condition is when no connection
\* attempt succeeded").
FailureMeansNone ==
    \A r \in Rounds : bRound[r] = "wait" /\ bResult[r] = "error" => bFailed[r] = bAim[r]

\* Once routing has started, Bootstrap returns: some round always comes to the
\* channel, even when it skips its dials or all of them fail.
BBegun == bCall = "gate"
BEnded == bCall = "ok"
BootstrapReturns == BBegun ~> BEnded

\* Bootstrap returns only after a first round has done its work, and a round fails only when every
\* peer it dialled did (doneWithRound, bootstrapConnect).
RoundsDone == WaitsForRound /\ FailureMeansNone
=============================================================================
