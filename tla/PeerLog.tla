------------------------------ MODULE PeerLog ------------------------------
(* The event queue of the peerlog plugin (plugin/plugins/peerlog): emit,     *)
(* called by the network's notification goroutines, never blocks and counts  *)
(* what it drops; collectEvents logs the events and, when some were dropped, *)
(* sleeps, drops more of the backlog and reports how many are gone.          *)
EXTENDS Naturals

CONSTANTS EventQueueSize,    \* 64 * 1024 in the code
          BusyDropAmount,    \* an eighth of it
          MaxEvents          \* bound: events emitted in a behaviour

VARIABLES eQueued,     \* events in the channel
          eDropped,    \* droppedCount, atomic
          ePc,         \* collectEvents: top, sleep, drain, add, take, done
          eSeen,       \* its local `dropped`
          eLeft,       \* drops left of this drain
          eReported,   \* ghost: drops reported in the log so far
          eHandled,    \* ghost: events taken for logging
          eEmitted,    \* ghost: calls of emit
          eDone        \* the node's context is done

eVars == <<eQueued, eDropped, ePc, eSeen, eLeft, eReported, eHandled, eEmitted, eDone>>

EInit ==
    /\ eQueued = 0 /\ eDropped = 0 /\ ePc = "top" /\ eSeen = 0 /\ eLeft = 0
    /\ eReported = 0 /\ eHandled = 0 /\ eEmitted = 0 /\ eDone = FALSE

emit ==
    /\ eEmitted < MaxEvents /\ eEmitted' = eEmitted + 1
    /\ \/ eQueued < EventQueueSize /\ eQueued' = eQueued + 1 /\ UNCHANGED eDropped
       \/ eQueued = EventQueueSize /\ eDropped' = eDropped + 1 /\ UNCHANGED eQueued
    /\ UNCHANGED <<ePc, eSeen, eLeft, eReported, eHandled, eDone>>

\* atomic.SwapUint64 at the top of the loop
SwapDropped ==
    /\ ePc = "top"
    /\ eSeen' = eDropped /\ eDropped' = 0
    /\ ePc' = IF eDropped > 0 THEN "sleep" ELSE "take"
    /\ UNCHANGED <<eQueued, eLeft, eReported, eHandled, eEmitted, eDone>>

WakeUp ==
    /\ ePc = "sleep"
    /\ ePc' = "drain" /\ eLeft' = BusyDropAmount
    /\ UNCHANGED <<eQueued, eDropped, eSeen, eReported, eHandled, eEmitted, eDone>>

DrainUncounted ==   \* mutant: dropped++ is missing
    /\ ePc = "drain" /\ eLeft > 0 /\ eQueued > 0
    /\ eQueued' = eQueued - 1 /\ eLeft' = eLeft - 1
    /\ UNCHANGED <<eDropped, ePc, eSeen, eReported, eHandled, eEmitted, eDone>>

Drain ==
    /\ ePc = "drain" /\ eLeft > 0 /\ eQueued > 0
    /\ eQueued' = eQueued - 1 /\ eSeen' = eSeen + 1 /\ eLeft' = eLeft - 1
    /\ UNCHANGED <<eDropped, ePc, eReported, eHandled, eEmitted, eDone>>

\* The backlog is empty or the share is drained: add what was dropped in the
\* mean time, and report.
ReportDropped ==
    /\ ePc = "drain" /\ (eLeft = 0 \/ eQueued = 0)
    /\ eReported' = eReported + eSeen + eDropped
    /\ eDropped' = 0 /\ eSeen' = 0 /\ ePc' = "take"
    /\ UNCHANGED <<eQueued, eLeft, eHandled, eEmitted, eDone>>

TakeAndStop ==   \* mutant: an event that cannot be logged ends the loop
    /\ ePc = "take" /\ eQueued > 0
    /\ eQueued' = eQueued - 1 /\ eHandled' = eHandled + 1
    /\ ePc' \in {"top", "done"}
    /\ UNCHANGED <<eDropped, eSeen, eLeft, eReported, eEmitted, eDone>>

\* An event is logged, or skipped when the peer store has no agent version.
TakeEvent ==
    /\ ePc = "take" /\ eQueued > 0
    /\ eQueued' = eQueued - 1 /\ eHandled' = eHandled + 1
    /\ ePc' = "top"
    /\ UNCHANGED <<eDropped, eSeen, eLeft, eReported, eEmitted, eDone>>

NodeStops ==
    /\ eDone' = TRUE
    /\ UNCHANGED <<eQueued, eDropped, ePc, eSeen, eLeft, eReported, eHandled, eEmitted>>

\* case <-ctx.Done() of the two selects
Leave ==
    /\ eDone /\ ePc \in {"sleep", "take"}
    /\ ePc' = "done"
    /\ UNCHANGED <<eQueued, eDropped, eSeen, eLeft, eReported, eHandled, eEmitted, eDone>>

ECollect == SwapDropped \/ WakeUp \/ Drain \/ ReportDropped \/ TakeEvent \/ Leave

ENext == emit \/ NodeStops \/ ECollect

ESpec == EInit /\ [][ENext]_eVars /\ WF_eVars(ECollect)

-----------------------------------------------------------------------------

\* No event is lost without a trace: at every moment each event emitted is in
\* the queue, was taken for logging, was reported as dropped, or is counted
\* and still to be reported, while emit and collectEvents interleave at the
\* two swaps of the counter.
NoSilentLoss == eEmitted = eQueued + eHandled + eReported + eDropped + eSeen

\* Events that stay in the queue are worked off: collectEvents does not stop
\* as long as the node runs.
EBegun == eQueued > 0
EEnded == eQueued = 0 \/ eEmitted < MaxEvents \/ eDone
QueueDrains == EBegun ~> EEnded
=============================================================================
