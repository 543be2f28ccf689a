----------------------------- MODULE GCService -----------------------------
(***************************************************************************)
(* Who asks for a garbage collection and how it answers: the periodic      *)
(* collection with its watermark and `ipfs repo gc`                        *)
(* (core/corerepo/gc.go, core/commands/repo.go) on one side, the goroutine *)
(* of gc.GC that marks, deletes and sends its results into a buffered      *)
(* channel on the other (gc/gc.go).  What mark and sweep may delete is the *)
(* subject of Collector; here a block is either garbage or not.            *)
(***************************************************************************)
EXTENDS FiniteSets, Integers, Sequences

CONSTANTS Garbage,     \* blocks that no pin protects
          OutCap,      \* capacity of the output channel (128 in the code)
          Word,        \* uint64 arithmetic: modulo Word
          Maxes,       \* values of Datastore.StorageMax
          Watermarks,  \* values of Datastore.StorageGCWatermark
          Usages,      \* what GetStorageUsage returns
          Offsets,     \* what a caller of ConditionalGC is about to store
          MaxRounds    \* bound: collections

ASSUME GcAssumption ==
    /\ Word \in Nat \ {0}
    /\ Maxes \subseteq Nat /\ Watermarks \subseteq Nat /\ Usages \subseteq Nat

VARIABLES gcConf,    \* what NewGC computed: [max, gc, wm]
          gcUsage,   \* what the repository takes up
          gcReq,     \* who waits for a collection: "none", "periodic", "collect" or "stream"
          gcTold,    \* errors the requester received
          gcAns,     \* how the last request ended: "none", "ok", "error", "hung", or "unheard"
                     \* (without an error, after its context was cancelled)
          gcRun,     \* where the goroutine of gc.GC is
          gcOut,     \* the output channel
          gcClosed,  \* it is closed
          gcLeft,    \* garbage not deleted yet
          gcKept,    \* garbage whose deletion failed
          gcDone,    \* the context of the request is cancelled
          gcHeld,    \* the GC lock is held
          gcRounds

gcVars == <<gcConf, gcUsage, gcReq, gcTold, gcAns, gcRun, gcOut, gcClosed, gcLeft, gcKept, gcDone, gcHeld, gcRounds>>
chan == <<gcOut, gcClosed>>
sweep == <<gcLeft, gcKept>>

NoConf == [max |-> 0, wm |-> 0, gc |-> 0]

GcInit ==
    /\ gcConf = NoConf /\ gcUsage = 0
    /\ gcReq = "none" /\ gcTold = 0 /\ gcAns = "none"
    /\ gcRun = "none" /\ gcOut = <<>> /\ gcClosed = FALSE
    /\ gcLeft = Garbage /\ gcKept = {}
    /\ gcDone = FALSE /\ gcHeld = FALSE /\ gcRounds = 0

-----------------------------------------------------------------------------
(* The watermark.                                                          *)

StorageGC(max, wm) == ((max * wm) % Word) \div 100

ExceedsMax(usage, offset, limit) == usage > limit + offset   \* mutant: the offset on the wrong side

Exceeds(usage, offset, limit) == (usage + offset) % Word > limit

\* NewGC, with the defaults it fills in already in the config.
NewGC ==
    /\ gcConf = NoConf
    /\ \E m \in Maxes, w \in Watermarks : gcConf' = [max |-> m, wm |-> w, gc |-> StorageGC(m, w)]
    /\ UNCHANGED <<gcUsage, gcReq, gcTold, gcAns, gcRun, chan, sweep, gcDone, gcHeld, gcRounds>>

\* Blocks are added between collections.
Grow ==
    /\ gcReq = "none" /\ gcRun = "none"
    /\ gcUsage' \in Usages /\ gcUsage' # gcUsage
    /\ UNCHANGED <<gcConf, gcReq, gcTold, gcAns, gcRun, chan, sweep, gcDone, gcHeld, gcRounds>>

-----------------------------------------------------------------------------
(* Requests.                                                               *)

\* gc.GC takes the lock before it returns the channel.
GC(who) ==
    /\ gcRounds < MaxRounds /\ gcRounds' = gcRounds + 1
    /\ gcReq' = who /\ gcTold' = 0 /\ gcAns' = "none"
    /\ gcRun' = "mark" /\ gcOut' = <<>> /\ gcClosed' = FALSE
    /\ gcLeft' = Garbage /\ gcKept' = {}
    /\ gcDone' = FALSE /\ gcHeld' = TRUE
    /\ UNCHANGED <<gcConf, gcUsage>>

Idle == gcReq = "none" /\ gcRun = "none" /\ gcAns # "hung"

\* GarbageCollect fails before it starts: nothing but an error is returned.
Refused(ans) ==
    /\ gcRounds < MaxRounds /\ gcRounds' = gcRounds + 1
    /\ gcAns' = ans
    /\ UNCHANGED <<gcConf, gcUsage, gcReq, gcTold, gcRun, chan, sweep, gcDone, gcHeld>>

\* PeriodicGC: the timer fires; maybeGC compares and collects.
MaybeGC(offset) ==
    /\ gcConf # NoConf /\ Idle
    /\ Exceeds(gcUsage, offset, gcConf.gc)
    /\ GC("periodic") \/ Refused("error")

\* ConditionalGC, for a caller about to store that much (exported; its two callers
\* are commented out).
ConditionalGC == \E o \in Offsets : MaybeGC(o)

\* GarbageCollectAsync: when the root of the file system cannot be read, the
\* error is sent into an unbuffered channel that is not returned yet.
GarbageCollectAsync(mode) == Idle /\ (GC(mode) \/ Refused("hung"))

RepoGc == \E mode \in {"collect", "stream"} : GarbageCollectAsync(mode)

\* The client goes away, or the daemon stops: the context is cancelled.
ClientGone ==
    /\ gcReq # "none" /\ ~gcDone
    /\ gcDone' = TRUE
    /\ UNCHANGED <<gcConf, gcUsage, gcReq, gcTold, gcAns, gcRun, chan, sweep, gcHeld, gcRounds>>

-----------------------------------------------------------------------------
(* The goroutine of gc.GC.                                                 *)

\* select { case output <- x: case <-ctx.Done(): }
Sent(x) == Len(gcOut) < OutCap /\ gcOut' = Append(gcOut, x)
Dropped == gcDone /\ UNCHANGED gcOut
Send(x) == (Sent(x) \/ Dropped) /\ UNCHANGED gcClosed

Mark ==
    /\ gcRun = "mark"
    /\ gcRun' = "sweep"
    /\ UNCHANGED <<chan, sweep, gcHeld>>

MarkErrorSilent ==   \* mutant: the goroutine ends without a word
    /\ gcRun = "mark"
    /\ gcRun' = "unlock"
    /\ UNCHANGED <<chan, sweep, gcHeld>>

\* ColoredSet or AllKeysChan fails.
MarkError ==
    /\ gcRun = "mark"
    /\ Send("error")
    /\ gcRun' = "unlock"
    /\ UNCHANGED <<sweep, gcHeld>>

\* One key of the sweep that is not marked.
Delete(k) ==
    /\ gcRun = "sweep" /\ k \in gcLeft
    /\ gcLeft' = gcLeft \ {k} /\ UNCHANGED gcKept
    /\ \/ Sent("key") /\ UNCHANGED gcRun
       \/ Dropped /\ gcRun' = "report"
    /\ UNCHANGED <<gcClosed, gcHeld>>

\* DeleteBlock fails: non-fatal, remembered in `errors`.
DeleteError(k) ==
    /\ gcRun = "sweep" /\ k \in gcLeft
    /\ gcLeft' = gcLeft \ {k} /\ gcKept' = gcKept \cup {k}
    /\ \/ Sent("error") /\ UNCHANGED gcRun
       \/ Dropped /\ gcRun' = "report"
    /\ UNCHANGED <<gcClosed, gcHeld>>

\* The loop ends with the keys, or when the context is done.
SweepEnd ==
    /\ gcRun = "sweep" /\ (gcLeft = {} \/ gcDone)
    /\ gcRun' = "report"
    /\ UNCHANGED <<chan, sweep, gcHeld>>

ReportBlocking ==   \* mutant: the send does not look at ctx.Done
    /\ gcRun = "report"
    /\ IF gcKept = {} THEN UNCHANGED chan ELSE Sent("error") /\ UNCHANGED gcClosed
    /\ gcRun' = "compact"
    /\ UNCHANGED <<sweep, gcHeld>>

\* ErrCannotDeleteSomeBlocks.
Report ==
    /\ gcRun = "report"
    /\ IF gcKept = {} THEN gcRun' = "compact" /\ UNCHANGED chan
       ELSE \/ Sent("error") /\ gcRun' = "compact" /\ UNCHANGED gcClosed
            \/ Dropped /\ gcRun' = "unlock" /\ UNCHANGED gcClosed
    /\ UNCHANGED <<sweep, gcHeld>>

\* CollectGarbage of the datastore, if it has one.
Compact ==
    /\ gcRun = "compact"
    /\ UNCHANGED chan \/ Send("error")
    /\ gcRun' = "unlock"
    /\ UNCHANGED <<sweep, gcHeld>>

CloseBeforeUnlock ==   \* mutant: the deferred calls in the other order
    /\ gcRun = "unlock"
    /\ gcClosed' = TRUE
    /\ gcRun' = "close"
    /\ UNCHANGED <<gcOut, sweep, gcHeld>>

\* The deferred calls, last one first: Unlock, close(output), cancel.
Unlock ==
    /\ gcRun = "unlock"
    /\ gcHeld' = FALSE
    /\ gcRun' = "close"
    /\ UNCHANGED <<chan, sweep>>

CloseOutput ==
    /\ gcRun = "close"
    /\ gcClosed' = TRUE
    /\ gcRun' = "none"
    /\ UNCHANGED <<gcOut, sweep, gcHeld>>

Collector ==
    /\ \/ Mark \/ MarkError \/ (\E k \in Garbage : Delete(k) \/ DeleteError(k))
       \/ SweepEnd \/ Report \/ Compact \/ Unlock \/ CloseOutput
    /\ UNCHANGED <<gcConf, gcUsage, gcReq, gcTold, gcAns, gcDone, gcRounds>>

-----------------------------------------------------------------------------
(* The reader of the channel.                                              *)

\* The request ends; net/http cancels its context.
Answer(ans) ==
    /\ gcAns' = ans /\ gcReq' = "none" /\ gcDone' = TRUE
    /\ UNCHANGED <<gcConf, gcUsage, gcTold, gcRun, chan, sweep, gcHeld, gcRounds>>

Receive ==
    /\ gcReq # "none" /\ gcOut # <<>>
    /\ gcOut' = Tail(gcOut)
    /\ gcTold' = gcTold + (IF Head(gcOut) = "error" THEN 1 ELSE 0)
    /\ UNCHANGED <<gcConf, gcUsage, gcReq, gcAns, gcRun, gcClosed, sweep, gcDone, gcHeld, gcRounds>>

\* The channel is closed and empty: the errors collected so far are the answer.
CollectResult ==
    /\ gcReq # "none" /\ gcOut = <<>> /\ gcClosed
    /\ Answer(IF gcTold > 0 THEN "error" ELSE IF gcDone THEN "unheard" ELSE "ok")

\* CollectResult returns when the context is done; the streaming loop of repo gc
\* does not look at it and returns when the client cannot be written to.
Abandon == gcReq # "none" /\ gcDone /\ (gcReq = "stream" => gcOut # <<>>) /\ Answer("error")

Reader == Receive \/ CollectResult \/ Abandon

GcNext == NewGC \/ Grow \/ MaybeGC(0) \/ ConditionalGC \/ RepoGc \/ ClientGone \/ Collector \/ Reader

GcFairness == WF_gcVars(Collector) /\ WF_gcVars(Reader)

GcSpec == GcInit /\ [][GcNext]_gcVars
GcFairSpec == GcSpec /\ GcFairness

-----------------------------------------------------------------------------
(* Properties.                                                             *)

\* A collection that ends without an error has deleted all garbage: no failed
\* mark and no failed deletion is lost between the goroutine, its channel and the
\* requester (gc.go, CollectResult).
SilenceMeansClean == gcAns = "ok" => gcLeft = {} /\ gcKept = {}

\* When the requester has its answer and did not walk away, the GC lock is free
\* again: Unlock is deferred after close, so it runs first.
AnsweredMeansUnlocked == gcAns = "ok" => ~gcHeld

\* The comparison of maybeGC agrees with exact arithmetic wherever the products
\* and sums fit the word: collect iff the usage exceeds the watermark's share.
WatermarkExact ==
    gcConf # NoConf =>
        \A o \in Usages : gcConf.max * gcConf.wm < Word /\ gcUsage + o < Word =>
            (Exceeds(gcUsage, o, gcConf.gc) <=> 100 * (gcUsage + o) > gcConf.max * gcConf.wm)

\* Every collection that took the lock gives it back, whatever the client does:
\* a full channel nobody reads does not keep it (the selects on ctx.Done).
LockComesBack == gcHeld ~> ~gcHeld

\* A collection that ends without an error has deleted all garbage and left the GC lock free, and
\* maybeGC asks for one as exact arithmetic would wherever nothing overflows (gc.GC, CollectResult,
\* maybeGC).
CollectionAnswered == SilenceMeansClean /\ AnsweredMeansUnlocked /\ WatermarkExact
=============================================================================
