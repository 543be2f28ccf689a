--------------------------- MODULE ServiceProofs ----------------------------
(***************************************************************************)
(* Proofs about the parts of a running daemon: the event queue of the      *)
(* peerlog plugin, repo verify, the collection of garbage on request, and  *)
(* the life of the daemon itself.  Every theorem is the invariant that a   *)
(* run checks on a small instance, here for any number of events, blocks,  *)
(* workers and requests.                                                   *)
(***************************************************************************)
EXTENDS PeerLog, RepoVerify, GCService, Daemon, FiniteSetTheorems, TLAPS

\* Leaves are first-order unless they cite SMT.
USE Zenon

-----------------------------------------------------------------------------
(* The event queue of the peerlog plugin.                                  *)

\* The local counter of collectEvents is empty wherever the next swap overwrites it.
LossInv ==
    /\ eQueued \in Nat /\ eDropped \in Nat /\ eSeen \in Nat
    /\ eReported \in Nat /\ eHandled \in Nat /\ eEmitted \in Nat
    /\ ePc \in {"top", "take"} => eSeen = 0
    /\ NoSilentLoss

LEMMA LossNext == LossInv /\ [ENext]_eVars => LossInv'
<1> SUFFICES ASSUME LossInv, [ENext]_eVars PROVE LossInv'
    OBVIOUS
<1> USE DEF LossInv, NoSilentLoss
<1>1. CASE emit
    BY SMT, <1>1 DEF emit
<1>2. CASE SwapDropped
    BY SMT, <1>2 DEF SwapDropped
<1>3. CASE WakeUp
    BY <1>3 DEF WakeUp
<1>4. CASE Drain
    BY SMT, <1>4 DEF Drain
<1>5. CASE ReportDropped
    BY SMT, <1>5 DEF ReportDropped
<1>6. CASE TakeEvent
    BY SMT, <1>6 DEF TakeEvent
<1>7. CASE NodeStops
    BY <1>7 DEF NodeStops
<1>8. CASE Leave
    BY <1>8 DEF Leave
<1>9. CASE UNCHANGED eVars
    BY <1>9 DEF eVars
<1> QED
    BY <1>1, <1>2, <1>3, <1>4, <1>5, <1>6, <1>7, <1>8, <1>9 DEF ENext, ECollect

\* No event is lost without a trace, for any size of the queue and any number of events:
\* each event emitted is in the queue, was taken for logging, was reported as dropped, or is
\* counted and still to be reported (emit, collectEvents).
THEOREM EventsAccounted == ESpec => []NoSilentLoss
<1>1. EInit => LossInv
    BY SMT DEF EInit, LossInv, NoSilentLoss
<1>2. LossInv => NoSilentLoss
    BY DEF LossInv
<1> QED
    BY <1>1, <1>2, LossNext, PTL DEF ESpec

-----------------------------------------------------------------------------
(* repo verify.                                                            *)

\* The workers that have a key.
Busy == {w \in VWorkers : vWork[w] \in VKeys}

\* Until the request is cancelled each key is still to be handed out, with a worker, or
\* among the results, and so is each bad one; a worker only leaves when no key is left.
VerifyInv ==
    /\ vKeys \in SUBSET VKeys /\ vBad \in SUBSET VKeys
    /\ vWork \in [VWorkers -> VKeys \cup {"take", "gone"}]
    /\ vSeen \in Nat /\ vFails \in Nat /\ vDone \in BOOLEAN
    /\ vSaid \in {"idle", "none", "error", "corrupt", "valid"}
    /\ vSaid = "idle" => vSeen = 0 /\ vFails = 0 /\ ~vDone
    /\ vSaid = "none" /\ ~vDone =>
          /\ vSeen + Cardinality(vKeys) + Cardinality(Busy) = Cardinality(VKeys)
          /\ vFails = 0 => \A k \in vBad : k \in vKeys \/ \E w \in VWorkers : vWork[w] = k
          /\ \A w \in VWorkers : vWork[w] = "gone" => vKeys = {}
    /\ VerifyHonest

LEMMA VerifyStart == VerifyInv /\ StartVerify => VerifyInv'
<1> SUFFICES ASSUME VerifyInv, StartVerify PROVE VerifyInv'
    OBVIOUS
<1>1. /\ vSaid = "idle" /\ vSaid' = "none" /\ vBad' \in SUBSET VKeys /\ vKeys' = VKeys
      /\ vWork' = [w \in VWorkers |-> "take"] /\ UNCHANGED <<vFails, vSeen, vDone>>
      /\ vSeen = 0
    BY DEF StartVerify, VerifyInv
<1>2. Busy' = {}
    BY <1>1, VerifyAssumption DEF Busy
<1>3. Cardinality(Busy') = 0 /\ Cardinality(VKeys) \in Nat
    BY <1>2, FS_EmptySet, FS_CardinalityType, VerifyAssumption
<1>4. vSeen' + Cardinality(vKeys') + Cardinality(Busy') = Cardinality(VKeys)
    BY SMT, <1>1, <1>3
<1> QED
    BY <1>1, <1>4, VerifyAssumption DEF VerifyInv, VerifyHonest

LEMMA VerifyTake ==
    ASSUME VerifyInv, NEW w \in VWorkers, TakeKey(w)
    PROVE  VerifyInv'
<1> USE DEF VerifyInv
<1>1. vWork[w] = "take" /\ UNCHANGED <<vBad, vFails, vSeen, vDone, vSaid>>
    BY DEF TakeKey
<1>2. IsFiniteSet(Busy) /\ IsFiniteSet(vKeys) /\ w \notin Busy
    BY <1>1, FS_Subset, VerifyAssumption DEF Busy
<1>3. CASE \E k \in vKeys : vKeys' = vKeys \ {k} /\ vWork' = [vWork EXCEPT ![w] = k]
  <2>1. PICK k \in vKeys : vKeys' = vKeys \ {k} /\ vWork' = [vWork EXCEPT ![w] = k]
      BY <1>3
  <2>2. /\ vWork' \in [VWorkers -> VKeys \cup {"take", "gone"}] /\ vWork'[w] = k
        /\ \A v \in VWorkers \ {w} : vWork'[v] = vWork[v]
      BY <2>1
  <2>3. Busy' = Busy \cup {w}
      BY SMT, <2>1, <2>2 DEF Busy
  <2>4. Cardinality(Busy') = Cardinality(Busy) + 1 /\ Cardinality(Busy) \in Nat
      BY <1>2, <2>3, FS_AddElement, FS_CardinalityType
  <2>5. Cardinality(vKeys') = Cardinality(vKeys) - 1 /\ Cardinality(vKeys) \in Nat
      BY <1>2, <2>1, FS_RemoveElement, FS_CardinalityType
  <2>6. vSeen' + Cardinality(vKeys') + Cardinality(Busy')
            = vSeen + Cardinality(vKeys) + Cardinality(Busy)
      BY SMT, <1>1, <2>4, <2>5
  <2>7. \A x : x \in vKeys \/ (\E v \in VWorkers : vWork[v] = x)
                => x = "take" \/ x \in vKeys' \/ \E v \in VWorkers : vWork'[v] = x
      BY <1>1, <2>1, <2>2
  <2>8. vSaid = "none" /\ ~vDone => \A v \in VWorkers : vWork'[v] = "gone" => vKeys' = {}
      BY SMT, <2>1, <2>2, VerifyAssumption
  <2> QED
      BY SMT, <1>1, <2>1, <2>2, <2>6, <2>7, <2>8, VerifyAssumption DEF VerifyHonest
<1>4. CASE (vKeys = {} \/ vDone) /\ vWork' = [vWork EXCEPT ![w] = "gone"] /\ vKeys' = vKeys
  <2>1. /\ vWork' \in [VWorkers -> VKeys \cup {"take", "gone"}] /\ vWork'[w] = "gone"
        /\ \A v \in VWorkers \ {w} : vWork'[v] = vWork[v]
      BY <1>4
  <2>2. Busy' = Busy
      BY SMT, <1>1, <2>1, VerifyAssumption DEF Busy
  <2>3. \A x \in VKeys : (\E v \in VWorkers : vWork[v] = x) => \E v \in VWorkers : vWork'[v] = x
      BY SMT, <1>1, <2>1, VerifyAssumption
  <2> QED
      BY <1>1, <1>4, <2>1, <2>2, <2>3 DEF VerifyHonest
<1> QED
    BY <1>3, <1>4 DEF TakeKey

LEMMA VerifyHand ==
    ASSUME VerifyInv, NEW w \in VWorkers, Hand(w)
    PROVE  VerifyInv'
<1> USE DEF VerifyInv
<1>1. /\ vWork[w] \in VKeys /\ vSaid = "none" /\ vSeen' = vSeen + 1
      /\ vFails' = vFails + (IF vWork[w] \in vBad THEN 1 ELSE 0)
      /\ vWork' = [vWork EXCEPT ![w] = "take"] /\ UNCHANGED <<vBad, vKeys>>
      /\ \/ UNCHANGED <<vDone, vSaid>>
         \/ vDone' = TRUE /\ vSaid' = "error"
    BY DEF Hand
<1>2. IsFiniteSet(Busy) /\ w \in Busy
    BY <1>1, FS_Subset, VerifyAssumption DEF Busy
<1>3. /\ vWork' \in [VWorkers -> VKeys \cup {"take", "gone"}] /\ vWork'[w] = "take"
      /\ \A v \in VWorkers \ {w} : vWork'[v] = vWork[v]
    BY <1>1
<1>4. Busy' = Busy \ {w}
    BY <1>1, <1>3, VerifyAssumption DEF Busy
<1>5. Cardinality(Busy') = Cardinality(Busy) - 1 /\ Cardinality(Busy) \in Nat
    BY <1>2, <1>4, FS_RemoveElement, FS_CardinalityType
<1>6. Cardinality(vKeys) \in Nat
    BY FS_Subset, FS_CardinalityType, VerifyAssumption
<1>7. vSeen' + Cardinality(vKeys') + Cardinality(Busy')
          = vSeen + Cardinality(vKeys) + Cardinality(Busy)
    BY SMT, <1>1, <1>5, <1>6
<1>8. vFails' = 0 => vFails = 0 /\ vWork[w] \notin vBad
    BY SMT, <1>1
<1>9. vFails' = 0 =>
          \A k \in vBad : (\E v \in VWorkers : vWork[v] = k) => \E v \in VWorkers : vWork'[v] = k
    BY <1>3, <1>8
<1>10. \A v \in VWorkers : vWork'[v] = "gone" => vWork[v] = "gone"
    BY <1>3
<1>11. CASE UNCHANGED <<vDone, vSaid>>
  <2>1. ASSUME ~vDone
        PROVE  /\ vSeen' + Cardinality(vKeys') + Cardinality(Busy') = Cardinality(VKeys)
               /\ vFails' = 0 => \A k \in vBad : k \in vKeys \/ \E v \in VWorkers : vWork'[v] = k
               /\ \A v \in VWorkers : vWork'[v] = "gone" => vKeys = {}
      BY <1>1, <1>7, <1>8, <1>9, <1>10, <2>1
  <2> QED
      BY SMT, <1>1, <1>3, <1>11, <2>1 DEF VerifyHonest
<1>12. CASE vDone' = TRUE /\ vSaid' = "error"
    BY SMT, <1>1, <1>3, <1>12 DEF VerifyHonest
<1> QED
    BY <1>1, <1>11, <1>12

LEMMA VerifyOver == VerifyInv /\ VerifyEnds => VerifyInv'
<1> SUFFICES ASSUME VerifyInv, VerifyEnds PROVE VerifyInv'
    OBVIOUS
<1> USE DEF VerifyInv
<1>1. /\ vSaid = "none" /\ (\A w \in VWorkers : vWork[w] = "gone") /\ vSaid' = Verdict
      /\ vDone' = TRUE /\ UNCHANGED <<vBad, vKeys, vWork, vFails, vSeen>>
    BY DEF VerifyEnds
<1>2. vSaid' \in {"error", "corrupt", "valid"}
    BY <1>1 DEF Verdict
<1>3. ASSUME vSaid' = "valid" PROVE vSeen = Cardinality(VKeys) /\ vBad = {}
  <2>1. ~vDone /\ vFails = 0
      BY <1>1, <1>3 DEF Verdict
  <2>2. vKeys = {}
      BY <1>1, <2>1, VerifyAssumption
  <2>3. Busy = {}
      BY <1>1, VerifyAssumption DEF Busy
  <2>4. Cardinality(vKeys) = 0 /\ Cardinality(Busy) = 0
      BY <2>2, <2>3, FS_EmptySet
  <2>5. vSeen = Cardinality(VKeys)
      BY SMT, <1>1, <2>1, <2>4
  <2>6. vBad = {}
      BY <1>1, <2>1, <2>2, VerifyAssumption
  <2> QED
      BY <2>5, <2>6
<1> QED
    BY <1>1, <1>2, <1>3 DEF VerifyHonest

LEMMA VerifyNext == VerifyInv /\ [VNext]_vVars => VerifyInv'
<1> SUFFICES ASSUME VerifyInv, [VNext]_vVars PROVE VerifyInv'
    OBVIOUS
<1>1. ASSUME NEW w \in VWorkers, GiveUp(w) PROVE VerifyInv'
    BY <1>1 DEF GiveUp, VerifyInv, VerifyHonest
<1>2. CASE Cancel
    BY <1>2 DEF Cancel, VerifyInv, VerifyHonest
<1>3. CASE UNCHANGED vVars
    BY <1>3 DEF vVars, VerifyInv, VerifyHonest, Busy
<1> QED
    BY <1>1, <1>2, <1>3, VerifyStart, VerifyTake, VerifyHand, VerifyOver DEF VNext, Worker

\* "verify complete, all blocks validated." is said only when every block was read and none
\* was bad, for any number of blocks and workers and a cancellation at any time.
THEOREM VerdictHonest == VSpec => []VerifyHonest
<1>1. ASSUME VInit PROVE VerifyInv
  <2>1. vWork \in [VWorkers -> VKeys \cup {"take", "gone"}]
      BY <1>1 DEF VInit
  <2> QED
      BY <1>1, <2>1 DEF VInit, VerifyInv, VerifyHonest
<1>2. VerifyInv => VerifyHonest
    BY DEF VerifyInv
<1> QED
    BY <1>1, <1>2, VerifyNext, PTL DEF VSpec

-----------------------------------------------------------------------------
(* Collections on request.                                                 *)

\* The requester has received an error, or will.
Heard == gcTold > 0 \/ \E i \in 1 .. Len(gcOut) : gcOut[i] = "error"

\* Unless the request was cancelled, garbage that stays was or will be reported; the channel
\* is closed last, after the lock is given back.
AnswerInv ==
    /\ gcOut \in Seq({"key", "error"}) /\ gcTold \in Nat
    /\ gcClosed => gcRun = "none"
    /\ gcRun \in {"none", "close"} => ~gcHeld
    /\ gcReq # "none" /\ ~gcDone =>
          /\ gcKept # {} => Heard
          /\ gcRun \in {"report", "compact", "unlock", "close", "none"} => gcLeft = {} \/ Heard
    /\ gcAns = "ok" => gcRun = "none" /\ gcLeft = {} /\ gcKept = {}

LEMMA HeardSent ==
    ASSUME gcOut \in Seq({"key", "error"}), NEW x \in {"key", "error"},
           gcOut' = Append(gcOut, x), UNCHANGED gcTold
    PROVE  gcOut' \in Seq({"key", "error"}) /\ (Heard \/ x = "error" => Heard')
<1>1. /\ gcOut' \in Seq({"key", "error"}) /\ Len(gcOut') = Len(gcOut) + 1
      /\ gcOut'[Len(gcOut) + 1] = x /\ \A i \in 1 .. Len(gcOut) : gcOut'[i] = gcOut[i]
      /\ Len(gcOut) \in Nat
    BY SMT
<1> QED
    BY SMT, <1>1 DEF Heard

LEMMA HeardReceived ==
    ASSUME gcOut \in Seq({"key", "error"}), gcTold \in Nat, gcOut # <<>>, gcOut' = Tail(gcOut),
           gcTold' = gcTold + (IF Head(gcOut) = "error" THEN 1 ELSE 0)
    PROVE  gcOut' \in Seq({"key", "error"}) /\ gcTold' \in Nat /\ (Heard => Heard')
<1>1. /\ gcOut' \in Seq({"key", "error"}) /\ Len(gcOut') = Len(gcOut) - 1 /\ Len(gcOut) \in Nat
      /\ \A i \in 1 .. Len(gcOut) - 1 : gcOut'[i] = gcOut[i + 1]
      /\ Head(gcOut) = gcOut[1]
    BY SMT
<1>2. gcTold' \in Nat
    BY SMT
<1>3. ASSUME NEW i \in 1 .. Len(gcOut), gcOut[i] = "error" PROVE Heard'
  <2>1. CASE i = 1
      BY SMT, <1>1, <1>3, <2>1 DEF Heard
  <2>2. CASE i # 1
    <3>1. i - 1 \in 1 .. Len(gcOut') /\ gcOut'[i - 1] = "error"
        BY SMT, <1>1, <1>3, <2>2
    <3> QED
        BY <3>1 DEF Heard
  <2> QED
      BY <2>1, <2>2
<1>4. gcTold > 0 => Heard'
    BY SMT DEF Heard
<1> QED
    BY <1>1, <1>2, <1>3, <1>4 DEF Heard

LEMMA AnswerCollector == AnswerInv /\ Collector => AnswerInv'
<1> SUFFICES ASSUME AnswerInv, Collector PROVE AnswerInv'
    OBVIOUS
<1> USE DEF AnswerInv
<1>1. UNCHANGED <<gcReq, gcTold, gcAns, gcDone>>
    BY DEF Collector
<1>2. UNCHANGED gcOut => (Heard' <=> Heard)
    BY <1>1 DEF Heard
<1>3. ASSUME NEW x \in {"key", "error"}, Sent(x)
      PROVE  gcOut' \in Seq({"key", "error"}) /\ (Heard \/ x = "error" => Heard')
    BY <1>1, <1>3, HeardSent DEF Sent
<1>4. CASE Mark
    BY <1>1, <1>2, <1>4 DEF Mark, chan, sweep
<1>5. CASE MarkError
    BY <1>1, <1>2, <1>3, <1>5 DEF MarkError, Send, Dropped, sweep
<1>6. ASSUME NEW k \in Garbage, Delete(k) PROVE AnswerInv'
    BY <1>1, <1>2, <1>3, <1>6 DEF Delete, Dropped
<1>7. ASSUME NEW k \in Garbage, DeleteError(k) PROVE AnswerInv'
    BY <1>1, <1>2, <1>3, <1>7 DEF DeleteError, Dropped
<1>8. CASE SweepEnd
    BY <1>1, <1>2, <1>8 DEF SweepEnd, chan, sweep
<1>9. CASE Report
  <2>1. CASE gcKept = {}
      BY <1>1, <1>2, <1>9, <2>1 DEF Report, chan, sweep
  <2>2. CASE gcKept # {}
      BY <1>1, <1>2, <1>3, <1>9, <2>2 DEF Report, Dropped, sweep
  <2> QED
      BY <2>1, <2>2
<1>10. CASE Compact
    BY SMT, <1>1, <1>2, <1>3, <1>10 DEF Compact, Send, Dropped, chan, sweep
<1>11. CASE Unlock
    BY <1>1, <1>2, <1>11 DEF Unlock, chan, sweep
<1>12. CASE CloseOutput
    BY <1>1, <1>2, <1>12 DEF CloseOutput, sweep
<1> QED
    BY <1>4, <1>5, <1>6, <1>7, <1>8, <1>9, <1>10, <1>11, <1>12 DEF Collector

LEMMA AnswerReader == AnswerInv /\ Reader => AnswerInv'
<1> SUFFICES ASSUME AnswerInv, Reader PROVE AnswerInv'
    OBVIOUS
<1> USE DEF AnswerInv
<1>1. CASE Receive
  <2>1. gcOut' \in Seq({"key", "error"}) /\ gcTold' \in Nat /\ (Heard => Heard')
      BY <1>1, HeardReceived DEF Receive
  <2>2. UNCHANGED <<gcReq, gcAns, gcRun, gcClosed, gcLeft, gcKept, gcDone, gcHeld>>
      BY <1>1 DEF Receive, sweep
  <2> QED
      BY <2>1, <2>2
<1>2. CASE CollectResult
  <2> DEFINE ans == IF gcTold > 0 THEN "error" ELSE IF gcDone THEN "unheard" ELSE "ok"
  <2>1. /\ gcReq # "none" /\ gcOut = <<>> /\ gcClosed /\ gcAns' = ans /\ gcReq' = "none"
        /\ UNCHANGED <<gcTold, gcRun, gcOut, gcClosed, gcLeft, gcKept, gcHeld>>
      BY <1>2 DEF CollectResult, Answer, chan, sweep
  <2>2. ans = "ok" => ~Heard /\ ~gcDone
      BY SMT, <2>1 DEF Heard
  <2>3. ans = "ok" => gcLeft = {} /\ gcKept = {}
      BY <2>1, <2>2
  <2> HIDE DEF ans
  <2> QED
      BY <2>1, <2>3
<1>3. CASE Abandon
    BY <1>3 DEF Abandon, Answer, chan, sweep
<1> QED
    BY <1>1, <1>2, <1>3 DEF Reader

LEMMA AnswerRequests ==
    ASSUME AnswerInv, NewGC \/ Grow \/ MaybeGC(0) \/ ConditionalGC \/ RepoGc \/ ClientGone
                          \/ UNCHANGED gcVars
    PROVE  AnswerInv'
<1> USE DEF AnswerInv
<1>1. ASSUME NEW who, GC(who) PROVE AnswerInv'
    BY SMT, <1>1 DEF GC
<1>2. ASSUME NEW ans \in {"error", "hung"}, Refused(ans) PROVE AnswerInv'
    BY <1>2 DEF Refused, chan, sweep, Heard
<1>3. CASE NewGC \/ Grow \/ ClientGone \/ UNCHANGED gcVars
    BY SMT, <1>3 DEF NewGC, Grow, ClientGone, gcVars, chan, sweep, Heard
<1> QED
    BY <1>1, <1>2, <1>3 DEF MaybeGC, ConditionalGC, RepoGc, GarbageCollectAsync

\* What NewGC has computed, if it has run.
ConfInv ==
    /\ gcUsage \in Nat
    /\ gcConf # NoConf =>
          \E m \in Maxes, w \in Watermarks : gcConf = [max |-> m, wm |-> w, gc |-> StorageGC(m, w)]

LEMMA ConfNext == ConfInv /\ [GcNext]_gcVars => ConfInv'
<1> SUFFICES ASSUME ConfInv, [GcNext]_gcVars PROVE ConfInv'
    OBVIOUS
<1> USE DEF ConfInv
<1>1. CASE NewGC
    BY <1>1 DEF NewGC
<1>2. CASE Grow
    BY <1>2, GcAssumption DEF Grow
<1>3. CASE MaybeGC(0) \/ ConditionalGC \/ RepoGc
    BY <1>3 DEF MaybeGC, ConditionalGC, RepoGc, GarbageCollectAsync, GC, Refused
<1>4. CASE ClientGone \/ Collector \/ Reader
    BY <1>4 DEF ClientGone, Collector, Reader, Receive, CollectResult, Abandon, Answer
<1>5. CASE UNCHANGED gcVars
    BY <1>5 DEF gcVars
<1> QED
    BY <1>1, <1>2, <1>3, <1>4, <1>5 DEF GcNext

\* The comparison of maybeGC on words, for a product a and a sum u that fit.
LEMMA ShareExceeded ==
    ASSUME NEW word \in Nat \ {0}, NEW a \in Nat, NEW u \in Nat, a < word, u < word
    PROVE  (u % word > (a % word) \div 100) <=> (100 * u > a)
<1>1. a % word = a /\ u % word = u
    BY SMT
<1>2. (u > a \div 100) <=> (100 * u > a)
    BY SMT
<1> QED
    BY <1>1, <1>2

LEMMA ConfExact == ConfInv => WatermarkExact
<1> SUFFICES ASSUME ConfInv, gcConf # NoConf, NEW o \in Usages,
                    gcConf.max * gcConf.wm < Word, gcUsage + o < Word
             PROVE  Exceeds(gcUsage, o, gcConf.gc)
                        <=> 100 * (gcUsage + o) > gcConf.max * gcConf.wm
    BY DEF WatermarkExact
<1>1. PICK m \in Maxes, w \in Watermarks :
         gcConf = [max |-> m, wm |-> w, gc |-> StorageGC(m, w)]
    BY DEF ConfInv
<1> DEFINE a == m * w
           u == gcUsage + o
<1>2. a \in Nat /\ u \in Nat
    BY SMT, <1>1, GcAssumption DEF ConfInv
<1>3. gcConf.max * gcConf.wm = a /\ gcConf.gc = (a % Word) \div 100
    BY <1>1 DEF StorageGC
<1>4. Exceeds(gcUsage, o, gcConf.gc) <=> u % Word > (a % Word) \div 100
    BY <1>3 DEF Exceeds
<1>5. a < Word /\ u < Word
    BY <1>3
<1> HIDE DEF a, u
<1>6. (u % Word > (a % Word) \div 100) <=> (100 * u > a)
    BY <1>2, <1>5, ShareExceeded, GcAssumption
<1> USE DEF u
<1> QED
    BY <1>3, <1>4, <1>6

\* A collection that ends without an error has deleted all garbage and left the GC lock
\* free, and maybeGC asks for one as exact arithmetic would wherever nothing overflows, for
\* any amount of garbage, any channel and any configuration (gc.GC, CollectResult, maybeGC).
THEOREM CollectionsAnswer == GcSpec => []CollectionAnswered
<1>1. GcInit => AnswerInv /\ ConfInv
    BY SMT DEF GcInit, AnswerInv, ConfInv
<1>2. AnswerInv /\ [GcNext]_gcVars => AnswerInv'
    BY AnswerCollector, AnswerReader, AnswerRequests DEF GcNext
<1>3. AnswerInv /\ ConfInv => CollectionAnswered
    BY ConfExact DEF AnswerInv, CollectionAnswered, SilenceMeansClean, AnsweredMeansUnlocked
<1> QED
    BY <1>1, <1>2, <1>3, ConfNext, PTL DEF GcSpec

-----------------------------------------------------------------------------
(* The daemon.                                                             *)

\* What daemonFunc has done so far, step by step, and what the stop of the node has.
DaemonInv ==
    /\ dSrv \in [Servers -> {"off", "starting", "checked", "serving", "draining", "returned",
                             "ended"}]
    /\ dReq \in [Servers -> {"none", "active"}]
    /\ dPc \in {"init", "open"} => dRepo = "none"
    /\ dPc \in {"init", "open", "node"} => dStop = "none"
    /\ dPc \in {"done", "exited"} => dRepo \in {"none", "closed"}
    /\ dPc \in {"init", "open", "node", "plugins"} => dPlugins = "none"
    /\ dPc = "attach" => dPlugins = "started"
    /\ dPc \in {"api", "mount", "gc", "gateway", "run", "closeNode"} =>
           dPlugins \in {"attached", "closed"}
    /\ dPlugins = "attached" => dStop \notin {"repo", "done"}
    /\ dProc = "closed" <=> dStop \in {"repo", "done"}
    /\ dPc \in {"init", "open", "node", "plugins", "attach", "api"} => dSrv["api"] = "off"
    /\ dPc \in {"init", "open", "node", "plugins", "attach", "api", "mount", "gc", "gateway"} =>
           dSrv["gateway"] = "off"
    /\ \A s \in Servers :
          /\ dSrv[s] \in {"off", "starting", "checked"} => dReq[s] = "none"
          /\ dSrv[s] \in {"returned", "ended"} /\ dReq[s] = "active" => s \in dGrace
    /\ dReady => dPc \in {"run", "closeNode", "closeRepo", "done"} \cup Gone
    /\ dReady /\ dPc \in {"closeNode", "closeRepo", "done", "exited"} =>
           \A s \in Servers : dSrv[s] = "ended"
    /\ RepoReleased /\ PluginsClosed

LEMMA DaemonFuncSteps == DaemonInv /\ DaemonFunc => DaemonInv'
<1> SUFFICES ASSUME DaemonInv, DaemonFunc PROVE DaemonInv'
    OBVIOUS
<1> USE DEF DaemonInv, RepoReleased, PluginsClosed, Goto, Gone, signalVars, nodeVars, serverVars
<1>1. CASE InitRepo
    BY <1>1 DEF InitRepo
<1>2. CASE OpenRepo
    BY <1>2 DEF OpenRepo
<1>3. CASE NodeFails
    BY <1>3 DEF NodeFails
<1>4. CASE NewNode
    BY <1>4 DEF NewNode
<1>5. CASE StartPlugins
    BY <1>5 DEF StartPlugins
<1>6. CASE AttachPlugins
    BY <1>6 DEF AttachPlugins
<1>7. CASE serveHTTPApi
    <2>1. /\ dPc = "api" /\ dPc' \in {"mount", "closeNode"}
          /\ \/ dPc' = "mount" /\ dSrv' = [dSrv EXCEPT !["api"] = "starting"]
             \/ dPc' = "closeNode" /\ dSrv' = dSrv
          /\ dReady' = dReady \/ (dPc' = "mount" /\ dReady' = ("mount" = "run"))
          /\ UNCHANGED <<dReq, dGrace, dRepo, dStop, dProc, dPlugins>>
        BY <1>7 DEF serveHTTPApi, ServeHTTP
    <2>2. "api" \in Servers /\ "gateway" \in Servers
        BY DEF Servers
    <2>3. dSrv' \in [Servers -> {"off", "starting", "checked", "serving", "draining", "returned",
                                "ended"}]
        BY <2>1, <2>2
    <2>4. ~dReady'
        <3>1. ~dReady
            BY <2>1
        <3>2. "mount" # "run"
            OBVIOUS
        <3> QED
            BY <2>1, <3>1, <3>2
    <2> QED
        BY SMT, <2>1, <2>2, <2>3, <2>4
<1>8. CASE mountFuse \/ maybeRunGC
    BY SMT, <1>8 DEF mountFuse, maybeRunGC
<1>9. CASE serveHTTPGateway
    <2>1. /\ dPc = "gateway" /\ dPc' \in {"run", "closeNode"}
          /\ \/ dPc' = "run" /\ dSrv' = [dSrv EXCEPT !["gateway"] = "starting"]
             \/ dPc' = "closeNode" /\ dSrv' = dSrv
          /\ dReady' = dReady \/ (dPc' = "run" /\ dReady' = ("run" = "run"))
          /\ UNCHANGED <<dReq, dGrace, dRepo, dStop, dProc, dPlugins>>
        BY <1>9 DEF serveHTTPGateway, ServeHTTP
    <2>2. "api" \in Servers /\ "gateway" \in Servers
        BY DEF Servers
    <2>3. dSrv' \in [Servers -> {"off", "starting", "checked", "serving", "draining", "returned",
                                "ended"}]
        BY <2>1, <2>2
    <2> QED
        BY SMT, <2>1, <2>2, <2>3
<1>10. CASE Merged
    BY <1>10 DEF Merged
<1>11. CASE CloseNode
    BY <1>11 DEF CloseNode
<1>12. CASE CloseRepo
    BY <1>12 DEF CloseRepo
<1> QED
    BY <1>1, <1>2, <1>3, <1>4, <1>5, <1>6, <1>7, <1>8, <1>9, <1>10, <1>11, <1>12 DEF DaemonFunc

LEMMA DaemonGoroutines ==
    ASSUME DaemonInv, Stop \/ PeriodicGC \/ ShutdownCmd \/ ShutdownCmdDone \/ Signal
                      \/ HandleSignal \/ MainReturns \/ UNCHANGED dVars
    PROVE  DaemonInv'
<1> USE DEF DaemonInv, RepoReleased, PluginsClosed, Goto, Gone, Alive, signalVars, nodeVars,
            serverVars
<1>1. CASE StopBegins
    BY SMT, <1>1 DEF StopBegins
<1>2. CASE StopProcess
    BY SMT, <1>2 DEF StopProcess
<1>3. CASE StopRepo
    BY SMT, <1>3 DEF StopRepo
<1>4. CASE PeriodicGC \/ ShutdownCmd \/ ShutdownCmdDone
    BY SMT, <1>4 DEF PeriodicGC, ShutdownCmd, ShutdownCmdDone
<1>5. CASE Signal \/ HandleSignal \/ MainReturns
    BY SMT, <1>5 DEF Signal, HandleSignal, MainReturns
<1>6. CASE UNCHANGED dVars
    BY SMT, <1>6 DEF dVars
<1> QED
    BY <1>1, <1>2, <1>3, <1>4, <1>5, <1>6 DEF Stop

LEMMA DaemonServes ==
    ASSUME DaemonInv, NEW s \in Servers,
           Serve(s) \/ SrvFails(s) \/ Request(s) \/ RequestDone(s)
    PROVE  DaemonInv'
<1> USE DEF DaemonInv, RepoReleased, PluginsClosed, Gone, Alive, signalVars, nodeVars, SetSrv
<1>0. "api" \in Servers /\ "gateway" \in Servers
    BY DEF Servers
<1>1. CASE SrvCheck(s)
    BY SMT, <1>0, <1>1 DEF SrvCheck
<1>2. CASE SrvGo(s)
    BY SMT, <1>0, <1>2 DEF SrvGo
<1>3. CASE SrvFails(s)
    BY SMT, <1>0, <1>3 DEF SrvFails
<1>4. CASE SrvShutdown(s)
    BY SMT, <1>0, <1>4 DEF SrvShutdown
<1>5. CASE SrvDrained(s)
    <2>1. dReq[s] = "active" => s \in dGrace'
        BY <1>5 DEF SrvDrained, Handlers
    <2> QED
        BY SMT, <1>0, <1>5, <2>1 DEF SrvDrained
<1>6. CASE SrvReport(s)
    BY SMT, <1>0, <1>6 DEF SrvReport
<1>7. CASE Request(s) \/ RequestDone(s)
    BY SMT, <1>0, <1>7 DEF Request, RequestDone
<1> QED
    BY <1>1, <1>2, <1>3, <1>4, <1>5, <1>6, <1>7 DEF Serve

\* When the daemon has ended, the repository and the plugins are closed and every request had
\* its grace period, whichever step of daemonFunc failed and whoever stopped the node
\* (daemonFunc's defers, NewNode, corehttp.Serve).
THEOREM DaemonEnd == DSpec => []DaemonEndsClean
<1>1. DInit => DaemonInv
    BY DEF DInit, DaemonInv, Servers, RepoReleased, PluginsClosed, Gone
<1>2. DaemonInv /\ [DNext]_dVars => DaemonInv'
    BY DaemonFuncSteps, DaemonGoroutines, DaemonServes DEF DNext
<1>3. DaemonInv => DaemonEndsClean
    BY DEF DaemonInv, DaemonEndsClean, GraceGiven
<1> QED
    BY <1>1, <1>2, <1>3, PTL DEF DSpec
=============================================================================
