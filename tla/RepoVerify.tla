----------------------------- MODULE RepoVerify -----------------------------
(***************************************************************************)
(* `ipfs repo verify` (core/commands/repo.go): a listing goroutine feeds   *)
(* keys to workers, each worker reads one block at a time with its hash    *)
(* checked and sends the outcome into an unbuffered channel, a last        *)
(* goroutine closes that channel when all workers are gone, and the        *)
(* command counts what it receives.  The request can be cancelled anywhere.*)
(***************************************************************************)
EXTENDS FiniteSets, Integers

CONSTANTS VKeys, VWorkers   \* the blocks of the repository, the worker goroutines

ASSUME VerifyAssumption ==
    /\ IsFiniteSet(VKeys) /\ IsFiniteSet(VWorkers) /\ VWorkers # {}
    /\ "take" \notin VKeys /\ "gone" \notin VKeys

VARIABLES vBad,      \* the corrupt blocks
          vKeys,     \* keys not handed out yet
          vWork,     \* vWork[w]: the key worker w has, "take" or "gone"
          vFails,    \* bad results received
          vSeen,     \* results received
          vDone,     \* the request's context is cancelled
          vSaid      \* what the command returned

vVars == <<vBad, vKeys, vWork, vFails, vSeen, vDone, vSaid>>

VInit ==
    /\ vBad = {} /\ vKeys = {}
    /\ vWork = [w \in VWorkers |-> "gone"]
    /\ vFails = 0 /\ vSeen = 0
    /\ vDone = FALSE /\ vSaid = "idle"

\* The command lists the keys and starts the workers.
StartVerify ==
    /\ vSaid = "idle" /\ vSaid' = "none"
    /\ vBad' \in SUBSET VKeys
    /\ vKeys' = VKeys
    /\ vWork' = [w \in VWorkers |-> "take"]
    /\ UNCHANGED <<vFails, vSeen, vDone>>

\* A worker takes the next key, or ends because the channel of keys is closed.
TakeKey(w) ==
    /\ vWork[w] = "take"
    /\ \/ \E k \in vKeys : vKeys' = vKeys \ {k} /\ vWork' = [vWork EXCEPT ![w] = k]
       \/ (vKeys = {} \/ vDone) /\ vWork' = [vWork EXCEPT ![w] = "gone"] /\ UNCHANGED vKeys
    /\ UNCHANGED <<vBad, vFails, vSeen, vDone, vSaid>>

\* Its result meets the command at the unbuffered channel; an outcome that cannot
\* be shown to the client ends the command.
Hand(w) ==
    /\ vWork[w] \in VKeys /\ vSaid = "none"
    /\ vSeen' = vSeen + 1
    /\ vFails' = vFails + (IF vWork[w] \in vBad THEN 1 ELSE 0)
    /\ vWork' = [vWork EXCEPT ![w] = "take"]
    /\ \/ UNCHANGED <<vDone, vSaid>>
       \/ vDone' = TRUE /\ vSaid' = "error"
    /\ UNCHANGED <<vBad, vKeys>>

\* mutant: the worker does not select on ctx.Done.
GiveUpNever(w) == FALSE /\ UNCHANGED vVars

\* case <-ctx.Done(): return
GiveUp(w) ==
    /\ vWork[w] \in VKeys /\ vDone
    /\ vWork' = [vWork EXCEPT ![w] = "gone"]
    /\ UNCHANGED <<vBad, vKeys, vFails, vSeen, vDone, vSaid>>

Cancel ==
    /\ vSaid = "none" /\ ~vDone /\ vDone' = TRUE
    /\ UNCHANGED <<vBad, vKeys, vWork, vFails, vSeen, vSaid>>

\* mutant: the verdict forgets that the request was cancelled.
VerdictUnchecked == IF vFails # 0 THEN "corrupt" ELSE "valid"

Verdict == IF vDone THEN "error" ELSE IF vFails # 0 THEN "corrupt" ELSE "valid"

\* wg.Wait returns, results is closed, the loop over it ends.
VerifyEnds ==
    /\ vSaid = "none" /\ \A w \in VWorkers : vWork[w] = "gone"
    /\ vSaid' = Verdict
    /\ vDone' = TRUE
    /\ UNCHANGED <<vBad, vKeys, vWork, vFails, vSeen>>

Worker(w) == TakeKey(w) \/ Hand(w) \/ GiveUp(w)

VNext == StartVerify \/ (\E w \in VWorkers : Worker(w)) \/ Cancel \/ VerifyEnds

VFairness == WF_vVars(VerifyEnds) /\ \A w \in VWorkers : WF_vVars(Worker(w))
VSpec == VInit /\ [][VNext]_vVars
VFairSpec == VSpec /\ VFairness

\* "verify complete, all blocks validated." is said only when every block was read
\* and none was bad, whatever the workers' order and a cancellation in between.
VerifyHonest == vSaid = "valid" => vSeen = Cardinality(VKeys) /\ vBad = {}

\* After the command has returned, for whatever reason, its workers end.
VBegun == vSaid \notin {"idle", "none"}
VEnded == \A w \in VWorkers : vWork[w] = "gone"
WorkersEnd == VBegun ~> VEnded
=============================================================================
