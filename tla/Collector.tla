------------------------------ MODULE Collector ------------------------------
(***************************************************************************)
(* What deletes blocks: the mark-and-sweep garbage collection of gc.GC,    *)
(* started by corerepo, and `block rm` (blockstoreutil.RmBlocks).  Both    *)
(* run under GCLock.  The mutable file system, whose root a collection     *)
(* keeps on a best-effort basis, is updated by the `files` commands under  *)
(* no lock of the block store.                                             *)
(***************************************************************************)
EXTENDS NodeState

CONSTANTS
    Collectors,    \* goroutines that run a garbage collection
    Removers,      \* goroutines that serve block rm
    MfsWriters,    \* goroutines that serve the files commands
    RmCids,        \* CIDs that clients remove with block rm
    MfsRoots       \* directories that the files commands produce

ASSUME CollectorProcAssumption ==
    Collectors \cup Removers \cup MfsWriters \subseteq Proc
ASSUME CollectorCidAssumption == RmCids \cup MfsRoots \subseteq Cid

-----------------------------------------------------------------------------
(* The lock, for both deleters: GCLock returns at label next. *)

TakeGCLock(p, label, next) ==
    /\ pc[p] = label
    /\ GCAcquire(p)
    /\ Goto(p, next)
    /\ UNCHANGED <<blocks, rpins, dpins, mfsRoot>>

AnnounceGCLock(p) ==
    /\ pc[p] \in {"gcLock", "rmblocksLock"}
    /\ GCAnnounce(p)
    /\ UNCHANGED <<blocks, rpins, dpins, mfsRoot, pc, arg>>

ReleaseGCLock(p) ==
    /\ pc[p] = "gcUnlock"
    /\ GCUnlock(p)
    /\ pc' = [pc EXCEPT ![p] = "idle"]
    /\ arg' = [arg EXCEPT ![p] = NoArg]
    /\ UNCHANGED <<blocks, rpins, dpins, mfsRoot>>

-----------------------------------------------------------------------------
(* gc.GC *)

\* BestEffortRoots: the root of the file system is written and its CID taken
\* before GC asks for the lock.
GCStart(p) ==
    /\ p \in Collectors
    /\ Start(p, "gcRequest", [NoArg EXCEPT !.op = "gc", !.to = mfsRoot])
    /\ blocks' = blocks \cup {mfsRoot}
    /\ UNCHANGED <<lockVars, rpins, dpins, mfsRoot>>

GCRequestLock(p) ==
    /\ pc[p] = "gcRequest"
    /\ GCRequest(p)
    /\ Goto(p, "gcLock")
    /\ UNCHANGED <<blocks, rpins, dpins, mfsRoot>>

GCLock(p) == TakeGCLock(p, "gcLock", "markRecursive")

\* ColoredSet marks the graphs of the recursive pins.  A node that cannot be
\* read is an error that is remembered, and ends the collection after the
\* marking without a deletion.
MarkRecursive(p) ==
    /\ GCLocked(p, "markRecursive")
    /\ arg' = [arg EXCEPT ![p].seen = Reach(rpins, blocks)]
    /\ pc' = [pc EXCEPT ![p] =
                 IF Reach(rpins, blocks) \subseteq blocks THEN "markBestEffort" ELSE "gcUnlock"]
    /\ UNCHANGED <<lockVars, blocks, rpins, dpins, mfsRoot>>

\* It marks what it can reach from the file system root it was given; a node
\* that is not stored is no error.
MarkBestEffort(p) ==
    /\ GCLocked(p, "markBestEffort")
    /\ arg' = [arg EXCEPT ![p].seen = @ \cup Reach({arg[p].to}, blocks)]
    /\ pc' = [pc EXCEPT ![p] = "markDirect"]
    /\ UNCHANGED <<lockVars, blocks, rpins, dpins, mfsRoot>>

\* Mutant: the direct pins are forgotten.
MarkNoDirect(p) ==
    /\ GCLocked(p, "markDirect")
    /\ Goto(p, "sweep")
    /\ UNCHANGED <<lockVars, blocks, rpins, dpins, mfsRoot>>

\* It marks the direct pins, without their links.  The pinner keeps no
\* internal pins.
MarkDirect(p) ==
    /\ GCLocked(p, "markDirect")
    /\ arg' = [arg EXCEPT ![p].seen = @ \cup dpins]
    /\ pc' = [pc EXCEPT ![p] = "sweep"]
    /\ UNCHANGED <<lockVars, blocks, rpins, dpins, mfsRoot>>

\* An error other than a missing node, or a cancelled context, ends the
\* marking.
MarkFail(p) ==
    /\ \/ GCLocked(p, "markRecursive")
       \/ GCLocked(p, "markBestEffort")
       \/ GCLocked(p, "markDirect")
    /\ Goto(p, "gcUnlock")
    /\ UNCHANGED <<lockVars, blocks, rpins, dpins, mfsRoot>>

\* One key of AllKeysChan that is not marked is deleted.  Keys stored during
\* the sweep may be listed as well.
Sweep(p) ==
    /\ GCLocked(p, "sweep")
    /\ \E k \in blocks \ arg[p].seen : blocks' = blocks \ {k}
    /\ UNCHANGED <<lockVars, rpins, dpins, mfsRoot, pc, arg>>

\* The listing ends.  A key whose deletion failed is left behind, a cancelled
\* context leaves any number of them.
SweepEnd(p) ==
    /\ GCLocked(p, "sweep")
    /\ Goto(p, "gcUnlock")
    /\ UNCHANGED <<lockVars, blocks, rpins, dpins, mfsRoot>>

-----------------------------------------------------------------------------
(* blockstoreutil.RmBlocks *)

RmBlocksStart(p) ==
    /\ p \in Removers
    /\ \E cs \in SUBSET RmCids \ {{}} :
          Start(p, "rmblocksRequest", [NoArg EXCEPT !.op = "rmblocks", !.todo = cs])
    /\ UNCHANGED <<lockVars, blocks, rpins, dpins, mfsRoot>>

RmBlocksRequestLock(p) ==
    /\ pc[p] = "rmblocksRequest"
    /\ GCRequest(p)
    /\ Goto(p, "rmblocksLock")
    /\ UNCHANGED <<blocks, rpins, dpins, mfsRoot>>

RmBlocksLock(p) == TakeGCLock(p, "rmblocksLock", "filterPinned")

\* FilterPinned: CheckIfPinned looks the CIDs up in both indexes and walks the
\* graphs of the recursive pins until it has found each of them.  It reads
\* through the online dag service: what it fetches is stored by PutUnlocked.
FilterPinned(p) ==
    /\ GCLocked(p, "filterPinned")
    /\ Closure(rpins) \subseteq blocks \/ arg[p].todo \subseteq Protected
    /\ arg' = [arg EXCEPT ![p].todo = @ \ Protected]
    /\ pc' = [pc EXCEPT ![p] = "rmblocks"]
    /\ UNCHANGED <<lockVars, blocks, rpins, dpins, mfsRoot>>

\* Mutant: the error is ignored and the CIDs are removed unfiltered.
FilterPinnedFailIgnored(p) ==
    /\ GCLocked(p, "filterPinned")
    /\ ~(Closure(rpins) \subseteq blocks)
    /\ Goto(p, "rmblocks")
    /\ UNCHANGED <<lockVars, blocks, rpins, dpins, mfsRoot>>

\* The walk meets a node it cannot read: nothing is removed.
FilterPinnedFail(p) ==
    /\ GCLocked(p, "filterPinned")
    /\ ~(Closure(rpins) \subseteq blocks)
    /\ Goto(p, "gcUnlock")
    /\ UNCHANGED <<lockVars, blocks, rpins, dpins, mfsRoot>>

\* DeleteBlock of one CID that is still to do; it is absent, it is deleted, or
\* the deletion fails.
RmBlock(p) ==
    /\ GCLocked(p, "rmblocks")
    /\ \E c \in arg[p].todo :
          /\ blocks' \in {blocks, blocks \ {c}}
          /\ arg' = [arg EXCEPT ![p].todo = @ \ {c}]
    /\ UNCHANGED <<lockVars, rpins, dpins, mfsRoot, pc>>

RmBlocksEnd(p) ==
    /\ GCLocked(p, "rmblocks")
    /\ arg[p].todo = {}
    /\ Goto(p, "gcUnlock")
    /\ UNCHANGED <<lockVars, blocks, rpins, dpins, mfsRoot>>

-----------------------------------------------------------------------------
(* The files commands *)

\* The children that a new root has and the current one has not.
NewChildren(r) == Links[r] \ Links[mfsRoot]

\* The new content reaches the block store before it is linked into the tree:
\* `files write` stores the whole graph of the new file version, `files cp`
\* the node it resolved.
MfsWrite(p) ==
    /\ p \in MfsWriters
    /\ \E r \in MfsRoots \ {mfsRoot} :
          /\ Start(p, "mfsFlush", [NoArg EXCEPT !.op = "mfs", !.c = r])
          /\ \E cs \in {NewChildren(r), Closure(NewChildren(r))} : blocks' = blocks \cup cs
    /\ UNCHANGED <<lockVars, rpins, dpins, mfsRoot>>

\* The new children are stored once more and linked, the directories above
\* them are stored, and the new root is current.
MfsFlush(p) ==
    /\ pc[p] = "mfsFlush"
    /\ blocks' = blocks \cup {arg[p].c} \cup NewChildren(arg[p].c)
    /\ mfsRoot' = arg[p].c
    /\ pc' = [pc EXCEPT ![p] = "idle"]
    /\ arg' = [arg EXCEPT ![p] = NoArg]
    /\ UNCHANGED <<lockVars, rpins, dpins>>

-----------------------------------------------------------------------------
CollectorStep(p) ==
    \/ AnnounceGCLock(p) \/ ReleaseGCLock(p)
    \/ GCStart(p) \/ GCRequestLock(p) \/ GCLock(p)
    \/ MarkRecursive(p) \/ MarkBestEffort(p) \/ MarkDirect(p) \/ MarkFail(p)
    \/ Sweep(p) \/ SweepEnd(p)
    \/ RmBlocksStart(p) \/ RmBlocksRequestLock(p) \/ RmBlocksLock(p)
    \/ FilterPinned(p) \/ FilterPinnedFail(p) \/ RmBlock(p) \/ RmBlocksEnd(p)
    \/ MfsWrite(p) \/ MfsFlush(p)
=============================================================================
