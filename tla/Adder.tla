-------------------------------- MODULE Adder --------------------------------
(***************************************************************************)
(* `add` with pinning: coreunix.Adder.  It holds PinLock while it turns a  *)
(* file, or a directory of files, into a graph.  Before each node it looks *)
(* whether a collection is waiting; if so it pins what it has built so far,*)
(* lets go of the lock and takes it again.                                 *)
(*                                                                         *)
(* Adding without pinning takes no lock: NodeState!PutUnlocked.            *)
(* adder.tempRoot is only assigned inside the branch that tests whether it *)
(* is defined, so that branch never runs and the pins set at a pause stay. *)
(***************************************************************************)
EXTENDS NodeState, Sequences

CONSTANTS
    Adders,          \* goroutines that serve add
    AddFiles,        \* roots of the files in the added directory, in order
    AddRoots,        \* AddRoots[k]: the directory with the first k files
    LiveCacheSize    \* nodes added between two flushes of the file tree

ASSUME AdderProcAssumption == Adders \subseteq Proc
ASSUME AddFilesAssumption == AddFiles \in Seq(Cid) /\ AddFiles # <<>>
ASSUME AddRootsAssumption ==
    /\ AddRoots \in [0..Len(AddFiles) -> Cid]
    /\ \A k \in 0..Len(AddFiles) :
          Links[AddRoots[k]] = {AddFiles[i] : i \in 1..k}
ASSUME LiveCacheSizeAssumption == LiveCacheSize \in Nat \ {0}

\* arg[p].n counts the calls of addFileNode that have returned or descended:
\* for a directory the first call is the directory's own.
FilesAdded(p) ==
    IF arg[p].flag THEN (IF arg[p].n = 0 THEN 0 ELSE arg[p].n - 1) ELSE arg[p].n

Calls(p) == IF arg[p].flag THEN Len(AddFiles) + 1 ELSE 1

\* curRootNode: the tree built so far, or its only child.
CurRoot(k) == IF k = 1 THEN AddFiles[1] ELSE AddRoots[k]

-----------------------------------------------------------------------------
AddStart(p) ==
    /\ p \in Adders
    /\ \E dir \in BOOLEAN :
          Start(p, "addLock", [NoArg EXCEPT !.op = "add", !.flag = dir])
    /\ UNCHANGED <<lockVars, blocks, rpins, dpins, mfsRoot>>

AddLock(p) == TakePinLock(p, "addLock", "add")

\* Mutant: the lock is released without a pin of what has been built.
AddPauseUnpinned(p) ==
    /\ PinLocked(p, "add")
    /\ arg[p].n < Calls(p)
    /\ GCRequested
    /\ blocks' = blocks \cup {AddRoots[FilesAdded(p)], CurRoot(FilesAdded(p))}
    /\ Goto(p, "addUnlock")
    /\ UNCHANGED <<lockVars, rpins, dpins, mfsRoot>>

\* maybePauseForGC with a collection waiting: GetNode writes the tree, PinRoot
\* stores and pins its root.
AddPause(p) ==
    /\ PinLocked(p, "add")
    /\ arg[p].n < Calls(p)
    /\ GCRequested
    /\ blocks' = blocks \cup {AddRoots[FilesAdded(p)], CurRoot(FilesAdded(p))}
    /\ rpins' = rpins \cup {CurRoot(FilesAdded(p))}
    /\ Goto(p, "addUnlock")
    /\ UNCHANGED <<lockVars, dpins, mfsRoot>>

AddPauseUnlock(p) ==
    /\ PinLocked(p, "addUnlock")
    /\ PinUnlock(p)
    /\ Goto(p, "addRelock")
    /\ UNCHANGED <<blocks, rpins, dpins, mfsRoot>>

AddPauseRelock(p) == TakePinLock(p, "addRelock", "addNode")

AddNoPause(p) ==
    /\ PinLocked(p, "add")
    /\ arg[p].n < Calls(p)
    /\ ~GCRequested
    /\ Goto(p, "addNode")
    /\ UNCHANGED <<lockVars, blocks, rpins, dpins, mfsRoot>>

\* The rest of addFileNode: a flush of the tree each LiveCacheSize nodes, then
\* the node itself.  A file's graph is written and its root linked into the
\* tree, which stays in memory; the directory's own call only descends.
AddNode(p) ==
    /\ PinLocked(p, "addNode")
    /\ blocks' = blocks
          \cup (IF arg[p].n > 0 /\ arg[p].n % LiveCacheSize = 0
                THEN {AddRoots[FilesAdded(p)]} ELSE {})
          \cup (IF arg[p].flag /\ arg[p].n = 0
                THEN {} ELSE Descendants[AddFiles[FilesAdded(p) + 1]])
    /\ arg' = [arg EXCEPT ![p].n = @ + 1]
    /\ pc' = [pc EXCEPT ![p] = "add"]
    /\ UNCHANGED <<lockVars, rpins, dpins, mfsRoot>>

\* All nodes are in: the tree is flushed and PinRoot pins its root, or for a
\* single file its only child.
AddFinish(p) ==
    /\ PinLocked(p, "add")
    /\ arg[p].n = Calls(p)
    /\ LET root == IF arg[p].flag THEN AddRoots[Len(AddFiles)] ELSE AddFiles[1] IN
          /\ blocks' = blocks \cup {AddRoots[FilesAdded(p)], root}
          /\ rpins' = rpins \cup {root}
    /\ Goto(p, "unlock")
    /\ UNCHANGED <<lockVars, dpins, mfsRoot>>

\* Reading, chunking or storing fails: part of the next file may be stored.
AddFail(p) ==
    /\ PinLocked(p, "add") \/ PinLocked(p, "addNode")
    /\ \E cs \in SUBSET (IF FilesAdded(p) < Len(AddFiles)
                         THEN Descendants[AddFiles[FilesAdded(p) + 1]] ELSE {}) :
          blocks' = blocks \cup cs
    /\ Goto(p, "unlock")
    /\ UNCHANGED <<lockVars, rpins, dpins, mfsRoot>>

AdderStep(p) ==
    \/ AddStart(p) \/ AddLock(p) \/ AddPause(p) \/ AddPauseUnlock(p)
    \/ AddPauseRelock(p) \/ AddNoPause(p) \/ AddNode(p) \/ AddFinish(p)
    \/ AddFail(p)
=============================================================================
