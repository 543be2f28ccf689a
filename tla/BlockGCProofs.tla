--------------------------- MODULE BlockGCProofs ---------------------------
(***************************************************************************)
(* Theorems about BlockGC, for every set of goroutines, every link         *)
(* structure and every choice of requests.                                 *)
(***************************************************************************)
EXTENDS BlockGC, TLAPS

\* Leaves are first-order unless they cite SMT.
USE Zenon

-----------------------------------------------------------------------------
(* Walks of the merkle DAG.                                                *)

\* A walk visits its roots.
LEMMA ReachRoots ==
    ASSUME NEW R \in SUBSET Cid, NEW B
    PROVE  R \subseteq Reach(R, B)
BY DEF Reach

\* A walk visits the links of every stored node that it visits.
LEMMA ReachClosed ==
    ASSUME NEW R, NEW B
    PROVE  Closed(Reach(R, B), B)
<1> SUFFICES ASSUME NEW c \in Reach(R, B) \cap B, NEW d \in Links[c]
             PROVE  d \in Reach(R, B)
    BY DEF Closed
<1>1. c \in Cid /\ d \in Cid
    BY LinksAssumption DEF Reach
<1>2. ASSUME NEW S \in SUBSET Cid, R \subseteq S, Closed(S, B)
      PROVE  d \in S
    BY <1>2 DEF Reach, Closed
<1> QED
    BY <1>1, <1>2 DEF Reach

\* A walk stays inside every closed set that contains its roots.
LEMMA ReachSmallest ==
    ASSUME NEW R, NEW B, NEW S \in SUBSET Cid, R \subseteq S, Closed(S, B)
    PROVE  Reach(R, B) \subseteq S
BY DEF Reach

\* The graph of a CID is a set of CIDs that contains it and the links of every
\* member.
LEMMA DescendantsGraph ==
    ASSUME NEW c \in Cid
    PROVE  /\ Descendants[c] \in SUBSET Cid
           /\ c \in Descendants[c]
           /\ \A d \in Descendants[c] : Links[d] \subseteq Descendants[c]
<1>1. Descendants[c] = Reach({c}, Cid)
    BY DEF Descendants
<1>2. Descendants[c] \in SUBSET Cid
    BY <1>1 DEF Reach
<1>3. Closed(Descendants[c], Cid)
    BY <1>1, ReachClosed
<1>4. {c} \subseteq Reach({c}, Cid)
    BY ReachRoots
<1>5. \A d \in Descendants[c] : Links[d] \subseteq Descendants[c]
    BY <1>2, <1>3 DEF Closed
<1> QED
    BY <1>1, <1>2, <1>4, <1>5

\* It is the smallest such set.
LEMMA DescendantsSmallest ==
    ASSUME NEW c \in Cid, NEW S \in SUBSET Cid, c \in S,
           \A d \in S : Links[d] \subseteq S
    PROVE  Descendants[c] \subseteq S
BY SMT, ReachSmallest DEF Descendants, Closed

\* The graph of a link is part of the graph.
LEMMA DescendantsOfLink ==
    ASSUME NEW c \in Cid, NEW d \in Descendants[c]
    PROVE  Descendants[d] \subseteq Descendants[c]
BY DescendantsGraph, DescendantsSmallest

\* The graph of a CID is the CID and the graphs of its links.
LEMMA DescendantsUnfold ==
    ASSUME NEW c \in Cid
    PROVE  Descendants[c] = {c} \cup UNION {Descendants[d] : d \in Links[c]}
<1> DEFINE S == {c} \cup UNION {Descendants[d] : d \in Links[c]}
<1>1. Links[c] \in SUBSET Cid
    BY LinksAssumption
<1>2. S \in SUBSET Cid
    BY <1>1, DescendantsGraph
<1>3. ASSUME NEW e \in S PROVE Links[e] \subseteq S
  <2>1. CASE e = c
      BY <2>1, <1>1, DescendantsGraph
  <2>2. CASE \E d \in Links[c] : e \in Descendants[d]
      BY <2>2, <1>1, DescendantsGraph
  <2> QED
      BY <2>1, <2>2
<1>4. Descendants[c] \subseteq S
    BY <1>2, <1>3, DescendantsSmallest
<1>5. ASSUME NEW d \in Links[c] PROVE Descendants[d] \subseteq Descendants[c]
    BY <1>1, DescendantsGraph, DescendantsOfLink
<1>6. S \subseteq Descendants[c]
    BY <1>5, DescendantsGraph
<1> QED
    BY <1>4, <1>6

\* The graph of a node without links is the node.
LEMMA DescendantsLeaf ==
    ASSUME NEW c \in Cid, Links[c] = {}
    PROVE  Descendants[c] = {c}
BY SMT, DescendantsUnfold

\* The graphs of a set of roots are a set of CIDs.
LEMMA ClosureType ==
    ASSUME NEW R \in SUBSET Cid
    PROVE  Closure(R) \in SUBSET Cid /\ R \subseteq Closure(R)
BY DescendantsGraph DEF Closure

\* A walk that could read every node it visited has visited the whole graphs
\* of its roots.  gc.ColoredSet relies on it: without a fetch error, what it
\* marked contains everything that the recursive pins protect.
LEMMA CompleteWalk ==
    ASSUME NEW R \in SUBSET Cid, NEW B, Reach(R, B) \subseteq B
    PROVE  Closure(R) \subseteq Reach(R, B)
<1>1. Reach(R, B) \in SUBSET Cid
    BY DEF Reach
<1>2. \A d \in Reach(R, B) : Links[d] \subseteq Reach(R, B)
    BY ReachClosed DEF Closed
<1>3. ASSUME NEW c \in R PROVE Descendants[c] \subseteq Reach(R, B)
    BY <1>1, <1>2, ReachRoots, DescendantsSmallest
<1> QED
    BY <1>3 DEF Closure

\* A walk from roots whose graphs are stored reads every node it visits.
LEMMA StoredWalk ==
    ASSUME NEW R \in SUBSET Cid, NEW B, Closure(R) \subseteq B
    PROVE  Reach(R, B) \subseteq B
<1>1. ASSUME NEW d \in Closure(R) PROVE Links[d] \subseteq Closure(R)
    BY DescendantsGraph DEF Closure
<1>2. Closed(Closure(R), B)
    BY <1>1 DEF Closed
<1> QED
    BY <1>2, ClosureType, ReachSmallest

-----------------------------------------------------------------------------
(* Types.  TypeOK is not inductive: an operation stores the CIDs in its    *)
(* local variables, so these must be defined at the labels where it does.  *)

\* Labels at which an add has a file or its directory still to do.
AddLabels == {"addLock", "addUnlock", "addRelock", "addNode"}

\* What the local variables a of a goroutine are at label l.
ArgOK(l, a) ==
    /\ l \in {"pinLock", "pin", "fetch", "pinned", "rmLock", "rm",
              "updateLock", "update", "diff", "mfsFlush"} => a.c \in Cid
    /\ l \in {"updateLock", "update", "diff"} => a.to \in Cid
    /\ l \in AddLabels => a.n < (IF a.flag THEN Len(AddFiles) + 1 ELSE 1)
    /\ l = "add" => a.n <= (IF a.flag THEN Len(AddFiles) + 1 ELSE 1)

\* The local state of the goroutines.
LocalOK ==
    /\ pc \in [Proc -> Labels]
    /\ arg \in [Proc -> ArgType]
    /\ \A p \in Proc : ArgOK(pc[p], arg[p])

\* The state they share.
StoreOK ==
    /\ LockTypeOK
    /\ blocks \in SUBSET Cid
    /\ rpins \in SUBSET Cid
    /\ dpins \in SUBSET Cid
    /\ mfsRoot \in Cid

TypeInv == LocalOK /\ StoreOK

LEMMA TypeInvImpliesTypeOK == TypeInv => TypeOK
BY DEF TypeInv, LocalOK, StoreOK, TypeOK

LEMMA NoArgType == NoArg \in ArgType
BY DEF NoArg, ArgType

\* Replacing a set of CIDs in the local variables.
LEMMA ArgSets ==
    ASSUME NEW a \in ArgType, NEW S \in SUBSET Cid, NEW l
    PROVE  /\ [a EXCEPT !.seen = S] \in ArgType
           /\ [a EXCEPT !.todo = S] \in ArgType
           /\ ArgOK(l, [a EXCEPT !.seen = S]) <=> ArgOK(l, a)
           /\ ArgOK(l, [a EXCEPT !.todo = S]) <=> ArgOK(l, a)
BY DEF ArgType, ArgOK

\* A step that moves goroutine p to label l with local variables a.
LEMMA LocalStep ==
    ASSUME LocalOK, NEW p \in Proc, NEW l \in Labels, NEW a \in ArgType,
           ArgOK(l, a),
           pc' = [pc EXCEPT ![p] = l], arg' = [arg EXCEPT ![p] = a]
    PROVE  LocalOK'
<1>1. pc' \in [Proc -> Labels] /\ arg' \in [Proc -> ArgType]
    BY DEF LocalOK
<1>2. ASSUME NEW q \in Proc PROVE ArgOK(pc'[q], arg'[q])
    BY DEF LocalOK
<1>3. \A q \in Proc : ArgOK(pc[q], arg[q])'
    BY <1>2 DEF ArgOK
<1> QED
    BY <1>1, <1>3 DEF LocalOK

LEMMA StartStep ==
    ASSUME LocalOK, NEW p \in Proc, NEW l \in Labels, NEW a \in ArgType,
           ArgOK(l, a), Start(p, l, a)
    PROVE  LocalOK'
BY Zenon, LocalStep DEF Start

LEMMA GotoStep ==
    ASSUME LocalOK, NEW p \in Proc, NEW l \in Labels, ArgOK(l, arg[p]), Goto(p, l)
    PROVE  LocalOK'
<1>1. arg[p] \in ArgType /\ arg' = [arg EXCEPT ![p] = arg[p]]
    BY DEF Goto, LocalOK
<1> QED
    BY Zenon, <1>1, LocalStep DEF Goto

LEMMA SeenStep ==
    ASSUME LocalOK, NEW p \in Proc, NEW l \in Labels, ArgOK(l, arg[p]),
           NEW S \in SUBSET Cid,
           pc' = [pc EXCEPT ![p] = l], arg' = [arg EXCEPT ![p].seen = S]
    PROVE  LocalOK'
<1> DEFINE a == [arg[p] EXCEPT !.seen = S]
<1>1. a \in ArgType /\ ArgOK(l, a)
    BY Zenon, ArgSets DEF LocalOK
<1>2. arg' = [arg EXCEPT ![p] = a]
    OBVIOUS
<1> HIDE DEF a
<1> QED
    BY Zenon, <1>1, <1>2, LocalStep

LEMMA TodoStep ==
    ASSUME LocalOK, NEW p \in Proc, NEW l \in Labels, ArgOK(l, arg[p]),
           NEW S \in SUBSET Cid,
           pc' = [pc EXCEPT ![p] = l], arg' = [arg EXCEPT ![p].todo = S]
    PROVE  LocalOK'
<1> DEFINE a == [arg[p] EXCEPT !.todo = S]
<1>1. a \in ArgType /\ ArgOK(l, a)
    BY Zenon, ArgSets DEF LocalOK
<1>2. arg' = [arg EXCEPT ![p] = a]
    OBVIOUS
<1> HIDE DEF a
<1> QED
    BY Zenon, <1>1, <1>2, LocalStep

LEMMA EndWalkStep ==
    ASSUME LocalOK, NEW p \in Proc, NEW l \in Labels, ArgOK(l, arg[p]), EndWalk(p, l)
    PROVE  LocalOK'
<1>1. /\ {} \in SUBSET Cid
      /\ pc' = [pc EXCEPT ![p] = l]
      /\ arg' = [arg EXCEPT ![p].seen = {}]
    BY DEF EndWalk
<1> QED
    BY Zenon, <1>1, SeenStep

LEMMA TakePinLockStep ==
    ASSUME TypeInv, NEW p \in Proc, NEW l, NEW next \in Labels,
           ArgOK(next, arg[p]), TakePinLock(p, l, next)
    PROVE  TypeInv'
<1>1. LocalOK'
    BY GotoStep DEF TakePinLock, TypeInv
<1>2. StoreOK'
    BY DEF TypeInv, StoreOK, LockTypeOK, TakePinLock, PinLock
<1> QED
    BY <1>1, <1>2 DEF TypeInv

\* The operations of PinAPI preserve the types.
LEMMA PinStepType ==
    ASSUME TypeInv, NEW p \in Proc, PinStep(p)
    PROVE  TypeInv'
<1> USE DEF AddLabels, Labels, PinLabels, FreeLabels, LockTypeOK, lockVars, ArgOK
<1>a. LocalOK /\ StoreOK /\ arg[p] \in ArgType /\ ArgOK(pc[p], arg[p]) /\ pc[p] \in Labels
    BY DEF TypeInv, LocalOK
<1>b. SUFFICES LocalOK' /\ StoreOK'
    BY DEF TypeInv
<1>1. CASE PinBegin(p)
    BY <1>a, <1>1, GotoStep DEF PinBegin, PinLocked, AfterPin, AfterPinError, StoreOK
<1>2. CASE FetchNode(p)
  <2>1. PICK d \in (Frontier(p) \cap (blocks \cup Remote)) \ arg[p].seen :
            /\ blocks' = blocks \cup {d}
            /\ arg' = [arg EXCEPT ![p].seen = @ \cup {d}]
      BY Zenon, <1>2 DEF FetchNode
  <2>2. d \in Cid
      BY <1>a, <2>1, RemoteAssumption DEF StoreOK
  <2>3. StoreOK'
      BY <1>a, <1>2, <2>1, <2>2 DEF FetchNode, StoreOK
  <2>4. arg[p].seen \cup {d} \in SUBSET Cid
      BY <1>a, <2>2 DEF ArgType
  <2>5. pc' = [pc EXCEPT ![p] = pc[p]]
      BY <1>a, <1>2 DEF FetchNode, LocalOK
  <2> QED
      BY Zenon, <1>a, <2>1, <2>3, <2>4, <2>5, SeenStep
<1>3. CASE FetchFail(p)
    BY <1>a, <1>3, EndWalkStep DEF FetchFail, AfterPinError, StoreOK
<1>4. CASE PinCommit(p)
    BY <1>a, <1>4, EndWalkStep DEF PinCommit, PinLocked, AfterPin, StoreOK
<1>5. CASE PinAddResolve(p)
  <2>1. PICK c \in PinCids \cap (blocks \cup Remote), recursive \in BOOLEAN :
            /\ Start(p, "pinLock", [NoArg EXCEPT !.op = "pin", !.c = c, !.flag = recursive])
            /\ blocks' = blocks \cup {c}
      BY Zenon, <1>5 DEF PinAddResolve
  <2>2. [NoArg EXCEPT !.op = "pin", !.c = c, !.flag = recursive] \in ArgType
      BY Zenon, PinCidAssumption DEF NoArg, ArgType
  <2> QED
      BY Zenon, <1>a, <1>5, <2>1, <2>2, PinCidAssumption, StartStep DEF NoArg, PinAddResolve, StoreOK
<1>6. CASE PinAddLock(p)
    BY <1>a, <1>6, TakePinLockStep DEF PinAddLock, TakePinLock, TypeInv
<1>7. CASE PinAddProvide(p)
    BY <1>a, <1>7, GotoStep DEF PinAddProvide, StoreOK
<1>8. CASE PinRmResolve(p)
  <2>1. PICK c \in UnpinCids, recursive \in BOOLEAN :
            Start(p, "rmLock", [NoArg EXCEPT !.op = "rm", !.c = c, !.flag = recursive])
      BY Zenon, <1>8 DEF PinRmResolve
  <2>2. [NoArg EXCEPT !.op = "rm", !.c = c, !.flag = recursive] \in ArgType
      BY Zenon, PinCidAssumption DEF NoArg, ArgType
  <2> QED
      BY Zenon, <1>a, <1>8, <2>1, <2>2, PinCidAssumption, StartStep DEF NoArg, PinRmResolve, StoreOK
<1>9. CASE PinRmLock(p)
    BY Zenon, <1>a, <1>9, TakePinLockStep DEF PinRmLock, TakePinLock, TypeInv
<1>10. CASE Unpin(p)
    BY <1>a, <1>10, GotoStep DEF Unpin, StoreOK
<1>11. CASE PinUpdateResolve(p)
  <2>1. PICK from \in UnpinCids, to \in PinCids, unpin \in BOOLEAN :
            Start(p, "updateLock",
                  [NoArg EXCEPT !.op = "update", !.c = from, !.to = to, !.flag = unpin])
      BY Zenon, <1>11 DEF PinUpdateResolve
  <2>2. [NoArg EXCEPT !.op = "update", !.c = from, !.to = to, !.flag = unpin] \in ArgType
      BY Zenon, PinCidAssumption DEF NoArg, ArgType
  <2> QED
      BY Zenon, <1>a, <1>11, <2>1, <2>2, PinCidAssumption, StartStep
         DEF NoArg, PinUpdateResolve, StoreOK
<1>12. CASE PinUpdateLock(p)
    BY <1>a, <1>12, TakePinLockStep DEF PinUpdateLock, TakePinLock, TypeInv
<1>13. CASE UpdateBegin(p)
    BY Zenon, <1>a, <1>13, GotoStep DEF UpdateBegin, PinLocked, StoreOK
<1>14. CASE UpdateCommit(p)
    BY <1>a, <1>14, EndWalkStep DEF UpdateCommit, PinLocked, StoreOK
<1>15. CASE PutStart(p)
  <2>1. PICK cs \in SUBSET PutCids :
            Start(p, "putLock", [NoArg EXCEPT !.op = "put", !.todo = cs])
      BY Zenon, <1>15 DEF PutStart
  <2>2. [NoArg EXCEPT !.op = "put", !.todo = cs] \in ArgType
      BY Zenon, PinCidAssumption DEF NoArg, ArgType
  <2> QED
      BY Zenon, <1>a, <1>15, <2>1, <2>2, StartStep DEF PutStart, StoreOK
<1>16. CASE PutLock(p)
    BY Zenon, <1>a, <1>16, TakePinLockStep DEF PutLock, TakePinLock, TypeInv
<1>17. CASE PutAdd(p)
    BY Zenon, <1>a, <1>17, GotoStep DEF PutAdd, StoreOK, ArgType
<1>18. CASE PutFail(p)
    BY <1>a, <1>18, GotoStep DEF PutFail, StoreOK, ArgType
<1>19. CASE PutPin(p)
  <2>1. PICK c \in arg[p].todo :
            /\ rpins' = rpins \cup {c}
            /\ arg' = [arg EXCEPT ![p].todo = @ \ {c}]
            /\ pc' = [pc EXCEPT ![p] = IF arg[p].todo = {c} THEN "unlock" ELSE "putPin"]
      BY Zenon, <1>19 DEF PutPin
  <2>2. c \in Cid /\ arg[p].todo \ {c} \in SUBSET Cid
      BY <1>a DEF ArgType
  <2>3. LocalOK'
      BY ZenonT(60), <1>a, <2>1, <2>2, TodoStep
  <2> QED
      BY <1>a, <1>19, <2>1, <2>2, <2>3 DEF PutPin, StoreOK
<1>20. CASE ImportStart(p)
  <2>1. PICK roots \in SUBSET CarRoots :
            Start(p, "importLock", [NoArg EXCEPT !.op = "import", !.todo = roots, !.flag = TRUE])
      BY Zenon, <1>20 DEF ImportStart
  <2>2. [NoArg EXCEPT !.op = "import", !.todo = roots, !.flag = TRUE] \in ArgType
      BY Zenon, PinCidAssumption DEF NoArg, ArgType
  <2> QED
      BY Zenon, <1>a, <1>20, <2>1, <2>2, StartStep DEF ImportStart, StoreOK
<1>21. CASE ImportLock(p)
    BY <1>a, <1>21, TakePinLockStep DEF ImportLock, TakePinLock, TypeInv
<1>22. CASE ImportBlocks(p)
    BY <1>a, <1>22, PinCidAssumption, GotoStep DEF ImportBlocks, StoreOK
<1>23. CASE ImportPinRoot(p)
  <2>1. PICK c \in arg[p].todo :
            /\ arg' = [arg EXCEPT ![p].todo = @ \ {c}, ![p].c = c]
            /\ pc' = [pc EXCEPT ![p] = IF c \in blocks THEN "pin" ELSE "pinRoots"]
      BY Zenon, <1>23 DEF ImportPinRoot
  <2> DEFINE a == [arg[p] EXCEPT !.todo = @ \ {c}, !.c = c]
  <2>2. c \in Cid
      BY <1>a DEF ArgType
  <2>3. a \in ArgType /\ a.c = c
      BY Zenon, <1>a, <2>2 DEF ArgType
  <2>4. arg' = [arg EXCEPT ![p] = a]
      BY Zenon, <2>1
  <2> HIDE DEF a
  <2>5. PICK l \in {"pin", "pinRoots"} : pc' = [pc EXCEPT ![p] = l]
      BY Zenon, <2>1
  <2>6. ArgOK(l, a) /\ l \in Labels
      BY <2>2, <2>3
  <2>7. LocalOK'
      BY Zenon, <1>a, <2>3, <2>4, <2>5, <2>6, LocalStep
  <2> QED
      BY <1>a, <1>23, <2>7 DEF ImportPinRoot, StoreOK
<1>24. CASE ImportDone(p)
    BY <1>a, <1>24, GotoStep DEF ImportDone, StoreOK
<1> QED
    BY ZenonT(60), <1>1, <1>2, <1>3, <1>4, <1>5, <1>6, <1>7, <1>8, <1>9, <1>10, <1>11, <1>12,
       <1>13, <1>14, <1>15, <1>16, <1>17, <1>18, <1>19, <1>20, <1>21, <1>22,
       <1>23, <1>24 DEF PinStep

\* The number of files an add has behind it, and their roots.
LEMMA FilesAddedRange ==
    ASSUME LocalOK, NEW p \in Proc, pc[p] \in AddLabels \cup {"add"}
    PROVE  /\ FilesAdded(p) \in 0..Len(AddFiles)
           /\ AddRoots[FilesAdded(p)] \in Cid
           /\ CurRoot(FilesAdded(p)) \in Cid
           /\ FilesAdded(p) < Len(AddFiles) => AddFiles[FilesAdded(p) + 1] \in Cid
           /\ pc[p] \in AddLabels /\ ~(arg[p].flag /\ arg[p].n = 0)
                => FilesAdded(p) < Len(AddFiles)
<1>1. arg[p].n \in Nat /\ arg[p].flag \in BOOLEAN /\ ArgOK(pc[p], arg[p])
    BY DEF LocalOK, ArgType
<1>2. Len(AddFiles) \in Nat \ {0} /\ \A i \in 1..Len(AddFiles) : AddFiles[i] \in Cid
    BY SMT, AddFilesAssumption
<1>3. FilesAdded(p) \in 0..Len(AddFiles)
    BY SMT, <1>1, <1>2 DEF FilesAdded, ArgOK, AddLabels
<1>4. pc[p] \in AddLabels /\ ~(arg[p].flag /\ arg[p].n = 0)
          => FilesAdded(p) < Len(AddFiles)
    BY SMT, <1>1, <1>2 DEF FilesAdded, ArgOK, AddLabels
<1> QED
    BY SMT, <1>2, <1>3, <1>4, AddRootsAssumption DEF CurRoot

\* The steps of Adder preserve the types.
LEMMA AdderStepType ==
    ASSUME TypeInv, NEW p \in Proc, AdderStep(p)
    PROVE  TypeInv'
<1> USE DEF AddLabels, Labels, PinLabels, FreeLabels, LockTypeOK, lockVars, ArgOK
<1>a. LocalOK /\ StoreOK /\ arg[p] \in ArgType /\ ArgOK(pc[p], arg[p]) /\ pc[p] \in Labels
    BY DEF TypeInv, LocalOK
<1>b. SUFFICES LocalOK' /\ StoreOK'
    BY DEF TypeInv
<1>1. CASE AddStart(p)
  <2>1. PICK dir \in BOOLEAN :
            Start(p, "addLock", [NoArg EXCEPT !.op = "add", !.flag = dir])
      BY Zenon, <1>1 DEF AddStart
  <2>2. [NoArg EXCEPT !.op = "add", !.flag = dir] \in ArgType
      BY Zenon DEF NoArg, ArgType
  <2>3. ArgOK("addLock", [NoArg EXCEPT !.op = "add", !.flag = dir])
      BY SMT, AddFilesAssumption DEF NoArg
  <2> QED
      BY Zenon, <1>a, <1>1, <2>1, <2>2, <2>3, StartStep DEF AddStart, StoreOK
<1>2. CASE AddLock(p)
    BY SMTT(40), <1>a, <1>2, TakePinLockStep DEF AddLock, TakePinLock, TypeInv, ArgType
<1>3. CASE AddPause(p)
  <2>1. AddRoots[FilesAdded(p)] \in Cid /\ CurRoot(FilesAdded(p)) \in Cid
      BY Zenon, <1>a, <1>3, FilesAddedRange DEF AddPause, PinLocked
  <2>2. LocalOK'
      BY Zenon, <1>a, <1>3, GotoStep DEF AddPause, PinLocked, Calls
  <2> QED
      BY Zenon, <1>a, <1>3, <2>1, <2>2 DEF AddPause, StoreOK
<1>4. CASE AddPauseUnlock(p)
    BY Zenon, <1>a, <1>4, GotoStep DEF AddPauseUnlock, PinLocked, PinUnlock, StoreOK
<1>5. CASE AddPauseRelock(p)
    BY Zenon, <1>a, <1>5, TakePinLockStep DEF AddPauseRelock, TakePinLock, TypeInv
<1>6. CASE AddNoPause(p)
    BY Zenon, <1>a, <1>6, GotoStep DEF AddNoPause, PinLocked, Calls, StoreOK
<1>7. CASE AddNode(p)
  <2> DEFINE a == [arg[p] EXCEPT !.n = @ + 1]
  <2>1. a \in ArgType /\ a.flag = arg[p].flag /\ a.n = arg[p].n + 1
      BY SMT, <1>a DEF ArgType
  <2>2. arg' = [arg EXCEPT ![p] = a] /\ pc' = [pc EXCEPT ![p] = "add"]
      BY <1>7 DEF AddNode
  <2>3. ArgOK("add", a)
      BY SMT, <1>a, <1>7, <2>1, AddFilesAssumption DEF AddNode, PinLocked, ArgType
  <2> HIDE DEF a
  <2>4. LocalOK'
      BY Zenon, <1>a, <2>1, <2>2, <2>3, LocalStep
  <2>5. AddRoots[FilesAdded(p)] \in Cid
      BY <1>a, <1>7, FilesAddedRange DEF AddNode, PinLocked
  <2>6. ~(arg[p].flag /\ arg[p].n = 0)
            => Descendants[AddFiles[FilesAdded(p) + 1]] \in SUBSET Cid
      BY Zenon, <1>a, <1>7, FilesAddedRange, DescendantsGraph DEF AddNode, PinLocked
  <2> QED
      BY <1>a, <1>7, <2>4, <2>5, <2>6 DEF AddNode, StoreOK
<1>8. CASE AddFinish(p)
  <2>1. AddRoots[FilesAdded(p)] \in Cid
      BY <1>a, <1>8, FilesAddedRange DEF AddFinish, PinLocked
  <2>2. AddRoots[Len(AddFiles)] \in Cid /\ AddFiles[1] \in Cid
      BY SMTT(40), AddFilesAssumption, AddRootsAssumption
  <2> QED
      BY Zenon, <1>a, <1>8, <2>1, <2>2, GotoStep DEF AddFinish, StoreOK
<1>9. CASE AddFail(p)
  <2>1. FilesAdded(p) < Len(AddFiles)
            => Descendants[AddFiles[FilesAdded(p) + 1]] \in SUBSET Cid
      BY Zenon, <1>a, <1>9, FilesAddedRange, DescendantsGraph DEF AddFail, PinLocked
  <2> QED
      BY Zenon, <1>a, <1>9, <2>1, GotoStep DEF AddFail, StoreOK
<1> QED
    BY <1>1, <1>2, <1>3, <1>4, <1>5, <1>6, <1>7, <1>8, <1>9 DEF AdderStep

\* The steps of Collector preserve the types.
LEMMA CollectorStepType ==
    ASSUME TypeInv, NEW p \in Proc, CollectorStep(p)
    PROVE  TypeInv'
<1> USE DEF AddLabels, Labels, FreeLabels, GCLabels, GCWaitLabels, LockTypeOK, lockVars,
        ArgOK, GCLocked
<1>a. LocalOK /\ StoreOK /\ arg[p] \in ArgType /\ ArgOK(pc[p], arg[p]) /\ pc[p] \in Labels
    BY Zenon DEF TypeInv, LocalOK
<1>b. SUFFICES LocalOK' /\ StoreOK'
    BY DEF TypeInv
<1>1. CASE AnnounceGCLock(p)
    BY SMTT(40), <1>a, <1>1 DEF AnnounceGCLock, GCAnnounce, LocalOK, StoreOK
<1>2. CASE ReleaseGCLock(p)
    BY Zenon, <1>a, <1>2, NoArgType, LocalStep DEF ReleaseGCLock, GCUnlock, StoreOK
<1>3. CASE GCStart(p)
  <2>1. [NoArg EXCEPT !.op = "gc", !.to = mfsRoot] \in ArgType
      BY Zenon, <1>a DEF NoArg, ArgType, StoreOK
  <2> QED
      BY Zenon, <1>a, <1>3, <2>1, StartStep DEF GCStart, StoreOK
<1>4. CASE GCRequestLock(p)
    BY Zenon, <1>a, <1>4, GotoStep DEF GCRequestLock, GCRequest, StoreOK
<1>5. CASE GCLock(p)
    BY <1>a, <1>5, GotoStep DEF GCLock, TakeGCLock, GCAcquire, StoreOK
<1>6. CASE MarkRecursive(p)
  <2>1. Reach(rpins, blocks) \in SUBSET Cid
      BY DEF Reach
  <2>2. PICK l \in {"markBestEffort", "gcUnlock"} : pc' = [pc EXCEPT ![p] = l]
      BY Zenon, <1>6 DEF MarkRecursive
  <2> QED
      BY Zenon, <1>a, <1>6, <2>1, <2>2, SeenStep DEF MarkRecursive, StoreOK
<1>7. CASE MarkBestEffort(p)
  <2>1. arg[p].seen \cup Reach({arg[p].to}, blocks) \in SUBSET Cid
      BY <1>a DEF Reach, ArgType
  <2> QED
      BY Zenon, <1>a, <1>7, <2>1, SeenStep DEF MarkBestEffort, StoreOK
<1>8. CASE MarkDirect(p)
  <2>1. arg[p].seen \cup dpins \in SUBSET Cid
      BY Zenon, <1>a DEF ArgType, StoreOK
  <2> QED
      BY Zenon, <1>a, <1>8, <2>1, SeenStep DEF MarkDirect, StoreOK
<1>9. CASE MarkFail(p)
    BY Zenon, <1>a, <1>9, GotoStep DEF MarkFail, StoreOK
<1>10. CASE Sweep(p)
    BY Zenon, <1>a, <1>10 DEF Sweep, LocalOK, StoreOK
<1>11. CASE SweepEnd(p)
    BY <1>a, <1>11, GotoStep DEF SweepEnd, StoreOK
<1>12. CASE RmBlocksStart(p)
  <2>1. PICK cs \in SUBSET RmCids :
            Start(p, "rmblocksRequest", [NoArg EXCEPT !.op = "rmblocks", !.todo = cs])
      BY Zenon, <1>12 DEF RmBlocksStart
  <2>2. [NoArg EXCEPT !.op = "rmblocks", !.todo = cs] \in ArgType
      BY Zenon, CollectorCidAssumption DEF NoArg, ArgType
  <2> QED
      BY Zenon, <1>a, <1>12, <2>1, <2>2, StartStep DEF RmBlocksStart, StoreOK
<1>13. CASE RmBlocksRequestLock(p)
    BY Zenon, <1>a, <1>13, GotoStep DEF RmBlocksRequestLock, GCRequest, StoreOK
<1>14. CASE RmBlocksLock(p)
    BY <1>a, <1>14, GotoStep DEF RmBlocksLock, TakeGCLock, GCAcquire, StoreOK
<1>15. CASE FilterPinned(p)
  <2>1. arg[p].todo \ Protected \in SUBSET Cid
      BY Zenon, <1>a DEF ArgType
  <2> QED
      BY Zenon, <1>a, <1>15, <2>1, TodoStep DEF FilterPinned, StoreOK
<1>16. CASE FilterPinnedFail(p)
    BY <1>a, <1>16, GotoStep DEF FilterPinnedFail, StoreOK
<1>17. CASE RmBlock(p)
  <2>1. PICK c \in arg[p].todo :
            /\ blocks' \in {blocks, blocks \ {c}}
            /\ arg' = [arg EXCEPT ![p].todo = @ \ {c}]
      BY Zenon, <1>17 DEF RmBlock
  <2>2. arg[p].todo \ {c} \in SUBSET Cid
      BY <1>a DEF ArgType
  <2>3. pc' = [pc EXCEPT ![p] = pc[p]]
      BY <1>a, <1>17 DEF RmBlock, LocalOK
  <2>4. LocalOK'
      BY ZenonT(60), <1>a, <2>1, <2>2, <2>3, TodoStep
  <2> QED
      BY <1>a, <1>17, <2>1, <2>4 DEF RmBlock, StoreOK
<1>18. CASE RmBlocksEnd(p)
    BY <1>a, <1>18, GotoStep DEF RmBlocksEnd, StoreOK
<1>19. CASE MfsWrite(p)
  <2>1. PICK r \in MfsRoots :
            /\ Start(p, "mfsFlush", [NoArg EXCEPT !.op = "mfs", !.c = r])
            /\ \E cs \in {NewChildren(r), Closure(NewChildren(r))} : blocks' = blocks \cup cs
      BY Zenon, <1>19 DEF MfsWrite
  <2>2. r \in Cid /\ NewChildren(r) \in SUBSET Cid
      BY CollectorCidAssumption, LinksAssumption DEF NewChildren
  <2>3. Closure(NewChildren(r)) \in SUBSET Cid
      BY <2>2, ClosureType
  <2>4. [NoArg EXCEPT !.op = "mfs", !.c = r] \in ArgType
      BY Zenon, <2>2 DEF NoArg, ArgType
  <2>5. ArgOK("mfsFlush", [NoArg EXCEPT !.op = "mfs", !.c = r])
      BY <2>2 DEF NoArg
  <2> QED
      BY ZenonT(60), <1>a, <1>19, <2>1, <2>2, <2>3, <2>4, <2>5, StartStep DEF MfsWrite, StoreOK
<1>20. CASE MfsFlush(p)
  <2>1. arg[p].c \in Cid /\ NewChildren(arg[p].c) \in SUBSET Cid
      BY <1>a, <1>20, LinksAssumption DEF MfsFlush, NewChildren
  <2> QED
      BY Zenon, <1>a, <1>20, <2>1, NoArgType, LocalStep DEF MfsFlush, StoreOK
<1> QED
    BY Zenon, <1>1, <1>2, <1>3, <1>4, <1>5, <1>6, <1>7, <1>8, <1>9, <1>10, <1>11, <1>12,
       <1>13, <1>14, <1>15, <1>16, <1>17, <1>18, <1>19, <1>20 DEF CollectorStep

LEMMA InitType == Init => TypeInv
BY Zenon, NoArgType, MfsInitAssumption
   DEF Init, LockInit, TypeInv, LocalOK, StoreOK, LockTypeOK, ArgOK, AddLabels,
       Labels, FreeLabels

LEMMA NextType == TypeInv /\ [Next]_nodeVars => TypeInv'
<1> SUFFICES ASSUME TypeInv, [Next]_nodeVars PROVE TypeInv'
    BY Zenon
<1>1. CASE PutUnlocked
    BY <1>1, RemoteAssumption
       DEF PutUnlocked, TypeInv, LocalOK, StoreOK, LockTypeOK, ArgOK, lockVars
<1>2. ASSUME NEW p \in Proc, ReleasePinLock(p) PROVE TypeInv'
  <2>1. LocalOK'
      BY Zenon, <1>2, NoArgType, LocalStep
         DEF ReleasePinLock, TypeInv, ArgOK, AddLabels, Labels, FreeLabels
  <2> QED
      BY <1>2, <2>1 DEF ReleasePinLock, PinUnlock, TypeInv, StoreOK, LockTypeOK
<1>3. CASE UNCHANGED nodeVars
    BY <1>3 DEF nodeVars, lockVars, TypeInv, LocalOK, StoreOK, LockTypeOK, ArgOK
<1> QED
    BY <1>1, <1>2, <1>3, PinStepType, AdderStepType, CollectorStepType DEF Next, Step

\* Every reachable state is well typed.
THEOREM TypeCorrect == Spec => []TypeOK
<1>1. Spec => []TypeInv
    BY InitType, NextType, PTL DEF Spec
<1> QED
    BY <1>1, TypeInvImpliesTypeOK, PTL

-----------------------------------------------------------------------------
(* The lock.  Where a goroutine is in its operation tells what it holds.   *)

LockDiscipline ==
    /\ LockInv
    /\ \A p \in Proc :
          /\ pc[p] \in PinLabels <=> p \in rheld \cup rwait
          /\ pc[p] \in PinHeldLabels => p \in rheld
          /\ pc[p] \in GCLabels <=> wowner = p /\ wactive
          /\ pc[p] \in GCWaitLabels <=> p \in gcreq

\* Goroutine p moves to a label in L; the others stay where they are.
Moves(p, L) ==
    /\ pc'[p] \in L
    /\ \A q \in Proc \ {p} : pc'[q] = pc[q] /\ arg'[q] = arg[q]

\* The four kinds of steps: with PinLock held, with GCLock held, without a
\* lock, and the operations of the lock itself.
PinKind(p) ==
    /\ p \in rheld /\ pc[p] \in PinLabels /\ Moves(p, PinLabels)
    /\ blocks \subseteq blocks'
    /\ UNCHANGED lockVars

GCKind(p) ==
    /\ wowner = p /\ wactive /\ pc[p] \in GCLabels /\ Moves(p, GCLabels)
    /\ UNCHANGED <<lockVars, rpins, dpins>>

FreeKind(p) ==
    /\ pc[p] \in FreeLabels /\ Moves(p, FreeLabels \ {"addRelock"})
    /\ blocks \subseteq blocks'
    /\ UNCHANGED <<lockVars, rpins, dpins>>

LockKind(p) ==
    /\ \/ pc[p] \in FreeLabels /\ PinLock(p) /\ Moves(p, PinLabels \ PinHeldLabels)
       \/ pc[p] \in {"unlock", "addUnlock"} /\ PinUnlock(p) /\ Moves(p, FreeLabels)
       \/ pc[p] \in FreeLabels /\ GCRequest(p) /\ Moves(p, GCWaitLabels)
       \/ pc[p] \in GCWaitLabels /\ GCAnnounce(p) /\ Moves(p, GCWaitLabels)
       \/ pc[p] \in GCWaitLabels /\ GCAcquire(p) /\ Moves(p, {"markRecursive", "filterPinned"})
       \/ pc[p] = "gcUnlock" /\ GCUnlock(p) /\ Moves(p, FreeLabels)
    /\ arg'[p] = IF pc[p] \in {"unlock", "gcUnlock"} THEN NoArg ELSE arg[p]
    /\ UNCHANGED <<blocks, rpins, dpins>>

\* Every step of PinAPI is of one of these kinds.
LEMMA PinStepKind ==
    ASSUME TypeInv, NEW p \in Proc, PinStep(p)
    PROVE  PinKind(p) \/ FreeKind(p) \/ LockKind(p)
<1> USE DEF Moves, PinLocked, Goto, EndWalk, Start
<1>a. pc \in [Proc -> Labels] /\ arg \in [Proc -> ArgType]
    BY DEF TypeInv, LocalOK
<1>1. CASE PinBegin(p) \/ FetchNode(p) \/ FetchFail(p) \/ PinCommit(p) \/ PinAddProvide(p)
    BY <1>a, <1>1
       DEF PinBegin, FetchNode, FetchFail, PinCommit, PinAddProvide, AfterPin, AfterPinError,
           PinKind, PinLabels
<1>2. CASE Unpin(p) \/ UpdateBegin(p) \/ UpdateCommit(p)
    BY <1>a, <1>2 DEF Unpin, UpdateBegin, UpdateCommit, PinKind, PinLabels
<1>3. CASE PutAdd(p) \/ PutFail(p) \/ PutPin(p)
    BY <1>a, <1>3 DEF PutAdd, PutFail, PutPin, PinKind, PinLabels
<1>4. CASE ImportBlocks(p) \/ ImportPinRoot(p) \/ ImportDone(p)
    BY Zenon, <1>a, <1>4 DEF ImportBlocks, ImportPinRoot, ImportDone, PinKind, PinLabels
<1>5. CASE \/ PinAddResolve(p) \/ PinRmResolve(p) \/ PinUpdateResolve(p)
           \/ PutStart(p) \/ ImportStart(p)
    BY Zenon, <1>a, <1>5
       DEF PinAddResolve, PinRmResolve, PinUpdateResolve, PutStart, ImportStart, FreeKind,
           FreeLabels
<1>6. CASE \/ PinAddLock(p) \/ PinRmLock(p) \/ PinUpdateLock(p)
           \/ PutLock(p) \/ ImportLock(p)
    BY <1>a, <1>6
       DEF PinAddLock, PinRmLock, PinUpdateLock, PutLock, ImportLock, TakePinLock, LockKind,
           FreeLabels, PinLabels, PinHeldLabels
<1> QED
    BY <1>1, <1>2, <1>3, <1>4, <1>5, <1>6 DEF PinStep

LEMMA AdderStepKind ==
    ASSUME TypeInv, NEW p \in Proc, AdderStep(p)
    PROVE  PinKind(p) \/ FreeKind(p) \/ LockKind(p)
<1> USE DEF Moves, PinLocked, Goto, Start
<1>a. pc \in [Proc -> Labels] /\ arg \in [Proc -> ArgType]
    BY DEF TypeInv, LocalOK
<1>1. CASE AddPause(p) \/ AddNoPause(p) \/ AddNode(p) \/ AddFinish(p) \/ AddFail(p)
    BY <1>a, <1>1 DEF AddPause, AddNoPause, AddNode, AddFinish, AddFail, PinKind, PinLabels
<1>2. CASE AddStart(p)
    BY Zenon, <1>a, <1>2 DEF AddStart, FreeKind, FreeLabels
<1>3. CASE AddLock(p) \/ AddPauseRelock(p)
    BY Zenon, <1>a, <1>3
       DEF AddLock, AddPauseRelock, TakePinLock, LockKind, FreeLabels, PinLabels, PinHeldLabels
<1>4. CASE AddPauseUnlock(p)
    BY <1>a, <1>4 DEF AddPauseUnlock, LockKind, FreeLabels, PinLabels, PinHeldLabels
<1> QED
    BY <1>1, <1>2, <1>3, <1>4 DEF AdderStep

LEMMA CollectorStepKind ==
    ASSUME TypeInv, NEW p \in Proc, CollectorStep(p)
    PROVE  GCKind(p) \/ FreeKind(p) \/ LockKind(p)
<1> USE DEF Moves, GCLocked, Goto, Start
<1>a. pc \in [Proc -> Labels] /\ arg \in [Proc -> ArgType]
    BY DEF TypeInv, LocalOK
<1>1. CASE \/ MarkRecursive(p) \/ MarkBestEffort(p) \/ MarkDirect(p) \/ MarkFail(p)
           \/ Sweep(p) \/ SweepEnd(p)
    BY <1>a, <1>1
       DEF MarkRecursive, MarkBestEffort, MarkDirect, MarkFail, Sweep, SweepEnd, GCKind, GCLabels
<1>2. CASE FilterPinned(p) \/ FilterPinnedFail(p) \/ RmBlock(p) \/ RmBlocksEnd(p)
    BY SMTT(40), <1>a, <1>2 DEF FilterPinned, FilterPinnedFail, RmBlock, RmBlocksEnd, GCKind, GCLabels
<1>3. CASE GCStart(p) \/ RmBlocksStart(p) \/ MfsWrite(p) \/ MfsFlush(p)
    BY Zenon, <1>a, <1>3 DEF GCStart, RmBlocksStart, MfsWrite, MfsFlush, FreeKind, FreeLabels
<1>4. CASE GCRequestLock(p) \/ RmBlocksRequestLock(p) \/ AnnounceGCLock(p)
    BY Zenon, <1>a, <1>4
       DEF GCRequestLock, RmBlocksRequestLock, AnnounceGCLock, LockKind, FreeLabels, GCWaitLabels
<1>5. CASE GCLock(p) \/ RmBlocksLock(p) \/ ReleaseGCLock(p)
    BY <1>a, <1>5
       DEF GCLock, RmBlocksLock, TakeGCLock, ReleaseGCLock, LockKind, FreeLabels, GCLabels,
           GCWaitLabels
<1> QED
    BY <1>1, <1>2, <1>3, <1>4, <1>5 DEF CollectorStep

\* A step that leaves everything but the block store alone.
IdleKind ==
    /\ blocks \subseteq blocks'
    /\ UNCHANGED <<lockVars, rpins, dpins, pc, arg>>

LEMMA NextKind ==
    ASSUME TypeInv, [Next]_nodeVars
    PROVE  \/ IdleKind
           \/ \E p \in Proc :
                 \/ PinKind(p) /\ (PinStep(p) \/ AdderStep(p))
                 \/ GCKind(p) /\ CollectorStep(p)
                 \/ FreeKind(p) \/ LockKind(p)
<1>1. CASE PutUnlocked \/ UNCHANGED nodeVars
    BY Zenon, <1>1 DEF PutUnlocked, nodeVars, IdleKind
<1>2. ASSUME NEW p \in Proc, ReleasePinLock(p) PROVE LockKind(p)
    BY <1>2
       DEF ReleasePinLock, LockKind, Moves, TypeInv, LocalOK, FreeLabels, PinLabels, PinHeldLabels
<1> QED
    BY <1>1, <1>2, PinStepKind, AdderStepKind, CollectorStepKind DEF Next, Step

LEMMA InitDiscipline == Init => LockDiscipline
BY ZenonT(60) DEF Init, LockInit, LockDiscipline, LockInv, PinLabels, PinHeldLabels, GCLabels, GCWaitLabels

LEMMA NextDiscipline ==
    ASSUME TypeInv, LockDiscipline, [Next]_nodeVars
    PROVE  LockDiscipline'
<1> USE DEF LockDiscipline, LockInv
<1>a. LockTypeOK /\ pc \in [Proc -> Labels] /\ NoProc \notin Proc
    BY NoProcAssumption DEF TypeInv, LocalOK, StoreOK
<1>b. /\ PinHeldLabels \subseteq PinLabels
      /\ PinLabels \cap FreeLabels = {} /\ PinLabels \cap GCLabels = {}
      /\ PinLabels \cap GCWaitLabels = {} /\ FreeLabels \cap GCLabels = {}
      /\ FreeLabels \cap GCWaitLabels = {} /\ GCLabels \cap GCWaitLabels = {}
    BY SMT DEF PinHeldLabels, PinLabels, FreeLabels, GCLabels, GCWaitLabels
<1>1. CASE IdleKind
    BY Zenon, <1>1 DEF IdleKind, lockVars
<1>2. ASSUME NEW p \in Proc, PinKind(p) PROVE LockDiscipline'
    BY Zenon, <1>a, <1>b, <1>2 DEF PinKind, Moves, lockVars
<1>3. ASSUME NEW p \in Proc, GCKind(p) PROVE LockDiscipline'
    BY ZenonT(60), <1>a, <1>b, <1>3 DEF GCKind, Moves, lockVars
<1>4. ASSUME NEW p \in Proc, FreeKind(p) PROVE LockDiscipline'
    BY SMTT(40), <1>a, <1>b, <1>4 DEF FreeKind, Moves, lockVars
<1>5. ASSUME NEW p \in Proc, LockKind(p) PROVE LockDiscipline'
  <2> USE DEF Moves, LockTypeOK
  <2>1. CASE pc[p] \in FreeLabels /\ PinLock(p) /\ Moves(p, PinLabels \ PinHeldLabels)
      BY ZenonT(60), <1>a, <1>b, <2>1 DEF PinLock
  <2>2. CASE pc[p] \in {"unlock", "addUnlock"} /\ PinUnlock(p) /\ Moves(p, FreeLabels)
      BY ZenonT(60), <1>a, <1>b, <2>2 DEF PinUnlock, PinHeldLabels, PinLabels
  <2>3. CASE pc[p] \in FreeLabels /\ GCRequest(p) /\ Moves(p, GCWaitLabels)
      BY Zenon, <1>a, <1>b, <2>3 DEF GCRequest
  <2>4. CASE pc[p] \in GCWaitLabels /\ GCAnnounce(p) /\ Moves(p, GCWaitLabels)
      BY Zenon, <1>a, <1>b, <2>4 DEF GCAnnounce
  <2>5. CASE /\ pc[p] \in GCWaitLabels /\ GCAcquire(p)
             /\ Moves(p, {"markRecursive", "filterPinned"})
      BY Zenon, <1>a, <1>b, <2>5 DEF GCAcquire, GCLabels
  <2>6. CASE pc[p] = "gcUnlock" /\ GCUnlock(p) /\ Moves(p, FreeLabels)
      BY Zenon, <1>a, <1>b, <2>6 DEF GCUnlock, GCLabels
  <2> QED
      BY ZenonT(60), <1>5, <2>1, <2>2, <2>3, <2>4, <2>5, <2>6 DEF LockKind
<1> QED
    BY <1>1, <1>2, <1>3, <1>4, <1>5, NextKind

-----------------------------------------------------------------------------
(* Deletion.  What a collection has marked, and what block rm is about to  *)
(* remove, stays right until the deletion, because no pin changes while    *)
(* GCLock is held.                                                         *)

DeleteInv ==
    \A p \in Proc :
        /\ pc[p] \in {"markBestEffort", "markDirect"} => Closure(rpins) \subseteq arg[p].seen
        /\ pc[p] = "sweep" => Protected \subseteq arg[p].seen
        /\ pc[p] = "rmblocks" => arg[p].todo \cap Protected = {}

LEMMA NextDelete ==
    ASSUME TypeInv, LockDiscipline, DeleteInv, [Next]_nodeVars
    PROVE  /\ DeleteInv'
           /\ \A k \in blocks \ blocks' : k \notin Protected /\ k \notin Protected'
<1> DEFINE Spared == \A k \in blocks \ blocks' : k \notin Protected /\ k \notin Protected'
<1>a. /\ pc \in [Proc -> Labels] /\ arg \in [Proc -> ArgType]
      /\ rpins \in SUBSET Cid /\ NoProc \notin Proc
    BY NoProcAssumption DEF TypeInv, LocalOK, StoreOK
<1>b. UNCHANGED <<rpins, dpins>> => UNCHANGED <<Closure(rpins), Protected>>
    BY Zenon DEF Protected, Closure
<1>1. CASE IdleKind
    BY Zenon, <1>1, <1>b DEF IdleKind, DeleteInv
<1>2. ASSUME NEW p \in Proc, PinKind(p) PROVE DeleteInv' /\ Spared
  <2>1. ~wactive
      BY Zenon, <1>2 DEF PinKind, LockDiscipline, LockInv
  <2>2. \A q \in Proc : pc'[q] \notin GCLabels
      BY Zenon, <1>2, <2>1 DEF PinKind, Moves, LockDiscipline, PinLabels, GCLabels
  <2> QED
      BY <1>2, <2>2 DEF PinKind, DeleteInv, GCLabels
<1>3. ASSUME NEW p \in Proc, FreeKind(p) \/ LockKind(p) PROVE DeleteInv' /\ Spared
  <2>1. /\ pc'[p] \notin {"markBestEffort", "markDirect", "sweep", "rmblocks"}
        /\ \A q \in Proc \ {p} : pc'[q] = pc[q] /\ arg'[q] = arg[q]
        /\ blocks \subseteq blocks'
        /\ UNCHANGED <<rpins, dpins>>
      BY SMTT(40), <1>3 DEF FreeKind, LockKind, Moves, FreeLabels, PinLabels, PinHeldLabels, GCWaitLabels
  <2> QED
      BY ZenonT(60), <1>b, <2>1 DEF DeleteInv
<1>4. ASSUME NEW p \in Proc, GCKind(p), CollectorStep(p) PROVE DeleteInv' /\ Spared
  <2> USE DEF GCKind, Moves
  <2>a. /\ pc[p] \in GCLabels /\ UNCHANGED <<Closure(rpins), Protected>>
        /\ \A q \in Proc \ {p} : pc'[q] = pc[q] /\ arg'[q] = arg[q]
      BY Zenon, <1>4, <1>b
  <2>b. SUFFICES /\ pc'[p] \in {"markBestEffort", "markDirect"}
                        => Closure(rpins) \subseteq arg'[p].seen
                 /\ pc'[p] = "sweep" => Protected \subseteq arg'[p].seen
                 /\ pc'[p] = "rmblocks" => arg'[p].todo \cap Protected = {}
                 /\ \A k \in blocks \ blocks' : k \notin Protected
      BY <1>4, <2>a DEF DeleteInv
  <2>1. CASE MarkRecursive(p)
    <3>1. pc'[p] = "markBestEffort" => Closure(rpins) \subseteq arg'[p].seen
        BY SMT, <1>a, <2>1, CompleteWalk DEF MarkRecursive
    <3> QED
        BY <1>a, <2>1, <3>1 DEF MarkRecursive
  <2>2. CASE MarkBestEffort(p)
      BY SMT, <1>a, <2>2 DEF MarkBestEffort, GCLocked, DeleteInv
  <2>3. CASE MarkDirect(p)
      BY SMTT(40), <1>a, <2>3 DEF MarkDirect, GCLocked, DeleteInv, Protected
  <2>4. CASE MarkFail(p) \/ SweepEnd(p) \/ FilterPinnedFail(p) \/ RmBlocksEnd(p)
      BY Zenon, <1>a, <2>4 DEF MarkFail, SweepEnd, FilterPinnedFail, RmBlocksEnd, Goto
  <2>5. CASE Sweep(p)
      BY <1>a, <2>5 DEF Sweep, GCLocked, DeleteInv
  <2>6. CASE FilterPinned(p)
      BY SMT, <1>a, <2>6 DEF FilterPinned
  <2>7. CASE RmBlock(p)
      BY SMTT(40), <1>a, <2>7 DEF RmBlock, GCLocked, DeleteInv
  <2>8. CASE \/ GCStart(p) \/ RmBlocksStart(p) \/ MfsWrite(p) \/ MfsFlush(p)
             \/ GCRequestLock(p) \/ RmBlocksRequestLock(p) \/ AnnounceGCLock(p)
             \/ GCLock(p) \/ RmBlocksLock(p) \/ ReleaseGCLock(p)
      BY Zenon, <1>4, <2>8
         DEF GCStart, RmBlocksStart, MfsWrite, MfsFlush, GCRequestLock, RmBlocksRequestLock,
             AnnounceGCLock, GCLock, RmBlocksLock, TakeGCLock, ReleaseGCLock, Start, GCLabels,
             GCUnlock, lockVars
  <2> QED
      BY ZenonT(60), <1>4, <2>1, <2>2, <2>3, <2>4, <2>5, <2>6, <2>7, <2>8 DEF CollectorStep
<1> QED
    BY <1>1, <1>2, <1>3, <1>4, NextKind

\* What gc.GC sweeps and what RmBlocks removes is, at the moment of the
\* deletion, outside everything that a recursive or a direct pin protects,
\* although both decided it in an earlier step: for every number of
\* concurrent requests and every graph, also one that is only partly stored.
THEOREM DeletionsSparePins == Spec => DeleteSparesPinned
<1> DEFINE Inv == TypeInv /\ LockDiscipline /\ DeleteInv
<1>1. Init => Inv
  <2>1. Init => DeleteInv
      BY Zenon DEF Init, DeleteInv
  <2> QED
      BY Zenon, <2>1, InitType, InitDiscipline
<1>2. Inv /\ [Next]_nodeVars => Inv'
    BY NextType, NextDiscipline, NextDelete
<1>3. Inv /\ [Next]_nodeVars
        => [\A k \in blocks \ blocks' : k \notin Protected /\ k \notin Protected']_nodeVars
    BY Zenon, NextDelete
<1> QED
    BY <1>1, <1>2, <1>3, PTL DEF Spec, DeleteSparesPinned

-----------------------------------------------------------------------------
(* Requests.  Local variables that an operation got from its client, and   *)
(* the ones that it must not have left over from an earlier walk.          *)

ReqOK(l, a) ==
    /\ l \in {"rmLock", "rm", "updateLock", "update", "diff"} => a.c \in UnpinCids
    /\ l \in {"putLock", "put", "putPin"} => a.todo \subseteq PutCids
    /\ l \notin {"fetch", "diff"} \cup GCLabels => a.seen = {}
    /\ l \in AddLabels \cup {"add"} => a.op = "add"
    /\ a.op = "add" => l \in AddLabels \cup {"add", "unlock"}
    /\ l = "addLock" => a.n = 0

RequestInv == \A p \in Proc : ReqOK(pc[p], arg[p])

LEMMA IdleRequest == ReqOK("idle", NoArg)
BY DEF ReqOK, NoArg, AddLabels, GCLabels

LEMMA PinStepRequest ==
    ASSUME TypeInv, NEW p \in Proc, ReqOK(pc[p], arg[p]), PinStep(p)
    PROVE  ReqOK(pc'[p], arg'[p])
<1> USE DEF ReqOK, AddLabels, GCLabels
<1>a. pc \in [Proc -> Labels] /\ arg \in [Proc -> ArgType] /\ arg[p] \in ArgType
    BY Zenon DEF TypeInv, LocalOK
<1>1. CASE PinBegin(p) \/ PinAddProvide(p) \/ Unpin(p) \/ UpdateBegin(p)
    BY SMT, <1>a, <1>1
       DEF PinBegin, PinAddProvide, Unpin, UpdateBegin, PinLocked, Goto, AfterPin, AfterPinError
<1>2. CASE FetchNode(p)
    BY SMTT(40), <1>a, <1>2 DEF FetchNode, PinLocked, ArgType
<1>3. CASE FetchFail(p) \/ PinCommit(p) \/ UpdateCommit(p)
    BY SMTT(40), <1>a, <1>3
       DEF FetchFail, PinCommit, UpdateCommit, PinLocked, EndWalk, AfterPin, AfterPinError, ArgType
<1>4. CASE PinAddResolve(p) \/ PinRmResolve(p) \/ PinUpdateResolve(p)
  <2>1. CASE PinAddResolve(p)
      BY SMT, <1>a, <2>1 DEF PinAddResolve, Start, NoArg
  <2>2. CASE PinRmResolve(p)
      BY SMT, <1>a, <2>2 DEF PinRmResolve, Start, NoArg
  <2>3. CASE PinUpdateResolve(p)
      BY SMTT(40), <1>a, <2>3 DEF PinUpdateResolve, Start, NoArg
  <2> QED
      BY <1>4, <2>1, <2>2, <2>3
<1>5. CASE PutStart(p) \/ ImportStart(p)
    BY ZenonT(60), <1>a, <1>5 DEF PutStart, ImportStart, Start, NoArg
<1>6. CASE \/ PinAddLock(p) \/ PinRmLock(p) \/ PinUpdateLock(p)
           \/ PutLock(p) \/ ImportLock(p)
    BY Zenon, <1>a, <1>6
       DEF PinAddLock, PinRmLock, PinUpdateLock, PutLock, ImportLock, TakePinLock, Goto
<1>7. CASE PutAdd(p) \/ PutFail(p) \/ ImportBlocks(p) \/ ImportDone(p)
    BY Zenon, <1>a, <1>7 DEF PutAdd, PutFail, ImportBlocks, ImportDone, PinLocked, Goto
<1>8. CASE PutPin(p)
    BY SMT, <1>a, <1>8 DEF PutPin, PinLocked, ArgType
<1>9. CASE ImportPinRoot(p)
    BY SMTT(40), <1>a, <1>9 DEF ImportPinRoot, PinLocked, ArgType
<1> QED
    BY ZenonT(60), <1>1, <1>2, <1>3, <1>4, <1>5, <1>6, <1>7, <1>8, <1>9 DEF PinStep

LEMMA AdderStepRequest ==
    ASSUME TypeInv, NEW p \in Proc, ReqOK(pc[p], arg[p]), AdderStep(p)
    PROVE  ReqOK(pc'[p], arg'[p])
<1> USE DEF ReqOK, AddLabels, GCLabels
<1>a. pc \in [Proc -> Labels] /\ arg \in [Proc -> ArgType] /\ arg[p] \in ArgType
    BY DEF TypeInv, LocalOK
<1>1. CASE AddStart(p)
    BY SMTT(40), <1>a, <1>1 DEF AddStart, Start, NoArg
<1>2. CASE AddLock(p) \/ AddPauseRelock(p)
    BY SMTT(40), <1>a, <1>2 DEF AddLock, AddPauseRelock, TakePinLock, Goto
<1>3. CASE AddPause(p) \/ AddPauseUnlock(p) \/ AddNoPause(p) \/ AddFinish(p) \/ AddFail(p)
    BY ZenonT(60), <1>a, <1>3
       DEF AddPause, AddPauseUnlock, AddNoPause, AddFinish, AddFail, PinLocked, Goto
<1>4. CASE AddNode(p)
    BY <1>a, <1>4 DEF AddNode, PinLocked, ArgType
<1> QED
    BY Zenon, <1>1, <1>2, <1>3, <1>4 DEF AdderStep

LEMMA CollectorStepRequest ==
    ASSUME TypeInv, NEW p \in Proc, ReqOK(pc[p], arg[p]), CollectorStep(p)
    PROVE  ReqOK(pc'[p], arg'[p])
<1> USE DEF ReqOK, AddLabels, GCLabels
<1>a. pc \in [Proc -> Labels] /\ arg \in [Proc -> ArgType] /\ arg[p] \in ArgType
    BY DEF TypeInv, LocalOK
<1>1. CASE ReleaseGCLock(p) \/ GCStart(p) \/ RmBlocksStart(p) \/ MfsWrite(p) \/ MfsFlush(p)
  <2>1. CASE ReleaseGCLock(p) \/ MfsFlush(p)
    <3>1. pc'[p] = "idle" /\ arg'[p] = NoArg
        BY ZenonT(60), <1>a, <2>1 DEF ReleaseGCLock, MfsFlush
    <3> HIDE DEF ReqOK
    <3> QED
        BY <3>1, IdleRequest
  <2>2. CASE GCStart(p) \/ RmBlocksStart(p)
      BY ZenonT(60), <1>a, <2>2 DEF GCStart, RmBlocksStart, Start, NoArg
  <2>3. CASE MfsWrite(p)
      BY SMT, <1>a, <2>3 DEF MfsWrite, Start, NoArg
  <2> QED
      BY ZenonT(60), <1>1, <2>1, <2>2, <2>3
<1>2. CASE \/ AnnounceGCLock(p) \/ GCRequestLock(p) \/ RmBlocksRequestLock(p)
           \/ GCLock(p) \/ RmBlocksLock(p)
    BY Zenon, <1>a, <1>2
       DEF AnnounceGCLock, GCRequestLock, RmBlocksRequestLock, GCLock, RmBlocksLock, TakeGCLock,
           Goto
<1>3. CASE MarkRecursive(p) \/ MarkBestEffort(p) \/ MarkDirect(p)
    BY SMT, <1>a, <1>3 DEF MarkRecursive, MarkBestEffort, MarkDirect, GCLocked, ArgType
<1>4. CASE FilterPinned(p) \/ RmBlock(p)
    BY SMTT(40), <1>a, <1>4 DEF FilterPinned, RmBlock, GCLocked, ArgType
<1>5. CASE MarkFail(p) \/ Sweep(p) \/ SweepEnd(p) \/ FilterPinnedFail(p) \/ RmBlocksEnd(p)
    BY Zenon, <1>a, <1>5 DEF MarkFail, Sweep, SweepEnd, FilterPinnedFail, RmBlocksEnd, GCLocked, Goto
<1> QED
    BY ZenonT(60), <1>1, <1>2, <1>3, <1>4, <1>5 DEF CollectorStep

LEMMA NextRequest ==
    ASSUME TypeInv, RequestInv, [Next]_nodeVars
    PROVE  RequestInv'
<1> SUFFICES ASSUME NEW q \in Proc PROVE ReqOK(pc'[q], arg'[q])
    BY Zenon DEF RequestInv, ReqOK
<1>1. CASE PutUnlocked \/ UNCHANGED nodeVars
    BY Zenon, <1>1 DEF PutUnlocked, nodeVars, RequestInv
<1>2. ASSUME NEW p \in Proc, ReleasePinLock(p) PROVE ReqOK(pc'[q], arg'[q])
    BY SMTT(40), <1>2 DEF ReleasePinLock, TypeInv, LocalOK, RequestInv, ReqOK, NoArg, AddLabels, GCLabels
<1>3. ASSUME NEW p \in Proc, PinStep(p) \/ AdderStep(p) \/ CollectorStep(p), q # p
      PROVE  pc'[q] = pc[q] /\ arg'[q] = arg[q]
    BY Zenon, <1>3, PinStepKind, AdderStepKind, CollectorStepKind
       DEF PinKind, FreeKind, LockKind, GCKind, Moves
<1> QED
    BY ZenonT(60), <1>1, <1>2, <1>3, PinStepRequest, AdderStepRequest, CollectorStepRequest
       DEF Next, Step, RequestInv

-----------------------------------------------------------------------------
(* Completeness of the pins.                                               *)

\* Clients put with --pin only nodes without links.  PinWithMode looks at no
\* child, so without this a pin may be incomplete from the start.
LeafPuts == \A c \in PutCids : Links[c] = {}

\* No client unpins, or updates, the root that a running add has pinned for a
\* pause.
TempRootsKept == \A k \in 1..Len(AddFiles) : CurRoot(k) \notin UnpinCids

\* What an operation relies on being stored: the nodes its walk has visited,
\* the nodes it has put and will pin, the graph that an update starts from or
\* that was found pinned, the files that an add has written.  While the add
\* is without the lock, the pin of its temporary root keeps them.
Relies(p) ==
    /\ pc[p] \in {"fetch", "diff"} => arg[p].seen \subseteq blocks
    /\ pc[p] = "putPin" => arg[p].todo \subseteq blocks
    /\ pc[p] = "diff" => Descendants[arg[p].c] \subseteq blocks
    /\ pc[p] = "pinned" /\ arg[p].flag => Descendants[arg[p].c] \subseteq blocks
    /\ arg[p].op = "add" =>
          \A i \in 1..FilesAdded(p) : Descendants[AddFiles[i]] \subseteq blocks
    /\ arg[p].op = "add" /\ FilesAdded(p) > 0 /\ (p \notin rheld \/ pc[p] = "addUnlock")
          => CurRoot(FilesAdded(p)) \in rpins

StoredInv == PinsComplete /\ \A p \in Proc : Relies(p)

LEMMA ClosureAdd ==
    ASSUME NEW R \in SUBSET Cid, NEW x \in Cid, NEW B,
           Closure(R) \subseteq B, Descendants[x] \subseteq B
    PROVE  Closure(R \cup {x}) \subseteq B
BY DEF Closure

LEMMA ClosureMember ==
    ASSUME NEW R, NEW x \in R
    PROVE  Descendants[x] \subseteq Closure(R)
BY DEF Closure

LEMMA ClosureMonotone ==
    ASSUME NEW R, NEW S, R \subseteq S
    PROVE  Closure(R) \subseteq Closure(S)
BY Zenon DEF Closure

\* The directory of the first k files is its node and the graphs of the files.
LEMMA DirGraph ==
    ASSUME NEW k \in 0..Len(AddFiles)
    PROVE  /\ AddRoots[k] \in Cid
           /\ \A i \in 1..k : AddFiles[i] \in Cid
           /\ Descendants[AddRoots[k]] =
                 {AddRoots[k]} \cup UNION {Descendants[AddFiles[i]] : i \in 1..k}
<1>1. AddRoots[k] \in Cid /\ Links[AddRoots[k]] = {AddFiles[i] : i \in 1..k}
    BY AddRootsAssumption
<1>2. \A i \in 1..k : AddFiles[i] \in Cid
    BY SMT, AddFilesAssumption
<1>3. UNION {Descendants[d] : d \in Links[AddRoots[k]]}
        = UNION {Descendants[AddFiles[i]] : i \in 1..k}
    BY Zenon, <1>1
<1> QED
    BY Zenon, <1>1, <1>2, <1>3, DescendantsUnfold

LEMMA CurRootGraph ==
    ASSUME NEW k \in 0..Len(AddFiles)
    PROVE  /\ CurRoot(k) \in Cid
           /\ \A i \in 1..k : Descendants[AddFiles[i]] \subseteq Descendants[CurRoot(k)]
           /\ Descendants[CurRoot(k)] \subseteq
                 {CurRoot(k)} \cup UNION {Descendants[AddFiles[i]] : i \in 1..k}
<1>1. CASE k = 1
    BY SMTT(40), <1>1, AddFilesAssumption DEF CurRoot
<1>2. CASE k # 1
    BY SMTT(40), <1>2, DirGraph DEF CurRoot
<1> QED
    BY Zenon, <1>1, <1>2

\* Only pins that clients may unpin go away.
LEMMA PinsKept ==
    ASSUME TypeInv, RequestInv, NEW p \in Proc, PinStep(p) \/ AdderStep(p)
    PROVE  rpins \ UnpinCids \subseteq rpins'
<1>1. CASE Unpin(p) \/ UpdateCommit(p)
    BY SMTT(40), <1>1 DEF Unpin, UpdateCommit, PinLocked, RequestInv, ReqOK
<1>2. CASE PinStep(p) /\ ~Unpin(p) /\ ~UpdateCommit(p)
    BY ZenonT(60), <1>2
       DEF PinStep, PinBegin, FetchNode, FetchFail, PinCommit, PinAddResolve, PinAddLock,
           PinAddProvide, PinRmResolve, PinRmLock, PinUpdateResolve, PinUpdateLock, UpdateBegin,
           PutStart, PutLock, PutAdd, PutFail, PutPin, ImportStart, ImportLock, ImportBlocks,
           ImportPinRoot, ImportDone, TakePinLock
<1>3. CASE AdderStep(p)
    BY ZenonT(60), <1>3
       DEF AdderStep, AddStart, AddLock, AddPause, AddPauseUnlock, AddPauseRelock, AddNoPause,
           AddNode, AddFinish, AddFail, TakePinLock
<1> QED
    BY SMTT(40), <1>1, <1>2, <1>3

\* The files of an add that is without the lock, or about to let it go.
LEMMA PausedFiles ==
    ASSUME TypeInv, LockDiscipline, RequestInv, NEW q \in Proc,
           arg[q].op = "add", FilesAdded(q) > 0, q \notin rheld \/ pc[q] = "addUnlock"
    PROVE  FilesAdded(q) \in 1..Len(AddFiles)
<1>1. pc[q] \in AddLabels \cup {"add"}
    BY SMTT(40) DEF RequestInv, ReqOK, LockDiscipline, PinHeldLabels, PinLabels
<1> QED
    BY SMTT(40), <1>1, FilesAddedRange, AddFilesAssumption DEF TypeInv

\* A step under PinLock deletes nothing, so it takes nothing away from the
\* other operations.
LEMMA OthersRely ==
    ASSUME TempRootsKept, TypeInv, LockDiscipline, RequestInv,
           NEW p \in Proc, NEW q \in Proc \ {p},
           PinKind(p), PinStep(p) \/ AdderStep(p), Relies(q)
    PROVE  Relies(q)'
<1>1. pc'[q] = pc[q] /\ arg'[q] = arg[q] /\ blocks \subseteq blocks' /\ rheld' = rheld
    BY Zenon DEF PinKind, Moves, lockVars
<1>2. FilesAdded(q)' = FilesAdded(q) /\ CurRoot(FilesAdded(q))' = CurRoot(FilesAdded(q))
    BY SMTT(40), <1>1 DEF FilesAdded, CurRoot
<1>3. arg[q].op = "add" /\ FilesAdded(q) > 0 /\ (q \notin rheld \/ pc[q] = "addUnlock")
        => CurRoot(FilesAdded(q)) \in rpins'
  <2> HAVE arg[q].op = "add" /\ FilesAdded(q) > 0 /\ (q \notin rheld \/ pc[q] = "addUnlock")
  <2>1. CurRoot(FilesAdded(q)) \in rpins \ UnpinCids
      BY Zenon, PausedFiles DEF Relies, TempRootsKept
  <2> QED
      BY ZenonT(60), <2>1, PinsKept
<1> QED
    BY ZenonT(60), <1>1, <1>2, <1>3 DEF Relies

\* The operations of PinAPI keep the pins complete.
LEMMA PinStepStored ==
    ASSUME LeafPuts, TypeInv, LockDiscipline, RequestInv, PinsComplete,
           NEW p \in Proc, Relies(p), PinKind(p), PinStep(p)
    PROVE  PinsComplete' /\ Relies(p)'
<1>a. /\ pc \in [Proc -> Labels] /\ arg \in [Proc -> ArgType] /\ arg[p] \in ArgType
      /\ ArgOK(pc[p], arg[p]) /\ ReqOK(pc[p], arg[p])
      /\ rpins \in SUBSET Cid /\ dpins \in SUBSET Cid
    BY DEF TypeInv, LocalOK, StoreOK, RequestInv
<1>b. blocks \subseteq blocks' /\ pc[p] \in PinLabels
    BY DEF PinKind
<1>c. Closure(rpins) \subseteq blocks /\ dpins \subseteq blocks
    BY Zenon DEF PinsComplete, Protected
<1>d. UNCHANGED rpins => Closure(rpins)' = Closure(rpins)
    BY DEF Closure
<1>1. CASE PinBegin(p)
  <2>1. arg' = arg /\ arg[p].op # "add" /\ arg[p].seen = {} /\ arg[p].c \in Cid
      BY Zenon, <1>a, <1>1 DEF PinBegin, PinLocked, Goto, ReqOK, ArgOK, AddLabels, GCLabels
  <2>2. PinsComplete'
      BY Zenon, <1>1, <1>c, <1>d DEF PinBegin, PinsComplete, Protected
  <2>3. arg[p].c \in rpins => Descendants[arg[p].c] \subseteq blocks'
      BY SMTT(40), <1>b, <1>c, ClosureMember
  <2>4. Relies(p)'
      BY Zenon, <1>a, <1>1, <2>1, <2>3 DEF PinBegin, PinLocked, Goto, AfterPin, AfterPinError, Relies
  <2> QED
      BY SMTT(40), <2>2, <2>4
<1>2. CASE FetchNode(p)
  <2>1. /\ arg'[p].op = arg[p].op /\ arg[p].op # "add"
        /\ arg'[p].c = arg[p].c /\ pc' = pc /\ pc[p] \in {"fetch", "diff"}
        /\ arg'[p].seen \subseteq blocks'
      BY SMT, <1>a, <1>2 DEF FetchNode, PinLocked, ReqOK, ArgType, AddLabels, Relies
  <2>2. PinsComplete'
      BY Zenon, <1>2, <1>b, <1>c, <1>d DEF FetchNode, PinsComplete, Protected
  <2>3. Relies(p)'
      BY Zenon, <1>b, <2>1 DEF Relies
  <2> QED
      BY <2>2, <2>3
<1>3. CASE FetchFail(p)
  <2>1. arg'[p].op = arg[p].op /\ arg[p].op # "add"
      BY SMTT(40), <1>a, <1>3 DEF FetchFail, PinLocked, EndWalk, ReqOK, ArgType, AddLabels
  <2>2. PinsComplete'
      BY Zenon, <1>3, <1>c, <1>d DEF FetchFail, PinsComplete, Protected
  <2>3. Relies(p)'
      BY Zenon, <1>a, <1>3, <2>1 DEF FetchFail, EndWalk, AfterPinError, Relies
  <2> QED
      BY <2>2, <2>3
<1>4. CASE PinCommit(p)
  <2>1. /\ arg'[p].op = arg[p].op /\ arg[p].op # "add"
        /\ arg'[p].c = arg[p].c /\ arg[p].c \in Cid
      BY Zenon, <1>a, <1>4 DEF PinCommit, PinLocked, EndWalk, ReqOK, ArgOK, ArgType, AddLabels
  <2>2. Descendants[arg[p].c] \subseteq blocks /\ blocks' = blocks
      BY Zenon, <1>4 DEF PinCommit, PinLocked, Relies
  <2>3. Closure(rpins \cup {arg[p].c}) \subseteq blocks
      BY Zenon, <1>a, <1>c, <2>1, <2>2, ClosureAdd
  <2>4. PinsComplete'
      BY Zenon, <1>4, <1>c, <2>2, <2>3 DEF PinCommit, PinsComplete, Protected, Closure
  <2>5. Relies(p)'
      BY Zenon, <1>a, <1>4, <2>1, <2>2 DEF PinCommit, EndWalk, AfterPin, Relies
  <2> QED
      BY <2>4, <2>5
<1>5. CASE PinAddProvide(p) \/ UpdateBegin(p) \/ ImportDone(p)
  <2>1. arg' = arg /\ arg[p].op # "add" /\ UNCHANGED <<blocks, rpins, dpins>>
      BY ZenonT(60), <1>a, <1>5
         DEF PinAddProvide, UpdateBegin, ImportDone, PinLocked, Goto, ReqOK, AddLabels
  <2>2. PinsComplete'
      BY Zenon, <2>1, <1>c, <1>d DEF PinsComplete, Protected
  <2>3. CASE UpdateBegin(p) /\ arg[p].c \in rpins
    <3>1. Descendants[arg[p].c] \subseteq blocks /\ arg[p].seen = {}
        BY ZenonT(60), <1>a, <1>c, <2>3, ClosureMember DEF UpdateBegin, PinLocked, ReqOK, GCLabels
    <3>2. Relies(p)'
        BY ZenonT(60), <1>a, <2>1, <2>3, <3>1 DEF UpdateBegin, Goto, Relies
    <3> QED
        BY <2>2, <3>2
  <2>4. CASE ~(UpdateBegin(p) /\ arg[p].c \in rpins)
      BY ZenonT(60), <1>a, <1>5, <2>1, <2>2, <2>4 DEF PinAddProvide, UpdateBegin, ImportDone, Goto, Relies
  <2> QED
      BY Zenon, <2>3, <2>4
<1>6. CASE Unpin(p)
  <2>1. arg' = arg /\ arg[p].op # "add" /\ pc'[p] = "unlock"
      BY Zenon, <1>a, <1>6 DEF Unpin, PinLocked, Goto, ReqOK, AddLabels
  <2>2. rpins' \subseteq rpins /\ dpins' \subseteq dpins /\ blocks' = blocks
      BY Zenon, <1>6 DEF Unpin
  <2>3. PinsComplete'
      BY Zenon, <2>2, <1>c, ClosureMonotone DEF PinsComplete, Protected, Closure
  <2>4. Relies(p)'
      BY Zenon, <2>1 DEF Relies
  <2> QED
      BY <2>3, <2>4
<1>7. CASE UpdateCommit(p)
  <2>1. /\ arg'[p].op = arg[p].op /\ arg[p].op # "add" /\ pc'[p] = "unlock"
        /\ arg[p].to \in Cid
      BY Zenon, <1>a, <1>7 DEF UpdateCommit, PinLocked, EndWalk, ReqOK, ArgOK, ArgType, AddLabels
  <2>2. Descendants[arg[p].to] \subseteq blocks
      BY Zenon, <1>7 DEF UpdateCommit, PinLocked, Relies
  <2>3. Closure(rpins \cup {arg[p].to}) \subseteq blocks
      BY Zenon, <1>a, <1>c, <2>1, <2>2, ClosureAdd
  <2>4. PinsComplete'
      BY SMTT(40), <1>7, <1>c, <2>3 DEF UpdateCommit, PinsComplete, Protected, Closure
  <2>5. Relies(p)'
      BY ZenonT(60), <2>1 DEF Relies
  <2> QED
      BY <2>4, <2>5
<1>8. CASE PutAdd(p) \/ PutFail(p) \/ ImportBlocks(p)
  <2>1. arg' = arg /\ arg[p].op # "add" /\ UNCHANGED <<rpins, dpins>>
      BY Zenon, <1>a, <1>8 DEF PutAdd, PutFail, ImportBlocks, PinLocked, Goto, ReqOK, AddLabels
  <2>2. PinsComplete'
      BY Zenon, <2>1, <1>b, <1>c, <1>d DEF PinsComplete, Protected
  <2>3. Relies(p)'
      BY Zenon, <1>a, <1>8, <2>1 DEF PutAdd, PutFail, ImportBlocks, Goto, Relies
  <2> QED
      BY <2>2, <2>3
<1>9. CASE PutPin(p)
  <2>1. PICK c \in arg[p].todo :
            /\ rpins' = rpins \cup {c}
            /\ arg' = [arg EXCEPT ![p].todo = @ \ {c}]
            /\ pc' = [pc EXCEPT ![p] = IF arg[p].todo = {c} THEN "unlock" ELSE "putPin"]
      BY Zenon, <1>9 DEF PutPin
  <2>2. /\ arg'[p].op = arg[p].op /\ arg[p].op # "add"
        /\ arg'[p].todo \subseteq arg[p].todo /\ pc'[p] \in {"unlock", "putPin"}
      BY Zenon, <1>a, <1>9, <2>1 DEF PutPin, PinLocked, ReqOK, ArgType, AddLabels
  <2>3. c \in Cid /\ c \in PutCids /\ c \in blocks
      BY Zenon, <1>a, <1>9 DEF PutPin, PinLocked, ReqOK, ArgType, Relies
  <2>4. Descendants[c] \subseteq blocks
      BY Zenon, <2>3, DescendantsLeaf DEF LeafPuts
  <2>5. Closure(rpins \cup {c}) \subseteq blocks
      BY Zenon, <1>a, <1>c, <2>3, <2>4, ClosureAdd
  <2>6. PinsComplete'
      BY Zenon, <1>9, <1>c, <2>1, <2>5 DEF PutPin, PinsComplete, Protected, Closure
  <2>7. Relies(p)'
      BY Zenon, <1>9, <2>2 DEF PutPin, PinLocked, Relies
  <2> QED
      BY <2>6, <2>7
<1>10. CASE ImportPinRoot(p)
  <2>1. /\ arg'[p].op = arg[p].op /\ arg[p].op # "add"
        /\ pc'[p] \in {"pin", "pinRoots"} /\ UNCHANGED <<blocks, rpins, dpins>>
      BY SMTT(40), <1>a, <1>10 DEF ImportPinRoot, PinLocked, ReqOK, ArgType, AddLabels
  <2>2. PinsComplete'
      BY Zenon, <2>1, <1>c, <1>d DEF PinsComplete, Protected
  <2>3. Relies(p)'
      BY SMTT(40), <2>1 DEF Relies
  <2> QED
      BY <2>2, <2>3
<1>11. CASE \/ PinAddResolve(p) \/ PinRmResolve(p) \/ PinUpdateResolve(p)
            \/ PutStart(p) \/ ImportStart(p)
    BY Zenon, <1>b, <1>11
       DEF PinAddResolve, PinRmResolve, PinUpdateResolve, PutStart, ImportStart, Start, PinLabels
<1>12. CASE \/ PinAddLock(p) \/ PinRmLock(p) \/ PinUpdateLock(p)
            \/ PutLock(p) \/ ImportLock(p)
    BY Zenon, <1>b, <1>12
       DEF PinAddLock, PinRmLock, PinUpdateLock, PutLock, ImportLock, TakePinLock, PinLabels
<1> QED
    BY ZenonT(60), <1>1, <1>2, <1>3, <1>4, <1>5, <1>6, <1>7, <1>8, <1>9, <1>10, <1>11, <1>12 DEF PinStep

\* The steps of Adder keep the pins complete.
LEMMA AdderStepStored ==
    ASSUME TypeInv, LockDiscipline, RequestInv, PinsComplete,
           NEW p \in Proc, Relies(p), PinKind(p), AdderStep(p)
    PROVE  PinsComplete' /\ Relies(p)'
<1> DEFINE k == FilesAdded(p)
<1>a. /\ pc \in [Proc -> Labels] /\ arg \in [Proc -> ArgType] /\ arg[p] \in ArgType
      /\ ArgOK(pc[p], arg[p]) /\ ReqOK(pc[p], arg[p]) /\ LocalOK
      /\ rpins \in SUBSET Cid /\ dpins \in SUBSET Cid
    BY DEF TypeInv, LocalOK, StoreOK, RequestInv
<1>b. blocks \subseteq blocks' /\ pc[p] \in PinLabels /\ p \in rheld /\ rheld' = rheld
    BY DEF PinKind, lockVars
<1>c. Closure(rpins) \subseteq blocks /\ dpins \subseteq blocks
    BY Zenon DEF PinsComplete, Protected
<1>d. UNCHANGED rpins => Closure(rpins)' = Closure(rpins)
    BY SMTT(40) DEF Closure
<1>e. pc[p] \in AddLabels \cup {"add"}
        => /\ k \in 0..Len(AddFiles)
           /\ \A i \in 1..k : Descendants[AddFiles[i]] \subseteq blocks
    BY Zenon, <1>a, FilesAddedRange DEF ReqOK, Relies
<1>1. CASE AddPause(p)
  <2>1. /\ pc[p] = "add" /\ pc'[p] = "addUnlock" /\ arg' = arg /\ dpins' = dpins
        /\ blocks' = blocks \cup {AddRoots[k], CurRoot(k)}
        /\ rpins' = rpins \cup {CurRoot(k)}
      BY Zenon, <1>a, <1>1 DEF AddPause, PinLocked, Goto
  <2>2. FilesAdded(p)' = k /\ CurRoot(FilesAdded(p))' = CurRoot(k)
      BY Zenon, <2>1 DEF FilesAdded, CurRoot
  <2> HIDE DEF k
  <2>3. CurRoot(k) \in Cid /\ Descendants[CurRoot(k)] \subseteq blocks'
      BY SMTT(40), <1>e, <2>1, CurRootGraph
  <2>4. Closure(rpins \cup {CurRoot(k)}) \subseteq blocks'
      BY Zenon, <1>a, <1>b, <1>c, <2>3, ClosureAdd
  <2>5. PinsComplete'
      BY Zenon, <1>b, <1>c, <2>1, <2>4 DEF PinsComplete, Protected, Closure
  <2>6. Relies(p)'
      BY Zenon, <1>b, <1>e, <2>1, <2>2 DEF Relies
  <2> QED
      BY Zenon, <2>5, <2>6
<1>2. CASE AddNoPause(p) \/ AddFail(p)
  <2>1. /\ pc[p] \in AddLabels \cup {"add"} /\ pc'[p] \in {"addNode", "unlock"} /\ arg' = arg
        /\ UNCHANGED <<rpins, dpins>>
      BY Zenon, <1>a, <1>2 DEF AddNoPause, AddFail, PinLocked, Goto, AddLabels
  <2>2. FilesAdded(p)' = k
      BY Zenon, <2>1 DEF FilesAdded
  <2>3. PinsComplete'
      BY Zenon, <1>b, <1>c, <1>d, <2>1 DEF PinsComplete, Protected
  <2>4. Relies(p)'
      BY ZenonT(60), <1>b, <1>e, <2>1, <2>2 DEF Relies
  <2> QED
      BY <2>3, <2>4
<1>3. CASE AddNode(p)
  <2>1. /\ pc[p] = "addNode" /\ pc'[p] = "add" /\ UNCHANGED <<rpins, dpins>>
        /\ arg'[p].flag = arg[p].flag /\ arg'[p].n = arg[p].n + 1
        /\ arg[p].n \in Nat /\ arg[p].flag \in BOOLEAN
      BY Zenon, <1>a, <1>3 DEF AddNode, PinLocked, ArgType
  <2>2. CASE arg[p].flag /\ arg[p].n = 0
    <3>1. FilesAdded(p)' = 0
        BY SMTT(40), <2>1, <2>2 DEF FilesAdded
    <3> QED
        BY SMTT(40), <1>b, <1>c, <1>d, <2>1, <3>1 DEF PinsComplete, Protected, Relies
  <2>3. CASE ~(arg[p].flag /\ arg[p].n = 0)
    <3>1. FilesAdded(p)' = k + 1
        BY SMTT(40), <2>1, <2>3 DEF FilesAdded
    <3>2. Descendants[AddFiles[k + 1]] \subseteq blocks'
        BY Zenon, <1>3, <2>3 DEF AddNode
    <3> HIDE DEF k
    <3>3. \A i \in 1..(k + 1) : Descendants[AddFiles[i]] \subseteq blocks'
      <4>1. k \in Nat /\ \A i \in 1..k : Descendants[AddFiles[i]] \subseteq blocks
          BY SMT, <1>e, <2>1, AddFilesAssumption DEF AddLabels
      <4>2. ASSUME NEW i \in 1..(k + 1) PROVE i \in 1..k \/ i = k + 1
          BY SMT, <4>1
      <4> QED
          BY Zenon, <1>b, <3>2, <4>1, <4>2
    <3>4. PinsComplete'
        BY <1>b, <1>c, <1>d, <2>1 DEF PinsComplete, Protected
    <3>5. Relies(p)'
        BY <1>b, <2>1, <3>1, <3>3 DEF Relies
    <3> QED
        BY <3>4, <3>5
  <2> QED
      BY Zenon, <2>2, <2>3
<1>4. CASE AddFinish(p)
  <2> DEFINE root == IF arg[p].flag THEN AddRoots[Len(AddFiles)] ELSE AddFiles[1]
  <2>1. /\ pc[p] = "add" /\ pc'[p] = "unlock" /\ arg' = arg /\ dpins' = dpins
        /\ arg[p].n = Calls(p) /\ arg[p].flag \in BOOLEAN
        /\ root \in blocks' /\ rpins' = rpins \cup {root}
      BY ZenonT(60), <1>a, <1>4 DEF AddFinish, PinLocked, Goto, ArgType
  <2>2. FilesAdded(p)' = k
      BY Zenon, <2>1 DEF FilesAdded
  <2>3. k = IF arg[p].flag THEN Len(AddFiles) ELSE 1
      BY SMTT(40), <2>1, AddFilesAssumption DEF FilesAdded, Calls
  <2> HIDE DEF k
  <2>4. root \in Cid /\ Descendants[root] \subseteq blocks'
    <3>1. CASE arg[p].flag
      <4>1. root = AddRoots[k] /\ k \in 0..Len(AddFiles)
          BY Zenon, <1>e, <2>1, <2>3, <3>1
      <4>2. /\ AddRoots[k] \in Cid
            /\ Descendants[AddRoots[k]] =
                 {AddRoots[k]} \cup UNION {Descendants[AddFiles[i]] : i \in 1..k}
          BY ZenonT(60), <4>1, DirGraph
      <4>3. \A i \in 1..k : Descendants[AddFiles[i]] \subseteq blocks'
          BY Zenon, <1>b, <1>e, <2>1
      <4> HIDE DEF root
      <4> QED
          BY ZenonT(60), <2>1, <4>1, <4>2, <4>3
    <3>2. CASE ~arg[p].flag
        BY SMTT(40), <1>b, <1>e, <2>1, <2>3, <3>2, AddFilesAssumption
    <3> QED
        BY Zenon, <2>1, <3>1, <3>2
  <2> HIDE DEF root
  <2>5. Closure(rpins \cup {root}) \subseteq blocks'
      BY ZenonT(60), <1>a, <1>b, <1>c, <2>4, ClosureAdd
  <2>6. PinsComplete'
      BY Zenon, <1>b, <1>c, <2>1, <2>5 DEF PinsComplete, Protected, Closure
  <2>7. Relies(p)'
      BY ZenonT(60), <1>b, <1>e, <2>1, <2>2 DEF Relies
  <2> QED
      BY <2>6, <2>7
<1>5. CASE AddStart(p) \/ AddLock(p) \/ AddPauseUnlock(p) \/ AddPauseRelock(p)
    BY Zenon, <1>b, <1>5
       DEF AddStart, AddLock, AddPauseUnlock, AddPauseRelock, TakePinLock, Start, PinUnlock,
           PinLabels
<1> QED
    BY Zenon, <1>1, <1>2, <1>3, <1>4, <1>5 DEF AdderStep

\* The steps of the lock and the steps without a lock keep them complete.
LEMMA OtherStored ==
    ASSUME TypeInv, LockDiscipline, RequestInv, RequestInv', StoredInv, NEW p \in Proc,
           FreeKind(p) \/ LockKind(p)
    PROVE  StoredInv'
<1>a. /\ blocks \subseteq blocks' /\ UNCHANGED <<rpins, dpins>>
      /\ \A q \in Proc \ {p} : pc'[q] = pc[q] /\ arg'[q] = arg[q]
    BY ZenonT(60) DEF FreeKind, LockKind, Moves
<1>1. PinsComplete'
    BY Zenon, <1>a DEF StoredInv, PinsComplete, Protected, Closure
<1>2. rheld \ {p} \subseteq rheld'
    BY Zenon DEF FreeKind, LockKind, lockVars, PinLock, PinUnlock, GCRequest, GCAnnounce, GCAcquire,
           GCUnlock, LockDiscipline, LockInv
<1>3. ASSUME NEW q \in Proc \ {p} PROVE Relies(q)'
  <2>1. FilesAdded(q)' = FilesAdded(q) /\ CurRoot(FilesAdded(q))' = CurRoot(FilesAdded(q))
      BY SMT, <1>a DEF FilesAdded, CurRoot
  <2> QED
      BY Zenon, <1>a, <1>2, <2>1 DEF StoredInv, Relies
<1>4. CASE FreeKind(p)
  <2>1. pc'[p] \in FreeLabels \ {"addRelock"}
      BY Zenon, <1>4 DEF FreeKind, Moves
  <2>2. arg'[p].op = "add" => arg'[p].n = 0
      BY Zenon, <2>1 DEF RequestInv, ReqOK, AddLabels, FreeLabels
  <2>3. arg'[p].op = "add" => FilesAdded(p)' = 0
      BY Zenon, <2>2 DEF FilesAdded
  <2>4. Relies(p)'
      BY SMTT(40), <2>1, <2>3 DEF Relies, FreeLabels
  <2> QED
      BY Zenon, <1>1, <1>3, <2>4 DEF StoredInv
<1>5. CASE LockKind(p)
  <2>6. NoArg.op # "add"
      BY DEF NoArg
  <2>1. pc'[p] \notin {"fetch", "diff", "putPin", "pinned", "addUnlock"}
      BY ZenonT(60), <1>5
         DEF LockKind, Moves, FreeLabels, PinLabels, PinHeldLabels, GCWaitLabels, GCLabels
  <2>2. arg'[p] = arg[p] \/ arg'[p].op # "add"
    <3>1. arg'[p] = arg[p] \/ arg'[p] = NoArg
        BY ZenonT(60), <1>5 DEF LockKind
    <3> QED
        BY ZenonT(60), <3>1, <2>6
  <2>3. arg'[p] = arg[p] => /\ FilesAdded(p)' = FilesAdded(p)
                            /\ CurRoot(FilesAdded(p))' = CurRoot(FilesAdded(p))
    <3>1. arg'[p] = arg[p] => FilesAdded(p)' = FilesAdded(p)
        BY Zenon DEF FilesAdded
    <3> HIDE DEF FilesAdded
    <3>2. \A k : CurRoot(k)' = CurRoot(k)
        BY Zenon DEF CurRoot
    <3> QED
        BY Zenon, <3>1, <3>2 DEF CurRoot
  <2>4. arg'[p].op = "add" /\ p \notin rheld' => p \notin rheld \/ pc[p] = "addUnlock"
    <3>1. CASE pc[p] \in {"unlock", "gcUnlock"}
        BY ZenonT(60), <1>5, <3>1, <2>6 DEF LockKind
    <3>2. CASE pc[p] \notin {"unlock", "gcUnlock"}
        BY ZenonT(60), <1>5, <3>2 DEF LockKind, PinLock, PinUnlock, GCRequest, GCAnnounce, GCAcquire
    <3> QED
        BY <3>1, <3>2
  <2>5. Relies(p)'
      BY Zenon, <1>a, <2>1, <2>2, <2>3, <2>4 DEF StoredInv, Relies
  <2> QED
      BY <1>1, <1>3, <2>5 DEF StoredInv
<1> QED
    BY SMTT(40), <1>4, <1>5

\* So do the deletions, and what a paused add has written survives them.
LEMMA CollectorStored ==
    ASSUME TypeInv, LockDiscipline, DeleteInv, RequestInv, RequestInv', StoredInv,
           [Next]_nodeVars, NEW p \in Proc, GCKind(p)
    PROVE  StoredInv'
<1>a. /\ pc'[p] \in GCLabels /\ rheld = {} /\ rheld' = {} /\ UNCHANGED <<rpins, dpins>>
      /\ \A q \in Proc \ {p} : pc'[q] = pc[q] /\ arg'[q] = arg[q]
    BY Zenon DEF GCKind, Moves, LockDiscipline, LockInv, lockVars
<1>1. PinsComplete'
  <2>1. Protected' = Protected
      BY Zenon, <1>a DEF Protected, Closure
  <2> QED
      BY SMTT(40), <2>1, NextDelete DEF StoredInv, PinsComplete
<1>2. ASSUME NEW q \in Proc \ {p} PROVE Relies(q)'
  <2>1. FilesAdded(q)' = FilesAdded(q) /\ CurRoot(FilesAdded(q))' = CurRoot(FilesAdded(q))
      BY SMTT(40), <1>a DEF FilesAdded, CurRoot
  <2>2. pc[q] \notin PinHeldLabels
      BY SMTT(40), <1>a DEF LockDiscipline
  <2>3. CASE arg[q].op = "add" /\ FilesAdded(q) > 0
    <3>1. CurRoot(FilesAdded(q)) \in rpins /\ FilesAdded(q) \in 1..Len(AddFiles)
        BY ZenonT(60), <1>a, <2>3, PausedFiles DEF StoredInv, Relies
    <3>2. Descendants[CurRoot(FilesAdded(q))] \subseteq Closure(rpins)
        BY Zenon, <3>1, ClosureMember
    <3>3. Closure(rpins) \subseteq blocks'
        BY Zenon, <1>a, <1>1 DEF PinsComplete, Protected, Closure
    <3>4. \A i \in 1..FilesAdded(q) : Descendants[AddFiles[i]] \subseteq blocks'
        BY SMTT(40), <3>1, <3>2, <3>3, CurRootGraph
    <3> QED
        BY ZenonT(60), <1>a, <2>1, <2>2, <3>1, <3>4 DEF Relies, PinHeldLabels, PinLabels
  <2>4. CASE ~(arg[q].op = "add" /\ FilesAdded(q) > 0)
    <3>1. arg[q].op = "add" => FilesAdded(q) = 0
        BY SMTT(40), <2>4 DEF FilesAdded, TypeInv, LocalOK, ArgType
    <3> QED
        BY SMTT(40), <1>a, <2>1, <2>2, <3>1 DEF Relies, PinHeldLabels, PinLabels
  <2> QED
      BY Zenon, <2>3, <2>4
<1>3. Relies(p)'
  <2>1. arg'[p].op # "add"
      BY Zenon, <1>a DEF RequestInv, ReqOK, AddLabels, GCLabels
  <2> QED
      BY ZenonT(60), <1>a, <2>1 DEF Relies, GCLabels
<1> QED
    BY SMTT(40), <1>1, <1>2, <1>3 DEF StoredInv

LEMMA NextStored ==
    ASSUME LeafPuts, TempRootsKept, TypeInv, LockDiscipline, DeleteInv, RequestInv, StoredInv,
           [Next]_nodeVars
    PROVE  StoredInv'
<1>a. RequestInv'
    BY SMTT(40), NextRequest
<1>1. CASE IdleKind
    BY ZenonT(60), <1>1
       DEF IdleKind, lockVars, StoredInv, PinsComplete, Protected, Closure, Relies, FilesAdded,
           CurRoot
<1>2. ASSUME NEW p \in Proc, PinKind(p), PinStep(p) \/ AdderStep(p) PROVE StoredInv'
    BY <1>2, OthersRely, PinStepStored, AdderStepStored DEF StoredInv
<1> QED
    BY Zenon, <1>a, <1>1, <1>2, OtherStored, CollectorStored, NextKind

LEMMA InitStored == Init => RequestInv /\ StoredInv
<1> SUFFICES ASSUME Init PROVE RequestInv /\ StoredInv
    OBVIOUS
<1>1. RequestInv
    BY Zenon DEF Init, RequestInv, ReqOK, NoArg, AddLabels, GCLabels
<1>2. PinsComplete
    BY Zenon DEF Init, PinsComplete, Protected, Closure
<1>3. \A p \in Proc : Relies(p)
    BY Zenon DEF Init, Relies, NoArg
<1> QED
    BY <1>1, <1>2, <1>3 DEF StoredInv

FullInv == TypeInv /\ LockDiscipline /\ DeleteInv /\ RequestInv /\ StoredInv

\* The inductive invariant behind the theorems below.
LEMMA FullInvariant ==
    ASSUME LeafPuts, TempRootsKept
    PROVE  Spec => []FullInv
<1>1. Init => FullInv
  <2>1. Init => DeleteInv
      BY Zenon DEF Init, DeleteInv
  <2> QED
      BY Zenon, <2>1, InitType, InitDiscipline, InitStored DEF FullInv
<1>2. FullInv /\ [Next]_nodeVars => FullInv'
    BY NextType, NextDiscipline, NextDelete, NextRequest, NextStored DEF FullInv
<1> QED
    BY <1>1, <1>2, PTL DEF Spec

\* Every pinned graph is completely stored at all times, whatever pins, puts,
\* imports, adds, collections and removals run concurrently.
THEOREM PinsStayComplete ==
    ASSUME LeafPuts, TempRootsKept
    PROVE  Spec => []PinsComplete
<1>1. FullInv => PinsComplete
    BY Zenon DEF FullInv, StoredInv
<1> QED
    BY <1>1, FullInvariant, PTL

\* A pin add that is about to report success has its whole graph stored.
THEOREM PinAddsStore ==
    ASSUME LeafPuts, TempRootsKept
    PROVE  Spec => []PinAddStores
<1>1. FullInv => PinAddStores
    BY Zenon DEF FullInv, StoredInv, Relies, PinAddStores
<1> QED
    BY <1>1, FullInvariant, PTL

\* No collection is stopped by a pinned node that it cannot read.
THEOREM MarksSucceed ==
    ASSUME LeafPuts, TempRootsKept
    PROVE  Spec => []MarkSucceeds
<1>1. FullInv => MarkSucceeds
    BY ZenonT(60), StoredWalk DEF FullInv, TypeInv, StoreOK, StoredInv, PinsComplete, Protected, MarkSucceeds
<1> QED
    BY <1>1, FullInvariant, PTL

\* What an add has written stays stored until its final pin, also while it
\* pauses for a collection.
THEOREM AddedFilesStay ==
    ASSUME LeafPuts, TempRootsKept
    PROVE  Spec => []AddedStaysStored
<1>1. FullInv => AddedStaysStored
    BY DEF FullInv, StoredInv, Relies, AddedStaysStored
<1> QED
    BY <1>1, FullInvariant, PTL
=============================================================================
