------------------------------- MODULE PinAPI -------------------------------
(***************************************************************************)
(* The operations that end with a pin: `pin add`, `pin rm`, `pin update`,  *)
(* the puts with --pin (block, object and dag), and `dag import`.  Each    *)
(* runs under PinLock; the pinner's own mutex makes every access to the    *)
(* pin indexes one atomic step, and Pin and Update release it while they   *)
(* fetch.                                                                  *)
(***************************************************************************)
EXTENDS NodeState

CONSTANTS
    Pinners,       \* goroutines that serve pin add, pin rm and pin update
    Putters,       \* goroutines that serve puts with --pin
    Importers,     \* goroutines that serve dag import
    PinCids,       \* CIDs that clients pin
    UnpinCids,     \* CIDs that clients unpin
    PutCids,       \* CIDs of the nodes that clients put with --pin
    CarCids,       \* CIDs of the blocks in the imported archives
    CarRoots       \* CIDs in the headers of the imported archives

ASSUME PinProcAssumption ==
    Pinners \cup Putters \cup Importers \subseteq Proc
ASSUME PinCidAssumption ==
    PinCids \cup UnpinCids \cup PutCids \cup CarCids \cup CarRoots \subseteq Cid

-----------------------------------------------------------------------------
(* pinner.Pin *)

\* After the pinner returns without an error.
AfterPin(p) == IF arg[p].op = "import" THEN "pinRoots" ELSE "pinned"

\* After the pinner returns an error.
AfterPinError(p) == IF arg[p].op = "import" THEN "pinRoots" ELSE "unlock"

\* dserv.Add stores the node that the caller resolved; then, under the
\* pinner's mutex, the recursive index decides.  A recursive pin that exists
\* already is a success; a direct pin of such a CID is an error.
PinBegin(p) ==
    /\ PinLocked(p, "pin")
    /\ blocks' = blocks \cup {arg[p].c}
    /\ LET found == arg[p].c \in rpins IN
       \/ /\ arg[p].flag
          /\ Goto(p, IF found THEN AfterPin(p) ELSE "fetch")
          /\ UNCHANGED dpins
       \/ /\ ~arg[p].flag
          /\ Goto(p, IF found THEN AfterPinError(p) ELSE AfterPin(p))
          /\ dpins' = IF found THEN dpins ELSE dpins \cup {arg[p].c}
    /\ UNCHANGED <<lockVars, rpins, mfsRoot>>

\* The nodes a walk can go to next: its roots, and the links of the nodes it
\* has read.
Frontier(p) ==
    ({arg[p].c, arg[p].to} \ {NoCid}) \cup UNION {Links[d] : d \in arg[p].seen}

\* FetchGraph, and DiffEnumerate in an update, visit one more node: it is read
\* from the block store, or arrives from a peer and is stored.
FetchNode(p) ==
    /\ PinLocked(p, "fetch") \/ PinLocked(p, "diff")
    /\ \E d \in (Frontier(p) \cap (blocks \cup Remote)) \ arg[p].seen :
          /\ blocks' = blocks \cup {d}
          /\ arg' = [arg EXCEPT ![p].seen = @ \cup {d}]
    /\ UNCHANGED <<lockVars, rpins, dpins, mfsRoot, pc>>

\* The fetch ends with an error, or syncing the dag service does.
FetchFail(p) ==
    /\ \/ PinLocked(p, "fetch") /\ EndWalk(p, AfterPinError(p))
       \/ PinLocked(p, "diff") /\ EndWalk(p, "unlock")
    /\ UNCHANGED <<lockVars, blocks, rpins, dpins, mfsRoot>>

\* Mutant: the pin is set before the graph has been fetched.
PinCommitUnfetched(p) ==
    /\ PinLocked(p, "fetch")
    /\ rpins' = rpins \cup {arg[p].c}
    /\ dpins' = IF arg[p].c \in rpins THEN dpins ELSE dpins \ {arg[p].c}
    /\ EndWalk(p, AfterPin(p))
    /\ UNCHANGED <<lockVars, blocks, mfsRoot>>

\* The whole graph has been visited: a direct pin gives way to the recursive
\* one.  If another goroutine has pinned the CID during the fetch, the pinner's
\* change counter has moved, the index is looked up again, and nothing is done.
PinCommit(p) ==
    /\ PinLocked(p, "fetch")
    /\ Descendants[arg[p].c] \subseteq arg[p].seen
    /\ rpins' = rpins \cup {arg[p].c}
    /\ dpins' = IF arg[p].c \in rpins THEN dpins ELSE dpins \ {arg[p].c}
    /\ EndWalk(p, AfterPin(p))
    /\ UNCHANGED <<lockVars, blocks, mfsRoot>>

-----------------------------------------------------------------------------
(* pin add *)

\* ResolveNode loads the node before any lock is taken.
PinAddResolve(p) ==
    /\ p \in Pinners
    /\ \E c \in PinCids \cap (blocks \cup Remote), recursive \in BOOLEAN :
          /\ Start(p, "pinLock", [NoArg EXCEPT !.op = "pin", !.c = c, !.flag = recursive])
          /\ blocks' = blocks \cup {c}
    /\ UNCHANGED <<lockVars, rpins, dpins, mfsRoot>>

PinAddLock(p) == TakePinLock(p, "pinLock", "pin")

\* Provide and Flush: an error of either changes what the client is told,
\* not the pins.
PinAddProvide(p) ==
    /\ PinLocked(p, "pinned")
    /\ Goto(p, "unlock")
    /\ UNCHANGED <<lockVars, blocks, rpins, dpins, mfsRoot>>

-----------------------------------------------------------------------------
(* pin rm *)

PinRmResolve(p) ==
    /\ p \in Pinners
    /\ \E c \in UnpinCids, recursive \in BOOLEAN :
          Start(p, "rmLock", [NoArg EXCEPT !.op = "rm", !.c = c, !.flag = recursive])
    /\ UNCHANGED <<lockVars, blocks, rpins, dpins, mfsRoot>>

PinRmLock(p) == TakePinLock(p, "rmLock", "rm")

\* pinner.Unpin: a CID that is pinned recursively needs the recursive option;
\* the pins of both kinds go.
Unpin(p) ==
    /\ PinLocked(p, "rm")
    /\ IF arg[p].c \in rpins /\ ~arg[p].flag
       THEN UNCHANGED <<rpins, dpins>>
       ELSE rpins' = rpins \ {arg[p].c} /\ dpins' = dpins \ {arg[p].c}
    /\ Goto(p, "unlock")
    /\ UNCHANGED <<lockVars, blocks, mfsRoot>>

-----------------------------------------------------------------------------
(* pin update *)

PinUpdateResolve(p) ==
    /\ p \in Pinners
    /\ \E from \in UnpinCids, to \in PinCids, unpin \in BOOLEAN :
          Start(p, "updateLock",
                [NoArg EXCEPT !.op = "update", !.c = from, !.to = to, !.flag = unpin])
    /\ UNCHANGED <<lockVars, blocks, rpins, dpins, mfsRoot>>

PinUpdateLock(p) == TakePinLock(p, "updateLock", "update")

\* pinner.Update up to the fetch: nothing to do, an error, or a fetch of what
\* the graph of `from` does not contain.
UpdateBegin(p) ==
    /\ PinLocked(p, "update")
    /\ Goto(p, IF /\ arg[p].c \in rpins
                  /\ arg[p].c # arg[p].to
                  /\ arg[p].to \notin rpins
               THEN "diff" ELSE "unlock")
    /\ UNCHANGED <<lockVars, blocks, rpins, dpins, mfsRoot>>

\* DiffEnumerate has visited the new graph except what it shares with the old
\* one.  Neither CID is looked up again.
UpdateCommit(p) ==
    /\ PinLocked(p, "diff")
    /\ {arg[p].c, arg[p].to} \subseteq arg[p].seen
    /\ Descendants[arg[p].to] \ Descendants[arg[p].c] \subseteq arg[p].seen
    /\ rpins' = (rpins \cup {arg[p].to}) \ (IF arg[p].flag THEN {arg[p].c} ELSE {})
    /\ EndWalk(p, "unlock")
    /\ UNCHANGED <<lockVars, blocks, dpins, mfsRoot>>

-----------------------------------------------------------------------------
(* block put --pin, object put --pin, dag put --pin (Add and AddMany) *)

PutStart(p) ==
    /\ p \in Putters
    /\ \E cs \in SUBSET PutCids \ {{}} :
          Start(p, "putLock", [NoArg EXCEPT !.op = "put", !.todo = cs])
    /\ UNCHANGED <<lockVars, blocks, rpins, dpins, mfsRoot>>

PutLock(p) == TakePinLock(p, "putLock", "put")

\* AddBlock or dag.AddMany.
PutAdd(p) ==
    /\ PinLocked(p, "put")
    /\ blocks' = blocks \cup arg[p].todo
    /\ Goto(p, "putPin")
    /\ UNCHANGED <<lockVars, rpins, dpins, mfsRoot>>

\* Mutant: the error of the write is ignored.
PutFailIgnored(p) ==
    /\ PinLocked(p, "put")
    /\ \E cs \in SUBSET arg[p].todo : blocks' = blocks \cup cs
    /\ Goto(p, "putPin")
    /\ UNCHANGED <<lockVars, rpins, dpins, mfsRoot>>

\* The write fails, in AddMany perhaps after some of the nodes.
PutFail(p) ==
    /\ PinLocked(p, "put")
    /\ \E cs \in SUBSET arg[p].todo : blocks' = blocks \cup cs
    /\ Goto(p, "unlock")
    /\ UNCHANGED <<lockVars, rpins, dpins, mfsRoot>>

\* PinWithMode(c, Recursive) for one node; nothing below it is looked at.
PutPin(p) ==
    /\ PinLocked(p, "putPin")
    /\ \E c \in arg[p].todo :
          /\ rpins' = rpins \cup {c}
          /\ arg' = [arg EXCEPT ![p].todo = @ \ {c}]
          /\ pc' = [pc EXCEPT ![p] = IF arg[p].todo = {c} THEN "unlock" ELSE "putPin"]
    /\ UNCHANGED <<lockVars, blocks, dpins, mfsRoot>>

-----------------------------------------------------------------------------
(* dag import *)

ImportStart(p) ==
    /\ p \in Importers
    /\ \E roots \in SUBSET CarRoots :
          Start(p, "importLock", [NoArg EXCEPT !.op = "import", !.todo = roots, !.flag = TRUE])
    /\ UNCHANGED <<lockVars, blocks, rpins, dpins, mfsRoot>>

ImportLock(p) == TakePinLock(p, "importLock", "import")

\* importWorker: the archives' blocks are stored; when it ends without an
\* error the roots are pinned.  An error leaves any part of them behind.
ImportBlocks(p) ==
    /\ PinLocked(p, "import")
    /\ \E cs \in SUBSET CarCids, ok \in BOOLEAN :
          /\ blocks' = blocks \cup cs
          /\ Goto(p, IF ok THEN "pinRoots" ELSE "unlock")
    /\ UNCHANGED <<lockVars, rpins, dpins, mfsRoot>>

\* The next root: its block is read back and handed to the pinner; a root
\* that no archive contained is counted as a failure.
ImportPinRoot(p) ==
    /\ PinLocked(p, "pinRoots")
    /\ \E c \in arg[p].todo :
          /\ arg' = [arg EXCEPT ![p].todo = @ \ {c}, ![p].c = c]
          /\ pc' = [pc EXCEPT ![p] = IF c \in blocks THEN "pin" ELSE "pinRoots"]
    /\ UNCHANGED <<lockVars, blocks, rpins, dpins, mfsRoot>>

\* All roots were tried, or the client's stream broke.
ImportDone(p) ==
    /\ PinLocked(p, "pinRoots")
    /\ Goto(p, "unlock")
    /\ UNCHANGED <<lockVars, blocks, rpins, dpins, mfsRoot>>

-----------------------------------------------------------------------------
PinStep(p) ==
    \/ PinBegin(p) \/ FetchNode(p) \/ FetchFail(p) \/ PinCommit(p)
    \/ PinAddResolve(p) \/ PinAddLock(p) \/ PinAddProvide(p)
    \/ PinRmResolve(p) \/ PinRmLock(p) \/ Unpin(p)
    \/ PinUpdateResolve(p) \/ PinUpdateLock(p) \/ UpdateBegin(p) \/ UpdateCommit(p)
    \/ PutStart(p) \/ PutLock(p) \/ PutAdd(p) \/ PutFail(p) \/ PutPin(p)
    \/ ImportStart(p) \/ ImportLock(p) \/ ImportBlocks(p) \/ ImportPinRoot(p)
    \/ ImportDone(p)
=============================================================================
