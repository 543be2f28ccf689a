----------------------------- MODULE NodeState -----------------------------
(***************************************************************************)
(* The state that pinning, adding and garbage collection share in one      *)
(* running node: the block store, the pinner's two indexes, the root of    *)
(* the mutable file system and the lock of GCLocker, and for every         *)
(* goroutine the operation it is executing.                                *)
(***************************************************************************)
EXTENDS GCLocker, FiniteSets, Naturals

(* The merkle DAG: content identifiers and the links of the node each one  *)
(* names.  Content addressing makes the link structure a constant; what    *)
(* changes is only which nodes are stored.                                 *)
CONSTANTS
    Cid,       \* content identifiers
    Links      \* the CIDs a node links to

ASSUME LinksAssumption == Links \in [Cid -> SUBSET Cid]

\* S contains every link of the members of S that are stored in B.
Closed(S, B) == \A c \in S \cap B : Links[c] \subseteq S

\* What a walk from R visits when it can read exactly the nodes stored in B:
\* the smallest set that contains R and is closed.  A node that cannot be
\* read is visited, its links are not.
Reach(R, B) ==
    {d \in Cid : \A S \in SUBSET Cid : R \subseteq S /\ Closed(S, B) => d \in S}

\* The graph rooted at a CID, the CID included.
Descendants == [c \in Cid |-> Reach({c}, Cid)]

\* The union of the graphs rooted at the members of R.
Closure(R) == UNION {Descendants[c] : c \in R}

-----------------------------------------------------------------------------
(* The node.                                                               *)

CONSTANTS
    NoCid,     \* the undefined CID
    Remote,    \* the CIDs that peers can deliver
    MfsInit    \* root of the mutable file system when the node starts

ASSUME NoCidAssumption == NoCid \notin Cid
ASSUME RemoteAssumption == Remote \subseteq Cid
ASSUME MfsInitAssumption == MfsInit \in Cid

VARIABLES
    blocks,    \* CIDs whose block is in the block store
    rpins,     \* keys of the pinner's recursive index
    dpins,     \* keys of the pinner's direct index
    mfsRoot,   \* CID of the mutable file system's root directory
    pc,        \* what each goroutine does next
    arg        \* arguments and local variables of its operation

nodeVars == <<lockVars, blocks, rpins, dpins, mfsRoot, pc, arg>>

\* Local variables: the operation, its CID, a second CID (the target of an
\* update, the file system root a collection starts from), a boolean option,
\* the CIDs still to do, the CIDs that a walk has visited or marked, a count.
ArgType ==
    [op : {"none", "pin", "rm", "update", "put", "import", "add", "gc", "rmblocks", "mfs"},
     c : Cid \cup {NoCid}, to : Cid \cup {NoCid}, flag : BOOLEAN,
     todo : SUBSET Cid, seen : SUBSET Cid, n : Nat]

NoArg ==
    [op |-> "none", c |-> NoCid, to |-> NoCid, flag |-> FALSE,
     todo |-> {}, seen |-> {}, n |-> 0]

\* What a pin protects: the graphs of the recursive pins and the direct pins.
Protected == Closure(rpins) \cup dpins

\* An operation starts on an idle goroutine with the arguments a.
Start(p, label, a) ==
    /\ pc[p] = "idle"
    /\ pc' = [pc EXCEPT ![p] = label]
    /\ arg' = [arg EXCEPT ![p] = a]

\* Goroutine p moves on and keeps its local variables.
Goto(p, label) ==
    /\ pc' = [pc EXCEPT ![p] = label]
    /\ UNCHANGED arg

\* Goroutine p moves on and forgets what its walk has seen.
EndWalk(p, label) ==
    /\ pc' = [pc EXCEPT ![p] = label]
    /\ arg' = [arg EXCEPT ![p].seen = {}]

\* An operation calls PinLock; it goes on, at label next, once it has the lock.
TakePinLock(p, label, next) ==
    /\ pc[p] = label
    /\ PinLock(p)
    /\ Goto(p, next)
    /\ UNCHANGED <<blocks, rpins, dpins, mfsRoot>>

\* Goroutine p holds PinLock and is at label.
PinLocked(p, label) == pc[p] = label /\ p \in rheld

\* Goroutine p holds GCLock and is at label.
GCLocked(p, label) == pc[p] = label /\ wowner = p /\ wactive

\* The deferred Unlock of an operation that ran under PinLock, whatever its
\* outcome.
ReleasePinLock(p) ==
    /\ pc[p] = "unlock"
    /\ PinUnlock(p)
    /\ pc' = [pc EXCEPT ![p] = "idle"]
    /\ arg' = [arg EXCEPT ![p] = NoArg]
    /\ UNCHANGED <<blocks, rpins, dpins, mfsRoot>>

\* A block is stored by a goroutine that takes no lock: `block put`,
\* `object put`, `dag put` and `add` without pinning, or a block that the
\* exchange fetched.
PutUnlocked ==
    /\ \E c \in Remote \ blocks : blocks' = blocks \cup {c}
    /\ UNCHANGED <<lockVars, rpins, dpins, mfsRoot, pc, arg>>
=============================================================================
