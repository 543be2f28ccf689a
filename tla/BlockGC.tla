------------------------------- MODULE BlockGC -------------------------------
(***************************************************************************)
(* One node that pins, adds, imports, removes and collects concurrently:   *)
(* the operations of PinAPI, Adder and Collector over the shared state of  *)
(* NodeState, and what they promise each other.                            *)
(***************************************************************************)
EXTENDS PinAPI, Adder, Collector

Init ==
    /\ LockInit
    /\ blocks = {MfsInit}
    /\ rpins = {}
    /\ dpins = {}
    /\ mfsRoot = MfsInit
    /\ pc = [p \in Proc |-> "idle"]
    /\ arg = [p \in Proc |-> NoArg]

Step(p) == PinStep(p) \/ AdderStep(p) \/ CollectorStep(p) \/ ReleasePinLock(p)

Next == PutUnlocked \/ \E p \in Proc : Step(p)

Spec == Init /\ [][Next]_nodeVars

\* An operation that has started goes on, except that a fetch may wait for
\* peers for ever.  Go's mutex serves waiting writers in turn, and the listing
\* of the block store ends.
Continue(p) == pc[p] \notin {"idle", "fetch", "diff"} /\ Step(p)

Fairness ==
    \A p \in Proc :
        /\ WF_nodeVars(Continue(p))
        /\ SF_nodeVars(AnnounceGCLock(p))
        /\ WF_nodeVars(SweepEnd(p))

FairSpec == Spec /\ Fairness

-----------------------------------------------------------------------------
(* Labels by the lock that the code holds there. *)

\* Inside a PinLock call or between it and its Unlock.
PinLabels ==
    {"pin", "fetch", "pinned", "rm", "update", "diff", "put", "putPin", "import",
     "pinRoots", "add", "addUnlock", "addNode", "unlock"}

\* Labels of PinLabels that are only reached with the lock held.
PinHeldLabels == PinLabels \ {"pin", "rm", "update", "put", "import", "add", "addNode"}

\* Before a PinLock call, and before or inside a GCLock call.
FreeLabels ==
    {"idle", "pinLock", "rmLock", "updateLock", "putLock", "importLock", "addLock",
     "addRelock", "gcRequest", "rmblocksRequest", "mfsFlush"}

\* Between GCLock and its Unlock.
GCLabels ==
    {"markRecursive", "markBestEffort", "markDirect", "sweep", "filterPinned",
     "rmblocks", "gcUnlock"}

\* Inside a GCLock call.
GCWaitLabels == {"gcLock", "rmblocksLock"}

Labels == PinLabels \cup FreeLabels \cup GCLabels \cup GCWaitLabels

TypeOK ==
    /\ LockTypeOK
    /\ blocks \in SUBSET Cid
    /\ rpins \in SUBSET Cid
    /\ dpins \in SUBSET Cid
    /\ mfsRoot \in Cid
    /\ pc \in [Proc -> Labels]
    /\ arg \in [Proc -> ArgType]

-----------------------------------------------------------------------------
(* Safety *)

\* No step deletes a block that a pin protects, at the moment of the deletion:
\* what gc.GC sweeps and what RmBlocks removes is outside the graphs of the
\* recursive pins and outside the direct pins, although both decided it in an
\* earlier step.
DeleteSparesPinned ==
    [][\A k \in blocks \ blocks' : k \notin Protected /\ k \notin Protected']_nodeVars

\* Every recursive pin has its whole graph in the block store, every direct
\* pin its block, at all times and whatever runs concurrently.
PinsComplete == Protected \subseteq blocks

\* When pin add is about to report success for a recursive pin, the whole
\* graph is stored ("Stores an IPFS object(s) from a given path locally to
\* disk", core/commands/pin/pin.go).
PinAddStores ==
    \A p \in Proc :
        pc[p] = "pinned" /\ arg[p].flag => Descendants[arg[p].c] \subseteq blocks

\* A collection never stops half-way because it cannot read the graph of a
\* recursive pin (ErrCannotFetchAllLinks): one unreadable pin would keep every
\* later collection from freeing anything.
MarkSucceeds ==
    \A p \in Proc : pc[p] = "markRecursive" => Reach(rpins, blocks) \subseteq blocks

\* Everything that an add has written so far is stored until its final pin,
\* also across the pauses in which a collection runs.
AddedStaysStored ==
    \A p \in Proc :
        arg[p].op = "add" =>
            \A i \in 1..FilesAdded(p) : Descendants[AddFiles[i]] \subseteq blocks

\* "All files and folders within MFS are respected and will not be deleted
\* during garbage collections" (core/commands/files.go): no step deletes a
\* stored block that is reachable from the current root of the file system.
MfsRespected ==
    [][\A k \in blocks \ blocks' : k \notin Reach({mfsRoot}, blocks)]_nodeVars

-----------------------------------------------------------------------------
(* Liveness *)

\* No fetch waits for its peers for ever.
FetchesEnd == \A p \in Proc : []<>(pc[p] \notin {"fetch", "diff"})

\* A collection or a block removal that asks for the lock gets it, however many
\* pin operations keep arriving, provided the fetches under PinLock end.
GCServed ==
    FetchesEnd => \A p \in Proc : p \in gcreq ~> p \notin gcreq

\* A pin operation that is blocked by a waiting or running collection goes on,
\* however many collections keep arriving, provided the fetches end.
PinServed ==
    FetchesEnd => \A p \in Proc : p \in rwait ~> p \in rheld

\* Neither side starves the other at the lock (GCLock, PinLock of gclocker).
LockServed == GCServed /\ PinServed

=============================================================================
