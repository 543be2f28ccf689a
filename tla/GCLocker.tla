------------------------------ MODULE GCLocker ------------------------------
(***************************************************************************)
(* The lock that keeps garbage collection apart from pinning: gclocker of  *)
(* go-ipfs-blockstore, a sync.RWMutex together with a counter of pending   *)
(* collections.  PinLock is the read side, GCLock the write side.          *)
(*                                                                         *)
(* The RWMutex is modelled with the discipline of Go's implementation: a   *)
(* writer first takes the inner mutex and announces itself; from then on   *)
(* new readers block; it enters once the readers that were inside have     *)
(* left; when it leaves, every blocked reader enters before another writer *)
(* can.  The counter gcreq is the set of callers that have incremented it  *)
(* and not yet decremented it, so the counter's value is its cardinality.  *)
(***************************************************************************)
CONSTANTS
    Proc,      \* goroutines that use the blockstore
    NoProc     \* no goroutine

ASSUME NoProcAssumption == NoProc \notin Proc

VARIABLES
    rheld,     \* goroutines inside PinLock
    rwait,     \* goroutines blocked in PinLock
    wowner,    \* holder of the inner writer mutex (announced), or NoProc
    wactive,   \* the announced writer is inside GCLock
    gcreq      \* goroutines counted by gcreq

lockVars == <<rheld, rwait, wowner, wactive, gcreq>>

LockTypeOK ==
    /\ rheld \in SUBSET Proc
    /\ rwait \in SUBSET Proc
    /\ wowner \in Proc \cup {NoProc}
    /\ wactive \in BOOLEAN
    /\ gcreq \in SUBSET Proc

LockInit ==
    /\ rheld = {}
    /\ rwait = {}
    /\ wowner = NoProc
    /\ wactive = FALSE
    /\ gcreq = {}

-----------------------------------------------------------------------------
\* Mutant: a reader enters although a writer has announced itself.
PinLockBarging(p) ==
    /\ IF ~wactive
       THEN rheld' = rheld \cup {p} /\ UNCHANGED rwait
       ELSE rwait' = rwait \cup {p} /\ UNCHANGED rheld
    /\ UNCHANGED <<wowner, wactive, gcreq>>

\* PinLock: lk.RLock().  The call returns when p is in rheld.
PinLock(p) ==
    /\ IF wowner = NoProc
       THEN rheld' = rheld \cup {p} /\ UNCHANGED rwait
       ELSE rwait' = rwait \cup {p} /\ UNCHANGED rheld
    /\ UNCHANGED <<wowner, wactive, gcreq>>

\* The Unlocker that PinLock returned: lk.RUnlock().
PinUnlock(p) ==
    /\ p \in rheld
    /\ rheld' = rheld \ {p}
    /\ UNCHANGED <<rwait, wowner, wactive, gcreq>>

\* GCLock: the counter is incremented before the mutex is asked for.
GCRequest(p) ==
    /\ gcreq' = gcreq \cup {p}
    /\ UNCHANGED <<rheld, rwait, wowner, wactive>>

\* GCLock, inside lk.Lock(): the writer owns the inner mutex and announces
\* itself to the readers.
GCAnnounce(p) ==
    /\ p \in gcreq
    /\ wowner = NoProc
    /\ wowner' = p
    /\ UNCHANGED <<rheld, rwait, wactive, gcreq>>

\* Mutant: the writer does not wait for the readers that are inside.
GCAcquireEarly(p) ==
    /\ wowner = p
    /\ ~wactive
    /\ wactive' = TRUE
    /\ gcreq' = gcreq \ {p}
    /\ UNCHANGED <<rheld, rwait, wowner>>

\* GCLock returns: the readers have drained and the counter is decremented.
\* No reader can run between the two, and only readers look at the counter.
GCAcquire(p) ==
    /\ wowner = p
    /\ ~wactive
    /\ rheld = {}
    /\ wactive' = TRUE
    /\ gcreq' = gcreq \ {p}
    /\ UNCHANGED <<rheld, rwait, wowner>>

\* Mutant: the blocked readers are not woken.
GCUnlockLosesReaders(p) ==
    /\ wowner = p
    /\ wactive
    /\ wowner' = NoProc
    /\ wactive' = FALSE
    /\ UNCHANGED <<rheld, rwait, gcreq>>

\* The Unlocker that GCLock returned: lk.Unlock() admits the blocked readers.
GCUnlock(p) ==
    /\ wowner = p
    /\ wactive
    /\ wowner' = NoProc
    /\ wactive' = FALSE
    /\ rheld' = rwait
    /\ rwait' = {}
    /\ UNCHANGED gcreq

GCRequested == gcreq # {}

-----------------------------------------------------------------------------
\* What the lock keeps true whoever calls it.
LockInv ==
    /\ wactive => wowner # NoProc /\ rheld = {}
    /\ rwait # {} => wowner # NoProc
    /\ wowner # NoProc => (wowner \in gcreq <=> ~wactive)
    /\ rheld \cap rwait = {}
=============================================================================
