------------------------------ MODULE Notifier ------------------------------
(***************************************************************************)
(* The notification dispatcher (thirdparty/notifier/notifier.go).          *)
(* NotifyAll calls a function for every notifiee in goroutines: all at     *)
(* once, or, with a rate limit, from a goroutine that walks the map of     *)
(* notifiees and takes a slot for each call. That walk does not hold the   *)
(* mutex: the map may change under it. A write that hits the walk ends the *)
(* process (Go's check of concurrent map use); otherwise the walk has the  *)
(* semantics of Go's range: an entry that is there throughout is met once, *)
(* one removed before it is met is not met, one added may be met or not.   *)
(* The limiter of goprocess is external: a channel of slots.               *)
(***************************************************************************)
EXTENDS Integers, FiniteSets

CONSTANTS Notifiees,
          NLimits,     \* the limits to try; 0 is none
          NEvents      \* the notifications, each given to NotifyAll at most once

ASSUME NLimitsAssumption == NLimits \subseteq Nat

VARIABLES nLimit,      \* limit
          nNots,       \* nots, and
          nMade,       \*   whether the map was made
          nSlots,      \* free slots of the limiter
          nWalk,       \* notification -> "none", "walk", "done"
          nMet,        \* notification -> notifiees its walk has met
          nCalls,      \* calls running or ended: [event, to, run]
          nFrom,       \* notification -> notifiees signed up ever since its NotifyAll
          nEver,       \* notification -> notifiees signed up at some time of its walk
          nDown        \* the process was ended by the runtime

nVars == <<nLimit, nNots, nMade, nSlots, nWalk, nMet, nCalls, nFrom, nEver, nDown>>

\* RateLimited(limit)
NInit ==
    /\ nLimit \in NLimits /\ nSlots = nLimit /\ nNots = {} /\ nMade = FALSE
    /\ nWalk = [e \in NEvents |-> "none"] /\ nMet = [e \in NEvents |-> {}]
    /\ nCalls = {} /\ nFrom = [e \in NEvents |-> {}] /\ nEver = [e \in NEvents |-> {}]
    /\ nDown = FALSE

Walking == {e \in NEvents : nWalk[e] = "walk"}

\* A write of the map under the mutex, which a walk does not take.
WriteNots(nots) ==
    /\ nNots' = nots /\ nMade' = TRUE
    /\ nDown' \in {FALSE, Walking # {}}
    /\ nFrom' = [e \in NEvents |-> IF e \in Walking THEN nFrom[e] \cap nots ELSE nFrom[e]]
    /\ nEver' = [e \in NEvents |-> IF e \in Walking THEN nEver[e] \cup nots ELSE nEver[e]]
    /\ UNCHANGED <<nLimit, nSlots, nWalk, nMet, nCalls>>

Notify(n) == ~nDown /\ n \notin nNots /\ WriteNots(nNots \cup {n})

StopNotify(n) == ~nDown /\ n \in nNots /\ WriteNots(nNots \ {n})

Call(e, n) == [event |-> e, to |-> n, run |-> TRUE]

\* NotifyAll: nothing before the first Notify; without a limit one goroutine for each notifiee, with
\* one a goroutine that walks the map.
NotifyAll(e) ==
    /\ ~nDown /\ nWalk[e] = "none"
    /\ IF nLimit = 0 \/ ~nMade
       THEN /\ nWalk' = [nWalk EXCEPT ![e] = "done"]
            /\ nCalls' = nCalls \cup {Call(e, n) : n \in nNots}
       ELSE /\ nWalk' = [nWalk EXCEPT ![e] = "walk"]
            /\ UNCHANGED nCalls
    /\ nFrom' = [nFrom EXCEPT ![e] = nNots] /\ nEver' = [nEver EXCEPT ![e] = nNots]
    /\ UNCHANGED <<nLimit, nNots, nMade, nSlots, nMet, nDown>>

\* Mutant: the function is called with the variable of the loop, by then at another notifiee.
WalkUnbound(e) ==
    /\ ~nDown /\ nWalk[e] = "walk" /\ nSlots > 0
    /\ \E n \in nNots \ nMet[e], m \in nNots :
          /\ nMet' = [nMet EXCEPT ![e] = @ \cup {n}]
          /\ nCalls' = nCalls \cup {Call(e, m)}
    /\ nSlots' = nSlots - 1
    /\ UNCHANGED <<nLimit, nNots, nMade, nWalk, nFrom, nEver, nDown>>

\* One turn of the walk: LimitedGo waits for a slot and starts the call.
Walk(e) ==
    /\ ~nDown /\ nWalk[e] = "walk" /\ nSlots > 0
    /\ \E n \in nNots \ nMet[e] :
          /\ nMet' = [nMet EXCEPT ![e] = @ \cup {n}]
          /\ nCalls' = nCalls \cup {Call(e, n)}
    /\ nSlots' = nSlots - 1
    /\ UNCHANGED <<nLimit, nNots, nMade, nWalk, nFrom, nEver, nDown>>

\* The walk ends when nothing that was there throughout is left.
WalkEnds(e) ==
    /\ ~nDown /\ nWalk[e] = "walk" /\ nFrom[e] \subseteq nMet[e]
    /\ nWalk' = [nWalk EXCEPT ![e] = "done"]
    /\ UNCHANGED <<nLimit, nNots, nMade, nSlots, nMet, nCalls, nFrom, nEver, nDown>>

\* Mutant: a call that ends does not give its slot back.
ReturnKeepsSlot(c) ==
    /\ ~nDown /\ c \in nCalls /\ c.run
    /\ nCalls' = (nCalls \ {c}) \cup {[c EXCEPT !.run = FALSE]}
    /\ UNCHANGED <<nLimit, nNots, nMade, nSlots, nWalk, nMet, nFrom, nEver, nDown>>

\* A call ends and, with a limit, its slot is free again.
CallReturns(c) ==
    /\ ~nDown /\ c \in nCalls /\ c.run
    /\ nCalls' = (nCalls \ {c}) \cup {[c EXCEPT !.run = FALSE]}
    /\ nSlots' = IF nLimit = 0 THEN nSlots ELSE nSlots + 1
    /\ UNCHANGED <<nLimit, nNots, nMade, nWalk, nMet, nFrom, nEver, nDown>>

NNext ==
    \/ \E n \in Notifiees : Notify(n) \/ StopNotify(n)
    \/ \E e \in NEvents : NotifyAll(e) \/ Walk(e) \/ WalkEnds(e)
    \/ \E c \in nCalls : CallReturns(c)

NSpec == NInit /\ [][NNext]_nVars

(***************************************************************************)
(* Properties.                                                             *)
(***************************************************************************)
\* "only limit goroutines will be spawned" for the calls of all notifications together, and no slot is
\* lost: each is free or taken by one call that runs, whatever else goes on (RateLimited, LimitedGo).
LimitKept == nLimit > 0 => nSlots >= 0 /\ nSlots + Cardinality({c \in nCalls : c.run}) = nLimit

\* When a notification is through, every notifiee that was signed up all the time was called for it,
\* and nobody who was not signed up at all, although the walk reads the map without the mutex.
NotifiedExactly ==
    \A e \in NEvents : nWalk[e] = "done" =>
        LET called == {c.to : c \in {d \in nCalls : d.event = e}}
        IN nFrom[e] \subseteq called /\ called \subseteq nEver[e]

\* A notification that is through has reached everybody signed up all the time and nobody who never
\* was, and no slot of the limit is lost or used twice (NotifyAll, RateLimited).
NotifiesExactly == NotifiedExactly /\ LimitKept
=============================================================================
