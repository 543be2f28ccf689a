--------------------------- MODULE PinStoreProofs ---------------------------
(***************************************************************************)
(* Proofs about PinStore, for any set of CIDs and identifiers and any      *)
(* number of requests.  Without assumptions on the datastore: when nobody  *)
(* holds the mutex and the counters agree, everything is on the disk.      *)
(* Over a datastore that keeps the order of its writes and does not fail:  *)
(* records and indexes match when the flag is clear and when no operation  *)
(* is under way, and what clients were told stays true across crashes.     *)
(***************************************************************************)
EXTENDS MCPinFaults, FiniteSetTheorems, TLAPS

\* Leaves are first-order unless they cite SMT.
USE Zenon

-----------------------------------------------------------------------------
(* What a crash would leave.                                               *)

\* Labels at which setDirty has been called and the change is not flushed.
ChangeLabels == {"putPin", "putIndex", "deleteIndex", "deletePin", "fixIndex", "fixSync"}

\* The disk has everything once it has been synced, and whenever the counters
\* agree, except during a rebuild, which does not call setDirty.
DurableInv ==
    /\ changed \in BOOLEAN
    /\ pc \in ChangeLabels => changed
    /\ pc \in CleanLabels => disk = store
    /\ ~changed /\ pc \notin {"rebuild", "repairSync", "lastSync"} => disk = store

LEMMA DurableInit == Init => DurableInv
BY DEF Init, DurableInv, ChangeLabels, CleanLabels

\* Requests that begin, wait and end leave the datastore and the counters alone.
LEMMA DurableClient == DurableInv /\ Client => DurableInv'
<1> SUFFICES ASSUME DurableInv, Client PROVE DurableInv'
    OBVIOUS
<1> USE DEF DurableInv, ChangeLabels, CleanLabels
<1>1. ASSUME NEW c \in PinCid, BeginPin(c) \/ PinDirect(c) \/ Unpin(c) \/ PutPin(c)
      PROVE  DurableInv'
    BY <1>1 DEF BeginPin, PinDirect, Unpin, PutPin, Work
<1>2. ASSUME NEW from \in PinCid, NEW to \in PinCid, NEW unpin \in BOOLEAN,
             BeginUpdate(from, to, unpin)
      PROVE  DurableInv'
    BY <1>2 DEF BeginUpdate
<1>3. ASSUME NEW r \in pending, EndPin(r) \/ EndUpdate(r) \/ Flush(r) \/ GiveUp(r)
      PROVE  DurableInv'
    BY <1>3 DEF EndPin, EndUpdate, Flush, GiveUp, Work
<1> QED
    BY <1>1, <1>2, <1>3 DEF Client

\* The holder of the mutex moves the counter before it changes anything, and
\* makes the counters agree only after a sync.
LEMMA DurableHolder == DurableInv /\ Holder => DurableInv'
<1> SUFFICES ASSUME DurableInv, Holder PROVE DurableInv'
    OBVIOUS
<1> USE DEF DurableInv, ChangeLabels, CleanLabels
<1>1. CASE NextAdd
    BY <1>1 DEF NextAdd, SetDirty
<1>2. CASE NextRemove
    BY <1>2 DEF NextRemove, SetDirty
<1>3. CASE NextFlush
    BY <1>3 DEF NextFlush
<1>4. CASE PutPinRecord \/ PutIndex \/ DeleteIndex \/ DeletePinRecord \/ FixIndex
    BY <1>4 DEF PutPinRecord, PutIndex, DeleteIndex, DeletePinRecord, FixIndex
<1>5. CASE Sync
    BY <1>5 DEF Sync, SyncLabels
<1>6. CASE SetClean
  <2>1. ~changed' => disk' = store'
    <3>1. disk = store
        BY <1>6 DEF SetClean
    <3>2. CASE UNCHANGED <<store, disk, changed>>
        BY <3>1, <3>2
    <3>3. CASE /\ store' = [store EXCEPT !.dirty = FALSE]
               /\ disk' = [disk EXCEPT !.dirty = FALSE]
        BY <3>1, <3>3
    <3>4. CASE changed /\ UNCHANGED changed
        BY <3>4
    <3> QED
        BY <1>6, <3>2, <3>3, <3>4 DEF SetClean
  <2>2. changed' \in BOOLEAN
      BY <1>6 DEF SetClean
  <2>3. pc' \in {"idle", "next", "rebuild"}
      BY <1>6 DEF SetClean, Return
  <2> QED
      BY <2>1, <2>2, <2>3
<1>7. CASE WriteFail
    BY <1>7 DEF WriteFail, ReturnError
<1>8. CASE FixIndexFail
    BY <1>8 DEF FixIndexFail, ReturnError
<1> QED
    BY <1>1, <1>2, <1>3, <1>4, <1>5, <1>6, <1>7, <1>8 DEF Holder

LEMMA DurableNext == DurableInv /\ [Next]_vars => DurableInv'
<1> SUFFICES ASSUME DurableInv, [Next]_vars PROVE DurableInv'
    OBVIOUS
<1>1. CASE Client
    BY <1>1, DurableClient
<1>2. CASE Holder
    BY <1>2, DurableHolder
<1>3. CASE Recovery
    BY <1>3 DEF Recovery, Open, RebuildPin, RebuildEnd, RepairSyncFail,
                DurableInv, ChangeLabels, CleanLabels
<1>4. CASE WriteBack
    BY <1>4 DEF WriteBack, DurableInv, ChangeLabels, CleanLabels
<1>5. CASE Crash
    BY <1>5 DEF Crash, DurableInv, ChangeLabels, CleanLabels
<1>6. CASE UNCHANGED vars
    BY <1>6 DEF vars, DurableInv
<1> QED
    BY <1>1, <1>2, <1>3, <1>4, <1>5, <1>6 DEF Next

\* While the mutex is free and the counters dirty and clean agree, a crash loses
\* nothing of what lookups answer, over any datastore and whatever fails: setDirty
\* comes before the first write of an operation, and setClean after a sync.
THEOREM Durable == Spec => []SettledMeansDurable
<1>1. DurableInv => SettledMeansDurable
    BY DEF DurableInv, SettledMeansDurable
<1> QED
    BY <1>1, DurableInit, DurableNext, PTL DEF Spec

-----------------------------------------------------------------------------
(* A datastore that keeps the order of its writes and does not fail.       *)

\* The assumptions of this part on the datastore, and on how many pins there are: so few
\* that a rebuild does not flush, and clear the flag, before it has checked them all.
Reliable == Ordered /\ Faults = {}
FewPins == IsFiniteSet(store.pins) /\ Cardinality(store.pins) < SyncRepairFrequency

\* The labels that are reached, inside an operation and inside a rebuild.
WorkLabels == {"next", "putPin", "putIndex", "deleteIndex", "deletePin", "sync", "clean"}
RebuildLabels == {"rebuild", "lastSync", "lastClean"}

\* What the variables are at each label.
ShapeInv ==
    /\ store \in Store
    /\ changed \in BOOLEAN
    /\ pc \in {"idle", "down"} \cup WorkLabels \cup RebuildLabels
    /\ pending \in SUBSET Request
    /\ promise \in [Mode \X PinCid -> {"yes", "no", "open"}]
    /\ pc \notin {"idle", "down"} => job \in Job
    /\ pc \in WorkLabels => job.req \in Request

UniqueIds(S) == \A t, u \in S : t.id = u.id => t = u

\* The flag on the disk is the counter's, and is set while records and indexes
\* can differ; they differ by at most the pin in hand, and during a rebuild by
\* records that are still to be checked.
MatchInv ==
    /\ disk = store
    /\ IF pc = "down" THEN ~changed ELSE changed = store.dirty
    /\ pc \in {"putPin", "putIndex", "deleteIndex", "deletePin"} \cup RebuildLabels => changed
    /\ store.index \subseteq store.pins
    /\ UniqueIds(store.pins)
    /\ \/ pc \in {"idle", "next", "sync", "clean", "putPin", "deleteIndex", "lastSync", "lastClean"}
       \/ pc = "down" /\ ~store.dirty
       => store.pins = store.index
    /\ pc = "putIndex" => store.pins = store.index \cup job.cur
    /\ pc = "deletePin" => store.index = store.pins \ job.cur
    /\ pc = "rebuild" =>
          /\ job.rm \subseteq store.pins
          /\ store.pins \ job.rm \subseteq store.index
          /\ job.n + Cardinality(job.rm) <= Cardinality(store.pins)

\* An operation removes pins that are there and adds one that is not, under an
\* identifier that no other pin has.
WorkInv ==
    pc \in WorkLabels =>
        /\ job.rm \subseteq store.index
        /\ job.add \cap store.pins = {}
        /\ UniqueIds(store.pins \cup job.add \cup job.cur)
        /\ pc \in {"deleteIndex", "deletePin"} => job.cur \subseteq store.pins \ job.rm
        /\ pc \in {"putPin", "putIndex", "sync", "clean"} => job.add = {}
        /\ pc \in {"sync", "clean"} => job.rm = {}

\* The keys of promises that pins belong to.
Keys(S) == {<<t.mode, t.c>> : t \in S}

Holds(claims, S) == \A x \in claims : x.pinned <=> <<x.mode, x.c>> \in Keys(S)

\* The pins that there will be when the operation under way has done its work.
After ==
    ((store.pins \cup job.add \cup (IF pc = "putPin" THEN job.cur ELSE {})) \ job.rm)
        \ (IF pc \in {"deleteIndex", "deletePin"} THEN job.cur ELSE {})

\* The pins an operation touches.
Touched == Keys(job.rm \cup job.add \cup job.cur)

\* What clients were told is true of the records, what requests are about to
\* report too, and what the operation under way will report becomes true; the
\* pins it touches are in no promise and in no other request's claims.
PromiseInv ==
    /\ \A k \in Mode \X PinCid :
          /\ promise[k] = "yes" => k \in Keys(store.pins)
          /\ promise[k] = "no" => k \notin Keys(store.pins)
    /\ \A r \in pending :
          /\ Holds(r.claims, store.pins)
          /\ r.op = "update" => r.c # r.to
    /\ pc \in WorkLabels =>
          /\ \A k \in Touched : promise[k] = "open"
          /\ \A r \in pending : \A x \in r.claims : <<x.mode, x.c>> \notin Touched
          /\ Holds(job.req.claims, After)

OrderedInv == ShapeInv /\ MatchInv /\ WorkInv /\ PromiseInv

LEMMA OrderedInit == Init => OrderedInv
<1> SUFFICES ASSUME Init PROVE OrderedInv
    OBVIOUS
<1> USE DEF Init
<1>1. ShapeInv
    BY DEF ShapeInv, Store, WorkLabels, RebuildLabels
<1>2. MatchInv
    BY DEF MatchInv, UniqueIds, RebuildLabels
<1>3. WorkInv
    BY DEF WorkInv, WorkLabels
<1>4. PromiseInv
    BY DEF PromiseInv, Keys, WorkLabels
<1> QED
    BY <1>1, <1>2, <1>3, <1>4 DEF OrderedInv

-----------------------------------------------------------------------------
(* Requests begin.                                                         *)

LEMMA KeysUnion ==
    ASSUME NEW A, NEW B
    PROVE  Keys(A \cup B) = Keys(A) \cup Keys(B) /\ Keys({}) = {}
BY DEF Keys

\* Between operations a lookup in an index finds the keys of the records.
LEMMA IdleLookup ==
    ASSUME OrderedInv, pc = "idle", NEW m \in Mode, NEW c \in PinCid
    PROVE  HasAny(m, c) <=> <<m, c>> \in Keys(store.pins)
<1>1. store.pins = store.index
    BY DEF OrderedInv, MatchInv
<1> QED
    BY <1>1 DEF HasAny, Keys

\* A pin with a fresh identifier.
LEMMA FreshPin ==
    ASSUME OrderedInv, NEW m \in Mode, NEW c \in PinCid, NEW id \in FreshIds
    PROVE  LET t == [mode |-> m, c |-> c, id |-> id] IN
           /\ t \in Pin
           /\ t \notin store.pins
           /\ UniqueIds(store.pins \cup {t})
           /\ Keys({t}) = {<<m, c>>}
           /\ \A S : t \in S => <<m, c>> \in Keys(S)
<1> DEFINE t == [mode |-> m, c |-> c, id |-> id]
<1>1. t \in Pin /\ t.id = id
    BY DEF Pin, FreshIds
<1>2. \A u \in store.pins : u.id # id
    BY DEF FreshIds
<1>3. UniqueIds(store.pins)
    BY DEF OrderedInv, MatchInv
<1>4. t \notin store.pins
    BY <1>1, <1>2
<1>5. UniqueIds(store.pins \cup {t})
    BY <1>1, <1>2, <1>3 DEF UniqueIds
<1>6. t.mode = m /\ t.c = c
    OBVIOUS
<1>7. Keys({t}) = {<<m, c>>} /\ \A S : t \in S => <<m, c>> \in Keys(S)
    BY <1>6 DEF Keys
<1> QED
    BY <1>1, <1>4, <1>5, <1>7

\* Requests come and go while the datastore, the mutex and the promises stay.
LEMMA PendingChanges ==
    ASSUME OrderedInv, pending' \in SUBSET Request,
           UNCHANGED <<store, disk, changed, pc, job, promise>>,
           pc \in WorkLabels => pending' \subseteq pending,
           \A r \in pending' : Holds(r.claims, store.pins) /\ (r.op = "update" => r.c # r.to)
    PROVE  OrderedInv'
<1>1. ShapeInv'
    BY DEF OrderedInv, ShapeInv
<1>2. MatchInv'
    BY DEF OrderedInv, MatchInv
<1>3. WorkInv'
    BY DEF OrderedInv, WorkInv
<1>4. After' = After /\ Touched' = Touched
    BY DEF After, Touched
<1>5. PromiseInv'
    BY <1>4 DEF OrderedInv, PromiseInv
<1> QED
    BY <1>1, <1>2, <1>3, <1>5 DEF OrderedInv

\* An operation takes the mutex and settles what it will do.
LEMMA WorkBegins ==
    ASSUME OrderedInv, pc = "idle", UNCHANGED <<store, disk, changed>>,
           NEW r \in Request, NEW rm \in SUBSET store.index, NEW add \in SUBSET Pin,
           NEW addFirst \in BOOLEAN, NEW modes \in SUBSET Mode,
           Work(r, rm, add, addFirst, modes),
           NEW keys \in SUBSET (Mode \X PinCid), NEW others \in SUBSET pending,
           Touch(keys, others),
           Keys(rm \cup add) \subseteq keys,
           add \cap store.pins = {},
           UniqueIds(store.pins \cup add),
           Holds(r.claims, (store.pins \cup add) \ rm)
    PROVE  OrderedInv'
<1> USE DEF OrderedInv
<1>1. /\ store \in Store /\ pending \in SUBSET Request
      /\ promise \in [Mode \X PinCid -> {"yes", "no", "open"}]
      /\ store.pins = store.index
    BY DEF ShapeInv, MatchInv
<1>2. /\ pc' = "next" /\ store' = store
      /\ job' = [req |-> r, rm |-> rm, add |-> add, addFirst |-> addFirst, modes |-> modes,
                 cur |-> {}, n |-> 0]
    BY DEF Work
<1>3. job' \in Job
    BY SMT, <1>1, <1>2, BoundsAssumption DEF Job, Store
<1>4. ASSUME NEW q \in pending'
      PROVE  \E r0 \in pending :
                /\ q \in Request /\ q.op = r0.op /\ q.c = r0.c /\ q.to = r0.to
                /\ q.claims = {x \in r0.claims : <<x.mode, x.c>> \notin keys}
  <2>1. PICK r0 \in others :
            q = [r0 EXCEPT !.claims = {x \in @ : <<x.mode, x.c>> \notin keys}]
      BY DEF Touch
  <2>2. r0 \in Request
      BY <1>1
  <2> QED
      BY <2>1, <2>2 DEF Request
<1>5. promise' = [k \in Mode \X PinCid |-> IF k \in keys THEN "open" ELSE promise[k]]
    BY DEF Touch
<1>6. ShapeInv'
  <2>1. promise' \in [Mode \X PinCid -> {"yes", "no", "open"}]
      BY <1>1, <1>5
  <2>2. pending' \in SUBSET Request
      BY <1>4
  <2> QED
      BY <1>2, <1>3, <2>1, <2>2 DEF ShapeInv, WorkLabels, RebuildLabels
<1>7. MatchInv'
    BY <1>2 DEF MatchInv, RebuildLabels
<1>8. WorkInv'
    BY <1>2 DEF WorkInv
<1>9. After' = (store.pins \cup add) \ rm /\ Touched' = Keys(rm \cup add)
    BY <1>2 DEF After, Touched
<1>10. PromiseInv'
  <2>1. ASSUME NEW k \in Mode \X PinCid
        PROVE  /\ promise'[k] = "yes" => k \in Keys(store'.pins)
               /\ promise'[k] = "no" => k \notin Keys(store'.pins)
      BY <1>2, <1>5 DEF PromiseInv
  <2>2. ASSUME NEW q \in pending'
        PROVE  /\ Holds(q.claims, store'.pins)
               /\ q.op = "update" => q.c # q.to
               /\ \A x \in q.claims : <<x.mode, x.c>> \notin keys
      BY SMT, <1>2, <1>4 DEF PromiseInv, Holds
  <2>3. \A k \in Touched' : promise'[k] = "open"
      BY <1>5, <1>9
  <2>4. Holds(job'.req.claims, After')
      BY <1>2, <1>9
  <2> QED
      BY <1>9, <2>1, <2>2, <2>3, <2>4 DEF PromiseInv
<1> QED
    BY <1>6, <1>7, <1>8, <1>10

\* A claim that a pin exists, or does not.
LEMMA Claims ==
    ASSUME NEW m \in Mode, NEW c \in PinCid, NEW S
    PROVE  /\ Yes(m, c) \in Claim /\ No(m, c) \in Claim
           /\ Holds({Yes(m, c)}, S) <=> <<m, c>> \in Keys(S)
           /\ Holds({No(m, c)}, S) <=> <<m, c>> \notin Keys(S)
BY SMT DEF Yes, No, Claim, Holds

\* What a search of an index finds, and what is left without it.
LEMMA Found ==
    ASSUME OrderedInv, pc = "idle", NEW m \in Mode, NEW c \in PinCid
    PROVE  /\ Search(m, c) \in SUBSET store.index
           /\ Keys(Search(m, c)) \subseteq {<<m, c>>}
           /\ <<m, c>> \notin Keys(store.pins \ Search(m, c))
<1>1. store.pins = store.index
    BY DEF OrderedInv, MatchInv
<1> QED
    BY <1>1 DEF Search, Keys

LEMMA OrderedBeginPin ==
    ASSUME OrderedInv, NEW c \in PinCid, BeginPin(c)
    PROVE  OrderedInv'
<1> DEFINE r == Request0("pin", c, c, TRUE)
           f == [ToFlush(r) EXCEPT !.claims = {Yes("recursive", c)}]
<1>0. "recursive" \in Mode /\ pending \in SUBSET Request
    BY DEF Mode, OrderedInv, ShapeInv
<1>1. /\ pc = "idle" /\ UNCHANGED <<store, disk, changed, pc, job, promise>>
      /\ pending' = pending \cup {IF HasAny("recursive", c) THEN f ELSE r}
    BY DEF BeginPin, Suspend
<1>2. /\ r \in Request /\ r.claims = {} /\ r.op = "pin"
      /\ f \in Request /\ f.claims = {Yes("recursive", c)} /\ f.op = "flush"
    BY <1>0, Claims DEF Request0, Request, ToFlush
<1>3. HasAny("recursive", c) => Holds(f.claims, store.pins)
  <2>1. HasAny("recursive", c) <=> <<"recursive", c>> \in Keys(store.pins)
      BY <1>0, <1>1, IdleLookup
  <2>2. Holds({Yes("recursive", c)}, store.pins) <=> <<"recursive", c>> \in Keys(store.pins)
      BY <1>0, Claims
  <2> QED
      BY <1>2, <2>1, <2>2
<1>4. Holds(r.claims, store.pins)
    BY <1>2 DEF Holds
<1>5. pending' \in SUBSET Request
    BY <1>0, <1>1, <1>2
<1>6. \A q \in pending' : Holds(q.claims, store.pins) /\ (q.op = "update" => q.c # q.to)
    BY <1>1, <1>2, <1>3, <1>4 DEF OrderedInv, PromiseInv
<1>7. pc \notin WorkLabels
    BY <1>1 DEF WorkLabels
<1> HIDE DEF r, f
<1> QED
    BY <1>1, <1>5, <1>6, <1>7, PendingChanges

LEMMA OrderedBeginUpdate ==
    ASSUME OrderedInv, NEW from \in PinCid, NEW to \in PinCid, NEW unpin \in BOOLEAN,
           BeginUpdate(from, to, unpin)
    PROVE  OrderedInv'
<1> DEFINE r == Request0("update", from, to, unpin)
<1>0. pending \in SUBSET Request
    BY DEF OrderedInv, ShapeInv
<1>1. /\ pc = "idle" /\ UNCHANGED <<store, disk, changed, pc, job, promise>>
      /\ pending' = pending \cup {r} /\ from # to
    BY DEF BeginUpdate, Suspend
<1>2. r \in Request /\ r.claims = {} /\ r.c = from /\ r.to = to
    BY DEF Request0, Request
<1>3. pending' \in SUBSET Request
    BY <1>0, <1>1, <1>2
<1>4. \A q \in pending' : Holds(q.claims, store.pins) /\ (q.op = "update" => q.c # q.to)
    BY <1>1, <1>2 DEF OrderedInv, PromiseInv, Holds
<1>5. pc \notin WorkLabels
    BY <1>1 DEF WorkLabels
<1> HIDE DEF r
<1> QED
    BY <1>1, <1>3, <1>4, <1>5, PendingChanges

LEMMA OrderedGiveUp ==
    ASSUME OrderedInv, NEW r \in pending, GiveUp(r)
    PROVE  OrderedInv'
<1>1. /\ UNCHANGED <<store, disk, changed, pc, job, promise>> /\ pending' = pending \ {r}
      /\ pending \in SUBSET Request
    BY DEF GiveUp, OrderedInv, ShapeInv
<1>2. \A q \in pending' : Holds(q.claims, store.pins) /\ (q.op = "update" => q.c # q.to)
    BY <1>1 DEF OrderedInv, PromiseInv
<1> QED
    BY <1>1, <1>2, PendingChanges

LEMMA OrderedPinDirect ==
    ASSUME OrderedInv, NEW c \in PinCid, PinDirect(c)
    PROVE  OrderedInv'
<1> DEFINE r == [Request0("direct", c, c, FALSE) EXCEPT !.claims = {Yes("direct", c)}]
<1>0. "direct" \in Mode
    BY DEF Mode
<1>1. PICK id \in FreshIds :
          Work(r, {}, {[mode |-> "direct", c |-> c, id |-> id]}, TRUE, {})
    BY DEF PinDirect
<1> DEFINE t == [mode |-> "direct", c |-> c, id |-> id]
<1>2. pc = "idle" /\ UNCHANGED <<store, disk, changed>> /\ Touch({<<"direct", c>>}, pending)
    BY DEF PinDirect
<1>3. r \in Request /\ r.claims = {Yes("direct", c)}
    BY <1>0, Claims DEF Request0, Request
<1>4. t \in Pin /\ t \notin store.pins /\ UniqueIds(store.pins \cup {t})
    BY <1>0, FreshPin
<1>5. Keys({} \cup {t}) \subseteq {<<"direct", c>>} /\ {<<"direct", c>>} \in SUBSET (Mode \X PinCid)
  <2>1. Keys({t}) = {<<"direct", c>>}
      BY <1>0, FreshPin
  <2>2. Keys({} \cup {t}) = Keys({t})
      BY KeysUnion
  <2> QED
      BY SMT, <1>0, <2>1, <2>2
<1>6. <<"direct", c>> \in Keys((store.pins \cup {t}) \ {})
    BY <1>0, FreshPin
<1>7. Holds(r.claims, (store.pins \cup {t}) \ {})
    BY <1>0, <1>3, <1>6, Claims
<1>8. Work(r, {}, {t}, TRUE, {})
    BY <1>1
<1>9. /\ {t} \in SUBSET Pin /\ {t} \cap store.pins = {} /\ {} \in SUBSET store.index
      /\ {} \in SUBSET Mode /\ pending \in SUBSET pending /\ TRUE \in BOOLEAN
    BY <1>4
<1> HIDE DEF r, t
<1> QED
    BY <1>2, <1>3, <1>4, <1>5, <1>7, <1>8, <1>9, WorkBegins

LEMMA OrderedUnpin ==
    ASSUME OrderedInv, NEW c \in PinCid, Unpin(c)
    PROVE  OrderedInv'
<1> DEFINE claims == {No("recursive", c), No("direct", c)}
           r == [Request0("rm", c, c, TRUE) EXCEPT !.claims = claims]
           rm == Search("recursive", c) \cup Search("direct", c)
           keys == {<<"recursive", c>>, <<"direct", c>>}
<1>0. "recursive" \in Mode /\ "direct" \in Mode /\ Mode \in SUBSET Mode
    BY DEF Mode
<1>1. /\ pc = "idle" /\ UNCHANGED <<store, disk, changed>>
      /\ Work(r, rm, {}, FALSE, Mode) /\ Touch(keys, pending)
    BY DEF Unpin
<1>2. r \in Request /\ r.claims = claims
    BY <1>0, Claims DEF Request0, Request
<1>3. /\ rm \in SUBSET store.index
      /\ Keys(Search("recursive", c)) \subseteq {<<"recursive", c>>}
      /\ Keys(Search("direct", c)) \subseteq {<<"direct", c>>}
    BY <1>0, <1>1, Found
<1>4. Keys(rm \cup {}) \subseteq keys
  <2>1. Keys(rm \cup {}) = Keys(rm) /\ Keys(rm) = Keys(Search("recursive", c)) \cup Keys(Search("direct", c))
      BY KeysUnion
  <2> QED
      BY <1>3, <2>1
<1>5. <<"recursive", c>> \notin Keys((store.pins \cup {}) \ rm) /\ <<"direct", c>> \notin Keys((store.pins \cup {}) \ rm)
  <2>1. store.pins = store.index
      BY <1>1 DEF OrderedInv, MatchInv
  <2> QED
      BY <2>1 DEF Keys, Search
<1>6. Holds(r.claims, (store.pins \cup {}) \ rm)
    BY SMT, <1>2, <1>5 DEF Holds, No
<1>7. /\ {} \in SUBSET Pin /\ {} \cap store.pins = {} /\ UniqueIds(store.pins \cup {})
      /\ FALSE \in BOOLEAN /\ pending \in SUBSET pending /\ keys \in SUBSET (Mode \X PinCid)
    BY SMT, <1>0 DEF OrderedInv, MatchInv, UniqueIds
<1> HIDE DEF r, rm, keys
<1> QED
    BY <1>0, <1>1, <1>2, <1>3, <1>4, <1>6, <1>7, WorkBegins

LEMMA OrderedPutPin ==
    ASSUME OrderedInv, NEW c \in PinCid, PutPin(c)
    PROVE  OrderedInv'
<1> DEFINE r == [Request0("put", c, c, TRUE) EXCEPT !.claims = {Yes("recursive", c)}]
           f == ToFlush(r)
           keys == {<<"recursive", c>>}
<1>0. "recursive" \in Mode /\ pending \in SUBSET Request
    BY DEF Mode, OrderedInv, ShapeInv
<1>1. pc = "idle" /\ UNCHANGED <<store, disk, changed>>
    BY DEF PutPin
<1>2. /\ r \in Request /\ r.claims = {Yes("recursive", c)}
      /\ f \in Request /\ f.claims = {Yes("recursive", c)} /\ f.op = "flush"
    BY <1>0, Claims DEF Request0, Request, ToFlush
<1>3. CASE HasAny("recursive", c) /\ Suspend(f) /\ UNCHANGED <<pc, job, promise>>
  <2>1. HasAny("recursive", c) <=> <<"recursive", c>> \in Keys(store.pins)
      BY <1>0, <1>1, IdleLookup
  <2>2. Holds({Yes("recursive", c)}, store.pins) <=> <<"recursive", c>> \in Keys(store.pins)
      BY <1>0, Claims
  <2>3. pending' = pending \cup {f} /\ pending' \in SUBSET Request
      BY <1>0, <1>2, <1>3 DEF Suspend
  <2>4. \A q \in pending' : Holds(q.claims, store.pins) /\ (q.op = "update" => q.c # q.to)
      BY <1>2, <1>3, <2>1, <2>2, <2>3 DEF OrderedInv, PromiseInv
  <2>5. pc \notin WorkLabels
      BY <1>1 DEF WorkLabels
  <2> HIDE DEF r, f
  <2> QED
      BY <1>1, <1>3, <2>3, <2>4, <2>5, PendingChanges
<1>4. ASSUME NEW id \in FreshIds,
             Work(r, {}, {[mode |-> "recursive", c |-> c, id |-> id]}, TRUE, {}),
             Touch(keys, pending)
      PROVE  OrderedInv'
  <2> DEFINE t == [mode |-> "recursive", c |-> c, id |-> id]
  <2>1. /\ t \in Pin /\ t \notin store.pins /\ UniqueIds(store.pins \cup {t})
        /\ Keys({t}) = keys /\ <<"recursive", c>> \in Keys((store.pins \cup {t}) \ {})
      BY <1>0, FreshPin
  <2>2. Keys({} \cup {t}) \subseteq keys /\ keys \in SUBSET (Mode \X PinCid)
    <3>1. Keys({} \cup {t}) = Keys({t})
        BY KeysUnion
    <3> QED
        BY SMT, <1>0, <2>1, <3>1
  <2>3. Holds(r.claims, (store.pins \cup {t}) \ {})
    <3> HIDE DEF r, t
    <3>1. Holds({Yes("recursive", c)}, (store.pins \cup {t}) \ {})
        BY <1>0, <2>1, Claims
    <3> QED
        BY <1>2, <3>1
  <2>4. Work(r, {}, {t}, TRUE, {})
      BY <1>4
  <2>5. /\ {t} \in SUBSET Pin /\ {t} \cap store.pins = {} /\ {} \in SUBSET store.index
        /\ {} \in SUBSET Mode /\ pending \in SUBSET pending /\ TRUE \in BOOLEAN
      BY <2>1
  <2> HIDE DEF r, t, keys
  <2> QED
      BY <1>1, <1>2, <1>4, <2>1, <2>2, <2>3, <2>4, <2>5, WorkBegins
<1> QED
    BY <1>3, <1>4 DEF PutPin

LEMMA OrderedEndPin ==
    ASSUME OrderedInv, NEW r \in pending, EndPin(r)
    PROVE  OrderedInv'
<1> DEFINE f == [ToFlush(r) EXCEPT !.claims = {Yes("recursive", r.c)}]
           w == [r EXCEPT !.claims = {Yes("recursive", r.c)}]
           rm == Search("direct", r.c)
           keys == {<<"recursive", r.c>>, <<"direct", r.c>>}
<1>0. /\ "recursive" \in Mode /\ "direct" \in Mode /\ {"direct"} \in SUBSET Mode
      /\ pending \in SUBSET Request
    BY DEF Mode, OrderedInv, ShapeInv
<1>1. pc = "idle" /\ UNCHANGED <<store, disk, changed>>
    BY DEF EndPin
<1>2. r \in Request /\ r.c \in PinCid
    BY <1>0 DEF Request
<1>3. /\ w \in Request /\ w.claims = {Yes("recursive", r.c)}
      /\ f \in Request /\ f.claims = {Yes("recursive", r.c)} /\ f.op = "flush"
  <2>1. {Yes("recursive", r.c)} \in SUBSET Claim
      BY <1>0, <1>2, Claims
  <2>2. w \in Request /\ w.claims = {Yes("recursive", r.c)}
      BY <1>2, <2>1 DEF Request
  <2>3. f \in Request /\ f.claims = {Yes("recursive", r.c)} /\ f.op = "flush"
      BY <1>2, <2>1 DEF Request, ToFlush
  <2> QED
      BY <2>2, <2>3
<1>4. CASE /\ HasAny("recursive", r.c) /\ pending' = (pending \ {r}) \cup {f}
           /\ UNCHANGED <<pc, job, promise>>
  <2>1. HasAny("recursive", r.c) <=> <<"recursive", r.c>> \in Keys(store.pins)
      BY <1>0, <1>1, <1>2, IdleLookup
  <2>2. Holds({Yes("recursive", r.c)}, store.pins) <=> <<"recursive", r.c>> \in Keys(store.pins)
      BY <1>0, <1>2, Claims
  <2>3. pending' \in SUBSET Request
      BY <1>0, <1>3, <1>4
  <2>4. \A q \in pending' : Holds(q.claims, store.pins) /\ (q.op = "update" => q.c # q.to)
      BY <1>3, <1>4, <2>1, <2>2 DEF OrderedInv, PromiseInv
  <2>5. pc \notin WorkLabels
      BY <1>1 DEF WorkLabels
  <2> HIDE DEF f
  <2> QED
      BY <1>1, <1>4, <2>3, <2>4, <2>5, PendingChanges
<1>5. ASSUME NEW id \in FreshIds,
             Work(w, rm, {[mode |-> "recursive", c |-> r.c, id |-> id]}, FALSE, {"direct"}),
             Touch(keys, pending \ {r})
      PROVE  OrderedInv'
  <2> DEFINE t == [mode |-> "recursive", c |-> r.c, id |-> id]
  <2>1. rm \in SUBSET store.index /\ Keys(rm) \subseteq {<<"direct", r.c>>}
      BY <1>0, <1>1, <1>2, Found
  <2>2. /\ t \in Pin /\ t \notin store.pins /\ UniqueIds(store.pins \cup {t})
        /\ Keys({t}) = {<<"recursive", r.c>>}
        /\ t \in (store.pins \cup {t}) \ rm =>
              <<"recursive", r.c>> \in Keys((store.pins \cup {t}) \ rm)
      BY <1>0, <1>2, FreshPin
  <2>3. store.index = store.pins
      BY <1>1 DEF OrderedInv, MatchInv
  <2> HIDE DEF t, w, rm
  <2>4. Keys(rm \cup {t}) \subseteq keys /\ keys \in SUBSET (Mode \X PinCid)
    <3>1. Keys(rm \cup {t}) = Keys(rm) \cup Keys({t})
        BY KeysUnion
    <3>2. Keys(rm \cup {t}) \subseteq keys
        BY <2>1, <2>2, <3>1
    <3>3. keys \in SUBSET (Mode \X PinCid)
        BY SMT, <1>0, <1>2
    <3> QED
        BY <3>2, <3>3
  <2>5. Holds(w.claims, (store.pins \cup {t}) \ rm)
    <3>1. <<"recursive", r.c>> \in Keys((store.pins \cup {t}) \ rm)
        BY <2>1, <2>2, <2>3
    <3>2. Holds({Yes("recursive", r.c)}, (store.pins \cup {t}) \ rm)
        BY <1>0, <1>2, <3>1, Claims
    <3> QED
        BY <1>3, <3>2
  <2>6. Work(w, rm, {t}, FALSE, {"direct"})
      BY <1>5 DEF t
  <2>7. /\ {t} \in SUBSET Pin /\ {t} \cap store.pins = {} /\ pending \ {r} \in SUBSET pending
        /\ FALSE \in BOOLEAN
      BY <2>2
  <2> HIDE DEF keys
  <2> QED
      BY <1>0, <1>1, <1>3, <1>5, <2>1, <2>2, <2>4, <2>5, <2>6, <2>7, WorkBegins
<1> QED
    BY <1>4, <1>5 DEF EndPin

LEMMA OrderedEndUpdate ==
    ASSUME OrderedInv, NEW r \in pending, EndUpdate(r)
    PROVE  OrderedInv'
<1> DEFINE claims == {Yes("recursive", r.to)} \cup (IF r.flag THEN {No("recursive", r.c)} ELSE {})
           w == [r EXCEPT !.claims = claims]
           rm == IF r.flag THEN Search("recursive", r.c) ELSE {}
           keys == {<<"recursive", r.to>>} \cup (IF r.flag THEN {<<"recursive", r.c>>} ELSE {})
<1>0. /\ "recursive" \in Mode /\ {"recursive"} \in SUBSET Mode
      /\ pending \in SUBSET Request
    BY DEF Mode, OrderedInv, ShapeInv
<1>1. /\ pc = "idle" /\ UNCHANGED <<store, disk, changed>> /\ r.op = "update"
      /\ Touch(keys, pending \ {r})
    BY DEF EndUpdate
<1>2. r \in Request /\ r.c \in PinCid /\ r.to \in PinCid /\ r.flag \in BOOLEAN
    BY <1>0 DEF Request
<1>3. w \in Request /\ w.claims = claims
  <2>1. claims \in SUBSET Claim
      BY <1>0, <1>2, Claims
  <2> QED
      BY <1>2, <2>1 DEF Request
<1>4. r.c # r.to
    BY <1>1 DEF OrderedInv, PromiseInv
<1>5. PICK id \in FreshIds :
          Work(w, rm, {[mode |-> "recursive", c |-> r.to, id |-> id]}, TRUE, {"recursive"})
    BY DEF EndUpdate
<1> DEFINE t == [mode |-> "recursive", c |-> r.to, id |-> id]
<1>6. /\ t \in Pin /\ t \notin store.pins /\ UniqueIds(store.pins \cup {t})
      /\ Keys({t}) = {<<"recursive", r.to>>}
    BY <1>0, <1>2, FreshPin
<1>7. store.index = store.pins
    BY <1>1 DEF OrderedInv, MatchInv
<1>8. /\ rm \in SUBSET store.index
      /\ Keys(rm) \subseteq (IF r.flag THEN {<<"recursive", r.c>>} ELSE {})
  <2>1. Keys({}) = {}
      BY KeysUnion
  <2> QED
      BY <1>0, <1>1, <1>2, <2>1, Found
<1>9. r.flag => <<"recursive", r.c>> \notin Keys(store.pins \ rm)
    BY <1>0, <1>1, <1>2, Found
<1>10. Work(w, rm, {t}, TRUE, {"recursive"})
    BY <1>5
<1> HIDE DEF t, w, rm
<1>11. Keys(rm \cup {t}) \subseteq keys /\ keys \in SUBSET (Mode \X PinCid)
  <2>1. Keys(rm \cup {t}) = Keys(rm) \cup Keys({t})
      BY KeysUnion
  <2>2. Keys(rm \cup {t}) \subseteq keys
      BY <1>6, <1>8, <2>1
  <2>3. keys \in SUBSET (Mode \X PinCid)
      BY SMT, <1>0, <1>2
  <2> QED
      BY <2>2, <2>3
<1>12. Keys((store.pins \cup {t}) \ rm) = Keys(store.pins \ rm) \cup {<<"recursive", r.to>>}
  <2>1. (store.pins \cup {t}) \ rm = (store.pins \ rm) \cup {t}
      BY <1>6, <1>7, <1>8
  <2> QED
      BY SMT, <1>6, <2>1, KeysUnion
<1>13. Holds(w.claims, (store.pins \cup {t}) \ rm)
  <2>1. ASSUME r.flag PROVE <<"recursive", r.c>> \notin Keys((store.pins \cup {t}) \ rm)
      BY <1>4, <1>9, <1>12, <2>1
  <2>2. <<"recursive", r.to>> \in Keys((store.pins \cup {t}) \ rm)
      BY <1>12
  <2>3. Holds(claims, (store.pins \cup {t}) \ rm)
      BY SMT, <2>1, <2>2 DEF Holds, Yes, No
  <2> QED
      BY <1>3, <2>3
<1>14. /\ {t} \in SUBSET Pin /\ {t} \cap store.pins = {} /\ pending \ {r} \in SUBSET pending
       /\ TRUE \in BOOLEAN
    BY <1>6
<1> HIDE DEF keys
<1> QED
    BY <1>0, <1>1, <1>3, <1>6, <1>8, <1>10, <1>11, <1>13, <1>14, WorkBegins

LEMMA OrderedFlush ==
    ASSUME OrderedInv, NEW r \in pending, Flush(r)
    PROVE  OrderedInv'
<1> USE DEF OrderedInv
<1>1. /\ pc = "idle" /\ pc' = "sync" /\ pending' = pending \ {r}
      /\ UNCHANGED <<store, disk, changed, promise>>
      /\ job' = [req |-> r, rm |-> {}, add |-> {}, addFirst |-> FALSE, modes |-> {}, cur |-> {},
                 n |-> 0]
    BY DEF Flush
<1>2. job' \in Job /\ job'.req \in Request
    BY SMT, <1>1, BoundsAssumption DEF Job, ShapeInv
<1>3. ShapeInv'
    BY <1>1, <1>2 DEF ShapeInv, WorkLabels, RebuildLabels
<1>4. MatchInv'
    BY <1>1 DEF MatchInv, RebuildLabels
<1>5. WorkInv'
    BY SMT, <1>1 DEF WorkInv, MatchInv, UniqueIds
<1>6. After' = store.pins /\ Touched' = {}
    BY <1>1 DEF After, Touched, Keys
<1>7. PromiseInv'
    BY <1>1, <1>6 DEF PromiseInv
<1> QED
    BY <1>3, <1>4, <1>5, <1>7

LEMMA OrderedClient == OrderedInv /\ Client => OrderedInv'
<1> SUFFICES ASSUME OrderedInv, Client PROVE OrderedInv'
    OBVIOUS
<1>1. ASSUME NEW c \in PinCid, BeginPin(c) \/ PinDirect(c) \/ Unpin(c) \/ PutPin(c)
      PROVE  OrderedInv'
    BY <1>1, OrderedBeginPin, OrderedPinDirect, OrderedUnpin, OrderedPutPin
<1>2. ASSUME NEW from \in PinCid, NEW to \in PinCid, NEW unpin \in BOOLEAN,
             BeginUpdate(from, to, unpin)
      PROVE  OrderedInv'
    BY <1>2, OrderedBeginUpdate
<1>3. ASSUME NEW r \in pending, EndPin(r) \/ EndUpdate(r) \/ Flush(r) \/ GiveUp(r)
      PROVE  OrderedInv'
    BY <1>3, OrderedEndPin, OrderedEndUpdate, OrderedFlush, OrderedGiveUp
<1> QED
    BY <1>1, <1>2, <1>3 DEF Client

-----------------------------------------------------------------------------
(* The holder of the mutex.                                                *)

\* A reliable datastore: a write is on the disk, the flag follows the counter.
LEMMA WriteReliably ==
    ASSUME Reliable, NEW s, Write(s)
    PROVE  store' = s /\ disk' = s
BY DEF Reliable, Write

LEMMA SetDirtyReliably ==
    ASSUME Reliable, OrderedInv, pc # "down", SetDirty
    PROVE  /\ store' = [store EXCEPT !.dirty = TRUE] /\ disk' = store' /\ changed' = TRUE
           /\ pending' = {[r EXCEPT !.stale = TRUE] : r \in pending}
<1>1. store \in Store /\ disk = store /\ changed = store.dirty
    BY DEF OrderedInv, ShapeInv, MatchInv
<1>2. CASE ~changed
    BY <1>1, <1>2 DEF SetDirty, Reliable
<1>3. CASE changed
    BY <1>1, <1>3 DEF SetDirty, Store
<1> QED
    BY <1>2, <1>3

LEMMA SetCleanReliably ==
    ASSUME Reliable, OrderedInv, SetClean
    PROVE  /\ store' = [store EXCEPT !.dirty = FALSE] /\ disk' = store' /\ changed' = FALSE
<1>1. store \in Store /\ disk = store /\ changed = store.dirty /\ changed \in BOOLEAN
    BY DEF OrderedInv, ShapeInv, MatchInv, SetClean, CleanLabels
<1>2. CASE ~changed
    BY <1>1, <1>2 DEF SetClean, Reliable, Store
<1>3. CASE changed
    BY <1>1, <1>3 DEF SetClean, Reliable
<1> QED
    BY <1>1, <1>2, <1>3

\* Setting the flag of requests that fetch changes nothing else about them.
LEMMA StaleRequests ==
    ASSUME pending \in SUBSET Request, NEW q \in {[r EXCEPT !.stale = TRUE] : r \in pending}
    PROVE  /\ q \in Request
           /\ \E r \in pending :
                  q.claims = r.claims /\ q.op = r.op /\ q.c = r.c /\ q.to = r.to
<1>1. PICK r \in pending : q = [r EXCEPT !.stale = TRUE]
    OBVIOUS
<1>2. r \in Request
    OBVIOUS
<1> QED
    BY <1>1, <1>2 DEF Request

\* A step inside an operation that changes no pins but those it touches, and
\* leaves the pins that there will be as they were.
LEMMA PromiseStep ==
    ASSUME PromiseInv, pc \in WorkLabels, pc' \in WorkLabels, UNCHANGED promise,
           job'.req = job.req, After' = After, Touched' \subseteq Touched,
           \A q \in pending' : \E r \in pending :
                q.claims = r.claims /\ q.op = r.op /\ q.c = r.c /\ q.to = r.to,
           \A k : k \notin Touched => (k \in Keys(store'.pins) <=> k \in Keys(store.pins))
    PROVE  PromiseInv'
<1> USE DEF PromiseInv
<1>1. ASSUME NEW k \in Mode \X PinCid
      PROVE  /\ promise'[k] = "yes" => k \in Keys(store'.pins)
             /\ promise'[k] = "no" => k \notin Keys(store'.pins)
    OBVIOUS
<1>2. ASSUME NEW q \in pending'
      PROVE  /\ Holds(q.claims, store'.pins)
             /\ q.op = "update" => q.c # q.to
             /\ \A x \in q.claims : <<x.mode, x.c>> \notin Touched'
  <2>1. PICK r \in pending :
            q.claims = r.claims /\ q.op = r.op /\ q.c = r.c /\ q.to = r.to
      OBVIOUS
  <2> QED
      BY SMT, <2>1 DEF Holds
<1>3. \A k \in Touched' : promise'[k] = "open"
    OBVIOUS
<1>4. Holds(job'.req.claims, After')
    OBVIOUS
<1> QED
    BY <1>1, <1>2, <1>3, <1>4

LEMMA OrderedNextAdd ==
    ASSUME Reliable, OrderedInv, NextAdd
    PROVE  OrderedInv'
<1> USE DEF OrderedInv
<1>1. /\ pc = "next" /\ pc' = "putPin" /\ UNCHANGED promise
      /\ job' = [job EXCEPT !.cur = job.add, !.add = {}]
    BY DEF NextAdd
<1>2. /\ store' = [store EXCEPT !.dirty = TRUE] /\ disk' = store' /\ changed' = TRUE
      /\ pending' = {[r EXCEPT !.stale = TRUE] : r \in pending}
    BY <1>1, SetDirtyReliably DEF NextAdd
<1>3. job \in Job /\ store \in Store /\ job.req \in Request /\ pending \in SUBSET Request
    BY <1>1 DEF ShapeInv, WorkLabels
<1>4. /\ job' \in Job /\ job'.req = job.req /\ job'.rm = job.rm /\ job'.cur = job.add
      /\ job'.add = {}
    BY <1>1, <1>3 DEF Job
<1>5. /\ store' \in Store /\ store'.pins = store.pins /\ store'.index = store.index
      /\ store'.dirty = TRUE
    BY <1>2, <1>3 DEF Store
<1>6. ShapeInv'
    BY <1>1, <1>2, <1>3, <1>4, <1>5, StaleRequests DEF ShapeInv, WorkLabels, RebuildLabels
<1>7. MatchInv'
    BY <1>1, <1>2, <1>5 DEF MatchInv, RebuildLabels
<1>8. WorkInv'
    BY <1>1, <1>4, <1>5 DEF WorkInv, WorkLabels, UniqueIds
<1>9. After' = After /\ Touched' \subseteq Touched
    BY <1>1, <1>4, <1>5 DEF After, Touched, Keys
<1>10. PromiseInv'
    BY <1>1, <1>2, <1>3, <1>4, <1>5, <1>9, StaleRequests, PromiseStep DEF WorkLabels
<1> QED
    BY <1>6, <1>7, <1>8, <1>10

LEMMA OrderedNextRemove ==
    ASSUME Reliable, OrderedInv, NextRemove
    PROVE  OrderedInv'
<1> USE DEF OrderedInv
<1>1. PICK t \in job.rm :
         /\ SetDirty /\ pc = "next" /\ UNCHANGED promise
         /\ pc' = IF t \in store.pins THEN "deleteIndex" ELSE "fixIndex"
         /\ job' = [job EXCEPT !.cur = {t}, !.rm = @ \ {t}]
    BY DEF NextRemove
<1>2. /\ store' = [store EXCEPT !.dirty = TRUE] /\ disk' = store' /\ changed' = TRUE
      /\ pending' = {[r EXCEPT !.stale = TRUE] : r \in pending}
    BY <1>1, SetDirtyReliably
<1>3. /\ job \in Job /\ store \in Store /\ job.req \in Request /\ pending \in SUBSET Request
      /\ t \in store.pins /\ t \in store.index /\ pc' = "deleteIndex"
    BY <1>1 DEF ShapeInv, WorkLabels, MatchInv, WorkInv
<1>4. /\ job' \in Job /\ job'.req = job.req /\ job'.rm = job.rm \ {t} /\ job'.cur = {t}
      /\ job'.add = job.add
    BY <1>1, <1>3 DEF Job
<1>5. /\ store' \in Store /\ store'.pins = store.pins /\ store'.index = store.index
      /\ store'.dirty = TRUE
    BY <1>2, <1>3 DEF Store
<1>6. ShapeInv'
    BY <1>1, <1>2, <1>3, <1>4, <1>5, StaleRequests DEF ShapeInv, WorkLabels, RebuildLabels
<1>7. MatchInv'
    BY <1>1, <1>2, <1>3, <1>5 DEF MatchInv, RebuildLabels
<1>8. WorkInv'
    BY SMT, <1>1, <1>3, <1>4, <1>5 DEF WorkInv, WorkLabels, UniqueIds
<1>9. After' = After
    BY <1>1, <1>3, <1>4, <1>5 DEF After
<1>10. Touched' \subseteq Touched
    BY <1>1, <1>4 DEF Touched, Keys
<1>11. PromiseInv'
    BY <1>1, <1>2, <1>3, <1>4, <1>5, <1>9, <1>10, StaleRequests, PromiseStep DEF WorkLabels
<1> QED
    BY <1>6, <1>7, <1>8, <1>11

LEMMA OrderedNextFlush ==
    ASSUME OrderedInv, NextFlush
    PROVE  OrderedInv'
<1> USE DEF OrderedInv
<1>1. /\ pc = "next" /\ job.add = {} /\ job.rm = {} /\ pc' = "sync"
      /\ UNCHANGED <<store, disk, changed, job, pending, promise>>
    BY DEF NextFlush
<1>2. ShapeInv'
    BY <1>1 DEF ShapeInv, WorkLabels, RebuildLabels
<1>3. MatchInv'
    BY <1>1 DEF MatchInv, RebuildLabels
<1>4. WorkInv'
    BY <1>1 DEF WorkInv, WorkLabels
<1>5. After' = After /\ Touched' \subseteq Touched
    BY <1>1 DEF After, Touched
<1>6. PromiseInv'
    BY <1>1, <1>5, PromiseStep DEF WorkLabels
<1> QED
    BY <1>2, <1>3, <1>4, <1>6

LEMMA OrderedPutPinRecord ==
    ASSUME Reliable, OrderedInv, PutPinRecord
    PROVE  OrderedInv'
<1> USE DEF OrderedInv
<1>1. /\ pc = "putPin" /\ pc' = "putIndex" /\ UNCHANGED <<changed, job, pending, promise>>
      /\ store' = [store EXCEPT !.pins = @ \cup job.cur] /\ disk' = store'
    BY WriteReliably DEF PutPinRecord
<1>2. job \in Job /\ store \in Store /\ job.req \in Request
    BY <1>1 DEF ShapeInv, WorkLabels
<1>3. /\ store' \in Store /\ store'.pins = store.pins \cup job.cur
      /\ store'.index = store.index /\ store'.dirty = store.dirty
    BY <1>1, <1>2 DEF Store, Job
<1>4. ShapeInv'
    BY <1>1, <1>2, <1>3 DEF ShapeInv, WorkLabels, RebuildLabels
<1>5. /\ job.add = {} /\ job.rm \subseteq store.index /\ store.pins = store.index
      /\ UniqueIds(store.pins \cup job.add \cup job.cur) /\ changed /\ store.dirty = changed
    BY <1>1 DEF WorkInv, WorkLabels, MatchInv
<1>6. MatchInv'
    BY <1>1, <1>3, <1>5 DEF MatchInv, RebuildLabels, UniqueIds
<1>7. WorkInv'
    BY <1>1, <1>3, <1>5 DEF WorkInv, WorkLabels, UniqueIds
<1>8. After' = After /\ Touched' = Touched
    BY <1>1, <1>3 DEF After, Touched
<1>9. \A k : k \notin Touched => (k \in Keys(store'.pins) <=> k \in Keys(store.pins))
    BY <1>3 DEF Touched, Keys
<1>10. PromiseInv'
    BY SMT, <1>1, <1>8, <1>9, PromiseStep DEF WorkLabels
<1> QED
    BY <1>4, <1>6, <1>7, <1>10

LEMMA OrderedPutIndex ==
    ASSUME Reliable, OrderedInv, PutIndex
    PROVE  OrderedInv'
<1> USE DEF OrderedInv
<1>1. /\ pc = "putIndex" /\ pc' = "next" /\ UNCHANGED <<changed, job, pending, promise>>
      /\ store' = [store EXCEPT !.index = @ \cup job.cur] /\ disk' = store'
    BY WriteReliably DEF PutIndex
<1>2. job \in Job /\ store \in Store /\ job.req \in Request
    BY <1>1 DEF ShapeInv, WorkLabels
<1>3. /\ store' \in Store /\ store'.index = store.index \cup job.cur
      /\ store'.pins = store.pins /\ store'.dirty = store.dirty
    BY <1>1, <1>2 DEF Store, Job
<1>4. ShapeInv'
    BY <1>1, <1>2, <1>3 DEF ShapeInv, WorkLabels, RebuildLabels
<1>5. /\ job.add = {} /\ job.rm \subseteq store.index /\ store.pins = store.index \cup job.cur
      /\ UniqueIds(store.pins \cup job.add \cup job.cur) /\ changed /\ store.dirty = changed
    BY <1>1 DEF WorkInv, WorkLabels, MatchInv
<1>6. MatchInv'
    BY <1>1, <1>3, <1>5 DEF MatchInv, RebuildLabels, UniqueIds
<1>7. WorkInv'
    BY <1>1, <1>3, <1>5 DEF WorkInv, WorkLabels, UniqueIds
<1>8. After' = After /\ Touched' = Touched
    BY <1>1, <1>3 DEF After, Touched
<1>9. PromiseInv'
    BY SMT, <1>1, <1>3, <1>8, PromiseStep DEF WorkLabels
<1> QED
    BY <1>4, <1>6, <1>7, <1>9

LEMMA OrderedDeleteIndex ==
    ASSUME Reliable, OrderedInv, DeleteIndex
    PROVE  OrderedInv'
<1> USE DEF OrderedInv
<1>1. /\ pc = "deleteIndex" /\ pc' = "deletePin" /\ UNCHANGED <<changed, job, pending, promise>>
      /\ store' = [store EXCEPT !.index = @ \ job.cur] /\ disk' = store'
    BY WriteReliably DEF DeleteIndex
<1>2. job \in Job /\ store \in Store /\ job.req \in Request
    BY <1>1 DEF ShapeInv, WorkLabels
<1>3. /\ store' \in Store /\ store'.index = store.index \ job.cur
      /\ store'.pins = store.pins /\ store'.dirty = store.dirty
    BY <1>1, <1>2 DEF Store, Job
<1>4. ShapeInv'
    BY <1>1, <1>2, <1>3 DEF ShapeInv, WorkLabels, RebuildLabels
<1>5. /\ job.rm \subseteq store.index /\ store.pins = store.index
      /\ job.cur \subseteq store.pins \ job.rm /\ job.add \cap store.pins = {}
      /\ UniqueIds(store.pins \cup job.add \cup job.cur) /\ changed /\ store.dirty = changed
    BY <1>1 DEF WorkInv, WorkLabels, MatchInv
<1>6. MatchInv'
    BY <1>1, <1>3, <1>5 DEF MatchInv, RebuildLabels, UniqueIds
<1>7. WorkInv'
    BY <1>1, <1>3, <1>5 DEF WorkInv, WorkLabels
<1>8. After' = After /\ Touched' = Touched
    BY <1>1, <1>3 DEF After, Touched
<1>9. PromiseInv'
    BY SMT, <1>1, <1>3, <1>8, PromiseStep DEF WorkLabels
<1> QED
    BY <1>4, <1>6, <1>7, <1>9

LEMMA OrderedDeletePinRecord ==
    ASSUME Reliable, OrderedInv, DeletePinRecord
    PROVE  OrderedInv'
<1> USE DEF OrderedInv
<1>1. /\ pc = "deletePin" /\ pc' = "next" /\ UNCHANGED <<changed, job, pending, promise>>
      /\ store' = [store EXCEPT !.pins = @ \ job.cur] /\ disk' = store'
    BY WriteReliably DEF DeletePinRecord
<1>2. job \in Job /\ store \in Store /\ job.req \in Request
    BY <1>1 DEF ShapeInv, WorkLabels
<1>3. /\ store' \in Store /\ store'.pins = store.pins \ job.cur
      /\ store'.index = store.index /\ store'.dirty = store.dirty
    BY <1>1, <1>2 DEF Store, Job
<1>4. ShapeInv'
    BY <1>1, <1>2, <1>3 DEF ShapeInv, WorkLabels, RebuildLabels
<1>5. /\ job.rm \subseteq store.index /\ store.index = store.pins \ job.cur
      /\ job.cur \subseteq store.pins \ job.rm /\ job.add \cap store.pins = {}
      /\ UniqueIds(store.pins \cup job.add \cup job.cur) /\ changed /\ store.dirty = changed
    BY <1>1 DEF WorkInv, WorkLabels, MatchInv
<1>6. MatchInv'
    BY <1>1, <1>3, <1>5 DEF MatchInv, RebuildLabels, UniqueIds
<1>7. WorkInv'
    BY <1>1, <1>3, <1>5 DEF WorkInv, WorkLabels, UniqueIds
<1>8. After' = After
  <2>1. job.add \cap job.cur = {}
      BY <1>5
  <2> QED
      BY <1>1, <1>3, <2>1 DEF After
<1>9. Touched' = Touched
    BY <1>1 DEF Touched
<1>10. \A k : k \notin Touched => (k \in Keys(store'.pins) <=> k \in Keys(store.pins))
    BY <1>3 DEF Touched, Keys
<1>11. PromiseInv'
    BY <1>1, <1>8, <1>9, <1>10, PromiseStep DEF WorkLabels
<1> QED
    BY <1>4, <1>6, <1>7, <1>11

LEMMA OrderedSync ==
    ASSUME OrderedInv, Sync
    PROVE  OrderedInv'
<1> USE DEF OrderedInv
<1>1. /\ disk' = store /\ store' = store /\ UNCHANGED <<changed, job, pending, promise>>
      /\ \/ pc = "sync" /\ pc' = "clean"
         \/ pc = "lastSync" /\ pc' = "lastClean"
  <2>1. pc \in {"sync", "lastSync"}
      BY DEF Sync, SyncLabels, ShapeInv, WorkLabels, RebuildLabels
  <2>2. CASE pc = "sync"
    <3>1. pc' = "clean"
        BY <2>2 DEF Sync
    <3> QED
        BY <2>2, <3>1 DEF Sync
  <2>3. CASE pc = "lastSync"
    <3>1. pc' = "lastClean"
        BY <2>3 DEF Sync
    <3> QED
        BY <2>3, <3>1 DEF Sync
  <2> QED
      BY <2>1, <2>2, <2>3
<1>2. ShapeInv'
    BY <1>1 DEF ShapeInv, WorkLabels, RebuildLabels
<1>3. MatchInv'
    BY <1>1 DEF MatchInv, RebuildLabels
<1>4. WorkInv'
    BY <1>1 DEF WorkInv, WorkLabels
<1>5. CASE pc = "sync"
  <2>1. After' = After /\ Touched' = Touched
      BY <1>1, <1>5 DEF After, Touched
  <2>2. PromiseInv'
      BY <1>1, <1>5, <2>1, PromiseStep DEF WorkLabels
  <2> QED
      BY <1>2, <1>3, <1>4, <2>2
<1>6. CASE pc = "lastSync"
  <2>1. PromiseInv'
      BY <1>1, <1>6 DEF PromiseInv, WorkLabels
  <2> QED
      BY <1>2, <1>3, <1>4, <2>1
<1> QED
    BY <1>1, <1>5, <1>6

LEMMA OrderedReturn ==
    ASSUME Reliable, OrderedInv, SetClean, pc = "clean"
    PROVE  OrderedInv'
<1> USE DEF OrderedInv
<1>1. store' = [store EXCEPT !.dirty = FALSE] /\ disk' = store' /\ changed' = FALSE
    BY SetCleanReliably
<1>2. Return
    BY DEF SetClean
<1>3. pc' = "idle" /\ job' = <<>>
    BY <1>2 DEF Return
<1>4. job \in Job /\ store \in Store /\ job.req \in Request /\ pending \in SUBSET Request
    BY DEF ShapeInv, WorkLabels
<1>5. /\ store' \in Store /\ store'.pins = store.pins /\ store'.index = store.index
      /\ store'.dirty = FALSE
    BY <1>1, <1>4 DEF Store
<1>6. MatchInv'
    BY <1>1, <1>3, <1>5 DEF MatchInv, RebuildLabels, UniqueIds
<1>7. WorkInv'
    BY <1>3 DEF WorkInv, WorkLabels
<1>8. After = store.pins
    BY DEF After, WorkInv, WorkLabels
<1>9. Holds(job.req.claims, store.pins)
    BY <1>8 DEF PromiseInv, WorkLabels
<1>10. CASE job.req.op = "flush"
  <2>1. /\ pending' = pending
        /\ promise' = [k \in Mode \X PinCid |->
                           IF Yes(k[1], k[2]) \in job.req.claims THEN "yes"
                           ELSE IF No(k[1], k[2]) \in job.req.claims THEN "no"
                           ELSE promise[k]]
      BY <1>2, <1>10 DEF Return
  <2>2. promise' \in [Mode \X PinCid -> {"yes", "no", "open"}]
      BY <2>1 DEF ShapeInv
  <2>3. ShapeInv'
      BY <1>1, <1>3, <1>5, <2>1, <2>2 DEF ShapeInv, WorkLabels, RebuildLabels
  <2>4. ASSUME NEW k \in Mode \X PinCid
        PROVE  /\ promise'[k] = "yes" => k \in Keys(store.pins)
               /\ promise'[k] = "no" => k \notin Keys(store.pins)
    <3>1. k = <<k[1], k[2]>>
        BY SMT
    <3>2. CASE Yes(k[1], k[2]) \in job.req.claims
      <4>1. <<k[1], k[2]>> \in Keys(store.pins)
          BY <1>9, <3>2 DEF Holds, Yes
      <4>2. promise'[k] = "yes"
          BY <2>1, <3>2
      <4> QED
          BY <3>1, <4>1, <4>2
    <3>3. CASE Yes(k[1], k[2]) \notin job.req.claims /\ No(k[1], k[2]) \in job.req.claims
      <4>1. <<k[1], k[2]>> \notin Keys(store.pins)
          BY <1>9, <3>3 DEF Holds, No
      <4>2. promise'[k] = "no"
          BY <2>1, <3>3
      <4> QED
          BY <3>1, <4>1, <4>2
    <3>4. CASE Yes(k[1], k[2]) \notin job.req.claims /\ No(k[1], k[2]) \notin job.req.claims
      <4>1. promise'[k] = promise[k]
          BY <2>1, <3>4
      <4> QED
          BY <4>1 DEF PromiseInv
    <3> QED
        BY <3>2, <3>3, <3>4
  <2>5. PromiseInv'
      BY <1>3, <1>5, <2>1, <2>4 DEF PromiseInv, WorkLabels
  <2> QED
      BY <1>6, <1>7, <2>3, <2>5
<1>11. CASE job.req.op # "flush"
  <2>1. pending' = pending \cup {ToFlush(job.req)} /\ promise' = promise
      BY <1>2, <1>11 DEF Return
  <2>2. /\ ToFlush(job.req) \in Request /\ ToFlush(job.req).op = "flush"
        /\ ToFlush(job.req).claims = job.req.claims
      BY <1>4 DEF ToFlush, Request
  <2>3. ShapeInv'
      BY <1>1, <1>3, <1>5, <2>1, <2>2 DEF ShapeInv, WorkLabels, RebuildLabels
  <2>4. PromiseInv'
      BY <1>3, <1>5, <1>9, <2>1, <2>2 DEF PromiseInv, WorkLabels
  <2> QED
      BY <1>6, <1>7, <2>3, <2>4
<1> QED
    BY <1>10, <1>11

LEMMA OrderedSetClean ==
    ASSUME Reliable, OrderedInv, SetClean
    PROVE  OrderedInv'
<1> USE DEF OrderedInv
<1>1. pc \in {"clean", "lastClean"}
    BY DEF SetClean, CleanLabels, ShapeInv, WorkLabels, RebuildLabels
<1>2. CASE pc = "lastClean"
  <2>1. pc' = "idle" /\ job' = <<>> /\ UNCHANGED <<pending, promise>>
      BY <1>2 DEF SetClean
  <2>2. store' = [store EXCEPT !.dirty = FALSE] /\ disk' = store' /\ changed' = FALSE
      BY SetCleanReliably
  <2>3. /\ store' \in Store /\ store'.pins = store.pins /\ store'.index = store.index
        /\ store'.dirty = FALSE
      BY <2>2 DEF ShapeInv, Store
  <2>4. ShapeInv'
      BY <2>1, <2>2, <2>3 DEF ShapeInv, WorkLabels, RebuildLabels
  <2>5. MatchInv'
      BY <1>2, <2>1, <2>2, <2>3 DEF MatchInv, RebuildLabels, UniqueIds
  <2>6. WorkInv' /\ PromiseInv'
      BY <2>1, <2>3 DEF WorkInv, PromiseInv, WorkLabels
  <2> QED
      BY <2>4, <2>5, <2>6
<1> QED
    BY <1>1, <1>2, OrderedReturn

LEMMA OrderedHolder == Reliable /\ OrderedInv /\ Holder => OrderedInv'
<1> SUFFICES ASSUME Reliable, OrderedInv, Holder PROVE OrderedInv'
    OBVIOUS
<1>1. ~FixIndex /\ ~WriteFail /\ ~FixIndexFail
    BY DEF Reliable, FixIndex, WriteFail, FixIndexFail, OrderedInv, ShapeInv, WorkLabels,
           RebuildLabels
<1> QED
    BY <1>1, OrderedNextAdd, OrderedNextRemove, OrderedNextFlush, OrderedPutPinRecord,
       OrderedPutIndex, OrderedDeleteIndex, OrderedDeletePinRecord, OrderedSync, OrderedSetClean
    DEF Holder

-----------------------------------------------------------------------------
(* Starts and crashes.                                                     *)

LEMMA OrderedOpen ==
    ASSUME OrderedInv, FewPins, Open
    PROVE  OrderedInv'
<1> USE DEF OrderedInv
<1>1. pc = "down" /\ UNCHANGED <<store, disk, pending, promise>>
    BY DEF Open
<1>2. CASE store.dirty
  <2>1. /\ changed' = TRUE /\ pc' = "rebuild"
        /\ job' = [req |-> <<>>, rm |-> store.pins, add |-> {}, addFirst |-> FALSE,
                   modes |-> {}, cur |-> {}, n |-> 0]
      BY <1>2 DEF Open
  <2>2. job' \in Job /\ job'.rm = store.pins /\ job'.n = 0
      BY SMT, <2>1, BoundsAssumption DEF Job, ShapeInv, Store
  <2>3. ShapeInv'
      BY <1>1, <2>1, <2>2 DEF ShapeInv, WorkLabels, RebuildLabels
  <2>4. Cardinality(store.pins) \in Nat
      BY FS_CardinalityType DEF FewPins
  <2>5. MatchInv'
      BY SMT, <1>1, <1>2, <2>1, <2>2, <2>4 DEF MatchInv, RebuildLabels
  <2>6. WorkInv' /\ PromiseInv'
      BY <1>1, <2>1 DEF WorkInv, PromiseInv, WorkLabels
  <2> QED
      BY <2>3, <2>5, <2>6
<1>3. CASE ~store.dirty
  <2>1. pc' = "idle" /\ UNCHANGED <<changed, job>>
      BY <1>3 DEF Open
  <2>2. ShapeInv'
      BY <1>1, <2>1 DEF ShapeInv, WorkLabels, RebuildLabels
  <2>3. MatchInv'
      BY <1>1, <1>3, <2>1 DEF MatchInv, ShapeInv, Store, RebuildLabels
  <2>4. WorkInv' /\ PromiseInv'
      BY <1>1, <2>1 DEF WorkInv, PromiseInv, WorkLabels
  <2> QED
      BY <2>2, <2>3, <2>4
<1> QED
    BY <1>2, <1>3

LEMMA SmallRemainder ==
    ASSUME NEW a \in Nat, NEW b \in Nat, a < b
    PROVE  a % b = a
BY SMT

\* A rebuild checks a record.
LEMMA OrderedRebuildPin ==
    ASSUME Reliable, OrderedInv, FewPins, RebuildPin
    PROVE  OrderedInv'
<1> USE DEF OrderedInv
<1>1. PICK t \in job.rm :
         /\ pc = "rebuild" /\ UNCHANGED <<changed, pending, promise>>
         /\ Write([store EXCEPT !.index =
                         (@ \ {[t EXCEPT !.mode = m] : m \in Mode \ {t.mode}}) \cup {t}])
         /\ job' = [job EXCEPT !.rm = @ \ {t}, !.n = (@ + 1) % SyncRepairFrequency]
         /\ pc' = IF (job.n + 1) % SyncRepairFrequency = 0 THEN "repairSync" ELSE "rebuild"
    BY DEF RebuildPin
<1>2. /\ job \in Job /\ store \in Store /\ job.rm \subseteq store.pins
      /\ store.pins \ job.rm \subseteq store.index /\ store.index \subseteq store.pins
      /\ job.n + Cardinality(job.rm) <= Cardinality(store.pins)
      /\ UniqueIds(store.pins) /\ t \in Pin
    BY <1>1 DEF ShapeInv, MatchInv, RebuildLabels, Job
<1> DEFINE other == {[t EXCEPT !.mode = m] : m \in Mode \ {t.mode}}
<1>3. other \cap store.index = {}
  <2> SUFFICES ASSUME NEW m \in Mode \ {t.mode}, [t EXCEPT !.mode = m] \in store.index
               PROVE  FALSE
      OBVIOUS
  <2>1. [t EXCEPT !.mode = m].id = t.id /\ [t EXCEPT !.mode = m].mode = m
      BY <1>2 DEF Pin
  <2>2. [t EXCEPT !.mode = m] = t
      BY <1>2, <2>1 DEF UniqueIds
  <2> QED
      BY <2>1, <2>2
<1>4. /\ store' = [store EXCEPT !.index = (@ \ other) \cup {t}]
      /\ disk' = store'
    BY <1>1, WriteReliably
<1>5. /\ store' \in Store /\ store'.index = (store.index \ other) \cup {t}
      /\ store'.pins = store.pins /\ store'.dirty = store.dirty
  <2> HIDE DEF other
  <2> QED
      BY <1>2, <1>4 DEF Store
<1>6. store'.index = store.index \cup {t}
    BY <1>3, <1>5
<1> HIDE DEF other
<1>7. /\ IsFiniteSet(job.rm) /\ Cardinality(job.rm) \in Nat /\ Cardinality(store.pins) \in Nat
      /\ Cardinality(job.rm \ {t}) = Cardinality(job.rm) - 1
      /\ Cardinality(job.rm \ {t}) \in Nat
  <2>1. IsFiniteSet(job.rm)
      BY <1>2, FS_Subset DEF FewPins
  <2>2. IsFiniteSet(job.rm \ {t})
      BY <2>1, FS_RemoveElement
  <2> QED
      BY <2>1, <2>2, FS_CardinalityType, FS_RemoveElement DEF FewPins
<1>8. /\ job.n \in Nat /\ job.n + 1 < SyncRepairFrequency
      /\ (job.n + 1) % SyncRepairFrequency = job.n + 1
  <2>1. job.n \in 0 .. SyncRepairFrequency - 1 /\ SyncRepairFrequency \in Nat
      BY <1>2, BoundsAssumption DEF Job
  <2>2. job.n \in Nat /\ job.n + 1 < SyncRepairFrequency
      BY SMT, <1>2, <1>7, <2>1 DEF FewPins
  <2> QED
      BY SMT, <2>1, <2>2, SmallRemainder
<1> DEFINE m == (job.n + 1) % SyncRepairFrequency
<1>9. m = job.n + 1 /\ m # 0 /\ m \in 0 .. SyncRepairFrequency - 1
    BY SMT, <1>8, BoundsAssumption
<1>10. pc' = "rebuild" /\ job' = [job EXCEPT !.rm = @ \ {t}, !.n = m]
  <2>1. pc' = IF m = 0 THEN "repairSync" ELSE "rebuild"
      BY <1>1
  <2>2. job' = [job EXCEPT !.rm = @ \ {t}, !.n = m]
      BY <1>1
  <2> HIDE DEF m
  <2> QED
      BY <1>9, <2>1, <2>2
<1> HIDE DEF m
<1>11. job' \in Job /\ job'.rm = job.rm \ {t} /\ job'.n = m
    BY <1>2, <1>9, <1>10 DEF Job
<1>12. ShapeInv'
    BY <1>1, <1>5, <1>10, <1>11 DEF ShapeInv, WorkLabels, RebuildLabels
<1>13. job'.n + Cardinality(job'.rm) <= Cardinality(store'.pins)
    BY SMT, <1>2, <1>5, <1>7, <1>8, <1>9, <1>11
<1>14. MatchInv'
    BY <1>1, <1>2, <1>4, <1>5, <1>6, <1>10, <1>11, <1>13 DEF MatchInv, RebuildLabels, UniqueIds
<1>15. WorkInv' /\ PromiseInv'
    BY <1>1, <1>5, <1>10 DEF WorkInv, PromiseInv, WorkLabels
<1> QED
    BY <1>12, <1>14, <1>15

LEMMA OrderedRecovery == Reliable /\ OrderedInv /\ FewPins /\ Recovery => OrderedInv'
<1> SUFFICES ASSUME Reliable, OrderedInv, FewPins, Recovery PROVE OrderedInv'
    OBVIOUS
<1> USE DEF OrderedInv
<1>1. ~RepairSyncFail
    BY DEF Reliable, RepairSyncFail
<1>2. CASE RebuildEnd
  <2>1. /\ pc = "rebuild" /\ job.rm = {} /\ pc' = "lastSync"
        /\ UNCHANGED <<store, disk, changed, job, pending, promise>>
      BY <1>2 DEF RebuildEnd
  <2>2. ShapeInv'
      BY <2>1 DEF ShapeInv, WorkLabels, RebuildLabels
  <2>3. MatchInv'
      BY <2>1 DEF MatchInv, RebuildLabels
  <2>4. WorkInv' /\ PromiseInv'
      BY <2>1 DEF WorkInv, PromiseInv, WorkLabels
  <2> QED
      BY <2>2, <2>3, <2>4
<1> QED
    BY <1>1, <1>2, OrderedOpen, OrderedRebuildPin DEF Recovery

LEMMA OrderedCrash == OrderedInv /\ Crash => OrderedInv'
<1> SUFFICES ASSUME OrderedInv, Crash PROVE OrderedInv'
    OBVIOUS
<1> USE DEF OrderedInv
<1>1. /\ pc' = "down" /\ store' = disk /\ disk' = disk /\ changed' = FALSE /\ pending' = {}
      /\ promise' = promise /\ pc # "down"
    BY DEF Crash
<1>2. disk = store
    BY DEF MatchInv
<1>3. ShapeInv'
    BY <1>1, <1>2 DEF ShapeInv, WorkLabels, RebuildLabels
<1>4. ~store.dirty => store.pins = store.index
    BY <1>1 DEF MatchInv, ShapeInv, WorkLabels, RebuildLabels
<1>5. MatchInv'
    BY <1>1, <1>2, <1>4 DEF MatchInv, RebuildLabels
<1>6. WorkInv' /\ PromiseInv'
    BY <1>1, <1>2 DEF WorkInv, PromiseInv, WorkLabels
<1> QED
    BY <1>3, <1>5, <1>6

LEMMA OrderedNext == Reliable /\ OrderedInv /\ FewPins /\ [Next]_vars => OrderedInv'
<1> SUFFICES ASSUME Reliable, OrderedInv, FewPins, [Next]_vars PROVE OrderedInv'
    OBVIOUS
<1>1. CASE WriteBack \/ UNCHANGED vars
  <2>1. disk = store
      BY DEF OrderedInv, MatchInv
  <2>2. UNCHANGED <<store, disk, changed, pc, job, pending, promise>>
      BY <1>1, <2>1 DEF WriteBack, vars
  <2>3. After' = After /\ Touched' = Touched
      BY <2>2 DEF After, Touched
  <2>4. ShapeInv' /\ MatchInv' /\ WorkInv' /\ PromiseInv'
      BY SMT, <2>2, <2>3 DEF OrderedInv, ShapeInv, MatchInv, WorkInv, PromiseInv
  <2> QED
      BY <2>4 DEF OrderedInv
<1> QED
    BY <1>1, OrderedClient, OrderedHolder, OrderedRecovery, OrderedCrash DEF Next

-----------------------------------------------------------------------------
(* What the invariant gives.                                               *)

LEMMA OrderedKeeps == OrderedInv => PromiseKept
<1> SUFFICES ASSUME OrderedInv, Opened, NEW m \in Mode, NEW c \in PinCid
             PROVE  /\ promise[<<m, c>>] = "yes" => HasAny(m, c)
                    /\ promise[<<m, c>>] = "no" => ~HasAny(m, c)
    BY DEF PromiseKept
<1> DEFINE k == <<m, c>>
<1>1. /\ promise[k] = "yes" => k \in Keys(store.pins)
      /\ promise[k] = "no" => k \notin Keys(store.pins)
    BY DEF OrderedInv, PromiseInv
<1>2. HasAny(m, c) <=> k \in Keys(store.index)
    BY DEF HasAny, Keys
<1>3. store.index \subseteq store.pins
    BY DEF OrderedInv, MatchInv
<1>4. ASSUME promise[k] = "yes" PROVE k \in Keys(store.index)
  <2>1. PICK t \in store.pins : k = <<t.mode, t.c>>
      BY <1>1, <1>4 DEF Keys
  <2>2. pc \in {"idle"} \cup WorkLabels
      BY DEF Opened, OrderedInv, ShapeInv, RebuildLabels
  <2>3. CASE store.pins = store.index
      BY <2>1, <2>3 DEF Keys
  <2>4. CASE pc \in {"putIndex", "deletePin"}
    <3>1. \A j \in Touched : promise[j] = "open"
        BY <2>4 DEF OrderedInv, PromiseInv, WorkLabels
    <3>2. t \notin job.cur
        BY <1>4, <2>1, <3>1 DEF Touched, Keys
    <3>3. t \in store.index
        BY <2>1, <2>4, <3>2 DEF OrderedInv, MatchInv
    <3> QED
        BY <2>1, <3>3 DEF Keys
  <2> QED
      BY <2>2, <2>3, <2>4 DEF OrderedInv, MatchInv, WorkLabels
<1>5. ASSUME promise[k] = "no" PROVE k \notin Keys(store.index)
    BY <1>1, <1>3, <1>5 DEF Keys
<1> QED
    BY <1>2, <1>4, <1>5

LEMMA OrderedMatches == OrderedInv => CleanMeansMatched /\ RebuiltIndexes
BY DEF OrderedInv, ShapeInv, MatchInv, WorkLabels, RebuildLabels, CleanMeansMatched,
       RebuiltIndexes

\* Over a datastore that keeps the order of its writes and does not fail, for any number of
\* CIDs, identifiers and requests: what clients were told after Flush stays true across
\* crashes and rebuilds at any write, a clear flag means that records and indexes match, and
\* they match whenever the mutex is free.
THEOREM OrderedStore ==
    ASSUME Reliable
    PROVE  Spec /\ []FewPins => [](PromiseKept /\ CleanMeansMatched /\ RebuiltIndexes)
<1>1. OrderedInv /\ FewPins /\ [Next]_vars => OrderedInv'
    BY OrderedNext
<1>2. OrderedInv => PromiseKept /\ CleanMeansMatched /\ RebuiltIndexes
    BY OrderedKeeps, OrderedMatches
<1> QED
    BY <1>1, <1>2, OrderedInit, PTL DEF Spec

\* The scene of crashes over an ordered datastore, next to any other scene.
OrderedScene == scene = "ordered" => OrderedInv
FewInScene == scene = "ordered" => FewPins

LEMMA SceneInit == MCInit => OrderedScene
BY OrderedInit DEF MCInit, OrderedScene

LEMMA SceneNext ==
    ASSUME Reliable
    PROVE  OrderedScene /\ FewInScene /\ [MCNext]_<<vars, scene>> => OrderedScene'
<1> SUFFICES ASSUME OrderedScene, FewInScene, [MCNext]_<<vars, scene>>, scene' = "ordered"
             PROVE  OrderedInv'
    BY DEF OrderedScene
<1>1. scene = "ordered"
    BY DEF MCNext
<1>2. [Next]_vars
    BY <1>1 DEF MCNext
<1> QED
    BY <1>1, <1>2, OrderedNext DEF OrderedScene, FewInScene

\* What the clients were told about a pin stays true across crashes at any write of pin add,
\* rm, update and puts (dspinner), while the rebuild's flush between records is not reached.
THEOREM PromisesKept ==
    ASSUME Reliable
    PROVE  MCSpec /\ []FewInScene => []OrderedPromiseKept
<1>1. OrderedScene => OrderedPromiseKept
    BY OrderedKeeps DEF OrderedScene, OrderedPromiseKept
<1> QED
    BY <1>1, SceneInit, SceneNext, PTL DEF MCSpec

\* A clear dirty flag means that records and indexes match, and the indexes are those of the
\* records when a rebuild has ended (setDirty, rebuildIndexes), under the same conditions.
THEOREM IndexesTrue ==
    ASSUME Reliable
    PROVE  MCSpec /\ []FewInScene => []OrderedIndexesTrue
<1>1. OrderedScene => OrderedIndexesTrue
    BY OrderedMatches DEF OrderedScene, OrderedIndexesTrue
<1> QED
    BY <1>1, SceneInit, SceneNext, PTL DEF MCSpec
=============================================================================
