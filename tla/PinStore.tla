------------------------------ MODULE PinStore ------------------------------
(***************************************************************************)
(* How the pinner keeps its pins in the datastore (dspinner).  A pin is a  *)
(* record under /pins/pin and an entry of the recursive or the direct      *)
(* index under /pins/index; what is pinned is decided by the indexes.  A   *)
(* dirty flag under /pins/state tells the next start that records and      *)
(* indexes may disagree and that the indexes have to be rebuilt.           *)
(*                                                                         *)
(* By its interface the datastore may write to the disk at any time and in *)
(* any order, and has written when Sync returns; a crash leaves what is on *)
(* the disk.  A datastore that keeps the order of its writes (Ordered), as *)
(* one with a log does, is written through: a crash that loses the last    *)
(* writes is one that came before them.                                    *)
(*                                                                         *)
(* The pinner's mutex is held from a Begin action until pc is "idle"       *)
(* again.  A request between two critical sections, while it fetches or    *)
(* before the Flush with which every API call ends, is in pending.         *)
(***************************************************************************)
EXTENDS Naturals, FiniteSets

CONSTANTS
    PinCid,                \* CIDs that are pinned and unpinned
    Id,                    \* identifiers of pins
    MaxPending,            \* bound: requests between two critical sections
    SyncRepairFrequency,   \* pins that a rebuild checks between two flushes
    Ordered,               \* whether the datastore keeps the order of its writes
    Faults                 \* what can fail: writes and syncs of pins, of the dirty flag

ASSUME BoundsAssumption ==
    /\ MaxPending \in Nat
    /\ SyncRepairFrequency \in Nat \ {0}
    /\ Ordered \in BOOLEAN
    /\ Faults \subseteq {"write", "flag"}

VARIABLES
    store,      \* what the datastore returns: pin records, index entries, dirty flag
    disk,       \* what a crash leaves of it
    bstore,     \* CIDs whose graph is in the block store
    bdisk,      \* what a crash leaves of it
    changed,    \* p.dirty # p.clean
    pc,         \* what the holder of the mutex does next
    job,        \* what is left of it
    pending,    \* requests between two critical sections
    promise     \* what the clients have been told about each pin

vars == <<store, disk, bstore, bdisk, changed, pc, job, pending, promise>>

Mode == {"recursive", "direct"}

\* A pin record, and the index entry that belongs to it.
Pin == [mode : Mode, c : PinCid, id : Id]

Store == [pins : SUBSET Pin, index : SUBSET Pin, dirty : BOOLEAN]

\* What a client learns: the pin exists, it does not, or nothing for certain.
Claim == [mode : Mode, c : PinCid, pinned : BOOLEAN]

Request ==
    [op : {"pin", "direct", "rm", "update", "put", "flush"}, c : PinCid, to : PinCid,
     flag : BOOLEAN, stale : BOOLEAN, claims : SUBSET Claim]

\* rm and add: pins still to remove and to add, rm is also what a rebuild has
\* still to check; modes: the indexes that removePinsForCid searched; n: pins
\* checked since the last flush of a rebuild.
Job ==
    [req : Request \cup {<<>>}, rm : SUBSET Pin, add : SUBSET Pin, addFirst : BOOLEAN,
     modes : SUBSET Mode, cur : SUBSET Pin, n : 0 .. SyncRepairFrequency - 1]

SyncLabels == {"sync", "fixSync", "repairSync", "lastSync"}
CleanLabels == {"clean", "fixClean", "repairClean", "lastClean"}

TypeOK ==
    /\ store \in Store
    /\ disk \in Store
    /\ bstore \in SUBSET PinCid
    /\ bdisk \in SUBSET PinCid
    /\ changed \in BOOLEAN
    /\ pc \in {"down", "rebuild", "idle", "next", "putPin", "putIndex", "deleteIndex",
               "deletePin", "fixIndex"} \cup SyncLabels \cup CleanLabels
    /\ job \in Job \cup {<<>>}
    /\ pending \in SUBSET Request
    /\ promise \in [Mode \X PinCid -> {"yes", "no", "open"}]

Init ==
    /\ store = [pins |-> {}, index |-> {}, dirty |-> FALSE]
    /\ disk = store
    /\ bstore = {}
    /\ bdisk = {}
    /\ changed = FALSE
    /\ pc = "idle"
    /\ job = <<>>
    /\ pending = {}
    /\ promise = [m \in Mode \X PinCid |-> "no"]

-----------------------------------------------------------------------------
(* Helpers *)

\* Indexer.HasAny and Indexer.Search.
HasAny(m, c) == \E t \in store.index : t.mode = m /\ t.c = c
Search(m, c) == {t \in store.index : t.mode = m /\ t.c = c}

\* ds.RandomKey: an identifier that nothing in the datastore carries.
FreshIds ==
    Id \ {t.id : t \in store.pins \cup store.index \cup disk.pins \cup disk.index}

\* Put and Delete of the datastore.
Write(s) ==
    /\ store' = s
    /\ disk' = IF Ordered THEN s ELSE disk

\* Mutant: the counter moves, the flag is not written.
SetDirtyCounterOnly ==
    /\ changed' = TRUE
    /\ pending' = {[r EXCEPT !.stale = TRUE] : r \in pending}
    /\ UNCHANGED <<store, disk>>

\* setDirty: the flag is written and synced before the first change; errors
\* are logged only.  The counter moves, which a fetching Pin will notice.
SetDirty ==
    /\ \/ ~changed /\ store' = [store EXCEPT !.dirty = TRUE] /\ disk' = [disk EXCEPT !.dirty = TRUE]
       \/ ~changed /\ "flag" \in Faults /\ UNCHANGED <<store, disk>>
       \/ ~changed /\ "flag" \in Faults /\ Write([store EXCEPT !.dirty = TRUE])
       \/ changed /\ UNCHANGED <<store, disk>>
    /\ changed' = TRUE
    /\ pending' = {[r EXCEPT !.stale = TRUE] : r \in pending}

\* One more request may enter.
Room == Cardinality(pending) < MaxPending

\* A request waits for its fetch, or for its Flush.
Suspend(r) == Room /\ pending' = pending \cup {r}

\* A request r starts to change the pins named by claims: until it has been
\* flushed nothing is certain about them, neither for earlier promises nor for
\* requests that are about to report success.
Touch(keys, others) ==
    /\ promise' = [k \in Mode \X PinCid |-> IF k \in keys THEN "open" ELSE promise[k]]
    /\ pending' = {[r EXCEPT !.claims = {x \in @ : <<x.mode, x.c>> \notin keys}] : r \in others}

Request0(op, c, to, flag) ==
    [op |-> op, c |-> c, to |-> to, flag |-> flag, stale |-> FALSE, claims |-> {}]

Yes(m, c) == [mode |-> m, c |-> c, pinned |-> TRUE]
No(m, c) == [mode |-> m, c |-> c, pinned |-> FALSE]

\* The request r, holding the mutex, removes the pins rm and adds the pin add.
Work(r, rm, add, addFirst, modes) ==
    /\ pc' = "next"
    /\ job' = [req |-> r, rm |-> rm, add |-> add, addFirst |-> addFirst, modes |-> modes,
               cur |-> {}, n |-> 0]

\* The holder releases the mutex and its request goes on to Flush.
ToFlush(r) == [r EXCEPT !.op = "flush"]

-----------------------------------------------------------------------------
(* The operations *)

\* Pin(recursive): already pinned, or a fetch without the mutex.
BeginPin(c) ==
    /\ pc = "idle"
    /\ bstore' = bstore \cup {c}
    /\ LET r == Request0("pin", c, c, TRUE) IN
       IF HasAny("recursive", c)
       THEN Suspend([ToFlush(r) EXCEPT !.claims = {Yes("recursive", c)}])
       ELSE Suspend(r)
    /\ UNCHANGED <<store, disk, bdisk, changed, pc, job, promise>>

\* The fetch has ended: if anything was changed meanwhile the index is looked
\* up again; direct pins of the CID are replaced.
EndPin(r) ==
    /\ pc = "idle"
    /\ r \in pending
    /\ r.op = "pin"
    /\ IF r.stale /\ HasAny("recursive", r.c)
       THEN /\ pending' = (pending \ {r})
                 \cup {[ToFlush(r) EXCEPT !.claims = {Yes("recursive", r.c)}]}
            /\ UNCHANGED <<pc, job, promise>>
       ELSE \E id \in FreshIds :
            /\ Work([r EXCEPT !.claims = {Yes("recursive", r.c)}], Search("direct", r.c),
                    {[mode |-> "recursive", c |-> r.c, id |-> id]}, FALSE, {"direct"})
            /\ Touch({<<"recursive", r.c>>, <<"direct", r.c>>}, pending \ {r})
    /\ UNCHANGED <<store, disk, bstore, bdisk, changed>>

\* Pin(direct): an error if the CID is pinned recursively.
PinDirect(c) ==
    /\ pc = "idle"
    /\ Room
    /\ ~HasAny("recursive", c)
    /\ bstore' = bstore \cup {c}
    /\ \E id \in FreshIds :
          Work([Request0("direct", c, c, FALSE) EXCEPT !.claims = {Yes("direct", c)}], {},
               {[mode |-> "direct", c |-> c, id |-> id]}, TRUE, {})
    /\ Touch({<<"direct", c>>}, pending)
    /\ UNCHANGED <<store, disk, bdisk, changed>>

\* Mutant: only the recursive index is searched.
UnpinRecursiveOnly(c) ==
    /\ pc = "idle"
    /\ Room
    /\ HasAny("recursive", c) \/ HasAny("direct", c)
    /\ Work([Request0("rm", c, c, TRUE) EXCEPT !.claims = {No("recursive", c), No("direct", c)}],
            Search("recursive", c), {}, FALSE, {"recursive"})
    /\ Touch({<<"recursive", c>>, <<"direct", c>>}, pending)
    /\ UNCHANGED <<store, disk, bstore, bdisk, changed>>

\* Unpin with the recursive option: the pins of both kinds, if there is one.
Unpin(c) ==
    /\ pc = "idle"
    /\ Room
    /\ HasAny("recursive", c) \/ HasAny("direct", c)
    /\ Work([Request0("rm", c, c, TRUE) EXCEPT !.claims = {No("recursive", c), No("direct", c)}],
            Search("recursive", c) \cup Search("direct", c), {}, FALSE, Mode)
    /\ Touch({<<"recursive", c>>, <<"direct", c>>}, pending)
    /\ UNCHANGED <<store, disk, bstore, bdisk, changed>>

\* Update up to the fetch, and after it.
BeginUpdate(from, to, unpin) ==
    /\ pc = "idle"
    /\ from # to
    /\ HasAny("recursive", from)
    /\ ~HasAny("recursive", to)
    /\ Suspend(Request0("update", from, to, unpin))
    /\ UNCHANGED <<store, disk, bstore, bdisk, changed, pc, job, promise>>

EndUpdate(r) ==
    /\ pc = "idle"
    /\ r \in pending
    /\ r.op = "update"
    /\ bstore' = bstore \cup {r.to}
    /\ \E id \in FreshIds :
          Work([r EXCEPT !.claims = {Yes("recursive", r.to)}
                            \cup IF r.flag THEN {No("recursive", r.c)} ELSE {}],
               IF r.flag THEN Search("recursive", r.c) ELSE {},
               {[mode |-> "recursive", c |-> r.to, id |-> id]}, TRUE, {"recursive"})
    /\ Touch({<<"recursive", r.to>>} \cup IF r.flag THEN {<<"recursive", r.c>>} ELSE {},
             pending \ {r})
    /\ UNCHANGED <<store, disk, bdisk, changed>>

\* A put with --pin: the block, then PinWithMode, which reports no error.
PutPin(c) ==
    /\ pc = "idle"
    /\ bstore' = bstore \cup {c}
    /\ LET r == [Request0("put", c, c, TRUE) EXCEPT !.claims = {Yes("recursive", c)}] IN
       \/ /\ HasAny("recursive", c)
          /\ Suspend(ToFlush(r))
          /\ UNCHANGED <<pc, job, promise>>
       \/ /\ Room
          /\ ~HasAny("recursive", c)
          /\ \E id \in FreshIds :
                Work(r, {}, {[mode |-> "recursive", c |-> c, id |-> id]}, TRUE, {})
          /\ Touch({<<"recursive", c>>}, pending)
    /\ UNCHANGED <<store, disk, bdisk, changed>>

\* Flush.  flushDagService asserts that the dag service has a method
\* Sync() error; the node's has Sync(context) error, so no block is synced.
Flush(r) ==
    /\ pc = "idle"
    /\ r \in pending
    /\ r.op = "flush"
    /\ pending' = pending \ {r}
    /\ pc' = "sync"
    /\ job' = [req |-> r, rm |-> {}, add |-> {}, addFirst |-> FALSE, modes |-> {}, cur |-> {},
               n |-> 0]
    /\ UNCHANGED <<store, disk, bstore, bdisk, changed, promise>>

\* A fetch fails, or the client gives up between two critical sections.
GiveUp(r) ==
    /\ r \in pending
    /\ pending' = pending \ {r}
    /\ UNCHANGED <<store, disk, bstore, bdisk, changed, pc, job, promise>>

-----------------------------------------------------------------------------
(* Under the mutex *)

\* A goroutine leaves the mutex: a Flush reports success and with it the
\* request's claims, any other operation goes on to its Flush.
Return ==
    /\ pc' = "idle"
    /\ job' = <<>>
    /\ IF job.req.op = "flush"
       THEN /\ promise' = [k \in Mode \X PinCid |->
                             IF Yes(k[1], k[2]) \in job.req.claims THEN "yes"
                             ELSE IF No(k[1], k[2]) \in job.req.claims THEN "no"
                             ELSE promise[k]]
            /\ UNCHANGED pending
       ELSE /\ pending' = pending \cup {ToFlush(job.req)}
            /\ UNCHANGED promise

\* It leaves with an error.  The caller of PinWithMode learns nothing of it
\* and goes on to Flush.
ReturnError ==
    /\ pc' = "idle"
    /\ job' = <<>>
    /\ pending' = pending \cup (IF job.req.op = "put" THEN {ToFlush(job.req)} ELSE {})
    /\ UNCHANGED promise

\* addPin, and removePinsForCid with the next pin it found; an index entry
\* without a record is repaired.
NextAdd ==
    /\ pc = "next"
    /\ job.addFirst \/ job.rm = {}
    /\ job.add # {}
    /\ SetDirty
    /\ pc' = "putPin"
    /\ job' = [job EXCEPT !.cur = job.add, !.add = {}]
    /\ UNCHANGED <<bstore, bdisk, promise>>

NextRemove ==
    /\ pc = "next"
    /\ job.add = {} \/ ~job.addFirst
    /\ \E t \in job.rm :
          /\ SetDirty
          /\ pc' = IF t \in store.pins THEN "deleteIndex" ELSE "fixIndex"
          /\ job' = [job EXCEPT !.cur = {t}, !.rm = @ \ {t}]
    /\ UNCHANGED <<bstore, bdisk, promise>>

NextFlush ==
    /\ pc = "next"
    /\ job.add = {}
    /\ job.rm = {}
    /\ pc' = "sync"
    /\ UNCHANGED <<store, disk, bstore, bdisk, changed, job, pending, promise>>

\* addPin: the record, then the index.
PutPinRecord ==
    /\ pc = "putPin"
    /\ Write([store EXCEPT !.pins = @ \cup job.cur])
    /\ pc' = "putIndex"
    /\ UNCHANGED <<bstore, bdisk, changed, job, pending, promise>>

PutIndex ==
    /\ pc = "putIndex"
    /\ Write([store EXCEPT !.index = @ \cup job.cur])
    /\ pc' = "next"
    /\ UNCHANGED <<bstore, bdisk, changed, job, pending, promise>>

\* removePin: the index, then the record.
DeleteIndex ==
    /\ pc = "deleteIndex"
    /\ Write([store EXCEPT !.index = @ \ job.cur])
    /\ pc' = "deletePin"
    /\ UNCHANGED <<bstore, bdisk, changed, job, pending, promise>>

DeletePinRecord ==
    /\ pc = "deletePin"
    /\ Write([store EXCEPT !.pins = @ \ job.cur])
    /\ pc' = "next"
    /\ UNCHANGED <<bstore, bdisk, changed, job, pending, promise>>

\* removePinsForCid, record not found: DeleteKey in each index it searched.
FixIndex ==
    /\ pc = "fixIndex"
    /\ Write([store EXCEPT !.index =
                    {t \in @ : ~(t.mode \in job.modes /\ t.c \in {u.c : u \in job.cur})}])
    /\ pc' = "fixSync"
    /\ UNCHANGED <<bstore, bdisk, changed, job, pending, promise>>

\* flushPins: everything under /pins is synced ...
Sync ==
    /\ pc \in SyncLabels
    /\ disk' = store
    /\ pc' = CASE pc = "sync" -> "clean" [] pc = "fixSync" -> "fixClean"
                [] pc = "repairSync" -> "repairClean" [] pc = "lastSync" -> "lastClean"
    /\ UNCHANGED <<store, bstore, bdisk, changed, job, pending, promise>>

\* Mutant: the counters are made equal before the flag is synced.
SetCleanFirst ==
    /\ pc \in CleanLabels
    /\ \/ ~changed /\ UNCHANGED <<store, disk, changed>>
       \/ /\ changed
          /\ store' = [store EXCEPT !.dirty = FALSE]
          /\ disk' = [disk EXCEPT !.dirty = FALSE]
          /\ changed' = FALSE
       \/ changed /\ "flag" \in Faults /\ UNCHANGED <<store, disk, changed>>
       \/ /\ changed /\ "flag" \in Faults
          /\ Write([store EXCEPT !.dirty = FALSE])
          /\ changed' = FALSE
    /\ \/ pc = "clean" /\ Return
       \/ pc = "fixClean" /\ pc' = "next" /\ UNCHANGED <<job, pending, promise>>
       \/ pc = "repairClean" /\ pc' = "rebuild" /\ UNCHANGED <<job, pending, promise>>
       \/ pc = "lastClean" /\ pc' = "idle" /\ job' = <<>> /\ UNCHANGED <<pending, promise>>
    /\ UNCHANGED <<bstore, bdisk>>

\* ... and setClean clears the flag; its errors are logged only.
SetClean ==
    /\ pc \in CleanLabels
    /\ \/ ~changed /\ UNCHANGED <<store, disk, changed>>
       \/ /\ changed
          /\ store' = [store EXCEPT !.dirty = FALSE]
          /\ disk' = [disk EXCEPT !.dirty = FALSE]
          /\ changed' = FALSE
       \/ changed /\ "flag" \in Faults /\ UNCHANGED <<store, disk, changed>>
       \/ /\ changed /\ "flag" \in Faults
          /\ Write([store EXCEPT !.dirty = FALSE])
          /\ UNCHANGED changed
    /\ \/ pc = "clean" /\ Return
       \/ pc = "fixClean" /\ pc' = "next" /\ UNCHANGED <<job, pending, promise>>
       \/ pc = "repairClean" /\ pc' = "rebuild" /\ UNCHANGED <<job, pending, promise>>
       \/ pc = "lastClean" /\ pc' = "idle" /\ job' = <<>> /\ UNCHANGED <<pending, promise>>
    /\ UNCHANGED <<bstore, bdisk>>

\* A write or a sync fails: the operation ends where it is.
WriteFail ==
    /\ "write" \in Faults
    /\ pc \in {"putPin", "putIndex", "deleteIndex", "deletePin", "fixIndex", "sync", "fixSync"}
    /\ ReturnError
    /\ UNCHANGED <<store, disk, bstore, bdisk, changed>>

\* One of the two DeleteKey calls of a repair succeeds, the other fails.
FixIndexFail ==
    /\ "write" \in Faults
    /\ pc = "fixIndex"
    /\ job.modes = Mode
    /\ Write([store EXCEPT !.index =
                    {t \in @ : ~(t.mode = "recursive" /\ t.c \in {u.c : u \in job.cur})}])
    /\ ReturnError
    /\ UNCHANGED <<bstore, bdisk, changed>>

-----------------------------------------------------------------------------
(* Start and crash *)

\* New: a clean start, or a rebuild over all pin records.
Open ==
    /\ pc = "down"
    /\ IF store.dirty
       THEN /\ changed' = TRUE
            /\ pc' = "rebuild"
            /\ job' = [req |-> <<>>, rm |-> store.pins, add |-> {}, addFirst |-> FALSE,
                       modes |-> {}, cur |-> {}, n |-> 0]
       ELSE pc' = "idle" /\ UNCHANGED <<changed, job>>
    /\ UNCHANGED <<store, disk, bstore, bdisk, pending, promise>>

\* Mutant: the missing entry is not added.
RebuildPinStaleOnly ==
    /\ pc = "rebuild"
    /\ \E t \in job.rm :
          /\ Write([store EXCEPT !.index =
                          (@ \ {[t EXCEPT !.mode = m] : m \in Mode \ {t.mode}})])
          /\ job' = [job EXCEPT !.rm = @ \ {t}, !.n = (@ + 1) % SyncRepairFrequency]
    /\ pc' = IF (job.n + 1) % SyncRepairFrequency = 0 THEN "repairSync" ELSE "rebuild"
    /\ UNCHANGED <<bstore, bdisk, changed, pending, promise>>

\* rebuildIndexes: one record.  An entry for it in the other index is deleted,
\* a missing entry is added; each SyncRepairFrequency records are flushed.
RebuildPin ==
    /\ pc = "rebuild"
    /\ \E t \in job.rm :
          /\ Write([store EXCEPT !.index =
                          (@ \ {[t EXCEPT !.mode = m] : m \in Mode \ {t.mode}}) \cup {t}])
          /\ job' = [job EXCEPT !.rm = @ \ {t}, !.n = (@ + 1) % SyncRepairFrequency]
    /\ pc' = IF (job.n + 1) % SyncRepairFrequency = 0 THEN "repairSync" ELSE "rebuild"
    /\ UNCHANGED <<bstore, bdisk, changed, pending, promise>>

RebuildEnd ==
    /\ pc = "rebuild"
    /\ job.rm = {}
    /\ pc' = "lastSync"
    /\ UNCHANGED <<store, disk, bstore, bdisk, changed, job, pending, promise>>

\* The error of a flush between two records is ignored.
RepairSyncFail ==
    /\ "write" \in Faults
    /\ pc = "repairSync"
    /\ pc' = "rebuild"
    /\ UNCHANGED <<store, disk, bstore, bdisk, changed, job, pending, promise>>

\* The datastore writes one entry, or one block, on its own.
WriteBack ==
    /\ \/ /\ bdisk' \in {bdisk \cup {c} : c \in bstore \ bdisk}
          /\ UNCHANGED disk
       \/ /\ \/ \E t \in store.pins \ disk.pins : disk' = [disk EXCEPT !.pins = @ \cup {t}]
             \/ \E t \in disk.pins \ store.pins : disk' = [disk EXCEPT !.pins = @ \ {t}]
             \/ \E t \in store.index \ disk.index : disk' = [disk EXCEPT !.index = @ \cup {t}]
             \/ \E t \in disk.index \ store.index : disk' = [disk EXCEPT !.index = @ \ {t}]
             \/ store.dirty # disk.dirty /\ disk' = [disk EXCEPT !.dirty = store.dirty]
          /\ UNCHANGED bdisk
    /\ UNCHANGED <<store, bstore, changed, pc, job, pending, promise>>

\* The process ends, in whatever way; also when New returns an error.
Crash ==
    /\ pc # "down"
    /\ pc' = "down"
    /\ store' = disk
    /\ bstore' = bdisk
    /\ changed' = FALSE
    /\ job' = <<>>
    /\ pending' = {}
    /\ UNCHANGED <<disk, bdisk, promise>>

-----------------------------------------------------------------------------
Client ==
    \/ \E c \in PinCid : BeginPin(c) \/ PinDirect(c) \/ Unpin(c) \/ PutPin(c)
    \/ \E from, to \in PinCid, unpin \in BOOLEAN : BeginUpdate(from, to, unpin)
    \/ \E r \in pending : EndPin(r) \/ EndUpdate(r) \/ Flush(r) \/ GiveUp(r)

Holder ==
    \/ NextAdd \/ NextRemove \/ NextFlush \/ PutPinRecord \/ PutIndex
    \/ DeleteIndex \/ DeletePinRecord \/ FixIndex \/ Sync \/ SetClean
    \/ WriteFail \/ FixIndexFail

Recovery == Open \/ RebuildPin \/ RebuildEnd \/ RepairSyncFail

Next == Client \/ Holder \/ Recovery \/ WriteBack \/ Crash

Spec == Init /\ [][Next]_vars

-----------------------------------------------------------------------------
(* Properties *)

\* New has returned.
Opened ==
    pc \notin {"down", "rebuild", "repairSync", "repairClean", "lastSync", "lastClean"}

\* What a client was told after its Flush stays true until another request
\* changes that pin: a reported pin is in the index, a reported removal is not,
\* also after any number of crashes and rebuilds, once the pinner is open.
PromiseKept ==
    Opened =>
        \A m \in Mode, c \in PinCid :
            /\ promise[<<m, c>>] = "yes" => HasAny(m, c)
            /\ promise[<<m, c>>] = "no" => ~HasAny(m, c)

\* As long as the flag on the disk is clear, the records and the index entries on
\* the disk match: what a crash cuts short, the next start notices ("The pin is
\* removed last so that an incomplete remove is detected by a pin that has a
\* missing index", dspinner/pin.go).
CleanMeansMatched == ~disk.dirty => disk.pins = disk.index

\* rebuildIndexes "resolves any discrepancy between secondary indexes and pins
\* that could result from a program termination between saving the two": when
\* no operation is under way, each record has its entry and each entry its
\* record.
RebuiltIndexes == pc = "idle" => store.index = store.pins

\* While the mutex is free and the counters dirty and clean agree, lookups answer
\* what a crash would leave: nothing is only in memory.  setClean follows a
\* successful Sync, and keeps the counters apart when clearing the flag fails.
SettledMeansDurable == pc = "idle" /\ ~changed => disk = store

\* "syncDagService is used by the Pinner to ensure data gets persisted to the
\* underlying datastore" (core/node/core.go): what was reported as pinned is on
\* the disk.
PinnedDataDurable ==
    \A c \in PinCid : promise[<<"recursive", c>>] = "yes" => c \in bdisk
=============================================================================
