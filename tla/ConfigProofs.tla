---------------------------- MODULE ConfigProofs ----------------------------
(***************************************************************************)
(* Proofs about the configuration of a node, its file and the object in    *)
(* memory that commands edit, and about the migrations that bring its      *)
(* repository up to date.  Each has an inductive invariant, named for what *)
(* it records.                                                             *)
(***************************************************************************)
EXTENDS RepoConfig, Migrations, FiniteSetTheorems, SequenceTheorems, TLAPS

\* Leaves are first-order unless they cite SMT.
USE Zenon

-----------------------------------------------------------------------------
(* The configuration.                                                      *)

\* Config objects and files that hold the private key of the node.
KeptObject == {c \in Object : c.priv = "key"}
KeptFile ==
    [bootstrap : SUBSET Items, filters : SUBSET Items, services : SUBSET Items,
     setting : Settings, priv : {"key"}, user : {"kept", "set", "edited"}]

\* A difference between memory and file has an owner: a command that is running and edits the
\* current object, and that will write the file from it.
DifferenceOwned ==
    edits = 0 /\ fails = 0 =>
        heap[cur] = Fields(file) \/ \E t \in Threads : cPc[t] # "idle" /\ cfg[t] = cur

ConfigInv ==
    /\ file \in KeptFile /\ heap \in [Objs -> KeptObject] /\ cur \in Objs
    /\ cPc \in [Threads -> {"idle", "fill", "refill", "save", "added"}]
    /\ cfg \in [Threads -> Objs] /\ list \in [Threads -> Lists] /\ fill \in [Threads -> SUBSET Items]
    /\ live \subseteq Items /\ edits \in Nat /\ fails \in Nat
    /\ DifferenceOwned

\* What the struct of a file holds.
LEMMA FieldsOf ==
    ASSUME NEW f \in KeptFile
    PROVE  /\ Fields(f) = [bootstrap |-> f.bootstrap, filters |-> f.filters, services |-> f.services,
                           setting |-> f.setting, priv |-> "key"]
           /\ Fields(f) \in KeptObject
<1>1. DOMAIN f = {"bootstrap", "filters", "services", "setting", "priv", "user"}
    BY DEF KeptFile
<1>2. DOMAIN f \ {"user"} = {"bootstrap", "filters", "services", "setting", "priv"}
    BY <1>1
<1>3. Fields(f) = [bootstrap |-> f.bootstrap, filters |-> f.filters, services |-> f.services,
                   setting |-> f.setting, priv |-> "key"]
    BY SMT, <1>2 DEF Fields, KeptFile
<1> QED
    BY SMT, <1>3 DEF KeptObject, Object, KeptFile

\* SetConfig writes all of the object, keeps the rest of the file, and adds nothing else.
LEMMA OverlayOf ==
    ASSUME NEW f \in KeptFile, NEW c \in KeptObject
    PROVE  /\ Overlay(f, c) \in KeptFile
           /\ Overlay(f, c).user = f.user
           /\ Fields(Overlay(f, c)) = c
<1>1. /\ DOMAIN f = {"bootstrap", "filters", "services", "setting", "priv", "user"}
      /\ DOMAIN c = {"bootstrap", "filters", "services", "setting", "priv"}
    BY DEF KeptFile, KeptObject, Object
<1>2. Overlay(f, c) = [bootstrap |-> c.bootstrap, filters |-> c.filters, services |-> c.services,
                       setting |-> c.setting, priv |-> c.priv, user |-> f.user]
    BY SMT, <1>1 DEF Overlay
<1>3. Overlay(f, c) \in KeptFile /\ Overlay(f, c).user = f.user
    BY SMT, <1>2 DEF KeptFile, KeptObject, Object
<1>4. c = [bootstrap |-> c.bootstrap, filters |-> c.filters, services |-> c.services,
           setting |-> c.setting, priv |-> "key"]
    BY DEF KeptObject, Object
<1> QED
    BY <1>2, <1>3, <1>4, FieldsOf

\* A list of an object, and the object with another list.
LEMMA ListOf ==
    ASSUME NEW c \in KeptObject, NEW l \in Lists, NEW S \in SUBSET Items
    PROVE  c[l] \in SUBSET Items /\ [c EXCEPT ![l] = S] \in KeptObject
BY DEF Lists, KeptObject, Object

\* There is always an object that nobody points to.
LEMMA FreshIn ==
    ASSUME ConfigInv
    PROVE  Fresh \in Objs
<1> DEFINE U == {cfg[t] : t \in Threads}
<1> DEFINE n == Cardinality(Threads)
<1>1. n \in Nat /\ IsFiniteSet(Threads)
    BY ConfigAssumption, FS_CardinalityType
<1>2. cfg \in Surjection(Threads, U)
    BY DEF ConfigInv, Surjection
<1>3. IsFiniteSet(U) /\ Cardinality(U) <= n /\ Cardinality(U) \in Nat
    BY <1>1, <1>2, FS_Surjection, FS_CardinalityType
<1> HIDE DEF U
<1>4. IsFiniteSet(U \cup {cur}) /\ Cardinality(U \cup {cur}) <= n + 1
    <2>1. /\ IsFiniteSet(U \cup {cur})
          /\ Cardinality(U \cup {cur}) = Cardinality(U) \/ Cardinality(U \cup {cur}) = Cardinality(U) + 1
        BY <1>3, FS_AddElement
    <2> QED
        BY SMT, <1>1, <1>3, <2>1
<1>5. Cardinality(Objs) = n + 2
    BY SMT, <1>1, FS_Interval DEF Objs
<1>6. ~(Objs \subseteq U \cup {cur})
    <2> SUFFICES ASSUME Objs \subseteq U \cup {cur} PROVE FALSE
        OBVIOUS
    <2>1. Cardinality(Objs) <= Cardinality(U \cup {cur})
        BY <1>4, FS_Subset
    <2>2. Cardinality(U \cup {cur}) \in Nat
        BY <1>4, FS_CardinalityType
    <2> QED
        BY SMT, <1>1, <1>4, <1>5, <2>1, <2>2
<1>7. PICK o \in Objs : o \notin U \cup {cur}
    BY <1>6
<1>8. o # cur /\ \A t \in Threads : cPc[t] = "idle" \/ cfg[t] # o
    BY <1>7 DEF U
<1> QED
    BY <1>8 DEF Fresh

\* Collecting the objects keeps the current one.
LEMMA CollectedIn ==
    ASSUME NEW h \in [Objs -> KeptObject], NEW o \in Objs, NEW p, NEW c
    PROVE  Collected(h, o, p, c) \in [Objs -> KeptObject] /\ Collected(h, o, p, c)[o] = h[o]
BY DEF Collected

\* Starting to edit the current object makes the command the owner of the difference.
LEMMA EditsKeep ==
    ASSUME ConfigInv, NEW t \in Threads, NEW l \in Lists, NEW new \in SUBSET Items,
           NEW next \in {"fill", "refill", "save"}, Edits(t, l, new, next),
           heap' \in [Objs -> KeptObject], live' \subseteq Items
    PROVE  ConfigInv' /\ file'.user = file.user
<1>1. /\ fill' = [fill EXCEPT ![t] = new] /\ cfg' = [cfg EXCEPT ![t] = cur]
      /\ list' = [list EXCEPT ![t] = l] /\ cPc' = [cPc EXCEPT ![t] = next]
      /\ UNCHANGED <<file, cur, edits, fails>>
    BY DEF Edits
<1>2. cPc'[t] # "idle" /\ cfg'[t] = cur'
    BY <1>1 DEF ConfigInv
<1>3. DifferenceOwned'
    BY <1>2 DEF DifferenceOwned
<1> QED
    BY <1>1, <1>3 DEF ConfigInv

\* A command that works on an object of its own leaves the current one alone, or owns it.
LEMMA WorkOnKeeps ==
    ASSUME ConfigInv, NEW t \in Threads, NEW c \in KeptObject, cPc[t] = "idle", WorkOn(t, c)
    PROVE  ConfigInv' /\ file'.user = file.user
<1>0. Fresh \in Objs
    BY FreshIn
<1> DEFINE o == Fresh
<1>1. /\ heap' = [heap EXCEPT ![o] = c] /\ cfg' = [cfg EXCEPT ![t] = o]
      /\ cPc' = [cPc EXCEPT ![t] = "save"]
      /\ UNCHANGED <<file, cur, list, fill, live, edits, fails>>
    BY DEF WorkOn
<1> HIDE DEF o
<1>2. o \in Objs
    BY <1>0 DEF o
<1>3. DifferenceOwned'
    <2>1. CASE o = cur
        <3>1. cPc'[t] # "idle" /\ cfg'[t] = cur'
            BY <1>1, <2>1 DEF ConfigInv
        <3> QED
            BY <3>1 DEF DifferenceOwned
    <2>2. CASE o # cur
        <3>1. heap'[cur'] = heap[cur] /\ file' = file /\ edits' = edits /\ fails' = fails /\ cur' = cur
            BY <1>1, <1>2, <2>2 DEF ConfigInv
        <3>2. \A u \in Threads : cPc[u] # "idle" => cPc'[u] # "idle" /\ cfg'[u] = cfg[u]
            BY <1>1 DEF ConfigInv
        <3>3. Fields(file') = Fields(file)
            BY <3>1
        <3> QED
            BY <3>1, <3>2, <3>3 DEF DifferenceOwned, ConfigInv
    <2> QED
        BY <2>1, <2>2
<1> QED
    BY <1>1, <1>2, <1>3 DEF ConfigInv

\* The step of one command.
LEMMA CommandStep ==
    ASSUME ConfigInv, NEW t \in Threads,
           \/ \E s \in Items : BootstrapAdd(t, s) \/ BootstrapRemove(t, s) \/ FiltersAdd(t, s) \/ FiltersRemove(t, s)
           \/ \E s \in Items : ServiceAdd(t, s) \/ ServiceRemove(t, s)
           \/ BootstrapRemoveAll(t) \/ FiltersRemoveAll(t)
    PROVE  ConfigInv' /\ file'.user = file.user
<1>0. heap[cur] \in KeptObject /\ heap \in [Objs -> KeptObject] /\ cur \in Objs /\ live \subseteq Items
    BY DEF ConfigInv
<1>l. "bootstrap" \in Lists /\ "filters" \in Lists /\ "services" \in Lists
    BY DEF Lists
<1>1. ASSUME NEW l \in Lists, NEW s \in Items, ListAdd(t, l, s), live' \subseteq Items
      PROVE  ConfigInv' /\ file'.user = file.user
    <2>1. heap' = [heap EXCEPT ![cur][l] = {}] /\ Edits(t, l, {s} \cup heap[cur][l], "refill")
        BY <1>1 DEF ListAdd
    <2>2. [heap[cur] EXCEPT ![l] = {}] \in KeptObject /\ heap[cur][l] \in SUBSET Items
        BY <1>0, ListOf
    <2>3. heap' \in [Objs -> KeptObject]
        BY <1>0, <2>1, <2>2
    <2> QED
        BY <1>1, <2>1, <2>2, <2>3, EditsKeep
<1>2. ASSUME NEW l \in Lists, NEW s \in Items, ListRemove(t, l, s), live' \subseteq Items
      PROVE  ConfigInv' /\ file'.user = file.user
    <2>1. heap' = heap /\ Edits(t, l, heap[cur][l] \ {s}, "fill")
        BY <1>2 DEF ListRemove
    <2>2. heap[cur][l] \in SUBSET Items
        BY <1>0, ListOf
    <2>3. heap[cur][l] \ {s} \in SUBSET Items
        BY <2>2
    <2> QED
        BY <1>0, <1>2, <2>1, <2>3, EditsKeep
<1>3. ASSUME NEW l \in Lists, ListRemoveAll(t, l), live' \subseteq Items
      PROVE  ConfigInv' /\ file'.user = file.user
    <2>1. heap' = [heap EXCEPT ![cur][l] = {}] /\ Edits(t, l, {}, "save")
        BY <1>3 DEF ListRemoveAll
    <2>2. [heap[cur] EXCEPT ![l] = {}] \in KeptObject
        BY <1>0, ListOf
    <2>3. heap' \in [Objs -> KeptObject]
        BY <1>0, <2>1, <2>2
    <2> QED
        BY <1>3, <2>1, <2>3, EditsKeep
<1>4. ASSUME NEW s \in Items, ServiceAdd(t, s) \/ ServiceRemove(t, s)
      PROVE  ConfigInv' /\ file'.user = file.user
    <2>1. PICK S \in SUBSET Items :
             heap' = [heap EXCEPT ![cur].services = S] /\ Edits(t, "services", {}, "save") /\ live' = live
        <3>1. heap[cur].services \in SUBSET Items
            BY <1>0 DEF KeptObject, Object
        <3>2. CASE ServiceAdd(t, s)
            <4>1. heap[cur].services \cup {s} \in SUBSET Items
                BY <3>1
            <4>2. /\ heap' = [heap EXCEPT ![cur].services = heap[cur].services \cup {s}]
                  /\ Edits(t, "services", {}, "save") /\ live' = live
                BY <3>2 DEF ServiceAdd
            <4> QED
                BY <4>1, <4>2
        <3>3. CASE ServiceRemove(t, s)
            BY <3>1, <3>3, <1>0 DEF ServiceRemove
        <3> QED
            BY <1>4, <3>2, <3>3
    <2>2. [heap[cur] EXCEPT !.services = S] \in KeptObject
        BY <1>0, <1>l, ListOf
    <2>3. heap' \in [Objs -> KeptObject]
        BY <1>0, <2>1, <2>2
    <2> QED
        BY <1>0, <1>l, <2>1, <2>3, EditsKeep
<1>5. ASSUME NEW s \in Items,
             BootstrapAdd(t, s) \/ BootstrapRemove(t, s) \/ FiltersAdd(t, s) \/ FiltersRemove(t, s)
      PROVE  ConfigInv' /\ file'.user = file.user
    <2>1. CASE BootstrapAdd(t, s)
        BY <1>0, <1>1, <1>l, <2>1 DEF BootstrapAdd
    <2>2. CASE BootstrapRemove(t, s)
        BY <1>0, <1>2, <1>l, <2>2 DEF BootstrapRemove
    <2>3. CASE FiltersAdd(t, s)
        BY <1>0, <1>1, <1>l, <2>3 DEF FiltersAdd
    <2>4. CASE FiltersRemove(t, s)
        BY <1>0, <1>2, <1>l, <2>4 DEF FiltersRemove
    <2> QED
        BY <1>5, <2>1, <2>2, <2>3, <2>4
<1>6. CASE BootstrapRemoveAll(t)
    BY <1>0, <1>3, <1>6, <1>l DEF BootstrapRemoveAll
<1>7. CASE FiltersRemoveAll(t)
    BY <1>0, <1>3, <1>7, <1>l DEF FiltersRemoveAll
<1> QED
    BY <1>4, <1>5, <1>6, <1>7

\* The second half of an edit keeps its owner.
LEMMA FillStep ==
    ASSUME ConfigInv, NEW t \in Threads, ListFill(t)
    PROVE  ConfigInv' /\ file'.user = file.user
<1>1. /\ cPc[t] \in {"fill", "refill"}
      /\ heap' = [heap EXCEPT ![cfg[t]][list[t]] = fill[t]]
      /\ cPc' = [cPc EXCEPT ![t] = IF cPc[t] = "refill" THEN "added" ELSE "save"]
      /\ UNCHANGED <<file, cur, cfg, list, fill, live, edits, fails>>
    BY DEF ListFill, ConfigInv
<1>2. cfg[t] \in Objs /\ list[t] \in Lists /\ fill[t] \in SUBSET Items /\ heap[cfg[t]] \in KeptObject
    BY DEF ConfigInv
<1>3. [heap[cfg[t]] EXCEPT ![list[t]] = fill[t]] \in KeptObject
    BY <1>2, ListOf
<1>4. heap' \in [Objs -> KeptObject]
    BY <1>1, <1>2, <1>3 DEF ConfigInv
<1>5. \A u \in Threads : cPc[u] # "idle" => cPc'[u] # "idle" /\ cfg'[u] = cfg[u]
    BY <1>1 DEF ConfigInv
<1>6. DifferenceOwned'
    <2>1. CASE cfg[t] = cur
        <3>1. cPc'[t] # "idle" /\ cfg'[t] = cur'
            BY <1>1, <1>5, <2>1
        <3> QED
            BY <3>1 DEF DifferenceOwned
    <2>2. CASE cfg[t] # cur
        <3>1. heap'[cur'] = heap[cur] /\ cur' = cur /\ edits' = edits /\ fails' = fails
            BY <1>1, <1>2, <2>2 DEF ConfigInv
        <3>2. Fields(file') = Fields(file)
            BY <1>1
        <3> QED
            BY <1>5, <3>1, <3>2 DEF DifferenceOwned, ConfigInv
    <2> QED
        BY <2>1, <2>2
<1>7. cPc' \in [Threads -> {"idle", "fill", "refill", "save", "added"}]
    BY <1>1 DEF ConfigInv
<1> QED
    BY <1>1, <1>4, <1>6, <1>7 DEF ConfigInv

\* SetConfig makes file and memory the same; when it fails nothing more is claimed.
LEMMA SaveStep ==
    ASSUME ConfigInv, NEW t \in Threads, SetConfig(t) \/ SetConfigError(t)
    PROVE  ConfigInv' /\ file'.user = file.user
<1>0. cfg[t] \in Objs /\ heap \in [Objs -> KeptObject] /\ heap[cfg[t]] \in KeptObject
      /\ file \in KeptFile /\ cur \in Objs /\ 0 \in Objs /\ "bootstrap" \in Lists
    <2>1. 0 \in Objs
        BY SMT, ConfigAssumption, FS_CardinalityType DEF Objs
    <2> QED
        BY <2>1 DEF ConfigInv, Lists
<1>1. ASSUME CDone(t)
      PROVE  /\ cPc' \in [Threads -> {"idle", "fill", "refill", "save", "added"}]
             /\ cfg' \in [Threads -> Objs] /\ list' \in [Threads -> Lists]
             /\ fill' \in [Threads -> SUBSET Items]
    BY <1>0, <1>1 DEF CDone, ConfigInv
<1>2. CASE SetConfig(t)
    <2>1. /\ file' = Overlay(file, heap[cfg[t]]) /\ cur' = cfg[t] /\ CDone(t)
          /\ heap' = Collected(heap, cur', cPc', cfg') /\ UNCHANGED <<live, edits, fails>>
        BY <1>2 DEF SetConfig
    <2>2. file' \in KeptFile /\ file'.user = file.user /\ Fields(file') = heap[cfg[t]]
        BY <1>0, <2>1, OverlayOf
    <2>3. heap' \in [Objs -> KeptObject] /\ heap'[cur'] = heap[cfg[t]]
        BY SMT, <1>0, <2>1, CollectedIn
    <2>4. DifferenceOwned'
        BY <2>2, <2>3 DEF DifferenceOwned
    <2> QED
        BY <1>0, <1>1, <2>1, <2>2, <2>3, <2>4 DEF ConfigInv
<1>3. CASE SetConfigError(t)
    <2>1. /\ fails' = fails + 1 /\ CDone(t) /\ heap' = Collected(heap, cur, cPc', cfg')
          /\ UNCHANGED <<file, cur, live, edits>>
        BY <1>3 DEF SetConfigError
    <2>2. heap' \in [Objs -> KeptObject]
        BY <1>0, <2>1, CollectedIn
    <2>3. fails' \in Nat /\ fails' # 0
        BY SMT, <2>1 DEF ConfigInv
    <2>4. DifferenceOwned'
        BY <2>3 DEF DifferenceOwned
    <2> QED
        BY <1>0, <1>1, <2>1, <2>2, <2>3, <2>4 DEF ConfigInv
<1> QED
    BY <1>2, <1>3

\* A command that sets one key of the file, and the editor.
LEMMA KeyStep ==
    ASSUME ConfigInv, ConfigCmd \/ Edit \/ \E s \in Items : FiltersAddError(s)
    PROVE  ConfigInv' /\ (file'.user = file.user \/ file'.user = "set" \/ edits' # edits)
<1>0. file \in KeptFile /\ heap \in [Objs -> KeptObject] /\ Fresh \in Objs /\ edits \in Nat /\ fails \in Nat
    BY FreshIn DEF ConfigInv
<1>1. ASSUME NEW k, NEW v, SetConfigKey(k, v), SetKV(file, k, v) \in KeptFile
      PROVE  ConfigInv'
    <2> DEFINE o == Fresh
           f == SetKV(file, k, v)
    <2>1. /\ file' = f /\ cur' = o
          /\ heap' = Collected([heap EXCEPT ![cur'] = Fields(file')], cur', cPc, cfg)
          /\ UNCHANGED <<cPc, cfg, list, fill, live, edits, fails>>
        BY <1>1 DEF SetConfigKey
    <2>2. o \in Objs /\ f \in KeptFile
        BY <1>0, <1>1
    <2> HIDE DEF o, f
    <2>3. Fields(f) \in KeptObject
        BY <2>2, FieldsOf
    <2>4. [heap EXCEPT ![o] = Fields(f)] \in [Objs -> KeptObject]
        BY <1>0, <2>2, <2>3
    <2>5. heap' \in [Objs -> KeptObject] /\ heap'[o] = [heap EXCEPT ![o] = Fields(f)][o]
        <3> DEFINE h == [heap EXCEPT ![o] = Fields(f)]
        <3>1. heap' = Collected(h, o, cPc, cfg)
            BY <2>1
        <3>2. h \in [Objs -> KeptObject]
            BY <2>4
        <3> HIDE DEF h
        <3>3. heap' \in [Objs -> KeptObject] /\ heap'[o] = h[o]
            BY <2>2, <3>1, <3>2, CollectedIn
        <3> QED
            BY <3>3 DEF h
    <2>6. heap'[cur'] = Fields(file')
        BY <1>0, <2>1, <2>2, <2>5
    <2>7. DifferenceOwned'
        BY <2>6 DEF DifferenceOwned
    <2> QED
        BY <2>1, <2>2, <2>5, <2>7 DEF ConfigInv
<1>2. ASSUME NEW v \in Settings, SetConfigKey("setting", v)
      PROVE  ConfigInv' /\ file'.user = file.user
    <2>1. SetKV(file, "setting", v) \in KeptFile /\ SetKV(file, "setting", v).user = file.user
        BY <1>0 DEF SetKV, KeptFile
    <2>2. file' = SetKV(file, "setting", v)
        BY <1>2 DEF SetConfigKey
    <2> QED
        BY <1>1, <1>2, <2>1, <2>2
<1>3. CASE SetConfigKey("user", "set")
    <2>1. SetKV(file, "user", "set") \in KeptFile /\ SetKV(file, "user", "set").user = "set"
        BY <1>0 DEF SetKV, KeptFile
    <2>2. file' = SetKV(file, "user", "set")
        BY <1>3 DEF SetConfigKey
    <2> QED
        BY <1>1, <1>3, <2>1, <2>2
<1>4. CASE Edit
    <2>1. PICK v \in Settings : file' = [file EXCEPT !.setting = v, !.user = "edited"]
        BY <1>4 DEF Edit
    <2>2. edits' = edits + 1 /\ UNCHANGED <<heap, cur, cPc, cfg, list, fill, live, fails>>
        BY <1>4 DEF Edit
    <2>3. file' \in KeptFile
        BY <1>0, <2>1 DEF KeptFile
    <2>4. edits' \in Nat /\ edits' # 0 /\ edits' # edits
        BY SMT, <1>0, <2>2
    <2>5. DifferenceOwned'
        BY <2>4 DEF DifferenceOwned
    <2> QED
        BY <2>2, <2>3, <2>4, <2>5 DEF ConfigInv
<1>5. ASSUME NEW s \in Items, FiltersAddError(s)
      PROVE  ConfigInv' /\ file'.user = file.user
    <2>1. live' = live \cup {s} /\ UNCHANGED <<file, heap, cur, cPc, cfg, list, fill, edits, fails>>
        BY <1>5 DEF FiltersAddError
    <2>2. DifferenceOwned'
        BY <2>1 DEF DifferenceOwned, ConfigInv, Fields
    <2> QED
        BY <2>1, <2>2 DEF ConfigInv
<1> QED
    BY <1>2, <1>3, <1>4, <1>5 DEF ConfigCmd

\* profile apply and config replace.
LEMMA OwnObjectStep ==
    ASSUME ConfigInv, NEW t \in Threads, NEW v \in Settings,
           ProfileApply(t, v) \/ \E b \in SUBSET Items : Replace(t, b, v)
    PROVE  ConfigInv' /\ file'.user = file.user
<1>0. heap[cur] \in KeptObject /\ file \in KeptFile
    BY DEF ConfigInv
<1>1. CASE ProfileApply(t, v)
    <2>1. Transformed(v) \in KeptObject
        BY <1>0 DEF Transformed, KeptObject, Object
    <2> QED
        BY <1>1, <2>1, WorkOnKeeps DEF ProfileApply, Begin
<1>2. ASSUME NEW b \in SUBSET Items, Replace(t, b, v)
      PROVE  ConfigInv' /\ file'.user = file.user
    <2>1. Replacement(b, v) \in KeptObject
        BY <1>0 DEF Replacement, KeptObject, Object, KeptFile
    <2> QED
        BY <1>2, <2>1, WorkOnKeeps DEF Replace, Begin
<1> QED
    BY <1>1, <1>2

LEMMA ConfigInit == CInit => ConfigInv
<1> SUFFICES ASSUME CInit PROVE ConfigInv
    OBVIOUS
<1>1. PICK b \in Items :
         heap = [o \in Objs |-> [bootstrap |-> {b}, filters |-> {}, services |-> {},
                                 setting |-> CHOOSE s \in Settings : TRUE, priv |-> "key"]]
    BY DEF CInit
<1> DEFINE first == [bootstrap |-> {b}, filters |-> {}, services |-> {},
                     setting |-> CHOOSE s \in Settings : TRUE, priv |-> "key"]
<1>2. 0 \in Objs
    BY SMT, ConfigAssumption, FS_CardinalityType DEF Objs
<1>3. first \in KeptObject
    <2>1. (CHOOSE s \in Settings : TRUE) \in Settings
        BY ConfigAssumption
    <2> QED
        BY <2>1 DEF KeptObject, Object
<1>4. heap \in [Objs -> KeptObject] /\ heap[0] = first
    BY <1>1, <1>2, <1>3
<1>5. DOMAIN first = {"bootstrap", "filters", "services", "setting", "priv"}
    OBVIOUS
<1>6. file = [bootstrap |-> first.bootstrap, filters |-> first.filters, services |-> first.services,
              setting |-> first.setting, priv |-> first.priv, user |-> "kept"]
    <2>1. file = [k \in DOMAIN first \cup {"user"} |-> IF k = "user" THEN "kept" ELSE first[k]]
        BY <1>4 DEF CInit
    <2>2. DOMAIN first \cup {"user"} = {"bootstrap", "filters", "services", "setting", "priv", "user"}
        BY <1>5
    <2> HIDE DEF first
    <2> QED
        BY <2>1, <2>2
<1>7. file \in KeptFile /\ Fields(file) = first
    <2>1. file \in KeptFile
        BY <1>3, <1>6 DEF KeptFile, KeptObject, Object
    <2> QED
        BY <1>6, <2>1, FieldsOf
<1>8. "bootstrap" \in Lists
    BY DEF Lists
<1> HIDE DEF first
<1>9. cur = 0 /\ cPc = [t \in Threads |-> "idle"] /\ cfg = [t \in Threads |-> 0]
      /\ list = [t \in Threads |-> "bootstrap"] /\ fill = [t \in Threads |-> {}] /\ live = {}
      /\ edits = 0 /\ fails = 0
    BY DEF CInit
<1>10. DifferenceOwned
    BY <1>4, <1>7, <1>9 DEF DifferenceOwned
<1> QED
    BY <1>2, <1>4, <1>7, <1>8, <1>9, <1>10 DEF ConfigInv

LEMMA ConfigStep ==
    ConfigInv /\ [CNext]_cVars =>
        ConfigInv' /\ (file'.user = file.user \/ file'.user = "set" \/ edits' # edits)
<1> SUFFICES ASSUME ConfigInv, [CNext]_cVars
             PROVE  ConfigInv' /\ (file'.user = file.user \/ file'.user = "set" \/ edits' # edits)
    OBVIOUS
<1>1. CASE UNCHANGED cVars
    BY <1>1 DEF cVars, ConfigInv, DifferenceOwned, Fields
<1>2. CASE CNext
    BY <1>2, CommandStep, FillStep, SaveStep, KeyStep, OwnObjectStep DEF CNext
<1> QED
    BY <1>1, <1>2

\* The types of the configuration's state, and the private key in memory as in the file, for every
\* number of goroutines, commands and list entries (setConfigUnsynced, SetConfigKey).
LEMMA ConfigInvMeans == ConfigInv => CTypeOK /\ MemoryIsFile /\ PrivateKeyKept
<1> SUFFICES ASSUME ConfigInv PROVE CTypeOK /\ MemoryIsFile /\ PrivateKeyKept
    OBVIOUS
<1>1. Fields(file) \in KeptObject
    BY FieldsOf DEF ConfigInv
<1>2. KeptObject \subseteq Object /\ file.user \in {"kept", "set", "edited"} /\ file.priv = "key"
    BY DEF KeptObject, KeptFile, ConfigInv
<1>3. CTypeOK
    BY <1>1, <1>2 DEF CTypeOK, ConfigInv
<1>4. MemoryIsFile
    BY DEF MemoryIsFile, Quiet, ConfigInv, DifferenceOwned
<1> QED
    BY <1>2, <1>3, <1>4 DEF PrivateKeyKept

\* With no command running, memory and file are the same unless an editor or a failing write came
\* between; no interleaving of commands loses the private key or a key of the file that the daemon
\* does not know (SetConfig, SetConfigKey, replaceConfig).
THEOREM ConfigSafe == CSpec => ConfigKept
<1>1. ConfigInv /\ [CNext]_cVars
        => ConfigInv' /\ [file'.user = file.user \/ file'.user = "set" \/ edits' # edits]_cVars
    BY ConfigStep
<1> QED
    BY <1>1, ConfigInit, ConfigInvMeans, PTL DEF CSpec, ConfigKept, UserKeyKept

-----------------------------------------------------------------------------
(* Migrations.                                                             *)

MgTypes ==
    /\ mgPc \in {"open", "config", "find", "fetch", "run", "add", "closing", "failing", "served", "failed"}
    /\ mgVer \in MgFrom .. MgTarget /\ mgTodo \in Seq(Nat)
    /\ mgKeep \in {"empty", "discard", "cache", "keep"} /\ mgSrcs \in Seq({"http", "ipfs"})
    /\ mgThr \in [Migs -> {"none", "versions", "archive", "done", "failed"}]
    /\ mgTry \in [Migs -> Nat] /\ mgOnce \in {"no", "opening", "open", "failed"}
    /\ mgRuns \in Nat /\ mgDirs \in Nat /\ mgDlDir \in BOOLEAN /\ mgErr \in BOOLEAN

\* What daemonFunc has not begun is not there yet, and what it has done with is gone.
MgClean ==
    /\ mgPc \in {"open", "config", "find"} =>
          /\ mgOnce = "no" /\ mgThr = [m \in Migs |-> "none"] /\ mgTry = [m \in Migs |-> 1]
    /\ mgPc \in {"open", "config"} => mgKeep = "empty"
    /\ mgPc \in {"open", "config", "served", "failed"} => ~mgDlDir /\ mgSaved = {}
    /\ mgPc \in {"served", "failed"} => mgRuns = 0 /\ mgDirs = 0
    /\ mgPc \in {"find", "fetch", "run", "add"} => mgSrcs # <<>>
    /\ \A m \in Migs : mgThr[m] \in Files => mgPc = "fetch" /\ mgTry[m] \in 1 .. Len(mgSrcs)

\* There is at most one temporary node and one temporary repository, and while they are being made
\* the goroutine that makes them waits.
MgOneNode ==
    /\ mgRuns <= 1 /\ mgDirs <= 1
    /\ mgOnce = "no" => mgRuns = 0 /\ mgDirs = 0
    /\ mgOnce = "opening" => mgRuns = 0 /\ \E m \in Migs : mgThr[m] \in Files /\ Source(m) = "ipfs"

\* What is left to run is the way to the target, and every step of it has a binary or a goroutine
\* that has not got it.
MgWay ==
    /\ \A m \in Migs : mgThr[m] = "done" => m \in mgBins
    /\ mgPc \in {"fetch", "run"} =>
          \A i \in 1 .. Len(mgTodo) :
              /\ mgTodo[i] = MgTarget - Len(mgTodo) + i - 1 /\ mgTodo[i] \in Migs
              /\ mgThr[mgTodo[i]] = "none" => mgTodo[i] \in mgBins
    /\ mgPc = "run" => AllFetched

\* An archive that was downloaded is where addMigrations looks for it, and then in the node.
MgFound ==
    /\ mgKeep = "cache" /\ mgPc \in {"find", "fetch", "run", "add"} => mgDlDir
    /\ \A m \in Migs : mgThr[m] = "done" /\ mgPc \in {"fetch", "run", "add"} =>
          /\ mgDlDir => m \in mgSaved
          /\ (\A i \in 1 .. Len(mgSrcs) : mgSrcs[i] = "ipfs") => <<"archive", m>> \in mgPaths
    /\ mgPc \in {"closing", "served"} /\ mgKeep = "cache" /\ ~mgErr =>
          \A m \in Migs : mgThr[m] = "done" => m \in mgKept

MgInv == MgTypes /\ MgClean /\ MgOneNode /\ MgWay /\ MgFound

LEMMA MgStarts == MgInit => MgInv
<1> SUFFICES ASSUME MgInit PROVE MgInv
    OBVIOUS
<1>1. mgVer \in MgFrom .. MgTarget /\ mgTodo \in Seq(Nat) /\ mgSrcs \in Seq({"http", "ipfs"})
    BY SMT, MgAssumption DEF MgInit
<1>2. mgTry \in [Migs -> Nat] /\ mgThr \in [Migs -> {"none", "versions", "archive", "done", "failed"}]
    BY SMT DEF MgInit
<1>3. \A m \in Migs : mgThr[m] = "none"
    BY DEF MgInit
<1>4. MgTypes
    <2>1. mgRuns \in Nat /\ mgDirs \in Nat
        BY SMT DEF MgInit
    <2> QED
        BY <1>1, <1>2, <2>1 DEF MgInit, MgTypes
<1>5. MgClean
    BY <1>3 DEF MgInit, MgClean, Files
<1>6. MgOneNode
    BY SMT DEF MgInit, MgOneNode
<1>7. MgWay /\ MgFound
    BY <1>3 DEF MgInit, MgWay, MgFound
<1> QED
    BY <1>4, <1>5, <1>6, <1>7 DEF MgInv

\* The part of the state that only the steps of daemonFunc before the downloads change.
LEMMA MgOpenStep == MgInv /\ Open => MgInv'
<1> SUFFICES ASSUME MgInv, Open PROVE MgInv'
    OBVIOUS
<1>1. /\ mgPc = "open" /\ mgPc' \in {"served", "config", "failed"}
      /\ UNCHANGED <<mgVer, mgTodo, mgKeep, mgSrcs, mgBins, mgThr, mgTry, mgOnce, mgRuns, mgDirs,
                     mgPaths, mgSaved, mgDlDir, mgKept, mgErr>>
    BY DEF Open, local
<1>2. \A m \in Migs : mgThr[m] = "none"
    BY <1>1 DEF MgInv, MgClean
<1> USE DEF MgInv, Files
<1>3. MgTypes'
    BY <1>1 DEF MgTypes
<1>4. MgClean'
    BY <1>1, <1>2 DEF MgClean, MgOneNode
<1>5. MgOneNode'
    BY <1>1, <1>2 DEF MgOneNode, MgClean
<1>6. MgWay'
    BY <1>1, <1>2 DEF MgWay
<1>7. MgFound'
    BY <1>1, <1>2 DEF MgFound
<1> QED
    BY <1>3, <1>4, <1>5, <1>6, <1>7

LEMMA MgConfigStep == MgInv /\ ReadMigrationConfig => MgInv'
<1> SUFFICES ASSUME MgInv, ReadMigrationConfig PROVE MgInv'
    OBVIOUS
<1>1. /\ mgPc = "config"
      /\ UNCHANGED <<mgVer, mgTodo, mgBins, mgThr, mgTry, mgOnce, mgRuns, mgDirs, mgPaths, mgSaved,
                     mgKept, mgErr>>
    BY DEF ReadMigrationConfig
<1>2. \/ /\ mgPc' = "find" /\ mgSrcs' \in Seq({"http", "ipfs"}) /\ mgSrcs' # <<>>
         /\ mgKeep' \in {"cache", "discard", "keep"} /\ mgDlDir' = (mgKeep' = "cache")
      \/ mgPc' = "failed" /\ UNCHANGED <<mgKeep, mgSrcs, mgDlDir>>
    <2>1. PICK k \in {"empty", "discard", "pin"},
               s \in {<<>>, <<"empty", "gateway">>, <<"ftp">>, <<"IPFS">>, <<"IPFS", "HTTPS">>} :
             IF KeepAccepted(k) /\ Usable(FetchersOf(ReadSources(s)))
             THEN /\ mgKeep' = ReadKeep(k) /\ mgSrcs' = FetchersOf(ReadSources(s))
                  /\ mgDlDir' = (ReadKeep(k) \in {"cache", "pin"})
                  /\ mgPc' = "find"
             ELSE mgPc' = "failed" /\ UNCHANGED <<mgKeep, mgSrcs, mgDlDir>>
        BY DEF ReadMigrationConfig
    <2> DEFINE fetchers == FetchersOf(ReadSources(s))
    <2> HIDE DEF fetchers
    <2>2. CASE KeepAccepted(k) /\ Usable(fetchers)
        <3>1. mgKeep' = ReadKeep(k) /\ mgSrcs' = fetchers /\ mgPc' = "find"
              /\ mgDlDir' = (ReadKeep(k) \in {"cache", "pin"})
            BY <2>1, <2>2 DEF fetchers
        <3>2. ReadKeep(k) \in {"cache", "discard", "keep"}
            BY <2>2 DEF KeepAccepted, ReadKeep
        <3>3. (ReadKeep(k) \in {"cache", "pin"}) = (ReadKeep(k) = "cache")
            BY SMT, <3>2
        <3> QED
            BY <2>2, <3>1, <3>2, <3>3 DEF Usable
    <2>3. CASE ~(KeepAccepted(k) /\ Usable(fetchers))
        BY <2>1, <2>3 DEF fetchers
    <2> QED
        BY <2>2, <2>3
<1>3. \A m \in Migs : mgThr[m] = "none"
    BY <1>1 DEF MgInv, MgClean
<1> USE DEF MgInv, Files
<1>4. MgTypes'
    BY <1>1, <1>2 DEF MgTypes
<1>5. MgClean'
    BY SMT, <1>1, <1>2, <1>3 DEF MgClean, MgOneNode, MgTypes
<1>6. MgOneNode'
    BY <1>1, <1>2, <1>3 DEF MgOneNode, MgClean
<1>7. MgWay'
    BY <1>1, <1>2, <1>3 DEF MgWay
<1>8. MgFound'
    BY <1>1, <1>2, <1>3 DEF MgFound
<1> QED
    BY <1>4, <1>5, <1>6, <1>7, <1>8

LEMMA MgFindStep == MgInv /\ FindMigrations => MgInv'
<1> SUFFICES ASSUME MgInv, FindMigrations PROVE MgInv'
    OBVIOUS
<1>0. MgFrom \in Nat /\ MgTarget \in Nat /\ mgVer \in MgFrom .. MgTarget
    BY MgAssumption DEF MgInv, MgTypes
<1>1. PICK found \in SUBSET (mgVer .. MgTarget - 1) :
         /\ mgBins' = found
         /\ mgThr' = [m \in Migs |-> IF m >= mgVer /\ m \notin found THEN "versions" ELSE "none"]
    BY DEF FindMigrations
<1>2. /\ mgPc = "find" /\ mgPc' = "fetch" /\ mgTodo' = StepsFrom(mgVer)
      /\ UNCHANGED <<mgVer, mgKeep, mgSrcs, mgTry, mgOnce, mgRuns, mgDirs, mgPaths, mgSaved,
                     mgDlDir, mgKept, mgErr>>
    BY DEF FindMigrations
<1>3. /\ mgTodo' \in Seq(Nat) /\ Len(mgTodo') = MgTarget - mgVer
      /\ \A i \in 1 .. Len(mgTodo') : mgTodo'[i] = mgVer + i - 1
    <2>1. MgTarget - mgVer \in Nat
        BY SMT, <1>0
    <2>2. \A i \in 1 .. MgTarget - mgVer : mgVer + i - 1 \in Nat
        BY SMT, <1>0
    <2> QED
        BY SMT, <1>2, <2>1, <2>2 DEF StepsFrom
<1>4. \A m \in Migs : mgTry[m] = 1
    BY <1>2 DEF MgInv, MgClean
<1>5. Len(mgSrcs) \in Nat /\ Len(mgSrcs) >= 1
    BY SMT, <1>2 DEF MgInv, MgClean, MgTypes
<1> USE DEF MgInv, Files
<1>6. MgTypes'
    BY <1>1, <1>2, <1>3 DEF MgTypes
<1>7. MgClean'
    <2>1. \A m \in Migs : mgTry'[m] \in 1 .. Len(mgSrcs')
        BY SMT, <1>2, <1>4, <1>5
    <2> QED
        BY <1>1, <1>2, <2>1 DEF MgClean
<1>8. MgOneNode'
    BY <1>1, <1>2 DEF MgOneNode, MgClean
<1>9. MgWay'
    <2>1. \A i \in 1 .. Len(mgTodo') :
             /\ mgTodo'[i] = MgTarget - Len(mgTodo') + i - 1 /\ mgTodo'[i] \in Migs
             /\ mgThr'[mgTodo'[i]] = "none" => mgTodo'[i] \in mgBins'
        <3> TAKE i \in 1 .. Len(mgTodo')
        <3>1. mgTodo'[i] = MgTarget - Len(mgTodo') + i - 1 /\ mgTodo'[i] \in Migs /\ mgTodo'[i] >= mgVer
            BY SMT, <1>0, <1>3 DEF Migs
        <3> QED
            BY <1>1, <3>1
    <2>2. \A m \in Migs : mgThr'[m] # "done"
        BY <1>1
    <2> QED
        BY <1>2, <2>1, <2>2 DEF MgWay
<1>10. MgFound'
    <2>1. \A m \in Migs : mgThr'[m] # "done"
        BY <1>1
    <2> QED
        BY <1>2, <2>1 DEF MgFound
<1> QED
    BY <1>6, <1>7, <1>8, <1>9, <1>10

\* What a step of the download of m does to the goroutine and to what it has got.
LEMMA MgGoroutine ==
    ASSUME MgInv, NEW m \in Migs, mgThr[m] \in Files,
           \/ Fetched(m)
           \/ NextFetcher(m) /\ UNCHANGED <<mgBins, mgSaved>>
           \/ mgThr' = [mgThr EXCEPT ![m] = "failed"] /\ UNCHANGED <<mgBins, mgSaved, mgTry>>
    PROVE  \E w \in {"versions", "archive", "done", "failed"}, n \in 1 .. Len(mgSrcs) :
              /\ mgThr' = [mgThr EXCEPT ![m] = w] /\ mgTry' = [mgTry EXCEPT ![m] = n]
              /\ mgBins \subseteq mgBins' /\ mgSaved \subseteq mgSaved'
              /\ w = "done" => mgThr[m] = "archive" /\ m \in mgBins' /\ (mgDlDir => m \in mgSaved')
<1>1. /\ mgTry[m] \in 1 .. Len(mgSrcs) /\ Len(mgSrcs) \in Nat /\ mgDlDir \in BOOLEAN
      /\ mgThr = [mgThr EXCEPT ![m] = mgThr[m]] /\ mgTry = [mgTry EXCEPT ![m] = mgTry[m]]
    BY SMT DEF MgInv, MgClean, MgTypes
<1>2. 1 \in 1 .. Len(mgSrcs)
    BY SMT, <1>1
<1>3. CASE Fetched(m)
    <2>1. CASE mgThr[m] = "versions"
        BY <1>2, <1>3, <2>1 DEF Fetched
    <2>2. CASE mgThr[m] # "versions"
        <3>1. mgThr[m] = "archive"
            BY <2>2 DEF Files
        <3>2. /\ mgThr' = [mgThr EXCEPT ![m] = "done"] /\ mgTry' = [mgTry EXCEPT ![m] = 1]
              /\ mgBins' = mgBins \cup {m}
              /\ mgSaved' = IF mgDlDir THEN mgSaved \cup {m} ELSE mgSaved
            BY <1>3, <2>2 DEF Fetched
        <3> QED
            BY <1>1, <1>2, <3>1, <3>2
    <2> QED
        BY <2>1, <2>2
<1>4. CASE NextFetcher(m) /\ UNCHANGED <<mgBins, mgSaved>>
    <2>1. CASE mgTry[m] < Len(mgSrcs)
        <3>1. mgTry' = [mgTry EXCEPT ![m] = mgTry[m] + 1] /\ mgThr' = [mgThr EXCEPT ![m] = mgThr[m]]
            BY <1>1, <1>4, <2>1 DEF NextFetcher
        <3>2. mgTry[m] + 1 \in 1 .. Len(mgSrcs)
            BY SMT, <1>1, <2>1
        <3> QED
            BY <1>4, <3>1, <3>2 DEF Files
    <2>2. CASE ~(mgTry[m] < Len(mgSrcs))
        <3>1. mgTry' = [mgTry EXCEPT ![m] = mgTry[m]] /\ mgThr' = [mgThr EXCEPT ![m] = "failed"]
            BY <1>1, <1>4, <2>2 DEF NextFetcher
        <3> QED
            BY <1>1, <1>4, <3>1
    <2> QED
        BY <2>1, <2>2
<1>5. CASE mgThr' = [mgThr EXCEPT ![m] = "failed"] /\ UNCHANGED <<mgBins, mgSaved, mgTry>>
    BY <1>1, <1>5
<1> QED
    BY <1>3, <1>4, <1>5

\* Whatever a download comes to, the invariant is kept.
LEMMA MgDownload ==
    ASSUME MgInv, NEW m \in Migs, mgThr[m] \in Files, Source(m) = "ipfs" => mgOnce # "opening",
           \/ Fetched(m)
           \/ NextFetcher(m) /\ UNCHANGED <<mgBins, mgSaved>>
           \/ mgThr' = [mgThr EXCEPT ![m] = "failed"] /\ UNCHANGED <<mgBins, mgSaved, mgTry>>,
           mgPaths \subseteq mgPaths',
           Source(m) = "ipfs" /\ mgThr'[m] = "done" => <<mgThr[m], m>> \in mgPaths',
           UNCHANGED <<mgPc, mgVer, mgTodo, mgKeep, mgSrcs, mgOnce, mgRuns, mgDirs, mgDlDir,
                       mgKept, mgErr>>
    PROVE  MgInv'
<1>1. PICK w \in {"versions", "archive", "done", "failed"}, n \in 1 .. Len(mgSrcs) :
         /\ mgThr' = [mgThr EXCEPT ![m] = w] /\ mgTry' = [mgTry EXCEPT ![m] = n]
         /\ mgBins \subseteq mgBins' /\ mgSaved \subseteq mgSaved'
         /\ w = "done" => mgThr[m] = "archive" /\ m \in mgBins' /\ (mgDlDir => m \in mgSaved')
    BY MgGoroutine
<1>2. /\ mgPc = "fetch" /\ mgTry[m] \in 1 .. Len(mgSrcs) /\ mgThr[m] # "none"
      /\ Len(mgSrcs) \in Nat
    BY SMT DEF MgInv, MgClean, MgTypes, Files
<1>3. /\ mgThr'[m] = w /\ mgTry'[m] = n
      /\ \A x \in Migs : x # m => mgThr'[x] = mgThr[x] /\ mgTry'[x] = mgTry[x]
    BY <1>1 DEF MgInv, MgTypes
<1>4. MgTypes'
    <2>1. n \in Nat
        BY SMT, <1>2
    <2> QED
        BY SMT, <1>1, <2>1 DEF MgInv, MgTypes
<1>5. MgClean'
    <2>1. \A x \in Migs : mgThr'[x] \in Files => mgTry'[x] \in 1 .. Len(mgSrcs')
        BY <1>3 DEF MgInv, MgClean
    <2> QED
        BY <1>2, <2>1 DEF MgInv, MgClean
<1>6. MgOneNode'
    <2>1. ASSUME mgOnce = "opening"
          PROVE  \E x \in Migs : mgThr'[x] \in Files /\ Source(x)' = "ipfs"
        <3>1. PICK x \in Migs : mgThr[x] \in Files /\ Source(x) = "ipfs"
            BY <2>1 DEF MgInv, MgOneNode
        <3>2. x # m
            BY <2>1, <3>1
        <3> QED
            BY <1>3, <3>1, <3>2 DEF Source
    <2> QED
        BY <2>1 DEF MgInv, MgOneNode
<1>7. MgWay'
    <2>1. \A x \in Migs : mgThr'[x] = "done" => x \in mgBins'
        BY <1>1, <1>3 DEF MgInv, MgWay
    <2>2. \A i \in 1 .. Len(mgTodo') :
             /\ mgTodo'[i] = MgTarget - Len(mgTodo') + i - 1 /\ mgTodo'[i] \in Migs
             /\ mgThr'[mgTodo'[i]] = "none" => mgTodo'[i] \in mgBins'
        <3> TAKE i \in 1 .. Len(mgTodo')
        <3>1. /\ mgTodo[i] = MgTarget - Len(mgTodo) + i - 1 /\ mgTodo[i] \in Migs
              /\ mgThr[mgTodo[i]] = "none" => mgTodo[i] \in mgBins
            BY <1>2 DEF MgInv, MgWay
        <3> QED
            BY <1>1, <1>3, <3>1
    <2> QED
        BY <1>2, <2>1, <2>2 DEF MgWay
<1>8. MgFound'
    <2>1. ASSUME NEW x \in Migs, mgThr'[x] = "done"
          PROVE  /\ mgDlDir' => x \in mgSaved'
                 /\ (\A i \in 1 .. Len(mgSrcs') : mgSrcs'[i] = "ipfs") => <<"archive", x>> \in mgPaths'
        <3>1. CASE x # m
            <4>1. mgThr[x] = "done"
                BY <1>3, <2>1, <3>1
            <4>2. /\ mgDlDir => x \in mgSaved
                  /\ (\A i \in 1 .. Len(mgSrcs) : mgSrcs[i] = "ipfs") => <<"archive", x>> \in mgPaths
                BY <1>2, <4>1 DEF MgInv, MgFound
            <4> QED
                BY <1>1, <4>2
        <3>2. CASE x = m
            <4>1. w = "done" /\ mgThr[m] = "archive"
                BY <1>1, <1>3, <2>1, <3>2
            <4>2. (\A i \in 1 .. Len(mgSrcs) : mgSrcs[i] = "ipfs") => Source(m) = "ipfs"
                BY <1>2 DEF Source
            <4> QED
                BY <1>1, <2>1, <3>2, <4>1, <4>2
        <3> QED
            BY <3>1, <3>2
    <2> QED
        BY <1>2, <2>1 DEF MgInv, MgFound
<1> QED
    BY <1>4, <1>5, <1>6, <1>7, <1>8 DEF MgInv

\* The steps of a goroutine with an HTTP fetcher or with the temporary node.
LEMMA MgFetchStep ==
    ASSUME MgInv, NEW m \in Migs, HttpFetch(m) \/ IpfsFetch(m) \/ NoVersion(m) \/ UnpackFails(m)
    PROVE  MgInv'
<1>1. CASE HttpFetch(m)
    <2>1. /\ mgThr[m] \in Files /\ Source(m) = "http"
          /\ Fetched(m) \/ (NextFetcher(m) /\ UNCHANGED <<mgBins, mgSaved>>)
          /\ UNCHANGED <<mgPc, mgVer, mgTodo, mgKeep, mgSrcs, mgOnce, mgRuns, mgDirs, mgPaths, mgDlDir,
                         mgKept, mgErr>>
        BY <1>1 DEF HttpFetch
    <2>2. Source(m) # "ipfs" /\ mgPaths \subseteq mgPaths'
        BY <2>1
    <2> QED
        BY <2>1, <2>2, MgDownload
<1>2. CASE IpfsFetch(m)
    <2>1. /\ mgThr[m] \in Files /\ mgOnce # "opening"
          /\ UNCHANGED <<mgPc, mgVer, mgTodo, mgKeep, mgSrcs, mgOnce, mgRuns, mgDirs, mgDlDir,
                         mgKept, mgErr>>
        BY <1>2 DEF IpfsFetch
    <2>2. \/ Fetched(m) /\ mgPaths' = mgPaths \cup {<<mgThr[m], m>>}
          \/ NextFetcher(m) /\ UNCHANGED <<mgBins, mgSaved, mgPaths>>
        BY <1>2 DEF IpfsFetch
    <2>3. CASE Fetched(m) /\ mgPaths' = mgPaths \cup {<<mgThr[m], m>>}
        BY <2>1, <2>3, MgDownload
    <2>4. CASE NextFetcher(m) /\ UNCHANGED <<mgBins, mgSaved, mgPaths>>
        <3>1. mgThr'[m] # "done"
            BY <2>1, <2>4 DEF NextFetcher, Files, MgInv, MgTypes
        <3> QED
            BY <2>1, <2>4, <3>1, MgDownload
    <2> QED
        BY <2>2, <2>3, <2>4
<1>3. CASE NoVersion(m) \/ UnpackFails(m)
    <2>1. /\ mgThr[m] \in Files /\ (Source(m) = "ipfs" => mgOnce # "opening")
          /\ mgThr' = [mgThr EXCEPT ![m] = "failed"] /\ UNCHANGED <<mgBins, mgSaved, mgTry>>
          /\ mgPaths \subseteq mgPaths'
          /\ UNCHANGED <<mgPc, mgVer, mgTodo, mgKeep, mgSrcs, mgOnce, mgRuns, mgDirs, mgDlDir,
                         mgKept, mgErr>>
        BY <1>3 DEF NoVersion, UnpackFails, Unusable, Files
    <2>2. mgThr'[m] # "done"
        BY <2>1 DEF MgInv, MgTypes
    <2> QED
        BY <2>1, <2>2, MgDownload
<1> QED
    BY <1>1, <1>2, <1>3

\* The temporary node is made once.
LEMMA MgNodeStep ==
    ASSUME MgInv, (\E m \in Migs : OpenOnce(m)) \/ StartTempNode
    PROVE  MgInv'
<1>1. UNCHANGED <<mgPc, mgVer, mgTodo, mgKeep, mgSrcs, mgBins, mgThr, mgTry, mgPaths, mgSaved, mgDlDir,
                  mgKept, mgErr>>
    BY DEF OpenOnce, StartTempNode
<1>2. /\ mgPc = "fetch"
      /\ \/ mgOnce = "no" /\ mgOnce' = "opening" /\ mgRuns' = mgRuns /\ mgDirs' \in {mgDirs, mgDirs + 1}
            /\ \E m \in Migs : mgThr[m] \in Files /\ Source(m) = "ipfs"
         \/ mgOnce = "opening" /\ mgOnce' \in {"open", "failed"} /\ mgDirs' = mgDirs
            /\ mgRuns' \in {mgRuns, mgRuns + 1}
    <2>1. ASSUME NEW m \in Migs, OpenOnce(m)
          PROVE  /\ mgPc = "fetch" /\ mgThr[m] \in Files /\ Source(m) = "ipfs" /\ mgOnce = "no"
                 /\ mgOnce' = "opening" /\ mgRuns' = mgRuns /\ mgDirs' \in {mgDirs, mgDirs + 1}
        BY <2>1 DEF OpenOnce, MayOpen, MgInv, MgClean
    <2>2. CASE StartTempNode
        <3>1. /\ mgOnce = "opening" /\ mgOnce' \in {"open", "failed"} /\ mgDirs' = mgDirs
              /\ mgRuns' \in {mgRuns, mgRuns + 1}
            BY <2>2 DEF StartTempNode
        <3>2. mgPc = "fetch"
            BY <3>1 DEF MgInv, MgOneNode, MgClean
        <3> QED
            BY <3>1, <3>2
    <2> QED
        BY <2>1, <2>2
<1>3. MgTypes'
    BY SMT, <1>1, <1>2 DEF MgInv, MgTypes
<1>4. MgClean'
    BY <1>1, <1>2 DEF MgInv, MgClean
<1>5. MgOneNode'
    BY SMT, <1>1, <1>2 DEF MgInv, MgOneNode, MgTypes, Source
<1>6. MgWay' /\ MgFound'
    BY <1>1 DEF MgInv, MgWay, MgFound, AllFetched
<1> QED
    BY <1>3, <1>4, <1>5, <1>6 DEF MgInv

\* The downloads are over, and the repository is opened again.
LEMMA MgPassStep ==
    ASSUME MgInv, FetchMigrations \/ Reopen
    PROVE  MgInv'
<1>1. /\ UNCHANGED <<mgVer, mgTodo, mgKeep, mgSrcs, mgBins, mgThr, mgTry, mgOnce, mgRuns, mgDirs,
                     mgPaths, mgSaved, mgDlDir, mgKept, mgErr>>
      /\ \/ mgPc = "fetch" /\ mgPc' = "run" /\ AllFetched
         \/ mgPc = "run" /\ mgPc' = "add"
         \/ mgPc \in {"fetch", "run"} /\ mgPc' = "failing"
    BY DEF FetchMigrations, Reopen, local
<1>2. \A m \in Migs : mgThr[m] \notin Files
    <2>1. CASE FetchMigrations
        BY <2>1 DEF FetchMigrations
    <2>2. CASE Reopen
        BY <2>2 DEF Reopen, MgInv, MgClean
    <2> QED
        BY <2>1, <2>2
<1>3. MgTypes'
    BY <1>1 DEF MgInv, MgTypes
<1>4. MgClean'
    BY <1>1, <1>2 DEF MgInv, MgClean
<1>5. MgOneNode'
    BY <1>1 DEF MgInv, MgOneNode, Source
<1>6. MgWay'
    BY <1>1 DEF MgInv, MgWay, AllFetched
<1>7. MgFound'
    BY <1>1 DEF MgInv, MgFound
<1> QED
    BY <1>3, <1>4, <1>5, <1>6, <1>7 DEF MgInv

\* A migration runs, here or elsewhere.
LEMMA MgRunStep ==
    ASSUME MgInv, RunMigration \/ MigratedElsewhere
    PROVE  MgInv'
<1>0. MgFrom \in Nat /\ MgTarget \in Nat /\ mgVer \in MgFrom .. MgTarget /\ mgTodo \in Seq(Nat)
      /\ Len(mgTodo) \in Nat
    BY SMT, MgAssumption DEF MgInv, MgTypes
<1>1. UNCHANGED <<mgKeep, mgSrcs, mgBins, mgThr, mgTry, mgOnce, mgRuns, mgDirs, mgPaths, mgSaved,
                  mgDlDir, mgKept, mgErr>>
    BY DEF RunMigration, MigratedElsewhere, local
<1>2. /\ mgPc \in {"find", "fetch", "run"} /\ (mgPc' = mgPc \/ (mgPc = "run" /\ mgPc' = "failing"))
      /\ \/ mgTodo' = mgTodo
         \/ mgPc = "run" /\ mgTodo # <<>> /\ mgTodo' = Tail(mgTodo)
      /\ mgVer' \in MgFrom .. MgTarget
    <2>1. CASE MigratedElsewhere
        BY SMT, <1>0, <2>1 DEF MigratedElsewhere, local
    <2>2. CASE RunMigration
        <3>1. mgPc = "run" /\ mgTodo # <<>>
            BY <2>2 DEF RunMigration
        <3>2. CASE /\ RunNext(mgTodo) \in mgBins /\ MigrationBinary(RunNext(mgTodo))
                   /\ mgTodo' = Tail(mgTodo) /\ UNCHANGED <<mgPc, mgBad>>
            <4>1. 1 \in 1 .. Len(mgTodo) /\ Head(mgTodo) = mgTodo[1]
                BY SMT, <1>0, <3>1
            <4>2. mgTodo[1] \in Migs
                BY <3>1, <4>1 DEF MgInv, MgWay
            <4>3. mgVer' = mgTodo[1] + 1
                BY <3>2, <4>1 DEF MigrationBinary, RunNext
            <4> QED
                BY SMT, <1>0, <3>1, <3>2, <4>2, <4>3 DEF Migs
        <3>3. CASE mgPc' = "failing" /\ UNCHANGED <<mgVer, mgTodo>>
            BY <1>0, <3>1, <3>3
        <3> QED
            BY <2>2, <3>1, <3>2, <3>3 DEF RunMigration
    <2> QED
        BY <2>1, <2>2
<1>3. MgTypes'
    <2>1. mgTodo' \in Seq(Nat)
        BY SMT, <1>0, <1>2
    <2> QED
        BY <1>1, <1>2, <2>1 DEF MgInv, MgTypes
<1>4. MgClean'
    BY <1>1, <1>2 DEF MgInv, MgClean
<1>5. MgOneNode'
    BY <1>1 DEF MgInv, MgOneNode, Source
<1>6. MgWay'
    <2>1. CASE mgTodo' = mgTodo
        BY <1>1, <1>2, <2>1 DEF MgInv, MgWay, AllFetched
    <2>2. CASE mgPc = "run" /\ mgTodo # <<>> /\ mgTodo' = Tail(mgTodo)
        <3>1. Len(mgTodo') = Len(mgTodo) - 1 /\ \A i \in 1 .. Len(mgTodo') : mgTodo'[i] = mgTodo[i + 1]
            BY SMT, <1>0, <2>2
        <3>2. \A i \in 1 .. Len(mgTodo') :
                 /\ mgTodo'[i] = MgTarget - Len(mgTodo') + i - 1 /\ mgTodo'[i] \in Migs
                 /\ mgThr'[mgTodo'[i]] = "none" => mgTodo'[i] \in mgBins'
            <4> TAKE i \in 1 .. Len(mgTodo')
            <4>1. i + 1 \in 1 .. Len(mgTodo) /\ i \in Nat
                BY SMT, <1>0, <3>1
            <4>2. /\ mgTodo[i + 1] = MgTarget - Len(mgTodo) + (i + 1) - 1 /\ mgTodo[i + 1] \in Migs
                  /\ mgThr[mgTodo[i + 1]] = "none" => mgTodo[i + 1] \in mgBins
                BY <2>2, <4>1 DEF MgInv, MgWay
            <4>3. mgTodo'[i] = mgTodo[i + 1]
                BY <3>1
            <4> QED
                BY SMT, <1>0, <1>1, <3>1, <4>1, <4>2, <4>3
        <3> QED
            BY <1>1, <1>2, <3>2 DEF MgInv, MgWay, AllFetched
    <2> QED
        BY <1>2, <2>1, <2>2
<1>7. MgFound'
    BY <1>1, <1>2 DEF MgInv, MgFound
<1> QED
    BY <1>3, <1>4, <1>5, <1>6, <1>7 DEF MgInv

\* What addMigrations puts into the node when it prints no error.
LEMMA MgAdded ==
    ASSUME MgInv, mgPc = "add", mgDlDir, Reached(Len(mgSrcs)), NEW m \in Migs, mgThr[m] = "done"
    PROVE  m \in AddedByWalk
<1>1. Len(mgSrcs) \in Nat /\ mgSrcs # <<>> /\ \A i \in 1 .. Len(mgSrcs) : mgSrcs[i] \in {"http", "ipfs"}
    BY SMT DEF MgInv, MgTypes, MgClean
<1>2. 1 \in 1 .. Len(mgSrcs)
    BY SMT, <1>1 DEF MgInv, MgTypes
<1>3. \A i \in 1 .. Len(mgSrcs) : Reached(i)
    BY SMT, <1>1 DEF Reached
<1>4. /\ m \in mgSaved
      /\ (\A i \in 1 .. Len(mgSrcs) : mgSrcs[i] = "ipfs") => <<"archive", m>> \in mgPaths
    BY DEF MgInv, MgFound
<1>5. CASE \A i \in 1 .. Len(mgSrcs) : mgSrcs[i] = "ipfs"
    <2>1. m \in AddMigrationPaths
        BY <1>4, <1>5 DEF AddMigrationPaths
    <2> QED
        BY <1>2, <1>3, <1>5, <2>1 DEF AddedByWalk
<1>6. CASE ~\A i \in 1 .. Len(mgSrcs) : mgSrcs[i] = "ipfs"
    <2>1. PICK i \in 1 .. Len(mgSrcs) : mgSrcs[i] # "ipfs"
        BY <1>6
    <2>2. m \in AddMigrationFiles
        BY <1>4 DEF AddMigrationFiles
    <2> QED
        BY <1>3, <2>1, <2>2 DEF AddedByWalk
<1> QED
    BY <1>5, <1>6

LEMMA MgAddStep ==
    ASSUME MgInv, AddMigrations
    PROVE  MgInv'
<1>1. /\ mgPc = "add" /\ mgPc' = "closing" /\ mgSaved' = {} /\ mgDlDir' = FALSE
      /\ UNCHANGED <<mgVer, mgTodo, mgKeep, mgSrcs, mgBins, mgThr, mgTry, mgOnce, mgRuns, mgDirs, mgPaths>>
    BY DEF AddMigrations
<1>2. \A m \in Migs : mgThr[m] \notin Files
    BY <1>1 DEF MgInv, MgClean
<1>3. /\ mgErr' \in BOOLEAN
      /\ mgKeep = "cache" /\ ~mgErr' => \A m \in Migs : mgThr[m] = "done" => m \in mgKept'
    <2>1. mgErr \in BOOLEAN /\ (mgKeep = "cache" => mgDlDir)
        BY <1>1 DEF MgInv, MgTypes, MgFound
    <2>2. CASE ~mgDlDir /\ UNCHANGED <<mgKept, mgErr, mgBad>>
        BY <2>1, <2>2
    <2>3. CASE mgDlDir /\ mgKept' = AddedByWalk /\ mgErr' = ~Reached(Len(mgSrcs))
        <3>1. ~mgErr' => \A m \in Migs : mgThr[m] = "done" => m \in AddedByWalk
            BY <1>1, <2>3, MgAdded
        <3> QED
            BY <2>3, <3>1
    <2>4. CASE mgDlDir /\ mgErr' = TRUE
        BY <2>4
    <2> QED
        BY <2>2, <2>3, <2>4 DEF AddMigrations
<1>4. MgTypes'
    BY <1>1, <1>3 DEF MgInv, MgTypes
<1>5. MgClean'
    BY <1>1, <1>2 DEF MgInv, MgClean
<1>6. MgOneNode'
    BY <1>1 DEF MgInv, MgOneNode, Source
<1>7. MgWay'
    BY <1>1 DEF MgInv, MgWay
<1>8. MgFound'
    BY <1>1, <1>3 DEF MgFound
<1> QED
    BY <1>4, <1>5, <1>6, <1>7, <1>8 DEF MgInv

\* The end of daemonFunc, and the process being started again.
LEMMA MgEndStep ==
    ASSUME MgInv, StopTempNode \/ CloseFetcher \/ Restart
    PROVE  MgInv'
<1>1. CASE StopTempNode \/ CloseFetcher
    <2>1. /\ mgPc \in {"closing", "failing"}
          /\ UNCHANGED <<mgVer, mgTodo, mgKeep, mgSrcs, mgBins, mgThr, mgTry, mgOnce, mgPaths, mgKept, mgErr>>
          /\ \/ mgRuns > 0 /\ mgRuns' = mgRuns - 1 /\ UNCHANGED <<mgPc, mgDirs, mgSaved, mgDlDir>>
             \/ /\ mgRuns = 0 /\ mgRuns' = 0 /\ mgDirs' = (IF mgDirs > 0 THEN mgDirs - 1 ELSE 0)
                /\ mgSaved' = {} /\ mgDlDir' = FALSE
                /\ mgPc' = IF mgPc = "closing" THEN "served" ELSE "failed"
        BY <1>1 DEF StopTempNode, CloseFetcher, NodeStopped
    <2>2. /\ mgRuns \in Nat /\ mgDirs \in Nat /\ mgRuns <= 1 /\ mgDirs <= 1
          /\ \A m \in Migs : mgThr[m] \notin Files
          /\ mgOnce # "opening" /\ (mgOnce = "no" => mgRuns = 0 /\ mgDirs = 0)
        BY <2>1 DEF MgInv, MgTypes, MgOneNode, MgClean
    <2>3. MgTypes'
        <3>1. mgRuns' \in Nat /\ mgDirs' \in Nat
            BY SMT, <2>1, <2>2
        <3>2. /\ mgDlDir' \in BOOLEAN
              /\ mgPc' \in {"closing", "failing", "served", "failed"}
            BY <2>1 DEF MgInv, MgTypes
        <3> QED
            BY <2>1, <3>1, <3>2 DEF MgInv, MgTypes
    <2>4. MgClean'
        BY SMT, <2>1, <2>2 DEF MgInv, MgClean
    <2>5. MgOneNode'
        BY SMT, <2>1, <2>2 DEF MgOneNode
    <2>6. MgWay'
        BY <2>1 DEF MgInv, MgWay
    <2>7. MgFound'
        BY <2>1 DEF MgInv, MgFound
    <2> QED
        BY <2>3, <2>4, <2>5, <2>6, <2>7 DEF MgInv
<1>2. CASE Restart
    <2>1. mgPc' = "open" /\ FreshProcess /\ mgVer' = mgVer
        BY <1>2 DEF Restart
    <2>2. mgVer \in MgFrom .. MgTarget
        BY DEF MgInv, MgTypes
    <2> QED
        <3>1. \A m \in Migs : mgThr'[m] = "none"
            BY <2>1 DEF FreshProcess
        <3>2. mgTodo' \in Seq(Nat) /\ mgSrcs' \in Seq({"http", "ipfs"}) /\ mgTry' \in [Migs -> Nat]
            BY SMT, <2>1 DEF FreshProcess
        <3>3. mgThr' \in [Migs -> {"none", "versions", "archive", "done", "failed"}]
            BY <2>1 DEF FreshProcess
        <3>4. MgTypes'
            <4>1. mgRuns' \in Nat /\ mgDirs' \in Nat
                BY SMT, <2>1 DEF FreshProcess
            <4> QED
                BY <2>1, <2>2, <3>2, <3>3, <4>1 DEF FreshProcess, MgTypes
        <3>5. MgClean'
            BY <2>1, <3>1 DEF FreshProcess, MgClean, Files
        <3>6. MgOneNode'
            BY SMT, <2>1 DEF FreshProcess, MgOneNode
        <3>7. MgWay' /\ MgFound'
            BY <2>1, <3>1 DEF FreshProcess, MgWay, MgFound
        <3> QED
            BY <3>4, <3>5, <3>6, <3>7 DEF MgInv
<1> QED
    BY <1>1, <1>2

LEMMA MgStep == MgInv /\ [MgNext]_mgVars => MgInv'
<1> SUFFICES ASSUME MgInv, [MgNext]_mgVars PROVE MgInv'
    OBVIOUS
<1>1. CASE UNCHANGED mgVars
    BY SMT, <1>1 DEF mgVars, MgInv, MgTypes, MgClean, MgOneNode, MgWay, MgFound, Source, AllFetched
<1>2. CASE MgNext
    <2>1. CASE Open \/ ReadMigrationConfig \/ FindMigrations
        BY <2>1, MgOpenStep, MgConfigStep, MgFindStep
    <2>2. CASE \E m \in Migs : HttpFetch(m) \/ OpenOnce(m) \/ IpfsFetch(m) \/ NoVersion(m) \/ UnpackFails(m)
        <3>1. CASE \E m \in Migs : OpenOnce(m)
            BY <3>1, MgNodeStep
        <3>2. CASE \E m \in Migs : HttpFetch(m) \/ IpfsFetch(m) \/ NoVersion(m) \/ UnpackFails(m)
            BY <3>2, MgFetchStep
        <3> QED
            BY <2>2, <3>1, <3>2
    <2>3. CASE StartTempNode \/ FetchMigrations \/ RunMigration \/ Reopen \/ MigratedElsewhere
        BY <2>3, MgNodeStep, MgPassStep, MgRunStep
    <2>4. CASE AddMigrations \/ StopTempNode \/ CloseFetcher \/ Restart
        BY <2>4, MgAddStep, MgEndStep
    <2> QED
        BY <1>2, <2>1, <2>2, <2>3, <2>4 DEF MgNext
<1> QED
    BY <1>1, <1>2

\* A migration runs only when all that are left have their binaries, and then takes the version of
\* the repository one step on the way that is left.
LEMMA MgRuns ==
    ASSUME MgInv, MgNext, mgPc = "run", mgPc' = "run", mgTodo' # mgTodo
    PROVE  /\ \A i \in 1 .. Len(mgTodo) : mgTodo[i] \in mgBins
           /\ mgVer' = mgVer + 1 /\ Len(mgTodo') = MgTarget - mgVer'
           /\ mgTodo' # <<>> => Head(mgTodo') = mgVer'
<1>0. MgFrom \in Nat /\ MgTarget \in Nat /\ mgVer \in MgFrom .. MgTarget /\ mgTodo \in Seq(Nat)
      /\ Len(mgTodo) \in Nat
    BY SMT, MgAssumption DEF MgInv, MgTypes
<1>1. RunMigration
    <2>1. ~(Open \/ ReadMigrationConfig \/ FindMigrations \/ FetchMigrations \/ AddMigrations)
        BY DEF Open, ReadMigrationConfig, FindMigrations, FetchMigrations, AddMigrations
    <2>2. ASSUME NEW m \in Migs
          PROVE  ~(HttpFetch(m) \/ OpenOnce(m) \/ IpfsFetch(m) \/ NoVersion(m) \/ UnpackFails(m))
        BY DEF HttpFetch, OpenOnce, IpfsFetch, NoVersion, UnpackFails, Unusable
    <2>3. ~(StartTempNode \/ StopTempNode \/ CloseFetcher \/ Restart)
        BY DEF StartTempNode, StopTempNode, CloseFetcher, Restart
    <2>4. ~(Reopen \/ MigratedElsewhere)
        BY DEF Reopen, MigratedElsewhere, local
    <2> QED
        BY <2>1, <2>2, <2>3, <2>4 DEF MgNext
<1>2. mgTodo # <<>> /\ mgVer = Head(mgTodo) /\ mgVer' = Head(mgTodo) + 1 /\ mgTodo' = Tail(mgTodo)
    BY <1>1 DEF RunMigration, MigrationBinary, RunNext
<1>3. \A i \in 1 .. Len(mgTodo) :
         /\ mgTodo[i] = MgTarget - Len(mgTodo) + i - 1 /\ mgTodo[i] \in Migs
         /\ mgThr[mgTodo[i]] = "none" => mgTodo[i] \in mgBins
    BY DEF MgInv, MgWay
<1>4. \A i \in 1 .. Len(mgTodo) : mgTodo[i] \in mgBins
    BY <1>3 DEF MgInv, MgWay, AllFetched
<1>5. Len(mgTodo) >= 1 /\ Head(mgTodo) = mgTodo[1] /\ Len(mgTodo') = Len(mgTodo) - 1
      /\ (mgTodo' # <<>> => Head(mgTodo') = mgTodo[2] /\ Len(mgTodo) >= 2)
    BY SMT, <1>0, <1>2
<1>6. mgTodo[1] = MgTarget - Len(mgTodo) /\ (Len(mgTodo) >= 2 => mgTodo[2] = MgTarget - Len(mgTodo) + 1)
    <2>1. 1 \in 1 .. Len(mgTodo) /\ (Len(mgTodo) >= 2 => 2 \in 1 .. Len(mgTodo))
        BY SMT, <1>0, <1>5
    <2>2. mgTodo[1] = MgTarget - Len(mgTodo) + 1 - 1
        BY <1>3, <2>1
    <2>3. Len(mgTodo) >= 2 => mgTodo[2] = MgTarget - Len(mgTodo) + 2 - 1
        BY <1>3, <2>1
    <2> QED
        BY SMT, <1>0, <2>2, <2>3
<1>7. /\ mgVer = MgTarget - Len(mgTodo) /\ mgVer' = mgVer + 1
      /\ mgTodo' # <<>> => Head(mgTodo') = MgTarget - Len(mgTodo) + 1
    BY <1>2, <1>5, <1>6
<1>8. Len(mgTodo) \in Nat /\ MgTarget \in Nat /\ Len(mgTodo') = Len(mgTodo) - 1
    BY <1>0, <1>5
<1>9. MgTarget - Len(mgTodo) + 1 = mgVer' /\ Len(mgTodo') = MgTarget - mgVer'
    BY SMT, <1>7, <1>8
<1> QED
    BY <1>4, <1>7, <1>9

\* Migrations run in order and only when all of the way has been fetched; nothing temporary outlives
\* the start, and what was downloaded is kept or an error printed, for every pair of versions and
\* every number of failures, restarts and foreign migrations (RunMigration, IpfsFetcher.Close,
\* addMigrations).
THEOREM MigrationsClean == MgSpec => MigratesCleanly
<1>1. MgInv => NothingLeftBehind /\ KeptOrReported
    BY DEF MgInv, MgClean, MgFound, NothingLeftBehind, KeptOrReported
<1>2. MgInv /\ [MgNext]_mgVars =>
         [mgPc = "run" /\ mgPc' = "run" /\ mgTodo' # mgTodo
            => \A i \in 1 .. Len(mgTodo) : mgTodo[i] \in mgBins]_mgVars
    BY MgRuns
<1>3. MgInv /\ [MgNext]_mgVars =>
         [mgPc = "run" /\ mgPc' = "run" /\ mgTodo' # mgTodo
            => /\ mgVer' = mgVer + 1 /\ Len(mgTodo') = MgTarget - mgVer'
               /\ mgTodo' # <<>> => Head(mgTodo') = mgVer']_mgVars
    BY MgRuns
<1> QED
    BY <1>1, <1>2, <1>3, MgStarts, MgStep, PTL
       DEF MgSpec, MigratesCleanly, NothingRunsUntilAllFetched, RunsInOrder
=============================================================================
