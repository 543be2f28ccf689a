----------------------------- MODULE RepoProofs -----------------------------
(***************************************************************************)
(* Proofs about Repo: for any number of processes and of holders inside    *)
(* them, the repository directory has one owner at a time (OneOwner), and  *)
(* what a process uses is whole (InUseMeansWhole).                         *)
(*                                                                         *)
(* The argument: the processes meet only in the lock file, so the          *)
(* inductive invariant speaks of one process at a time (ProcInv), and a    *)
(* step of one process disturbs another only through what OthersKept       *)
(* forbids.  Inside a process the reference count is the number of         *)
(* holders, which makes the Close that finds it at one the last, and the   *)
(* daemon's second Close finds it at zero.                                 *)
(***************************************************************************)
EXTENDS Repo, FiniteSetTheorems, SequenceTheorems, TLAPS

\* Leaves are first-order unless they cite SMT.
USE Zenon

Entry == [proc : Procs, refs : 0..(RefMod - 1), st : {"open", "closed", "unclosed", "leaked"}]

\* The holders inside p that have the open repository.
Held(p) == {h \in Holders : handle[p][h] = active[p]}

\* The entry of p's open repository: it is p's, open, and counts its holders.
EntryInv(p) ==
    active[p] # 0 =>
        /\ repos[active[p]].proc = p
        /\ repos[active[p]].st = "open"
        /\ repos[active[p]].refs = Cardinality(Held(p))

\* Whoever opens or has opened the directory has the lock file and found it initialised.
LockInv(p) ==
    /\ active[p] # 0 => lock = p /\ pc[p] # "open" /\ IsInitialized /\ spec /\ version = "cur"
    /\ pc[p] = "open" => lock = p /\ IsInitialized
    /\ listed[p] => active[p] # 0 /\ api = p
    /\ lock = p /\ pc[p] # "open" /\ active[p] = 0 =>
          \E i \in DOMAIN repos : repos[i].proc = p /\ repos[i].st = "unclosed"

\* The references handed out are to the open repository; one that closes twice is alone.
HandleInv(p) ==
    /\ \A h \in Holders : handle[p][h] # 0 => handle[p][h] = active[p] /\ again[p][h] = 0
    /\ \A h \in Twice, g \in Holders : handle[p][h] # 0 /\ g # h => handle[p][g] = 0

\* A reference about to be closed for the second time has an entry nobody else refers to, whose
\* count is zero.
AgainInv(p) ==
    /\ \A h \in Holders : again[p][h] # 0 =>
          /\ again[p][h] # active[p]
          /\ repos[again[p][h]].proc = p
          /\ repos[again[p][h]].refs = 0
    /\ \A g, h \in Holders : again[p][h] # 0 /\ again[p][g] = again[p][h] => g = h

ProcInv(p) == EntryInv(p) /\ LockInv(p) /\ HandleInv(p) /\ AgainInv(p)

IInv == TypeOK /\ \A p \in Procs : ProcInv(p)

-----------------------------------------------------------------------------
(* Arithmetic of the reference count.                                      *)

\* Closing at zero wraps around to the largest count (refs is a uint32 in onlyone.go).
LEMMA DecZero == Dec(0) = RefMod - 1
<1>1. \A R \in Nat : R > 1 => (0 - 1) % R = R - 1
  BY SMT
<1> QED BY <1>1, RepoAssumption DEF Dec

\* Closing at any other count takes one away.
LEMMA DecPositive == \A n \in 1..(RefMod - 1) : Dec(n) = n - 1
<1>1. \A R \in Nat : R > 1 => \A n \in 1..(R - 1) : (n - 1) % R = n - 1
  BY SMT
<1> QED BY <1>1, RepoAssumption DEF Dec

\* The count of a uint32 stays one.
LEMMA DecType == \A n \in 0..(RefMod - 1) : Dec(n) \in 0..(RefMod - 1)
BY SMT, DecZero, DecPositive, RepoAssumption

\* One more holder than before still fits (OnlyOne.Open).
LEMMA IncSmall == \A n \in 0..(RefMod - 2) : (n + 1) % RefMod = n + 1
<1>1. \A R \in Nat : R > 1 => \A n \in 0..(R - 2) : (n + 1) % R = n + 1
  BY SMT
<1> QED BY <1>1, RepoAssumption

\* Intervals from one are equal only when their ends are.
LEMMA IntervalsDiffer == \A k, m \in Nat : 1..k = 1..m => k = m
<1>1. ASSUME NEW k \in Nat, NEW m \in Nat, k < m PROVE 1..k # 1..m
  <2>1. m \in 1..m /\ m \notin 1..k
    BY SMT, <1>1
  <2> QED BY <2>1
<1> QED BY SMT, <1>1

\* The holders of a process are finitely many, fewer than the count can hold.
LEMMA HeldFinite == \A S \in SUBSET Holders : /\ IsFiniteSet(S)
                                              /\ Cardinality(S) \in 0..(RefMod - 1)
<1> SUFFICES ASSUME NEW S \in SUBSET Holders
             PROVE  IsFiniteSet(S) /\ Cardinality(S) \in 0..(RefMod - 1)
  OBVIOUS
<1>1. IsFiniteSet(S) /\ Cardinality(S) <= Cardinality(Holders)
  BY FS_Subset, RepoAssumption
<1>2. Cardinality(S) \in Nat /\ Cardinality(Holders) \in Nat
  BY <1>1, FS_CardinalityType, RepoAssumption
<1> QED BY SMT, <1>1, <1>2, RepoAssumption

-----------------------------------------------------------------------------
(* The entries of OnlyOne.Open.                                            *)

\* Every entry has its type.
LEMMA Entries ==
    ASSUME TypeOK
    PROVE  /\ repos \in Seq(Entry) /\ Len(repos) \in Nat
           /\ DOMAIN repos = 1..Len(repos)
           /\ \A i \in 1..Len(repos) : repos[i] \in Entry
<1>1. repos \in Seq(Entry)
  BY DEF TypeOK, Entry
<1> QED BY <1>1, LenProperties, ElementOfSeq

\* An entry whose count is set is an entry.
LEMMA EntryCounted ==
    ASSUME NEW e \in Entry, NEW n \in 0..(RefMod - 1)
    PROVE  /\ [e EXCEPT !.refs = n] \in Entry
           /\ [e EXCEPT !.refs = n].proc = e.proc
           /\ [e EXCEPT !.refs = n].refs = n
           /\ [e EXCEPT !.refs = n].st = e.st
BY DEF Entry

\* An entry whose repository ends is an entry.
LEMMA EntryEnded ==
    ASSUME NEW e \in Entry, NEW s \in {"closed", "unclosed"}
    PROVE  /\ [e EXCEPT !.refs = 0, !.st = s] \in Entry
           /\ [e EXCEPT !.refs = 0, !.st = s].proc = e.proc
           /\ [e EXCEPT !.refs = 0, !.st = s].refs = 0
           /\ [e EXCEPT !.refs = 0, !.st = s].st = s
<1>1. 0 \in 0..(RefMod - 1)
  BY SMT, RepoAssumption
<1> DEFINE N == 0..(RefMod - 1)
<1> HIDE DEF N
<1> QED BY <1>1 DEF Entry, N

\* References are entries, or zero.
LEMMA References ==
    ASSUME TypeOK, NEW p \in Procs
    PROVE  /\ active[p] # 0 => active[p] \in 1..Len(repos)
           /\ \A h \in Holders : again[p][h] # 0 => again[p][h] \in 1..Len(repos)
           /\ \A h \in Holders : handle[p][h] # 0 => handle[p][h] \in 1..Len(repos)
<1>1. Len(repos) \in Nat
  BY Entries
<1>2. /\ active[p] \in 0..Len(repos)
      /\ \A h \in Holders : again[p][h] \in 0..Len(repos) /\ handle[p][h] \in 0..Len(repos)
  BY DEF TypeOK
<1> QED BY SMT, <1>1, <1>2

\* A table of references with one of them set is one.
LEMMA TableSet ==
    ASSUME NEW D, NEW f \in [Procs -> [Holders -> D]], NEW p \in Procs, NEW h \in Holders, NEW d \in D
    PROVE  [f EXCEPT ![p][h] = d] \in [Procs -> [Holders -> D]]
OBVIOUS

\* Setting one entry leaves the others.
LEMMA EntryChange ==
    ASSUME TypeOK, NEW i \in 1..Len(repos), NEW e \in Entry, repos' = [repos EXCEPT ![i] = e]
    PROVE  /\ repos' \in Seq(Entry) /\ Len(repos') = Len(repos)
           /\ DOMAIN repos' = 1..Len(repos)
           /\ repos'[i] = e
           /\ \A j \in 1..Len(repos) : j # i => repos'[j] = repos[j]
BY Entries, ExceptSeq, LenProperties

\* A new entry comes last and leaves the others.
LEMMA EntryAdded ==
    ASSUME TypeOK, NEW e \in Entry, repos' = Append(repos, e)
    PROVE  /\ repos' \in Seq(Entry) /\ Len(repos') = Len(repos) + 1
           /\ DOMAIN repos' = 1..(Len(repos) + 1)
           /\ repos'[Len(repos) + 1] = e
           /\ \A j \in 1..Len(repos) : repos'[j] = repos[j]
BY SMT, Entries, AppendProperties, LenProperties

-----------------------------------------------------------------------------
(* What a step of one process leaves alone of another.                     *)

OthersKept(q) ==
    /\ active'[q] = active[q] /\ handle'[q] = handle[q] /\ again'[q] = again[q]
    /\ pc'[q] = pc[q] /\ listed'[q] = listed[q]
    /\ lock' = q <=> lock = q
    /\ listed[q] => api' = api
    /\ IsInitialized => IsInitialized'
    /\ spec => spec'
    /\ version = "cur" => version' = "cur"
    /\ \A i \in DOMAIN repos : repos[i].proc = q => i \in DOMAIN repos' /\ repos'[i] = repos[i]

\* A process whose share is left alone keeps its invariant.
LEMMA OtherSafe ==
    ASSUME NEW q \in Procs, TypeOK, ProcInv(q), OthersKept(q)
    PROVE  ProcInv(q)'
<1>1. Held(q)' = Held(q)
  BY DEF OthersKept, Held
<1>2. active[q] # 0 => active[q] \in DOMAIN repos
  BY SMT DEF TypeOK
<1>3. \A h \in Holders : again[q][h] # 0 => again[q][h] \in DOMAIN repos
  BY SMT DEF TypeOK
<1>4. EntryInv(q)'
  BY <1>1, <1>2 DEF ProcInv, EntryInv, OthersKept
<1>5. LockInv(q)'
  BY DEF ProcInv, LockInv, OthersKept
<1>6. HandleInv(q)'
  BY SMT DEF ProcInv, HandleInv, OthersKept
<1>7. AgainInv(q)'
  BY SMT, <1>3 DEF ProcInv, AgainInv, OthersKept
<1> QED BY <1>4, <1>5, <1>6, <1>7 DEF ProcInv

\* Steps that touch neither the open repositories nor the lock: Init and SetAPIAddr.
LEMMA InitStep ==
    ASSUME IInv, NEW p \in Procs,
           InitCheck(p) \/ InitConfig(p) \/ InitSpec(p) \/ InitVersion(p) \/ InitError(p)
    PROVE  IInv'
<1> USE DEF InitCheck, InitConfig, InitSpec, InitVersion, InitError, Goto, disk
<1>1. TypeOK'
  BY DEF IInv, TypeOK
<1>2. ASSUME NEW q \in Procs \ {p} PROVE OthersKept(q)
  BY <1>2, RepoAssumption DEF IInv, TypeOK, OthersKept, IsInitialized
<1>3. Held(p)' = Held(p)
  BY DEF Held
<1>4. EntryInv(p)' /\ HandleInv(p)' /\ AgainInv(p)'
  BY SMT, <1>3 DEF IInv, ProcInv, EntryInv, HandleInv, AgainInv
<1>5. LockInv(p)'
  <2>1. pc[p] # "open" /\ pc'[p] # "open"
    BY DEF IInv, TypeOK
  <2>2. /\ IsInitialized => IsInitialized'
        /\ spec => spec'
        /\ version = "cur" => version' = "cur"
    BY SMT, RepoAssumption DEF IsInitialized
  <2>3. UNCHANGED <<active, lock, listed, api, repos>>
    OBVIOUS
  <2> QED BY <2>1, <2>2, <2>3 DEF IInv, ProcInv, LockInv
<1> QED BY <1>1, <1>2, <1>4, <1>5, OtherSafe DEF IInv, ProcInv

LEMMA SetAPIAddrStep ==
    ASSUME IInv, NEW p \in Procs, NEW h \in Holders, SetAPIAddr(p, h)
    PROVE  IInv'
<1> USE DEF SetAPIAddr, disk
<1>1. TypeOK'
  BY DEF IInv, TypeOK
<1>2. active[p] # 0 /\ lock = p
  BY DEF IInv, ProcInv, HandleInv, LockInv
<1>3. ASSUME NEW q \in Procs \ {p} PROVE OthersKept(q)
  BY <1>2, <1>3 DEF IInv, ProcInv, LockInv, TypeOK, OthersKept, IsInitialized
<1>4. Held(p)' = Held(p)
  BY DEF Held
<1>5. EntryInv(p)' /\ HandleInv(p)' /\ AgainInv(p)'
  BY SMT, <1>4 DEF IInv, ProcInv, EntryInv, HandleInv, AgainInv
<1>6. LockInv(p)'
  <2>1. api' = p
    OBVIOUS
  <2>2. UNCHANGED <<active, lock, pc, repos, config, spec, version>>
    OBVIOUS
  <2> QED BY SMT, <1>2, <2>1, <2>2 DEF IInv, ProcInv, LockInv, IsInitialized
<1> QED BY <1>1, <1>3, <1>5, <1>6, OtherSafe DEF IInv, ProcInv

-----------------------------------------------------------------------------
(* Open.                                                                   *)

\* open takes a free lock file (OpenLock) and gives it back on an error (OpenError).
LEMMA OpenLockStep ==
    ASSUME IInv, NEW p \in Procs, OpenLock(p) \/ OpenError(p)
    PROVE  IInv'
<1> USE DEF OpenLock, OpenError, Goto, disk
<1>1. TypeOK'
  BY DEF IInv, TypeOK
<1>2. active[p] = 0 /\ lock \in {None, p}
  BY DEF IInv, ProcInv, LockInv
<1>3. ASSUME NEW q \in Procs \ {p} PROVE OthersKept(q)
  BY SMT, <1>2, <1>3, RepoAssumption DEF IInv, TypeOK, OthersKept, IsInitialized
<1>4. Held(p)' = Held(p)
  BY DEF Held
<1>5. EntryInv(p)' /\ HandleInv(p)' /\ AgainInv(p)'
  BY SMT, <1>4 DEF IInv, ProcInv, EntryInv, HandleInv, AgainInv
<1>6. LockInv(p)'
  <2>1. pc'[p] = "open" => lock' = p /\ IsInitialized'
    BY DEF IInv, TypeOK, IsInitialized
  <2>2. lock' = p => pc'[p] = "open"
    BY RepoAssumption DEF IInv, TypeOK
  <2>3. ~listed[p]
    BY <1>2 DEF IInv, ProcInv, LockInv
  <2>4. UNCHANGED <<active, listed>>
    OBVIOUS
  <2> QED BY <1>2, <2>1, <2>2, <2>3, <2>4 DEF LockInv
<1> QED BY <1>1, <1>3, <1>5, <1>6, OtherSafe DEF IInv, ProcInv

\* OnlyOne.Open hands out one more reference to the repository that is open.
LEMMA OpenAgainStep ==
    ASSUME IInv, NEW p \in Procs, NEW h \in Holders, OpenAgain(p, h)
    PROVE  IInv'
<1> USE DEF OpenAgain, disk
<1> DEFINE i == active[p]
<1>1. i \in 1..Len(repos) /\ repos[i] \in Entry /\ repos[i].proc = p
  <2>1. TypeOK /\ EntryInv(p)
    BY DEF IInv, ProcInv
  <2>2. i \in 0..Len(repos) /\ i # 0 /\ repos[i].proc = p
    BY <2>1 DEF TypeOK, EntryInv
  <2>3. repos \in Seq(Entry)
    BY <2>1, Entries
  <2> HIDE DEF i, OpenAgain
  <2> QED BY SMT, <2>2, <2>3
<1>2. /\ Held(p)' = Held(p) \cup {h} /\ h \notin Held(p)
      /\ IsFiniteSet(Held(p)) /\ Cardinality(Held(p)') = Cardinality(Held(p)) + 1
  <2>1. Held(p)' = Held(p) \cup {h} /\ h \notin Held(p)
    BY DEF IInv, TypeOK, Held
  <2>2. Held(p) \in SUBSET Holders
    BY DEF Held
  <2> QED BY <2>1, <2>2, HeldFinite, FS_AddElement
<1>3. /\ repos[i].refs = Cardinality(Held(p))
      /\ repos[i].refs \in 0..(RefMod - 2)
      /\ (repos[i].refs + 1) % RefMod = repos[i].refs + 1
  <2>1. repos[i].refs = Cardinality(Held(p))
    BY DEF IInv, ProcInv, EntryInv
  <2>2. Held(p)' \in SUBSET Holders
    BY DEF Held
  <2>3. Cardinality(Held(p)') \in 0..(RefMod - 1)
    BY <2>2, HeldFinite
  <2>4. repos[i].refs \in 0..(RefMod - 2)
    BY SMT, <1>1, <1>2, <2>1, <2>3, RepoAssumption DEF Entry
  <2> QED BY <2>1, <2>4, IncSmall
<1> DEFINE e == [repos[i] EXCEPT !.refs = repos[i].refs + 1]
<1>4. e \in Entry /\ e.proc = p /\ e.refs = repos[i].refs + 1 /\ e.st = repos[i].st
  <2>1. repos[i].refs + 1 \in 0..(RefMod - 1)
    BY SMT, <1>3, RepoAssumption
  <2> QED BY SMT, <1>1, <2>1, EntryCounted
<1>5. /\ repos' \in Seq(Entry) /\ Len(repos') = Len(repos) /\ DOMAIN repos' = 1..Len(repos)
      /\ repos'[i] = e
      /\ \A j \in 1..Len(repos) : j # i => repos'[j] = repos[j]
  <2>1. repos' = [repos EXCEPT ![i] = e]
    BY <1>3
  <2> HIDE DEF e, i
  <2> QED BY <1>1, <1>4, <2>1, EntryChange DEF IInv
<1> HIDE DEF e
<1>6. TypeOK'
  BY <1>1, <1>5 DEF IInv, TypeOK, Entry
<1>7. DOMAIN repos = 1..Len(repos)
  BY Entries DEF IInv
<1>8. ASSUME NEW q \in Procs \ {p} PROVE OthersKept(q)
  BY <1>1, <1>5, <1>7, <1>8 DEF IInv, TypeOK, OthersKept, IsInitialized
<1>9. EntryInv(p)'
  BY SMT, <1>1, <1>2, <1>3, <1>4, <1>5 DEF IInv, ProcInv, EntryInv
<1>10. LockInv(p)'
  <2>1. UNCHANGED <<active, lock, pc, listed, api, config, spec, version>> /\ active[p] # 0
    OBVIOUS
  <2> QED BY SMT, <2>1 DEF IInv, ProcInv, LockInv, IsInitialized
<1>11. HandleInv(p)'
  <2>1. handle'[p] = [handle[p] EXCEPT ![h] = i] /\ active' = active /\ again' = again
    BY DEF IInv, TypeOK
  <2>2. HandleInv(p) /\ handle[p] \in [Holders -> 0..Len(repos)]
    BY DEF IInv, TypeOK, ProcInv
  <2>3. \A g \in Holders : handle'[p][g] = IF g = h THEN i ELSE handle[p][g]
    BY <2>1, <2>2
  <2>4. again[p][h] = 0 /\ \A g \in Twice : g \in Holders /\ g # h /\ handle[p][g] = 0
    BY <2>2, RepoAssumption DEF HandleInv
  <2> HIDE DEF OpenAgain
  <2>5. \A g \in Holders : handle'[p][g] # 0 => handle'[p][g] = active'[p] /\ again'[p][g] = 0
    BY <2>1, <2>2, <2>3, <2>4 DEF HandleInv
  <2>6. \A g \in Twice : handle'[p][g] = 0
    BY SMT, <2>3, <2>4
  <2> QED BY <2>5, <2>6 DEF HandleInv
<1>12. AgainInv(p)'
  <2>1. ASSUME NEW g \in Holders, again[p][g] # 0 PROVE repos'[again[p][g]] = repos[again[p][g]]
    <3>1. again[p][g] \in 1..Len(repos) /\ again[p][g] # i
      BY SMT, <2>1, Entries DEF IInv, TypeOK, ProcInv, AgainInv
    <3> QED BY <3>1, <1>5
  <2>2. UNCHANGED <<again, active>>
    OBVIOUS
  <2> QED BY SMT, <2>1, <2>2 DEF IInv, ProcInv, AgainInv
<1> QED BY SMT, <1>6, <1>8, <1>9, <1>10, <1>11, <1>12, OtherSafe DEF IInv, ProcInv

\* The repository opens: its entry is new and its one holder is h.
LEMMA OpenDoneStep ==
    ASSUME IInv, NEW p \in Procs, NEW h \in Holders, OpenDone(p, h)
    PROVE  IInv'
<1> USE DEF OpenDone, Goto, disk
<1> DEFINE n == Len(repos)
           e == [proc |-> p, refs |-> 1, st |-> "open"]
<1>1. n \in Nat /\ DOMAIN repos = 1..n
  BY Entries DEF IInv
<1>2. e \in Entry
  BY SMT, RepoAssumption DEF Entry
<1>3. /\ repos' \in Seq(Entry) /\ Len(repos') = n + 1 /\ DOMAIN repos' = 1..(n + 1)
      /\ repos'[n + 1] = e
      /\ \A j \in 1..n : repos'[j] = repos[j]
  <2>1. repos' = Append(repos, e)
    OBVIOUS
  <2> HIDE DEF e
  <2> QED BY <1>2, <2>1, EntryAdded DEF IInv
<1>4. /\ active[p] = 0 /\ lock = p /\ IsInitialized
      /\ \A g \in Holders : handle[p][g] = 0
  BY SMT DEF IInv, ProcInv, LockInv, HandleInv
<1> HIDE DEF n
<1>5. /\ active'[p] = n + 1 /\ handle'[p][h] = n + 1
      /\ \A g \in Holders \ {h} : handle'[p][g] = 0
  BY <1>4 DEF IInv, TypeOK, n
<1>6. TypeOK'
  <2>1. 0..n \subseteq 0..(n + 1) /\ n + 1 \in 0..(n + 1)
    BY SMT, <1>1
  <2>2. /\ active \in [Procs -> 0..(n + 1)]
        /\ handle \in [Procs -> [Holders -> 0..(n + 1)]]
        /\ again \in [Procs -> [Holders -> 0..(n + 1)]]
    BY <2>1 DEF IInv, TypeOK, n
  <2>3. handle' \in [Procs -> [Holders -> 0..(n + 1)]]
    BY <2>1, <2>2, TableSet DEF n
  <2>4. active' \in [Procs -> 0..(n + 1)] /\ again' \in [Procs -> [Holders -> 0..(n + 1)]]
    BY <2>1, <2>2 DEF n
  <2> QED BY <1>3, <2>3, <2>4 DEF IInv, TypeOK, Entry
<1>7. ASSUME NEW q \in Procs \ {p} PROVE OthersKept(q)
  BY SMT, <1>1, <1>3, <1>7 DEF IInv, TypeOK, OthersKept, IsInitialized
<1>8. EntryInv(p)'
  <2>1. Held(p)' = {h}
    BY SMT, <1>1, <1>5 DEF Held
  <2>2. Cardinality(Held(p)') = 1
    BY <2>1, FS_Singleton
  <2> QED BY SMT, <1>3, <1>5, <2>2 DEF EntryInv
<1>9. LockInv(p)'
  <2>1. pc'[p] # "open" /\ active'[p] # 0
    BY SMT, <1>1, <1>5 DEF IInv, TypeOK
  <2>2. UNCHANGED <<lock, config, spec, version, listed, api>>
    OBVIOUS
  <2>3. ~listed[p]
    BY <1>4 DEF IInv, ProcInv, LockInv
  <2>4. lock = p /\ IsInitialized /\ spec /\ version = "cur"
    BY <1>4 DEF Openable
  <2> QED BY SMT, <2>1, <2>2, <2>3, <2>4 DEF LockInv, IsInitialized
<1>10. HandleInv(p)'
  BY <1>1, <1>5, RepoAssumption DEF HandleInv
<1>11. AgainInv(p)'
  <2>1. ASSUME NEW g \in Holders, again[p][g] # 0
        PROVE  repos'[again[p][g]] = repos[again[p][g]] /\ again[p][g] # n + 1
    BY SMT, <1>1, <1>3, <2>1, References DEF IInv, n
  <2>2. UNCHANGED again
    OBVIOUS
  <2>3. AgainInv(p)
    BY DEF IInv, ProcInv
  <2> HIDE DEF OpenDone, Goto, disk
  <2> QED BY <1>5, <2>1, <2>2, <2>3 DEF AgainInv
<1> QED BY <1>6, <1>7, <1>8, <1>9, <1>10, <1>11, OtherSafe DEF IInv, ProcInv

\* The key store does not open: the datastore stays open without the lock.
LEMMA OpenKeystoreErrorStep ==
    ASSUME IInv, NEW p \in Procs, OpenKeystoreError(p)
    PROVE  IInv'
<1> USE DEF OpenKeystoreError, Goto, disk
<1> DEFINE n == Len(repos)
           e == [proc |-> p, refs |-> 0, st |-> "leaked"]
<1>1. n \in Nat /\ DOMAIN repos = 1..n
  BY Entries DEF IInv
<1>2. e \in Entry
  BY SMT, RepoAssumption DEF Entry
<1>3. /\ repos' \in Seq(Entry) /\ Len(repos') = n + 1 /\ DOMAIN repos' = 1..(n + 1)
      /\ \A j \in 1..n : repos'[j] = repos[j]
  <2>1. repos' = Append(repos, e)
    OBVIOUS
  <2> HIDE DEF e
  <2> QED BY <1>2, <2>1, EntryAdded DEF IInv
<1>4. active[p] = 0 /\ lock = p
  BY DEF IInv, ProcInv, LockInv
<1> HIDE DEF n
<1>5. TypeOK'
  <2>1. /\ active \in [Procs -> 0..(n + 1)]
        /\ handle \in [Procs -> [Holders -> 0..(n + 1)]]
        /\ again \in [Procs -> [Holders -> 0..(n + 1)]]
    BY SMT, <1>1 DEF IInv, TypeOK, n
  <2> QED BY <1>3, <2>1 DEF IInv, TypeOK, Entry
<1>6. ASSUME NEW q \in Procs \ {p} PROVE OthersKept(q)
  BY SMT, <1>1, <1>3, <1>4, <1>6, RepoAssumption DEF IInv, TypeOK, OthersKept, IsInitialized
<1>7. EntryInv(p)' /\ HandleInv(p)'
  BY <1>4 DEF IInv, ProcInv, EntryInv, HandleInv
<1>8. LockInv(p)'
  <2>1. pc'[p] # "open" /\ lock' # p
    BY RepoAssumption DEF IInv, TypeOK
  <2>2. UNCHANGED <<active, listed>> /\ ~listed[p]
    BY <1>4 DEF IInv, ProcInv, LockInv
  <2> QED BY <1>4, <2>1, <2>2 DEF LockInv
<1>9. AgainInv(p)'
  <2>1. ASSUME NEW g \in Holders, again[p][g] # 0
        PROVE  repos'[again[p][g]] = repos[again[p][g]]
    BY <1>1, <1>3, <2>1, References DEF IInv, n
  <2>2. UNCHANGED <<again, active>>
    OBVIOUS
  <2>3. AgainInv(p)
    BY DEF IInv, ProcInv
  <2> HIDE DEF OpenKeystoreError, Goto, disk
  <2> QED BY <2>1, <2>2, <2>3 DEF AgainInv
<1> QED BY <1>5, <1>6, <1>7, <1>8, <1>9, OtherSafe DEF IInv, ProcInv

-----------------------------------------------------------------------------
(* Close.                                                                  *)

\* What a Close finds: the open repository with the count of its holders, or,
\* the second time, an entry at zero.
LEMMA ClosingEntry ==
    ASSUME IInv, NEW p \in Procs, NEW h \in Holders, Closing(p, h) # 0
    PROVE  /\ Closing(p, h) \in 1..Len(repos)
           /\ repos[Closing(p, h)] \in Entry /\ repos[Closing(p, h)].proc = p
           /\ handle[p][h] # 0 =>
                /\ Closing(p, h) = active[p] /\ h \in Held(p)
                /\ repos[active[p]].refs = Cardinality(Held(p))
                /\ Cardinality(Held(p)) > 0
           /\ handle[p][h] = 0 =>
                /\ Closing(p, h) = again[p][h] /\ again[p][h] # active[p]
                /\ repos[again[p][h]].refs = 0
<1>1. Closing(p, h) \in 1..Len(repos)
  BY SMT, Entries DEF IInv, TypeOK, Closing
<1>2. repos[Closing(p, h)] \in Entry
  BY <1>1, Entries DEF IInv
<1>3. CASE handle[p][h] # 0
  <2>1. /\ Closing(p, h) = active[p] /\ h \in Held(p)
        /\ repos[active[p]].refs = Cardinality(Held(p)) /\ repos[active[p]].proc = p
    BY <1>3 DEF IInv, ProcInv, HandleInv, EntryInv, Closing, Held
  <2>2. IsFiniteSet(Held(p)) /\ Cardinality(Held(p)) \in Nat
    BY SMT, HeldFinite DEF Held
  <2>3. Cardinality(Held(p)) # 0
    BY <2>1, <2>2, FS_EmptySet
  <2> QED BY SMT, <1>1, <1>2, <1>3, <2>1, <2>2, <2>3
<1>4. CASE handle[p][h] = 0
  BY SMT, <1>1, <1>2, <1>4 DEF IInv, ProcInv, AgainInv, Closing
<1> QED BY <1>3, <1>4

\* A Close that finds one reference is the last of the open repository, and h its one holder.
LEMMA LastHolder ==
    ASSUME IInv, NEW p \in Procs, NEW h \in Holders,
           Closing(p, h) # 0, Dec(repos[Closing(p, h)].refs) = 0
    PROVE  /\ handle[p][h] # 0 /\ Closing(p, h) = active[p] /\ lock = p
           /\ \A g \in Holders \ {h} : handle[p][g] = 0
<1> DEFINE i == Closing(p, h)
<1>1. repos[i].refs \in 0..(RefMod - 1)
  BY ClosingEntry DEF Entry
<1>2. repos[i].refs = 1
  BY SMT, <1>1, DecZero, DecPositive, RepoAssumption
<1>3. handle[p][h] # 0 /\ i = active[p] /\ h \in Held(p) /\ Cardinality(Held(p)) = 1
  BY SMT, <1>2, ClosingEntry
<1>4. Held(p) = {h}
  <2>1. IsFiniteSet(Held(p))
    BY HeldFinite DEF Held
  <2> QED BY SMT, <1>3, <2>1, FS_Singleton
<1>5. \A g \in Holders \ {h} : handle[p][g] = 0
  BY <1>4 DEF IInv, ProcInv, HandleInv, Held
<1>6. lock = p
  BY <1>3 DEF IInv, ProcInv, LockInv
<1> QED BY <1>3, <1>5, <1>6

\* ref.Close while others hold the repository open, or for the second time.
LEMMA CloseSharedStep ==
    ASSUME IInv, NEW p \in Procs, NEW h \in Holders, CloseShared(p, h)
    PROVE  IInv'
<1> DEFINE i == Closing(p, h)
           m == Dec(repos[i].refs)
           e == [repos[i] EXCEPT !.refs = m]
<1>1. /\ pc[p] = "idle" /\ i # 0 /\ m > 0 /\ Return(p, h)
      /\ repos' = [repos EXCEPT ![i] = e]
      /\ UNCHANGED <<config, spec, version, lock, api, pc, active, listed, crashes>>
  BY DEF CloseShared, disk
<1>2. /\ i \in 1..Len(repos) /\ repos[i] \in Entry /\ repos[i].proc = p
      /\ DOMAIN repos = 1..Len(repos) /\ Len(repos) \in Nat
  BY <1>1, ClosingEntry, Entries DEF IInv
<1>3. m \in 0..(RefMod - 1)
  BY <1>2, DecType DEF Entry
<1>4. e \in Entry /\ e.proc = p /\ e.refs = m /\ e.st = repos[i].st
  <2> HIDE DEF m, i
  <2> QED BY <1>2, <1>3, EntryCounted
<1> HIDE DEF e
<1>5. /\ repos' \in Seq(Entry) /\ Len(repos') = Len(repos) /\ DOMAIN repos' = 1..Len(repos)
      /\ repos'[i] = e
      /\ \A j \in 1..Len(repos) : j # i => repos'[j] = repos[j]
  <2> HIDE DEF i
  <2> QED BY <1>1, <1>2, <1>4, EntryChange DEF IInv
<1>6. TypeOK'
  <2>1. /\ handle' \in [Procs -> [Holders -> 0..Len(repos)]]
        /\ again' \in [Procs -> [Holders -> 0..Len(repos)]]
    <3>1. 0 \in 0..Len(repos) /\ handle[p][h] \in 0..Len(repos)
      BY SMT, <1>2 DEF IInv, TypeOK
    <3> QED BY <1>1, <3>1, TableSet DEF IInv, TypeOK, Return
  <2> QED BY <1>1, <1>5, <2>1 DEF IInv, TypeOK, Entry
<1>7. ASSUME NEW q \in Procs \ {p} PROVE OthersKept(q)
  BY <1>1, <1>2, <1>5, <1>7 DEF IInv, TypeOK, OthersKept, IsInitialized, Return
<1>8. LockInv(p)'
  <2>1. \A j \in 1..Len(repos) : repos'[j].proc = repos[j].proc /\ repos'[j].st = repos[j].st
    BY <1>2, <1>4, <1>5
  <2> QED BY SMT, <1>1, <1>2, <1>5, <2>1 DEF IInv, ProcInv, LockInv, IsInitialized
<1>9. CASE handle[p][h] # 0
  <2>1. /\ i = active[p] /\ h \in Held(p) /\ IsFiniteSet(Held(p))
        /\ repos[i].refs = Cardinality(Held(p)) /\ Cardinality(Held(p)) \in 1..(RefMod - 1)
    BY SMT, <1>1, <1>9, ClosingEntry, HeldFinite, RepoAssumption DEF Held
  <2>2. m = Cardinality(Held(p)) - 1
    BY <2>1, DecPositive
  <2>3. h \notin Twice
    <3>1. SUFFICES ASSUME h \in Twice PROVE FALSE
      OBVIOUS
    <3>2. Held(p) = {h}
      BY SMT, <1>9, <2>1, <3>1 DEF IInv, ProcInv, HandleInv, Held
    <3>3. Cardinality(Held(p)) = 1
      BY <3>2, FS_Singleton
    <3> QED BY SMT, <1>1, <2>2, <3>3
  <2>4. /\ handle'[p][h] = 0 /\ again'[p] = again[p]
        /\ \A g \in Holders \ {h} : handle'[p][g] = handle[p][g]
    <3>1. again[p][h] = 0
      BY <1>9 DEF IInv, ProcInv, HandleInv
    <3> QED BY <1>1, <2>3, <3>1 DEF IInv, TypeOK, Return
  <2>5. Held(p)' = Held(p) \ {h}
    BY <1>1, <1>9, <2>1, <2>4 DEF Held, IInv, ProcInv, HandleInv
  <2>6. Cardinality(Held(p)') = m
    BY <2>1, <2>2, <2>5, FS_RemoveElement
  <2>7. EntryInv(p)'
    BY SMT, <1>1, <1>4, <1>5, <2>1, <2>6 DEF IInv, ProcInv, EntryInv
  <2>8. HandleInv(p)'
    BY SMT, <1>1, <2>4, RepoAssumption DEF IInv, ProcInv, HandleInv
  <2>9. AgainInv(p)'
    <3>1. ASSUME NEW g \in Holders, again[p][g] # 0 PROVE repos'[again[p][g]] = repos[again[p][g]]
      <4>1. again[p][g] \in 1..Len(repos) /\ again[p][g] # i
        BY SMT, <2>1, <3>1, References DEF IInv, ProcInv, AgainInv
      <4> QED BY <1>5, <4>1
    <3> QED BY SMT, <1>1, <2>4, <3>1 DEF IInv, ProcInv, AgainInv
  <2> QED BY <1>6, <1>7, <1>8, <2>7, <2>8, <2>9, OtherSafe DEF IInv, ProcInv
<1>10. CASE handle[p][h] = 0
  <2>1. i = again[p][h] /\ i # active[p]
    BY SMT, <1>1, <1>10, ClosingEntry
  <2>2. /\ handle'[p] = handle[p] /\ again'[p][h] = 0
        /\ \A g \in Holders \ {h} : again'[p][g] = again[p][g]
    BY <1>1, <1>10 DEF IInv, TypeOK, Return
  <2>3. Held(p)' = Held(p)
    BY <1>1, <2>2 DEF Held
  <2>4. active[p] # 0 => repos'[active[p]] = repos[active[p]]
    BY <1>5, <2>1, References DEF IInv
  <2>5. EntryInv(p)'
    BY SMT, <1>1, <2>3, <2>4 DEF IInv, ProcInv, EntryInv
  <2>6. HandleInv(p)'
    BY SMT, <1>1, <2>2 DEF IInv, ProcInv, HandleInv
  <2>7. AgainInv(p)'
    <3>1. ASSUME NEW g \in Holders \ {h}, again[p][g] # 0
          PROVE  repos'[again[p][g]] = repos[again[p][g]]
      <4>1. again[p][g] \in 1..Len(repos) /\ again[p][g] # i
        BY SMT, <1>1, <2>1, <3>1, References DEF IInv, ProcInv, AgainInv
      <4> QED BY <1>5, <4>1
    <3> QED BY SMT, <1>1, <2>2, <3>1 DEF IInv, ProcInv, AgainInv
  <2> QED BY <1>6, <1>7, <1>8, <2>5, <2>6, <2>7, OtherSafe DEF IInv, ProcInv
<1> QED BY <1>9, <1>10

\* ref.Close of the last reference, whether the datastore closes or not.
LEMMA CloseLastStep ==
    ASSUME IInv, NEW p \in Procs, NEW h \in Holders, CloseLast(p, h) \/ CloseLastError(p, h)
    PROVE  IInv'
<1> DEFINE i == Closing(p, h)
<1>1. PICK s \in {"closed", "unclosed"} :
        /\ pc[p] = "idle" /\ i # 0 /\ Dec(repos[i].refs) = 0 /\ Return(p, h)
        /\ repos' = [repos EXCEPT ![i] = [repos[i] EXCEPT !.refs = 0, !.st = s]]
        /\ IF s = "closed" THEN lock' = None ELSE lock' = lock
        /\ api' = None
        /\ listed' = [listed EXCEPT ![p] = FALSE] /\ active' = [active EXCEPT ![p] = 0]
        /\ UNCHANGED <<config, spec, version, pc, crashes>>
  <2>1. CASE CloseLast(p, h)
    BY <2>1 DEF CloseLast, disk
  <2>2. CASE CloseLastError(p, h)
    BY <2>2 DEF CloseLastError, disk
  <2> QED BY <2>1, <2>2
<1> DEFINE e == [repos[i] EXCEPT !.refs = 0, !.st = s]
<1>2. /\ i \in 1..Len(repos) /\ repos[i] \in Entry /\ repos[i].proc = p
      /\ DOMAIN repos = 1..Len(repos) /\ Len(repos) \in Nat
  BY <1>1, ClosingEntry, Entries DEF IInv
<1>3. /\ handle[p][h] # 0 /\ i = active[p] /\ lock = p
      /\ \A g \in Holders \ {h} : handle[p][g] = 0
  BY <1>1, LastHolder
<1>4. e \in Entry /\ e.proc = p /\ e.refs = 0 /\ e.st = s
  <2> HIDE DEF i
  <2> QED BY <1>2, EntryEnded
<1>5. /\ repos' \in Seq(Entry) /\ Len(repos') = Len(repos) /\ DOMAIN repos' = 1..Len(repos)
      /\ repos'[i] = e
      /\ \A j \in 1..Len(repos) : j # i => repos'[j] = repos[j]
  <2>1. repos' = [repos EXCEPT ![i] = e]
    BY <1>1
  <2> HIDE DEF i, e
  <2> QED BY <1>2, <1>4, <2>1, EntryChange DEF IInv
<1> HIDE DEF e, i
<1>6. TypeOK'
  <2>1. /\ handle' \in [Procs -> [Holders -> 0..Len(repos)]]
        /\ again' \in [Procs -> [Holders -> 0..Len(repos)]]
        /\ active' \in [Procs -> 0..Len(repos)]
        /\ listed' \in [Procs -> BOOLEAN]
    <3>1. 0 \in 0..Len(repos) /\ handle[p][h] \in 0..Len(repos)
      BY SMT, <1>2 DEF IInv, TypeOK
    <3>2. /\ handle' \in [Procs -> [Holders -> 0..Len(repos)]]
          /\ again' \in [Procs -> [Holders -> 0..Len(repos)]]
      BY SMT, <1>1, <3>1, TableSet DEF IInv, TypeOK, Return
    <3> QED BY <1>1, <3>1, <3>2 DEF IInv, TypeOK
  <2>2. lock' \in Procs \cup {None} /\ api' \in Procs \cup {None}
    BY <1>1 DEF IInv, TypeOK
  <2> QED BY <1>1, <1>5, <2>1, <2>2 DEF IInv, TypeOK, Entry
<1>7. ASSUME NEW q \in Procs \ {p} PROVE OthersKept(q)
  <2>1. ~listed[q]
    BY <1>3, <1>7 DEF IInv, ProcInv, LockInv
  <2>2. lock # q /\ lock' # q
    BY <1>1, <1>3, <1>7, RepoAssumption
  <2> QED BY <1>1, <1>2, <1>5, <1>7, <2>1, <2>2
          DEF IInv, TypeOK, OthersKept, IsInitialized, Return
<1>8. active'[p] = 0 /\ ~listed'[p] /\ pc'[p] = "idle"
  BY <1>1 DEF IInv, TypeOK
<1>9. EntryInv(p)'
  BY <1>8 DEF EntryInv
<1>10. LockInv(p)'
  <2>1. lock' = p => repos'[i].st = "unclosed" /\ repos'[i].proc = p
    <3>1. lock' = p => s # "closed"
      BY <1>1, RepoAssumption
    <3> QED BY <1>4, <1>5, <3>1
  <2> QED BY <1>2, <1>5, <1>8, <2>1 DEF LockInv
<1>11. \A g \in Holders : handle'[p][g] = 0
  BY <1>1, <1>3 DEF IInv, TypeOK, Return
<1>12. HandleInv(p)'
  BY <1>11, RepoAssumption DEF HandleInv
<1>13. AgainInv(p)'
  <2>1. /\ again'[p][h] \in {0, i}
        /\ \A g \in Holders \ {h} : again'[p][g] = again[p][g]
    BY <1>1, <1>3 DEF IInv, TypeOK, Return, ProcInv, HandleInv
  <2>2. ASSUME NEW g \in Holders, again[p][g] # 0
        PROVE  again[p][g] # i /\ repos'[again[p][g]] = repos[again[p][g]]
    <3>1. again[p][g] \in 1..Len(repos) /\ again[p][g] # i
      BY <1>3, <2>2, References DEF IInv, ProcInv, AgainInv
    <3> QED BY <1>5, <3>1
  <2> QED BY SMT, <1>2, <1>4, <1>5, <1>8, <2>1, <2>2 DEF IInv, ProcInv, AgainInv
<1> QED BY <1>6, <1>7, <1>9, <1>10, <1>12, <1>13, OtherSafe DEF IInv, ProcInv

-----------------------------------------------------------------------------
(* The death of a process.                                                 *)

LEMMA CrashStep ==
    ASSUME IInv, NEW p \in Procs, Crash(p)
    PROVE  IInv'
<1> DEFINE n == Len(repos)
           New(j) == IF repos[j].proc = p THEN [repos[j] EXCEPT !.refs = 0, !.st = "closed"] ELSE repos[j]
<1>0. /\ repos' = [j \in DOMAIN repos |-> New(j)]
      /\ lock' = IF lock = p THEN None ELSE lock
      /\ pc' = [pc EXCEPT ![p] = "idle"] /\ active' = [active EXCEPT ![p] = 0]
      /\ handle' = [handle EXCEPT ![p] = [h \in Holders |-> 0]]
      /\ again' = [again EXCEPT ![p] = [h \in Holders |-> 0]]
      /\ listed' = [listed EXCEPT ![p] = FALSE]
      /\ UNCHANGED <<config, spec, version, api>>
  BY DEF Crash, Goto, disk
<1>1. n \in Nat /\ DOMAIN repos = 1..n /\ \A j \in 1..n : repos[j] \in Entry
  BY Entries DEF IInv
<1>2. \A j \in 1..n : New(j) \in Entry
  BY <1>1, EntryEnded
<1>3. /\ repos' \in Seq(Entry) /\ Len(repos') = n /\ DOMAIN repos' = 1..n
      /\ \A j \in 1..n : repos[j].proc # p => repos'[j] = repos[j]
  <2>1. repos' = [j \in 1..n |-> New(j)]
    BY <1>0, <1>1
  <2>2. repos' \in [1..n -> Entry] /\ \A j \in 1..n : repos[j].proc # p => repos'[j] = repos[j]
    BY <1>2, <2>1
  <2> HIDE DEF n, New
  <2>3. repos' \in Seq(Entry)
    BY <1>1, <2>2, SeqDef
  <2>4. Len(repos') \in Nat /\ 1..Len(repos') = 1..n
    BY <2>2, <2>3, LenProperties
  <2>5. \A k, m \in Nat : 1..k = 1..m => k = m
    BY IntervalsDiffer
  <2> QED BY <1>1, <2>2, <2>3, <2>4, <2>5
<1> HIDE DEF n, New
<1>4. TypeOK'
  <2>1. /\ handle' \in [Procs -> [Holders -> 0..n]]
        /\ again' \in [Procs -> [Holders -> 0..n]]
        /\ active' \in [Procs -> 0..n]
    <3>1. 0 \in 0..n
      BY SMT, <1>1
    <3> QED BY <1>0, <3>1 DEF IInv, TypeOK, n
  <2> QED BY <1>0, <1>3, <2>1 DEF IInv, TypeOK, Entry
<1>5. ASSUME NEW q \in Procs \ {p} PROVE OthersKept(q)
  BY <1>0, <1>1, <1>3, <1>5, RepoAssumption DEF IInv, TypeOK, OthersKept, IsInitialized
<1>6. /\ active'[p] = 0 /\ ~listed'[p] /\ pc'[p] = "idle" /\ lock' # p
      /\ \A g \in Holders : handle'[p][g] = 0 /\ again'[p][g] = 0
  BY <1>0, RepoAssumption DEF IInv, TypeOK
<1>7. EntryInv(p)' /\ LockInv(p)'
  BY <1>6 DEF EntryInv, LockInv
<1>8. HandleInv(p)' /\ AgainInv(p)'
  BY <1>6, RepoAssumption DEF HandleInv, AgainInv
<1> QED BY <1>4, <1>5, <1>7, <1>8, OtherSafe DEF IInv, ProcInv

-----------------------------------------------------------------------------
(* The theorems.                                                           *)

\* The invariant holds at the start.
LEMMA InitIInv == Init => IInv
<1> SUFFICES ASSUME Init PROVE IInv
  OBVIOUS
<1>1. repos \in Seq(Entry) /\ Len(repos) = 0
  BY EmptySeq DEF Init
<1>2. TypeOK
  BY SMT, <1>1 DEF Init, TypeOK, Entry
<1>3. ASSUME NEW p \in Procs PROVE ProcInv(p)
  BY <1>3, RepoAssumption DEF Init, ProcInv, EntryInv, LockInv, HandleInv, AgainInv
<1> QED BY <1>2, <1>3 DEF IInv

\* Every step keeps the invariant.
LEMMA NextIInv == IInv /\ [Next]_vars => IInv'
<1> SUFFICES ASSUME IInv, [Next]_vars PROVE IInv'
  OBVIOUS
<1>1. CASE UNCHANGED vars
  <2>1. TypeOK'
    BY <1>1 DEF IInv, vars, TypeOK
  <2>2. ASSUME NEW p \in Procs PROVE ProcInv(p)'
    <3>1. Held(p)' = Held(p)
      BY <1>1 DEF vars, Held
    <3>2. EntryInv(p)' /\ LockInv(p)'
      BY <1>1, <3>1 DEF IInv, vars, ProcInv, EntryInv, LockInv, IsInitialized
    <3>3. HandleInv(p)' /\ AgainInv(p)'
      BY SMT, <1>1 DEF IInv, vars, ProcInv, HandleInv, AgainInv
    <3> QED BY <3>2, <3>3 DEF ProcInv
  <2> QED BY <2>1, <2>2 DEF IInv
<1>2. CASE Next
  <2>1. PICK p \in Procs :
          \/ InitCheck(p) \/ InitConfig(p) \/ InitSpec(p) \/ InitVersion(p) \/ InitError(p)
          \/ OpenLock(p) \/ OpenError(p) \/ OpenKeystoreError(p)
          \/ Crash(p)
          \/ \E h \in Holders :
                \/ OpenAgain(p, h) \/ OpenDone(p, h) \/ SetAPIAddr(p, h)
                \/ CloseShared(p, h) \/ CloseLast(p, h) \/ CloseLastError(p, h)
    BY <1>2 DEF Next
  <2> QED BY <2>1, InitStep, OpenLockStep, OpenKeystoreErrorStep, CrashStep, OpenAgainStep,
             OpenDoneStep, SetAPIAddrStep, CloseSharedStep, CloseLastStep
<1> QED BY <1>1, <1>2

\* The inductive invariant, for any number of processes and holders.
THEOREM AlwaysIInv == Spec => []IInv
BY InitIInv, NextIInv, PTL DEF Spec

\* What a process uses is an open repository with config, spec and version, its address stays in
\* the api file while it serves, and its lock file goes with the repository (OnlyOne, fsrepo).
THEOREM RepoInUseIsWhole == Spec => []InUseMeansWhole
<1>1. IInv => InUseMeansWhole
  <2> SUFFICES ASSUME IInv PROVE InUseMeansWhole
    OBVIOUS
  <2>1. NoUseAfterClose
    BY SMT DEF IInv, ProcInv, HandleInv, EntryInv, NoUseAfterClose
  <2>2. NeverHalfInitialised /\ AddressStays /\ LockReleased
    BY DEF IInv, ProcInv, LockInv, NeverHalfInitialised, AddressStays, LockReleased
  <2> QED BY <2>1, <2>2 DEF InUseMeansWhole
<1> QED BY <1>1, AlwaysIInv, PTL

\* A step takes, enters, leaves or drops the directory for one process, or none of these.
LEMMA OwnerStep == IInv /\ [Next]_vars => [Owner!Next]_(Owner!vars)
<1> SUFFICES ASSUME IInv, [Next]_vars PROVE [Owner!Next]_(Owner!vars)
  OBVIOUS
<1> USE DEF Owner!vars
<1>1. CASE lock' = lock /\ active' = active
  BY <1>1
<1>2. ASSUME NEW p \in Procs, OpenLock(p) PROVE Owner!Take(p)
  BY <1>2 DEF OpenLock, Owner!Take
<1>3. ASSUME NEW p \in Procs, OpenError(p) \/ OpenKeystoreError(p) PROVE Owner!Drop(p)
  <2>1. lock = p /\ active[p] = 0 /\ lock' = None /\ active' = active
    BY <1>3 DEF OpenError, OpenKeystoreError, IInv, ProcInv, LockInv
  <2> QED BY <2>1 DEF Owner!Drop
<1>4. ASSUME NEW p \in Procs, NEW h \in Holders, OpenDone(p, h) PROVE Owner!Enter(p)
  <2>1. /\ lock = p /\ active[p] = 0 /\ lock' = lock
        /\ active' = [active EXCEPT ![p] = Len(repos) + 1]
        /\ Len(repos) + 1 # 0 /\ active \in [Procs -> 0..Len(repos)]
    BY SMT, <1>4, Entries DEF OpenDone, IInv, TypeOK, ProcInv, LockInv
  <2> QED BY <2>1 DEF Owner!Enter
<1>5. ASSUME NEW p \in Procs, NEW h \in Holders, CloseLast(p, h) \/ CloseLastError(p, h)
      PROVE  Owner!Drop(p) \/ Owner!Leave(p)
  <2>1. /\ lock = p /\ active[p] # 0
        /\ active' = [active EXCEPT ![p] = 0] /\ active \in [Procs -> 0..Len(repos)]
        /\ lock' = None \/ lock' = lock
    BY <1>5, LastHolder DEF CloseLast, CloseLastError, IInv, TypeOK
  <2> QED BY <2>1 DEF Owner!Drop, Owner!Leave
<1>6. ASSUME NEW p \in Procs, Crash(p) PROVE Owner!Drop(p) \/ UNCHANGED Owner!vars
  <2>1. /\ active' = [active EXCEPT ![p] = 0] /\ active \in [Procs -> 0..Len(repos)]
        /\ lock' = IF lock = p THEN None ELSE lock
        /\ active[p] # 0 => lock = p
    BY <1>6 DEF Crash, IInv, TypeOK, ProcInv, LockInv
  <2>2. CASE lock = p
    BY <2>1, <2>2 DEF Owner!Drop
  <2>3. CASE lock # p
    BY <2>1, <2>3
  <2> QED BY <2>2, <2>3
<1>7. CASE UNCHANGED vars
  BY <1>1, <1>7 DEF vars
<1>8. CASE Next
  <2>1. ASSUME NEW p \in Procs,
               InitCheck(p) \/ InitConfig(p) \/ InitSpec(p) \/ InitVersion(p) \/ InitError(p)
        PROVE  lock' = lock /\ active' = active
    BY <2>1 DEF InitCheck, InitConfig, InitSpec, InitVersion, InitError
  <2>2. ASSUME NEW p \in Procs, NEW h \in Holders,
               OpenAgain(p, h) \/ SetAPIAddr(p, h) \/ CloseShared(p, h)
        PROVE  lock' = lock /\ active' = active
    BY <2>2 DEF OpenAgain, SetAPIAddr, CloseShared
  <2> QED BY SMT, <1>1, <1>2, <1>3, <1>4, <1>5, <1>6, <1>8, <2>1, <2>2 DEF Next, Owner!Next
<1> QED BY <1>7, <1>8

\* The repository implements RepoOwner: one process at a time owns the directory, and only the
\* owner has it open, through crashes and failed closes (lockfile, OnlyOne).
THEOREM RepoHasOneOwner == Spec => OneOwner
<1>1. Init => Owner!Init
  BY DEF Init, Owner!Init
<1> QED BY <1>1, OwnerStep, AlwaysIInv, PTL DEF Spec, OneOwner, Owner!Spec

\* At most one process has the repository open, and it owns the directory (RepoOwner's promise,
\* which the repository inherits).
THEOREM OneUser == Spec => []Owner!Exclusive
<1> DEFINE Inv == {p \in Procs : active[p] # 0} \subseteq {lock} \cap Procs
<1>1. Owner!Init => Inv
  BY DEF Owner!Init
<1>2. Inv /\ [Owner!Next]_(Owner!vars) => Inv'
  BY RepoAssumption DEF Owner!Next, Owner!vars, Owner!Take, Owner!Enter, Owner!Leave, Owner!Drop
<1>3. Inv => Owner!Exclusive
  BY DEF Owner!Exclusive
<1> HIDE DEF Inv
<1> QED BY <1>1, <1>2, <1>3, RepoHasOneOwner, PTL DEF OneOwner, Owner!Spec
=============================================================================
