-------------------------------- MODULE Repo --------------------------------
(***************************************************************************)
(* The repository directory shared by the processes of a machine           *)
(* (repo/fsrepo/fsrepo.go) and the table of open repositories inside one   *)
(* process (repo/onlyone.go).  A process initialises the directory in      *)
(* three writes, opens it under the lock file repo.lock, hands references  *)
(* to the node and to the commands it runs, publishes its API address and  *)
(* closes the repository with the last reference.  A process may die       *)
(* between any two steps; the kernel then releases its file lock.          *)
(*                                                                         *)
(* packageLock and OnlyOne.mu are mutexes of one process: Open, Close and  *)
(* Init of one process never overlap (mutex[p]), those of two may.         *)
(***************************************************************************)
EXTENDS Integers, Sequences, FiniteSets

CONSTANTS Procs,     \* operating system processes
          Holders,   \* the users of the repository inside a process
          Twice,     \* holders that call Close twice and share with nobody (the daemon)
          None,
          RefMod,    \* refs is a uint32: arithmetic modulo RefMod
          MaxRepos,  \* bound: repositories opened in all
          MaxCrash   \* bound: processes killed

\* No process is None, and fewer holders than a uint32 can count share a repository.
ASSUME RepoAssumption ==
    /\ None \notin Procs
    /\ IsFiniteSet(Holders) /\ Twice \subseteq Holders
    /\ RefMod \in Nat /\ RefMod > 1 /\ Cardinality(Holders) < RefMod

VARIABLES config,    \* who wrote the config file, None when there is none
          spec,      \* datastore_spec exists
          version,   \* the version file: None, "old" or "cur"
          lock,      \* the process that holds repo.lock
          api,       \* the process whose address the api file names
          pc,        \* pc[p]: where p is inside Init or Open
          active,    \* active[p]: OnlyOne's entry, an index of repos or 0
          repos,     \* every ref made by OnlyOne.Open and its FSRepo
          handle,    \* handle[p][h]: what Open returned to h and h has not closed
          again,     \* again[p][h]: closed once, about to be closed once more
          listed,    \* listed[p]: p published its address and has not closed
          crashes

vars == <<config, spec, version, lock, api, pc, active, repos, handle, again, listed, crashes>>
disk == <<config, spec, version>>

Init ==
    /\ config \in {None, "user"}
    /\ spec = (config # None)
    /\ version \in IF config = None THEN {None} ELSE {"old", "cur"}
    /\ lock = None /\ api = None
    /\ pc = [p \in Procs |-> "idle"]
    /\ active = [p \in Procs |-> 0]
    /\ repos = <<>>
    /\ handle = [p \in Procs |-> [h \in Holders |-> 0]]
    /\ again = [p \in Procs |-> [h \in Holders |-> 0]]
    /\ listed = [p \in Procs |-> FALSE]
    /\ crashes = 0

Goto(p, l) == pc' = [pc EXCEPT ![p] = l]

\* isInitializedUnsynced: the config file alone decides.
IsInitialized == config # None

-----------------------------------------------------------------------------
(* Init: the two checks of the config file, then its three writes.         *)

InitCheck(p) ==
    /\ pc[p] = "idle"
    /\ ~IsInitialized
    /\ Goto(p, "config")
    /\ UNCHANGED <<disk, lock, api, active, repos, handle, again, listed, crashes>>

InitConfig(p) ==
    /\ pc[p] = "config"
    /\ config' = p
    /\ Goto(p, "spec")
    /\ UNCHANGED <<spec, version, lock, api, active, repos, handle, again, listed, crashes>>

InitSpec(p) ==
    /\ pc[p] = "spec"
    /\ spec' = TRUE
    /\ Goto(p, "version")
    /\ UNCHANGED <<config, version, lock, api, active, repos, handle, again, listed, crashes>>

InitVersion(p) ==
    /\ pc[p] = "version"
    /\ version' = "cur"
    /\ Goto(p, "idle")
    /\ UNCHANGED <<config, spec, lock, api, active, repos, handle, again, listed, crashes>>

\* A write of Init fails: Init returns the error, and what it wrote stays.
InitError(p) ==
    /\ pc[p] \in {"config", "spec", "version"}
    /\ Goto(p, "idle")
    /\ UNCHANGED <<disk, lock, api, active, repos, handle, again, listed, crashes>>

-----------------------------------------------------------------------------
(* Open.                                                                   *)

\* OnlyOne.Open of a repository that is already open in this process.  Nobody
\* shares it with the daemon, which hands its own reference to the node.
OpenAgain(p, h) ==
    /\ pc[p] = "idle" /\ active[p] # 0 /\ handle[p][h] = 0 /\ again[p][h] = 0
    /\ \A g \in Twice : g # h /\ handle[p][g] # active[p]
    /\ repos' = [repos EXCEPT ![active[p]].refs = (@ + 1) % RefMod]
    /\ handle' = [handle EXCEPT ![p][h] = active[p]]
    /\ UNCHANGED <<disk, lock, api, pc, active, again, listed, crashes>>

OpenLockTaken(p) ==   \* mutant: a lock file that is there is taken over
    /\ pc[p] = "idle" /\ active[p] = 0
    /\ IsInitialized
    /\ Len(repos) < MaxRepos
    /\ lock' = p
    /\ Goto(p, "open")
    /\ UNCHANGED <<disk, api, active, repos, handle, again, listed, crashes>>

\* open: checkInitialized, then the lock file.  Lock fails when any process
\* holds it, this one included.
OpenLock(p) ==
    /\ pc[p] = "idle" /\ active[p] = 0
    /\ IsInitialized
    /\ lock = None
    /\ Len(repos) < MaxRepos
    /\ lock' = p
    /\ Goto(p, "open")
    /\ UNCHANGED <<disk, api, active, repos, handle, again, listed, crashes>>

OpenableNoVersionCheck == spec   \* mutant: a missing or old version is let through

\* What open reads under the lock: the version, the config, the datastore spec.
Openable == version = "cur" /\ spec

\* All parts opened: the lock is kept and OnlyOne remembers the repository.
OpenDone(p, h) ==
    /\ pc[p] = "open" /\ handle[p][h] = 0 /\ again[p][h] = 0
    /\ Openable
    /\ repos' = Append(repos, [proc |-> p, refs |-> 1, st |-> "open"])
    /\ active' = [active EXCEPT ![p] = Len(repos) + 1]
    /\ handle' = [handle EXCEPT ![p][h] = Len(repos) + 1]
    /\ Goto(p, "idle")
    /\ UNCHANGED <<disk, lock, api, again, listed, crashes>>

OpenErrorLocked(p) ==   \* mutant: an early return without the unlock
    /\ pc[p] = "open"
    /\ Goto(p, "idle")
    /\ UNCHANGED <<disk, lock, api, active, repos, handle, again, listed, crashes>>

\* The version is missing, too old or too new, the directory is not writable,
\* the config does not parse or does not match the spec, or the datastore does
\* not open: the deferred function unlocks.
OpenError(p) ==
    /\ pc[p] = "open"
    /\ lock' = None
    /\ Goto(p, "idle")
    /\ UNCHANGED <<disk, api, active, repos, handle, again, listed, crashes>>

\* openKeystore fails after the datastore was opened: the lock is released and
\* the datastore is left open.
OpenKeystoreError(p) ==
    /\ pc[p] = "open"
    /\ Openable
    /\ repos' = Append(repos, [proc |-> p, refs |-> 0, st |-> "leaked"])
    /\ lock' = None
    /\ Goto(p, "idle")
    /\ UNCHANGED <<disk, api, active, handle, again, listed, crashes>>

-----------------------------------------------------------------------------
(* Use and Close.                                                          *)

SetAPIAddrEarly(p, h) ==   \* mutant: the address is published before the repository is open
    /\ api' = p
    /\ listed' = [listed EXCEPT ![p] = TRUE]
    /\ UNCHANGED <<disk, lock, pc, active, repos, handle, again, crashes>>

\* SetAPIAddr: a temporary file renamed over the api file.
SetAPIAddr(p, h) ==
    /\ handle[p][h] # 0
    /\ api' = p
    /\ listed' = [listed EXCEPT ![p] = TRUE]
    /\ UNCHANGED <<disk, lock, pc, active, repos, handle, again, crashes>>

\* The reference h closes: the one it holds, or, for a holder that closes
\* twice, the one it closed before.
Closing(p, h) == IF handle[p][h] # 0 THEN handle[p][h] ELSE again[p][h]

Dec(n) == (n - 1) % RefMod

\* h's call of Close returns; the daemon keeps the reference for a second one.
Return(p, h) ==
    /\ again' = [again EXCEPT ![p][h] = IF handle[p][h] # 0 /\ h \in Twice THEN handle[p][h] ELSE 0]
    /\ handle' = [handle EXCEPT ![p][h] = 0]

\* mutant: every Close closes the repository, whoever else holds it.
CloseSharedEagerly(p, h) ==
    LET i == Closing(p, h) IN
    /\ pc[p] = "idle" /\ i # 0 /\ Dec(repos[i].refs) > 0
    /\ repos' = [repos EXCEPT ![i].refs = Dec(@), ![i].st = "closed"]
    /\ Return(p, h)
    /\ UNCHANGED <<disk, lock, api, pc, active, listed, crashes>>

\* ref.Close when "others are holding it open".
CloseShared(p, h) ==
    LET i == Closing(p, h) IN
    /\ pc[p] = "idle" /\ i # 0
    /\ Dec(repos[i].refs) > 0
    /\ repos' = [repos EXCEPT ![i].refs = Dec(@)]
    /\ Return(p, h)
    /\ UNCHANGED <<disk, lock, api, pc, active, listed, crashes>>

\* ref.Close of the last reference: the entry is deleted and FSRepo.Close
\* removes the api file, closes the datastore, then releases the lock.
CloseLast(p, h) ==
    LET i == Closing(p, h) IN
    /\ pc[p] = "idle" /\ i # 0
    /\ Dec(repos[i].refs) = 0
    /\ repos' = [repos EXCEPT ![i].refs = 0, ![i].st = "closed"]
    /\ lock' = None
    /\ api' = None
    /\ listed' = [listed EXCEPT ![p] = FALSE]
    /\ active' = [active EXCEPT ![p] = 0]
    /\ Return(p, h)
    /\ UNCHANGED <<disk, pc, crashes>>

\* The same when the datastore does not close: Close returns early, after the
\* entry and the api file are gone and before the lock is released.
CloseLastError(p, h) ==
    LET i == Closing(p, h) IN
    /\ pc[p] = "idle" /\ i # 0
    /\ Dec(repos[i].refs) = 0
    /\ repos' = [repos EXCEPT ![i].refs = 0, ![i].st = "unclosed"]
    /\ api' = None
    /\ listed' = [listed EXCEPT ![p] = FALSE]
    /\ active' = [active EXCEPT ![p] = 0]
    /\ Return(p, h)
    /\ UNCHANGED <<disk, lock, pc, crashes>>

\* The process is killed.  Its lock goes with it, its files stay.
Crash(p) ==
    /\ crashes < MaxCrash
    /\ crashes' = crashes + 1
    /\ lock' = IF lock = p THEN None ELSE lock
    /\ Goto(p, "idle")
    /\ active' = [active EXCEPT ![p] = 0]
    /\ repos' = [i \in DOMAIN repos |-> IF repos[i].proc = p THEN [repos[i] EXCEPT !.refs = 0, !.st = "closed"] ELSE repos[i]]
    /\ handle' = [handle EXCEPT ![p] = [h \in Holders |-> 0]]
    /\ again' = [again EXCEPT ![p] = [h \in Holders |-> 0]]
    /\ listed' = [listed EXCEPT ![p] = FALSE]
    /\ UNCHANGED <<disk, api>>

Next ==
    \E p \in Procs :
        \/ InitCheck(p) \/ InitConfig(p) \/ InitSpec(p) \/ InitVersion(p) \/ InitError(p)
        \/ OpenLock(p) \/ OpenError(p) \/ OpenKeystoreError(p)
        \/ Crash(p)
        \/ \E h \in Holders :
              \/ OpenAgain(p, h) \/ OpenDone(p, h) \/ SetAPIAddr(p, h)
              \/ CloseShared(p, h) \/ CloseLast(p, h) \/ CloseLastError(p, h)

Spec == Init /\ [][Next]_vars

-----------------------------------------------------------------------------
(* Properties.                                                             *)

\* The type of every variable; in particular the lock file and the api file
\* name processes, and a reference count stays a uint32.
TypeOK ==
    /\ config \in Procs \cup {None, "user"} /\ spec \in BOOLEAN /\ version \in {None, "old", "cur"}
    /\ lock \in Procs \cup {None} /\ api \in Procs \cup {None}
    /\ pc \in [Procs -> {"idle", "config", "spec", "version", "open"}]
    /\ repos \in Seq([proc : Procs, refs : 0..(RefMod - 1), st : {"open", "closed", "unclosed", "leaked"}])
    /\ active \in [Procs -> 0..Len(repos)]
    /\ handle \in [Procs -> [Holders -> 0..Len(repos)]] /\ again \in [Procs -> [Holders -> 0..Len(repos)]]
    /\ listed \in [Procs -> BOOLEAN]

\* No holder is left with a reference to a closed repository: OnlyOne's count
\* covers every reference handed out and not closed (onlyone.go).
NoUseAfterClose ==
    \A p \in Procs, h \in Holders : handle[p][h] # 0 => repos[handle[p][h]].st = "open"

\* While a process has its address in the api file, no other process removes or
\* replaces it: SetAPIAddr and the removal in Close are under the lock file,
\* although neither looks at it.
AddressStays == \A p \in Procs : listed[p] => api = p /\ lock = p

\* Whatever a crash or a failed write of Init left behind, a repository in use
\* has its config, its datastore spec and the current version (open's checks).
NeverHalfInitialised == (\E p \in Procs : active[p] # 0) => IsInitialized /\ spec /\ version = "cur"

\* The lock file outlives the repository it protects only when the datastore
\* did not close (Close returns early), and then no process can open it again.
LockReleased ==
    \A p \in Procs : lock = p /\ pc[p] = "idle" /\ active[p] = 0 =>
        \E i \in DOMAIN repos : repos[i].proc = p /\ repos[i].st = "unclosed"

\* What a process uses is an open repository with config, spec and version; its API address stays
\* in the api file while it serves, and its lock file goes with the repository, whatever crashes,
\* fails or closes in between (OnlyOne, fsrepo open and Close).
InUseMeansWhole == NoUseAfterClose /\ NeverHalfInitialised /\ AddressStays /\ LockReleased

\* Processes share the directory the way RepoOwner says: the lock file is the
\* ownership, a repository in OnlyOne's table is the use of it.
Owner == INSTANCE RepoOwner WITH owner <- lock, users <- {p \in Procs : active[p] # 0}
OneOwner == Owner!Spec

\* "packageLock must be held to ensure that the repo is not initialized more
\* than once" (fsrepo.go): a config file, once written, is not written by Init.
\* Between processes the code does not keep this: see the README.
InitOnce == [][config # None => config' = config]_vars
=============================================================================
