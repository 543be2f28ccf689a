-------------------------------- MODULE Keys --------------------------------
(***************************************************************************)
(* The key API and commands (core/coreapi/key.go,                          *)
(* core/commands/keystore.go) over the file key store: one file per name,  *)
(* created exclusively and then written, so a crash or a failing write     *)
(* leaves an empty file.  Requests of one daemon interleave at every call  *)
(* of the key store, which has no lock; `key rotate` runs alone, in a      *)
(* process of its own that holds the repository.                           *)
(***************************************************************************)
EXTENDS FiniteSets, Integers

CONSTANTS KThreads,   \* requests being served
          KNames,     \* key names other than "self"
          KKeys,      \* key pairs
          KSelf,      \* the first identity, one of KKeys
          KNone,
          MaxKeyOps,  \* bound: requests
          MaxKeyDead  \* bound: crashes

ASSUME KeysAssumption ==
    /\ KSelf \in KKeys
    /\ KThreads \cap KNames = {} /\ KThreads \cap KKeys = {} /\ KNames \cap KKeys = {}
    /\ KNone \notin KThreads \cup KNames \cup KKeys

VARIABLES kStore,    \* kStore[n]: the key file of n: a key, KNone when there is none, or the
                     \* request that created it and has not written it (a torn file)
          kIdent,    \* the identity in the config file
          kAt,       \* kAt[t]: the next call of the request t serves
          kOld, kNew, kKey, kForce,   \* its names, its key and --force
          kOwed,     \* keys users were told of and did not ask to remove
          kRotate,   \* the name key rotate has saved the identity under
          kRaced,    \* two requests have overlapped
          kOps, kDead

kVars == <<kStore, kIdent, kAt, kOld, kNew, kKey, kForce, kOwed, kRotate, kRaced, kOps, kDead>>

KInit ==
    /\ kStore = [n \in KNames |-> KNone]
    /\ kIdent = KSelf
    /\ kAt = [t \in KThreads |-> "idle"]
    /\ kOld = [t \in KThreads |-> KNone] /\ kNew = [t \in KThreads |-> KNone]
    /\ kKey = [t \in KThreads |-> KNone] /\ kForce = [t \in KThreads |-> FALSE]
    /\ kOwed = {KSelf}
    /\ kRotate = KNone /\ kRaced = FALSE /\ kOps = 0 /\ kDead = 0

Stored == {kStore[n] : n \in KNames}
NewKeys == KKeys \ (Stored \cup {kIdent} \cup kOwed \cup {kKey[t] : t \in KThreads})

\* A request starts: its names, its key and the first call after the checks.
BeginRequest(t, old, new, key, force, at) ==
    /\ kAt[t] = "idle" /\ kRotate = KNone /\ kOps < MaxKeyOps
    /\ kOps' = kOps + 1
    /\ kRaced' = (kRaced \/ \E u \in KThreads \ {t} : kAt[u] # "idle")
    /\ kOld' = [kOld EXCEPT ![t] = old] /\ kNew' = [kNew EXCEPT ![t] = new]
    /\ kKey' = [kKey EXCEPT ![t] = key] /\ kForce' = [kForce EXCEPT ![t] = force]
    /\ kAt' = [kAt EXCEPT ![t] = at]
    /\ UNCHANGED <<kStore, kIdent, kOwed, kRotate, kDead>>

\* The request ends.
End(t) ==
    /\ kAt' = [kAt EXCEPT ![t] = "idle"]
    /\ kOld' = [kOld EXCEPT ![t] = KNone] /\ kNew' = [kNew EXCEPT ![t] = KNone]
    /\ kKey' = [kKey EXCEPT ![t] = KNone] /\ kForce' = [kForce EXCEPT ![t] = FALSE]

Step(t, at) == kAt' = [kAt EXCEPT ![t] = at] /\ UNCHANGED <<kOld, kNew, kKey, kForce>>

\* Get succeeds: the file is there and parses.
Has(n) == kStore[n] \in KKeys

-----------------------------------------------------------------------------
(* Requests, up to their first change.                                     *)

\* Generate: a name without a readable key gets a new one.
Generate(t, n) ==
    /\ ~Has(n)
    /\ \E k \in NewKeys : BeginRequest(t, KNone, n, k, FALSE, "create")

\* key gen refuses "self" before it asks the API.
KeyGen(t) == \E n \in KNames : Generate(t, n)

\* key import: the same two calls with a key from a file.
KeyImport(t) ==
    \E n \in KNames, k \in KKeys \ {KSelf} :
        /\ ~Has(n)
        /\ BeginRequest(t, KNone, n, k, FALSE, "create")

\* Rename reads the old key; with --force it first clears the new name.
Rename(t, old, new, force) ==
    /\ Has(old) /\ new # old
    /\ BeginRequest(t, old, new, kStore[old], force, IF force THEN "clear" ELSE "create")

KeyRename(t) == \E old, new \in KNames, f \in BOOLEAN : Rename(t, old, new, f)

\* Remove reads the key, then deletes the file.
Remove(t, n) == Has(n) /\ BeginRequest(t, n, KNone, kStore[n], FALSE, "delete")

KeyRm(t) == \E n \in KNames : Remove(t, n)

-----------------------------------------------------------------------------
(* Calls of the key store.                                                 *)

\* Has and Delete of the new name under --force: its key is given up.
Clear(t) ==
    /\ kAt[t] = "clear"
    /\ kOwed' = kOwed \ {kStore[kNew[t]]}
    /\ kStore' = [kStore EXCEPT ![kNew[t]] = KNone]
    /\ Step(t, "create")
    /\ UNCHANGED <<kIdent, kRotate, kRaced, kOps, kDead>>

\* Put, first half: O_CREATE|O_EXCL; a file of that name is ErrKeyExists.
Create(t) ==
    /\ kAt[t] = "create"
    /\ IF kStore[kNew[t]] # KNone THEN End(t) /\ UNCHANGED kStore
       ELSE kStore' = [kStore EXCEPT ![kNew[t]] = t] /\ Step(t, "write")
    /\ UNCHANGED <<kIdent, kOwed, kRotate, kRaced, kOps, kDead>>

\* Put, second half: the write, which reaches no name when the file was deleted in
\* between.  A new key is then reported; a renamed one loses
\* its old name next.
WriteKey(t) ==
    /\ kAt[t] = "write"
    /\ kStore' = [kStore EXCEPT ![kNew[t]] = IF @ = t THEN kKey[t] ELSE @]
    /\ IF kOld[t] = KNone THEN End(t) /\ kOwed' = kOwed \cup {kKey[t]}
       ELSE Step(t, "delete") /\ UNCHANGED kOwed
    /\ UNCHANGED <<kIdent, kRotate, kRaced, kOps, kDead>>

WriteError(t) ==
    /\ kAt[t] = "write"
    /\ End(t)
    /\ UNCHANGED <<kStore, kIdent, kOwed, kRotate, kRaced, kOps, kDead>>

\* Delete of the old name, for Rename and Remove.
Delete(t) ==
    /\ kAt[t] = "delete"
    /\ kStore' = [kStore EXCEPT ![kOld[t]] = KNone]
    /\ kOwed' = IF kNew[t] = KNone THEN kOwed \ {kKey[t]} ELSE kOwed
    /\ End(t)
    /\ UNCHANGED <<kIdent, kRotate, kRaced, kOps, kDead>>

-----------------------------------------------------------------------------
(* key rotate, with the daemon stopped.                                    *)

DaemonNotRunning == \A t \in KThreads : kAt[t] = "idle"

\* mutant: the error of Put is dropped.
RotateSaveAnyway(n) ==
    /\ DaemonNotRunning /\ kRotate = KNone /\ kOps < MaxKeyOps
    /\ kRotate' = n
    /\ kOps' = kOps + 1
    /\ UNCHANGED <<kStore, kIdent, kAt, kOld, kNew, kKey, kForce, kOwed, kRaced, kDead>>

\* doRotate up to Put: the old identity is written under a name of its own.  (Put
\* is one step here: the torn file it may leave is one that Create leaves too.)
RotateSave(n) ==
    /\ DaemonNotRunning /\ kRotate = KNone /\ kOps < MaxKeyOps
    /\ kStore[n] = KNone
    /\ kStore' = [kStore EXCEPT ![n] = kIdent]
    /\ kRotate' = n
    /\ kOps' = kOps + 1
    /\ UNCHANGED <<kIdent, kAt, kOld, kNew, kKey, kForce, kOwed, kRaced, kDead>>

\* doRotate after Put: SetConfig writes the new identity.
RotateIdentity ==
    /\ kRotate # KNone
    /\ \E k \in NewKeys : kIdent' = k /\ kOwed' = kOwed \cup {k}
    /\ kRotate' = KNone
    /\ UNCHANGED <<kStore, kAt, kOld, kNew, kKey, kForce, kRaced, kOps, kDead>>

\* The daemon is killed.
DaemonKilled ==
    /\ kDead < MaxKeyDead /\ kDead' = kDead + 1
    /\ kAt' = [t \in KThreads |-> "idle"]
    /\ kOld' = [t \in KThreads |-> KNone] /\ kNew' = [t \in KThreads |-> KNone]
    /\ kKey' = [t \in KThreads |-> KNone] /\ kForce' = [t \in KThreads |-> FALSE]
    /\ kRotate' = KNone
    /\ UNCHANGED <<kStore, kIdent, kOwed, kRaced, kOps>>

KeyLookupByName(k) == IF k \in KNames /\ Has(k) THEN kStore[k] ELSE IF k = kIdent THEN kIdent ELSE KNone   \* mutant

\* keylookup of name publish: by name, then by ID, where self comes first and one
\* key that does not parse makes the search fail.
KeyLookup(k) ==
    IF k \in KNames /\ Has(k) THEN kStore[k]
    ELSE IF k = kIdent THEN kIdent
    ELSE IF k \in Stored /\ Stored \cap KThreads = {} THEN k
    ELSE KNone

KNext ==
    \/ \E t \in KThreads :
          \/ KeyGen(t) \/ KeyImport(t) \/ KeyRename(t) \/ KeyRm(t)
          \/ Clear(t) \/ Create(t) \/ WriteKey(t) \/ WriteError(t) \/ Delete(t)
    \/ (\E n \in KNames : RotateSave(n)) \/ RotateIdentity
    \/ DaemonKilled

KSpec == KInit /\ [][KNext]_kVars

-----------------------------------------------------------------------------
(* Properties.                                                             *)

\* A key that a user was told of stays in the key store or the config, through
\* crashes, failing writes, renames and rotations, until it is removed or
\* overwritten by request: Rename writes the new file before it deletes the old
\* one, and doRotate saves the old identity before it writes the new one.  (Requests
\* that overlap can lose keys: the key store has no lock.)
NoKeyLost == ~kRaced => kOwed \subseteq Stored \cup {kIdent}

\* Every key the user was told of can be named by its ID in name publish, unless
\* an unreadable file is in the way (keylookup).
LookupByID == ~kRaced /\ Stored \cap KThreads = {} => \A k \in kOwed : KeyLookup(k) = k

\* A key that a user was told of stays in the key store or the config, and can be named by its ID,
\* through crashes, failing writes, renames and rotations (Rename, doRotate, keylookup).
KeysKept == NoKeyLost /\ LookupByID
=============================================================================
