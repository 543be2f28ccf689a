----------------------------- MODULE RepoOwner -----------------------------
(***************************************************************************)
(* What opening a repository directory promises to the processes of a      *)
(* machine: the directory has one owner at a time, only the owner has it   *)
(* open, and the owner gives it up by closing it or by dying.              *)
(***************************************************************************)
CONSTANTS Procs, None

VARIABLES owner,   \* the process that owns the directory, or None
          users    \* the processes that have the repository open

vars == <<owner, users>>

Init == owner = None /\ users = {}

\* A free directory is taken; the taker may not have it open yet.
Take(p) == owner = None /\ owner' = p /\ UNCHANGED users

\* The owner has all parts of the repository open.
Enter(p) == owner = p /\ p \notin users /\ users' = users \cup {p} /\ UNCHANGED owner

\* The owner stops using the repository and still owns the directory.
Leave(p) == owner = p /\ p \in users /\ users' = users \ {p} /\ UNCHANGED owner

\* The owner gives the directory up, by closing the repository or by dying.
Drop(p) == owner = p /\ owner' = None /\ users' = users \ {p}

Next == \E p \in Procs : Take(p) \/ Enter(p) \/ Leave(p) \/ Drop(p)

Spec == Init /\ [][Next]_vars

\* At most one process has the repository open, and it owns the directory.
Exclusive == users \subseteq {owner}
=============================================================================
