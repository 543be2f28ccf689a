------------------------------ MODULE FdLimit ------------------------------
(***************************************************************************)
(* Raising the limit of open files when the daemon starts                  *)
(* (cmd/ipfs/util/ulimit.go). The kernel is external: a process without    *)
(* privileges may lower its hard limit but not raise it, and no soft limit *)
(* exceeds the hard one; either call may fail for other reasons as well.   *)
(***************************************************************************)
EXTENDS Integers

CONSTANTS FLimits,    \* limits a process may start with, and values of IPFS_FD_MAX
          MinFds,     \* minFds
          MaxFds      \* maxFds

ASSUME FdAssumption == FLimits \subseteq Nat /\ MinFds \in Nat /\ MaxFds \in Nat /\ MinFds <= MaxFds

VARIABLES fdSoft, fdHard,    \* the limits of the process
          fdUser,            \* IPFS_FD_MAX, 0 when it is not set or not a number
          fdRoot,            \* the process has the privilege to raise its hard limit
          fdRet              \* what ManageFdLimit returned: [done, new, err]

fdVars == <<fdSoft, fdHard, fdUser, fdRoot, fdRet>>

FdInit ==
    /\ fdSoft \in FLimits /\ fdHard \in {h \in FLimits : h >= fdSoft}
    /\ fdUser \in FLimits \cup {0} /\ fdRoot \in BOOLEAN
    /\ fdRet = [done |-> FALSE, new |-> 0, err |-> "nil"]

Ret(new, err) == fdRet' = [done |-> TRUE, new |-> new, err |-> err]

targetLimit == IF fdUser > 0 THEN fdUser ELSE MaxFds

\* setLimit(soft, hard) for soft =< hard: what the kernel may answer.
setLimit(soft, hard) ==
    IF hard > fdHard /\ ~fdRoot THEN {"EPERM", "other"} ELSE {"nil", "other"}

\* Mutant: a lowered limit is compared with the minimum only.
SetSoftQuiet ==
    LET new == IF targetLimit > fdHard THEN fdHard ELSE targetLimit
    IN \E err \in setLimit(new, fdHard) :
          IF err # "nil" THEN Ret(0, "without hard limit") /\ UNCHANGED fdSoft
          ELSE fdSoft' = new /\ Ret(new, IF new < MinFds THEN "too low" ELSE "nil")

\* Raising the soft limit within the hard one, after EPERM, and the complaint about a low result.
SetSoft ==
    LET new == IF targetLimit > fdHard THEN fdHard ELSE targetLimit
    IN \E err \in setLimit(new, fdHard) :
          IF err # "nil" THEN Ret(0, "without hard limit") /\ UNCHANGED fdSoft
          ELSE /\ fdSoft' = new
               /\ Ret(new, IF new < fdUser \/ (fdUser = 0 /\ new < MinFds) THEN "too low"
                                                                           ELSE "nil")

\* ManageFdLimit: nothing to do, both limits set at once, or only the soft one.
ManageFdLimit ==
    /\ ~fdRet.done
    /\ IF targetLimit <= fdSoft THEN Ret(0, "nil") /\ UNCHANGED <<fdSoft, fdHard>>
       ELSE \E err \in setLimit(targetLimit, targetLimit) :
             \/ err = "nil" /\ fdSoft' = targetLimit /\ fdHard' = targetLimit
                /\ Ret(targetLimit, "nil")
             \/ err = "EPERM" /\ SetSoft /\ UNCHANGED fdHard
             \/ err = "other" /\ Ret(0, "error setting") /\ UNCHANGED <<fdSoft, fdHard>>
    /\ UNCHANGED <<fdUser, fdRoot>>

FdNext == ManageFdLimit

FdSpec == FdInit /\ [][FdNext]_fdVars

(***************************************************************************)
(* Properties.                                                             *)
(***************************************************************************)

\* No complaint means enough: the number the user asked for, or the minimum the daemon wants
\* ("If go-ipfs fails to set the file descriptor limit, it will log an error",
\* docs/environment-variables.md:71).
SilenceMeansEnough ==
    fdRet.done /\ fdRet.err = "nil" => fdSoft >= (IF fdUser > 0 THEN fdUser ELSE MinFds)
=============================================================================
