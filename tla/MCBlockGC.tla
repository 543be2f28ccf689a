----------------------------- MODULE MCBlockGC -----------------------------
(***************************************************************************)
(* Small instances of BlockGC.  The graphs: x, y and z are files of one    *)
(* block, e is the empty directory, d1 and d2 are the directories with the *)
(* first one and the first two files, and r shares the file y with d2.     *)
(***************************************************************************)
EXTENDS BlockGC, TLC

MCAllLinks(c) ==
    CASE c = "d1" -> {"x"}
      [] c = "d2" -> {"x", "y"}
      [] c = "r"  -> {"y", "z"}
      [] c = "m"  -> {"f"}
      [] c = "f"  -> {"x"}
      [] OTHER    -> {}

MCLinks == [c \in Cid |-> MCAllLinks(c) \cap Cid]

\* An instance in which nothing is added has one file and its directory.
MCNoFiles == <<"x">>
MCNoRoots == [k \in 0..1 |-> IF k = 0 THEN "e" ELSE "d1"]

\* Goroutines that serve the same requests are interchangeable.
MCSymmetry == Permutations(Pinners)

-----------------------------------------------------------------------------
(* Scenes in which data is written while a collection, block rm and other   *)
(* requests run: by add, by dag import, and by puts and the files commands  *)
(* beside a pin whose graph is only partly stored.  Which goroutines there  *)
(* are is chosen at the start.                                              *)

MCFiles == <<"x", "y">>
MCRoots == [k \in 0..2 |-> IF k = 0 THEN "e" ELSE IF k = 1 THEN "d1" ELSE "d2"]

Scenes ==
    {{"a", "p", "g"}, {"i", "p", "g"}, {"i", "p", "b"},
     {"u", "p", "b"}, {"u", "w", "p", "g"}, {"u", "w", "g", "b"}}

\* The goroutines of one scene are there and idle; one that is absent takes no step.
MCInit ==
    \E S \in Scenes :
        /\ LockInit
        /\ blocks = {MfsInit}
        /\ rpins = {}
        /\ dpins = {}
        /\ mfsRoot = MfsInit
        /\ pc = [p \in Proc |-> IF p \in S THEN "idle" ELSE "absent"]
        /\ arg = [p \in Proc |-> NoArg]

MCSpec == MCInit /\ [][Next]_nodeVars

Absent(S) == \A p \in S : pc[p] = "absent"

-----------------------------------------------------------------------------

\* Unless nodes are put and pinned (`put --pin` promises less: its pin may be of a graph that is not
\* all there), every recursive pin has its whole graph in the block store while directories are
\* added and archives imported, and a collection can read every pinned graph (ColoredSet).
WrittenStays == Absent(Putters) => PinsComplete /\ MarkSucceeds
=============================================================================
