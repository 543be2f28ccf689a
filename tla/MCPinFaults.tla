---------------------------- MODULE MCPinFaults ----------------------------
(***************************************************************************)
(* The pin store in two scenes: crashes over a datastore that keeps the    *)
(* order of its writes (the constants of this module), and a datastore     *)
(* that does not, with failing writes and rebuilds that flush after every  *)
(* record, for one CID (Loose).                                            *)
(***************************************************************************)
EXTENDS PinStore, TLC

CONSTANT LooseCid   \* the CID of the second scene

ASSUME LooseAssumption == LooseCid \in PinCid

VARIABLE scene

Loose == INSTANCE PinStore WITH
    PinCid <- {LooseCid}, SyncRepairFrequency <- 1, Ordered <- FALSE, Faults <- {"write", "flag"}

MCInit == (scene = "ordered" /\ Init) \/ (scene = "loose" /\ Loose!Init)

MCNext ==
    /\ UNCHANGED scene
    /\ (scene = "ordered" /\ Next) \/ (scene = "loose" /\ Loose!Next)

MCSpec == MCInit /\ [][MCNext]_<<vars, scene>>

\* Identifiers are interchangeable.
MCSymmetry == Permutations(Id)

-----------------------------------------------------------------------------

\* Over an ordered datastore, what the clients were told about a pin stays true across crashes at
\* any write of pin add, rm, update and puts (dspinner).
OrderedPromiseKept == scene = "ordered" => PromiseKept

\* Over an ordered datastore, a clear dirty flag means that records and indexes match, and the
\* indexes are those of the records when a rebuild has ended (setDirty, rebuildIndexes).
OrderedIndexesTrue == scene = "ordered" => CleanMeansMatched /\ RebuiltIndexes
=============================================================================
