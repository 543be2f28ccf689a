------------------------------- MODULE Patch -------------------------------
(* Making a new tree out of an old one: `ipfs object new`, `object put` and  *)
(* `object patch` (core/coreapi/object.go, core/commands/object/patch.go,    *)
(* with the DAG editor of go-merkledag they use) and PUT and DELETE of the   *)
(* writable gateway (core/corehttp/gateway_handler.go).  Each command names  *)
(* the root it starts from and answers with the root it made; the user of    *)
(* this model goes on from the last answer.                                  *)
(*                                                                           *)
(* A node is the set of its links <<name, node>>; being content addressed,   *)
(* equal nodes are one block.  Data is the link named "#", to a chain as     *)
(* long as the data: a file is a node with data and no links.                *)
EXTENDS Integers, Sequences, FiniteSets, FiniteSetsExt

CONSTANTS
  ONames,    \* names of links
  ODepth,    \* longest path
  OLimit,    \* softBlockLimit
  OMaxCmds

VARIABLES
  oStore,  \* the blocks of the repository
  oRoot,   \* the last root a command answered with
  oAsked,  \* the last command: its kind, root and path, and --allow-big-block
  oReply,  \* "" | "ok" | "error" | "toobig"
  oCmds

oVars == <<oStore, oRoot, oAsked, oReply, oCmds>>

EmptyDir == {}
RECURSIVE Data(_)
Data(n) == IF n = 0 THEN {} ELSE {<<"#", Data(n - 1)>>}
File(n) == {<<"#", Data(n)>>}

Links(node) == {l \in node : l[1] # "#"}
Names(node) == {l[1] : l \in Links(node)}
Child(node, name) == (CHOOSE l \in node : l[1] = name)[2]
IsDir(node) == ~\E l \in node : l[1] = "#"
OPaths == UNION {[1..k -> ONames] : k \in 1..ODepth}

OInit == /\ oStore = {EmptyDir, File(1)}
         /\ oRoot = EmptyDir
         /\ oAsked = [cmd |-> "new", root |-> EmptyDir, path |-> <<>>, allow |-> TRUE]
         /\ oReply = ""
         /\ oCmds = 0

-----------------------------------------------------------------------------
(* Sizes.                                                                    *)

RECURSIVE DataLength(_)
DataLength(d) == IF d = {} THEN 0 ELSE 1 + DataLength(Child(d, "#"))

\* The bytes of a node's own block, and those of everything below it too
\* (ProtoNode.Size).
BlockSize(node) == Cardinality(Links(node)) + (IF IsDir(node) THEN 0 ELSE DataLength(Child(node, "#")))
RECURSIVE Size(_)
Size(node) == BlockSize(node) + FoldSet(LAMBDA l, sum : sum + Size(l[2]), 0, Links(node))

\* checkBlockSize, of a node that is already stored.
checkBlockSize(node, allow) == ~allow /\ Size(node) > OLimit

-----------------------------------------------------------------------------
(* The editor of go-merkledag: nodes it makes are kept in a store of their   *)
(* own, and copied to the repository at the end.                             *)

\* Mutant: the link that has the name already is not removed.
AddedLink(node, name, child) == node \cup {<<name, child>>}

\* Mutant: all links are removed.
OnlyLink(node, name, child) == {<<name, child>>}

\* RemoveNodeLink and AddNodeLink.
WithLink(node, name, child) == {l \in node : l[1] # name} \cup {<<name, child>>}

Failed == [ok |-> FALSE, node |-> {}, tmp |-> {}]
Made(node, tmp) == [ok |-> TRUE, node |-> node, tmp |-> tmp]

\* addLink: the child is stored, the old version of the node forgotten.
addLink(node, name, child, tmp) ==
  Made(WithLink(node, name, child), ((tmp \cup {child}) \ {node}) \cup {WithLink(node, name, child)})

\* The node below, or the directory that is created for it.
Below(node, name) == IF name \in Names(node) THEN Child(node, name) ELSE EmptyDir

\* insertNodeAtPath: along the path, creating empty directories when asked to.
RECURSIVE insertNodeAtPath(_, _, _, _, _)
insertNodeAtPath(node, path, child, create, tmp) ==
  LET made == insertNodeAtPath(Below(node, path[1]), Tail(path), child, create, tmp)
      new == WithLink(node, path[1], made.node)
  IN  IF Len(path) = 1 THEN addLink(node, path[1], child, tmp)
      ELSE IF path[1] \notin Names(node) /\ ~create THEN Failed
      ELSE IF ~made.ok THEN Failed
      ELSE Made(new, (made.tmp \ {node}) \cup {new})

RECURSIVE rmLink(_, _, _)
rmLink(node, path, tmp) ==
  LET without == {l \in node : l[1] # path[1]}
      made == rmLink(Child(node, path[1]), Tail(path), tmp)
      new == WithLink(node, path[1], made.node)
  IN  IF path[1] \notin Names(node) THEN Failed
      ELSE IF Len(path) = 1 THEN Made(without, tmp \cup {without})
      ELSE IF ~made.ok THEN Failed
      ELSE Made(new, (made.tmp \ {node}) \cup {new})

\* copyDag: the node, and what is below it as far as the editor has it.
RECURSIVE copyDag(_, _)
copyDag(node, tmp) == {node} \cup UNION {copyDag(l[2], tmp) : l \in {k \in Links(node) : k[2] \in tmp}}

\* Mutant: only the root is copied.
FinalizeRoot(node, tmp) == {node}

\* Editor.Finalize.
Finalize(node, tmp) == copyDag(node, tmp)

-----------------------------------------------------------------------------
(* Commands.                                                                 *)

Begin(cmd, path, allow) ==
  /\ oCmds < OMaxCmds
  /\ oCmds' = oCmds + 1
  /\ oAsked' = [cmd |-> cmd, root |-> oRoot, path |-> path, allow |-> allow]

Fail == oReply' = "error" /\ UNCHANGED <<oStore, oRoot>>

\* The object is stored; a command refuses to answer with one that is too big.
Answer(node, blocks, tooBig) ==
  /\ oStore' = oStore \cup blocks
  /\ oReply' = IF tooBig THEN "toobig" ELSE "ok"
  /\ oRoot' = IF tooBig THEN oRoot ELSE node

\* What the Object API makes of the edited tree: stored by Finalize, then
\* looked at by the command.
Edited(made, allow) ==
  IF ~made.ok THEN Fail ELSE Answer(made.node, Finalize(made.node, made.tmp), checkBlockSize(made.node, allow))

ApiAddLink(path, child, create, allow) == Edited(insertNodeAtPath(oRoot, path, child, create, {}), allow)
ApiRmLink(path, allow) == Edited(rmLink(oRoot, path, {}), allow)

\* ObjectAPI.patchData: the data of the root, its links kept.
PatchData(n, append, allow) ==
  LET had == IF append /\ ~IsDir(oRoot) THEN DataLength(Child(oRoot, "#")) ELSE 0
      node == Links(oRoot) \cup File(had + n)
  IN  Answer(node, {node}, checkBlockSize(node, allow))

\* object patch add-link, rm-link, append-data and set-data.
AddLink(path, child, create, allow) == Begin("patch", path, allow) /\ ApiAddLink(path, child, create, allow)
RmLink(path, allow) == Begin("patch", path, allow) /\ ApiRmLink(path, allow)
AppendData(n, allow) == Begin("patch", <<>>, allow) /\ PatchData(n, TRUE, allow)
SetData(n, allow) == Begin("patch", <<>>, allow) /\ PatchData(n, FALSE, allow)

\* object new and object put answer with a node that is not made from another.
NewObject(node) == /\ Begin("new", <<>>, TRUE)
                   /\ Answer(node, {node}, FALSE)

-----------------------------------------------------------------------------
(* The writable gateway.  mfs keeps the directories it changes in memory and *)
(* stores them all when the root is asked for at the end.                    *)

\* Mutant: a file in the way is replaced by a directory.
ThroughFiles(node) == TRUE

\* Only a directory is walked through.
Walkable(node) == IsDir(node)

RECURSIVE mfsPut(_, _, _)
mfsPut(node, path, file) ==
  LET made == mfsPut(Below(node, path[1]), Tail(path), file)
      new == WithLink(node, path[1], made.node)
  IN  IF ~Walkable(node) THEN Failed
      ELSE IF Len(path) = 1 THEN addLink(node, path[1], file, {})
      ELSE IF ~made.ok THEN Failed
      ELSE Made(new, made.tmp \cup {new})

\* putHandler: the body is added, directories on the way are made, what the
\* path named is unlinked and the file linked in its place.
PutHandler(path, file) ==
  LET made == mfsPut(oRoot, path, file)
  IN  /\ Begin("gateway", path, TRUE)
      /\ IF ~made.ok THEN oReply' = "error" /\ oStore' = oStore \cup {file} /\ UNCHANGED oRoot
         ELSE Answer(made.node, made.tmp \cup {file}, FALSE)

RECURSIVE mfsUnlink(_, _)
mfsUnlink(node, path) ==
  LET made == mfsUnlink(Child(node, path[1]), Tail(path))
      new == WithLink(node, path[1], made.node)
      without == {l \in node : l[1] # path[1]}
  IN  IF ~Walkable(node) THEN Failed
      ELSE IF Len(path) = 1 THEN Made(without, {without})
      ELSE IF path[1] \notin Names(node) THEN Failed
      ELSE IF ~made.ok THEN Failed
      ELSE Made(new, made.tmp \cup {new})

\* deleteHandler: a name that is not there counts as removed.
DeleteHandler(path) ==
  LET made == mfsUnlink(oRoot, path)
  IN  /\ Begin("gateway", path, TRUE)
      /\ IF ~made.ok THEN Fail ELSE Answer(made.node, made.tmp, FALSE)

ONext == \/ \E p \in OPaths, c \in {EmptyDir, File(1), oRoot}, create \in BOOLEAN, allow \in BOOLEAN : AddLink(p, c, create, allow)
         \/ \E p \in OPaths, allow \in BOOLEAN : RmLink(p, allow)
         \/ \E n \in 1..2, allow \in BOOLEAN : AppendData(n, allow) \/ SetData(n, allow)
         \/ \E n \in {EmptyDir, File(2)} : NewObject(n)
         \/ \E p \in OPaths : PutHandler(p, File(2)) \/ DeleteHandler(p)

OSpec == OInit /\ [][ONext]_oVars

-----------------------------------------------------------------------------
(* Properties.                                                               *)

RECURSIVE Blocks(_)
Blocks(node) == {node} \cup UNION {Blocks(l[2]) : l \in Links(node)}

\* The answer of a command can be read in full from the repository: no block
\* of the new tree was left in the memory of the editor.
AnswerStored == Blocks(oRoot) \subseteq oStore

\* No two links of a directory have one name.
NamesOnce == \A node \in Blocks(oRoot) : \A l, m \in node : l[1] = m[1] => l = m

RECURSIVE At(_, _)
At(node, path) ==
  IF path = <<>> THEN {node}
  ELSE IF path[1] \in Names(node) THEN At(Child(node, path[1]), Tail(path)) ELSE {}

Apart(p, q) == \E i \in 1..Len(p) : i <= Len(q) /\ p[i] # q[i]

\* A command changes nothing beside the path it was given: what any other path
\* named in the old tree it still names in the new one.
RestUntouched ==
  oReply = "ok" /\ oAsked.path # <<>> =>
    \A q \in OPaths : Apart(oAsked.path, q) => At(oRoot, q) = At(oAsked.root, q)

\* PUT and DELETE pass through directories only: no file of the old tree is
\* turned into a directory by a path that leads through it.
FilesNotEntered ==
  oReply = "ok" /\ oAsked.cmd = "gateway" =>
    \A i \in 1..Len(oAsked.path) - 1 : \A n \in At(oAsked.root, SubSeq(oAsked.path, 1, i)) : IsDir(n)

\* A command refuses its result only for a block over the limit.  The code
\* refuses others as well: see the README.
OnlyBigRefused == [][ oReply' = "toobig" => \E b \in oStore' : BlockSize(b) > OLimit ]_oVars
=============================================================================
