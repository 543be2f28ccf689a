------------------------------- MODULE Files --------------------------------
(***************************************************************************)
(* `ipfs files`: the commands of core/commands/files.go over the mutable   *)
(* file system of go-mfs.                                                  *)
(*                                                                         *)
(* A directory object holds the links of its DAG node and a cache of the   *)
(* child objects looked up so far; the links are brought up to date from   *)
(* the cache by GetNode (sync), and a flush carries the node of an object  *)
(* up through the links of its ancestors to the root, whose CID the        *)
(* republisher then stores under /local/filesroot.  A command runs from    *)
(* its lookup to its answer in one step, except `write`, which keeps its   *)
(* file open while the client sends the data.                              *)
(***************************************************************************)
EXTENDS Naturals, Sequences, FiniteSets, SequencesExt

CONSTANTS
    FDirs,       \* paths the commands use for directories
    FFiles,      \* paths the commands use for files
    FMoves,      \* pairs of paths for mv and cp
    MaxObjs,     \* bound on the objects alive at a time
    MaxCmds      \* bound on the commands of a behaviour

VARIABLES
    fHeap,    \* the objects: 1 is the root directory
    fFd,      \* the open write: {} or {[obj, path, sync]}
    fPend,    \* root values given to the republisher and not yet stored
    fPub,     \* the root stored under /local/filesroot
    fKept,    \* paths flushed and waited for, and not touched since
    fLast,    \* the paths the last step was asked to change
    fWant,    \* the last command that changed the tree, and what it promised
    fCmds

fVars == <<fHeap, fFd, fPend, fPub, fKept, fLast, fWant, fCmds>>

NoNode == [t |-> "none"]
FileNode(v) == [t |-> "file", v |-> v]
DirNode(e) == [t |-> "dir", e |-> e]
EmptyDir == DirNode([m \in {} |-> NoNode])
NoObj == [k |-> "none", up |-> 0, nm |-> "", n |-> NoNode, c |-> [m \in {} |-> 0]]
Obj(kind, up, nm, node) == [NoObj EXCEPT !.k = kind, !.up = up, !.nm = nm, !.n = node]

Put(f, m, x) == [y \in DOMAIN f \cup {m} |-> IF y = m THEN x ELSE f[y]]
Drop(f, m) == [y \in DOMAIN f \ {m} |-> f[y]]
Prefix(p, q) == Len(p) <= Len(q) /\ SubSeq(q, 1, Len(p)) = p
Related(p, q) == Prefix(p, q) \/ Prefix(q, p)

\* The node at a path below a node.
RECURSIVE At(_, _)
At(node, p) ==
    IF p = <<>> THEN node
    ELSE IF node.t = "dir" /\ Head(p) \in DOMAIN node.e
         THEN At(node.e[Head(p)], Tail(p)) ELSE NoNode

\* What GetNode answers: the links, with every cached child's own node.
RECURSIVE NodeOf(_, _)
NodeOf(h, i) ==
    IF h[i].k = "file" THEN h[i].n
    ELSE DirNode([m \in DOMAIN h[i].n.e \cup DOMAIN h[i].c |->
                    IF m \in DOMAIN h[i].c THEN NodeOf(h, h[i].c[m]) ELSE h[i].n.e[m]])

View == NodeOf(fHeap, 1)

RECURSIVE Below(_, _)
Below(h, i) == {i} \cup UNION {Below(h, h[i].c[m]) : m \in DOMAIN h[i].c}

RECURSIVE Above(_, _)
Above(h, i) == IF i = 0 THEN {} ELSE {i} \cup Above(h, h[i].up)

\* Directory.sync of an object and of what it caches.
sync(h, i) ==
    [j \in DOMAIN h |-> IF j \in Below(h, i) THEN [h[j] EXCEPT !.n = NodeOf(h, j)] ELSE h[j]]

\* Objects nobody refers to any more.
Sweep(h, fds) ==
    LET held == UNION {Above(h, fd.obj) : fd \in fds}
        live == Below(h, 1) \cup UNION {Below(h, i) : i \in held}
    IN  [j \in DOMAIN h |-> IF j \in live THEN h[j] ELSE NoObj]

Fresh(h) == CHOOSE j \in DOMAIN h : h[j].k = "none" /\ \A l \in 1..(j - 1) : h[l].k # "none"
Nothing == [op |-> "", want |-> [p \in {} |-> NoNode]]
Room(h) == Cardinality({j \in DOMAIN h : h[j].k = "none"}) >= 4

-----------------------------------------------------------------------------
(* Directory and Root of go-mfs.  An operation that looks something up     *)
(* caches it, so it answers the heap it leaves, h, with its object, o      *)
(* (zero: not found).                                                      *)

Child(h, i, m) ==
    IF h[i].k # "dir" THEN [h |-> h, o |-> 0]
    ELSE IF m \in DOMAIN h[i].c THEN [h |-> h, o |-> h[i].c[m]]
    ELSE IF m \notin DOMAIN h[i].n.e THEN [h |-> h, o |-> 0]
    ELSE LET j == Fresh(h) IN
         [h |-> [h EXCEPT ![i].c = Put(@, m, j),
                          ![j] = Obj(h[i].n.e[m].t, i, m, h[i].n.e[m])],
          o |-> j]

RECURSIVE DirLookup(_, _, _)
DirLookup(h, i, p) ==
    IF p = <<>> THEN [h |-> h, o |-> i]
    ELSE LET r == Child(h, i, Head(p))
         IN IF r.o = 0 THEN r ELSE DirLookup(r.h, r.o, Tail(p))

Lookup(h, p) == DirLookup(h, 1, p)
getParentDir(h, p) == Lookup(h, Front(p))
IsDir(r) == r.o # 0 /\ r.h[r.o].k = "dir"

AddChild(h, i, m, node) == [h EXCEPT ![i].n.e = Put(@, m, node)]
UnlinkUncaching(h, i, m) == [h EXCEPT ![i].n.e = Drop(@, m), ![i].c = NoObj.c]
UnlinkKeepingCache(h, i, m) == [h EXCEPT ![i].n.e = Drop(@, m)]
Unlink(h, i, m) == [h EXCEPT ![i].n.e = Drop(@, m), ![i].c = Drop(@, m)]

Mkdir(h, i, m) ==
    LET j == Fresh(h) IN
    [h EXCEPT ![i].n.e = Put(@, m, EmptyDir), ![i].c = Put(@, m, j),
              ![j] = Obj("dir", i, m, EmptyDir)]

\* The link of object i is replaced in its parent, and so on to the root.
RECURSIVE updateChildEntry(_, _, _)
updateChildEntry(h, i, node) ==
    IF h[i].up = 0 THEN [h |-> h, root |-> node]
    ELSE LET g == AddChild(h, h[i].up, h[i].nm, node)
         IN updateChildEntry(g, h[i].up, g[h[i].up].n)

Flush(h, i) ==
    LET g == sync(h, i) IN updateChildEntry(g, i, g[i].n)

-----------------------------------------------------------------------------
FInit ==
    LET tree == DirNode([m \in {"x", "a"} |->
                    IF m = "x" THEN DirNode([f \in {"f"} |-> FileNode(1)])
                    ELSE DirNode([x \in {"x"} |-> EmptyDir])])
    IN /\ fHeap = [j \in 1..MaxObjs |-> IF j = 1 THEN Obj("dir", 0, "", tree) ELSE NoObj]
       /\ fPub = tree
       /\ fFd = {} /\ fPend = {} /\ fKept = [p \in {} |-> NoNode]
       /\ fLast = {} /\ fWant = Nothing /\ fCmds = 0

Step(touched) ==
    /\ fCmds < MaxCmds /\ fCmds' = fCmds + 1 /\ Room(fHeap)
    /\ fLast' = touched

\* A command that changes the tree, with what the paths shall then hold.
Command(op, want) ==
    Step(DOMAIN want) /\ fWant' = [op |-> op, want |-> want]

\* What is still known to be stored after paths were touched.
Untouched(touched) ==
    [p \in {q \in DOMAIN fKept : \A t \in touched : ~Related(q, t)} |-> fKept[p]]

\* A command that ends without a flush, or with one it does not wait for.
Leave(h, touched) ==
    /\ fHeap' = Sweep(h, fFd) /\ fKept' = Untouched(touched)
    /\ UNCHANGED <<fFd, fPub>>
NoFlush(h, touched) == Leave(h, touched) /\ UNCHANGED fPend
Publish(h, root, touched) == Leave(h, touched) /\ fPend' = {root}

Locked(o) == \E fd \in fFd : fd.obj = o

\* FlushPath: flush what is at the path, then wait for the republisher.
FlushPathNoWait(h, p, touched) ==
    LET r == Lookup(h, p)
        u == Flush(r.h, r.o)
    IN /\ ~Locked(r.o)
       /\ fHeap' = Sweep(u.h, fFd) /\ fPend' = {u.root} /\ UNCHANGED <<fPub, fFd>>
       /\ fKept' = Put(Untouched(touched), p, NodeOf(u.h, r.o))

FlushPath(h, p, touched) ==
    LET r == Lookup(h, p)
        u == Flush(r.h, r.o)
    IN /\ ~Locked(r.o)
       /\ fHeap' = Sweep(u.h, fFd) /\ fPub' = u.root /\ fPend' = {} /\ UNCHANGED fFd
       /\ fKept' = Put(Untouched(touched), p, NodeOf(u.h, r.o))

filesFlush(p) ==
    /\ Step({}) /\ Lookup(fHeap, p).o # 0
    /\ FlushPath(fHeap, p, {}) /\ UNCHANGED fWant

\* The lookup caches, GetNode syncs.
filesStat(p) ==
    /\ Step({}) /\ UNCHANGED fWant
    /\ LET r == Lookup(fHeap, p)
       IN r.o # 0 /\ NoFlush(sync(r.h, r.o), {})

\* A long listing caches every entry of the directory.
RECURSIVE CacheAll(_, _, _)
CacheAll(h, i, names) ==
    IF names = {} THEN h
    ELSE LET m == CHOOSE x \in names : TRUE IN CacheAll(Child(h, i, m).h, i, names \ {m})

filesLs(p) ==
    /\ Step({}) /\ UNCHANGED fWant
    /\ LET r == Lookup(fHeap, p)
       IN IsDir(r) /\ NoFlush(CacheAll(r.h, r.o, DOMAIN r.h[r.o].n.e), {})

\* The reader waits for the descriptor lock; its lookup caches.
filesRead(p) ==
    /\ Step({}) /\ UNCHANGED fWant
    /\ LET r == Lookup(fHeap, p)
       IN r.o # 0 /\ r.h[r.o].k = "file" /\ ~Locked(r.o) /\ NoFlush(r.h, {})

filesMkdir(p, flush) ==
    LET d == getParentDir(fHeap, p)
        c == Child(d.h, d.o, Last(p))
        g == Mkdir(c.h, d.o, Last(p))
        u == Flush(g, g[d.o].c[Last(p)])
    IN /\ IsDir(d) /\ c.o = 0
       /\ Command("mkdir", [q \in {p} |-> EmptyDir])
       /\ IF flush THEN Publish(u.h, u.root, {p}) ELSE NoFlush(g, {p})

\* The parent directory is flushed whatever --flush says.
filesRm(p, recursive) ==
    LET d == getParentDir(fHeap, p)
        c == Child(d.h, d.o, Last(p))
        u == Flush(Unlink(c.h, d.o, Last(p)), d.o)
    IN /\ IsDir(d) /\ c.o # 0 /\ (IsDir(c) => recursive)
       /\ Command("rm", [q \in {p} |-> NoNode])
       /\ Publish(u.h, u.root, {p})

\* From a path of MFS; a path that starts with /ipfs/ gives a node from outside.
filesCp(src, dst, flush) ==
    LET s == Lookup(fHeap, src)
        d == getParentDir(sync(s.h, s.o), dst)
        c == Child(d.h, d.o, Last(dst))
        g == AddChild(c.h, d.o, Last(dst), NodeOf(s.h, s.o))
    IN /\ s.o # 0 /\ IsDir(d) /\ c.o = 0
       /\ Command("cp", [q \in {dst} |-> NodeOf(s.h, s.o)])
       /\ IF flush THEN FlushPath(g, dst, {dst}) ELSE NoFlush(g, {dst})

\* mfs.Mv.  A directory at the destination receives the source under its own
\* name; the source is unlinked unless its directory and its name have the
\* names of the destination's.
Mv(src, dst, flush) ==
    LET d == Lookup(fHeap, Front(dst))
        sd == Lookup(d.h, Front(src))
        s == Child(sd.h, sd.o, Last(src))
        node == NodeOf(s.h, s.o)
        c == Child(sync(s.h, s.o), d.o, Last(dst))
        into == IsDir(c)
        dir == IF into THEN c.o ELSE d.o
        name == IF into THEN Last(src) ELSE Last(dst)
        free == IF c.o # 0 /\ ~into THEN Unlink(c.h, d.o, name) ELSE c.h
        e == Child(free, dir, name)
        g == AddChild(e.h, dir, name, node)
        same == g[sd.o].nm = g[dir].nm /\ Last(src) = name
        moved == IF same THEN g ELSE Unlink(g, sd.o, Last(src))
        to == IF into THEN Append(dst, name) ELSE dst
    IN /\ IsDir(d) /\ IsDir(sd) /\ s.o # 0 /\ e.o = 0
       /\ Command("mv", [q \in {src, to} |-> IF q = to THEN node ELSE NoNode])
       /\ IF flush THEN FlushPath(moved, <<>>, {src, to}) ELSE NoFlush(moved, {src, to})

filesMv(src, dst, flush) == Mv(src, dst, flush)

\* The file at a path, created (--create) when there is none.
getFileHandle(h, p) ==
    LET r == Lookup(h, p)
        d == getParentDir(r.h, p)
    IN  IF r.o # 0 \/ ~IsDir(d) THEN r
        ELSE Child(AddChild(d.h, d.o, Last(p), FileNode(0)), d.o, Last(p))

\* Open takes the descriptor lock of the file.
filesWrite(p, flush) ==
    LET f == getFileHandle(fHeap, p)
        fd == [obj |-> f.o, path |-> p, sync |-> flush]
    IN /\ fFd = {} /\ f.o # 0 /\ f.h[f.o].k = "file"
       /\ Step({p}) /\ fWant' = Nothing /\ fFd' = {fd} /\ fHeap' = Sweep(f.h, {fd})
       /\ fKept' = Untouched({p}) /\ UNCHANGED <<fPub, fPend>>

\* No open write belongs to an object that was removed or moved away: such a
\* write ends by putting back the directories its object once had above it.
NoStaleWrite ==
    \A fd \in fFd :
        LET r == Lookup(fHeap, fd.path) IN r.h = fHeap /\ r.o = fd.obj

\* The end of the data: Close puts the new node in the file object and, with
\* --flush, in all its ancestors; it does not wait for the republisher.
filesWriteClose ==
    \E fd \in fFd :
        LET node == FileNode(2)
            g == [fHeap EXCEPT ![fd.obj].n = node]
            u == updateChildEntry(g, fd.obj, node)
            touched == {IF NoStaleWrite THEN fd.path ELSE <<Head(fd.path)>>}
        IN /\ fFd' = fFd \ {fd} /\ fLast' = touched /\ fKept' = Untouched(touched)
           /\ IF fd.sync THEN fHeap' = Sweep(u.h, fFd') /\ fPend' = {u.root}
              ELSE fHeap' = Sweep(g, fFd') /\ UNCHANGED fPend
           /\ fWant' = [op |-> "write", want |-> [q \in {p \in {fd.path} : NoStaleWrite} |-> node]]
           /\ UNCHANGED <<fPub, fCmds>>

-----------------------------------------------------------------------------
(* The republisher stores the last value it was given (Files in            *)
(* core/node/core.go); a restart loads what it stored.                     *)

Republish ==
    \E root \in fPend :
        /\ fPub' = root /\ fPend' = {}
        /\ UNCHANGED <<fHeap, fFd, fKept, fWant, fCmds>> /\ fLast' = {}

Restart ==
    /\ fCmds < MaxCmds /\ fHeap[1].n # fPub
    /\ fHeap' = [j \in 1..MaxObjs |-> IF j = 1 THEN Obj("dir", 0, "", fPub) ELSE NoObj]
    /\ fFd' = {} /\ fPend' = {} /\ fWant' = Nothing /\ fLast' = FDirs \cup FFiles
    /\ UNCHANGED <<fPub, fKept, fCmds>>

FNext ==
    \/ \E p \in FDirs \cup FFiles : filesFlush(p) \/ filesStat(p)
    \/ \E p \in FDirs \cup FFiles, r \in BOOLEAN : filesRm(p, r)
    \/ \E p \in FDirs : filesLs(p)
    \/ \E p \in FFiles : filesRead(p)
    \/ \E p \in FDirs, flush \in BOOLEAN : filesMkdir(p, flush)
    \/ \E p \in FFiles, flush \in BOOLEAN : filesWrite(p, flush)
    \/ \E m \in FMoves, flush \in BOOLEAN :
            filesCp(m[1], m[2], flush) \/ filesMv(m[1], m[2], flush)
    \/ filesWriteClose \/ Republish \/ Restart

FSpec == FInit /\ [][FNext]_fVars

-----------------------------------------------------------------------------

\* What `flush`, `cp` and `mv` answered for is stored: a crash at any later
\* moment finds it, as long as nothing touched the path (files.go:66).
FlushedSurvives == \A p \in DOMAIN fKept : At(fPub, p) = fKept[p]

TouchesOnly ==
    NoStaleWrite =>
        \A p \in FFiles : (\A t \in fLast' : ~Related(p, t)) => At(View', p) = At(View, p)

\* A command changes the tree at the paths it was given and nowhere else: no
\* cached object brings back or hides what another command did.
OnlyTouched == [][TouchesOnly]_fVars

Held == \A p \in DOMAIN fWant.want : At(View, p) = fWant.want[p]

\* A path holds what the last command promised for it, and flushes, reads of
\* the tree and the republisher do not change it: a removed entry does not come
\* back from a cache, a written one is not hidden by an older link.
Effective == fWant.op # "mv" => Held

\* "Move files around. Just like the traditional Unix mv." (files.go:679)
\* Between two directories of the same name the source stays: see the README.
MvMoves == fWant.op = "mv" => Held
=============================================================================
