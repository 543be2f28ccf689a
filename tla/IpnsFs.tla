------------------------------- MODULE IpnsFs -------------------------------
(***************************************************************************)
(* The /ipns mount (fuse/ipns/ipns_unix.go): the tree of the local key is  *)
(* an MFS root of its own, edited by the kernel's requests.  The tree, its *)
(* object caches and the republisher are those of module Files; here the   *)
(* root is published as an IPNS record (ipnsPubFunc) instead of stored.    *)
(***************************************************************************)
EXTENDS Files

VARIABLES
    iLeaked   \* objects whose read lock a refused Open kept

iVars == <<fVars, iLeaked>>

\* loadRoot: the record of the key is resolved and its node becomes the root.
IInit == FInit /\ iLeaked = {}

Busy(o) == Locked(o) \/ o \in iLeaked
\* An object that is gone takes its lock with it.
Keep == iLeaked' = {o \in iLeaked : fHeap'[o].k = "file" /\ fHeap'[o].up = fHeap[o].up}

\* Directory.Lookup and ReadDirAll.
ReadDir(p) == filesLs(p) /\ Keep

DirMkdir(p) == filesMkdir(p, FALSE) /\ Keep

\* A handle for writing; Close and Flush of it always go up to the root.
OpenHandle(f, p) ==
    LET fd == [obj |-> f.o, path |-> p, sync |-> TRUE]
    IN /\ Cardinality(fFd) < 2 /\ ~Busy(f.o)
       /\ Step({p}) /\ fWant' = Nothing /\ fFd' = fFd \cup {fd}
       /\ fHeap' = Sweep(f.h, fFd') /\ fKept' = Untouched({p})
       /\ UNCHANGED <<fPub, fPend>>

\* Directory.Create: AddChild refuses a name that exists.
Create(p) ==
    LET d == getParentDir(fHeap, p)
        f == Child(AddChild(d.h, d.o, Last(p), FileNode(0)), d.o, Last(p))
    IN IsDir(d) /\ Child(d.h, d.o, Last(p)).o = 0 /\ OpenHandle(f, p) /\ Keep

\* FileNode.Open.  A read-only Open that asks for truncation is refused after
\* the read lock was taken, and nobody holds the descriptor that would free it.
Open(p) ==
    LET r == Lookup(fHeap, p)
    IN r.o # 0 /\ r.h[r.o].k = "file" /\ OpenHandle(r, p) /\ Keep

OpenRefused(p) ==
    LET r == Lookup(fHeap, p)
    IN /\ r.o # 0 /\ r.h[r.o].k = "file" /\ ~Locked(r.o)
       /\ Step({}) /\ UNCHANGED fWant
       /\ NoFlush(r.h, {})
       /\ iLeaked' = iLeaked \cup {r.o}

\* File.Write: the data is in the handle's file object.
Write(fd) == [fHeap EXCEPT ![fd.obj].n = FileNode(1)]

HandleFlushHere ==
    \E fd \in fFd :
        LET g == Write(fd)
        IN /\ g # fHeap /\ NoStaleWrite /\ Step({fd.path})
           /\ fWant' = [op |-> "write", want |-> [q \in {fd.path} |-> FileNode(1)]]
           /\ NoFlush(g, {fd.path}) /\ Keep

\* File.Flush on a handle: the data so far goes up to the root.
HandleFlush ==
    \E fd \in fFd :
        LET g == Write(fd)
            u == updateChildEntry(g, fd.obj, FileNode(1))
        IN /\ g # fHeap /\ NoStaleWrite /\ Step({fd.path})
           /\ fWant' = [op |-> "write", want |-> [q \in {fd.path} |-> FileNode(1)]]
           /\ Publish(u.h, u.root, {fd.path}) /\ Keep

\* FileNode.Fsync: mfs.File.Flush opens the file for writing, so it waits for
\* every handle of the file, the caller's own too.
Fsync(p) ==
    LET r == Lookup(fHeap, p)
        u == Flush(r.h, r.o)
    IN /\ r.o # 0 /\ r.h[r.o].k = "file" /\ ~Busy(r.o)
       /\ Step({}) /\ UNCHANGED fWant
       /\ Publish(u.h, u.root, {}) /\ Keep

Release == filesWriteClose /\ Keep

\* Directory.Remove: no flush.
DirRemove(p) ==
    LET d == getParentDir(fHeap, p)
    IN /\ IsDir(d) /\ At(NodeOf(d.h, d.o), <<Last(p)>>) # NoNode
       /\ Command("rm", [q \in {p} |-> NoNode])
       /\ NoFlush(Unlink(d.h, d.o, Last(p)), {p}) /\ Keep

RenamedByCopy(src, dst) ==
    LET sd == getParentDir(fHeap, src)
        s == Child(sd.h, sd.o, Last(src))
        d == getParentDir(s.h, dst)
        c == Child(sync(d.h, s.o), d.o, Last(dst))
    IN [node |-> NodeOf(s.h, s.o), taken |-> c.o # 0, left |-> c.h,
        done |-> AddChild(c.h, d.o, Last(dst), NodeOf(s.h, s.o))]

\* Directory.Rename: the old name is unlinked before the new one is added, and
\* AddChild refuses a name that exists.
Renamed(src, dst) ==
    LET sd == getParentDir(fHeap, src)
        s == Child(sd.h, sd.o, Last(src))
        d == getParentDir(s.h, dst)
        g == Unlink(sync(d.h, s.o), sd.o, Last(src))
        c == Child(g, d.o, Last(dst))
    IN [node |-> NodeOf(s.h, s.o), taken |-> c.o # 0, left |-> c.h,
        done |-> AddChild(c.h, d.o, Last(dst), NodeOf(s.h, s.o))]

Rename(src, dst) ==
    LET r == Renamed(src, dst)
    IN /\ At(View, src) # NoNode /\ At(View, Front(dst)).t = "dir"
       /\ ~Prefix(src, dst)   \* the kernel refuses a move into itself
       /\ Step({src, dst})
       /\ fWant' = [op |-> IF r.taken THEN "rename refused" ELSE "rename",
                    want |-> [q \in {src, dst} |-> IF q = src /\ ~r.taken THEN NoNode
                                                   ELSE IF q = dst /\ r.taken THEN At(View, dst)
                                                   ELSE r.node]]
       /\ NoFlush(IF r.taken THEN r.left ELSE r.done, {src, dst}) /\ Keep

\* Root.Close when the file system is unmounted, and the next mount.
Unmount ==
    /\ fFd = {} /\ fPend' = {} /\ fPub' = View /\ View # fHeap[1].n
    /\ fHeap' = [j \in 1..MaxObjs |-> IF j = 1 THEN Obj("dir", 0, "", View) ELSE NoObj]
    /\ iLeaked' = {} /\ fLast' = {} /\ fCmds < MaxCmds
    /\ UNCHANGED <<fFd, fKept, fWant, fCmds>>

INext ==
    \/ \E p \in FDirs : ReadDir(p) \/ DirMkdir(p)
    \/ \E p \in FFiles : Create(p) \/ Open(p) \/ OpenRefused(p) \/ Fsync(p)
    \/ \E p \in FFiles \cup FDirs : DirRemove(p)
    \/ \E m \in FMoves : Rename(m[1], m[2])
    \/ HandleFlush \/ Release \/ Unmount
    \/ Republish /\ UNCHANGED iLeaked

ISpec == IInit /\ [][INext]_iVars

-----------------------------------------------------------------------------

\* What a request of the kernel did to the tree stays done: through flushes of
\* other handles, through the cache, and through an unmount, which publishes the
\* whole tree (ipns_unix.go:194).  A rename whose new name exists is excepted.
IpnsEffective == fWant.op # "rename refused" => Held

\* Data that Flush or Release of a handle answered for is in the root that the
\* republisher has or has already published (ipns_unix.go:383).
WrittenReachesRoot ==
    fWant.op = "write" =>
        \A p \in DOMAIN fWant.want :
            \A root \in (IF fPend = {} THEN {fPub} ELSE fPend) : At(root, p) = fWant.want[p]
=============================================================================
