------------------------------- MODULE Mounts -------------------------------
(* FUSE mounts (fuse/mount, fuse/node, core/commands/mount_unix.go): mount   *)
(* requests of the API, each mounting /ipfs and /ipns in two goroutines, the *)
(* goroutine that serves a mounted file system, unmounting through the       *)
(* mount's process, and the shutdown of the node, whose process is the       *)
(* parent of every mount's process. A mount is named by its request and      *)
(* its kind.                                                                 *)
EXTENDS Naturals

CONSTANTS MReqs,
          MStuck    \* bound: the mounts that may turn out to resist every way of unmounting

MKinds == {"ipfs", "ipns"}
MIds == MReqs \X MKinds

VARIABLES mReq,       \* request -> idle, unmounting /ipfs, then /ipns, mounting, ok, failed
          mNode,      \* node.Mounts: kind -> its mount, if any
          mStage,     \* mount -> none, serving (waiting for Ready), ok, err
          mServe,     \* mount -> fs.Serve is running
          mActive,    \* mount -> the flag active
          mKernel,    \* mount -> the mountpoint is mounted in the kernel
          mOpen,      \* mount -> its process is open
          mUnmounts,  \* ghost: calls of unmount
          mBusy,      \* ghost: mounts whose unmount failed in every way
          mShut       \* the node's process is closed

mVars == <<mReq, mNode, mStage, mServe, mActive, mKernel, mOpen, mUnmounts, mBusy, mShut>>

MInit ==
    /\ mReq = [c \in MReqs |-> "idle"]
    /\ mNode = [k \in MKinds |-> {}]
    /\ mStage = [i \in MIds |-> "none"]
    /\ mServe = [i \in MIds |-> FALSE]
    /\ mActive = [i \in MIds |-> FALSE]
    /\ mKernel = [i \in MIds |-> FALSE]
    /\ mOpen = [i \in MIds |-> FALSE]
    /\ mUnmounts = [i \in MIds |-> 0]
    /\ mBusy = {} /\ mShut = FALSE

\* The mounts of S that even ten forced unmounts leave in the kernel.
ForceUnmountManyTimes(S) == SUBSET (S \cap MStuck)

\* unmount: fuse.Unmount, closing the connection or a forced unmount succeeds
\* for all of S but `busy`; it clears the flag when it succeeds.
unmountBut(S, busy) ==
    /\ mKernel' = [i \in MIds |-> mKernel[i] /\ (i \notin S \/ i \in busy)]
    /\ mActive' = [i \in MIds |-> mActive[i] /\ (i \notin S \/ i \in busy)]
    /\ mUnmounts' = [i \in MIds |-> mUnmounts[i] + IF i \in S THEN 1 ELSE 0]
    /\ mBusy' = mBusy \cup busy

UnmountDirectly(S) ==   \* mutant: unmount is called outside the process
    LET live == {i \in S : mActive[i]} IN
    /\ \E busy \in ForceUnmountManyTimes(live) : unmountBut(live, busy)
    /\ UNCHANGED mOpen

\* Unmount of the mounts S: one that is not active answers ErrNotMounted; the
\* others close their process, which runs unmount the first time only.
Unmount(S) ==
    LET live == {i \in S : mActive[i] /\ mOpen[i]} IN
    /\ \E busy \in ForceUnmountManyTimes(live) : unmountBut(live, busy)
    /\ mOpen' = [i \in MIds |-> mOpen[i] /\ i \notin live]

\* `ipfs mount`, or `ipfs daemon --mount`, on an online node.
Mount(c) ==
    /\ mReq[c] = "idle" /\ ~mShut
    /\ mReq' = [mReq EXCEPT ![c] = "ipfs"]
    /\ UNCHANGED <<mNode, mStage, mServe, mActive, mKernel, mOpen, mUnmounts, mBusy, mShut>>

\* Close a live mount recorded in node.Mounts: /ipfs first, then /ipns.
UnmountOld(c, k) ==
    /\ mReq[c] = k
    /\ Unmount(mNode[k])
    /\ mReq' = [mReq EXCEPT ![c] = IF k = "ipfs" THEN "ipns" ELSE "mounting"]
    /\ UNCHANGED <<mNode, mStage, mServe, mShut>>

NewMountOrphan(i) ==   \* mutant: the mount's process is not linked to its parent
    /\ mReq[i[1]] = "mounting" /\ mStage[i] = "none"
    /\ mStage' = [mStage EXCEPT ![i] = "serving"]
    /\ mKernel' = [mKernel EXCEPT ![i] = TRUE]
    /\ mServe' = [mServe EXCEPT ![i] = TRUE]
    /\ UNCHANGED <<mOpen, mReq, mNode, mActive, mUnmounts, mBusy, mShut>>

\* NewMount: fuse.Mount succeeds and fs.Serve starts. A node that is closing
\* closes the new process, and unmounts, at once.
NewMount(i) ==
    /\ mReq[i[1]] = "mounting" /\ mStage[i] = "none"
    /\ mStage' = [mStage EXCEPT ![i] = "serving"]
    /\ \/ /\ ~mShut
          /\ mOpen' = [mOpen EXCEPT ![i] = TRUE]
          /\ mKernel' = [mKernel EXCEPT ![i] = TRUE]
          /\ UNCHANGED <<mUnmounts, mBusy>>
       \/ /\ mShut
          /\ mUnmounts' = [mUnmounts EXCEPT ![i] = @ + 1]
          /\ \E busy \in ForceUnmountManyTimes({i}) :
                mBusy' = mBusy \cup busy /\ mKernel' = [mKernel EXCEPT ![i] = (i \in busy)]
          /\ UNCHANGED mOpen
    /\ mServe' = [mServe EXCEPT ![i] = TRUE]
    /\ UNCHANGED <<mReq, mNode, mActive, mShut>>

\* fuse.Mount fails, or the configuration or the file system cannot be read.
NewMountFails(i) ==
    /\ mReq[i[1]] = "mounting" /\ mStage[i] = "none"
    /\ mStage' = [mStage EXCEPT ![i] = "err"]
    /\ UNCHANGED <<mReq, mNode, mServe, mActive, mKernel, mOpen, mUnmounts, mBusy, mShut>>

\* mount's select: the connection is ready and the flag is set, even when
\* fs.Serve has returned meanwhile.
MountReady(i) ==
    /\ mStage[i] = "serving"
    /\ mStage' = [mStage EXCEPT ![i] = "ok"]
    /\ mActive' = [mActive EXCEPT ![i] = TRUE]
    /\ UNCHANGED <<mReq, mNode, mServe, mKernel, mOpen, mUnmounts, mBusy, mShut>>

\* An error or the timeout comes first: the "just in case" Unmount finds the
\* flag unset and does nothing.
MountFails(i) ==
    /\ mStage[i] = "serving"
    /\ mStage' = [mStage EXCEPT ![i] = "err"]
    /\ Unmount({i})
    /\ UNCHANGED <<mReq, mNode, mServe, mShut>>

\* fs.Serve returns: the mount is gone from the kernel, or its connection broke.
ServeEnds(i) ==
    /\ mServe[i]
    /\ mServe' = [mServe EXCEPT ![i] = FALSE]
    /\ mActive' = [mActive EXCEPT ![i] = FALSE]
    /\ mKernel' \in {mKernel, [mKernel EXCEPT ![i] = FALSE]}
    /\ UNCHANGED <<mReq, mNode, mStage, mOpen, mUnmounts, mBusy, mShut>>

Settled(c) == \A k \in MKinds : mStage[<<c, k>>] \in {"ok", "err"}

\* doMount after wg.Wait: both are recorded in the node.
MountBoth(c) ==
    /\ mReq[c] = "mounting" /\ \A k \in MKinds : mStage[<<c, k>>] = "ok"
    /\ mReq' = [mReq EXCEPT ![c] = "ok"]
    /\ mNode' = [k \in MKinds |-> {<<c, k>>}]
    /\ UNCHANGED <<mStage, mServe, mActive, mKernel, mOpen, mUnmounts, mBusy, mShut>>

UndoNothing(c) ==   \* mutant: the mount that worked is left mounted
    /\ mReq[c] = "mounting" /\ Settled(c) /\ \E k \in MKinds : mStage[<<c, k>>] = "err"
    /\ mReq' = [mReq EXCEPT ![c] = "failed"]
    /\ UNCHANGED <<mNode, mStage, mServe, mActive, mKernel, mOpen, mUnmounts, mBusy, mShut>>

\* One of the two failed: unmount the other.
MountUndone(c) ==
    /\ mReq[c] = "mounting" /\ Settled(c) /\ \E k \in MKinds : mStage[<<c, k>>] = "err"
    /\ mReq' = [mReq EXCEPT ![c] = "failed"]
    /\ Unmount({<<c, k>> : k \in {x \in MKinds : mStage[<<c, x>>] = "ok"}})
    /\ UNCHANGED <<mNode, mStage, mServe, mShut>>

\* The node's process closes and with it the process of every mount.
Shutdown ==
    LET open == {i \in MIds : mOpen[i]} IN
    /\ ~mShut /\ mShut' = TRUE
    /\ \E busy \in ForceUnmountManyTimes(open) : unmountBut(open, busy)
    /\ mOpen' = [i \in MIds |-> FALSE]
    /\ UNCHANGED <<mReq, mNode, mStage, mServe>>

MNext ==
    \/ Shutdown
    \/ \E c \in MReqs : \/ Mount(c) \/ MountBoth(c) \/ MountUndone(c)
                        \/ \E k \in MKinds : UnmountOld(c, k)
    \/ \E i \in MIds : \/ NewMount(i) \/ NewMountFails(i) \/ MountReady(i) \/ MountFails(i)
                       \/ ServeEnds(i)

MSpec == MInit /\ [][MNext]_mVars

-----------------------------------------------------------------------------

\* After the node has closed, nothing it mounted is left in the kernel, except
\* where every way of unmounting failed: not a mount that timed out half-way,
\* not one another request replaced in node.Mounts, not one still being made.
NoMountOutlivesNode == mShut => \A i \in MIds : mKernel[i] => i \in mBusy

\* unmount "is called exactly once to unmount this service", whoever asks:
\* another request, the undoing of a half-done request, the shutdown.
UnmountOnce == \A i \in MIds : mUnmounts[i] <= 1

\* When one of the two file systems cannot be mounted, the request fails and
\* the other one is not left mounted and served.
HalfMountUndone ==
    \A c \in MReqs, k \in MKinds :
        mReq[c] = "failed" /\ mStage[<<c, k>>] = "ok" =>
            \/ ~mKernel[<<c, k>>] \/ <<c, k>> \in mBusy \/ ~mServe[<<c, k>>]

\* No mount is left behind: none outlives the node, and none the request that mounted it together
\* with one that failed, unless every way of unmounting it failed; none is unmounted twice (teardown
\* of mount, doMount).
NoMountLeft == UnmountOnce /\ NoMountOutlivesNode /\ HalfMountUndone
=============================================================================
