----------------------------- MODULE NodeProofs -----------------------------
(***************************************************************************)
(* Proofs about the small parts of a node: the limit of open files, the    *)
(* plugin loader, the FUSE mounts, the key store and the notifier.  Each   *)
(* has an inductive invariant, named for what it records.                  *)
(***************************************************************************)
EXTENDS Keys, Mounts, PluginLoader, Notifier, FdLimit, FiniteSetTheorems, TLAPS

\* Leaves are first-order unless they cite SMT.
USE Zenon

-----------------------------------------------------------------------------
(* The limit of open files.                                                *)

FdInv == fdSoft \in Nat /\ fdHard \in Nat /\ fdUser \in Nat /\ SilenceMeansEnough

LEMMA FdStep == FdInv /\ [FdNext]_fdVars => FdInv'
<1> SUFFICES ASSUME FdInv, [FdNext]_fdVars PROVE FdInv'
    OBVIOUS
<1> USE FdAssumption DEF FdInv, SilenceMeansEnough, Ret
<1>1. targetLimit \in Nat /\ targetLimit >= (IF fdUser > 0 THEN fdUser ELSE MinFds)
    BY SMT DEF targetLimit
<1>2. CASE ManageFdLimit
    <2>0. UNCHANGED <<fdUser, fdRoot>> /\ ~fdRet.done
        BY <1>2 DEF ManageFdLimit
    <2>1. CASE targetLimit <= fdSoft
        <3>1. UNCHANGED <<fdSoft, fdHard>>
            BY <1>2, <2>1 DEF ManageFdLimit
        <3> QED
            BY SMT, <1>1, <2>0, <2>1, <3>1
    <2>2. CASE /\ fdSoft' = targetLimit /\ fdHard' = targetLimit
               /\ Ret(targetLimit, "nil")
        BY <1>1, <2>0, <2>2
    <2>3. CASE SetSoft /\ UNCHANGED fdHard
        <3> DEFINE new == IF targetLimit > fdHard THEN fdHard ELSE targetLimit
        <3>1. new \in Nat
            BY <1>1
        <3> DEFINE low == new < fdUser \/ (fdUser = 0 /\ new < MinFds)
        <3>2. \/ fdRet' = [done |-> TRUE, new |-> 0, err |-> "without hard limit"] /\ fdSoft' = fdSoft
              \/ fdRet' = [done |-> TRUE, new |-> new, err |-> "too low"] /\ fdSoft' = new
              \/ ~low /\ fdRet' = [done |-> TRUE, new |-> new, err |-> "nil"] /\ fdSoft' = new
            BY <2>3 DEF SetSoft
        <3>3. fdHard' \in Nat /\ fdUser' = fdUser
            BY <2>0, <2>3
        <3> HIDE DEF new
        <3>4. fdSoft' \in Nat
            BY <3>1, <3>2
        <3> HIDE DEF low
        <3>5. fdRet'.err = "nil" => fdSoft' = new /\ ~low
            <4>1. CASE fdRet' = [done |-> TRUE, new |-> 0, err |-> "without hard limit"]
                BY <4>1
            <4>2. CASE fdRet' = [done |-> TRUE, new |-> new, err |-> "too low"]
                BY <4>2
            <4>3. CASE ~low /\ fdSoft' = new
                BY <4>3
            <4> QED
                BY <3>2, <4>1, <4>2, <4>3
        <3> USE DEF low
        <3> QED
            BY SMT, <3>1, <3>3, <3>4, <3>5
    <2>4. CASE Ret(0, "error setting") /\ UNCHANGED <<fdSoft, fdHard>>
        BY <2>0, <2>4
    <2> QED
        BY <1>2, <2>1, <2>2, <2>3, <2>4 DEF ManageFdLimit
<1>3. CASE UNCHANGED fdVars
    BY <1>3 DEF fdVars
<1> QED
    BY <1>2, <1>3 DEF FdNext

\* ManageFdLimit that returns no error has left the process the limit the user asked for, or
\* the minimum, whatever the limits it started with, its privilege and the kernel's answers.
THEOREM EnoughFds == FdSpec => []SilenceMeansEnough
<1>1. FdInit => FdInv
    BY SMT, FdAssumption DEF FdInit, FdInv, SilenceMeansEnough
<1>2. FdInv => SilenceMeansEnough
    BY DEF FdInv
<1> QED
    BY <1>1, <1>2, FdStep, PTL DEF FdSpec

-----------------------------------------------------------------------------
(* The plugin loader.                                                      *)

\* What each state of the loader says of the plugins.
PluginInv ==
    /\ lLoaded \subseteq Plugins /\ lRan \subseteq Plugins
    /\ lNext \in Nat \ {0}
    /\ lCloses \in [Plugins -> Nat]
    /\ lState \in {"loading", "none"} => lInited = {} /\ lInjected = {}
    /\ lState = "initialized" => lInited = lLoaded /\ lInjected = {}
    /\ lState \in {"injected", "starting", "started"} => lInited = lLoaded /\ lInjected = lLoaded
    /\ lState \in {"loading", "none", "initialized", "injected", "starting"} => lRan = {}
    /\ lState \notin {"closed", "failed"} =>
          lStarted = lRan /\ \A p \in Plugins : lCloses[p] = 0
    /\ Loaded \/ lState \in {"loading", "none"}
    /\ PluginsKept

LEMMA PluginStep == PluginInv /\ [LNext]_lVars => PluginInv'
<1> SUFFICES ASSUME PluginInv, [LNext]_lVars PROVE PluginInv'
    OBVIOUS
<1> USE DEF PluginInv, PluginsKept, PhaseOrder, EveryStartedClosed, Loaded, Transition
<1>1. CASE LoadNext
    <2>1. lNext \in DOMAIN PlFiles
        BY SMT, <1>1, PluginsAssumption DEF LoadNext
    <2>2. PlFiles[lNext] \in Plugins
        BY <2>1 DEF Plugins
    <2>3. lLoaded' \subseteq Plugins
        BY <1>1, <2>2 DEF LoadNext, Load
    <2> QED
        BY SMT, <1>1, <2>3 DEF LoadNext
<1>2. CASE LoadFails
    BY <1>2 DEF LoadFails
<1>3. CASE Initialize
    BY <1>3 DEF Initialize
<1>4. CASE Inject
    BY <1>4 DEF Inject
<1>5. CASE Start
    BY SMT, <1>5 DEF Start, CloseAll
<1>6. CASE StartNoAPI
    BY <1>6 DEF StartNoAPI
<1>7. CASE Close
    BY SMT, <1>7 DEF Close, CloseAll
<1>8. CASE UNCHANGED lVars
    BY <1>8 DEF lVars
<1> QED
    BY <1>1, <1>2, <1>3, <1>4, <1>5, <1>6, <1>7, <1>8 DEF LNext

\* In whatever order the methods of the loader are called and whichever plugins fail, none is
\* injected or started too early, and every started one is closed exactly once (transition,
\* Start, Close), for any plugins, names and configuration.
THEOREM PluginsInOrder == LSpec => []PluginsKept
<1>1. LInit => PluginInv
    BY SMT DEF LInit, PluginInv, PluginsKept, PhaseOrder, EveryStartedClosed
<1>2. PluginInv => PluginsKept
    BY DEF PluginInv
<1> QED
    BY <1>1, <1>2, PluginStep, PTL DEF LSpec

-----------------------------------------------------------------------------
(* The FUSE mounts.                                                        *)

\* A mount's process is open until the one unmount it is good for; what is in the kernel
\* has an open process or resisted; a mount that is ready and not active is not served, is
\* out of the kernel, or resisted.
MountInv ==
    /\ mReq \in [MReqs -> {"idle", "ipfs", "ipns", "mounting", "ok", "failed"}]
    /\ mStage \in [MIds -> {"none", "serving", "ok", "err"}]
    /\ mServe \in [MIds -> BOOLEAN] /\ mActive \in [MIds -> BOOLEAN]
    /\ mKernel \in [MIds -> BOOLEAN] /\ mOpen \in [MIds -> BOOLEAN]
    /\ mUnmounts \in [MIds -> {0, 1}]
    /\ \A i \in MIds :
          /\ mOpen[i] => mUnmounts[i] = 0 /\ ~mShut
          /\ mStage[i] = "none" => mUnmounts[i] = 0 /\ ~mOpen[i] /\ ~mKernel[i]
          /\ mKernel[i] => mOpen[i] \/ i \in mBusy
          /\ mStage[i] = "ok" /\ ~mActive[i] => ~mServe[i] \/ ~mKernel[i] \/ i \in mBusy
          /\ mActive[i] => mStage[i] = "ok"
    /\ \A c \in MReqs : mReq[c] = "failed" => Settled(c)
    /\ HalfMountUndone

\* Unmounting S through its processes keeps what is true of each mount, and leaves the
\* mounts of S that were active inactive, out of the kernel or resisting.
LEMMA UnmountKeeps ==
    ASSUME MountInv, NEW S, S \subseteq MIds,
           Unmount(S), UNCHANGED <<mServe, mShut>>
    PROVE  /\ mActive' \in [MIds -> BOOLEAN] /\ mKernel' \in [MIds -> BOOLEAN]
           /\ mOpen' \in [MIds -> BOOLEAN] /\ mUnmounts' \in [MIds -> {0, 1}]
           /\ mBusy \subseteq mBusy'
           /\ \A i \in MIds :
                 /\ mOpen'[i] => mOpen[i] /\ mUnmounts'[i] = 0
                 /\ mKernel'[i] => mKernel[i] /\ (mOpen'[i] \/ i \in mBusy')
                 /\ mActive'[i] => mActive[i]
                 /\ mStage[i] = "none" => mUnmounts'[i] = 0
                 /\ mActive[i] /\ ~mActive'[i] => ~mKernel'[i] \/ i \in mBusy'
                 /\ i \in S /\ mActive[i] => ~mKernel'[i] \/ i \in mBusy'
<1> DEFINE live == {i \in S : mActive[i] /\ mOpen[i]}
<1>1. PICK busy \in SUBSET (live \cap MStuck) : unmountBut(live, busy)
    BY DEF Unmount, ForceUnmountManyTimes
<1>2. mOpen' = [i \in MIds |-> mOpen[i] /\ i \notin live]
    BY DEF Unmount
<1>3. /\ mKernel' = [i \in MIds |-> mKernel[i] /\ (i \notin live \/ i \in busy)]
      /\ mActive' = [i \in MIds |-> mActive[i] /\ (i \notin live \/ i \in busy)]
      /\ mUnmounts' = [i \in MIds |-> mUnmounts[i] + IF i \in live THEN 1 ELSE 0]
      /\ mBusy' = mBusy \cup busy
    BY <1>1 DEF unmountBut
<1>4. /\ mActive' \in [MIds -> BOOLEAN] /\ mKernel' \in [MIds -> BOOLEAN]
      /\ mOpen' \in [MIds -> BOOLEAN]
    BY <1>2, <1>3 DEF MountInv
<1>5. \A i \in MIds : /\ mUnmounts'[i] \in {0, 1}
                      /\ mOpen'[i] => mOpen[i] /\ mUnmounts'[i] = 0
                      /\ mStage[i] = "none" => mUnmounts'[i] = 0
    <2> TAKE i \in MIds
    <2>1. /\ mUnmounts'[i] = mUnmounts[i] + IF i \in live THEN 1 ELSE 0
          /\ mOpen'[i] <=> mOpen[i] /\ i \notin live
        BY <1>2, <1>3
    <2>2. i \in live => mOpen[i]
        OBVIOUS
    <2>3. /\ mUnmounts[i] \in {0, 1} /\ (mOpen[i] => mUnmounts[i] = 0)
          /\ mStage[i] = "none" => ~mOpen[i] /\ mUnmounts[i] = 0
        BY DEF MountInv
    <2> HIDE DEF live
    <2> QED
        BY SMT, <2>1, <2>2, <2>3
<1>6. mUnmounts' \in [MIds -> {0, 1}]
    BY <1>3, <1>5
<1>7. \A i \in MIds :
         /\ mKernel'[i] => mKernel[i] /\ (mOpen'[i] \/ i \in mBusy')
         /\ mActive'[i] => mActive[i]
         /\ mActive[i] /\ ~mActive'[i] => ~mKernel'[i] \/ i \in mBusy'
         /\ i \in S /\ mActive[i] => ~mKernel'[i] \/ i \in mBusy'
    <2> TAKE i \in MIds
    <2>1. /\ mKernel'[i] <=> mKernel[i] /\ (i \notin live \/ i \in busy)
          /\ mActive'[i] <=> mActive[i] /\ (i \notin live \/ i \in busy)
          /\ mOpen'[i] <=> mOpen[i] /\ i \notin live
          /\ i \in mBusy' <=> i \in mBusy \/ i \in busy
        BY <1>2, <1>3
    <2>2. i \in live <=> i \in S /\ mActive[i] /\ mOpen[i]
        OBVIOUS
    <2>3. mKernel[i] => mOpen[i] \/ i \in mBusy
        BY DEF MountInv
    <2> HIDE DEF live
    <2> QED
        BY <2>1, <2>2, <2>3
<1> QED
    BY <1>3, <1>4, <1>5, <1>6, <1>7

LEMMA MountRequests ==
    ASSUME MountInv, NEW c \in MReqs, NEW k \in MKinds,
           mNode \in [MKinds -> SUBSET MIds],
           Mount(c) \/ MountBoth(c) \/ MountUndone(c) \/ UnmountOld(c, k)
    PROVE  MountInv'
<1>1. CASE Mount(c)
    BY SMT, <1>1 DEF Mount, MountInv, HalfMountUndone, Settled
<1>2. CASE MountBoth(c)
    BY SMT, <1>2 DEF MountBoth, MountInv, HalfMountUndone, Settled
<1>3. CASE MountUndone(c)
    <2> DEFINE S == {<<c, x>> : x \in {y \in MKinds : mStage[<<c, y>>] = "ok"}}
    <2>1. /\ mReq' = [mReq EXCEPT ![c] = "failed"] /\ Unmount(S) /\ Settled(c)
          /\ UNCHANGED <<mStage, mServe, mShut>>
        BY <1>3 DEF MountUndone
    <2>2. S \subseteq MIds
        <3> SUFFICES ASSUME NEW s \in S PROVE s \in MIds
            OBVIOUS
        <3>1. PICK x \in MKinds : s = <<c, x>>
            OBVIOUS
        <3> QED
            BY <3>1 DEF MIds
    <2>3. \A x \in MKinds : <<c, x>> \in MIds /\ (mStage[<<c, x>>] = "ok" => <<c, x>> \in S)
        BY DEF MIds
    <2> HIDE DEF S
    <2> QED
        BY SMT, <2>1, <2>2, <2>3, UnmountKeeps DEF MountInv, HalfMountUndone, Settled, MIds
<1>4. CASE UnmountOld(c, k)
    <2>1. /\ mReq' = [mReq EXCEPT ![c] = IF k = "ipfs" THEN "ipns" ELSE "mounting"]
          /\ Unmount(mNode[k]) /\ UNCHANGED <<mStage, mServe, mShut>>
        BY <1>4 DEF UnmountOld
    <2> QED
        BY SMT, <2>1, UnmountKeeps DEF MountInv, HalfMountUndone, Settled, MIds
<1> QED
    BY <1>1, <1>2, <1>3, <1>4

LEMMA MountSteps ==
    ASSUME MountInv, NEW i \in MIds,
           NewMount(i) \/ NewMountFails(i) \/ MountReady(i) \/ MountFails(i) \/ ServeEnds(i)
    PROVE  MountInv'
<1>0. /\ i[1] \in MReqs /\ i[2] \in MKinds /\ i = <<i[1], i[2]>>
      /\ \A c \in MReqs, k \in MKinds : <<c, k>> \in MIds
    BY SMT DEF MIds
<1>1. CASE NewMount(i)
    <2>1. /\ mReq[i[1]] = "mounting" /\ mStage[i] = "none"
          /\ mStage' = [mStage EXCEPT ![i] = "serving"] /\ mServe' = [mServe EXCEPT ![i] = TRUE]
          /\ UNCHANGED <<mReq, mActive, mShut>>
        BY <1>1 DEF NewMount
    <2>2. /\ mBusy \subseteq mBusy'
          /\ mOpen' \in [MIds -> BOOLEAN] /\ mKernel' \in [MIds -> BOOLEAN]
          /\ mUnmounts' \in [MIds -> {0, 1}]
          /\ mOpen'[i] => mUnmounts'[i] = 0 /\ ~mShut
          /\ mKernel'[i] => mOpen'[i] \/ i \in mBusy'
          /\ \A j \in MIds \ {i} : /\ mOpen'[j] = mOpen[j] /\ mKernel'[j] = mKernel[j]
                                   /\ mUnmounts'[j] = mUnmounts[j]
        <3>1. CASE ~mShut
            <4>1. /\ mOpen' = [mOpen EXCEPT ![i] = TRUE] /\ mKernel' = [mKernel EXCEPT ![i] = TRUE]
                  /\ UNCHANGED <<mUnmounts, mBusy>>
                BY <1>1, <3>1 DEF NewMount
            <4>2. mUnmounts[i] = 0
                BY <2>1 DEF MountInv
            <4> QED
                BY <3>1, <4>1, <4>2 DEF MountInv
        <3>2. CASE mShut
            <4>1. /\ mUnmounts' = [mUnmounts EXCEPT ![i] = @ + 1] /\ mOpen' = mOpen
                BY <1>1, <3>2 DEF NewMount
            <4>2. PICK busy \in ForceUnmountManyTimes({i}) :
                     mBusy' = mBusy \cup busy /\ mKernel' = [mKernel EXCEPT ![i] = (i \in busy)]
                BY <1>1, <3>2 DEF NewMount
            <4>3. mKernel' \in [MIds -> BOOLEAN] /\ (mKernel'[i] => i \in busy)
                <5>1. (i \in busy) \in BOOLEAN /\ mKernel \in [MIds -> BOOLEAN]
                    BY SMT DEF MountInv
                <5>2. mKernel' \in [MIds -> BOOLEAN]
                    BY <4>2, <5>1
                <5>3. mKernel'[i] = (i \in busy)
                    BY <4>2, <5>1
                <5> QED
                    BY <5>2, <5>3
            <4>4. mUnmounts' \in [MIds -> {0, 1}]
                BY SMT, <2>1, <4>1 DEF MountInv
            <4> QED
                BY SMT, <2>1, <4>1, <4>2, <4>3, <4>4 DEF MountInv
        <3> QED
            BY <3>1, <3>2
    <2>3. /\ mStage' \in [MIds -> {"none", "serving", "ok", "err"}]
          /\ mServe' \in [MIds -> BOOLEAN] /\ mStage'[i] = "serving"
          /\ \A j \in MIds \ {i} : mStage'[j] = mStage[j] /\ mServe'[j] = mServe[j]
        BY <2>1 DEF MountInv
    <2>4. \A c \in MReqs, k \in MKinds : mReq[c] = "failed" => <<c, k>> # i
        BY SMT, <1>0, <2>1
    <2>5. HalfMountUndone' /\ \A c \in MReqs : mReq'[c] = "failed" => Settled(c)'
        BY SMT, <1>0, <2>1, <2>2, <2>3, <2>4 DEF MountInv, HalfMountUndone, Settled
    <2>6. ~mActive[i]
        BY <2>1 DEF MountInv
    <2> QED
        BY SMT, <2>1, <2>2, <2>3, <2>5, <2>6 DEF MountInv
<1>2. CASE NewMountFails(i)
    BY SMT, <1>0, <1>2 DEF NewMountFails, MountInv, HalfMountUndone, Settled
<1>3. CASE MountReady(i)
    BY SMT, <1>0, <1>3 DEF MountReady, MountInv, HalfMountUndone, Settled
<1>4. CASE MountFails(i)
    <2>1. /\ mStage' = [mStage EXCEPT ![i] = "err"] /\ mStage[i] = "serving" /\ Unmount({i})
          /\ UNCHANGED <<mReq, mServe, mShut>>
        BY <1>4 DEF MountFails
    <2> QED
        BY SMT, <1>0, <2>1, UnmountKeeps DEF MountInv, HalfMountUndone, Settled
<1>5. CASE ServeEnds(i)
    <2>1. /\ mServe' = [mServe EXCEPT ![i] = FALSE] /\ mActive' = [mActive EXCEPT ![i] = FALSE]
          /\ UNCHANGED <<mReq, mStage, mOpen, mUnmounts, mBusy, mShut>>
        BY <1>5 DEF ServeEnds
    <2>2. CASE mKernel' = mKernel
        BY SMT, <1>0, <2>1, <2>2 DEF MountInv, HalfMountUndone, Settled
    <2>3. CASE mKernel' = [mKernel EXCEPT ![i] = FALSE]
        BY SMT, <1>0, <2>1, <2>3 DEF MountInv, HalfMountUndone, Settled
    <2> QED
        BY <1>5, <2>2, <2>3 DEF ServeEnds
<1> QED
    BY <1>1, <1>2, <1>3, <1>4, <1>5

LEMMA MountShutdown == MountInv /\ Shutdown => MountInv'
<1> SUFFICES ASSUME MountInv, Shutdown PROVE MountInv'
    OBVIOUS
<1> DEFINE open == {i \in MIds : mOpen[i]}
<1>1. /\ mOpen' = [i \in MIds |-> FALSE]
      /\ UNCHANGED <<mReq, mStage, mServe>>
    BY DEF Shutdown
<1>2. PICK busy \in SUBSET (open \cap MStuck) : unmountBut(open, busy)
    BY DEF Shutdown, ForceUnmountManyTimes
<1>3. /\ mKernel' = [i \in MIds |-> mKernel[i] /\ (i \notin open \/ i \in busy)]
      /\ mActive' = [i \in MIds |-> mActive[i] /\ (i \notin open \/ i \in busy)]
      /\ mUnmounts' = [i \in MIds |-> mUnmounts[i] + IF i \in open THEN 1 ELSE 0]
      /\ mBusy' = mBusy \cup busy
    BY <1>2 DEF unmountBut
<1>4. mActive' \in [MIds -> BOOLEAN] /\ mKernel' \in [MIds -> BOOLEAN]
    BY <1>3
<1>5. \A i \in MIds : /\ mUnmounts'[i] \in {0, 1} /\ ~mOpen'[i]
                      /\ mStage[i] = "none" => mUnmounts'[i] = 0
                      /\ mKernel'[i] => mKernel[i] /\ i \in mBusy'
                      /\ mActive'[i] => mActive[i]
    <2> TAKE i \in MIds
    <2>1. /\ mUnmounts'[i] = mUnmounts[i] + IF i \in open THEN 1 ELSE 0
          /\ mKernel'[i] <=> mKernel[i] /\ (i \notin open \/ i \in busy)
          /\ mActive'[i] => mActive[i]
          /\ i \in mBusy' <=> i \in mBusy \/ i \in busy
          /\ ~mOpen'[i]
        BY <1>1, <1>3
    <2>2. i \in open <=> mOpen[i]
        OBVIOUS
    <2>3. /\ mUnmounts[i] \in {0, 1} /\ (mOpen[i] => mUnmounts[i] = 0)
          /\ mStage[i] = "none" => ~mOpen[i] /\ mUnmounts[i] = 0
          /\ mKernel[i] => mOpen[i] \/ i \in mBusy
        BY DEF MountInv
    <2> HIDE DEF open
    <2> QED
        BY SMT, <2>1, <2>2, <2>3
<1>6. mUnmounts' \in [MIds -> {0, 1}]
    BY <1>3, <1>5
<1>7. \A c \in MReqs, k \in MKinds : <<c, k>> \in MIds
    BY DEF MIds
<1> HIDE DEF open
<1> QED
    BY <1>1, <1>4, <1>5, <1>6, <1>7 DEF MountInv, HalfMountUndone, Settled

\* After the node has closed nothing it mounted is left in the kernel unless it resisted every
\* way of unmounting, no mount is unmounted twice, and a request that fails leaves no mount
\* served, for any number of concurrent requests (NewMount, Unmount, doMount).
THEOREM MountsUndone == MSpec => []NoMountLeft
<1> DEFINE NodeMounts == mNode \in [MKinds -> SUBSET MIds]
<1>1. MInit => MountInv /\ NodeMounts
    BY SMT DEF MInit, MountInv, HalfMountUndone
<1>2. NodeMounts /\ [MNext]_mVars => NodeMounts'
    <2> SUFFICES ASSUME NodeMounts, [MNext]_mVars PROVE NodeMounts'
        OBVIOUS
    <2>1. \/ UNCHANGED mNode
          \/ \E c \in MReqs : mNode' = [k \in MKinds |-> {<<c, k>>}]
        BY DEF MNext, mVars, Shutdown, Mount, MountBoth, MountUndone, UnmountOld, NewMount,
               NewMountFails, MountReady, MountFails, ServeEnds
    <2> QED
        BY SMT, <2>1 DEF MIds
<1>3. MountInv /\ NodeMounts /\ [MNext]_mVars => MountInv'
    <2> SUFFICES ASSUME MountInv, NodeMounts, [MNext]_mVars PROVE MountInv'
        OBVIOUS
    <2>1. CASE UNCHANGED mVars
        BY <2>1 DEF mVars, MountInv, HalfMountUndone, Settled
    <2>2. "ipfs" \in MKinds
        BY DEF MKinds
    <2> QED
        BY <2>1, <2>2, MountShutdown, MountRequests, MountSteps DEF MNext
<1>4. MountInv => NoMountLeft
    BY SMT DEF MountInv, NoMountLeft, UnmountOnce, NoMountOutlivesNode
<1> QED
    BY <1>1, <1>2, <1>3, <1>4, PTL DEF MSpec

-----------------------------------------------------------------------------
(* The key store.                                                          *)

KeyTypes ==
    /\ kStore \in [KNames -> KKeys \cup KThreads \cup {KNone}]
    /\ kIdent \in KKeys /\ kOwed \subseteq KKeys
    /\ kRotate \in KNames \cup {KNone} /\ kRaced \in BOOLEAN
    /\ kAt \in [KThreads -> {"idle", "clear", "create", "write", "delete"}]
    /\ kOld \in [KThreads -> KNames \cup {KNone}] /\ kNew \in [KThreads -> KNames \cup {KNone}]
    /\ kKey \in [KThreads -> KKeys \cup {KNone}]
    /\ kForce \in [KThreads -> BOOLEAN]
    /\ \A t \in KThreads :
          /\ kAt[t] # "idle" => kKey[t] \in KKeys
          /\ kAt[t] \in {"clear", "create", "write"} => kNew[t] \in KNames
          /\ kAt[t] \in {"clear", "delete"} => kOld[t] \in KNames

\* A request that runs alone: the key it read is still under its old name, the file it
\* created is still its own, and the key it wrote is under the new name.
AloneInv(t) ==
    kAt[t] # "idle" =>
        /\ kRotate = KNone
        /\ \A u \in KThreads \ {t} : kAt[u] = "idle"
        /\ kOld[t] # KNone => kStore[kOld[t]] = kKey[t] /\ kNew[t] # kOld[t]
        /\ kAt[t] = "write" => kStore[kNew[t]] = t
        /\ kAt[t] = "delete" /\ kNew[t] # KNone => kStore[kNew[t]] = kKey[t]

Safe(k) == k = kIdent \/ \E n \in KNames : kStore[n] = k

LEMMA KeyTypesKept == KeyTypes /\ [KNext]_kVars => KeyTypes'
<1> SUFFICES ASSUME KeyTypes, [KNext]_kVars PROVE KeyTypes'
    OBVIOUS
<1> USE DEF KeyTypes
<1>1. ASSUME NEW t \in KThreads, NEW old \in KNames \cup {KNone}, NEW new \in KNames \cup {KNone},
             NEW key \in KKeys, NEW force \in BOOLEAN, NEW at \in {"clear", "create", "delete"},
             BeginRequest(t, old, new, key, force, at),
             at \in {"clear", "create"} => new \in KNames,
             at \in {"clear", "delete"} => old \in KNames
      PROVE  KeyTypes'
    BY <1>1 DEF BeginRequest
<1>2. ASSUME NEW t \in KThreads, End(t), kStore' \in [KNames -> KKeys \cup KThreads \cup {KNone}],
             kOwed' \subseteq KKeys, UNCHANGED <<kIdent, kRotate, kRaced>>
      PROVE  KeyTypes'
    BY <1>2 DEF End
<1>3. ASSUME NEW t \in KThreads, KeyGen(t) \/ KeyImport(t) \/ KeyRename(t) \/ KeyRm(t)
      PROVE  KeyTypes'
    <2>1. CASE KeyGen(t)
        BY <1>1, <2>1 DEF KeyGen, Generate, NewKeys
    <2>2. CASE KeyImport(t)
        BY <1>1, <2>2 DEF KeyImport
    <2>3. CASE KeyRename(t)
        BY SMT, <1>1, <2>3 DEF KeyRename, Rename, Has
    <2>4. CASE KeyRm(t)
        BY <1>1, <2>4 DEF KeyRm, Remove, Has
    <2> QED
        BY <1>3, <2>1, <2>2, <2>3, <2>4
<1>4. ASSUME NEW t \in KThreads, Clear(t) \/ Create(t) \/ WriteKey(t) \/ WriteError(t) \/ Delete(t)
      PROVE  KeyTypes'
    <2>1. CASE Clear(t)
        BY <2>1 DEF Clear, Step
    <2>2. CASE Create(t)
        BY SMT, <1>2, <2>2 DEF Create, Step
    <2>3. CASE WriteKey(t)
        <3>1. /\ kStore' \in [KNames -> KKeys \cup KThreads \cup {KNone}] /\ kKey[t] \in KKeys
              /\ UNCHANGED <<kIdent, kRotate, kRaced>>
            BY <2>3 DEF WriteKey
        <3>2. CASE kOld[t] = KNone
            BY SMT, <1>2, <2>3, <3>1, <3>2 DEF WriteKey
        <3>3. CASE kOld[t] # KNone
            BY SMT, <2>3, <3>1, <3>3 DEF WriteKey, Step
        <3> QED
            BY <3>2, <3>3
    <2>4. CASE WriteError(t)
        BY <1>2, <2>4 DEF WriteError
    <2>5. CASE Delete(t)
        BY <1>2, <2>5 DEF Delete
    <2> QED
        BY <1>4, <2>1, <2>2, <2>3, <2>4, <2>5
<1>5. ASSUME NEW n \in KNames, RotateSave(n)
      PROVE  KeyTypes'
    BY <1>5 DEF RotateSave
<1>6. CASE RotateIdentity
    BY <1>6 DEF RotateIdentity, NewKeys
<1>7. CASE DaemonKilled
    BY <1>7 DEF DaemonKilled
<1>8. CASE UNCHANGED kVars
    BY <1>8 DEF kVars
<1> QED
    BY <1>3, <1>4, <1>5, <1>6, <1>7, <1>8 DEF KNext

\* A store in which no two requests have met: every key a user was told of is safe.
StoreInv ==
    /\ \A t \in KThreads : AloneInv(t)
    /\ kRotate # KNone => kStore[kRotate] = kIdent
    /\ \A k \in kOwed : Safe(k)

\* A request that starts alone.
LEMMA StoreBegins ==
    ASSUME KeyTypes, KeyTypes', StoreInv, ~kRaced', NEW t \in KThreads,
           KeyGen(t) \/ KeyImport(t) \/ KeyRename(t) \/ KeyRm(t)
    PROVE  StoreInv'
<1>1. /\ kRotate = KNone /\ UNCHANGED <<kStore, kIdent, kOwed, kRotate>>
      /\ \A u \in KThreads \ {t} : kAt[u] = "idle" /\ kAt'[u] = "idle"
    BY SMT DEF KeyGen, Generate, KeyImport, KeyRename, Rename, KeyRm, Remove, BeginRequest, KeyTypes
<1>2. /\ kAt'[t] \in {"clear", "create", "delete"}
      /\ kOld'[t] # KNone => kStore[kOld'[t]] = kKey'[t] /\ kNew'[t] # kOld'[t]
      /\ kAt'[t] = "delete" => kNew'[t] = KNone
    <2>1. CASE KeyGen(t)
        BY SMT, <2>1 DEF KeyGen, Generate, BeginRequest, KeyTypes
    <2>2. CASE KeyImport(t)
        BY SMT, <2>2 DEF KeyImport, BeginRequest, KeyTypes
    <2>3. CASE KeyRename(t)
        BY SMT, <2>3 DEF KeyRename, Rename, BeginRequest, KeyTypes
    <2>4. CASE KeyRm(t)
        BY SMT, <2>4, KeysAssumption DEF KeyRm, Remove, BeginRequest, KeyTypes
    <2> QED
        BY <2>1, <2>2, <2>3, <2>4
<1> QED
    BY <1>1, <1>2 DEF StoreInv, AloneInv, Safe

\* A request that ends, with every key still owed safe.
LEMMA StoreEnds ==
    ASSUME KeyTypes, StoreInv, NEW t \in KThreads, kAt[t] # "idle", End(t), UNCHANGED kRotate,
           \A k \in kOwed' : Safe(k)'
    PROVE  StoreInv'
<1>1. \A u \in KThreads : kAt'[u] = "idle"
    BY DEF End, StoreInv, AloneInv, KeyTypes
<1>2. kRotate' = KNone
    BY DEF StoreInv, AloneInv
<1> QED
    BY <1>1, <1>2 DEF StoreInv, AloneInv

LEMMA StoreSteps ==
    ASSUME KeyTypes, KeyTypes', StoreInv, NEW t \in KThreads,
           Clear(t) \/ Create(t) \/ WriteKey(t) \/ WriteError(t) \/ Delete(t)
    PROVE  StoreInv'
<1>0. /\ kAt[t] # "idle" /\ UNCHANGED <<kIdent, kRotate>> /\ kRotate = KNone
      /\ \A u \in KThreads \ {t} : kAt[u] = "idle"
    BY DEF Clear, Create, WriteKey, WriteError, Delete, StoreInv, AloneInv
<1>1. CASE Clear(t)
    <2>1. /\ kOwed' = kOwed \ {kStore[kNew[t]]} /\ kStore' = [kStore EXCEPT ![kNew[t]] = KNone]
          /\ kAt' = [kAt EXCEPT ![t] = "create"] /\ UNCHANGED <<kOld, kNew, kKey>>
          /\ kNew[t] \in KNames /\ kOld[t] \in KNames /\ kAt[t] = "clear"
        BY <1>1 DEF Clear, Step, KeyTypes
    <2>2. \A k \in kOwed' : Safe(k)'
        BY <1>0, <2>1 DEF StoreInv, Safe, KeyTypes
    <2> QED
        BY SMT, <1>0, <2>1, <2>2 DEF StoreInv, AloneInv, KeyTypes
<1>2. CASE Create(t)
    <2>1. kNew[t] \in KNames /\ kOwed' = kOwed /\ kAt[t] = "create"
        BY <1>2 DEF Create, KeyTypes
    <2>2. CASE kStore[kNew[t]] # KNone
        <3>1. End(t) /\ kStore' = kStore
            BY <1>2, <2>2 DEF Create
        <3>2. \A k \in kOwed' : Safe(k)'
            BY <1>0, <2>1, <3>1 DEF StoreInv, Safe
        <3> QED
            BY <1>0, <3>1, <3>2, StoreEnds
    <2>3. CASE kStore[kNew[t]] = KNone
        <3>1. /\ kStore' = [kStore EXCEPT ![kNew[t]] = t] /\ kAt' = [kAt EXCEPT ![t] = "write"]
              /\ UNCHANGED <<kOld, kNew, kKey>>
            BY <1>2, <2>3 DEF Create, Step
        <3>2. \A k \in kOwed' : Safe(k)'
            BY SMT, <1>0, <2>1, <2>3, <3>1, KeysAssumption DEF StoreInv, Safe, KeyTypes
        <3> QED
            BY SMT, <1>0, <2>1, <3>1, <3>2 DEF StoreInv, AloneInv, KeyTypes
    <2> QED
        BY <2>2, <2>3
<1>3. CASE WriteKey(t)
    <2>1. /\ kNew[t] \in KNames /\ kStore[kNew[t]] = t /\ kAt[t] = "write"
          /\ kStore' = [kStore EXCEPT ![kNew[t]] = kKey[t]]
        BY <1>3 DEF WriteKey, KeyTypes, StoreInv, AloneInv
    <2>2. \A k \in kOwed \cup {kKey[t]} : Safe(k)'
        BY SMT, <1>0, <2>1, KeysAssumption DEF StoreInv, Safe, KeyTypes
    <2>3. CASE kOld[t] = KNone
        <3>1. End(t) /\ kOwed' = kOwed \cup {kKey[t]}
            BY <1>3, <2>3 DEF WriteKey
        <3>2. \A k \in kOwed' : Safe(k)'
            BY <2>2, <3>1
        <3> QED
            BY <1>0, <3>1, <3>2, StoreEnds
    <2>4. CASE kOld[t] # KNone
        <3>1. /\ kAt' = [kAt EXCEPT ![t] = "delete"] /\ UNCHANGED <<kOld, kNew, kKey, kOwed>>
            BY <1>3, <2>4 DEF WriteKey, Step
        <3> QED
            BY SMT, <1>0, <2>1, <2>2, <3>1 DEF StoreInv, AloneInv, KeyTypes
    <2> QED
        BY <2>3, <2>4
<1>4. CASE WriteError(t)
    <2>1. End(t) /\ UNCHANGED <<kStore, kOwed>>
        BY <1>4 DEF WriteError
    <2>2. \A k \in kOwed' : Safe(k)'
        BY <1>0, <2>1 DEF StoreInv, Safe
    <2> QED
        BY <1>0, <2>1, <2>2, StoreEnds
<1>5. CASE Delete(t)
    <2>1. /\ kOld[t] \in KNames /\ kStore[kOld[t]] = kKey[t] /\ kNew[t] # kOld[t]
          /\ kStore' = [kStore EXCEPT ![kOld[t]] = KNone] /\ End(t)
          /\ kOwed' = IF kNew[t] = KNone THEN kOwed \ {kKey[t]} ELSE kOwed
          /\ kNew[t] # KNone => kNew[t] \in KNames /\ kStore[kNew[t]] = kKey[t]
        BY SMT, <1>5, KeysAssumption DEF Delete, KeyTypes, StoreInv, AloneInv
    <2>2. \A k \in kOwed' : Safe(k)'
        BY SMT, <1>0, <2>1 DEF StoreInv, Safe, KeyTypes
    <2> QED
        BY <1>0, <2>1, <2>2, StoreEnds
<1> QED
    BY <1>1, <1>2, <1>3, <1>4, <1>5

LEMMA StoreNext ==
    KeyTypes /\ KeyTypes' /\ (~kRaced => StoreInv) /\ [KNext]_kVars => (~kRaced' => StoreInv')
<1> SUFFICES ASSUME KeyTypes, KeyTypes', ~kRaced => StoreInv, [KNext]_kVars, ~kRaced'
             PROVE  StoreInv'
    OBVIOUS
<1>1. ~kRaced
    <2>1. ASSUME NEW t \in KThreads, KeyGen(t) \/ KeyImport(t) \/ KeyRename(t) \/ KeyRm(t)
          PROVE  ~kRaced
        BY <2>1 DEF KeyGen, Generate, KeyImport, KeyRename, Rename, KeyRm, Remove, BeginRequest
    <2>2. ASSUME NEW t \in KThreads, Clear(t) \/ Create(t) \/ WriteKey(t) \/ WriteError(t) \/ Delete(t)
          PROVE  ~kRaced
        BY <2>2 DEF Clear, Create, WriteKey, WriteError, Delete
    <2>3. (\E n \in KNames : RotateSave(n)) \/ RotateIdentity \/ DaemonKilled => ~kRaced
        BY DEF RotateSave, RotateIdentity, DaemonKilled
    <2>4. UNCHANGED kVars => ~kRaced
        BY DEF kVars
    <2> QED
        BY <2>1, <2>2, <2>3, <2>4 DEF KNext
<1>2. ASSUME NEW n \in KNames, RotateSave(n)
      PROVE  StoreInv'
    <2>1. /\ \A t \in KThreads : kAt[t] = "idle"
          /\ kStore[n] = KNone /\ kStore' = [kStore EXCEPT ![n] = kIdent] /\ kRotate' = n
          /\ UNCHANGED <<kIdent, kAt, kOwed>>
        BY <1>2 DEF RotateSave, DaemonNotRunning
    <2>2. \A k \in kOwed' : Safe(k)'
        BY SMT, <1>1, <2>1, KeysAssumption DEF StoreInv, Safe, KeyTypes
    <2> QED
        BY <2>1, <2>2 DEF StoreInv, AloneInv, KeyTypes
<1>3. CASE RotateIdentity
    <2>1. /\ kRotate \in KNames /\ kStore[kRotate] = kIdent /\ kRotate' = KNone
          /\ kOwed' = kOwed \cup {kIdent'} /\ UNCHANGED <<kStore, kAt>>
          /\ \A t \in KThreads : kAt[t] = "idle"
        BY <1>1, <1>3 DEF RotateIdentity, StoreInv, AloneInv, KeyTypes
    <2>2. \A k \in kOwed' : Safe(k)'
        BY <1>1, <2>1 DEF StoreInv, Safe
    <2> QED
        BY <2>1, <2>2 DEF StoreInv, AloneInv
<1>4. CASE DaemonKilled
    BY <1>1, <1>4 DEF DaemonKilled, StoreInv, AloneInv, Safe
<1>5. CASE UNCHANGED kVars
    BY <1>1, <1>5 DEF kVars, StoreInv, AloneInv, Safe
<1> QED
    BY <1>1, <1>2, <1>3, <1>4, <1>5, StoreBegins, StoreSteps DEF KNext

\* A key a user was told of stays in the key store or the config, and can be named by its ID
\* while no unreadable file is in the way, until it is removed or overwritten by request,
\* through crashes, failing writes, renames and rotations that do not overlap, for any number of
\* names, keys and requests (Generate, Rename, Remove, doRotate, keylookup).
THEOREM KeysSafe == KSpec => []KeysKept
<1> DEFINE Alone == ~kRaced => StoreInv
<1>1. KInit => KeyTypes /\ Alone
    <2> SUFFICES ASSUME KInit PROVE KeyTypes /\ StoreInv
        OBVIOUS
    <2>1. KeyTypes
        BY KeysAssumption DEF KInit, KeyTypes
    <2>2. StoreInv
        BY DEF KInit, StoreInv, AloneInv, Safe
    <2> QED
        BY <2>1, <2>2
<1>2. KeyTypes /\ KeyTypes' /\ Alone /\ [KNext]_kVars => Alone'
    BY StoreNext
<1>3. KeyTypes /\ Alone => KeysKept
    <2> SUFFICES ASSUME KeyTypes, ~kRaced, StoreInv PROVE KeysKept
        BY DEF KeysKept, NoKeyLost, LookupByID
    <2>1. \A k \in kOwed : k = kIdent \/ k \in Stored
        BY DEF StoreInv, Safe, Stored
    <2>2. \A k \in kOwed : k \notin KNames
        BY KeysAssumption DEF KeyTypes
    <2> QED
        BY <2>1, <2>2 DEF KeysKept, NoKeyLost, LookupByID, KeyLookup
<1> QED
    BY <1>1, <1>2, <1>3, KeyTypesKept, PTL DEF KSpec

-----------------------------------------------------------------------------
(* The notifier.                                                           *)

Running == {c \in nCalls : c.run}
Called(e, n) == \E c \in nCalls : c.event = e /\ c.to = n

NotifyTypes ==
    /\ nLimit \in Nat /\ nSlots \in Nat /\ nNots \subseteq Notifiees
    /\ nWalk \in [NEvents -> {"none", "walk", "done"}]
    /\ nMet \in [NEvents -> SUBSET Notifiees]
    /\ nFrom \in [NEvents -> SUBSET Notifiees] /\ nEver \in [NEvents -> SUBSET Notifiees]
    /\ nCalls \subseteq [event : NEvents, to : Notifiees, run : BOOLEAN]

\* A call is for somebody signed up during its notification, and a walk has called whom it
\* has met and nobody else.
WalkInv ==
    /\ ~nMade => nNots = {}
    /\ \A c \in nCalls :
          /\ nWalk[c.event] # "none" /\ c.to \in nEver[c.event]
          /\ nWalk[c.event] = "walk" => c.to \in nMet[c.event]
    /\ \A e \in NEvents :
          /\ \A n \in nMet[e] : Called(e, n)
          /\ nWalk[e] = "walk" => nNots \subseteq nEver[e]
          /\ nWalk[e] = "done" => \A n \in nFrom[e] : Called(e, n)

SlotInv == nLimit > 0 => IsFiniteSet(Running) /\ nSlots + Cardinality(Running) = nLimit

NotifyInv == NotifyTypes /\ WalkInv /\ SlotInv

LEMMA NotifyWrites ==
    ASSUME NotifyInv, NEW nots \in SUBSET Notifiees, WriteNots(nots)
    PROVE  NotifyInv'
<1>1. /\ nNots' = nots /\ nMade' = TRUE
      /\ nFrom' = [e \in NEvents |-> IF e \in Walking THEN nFrom[e] \cap nots ELSE nFrom[e]]
      /\ nEver' = [e \in NEvents |-> IF e \in Walking THEN nEver[e] \cup nots ELSE nEver[e]]
      /\ UNCHANGED <<nLimit, nSlots, nWalk, nMet, nCalls>>
    BY DEF WriteNots
<1>2. NotifyTypes'
    BY <1>1 DEF NotifyInv, NotifyTypes
<1>3. \A e \in NEvents : /\ nEver[e] \subseteq nEver'[e] /\ nFrom'[e] \subseteq nFrom[e]
                         /\ nWalk[e] = "walk" => nots \subseteq nEver'[e]
    BY <1>1 DEF Walking
<1>4. WalkInv'
    BY SMT, <1>1, <1>3 DEF NotifyInv, NotifyTypes, WalkInv, Called
<1>5. SlotInv'
    BY <1>1 DEF NotifyInv, SlotInv, Running
<1> QED
    BY <1>2, <1>4, <1>5 DEF NotifyInv

LEMMA NotifyStarts ==
    ASSUME NotifyInv, NEW e \in NEvents, NotifyAll(e)
    PROVE  NotifyInv'
<1>1. /\ nWalk[e] = "none"
      /\ nFrom' = [nFrom EXCEPT ![e] = nNots] /\ nEver' = [nEver EXCEPT ![e] = nNots]
      /\ UNCHANGED <<nLimit, nNots, nMade, nSlots, nMet>>
    BY DEF NotifyAll
<1>2. \A c \in nCalls : c.event # e /\ c.event \in NEvents
    BY <1>1 DEF NotifyInv, NotifyTypes, WalkInv
<1>3. CASE nLimit = 0 \/ ~nMade
    <2>1. /\ nWalk' = [nWalk EXCEPT ![e] = "done"]
          /\ nCalls' = nCalls \cup {Call(e, n) : n \in nNots}
        BY <1>3 DEF NotifyAll
    <2>2. nCalls' \subseteq [event : NEvents, to : Notifiees, run : BOOLEAN]
        <3>1. \A n \in nNots : Call(e, n) \in [event : NEvents, to : Notifiees, run : BOOLEAN]
            BY DEF NotifyInv, NotifyTypes, Call
        <3> QED
            BY SMT, <2>1, <3>1 DEF NotifyInv, NotifyTypes
    <2>3. NotifyTypes'
        BY <1>1, <2>1, <2>2 DEF NotifyInv, NotifyTypes
    <2>4. \A n \in nNots : Call(e, n) \in nCalls' /\ Call(e, n).event = e /\ Call(e, n).to = n
        BY <2>1 DEF Call
    <2>5. \A c \in nCalls' : c \in nCalls \/ (c.event = e /\ c.to \in nNots)
        BY SMT, <2>1 DEF Call
    <2>6. \A d \in NEvents, n \in Notifiees : Called(d, n) => Called(d, n)'
        BY <2>1 DEF Called
    <2>7. \A n \in nNots : Called(e, n)'
        BY <2>4 DEF Called
    <2>8. WalkInv'
        BY SMT, <1>1, <1>2, <2>1, <2>5, <2>6, <2>7 DEF NotifyInv, NotifyTypes, WalkInv
    <2>9. SlotInv'
        <3>1. nLimit > 0 => nCalls' = nCalls
            BY SMT, <1>3, <2>1 DEF NotifyInv, NotifyTypes, WalkInv
        <3> QED
            BY <1>1, <3>1 DEF NotifyInv, SlotInv, Running
    <2> QED
        BY <2>3, <2>8, <2>9 DEF NotifyInv
<1>4. CASE ~(nLimit = 0 \/ ~nMade)
    <2>1. nWalk' = [nWalk EXCEPT ![e] = "walk"] /\ nCalls' = nCalls
        BY <1>4 DEF NotifyAll
    <2>2. NotifyTypes'
        BY <1>1, <2>1 DEF NotifyInv, NotifyTypes
    <2>3. WalkInv'
        BY SMT, <1>1, <1>2, <2>1 DEF NotifyInv, NotifyTypes, WalkInv, Called
    <2>4. SlotInv'
        BY <1>1, <2>1 DEF NotifyInv, SlotInv, Running
    <2> QED
        BY <2>2, <2>3, <2>4 DEF NotifyInv
<1> QED
    BY <1>3, <1>4

LEMMA NotifyWalks ==
    ASSUME NotifyInv, NEW e \in NEvents, Walk(e)
    PROVE  NotifyInv'
<1>1. PICK n \in nNots \ nMet[e] :
         /\ nMet' = [nMet EXCEPT ![e] = @ \cup {n}]
         /\ nCalls' = nCalls \cup {Call(e, n)}
    BY DEF Walk
<1>2. /\ nWalk[e] = "walk" /\ nSlots > 0 /\ nSlots' = nSlots - 1
      /\ UNCHANGED <<nLimit, nNots, nMade, nWalk, nFrom, nEver>>
    BY DEF Walk
<1> DEFINE new == Call(e, n)
<1>3. /\ new \in [event : NEvents, to : Notifiees, run : BOOLEAN]
      /\ new.event = e /\ new.to = n /\ new.run
    BY DEF NotifyInv, NotifyTypes, Call
<1> HIDE DEF new
<1>4. nCalls' = nCalls \cup {new}
    BY <1>1 DEF new
<1>5. NotifyTypes'
    BY SMT, <1>1, <1>2, <1>3, <1>4 DEF NotifyInv, NotifyTypes
<1>6. /\ \A d \in NEvents, m \in Notifiees : Called(d, m) => Called(d, m)'
      /\ Called(e, n)'
    BY <1>3, <1>4 DEF Called
<1>7. WalkInv'
    <2>1. n \in nEver[e]
        BY <1>2 DEF NotifyInv, WalkInv
    <2>2. nMet'[e] = nMet[e] \cup {n} /\ \A d \in NEvents \ {e} : nMet'[d] = nMet[d]
        BY <1>1 DEF NotifyInv, NotifyTypes
    <2>3. \A c \in nCalls' : /\ nWalk[c.event] # "none" /\ c.to \in nEver[c.event]
                             /\ nWalk[c.event] = "walk" => c.to \in nMet'[c.event]
        <3>1. \A c \in nCalls : c.event \in NEvents
            BY DEF NotifyInv, NotifyTypes
        <3> QED
            BY SMT, <1>2, <1>3, <1>4, <2>1, <2>2, <3>1 DEF NotifyInv, WalkInv
    <2>4. \A d \in NEvents : \A m \in nMet'[d] : Called(d, m)'
        BY SMT, <1>6, <2>2 DEF NotifyInv, NotifyTypes, WalkInv
    <2> QED
        BY <1>2, <1>6, <2>3, <2>4 DEF NotifyInv, NotifyTypes, WalkInv
<1>8. SlotInv'
    <2>1. new \notin Running
        BY <1>2, <1>3 DEF NotifyInv, WalkInv, Running
    <2>2. Running' = Running \cup {new}
        BY <1>3, <1>4 DEF Running
    <2> SUFFICES ASSUME nLimit > 0
                 PROVE  IsFiniteSet(Running') /\ nSlots' + Cardinality(Running') = nLimit
        BY <1>2 DEF SlotInv
    <2>3. IsFiniteSet(Running) /\ nSlots + Cardinality(Running) = nLimit
        BY DEF NotifyInv, SlotInv
    <2>4. IsFiniteSet(Running') /\ Cardinality(Running') = Cardinality(Running) + 1
        BY <2>1, <2>2, <2>3, FS_AddElement
    <2>5. Cardinality(Running) \in Nat
        BY <2>3, FS_CardinalityType
    <2> QED
        BY SMT, <1>2, <2>3, <2>4, <2>5 DEF NotifyInv, NotifyTypes
<1> QED
    BY <1>5, <1>7, <1>8 DEF NotifyInv

LEMMA NotifyEnds ==
    ASSUME NotifyInv, NEW e \in NEvents, WalkEnds(e)
    PROVE  NotifyInv'
<1>1. /\ nWalk' = [nWalk EXCEPT ![e] = "done"] /\ nFrom[e] \subseteq nMet[e] /\ nWalk[e] = "walk"
      /\ UNCHANGED <<nLimit, nNots, nMade, nSlots, nMet, nCalls, nFrom, nEver>>
    BY DEF WalkEnds
<1>2. NotifyTypes'
    BY <1>1 DEF NotifyInv, NotifyTypes
<1>3. WalkInv'
    BY SMT, <1>1 DEF NotifyInv, NotifyTypes, WalkInv, Called
<1>4. SlotInv'
    BY <1>1 DEF NotifyInv, SlotInv, Running
<1> QED
    BY <1>2, <1>3, <1>4 DEF NotifyInv

LEMMA NotifyReturns ==
    ASSUME NotifyInv, NEW c \in nCalls, CallReturns(c)
    PROVE  NotifyInv'
<1> DEFINE over == [c EXCEPT !.run = FALSE]
<1>1. /\ c.run /\ nCalls' = (nCalls \ {c}) \cup {over}
      /\ nSlots' = IF nLimit = 0 THEN nSlots ELSE nSlots + 1
      /\ UNCHANGED <<nLimit, nNots, nMade, nWalk, nMet, nFrom, nEver>>
    BY DEF CallReturns
<1>2. /\ over \in [event : NEvents, to : Notifiees, run : BOOLEAN]
      /\ over.event = c.event /\ over.to = c.to /\ ~over.run
    BY DEF NotifyInv, NotifyTypes
<1> HIDE DEF over
<1>3. NotifyTypes'
    BY SMT, <1>1, <1>2 DEF NotifyInv, NotifyTypes
<1>4. \A d \in NEvents, m \in Notifiees : Called(d, m) => Called(d, m)'
    BY <1>1, <1>2 DEF Called
<1>5. WalkInv'
    BY SMT, <1>1, <1>2, <1>4 DEF NotifyInv, NotifyTypes, WalkInv
<1>6. SlotInv'
    <2>1. Running' = Running \ {c} /\ c \in Running
        BY <1>1, <1>2 DEF Running
    <2> SUFFICES ASSUME nLimit > 0
                 PROVE  IsFiniteSet(Running') /\ nSlots' + Cardinality(Running') = nLimit
        BY <1>1 DEF SlotInv
    <2>2. IsFiniteSet(Running) /\ nSlots + Cardinality(Running) = nLimit
        BY DEF NotifyInv, SlotInv
    <2>3. IsFiniteSet(Running') /\ Cardinality(Running') = Cardinality(Running) - 1
        BY <2>1, <2>2, FS_RemoveElement
    <2>4. Cardinality(Running) \in Nat
        BY <2>2, FS_CardinalityType
    <2> QED
        BY SMT, <1>1, <2>2, <2>3, <2>4 DEF NotifyInv, NotifyTypes
<1> QED
    BY <1>3, <1>5, <1>6 DEF NotifyInv

\* Every notification that is through has called everybody signed up all the time and nobody
\* who never was, and each slot of the limit is free or taken by one running call, for any
\* notifiees, notifications and limit, although the walk does not hold the mutex (NotifyAll,
\* RateLimited).
THEOREM NotifiesAll == NSpec => []NotifiesExactly
<1>1. NInit => NotifyInv
    <2> SUFFICES ASSUME NInit PROVE NotifyInv
        OBVIOUS
    <2>1. Running = {}
        BY DEF NInit, Running
    <2>2. SlotInv
        BY SMT, <2>1, FS_EmptySet, NLimitsAssumption DEF NInit, SlotInv
    <2> QED
        BY <2>2, NLimitsAssumption DEF NInit, NotifyInv, NotifyTypes, WalkInv
<1>2. NotifyInv /\ [NNext]_nVars => NotifyInv'
    <2> SUFFICES ASSUME NotifyInv, [NNext]_nVars PROVE NotifyInv'
        OBVIOUS
    <2>1. ASSUME NEW n \in Notifiees, Notify(n) \/ StopNotify(n) PROVE NotifyInv'
        BY <2>1, NotifyWrites DEF Notify, StopNotify, NotifyInv, NotifyTypes
    <2>2. CASE UNCHANGED nVars
        BY SMT, <2>2 DEF nVars, NotifyInv, NotifyTypes, WalkInv, Called, SlotInv, Running
    <2> QED
        BY <2>1, <2>2, NotifyStarts, NotifyWalks, NotifyEnds, NotifyReturns DEF NNext
<1>3. NotifyInv => NotifiesExactly
    <2> SUFFICES ASSUME NotifyInv PROVE NotifiesExactly
        OBVIOUS
    <2>1. NotifiedExactly
        BY SMT DEF NotifiedExactly, NotifyInv, WalkInv, Called
    <2>2. LimitKept
        BY SMT DEF LimitKept, NotifyInv, NotifyTypes, SlotInv, Running
    <2> QED
        BY <2>1, <2>2 DEF NotifiesExactly
<1> QED
    BY <1>1, <1>2, <1>3, PTL DEF NSpec
=============================================================================
