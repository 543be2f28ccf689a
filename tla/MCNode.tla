------------------------------- MODULE MCNode -------------------------------
(***************************************************************************)
(* Small instances of the components that keep, name and serve what a node *)
(* stores: the repository (Repo), its configuration and keys, the plugins, *)
(* mounts, migrations and commands around it, and the commands and         *)
(* handlers that read and edit data.  They share no state, so one run      *)
(* checks them side by side: focus, chosen at the start, names the         *)
(* component that takes steps.                                             *)
(***************************************************************************)
EXTENDS Repo, RepoConfig, Keys, PluginLoader, Mounts, Migrations, CommandExec, Notifier, FdLimit,
        TLC

VARIABLES focus,
          \* Files and IpnsFs
          fHeap, fFd, fPend, fPub, fKept, fLast, fWant, fCmds, iLeaked,
          \* PinQueries
          xRec, xDir, xStore, xCmd, xStage, xType, xR, xSet, xKeys, xSend, xChan, xList, xStack,
          xSeen, xRet, xWas, xAlw, xEdits,
          \* Gateway
          gName, gTpl, gCache, gReq, gRd, gResp, gCount,
          \* Reading
          yAsked, yAnswer, yPc, yBuf, yPipe, yWritten,
          \* Patch
          oStore, oRoot, oAsked, oReply, oCmds

(***************************************************************************)
(* The components on small constants.                                      *)
(***************************************************************************)
\* Plugins, of which one is disabled, and a mount that resists every way of unmounting.
MCPlugins == <<"a", "b", "c", "x">>
MCPluginName == [f \in {"a", "b", "c", "x"} |-> f]
MCStuck == {<<"c", "ipfs">>}

MCDirs == {<<"x">>, <<"a">>, <<"a", "x">>}
MCFiles == {<<"x", "f">>, <<"a", "x", "f">>}
MCMoves == {<<<<"x", "f">>, <<"a", "x", "f">>>>, <<<<"x">>, <<"a">>>>, <<<<"a">>, <<"x">>>>}

Mfs == INSTANCE Files WITH FDirs <- MCDirs, FFiles <- MCFiles, FMoves <- MCMoves, MaxObjs <- 9, MaxCmds <- 3
Ipns == INSTANCE IpnsFs WITH FDirs <- MCDirs, FFiles <- MCFiles, FMoves <- MCMoves, MaxObjs <- 9, MaxCmds <- 4

Query == INSTANCE PinQueries WITH
    XLinks <- [a |-> {"b"}, b |-> {}, d |-> {"b"}], XArgs <- <<"a", "d">>, XMaxEdits <- 3

Gw == INSTANCE Gateway WITH
    GKind <- [f |-> "file", d |-> "dir", s |-> "site", t |-> "oddsite"],
    G404 <- [f |-> {}, d |-> {0, 1}, s |-> {0}, t |-> {}],
    GMiss <- 2, GSize <- 2, GStarts <- {"f", "s"}, MaxRequests <- 2, MaxPublishes <- 1

Read == INSTANCE Reading WITH
    YNodes <- 1..4, YDepths <- -1..3, YRoots <- {<<1>>, <<2, 1>>}, YMissing <- {{}, {4}},
    YFiles <- {<<0, 2>>, <<2, 3, 1>>, <<1, 0, 2>>}, YSpan <- 7, YChunks <- 3, YBufSize <- 2

Patching == INSTANCE Patch WITH ONames <- {"a", "b"}, ODepth <- 2, OLimit <- 3, OMaxCmds <- 3

\* The variables of each component.
mfsVars == <<fHeap, fFd, fPend, fPub, fKept, fLast, fWant, fCmds>>
queryVars == <<xRec, xDir, xStore, xCmd, xStage, xType, xR, xSet, xKeys, xSend, xChan, xList,
               xStack, xSeen, xRet, xWas, xAlw, xEdits>>
gwVars == <<gName, gTpl, gCache, gReq, gRd, gResp, gCount>>
readVars == <<yAsked, yAnswer, yPc, yBuf, yPipe, yWritten>>
editVars == <<oStore, oRoot, oAsked, oReply, oCmds>>

(***************************************************************************)
(* One of them takes steps.                                                *)
(***************************************************************************)
Components ==
    {"repo", "config", "keys", "plugins", "mounts", "files", "ipns", "migrations", "queries",
     "gateway", "reading", "patch", "commands", "requests", "notifier", "fds"}

MCInit ==
    /\ focus \in Components
    /\ Init /\ (focus # "repo" => config = None)
    /\ CInit /\ KInit /\ LInit /\ MInit /\ Ipns!IInit /\ MgInit
    /\ Query!XInit /\ Gw!GInit /\ (focus # "gateway" => gName = "f") /\ Read!YInit /\ Patching!OInit /\ UInit /\ WInit
    /\ NInit /\ (focus # "notifier" => nLimit = 0)
    /\ FdInit /\ (focus # "fds" => fdHard = 1 /\ fdUser = 0 /\ fdRoot = FALSE)

\* Every component whose name is not c keeps its state.
Others(c) ==
    /\ UNCHANGED focus
    /\ IF c = "repo" THEN TRUE ELSE UNCHANGED vars
    /\ IF c = "config" THEN TRUE ELSE UNCHANGED cVars
    /\ IF c = "keys" THEN TRUE ELSE UNCHANGED kVars
    /\ IF c = "plugins" THEN TRUE ELSE UNCHANGED lVars
    /\ IF c = "mounts" THEN TRUE ELSE UNCHANGED mVars
    /\ IF c \in {"files", "ipns"} THEN TRUE ELSE UNCHANGED mfsVars
    /\ IF c = "ipns" THEN TRUE ELSE UNCHANGED iLeaked
    /\ IF c = "migrations" THEN TRUE ELSE UNCHANGED mgVars
    /\ IF c = "queries" THEN TRUE ELSE UNCHANGED queryVars
    /\ IF c = "gateway" THEN TRUE ELSE UNCHANGED gwVars
    /\ IF c = "reading" THEN TRUE ELSE UNCHANGED readVars
    /\ IF c = "patch" THEN TRUE ELSE UNCHANGED editVars
    /\ IF c = "commands" THEN TRUE ELSE UNCHANGED uVars
    /\ IF c = "requests" THEN TRUE ELSE UNCHANGED wVars
    /\ IF c = "notifier" THEN TRUE ELSE UNCHANGED nVars
    /\ IF c = "fds" THEN TRUE ELSE UNCHANGED fdVars

MCNext ==
    \/ focus = "repo" /\ Next /\ Others("repo")
    \/ focus = "config" /\ CNext /\ Others("config")
    \/ focus = "keys" /\ KNext /\ Others("keys")
    \/ focus = "plugins" /\ LNext /\ Others("plugins")
    \/ focus = "mounts" /\ MNext /\ Others("mounts")
    \/ focus = "files" /\ Mfs!FNext /\ Others("files")
    \/ focus = "ipns" /\ Ipns!INext /\ Others("ipns")
    \/ focus = "migrations" /\ MgNext /\ Others("migrations")
    \/ focus = "queries" /\ Query!XNext /\ Others("queries")
    \/ focus = "gateway" /\ Gw!GNext /\ Others("gateway")
    \/ focus = "reading" /\ Read!YNext /\ Others("reading")
    \/ focus = "patch" /\ Patching!ONext /\ Others("patch")
    \/ focus = "commands" /\ UNext /\ Others("commands")
    \/ focus = "requests" /\ WNext /\ Others("requests")
    \/ focus = "notifier" /\ NNext /\ Others("notifier")
    \/ focus = "fds" /\ FdNext /\ Others("fds")

mcVars ==
    <<focus, vars, cVars, kVars, lVars, mVars, mfsVars, iLeaked, mgVars,
      queryVars, gwVars, readVars, editVars, uVars, wVars, nVars, fdVars>>

MCSpec == MCInit /\ [][MCNext]_mcVars

(***************************************************************************)
(* What each component promises.  The claims of those that this module     *)
(* extends are stated in their modules.                                    *)
(***************************************************************************)
\* A path holds what the last files command promised for it, and what flush, cp and mv answered for
\* is in the stored root: no cached directory brings back or hides an entry (mfs Directory cache,
\* FlushPath waits for the republisher).  A command changes the tree at the paths it was given and
\* nowhere else.
FilesHold ==
    /\ [](focus = "files" => Mfs!FlushedSurvives /\ Mfs!Effective)
    /\ [][focus = "files" => Mfs!TouchesOnly]_mfsVars

\* What a kernel request did to the mounted name stays done through flushes, the cache and an
\* unmount, and data that Flush or Release answered for is in the root given to the republisher
\* (fuse/ipns).
IpnsHolds == focus = "ipns" => Ipns!IpnsEffective /\ Ipns!WrittenReachesRoot

\* What pin commands answer was so while they ran, although pins and blocks change under them: ls
\* lists nothing twice, nothing untrue and nothing too little, verify judges each pin rightly, and
\* success means that every argument was done (pinLsAll, pinVerify, pinAddMany).
PinAnswersTrue == focus = "queries" => Query!ListTrue /\ Query!VerifyTrue /\ Query!EveryArgumentDone

\* What a user agent shows is true although names are republished while it asks: what it may keep
\* for ever is never out of date, a 304 confirms what the name resolved to, a page is made from one
\* version, a range has its bytes and a 404 page is the closest one (getOrHeadHandler).
ServedTrue ==
    focus = "gateway" =>
        /\ Gw!ForeverTrue /\ Gw!NotModifiedTrue /\ Gw!OneVersion
        /\ Gw!RangeExact /\ Gw!Nearest404

\* Reading commands give exactly what was asked for: refs the references within --max-depth, cat
\* the part of the joined files, get an archive that ends without an error only when it is whole
\* (RefWriter.visit, cat, fileArchive).
ReadsExact == focus = "reading" => Read!RefsExact /\ Read!CatExact /\ Read!ArchiveComplete

\* An edit changes nothing beside its path, passes through directories only, names no entry twice,
\* and its answer can be read in full from the repository (dagutils Editor, putHandler,
\* deleteHandler).
EditsExact ==
    focus = "patch" => Patching!NamesOnce /\ Patching!AnswerStored /\ Patching!RestUntouched /\ Patching!FilesNotEntered

=============================================================================
