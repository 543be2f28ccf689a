--------------------------- MODULE CommandProofs ----------------------------
(***************************************************************************)
(* Proofs about commands: where a command line runs, and how the `ipfs dht` *)
(* commands deliver what the routing system finds.  Each has an inductive  *)
(* invariant, named for what it records.                                   *)
(***************************************************************************)
EXTENDS CommandExec, DhtQueries, FiniteSetTheorems, SequenceTheorems, TLAPS

\* Leaves are first-order unless they cite SMT.
USE Zenon

-----------------------------------------------------------------------------
(* The executor of a command.                                              *)

UPcs == {"idle", "make", "client", "dial", "sent", "answer", "prerun", "run", "node", "doInit",
         "assets", "keyspace", "done"}
AtLocal == {"prerun", "run", "node", "doInit", "assets", "keyspace"}

ExecTypes ==
    /\ uPc \in [UProcs -> UPcs] /\ uCmd \in [UProcs -> UCommands \cup {"none"}]
    /\ uApi \in [UProcs -> BOOLEAN] /\ uFallback \in [UProcs -> BOOLEAN]
    /\ uRan \in [UProcs -> {<<>>, <<"local">>, <<"daemon">>}]
    /\ uRes \in [UProcs -> {"none", "ok", "error", "exists", "killed"}]

\* What the step a process is at says of its command: one that asks for a daemon is on no
\* local path, one that has run is at its end, and ipfs init has done what comes before.
ProcInv(p) ==
    /\ uPc[p] \notin {"answer", "done"} => uRan[p] = <<>> /\ uRes[p] # "ok"
    /\ uPc[p] = "answer" => uRan[p] = <<"daemon">> /\ uRes[p] # "ok"
    /\ uPc[p] \in {"idle", "make", "client"} => ~uFallback[p]
    /\ uApi[p] /\ uCmd[p] \notin DoesNotUseRepo =>
          ~uFallback[p] /\ uPc[p] \notin AtLocal /\ uRan[p] # <<"local">>
    /\ uPc[p] \in {"client", "dial", "sent", "answer"} => uCmd[p] \notin NoRemote \cup DoesNotUseRepo
    /\ uPc[p] = "idle" => uCmd[p] = "none"
    /\ uPc[p] \in {"doInit", "assets", "keyspace"} => uCmd[p] \in Inits
    /\ uPc[p] \in {"assets", "keyspace"} => uRepo
    /\ uPc[p] = "keyspace" /\ uCmd[p] = "init" => uPinned
    /\ uPc[p] = "node" => uLock = p /\ uCmd[p] \notin Inits
    /\ uCmd[p] \in Inits /\ uRes[p] = "ok" => uRepo /\ uPublished /\ (uCmd[p] = "init" => uPinned)

ExecInv ==
    /\ ExecTypes
    /\ uDaemon # "off" => uLock = "daemon"
    /\ \A p \in UProcs : ProcInv(p)

LEMMA RanNames ==
    /\ <<>> # <<"local">> /\ <<>> # <<"daemon">> /\ <<"local">> # <<"daemon">>
    /\ Len(<<>>) = 0 /\ Len(<<"local">>) = 1 /\ Len(<<"daemon">>) = 1
    OBVIOUS

\* A command that runs for the first time has then run in one place.
LEMMA RunsFirst ==
    ASSUME NEW p \in UProcs, NEW where \in {"local", "daemon"},
           uRan \in [UProcs -> {<<>>, <<"local">>, <<"daemon">>}], uRan[p] = <<>>, Runs(p, where)
    PROVE  /\ uRan' \in [UProcs -> {<<>>, <<"local">>, <<"daemon">>}]
           /\ uRan'[p] = <<where>>
           /\ \A q \in UProcs \ {p} : uRan'[q] = uRan[q]
<1>1. Append(<<>>, where) = <<where>>
    BY SMT
<1>2. uRan' = [uRan EXCEPT ![p] = <<where>>]
    BY <1>1 DEF Runs
<1>3. <<where>> \in {<<>>, <<"local">>, <<"daemon">>}
    OBVIOUS
<1> QED
    BY <1>2, <1>3

\* A step of p leaves the other processes alone, takes no lock away from them and undoes
\* nothing of what the repository has.
LEMMA ExecOthers ==
    ASSUME ExecInv, NEW p \in UProcs, UStep(p)
    PROVE  /\ \A q \in UProcs \ {p} :
                 /\ uPc'[q] = uPc[q] /\ uCmd'[q] = uCmd[q] /\ uApi'[q] = uApi[q]
                 /\ uFallback'[q] = uFallback[q] /\ uRan'[q] = uRan[q] /\ uRes'[q] = uRes[q]
                 /\ uLock = q => uLock' = q
           /\ (uRepo => uRepo') /\ (uPinned => uPinned') /\ (uPublished => uPublished')
           /\ uDaemon' # "off" => uLock' = "daemon"
<1>0. /\ p # "daemon" /\ p # "none" /\ ProcInv(p) /\ (uDaemon # "off" => uLock = "daemon")
      /\ \A q \in UProcs : q # "none"
    BY UProcsAssumption DEF ExecInv
<1> USE DEF ExecInv, ExecTypes, UGoto, Done, Runs, InvocationKept, uWorld
<1>1. CASE Invoke(p)
    BY <1>0, <1>1 DEF Invoke
<1>2. CASE MakeExecutor(p)
    BY <1>0, <1>2 DEF MakeExecutor, ExecutorByCommand, NoApiAddr
<1>3. CASE NewClient(p) \/ Dial(p) \/ DaemonRuns(p) \/ DaemonAnswers(p) \/ Lost(p)
    BY SMT, <1>0, <1>3 DEF NewClient, Dial, FallBack, DaemonRuns, DaemonAnswers, Lost
<1>4. CASE PreRun(p) \/ initCmd(p)
    BY SMT, <1>0, <1>4 DEF PreRun, initCmd
<1>12. CASE RunAlone(p) \/ ReportLocally(p)
    <2>1. /\ uPc' = [uPc EXCEPT ![p] = "done"] /\ uRes' = [uRes EXCEPT ![p] = "ok"]
          /\ uRan' = [uRan EXCEPT ![p] = Append(@, "local")]
          /\ UNCHANGED <<uCmd, uApi, uFallback, uRepo, uLock, uDaemon, uPinned, uPublished>>
        BY <1>12 DEF RunAlone, ReportLocally
    <2> QED
        BY <1>0, <2>1
<1>5. CASE ConstructNode(p)
    BY <1>0, <1>5 DEF ConstructNode, CanOpen
<1>6. CASE RunOnNode(p)
    BY <1>0, <1>6 DEF RunOnNode, CloseRepo, ProcInv
<1>7. CASE doInit(p)
    BY SMT, <1>0, <1>7 DEF doInit, checkWritable, applyProfiles
<1>8. CASE InitOpen(p)
    BY <1>0, <1>8 DEF InitOpen, CanOpen
<1>9. CASE addDefaultAssets(p)
    BY SMT, <1>0, <1>9 DEF addDefaultAssets, CloseRepo, addAssetList, InitFails
<1>10. CASE initializeIpnsKeyspace(p)
    BY SMT, <1>0, <1>10 DEF initializeIpnsKeyspace, CloseRepo, InitFails
<1>11. CASE Kill(p)
    BY <1>0, <1>11 DEF Kill
<1> HIDE DEF ExecInv, ExecTypes, UGoto, Done, Runs, InvocationKept, uWorld
<1> QED
    BY <1>1, <1>2, <1>3, <1>4, <1>5, <1>6, <1>7, <1>8, <1>9, <1>10, <1>11, <1>12 DEF UStep

\* What the step leaves of p itself.
LEMMA ExecSelf ==
    ASSUME ExecInv, NEW p \in UProcs, UStep(p)
    PROVE  ExecTypes' /\ ProcInv(p)'
<1>0. ExecTypes /\ ProcInv(p)
    BY DEF ExecInv
<1> USE DEF ExecTypes, ProcInv, UGoto, Done, InvocationKept, uWorld, UPcs, AtLocal,
        UCommands, Inits, NoRemote, DoesNotUseRepo
<1>1. CASE Invoke(p)
    <2>1. PICK c \in UCommands, a \in BOOLEAN :
             uCmd' = [uCmd EXCEPT ![p] = c] /\ uApi' = [uApi EXCEPT ![p] = a]
        BY <1>1 DEF Invoke
    <2>2. /\ uPc[p] = "idle" /\ uPc' = [uPc EXCEPT ![p] = "make"]
          /\ UNCHANGED <<uRes, uFallback, uRan, uRepo, uLock, uPinned, uPublished>>
        BY <1>1 DEF Invoke
    <2>3. ExecTypes'
        BY <1>0, <2>1, <2>2
    <2> QED
        BY <1>0, <2>1, <2>2, <2>3, RanNames
<1>2. CASE MakeExecutor(p)
    BY SMT, <1>0, <1>2 DEF MakeExecutor, ExecutorByCommand, NoApiAddr, NoLocal
<1>3. CASE NewClient(p)
    BY <1>0, <1>3 DEF NewClient, MayFallBack
<1>4. CASE Dial(p)
    BY SMT, <1>0, <1>4 DEF Dial, FallBack
<1>5. CASE DaemonRuns(p)
    BY <1>0, <1>5, RunsFirst, RanNames DEF DaemonRuns
<1>6. CASE DaemonAnswers(p) \/ Lost(p)
    BY SMT, <1>0, <1>6 DEF DaemonAnswers, Lost
<1>7. CASE PreRun(p)
    BY SMT, <1>0, <1>7 DEF PreRun
<1>8. CASE RunAlone(p) \/ ReportLocally(p)
    <2>1. /\ uPc[p] = "run" /\ uCmd[p] \in {"cid", "diagCmds"}
          /\ uPc' = [uPc EXCEPT ![p] = "done"] /\ uRes' = [uRes EXCEPT ![p] = "ok"]
          /\ UNCHANGED <<uCmd, uApi, uFallback, uRepo, uLock, uPinned, uPublished>>
          /\ Runs(p, "local")
        BY <1>8 DEF RunAlone, ReportLocally
    <2>2. /\ uRan' \in [UProcs -> {<<>>, <<"local">>, <<"daemon">>}] /\ uRan'[p] = <<"local">>
        BY <1>0, <2>1, RunsFirst
    <2> QED
        BY <1>0, <2>1, <2>2, RanNames
<1>9. CASE initCmd(p)
    BY <1>0, <1>9 DEF initCmd
<1>10. CASE ConstructNode(p)
    BY SMT, <1>0, <1>10 DEF ConstructNode, CanOpen
<1>11. CASE RunOnNode(p)
    <2>1. /\ uPc[p] = "node" /\ uPc' = [uPc EXCEPT ![p] = "done"]
          /\ UNCHANGED <<uCmd, uApi, uFallback, uRepo, uPinned, uPublished>>
        BY <1>11 DEF RunOnNode
    <2>2. CASE Runs(p, "local") /\ uRes' = [uRes EXCEPT ![p] = "ok"]
        <3>1. /\ uRan' \in [UProcs -> {<<>>, <<"local">>, <<"daemon">>}] /\ uRan'[p] = <<"local">>
            BY <1>0, <2>1, <2>2, RunsFirst
        <3> QED
            BY <1>0, <2>1, <2>2, <3>1, RanNames
    <2>3. CASE uRan' = uRan /\ uRes' = [uRes EXCEPT ![p] = "error"]
        BY <1>0, <2>1, <2>3
    <2> QED
        BY <1>11, <2>2, <2>3 DEF RunOnNode
<1>12. CASE doInit(p)
    BY SMT, <1>0, <1>12 DEF doInit, checkWritable, applyProfiles
<1>13. CASE InitOpen(p)
    BY SMT, <1>0, <1>13 DEF InitOpen, CanOpen
<1>14. CASE addDefaultAssets(p)
    BY SMT, <1>0, <1>14 DEF addDefaultAssets, CloseRepo, addAssetList, InitFails
<1>15. CASE initializeIpnsKeyspace(p)
    <2>1. /\ uPc[p] = "keyspace" /\ uPc' = [uPc EXCEPT ![p] = "done"]
          /\ UNCHANGED <<uCmd, uApi, uFallback, uRepo, uPinned>>
        BY <1>15 DEF initializeIpnsKeyspace, InitFails
    <2>2. CASE Runs(p, "local") /\ uRes' = [uRes EXCEPT ![p] = "ok"] /\ uPublished' = TRUE
        <3>1. /\ uRan' \in [UProcs -> {<<>>, <<"local">>, <<"daemon">>}] /\ uRan'[p] = <<"local">>
            BY <1>0, <2>1, <2>2, RunsFirst
        <3> QED
            BY <1>0, <2>1, <2>2, <3>1, RanNames
    <2>3. CASE uRan' = uRan /\ uRes' = [uRes EXCEPT ![p] = "error"] /\ uPublished' = uPublished
        BY <1>0, <2>1, <2>3
    <2> QED
        BY <1>15, <2>2, <2>3 DEF initializeIpnsKeyspace, InitFails
<1>16. CASE Kill(p)
    BY <1>0, <1>16 DEF Kill
<1> QED
    BY <1>1, <1>2, <1>3, <1>4, <1>5, <1>6, <1>7, <1>8, <1>9, <1>10, <1>11, <1>12, <1>13, <1>14, <1>15,
       <1>16 DEF UStep

LEMMA ExecNext == ExecInv /\ [UNext]_uVars => ExecInv'
<1> SUFFICES ASSUME ExecInv, [UNext]_uVars PROVE ExecInv'
    OBVIOUS
<1>1. ASSUME NEW p \in UProcs, UStep(p)
      PROVE  ExecInv'
    <2>1. \A q \in UProcs \ {p} : ProcInv(q)'
        BY SMT, <1>1, ExecOthers DEF ExecInv, ProcInv
    <2> QED
        BY <1>1, <2>1, ExecOthers, ExecSelf DEF ExecInv
<1>2. CASE DaemonStarts \/ DaemonListens \/ WriteApiFile \/ DaemonStops
    <2>1. /\ UNCHANGED <<uPc, uCmd, uApi, uFallback, uRan, uRes, uRepo, uPinned, uPublished>>
          /\ \A p \in UProcs : uLock = p => uLock' = p
          /\ uDaemon' # "off" => uLock' = "daemon"
        BY <1>2, UProcsAssumption DEF DaemonStarts, DaemonListens, WriteApiFile, DaemonStops, CanOpen,
           InvocationKept, ExecInv
    <2> QED
        BY SMT, <2>1 DEF ExecInv, ExecTypes, ProcInv
<1>3. CASE UNCHANGED uVars
    BY <1>3 DEF uVars, ExecInv, ExecTypes, ProcInv
<1> QED
    BY <1>1, <1>2, <1>3 DEF UNext

\* A command runs at most once and never locally when a daemon was asked for, a repository
\* has one node, and an ipfs init that succeeds has done all its steps, whatever daemons
\* start, stop and crash under any number of processes (makeExecutor, the client's fallback,
\* fsrepo.Open, doInit).
THEOREM CommandsRunOnce == USpec => []RunsOnce
<1>1. UInit => ExecInv
    BY SMT DEF UInit, ExecInv, ExecTypes, ProcInv, UPcs, AtLocal, Inits, NoRemote, DoesNotUseRepo
<1>2. ExecInv => RunsOnce
    <2> SUFFICES ASSUME ExecInv PROVE RunsOnce
        OBVIOUS
    <2>1. AtMostOnce
        <3> SUFFICES ASSUME NEW p \in UProcs PROVE Len(uRan[p]) <= 1
            BY DEF AtMostOnce
        <3>1. uRan[p] \in {<<>>, <<"local">>, <<"daemon">>}
            BY DEF ExecInv, ExecTypes
        <3>2. CASE uRan[p] = <<>>
            BY SMT, <3>2
        <3>3. CASE uRan[p] = <<"local">>
            BY SMT, <3>3
        <3>4. CASE uRan[p] = <<"daemon">>
            BY SMT, <3>4
        <3> QED
            BY <3>1, <3>2, <3>3, <3>4
    <2>2. RequestedMeansDaemon
        BY DEF RequestedMeansDaemon, ExecInv, ExecTypes, ProcInv
    <2>3. OneNode /\ InitComplete
        BY DEF OneNode, InitComplete, ExecInv, ProcInv
    <2> QED
        BY <2>1, <2>2, <2>3 DEF RunsOnce
<1> QED
    BY <1>1, <1>2, ExecNext, PTL DEF USpec

-----------------------------------------------------------------------------
(* The routing commands.                                                   *)

QueryEvents == {"progress", "peer", "provider", "value", "error"}

QTypes ==
    /\ qKind \in Kinds \cup {"none"} /\ qPhase \in {"call", "publish", "exit"}
    /\ qToPub \in Seq(QueryEvents) /\ qBuf \in Seq(QueryEvents) /\ qPub \in Seq(QueryEvents)
    /\ qOut \in Seq(QueryEvents) /\ qResult \in {"none", "ok", "err"} /\ qErr \in {"nil", "err"}
    /\ qCtx \in BOOLEAN /\ qOpen \in BOOLEAN /\ qRet \in {"none", "nil", "err", "unsent"}
    /\ qReq \in {"live", "gone", "over"} /\ qTodo \in Seq(Keys) /\ qDone \in Seq(Keys)

\* As long as the client is there, what was published is what was emitted and what is in the buffer,
\* and the context is cancelled only by a goroutine that has published everything.
QChannel ==
    /\ qReq = "live" =>
          /\ qPub = qOut \o qBuf
          /\ qCtx => qPhase = "exit"
          /\ ~qOpen => qCtx
    /\ Command /\ qPhase = "exit" => qToPub = <<>>
    /\ Command /\ qRet \in {"nil", "err"} => ~qOpen /\ qBuf = <<>>

\* Where the outcome of the routing call is, at each stage of its way to Run.
QErrors ==
    /\ qKind = "none" => qPhase = "call" /\ qRet = "none"
    /\ qPhase = "call" => qResult = "none"
    /\ qKind = "apiR" => qRet # "nil"
    /\ Command /\ (qPhase = "exit" \/ (qPhase = "publish" /\ qKind # "query")) => qErr = ErrorOf(qKind, qResult)
    /\ Command /\ qPhase # "call" => qResult \in {"ok", "err"}
    /\ Command /\ qReq = "live" /\ qRet \in {"nil", "err"} => qRet = qErr

\* The roots whose graphs provideKeysRec has walked.
Walked == UNION {Walk(QRoots[i]) : i \in 1 .. Len(QRoots) - Len(qTodo)}

\* What is provided and what is about to be are the graphs of the roots walked so far.
QProvides ==
    /\ qKind = "none" => qSet = {} /\ qDone = <<>> /\ qTodo = QRoots
    /\ qSet # {} => qKind \in {"provide", "provideR"}
    /\ Len(qTodo) <= Len(QRoots)
    /\ \A i \in 1 .. Len(qTodo) : qTodo[i] = QRoots[Len(QRoots) - Len(qTodo) + i]
    /\ qKind \in {"provideR", "apiR"} => IsFiniteSet(Provided) /\ Cardinality(Provided) = Len(qDone)
    /\ qKind = "provideR" => qSet \cap Provided = {}
    /\ qKind = "provideR" /\ (qPhase = "call" \/ qResult = "ok") => Provided \cup qSet = Walked
    /\ qKind = "provideR" /\ qResult = "ok" => qTodo = <<>> /\ qSet = {}

QInv == QTypes /\ QChannel /\ QErrors /\ QProvides

\* What is sent joins what was published and what is in the buffer.
LEMMA SentLast ==
    ASSUME NEW S, NEW a \in Seq(S), NEW b \in Seq(S), NEW e \in S
    PROVE  Append(a \o b, e) = a \o Append(b, e)
<1>1. a \o b \in Seq(S) /\ <<e>> \in Seq(S)
    BY SMT, ConcatProperties
<1>2. Append(a \o b, e) = (a \o b) \o <<e>> /\ Append(b, e) = b \o <<e>>
    BY <1>1, AppendIsConcat
<1> QED
    BY SMT, <1>1, <1>2, ConcatAssociative

\* What is received leaves the buffer and follows what was emitted.
LEMMA ReceivedFirst ==
    ASSUME NEW S, NEW a \in Seq(S), NEW b \in Seq(S), b # <<>>
    PROVE  a \o b = Append(a, Head(b)) \o Tail(b)
<1>1. /\ Head(b) \in S /\ Tail(b) \in Seq(S) /\ Len(Tail(b)) = Len(b) - 1 /\ Head(b) = b[1]
      /\ \A i \in 1 .. Len(Tail(b)) : Tail(b)[i] = b[i + 1]
    BY SMT, HeadTailProperties
<1>2. /\ Append(a, Head(b)) \in Seq(S) /\ Len(Append(a, Head(b))) = Len(a) + 1
      /\ \A i \in 1 .. Len(a) : Append(a, Head(b))[i] = a[i]
      /\ Append(a, Head(b))[Len(a) + 1] = Head(b)
    BY SMT, <1>1, AppendProperties
<1> DEFINE c == Append(a, Head(b))
           d == Tail(b)
<1> HIDE DEF c, d
<1>3. /\ a \o b \in Seq(S) /\ Len(a \o b) = Len(a) + Len(b)
      /\ \A i \in 1 .. Len(a) + Len(b) : (a \o b)[i] = IF i <= Len(a) THEN a[i] ELSE b[i - Len(a)]
    BY ConcatProperties
<1>4. /\ c \o d \in Seq(S) /\ Len(c \o d) = Len(c) + Len(d)
      /\ \A i \in 1 .. Len(c) + Len(d) : (c \o d)[i] = IF i <= Len(c) THEN c[i] ELSE d[i - Len(c)]
    BY <1>1, <1>2, ConcatProperties DEF c, d
<1>5. Len(a) \in Nat /\ Len(b) \in Nat /\ Len(c) = Len(a) + 1 /\ Len(d) = Len(b) - 1 /\ Len(b) >= 1
    BY SMT, <1>1, <1>2, EmptySeq, LenProperties DEF c, d
<1>6. \A i \in 1 .. Len(a \o b) : (a \o b)[i] = (c \o d)[i]
    <2> TAKE i \in 1 .. Len(a \o b)
    <2>1. i \in Nat /\ i >= 1 /\ i <= Len(a) + Len(b)
        BY SMT, <1>3, <1>5
    <2>2. CASE i <= Len(a)
        BY SMT, <1>2, <1>3, <1>4, <1>5, <2>1, <2>2 DEF c
    <2>3. CASE i = Len(a) + 1
        BY SMT, <1>1, <1>2, <1>3, <1>4, <1>5, <2>1, <2>3 DEF c
    <2>4. CASE i > Len(a) + 1
        <3>1. (a \o b)[i] = b[i - Len(a)] /\ (c \o d)[i] = d[i - Len(c)]
            BY SMT, <1>3, <1>4, <1>5, <2>1, <2>4
        <3>2. i - Len(c) \in 1 .. Len(d) /\ (i - Len(c)) + 1 = i - Len(a)
            BY SMT, <1>5, <2>1, <2>4
        <3>3. d[i - Len(c)] = b[(i - Len(c)) + 1]
            BY <1>1, <3>2 DEF d
        <3> QED
            BY <3>1, <3>2, <3>3
    <2> QED
        BY SMT, <1>5, <2>1, <2>2, <2>3, <2>4
<1>7. a \o b = c \o d
    <2>1. Len(a \o b) = Len(a) + Len(b) /\ Len(c \o d) = Len(c) + Len(d)
        BY <1>3, <1>4
    <2>2. Len(a \o b) = Len(c \o d)
        BY SMT, <1>5, <2>1
    <2>3. a \o b \in Seq(S) /\ c \o d \in Seq(S)
        BY <1>3, <1>4
    <2> QED
        BY <1>6, <2>2, <2>3, SeqEqual
<1> QED
    BY <1>7 DEF c, d

\* What the send of an event does to the channel.
LEMMA SendKeeps ==
    ASSUME QInv, NEW e \in QueryEvents, SendQueryEvent(e), UNCHANGED <<qOut, qOpen>>
    PROVE  /\ qBuf' \in Seq(QueryEvents) /\ qPub' \in Seq(QueryEvents)
           /\ qPub = qOut \o qBuf => qPub' = qOut' \o qBuf'
           /\ ~qOpen => qBuf' = qBuf
<1>0. qBuf \in Seq(QueryEvents) /\ qPub \in Seq(QueryEvents) /\ qOut \in Seq(QueryEvents)
    BY DEF QInv, QTypes
<1>1. CASE UNCHANGED <<qBuf, qPub>>
    BY <1>0, <1>1
<1>2. CASE qOpen /\ qBuf' = Append(qBuf, e) /\ qPub' = Append(qPub, e)
    BY SMT, <1>0, <1>2, SentLast, AppendProperties
<1> QED
    BY <1>1, <1>2 DEF SendQueryEvent

\* Steps that provide nothing and decide nothing.
LEMMA ProvidesKept ==
    ASSUME QInv, UNCHANGED <<qKind, qPhase, qResult, qTodo, qSet, qDone>>
    PROVE  QProvides'
<1>1. Provided' = Provided /\ Walked' = Walked
    BY DEF Provided, Walked
<1> QED
    BY <1>1 DEF QInv, QProvides

\* A key that is provided joins the set of those that are.
LEMMA ProvidedMore ==
    ASSUME QInv, NEW k \in Keys, qDone' = Append(qDone, k)
    PROVE  /\ qDone' \in Seq(Keys) /\ Len(qDone') = Len(qDone) + 1 /\ Provided' = Provided \cup {k}
           /\ k \notin Provided /\ IsFiniteSet(Provided) /\ Cardinality(Provided) = Len(qDone)
                 => IsFiniteSet(Provided') /\ Cardinality(Provided') = Len(qDone')
<1>1. /\ qDone' \in Seq(Keys) /\ Len(qDone') = Len(qDone) + 1 /\ Len(qDone) \in Nat
      /\ \A i \in 1 .. Len(qDone) : qDone'[i] = qDone[i]
      /\ qDone'[Len(qDone) + 1] = k
    BY SMT, AppendProperties, LenProperties DEF QInv, QTypes
<1>2. Provided' = {qDone'[i] : i \in 1 .. Len(qDone')}
    BY DEF Provided
<1>3. Provided' = Provided \cup {k}
    <2>1. ASSUME NEW x \in Provided' PROVE x \in Provided \cup {k}
        BY SMT, <1>1, <1>2, <2>1 DEF Provided
    <2>2. ASSUME NEW x \in Provided PROVE x \in Provided'
        <3>1. PICK i \in 1 .. Len(qDone) : x = qDone[i]
            BY <2>2 DEF Provided
        <3>2. i \in 1 .. Len(qDone') /\ qDone'[i] = x
            BY SMT, <1>1, <3>1
        <3> QED
            BY <1>2, <3>2
    <2>3. k \in Provided'
        <3>1. Len(qDone) + 1 \in 1 .. Len(qDone')
            BY SMT, <1>1
        <3> QED
            BY <1>1, <1>2, <3>1
    <2> QED
        BY <2>1, <2>2, <2>3
<1> QED
    BY SMT, <1>1, <1>3, FS_AddElement

LEMMA QStarts == QInit => QInv
<1> SUFFICES ASSUME QInit PROVE QInv
    OBVIOUS
<1>1. Len(QRoots) \in Nat /\ QRoots \in Seq(Keys)
    BY QAssumption, LenProperties DEF Keys
<1>2. <<>> \in Seq(QueryEvents) /\ <<>> \in Seq(Keys) /\ <<>> \o <<>> = <<>>
    BY EmptySeq, ConcatEmptySeq
<1>3. QTypes
    BY <1>1, <1>2 DEF QInit, QTypes
<1>4. QChannel /\ QErrors
    BY <1>2 DEF QInit, QChannel, QErrors, Command, Kinds
<1>5. QProvides
    BY SMT, <1>1 DEF QInit, QProvides
<1> QED
    BY <1>3, <1>4, <1>5 DEF QInv

\* A command begins.
LEMMA QRegisterStep ==
    ASSUME QInv, Start
    PROVE  QInv'
<1>1. PICK kind \in Kinds : RegisterQuery(kind)
    BY DEF Start, queryDhtCmd, findProvidersDhtCmd, provideRefDhtCmd, findPeerDhtCmd, getValueDhtCmd,
           putValueDhtCmd, DhtProvide, Kinds
<1>2. /\ qKind = "none" /\ qKind' = kind
      /\ UNCHANGED <<qPhase, qLeft, qToPub, qResult, qErr, qCtx, qRet, qReq, qOpen, qBuf, qPub, qOut,
                     qTodo, qSet, qDone>>
    BY <1>1 DEF RegisterQuery, qChan, walk
<1>3. qPhase = "call" /\ qRet = "none" /\ qSet = {} /\ qDone = <<>> /\ qTodo = QRoots /\ kind # "none"
    BY <1>2 DEF QInv, QErrors, QProvides, Kinds
<1>4. QTypes'
    BY SMT, <1>2 DEF QInv, QTypes
<1>5. QChannel'
    BY <1>2, <1>3 DEF QInv, QChannel, Command
<1>6. QErrors'
    BY <1>2, <1>3 DEF QInv, QErrors, Command
<1>7. QProvides'
    <2>1. Len(QRoots) \in Nat /\ qTodo' = QRoots /\ Len(qDone') = 0
        BY <1>2, <1>3, QAssumption, LenProperties, EmptySeq
    <2>2. Provided' = {}
        BY SMT, <2>1 DEF Provided
    <2>3. Walked' = {}
        <3>1. 1 .. Len(QRoots) - Len(qTodo') = {}
            BY SMT, <2>1
        <3> QED
            BY <3>1 DEF Walked
    <2>4. IsFiniteSet(Provided') /\ Cardinality(Provided') = Len(qDone')
        BY <2>1, <2>2, FS_EmptySet
    <2>5. qKind' # "provideR" \/ qResult' # "ok" \/ (qTodo' = <<>> /\ qSet' = {})
        BY <1>2, <1>3 DEF QInv, QErrors
    <2> QED
        BY SMT, <1>2, <1>3, <2>1, <2>2, <2>3, <2>4, <2>5 DEF QProvides
<1> QED
    BY <1>4, <1>5, <1>6, <1>7 DEF QInv

\* The routing system, or the goroutine, publishes an event.
LEMMA QSendStep ==
    ASSUME QInv, RoutingEvent \/ Publish
    PROVE  QInv'
<1>1. /\ UNCHANGED <<qKind, qPhase, qResult, qErr, qCtx, qOpen, qOut, qRet, qReq, qTodo, qSet, qDone>>
      /\ qToPub' = qToPub \/ (qToPub # <<>> /\ qToPub' = Tail(qToPub))
      /\ qPhase # "exit" /\ qKind # "none"
    <2>1. CASE RoutingEvent
        BY <2>1 DEF RoutingEvent, walk, Command, Kinds
    <2>2. CASE Publish
        BY <2>2 DEF Publish, walk, QInv, QErrors
    <2> QED
        BY <2>1, <2>2
<1>2. PICK e \in QueryEvents : SendQueryEvent(e)
    <2>1. CASE RoutingEvent
        BY <2>1 DEF RoutingEvent, QueryEvents
    <2>2. CASE Publish
        <3>1. qToPub # <<>> /\ SendQueryEvent(Head(qToPub))
            BY <2>2 DEF Publish
        <3>2. Head(qToPub) \in QueryEvents
            BY <3>1, HeadTailProperties DEF QInv, QTypes
        <3> QED
            BY <3>1, <3>2
    <2> QED
        BY <2>1, <2>2
<1>3. /\ qBuf' \in Seq(QueryEvents) /\ qPub' \in Seq(QueryEvents)
      /\ qPub = qOut \o qBuf => qPub' = qOut' \o qBuf'
      /\ ~qOpen => qBuf' = qBuf
    BY <1>1, <1>2, SendKeeps
<1>4. qToPub' \in Seq(QueryEvents)
    BY <1>1, HeadTailProperties DEF QInv, QTypes
<1>5. QTypes'
    BY <1>1, <1>3, <1>4 DEF QInv, QTypes
<1>6. QChannel'
    BY <1>1, <1>3 DEF QInv, QChannel, Command
<1>7. QErrors'
    BY <1>1 DEF QInv, QErrors, Command, ErrorOf
<1>8. QProvides'
    BY <1>1, ProvidesKept
<1> QED
    BY <1>5, <1>6, <1>7, <1>8 DEF QInv

\* The routing call is over, and then the goroutine.
LEMMA QCallStep ==
    ASSUME QInv, CallReturns
    PROVE  QInv'
<1>1. /\ Command /\ qPhase = "call" /\ qPhase' = "publish"
      /\ qKind \in {"provide", "provideR"} => qTodo = <<>> /\ qSet = {}
      /\ UNCHANGED <<qKind, qCtx, qRet, qReq, qOpen, qBuf, qPub, qOut, qTodo, qSet, qDone>>
    BY DEF CallReturns, qChan, walk
<1>2. PICK res \in {"ok", "err"} :
         qResult' = res /\ qToPub' = Publishes(qKind, res) /\ qErr' = ErrorNow(qKind, res)
    BY DEF CallReturns
<1>3. \A kind : Publishes(kind, res) \in Seq(QueryEvents)
    <2>1. \A x \in QueryEvents : <<x>> \in Seq(QueryEvents)
        BY SMT
    <2>2. <<>> \in Seq(QueryEvents) /\ \A x \in {"peer", "provider", "value", "error"} : x \in QueryEvents
        BY EmptySeq DEF QueryEvents
    <2> QED
        BY <2>1, <2>2 DEF Publishes, QueryPublishes, FindProvsPublishes, FindPeerPublishes, GetPublishes,
                          PutPublishes, ProvidePublishes
<1>4. qErr' \in {"nil", "err"} /\ (qKind # "query" => qErr' = ErrorOf(qKind, res))
    BY <1>2 DEF ErrorNow, ErrorOf, QInv, QTypes
<1>5. qReq = "live" => ~qCtx /\ qOpen
    BY <1>1 DEF QInv, QChannel, QTypes
<1>6. QTypes'
    BY <1>1, <1>2, <1>3, <1>4 DEF QInv, QTypes
<1>7. QChannel'
    BY <1>1, <1>5 DEF QInv, QChannel, Command
<1>8. QErrors'
    <2>1. Command' /\ qKind # "none" /\ qKind # "apiR"
        BY <1>1 DEF Command, Kinds
    <2>2. qReq = "live" => qRet \notin {"nil", "err"}
        BY <1>1, <1>5 DEF QInv, QChannel
    <2>3. ErrorOf(qKind, res) = ErrorOf(qKind', qResult')
        BY <1>1, <1>2
    <2> QED
        BY <1>1, <1>2, <1>4, <2>1, <2>2, <2>3 DEF QErrors
<1>9. QProvides'
    <2>1. Provided' = Provided /\ Walked' = Walked
        BY <1>1 DEF Provided, Walked
    <2> QED
        BY <1>1, <2>1 DEF QInv, QProvides
<1> QED
    BY <1>6, <1>7, <1>8, <1>9 DEF QInv

LEMMA QExitStep ==
    ASSUME QInv, Exit
    PROVE  QInv'
<1>1. /\ qPhase = "publish" /\ qPhase' = "exit" /\ qToPub = <<>> /\ qCtx' = TRUE
      /\ qErr' = ErrorAtEnd(qKind, qResult)
      /\ UNCHANGED <<qKind, qToPub, qResult, qRet, qReq, qOpen, qBuf, qPub, qOut, qTodo, qSet, qDone>>
    BY DEF Exit, MayCancel, qChan, walk
<1>2. qErr' \in {"nil", "err"} /\ (Command => qErr' = ErrorOf(qKind, qResult))
    BY <1>1 DEF ErrorAtEnd, ErrorOf, QInv, QTypes, QErrors
<1>3. qReq = "live" => ~qCtx /\ qOpen
    BY <1>1 DEF QInv, QChannel, QTypes
<1>4. QTypes'
    BY <1>1, <1>2 DEF QInv, QTypes
<1>5. QChannel'
    BY <1>1 DEF QInv, QChannel, Command
<1>6. QErrors'
    <2>1. Command /\ qReq = "live" => qRet \notin {"nil", "err"}
        BY <1>3 DEF QInv, QChannel
    <2>2. ErrorOf(qKind, qResult) = ErrorOf(qKind', qResult')
        BY <1>1
    <2> QED
        BY <1>1, <1>2, <2>1, <2>2 DEF QInv, QErrors, Command
<1>7. QProvides'
    BY SMT, <1>1 DEF QInv, QProvides, Provided, Walked
<1> QED
    BY <1>4, <1>5, <1>6, <1>7 DEF QInv

\* provideKeysRec takes the next root.
LEMMA QWalkStep ==
    ASSUME QInv, WalkRoot
    PROVE  QInv'
<1>1. /\ Command /\ qPhase = "call" /\ qKind \in {"provide", "provideR"} /\ qTodo # <<>> /\ qSet = {}
      /\ qTodo' = Tail(qTodo)
      /\ UNCHANGED <<qKind, qCtx, qRet, qReq, qOpen, qBuf, qPub, qOut, qDone>>
      /\ \/ qSet' = ToProvide(Head(qTodo)) /\ UNCHANGED <<qPhase, qResult, qErr, qToPub>>
         \/ /\ qResult' = "err" /\ qErr' = "err" /\ qToPub' = <<"error">>
            /\ qPhase' = "publish" /\ UNCHANGED qSet
    BY DEF WalkRoot, qChan
<1>2. /\ qTodo' \in Seq(Keys) /\ Len(qTodo') = Len(qTodo) - 1 /\ Len(qTodo) \in Nat /\ Len(qTodo) >= 1
      /\ \A i \in 1 .. Len(qTodo') : qTodo'[i] = qTodo[i + 1]
      /\ Head(qTodo) = qTodo[1]
    BY SMT, <1>1, HeadTailProperties, EmptySeq DEF QInv, QTypes
<1>3. qReq = "live" => ~qCtx /\ qOpen
    BY <1>1 DEF QInv, QChannel, QTypes
<1>4. QTypes'
    <2>1. <<"error">> \in Seq(QueryEvents)
        BY SMT DEF QueryEvents
    <2> QED
        BY <1>1, <1>2, <2>1 DEF QInv, QTypes
<1>5. QChannel'
    BY <1>1, <1>3 DEF QInv, QChannel, Command
<1>6. QErrors'
    <2>1. qReq = "live" => qRet \notin {"nil", "err"}
        BY <1>1, <1>3 DEF QInv, QChannel
    <2>2. qKind' # "query" /\ qKind' # "apiR" /\ qKind' # "none" /\ qKind' # "findprovs"
        BY <1>1
    <2> QED
        BY <1>1, <2>1, <2>2 DEF QInv, QErrors, Command, ErrorOf
<1>7. QProvides'
    <2> DEFINE n == Len(QRoots) - Len(qTodo)
    <2>0. Len(QRoots) \in Nat /\ Len(qTodo) <= Len(QRoots) /\ n \in Nat
          /\ Len(QRoots) - Len(qTodo') = n + 1
        BY SMT, <1>2, QAssumption, LenProperties DEF QInv, QProvides
    <2>1. \A i \in 1 .. Len(qTodo) : qTodo[i] = QRoots[n + i]
        BY DEF QInv, QProvides
    <2>2. \A i \in 1 .. Len(qTodo') : qTodo'[i] = QRoots[Len(QRoots) - Len(qTodo') + i]
        <3> TAKE i \in 1 .. Len(qTodo')
        <3>1. i + 1 \in 1 .. Len(qTodo) /\ Len(QRoots) - Len(qTodo') + i = n + (i + 1)
            BY SMT, <1>2, <2>0
        <3> QED
            BY <1>2, <2>1, <3>1
    <2>3. Head(qTodo) = QRoots[n + 1]
        BY SMT, <1>2, <2>1
    <2>4. Provided' = Provided
        BY <1>1 DEF Provided
    <2>5. ASSUME qKind = "provideR", qSet' = ToProvide(Head(qTodo))
          PROVE  qSet' \cap Provided' = {} /\ Provided' \cup qSet' = Walked'
        <3>1. qSet' = Walk(QRoots[n + 1]) \ Provided
            BY <2>3, <2>5 DEF ToProvide
        <3>2. Provided = UNION {Walk(QRoots[i]) : i \in 1 .. n}
            BY <1>1, <2>5 DEF QInv, QProvides, Walked
        <3>3. Walked' = UNION {Walk(QRoots[i]) : i \in 1 .. n + 1}
            BY <2>0 DEF Walked
        <3>4. 1 .. n + 1 = (1 .. n) \cup {n + 1}
            BY SMT, <2>0
        <3> HIDE DEF n
        <3>5. Walked' = Provided \cup Walk(QRoots[n + 1])
            BY <3>2, <3>3, <3>4
        <3> QED
            BY <2>4, <3>1, <3>5
    <2>6. qResult # "ok"
        BY <1>1 DEF QInv, QErrors
    <2>7. qKind' = qKind /\ qKind # "none" /\ Len(qTodo') <= Len(QRoots)
        BY SMT, <1>1, <1>2, <2>0
    <2>8. qKind = "provideR" => qSet' \cap Provided' = {}
        BY <1>1, <2>5
    <2>9. qKind = "provideR" /\ (qPhase' = "call" \/ qResult' = "ok") => Provided' \cup qSet' = Walked'
        BY <1>1, <2>5, <2>6
    <2>10. qKind \in {"provideR", "apiR"} => IsFiniteSet(Provided') /\ Cardinality(Provided') = Len(qDone')
        BY <1>1, <2>4 DEF QInv, QProvides
    <2>11. qResult' # "ok"
        BY <1>1, <2>6
    <2>12. qKind' \in {"provide", "provideR"}
        BY <1>1
    <2> QED
        BY <2>2, <2>7, <2>8, <2>9, <2>10, <2>11, <2>12 DEF QProvides
<1> QED
    BY <1>4, <1>5, <1>6, <1>7 DEF QInv

\* One key of the current root is provided, or the routing system refuses it.
LEMMA QProvideStep ==
    ASSUME QInv, NEW k \in Keys, Provide(k)
    PROVE  QInv'
<1>1. /\ Command /\ qPhase = "call" /\ k \in qSet
      /\ UNCHANGED <<qKind, qCtx, qRet, qReq, qOpen, qBuf, qPub, qOut, qTodo>>
      /\ \/ qDone' = Append(qDone, k) /\ qSet' = qSet \ {k} /\ UNCHANGED <<qPhase, qResult, qErr, qToPub>>
         \/ /\ qResult' = "err" /\ qErr' = "err" /\ qToPub' = <<"error">>
            /\ qPhase' = "publish" /\ UNCHANGED <<qDone, qSet>>
    BY DEF Provide, qChan
<1>2. qDone' \in Seq(Keys)
    BY <1>1, ProvidedMore DEF QInv, QTypes
<1>3. qReq = "live" => ~qCtx /\ qOpen
    BY <1>1 DEF QInv, QChannel, QTypes
<1>4. QTypes'
    <2>1. <<"error">> \in Seq(QueryEvents)
        BY SMT DEF QueryEvents
    <2> QED
        BY <1>1, <1>2, <2>1 DEF QInv, QTypes
<1>5. QChannel'
    BY <1>1, <1>3 DEF QInv, QChannel, Command
<1>6. QErrors'
    <2>1. qReq = "live" => qRet \notin {"nil", "err"}
        BY <1>1, <1>3 DEF QInv, QChannel
    <2>2. qKind' # "apiR" /\ qKind' # "none" /\ qKind' # "findprovs"
        BY <1>1 DEF QInv, QProvides
    <2> QED
        BY <1>1, <2>1, <2>2 DEF QInv, QErrors, Command, ErrorOf
<1>7. QProvides'
    <2>1. qResult # "ok" /\ qKind # "none" /\ qKind # "apiR"
        BY <1>1 DEF QInv, QErrors, Command, Kinds
    <2>2. CASE qDone' = Append(qDone, k) /\ qSet' = qSet \ {k} /\ UNCHANGED <<qPhase, qResult, qErr, qToPub>>
        <3>1. Walked' = Walked
            BY <1>1 DEF Walked
        <3>2. Provided' = Provided \cup {k}
            BY <2>2, ProvidedMore
        <3>3. ASSUME qKind = "provideR"
              PROVE  /\ IsFiniteSet(Provided') /\ Cardinality(Provided') = Len(qDone')
                     /\ qSet' \cap Provided' = {} /\ Provided' \cup qSet' = Walked'
            <4>1. k \notin Provided /\ IsFiniteSet(Provided) /\ Cardinality(Provided) = Len(qDone)
                  /\ qSet \cap Provided = {} /\ Provided \cup qSet = Walked
                BY <1>1, <3>3 DEF QInv, QProvides
            <4>2. IsFiniteSet(Provided') /\ Cardinality(Provided') = Len(qDone')
                BY <2>2, <4>1, ProvidedMore
            <4> QED
                BY <1>1, <2>2, <3>1, <3>2, <4>1, <4>2
        <3>4. /\ Len(qTodo') <= Len(QRoots)
              /\ \A i \in 1 .. Len(qTodo') : qTodo'[i] = QRoots[Len(QRoots) - Len(qTodo') + i]
            BY <1>1 DEF QInv, QProvides
        <3>5. qKind' = qKind /\ qResult' # "ok"
            BY <1>1, <2>1, <2>2
        <3>6. qKind' \in {"provide", "provideR"}
            BY <1>1, <3>5 DEF QInv, QProvides
        <3> QED
            BY <2>1, <3>3, <3>4, <3>5, <3>6 DEF QProvides
    <2>3. CASE qResult' = "err" /\ qPhase' = "publish" /\ UNCHANGED <<qDone, qSet>>
        <3>1. Provided' = Provided
            BY <2>3 DEF Provided
        <3> QED
            BY <1>1, <2>1, <2>3, <3>1 DEF QInv, QProvides
    <2> QED
        BY <1>1, <2>2, <2>3
<1> QED
    BY <1>4, <1>5, <1>6, <1>7 DEF QInv

\* Run emits what it receives, and returns when the channel is closed and empty.
LEMMA QRunStep ==
    ASSUME QInv, Emit \/ Return \/ WaitThenClose
    PROVE  QInv'
<1>0. qBuf \in Seq(QueryEvents) /\ qOut \in Seq(QueryEvents)
    BY DEF QInv, QTypes
<1>1. CASE Emit
    <2>1. /\ Command /\ qRet = "none" /\ qBuf # <<>> /\ qBuf' = Tail(qBuf)
          /\ UNCHANGED <<qKind, qPhase, qToPub, qResult, qErr, qCtx, qOpen, qPub, qReq, qTodo, qSet, qDone>>
          /\ \/ qOut' = Append(qOut, Head(qBuf)) /\ UNCHANGED qRet
             \/ qReq # "live" /\ qRet' = "unsent" /\ UNCHANGED qOut
        BY <1>1 DEF Emit, walk
    <2>2. qBuf' \in Seq(QueryEvents) /\ qOut' \in Seq(QueryEvents)
        <3>1. Head(qBuf) \in QueryEvents /\ Tail(qBuf) \in Seq(QueryEvents)
            BY <1>0, <2>1, HeadTailProperties
        <3>2. Append(qOut, Head(qBuf)) \in Seq(QueryEvents)
            BY <1>0, <3>1, AppendProperties
        <3> QED
            BY <1>0, <2>1, <3>1, <3>2
    <2>3. qReq = "live" => qOut \o qBuf = qOut' \o qBuf'
        BY <1>0, <2>1, ReceivedFirst
    <2>4. QTypes'
        <3>1. qRet' \in {"none", "nil", "err", "unsent"}
            BY <2>1
        <3> QED
            BY <2>1, <2>2, <3>1 DEF QInv, QTypes
    <2>5. QChannel'
        BY <2>1, <2>3 DEF QInv, QChannel, Command
    <2>6. QErrors'
        BY <2>1 DEF QInv, QErrors, Command, ErrorOf, Kinds
    <2>7. QProvides'
        BY <2>1, ProvidesKept
    <2> QED
        BY <2>4, <2>5, <2>6, <2>7 DEF QInv
<1>2. CASE Return
    <2>1. /\ Command /\ qRet = "none" /\ ~qOpen /\ qBuf = <<>> /\ qRet' = qErr
          /\ UNCHANGED <<qKind, qPhase, qToPub, qResult, qErr, qCtx, qReq, qOpen, qBuf, qPub, qOut, qTodo,
                         qSet, qDone>>
        BY <1>2 DEF Return, MayReturn, qChan, walk
    <2>2. QTypes'
        BY <2>1 DEF QInv, QTypes
    <2>3. QChannel'
        BY <2>1 DEF QInv, QChannel, Command
    <2>4. QErrors'
        BY <2>1 DEF QInv, QErrors, Command, ErrorOf, Kinds
    <2>5. QProvides'
        BY <2>1, ProvidesKept
    <2> QED
        BY <2>2, <2>3, <2>4, <2>5 DEF QInv
<1>3. CASE WaitThenClose
    <2>1. /\ Command /\ qCtx /\ qOpen /\ qOpen' = FALSE
          /\ UNCHANGED <<qKind, qPhase, qToPub, qResult, qErr, qCtx, qBuf, qPub, qOut, qRet, qReq, qTodo,
                         qSet, qDone>>
        BY <1>3 DEF WaitThenClose, walk
    <2>2. QTypes'
        BY <2>1 DEF QInv, QTypes
    <2>3. QChannel'
        BY <2>1 DEF QInv, QChannel, Command
    <2>4. QErrors'
        BY <2>1 DEF QInv, QErrors, Command, ErrorOf
    <2>5. QProvides'
        BY <2>1, ProvidesKept
    <2> QED
        BY <2>2, <2>3, <2>4, <2>5 DEF QInv
<1> QED
    BY <1>1, <1>2, <1>3

\* The client goes away, or the request is over.
LEMMA QRequestStep ==
    ASSUME QInv, ClientLeaves \/ RequestOver
    PROVE  QInv'
<1>1. /\ qReq' \in {"gone", "over"} /\ qCtx' = TRUE
      /\ UNCHANGED <<qKind, qPhase, qToPub, qResult, qErr, qRet, qOpen, qBuf, qPub, qOut, qTodo, qSet, qDone>>
    BY DEF ClientLeaves, RequestOver, qChan, walk
<1>2. QTypes'
    BY <1>1 DEF QInv, QTypes
<1>3. QChannel'
    BY <1>1 DEF QInv, QChannel, Command
<1>4. QErrors' /\ QProvides'
    BY SMT, <1>1 DEF QInv, QErrors, QProvides, Command, ErrorOf, Provided, Walked
<1> QED
    BY <1>2, <1>3, <1>4 DEF QInv

\* DhtAPI.Provide with the recursive option.
LEMMA QApiStep ==
    ASSUME QInv, Api
    PROVE  QInv'
<1>1. /\ qKind = "apiR"
      /\ UNCHANGED <<qKind, qToPub, qResult, qCtx, qReq, qOpen, qBuf, qPub, qOut, qTodo, qSet>>
    BY DEF Api, ApiWalk, ApiWalkFails, ApiWalkEnds, ApiCancelled, qChan, walk
<1>2. /\ qPhase' \in {qPhase, "exit"} /\ qErr' \in {qErr, "err"} /\ qRet' \in {qRet, "err"}
      /\ \/ qDone' = qDone
         \/ \E k \in Keys \ Provided : qDone' = Append(qDone, k)
    BY DEF Api, ApiWalk, ApiWalkFails, ApiWalkEnds, ApiCancelled, walk
<1>3. QTypes'
    <2>1. qDone' \in Seq(Keys)
        BY <1>2, ProvidedMore DEF QInv, QTypes
    <2> QED
        BY SMT, <1>1, <1>2, <2>1 DEF QInv, QTypes
<1>4. QChannel'
    BY <1>1, <1>2 DEF QInv, QChannel, Command
<1>5. QErrors'
    BY <1>1, <1>2 DEF QInv, QErrors, Command
<1>6. QProvides'
    <2>1. IsFiniteSet(Provided') /\ Cardinality(Provided') = Len(qDone')
        <3>1. IsFiniteSet(Provided) /\ Cardinality(Provided) = Len(qDone)
            BY <1>1 DEF QInv, QProvides
        <3>2. CASE qDone' = qDone
            BY <3>1, <3>2 DEF Provided
        <3>3. CASE \E k \in Keys \ Provided : qDone' = Append(qDone, k)
            BY <3>1, <3>3, ProvidedMore
        <3> QED
            BY <1>2, <3>2, <3>3
    <2> QED
        BY <1>1, <2>1 DEF QInv, QProvides
<1> QED
    BY <1>3, <1>4, <1>5, <1>6 DEF QInv

LEMMA QStep == QInv /\ [QNext]_qVars => QInv'
<1> SUFFICES ASSUME QInv, [QNext]_qVars PROVE QInv'
    OBVIOUS
<1>1. CASE UNCHANGED qVars
    <2>1. UNCHANGED <<qKind, qPhase, qToPub, qResult, qErr, qCtx, qOpen, qBuf, qPub, qOut, qRet, qReq,
                      qTodo, qSet, qDone>>
        BY <1>1 DEF qVars
    <2>2. QTypes' /\ QChannel'
        BY SMT, <2>1 DEF QInv, QTypes, QChannel, Command
    <2>3. QErrors'
        BY <2>1 DEF QInv, QErrors, Command, ErrorOf
    <2>4. QProvides'
        BY <2>1, ProvidesKept
    <2> QED
        BY <2>2, <2>3, <2>4 DEF QInv
<1>2. CASE QNext
    BY <1>2, QRegisterStep, QSendStep, QCallStep, QExitStep, QWalkStep, QProvideStep, QRunStep,
       QRequestStep, QApiStep DEF QNext, QGoroutine, QRun
<1> QED
    BY <1>1, <1>2

\* What the invariant says of a command that has returned.
LEMMA QInvMeans == QInv => QueriesDeliver
<1> SUFFICES ASSUME QInv PROVE QueriesDeliver
    OBVIOUS
<1>1. EverythingEmitted
    <2> SUFFICES ASSUME Command, qRet \in {"nil", "err"}, qReq = "live"
                 PROVE  qOut = qPub /\ qToPub = <<>>
        BY DEF EverythingEmitted
    <2>1. qPub = qOut \o qBuf /\ qBuf = <<>> /\ qPhase = "exit" /\ qToPub = <<>>
        BY DEF QInv, QChannel
    <2> QED
        BY <2>1, ConcatEmptySeq DEF QInv, QTypes
<1>2. FailureReported
    <2> SUFFICES ASSUME qRet = "nil", qReq = "live", qKind # "findprovs"
                 PROVE  qResult = "ok"
        BY DEF FailureReported
    <2>1. Command
        BY DEF QInv, QErrors, QTypes, Command
    <2>2. qPhase = "exit" /\ qErr = "nil" /\ qErr = ErrorOf(qKind, qResult)
        BY <2>1 DEF QInv, QErrors, QChannel
    <2> QED
        BY <2>2 DEF ErrorOf
<1>3. ProvidedOnce
    <2>1. ASSUME qKind = "provideR", qResult = "ok"
          PROVE  Provided = UNION {Walk(QRoots[i]) : i \in 1 .. Len(QRoots)}
        <3>1. qTodo = <<>> /\ qSet = {} /\ Provided \cup qSet = Walked
            BY <2>1 DEF QInv, QProvides
        <3>2. Len(QRoots) - Len(qTodo) = Len(QRoots)
            BY SMT, <3>1, QAssumption, LenProperties, EmptySeq
        <3>3. Walked = UNION {Walk(QRoots[i]) : i \in 1 .. Len(QRoots)}
            BY <3>2 DEF Walked
        <3> QED
            BY <3>1, <3>3
    <2> QED
        BY <2>1 DEF QInv, QProvides, ProvidedOnce
<1> QED
    BY <1>1, <1>2, <1>3 DEF QueriesDeliver

\* A routing command that returns to a client still there has emitted every event published, in
\* order, and reported a failure, and a provide has provided each key once, for every buffer size,
\* every number of events and every graph of blocks (queryDhtCmd and its siblings, provideKeysRec,
\* DhtAPI.Provide).
THEOREM QueriesSound == QSpec => []QueriesDeliver
BY QStarts, QStep, QInvMeans, PTL DEF QSpec
=============================================================================
