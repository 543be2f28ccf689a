----------------------------- MODULE DhtQueries -----------------------------
(***************************************************************************)
(* The `ipfs dht` commands (core/commands/dht.go) and DhtAPI.Provide       *)
(* (core/coreapi/dht.go).                                                  *)
(*                                                                         *)
(* A command registers for query events, starts a goroutine that makes the *)
(* routing call and publishes the outcome, and emits events until the      *)
(* channel is closed, which happens when the context is cancelled: by the  *)
(* goroutine when it is done, or because the request ends.  The commands   *)
(* differ in what they publish and in how the error comes back, so one     *)
(* model serves them all.  The API call walks a DAG in a goroutine and     *)
(* provides what the walk finds.                                           *)
(***************************************************************************)
EXTENDS Naturals, Sequences, FiniteSets

CONSTANTS QBuffer,    \* QueryEventBufferSize
          QEvents,    \* bound on the events of the routing call itself
          QLinks,     \* links of the blocks that can be provided
          QRoots      \* the keys given to provide, in order

ASSUME QAssumption == QRoots \in Seq(DOMAIN QLinks) /\ QEvents \in Nat

VARIABLES
    qKind,     \* the command
    qPhase,    \* its goroutine: "call", "publish", "exit"
    qLeft,     \* events the routing call may still publish
    qToPub,    \* events the goroutine has to publish after the call
    qResult,   \* outcome of the call, as the goroutine knows it
    qErr,      \* the error variable (or errCh) Run reads
    qCtx,      \* ctx is cancelled
    qOpen,     \* the event channel is open
    qBuf,      \* its buffer
    qPub,      \* every event published
    qOut,      \* every event emitted
    qRet,      \* what Run returned
    qReq,      \* the request: "live", "gone" (client left) or "over"
    qTodo,     \* roots still to be walked
    qSet,      \* keys of the current walk that are not provided yet
    qDone      \* keys provided, in order

qVars == <<qKind, qPhase, qLeft, qToPub, qResult, qErr, qCtx, qOpen, qBuf, qPub,
           qOut, qRet, qReq, qTodo, qSet, qDone>>

Kinds == {"query", "findprovs", "findpeer", "get", "put", "provide",
          "provideR", "apiR"}

Keys == DOMAIN QLinks

(* dag.Walk from c. *)
Walk(c) ==
    {k \in Keys :
        \A S \in SUBSET Keys :
            c \in S /\ (\A x \in S : QLinks[x] \subseteq S) => k \in S}

Provided == {qDone[i] : i \in 1 .. Len(qDone)}

QInit ==
    /\ qKind = "none" /\ qPhase = "call" /\ qLeft = QEvents /\ qToPub = <<>>
    /\ qResult = "none" /\ qErr = "nil" /\ qCtx = FALSE /\ qOpen = TRUE
    /\ qBuf = <<>> /\ qPub = <<>> /\ qOut = <<>> /\ qRet = "none"
    /\ qReq = "live" /\ qTodo = QRoots /\ qSet = {} /\ qDone = <<>>

qChan == <<qOpen, qBuf, qPub, qOut>>
walk == <<qTodo, qSet, qDone>>

(* Run up to the goroutine.  The argument and online checks come before
   anything is started; then all commands go through the steps below. *)
RegisterQuery(kind) ==
    /\ qKind = "none" /\ qKind' = kind
    /\ UNCHANGED <<qPhase, qLeft, qToPub, qResult, qErr, qCtx, qRet, qReq, qChan,
                   walk>>

queryDhtCmd == RegisterQuery("query")
findProvidersDhtCmd == RegisterQuery("findprovs")
provideRefDhtCmd == RegisterQuery("provide") \/ RegisterQuery("provideR")
findPeerDhtCmd == RegisterQuery("findpeer")
getValueDhtCmd == RegisterQuery("get")
putValueDhtCmd == RegisterQuery("put")
DhtProvide == RegisterQuery("apiR")

Start ==
    \/ queryDhtCmd \/ findProvidersDhtCmd \/ provideRefDhtCmd \/ findPeerDhtCmd
    \/ getValueDhtCmd \/ putValueDhtCmd \/ DhtProvide

Command == qKind \in Kinds \ {"apiR"}

----------------------------------------------------------------------------
(* eventChannel. *)

(* send gives up when the context is cancelled, even though there may be room;
   otherwise it waits for room. *)
SendQueryEvent(e) ==
    \/ ~qOpen /\ UNCHANGED <<qBuf, qPub>>
    \/ qOpen /\ qCtx /\ UNCHANGED <<qBuf, qPub>>
    \/ /\ qOpen /\ Len(qBuf) < QBuffer
       /\ qBuf' = Append(qBuf, e) /\ qPub' = Append(qPub, e)

WaitThenClose ==
    /\ Command /\ qCtx /\ qOpen
    /\ qOpen' = FALSE
    /\ UNCHANGED <<qKind, qPhase, qLeft, qToPub, qResult, qErr, qCtx, qBuf,
                   qPub, qOut, qRet, qReq, walk>>

----------------------------------------------------------------------------
(* The goroutine of a command. *)

(* The routing system (external) publishes events of its own. *)
RoutingEvent ==
    /\ Command /\ qPhase = "call" /\ qLeft > 0
    /\ qLeft' = qLeft - 1 /\ SendQueryEvent("progress")
    /\ UNCHANGED <<qKind, qPhase, qToPub, qResult, qErr, qCtx, qOpen, qOut,
                   qRet, qReq, walk>>

(* What each command publishes when the call is over.  query publishes the
   peers it got even when there is an error, and the error is not an event;
   findprovs has no error to publish; put and provide publish nothing else. *)
QueryPublishes(res) == <<"peer">>
FindProvsPublishes(res) == IF res = "ok" THEN <<"provider">> ELSE <<>>
FindPeerPublishes(res) == IF res = "ok" THEN <<"peer">> ELSE <<"error">>
GetPublishes(res) == IF res = "ok" THEN <<"value">> ELSE <<"error">>
PutPublishes(res) == IF res = "ok" THEN <<>> ELSE <<"error">>
ProvidePublishes(res) == IF res = "ok" THEN <<>> ELSE <<"error">>

Publishes(kind, res) ==
    CASE kind = "query" -> QueryPublishes(res)
      [] kind = "findprovs" -> FindProvsPublishes(res)
      [] kind = "findpeer" -> FindPeerPublishes(res)
      [] kind = "get" -> GetPublishes(res)
      [] kind = "put" -> PutPublishes(res)
      [] OTHER -> ProvidePublishes(res)

(* What it leaves for Run to return. *)
ErrorOf(kind, res) == IF kind = "findprovs" \/ res = "ok" THEN "nil" ELSE "err"

ErrorAtEnd(kind, res) == IF kind = "query" THEN ErrorOf(kind, res) ELSE qErr

\* Mutant: the error of the call is shadowed.
NoErrorYet(kind, res) == qErr

(* For the commands that return a variable, the variable is assigned when the
   call returns; query sends its error after it published. *)
ErrorNow(kind, res) == IF kind = "query" THEN qErr ELSE ErrorOf(kind, res)

CallReturns ==
    /\ Command /\ qPhase = "call"
    /\ qKind \in {"provide", "provideR"} => qTodo = <<>> /\ qSet = {}
    /\ \E res \in {"ok", "err"} :
          /\ qKind \in {"provide", "provideR"} => res = "ok"
          /\ qResult' = res /\ qToPub' = Publishes(qKind, res)
          /\ qErr' = ErrorNow(qKind, res)
    /\ qPhase' = "publish"
    /\ UNCHANGED <<qKind, qLeft, qCtx, qRet, qReq, qChan, walk>>

Publish ==
    /\ qPhase = "publish" /\ qToPub # <<>>
    /\ SendQueryEvent(Head(qToPub)) /\ qToPub' = Tail(qToPub)
    /\ UNCHANGED <<qKind, qPhase, qLeft, qResult, qErr, qCtx, qOpen, qOut, qRet,
                   qReq, walk>>

\* Mutant: the context is cancelled as soon as the call returns.
CancelAtOnce == qToPub = qToPub

(* The deferred cancel comes when everything is published. *)
MayCancel == qToPub = <<>>

\* Mutant: the goroutine ends without cancelling the context.
ExitOnly ==
    /\ qPhase = "publish" /\ MayCancel
    /\ qErr' = ErrorAtEnd(qKind, qResult)
    /\ qPhase' = "exit"
    /\ UNCHANGED <<qKind, qLeft, qToPub, qResult, qCtx, qRet, qReq, qChan, walk>>

Exit ==
    /\ qPhase = "publish" /\ MayCancel
    /\ qErr' = ErrorAtEnd(qKind, qResult)
    /\ qCtx' = TRUE /\ qPhase' = "exit"
    /\ UNCHANGED <<qKind, qLeft, qToPub, qResult, qRet, qReq, qChan, walk>>

\* Mutant: the set of keys already provided is not consulted.
ToProvideAgain(c) == IF qKind = "provide" THEN {c} ELSE Walk(c)

(* provideKeys takes the keys as they are; provideKeysRec walks each root and
   skips what an earlier root has already provided. *)
ToProvide(c) ==
    IF qKind = "provide" THEN {c} ELSE {k \in Walk(c) : k \notin Provided}

WalkRoot ==
    /\ Command /\ qPhase = "call" /\ qKind \in {"provide", "provideR"}
    /\ qTodo # <<>> /\ qSet = {}
    /\ qTodo' = Tail(qTodo)
    /\ \/ qSet' = ToProvide(Head(qTodo)) /\ UNCHANGED <<qPhase, qResult, qErr, qToPub>>
       \/ /\ qKind = "provideR"
          /\ qResult' = "err" /\ qErr' = "err" /\ qToPub' = <<"error">>
          /\ qPhase' = "publish" /\ UNCHANGED qSet
    /\ UNCHANGED <<qKind, qLeft, qCtx, qRet, qReq, qChan, qDone>>

Provide(k) ==
    /\ Command /\ qPhase = "call" /\ k \in qSet
    /\ \/ /\ qDone' = Append(qDone, k) /\ qSet' = qSet \ {k}
          /\ UNCHANGED <<qPhase, qResult, qErr, qToPub>>
       \/ /\ qResult' = "err" /\ qErr' = "err" /\ qToPub' = <<"error">>
          /\ qPhase' = "publish" /\ UNCHANGED <<qDone, qSet>>
    /\ UNCHANGED <<qKind, qLeft, qCtx, qRet, qReq, qChan, qTodo>>

----------------------------------------------------------------------------
(* Run: range over the events. *)

Emit ==
    /\ Command /\ qRet = "none" /\ qBuf # <<>>
    /\ qBuf' = Tail(qBuf)
    /\ \/ qOut' = Append(qOut, Head(qBuf)) /\ UNCHANGED qRet
       \/ qReq # "live" /\ qRet' = "unsent" /\ UNCHANGED qOut
    /\ UNCHANGED <<qKind, qPhase, qLeft, qToPub, qResult, qErr, qCtx, qOpen,
                   qPub, qReq, walk>>

(* The channel is closed and empty; query waits for errCh, which its goroutine
   closes when it ends. *)
MayReturn == ~qOpen /\ qBuf = <<>> /\ (qKind = "query" => qPhase = "exit")

Return ==
    /\ Command /\ qRet = "none" /\ MayReturn
    /\ qRet' = qErr
    /\ UNCHANGED <<qKind, qPhase, qLeft, qToPub, qResult, qErr, qCtx, qReq, qChan,
                   walk>>

(* The request context, a parent of ctx, ends with the client's connection and
   when Run has returned. *)
ClientLeaves ==
    /\ qKind # "none" /\ qRet = "none" /\ qReq = "live"
    /\ qReq' = "gone" /\ qCtx' = TRUE
    /\ UNCHANGED <<qKind, qPhase, qLeft, qToPub, qResult, qErr, qRet, qChan, walk>>

RequestOver ==
    /\ qRet # "none" /\ qReq # "over"
    /\ qReq' = "over" /\ qCtx' = TRUE
    /\ UNCHANGED <<qKind, qPhase, qLeft, qToPub, qResult, qErr, qRet, qChan, walk>>

----------------------------------------------------------------------------
(* DhtAPI.Provide with the recursive option: a goroutine walks the DAG and
   hands every new key over an unbuffered channel to the loop that provides
   it.  The loop ends with an error of Provide, an error of the walk, or the
   context; it does not hear of the end of the walk. *)

ApiWalk(k) ==
    /\ qKind = "apiR" /\ qRet = "none" /\ qPhase = "call"
    /\ k \in Walk(QRoots[Len(QRoots)]) \ Provided
    /\ \/ qDone' = Append(qDone, k) /\ UNCHANGED <<qRet, qErr>>
       \/ qRet' = "err" /\ qErr' = "err" /\ UNCHANGED qDone
    /\ UNCHANGED <<qKind, qPhase, qLeft, qToPub, qResult, qCtx, qReq, qChan,
                   qTodo, qSet>>

ApiWalkFails ==
    /\ qKind = "apiR" /\ qRet = "none" /\ qPhase = "call"
    /\ qRet' = "err" /\ qErr' = "err" /\ qPhase' = "exit"
    /\ UNCHANGED <<qKind, qLeft, qToPub, qResult, qCtx, qReq, qChan, walk>>

ApiWalkEnds ==
    /\ qKind = "apiR" /\ qPhase = "call"
    /\ Walk(QRoots[Len(QRoots)]) \subseteq Provided
    /\ qPhase' = "exit"
    /\ UNCHANGED <<qKind, qLeft, qToPub, qResult, qErr, qCtx, qRet, qReq, qChan,
                   walk>>

ApiCancelled ==
    /\ qKind = "apiR" /\ qRet = "none" /\ qCtx
    /\ qRet' = "err"
    /\ UNCHANGED <<qKind, qPhase, qLeft, qToPub, qResult, qErr, qCtx, qReq, qChan,
                   walk>>

----------------------------------------------------------------------------

QGoroutine == CallReturns \/ Publish \/ Exit \/ WalkRoot \/ \E k \in Keys : Provide(k)
QRun == Emit \/ Return \/ RequestOver
Api == (\E k \in Keys : ApiWalk(k)) \/ ApiWalkFails \/ ApiWalkEnds \/ ApiCancelled

QNext ==
    \/ Start \/ RoutingEvent \/ QGoroutine \/ WaitThenClose \/ QRun
    \/ ClientLeaves \/ Api

(* Goroutines are scheduled, and the routing calls return. *)
QFair == WF_qVars(QGoroutine) /\ WF_qVars(QRun) /\ WF_qVars(WaitThenClose)
         /\ WF_qVars(Api)
QSpec == QInit /\ [][QNext]_qVars /\ QFair

----------------------------------------------------------------------------

(* No event is lost between the goroutine and the client: a command that
   returns with the client still there has emitted everything that was
   published, in order, although the goroutine cancels the context that
   guards the channel. *)
EverythingEmitted ==
    Command /\ qRet \in {"nil", "err"} /\ qReq = "live"
        => qOut = qPub /\ qToPub = <<>>

(* A command whose routing call failed does not report success to a client
   that is still there, whether the error travels in a variable or in a
   channel. *)
FailureReported ==
    qRet = "nil" /\ qReq = "live" /\ qKind # "findprovs" => qResult = "ok"

(* Every key is provided at most once, however the graphs under the roots
   overlap, and a provide that succeeds has provided all of them. *)
ProvidedOnce ==
    /\ qKind \in {"provideR", "apiR"} => Cardinality(Provided) = Len(qDone)
    /\ qKind = "provideR" /\ qResult = "ok"
        => Provided = UNION {Walk(QRoots[i]) : i \in 1 .. Len(QRoots)}

(* A routing command that returns to a client still there has emitted every
   event published, in order, and reported a failure; a provide has provided
   each key once (queryDhtCmd and its siblings, provideKeysRec). *)
QueriesDeliver == EverythingEmitted /\ FailureReported /\ ProvidedOnce

(* The goroutine of a command ends, also when Run has stopped reading: nobody
   is left blocked on the event channel. *)
QEnded == qPhase = "exit" /\ qRet # "none"
QueryEnds == Command ~> QEnded

(* "Provide announces to the network that you are providing given values":
   the recursive call comes back once it has.  The code does not do so: see
   the README. *)
ApiProvideReturns == (qKind = "apiR") ~> (qRet # "none")

=============================================================================
