------------------------------- MODULE AddCmd -------------------------------
(***************************************************************************)
(* ipfs add as a conversation (core/commands/add.go). On the daemon, Run   *)
(* starts a goroutine per argument that adds it and sends its events over  *)
(* a bounded channel; Run emits them to the client. On the client, PostRun *)
(* hands each event to the goroutine of the progress bar, which prints the *)
(* hashes and sums up the progress. The client's context may end at any    *)
(* time, the connection with it, and an add may fail at any event. The     *)
(* emitter and the response of go-ipfs-cmds are external: what was emitted *)
(* arrives in order, followed by the end of the stream or its error.       *)
(***************************************************************************)
EXTENDS Integers, Sequences, SequencesExt

CONSTANTS AFiles,      \* the arguments: a sequence of [name, parts], parts being the reads reported
          AQuieter,    \* the values of --quieter to try
          AChanSize    \* adderOutChanSize

VARIABLES aFile,       \* the argument Run is at
          aGo,         \* its goroutine: "none", "add", "result", "close", "end"
          aSent,       \* events this goroutine has sent
          aLock,       \* the adder holds PinLock
          aEvents,     \* the channel events, and
          aOpen,       \*   whether it is open
          aErrCh,      \* the channel errCh
          aFailed,     \* some Add returned an error
          aRun,        \* Run: "file", "range", "errCh", or what it returned: "ok", "error"
          aWire,       \* emitted and not yet read by the client
          aCtx,        \* the client's context is alive
          aQuiet,      \* --quieter
          aPost,       \* PostRun: "next", "send", "wait", "ret"
          aHand,       \* the event it holds, as a sequence of at most one
          aRet,        \* what it returns: "none", "ok", "error"
          aBar,        \* the goroutine progressBar: "loop", "gone"
          aShown,      \* hashes printed
          aLast,       \* lastFile, lastBytes, prevFiles, totalProgress, lastHash
          aCut         \* the context ended before PostRun returned

serverVars == <<aFile, aGo, aSent, aLock, aEvents, aOpen, aErrCh, aFailed, aRun>>
postVars == <<aPost, aHand, aRet>>
barVars == <<aBar, aShown, aLast>>
aVars == <<serverVars, aWire, aCtx, aQuiet, postVars, barVars, aCut>>

\* progressReader's reports of the i-th argument and, at the end, the event of its node.
\* (progressReader.Read, outputDagnode)
EventsOf(i) ==
    [k \in 1..AFiles[i].parts |-> [name |-> AFiles[i].name, bytes |-> k, hash |-> 0]]
        \o <<[name |-> AFiles[i].name, bytes |-> 0, hash |-> i]>>

AInit ==
    /\ aFile = 1 /\ aGo = "none" /\ aSent = 0 /\ aLock = FALSE /\ aEvents = <<>> /\ aOpen = FALSE
    /\ aErrCh = <<>> /\ aFailed = FALSE /\ aRun = "file"
    /\ aWire = <<>> /\ aCtx = TRUE /\ aQuiet \in AQuieter /\ aCut = FALSE
    /\ aPost = "next" /\ aHand = <<>> /\ aRet = "none"
    /\ aBar = "loop" /\ aShown = <<>>
    /\ aLast = [file |-> "", bytes |-> 0, prev |-> 0, total |-> 0, hash |-> 0]

(***************************************************************************)
(* The goroutine of an argument.                                           *)
(***************************************************************************)
\* The adder sends its next event: it waits for room in the channel, whatever became of the
\* context.
SendEvent ==
    /\ aGo = "add" /\ aSent < Len(EventsOf(aFile)) /\ Len(aEvents) < AChanSize
    /\ aEvents' = Append(aEvents, EventsOf(aFile)[aSent + 1])
    /\ aSent' = aSent + 1
    /\ UNCHANGED <<aFile, aGo, aLock, aOpen, aErrCh, aFailed, aRun>>

\* Mutant: an add that fails returns without the deferred Unlock.
AddEndsLocked ==
    /\ aGo = "add"
    /\ \E failed \in {aSent < Len(EventsOf(aFile)), TRUE} :
          /\ aFailed' = (aFailed \/ failed)
          /\ aErrCh' = Append(aErrCh, IF failed THEN "error" ELSE "nil")
          /\ aLock' = failed
    /\ aGo' = "close"
    /\ UNCHANGED <<aFile, aSent, aEvents, aOpen, aRun>>

\* AddAllAndPin returns, with an error at any time or when everything was sent: its deferred Unlock
\* runs, and the result goes to errCh.
AddEnds ==
    /\ aGo = "add"
    /\ \E failed \in {aSent < Len(EventsOf(aFile)), TRUE} :
          /\ aFailed' = (aFailed \/ failed)
          /\ aErrCh' = Append(aErrCh, IF failed THEN "error" ELSE "nil")
    /\ aLock' = FALSE
    /\ aGo' = "close"
    /\ UNCHANGED <<aFile, aSent, aEvents, aOpen, aRun>>

\* The deferred close(events).
CloseEvents ==
    /\ aGo = "close"
    /\ aOpen' = FALSE /\ aGo' = "end"
    /\ UNCHANGED <<aFile, aSent, aLock, aEvents, aErrCh, aFailed, aRun>>

Goroutine ==
    /\ SendEvent \/ AddEnds \/ CloseEvents
    /\ UNCHANGED <<aWire, aCtx, aQuiet, postVars, barVars, aCut>>

(***************************************************************************)
(* Run.                                                                    *)
(***************************************************************************)
\* Options are refused, or the stream of arguments cannot be read.
RunFails ==
    /\ aRun = "file"
    /\ aRun' = "error"
    /\ UNCHANGED <<aFile, aGo, aSent, aLock, aEvents, aOpen, aErrCh, aFailed, aWire>>

\* The next argument gets its channels and its goroutine, which begins with PinLock; after the last
\* one Run is done.
NextFile ==
    /\ aRun = "file"
    /\ IF aFile > Len(AFiles)
       THEN /\ aRun' = "ok"
            /\ UNCHANGED <<aGo, aSent, aLock, aEvents, aOpen, aErrCh>>
       ELSE /\ aRun' = "range" /\ aGo' = "add" /\ aSent' = 0 /\ aLock' = TRUE
            /\ aEvents' = <<>> /\ aOpen' = TRUE /\ aErrCh' = <<>>
    /\ UNCHANGED <<aFile, aFailed, aWire>>

\* The loop over events: an emit fails once the connection is gone, and then Run returns without
\* waiting for its goroutine.
RangeEvents ==
    /\ aRun = "range" /\ aEvents # <<>>
    /\ aEvents' = Tail(aEvents)
    /\ \/ aCtx /\ aWire' = Append(aWire, Head(aEvents)) /\ UNCHANGED aRun
       \/ ~aCtx /\ aRun' \in {"range", "error"} /\ UNCHANGED aWire
    /\ UNCHANGED <<aFile, aGo, aSent, aLock, aOpen, aErrCh, aFailed>>

RangeEnds ==
    /\ aRun = "range" /\ aEvents = <<>> /\ ~aOpen
    /\ aRun' = "errCh"
    /\ UNCHANGED <<aFile, aGo, aSent, aLock, aEvents, aOpen, aErrCh, aFailed, aWire>>

\* Mutant: the result of the add is received and dropped.
ResultDropped ==
    /\ aRun = "errCh" /\ aErrCh # <<>>
    /\ aErrCh' = Tail(aErrCh)
    /\ aRun' = "file" /\ aFile' = aFile + 1
    /\ UNCHANGED <<aGo, aSent, aLock, aEvents, aOpen, aFailed, aWire>>

\* The error of an argument ends the command.
Result ==
    /\ aRun = "errCh" /\ aErrCh # <<>>
    /\ aErrCh' = Tail(aErrCh)
    /\ IF Head(aErrCh) = "nil" THEN aRun' = "file" /\ aFile' = aFile + 1
                               ELSE aRun' = "error" /\ UNCHANGED aFile
    /\ UNCHANGED <<aGo, aSent, aLock, aEvents, aOpen, aFailed, aWire>>

Run ==
    /\ RunFails \/ NextFile \/ RangeEvents \/ RangeEnds \/ Result
    /\ UNCHANGED <<aCtx, aQuiet, postVars, barVars, aCut>>

(***************************************************************************)
(* The client.                                                             *)
(***************************************************************************)
\* res.Next: an event, the end of the stream, its error, or the end of the context.
NextEvent ==
    /\ aPost = "next"
    /\ \/ /\ aWire # <<>>
          /\ aHand' = <<Head(aWire)>> /\ aWire' = Tail(aWire) /\ aPost' = "send"
          /\ UNCHANGED aRet
       \/ /\ aWire = <<>> /\ aCtx /\ aRun \in {"ok", "error"}
          /\ aRet' = aRun /\ aPost' = "wait"
          /\ UNCHANGED <<aHand, aWire>>
       \/ /\ ~aCtx
          /\ aRet' = "error" /\ aPost' = "wait"
          /\ UNCHANGED <<aHand, aWire>>
    /\ UNCHANGED <<serverVars, aCtx, aQuiet, barVars, aCut>>

\* Mutant: PostRun sends to the bar without watching the context.
SendAlways == FALSE

\* PostRun's select takes the end of the context instead of the send.
SendCanceled ==
    /\ aPost = "send" /\ ~aCtx
    /\ aRet' = "error" /\ aPost' = "wait" /\ aHand' = <<>>
    /\ UNCHANGED <<serverVars, aWire, aCtx, aQuiet, barVars, aCut>>

\* The progress of an event without a hash: a new name, or fewer bytes than before, begins a file.
Progress(e) ==
    LET first == IF aLast.file = "" THEN e.name ELSE aLast.file
        new == e.name # first \/ e.bytes < aLast.bytes
        prev == aLast.prev + (IF new THEN aLast.bytes ELSE 0)
    IN [aLast EXCEPT !.file = IF new THEN e.name ELSE first, !.bytes = e.bytes, !.prev = prev,
                     !.total = prev + e.bytes]

\* The send on outChan and what progressBar does with the event.
HandOver ==
    /\ aPost = "send" /\ aBar = "loop"
    /\ LET e == Head(aHand)
       IN IF e.hash # 0
          THEN /\ aLast' = [aLast EXCEPT !.hash = e.hash]
               /\ aShown' = IF aQuiet THEN aShown ELSE Append(aShown, e.hash)
          ELSE /\ aLast' = Progress(e)
               /\ UNCHANGED aShown
    /\ aPost' = "next" /\ aHand' = <<>>
    /\ UNCHANGED <<serverVars, aWire, aCtx, aQuiet, aRet, aBar, aCut>>

\* outChan was closed: the bar prints the last hash if only that was asked for, and ends.
BarEnds ==
    /\ aBar = "loop" /\ aPost = "wait"
    /\ aShown' = IF aQuiet THEN Append(aShown, aLast.hash) ELSE aShown
    /\ aBar' = "gone"
    /\ UNCHANGED <<serverVars, aWire, aCtx, aQuiet, postVars, aLast, aCut>>

\* The bar leaves when the context ends.
BarCanceled ==
    /\ aBar = "loop" /\ ~aCtx
    /\ aBar' = "gone"
    /\ UNCHANGED <<serverVars, aWire, aCtx, aQuiet, postVars, aShown, aLast, aCut>>

\* Mutant: PostRun does not wait for the bar.
PostReturnsEarly ==
    /\ aPost = "wait"
    /\ aPost' = "ret"
    /\ UNCHANGED <<serverVars, aWire, aCtx, aQuiet, aHand, aRet, barVars, aCut>>

\* The deferred receive from wait.
PostReturns ==
    /\ aPost = "wait" /\ aBar = "gone"
    /\ aPost' = "ret"
    /\ UNCHANGED <<serverVars, aWire, aCtx, aQuiet, aHand, aRet, barVars, aCut>>

PostRun == NextEvent \/ SendCanceled \/ HandOver \/ PostReturns

ProgressBar == BarEnds \/ BarCanceled

\* The user interrupts the command, or its --timeout passes.
Interrupt ==
    /\ aCtx
    /\ aCtx' = FALSE /\ aCut' = (aPost # "ret")
    /\ UNCHANGED <<serverVars, aWire, aQuiet, postVars, barVars>>

ANext == Goroutine \/ Run \/ PostRun \/ ProgressBar \/ Interrupt

\* Every goroutine that can run does; nobody has to interrupt.
AFairness == WF_aVars(Goroutine) /\ WF_aVars(Run) /\ WF_aVars(PostRun) /\ WF_aVars(ProgressBar)

ASpec == AInit /\ [][ANext]_aVars /\ AFairness

(***************************************************************************)
(* Properties.                                                             *)
(***************************************************************************)
\* A command that reports success and was not interrupted has shown the hash of every argument, in
\* order (or the last one), and the progress of all of them, although printing is left to a
\* goroutine of its own (PostRun's deferred <-wait).
ShownExact ==
    aPost = "ret" /\ aRet = "ok" /\ ~aCut =>
        /\ aShown = IF aQuiet THEN <<Len(AFiles)>> ELSE [i \in 1..Len(AFiles) |-> i]
        /\ aLast.total = FoldLeft(LAMBDA sum, f : sum + f.parts, 0, AFiles)

\* An add that failed is never reported as a success (errCh and the close of events).
FailureTold == aRet = "ok" => ~aFailed

\* The command on the client returns, whatever ends first: the stream, the context or the bar.
Ended == aPost = "ret"
AddReturns == <>Ended

\* The adder gives PinLock back as long as the client stays.  (When the client leaves, Run may return
\* while the adder still sends: with the channel full it waits for ever and keeps the lock, because
\* nothing but Run receives from events.)
AddUnlocks == aLock ~> (~aLock \/ ~aCtx)
=============================================================================
