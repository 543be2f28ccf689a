----------------------------- MODULE PinQueries -----------------------------
(***************************************************************************)
(* The `ipfs pin` commands (core/commands/pin/pin.go) and the read side of *)
(* PinAPI (core/coreapi/pin.go): ls, ls of given objects, verify, and the  *)
(* commands that take several arguments.  They hold no lock over their     *)
(* several reads, so pins and blocks change under them; the changes other  *)
(* clients make (pin, unpin, collect garbage, lose a block) are single     *)
(* steps here, PinAPI and BlockGC have them in detail.                     *)
(***************************************************************************)
EXTENDS Naturals, Sequences, FiniteSets, SequencesExt

CONSTANTS XLinks,      \* links of every object
          XMaxEdits,   \* bound on the steps of other clients
          XArgs        \* the arguments of add, rm and ls

VARIABLES
    xRec, xDir,   \* recursive and direct pins
    xStore,       \* blocks in the blockstore
    xCmd,         \* the command that runs
    xStage,       \* where its goroutine is
    xType,        \* --type
    xR,           \* recursive keys, as read
    xSet,         \* cids the walks have found
    xKeys,        \* cids already listed: keys of pinLsAll
    xSend,        \* what the goroutine is about to put on the channel
    xChan,        \* the channel, which holds one result
    xList,        \* what the client has got: sequence of results
    xStack,       \* the activations of checkPin
    xSeen,        \* visited of pinVerify: the bad nodes under a cid
    xRet,         \* what Run returned
    xWas, xAlw,   \* facts that held at some time, and all the time, since Run
    xEdits

xVars == <<xRec, xDir, xStore, xCmd, xStage, xType, xR, xSet, xKeys, xSend,
           xChan, xList, xStack, xSeen, xRet, xWas, xAlw, xEdits>>

Cids == DOMAIN XLinks

Reach(c) ==
    {k \in Cids : \A S \in SUBSET Cids :
        c \in S /\ (\A x \in S : XLinks[x] \subseteq S) => k \in S}

Below(c) == UNION {Reach(k) : k \in XLinks[c]}

(* What is true of the pins and the store: the result each command reports. *)
Facts(rec, dir, store) ==
    {<<c, "recursive">> : c \in rec} \cup {<<c, "direct">> : c \in dir}
    \cup {<<c, "indirect">> : c \in UNION {Below(r) : r \in rec}}
    \cup {<<c, "unpinned">> : c \in Cids \ (rec \cup dir)}
    \cup {<<c, "stored">> : c \in store} \cup {<<c, "missing">> : c \in Cids \ store}

Now == Facts(xRec', xDir', xStore')
Remember == xWas' = xWas \cup Now /\ xAlw' = xAlw \cap Now

pins == <<xRec, xDir, xStore, xWas, xAlw>>
mine == <<xCmd, xStage, xType, xR, xSet, xKeys, xSend, xChan, xList, xStack,
          xSeen, xRet>>

XInit ==
    /\ xRec = {} /\ xDir = {} /\ xStore = Cids
    /\ xCmd = "none" /\ xStage = "" /\ xType = "" /\ xR = <<>> /\ xSet = {}
    /\ xKeys = {} /\ xSend = <<>> /\ xChan = <<>> /\ xList = <<>>
    /\ xStack = <<>> /\ xSeen = <<>> /\ xRet = "" /\ xWas = {} /\ xAlw = {}
    /\ xEdits = 0

----------------------------------------------------------------------------
(* The pinner. *)

CanPin(c, recursive) == recursive \/ c \notin xRec
Pin(c, recursive) ==
    IF recursive
    THEN xRec' = xRec \cup {c}
         /\ xDir' = (IF c \in xRec THEN xDir ELSE xDir \ {c})
    ELSE xDir' = xDir \cup {c} /\ UNCHANGED xRec

CanUnpin(c, recursive) == IF c \in xRec THEN recursive ELSE c \in xDir
Unpin(c) == xRec' = xRec \ {c} /\ xDir' = xDir \ {c}

(* isPinnedWithType: the first of the asked types that applies. *)
PinType(c, type) ==
    CASE type \in {"all", "recursive"} /\ c \in xRec -> "recursive"
      [] type \in {"all", "direct"} /\ c \in xDir /\ ~(type = "all" /\ c \in xRec)
            -> "direct"
      [] type \in {"all", "indirect"} /\ (\E r \in xRec : c \in Below(r))
            /\ (type = "all" => c \notin xRec \cup xDir) -> "indirect"
      [] OTHER -> "not pinned"

(* Other clients. *)
Edit ==
    /\ xEdits < XMaxEdits /\ xRet = "" /\ xEdits' = xEdits + 1
    /\ \/ \E c \in Cids, r \in BOOLEAN :
            /\ CanPin(c, r) /\ Pin(c, r)
            /\ xStore' = xStore \cup (IF r THEN Reach(c) ELSE {c})
       \/ \E c \in Cids : CanUnpin(c, TRUE) /\ Unpin(c) /\ UNCHANGED xStore
       \/ /\ xStore' = xStore \cap (xDir \cup UNION {Reach(r) : r \in xRec})
          /\ UNCHANGED <<xRec, xDir>>
       \/ \E c \in xStore : xStore' = xStore \ {c} /\ UNCHANGED <<xRec, xDir>>
    /\ IF xCmd = "none" THEN UNCHANGED <<xWas, xAlw>> ELSE Remember
    /\ UNCHANGED mine

----------------------------------------------------------------------------

Begin(cmd, stage) ==
    /\ xCmd = "none" /\ xCmd' = cmd /\ xStage' = stage
    /\ xWas' = Facts(xRec, xDir, xStore) /\ xAlw' = Facts(xRec, xDir, xStore)
    /\ UNCHANGED <<xRec, xDir, xStore, xKeys, xSend, xChan, xList, xStack, xRet,
                   xEdits, xSet>>

ListPin ==
    \E t \in {"all", "direct", "indirect", "recursive"} :
        /\ Begin("ls", IF t = "indirect" THEN "direct first"
                       ELSE IF t = "direct" THEN "direct" ELSE "recursive")
        /\ xType' = t /\ UNCHANGED <<xR, xSeen>>

VerifyPin ==
    /\ Begin("verify", "check") /\ xSeen' = [c \in {} |-> {}]
    /\ \E keys \in SetToSeqs(xRec) : xR' = keys
    /\ UNCHANGED xType

ManyPins ==
    \E cmd \in {"add", "rm", "ls keys"}, t \in {"all", "recursive"} :
        Begin(cmd, "args") /\ xR' = XArgs /\ xType' = t /\ UNCHANGED xSeen

UpdatePin == Begin("update", "args") /\ xR' = XArgs /\ UNCHANGED <<xType, xSeen>>

----------------------------------------------------------------------------
(* pinLsAll: a goroutine reads the keys and sends them, each cid once. *)

\* Mutant: the set of cids already sent is not consulted.
ListAgain(S, type) == {<<c, type>> : c \in S}

ListOf(S, type) == {<<c, type>> : c \in S \ xKeys}

AddToResultKeys(S, type) ==
    /\ \E q \in SetToSeqs(ListOf(S, type)) : xSend' = q
    /\ xKeys' = xKeys \cup S

Idle == xCmd = "ls" /\ xSend = <<>> /\ xStage # "closed"

AfterRecursive == IF xType = "all" THEN "direct" ELSE "closed"

ReadRecursive ==
    /\ Idle /\ xStage = "recursive"
    /\ xR' = SetToSeq(xRec) /\ AddToResultKeys(xRec, "recursive")
    /\ xStage' = AfterRecursive
    /\ UNCHANGED <<pins, xCmd, xType, xSet, xChan, xList, xStack, xSeen, xRet,
                   xEdits>>

ReadDirect ==
    /\ Idle /\ xStage = "direct"
    /\ AddToResultKeys(xDir, "direct")
    /\ xStage' = IF xType = "all" THEN "walk" ELSE "closed"
    /\ UNCHANGED <<pins, xCmd, xType, xR, xSet, xChan, xList, xStack, xSeen,
                   xRet, xEdits>>

(* For --type=indirect the direct and the recursive pins are only marked. *)
VisitKeys(S, next) ==
    /\ xKeys' = xKeys \cup S /\ xStage' = next
    /\ UNCHANGED <<pins, xCmd, xType, xSet, xSend, xChan, xList, xStack, xSeen,
                   xRet, xEdits>>

VisitDirect == Idle /\ xStage = "direct first" /\ VisitKeys(xDir, "recursive first")
               /\ UNCHANGED xR
VisitRecursive == Idle /\ xStage = "recursive first" /\ VisitKeys(xRec, "walk")
                  /\ xR' = SetToSeq(xRec)

(* A walk from every recursive key, over a set they share; it fails when a
   block cannot be had. *)
WalkPin ==
    /\ Idle /\ xStage = "walk" /\ xR # <<>>
    /\ IF Reach(Head(xR)) \subseteq xStore
       THEN /\ xSet' = xSet \cup Below(Head(xR)) /\ xR' = Tail(xR)
            /\ UNCHANGED <<xStage, xSend>>
       ELSE xSend' = <<<<Head(xR), "error">>>> /\ xStage' = "closed"
            /\ UNCHANGED <<xSet, xR>>
    /\ UNCHANGED <<pins, xCmd, xType, xKeys, xChan, xList, xStack, xSeen, xRet,
                   xEdits>>

ListIndirect ==
    /\ Idle /\ xStage = "walk" /\ xR = <<>>
    /\ AddToResultKeys(xSet, "indirect") /\ xStage' = "closed"
    /\ UNCHANGED <<pins, xCmd, xType, xR, xSet, xChan, xList, xStack, xSeen,
                   xRet, xEdits>>

----------------------------------------------------------------------------
(* pinVerify: checkPin, depth first, with a table of the cids it has done.
   A node's links are read when it is entered, its verdict is entered when it
   is left; the verdict is the set of bad nodes under it. *)

Leave(c, bad) ==
    /\ xSeen' = [k \in DOMAIN xSeen \cup {c} |-> IF k = c THEN bad ELSE xSeen[k]]

Enter(c) == [cid |-> c, links |-> XLinks[c], bad |-> {}]

(* What checkPin does first with cid c, the rest of the stack being s. *)
Check(c, s) ==
    IF c \in xStore
    THEN xStack' = Append(s, Enter(c)) /\ UNCHANGED xSeen
    ELSE Leave(c, {c}) /\ xStack' = s

CheckRoot ==
    /\ xCmd = "verify" /\ xStage = "check" /\ xSend = <<>> /\ xStack = <<>>
    /\ IF xR = <<>> THEN xStage' = "closed" /\ UNCHANGED <<xStack, xSeen, xR, xSend>>
       ELSE IF Head(xR) \in DOMAIN xSeen
       THEN /\ xSend' = <<<<Head(xR), IF xSeen[Head(xR)] = {} THEN "ok" ELSE "broken">>>>
            /\ xR' = Tail(xR) /\ UNCHANGED <<xStack, xSeen, xStage>>
       ELSE Check(Head(xR), <<>>) /\ UNCHANGED <<xR, xSend, xStage>>
    /\ UNCHANGED <<pins, xCmd, xType, xSet, xKeys, xChan, xList, xRet, xEdits>>

\* Mutant: a node whose verdict is known counts as good.
VerdictForgotten(c) == {}

Verdict(c) == xSeen[c]

CheckLink ==
    /\ xCmd = "verify" /\ xStack # <<>>
    /\ LET top == Last(xStack)
           rest == Front(xStack)
       IN  \/ /\ top.links = {} /\ Leave(top.cid, top.bad) /\ xStack' = rest
           \/ \E k \in top.links :
                IF k \in DOMAIN xSeen
                THEN /\ xStack' = Append(rest, [top EXCEPT !.links = @ \ {k},
                                                           !.bad = @ \cup Verdict(k)])
                     /\ UNCHANGED xSeen
                ELSE Check(k, xStack)
    /\ UNCHANGED <<pins, xCmd, xStage, xType, xR, xSet, xKeys, xSend, xChan,
                   xList, xRet, xEdits>>

----------------------------------------------------------------------------
(* Commands with several arguments: the first that fails ends the command, and
   what was done before it stays done. *)

Finish(ret) == xRet' = ret /\ UNCHANGED <<xR, xList>>

\* Mutant: an argument that fails is skipped.
SkipArg(result) == xR' = Tail(xR) /\ UNCHANGED <<xList, xRet>>

ArgFails(result) == Finish("error")

ArgDone(result) ==
    /\ xR' = Tail(xR) /\ xList' = Append(xList, <<Head(xR), result>>)
    /\ UNCHANGED xRet

PinAddMany ==
    /\ xCmd = "add"
    /\ LET c == Head(xR) IN
       IF CanPin(c, xType = "all") /\ c \in xStore
       THEN /\ Pin(c, xType = "all") /\ ArgDone("pinned")
            /\ xStore' = xStore \cup (IF xType = "all" THEN Reach(c) ELSE {c})
       ELSE ArgFails("pinned") /\ UNCHANGED <<xRec, xDir, xStore>>

PinRmMany ==
    /\ xCmd = "rm" /\ UNCHANGED xStore
    /\ IF CanUnpin(Head(xR), xType = "all")
       THEN Unpin(Head(xR)) /\ ArgDone("unpinned")
       ELSE ArgFails("unpinned") /\ UNCHANGED <<xRec, xDir>>

PinLsKeys ==
    /\ xCmd = "ls keys" /\ UNCHANGED <<xRec, xDir, xStore>>
    /\ LET t == PinType(Head(xR), xType) IN
       IF t = "not pinned" THEN ArgFails(t) ELSE ArgDone(t)

PinUpdate ==
    /\ xCmd = "update" /\ UNCHANGED xStore
    /\ LET from == XArgs[1] to == XArgs[2] IN
       IF from \in xRec /\ to \notin xRec /\ Reach(to) \subseteq xStore
       THEN /\ xRec' = (xRec \ {from}) \cup {to} /\ UNCHANGED xDir
            /\ xR' = <<>> /\ xList' = <<<<from, "unpinned">>, <<to, "recursive">>>>
            /\ UNCHANGED xRet
       ELSE Finish("error") /\ UNCHANGED <<xRec, xDir>>

DoArg ==
    /\ xRet = "" /\ xStage = "args" /\ xR # <<>>
    /\ PinAddMany \/ PinRmMany \/ PinLsKeys \/ PinUpdate
    /\ Remember
    /\ UNCHANGED <<xCmd, xStage, xType, xSet, xKeys, xSend, xChan, xStack, xSeen,
                   xEdits>>

ArgsDone ==
    /\ xRet = "" /\ xStage = "args" /\ xR = <<>>
    /\ xRet' = "ok"
    /\ UNCHANGED <<pins, xCmd, xStage, xType, xR, xSet, xKeys, xSend, xChan,
                   xList, xStack, xSeen, xEdits>>

----------------------------------------------------------------------------
(* The channel of ls and verify, and Run, which reads it to the end unless a
   result is an error. *)

Send ==
    /\ xSend # <<>> /\ xChan = <<>> /\ xRet = ""
    /\ xChan' = <<Head(xSend)>> /\ xSend' = Tail(xSend)
    /\ UNCHANGED <<pins, xCmd, xStage, xType, xR, xSet, xKeys, xList, xStack,
                   xSeen, xRet, xEdits>>

Receive ==
    /\ xChan # <<>> /\ xRet = ""
    /\ xChan' = <<>>
    /\ IF xChan[1][2] = "error" THEN xRet' = "error" /\ UNCHANGED xList
       ELSE xList' = Append(xList, xChan[1]) /\ UNCHANGED xRet
    /\ UNCHANGED <<pins, xCmd, xStage, xType, xR, xSet, xKeys, xSend, xStack,
                   xSeen, xEdits>>

ChannelClosed ==
    /\ xStage = "closed" /\ xSend = <<>> /\ xChan = <<>> /\ xRet = ""
    /\ xRet' = "ok"
    /\ UNCHANGED <<pins, xCmd, xStage, xType, xR, xSet, xKeys, xSend, xChan,
                   xList, xStack, xSeen, xEdits>>

XNext ==
    \/ ListPin \/ VerifyPin \/ ManyPins \/ UpdatePin
    \/ ReadRecursive \/ ReadDirect \/ VisitDirect \/ VisitRecursive \/ WalkPin
    \/ ListIndirect \/ CheckRoot \/ CheckLink \/ DoArg \/ ArgsDone
    \/ Send \/ Receive \/ ChannelClosed \/ Edit

XSpec == XInit /\ [][XNext]_xVars

----------------------------------------------------------------------------

Listed == {xList[i][1] : i \in 1 .. Len(xList)}
Results == {xList[i] : i \in 1 .. Len(xList)}
Complete == xRet = "ok"

(* `pin ls` lists no object twice, everything it lists was pinned that way at
   some time while it ran, and a pin that was there all the time is in the
   list: although recursive keys, direct keys and graphs are read one after
   the other without a lock. *)
ListTrue ==
    xCmd = "ls" =>
        /\ Cardinality(Listed) = Len(xList)
        /\ Results \subseteq xWas
        /\ Complete /\ xType # "indirect"
            => \A f \in xAlw : f[2] \in {"recursive", "direct"}
                                /\ xType \in {"all", f[2]} => f[1] \in Listed
        /\ Complete /\ xType \in {"all", "indirect"}
            => \A f \in xAlw : f[2] = "indirect"
                    => f[1] \in Listed \/ <<f[1], "recursive">> \in xWas
                       \/ <<f[1], "direct">> \in xWas

(* `pin verify` calls a pin broken only if a block under it was missing while
   it ran, and ok only if every block under it was there at some time: also
   for the cids whose verdict it takes from its table. *)
VerifyTrue ==
    xCmd = "verify" =>
        \A i \in 1 .. Len(xList) :
            LET c == xList[i][1] IN
            IF xList[i][2] = "ok"
            THEN \A k \in Reach(c) : <<k, "stored">> \in xWas
            ELSE \E k \in Reach(c) : <<k, "missing">> \in xWas

(* A command with several arguments that succeeds has done its work for every
   one of them, in the state the argument was in when its turn came. *)
EveryArgumentDone ==
    Complete /\ xCmd \in {"add", "rm", "ls keys", "update"}
        => /\ Listed = {XArgs[i] : i \in 1 .. Len(XArgs)}
           /\ \A r \in Results : r[2] # "pinned" => r \in xWas

=============================================================================
