-------------------------------- MODULE P2P --------------------------------
(***************************************************************************)
(* Stream forwarding (p2p/, core/commands/p2p.go).  A local listener binds *)
(* a socket and forwards what it accepts to a peer; a protocol listener    *)
(* forwards streams of peers to a local address.  Each forwarded stream is *)
(* entered in a registry that counts streams and tags their peers; its two *)
(* copying goroutines, and `p2p stream close`, close both ends and take it *)
(* out of the registry.                                                    *)
(***************************************************************************)
EXTENDS FiniteSets, Integers

CONSTANTS Addrs, Protos, PPeers,   \* listen addresses, protocols, remote peers
          Conns                    \* connections and streams, each used once

ASSUME StreamsAssumption ==
    /\ IsFiniteSet(Conns) /\ PPeers # {}
    /\ Protos \cap {"new", "dial", "handle", "ready", "running", "gone", "dropped"} = {}

Closers == {"in", "out", "cmd"}    \* the two directions and the command

VARIABLES pSock,      \* addresses whose socket is bound
          pOpening,   \* bound by ForwardLocal, not registered yet
          pClosing,   \* taken out of the registry, socket not closed yet
          pLocal,     \* ListenersLocal
          pProtos,    \* ListenersP2P
          pStage,     \* pStage[c]: how far c is
          pLoc, pRem, \* the two ends of c: "none", "open", "closed" or "reset"
          pPeer,      \* the remote peer of c
          pDirs,      \* pDirs[c]: directions that still copy
          pEnding,    \* pEnding[c]: closers that have closed the ends and not deregistered yet
          pStreams,   \* StreamRegistry.Streams
          pCount,     \* StreamRegistry.conns
          pTags       \* peers tagged in the connection manager

lis == <<pSock, pOpening, pClosing, pLocal, pProtos>>
reg == <<pStreams, pCount, pTags>>
ends == <<pStage, pLoc, pRem, pPeer, pDirs, pEnding>>
pVars == <<lis, ends, reg>>

PInit ==
    /\ pSock = {} /\ pOpening = {} /\ pClosing = {} /\ pLocal = {} /\ pProtos = {}
    /\ pStage = [c \in Conns |-> "new"]
    /\ pLoc = [c \in Conns |-> "none"] /\ pRem = [c \in Conns |-> "none"]
    /\ pPeer = [c \in Conns |-> CHOOSE p \in PPeers : TRUE]
    /\ pDirs = [c \in Conns |-> {}] /\ pEnding = [c \in Conns |-> {}]
    /\ pStreams = {} /\ pCount = [p \in PPeers |-> 0] /\ pTags = {}

-----------------------------------------------------------------------------
(* Listeners.                                                              *)

\* p2p forward: Listen binds the socket, which fails when it is in use.
Forward(a) ==
    /\ a \notin pSock
    /\ pSock' = pSock \cup {a} /\ pOpening' = pOpening \cup {a}
    /\ UNCHANGED <<pClosing, pLocal, pProtos, ends, reg>>

\* Register: an address that is registered is an error, and ForwardLocal returns
\* it without closing the socket.
RegisterLocal(a) ==
    /\ a \in pOpening
    /\ pOpening' = pOpening \ {a}
    /\ pLocal' = pLocal \cup {a}
    /\ UNCHANGED <<pSock, pClosing, pProtos, ends, reg>>

CloseLocalSocketFirst(a) ==   \* mutant: the socket is closed before the entry is deleted
    /\ a \in pLocal /\ a \notin pClosing
    /\ pSock' = pSock \ {a} /\ pClosing' = pClosing \cup {a}
    /\ UNCHANGED <<pOpening, pLocal, pProtos, ends, reg>>

\* p2p close: Listeners.Close first deletes the entry ...
CloseLocal(a) ==
    /\ a \in pLocal /\ a \notin pClosing
    /\ pLocal' = pLocal \ {a} /\ pClosing' = pClosing \cup {a}
    /\ UNCHANGED <<pSock, pOpening, pProtos, ends, reg>>

\* ... and closes the socket after it has released the lock.
CloseSocket(a) ==
    /\ a \in pClosing
    /\ pClosing' = pClosing \ {a} /\ pSock' = pSock \ {a}
    /\ UNCHANGED <<pOpening, pLocal, pProtos, ends, reg>>

\* p2p listen; a protocol that is registered is refused.
Listen(x) ==
    /\ x \notin pProtos /\ pProtos' = pProtos \cup {x}
    /\ UNCHANGED <<pSock, pOpening, pClosing, pLocal, ends, reg>>

CloseProto(x) ==
    /\ x \in pProtos /\ pProtos' = pProtos \ {x}
    /\ UNCHANGED <<pSock, pOpening, pClosing, pLocal, ends, reg>>

-----------------------------------------------------------------------------
(* Connections on their way into the registry.                             *)

Stage(c, s) == pStage' = [pStage EXCEPT ![c] = s]
SetEnds(c, l, r) == pLoc' = [pLoc EXCEPT ![c] = l] /\ pRem' = [pRem EXCEPT ![c] = r]

\* acceptConns of a listener that runs.
Accept(c, a, p) ==
    /\ pStage[c] = "new" /\ a \in pSock \ pOpening
    /\ Stage(c, "dial") /\ SetEnds(c, "open", "none")
    /\ pPeer' = [pPeer EXCEPT ![c] = p]
    /\ UNCHANGED <<lis, pDirs, pEnding, reg>>

\* setupStream: the remote peer is dialled, or the local end is closed.
Dial(c) ==
    /\ pStage[c] = "dial"
    /\ \/ Stage(c, "ready") /\ SetEnds(c, "open", "open")
       \/ Stage(c, "gone") /\ SetEnds(c, "closed", "none")
    /\ UNCHANGED <<lis, pPeer, pDirs, pEnding, reg>>

\* The match function of SetStreamHandlerMatch lets a stream in.
Match(c, x, p) ==
    /\ pStage[c] = "new" /\ x \in pProtos
    /\ Stage(c, x) /\ SetEnds(c, "none", "open")
    /\ pPeer' = [pPeer EXCEPT ![c] = p]
    /\ UNCHANGED <<lis, pDirs, pEnding, reg>>

\* Its handler looks again; a listener closed in between leaves the stream as it is.
Handle(c) ==
    /\ pStage[c] \in Protos
    /\ Stage(c, IF pStage[c] \in pProtos THEN "handle" ELSE "dropped")
    /\ UNCHANGED <<lis, pLoc, pRem, pPeer, pDirs, pEnding, reg>>

\* handleStream: dials the target and may announce the peer to it; both can fail.
HandleStream(c) ==
    /\ pStage[c] = "handle"
    /\ \/ Stage(c, "ready") /\ SetEnds(c, "open", "open")
       \/ Stage(c, "gone") /\ SetEnds(c, "none", "reset")
       \/ Stage(c, "gone") /\ SetEnds(c, "open", "reset")
    /\ UNCHANGED <<lis, pPeer, pDirs, pEnding, reg>>

-----------------------------------------------------------------------------
(* The registry.                                                           *)

Register(c) ==
    /\ pStage[c] = "ready"
    /\ pTags' = pTags \cup {pPeer[c]}
    /\ pCount' = [pCount EXCEPT ![pPeer[c]] = @ + 1]
    /\ pStreams' = pStreams \cup {c}
    /\ Stage(c, "running")
    /\ pDirs' = [pDirs EXCEPT ![c] = {"in", "out"}]
    /\ UNCHANGED <<lis, pLoc, pRem, pPeer, pEnding>>

CloseLocalEndOnly(c, how) ==   \* mutant: the remote end is forgotten
    SetEnds(c, "closed", pRem[c])

\* Stream.close and Stream.reset, up to Deregister.
CloseEnds(c, how) ==
    SetEnds(c, "closed", IF pRem[c] = "open" THEN how ELSE pRem[c])

CopyEndsQuietly(c, d, how) ==   \* mutant: the goroutine ends without closing the stream
    /\ d \in pDirs[c]
    /\ pDirs' = [pDirs EXCEPT ![c] = @ \ {d}]
    /\ UNCHANGED <<lis, pStage, pPeer, pLoc, pRem, pEnding, reg>>

\* io.Copy of a direction returns: the end it reads or writes is closed, or broken.
\* (A copy between two open ends may go on for ever.)
CopyEnds(c, d, how) ==
    /\ d \in pDirs[c]
    /\ pDirs' = [pDirs EXCEPT ![c] = @ \ {d}]
    /\ pEnding' = [pEnding EXCEPT ![c] = @ \cup {d}]
    /\ CloseEnds(c, how)
    /\ UNCHANGED <<lis, pStage, pPeer, reg>>

\* p2p stream close resets the streams it finds in the registry.
StreamClose(c) ==
    /\ c \in pStreams /\ "cmd" \notin pEnding[c]
    /\ pEnding' = [pEnding EXCEPT ![c] = @ \cup {"cmd"}]
    /\ CloseEnds(c, "reset")
    /\ UNCHANGED <<lis, pStage, pPeer, pDirs, reg>>

DeregisterAlways(c, d) ==   \* mutant: a stream that is gone already is counted down again
    /\ d \in pEnding[c]
    /\ pEnding' = [pEnding EXCEPT ![c] = @ \ {d}]
    /\ pStreams' = pStreams \ {c}
    /\ pCount' = [pCount EXCEPT ![pPeer[c]] = @ - 1]
    /\ pTags' = IF pCount[pPeer[c]] > 1 THEN pTags ELSE pTags \ {pPeer[c]}
    /\ UNCHANGED <<lis, pStage, pLoc, pRem, pPeer, pDirs>>

Deregister(c, d) ==
    /\ d \in pEnding[c]
    /\ pEnding' = [pEnding EXCEPT ![c] = @ \ {d}]
    /\ IF c \notin pStreams THEN UNCHANGED reg
       ELSE /\ pStreams' = pStreams \ {c}
            /\ pCount' = [pCount EXCEPT ![pPeer[c]] = @ - 1]
            /\ pTags' = IF pCount[pPeer[c]] > 1 THEN pTags ELSE pTags \ {pPeer[c]}
    /\ UNCHANGED <<lis, pStage, pLoc, pRem, pPeer, pDirs>>

\* The end a direction reads from is closed: its copy has to return.
Broken(c, d) == (IF d = "in" THEN pRem[c] ELSE pLoc[c]) # "open"
CopyDone(c) == \E d \in pDirs[c], how \in {"closed", "reset"} : Broken(c, d) /\ CopyEnds(c, d, how)

DeregisterSome(c) == \E d \in Closers : Deregister(c, d)

PNext ==
    \/ \E a \in Addrs : Forward(a) \/ RegisterLocal(a) \/ CloseLocal(a) \/ CloseSocket(a)
    \/ \E x \in Protos : Listen(x) \/ CloseProto(x)
    \/ \E c \in Conns :
          \/ \E a \in Addrs, p \in PPeers : Accept(c, a, p)
          \/ \E x \in Protos, p \in PPeers : Match(c, x, p)
          \/ Dial(c) \/ Handle(c) \/ HandleStream(c) \/ Register(c) \/ StreamClose(c)
          \/ \E d \in {"in", "out"}, how \in {"closed", "reset"} : CopyEnds(c, d, how)
          \/ DeregisterSome(c)

PFairness == \A c \in Conns : WF_pVars(CopyDone(c)) /\ WF_pVars(DeregisterSome(c))
PSpec == PInit /\ [][PNext]_pVars
PFairSpec == PSpec /\ PFairness

-----------------------------------------------------------------------------
(* Properties.                                                             *)

\* The registry's count is the number of streams a peer has, and a peer is tagged
\* exactly while it has one, in whatever order the closers of a stream arrive.
TagsMatch ==
    /\ \A p \in PPeers : pCount[p] = Cardinality({c \in pStreams : pPeer[c] = p})
    /\ pTags = {p \in PPeers : pCount[p] > 0}

\* A stream that has left the registry has both its ends closed.
LeftMeansClosed == \A c \in Conns : pStage[c] = "running" /\ c \notin pStreams => pLoc[c] = "closed" /\ pRem[c] # "open"

\* No bound socket is lost: it belongs to a listener in the registry, or to one being
\* opened or closed.  ForwardLocal leaks its socket when Register fails; the order
\* of Listeners.Close (entry first, socket second) is why it never does.
NoOrphanSocket == pSock = pLocal \cup pOpening \cup pClosing /\ pLocal \cap pOpening = {}

\* When one direction of a stream has ended, so does the other.
PBegun(c) == Cardinality(pDirs[c]) = 1
PEnded(c) == pDirs[c] = {}
BothDirectionsEnd == \A c \in Conns : PBegun(c) ~> PEnded(c)

\* The registry counts a peer's streams and tags the peer while it has one, a stream that has left
\* it is closed at both ends, and no bound socket is lost (StreamRegistry, Stream.close,
\* Listeners.Close, startStreaming).
StreamsAccounted == TagsMatch /\ LeftMeansClosed /\ NoOrphanSocket
=============================================================================
