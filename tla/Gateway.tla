------------------------------ MODULE Gateway ------------------------------
(* GET requests to the HTTP gateway (core/corehttp/gateway_handler.go), seen *)
(* from a user agent that caches what it is sent.  While a request is being  *)
(* answered the name it asks for may be republished, any read of the DAG may *)
(* fail, and between requests the daemon may be upgraded to one with another *)
(* directory template.  HEAD takes the same path and sends no body.          *)
(*                                                                           *)
(* A path is [ns, id, slash, miss]: an object ("ipfs") or the name ("ipns"), *)
(* whether the URL ends in a slash, and how many path components below the   *)
(* object do not exist.  A body is <<kind, object, n>>.                      *)
EXTENDS Integers, Sequences, FiniteSets

CONSTANTS
  GKind,        \* object -> "file" | "dir" | "site" | "oddsite"
  G404,         \* object -> the depths at which it has an ipfs-404.html
  GMiss,        \* at most so many missing components
  GSize,        \* bytes of a file
  GStarts,      \* what the name may stand for at first
  MaxRequests, MaxPublishes

VARIABLES
  gName,   \* the object the name resolves to
  gTpl,    \* version of the directory template (assets.BindataVersionHash)
  gCache,  \* path -> the response the user agent keeps for it, {} or one
  gReq,    \* the request being answered
  gRd,     \* the lazySeeker over the file being sent, and the bytes sent
  gResp,   \* the response to the last request
  gCount   \* requests, republications

gVars == <<gName, gTpl, gCache, gReq, gRd, gResp, gCount>>

Objects == DOMAIN GKind
Paths == {p \in [ns : {"ipfs"}, id : Objects, slash : BOOLEAN, miss : 0..GMiss]
               \cup [ns : {"ipns"}, id : {"n"}, slash : BOOLEAN, miss : 0..GMiss] :
            p.slash => p.miss = 0}
NoBody == <<"", "", 0>>
NoTag == <<"", 0>>
Response(status, etag, forever, body) == [status |-> status, etag |-> etag, forever |-> forever, body |-> body]
NoResponse == Response(0, NoTag, FALSE, NoBody)
NoReader == [off |-> 0, real |-> 0, out |-> <<>>]

GInit == /\ gName \in GStarts
         /\ gTpl = 1
         /\ gCache = [p \in Paths |-> {}]
         /\ gReq = [pc |-> "idle"]
         /\ gRd = NoReader
         /\ gResp = NoResponse
         /\ gCount = [req |-> 0, pub |-> 0]

-----------------------------------------------------------------------------
(* The world around the handler.                                             *)

\* The name is republished (external: IPNS).
Publish(o) == /\ gCount.pub < MaxPublishes /\ o # gName
              /\ gName' = o
              /\ gCount' = [gCount EXCEPT !.pub = @ + 1]
              /\ UNCHANGED <<gTpl, gCache, gReq, gRd, gResp>>

\* The daemon is replaced by one with another template.
Upgrade == /\ gReq.pc = "idle" /\ gTpl = 1
           /\ gTpl' = 2
           /\ UNCHANGED <<gName, gCache, gReq, gRd, gResp, gCount>>

\* The user agent asks for a path unless it was told it will never change,
\* sends the tag of what it keeps, and may ask for the end of a file only.
Ask(p, from) ==
  /\ gReq.pc = "idle" /\ gCount.req < MaxRequests
  /\ \A r \in gCache[p] : ~r.forever
  /\ gReq' = [pc |-> "resolve", path |-> p, from |-> from, res |-> "",
              inm |-> IF gCache[p] = {} THEN NoTag ELSE (CHOOSE r \in gCache[p] : TRUE).etag]
  /\ gCount' = [gCount EXCEPT !.req = @ + 1]
  /\ UNCHANGED <<gName, gTpl, gCache, gRd, gResp>>

\* A cache keeps a complete 200 and whatever it is told to keep.
Kept(r) == r.status = 200 \/ r.forever

\* The response is complete; the user agent keeps it or a 304 confirms what it has.
Reply(r) ==
  /\ gResp' = r
  /\ gCache' = IF Kept(r) /\ gReq.from = 0 THEN [gCache EXCEPT ![gReq.path] = {r}] ELSE gCache
  /\ gReq' = [gReq EXCEPT !.pc = "replied"]
  /\ UNCHANGED <<gName, gTpl, gRd, gCount>>

Error(status) == Reply(Response(status, NoTag, FALSE, NoBody))

NextRequest ==
  /\ gReq.pc = "replied"
  /\ gReq' = [pc |-> "idle"] /\ gRd' = NoReader
  /\ UNCHANGED <<gName, gTpl, gCache, gResp, gCount>>

-----------------------------------------------------------------------------
(* getOrHeadHandler.                                                         *)

\* Requests refused before the path is resolved: a bad ?uri, a service worker
\* at a namespace root, a path that is no path (gateway_handler.go:231-271).
Refused == gReq.pc = "resolve" /\ Error(400)

Target == IF gReq.path.ns = "ipns" THEN gName ELSE gReq.path.id

\* Mutant: the search for a 404 page starts at the root.
SearchFromRoot(o, depth) == {d \in G404[o] : d <= depth /\ \A e \in G404[o] : d <= e}

\* searchUpTreeFor404: the page in the closest directory above the path.
searchUpTreeFor404(o, depth) == {d \in G404[o] : d <= depth /\ \A e \in G404[o] : e <= depth => e <= d}

\* The path does not resolve: offline, no such link, or a read that fails.
ResolveFails(status) ==
  /\ gReq.pc = "resolve"
  /\ IF status = 404
     THEN \/ Error(404)
          \/ \E d \in searchUpTreeFor404(Target, gReq.path.miss - 1) :
               Reply(Response(404, NoTag, FALSE, <<"404", Target, d>>))
     ELSE Error(status)

\* ResolvePath names the object all that follows is read from.
ResolvePath ==
  /\ gReq.pc = "resolve" /\ gReq.path.miss = 0
  /\ gReq' = [gReq EXCEPT !.pc = "get", !.res = Target]
  /\ UNCHANGED <<gName, gTpl, gCache, gRd, gResp, gCount>>

\* Mutant: the tag of a directory names the directory only.
EtagWithoutTemplate(o) == <<o, 0>>

\* The tag of a response: directories carry the version of the template too.
Etag(o) == <<o, IF GKind[o] = "file" THEN 0 ELSE gTpl>>

\* Unixfs().Get of the resolved path, then the tag sent by the user agent.
GetFails == gReq.pc = "get" /\ Error(404)
NotModified == gReq.pc = "get" /\ gReq.inm = Etag(gReq.res) /\ Reply(Response(304, Etag(gReq.res), FALSE, NoBody))
Modified ==
  /\ gReq.pc = "get" /\ gReq.inm # Etag(gReq.res)
  /\ gReq' = [gReq EXCEPT !.pc = IF GKind[gReq.res] = "file" THEN "file" ELSE "index"]
  /\ UNCHANGED <<gName, gTpl, gCache, gRd, gResp, gCount>>

\* Mutant: every file may be kept for ever.
ForeverAlways == gReq.pc \in {"file", "send"}

\* Cache-Control: a file below /ipfs/ never changes (gateway_handler.go:327).
Forever == gReq.pc \in {"file", "send"} /\ gReq.path.ns = "ipfs"

\* A failure after the headers of the response were set.
LateError(status) == Reply(Response(status, Etag(gReq.res), Forever, NoBody))

\* serveFile: the size is unknown, or the content cannot be read to find its type.
SizeUnknown == gReq.pc = "file" /\ LateError(502)
DetectFails == gReq.pc = "file" /\ LateError(500)

\* serveFile: reading for the type moves the file.  The seek back, and the
\* seeks of http.ServeContent to the end for the size and to the range asked
\* for, only change the offset.
Detect(n) ==
  /\ gReq.pc = "file"
  /\ gRd' = [off |-> gReq.from, real |-> n, out |-> <<>>]
  /\ gReq' = [gReq EXCEPT !.pc = "send"]
  /\ UNCHANGED <<gName, gTpl, gCache, gResp, gCount>>

\* Mutant: the file is not moved before it is read.
ReadWhereItIs(n) == [off |-> gRd.off + n, real |-> gRd.real + n, out |-> gRd.out \o [i \in 1..n |-> gRd.real + i]]

\* lazySeeker.Read: move the file to the offset, then read.
LazyRead(n) == [off |-> gRd.off + n, real |-> gRd.off + n, out |-> gRd.out \o [i \in 1..n |-> gRd.off + i]]

\* http.ServeContent copies the range piece by piece.
SendPiece(n) ==
  /\ gReq.pc = "send" /\ gRd.off + n <= GSize
  /\ gRd' = LazyRead(n)
  /\ UNCHANGED <<gName, gTpl, gCache, gReq, gResp, gCount>>
Sent ==
  /\ gReq.pc = "send" /\ gRd.off >= GSize
  /\ Reply(Response(IF gReq.from = 0 THEN 200 ELSE 206, Etag(gReq.res), Forever, <<"file", gReq.res, 0>>))

\* A read fails in the middle; the user agent keeps nothing of it.
CutShort == /\ gReq.pc = "send"
            /\ gReq' = [gReq EXCEPT !.pc = "replied"]
            /\ UNCHANGED <<gName, gTpl, gCache, gRd, gResp, gCount>>

\* Mutant: index.html is looked for under the path asked, not the path resolved.
IndexUnderName == Target

\* The directory whose index.html is read (ipath.Join(resolvedPath, ...)).
IndexOf == gReq.res

\* A directory: its index.html is sent, after a redirect to the URL with a
\* slash; without one its entries are listed with the template.
IndexFails == gReq.pc = "index" /\ LateError(500)
Index ==
  LET o == IndexOf
  IN  /\ gReq.pc = "index" /\ GKind[o] \in {"site", "oddsite"}
      /\ CASE ~gReq.path.slash -> Reply(Response(302, Etag(gReq.res), FALSE, NoBody))
           [] gReq.path.slash /\ GKind[o] = "oddsite" -> LateError(500)
           [] OTHER -> Reply(Response(200, Etag(gReq.res), FALSE, <<"index", o, 0>>))
Listing ==
  LET o == IndexOf
  IN  /\ gReq.pc = "index" /\ GKind[o] = "dir"
      /\ \/ Reply(Response(200, Etag(gReq.res), FALSE, <<"list", o, gTpl>>))
         \/ LateError(500)

Handler == \/ Refused \/ ResolvePath \/ \E s \in {404, 503} : ResolveFails(s)
           \/ GetFails \/ NotModified \/ Modified
           \/ SizeUnknown \/ DetectFails \/ Sent \/ CutShort
           \/ \E n \in 0..GSize : Detect(n)
           \/ \E n \in 1..GSize : SendPiece(n)
           \/ IndexFails \/ Index \/ Listing

GNext == \/ Handler \/ NextRequest \/ Upgrade
         \/ \E o \in Objects : Publish(o)
         \/ \E p \in Paths, from \in {0, 1} : Ask(p, from)

GSpec == GInit /\ [][GNext]_gVars

-----------------------------------------------------------------------------
(* Properties.                                                               *)

\* What the path shows when it stands for object o.
Rendering(o) ==
  CASE GKind[o] = "file" -> <<"file", o, 0>>
    [] GKind[o] = "dir" -> <<"list", o, gTpl>>
    [] OTHER -> <<"index", o, 0>>

Now(p) == IF p.ns = "ipns" THEN gName ELSE p.id

\* A response kept for ever is never out of date: what the user agent shows
\* for the path is what the path stands for now.
ForeverTrue ==
  \A p \in Paths : \A r \in gCache[p] : r.forever /\ r.status = 200 => r.body = Rendering(Now(p))

\* A 304 is given only when what the user agent keeps is what the object that
\* the name resolved to during this request would be shown as now.
NotModifiedTrue ==
  gReq.pc = "replied" /\ gResp.status = 304 =>
    \A r \in gCache[gReq.path] : r.status = 200 => r.body = Rendering(gReq.res)

\* A page is made from one version of a name: the body is the rendering of
\* the object its tag names, though the name changed while it was made.
OneVersion == gResp.status = 200 => gResp.body[2] = gResp.etag[1]

\* The bytes sent are those of the file from the start of the range asked for,
\* whatever was read before to detect the type.
RangeExact == \A i \in 1..Len(gRd.out) : gRd.out[i] = gReq.from + i

\* A 404 page comes from the closest directory above the missing path that has one.
Nearest404 ==
  gReq.pc = "replied" /\ gResp.body[1] = "404" =>
    \A d \in G404[gResp.body[2]] : d < gReq.path.miss => d <= gResp.body[3]

\* An error is never kept for ever.  The code does not keep this: see the README.
NoErrorKept == \A p \in Paths : \A r \in gCache[p] : r.forever => r.status < 400
=============================================================================
