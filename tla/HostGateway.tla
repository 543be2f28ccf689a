---------------------------- MODULE HostGateway ----------------------------
(* The part of the HTTP gateway that looks at the Host header                *)
(* (core/corehttp/hostname.go, HostnameOption): path requests to a gateway   *)
(* with subdomains are redirected to {rootID}.{ns}.{gateway}, subdomain      *)
(* requests are redirected to a canonical spelling of the root or served,    *)
(* and every other host is tried as a DNSLink name.  A user agent asks one   *)
(* URL and follows the redirects it is given.                                *)
(*                                                                           *)
(* A host name is a sequence of labels.  A label is a sequence of characters *)
(* or the text of a CID, <<"cid", hash, codec, encoding>>; a root identifier *)
(* is a sequence of labels too, one label long when it is a CID.  The hash   *)
(* "sha" is an ordinary one, "id" an inlined ed25519 key, "long" one of 64   *)
(* bytes.  Ports, queries and the path below the root are left out.          *)
EXTENDS Integers, SequencesExt

CONSTANTS
  HExact,      \* the gateways configured by name: sequences of labels
  HWild,       \* the gateways configured as "*.tail": the tails
  HSpec,       \* gateway or tail -> [sub, paths, noDNSLink]
  HHosts,      \* the hosts a user agent asks for content paths
  HIds,        \* the root identifiers of those paths
  HSubs,       \* the subdomain hosts asked without a redirect
  HNames,      \* the names that have a DNSLink record
  HNoDNSLink,  \* Gateway.NoDNSLink of the configuration
  HProxies     \* whether a reverse proxy replaces the Host header

VARIABLES
  hUrl,    \* the URL being asked: host, namespace and root of its path ("" for "/")
  hTls,    \* the proxy in front said the request came over https
  hProxy,  \* Host is the backend's name and X-Forwarded-Host the URL's
  hWant,   \* the content the first URL stands for
  hGot,    \* the content path handed to the gateway handler
  hHop,    \* flips with every redirect that is followed
  hStatus  \* "idle" | "asking" | "served" | "notfound" | "bad"

hVars == <<hUrl, hTls, hProxy, hWant, hGot, hHop, hStatus>>

Nothing == [ns |-> "", id |-> <<>>]
Backend == <<<<"b", "e">>>>
Namespaces == {"ipfs", "ipns", "p2p", "ipld"}

HInit == /\ hUrl = [host |-> Backend, ns |-> "", id |-> <<>>]
         /\ hTls = FALSE
         /\ hProxy = FALSE
         /\ hWant = Nothing
         /\ hGot = Nothing
         /\ hHop = FALSE
         /\ hStatus = "idle"

-----------------------------------------------------------------------------
(* Texts of identifiers.                                                     *)

IsCid(id) == Len(id) = 1 /\ Head(id)[1] = "cid"

Hash(id)  == Head(id)[2]
Codec(id) == Head(id)[3]
Enc(id)   == Head(id)[4]
CidText(hash, codec, enc) == <<<<"cid", hash, codec, enc>>>>

\* cid.Decode: the bare base58 text of an inlined key is not a CID.
DecodesAsCid(id) == IsCid(id) /\ ~(Hash(id) = "id" /\ Enc(id) = "b58")

\* peer.Decode: a base58 multihash, or a CID with the libp2p-key codec.
IsPeerID(id) == IsCid(id) /\ (Enc(id) = "b58" \/ Codec(id) = "libp2p-key")

LabelLength(hash, enc) ==
  CASE hash = "sha" -> IF enc = "b58" THEN 46 ELSE IF enc = "b32" THEN 59 ELSE 56
    [] hash = "id" -> IF enc = "b58" THEN 52 ELSE IF enc = "b32" THEN 65 ELSE 62
    [] OTHER -> IF enc = "b32" THEN 110 ELSE 99

dnsLabelMaxLength == 63

\* Mutant: the limit is not looked at.
AnyDNSLabel(id) == <<id>>

\* toDNSLabel: the text as it is, or in base36, or no text at all.
toDNSLabel(id) ==
  LET short == CidText(Hash(id), Codec(id), "b36")
  IN  IF LabelLength(Hash(id), Enc(id)) <= dnsLabelMaxLength THEN <<id>>
      ELSE IF LabelLength(Hash(id), "b36") <= dnsLabelMaxLength THEN <<short>>
      ELSE <<>>

\* Mutant: hyphens of the name are not doubled.
InlineKeepingHyphens(id) == <<FlattenSeq([i \in 1..Len(id) |-> IF i = 1 THEN id[i] ELSE <<"-">> \o id[i]])>>

\* toDNSLinkDNSLabel: one label for a whole name, "-" doubled and "." as "-".
toDNSLinkDNSLabel(id) ==
  LET Doubled(l) == FlattenSeq([i \in 1..Len(l) |-> IF l[i] = "-" THEN <<"-", "-">> ELSE <<l[i]>>])
  IN  <<FlattenSeq([i \in 1..Len(id) |-> (IF i = 1 THEN <<>> ELSE <<"-">>) \o Doubled(id[i])])>>

\* toDNSLinkFQDN: the name such a label stands for, read from the left.
toDNSLinkFQDN(label) ==
  LET Read[i \in 1..Len(label) + 1] ==
        IF i > Len(label) THEN <<<<>>>>
        ELSE IF label[i] # "-" THEN <<<<label[i]>> \o Head(Read[i + 1])>> \o Tail(Read[i + 1])
        ELSE IF i < Len(label) /\ label[i + 1] = "-"
             THEN <<<<"-">> \o Head(Read[i + 2])>> \o Tail(Read[i + 2])
        ELSE <<<<>>>> \o Read[i + 1]
  IN  Read[1]

\* isDNSLinkName: a domain name, not a peer ID, with a TXT record.
isDNSLinkName(id) == ~IsPeerID(id) /\ id \in HNames

isPeerIDNamespace(ns) == ns \in {"ipns", "p2p"}

-----------------------------------------------------------------------------
(* Known gateways.                                                           *)

\* isKnownHostname: the exact names first, then the wildcards; a wildcard
\* stands for exactly one label.
isKnownHostname(host) ==
  IF host \in HExact THEN <<HSpec[host]>>
  ELSE IF Len(host) > 1 /\ Tail(host) \in HWild THEN <<HSpec[Tail(host)]>>
  ELSE <<>>

\* knownSubdomainDetails: the shortest known gateway with a namespace label
\* and a root in front of it.
knownSubdomainDetails(host) ==
  LET Fits == {i \in 3..Len(host) :
                 /\ isKnownHostname(SubSeq(host, i, Len(host))) # <<>>
                 /\ Len(host[i - 1]) = 1
                 /\ host[i - 1][1] \in Namespaces}
      i == CHOOSE j \in Fits : \A k \in Fits : k <= j
  IN  IF Fits = {} THEN <<>>
      ELSE <<[gw |-> SubSeq(host, i, Len(host)), ns |-> host[i - 1][1], id |-> SubSeq(host, 1, i - 2)]>>

\* The root that toSubdomainURL puts in front: <<>> when it does not fit.
CanonicalRoot(ns, id) ==
  LET codec == IF isPeerIDNamespace(ns) THEN "libp2p-key" ELSE Codec(id)
      enc == IF isPeerIDNamespace(ns) THEN "b36" ELSE "b32"
  IN  CASE DecodesAsCid(id) \/ (isPeerIDNamespace(ns) /\ IsPeerID(id)) ->
             toDNSLabel(CidText(Hash(id), codec, enc))
        [] ~IsCid(id) /\ hTls /\ ns = "ipns" /\ Len(id) > 1 /\ isDNSLinkName(id) ->
             <<toDNSLinkDNSLabel(id)>>
        [] OTHER -> <<id>>

\* toSubdomainURL, for a root that fits.
toSubdomainURL(gw, ns, id) ==
  [host |-> CanonicalRoot(ns, id)[1] \o <<<<ns>>>> \o gw, ns |-> "", id |-> <<>>]

-----------------------------------------------------------------------------
(* What the handler answers.                                                 *)

Redirect(url) == hUrl' = url /\ hHop' = ~hHop /\ UNCHANGED <<hGot, hStatus>>
Serve(ns, id) == hGot' = [ns |-> ns, id |-> id] /\ hStatus' = "served" /\ UNCHANGED <<hUrl, hHop>>
Refuse(status) == hStatus' = status /\ UNCHANGED <<hUrl, hGot, hHop>>

\* The path of a host that serves no content paths of its own.
ServeHost == Serve("ipns", hUrl.host)

\* A known gateway asked without a subdomain (hostname.go:75-123).  The body
\* is sent along with the redirect; the user agent follows the redirect.
KnownGateway ==
  LET gw == isKnownHostname(hUrl.host)
  IN  /\ hStatus = "asking" /\ gw # <<>>
      /\ IF hUrl.ns # "" /\ hUrl.ns \in gw[1].paths
         THEN IF gw[1].sub
              THEN IF CanonicalRoot(hUrl.ns, hUrl.id) = <<>> THEN Refuse("bad")
                   ELSE Redirect(toSubdomainURL(hUrl.host, hUrl.ns, hUrl.id))
              ELSE Serve(hUrl.ns, hUrl.id)
         ELSE IF ~gw[1].noDNSLink /\ isDNSLinkName(hUrl.host) THEN ServeHost
         ELSE Refuse("notfound")
      /\ UNCHANGED <<hTls, hProxy, hWant>>

\* The first label of the Host header, which a reverse proxy may replace.
HeaderLabel == Head(IF hProxy THEN Backend ELSE hUrl.host)

\* The name a root that is not a CID is served under (hostname.go:195-205).
ServedName(ns, id) ==
  IF ns = "ipns" /\ ~IsCid(id) /\ Len(id) = 1 /\ ~isDNSLinkName(id) /\ isDNSLinkName(toDNSLinkFQDN(id[1]))
  THEN toDNSLinkFQDN(id[1]) ELSE id

\* Mutant: the codec is only fixed for names the resolver would refuse.
ServeRootUnfixed(d) == Serve(d.ns, ServedName(d.ns, d.id))

\* Mutant: a root in a namespace of keys is always sent to the fixed spelling.
ServeRootAlwaysFixed(d) ==
  IF DecodesAsCid(d.id) /\ isPeerIDNamespace(d.ns)
  THEN Redirect(toSubdomainURL(d.gw, d.ns, d.id)) ELSE Serve(d.ns, ServedName(d.ns, d.id))

\* A canonical root is served, once a key has the codec of keys.
ServeRoot(d) ==
  IF DecodesAsCid(d.id) /\ isPeerIDNamespace(d.ns) /\ Codec(d.id) # "libp2p-key"
  THEN IF CanonicalRoot(d.ns, d.id) = <<>> THEN Refuse("bad")
       ELSE Redirect(toSubdomainURL(d.gw, d.ns, d.id))
  ELSE Serve(d.ns, ServedName(d.ns, d.id))

\* A known gateway asked by subdomain (hostname.go:129-214).
SubdomainGateway ==
  LET details == knownSubdomainDetails(hUrl.host)
      d == details[1]
      spec == isKnownHostname(d.gw)[1]
      label == toDNSLabel(d.id)
  IN  /\ hStatus = "asking" /\ isKnownHostname(hUrl.host) = <<>> /\ details # <<>>
      /\ CASE ~(spec.sub /\ d.ns \in spec.paths) -> Refuse("notfound")
           [] spec.sub /\ d.ns \in spec.paths /\ ~DecodesAsCid(d.id) -> ServeRoot(d)
           [] OTHER -> IF label = <<>> THEN Refuse("bad")
                       ELSE IF HeaderLabel # label[1][1]
                            THEN IF CanonicalRoot(d.ns, label[1]) = <<>> THEN Refuse("bad")
                                 ELSE Redirect(toSubdomainURL(d.gw, d.ns, label[1]))
                            ELSE ServeRoot(d)
      /\ UNCHANGED <<hTls, hProxy, hWant>>

\* Every other host: its DNSLink, or the path as it is (hostname.go:221-229).
OtherHost ==
  /\ hStatus = "asking" /\ isKnownHostname(hUrl.host) = <<>> /\ knownSubdomainDetails(hUrl.host) = <<>>
  /\ IF ~HNoDNSLink /\ isDNSLinkName(hUrl.host) THEN ServeHost
     ELSE IF hUrl.ns = "" THEN Refuse("notfound") ELSE Serve(hUrl.ns, hUrl.id)
  /\ UNCHANGED <<hTls, hProxy, hWant>>

Answer == KnownGateway \/ SubdomainGateway \/ OtherHost

-----------------------------------------------------------------------------
(* The user agent.                                                           *)

Ask(url, want) ==
  /\ hStatus = "idle"
  /\ hUrl' = url /\ hWant' = want
  /\ hTls' \in BOOLEAN /\ hProxy' \in HProxies
  /\ hGot' = Nothing /\ hHop' = FALSE /\ hStatus' = "asking"

\* A content path of some host, a host by itself, or a subdomain typed in.
AskPath == \E host \in HHosts, ns \in Namespaces \ {"ipld"}, id \in HIds :
             Ask([host |-> host, ns |-> ns, id |-> id], [ns |-> ns, id |-> id])
AskHost == \E host \in HHosts \cup HNames : Ask([host |-> host, ns |-> "", id |-> <<>>], [ns |-> "ipns", id |-> host])
AskSubdomain == \E gw \in HSubs, ns \in Namespaces, id \in HIds :
             Ask([host |-> id \o <<<<ns>>>> \o gw, ns |-> "", id |-> <<>>], [ns |-> ns, id |-> id])

HNext == AskPath \/ AskHost \/ AskSubdomain \/ Answer

HSpecF == HInit /\ [][HNext]_hVars /\ WF_hVars(Answer)

-----------------------------------------------------------------------------
(* Properties.                                                               *)

SameContent(a, b) ==
  /\ a.ns = b.ns
  /\ IF IsCid(a.id) THEN IsCid(b.id) /\ Hash(a.id) = Hash(b.id) ELSE a.id = b.id

\* However often the user agent was redirected, the path that is finally
\* served is the content the first URL asked for: the same namespace and the
\* same hash or name, whatever was done to its spelling.  A path asked of a
\* host that is itself a DNSLink name is a path below that name.
OriginKept ==
  hStatus = "served" => \/ SameContent(hGot, hWant)
                        \/ hGot = [ns |-> "ipns", id |-> hUrl.host] /\ hUrl.host \in HNames

\* A redirect only names hosts that survive DNS and user agents: a CID in it
\* is written in a base without upper case and fits in a label.
RedirectsFitDNS ==
  [][ hHop' # hHop /\ hStatus = "asking" =>
        LET id == SubSeq(hUrl'.host, 1, 1)
        IN  DecodesAsCid(id) => Enc(id) # "b58" /\ LabelLength(Hash(id), Enc(id)) <= dnsLabelMaxLength ]_hVars

\* Content addressed by key is served only under the codec of keys, so that a
\* key has one origin however its URL was spelled.
KeysHaveKeyCodec ==
  hStatus = "served" /\ knownSubdomainDetails(hUrl.host) # <<>> /\ isPeerIDNamespace(hGot.ns) /\ DecodesAsCid(hGot.id)
    => Codec(hGot.id) = "libp2p-key"

\* A user agent that follows redirects gets an answer.
Begun == hStatus = "asking"
RedirectsEnd == Begun ~> ~Begun
=============================================================================
