------------------------------ MODULE UrlFetch ------------------------------
(***************************************************************************)
(* URLFetcher (internal/api/urlfetch.go): a GET that follows redirects,    *)
(* within limits on whom it talks to, how often, how long and how much it  *)
(* reads.  The names, the resolver and the servers are the environment: a  *)
(* name may resolve differently at each lookup, and a server may answer    *)
(* anything or nothing.  Connections that are kept alive are used again    *)
(* without a lookup, by later hops and by later requests.                  *)
(***************************************************************************)
EXTENDS Integers, Sequences

CONSTANTS
  Hosts, BlockedHosts,  \* names, and those isBlockedHost refuses
  IPs, BlockedIPs,      \* addresses, and those isBlockedIP refuses
  MaxRequests,          \* len(via) at which CheckRedirect gives up: 5
  FetchLimit,           \* maxURLResponseSize
  Sizes,                \* bound: the sizes of bodies
  MaxAddresses,         \* bound: addresses in one answer of the resolver
  Nowhere               \* no host, no address

ASSUME FetchAssumption ==
  /\ Nowhere \notin Hosts \cup IPs
  /\ BlockedHosts \subseteq Hosts /\ BlockedIPs \subseteq IPs
  /\ MaxRequests \in Nat \ {0} /\ FetchLimit \in Nat /\ MaxAddresses \in Nat
  /\ Sizes \subseteq Nat

VARIABLES
  stage,  \* where Fetch is; it has returned when "idle"
  host,   \* whom the request in hand is for
  peer,   \* the address it is sent to
  sent,   \* requests sent, len(via) at the next redirect
  idle,   \* connections kept alive: pairs of a host and an address
  body    \* what the last Fetch returned: bytes sent and bytes kept; 0 is an error

fetchVars == <<stage, host, peer, sent, idle, body>>

Failed == [sent |-> 0, kept |-> 0]

FetchTypeOK ==
  /\ stage \in {"idle", "connect", "exchange", "body"}
  /\ host \in Hosts \cup {Nowhere} /\ peer \in IPs \cup {Nowhere}
  /\ sent \in 0..MaxRequests
  /\ idle \subseteq Hosts \X IPs
  /\ body \in [sent : Nat, kept : Nat]

FetchInit ==
  /\ stage = "idle" /\ host = Nowhere /\ peer = Nowhere /\ sent = 0
  /\ idle = {} /\ body = Failed

-----------------------------------------------------------------------------
\* isBlockedHost: localhost, private prefixes and names of metadata services.
BlockedHost(h) == h \in BlockedHosts

\* isBlockedIP: loopback, private, link-local, multicast, metadata services.
BlockedIP(a) == a \in BlockedIPs

Return(b) ==
  stage' = "idle" /\ host' = Nowhere /\ peer' = Nowhere /\ sent' = 0 /\ body' = b

Fail == Return(Failed)

\* The connection goes back to the pool, if it was read to its end, or is closed.
Release == idle' \in {idle, idle \cup {<<host, peer>>}}

\* A request for h comes next.
Ask(h) == stage' = "connect" /\ host' = h /\ peer' = Nowhere

\* Fetch: a URL that cannot be parsed, of another scheme, or of a blocked host
\* is refused before anything is sent.
Fetch ==
  /\ stage = "idle"
  /\ \/ Fail
     \/ \E h \in Hosts : ~BlockedHost(h) /\ Ask(h) /\ sent' = 0 /\ body' = Failed
  /\ UNCHANGED idle

\* Mutant: DialContext(ctx, network, addr), which looks the name up again.
MutDial(ips) == IF \E i \in DOMAIN ips : BlockedIP(ips[i]) THEN {} ELSE IPs

\* Where DialContext connects to when the lookup says ips: to the first of
\* them, and nowhere when one of them is blocked.
Dial(ips) == IF \E i \in DOMAIN ips : BlockedIP(ips[i]) THEN {} ELSE {ips[1]}

Resolved == UNION {[1..n -> IPs] : n \in 1..MaxAddresses}

\* client.Do, a hop: over a connection kept alive or a new one.
Connect ==
  /\ stage = "connect"
  /\ \/ \E c \in idle :
          /\ c[1] = host
          /\ peer' = c[2] /\ idle' = idle \ {c}
          /\ stage' = "exchange" /\ sent' = sent + 1 /\ UNCHANGED <<host, body>>
     \/ \E ips \in Resolved :
          /\ IF Dial(ips) = {} THEN Fail
             ELSE /\ peer' \in Dial(ips)
                  /\ stage' = "exchange" /\ sent' = sent + 1 /\ UNCHANGED <<host, body>>
          /\ UNCHANGED idle
     \/ Fail /\ UNCHANGED idle  \* no address, or nobody there

\* Mutant: the limit is checked after the request is counted once more.
MutTooMany == sent > MaxRequests

TooMany == sent >= MaxRequests

\* CheckRedirect: a redirect to h is followed, or ends the fetch.
Redirect ==
  /\ stage = "exchange"
  /\ \E h \in Hosts :
       IF TooMany \/ BlockedHost(h) THEN Fail ELSE Ask(h) /\ UNCHANGED <<sent, body>>
  /\ Release

\* A final answer is read on if it is a 200 of a JSON, YAML or no type.
Accept ==
  /\ stage = "exchange"
  /\ \/ stage' = "body" /\ UNCHANGED <<host, peer, sent, body>>
     \/ Fail
  /\ UNCHANGED idle

\* Mutant: the LimitReader admits no byte over limit.
MutReadUpTo(limit, n) == IF n > limit THEN limit ELSE n

\* What is read of n bytes through a LimitReader that admits one over limit.
ReadUpTo(limit, n) == IF n > limit THEN limit + 1 ELSE n

\* io.ReadAll of the body, and the checks of its size.
ReadBody ==
  /\ stage = "body"
  /\ \E n \in Sizes :
       LET kept == ReadUpTo(FetchLimit, n)
       IN  IF kept > FetchLimit \/ kept = 0 THEN Fail ELSE Return([sent |-> n, kept |-> kept])
  /\ Release

\* Mutant: a timeout that ends with the headers (ResponseHeaderTimeout).
MutTimedStages == {"connect", "exchange"}

\* http.Client.Timeout runs until the body is read.
TimedStages == {"connect", "exchange", "body"}

\* The timeout, or a connection that breaks.
Timeout == stage \in TimedStages /\ Fail /\ UNCHANGED idle

\* IdleConnTimeout, or the server hangs up.
Hangup == \E c \in idle : idle' = idle \ {c} /\ UNCHANGED <<stage, host, peer, sent, body>>

FetchSteps == Connect \/ Redirect \/ Accept \/ ReadBody \/ Timeout
FetchNext == Fetch \/ FetchSteps \/ Hangup

FetchSpec == FetchInit /\ [][FetchNext]_fetchVars

-----------------------------------------------------------------------------
\* Whatever names resolve to at each lookup, whatever redirects say and
\* whatever connection is used again, no request is for a blocked host and
\* none goes to a blocked address (the two lines of defence of urlfetch.go).
OnlyAllowedPeers ==
  /\ host \notin BlockedHosts
  /\ peer \notin BlockedIPs
  /\ \A c \in idle : c[1] \notin BlockedHosts /\ c[2] \notin BlockedIPs

\* However servers redirect, a fetch sends at most as many requests as
\* CheckRedirect allows, and none of them leaves a body that is cut short.
FetchIsBounded == sent <= MaxRequests /\ body.kept = body.sent /\ body.kept <= FetchLimit
=============================================================================
