---------------------------- MODULE MeshTransport ----------------------------
(***************************************************************************)
(* The stream transport of the mesh (QUIC under mutual TLS) and the dialer *)
(* that tries a peer's routes in order.  Dials, listens, accepts and the   *)
(* closing of the transport run concurrently; one mutex guards the flag    *)
(* that it is closed and the table of the closers it has yet to run, and   *)
(* is held only for a look or a change, never over a handshake.            *)
(*                                                                         *)
(* quic-go is external: a handshake ends with an authenticated peer or in  *)
(* an error, a stream is opened or not.  A call owns one handle, the QUIC  *)
(* connection (or listener) it is making; a dial that fails on one route   *)
(* makes another on the next.  The UDP socket under a relay route is not   *)
(* part of the handle: the code hands it to quic-go, whose Transport does  *)
(* not close a socket it was given, and closes it nowhere itself.          *)
(***************************************************************************)
EXTENDS Integers, Sequences

CONSTANTS
  Dials, Listens, Accepts,  \* calls
  ListenerOf,     \* [Accepts -> Listens]
  Candidate,      \* [Dials -> [peer, sameLAN, direct, overlay, hints]]
  Peers, AnyPeer, \* AnyPeer: an empty PeerID
  Addresses, NoAddr, NoChoice,
  TLSReady,       \* the configuration passes clientTLS and serverTLS
  WellFormed      \* the addresses ParseEndpoint or directAddress takes

Calls == Dials \cup Listens \cup Accepts

ASSUME TransportAssumption ==
  /\ Dials \cap Listens = {} /\ Dials \cap Accepts = {} /\ Listens \cap Accepts = {}
  /\ ListenerOf \in [Accepts -> Listens]
  /\ AnyPeer \notin Peers
  /\ Candidate \in [Dials -> [peer : Peers \cup {AnyPeer}, sameLAN : BOOLEAN,
                              direct : Addresses \cup {NoAddr}, overlay : Addresses \cup {NoAddr},
                              hints : Seq(Addresses \cup {NoAddr})]]
  /\ TLSReady \in BOOLEAN

VARIABLES
  closed,       \* the flag
  registered,   \* the calls whose handle has its closer in closeFunc
  closing,      \* "no", "running" or "done": the Close that set the flag
  closers,      \* those it has yet to run
  pc,           \* [Calls -> stage]
  route,        \* [Dials -> the route it tries, one of its candidatePaths]
  raw,          \* [Calls -> "none", "open" or "closed"], the handle
  peer,         \* [Calls -> the peer its connection authenticated]
  cancelled,    \* calls whose context is done
  unregistering \* calls whose handle's user has closed it, not yet removed

transportVars == <<closed, registered, closing, closers, pc, route, raw, peer,
                   cancelled, unregistering>>
closingVars == <<closed, closing, closers>>

Stages == {"idle", "check", "handshake", "identify", "stream", "register", "failed", "returned", "error"}
Ended  == {"returned", "error"}

-----------------------------------------------------------------------------
(***************************************************************************)
(* The routes to a peer.                                                   *)
(***************************************************************************)
Choice(strategy, endpoint) == [strategy |-> strategy, endpoint |-> endpoint]

\* A peer's address on the LAN; old callers leave it to the peer's name.
LANAddr(c) == IF c.direct = NoAddr THEN c.peer ELSE c.direct

\* DefaultPathStrategy.Select, for candidates in the order of preference: the
\* first with a route of any kind.
Select(candidates) ==
  LET usable(i) == candidates[i].sameLAN \/ candidates[i].overlay # NoAddr \/ candidates[i].hints # <<>>
      c == candidates[CHOOSE i \in DOMAIN candidates : usable(i) /\ \A j \in 1..i - 1 : ~usable(j)]
  IN IF \A i \in DOMAIN candidates : ~usable(i) THEN NoChoice
     ELSE IF c.sameLAN THEN Choice("direct-lan", LANAddr(c))
     ELSE IF c.overlay # NoAddr THEN Choice("overlay-wg", c.overlay)
     ELSE Choice("planet-relay", c.hints[1])

\* What may be a route to a peer, the overlay before the LAN.
Routes_OverlayFirst(c) ==
  <<Choice("overlay-wg", c.overlay), Choice("direct-lan", LANAddr(c))>>
    \o [i \in DOMAIN c.hints |-> Choice("planet-relay", c.hints[i])]

\* What may be a route to a peer, the cheapest first.
Routes(c) ==
  <<Choice("direct-lan", LANAddr(c)), Choice("overlay-wg", c.overlay)>>
    \o [i \in DOMAIN c.hints |-> Choice("planet-relay", c.hints[i])]

\* candidatePaths, as the places in Routes: those that have an address, and of the
\* LAN's if the peer is on it.
candidatePaths(c) ==
  {i \in DOMAIN Routes(c) :
     IF Routes(c)[i].strategy = "direct-lan" THEN c.sameLAN /\ LANAddr(c) # AnyPeer
                                             ELSE Routes(c)[i].endpoint # NoAddr}

Paths(d) == candidatePaths(Candidate[d])
Path(d)  == Routes(Candidate[d])[route[d]]
Expected(d) == Candidate[d].peer

-----------------------------------------------------------------------------
TransportInit ==
  /\ closed = FALSE /\ registered = {} /\ closing = "no" /\ closers = {}
  /\ pc = [c \in Calls |-> "idle"]
  /\ route = [d \in Dials |-> 0]
  /\ raw = [c \in Calls |-> "none"]
  /\ peer = [c \in Calls |-> AnyPeer]
  /\ cancelled = {} /\ unregistering = {}

Goes(c, stage) == pc' = [pc EXCEPT ![c] = stage]
After(c, stage) == pc[c] = stage

\* register, without the look at the flag.
Registered_Unchecked(c) == registered' = registered \cup {c} /\ raw' = raw

\* register: a transport that was closed meanwhile closes the handle at once.
Registered(c) ==
  IF closed THEN raw' = [raw EXCEPT ![c] = "closed"] /\ UNCHANGED registered
            ELSE registered' = registered \cup {c} /\ UNCHANGED raw

-----------------------------------------------------------------------------
\* The dial goes on to the next of its routes.
Left(d) == {i \in Paths(d) : route[d] < i}
Takes(d) == \E i \in Left(d) :
  /\ \A j \in Left(d) : i <= j
  /\ route' = [route EXCEPT ![d] = i]

\* FallbackDialer.Dial begins, with the first route if there is one.
BeginDial(d) ==
  /\ After(d, "idle")
  /\ IF Paths(d) = {} THEN Goes(d, "error") /\ UNCHANGED route
     ELSE Goes(d, "check") /\ Takes(d)
  /\ UNCHANGED <<closingVars, registered, raw, peer, cancelled, unregistering>>

BeginListen(l) ==
  /\ After(l, "idle")
  /\ Goes(l, "check")
  /\ UNCHANGED <<closingVars, registered, route, raw, peer, cancelled, unregistering>>

\* Dial and Listen: the TLS configuration, ensureOpen and the address.
Check(c) ==
  /\ After(c, "check")
  /\ Goes(c, IF TLSReady /\ ~closed /\ (c \in Dials => Path(c).endpoint \in WellFormed)
             THEN "handshake" ELSE "failed")
  /\ UNCHANGED <<closingVars, registered, route, raw, peer, cancelled, unregistering>>

\* The handshake of a dial: a connection to some peer, named by its certificate.
Handshake(d, p) ==
  /\ d \in Dials /\ After(d, "handshake")
  /\ raw' = [raw EXCEPT ![d] = "open"]
  /\ peer' = [peer EXCEPT ![d] = p]
  /\ Goes(d, "identify")
  /\ UNCHANGED <<closingVars, registered, route, cancelled, unregistering>>

\* The socket of a listener.
Bind(l) ==
  /\ l \in Listens /\ After(l, "handshake")
  /\ raw' = [raw EXCEPT ![l] = "open"]
  /\ Goes(l, "register")
  /\ UNCHANGED <<closingVars, registered, route, peer, cancelled, unregistering>>

\* Neither came about, or the context was done before.
NoHandshake(c) ==
  /\ After(c, "handshake")
  /\ Goes(c, "failed")
  /\ UNCHANGED <<closingVars, registered, route, raw, peer, cancelled, unregistering>>

\* Another peer than was asked for is hung up on.
Identify(d) ==
  /\ After(d, "identify")
  /\ IF Expected(d) \in {AnyPeer, peer[d]} THEN Goes(d, "stream") /\ UNCHANGED raw
     ELSE Goes(d, "failed") /\ raw' = [raw EXCEPT ![d] = "closed"]
  /\ UNCHANGED <<closingVars, registered, route, peer, cancelled, unregistering>>

\* OpenStreamSync of a dial, AcceptStream of an accept.
Stream(c) ==
  /\ After(c, "stream")
  /\ \/ Goes(c, "register") /\ UNCHANGED raw
     \/ Goes(c, "failed") /\ raw' = [raw EXCEPT ![c] = "closed"]
  /\ UNCHANGED <<closingVars, registered, route, peer, cancelled, unregistering>>

\* The call returns its handle, which is closed if the transport is.
Return(c) ==
  /\ After(c, "register")
  /\ Registered(c)
  /\ Goes(c, "returned")
  /\ UNCHANGED <<closingVars, route, peer, cancelled, unregistering>>

\* A dial that failed takes the next route, unless its context is done.
NextRoute(d) ==
  /\ d \in Dials /\ After(d, "failed")
  /\ d \notin cancelled /\ Takes(d)
  /\ Goes(d, "check")
  /\ UNCHANGED <<closingVars, registered, raw, peer, cancelled, unregistering>>

\* No route is left, or the call has only one attempt.
GiveUp(c) ==
  /\ After(c, "failed")
  /\ c \in Dials => c \in cancelled \/ Left(c) = {}
  /\ Goes(c, "error")
  /\ UNCHANGED <<closingVars, registered, route, raw, peer, cancelled, unregistering>>

\* listener.Accept: a peer has connected.  The connection is not in the table yet.
Accept(a, p) ==
  /\ a \in Accepts /\ After(a, "idle")
  /\ raw[ListenerOf[a]] = "open" /\ After(ListenerOf[a], "returned")
  /\ raw' = [raw EXCEPT ![a] = "open"]
  /\ peer' = [peer EXCEPT ![a] = p]
  /\ Goes(a, "stream")
  /\ UNCHANGED <<closingVars, registered, route, cancelled, unregistering>>

\* The listener is closed, or the context done.
AcceptFails(a) ==
  /\ a \in Accepts /\ After(a, "idle")
  /\ \/ raw[ListenerOf[a]] = "closed" /\ After(ListenerOf[a], "returned")
     \/ a \in cancelled
  /\ Goes(a, "error")
  /\ UNCHANGED <<closingVars, registered, route, raw, peer, cancelled, unregistering>>

Cancel(c) ==
  /\ pc[c] \notin Ended /\ c \notin cancelled
  /\ cancelled' = cancelled \cup {c}
  /\ UNCHANGED <<closingVars, registered, pc, route, raw, peer, unregistering>>

-----------------------------------------------------------------------------
\* Transport.Close under the mutex: the flag, and a copy of the closers.
BeginClose ==
  /\ ~closed
  /\ closed' = TRUE /\ closing' = "running"
  /\ closers' = registered /\ registered' = {}
  /\ UNCHANGED <<pc, route, raw, peer, cancelled, unregistering>>

\* It runs the closers without the mutex, in no order.
RunCloser(c) ==
  /\ c \in closers
  /\ raw' = [raw EXCEPT ![c] = "closed"]
  /\ closers' = closers \ {c}
  /\ UNCHANGED <<closed, registered, closing, pc, route, peer, cancelled, unregistering>>

EndClose ==
  /\ closing = "running" /\ closers = {}
  /\ closing' = "done"
  /\ UNCHANGED <<closed, closers, registered, pc, route, raw, peer, cancelled, unregistering>>

\* A user closes the connection or listener it was given,
CloseHandle(c) ==
  /\ After(c, "returned") /\ raw[c] = "open"
  /\ raw' = [raw EXCEPT ![c] = "closed"]
  /\ unregistering' = unregistering \cup {c}
  /\ UNCHANGED <<closingVars, registered, pc, route, peer, cancelled>>

\* and the handle leaves the table.
Unregister(c) ==
  /\ c \in unregistering
  /\ registered' = registered \ {c}
  /\ unregistering' = unregistering \ {c}
  /\ UNCHANGED <<closingVars, pc, route, raw, peer, cancelled>>

-----------------------------------------------------------------------------
\* The steps of a call that quic-go takes.
External(c) ==
  \/ \E p \in Peers : Handshake(c, p)
  \/ Bind(c) \/ NoHandshake(c) \/ Stream(c)

TransportNext ==
  \/ \E d \in Dials : BeginDial(d) \/ Identify(d) \/ NextRoute(d)
  \/ \E l \in Listens : BeginListen(l)
  \/ \E c \in Calls : \/ Check(c) \/ External(c) \/ Return(c) \/ GiveUp(c)
                      \/ Cancel(c) \/ CloseHandle(c) \/ Unregister(c) \/ RunCloser(c)
  \/ \E a \in Accepts : AcceptFails(a) \/ \E p \in Peers : Accept(a, p)
  \/ BeginClose \/ EndClose

TransportSpec == TransportInit /\ [][TransportNext]_transportVars

-----------------------------------------------------------------------------
\* The calls and the table of closers have their types.
TransportTypeOK ==
  /\ closed \in BOOLEAN /\ registered \subseteq Calls
  /\ closing \in {"no", "running", "done"} /\ closers \subseteq Calls
  /\ pc \in [Calls -> Stages] /\ route \in [Dials -> Nat]
  /\ raw \in [Calls -> {"none", "open", "closed"}]
  /\ peer \in [Calls -> Peers \cup {AnyPeer}]
  /\ cancelled \subseteq Calls /\ unregistering \subseteq Calls

\* Nothing outlives the transport, and nothing a failed call made outlives it:
\* once Close has returned, a connection that is still open belongs to a call
\* that is about to close it; an open connection nobody was given belongs to a
\* call under way.  This is about QUIC connections and listeners; the sockets of
\* relay routes, once registered with the relay, are left open by every path.
NothingLeaks ==
  \A c \in Calls :
    /\ raw[c] = "open" /\ pc[c] \in Ended => pc[c] = "returned" /\ c \in registered \cup closers
    /\ closing = "done" /\ pc[c] \in Ended => raw[c] # "open"

\* A candidate without the routes of a set, and without those that have no address;
\* of the relays, the first that is left.
WithoutRoutes(c, bad) ==
  LET left == {i \in DOMAIN c.hints : c.hints[i] # NoAddr /\ Choice("planet-relay", c.hints[i]) \notin bad}
  IN [c EXCEPT
       !.sameLAN = @ /\ LANAddr(c) # AnyPeer /\ Choice("direct-lan", LANAddr(c)) \notin bad,
       !.overlay = IF Choice("overlay-wg", @) \in bad THEN NoAddr ELSE @,
       !.hints   = IF left = {} THEN <<>> ELSE <<@[CHOOSE i \in left : \A j \in left : i <= j]>>]

\* The routes a dial has tried; one that is listed twice may fail and work then.
Tried(d) == {Routes(Candidate[d])[i] : i \in {j \in Paths(d) : j < route[d]}} \ {Path(d)}

\* A dial that succeeded went by the route PathStrategy would have chosen had it
\* known the routes that fail, and reached the peer it was asked for.
CheapestRouteWins ==
  \A d \in Dials : pc[d] = "returned" =>
    /\ Path(d) = Select(<<WithoutRoutes(Candidate[d], Tried(d))>>)
    /\ Expected(d) \in {AnyPeer, peer[d]}
=============================================================================
