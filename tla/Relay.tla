--------------------------------- MODULE Relay ---------------------------------
(***************************************************************************)
(* The hosted relay: a UDP server that passes the encrypted datagrams of   *)
(* one side of a session to the other, and the clients that wrap them.     *)
(* A signed, short-lived token names a session; each side of it is bound   *)
(* to the first address that presents the token.  One loop owns the        *)
(* routing table: it takes a datagram, sweeps the table if a sweep is due, *)
(* checks token, address and quota, and sends the datagram on or drops it. *)
(*                                                                         *)
(* The network may lose, duplicate, delay and reorder datagrams, so all    *)
(* that matters of it is who has ever sent: the relay may receive any      *)
(* datagram of an opened client, at any time, any number of times.  A      *)
(* client is one socket, that is one address: a side that reopens, or      *)
(* whose NAT gives it another port, is another client with the same token. *)
(*                                                                         *)
(* Time is a counter of ticks and sizes are small numbers: Rate is what a  *)
(* session may send in one tick.                                           *)
(***************************************************************************)
EXTENDS Integers, FiniteSets

CONSTANTS
  Clients,       \* sockets
  Token,         \* [Clients -> the token the client holds]
  Side,          \* [Clients -> its side]
  Tokens, Moon, Comet,
  Signed,        \* the tokens that carry the relay's signature
  Expiry,        \* [Tokens -> time]
  NoClient,
  NoToken, NoSession,
  Rate, Burst,   \* bytes per tick, and at once
  Idle,          \* SessionIdleTimeout
  Interval,      \* cleanupInterval
  Sizes,         \* payload sizes; 0 is a registration
  MaxTime, MaxRestarts  \* bounds

ASSUME RelayAssumption ==
  /\ Token \in [Clients -> Tokens] /\ Side \in [Clients -> {Moon, Comet}]
  /\ Moon # Comet /\ NoClient \notin Clients /\ NoToken \notin Tokens
  /\ IsFiniteSet(Tokens)
  /\ NoSession \notin [addr : [{Moon, Comet} -> Clients \cup {NoClient}], seen : Nat, tokens : Nat, last : Nat]
  /\ Signed \subseteq Tokens /\ Expiry \in [Tokens -> Nat]
  /\ Rate \in Nat /\ Burst \in Nat /\ Idle \in Nat \ {0} /\ Interval \in Nat \ {0}
  /\ Sizes \subseteq Nat
  /\ MaxTime \in Nat /\ MaxRestarts \in Nat

VARIABLES
  now,
  opened,        \* the clients whose socket is open
  sessions,      \* [Tokens -> [addr : [side -> client], seen, tokens, last] or NoSession]
  active,        \* the gauge of live sessions
  nextCleanup,
  heard,         \* history: when the relay last took a datagram
  watched,       \* history: the token an observer has begun to watch, or NoToken
  since, passed, \* history: from when, and the bytes the quota let through since
  delivered,     \* history: pairs of clients, sender first, in sessions that live
  restarts       \* history

relayVars == <<now, opened, sessions, active, nextCleanup, heard, watched, since,
               passed, delivered, restarts>>

-----------------------------------------------------------------------------
Other(side) == IF side = Moon THEN Comet ELSE Moon

RelayInit ==
  /\ now = 0 /\ opened = {}
  /\ sessions = [t \in Tokens |-> NoSession]
  /\ active = 0 /\ nextCleanup = 0 /\ heard = 0
  /\ watched = NoToken /\ since = 0 /\ passed = 0
  /\ delivered = {} /\ restarts = 0

-----------------------------------------------------------------------------
(***************************************************************************)
(* Mutated forms; see the end of the module for what they break.           *)
(***************************************************************************)
\* The bucket is refilled and not capped.
Refilled_Unbounded(s) == s.tokens + Rate * (now - s.last)

\* Only idle sessions are swept: those of dead tokens wait for their silence.
Stale_IdleOnly(t) == now - sessions[t].seen > Idle

\* A side moves to the address that sends.
Bound_Latest(s, c) == [s EXCEPT !.addr[Side[c]] = c]

-----------------------------------------------------------------------------
\* Token.Valid.
Valid(t) == t \in Signed /\ now < Expiry[t]

\* The condition of the sweep.
Stale(t) == now >= Expiry[t] \/ now - sessions[t].seen > Idle

\* The sessions the sweep of this datagram removes.
Swept == IF now < nextCleanup THEN {}
         ELSE {t \in Tokens : sessions[t] # NoSession /\ Stale(t)}

Fresh == [addr |-> [d \in {Moon, Comet} |-> NoClient], seen |-> now, tokens |-> Burst, last |-> now]

\* The session of a valid datagram: found or made, and just heard from.
Found(t) == IF sessions[t] = NoSession \/ t \in Swept THEN Fresh
            ELSE [sessions[t] EXCEPT !.seen = now]

\* The first address of a side is kept.
Bound(s, c) == IF s.addr[Side[c]] = NoClient THEN [s EXCEPT !.addr[Side[c]] = c] ELSE s

\* tokenBucket.allow: what the bucket holds after the time that went by.
Refilled(s) ==
  LET full == s.tokens + Rate * (now - s.last)
  IN IF full > Burst THEN Burst ELSE full

Allowed(s, size) == size <= Refilled(s)
Charged(s, size) == [s EXCEPT !.tokens = Refilled(s) - (IF Allowed(s, size) THEN size ELSE 0),
                              !.last = now]

\* The table after the sweep and with t as the session of this datagram.
Without(gone) == [t \in Tokens |-> IF t \in gone THEN NoSession ELSE sessions[t]]

\* What every datagram does: the sweep, its gauge and its next time.
Take(table) ==
  /\ heard' = now
  /\ nextCleanup' = IF now < nextCleanup THEN nextCleanup ELSE now + Interval
  /\ sessions' = table
  /\ active' = active - Cardinality(Swept)
             + Cardinality({t \in Tokens : table[t] # NoSession /\ Without(Swept)[t] = NoSession})
  /\ UNCHANGED <<now, opened, restarts>>

\* Pairs that belong to a session still there.
Kept == {p \in delivered : Token[p[1]] \notin Swept}

\* A valid datagram of client c leaves its session as s.
Settle(c, s) ==
  /\ Take([Without(Swept) EXCEPT ![Token[c]] = s])
  /\ UNCHANGED <<watched, since>>

Session(c) == Bound(Found(Token[c]), c)
Arrives(c) == c \in opened /\ Valid(Token[c])
AtItsPlace(c) == Session(c).addr[Side[c]] = c
Peer(c) == Session(c).addr[Other(Side[c])]

-----------------------------------------------------------------------------
\* ParseEndpoint and ListenPacket: the client sees the expiry of its token, not its
\* signature.  The registration it sends is a datagram like others.
Open(c) ==
  /\ c \notin opened /\ now < Expiry[Token[c]]
  /\ opened' = opened \cup {c}
  /\ UNCHANGED <<now, sessions, active, nextCleanup, heard, watched, since, passed,
                 delivered, restarts>>

\* The envelope is broken, or its token forged or expired.
DropInvalid(c) ==
  /\ c \in opened /\ ~Valid(Token[c])
  /\ Take(Without(Swept))
  /\ delivered' = Kept
  /\ UNCHANGED <<watched, since, passed>>

\* Another address has this side already.  The session has been heard from all
\* the same.
DropMisplaced(c) ==
  /\ Arrives(c) /\ ~AtItsPlace(c)
  /\ Settle(c, Session(c))
  /\ delivered' = Kept
  /\ UNCHANGED passed

\* An empty payload binds its side and is not passed on.
Register(c) ==
  /\ Arrives(c) /\ AtItsPlace(c)
  /\ Settle(c, Session(c))
  /\ delivered' = Kept
  /\ UNCHANGED passed

\* The quota of the session is used up.
DropOverQuota(c, size) ==
  /\ Arrives(c) /\ AtItsPlace(c) /\ size > 0
  /\ ~Allowed(Session(c), size)
  /\ Settle(c, Charged(Session(c), size))
  /\ delivered' = Kept
  /\ UNCHANGED passed

\* The quota is charged before the loop looks for the other side and writes.
Charge(c, size) ==
  /\ Arrives(c) /\ AtItsPlace(c) /\ size > 0
  /\ Allowed(Session(c), size)
  /\ Settle(c, Charged(Session(c), size))
  /\ passed' = IF Token[c] = watched THEN passed + size ELSE passed

\* The other side is not there, or the write to it fails.
DropUndeliverable(c, size) ==
  /\ Charge(c, size)
  /\ delivered' = Kept

\* PacketConn.ReadFrom: the peer takes a payload of its own session's other side.
Reads(peer, c) == Token[peer] = Token[c] /\ Side[c] = Other(Side[peer])

\* The datagram is passed on as it came.
Forward(c, size) ==
  /\ Peer(c) # NoClient
  /\ Charge(c, size)
  /\ delivered' = Kept \cup (IF Reads(Peer(c), c) THEN {<<c, Peer(c)>>} ELSE {})

\* The relay stops and starts again: Serve begins with an empty table, and the
\* counters with nothing.
Restart ==
  /\ restarts < MaxRestarts
  /\ restarts' = restarts + 1
  /\ sessions' = [t \in Tokens |-> NoSession] /\ active' = 0
  /\ nextCleanup' = now /\ heard' = now
  /\ watched' = NoToken /\ since' = now /\ passed' = 0
  /\ delivered' = {}
  /\ UNCHANGED <<now, opened>>

\* History only: someone begins to count the bytes of a token.
Watch(t) ==
  /\ watched = NoToken
  /\ watched' = t /\ since' = now /\ passed' = 0
  /\ UNCHANGED <<now, opened, sessions, active, nextCleanup, heard, delivered, restarts>>

Tick ==
  /\ now < MaxTime
  /\ now' = now + 1
  /\ UNCHANGED <<opened, sessions, active, nextCleanup, heard, watched, since, passed,
                 delivered, restarts>>

RelayNext ==
  \/ \E c \in Clients :
       \/ Open(c) \/ DropInvalid(c) \/ DropMisplaced(c) \/ Register(c)
       \/ \E size \in Sizes : DropOverQuota(c, size) \/ DropUndeliverable(c, size) \/ Forward(c, size)
  \/ \E t \in Tokens : Watch(t)
  \/ Restart \/ Tick

RelaySpec == RelayInit /\ [][RelayNext]_relayVars

-----------------------------------------------------------------------------
SessionRecords == [addr : [{Moon, Comet} -> Clients \cup {NoClient}], seen : Nat, tokens : Nat, last : Nat]

\* The table, its gauge and the clock have their types.
RelayTypeOK ==
  /\ now \in Nat /\ opened \subseteq Clients
  /\ sessions \in [Tokens -> SessionRecords \cup {NoSession}]
  /\ active = Cardinality({t \in Tokens : sessions[t] # NoSession})
  /\ nextCleanup \in Nat /\ heard \in 0..now
  /\ watched \in Tokens \cup {NoToken} /\ since \in 0..now /\ passed \in Nat
  /\ delivered \subseteq Clients \X Clients /\ restarts \in 0..MaxRestarts

\* What a token can spend in one idle time beyond the burst it begins with: what
\* its bucket earns then, or the new bucket that a session swept for its silence
\* leaves to the next one, whichever is more.
Pace == IF Rate * Idle >= Burst THEN Rate * Idle ELSE Burst

\* From whatever moment one watches a token, it carries no more than one burst
\* and its pace over the time gone by, however its session is dropped by a sweep
\* and begun anew in between.  With the defaults of the code the pace is the rate:
\* 10 Mbit/s for 10 minutes is well above 4 MiB.
WithinQuota ==
  watched # NoToken => Idle * passed <= Idle * Burst + Pace * (now - since)

\* While a session lives a client hears one peer and one client only hears it:
\* no second holder of the token ever gets a share of the conversation.
OnePairOnly ==
  \A p, q \in delivered :
    Token[p[1]] = Token[q[1]] => \/ p = q
                                 \/ p = <<q[2], q[1]>>

\* Whatever comes in, no session outlives its token, or its last datagram and
\* the idle time, by more than one interval of the sweep.
StaleSessionsGo ==
  \A t \in Tokens : sessions[t] # NoSession =>
    /\ heard < Expiry[t] + Interval
    /\ heard - sessions[t].seen < Idle + Interval

RelaySessionsSound == OnePairOnly /\ StaleSessionsGo
=============================================================================
