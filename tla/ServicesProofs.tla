----------------------------- MODULE ServicesProofs -----------------------------
(***************************************************************************)
(* Proofs about the six models of Services, for every value of their       *)
(* constants that satisfies their assumptions.  Each has a section with    *)
(* its inductive invariant, a lemma for each of its actions, and its       *)
(* theorems; the last section carries them over to the behaviours of       *)
(* Services.                                                               *)
(***************************************************************************)
EXTENDS Services, FunctionTheorems, FiniteSetTheorems, SequenceTheorems, TLAPS

-----------------------------------------------------------------------------
(***************************************************************************)
(* A set in the order of its places.                                       *)
(***************************************************************************)
\* A strict total order on S.
Orders(less, S) ==
  /\ \A x \in S : <<x, x>> \notin less
  /\ \A x, y \in S : x # y => <<x, y>> \in less \/ <<y, x>> \in less
  /\ \A x, y, z \in S : <<x, y>> \in less /\ <<y, z>> \in less => <<x, z>> \in less

\* The place of an element is below the size of the set, and grows in the order.
LEMMA PlaceFacts ==
  ASSUME NEW S, NEW less, IsFiniteSet(S), Orders(less, S)
  PROVE  /\ Cardinality(S) \in Nat
         /\ \A x \in S : Place(S, less, x) \in 0..Cardinality(S) - 1
         /\ \A x, y \in S : <<x, y>> \in less => Place(S, less, x) < Place(S, less, y)
<1> DEFINE Below(x) == {y \in S : <<y, x>> \in less}
<1>1. Cardinality(S) \in Nat
  BY FS_CardinalityType
<1>2. ASSUME NEW x \in S
      PROVE  /\ IsFiniteSet(Below(x)) /\ Cardinality(Below(x)) \in Nat
             /\ Cardinality(Below(x)) < Cardinality(S)
  <2>1. Below(x) \in SUBSET S /\ x \notin Below(x)
    BY DEF Orders
  <2>2. IsFiniteSet(Below(x)) /\ Cardinality(Below(x)) <= Cardinality(S) /\ Cardinality(Below(x)) # Cardinality(S)
    BY <2>1, FS_Subset
  <2> QED
    BY <1>1, <2>2, FS_CardinalityType
<1>3. ASSUME NEW x \in S, NEW y \in S, <<x, y>> \in less
      PROVE  Cardinality(Below(x)) < Cardinality(Below(y))
  <2>1. Below(x) \in SUBSET Below(y) /\ x \in Below(y) /\ x \notin Below(x)
    BY <1>3 DEF Orders
  <2>2. Cardinality(Below(x)) <= Cardinality(Below(y)) /\ Cardinality(Below(x)) # Cardinality(Below(y))
    BY <1>2, <2>1, FS_Subset
  <2>3. Cardinality(Below(x)) \in Nat /\ Cardinality(Below(y)) \in Nat
    BY <1>2
  <2> HIDE DEF Below
  <2> QED
    BY <2>2, <2>3
<1>4. ASSUME NEW x PROVE Place(S, less, x) = Cardinality(Below(x))
  BY DEF Place
<1> HIDE DEF Below
<1>5. \A x \in S : Place(S, less, x) \in 0..Cardinality(S) - 1
  BY <1>1, <1>2, <1>4
<1>6. \A x, y \in S : <<x, y>> \in less => Place(S, less, x) < Place(S, less, y)
  BY <1>3, <1>4
<1> QED
  BY <1>1, <1>5, <1>6

\* An enumeration has every element of the set, once, in the order.
LEMMA EnumerationFacts ==
  ASSUME NEW S, NEW less, IsFiniteSet(S), Orders(less, S)
  PROVE  /\ Cardinality(S) \in Nat
         /\ Enumeration(S, less) \in [1..Cardinality(S) -> S]
         /\ \A x \in S : \E k \in 1..Cardinality(S) : Enumeration(S, less)[k] = x
         /\ \A k, l \in 1..Cardinality(S) :
              k < l <=> <<Enumeration(S, less)[k], Enumeration(S, less)[l]>> \in less
<1> DEFINE n == Cardinality(S)
           P(x) == Place(S, less, x)
           e == Enumeration(S, less)
<1>1. /\ n \in Nat /\ \A x \in S : P(x) \in 0..n - 1
      /\ \A x, y \in S : <<x, y>> \in less => P(x) < P(y)
  BY PlaceFacts
<1> HIDE DEF P, e, n
<1> DEFINE p == [x \in S |-> P(x) + 1]
<1>2. p \in [S -> 1..n] /\ \A x \in S : p[x] = P(x) + 1
  BY <1>1
<1> HIDE DEF p
<1>3. ASSUME NEW x \in S, NEW y \in S, p[x] = p[y] PROVE x = y
  <2>1. P(x) = P(y) /\ P(x) \in Nat
    BY <1>1, <1>2, <1>3
  <2>2. <<x, y>> \notin less /\ <<y, x>> \notin less
    BY <1>1, <2>1
  <2> QED
    BY <2>2 DEF Orders
<1>4. p \in Injection(S, 1..n)
  BY <1>2, <1>3, Fun_IsInj
<1>5. IsFiniteSet(1..n) /\ Cardinality(1..n) = n
  BY <1>1, FS_Interval
<1>6. p \in Surjection(S, 1..n)
  BY <1>4, <1>5, FS_Injection DEF n
<1>7. \A k \in 1..n : \E x \in S : p[x] = k
  BY <1>6, Fun_SurjectionProperties
<1>8. \A k \in 1..n : e[k] \in S /\ P(e[k]) = k - 1
  <2> SUFFICES ASSUME NEW k \in 1..n PROVE e[k] \in S /\ P(e[k]) = k - 1
    OBVIOUS
  <2>1. \E x \in S : P(x) = k - 1
    BY <1>1, <1>2, <1>7
  <2> QED
    BY <2>1 DEF Enumeration, e, n, P
<1>9. e \in [1..n -> S]
  BY <1>8 DEF Enumeration, e, n
<1>10. \A x \in S : \E k \in 1..n : e[k] = x
  <2> SUFFICES ASSUME NEW x \in S PROVE \E k \in 1..n : e[k] = x
    OBVIOUS
  <2>1. P(x) + 1 \in 1..n /\ P(e[P(x) + 1]) = P(x) /\ e[P(x) + 1] \in S
    BY <1>1, <1>8
  <2> QED
    BY <1>2, <1>3, <2>1
<1>11. \A k, l \in 1..n : k < l <=> <<e[k], e[l]>> \in less
  <2> SUFFICES ASSUME NEW k \in 1..n, NEW l \in 1..n PROVE k < l <=> <<e[k], e[l]>> \in less
    OBVIOUS
  <2>1. /\ e[k] \in S /\ e[l] \in S /\ P(e[k]) = k - 1 /\ P(e[l]) = l - 1
    BY <1>8
  <2>2. <<e[k], e[l]>> \in less => k < l
    BY <1>1, <2>1
  <2>3. <<e[l], e[k]>> \in less => l < k
    BY <1>1, <2>1
  <2>4. k < l => e[k] # e[l]
    BY <2>1
  <2>5. k < l => <<e[k], e[l]>> \in less
    BY <2>1, <2>3, <2>4 DEF Orders
  <2> QED
    BY <2>2, <2>5
<1> QED
  BY <1>1, <1>9, <1>10, <1>11 DEF e, n

\* A set of numbers below a bound has a least one.
LEMMA LeastExists ==
  ASSUME NEW n \in Nat, NEW S \in SUBSET (1..n), S # {}
  PROVE  \E m \in S : \A j \in S : m <= j
<1> DEFINE e == Enumeration(S, Ascending(S))
<1>1. IsFiniteSet(S) /\ \A x \in S : x \in Nat
  <2>1. IsFiniteSet(1..n)
    BY FS_Interval
  <2>2. IsFiniteSet(S)
    BY <2>1, FS_Subset
  <2>3. \A x \in 1..n : x \in Nat
    OBVIOUS
  <2> QED
    BY <2>2, <2>3
<1>2. Orders(Ascending(S), S)
  BY <1>1 DEF Orders, Ascending
<1>3. /\ Cardinality(S) \in Nat /\ e \in [1..Cardinality(S) -> S]
      /\ \A x \in S : \E k \in 1..Cardinality(S) : e[k] = x
      /\ \A k, l \in 1..Cardinality(S) : k < l <=> <<e[k], e[l]>> \in Ascending(S)
  BY <1>1, <1>2, EnumerationFacts
<1>7. \A x, y : <<x, y>> \in Ascending(S) => x < y
  BY DEF Ascending
<1> HIDE DEF e
<1>4. 1 \in 1..Cardinality(S)
  <2>1. PICK x \in S : TRUE
    OBVIOUS
  <2>2. PICK k \in 1..Cardinality(S) : e[k] = x
    BY <1>3
  <2> QED
    BY <1>3, <2>2
<1>5. e[1] \in S
  BY <1>3, <1>4
<1>6. ASSUME NEW j \in S PROVE e[1] <= j
  <2>1. PICK k \in 1..Cardinality(S) : e[k] = j
    BY <1>3
  <2>2. CASE k = 1
    BY <1>1, <1>5, <2>1, <2>2
  <2>3. CASE 1 < k
    <3>1. <<e[1], e[k]>> \in Ascending(S)
      BY <1>3, <1>4, <2>3
    <3> QED
      <4>1. e[1] < j
        BY <1>7, <2>1, <3>1
      <4>2. e[1] \in Nat /\ j \in Nat
        BY <1>1, <1>5
      <4> QED
        BY <4>1, <4>2
  <2> QED
    BY <1>3, <2>2, <2>3
<1> QED
  BY <1>5, <1>6

-----------------------------------------------------------------------------
(***************************************************************************)
(* The relay.                                                              *)
(***************************************************************************)
LiveSessions == {t \in Tokens : sessions[t] # NoSession}

\* The types, without the gauge.
RelayTypes ==
  /\ now \in Nat /\ opened \subseteq Clients
  /\ sessions \in [Tokens -> SessionRecords \cup {NoSession}]
  /\ active \in Int /\ nextCleanup \in Nat /\ heard \in 0..now
  /\ watched \in Tokens \cup {NoToken} /\ since \in 0..now /\ passed \in Nat
  /\ delivered \subseteq Clients \X Clients /\ restarts \in 0..MaxRestarts

\* The gauge counts the live sessions.
GaugeCounts == active = Cardinality(LiveSessions)

\* A bucket holds at most a burst and was charged no later than its session was
\* heard from: what an idle bucket has earned since.
BucketsHold ==
  \A t \in LiveSessions : /\ sessions[t].tokens <= Burst
                  /\ sessions[t].last <= sessions[t].seen
                  /\ sessions[t].seen <= now

\* What the last sweep left was neither dead nor idle then, and the next one is
\* due within an interval.
SweepsHold ==
  /\ nextCleanup <= now + Interval
  /\ \A t \in LiveSessions : /\ heard < nextCleanup
                     /\ nextCleanup < Expiry[t] + Interval
                     /\ nextCleanup - sessions[t].seen <= Idle + Interval

\* What the pace allows from one instant to another.
Owed(from, to) == Pace * (to - from)

\* A bucket charged since the watch began was within the quota then, with what it
\* held; through one that was not, nothing has passed.
WithinAt(s, bytes, from) ==
  IF s.last < from THEN bytes = 0
  ELSE Idle * (bytes + s.tokens) <= Idle * Burst + Owed(from, s.last)

\* What was passed is within the quota, and so is a whole new burst on top of it
\* when the watched token has no session but may still begin one.
QuotaKept ==
  watched # NoToken =>
    /\ Idle * passed <= Idle * Burst + Owed(since, now)
    /\ watched \notin LiveSessions /\ now < Expiry[watched] => Idle * passed <= Owed(since, now)
    /\ watched \in LiveSessions => WithinAt(sessions[watched], passed, since)

\* A pair that has talked is the two addresses of its session.
PairOf(p, s) ==
  /\ s.addr[Side[p[1]]] = p[1] /\ s.addr[Side[p[2]]] = p[2]
  /\ Token[p[2]] = Token[p[1]] /\ Side[p[1]] = Other(Side[p[2]])
PairsHold == \A p \in delivered : Token[p[1]] \in LiveSessions /\ PairOf(p, sessions[Token[p[1]]])

RelayIInv == RelayTypes /\ GaugeCounts /\ BucketsHold /\ SweepsHold /\ QuotaKept /\ PairsHold

-----------------------------------------------------------------------------
(***************************************************************************)
(* Arithmetic and sets.                                                    *)
(***************************************************************************)
\* Multiples of a number.
LEMMA Multiples ==
  ASSUME NEW a \in Nat
  PROVE  /\ a * 0 = 0
         /\ \A x, y \in Nat : a * x \in Nat /\ a * (x + y) = a * x + a * y
         /\ \A x, y \in Nat : x <= y => a * x <= a * y
<1>1. a * 0 = 0 /\ \A x, y \in Nat : a * x \in Nat /\ a * (x + y) = a * x + a * y
  OBVIOUS
<1>2. ASSUME NEW x \in Nat, NEW y \in Nat, x <= y PROVE a * x <= a * y
  <2>1. a * (y - x) >= 0
    BY <1>2
  <2>2. a * (y - x) = a * y - a * x
    OBVIOUS
  <2> QED
    BY <2>1, <2>2
<1> QED
  BY <1>1, <1>2

\* The pace is at least what the rate earns in an idle time, and at least a burst.
LEMMA PaceFacts ==
  /\ Pace \in Nat /\ Pace >= Burst
  /\ \A x \in Nat : Pace * x \in Nat /\ Idle * (Rate * x) <= Pace * x
  /\ \A x \in Nat : x >= Idle => Idle * Burst <= Pace * x
<1>1. Rate \in Nat /\ Burst \in Nat /\ Idle \in Nat
  BY RelayAssumption
<1>2. Rate * Idle \in Nat
  BY <1>1, Multiples
<1>3. Pace \in Nat /\ Pace >= Burst /\ Pace >= Rate * Idle
  BY <1>1, <1>2 DEF Pace
<1> HIDE DEF Pace
<1>4. ASSUME NEW x \in Nat PROVE Pace * x \in Nat /\ Idle * (Rate * x) <= Pace * x
  <2>1. x * (Rate * Idle) <= x * Pace
    BY <1>2, <1>3, Multiples
  <2>2. x * (Rate * Idle) = Idle * (Rate * x) /\ x * Pace = Pace * x
    BY <1>1, <1>3
  <2> QED
    BY <1>3, <2>1, <2>2, Multiples
<1>5. ASSUME NEW x \in Nat, x >= Idle PROVE Idle * Burst <= Pace * x
  <2>1. Idle * Burst <= Idle * Pace
    BY <1>1, <1>3, Multiples
  <2>2. Pace * Idle <= Pace * x
    BY <1>1, <1>3, <1>5, Multiples
  <2>3. Idle * Pace = Pace * Idle /\ Pace * Idle \in Nat /\ Pace * x \in Nat /\ Idle * Burst \in Nat
    BY <1>1, <1>3, Multiples
  <2> QED
    BY ONLY <2>1, <2>2, <2>3
<1> QED
  BY <1>3, <1>4, <1>5

\* What is owed is a number that grows.
LEMMA OwedFacts ==
  ASSUME NEW from \in Nat, NEW mid \in Nat, NEW to \in Nat, from <= mid, mid <= to
  PROVE  /\ Owed(from, mid) \in Nat /\ Owed(mid, to) \in Nat /\ Owed(from, from) = 0
         /\ Owed(from, to) = Owed(from, mid) + Owed(mid, to)
<1>1. Pace \in Nat /\ mid - from \in Nat /\ to - mid \in Nat
      /\ to - from = (mid - from) + (to - mid) /\ from - from = 0
  BY PaceFacts
<1> HIDE DEF Pace
<1> QED
  BY <1>1, Multiples DEF Owed

\* What a bucket holds: at most a burst, at most what it held and has earned, and
\* nothing new within the instant it was charged.
LEMMA RefillFacts ==
  ASSUME now \in Nat, NEW s \in SessionRecords, s.last <= now
  PROVE  /\ Refilled(s) \in 0..Burst
         /\ Refilled(s) <= s.tokens + Rate * (now - s.last)
         /\ s.last = now /\ s.tokens <= Burst => Refilled(s) = s.tokens
<1> DEFINE gone == now - s.last
<1>1. gone \in Nat /\ s.tokens \in Nat /\ Burst \in Nat /\ Rate \in Nat
  BY RelayAssumption DEF SessionRecords
<1>2. Rate * gone \in Nat /\ (gone = 0 => Rate * gone = 0)
  BY <1>1, Multiples
<1>3. Refilled(s) = IF s.tokens + Rate * gone > Burst THEN Burst ELSE s.tokens + Rate * gone
  BY DEF Refilled
<1> HIDE DEF gone
<1>4. /\ Refilled(s) \in 0..Burst
      /\ Refilled(s) <= s.tokens + Rate * gone
      /\ gone = 0 /\ s.tokens <= Burst => Refilled(s) = s.tokens
  BY <1>1, <1>2, <1>3
<1> QED
  BY <1>4 DEF gone, SessionRecords

\* A bucket that was within the quota when it was charged stays within it: what it
\* has earned since is owed, and after an idle time so is a new burst.
LEMMA StaysWithin ==
  ASSUME now \in Nat, since \in 0..now, NEW s \in SessionRecords, s.last <= now,
         s.tokens <= Burst, NEW bytes \in Nat, WithinAt(s, bytes, since)
  PROVE  /\ Idle * (bytes + Refilled(s)) <= Idle * Burst + Owed(since, now)
         /\ now - s.last > Idle => Idle * bytes <= Owed(since, now)
<1> DEFINE gone == now - s.last
           f    == Refilled(s)
<1>1. /\ gone \in Nat /\ s.tokens \in Nat /\ s.last \in Nat /\ Burst \in Nat /\ Idle \in Nat
      /\ Rate \in Nat /\ since \in Nat /\ since <= now
  BY RelayAssumption DEF SessionRecords
<1>2. f \in Nat /\ f <= Burst /\ f <= s.tokens + Rate * gone
  BY <1>1, RefillFacts
<1>3. Owed(since, now) \in Nat
  BY <1>1, OwedFacts
<1>4. Idle * Burst \in Nat /\ Idle * f <= Idle * Burst
  BY <1>1, <1>2, Multiples
<1>5. CASE s.last < since
  <2>1. bytes = 0 /\ bytes + f = f /\ Idle * bytes = 0
    BY <1>1, <1>2, <1>5, Multiples DEF WithinAt
  <2> HIDE DEF f, gone
  <2>2. Idle * (bytes + f) <= Idle * Burst + Owed(since, now)
    <3>1. Idle * f \in Nat
      BY <1>1, <1>2, Multiples
    <3> QED
      BY <1>3, <1>4, <2>1, <3>1
  <2>3. Idle * bytes <= Owed(since, now)
    BY <1>3, <2>1
  <2> QED
    BY <2>2, <2>3 DEF f
<1>6. CASE ~(s.last < since)
  <2>1. Idle * (bytes + s.tokens) <= Idle * Burst + Owed(since, s.last)
    BY <1>6 DEF WithinAt
  <2>2. /\ Owed(since, s.last) \in Nat /\ Owed(s.last, now) \in Nat
        /\ Owed(since, now) = Owed(since, s.last) + Owed(s.last, now)
    BY <1>1, <1>6, OwedFacts
  <2>3. Owed(s.last, now) = Pace * gone
    BY DEF Owed
  <2>4. /\ Rate * gone \in Nat /\ Idle * (Rate * gone) <= Pace * gone
        /\ gone >= Idle => Idle * Burst <= Pace * gone
    BY <1>1, PaceFacts, Multiples
  <2> HIDE DEF f, gone, Pace, Owed
  <2>5. Idle * (bytes + f) <= Idle * (bytes + s.tokens) + Idle * (Rate * gone)
    <3>1. bytes + f <= (bytes + s.tokens) + Rate * gone
      BY <1>1, <1>2, <2>4
    <3>2. bytes + f \in Nat /\ bytes + s.tokens \in Nat /\ (bytes + s.tokens) + Rate * gone \in Nat
      BY <1>1, <1>2, <2>4
    <3>3. Idle * (bytes + f) <= Idle * ((bytes + s.tokens) + Rate * gone)
      BY <1>1, <3>1, <3>2, Multiples
    <3>4. Idle * ((bytes + s.tokens) + Rate * gone)
            = Idle * (bytes + s.tokens) + Idle * (Rate * gone)
      BY <1>1, <2>4, <3>2, Multiples
    <3> QED
      BY <3>3, <3>4
  <2>6. Idle * bytes <= Idle * (bytes + s.tokens)
    <3>1. bytes <= bytes + s.tokens /\ bytes + s.tokens \in Nat
      BY <1>1
    <3> QED
      BY <1>1, <3>1, Multiples
  <2>7. /\ Idle * (bytes + f) \in Nat /\ Idle * (bytes + s.tokens) \in Nat
        /\ Idle * (Rate * gone) \in Nat /\ Idle * bytes \in Nat
    <3>1. bytes + f \in Nat /\ bytes + s.tokens \in Nat
      BY <1>1, <1>2
    <3> QED
      BY <1>1, <2>4, <3>1, Multiples
  <2>8. Idle * (bytes + f) <= Idle * Burst + Owed(since, now)
    BY ONLY <1>4, <2>1, <2>2, <2>3, <2>4, <2>5, <2>7
  <2>9. gone > Idle => Idle * bytes <= Owed(since, now)
    <3> SUFFICES ASSUME gone > Idle PROVE Idle * bytes <= Owed(since, now)
      OBVIOUS
    <3>1. Idle * Burst <= Pace * gone
      BY <1>1, <2>4
    <3> QED
      BY ONLY <1>4, <2>1, <2>2, <2>3, <2>6, <2>7, <3>1
  <2> QED
    BY <2>8, <2>9 DEF f, gone
<1> QED
  BY <1>5, <1>6

\* The fields of a session.
LEMMA RecordFacts ==
  ASSUME NEW s \in SessionRecords
  PROVE  /\ s # NoSession /\ s.seen \in Nat /\ s.tokens \in Nat /\ s.last \in Nat
         /\ s.addr \in [{Moon, Comet} -> Clients \cup {NoClient}]
BY RelayAssumption DEF SessionRecords

\* Tokens and sides of clients.
LEMMA ClientFacts ==
  ASSUME NEW c \in Clients
  PROVE  /\ Token[c] \in Tokens /\ Side[c] \in {Moon, Comet} /\ Other(Side[c]) \in {Moon, Comet}
         /\ Other(Other(Side[c])) = Side[c] /\ Other(Side[c]) # Side[c]
         /\ c # NoClient
BY RelayAssumption DEF Other

-----------------------------------------------------------------------------
(***************************************************************************)
(* One datagram.                                                           *)
(***************************************************************************)
\* The sweep: who survives it, and that it costs nobody any quota.
LEMMA SweepFacts ==
  ASSUME RelayIInv
  PROVE  /\ Swept \subseteq LiveSessions
         /\ Without(Swept) \in [Tokens -> SessionRecords \cup {NoSession}]
         /\ \A t \in Tokens : t \in LiveSessions \ Swept <=> Without(Swept)[t] # NoSession
         /\ \A t \in LiveSessions \ Swept : Without(Swept)[t] = sessions[t]
         /\ \A t \in LiveSessions \ Swept : now >= nextCleanup => now < Expiry[t] /\ now - sessions[t].seen <= Idle
         /\ watched \in Swept /\ now < Expiry[watched] => Idle * passed <= Owed(since, now)
<1> USE DEF RelayIInv, RelayTypes, LiveSessions
<1>1. Swept \subseteq LiveSessions
  BY DEF Swept
<1>2. Without(Swept) \in [Tokens -> SessionRecords \cup {NoSession}]
  BY DEF Without
<1>3. /\ \A t \in Tokens : t \in LiveSessions \ Swept <=> Without(Swept)[t] # NoSession
      /\ \A t \in LiveSessions \ Swept : Without(Swept)[t] = sessions[t]
  BY DEF Without
<1>4. ASSUME NEW t \in LiveSessions \ Swept, now >= nextCleanup
      PROVE  now < Expiry[t] /\ now - sessions[t].seen <= Idle
  <2>1. ~Stale(t)
    BY <1>4 DEF Swept
  <2>2. Expiry[t] \in Nat /\ sessions[t] \in SessionRecords /\ Idle \in Nat
    BY RelayAssumption
  <2> QED
    BY <2>1, <2>2, RecordFacts DEF Stale
<1>5. ASSUME watched \in Swept, now < Expiry[watched] PROVE Idle * passed <= Owed(since, now)
  <2> DEFINE s == sessions[watched]
  <2>1. watched \in LiveSessions /\ s \in SessionRecords /\ watched # NoToken
    BY <1>1, <1>5, RelayAssumption
  <2>2. Expiry[watched] \in Nat /\ Idle \in Nat /\ Burst \in Nat
    BY <2>1, RelayAssumption
  <2>3. now - s.seen > Idle
    BY <1>5, <2>1, <2>2, RecordFacts DEF Swept, Stale
  <2>4. s.last <= s.seen /\ s.seen <= now /\ s.tokens <= Burst
    BY <2>1 DEF BucketsHold
  <2>5. s.last <= now /\ now - s.last > Idle
    BY <2>1, <2>2, <2>3, <2>4, RecordFacts
  <2>6. WithinAt(s, passed, since)
    BY <2>1 DEF QuotaKept
  <2> HIDE DEF s
  <2> QED
    BY <2>1, <2>4, <2>5, <2>6, StaysWithin
<1> QED
  BY <1>1, <1>2, <1>3, <1>4, <1>5

\* The session of a valid datagram before its quota is looked at.
LEMMA SessionFacts ==
  ASSUME RelayIInv, NEW c \in Clients, Arrives(c)
  PROVE  /\ Session(c) \in SessionRecords
         /\ Session(c).seen = now /\ Session(c).last <= now /\ Session(c).tokens <= Burst
         /\ Token[c] \in LiveSessions \ Swept =>
              \A d \in {Moon, Comet} : sessions[Token[c]].addr[d] # NoClient =>
                Session(c).addr[d] = sessions[Token[c]].addr[d]
         /\ watched = Token[c] => WithinAt(Session(c), passed, since)
<1> DEFINE t == Token[c]
           f == Found(t)
<1> USE DEF RelayIInv
<1>1. t \in Tokens /\ Side[c] \in {Moon, Comet} /\ now < Expiry[t] /\ now \in Nat /\ Burst \in Nat
  BY ClientFacts, RelayAssumption DEF Arrives, Valid, RelayTypes
<1>2. Fresh \in SessionRecords /\ Fresh.seen = now /\ Fresh.last = now /\ Fresh.tokens = Burst
  BY <1>1 DEF Fresh, SessionRecords
<1>3. CASE t \in LiveSessions \ Swept
  <2>1. sessions[t] \in SessionRecords /\ f = [sessions[t] EXCEPT !.seen = now]
    BY <1>1, <1>3 DEF RelayTypes, LiveSessions, Found
  <2>2. /\ f \in SessionRecords /\ f.seen = now /\ f.last = sessions[t].last
        /\ f.tokens = sessions[t].tokens /\ f.addr = sessions[t].addr
    BY <1>1, <2>1 DEF SessionRecords
  <2>3. f.last <= now /\ f.tokens <= Burst
    BY <1>1, <1>3, <2>1, <2>2, RecordFacts DEF BucketsHold
  <2>5. watched = t => WithinAt(f, passed, since)
    BY <1>1, <1>3, <2>2, RelayAssumption DEF QuotaKept, WithinAt
  <2> HIDE DEF f
  <2>6. /\ Session(c) \in SessionRecords /\ Session(c).seen = now
        /\ Session(c).last = f.last /\ Session(c).tokens = f.tokens
        /\ \A d \in {Moon, Comet} : f.addr[d] # NoClient => Session(c).addr[d] = f.addr[d]
    <3>1. CASE f.addr[Side[c]] = NoClient
      <4>1. Session(c) = [f EXCEPT !.addr[Side[c]] = c]
        BY <3>1 DEF Session, Bound, f
      <4> QED
        BY <4>1, <3>1, <2>2, <1>1 DEF SessionRecords
    <3>2. CASE f.addr[Side[c]] # NoClient
      BY <3>2, <2>2 DEF Session, Bound, f
    <3> QED
      BY <3>1, <3>2
  <2>7. watched = t => WithinAt(Session(c), passed, since)
    BY <2>5, <2>6 DEF WithinAt
  <2> QED
    BY <2>2, <2>3, <2>6, <2>7
<1>4. CASE t \notin LiveSessions \ Swept
  <2>1. f = Fresh
    BY <1>1, <1>4 DEF Found, LiveSessions
  <2>2. f.addr[Side[c]] = NoClient
    BY <1>1, <2>1 DEF Fresh
  <2>3. Session(c) = [f EXCEPT !.addr[Side[c]] = c]
    BY <2>2 DEF Session, Bound
  <2>4. /\ Session(c) \in SessionRecords /\ Session(c).seen = now
        /\ Session(c).last = now /\ Session(c).tokens = Burst
    BY <1>1, <1>2, <2>1, <2>3 DEF SessionRecords
  <2>5. watched = t => Idle * passed <= Owed(since, now)
    BY <1>1, <1>4, SweepFacts, RelayAssumption DEF QuotaKept
  <2>6. watched = t => WithinAt(Session(c), passed, since)
    <3>1. Idle \in Nat /\ passed \in Nat /\ since \in Nat /\ since <= now
      BY RelayAssumption DEF RelayTypes
    <3>2. Idle * (passed + Burst) = Idle * passed + Idle * Burst
      BY <1>1, <3>1, Multiples
    <3>3. Idle * passed \in Nat /\ Idle * Burst \in Nat /\ Owed(since, now) \in Nat
      BY <1>1, <3>1, Multiples, OwedFacts
    <3>4. ASSUME watched = t PROVE Idle * (passed + Burst) <= Idle * Burst + Owed(since, now)
      BY <2>5, <3>2, <3>3, <3>4
    <3>5. ~(now < since)
      BY <1>1, <3>1
    <3> QED
      BY <2>4, <3>4, <3>5 DEF WithinAt
  <2> QED
    BY <1>1, <1>4, <2>4, <2>6
<1> QED
  BY <1>3, <1>4

\* What charging a payload does to a session.
LEMMA ChargeFacts ==
  ASSUME now \in Nat, NEW s \in SessionRecords, NEW size \in Sizes,
         s.last <= now, s.seen = now
  PROVE  LET r == Charged(s, size) IN
         /\ r \in SessionRecords /\ r.seen = now /\ r.addr = s.addr
         /\ r.last = now /\ r.tokens <= Burst
         /\ r.tokens = Refilled(s) - (IF Allowed(s, size) THEN size ELSE 0)
<1> DEFINE r == Charged(s, size)
           cost == IF Allowed(s, size) THEN size ELSE 0
<1>1. Burst \in Nat /\ size \in Nat /\ Refilled(s) \in 0..Burst
  BY RelayAssumption, RefillFacts
<1>2. Refilled(s) - cost \in 0..Burst
  BY <1>1 DEF Allowed
<1>3. r = [s EXCEPT !.tokens = Refilled(s) - cost, !.last = now]
  BY DEF Charged
<1> HIDE DEF r, cost
<1>4. /\ r \in SessionRecords /\ r.seen = now /\ r.addr = s.addr
      /\ r.last = now /\ r.tokens = Refilled(s) - cost
  <2>1. s = [addr |-> s.addr, seen |-> s.seen, tokens |-> s.tokens, last |-> s.last]
    BY DEF SessionRecords
  <2>2. r = [addr |-> s.addr, seen |-> s.seen, tokens |-> Refilled(s) - cost, last |-> now]
    BY <1>3, <2>1
  <2>3. s.addr \in [{Moon, Comet} -> Clients \cup {NoClient}] /\ Refilled(s) - cost \in Nat
    BY <1>1, <1>2, RecordFacts, SMTT(30)
  <2> QED
    BY <2>2, <2>3 DEF SessionRecords
<1> QED
  BY <1>1, <1>2, <1>4 DEF r, cost

\* The gauge follows the table.
LEMMA GaugeStep ==
  ASSUME RelayIInv, NEW t \in Tokens, NEW s \in SessionRecords,
         NEW table \in {Without(Swept), [Without(Swept) EXCEPT ![t] = s]},
         Take(table)
  PROVE  GaugeCounts'
<1> DEFINE kept == LiveSessions \ Swept
           new  == {u \in Tokens : table[u] # NoSession /\ Without(Swept)[u] = NoSession}
<1> USE SweepFacts
<1>1. IsFiniteSet(LiveSessions) /\ IsFiniteSet(Swept) /\ IsFiniteSet(kept) /\ IsFiniteSet(new)
  BY RelayAssumption, FS_Subset DEF LiveSessions, Swept
<1>2. /\ Cardinality(kept) = Cardinality(LiveSessions) - Cardinality(LiveSessions \cap Swept)
      /\ LiveSessions \cap Swept = Swept
  BY <1>1, FS_Difference
<1>3. \A u \in Tokens : Without(Swept)[u] # NoSession => table[u] # NoSession
  BY RecordFacts
<1>4. LiveSessions' = kept \cup new /\ kept \cap new = {}
  BY <1>3 DEF LiveSessions, Take
<1>5. active' = active - Cardinality(Swept) + Cardinality(new)
  BY DEF Take
<1> HIDE DEF kept, new
<1>6. Cardinality(LiveSessions') = Cardinality(kept) + Cardinality(new)
  <2>1. Cardinality(LiveSessions') = Cardinality(kept) + Cardinality(new) - Cardinality(kept \cap new)
    BY <1>1, <1>4, FS_Union
  <2>2. Cardinality(kept \cap new) = 0
    BY <1>4, FS_EmptySet
  <2> QED
    BY <1>1, <2>1, <2>2, FS_CardinalityType
<1>7. /\ Cardinality(LiveSessions) \in Nat /\ Cardinality(Swept) \in Nat
      /\ Cardinality(new) \in Nat /\ active = Cardinality(LiveSessions)
  BY <1>1, FS_CardinalityType DEF RelayIInv, GaugeCounts
<1> QED
  BY <1>2, <1>5, <1>6, <1>7 DEF GaugeCounts

\* After a sweep the next one is due within an interval, and what survived is
\* young enough for it.
LEMMA SweptSweeps ==
  ASSUME RelayIInv, NEW table, Take(table)
  PROVE  /\ heard' = now /\ now < nextCleanup' /\ nextCleanup' <= now' + Interval
         /\ \A t \in LiveSessions \ Swept : /\ nextCleanup' < Expiry[t] + Interval
                                    /\ nextCleanup' - sessions[t].seen <= Idle + Interval
<1>1. now \in Nat /\ now' = now /\ nextCleanup \in Nat /\ Interval \in Nat \ {0} /\ Idle \in Nat
  BY RelayAssumption DEF RelayIInv, RelayTypes, Take
<1>2. ASSUME NEW t \in LiveSessions \ Swept
      PROVE  /\ sessions[t].seen \in Nat /\ Expiry[t] \in Nat
             /\ now >= nextCleanup => now < Expiry[t] /\ now - sessions[t].seen <= Idle
             /\ nextCleanup < Expiry[t] + Interval
             /\ nextCleanup - sessions[t].seen <= Idle + Interval
  <2>1. t \in Tokens /\ sessions[t] \in SessionRecords
    BY DEF RelayIInv, RelayTypes, LiveSessions
  <2> QED
    BY <2>1, SweepFacts, RecordFacts, RelayAssumption DEF RelayIInv, SweepsHold
<1>3. heard' = now /\ nextCleanup' = IF now < nextCleanup THEN nextCleanup ELSE now + Interval
  BY DEF Take
<1>4. nextCleanup <= now + Interval
  BY DEF RelayIInv, SweepsHold
<1> QED
  BY <1>1, <1>2, <1>3, <1>4

-----------------------------------------------------------------------------
(***************************************************************************)
(* The steps.                                                              *)
(***************************************************************************)
\* A datagram that is not valid only sweeps.
LEMMA DropInvalidIInv ==
  ASSUME RelayIInv, NEW c \in Clients, DropInvalid(c)
  PROVE  RelayIInv'
<1> USE DEF DropInvalid, Take
<1>1. RelayTypes'
  BY SweepFacts, RelayAssumption DEF RelayIInv, RelayTypes, Kept
<1>2. GaugeCounts'
  <2>1. PICK s \in SessionRecords : TRUE
    <3>1. [addr |-> [d \in {Moon, Comet} |-> NoClient], seen |-> 0, tokens |-> 0, last |-> 0]
            \in SessionRecords
      BY DEF SessionRecords
    <3> QED
      BY <3>1
  <2> QED
    BY <2>1, GaugeStep, ClientFacts DEF DropInvalid
<1>3. LiveSessions' = LiveSessions \ Swept /\ \A t \in LiveSessions' : sessions'[t] = sessions[t]
  BY SweepFacts DEF LiveSessions
<1>4. BucketsHold'
  BY <1>3 DEF RelayIInv, BucketsHold
<1>5. SweepsHold'
  BY <1>3, SweptSweeps DEF SweepsHold
<1>6. QuotaKept'
  BY <1>3, SweepFacts DEF RelayIInv, QuotaKept
<1>7. PairsHold'
  BY <1>3 DEF RelayIInv, PairsHold, Kept, PairOf
<1> QED
  BY <1>1, <1>2, <1>4, <1>5, <1>6, <1>7 DEF RelayIInv

\* A valid datagram: its session s was heard from now, keeps the addresses it
\* had, and what was passed and may be passed at once is within the quota.
LEMMA SettleIInv ==
  ASSUME RelayIInv, NEW c \in Clients, Arrives(c), NEW s \in SessionRecords, Settle(c, s),
         s.seen = now, s.last <= now, s.tokens <= Burst,
         s.addr = Session(c).addr,
         passed' \in Nat, watched # Token[c] => passed' = passed,
         watched = Token[c] => WithinAt(s, passed', since),
         \A p \in delivered' \ Kept : p \in Clients \X Clients /\ Token[p[1]] = Token[c] /\ PairOf(p, s)
  PROVE  RelayIInv'
<1> DEFINE t == Token[c]
<1> USE DEF Settle, Take
<1>1. t \in Tokens /\ now < Expiry[t] /\ s # NoSession
  BY ClientFacts, RecordFacts DEF Arrives, Valid
<1>2. /\ sessions' \in [Tokens -> SessionRecords \cup {NoSession}] /\ sessions'[t] = s
      /\ \A u \in Tokens \ {t} : sessions'[u] = Without(Swept)[u]
  BY <1>1, SweepFacts
<1>3. LiveSessions' = (LiveSessions \ Swept) \cup {t} /\ \A u \in LiveSessions' \ {t} : u \in LiveSessions \ Swept /\ sessions'[u] = sessions[u]
  BY <1>1, <1>2, SweepFacts DEF LiveSessions
<1>4. RelayTypes'
  BY <1>2, RelayAssumption DEF RelayIInv, RelayTypes, Kept
<1>5. GaugeCounts'
  BY <1>1, GaugeStep
<1>6. BucketsHold'
  <2> SUFFICES ASSUME NEW u \in LiveSessions'
               PROVE  /\ sessions'[u].tokens <= Burst
                      /\ sessions'[u].last <= sessions'[u].seen
                      /\ sessions'[u].seen <= now
    BY DEF BucketsHold
  <2>1. CASE u = t
    BY <1>2, <2>1 DEF RelayIInv, RelayTypes
  <2>2. CASE u # t
    BY <1>3, <2>2 DEF RelayIInv, BucketsHold
  <2> QED
    BY <2>1, <2>2
<1>7. SweepsHold'
  <2>1. nextCleanup' <= now' + Interval /\ now < nextCleanup' /\ heard' = now
    BY SweptSweeps DEF Settle
  <2>2. ASSUME NEW u \in LiveSessions' \ {t}
        PROVE nextCleanup' < Expiry[u] + Interval /\ nextCleanup' - sessions'[u].seen <= Idle + Interval
    BY <1>3, SweptSweeps DEF Settle
  <2>3. nextCleanup' < Expiry[t] + Interval /\ nextCleanup' - sessions'[t].seen <= Idle + Interval
    BY <1>1, <1>2, <2>1, RelayAssumption DEF RelayIInv, RelayTypes
  <2> QED
    BY <1>3, <2>1, <2>2, <2>3 DEF SweepsHold
<1>8. QuotaKept'
  <2>1. CASE watched = t
    <3>1. WithinAt(s, passed', since) /\ passed' \in Nat /\ now \in Nat /\ since \in 0..now
      BY <2>1 DEF RelayIInv, RelayTypes
    <3>2. Idle * (passed' + Refilled(s)) <= Idle * Burst + Owed(since, now)
      BY <3>1, StaysWithin
    <3>3. Idle * passed' <= Idle * Burst + Owed(since, now)
      <4>1. Refilled(s) \in 0..Burst /\ Idle \in Nat /\ Burst \in Nat
        BY <3>1, RefillFacts, RelayAssumption
      <4>2. passed' <= passed' + Refilled(s) /\ passed' + Refilled(s) \in Nat
        BY <3>1, <4>1
      <4>3. Idle * passed' <= Idle * (passed' + Refilled(s))
        BY <3>1, <4>1, <4>2, Multiples
      <4>4. /\ Idle * passed' \in Nat /\ Idle * (passed' + Refilled(s)) \in Nat
            /\ Idle * Burst \in Nat
        BY <3>1, <4>1, <4>2, Multiples
      <4>5. Owed(since, now) \in Nat
        <5>1. since \in Nat /\ since <= now
          BY <3>1
        <5> QED
          BY <3>1, <5>1, OwedFacts
      <4> QED
        BY ONLY <3>2, <4>3, <4>4, <4>5
    <3> QED
      BY <1>2, <1>3, <2>1, <3>1, <3>3 DEF QuotaKept
  <2>2. CASE watched # t
    <3>1. watched # NoToken => watched \in Tokens
      BY DEF RelayIInv, RelayTypes
    <3>2. watched # NoToken /\ watched \notin LiveSessions' /\ now < Expiry[watched]
           => Idle * passed <= Owed(since, now)
      BY <1>3, <2>2, <3>1, SweepFacts DEF RelayIInv, QuotaKept
    <3>3. watched \in LiveSessions' => sessions'[watched] = sessions[watched] /\ watched \in LiveSessions
      BY <1>3, <2>2
    <3> QED
      BY <2>2, <3>2, <3>3 DEF RelayIInv, QuotaKept
  <2> QED
    BY <2>1, <2>2
<1>9. PairsHold'
  <2> SUFFICES ASSUME NEW p \in delivered'
               PROVE  Token[p[1]] \in LiveSessions' /\ PairOf(p, sessions'[Token[p[1]]])
    BY DEF PairsHold, PairOf, Other
  <2>1. CASE p \notin Kept
    BY <1>2, <1>3, <2>1
  <2>2. CASE p \in Kept
    <3>1. /\ p \in delivered /\ p[1] \in Clients /\ p[2] \in Clients
          /\ Token[p[1]] \in LiveSessions \ Swept /\ PairOf(p, sessions[Token[p[1]]])
      BY <2>2 DEF Kept, RelayIInv, PairsHold, RelayTypes
    <3>2. CASE Token[p[1]] # t
      BY <1>3, <3>1, <3>2
    <3>3. CASE Token[p[1]] = t
      BY <1>2, <1>3, <3>1, <3>3, SessionFacts, ClientFacts DEF PairOf
    <3> QED
      BY <3>2, <3>3
  <2> QED
    BY <2>1, <2>2
<1> QED
  BY <1>4, <1>5, <1>6, <1>7, <1>8, <1>9 DEF RelayIInv

\* A datagram whose quota is not asked for.
LEMMA UnchargedSteps ==
  ASSUME RelayIInv, NEW c \in Clients, DropMisplaced(c) \/ Register(c)
  PROVE  RelayIInv'
<1>1. /\ Arrives(c) /\ Settle(c, Session(c)) /\ delivered' = Kept /\ passed' = passed
  BY DEF DropMisplaced, Register
<1>2. passed \in Nat
  BY DEF RelayIInv, RelayTypes
<1> QED
  BY <1>1, <1>2, SessionFacts, SettleIInv

\* A datagram whose quota is asked for.
LEMMA ChargedSteps ==
  ASSUME RelayIInv, NEW c \in Clients, NEW size \in Sizes,
         DropOverQuota(c, size) \/ DropUndeliverable(c, size) \/ Forward(c, size)
  PROVE  RelayIInv'
<1> DEFINE s == Session(c)
           r == Charged(s, size)
           cost == IF Allowed(s, size) THEN size ELSE 0
<1>1. Arrives(c) /\ AtItsPlace(c) /\ Settle(c, r)
  BY DEF DropOverQuota, DropUndeliverable, Forward, Charge
<1>2. now \in Nat /\ passed \in Nat /\ size \in Nat /\ Burst \in Nat
  BY RelayAssumption DEF RelayIInv, RelayTypes
<1>3. /\ s \in SessionRecords /\ s.seen = now /\ s.last <= now /\ s.tokens <= Burst
      /\ watched = Token[c] => WithinAt(s, passed, since)
  BY <1>1, SessionFacts
<1>4. /\ r \in SessionRecords /\ r.seen = now /\ r.addr = s.addr /\ r.last = now
      /\ r.tokens <= Burst /\ r.tokens = Refilled(s) - cost
  BY <1>2, <1>3, ChargeFacts
<1>5. passed' = IF Token[c] = watched THEN passed + cost ELSE passed
  BY <1>2 DEF DropOverQuota, DropUndeliverable, Forward, Charge
<1>6. Refilled(s) \in Nat /\ cost \in Nat /\ since \in 0..now
  <2>1. Refilled(s) \in 0..Burst
    BY <1>2, <1>3, RefillFacts
  <2> QED
    BY <1>2, <2>1 DEF RelayIInv, RelayTypes
<1>7. ASSUME NEW p \in delivered' \ Kept
      PROVE  p \in Clients \X Clients /\ Token[p[1]] = Token[c] /\ PairOf(p, r)
  <2>1. Forward(c, size) /\ p = <<c, Peer(c)>> /\ Reads(Peer(c), c) /\ Peer(c) # NoClient
    BY <1>7 DEF DropOverQuota, DropUndeliverable, Forward
  <2>2. Peer(c) \in Clients /\ s.addr[Other(Side[c])] = Peer(c)
    BY <1>3, <2>1, RecordFacts, ClientFacts DEF Peer
  <2>3. Side[Peer(c)] = Other(Side[c]) /\ Token[Peer(c)] = Token[c]
    BY <2>1, <2>2, ClientFacts DEF Reads
  <2>4. s.addr[Side[c]] = c
    BY <1>1 DEF AtItsPlace
  <2> QED
    BY <1>4, <2>1, <2>2, <2>3, <2>4, ClientFacts DEF PairOf
<1> HIDE DEF s, r, cost
<1>8. passed' \in Nat /\ (watched # Token[c] => passed' = passed)
  BY <1>2, <1>5, <1>6
<1>9. ASSUME watched = Token[c] PROVE WithinAt(r, passed', since)
  <2>1. passed' + r.tokens = passed + Refilled(s)
    BY <1>2, <1>4, <1>5, <1>6, <1>9
  <2>2. Idle * (passed + Refilled(s)) <= Idle * Burst + Owed(since, now)
    BY <1>2, <1>3, <1>6, <1>9, StaysWithin
  <2>3. ~(r.last < since)
    BY <1>2, <1>4, <1>6
  <2> QED
    BY <1>4, <2>1, <2>2, <2>3 DEF WithinAt
<1> QED
  <2>1. r.addr = Session(c).addr /\ r.last <= now
    BY <1>2, <1>4 DEF s
  <2>2. \A p \in delivered' \ Kept : p \in Clients \X Clients /\ Token[p[1]] = Token[c] /\ PairOf(p, r)
    BY <1>7
  <2> QED
    BY <1>1, <1>4, <1>8, <1>9, <2>1, <2>2, SettleIInv

\* A client opens its socket; someone begins to watch.
LEMMA OpenWatchSteps ==
  ASSUME RelayIInv, \/ \E c \in Clients : Open(c)
               \/ \E t \in Tokens : Watch(t)
  PROVE  RelayIInv'
<1> USE DEF Open, Watch
<1>1. RelayTypes'
  BY DEF RelayIInv, RelayTypes
<1>2. GaugeCounts' /\ BucketsHold' /\ SweepsHold' /\ PairsHold'
  BY DEF RelayIInv, GaugeCounts, LiveSessions, BucketsHold, SweepsHold, PairsHold, PairOf
<1>3. QuotaKept'
  <2>1. CASE \E c \in Clients : Open(c)
    BY <2>1 DEF RelayIInv, QuotaKept, LiveSessions
  <2>2. ASSUME NEW t \in Tokens, Watch(t) PROVE QuotaKept'
    <3>1. /\ passed' = 0 /\ since' = now /\ now' = now /\ watched' = t /\ sessions' = sessions
          /\ now \in Nat /\ Idle \in Nat /\ Burst \in Nat
      BY <2>2, RelayAssumption DEF RelayIInv, RelayTypes
    <3>2. Owed(now, now) = 0 /\ Idle * 0 = 0 /\ Idle * Burst \in Nat
      BY <3>1, OwedFacts, Multiples
    <3>3. ASSUME t \in LiveSessions PROVE WithinAt(sessions[t], 0, now)
      <4>1. /\ sessions[t].tokens \in Nat /\ sessions[t].tokens <= Burst
            /\ sessions[t].last \in Nat /\ sessions[t].last <= now
        BY <3>3, RecordFacts DEF RelayIInv, RelayTypes, LiveSessions, BucketsHold
      <4>2. Idle * (0 + sessions[t].tokens) <= Idle * Burst + 0
        BY <3>1, <3>2, <4>1, Multiples
      <4>3. ~(sessions[t].last < now) => sessions[t].last = now
        BY <3>1, <4>1
      <4> QED
        BY <3>2, <4>2, <4>3 DEF WithinAt
    <3> QED
      BY <3>1, <3>2, <3>3 DEF QuotaKept, LiveSessions
  <2> QED
    BY <2>1, <2>2
<1> QED
  BY <1>1, <1>2, <1>3 DEF RelayIInv

\* Time goes by: the bucket gains at most what the quota gains.
LEMMA TickIInv ==
  ASSUME RelayIInv, Tick
  PROVE  RelayIInv'
<1> USE DEF Tick
<1>1. RelayTypes'
  BY DEF RelayIInv, RelayTypes
<1>2. GaugeCounts' /\ PairsHold'
  BY DEF RelayIInv, GaugeCounts, LiveSessions, PairsHold, PairOf
<1>3. BucketsHold' /\ SweepsHold'
  BY RelayAssumption DEF RelayIInv, RelayTypes, BucketsHold, SweepsHold, LiveSessions, SessionRecords
<1>4. Owed(since, now) \in Nat /\ Owed(since, now) <= Owed(since', now')
  <2>1. since \in Nat /\ now \in Nat /\ now' \in Nat /\ since <= now /\ now <= now' /\ since' = since
    BY DEF RelayIInv, RelayTypes
  <2>2. Owed(since, now) \in Nat /\ Owed(now, now') \in Nat
        /\ Owed(since, now') = Owed(since, now) + Owed(now, now')
    BY <2>1, OwedFacts
  <2> QED
    BY <2>1, <2>2
<1>5. Owed(since', now') \in Nat
  <2>1. since' \in Nat /\ now' \in Nat /\ since' <= now'
    BY DEF RelayIInv, RelayTypes
  <2> QED
    BY <2>1, OwedFacts
<1>6. QuotaKept'
  <2> SUFFICES ASSUME watched # NoToken PROVE QuotaKept'
    BY DEF QuotaKept
  <2>1. /\ watched \in Tokens /\ watched' = watched /\ passed' = passed /\ since' = since
        /\ sessions' = sessions /\ LiveSessions' = LiveSessions /\ passed \in Nat
    BY DEF RelayIInv, RelayTypes, LiveSessions
  <2>2. now < now' /\ now \in Nat /\ now' \in Nat /\ Expiry[watched] \in Nat
        /\ Idle * passed \in Nat /\ Idle * Burst \in Nat
    BY <2>1, RelayAssumption, Multiples DEF RelayIInv, RelayTypes
  <2>3. Idle * passed <= Idle * Burst + Owed(since', now')
    BY <1>4, <1>5, <2>2 DEF RelayIInv, QuotaKept
  <2>4. watched \notin LiveSessions /\ now' < Expiry[watched] => Idle * passed <= Owed(since', now')
    BY <1>4, <1>5, <2>2 DEF RelayIInv, QuotaKept
  <2>5. watched \in LiveSessions => WithinAt(sessions[watched], passed, since)
    BY DEF RelayIInv, QuotaKept
  <2> HIDE DEF Tick
  <2> QED
    BY <2>1, <2>3, <2>4, <2>5 DEF QuotaKept
<1> QED
  BY <1>1, <1>2, <1>3, <1>6 DEF RelayIInv

\* An empty table is sound whatever the time.
LEMMA RelayInitIInv == RelayInit => RelayIInv
<1> SUFFICES ASSUME RelayInit PROVE RelayIInv
  OBVIOUS
<1> USE DEF RelayInit
<1>1. LiveSessions = {}
  BY DEF LiveSessions
<1>2. RelayTypes
  BY RelayAssumption DEF RelayTypes
<1>3. GaugeCounts
  BY <1>1, FS_EmptySet DEF GaugeCounts
<1>4. BucketsHold /\ SweepsHold /\ QuotaKept /\ PairsHold
  BY <1>1, RelayAssumption DEF BucketsHold, SweepsHold, QuotaKept, PairsHold
<1> QED
  BY <1>2, <1>3, <1>4 DEF RelayIInv

\* A relay that starts anew has an empty table.
LEMMA RestartIInv ==
  ASSUME RelayIInv, Restart
  PROVE  RelayIInv'
<1> USE DEF Restart
<1>1. LiveSessions' = {}
  BY DEF LiveSessions
<1>2. RelayTypes'
  BY RelayAssumption DEF RelayIInv, RelayTypes
<1>3. GaugeCounts'
  BY <1>1, FS_EmptySet DEF GaugeCounts
<1>4. BucketsHold' /\ SweepsHold' /\ QuotaKept' /\ PairsHold'
  BY <1>1, RelayAssumption DEF RelayIInv, RelayTypes, BucketsHold, SweepsHold, QuotaKept, PairsHold
<1> QED
  BY <1>2, <1>3, <1>4 DEF RelayIInv

\* A step of others leaves it as it is.
LEMMA RelayStutterIInv == RelayIInv /\ UNCHANGED relayVars => RelayIInv'
BY DEF relayVars, RelayIInv, RelayTypes, GaugeCounts, LiveSessions, BucketsHold, SweepsHold, QuotaKept, PairsHold, PairOf

\* Every step of the relay preserves the inductive invariant.
LEMMA RelayNextIInv == RelayIInv /\ [RelayNext]_relayVars => RelayIInv'
<1> SUFFICES ASSUME RelayIInv, [RelayNext]_relayVars PROVE RelayIInv'
  OBVIOUS
<1>1. CASE UNCHANGED relayVars
  BY <1>1, RelayStutterIInv
<1>2. CASE \E c \in Clients : DropInvalid(c)
  BY <1>2, DropInvalidIInv
<1>3. CASE \E c \in Clients : DropMisplaced(c) \/ Register(c)
  BY <1>3, UnchargedSteps
<1>4. CASE \E c \in Clients : \E size \in Sizes :
             DropOverQuota(c, size) \/ DropUndeliverable(c, size) \/ Forward(c, size)
  BY <1>4, ChargedSteps
<1>5. CASE (\E c \in Clients : Open(c)) \/ \E t \in Tokens : Watch(t)
  BY <1>5, OpenWatchSteps
<1>6. CASE Restart
  BY <1>6, RestartIInv
<1>7. CASE Tick
  BY <1>7, TickIInv
<1> QED
  BY <1>1, <1>2, <1>3, <1>4, <1>5, <1>6, <1>7 DEF RelayNext

-----------------------------------------------------------------------------
\* The inductive invariant of the relay: its gauge, buckets, sweeps, quota and pairs.
THEOREM RelayInvariance == RelaySpec => []RelayIInv
<1>1. RelayInit => RelayIInv
  BY RelayInitIInv
<1>2. RelayIInv /\ [RelayNext]_relayVars => RelayIInv'
  BY RelayNextIInv
<1> QED
  BY <1>1, <1>2, PTL DEF RelaySpec

\* The table and the clock keep their types, and the gauge that the relay
\* exports is the number of its sessions (server.go: Serve).
THEOREM RelayTypeCorrect == RelaySpec => []RelayTypeOK
<1>1. RelayIInv => RelayTypeOK
  BY DEF RelayIInv, RelayTypes, GaugeCounts, LiveSessions, RelayTypeOK
<1> QED
  BY <1>1, RelayInvariance, PTL

\* No token carries more than one burst and its pace over any span of time,
\* whatever is swept in between and however large the burst is (server.go:
\* tokenBucket.allow and the sweep).
THEOREM QuotaHolds == RelaySpec => []WithinQuota
<1>1. RelayIInv => WithinQuota
  BY DEF RelayIInv, QuotaKept, Owed, WithinQuota
<1> QED
  BY <1>1, RelayInvariance, PTL

\* A session is a conversation of two clients, and it does not outlive its token
\* or its silence by more than a sweep interval (server.go: Serve).
THEOREM SessionsSound == RelaySpec => []RelaySessionsSound
<1>1. RelayIInv => OnePairOnly
  <2> SUFFICES ASSUME RelayIInv, NEW p \in delivered, NEW q \in delivered, Token[p[1]] = Token[q[1]]
               PROVE  p = q \/ p = <<q[2], q[1]>>
    BY DEF OnePairOnly
  <2>1. p = <<p[1], p[2]>> /\ q = <<q[1], q[2]>> /\ {p[1], p[2], q[1], q[2]} \subseteq Clients
    BY DEF RelayIInv, RelayTypes
  <2>2. PairOf(p, sessions[Token[p[1]]]) /\ PairOf(q, sessions[Token[p[1]]])
    BY DEF RelayIInv, PairsHold
  <2>3. Side[p[1]] = Side[q[1]] \/ Side[p[1]] = Side[q[2]]
    BY <2>1, <2>2, RelayAssumption DEF PairOf, Other
  <2>4. CASE Side[p[1]] = Side[q[1]]
    BY <2>1, <2>2, <2>4, RelayAssumption DEF PairOf, Other
  <2>5. CASE Side[p[1]] = Side[q[2]]
    BY <2>1, <2>2, <2>5, RelayAssumption DEF PairOf, Other
  <2> QED
    BY <2>3, <2>4, <2>5
<1>2. RelayIInv => StaleSessionsGo
  <2> SUFFICES ASSUME RelayIInv, NEW t \in Tokens, sessions[t] # NoSession
               PROVE  heard < Expiry[t] + Interval /\ heard - sessions[t].seen < Idle + Interval
    BY DEF StaleSessionsGo
  <2>1. t \in LiveSessions /\ sessions[t].seen \in Nat /\ Expiry[t] \in Nat
    BY RelayAssumption DEF RelayIInv, RelayTypes, LiveSessions, SessionRecords
  <2> QED
    BY <2>1, RelayAssumption DEF RelayIInv, SweepsHold, RelayTypes
<1> QED
  BY <1>1, <1>2, RelayInvariance, PTL DEF RelaySessionsSound

-----------------------------------------------------------------------------
(***************************************************************************)
(* The mesh transport.                                                     *)
(***************************************************************************)
\* A call has its handle only from the handshake on, and gives it away when it
\* fails: the stages in which nothing may be open.
Bare == {"idle", "check", "handshake", "failed", "error"}
HandlesAreHeld == \A c \in Calls : pc[c] \in Bare => raw[c] # "open"

\* A handle its user was given is closed, or in the table, or about to be closed by Close.
ReturnedAreKnown ==
  \A c \in Calls : pc[c] = "returned" /\ raw[c] = "open" => c \in registered \cup closers

\* What a user has closed stays closed until it has left the table.
ClosedStayClosed ==
  \A c \in unregistering : c \in Calls /\ pc[c] = "returned" /\ raw[c] = "closed"

\* A dial under way is on one of its routes, and what it opens a stream on is
\* the peer it was asked for.
RoutesAreTaken ==
  \A d \in Dials : pc[d] \notin {"idle", "error"} => route[d] \in Paths(d)
PeersAreIdentified ==
  \A d \in Dials : pc[d] \in {"stream", "register", "returned"} => Expected(d) \in {AnyPeer, peer[d]}

\* The flag, the table and the closers of Close agree on how far it is.
CloseProgress ==
  /\ closed <=> closing # "no"
  /\ closed => registered = {}
  /\ closing # "running" => closers = {}

TransportIInv ==
  /\ TransportTypeOK
  /\ HandlesAreHeld
  /\ ReturnedAreKnown
  /\ ClosedStayClosed
  /\ CloseProgress
  /\ RoutesAreTaken
  /\ PeersAreIdentified

-----------------------------------------------------------------------------
\* A transport that was just made satisfies the inductive invariant.
LEMMA TransportInitIInv == TransportInit => TransportIInv
<1> SUFFICES ASSUME TransportInit PROVE TransportIInv
  OBVIOUS
<1> USE DEF TransportInit
<1>1. TransportTypeOK
  <2>1. closed \in BOOLEAN
    OBVIOUS
  <2>2. /\ pc \in [Calls -> Stages] /\ route \in [Dials -> Nat]
        /\ raw \in [Calls -> {"none", "open", "closed"}] /\ peer \in [Calls -> Peers \cup {AnyPeer}]
    BY DEF Stages
  <2> QED
    BY <2>1, <2>2 DEF TransportTypeOK
<1>2. HandlesAreHeld /\ ReturnedAreKnown
  BY DEF HandlesAreHeld, ReturnedAreKnown
<1>3. ClosedStayClosed /\ CloseProgress
  BY DEF ClosedStayClosed, CloseProgress
<1>4. RoutesAreTaken /\ PeersAreIdentified
  BY DEF RoutesAreTaken, PeersAreIdentified, Calls
<1> QED
  BY <1>1, <1>2, <1>3, <1>4 DEF TransportIInv

\* The calls, kinds of calls and stages that steps speak of.
LEMMA CallFacts ==
  /\ Dials \subseteq Calls /\ Listens \subseteq Calls /\ Accepts \subseteq Calls
  /\ Bare \cap {"identify", "stream", "register", "returned"} = {}
BY DEF Calls, Bare

\* A step of one call that neither Close nor the table of closers notices.
LEMMA CallStep ==
  ASSUME TransportIInv, NEW c \in Calls, NEW at \in Stages,
         NEW state \in {"none", "open", "closed"},
         pc[c] # "returned", at # "returned",
         at \in Bare => state # "open",
         pc' = [pc EXCEPT ![c] = at], raw' = [raw EXCEPT ![c] = state],
         UNCHANGED <<closingVars, registered, unregistering>>,
         route' \in [Dials -> Nat], peer' \in [Calls -> Peers \cup {AnyPeer}],
         \A d \in Dials \ {c} : route'[d] = route[d] /\ peer'[d] = peer[d],
         c \in Dials /\ at \notin {"idle", "error"} => route'[c] \in Paths(c),
         c \in Dials /\ at \in {"stream", "register"} => Expected(c) \in {AnyPeer, peer'[c]},
         cancelled' \subseteq Calls
  PROVE  TransportIInv'
<1> USE DEF TransportIInv, closingVars
<1>1. TransportTypeOK'
  BY DEF TransportTypeOK
<1>2. HandlesAreHeld' /\ ReturnedAreKnown'
  BY DEF TransportTypeOK, HandlesAreHeld, ReturnedAreKnown
<1>3. ClosedStayClosed' /\ CloseProgress'
  BY DEF TransportTypeOK, ClosedStayClosed, CloseProgress
<1>4. RoutesAreTaken' /\ PeersAreIdentified'
  BY DEF TransportTypeOK, RoutesAreTaken, PeersAreIdentified, Calls, Paths, Expected
<1> QED
  BY <1>1, <1>2, <1>3, <1>4

\* What may be a route, place by place.
LEMMA RouteFacts ==
  ASSUME NEW d \in Dials
  PROVE  LET c == Candidate[d] IN
         /\ c.hints \in Seq(Addresses \cup {NoAddr}) /\ c.sameLAN \in BOOLEAN
         /\ DOMAIN Routes(c) = 1..(Len(c.hints) + 2)
         /\ Routes(c)[1] = Choice("direct-lan", LANAddr(c))
         /\ Routes(c)[2] = Choice("overlay-wg", c.overlay)
         /\ \A i \in DOMAIN c.hints : i + 2 \in DOMAIN Routes(c) /\ Routes(c)[i + 2] = Choice("planet-relay", c.hints[i])
<1> DEFINE c == Candidate[d]
           two == <<Choice("direct-lan", LANAddr(c)), Choice("overlay-wg", c.overlay)>>
           relays == [i \in DOMAIN c.hints |-> Choice("planet-relay", c.hints[i])]
           T == {Choice("direct-lan", LANAddr(c)), Choice("overlay-wg", c.overlay)}
                  \cup {Choice("planet-relay", c.hints[i]) : i \in DOMAIN c.hints}
<1>1. c.hints \in Seq(Addresses \cup {NoAddr}) /\ c.sameLAN \in BOOLEAN
  BY TransportAssumption
<1> HIDE DEF c
<1>2. Len(c.hints) \in Nat /\ DOMAIN c.hints = 1..Len(c.hints)
  BY <1>1
<1>3. relays \in Seq(T) /\ Len(relays) = Len(c.hints)
  BY <1>2, IsASeq
<1>4. two \in Seq(T) /\ Len(two) = 2 /\ two[1] = Choice("direct-lan", LANAddr(c)) /\ two[2] = Choice("overlay-wg", c.overlay)
  OBVIOUS
<1>5. Routes(c) = two \o relays
  BY DEF Routes
<1>6. \A i \in DOMAIN c.hints : relays[i] = Choice("planet-relay", c.hints[i])
  OBVIOUS
<1> HIDE DEF two, relays, T
<1>7. /\ Len(two \o relays) = Len(c.hints) + 2 /\ two \o relays \in Seq(T)
      /\ \A i \in 1..(Len(c.hints) + 2) : (two \o relays)[i] = IF i <= 2 THEN two[i] ELSE relays[i - 2]
  <2>1. /\ two \o relays \in Seq(T) /\ Len(two \o relays) = Len(two) + Len(relays)
        /\ \A i \in 1..(Len(two) + Len(relays)) :
             (two \o relays)[i] = IF i <= Len(two) THEN two[i] ELSE relays[i - Len(two)]
    BY <1>3, <1>4, ConcatProperties, ZenonT(30)
  <2>2. Len(two) + Len(relays) = Len(c.hints) + 2
    BY <1>2, <1>3, <1>4
  <2> QED
    BY <1>4, <2>1, <2>2
<1>8. DOMAIN Routes(c) = 1..(Len(c.hints) + 2)
  BY <1>2, <1>5, <1>7
<1>9. Routes(c)[1] = two[1] /\ Routes(c)[2] = two[2]
  BY <1>2, <1>5, <1>7
<1>10. \A i \in DOMAIN c.hints : i + 2 \in DOMAIN Routes(c) /\ Routes(c)[i + 2] = relays[i]
  BY <1>2, <1>5, <1>7, <1>8, SMTT(30)
<1> QED
  BY <1>1, <1>4, <1>6, <1>8, <1>9, <1>10 DEF c

\* A dial that goes on is on one of its routes, and no other dial is moved.
LEMMA TakesFacts ==
  ASSUME NEW d \in Dials, route \in [Dials -> Nat], Takes(d)
  PROVE  /\ route' \in [Dials -> Nat] /\ route'[d] \in Paths(d)
         /\ \A e \in Dials \ {d} : route'[e] = route[e]
<1>1. Paths(d) \subseteq Nat
  <2>1. DOMAIN Routes(Candidate[d]) \subseteq Nat
    BY RouteFacts
  <2> QED
    BY <2>1 DEF Paths, candidatePaths
<1> QED
  BY <1>1 DEF Takes, Left

-----------------------------------------------------------------------------
\* Before the handle: the route, the check, the handshake.
LEMMA EarlySteps ==
  ASSUME TransportIInv, NEW c \in Calls,
         \/ c \in Dials /\ BeginDial(c)
         \/ c \in Listens /\ BeginListen(c)
         \/ Check(c) \/ NoHandshake(c) \/ GiveUp(c)
         \/ c \in Dials /\ NextRoute(c)
         \/ c \in Accepts /\ AcceptFails(c)
  PROVE  TransportIInv'
<1> DEFINE at == pc'[c]
<1> USE DEF TransportIInv, TransportTypeOK, Goes, After
<1>1. /\ at \in Bare \ {"idle"} /\ pc' = [pc EXCEPT ![c] = at]
      /\ pc[c] \in Bare
  BY DEF BeginDial, BeginListen, Check, NoHandshake, GiveUp, NextRoute, AcceptFails, Bare
<1>2. /\ UNCHANGED <<closingVars, registered, unregistering, raw>>
      /\ UNCHANGED <<peer, cancelled>>
  BY DEF BeginDial, BeginListen, Check, NoHandshake, GiveUp, NextRoute, AcceptFails
<1>3. raw' = [raw EXCEPT ![c] = raw[c]] /\ raw[c] # "open" /\ raw[c] \in {"none", "open", "closed"}
  BY <1>1, <1>2 DEF HandlesAreHeld
<1>4. at \in Stages /\ at # "returned" /\ pc[c] # "returned"
  BY <1>1 DEF Bare, Stages
<1>6. /\ \A d \in Dials \ {c} : route'[d] = route[d]
      /\ c \in Dials /\ at # "error" => route'[c] \in Paths(c)
      /\ route' \in [Dials -> Nat]
  <2>1. CASE c \in Dials /\ Takes(c)
    BY <2>1, TakesFacts
  <2>2. CASE route' = route /\ (c \in Dials => at = "error" \/ pc[c] \in {"check", "handshake", "failed"})
    BY <2>2 DEF RoutesAreTaken
  <2>3. CASE c \in Dials /\ (BeginDial(c) \/ NextRoute(c))
    BY <2>1, <2>2, <2>3 DEF BeginDial, NextRoute
  <2>4. CASE c \in Listens /\ BeginListen(c)
    BY <2>2, <2>4, TransportAssumption DEF BeginListen
  <2>5. CASE Check(c) \/ NoHandshake(c) \/ GiveUp(c)
    BY <2>2, <2>5 DEF Check, NoHandshake, GiveUp
  <2>6. CASE c \in Accepts /\ AcceptFails(c)
    BY <2>2, <2>6, TransportAssumption DEF AcceptFails
  <2> QED
    BY <2>3, <2>4, <2>5, <2>6
<1> HIDE DEF at, TransportIInv, TransportTypeOK
<1>5. peer' \in [Calls -> Peers \cup {AnyPeer}] /\ cancelled' \subseteq Calls
  BY <1>2 DEF TransportIInv, TransportTypeOK
<1> QED
  BY <1>1, <1>2, <1>3, <1>4, <1>5, <1>6, CallStep DEF Bare

\* With the handle in hand, or as it comes: it is passed on or closed.
LEMMA HandleSteps ==
  ASSUME TransportIInv, NEW c \in Calls,
         \/ \E p \in Peers : Handshake(c, p)
         \/ Bind(c) \/ Stream(c)
         \/ c \in Dials /\ Identify(c)
         \/ c \in Accepts /\ \E p \in Peers : Accept(c, p)
  PROVE  TransportIInv'
<1> DEFINE at == pc'[c]
           state == raw'[c]
<1> USE DEF TransportIInv, TransportTypeOK, Goes, After
<1>1. /\ at \in {"identify", "register", "stream", "failed"}
      /\ pc' = [pc EXCEPT ![c] = at] /\ raw' = [raw EXCEPT ![c] = state]
      /\ state \in {"none", "open", "closed"} /\ pc[c] # "returned"
      /\ at = "failed" => state = "closed"
  BY DEF Handshake, Bind, Stream, Identify, Accept
<1>2. /\ UNCHANGED <<closingVars, registered, unregistering>>
      /\ UNCHANGED <<route, cancelled>> /\ peer' \in [Calls -> Peers \cup {AnyPeer}]
  BY DEF Handshake, Bind, Stream, Identify, Accept
<1>3. at \in Stages /\ at # "returned" /\ (at \in Bare => state # "open")
  BY <1>1 DEF Bare, Stages
<1>5. \A d \in Dials \ {c} : route'[d] = route[d] /\ peer'[d] = peer[d]
  BY <1>2 DEF Handshake, Bind, Stream, Identify, Accept, Calls
<1>6. c \in Dials => /\ route'[c] \in Paths(c)
                     /\ at \in {"stream", "register"} => Expected(c) \in {AnyPeer, peer'[c]}
  <2> SUFFICES ASSUME c \in Dials
               PROVE  /\ route'[c] \in Paths(c)
                      /\ at \in {"stream", "register"} => Expected(c) \in {AnyPeer, peer'[c]}
    OBVIOUS
  <2>1. \/ \E p \in Peers : Handshake(c, p)
        \/ Stream(c) \/ Identify(c)
    BY TransportAssumption DEF Bind, Accept
  <2>2. pc[c] \notin {"idle", "error"} /\ route'[c] = route[c]
    BY <1>2, <2>1 DEF Handshake, Stream, Identify
  <2>3. route'[c] \in Paths(c)
    BY <2>2 DEF RoutesAreTaken
  <2>4. at \in {"stream", "register"} => Expected(c) \in {AnyPeer, peer'[c]}
    <3>1. CASE \E p \in Peers : Handshake(c, p)
      BY <3>1 DEF Handshake
    <3>2. CASE Stream(c)
      BY <3>2 DEF Stream, PeersAreIdentified
    <3>3. CASE Identify(c)
      BY <3>3 DEF Identify
    <3> QED
      BY <2>1, <3>1, <3>2, <3>3
  <2> QED
    BY <2>3, <2>4
<1> HIDE DEF at, state, TransportIInv, TransportTypeOK
<1>4. route' \in [Dials -> Nat] /\ cancelled' \subseteq Calls
  BY <1>2 DEF TransportIInv, TransportTypeOK
<1> QED
  BY <1>1, <1>2, <1>3, <1>4, <1>5, <1>6, CallStep

\* register decides under the mutex: the handle is in the table, or it is closed.
LEMMA ReturnIInv ==
  ASSUME TransportIInv, NEW c \in Calls, Return(c)
  PROVE  TransportIInv'
<1> USE DEF TransportIInv, Return, Registered, Goes, After, closingVars
<1>1. TransportTypeOK'
  BY DEF TransportTypeOK, Stages
<1>2. HandlesAreHeld' /\ ReturnedAreKnown'
  BY DEF TransportTypeOK, HandlesAreHeld, ReturnedAreKnown, Bare
<1>3. ClosedStayClosed' /\ CloseProgress'
  BY DEF TransportTypeOK, ClosedStayClosed, CloseProgress
<1>4. RoutesAreTaken' /\ PeersAreIdentified'
  BY DEF TransportTypeOK, RoutesAreTaken, PeersAreIdentified, Calls, Paths, Expected
<1> QED
  BY <1>1, <1>2, <1>3, <1>4

\* What a user does with the handle it was given, and the end of a context.
LEMMA UserSteps ==
  ASSUME TransportIInv, NEW c \in Calls, Cancel(c) \/ CloseHandle(c) \/ Unregister(c)
  PROVE  TransportIInv'
<1> USE DEF TransportIInv, Cancel, CloseHandle, Unregister, After, closingVars
<1>1. TransportTypeOK'
  BY DEF TransportTypeOK
<1>2. HandlesAreHeld' /\ ReturnedAreKnown'
  BY DEF TransportTypeOK, HandlesAreHeld, ReturnedAreKnown, ClosedStayClosed
<1>3. ClosedStayClosed' /\ CloseProgress'
  BY DEF TransportTypeOK, ClosedStayClosed, CloseProgress
<1>4. RoutesAreTaken' /\ PeersAreIdentified'
  BY DEF TransportTypeOK, RoutesAreTaken, PeersAreIdentified, Calls, Paths, Expected
<1> QED
  BY <1>1, <1>2, <1>3, <1>4

\* Close moves the whole table to its closers and then runs them one by one.
LEMMA CloseSteps ==
  ASSUME TransportIInv, BeginClose \/ EndClose \/ \E c \in Calls : RunCloser(c)
  PROVE  TransportIInv'
<1> USE DEF TransportIInv, BeginClose, EndClose, RunCloser
<1>1. TransportTypeOK'
  BY DEF TransportTypeOK
<1>2. HandlesAreHeld' /\ ReturnedAreKnown'
  BY DEF TransportTypeOK, HandlesAreHeld, ReturnedAreKnown, CloseProgress
<1>3. ClosedStayClosed' /\ CloseProgress'
  BY DEF TransportTypeOK, ClosedStayClosed, CloseProgress
<1>4. RoutesAreTaken' /\ PeersAreIdentified'
  BY DEF TransportTypeOK, RoutesAreTaken, PeersAreIdentified, Calls, Paths, Expected
<1> QED
  BY <1>1, <1>2, <1>3, <1>4

\* Every step of the transport preserves the inductive invariant.
LEMMA TransportNextIInv == TransportIInv /\ [TransportNext]_transportVars => TransportIInv'
<1> SUFFICES ASSUME TransportIInv, [TransportNext]_transportVars PROVE TransportIInv'
  OBVIOUS
<1>1. CASE UNCHANGED transportVars
  BY <1>1 DEF transportVars, closingVars, TransportIInv, TransportTypeOK, HandlesAreHeld,
              ReturnedAreKnown, ClosedStayClosed, CloseProgress, RoutesAreTaken, PeersAreIdentified, Paths, Expected
<1>2. CASE \E d \in Dials : BeginDial(d) \/ NextRoute(d)
  BY <1>2, EarlySteps, CallFacts
<1>3. CASE \E l \in Listens : BeginListen(l)
  BY <1>3, EarlySteps, CallFacts
<1>4. CASE \E a \in Accepts : AcceptFails(a)
  BY <1>4, EarlySteps, CallFacts
<1>5. CASE \E c \in Calls : Check(c) \/ NoHandshake(c) \/ GiveUp(c)
  BY <1>5, EarlySteps
<1>6. CASE \E d \in Dials : Identify(d)
  BY <1>6, HandleSteps, CallFacts
<1>7. CASE \E a \in Accepts : \E p \in Peers : Accept(a, p)
  BY <1>7, HandleSteps, CallFacts
<1>8. CASE \E c \in Calls : Bind(c) \/ Stream(c) \/ \E p \in Peers : Handshake(c, p)
  BY <1>8, HandleSteps
<1>9. CASE \E c \in Calls : Return(c)
  BY <1>9, ReturnIInv
<1>10. CASE \E c \in Calls : Cancel(c) \/ CloseHandle(c) \/ Unregister(c)
  BY <1>10, UserSteps
<1>11. CASE BeginClose \/ EndClose \/ \E c \in Calls : RunCloser(c)
  BY <1>11, CloseSteps
<1> QED
  BY <1>1, <1>2, <1>3, <1>4, <1>5, <1>6, <1>7, <1>8, <1>9, <1>10, <1>11
     DEF TransportNext, External

-----------------------------------------------------------------------------
\* The inductive invariant of the transport: who holds a handle at each stage of
\* Dial, Listen and Accept, and how far Close is.
THEOREM TransportInvariance == TransportSpec => []TransportIInv
<1>1. TransportInit => TransportIInv
  BY TransportInitIInv
<1>2. TransportIInv /\ [TransportNext]_transportVars => TransportIInv'
  BY TransportNextIInv
<1> QED
  BY <1>1, <1>2, PTL DEF TransportSpec

\* The calls, the table of closers and the handles keep their types.
THEOREM TransportTypeCorrect == TransportSpec => []TransportTypeOK
<1>1. TransportIInv => TransportTypeOK
  BY DEF TransportIInv
<1> QED
  BY <1>1, TransportInvariance, PTL

\* Close leaves nothing open, whatever dials, listens and accepts are under way:
\* the handle of a call that returned is in the table or closed, that of a call
\* that failed is closed (quic.go: register, Dial, Listen, Accept and Close).
THEOREM NothingEscapesClose == TransportSpec => []NothingLeaks
<1>1. TransportIInv => NothingLeaks
  <2> SUFFICES ASSUME TransportIInv, NEW c \in Calls, raw[c] = "open", pc[c] \in Ended
               PROVE  /\ pc[c] = "returned" /\ c \in registered \cup closers
                      /\ closing # "done"
    BY DEF NothingLeaks
  <2>1. pc[c] = "returned"
    BY DEF TransportIInv, HandlesAreHeld, Bare, Ended
  <2>2. c \in registered \cup closers
    BY <2>1 DEF TransportIInv, ReturnedAreKnown
  <2>3. closing # "done"
    BY <2>2 DEF TransportIInv, CloseProgress
  <2> QED
    BY <2>1, <2>2, <2>3
<1> QED
  BY <1>1, TransportInvariance, PTL

\* What PathStrategy makes of a single candidate.
LEMMA SelectFacts ==
  ASSUME NEW c
  PROVE  /\ c.sameLAN => Select(<<c>>) = Choice("direct-lan", LANAddr(c))
         /\ ~c.sameLAN /\ c.overlay # NoAddr => Select(<<c>>) = Choice("overlay-wg", c.overlay)
         /\ ~c.sameLAN /\ c.overlay = NoAddr /\ c.hints # <<>> => Select(<<c>>) = Choice("planet-relay", c.hints[1])
<1> DEFINE usable(i) == <<c>>[i].sameLAN \/ <<c>>[i].overlay # NoAddr \/ <<c>>[i].hints # <<>>
           chosen == CHOOSE i \in DOMAIN <<c>> : usable(i) /\ \A j \in 1..i - 1 : ~usable(j)
<1>1. DOMAIN <<c>> = {1} /\ <<c>>[1] = c /\ 1..1 - 1 = {}
  OBVIOUS
<1> SUFFICES ASSUME usable(1)
             PROVE  Select(<<c>>) = IF c.sameLAN THEN Choice("direct-lan", LANAddr(c))
                                    ELSE IF c.overlay # NoAddr THEN Choice("overlay-wg", c.overlay)
                                    ELSE Choice("planet-relay", c.hints[1])
  BY <1>1
<1>2. chosen = 1
  BY <1>1
<1> QED
  BY <1>1, <1>2 DEF Select

\* The route a dial is on is the one PathStrategy would choose without those it
\* has tried.
LEMMA TakenIsCheapest ==
  ASSUME NEW d \in Dials, route[d] \in Paths(d)
  PROVE  Path(d) = Select(<<WithoutRoutes(Candidate[d], Tried(d))>>)
<1> DEFINE c == Candidate[d]
           r == route[d]
           bad == Tried(d)
           w == WithoutRoutes(c, bad)
           lan == Choice("direct-lan", LANAddr(c))
           overlay == Choice("overlay-wg", c.overlay)
           relay(i) == Choice("planet-relay", c.hints[i])
           left == {i \in DOMAIN c.hints : c.hints[i] # NoAddr /\ relay(i) \notin bad}
<1>1. /\ c.hints \in Seq(Addresses \cup {NoAddr}) /\ c.sameLAN \in BOOLEAN
      /\ DOMAIN Routes(c) = 1..(Len(c.hints) + 2) /\ Routes(c)[1] = lan /\ Routes(c)[2] = overlay
      /\ \A i \in DOMAIN c.hints : i + 2 \in DOMAIN Routes(c) /\ Routes(c)[i + 2] = relay(i)
  BY RouteFacts
<1>2. c \in [peer : Peers \cup {AnyPeer}, sameLAN : BOOLEAN, direct : Addresses \cup {NoAddr},
             overlay : Addresses \cup {NoAddr}, hints : Seq(Addresses \cup {NoAddr})]
  BY TransportAssumption
<1>3. Path(d) = Routes(c)[r] /\ r \in candidatePaths(c)
  BY DEF Path, Paths
<1>4. bad = {Routes(c)[i] : i \in {j \in candidatePaths(c) : j < r}} \ {Routes(c)[r]}
  BY DEF Tried, Path, Paths
<1> HIDE DEF c, r, bad
<1>5. /\ w.sameLAN = (c.sameLAN /\ LANAddr(c) # AnyPeer /\ lan \notin bad)
      /\ w.overlay = (IF overlay \in bad THEN NoAddr ELSE c.overlay)
      /\ w.hints = (IF left = {} THEN <<>> ELSE <<c.hints[CHOOSE i \in left : \A j \in left : i <= j]>>)
      /\ w.direct = c.direct /\ w.peer = c.peer
  BY <1>2 DEF WithoutRoutes
<1>6. LANAddr(w) = LANAddr(c)
  BY <1>5 DEF LANAddr
<1> HIDE DEF w, left
<1>7. /\ 1 \in candidatePaths(c) <=> c.sameLAN /\ LANAddr(c) # AnyPeer
      /\ 2 \in candidatePaths(c) <=> c.overlay # NoAddr
      /\ \A i \in DOMAIN c.hints : i + 2 \in candidatePaths(c) <=> c.hints[i] # NoAddr
  <2>1. /\ lan.strategy = "direct-lan" /\ overlay.strategy = "overlay-wg" /\ overlay.endpoint = c.overlay
        /\ \A i : relay(i).strategy = "planet-relay" /\ relay(i).endpoint = c.hints[i]
    BY DEF Choice
  <2>2. 1 \in DOMAIN Routes(c) /\ 2 \in DOMAIN Routes(c)
    <3>1. Len(c.hints) \in Nat
      BY <1>1
    <3> QED
      BY <1>1, <3>1
  <2> HIDE DEF lan, overlay, relay
  <2> QED
    BY <1>1, <2>1, <2>2 DEF candidatePaths
<1>8. lan # overlay /\ \A i : relay(i) # lan /\ relay(i) # overlay
  BY DEF Choice
<1>9. r \in 1..(Len(c.hints) + 2) /\ Len(c.hints) \in Nat /\ DOMAIN c.hints = 1..Len(c.hints)
  BY <1>1, <1>3 DEF candidatePaths
<1> HIDE DEF lan, overlay, relay
<1>10. CASE r = 1
  <2>1. w.sameLAN
    BY <1>3, <1>4, <1>5, <1>7, <1>10, <1>1
  <2>2. Select(<<w>>) = lan
    BY <1>6, <2>1, SelectFacts DEF lan
  <2> QED
    BY <1>1, <1>3, <1>10, <2>2 DEF w, bad, c
<1>11. ASSUME r > 1 PROVE ~w.sameLAN
  <2>1. Routes(c)[r] # lan
    <3>1. CASE r = 2
      BY <1>1, <1>8, <3>1
    <3>2. CASE r > 2
      <4>1. r - 2 \in DOMAIN c.hints /\ (r - 2) + 2 = r
        BY <1>9, <3>2
      <4> QED
        BY <1>1, <1>8, <4>1
    <3> QED
      BY <1>9, <1>11, <3>1, <3>2
  <2>2. 1 \in candidatePaths(c) => lan \in bad
    BY <1>1, <1>4, <1>11, <2>1
  <2> QED
    BY <1>5, <1>7, <2>2
<1>12. CASE r = 2
  <2>1. c.overlay # NoAddr /\ overlay \notin bad
    BY <1>1, <1>3, <1>4, <1>7, <1>12
  <2>2. Select(<<w>>) = overlay
    BY <1>5, <1>11, <1>12, <2>1, SelectFacts DEF overlay
  <2> QED
    BY <1>1, <1>3, <1>12, <2>2 DEF w, bad, c
<1>13. CASE r > 2
  <2>1. r - 2 \in DOMAIN c.hints /\ Routes(c)[r] = relay(r - 2) /\ c.hints[r - 2] # NoAddr
    <3>1. r - 2 \in DOMAIN c.hints /\ (r - 2) + 2 = r
      BY <1>9, <1>13
    <3> QED
      BY <1>1, <1>3, <1>7, <3>1
  <2>2. w.overlay = NoAddr
    <3>1. Routes(c)[r] # overlay
      BY <1>8, <2>1
    <3>2. 2 \in candidatePaths(c) => overlay \in bad
      BY <1>1, <1>4, <1>13, <3>1
    <3> QED
      BY <1>5, <1>7, <3>2
  <2>3. r - 2 \in left
    BY <1>4, <2>1 DEF left
  <2> DEFINE m == CHOOSE i \in left : \A j \in left : i <= j
  <2>4. left \in SUBSET (1..Len(c.hints))
    BY <1>9 DEF left
  <2>5. m \in left /\ m <= r - 2
    <3>1. \E i \in left : \A j \in left : i <= j
      BY <1>9, <2>3, <2>4, LeastExists
    <3> QED
      BY <2>3, <3>1
  <2>6. w.hints = <<c.hints[m]>> /\ w.hints # <<>> /\ w.hints[1] = c.hints[m]
    BY <1>5, <2>3
  <2> HIDE DEF m
  <2>7. m \in DOMAIN c.hints /\ c.hints[m] # NoAddr /\ relay(m) \notin bad
    BY <2>5 DEF left
  <2>8. relay(m) = relay(r - 2)
    <3>1. CASE m = r - 2
      BY <3>1
    <3>2. CASE m # r - 2
      <4>1. m + 2 < r /\ m + 2 \in candidatePaths(c)
        BY <1>7, <1>9, <2>5, <2>7, <3>2
      <4> QED
        BY <1>1, <1>4, <2>1, <2>7, <4>1
    <3> QED
      BY <3>1, <3>2
  <2>9. Select(<<w>>) = relay(m)
    <3>1. ~w.sameLAN
      BY <1>9, <1>11, <1>13
    <3>2. Select(<<w>>) = Choice("planet-relay", w.hints[1])
      BY <2>2, <2>6, <3>1, SelectFacts
    <3> QED
      BY <2>6, <3>2 DEF relay
  <2> QED
    BY <1>3, <2>1, <2>8, <2>9 DEF w, bad, c
<1> QED
  BY <1>9, <1>10, <1>12, <1>13

\* A dial that returned is on one of its routes, with the peer it was asked for.
LEMMA CheapestHolds == TransportIInv => CheapestRouteWins
<1> SUFFICES ASSUME TransportIInv, NEW d \in Dials, pc[d] = "returned"
             PROVE  /\ Path(d) = Select(<<WithoutRoutes(Candidate[d], Tried(d))>>)
                    /\ Expected(d) \in {AnyPeer, peer[d]}
  BY DEF CheapestRouteWins
<1>1. route[d] \in Paths(d)
  BY DEF TransportIInv, RoutesAreTaken
<1> QED
  BY <1>1, TakenIsCheapest DEF TransportIInv, PeersAreIdentified

\* A dial that succeeded went by the route PathStrategy would have chosen had it
\* known the routes that fail, and reached the peer it was asked for
\* (pkg/mesh/fallback.go: Dial; PathStrategy.Select).
THEOREM CheapestRoute == TransportSpec => []CheapestRouteWins
BY CheapestHolds, TransportInvariance, PTL

-----------------------------------------------------------------------------
(***************************************************************************)
(* Artifact delivery.                                                      *)
(***************************************************************************)
\* The types without the job, file by file.
Files == {Old, None} \cup 0..Total
FileTypes == tmp \in Files /\ out \in Files /\ export \in Files /\ nas \in Files /\ evidence \in Files
PipeTypes ==
  /\ producer \in {"idle", "rendering", "streaming", "ok", "failed"}
  /\ got \in 0..sent /\ sent \in 0..Total /\ sent - got <= Cap /\ over \in BOOLEAN /\ body \in 0..Total
StageTypes ==
  /\ stage \in Command \cup Handler \cup EndStages
  /\ sound \in BOOLEAN /\ torn \in BOOLEAN /\ workDir \in BOOLEAN

\* What the renderer has sent at each of its stages.
PipeFacts ==
  /\ producer = "ok" => sent = Total
  /\ producer \in {"idle", "rendering"} => sent = 0

\* Up to the rename: the temporary file is what was received, then a whole file.
BeforeRename ==
  /\ stage \in {"request", "start"} =>
       producer = "idle" /\ tmp = None /\ ~workDir /\ ~torn /\ job.kind # "http"
  /\ stage = "copy" => job.kind = "mp4" /\ producer # "idle" /\ tmp = got /\ ~torn
  /\ stage = "wait" => /\ job.kind = "mp4" /\ producer # "idle"
                       /\ torn \/ (tmp = got /\ got = sent /\ Closed)
  /\ stage = "validate" => job.kind = "mp4" /\ producer = "ok" /\ tmp = Total /\ got = Total
  /\ stage = "render" => job.kind = "xlsx" /\ producer = "idle" /\ sound /\ ~workDir
  /\ stage = "publish" =>
       /\ tmp = Total /\ sound
       /\ \/ job.kind = "mp4" /\ producer = "ok" /\ got = Total
          \/ job.kind = "xlsx" /\ producer = "idle" /\ ~workDir

\* After it: what was asked for of the stages that are over is done.
AfterRename ==
  /\ stage \in {"export", "upload", "evidence"} =>
       job.kind = "mp4" /\ producer = "ok" /\ got = Total /\ tmp = None /\ out = Total
  /\ stage \in {"upload", "evidence"} /\ job.export => export = Total
  /\ stage = "upload" => job.nas # "none"
  /\ stage = "evidence" /\ job.nas # "none" => nas = Total

\* The handler has no files, and has written no more than it received.
Serving ==
  stage \in Handler => job.kind = "http" /\ producer # "idle" /\ tmp = None /\ ~workDir /\ body <= got

DeliveryIInv ==
  /\ job \in Jobs /\ FileTypes /\ PipeTypes /\ StageTypes
  /\ PipeFacts /\ BeforeRename /\ AfterRename /\ Serving
  /\ DeliveredIsWhole /\ NothingLeftBehind

-----------------------------------------------------------------------------
\* What a job may ask for.
LEMMA JobFacts ==
  ASSUME NEW j \in Jobs
  PROVE  /\ j.kind \in {"mp4", "xlsx", "http"} /\ j.skip \in 0..Total
         /\ j.export \in BOOLEAN /\ j.evidence \in BOOLEAN
         /\ j.kind # "mp4" => ~j.export /\ j.nas = "none" /\ ~j.evidence
         /\ j.nas = "none" \/ j.nas \in {"smb", "nfs", "webdav", "s3"}
<1>1. \/ j \in [kind : {"mp4"}, skip : {0}, export : BOOLEAN, nas : Protocols \cup {"none"}, evidence : BOOLEAN]
      \/ j \in [kind : {"xlsx"}, skip : {0}, export : {FALSE}, nas : {"none"}, evidence : {FALSE}]
      \/ j \in [kind : {"http"}, skip : 0..Total, export : {FALSE}, nas : {"none"}, evidence : {FALSE}]
  BY DEF Jobs
<1>2. 0 \in 0..Total
  BY DeliveryAssumption
<1>3. j.nas = "none" \/ j.nas \in {"smb", "nfs", "webdav", "s3"}
  BY <1>1, DeliveryAssumption
<1> QED
  BY <1>1, <1>2, <1>3

\* They are the types.
LEMMA DeliveryTypes == DeliveryTypeOK <=> job \in Jobs /\ FileTypes /\ PipeTypes /\ StageTypes
BY DEF DeliveryTypeOK, FileTypes, PipeTypes, StageTypes, Files

\* The files are chunks or nothing, and the ends of a channel are apart by its room.
LEMMA FileFacts ==
  /\ Old \notin 0..Total /\ None \notin 0..Total /\ Old # None
  /\ Total \in 0..Total /\ 0 \in 0..Total /\ Total # 0
BY DeliveryAssumption DEF Old, None

\* Before anything runs there is at most the file of before.
LEMMA DeliveryInitIInv == DeliveryInit => DeliveryIInv
<1> SUFFICES ASSUME DeliveryInit PROVE DeliveryIInv
  OBVIOUS
<1> USE DeliveryAssumption, FileFacts DEF DeliveryInit
<1>1. job \in Jobs /\ FileTypes /\ PipeTypes /\ StageTypes
  <2>1. job \in Jobs /\ FileTypes
    BY DEF FileTypes, Files
  <2>2. PipeTypes
    <3>1. producer \in {"idle", "rendering"} /\ 0 \in 0..0 /\ 0 - 0 <= Cap
      OBVIOUS
    <3> QED
      BY <3>1 DEF PipeTypes
  <2>3. StageTypes
    BY DEF StageTypes, Command, Handler
  <2> QED
    BY <2>1, <2>2, <2>3
<1>2. PipeFacts /\ BeforeRename /\ AfterRename /\ Serving
  BY JobFacts DEF PipeFacts, BeforeRename, AfterRename, Serving, Handler
<1>3. DeliveredIsWhole /\ NothingLeftBehind
  BY DEF DeliveredIsWhole, NothingLeftBehind, EndStages
<1> QED
  BY <1>1, <1>2, <1>3 DEF DeliveryIInv

\* The goroutine of the renderer.
LEMMA RendererSteps ==
  ASSUME DeliveryIInv, ChildExits \/ SendChunk \/ EndStream \/ BreakStream \/ Expire
  PROVE  DeliveryIInv'
<1> USE DeliveryAssumption
        DEF DeliveryIInv, FileTypes, PipeTypes, StageTypes, Files, fileVars, HasRoom, ChildExits, SendChunk, EndStream, BreakStream, Expire
<1>0. UNCHANGED <<job, stage, sound, torn, body, got, tmp, workDir, out, export, nas, evidence>>
  OBVIOUS
<1>1. FileTypes'
  BY <1>0
<1>7. PipeTypes'
  <2>1. /\ producer' \in {"idle", "rendering", "streaming", "ok", "failed"} /\ over' \in BOOLEAN
        /\ sent' = sent \/ (sent' = sent + 1 /\ sent < Total /\ sent - got < Cap)
    OBVIOUS
  <2>2. sent \in 0..Total /\ got \in 0..sent /\ sent - got <= Cap /\ body \in 0..Total /\ got' = got /\ body' = body
    BY <1>0
  <2>3. sent' \in 0..Total /\ got' \in 0..sent' /\ sent' - got' <= Cap
    BY <2>1, <2>2
  <2> QED
    BY <2>1, <2>2, <2>3
<1>8. StageTypes'
  BY <1>0
<1>2. PipeFacts'
  BY <1>0 DEF PipeFacts
<1>3. BeforeRename'
  BY <1>0 DEF BeforeRename, PipeFacts, Closed
<1>4. AfterRename' /\ Serving'
  BY <1>0 DEF AfterRename, Serving
<1>5. DeliveredIsWhole'
  BY <1>0 DEF DeliveredIsWhole
<1>6. NothingLeftBehind'
  BY <1>0 DEF NothingLeftBehind, EndStages, Closed
<1> QED
  BY <1>0, <1>1, <1>2, <1>3, <1>4, <1>5, <1>6, <1>7, <1>8

\* The command up to the check of what it has rendered.
LEMMA RenderSteps ==
  ASSUME DeliveryIInv,
         \/ Request \/ StartMP4 \/ CopyChunk \/ CopyFails \/ CopyEnds \/ AwaitRenderer \/ ValidateMP4
         \/ StartXLSX \/ RenderXLSX
  PROVE  DeliveryIInv'
<1> USE DeliveryAssumption, FileFacts
        DEF DeliveryIInv, FileTypes, PipeTypes, StageTypes, Files, fileVars, pipeVars, Enter, End, Rendered, Drained, Closed,
            Command, Handler, EndStages,
            Request, StartMP4, CopyChunk, CopyFails, CopyEnds, AwaitRenderer, ValidateMP4, StartXLSX, RenderXLSX
<1>0. UNCHANGED <<job, sound, body, out, export, nas, evidence>>
  OBVIOUS
<1>1. FileTypes'
  BY <1>0 DEF BeforeRename
<1>7. PipeTypes'
  BY <1>0 DEF BeforeRename
<1>8. StageTypes'
  BY <1>0
<1>2. PipeFacts'
  BY <1>0 DEF PipeFacts, BeforeRename
<1>3. BeforeRename'
  <2>1. CASE Request
    BY <1>0, <2>1 DEF BeforeRename
  <2>5. CASE StartMP4
    <3>1. got = 0
      BY <2>5 DEF BeforeRename, PipeFacts
    <3> QED
      BY <1>0, <2>5, <3>1 DEF BeforeRename
  <2>6. CASE StartXLSX
    BY <1>0, <2>6 DEF BeforeRename
  <2>7. CASE RenderXLSX
    BY <1>0, <2>7 DEF BeforeRename
  <2>2. CASE CopyChunk \/ CopyFails \/ CopyEnds
    BY <1>0, <2>2 DEF BeforeRename, PipeFacts
  <2>3. CASE AwaitRenderer
    BY <1>0, <2>3 DEF BeforeRename, PipeFacts
  <2>4. CASE ValidateMP4
    BY <1>0, <2>4 DEF BeforeRename, PipeFacts
  <2> QED
    BY <2>1, <2>2, <2>3, <2>4, <2>5, <2>6, <2>7
<1>4. AfterRename' /\ Serving'
  BY <1>0 DEF AfterRename, Serving
<1>5. DeliveredIsWhole'
  BY <1>0 DEF DeliveredIsWhole
<1>6. NothingLeftBehind'
  BY <1>0 DEF NothingLeftBehind, BeforeRename
<1> QED
  BY <1>0, <1>1, <1>2, <1>3, <1>4, <1>5, <1>6, <1>7, <1>8

\* Where a stage that is over leads.
LEMMA OnwardFacts ==
  /\ Onward(<<"export", "upload", "evidence">>) =>
       \/ stage' = "export" /\ job.export
       \/ stage' = "upload" /\ ~job.export /\ job.nas # "none"
       \/ stage' = "evidence" /\ ~job.export /\ job.nas = "none" /\ job.evidence
       \/ stage' = "done" /\ ~workDir' /\ ~job.export /\ job.nas = "none" /\ ~job.evidence
  /\ Onward(<<"upload", "evidence">>) =>
       \/ stage' = "upload" /\ job.nas # "none"
       \/ stage' = "evidence" /\ job.nas = "none"
       \/ stage' = "done" /\ ~workDir' /\ job.nas = "none" /\ ~job.evidence
  /\ Onward(<<"evidence">>) =>
       stage' = "evidence" \/ (stage' = "done" /\ ~workDir' /\ ~job.evidence)
  /\ \A stages : Onward(stages) => tmp' = None /\ workDir' \in {workDir, FALSE}
<1> DEFINE StopsAfter(s) == stage' = "done" /\ ~workDir' /\ \A i \in DOMAIN s : ~Asked(s[i])
           GoesTo(s, i) == stage' = s[i] /\ Asked(s[i]) /\ \A k \in 1..i - 1 : ~Asked(s[k])
<1> HIDE DEF StopsAfter, GoesTo
<1> USE DEF Asked, Enter, End
<1>1. ASSUME NEW s, Onward(s)
      PROVE  /\ tmp' = None /\ workDir' \in {workDir, FALSE}
             /\ StopsAfter(s) \/ \E i \in DOMAIN s : GoesTo(s, i)
  BY <1>1 DEF Onward, StopsAfter, GoesTo
<1>2. ASSUME Onward(<<"export", "upload", "evidence">>)
      PROVE  \/ stage' = "export" /\ job.export
             \/ stage' = "upload" /\ ~job.export /\ job.nas # "none"
             \/ stage' = "evidence" /\ ~job.export /\ job.nas = "none" /\ job.evidence
             \/ stage' = "done" /\ ~workDir' /\ ~job.export /\ job.nas = "none" /\ ~job.evidence
  <2> DEFINE s == <<"export", "upload", "evidence">>
  <2>1. DOMAIN s = 1..3 /\ s[1] = "export" /\ s[2] = "upload" /\ s[3] = "evidence"
    OBVIOUS
  <2>2. Onward(s)
    BY <1>2
  <2>3. tmp' = None /\ (StopsAfter(s) \/ \E i \in DOMAIN s : GoesTo(s, i))
    BY <1>1, <2>2
  <2> HIDE DEF s
  <2>4. ASSUME NEW i \in DOMAIN s, GoesTo(s, i), NEW k \in DOMAIN s, k < i PROVE ~Asked(s[k])
    BY <2>1, <2>4 DEF GoesTo
  <2> QED
    BY <2>1, <2>3, <2>4 DEF StopsAfter, GoesTo
<1>3. ASSUME Onward(<<"upload", "evidence">>)
      PROVE  \/ stage' = "upload" /\ job.nas # "none"
             \/ stage' = "evidence" /\ job.nas = "none"
             \/ stage' = "done" /\ ~workDir' /\ job.nas = "none" /\ ~job.evidence
  <2> DEFINE s == <<"upload", "evidence">>
  <2>1. DOMAIN s = 1..2 /\ s[1] = "upload" /\ s[2] = "evidence"
    OBVIOUS
  <2>2. Onward(s)
    BY <1>3
  <2>3. tmp' = None /\ (StopsAfter(s) \/ \E i \in DOMAIN s : GoesTo(s, i))
    BY <1>1, <2>2
  <2> HIDE DEF s
  <2>4. ASSUME NEW i \in DOMAIN s, GoesTo(s, i), NEW k \in DOMAIN s, k < i PROVE ~Asked(s[k])
    BY <2>1, <2>4 DEF GoesTo
  <2> QED
    BY <2>1, <2>3, <2>4 DEF StopsAfter, GoesTo
<1>4. ASSUME Onward(<<"evidence">>)
      PROVE  stage' = "evidence" \/ (stage' = "done" /\ ~workDir' /\ ~job.evidence)
  <2> DEFINE s == <<"evidence">>
  <2>1. DOMAIN s = 1..1 /\ s[1] = "evidence"
    OBVIOUS
  <2>2. Onward(s)
    BY <1>4
  <2>3. tmp' = None /\ (StopsAfter(s) \/ \E i \in DOMAIN s : GoesTo(s, i))
    BY <1>1, <2>2
  <2> HIDE DEF s
  <2>4. ASSUME NEW i \in DOMAIN s, GoesTo(s, i), NEW k \in DOMAIN s, k < i PROVE ~Asked(s[k])
    BY <2>1, <2>4 DEF GoesTo
  <2> QED
    BY <2>1, <2>3, <2>4 DEF StopsAfter, GoesTo
<1> QED
  BY <1>1, <1>2, <1>3, <1>4

\* A stage after the rename, or the rename itself: what it may leave.
LEMMA PublishedStep ==
  ASSUME DeliveryIInv, stage \in {"publish", "export", "upload", "evidence"},
         UNCHANGED <<job, producer, sent, got, over, sound, torn, body>>,
         tmp' = None, workDir' \in BOOLEAN,
         out' \in {Old, Total}, out' = Total => sound,
         export' \in Files, nas' \in Files, evidence' \in Files,
         stage' \in {"failed", "done", "export", "upload", "evidence"},
         stage' \in {"failed", "done"} => ~workDir',
         stage' # "failed" => out' = Total,
         stage' \in {"export", "upload", "evidence"} => job.kind = "mp4",
         stage' = "upload" => job.nas # "none",
         stage' \in {"upload", "evidence", "done"} /\ job.export => export' = Total,
         stage' \in {"evidence", "done"} /\ job.nas # "none" => nas' = Total,
         stage' = "done" /\ job.evidence => evidence' = Total
  PROVE  DeliveryIInv'
<1> USE FileFacts DEF DeliveryIInv
<1>1. producer \in {"idle", "ok"} /\ (job.kind = "mp4" => producer = "ok" /\ got = Total)
  BY DEF BeforeRename, AfterRename
<1>2. job' \in Jobs /\ FileTypes' /\ PipeTypes' /\ StageTypes'
  BY DEF FileTypes, Files, PipeTypes, StageTypes, Command, Handler, EndStages
<1>3. PipeFacts' /\ BeforeRename'
  BY DEF PipeFacts, BeforeRename
<1>4. AfterRename'
  BY <1>1 DEF AfterRename
<1>5. Serving'
  BY DEF Serving, Handler
<1>6. DeliveredIsWhole'
  BY DEF DeliveredIsWhole
<1>7. NothingLeftBehind'
  BY <1>1 DEF NothingLeftBehind, EndStages, Closed
<1> QED
  BY <1>2, <1>3, <1>4, <1>5, <1>6, <1>7

\* The rename, the export, the upload and the evidence.
LEMMA PublishSteps ==
  ASSUME DeliveryIInv, Publish \/ Export \/ Upload \/ WriteEvidence
  PROVE  DeliveryIInv'
<1> USE FileFacts DEF DeliveryIInv, End, Enter
<1>0. /\ UNCHANGED <<job, producer, sent, got, over, sound, torn, body>>
      /\ workDir \in BOOLEAN /\ out \in {Old, Total} /\ (out = Total => sound)
      /\ export \in Files /\ nas \in Files /\ evidence \in Files
      /\ {None, 0, Total, Old} \subseteq Files
      /\ job.kind \in {"mp4", "xlsx", "http"} /\ job.export \in BOOLEAN
      /\ job.kind # "mp4" => ~job.export /\ job.nas = "none" /\ ~job.evidence
  BY JobFacts DEF Publish, Export, Upload, WriteEvidence, pipeVars, FileTypes, StageTypes, DeliveredIsWhole, Files
<1>1. CASE Publish
  <2>1. /\ stage = "publish" /\ tmp = Total /\ sound /\ UNCHANGED <<export, nas, evidence>>
        /\ \/ out' = Total /\ Onward(<<"export", "upload", "evidence">>)
           \/ stage' = "failed" /\ tmp' = None /\ ~workDir' /\ workDir' \in BOOLEAN /\ out' = out
    BY <1>1 DEF Publish, BeforeRename
  <2> HIDE DEF DeliveryIInv
  <2>2. CASE stage' = "failed" /\ tmp' = None /\ ~workDir' /\ workDir' \in BOOLEAN /\ out' = out
    BY <1>0, <2>1, <2>2, PublishedStep
  <2>3. CASE out' = Total /\ Onward(<<"export", "upload", "evidence">>)
    <3>1. /\ tmp' = None /\ workDir' \in BOOLEAN
          /\ stage' \in {"failed", "done", "export", "upload", "evidence"}
          /\ stage' = "done" => ~workDir'
      BY <1>0, <2>3, OnwardFacts
    <3>2. /\ stage' \in {"export", "upload", "evidence"} => job.kind = "mp4"
          /\ stage' = "upload" => job.nas # "none"
          /\ stage' \in {"upload", "evidence", "done"} => ~job.export
          /\ stage' \in {"evidence", "done"} => job.nas = "none"
          /\ stage' = "done" => ~job.evidence
      BY <1>0, <2>3, OnwardFacts
    <3>3. stage' # "failed"
      BY <2>3, OnwardFacts
    <3> QED
      BY <1>0, <2>1, <2>3, <3>1, <3>2, <3>3, PublishedStep
  <2> QED
    BY <2>1, <2>2, <2>3
<1>2. CASE Export
  <2>1. /\ stage = "export" /\ job.kind = "mp4" /\ out = Total /\ UNCHANGED <<out, nas, evidence>>
        /\ \/ export' = Total /\ Onward(<<"upload", "evidence">>)
           \/ export' \in {None, 0} /\ stage' = "failed" /\ tmp' = None /\ ~workDir' /\ workDir' \in BOOLEAN
    BY <1>2 DEF Export, AfterRename
  <2> HIDE DEF DeliveryIInv
  <2> QED
    BY <1>0, <2>1, OnwardFacts, PublishedStep
<1>3. CASE Upload
  <2>1. /\ stage = "upload" /\ job.kind = "mp4" /\ out = Total /\ UNCHANGED <<out, export, evidence>>
        /\ job.export => export = Total
    BY <1>3 DEF Upload, AfterRename
  <2>2. PICK there \in LeftBy(job.nas) \cup {Total} :
          /\ nas' = there
          /\ \/ there = Total /\ Onward(<<"evidence">>)
             \/ stage' = "failed" /\ tmp' = None /\ ~workDir' /\ workDir' \in BOOLEAN
    BY <1>3 DEF Upload, Uploaded
  <2>3. nas' \in Files
    <3>1. 0..Total - 1 \subseteq 0..Total
      BY DeliveryAssumption
    <3>2. job.nas \in {"smb", "nfs", "webdav", "s3"}
      BY <1>3, JobFacts DEF Upload, BeforeRename, AfterRename
    <3> QED
      BY <2>2, <3>1, <3>2 DEF LeftBy, SMBLeaves, NFSLeaves, WebDAVLeaves, S3Leaves, Files
  <2> HIDE DEF DeliveryIInv
  <2> QED
    BY <1>0, <2>1, <2>2, <2>3, OnwardFacts, PublishedStep
<1>4. CASE WriteEvidence
  <2>1. /\ stage = "evidence" /\ job.kind = "mp4" /\ out = Total /\ got = Total /\ UNCHANGED <<out, export, nas>>
        /\ job.export => export = Total
        /\ job.nas # "none" => nas = Total
        /\ \/ stage' = "done" /\ evidence' = got
           \/ stage' = "failed" /\ evidence' = evidence
        /\ tmp' = None /\ ~workDir' /\ workDir' \in BOOLEAN
    BY <1>4 DEF WriteEvidence, AfterRename
  <2> HIDE DEF DeliveryIInv
  <2> QED
    BY <1>0, <2>1, PublishedStep
<1> QED
  BY <1>1, <1>2, <1>3, <1>4

\* The handler, and the end of the process.
LEMMA ServeSteps ==
  ASSUME DeliveryIInv, ServeChunk \/ ServeBreaks \/ DrainChunk \/ ServeEnds \/ Kill
  PROVE  DeliveryIInv'
<1> USE DeliveryAssumption, FileFacts
        DEF DeliveryIInv, FileTypes, PipeTypes, StageTypes, Files, fileVars, pipeVars, Enter, Closed, Drained, Command, Handler, EndStages,
            AfterBrokenWrite, ServeChunk, ServeBreaks, DrainChunk, ServeEnds, Kill
<1>0. UNCHANGED <<job, sound, torn, sent, tmp, workDir, out, export, nas, evidence>>
  OBVIOUS
<1>1. FileTypes'
  BY <1>0 DEF Serving
<1>7. PipeTypes'
  <2>1. /\ producer' \in {"idle", "rendering", "streaming", "ok", "failed"} /\ over' \in BOOLEAN
        /\ got' = got \/ (got' = got + 1 /\ got < sent)
        /\ body' = body \/ (body' = body + 1 /\ got' = got + 1 /\ got < sent /\ body <= got)
    BY DEF Serving
  <2>2. sent \in 0..Total /\ got \in 0..sent /\ sent - got <= Cap /\ body \in 0..Total /\ sent' = sent
    BY <1>0
  <2>3. got' \in 0..sent' /\ sent' - got' <= Cap /\ body' \in 0..Total
    BY <2>1, <2>2
  <2> QED
    BY <2>1, <2>2, <2>3
<1>8. StageTypes'
  BY <1>0
<1>2. PipeFacts'
  BY <1>0 DEF PipeFacts
<1>3. BeforeRename' /\ AfterRename'
  BY <1>0 DEF BeforeRename, AfterRename
<1>4. Serving'
  BY <1>0 DEF Serving
<1>5. DeliveredIsWhole'
  BY <1>0 DEF DeliveredIsWhole
<1>6. NothingLeftBehind'
  BY <1>0 DEF NothingLeftBehind, Serving
<1> QED
  BY <1>0, <1>1, <1>2, <1>3, <1>4, <1>5, <1>6, <1>7, <1>8

\* Every step of a command, a handler or its renderer preserves their inductive
\* invariant.
LEMMA DeliveryNextIInv == DeliveryIInv /\ [DeliveryNext]_deliveryVars => DeliveryIInv'
<1> SUFFICES ASSUME DeliveryIInv, [DeliveryNext]_deliveryVars PROVE DeliveryIInv'
  OBVIOUS
<1>1. CASE UNCHANGED deliveryVars
  BY <1>1 DEF deliveryVars, DeliveryIInv, FileTypes, PipeTypes, StageTypes, PipeFacts, BeforeRename, AfterRename, Serving,
              DeliveredIsWhole, NothingLeftBehind, Closed
<1>2. CASE DeliveryNext
  BY <1>2, RendererSteps, RenderSteps, PublishSteps, ServeSteps DEF DeliveryNext
<1> QED
  BY <1>1, <1>2

\* The inductive invariant of an invocation: its files, its pipe and its stages.
THEOREM DeliveryInvariance == DeliverySpec => []DeliveryIInv
<1>1. DeliveryInit => DeliveryIInv
  BY DeliveryInitIInv
<1>2. DeliveryIInv /\ [DeliveryNext]_deliveryVars => DeliveryIInv'
  BY DeliveryNextIInv
<1> QED
  BY <1>1, <1>2, PTL DEF DeliverySpec

\* Whatever fails, and whenever the process is killed, the output path holds the
\* file of before or a whole artifact that passed its check; a success has put
\* all that was asked for where it was asked for; and no renderer, temporary
\* file or directory is left (cmd/soyaos: agent invoke; pkg/artifact; pkg/openaicompat).
THEOREM InvocationsDeliver == DeliverySpec => []InvocationsEndWell
<1>1. DeliveryIInv => InvocationsEndWell
  BY DEF DeliveryIInv, InvocationsEndWell
<1> QED
  BY <1>1, DeliveryInvariance, PTL

-----------------------------------------------------------------------------
(***************************************************************************)
(* Short links.                                                            *)
(***************************************************************************)
\* A call is about a URL.
CallsHaveURLs == \A s \in Shorteners : shortening[s].at # "idle" => shortening[s].url \in URLs

\* What a call has found free is still free for it, or contested.
FreeOrContested ==
  \A s \in Shorteners : shortening[s].at = "put" =>
    \/ links[CodeOf[shortening[s].url]] \in {NoURL, shortening[s].url}
    \/ CodeOf[shortening[s].url] \in contested

\* Two URLs that are about to be put under one code contest it.
RivalsContest ==
  \A s, r \in Shorteners :
    /\ shortening[s].at = "put" /\ shortening[r].at = "put"
    /\ shortening[s].url # shortening[r].url
    /\ CodeOf[shortening[s].url] = CodeOf[shortening[r].url]
    => CodeOf[shortening[s].url] \in contested

LinksIInv == LinksTypeOK /\ CallsHaveURLs /\ FreeOrContested /\ RivalsContest /\ LinksResolve

\* Without links and calls there is nothing to contest.
LEMMA LinksInitIInv == LinksInit => LinksIInv
<1> SUFFICES ASSUME LinksInit PROVE LinksIInv
  OBVIOUS
<1> USE DEF LinksInit
<1>1. LinksTypeOK
  BY DEF LinksTypeOK
<1>2. CallsHaveURLs /\ FreeOrContested /\ RivalsContest /\ LinksResolve
  BY DEF CallsHaveURLs, FreeOrContested, RivalsContest, LinksResolve
<1> QED
  BY <1>1, <1>2 DEF LinksIInv

\* A call that starts, is refused, or fails changes nothing but itself.
LEMMA LinksCallStep ==
  ASSUME LinksIInv, NEW s \in Shorteners,
         \/ \E u \in URLs : Shorten(s, u)
         \/ ShortenFails(s)
         \/ CheckCode(s) /\ ~Free(shortening[s].url)
  PROVE  LinksIInv'
<1> USE DEF LinksIInv, LinksTypeOK, Shorten, ShortenFails, CheckCode, Resting
<1>1. UNCHANGED <<links, handed, contested>>
  OBVIOUS
<1>2. PICK k \in [at : {"idle", "check"}, url : URLs \cup {NoURL}] :
        /\ shortening' = [shortening EXCEPT ![s] = k]
        /\ k.at # "idle" => k.url \in URLs
  <2>1. CASE \E u \in URLs : Shorten(s, u)
    BY <2>1
  <2>2. CASE ShortenFails(s) \/ (CheckCode(s) /\ ~Free(shortening[s].url))
    BY <2>2
  <2> QED
    BY <2>1, <2>2
<1>3. LinksTypeOK'
  BY <1>1, <1>2 DEF Codes
<1>4. CallsHaveURLs' /\ FreeOrContested' /\ RivalsContest'
  BY <1>1, <1>2 DEF CallsHaveURLs, FreeOrContested, RivalsContest
<1>5. LinksResolve'
  BY <1>1 DEF LinksResolve, Resolve
<1> QED
  BY <1>3, <1>4, <1>5

\* The collision check passes: rivals of another URL make the code contested.
LEMMA LinksCheckStep ==
  ASSUME LinksIInv, NEW s \in Shorteners, CheckCode(s), Free(shortening[s].url)
  PROVE  LinksIInv'
<1> DEFINE k == [shortening[s] EXCEPT !.at = "put"]
<1> USE DEF LinksIInv, LinksTypeOK, CheckCode
<1>1. /\ shortening' = [shortening EXCEPT ![s] = k]
      /\ k.at = "put" /\ k.url = shortening[s].url /\ k.url \in URLs
      /\ k \in [at : {"idle", "check", "put"}, url : URLs \cup {NoURL}]
      /\ UNCHANGED <<links, handed>>
  BY DEF CallsHaveURLs
<1>2. /\ contested \subseteq contested' /\ contested' \subseteq Codes
      /\ Rivals(s, k.url) # {} => CodeOf[k.url] \in contested'
  BY <1>1 DEF Codes
<1>3. \A r \in Shorteners \ {s} :
        /\ shortening[r].at = "put" /\ shortening[r].url # k.url
        /\ CodeOf[shortening[r].url] = CodeOf[k.url]
        => CodeOf[k.url] \in contested'
  BY <1>2 DEF Rivals
<1>4. links[CodeOf[k.url]] \in {NoURL, k.url}
  BY <1>1 DEF Free
<1> HIDE DEF k, CheckCode
<1>5. LinksTypeOK'
  BY <1>1, <1>2 DEF Codes
<1>6. CallsHaveURLs'
  BY <1>1 DEF CallsHaveURLs
<1>7. FreeOrContested'
  BY <1>1, <1>2, <1>4 DEF FreeOrContested
<1>8. RivalsContest'
  BY <1>1, <1>2, <1>3 DEF RivalsContest
<1>9. LinksResolve'
  BY <1>1, <1>2 DEF LinksResolve, Resolve
<1> QED
  BY <1>5, <1>6, <1>7, <1>8, <1>9

\* The Put takes nobody's code away, unless it is contested.
LEMMA LinksPutStep ==
  ASSUME LinksIInv, NEW s \in Shorteners, PutCode(s)
  PROVE  LinksIInv'
<1> DEFINE url == shortening[s].url
<1> USE LinksAssumption DEF LinksIInv, LinksTypeOK, PutCode
<1>1. url \in URLs /\ CodeOf[url] \in Codes /\ shortening[s].at = "put"
  BY DEF CallsHaveURLs, Codes
<1>2. /\ links' = [links EXCEPT ![CodeOf[url]] = url]
      /\ handed' = handed \cup {url} /\ contested' = contested
      /\ shortening' = [shortening EXCEPT ![s] = Resting]
  OBVIOUS
<1>3. links[CodeOf[url]] \in {NoURL, url} \/ CodeOf[url] \in contested
  BY <1>1 DEF FreeOrContested
<1> USE DEF Resting
<1>4. LinksTypeOK'
  BY <1>1, <1>2
<1>5. CallsHaveURLs'
  BY <1>2 DEF CallsHaveURLs
<1>6. FreeOrContested'
  <2> SUFFICES ASSUME NEW r \in Shorteners, shortening'[r].at = "put"
               PROVE  \/ links'[CodeOf[shortening'[r].url]] \in {NoURL, shortening'[r].url}
                      \/ CodeOf[shortening'[r].url] \in contested'
    BY DEF FreeOrContested
  <2>1. r # s /\ shortening'[r] = shortening[r] /\ CodeOf[shortening[r].url] \in Codes
    BY <1>2 DEF CallsHaveURLs, Codes
  <2>2. CASE CodeOf[shortening[r].url] = CodeOf[url]
    BY <1>1, <1>2, <2>1, <2>2 DEF RivalsContest
  <2>3. CASE CodeOf[shortening[r].url] # CodeOf[url]
    BY <1>1, <1>2, <2>1, <2>3 DEF FreeOrContested
  <2> QED
    BY <2>2, <2>3
<1>7. RivalsContest'
  BY <1>2 DEF RivalsContest
<1>8. LinksResolve'
  <2> SUFFICES ASSUME NEW u \in handed'
               PROVE  links'[CodeOf[u]] = u \/ CodeOf[u] \in contested
    BY <1>2 DEF LinksResolve, Resolve
  <2>1. CASE u = url
    BY <1>1, <1>2, <2>1
  <2>2. CASE u # url
    <3>1. u \in handed /\ u \in URLs /\ CodeOf[u] \in Codes
      BY <1>2, <2>2 DEF Codes
    <3>2. links[CodeOf[u]] = u \/ CodeOf[u] \in contested
      BY <3>1 DEF LinksResolve, Resolve
    <3> QED
      BY <1>1, <1>2, <1>3, <2>2, <3>1, <3>2
  <2> QED
    BY <2>1, <2>2
<1> QED
  BY <1>4, <1>5, <1>6, <1>7, <1>8

\* Every step of the short links preserves their inductive invariant.
LEMMA LinksNextIInv == LinksIInv /\ [LinksNext]_linksVars => LinksIInv'
<1> SUFFICES ASSUME LinksIInv, [LinksNext]_linksVars PROVE LinksIInv'
  OBVIOUS
<1>1. CASE UNCHANGED linksVars
  BY <1>1 DEF linksVars, LinksIInv, LinksTypeOK, CallsHaveURLs, FreeOrContested, RivalsContest,
              LinksResolve, Resolve
<1>2. CASE LinksNext
  <2> PICK s \in Shorteners : (\E u \in URLs : Shorten(s, u)) \/ CheckCode(s) \/ PutCode(s) \/ ShortenFails(s)
    BY <1>2 DEF LinksNext
  <2> QED
    BY LinksCallStep, LinksCheckStep, LinksPutStep
<1> QED
  BY <1>1, <1>2

\* The inductive invariant of the short links: what a call found free is free
\* still or contested, and rivals contest their code.
THEOREM LinksInvariance == LinksSpec => []LinksIInv
<1>1. LinksInit => LinksIInv
  BY LinksInitIInv
<1>2. LinksIInv /\ [LinksNext]_linksVars => LinksIInv'
  BY LinksNextIInv
<1> QED
  BY <1>1, <1>2, PTL DEF LinksSpec

\* A short link leads to the URL it was made for unless two URLs of one code
\* were put at a time (pkg/shortlink: Shorten).
THEOREM LinksLead == LinksSpec => []LinksResolve
<1>1. LinksIInv => LinksResolve
  BY DEF LinksIInv
<1> QED
  BY <1>1, LinksInvariance, PTL

-----------------------------------------------------------------------------
(***************************************************************************)
(* The event log.                                                          *)
(***************************************************************************)
\* The calls that are on their way.
Offering(a) == appending[a].at # "idle"
Putting(a)  == appending[a].at = "put"

\* The log is finite, with one entry for a time and one for an event.
EntriesDiffer ==
  /\ IsFiniteSet(log)
  /\ \A r, q \in log : r.nano = q.nano \/ r.event = q.event => r = q

\* What is in the log has returned, and what had returned when a call was made
\* has returned.
HistoryGrows ==
  /\ returned \subseteq DOMAIN before
  /\ \A r \in log : r.event \in returned
  /\ \A e \in DOMAIN before : before[e] \subseteq returned

\* Each call is about an event of its own, which has not returned.
CallsDiffer ==
  /\ \A a \in Appenders : Offering(a) => appending[a].event \in DOMAIN before \ returned
  /\ \A a, b \in Appenders : Offering(a) /\ Offering(b) /\ appending[a].event = appending[b].event => a = b

\* The times of this process are behind it, and are each given to one event.
TimesDiffer ==
  /\ \A r \in log : r.start = starts => r.nano <= lastNano
  /\ \A a \in Appenders : Putting(a) =>
       /\ appending[a].nano <= lastNano
       /\ \A r \in log : r.start = starts => r.nano # appending[a].nano
  /\ \A a, b \in Appenders : Putting(a) /\ Putting(b) /\ appending[a].nano = appending[b].nano => a = b

\* A time that was given lies after the entries of earlier processes and after
\* those that had returned before.
TimesFollow ==
  \A a \in Appenders : Putting(a) => \A r \in log :
    r.start < starts \/ r.event \in before[appending[a].event] => r.nano < appending[a].nano

\* Every event that was accepted is there, and after those accepted before it.
LogKeeps ==
  /\ \A e \in returned : \E r \in log : r.event = e
  /\ \A r, q \in log : r.event \in before[q.event] => r.nano < q.nano

EpisodesIInv ==
  /\ EpisodesTypeOK /\ EntriesDiffer /\ HistoryGrows /\ CallsDiffer /\ TimesDiffer
  /\ ~behind => TimesFollow /\ LogKeeps

-----------------------------------------------------------------------------
\* An empty log and no calls.
LEMMA EpisodesInitIInv == EpisodesInit => EpisodesIInv
<1> SUFFICES ASSUME EpisodesInit PROVE EpisodesIInv
  OBVIOUS
<1> USE DEF EpisodesInit, Done
<1>1. EpisodesTypeOK
  <2>1. before \in Seq(SUBSET Events) /\ 0 \in 0..MaxStarts
    BY EpisodesAssumption
  <2>2. appending \in [Appenders -> [at : {"idle", "time", "put"}, event : Events \cup {0}, nano : Nat]]
    OBVIOUS
  <2> QED
    BY <2>1, <2>2 DEF EpisodesTypeOK
<1>2. EntriesDiffer
  BY FS_EmptySet DEF EntriesDiffer
<1>3. HistoryGrows /\ CallsDiffer /\ TimesDiffer
  BY DEF HistoryGrows, CallsDiffer, TimesDiffer, Offering, Putting
<1>4. TimesFollow /\ LogKeeps
  BY DEF TimesFollow, LogKeeps, Putting
<1> QED
  BY <1>1, <1>2, <1>3, <1>4 DEF EpisodesIInv

\* A call begins: it is about an event nobody has spoken of.
LEMMA Append1Step ==
  ASSUME EpisodesIInv, NEW a \in Appenders, NEW nano \in 1..MaxNano, Append1(a, nano)
  PROVE  EpisodesIInv'
<1> USE DEF EpisodesIInv, EpisodesTypeOK
<1> DEFINE n == Len(before) + 1
           k == [at |-> "time", event |-> n, nano |-> nano]
<1>1. /\ n \in Events /\ n \in Nat /\ n \notin DOMAIN before
      /\ nano \in Nat /\ appending[a].at = "idle"
  BY EpisodesAssumption DEF Append1, Events
<1>2. /\ before' = Append(before, returned) /\ before' \in Seq(SUBSET Events)
      /\ DOMAIN before' = DOMAIN before \cup {n} /\ before'[n] = returned
      /\ \A e \in DOMAIN before : before'[e] = before[e]
      /\ appending' = [appending EXCEPT ![a] = k]
  BY DEF Append1
<1>3. k \in [at : {"idle", "time", "put"}, event : Events \cup {0}, nano : Nat]
      /\ k.at = "time" /\ k.event = n
  BY <1>1
<1>4. UNCHANGED <<lastNano, log, returned, starts, behind>>
  BY DEF Append1
<1> HIDE DEF k, n
<1>5. EpisodesTypeOK'
  BY <1>2, <1>3, <1>4
<1>6. EntriesDiffer'
  BY <1>4 DEF EntriesDiffer
<1>7. HistoryGrows'
  BY <1>2, <1>4 DEF HistoryGrows
<1>8. CallsDiffer'
  BY <1>1, <1>2, <1>3, <1>4 DEF CallsDiffer, Offering, HistoryGrows
<1>9. TimesDiffer'
  BY <1>2, <1>3, <1>4 DEF TimesDiffer, Putting
<1>10. ASSUME ~behind PROVE TimesFollow' /\ LogKeeps'
  BY <1>2, <1>3, <1>4, <1>10, SMTT(30) DEF TimesFollow, LogKeeps, Putting, Offering, CallsDiffer, HistoryGrows
<1> QED
  BY <1>4, <1>5, <1>6, <1>7, <1>8, <1>9, <1>10

\* A call gets its time, after every time of this process.
LEMMA TakeTimeStep ==
  ASSUME EpisodesIInv, NEW a \in Appenders, TakeTime(a)
  PROVE  EpisodesIInv'
<1> USE DEF EpisodesIInv, EpisodesTypeOK
<1> DEFINE nano == Later(appending[a].nano)
           k == [appending[a] EXCEPT !.at = "put", !.nano = nano]
<1>1. nano \in Nat /\ lastNano < nano /\ appending[a].at = "time"
  BY DEF TakeTime, Later
<1>2. /\ lastNano' = nano /\ appending' = [appending EXCEPT ![a] = k]
      /\ UNCHANGED <<log, returned, before, starts>>
      /\ behind' \in BOOLEAN
      /\ ~behind' => ~behind /\ \A r \in log : r.start < starts => nano > r.nano
  <2>1. /\ lastNano' = nano /\ appending' = [appending EXCEPT ![a] = k]
        /\ UNCHANGED <<log, returned, before, starts>>
        /\ behind' = (behind \/ \E r \in log : r.start < starts /\ nano <= r.nano)
    BY DEF TakeTime
  <2>2. \A r \in log : r.nano \in Nat
    OBVIOUS
  <2> HIDE DEF nano, k
  <2>3. behind' \in BOOLEAN /\ (~behind' => ~behind /\ \A r \in log : r.start < starts => ~(nano <= r.nano))
    BY <2>1, Zenon
  <2>4. \A r \in log : ~(nano <= r.nano) => nano > r.nano
    BY <1>1, <2>2
  <2> QED
    BY <2>1, <2>3, <2>4
<1>3. k \in [at : {"idle", "time", "put"}, event : Events \cup {0}, nano : Nat]
      /\ k.at = "put" /\ k.event = appending[a].event /\ k.nano = nano
  BY <1>1
<1> HIDE DEF k, nano
<1>4. EpisodesTypeOK'
  BY <1>1, <1>2, <1>3
<1>5. EntriesDiffer' /\ HistoryGrows'
  BY <1>2 DEF EntriesDiffer, HistoryGrows
<1>6. CallsDiffer'
  BY <1>1, <1>2, <1>3 DEF CallsDiffer, Offering
<1>7. TimesDiffer'
  BY <1>1, <1>2, <1>3 DEF TimesDiffer, Putting
<1>8. ASSUME ~behind' PROVE TimesFollow' /\ LogKeeps'
  <2>1. LogKeeps'
    BY <1>2, <1>8 DEF LogKeeps
  <2>2. \A r \in log : r.nano < nano
    BY <1>1, <1>2, <1>8 DEF TimesDiffer
  <2>3. TimesFollow'
    BY <1>2, <1>3, <1>8, <2>2 DEF TimesFollow, Putting
  <2> QED
    BY <2>1, <2>3
<1> QED
  BY <1>4, <1>5, <1>6, <1>7, <1>8

\* The event is in the log, and takes no other's place unless times went back.
LEMMA PutEventStep ==
  ASSUME EpisodesIInv, NEW a \in Appenders, PutEvent(a)
  PROVE  EpisodesIInv'
<1> USE DEF EpisodesIInv, EpisodesTypeOK
<1> DEFINE k == appending[a]
           new == [nano |-> k.nano, event |-> k.event, start |-> starts]
<1>1. /\ k.at = "put" /\ k.nano \in Nat /\ k.event \in DOMAIN before \ returned /\ k.event \in Events
      /\ k.nano <= lastNano
  BY DEF PutEvent, CallsDiffer, Offering, Putting, TimesDiffer, Events
<1>2. /\ log' = {r \in log : r.nano # k.nano} \cup {new}
      /\ returned' = returned \cup {k.event}
      /\ appending' = [appending EXCEPT ![a] = Done]
      /\ UNCHANGED <<lastNano, before, starts, behind>>
  BY DEF PutEvent
<1>3. /\ new \in [nano : Nat, event : Events, start : 0..starts]
      /\ new.nano = k.nano /\ new.event = k.event /\ new.start = starts
  BY <1>1
<1> HIDE DEF new
<1>4. EpisodesTypeOK'
  BY <1>1, <1>2, <1>3 DEF Done
<1>5. EntriesDiffer'
  <2>1. IsFiniteSet({r \in log : r.nano # k.nano})
    BY FS_Subset DEF EntriesDiffer
  <2>2. IsFiniteSet(log')
    BY <1>2, <2>1, FS_AddElement
  <2>3. \A r \in log : r.event # k.event
    BY <1>1 DEF HistoryGrows
  <2> QED
    BY <1>2, <1>3, <2>2, <2>3 DEF EntriesDiffer
<1>6. HistoryGrows'
  BY <1>1, <1>2, <1>3 DEF HistoryGrows
<1>7. CallsDiffer'
  BY <1>1, <1>2 DEF CallsDiffer, Offering, Done
<1>8. TimesDiffer'
  BY <1>1, <1>2, <1>3 DEF TimesDiffer, Putting, Done
<1>9. ASSUME ~behind PROVE TimesFollow' /\ LogKeeps'
  <2>1. \A r \in log : r.nano # k.nano
    <3> SUFFICES ASSUME NEW r \in log PROVE r.nano # k.nano
      OBVIOUS
    <3>1. CASE r.start = starts
      BY <1>1, <3>1 DEF TimesDiffer, Putting
    <3>2. CASE r.start # starts
      <4>1. r.start < starts /\ r.nano \in Nat
        BY <3>2
      <4>2. r.nano < k.nano
        BY <1>1, <1>9, <4>1 DEF TimesFollow, Putting
      <4> QED
        BY <1>1, <4>1, <4>2
    <3> QED
      BY <3>1, <3>2
  <2>2. log' = log \cup {new}
    BY <1>2, <2>1
  <2>3. \A e \in DOMAIN before : k.event \notin before[e]
    BY <1>1 DEF HistoryGrows
  <2>4. TimesFollow'
    <3> SUFFICES ASSUME NEW b \in Appenders, Putting(b)', NEW r \in log',
                        r.start < starts \/ r.event \in before[appending'[b].event]
                 PROVE  r.nano < appending'[b].nano
      BY <1>2 DEF TimesFollow
    <3>1. b # a /\ appending'[b] = appending[b] /\ Putting(b) /\ appending[b].event \in DOMAIN before
      BY <1>2 DEF Putting, Done, CallsDiffer, Offering
    <3>2. r # new
      BY <1>3, <2>3, <3>1
    <3> QED
      BY <1>9, <2>2, <3>1, <3>2 DEF TimesFollow
  <2>5. LogKeeps'
    <3>1. \A e \in returned' : \E r \in log' : r.event = e
      BY <1>2, <1>3, <1>9, <2>2 DEF LogKeeps
    <3>2. \A r, q \in log' : r.event \in before'[q.event] => r.nano < q.nano
      <4> SUFFICES ASSUME NEW r \in log', NEW q \in log', r.event \in before[q.event]
                   PROVE  r.nano < q.nano
        BY <1>2
      <4>1. q.event \in DOMAIN before
        BY <1>1, <1>3, <2>2 DEF HistoryGrows
      <4>2. r \in log
        BY <1>3, <2>2, <2>3, <4>1
      <4>3. CASE q = new
        BY <1>1, <1>3, <1>9, <4>2, <4>3 DEF TimesFollow, Putting
      <4>4. CASE q # new
        BY <1>9, <2>2, <4>2, <4>4 DEF LogKeeps
      <4> QED
        BY <4>3, <4>4
    <3> QED
      BY <3>1, <3>2 DEF LogKeeps
  <2> QED
    BY <2>4, <2>5
<1> QED
  BY <1>2, <1>4, <1>5, <1>6, <1>7, <1>8, <1>9

\* A call fails, or the process ends: the log is as it was.
LEMMA AppendEndsStep ==
  ASSUME EpisodesIInv, (\E a \in Appenders : AppendFails(a)) \/ NewProcess
  PROVE  EpisodesIInv'
<1> USE DEF EpisodesIInv, EpisodesTypeOK, Done
<1>1. CASE \E a \in Appenders : AppendFails(a)
  <2> PICK a \in Appenders : AppendFails(a)
    BY <1>1
  <2>1. /\ appending' = [appending EXCEPT ![a] = Done]
        /\ UNCHANGED <<lastNano, log, returned, before, starts, behind>>
    BY DEF AppendFails
  <2>2. EpisodesTypeOK' /\ EntriesDiffer' /\ HistoryGrows'
    BY <2>1 DEF EntriesDiffer, HistoryGrows
  <2>3. CallsDiffer'
    BY <2>1 DEF CallsDiffer, Offering
  <2>4. TimesDiffer' /\ (TimesFollow => TimesFollow') /\ (LogKeeps => LogKeeps')
    BY <2>1 DEF TimesDiffer, TimesFollow, LogKeeps, Putting
  <2> QED
    BY <2>1, <2>2, <2>3, <2>4
<1>2. CASE NewProcess
  <2>1. /\ appending' = [a \in Appenders |-> Done] /\ lastNano' = 0
        /\ starts' = starts + 1 /\ starts' \in 0..MaxStarts
        /\ UNCHANGED <<log, returned, before, behind>>
    BY <1>2, EpisodesAssumption DEF NewProcess
  <2>2. log \subseteq [nano : Nat, event : Events, start : 0..starts']
    BY <2>1, EpisodesAssumption
  <2>3. EpisodesTypeOK' /\ EntriesDiffer' /\ HistoryGrows'
    BY <2>1, <2>2 DEF EntriesDiffer, HistoryGrows
  <2>4. CallsDiffer'
    BY <2>1 DEF CallsDiffer, Offering
  <2>5. TimesDiffer' /\ TimesFollow' /\ (LogKeeps => LogKeeps')
    BY <2>1 DEF TimesDiffer, TimesFollow, LogKeeps, Putting
  <2> QED
    BY <2>1, <2>3, <2>4, <2>5
<1> QED
  BY <1>1, <1>2

\* Every step of the event log preserves its inductive invariant.
LEMMA EpisodesNextIInv == EpisodesIInv /\ [EpisodesNext]_episodesVars => EpisodesIInv'
<1> SUFFICES ASSUME EpisodesIInv, [EpisodesNext]_episodesVars PROVE EpisodesIInv'
  OBVIOUS
<1>1. CASE UNCHANGED episodesVars
  BY <1>1 DEF episodesVars, EpisodesIInv, EpisodesTypeOK, EntriesDiffer, HistoryGrows, CallsDiffer,
              TimesDiffer, TimesFollow, LogKeeps, Offering, Putting
<1>2. CASE \E a \in Appenders : \E nano \in 1..MaxNano : Append1(a, nano)
  BY <1>2, Append1Step
<1>3. CASE \E a \in Appenders : TakeTime(a)
  BY <1>3, TakeTimeStep
<1>4. CASE \E a \in Appenders : PutEvent(a)
  BY <1>4, PutEventStep
<1>5. CASE (\E a \in Appenders : AppendFails(a)) \/ NewProcess
  BY <1>5, AppendEndsStep
<1> QED
  BY <1>1, <1>2, <1>3, <1>4, <1>5 DEF EpisodesNext

\* Recent gives what the log keeps, in the order of the times.
LEMMA KeptInOrder == EpisodesIInv => HistoryInOrder
<1> SUFFICES ASSUME EpisodesIInv, ~behind
             PROVE  HistoryInOrder
  BY DEF HistoryInOrder
<1> USE DEF EpisodesIInv, EpisodesTypeOK
<1> DEFINE newest == Enumeration(log, {p \in log \X log : p[1].nano > p[2].nano})
           n == Cardinality(log)
           all == Recent(Cardinality(log))
           place(e) == CHOOSE i \in DOMAIN all : all[i].event = e
<1>1. Orders({p \in log \X log : p[1].nano > p[2].nano}, log)
  BY DEF Orders, EntriesDiffer
<1>2. /\ n \in Nat /\ newest \in [1..n -> log]
      /\ \A r \in log : \E k \in 1..n : newest[k] = r
      /\ \A k, l \in 1..n : k < l <=> newest[k].nano > newest[l].nano
  <2>1. IsFiniteSet(log)
    BY DEF EntriesDiffer
  <2>2. /\ n \in Nat /\ newest \in [1..n -> log]
        /\ \A r \in log : \E k \in 1..n : newest[k] = r
        /\ \A k, l \in 1..n : k < l <=> <<newest[k], newest[l]>> \in {p \in log \X log : p[1].nano > p[2].nano}
    BY <1>1, <2>1, EnumerationFacts, ZenonT(30)
  <2> HIDE DEF newest, n
  <2> QED
    BY <2>2
<1> HIDE DEF newest
<1>3. all = newest
  <2>1. newest \in Seq(log) /\ Len(newest) = n
    BY <1>2, LenProperties
  <2>2. SubSeq(newest, 1, Len(newest)) = newest
    BY <2>1, SubSeqProperties
  <2> QED
    BY <1>2, <2>1, <2>2 DEF Recent, newest
<1> HIDE DEF all, n
<1>4. ASSUME NEW e \in returned
      PROVE  place(e) \in DOMAIN all /\ all[place(e)] \in log /\ all[place(e)].event = e
  <2>1. \E i \in DOMAIN all : all[i].event = e
    BY <1>2, <1>3 DEF LogKeeps
  <2> QED
    BY <1>2, <1>3, <2>1
<1>5. ASSUME NEW e \in returned, NEW f \in before[e] PROVE place(e) < place(f)
  <2>1. f \in returned
    BY DEF HistoryGrows
  <2>2. place(e) \in 1..n /\ place(f) \in 1..n
    BY <1>2, <1>3, <1>4, <2>1
  <2>3. all[place(f)].nano < all[place(e)].nano
    BY <1>4, <2>1 DEF LogKeeps
  <2> HIDE DEF place
  <2> QED
    BY <1>2, <1>3, <2>2, <2>3
<1>6. ASSUME NEW e \in returned PROVE \E i \in DOMAIN all : all[i].event = e
  BY <1>4
<1> HIDE DEF place
<1> QED
  BY <1>5, <1>6 DEF HistoryInOrder, place, all

\* The inductive invariant of the event log: its entries, the calls on their way
\* and the times they have taken.
THEOREM EpisodesInvariance == EpisodesSpec => []EpisodesIInv
<1>1. EpisodesInit => EpisodesIInv
  BY EpisodesInitIInv
<1>2. EpisodesIInv /\ [EpisodesNext]_episodesVars => EpisodesIInv'
  BY EpisodesNextIInv
<1> QED
  BY <1>1, <1>2, PTL DEF EpisodesSpec

\* No accepted event is lost, and Recent gives two events that were offered one
\* after the other in that order, whatever the clock shows within a process,
\* unless a process begins behind an earlier one (pkg/memory: Append, Recent).
THEOREM LogInOrder == EpisodesSpec => []HistoryInOrder
BY KeptInOrder, EpisodesInvariance, PTL

-----------------------------------------------------------------------------
(***************************************************************************)
(* The Pack host.                                                          *)
(***************************************************************************)
\* What the variables hold.
HostRecords       == [at : {"idle", "validate", "actions", "nas", "schedules"}, next : Nat \ {0}, publishers : SUBSET Nat]
DeploymentRecords == [m : Manifests, answer : {"none", "invalid", "refused", "deployed"}]
JobRecords(n)     == [deployment : 0..n, publishers : SUBSET Nat]
FireRecords(n)    == [at : {"none", "running", "sending", "done"}, deployment : 0..n,
                      publishers : SUBSET Nat, outcome : {"none", "error", "empty", "body"}, posted : Seq(Nat)]
HostTypes ==
  /\ env \subseteq EnvVars /\ host \in HostRecords /\ deployed \in Seq(DeploymentRecords)
  /\ agent \in 0..Now /\ targets \in [NASIds -> 0..Now]
  /\ wheel \in [JobIndices -> JobRecords(Now)] /\ persisted \subseteq JobIndices
  /\ fires \in [1..MaxFires -> FireRecords(Now)]

\* The manifests that get an agent.
Accepted == {m \in Manifests : Validate(m) /\ Registrable(m)}

\* The channels of a deployment that were given a publisher, and those of them
\* that have a token.
Publishers(d) == {i \in DOMAIN deployed[d].m.channels : Publishes(deployed[d].m.channels[i])}
HasToken(d, i)    == deployed[d].m.channels[i].token # NoRef

\* The deployment under way has passed the checks of the stages behind it, and
\* its jobs get its publishers.
DeploymentAdvances ==
  /\ host.at # "idle" => Now >= 1
  /\ host.at \in {"actions", "nas", "schedules"} => M \in Accepted
  /\ host.at = "schedules" => host.publishers = Publishers(Now)

\* A job has the publishers of its deployment.
JobsPublish ==
  \A k \in {wheel[i] : i \in JobIndices} \ {NoJob} :
    k.deployment \in 1..Now /\ k.publishers = Publishers(k.deployment)

\* Of all the publishers of a deployment some are left, which come after the
\* others; those of the others that have a token have been posted to, in order.
PostedInOrder(posted, d, left) ==
  /\ left \subseteq Publishers(d)
  /\ {posted[k] : k \in DOMAIN posted} = {i \in Publishers(d) \ left : HasToken(d, i)}
  /\ \A k, l \in DOMAIN posted : k < l => posted[k] < posted[l]
  /\ \A i \in Publishers(d) \ left : \A j \in left : i < j

\* How far each fire has come.
FireAdvances(k) ==
  /\ k.at # "none" => k.deployment \in 1..Now
  /\ k.at = "running" => k.publishers = Publishers(k.deployment) /\ k.posted = <<>>
  /\ k.at = "sending" => k.outcome = "body" /\ PostedInOrder(k.posted, k.deployment, k.publishers)
  /\ k.at = "done" => IF k.outcome = "body" THEN PostedInOrder(k.posted, k.deployment, {}) ELSE k.posted = <<>>
FiresAdvance == \A k \in {fires[f] : f \in 1..MaxFires} : FireAdvances(k)

HostIInv ==
  /\ HostTypes /\ DeploymentAdvances /\ AcceptedPacksRegister /\ JobsPublish /\ FiresAdvance

-----------------------------------------------------------------------------
\* The lists of a manifest.
LEMMA ManifestFacts ==
  ASSUME NEW m \in Manifests
  PROVE  \A list \in {m.steps, m.schedules, m.channels, m.actions, m.nas} :
           Len(list) \in Nat /\ DOMAIN list = 1..Len(list)
BY HostAssumption

\* The deployments there have been: each has its manifest.
LEMMA DeploymentFacts ==
  ASSUME HostTypes
  PROVE  /\ Now \in Nat /\ DOMAIN deployed = 1..Now
         /\ \A d \in 1..Now : deployed[d].m \in Manifests /\ Publishers(d) \subseteq Nat
<1>1. Now \in Nat /\ DOMAIN deployed = 1..Now /\ \A d \in 1..Now : deployed[d].m \in Manifests
  <2>1. deployed \in Seq(DeploymentRecords)
    BY DEF HostTypes
  <2>2. Now \in Nat /\ DOMAIN deployed = 1..Now
    BY <2>1, LenProperties DEF Now
  <2>3. \A d \in 1..Now : deployed[d] \in DeploymentRecords
    BY <2>1, <2>2, ElementOfSeq DEF Now
  <2> QED
    BY <2>2, <2>3 DEF DeploymentRecords
<1>2. ASSUME NEW d \in 1..Now PROVE Publishers(d) \subseteq Nat
  <2>1. DOMAIN deployed[d].m.channels \subseteq Nat
    BY <1>1, ManifestFacts
  <2> QED
    BY <2>1 DEF Publishers
<1> QED
  BY <1>1, <1>2

\* A later state of the same deployments, and perhaps one more.
Keeps ==
  /\ UNCHANGED env /\ Now' \in Nat /\ Now <= Now'
  /\ \A d \in 1..Now : deployed'[d].m = deployed[d].m

\* An answer changes no manifest.
LEMMA AnswerFacts ==
  ASSUME HostTypes, NEW text \in {"refused", "invalid", "deployed"}, Answer(text), Now >= 1, UNCHANGED env
  PROVE  /\ Keeps /\ Now' = Now /\ host' = NoDeployment
         /\ deployed' \in Seq(DeploymentRecords)
         /\ \A d \in 1..Now : deployed'[d].answer = IF d = Now THEN text ELSE deployed[d].answer
<1>1. Now \in 1..Now
  BY DeploymentFacts
<1>2. deployed' = [deployed EXCEPT ![Now].answer = text] /\ host' = NoDeployment
  BY DEF Answer
<1>3. deployed \in Seq(DeploymentRecords)
  BY DEF HostTypes
<1>4. DOMAIN deployed = 1..Len(deployed) /\ Len(deployed) \in Nat /\ Now = Len(deployed)
  BY <1>3 DEF Now
<1> DEFINE r == [deployed[Now] EXCEPT !.answer = text]
<1>5. r \in DeploymentRecords
      /\ r.m = deployed[Now].m /\ r.answer = text
  <2>1. deployed[Now] \in DeploymentRecords
    BY <1>1, <1>3, <1>4, ElementOfSeq
  <2> QED
    BY <2>1 DEF DeploymentRecords
<1>6. deployed' = [deployed EXCEPT ![Now] = r]
  BY <1>2
<1> HIDE DEF r
<1>7. deployed' \in Seq(DeploymentRecords) /\ Len(deployed') = Len(deployed)
  BY <1>1, <1>3, <1>4, <1>5, <1>6
<1>8. \A d \in 1..Now : deployed'[d] = IF d = Now THEN r ELSE deployed[d]
  BY <1>4, <1>6
<1> QED
  BY <1>2, <1>4, <1>5, <1>7, <1>8 DEF Keeps, Now

\* Jobs and fires that stay are about the same deployments.
LEMMA KeptFacts ==
  ASSUME HostIInv, Keeps
  PROVE  /\ \A d \in 1..Now : Publishers(d)' = Publishers(d) /\ \A i : HasToken(d, i)' = HasToken(d, i)
         /\ UNCHANGED wheel => JobsPublish'
         /\ \A k : FireAdvances(k) => FireAdvances(k)'
         /\ UNCHANGED fires => FiresAdvance'
<1>1. \A d \in 1..Now : Publishers(d)' = Publishers(d) /\ \A i : HasToken(d, i)' = HasToken(d, i)
  BY DEF Keeps, Publishers, HasToken, Publishes, Resolves
<1>2. 1..Now \subseteq 1..Now'
  BY DeploymentFacts DEF Keeps, HostIInv
<1>3. ASSUME UNCHANGED wheel PROVE JobsPublish'
  <2> SUFFICES ASSUME NEW k \in {wheel[i] : i \in JobIndices} \ {NoJob}
               PROVE  k.deployment \in 1..Now' /\ k.publishers = Publishers(k.deployment)'
    BY <1>3 DEF JobsPublish
  <2>1. k.deployment \in 1..Now /\ k.publishers = Publishers(k.deployment)
    BY DEF HostIInv, JobsPublish
  <2> QED
    BY <1>1, <1>2, <2>1
<1>4. ASSUME NEW k, FireAdvances(k) PROVE FireAdvances(k)'
  <2>1. CASE k.at = "none"
    BY <2>1 DEF FireAdvances
  <2>2. CASE k.at # "none"
    <3>1. k.deployment \in 1..Now
      BY <1>4, <2>2 DEF FireAdvances
    <3> HIDE DEF HostIInv
    <3>2. /\ Publishers(k.deployment)' = Publishers(k.deployment)
          /\ \A i : HasToken(k.deployment, i)' = HasToken(k.deployment, i)
      BY <1>1, <3>1
    <3>3. \A posted, left : PostedInOrder(posted, k.deployment, left)' <=> PostedInOrder(posted, k.deployment, left)
      BY <3>2 DEF PostedInOrder
    <3> QED
      BY <1>2, <1>4, <3>1, <3>2, <3>3 DEF FireAdvances
  <2> QED
    BY <2>1, <2>2
<1>5. ASSUME UNCHANGED fires PROVE FiresAdvance'
  <2> SUFFICES ASSUME NEW k \in {fires[f] : f \in 1..MaxFires} PROVE FireAdvances(k)'
    BY <1>5 DEF FiresAdvance
  <2>1. FireAdvances(k)
    BY DEF HostIInv, FiresAdvance
  <2> QED
    BY <1>4, <2>1
<1> QED
  BY <1>1, <1>3, <1>4, <1>5

-----------------------------------------------------------------------------
\* Nothing is deployed and nothing fires.
LEMMA HostInitIInv == HostInit => HostIInv
<1> SUFFICES ASSUME HostInit PROVE HostIInv
  OBVIOUS
<1> USE DEF HostInit, NoDeployment, NoJob, NoFire, Now, HostRecords, JobRecords, FireRecords
<1>1. HostTypes
  <2>1. /\ deployed \in Seq(DeploymentRecords) /\ Now = 0
        /\ host \in HostRecords
    BY EmptySeq
  <2>2. /\ wheel \in [JobIndices -> JobRecords(Now)]
        /\ targets \in [NASIds -> 0..Now] /\ agent \in 0..Now
    BY <2>1
  <2>3. NoFire \in FireRecords(Now)
    BY <2>1
  <2>4. env \subseteq EnvVars /\ persisted \subseteq JobIndices
    OBVIOUS
  <2> HIDE DEF NoFire
  <2> QED
    BY <2>1, <2>2, <2>3, <2>4 DEF HostTypes
<1>2. DeploymentAdvances /\ AcceptedPacksRegister /\ JobsPublish
  BY DEF DeploymentAdvances, AcceptedPacksRegister, JobsPublish
<1>3. FiresAdvance
  BY DEF FiresAdvance, FireAdvances
<1> QED
  BY <1>1, <1>2, <1>3 DEF HostIInv

\* What Validate accepts and the kernel refuses lacks a model id or a file.
Excused(m) ==
  \/ m.kind # "Agent" \/ m.model = ""
  \/ \E f \in Declared(m) \ {NoFile} : ~Holds(m, f)

\* What Validate accepts and the kernel does not register has an excuse.
LEMMA RefusalIsExcused ==
  ASSUME NEW m \in Manifests, Validate(m), ~Registrable(m)
  PROVE  Excused(m)
<1> SUFFICES ASSUME m.kind = "Agent", m.model # "" PROVE \E f \in Declared(m) \ {NoFile} : ~Holds(m, f)
  BY DEF Excused
<1>1. AgentValid(m)
  BY DEF Validate, KindValid
<1>2. /\ (m.entry = NoFile) = HasSteps(m) /\ StepsValid(m) /\ m.expose /\ m.model = "soya:slug"
      /\ TableValid(m, Len(m.steps))
  BY <1>1 DEF AgentValid
<1>3. TableValid(m, IF m.entry # NoFile THEN 1 ELSE Len(m.steps))
  <2>1. CASE m.entry = NoFile
    BY <1>2, <2>1
  <2>2. CASE m.entry # NoFile
    <3>1. Len(m.steps) = 0
      BY <1>2, <2>2 DEF HasSteps
    <3> QED
      BY <1>2, <3>1 DEF TableValid
  <2> QED
    BY <2>1, <2>2
<1>4. \/ m.entry # NoFile /\ ~HasFile(m, m.entry)
      \/ \E i \in DOMAIN m.steps : ~HasFile(m, m.steps[i].prompt)
  BY <1>2, <1>3 DEF Registrable
<1> QED
  BY <1>2, <1>4 DEF Declared, Holds, StepsValid

\* So has a pack with an action that does not load.
LEMMA ActionRefusalIsExcused ==
  ASSUME NEW m \in Manifests, Validate(m), NEW i \in DOMAIN m.actions, ~ActionLoads(m, m.actions[i])
  PROVE  Excused(m)
<1> DEFINE a == m.actions[i]
<1>1. ActionValid(a)
  BY DEF Validate
<1>2. \E f \in {a.handler, a.review, a.plan} \ {NoFile} : ~Holds(m, f)
  BY <1>1 DEF ActionValid, ActionLoads, Holds
<1>3. {a.handler, a.review, a.plan} \subseteq Declared(m)
  BY DEF Declared
<1> QED
  BY <1>2, <1>3 DEF Excused

\* A deployment ends with an answer; a refusal has its excuse.
LEMMA AnswerStep ==
  ASSUME HostIInv, Now >= 1, NEW text \in {"refused", "invalid", "deployed"}, Answer(text),
         text = "refused" => Excused(M),
         UNCHANGED <<env, agent, targets, wheel, persisted, fires>>
  PROVE  HostIInv'
<1> USE DEF HostIInv, HostRecords, JobRecords, FireRecords
<1>1. /\ Keeps /\ Now' = Now /\ host' = NoDeployment
      /\ deployed' \in Seq(DeploymentRecords)
      /\ \A d \in 1..Now : deployed'[d].answer = IF d = Now THEN text ELSE deployed[d].answer
  BY AnswerFacts
<1>2. HostTypes'
  BY <1>1 DEF HostTypes, NoDeployment
<1>3. DeploymentAdvances'
  BY <1>1 DEF DeploymentAdvances, NoDeployment
<1>4. AcceptedPacksRegister'
  <2>1. DOMAIN deployed = 1..Now /\ DOMAIN deployed' = 1..Now
    BY <1>1, <1>2, DeploymentFacts DEF HostTypes, Now
  <2>2. \A d \in 1..Now : deployed[d].answer = "refused" => Excused(deployed[d].m)
    BY <2>1 DEF AcceptedPacksRegister, Excused
  <2>3. \A d \in 1..Now : deployed'[d].answer = "refused" => Excused(deployed'[d].m)
    BY <1>1, <2>2 DEF Keeps, M
  <2> QED
    BY <2>1, <2>3 DEF AcceptedPacksRegister, Excused
<1>5. JobsPublish' /\ FiresAdvance'
  BY <1>1, KeptFacts
<1> QED
  BY <1>2, <1>3, <1>4, <1>5

\* A deployment begins.
LEMMA DeployStep ==
  ASSUME HostIInv, NEW m \in Manifests, Deploy(m)
  PROVE  HostIInv'
<1> USE DEF HostIInv, HostRecords, JobRecords, FireRecords
<1>1. /\ deployed' = Append(deployed, [m |-> m, answer |-> "none"])
      /\ host' = [at |-> "validate", next |-> 1, publishers |-> {}]
      /\ UNCHANGED <<env, agent, targets, wheel, persisted, fires>>
  BY DEF Deploy, NoDeployment
<1>2. /\ deployed' \in Seq(DeploymentRecords)
      /\ Now' = Now + 1 /\ Now \in Nat
      /\ \A d \in 1..Now : deployed'[d] = deployed[d]
      /\ deployed'[Now + 1].answer = "none"
      /\ DOMAIN deployed = 1..Now /\ DOMAIN deployed' = 1..Now + 1
  <2> DEFINE r == [m |-> m, answer |-> "none"]
  <2>1. r \in DeploymentRecords /\ r.answer = "none"
    BY DEF DeploymentRecords
  <2>2. deployed \in Seq(DeploymentRecords) /\ deployed' = Append(deployed, r)
    BY <1>1 DEF HostTypes
  <2> HIDE DEF r, HostIInv
  <2>3. /\ deployed' \in Seq(DeploymentRecords) /\ Len(deployed') = Len(deployed) + 1
        /\ \A d \in 1..Len(deployed) : deployed'[d] = deployed[d]
        /\ deployed'[Len(deployed) + 1] = r
    BY <2>1, <2>2, AppendProperties
  <2>4. Len(deployed) \in Nat /\ DOMAIN deployed = 1..Len(deployed) /\ DOMAIN deployed' = 1..Len(deployed')
    BY <2>2, <2>3, LenProperties
  <2> QED
    BY <2>1, <2>3, <2>4 DEF Now
<1>3. Keeps
  BY <1>1, <1>2 DEF Keeps
<1>4. HostTypes'
  <2>1. 0..Now \subseteq 0..Now'
    BY <1>2
  <2>2. /\ env' \subseteq EnvVars /\ persisted' \subseteq JobIndices
        /\ host' \in HostRecords
    BY <1>1 DEF HostTypes
  <2>3. /\ wheel' \in [JobIndices -> JobRecords(Now')]
        /\ targets' \in [NASIds -> 0..Now'] /\ agent' \in 0..Now'
    BY <1>1, <2>1 DEF HostTypes
  <2>4. fires' \in [1..MaxFires ->
               FireRecords(Now')]
    BY <1>1, <2>1 DEF HostTypes
  <2> QED
    BY <1>2, <2>2, <2>3, <2>4 DEF HostTypes
<1>5. DeploymentAdvances'
  BY <1>1, <1>2 DEF DeploymentAdvances
<1>6. AcceptedPacksRegister'
  <2>1. \A d \in 1..Now : deployed[d].answer = "refused" => Excused(deployed[d].m)
    BY <1>2 DEF AcceptedPacksRegister, Excused
  <2>2. \A d \in 1..Now + 1 : deployed'[d].answer = "refused" => Excused(deployed'[d].m)
    <3> TAKE d \in 1..Now + 1
    <3>1. d \in 1..Now \/ d = Now + 1
      BY <1>2
    <3> QED
      BY <1>2, <2>1, <3>1
  <2> QED
    BY <1>2, <2>2 DEF AcceptedPacksRegister, Excused
<1>7. JobsPublish' /\ FiresAdvance'
  BY <1>1, <1>3, KeptFacts
<1> QED
  BY <1>4, <1>5, <1>6, <1>7

\* The stages of a deployment before the schedules, up to an answer.
LEMMA StageSteps ==
  ASSUME HostIInv, RegisterPack \/ LoadActions \/ BindNAS \/ BindChannels \/ Refuse \/ Deployed
  PROVE  HostIInv'
<1> USE DEF HostIInv, HostRecords, JobRecords, FireRecords
<1>1. CASE \E text \in {"refused", "invalid", "deployed"} :
             Now >= 1 /\ Answer(text) /\ (text = "refused" => Excused(M))
             /\ UNCHANGED <<env, agent, targets, wheel, persisted, fires>>
  <2> HIDE DEF HostIInv
  <2> QED
    BY <1>1, AnswerStep
<1>0. /\ Now \in Nat /\ DOMAIN deployed = 1..Now
      /\ host.at # "idle" => Now >= 1 /\ M \in Manifests
  BY DeploymentFacts DEF M, DeploymentAdvances
<1>2. ASSUME UNCHANGED <<env, deployed, wheel, persisted, fires>>,
             NEW at \in {"actions", "nas", "schedules"}, NEW next \in Nat \ {0}, NEW publishers \in SUBSET Nat,
             host' = [at |-> at, next |-> next, publishers |-> publishers],
             agent' \in 0..Now, targets' \in [NASIds -> 0..Now],
             Now >= 1, M \in Accepted,
             at = "schedules" => publishers = Publishers(Now)
      PROVE  HostIInv'
  <2>1. Now' = Now /\ Keeps
    BY <1>0, <1>2 DEF Now, Keeps
  <2>2. HostTypes'
    BY <1>2, <2>1 DEF HostTypes
  <2>3. DeploymentAdvances'
    <3>1. M' = M /\ Publishers(Now)' = Publishers(Now)
      BY <1>2, <2>1 DEF M, Publishers, Publishes, Resolves, Now
    <3>2. M' \in Accepted
      BY <1>2, <3>1
    <3> QED
      BY <1>2, <2>1, <3>1, <3>2 DEF DeploymentAdvances
  <2>4. AcceptedPacksRegister'
    BY <1>2 DEF AcceptedPacksRegister
  <2>5. JobsPublish' /\ FiresAdvance'
    BY <1>2, <2>1, KeptFacts
  <2> QED
    BY <2>2, <2>3, <2>4, <2>5
<1>3. CASE RegisterPack
  <2>1. /\ host' = [at |-> "actions", next |-> host.next, publishers |-> host.publishers]
        /\ host.next \in Nat \ {0} /\ host.publishers \in SUBSET Nat
        /\ agent' = Now /\ targets' \in [NASIds -> 0..Now]
        /\ Now >= 1 /\ M \in Accepted
        /\ UNCHANGED <<env, deployed, wheel, persisted, fires>>
    BY <1>3, <1>0 DEF RegisterPack, HostTypes, Accepted
  <2> QED
    BY <1>0, <1>2, <2>1
<1>4. CASE LoadActions
  <2>1. CASE \A i \in DOMAIN M.actions : ActionLoads(M, M.actions[i])
    <3>1. /\ host' = [at |-> "nas", next |-> host.next, publishers |-> host.publishers]
          /\ host.next \in Nat \ {0} /\ host.publishers \in SUBSET Nat
          /\ agent' \in 0..Now /\ targets' \in [NASIds -> 0..Now]
          /\ Now >= 1 /\ M \in Accepted
          /\ UNCHANGED <<env, deployed, wheel, persisted, fires>>
      BY <1>4, <1>0, <2>1 DEF LoadActions, HostTypes, DeploymentAdvances
    <3> QED
      BY <1>2, <3>1
  <2>2. CASE ~\A i \in DOMAIN M.actions : ActionLoads(M, M.actions[i])
    <3>1. Now >= 1 /\ M \in Manifests /\ Validate(M)
      BY <1>4, <1>0 DEF LoadActions, DeploymentAdvances, Accepted
    <3>2. Excused(M)
      BY <2>2, <3>1, ActionRefusalIsExcused
    <3> QED
      BY <1>1, <1>4, <2>2, <3>1, <3>2 DEF LoadActions
  <2> QED
    BY <2>1, <2>2
<1>5. CASE BindNAS
  <2> DEFINE n == M.nas[host.next]
  <2>1. /\ host' = [at |-> "nas", next |-> host.next + 1, publishers |-> host.publishers]
        /\ host.next \in Nat \ {0} /\ host.next + 1 \in Nat \ {0} /\ host.publishers \in SUBSET Nat
        /\ agent' \in 0..Now /\ M \in Manifests /\ host.next <= Len(M.nas)
        /\ Now >= 1 /\ M \in Accepted
        /\ UNCHANGED <<env, deployed, wheel, persisted, fires>>
    <3>1. host \in HostRecords
      BY DEF HostTypes
    <3>2. /\ host.at = "nas" /\ host' = [host EXCEPT !.next = @ + 1] /\ host.next <= Len(M.nas)
          /\ UNCHANGED <<env, agent, deployed, wheel, persisted, fires>>
      BY <1>5 DEF BindNAS
    <3>3. host' = [at |-> "nas", next |-> host.next + 1, publishers |-> host.publishers]
      BY <3>1, <3>2
    <3> QED
      BY <1>0, <3>1, <3>2, <3>3, SMTT(30) DEF HostTypes, DeploymentAdvances, Accepted
  <2>2. TargetId(n) \in NASIds /\ Now \in 0..Now
    <3>1. host.next \in DOMAIN M.nas
      BY <2>1, ManifestFacts
    <3> QED
      BY <1>0, <2>1, <3>1 DEF NASIds
  <2>3. targets' \in [NASIds -> 0..Now]
    BY <1>5, <2>2 DEF BindNAS, HostTypes
  <2> QED
    BY <1>2, <2>1, <2>3
<1>6. CASE BindChannels
  <2>1. /\ host' = [at |-> "schedules", next |-> 1, publishers |-> Publishers(Now)]
        /\ Publishers(Now) \in SUBSET Nat
        /\ agent' \in 0..Now /\ targets' \in [NASIds -> 0..Now]
        /\ Now >= 1 /\ M \in Accepted
        /\ UNCHANGED <<env, deployed, wheel, persisted, fires>>
    BY <1>6, <1>0, DeploymentFacts DEF BindChannels, HostTypes, DeploymentAdvances, Publishers, M
  <2> QED
    BY <1>2, <2>1
<1>7. CASE Refuse
  <2>1. Now >= 1 /\ M \in Manifests
    BY <1>0, <1>7 DEF Refuse
  <2> QED
    BY <1>1, <1>7, <2>1, RefusalIsExcused DEF Refuse
<1>8. CASE Deployed
  BY <1>0, <1>1, <1>8 DEF Deployed
<1> QED
  BY <1>3, <1>4, <1>5, <1>6, <1>7, <1>8

\* A job gets the publishers of the deployment under way.
LEMMA AddScheduleStep ==
  ASSUME HostIInv, AddSchedule
  PROVE  HostIInv'
<1> USE DEF HostIInv, HostRecords, JobRecords, FireRecords
<1> DEFINE i == host.next
           entry == [deployment |-> Now, publishers |-> host.publishers]
<1>1. /\ Now \in Nat /\ Now >= 1 /\ M \in Manifests /\ host.publishers = Publishers(Now)
      /\ M \in Accepted /\ host.publishers \in SUBSET Nat
      /\ i \in Nat \ {0} /\ i <= Len(M.schedules) /\ Now \in 1..Now
  BY DeploymentFacts DEF AddSchedule, M, DeploymentAdvances, HostTypes, Accepted
<1>2. i \in JobIndices
  <2>1. i \in DOMAIN M.schedules
    BY <1>1, ManifestFacts
  <2> QED
    BY <1>1, <2>1 DEF JobIndices
<1>3. /\ host' = [at |-> "schedules", next |-> host.next + 1, publishers |-> host.publishers]
      /\ UNCHANGED <<env, agent, targets, fires, deployed>>
      /\ wheel' = wheel \/ wheel' = [wheel EXCEPT ![i] = entry]
      /\ persisted' \subseteq JobIndices
  BY <1>2 DEF AddSchedule, HostTypes
<1>4. entry \in JobRecords(Now) /\ entry.deployment = Now /\ entry.publishers = host.publishers
  BY <1>1
<1> HIDE DEF entry
<1>5. Now' = Now /\ Keeps
  BY <1>1, <1>3 DEF Now, Keeps
<1>11. wheel \in [JobIndices -> JobRecords(Now)]
  BY DEF HostTypes
<1>6. HostTypes'
  <2>1. wheel' \in [JobIndices -> JobRecords(Now)]
    BY <1>3, <1>4, <1>11
  <2>2. host' \in HostRecords
    BY <1>1, <1>3
  <2> QED
    BY <1>3, <1>5, <2>1, <2>2 DEF HostTypes
<1>7. DeploymentAdvances'
  <2>1. M' = M /\ Publishers(Now)' = Publishers(Now)
    BY <1>3, <1>5 DEF M, Publishers, Publishes, Resolves, Now
  <2>2. M' \in Accepted
    BY <1>1, <2>1
  <2> QED
    BY <1>1, <1>3, <1>5, <2>1, <2>2 DEF DeploymentAdvances
<1>8. AcceptedPacksRegister'
  BY <1>3 DEF AcceptedPacksRegister
<1>9. FiresAdvance'
  BY <1>3, <1>5, KeptFacts
<1>10. JobsPublish'
  <2> SUFFICES ASSUME NEW k \in {wheel'[j] : j \in JobIndices} \ {NoJob}
               PROVE  k.deployment \in 1..Now' /\ k.publishers = Publishers(k.deployment)'
    BY DEF JobsPublish, NoJob
  <2>1. k = entry \/ k \in {wheel[j] : j \in JobIndices}
    BY <1>2, <1>3, <1>11
  <2>2. k.deployment \in 1..Now /\ k.publishers = Publishers(k.deployment)
    BY <1>1, <1>4, <2>1 DEF JobsPublish
  <2> HIDE DEF HostIInv
  <2> QED
    BY <1>5, <2>2, KeptFacts
<1> QED
  BY <1>6, <1>7, <1>8, <1>9, <1>10

-----------------------------------------------------------------------------
\* A step of one fire.
LEMMA FireStep ==
  ASSUME HostIInv, NEW f \in 1..MaxFires, NEW k, FireAdvances(k),
         k \in FireRecords(Now),
         fires' = [fires EXCEPT ![f] = k],
         UNCHANGED <<env, host, agent, targets, wheel, persisted, deployed>>
  PROVE  HostIInv'
<1> USE DEF HostIInv
<1>1. Now' = Now /\ Keeps
  BY DeploymentFacts DEF Now, Keeps
<1>2. HostTypes'
  BY <1>1 DEF HostTypes
<1>3. DeploymentAdvances'
  <2>1. M' = M /\ Publishers(Now)' = Publishers(Now)
    BY <1>1 DEF M, Publishers, Publishes, Resolves, Now
  <2>2. M' \in Accepted <=> M \in Accepted
    BY <2>1
  <2> QED
    BY <1>1, <2>1, <2>2 DEF DeploymentAdvances
<1>4. AcceptedPacksRegister'
  BY DEF AcceptedPacksRegister
<1>5. JobsPublish'
  BY <1>1, KeptFacts
<1>6. FiresAdvance'
  <2> SUFFICES ASSUME NEW o \in {fires'[g] : g \in 1..MaxFires} PROVE FireAdvances(o)'
    BY DEF FiresAdvance
  <2>0. DOMAIN fires = 1..MaxFires
    BY DEF HostTypes
  <2>1. o = k \/ o \in {fires[g] : g \in 1..MaxFires}
    BY <2>0
  <2>3. FireAdvances(o)
    BY <2>1 DEF FiresAdvance
  <2> HIDE DEF HostIInv
  <2> QED
    BY <1>1, <2>3, KeptFacts
<1> QED
  BY <1>2, <1>3, <1>4, <1>5, <1>6

\* What a fire starts with.
LEMMA StartFacts ==
  ASSUME NEW n, NEW o \in FireRecords(n), NEW d, NEW p
  PROVE  [o EXCEPT !.at = "running", !.deployment = d, !.publishers = p]
           = [at |-> "running", deployment |-> d, publishers |-> p, outcome |-> o.outcome, posted |-> o.posted]
<1> DEFINE a == [o EXCEPT !.at = "running"]
           b == [a EXCEPT !.deployment = d]
<1>1. o = [at |-> o.at, deployment |-> o.deployment, publishers |-> o.publishers, outcome |-> o.outcome,
           posted |-> o.posted]
  BY DEF FireRecords
<1>2. a = [at |-> "running", deployment |-> o.deployment, publishers |-> o.publishers,
           outcome |-> o.outcome, posted |-> o.posted]
  BY <1>1
<1> HIDE DEF a
<1>3. b = [at |-> "running", deployment |-> d, publishers |-> o.publishers, outcome |-> o.outcome,
           posted |-> o.posted]
  BY <1>2
<1> HIDE DEF b
<1>4. [b EXCEPT !.publishers = p]
        = [at |-> "running", deployment |-> d, publishers |-> p, outcome |-> o.outcome, posted |-> o.posted]
  BY <1>3
<1> QED
  BY <1>4 DEF a, b

\* A closure starts with the publishers of its job.
LEMMA FireStarts ==
  ASSUME HostIInv, NEW f \in 1..MaxFires, NEW i \in JobIndices, Fire(f, i)
  PROVE  HostIInv'
<1> USE DEF FireRecords, JobRecords
<1> DEFINE k == [at |-> "running", deployment |-> wheel[i].deployment, publishers |-> wheel[i].publishers,
                 outcome |-> "none", posted |-> <<>>]
<1>1. /\ wheel[i] # NoJob /\ fires' = [fires EXCEPT ![f] = k]
      /\ UNCHANGED <<env, host, agent, targets, wheel, persisted, deployed>>
  <2>1. NoFire \in FireRecords(0) /\ NoFire.outcome = "none" /\ NoFire.posted = <<>>
    BY DEF NoFire
  <2>2. [NoFire EXCEPT !.at = "running", !.deployment = wheel[i].deployment, !.publishers = wheel[i].publishers] = k
    <3> HIDE DEF FireRecords
    <3> QED
      BY <2>1, StartFacts
  <2> HIDE DEF k
  <2> QED
    BY <2>2 DEF Fire
<1>2. /\ wheel[i].deployment \in 1..Now /\ wheel[i].deployment \in 0..Now /\ wheel[i].publishers \in SUBSET Nat
      /\ wheel[i].publishers = Publishers(wheel[i].deployment)
  BY <1>1 DEF HostIInv, JobsPublish, HostTypes
<1>3. k \in FireRecords(Now)
  BY <1>2
<1>4. FireAdvances(k)
  BY <1>2 DEF FireAdvances
<1> HIDE DEF k
<1> QED
  BY <1>1, <1>3, <1>4, FireStep

\* The agent has answered.
LEMMA RunAgentStep ==
  ASSUME HostIInv, NEW f \in 1..MaxFires, NEW outcome \in {"error", "empty", "body"}, RunAgent(f, outcome)
  PROVE  HostIInv'
<1> USE DEF FireRecords, JobRecords
<1> DEFINE o == fires[f]
           k == [o EXCEPT !.outcome = outcome,
                          !.at = IF outcome = "body" /\ o.publishers # {} THEN "sending" ELSE "done"]
<1>1. /\ o.at = "running" /\ UNCHANGED <<env, host, agent, targets, wheel, persisted, deployed>>
      /\ o \in FireRecords(Now)
  BY DEF RunAgent, HostIInv, HostTypes
<1>2. fires' = [fires EXCEPT ![f] = k]
  BY <1>1 DEF RunAgent, HostIInv, HostTypes
<1>3. /\ k \in FireRecords(Now)
      /\ k.deployment = o.deployment /\ k.publishers = o.publishers /\ k.posted = o.posted
      /\ k.outcome = outcome
      /\ k.at = IF outcome = "body" /\ o.publishers # {} THEN "sending" ELSE "done"
  BY <1>1
<1>4. o.publishers = Publishers(o.deployment) /\ o.posted = <<>> /\ o.deployment \in 1..Now
  BY <1>1 DEF HostIInv, FiresAdvance, FireAdvances
<1> HIDE DEF k, o
<1>5. FireAdvances(k)
  <2>1. PostedInOrder(<<>>, o.deployment, o.publishers)
    BY <1>4 DEF PostedInOrder
  <2>2. o.publishers = {} => PostedInOrder(<<>>, o.deployment, {})
    BY <1>4 DEF PostedInOrder
  <2> QED
    BY <1>3, <1>4, <2>1, <2>2 DEF FireAdvances
<1> QED
  BY <1>1, <1>2, <1>3, <1>5, FireStep

\* What a publisher leaves of a fire.
LEMMA AfterSendFacts ==
  ASSUME NEW n, NEW o \in FireRecords(n), NEW i \in o.publishers, NEW ok, NEW p
  PROVE  [AfterSend(o, i, ok) EXCEPT !.posted = p]
           = [at |-> IF o.publishers \ {i} # {} THEN "sending" ELSE "done", deployment |-> o.deployment,
              publishers |-> o.publishers \ {i}, outcome |-> o.outcome, posted |-> p]
<1> DEFINE a == [o EXCEPT !.publishers = @ \ {i}]
           at == IF o.publishers # {i} THEN "sending" ELSE "done"
           b == [a EXCEPT !.at = at]
<1>1. at = IF o.publishers \ {i} # {} THEN "sending" ELSE "done"
  OBVIOUS
<1>2. o = [at |-> o.at, deployment |-> o.deployment, publishers |-> o.publishers, outcome |-> o.outcome,
           posted |-> o.posted]
  BY DEF FireRecords
<1>3. a = [at |-> o.at, deployment |-> o.deployment, publishers |-> o.publishers \ {i}, outcome |-> o.outcome,
           posted |-> o.posted]
  BY <1>2
<1> HIDE DEF a, at
<1>4. b = [at |-> at, deployment |-> o.deployment, publishers |-> o.publishers \ {i}, outcome |-> o.outcome,
           posted |-> o.posted]
  BY <1>3
<1> HIDE DEF b
<1>5. [b EXCEPT !.posted = p]
        = [at |-> at, deployment |-> o.deployment, publishers |-> o.publishers \ {i}, outcome |-> o.outcome,
           posted |-> p]
  BY <1>4
<1>6. AfterSend(o, i, ok) = b
  BY DEF AfterSend, a, b, at
<1> QED
  BY <1>1, <1>5, <1>6

\* The next publisher has been tried.
LEMMA SendStep ==
  ASSUME HostIInv, NEW f \in 1..MaxFires, NEW ok \in BOOLEAN, Send(f, ok)
  PROVE  HostIInv'
<1> USE DEF FireRecords, JobRecords
<1> DEFINE o == fires[f]
           d == o.deployment
<1>1. PICK i \in o.publishers :
        /\ o.at = "sending" /\ \A j \in o.publishers : i <= j
        /\ fires' = [fires EXCEPT ![f] = [AfterSend(o, i, ok) EXCEPT
                                            !.posted = IF HasToken(d, i) THEN Append(@, i) ELSE @]]
        /\ UNCHANGED <<env, host, agent, targets, wheel, persisted, deployed>>
  BY DEF Send, HasToken
<1> DEFINE posted == IF HasToken(d, i) THEN Append(o.posted, i) ELSE o.posted
           left == o.publishers \ {i}
           k == [at |-> IF left # {} THEN "sending" ELSE "done", deployment |-> d, publishers |-> left,
                 outcome |-> o.outcome, posted |-> posted]
<1>2. o \in FireRecords(Now)
  BY DEF HostIInv, HostTypes
<1>3. fires' = [fires EXCEPT ![f] = k]
  <2>1. [AfterSend(o, i, ok) EXCEPT !.posted = posted] = k
    <3> HIDE DEF FireRecords, posted, o
    <3> QED
      BY <1>2, AfterSendFacts
  <2>3. AfterSend(o, i, ok).posted = o.posted
    BY <1>2 DEF AfterSend
  <2>4. [AfterSend(o, i, ok) EXCEPT !.posted = IF HasToken(d, i) THEN Append(@, i) ELSE @] = k
    BY <2>1, <2>3
  <2> HIDE DEF k, FireRecords
  <2> HIDE DEF o, d
  <2> QED
    BY <1>1, <2>4, Zenon
<1>4. /\ o.outcome = "body" /\ d \in 1..Now /\ PostedInOrder(o.posted, d, o.publishers)
      /\ o.posted \in Seq(Nat) /\ o.publishers \subseteq Nat /\ i \in Nat /\ Publishers(d) \subseteq Nat
  BY <1>1, <1>2, DeploymentFacts DEF HostIInv, FiresAdvance, FireAdvances
<1> HIDE DEF o, d
<1>5. posted \in Seq(Nat)
  BY <1>4
<1>6. k \in FireRecords(Now)
  BY <1>2, <1>4, <1>5 DEF d
<1>7. PostedInOrder(posted, d, left)
  <2>1. left \subseteq Publishers(d) /\ Publishers(d) \ left = (Publishers(d) \ o.publishers) \cup {i}
    BY <1>1, <1>4 DEF PostedInOrder
  <2>2. \A a \in Publishers(d) \ left : \A j \in left : a < j
    BY <1>1, <1>4, <2>1 DEF PostedInOrder
  <2>3. \A l \in DOMAIN o.posted : o.posted[l] < i /\ o.posted[l] \in Nat
    BY <1>1, <1>4 DEF PostedInOrder
  <2>4. CASE HasToken(d, i)
    <3> DEFINE n == Len(o.posted)
    <3>1. /\ n \in Nat /\ DOMAIN o.posted = 1..n /\ DOMAIN posted = 1..n + 1
          /\ posted[n + 1] = i /\ \A l \in 1..n : posted[l] = o.posted[l]
      BY <1>4, <2>4
    <3> HIDE DEF posted, n
    <3>2. {posted[l] : l \in DOMAIN posted} = {o.posted[l] : l \in DOMAIN o.posted} \cup {i}
      BY <3>1
    <3>3. {posted[l] : l \in DOMAIN posted} = {a \in Publishers(d) \ left : HasToken(d, a)}
      BY <1>4, <2>1, <2>4, <3>2 DEF PostedInOrder
    <3>4. \A a, b \in DOMAIN posted : a < b => posted[a] < posted[b]
      <4> SUFFICES ASSUME NEW a \in 1..n + 1, NEW b \in 1..n + 1, a < b PROVE posted[a] < posted[b]
        BY <3>1
      <4>1. a \in 1..n /\ posted[a] = o.posted[a]
        BY <3>1
      <4>2. CASE b = n + 1
        BY <2>3, <3>1, <4>1, <4>2
      <4>3. CASE b # n + 1
        <5>1. b \in 1..n /\ posted[b] = o.posted[b]
          BY <3>1, <4>3
        <5> QED
          BY <1>4, <3>1, <4>1, <5>1 DEF PostedInOrder
      <4> QED
        BY <4>2, <4>3
    <3> QED
      BY <2>1, <2>2, <3>3, <3>4 DEF PostedInOrder
  <2>5. CASE ~HasToken(d, i)
    <3>1. posted = o.posted
      BY <2>5
    <3> HIDE DEF posted
    <3> QED
      BY <1>4, <2>1, <2>2, <2>5, <3>1 DEF PostedInOrder
  <2> QED
    BY <2>4, <2>5
<1>8. FireAdvances(k)
  <2>1. left = {} => PostedInOrder(posted, d, {})
    BY <1>7
  <2> HIDE DEF left, posted
  <2> QED
    BY <1>4, <1>7, <2>1 DEF FireAdvances
<1> HIDE DEF k
<1> QED
  BY <1>1, <1>3, <1>6, <1>8, FireStep

\* Every step of the host and its fires preserves their inductive invariant.
LEMMA HostNextIInv == HostIInv /\ [HostNext]_hostVars => HostIInv'
<1> SUFFICES ASSUME HostIInv, [HostNext]_hostVars PROVE HostIInv'
  OBVIOUS
<1>1. CASE UNCHANGED hostVars
  <2> USE <1>1 DEF hostVars
  <2>1. HostTypes' /\ AcceptedPacksRegister'
    BY DEF HostIInv, HostTypes, AcceptedPacksRegister, Now
  <2>2. Keeps /\ Now' = Now
    BY DeploymentFacts DEF Keeps, Now, HostIInv
  <2>3. DeploymentAdvances'
    BY DEF HostIInv, DeploymentAdvances, Publishers, Publishes, Resolves, M, Now
  <2>4. JobsPublish' /\ FiresAdvance'
    BY <2>2, KeptFacts
  <2> QED
    BY <2>1, <2>3, <2>4 DEF HostIInv
<1>2. CASE \E m \in Manifests : Deploy(m)
  BY <1>2, DeployStep
<1>3. CASE RegisterPack \/ LoadActions \/ BindNAS \/ BindChannels \/ Refuse \/ Deployed
  BY <1>3, StageSteps
<1>4. CASE AddSchedule
  BY <1>4, AddScheduleStep
<1>5. CASE \E f \in 1..MaxFires : \E i \in JobIndices : Fire(f, i)
  BY <1>5, FireStarts
<1>6. CASE \E f \in 1..MaxFires : \E outcome \in {"error", "empty", "body"} : RunAgent(f, outcome)
  BY <1>6, RunAgentStep
<1>7. CASE \E f \in 1..MaxFires : \E ok \in BOOLEAN : Send(f, ok)
  BY <1>7, SendStep
<1> QED
  BY <1>1, <1>2, <1>3, <1>4, <1>5, <1>6, <1>7 DEF HostNext

\* A fire that is done has posted to every channel with a token.
LEMMA DoneFiresReach == HostIInv => FiresReachEveryPublisher
<1> SUFFICES ASSUME HostIInv, NEW f \in 1..MaxFires, fires[f].at = "done"
             PROVE  LET channels  == deployed[fires[f].deployment].m.channels
                        reachable == {i \in DOMAIN channels :
                                        channels[i].kind = "dingtalk" /\ channels[i].token \in env}
                        posted    == fires[f].posted
                    IN /\ {posted[k] : k \in DOMAIN posted} = IF fires[f].outcome = "body" THEN reachable ELSE {}
                       /\ \A k, l \in DOMAIN posted : k < l => posted[k] < posted[l]
  BY DEF FiresReachEveryPublisher
<1> DEFINE d == fires[f].deployment
           channels == deployed[d].m.channels
           reachable == {i \in DOMAIN channels : channels[i].kind = "dingtalk" /\ channels[i].token \in env}
           posted == fires[f].posted
<1>1. IF fires[f].outcome = "body" THEN PostedInOrder(posted, d, {}) ELSE posted = <<>>
  BY DEF HostIInv, FiresAdvance, FireAdvances
<1>2. NoRef \notin env
  BY HostAssumption DEF HostIInv, HostTypes
<1>3. {i \in Publishers(d) : HasToken(d, i)} = reachable
  BY <1>2 DEF Publishers, HasToken, Publishes, Resolves
<1> HIDE DEF reachable, posted, d
<1>4. CASE fires[f].outcome = "body"
  <2>1. /\ {posted[k] : k \in DOMAIN posted} = {i \in Publishers(d) \ {} : HasToken(d, i)}
        /\ \A k, l \in DOMAIN posted : k < l => posted[k] < posted[l]
    BY <1>1, <1>4 DEF PostedInOrder
  <2> QED
    BY <1>3, <1>4, <2>1 DEF reachable, posted, d
<1>5. CASE fires[f].outcome # "body"
  <2>1. posted = <<>>
    BY <1>1, <1>5
  <2>2. {posted[k] : k \in DOMAIN posted} = {} /\ \A k, l \in DOMAIN posted : k < l => posted[k] < posted[l]
    BY <2>1
  <2> QED
    BY <1>5, <2>2 DEF posted, reachable, d
<1> QED
  BY <1>4, <1>5

\* The inductive invariant of the host: the deployment under way, the jobs of the
\* wheel and how far each fire has come.
THEOREM HostInvariance == HostSpec => []HostIInv
<1>1. HostInit => HostIInv
  BY HostInitIInv
<1>2. HostIInv /\ [HostNext]_hostVars => HostIInv'
  BY HostNextIInv
<1> QED
  BY <1>1, <1>2, PTL DEF HostSpec

\* What Validate accepts is refused only if it is no agent, lacks a model id, or
\* speaks of a file that is missing or blank (soyapack.Validate,
\* kernel.RegisterFromPack).
THEOREM RefusalsAreExcused == HostSpec => []AcceptedPacksRegister
<1>1. HostIInv => AcceptedPacksRegister
  BY DEF HostIInv
<1> QED
  BY <1>1, HostInvariance, PTL

\* A fire posts what its agent said once to every channel of its deployment that
\* can be reached, in order, whichever fail and whatever is deployed meanwhile
\* (cmd/soyaos: makeScheduledFire).
THEOREM FiresReach == HostSpec => []FiresReachEveryPublisher
BY DoneFiresReach, HostInvariance, PTL

-----------------------------------------------------------------------------
(***************************************************************************)
(* The six side by side.                                                   *)
(***************************************************************************)
\* A behaviour of Services is one of each of the six models: the model in focus
\* takes its steps, the others stutter.
THEOREM EachRuns ==
  Spec => RelaySpec /\ TransportSpec /\ DeliverySpec /\ LinksSpec /\ EpisodesSpec /\ HostSpec
<1>1. Init => RelayInit /\ TransportInit /\ DeliveryInit /\ LinksInit /\ EpisodesInit /\ HostInit
  BY DEF Init
<1>2. [Next]_allVars => /\ [RelayNext]_relayVars /\ [TransportNext]_transportVars
                        /\ [DeliveryNext]_deliveryVars /\ [LinksNext]_linksVars
                        /\ [EpisodesNext]_episodesVars /\ [HostNext]_hostVars
  BY DEF Next, Rest, allVars
<1> QED
  BY <1>1, <1>2, PTL DEF Spec, RelaySpec, TransportSpec, DeliverySpec, LinksSpec, EpisodesSpec, HostSpec

\* Every variable of every one of the six keeps its type.
THEOREM TypeCorrect == Spec => []TypeOK
<1>1. RelayIInv => RelayTypeOK
  BY DEF RelayIInv, RelayTypes, GaugeCounts, LiveSessions, RelayTypeOK
<1>2. TransportIInv => TransportTypeOK
  BY DEF TransportIInv
<1>3. DeliveryIInv => DeliveryTypeOK
  BY DeliveryTypes DEF DeliveryIInv
<1>4. LinksIInv => LinksTypeOK
  BY DEF LinksIInv
<1>5. EpisodesIInv => EpisodesTypeOK
  BY DEF EpisodesIInv
<1>6. HostIInv => HostTypeOK
  BY DEF HostIInv, HostTypes, HostTypeOK, HostRecords, DeploymentRecords, JobRecords, FireRecords
<1> QED
  BY <1>1, <1>2, <1>3, <1>4, <1>5, <1>6, EachRuns, RelayInvariance, TransportInvariance,
     DeliveryInvariance, LinksInvariance, EpisodesInvariance, HostInvariance, PTL DEF TypeOK

\* A short link leads to the URL it was made for as long as there is one, and the
\* event log has what it accepted, in the order in which it accepted it
\* (pkg/shortlink: Shorten; pkg/memory: Append).
THEOREM StoresSound == Spec => []SmallStoresSound
BY EachRuns, LinksLead, LogInOrder, PTL DEF SmallStoresSound
=============================================================================
