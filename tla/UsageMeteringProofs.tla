-------------------------- MODULE UsageMeteringProofs --------------------------
(***************************************************************************)
(* Proofs about UsageMetering for every finite set of sandboxes, calls,    *)
(* tenants and flushes, every length of a minute and every bound: nobody   *)
(* is billed twice, and no time of an Execute goes unbilled but for what   *)
(* came late or was dropped.                                               *)
(***************************************************************************)
EXTENDS UsageMetering, FiniteSetTheorems, WellFoundedInduction, TLAPS

\* A sandbox was metered up to a time of its life: nothing of one that was never
\* provisioned.
Metered ==
  \A x \in Sandboxes :
    /\ sandbox[x].started <= sandbox[x].metered /\ sandbox[x].metered <= now
    /\ sandbox[x].state = "unborn" => sandbox[x].metered = sandbox[x].started

\* A ticker runs for the Execute it belongs to, in a sandbox that was provisioned;
\* it holds a sample only between taking it and handing it over, and takes its last
\* one when the Execute has returned.
Ticking ==
  /\ endedAt \in [Calls -> 0..now]
  /\ \A c \in Calls :
      /\ call[c].stage = "found" => ticker[c].stage = "off" /\ sandbox[call[c].box].state # "unborn"
      /\ call[c].stage = "running" => ticker[c].stage # "off" /\ ~ticker[c].done
      /\ ticker[c].stage # "off" => sandbox[ticker[c].box].state # "unborn"
      /\ ticker[c].stage # "holding" => ticker[c].sample = NoSample
      /\ ticker[c].sample.at <= now
      /\ ticker[c].stage = "off" => endedAt[c] = 0
      /\ ticker[c].stage = "holding" /\ ticker[c].last =>
           ticker[c].done /\ endedAt[c] <= sandbox[ticker[c].box].metered

\* A flush holds rows of minutes before the one it read, and no rows before it
\* has collected them.
Flushing ==
  \A f \in Flushers :
    /\ flush[f].minute <= MinuteOf(now)
    /\ flush[f].stage # "put" => flush[f].closed = Empty
    /\ \A b \in Buckets : flush[f].closed[b] # NoRow => b[2] < flush[f].minute

\* A bucket that got its samples in time and lost none is in one place: in
\* memory, with one flush, or on disk; it left the memory after its minute.
OneRow(b) ==
  /\ \A f \in Flushers : flush[f].closed[b] # NoRow => live[b] = NoRow /\ stored[b] = NoRow
  /\ \A f, g \in Flushers : flush[f].closed[b] # NoRow /\ flush[g].closed[b] # NoRow => f = g
  /\ stored[b] # NoRow => live[b] = NoRow /\ b[2] < MinuteOf(now)
TimelyOnce == \A b \in Buckets \ (belated \cup dropped) : OneRow(b)

IInv ==
  /\ TypeOK /\ Metered /\ Ticking /\ Flushing /\ TimelyOnce
  /\ NeverOverbilled /\ TimelySamplesAddUp

-----------------------------------------------------------------------------
(***************************************************************************)
(* Sums over finite sets.  SumFunctionOnSet is defined by recursion; the   *)
(* library's induction theorems take a predicate as a parameter, which the *)
(* provers cannot instantiate, so each induction is by a smallest set that *)
(* does not have the property.                                             *)
(***************************************************************************)
\* The element that a sum over s takes first.
Least(s) == CHOOSE x \in s : TRUE

\* g adds up f over every subset of S, as the recursion of SumFunctionOnSet does.
Adds(g, f, S) ==
  g = [s \in SUBSET S |-> IF s = {} THEN 0 ELSE f[Least(s)] + g[s \ {Least(s)}]]

\* Induction over finite sets, without an operator for the predicate: among sets of
\* subsets of a finite set there is one none of whose proper subsets is there too.
LEMMA SmallestSubset ==
  ASSUME NEW S, IsFiniteSet(S), NEW T, T \subseteq SUBSET S, T # {}
  PROVE  \E s \in T : \A r \in T : r \subseteq s => r = s
<1>1. IsWellFoundedOn(StrictSubsetOrdering(S), FiniteSubsetsOf(S)) /\ FiniteSubsetsOf(S) = SUBSET S
  BY FS_StrictSubsetOrderingWellFounded, FS_FiniteSubsetsOfFinite
<1>2. \E s \in T : \A r \in T : ~ (<<r, s>> \in StrictSubsetOrdering(S))
  BY <1>1, WFMin
<1> QED BY <1>2 DEF StrictSubsetOrdering

\* Taking the first element leaves a smaller set.
LEMMA Rest ==
  ASSUME NEW S, NEW s \in SUBSET S, s # {}
  PROVE  Least(s) \in s /\ s \ {Least(s)} \in SUBSET S /\ s \ {Least(s)} # s
BY DEF Least

\* Functions that add up f agree where both are defined.
LEMMA AddsUnique ==
  ASSUME NEW S, IsFiniteSet(S), NEW f, NEW g, NEW h, NEW T, Adds(g, f, S), Adds(h, f, T)
  PROVE  \A s \in SUBSET (S \cap T) : g[s] = h[s]
<1> DEFINE Bad == {s \in SUBSET (S \cap T) : g[s] # h[s]}
<1>1. Bad = {}
  <2> SUFFICES ASSUME Bad # {} PROVE FALSE
    OBVIOUS
  <2>1. PICK s \in Bad : \A r \in Bad : r \subseteq s => r = s
    <3>1. Bad \subseteq SUBSET S
      OBVIOUS
    <3> HIDE DEF Bad
    <3> QED BY <3>1, SmallestSubset
  <2>2. /\ g[s] = IF s = {} THEN 0 ELSE f[Least(s)] + g[s \ {Least(s)}]
        /\ h[s] = IF s = {} THEN 0 ELSE f[Least(s)] + h[s \ {Least(s)}]
    BY <2>1 DEF Adds
  <2>3. CASE s = {}
    BY <2>1, <2>2, <2>3
  <2>4. CASE s # {}
    <3>1. s \ {Least(s)} \in SUBSET (S \cap T) /\ s \ {Least(s)} # s
      BY <2>1, <2>4, Rest
    <3>2. g[s \ {Least(s)}] = h[s \ {Least(s)}]
      BY <2>1, <3>1
    <3> QED BY <2>1, <2>2, <2>4, <3>2
  <2> QED BY <2>3, <2>4
<1> QED BY <1>1

\* There is such a function: the recursion is well-founded on a finite set.
LEMMA AddsExists ==
  ASSUME NEW S, IsFiniteSet(S), NEW f
  PROVE  \E g : Adds(g, f, S)
<1> DEFINE Bad == {s \in SUBSET S : ~ \E g : Adds(g, f, s)}
<1>1. Bad = {}
  <2> SUFFICES ASSUME Bad # {} PROVE FALSE
    OBVIOUS
  <2>1. PICK T \in Bad : \A r \in Bad : r \subseteq T => r = T
    <3>1. Bad \subseteq SUBSET S
      OBVIOUS
    <3> HIDE DEF Bad
    <3> QED BY <3>1, SmallestSubset
  <2> DEFINE G(r) == CHOOSE g : Adds(g, f, r)
             Less(s) == s \ {Least(s)}
             g == [s \in SUBSET T |-> IF s = {} THEN 0 ELSE f[Least(s)] + G(Less(s))[Less(s)]]
  <2>2. ASSUME NEW r \in SUBSET T, r # T
        PROVE  Adds(G(r), f, r)
    <3>1. \E k : Adds(k, f, r)
      BY <2>1, <2>2
    <3> QED BY <3>1
  <2>3. ASSUME NEW s \in SUBSET T, s # {}
        PROVE  G(Less(s))[Less(s)] = g[Less(s)]
    <3> DEFINE r == Less(s)
    <3>1. r \in SUBSET T /\ r # T
      BY <2>3, Rest
    <3>2. Adds(G(r), f, r)
      BY <2>2, <3>1
    <3>3. r = {} => G(r)[r] = 0
      <4> HIDE DEF G, r
      <4> QED BY <3>2 DEF Adds
    <3>4. ASSUME r # {} PROVE G(r)[r] = f[Least(r)] + G(Less(r))[Less(r)]
      <4>1. Less(r) \in SUBSET r /\ Less(r) \in SUBSET T /\ Less(r) # T
        BY <3>1, <3>4, Rest
      <4>2. Adds(G(Less(r)), f, Less(r))
        BY <2>2, <4>1
      <4>3. IsFiniteSet(r)
        BY <2>1, <3>1, FS_Subset
      <4>4. G(r)[Less(r)] = G(Less(r))[Less(r)]
        <5>1. Less(r) \in SUBSET (r \cap Less(r))
          BY <4>1
        <5> HIDE DEF G, r, Less
        <5> QED BY <3>2, <4>2, <4>3, <5>1, AddsUnique
      <4>5. G(r)[r] = f[Least(r)] + G(r)[Less(r)]
        <5> HIDE DEF G, r
        <5> QED BY <3>2, <3>4 DEF Adds
      <4> QED BY <4>4, <4>5
    <3>5. g[r] = IF r = {} THEN 0 ELSE f[Least(r)] + G(Less(r))[Less(r)]
      <4> HIDE DEF G, r, Less
      <4> QED BY <3>1
    <3> QED
      <4> HIDE DEF G, r, g
      <4> QED BY <3>3, <3>4, <3>5 DEF r
  <2>4. g = [s \in SUBSET T |-> IF s = {} THEN 0 ELSE f[Least(s)] + g[Less(s)]]
    <3> DEFINE k == [s \in SUBSET T |-> IF s = {} THEN 0 ELSE f[Least(s)] + g[Less(s)]]
    <3>1. ASSUME NEW s \in SUBSET T PROVE g[s] = k[s]
      <4>1. g[s] = IF s = {} THEN 0 ELSE f[Least(s)] + G(Less(s))[Less(s)]
        OBVIOUS
      <4> HIDE DEF G, g, Less
      <4>2. k[s] = IF s = {} THEN 0 ELSE f[Least(s)] + g[Less(s)]
        OBVIOUS
      <4> QED BY <2>3, <4>1, <4>2
    <3>2. DOMAIN g = SUBSET T /\ g = [s \in SUBSET T |-> g[s]]
      OBVIOUS
    <3> HIDE DEF g
    <3> QED BY <3>1, <3>2
  <2>5. Adds(g, f, T)
    BY <2>4 DEF Adds
  <2> HIDE DEF g
  <2> QED BY <2>1, <2>5
<1>2. S \notin Bad
  BY <1>1
<1> QED BY <1>2

\* SumFunctionOnSet satisfies the equation of its recursion.
LEMMA SumEquation ==
  ASSUME NEW S, IsFiniteSet(S), NEW f
  PROVE  /\ SumFunctionOnSet(f, {}) = 0
         /\ S # {} => SumFunctionOnSet(f, S) = f[Least(S)] + SumFunctionOnSet(f, S \ {Least(S)})
<1>1. ASSUME NEW T, IsFiniteSet(T), NEW g, Adds(g, f, T)
      PROVE  SumFunctionOnSet(f, T) = g[T]
  <2> DEFINE c == CHOOSE iter : iter =
                    [s \in SUBSET T |-> IF s = {} THEN 0
                                        ELSE f[CHOOSE x \in s : TRUE] + iter[s \ {CHOOSE x \in s : TRUE}]]
  <2>1. Adds(c, f, T)
    BY <1>1 DEF Adds, Least
  <2>2. SumFunctionOnSet(f, T) = c[T]
    BY DEF SumFunctionOnSet, FoldFunctionOnSet, MapThenFoldSet
  <2> HIDE DEF c
  <2>3. c[T] = g[T]
    BY <1>1, <2>1, AddsUnique
  <2> QED BY <2>2, <2>3
<1>2. PICK g : Adds(g, f, S)
  BY AddsExists
<1>3. SumFunctionOnSet(f, {}) = 0
  <2>1. IsFiniteSet({})
    BY FS_EmptySet
  <2>2. PICK h : Adds(h, f, {})
    BY <2>1, AddsExists
  <2>3. h[{}] = 0
    BY <2>2 DEF Adds
  <2> QED BY <1>1, <2>1, <2>2, <2>3
<1>4. ASSUME S # {}
      PROVE  SumFunctionOnSet(f, S) = f[Least(S)] + SumFunctionOnSet(f, S \ {Least(S)})
  <2> DEFINE R == S \ {Least(S)}
  <2>1. IsFiniteSet(R) /\ R \in SUBSET (S \cap R)
    BY FS_Subset
  <2>2. PICK h : Adds(h, f, R)
    BY <2>1, AddsExists
  <2>3. g[R] = h[R]
    <3> HIDE DEF R
    <3> QED BY <1>2, <2>1, <2>2, AddsUnique
  <2>4. g[S] = f[Least(S)] + g[R]
    BY <1>2, <1>4 DEF Adds
  <2>5. SumFunctionOnSet(f, S) = g[S] /\ SumFunctionOnSet(f, R) = h[R]
    BY <1>1, <1>2, <2>1, <2>2
  <2> QED BY <2>3, <2>4, <2>5
<1> QED BY <1>3, <1>4

\* A sum of naturals is one.
LEMMA SumIsNat ==
  ASSUME NEW S, IsFiniteSet(S), NEW f, \A x \in S : f[x] \in Nat
  PROVE  SumFunctionOnSet(f, S) \in Nat
<1> DEFINE Bad == {s \in SUBSET S : SumFunctionOnSet(f, s) \notin Nat}
<1>1. ASSUME Bad # {} PROVE FALSE
  <2>1. PICK s \in Bad : \A r \in Bad : r \subseteq s => r = s
    <3>1. Bad \subseteq SUBSET S
      OBVIOUS
    <3> HIDE DEF Bad
    <3> QED BY <1>1, <3>1, SmallestSubset
  <2>2. IsFiniteSet(s) /\ s \in SUBSET S
    BY FS_Subset
  <2>3. s # {} /\ SumFunctionOnSet(f, s) = f[Least(s)] + SumFunctionOnSet(f, s \ {Least(s)})
    <3>1. SumFunctionOnSet(f, {}) = 0
      BY <2>2, SumEquation
    <3>2. s # {}
      BY <3>1
    <3> QED BY <2>2, <3>2, SumEquation
  <2>4. Least(s) \in s /\ SumFunctionOnSet(f, s \ {Least(s)}) \in Nat
    BY <2>1, <2>2, <2>3, Rest
  <2> QED BY <2>2, <2>3, <2>4
<1> QED BY <1>1

\* It does not matter which element is taken first.
LEMMA SumRemove ==
  ASSUME NEW S, IsFiniteSet(S), NEW f, \A x \in S : f[x] \in Nat
  PROVE  \A x \in S : SumFunctionOnSet(f, S) = f[x] + SumFunctionOnSet(f, S \ {x})
<1> DEFINE Sum(s) == SumFunctionOnSet(f, s)
           Bad == {s \in SUBSET S : \E x \in s : Sum(s) # f[x] + Sum(s \ {x})}
<1>1. ASSUME Bad # {} PROVE FALSE
  <2>1. PICK s \in Bad : \A r \in Bad : r \subseteq s => r = s
    <3>1. Bad \subseteq SUBSET S
      OBVIOUS
    <3> HIDE DEF Bad
    <3> QED BY <1>1, <3>1, SmallestSubset
  <2>2. PICK x \in s : Sum(s) # f[x] + Sum(s \ {x})
    BY <2>1
  <2> DEFINE y == Least(s)
             r == s \ {y}
             q == s \ {x}
  <2>3. IsFiniteSet(s) /\ s \in SUBSET S /\ s # {} /\ y \in s
    BY <2>1, <2>2, FS_Subset, Rest
  <2>4. Sum(s) = f[y] + Sum(r)
    BY <2>3, SumEquation
  <2>5. x # y
    BY <2>2, <2>4
  <2>6. r \in SUBSET S /\ r # s /\ q \in SUBSET S /\ q # s /\ x \in r /\ y \in q
    BY <2>2, <2>3, <2>5
  <2>7. Sum(r) = f[x] + Sum(r \ {x}) /\ Sum(q) = f[y] + Sum(q \ {y})
    <3>1. r \notin Bad /\ q \notin Bad
      <4> HIDE DEF Bad
      <4> QED BY <2>1, <2>6
    <3> HIDE DEF Sum, r, q, y
    <3> QED BY <2>6, <3>1
  <2>8. r \ {x} = q \ {y}
    OBVIOUS
  <2>9. f[x] \in Nat /\ f[y] \in Nat /\ Sum(q \ {y}) \in Nat
    <3>1. IsFiniteSet(q \ {y}) /\ q \ {y} \in SUBSET S
      BY <2>3, FS_Subset
    <3>2. Sum(q \ {y}) \in Nat
      <4> HIDE DEF q, y
      <4> QED BY <3>1, SumIsNat
    <3> QED BY <2>3, <3>2
  <2>10. Sum(s) = f[x] + Sum(q)
    <3>1. Sum(r \ {x}) = Sum(q \ {y})
      BY <2>8
    <3> HIDE DEF Sum, r, q, y
    <3> QED BY <2>4, <2>7, <2>9, <3>1
  <2> QED BY <2>2, <2>10
<1>2. S \notin Bad
  BY <1>1
<1> QED BY <1>2

\* Adding up is monotonic: f is nowhere above g, so neither is its sum.
LEMMA SumMonotonic ==
  ASSUME NEW S, IsFiniteSet(S), NEW f, NEW g,
         \A x \in S : f[x] \in Nat /\ g[x] \in Nat /\ f[x] <= g[x]
  PROVE  SumFunctionOnSet(f, S) <= SumFunctionOnSet(g, S)
<1> DEFINE Bad == {s \in SUBSET S : ~ (SumFunctionOnSet(f, s) <= SumFunctionOnSet(g, s))}
<1>1. ASSUME Bad # {} PROVE FALSE
  <2>1. PICK s \in Bad : \A r \in Bad : r \subseteq s => r = s
    <3>1. Bad \subseteq SUBSET S
      OBVIOUS
    <3> HIDE DEF Bad
    <3> QED BY <1>1, <3>1, SmallestSubset
  <2> DEFINE y == Least(s)
             r == s \ {y}
  <2>2. IsFiniteSet(s) /\ s \in SUBSET S
    BY FS_Subset
  <2>3. /\ s # {} /\ SumFunctionOnSet(f, s) = f[y] + SumFunctionOnSet(f, r)
        /\ SumFunctionOnSet(g, s) = g[y] + SumFunctionOnSet(g, r)
    <3>1. SumFunctionOnSet(f, {}) = 0 /\ SumFunctionOnSet(g, {}) = 0
      BY <2>2, SumEquation
    <3>2. s # {}
      BY <3>1
    <3>3. SumFunctionOnSet(f, s) = f[y] + SumFunctionOnSet(f, r)
      BY <2>2, <3>2, SumEquation
    <3>4. SumFunctionOnSet(g, s) = g[y] + SumFunctionOnSet(g, r)
      BY <2>2, <3>2, SumEquation
    <3> QED BY <3>2, <3>3, <3>4
  <2>4. y \in s /\ r \in SUBSET S /\ r # s /\ r \subseteq s /\ IsFiniteSet(r)
    BY <2>2, <2>3, FS_Subset, Rest
  <2>5. SumFunctionOnSet(f, r) \in Nat /\ SumFunctionOnSet(g, r) \in Nat
    <3> HIDE DEF r, y
    <3> QED BY <2>4, SumIsNat
  <2>6. SumFunctionOnSet(f, r) <= SumFunctionOnSet(g, r)
    BY <2>1, <2>4
  <2>7. SumFunctionOnSet(f, s) <= SumFunctionOnSet(g, s)
    <3> HIDE DEF r, y
    <3> QED BY <2>2, <2>3, <2>4, <2>5, <2>6
  <2> QED BY <2>1, <2>7
<1>2. S \notin Bad
  BY <1>1
<1> QED BY <1>2

\* The sum of zeros.
LEMMA SumZero ==
  ASSUME NEW S, IsFiniteSet(S), NEW f, \A x \in S : f[x] = 0
  PROVE  SumFunctionOnSet(f, S) = 0
<1> DEFINE Bad == {s \in SUBSET S : SumFunctionOnSet(f, s) # 0}
<1>1. ASSUME Bad # {} PROVE FALSE
  <2>1. PICK s \in Bad : \A r \in Bad : r \subseteq s => r = s
    <3>1. Bad \subseteq SUBSET S
      OBVIOUS
    <3> HIDE DEF Bad
    <3> QED BY <1>1, <3>1, SmallestSubset
  <2>2. IsFiniteSet(s) /\ s \in SUBSET S
    BY FS_Subset
  <2>3. s # {}
    BY <2>2, SumEquation
  <2>4. SumFunctionOnSet(f, s) = f[Least(s)] + SumFunctionOnSet(f, s \ {Least(s)})
    BY <2>2, <2>3, SumEquation
  <2>5. Least(s) \in S /\ SumFunctionOnSet(f, s \ {Least(s)}) = 0
    BY <2>1, <2>2, <2>3, Rest
  <2> QED BY <2>1, <2>4, <2>5
<1> QED BY <1>1

\* Functions that agree have one sum, and one that differs at x differs by that.
LEMMA SumChange ==
  ASSUME NEW S, IsFiniteSet(S), NEW f, NEW g, NEW x \in S,
         \A y \in S : f[y] \in Nat /\ g[y] \in Nat,
         \A y \in S \ {x} : f[y] = g[y]
  PROVE  SumFunctionOnSet(g, S) = SumFunctionOnSet(f, S) + g[x] - f[x]
<1> DEFINE R == S \ {x}
<1>1. IsFiniteSet(R)
  BY FS_Subset
<1>2. SumFunctionOnSet(g, R) = SumFunctionOnSet(f, R)
  <2>1. SumFunctionOnSet(f, R) \in Nat /\ SumFunctionOnSet(g, R) \in Nat
    BY <1>1, SumIsNat
  <2>2. SumFunctionOnSet(f, R) <= SumFunctionOnSet(g, R) /\ SumFunctionOnSet(g, R) <= SumFunctionOnSet(f, R)
    BY <1>1, SumMonotonic
  <2> QED BY <2>1, <2>2
<1>3. SumFunctionOnSet(f, R) \in Nat
  BY <1>1, SumIsNat
<1>4. SumFunctionOnSet(f, S) = f[x] + SumFunctionOnSet(f, R)
  BY SumRemove
<1>5. SumFunctionOnSet(g, S) = g[x] + SumFunctionOnSet(g, R)
  BY SumRemove
<1> QED BY <1>2, <1>3, <1>4, <1>5

-----------------------------------------------------------------------------
(***************************************************************************)
(* Minutes, buckets and what is held of one.                               *)
(***************************************************************************)
\* A later instant is of no earlier minute.
LEMMA MinuteFacts ==
  \A s, t \in Nat : s <= t => /\ MinuteOf(s) \in Nat /\ MinuteOf(t) \in Nat
                              /\ MinuteOf(s) <= MinuteOf(t)
BY MeteringAssumption DEF MinuteOf

\* There are finitely many buckets, and a sample has one.
LEMMA BucketFacts ==
  /\ IsFiniteSet(Buckets)
  /\ \A s \in Sample : Bucket(s) \in Buckets /\ Bucket(s)[2] = MinuteOf(s.at)
  /\ \A b \in Buckets : b[2] \in Nat
<1>1. MinuteOf(MaxTime) \in Nat
  BY MinuteFacts, MeteringAssumption
<1>2. IsFiniteSet(Labels) /\ IsFiniteSet(0..MinuteOf(MaxTime))
  BY <1>1, MeteringAssumption, FS_AddElement, FS_Interval DEF Labels
<1>3. IsFiniteSet(Buckets)
  BY <1>2, FS_Product DEF Buckets
<1>4. ASSUME NEW s \in Sample
      PROVE  Bucket(s) \in Buckets /\ Bucket(s)[2] = MinuteOf(s.at)
  <2>1. s.tenant \in Labels /\ s.at \in Nat /\ s.at <= MaxTime
    BY MeteringAssumption DEF Sample
  <2>2. MinuteOf(s.at) \in 0..MinuteOf(MaxTime)
    BY <2>1, MinuteFacts, MeteringAssumption
  <2> QED BY <2>1, <2>2 DEF Bucket, Buckets
<1> QED BY <1>3, <1>4 DEF Buckets

\* The rows of a bucket that flushes hold, as a function to add up.
Carried(b) == [f \in Flushers |-> Amount(flush[f].closed[b])]
InFlushes(b) == SumFunctionOnSet(Carried(b), Flushers)

\* What is held of a bucket, with the sum over the flushes named; in this state
\* and in the next one.
LEMMA HeldIs ==
  ASSUME NEW b
  PROVE  /\ Held(b) = Amount(live[b]) + Amount(stored[b]) + InFlushes(b)
         /\ Held(b)' = Amount(live'[b]) + Amount(stored'[b]) + InFlushes(b)'
BY DEF Held, InFlushes, Carried, SumFunction

\* Amounts are naturals.
LEMMA Amounts ==
  ASSUME NEW rows \in Rows, NEW b \in Buckets
  PROVE  Amount(rows[b]) \in Nat /\ (rows[b] = NoRow => Amount(rows[b]) = 0)
BY DEF Amount, Rows, NoRow

\* So are those of the flushes under way and what the rows hold in all.
LEMMA AmountsOfFlushes ==
  ASSUME TypeOK, NEW b \in Buckets
  PROVE  /\ \A f \in Flushers : flush[f].closed \in Rows /\ Amount(flush[f].closed[b]) \in Nat
         /\ InFlushes(b) \in Nat /\ Held(b) \in Nat
<1>1. ASSUME NEW f \in Flushers
      PROVE  flush[f].closed \in Rows /\ Amount(flush[f].closed[b]) \in Nat
  BY Amounts DEF TypeOK
<1>2. \A f \in Flushers : Carried(b)[f] \in Nat
  BY <1>1 DEF Carried
<1>3. InFlushes(b) \in Nat
  BY <1>2, MeteringAssumption, SumIsNat DEF InFlushes
<1>4. Amount(live[b]) \in Nat /\ Amount(stored[b]) \in Nat
  BY Amounts DEF TypeOK
<1> QED BY <1>1, <1>3, <1>4, HeldIs

\* A step of one flush changes what flushes hold by what that one does.
LEMMA FlushChange ==
  ASSUME TypeOK, TypeOK', NEW b \in Buckets, NEW f \in Flushers,
         \A g \in Flushers \ {f} : flush'[g].closed = flush[g].closed
  PROVE  InFlushes(b)' = InFlushes(b) + Amount(flush'[f].closed[b]) - Amount(flush[f].closed[b])
<1>1. \A g \in Flushers : Carried(b)[g] \in Nat
  BY AmountsOfFlushes DEF Carried
<1>2. \A g \in Flushers : Carried(b)'[g] \in Nat
  BY Amounts DEF Carried, TypeOK
<1>3. \A g \in Flushers \ {f} : Carried(b)[g] = Carried(b)'[g]
  BY DEF Carried
<1>4. SumFunctionOnSet(Carried(b)', Flushers)
        = SumFunctionOnSet(Carried(b), Flushers) + Carried(b)'[f] - Carried(b)[f]
  BY <1>1, <1>2, <1>3, MeteringAssumption, SumChange
<1>5. Carried(b)'[f] = Amount(flush'[f].closed[b]) /\ Carried(b)[f] = Amount(flush[f].closed[b])
  BY DEF Carried
<1> QED BY <1>4, <1>5 DEF InFlushes

-----------------------------------------------------------------------------
(***************************************************************************)
(* The bill.                                                               *)
(***************************************************************************)
HeldRows  == [b \in Buckets |-> Held(b)]
OnTheWay  == [c \in Calls |-> ticker[c].sample.amount]
Lived     == [x \in Sandboxes |-> sandbox[x].metered - sandbox[x].started]

\* The bill is a comparison of three sums of naturals.
LEMMA BillIs ==
  /\ NeverOverbilled <=> SumFunctionOnSet(HeldRows, Buckets) + SumFunctionOnSet(OnTheWay, Calls)
                           <= SumFunctionOnSet(Lived, Sandboxes)
  /\ NeverOverbilled' <=> SumFunctionOnSet(HeldRows', Buckets) + SumFunctionOnSet(OnTheWay', Calls)
                            <= SumFunctionOnSet(Lived', Sandboxes)
BY DEF NeverOverbilled, HeldRows, OnTheWay, Lived, SumFunction

\* The three sums are of naturals.
LEMMA BillOfNaturals ==
  ASSUME TypeOK, Metered
  PROVE  /\ \A b \in Buckets : HeldRows[b] \in Nat
         /\ \A c \in Calls : OnTheWay[c] \in Nat
         /\ \A x \in Sandboxes : Lived[x] \in Nat
<1>1. \A b \in Buckets : HeldRows[b] \in Nat
  BY AmountsOfFlushes DEF HeldRows
<1>2. \A c \in Calls : OnTheWay[c] \in Nat
  BY DEF OnTheWay, TypeOK, Sample
<1>3. \A x \in Sandboxes : Lived[x] \in Nat
  BY DEF Lived, TypeOK, Metered
<1> QED BY <1>1, <1>2, <1>3

\* The same in the next state.
LEMMA NextBillOfNaturals ==
  ASSUME TypeOK', Metered'
  PROVE  /\ \A b \in Buckets : HeldRows'[b] \in Nat
         /\ \A c \in Calls : OnTheWay'[c] \in Nat
         /\ \A x \in Sandboxes : Lived'[x] \in Nat
<1>1. ASSUME NEW b \in Buckets PROVE HeldRows'[b] \in Nat
  <2>1. \A f \in Flushers : Carried(b)'[f] \in Nat
    BY Amounts DEF Carried, TypeOK
  <2>2. InFlushes(b)' \in Nat
    BY <2>1, MeteringAssumption, SumIsNat DEF InFlushes
  <2>3. Amount(live'[b]) \in Nat /\ Amount(stored'[b]) \in Nat
    BY Amounts DEF TypeOK
  <2> QED BY <2>2, <2>3, HeldIs DEF HeldRows
<1>2. \A c \in Calls : OnTheWay'[c] \in Nat
  BY DEF OnTheWay, TypeOK, Sample
<1>3. \A x \in Sandboxes : Lived'[x] \in Nat
  BY DEF Lived, TypeOK, Metered
<1> QED BY <1>1, <1>2, <1>3

\* A step after which no more is held of any bucket and no more is on the way,
\* and no sandbox has lived shorter, keeps the bill.
LEMMA NoMoreBilled ==
  ASSUME IInv, TypeOK', Metered',
         \A b \in Buckets : Held(b)' <= Held(b),
         \A c \in Calls : ticker'[c].sample.amount <= ticker[c].sample.amount,
         \A x \in Sandboxes : sandbox[x].metered - sandbox[x].started
                                <= sandbox'[x].metered - sandbox'[x].started
  PROVE  NeverOverbilled'
<1> USE MeteringAssumption, BucketFacts
<1>1. /\ \A b \in Buckets : HeldRows[b] \in Nat /\ HeldRows'[b] \in Nat
      /\ \A c \in Calls : OnTheWay[c] \in Nat /\ OnTheWay'[c] \in Nat
      /\ \A x \in Sandboxes : Lived[x] \in Nat /\ Lived'[x] \in Nat
  BY BillOfNaturals, NextBillOfNaturals DEF IInv
<1>2. SumFunctionOnSet(HeldRows', Buckets) <= SumFunctionOnSet(HeldRows, Buckets)
  <2>1. \A b \in Buckets : HeldRows'[b] <= HeldRows[b]
    BY DEF HeldRows
  <2> QED BY <1>1, <2>1, SumMonotonic
<1>3. SumFunctionOnSet(OnTheWay', Calls) <= SumFunctionOnSet(OnTheWay, Calls)
  <2>1. \A c \in Calls : OnTheWay'[c] <= OnTheWay[c]
    BY DEF OnTheWay
  <2> QED BY <1>1, <2>1, SumMonotonic
<1>4. SumFunctionOnSet(Lived, Sandboxes) <= SumFunctionOnSet(Lived', Sandboxes)
  <2>1. \A x \in Sandboxes : Lived[x] <= Lived'[x]
    BY DEF Lived
  <2> QED BY <1>1, <2>1, SumMonotonic
<1>5. /\ SumFunctionOnSet(HeldRows, Buckets) \in Nat /\ SumFunctionOnSet(HeldRows', Buckets) \in Nat
      /\ SumFunctionOnSet(OnTheWay, Calls) \in Nat /\ SumFunctionOnSet(OnTheWay', Calls) \in Nat
      /\ SumFunctionOnSet(Lived, Sandboxes) \in Nat /\ SumFunctionOnSet(Lived', Sandboxes) \in Nat
  BY <1>1, SumIsNat
<1> QED BY <1>2, <1>3, <1>4, <1>5, BillIs DEF IInv

-----------------------------------------------------------------------------
(***************************************************************************)
(* The invariant holds at first, and every step preserves it.              *)
(***************************************************************************)
\* A metering that was just set up satisfies the inductive invariant.
LEMMA InitIInv == Init => IInv
<1> SUFFICES ASSUME Init PROVE IInv
  OBVIOUS
<1> USE DEF Init
<1>1. MinuteOf(0) \in Nat /\ MinuteOf(MaxTime) \in Nat /\ MinuteOf(0) <= MinuteOf(MaxTime)
  BY MinuteFacts, MeteringAssumption
<1>2. TypeOK
  <2>1. Empty \in Rows /\ Zero \in [Buckets -> Nat]
    BY DEF Empty, Zero, Rows, NoRow
  <2>2. NoBox \in Sandboxes /\ NoSample \in Sample /\ Unlabelled \in Labels
    BY MeteringAssumption DEF NoBox, NoSample, Sample, Labels
  <2>3. NoFlush \in [stage : {"idle", "collect", "put"}, minute : 0..MinuteOf(MaxTime), closed : Rows]
    BY <1>1, <2>1 DEF NoFlush
  <2>4. ticker \in [Calls -> [stage : {"off", "armed", "holding"}, box : Sandboxes, done : BOOLEAN,
                              last : BOOLEAN, sample : Sample]]
    BY <2>2 DEF Off
  <2>5. call \in [Calls -> [stage : {"idle", "found", "running"}, box : Sandboxes]]
    BY <2>2 DEF NoCall
  <2>6. sandbox \in [Sandboxes -> [state : {"unborn", "known", "gone"}, tenant : Labels,
                                   started : 0..MaxTime, metered : 0..MaxTime]]
    BY <2>2, MeteringAssumption
  <2> QED BY <2>1, <2>3, <2>4, <2>5, <2>6, MeteringAssumption DEF TypeOK
<1>3. Metered
  BY DEF Metered
<1>4. Ticking
  <2>1. endedAt \in [Calls -> 0..now]
    OBVIOUS
  <2> QED BY <2>1 DEF Ticking, Off, NoCall, NoSample
<1>5. Flushing /\ TimelyOnce
  BY <1>1 DEF Flushing, TimelyOnce, OneRow, NoFlush, Empty
<1>6. ASSUME NEW b \in Buckets PROVE Held(b) = 0
  <2>1. \A f \in Flushers : Carried(b)[f] = 0
    BY DEF Carried, NoFlush, Empty, Amount
  <2>4. InFlushes(b) = 0
    BY <2>1, SumZero, MeteringAssumption DEF InFlushes
  <2>5. Amount(live[b]) = 0 /\ Amount(stored[b]) = 0
    BY DEF Empty, Amount
  <2> QED BY <2>4, <2>5, HeldIs
<1>7. TimelySamplesAddUp
  BY <1>6 DEF TimelySamplesAddUp, Zero
<1>8. NeverOverbilled
  <2>1. \A b \in Buckets : HeldRows[b] = 0
    BY <1>6 DEF HeldRows
  <2>2. \A c \in Calls : OnTheWay[c] = 0
    BY DEF OnTheWay, Off, NoSample
  <2>3. \A x \in Sandboxes : Lived[x] = 0
    BY DEF Lived
  <2>4. /\ SumFunctionOnSet(HeldRows, Buckets) = 0 /\ SumFunctionOnSet(OnTheWay, Calls) = 0
        /\ SumFunctionOnSet(Lived, Sandboxes) = 0
    BY <2>1, <2>2, <2>3, SumZero, BucketFacts, MeteringAssumption
  <2> QED BY <2>4, BillIs
<1> QED BY <1>2, <1>3, <1>4, <1>5, <1>7, <1>8 DEF IInv

\* Time passes, or the provider does something: the aggregator keeps what it has.
LEMMA AggregatorRests ==
  ASSUME IInv, TypeOK', UNCHANGED <<aggregatorVars, ticked, dropped, belated>>, now <= now'
  PROVE  /\ Flushing' /\ TimelyOnce' /\ TimelySamplesAddUp'
         /\ \A b \in Buckets : Held(b)' = Held(b)
<1> USE DEF IInv, aggregatorVars
<1>1. MinuteOf(now) \in Nat /\ MinuteOf(now') \in Nat /\ MinuteOf(now) <= MinuteOf(now')
  BY MinuteFacts DEF TypeOK
<1>2. Flushing'
  BY <1>1 DEF Flushing, TypeOK
<1>3. TimelyOnce'
  BY <1>1, BucketFacts DEF TimelyOnce, OneRow
<1>4. \A b \in Buckets : Held(b)' = Held(b)
  BY HeldIs DEF InFlushes, Carried
<1> QED BY <1>2, <1>3, <1>4 DEF TimelySamplesAddUp

\* Time goes by.
LEMMA AdvanceIInv == IInv /\ Advance => IInv'
<1> SUFFICES ASSUME IInv, Advance PROVE IInv'
  OBVIOUS
<1> USE DEF IInv, Advance, providerVars, aggregatorVars, bounds, sums
<1>1. TypeOK'
  BY MeteringAssumption DEF TypeOK
<1>2. now \in Int /\ now <= now'
  BY DEF TypeOK
<1>3. Metered'
  BY <1>2 DEF Metered, TypeOK
<1>4. Ticking'
  BY <1>2 DEF Ticking, TypeOK, Sample
<1>5. Flushing' /\ TimelyOnce' /\ TimelySamplesAddUp' /\ \A b \in Buckets : Held(b)' = Held(b)
  BY <1>1, <1>2, AggregatorRests
<1>6. NeverOverbilled'
  <2>1. \A b \in Buckets : Held(b)' <= Held(b)
    BY <1>5, AmountsOfFlushes
  <2>2. \A x \in Sandboxes : sandbox[x].metered - sandbox[x].started \in Nat
    BY DEF TypeOK, Metered
  <2>3. \A c \in Calls : ticker[c].sample.amount \in Nat
    BY DEF TypeOK, Sample
  <2> QED BY <1>1, <1>3, <2>1, <2>2, <2>3, NoMoreBilled
<1> QED BY <1>1, <1>3, <1>4, <1>5, <1>6

\* A step of the provider that takes no sample and shortens no life.
LEMMA ProviderKeepsBill ==
  ASSUME IInv, TypeOK', Metered', UNCHANGED <<now, aggregatorVars, ticked, dropped, belated>>,
         \A c \in Calls : ticker'[c].sample.amount <= ticker[c].sample.amount,
         \A x \in Sandboxes : sandbox[x].metered - sandbox[x].started
                                <= sandbox'[x].metered - sandbox'[x].started
  PROVE  Flushing' /\ TimelyOnce' /\ TimelySamplesAddUp' /\ NeverOverbilled'
<1>1. now <= now'
  BY DEF IInv, TypeOK
<1>2. Flushing' /\ TimelyOnce' /\ TimelySamplesAddUp' /\ \A b \in Buckets : Held(b)' = Held(b)
  BY <1>1, AggregatorRests
<1>3. \A b \in Buckets : Held(b)' <= Held(b)
  BY <1>2, AmountsOfFlushes DEF IInv
<1> QED BY <1>2, <1>3, NoMoreBilled

\* A sandbox is made.
LEMMA ProvisionIInv == ASSUME IInv, NEW x \in Sandboxes, Provision(x) PROVE IInv'
<1> USE DEF IInv, Provision, aggregatorVars, bounds, sums
<1>1. TypeOK'
  BY DEF TypeOK, Labels
<1>2. Metered'
  BY DEF Metered, TypeOK
<1>3. Ticking'
  BY DEF Ticking, TypeOK
<1>4. \A y \in Sandboxes : sandbox[y].metered - sandbox[y].started
                             <= sandbox'[y].metered - sandbox'[y].started
  BY DEF Metered, TypeOK
<1>5. \A c \in Calls : ticker'[c].sample.amount <= ticker[c].sample.amount
  BY DEF TypeOK, Sample
<1> QED BY <1>1, <1>2, <1>3, <1>4, <1>5, ProviderKeepsBill

\* A handle is given its scope.
LEMMA LabelHandleIInv ==
  ASSUME IInv, NEW x \in Sandboxes, NEW t \in Tenants, LabelHandle(x, t) PROVE IInv'
<1> USE DEF IInv, LabelHandle, aggregatorVars, bounds, sums
<1>1. TypeOK'
  BY DEF TypeOK, Labels
<1>2. Metered'
  BY DEF Metered, TypeOK
<1>3. Ticking'
  BY DEF Ticking, TypeOK
<1>4. \A y \in Sandboxes : sandbox[y].metered - sandbox[y].started
                             <= sandbox'[y].metered - sandbox'[y].started
  BY DEF Metered, TypeOK
<1>5. \A c \in Calls : ticker'[c].sample.amount <= ticker[c].sample.amount
  BY DEF TypeOK, Sample
<1> QED BY <1>1, <1>2, <1>3, <1>4, <1>5, ProviderKeepsBill

\* A sandbox ends.
LEMMA TerminateIInv == ASSUME IInv, NEW x \in Sandboxes, Terminate(x) PROVE IInv'
<1> USE DEF IInv, Terminate, aggregatorVars, bounds, sums
<1>1. TypeOK'
  BY SMTT(30) DEF TypeOK
<1>2. Metered'
  BY DEF Metered, TypeOK
<1>3. Ticking'
  BY DEF Ticking, TypeOK
<1>4. \A y \in Sandboxes : sandbox[y].metered - sandbox[y].started
                             <= sandbox'[y].metered - sandbox'[y].started
  BY DEF Metered, TypeOK
<1>5. \A c \in Calls : ticker'[c].sample.amount <= ticker[c].sample.amount
  BY DEF TypeOK, Sample
<1> QED BY <1>1, <1>2, <1>3, <1>4, <1>5, ProviderKeepsBill

\* What a step of a call that leaves sandboxes and samples alone leaves to prove.
LEMMA CallIInv ==
  ASSUME IInv, TypeOK', Ticking', UNCHANGED <<now, sandbox, aggregatorVars, ticked, dropped, belated>>,
         \A c \in Calls : ticker'[c].sample = ticker[c].sample
  PROVE  IInv'
<1> USE DEF IInv
<1>1. Metered'
  BY DEF Metered
<1>2. \A y \in Sandboxes : sandbox[y].metered - sandbox[y].started
                             <= sandbox'[y].metered - sandbox'[y].started
  BY DEF Metered, TypeOK
<1>3. \A c \in Calls : ticker'[c].sample.amount <= ticker[c].sample.amount
  BY DEF TypeOK, Sample
<1> QED BY <1>1, <1>2, <1>3, ProviderKeepsBill

\* A call of Execute begins.
LEMMA ExecuteIInv ==
  ASSUME IInv, NEW c \in Calls, NEW x \in Sandboxes, Execute(c, x) PROVE IInv'
<1> USE DEF IInv, Execute, aggregatorVars, sums
<1>1. TypeOK'
  <2>1. executes' \in 0..MaxExecutes
    BY MeteringAssumption DEF TypeOK
  <2> QED BY <2>1 DEF TypeOK
<1>2. Ticking'
  BY DEF Ticking, TypeOK
<1> QED BY <1>1, <1>2, CallIInv

\* A call is refused.
LEMMA RefuseIInv == ASSUME IInv, NEW c \in Calls, Refuse(c) PROVE IInv'
<1> USE DEF IInv, Refuse, aggregatorVars, sums, bounds
<1>1. TypeOK'
  BY MeteringAssumption DEF TypeOK, NoCall, NoBox
<1>2. Ticking'
  BY DEF Ticking, TypeOK, NoCall
<1> QED BY <1>1, <1>2, CallIInv

\* A call runs its command.
LEMMA RunIInv == ASSUME IInv, NEW c \in Calls, Run(c) PROVE IInv'
<1> USE DEF IInv, Run, aggregatorVars, sums, bounds
<1>1. NoSample \in Sample
  BY MeteringAssumption DEF NoSample, Sample, Labels
<1>2. TypeOK'
  BY <1>1, ZenonT(30) DEF TypeOK, Off
<1>3. Ticking'
  BY DEF Ticking, TypeOK, Off, NoSample
<1>4. \A d \in Calls : ticker'[d].sample = ticker[d].sample
  BY DEF Ticking, TypeOK, Off
<1> QED BY <1>2, <1>3, <1>4, CallIInv

\* A command ends; its last sample is still to come.
LEMMA ExecuteEndsIInv == ASSUME IInv, NEW c \in Calls, ExecuteEnds(c) PROVE IInv'
<1> USE DEF IInv, ExecuteEnds, aggregatorVars, sums, bounds
<1>1. TypeOK'
  <2>1. NoCall \in [stage : {"idle", "found", "running"}, box : Sandboxes]
    BY MeteringAssumption DEF NoCall, NoBox
  <2>2. call' \in [Calls -> [stage : {"idle", "found", "running"}, box : Sandboxes]]
    BY <2>1 DEF TypeOK
  <2>3. ticker' \in [Calls -> [stage : {"off", "armed", "holding"}, box : Sandboxes, done : BOOLEAN,
                               last : BOOLEAN, sample : Sample]]
    BY ZenonT(30) DEF TypeOK
  <2> QED BY <2>2, <2>3 DEF TypeOK
<1>2. Ticking'
  BY DEF Ticking, TypeOK, NoCall
<1>3. \A d \in Calls : ticker'[d].sample = ticker[d].sample
  BY DEF TypeOK
<1> QED BY <1>1, <1>2, <1>3, CallIInv

\* A sample moves time from the life of the sandbox to the way to the aggregator.
LEMMA TakeSampleIInv == ASSUME IInv, NEW c \in Calls, TakeSample(c) PROVE IInv'
<1> USE DEF IInv
<1> DEFINE x == ticker[c].box
           amount == now - sandbox[x].metered
<1>1. PICK last \in LastSample(c) :
        ticker' = [ticker EXCEPT ![c].stage = "holding", ![c].last = last,
                     ![c].sample = [tenant |-> sandbox[x].tenant, at |-> now, amount |-> amount]]
  BY DEF TakeSample
<1>2. /\ x \in Sandboxes /\ ticker[c].stage = "armed" /\ sandbox[x].state # "unborn"
      /\ ticker[c].sample = NoSample /\ amount \in Nat /\ last \in BOOLEAN
      /\ last => ticker[c].done
  BY DEF TakeSample, Ticking, TypeOK, Metered, LastSample
<1>3. /\ sandbox' = [sandbox EXCEPT ![x].metered = now]
      /\ UNCHANGED <<now, call, aggregatorVars, bounds, endedAt, sums>>
  BY DEF TakeSample
<1> HIDE DEF x
<1>4. TypeOK'
  <2>1. [tenant |-> sandbox[x].tenant, at |-> now, amount |-> amount] \in Sample
    BY <1>2 DEF TypeOK, Sample
  <2>2. ticker' \in [Calls -> [stage : {"off", "armed", "holding"}, box : Sandboxes, done : BOOLEAN,
                               last : BOOLEAN, sample : Sample]]
    <3> DEFINE s == [tenant |-> sandbox[x].tenant, at |-> now, amount |-> amount]
               t == [ticker[c] EXCEPT !.stage = "holding", !.last = last, !.sample = s]
    <3>1. t \in [stage : {"off", "armed", "holding"}, box : Sandboxes, done : BOOLEAN,
                               last : BOOLEAN, sample : Sample]
      <4> HIDE DEF s
      <4> QED BY <1>2, <2>1 DEF TypeOK, s
    <3>2. ticker' = [ticker EXCEPT ![c] = t]
      BY <1>1
    <3> HIDE DEF t, s
    <3> QED BY <3>1, <3>2 DEF TypeOK
  <2>3. sandbox' \in [Sandboxes -> [state : {"unborn", "known", "gone"}, tenant : Labels,
                                    started : 0..MaxTime, metered : 0..MaxTime]]
    BY <1>2, <1>3 DEF TypeOK
  <2> QED BY <1>3, <2>2, <2>3 DEF TypeOK, aggregatorVars, bounds, sums
<1>5. Metered'
  BY <1>2, <1>3 DEF Metered, TypeOK
<1>6. Ticking'
  <2>1. /\ ticker'[c].stage = "holding" /\ ticker'[c].box = x /\ ticker'[c].done = ticker[c].done
        /\ ticker'[c].last = last /\ ticker'[c].sample.at = now
    BY <1>1 DEF TypeOK, x
  <2>2. \A d \in Calls \ {c} : ticker'[d] = ticker[d]
    BY <1>1 DEF TypeOK
  <2>3. \A y \in Sandboxes : sandbox'[y].state = sandbox[y].state
                             /\ sandbox[y].metered <= sandbox'[y].metered
    BY <1>3 DEF TypeOK, Metered
  <2>4. sandbox'[x].metered = now
    BY <1>2, <1>3 DEF TypeOK
  <2>5. ASSUME NEW d \in Calls \ {c}, ticker[d].stage = "holding", ticker[d].last
        PROVE  ticker[d].done /\ endedAt[d] <= sandbox'[ticker[d].box].metered
    <3>1. ticker[d].box \in Sandboxes /\ endedAt[d] \in Int
      BY DEF TypeOK, Ticking
    <3>2. ticker[d].done /\ endedAt[d] <= sandbox[ticker[d].box].metered
      BY <2>5 DEF Ticking
    <3>3. sandbox[ticker[d].box].metered \in Int /\ sandbox'[ticker[d].box].metered \in Int
      BY <3>1, <1>4 DEF TypeOK
    <3> QED BY <2>3, <3>1, <3>2, <3>3
  <2>6. endedAt' \in [Calls -> 0..now']
    BY <1>3 DEF Ticking
  <2> SUFFICES ASSUME NEW d \in Calls
               PROVE  /\ call'[d].stage = "found" =>
                           ticker'[d].stage = "off" /\ sandbox'[call'[d].box].state # "unborn"
                      /\ call'[d].stage = "running" => ticker'[d].stage # "off" /\ ~ticker'[d].done
                      /\ ticker'[d].stage # "off" => sandbox'[ticker'[d].box].state # "unborn"
                      /\ ticker'[d].stage # "holding" => ticker'[d].sample = NoSample
                      /\ ticker'[d].sample.at <= now'
                      /\ ticker'[d].stage = "off" => endedAt'[d] = 0
                      /\ ticker'[d].stage = "holding" /\ ticker'[d].last =>
                           ticker'[d].done /\ endedAt'[d] <= sandbox'[ticker'[d].box].metered
    BY <2>6 DEF Ticking
  <2>7. CASE d # c
    BY <1>3, <2>2, <2>3, <2>5, <2>7 DEF Ticking, TypeOK
  <2>8. CASE d = c
    <3>1. endedAt[c] <= now /\ now <= now
      BY DEF Ticking, TypeOK
    <3> QED BY <1>2, <1>3, <2>1, <2>3, <2>4, <2>8, <3>1 DEF Ticking, TypeOK
  <2> QED BY <2>7, <2>8
<1>7. now <= now' /\ UNCHANGED <<aggregatorVars, ticked, dropped, belated>>
  BY <1>3 DEF sums, TypeOK
<1>8. Flushing' /\ TimelyOnce' /\ TimelySamplesAddUp' /\ \A b \in Buckets : Held(b)' = Held(b)
  BY <1>4, <1>7, AggregatorRests
<1>9. NeverOverbilled'
  <2>1. /\ \A d \in Calls : OnTheWay[d] \in Nat /\ OnTheWay'[d] \in Nat
        /\ \A y \in Sandboxes : Lived[y] \in Nat /\ Lived'[y] \in Nat
        /\ \A b \in Buckets : HeldRows[b] \in Nat
    BY <1>4, <1>5, BillOfNaturals, NextBillOfNaturals
  <2>2. OnTheWay[c] = 0 /\ OnTheWay'[c] = amount /\ \A d \in Calls \ {c} : OnTheWay[d] = OnTheWay'[d]
    BY <1>1, <1>2 DEF OnTheWay, TypeOK, NoSample
  <2>3. Lived'[x] = Lived[x] + amount /\ \A y \in Sandboxes \ {x} : Lived[y] = Lived'[y]
    BY <1>2, <1>3 DEF Lived, TypeOK
  <2>4. SumFunctionOnSet(OnTheWay', Calls) = SumFunctionOnSet(OnTheWay, Calls) + OnTheWay'[c] - OnTheWay[c]
    <3> HIDE DEF amount
    <3>1. \A d \in Calls : OnTheWay[d] \in Nat /\ OnTheWay'[d] \in Nat
      BY <2>1
    <3>2. \A d \in Calls \ {c} : OnTheWay[d] = OnTheWay'[d]
      BY <2>2
    <3> QED BY <3>1, <3>2, SumChange, MeteringAssumption
  <2>5. SumFunctionOnSet(Lived', Sandboxes) = SumFunctionOnSet(Lived, Sandboxes) + Lived'[x] - Lived[x]
    BY <1>2, <2>1, <2>3, SumChange, MeteringAssumption
  <2>6. HeldRows' = HeldRows
    BY <1>8 DEF HeldRows
  <2>7. /\ SumFunctionOnSet(OnTheWay, Calls) \in Nat /\ SumFunctionOnSet(Lived, Sandboxes) \in Nat
        /\ SumFunctionOnSet(HeldRows, Buckets) \in Nat
    BY <2>1, SumIsNat, MeteringAssumption, BucketFacts
  <2>8. Lived[x] \in Nat
    BY <1>2, <2>1
  <2> QED BY <1>2, <2>2, <2>3, <2>4, <2>5, <2>6, <2>7, <2>8, BillIs
<1> QED BY <1>4, <1>5, <1>6, <1>8, <1>9

\* A sample moves from the way to its bucket.
LEMMA TickIInv == ASSUME IInv, NEW c \in Calls, Tick(c) PROVE IInv'
<1> USE DEF IInv
<1>a. ticker[c].sample \in Sample /\ Bucket(ticker[c].sample) \in Buckets
  BY BucketFacts DEF TypeOK
<1>b. PICK s \in Sample, b \in Buckets : s = ticker[c].sample /\ b = Bucket(s)
  BY <1>a
<1>1. s \in Sample /\ b \in Buckets /\ b[2] = MinuteOf(s.at) /\ s.amount \in Nat
  BY <1>b, BucketFacts DEF Sample
<1>2. /\ live'    = [live EXCEPT ![b] = Amount(@) + s.amount]
      /\ ticked'  = [ticked EXCEPT ![b] = @ + s.amount]
      /\ belated' = IF MinuteOf(now) > b[2] THEN belated \cup {b} ELSE belated
      /\ ticker'  = [ticker EXCEPT ![c] = IF @.last THEN Off
                                          ELSE [@ EXCEPT !.stage = "armed", !.sample = NoSample]]
      /\ endedAt' = IF ticker[c].last THEN [endedAt EXCEPT ![c] = 0] ELSE endedAt
      /\ UNCHANGED <<now, sandbox, call, stored, flush, bounds, dropped>>
      /\ ticker[c].stage = "holding"
  BY <1>b DEF Tick
<1>3. NoSample \in Sample /\ NoBox \in Sandboxes
  BY MeteringAssumption DEF NoSample, Sample, Labels, NoBox
<1>4. TypeOK'
  <2>1. live' \in Rows /\ ticked' \in [Buckets -> Nat]
    <3>1. Amount(live[b]) \in Nat /\ ticked[b] \in Nat
      BY <1>1, Amounts DEF TypeOK
    <3>2. Amount(live[b]) + s.amount \in Nat /\ ticked[b] + s.amount \in Nat
      BY <1>1, <3>1
    <3>3. live' = [live EXCEPT ![b] = Amount(live[b]) + s.amount]
          /\ ticked' = [ticked EXCEPT ![b] = ticked[b] + s.amount]
      BY <1>2
    <3> QED BY <3>2, <3>3 DEF TypeOK, Rows
  <2>2. ticker' \in [Calls -> [stage : {"off", "armed", "holding"}, box : Sandboxes, done : BOOLEAN,
                               last : BOOLEAN, sample : Sample]]
    <3> DEFINE t == IF ticker[c].last THEN Off
                    ELSE [ticker[c] EXCEPT !.stage = "armed", !.sample = NoSample]
    <3>1. t \in [stage : {"off", "armed", "holding"}, box : Sandboxes, done : BOOLEAN,
                               last : BOOLEAN, sample : Sample]
      <4>1. Off \in [stage : {"off", "armed", "holding"}, box : Sandboxes, done : BOOLEAN,
                      last : BOOLEAN, sample : Sample]
        BY <1>3 DEF Off
      <4>2. [ticker[c] EXCEPT !.stage = "armed", !.sample = NoSample]
              \in [stage : {"off", "armed", "holding"}, box : Sandboxes, done : BOOLEAN,
                   last : BOOLEAN, sample : Sample]
        <5>1. ticker[c] \in [stage : {"off", "armed", "holding"}, box : Sandboxes, done : BOOLEAN,
                              last : BOOLEAN, sample : Sample]
          BY DEF TypeOK
        <5> HIDE DEF IInv
        <5> QED BY <1>3, <5>1
      <4> QED BY <4>1, <4>2
    <3>2. ticker' = [ticker EXCEPT ![c] = t]
      BY <1>2
    <3> HIDE DEF t
    <3> QED BY <3>1, <3>2 DEF TypeOK
  <2>3. belated' \subseteq Buckets
    BY <1>1, <1>2 DEF TypeOK
  <2> QED BY <1>2, <2>1, <2>2, <2>3 DEF TypeOK, bounds
<1>5. Metered'
  BY <1>2 DEF Metered
<1>6. Ticking'
  <2>1. \A d \in Calls \ {c} : ticker'[d] = ticker[d] /\ endedAt'[d] = endedAt[d]
    BY <1>2 DEF TypeOK, Ticking
  <2>2. CASE ticker[c].last
    <3>1. ticker'[c] = Off /\ endedAt'[c] = 0 /\ endedAt' \in [Calls -> 0..now]
      BY <1>2, <2>2 DEF TypeOK, Ticking
    <3>2. call[c].stage # "running"
      BY <1>2, <2>2 DEF Ticking
    <3> QED BY <1>2, <2>1, <3>1, <3>2 DEF Ticking, TypeOK, Off, NoSample
  <2>3. CASE ~ ticker[c].last
    <3>1. /\ ticker'[c].stage = "armed" /\ ticker'[c].sample = NoSample /\ endedAt' = endedAt
          /\ ticker'[c].box = ticker[c].box /\ ticker'[c].done = ticker[c].done
      BY <1>2, <2>3 DEF TypeOK
    <3> QED BY <1>2, <2>1, <3>1 DEF Ticking, TypeOK, NoSample
  <2> QED BY <2>2, <2>3
<1>7. Flushing'
  BY <1>2 DEF Flushing
<1>8. MinuteOf(now) \in Nat /\ \A f \in Flushers : flush[f].minute \in Nat
  BY MinuteFacts DEF TypeOK
<1>9. TimelyOnce'
  <2> SUFFICES ASSUME NEW a \in Buckets \ (belated' \cup dropped') PROVE OneRow(a)'
    BY DEF TimelyOnce
  <2>1. OneRow(a) /\ a[2] \in Nat
    BY <1>2, BucketFacts DEF TimelyOnce
  <2>2. CASE a # b
    <3>1. live'[a] = live[a]
      BY <1>2, <2>2 DEF TypeOK, Rows
    <3> QED BY <1>2, <2>1, <3>1 DEF OneRow
  <2>3. CASE a = b
    <3>1. ~ (MinuteOf(now) > b[2])
      BY <1>2, <2>3
    <3>2. stored[b] = NoRow /\ \A f \in Flushers : flush[f].closed[b] = NoRow
      BY <1>8, <2>1, <2>3, <3>1 DEF OneRow, Flushing
    <3> QED BY <1>2, <2>3, <3>2 DEF OneRow
  <2> QED BY <2>2, <2>3
<1>10. /\ Held(b)' = Held(b) + s.amount
       /\ \A a \in Buckets \ {b} : Held(a)' = Held(a)
  <2>1. \A a \in Buckets : InFlushes(a)' = InFlushes(a)
    BY <1>2 DEF InFlushes, Carried
  <2>2. Amount(live[b]) \in Nat /\ Amount(stored[b]) \in Nat /\ InFlushes(b) \in Nat
    BY <1>1, Amounts, AmountsOfFlushes DEF TypeOK
  <2>3. Amount(live'[b]) = Amount(live[b]) + s.amount
    <3>1. live'[b] = Amount(live[b]) + s.amount
      BY <1>1, <1>2 DEF TypeOK, Rows
    <3> QED BY <1>1, <2>2, <3>1 DEF Amount, NoRow
  <2>4. \A a \in Buckets \ {b} : live'[a] = live[a]
    BY <1>2 DEF TypeOK, Rows
  <2>5. Held(b)' = Held(b) + s.amount
    <3>1. /\ Held(b) = Amount(live[b]) + Amount(stored[b]) + InFlushes(b)
          /\ Held(b)' = Amount(live'[b]) + Amount(stored'[b]) + InFlushes(b)'
      BY <1>1, HeldIs
    <3>2. stored'[b] = stored[b] /\ InFlushes(b)' = InFlushes(b) /\ s.amount \in Nat
      BY <1>1, <1>2, <2>1
    <3> QED BY <2>2, <2>3, <3>1, <3>2
  <2>6. ASSUME NEW a \in Buckets \ {b} PROVE Held(a)' = Held(a)
    BY <1>2, <2>1, <2>4, HeldIs
  <2> QED BY <2>5, <2>6
<1>11. TimelySamplesAddUp'
  <2> SUFFICES ASSUME NEW a \in Buckets \ (belated' \cup dropped') PROVE Held(a)' = ticked'[a]
    BY DEF TimelySamplesAddUp
  <2>1. Held(a) = ticked[a]
    BY <1>2 DEF TimelySamplesAddUp
  <2>2. CASE a = b
    <3>1. ticked'[b] = ticked[b] + s.amount
      BY <1>1, <1>2 DEF TypeOK
    <3> QED BY <1>10, <2>1, <2>2, <3>1
  <2>3. CASE a # b
    <3>1. ticked'[a] = ticked[a]
      BY <1>2, <2>3 DEF TypeOK
    <3> QED BY <1>10, <2>1, <2>3, <3>1
  <2> QED BY <2>2, <2>3
<1>12. NeverOverbilled'
  <2>1. /\ \A d \in Calls : OnTheWay[d] \in Nat /\ OnTheWay'[d] \in Nat
        /\ \A a \in Buckets : HeldRows[a] \in Nat /\ HeldRows'[a] \in Nat
        /\ \A x \in Sandboxes : Lived[x] \in Nat
    BY <1>4, <1>5, BillOfNaturals, NextBillOfNaturals
  <2>2. OnTheWay[c] = s.amount /\ OnTheWay'[c] = 0 /\ \A d \in Calls \ {c} : OnTheWay[d] = OnTheWay'[d]
    BY <1>2, <1>b DEF OnTheWay, TypeOK, Off, NoSample
  <2>3. HeldRows'[b] = HeldRows[b] + s.amount /\ \A a \in Buckets \ {b} : HeldRows[a] = HeldRows'[a]
    <3>1. \A a \in Buckets : HeldRows[a] = Held(a) /\ HeldRows'[a] = Held(a)'
      BY DEF HeldRows
    <3> QED BY <1>1, <1>10, <3>1
  <2>4. SumFunctionOnSet(OnTheWay', Calls) = SumFunctionOnSet(OnTheWay, Calls) + OnTheWay'[c] - OnTheWay[c]
    <3>1. \A d \in Calls : OnTheWay[d] \in Nat /\ OnTheWay'[d] \in Nat
      BY <2>1
    <3>2. \A d \in Calls \ {c} : OnTheWay[d] = OnTheWay'[d]
      BY <2>2
    <3> HIDE DEF IInv
    <3> QED BY <3>1, <3>2, SumChange, MeteringAssumption
  <2>5. SumFunctionOnSet(HeldRows', Buckets) = SumFunctionOnSet(HeldRows, Buckets) + HeldRows'[b] - HeldRows[b]
    <3>1. \A a \in Buckets : HeldRows[a] \in Nat /\ HeldRows'[a] \in Nat
      BY <2>1
    <3>2. \A a \in Buckets \ {b} : HeldRows[a] = HeldRows'[a]
      BY <2>3
    <3>3. b \in Buckets /\ IsFiniteSet(Buckets)
      BY <1>1, BucketFacts
    <3> DEFINE f == HeldRows
               g == HeldRows'
    <3>4. /\ \A a \in Buckets : f[a] \in Nat /\ g[a] \in Nat
          /\ \A a \in Buckets \ {b} : f[a] = g[a]
      BY <3>1, <3>2
    <3> HIDE DEF IInv, f, g
    <3>5. SumFunctionOnSet(g, Buckets) = SumFunctionOnSet(f, Buckets) + g[b] - f[b]
      BY <3>3, <3>4, SumChange
    <3> QED BY <3>5 DEF f, g
  <2>6. Lived' = Lived
    BY <1>2 DEF Lived
  <2>7. /\ SumFunctionOnSet(OnTheWay, Calls) \in Nat /\ SumFunctionOnSet(Lived, Sandboxes) \in Nat
        /\ SumFunctionOnSet(HeldRows, Buckets) \in Nat
    BY <2>1, SumIsNat, MeteringAssumption, BucketFacts
  <2>8. HeldRows[b] \in Nat
    BY <1>1, <2>1
  <2> QED BY <1>1, <2>2, <2>3, <2>4, <2>5, <2>6, <2>7, <2>8, BillIs
<1> QED BY <1>4, <1>5, <1>6, <1>7, <1>9, <1>11, <1>12

-----------------------------------------------------------------------------
\* A step of the aggregator that adds nothing to a bucket keeps the bill.
LEMMA AggregatorKeepsBill ==
  ASSUME IInv, TypeOK', UNCHANGED <<now, sandbox>>,
         \A b \in Buckets : Held(b)' <= Held(b),
         \A c \in Calls : ticker'[c].sample.amount <= ticker[c].sample.amount
  PROVE  Metered' /\ NeverOverbilled'
<1>1. Metered'
  BY DEF IInv, Metered
<1>2. \A x \in Sandboxes : sandbox[x].metered - sandbox[x].started
                             <= sandbox'[x].metered - sandbox'[x].started
  BY DEF IInv, Metered, TypeOK
<1> QED BY <1>1, <1>2, NoMoreBilled

\* Amounts on the way do not exceed themselves.
LEMMA SamplesStay ==
  ASSUME TypeOK, UNCHANGED ticker
  PROVE  \A c \in Calls : ticker'[c].sample.amount <= ticker[c].sample.amount
BY DEF TypeOK, Sample

\* A flush takes a step.
LEMMA FlushIInv == ASSUME IInv, NEW f \in Flushers, Flush(f) PROVE IInv'
<1> USE DEF IInv, Flush, providerVars, sums
<1>1. /\ MinuteOf(now) \in Nat /\ MinuteOf(MaxTime) \in Nat /\ MinuteOf(now) <= MinuteOf(MaxTime)
      /\ Empty \in Rows
  BY MinuteFacts, MeteringAssumption DEF TypeOK, Empty, Rows, NoRow
<1>2. TypeOK'
  <2>1. flush' \in [Flushers -> [stage : {"idle", "collect", "put"},
                                 minute : 0..MinuteOf(MaxTime), closed : Rows]]
    <3> DEFINE r == [NoFlush EXCEPT !.stage = "collect", !.minute = MinuteOf(now)]
    <3>1. r \in [stage : {"idle", "collect", "put"}, minute : 0..MinuteOf(MaxTime), closed : Rows]
      <4>1. NoFlush \in [stage : {"idle", "collect", "put"}, minute : 0..MinuteOf(MaxTime), closed : Rows]
        BY <1>1 DEF NoFlush
      <4>2. MinuteOf(now) \in 0..MinuteOf(MaxTime)
        BY <1>1
      <4> HIDE DEF IInv, Flush
      <4> QED BY <4>1, <4>2
    <3>2. flush' = [flush EXCEPT ![f] = r]
      OBVIOUS
    <3> HIDE DEF r
    <3> QED BY <3>1, <3>2 DEF TypeOK
  <2>2. flushes' \in 0..MaxFlushes
    BY MeteringAssumption DEF TypeOK
  <2> QED BY <2>1, <2>2 DEF TypeOK
<1>3. \A g \in Flushers : flush'[g].closed = flush[g].closed
  BY DEF TypeOK, Flushing, NoFlush
<1>4. \A b \in Buckets : Held(b)' = Held(b)
  BY <1>3, HeldIs DEF InFlushes, Carried
<1>5. Ticking'
  BY DEF Ticking
<1>6. Flushing'
  BY <1>1 DEF Flushing, TypeOK, NoFlush, Empty
<1>7. TimelyOnce'
  BY <1>3 DEF TimelyOnce, OneRow
<1>8. \A b \in Buckets : Held(b)' <= Held(b)
  BY <1>4, AmountsOfFlushes
<1> QED BY <1>2, <1>4, <1>5, <1>6, <1>7, <1>8, AggregatorKeepsBill, SamplesStay DEF TimelySamplesAddUp

\* Closed buckets move from the memory to the flush.
LEMMA CollectIInv == ASSUME IInv, NEW f \in Flushers, Collect(f) PROVE IInv'
<1> USE DEF IInv
<1> DEFINE closed == ClosedAt(flush[f].minute)
<1>1. /\ flush[f].stage = "collect"
      /\ flush' = [flush EXCEPT ![f].stage = "put", ![f].closed =
                     [b \in Buckets |-> IF b \in closed THEN live[b] ELSE NoRow]]
      /\ live'  = [b \in Buckets |-> IF b \in closed THEN NoRow ELSE live[b]]
      /\ UNCHANGED <<now, providerVars, stored, bounds, endedAt, sums>>
  BY DEF Collect
<1>2. closed = {b \in Buckets : live[b] # NoRow /\ b[2] < flush[f].minute}
  BY DEF ClosedAt, RowsOf
<1>3. flush[f].closed = Empty
  BY <1>1 DEF Flushing
<1> HIDE DEF closed
<1>4. /\ flush'[f].closed = [b \in Buckets |-> IF b \in closed THEN live[b] ELSE NoRow]
      /\ flush'[f].stage = "put" /\ flush'[f].minute = flush[f].minute
      /\ \A g \in Flushers \ {f} : flush'[g] = flush[g]
  BY <1>1 DEF TypeOK
<1>5. TypeOK'
  <2>1. live' \in Rows /\ [b \in Buckets |-> IF b \in closed THEN live[b] ELSE NoRow] \in Rows
    BY <1>1 DEF TypeOK, Rows
  <2>2. flush' \in [Flushers -> [stage : {"idle", "collect", "put"},
                                 minute : 0..MinuteOf(MaxTime), closed : Rows]]
    BY <1>1, <2>1, ZenonT(30) DEF TypeOK
  <2> QED BY <1>1, <2>1, <2>2 DEF TypeOK, providerVars, bounds, sums
<1>6. ASSUME NEW b \in Buckets PROVE Held(b)' = Held(b)
  <2>1. InFlushes(b)' = InFlushes(b) + Amount(flush'[f].closed[b]) - Amount(flush[f].closed[b])
    BY <1>4, <1>5, FlushChange
  <2>2. Amount(flush[f].closed[b]) = 0
    BY <1>3 DEF Empty, Amount
  <2>3. Amount(flush'[f].closed[b]) + Amount(live'[b]) = Amount(live[b])
    BY <1>1, <1>4, Amounts DEF Amount, TypeOK, NoRow
  <2>4. /\ Amount(live[b]) \in Nat /\ Amount(live'[b]) \in Nat /\ Amount(stored[b]) \in Nat
        /\ InFlushes(b) \in Nat /\ Amount(flush'[f].closed[b]) \in Nat
    BY <1>5, Amounts, AmountsOfFlushes DEF TypeOK
  <2>5. stored'[b] = stored[b]
    BY <1>1
  <2>6. Held(b)' = Amount(live'[b]) + Amount(stored[b]) + InFlushes(b)'
    BY <2>5, HeldIs
  <2>7. Held(b) = Amount(live[b]) + Amount(stored[b]) + InFlushes(b)
    BY HeldIs
  <2> QED BY <2>1, <2>2, <2>3, <2>4, <2>6, <2>7
<1>7. Ticking'
  BY <1>1 DEF Ticking, providerVars
<1>8. Flushing'
  <2> SUFFICES ASSUME NEW g \in Flushers
               PROVE  /\ flush'[g].minute <= MinuteOf(now)
                      /\ flush'[g].stage # "put" => flush'[g].closed = Empty
                      /\ \A b \in Buckets : flush'[g].closed[b] # NoRow => b[2] < flush'[g].minute
    BY <1>1 DEF Flushing
  <2>1. CASE g # f
    BY <1>4, <2>1 DEF Flushing
  <2>2. CASE g = f
    <3>1. \A b \in Buckets : flush'[f].closed[b] # NoRow => b[2] < flush[f].minute
      BY <1>2, <1>4
    <3> QED BY <1>4, <2>2, <3>1 DEF Flushing
  <2> QED BY <2>1, <2>2
<1>9. TimelyOnce'
  <2> SUFFICES ASSUME NEW b \in Buckets \ (belated \cup dropped) PROVE OneRow(b)'
    BY <1>1 DEF TimelyOnce, sums
  <2>1. OneRow(b)
    BY DEF TimelyOnce
  <2>2. CASE b \in closed
    <3>1. /\ live[b] # NoRow /\ live'[b] = NoRow /\ stored'[b] = NoRow
          /\ \A g \in Flushers \ {f} : flush'[g].closed[b] = NoRow
      BY <1>1, <1>2, <1>4, <2>1, <2>2, ZenonT(30) DEF OneRow
    <3> QED BY <3>1 DEF OneRow
  <2>3. CASE b \notin closed
    <3>1. live'[b] = live[b] /\ flush'[f].closed[b] = NoRow
      BY <1>1, <1>4, <2>3
    <3>2. \A g \in Flushers : flush'[g].closed[b] # NoRow => g # f /\ flush[g].closed[b] # NoRow
      BY <1>4, <3>1
    <3>3. stored'[b] = stored[b] /\ now' = now
      BY <1>1
    <3> QED BY <2>1, <3>1, <3>2, <3>3 DEF OneRow
  <2> QED BY <2>2, <2>3
<1>10. \A b \in Buckets : Held(b)' <= Held(b)
  BY <1>6, AmountsOfFlushes
<1>11. Metered' /\ NeverOverbilled'
  BY <1>1, <1>5, <1>10, AggregatorKeepsBill, SamplesStay DEF providerVars
<1>12. TimelySamplesAddUp'
  BY <1>1, <1>6 DEF TimelySamplesAddUp, sums
<1> QED BY <1>5, <1>7, <1>8, <1>9, <1>11, <1>12

\* A row moves from the flush to the disk, in the place of what is there.
LEMMA PutRowIInv == ASSUME IInv, NEW f \in Flushers, NEW a \in Buckets, PutRow(f, a) PROVE IInv'
<1> USE DEF IInv
<1>1. /\ flush[f].stage = "put" /\ flush[f].closed[a] # NoRow
      /\ stored' = [stored EXCEPT ![a] = flush[f].closed[a]]
      /\ flush'  = [flush EXCEPT ![f].closed[a] = NoRow]
      /\ UNCHANGED <<now, providerVars, live, bounds, endedAt, sums>>
  BY DEF PutRow
<1>2. /\ flush'[f].stage = "put" /\ flush'[f].minute = flush[f].minute
      /\ flush'[f].closed[a] = NoRow
      /\ \A b \in Buckets \ {a} : flush'[f].closed[b] = flush[f].closed[b]
      /\ \A g \in Flushers \ {f} : flush'[g] = flush[g]
  BY <1>1 DEF TypeOK, Rows
<1>3. stored'[a] = flush[f].closed[a] /\ \A b \in Buckets \ {a} : stored'[b] = stored[b]
  BY <1>1 DEF TypeOK, Rows
<1>4. TypeOK'
  <2>1. flush[f].closed \in Rows
    BY DEF TypeOK
  <2>2. stored' \in Rows /\ [flush[f].closed EXCEPT ![a] = NoRow] \in Rows
    BY <1>1, <2>1 DEF TypeOK, Rows
  <2>3. flush' = [flush EXCEPT ![f] = [@ EXCEPT !.closed = [flush[f].closed EXCEPT ![a] = NoRow]]]
    BY <1>1 DEF TypeOK
  <2>4. flush' \in [Flushers -> [stage : {"idle", "collect", "put"},
                                 minute : 0..MinuteOf(MaxTime), closed : Rows]]
    BY <2>2, <2>3 DEF TypeOK
  <2> QED BY <1>1, <2>2, <2>4 DEF TypeOK, providerVars, bounds, sums
<1>5. ASSUME NEW b \in Buckets
      PROVE  /\ b # a => Held(b)' = Held(b)
             /\ Held(a)' = Held(a) - Amount(stored[a])
             /\ Amount(stored[a]) \in Nat
  <2>1. \A e \in Buckets : InFlushes(e)' =
          InFlushes(e) + Amount(flush'[f].closed[e]) - Amount(flush[f].closed[e])
    BY <1>2, <1>4, FlushChange
  <2>2. Amount(flush'[f].closed[a]) = 0
    BY <1>2 DEF Amount
  <2>3. \A e \in Buckets :
          /\ Amount(live[e]) \in Nat /\ Amount(stored[e]) \in Nat /\ InFlushes(e) \in Nat
          /\ Amount(flush[f].closed[e]) \in Nat
    BY Amounts, AmountsOfFlushes DEF TypeOK
  <2>4. Held(a)' = Held(a) - Amount(stored[a])
    BY <1>1, <1>3, <2>1, <2>2, <2>3, HeldIs
  <2>5. ASSUME b # a PROVE Held(b)' = Held(b)
    <3>1. /\ InFlushes(b)' = InFlushes(b) + Amount(flush[f].closed[b]) - Amount(flush[f].closed[b])
          /\ Amount(stored'[b]) = Amount(stored[b]) /\ Amount(live'[b]) = Amount(live[b])
      BY <1>1, <1>2, <1>3, <2>1, <2>5
    <3> QED BY <2>3, <3>1, HeldIs
  <2> QED BY <2>3, <2>4, <2>5
<1>6. Ticking'
  BY <1>1 DEF Ticking, providerVars
<1>7. Flushing'
  BY <1>1, <1>2 DEF Flushing
<1>8. MinuteOf(now) \in Nat /\ flush[f].minute \in Nat /\ a[2] \in Nat
  BY MinuteFacts, BucketFacts DEF TypeOK
<1>9. TimelyOnce'
  <2> SUFFICES ASSUME NEW b \in Buckets \ (belated \cup dropped) PROVE OneRow(b)'
    BY <1>1 DEF TimelyOnce, sums
  <2>1. OneRow(b)
    BY DEF TimelyOnce
  <2>2. CASE b = a
    <3>1. live[a] = NoRow /\ \A g \in Flushers \ {f} : flush[g].closed[a] = NoRow
      BY <1>1, <2>1, <2>2 DEF OneRow
    <3>2. a[2] < MinuteOf(now)
      BY <1>1, <1>8 DEF Flushing
    <3> QED BY <1>1, <1>2, <2>2, <3>1, <3>2 DEF OneRow
  <2>3. CASE b # a
    BY <1>1, <1>2, <1>3, <2>1, <2>3 DEF OneRow
  <2> QED BY <2>2, <2>3
<1>10. \A b \in Buckets : Held(b)' <= Held(b)
  BY <1>5, AmountsOfFlushes
<1>11. Metered' /\ NeverOverbilled'
  BY <1>1, <1>4, <1>10, AggregatorKeepsBill, SamplesStay DEF providerVars
<1>12. TimelySamplesAddUp'
  <2> SUFFICES ASSUME NEW b \in Buckets \ (belated \cup dropped) PROVE Held(b)' = ticked[b]
    BY <1>1 DEF TimelySamplesAddUp, sums
  <2>1. b = a => Amount(stored[a]) = 0
    BY <1>1 DEF TimelyOnce, OneRow, Amount
  <2>2. Held(b) = ticked[b] /\ Held(b) \in Nat
    BY AmountsOfFlushes DEF TimelySamplesAddUp
  <2> QED BY <1>5, <2>1, <2>2
<1> QED BY <1>4, <1>6, <1>7, <1>9, <1>11, <1>12

\* What a flush did not write is dropped.
LEMMA FlushReturnsIInv == ASSUME IInv, NEW f \in Flushers, FlushReturns(f) PROVE IInv'
<1> USE DEF IInv
<1>1. /\ dropped' = dropped \cup RowsOf(flush[f].closed)
      /\ flush' = [flush EXCEPT ![f] = NoFlush]
      /\ UNCHANGED <<now, providerVars, live, stored, bounds, endedAt, ticked, belated>>
  BY DEF FlushReturns
<1>2. flush'[f] = NoFlush /\ \A g \in Flushers \ {f} : flush'[g] = flush[g]
  BY <1>1 DEF TypeOK
<1>3. MinuteOf(MaxTime) \in Nat /\ MinuteOf(now) \in Nat /\ Empty \in Rows
  BY MinuteFacts, MeteringAssumption DEF TypeOK, Empty, Rows, NoRow
<1>4. TypeOK'
  <2>1. flush' \in [Flushers -> [stage : {"idle", "collect", "put"},
                                 minute : 0..MinuteOf(MaxTime), closed : Rows]]
    BY <1>1, <1>3 DEF TypeOK, NoFlush
  <2> QED BY <1>1, <2>1 DEF TypeOK, providerVars, bounds, RowsOf
<1>5. ASSUME NEW b \in Buckets
      PROVE  /\ Held(b)' = Held(b) - Amount(flush[f].closed[b])
             /\ Amount(flush[f].closed[b]) \in Nat /\ Held(b) \in Nat
  <2>1. InFlushes(b)' = InFlushes(b) + Amount(flush'[f].closed[b]) - Amount(flush[f].closed[b])
    BY <1>2, <1>4, FlushChange
  <2>2. Amount(flush'[f].closed[b]) = 0
    BY <1>2 DEF Amount, NoFlush, Empty
  <2>3. /\ Amount(live[b]) \in Nat /\ Amount(stored[b]) \in Nat /\ InFlushes(b) \in Nat
        /\ Amount(flush[f].closed[b]) \in Nat /\ Held(b) \in Nat
    BY Amounts, AmountsOfFlushes DEF TypeOK
  <2> QED BY <1>1, <2>1, <2>2, <2>3, HeldIs
<1>6. Ticking'
  BY <1>1 DEF Ticking, providerVars
<1>7. Flushing'
  BY <1>1, <1>2, <1>3 DEF Flushing, NoFlush, Empty
<1>8. TimelyOnce'
  <2> SUFFICES ASSUME NEW b \in Buckets \ (belated' \cup dropped') PROVE OneRow(b)'
    BY DEF TimelyOnce
  <2>1. OneRow(b)
    BY <1>1 DEF TimelyOnce
  <2>2. flush'[f].closed[b] = NoRow
    BY <1>2 DEF NoFlush, Empty
  <2> QED BY <1>1, <1>2, <2>1, <2>2 DEF OneRow
<1>9. \A b \in Buckets : Held(b)' <= Held(b)
  <2> SUFFICES ASSUME NEW b \in Buckets PROVE Held(b)' <= Held(b)
    OBVIOUS
  <2> QED BY <1>5
<1>10. Metered' /\ NeverOverbilled'
  BY <1>1, <1>4, <1>9, AggregatorKeepsBill, SamplesStay DEF providerVars
<1>11. TimelySamplesAddUp'
  <2> SUFFICES ASSUME NEW b \in Buckets \ (belated' \cup dropped') PROVE Held(b)' = ticked[b]
    BY <1>1 DEF TimelySamplesAddUp
  <2>1. Amount(flush[f].closed[b]) = 0
    BY <1>1 DEF RowsOf, Amount
  <2>2. Held(b) = ticked[b]
    BY <1>1 DEF TimelySamplesAddUp
  <2> QED BY <1>5, <2>1, <2>2
<1> QED BY <1>4, <1>6, <1>7, <1>8, <1>10, <1>11

\* A crash leaves what is on disk.
LEMMA CrashIInv == ASSUME IInv, Crash PROVE IInv'
<1> USE DEF IInv
<1>1. /\ sandbox' = [x \in Sandboxes |-> [sandbox[x] EXCEPT !.state =
                                            IF @ = "known" THEN "gone" ELSE @]]
      /\ call' = [c \in Calls |-> NoCall] /\ ticker' = [c \in Calls |-> Off]
      /\ live' = Empty /\ flush' = [f \in Flushers |-> NoFlush]
      /\ endedAt' = [c \in Calls |-> 0]
      /\ dropped' = dropped \cup RowsOf(live) \cup UNION {RowsOf(flush[f].closed) : f \in Flushers}
      /\ UNCHANGED <<now, stored, executes, flushes, ticked, belated>>
  BY DEF Crash
<1>2. /\ NoBox \in Sandboxes /\ NoSample \in Sample /\ Empty \in Rows
      /\ MinuteOf(MaxTime) \in Nat /\ MinuteOf(now) \in Nat
  BY MinuteFacts, MeteringAssumption
     DEF NoBox, NoSample, Sample, Labels, Empty, Rows, NoRow, TypeOK
<1>3. \A x \in Sandboxes : /\ sandbox'[x].metered = sandbox[x].metered
                           /\ sandbox'[x].started = sandbox[x].started
                           /\ sandbox'[x].tenant = sandbox[x].tenant
                           /\ sandbox'[x].state = "unborn" <=> sandbox[x].state = "unborn"
  BY <1>1 DEF TypeOK
<1>4. TypeOK'
  <2>1. sandbox' \in [Sandboxes -> [state : {"unborn", "known", "gone"}, tenant : Labels,
                                    started : 0..MaxTime, metered : 0..MaxTime]]
    <3>1. \A x \in Sandboxes : [sandbox[x] EXCEPT !.state = IF @ = "known" THEN "gone" ELSE @]
             \in [state : {"unborn", "known", "gone"}, tenant : Labels,
                  started : 0..MaxTime, metered : 0..MaxTime]
      BY DEF TypeOK
    <3> QED BY <1>1, <3>1
  <2>2. ticker' \in [Calls -> [stage : {"off", "armed", "holding"}, box : Sandboxes, done : BOOLEAN,
                               last : BOOLEAN, sample : Sample]]
    BY <1>1, <1>2 DEF Off
  <2>3. flush' \in [Flushers -> [stage : {"idle", "collect", "put"},
                                 minute : 0..MinuteOf(MaxTime), closed : Rows]]
    BY <1>1, <1>2 DEF NoFlush
  <2>4. call' \in [Calls -> [stage : {"idle", "found", "running"}, box : Sandboxes]]
    BY <1>1, <1>2 DEF NoCall
  <2>5. dropped' \subseteq Buckets
    BY <1>1 DEF TypeOK, RowsOf
  <2>6. crashes' \in 0..MaxCrashes
    BY MeteringAssumption DEF Crash, TypeOK
  <2> QED BY <1>1, <1>2, <2>1, <2>2, <2>3, <2>4, <2>5, <2>6 DEF TypeOK
<1>5. Metered'
  BY <1>1, <1>3 DEF Metered
<1>6. Ticking'
  <2>1. 0 <= now /\ now \in Int
    BY DEF TypeOK
  <2> QED BY <1>1, <2>1 DEF Ticking, Off, NoCall, NoSample
<1>7. Flushing' /\ TimelyOnce'
  <2>1. Flushing'
    BY <1>1, <1>2 DEF Flushing, NoFlush, Empty
  <2>2. ASSUME NEW b \in Buckets \ (belated' \cup dropped') PROVE OneRow(b)'
    <3>1. OneRow(b)
      BY <1>1 DEF TimelyOnce
    <3> QED BY <1>1, <3>1 DEF OneRow, NoFlush, Empty
  <2> QED BY <2>1, <2>2 DEF TimelyOnce
<1>8. ASSUME NEW b \in Buckets
      PROVE  /\ Held(b)' = Amount(stored[b]) /\ Amount(stored[b]) \in Nat
             /\ Held(b) = Amount(live[b]) + Amount(stored[b]) + InFlushes(b)
             /\ Amount(live[b]) \in Nat /\ InFlushes(b) \in Nat
  <2>1. \A f \in Flushers : Carried(b)'[f] = 0
    BY <1>1 DEF Carried, NoFlush, Empty, Amount
  <2>2. InFlushes(b)' = 0
    BY <2>1, SumZero, MeteringAssumption DEF InFlushes
  <2>3. Amount(live'[b]) = 0
    BY <1>1 DEF Empty, Amount
  <2>4. Amount(live[b]) \in Nat /\ Amount(stored[b]) \in Nat /\ InFlushes(b) \in Nat
    BY Amounts, AmountsOfFlushes DEF TypeOK
  <2> QED BY <1>1, <2>2, <2>3, <2>4, HeldIs
<1>9. NeverOverbilled'
  <2>1. \A b \in Buckets : Held(b)' <= Held(b)
    <3> SUFFICES ASSUME NEW b \in Buckets PROVE Held(b)' <= Held(b)
      OBVIOUS
    <3> QED BY <1>8
  <2>2. \A c \in Calls : ticker'[c].sample.amount <= ticker[c].sample.amount
    BY <1>1 DEF Off, NoSample, TypeOK, Sample
  <2>3. \A x \in Sandboxes : sandbox[x].metered - sandbox[x].started
                               <= sandbox'[x].metered - sandbox'[x].started
    BY <1>3 DEF TypeOK
  <2> QED BY <1>4, <1>5, <2>1, <2>2, <2>3, NoMoreBilled
<1>10. TimelySamplesAddUp'
  <2> SUFFICES ASSUME NEW b \in Buckets \ (belated' \cup dropped') PROVE Held(b)' = ticked[b]
    BY <1>1 DEF TimelySamplesAddUp
  <2>1. live[b] = NoRow /\ \A f \in Flushers : flush[f].closed[b] = NoRow
    BY <1>1 DEF RowsOf
  <2>2. Amount(live[b]) = 0 /\ \A f \in Flushers : Carried(b)[f] = 0
    BY <2>1 DEF Amount, Carried
  <2>3. InFlushes(b) = 0
    BY <2>2, SumZero, MeteringAssumption DEF InFlushes
  <2>4. Held(b) = ticked[b]
    BY <1>1 DEF TimelySamplesAddUp
  <2> QED BY <1>8, <2>2, <2>3, <2>4
<1> QED BY <1>4, <1>5, <1>6, <1>7, <1>9, <1>10

-----------------------------------------------------------------------------
\* Every step preserves the inductive invariant.
LEMMA NextIInv == IInv /\ [Next]_vars => IInv'
<1> SUFFICES ASSUME IInv, [Next]_vars PROVE IInv'
  OBVIOUS
<1>1. ASSUME Advance PROVE IInv'
  BY <1>1, AdvanceIInv
<1>2. ASSUME NEW x \in Sandboxes, Provision(x) PROVE IInv'
  BY <1>2, ProvisionIInv
<1>3. ASSUME NEW x \in Sandboxes, Terminate(x) PROVE IInv'
  BY <1>3, TerminateIInv
<1>4. ASSUME NEW x \in Sandboxes, NEW t \in Tenants, LabelHandle(x, t) PROVE IInv'
  BY <1>4, LabelHandleIInv
<1>5. ASSUME NEW c \in Calls, NEW x \in Sandboxes, Execute(c, x) PROVE IInv'
  BY <1>5, ExecuteIInv
<1>6. ASSUME NEW c \in Calls, Refuse(c) PROVE IInv'
  BY <1>6, RefuseIInv
<1>7. ASSUME NEW c \in Calls, Run(c) PROVE IInv'
  BY <1>7, RunIInv
<1>8. ASSUME NEW c \in Calls, ExecuteEnds(c) PROVE IInv'
  BY <1>8, ExecuteEndsIInv
<1>9. ASSUME NEW c \in Calls, TakeSample(c) PROVE IInv'
  BY <1>9, TakeSampleIInv
<1>10. ASSUME NEW c \in Calls, Tick(c) PROVE IInv'
  BY <1>10, TickIInv
<1>11. ASSUME NEW f \in Flushers, Flush(f) PROVE IInv'
  BY <1>11, FlushIInv
<1>12. ASSUME NEW f \in Flushers, Collect(f) PROVE IInv'
  BY <1>12, CollectIInv
<1>13. ASSUME NEW f \in Flushers, NEW b \in Buckets, PutRow(f, b) PROVE IInv'
  BY <1>13, PutRowIInv
<1>14. ASSUME NEW f \in Flushers, FlushReturns(f) PROVE IInv'
  BY <1>14, FlushReturnsIInv
<1>15. ASSUME Crash PROVE IInv'
  BY <1>15, CrashIInv
<1>16. CASE UNCHANGED vars
  <2>1. UNCHANGED <<now, sandbox, aggregatorVars, ticked, dropped, belated, call, ticker, endedAt,
                  executes, flushes, crashes>>
    BY <1>16 DEF vars, providerVars, bounds, sums
  <2>2. TypeOK' /\ Ticking'
    BY <2>1 DEF IInv, TypeOK, Ticking, aggregatorVars
  <2> QED BY <2>1, <2>2, CallIInv
<1>17. CASE Quiescent
  BY <1>16, <1>17 DEF Quiescent
<1> QED
  BY <1>1, <1>2, <1>3, <1>4, <1>5, <1>6, <1>7, <1>8, <1>9, <1>10, <1>11, <1>12, <1>13,
     <1>14, <1>15, <1>16, <1>17 DEF Next

\* In every reachable state the inductive invariant holds.
THEOREM Invariance == Spec => []IInv
<1>1. Init => IInv
  BY InitIInv
<1>2. IInv /\ [Next]_vars => IInv'
  BY NextIInv
<1> QED BY <1>1, <1>2, PTL DEF Spec

\* The type invariant holds in every reachable state.
THEOREM TypeCorrect == Spec => []TypeOK
<1>1. IInv => TypeOK
  BY DEF IInv
<1> QED BY <1>1, Invariance, PTL

\* No tenant is billed for more than the sandboxes lived, however many Executes
\* share one, however late samples and flushes come, and through every crash.
THEOREM NobodyIsBilledTwice == Spec => []NeverOverbilled
<1>1. IInv => NeverOverbilled
  BY DEF IInv
<1> QED BY <1>1, Invariance, PTL

\* A ticker stops only in Tick, after its last sample, or in a crash; the last
\* sample was taken when the Execute had returned.
LEMMA LastSampleCovers == IInv /\ [Next]_vars => LastSampleCoversExecute
<1> SUFFICES ASSUME IInv, [Next]_vars, NEW c \in Calls,
                    ticker[c].stage # "off", ticker'[c].stage = "off", crashes' = crashes
             PROVE  \A t \in {endedAt[c], endedAt'[c]} : t <= sandbox'[ticker[c].box].metered
  BY DEF LastSampleCoversExecute
<1>1. PICK d \in Calls : Tick(d)
  <2>1. ticker' # ticker
    OBVIOUS
  <2>2. ASSUME NEW d \in Calls, Run(d) PROVE FALSE
    BY <2>2 DEF Run, Off, IInv, TypeOK
  <2>3. ASSUME NEW d \in Calls, ExecuteEnds(d) PROVE FALSE
    BY <2>3 DEF ExecuteEnds, IInv, TypeOK
  <2>4. ASSUME NEW d \in Calls, TakeSample(d) PROVE FALSE
    BY <2>4 DEF TakeSample, IInv, TypeOK
  <2>5. ~ Crash
    BY DEF Crash, IInv, TypeOK
  <2> QED BY <2>1, <2>2, <2>3, <2>4, <2>5
         DEF Next, vars, providerVars, Advance, Provision, Terminate, LabelHandle, Execute, Refuse,
             Flush, Collect, PutRow, FlushReturns, Quiescent
<1>2. d = c /\ ticker[c].stage = "holding" /\ ticker[c].last
  BY <1>1 DEF Tick, IInv, TypeOK, Off
<1>3. /\ endedAt[c] <= sandbox[ticker[c].box].metered
      /\ endedAt'[c] = 0 /\ sandbox' = sandbox /\ ticker[c].box \in Sandboxes
  BY <1>1, <1>2 DEF Tick, IInv, Ticking, TypeOK
<1>4. sandbox[ticker[c].box].metered \in Nat
  BY <1>3 DEF IInv, TypeOK
<1> QED BY <1>3, <1>4

\* No time of an Execute goes unbilled: a ticker stops only when all of it is
\* metered, and what came in time is held until it is written.
THEOREM AllIsBilled == Spec => NothingGoesUnbilled
<1>1. IInv' => TimelySamplesAddUp'
  BY DEF IInv
<1>2. IInv /\ IInv' /\ [Next]_vars => [TimelySamplesAddUp' /\ LastSampleCoversExecute]_vars
  BY <1>1, LastSampleCovers
<1> QED BY <1>2, Invariance, PTL DEF Spec, NothingGoesUnbilled
=============================================================================
