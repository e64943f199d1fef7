-------------------------- MODULE IndexedTableProofs --------------------------
(***************************************************************************)
(* Proofs about IndexedTable, for any number of rows, batches and workers  *)
(* and whatever the upstream answers.                                      *)
(*                                                                         *)
(* Of the pool: every index that was handed out is answered, or in the     *)
(* hands of a worker, or was left undone by one that saw the pool done.    *)
(* The pool is done for good, and a pool that is done never succeeds: so   *)
(* one that succeeds has every batch.  Of the rows: keeping, merging,      *)
(* interleaving and selecting pick rows by their places and no place       *)
(* twice, so rules and distinct titles survive each of them.               *)
(***************************************************************************)
EXTENDS IndexedTable, FunctionTheorems, FiniteSetTheorems, SequenceTheorems, TLAPS

-----------------------------------------------------------------------------
(***************************************************************************)
(* Sets in order, and the sequences they are made into.                    *)
(***************************************************************************)
\* A strict total order on S.
Orders(less, S) ==
  /\ \A x \in S : <<x, x>> \notin less
  /\ \A x, y \in S : x # y => <<x, y>> \in less \/ <<y, x>> \in less
  /\ \A x, y, z \in S : <<x, y>> \in less /\ <<y, z>> \in less => <<x, z>> \in less

\* The place of an element is below the size of the set, and no two share one.
LEMMA PlaceFacts ==
  ASSUME NEW S, NEW less, IsFiniteSet(S), Orders(less, S)
  PROVE  /\ Cardinality(S) \in Nat
         /\ \A x \in S : Place(S, less, x) \in 0..Cardinality(S) - 1
         /\ \A x, y \in S : Place(S, less, x) = Place(S, less, y) => x = y
<1> DEFINE Below(x) == {y \in S : <<y, x>> \in less}
<1>1. Cardinality(S) \in Nat
  BY FS_CardinalityType
<1>2. ASSUME NEW x \in S
      PROVE  /\ IsFiniteSet(Below(x)) /\ Cardinality(Below(x)) \in Nat
             /\ Cardinality(Below(x)) < Cardinality(S)
  <2>1. Below(x) \in SUBSET S /\ x \notin Below(x)
    BY DEF Orders
  <2>2. IsFiniteSet(Below(x)) /\ Cardinality(Below(x)) <= Cardinality(S) /\ Cardinality(Below(x)) # Cardinality(S)
    BY <2>1, FS_Subset
  <2> QED BY <1>1, <2>2, FS_CardinalityType
<1>3. ASSUME NEW x \in S, NEW y \in S, <<x, y>> \in less
      PROVE  Cardinality(Below(x)) < Cardinality(Below(y))
  <2>1. Below(x) \in SUBSET Below(y) /\ x \in Below(y) /\ x \notin Below(x)
    BY <1>3 DEF Orders
  <2>2. Cardinality(Below(x)) <= Cardinality(Below(y)) /\ Cardinality(Below(x)) # Cardinality(Below(y))
    BY <1>2, <2>1, FS_Subset
  <2>3. Cardinality(Below(x)) \in Nat /\ Cardinality(Below(y)) \in Nat
    BY <1>2
  <2> HIDE DEF Below
  <2> QED BY <2>2, <2>3
<1>4. ASSUME NEW x PROVE Place(S, less, x) = Cardinality(Below(x))
  BY DEF Place
<1> HIDE DEF Below
<1>5. \A x \in S : Place(S, less, x) \in 0..Cardinality(S) - 1
  BY <1>1, <1>2, <1>4
<1>6. ASSUME NEW x \in S, NEW y \in S, Place(S, less, x) = Place(S, less, y) PROVE x = y
  <2>1. Cardinality(Below(x)) = Cardinality(Below(y)) /\ Cardinality(Below(x)) \in Nat
    BY <1>2, <1>4, <1>6
  <2>2. <<x, y>> \notin less /\ <<y, x>> \notin less
    BY <1>3, <2>1
  <2> QED BY <2>2 DEF Orders
<1> QED BY <1>1, <1>5, <1>6

\* An enumeration has elements of the set, and none twice.
LEMMA EnumerationFacts ==
  ASSUME NEW S, NEW less, IsFiniteSet(S), Orders(less, S)
  PROVE  /\ Cardinality(S) \in Nat
         /\ Enumeration(S, less) \in [1..Cardinality(S) -> S]
         /\ \A k, l \in 1..Cardinality(S) :
              Enumeration(S, less)[k] = Enumeration(S, less)[l] => k = l
<1> DEFINE n == Cardinality(S)
           P(x) == Place(S, less, x)
           e == Enumeration(S, less)
<1>1. /\ n \in Nat /\ \A x \in S : P(x) \in 0..n - 1
      /\ \A x, y \in S : P(x) = P(y) => x = y
  BY PlaceFacts
<1> HIDE DEF P, e, n
<1> DEFINE p == [x \in S |-> P(x) + 1]
<1>2. p \in [S -> 1..n] /\ \A x \in S : p[x] = P(x) + 1
  BY <1>1
<1> HIDE DEF p
<1>3. ASSUME NEW x \in S, NEW y \in S, p[x] = p[y] PROVE x = y
  <2>1. P(x) = P(y)
    BY <1>1, <1>2, <1>3
  <2> QED BY <1>1, <2>1
<1>4. p \in Injection(S, 1..n)
  BY <1>2, <1>3, Fun_IsInj
<1>5. IsFiniteSet(1..n) /\ Cardinality(1..n) = n
  BY <1>1, FS_Interval
<1>6. p \in Surjection(S, 1..n)
  BY <1>4, <1>5, FS_Injection DEF n
<1>7. \A k \in 1..n : \E x \in S : p[x] = k
  BY <1>6, Fun_SurjectionProperties
<1>8. \A k \in 1..n : e[k] \in S /\ P(e[k]) = k - 1
  <2> SUFFICES ASSUME NEW k \in 1..n PROVE e[k] \in S /\ P(e[k]) = k - 1
    OBVIOUS
  <2>1. PICK x \in S : p[x] = k
    BY <1>7
  <2>2. p[x] = P(x) + 1 /\ P(x) \in 0..n - 1
    BY <1>1, <1>2
  <2>3. P(x) = k - 1
    BY <2>1, <2>2
  <2> QED BY <2>3 DEF Enumeration, e, n, P
<1>9. e \in [1..n -> S]
  BY <1>8 DEF Enumeration, e, n
<1>10. \A k, l \in 1..n : e[k] = e[l] => k = l
  <2> SUFFICES ASSUME NEW k \in 1..n, NEW l \in 1..n, e[k] = e[l] PROVE k = l
    OBVIOUS
  <2>1. k - 1 = l - 1
    BY <1>8
  <2> QED BY <2>1
<1> QED BY <1>1, <1>9, <1>10 DEF e, n

\* The order of places, and that of tuples no two of which begin alike.
LEMMA OrderFacts ==
  /\ \A n \in Nat : \A P \in SUBSET (1..n) : Orders(Ascending(P), P)
  /\ \A S : (\A x \in S : x[1] \in Int /\ x[2] \in Int)
            /\ (\A x, y \in S : x[1] = y[1] /\ x[2] = y[2] => x = y)
            => Orders(Lexicographic(S), S)
<1>1. ASSUME NEW n \in Nat, NEW P \in SUBSET (1..n) PROVE Orders(Ascending(P), P)
  BY DEF Orders, Ascending
<1>2. ASSUME NEW S, \A x \in S : x[1] \in Int /\ x[2] \in Int,
             \A x, y \in S : x[1] = y[1] /\ x[2] = y[2] => x = y
      PROVE  Orders(Lexicographic(S), S)
  <2>1. \A x, y \in S : <<x, y>> \in Lexicographic(S) <=>
                          x[1] < y[1] \/ (x[1] = y[1] /\ x[2] < y[2])
    BY DEF Lexicographic
  <2>2. \A x \in S : <<x, x>> \notin Lexicographic(S)
    BY <1>2, <2>1
  <2>3. \A x, y \in S : x # y => <<x, y>> \in Lexicographic(S) \/ <<y, x>> \in Lexicographic(S)
    BY <1>2, <2>1
  <2>4. \A x, y, z \in S : <<x, y>> \in Lexicographic(S) /\ <<y, z>> \in Lexicographic(S)
                             => <<x, z>> \in Lexicographic(S)
    BY <1>2, <2>1
  <2> QED BY <2>2, <2>3, <2>4 DEF Orders
<1> QED BY <1>1, <1>2

\* What is picked from a sequence comes from the places given, no place twice.
LEMMA PickedFacts ==
  ASSUME NEW T, NEW s \in Seq(T), NEW P \in SUBSET DOMAIN s,
         NEW U, \A i \in P : s[i] \in U
  PROVE  /\ Picked(s, P) \in Seq(U)
         /\ \A k, l \in DOMAIN Picked(s, P) : k # l =>
              \E i, j \in P : i # j /\ Picked(s, P)[k] = s[i] /\ Picked(s, P)[l] = s[j]
<1> DEFINE n == Cardinality(P)
           e == Enumeration(P, Ascending(P))
<1>1. Len(s) \in Nat /\ DOMAIN s = 1..Len(s)
  BY LenProperties
<1>2. IsFiniteSet(P)
  <2>1. IsFiniteSet(1..Len(s))
    BY <1>1, FS_Interval
  <2> QED BY <1>1, <2>1, FS_Subset
<1>3. Orders(Ascending(P), P)
  BY <1>1, OrderFacts
<1>4. n \in Nat /\ e \in [1..n -> P] /\ \A k, l \in 1..n : e[k] = e[l] => k = l
  BY <1>2, <1>3, EnumerationFacts
<1>5. Picked(s, P) = [k \in 1..n |-> s[e[k]]]
  BY DEF Picked
<1> HIDE DEF n, e
<1>6. Picked(s, P) \in [1..n -> U]
  BY <1>4, <1>5
<1>7. Picked(s, P) \in Seq(U)
  BY <1>4, <1>6
<1> QED BY <1>4, <1>5, <1>7

\* Sequences of rows one after the other are a sequence of rows.
LEMMA FlattenedFacts ==
  ASSUME NEW T, NEW n \in Nat, NEW ss \in [1..n -> Seq(T)]
  PROVE  Flattened(ss) \in Seq(T)
<1> DEFINE Cells(b) == {b} \X (DOMAIN ss[b])
           f == [b \in 1..n |-> Cells(b)]
           families == {Cells(b) : b \in 1..n}
           cells == UNION families
           cell == Enumeration(cells, Lexicographic(cells))
<1>1. ASSUME NEW b \in 1..n
      PROVE  IsFiniteSet(Cells(b)) /\ Len(ss[b]) \in Nat /\ DOMAIN ss[b] = 1..Len(ss[b])
  <2>1. ss[b] \in Seq(T)
    OBVIOUS
  <2>2. Len(ss[b]) \in Nat /\ DOMAIN ss[b] = 1..Len(ss[b])
    BY <2>1, LenProperties
  <2>3. IsFiniteSet(1..Len(ss[b]))
    BY <2>2, FS_Interval
  <2>4. IsFiniteSet({b})
    BY FS_Singleton
  <2> QED BY <2>2, <2>3, <2>4, FS_Product
<1>2. \A c \in cells : /\ c[1] \in 1..n /\ c[2] \in DOMAIN ss[c[1]]
                       /\ c[2] \in Nat /\ c = <<c[1], c[2]>>
  BY <1>1
<1>3. IsFiniteSet(cells)
  <2>1. f \in Surjection(1..n, families)
    BY Fun_IsSurj
  <2>2. IsFiniteSet(families)
    BY <2>1, FS_Interval, FS_Surjection
  <2>3. \A c \in families : IsFiniteSet(c)
    BY <1>1
  <2> QED BY <2>2, <2>3, FS_UNION
<1>4. Orders(Lexicographic(cells), cells)
  <2>1. \A c, d \in cells : c[1] = d[1] /\ c[2] = d[2] => c = d
    BY <1>2
  <2>2. \A c \in cells : c[1] \in Int /\ c[2] \in Int
    BY <1>2
  <2> HIDE DEF cells
  <2> QED BY <2>1, <2>2, OrderFacts
<1>5. Cardinality(cells) \in Nat /\ cell \in [1..Cardinality(cells) -> cells]
  BY <1>3, <1>4, EnumerationFacts
<1>6. Flattened(ss) = [k \in 1..Cardinality(cells) |-> ss[cell[k][1]][cell[k][2]]]
  BY DEF Flattened
<1>7. \A c \in cells : ss[c[1]][c[2]] \in T
  <2> SUFFICES ASSUME NEW c \in cells PROVE ss[c[1]][c[2]] \in T
    OBVIOUS
  <2>1. c[1] \in 1..n /\ ss[c[1]] \in Seq(T) /\ c[2] \in 1..Len(ss[c[1]])
    BY <1>1, <1>2
  <2> QED BY <2>1, ElementOfSeq
<1> HIDE DEF cells, cell
<1>8. Flattened(ss) \in [1..Cardinality(cells) -> T]
  BY <1>5, <1>6, <1>7
<1> QED BY <1>5, <1>8

-----------------------------------------------------------------------------
(***************************************************************************)
(* What the handler makes of the rows: whatever it keeps obeys the rules,  *)
(* and no title is kept twice.                                             *)
(***************************************************************************)
TitlesDiffer(rs) == \A i, j \in DOMAIN rs : Title[rs[i]] = Title[rs[j]] => i = j

\* A batch keeps rows that obey the rules.
LEMMA KeptFacts ==
  ASSUME NEW reply \in Replies, NEW index
  PROVE  Kept(reply, index) \in Seq(Obeying)
<1> DEFINE P == {i \in DOMAIN reply :
                   i <= TargetOf(index) /\ reply[i] \in Obeying /\ InPartition(reply[i], index)}
<1>1. reply \in Seq(Rows) /\ P \in SUBSET DOMAIN reply /\ \A i \in P : reply[i] \in Obeying
  BY TableAssumption
<1>2. Kept(reply, index) = Picked(reply, P)
  BY DEF Kept
<1> HIDE DEF P
<1> QED BY <1>1, <1>2, PickedFacts

\* To rows whose titles differ, only rows with titles of their own are added.
LEMMA MergeFacts ==
  ASSUME NEW known \in Seq(Obeying), NEW found \in Seq(Obeying), TitlesDiffer(known)
  PROVE  Merge(known, found) \in Seq(Obeying) /\ TitlesDiffer(Merge(known, found))
<1> DEFINE all == known \o found
           P == {i \in DOMAIN all :
                   i > Len(known) => \A j \in 1..i - 1 : Title[all[j]] # Title[all[i]]}
<1>1. /\ all \in Seq(Obeying) /\ Len(known) \in Nat /\ Len(all) \in Nat /\ DOMAIN all = 1..Len(all)
      /\ DOMAIN known = 1..Len(known) /\ Len(known) <= Len(all)
      /\ \A i \in 1..Len(known) : all[i] = known[i]
  <2>1. /\ all \in Seq(Obeying) /\ Len(all) = Len(known) + Len(found)
        /\ \A i \in 1..Len(known) + Len(found) :
             all[i] = IF i <= Len(known) THEN known[i] ELSE found[i - Len(known)]
    BY ConcatProperties
  <2>2. Len(known) \in Nat /\ Len(found) \in Nat /\ DOMAIN known = 1..Len(known)
    BY LenProperties
  <2>3. Len(all) \in Nat /\ DOMAIN all = 1..Len(all)
    BY <2>1, LenProperties
  <2> HIDE DEF all
  <2> QED BY <2>1, <2>2, <2>3
<1>2. Merge(known, found) = Picked(all, P)
  BY DEF Merge
<1> HIDE DEF all
<1>3. \A i, j \in P : i < j => Title[all[i]] # Title[all[j]]
  <2> SUFFICES ASSUME NEW i \in P, NEW j \in P, i < j PROVE Title[all[i]] # Title[all[j]]
    OBVIOUS
  <2>1. i \in 1..Len(all) /\ j \in 1..Len(all)
    BY <1>1
  <2>2. CASE j > Len(known)
    <3>1. i \in 1..j - 1
      BY <2>1
    <3> QED BY <2>2, <3>1
  <2>3. CASE j <= Len(known)
    <3>1. i \in 1..Len(known) /\ j \in 1..Len(known) /\ i # j
      BY <1>1, <2>1, <2>3
    <3> QED BY <1>1, <3>1 DEF TitlesDiffer
  <2> QED BY <1>1, <2>1, <2>2, <2>3
<1>4. P \in SUBSET DOMAIN all /\ \A i \in P : i \in Nat /\ all[i] \in Obeying
  <2>1. \A i \in 1..Len(all) : all[i] \in Obeying
    BY <1>1, ElementOfSeq
  <2> QED BY <1>1, <2>1
<1> HIDE DEF P
<1>5. \A i, j \in P : i # j => Title[all[i]] # Title[all[j]]
  BY <1>3, <1>4
<1>6. /\ Picked(all, P) \in Seq(Obeying)
      /\ \A k, l \in DOMAIN Picked(all, P) : k # l =>
           \E i, j \in P : i # j /\ Picked(all, P)[k] = all[i] /\ Picked(all, P)[l] = all[j]
  <2>1. all \in Seq(Obeying) /\ P \in SUBSET DOMAIN all /\ \A i \in P : all[i] \in Obeying
    BY <1>1, <1>4
  <2> QED BY <2>1, PickedFacts
<1>7. TitlesDiffer(Picked(all, P))
  BY <1>5, <1>6 DEF TitlesDiffer
<1> QED BY <1>2, <1>6, <1>7

\* Of the rows of a partition, the later one has the higher round.
LEMMA RoundsGrow ==
  ASSUME NEW rs, NEW n \in Nat, DOMAIN rs = 1..n,
         NEW p \in 1..n, NEW q \in 1..n, p < q, Partition[rs[p]] = Partition[rs[q]]
  PROVE  LET B == Bucket(rs, Partition[rs[p]])
         IN /\ Cardinality(B \cap 1..p) \in Nat /\ Cardinality(B \cap 1..q) \in Nat
            /\ Cardinality(B \cap 1..p) < Cardinality(B \cap 1..q)
<1> DEFINE B == Bucket(rs, Partition[rs[p]])
<1>1. B \cap 1..p \in SUBSET (B \cap 1..q) /\ q \in B \cap 1..q /\ q \notin B \cap 1..p
  BY DEF Bucket
<1>2. IsFiniteSet(1..q) /\ B \cap 1..q \in SUBSET (1..q)
  BY FS_Interval
<1> HIDE DEF B
<1>3. IsFiniteSet(B \cap 1..q)
  BY <1>2, FS_Subset
<1>4. /\ IsFiniteSet(B \cap 1..p) /\ Cardinality(B \cap 1..p) <= Cardinality(B \cap 1..q)
      /\ Cardinality(B \cap 1..p) # Cardinality(B \cap 1..q)
  BY <1>1, <1>3, FS_Subset
<1>5. Cardinality(B \cap 1..p) \in Nat /\ Cardinality(B \cap 1..q) \in Nat
  BY <1>3, <1>4, FS_CardinalityType
<1> QED BY <1>4, <1>5 DEF B

\* No two rows have one seat.
LEMMA SeatsDiffer ==
  ASSUME NEW rs, Len(rs) \in Nat, DOMAIN rs = 1..Len(rs)
  PROVE  /\ \A p \in DOMAIN rs : Seat(rs, p)[1] \in Int /\ Seat(rs, p)[2] \in Int /\ Seat(rs, p)[3] = p
         /\ \A p, q \in DOMAIN rs :
              Seat(rs, p)[1] = Seat(rs, q)[1] /\ Seat(rs, p)[2] = Seat(rs, q)[2] => p = q
<1> DEFINE own(p) == {i \in DOMAIN BatchValues : BatchValues[i] = Partition[rs[p]]}
           Round(p) == Cardinality(Bucket(rs, Partition[rs[p]]) \cap 1..p)
           Turn(p) == CHOOSE i \in own(p) : TRUE
<1>1. ASSUME NEW p \in DOMAIN rs PROVE Round(p) \in Nat /\ p \in Nat
  <2>1. IsFiniteSet(1..p) /\ Bucket(rs, Partition[rs[p]]) \cap 1..p \in SUBSET (1..p)
    BY FS_Interval
  <2>2. IsFiniteSet(Bucket(rs, Partition[rs[p]]) \cap 1..p)
    BY <2>1, FS_Subset
  <2>3. p \in Nat
    OBVIOUS
  <2> QED BY <2>2, <2>3, FS_CardinalityType
<1>2. \A p : own(p) # {} => Turn(p) \in own(p)
  OBVIOUS
<1>3. \A p : own(p) # {} => Turn(p) \in Nat \ {0} /\ BatchValues[Turn(p)] = Partition[rs[p]]
  <2>1. DOMAIN BatchValues = 1..Len(BatchValues) /\ Len(BatchValues) \in Nat
    BY TableAssumption, LenProperties
  <2> HIDE DEF Turn
  <2> QED BY <1>2, <2>1
<1>4. \A p : Seat(rs, p) = IF own(p) = {} THEN <<Len(rs) + p, 0, p>> ELSE <<Round(p), Turn(p), p>>
  BY DEF Seat
<1>5. ASSUME NEW p \in DOMAIN rs, NEW q \in DOMAIN rs, p < q,
             Partition[rs[p]] = Partition[rs[q]]
      PROVE  Round(p) # Round(q)
  BY <1>5, RoundsGrow
<1> HIDE DEF own, Round, Turn
<1>6. ASSUME NEW p \in DOMAIN rs
      PROVE  /\ p \in Nat /\ Seat(rs, p)[3] = p
             /\ own(p) = {} => Seat(rs, p)[1] = Len(rs) + p /\ Seat(rs, p)[2] = 0
             /\ own(p) # {} => Seat(rs, p)[1] = Round(p) /\ Seat(rs, p)[2] = Turn(p)
  <2>1. CASE own(p) = {}
    BY <1>1, <1>4, <2>1
  <2>2. CASE own(p) # {}
    BY <1>1, <1>4, <2>2
  <2> QED BY <2>1, <2>2
<1>7. ASSUME NEW p \in DOMAIN rs
      PROVE  Seat(rs, p)[1] \in Int /\ Seat(rs, p)[2] \in Int /\ Seat(rs, p)[3] = p
  BY <1>1, <1>3, <1>6
<1>8. ASSUME NEW p \in DOMAIN rs, NEW q \in DOMAIN rs,
             Seat(rs, p)[1] = Seat(rs, q)[1], Seat(rs, p)[2] = Seat(rs, q)[2]
      PROVE  p = q
  <2>1. CASE own(p) = {}
    <3>1. own(q) = {}
      BY <1>3, <1>6, <1>8, <2>1
    <3> QED BY <1>6, <1>8, <2>1, <3>1
  <2>2. CASE own(p) # {}
    <3>1. own(q) # {}
      BY <1>3, <1>6, <1>8, <2>2
    <3>2. Round(p) = Round(q) /\ Partition[rs[p]] = Partition[rs[q]]
      BY <1>3, <1>6, <1>8, <2>2, <3>1
    <3>3. ~(p < q) /\ ~(q < p)
      BY <1>5, <3>2
    <3> QED BY <1>6, <3>3
  <2> QED BY <2>1, <2>2
<1> QED BY <1>7, <1>8

\* The rows in turn are the same rows: none is made up, none is there twice.
LEMMA InterleaveFacts ==
  ASSUME NEW rs \in Seq(Obeying), TitlesDiffer(rs)
  PROVE  InterleavePartitions(rs) \in Seq(Obeying) /\ TitlesDiffer(InterleavePartitions(rs))
<1> DEFINE seats == {Seat(rs, p) : p \in DOMAIN rs}
           order == Enumeration(seats, Lexicographic(seats))
           f == [p \in DOMAIN rs |-> Seat(rs, p)]
<1>1. Len(rs) \in Nat /\ DOMAIN rs = 1..Len(rs) /\ \A p \in DOMAIN rs : rs[p] \in Obeying
  BY LenProperties, ElementOfSeq
<1>2. /\ \A p \in DOMAIN rs : Seat(rs, p)[1] \in Int /\ Seat(rs, p)[2] \in Int /\ Seat(rs, p)[3] = p
      /\ \A p, q \in DOMAIN rs :
           Seat(rs, p)[1] = Seat(rs, q)[1] /\ Seat(rs, p)[2] = Seat(rs, q)[2] => p = q
  BY <1>1, SeatsDiffer
<1>3. IsFiniteSet(seats)
  <2>1. f \in Surjection(DOMAIN rs, seats)
    BY Fun_IsSurj
  <2>2. IsFiniteSet(1..Len(rs))
    BY <1>1, FS_Interval
  <2> QED BY <1>1, <2>1, <2>2, FS_Surjection
<1>4. /\ \A x \in seats : x[1] \in Int /\ x[2] \in Int /\ x[3] \in DOMAIN rs
      /\ \A x, y \in seats : x[3] = y[3] => x = y
      /\ \A x, y \in seats : x[1] = y[1] /\ x[2] = y[2] => x = y
  BY <1>2
<1> HIDE DEF seats
<1>5. /\ Cardinality(seats) \in Nat /\ order \in [1..Cardinality(seats) -> seats]
      /\ \A k, l \in 1..Cardinality(seats) : order[k] = order[l] => k = l
  BY <1>3, <1>4, OrderFacts, EnumerationFacts
<1> DEFINE turned == [k \in 1..Cardinality(seats) |-> rs[order[k][3]]]
<1>6. InterleavePartitions(rs) = IF BatchValues = <<>> THEN rs ELSE turned
  BY DEF InterleavePartitions, seats
<1> HIDE DEF order
<1>7. turned \in [1..Cardinality(seats) -> Obeying]
  BY <1>1, <1>4, <1>5
<1>8. turned \in Seq(Obeying)
  BY <1>5, <1>7
<1>9. TitlesDiffer(turned)
  <2> SUFFICES ASSUME NEW k \in 1..Cardinality(seats), NEW l \in 1..Cardinality(seats),
                      Title[rs[order[k][3]]] = Title[rs[order[l][3]]]
               PROVE  k = l
    BY DEF TitlesDiffer
  <2>1. order[k] \in seats /\ order[l] \in seats
    BY <1>5
  <2>2. order[k][3] = order[l][3]
    BY <1>4, <2>1 DEF TitlesDiffer
  <2> QED BY <1>4, <1>5, <2>1, <2>2
<1> QED BY <1>6, <1>8, <1>9

\* A table: the rows asked for, no title twice, every partition with its share.
Table(rs) == rs \in Seq(Obeying) /\ Len(rs) = TargetRows /\ TitlesDiffer(rs) /\ Enough(rs)

\* A valid selection of candidates is a table.
LEMMA SelectionFacts ==
  ASSUME NEW indices \in Selections, rows \in Seq(Obeying), TitlesDiffer(rows), Selects(indices)
  PROVE  Table([i \in DOMAIN indices |-> rows[indices[i]]])
<1> DEFINE table == [i \in DOMAIN indices |-> rows[indices[i]]]
<1>1. /\ TargetRows \in Nat /\ MinPerPartition \in Nat /\ indices \in Seq(Int)
      /\ MinPerPartition = 0 \/ MinPerPartition > 0
  BY TableAssumption DEF Validated
<1>2. /\ Len(indices) = TargetRows /\ DOMAIN indices = 1..TargetRows
      /\ \A i \in DOMAIN indices : indices[i] \in DOMAIN rows
      /\ \A i, j \in DOMAIN indices : indices[i] = indices[j] => i = j
      /\ MinPerPartition > 0 => Enough(table)
  BY <1>1, LenProperties DEF Selects, IsInjective
<1>3. \A i \in DOMAIN rows : rows[i] \in Obeying
  BY LenProperties, ElementOfSeq
<1>4. table \in [1..TargetRows -> Obeying]
  BY <1>2, <1>3
<1>5. table \in Seq(Obeying) /\ Len(table) = TargetRows
  BY <1>1, <1>4, SMTT(30)
<1>6. TitlesDiffer(table)
  BY <1>2 DEF TitlesDiffer
<1>7. Enough(table)
  <2> SUFFICES ASSUME MinPerPartition = 0, NEW i \in DOMAIN BatchValues
               PROVE  Cardinality(Bucket(table, BatchValues[i])) >= 0
    BY <1>1, <1>2 DEF Enough
  <2>1. IsFiniteSet(1..TargetRows) /\ Bucket(table, BatchValues[i]) \in SUBSET (1..TargetRows)
    BY <1>1, <1>2, FS_Interval DEF Bucket
  <2>2. IsFiniteSet(Bucket(table, BatchValues[i]))
    BY <2>1, FS_Subset
  <2>3. Cardinality(Bucket(table, BatchValues[i])) \in Nat
    BY <2>2, FS_CardinalityType
  <2> HIDE DEF table
  <2> QED BY <2>3
<1> QED BY <1>5, <1>6, <1>7 DEF Table

\* At least one batch is asked for if a row is.
LEMMA BatchesAreCounted ==
  ASSUME NEW count \in Nat \ {0}
  PROVE  BatchesOf(count) \in Nat \ {0}
<1>1. SizeOf(count) \in Nat \ {0}
  BY TableAssumption DEF SizeOf, Validated
<1>2. \A c, s \in Nat \ {0} : (c + s - 1) \div s \in Nat \ {0}
  OBVIOUS
<1> QED BY <1>1, <1>2 DEF BatchesOf

-----------------------------------------------------------------------------
(***************************************************************************)
(* The pool of workers.                                                    *)
(***************************************************************************)
WorkerType == [at : {"off", "waiting", "handed", "calling"}, index : Nat, tries : Nat]
Holds(w, i) == worker[w].at \in {"handed", "calling"} /\ worker[w].index = i

Types ==
  /\ dispatched \in Nat /\ worker \in [Workers -> WorkerType] /\ poolError \in Reasons
  /\ expired \in BOOLEAN /\ closed \in BOOLEAN /\ cancelled \in BOOLEAN

\* Only the handler's own context makes the context the error.
Causes ==
  /\ ErrorIsTheCause
  /\ poolError = "context" => expired
  /\ cancelled => poolError # "none"

\* Nothing is handed out but what a worker holds, has answered or gave up.
Batched ==
  /\ answered \subseteq 1..dispatched
  /\ \A w \in Workers, i \in Nat : Holds(w, i) => i \in 1..dispatched
  /\ \A i \in 1..dispatched : i \in answered \/ PoolDone \/ \E w \in Workers : Holds(w, i)
  /\ closed => stage = "expand" /\ (dispatched = Batches \/ PoolDone)

PoolIInv == Types /\ Causes /\ Batched

-----------------------------------------------------------------------------
LEMMA WorkersStart == Off \in WorkerType /\ Waiting \in WorkerType
                      /\ Off.at = "off" /\ Waiting.at = "waiting"
BY DEF Off, Waiting, WorkerType

\* A pool that nobody works in, or that has handed out nothing yet.
LEMMA EmptyPool ==
  ASSUME dispatched' = 0, closed' = FALSE, answered' = {},
         worker' \in [Workers -> WorkerType],
         \A w \in Workers : worker'[w].at \in {"off", "waiting"}
  PROVE  Batched'
BY DEF Batched, Holds

LEMMA PoolLeftEmpty ==
  ASSUME PoolLeft
  PROVE  /\ Batched' /\ dispatched' \in Nat /\ worker' \in [Workers -> WorkerType]
         /\ closed' = FALSE /\ cancelled' = FALSE /\ poolError' = "none"
<1>1. worker' \in [Workers -> WorkerType] /\ \A w \in Workers : worker'[w].at = "off"
  BY WorkersStart DEF PoolLeft
<1> QED BY <1>1, EmptyPool DEF PoolLeft

LEMMA OpenPoolEmpty ==
  ASSUME NEW count, OpenPool(count)
  PROVE  /\ Batched' /\ dispatched' \in Nat /\ worker' \in [Workers -> WorkerType]
         /\ closed' = FALSE /\ cancelled' = FALSE /\ poolError' = "none"
<1>1. worker' \in [Workers -> WorkerType] /\ \A w \in Workers : worker'[w].at \in {"off", "waiting"}
  BY WorkersStart DEF OpenPool
<1> QED BY <1>1, EmptyPool DEF OpenPool

LEMMA InitPool == Init => PoolIInv
<1> SUFFICES ASSUME Init PROVE PoolIInv
  OBVIOUS
<1>1. worker \in [Workers -> WorkerType] /\ \A w \in Workers : worker[w].at = "off"
  BY WorkersStart DEF Init, NoPool
<1>2. Types /\ Causes
  BY <1>1 DEF Init, NoPool, Types, Causes, ErrorIsTheCause, Reasons
<1>3. Batched
  BY <1>1 DEF Init, NoPool, Batched, Holds
<1> QED BY <1>2, <1>3 DEF PoolIInv

\* The steps of the handler that leave the pool as it is.
LEMMA PoolKept ==
  ASSUME PoolIInv, UNCHANGED pool, expired' = expired, closed = FALSE,
         reason' = "context" => expired
  PROVE  PoolIInv'
BY DEF PoolIInv, Types, Causes, ErrorIsTheCause, Batched, Holds, PoolDone, pool

LEMMA ExpirePool == ASSUME PoolIInv, Expire PROVE PoolIInv'
BY DEF PoolIInv, Types, Causes, ErrorIsTheCause, Batched, Holds, PoolDone, Batches, BatchesOf, SizeOf,
       Count, pool, Expire

LEMMA HandlerPool ==
  ASSUME PoolIInv, HandlerStep
  PROVE  PoolIInv'
<1>1. stage # "expand" => closed = FALSE
  BY DEF PoolIInv, Batched, Types
<1>2. Retry => PoolIInv'
  BY <1>1, PoolKept DEF Retry, PoolIInv, Causes, ErrorIsTheCause
<1>3. StageFails => PoolIInv'
  BY <1>1, PoolKept DEF StageFails, Fail, CallFails
<1>4. Collected => PoolIInv'
  BY OpenPoolEmpty DEF Collected, PoolIInv, Types, Causes, ErrorIsTheCause, Reasons
<1>5. ASSUME CloseJobs PROVE PoolIInv'
  <2>1. UNCHANGED <<outside, dispatched, worker, cancelled, poolError, answered>> /\ closed' = TRUE
        /\ stage = "expand"
    BY <1>5 DEF CloseJobs
  <2>2. Batches' = Batches /\ PoolDone' = PoolDone
    BY <2>1 DEF Batches, BatchesOf, SizeOf, Count, PoolDone, outside
  <2>3. Types' /\ Causes'
    BY <2>1 DEF PoolIInv, Types, Causes, ErrorIsTheCause, outside
  <2>4. Batched'
    BY <1>5, <2>1, <2>2 DEF PoolIInv, Batched, Holds, outside, CloseJobs, DispatcherStops
  <2> QED BY <2>3, <2>4 DEF PoolIInv
<1>6. PoolFails => PoolIInv'
  BY PoolLeftEmpty DEF PoolFails, Fail, PoolSucceeded, PoolIInv, Types, Causes, ErrorIsTheCause, Reasons
<1>7. ASSUME PoolSucceeds PROVE PoolIInv'
  <2>1. \E unique : PoolLeft \/ OpenPool(TargetRows - Len(unique))
    BY <1>7 DEF PoolSucceeds, Continue
  <2>2. expired' = expired /\ (reason' = reason \/ reason' = "content")
    BY <1>7 DEF PoolSucceeds, Continue
  <2>3. /\ Batched' /\ dispatched' \in Nat /\ worker' \in [Workers -> WorkerType]
        /\ closed' = FALSE /\ cancelled' = FALSE /\ poolError' = "none"
    BY <2>1, PoolLeftEmpty, OpenPoolEmpty
  <2> QED BY <2>2, <2>3 DEF PoolIInv, Types, Causes, ErrorIsTheCause, Reasons
<1>8. ASSUME NEW indices \in Selections, SelectionValid(indices) PROVE PoolIInv'
  BY <1>1, <1>8, PoolKept DEF SelectionValid, PoolIInv, Causes, ErrorIsTheCause
<1>9. SelectionInvalid => PoolIInv'
  BY <1>1, PoolKept DEF SelectionInvalid, PoolIInv, Causes, ErrorIsTheCause
<1>10. Emit \/ EmitAborts => PoolIInv'
  BY <1>1, PoolKept DEF Emit, EmitAborts, Fail, PoolIInv, Causes, ErrorIsTheCause
<1> QED BY <1>2, <1>3, <1>4, <1>5, <1>6, <1>7, <1>8, <1>9, <1>10 DEF HandlerStep

-----------------------------------------------------------------------------
\* A step of a worker: the stage, the rows and the context are the handler's.
LEMMA OutsideKept ==
  ASSUME PoolIInv, UNCHANGED outside
  PROVE  /\ expired' = expired /\ stage' = stage /\ reason' = reason /\ Batches' = Batches
         /\ ErrorIsTheCause'
BY DEF outside, Batches, BatchesOf, SizeOf, Count, PoolIInv, Causes, ErrorIsTheCause

LEMMA HandPool ==
  ASSUME PoolIInv, NEW w \in Workers, Hand(w)
  PROVE  PoolIInv'
<1> DEFINE k == [at |-> "handed", index |-> dispatched + 1, tries |-> 0]
<1>1. k \in WorkerType /\ dispatched' = dispatched + 1 /\ dispatched \in Nat
  BY DEF PoolIInv, Types, WorkerType, Hand
<1>2. /\ worker' \in [Workers -> WorkerType] /\ worker'[w] = k /\ worker[w].at = "waiting"
      /\ \A v \in Workers \ {w} : worker'[v] = worker[v]
  BY <1>1 DEF Hand, PoolIInv, Types
<1>3. /\ UNCHANGED <<outside, closed, cancelled, poolError, answered>> /\ closed = FALSE
      /\ PoolDone' = PoolDone
  BY DEF Hand, PoolDone, outside, PoolIInv, Types
<1>4. Types' /\ Causes'
  BY <1>1, <1>2, <1>3, OutsideKept DEF PoolIInv, Types, Causes
<1>5. Batched'
  <2>1. answered' \subseteq 1..dispatched'
    BY <1>1, <1>3 DEF PoolIInv, Batched
  <2>2. ASSUME NEW v \in Workers, NEW i \in Nat, Holds(v, i)' PROVE i \in 1..dispatched'
    <3>1. CASE v = w
      BY <1>1, <1>2, <2>2, <3>1 DEF Holds
    <3>2. CASE v # w
      BY <1>1, <1>2, <2>2, <3>2 DEF PoolIInv, Batched, Holds
    <3> QED BY <3>1, <3>2
  <2>3. ASSUME NEW i \in 1..dispatched'
        PROVE  i \in answered' \/ PoolDone' \/ \E v \in Workers : Holds(v, i)'
    <3>1. CASE i = dispatched + 1
      BY <1>2, <3>1 DEF Holds
    <3>2. CASE i # dispatched + 1
      <4>1. i \in 1..dispatched
        BY <1>1, <3>2
      <4>2. \A v \in Workers : Holds(v, i) => Holds(v, i)'
        BY <1>2 DEF Holds
      <4> QED BY <1>3, <4>1, <4>2 DEF PoolIInv, Batched
    <3> QED BY <3>1, <3>2
  <2> QED BY <1>3, <2>1, <2>2, <2>3 DEF Batched
<1> QED BY <1>4, <1>5 DEF PoolIInv

\* A worker that keeps or drops what it holds: it may drop an index that is
\* answered, or one of a pool that is done.
LEMMA WorkerMoves ==
  ASSUME PoolIInv, NEW w \in Workers, NEW k \in WorkerType,
         worker' = [worker EXCEPT ![w] = k],
         UNCHANGED <<outside, dispatched, closed>>,
         cancelled' \in BOOLEAN, poolError' \in Reasons,
         cancelled => cancelled', cancelled' => poolError' # "none",
         poolError' = "context" => expired,
         answered \subseteq answered', answered' \subseteq 1..dispatched,
         k.at \in {"handed", "calling"} =>
           worker[w].at \in {"handed", "calling"} /\ k.index = worker[w].index,
         worker[w].at \in {"handed", "calling"} =>
           \/ k.at \in {"handed", "calling"}
           \/ worker[w].index \in answered'
           \/ PoolDone'
  PROVE  PoolIInv'
<1>1. /\ worker' \in [Workers -> WorkerType] /\ worker'[w] = k
      /\ \A v \in Workers \ {w} : worker'[v] = worker[v]
  BY DEF PoolIInv, Types
<1>2. PoolDone => PoolDone'
  BY OutsideKept DEF PoolDone
<1>3. Types' /\ Causes'
  BY <1>1, OutsideKept DEF PoolIInv, Types, Causes
<1>4. \A v \in Workers, i \in Nat : Holds(v, i)' => Holds(v, i)
  BY <1>1 DEF Holds
<1>5. ASSUME NEW i \in 1..dispatched, NEW v \in Workers, Holds(v, i)
      PROVE  Holds(v, i)' \/ i \in answered' \/ PoolDone'
  BY <1>1, <1>5 DEF Holds
<1>6. Batched'
  <2>1. \A v \in Workers, i \in Nat : Holds(v, i)' => i \in 1..dispatched'
    BY <1>4 DEF PoolIInv, Batched
  <2>2. \A i \in 1..dispatched' : i \in answered' \/ PoolDone' \/ \E v \in Workers : Holds(v, i)'
    BY <1>2, <1>5 DEF PoolIInv, Batched
  <2>3. closed' => stage' = "expand" /\ (dispatched' = Batches' \/ PoolDone')
    BY <1>2, OutsideKept DEF PoolIInv, Batched
  <2> QED BY <2>1, <2>2, <2>3 DEF Batched
<1> QED BY <1>3, <1>6 DEF PoolIInv

LEMMA WorkerPool ==
  ASSUME PoolIInv, NEW w \in Workers, WorkerStep(w)
  PROVE  PoolIInv'
<1>1. /\ worker[w] \in WorkerType /\ answered \subseteq 1..dispatched /\ expired \in BOOLEAN
      /\ poolError \in Reasons /\ cancelled \in BOOLEAN
      /\ cancelled => poolError # "none"
      /\ poolError = "context" => expired
      /\ DOMAIN worker = Workers
      /\ worker[w].at \in {"handed", "calling"} => worker[w].index \in 1..dispatched
  <2>1. Holds(w, worker[w].index) => worker[w].index \in 1..dispatched
    BY DEF PoolIInv, Types, Batched, WorkerType
  <2> QED BY <2>1 DEF PoolIInv, Types, Causes, Batched, Holds
<1>2. CASE Begin(w)
  <2>1. CASE PoolDone
    BY <1>1, <1>2, <2>1, WorkersStart, WorkerMoves DEF Begin, PoolDone, outside
  <2>2. CASE ~PoolDone
    <3> DEFINE k == [worker[w] EXCEPT !.at = "calling"]
    <3>1. k \in WorkerType /\ k.at = "calling" /\ k.index = worker[w].index
      BY <1>1 DEF WorkerType
    <3>2. worker' = [worker EXCEPT ![w] = k] /\ worker[w].at = "handed"
      BY <1>2, <2>2 DEF Begin
    <3>3. UNCHANGED <<outside, dispatched, closed, results, cancelled, poolError, answered>>
      BY <1>2 DEF Begin
    <3> HIDE DEF k
    <3> QED BY <1>1, <3>1, <3>2, <3>3, WorkerMoves
  <2> QED BY <2>1, <2>2
<1>3. CASE WorkerRetries(w)
  <2> DEFINE k == [worker[w] EXCEPT !.tries = @ + 1]
  <2>1. k \in WorkerType /\ k.at = worker[w].at /\ k.index = worker[w].index
    BY <1>1 DEF WorkerType
  <2>2. worker' = [worker EXCEPT ![w] = k]
    BY <1>3, <1>1 DEF WorkerRetries
  <2>3. UNCHANGED <<outside, dispatched, closed, results, cancelled, poolError, answered>>
    BY <1>3 DEF WorkerRetries
  <2> HIDE DEF k
  <2> QED BY <1>1, <2>1, <2>2, <2>3, WorkerMoves
<1>4. CASE WorkerFails(w)
  <2>1. PICK why \in Reasons : /\ CallFails(why, PoolDone) \/ why = "content"
                               /\ poolError' = FirstError(why)
    BY <1>4 DEF WorkerFails
  <2>2. why # "none" /\ (why = "context" => expired \/ cancelled)
    BY <2>1 DEF CallFails, PoolDone
  <2>3. poolError' \in Reasons /\ poolError' # "none" /\ (poolError' = "context" => expired)
    BY <1>1, <2>1, <2>2 DEF FirstError
  <2>4. /\ worker' = [worker EXCEPT ![w] = Off] /\ cancelled' = TRUE
        /\ UNCHANGED <<outside, dispatched, closed, results, answered>>
    BY <1>4 DEF WorkerFails
  <2>5. PoolDone'
    BY <2>4 DEF PoolDone
  <2> QED BY <1>1, <2>3, <2>4, <2>5, WorkersStart, WorkerMoves
<1>5. ASSUME NEW reply \in Replies, WorkerKeeps(w, reply) PROVE PoolIInv'
  <2>1. /\ worker' = [worker EXCEPT ![w] = Waiting] /\ worker[w].at = "calling"
        /\ answered' = answered \cup {worker[w].index}
        /\ UNCHANGED <<outside, dispatched, closed, cancelled, poolError>>
    BY <1>5 DEF WorkerKeeps
  <2> QED BY <1>1, <2>1, WorkersStart, WorkerMoves
<1>6. CASE WorkerLeaves(w)
  <2>1. /\ worker' = [worker EXCEPT ![w] = Off] /\ worker[w].at = "waiting"
        /\ UNCHANGED <<outside, dispatched, closed, results, cancelled, poolError, answered>>
    BY <1>6 DEF WorkerLeaves
  <2> QED BY <1>1, <2>1, WorkersStart, WorkerMoves
<1> QED BY <1>2, <1>3, <1>4, <1>5, <1>6, HandPool DEF WorkerStep

-----------------------------------------------------------------------------
(***************************************************************************)
(* The table: where the handler is, and what its rows are.                 *)
(***************************************************************************)
\* Only an expansion has workers.
Shape ==
  /\ stage \in Stages /\ reason \in Reasons
  /\ repair \in 0..MaxRepairs /\ tries \in 0..MaxRetries - 1
  /\ \A w \in Workers : worker[w].tries \in 0..MaxRetries - 1
  /\ stage = "collect" => repair = 0
  /\ stage # "expand" => \A w \in Workers : worker[w].at = "off"

\* An expansion has rows to ask for, and a slot for each batch.
Expanding ==
  stage = "expand" =>
    /\ repair = 0 \/ Len(rows) < TargetRows
    /\ dispatched <= Batches
    /\ results \in [1..Batches -> Seq(Obeying)]

\* While there is something to hand out and the pool is not done, no worker of a
\* batch has left: one leaves at the end of the jobs, or sees the pool done, or
\* makes it so.
Manned ==
  stage = "expand" /\ ~closed /\ ~PoolDone =>
    \A w \in Workers : w <= Batches => worker[w].at # "off"

\* The candidates obey the rules and have titles of their own; what is about to
\* be emitted, or has been, is a table.
Tabled ==
  /\ rows \in Seq(Obeying) /\ TitlesDiffer(rows) /\ selected \in Seq(Obeying)
  /\ emitted \in 0..2
  /\ stage \in {"collect", "expand", "select", "delta"} => emitted = 0
  /\ stage = "done" => emitted = 1
  /\ stage \in {"delta", "done", "ended"} \/ emitted > 0 => Table(selected)

Whole == Shape /\ Expanding /\ Manned /\ Tabled
IInv == PoolIInv /\ Whole

LEMMA InitWhole == Init => Whole
<1> SUFFICES ASSUME Init PROVE Whole
  OBVIOUS
<1>1. \A w \in Workers : worker[w].at = "off" /\ worker[w].tries = 0
  BY DEF Init, NoPool, Off
<1>2. MaxRetries \in Nat \ {0} /\ MaxRepairs \in Nat
  BY TableAssumption DEF Validated
<1>3. Shape
  BY <1>1, <1>2 DEF Init, Shape, Stages, Reasons
<1>4. <<>> \in Seq(Obeying) /\ TitlesDiffer(<<>>)
  BY DEF TitlesDiffer
<1>5. Expanding /\ Manned /\ Tabled
  BY <1>4 DEF Init, Expanding, Manned, Tabled
<1> QED BY <1>3, <1>5 DEF Whole

\* An expansion asks for a row at least.
LEMMA CountIsPositive ==
  ASSUME Whole, stage = "expand"
  PROVE  Batches \in Nat \ {0}
<1>1. TargetRows \in Nat \ {0} /\ CandidateRows \in Nat \ {0}
  BY TableAssumption DEF Validated
<1>2. Len(rows) \in Nat
  BY LenProperties DEF Whole, Tabled
<1>3. Count \in Nat \ {0}
  BY <1>1, <1>2 DEF Whole, Expanding, Count
<1> QED BY <1>3, BatchesAreCounted DEF Batches

-----------------------------------------------------------------------------
\* A step of a worker: one place of the pool changes, and perhaps a slot.
LEMMA OneWorkerWhole ==
  ASSUME IInv, NEW w \in Workers, NEW k, k.tries \in 0..MaxRetries - 1,
         worker' = [worker EXCEPT ![w] = k], UNCHANGED outside, stage = "expand",
         dispatched' <= Batches, results' \in [1..Batches -> Seq(Obeying)],
         worker[w].at # "off", closed' = closed, cancelled => cancelled',
         k.at = "off" => closed \/ PoolDone'
  PROVE  Whole'
<1>1. \A v \in Workers : worker'[v] = IF v = w THEN k ELSE worker[v]
  BY DEF IInv, PoolIInv, Types
<1>2. Batches' = Batches
  BY OutsideKept DEF IInv
<1>3. Shape'
  BY <1>1 DEF IInv, Whole, Shape, outside
<1>4. Expanding'
  BY <1>2 DEF IInv, Whole, Expanding, outside
<1>5. Tabled'
  BY DEF IInv, Whole, Tabled, outside
<1>6. Manned'
  BY <1>1, <1>2 DEF IInv, Whole, Manned, PoolDone, outside
<1> QED BY <1>3, <1>4, <1>5, <1>6 DEF Whole

LEMMA WorkerWhole ==
  ASSUME IInv, NEW w \in Workers, WorkerStep(w)
  PROVE  Whole'
<1>1. /\ worker[w] \in WorkerType /\ worker[w].tries \in 0..MaxRetries - 1 /\ MaxRetries \in Nat \ {0}
      /\ worker[w].at # "off"
      /\ UNCHANGED outside /\ DOMAIN worker = Workers
  <2>1. worker[w] \in WorkerType /\ worker[w].tries \in 0..MaxRetries - 1 /\ DOMAIN worker = Workers
    BY DEF IInv, PoolIInv, Types, Whole, Shape
  <2>2. worker[w].at # "off" /\ UNCHANGED outside
    BY DEF WorkerStep, Hand, Begin, WorkerRetries, WorkerFails, WorkerLeaves, WorkerKeeps
  <2> QED BY <2>1, <2>2, TableAssumption
<1>2. stage = "expand" /\ dispatched \in Nat /\ dispatched <= Batches
      /\ results \in [1..Batches -> Seq(Obeying)]
  BY <1>1 DEF IInv, PoolIInv, Types, Whole, Shape, Expanding
<1>3. Batches \in Nat
  BY <1>2, CountIsPositive DEF IInv
<1>4. Off.tries = 0 /\ Waiting.tries = 0 /\ 0 \in 0..MaxRetries - 1
  BY <1>1 DEF Off, Waiting
<1>5. CASE Hand(w)
  <2> DEFINE k == [at |-> "handed", index |-> dispatched + 1, tries |-> 0]
  <2>1. k.tries \in 0..MaxRetries - 1
    BY <1>4
  <2>2. /\ worker' = [worker EXCEPT ![w] = k] /\ dispatched' <= Batches /\ results' = results
        /\ closed' = closed /\ cancelled' = cancelled /\ k.at # "off"
    BY <1>2, <1>3, <1>5 DEF Hand
  <2> HIDE DEF k
  <2> QED BY <1>1, <1>2, <2>1, <2>2, OneWorkerWhole
<1>6. CASE Begin(w)
  <2> DEFINE k == IF PoolDone THEN Off ELSE [worker[w] EXCEPT !.at = "calling"]
  <2>1. k.tries \in 0..MaxRetries - 1
    BY <1>1, <1>4 DEF WorkerType
  <2>2. /\ worker' = [worker EXCEPT ![w] = k] /\ dispatched' = dispatched /\ results' = results
        /\ closed' = closed /\ cancelled' = cancelled /\ PoolDone' = PoolDone
    BY <1>6 DEF Begin, PoolDone, outside
  <2>3. k.at = "off" => PoolDone'
    BY <1>1, <2>2 DEF WorkerType
  <2> HIDE DEF k
  <2> QED BY <1>1, <1>2, <2>1, <2>2, <2>3, OneWorkerWhole
<1>7. CASE WorkerRetries(w)
  <2> DEFINE k == [worker[w] EXCEPT !.tries = @ + 1]
  <2>1. k.tries \in 0..MaxRetries - 1
    BY <1>1, <1>7 DEF WorkerType, WorkerRetries, MayRetry
  <2>2. /\ worker' = [worker EXCEPT ![w] = k] /\ dispatched' = dispatched /\ results' = results
        /\ closed' = closed /\ cancelled' = cancelled /\ k.at # "off"
    BY <1>1, <1>7 DEF WorkerRetries, WorkerType
  <2> HIDE DEF k
  <2> QED BY <1>1, <1>2, <2>1, <2>2, OneWorkerWhole
<1>8. CASE WorkerFails(w) \/ WorkerLeaves(w)
  <2>1. /\ worker' = [worker EXCEPT ![w] = Off] /\ dispatched' = dispatched /\ results' = results
        /\ closed' = closed /\ (cancelled => cancelled') /\ (closed \/ PoolDone')
    BY <1>8 DEF WorkerFails, WorkerLeaves, PoolDone
  <2> QED BY <1>1, <1>2, <1>4, <2>1, OneWorkerWhole
<1>9. ASSUME NEW reply \in Replies, WorkerKeeps(w, reply) PROVE Whole'
  <2>1. /\ worker' = [worker EXCEPT ![w] = Waiting] /\ dispatched' = dispatched
        /\ results' = [results EXCEPT ![worker[w].index] = Kept(reply, worker[w].index)]
        /\ closed' = closed /\ cancelled' = cancelled /\ Waiting.at # "off"
    BY <1>9 DEF WorkerKeeps, Waiting
  <2>2. results' \in [1..Batches -> Seq(Obeying)]
    BY <1>2, <2>1, KeptFacts
  <2> QED BY <1>1, <1>2, <1>4, <2>1, <2>2, OneWorkerWhole
<1> QED BY <1>5, <1>6, <1>7, <1>8, <1>9 DEF WorkerStep

-----------------------------------------------------------------------------
\* A pool that nobody works in, and one that begins.
LEMMA PoolLeftWhole ==
  ASSUME PoolLeft
  PROVE  \A w \in Workers : worker'[w].at = "off" /\ worker'[w].tries \in 0..MaxRetries - 1
BY TableAssumption DEF PoolLeft, Off

LEMMA OpenPoolWhole ==
  ASSUME NEW count, OpenPool(count), BatchesOf(count) \in Nat
  PROVE  /\ \A w \in Workers : worker'[w].tries \in 0..MaxRetries - 1
         /\ \A w \in Workers : w <= BatchesOf(count) => worker'[w].at # "off"
         /\ dispatched' <= BatchesOf(count)
         /\ results' \in [1..BatchesOf(count) -> Seq(Obeying)]
BY TableAssumption DEF OpenPool, Off, Waiting

\* A step of the handler outside the expansion.
LEMMA OtherStages ==
  ASSUME IInv, UNCHANGED pool, stage # "expand", stage' \in Stages \ {"expand"},
         reason' \in Reasons, repair' \in 0..MaxRepairs, tries' \in 0..MaxRetries - 1,
         stage' = "collect" => stage = "collect" /\ repair' = repair, Tabled'
  PROVE  Whole'
BY DEF IInv, Whole, Shape, Expanding, Manned, pool

\* Rows and selection stay, and so does what was emitted, unless all fails.
LEMMA TableKept ==
  ASSUME Tabled, UNCHANGED <<rows, selected, emitted>>,
         stage' = stage \/ stage' = "failed"
  PROVE  Tabled'
BY DEF Tabled, Table, TitlesDiffer, Enough, Bucket

LEMMA PoolSucceedsWhole ==
  ASSUME IInv, PoolSucceeds
  PROVE  Whole'
<1> DEFINE found == Flattened(results)
           unique == Merge(rows, found)
<1>1. /\ stage = "expand" /\ Continue(unique) /\ UNCHANGED <<tries, expired, selected, emitted>>
  BY DEF PoolSucceeds, Joined
<1>2. Batches \in Nat /\ results \in [1..Batches -> Seq(Obeying)]
  BY <1>1, CountIsPositive DEF IInv, Whole, Expanding
<1>3. found \in Seq(Obeying)
  BY <1>2, FlattenedFacts
<1> HIDE DEF found
<1>4. unique \in Seq(Obeying) /\ TitlesDiffer(unique)
  BY <1>3, MergeFacts DEF IInv, Whole, Tabled
<1> HIDE DEF unique
<1>5. /\ InterleavePartitions(unique) \in Seq(Obeying) /\ TitlesDiffer(InterleavePartitions(unique))
      /\ Len(unique) \in Nat
  BY <1>4, InterleaveFacts, LenProperties
<1>6. /\ TargetRows \in Nat \ {0} /\ MaxRepairs \in Nat /\ repair \in 0..MaxRepairs
      /\ tries' \in 0..MaxRetries - 1 /\ reason \in Reasons /\ emitted' = 0 /\ selected' \in Seq(Obeying)
  BY <1>1, TableAssumption DEF Validated, IInv, Whole, Shape, Tabled
<1>7. ASSUME rows' \in {unique, InterleavePartitions(unique)},
             stage' \in {"select", "expand", "failed"}
      PROVE  Tabled'
  BY <1>4, <1>5, <1>6, <1>7 DEF Tabled
<1>8. CASE /\ stage' = "select" /\ repair' = 0 /\ rows' = InterleavePartitions(unique)
           /\ UNCHANGED reason /\ PoolLeft
  BY <1>6, <1>7, <1>8, PoolLeftWhole DEF Whole, Shape, Expanding, Manned, Stages
<1>9. CASE /\ Len(unique) < TargetRows /\ repair < MaxRepairs
           /\ repair' = repair + 1 /\ rows' = unique /\ UNCHANGED <<stage, reason>>
           /\ OpenPool(TargetRows - Len(unique))
  <2>1. TargetRows - Len(unique) \in Nat \ {0} /\ repair' # 0
    BY <1>5, <1>6, <1>9
  <2>2. Batches' = BatchesOf(TargetRows - Len(unique))
    BY <1>9, <2>1 DEF Batches, BatchesOf, SizeOf, Count
  <2>3. BatchesOf(TargetRows - Len(unique)) \in Nat
    BY <2>1, BatchesAreCounted
  <2>4. /\ \A w \in Workers : worker'[w].tries \in 0..MaxRetries - 1
        /\ \A w \in Workers : w <= Batches' => worker'[w].at # "off"
        /\ dispatched' <= Batches' /\ results' \in [1..Batches' -> Seq(Obeying)]
    BY <1>9, <2>2, <2>3, OpenPoolWhole
  <2>5. Shape'
    BY <1>1, <1>6, <1>9, <2>4 DEF Shape, Stages
  <2>6. Expanding' /\ Manned'
    BY <1>9, <2>4 DEF Expanding, Manned
  <2> QED BY <1>1, <1>7, <1>9, <2>5, <2>6 DEF Whole
<1>10. CASE /\ stage' = "failed" /\ reason' = "content" /\ rows' = unique
            /\ UNCHANGED repair /\ PoolLeft
  BY <1>6, <1>7, <1>10, PoolLeftWhole DEF Whole, Shape, Expanding, Manned, Stages, Reasons
<1> QED BY <1>1, <1>8, <1>9, <1>10 DEF Continue

LEMMA HandlerWhole ==
  ASSUME IInv, HandlerStep
  PROVE  Whole'
<1>1. /\ MaxRetries \in Nat \ {0} /\ MaxRepairs \in Nat /\ 0 \in 0..MaxRetries - 1 /\ 0 \in 0..MaxRepairs
      /\ reason \in Reasons /\ repair \in 0..MaxRepairs /\ tries \in 0..MaxRetries - 1
      /\ stage \in Stages /\ Tabled
  BY TableAssumption DEF Validated, IInv, Whole, Shape
<1>2. CASE Retry
  <2>1. Tabled'
    BY <1>1, <1>2, TableKept DEF Retry
  <2>2. tries' \in 0..MaxRetries - 1
    BY <1>1, <1>2 DEF Retry, MayRetry
  <2>3. stage # "expand" /\ UNCHANGED <<stage, repair, reason, pool>>
    BY <1>2 DEF Retry
  <2> QED BY <1>1, <2>1, <2>2, <2>3, OtherStages
<1>3. CASE StageFails \/ EmitAborts
  <2>1. stage # "expand" /\ UNCHANGED pool
        /\ \E why \in Reasons : Fail(why)
    BY <1>3 DEF StageFails, EmitAborts, Reasons
  <2>2. /\ stage' = "failed" /\ reason' \in Reasons
        /\ UNCHANGED <<repair, tries, rows, selected, emitted>>
    BY <2>1 DEF Fail
  <2>3. Tabled'
    BY <1>1, <2>2, TableKept
  <2> QED BY <1>1, <2>1, <2>2, <2>3, OtherStages DEF Stages
<1>4. CASE Collected
  <2>1. /\ stage = "collect" /\ stage' = "expand" /\ tries' = 0 /\ OpenPool(CandidateRows)
        /\ UNCHANGED <<repair, rows, selected, emitted, reason>>
    BY <1>4 DEF Collected
  <2>2. repair = 0
    BY <2>1 DEF IInv, Whole, Shape
  <2>3. Batches' = BatchesOf(CandidateRows) /\ CandidateRows \in Nat \ {0}
    BY <2>1, <2>2, TableAssumption DEF Batches, BatchesOf, SizeOf, Count, Validated
  <2>4. BatchesOf(CandidateRows) \in Nat
    BY <2>3, BatchesAreCounted
  <2>5. /\ \A w \in Workers : worker'[w].tries \in 0..MaxRetries - 1
        /\ \A w \in Workers : w <= Batches' => worker'[w].at # "off"
        /\ dispatched' <= Batches' /\ results' \in [1..Batches' -> Seq(Obeying)]
    BY <2>1, <2>3, <2>4, OpenPoolWhole
  <2>6. Tabled'
    BY <1>1, <2>1 DEF Tabled
  <2> QED BY <1>1, <2>1, <2>2, <2>5, <2>6 DEF Whole, Shape, Expanding, Manned, Stages
<1>5. CASE CloseJobs
  <2>1. UNCHANGED <<outside, dispatched, worker, results>> /\ stage = "expand"
    BY <1>5 DEF CloseJobs
  <2>2. Batches' = Batches
    BY <2>1, OutsideKept DEF IInv
  <2>3. Tabled'
    BY <1>1, <2>1, TableKept DEF outside
  <2>4. Manned'
    BY <1>5 DEF CloseJobs, Manned
  <2> QED BY <2>1, <2>2, <2>3, <2>4 DEF IInv, Whole, Shape, Expanding, outside
<1>6. CASE PoolFails
  <2>1. /\ stage' = "failed" /\ PoolLeft /\ UNCHANGED <<repair, tries, rows, selected, emitted>>
        /\ reason' \in Reasons
    BY <1>6 DEF PoolFails, Fail, IInv, PoolIInv, Types, Reasons
  <2>2. Tabled'
    BY <1>1, <2>1, TableKept
  <2> QED BY <1>1, <2>1, <2>2, PoolLeftWhole DEF Whole, Shape, Expanding, Manned, Stages
<1>7. ASSUME NEW indices \in Selections, SelectionValid(indices) PROVE Whole'
  <2>1. Table(selected') /\ selected' \in Seq(Obeying)
    BY <1>1, <1>7, SelectionFacts DEF SelectionValid, Tabled, Table
  <2>2. stage = "select" /\ stage' = "delta" /\ tries' = 0 /\ UNCHANGED <<repair, rows, emitted, reason, pool>>
    BY <1>7 DEF SelectionValid
  <2>3. Tabled'
    BY <1>1, <2>1, <2>2 DEF Tabled, Table, TitlesDiffer, Enough, Bucket
  <2> QED BY <1>1, <2>2, <2>3, OtherStages DEF Stages
<1>8. CASE SelectionInvalid
  <2>1. /\ stage = "select" /\ stage' \in {"select", "failed"} /\ tries' = 0 /\ reason' \in Reasons
        /\ repair' \in 0..MaxRepairs /\ UNCHANGED <<rows, selected, emitted, pool>>
    BY <1>1, <1>8 DEF SelectionInvalid, Reasons
  <2>2. Tabled'
    BY <1>1, <2>1, TableKept
  <2> QED BY <1>1, <2>1, <2>2, OtherStages DEF Stages
<1>9. CASE Emit
  <2>1. /\ stage \in {"delta", "done"} /\ stage' = (IF stage = "delta" THEN "done" ELSE "ended")
        /\ emitted' = emitted + 1 /\ UNCHANGED <<repair, tries, rows, selected, reason, pool>>
    BY <1>9 DEF Emit
  <2>2. Table(selected)' /\ rows' \in Seq(Obeying) /\ TitlesDiffer(rows)' /\ selected' \in Seq(Obeying)
    BY <1>1, <2>1, ZenonT(30) DEF Tabled, Table, TitlesDiffer, Enough, Bucket
  <2>3. Tabled'
    BY <1>1, <2>1, <2>2 DEF Tabled
  <2> QED BY <1>1, <2>1, <2>3, OtherStages DEF Stages
<1> QED BY <1>2, <1>3, <1>4, <1>5, <1>6, <1>7, <1>8, <1>9, PoolSucceedsWhole DEF HandlerStep

-----------------------------------------------------------------------------
LEMMA InitIInv == Init => IInv
BY InitPool, InitWhole DEF IInv

LEMMA NextIInv == IInv /\ [Next]_vars => IInv'
<1>1. ASSUME IInv, UNCHANGED vars PROVE IInv'
  <2>1. PoolIInv'
    BY <1>1 DEF vars, IInv, PoolIInv, Types, Causes, ErrorIsTheCause, Batched, Holds, PoolDone, Batches,
         BatchesOf, SizeOf, Count, pool
  <2>2. Shape' /\ Expanding' /\ Manned'
    BY <1>1 DEF vars, IInv, Whole, Shape, Expanding, Manned, PoolDone, Batches, BatchesOf, SizeOf, Count, pool
  <2>3. Tabled'
    BY <1>1, TableKept DEF vars, IInv, Whole
  <2> QED BY <2>1, <2>2, <2>3 DEF IInv, Whole
<1>2. ASSUME IInv, Expire PROVE IInv'
  <2>1. PoolIInv'
    BY <1>2, ExpirePool DEF IInv
  <2>2. Shape' /\ Expanding' /\ Manned'
    BY <1>2 DEF Expire, IInv, Whole, Shape, Expanding, Manned, PoolDone, Batches, BatchesOf, SizeOf, Count, pool
  <2>3. Tabled'
    BY <1>2, TableKept DEF Expire, IInv, Whole
  <2> QED BY <2>1, <2>2, <2>3 DEF IInv, Whole
<1>3. ASSUME IInv, HandlerStep PROVE IInv'
  BY <1>3, HandlerPool, HandlerWhole DEF IInv
<1>4. ASSUME IInv, NEW w \in Workers, WorkerStep(w) PROVE IInv'
  BY <1>4, WorkerPool, WorkerWhole DEF IInv
<1> QED BY <1>1, <1>2, <1>3, <1>4 DEF Next

-----------------------------------------------------------------------------
\* The inductive invariant: what was handed out is answered, held, or lost to a
\* pool that is done for good; an error says what went wrong first; and what the
\* handler keeps, selects and emits obeys the rules and has no title twice.
THEOREM Invariance == Spec => []IInv
BY InitIInv, NextIInv, PTL DEF Spec

\* Every variable has its type: the repairs and tries stay within their limits, and
\* no worker holds an index beyond the batches.
THEOREM TypeCorrect == Spec => []TypeOK
<1>1. ASSUME IInv PROVE TypeOK
  <2>1. /\ stage \in Stages /\ repair \in 0..MaxRepairs /\ tries \in 0..MaxRetries - 1
        /\ expired \in BOOLEAN /\ closed \in BOOLEAN /\ cancelled \in BOOLEAN
        /\ emitted \in 0..2 /\ reason \in Reasons /\ poolError \in Reasons
    BY <1>1 DEF IInv, PoolIInv, Types, Whole, Shape, Tabled
  <2>2. rows \in Seq(Rows) /\ selected \in Seq(Rows)
    <3>1. \A s \in Seq(Obeying) : s \in Seq(Rows)
      BY TableAssumption
    <3> QED BY <1>1, <3>1 DEF IInv, Whole, Tabled
  <2>3. worker \in [Workers -> [at : {"off", "waiting", "handed", "calling"}, index : Nat,
                                tries : 0..MaxRetries - 1]]
    <3>1. \A w \in Workers : worker[w] \in WorkerType /\ worker[w].tries \in 0..MaxRetries - 1
      BY <1>1 DEF IInv, PoolIInv, Types, Whole, Shape
    <3>2. \A w \in Workers : worker[w] \in [at : {"off", "waiting", "handed", "calling"}, index : Nat,
                                            tries : 0..MaxRetries - 1]
      BY <3>1 DEF WorkerType
    <3> QED BY <1>1, <3>2 DEF IInv, PoolIInv, Types
  <2>4. ASSUME stage = "expand"
        PROVE  /\ dispatched \in 0..Batches /\ DOMAIN results = 1..Batches
               /\ \A w \in Workers : worker[w].at \in {"handed", "calling"} => worker[w].index \in 1..dispatched
    <3>1. dispatched \in 0..Batches /\ DOMAIN results = 1..Batches
      BY <1>1, <2>4, CountIsPositive DEF IInv, PoolIInv, Types, Whole, Expanding
    <3>2. \A w \in Workers : worker[w].at \in {"handed", "calling"} => Holds(w, worker[w].index)
      BY DEF Holds
    <3> QED BY <1>1, <2>3, <3>1, <3>2 DEF IInv, PoolIInv, Batched
  <2> QED BY <2>1, <2>2, <2>3, <2>4 DEF TypeOK
<1> QED BY <1>1, Invariance, PTL

\* The error of a failed table is the context's only if the handler's context
\* ended, never because a worker cancelled its peers.
THEOREM ErrorsNameTheCause == Spec => []ErrorIsTheCause
<1>1. IInv => ErrorIsTheCause
  BY DEF IInv, PoolIInv, Causes
<1> QED BY <1>1, Invariance, PTL

\* An expansion goes on to the selection or to the next repair only with every
\* batch answered and validated, for any number of batches and workers.
THEOREM ExpansionsAreWhole == Spec => [][EveryBatchValidated]_vars
<1>1. IInv /\ [Next]_vars => [EveryBatchValidated]_vars
  <2> SUFFICES ASSUME IInv, Next, Joined, stage' = "select" \/ repair' # repair
               PROVE  answered = 1..Batches
    BY DEF EveryBatchValidated
  <2>1. stage = "expand" /\ closed /\ \A w \in Workers : worker[w].at = "off"
    BY DEF Joined
  <2>2. ~Expire /\ \A w \in Workers : ~WorkerStep(w)
    <3>1. ~Expire
      BY <2>1 DEF Expire
    <3>2. ASSUME NEW w \in Workers, WorkerStep(w) PROVE UNCHANGED outside
      BY <3>2 DEF WorkerStep, Hand, Begin, WorkerRetries, WorkerFails, WorkerLeaves, WorkerKeeps
    <3> QED BY <2>1, <3>1, <3>2 DEF outside
  <2>3. HandlerStep
    BY <2>2 DEF Next
  <2>4. PoolSucceeded
    BY <2>1, <2>3 DEF HandlerStep, Retry, StageFails, Collected, CloseJobs, PoolFails, PoolSucceeds,
         SelectionValid, SelectionInvalid, Emit, EmitAborts, Fail, Continue
  <2>5. ~PoolDone
    BY <2>4 DEF PoolSucceeded, PoolDone, IInv, PoolIInv, Causes
  <2>6. dispatched = Batches
    BY <2>1, <2>5 DEF IInv, PoolIInv, Batched
  <2>7. \A i \in 1..dispatched : i \in answered
    BY <2>1, <2>5 DEF IInv, PoolIInv, Batched, Holds
  <2> QED BY <2>6, <2>7 DEF IInv, PoolIInv, Batched
<1> QED BY <1>1, Invariance, PTL DEF Spec

\* Nothing is emitted but a table of the rows asked for, each within the rules,
\* no title twice and every partition with its share, and no expansion is used
\* without every batch: whatever the upstream answers, for any number of rows,
\* batches and workers.
THEOREM TablesAreWhole == Spec => AllOrNothing
<1>1. IInv => EmittedTableIsValid
  <2> SUFFICES ASSUME IInv, emitted > 0
               PROVE  Table(selected) /\ \A i \in DOMAIN selected : selected[i] \in Obeying
    BY DEF EmittedTableIsValid, Table, TitlesDiffer
  <2>1. Table(selected)
    BY DEF IInv, Whole, Tabled
  <2> QED BY <2>1, LenProperties, ElementOfSeq DEF Table
<1> QED BY <1>1, Invariance, ExpansionsAreWhole, PTL DEF Spec, AllOrNothing

\* No dispatcher waits for workers that have left, and no worker for a dispatcher:
\* while an expansion lasts somebody has a step, which is what safety says of
\* HandlerReturns.
THEOREM PoolNeverHangs == Spec => []PoolMoves
<1>1. ASSUME IInv PROVE PoolMoves
  <2> SUFFICES ASSUME stage = "expand", ~Joined, \A w \in Workers : worker[w].at \notin {"handed", "calling"}
               PROVE  \/ ~closed /\ DispatcherStops
                      \/ \E w \in Workers : worker[w].at = "waiting" /\ (closed \/ dispatched < Batches)
    BY DEF PoolMoves
  <2>1. Batches \in Nat \ {0} /\ dispatched \in Nat /\ dispatched <= Batches
    BY <1>1, CountIsPositive DEF IInv, PoolIInv, Types, Whole, Expanding
  <2>2. \A w \in Workers : worker[w].at \in {"off", "waiting"}
    BY <1>1 DEF IInv, PoolIInv, Types, WorkerType
  <2>3. CASE closed
    BY <2>2, <2>3 DEF Joined
  <2>4. CASE ~closed /\ ~DispatcherStops
    <3>1. dispatched < Batches /\ ~PoolDone
      BY <2>1, <2>4 DEF DispatcherStops
    <3>2. 1 \in Workers
      BY TableAssumption DEF Validated, Workers
    <3>3. worker[1].at # "off"
      BY <1>1, <2>1, <2>4, <3>1, <3>2 DEF IInv, Whole, Manned
    <3> QED BY <2>2, <3>1, <3>2, <3>3
  <2>5. CASE ~closed /\ DispatcherStops
    BY <2>5
  <2> QED BY <2>3, <2>4, <2>5
<1> QED BY <1>1, Invariance, PTL

=============================================================================
