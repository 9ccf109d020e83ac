--------------------------- MODULE ConsensusProofs ---------------------------
(***************************************************************************)
(* Theorems of the derivation: of the laws MCConsensus checks on small     *)
(* logs, for every log, every timer, every set of quakes, and any clock.   *)
(***************************************************************************)
EXTENDS MCConsensus, TLAPS, FiniteSetTheorems, SequenceTheorems, WellFoundedInduction

-----------------------------------------------------------------------------
(* Induction over the numbers, by the least one that fails. *)
LEMMA LeastNat == ASSUME NEW T, T \subseteq Nat, T # {} PROVE \E x \in T : \A y \in T : x <= y
<1>1. IsWellFoundedOn(OpToRel(<, Nat), Nat)
  BY NatLessThanWellFounded
<1>2. PICK x \in T : \A y \in T : ~ (<<y, x>> \in OpToRel(<, Nat))
  BY <1>1, WFMin
<1>3. \A y \in T : ~ (y < x)
  BY <1>2 DEF OpToRel
<1> QED
  BY <1>3

(* A set that has 0, and with every number the next, has all of them. *)
LEMMA AllUpTo ==
    ASSUME NEW n \in Nat, NEW S, 0 \in S, \A k \in 1..n : k - 1 \in S => k \in S
    PROVE  \A k \in 0..n : k \in S
<1> DEFINE T == (0..n) \ S
<1>1. SUFFICES ASSUME T # {} PROVE FALSE
  OBVIOUS
<1>2. PICK x \in T : \A y \in T : x <= y
  <2>1. T \subseteq Nat
    OBVIOUS
  <2> QED
    BY <1>1, <2>1, LeastNat
<1>3. x \in 1..n
  BY <1>2
<1>4. x - 1 \in 0..n /\ x - 1 \notin T
  BY <1>2, <1>3
<1> QED
  BY <1>2, <1>3, <1>4

(* A finite set of instants has a last one, and Latest is it. *)
LEMMA LatestIs ==
    ASSUME NEW instants, instants \subseteq Int, IsFiniteSet(instants), instants # {}
    PROVE  Latest(instants) \in instants /\ \A p \in instants : p <= Latest(instants)
<1> DEFINE After(q) == {p \in instants : p > q}
           Sizes == {Cardinality(After(q)) : q \in instants}
<1>1. \A q \in instants : IsFiniteSet(After(q)) /\ Cardinality(After(q)) \in Nat
  BY FS_Subset, FS_CardinalityType
<1>2. PICK m \in Sizes : \A k \in Sizes : m <= k
  <2>1. Sizes \subseteq Nat /\ Sizes # {}
    BY <1>1
  <2> QED
    BY <2>1, LeastNat
<1>3. PICK q \in instants : m = Cardinality(After(q))
  BY <1>2
<1>4. ASSUME NEW p \in instants, p > q PROVE FALSE
  <2>0. p \in Int /\ q \in Int /\ \A o \in instants : o \in Int
    OBVIOUS
  <2>1. After(p) \in SUBSET After(q) /\ p \in After(q) /\ p \notin After(p)
    <3>1. \A o \in instants : o > p => o > q
      BY <1>4, <2>0
    <3>2. ~(p > p)
      BY <2>0
    <3>3. After(p) \in SUBSET After(q)
      BY <3>1
    <3> QED
      BY <1>4, <3>2, <3>3
  <2>2. Cardinality(After(p)) <= Cardinality(After(q)) /\ Cardinality(After(p)) # Cardinality(After(q))
    BY <1>1, <2>1, FS_Subset
  <2>3. Cardinality(After(p)) \in Sizes
    OBVIOUS
  <2>4. Cardinality(After(q)) <= Cardinality(After(p))
    BY <1>2, <1>3, <2>3
  <2> HIDE DEF After, Sizes
  <2> QED
    BY <1>1, <2>2, <2>4
<1>5. \A p \in instants : p <= q
  BY <1>4
<1> QED
  BY <1>5 DEF Latest

(* A finite set whose members are numbered 1 to its size without repeats has
   one for every number.                                                    *)
LEMMA NumberedIs ==
    ASSUME NEW S, IsFiniteSet(S), NEW f \in [S -> 1..Cardinality(S)],
           \A x, y \in S : f[x] = f[y] => x = y
    PROVE  \A k \in 1..Cardinality(S) : \E x \in S : f[x] = k
<1>1. Cardinality(S) \in Nat
  BY FS_CardinalityType
<1>2. IsFiniteSet(1..Cardinality(S)) /\ Cardinality(1..Cardinality(S)) = Cardinality(S)
  BY <1>1, FS_Interval
<1>3. f \in Injection(S, 1..Cardinality(S))
  BY DEF Injection, IsInjective
<1>4. f \in Surjection(S, 1..Cardinality(S))
  BY <1>2, <1>3, FS_Injection
<1> QED
  BY <1>4 DEF Surjection

(* The k-th place of a set of them is one of them, with k up to it. *)
LEMMA PlaceIs ==
    ASSUME NEW n \in Nat, NEW places, places \subseteq 1..n, NEW k \in 1..Cardinality(places)
    PROVE  /\ Place(places, k) \in places
           /\ Cardinality({j \in places : j <= Place(places, k)}) = k
<1> DEFINE To(i) == {j \in places : j <= i}
           f == [i \in places |-> Cardinality(To(i))]
<1>0. \A i \in places : i \in Int
  OBVIOUS
<1>1. IsFiniteSet(places)
  <2>1. IsFiniteSet(1..n) /\ places \in SUBSET (1..n)
    BY FS_Interval
  <2> QED
    BY <2>1, FS_Subset
<1>2. \A i \in places : IsFiniteSet(To(i)) /\ Cardinality(To(i)) \in 1..Cardinality(places)
  <2>1. \A i \in places : IsFiniteSet(To(i)) /\ Cardinality(To(i)) \in Nat /\ Cardinality(To(i)) <= Cardinality(places)
    BY <1>1, FS_Subset, FS_CardinalityType
  <2>2. \A i \in places : Cardinality(To(i)) # 0
    <3>1. \A i \in places : i \in To(i)
      OBVIOUS
    <3> QED
      BY <2>1, <3>1, FS_EmptySet
  <2> QED
    BY <2>1, <2>2, <1>1, FS_CardinalityType
<1>3. ASSUME NEW i \in places, NEW j \in places, f[i] = f[j], i < j PROVE FALSE
  <2>1. To(i) \in SUBSET To(j) /\ j \in To(j) /\ j \notin To(i)
    <3>1. \A h \in places : h <= i => h <= j
      BY <1>0, <1>3
    <3>2. ~(j <= i) /\ j <= j
      BY <1>0, <1>3
    <3>3. To(i) \in SUBSET To(j)
      BY <3>1
    <3> QED
      BY <3>2, <3>3
  <2> QED
    BY <1>2, <1>3, <2>1, FS_Subset
<1>4. \A i, j \in places : f[i] = f[j] => i = j
  BY <1>3
<1>5. \E i \in places : f[i] = k
  <2>1. f \in [places -> 1..Cardinality(places)]
    BY <1>2
  <2> HIDE DEF f
  <2> QED
    BY <1>1, <1>4, <2>1, NumberedIs
<1>6. \E i \in places : Cardinality(To(i)) = k
  BY <1>5
<1> QED
  BY <1>6 DEF Place

-----------------------------------------------------------------------------
(* A log as the schema admits one: no two rows have one id. *)
Log(rows) ==
    /\ IsFiniteSet(rows)
    /\ \A r \in rows : r.id \in Int /\ r.died \in Int
    /\ \A q, r \in rows : q.id = r.id => q = r

(* The order of a log is total. *)
LEMMA BeforeIs ==
    ASSUME NEW rows, Log(rows)
    PROVE  /\ \A r \in rows : ~Before(r, r)
           /\ \A q, r \in rows : q # r => Before(q, r) \/ Before(r, q)
           /\ \A p, q, r \in rows : Before(p, q) /\ Before(q, r) => Before(p, r)
           /\ \A q, r \in rows : Before(q, r) => q.died <= r.died
BY DEF Log, Before

(* What is before another is ranked before it. *)
LEMMA RankRises ==
    ASSUME NEW rows, Log(rows)
    PROVE  /\ \A r \in rows : Rank(rows, r) \in 0..(Cardinality(rows) - 1)
           /\ \A q, r \in rows : Before(q, r) => Rank(rows, q) < Rank(rows, r)
<1> DEFINE Ahead(r) == {q \in rows : Before(q, r)}
<1>1. IsFiniteSet(rows) /\ Cardinality(rows) \in Nat
  BY FS_CardinalityType DEF Log
<1>2. \A r \in rows : IsFiniteSet(Ahead(r)) /\ Cardinality(Ahead(r)) \in Nat
  BY <1>1, FS_Subset, FS_CardinalityType
<1>3. ASSUME NEW r \in rows PROVE Cardinality(Ahead(r)) <= Cardinality(rows) - 1
  <2>1. Ahead(r) \subseteq rows /\ r \in rows /\ r \notin Ahead(r)
    BY BeforeIs
  <2> QED
    BY <1>1, <1>2, <2>1, FS_Subset
<1>4. ASSUME NEW q \in rows, NEW r \in rows, Before(q, r) PROVE Cardinality(Ahead(q)) < Cardinality(Ahead(r))
  <2>1. Ahead(q) \subseteq Ahead(r) /\ q \in Ahead(r) /\ q \notin Ahead(q)
    BY <1>4, BeforeIs
  <2>2. Cardinality(Ahead(q)) <= Cardinality(Ahead(r)) /\ Cardinality(Ahead(q)) # Cardinality(Ahead(r))
    BY <1>2, <2>1, FS_Subset
  <2> QED
    BY <1>2, <2>2
<1> QED
  BY <1>1, <1>2, <1>3, <1>4 DEF Rank

(* cluster.go:55-62: sorting puts every report once, in its order. *)
LEMMA SortedIs ==
    ASSUME NEW rows, Log(rows)
    PROVE  /\ \A i \in 1..Cardinality(rows) : Sorted(rows)[i] \in rows
           /\ \A i, j \in 1..Cardinality(rows) : i < j => Before(Sorted(rows)[i], Sorted(rows)[j])
           /\ \A r \in rows : \E i \in 1..Cardinality(rows) : Sorted(rows)[i] = r
<1> DEFINE n == Cardinality(rows)
           f == [r \in rows |-> Rank(rows, r) + 1]
<1>0. IsFiniteSet(rows) /\ n \in Nat
  BY FS_CardinalityType DEF Log
<1>1. \A r \in rows : Rank(rows, r) \in 0..(n - 1)
  BY RankRises
<1>2. \A q, r \in rows : Rank(rows, q) = Rank(rows, r) => q = r
  BY <1>1, RankRises, BeforeIs
<1>3. \A k \in 1..n : \E r \in rows : f[r] = k
  <2>1. f \in [rows -> 1..n]
    BY <1>0, <1>1
  <2>2. \A q, r \in rows : f[q] = f[r] => q = r
    BY <1>0, <1>1, <1>2
  <2> HIDE DEF f
  <2> QED
    BY <1>0, <2>1, <2>2, NumberedIs
<1>4. \A i \in 1..n : Sorted(rows)[i] \in rows /\ Rank(rows, Sorted(rows)[i]) = i - 1
  <2> SUFFICES ASSUME NEW i \in 1..n
               PROVE  Sorted(rows)[i] \in rows /\ Rank(rows, Sorted(rows)[i]) = i - 1
    OBVIOUS
  <2>1. \E r \in rows : Rank(rows, r) = i - 1
    BY <1>0, <1>1, <1>3
  <2>2. Sorted(rows)[i] = CHOOSE r \in rows : Rank(rows, r) = i - 1
    BY DEF Sorted
  <2> QED
    BY <2>1, <2>2
<1>5. ASSUME NEW i \in 1..n, NEW j \in 1..n, i < j PROVE Before(Sorted(rows)[i], Sorted(rows)[j])
  <2>1. Sorted(rows)[i] # Sorted(rows)[j]
    BY <1>0, <1>4, <1>5
  <2>2. ~Before(Sorted(rows)[j], Sorted(rows)[i])
    <3>1. ~(Rank(rows, Sorted(rows)[j]) < Rank(rows, Sorted(rows)[i]))
      BY <1>0, <1>4, <1>5
    <3> QED
      BY <1>4, <3>1, RankRises
  <2> QED
    BY <1>4, <2>1, <2>2, BeforeIs
<1>6. ASSUME NEW r \in rows PROVE \E i \in 1..n : Sorted(rows)[i] = r
  <2>1. Rank(rows, r) + 1 \in 1..n
    BY <1>0, <1>1
  <2>2. Rank(rows, Sorted(rows)[Rank(rows, r) + 1]) = Rank(rows, r)
    BY <1>1, <1>4, <2>1
  <2> QED
    BY <1>2, <1>4, <2>1, <2>2
<1> QED
  BY <1>4, <1>5, <1>6

-----------------------------------------------------------------------------
(* What a sweep has made of the reports it has passed, cluster by cluster. *)
Covers(out, rows) ==
    /\ \A i \in 1..Len(out) : \A a \in 1..Len(out[i]) : out[i][a] \in rows
    /\ \A r \in rows : \E i \in 1..Len(out) : \E a \in 1..Len(out[i]) : out[i][a] = r

InOrder(out) ==
    /\ \A i \in 1..Len(out) : \A a, b \in 1..Len(out[i]) : a < b => Before(out[i][a], out[i][b])
    /\ \A i, j \in 1..Len(out) : i < j =>
          \A a \in 1..Len(out[i]), b \in 1..Len(out[j]) : Before(out[i][a], out[j][b])

Tight(out, epsilon) ==
    \A i \in 1..Len(out) : \A a \in 1..Len(out[i]) :
        /\ out[i][a].died - out[i][1].died <= 2 * epsilon
        /\ a > 1 => out[i][a].died - out[i][a - 1].died <= epsilon

CutOff(out, epsilon) == \A i \in 2..Len(out) : ~Joins(out[i - 1], out[i][1], epsilon)

Formed(out, kills, rows, epsilon) ==
    /\ out \in Seq(Seq(kills)) /\ \A i \in 1..Len(out) : Len(out[i]) > 0
    /\ Covers(out, rows) /\ InOrder(out) /\ Tight(out, epsilon) /\ CutOff(out, epsilon)

(* The two things one more report can do: it extends the last cluster ... *)
LEMMA Extended ==
    ASSUME NEW kills, NEW out \in Seq(Seq(kills)), out # <<>>, NEW r \in kills
    PROVE  LET n   == Len(out)
               new == [out EXCEPT ![Len(out)] = Append(Last(out), r)]
           IN /\ n \in Nat \ {0} /\ new \in Seq(Seq(kills)) /\ Len(new) = n
              /\ \A i \in 1..n : i # n => new[i] = out[i]
              /\ out[n] \in Seq(kills) /\ Len(out[n]) \in Nat /\ Len(new[n]) = Len(out[n]) + 1
              /\ \A a \in 1..Len(out[n]) : new[n][a] = out[n][a]
              /\ new[n][Len(out[n]) + 1] = r
<1> DEFINE n == Len(out)
           last == Append(Last(out), r)
           new == [out EXCEPT ![n] = last]
<1>1. n \in Nat \ {0} /\ n \in 1..n /\ out[n] \in Seq(kills) /\ Last(out) = out[n]
  <2>1. n \in Nat \ {0}
    BY EmptySeq
  <2>2. n \in 1..n
    BY <2>1
  <2> QED
    BY <2>1, <2>2, ElementOfSeq DEF Last
<1>2. /\ last \in Seq(kills) /\ Len(out[n]) \in Nat /\ Len(last) = Len(out[n]) + 1
      /\ \A a \in 1..Len(out[n]) : last[a] = out[n][a]
      /\ last[Len(out[n]) + 1] = r
  BY <1>1
<1> HIDE DEF last, n
<1>3. /\ new \in Seq(Seq(kills)) /\ Len(new) = n
      /\ \A j \in 1..n : new[j] = IF j = n THEN last ELSE out[j]
  BY <1>1, <1>2, ExceptSeq DEF n
<1> HIDE DEF new
<1>4. new[n] = last /\ \A i \in 1..n : i # n => new[i] = out[i]
  BY <1>1, <1>3
<1> QED
  BY <1>1, <1>2, <1>3, <1>4 DEF new, n, last

(* ... or starts one. *)
LEMMA Started ==
    ASSUME NEW kills, NEW out \in Seq(Seq(kills)), NEW r \in kills
    PROVE  LET n   == Len(out)
               new == Append(out, <<r>>)
           IN /\ n \in Nat /\ new \in Seq(Seq(kills)) /\ Len(new) = n + 1
              /\ \A i \in 1..n : new[i] = out[i]
              /\ Len(new[n + 1]) = 1 /\ new[n + 1][1] = r
<1>1. <<r>> \in Seq(kills) /\ Len(<<r>>) = 1 /\ <<r>>[1] = r
  OBVIOUS
<1> DEFINE one == <<r>>
<1> HIDE DEF one
<1>2. one \in Seq(kills) /\ Len(one) = 1 /\ one[1] = r
  BY <1>1 DEF one
<1>3. LET n   == Len(out)
          new == Append(out, one)
      IN /\ n \in Nat /\ new \in Seq(Seq(kills)) /\ Len(new) = n + 1
         /\ \A i \in 1..n : new[i] = out[i]
         /\ new[n + 1] = one
  BY <1>2
<1> QED
  BY <1>2, <1>3 DEF one

(* cluster.go:64-75: one turn of the loop. *)
LEMMA SweptKeeps ==
    ASSUME NEW kills, Log(kills), NEW rows, rows \subseteq kills, NEW epsilon \in Nat,
           NEW out, Formed(out, kills, rows, epsilon),
           NEW r \in kills, \A q \in rows : Before(q, r)
    PROVE  Formed(Swept(out, r, epsilon), kills, rows \cup {r}, epsilon)
<1> DEFINE n == Len(out)
           new == Swept(out, r, epsilon)
<1>d. /\ \A q \in kills : q.died \in Int
      /\ out \in Seq(Seq(kills)) /\ n \in Nat
      /\ \A i \in 1..n : out[i] \in Seq(kills) /\ Len(out[i]) \in Nat \ {0}
  <2>1. out \in Seq(Seq(kills)) /\ \A i \in 1..n : Len(out[i]) > 0
    BY DEF Formed
  <2>2. n \in Nat /\ \A i \in 1..n : out[i] \in Seq(kills)
    BY <2>1, LenProperties, ElementOfSeq
  <2>3. \A i \in 1..n : Len(out[i]) \in Nat
    BY <2>2, LenProperties
  <2> QED
    BY <2>1, <2>2, <2>3 DEF Log
<1>l. \A i \in 1..n : Len(out[i]) \in Nat /\ Len(out[i]) > 0 /\ 1 \in 1..Len(out[i])
  BY <1>d
<1>m. \A i \in 1..n : \A a \in 1..Len(out[i]) : out[i][a] \in kills /\ Before(out[i][a], r)
  BY <1>d DEF Formed, Covers
<1>f. Covers(out, rows) /\ InOrder(out) /\ Tight(out, epsilon) /\ CutOff(out, epsilon)
  BY DEF Formed
(* It joins. *)
<1>1. CASE out # <<>> /\ Joins(Last(out), r, epsilon)
  <2>1. new = [out EXCEPT ![Len(out)] = Append(Last(out), r)]
    BY <1>1 DEF Swept
  <2> DEFINE m == Len(out[n])
  <2>2. /\ n \in Nat \ {0} /\ new \in Seq(Seq(kills)) /\ Len(new) = n
        /\ \A i \in 1..n : i # n => new[i] = out[i]
        /\ out[n] \in Seq(kills) /\ m \in Nat \ {0} /\ Len(new[n]) = m + 1
        /\ \A a \in 1..m : new[n][a] = out[n][a]
        /\ new[n][m + 1] = r
    <3> HIDE DEF new
    <3>1. n \in Nat \ {0} /\ n \in 1..n
      BY <1>1, <1>d, EmptySeq
    <3>2. m \in Nat \ {0}
      BY <1>d, <3>1
    <3> QED
      BY <1>1, <1>d, <2>1, <3>1, <3>2, Extended
  <2>3. r.died - out[n][m].died <= epsilon /\ r.died - out[n][1].died <= 2 * epsilon
    BY <1>1, <2>2 DEF Joins, Last
  <2> HIDE DEF new, n, m
  <2>4. /\ \A i \in 1..n : Len(new[i]) = IF i = n THEN m + 1 ELSE Len(out[i])
        /\ \A i \in 1..n : \A a \in 1..Len(new[i]) :
             new[i][a] = IF i = n /\ a = m + 1 THEN r ELSE out[i][a]
        /\ \A i \in 1..n : \A a \in 1..Len(new[i]) : ~(i = n /\ a = m + 1) => a \in 1..Len(out[i])
        /\ Len(out[n]) = m
    <3>1. n \in 1..n /\ Len(out[n]) = m /\ m + 1 \notin 1..m /\ \A a \in 1..(m + 1) : a # m + 1 => a \in 1..m
      BY <2>2 DEF m
    <3>2. \A i \in 1..n : Len(new[i]) = IF i = n THEN m + 1 ELSE Len(out[i])
      BY <2>2
    <3>3. ASSUME NEW i \in 1..n, NEW a \in 1..Len(new[i])
          PROVE  /\ new[i][a] = IF i = n /\ a = m + 1 THEN r ELSE out[i][a]
                 /\ ~(i = n /\ a = m + 1) => a \in 1..Len(out[i])
      <4>1. CASE i = n
        BY <2>2, <3>1, <3>2, <4>1
      <4>2. CASE i # n
        BY <2>2, <3>2, <4>2
      <4> QED
        BY <4>1, <4>2
    <3> QED
      BY <3>1, <3>2, <3>3
  <2>5. \A i \in 1..n : Len(new[i]) > 0 /\ 1 \in 1..Len(new[i]) /\ m + 1 # 1
    <3> SUFFICES ASSUME NEW i \in 1..n PROVE Len(new[i]) > 0 /\ 1 \in 1..Len(new[i]) /\ m + 1 # 1
      OBVIOUS
    <3>1. m \in Nat /\ m # 0 /\ Len(new[i]) = IF i = n THEN m + 1 ELSE Len(out[i])
      BY <2>2, <2>4
    <3>2. Len(out[i]) \in Nat /\ Len(out[i]) > 0
      BY <1>l
    <3> QED
      BY <3>1, <3>2
  <2>h. \A i \in 1..n : 1 \in 1..Len(new[i]) /\ new[i][1] = out[i][1]
    <3> SUFFICES ASSUME NEW i \in 1..n PROVE 1 \in 1..Len(new[i]) /\ new[i][1] = out[i][1]
      OBVIOUS
    <3> QED
      BY <2>4, <2>5
  <2>6. Covers(new, rows \cup {r})
    <3>1. \A i \in 1..n : \A a \in 1..Len(new[i]) : new[i][a] \in rows \cup {r}
      BY <1>f, <2>4 DEF Covers, n
    <3>2. ASSUME NEW q \in rows PROVE \E i \in 1..n : \E a \in 1..Len(new[i]) : new[i][a] = q
      <4>1. PICK i \in 1..n : \E a \in 1..Len(out[i]) : out[i][a] = q
        BY <1>f DEF Covers, n
      <4>2. PICK a \in 1..Len(out[i]) : out[i][a] = q
        BY <4>1
      <4>3. a \in 1..Len(new[i]) /\ ~(i = n /\ a = m + 1)
        BY <1>d, <2>2, <2>4 DEF n
      <4> QED
        BY <2>4, <4>2, <4>3
    <3>3. \E i \in 1..n : \E a \in 1..Len(new[i]) : new[i][a] = r
      <4>1. n \in 1..n /\ m + 1 \in 1..Len(new[n])
        BY <2>2
      <4> QED
        BY <2>2, <4>1
    <3> QED
      BY <2>2, <3>1, <3>2, <3>3 DEF Covers
  <2>7. InOrder(new)
    <3>1. ASSUME NEW i \in 1..n, NEW a \in 1..Len(new[i]), NEW b \in 1..Len(new[i]), a < b
          PROVE  Before(new[i][a], new[i][b])
      <4>1. ~(i = n /\ a = m + 1) /\ a \in 1..Len(out[i]) /\ new[i][a] = out[i][a]
        BY <2>2, <2>4, <3>1
      <4>2. CASE i = n /\ b = m + 1
        BY <1>m, <2>4, <4>1, <4>2 DEF n
      <4>3. CASE ~(i = n /\ b = m + 1)
        BY <1>f, <2>4, <3>1, <4>1, <4>3 DEF InOrder, n
      <4> QED
        BY <4>2, <4>3
    <3>2. ASSUME NEW i \in 1..n, NEW j \in 1..n, i < j, NEW a \in 1..Len(new[i]), NEW b \in 1..Len(new[j])
          PROVE  Before(new[i][a], new[j][b])
      <4>1. i # n /\ a \in 1..Len(out[i]) /\ new[i][a] = out[i][a]
        BY <2>2, <2>4, <3>2
      <4>2. CASE j = n /\ b = m + 1
        BY <1>m, <2>4, <4>1, <4>2 DEF n
      <4>3. CASE ~(j = n /\ b = m + 1)
        BY <1>f, <2>4, <3>2, <4>1, <4>3 DEF InOrder, n
      <4> QED
        BY <4>2, <4>3
    <3> QED
      BY <2>2, <3>1, <3>2 DEF InOrder
  <2>8. Tight(new, epsilon)
    <3> SUFFICES ASSUME NEW i \in 1..n, NEW a \in 1..Len(new[i])
                 PROVE  /\ new[i][a].died - new[i][1].died <= 2 * epsilon
                        /\ a > 1 => new[i][a].died - new[i][a - 1].died <= epsilon
      BY <2>2 DEF Tight
    <3>0. 1 \in 1..Len(new[i]) /\ new[i][1] = out[i][1]
      BY <2>2, <2>h
    <3>1. CASE i = n /\ a = m + 1
      <4>1. m \in 1..Len(new[i]) /\ new[i][a - 1] = out[n][m] /\ new[i][a] = r
        BY <2>2, <2>4, <3>1
      <4> QED
        BY <2>3, <3>0, <3>1, <4>1
    <3>2. CASE ~(i = n /\ a = m + 1)
      <4>1. a \in 1..Len(out[i]) /\ new[i][a] = out[i][a]
        BY <2>4, <3>2
      <4>2. a > 1 => a - 1 \in 1..Len(new[i]) /\ new[i][a - 1] = out[i][a - 1]
        <5> SUFFICES ASSUME a > 1 PROVE a - 1 \in 1..Len(new[i]) /\ new[i][a - 1] = out[i][a - 1]
          OBVIOUS
        <5>1. Len(out[i]) \in Nat /\ Len(new[i]) \in Nat /\ m \in Nat
          BY <1>l, <2>2, <2>4 DEF n
        <5>2. a - 1 \in 1..Len(new[i])
          BY <5>1
        <5>3. ~(i = n /\ a - 1 = m + 1)
          BY <2>4, <4>1, <5>1
        <5> QED
          BY <2>4, <5>2, <5>3
      <4> QED
        BY <1>f, <3>0, <4>1, <4>2 DEF Tight, n
    <3> QED
      BY <3>1, <3>2
  <2>9. CutOff(new, epsilon)
    <3> SUFFICES ASSUME NEW i \in 2..n PROVE ~Joins(new[i - 1], new[i][1], epsilon)
      BY <2>2 DEF CutOff
    <3>1. i \in 1..n /\ i - 1 \in 1..n /\ i - 1 # n
      BY <2>2
    <3>2. new[i - 1] = out[i - 1] /\ new[i][1] = out[i][1]
      BY <2>2, <2>h, <3>1
    <3> QED
      BY <1>f, <3>2 DEF CutOff, n
  <2> QED
    BY <2>2, <2>5, <2>6, <2>7, <2>8, <2>9 DEF Formed, new
(* It does not. *)
<1>2. CASE ~(out # <<>> /\ Joins(Last(out), r, epsilon))
  <2>1. new = Append(out, <<r>>)
    BY <1>2 DEF Swept
  <2>2. /\ new \in Seq(Seq(kills)) /\ Len(new) = n + 1
        /\ \A i \in 1..n : new[i] = out[i]
        /\ Len(new[n + 1]) = 1 /\ new[n + 1][1] = r
    BY <1>d, <2>1, Started
  <2>3. n > 0 => ~Joins(out[n], r, epsilon)
    <3>1. n > 0 => out # <<>>
      BY <1>d
    <3> QED
      BY <1>2, <3>1 DEF Last
  <2> HIDE DEF new, n
  <2>4. \A i \in 1..(n + 1) : i = n + 1 \/ i \in 1..n
    BY <1>d
  <2>5. \A i \in 1..(n + 1) : Len(new[i]) > 0
    <3> SUFFICES ASSUME NEW i \in 1..(n + 1) PROVE Len(new[i]) > 0
      OBVIOUS
    <3>1. CASE i = n + 1
      BY <2>2, <3>1
    <3>2. CASE i \in 1..n
      BY <1>l, <2>2, <3>2
    <3> QED
      BY <2>4, <3>1, <3>2
  <2>6. Covers(new, rows \cup {r})
    <3>1. \A i \in 1..(n + 1) : \A a \in 1..Len(new[i]) : new[i][a] \in rows \cup {r}
      <4> SUFFICES ASSUME NEW i \in 1..(n + 1), NEW a \in 1..Len(new[i]) PROVE new[i][a] \in rows \cup {r}
        OBVIOUS
      <4>1. CASE i = n + 1
        BY <2>2, <4>1
      <4>2. CASE i \in 1..n
        BY <1>f, <2>2, <4>2 DEF Covers, n
      <4> QED
        BY <2>4, <4>1, <4>2
    <3>2. ASSUME NEW q \in rows PROVE \E i \in 1..(n + 1) : \E a \in 1..Len(new[i]) : new[i][a] = q
      <4>1. PICK i \in 1..n : \E a \in 1..Len(out[i]) : out[i][a] = q
        BY <1>f DEF Covers, n
      <4> QED
        BY <1>d, <2>2, <4>1
    <3>3. \E i \in 1..(n + 1) : \E a \in 1..Len(new[i]) : new[i][a] = r
      <4>1. n + 1 \in 1..(n + 1) /\ 1 \in 1..Len(new[n + 1])
        BY <1>d, <2>2
      <4> QED
        BY <2>2, <4>1
    <3>4. Len(new) = n + 1
      BY <2>2
    <3>5. ASSUME NEW q \in rows \cup {r} PROVE \E i \in 1..(n + 1) : \E a \in 1..Len(new[i]) : new[i][a] = q
      <4>1. CASE q \in rows
        BY <3>2, <4>1
      <4>2. CASE q = r
        BY <3>3, <4>2
      <4> QED
        BY <4>1, <4>2
    <3> QED
      BY <3>1, <3>4, <3>5, Zenon DEF Covers
  <2>7. InOrder(new)
    <3>1. ASSUME NEW i \in 1..(n + 1), NEW a \in 1..Len(new[i]), NEW b \in 1..Len(new[i]), a < b
          PROVE  Before(new[i][a], new[i][b])
      <4>1. CASE i = n + 1
        BY <2>2, <3>1, <4>1
      <4>2. CASE i \in 1..n
        BY <1>f, <2>2, <3>1, <4>2 DEF InOrder, n
      <4> QED
        BY <2>4, <4>1, <4>2
    <3>2. ASSUME NEW i \in 1..(n + 1), NEW j \in 1..(n + 1), i < j,
                 NEW a \in 1..Len(new[i]), NEW b \in 1..Len(new[j])
          PROVE  Before(new[i][a], new[j][b])
      <4>1. i \in 1..n
        BY <1>d, <3>2
      <4>2. CASE j = n + 1
        BY <1>m, <2>2, <4>1, <4>2 DEF n
      <4>3. CASE j \in 1..n
        BY <1>f, <2>2, <3>2, <4>1, <4>3 DEF InOrder, n
      <4> QED
        BY <2>4, <4>2, <4>3
    <3> QED
      BY <2>2, <3>1, <3>2 DEF InOrder
  <2>8. Tight(new, epsilon)
    <3> SUFFICES ASSUME NEW i \in 1..(n + 1), NEW a \in 1..Len(new[i])
                 PROVE  /\ new[i][a].died - new[i][1].died <= 2 * epsilon
                        /\ a > 1 => new[i][a].died - new[i][a - 1].died <= epsilon
      BY <2>2 DEF Tight
    <3>1. CASE i = n + 1
      <4>1. a = 1 /\ new[i][1] = r /\ r.died \in Int
        <5>1. Len(new[i]) = 1 /\ new[i][1] = r
          BY <2>2, <3>1
        <5> QED
          BY <1>d, <5>1
      <4> QED
        BY <4>1
    <3>2. CASE i \in 1..n
      BY <1>f, <2>2, <3>2 DEF Tight, n
    <3> QED
      BY <2>4, <3>1, <3>2
  <2>9. CutOff(new, epsilon)
    <3> SUFFICES ASSUME NEW i \in 2..(n + 1) PROVE ~Joins(new[i - 1], new[i][1], epsilon)
      BY <2>2 DEF CutOff
    <3>1. CASE i = n + 1
      <4>1. n \in 1..n /\ n > 0 /\ i - 1 = n
        BY <1>d, <3>1
      <4> QED
        BY <2>2, <2>3, <3>1, <4>1
    <3>2. CASE i \in 2..n
      <4>1. i \in 1..n /\ i - 1 \in 1..n
        BY <1>d, <3>2
      <4> QED
        BY <1>f, <2>2, <3>2, <4>1 DEF CutOff, n
    <3> QED
      BY <1>d, <3>1, <3>2
  <2> QED
    BY <2>2, <2>5, <2>6, <2>7, <2>8, <2>9 DEF Formed, new
<1> QED
  BY <1>1, <1>2

(* The sweep as a function of how far it has come. *)
SweepsUpTo(f, sorted, epsilon, n) ==
    f = [k \in 0..n |-> IF k = 0 THEN <<>> ELSE Swept(f[k - 1], sorted[k], epsilon)]

(* There is one for every length. *)
LEMMA SweepExists ==
    ASSUME NEW sorted, NEW epsilon, NEW m \in Nat
    PROVE  \E f : SweepsUpTo(f, sorted, epsilon, m)
<1> DEFINE S == {n \in Nat : \E f : SweepsUpTo(f, sorted, epsilon, n)}
<1>1. 0 \in S
  <2>1. SweepsUpTo([k \in 0..0 |-> <<>>], sorted, epsilon, 0)
    BY DEF SweepsUpTo
  <2> QED
    BY <2>1
<1>2. ASSUME NEW n \in 1..m, n - 1 \in S PROVE n \in S
  <2>1. PICK f : SweepsUpTo(f, sorted, epsilon, n - 1)
    BY <1>2
  <2> DEFINE g == [k \in 0..n |-> IF k = n THEN Swept(f[n - 1], sorted[n], epsilon) ELSE f[k]]
  <2>2. ASSUME NEW k \in 0..n
        PROVE  g[k] = IF k = 0 THEN <<>> ELSE Swept(g[k - 1], sorted[k], epsilon)
    <3>1. CASE k = n
      <4>1. g[k] = Swept(f[n - 1], sorted[n], epsilon) /\ g[k - 1] = f[n - 1]
        BY <3>1
      <4> QED
        BY <3>1, <4>1
    <3>2. CASE k = 0
      BY <2>1, <3>2 DEF SweepsUpTo
    <3>3. CASE k # n /\ k # 0
      <4>1. k \in 0..(n - 1) /\ k - 1 \in 0..n /\ k - 1 # n
        BY <3>3
      <4>2. f[k] = Swept(f[k - 1], sorted[k], epsilon)
        BY <2>1, <3>3, <4>1 DEF SweepsUpTo
      <4>3. g[k] = f[k] /\ g[k - 1] = f[k - 1]
        BY <3>3, <4>1
      <4> QED
        BY <3>3, <4>2, <4>3
    <3> QED
      BY <3>1, <3>2, <3>3
  <2>3. SweepsUpTo(g, sorted, epsilon, n)
    <3> DEFINE h == [k \in 0..n |-> IF k = 0 THEN <<>> ELSE Swept(g[k - 1], sorted[k], epsilon)]
    <3>1. DOMAIN g = 0..n /\ g = [k \in 0..n |-> g[k]]
      OBVIOUS
    <3>2. \A k \in 0..n : g[k] = h[k]
      BY <2>2
    <3> HIDE DEF g
    <3>3. g = h
      BY <3>1, <3>2
    <3> QED
      BY <3>3 DEF SweepsUpTo
  <2>4. n \in Nat
    OBVIOUS
  <2> QED
    BY <2>3, <2>4
<1> HIDE DEF S
<1>3. \A n \in 0..m : n \in S
  <2>1. \A n \in 1..m : n - 1 \in S => n \in S
    BY <1>2
  <2> QED
    BY <1>1, <2>1, AllUpTo
<1> QED
  BY <1>3 DEF S

(* Cluster comes to the end of the sorted reports that way. *)
LEMMA ClusterIsSwept ==
    ASSUME NEW rows, IsFiniteSet(rows), NEW epsilon
    PROVE  \E f : /\ f[0] = <<>> /\ Cluster(rows, epsilon) = f[Cardinality(rows)]
                  /\ \A k \in 1..Cardinality(rows) : f[k] = Swept(f[k - 1], Sorted(rows)[k], epsilon)
<1> DEFINE n == Cardinality(rows)
           sorted == Sorted(rows)
           upTo == CHOOSE f : f = [k \in 0..n |-> IF k = 0 THEN <<>> ELSE Swept(f[k - 1], sorted[k], epsilon)]
<1>n. n \in Nat
  BY FS_CardinalityType
<1>1. \E f : f = [k \in 0..n |-> IF k = 0 THEN <<>> ELSE Swept(f[k - 1], sorted[k], epsilon)]
  <2> HIDE DEF sorted, n
  <2>1. \E f : SweepsUpTo(f, sorted, epsilon, n)
    BY <1>n, SweepExists
  <2> QED
    BY <2>1 DEF SweepsUpTo
<1>2. Cluster(rows, epsilon) = upTo[n]
  BY DEF Cluster
<1> HIDE DEF n, sorted
<1>3. upTo = [k \in 0..n |-> IF k = 0 THEN <<>> ELSE Swept(upTo[k - 1], sorted[k], epsilon)]
  BY <1>1
<1> HIDE DEF upTo
<1>4. upTo[0] = <<>> /\ \A k \in 1..n : upTo[k] = Swept(upTo[k - 1], sorted[k], epsilon)
  <2>1. 0 \in 0..n /\ \A k \in 1..n : k \in 0..n /\ k # 0
    BY <1>n
  <2> QED
    BY <1>3, <2>1
<1> QED
  BY <1>2, <1>4 DEF n, sorted

(* cluster.go:42-76: the clusters are formed of the reports, all of them. *)
LEMMA ClustersAreFormed ==
    ASSUME NEW rows, Log(rows), NEW epsilon \in Nat
    PROVE  Formed(Cluster(rows, epsilon), rows, rows, epsilon)
<1> DEFINE n == Cardinality(rows)
           sorted == Sorted(rows)
           Passed(k) == {sorted[j] : j \in 1..k}
<1>n. n \in Nat /\ IsFiniteSet(rows)
  BY FS_CardinalityType DEF Log
<1>s. /\ \A i \in 1..n : sorted[i] \in rows
      /\ \A i, j \in 1..n : i < j => Before(sorted[i], sorted[j])
      /\ \A r \in rows : \E i \in 1..n : sorted[i] = r
  BY SortedIs
<1>1. PICK f : /\ f[0] = <<>> /\ Cluster(rows, epsilon) = f[n]
               /\ \A k \in 1..n : f[k] = Swept(f[k - 1], sorted[k], epsilon)
  BY <1>n, ClusterIsSwept
<1> HIDE DEF n, sorted
<1> DEFINE S == {k \in 0..n : Formed(f[k], rows, Passed(k), epsilon)}
<1>2. 0 \in S
  <2>1. Passed(0) = {} /\ f[0] \in Seq(Seq(rows)) /\ Len(f[0]) = 0
    BY <1>1, EmptySeq
  <2> HIDE DEF Passed
  <2>2. Formed(f[0], rows, Passed(0), epsilon)
    BY <2>1 DEF Formed, Covers, InOrder, Tight, CutOff
  <2> QED
    BY <1>n, <2>2
<1>3. ASSUME NEW k \in 1..n, k - 1 \in S PROVE k \in S
  <2>1. Passed(k) = Passed(k - 1) \cup {sorted[k]}
    <3>1. \A j \in 1..k : j = k \/ j \in 1..(k - 1)
      BY <1>n
    <3>2. k \in 1..k /\ \A j \in 1..(k - 1) : j \in 1..k
      BY <1>n
    <3> QED
      BY <3>1, <3>2
  <2>2. Passed(k - 1) \subseteq rows /\ \A q \in Passed(k - 1) : Before(q, sorted[k])
    <3>1. \A j \in 1..(k - 1) : j \in 1..n /\ j < k
      BY <1>n
    <3> QED
      BY <1>s, <3>1
  <2>3. Formed(f[k - 1], rows, Passed(k - 1), epsilon)
    BY <1>3
  <2>4. sorted[k] \in rows /\ f[k] = Swept(f[k - 1], sorted[k], epsilon)
    BY <1>1, <1>s
  <2> HIDE DEF Passed
  <2>5. Formed(f[k], rows, Passed(k), epsilon)
    BY <2>1, <2>2, <2>3, <2>4, SweptKeeps
  <2>6. k \in 0..n
    BY <1>n
  <2> QED
    BY <2>5, <2>6
<1>4. n \in S
  <2> HIDE DEF S
  <2>1. \A k \in 0..n : k \in S
    BY <1>2, <1>3, <1>n, AllUpTo
  <2> QED
    BY <1>n, <2>1
<1>5. Passed(n) = rows
  BY <1>s
<1> QED
  BY <1>1, <1>4, <1>5

(* EpsilonSeconds is never negative (cluster.go:34-36). *)
LEMMA EpsilonIsNat ==
    ASSUME NEW window, window.open \in Int \cup {None}, window.epsilon \in Int \cup {None}
    PROVE  EpsilonSeconds(window) \in Nat
<1>1. CASE window.epsilon # None
  BY <1>1 DEF EpsilonSeconds
<1>2. CASE window.epsilon = None /\ (window.kind = "unknown" \/ window.open = None)
  BY <1>2 DEF EpsilonSeconds, EpsilonDefault
<1>3. CASE window.epsilon = None /\ ~(window.kind = "unknown" \/ window.open = None)
  <2>1. window.open \div 4 \in Int
    BY <1>3
  <2> DEFINE quarter == window.open \div 4
  <2> HIDE DEF quarter
  <2>2. Clamp(quarter, EpsilonFloor, EpsilonCeiling) \in Nat
    BY <2>1 DEF quarter, Clamp, EpsilonFloor, EpsilonCeiling
  <2> QED
    BY <1>3, <2>2 DEF EpsilonSeconds, quarter
<1> QED
  BY <1>1, <1>2, <1>3

-----------------------------------------------------------------------------
(* What the laws need of clusters that are formed: they are runs of reports,
   and each run ends before the next begins.                                *)
LEMMA FormedAre ==
    ASSUME NEW kills, Log(kills), NEW epsilon \in Nat, NEW out, Formed(out, kills, kills, epsilon)
    PROVE  /\ Len(out) \in Nat /\ DOMAIN out = 1..Len(out) /\ (out = <<>> <=> Len(out) = 0)
           /\ \A i \in 1..Len(out) : /\ out[i] \in Seq(kills) /\ DOMAIN out[i] = 1..Len(out[i])
                                     /\ Len(out[i]) \in Nat /\ Len(out[i]) > 0
                                     /\ 1 \in 1..Len(out[i]) /\ Len(out[i]) \in 1..Len(out[i])
           /\ \A i \in 1..Len(out) : \A a \in 1..Len(out[i]) : out[i][a] \in kills /\ out[i][a].died \in Int
           /\ \A i \in 1..Len(out) : \A a, b \in 1..Len(out[i]) : a <= b => out[i][a].died <= out[i][b].died
<1>1. out \in Seq(Seq(kills)) /\ \A i \in 1..Len(out) : Len(out[i]) > 0
  BY DEF Formed
<1>2. Len(out) \in Nat /\ DOMAIN out = 1..Len(out) /\ (out = <<>> <=> Len(out) = 0)
  BY <1>1, LenProperties, EmptySeq
<1>3. \A i \in 1..Len(out) : out[i] \in Seq(kills)
  BY <1>1, ElementOfSeq
<1>4. \A i \in 1..Len(out) : Len(out[i]) \in Nat /\ DOMAIN out[i] = 1..Len(out[i])
  BY <1>3, LenProperties
<1>5. ASSUME NEW i \in 1..Len(out) PROVE 1 \in 1..Len(out[i]) /\ Len(out[i]) \in 1..Len(out[i])
  <2>1. Len(out[i]) \in Nat /\ Len(out[i]) > 0
    BY <1>1, <1>4
  <2> QED
    BY <2>1
<1>6. \A i \in 1..Len(out) : \A a \in 1..Len(out[i]) : out[i][a] \in kills /\ out[i][a].died \in Int
  BY <1>3, ElementOfSeq DEF Log
<1>7. ASSUME NEW i \in 1..Len(out), NEW a \in 1..Len(out[i]), NEW b \in 1..Len(out[i]), a <= b
      PROVE  out[i][a].died <= out[i][b].died
  <2>1. CASE a = b
    BY <1>6, <2>1
  <2>2. CASE a # b
    <3>1. Before(out[i][a], out[i][b])
      BY <1>7, <2>2 DEF Formed, InOrder
    <3> QED
      BY <1>6, <3>1, BeforeIs
  <2> QED
    BY <2>1, <2>2
<1> QED
  BY <1>1, <1>2, <1>3, <1>4, <1>5, <1>6, <1>7

(* A later cluster is later altogether: where the sweep cuts, time has passed. *)
LEMMA Apart ==
    ASSUME NEW kills, Log(kills), NEW epsilon \in Nat, NEW out, Formed(out, kills, kills, epsilon),
           NEW i \in 1..Len(out), NEW j \in 1..Len(out), i < j,
           NEW a \in 1..Len(out[i]), NEW b \in 1..Len(out[j])
    PROVE  out[i][a].died < out[j][b].died
<1> DEFINE h == j - 1
           first == out[j][1]
           last == out[h][Len(out[h])]
<1>1. h \in 1..Len(out) /\ j \in 2..Len(out) /\ i <= h
  BY FormedAre
<1>2. ~Joins(out[h], first, epsilon)
  BY <1>1 DEF Formed, CutOff
<1>3. first.died - last.died > epsilon \/ first.died - out[h][1].died > 2 * epsilon
  <2>1. /\ out[h][1].died \in Int /\ last.died \in Int /\ first.died \in Int
        /\ out[h][1] = Head(out[h])
    BY <1>1, FormedAre
  <2> HIDE DEF first, h
  <2> QED
    BY <1>2, <2>1 DEF Joins, Last
<1>4. last.died - out[h][1].died <= 2 * epsilon /\ last.died <= last.died
  <2>1. Len(out[h]) \in 1..Len(out[h]) /\ last.died \in Int
    BY <1>1, FormedAre
  <2>2. Tight(out, epsilon)
    BY DEF Formed
  <2>3. last.died - out[h][1].died <= 2 * epsilon
    BY <1>1, <2>1, <2>2 DEF Tight
  <2> HIDE DEF last
  <2> QED
    BY <2>1, <2>3
<1>5. first.died > last.died
  <2>1. last.died \in Int /\ first.died \in Int /\ out[h][1].died \in Int
    BY <1>1, FormedAre
  <2> HIDE DEF first, last, h
  <2> QED
    BY <1>3, <1>4, <2>1
<1>6. out[i][a].died <= last.died
  <2>1. CASE i = h
    <3>1. Len(out[h]) \in 1..Len(out[h]) /\ a <= Len(out[h])
      BY <1>1, <2>1, FormedAre
    <3> QED
      BY <1>1, <2>1, <3>1, FormedAre
  <2>2. CASE i # h
    <3>1. i < h /\ Len(out[h]) \in 1..Len(out[h])
      BY <1>1, <2>2, FormedAre
    <3>2. Before(out[i][a], last)
      BY <1>1, <3>1 DEF Formed, InOrder
    <3>3. out[i][a] \in kills /\ last \in kills
      BY <1>1, <3>1, FormedAre
    <3> QED
      BY <3>2, <3>3, BeforeIs
  <2> QED
    BY <2>1, <2>2
<1>7. first.died <= out[j][b].died
  <2>1. 1 \in 1..Len(out[j]) /\ 1 <= b
    BY FormedAre
  <2> QED
    BY <2>1, FormedAre
<1>8. out[i][a].died \in Int /\ last.died \in Int /\ first.died \in Int /\ out[j][b].died \in Int
  BY <1>1, FormedAre
<1> HIDE DEF first, last
<1> QED
  BY <1>5, <1>6, <1>7, <1>8

(* cluster.go:42-76, for any log: runs, as the law says. *)
Runs(clusters, kills, epsilon) ==
    /\ UNION {MembersOf(clusters[i]) : i \in DOMAIN clusters} = kills
    /\ \A i \in DOMAIN clusters : \A r \in MembersOf(clusters[i]) :
          /\ \A q \in MembersOf(clusters[i]) : r.died - q.died <= 2 * epsilon
          /\ \/ r = Head(clusters[i])
             \/ \E q \in MembersOf(clusters[i]) : Before(q, r) /\ r.died - q.died <= epsilon
    /\ \A i \in DOMAIN clusters : i > 1 =>
          LET first == Head(clusters[i])
          IN /\ \A q \in MembersOf(clusters[i - 1]) : Before(q, first)
             /\ \/ \A q \in MembersOf(clusters[i - 1]) : first.died - q.died > epsilon
                \/ \E q \in MembersOf(clusters[i - 1]) : first.died - q.died > 2 * epsilon

(* What Cluster makes of a log is such runs of it, at every epsilon (cluster.go:42-76). *)
THEOREM ClustersAreRuns ==
    ASSUME NEW kills, Log(kills), NEW epsilon \in Nat
    PROVE  Runs(Cluster(kills, epsilon), kills, epsilon)
<1> DEFINE out == Cluster(kills, epsilon)
           n   == Len(out)
<1>f. Formed(out, kills, kills, epsilon)
  BY ClustersAreFormed
<1> HIDE DEF out
<1>1. /\ n \in Nat /\ DOMAIN out = 1..n
      /\ \A i \in 1..n : DOMAIN out[i] = 1..Len(out[i]) /\ Len(out[i]) \in Nat /\ Len(out[i]) > 0
      /\ \A i \in 1..n : 1 \in 1..Len(out[i]) /\ Len(out[i]) \in 1..Len(out[i])
      /\ \A i \in 1..n : \A a \in 1..Len(out[i]) : out[i][a] \in kills /\ out[i][a].died \in Int
  BY <1>f, FormedAre
<1>o. \A i \in 1..n : \A a, b \in 1..Len(out[i]) : a <= b => out[i][a].died <= out[i][b].died
  BY <1>f, FormedAre
<1>h. \A i \in 1..n : Head(out[i]) = out[i][1]
  BY <1>f, FormedAre
<1>m. \A i \in 1..n : MembersOf(out[i]) = {out[i][a] : a \in 1..Len(out[i])}
  BY <1>1 DEF MembersOf
<1>c. Covers(out, kills) /\ InOrder(out) /\ Tight(out, epsilon) /\ CutOff(out, epsilon)
  BY <1>f DEF Formed
<1> HIDE DEF n
<1>2. UNION {MembersOf(out[i]) : i \in 1..n} = kills
  <2>1. \A i \in 1..n : \A r \in MembersOf(out[i]) : r \in kills
    BY <1>1, <1>m
  <2>2. ASSUME NEW r \in kills PROVE \E i \in 1..n : r \in MembersOf(out[i])
    <3>1. PICK i \in 1..n : \E a \in 1..Len(out[i]) : out[i][a] = r
      BY <1>c DEF Covers, n
    <3>2. r \in MembersOf(out[i])
      BY <1>m, <3>1
    <3> QED
      BY <3>2
  <2> QED
    BY <2>1, <2>2
<1>3. ASSUME NEW i \in 1..n, NEW r \in MembersOf(out[i]), NEW q \in MembersOf(out[i])
      PROVE  r.died - q.died <= 2 * epsilon
  <2>1. PICK a \in 1..Len(out[i]) : r = out[i][a]
    BY <1>m, <1>3
  <2>2. PICK b \in 1..Len(out[i]) : q = out[i][b]
    BY <1>m, <1>3
  <2>3. out[i][a].died - out[i][1].died <= 2 * epsilon
    BY <1>c DEF Tight, n
  <2>4. out[i][1].died <= out[i][b].died
    BY <1>1, <1>o
  <2>5. out[i][1].died \in Int /\ out[i][a].died \in Int /\ out[i][b].died \in Int
    BY <1>1
  <2> QED
    BY <2>1, <2>2, <2>3, <2>4, <2>5
<1>4. ASSUME NEW i \in 1..n, NEW r \in MembersOf(out[i]), r # Head(out[i])
      PROVE  \E q \in MembersOf(out[i]) : Before(q, r) /\ r.died - q.died <= epsilon
  <2>1. PICK a \in 1..Len(out[i]) : r = out[i][a]
    BY <1>m, <1>4
  <2>2. a # 1
    BY <1>4, <1>h, <2>1
  <2>3. a - 1 \in 1..Len(out[i]) /\ a - 1 < a /\ a > 1
    BY <1>1, <2>2
  <2>4. Before(out[i][a - 1], r) /\ r.died - out[i][a - 1].died <= epsilon
    BY <1>c, <2>1, <2>3 DEF InOrder, Tight, n
  <2>5. out[i][a - 1] \in MembersOf(out[i])
    BY <1>m, <2>3
  <2> QED
    BY <2>4, <2>5
<1>5. ASSUME NEW i \in 1..n, i > 1
      PROVE  /\ \A q \in MembersOf(out[i - 1]) : Before(q, Head(out[i]))
             /\ \/ \A q \in MembersOf(out[i - 1]) : Head(out[i]).died - q.died > epsilon
                \/ \E q \in MembersOf(out[i - 1]) : Head(out[i]).died - q.died > 2 * epsilon
  <2> DEFINE h == i - 1
             first == Head(out[i])
             last == out[h][Len(out[h])]
  <2>1. h \in 1..n /\ h < i /\ i \in 2..n /\ first = out[i][1] /\ Head(out[h]) = out[h][1]
    BY <1>1, <1>5, <1>h
  <2>2. first.died \in Int /\ last.died \in Int /\ out[h][1].died \in Int
    BY <1>1, <2>1
  <2>3. ASSUME NEW q \in MembersOf(out[h]) PROVE Before(q, first) /\ q.died \in Int /\ q.died <= last.died
    <3>1. PICK a \in 1..Len(out[h]) : q = out[h][a]
      BY <1>m, <2>1, <2>3
    <3>2. Before(q, first)
      BY <1>1, <1>c, <2>1, <3>1 DEF InOrder, n
    <3>3. Len(out[h]) \in 1..Len(out[h]) /\ a <= Len(out[h])
      BY <1>1, <2>1
    <3> QED
      BY <1>1, <1>o, <2>1, <3>1, <3>2, <3>3
  <2>4. ~Joins(out[h], first, epsilon)
    BY <1>c, <2>1 DEF CutOff, n
  <2>5. out[h][1] \in MembersOf(out[h])
    BY <1>1, <1>m, <2>1
  <2> HIDE DEF h, first
  <2>6. first.died - last.died > epsilon \/ first.died - out[h][1].died > 2 * epsilon
    BY <2>1, <2>2, <2>4 DEF Joins, Last
  <2>7. CASE first.died - out[h][1].died > 2 * epsilon
    BY <2>3, <2>5, <2>7 DEF h, first
  <2>8. CASE first.died - last.died > epsilon
    <3>1. \A q \in MembersOf(out[h]) : first.died - q.died > epsilon
      <4> HIDE DEF last
      <4> QED
        BY <2>2, <2>3, <2>8
    <3> QED
      BY <2>3, <3>1 DEF h, first
  <2> QED
    BY <2>6, <2>7, <2>8
<1> QED
  BY <1>1, <1>2, <1>3, <1>4, <1>5 DEF Runs, out

-----------------------------------------------------------------------------
(* The estimate. *)

(* The reports at some places of a cluster. *)
Of(c, places) == {c[a] : a \in places}

(* To pick places in a cluster without repeats is to pick as many reports. *)
LEMMA AsManyReports ==
    ASSUME NEW n \in Nat, NEW places, places \subseteq 1..n, NEW c,
           \A a, b \in 1..n : c[a] = c[b] => a = b
    PROVE  /\ IsFiniteSet(places) /\ Cardinality(places) \in Nat
           /\ IsFiniteSet(Of(c, places))
           /\ Cardinality(Of(c, places)) = Cardinality(places)
<1> DEFINE f == [a \in places |-> c[a]]
           image == Of(c, places)
<1>1. IsFiniteSet(places) /\ Cardinality(places) \in Nat
  <2>1. IsFiniteSet(1..n) /\ places \in SUBSET (1..n)
    BY FS_Interval
  <2> QED
    BY <2>1, FS_Subset, FS_CardinalityType
<1>2. f \in Bijection(places, image)
  <2>1. f \in [places -> image]
    BY DEF Of
  <2>2. \A a, b \in places : f[a] = f[b] => a = b
    OBVIOUS
  <2>3. \A r \in image : \E a \in places : f[a] = r
    BY DEF Of
  <2> HIDE DEF f, image
  <2> QED
    BY <2>1, <2>2, <2>3 DEF Bijection, Injection, Surjection, IsInjective
<1>3. IsFiniteSet(image) /\ Cardinality(image) = Cardinality(places)
  <2>1. ExistsBijection(places, image)
    BY <1>2 DEF ExistsBijection
  <2> QED
    BY <1>1, <2>1, FS_Bijection
<1> QED
  BY <1>1, <1>3

(* The place of the lower middle is among the estimators. *)
LEMMA MiddleIs ==
    ASSUME NEW S, NEW c \in Seq(S), Len(c) > 0
    PROVE  LET voting == Estimators(c)
               middle == (Cardinality(voting) + 1) \div 2
           IN /\ voting \subseteq 1..Len(c) /\ IsFiniteSet(voting)
              /\ Cardinality(voting) \in Nat /\ middle \in Nat
              /\ 2 * middle <= Cardinality(voting) + 1 /\ Cardinality(voting) <= 2 * middle
              /\ Place(voting, middle) \in voting
              /\ Cardinality({j \in voting : j <= Place(voting, middle)}) = middle
              /\ Estimate(c) = c[Place(voting, middle)].died
<1> DEFINE voting == Estimators(c)
           n == Cardinality(voting)
           middle == (n + 1) \div 2
<1>1. Len(c) \in Nat /\ DOMAIN c = 1..Len(c) /\ 1 \in 1..Len(c)
  BY LenProperties
<1>2. voting \subseteq 1..Len(c) /\ voting # {}
  BY <1>1 DEF Estimators, Lines
<1>3. IsFiniteSet(voting) /\ n \in Nat /\ n # 0
  <2>1. IsFiniteSet(1..Len(c)) /\ voting \in SUBSET (1..Len(c))
    BY <1>1, <1>2, FS_Interval
  <2>2. IsFiniteSet(voting)
    BY <2>1, FS_Subset
  <2> QED
    BY <1>2, <2>2, FS_CardinalityType, FS_EmptySet
<1>4. middle \in 1..n /\ middle \in Nat /\ 2 * middle <= n + 1 /\ n <= 2 * middle
  <2> HIDE DEF n
  <2> QED
    BY <1>3
<1>5. Estimate(c) = c[Place(voting, middle)].died
  BY DEF Estimate
<1> HIDE DEF voting, middle
<1>6. Place(voting, middle) \in voting /\ Cardinality({j \in voting : j <= Place(voting, middle)}) = middle
  BY <1>1, <1>2, <1>4, PlaceIs
<1> QED
  BY <1>2, <1>3, <1>4, <1>5, <1>6 DEF voting, middle

(* The lower median, said of the reports and not of their places. *)
LowerMedian(c) ==
    LET members  == MembersOf(c)
        lines    == {r \in members : LogLine(r)}
        voting   == IF lines # {} THEN lines ELSE members
        Median(d) == /\ 2 * Cardinality({r \in voting : r.died < d}) <= Cardinality(voting)
                     /\ 2 * Cardinality({r \in voting : r.died > d}) <= Cardinality(voting)
        medians == {r.died : r \in {x \in voting : Median(x.died)}}
    IN Estimate(c) \in medians /\ \A d \in medians : Estimate(c) <= d

(* cluster.go:78-101, for any cluster in order. *)
THEOREM EstimateIsTheLowerMedian ==
    ASSUME NEW kills, Log(kills), NEW c \in Seq(kills), Len(c) > 0,
           \A a, b \in 1..Len(c) : a < b => Before(c[a], c[b])
    PROVE  LowerMedian(c)
<1> DEFINE L        == Len(c)
           E        == Estimators(c)
           n        == Cardinality(E)
           m        == (n + 1) \div 2
           p        == Place(E, m)
           d        == c[p].died
           members  == MembersOf(c)
           lines    == {r \in members : LogLine(r)}
           voting   == IF lines # {} THEN lines ELSE members
           Earlier(e) == {r \in voting : r.died < e}
           Later(e)   == {r \in voting : r.died > e}
           medians == {r.died : r \in {x \in voting : /\ 2 * Cardinality(Earlier(x.died)) <= Cardinality(voting)
                                                      /\ 2 * Cardinality(Later(x.died)) <= Cardinality(voting)}}
<1>1. L \in Nat /\ DOMAIN c = 1..L /\ \A a \in 1..L : c[a] \in kills /\ c[a].died \in Int
  BY LenProperties, ElementOfSeq DEF Log
<1>2. \A a, b \in 1..L : a <= b => c[a].died <= c[b].died
  <2> SUFFICES ASSUME NEW a \in 1..L, NEW b \in 1..L, a <= b PROVE c[a].died <= c[b].died
    OBVIOUS
  <2>1. CASE a = b
    BY <1>1, <2>1
  <2>2. CASE a # b
    BY <1>1, <2>2, BeforeIs
  <2> QED
    BY <2>1, <2>2
<1>3. \A a, b \in 1..L : c[a] = c[b] => a = b
  <2> SUFFICES ASSUME NEW a \in 1..L, NEW b \in 1..L, c[a] = c[b], a # b PROVE FALSE
    OBVIOUS
  <2>1. a < b \/ b < a
    BY <1>1
  <2> QED
    BY <1>1, <2>1, BeforeIs
<1>4. /\ E \subseteq 1..L /\ IsFiniteSet(E) /\ n \in Nat /\ m \in Nat
      /\ 2 * m <= n + 1 /\ n <= 2 * m
      /\ p \in E /\ Cardinality({j \in E : j <= p}) = m /\ Estimate(c) = d
  BY MiddleIs
<1>5. voting = Of(c, E)
  <2>1. members = {c[a] : a \in 1..L}
    BY <1>1 DEF MembersOf
  <2>2. Lines(c) = {a \in 1..L : LogLine(c[a])}
    BY <1>1 DEF Lines
  <2>3. lines = Of(c, Lines(c))
    BY <2>1, <2>2 DEF Of
  <2>4. lines # {} <=> Lines(c) # {}
    BY <2>3 DEF Of
  <2>5. E = IF Lines(c) # {} THEN Lines(c) ELSE 1..L
    BY <1>1 DEF Estimators
  <2> QED
    BY <2>1, <2>3, <2>4, <2>5 DEF Of
<1>6. \A P \in SUBSET E : /\ IsFiniteSet(P) /\ Cardinality(P) \in Nat
                          /\ IsFiniteSet(Of(c, P)) /\ Cardinality(Of(c, P)) = Cardinality(P)
  <2> SUFFICES ASSUME NEW P \in SUBSET E
               PROVE  /\ IsFiniteSet(P) /\ Cardinality(P) \in Nat
                      /\ IsFiniteSet(Of(c, P)) /\ Cardinality(Of(c, P)) = Cardinality(P)
    OBVIOUS
  <2>1. P \subseteq 1..L
    BY <1>4
  <2> HIDE DEF L, E
  <2> QED
    BY <1>1, <1>3, <2>1, AsManyReports
<1>e. \A a \in E : a \in 1..L /\ a \in Int /\ c[a].died \in Int
  BY <1>1, <1>4
<1> DEFINE To == {j \in E : j <= p}
           From == {j \in E : j >= p}
<1>7. Cardinality(To) = m /\ IsFiniteSet(To)
  BY <1>4, <1>6
<1>8. Cardinality(From) = n - m + 1 /\ IsFiniteSet(From)
  <2>1. From = (E \ To) \cup {p} /\ p \notin E \ To
    BY <1>4, <1>e
  <2>2. E \cap To = To
    OBVIOUS
  <2>3. IsFiniteSet(E \ To) /\ Cardinality(E \ To) = Cardinality(E) - Cardinality(To)
    <3>1. IsFiniteSet(E)
      BY <1>4
    <3> HIDE DEF E, To
    <3> QED
      BY <2>2, <3>1, FS_Difference
  <2>4. Cardinality(E \ To) = n - m
    BY <1>7, <2>3
  <2>5. n - m \in Int /\ IsFiniteSet(E \ To)
    BY <1>4, <2>3
  <2> HIDE DEF From, To, E, n, m, p
  <2> QED
    BY <2>1, <2>4, <2>5, FS_AddElement
<1>9. Cardinality(voting) = n
  BY <1>5, <1>6
<1> HIDE DEF L, E, n, m, p, voting, lines, members, To, From
<1>10. d \in Int /\ c[p] \in voting
  BY <1>4, <1>5, <1>e DEF Of
(* At most half are earlier. *)
<1>11. 2 * Cardinality(Earlier(d)) <= n
  <2> DEFINE A == {a \in E : c[a].died < d}
  <2>1. Earlier(d) = Of(c, A)
    BY <1>5 DEF Of
  <2>2. A \subseteq To \ {p}
    <3> SUFFICES ASSUME NEW a \in E, c[a].died < d PROVE a \in To /\ a # p
      BY DEF To
    <3>1. a # p
      BY <1>10, <1>e
    <3>2. ~(p <= a)
      BY <1>2, <1>4, <1>e, <1>10
    <3> QED
      BY <1>4, <1>e, <3>1, <3>2 DEF To
  <2>3. p \in To
    BY <1>4, <1>e DEF To
  <2>4. IsFiniteSet(To \ {p}) /\ Cardinality(To \ {p}) = m - 1
    BY <1>7, <2>3, FS_RemoveElement
  <2>5. A \in SUBSET E /\ A \in SUBSET (To \ {p})
    BY <2>2
  <2>6. Cardinality(A) \in Nat /\ Cardinality(Of(c, A)) = Cardinality(A)
    BY <1>6, <2>5
  <2>7. Cardinality(A) <= m - 1
    <3> HIDE DEF A
    <3> QED
      BY <2>4, <2>5, FS_Subset
  <2>8. Cardinality(Earlier(d)) = Cardinality(A)
    BY <2>1, <2>6
  <2> HIDE DEF A, Earlier
  <2> QED
    BY <1>4, <2>6, <2>7, <2>8
(* At most half are later. *)
<1>12. 2 * Cardinality(Later(d)) <= n
  <2> DEFINE A == {a \in E : c[a].died > d}
  <2>1. Later(d) = Of(c, A)
    BY <1>5 DEF Of
  <2>2. A \subseteq From \ {p}
    <3> SUFFICES ASSUME NEW a \in E, c[a].died > d PROVE a \in From /\ a # p
      BY DEF From
    <3>1. a # p
      BY <1>10, <1>e
    <3>2. ~(a <= p)
      BY <1>2, <1>4, <1>e, <1>10
    <3> QED
      BY <1>4, <1>e, <3>1, <3>2 DEF From
  <2>3. p \in From
    BY <1>4, <1>e DEF From
  <2>4. IsFiniteSet(From \ {p}) /\ Cardinality(From \ {p}) = Cardinality(From) - 1
    BY <1>8, <2>3, FS_RemoveElement
  <2>5. A \in SUBSET E /\ A \in SUBSET (From \ {p})
    BY <2>2
  <2>6. Cardinality(A) \in Nat /\ Cardinality(Of(c, A)) = Cardinality(A)
    BY <1>6, <2>5
  <2>7. Cardinality(A) <= Cardinality(From) - 1
    <3> HIDE DEF A
    <3> QED
      BY <2>4, <2>5, FS_Subset
  <2>8. Cardinality(Later(d)) = Cardinality(A)
    BY <2>1, <2>6
  <2> HIDE DEF A, Later
  <2> QED
    BY <1>4, <1>8, <2>6, <2>7, <2>8
<1>13. d \in medians
  BY <1>9, <1>10, <1>11, <1>12
(* No earlier one is a median. *)
<1>14. ASSUME NEW e \in medians PROVE d <= e
  <2>1. PICK x \in voting : e = x.died /\ 2 * Cardinality(Later(x.died)) <= n
    BY <1>9, <1>14
  <2>2. e \in Int
    BY <1>5, <1>e, <2>1 DEF Of
  <2>3. SUFFICES ASSUME e < d PROVE FALSE
    BY <1>10, <2>2
  <2>4. Of(c, From) \subseteq Later(e)
    <3> SUFFICES ASSUME NEW a \in From PROVE c[a] \in voting /\ c[a].died > e
      BY DEF Of
    <3>1. a \in E /\ p <= a
      BY <1>4, <1>e DEF From
    <3>2. c[a].died >= d
      BY <1>2, <1>4, <1>e, <1>10, <3>1
    <3>3. c[a] \in voting /\ c[a].died \in Int
      BY <1>5, <1>e, <3>1 DEF Of
    <3> QED
      BY <1>10, <2>2, <2>3, <3>2, <3>3
  <2>5. IsFiniteSet(Later(e)) /\ Cardinality(Later(e)) \in Nat
    <3>1. IsFiniteSet(voting) /\ Later(e) \in SUBSET voting
      BY <1>5, <1>6
    <3> QED
      BY <3>1, FS_Subset, FS_CardinalityType
  <2>6. Cardinality(Of(c, From)) = n - m + 1 /\ Cardinality(Of(c, From)) \in Nat
    <3>1. From \in SUBSET E
      BY DEF From
    <3> QED
      BY <1>6, <1>8, <3>1
  <2>7. Cardinality(Of(c, From)) <= Cardinality(Later(e))
    BY <2>4, <2>5, FS_Subset
  <2> HIDE DEF Of, Later
  <2> QED
    BY <1>4, <2>1, <2>5, <2>6, <2>7
<1> QED
  BY <1>4, <1>13, <1>14 DEF LowerMedian, voting, lines, members

-----------------------------------------------------------------------------
(* The invariant: the log holds kills and retractions with ids of their own,
   and the rest is instants, or None where the code keeps a nil.            *)
Recorded(rows) ==
    /\ IsFiniteSet(rows)
    /\ \A r \in rows : /\ r.id \in 1..Cardinality(rows) /\ r.died \in Int
                       /\ r.kind \in {"kill", "retraction"}
                       /\ r.kind = "kill" => r.retracts = None
    /\ \A q, r \in rows : q.id = r.id => q = r

IInv ==
    /\ Recorded(reports)
    /\ IsFiniteSet(quakes) /\ quakes \subseteq Int
    /\ Timed(timer) /\ now \in Int /\ minimum \in Int

(* A row with the next id is recorded beside the others. *)
LEMMA RecordedGrows ==
    ASSUME Recorded(reports),
           NEW r, r.id = NextId, r.died \in Int, r.kind \in {"kill", "retraction"},
           r.kind = "kill" => r.retracts = None
    PROVE  Recorded(reports \cup {r})
<1>1. IsFiniteSet(reports) /\ Cardinality(reports) \in Nat
  BY FS_CardinalityType DEF Recorded
<1>2. \A q \in reports : q.id \in 1..Cardinality(reports) /\ q.id # r.id
  BY <1>1 DEF Recorded, NextId
<1>3. IsFiniteSet(reports \cup {r}) /\ Cardinality(reports \cup {r}) = Cardinality(reports) + 1
  BY <1>1, <1>2, FS_AddElement
<1>4. \A q \in reports \cup {r} : q.id \in 1..Cardinality(reports \cup {r})
  BY <1>1, <1>2, <1>3 DEF NextId
<1> QED
  BY <1>2, <1>3, <1>4 DEF Recorded

(* The invariant holds to begin with ... *)
LEMMA InvariantAtFirst == Init => IInv
<1> SUFFICES ASSUME Init PROVE IInv
  OBVIOUS
<1>1. Recorded(reports)
  BY FS_EmptySet DEF Init, Recorded
<1>2. IsFiniteSet(quakes) /\ quakes \subseteq Int
  BY FS_EmptySet DEF Init
<1>3. Timed(timer)
  BY MCConsensusAssumption DEF Init
<1>4. now \in Int
  <2> DEFINE least == {n \in Clock : \A m \in Clock : n <= m}
  <2>0. \A n \in Clock : n \in Int
    BY MCConsensusAssumption
  <2>1. PICK first \in Clock : \A n \in Clock : first <= n
    BY MCConsensusAssumption
  <2>2. least = {first}
    BY <2>0, <2>1
  <2>3. Latest(least) = first
    BY <2>0, <2>1, <2>2 DEF Latest
  <2> QED
    BY <2>0, <2>3 DEF Init
<1>5. minimum \in Int
  BY MCConsensusAssumption DEF Init
<1> QED
  BY <1>1, <1>2, <1>3, <1>4, <1>5 DEF IInv

(* ... and every step keeps it. *)
LEMMA InvariantKept == IInv /\ [Next]_vars => IInv'
<1> SUFFICES ASSUME IInv, [Next]_vars PROVE IInv'
  OBVIOUS
<1> USE DEF IInv
<1>1. CASE Append1
  <2>1. ASSUME NEW died \in Deaths, NEW voice \in Voices, AddKill(died, voice) PROVE Recorded(reports')
    <3> DEFINE r == [id |-> NextId, kind |-> "kill", reporter |-> voice[1], source |-> voice[2],
                     died |-> died, retracts |-> None]
    <3>1. reports' = reports \cup {r}
      BY <2>1 DEF AddKill
    <3>2. r.id = NextId /\ r.died \in Int /\ r.kind = "kill" /\ r.retracts = None
      BY MCConsensusAssumption
    <3> HIDE DEF r
    <3> QED
      BY <3>1, <3>2, RecordedGrows
  <2>2. ASSUME NEW q \in reports, AddRetraction(q) PROVE Recorded(reports')
    <3> DEFINE r == [id |-> NextId, kind |-> "retraction", reporter |-> q.reporter, source |-> "api",
                     died |-> q.died, retracts |-> q.id]
    <3>1. reports' = reports \cup {r}
      BY <2>2 DEF AddRetraction
    <3>2. r.id = NextId /\ r.died \in Int /\ r.kind = "retraction"
      BY DEF Recorded
    <3> HIDE DEF r
    <3> QED
      BY <3>1, <3>2, RecordedGrows
  <2> QED
    BY <1>1, <2>1, <2>2 DEF Append1, Timed
<1>2. CASE AddQuake
  <2>1. PICK q \in QuakeTimes : quakes' = quakes \cup {q}
    BY <1>2 DEF AddQuake
  <2>2. IsFiniteSet(quakes') /\ quakes' \subseteq Int
    BY <2>1, FS_AddElement, MCConsensusAssumption
  <2> QED
    BY <1>2, <2>2 DEF AddQuake, Timed
<1>3. CASE Tick
  BY <1>3, MCConsensusAssumption DEF Tick, Timed
<1>4. CASE UNCHANGED vars
  BY <1>4 DEF vars, Timed
<1> QED
  BY <1>1, <1>2, <1>3, <1>4 DEF Next

(* Every log MCConsensus grows is a log the laws below speak of. *)
THEOREM InvariantHolds == Spec => []IInv
<1>1. Init => IInv
  BY InvariantAtFirst
<1>2. IInv /\ [Next]_vars => IInv'
  BY InvariantKept
<1> QED
  BY <1>1, <1>2, PTL DEF Spec

-----------------------------------------------------------------------------
(* What the laws have to start from: the standing kills are a log, and the clusters formed of it. *)
LEMMA StandingIs ==
    ASSUME IInv
    PROVE  /\ Log(FoldRetractions(reports)) /\ Log(Standing)
           /\ Standing \subseteq FoldRetractions(reports)
           /\ EpsilonSeconds(timer) \in Nat
           /\ Formed(Clusters, Standing, Standing, EpsilonSeconds(timer))
<1>1. FoldRetractions(reports) \subseteq reports
  BY DEF FoldRetractions
<1>2. Standing \subseteq FoldRetractions(reports)
  BY DEF Standing, TruncateAtQuake
<1>3. ASSUME NEW some, some \subseteq reports PROVE Log(some)
  <2>1. IsFiniteSet(some)
    BY <1>3, FS_Subset DEF IInv, Recorded
  <2> QED
    BY <1>3, <2>1 DEF IInv, Recorded, Log
<1>4. Log(FoldRetractions(reports)) /\ Log(Standing)
  BY <1>1, <1>2, <1>3
<1>5. EpsilonSeconds(timer) \in Nat
  BY EpsilonIsNat DEF IInv, Timed
<1>6. Formed(Clusters, Standing, Standing, EpsilonSeconds(timer))
  BY <1>4, <1>5, ClustersAreFormed DEF Clusters
<1> QED
  BY <1>2, <1>4, <1>5, <1>6

(* No cut through a standing kill's run is missing, and none is too many. *)
LEMMA ClusterStep == IInv => ClusterLaw
<1> SUFFICES ASSUME IInv PROVE ClusterLaw
  OBVIOUS
<1> DEFINE clusters == Clusters
           epsilon  == EpsilonSeconds(timer)
           members  == [i \in DOMAIN clusters |-> MembersOf(clusters[i])]
<1>1. Runs(clusters, Standing, epsilon)
  BY StandingIs, ClustersAreRuns DEF Clusters
<1> HIDE DEF clusters, epsilon
<1>2. \A i \in DOMAIN clusters : members[i] = MembersOf(clusters[i])
  OBVIOUS
<1>3. {members[i] : i \in DOMAIN clusters} = {MembersOf(clusters[i]) : i \in DOMAIN clusters}
  BY <1>2
<1>4. \A i \in DOMAIN clusters : i > 1 => members[i - 1] = MembersOf(clusters[i - 1])
  <2>1. DOMAIN clusters = 1..Len(clusters) /\ Len(clusters) \in Nat
    BY StandingIs, FormedAre DEF clusters
  <2> QED
    BY <1>2, <2>1
<1> HIDE DEF members
<1>5. /\ UNION {members[i] : i \in DOMAIN clusters} = Standing
      /\ \A i \in DOMAIN clusters : \A r \in members[i] :
            /\ \A q \in members[i] : r.died - q.died <= 2 * epsilon
            /\ \/ r = Head(clusters[i])
               \/ \E q \in members[i] : Before(q, r) /\ r.died - q.died <= epsilon
  BY <1>1, <1>2, <1>3 DEF Runs
<1>6. \A i \in DOMAIN clusters : i > 1 =>
          LET first == Head(clusters[i])
          IN /\ \A q \in members[i - 1] : Before(q, first)
             /\ \/ \A q \in members[i - 1] : first.died - q.died > epsilon
                \/ \E q \in members[i - 1] : first.died - q.died > 2 * epsilon
  BY <1>1, <1>4 DEF Runs
<1> QED
  BY <1>5, <1>6 DEF ClusterLaw, clusters, epsilon, members

(* Every log's clusters are its standing kills cut into runs: none wider than twice epsilon, none
   with a gap wider than epsilon, and no cut where the next kill could still have joined
   (cluster.go:42-76). *)
THEOREM ClustersCutTheLog == Spec => []ClusterLaw
BY InvariantHolds, ClusterStep, PTL

(* Every cluster's estimate is its lower median. *)
LEMMA EstimateStep == IInv => EstimateLaw
<1> SUFFICES ASSUME IInv PROVE EstimateLaw
  OBVIOUS
<1> DEFINE out == Clusters
<1>1. Log(Standing) /\ Formed(out, Standing, Standing, EpsilonSeconds(timer)) /\ EpsilonSeconds(timer) \in Nat
  BY StandingIs
<1> HIDE DEF out
<1>2. \A i \in DOMAIN out : LowerMedian(out[i])
  <2> SUFFICES ASSUME NEW i \in DOMAIN out PROVE LowerMedian(out[i])
    OBVIOUS
  <2>1. i \in 1..Len(out) /\ out[i] \in Seq(Standing) /\ Len(out[i]) > 0
    BY <1>1, FormedAre
  <2>2. \A a, b \in 1..Len(out[i]) : a < b => Before(out[i][a], out[i][b])
    BY <1>1, <2>1 DEF Formed, InOrder
  <2> QED
    BY <1>1, <2>1, <2>2, EstimateIsTheLowerMedian
<1> QED
  BY <1>2 DEF EstimateLaw, LowerMedian, out

(* Whatever the log, the instant a cluster is given is the least that splits its estimators evenly,
   and log lines alone estimate where there are any (cluster.go:78-101). *)
THEOREM EstimatesAreMedians == Spec => []EstimateLaw
BY InvariantHolds, EstimateStep, PTL

-----------------------------------------------------------------------------
(* Withdrawal. *)

(* A kill nobody withdrew is what folding keeps, and folding it again changes nothing. *)
LEMMA FoldingIs ==
    ASSUME NEW rows, Recorded(rows)
    PROVE  LET kept == {r \in rows : r.kind = "kill" /\ \A x \in rows : x.retracts # r.id}
           IN FoldRetractions(rows) = kept /\ FoldRetractions(kept) = kept
<1> DEFINE kept == {r \in rows : r.kind = "kill" /\ \A x \in rows : x.retracts # r.id}
           others == {r.id : r \in {x \in rows : x.kind # "kill"}}
           retracted == {r.retracts : r \in {x \in rows : x.kind = "retraction"}} \ (others \cup {None})
<1>1. \A r \in rows : r.id # None /\ (r.kind = "kill" \/ r.kind = "retraction")
  BY NoneIsNoValue DEF Recorded
<1>2. ASSUME NEW k \in rows, k.kind = "kill" PROVE k.id \in retracted <=> \E x \in rows : x.retracts = k.id
  <2>1. k.id \notin others
    BY <1>2 DEF Recorded
  <2>2. \A x \in rows : x.retracts = k.id => x.kind = "retraction"
    BY <1>1, <1>2 DEF Recorded
  <2> QED
    BY <1>1, <2>1, <2>2
<1>3. FoldRetractions(rows) = {k \in rows : k.kind = "kill" /\ k.id \notin retracted}
  BY DEF FoldRetractions
<1>4. FoldRetractions(rows) = kept
  <2> HIDE DEF retracted
  <2> QED
    BY <1>2, <1>3
<1>5. FoldRetractions(kept) = kept
  <2>1. {x \in kept : x.kind = "retraction"} = {}
    OBVIOUS
  <2>2. FoldRetractions(kept) = {k \in kept : k.kind = "kill"}
    BY <2>1 DEF FoldRetractions
  <2> QED
    BY <2>2
<1> QED
  BY <1>4, <1>5

(* What is withdrawn is out of the answer. *)
LEMMA WithdrawnStep == IInv => WithdrawnLeavesNoTrace
<1> SUFFICES ASSUME IInv PROVE WithdrawnLeavesNoTrace
  OBVIOUS
<1> DEFINE kept == {r \in reports : r.kind = "kill" /\ \A x \in reports : x.retracts # r.id}
<1>1. FoldRetractions(reports) = FoldRetractions(kept)
  BY FoldingIs DEF IInv
<1> HIDE DEF kept
<1>2. State = Derive(kept, quakes, timer, now, minimum, {})
  BY <1>1 DEF State, Derive
<1> QED
  BY <1>2 DEF WithdrawnLeavesNoTrace, kept

(* From every log the answer is that of the log without the withdrawn kills and without the
   retractions, and no retraction of a retraction brings a kill back (derive.go:67-98). *)
THEOREM NoTrace == Spec => []WithdrawnLeavesNoTrace
BY InvariantHolds, WithdrawnStep, PTL

-----------------------------------------------------------------------------
(* Choosing among clusters.  An estimate is the died of a member, and estimates rise. *)
LEMMA EstimatesRise ==
    ASSUME NEW kills, Log(kills), NEW epsilon \in Nat, NEW out, Formed(out, kills, kills, epsilon)
    PROVE  /\ \A i \in 1..Len(out) : \E a \in 1..Len(out[i]) : Estimate(out[i]) = out[i][a].died
           /\ \A i \in 1..Len(out) : Estimate(out[i]) \in Int
           /\ \A i, j \in 1..Len(out) : i < j => Estimate(out[i]) < Estimate(out[j])
<1>1. ASSUME NEW i \in 1..Len(out) PROVE \E a \in 1..Len(out[i]) : Estimate(out[i]) = out[i][a].died
  <2>1. out[i] \in Seq(kills) /\ Len(out[i]) > 0
    BY FormedAre
  <2> DEFINE p == Place(Estimators(out[i]), (Cardinality(Estimators(out[i])) + 1) \div 2)
  <2>2. p \in 1..Len(out[i]) /\ Estimate(out[i]) = out[i][p].died
    BY <2>1, MiddleIs
  <2> QED
    BY <2>2
<1>2. \A i \in 1..Len(out) : Estimate(out[i]) \in Int
  BY <1>1, FormedAre
<1>3. ASSUME NEW i \in 1..Len(out), NEW j \in 1..Len(out), i < j
      PROVE  Estimate(out[i]) < Estimate(out[j])
  <2>1. PICK a \in 1..Len(out[i]) : Estimate(out[i]) = out[i][a].died
    BY <1>1
  <2>2. PICK b \in 1..Len(out[j]) : Estimate(out[j]) = out[j][b].died
    BY <1>1
  <2> QED
    BY <1>3, <2>1, <2>2, Apart
<1> QED
  BY <1>1, <1>2, <1>3

(* The people behind a cluster are finitely many. *)
LEMMA ReportersAre ==
    ASSUME NEW S, NEW c \in Seq(S)
    PROVE  /\ IsFiniteSet(Reporters(c)) /\ DistinctReporters(c) \in Nat
           /\ Len(c) > 0 => DistinctReporters(c) # 0
<1>1. Len(c) \in Nat /\ DOMAIN c = 1..Len(c)
  BY LenProperties
<1>2. IsFiniteSet(1..Len(c))
  BY <1>1, FS_Interval
<1>3. Reporters(c) = {c[i].reporter : i \in 1..Len(c)}
  BY <1>1 DEF Reporters
<1>4. IsFiniteSet(Reporters(c))
  <2> DEFINE f == [i \in 1..Len(c) |-> c[i].reporter]
  <2>1. f \in [1..Len(c) -> Reporters(c)] /\ \A p \in Reporters(c) : \E i \in 1..Len(c) : f[i] = p
    BY <1>3
  <2> HIDE DEF f
  <2> QED
    BY <1>2, <2>1, FS_Surjection DEF Surjection
<1>5. ASSUME Len(c) > 0 PROVE Reporters(c) # {}
  <2>1. 1 \in 1..Len(c)
    BY <1>1, <1>5
  <2> QED
    BY <1>3, <2>1
<1> QED
  BY <1>4, <1>5, FS_CardinalityType, FS_EmptySet DEF DistinctReporters

(* What may hold the newest cluster back: live, and with more people behind it. *)
HoldsBack(out, i, window, at) ==
    /\ i \in 1..Len(out) - 1
    /\ WindowStillOpen(window, Estimate(out[i]), at)
    /\ DistinctReporters(out[i]) > DistinctReporters(out[Len(out)])

(* derive.go, selectCurrent: the newest cluster, or the newest of those that hold it back. *)
LEMMA SelectedIs ==
    ASSUME NEW out, Len(out) \in Nat, Len(out) > 0, NEW window, NEW at, NEW least
    PROVE  LET choice == SelectCurrent(out, window, at, least)
               latest == Len(out)
           IN \/ /\ choice.index = latest /\ ~choice.pending
                 /\ \/ least <= 1 \/ DistinctReporters(out[latest]) >= least
                    \/ \A i \in 1..latest - 1 : ~HoldsBack(out, i, window, at)
              \/ /\ HoldsBack(out, choice.index, window, at) /\ choice.pending
                 /\ ~(least <= 1) /\ ~(DistinctReporters(out[latest]) >= least)
                 /\ \A i \in 1..latest - 1 : HoldsBack(out, i, window, at) => i <= choice.index
<1> DEFINE latest == Len(out)
           thin == DistinctReporters(out[latest])
           rivals == LiveStronger(out, latest, thin, window, at)
           rests == least <= 1 \/ thin >= least \/ rivals = {}
<1>1. \A i : i \in rivals <=> HoldsBack(out, i, window, at)
  BY DEF LiveStronger, HoldsBack
<1>2. rivals \subseteq 1..latest - 1
  BY DEF LiveStronger
<1>3. SelectCurrent(out, window, at, least) = IF rests THEN [index |-> latest, pending |-> FALSE]
                                              ELSE [index |-> Latest(rivals), pending |-> TRUE]
  BY DEF SelectCurrent
<1>4. rivals # {} => Latest(rivals) \in rivals /\ \A i \in rivals : i <= Latest(rivals)
  <2>1. IsFiniteSet(rivals) /\ rivals \subseteq Int
    <3>1. IsFiniteSet(1..latest - 1) /\ rivals \in SUBSET (1..latest - 1)
      BY <1>2, FS_Interval
    <3> QED
      BY <3>1, FS_Subset
  <2> HIDE DEF rivals
  <2> QED
    BY <2>1, LatestIs
<1> HIDE DEF rivals
<1>5. CASE rests
  <2>1. SelectCurrent(out, window, at, least) = [index |-> latest, pending |-> FALSE]
    BY <1>3, <1>5
  <2>2. rivals = {} => \A i \in 1..latest - 1 : ~HoldsBack(out, i, window, at)
    BY <1>1
  <2> QED
    BY <1>5, <2>1, <2>2
<1>6. CASE ~rests
  <2>1. SelectCurrent(out, window, at, least) = [index |-> Latest(rivals), pending |-> TRUE]
    BY <1>3, <1>6
  <2> QED
    BY <1>1, <1>4, <1>6, <2>1
<1> QED
  BY <1>5, <1>6

(* Either way the index is a cluster's. *)
LEMMA IndexIs ==
    ASSUME NEW out, Len(out) \in Nat, Len(out) > 0, NEW window, NEW at, NEW least
    PROVE  SelectCurrent(out, window, at, least).index \in 1..Len(out)
BY SelectedIs DEF HoldsBack

-----------------------------------------------------------------------------
(* The answer, field by field. *)
Up == TruncateAtQuake(FoldRetractions(reports), quakes, timer).up

(* With no cluster there is nothing to say but whether the target is up. *)
LEMMA SilentAnswerIs ==
    ASSUME NEW up, NEW window, NEW at, NEW least
    PROVE  LET answer == StateOf(<<>>, up, window, at, least, {})
           IN /\ answer.status = DeriveStatus(window, None, at, up) /\ answer.up = up
              /\ answer.died = None /\ answer.confidence = "unknown" /\ answer.contest = None
              /\ answer.alternativesTotal = 0
BY DEF StateOf

(* With clusters it is the current one's. *)
LEMMA AnswerIs ==
    ASSUME NEW out, out # <<>>, NEW up, NEW window, NEW at, NEW least
    PROVE  LET answer  == StateOf(out, up, window, at, least, {})
               choice  == SelectCurrent(out, window, at, least)
               current == out[choice.index]
               implausible == ImplausibleReportIDs(out, choice.index, window)
           IN /\ answer.status = DeriveStatus(window, Estimate(current), at, up) /\ answer.up = up
              /\ answer.died = Estimate(current)
              /\ answer.confidence = ConfidenceOf(current, Estimate(current))
              /\ answer.contest =
                    ContestReason(out, choice.index, window, at, choice.pending, implausible)
              /\ answer.alternativesTotal = Cardinality(LiveRivals(out, choice.index, window, at))
              /\ answer.evidence = EvidenceOf(current, {})
<1> DEFINE choice  == SelectCurrent(out, window, at, least)
           current == out[choice.index]
           died == Estimate(current)
           implausible == ImplausibleReportIDs(out, choice.index, window)
           status == DeriveStatus(window, died, at, up)
           shown == DeriveWindow(window, died, at)
           confidence == ConfidenceOf(current, died)
           contest == ContestReason(out, choice.index, window, at, choice.pending, implausible)
           alternatives == AlternativesOf(out, choice.index, window, at)
           total == Cardinality(LiveRivals(out, choice.index, window, at))
           evidence == EvidenceOf(current, {})
<1>1. StateOf(out, up, window, at, least, {}) =
         [status |-> status, died |-> died, up |-> up, window |-> shown, confidence |-> confidence,
          contest |-> contest, alternatives |-> alternatives, alternativesTotal |-> total,
          evidence |-> evidence, implausible |-> implausible, asOf |-> at]
  BY Zenon DEF StateOf
<1> HIDE DEF status, died, shown, confidence, contest, alternatives, total, evidence, implausible
<1>2. LET answer == StateOf(out, up, window, at, least, {})
      IN /\ answer.status = status /\ answer.up = up /\ answer.died = died
         /\ answer.confidence = confidence /\ answer.contest = contest
         /\ answer.alternativesTotal = total /\ answer.evidence = evidence
  BY <1>1
<1> QED
  BY <1>2 DEF status, died, shown, confidence, contest, alternatives, total, evidence, implausible

(* Every answer over one log is of the same clusters and the same quake, whatever the clock says. *)
LEMMA AnswersAre ==
    ASSUME NEW at
    PROVE  Derive(reports, quakes, timer, at, minimum, {})
             = StateOf(Clusters, Up, timer, at, minimum, {})
BY Zenon DEF Derive, Clusters, Standing, Up

(* A status is up exactly when there is an instant the target has been up since. *)
LEMMA StatusIsUp ==
    ASSUME NEW window, NEW died, NEW at, NEW up
    PROVE  DeriveStatus(window, died, at, up) = "up" <=> up # None
<1> DEFINE late == IF at < OpenAt(window, died) THEN "pre_window"
                   ELSE IF at <= CloseAt(window, died) THEN "in_window" ELSE "overdue"
<1>1. late # "up"
  OBVIOUS
<1>2. DeriveStatus(window, died, at, up) =
         CASE up # None -> "up"
           [] up = None /\ died = None -> "unknown"
           [] up = None /\ died # None /\ ~HasWindow(window) -> "no_timer"
           [] OTHER -> late
  BY DEF DeriveStatus
<1> HIDE DEF late
<1> QED
  BY <1>1, <1>2

(* What truncating leaves: everything, or the kills since the latest quake and, without any, that quake. *)
LEMMA TruncatedIs ==
    ASSUME IInv
    PROVE  LET truncates == timer.quake /\ quakes # {}
           IN /\ Standing = {r \in FoldRetractions(reports) : truncates => r.died >= Latest(quakes)}
              /\ Up = IF truncates /\ Standing = {} THEN Latest(quakes) ELSE None
              /\ truncates => Latest(quakes) # None
<1> DEFINE folded == FoldRetractions(reports)
           after == {k \in folded : k.died >= Latest(quakes)}
<1>1. ASSUME timer.quake, quakes # {} PROVE Latest(quakes) # None
  BY <1>1, LatestIs, NoneIsNoValue DEF IInv
<1>2. CASE timer.quake /\ quakes # {}
  <2>1. TruncateAtQuake(folded, quakes, timer)
          = [kills |-> after, up |-> IF after = {} THEN Latest(quakes) ELSE None]
    BY <1>2 DEF TruncateAtQuake
  <2>2. Standing = after /\ Up = IF after = {} THEN Latest(quakes) ELSE None
    BY <2>1 DEF Standing, Up
  <2> QED
    BY <1>1, <1>2, <2>2
<1>3. CASE ~(timer.quake /\ quakes # {})
  <2>1. TruncateAtQuake(folded, quakes, timer) = [kills |-> folded, up |-> None]
    BY <1>3 DEF TruncateAtQuake
  <2>2. Standing = folded /\ Up = None
    BY <2>1 DEF Standing, Up
  <2> QED
    BY <1>3, <2>2
<1> QED
  BY <1>2, <1>3

(* There are clusters exactly when there are standing kills. *)
LEMMA ClustersWithKills ==
    ASSUME IInv
    PROVE  /\ Len(Clusters) \in Nat /\ DOMAIN Clusters = 1..Len(Clusters)
           /\ Clusters = <<>> <=> Len(Clusters) = 0
           /\ Clusters = <<>> <=> Standing = {}
<1> DEFINE out == Clusters
<1>1. Log(Standing) /\ EpsilonSeconds(timer) \in Nat /\ Formed(out, Standing, Standing, EpsilonSeconds(timer))
  BY StandingIs
<1> HIDE DEF out
<1>2. Len(out) \in Nat /\ DOMAIN out = 1..Len(out) /\ (out = <<>> <=> Len(out) = 0)
  BY <1>1, FormedAre
<1>3. ASSUME out = <<>>, NEW r \in Standing PROVE FALSE
  <2>1. \E i \in 1..Len(out) : TRUE
    BY <1>1 DEF Formed, Covers
  <2> QED
    BY <1>2, <1>3, <2>1
<1>4. ASSUME out # <<>> PROVE Standing # {}
  <2>1. 1 \in 1..Len(out)
    BY <1>2, <1>4
  <2>2. out[1][1] \in Standing
    BY <1>1, <2>1, FormedAre
  <2> QED
    BY <2>2
<1> QED
  BY <1>2, <1>3, <1>4 DEF out

-----------------------------------------------------------------------------
(* Up is the unanswered quake, and any other answer a kill since. *)
LEMMA UpStep == IInv => UpLaw
<1> SUFFICES ASSUME IInv PROVE UpLaw
  OBVIOUS
<1> DEFINE truncates == timer.quake /\ quakes # {}
           standing == {r \in FoldRetractions(reports) : truncates => r.died >= Latest(quakes)}
           out == Clusters
           choice == SelectCurrent(out, timer, now, minimum)
<1>1. standing = Standing /\ (Up = IF truncates /\ Standing = {} THEN Latest(quakes) ELSE None)
      /\ (truncates => Latest(quakes) # None)
  BY TruncatedIs
<1>2. State = StateOf(out, Up, timer, now, minimum, {})
  BY AnswersAre DEF State
<1>3. /\ Len(out) \in Nat /\ (out = <<>> <=> Len(out) = 0) /\ (out = <<>> <=> Standing = {})
  BY ClustersWithKills
<1> HIDE DEF out, standing
<1>4. CASE out = <<>>
  <2>1. State.status = DeriveStatus(timer, None, now, Up) /\ State.up = Up /\ State.died = None
    BY <1>2, <1>4, SilentAnswerIs
  <2>2. State.status = "up" <=> Up # None
    BY <2>1, StatusIsUp
  <2>3. Standing = {}
    BY <1>3, <1>4
  <2>4. /\ (State.status = "up") <=> (truncates /\ standing = {})
        /\ (State.status = "up") => State.up = Latest(quakes) /\ State.died = None
        /\ State.died # None => \E r \in standing : r.died = State.died
    BY <1>1, <2>1, <2>2, <2>3
  <2> QED
    BY <2>4 DEF UpLaw, standing
<1>5. CASE out # <<>>
  <2>1. State.status = DeriveStatus(timer, Estimate(out[choice.index]), now, Up)
        /\ State.died = Estimate(out[choice.index])
    BY <1>2, <1>5, AnswerIs
  <2>2. choice.index \in 1..Len(out)
    BY <1>3, <1>5, IndexIs
  <2>3. Log(Standing) /\ EpsilonSeconds(timer) \in Nat /\ Formed(out, Standing, Standing, EpsilonSeconds(timer))
    BY StandingIs DEF out
  <2> HIDE DEF choice
  <2>4. \E a \in 1..Len(out[choice.index]) : State.died = out[choice.index][a].died
    BY <2>1, <2>2, <2>3, EstimatesRise
  <2>5. \E r \in Standing : r.died = State.died
    BY <2>2, <2>3, <2>4, FormedAre
  <2>6. State.status # "up"
    BY <1>1, <1>3, <1>5, <2>1, StatusIsUp
  <2>7. /\ (State.status = "up") <=> (truncates /\ standing = {})
        /\ (State.status = "up") => State.up = Latest(quakes) /\ State.died = None
        /\ State.died # None => \E r \in standing : r.died = State.died
    BY <1>1, <1>3, <1>5, <2>5, <2>6
  <2> QED
    BY <2>7 DEF UpLaw, standing
<1> QED
  BY <1>4, <1>5

(* From every log a target is up exactly while its latest quake is unanswered by a standing kill,
   and any other answer is an instant some standing kill no older than that quake names
   (derive.go, truncateAtQuake). *)
THEOREM UpIsUnanswered == Spec => []UpLaw
BY InvariantHolds, UpStep, PTL

-----------------------------------------------------------------------------
(* The clock. *)

(* A window that is still open later is open now, and what is open at an instant has the windows of
   every later estimate open too. *)
LEMMA WindowsClose ==
    ASSUME NEW window, Timed(window), NEW at \in Int, NEW later \in Int, at < later,
           NEW d \in Int, NEW e \in Int, d < e
    PROVE  /\ WindowStillOpen(window, d, later) => WindowStillOpen(window, d, at)
           /\ WindowStillOpen(window, d, later) => WindowStillOpen(window, e, later)
<1>1. CASE ~HasWindow(window)
  BY <1>1 DEF WindowStillOpen
<1>2. CASE HasWindow(window)
  <2>1. CASE window.kind = "fixed"
    <3>1. window.open \in Int /\ window.grace \in Int
      BY <1>2 DEF HasWindow, Timed
    <3> QED
      BY <1>2, <2>1, <3>1 DEF WindowStillOpen, CloseAt, OpenAt
  <2>2. CASE window.kind # "fixed"
    <3>1. window.close \in Int
      BY <1>2, <2>2 DEF HasWindow, Timed
    <3> QED
      BY <1>2, <2>2, <3>1 DEF WindowStillOpen, CloseAt, OpenAt
  <2> QED
    BY <2>1, <2>2
<1> QED
  BY <1>1, <1>2

(* The order the statuses come in for one estimate. *)
Order == [up |-> 0, unknown |-> 0, no_timer |-> 0, pre_window |-> 0, in_window |-> 1, overdue |-> 2]

(* The clock never takes a status back in that order. *)
LEMMA StatusWalks ==
    ASSUME NEW window, Timed(window), NEW at \in Int, NEW later \in Int, at < later,
           NEW d \in Int \cup {None}, NEW up
    PROVE  Order[DeriveStatus(window, d, later, up)] >= Order[DeriveStatus(window, d, at, up)]
<1>1. CASE up # None
  <2>1. DeriveStatus(window, d, later, up) = "up" /\ DeriveStatus(window, d, at, up) = "up"
    BY <1>1, StatusIsUp
  <2> QED
    BY <2>1 DEF Order
<1>2. CASE up = None /\ d = None
  <2>1. DeriveStatus(window, d, later, up) = "unknown" /\ DeriveStatus(window, d, at, up) = "unknown"
    BY <1>2 DEF DeriveStatus
  <2> QED
    BY <2>1 DEF Order
<1>3. CASE up = None /\ d # None /\ ~HasWindow(window)
  <2>1. DeriveStatus(window, d, later, up) = "no_timer" /\ DeriveStatus(window, d, at, up) = "no_timer"
    BY <1>3 DEF DeriveStatus
  <2> QED
    BY <2>1 DEF Order
<1>4. CASE up = None /\ d # None /\ HasWindow(window)
  <2> DEFINE open == OpenAt(window, d)
             close == CloseAt(window, d)
             Shown(n) == IF n < open THEN "pre_window" ELSE IF n <= close THEN "in_window" ELSE "overdue"
  <2>1. DeriveStatus(window, d, later, up) = Shown(later) /\ DeriveStatus(window, d, at, up) = Shown(at)
    BY <1>4 DEF DeriveStatus
  <2>2. open \in Int /\ close \in Int
    <3>1. window.open \in Int /\ window.grace \in Int /\ d \in Int
      BY <1>4 DEF HasWindow, Timed
    <3>2. window.kind = "fixed" \/ window.close \in Int
      BY <1>4 DEF HasWindow, Timed
    <3> QED
      BY <3>1, <3>2 DEF OpenAt, CloseAt
  <2> HIDE DEF open, close
  <2>3. Order[Shown(later)] >= Order[Shown(at)]
    BY <2>2 DEF Order
  <2> QED
    BY <2>1, <2>3
<1> QED
  BY <1>1, <1>2, <1>3, <1>4

(* What holds the newest cluster back later holds it back now, and a newer one that does so now does
   so later whenever an older one does. *)
LEMMA RivalsGo ==
    ASSUME NEW kills, Log(kills), NEW epsilon \in Nat, NEW out, Formed(out, kills, kills, epsilon),
           NEW window, Timed(window), NEW at \in Int, NEW later \in Int, at < later
    PROVE  /\ \A i \in 1..Len(out) - 1 : HoldsBack(out, i, window, later) => HoldsBack(out, i, window, at)
           /\ \A i, j \in 1..Len(out) - 1 :
                 i < j /\ HoldsBack(out, i, window, later) /\ HoldsBack(out, j, window, at)
                 => HoldsBack(out, j, window, later)
<1>1. \A i \in 1..Len(out) - 1 : i \in 1..Len(out)
  BY FormedAre
<1>2. ASSUME NEW i \in 1..Len(out) - 1, HoldsBack(out, i, window, later)
      PROVE  HoldsBack(out, i, window, at)
  <2>1. Estimate(out[i]) \in Int /\ Estimate(out[i]) + 1 \in Int /\ Estimate(out[i]) < Estimate(out[i]) + 1
    BY <1>1, EstimatesRise
  <2>2. WindowStillOpen(window, Estimate(out[i]), at)
    BY <1>2, <2>1, WindowsClose DEF HoldsBack
  <2> QED
    BY <1>2, <2>2 DEF HoldsBack
<1>3. ASSUME NEW i \in 1..Len(out) - 1, NEW j \in 1..Len(out) - 1, i < j,
             HoldsBack(out, i, window, later), HoldsBack(out, j, window, at)
      PROVE  HoldsBack(out, j, window, later)
  <2>1. /\ Estimate(out[i]) \in Int /\ Estimate(out[j]) \in Int
        /\ Estimate(out[i]) < Estimate(out[j])
    BY <1>1, <1>3, EstimatesRise
  <2>2. WindowStillOpen(window, Estimate(out[j]), later)
    BY <1>3, <2>1, WindowsClose DEF HoldsBack
  <2> QED
    BY <1>3, <2>2 DEF HoldsBack
<1> QED
  BY <1>2, <1>3

(* Rivals of one current cluster only expire. *)
LEMMA AlternativesGo ==
    ASSUME NEW kills, Log(kills), NEW epsilon \in Nat, NEW out, Formed(out, kills, kills, epsilon),
           NEW window, Timed(window), NEW at \in Int, NEW later \in Int, at < later, NEW current
    PROVE  /\ Cardinality(LiveRivals(out, current, window, later)) \in Nat
           /\ Cardinality(LiveRivals(out, current, window, at)) \in Nat
           /\ Cardinality(LiveRivals(out, current, window, later))
                <= Cardinality(LiveRivals(out, current, window, at))
<1> DEFINE soon == LiveRivals(out, current, window, at)
           late == LiveRivals(out, current, window, later)
<1>1. DOMAIN out = 1..Len(out) /\ IsFiniteSet(1..Len(out))
  BY FormedAre, FS_Interval
<1>2. soon \in SUBSET (1..Len(out))
  BY <1>1 DEF LiveRivals
<1>3. late \in SUBSET soon
  <2> SUFFICES ASSUME NEW i \in 1..Len(out), WindowStillOpen(window, Estimate(out[i]), later)
               PROVE  WindowStillOpen(window, Estimate(out[i]), at)
    BY <1>1 DEF LiveRivals
  <2>1. Estimate(out[i]) \in Int /\ Estimate(out[i]) + 1 \in Int /\ Estimate(out[i]) < Estimate(out[i]) + 1
    BY EstimatesRise
  <2> QED
    BY <2>1, WindowsClose
<1> HIDE DEF soon, late
<1>4. IsFiniteSet(soon)
  BY <1>1, <1>2, FS_Subset
<1>5. IsFiniteSet(late) /\ Cardinality(late) <= Cardinality(soon)
  BY <1>3, <1>4, FS_Subset
<1> QED
  BY <1>4, <1>5, FS_CardinalityType DEF soon, late

(* The choice at a later instant is the same one, or it is the newest cluster, released. *)
LEMMA ChoiceGoes ==
    ASSUME NEW kills, Log(kills), NEW epsilon \in Nat, NEW out, Formed(out, kills, kills, epsilon),
           Len(out) > 0, NEW window, Timed(window), NEW at \in Int, NEW later \in Int, at < later, NEW least
    PROVE  LET soon == SelectCurrent(out, window, at, least).index
               late == SelectCurrent(out, window, later, least).index
           IN soon = late \/ (soon < late /\ late = Len(out))
<1> DEFINE latest == Len(out)
           soon == SelectCurrent(out, window, at, least)
           late == SelectCurrent(out, window, later, least)
           thin == DistinctReporters(out[latest])
<1>0. latest \in Nat /\ latest > 0
  BY FormedAre
<1>1. /\ \A i \in 1..latest - 1 : HoldsBack(out, i, window, later) => HoldsBack(out, i, window, at)
      /\ \A i, j \in 1..latest - 1 :
            i < j /\ HoldsBack(out, i, window, later) /\ HoldsBack(out, j, window, at)
            => HoldsBack(out, j, window, later)
  BY RivalsGo
<1>2. \/ /\ soon.index = latest
         /\ \/ least <= 1 \/ thin >= least
            \/ \A i \in 1..latest - 1 : ~HoldsBack(out, i, window, at)
      \/ /\ HoldsBack(out, soon.index, window, at)
         /\ ~(least <= 1) /\ ~(thin >= least)
         /\ \A i \in 1..latest - 1 : HoldsBack(out, i, window, at) => i <= soon.index
  BY <1>0, SelectedIs
<1>3. \/ /\ late.index = latest
         /\ \/ least <= 1 \/ thin >= least
            \/ \A i \in 1..latest - 1 : ~HoldsBack(out, i, window, later)
      \/ /\ HoldsBack(out, late.index, window, later)
         /\ ~(least <= 1) /\ ~(thin >= least)
         /\ \A i \in 1..latest - 1 : HoldsBack(out, i, window, later) => i <= late.index
  BY <1>0, SelectedIs
<1>4. \A i, n : HoldsBack(out, i, window, n) => i \in 1..latest - 1
  BY DEF HoldsBack
<1> HIDE DEF latest, soon, late, thin
<1>5. CASE late.index = latest
  <2>1. soon.index = latest \/ soon.index < latest
    BY <1>0, <1>2, <1>4
  <2> QED
    BY <1>5, <2>1 DEF latest, soon, late
<1>6. CASE late.index # latest
  <2>1. /\ HoldsBack(out, late.index, window, later) /\ late.index \in 1..latest - 1
        /\ ~(least <= 1) /\ ~(thin >= least)
        /\ \A i \in 1..latest - 1 : HoldsBack(out, i, window, later) => i <= late.index
    BY <1>3, <1>4, <1>6
  <2>2. HoldsBack(out, late.index, window, at)
    BY <1>1, <2>1
  <2>3. /\ HoldsBack(out, soon.index, window, at) /\ soon.index \in 1..latest - 1
        /\ late.index <= soon.index
    BY <1>2, <1>4, <2>1, <2>2
  <2>4. ASSUME late.index < soon.index PROVE FALSE
    <3>1. HoldsBack(out, soon.index, window, later)
      BY <1>1, <2>1, <2>3, <2>4
    <3>2. soon.index <= late.index
      BY <2>1, <2>3, <3>1
    <3> QED
      BY <1>0, <2>1, <2>3, <2>4, <3>2
  <2>5. late.index = soon.index
    BY <1>0, <2>1, <2>3, <2>4
  <2> QED
    BY <2>5 DEF soon, late
<1> QED
  BY <1>5, <1>6

(* One log, two instants. *)
LEMMA ClockStep == IInv => TheClockOnlyReleases
<1> SUFFICES ASSUME IInv, NEW later \in Clock, later > now
             PROVE  LET after  == Derive(reports, quakes, timer, later, minimum, {})
                        newest == Estimate(Last(Clusters))
                    IN \/ /\ after.died = State.died
                          /\ Order[after.status] >= Order[State.status]
                          /\ after.alternativesTotal <= State.alternativesTotal
                       \/ State.died < after.died /\ after.died = newest
  BY DEF TheClockOnlyReleases, Order
<1> DEFINE out    == Clusters
           soon   == SelectCurrent(out, timer, now, minimum).index
           late   == SelectCurrent(out, timer, later, minimum).index
           before == StateOf(out, Up, timer, now, minimum, {})
           after  == StateOf(out, Up, timer, later, minimum, {})
<1>1. State = before /\ Derive(reports, quakes, timer, later, minimum, {}) = after
  BY AnswersAre DEF State
<1>2. later \in Int /\ now \in Int /\ now < later /\ Timed(timer)
  BY MCConsensusAssumption DEF IInv
<1>3. /\ Len(out) \in Nat /\ (out = <<>> <=> Len(out) = 0)
  BY ClustersWithKills
<1>4. Log(Standing) /\ EpsilonSeconds(timer) \in Nat /\ Formed(out, Standing, Standing, EpsilonSeconds(timer))
  BY StandingIs
<1>5. Last(out) = out[Len(out)]
  BY DEF Last
<1> HIDE DEF out
<1>6. CASE out = <<>>
  <2>1. /\ before.died = None /\ after.died = None
        /\ before.alternativesTotal = 0 /\ after.alternativesTotal = 0
        /\ before.status = DeriveStatus(timer, None, now, Up)
        /\ after.status = DeriveStatus(timer, None, later, Up)
    BY <1>6, SilentAnswerIs
  <2>2. Order[after.status] >= Order[before.status]
    BY <1>2, <2>1, StatusWalks
  <2> HIDE DEF before, after
  <2> QED
    BY <1>1, <2>1, <2>2
<1>7. CASE out # <<>>
  <2>1. /\ before.died = Estimate(out[soon]) /\ after.died = Estimate(out[late])
        /\ before.status = DeriveStatus(timer, Estimate(out[soon]), now, Up)
        /\ after.status = DeriveStatus(timer, Estimate(out[late]), later, Up)
        /\ before.alternativesTotal = Cardinality(LiveRivals(out, soon, timer, now))
        /\ after.alternativesTotal = Cardinality(LiveRivals(out, late, timer, later))
    BY <1>7, AnswerIs
  <2>2. soon \in 1..Len(out) /\ late \in 1..Len(out) /\ Len(out) > 0
    BY <1>3, <1>7, IndexIs
  <2>3. soon = late \/ (soon < late /\ late = Len(out))
    BY <1>2, <1>4, <2>2, ChoiceGoes
  <2> HIDE DEF before, after, soon, late
  <2>4. CASE soon = late
    <3>1. Order[after.status] >= Order[before.status]
      <4>1. Estimate(out[soon]) \in Int
        BY <1>4, <2>2, EstimatesRise
      <4> QED
        BY <1>2, <2>1, <2>4, <4>1, StatusWalks
    <3>2. after.alternativesTotal <= before.alternativesTotal
      BY <1>2, <1>4, <2>1, <2>4, AlternativesGo
    <3> QED
      BY <1>1, <2>1, <2>4, <3>1, <3>2
  <2>5. CASE soon < late /\ late = Len(out)
    <3>1. before.died < after.died /\ after.died = Estimate(out[Len(out)])
      BY <1>4, <2>1, <2>2, <2>5, EstimatesRise
    <3> QED
      BY <1>1, <1>5, <3>1 DEF out
  <2> QED
    BY <2>3, <2>4, <2>5
<1> QED
  BY <1>6, <1>7

(* Over one log, any log, the clock moves the estimate only forward and only to the newest cluster,
   when what held it back has expired; otherwise the status only walks on and rivals only expire
   (derive.go, selectCurrent; window.go). *)
THEOREM ClockReleases == Spec => []TheClockOnlyReleases
BY InvariantHolds, ClockStep, PTL

-----------------------------------------------------------------------------
(* Doubt. *)

(* The reports an answer rests on name its cluster: no two clusters begin with one report. *)
LEMMA EvidenceNames ==
    ASSUME NEW kills, Log(kills), NEW epsilon \in Nat, NEW out, Formed(out, kills, kills, epsilon),
           NEW index \in 1..Len(out)
    PROVE  (CHOOSE i \in DOMAIN out : EvidenceOf(out[index], {}).ids[1] = out[i][1].id) = index
<1>1. DOMAIN out = 1..Len(out) /\ Len(out) \in Nat /\ 1 \in DOMAIN out[index]
  BY FormedAre
<1>2. EvidenceOf(out[index], {}).ids[1] = out[index][1].id
  <2>1. EvidenceOf(out[index], {}).ids = [i \in DOMAIN out[index] |-> out[index][i].id]
    BY DEF EvidenceOf
  <2> QED
    BY <1>1, <2>1
<1>3. ASSUME NEW i \in 1..Len(out), out[index][1].id = out[i][1].id PROVE i = index
  <2>1. out[index][1] \in kills /\ out[i][1] \in kills /\ 1 \in 1..Len(out[i]) /\ 1 \in 1..Len(out[index])
    BY FormedAre
  <2>2. out[index][1] = out[i][1]
    BY <1>3, <2>1 DEF Log
  <2>3. out[i][1].died \in Int
    BY <2>1 DEF Log
  <2>4. ~(i < index) /\ ~(index < i)
    BY <2>1, <2>2, <2>3, Apart
  <2> QED
    BY <1>1, <2>4
<1> QED
  BY <1>1, <1>2, <1>3

(* What passes a stronger live cluster over, or holds the newest back, is marked. *)
LEMMA ContestIs ==
    ASSUME NEW out, NEW current, NEW window, NEW at, NEW pending \in BOOLEAN, NEW implausible
    PROVE  LET contest == ContestReason(out, current, window, at, pending, implausible)
           IN /\ pending => contest \in {"pending_supersede", "implausible_ordering"}
              /\ ThinlySuperseded(out, current, window, at) => contest # None
<1> DEFINE reason == ContestReason(out, current, window, at, pending, implausible)
<1>0. "pending_supersede" # None /\ "implausible_ordering" # None /\ "thin_supersede" # None
  BY NoneIsNoValue DEF Reasons
<1>1. implausible # {} => reason = "implausible_ordering"
  BY DEF ContestReason
<1>2. implausible = {} /\ pending => reason = "pending_supersede"
  BY DEF ContestReason
<1>3. implausible = {} /\ ~pending /\ ThinlySuperseded(out, current, window, at) => reason = "thin_supersede"
  BY DEF ContestReason
<1> QED
  BY <1>0, <1>1, <1>2, <1>3

(* No disagreement goes without its mark. *)
LEMMA DisagreementStep == IInv => DisagreementIsSurfaced
<1> SUFFICES ASSUME IInv, Clusters # <<>> PROVE DisagreementIsSurfaced
  BY DEF DisagreementIsSurfaced
<1> DEFINE out == Clusters
           latest == Len(out)
           choice == SelectCurrent(out, timer, now, minimum)
           index == choice.index
           Live(i) == WindowStillOpen(timer, Estimate(out[i]), now)
           Behind(i) == DistinctReporters(out[i])
           c == CHOOSE i \in DOMAIN out : State.evidence.ids[1] = out[i][1].id
           implausible == ImplausibleReportIDs(out, index, timer)
<1>1. State = StateOf(out, Up, timer, now, minimum, {})
  BY AnswersAre DEF State
<1>2. latest \in Nat /\ latest > 0 /\ out # <<>>
  BY ClustersWithKills
<1>3. Log(Standing) /\ EpsilonSeconds(timer) \in Nat /\ Formed(out, Standing, Standing, EpsilonSeconds(timer))
  BY StandingIs
<1> HIDE DEF out
<1>4. /\ State.evidence = EvidenceOf(out[index], {})
      /\ State.contest = ContestReason(out, index, timer, now, choice.pending, implausible)
  BY <1>1, <1>2, AnswerIs
<1>5. index \in 1..latest
  BY <1>2, IndexIs
<1>6. \/ index = latest /\ ~choice.pending
      \/ /\ HoldsBack(out, index, timer, now) /\ choice.pending
         /\ ~(minimum <= 1) /\ ~(Behind(latest) >= minimum)
  BY <1>2, SelectedIs
<1>7. c = index
  <2> HIDE DEF choice
  <2>1. c = CHOOSE i \in DOMAIN out : EvidenceOf(out[index], {}).ids[1] = out[i][1].id
    BY <1>4
  <2>2. index \in 1..Len(out)
    BY <1>5
  <2> HIDE DEF c, index
  <2>3. (CHOOSE i \in DOMAIN out : EvidenceOf(out[index], {}).ids[1] = out[i][1].id) = index
    BY <1>3, <2>2, EvidenceNames
  <2> QED
    BY <2>1, <2>3, Zenon
<1>8. choice.pending \in BOOLEAN
  BY DEF SelectCurrent
<1>9. Behind(latest) \in Nat
  <2>1. out[latest] \in Seq(Standing)
    BY <1>2, <1>3, FormedAre
  <2> QED
    BY <2>1, ReportersAre
<1> HIDE DEF choice, implausible, c
<1>10. ASSUME c # latest
       PROVE  /\ State.contest \in {"pending_supersede", "implausible_ordering"}
              /\ Behind(latest) < minimum /\ Behind(c) > Behind(latest)
              /\ Live(c)
  <2>1. HoldsBack(out, index, timer, now) /\ choice.pending /\ ~(Behind(latest) >= minimum)
    BY <1>6, <1>7, <1>10
  <2>2. State.contest \in {"pending_supersede", "implausible_ordering"}
    <3>1. choice.pending = TRUE
      BY <1>8, <2>1
    <3>2. State.contest = ContestReason(out, index, timer, now, TRUE, implausible)
      BY <1>4, <3>1
    <3> HIDE DEF index
    <3>3. ContestReason(out, index, timer, now, TRUE, implausible)
            \in {"pending_supersede", "implausible_ordering"}
      BY ContestIs
    <3> QED
      BY <3>2, <3>3
  <2>3. Behind(index) > Behind(latest) /\ Live(index)
    BY <2>1 DEF HoldsBack
  <2>4. Behind(latest) < minimum
    <3>1. minimum \in Int
      BY DEF IInv
    <3> HIDE DEF Behind
    <3> QED
      BY <1>9, <2>1, <3>1
  <2> QED
    BY <1>7, <2>2, <2>3, <2>4
<1>11. ASSUME NEW i \in 1..c - 1, Live(i), Behind(i) > Behind(c) PROVE State.contest # None
  <2>1. i \in LiveStronger(out, index, Behind(index), timer, now)
    BY <1>7, <1>11 DEF LiveStronger
  <2>2. ThinlySuperseded(out, index, timer, now)
    BY <2>1 DEF ThinlySuperseded
  <2> QED
    BY <1>4, <1>8, <2>2, ContestIs
<1> QED
  BY <1>10, <1>11 DEF DisagreementIsSurfaced, out, c

(* Two of the reports near an instant are of two people, when a part of them is. *)
LEMMA TwoAreTwo ==
    ASSUME NEW kills, Log(kills), NEW near, near \subseteq kills,
           NEW some, some \subseteq near, NEW voices, voices \subseteq {r.reporter : r \in some},
           Cardinality(voices) # 0, Cardinality(voices) # 1
    PROVE  Cardinality({r.reporter : r \in near}) > 1
<1> DEFINE people == {r.reporter : r \in near}
           f == [r \in near |-> r.reporter]
<1>1. IsFiniteSet(near)
  BY FS_Subset DEF Log
<1>2. IsFiniteSet(people)
  <2>1. f \in [near -> people] /\ \A p \in people : \E r \in near : f[r] = p
    OBVIOUS
  <2> HIDE DEF f, people
  <2> QED
    BY <1>1, <2>1, FS_Surjection DEF Surjection
<1>3. voices \in SUBSET people
  OBVIOUS
<1> HIDE DEF people
<1>4. IsFiniteSet(voices) /\ Cardinality(voices) \in Nat /\ Cardinality(voices) <= Cardinality(people)
      /\ Cardinality(people) \in Nat
  BY <1>2, <1>3, FS_Subset, FS_CardinalityType
<1> QED
  BY <1>4 DEF people

(* Nobody alone makes an answer high. *)
LEMMA HighStep == IInv => HighMeansTwoOnTheEstimate
<1> SUFFICES ASSUME IInv, State.confidence = "high" PROVE HighMeansTwoOnTheEstimate
  BY DEF HighMeansTwoOnTheEstimate
<1> DEFINE out == Clusters
           choice == SelectCurrent(out, timer, now, minimum)
           current == out[choice.index]
           died == Estimate(current)
           folded == FoldRetractions(reports)
           near == {r \in folded : Abs(r.died - died) <= Tolerance}
<1>1. State = StateOf(out, Up, timer, now, minimum, {})
  BY AnswersAre DEF State
<1>2. Len(out) \in Nat /\ (out = <<>> <=> Len(out) = 0)
  BY ClustersWithKills
<1>3. Log(Standing) /\ EpsilonSeconds(timer) \in Nat /\ Formed(out, Standing, Standing, EpsilonSeconds(timer))
  BY StandingIs
<1>f. Log(folded) /\ Standing \subseteq folded
  BY StandingIs
<1> HIDE DEF out, folded
<1>4. out # <<>>
  BY <1>1, SilentAnswerIs
<1>5. State.confidence = ConfidenceOf(current, died) /\ State.died = died
  BY <1>1, <1>4, AnswerIs
<1>6. choice.index \in 1..Len(out)
  BY <1>2, <1>4, IndexIs
<1> HIDE DEF choice
<1>7. /\ current \in Seq(Standing) /\ Len(current) \in Nat /\ Len(current) > 0
      /\ DOMAIN current = 1..Len(current)
      /\ 1 \in 1..Len(current) /\ Len(current) \in 1..Len(current)
      /\ \A a \in 1..Len(current) : current[a] \in Standing /\ current[a].died \in Int
      /\ \A a, b \in 1..Len(current) : a <= b => current[a].died <= current[b].died
  BY <1>3, <1>6, FormedAre
<1>8. \E a \in 1..Len(current) : died = current[a].died
  BY <1>3, <1>6, EstimatesRise
<1>9. DistinctReporters(current) \in Nat /\ DistinctReporters(current) # 0
  BY <1>7, ReportersAre
<1>10. Head(current) = current[1] /\ Last(current) = current[Len(current)] /\ current # <<>>
  BY <1>7, EmptySeq DEF Last
<1> HIDE DEF current, died
<1>11. /\ DistinctReporters(current) # 1
       /\ Spread(current) <= Tolerance \/ Corroborated(current, died)
  BY <1>5, <1>10 DEF ConfidenceOf
<1>12. died \in Int
  BY <1>7, <1>8
<1>13. ASSUME NEW places, places \subseteq 1..Len(current),
              \A a \in places : Abs(current[a].died - died) <= Tolerance,
              Cardinality({current[a].reporter : a \in places}) # 0,
              Cardinality({current[a].reporter : a \in places}) # 1
       PROVE  Cardinality({r.reporter : r \in near}) > 1
  <2> DEFINE voices == {current[a].reporter : a \in places}
  <2>1. \A a \in places : current[a] \in near
    BY <1>7, <1>13, <1>f
  <2>2. near \subseteq folded
    OBVIOUS
  <2> HIDE DEF near
  <2>3. voices \subseteq {r.reporter : r \in near}
    BY <2>1
  <2>4. Cardinality(voices) # 0 /\ Cardinality(voices) # 1
    BY <1>13
  <2> HIDE DEF voices
  <2> QED
    BY <1>f, <2>2, <2>3, <2>4, TwoAreTwo
<1>14. CASE Spread(current) <= Tolerance
  <2>1. current[Len(current)].died - current[1].died <= Tolerance
    BY <1>10, <1>14 DEF Spread
  <2>2. ASSUME NEW a \in 1..Len(current) PROVE Abs(current[a].died - died) <= Tolerance
    <3>1. PICK b \in 1..Len(current) : died = current[b].died
      BY <1>8
    <3>2. /\ current[1].died <= current[a].died /\ current[a].died <= current[Len(current)].died
          /\ current[1].died <= current[b].died /\ current[b].died <= current[Len(current)].died
      BY <1>7
    <3>3. /\ current[1].died \in Int /\ current[a].died \in Int /\ current[b].died \in Int
          /\ current[Len(current)].died \in Int
      BY <1>7
    <3> QED
      BY <2>1, <3>1, <3>2, <3>3 DEF Abs, Tolerance
  <2>3. {current[a].reporter : a \in 1..Len(current)} = Reporters(current)
    BY <1>7 DEF Reporters
  <2>4. Cardinality({current[a].reporter : a \in 1..Len(current)}) = DistinctReporters(current)
    BY <2>3 DEF DistinctReporters
  <2>5. Cardinality({r.reporter : r \in near}) > 1
    BY <1>9, <1>11, <1>13, <2>2, <2>4
  <2> QED
    BY <1>5, <2>5 DEF HighMeansTwoOnTheEstimate, near, folded
<1>15. CASE Corroborated(current, died)
  <2> DEFINE places == {i \in DOMAIN current : Abs(current[i].died - died) <= Tolerance}
  <2>1. Cardinality({current[i].reporter : i \in places}) > 1
    BY <1>15 DEF Corroborated
  <2>2. places \subseteq 1..Len(current) /\ \A a \in places : Abs(current[a].died - died) <= Tolerance
    BY <1>7
  <2> HIDE DEF places
  <2>3. Cardinality({current[i].reporter : i \in places}) # 0 /\ Cardinality({current[i].reporter : i \in places}) # 1
    BY <2>1
  <2>4. Cardinality({r.reporter : r \in near}) > 1
    BY <1>13, <2>2, <2>3
  <2> QED
    BY <1>5, <2>4 DEF HighMeansTwoOnTheEstimate, near, folded
<1> QED
  BY <1>11, <1>14, <1>15

(* From every log, an answer that is not the newest cluster's, or that passes over a live cluster
   more people stand behind, says it is contested, and an answer called high has two people within
   five minutes of the instant it names (derive.go, selectCurrent, corroborated). *)
THEOREM DoubtShown == Spec => []DoubtIsShown
<1>1. IInv => DoubtIsShown
  BY DisagreementStep, HighStep DEF DoubtIsShown
<1> QED
  BY <1>1, InvariantHolds, PTL
=============================================================================
