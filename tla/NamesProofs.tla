----------------------------- MODULE NamesProofs -----------------------------
(***************************************************************************)
(* Theorems of Names for any spellings, any two relations of likeness, any *)
(* shipped list and any seed file, any number of targets, editors and      *)
(* seeds.                                                                  *)
(***************************************************************************)
EXTENDS Names, TLAPS, FiniteSetTheorems, WellFoundedInduction

-----------------------------------------------------------------------------
(* Induction over the numbers, by the least one that fails. *)
LEMMA LeastNat == ASSUME NEW T, T \subseteq Nat, T # {} PROVE \E x \in T : \A y \in T : x <= y
<1>1. IsWellFoundedOn(OpToRel(<, Nat), Nat)
  BY NatLessThanWellFounded
<1>2. PICK x \in T : \A y \in T : ~ (<<y, x>> \in OpToRel(<, Nat))
  BY <1>1, WFMin
<1>3. \A y \in T : ~ (y < x)
  BY <1>2 DEF OpToRel
<1> QED
  BY <1>3

(* A set that has 0, and with every number the next, has all of them. *)
LEMMA UpTo ==
    ASSUME NEW n \in Nat, NEW S, 0 \in S, \A k \in 1..n : k - 1 \in S => k \in S
    PROVE  \A k \in 0..n : k \in S
<1> DEFINE T == (0..n) \ S
<1>1. SUFFICES ASSUME T # {} PROVE FALSE
  OBVIOUS
<1>2. PICK x \in T : \A y \in T : x <= y
  <2>1. T \subseteq Nat
    OBVIOUS
  <2> QED
    BY <1>1, <2>1, LeastNat
<1>3. x \in 1..n
  BY <1>2
<1>4. x - 1 \in 0..n /\ x - 1 \notin T
  BY <1>2, <1>3
<1> QED
  BY <1>2, <1>3, <1>4

(* Min and Max are of the set, when it is a set of places in a sequence. *)
LEMMA Ends ==
    ASSUME NEW n \in Nat, NEW g, g \subseteq 1..n, g # {}
    PROVE  /\ Min(g) \in g /\ \A i \in g : Min(g) <= i
           /\ Max(g) \in g /\ \A i \in g : Max(g) >= i
<1>0. g \subseteq Nat
  OBVIOUS
<1>1. \E x \in g : \A y \in g : x <= y
  BY <1>0, LeastNat
<1>2. \E x \in g : \A y \in g : x >= y
  <2> DEFINE T == {n - x : x \in g}
  <2>1. T \subseteq Nat /\ T # {}
    <3>1. \A x \in g : n - x \in Nat
      OBVIOUS
    <3> QED
      BY <3>1
  <2>2. PICK m \in T : \A y \in T : m <= y
    BY <2>1, LeastNat
  <2>3. PICK x \in g : m = n - x
    BY <2>2
  <2>4. ASSUME NEW y \in g PROVE x >= y
    <3>1. n - x <= n - y
      BY <2>2, <2>3
    <3> QED
      BY <3>1
  <2> QED
    BY <2>4
<1> QED
  BY <1>1, <1>2 DEF Min, Max

-----------------------------------------------------------------------------
(* A table in which nothing is claimed twice, and one that has grown from
   another: nobody is gone, and nobody's claims are.                        *)
RowSet == [name : Spellings \cup {Nobody}, aliases : SUBSET Spellings, state : {"active", "retired"}]
Table  == [Targets -> RowSet]

Distinct(table) ==
    \A t, u \in Targets : \A n \in Claims(table, t) \cap Claims(table, u) : t = u

Grown(old, new) ==
    \A t \in Known(old) : /\ new[t].name = old[t].name /\ new[t].state = old[t].state
                          /\ old[t].aliases \subseteq new[t].aliases

Item == [name : Spellings, aliases : SUBSET Spellings]

(* Nothing of a shipped target is left to add. *)
Settled(table, want) ==
    \/ /\ \E t \in Known(table) : table[t].name = want.name
       /\ \A a \in want.aliases \ {want.name} : Owners(table, a) # {}
    \/ /\ \A t \in Known(table) : table[t].name # want.name
       /\ Owners(table, want.name) # {}

(* A row, field by field. *)
R(name, aliases, state) == [name |-> name, aliases |-> aliases, state |-> state]

(* There is a first target that is not taken. *)
LEMMA FreshIs ==
    ASSUME NamesAssumption, NEW table, Targets \ Known(table) # {}
    PROVE  Fresh(table) \in Targets \ Known(table)
<1>1. Targets \ Known(table) \subseteq Nat
  BY DEF Targets, NamesAssumption
<1>2. \E t \in Targets \ Known(table) : \A u \in Targets \ Known(table) : t <= u
  BY <1>1, LeastNat
<1> QED
  BY <1>2 DEF Fresh

(* Who grew owns what it owned. *)
LEMMA GrownOwn ==
    ASSUME NEW old \in Table, NEW new \in Table, Grown(old, new)
    PROVE  /\ Known(old) \subseteq Known(new)
           /\ \A t \in Targets : Claims(old, t) \subseteq Claims(new, t)
           /\ \A n : Owners(old, n) \subseteq Owners(new, n)
<1>1. Known(old) \subseteq Known(new)
  BY DEF Known, Grown
<1>2. ASSUME NEW t \in Targets PROVE Claims(old, t) \subseteq Claims(new, t)
  BY <1>1 DEF Claims, Grown
<1> QED
  BY <1>1, <1>2 DEF Owners

(* A name is the name of one target. *)
LEMMA NamedOnce ==
    ASSUME NEW table, Distinct(table), NEW t \in Known(table), NEW u \in Known(table),
           table[t].name = table[u].name
    PROVE  t = u
<1>1. t \in Targets /\ u \in Targets /\ table[t].name \in Claims(table, t) \cap Claims(table, u)
  BY DEF Known, Claims
<1> QED
  BY <1>1 DEF Distinct

(* What has nothing left to add adds nothing. *)
LEMMA SettledStays ==
    ASSUME NEW table \in Table, Distinct(table), NEW want \in Item, Settled(table, want)
    PROVE  Ship(table, want) = table
<1> DEFINE named == {t \in Known(table) : table[t].name = want.name}
           self  == IF named # {} THEN CHOOSE t \in named : TRUE ELSE Fresh(table)
           given == {a \in want.aliases \ {want.name} : Owners(table, a) = {}}
<1>1. CASE named = {}
  BY <1>1 DEF Ship, Settled
<1>2. CASE named # {}
  <2>1. given = {} /\ self \in Targets
    BY <1>2 DEF Settled, Known
  <2>2. Ship(table, want) = [table EXCEPT ![self].aliases = @ \cup given]
    BY <1>2 DEF Ship
  <2> HIDE DEF self, given
  <2>3. [table EXCEPT ![self].aliases = @ \cup given] = table
    <3>1. table[self] \in RowSet
      BY <2>1 DEF Table
    <3>2. table[self].aliases \cup given = table[self].aliases
      BY <2>1
    <3>3. [table[self] EXCEPT !.aliases = table[self].aliases] = table[self]
      BY <3>1 DEF RowSet
    <3>4. [table EXCEPT ![self] = table[self]] = table
      BY <2>1 DEF Table
    <3> QED
      BY <3>2, <3>3, <3>4
  <2> QED
    BY <2>2, <2>3
<1> QED
  BY <1>1, <1>2

(* A row with other aliases. *)
LEMMA AliasesSet ==
    ASSUME NEW r \in RowSet, NEW a
    PROVE  [r EXCEPT !.aliases = a] = R(r.name, a, r.state)
BY DEF RowSet, R

(* One shipped target: what it adds collides with nothing and leaves what was
   there, and nothing of it is left to add; nor is anything added of what had
   nothing left.                                                            *)
LEMMA ShipAdds ==
    ASSUME NamesAssumption, NEW table \in Table, Distinct(table), NEW want \in Item,
           Targets \ Known(table) # {}, IsFiniteSet(Known(table))
    PROVE  LET new == Ship(table, want) IN
           /\ new \in Table /\ Distinct(new) /\ Grown(table, new) /\ Settled(new, want)
           /\ IsFiniteSet(Known(new)) /\ Cardinality(Known(new)) <= Cardinality(Known(table)) + 1
           /\ \A other \in Item : Settled(table, other) => Settled(new, other)
<1> DEFINE named == {t \in Known(table) : table[t].name = want.name}
           self  == IF named # {} THEN CHOOSE t \in named : TRUE ELSE Fresh(table)
           given == {a \in want.aliases \ {want.name} : Owners(table, a) = {}}
           new   == Ship(table, want)
<1>t. /\ \A t \in Targets : table[t] \in RowSet
      /\ want.name \in Spellings /\ want.aliases \subseteq Spellings /\ Nobody \notin Spellings
      /\ given \subseteq Spellings /\ Cardinality(Known(table)) \in Nat
  BY FS_CardinalityType DEF Table, Item, NamesAssumption
<1>k. Known(table) \subseteq Targets
  BY DEF Known
(* It is enough to say what becomes of one row. *)
<1>1. ASSUME new \in Table, Grown(table, new), NEW s \in Targets,
             \A t \in Targets \ {s} : new[t] = table[t],
             \A n \in Claims(new, s) : Owners(table, n) \subseteq {s},
             Settled(new, want),
             s \in Known(table) \/ (new[s].name = want.name /\ Owners(table, want.name) = {})
      PROVE  /\ Distinct(new) /\ IsFiniteSet(Known(new))
             /\ Cardinality(Known(new)) <= Cardinality(Known(table)) + 1
             /\ \A other \in Item : Settled(table, other) => Settled(new, other)
  <2> HIDE DEF new, named, self, given
  <2>1. \A t \in Targets \ {s} : Claims(new, t) = Claims(table, t)
    BY <1>1 DEF Claims, Known
  <2>2. Distinct(new)
    <3> SUFFICES ASSUME NEW t \in Targets, NEW u \in Targets, NEW n \in Claims(new, t) \cap Claims(new, u)
                 PROVE  t = u
      BY DEF Distinct
    <3>1. CASE t = s /\ u # s
      <4>1. u \in Owners(table, n)
        BY <2>1, <3>1 DEF Owners
      <4> QED
        BY <1>1, <3>1, <4>1
    <3>2. CASE t # s /\ u = s
      <4>1. t \in Owners(table, n)
        BY <2>1, <3>2 DEF Owners
      <4> QED
        BY <1>1, <3>2, <4>1
    <3>3. CASE t # s /\ u # s
      BY <2>1, <3>3 DEF Distinct
    <3> QED
      BY <3>1, <3>2, <3>3
  <2>3. Known(new) \subseteq Known(table) \cup {s}
    BY <1>1 DEF Known
  <2>4. IsFiniteSet(Known(new)) /\ Cardinality(Known(new)) <= Cardinality(Known(table)) + 1
    <3>1. /\ IsFiniteSet(Known(table) \cup {s})
          /\ Cardinality(Known(table) \cup {s}) <= Cardinality(Known(table)) + 1
          /\ Cardinality(Known(table) \cup {s}) \in Nat
      <4>1. CASE s \in Known(table)
        <5>1. Known(table) \cup {s} = Known(table)
          BY <4>1
        <5> QED
          BY <1>t, <5>1
      <4>2. CASE s \notin Known(table)
        <5>1. /\ IsFiniteSet(Known(table) \cup {s})
              /\ Cardinality(Known(table) \cup {s}) = Cardinality(Known(table)) + 1
          BY <4>2, FS_AddElement
        <5> QED
          BY <1>t, <5>1
      <4> QED
        BY <4>1, <4>2
    <3>2. /\ IsFiniteSet(Known(new)) /\ Cardinality(Known(new)) \in Nat
          /\ Cardinality(Known(new)) <= Cardinality(Known(table) \cup {s})
      BY <2>3, <3>1, FS_Subset, FS_CardinalityType
    <3> QED
      BY <1>t, <3>1, <3>2
  <2>5. ASSUME NEW other \in Item, Settled(table, other) PROVE Settled(new, other)
    <3>0. Known(table) \subseteq Known(new) /\ \A n : Owners(table, n) \subseteq Owners(new, n)
      BY <1>1, GrownOwn
    <3>1. CASE /\ \E t \in Known(table) : table[t].name = other.name
               /\ \A a \in other.aliases \ {other.name} : Owners(table, a) # {}
      <4>1. PICK t \in Known(table) : table[t].name = other.name
        BY <3>1
      <4>2. t \in Known(new) /\ new[t].name = other.name
        BY <1>1, <3>0, <4>1 DEF Grown
      <4>3. \A a \in other.aliases \ {other.name} : Owners(new, a) # {}
        BY <3>0, <3>1
      <4> QED
        BY <4>2, <4>3 DEF Settled
    <3>2. CASE /\ \A t \in Known(table) : table[t].name # other.name
               /\ Owners(table, other.name) # {}
      <4>1. Owners(new, other.name) # {}
        BY <3>0, <3>2
      <4>2. ASSUME NEW t \in Known(new), new[t].name = other.name PROVE FALSE
        <5>1. CASE t \in Known(table)
          BY <1>1, <3>2, <4>2, <5>1 DEF Grown
        <5>2. CASE t \notin Known(table)
          BY <1>1, <2>3, <3>2, <4>2, <5>2
        <5> QED
          BY <5>1, <5>2
      <4> QED
        BY <4>1, <4>2 DEF Settled
    <3> QED
      BY <2>5, <3>1, <3>2 DEF Settled
  <2> QED
    BY <2>2, <2>4, <2>5
(* Its name is somebody's alias. *)
<1>2. CASE named = {} /\ Owners(table, want.name) # {}
  <2>1. new = table
    BY <1>2 DEF Ship
  <2>2. Settled(table, want) /\ Grown(table, table)
    BY <1>2 DEF Settled, Grown
  <2> QED
    BY <1>t, <2>1, <2>2
(* It is new. *)
<1>3. CASE named = {} /\ Owners(table, want.name) = {}
  <2>1. self \in Targets \ Known(table)
    BY <1>3, FreshIs
  <2>2. new = [table EXCEPT ![self] = R(want.name, given, "active")]
    BY <1>3 DEF Ship, R
  <2> HIDE DEF new, self
  <2>3. /\ new \in Table /\ new[self] = R(want.name, given, "active")
        /\ \A t \in Targets \ {self} : new[t] = table[t]
    BY <1>t, <2>1, <2>2 DEF Table, RowSet, R
  <2>4. Grown(table, new)
    BY <1>k, <2>1, <2>3 DEF Grown
  <2>5. self \in Known(new) /\ new[self].name = want.name /\ new[self].aliases = given
    BY <1>t, <2>1, <2>3 DEF Known, R
  <2>6. \A n \in Claims(new, self) : Owners(table, n) \subseteq {self}
    BY <1>3, <2>5 DEF Claims
  <2>7. Settled(new, want)
    <3>1. ASSUME NEW a \in want.aliases \ {want.name} PROVE Owners(new, a) # {}
      <4>1. CASE a \in given
        BY <2>1, <2>5, <4>1 DEF Owners, Claims
      <4>2. CASE a \notin given
        BY <2>3, <2>4, <3>1, <4>2, GrownOwn
      <4> QED
        BY <4>1, <4>2
    <3> QED
      BY <2>5, <3>1 DEF Settled
  <2> HIDE DEF named, given
  <2>8. /\ Distinct(new) /\ IsFiniteSet(Known(new))
        /\ Cardinality(Known(new)) <= Cardinality(Known(table)) + 1
        /\ \A other \in Item : Settled(table, other) => Settled(new, other)
    BY <1>1, <1>3, <2>1, <2>3, <2>4, <2>5, <2>6, <2>7
  <2> QED
    BY <2>3, <2>4, <2>7, <2>8 DEF new
(* It is there, and gets the aliases that nobody has. *)
<1>4. CASE named # {}
  <2>1. self \in Known(table) /\ table[self].name = want.name /\ self \in Targets
    BY <1>4, <1>k
  <2>2. new = [table EXCEPT ![self].aliases = @ \cup given]
    BY <1>4 DEF Ship
  <2> HIDE DEF new, self
  <2>3. /\ new \in Table /\ new[self] = R(want.name, table[self].aliases \cup given, table[self].state)
        /\ \A t \in Targets \ {self} : new[t] = table[t]
    <3>1. table[self] \in RowSet
      BY <1>t, <2>1
    <3>2. [table[self] EXCEPT !.aliases = @ \cup given]
            = R(want.name, table[self].aliases \cup given, table[self].state)
      BY <2>1, <3>1, AliasesSet
    <3>3. R(want.name, table[self].aliases \cup given, table[self].state) \in RowSet
      BY <1>t, <3>1 DEF RowSet, R
    <3> QED
      BY <2>1, <2>2, <3>2, <3>3 DEF Table
  <2>4. /\ new[self].name = want.name /\ new[self].aliases = table[self].aliases \cup given
        /\ new[self].state = table[self].state /\ self \in Known(new)
    BY <1>t, <2>1, <2>3 DEF R, Known
  <2>5. Grown(table, new)
    BY <1>k, <2>1, <2>3, <2>4 DEF Grown
  <2>6. ASSUME NEW n \in Claims(new, self) PROVE Owners(table, n) \subseteq {self}
    <3>1. n \in Claims(table, self) \/ n \in given
      BY <2>1, <2>4, <2>6 DEF Claims
    <3>2. CASE n \in Claims(table, self)
      BY <2>1, <3>2 DEF Owners, Distinct
    <3> QED
      BY <3>1, <3>2
  <2>7. Settled(new, want)
    <3>1. ASSUME NEW a \in want.aliases \ {want.name} PROVE Owners(new, a) # {}
      <4>1. CASE a \in given
        BY <2>1, <2>4, <4>1 DEF Owners, Claims
      <4>2. CASE a \notin given
        BY <2>3, <2>5, <3>1, <4>2, GrownOwn
      <4> QED
        BY <4>1, <4>2
    <3> QED
      BY <2>4, <3>1 DEF Settled
  <2> HIDE DEF named, given
  <2>8. /\ Distinct(new) /\ IsFiniteSet(Known(new))
        /\ Cardinality(Known(new)) <= Cardinality(Known(table)) + 1
        /\ \A other \in Item : Settled(table, other) => Settled(new, other)
    BY <1>1, <2>1, <2>3, <2>5, <2>6, <2>7
  <2> QED
    BY <2>3, <2>5, <2>7, <2>8 DEF new
<1> QED
  BY <1>2, <1>3, <1>4

(* The list as a function of how far it has come. *)
ShipsUpTo(f, table, n) ==
    f = [k \in 0..n |-> IF k = 0 THEN table ELSE Ship(f[k - 1], Shipped[k])]

(* SeedTargets comes to the end of the list that far. *)
LEMMA ShippedIntoIs ==
    ASSUME NamesAssumption, NEW table
    PROVE  \E f : ShipsUpTo(f, table, Len(Shipped)) /\ ShippedInto(table) = f[Len(Shipped)]
<1>n. Len(Shipped) \in Nat
  BY DEF NamesAssumption
<1> DEFINE S == {n \in Nat : \E f : ShipsUpTo(f, table, n)}
<1>1. 0 \in S
  <2>1. ShipsUpTo([k \in 0..0 |-> table], table, 0)
    BY DEF ShipsUpTo
  <2> QED
    BY <2>1
<1>2. ASSUME NEW n \in 1..Len(Shipped), n - 1 \in S PROVE n \in S
  <2>1. PICK f : ShipsUpTo(f, table, n - 1)
    BY <1>2
  <2> DEFINE g == [k \in 0..n |-> IF k = n THEN Ship(f[n - 1], Shipped[n]) ELSE f[k]]
  <2>2. ASSUME NEW k \in 0..n
        PROVE  g[k] = IF k = 0 THEN table ELSE Ship(g[k - 1], Shipped[k])
    <3>1. CASE k = n
      <4>1. g[k] = Ship(f[n - 1], Shipped[n]) /\ g[k - 1] = f[n - 1]
        BY <1>n, <3>1
      <4> QED
        BY <1>n, <3>1, <4>1
    <3>2. CASE k = 0
      BY <1>n, <2>1, <3>2 DEF ShipsUpTo
    <3>3. CASE k # n /\ k # 0
      <4>1. k \in 0..(n - 1) /\ k - 1 \in 0..n /\ k - 1 # n
        BY <1>n, <3>3
      <4>2. f[k] = Ship(f[k - 1], Shipped[k])
        BY <2>1, <3>3, <4>1 DEF ShipsUpTo
      <4>3. g[k] = f[k] /\ g[k - 1] = f[k - 1]
        BY <3>3, <4>1
      <4> QED
        BY <3>3, <4>2, <4>3
    <3> QED
      BY <3>1, <3>2, <3>3
  <2>3. ShipsUpTo(g, table, n)
    <3> DEFINE h == [k \in 0..n |-> IF k = 0 THEN table ELSE Ship(g[k - 1], Shipped[k])]
    <3>1. DOMAIN g = 0..n /\ g = [k \in 0..n |-> g[k]]
      OBVIOUS
    <3>2. \A k \in 0..n : g[k] = h[k]
      BY <2>2
    <3> HIDE DEF g
    <3>3. g = h
      BY <3>1, <3>2
    <3> QED
      BY <3>3 DEF ShipsUpTo
  <2>4. n \in Nat
    BY <1>n
  <2> QED
    BY <2>3, <2>4
<1> HIDE DEF S
<1>3. Len(Shipped) \in S
  <2>1. \A n \in 1..Len(Shipped) : n - 1 \in S => n \in S
    BY <1>2
  <2>2. \A n \in 0..Len(Shipped) : n \in S
    BY <1>n, <1>1, <2>1, UpTo
  <2> QED
    BY <1>n, <2>2
<1>4. \E f : f = [k \in 0..Len(Shipped) |-> IF k = 0 THEN table ELSE Ship(f[k - 1], Shipped[k])]
  BY <1>3 DEF S, ShipsUpTo
<1> DEFINE upTo == CHOOSE f : f = [k \in 0..Len(Shipped) |-> IF k = 0 THEN table ELSE Ship(f[k - 1], Shipped[k])]
<1>5. ShipsUpTo(upTo, table, Len(Shipped))
  BY <1>4 DEF ShipsUpTo
<1>6. ShippedInto(table) = upTo[Len(Shipped)]
  BY DEF ShippedInto
<1> QED
  BY <1>5, <1>6

(* embedded.go:400-407: the list may go into any table that has room, adds to
   it, and adds nothing the second time.                                    *)
LEMMA Shipping ==
    ASSUME NamesAssumption, NEW table \in Table, Distinct(table),
           IsFiniteSet(Known(table)), Cardinality(Known(table)) + Len(Shipped) <= MaxTargets
    PROVE  /\ ShippedInto(table) \in Table /\ Distinct(ShippedInto(table))
           /\ Grown(table, ShippedInto(table))
           /\ ShippedInto(ShippedInto(table)) = ShippedInto(table)
<1> DEFINE N == Len(Shipped)
<1>n. N \in Nat /\ MaxTargets \in Nat /\ Cardinality(Known(table)) \in Nat
  BY FS_CardinalityType DEF NamesAssumption
<1>i. \A k \in 1..N : Shipped[k] \in Item
  <2>1. Shipped \in Seq(Item)
    BY DEF NamesAssumption, Item
  <2> QED
    BY <2>1
<1>1. PICK f : ShipsUpTo(f, table, N) /\ ShippedInto(table) = f[N]
  BY ShippedIntoIs
<1>2. f[0] = table /\ \A k \in 1..N : f[k] = Ship(f[k - 1], Shipped[k])
  <2>1. 0 \in 0..N /\ \A k \in 1..N : k \in 0..N /\ k # 0
    BY <1>n
  <2> QED
    BY <1>1, <2>1 DEF ShipsUpTo
<1> DEFINE Holds(k) ==
             /\ f[k] \in Table /\ Distinct(f[k]) /\ Grown(table, f[k])
             /\ IsFiniteSet(Known(f[k])) /\ Cardinality(Known(f[k])) <= Cardinality(Known(table)) + k
             /\ \A j \in 1..k : Settled(f[k], Shipped[j])
           S == {k \in 0..N : Holds(k)}
<1>3. 0 \in S
  BY <1>n, <1>2 DEF Grown
<1>4. ASSUME NEW k \in 1..N, k - 1 \in S PROVE k \in S
  <2>1. Holds(k - 1) /\ k - 1 \in Nat
    BY <1>4
  <2>2. f[k] = Ship(f[k - 1], Shipped[k]) /\ Shipped[k] \in Item
    BY <1>2, <1>i
  <2>3. Targets \ Known(f[k - 1]) # {}
    <3>1. IsFiniteSet(Targets) /\ Cardinality(Targets) = MaxTargets
      BY <1>n, FS_Interval DEF Targets
    <3>2. Cardinality(Known(f[k - 1])) \in Nat /\ Cardinality(Known(f[k - 1])) < MaxTargets
      BY <1>n, <1>4, <2>1, FS_CardinalityType
    <3>3. Known(f[k - 1]) \subseteq Targets
      BY DEF Known
    <3>4. Known(f[k - 1]) # Targets
      BY <1>n, <3>1, <3>2
    <3> QED
      BY <3>3, <3>4
  <2> DEFINE old == f[k - 1]
             new == f[k]
  <2>4. /\ new \in Table /\ Distinct(new) /\ Grown(old, new) /\ Settled(new, Shipped[k])
        /\ IsFiniteSet(Known(new)) /\ Cardinality(Known(new)) <= Cardinality(Known(old)) + 1
        /\ \A other \in Item : Settled(old, other) => Settled(new, other)
    BY <2>1, <2>2, <2>3, ShipAdds
  <2>5. Grown(table, new)
    <3>1. Grown(table, old) /\ Known(table) \subseteq Known(old)
      BY <2>1, GrownOwn
    <3> QED
      BY <2>4, <3>1 DEF Grown
  <2>6. Cardinality(Known(new)) <= Cardinality(Known(table)) + k
    <3>1. Cardinality(Known(new)) \in Nat /\ Cardinality(Known(old)) \in Nat
      BY <2>1, <2>4, FS_CardinalityType
    <3> QED
      BY <1>n, <2>1, <2>4, <3>1
  <2>7. ASSUME NEW j \in 1..k PROVE Settled(new, Shipped[j])
    <3>1. CASE j = k
      BY <2>4, <3>1
    <3>2. CASE j # k
      <4>1. j \in 1..(k - 1) /\ j \in 1..N
        BY <1>n, <3>2
      <4>2. Settled(old, Shipped[j]) /\ Shipped[j] \in Item
        BY <1>i, <2>1, <4>1
      <4> QED
        BY <2>4, <4>2
    <3> QED
      BY <3>1, <3>2
  <2>8. Holds(k) /\ k \in 0..N
    BY <1>n, <2>4, <2>5, <2>6, <2>7
  <2> QED
    BY <2>8
<1> HIDE DEF S
<1>5. N \in S
  <2>1. \A k \in 1..N : k - 1 \in S => k \in S
    BY <1>4
  <2>2. \A k \in 0..N : k \in S
    BY <1>n, <1>3, <2>1, UpTo
  <2> QED
    BY <1>n, <2>2
<1>6. Holds(N)
  BY <1>5 DEF S
<1> DEFINE seeded == ShippedInto(table)
<1>7. /\ seeded \in Table /\ Distinct(seeded) /\ Grown(table, seeded)
      /\ \A j \in 1..N : Settled(seeded, Shipped[j])
  BY <1>1, <1>6
<1> HIDE DEF seeded, Holds
<1>8. ShippedInto(seeded) = seeded
  <2>1. PICK g : ShipsUpTo(g, seeded, N) /\ ShippedInto(seeded) = g[N]
    BY ShippedIntoIs
  <2>2. g[0] = seeded /\ \A k \in 1..N : g[k] = Ship(g[k - 1], Shipped[k])
    <3>1. 0 \in 0..N /\ \A k \in 1..N : k \in 0..N /\ k # 0
      BY <1>n
    <3> QED
      BY <2>1, <3>1 DEF ShipsUpTo
  <2> DEFINE Q == {k \in 0..N : g[k] = seeded}
  <2>3. 0 \in Q
    BY <1>n, <2>2
  <2>4. ASSUME NEW k \in 1..N, k - 1 \in Q PROVE k \in Q
    <3>1. g[k] = Ship(seeded, Shipped[k]) /\ Settled(seeded, Shipped[k]) /\ Shipped[k] \in Item
      BY <1>7, <1>i, <2>2, <2>4
    <3>2. g[k] = seeded /\ k \in 0..N
      BY <1>7, <1>n, <3>1, SettledStays
    <3> QED
      BY <3>2
  <2> HIDE DEF Q
  <2>5. N \in Q
    <3>1. \A k \in 1..N : k - 1 \in Q => k \in Q
      BY <2>4
    <3>2. \A k \in 0..N : k \in Q
      BY <1>n, <2>3, <3>1, UpTo
    <3> QED
      BY <1>n, <3>2
  <2> QED
    BY <2>1, <2>5 DEF Q
<1> QED
  BY <1>7, <1>8 DEF seeded

-----------------------------------------------------------------------------
(* The inductive invariant.  No name is claimed twice; a request knows a target
   that is there; a lookup has read a table that was in order, and of which
   nothing has gone since; and of a seed, the windows that are still to come
   are as they were and the others as the last row about them says.         *)
Windows == {0} \cup {File[i].to : i \in DOMAIN File}

Rows == 1..Len(File)

LookupSet == [at : {"idle", "names", "answered"}, name : Spellings \cup {Nobody},
              names : Table \cup {<<>>}, owner : {0} \cup Targets, hits : SUBSET Targets]

SeedSet == [at : {"idle", "load", "write", "done"}, names : Table \cup {<<>>},
            groups : SUBSET SUBSET Rows,
            found : [Rows -> [target : Targets, to : Windows]] \cup {<<>>},
            before : [Targets -> Windows] \cup {<<>>}]

UpdateSet == [of : {0} \cup Targets, to : RowSet, replaces : BOOLEAN]

Typed ==
    /\ row \in Table /\ window \in [Targets -> Windows]
    /\ update \in [Editors -> UpdateSet]
    /\ lookup \in LookupSet /\ seed \in SeedSet
    /\ budget \in [writes : 0..MaxWrites, seeds : 0..MaxSeeds]

UpdatesKnow ==
    \A q \in Editors : update[q] # NoUpdate =>
      update[q].of \in Known(row) /\ update[q].to.name \in Spellings

LookupKnows ==
    /\ lookup.at = "names" =>
         /\ lookup.names \in Table /\ Distinct(lookup.names)
         /\ Known(lookup.names) \subseteq Known(row)
         /\ lookup.name \in Spellings
         /\ lookup.owner # 0 => lookup.owner \in Owners(lookup.names, lookup.name)
    /\ ExactIsNeverOutranked

About(found, t) == {i \in DOMAIN found : found[i].target = t}

Stated(found, before, t) ==
    IF About(found, t) = {} THEN before[t] ELSE found[Max(About(found, t))].to

SeedKnows ==
    seed.at \in {"write", "done"} =>
      /\ seed.found \in [Rows -> [target : Targets, to : Windows]]
      /\ seed.before \in [Targets -> Windows]
      /\ seed.groups \subseteq Groups(seed.found)
      /\ seed.at = "write" <=> seed.groups # {}
      /\ \A t \in Targets :
           window[t] = IF About(seed.found, t) \in seed.groups THEN seed.before[t]
                       ELSE Stated(seed.found, seed.before, t)

IInv == Typed /\ Distinct(row) /\ UpdatesKnow /\ LookupKnows /\ SeedKnows

-----------------------------------------------------------------------------
(* The ladder. *)

(* resolve.go:26-31: what a target is called exactly is that target, whatever
   has happened to others between the two reads.                            *)
LEMMA ExactWins ==
    ASSUME NamesAssumption, row \in Table, Distinct(row), NEW read \in Table, Distinct(read),
           Known(read) \subseteq Known(row), NEW n \in Spellings,
           NEW asked \in Owners(read, n), row[asked] = read[asked]
    PROVE  ResolveIn(read, AliasesNow, n) = {asked}
<1> DEFINE rungs == Rungs(read, AliasesNow, n)
           first == {k \in DOMAIN rungs : \A j \in 1..(k - 1) : rungs[j] = {}}
<1>1. /\ DOMAIN rungs = 1..4
      /\ rungs[1] = {t \in Targets : read[t].name = n}
      /\ rungs[2] = {t \in Known(read) : n \in row[t].aliases}
  <2>1. \A t \in Known(read) : AliasesNow[t] = row[t].aliases
    BY DEF AliasesNow, Known
  <2> QED
    BY <2>1 DEF Rungs
<1>2. ResolveIn(read, AliasesNow, n) = UNION {rungs[i] : i \in first}
  BY DEF ResolveIn
<1>3. n # Nobody /\ asked \in Targets /\ asked \in Known(read) /\ n \in Claims(read, asked)
  BY DEF NamesAssumption, Owners, Claims
<1>4. \A t \in Targets : read[t].name = n => t = asked
  <2>1. ASSUME NEW t \in Targets, read[t].name = n PROVE t = asked
    <3>1. n \in Claims(read, t) \cap Claims(read, asked)
      BY <1>3, <2>1 DEF Claims, Known
    <3> QED
      BY <1>3, <3>1 DEF Distinct
  <2> QED
    BY <2>1
<1> HIDE DEF rungs
<1>5. CASE read[asked].name = n
  <2>1. rungs[1] = {asked}
    BY <1>1, <1>3, <1>4, <1>5
  <2>2. first = {1}
    <3>1. 1 \in first
      BY <1>1
    <3>2. \A k \in first : k = 1
      BY <1>1, <2>1
    <3> QED
      BY <3>1, <3>2
  <2> HIDE DEF first
  <2> QED
    BY <1>2, <2>1, <2>2
<1>6. CASE read[asked].name # n
  <2>1. rungs[1] = {}
    BY <1>1, <1>4, <1>6
  <2>2. rungs[2] = {asked}
    <3>1. n \in row[asked].aliases
      BY <1>3, <1>6 DEF Claims
    <3>2. ASSUME NEW t \in Known(read), n \in row[t].aliases PROVE t = asked
      <4>1. t \in Known(row) /\ asked \in Known(row) /\ t \in Targets
        BY <1>3, <3>2 DEF Known
      <4>2. n \in Claims(row, t) \cap Claims(row, asked)
        BY <3>1, <3>2, <4>1 DEF Claims
      <4> QED
        BY <1>3, <4>1, <4>2 DEF Distinct
    <3> QED
      BY <1>1, <1>3, <3>1, <3>2
  <2>3. first = {1, 2}
    <3>1. 1 \in first /\ 2 \in first
      BY <1>1, <2>1
    <3>2. \A k \in first : k = 1 \/ k = 2
      BY <1>1, <2>2
    <3> QED
      BY <3>1, <3>2
  <2> HIDE DEF first
  <2> QED
    BY <1>2, <2>1, <2>2, <2>3
<1> QED
  BY <1>5, <1>6

(* What is hit is a target. *)
LEMMA HitsAreTargets == ASSUME NEW read, NEW aliases, NEW n PROVE ResolveIn(read, aliases, n) \subseteq Targets
<1>1. \A i \in DOMAIN Rungs(read, aliases, n) : Rungs(read, aliases, n)[i] \subseteq Targets
  BY DEF Rungs, Known
<1> QED
  BY <1>1 DEF ResolveIn

-----------------------------------------------------------------------------
(* What moves and what does not. *)

(* A row that claims nothing of another's. *)
LEMMA OneRowMoves ==
    ASSUME NamesAssumption, row \in Table, Distinct(row), NEW s \in Targets, NEW r \in RowSet,
           r.name \in Spellings,
           \A u \in Targets \ {s} : Claims(row, u) \cap ({r.name} \cup r.aliases) = {},
           row' = [row EXCEPT ![s] = r]
    PROVE  row' \in Table /\ Distinct(row)' /\ Known(row) \subseteq Known(row')
<1>1. row' \in Table /\ row'[s] = r /\ \A u \in Targets \ {s} : row'[u] = row[u]
  BY DEF Table
<1>2. Known(row) \subseteq Known(row') /\ s \in Known(row')
  BY <1>1 DEF Known, NamesAssumption
<1>3. Claims(row', s) = {r.name} \cup r.aliases /\ \A u \in Targets \ {s} : Claims(row', u) = Claims(row, u)
  BY <1>1, <1>2 DEF Claims, Known
<1>4. Distinct(row')
  <2> SUFFICES ASSUME NEW t \in Targets, NEW u \in Targets, NEW n \in Claims(row', t) \cap Claims(row', u)
               PROVE  t = u
    BY DEF Distinct
  <2>1. CASE t # s /\ u # s
    BY <1>3, <2>1 DEF Distinct
  <2> QED
    BY <1>3, <2>1
<1> QED
  BY <1>1, <1>2, <1>4 DEF Distinct

(* A catalogue that grows, with the requests beside it. *)
LEMMA RowsGrow ==
    ASSUME IInv, row' \in Table, Distinct(row)', Known(row) \subseteq Known(row'),
           update' \in [Editors -> UpdateSet],
           \A q \in Editors : update'[q] # NoUpdate =>
             update'[q].of \in Known(row) /\ update'[q].to.name \in Spellings,
           UNCHANGED <<window, lookup, seed>>, budget' \in [writes : 0..MaxWrites, seeds : 0..MaxSeeds]
    PROVE  IInv'
<1>1. Typed'
  BY DEF IInv, Typed
<1>2. UpdatesKnow' /\ LookupKnows' /\ SeedKnows'
  BY DEF IInv, UpdatesKnow, LookupKnows, SeedKnows, ExactIsNeverOutranked
<1> QED
  BY <1>1, <1>2 DEF IInv

(* What is spent stays in bounds. *)
LEMMA Spent ==
    ASSUME budget \in [writes : 0..MaxWrites, seeds : 0..MaxSeeds], NamesAssumption,
           NEW what \in {"writes", "seeds"}, Spend(what)
    PROVE  budget' \in [writes : 0..MaxWrites, seeds : 0..MaxSeeds]
<1>1. CASE what = "writes"
  <2>1. budget' = [writes |-> budget.writes - 1, seeds |-> budget.seeds] /\ budget.writes > 0
    BY <1>1 DEF Spend
  <2> QED
    BY <2>1 DEF NamesAssumption
<1>2. CASE what = "seeds"
  <2>1. budget' = [writes |-> budget.writes, seeds |-> budget.seeds - 1] /\ budget.seeds > 0
    BY <1>2 DEF Spend
  <2> QED
    BY <2>1 DEF NamesAssumption
<1> QED
  BY <1>1, <1>2

-----------------------------------------------------------------------------
(* The requests that write the catalogue. *)

(* POST a target. *)
LEMMA CreateKeeps ==
    ASSUME NamesAssumption, IInv, NEW name \in Spellings, NEW aliases \in SUBSET Spellings,
           Create(name, aliases)
    PROVE  IInv'
<1> DEFINE r == R(name, aliases, "active")
           s == Fresh(row)
<1>1. row' = [row EXCEPT ![s] = r] /\ CheckNamespace(s, name, aliases) /\ Known(row) # Targets
  BY DEF Create, R
<1>2. s \in Targets
  <2>1. Targets \ Known(row) # {}
    BY <1>1 DEF Known
  <2> QED
    BY <2>1, FreshIs
<1>3. r \in RowSet /\ r.name = name /\ r.aliases = aliases
  BY DEF R, RowSet
<1>4. row \in Table /\ Distinct(row)
  BY DEF IInv, Typed
<1>5. \A u \in Targets \ {s} : Claims(row, u) \cap ({r.name} \cup r.aliases) = {}
  BY <1>1, <1>3 DEF CheckNamespace
<1> HIDE DEF r, s
<1>6. row' \in Table /\ Distinct(row)' /\ Known(row) \subseteq Known(row')
  BY <1>1, <1>2, <1>3, <1>4, <1>5, OneRowMoves
<1>7. budget' \in [writes : 0..MaxWrites, seeds : 0..MaxSeeds]
  <2>1. budget \in [writes : 0..MaxWrites, seeds : 0..MaxSeeds] /\ Spend("writes")
    BY DEF IInv, Typed, Create
  <2> QED
    BY <2>1, Spent
<1>8. /\ update' \in [Editors -> UpdateSet]
      /\ \A q \in Editors : update'[q] # NoUpdate =>
           update'[q].of \in Known(row) /\ update'[q].to.name \in Spellings
      /\ UNCHANGED <<window, lookup, seed>>
  BY DEF IInv, Typed, UpdatesKnow, Create
<1> QED
  BY <1>6, <1>7, <1>8, RowsGrow

(* What may be asked of a row is a row, under a spelling. *)
LEMMA PatchedIs ==
    ASSUME NamesAssumption, NEW read \in RowSet, read.name \in Spellings, NEW patch \in Patches(read)
    PROVE  patch.to \in RowSet /\ patch.to.name \in Spellings /\ patch.replaces \in BOOLEAN
<1> DEFINE A == {[to |-> [read EXCEPT !.name = n], replaces |-> FALSE] : n \in Spellings}
           B == {[to |-> [name |-> n, aliases |-> a, state |-> read.state], replaces |-> TRUE] :
                     n \in Spellings, a \in SUBSET Spellings}
           C == {[to |-> [read EXCEPT !.state = s], replaces |-> FALSE] : s \in {"active", "retired"}}
<1>0. patch \in A \cup B \cup C
  BY DEF Patches
<1>1. ASSUME patch \in A
      PROVE  patch.to \in RowSet /\ patch.to.name \in Spellings /\ patch.replaces \in BOOLEAN
  <2>1. PICK n \in Spellings : patch = [to |-> [read EXCEPT !.name = n], replaces |-> FALSE]
    BY <1>1
  <2> QED
    BY <2>1 DEF RowSet
<1>2. ASSUME patch \in B
      PROVE  patch.to \in RowSet /\ patch.to.name \in Spellings /\ patch.replaces \in BOOLEAN
  <2>1. PICK n \in Spellings, a \in SUBSET Spellings :
          patch = [to |-> [name |-> n, aliases |-> a, state |-> read.state], replaces |-> TRUE]
    BY <1>2
  <2> QED
    BY <2>1 DEF RowSet
<1>3. ASSUME patch \in C
      PROVE  patch.to \in RowSet /\ patch.to.name \in Spellings /\ patch.replaces \in BOOLEAN
  <2>1. PICK s \in {"active", "retired"} : patch = [to |-> [read EXCEPT !.state = s], replaces |-> FALSE]
    BY <1>3
  <2> QED
    BY <2>1 DEF RowSet
<1> HIDE DEF A, B, C
<1> QED
  BY <1>0, <1>1, <1>2, <1>3

(* PATCH a target reads it... *)
LEMMA BeginUpdateKeeps ==
    ASSUME NamesAssumption, IInv, NEW q \in Editors, NEW t \in Targets, BeginUpdate(q, t)
    PROVE  IInv'
<1>1. t \in Known(row) /\ row \in Table /\ update \in [Editors -> UpdateSet]
  BY DEF BeginUpdate, IInv, Typed
<1>2. row[t] \in RowSet /\ row[t].name \in Spellings
  BY <1>1 DEF Table, RowSet, Known
<1>3. PICK patch \in Patches(row[t]) :
        update' = [update EXCEPT ![q] = [of |-> t, to |-> patch.to, replaces |-> patch.replaces]]
  BY DEF BeginUpdate
<1>4. patch.to \in RowSet /\ patch.to.name \in Spellings /\ patch.replaces \in BOOLEAN
  BY <1>2, PatchedIs
<1> DEFINE new == [of |-> t, to |-> patch.to, replaces |-> patch.replaces]
<1>5. new \in UpdateSet /\ new.of \in Known(row) /\ new.to.name \in Spellings
  BY <1>1, <1>4 DEF UpdateSet
<1> HIDE DEF new
<1>6. /\ update' \in [Editors -> UpdateSet]
      /\ \A p \in Editors : update'[p] # NoUpdate =>
           update'[p].of \in Known(row) /\ update'[p].to.name \in Spellings
  <2>1. update' = [update EXCEPT ![q] = new]
    BY <1>3 DEF new
  <2>2. \A p \in Editors : update'[p] = IF p = q THEN new ELSE update[p]
    BY <1>1, <2>1
  <2>3. \A p \in Editors : update[p] # NoUpdate =>
          update[p].of \in Known(row) /\ update[p].to.name \in Spellings
    BY DEF IInv, UpdatesKnow
  <2>4. update' \in [Editors -> UpdateSet]
    BY <1>1, <1>5, <2>1
  <2>5. ASSUME NEW p \in Editors, update'[p] # NoUpdate
        PROVE  update'[p].of \in Known(row) /\ update'[p].to.name \in Spellings
    <3>1. CASE p = q
      BY <1>5, <2>2, <3>1
    <3>2. CASE p # q
      BY <2>2, <2>3, <2>5, <3>2
    <3> QED
      BY <3>1, <3>2
  <2> QED
    BY <2>4, <2>5
<1>7. budget' \in [writes : 0..MaxWrites, seeds : 0..MaxSeeds]
  <2>1. budget \in [writes : 0..MaxWrites, seeds : 0..MaxSeeds] /\ Spend("writes")
    BY DEF IInv, Typed, BeginUpdate
  <2> QED
    BY <2>1, Spent
<1>8. row' = row /\ Distinct(row) /\ UNCHANGED <<window, lookup, seed>>
  BY DEF BeginUpdate, IInv
<1>9. row' \in Table /\ Distinct(row)' /\ Known(row) \subseteq Known(row')
  BY <1>1, <1>8
<1> QED
  BY <1>6, <1>7, <1>8, <1>9, RowsGrow

(* ... and its transaction writes it: with the aliases that were asked for, of
   which CheckNamespace has seen that they are nobody's, or with its own.   *)
LEMMA CommitUpdateKeeps ==
    ASSUME NamesAssumption, IInv, NEW q \in Editors, CommitUpdate(q)
    PROVE  IInv'
<1> DEFINE u  == update[q]
           to == IF u.replaces THEN u.to ELSE [u.to EXCEPT !.aliases = row[u.of].aliases]
<1>1. /\ u # NoUpdate /\ u \in UpdateSet /\ u.of \in Known(row) /\ u.to.name \in Spellings
      /\ row \in Table /\ Distinct(row) /\ update \in [Editors -> UpdateSet]
  BY DEF CommitUpdate, IInv, Typed, UpdatesKnow
<1>2. u.of \in Targets /\ u.to \in RowSet /\ row[u.of] \in RowSet
  BY <1>1 DEF UpdateSet, Known, Table
<1>3. row' = IF CheckNamespace(u.of, u.to.name, u.to.aliases) THEN [row EXCEPT ![u.of] = to] ELSE row
  BY DEF CommitUpdate
<1>4. /\ to \in RowSet /\ to.name = u.to.name
      /\ to.aliases = IF u.replaces THEN u.to.aliases ELSE row[u.of].aliases
  <2>1. [u.to EXCEPT !.aliases = row[u.of].aliases] = R(u.to.name, row[u.of].aliases, u.to.state)
    BY <1>2, AliasesSet
  <2> HIDE DEF u
  <2>2. R(u.to.name, row[u.of].aliases, u.to.state) \in RowSet
    BY <1>2 DEF R, RowSet
  <2>3. CASE u.replaces
    BY <1>2, <2>3
  <2>4. CASE ~ u.replaces
    BY <2>1, <2>2, <2>4 DEF R
  <2> QED
    BY <2>3, <2>4
<1>5. UNCHANGED <<window, lookup, seed, budget>> /\ update' = [update EXCEPT ![q] = NoUpdate]
  BY DEF CommitUpdate
<1>6. row' \in Table /\ Distinct(row)' /\ Known(row) \subseteq Known(row')
  <2>1. CASE CheckNamespace(u.of, u.to.name, u.to.aliases)
    <3>1. \A x \in Targets \ {u.of} : Claims(row, x) \cap ({u.to.name} \cup u.to.aliases) = {}
      BY <2>1 DEF CheckNamespace
    <3>2. row[u.of].aliases \subseteq Claims(row, u.of)
      BY <1>1 DEF Claims
    <3>3. \A x \in Targets \ {u.of} : Claims(row, x) \cap Claims(row, u.of) = {}
      BY <1>1, <1>2 DEF Distinct
    <3> HIDE DEF to, u
    <3>4. \A x \in Targets \ {u.of} : Claims(row, x) \cap ({to.name} \cup to.aliases) = {}
      BY <1>4, <3>1, <3>2, <3>3
    <3>5. row' = [row EXCEPT ![u.of] = to] /\ to.name \in Spellings
      BY <1>1, <1>3, <1>4, <2>1
    <3> QED
      BY <1>1, <1>2, <1>4, <3>4, <3>5, OneRowMoves
  <2>2. CASE ~ CheckNamespace(u.of, u.to.name, u.to.aliases)
    BY <1>1, <1>3, <2>2
  <2> QED
    BY <2>1, <2>2
<1>7. /\ update' \in [Editors -> UpdateSet]
      /\ \A p \in Editors : update'[p] # NoUpdate =>
           update'[p].of \in Known(row) /\ update'[p].to.name \in Spellings
  <2>1. NoUpdate \in UpdateSet
    BY DEF NoUpdate, NoTarget, UpdateSet, RowSet
  <2>2. \A p \in Editors : update[p] # NoUpdate =>
          update[p].of \in Known(row) /\ update[p].to.name \in Spellings
    BY DEF IInv, UpdatesKnow
  <2> HIDE DEF u, to
  <2>3. \A p \in Editors : update'[p] = IF p = q THEN NoUpdate ELSE update[p]
    BY <1>1, <1>5
  <2>4. update' \in [Editors -> UpdateSet]
    BY <1>1, <1>5, <2>1
  <2> HIDE DEF NoUpdate
  <2> QED
    BY <2>2, <2>3, <2>4
<1>8. budget' \in [writes : 0..MaxWrites, seeds : 0..MaxSeeds] /\ UNCHANGED <<window, lookup, seed>>
  BY <1>5 DEF IInv, Typed
<1> QED
  BY <1>6, <1>7, <1>8, RowsGrow

(* A catalogue has no more rows than it has room for. *)
LEMMA KnownIsFinite == ASSUME NamesAssumption, NEW table PROVE IsFiniteSet(Known(table))
<1>1. IsFiniteSet(Targets)
  BY FS_Interval DEF Targets, NamesAssumption
<1>2. Known(table) \subseteq Targets
  BY DEF Known
<1> QED
  BY <1>1, <1>2, FS_Subset

(* The shipped list, on an upgrade. *)
LEMMA SeedTargetsKeeps == ASSUME NamesAssumption, IInv, SeedTargets PROVE IInv'
<1>1. row \in Table /\ Distinct(row) /\ IsFiniteSet(Known(row))
  BY KnownIsFinite DEF IInv, Typed
<1>2. Cardinality(Known(row)) + Len(Shipped) <= MaxTargets /\ row' = ShippedInto(row)
  BY DEF SeedTargets, RoomToShip
<1>3. row' \in Table /\ Distinct(row') /\ Grown(row, row')
  BY <1>1, <1>2, Shipping
<1>4. Known(row) \subseteq Known(row')
  BY <1>1, <1>3, GrownOwn
<1>5. /\ UNCHANGED <<window, lookup, seed>> /\ update' \in [Editors -> UpdateSet]
      /\ \A q \in Editors : update'[q] # NoUpdate =>
           update'[q].of \in Known(row) /\ update'[q].to.name \in Spellings
      /\ budget' \in [writes : 0..MaxWrites, seeds : 0..MaxSeeds]
  BY DEF SeedTargets, IInv, Typed, UpdatesKnow
<1>6. Distinct(row)'
  BY <1>3 DEF Distinct
<1> QED
  BY <1>3, <1>4, <1>5, <1>6, RowsGrow
-----------------------------------------------------------------------------
(* A lookup, which writes nothing. *)

(* A lookup, field by field. *)
L(at, name, names, owner, hits) ==
    [at |-> at, name |-> name, names |-> names, owner |-> owner, hits |-> hits]

(* What stays of the invariant when only the lookup moves. *)
LEMMA OnlyLookup ==
    ASSUME IInv, UNCHANGED <<row, window, update, seed, budget>>, lookup' \in LookupSet, LookupKnows'
    PROVE  IInv'
BY DEF IInv, Typed, Distinct, Claims, Known, UpdatesKnow, SeedKnows

(* The first of its two reads sees one state of the catalogue. *)
LEMMA ReadNamesKeeps ==
    ASSUME NamesAssumption, IInv, NEW n \in Spellings, ReadNames(n)
    PROVE  IInv'
<1> DEFINE owner == IF Owners(row, n) = {} THEN 0 ELSE CHOOSE t \in Owners(row, n) : TRUE
<1>1. owner # 0 => owner \in Owners(row, n)
  OBVIOUS
<1>2. owner \in {0} \cup Targets
  BY <1>1 DEF Owners
<1>3. lookup' = L("names", n, row, owner, {}) /\ UNCHANGED <<row, window, update, seed, budget>>
  BY DEF ReadNames, L
<1>4. row \in Table /\ Distinct(row)
  BY DEF IInv, Typed
<1> HIDE DEF owner
<1>5. lookup' \in LookupSet
  BY <1>2, <1>3, <1>4 DEF L, LookupSet
<1>6. LookupKnows'
  BY <1>1, <1>3, <1>4 DEF L, LookupKnows, ExactIsNeverOutranked
<1> QED
  BY <1>3, <1>5, <1>6, OnlyLookup

(* The second may see another: the target asked for is still the answer, when
   its own row is as it was.                                                *)
LEMMA ReadAliasesKeeps ==
    ASSUME NamesAssumption, IInv, ReadAliases
    PROVE  IInv'
<1> DEFINE asked == lookup.owner
           owner == IF asked # 0 /\ row[asked] = lookup.names[asked] THEN asked ELSE 0
           hits  == ResolveIn(lookup.names, AliasesNow, lookup.name)
<1>1. /\ lookup \in LookupSet /\ lookup.at = "names" /\ row \in Table /\ Distinct(row)
      /\ lookup.names \in Table /\ Distinct(lookup.names) /\ Known(lookup.names) \subseteq Known(row)
      /\ lookup.name \in Spellings
      /\ lookup.owner # 0 => lookup.owner \in Owners(lookup.names, lookup.name)
  BY DEF IInv, Typed, LookupKnows, ReadAliases
<1>2. UNCHANGED <<row, window, update, seed, budget>>
  BY DEF ReadAliases
<1>3. lookup' = L("answered", lookup.name, <<>>, owner, hits)
  BY DEF ReadAliases, L
<1>4. owner # 0 => hits = {owner}
  <2> SUFFICES ASSUME owner # 0 PROVE hits = {asked}
    OBVIOUS
  <2>1. asked \in Owners(lookup.names, lookup.name) /\ row[asked] = lookup.names[asked]
    BY <1>1
  <2> HIDE DEF asked
  <2> QED
    BY <1>1, <2>1, ExactWins
<1>5. owner \in {0} \cup Targets /\ hits \subseteq Targets
  BY <1>1, HitsAreTargets DEF Owners
<1> HIDE DEF owner, hits
<1>6. lookup' \in LookupSet
  BY <1>1, <1>3, <1>5 DEF L, LookupSet
<1>7. LookupKnows'
  BY <1>3, <1>4 DEF L, LookupKnows, ExactIsNeverOutranked
<1> QED
  BY <1>2, <1>6, <1>7, OnlyLookup

(* The answer is given. *)
LEMMA ToldKeeps == ASSUME IInv, Told PROVE IInv'
<1>1. UNCHANGED <<row, window, update, seed, budget>> /\ lookup' = NoLookup
  BY DEF Told
<1>2. lookup' \in LookupSet
  BY <1>1 DEF NoLookup, LookupSet
<1>3. LookupKnows'
  BY <1>1 DEF NoLookup, LookupKnows, ExactIsNeverOutranked
<1> QED
  BY <1>1, <1>2, <1>3, OnlyLookup

-----------------------------------------------------------------------------
(* A seed file. *)

(* A seed, field by field. *)
F(at, names, groups, found, before) ==
    [at |-> at, names |-> names, groups |-> groups, found |-> found, before |-> before]

(* There is no seed at first. *)
LEMMA NoSeedIs == NoSeed \in SeedSet /\ NoSeed.at = "idle"
BY DEF NoSeed, SeedSet

(* What stays of the invariant when a seed moves, and the windows with it. *)
LEMMA OnlySeed ==
    ASSUME IInv, UNCHANGED <<row, update, lookup>>, window' \in [Targets -> Windows],
           budget' \in [writes : 0..MaxWrites, seeds : 0..MaxSeeds], seed' \in SeedSet, SeedKnows'
    PROVE  IInv'
<1>1. Typed' /\ UpdatesKnow' /\ LookupKnows'
  BY DEF IInv, Typed, UpdatesKnow, LookupKnows, ExactIsNeverOutranked
<1>2. Distinct(row)'
  BY DEF IInv, Distinct, Claims, Known
<1> QED
  BY <1>1, <1>2 DEF IInv

(* The catalogue is loaded. *)
LEMMA BeginSeedKeeps == ASSUME NamesAssumption, IInv, BeginSeed PROVE IInv'
<1>1. seed' = F("load", row, {}, <<>>, <<>>) /\ UNCHANGED <<row, window, update, lookup>>
  BY DEF BeginSeed, NoSeed, F
<1>2. budget' \in [writes : 0..MaxWrites, seeds : 0..MaxSeeds]
  <2>1. budget \in [writes : 0..MaxWrites, seeds : 0..MaxSeeds] /\ Spend("seeds")
    BY DEF IInv, Typed, BeginSeed
  <2> QED
    BY <2>1, Spent
<1>3. row \in Table /\ window \in [Targets -> Windows]
  BY DEF IInv, Typed
<1>4. seed' \in SeedSet
  BY <1>1, <1>3 DEF F, SeedSet
<1>5. SeedKnows'
  BY <1>1 DEF F, SeedKnows
<1> QED
  BY <1>1, <1>2, <1>3, <1>4, <1>5, OnlySeed

(* A group is the rows about the target of one of them. *)
LEMMA GroupIs ==
    ASSUME NamesAssumption, NEW found \in [Rows -> [target : Targets, to : Windows]], NEW g \in Groups(found)
    PROVE  /\ \E i \in Rows : i \in g /\ g = About(found, found[i].target)
           /\ g \subseteq Rows
<1>1. DOMAIN found = Rows
  OBVIOUS
<1> QED
  BY <1>1 DEF Groups, About

(* Each row of the file is found, before any window is written. *)
LEMMA ResolveSeedKeeps == ASSUME NamesAssumption, IInv, ResolveSeed PROVE IInv'
<1> DEFINE hits  == [i \in DOMAIN File |-> ResolveIn(seed.names, AliasesNow, File[i].name)]
           found == [i \in DOMAIN File |-> [target |-> CHOOSE t \in hits[i] : TRUE, to |-> File[i].to]]
<1>1. /\ UNCHANGED <<row, window, update, lookup, budget>>
      /\ seed' = IF \A i \in DOMAIN File : Cardinality(hits[i]) = 1
                 THEN F("write", <<>>, Groups(found), found, window)
                 ELSE NoSeed
  BY DEF ResolveSeed, F
<1>2. DOMAIN File = Rows /\ Len(File) \in Nat /\ Rows # {}
  <2>1. File \in Seq([name : Spellings, to : Nat]) /\ File # <<>>
    BY DEF NamesAssumption
  <2> QED
    BY <2>1 DEF Rows
<1>3. window \in [Targets -> Windows] /\ budget \in [writes : 0..MaxWrites, seeds : 0..MaxSeeds]
  BY DEF IInv, Typed
<1>4. CASE \A i \in DOMAIN File : Cardinality(hits[i]) = 1
  <2>1. ASSUME NEW i \in Rows PROVE found[i] \in [target : Targets, to : Windows]
    <3>1. hits[i] = ResolveIn(seed.names, AliasesNow, File[i].name) /\ Cardinality(hits[i]) = 1
      BY <1>2, <1>4
    <3>2. hits[i] \subseteq Targets
      BY <3>1, HitsAreTargets
    <3>3. File[i].to \in Windows
      BY <1>2 DEF Windows
    <3>4. found[i] = [target |-> CHOOSE t \in hits[i] : TRUE, to |-> File[i].to]
      BY <1>2
    <3> HIDE DEF hits, found
    <3>5. hits[i] # {}
      BY <3>1, FS_EmptySet
    <3> QED
      BY <3>2, <3>3, <3>4, <3>5
  <2>2. found \in [Rows -> [target : Targets, to : Windows]]
    BY <1>2, <2>1
  <2>3. seed' = F("write", <<>>, Groups(found), found, window)
    BY <1>1, <1>4
  <2> HIDE DEF found, hits
  <2>4. Groups(found) \subseteq SUBSET Rows /\ Groups(found) # {}
    <3>1. DOMAIN found = Rows
      BY <2>2
    <3>2. Groups(found) = {{j \in Rows : found[j].target = found[i].target} : i \in Rows}
      BY <3>1 DEF Groups
    <3>3. ASSUME NEW g \in Groups(found) PROVE g \subseteq Rows
      BY <3>2
    <3>4. PICK i \in Rows : TRUE
      BY <1>2
    <3>5. {j \in Rows : found[j].target = found[i].target} \in Groups(found)
      BY <3>2
    <3> QED
      BY <3>3, <3>5
  <2>5. seed' \in SeedSet
    BY <1>3, <2>2, <2>3, <2>4 DEF F, SeedSet
  <2>6. ASSUME NEW t \in Targets
        PROVE  window'[t] = IF About(found, t) \in Groups(found) THEN window[t]
                            ELSE Stated(found, window, t)
    <3>1. CASE About(found, t) \in Groups(found)
      BY <1>1, <3>1
    <3>2. CASE About(found, t) \notin Groups(found)
      <4>1. About(found, t) = {}
        <5>1. ASSUME NEW i \in About(found, t) PROVE FALSE
          <6>1. i \in DOMAIN found /\ found[i].target = t
            BY <5>1 DEF About
          <6> QED
            BY <3>2, <6>1 DEF About, Groups
        <5> QED
          BY <5>1
      <4> QED
        BY <1>1, <3>2, <4>1 DEF Stated
    <3> QED
      BY <3>1, <3>2
  <2>7. SeedKnows'
    BY <1>3, <2>2, <2>3, <2>4, <2>6 DEF F, SeedKnows
  <2>8. window' \in [Targets -> Windows] /\ budget' \in [writes : 0..MaxWrites, seeds : 0..MaxSeeds]
    BY <1>1, <1>3
  <2> QED
    BY <1>1, <2>5, <2>7, <2>8, OnlySeed
<1>5. CASE ~ \A i \in DOMAIN File : Cardinality(hits[i]) = 1
  <2>1. seed' = NoSeed
    BY <1>1, <1>5
  <2>2. seed' \in SeedSet /\ SeedKnows'
    BY <2>1, NoSeedIs DEF SeedKnows
  <2>3. window' \in [Targets -> Windows] /\ budget' \in [writes : 0..MaxWrites, seeds : 0..MaxSeeds]
    BY <1>1, <1>3
  <2> QED
    BY <1>1, <2>2, <2>3, OnlySeed
<1> QED
  BY <1>4, <1>5

(* One window is written, of the group whose first row comes first: the last
   row about its target says what it is, and no other window moves.         *)
LEMMA ApplySeedWindowKeeps == ASSUME NamesAssumption, IInv, ApplySeedWindow PROVE IInv'
<1> DEFINE First(g) == \A h \in seed.groups : Min(g) <= Min(h)
           rows == CHOOSE g \in seed.groups : First(g)
           found == seed.found
           last == found[Max(rows)]
<1>1. /\ seed.at = "write" /\ seed \in SeedSet
      /\ found \in [Rows -> [target : Targets, to : Windows]]
      /\ seed.before \in [Targets -> Windows]
      /\ seed.groups \subseteq Groups(found) /\ seed.groups # {}
      /\ \A t \in Targets :
           window[t] = IF About(found, t) \in seed.groups THEN seed.before[t]
                       ELSE Stated(found, seed.before, t)
      /\ window \in [Targets -> Windows]
      /\ budget \in [writes : 0..MaxWrites, seeds : 0..MaxSeeds]
  BY DEF ApplySeedWindow, IInv, Typed, SeedKnows
<1>2. /\ window' = [window EXCEPT ![last.target] = last.to]
      /\ seed' = F(IF seed.groups = {rows} THEN "done" ELSE "write", <<>>, seed.groups \ {rows},
                   found, seed.before)
      /\ UNCHANGED <<row, update, lookup, budget>>
  BY DEF ApplySeedWindow, F
<1>n. Len(File) \in Nat
  BY DEF NamesAssumption
<1> HIDE DEF found
<1>3. \A g \in seed.groups : g # {} /\ g \subseteq 1..Len(File) /\ Min(g) \in Nat
  <2>1. ASSUME NEW g \in seed.groups PROVE g # {} /\ g \subseteq 1..Len(File) /\ Min(g) \in Nat
    <3>1. g # {} /\ g \subseteq 1..Len(File)
      BY <1>1, GroupIs DEF Rows
    <3>2. Min(g) \in g
      BY <1>n, <3>1, Ends
    <3>3. Min(g) \in 1..Len(File)
      BY <3>1, <3>2
    <3>4. \A m \in 1..Len(File) : m \in Nat
      BY <1>n
    <3>5. Min(g) \in Nat
      BY <3>3, <3>4
    <3> QED
      BY <3>1, <3>5
  <2> QED
    BY <2>1
<1>4. \E g \in seed.groups : First(g)
  <2> DEFINE T == {Min(g) : g \in seed.groups}
  <2>1. T \subseteq Nat /\ T # {}
    BY <1>1, <1>3
  <2>2. PICK m \in T : \A x \in T : m <= x
    BY <2>1, LeastNat
  <2>3. PICK g \in seed.groups : m = Min(g)
    BY <2>2
  <2>4. \A h \in seed.groups : Min(h) \in T
    OBVIOUS
  <2> HIDE DEF T
  <2> QED
    BY <2>2, <2>3, <2>4
<1>5. rows \in seed.groups
  <2> HIDE DEF First
  <2> QED
    BY <1>4
<1> HIDE DEF rows
<1>6. PICK i \in Rows : i \in rows /\ rows = About(found, found[i].target)
  BY <1>1, <1>5, GroupIs
<1> DEFINE t == found[i].target
<1>7. t \in Targets /\ DOMAIN found = Rows
  BY <1>1
<1>8. Max(rows) \in rows
  BY <1>n, <1>3, <1>5, Ends
<1>9. Max(rows) \in Rows /\ last.target = t /\ last.to \in Windows
  BY <1>1, <1>6, <1>7, <1>8 DEF About
<1>10. Stated(found, seed.before, t) = last.to
  BY <1>6 DEF Stated
<1>11. window' = [window EXCEPT ![t] = last.to]
  BY <1>2, <1>9
<1>12. window' \in [Targets -> Windows]
  BY <1>1, <1>9, <1>11
<1>13. ASSUME NEW u \in Targets
       PROVE  window'[u] = IF About(found, u) \in seed.groups \ {rows} THEN seed.before[u]
                           ELSE Stated(found, seed.before, u)
  <2>1. CASE u = t
    BY <1>1, <1>6, <1>10, <1>11, <2>1
  <2>2. CASE u # t
    <3>1. About(found, u) # rows
      <4>1. i \notin About(found, u)
        BY <2>2 DEF About
      <4> QED
        BY <1>6, <4>1
    <3>2. window'[u] = window[u]
      BY <1>1, <1>11, <2>2
    <3> QED
      BY <1>1, <3>1, <3>2
  <2> QED
    BY <2>1, <2>2
<1> DEFINE at == IF seed.groups = {rows} THEN "done" ELSE "write"
<1>14. at \in {"write", "done"} /\ (at = "write" <=> seed.groups \ {rows} # {})
  BY <1>5
<1> HIDE DEF at, t, last
<1>15. seed.groups \ {rows} \in SUBSET SUBSET Rows
  BY <1>1 DEF SeedSet
<1>16. seed' = F(at, <<>>, seed.groups \ {rows}, found, seed.before)
  BY <1>2 DEF at
<1>17. seed' \in SeedSet
  BY <1>1, <1>14, <1>15, <1>16 DEF F, SeedSet
<1>18. SeedKnows'
  <2>1. /\ seed'.at = at /\ seed'.groups = seed.groups \ {rows} /\ seed'.found = found
        /\ seed'.before = seed.before
    BY <1>16 DEF F
  <2>2. seed'.groups \subseteq Groups(found)
    BY <1>1, <2>1
  <2>3. \A u \in Targets :
          window'[u] = IF About(seed'.found, u) \in seed'.groups THEN seed'.before[u]
                       ELSE Stated(seed'.found, seed'.before, u)
    BY <1>13, <2>1
  <2> QED
    BY <1>1, <1>14, <2>1, <2>2, <2>3 DEF SeedKnows
<1> QED
  BY <1>1, <1>2, <1>12, <1>17, <1>18, OnlySeed

(* The seed is done with. *)
LEMMA EndSeedKeeps == ASSUME IInv, EndSeed PROVE IInv'
<1>1. seed' = NoSeed /\ UNCHANGED <<row, window, update, lookup, budget>>
  BY DEF EndSeed
<1>2. window' \in [Targets -> Windows] /\ budget' \in [writes : 0..MaxWrites, seeds : 0..MaxSeeds]
  BY <1>1 DEF IInv, Typed
<1>3. seed' \in SeedSet /\ SeedKnows'
  BY <1>1, NoSeedIs DEF SeedKnows
<1> QED
  BY <1>1, <1>2, <1>3, OnlySeed

-----------------------------------------------------------------------------
(* The invariant holds at first, and every step keeps it. *)
LEMMA InitHolds == ASSUME NamesAssumption, Init PROVE IInv
<1>1. row = [t \in Targets |-> NoTarget] /\ NoTarget \in RowSet /\ row \in Table
  BY DEF Init, NoTarget, RowSet, Table
<1>2. Known(row) = {}
  BY <1>1 DEF Known, NoTarget
<1>3. Distinct(row)
  BY <1>2 DEF Distinct, Claims
<1>4. update = [q \in Editors |-> NoUpdate] /\ NoUpdate \in UpdateSet
  BY <1>1 DEF Init, NoUpdate, UpdateSet
<1>5. lookup = NoLookup /\ lookup \in LookupSet /\ lookup.at = "idle"
  BY DEF Init, NoLookup, LookupSet
<1>6. seed = NoSeed /\ seed \in SeedSet /\ seed.at = "idle"
  BY NoSeedIs DEF Init
<1>7. window \in [Targets -> Windows]
  BY DEF Init, Windows
<1>8. budget \in [writes : 0..MaxWrites, seeds : 0..MaxSeeds]
  BY DEF Init, NamesAssumption
<1>9. Typed
  BY <1>1, <1>4, <1>5, <1>6, <1>7, <1>8 DEF Typed
<1>10. UpdatesKnow /\ LookupKnows /\ SeedKnows
  BY <1>4, <1>5, <1>6 DEF UpdatesKnow, LookupKnows, SeedKnows, ExactIsNeverOutranked
<1> QED
  BY <1>3, <1>9, <1>10 DEF IInv

(* Every request and every step of a seed keeps it. *)
LEMMA StepKeeps == ASSUME NamesAssumption, IInv, [Next]_vars PROVE IInv'
<1>1. CASE UNCHANGED vars
  <2>1. UNCHANGED <<row, window, update, lookup, seed, budget>>
    BY <1>1 DEF vars
  <2>2. Typed' /\ Distinct(row)' /\ UpdatesKnow' /\ LookupKnows' /\ SeedKnows'
    BY <2>1 DEF IInv, Typed, Distinct, Claims, Known, UpdatesKnow, LookupKnows,
                SeedKnows, ExactIsNeverOutranked
  <2> QED
    BY <2>2 DEF IInv
<1>2. CASE Request
  <2>1. ASSUME NEW name \in Spellings, NEW aliases \in SUBSET Spellings, Create(name, aliases) PROVE IInv'
    BY <2>1, CreateKeeps
  <2>2. ASSUME NEW q \in Editors, CommitUpdate(q) PROVE IInv'
    BY <2>2, CommitUpdateKeeps
  <2>3. ASSUME NEW q \in Editors, NEW t \in Targets, BeginUpdate(q, t) PROVE IInv'
    BY <2>3, BeginUpdateKeeps
  <2>4. ASSUME NEW n \in Spellings, ReadNames(n) PROVE IInv'
    BY <2>4, ReadNamesKeeps
  <2> QED
    BY <1>2, <2>1, <2>2, <2>3, <2>4, ReadAliasesKeeps, ToldKeeps DEF Request
<1>3. CASE SeedCommand
  BY <1>3, SeedTargetsKeeps, BeginSeedKeeps, ResolveSeedKeeps, ApplySeedWindowKeeps, EndSeedKeeps
     DEF SeedCommand
<1> QED
  BY <1>1, <1>2, <1>3 DEF Next

(* It is an invariant of every catalogue and every order of its requests. *)
LEMMA Inductive == ASSUME NamesAssumption PROVE Spec => []IInv
<1>1. Init => IInv
  BY InitHolds
<1>2. IInv /\ [Next]_vars => IInv'
  BY StepKeeps
<1> QED
  BY <1>1, <1>2, PTL DEF Spec

(* Rows keep their types. *)
THEOREM TypeCorrect == ASSUME NamesAssumption PROVE Spec => []TypeOK
<1>1. IInv => TypeOK
  BY DEF IInv, Typed, Table, RowSet, Windows, TypeOK
<1> QED
  BY <1>1, Inductive, PTL

(* resolve.go:26-31: a spelling that is a target's own resolves to that target
   and to nothing else, whatever happens to other targets between the two
   reads, whatever is a prefix of what, and however many targets there are.  *)
THEOREM ExactHolds == ASSUME NamesAssumption PROVE Spec => []ExactIsNeverOutranked
<1>1. IInv => ExactIsNeverOutranked
  BY DEF IInv, LookupKnows
<1> QED
  BY <1>1, Inductive, PTL

(* What a claim nobody shares means. *)
LEMMA OneOwner ==
    ASSUME NEW table, Distinct(table), NEW n
    PROVE  Cardinality(Owners(table, n)) <= 1
<1>1. CASE Owners(table, n) = {}
  BY <1>1, FS_EmptySet
<1>2. CASE Owners(table, n) # {}
  <2>1. PICK t \in Owners(table, n) : TRUE
    BY <1>2
  <2>2. Owners(table, n) = {t}
    BY <2>1 DEF Owners, Distinct
  <2> QED
    BY <2>2, FS_Singleton
<1> QED
  BY <1>1, <1>2

(* seed.go:208-238 and embedded.go:400-407: a seed file that stopped leaves
   windows as they were or as the last row about them has them, and the
   shipped list, of any length, may be seeded into any catalogue an operator
   has made, and again.                                                     *)
THEOREM SeedsHold == ASSUME NamesAssumption PROVE Spec => []SeedsMayBeRunAgain
<1>1. ASSUME IInv PROVE SeedsMayBeRunAgain
  <2>1. ASSUME seed.at \in {"write", "done"}, NEW t \in Targets
        PROVE  \/ window[t] = Stated(seed.found, seed.before, t)
               \/ window[t] = seed.before[t] /\ seed.at # "done"
    BY <1>1, <2>1 DEF IInv, SeedKnows
  <2>2. ASSUME RoomToShip
        PROVE  /\ \A n \in Spellings : Cardinality(Owners(ShippedInto(row), n)) <= 1
               /\ ShippedInto(ShippedInto(row)) = ShippedInto(row)
               /\ \A t \in Known(row) : [ShippedInto(row)[t] EXCEPT !.aliases = row[t].aliases] = row[t]
    <3>1. row \in Table /\ Distinct(row) /\ IsFiniteSet(Known(row))
      BY <1>1, KnownIsFinite DEF IInv, Typed
    <3> DEFINE new == ShippedInto(row)
    <3>2. new \in Table /\ Distinct(new) /\ Grown(row, new) /\ ShippedInto(new) = new
      BY <2>2, <3>1, Shipping DEF RoomToShip
    <3> HIDE DEF new
    <3>3. ASSUME NEW t \in Known(row) PROVE [new[t] EXCEPT !.aliases = row[t].aliases] = row[t]
      <4>1. t \in Targets
        BY DEF Known
      <4>2. new[t] \in RowSet /\ row[t] \in RowSet
        BY <3>1, <3>2, <4>1 DEF Table
      <4>3. new[t].name = row[t].name /\ new[t].state = row[t].state
        BY <3>2 DEF Grown
      <4>4. [new[t] EXCEPT !.aliases = row[t].aliases] = R(row[t].name, row[t].aliases, row[t].state)
        BY <4>2, <4>3, AliasesSet
      <4>5. row[t] = R(row[t].name, row[t].aliases, row[t].state)
        BY <4>2 DEF R, RowSet
      <4> QED
        BY <4>4, <4>5
    <3> QED
      BY <3>2, <3>3, OneOwner DEF new
  <2> QED
    BY <2>1, <2>2 DEF SeedsMayBeRunAgain, Stated, About
<1> QED
  BY <1>1, Inductive, PTL
=============================================================================
