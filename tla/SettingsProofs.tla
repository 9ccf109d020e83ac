--------------------------- MODULE SettingsProofs ---------------------------
(***************************************************************************)
(* Theorems of Settings for any settings, values and administrators, any   *)
(* number of rows in either ledger and any clock.                          *)
(***************************************************************************)
EXTENDS Settings, TLAPS, FiniteSetTheorems

-----------------------------------------------------------------------------
(* The inductive invariant.  A ledger is a chain: its hashes are 1, 2, up to
   its length, and each row names the one before.  An administrator's copy is
   the settings under a tag that says how long the ledger was then; and the
   ledger at that length, unless they wrote over rows they had not read.   *)
Chained(chain) ==
    /\ IsFiniteSet(chain)
    /\ \A r \in chain : r.hash \in 1..Cardinality(chain) /\ r.prev = r.hash - 1
    /\ \A n \in 1..Cardinality(chain) : \E r \in chain : r.hash = n
    /\ \A r, s \in chain : r.hash = s.hash => r = s

Prefix(chain, k) == {r \in chain : r.hash <= k}

CopyKnows(a) ==
    copy[a] = NothingRead \/
    \E updated : \E k \in 0..Cardinality(changes) :
      /\ copy[a].tag = <<copy[a].values, updated, k>>
      /\ a \notin Careless => copy[a].changes = Prefix(changes, k)

LatestAbout(who) ==
    LET about == {g \in grants : g.about = who} IN
    {g \in about : \A h \in about : h.hash <= g.hash}

(* Every decision supersedes the one before it about the same identity. *)
DecisionsFollow ==
    /\ \A g \in grants : g.over < g.hash
    /\ \A g, h \in grants : g.id = h.id => g = h
    /\ \A who \in Admins : Tail(who) = LatestAbout(who)

IInv ==
    /\ TypeOK
    /\ Chained(changes) /\ Chained(grants)
    /\ \A a \in Admins : CopyKnows(a)
    /\ DecisionsFollow

-----------------------------------------------------------------------------
(* instancegrant/service.go:379-417: the row no row names is the last one. *)
LEMMA TailIsLast == ASSUME NEW chain, Chained(chain) PROVE ChainTail(chain) = Cardinality(chain)
<1> DEFINE n == Cardinality(chain)
<1>n. n \in Nat
  BY FS_CardinalityType DEF Chained
<1>1. CASE chain = {}
  BY <1>1, FS_EmptySet DEF ChainTail
<1>2. CASE chain # {}
  <2>1. n >= 1
    BY <1>2, <1>n, FS_EmptySet DEF Chained
  <2>2. PICK last \in chain : last.hash = n
    BY <2>1, <1>n DEF Chained
  <2>3. last \in Tails(chain)
    BY <2>2, <1>n DEF Tails, Chained
  <2>4. ASSUME NEW r \in Tails(chain) PROVE r = last
    <3>1. r \in chain /\ r.hash \in 1..n /\ \A s \in chain : s.prev # r.hash
      BY <2>4 DEF Tails, Chained
    <3>2. r.hash + 1 \in 1..n => FALSE
      <4>1. SUFFICES ASSUME r.hash + 1 \in 1..n PROVE FALSE
        OBVIOUS
      <4>2. PICK s \in chain : s.hash = r.hash + 1
        BY <4>1 DEF Chained
      <4>3. s.prev = s.hash - 1
        BY DEF Chained
      <4> QED
        BY <3>1, <4>2, <4>3
    <3>3. r.hash = n
      BY <3>1, <3>2, <1>n
    <3> QED
      BY <2>2, <3>1, <3>3 DEF Chained
  <2>5. Tails(chain) = {last}
    BY <2>3, <2>4
  <2> QED
    BY <1>2, <2>2, <2>5 DEF ChainTail
<1> QED
  BY <1>1, <1>2

(* m rows, numbered on from n, each naming the one before. *)
Follow(new, n, m) ==
    /\ m \in Nat /\ IsFiniteSet(new) /\ m = Cardinality(new)
    /\ \A r \in new : r.hash \in (n + 1)..(n + m) /\ r.prev = r.hash - 1
    /\ \A k \in 1..m : \E r \in new : r.hash = n + k
    /\ \A r, s \in new : r.hash = s.hash => r = s

(* A ledger that gains rows numbered from its end is a chain again. *)
LEMMA Extended ==
    ASSUME NEW chain, Chained(chain), NEW n \in Nat, n = Cardinality(chain),
           NEW new, NEW m \in Nat, Follow(new, n, m)
    PROVE  /\ Chained(chain \cup new)
           /\ Cardinality(chain \cup new) = n + m
           /\ \A k \in 0..n : Prefix(chain \cup new, k) = Prefix(chain, k)
           /\ Prefix(chain \cup new, n + m) = chain \cup new
<1>f. /\ m \in Nat /\ IsFiniteSet(new) /\ m = Cardinality(new)
      /\ \A r \in new : r.hash \in (n + 1)..(n + m) /\ r.prev = r.hash - 1
      /\ \A k \in 1..m : \E r \in new : r.hash = n + k
      /\ \A r, s \in new : r.hash = s.hash => r = s
  BY DEF Follow
<1>n. n \in Nat /\ IsFiniteSet(chain) /\ \A r \in chain : r.hash \in 1..n
  BY FS_CardinalityType DEF Chained
<1>1. chain \cap new = {}
  BY <1>f, <1>n
<1>2. IsFiniteSet(chain \cup new) /\ Cardinality(chain \cup new) = n + m
  <2>1. /\ IsFiniteSet(chain \cup new)
        /\ Cardinality(chain \cup new) = n + Cardinality(new) - Cardinality(chain \cap new)
    BY <1>f, <1>n, FS_Union
  <2>2. Cardinality(chain \cap new) = 0
    BY <1>1, FS_EmptySet
  <2> QED
    BY <2>1, <2>2, <1>f, <1>n
<1>3. ASSUME NEW k \in 1..(n + m) PROVE \E r \in chain \cup new : r.hash = k
  <2>1. CASE k <= n
    BY <2>1, <1>n DEF Chained
  <2>2. CASE k > n
    <3>1. k - n \in 1..m /\ n + (k - n) = k
      BY <2>2, <1>f, <1>n
    <3> QED
      BY <1>f, <3>1
  <2> QED
    BY <2>1, <2>2, <1>f, <1>n
<1>4. \A r \in chain \cup new : r.hash \in 1..(n + m) /\ r.prev = r.hash - 1
  BY <1>f, <1>n DEF Chained
<1>5. \A r, s \in chain \cup new : r.hash = s.hash => r = s
  BY <1>f, <1>n DEF Chained
<1>6. Chained(chain \cup new)
  BY <1>2, <1>3, <1>4, <1>5 DEF Chained
<1>7. \A k \in 0..n : Prefix(chain \cup new, k) = Prefix(chain, k)
  BY <1>f, <1>n DEF Prefix
<1>8. Prefix(chain \cup new, n + m) = chain \cup new
  BY <1>4, <1>f, <1>n DEF Prefix
<1> QED
  BY <1>2, <1>6, <1>7, <1>8

(* plan: the place of a setting among those that move.  Distinct settings have
   distinct places, and every place is taken.                              *)
Places(set) == [s \in set |-> Cardinality({t \in set : t < s}) + 1]

(* To count who is before one is to number them. *)
LEMMA PlacesAreTaken ==
    ASSUME NEW set, set \subseteq Int, IsFiniteSet(set)
    PROVE  Places(set) \in Bijection(set, 1..Cardinality(set))
<1> DEFINE before(s) == {t \in set : t < s}
           m         == Cardinality(set)
<1>m. m \in Nat /\ IsFiniteSet(1..m) /\ Cardinality(1..m) = m
  BY FS_CardinalityType, FS_Interval
<1>1. ASSUME NEW s \in set PROVE IsFiniteSet(before(s)) /\ Cardinality(before(s)) \in Nat
  BY FS_Subset, FS_CardinalityType
<1>2. ASSUME NEW s \in set PROVE Cardinality(before(s)) < m
  <2>1. before(s) \in SUBSET (set \ {s})
    BY <1>2
  <2>2. IsFiniteSet(set \ {s}) /\ Cardinality(set \ {s}) = m - 1
    BY <1>2, FS_RemoveElement
  <2>3. Cardinality(before(s)) <= m - 1
    BY <2>1, <2>2, FS_Subset
  <2>4. Cardinality(before(s)) \in Nat
    BY <1>1, <1>2
  <2> HIDE DEF before, m
  <2> QED
    BY <2>3, <2>4, <1>m
<1>3. ASSUME NEW s \in set, NEW u \in set, s < u PROVE Cardinality(before(s)) < Cardinality(before(u))
  <2>0. s \in Int /\ u \in Int /\ \A t \in set : t \in Int
    BY <1>3
  <2>1. before(s) \cup {s} \in SUBSET before(u) /\ s \notin before(s)
    <3>1. s \in before(u) /\ ~(s < s)
      BY <1>3, <2>0
    <3>2. ASSUME NEW t \in before(s) PROVE t \in before(u)
      <4>1. t \in set /\ t < s
        BY <3>2
      <4>2. t < u
        BY <4>1, <1>3, <2>0
      <4> QED
        BY <4>1, <4>2
    <3>3. s \notin before(s)
      BY <3>1
    <3> QED
      BY <3>1, <3>2, <3>3
  <2>2. Cardinality(before(s) \cup {s}) = Cardinality(before(s)) + 1
    BY <2>1, <1>1, FS_AddElement
  <2>3. Cardinality(before(s) \cup {s}) <= Cardinality(before(u))
    BY <2>1, <1>1, FS_Subset
  <2> QED
    BY <2>2, <2>3, <1>1
<1> HIDE DEF before
<1>4. Places(set) = [s \in set |-> Cardinality(before(s)) + 1]
  BY DEF Places, before
<1>5. Places(set) \in [set -> 1..m]
  BY <1>1, <1>2, <1>4, <1>m
<1>6. \A s, u \in set : Places(set)[s] = Places(set)[u] => s = u
  <2> SUFFICES ASSUME NEW s \in set, NEW u \in set, Places(set)[s] = Places(set)[u] PROVE s = u
    OBVIOUS
  <2>1. Cardinality(before(s)) = Cardinality(before(u))
    BY <1>1, <1>4
  <2>2. ~(s < u) /\ ~(u < s)
    BY <2>1, <1>1, <1>3
  <2> QED
    BY <2>2
<1>7. Places(set) \in Injection(set, 1..m)
  BY <1>5, <1>6 DEF Injection, IsInjective
<1>8. Places(set) \in Surjection(set, 1..m)
  BY <1>7, <1>m, FS_Injection
<1> QED
  BY <1>7, <1>8 DEF Bijection

-----------------------------------------------------------------------------
(* The rows an update appends. *)
RowOf(values, s) ==
    LET before == {t \in Moves(values) : t < s}
        hash   == Next1(changes) + Cardinality(before)
    IN  [hash  |-> hash, id |-> hash, about |-> s, at |-> ticks,
         prev  |-> IF before = {} THEN ChainTail(changes) ELSE hash - 1,
         old   |-> instance.values[s], new |-> values[s]]

(* The settings that move are some of the catalogue. *)
LEMMA MovesAreSome ==
    ASSUME SettingsAssumption, NEW values
    PROVE  IsFiniteSet(Moves(values)) /\ Moves(values) \subseteq Int
<1>1. MaxSwitch \in Int /\ Moves(values) \in SUBSET (1..MaxSwitch)
  BY DEF SettingsAssumption, Moves, Switches
<1>2. IsFiniteSet(1..MaxSwitch)
  BY <1>1, FS_Interval
<1>3. IsFiniteSet(Moves(values))
  BY <1>1, <1>2, FS_Subset
<1> QED
  BY <1>1, <1>3

(* plan: they are numbered from the end of the ledger in the order of the
   catalogue, each after the one before.                                   *)
LEMMA RowsFollow ==
    ASSUME SettingsAssumption, Chained(changes), NEW values, NEW s \in Moves(values)
    PROVE  LET r == RowOf(values, s)
               p == Places(Moves(values))[s]
           IN  /\ r.hash = Cardinality(changes) + p /\ r.prev = r.hash - 1 /\ r.id = r.hash
               /\ p \in 1..Cardinality(Moves(values))
               /\ r.about = s /\ r.at = ticks /\ r.old = instance.values[s] /\ r.new = values[s]
<1> DEFINE set    == Moves(values)
           before == {t \in set : t < s}
           n      == Cardinality(changes)
           hash   == n + 1 + Cardinality(before)
<1>1. IsFiniteSet(set) /\ set \subseteq Int
  BY MovesAreSome
<1>2. n \in Nat /\ IsFiniteSet(before) /\ Cardinality(before) \in Nat
  BY <1>1, FS_Subset, FS_CardinalityType DEF Chained
<1>3. Places(set)[s] = Cardinality(before) + 1 /\ Places(set)[s] \in 1..Cardinality(set)
  BY <1>1, PlacesAreTaken DEF Places, Bijection, Injection
<1>4. ChainTail(changes) = n
  BY TailIsLast
<1>5. before = {} => Cardinality(before) = 0
  BY FS_EmptySet
<1>6. RowOf(values, s) = [hash  |-> hash, id |-> hash, about |-> s, at |-> ticks,
                          prev  |-> IF before = {} THEN n ELSE hash - 1,
                          old   |-> instance.values[s], new |-> values[s]]
  BY <1>4 DEF RowOf, Next1
<1> HIDE DEF before, n, set
<1>7. (IF before = {} THEN n ELSE hash - 1) = hash - 1 /\ hash = n + Places(set)[s]
  BY <1>2, <1>3, <1>5
<1> HIDE DEF hash
<1> QED
  BY <1>3, <1>6, <1>7 DEF n, set

(* Apply: the rows it appends go on from the head of the ledger, one by one. *)
LEMMA AppendedIs ==
    ASSUME SettingsAssumption, Chained(changes), NEW values
    PROVE  LET new == Appended(values)
               n   == Cardinality(changes)
               m   == Cardinality(Moves(values))
           IN  /\ Follow(new, n, m)
               /\ \A r \in new : /\ r.about \in Moves(values) /\ r.at = ticks /\ r.id = r.hash
                                 /\ r.old = instance.values[r.about] /\ r.new = values[r.about]
<1> DEFINE set   == Moves(values)
           new   == Appended(values)
           n     == Cardinality(changes)
           m     == Cardinality(set)
           place == Places(set)
           f     == [s \in set |-> RowOf(values, s)]
<1>1. IsFiniteSet(set) /\ set \subseteq Int
  BY MovesAreSome
<1>2. n \in Nat /\ m \in Nat
  BY <1>1, FS_CardinalityType DEF Chained
<1>3. new = {RowOf(values, s) : s \in set}
  BY DEF Appended, RowOf
<1>4. place \in Bijection(set, 1..m)
  BY <1>1, PlacesAreTaken
<1>5. \A s \in set :
        /\ RowOf(values, s).hash = n + place[s] /\ RowOf(values, s).prev = RowOf(values, s).hash - 1
        /\ RowOf(values, s).id = RowOf(values, s).hash /\ place[s] \in 1..m
        /\ RowOf(values, s).about = s /\ RowOf(values, s).at = ticks
        /\ RowOf(values, s).old = instance.values[s] /\ RowOf(values, s).new = values[s]
  BY RowsFollow
<1> HIDE DEF set, new, n, m, place
<1>6. \A s, u \in set : place[s] = place[u] => s = u
  BY <1>4 DEF Bijection, Injection, IsInjective
<1>7. \A k \in 1..m : \E s \in set : place[s] = k
  BY <1>4 DEF Bijection, Surjection
<1>8. \A s, u \in set : RowOf(values, s).hash = RowOf(values, u).hash => s = u
  BY <1>2, <1>5, <1>6
<1>9. f \in Bijection(set, new)
  <2>1. f \in [set -> new] /\ \A t \in new : \E s \in set : f[s] = t
    BY <1>3
  <2>2. \A s, u \in set : f[s] = f[u] => s = u
    BY <1>8
  <2> QED
    BY <2>1, <2>2 DEF Bijection, Injection, Surjection, IsInjective
<1>10. IsFiniteSet(new) /\ Cardinality(new) = m
  BY <1>1, <1>9, FS_Bijection DEF ExistsBijection, m
<1>11. \A r \in new : r.hash \in (n + 1)..(n + m) /\ r.prev = r.hash - 1 /\ r.id = r.hash
  BY <1>2, <1>3, <1>5
<1>12. \A k \in 1..m : \E r \in new : r.hash = n + k
  BY <1>3, <1>5, <1>7
<1>13. \A r, s \in new : r.hash = s.hash => r = s
  BY <1>3, <1>8
<1>14. \A r \in new : /\ r.about \in set /\ r.at = ticks
                      /\ r.old = instance.values[r.about] /\ r.new = values[r.about]
  BY <1>3, <1>5
<1> QED
  <2>1. Follow(new, n, m)
    BY <1>2, <1>10, <1>11, <1>12, <1>13 DEF Follow
  <2> QED
    BY <2>1, <1>11, <1>14 DEF set, new, n, m

-----------------------------------------------------------------------------
(* A copy whose tag is that of the present is the present. *)
LEMMA TagIsPresent ==
    ASSUME IInv, NEW a \in Admins, copy[a].tag = ETag(instance, changes)
    PROVE  copy[a].values = instance.values /\ (a \in Careless \/ copy[a].changes = changes)
<1>1. ETag(instance, changes) = <<instance.values, instance.updated, Cardinality(changes)>>
  BY TailIsLast DEF IInv, ETag
<1>2. copy[a] # NothingRead
  BY <1>1 DEF NothingRead
<1>3. PICK updated : \E k \in 0..Cardinality(changes) :
        /\ copy[a].tag = <<copy[a].values, updated, k>>
        /\ a \notin Careless => copy[a].changes = Prefix(changes, k)
  BY <1>2 DEF IInv, CopyKnows
<1>k. PICK k \in 0..Cardinality(changes) :
        /\ copy[a].tag = <<copy[a].values, updated, k>>
        /\ a \notin Careless => copy[a].changes = Prefix(changes, k)
  BY <1>3
<1>4. copy[a].values = instance.values /\ k = Cardinality(changes)
  BY <1>1, <1>k
<1>5. Prefix(changes, Cardinality(changes)) = changes
  BY FS_CardinalityType DEF Prefix, IInv, Chained
<1> QED
  BY <1>k, <1>4, <1>5

(* RequireIfMatch lets through who has read the present, or asks for no
   version in particular.                                                  *)
LEMMA MatchingIsPresent ==
    ASSUME IInv, NEW a \in Admins, Matches(a)
    PROVE  \/ a \in Careless
           \/ copy[a].values = instance.values /\ copy[a].changes = changes
BY TagIsPresent DEF Matches

(* A ledger nobody appended to leaves every copy what it was. *)
LEMMA CopiesStay ==
    ASSUME IInv, UNCHANGED changes, NEW a \in Admins, copy'[a] = copy[a]
    PROVE  CopyKnows(a)'
BY DEF IInv, CopyKnows, NothingRead

(* The steps that write neither ledger nor copy. *)
LEMMA QuietKeeps ==
    ASSUME IInv, TypeOK', UNCHANGED <<changes, grants, copy>>
    PROVE  IInv'
<1>1. \A a \in Admins : CopyKnows(a)'
  BY CopiesStay
<1>2. Chained(changes)' /\ Chained(grants)'
  BY DEF IInv
<1>3. DecisionsFollow'
  BY DEF IInv, DecisionsFollow, Tail, LatestAbout
<1> QED
  BY <1>1, <1>2, <1>3 DEF IInv

(* A read gives a copy of both ledgers, as they are, under their tag. *)
LEMMA DescribeKeeps == ASSUME SettingsAssumption, IInv, NEW a \in Admins, Describe(a) PROVE IInv'
<1>1. UNCHANGED <<instance, changes, grants, wizard, budget>> /\ serving' = serving \ {a}
  BY DEF Describe, Done
<1>2. TypeOK'
  BY <1>1 DEF IInv, TypeOK, budget
<1>3. ASSUME NEW b \in Admins, copy'[b] = copy[b] PROVE CopyKnows(b)'
  BY <1>1, <1>3, CopiesStay
<1>4. ASSUME NEW b \in Admins, copy'[b] # copy[b] PROVE CopyKnows(b)'
  <2>1. copy'[b] = Reading(instance, changes)
    BY <1>4 DEF Describe
  <2>2. copy'[b].tag = <<copy'[b].values, instance.updated, Cardinality(changes)>> /\ copy'[b].changes = changes
    BY <2>1, TailIsLast DEF Reading, ETag, IInv
  <2>3. Prefix(changes, Cardinality(changes)) = changes /\ Cardinality(changes) \in 0..Cardinality(changes)
    BY FS_CardinalityType DEF Prefix, IInv, Chained
  <2> QED
    BY <1>1, <2>2, <2>3 DEF CopyKnows
<1>5. Chained(changes)' /\ Chained(grants)' /\ DecisionsFollow'
  BY <1>1 DEF IInv, DecisionsFollow, Tail, LatestAbout
<1> QED
  BY <1>2, <1>3, <1>4, <1>5 DEF IInv

(* Apply: the rows go to the end of the ledger, the copy that matched goes with
   it, and every other one is of the ledger as it was.                     *)
LEMMA ApplyKeeps == ASSUME SettingsAssumption, IInv, NEW a \in Admins, Apply(a) PROVE IInv'
<1>0. PICK values \in [Switches -> Values] : \E told \in BOOLEAN :
        /\ Moves(values) # {}
        /\ Cardinality(changes) + Cardinality(Moves(values)) <= MaxChanges
        /\ instance' = [values |-> values, updated |-> ticks]
        /\ changes' = changes \cup Appended(values)
        /\ copy' = IF told
                   THEN [copy EXCEPT ![a] = [tag     |-> ETag(instance', changes'), values |-> values,
                                             changes |-> copy[a].changes \cup Appended(values)]]
                   ELSE copy
  BY DEF Apply
<1>u. UNCHANGED <<grants, wizard, ticks, setups>> /\ serving' = serving \ {a} /\ Matches(a)
  BY DEF Apply, Done, budget
<1>n. PICK n : n = Cardinality(changes)
  OBVIOUS
<1>m. PICK m : m = Cardinality(Moves(values))
  OBVIOUS
<1>s. PICK new : new = Appended(values)
  OBVIOUS
<1>1. /\ n \in Nat /\ m \in Nat /\ n + m <= MaxChanges
      /\ \A r \in new : /\ r.hash \in (n + 1)..(n + m) /\ r.prev = r.hash - 1 /\ r.id = r.hash
                        /\ r.about \in Moves(values) /\ r.at = ticks
                        /\ r.old = instance.values[r.about] /\ r.new = values[r.about]
  <2>1. Follow(new, n, m) /\ n \in Nat
    BY <1>n, <1>m, <1>s, AppendedIs, FS_CardinalityType DEF IInv, Chained
  <2>2. \A r \in new : /\ r.about \in Moves(values) /\ r.at = ticks /\ r.id = r.hash
                       /\ r.old = instance.values[r.about] /\ r.new = values[r.about]
    BY <1>s, AppendedIs DEF IInv
  <2> QED
    BY <2>1, <2>2, <1>0, <1>n, <1>m DEF Follow
<1>2. /\ Chained(changes \cup new) /\ Cardinality(changes \cup new) = n + m
      /\ \A k \in 0..n : Prefix(changes \cup new, k) = Prefix(changes, k)
      /\ Prefix(changes \cup new, n + m) = changes \cup new
  <2>1. Follow(new, n, m)
    BY <1>n, <1>m, <1>s, AppendedIs DEF IInv
  <2>2. Chained(changes)
    BY DEF IInv
  <2>3. n \in Nat /\ m \in Nat
    BY <1>1
  <2> QED
    BY <1>n, <2>1, <2>2, <2>3, Extended
<1>c. changes' = changes \cup new
  BY <1>0, <1>s
<1>3. Chained(changes') /\ Cardinality(changes') = n + m
  BY <1>c, <1>2
<1>4. ASSUME NEW b \in Admins, copy'[b] = copy[b] PROVE CopyKnows(b)'
  <2>1. CASE copy[b] = NothingRead
    BY <1>4, <2>1 DEF CopyKnows, NothingRead
  <2>2. CASE copy[b] # NothingRead
    <3>1. PICK updated : \E k \in 0..n :
            /\ copy[b].tag = <<copy[b].values, updated, k>>
            /\ b \notin Careless => copy[b].changes = Prefix(changes, k)
      BY <1>n, <2>2 DEF IInv, CopyKnows
    <3>2. PICK k \in 0..n :
            /\ copy[b].tag = <<copy[b].values, updated, k>>
            /\ b \notin Careless => copy[b].changes = Prefix(changes, k)
      BY <3>1
    <3>3. /\ k \in 0..Cardinality(changes')
          /\ b \notin Careless => copy'[b].changes = Prefix(changes', k)
      <4>1. k \in 0..Cardinality(changes')
        BY <1>1, <1>3
      <4>2. Prefix(changes', k) = Prefix(changes, k)
        BY <1>2, <1>c
      <4> QED
        BY <1>4, <3>2, <4>1, <4>2
    <3> QED
      BY <1>4, <3>2, <3>3 DEF CopyKnows
  <2> QED
    BY <2>1, <2>2
<1>5. ASSUME NEW b \in Admins, copy'[b] # copy[b] PROVE CopyKnows(b)'
  <2>1. copy'[b] = [tag |-> ETag(instance', changes'), values |-> values, changes |-> copy[a].changes \cup new]
    BY <1>0, <1>5, <1>s
  <2>2. b = a /\ (a \in Careless \/ copy[a].changes = changes)
    BY <1>0, <1>5, <1>u, MatchingIsPresent
  <2>3. ETag(instance', changes') = <<values, ticks, n + m>>
    BY <1>0, <1>3, TailIsLast DEF ETag
  <2>4. /\ copy'[b].tag = <<copy'[b].values, ticks, n + m>>
        /\ b \notin Careless => copy'[b].changes = Prefix(changes', n + m)
    <3>1. copy'[b].tag = <<copy'[b].values, ticks, n + m>>
      BY <2>1, <2>3
    <3>2. b \notin Careless => copy'[b].changes = changes \cup new
      BY <2>1, <2>2
    <3> QED
      BY <3>1, <3>2, <1>c, <1>2
  <2>5. n + m \in 0..Cardinality(changes')
    BY <1>1, <1>3
  <2> QED
    BY <2>4, <2>5 DEF CopyKnows
<1>6. TypeOK'
  <2>1. instance' \in [values : [Switches -> Values], updated : 0..MaxTicks]
    BY <1>0 DEF IInv, TypeOK
  <2>2. ASSUME NEW r \in changes'
        PROVE  /\ r \in [hash : 1..MaxChanges, id : 1..MaxChanges, about : Switches, at : 0..MaxTicks,
                         prev : 0..MaxChanges, old : Values, new : Values]
               /\ r.old # r.new /\ r.prev < r.hash
    <3>1. CASE r \in changes
      BY <3>1 DEF IInv, TypeOK
    <3>2. CASE r \in new
      <4>1. /\ r.hash \in 1..MaxChanges /\ r.id \in 1..MaxChanges /\ r.prev \in 0..MaxChanges
            /\ r.prev < r.hash
        BY <1>1, <3>2 DEF SettingsAssumption
      <4>2. /\ r.about \in Switches /\ r.at \in 0..MaxTicks /\ r.old \in Values /\ r.new \in Values
            /\ r.old # r.new
        BY <1>1, <3>2 DEF Moves, IInv, TypeOK
      <4>3. \E s \in Moves(values) : r = RowOf(values, s)
        BY <1>s, <3>2 DEF Appended, RowOf
      <4>4. r = [hash |-> r.hash, id |-> r.id, about |-> r.about, at |-> r.at,
                 prev |-> r.prev, old |-> r.old, new |-> r.new]
        BY <4>3 DEF RowOf
      <4> QED
        BY <4>1, <4>2, <4>4
    <3> QED
      BY <3>1, <3>2, <1>c
  <2>3. serving' \subseteq Admins
    BY <1>u DEF IInv, TypeOK
  <2> QED
    BY <2>1, <2>2, <2>3, <1>u DEF IInv, TypeOK
<1>7. Chained(grants)' /\ DecisionsFollow'
  BY <1>u DEF IInv, DecisionsFollow, Tail, LatestAbout
<1> QED
  BY <1>3, <1>4, <1>5, <1>6, <1>7 DEF IInv

(* Decide: the new decision is the head of the chain, supersedes the one about
   the same identity, and leaves the others theirs.                        *)
LEMMA DecideKeeps ==
    ASSUME SettingsAssumption, IInv, NEW who \in Admins, NEW decision \in {"granted", "revoked"},
           Decide(who, decision)
    PROVE  IInv'
<1>n. PICK n : n = Cardinality(grants)
  OBVIOUS
<1>o. PICK over : over = IF Tail(who) = {} THEN 0 ELSE (CHOOSE g \in Tail(who) : TRUE).hash
  OBVIOUS
<1>t. /\ n \in Nat /\ ChainTail(grants) = n /\ Chained(grants)
      /\ \A g \in grants : g.hash \in 1..n /\ g.over < g.hash
      /\ \A g, h \in grants : g.hash = h.hash \/ g.id = h.id => g = h
  BY <1>n, TailIsLast, FS_CardinalityType DEF IInv, Chained, DecisionsFollow
<1>u. UNCHANGED <<instance, changes, copy, serving, wizard, ticks, setups>>
  BY DEF Decide, budget
<1>0. PICK id \in Ids \ {g.id : g \in grants} :
        grants' = grants \cup {[hash |-> n + 1, id |-> id, prev |-> n, about |-> who, says |-> decision,
                                over |-> over]}
  BY <1>n, <1>o, <1>t DEF Decide, Next1
<1>g. PICK new : /\ grants' = grants \cup {new}
                 /\ new = [hash |-> n + 1, id |-> id, prev |-> n, about |-> who, says |-> decision, over |-> over]
  BY <1>0
<1>w. /\ new.hash = n + 1 /\ new.id = id /\ new.prev = n /\ new.about = who /\ new.over = over
      /\ \A g \in grants : g.id # id
  BY <1>g
<1>l. \A g, h \in Tail(who) : g = h
  <2> SUFFICES ASSUME NEW g \in Tail(who), NEW h \in Tail(who) PROVE g = h
    OBVIOUS
  <2>1. g \in LatestAbout(who) /\ h \in LatestAbout(who)
    BY DEF IInv, DecisionsFollow
  <2>2. g \in grants /\ h \in grants /\ g.hash <= h.hash /\ h.hash <= g.hash
    BY <2>1 DEF LatestAbout
  <2>3. g.hash = h.hash
    BY <2>2, <1>t
  <2> QED
    BY <2>2, <2>3, <1>t
<1>v. \/ over = 0 /\ Tail(who) = {} /\ decision = "granted"
      \/ \E last \in Tail(who) : over = last.hash /\ Tail(who) = {last}
  <2>1. CASE Tail(who) = {}
    BY <2>1, <1>o DEF Decide
  <2>2. CASE Tail(who) # {}
    <3>1. PICK last \in Tail(who) : TRUE
      BY <2>2
    <3>2. Tail(who) = {last}
      BY <3>1, <1>l
    <3> QED
      BY <3>1, <3>2, <2>2, <1>o
  <2> QED
    BY <2>1, <2>2
<1>r. over \in 0..n
  BY <1>v, <1>t DEF Tail
<1>1. Chained(grants')
  <2>1. IsFiniteSet({new}) /\ Cardinality({new}) = 1
    BY FS_Singleton
  <2>2. Follow({new}, n, 1)
    BY <2>1, <1>w, <1>t DEF Follow
  <2> QED
    BY <2>2, <1>n, <1>t, <1>g, Extended
<1>2. \A g, h \in grants' : g.id = h.id => g = h
  BY <1>g, <1>w, <1>t
<1>3. n + 1 \in Ids
  <2> DEFINE left == Ids \ {id}
             f    == [g \in grants |-> g.id]
  <2>1. MaxDecisions \in Nat /\ IsFiniteSet(Ids) /\ Cardinality(Ids) = MaxDecisions
    BY FS_Interval DEF Ids, SettingsAssumption
  <2>2. IsFiniteSet(left) /\ Cardinality(left) = MaxDecisions - 1
    BY <2>1, FS_RemoveElement
  <2>3. f \in Injection(grants, left)
    <3>1. \A g \in grants : g.id \in left
      BY <1>w DEF IInv, TypeOK
    <3> QED
      BY <3>1, <1>t DEF Injection, IsInjective
  <2> HIDE DEF left, f
  <2>4. Cardinality(grants) <= MaxDecisions - 1
    BY <2>2, <2>3, FS_Injection
  <2> QED
    BY <2>1, <2>4, <1>n, <1>t DEF Ids
<1>4. TypeOK'
  <2>1. /\ new \in [hash : Ids, id : Ids, prev : 0..MaxDecisions, about : Admins,
                    says : {"granted", "revoked"}, over : 0..MaxDecisions]
        /\ new.over = 0 => new.says = "granted"
    <3>1. n \in 0..MaxDecisions /\ over \in 0..MaxDecisions
      BY <1>t, <1>r, <1>3 DEF Ids, SettingsAssumption
    <3>2. over = 0 => decision = "granted"
      BY <1>v, <1>t DEF Tail
    <3> QED
      BY <3>1, <3>2, <1>3, <1>g
  <2> QED
    BY <2>1, <1>u, <1>g DEF IInv, TypeOK
<1>5. \A g \in grants' : g.over < g.hash
  BY <1>g, <1>w, <1>t, <1>r
<1>6. ASSUME NEW p \in Admins, p # who PROVE Tail(p)' = LatestAbout(p)'
  <2>1. \A g \in grants : g.about = p => over # g.hash
    BY <1>v, <1>t, <1>6 DEF Tail
  <2>2. Tail(p)' = Tail(p)
    BY <2>1, <1>g, <1>w, <1>6 DEF Tail
  <2>3. LatestAbout(p)' = LatestAbout(p)
    BY <1>g, <1>w, <1>6 DEF LatestAbout
  <2> QED
    BY <2>2, <2>3 DEF IInv, DecisionsFollow
<1>7. Tail(who)' = {new} /\ LatestAbout(who)' = {new}
  <2>1. new \in Tail(who)'
    BY <1>g, <1>w, <1>t, <1>r DEF Tail
  <2>2. ASSUME NEW g \in Tail(who)' PROVE g = new
    <3>1. g \in grants' /\ g.about = who /\ \A h \in grants' : h.over # g.hash
      BY <2>2 DEF Tail
    <3>2. g \in grants => g \in Tail(who)
      BY <3>1, <1>g DEF Tail
    <3>3. new \in grants'
      BY <1>g
    <3>4. over # g.hash
      BY <3>1, <3>3, <1>w
    <3> QED
      BY <3>1, <3>2, <3>4, <1>g, <1>v
  <2>3. LatestAbout(who)' = {new}
    BY <1>g, <1>w, <1>t DEF LatestAbout
  <2> QED
    BY <2>1, <2>2, <2>3
<1>8. DecisionsFollow'
  BY <1>2, <1>5, <1>6, <1>7 DEF DecisionsFollow
<1>9. Chained(changes)' /\ \A a \in Admins : CopyKnows(a)'
  BY <1>u, CopiesStay DEF IInv
<1> QED
  BY <1>1, <1>4, <1>8, <1>9 DEF IInv

-----------------------------------------------------------------------------
(* A fresh instance. *)
LEMMA InitEstablishes == ASSUME SettingsAssumption PROVE Init => IInv
<1> SUFFICES ASSUME Init PROVE IInv
  OBVIOUS
<1>1. TypeOK
  <2>1. [s \in Switches |-> Initial] \in [Switches -> Values] /\ 0 \in 0..MaxTicks /\ 0 \in 0..MaxSetups
    BY DEF SettingsAssumption
  <2> QED
    BY <2>1 DEF Init, TypeOK
<1>2. Chained({})
  BY FS_EmptySet DEF Chained
<1>3. DecisionsFollow
  BY DEF Init, DecisionsFollow, Tail, LatestAbout
<1> QED
  BY <1>1, <1>2, <1>3 DEF IInv, Init, CopyKnows

(* Every request of an administrator, the decisions about them, setup and the
   clock.                                                                  *)
LEMMA StepKeeps == ASSUME SettingsAssumption PROVE IInv /\ [Next]_vars => IInv'
<1> SUFFICES ASSUME IInv, [Next]_vars PROVE IInv'
  OBVIOUS
<1>1. ASSUME NEW a \in Admins, Authenticate(a) \/ NotModified(a) PROVE IInv'
  <2>1. UNCHANGED <<instance, changes, grants, copy, wizard, ticks, setups>> /\ serving' \subseteq Admins
    BY <1>1 DEF Authenticate, NotModified, Done, budget, Effective, IInv, TypeOK
  <2>2. TypeOK'
    BY <2>1 DEF IInv, TypeOK
  <2> QED
    BY <2>1, <2>2, QuietKeeps
<1>2. ASSUME OpenWizard \/ InstanceStep \/ Tick PROVE IInv'
  <2>1. UNCHANGED <<changes, grants, copy, serving>>
    BY <1>2 DEF OpenWizard, InstanceStep, Tick
  <2>2. /\ instance' \in [values : [Switches -> Values], updated : 0..MaxTicks]
        /\ wizard' \in BOOLEAN /\ ticks' \in 0..MaxTicks /\ setups' \in 0..MaxSetups
    <3>1. CASE OpenWizard
      BY <3>1 DEF OpenWizard, IInv, TypeOK, SettingsAssumption
    <3>2. CASE InstanceStep
      <4>1. PICK values \in [Switches -> Values] : instance' = [values |-> values, updated |-> ticks]
        BY <3>2 DEF InstanceStep
      <4>2. ticks' = ticks /\ setups' = setups /\ wizard' = FALSE
        BY <3>2 DEF InstanceStep, budget
      <4>3. ticks \in 0..MaxTicks /\ setups \in 0..MaxSetups
        BY DEF IInv, TypeOK
      <4> QED
        BY <4>1, <4>2, <4>3
    <3>3. CASE Tick
      BY <3>3 DEF Tick, IInv, TypeOK, SettingsAssumption
    <3> QED
      BY <1>2, <3>1, <3>2, <3>3
  <2>3. TypeOK'
    BY <2>1, <2>2 DEF IInv, TypeOK
  <2> QED
    BY <2>1, <2>3, QuietKeeps
<1>3. ASSUME UNCHANGED vars PROVE IInv'
  <2>1. UNCHANGED <<instance, changes, grants, copy, serving, wizard, ticks, setups>>
    BY <1>3 DEF vars, budget
  <2>2. TypeOK'
    BY <2>1 DEF IInv, TypeOK
  <2> QED
    BY <2>1, <2>2, QuietKeeps
<1> QED
  BY <1>1, <1>2, <1>3, DescribeKeeps, ApplyKeeps, DecideKeeps DEF Next, Request

(* The settings, both ledgers and every administrator's copy satisfy the
   inductive invariant in every reachable state.                           *)
THEOREM Inductive == ASSUME SettingsAssumption PROVE Spec => []IInv
BY InitEstablishes, StepKeeps, PTL DEF Spec

(* Rows hold what the schema and the code put there. *)
THEOREM TypeCorrect == ASSUME SettingsAssumption PROVE Spec => []TypeOK
<1>1. IInv => TypeOK
  BY DEF IInv
<1> QED
  BY <1>1, Inductive, PTL

(* settings.go:77-93: a tag that a reader still holds describes the present,
   for any number of settings, commits and administrators; less the rows that
   a careless client wrote over without having read them.                  *)
THEOREM TagsHold == ASSUME SettingsAssumption PROVE Spec => []TagsDoNotRepeat
<1>1. IInv => TagsDoNotRepeat
  BY TagIsPresent DEF TagsDoNotRepeat
<1> QED
  BY <1>1, Inductive, PTL

(* instancegrant/service.go:379-417: the head of either chain is its last row,
   and what an identity holds is its latest decision.                      *)
THEOREM HeadsAreLatest == ASSUME SettingsAssumption PROVE Spec => []CurrentIsTheLatest
<1>1. IInv => CurrentIsTheLatest
  BY TailIsLast DEF IInv, CurrentIsTheLatest, DecisionsFollow, LatestAbout
<1> QED
  BY <1>1, Inductive, PTL

(* settings.go:213-233: nobody extends the ledger of changes who had not read
   all of it, but for a client that sends `If-Match: *`; and every row, also
   of such a client, starts from the value it replaced.                    *)
THEOREM WritersHaveRead == ASSUME SettingsAssumption PROVE Spec => NothingUnseenIsReplaced
<1>1. ASSUME IInv, [Next]_vars, changes' # changes
      PROVE  /\ \E a \in serving \ serving' :
                  \/ a \in Careless
                  \/ copy[a].values = instance.values /\ copy[a].changes = changes
             /\ \A r \in changes' \ changes : /\ r.old = instance.values[r.about]
                                              /\ r.new = instance'.values[r.about]
  <2>1. PICK a \in Admins : Apply(a)
    BY <1>1 DEF Next, vars, Request, Authenticate, Describe, NotModified, Decide, OpenWizard, InstanceStep, Tick
  <2>2. PICK values \in [Switches -> Values] :
          instance' = [values |-> values, updated |-> ticks] /\ changes' = changes \cup Appended(values)
    BY <2>1 DEF Apply
  <2>3. \A r \in Appended(values) : r.old = instance.values[r.about] /\ r.new = values[r.about]
    BY <1>1, AppendedIs DEF IInv
  <2>4. a \in serving /\ a \notin serving' /\ Matches(a)
    BY <2>1 DEF Apply, Done
  <2> QED
    BY <1>1, <2>2, <2>3, <2>4, MatchingIsPresent
<1>2. IInv /\ [Next]_vars =>
        [changes' # changes =>
           /\ \E a \in serving \ serving' :
                \/ a \in Careless
                \/ copy[a].values = instance.values /\ copy[a].changes = changes
           /\ \A r \in changes' \ changes : /\ r.old = instance.values[r.about]
                                            /\ r.new = instance'.values[r.about]]_vars
  BY <1>1
<1> QED
  BY <1>2, Inductive, PTL DEF Spec, NothingUnseenIsReplaced
=============================================================================
