-------------------------------- MODULE Names ---------------------------------
(***************************************************************************)
(* What a raid target is called, and which one a typed name means: the     *)
(* catalogue of internal/catalogue, the one namespace that names and       *)
(* aliases share, the list of targets the binary ships, the resolve ladder *)
(* that reports, seed files and slash commands all go through, and the     *)
(* timer seed, which writes one window per transaction.  The derivation    *)
(* under a window and the pushes a write owes are Projection's.            *)
(*                                                                         *)
(* A spelling stands for its normal form.  Both unique indexes are over    *)
(* normal forms, so the byte-for-byte rung of a name or of an alias hits   *)
(* nothing that the normalised rung below it would not hit as well.        *)
(***************************************************************************)
EXTENDS Integers, Sequences, FiniteSetsExt

CONSTANTS Spellings,
          Starts,      \* pairs: the first is a prefix of the second
          Within,      \* pairs: the first is somewhere in the second
          Shipped,     \* Embedded(), in its order: names with their aliases
          File,        \* the timers of a seed file: what each row calls its
                       \* target, and the window it gives it
          Editors,     \* administrators' requests
          MaxTargets,  \* bound: raid_target rows
          MaxWrites,   \* bound: requests that create or update a target
          MaxSeeds,    \* bound: seed files applied
          Nobody       \* no spelling

(* A seed file without a row is refused when it is parsed.  Stated by the module
   that gives them values.                                                 *)
NamesAssumption ==
    /\ MaxTargets \in Nat /\ MaxWrites \in Nat /\ MaxSeeds \in Nat /\ Nobody \notin Spellings
    /\ Shipped \in Seq([name : Spellings, aliases : SUBSET Spellings])
    /\ File \in Seq([name : Spellings, to : Nat]) /\ File # <<>>

Targets == 1..MaxTargets

VARIABLES
    row,     \* raid_target with its raid_target_alias rows
    window,  \* raid_target_timer, on one server; 0 is no row
    update,  \* each updateRaidTarget between its read and its transaction
    lookup,  \* a resolve between its two reads, or with its answer; as it
             \* writes nothing, one stands for any number
    seed,    \* the seed file being applied, or the last one
    budget

vars == <<row, window, update, lookup, seed, budget>>

NoTarget == [name |-> Nobody, aliases |-> {}, state |-> "retired"]
NoUpdate == [of |-> 0, to |-> NoTarget, replaces |-> FALSE]
NoLookup == [at |-> "idle", name |-> Nobody, names |-> <<>>, owner |-> 0, hits |-> {}]
NoSeed   == [at |-> "idle", names |-> <<>>, groups |-> {},
             found |-> <<>>, before |-> <<>>]

Known(table)     == {t \in Targets : table[t].name # Nobody}
Claims(table, t) == IF t \in Known(table) THEN {table[t].name} \cup table[t].aliases ELSE {}
Owners(table, n) == {t \in Targets : n \in Claims(table, t)}

Init ==
    /\ row = [t \in Targets |-> NoTarget] /\ window = [t \in Targets |-> 0]
    /\ update = [q \in Editors |-> NoUpdate]
    /\ lookup = NoLookup /\ seed = NoSeed
    /\ budget = [writes |-> MaxWrites, seeds |-> MaxSeeds]

-----------------------------------------------------------------------------
(* Writing the catalogue. *)

Fresh(table) == CHOOSE t \in Targets \ Known(table) : \A u \in Targets \ Known(table) : t <= u

(* In the writing transaction: no spelling is claimed by another target, and
   no alias is the target's own name.  The unique indexes and the triggers of
   migration 5 refuse nothing that this lets through.                      *)
CheckNamespace(t, name, aliases) ==
    /\ \A u \in Targets \ {t} : Claims(row, u) \cap ({name} \cup aliases) = {}
    /\ name \notin aliases

Spend(what) == budget[what] > 0 /\ budget' = [budget EXCEPT ![what] = @ - 1]

Create(name, aliases) ==
    /\ Spend("writes") /\ Known(row) # Targets
    /\ CheckNamespace(Fresh(row), name, aliases)
    /\ row' = [row EXCEPT ![Fresh(row)] = [name |-> name, aliases |-> aliases, state |-> "active"]]
    /\ UNCHANGED <<window, update, lookup, seed>>

(* What a request may ask of the target it read: a rename, with or without a
   new set of aliases, or the state. *)
Patches(read) ==
    {[to |-> [read EXCEPT !.name = n], replaces |-> FALSE] : n \in Spellings}
    \cup {[to |-> [name |-> n, aliases |-> a, state |-> read.state], replaces |-> TRUE] :
              n \in Spellings, a \in SUBSET Spellings}
    \cup {[to |-> [read EXCEPT !.state = s], replaces |-> FALSE] : s \in {"active", "retired"}}

(* Update reads the target on the pool and fills the fields that the request
   does not name from what it read.                                        *)
BeginUpdate(q, t) ==
    /\ Spend("writes") /\ update[q] = NoUpdate /\ t \in Known(row)
    /\ \E patch \in Patches(row[t]) :
         update' = [update EXCEPT ![q] = [of |-> t, to |-> patch.to, replaces |-> patch.replaces]]
    /\ UNCHANGED <<row, window, lookup, seed>>

(* Its transaction writes every column, and the aliases when they were sent. *)
CommitUpdate(q) ==
    LET u  == update[q]
        to == IF u.replaces THEN u.to ELSE [u.to EXCEPT !.aliases = row[u.of].aliases]
    IN
    /\ u # NoUpdate
    /\ row' = IF CheckNamespace(u.of, u.to.name, u.to.aliases) THEN [row EXCEPT ![u.of] = to] ELSE row
    /\ update' = [update EXCEPT ![q] = NoUpdate]
    /\ UNCHANGED <<window, lookup, seed, budget>>

(* Mutant: an alias of the list is written when no other alias is in its way. *)
ShipUnasked(table, want) ==
    LET named == {t \in Known(table) : table[t].name = want.name}
        self  == IF named # {} THEN CHOOSE t \in named : TRUE ELSE Fresh(table)
        given == {a \in want.aliases \ {want.name} : \A t \in Targets : a \notin table[t].aliases}
    IN  IF named = {} /\ Owners(table, want.name) # {} THEN table
        ELSE IF named = {}
        THEN [table EXCEPT ![self] = [name |-> want.name, aliases |-> given, state |-> "active"]]
        ELSE [table EXCEPT ![self].aliases = @ \cup given]

(* One target of the shipped list: a row of that name is left as it is but for
   the aliases nobody has; a name that is somebody's alias is passed over. *)
Ship(table, want) ==
    LET named == {t \in Known(table) : table[t].name = want.name}
        self  == IF named # {} THEN CHOOSE t \in named : TRUE ELSE Fresh(table)
        given == {a \in want.aliases \ {want.name} : Owners(table, a) = {}}
    IN  IF named = {} /\ Owners(table, want.name) # {} THEN table
        ELSE IF named = {}
        THEN [table EXCEPT ![self] = [name |-> want.name, aliases |-> given, state |-> "active"]]
        ELSE [table EXCEPT ![self].aliases = @ \cup given]

RoomToShip == Cardinality(Known(row)) + Len(Shipped) <= MaxTargets

(* The list, from its first target to its last. *)
ShippedInto(table) ==
    LET upTo[k \in 0..Len(Shipped)] == IF k = 0 THEN table ELSE Ship(upTo[k - 1], Shipped[k])
    IN  upTo[Len(Shipped)]

(* SeedTargets: the whole list in one transaction, on every upgrade. *)
SeedTargets ==
    /\ RoomToShip
    /\ row' = ShippedInto(row)
    /\ UNCHANGED <<window, update, lookup, seed, budget>>

-----------------------------------------------------------------------------
(* The ladder, over the names and the aliases of one read each. *)

(* Mutant: the prefix rung comes before the aliases. *)
RungsPrefixFirst(read, aliases, n) ==
    LET Live(t)      == read[t].name # Nobody /\ read[t].state = "active"
        Fits(t, rel) == \E s \in {read[t].name} \cup aliases[t] : <<n, s>> \in rel
    IN << {t \in Targets : read[t].name = n},
          {t \in Targets : Live(t) /\ Fits(t, Starts)},
          {t \in Known(read) : n \in aliases[t]},
          {t \in Targets : Live(t) /\ Fits(t, Within)} >>

(* Name, alias, prefix, substring; a retired target is out of the fuzzy two. *)
Rungs(read, aliases, n) ==
    LET Live(t)      == read[t].name # Nobody /\ read[t].state = "active"
        Fits(t, rel) == \E s \in {read[t].name} \cup aliases[t] : <<n, s>> \in rel
    IN << {t \in Targets : read[t].name = n},
          {t \in Known(read) : n \in aliases[t]},
          {t \in Targets : Live(t) /\ Fits(t, Starts)},
          {t \in Targets : Live(t) /\ Fits(t, Within)} >>

(* The first rung that matches anything; more than one hit is an ambiguity,
   which names them all, and none is an unknown target.                    *)
ResolveIn(read, aliases, n) ==
    LET rungs == Rungs(read, aliases, n) IN
    UNION {rungs[i] : i \in {k \in DOMAIN rungs : \A j \in 1..(k - 1) : rungs[j] = {}}}

AliasesNow == [t \in Targets |-> row[t].aliases]

(* loadTargets: two statements on the pool, the targets and then all of their
   aliases, with whatever is committed in between.  The owner is remembered
   for the invariant.                                                      *)
ReadNames(n) ==
    /\ lookup = NoLookup /\ seed = NoSeed
    /\ lookup' = [at |-> "names", name |-> n, names |-> row, hits |-> {},
                  owner |-> IF Owners(row, n) = {} THEN 0 ELSE CHOOSE t \in Owners(row, n) : TRUE]
    /\ UNCHANGED <<row, window, update, seed, budget>>

ReadAliases ==
    LET asked == lookup.owner IN
    /\ lookup.at = "names"
    /\ lookup' = [at |-> "answered", name |-> lookup.name, names |-> <<>>,
                  owner |-> IF asked # 0 /\ row[asked] = lookup.names[asked] THEN asked ELSE 0,
                  hits |-> ResolveIn(lookup.names, AliasesNow, lookup.name)]
    /\ UNCHANGED <<row, window, update, seed, budget>>

Told ==
    /\ lookup.at = "answered" /\ lookup' = NoLookup
    /\ UNCHANGED <<row, window, update, seed, budget>>

-----------------------------------------------------------------------------
(* The timer seed. *)

(* ApplySeed loads the catalogue, in the same two statements; it and a lookup
   do not see each other, so that each is followed with the other at rest. *)
BeginSeed ==
    /\ seed = NoSeed /\ lookup = NoLookup /\ Spend("seeds")
    /\ seed' = [NoSeed EXCEPT !.at = "load", !.names = row]
    /\ UNCHANGED <<row, window, update, lookup>>

(* Mutant: a transaction for every row of the file. *)
GroupsOfRows(found) == {{i} : i \in DOMAIN found}

(* The rows about one target go together. *)
Groups(found) == {{j \in DOMAIN found : found[j].target = found[i].target} : i \in DOMAIN found}

(* Every row is resolved before any is written: one that is unknown or
   ambiguous rejects the file.                                             *)
ResolveSeed ==
    LET hits  == [i \in DOMAIN File |-> ResolveIn(seed.names, AliasesNow, File[i].name)]
        found == [i \in DOMAIN File |-> [target |-> CHOOSE t \in hits[i] : TRUE, to |-> File[i].to]]
    IN
    /\ seed.at = "load"
    /\ seed' = IF \A i \in DOMAIN File : Cardinality(hits[i]) = 1
               THEN [at |-> "write", names |-> <<>>, groups |-> Groups(found),
                     found |-> found, before |-> window]
               ELSE NoSeed
    /\ UNCHANGED <<row, window, update, lookup, budget>>

(* applySeedWindow: the rows of one window, of which the last one's stays, and
   the boards it moves, in one transaction; the windows come in the order in
   which the file first names them.                                        *)
ApplySeedWindow ==
    LET rows == CHOOSE g \in seed.groups : \A h \in seed.groups : Min(g) <= Min(h)
        last == seed.found[Max(rows)]
    IN
    /\ seed.at = "write"
    /\ window' = [window EXCEPT ![last.target] = last.to]
    /\ seed' = [at |-> IF seed.groups = {rows} THEN "done" ELSE "write", names |-> <<>>,
                groups |-> seed.groups \ {rows}, found |-> seed.found, before |-> seed.before]
    /\ UNCHANGED <<row, update, lookup, budget>>

(* The last window is written, or a write fails, or the process stops; what to
   do about a seed that stopped is to run it again.                        *)
EndSeed ==
    /\ seed.at \in {"write", "done"} /\ seed' = NoSeed
    /\ UNCHANGED <<row, window, update, lookup, budget>>

(* The routes, and the two seed verbs of the command line. *)
Request ==
    \/ \E name \in Spellings, aliases \in SUBSET Spellings : Create(name, aliases)
    \/ \E q \in Editors : CommitUpdate(q) \/ \E t \in Targets : BeginUpdate(q, t)
    \/ \E n \in Spellings : ReadNames(n)
    \/ ReadAliases \/ Told

SeedCommand == SeedTargets \/ BeginSeed \/ ResolveSeed \/ ApplySeedWindow \/ EndSeed

Next == Request \/ SeedCommand

Spec == Init /\ [][Next]_vars

-----------------------------------------------------------------------------
(* Rows keep their types. *)
TypeOK ==
    /\ row \in [Targets -> [name : Spellings \cup {Nobody}, aliases : SUBSET Spellings,
                            state : {"active", "retired"}]]
    /\ window \in [Targets -> {0} \cup {File[i].to : i \in DOMAIN File}]
    /\ budget \in [writes : 0..MaxWrites, seeds : 0..MaxSeeds]

(* resolve.go:26-31, "an exact hit is never ranked below a substring hit": a
   spelling that is a target's name or alias, retired or not, resolves to that
   target and to nothing else, whatever is written to other targets while the
   catalogue is read.                                                      *)
ExactIsNeverOutranked ==
    lookup.at = "answered" /\ lookup.owner # 0 => lookup.hits = {lookup.owner}

(* seed.go:208-238 and embedded.go:400-407, a seed that stops may be run again.
   Of a seed file, what stops leaves windows as they were and windows as the
   last row about them has them, and none that only an earlier row has; what
   finishes has written them all.  And the shipped list may be seeded into any
   catalogue an operator has made, and again on the next upgrade: what it adds
   collides with nothing and changes no row but for aliases it lacked.     *)
SeedsMayBeRunAgain ==
    /\ seed.at \in {"write", "done"} =>
         \A t \in Targets :
           LET about  == {i \in DOMAIN seed.found : seed.found[i].target = t}
               stated == IF about = {} THEN seed.before[t] ELSE seed.found[Max(about)].to
           IN  window[t] = stated \/ (window[t] = seed.before[t] /\ seed.at # "done")
    /\ RoomToShip =>
         LET seeded == ShippedInto(row) IN
         /\ \A n \in Spellings : Cardinality(Owners(seeded, n)) <= 1
         /\ ShippedInto(seeded) = seeded
         /\ \A t \in Known(row) : [seeded[t] EXCEPT !.aliases = row[t].aliases] = row[t]
=============================================================================
