----------------------------- MODULE Settings ------------------------------
(***************************************************************************)
(* What an administrator may change about the instance, and the two        *)
(* append-only ledgers that remember it: internal/instancesettings with    *)
(* the entity tag that guards it, and the decisions of                     *)
(* internal/instancegrant that say who may.  Each ledger is one hash       *)
(* chain; SQLite has one writer, so a transaction is a step.               *)
(*                                                                         *)
(* The hash of a row is its place in the order of commits, which the code  *)
(* cannot read: it knows only which hash each row names as its             *)
(* predecessor.  Everything here may happen within one tick of the clock.  *)
(***************************************************************************)
EXTENDS Integers, FiniteSets

CONSTANTS Admins, Values,
          Careless,      \* administrators whose client matches any version
          Initial,       \* what the command line or setup first wrote
          MaxSwitch,     \* the settings, in the order of the catalogue
          MaxChanges,    \* bound: instance_setting_change rows
          MaxDecisions,  \* bound: instance_grant rows
          MaxTicks,      \* bound: the clock
          MaxSetups      \* bound: first-run setups

(* Stated by the module that gives them values. *)
SettingsAssumption ==
    /\ MaxSwitch \in Nat /\ MaxChanges \in Nat /\ MaxDecisions \in Nat
    /\ MaxTicks \in Nat /\ MaxSetups \in Nat /\ Initial \in Values
    /\ Careless \subseteq Admins

Switches == 1..MaxSwitch
Ids      == 1..MaxDecisions

VARIABLES
    instance,  \* the instance row: its settings and updated_at
    changes,   \* instance_setting_change rows
    grants,    \* instance_grant rows
    copy,      \* what each administrator last read, with its entity tag
    serving,   \* administrators whose request has been authenticated
    wizard,    \* whether a first-run setup has found the door open
    ticks,
    setups     \* how many so far

budget == <<ticks, setups>>
vars   == <<instance, changes, grants, copy, serving, wizard, budget>>

-----------------------------------------------------------------------------
(* Hash chains. *)

Tails(chain) == {r \in chain : \A s \in chain : s.prev # r.hash}

(* Mutant: the head of the chain is the row with the largest id. *)
ChainTailById(chain) ==
    IF chain = {} THEN 0 ELSE (CHOOSE r \in chain : \A s \in chain : s.id <= r.id).hash

(* The hash no row names as its predecessor; 0 when there is no row. *)
ChainTail(chain) == IF chain = {} THEN 0 ELSE (CHOOSE r \in Tails(chain) : TRUE).hash

Next1(chain) == Cardinality(chain) + 1

(* The decision about an identity that no other one supersedes. *)
Tail(who) ==
    {g \in grants : g.about = who /\ \A h \in grants : h.over # g.hash}

Effective == {who \in Admins : \E g \in Tail(who) : g.says = "granted"}

-----------------------------------------------------------------------------
(* The settings as the API renders them, and their tag. *)

(* Mutant: the tag covers the row, which has an updated_at, and nothing else. *)
ETagOfTheRow(row, chain) == <<row.values, row.updated>>

ETag(row, chain) == <<row.values, row.updated, ChainTail(chain)>>

Reading(row, chain) == [tag |-> ETag(row, chain), values |-> row.values, changes |-> chain]
NothingRead == [tag |-> <<>>, values |-> <<>>, changes |-> {}]

Init ==
    /\ instance = [values |-> [s \in Switches |-> Initial], updated |-> 0]
    /\ changes = {} /\ grants = {}
    /\ copy = [a \in Admins |-> NothingRead]
    /\ serving = {} /\ wizard = FALSE
    /\ ticks = 0 /\ setups = 0

(* Effective, on every request; what is done with it comes later. *)
Authenticate(a) ==
    /\ a \in Effective \ serving
    /\ serving' = serving \cup {a}
    /\ UNCHANGED <<instance, changes, grants, copy, wizard, budget>>

Done(a) == serving' = serving \ {a}

(* Mutant: If-Match is not compared in the transaction. *)
MatchesAnything(a) == a \in Careless \/ copy[a] # NothingRead

(* MatchesIfNoneMatch, by If-None-Match on a read and by If-Match on a write,
   there on the row the update is about to replace.  Some clients send the
   tag of what they last read; careless ones send `*`, or a list of tags,
   and may match whatever they have read.                                  *)
Matches(a) == a \in Careless \/ copy[a].tag = ETag(instance, changes)

(* Describe, from one snapshot. *)
Describe(a) ==
    /\ a \in serving
    /\ copy' = [copy EXCEPT ![a] = Reading(instance, changes)]
    /\ Done(a)
    /\ UNCHANGED <<instance, changes, grants, wizard, budget>>

(* A conditional read that matches is answered 304, which leaves the reader
   with the copy it has.                                                   *)
NotModified(a) ==
    /\ a \in serving /\ Matches(a)
    /\ Done(a)
    /\ UNCHANGED <<instance, changes, grants, copy, wizard, budget>>

(* plan: the settings that move, and the row of each, chained in the order
   of the catalogue.  One generator of the server mints their ids in order. *)
Moves(values) == {s \in Switches : values[s] # instance.values[s]}

Appended(values) ==
    {LET before == {t \in Moves(values) : t < s}
         hash   == Next1(changes) + Cardinality(before)
     IN  [hash  |-> hash, id |-> hash, about |-> s, at |-> ticks,
          prev  |-> IF before = {} THEN ChainTail(changes) ELSE hash - 1,
          old   |-> instance.values[s], new |-> values[s]] : s \in Moves(values)}

(* Apply: one transaction.  The answer, which carries the new tag and the
   rows it recorded but none before them, may be lost.                     *)
Apply(a) ==
    /\ a \in serving /\ Matches(a)
    /\ \E values \in [Switches -> Values], told \in BOOLEAN :
         /\ Moves(values) # {}
         /\ Cardinality(changes) + Cardinality(Moves(values)) <= MaxChanges
         /\ instance' = [values |-> values, updated |-> ticks]
         /\ changes' = changes \cup Appended(values)
         /\ copy' = IF told
                    THEN [copy EXCEPT ![a] = [tag     |-> ETag(instance', changes'), values |-> values,
                                              changes |-> copy[a].changes \cup Appended(values)]]
                    ELSE copy
    /\ Done(a)
    /\ UNCHANGED <<grants, wizard, budget>>

(* Mutant: a decision is appended whatever the last one was. *)
DecideAnyway(who, decision) ==
    /\ \E id \in Ids \ {g.id : g \in grants} :
         LET prev == ChainTail(grants) IN
         /\ \A g \in grants : g.prev # prev       \* ux_instance_grant_chain
         /\ grants' = grants \cup
              {[hash |-> Next1(grants), id |-> id, prev |-> prev, about |-> who, says |-> decision,
                over |-> IF Tail(who) = {} THEN 0 ELSE (CHOOSE g \in Tail(who) : TRUE).hash]}
    /\ UNCHANGED <<instance, changes, copy, serving, wizard, budget>>

(* DecideInTx, from the console, the API or the join that makes the first
   administrator: each invocation of the command mints its ids from entropy
   of its own, so that within a millisecond they come in any order.        *)
Decide(who, decision) ==
    /\ \/ decision = "granted" /\ \A g \in Tail(who) : g.says # decision
       \/ decision = "revoked" /\ \E g \in Tail(who) : g.says # decision
    /\ \E id \in Ids \ {g.id : g \in grants} :
         LET prev == ChainTail(grants) IN
         /\ \A g \in grants : g.prev # prev       \* ux_instance_grant_chain
         /\ grants' = grants \cup
              {[hash |-> Next1(grants), id |-> id, prev |-> prev, about |-> who, says |-> decision,
                over |-> IF Tail(who) = {} THEN 0 ELSE (CHOOSE g \in Tail(who) : TRUE).hash]}
    /\ UNCHANGED <<instance, changes, copy, serving, wizard, budget>>

(* First-run setup, open while nobody administers the instance, writes the
   row it finds and appends to neither ledger.                             *)
OpenWizard ==
    /\ Effective = {} /\ ~wizard /\ setups < MaxSetups
    /\ wizard' = TRUE /\ setups' = setups + 1
    /\ UNCHANGED <<instance, changes, grants, copy, serving, ticks>>

InstanceStep ==
    /\ wizard /\ wizard' = FALSE
    /\ \E values \in [Switches -> Values] : instance' = [values |-> values, updated |-> ticks]
    /\ UNCHANGED <<changes, grants, copy, serving, budget>>

Tick ==
    /\ ticks < MaxTicks /\ ticks' = ticks + 1
    /\ UNCHANGED <<instance, changes, grants, copy, serving, wizard, setups>>

Request(a) == Authenticate(a) \/ Describe(a) \/ NotModified(a) \/ Apply(a)

Next ==
    \/ \E a \in Admins :
         \/ Request(a)
         \/ \E decision \in {"granted", "revoked"} : Decide(a, decision)
    \/ OpenWizard \/ InstanceStep \/ Tick

Spec == Init /\ [][Next]_vars

-----------------------------------------------------------------------------
(* Rows hold what the schema and the code put there: a change is a change,
   and the first decision about anybody is a grant.                        *)
TypeOK ==
    /\ instance \in [values : [Switches -> Values], updated : 0..MaxTicks]
    /\ changes \subseteq [hash : 1..MaxChanges, id : 1..MaxChanges, about : Switches, at : 0..MaxTicks,
                          prev : 0..MaxChanges, old : Values, new : Values]
    /\ \A r \in changes : r.old # r.new /\ r.prev < r.hash
    /\ grants \subseteq [hash : Ids, id : Ids, prev : 0..MaxDecisions, about : Admins,
                         says : {"granted", "revoked"}, over : 0..MaxDecisions]
    /\ \A g \in grants : g.over = 0 => g.says = "granted"
    /\ serving \subseteq Admins /\ wizard \in BOOLEAN
    /\ ticks \in 0..MaxTicks /\ setups \in 0..MaxSetups

(* settings.go:77-93: a tag that a reader still holds describes what is there
   now: the same settings and, unless it wrote over rows it had not read, the
   same ledger, though two commits may share an updated_at and the second may
   undo the first.  A 304 to a tag hides nothing.                          *)
TagsDoNotRepeat ==
    \A a \in Admins :
      copy[a].tag = ETag(instance, changes) =>
        /\ copy[a].values = instance.values
        /\ a \in Careless \/ copy[a].changes = changes

(* settings.go:213-233: two administrators who read the same version and send
   its tag do not both write over it: what a request replaces is what its
   sender had read, or its client asked for no version in particular; and
   whoever writes, every row it adds starts from the value it replaced.    *)
NothingUnseenIsReplaced ==
    [][changes' # changes =>
         /\ \E a \in serving \ serving' :
              \/ a \in Careless
              \/ copy[a].values = instance.values /\ copy[a].changes = changes
         /\ \A r \in changes' \ changes : /\ r.old = instance.values[r.about]
                                          /\ r.new = instance'.values[r.about]]_vars

(* instancegrant/service.go:379-417: whatever the order of their ids, the head
   of each chain is the row that was committed last, so the next append is
   not refused; and what an identity holds is its latest decision.         *)
CurrentIsTheLatest ==
    /\ ChainTail(changes) = Cardinality(changes)
    /\ ChainTail(grants) = Cardinality(grants)
    /\ \A who \in Admins :
         LET about == {g \in grants : g.about = who} IN
         Tail(who) = {g \in about : \A h \in about : h.hash <= g.hash}
=============================================================================
