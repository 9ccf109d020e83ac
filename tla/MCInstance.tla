----------------------------- MODULE MCInstance -----------------------------
(***************************************************************************)
(* Six parts of an instance on small instances: SignIn, with lifetimes of  *)
(* a tick or two; Settings, where several commits share a tick; Names,     *)
(* with a name that starts with another and a shipped target that has an   *)
(* alias; and KeySet, Limiter and Ids, at the bounds of what they count.   *)
(* They have no variable in common, so the run follows one of them with    *)
(* the others at rest, and not their product.                              *)
(***************************************************************************)
EXTENDS SignIn, TLC

CONSTANTS alice, bob, q1, q2,
          Values, Initial, MaxSwitch, MaxSettingChanges, MaxDecisions, MaxTicks, MaxSetups,
          Spellings, MaxTargets, MaxWrites, MaxSeeds,
          Kids, KeyTTL, MinRefresh, FetchTimeout, MaxKeyNow, MaxRotations,
          Callers, Burst, Refill, MaxKeys, MaxMeterNow,
          MaxMillis, MaxEntropy, MaxMinted

VARIABLES instance, settingChanges, grants, copy, serving, wizard, ticks, setups,
          row, window, update, lookup, seed, budget,
          keyNow, published, withdrawn, cache, verifier, before, rotations,
          meterNow, bucket, admitted,
          wall, minted,
          side  \* which of them this behaviour follows

(* Dave's client sends `If-Match: *`. *)
Page == INSTANCE Settings WITH
    Admins <- {"carol", "dave"}, Careless <- {"dave"},
    MaxChanges <- MaxSettingChanges, changes <- settingChanges

(* "vulak" is the start of "vulakaerr", the one target that is shipped; "va"
   is its alias.  Three rows of the file, two names for one target.        *)
Catalogue == INSTANCE Names WITH
    Editors <- Requests, Nobody <- None,
    Shipped <- <<[name |-> "vulakaerr", aliases |-> {"va"}]>>,
    File    <- <<[name |-> "vulak", to |-> 1], [name |-> "va", to |-> 2], [name |-> "vulakaerr", to |-> 2]>>,
    Starts  <- {<<s, s>> : s \in Spellings} \cup {<<"vulak", "vulakaerr">>},
    Within  <- {<<s, s>> : s \in Spellings} \cup {<<"vulak", "vulakaerr">>}

Keys == INSTANCE KeySet WITH Unnamed <- None, MaxNow <- MaxKeyNow, now <- keyNow

Meter == INSTANCE Limiter WITH MaxNow <- MaxMeterNow, now <- meterNow

Generator == INSTANCE Ids

ASSUME PageAssumption == Page!SettingsAssumption
ASSUME KeysAssumption == Keys!KeySetAssumption
ASSUME CatalogueAssumption == Catalogue!NamesAssumption
ASSUME MeterAssumption == Meter!LimiterAssumption

pageVars      == <<instance, settingChanges, grants, copy, serving, wizard, ticks, setups>>
catalogueVars == <<row, window, update, lookup, seed, budget>>
keyVars       == <<keyNow, published, withdrawn, cache, verifier, before, rotations>>
meterVars     == <<meterNow, bucket, admitted>>
idVars        == <<wall, minted>>
smallVars     == <<keyVars, meterVars, idVars>>

Symmetric == Permutations({alice, bob}) \cup Permutations({q1, q2})

OneOfInit ==
    /\ Init /\ Page!Init /\ Catalogue!Init /\ Keys!Init /\ Meter!Init /\ Generator!Init
    /\ side \in {"sign in", "page", "catalogue", "keys", "meter", "ids"}
    /\ side # "ids" => wall = 0

OneOfNext ==
    /\ UNCHANGED side
    /\ \/ side = "sign in" /\ Next /\ UNCHANGED <<pageVars, catalogueVars, smallVars>>
       \/ side = "page" /\ Page!Next /\ UNCHANGED <<vars, catalogueVars, smallVars>>
       \/ side = "catalogue" /\ Catalogue!Next /\ UNCHANGED <<vars, pageVars, smallVars>>
       \/ side = "keys" /\ Keys!Next /\ UNCHANGED <<vars, pageVars, catalogueVars, meterVars, idVars>>
       \/ side = "meter" /\ Meter!Next /\ UNCHANGED <<vars, pageVars, catalogueVars, keyVars, idVars>>
       \/ side = "ids" /\ Generator!Next /\ UNCHANGED <<vars, pageVars, catalogueVars, keyVars, meterVars>>

OneOf == OneOfInit /\ [][OneOfNext]_<<vars, pageVars, catalogueVars, smallVars, side>>

(* The type invariants: rows, cookies and requests hold what identity, auth,
   instancesettings, instancegrant and catalogue put there, and the tables of
   the process keep their bounds.                                          *)
RowsAreTyped == TypeOK /\ Page!TypeOK /\ Catalogue!TypeOK /\ Keys!TypeOK /\ Meter!TypeOK

(* settings.go:77-93, by the entity tag over the settings and the chain head:
   a copy whose tag still matches is the present, so a 304 hides nothing;
   less the rows that a `*` was written over.                              *)
TagsDoNotRepeat == Page!TagsDoNotRepeat

(* settings.go:213-233, If-Match compared in the writing transaction: no
   administrator who sends the tag they read replaces settings, or extends a
   ledger, they had not read; and no row misstates what it replaced.       *)
NothingUnseenIsReplaced == Page!NothingUnseenIsReplaced

(* instancegrant/service.go:379-417, the head derived from the chain: what is
   read as the latest row is the row that was committed last.              *)
CurrentIsTheLatest == Page!CurrentIsTheLatest

(* resolve.go:26-31: an exact spelling is answered with its own target. *)
ExactIsNeverOutranked == Catalogue!ExactIsNeverOutranked

(* seed.go:208-238, embedded.go:400-407: what a stopped seed leaves. *)
SeedsMayBeRunAgain == Catalogue!SeedsMayBeRunAgain

(* jwks.go:23-36: a withdrawn key is forgotten, an issuer that answers spared. *)
KeysAreCurrent == Keys!KeysAreCurrent

(* ratelimit.go:12-25: a burst, and what came back since. *)
BurstIsKept == Meter!BurstIsKept

(* ulid.go:176-193: no id behind an earlier one. *)
IdsRise == Generator!IdsRise
=============================================================================
