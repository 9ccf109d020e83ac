------------------------------- MODULE KeySet --------------------------------
(***************************************************************************)
(* The signing keys of an identity provider, as oidc/jwks.go caches them:  *)
(* one document for a while, one more when a token names a key that it     *)
(* does not have, and a mutex held across the request for it, so that one  *)
(* verification is in here at a time.  The issuer rotates its keys and     *)
(* fails when it likes.  What a key verifies is taken as unforgeable, and  *)
(* so is the document: no size, type or use of a key is looked at.         *)
(***************************************************************************)
EXTENDS Integers, FiniteSets

CONSTANTS Kids,
          Unnamed,       \* the kid of a token that names none
          KeyTTL,        \* an hour
          MinRefresh,    \* a minute
          FetchTimeout,  \* ten seconds
          MaxNow,        \* bound: the clock
          MaxRotations   \* bound: documents the issuer publishes

(* As the defaults are: a set is refetched for a key it lacks before it is for
   its age, and a request for it is over long before that.  An assumption of
   whoever instantiates this.                                              *)
KeySetAssumption ==
    /\ Unnamed \notin Kids
    /\ FetchTimeout \in Nat /\ MinRefresh \in Nat /\ KeyTTL \in Nat
    /\ FetchTimeout < KeyTTL /\ MinRefresh <= KeyTTL

VARIABLES
    now,
    published,  \* the issuer's document
    withdrawn,  \* history: when each key was last taken out of it
    cache,      \* keys, fetchedAt, lastAttempt; nothing fetched is no keys
    verifier,   \* who holds the mutex
    before,     \* history: the attempt before the last, and whether it worked
    rotations

vars == <<now, published, withdrawn, cache, verifier, before, rotations>>

Nowhere == [at |-> "idle", kid |-> Unnamed, why |-> "stale", since |-> 0, read |-> 0, keys |-> {}]

(* Nothing has ever been asked for: the epoch was a while ago. *)
Init ==
    /\ now = MinRefresh
    /\ published = Kids /\ withdrawn = [k \in Kids |-> 0]
    /\ cache = [keys |-> {}, fetchedAt |-> 0, lastAttempt |-> 0, ok |-> TRUE]
    /\ verifier = Nowhere /\ before = [at |-> 0, ok |-> TRUE] /\ rotations = 0

(* A token without a kid means the only key of the set, if it is. *)
Lookup(keys, kid) ==
    IF kid \in Kids THEN keys \cap {kid} ELSE IF Cardinality(keys) = 1 THEN keys ELSE {}

Stale == cache.keys = {} \/ now - cache.fetchedAt >= KeyTTL

(* Mutant: an unknown kid is always a reason to ask. *)
MayRefetchAlways == TRUE

MayRefetch == now - cache.lastAttempt >= MinRefresh

Fetch(kid, why) ==
    /\ verifier' = [Nowhere EXCEPT !.at = "fetch", !.kid = kid, !.why = why, !.since = now]
    /\ before' = [at |-> cache.lastAttempt, ok |-> cache.ok]
    /\ cache' = [cache EXCEPT !.lastAttempt = now]

Give(keys, kid) ==
    /\ verifier' = [Nowhere EXCEPT !.at = "answered", !.kid = kid, !.read = now,
                                   !.keys = Lookup(keys, kid)]
    /\ UNCHANGED before

(* keyFor, up to its answer or its first request. *)
KeyFor(kid) ==
    /\ verifier = Nowhere
    /\ IF Stale THEN Fetch(kid, "stale")
       ELSE IF Lookup(cache.keys, kid) = {} /\ MayRefetch THEN Fetch(kid, "unknown")
       ELSE Give(cache.keys, kid) /\ UNCHANGED cache
    /\ UNCHANGED <<now, published, withdrawn, rotations>>

(* The issuer writes its answer, which is then on its way. *)
Serve ==
    /\ verifier.at = "fetch"
    /\ verifier' = [verifier EXCEPT !.at = "served", !.keys = published]
    /\ UNCHANGED <<now, published, withdrawn, cache, before, rotations>>

(* Mutant: a set is as old as its arrival. *)
StampedAtTheEnd == now

(* A set is as old as the request for it. *)
Stamped == verifier.since

(* It arrives in time, and holds a usable key.  The clock is read again after a
   set that was stale, whose kid may still be unknown; the second set decides. *)
Fetched ==
    LET got == [cache EXCEPT !.keys = verifier.keys, !.fetchedAt = Stamped, !.ok = TRUE]
        kid == verifier.kid
    IN
    /\ verifier.at = "served" /\ verifier.keys # {} /\ now - verifier.since <= FetchTimeout
    /\ IF verifier.why = "stale" /\ Lookup(got.keys, kid) = {} /\ MayRefetch
       THEN /\ verifier' = [Nowhere EXCEPT !.at = "fetch", !.kid = kid, !.why = "unknown", !.since = now]
            /\ before' = [at |-> cache.lastAttempt, ok |-> TRUE]
            /\ cache' = [got EXCEPT !.lastAttempt = now]
       ELSE Give(got.keys, kid) /\ cache' = got
    /\ UNCHANGED <<now, published, withdrawn, rotations>>

(* Unreachable, too late, or a document that cannot be used: the set stays, and
   the verification fails.                                                 *)
Failed ==
    /\ verifier.at \in {"fetch", "served"}
    /\ cache' = [cache EXCEPT !.ok = FALSE] /\ verifier' = Nowhere
    /\ UNCHANGED <<now, published, withdrawn, before, rotations>>

Answered ==
    /\ verifier.at = "answered" /\ verifier' = Nowhere
    /\ UNCHANGED <<now, published, withdrawn, cache, before, rotations>>

Rotate ==
    /\ rotations < MaxRotations /\ rotations' = rotations + 1
    /\ published' \in SUBSET Kids \ {published}
    /\ withdrawn' = [k \in Kids |-> IF k \in published \ published' THEN now ELSE withdrawn[k]]
    /\ UNCHANGED <<now, cache, verifier, before>>

Tick ==
    /\ now < MaxNow /\ now' = now + 1
    /\ UNCHANGED <<published, withdrawn, cache, verifier, before, rotations>>

Next ==
    \/ \E kid \in Kids \cup {Unnamed} : KeyFor(kid)
    \/ Serve \/ Fetched \/ Failed \/ Answered \/ Rotate \/ Tick

Spec == Init /\ [][Next]_vars

-----------------------------------------------------------------------------
(* The cache and its reader keep their types; one key is the answer. *)
TypeOK ==
    /\ cache.keys \subseteq Kids /\ cache.lastAttempt <= now /\ cache.fetchedAt <= now
    /\ verifier.at = "answered" => Cardinality(verifier.keys) <= 1

(* jwks.go:23-36: a key that its issuer has withdrawn verifies nothing once the
   set's lifetime has gone by, however slow the request for the set was; and
   the issuer is not asked twice in one interval, unless it failed the first
   time: a set that is stale is asked for again by every request.          *)
KeysAreCurrent ==
    /\ verifier.at = "answered" =>
         \A k \in verifier.keys \ published :
            verifier.read - withdrawn[k] < KeyTTL
    /\ verifier.at = "fetch" /\ before.ok => verifier.since - before.at >= MinRefresh
=============================================================================
