------------------------------- MODULE Limiter -------------------------------
(***************************************************************************)
(* The bucket that the routes which tell whether an invite code is live    *)
(* share (api/ratelimit.go): per caller some attempts back to back, and    *)
(* one more every Refill; and a table of bounded size, where a newcomer    *)
(* makes room for itself.  The mutex makes one attempt one step.           *)
(***************************************************************************)
EXTENDS Integers, FiniteSets, Sequences

CONSTANTS Callers,
          Burst, Refill,
          MaxKeys,      \* 4096
          MaxNow        \* bound: the clock

(* As withDefaults leaves them.  Stated by the module that gives them values. *)
LimiterAssumption ==
    Burst \in Nat \ {0} /\ Refill \in Nat \ {0} /\ MaxKeys \in Nat \ {0}

VARIABLES
    now,
    bucket,   \* of each caller, NoBucket of one that is not in the table
    admitted  \* history: when each caller got through, since it was last
              \* forgotten with its bucket not full

vars == <<now, bucket, admitted>>

NoBucket == [tokens |-> 0, seen |-> -1]
Tracked  == {c \in Callers : bucket[c] # NoBucket}

Init ==
    /\ now = 0 /\ bucket = [c \in Callers |-> NoBucket]
    /\ admitted = [c \in Callers |-> <<>>]

(* What has come back since, in whole tokens. *)
Refilled(b) ==
    LET earned == (now - b.seen) \div Refill IN
    IF earned = 0 THEN b
    ELSE [tokens |-> IF b.tokens + earned > Burst THEN Burst ELSE b.tokens + earned,
          seen   |-> b.seen + earned * Refill]

(* Mutant: the clock of a full bucket runs on. *)
TakenRunning(b) == [b EXCEPT !.tokens = @ - 1]

(* The first token out of a full bucket starts its clock. *)
Taken(b) == [tokens |-> b.tokens - 1, seen |-> IF b.tokens = Burst THEN now ELSE b.seen]

(* evict: the callers that stay. A bucket that has had time to fill goes; if
   none has, one that happens to come first.                               *)
Rooms ==
    LET waiting == {d \in Tracked : now - bucket[d].seen < Refill * Burst} IN
    IF Cardinality(Tracked) < MaxKeys THEN {Tracked}
    ELSE IF Cardinality(waiting) < MaxKeys THEN {waiting}
    ELSE {waiting \ {d} : d \in waiting}

Allow(c) ==
    \E room \in IF c \in Tracked THEN {Tracked} ELSE Rooms :
      LET b == IF c \in Tracked THEN Refilled(bucket[c]) ELSE [tokens |-> Burst, seen |-> now]
          Forgotten(d) == d \in Tracked \ room /\ now - bucket[d].seen < Refill * Burst
      IN
      /\ bucket' = [d \in Callers |->
             IF d = c THEN (IF b.tokens > 0 THEN Taken(b) ELSE b)
             ELSE IF d \in room THEN bucket[d] ELSE NoBucket]
      /\ admitted' = [d \in Callers |->
             IF d = c /\ b.tokens > 0 THEN Append(admitted[d], now)
             ELSE IF Forgotten(d) THEN <<>> ELSE admitted[d]]
      /\ UNCHANGED now

Tick == now < MaxNow /\ now' = now + 1 /\ UNCHANGED <<bucket, admitted>>

Next == Tick \/ \E c \in Callers : Allow(c)

Spec == Init /\ [][Next]_vars

-----------------------------------------------------------------------------
(* The table keeps its bound, and no bucket holds more than a burst. *)
TypeOK ==
    /\ Cardinality(Tracked) <= MaxKeys
    /\ \A c \in Callers : bucket[c].tokens \in 0..Burst /\ bucket[c].seen <= now

(* ratelimit.go:12-25 and evict, 100-121: from any attempt that got through to
   any later one, a caller got no more than a burst and what came back in
   between, however full the table was and whoever was evicted from it as
   full; but a caller that was forgotten while it was limited starts again. *)
BurstIsKept ==
    \A c \in Callers : \A j \in DOMAIN admitted[c] : \A i \in 1..j :
      j - i + 1 <= Burst + (admitted[c][j] - admitted[c][i]) \div Refill
=============================================================================
