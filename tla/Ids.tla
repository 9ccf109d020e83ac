--------------------------------- MODULE Ids ---------------------------------
(***************************************************************************)
(* Where ids come from (core/ulid.go): a millisecond of the wall clock,    *)
(* which may be set back at any time, and entropy after it.  Every id is   *)
(* also a cursor.  One generator is followed, as one process has; that the *)
(* ids of two come in any order is what Settings and Projection assume.    *)
(***************************************************************************)
EXTENDS Integers, Sequences

CONSTANTS MaxMillis,   \* bound: the wall clock
          MaxEntropy,  \* 2^80 - 1
          MaxMinted    \* bound: ids

VARIABLES wall,
          minted  \* every id so far; the generator remembers the last

vars == <<wall, minted>>

Init == wall \in 0..MaxMillis /\ minted = <<>>

Minted == minted # <<>>
LastId == minted[Len(minted)]

(* Mutants: a clock set back is believed; the entropy wraps. *)
ReusesWhenEqual == Minted /\ wall = LastId.ms
IncrementWrapping(id) == {[id EXCEPT !.entropy = (@ + 1) % (MaxEntropy + 1)]}

(* A millisecond that is not after the last id's is the last id's again. *)
Reuses == Minted /\ wall <= LastId.ms

(* One more in the same millisecond, or none: it is refused. *)
Increment(id) == {[id EXCEPT !.entropy = e] : e \in {id.entropy + 1} \cap 0..MaxEntropy}

(* New. *)
New ==
    /\ Len(minted) < MaxMinted
    /\ \E id \in IF Reuses THEN Increment(LastId)
                 ELSE [ms : {wall}, entropy : 0..MaxEntropy] :
         minted' = Append(minted, id)
    /\ UNCHANGED wall

(* Time passes, or somebody sets the clock. *)
SetClock == wall' \in 0..MaxMillis \ {wall} /\ UNCHANGED minted

Next == New \/ SetClock

Spec == Init /\ [][Next]_vars

-----------------------------------------------------------------------------
(* Compare: by the millisecond, and then by entropy. *)
Before(id, other) ==
    id.ms < other.ms \/ (id.ms = other.ms /\ id.entropy < other.entropy)

(* ulid.go:176-193: whatever the clock does, an id sorts after every id that
   was minted before it.  Rows are committed in an order of their own.      *)
IdsRise == \A i, j \in DOMAIN minted : i < j => Before(minted[i], minted[j])
=============================================================================
