------------------------------ MODULE MCIngest ------------------------------
(***************************************************************************)
(* Ingest on small instances: one kill sent under two keys, two members    *)
(* who withdraw it, a quake, and a circle, whose record its own handler    *)
(* keeps, sent under the key of the quake.                                 *)
(***************************************************************************)
EXTENDS Ingest, TLC

CONSTANTS q1, q2

Everything == {"kill", "kill_again", "undo", "officer_undo", "quake", "circle"}
QuakeOnly  == {"quake"}
Theirs     == {"undo", "officer_undo"}

KindOf == [o \in Operations |->
    CASE o \in {"kill", "kill_again"} -> "kill" [] o \in Theirs -> "retraction"
      [] o = "circle" -> "circle" [] OTHER -> "quake"]
CallerOf == [o \in Operations |-> IF o \in {"kill", "kill_again", "undo"} THEN "member" ELSE "officer"]
KeyOf == [o \in Operations |->
    CASE o = "kill" -> "k1" [] o = "kill_again" -> "k2" [] o = "undo" -> "k3"
      [] o = "officer_undo" -> "k4" [] OTHER -> "k5"]
SaysWhat == [o \in Operations |->
    CASE o \in {"kill", "kill_again"} -> "dead" [] o \in Theirs -> "withdrawn"
      [] OTHER -> o]
Withdraws == [o \in Operations |-> IF o \in Theirs THEN "dead" ELSE None]
TwoRequests == {q1, q2}
OneRequest  == {q1}
Symmetric   == Permutations(TwoRequests)
AllFacts  == {SaysWhat[o] : o \in Operations} \cup {"dead"}
=============================================================================
