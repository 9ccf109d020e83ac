---------------------------- MODULE MCProjection ----------------------------
(***************************************************************************)
(* Projection on small instances.  A kill at 0 opens its window at 600 and *)
(* closes it at 1500; a kill at 600, the instant of the quake, is a        *)
(* cluster of its own; each clock stops on both sides of what matters.     *)
(***************************************************************************)
EXTENDS Projection

CONSTANTS c1, c2, t1, t2, a, b, nightly, reader

TwoCircles == {c1, c2}
OneCircle  == {c1}
OneTarget  == {t1}
TwoTargets == {t1, t2}
TwoMembers == {a, b}
OneMember  == {a}
OnBlue     == [c \in Circles |-> "blue"]

Variance(open, close) ==
    [open |-> open, close |-> close, kind |-> "variance", grace |-> DefaultGrace, epsilon |-> None]
OneWindow  == {Variance(600, 1500)}

Symmetric == Permutations(TwoCircles)
SymmetricMembers == Permutations(TwoMembers)
=============================================================================
