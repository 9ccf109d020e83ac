------------------------------ MODULE Consensus ------------------------------
(***************************************************************************)
(* internal/consensus: the pure derivation of one target's state from its  *)
(* report log.  Everything here is a function of its arguments; the state  *)
(* machines that feed it are Projection and MCConsensus.                   *)
(*                                                                         *)
(* A report is a record [id, target, kind, reporter, source, died,         *)
(* retracts].  A timer is [kind, open, close, grace, epsilon, quake], with *)
(* None for the nil pointers of types.go.  Instants and offsets are whole  *)
(* seconds: the code keeps microseconds, and its conversions multiply by   *)
(* an exact factor, so nothing below depends on the sub-second part.       *)
(***************************************************************************)
EXTENDS Integers, Sequences, FiniteSets, SequencesExt

CONSTANT None   \* the nil of the optional fields

Reasons == {"thin_supersede", "implausible_ordering", "wide_spread", "pending_supersede"}

ASSUME NoneIsNoValue == None \notin Int /\ None \notin Reasons

Tolerance       == 5 * 60      \* spreadToleranceSeconds
MaxAlternatives == 3
EpsilonFloor    == 5 * 60
EpsilonCeiling  == 30 * 60
EpsilonDefault  == 30 * 60
ProgressWhole   == 10000       \* basisPoints

Abs(n) == IF n < 0 THEN -n ELSE n
Clamp(n, low, high) == IF n < low THEN low ELSE IF n > high THEN high ELSE n

-----------------------------------------------------------------------------
(* Windows: window.go *)

HasWindow(timer) ==
    /\ timer.kind # "unknown"
    /\ timer.open # None
    /\ timer.kind = "fixed" \/ timer.close # None

OpenAt(timer, died) == died + timer.open
CloseAt(timer, died) ==
    IF timer.kind = "fixed" THEN OpenAt(timer, died) + timer.grace ELSE died + timer.close

Progress(open, close, now) ==
    IF now <= open THEN 0
    ELSE IF now >= close THEN ProgressWhole
    ELSE ((now - open) * ProgressWhole) \div (close - open)

NoWindow(kind) == [kind |-> kind, open |-> None, close |-> None, spawn |-> None, progress |-> None]

DeriveWindow(timer, died, now) ==
    IF died = None \/ ~HasWindow(timer) THEN NoWindow(timer.kind)
    ELSE LET open  == OpenAt(timer, died)
             close == CloseAt(timer, died)
         IN [kind |-> timer.kind, open |-> open, close |-> close,
             spawn    |-> IF timer.kind = "fixed" THEN open ELSE None,
             progress |-> IF timer.kind = "fixed" THEN None ELSE Progress(open, close, now)]

DeriveStatus(timer, died, now, up) ==
    CASE up # None -> "up"
      [] up = None /\ died = None -> "unknown"
      [] up = None /\ died # None /\ ~HasWindow(timer) -> "no_timer"
      [] OTHER -> IF now < OpenAt(timer, died) THEN "pre_window"
                  ELSE IF now <= CloseAt(timer, died) THEN "in_window" ELSE "overdue"

(* Mutant: only a window that has already opened counts as live. *)
WindowStillOpenOnceOpen(timer, died, now) ==
    HasWindow(timer) => OpenAt(timer, died) <= now /\ now <= CloseAt(timer, died)

WindowStillOpen(timer, died, now) == HasWindow(timer) => now <= CloseAt(timer, died)

(* project.go: the two fields that move with the clock, from a known estimate. *)
Project(timer, died, up, now) ==
    [status |-> DeriveStatus(timer, died, now, up), window |-> DeriveWindow(timer, died, now)]

-----------------------------------------------------------------------------
(* Folding the log: retractions, then the latest quake. *)

(* Mutant: a retraction of a retraction is read as an undo of the first one. *)
FoldRetractionsWithUndo(reports) ==
    LET undone == {r.retracts : r \in reports}
        standing == {r \in reports : r.id \notin undone}
    IN {k \in reports : k.kind = "kill" /\ \A r \in standing : r.retracts # k.id}

(* A retraction whose target is itself a retraction is ignored; the first still stands. *)
FoldRetractions(reports) ==
    LET others    == {r.id : r \in {x \in reports : x.kind # "kill"}}
        retracted == {r.retracts : r \in {x \in reports : x.kind = "retraction"}} \ (others \cup {None})
    IN {k \in reports : k.kind = "kill" /\ k.id \notin retracted}

Latest(instants) == CHOOSE q \in instants : \A p \in instants : p <= q

(* Mutant: every quake truncates, the target's flag unread. *)
TruncateAlways(kills, quakes, timer) ==
    IF quakes = {} THEN [kills |-> kills, up |-> None]
    ELSE LET after == {k \in kills : k.died >= Latest(quakes)}
         IN [kills |-> after, up |-> IF after = {} THEN Latest(quakes) ELSE None]

TruncateAtQuake(kills, quakes, timer) ==
    IF ~timer.quake \/ quakes = {} THEN [kills |-> kills, up |-> None]
    ELSE LET after == {k \in kills : k.died >= Latest(quakes)}
         IN [kills |-> after, up |-> IF after = {} THEN Latest(quakes) ELSE None]

-----------------------------------------------------------------------------
(* Clusters: cluster.go *)

EpsilonSeconds(timer) ==
    IF timer.epsilon # None THEN (IF timer.epsilon < 0 THEN 0 ELSE timer.epsilon)
    ELSE IF timer.kind = "unknown" \/ timer.open = None THEN EpsilonDefault
    ELSE Clamp(timer.open \div 4, EpsilonFloor, EpsilonCeiling)

Before(a, b) == a.died < b.died \/ (a.died = b.died /\ a.id < b.id)

(* The i-th report is the one that i - 1 others come before. *)
Rank(reports, r) == Cardinality({q \in reports : Before(q, r)})
Sorted(reports)  == [i \in 1..Cardinality(reports) |-> CHOOSE r \in reports : Rank(reports, r) = i - 1]

(* Mutant: the cap on a cluster's whole span is forgotten, so reports chain. *)
JoinsChaining(members, r, epsilon) == r.died - Last(members).died <= epsilon

Joins(members, r, epsilon) ==
    /\ r.died - Last(members).died <= epsilon
    /\ r.died - Head(members).died <= 2 * epsilon

(* The next report in order extends the last cluster or starts one of its own. *)
Swept(out, r, epsilon) ==
    IF out # <<>> /\ Joins(Last(out), r, epsilon)
    THEN [out EXCEPT ![Len(out)] = Append(Last(out), r)]
    ELSE Append(out, <<r>>)

Cluster(kills, epsilon) ==
    LET sorted == Sorted(kills)
        upTo[k \in 0..Cardinality(kills)] ==
            IF k = 0 THEN <<>> ELSE Swept(upTo[k - 1], sorted[k], epsilon)
    IN upTo[Cardinality(kills)]

LogLine(r) == r.source = "log_line"

(* The places in a cluster of its log lines, and of those that estimate: the log lines alone when *)
(* it has any.                                                                                    *)
Lines(members)      == {i \in DOMAIN members : LogLine(members[i])}
Estimators(members) == IF Lines(members) # {} THEN Lines(members) ELSE DOMAIN members

(* The k-th place of a set of them. *)
Place(places, k) == CHOOSE i \in places : Cardinality({j \in places : j <= i}) = k

(* Mutant: the upper of the two middle values on an even count. *)
EstimateUpperMiddle(members) ==
    members[Place(Estimators(members), (Cardinality(Estimators(members)) + 2) \div 2)].died

(* The lower median. *)
Estimate(members) ==
    members[Place(Estimators(members), (Cardinality(Estimators(members)) + 1) \div 2)].died

Spread(members) == IF members = <<>> THEN 0 ELSE Last(members).died - Head(members).died
Reporters(members) == {members[i].reporter : i \in DOMAIN members}
DistinctReporters(members) == Cardinality(Reporters(members))

EvidenceOf(members, revoked) ==
    [ids       |-> [i \in DOMAIN members |-> members[i].id],
     reports   |-> Len(members),
     reporters |-> DistinctReporters(members),
     logLines  |-> Cardinality(Lines(members)),
     spread    |-> Spread(members),
     revoked   |-> Cardinality(Reporters(members) \cap revoked)]

(* Mutant: a log line anywhere in the cluster corroborates the estimate. *)
CorroboratedAnywhere(members, died) ==
    /\ Lines(members) # {}
    /\ DistinctReporters(members) > 1

(* A log line on the estimate, and a second reporter there with it. *)
Corroborated(members, died) ==
    LET near == {i \in DOMAIN members : Abs(members[i].died - died) <= Tolerance}
    IN /\ near \cap Lines(members) # {}
       /\ Cardinality({members[i].reporter : i \in near}) > 1

ConfidenceOf(members, died) ==
    IF members = <<>> THEN "unknown"
    ELSE IF DistinctReporters(members) = 1
         THEN IF Lines(members) # {} THEN "medium" ELSE "low"
    ELSE IF Spread(members) <= Tolerance \/ Corroborated(members, died) THEN "high"
    ELSE "medium"

-----------------------------------------------------------------------------
(* Choosing the current cluster and saying what disputes it: derive.go *)

(* The earlier clusters whose window is open and that more people stand behind. *)
LiveStronger(clusters, below, thin, timer, now) ==
    {i \in 1..below - 1 : /\ WindowStillOpen(timer, Estimate(clusters[i]), now)
                          /\ DistinctReporters(clusters[i]) > thin}

(* Mutant: an equally corroborated earlier cluster holds the board. *)
SelectCurrentOnTies(clusters, timer, now, minimum) ==
    LET latest == Len(clusters)
        thin == DistinctReporters(clusters[latest])
        rivals == LiveStronger(clusters, latest, thin - 1, timer, now)
    IN IF minimum <= 1 \/ thin >= minimum \/ rivals = {}
       THEN [index |-> latest, pending |-> FALSE]
       ELSE [index |-> Latest(rivals), pending |-> TRUE]

SelectCurrent(clusters, timer, now, minimum) ==
    LET latest == Len(clusters)
        thin == DistinctReporters(clusters[latest])
        rivals == LiveStronger(clusters, latest, thin, timer, now)
    IN IF minimum <= 1 \/ thin >= minimum \/ rivals = {}
       THEN [index |-> latest, pending |-> FALSE]
       ELSE [index |-> Latest(rivals), pending |-> TRUE]

ThinlySuperseded(clusters, current, timer, now) ==
    LiveStronger(clusters, current, DistinctReporters(clusters[current]), timer, now) # {}

ImplausibleReportIDs(clusters, current, timer) ==
    IF timer.kind = "unknown" \/ timer.open = None THEN {}
    ELSE LET close == {i \in DOMAIN clusters \ {current} :
                         Abs(Estimate(clusters[i]) - Estimate(clusters[current])) < timer.open}
         IN UNION {{clusters[i][k].id : k \in DOMAIN clusters[i]} : i \in close}

ContestReason(clusters, current, timer, now, pending, implausible) ==
    CASE implausible # {} -> "implausible_ordering"
      [] implausible = {} /\ pending -> "pending_supersede"
      [] implausible = {} /\ ~pending /\ ThinlySuperseded(clusters, current, timer, now)
            -> "thin_supersede"
      [] OTHER -> IF Spread(clusters[current]) > Tolerance THEN "wide_spread" ELSE None

LiveRivals(clusters, current, timer, now) ==
    {i \in DOMAIN clusters \ {current} : WindowStillOpen(timer, Estimate(clusters[i]), now)}

(* The live rivals, newest first. *)
AlternativesOf(clusters, current, timer, now) ==
    LET rivals == LiveRivals(clusters, current, timer, now)
        total  == Cardinality(rivals)
    IN [k \in 1..Clamp(total, 0, MaxAlternatives) |->
          LET members == clusters[Place(rivals, total + 1 - k)]
          IN [died |-> Estimate(members), reports |-> Len(members),
              reporters |-> DistinctReporters(members),
              confidence |-> ConfidenceOf(members, Estimate(members)),
              window |-> DeriveWindow(timer, Estimate(members), now)]]

NoEvidence == [ids |-> <<>>, reports |-> 0, reporters |-> 0, logLines |-> 0, spread |-> 0, revoked |-> 0]

(* The derivation over clusters already formed; Derive below is what callers use. *)
StateOf(clusters, up, timer, now, minimum, revoked) ==
    IF clusters = <<>>
    THEN [status |-> DeriveStatus(timer, None, now, up), died |-> None, up |-> up,
          window |-> DeriveWindow(timer, None, now), confidence |-> "unknown",
          contest |-> None, alternatives |-> <<>>, alternativesTotal |-> 0,
          evidence |-> NoEvidence, implausible |-> {}, asOf |-> now]
    ELSE LET choice      == SelectCurrent(clusters, timer, now, minimum)
             current     == clusters[choice.index]
             died        == Estimate(current)
             implausible == ImplausibleReportIDs(clusters, choice.index, timer)
         IN [status |-> DeriveStatus(timer, died, now, up), died |-> died, up |-> up,
             window |-> DeriveWindow(timer, died, now),
             confidence |-> ConfidenceOf(current, died),
             contest |-> ContestReason(clusters, choice.index, timer, now, choice.pending, implausible),
             alternatives |-> AlternativesOf(clusters, choice.index, timer, now),
             alternativesTotal |-> Cardinality(LiveRivals(clusters, choice.index, timer, now)),
             evidence |-> EvidenceOf(current, revoked), implausible |-> implausible, asOf |-> now]

(* quakes is the set of occurred_at instants; revoked is the set of revoked reporters. *)
Derive(reports, quakes, timer, now, minimum, revoked) ==
    LET folded == TruncateAtQuake(FoldRetractions(reports), quakes, timer)
    IN StateOf(Cluster(folded.kills, EpsilonSeconds(timer)), folded.up, timer, now, minimum, revoked)
=============================================================================
