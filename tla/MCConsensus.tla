----------------------------- MODULE MCConsensus -----------------------------
(***************************************************************************)
(* The derivation run over every small log.  A behaviour picks one timer   *)
(* and one threshold, then a log grows, quakes are reported and the clock  *)
(* passes; each law compares Derive with a definition that does not sweep, *)
(* or with the derivation of an earlier state.                             *)
(***************************************************************************)
EXTENDS Consensus

CONSTANTS Timers,     \* the windows a behaviour may be about
          Thresholds, \* values of min_reporters_to_supersede
          Voices,     \* who reports, and by which source
          Deaths,     \* instants a kill may name
          QuakeTimes,
          Clock,      \* instants the derivation may be asked at
          MaxRows,    \* bound: rows in the log
          ByDeath     \* bound: whether kills arrive in died_at order

(* What types.go admits as a timer: None for a nil pointer. *)
Timed(window) ==
    /\ window.kind \in {"fixed", "variance", "unknown"} /\ window.quake \in BOOLEAN
    /\ window.open \in Int \cup {None} /\ window.close \in Int \cup {None}
    /\ window.epsilon \in Int \cup {None} /\ window.grace \in Int

ASSUME MCConsensusAssumption ==
    /\ Deaths \subseteq Int /\ QuakeTimes \subseteq Int /\ Clock \subseteq Int
    /\ \E first \in Clock : \A n \in Clock : first <= n
    /\ \A window \in Timers : Timed(window)
    /\ Thresholds \subseteq Int

VARIABLES reports, quakes, now, timer, minimum

vars == <<reports, quakes, now, timer, minimum>>

Window(kind, open, close, epsilon, quake) ==
    [open |-> open, close |-> close, kind |-> kind, grace |-> 900, epsilon |-> epsilon,
     quake |-> quake]

(* A band whose epsilon is the clamped floor, a point with grace, and no window at all. *)
SmallTimers ==
          {Window("variance", 600, 1500, None, TRUE),
           Window("fixed", 600, 600, 450, FALSE),
           Window("unknown", None, None, 300, TRUE)}

(* Reporter a sends log lines and manual reports, reporter b only manual ones and c log lines. *)
SmallVoices ==
          {<<"a", "log_line">>, <<"a", "manual">>, <<"b", "manual">>, <<"c", "log_line">>}

NextId == Cardinality(reports) + 1

Init ==
    /\ reports = {} /\ quakes = {}
    /\ now = Latest({n \in Clock : \A m \in Clock : n <= m})
    /\ timer \in Timers /\ minimum \in Thresholds

(* The natural key admits one kill per reporter and instant.  The runs take kills in died_at order:
   the order of arrival reaches Derive only as the tie-break between ids. *)
AddKill(died, voice) ==
    /\ \A r \in reports : r.kind = "kill" => r.died # died \/ r.reporter # voice[1]
    /\ ByDeath => \A r \in reports : r.kind = "kill" => r.died <= died
    /\ reports' = reports \cup
          {[id |-> NextId, kind |-> "kill", reporter |-> voice[1], source |-> voice[2],
            died |-> died, retracts |-> None]}

(* Derive is handed retractions of retractions too: test/golden/consensus has one. *)
AddRetraction(r) ==
    /\ \A x \in reports : x.retracts # r.id
    /\ reports' = reports \cup
          {[id |-> NextId, kind |-> "retraction", reporter |-> r.reporter, source |-> "api",
            died |-> r.died, retracts |-> r.id]}

Append1 ==
    /\ Cardinality(reports) < MaxRows
    /\ \/ \E died \in Deaths, voice \in Voices : AddKill(died, voice)
       \/ \E r \in reports : AddRetraction(r)
    /\ UNCHANGED <<quakes, now, timer, minimum>>

AddQuake ==
    /\ \E q \in QuakeTimes \ quakes : quakes' = quakes \cup {q}
    /\ UNCHANGED <<reports, now, timer, minimum>>

Tick ==
    /\ \E n \in Clock : n > now /\ now' = n
    /\ UNCHANGED <<reports, quakes, timer, minimum>>

Next == Append1 \/ AddQuake \/ Tick

Spec == Init /\ [][Next]_vars

-----------------------------------------------------------------------------
State    == Derive(reports, quakes, timer, now, minimum, {})
Standing == TruncateAtQuake(FoldRetractions(reports), quakes, timer).kills
Clusters == Cluster(Standing, EpsilonSeconds(timer))
MembersOf(cluster) == {cluster[k] : k \in DOMAIN cluster}

(* The clusters are the standing kills cut into consecutive runs: no gap wider than epsilon, no
   run wider than twice epsilon, and no cut where the next kill could still have joined.  The
   hazard is a chain of close reports becoming one long "kill" (cluster.go). *)
ClusterLaw ==
    LET epsilon  == EpsilonSeconds(timer)
        clusters == Clusters
        members  == [i \in DOMAIN clusters |-> MembersOf(clusters[i])]
    IN /\ UNION {members[i] : i \in DOMAIN clusters} = Standing
       /\ \A i \in DOMAIN clusters : \A r \in members[i] :
             /\ \A q \in members[i] : r.died - q.died <= 2 * epsilon
             /\ \/ r = Head(clusters[i])
                \/ \E q \in members[i] : Before(q, r) /\ r.died - q.died <= epsilon
       /\ \A i \in DOMAIN clusters : i > 1 =>
             LET first == Head(clusters[i])
             IN /\ \A q \in members[i - 1] : Before(q, first)
                /\ \/ \A q \in members[i - 1] : first.died - q.died > epsilon
                   \/ \E q \in members[i - 1] : first.died - q.died > 2 * epsilon

(* Each cluster's estimate is the least instant with at most half its estimators before it and at
   most half after it, the estimators being the log lines when it has any (cluster.go, estimate). *)
EstimateLaw ==
    LET clusters == Clusters
    IN \A i \in DOMAIN clusters :
        LET members  == MembersOf(clusters[i])
            lines    == {r \in members : LogLine(r)}
            voting   == IF lines # {} THEN lines ELSE members
            estimate == Estimate(clusters[i])
            Median(d) == /\ 2 * Cardinality({r \in voting : r.died < d}) <= Cardinality(voting)
                         /\ 2 * Cardinality({r \in voting : r.died > d}) <= Cardinality(voting)
            medians == {r.died : r \in {x \in voting : Median(x.died)}}
        IN estimate \in medians /\ \A d \in medians : estimate <= d

(* A withdrawn kill leaves no trace in the answer, and nothing un-withdraws it: the state is the
   state of the log that never held the kill, its retraction, or a retraction of that retraction
   (derive.go, foldRetractions). *)
WithdrawnLeavesNoTrace ==
    LET kept == {r \in reports : r.kind = "kill" /\ \A x \in reports : x.retracts # r.id}
    IN kept # reports => State = Derive(kept, quakes, timer, now, minimum, {})

(* A target is up exactly while its latest quake is unanswered by a standing kill, and any other
   answer names a kill no older than that quake (derive.go, truncateAtQuake). *)
UpLaw ==
    LET truncates == timer.quake /\ quakes # {}
        standing == {r \in FoldRetractions(reports) : truncates => r.died >= Latest(quakes)}
        state == State
    IN /\ (state.status = "up") <=> (truncates /\ standing = {})
       /\ (state.status = "up") => state.up = Latest(quakes) /\ state.died = None
       /\ state.died # None => \E r \in standing : r.died = state.died

(* Disagreement is surfaced, never resolved silently: an answer that is not the newest cluster, or
   that displaced a live cluster with more people behind it, is contested; and only a strictly
   better corroborated live cluster may hold the newest one back (derive.go, selectCurrent). *)
DisagreementIsSurfaced ==
    LET clusters == Clusters
        latest == Len(clusters)
        state == State
        c == CHOOSE i \in DOMAIN clusters : state.evidence.ids[1] = clusters[i][1].id
        Live(i) == WindowStillOpen(timer, Estimate(clusters[i]), now)
        Behind(i) == DistinctReporters(clusters[i])
    IN clusters # <<>> =>
        /\ c # latest => /\ state.contest \in {"pending_supersede", "implausible_ordering"}
                         /\ Behind(latest) < minimum /\ Behind(c) > Behind(latest)
                         /\ Live(c)
        /\ (\E i \in 1..c - 1 : Live(i) /\ Behind(i) > Behind(c)) => state.contest # None

(* High confidence is two different people within five minutes of the instant on the board, never
   a wide cluster that merely contains a log line (derive.go, corroborated). *)
HighMeansTwoOnTheEstimate ==
    LET state == State
        near  == {r \in FoldRetractions(reports) : Abs(r.died - state.died) <= Tolerance}
    IN state.confidence = "high" => Cardinality({r.reporter : r \in near}) > 1

(* Doubt is shown: neither does a disagreement go without its mark nor is an
   answer called high that one person alone stands behind (derive.go, selectCurrent, corroborated). *)
DoubtIsShown == DisagreementIsSurfaced /\ HighMeansTwoOnTheEstimate

(* Over one and the same log the clock moves the estimate only forward, and only by releasing a
   supersede that was pending; otherwise it only walks the status through the window and lets
   rivals expire (derive.go, selectCurrent; window.go, deriveStatus). *)
TheClockOnlyReleases ==
    LET order == [up |-> 0, unknown |-> 0, no_timer |-> 0,
                  pre_window |-> 0, in_window |-> 1, overdue |-> 2]
        before == State
        newest == Estimate(Last(Clusters))
    IN \A later \in {n \in Clock : n > now} :
        LET after == Derive(reports, quakes, timer, later, minimum, {})
        IN \/ /\ after.died = before.died
              /\ order[after.status] >= order[before.status]
              /\ after.alternativesTotal <= before.alternativesTotal
           \/ before.died < after.died /\ after.died = newest
=============================================================================
