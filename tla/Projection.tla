----------------------------- MODULE Projection -----------------------------
(***************************************************************************)
(* internal/projection beside the writers that move what it caches:        *)
(* internal/tod, internal/catalogue, internal/circle, internal/membership. *)
(*                                                                         *)
(* A row of target_state_cache is represented by the derivation that wrote *)
(* it: the inputs, the instant, and the change reason its caller passed.   *)
(* What the row says is Columns(row), so two rows differ here whenever the *)
(* derivations did, and the code's comparison of columns is Columns = .    *)
(*                                                                         *)
(* A writing transaction (store.DB.InTx, BEGIN IMMEDIATE) is one step.  A  *)
(* reader takes one step for its snapshot and one for every pooled         *)
(* statement after it, and may be abandoned between any two of them.       *)
(***************************************************************************)
EXTENDS Consensus

CONSTANTS Circles, Servers, ServerOf,   \* a circle is pinned to one server
          Targets, Members, Sources,
          Windows,      \* rows of raid_target_timer and circle_timer_override
          Deaths,       \* instants a kill may name
          QuakeTimes,   \* instants a quake may name
          Thresholds,   \* values of min_reporters_to_supersede
          Clock,        \* bound: the instants time stops at
          MaxReports,   \* bound: report ids
          MaxWrites,    \* bound: writing transactions
          Jobs, Nightly \* readers in flight, and the one that runs verify-states

ASSUME ProjectionAssumption ==
    /\ ServerOf \in [Circles -> Servers]
    /\ Deaths \subseteq Int /\ QuakeTimes \subseteq Int /\ Clock \subseteq Int
    /\ MaxReports \in Nat /\ MaxWrites \in Nat
    /\ 1 \in Thresholds /\ Thresholds \subseteq Nat
    /\ \E first \in Clock : \A n \in Clock : first <= n

FutureTolerance == 120
MaxBackdate     == 90 * 24 * 60 * 60
DefaultGrace    == 900      \* DefaultFixedGraceSeconds

VARIABLES
    reports,      \* tod_report, by circle
    quakes,       \* quake_event: the instants, by circle
    catalogue,    \* raid_target_timer, by server and target
    override,     \* circle_timer_override, by circle and target
    quakeTarget,  \* raid_target.is_quake_target
    threshold,    \* circle.min_reporters_to_supersede
    revoked,      \* memberships with revoked_at, by circle
    live,         \* circles with no deleted_at
    cache,        \* target_state_cache, by circle and target
    job,          \* readers in flight
    now,
    writes        \* transactions so far

timing == <<catalogue, override, quakeTarget>>
access == <<threshold, revoked, live>>
vars   == <<reports, quakes, timing, access, cache, job, now, writes>>

Ids == 1..MaxReports

-----------------------------------------------------------------------------
(* What a derivation is handed. *)

LogOf(c, t)    == {r \in reports[c] : r.target = t}
Reported(c)    == {t \in Targets : LogOf(c, t) # {}}
LatestQuake(c) == {q \in quakes[c] : \A p \in quakes[c] : p <= q}

TimerOf(window, flag) ==
    [open |-> window.open, close |-> window.close, kind |-> window.kind,
     grace |-> window.grace, epsilon |-> window.epsilon, quake |-> flag]

UnknownWindow ==
    [open |-> None, close |-> None, kind |-> "unknown", grace |-> DefaultGrace, epsilon |-> None]

(* Circle override, then catalogue timer, then unknown; the quake flag rides on every rung. *)
Rung(c, t) == IF override[c][t] # None THEN override[c][t] ELSE catalogue[ServerOf[c]][t]

EffectiveTimer(c, t) ==
    TimerOf(IF Rung(c, t) # None THEN Rung(c, t) ELSE UnknownWindow, quakeTarget[t])

(* ToConsensusReports marks each report whose reporter is revoked. *)
RevokedAmong(c, rows) == {r.reporter : r \in rows} \cap revoked[c]

Inputs(c, t) ==
    [rows |-> LogOf(c, t), quakes |-> LatestQuake(c), timer |-> EffectiveTimer(c, t),
     threshold |-> threshold[c], revoked |-> RevokedAmong(c, LogOf(c, t))]

DeriveFrom(in, at) == Derive(in.rows, in.quakes, in.timer, at, in.threshold, in.revoked)

-----------------------------------------------------------------------------
(* The cached row. *)

RowOf(in, at, reason) == [in |-> in, asOf |-> at, reason |-> reason]

LatestReportID(rows) == Latest({r.id : r \in rows})

(* The columns Verify compares; when the row was written is not among them. *)
Columns(row) ==
    LET state == DeriveFrom(row.in, row.asOf)
    IN [status |-> state.status, confidence |-> state.confidence, contest |-> state.contest,
        died |-> state.died, open |-> state.window.open, close |-> state.window.close,
        spawn |-> state.window.spawn, evidence |-> [state.evidence EXCEPT !.ids = <<>>],
        spreadKnown |-> state.evidence.ids # <<>>, latest |-> LatestReportID(row.in.rows)]

(* The explicit reason of a timer push, else what the log says happened last. *)
ChangeReason(row) ==
    LET state  == DeriveFrom(row.in, row.asOf)
        newest == CHOOSE r \in row.in.rows : r.id = LatestReportID(row.in.rows)
        ids    == state.evidence.ids
    IN CASE row.reason # None -> row.reason
         [] row.reason = None /\ state.status = "up" -> "quake"
         [] row.reason = None /\ state.status # "up" /\ newest.kind = "retraction" -> "retraction"
         [] OTHER -> IF newest.id \in {ids[i] : i \in DOMAIN ids} /\ Len(ids) > 1
                     THEN "corroboration" ELSE "new_kill"

(* Mutant: whatever was derived is cached, a log or none. *)
StoredAlways(in, at, reason) == RowOf(in, at, reason)

(* storeOrDrop: a row exists only for a target with a log. *)
Stored(in, at, reason) == IF in.rows = {} THEN None ELSE RowOf(in, at, reason)

-----------------------------------------------------------------------------
(* What the board draws from a row. *)

UpSince(timer, latest) == IF timer.quake /\ latest # {} THEN Latest(latest) ELSE None

(* Mutant: the status column is drawn as it was stored. *)
BoardEntryAsStored(row, timer, latest, at) ==
    IF row = None THEN Project(timer, None, UpSince(timer, latest), at)
    ELSE LET shown == Columns(row)
         IN [Project(timer, shown.died, UpSince(timer, latest), at) EXCEPT !.status = shown.status]

(* The estimate is read back; the status and the window are derived again. *)
BoardEntry(row, timer, latest, at) ==
    IF row = None THEN Project(timer, None, UpSince(timer, latest), at)
    ELSE LET shown == Columns(row)
             up    == IF shown.status = "up" THEN UpSince(timer, latest) ELSE None
         IN Project(timer, shown.died, up, at)

-----------------------------------------------------------------------------
Idle == [op |-> "idle", circle |-> None, todo |-> {}, focus |-> None, stage |-> "store",
         draft |-> [t \in Targets |-> None], seen |-> [t \in Targets |-> None]]

Init ==
    /\ reports = [c \in Circles |-> {}]
    /\ quakes = [c \in Circles |-> {}]
    /\ catalogue = [s \in Servers |-> [t \in Targets |-> None]]
    /\ override = [c \in Circles |-> [t \in Targets |-> None]]
    /\ quakeTarget \in [Targets -> BOOLEAN]
    /\ threshold = [c \in Circles |-> 1]
    /\ revoked = [c \in Circles |-> {}]
    /\ live = Circles
    /\ cache = [c \in Circles |-> [t \in Targets |-> None]]
    /\ job = [j \in Jobs |-> Idle]
    /\ now \in Clock /\ \A n \in Clock : now <= n
    /\ writes = 0

Tick ==
    /\ \E n \in Clock : n > now /\ (\A m \in Clock : m > now => n <= m) /\ now' = n
    /\ UNCHANGED <<reports, quakes, timing, access, cache, job, writes>>

Write == writes < MaxWrites /\ writes' = writes + 1

(* Invalidation is a DELETE inside the writing transaction. *)
Drop(c, gone) == cache' = [cache EXCEPT ![c] = [t \in Targets |-> IF t \in gone THEN None ELSE @[t]]]

-----------------------------------------------------------------------------
(* Writers of the log: internal/tod.  The tenancy check is a pooled read before the transaction, *)
(* so the circle may be tombstoned, and the member revoked, by the time the row lands.           *)

CheckDiedAt(died) == died <= now + FutureTolerance /\ died >= now - MaxBackdate

(* The id was minted before the transaction took the lock, so it need not be the largest. *)
Unminted(c) == Ids \ {r.id : r \in reports[c]}

CreateKill(c, t, reporter, source, died, id) ==
    /\ Write /\ id \in Unminted(c) /\ CheckDiedAt(died)
    /\ \A r \in LogOf(c, t) : ~(r.kind = "kill" /\ r.reporter = reporter /\ r.died = died)
    /\ reports' = [reports EXCEPT ![c] = @ \cup
           {[id |-> id, target |-> t, kind |-> "kill", reporter |-> reporter,
             source |-> source, died |-> died, retracts |-> None]}]
    /\ Drop(c, {t})
    /\ UNCHANGED <<quakes, timing, access, job, now>>

Retract(c, original, actor, id) ==
    /\ Write /\ id \in Unminted(c) /\ id > original.id
    /\ original.kind = "kill" /\ \A r \in reports[c] : r.retracts # original.id
    /\ reports' = [reports EXCEPT ![c] = @ \cup
           {[id |-> id, target |-> original.target, kind |-> "retraction", reporter |-> actor,
             source |-> "api", died |-> original.died, retracts |-> original.id]}]
    /\ Drop(c, {original.target})
    /\ UNCHANGED <<quakes, timing, access, job, now>>

ReportQuake(c, at) ==
    /\ Write /\ CheckDiedAt(at)
    /\ quakes' = [quakes EXCEPT ![c] = @ \cup {at}]
    /\ Drop(c, Targets)
    /\ UNCHANGED <<reports, timing, access, job, now>>

-----------------------------------------------------------------------------
(* Writers of a timer: internal/catalogue.  The recomputation joins the transaction, so it reads *)
(* the tables as the transaction leaves them: Inputs(c, t) primed.                               *)

Recompute(circles, t) ==
    cache' = [c \in Circles |-> IF c \in circles
                 THEN [cache[c] EXCEPT ![t] = Stored(Inputs(c, t)', now, "timer_change")]
                 ELSE cache[c]]

(* Mutant: the fan-out lists every circle on the server, tombstoned ones too. *)
EveryCircleOn(s) == {c \in Circles : ServerOf[c] = s}

LiveCirclesOn(s) == {c \in live : ServerOf[c] = s}

(* Mutant: the circles that overrode the catalogue are recomputed with the rest. *)
PutTimerNoSkip(s, t, window) ==
    /\ Write
    /\ catalogue' = [catalogue EXCEPT ![s][t] = window]
    /\ UNCHANGED <<override, quakeTarget, reports, quakes, access, job, now>>
    /\ Recompute(LiveCirclesOn(s), t)

PutTimer(s, t, window) ==
    /\ Write
    /\ catalogue' = [catalogue EXCEPT ![s][t] = window]
    /\ UNCHANGED <<override, quakeTarget, reports, quakes, access, job, now>>
    /\ Recompute({c \in LiveCirclesOn(s) : override[c][t] = None}, t)

(* Mutant: the recomputation resolves the timer on the pool, and sees the old override. *)
PutOverrideOnThePool(c, t, window) ==
    /\ Write /\ c \in live
    /\ override' = [override EXCEPT ![c][t] = window]
    /\ cache' = [cache EXCEPT ![c][t] = Stored(Inputs(c, t), now, "timer_change")]
    /\ UNCHANGED <<catalogue, quakeTarget, reports, quakes, access, job, now>>

(* OnTimerChange reads the circle, so a tombstoned one rolls the write back. *)
PutOverride(c, t, window) ==
    /\ Write /\ c \in live
    /\ override' = [override EXCEPT ![c][t] = window]
    /\ UNCHANGED <<catalogue, quakeTarget, reports, quakes, access, job, now>>
    /\ Recompute({c}, t)

DeleteOverride(c, t) ==
    /\ Write /\ c \in live /\ override[c][t] # None
    /\ override' = [override EXCEPT ![c][t] = None]
    /\ UNCHANGED <<catalogue, quakeTarget, reports, quakes, access, job, now>>
    /\ Recompute({c}, t)

(* Mutant: the quake fan-out skips an overridden circle, as the catalogue one rightly does. *)
UpdateTargetSkipping(t, flag) ==
    /\ Write
    /\ quakeTarget' = [quakeTarget EXCEPT ![t] = flag]
    /\ UNCHANGED <<catalogue, override, reports, quakes, access, job, now>>
    /\ Recompute(IF flag = quakeTarget[t] THEN {} ELSE {c \in live : override[c][t] = None}, t)

(* updateRaidTarget: only a flag that moved is pushed, and then at every live circle. *)
UpdateTarget(t, flag) ==
    /\ Write
    /\ quakeTarget' = [quakeTarget EXCEPT ![t] = flag]
    /\ UNCHANGED <<catalogue, override, reports, quakes, access, job, now>>
    /\ Recompute(IF flag = quakeTarget[t] THEN {} ELSE live, t)

-----------------------------------------------------------------------------
(* Writers of the circle and its members; none of them touches the cache. *)

UpdateCircle(c, n) ==
    /\ Write /\ threshold' = [threshold EXCEPT ![c] = n]
    /\ UNCHANGED <<reports, quakes, timing, revoked, live, cache, job, now>>

Revoke(c, m) ==
    /\ Write /\ c \in live /\ m \notin revoked[c]
    /\ revoked' = [revoked EXCEPT ![c] = @ \cup {m}]
    /\ UNCHANGED <<reports, quakes, timing, threshold, live, cache, job, now>>

Reinstate(c, m) ==
    /\ Write /\ m \in revoked[c]
    /\ revoked' = [revoked EXCEPT ![c] = @ \ {m}]
    /\ UNCHANGED <<reports, quakes, timing, threshold, live, cache, job, now>>

DeleteCircle(c) ==
    /\ Write /\ c \in live
    /\ live' = live \ {c}
    /\ UNCHANGED <<reports, quakes, timing, threshold, revoked, cache, job, now>>

-----------------------------------------------------------------------------
(* Readers: one snapshot, then one write-back for every target it derived. *)

(* Mutant: a target nobody has reported gets no derivation. *)
SnapshotOfReported(op, c, todo, stage, seen) ==
    [op |-> op, circle |-> c, todo |-> todo, focus |-> None, stage |-> stage,
     draft |-> [t \in Targets |-> IF t \in todo \cap Reported(c)
                                  THEN RowOf(Inputs(c, t), now, None) ELSE None],
     seen |-> seen]

Snapshot(op, c, todo, stage, seen) ==
    [op |-> op, circle |-> c, todo |-> todo, focus |-> None, stage |-> stage,
     draft |-> [t \in Targets |-> IF t \in todo THEN RowOf(Inputs(c, t), now, None) ELSE None],
     seen |-> seen]

Begin(j, op, c, todo, stage, seen) ==
    /\ job[j] = Idle /\ c \in live /\ todo # {}
    /\ job' = [job EXCEPT ![j] = Snapshot(op, c, todo, stage, seen)]
    /\ UNCHANGED <<reports, quakes, timing, access, cache, now, writes>>

Unseen == [t \in Targets |-> None]

BeginGet(j, c, t)   == Begin(j, "get", c, {t}, "store", Unseen)
BeginRebuild(j, c)  == Begin(j, "rebuild", c, Reported(c), "store", Unseen)

(* Mutant: the sweep fills the rows that are missing and trusts the ones it finds. *)
BeginVerifyTrusting(c) ==
    Begin(Nightly, "verify", c, {t \in Reported(c) : cache[c][t] = None}, "store", cache[c])

(* Every reported target is recomputed and written; whatever else is cached is an orphan, which *)
(* the write-back of an empty log removes.                                                      *)
BeginVerify(c) ==
    Begin(Nightly, "verify", c, Reported(c) \cup {t \in Targets : cache[c][t] # None}, "store", cache[c])

(* The board fills the reported targets its snapshot found no row for. *)
BeginBoard(j, c) ==
    Begin(j, "board", c, {t \in Reported(c) : cache[c][t] = None}, "read", cache[c])

Redraft(j, t, stage, in, at) ==
    job' = [job EXCEPT ![j] = [job[j] EXCEPT !.focus = t, !.stage = stage,
                                 !.draft = [job[j].draft EXCEPT ![t] = RowOf(in, at, None)]]]

(* recompute on the pool: the rows, then the revocations and the clock; the timer, the quake and *)
(* the threshold are the snapshot's.                                                             *)
FillRead(j, t) ==
    /\ job[j].stage = "read" /\ t \in job[j].todo
    /\ Redraft(j, t, "derive", [job[j].draft[t].in EXCEPT !.rows = LogOf(job[j].circle, t)],
               job[j].draft[t].asOf)
    /\ UNCHANGED <<reports, quakes, timing, access, cache, now, writes>>

FillDerive(j, t) ==
    /\ job[j].stage = "derive" /\ t = job[j].focus
    /\ Redraft(j, t, "store", [job[j].draft[t].in EXCEPT
                  !.revoked = RevokedAmong(job[j].circle, job[j].draft[t].in.rows)], now)
    /\ UNCHANGED <<reports, quakes, timing, access, cache, now, writes>>

Finish(j, t) ==
    LET left == [job[j] EXCEPT !.todo = job[j].todo \ {t}, !.focus = None,
                               !.stage = IF job[j].op = "board" THEN "read" ELSE "store"]
    IN job' = [job EXCEPT ![j] = IF job[j].todo = {t} THEN Idle ELSE left]

(* Get asks the clock after its snapshot has ended. *)
DerivedAt(j, t) ==
    {n \in Clock : IF job[j].op = "get" THEN job[j].draft[t].asOf <= n /\ n <= now
                   ELSE n = job[j].draft[t].asOf}

(* The write-back replaces whatever is there, on the pool, with no look at what has changed. *)
Store(j, t) ==
    /\ job[j].stage = "store" /\ t \in job[j].todo /\ job[j].focus \in {None, t}
    /\ \E at \in DerivedAt(j, t) :
          cache' = [cache EXCEPT ![job[j].circle][t] = Stored(job[j].draft[t].in, at, None)]
    /\ Finish(j, t)
    /\ UNCHANGED <<reports, quakes, timing, access, now, writes>>

(* A client goes away, or the process stops. *)
Abandon(j) ==
    /\ job[j] # Idle
    /\ job' = [job EXCEPT ![j] = Idle]
    /\ UNCHANGED <<reports, quakes, timing, access, cache, now, writes>>

-----------------------------------------------------------------------------
LogWrite(c) ==
    \/ \E t \in Targets, m \in Members, s \in Sources, d \in Deaths, id \in Ids :
          CreateKill(c, t, m, s, d, id)
    \/ \E r \in reports[c], m \in Members, id \in Ids : Retract(c, r, m, id)
    \/ \E at \in QuakeTimes : ReportQuake(c, at)

TimerWrite ==
    \/ \E s \in Servers, t \in Targets, w \in Windows : PutTimer(s, t, w)
    \/ \E c \in Circles, t \in Targets, w \in Windows : PutOverride(c, t, w)
    \/ \E c \in Circles, t \in Targets : DeleteOverride(c, t)
    \/ \E t \in Targets, flag \in BOOLEAN : UpdateTarget(t, flag)

CircleWrite(c) ==
    \/ \E n \in Thresholds : UpdateCircle(c, n)
    \/ \E m \in Members : Revoke(c, m) \/ Reinstate(c, m)
    \/ DeleteCircle(c)

Read(j) ==
    \/ \E c \in Circles :
          IF j = Nightly THEN BeginVerify(c)
          ELSE \/ \E t \in Targets : BeginGet(j, c, t)
               \/ BeginRebuild(j, c)
               \/ BeginBoard(j, c)
    \/ \E t \in Targets : FillRead(j, t) \/ FillDerive(j, t) \/ Store(j, t)
    \/ Abandon(j)

Next ==
    \/ Tick
    \/ TimerWrite
    \/ \E c \in Circles : LogWrite(c) \/ CircleWrite(c)
    \/ \E j \in Jobs : Read(j)

Spec == Init /\ [][Next]_vars

(* The nightly timer keeps firing, and a sweep that keeps reaching a write-back is not killed    *)
(* before it every time.  Nothing is assumed of requests.                                        *)
NightlyFairness ==
    \A c \in Circles :
        /\ SF_vars(BeginVerify(c))
        /\ \A t \in Targets : SF_vars(Store(Nightly, t) /\ job[Nightly].circle = c)

FairSpec == Spec /\ NightlyFairness

-----------------------------------------------------------------------------
(* What holds. *)

Optional(S) == S \cup {None}

Report == [id : Ids, target : Targets, kind : {"kill", "retraction"}, reporter : Members,
           source : Sources \cup {"api"}, died : Int, retracts : Optional(Ids)]
Timer  == {TimerOf(w, flag) : w \in Windows \cup {UnknownWindow}, flag \in BOOLEAN}
Input  == [rows : SUBSET Report, quakes : SUBSET QuakeTimes, timer : Timer,
           threshold : Thresholds, revoked : SUBSET Members]
Row    == [in : Input, asOf : Clock, reason : Optional({"timer_change"})]
Reader == [op : {"idle", "get", "rebuild", "verify", "board"}, circle : Optional(Circles),
           todo : SUBSET Targets, focus : Optional(Targets), stage : {"read", "derive", "store"},
           draft : [Targets -> Optional(Row)], seen : [Targets -> Optional(Row)]]

TablesOK ==
    /\ reports \in [Circles -> SUBSET Report]
    /\ quakes \in [Circles -> SUBSET QuakeTimes]
    /\ catalogue \in [Servers -> [Targets -> Optional(Windows)]]
    /\ override \in [Circles -> [Targets -> Optional(Windows)]]
    /\ quakeTarget \in [Targets -> BOOLEAN]
    /\ threshold \in [Circles -> Thresholds]
    /\ revoked \in [Circles -> SUBSET Members]
    /\ live \subseteq Circles

CacheOK == cache \in [Circles -> [Targets -> Optional(Row)]]

ReadersOK ==
    /\ job \in [Jobs -> Reader]
    /\ \A j \in Jobs : job[j].todo # {} =>
          job[j].circle \in Circles /\ \A t \in job[j].todo : job[j].draft[t] \in Row
    /\ \A j \in Jobs : job[j].stage = "derive" => job[j].focus \in job[j].todo

(* Every table holds what its schema admits, every cached row is a derivation that could have been
   made, and a reader in flight names a circle and holds a draft for each target it has left. *)
TypeOK ==
    /\ TablesOK /\ CacheOK /\ ReadersOK
    /\ now \in Clock
    /\ writes \in 0..MaxWrites

(* The board never shows evidence the log does not hold, and a row exists only for a target with a
   log, so the nightly sweep never finds an orphan: through every stale write-back, dropped circle
   and timer push, a cached row was folded from a non-empty part of its own target's log
   (rebuild.go, storeOrDrop; verify.go, Orphans). *)
CacheNeverInvents ==
    \A c \in Circles, t \in Targets : cache[c][t] # None =>
        cache[c][t].in.rows # {} /\ cache[c][t].in.rows \subseteq LogOf(c, t)

Exact(c, t) == cache[c][t] # None /\ cache[c][t].in = Inputs(c, t)

(* A current row is never left behind by a write: any step that moves what a live circle's row was
   derived from removes or replaces it, with the two exceptions the writers have - the supersede
   threshold and the standing of a reporter (tod.go, invalidate; timer.go, TimerInvalidator). *)
LeavesNothingBehind ==
    \A c \in live, t \in Targets :
        Exact(c, t) /\ Inputs(c, t)' # Inputs(c, t) /\ cache'[c][t] = cache[c][t]
        => threshold'[c] # threshold[c] \/ revoked'[c] # revoked[c]
OnlyKnownDoors == [][LeavesNothingBehind]_vars

(* A step that moves the effective timer of a live circle leaves no row derived under another one:
   the row is absent, or it is a derivation under the new timer that says timer_change.  A row that
   was stale before is healed too (rebuild.go, OnTimerChange, OnCatalogueTimerChange,
   OnQuakeTargetChange). *)
PushesTheNewTimer ==
    \A c \in live, t \in Targets :
        EffectiveTimer(c, t)' # EffectiveTimer(c, t)
        => \/ cache'[c][t] = None
           \/ Exact(c, t)' /\ cache'[c][t].reason = "timer_change" /\ cache'[c][t].asOf = now
TimerMoveRecomputes == [][PushesTheNewTimer]_vars

(* timer_change is not written on a board the change did not reach: a step that moves the timer
   tables but neither a circle's override, nor the catalogue row it falls back to, nor the target's
   flag, leaves that circle's row alone, whoever else it moved (rebuild.go, skipOverridden;
   catalogue.go, Update). *)
SparesTheUnmoved ==
    \A c \in Circles, t \in Targets :
        /\ timing' # timing
        /\ override'[c][t] = override[c][t] /\ Rung(c, t)' = Rung(c, t)
        /\ quakeTarget'[t] = quakeTarget[t]
        => cache'[c][t] = cache[c][t]
NoFalseTimerChange == [][SparesTheUnmoved]_vars

(* A deleted circle does not come back onto the recompute path: its rows only go away, save for a
   write-back some reader had begun before the deletion (rebuild.go, ListLiveCircles; verify.go). *)
StaysOff ==
    \A c \in Circles \ live, t \in Targets :
        \/ cache'[c][t] \in {cache[c][t], None}
        \/ \E j \in Jobs : job[j].circle = c /\ t \in job[j].todo
TombstoneStaysOff == [][StaysOff]_vars

(* What the board draws from a current row at a later instant, without reading the log, is what a
   derivation at that instant says, unless the clock has since moved the estimate itself; and a
   target nobody reported is drawn right with no row at all (projection.go, boardEntry). *)
RenderedIsDerived ==
    \A c \in live, t \in Targets :
        LET in    == Inputs(c, t)
            row   == cache[c][t]
            fresh == DeriveFrom(in, now)
        IN (IF row = None THEN in.rows = {} ELSE row.in = in /\ Columns(row).died = fresh.died)
           => BoardEntry(row, in.timer, in.quakes, now) = [status |-> fresh.status, window |-> fresh.window]

(* Once writes stop, the nightly sweep brings every cached row of a live circle to what its inputs
   say and nothing spoils it again, whatever the requests in flight had read before
   (docs/concepts/invariants.md, DerivedWriteFollowsItsSnapshot: bounded by the nightly job). *)
EventuallyExact ==
    <>[](\A c \in live, t \in Targets : cache[c][t] # None => Exact(c, t))

-----------------------------------------------------------------------------
(* What the repository says and the code does not do. *)

(* The projection "throws the row away the moment anything it was computed from changes": no step
   leaves a current row behind when a derivation would now say something else (doc.go). *)
ThrownAwayWhenAnythingChanges ==
    [][\A c \in live, t \in Targets :
          Exact(c, t) =>
            LET row   == cache[c][t]
                fresh == RowOf(Inputs(c, t)', row.asOf, None)
            IN Columns(fresh) = Columns(row) \/ cache'[c][t] # row]_vars

(* "A cached up was true when it was written": no row that makes the board draw a target as up is
   written once the log holds a kill since the quake (projection.go, boardEntry). *)
UpBy(in) == TruncateAtQuake(FoldRetractions(in.rows), in.quakes, in.timer).up
CachedUpWasTrue ==
    [][\A c \in live, t \in Targets :
          /\ cache'[c][t] # cache[c][t] /\ cache'[c][t] # None
          /\ UpBy(cache'[c][t].in) # None /\ quakeTarget[t] /\ UNCHANGED timing
          => UpBy(Inputs(c, t)) # None]_vars

(* A sweep that finds rows derived from the very inputs it reads itself finds nothing to alert on:
   "a cache that drifts is either a bug in the invalidation or a write that reached the database
   another way" (verify.go). *)
HealthyInstanceIsSilent ==
    \A j \in Jobs : job[j].op = "verify" =>
        \A t \in job[j].todo :
            LET was == job[j].seen[t]
                found == job[j].draft[t]
            IN was # None /\ was.in = found.in => Columns(was) = Columns(found)
=============================================================================
