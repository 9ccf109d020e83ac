-------------------------- MODULE ProjectionProofs --------------------------
(***************************************************************************)
(* Theorems of Projection for every number of circles, targets, members    *)
(* and readers, and for every set of windows and instants.  Derive is      *)
(* never expanded: what is proved is about which derivation a row holds.   *)
(***************************************************************************)
EXTENDS Projection, TLAPS, FiniteSetTheorems

-----------------------------------------------------------------------------
(* What a derivation is handed has the type of a derivation's inputs. *)
LEMMA InputsType ==
    TablesOK => \A c \in Circles, t \in Targets : Inputs(c, t) \in Input
<1> SUFFICES ASSUME TablesOK, NEW c \in Circles, NEW t \in Targets
             PROVE  Inputs(c, t) \in Input
  OBVIOUS
<1>1. LogOf(c, t) \in SUBSET Report
  BY DEF TablesOK, LogOf
<1>2. LatestQuake(c) \in SUBSET QuakeTimes
  BY DEF TablesOK, LatestQuake
<1>3. EffectiveTimer(c, t) \in Timer
  <2>1. ServerOf[c] \in Servers
    BY ProjectionAssumption
  <2>2. \/ override[c][t] # None /\ override[c][t] \in Windows
        \/ override[c][t] = None
    BY DEF TablesOK, Optional
  <2>3. \/ catalogue[ServerOf[c]][t] # None /\ catalogue[ServerOf[c]][t] \in Windows
        \/ catalogue[ServerOf[c]][t] = None
    BY <2>1 DEF TablesOK, Optional
  <2>4. \E w \in Windows \cup {UnknownWindow} : EffectiveTimer(c, t) = TimerOf(w, quakeTarget[t])
    BY <2>2, <2>3 DEF EffectiveTimer, Rung
  <2> QED
    BY <2>4 DEF Timer, TablesOK
<1>4. RevokedAmong(c, LogOf(c, t)) \in SUBSET Members
  BY DEF TablesOK, RevokedAmong
<1>5. threshold[c] \in Thresholds
  BY DEF TablesOK
<1> QED
  BY <1>1, <1>2, <1>3, <1>4, <1>5 DEF Inputs, Input

(* The same, of the tables as a transaction leaves them. *)
LEMMA InputsTypeAfter ==
    TablesOK' => \A c \in Circles, t \in Targets : Inputs(c, t)' \in Input
<1>1. (TablesOK => \A c \in Circles, t \in Targets : Inputs(c, t) \in Input)'
  BY InputsType, PTL
<1> QED
  BY <1>1

(* A row is made of inputs, an instant and a reason, and is stored only with a log behind it. *)
LEMMA RowType ==
    ASSUME NEW in \in Input, NEW at \in Clock, NEW reason \in Optional({"timer_change"})
    PROVE  /\ RowOf(in, at, reason) \in Row
           /\ Stored(in, at, reason) \in Optional(Row)
           /\ Stored(in, at, reason) # None =>
                 Stored(in, at, reason).in = in /\ in.rows # {}
BY DEF RowOf, Stored, Row, Optional

-----------------------------------------------------------------------------
(* A step writes one kind of thing: the log, a timer, a circle, what a reader does, or the clock. *)
LogStep    == (\E c \in Circles : LogWrite(c)) /\ UNCHANGED <<timing, access, job, now>>
TimerStep  == TimerWrite /\ UNCHANGED <<reports, quakes, access, job, now>>
CircleStep == (\E c \in Circles : CircleWrite(c)) /\ UNCHANGED <<reports, quakes, timing, cache, job, now>>
ReadStep   == (\E j \in Jobs : Read(j)) /\ UNCHANGED <<reports, quakes, timing, access, now, writes>>
ClockStep  == (Tick \/ UNCHANGED now) /\ UNCHANGED <<reports, quakes, timing, access, cache, job, writes>>

(* Every disjunct of Next is a step of one kind, and leaves the other kinds' tables alone. *)
LEMMA OneKindOfStep ==
    ASSUME [Next]_vars
    PROVE  LogStep \/ TimerStep \/ CircleStep \/ ReadStep \/ ClockStep
<1>1. ASSUME NEW c \in Circles, LogWrite(c) PROVE LogStep
  <2>1. UNCHANGED <<timing, access, job, now>>
    <3>1. ASSUME NEW t \in Targets, NEW m \in Members, NEW s \in Sources, NEW d \in Deaths,
                 NEW id \in Ids, CreateKill(c, t, m, s, d, id)
          PROVE  UNCHANGED <<timing, access, job, now>>
      BY <3>1 DEF CreateKill
    <3>2. ASSUME NEW r \in reports[c], NEW m \in Members, NEW id \in Ids, Retract(c, r, m, id)
          PROVE  UNCHANGED <<timing, access, job, now>>
      BY <3>2 DEF Retract
    <3>3. ASSUME NEW at \in QuakeTimes, ReportQuake(c, at)
          PROVE  UNCHANGED <<timing, access, job, now>>
      BY <3>3 DEF ReportQuake
    <3> QED
      BY <1>1, <3>1, <3>2, <3>3 DEF LogWrite
  <2> QED
    BY <1>1, <2>1 DEF LogStep
<1>2. ASSUME TimerWrite PROVE TimerStep
  <2>1. ASSUME NEW s \in Servers, NEW t \in Targets, NEW w \in Windows, PutTimer(s, t, w)
        PROVE  UNCHANGED <<reports, quakes, access, job, now>>
    BY <2>1 DEF PutTimer
  <2>2. ASSUME NEW c \in Circles, NEW t \in Targets, NEW w \in Windows, PutOverride(c, t, w)
        PROVE  UNCHANGED <<reports, quakes, access, job, now>>
    BY <2>2 DEF PutOverride
  <2>3. ASSUME NEW c \in Circles, NEW t \in Targets, DeleteOverride(c, t)
        PROVE  UNCHANGED <<reports, quakes, access, job, now>>
    BY <2>3 DEF DeleteOverride
  <2>4. ASSUME NEW t \in Targets, NEW flag \in BOOLEAN, UpdateTarget(t, flag)
        PROVE  UNCHANGED <<reports, quakes, access, job, now>>
    BY <2>4 DEF UpdateTarget
  <2>5. UNCHANGED <<reports, quakes, access, job, now>>
    BY <1>2, <2>1, <2>2, <2>3, <2>4 DEF TimerWrite
  <2> QED
    BY <1>2, <2>5 DEF TimerStep
<1>3. ASSUME NEW c \in Circles, CircleWrite(c) PROVE CircleStep
  BY <1>3 DEF CircleStep, CircleWrite, UpdateCircle, Revoke, Reinstate, DeleteCircle
<1>4. ASSUME NEW j \in Jobs, Read(j) PROVE ReadStep
  <2>1. ASSUME NEW c \in Circles, NEW op, NEW todo, NEW stage, NEW seen,
               Begin(j, op, c, todo, stage, seen)
        PROVE  UNCHANGED <<reports, quakes, timing, access, now, writes>>
    BY <2>1 DEF Begin
  <2>2. ASSUME NEW c \in Circles, BeginVerify(c)
        PROVE  UNCHANGED <<reports, quakes, timing, access, now, writes>>
    BY <2>2 DEF BeginVerify, Begin
  <2>3. ASSUME NEW t \in Targets, FillRead(j, t) \/ FillDerive(j, t) \/ Store(j, t)
        PROVE  UNCHANGED <<reports, quakes, timing, access, now, writes>>
    BY <2>3 DEF FillRead, FillDerive, Store
  <2>4. Abandon(j) => UNCHANGED <<reports, quakes, timing, access, now, writes>>
    BY DEF Abandon
  <2>5. UNCHANGED <<reports, quakes, timing, access, now, writes>>
    BY <1>4, <2>1, <2>2, <2>3, <2>4 DEF Read, BeginGet, BeginRebuild, BeginBoard
  <2> QED
    BY <1>4, <2>5 DEF ReadStep
<1>5. Tick => ClockStep
  BY DEF ClockStep, Tick
<1>6. UNCHANGED vars => ClockStep
  BY DEF ClockStep, vars
<1> QED
  BY <1>1, <1>2, <1>3, <1>4, <1>5, <1>6 DEF Next

(* The log only grows, for every circle and in every step. *)
LEMMA LogGrows ==
    ASSUME TypeOK, [Next]_vars, NEW c \in Circles
    PROVE  reports[c] \subseteq reports'[c]
<1> USE DEF TypeOK, TablesOK
<1>1. ASSUME NEW d \in Circles, LogWrite(d) PROVE reports[c] \subseteq reports'[c]
  <2>1. ASSUME NEW t \in Targets, NEW m \in Members, NEW s \in Sources, NEW died \in Deaths,
               NEW id \in Ids, CreateKill(d, t, m, s, died, id)
        PROVE  reports[c] \subseteq reports'[c]
    BY <2>1 DEF CreateKill
  <2>2. ASSUME NEW r \in reports[d], NEW m \in Members, NEW id \in Ids, Retract(d, r, m, id)
        PROVE  reports[c] \subseteq reports'[c]
    BY <2>2 DEF Retract
  <2>3. ASSUME NEW at \in QuakeTimes, ReportQuake(d, at) PROVE reports[c] \subseteq reports'[c]
    BY <2>3 DEF ReportQuake
  <2> QED
    BY <1>1, <2>1, <2>2, <2>3 DEF LogWrite
<1> QED
  BY <1>1, OneKindOfStep DEF LogStep, TimerStep, CircleStep, ReadStep, ClockStep

-----------------------------------------------------------------------------
(* The one way a row comes to be: it was there, it was deleted, a timer's transaction pushed it,
   or a reader in flight wrote back its draft. *)
Kept(c, t)   == cache'[c][t] \in {cache[c][t], None}
Pushed(c, t) == TimerStep /\ c \in live /\ cache'[c][t] = Stored(Inputs(c, t)', now, "timer_change")
WrittenBack(c, t) ==
    ReadStep /\ \E j \in Jobs, at \in Clock :
        /\ job[j].circle = c /\ t \in job[j].todo
        /\ cache'[c][t] = Stored(job[j].draft[t].in, at, None)

Shaped(f) == f = [c \in Circles |-> [t \in Targets |-> f[c][t]]]

(* An invalidation leaves a row as it was or deletes it, whichever targets it names. *)
LEMMA DropKeeps ==
    ASSUME CacheOK, NEW d \in Circles, NEW gone \in SUBSET Targets, Drop(d, gone)
    PROVE  Shaped(cache') /\ \A c \in Circles, t \in Targets : Kept(c, t)
BY DEF CacheOK, Drop, Shaped, Kept

(* A fan-out replaces one target's row in the circles it lists and nothing else. *)
LEMMA RecomputeShape ==
    ASSUME CacheOK, NEW circles \in SUBSET Circles, NEW u \in Targets, Recompute(circles, u)
    PROVE  /\ Shaped(cache')
           /\ \A c \in circles : cache'[c][u] = Stored(Inputs(c, u)', now, "timer_change")
           /\ \A c \in Circles, t \in Targets : c \notin circles \/ t # u => cache'[c][t] = cache[c][t]
BY DEF CacheOK, Recompute, Shaped

(* A fan-out over live circles pushes the rows it replaces. *)
LEMMA RecomputePushes ==
    ASSUME CacheOK, TimerStep, NEW circles \in SUBSET Circles, circles \subseteq live,
           NEW u \in Targets, Recompute(circles, u)
    PROVE  Shaped(cache') /\ \A c \in Circles, t \in Targets : Kept(c, t) \/ Pushed(c, t)
BY RecomputeShape DEF Kept, Pushed

(* Every step keeps, pushes or writes back each row: the three doors into target_state_cache. *)
LEMMA CacheStep ==
    ASSUME TypeOK, [Next]_vars
    PROVE  /\ Shaped(cache')
           /\ \A c \in Circles, t \in Targets : Kept(c, t) \/ Pushed(c, t) \/ WrittenBack(c, t)
<1> DEFINE Goal == /\ Shaped(cache')
                   /\ \A c \in Circles, t \in Targets : Kept(c, t) \/ Pushed(c, t) \/ WrittenBack(c, t)
<1> USE DEF TypeOK
<1>1. UNCHANGED cache => Goal
  BY DEF CacheOK, Shaped, Kept
<1>2. ASSUME NEW d \in Circles, LogWrite(d) PROVE Goal
  <2>1. ASSUME NEW t \in Targets, NEW m \in Members, NEW s \in Sources, NEW died \in Deaths,
               NEW id \in Ids, CreateKill(d, t, m, s, died, id)
        PROVE  Goal
    BY <2>1, DropKeeps, {t} \in SUBSET Targets DEF CreateKill
  <2>2. ASSUME NEW r \in reports[d], NEW m \in Members, NEW id \in Ids, Retract(d, r, m, id)
        PROVE  Goal
    <3>1. {r.target} \in SUBSET Targets
      BY DEF TablesOK, Report
    <3> QED
      BY <2>2, <3>1, DropKeeps DEF Retract
  <2>3. ASSUME NEW at \in QuakeTimes, ReportQuake(d, at) PROVE Goal
    BY <2>3, DropKeeps DEF ReportQuake
  <2> QED
    BY <1>2, <2>1, <2>2, <2>3 DEF LogWrite
<1>3. ASSUME TimerWrite, TimerStep PROVE Goal
  <2>1. ASSUME NEW s \in Servers, NEW t \in Targets, NEW w \in Windows, PutTimer(s, t, w)
        PROVE  Goal
    <3> DEFINE moved == {c \in LiveCirclesOn(s) : override[c][t] = None}
    <3>1. moved \in SUBSET Circles /\ moved \subseteq live
      BY DEF LiveCirclesOn, TablesOK
    <3>2. Recompute(moved, t)
      BY <2>1 DEF PutTimer
    <3> QED
      BY <1>3, <3>1, <3>2, RecomputePushes
  <2>2. ASSUME NEW c \in Circles, NEW t \in Targets, NEW w \in Windows, PutOverride(c, t, w)
        PROVE  Goal
    <3>1. {c} \in SUBSET Circles /\ {c} \subseteq live /\ Recompute({c}, t)
      BY <2>2 DEF PutOverride
    <3> QED
      BY <1>3, <3>1, RecomputePushes
  <2>3. ASSUME NEW c \in Circles, NEW t \in Targets, DeleteOverride(c, t) PROVE Goal
    <3>1. {c} \in SUBSET Circles /\ {c} \subseteq live /\ Recompute({c}, t)
      BY <2>3 DEF DeleteOverride
    <3> QED
      BY <1>3, <3>1, RecomputePushes
  <2>4. ASSUME NEW t \in Targets, NEW flag \in BOOLEAN, UpdateTarget(t, flag) PROVE Goal
    <3> DEFINE moved == IF flag = quakeTarget[t] THEN {} ELSE live
    <3>1. moved \in SUBSET Circles /\ moved \subseteq live
      BY DEF TablesOK
    <3>2. Recompute(moved, t)
      BY <2>4 DEF UpdateTarget
    <3> QED
      BY <1>3, <3>1, <3>2, RecomputePushes
  <2> QED
    BY <1>3, <2>1, <2>2, <2>3, <2>4 DEF TimerWrite
<1>4. ASSUME NEW j \in Jobs, Read(j), ReadStep PROVE Goal
  <2>1. ASSUME NEW t \in Targets, Store(j, t) PROVE Goal
    <3>1. job[j].circle \in Circles
      BY <2>1 DEF Store, ReadersOK
    <3>2. PICK at \in DerivedAt(j, t) :
             cache' = [cache EXCEPT ![job[j].circle][t] = Stored(job[j].draft[t].in, at, None)]
      BY <2>1 DEF Store
    <3>3. at \in Clock /\ t \in job[j].todo
      BY <2>1, <3>2 DEF DerivedAt, Store
    <3>4. Shaped(cache')
      BY <3>1, <3>2 DEF CacheOK, Shaped
    <3>5. ASSUME NEW c \in Circles, NEW u \in Targets PROVE Kept(c, u) \/ WrittenBack(c, u)
      <4>1. CASE c = job[j].circle /\ u = t
        BY <1>4, <3>1, <3>2, <3>3, <4>1 DEF CacheOK, WrittenBack
      <4>2. CASE ~(c = job[j].circle /\ u = t)
        BY <3>1, <3>2, <4>2 DEF CacheOK, Kept
      <4> QED
        BY <4>1, <4>2
    <3> QED
      BY <3>4, <3>5
  <2>2. ASSUME NEW c \in Circles, NEW op, NEW todo, NEW stage, NEW seen,
               Begin(j, op, c, todo, stage, seen)
        PROVE  UNCHANGED cache
    BY <2>2 DEF Begin
  <2>3. ASSUME NEW c \in Circles, BeginVerify(c) PROVE UNCHANGED cache
    BY <2>3 DEF BeginVerify, Begin
  <2>4. ASSUME NEW t \in Targets, FillRead(j, t) \/ FillDerive(j, t) PROVE UNCHANGED cache
    BY <2>4 DEF FillRead, FillDerive
  <2>5. Abandon(j) => UNCHANGED cache
    BY DEF Abandon
  <2> HIDE DEF Goal
  <2> QED
    BY <1>1, <1>4, <2>1, <2>2, <2>3, <2>4, <2>5 DEF Read, BeginGet, BeginRebuild, BeginBoard
<1> HIDE DEF Goal
<1>5. Goal
  BY <1>1, <1>2, <1>3, <1>4, OneKindOfStep
     DEF LogStep, TimerStep, CircleStep, ReadStep, ClockStep
<1> QED
  BY <1>5 DEF Goal

-----------------------------------------------------------------------------
(* Type correctness, part by part. *)
LEMMA TablesType ==
    ASSUME TypeOK, [Next]_vars
    PROVE  TablesOK'
<1> USE DEF TypeOK
<1>1. UNCHANGED <<reports, quakes, timing, access>> => TablesOK'
  BY DEF TablesOK, timing, access
<1>2. ASSUME NEW c \in Circles, LogWrite(c), LogStep PROVE TablesOK'
  <2> SUFFICES /\ reports' \in [Circles -> SUBSET Report]
               /\ quakes' \in [Circles -> SUBSET QuakeTimes]
    BY <1>2 DEF LogStep, TablesOK, timing, access
  <2>1. ASSUME NEW t \in Targets, NEW m \in Members, NEW s \in Sources, NEW died \in Deaths,
               NEW id \in Ids, CreateKill(c, t, m, s, died, id)
        PROVE  /\ reports' \in [Circles -> SUBSET Report]
               /\ quakes' \in [Circles -> SUBSET QuakeTimes]
    <3> DEFINE new == [id |-> id, target |-> t, kind |-> "kill", reporter |-> m,
                       source |-> s, died |-> died, retracts |-> None]
    <3>1. new \in Report
      BY ProjectionAssumption DEF Report, Optional
    <3>2. reports' = [reports EXCEPT ![c] = @ \cup {new}] /\ quakes' = quakes
      BY <2>1 DEF CreateKill
    <3> QED
      BY <3>1, <3>2 DEF TablesOK
  <2>2. ASSUME NEW r \in reports[c], NEW m \in Members, NEW id \in Ids, Retract(c, r, m, id)
        PROVE  /\ reports' \in [Circles -> SUBSET Report]
               /\ quakes' \in [Circles -> SUBSET QuakeTimes]
    <3> DEFINE new == [id |-> id, target |-> r.target, kind |-> "retraction", reporter |-> m,
                       source |-> "api", died |-> r.died, retracts |-> r.id]
    <3>1. r \in Report
      BY DEF TablesOK
    <3>2. new \in Report
      BY <3>1 DEF Report, Optional
    <3>3. reports' = [reports EXCEPT ![c] = @ \cup {new}] /\ quakes' = quakes
      BY <2>2 DEF Retract
    <3> QED
      BY <3>2, <3>3 DEF TablesOK
  <2>3. ASSUME NEW at \in QuakeTimes, ReportQuake(c, at)
        PROVE  /\ reports' \in [Circles -> SUBSET Report]
               /\ quakes' \in [Circles -> SUBSET QuakeTimes]
    BY <2>3 DEF ReportQuake, TablesOK
  <2> QED
    BY <1>2, <2>1, <2>2, <2>3 DEF LogWrite
<1>3. ASSUME TimerWrite, TimerStep PROVE TablesOK'
  <2> DEFINE Timers == /\ catalogue' \in [Servers -> [Targets -> Optional(Windows)]]
                       /\ override' \in [Circles -> [Targets -> Optional(Windows)]]
                       /\ quakeTarget' \in [Targets -> BOOLEAN]
  <2>1. ASSUME NEW s \in Servers, NEW t \in Targets, NEW w \in Windows, PutTimer(s, t, w)
        PROVE  Timers
    BY <2>1 DEF PutTimer, TablesOK, Optional
  <2>2. ASSUME NEW c \in Circles, NEW t \in Targets, NEW w \in Windows, PutOverride(c, t, w)
        PROVE  Timers
    BY <2>2 DEF PutOverride, TablesOK, Optional
  <2>3. ASSUME NEW c \in Circles, NEW t \in Targets, DeleteOverride(c, t) PROVE Timers
    BY <2>3 DEF DeleteOverride, TablesOK, Optional
  <2>4. ASSUME NEW t \in Targets, NEW flag \in BOOLEAN, UpdateTarget(t, flag) PROVE Timers
    BY <2>4 DEF UpdateTarget, TablesOK
  <2> HIDE DEF Timers
  <2>5. Timers
    BY <1>3, <2>1, <2>2, <2>3, <2>4 DEF TimerWrite
  <2> QED
    BY <1>3, <2>5 DEF Timers, TimerStep, TablesOK, access
<1>4. ASSUME NEW c \in Circles, CircleWrite(c), CircleStep PROVE TablesOK'
  <2>1. /\ threshold' \in [Circles -> Thresholds]
        /\ revoked' \in [Circles -> SUBSET Members]
        /\ live' \subseteq Circles
    <3> USE DEF TablesOK
    <3>1. ASSUME NEW n \in Thresholds, UpdateCircle(c, n)
          PROVE  threshold' \in [Circles -> Thresholds] /\ UNCHANGED <<revoked, live>>
      BY <3>1 DEF UpdateCircle
    <3>2. ASSUME NEW m \in Members, Revoke(c, m) \/ Reinstate(c, m)
          PROVE  revoked' \in [Circles -> SUBSET Members] /\ UNCHANGED <<threshold, live>>
      BY <3>2 DEF Revoke, Reinstate
    <3>3. DeleteCircle(c) => live' \subseteq Circles /\ UNCHANGED <<threshold, revoked>>
      BY DEF DeleteCircle
    <3> QED
      BY <1>4, <3>1, <3>2, <3>3 DEF CircleWrite
  <2> QED
    BY <1>4, <2>1 DEF CircleStep, TablesOK, timing
<1> QED
  BY <1>1, <1>2, <1>3, <1>4, OneKindOfStep DEF LogStep, TimerStep, CircleStep, ReadStep, ClockStep

(* A row that is kept, pushed or written back is a row. *)
LEMMA CacheType ==
    ASSUME TypeOK, [Next]_vars
    PROVE  CacheOK'
<1>1. ASSUME NEW c \in Circles, NEW t \in Targets PROVE cache'[c][t] \in Optional(Row)
  <2>1. Kept(c, t) => cache'[c][t] \in Optional(Row)
    BY DEF Kept, TypeOK, CacheOK, Optional
  <2>2. Pushed(c, t) => cache'[c][t] \in Optional(Row)
    <3>1. Inputs(c, t)' \in Input
      BY TablesType, InputsTypeAfter
    <3>2. now \in Clock /\ "timer_change" \in Optional({"timer_change"})
      BY DEF TypeOK, Optional
    <3> QED
      BY <3>1, <3>2, RowType DEF Pushed
  <2>3. ASSUME WrittenBack(c, t) PROVE cache'[c][t] \in Optional(Row)
    <3>1. PICK j \in Jobs, at \in Clock :
             /\ job[j].circle = c /\ t \in job[j].todo
             /\ cache'[c][t] = Stored(job[j].draft[t].in, at, None)
      BY <2>3 DEF WrittenBack
    <3>2. job[j].draft[t].in \in Input
      BY <3>1 DEF TypeOK, ReadersOK, Row
    <3> QED
      BY <3>1, <3>2, RowType DEF Optional
  <2> QED
    BY <2>1, <2>2, <2>3, CacheStep
<1>2. Shaped(cache')
  BY CacheStep
<1> QED
  BY <1>1, <1>2 DEF CacheOK, Shaped

(* What a reader begins with: a draft for each target it has to do. *)
LEMMA BeginType ==
    ASSUME TypeOK, NEW j \in Jobs, NEW c \in Circles,
           NEW op \in {"get", "rebuild", "verify", "board"}, NEW todo \in SUBSET Targets,
           NEW stage \in {"read", "store"}, NEW seen \in [Targets -> Optional(Row)],
           Begin(j, op, c, todo, stage, seen)
    PROVE  ReadersOK'
<1> DEFINE snap == Snapshot(op, c, todo, stage, seen)
<1>1. \A t \in Targets : RowOf(Inputs(c, t), now, None) \in Row
  BY InputsType, RowType DEF TypeOK, Optional
<1>2. /\ snap \in Reader
      /\ snap.circle = c /\ snap.todo = todo /\ snap.stage # "derive"
      /\ \A t \in todo : snap.draft[t] \in Row
  BY <1>1 DEF Snapshot, Reader, Optional
<1>3. job' = [job EXCEPT ![j] = snap]
  BY DEF Begin
<1> HIDE DEF snap
<1> QED
  BY <1>2, <1>3 DEF TypeOK, ReadersOK

(* A reader with nothing in flight is a reader with nothing left to do. *)
LEMMA IdleType == Idle \in Reader /\ Idle.todo = {} /\ Idle.stage # "derive"
BY DEF Idle, Reader, Optional

(* A reader that has done a target: idle, or a reader with the others left. *)
LEMMA FinishType ==
    ASSUME ReadersOK, NEW j \in Jobs, NEW t \in Targets, Finish(j, t)
    PROVE  ReadersOK'
<1> DEFINE left == [job[j] EXCEPT !.todo = job[j].todo \ {t}, !.focus = None,
                                  !.stage = IF job[j].op = "board" THEN "read" ELSE "store"]
           next == IF job[j].todo = {t} THEN Idle ELSE left
<1>1. /\ next \in Reader /\ next.stage # "derive"
      /\ next.todo # {} => /\ next.circle = job[j].circle /\ next.draft = job[j].draft
                           /\ next.todo \subseteq job[j].todo
  BY IdleType DEF ReadersOK, Reader, Optional
<1>2. job' = [job EXCEPT ![j] = next]
  BY DEF Finish
<1> HIDE DEF left, next
<1> QED
  BY <1>1, <1>2 DEF ReadersOK

(* A board that read a target's log again, or derived from it, still holds a draft of that target. *)
LEMMA RedraftType ==
    ASSUME TypeOK, NEW j \in Jobs, NEW t \in Targets, NEW in \in Input, NEW at \in Clock,
           NEW stage \in {"derive", "store"}, t \in job[j].todo, Redraft(j, t, stage, in, at)
    PROVE  ReadersOK'
<1> DEFINE row == RowOf(in, at, None)
           next == [job[j] EXCEPT !.focus = t, !.stage = stage,
                                  !.draft = [job[j].draft EXCEPT ![t] = row]]
<1>1. row \in Row
  BY RowType DEF Optional
<1> HIDE DEF row
<1>2. /\ next \in Reader
      /\ next.circle = job[j].circle /\ next.todo = job[j].todo /\ next.focus = t
      /\ \A u \in Targets : next.draft[u] = IF u = t THEN row ELSE job[j].draft[u]
  BY <1>1 DEF TypeOK, ReadersOK, Reader, Optional
<1>3. job' = [job EXCEPT ![j] = next]
  BY DEF Redraft, row
<1>4. job[j].todo \subseteq Targets
  BY DEF TypeOK, ReadersOK, Reader
<1> HIDE DEF next
<1> QED
  BY <1>1, <1>2, <1>3, <1>4 DEF TypeOK, ReadersOK

(* Readers keep their type: they begin, read, derive, finish or are abandoned. *)
LEMMA ReadersType ==
    ASSUME TypeOK, [Next]_vars
    PROVE  ReadersOK'
<1>1. UNCHANGED job => ReadersOK'
  BY DEF TypeOK, ReadersOK
<1>2. ASSUME NEW j \in Jobs, Read(j) PROVE ReadersOK'
  <2>1. ASSUME NEW c \in Circles, BeginVerify(c), j = Nightly PROVE ReadersOK'
    <3>1. Reported(c) \cup {t \in Targets : cache[c][t] # None} \in SUBSET Targets
      BY DEF Reported
    <3>2. cache[c] \in [Targets -> Optional(Row)]
      BY DEF TypeOK, CacheOK
    <3> QED
      BY <2>1, <3>1, <3>2, BeginType DEF BeginVerify
  <2>2. ASSUME NEW c \in Circles, NEW t \in Targets, BeginGet(j, c, t) PROVE ReadersOK'
    <3>1. Unseen \in [Targets -> Optional(Row)]
      BY DEF Unseen, Optional
    <3> QED
      BY <2>2, <3>1, {t} \in SUBSET Targets, BeginType DEF BeginGet
  <2>3. ASSUME NEW c \in Circles, BeginRebuild(j, c) PROVE ReadersOK'
    <3>1. Unseen \in [Targets -> Optional(Row)] /\ Reported(c) \in SUBSET Targets
      BY DEF Unseen, Optional, Reported
    <3> QED
      BY <2>3, <3>1, BeginType DEF BeginRebuild
  <2>4. ASSUME NEW c \in Circles, BeginBoard(j, c) PROVE ReadersOK'
    <3>1. {t \in Reported(c) : cache[c][t] = None} \in SUBSET Targets
      BY DEF Reported
    <3>2. cache[c] \in [Targets -> Optional(Row)]
      BY DEF TypeOK, CacheOK
    <3> QED
      BY <2>4, <3>1, <3>2, BeginType DEF BeginBoard
  <2>5. ASSUME NEW t \in Targets, FillRead(j, t) PROVE ReadersOK'
    <3> DEFINE in == [job[j].draft[t].in EXCEPT !.rows = LogOf(job[j].circle, t)]
    <3>1. t \in job[j].todo /\ job[j].circle \in Circles /\ job[j].draft[t] \in Row
      BY <2>5 DEF FillRead, TypeOK, ReadersOK
    <3>2. LogOf(job[j].circle, t) \in SUBSET Report
      BY <3>1 DEF LogOf, TypeOK, TablesOK
    <3>3. in \in Input /\ job[j].draft[t].asOf \in Clock
      BY <3>1, <3>2 DEF Row, Input
    <3>4. Redraft(j, t, "derive", in, job[j].draft[t].asOf)
      BY <2>5 DEF FillRead
    <3> HIDE DEF in
    <3> QED
      BY <3>1, <3>3, <3>4, RedraftType
  <2>6. ASSUME NEW t \in Targets, FillDerive(j, t) PROVE ReadersOK'
    <3> DEFINE marked == RevokedAmong(job[j].circle, job[j].draft[t].in.rows)
               in == [job[j].draft[t].in EXCEPT !.revoked = marked]
    <3>1. t \in job[j].todo /\ job[j].circle \in Circles /\ job[j].draft[t] \in Row
      BY <2>6 DEF FillDerive, TypeOK, ReadersOK
    <3>2. marked \in SUBSET Members
      BY <3>1 DEF RevokedAmong, TypeOK, TablesOK
    <3>3. Redraft(j, t, "store", in, now)
      BY <2>6 DEF FillDerive
    <3> HIDE DEF marked
    <3>4. in \in Input /\ now \in Clock
      BY <3>1, <3>2 DEF Row, Input, TypeOK
    <3> HIDE DEF in
    <3> QED
      BY <3>1, <3>3, <3>4, RedraftType
  <2>7. ASSUME NEW t \in Targets, Store(j, t) PROVE ReadersOK'
    BY <2>7, FinishType DEF Store, TypeOK
  <2>8. Abandon(j) => ReadersOK'
    BY IdleType DEF Abandon, TypeOK, ReadersOK
  <2> QED
    BY <1>2, <2>1, <2>2, <2>3, <2>4, <2>5, <2>6, <2>7, <2>8 DEF Read
<1> QED
  BY <1>1, <1>2, OneKindOfStep DEF LogStep, TimerStep, CircleStep, ReadStep, ClockStep

-----------------------------------------------------------------------------
(* The empty database has the type. *)
LEMMA InitType == Init => TypeOK
<1> SUFFICES ASSUME Init PROVE TypeOK
  OBVIOUS
<1>1. TablesOK
  BY ProjectionAssumption DEF Init, TablesOK, Optional
<1>2. CacheOK
  BY DEF Init, CacheOK, Optional
<1>3. ReadersOK
  BY IdleType DEF Init, ReadersOK
<1>4. now \in Clock /\ writes \in 0..MaxWrites
  BY ProjectionAssumption DEF Init
<1> QED
  BY <1>1, <1>2, <1>3, <1>4 DEF TypeOK

(* The clock moves within Clock and a transaction counts within its bound. *)
LEMMA ClockAndWritesType ==
    ASSUME TypeOK, [Next]_vars
    PROVE  now' \in Clock /\ writes' \in 0..MaxWrites
<1> USE ProjectionAssumption DEF TypeOK
<1>1. UNCHANGED <<now, writes>> => now' \in Clock /\ writes' \in 0..MaxWrites
  OBVIOUS
<1>2. Write => writes' \in 0..MaxWrites
  BY DEF Write
<1>3. ASSUME NEW c \in Circles, LogWrite(c) PROVE Write
  BY <1>3 DEF LogWrite, CreateKill, Retract, ReportQuake
<1>4. TimerWrite => Write
  BY DEF TimerWrite, PutTimer, PutOverride, DeleteOverride, UpdateTarget
<1>5. ASSUME NEW c \in Circles, CircleWrite(c) PROVE Write
  BY <1>5 DEF CircleWrite, UpdateCircle, Revoke, Reinstate, DeleteCircle
<1>6. Tick => now' \in Clock /\ UNCHANGED writes
  BY DEF Tick
<1> QED
  BY <1>1, <1>2, <1>3, <1>4, <1>5, <1>6, OneKindOfStep
     DEF LogStep, TimerStep, CircleStep, ReadStep, ClockStep

(* The type invariant is inductive on its own. *)
LEMMA TypeStep ==
    ASSUME TypeOK, [Next]_vars
    PROVE  TypeOK'
BY TablesType, CacheType, ReadersType, ClockAndWritesType DEF TypeOK

(* Every table, cached row and reader keeps its type, for every value of the constants. *)
THEOREM TypeCorrect == Spec => []TypeOK
BY InitType, TypeStep, PTL DEF Spec

-----------------------------------------------------------------------------
(* The inductive invariant of CacheNeverInvents: a reader in flight may be late, but what it holds
   to write back came from the log as well. *)
DraftsFollowTheLog ==
    \A j \in Jobs : \A t \in job[j].todo :
        job[j].draft[t].in.rows \subseteq LogOf(job[j].circle, t)

(* A draft is the one that was there, or was read from the log in this step. *)
Held(j, t) ==
    /\ job'[j].circle = job[j].circle /\ t \in job[j].todo
    /\ job'[j].draft[t].in.rows = job[j].draft[t].in.rows
ReadNow(j, t) ==
    job'[j].circle \in Circles /\ job'[j].draft[t].in.rows = LogOf(job'[j].circle, t)

(* A reader that begins takes every draft from the log as it is. *)
LEMMA BeginReads ==
    ASSUME TypeOK, NEW j \in Jobs, NEW c \in Circles, NEW op, NEW todo \in SUBSET Targets,
           NEW stage, NEW seen, Begin(j, op, c, todo, stage, seen)
    PROVE  \A k \in Jobs : \A t \in job'[k].todo : Held(k, t) \/ ReadNow(k, t)
<1> DEFINE snap == Snapshot(op, c, todo, stage, seen)
<1>1. snap.circle = c /\ snap.todo = todo
      /\ \A t \in todo : snap.draft[t].in.rows = LogOf(c, t)
  BY DEF Snapshot, RowOf, Inputs
<1>2. job' = [job EXCEPT ![j] = snap]
  BY DEF Begin
<1> HIDE DEF snap
<1> QED
  BY <1>1, <1>2 DEF TypeOK, ReadersOK, Held, ReadNow

(* A draft's rows never change but by being read from the log in that very step. *)
LEMMA DraftStep ==
    ASSUME TypeOK, [Next]_vars
    PROVE  \A k \in Jobs : \A t \in job'[k].todo : Held(k, t) \/ ReadNow(k, t)
<1> DEFINE Goal == \A k \in Jobs : \A t \in job'[k].todo : Held(k, t) \/ ReadNow(k, t)
<1>1. UNCHANGED job => Goal
  BY DEF Held
<1>2. ASSUME NEW j \in Jobs, Read(j) PROVE Goal
  <2>1. ASSUME NEW c \in Circles, BeginVerify(c), j = Nightly PROVE Goal
    BY <2>1, BeginReads, Reported(c) \cup {t \in Targets : cache[c][t] # None} \in SUBSET Targets
       DEF BeginVerify, Reported
  <2>2. ASSUME NEW c \in Circles, NEW t \in Targets, BeginGet(j, c, t) PROVE Goal
    BY <2>2, BeginReads, {t} \in SUBSET Targets DEF BeginGet
  <2>3. ASSUME NEW c \in Circles, BeginRebuild(j, c) PROVE Goal
    BY <2>3, BeginReads, Reported(c) \in SUBSET Targets DEF BeginRebuild, Reported
  <2>4. ASSUME NEW c \in Circles, BeginBoard(j, c) PROVE Goal
    BY <2>4, BeginReads, {t \in Reported(c) : cache[c][t] = None} \in SUBSET Targets
       DEF BeginBoard, Reported
  <2>5. ASSUME NEW t \in Targets, NEW stage, NEW in, NEW at, t \in job[j].todo,
               Redraft(j, t, stage, in, at),
               in.rows \in {job[j].draft[t].in.rows, LogOf(job[j].circle, t)}
        PROVE  Goal
    <3> DEFINE row == RowOf(in, at, None)
               next == [job[j] EXCEPT !.focus = t, !.stage = stage,
                                      !.draft = [job[j].draft EXCEPT ![t] = row]]
    <3>1. row.in = in
      BY DEF RowOf
    <3> HIDE DEF row
    <3>2. /\ next.circle = job[j].circle /\ next.todo = job[j].todo /\ job[j].circle \in Circles
          /\ \A u \in Targets : next.draft[u] = IF u = t THEN row ELSE job[j].draft[u]
      BY <2>5 DEF TypeOK, ReadersOK, Reader
    <3>3. job' = [job EXCEPT ![j] = next]
      BY <2>5 DEF Redraft, row
    <3>4. job[j].todo \subseteq Targets
      BY DEF TypeOK, ReadersOK, Reader
    <3> HIDE DEF next
    <3> QED
      BY <2>5, <3>1, <3>2, <3>3, <3>4 DEF TypeOK, ReadersOK, Held, ReadNow
  <2>6. ASSUME NEW t \in Targets, FillRead(j, t) PROVE Goal
    <3> DEFINE in == [job[j].draft[t].in EXCEPT !.rows = LogOf(job[j].circle, t)]
    <3>1. t \in job[j].todo
      BY <2>6 DEF FillRead
    <3>2. in.rows = LogOf(job[j].circle, t)
      BY <3>1 DEF TypeOK, ReadersOK, Row, Input
    <3>3. Redraft(j, t, "derive", in, job[j].draft[t].asOf)
      BY <2>6 DEF FillRead
    <3> HIDE DEF in
    <3> QED
      BY <2>5, <3>1, <3>2, <3>3
  <2>7. ASSUME NEW t \in Targets, FillDerive(j, t) PROVE Goal
    <3> DEFINE marked == RevokedAmong(job[j].circle, job[j].draft[t].in.rows)
               in == [job[j].draft[t].in EXCEPT !.revoked = marked]
    <3>1. t \in job[j].todo
      BY <2>7 DEF FillDerive, TypeOK, ReadersOK
    <3>2. Redraft(j, t, "store", in, now)
      BY <2>7 DEF FillDerive
    <3> HIDE DEF marked
    <3>3. in.rows = job[j].draft[t].in.rows
      BY <3>1 DEF TypeOK, ReadersOK, Row, Input
    <3> HIDE DEF in
    <3> QED
      BY <2>5, <3>1, <3>2, <3>3
  <2>8. ASSUME NEW t \in Targets, Store(j, t) PROVE Goal
    <3> DEFINE left == [job[j] EXCEPT !.todo = job[j].todo \ {t}, !.focus = None,
                                  !.stage = IF job[j].op = "board" THEN "read" ELSE "store"]
               next == IF job[j].todo = {t} THEN Idle ELSE left
    <3>1. next.todo # {} => /\ next.circle = job[j].circle /\ next.draft = job[j].draft
                            /\ next.todo \subseteq job[j].todo
      BY IdleType DEF TypeOK, ReadersOK, Reader
    <3>2. job' = [job EXCEPT ![j] = next]
      BY <2>8 DEF Store, Finish
    <3> HIDE DEF left, next
    <3> QED
      BY <3>1, <3>2 DEF TypeOK, ReadersOK, Held
  <2>9. Abandon(j) => Goal
    BY IdleType DEF Abandon, TypeOK, ReadersOK, Held
  <2> HIDE DEF Goal
  <2> QED
    BY <1>2, <2>1, <2>2, <2>3, <2>4, <2>6, <2>7, <2>8, <2>9 DEF Read
<1> HIDE DEF Goal
<1>3. Goal
  BY <1>1, <1>2, OneKindOfStep DEF LogStep, TimerStep, CircleStep, ReadStep, ClockStep
<1> QED
  BY <1>3 DEF Goal

(* A target's log only grows. *)
LEMMA LogOfGrows ==
    ASSUME TypeOK, [Next]_vars, NEW c \in Circles, NEW t
    PROVE  LogOf(c, t) \subseteq LogOf(c, t)'
BY LogGrows DEF LogOf

(* No cached row ever holds evidence its target's log does not, nor outlives an empty log, whatever
   was read before whatever was written. *)
THEOREM NeverInvents == Spec => []CacheNeverInvents
<1> DEFINE IInv == TypeOK /\ DraftsFollowTheLog /\ CacheNeverInvents
<1>1. Init => IInv
  <2>1. Init => DraftsFollowTheLog
    BY IdleType DEF Init, DraftsFollowTheLog
  <2>2. Init => CacheNeverInvents
    BY DEF Init, CacheNeverInvents
  <2> QED
    BY <2>1, <2>2, InitType
<1>2. ASSUME IInv, [Next]_vars PROVE IInv'
  <2>1. TypeOK'
    BY <1>2, TypeStep
  <2>2. DraftsFollowTheLog'
    <3>1. ASSUME NEW j \in Jobs, NEW t \in job'[j].todo, NEW c \in Circles, job'[j].circle = c
          PROVE  job'[j].draft[t].in.rows \subseteq LogOf(c, t)'
      BY <1>2, <3>1, LogOfGrows, DraftStep DEF Held, ReadNow, DraftsFollowTheLog
    <3>2. \A j \in Jobs : \A t \in job'[j].todo : job'[j].circle \in Circles
      BY <2>1 DEF TypeOK, ReadersOK
    <3> QED
      BY <3>1, <3>2 DEF DraftsFollowTheLog, LogOf
  <2>3. CacheNeverInvents'
    <3> SUFFICES ASSUME NEW c \in Circles, NEW t \in Targets, cache'[c][t] # None
                 PROVE  /\ cache'[c][t].in.rows # {}
                        /\ cache'[c][t].in.rows \subseteq LogOf(c, t)'
      BY DEF CacheNeverInvents
    <3>1. CASE Kept(c, t)
      BY <1>2, <3>1, LogOfGrows DEF Kept, CacheNeverInvents
    <3>2. CASE Pushed(c, t)
      <4>1. Inputs(c, t)' \in Input /\ Inputs(c, t)'.rows = LogOf(c, t)'
        BY <2>1, InputsTypeAfter DEF TypeOK, Inputs
      <4> QED
        BY <1>2, <3>2, <4>1, RowType DEF Pushed, TypeOK, Optional
    <3>3. CASE WrittenBack(c, t)
      <4>1. PICK j \in Jobs, at \in Clock :
               /\ job[j].circle = c /\ t \in job[j].todo
               /\ cache'[c][t] = Stored(job[j].draft[t].in, at, None)
        BY <3>3 DEF WrittenBack
      <4>2. job[j].draft[t].in \in Input /\ None \in Optional({"timer_change"})
        BY <1>2, <4>1 DEF TypeOK, ReadersOK, Row, Optional
      <4>3. cache'[c][t].in = job[j].draft[t].in /\ job[j].draft[t].in.rows # {}
        BY <4>1, <4>2, RowType
      <4> QED
        BY <1>2, <4>1, <4>3, LogOfGrows DEF DraftsFollowTheLog
    <3> QED
      BY <1>2, <3>1, <3>2, <3>3, CacheStep
  <2> QED
    BY <2>1, <2>2, <2>3
<1> QED
  BY <1>1, <1>2, PTL DEF Spec

-----------------------------------------------------------------------------
(* A circle that was deleted gets no new row but from a reader that had begun before: for every
   number of circles, readers and writes. *)
THEOREM Tombstones == Spec => TombstoneStaysOff
<1>1. ASSUME TypeOK, [Next]_vars PROVE StaysOff
  BY <1>1, CacheStep DEF StaysOff, Kept, Pushed, WrittenBack
<1> QED
  BY <1>1, TypeCorrect, PTL DEF Spec, TombstoneStaysOff

(* A pushed row is absent or a current derivation that says timer_change. *)
LEMMA PushedRow ==
    ASSUME TypeOK, TypeOK', NEW c \in Circles, NEW t \in Targets,
           cache'[c][t] = Stored(Inputs(c, t)', now, "timer_change")
    PROVE  \/ cache'[c][t] = None
           \/ Exact(c, t)' /\ cache'[c][t].reason = "timer_change" /\ cache'[c][t].asOf = now
BY DEF Stored, RowOf, Exact

(* The timer that moved is the one pushed: no write to any of the three timer tables leaves a live
   circle's row derived under a window it no longer has. *)
LEMMA TimerMoves ==
    ASSUME TypeOK, [Next]_vars
    PROVE  PushesTheNewTimer
<1> SUFFICES ASSUME NEW c \in live, NEW t \in Targets,
                    EffectiveTimer(c, t)' # EffectiveTimer(c, t)
             PROVE  cache'[c][t] = Stored(Inputs(c, t)', now, "timer_change")
  BY PushedRow, TypeStep DEF PushesTheNewTimer, TypeOK, TablesOK
<1> USE DEF TypeOK
<1>1. c \in Circles /\ ServerOf[c] \in Servers
  BY ProjectionAssumption DEF TablesOK
<1>2. ~ UNCHANGED timing
  BY DEF timing, EffectiveTimer, Rung
<1>3. TimerWrite
  BY <1>2, OneKindOfStep DEF LogStep, TimerStep, CircleStep, ReadStep, ClockStep
<1>4. ASSUME NEW s \in Servers, NEW u \in Targets, NEW w \in Windows, PutTimer(s, u, w)
      PROVE  cache'[c][t] = Stored(Inputs(c, t)', now, "timer_change")
  <2> DEFINE moved == {d \in LiveCirclesOn(s) : override[d][u] = None}
  <2>1. t = u /\ c \in moved
    BY <1>1, <1>4 DEF PutTimer, EffectiveTimer, Rung, LiveCirclesOn, TablesOK
  <2>2. moved \in SUBSET Circles
    BY DEF LiveCirclesOn, TablesOK
  <2>3. Recompute(moved, u)
    BY <1>4 DEF PutTimer
  <2> QED
    BY <2>1, <2>2, <2>3, RecomputeShape
<1>5. ASSUME NEW d \in Circles, NEW u \in Targets, NEW w \in Windows, PutOverride(d, u, w)
      PROVE  cache'[c][t] = Stored(Inputs(c, t)', now, "timer_change")
  <2>1. t = u /\ c = d
    BY <1>1, <1>5 DEF PutOverride, EffectiveTimer, Rung, TablesOK
  <2>2. Recompute({d}, u) /\ {d} \in SUBSET Circles
    BY <1>5 DEF PutOverride
  <2> QED
    BY <2>1, <2>2, RecomputeShape
<1>6. ASSUME NEW u \in Targets, NEW flag \in BOOLEAN, UpdateTarget(u, flag)
      PROVE  cache'[c][t] = Stored(Inputs(c, t)', now, "timer_change")
  <2>1. t = u /\ flag # quakeTarget[u]
    BY <1>6 DEF UpdateTarget, EffectiveTimer, Rung, TablesOK
  <2>2. Recompute(live, u) /\ live \in SUBSET Circles
    BY <1>6, <2>1 DEF UpdateTarget, TablesOK
  <2> QED
    BY <2>1, <2>2, RecomputeShape
<1>7. ASSUME NEW d \in Circles, NEW u \in Targets, DeleteOverride(d, u)
      PROVE  cache'[c][t] = Stored(Inputs(c, t)', now, "timer_change")
  <2>1. t = u /\ c = d
    BY <1>1, <1>7 DEF DeleteOverride, EffectiveTimer, Rung, TablesOK
  <2>2. Recompute({d}, u) /\ {d} \in SUBSET Circles
    BY <1>7 DEF DeleteOverride
  <2> QED
    BY <2>1, <2>2, RecomputeShape
<1> QED
  BY <1>3, <1>4, <1>5, <1>6, <1>7 DEF TimerWrite

(* The same, as the property the runs check. *)
THEOREM TimerPush == Spec => TimerMoveRecomputes
BY TimerMoves, TypeCorrect, PTL DEF Spec, TimerMoveRecomputes

(* Whoever a timer write reaches, the circles that do not resolve from what it wrote keep their
   rows, so timer_change is not written on them. *)
THEOREM Spared == Spec => NoFalseTimerChange
<1>1. ASSUME TypeOK, [Next]_vars PROVE SparesTheUnmoved
  <2> SUFFICES ASSUME NEW c \in Circles, NEW t \in Targets, timing' # timing,
                      override'[c][t] = override[c][t], Rung(c, t)' = Rung(c, t),
                      quakeTarget'[t] = quakeTarget[t]
               PROVE  cache'[c][t] = cache[c][t]
    BY DEF SparesTheUnmoved
  <2> USE <1>1 DEF TypeOK
  <2>1. TimerWrite
    BY OneKindOfStep DEF LogStep, TimerStep, CircleStep, ReadStep, ClockStep
  <2>2. ASSUME NEW s \in Servers, NEW u \in Targets, NEW w \in Windows, PutTimer(s, u, w)
        PROVE  cache'[c][t] = cache[c][t]
    <3> DEFINE moved == {d \in LiveCirclesOn(s) : override[d][u] = None}
    <3>1. catalogue[s][u] # w
      BY <2>2 DEF PutTimer, timing, TablesOK
    <3>2. ~(t = u /\ c \in moved)
      BY <2>2, <3>1 DEF PutTimer, Rung, LiveCirclesOn, TablesOK
    <3>3. moved \in SUBSET Circles
      BY DEF LiveCirclesOn, TablesOK
    <3>4. Recompute(moved, u)
      BY <2>2 DEF PutTimer
    <3> QED
      BY <3>2, <3>3, <3>4, RecomputeShape
  <2>3. ASSUME NEW d \in Circles, NEW u \in Targets, NEW w \in Windows, PutOverride(d, u, w)
        PROVE  cache'[c][t] = cache[c][t]
    <3>1. ~(t = u /\ c = d)
      BY <2>3 DEF PutOverride, timing, TablesOK
    <3>2. Recompute({d}, u) /\ {d} \in SUBSET Circles
      BY <2>3 DEF PutOverride
    <3> QED
      BY <3>1, <3>2, RecomputeShape
  <2>4. ASSUME NEW d \in Circles, NEW u \in Targets, DeleteOverride(d, u)
        PROVE  cache'[c][t] = cache[c][t]
    <3>1. ~(t = u /\ c = d)
      BY <2>4 DEF DeleteOverride, TablesOK
    <3>2. Recompute({d}, u) /\ {d} \in SUBSET Circles
      BY <2>4 DEF DeleteOverride
    <3> QED
      BY <3>1, <3>2, RecomputeShape
  <2>5. ASSUME NEW u \in Targets, NEW flag \in BOOLEAN, UpdateTarget(u, flag)
        PROVE  cache'[c][t] = cache[c][t]
    <3> DEFINE moved == IF flag = quakeTarget[u] THEN {} ELSE live
    <3>1. t # u
      BY <2>5 DEF UpdateTarget, timing, TablesOK
    <3>2. Recompute(moved, u) /\ moved \in SUBSET Circles
      BY <2>5 DEF UpdateTarget, TablesOK
    <3> QED
      BY <3>1, <3>2, RecomputeShape
  <2> QED
    BY <2>1, <2>2, <2>3, <2>4, <2>5 DEF TimerWrite
<1> QED
  BY <1>1, TypeCorrect, PTL DEF Spec, NoFalseTimerChange

(* A row added to one target's log, with that target's cached row dropped: whatever row stayed, its
   target's log stayed too. *)
LEMMA AddsToOneTarget ==
    ASSUME TypeOK, NEW c \in Circles, NEW d \in Circles, NEW t \in Targets, NEW new, quakes' = quakes,
           reports' = [reports EXCEPT ![d] = @ \cup {new}], Drop(d, {new.target}),
           cache[c][t] # None, cache'[c][t] = cache[c][t]
    PROVE  LogOf(c, t)' = LogOf(c, t) /\ LatestQuake(c)' = LatestQuake(c)
<1>1. ~(c = d /\ t = new.target)
  BY DEF Drop, TypeOK, CacheOK
<1>2. LogOf(c, t)' = LogOf(c, t)
  BY <1>1 DEF LogOf, TypeOK, TablesOK
<1> QED
  BY <1>2 DEF LatestQuake

(* A current row survives no write that moves what it was derived from, save a write of the
   supersede threshold or of a member's standing: the invalidation has exactly those two gaps. *)
THEOREM KnownDoors == Spec => OnlyKnownDoors
<1>1. ASSUME TypeOK, [Next]_vars PROVE LeavesNothingBehind
  <2> SUFFICES ASSUME NEW c \in live, NEW t \in Targets, Exact(c, t), Inputs(c, t)' # Inputs(c, t),
                      cache'[c][t] = cache[c][t], threshold'[c] = threshold[c], revoked'[c] = revoked[c]
               PROVE  FALSE
    BY DEF LeavesNothingBehind
  <2> USE <1>1 DEF TypeOK
  <2>1. c \in Circles
    BY DEF TablesOK
  <2>2. cache[c][t] # None /\ cache[c][t].in = Inputs(c, t)
    BY DEF Exact
  <2>3. EffectiveTimer(c, t)' = EffectiveTimer(c, t)
    BY <2>1, <2>2, TimerMoves DEF PushesTheNewTimer, Exact
  <2>4. ~(LogOf(c, t)' = LogOf(c, t) /\ LatestQuake(c)' = LatestQuake(c))
    BY <2>3 DEF Inputs, RevokedAmong
  <2>5. ~(reports'[c] = reports[c] /\ quakes'[c] = quakes[c])
    BY <2>4 DEF LogOf, LatestQuake
  <2>6. PICK d \in Circles : LogWrite(d)
    BY <2>5, OneKindOfStep DEF LogStep, TimerStep, CircleStep, ReadStep, ClockStep
  <2>7. ASSUME NEW u \in Targets, NEW m \in Members, NEW s \in Sources, NEW died \in Deaths,
               NEW id \in Ids, CreateKill(d, u, m, s, died, id)
        PROVE  FALSE
    <3> DEFINE new == [id |-> id, target |-> u, kind |-> "kill", reporter |-> m,
                       source |-> s, died |-> died, retracts |-> None]
    <3>1. reports' = [reports EXCEPT ![d] = @ \cup {new}] /\ quakes' = quakes /\ Drop(d, {u})
      BY <2>7 DEF CreateKill
    <3> QED
      BY <3>1, <2>1, <2>2, <2>4, AddsToOneTarget, new.target = u
  <2>8. ASSUME NEW r \in reports[d], NEW m \in Members, NEW id \in Ids, Retract(d, r, m, id)
        PROVE  FALSE
    <3> DEFINE new == [id |-> id, target |-> r.target, kind |-> "retraction", reporter |-> m,
                       source |-> "api", died |-> r.died, retracts |-> r.id]
    <3>1. reports' = [reports EXCEPT ![d] = @ \cup {new}] /\ quakes' = quakes /\ Drop(d, {r.target})
      BY <2>8 DEF Retract
    <3> QED
      BY <3>1, <2>1, <2>2, <2>4, AddsToOneTarget, new.target = r.target
  <2>9. ASSUME NEW at \in QuakeTimes, ReportQuake(d, at) PROVE FALSE
    BY <2>9, <2>1, <2>2, <2>5 DEF ReportQuake, Drop, TablesOK, CacheOK
  <2> QED
    BY <2>6, <2>7, <2>8, <2>9 DEF LogWrite
<1> QED
  BY <1>1, TypeCorrect, PTL DEF Spec, OnlyKnownDoors
-----------------------------------------------------------------------------
(* The board.  An empty log forms no cluster. *)
LEMMA NothingToCluster == ASSUME NEW epsilon PROVE Cluster({}, epsilon) = <<>>
<1> DEFINE upTo == CHOOSE f : f = [k \in 0..Cardinality({}) |-> IF k = 0 THEN <<>> ELSE Swept(f[k - 1], Sorted({})[k], epsilon)]
<1>1. Cardinality({}) = 0
  BY FS_EmptySet
<1>2. \E f : f = [k \in 0..Cardinality({}) |-> IF k = 0 THEN <<>> ELSE Swept(f[k - 1], Sorted({})[k], epsilon)]
  <2> DEFINE f == [k \in 0..Cardinality({}) |-> <<>>]
  <2>1. f = [k \in 0..Cardinality({}) |-> IF k = 0 THEN <<>> ELSE Swept(f[k - 1], Sorted({})[k], epsilon)]
    BY <1>1
  <2> QED
    BY <2>1
<1>3. upTo[0] = <<>>
  <2>1. upTo = [k \in 0..Cardinality({}) |-> IF k = 0 THEN <<>> ELSE Swept(upTo[k - 1], Sorted({})[k], epsilon)]
    BY <1>2
  <2> HIDE DEF upTo
  <2> QED
    BY <1>1, <2>1
<1> QED
  BY <1>1, <1>3 DEF Cluster

(* A derivation's status and window are those of its estimate and its quake, whatever the log. *)
LEMMA DerivedIs ==
    ASSUME NEW in, NEW at
    PROVE  LET state == DeriveFrom(in, at)
               up    == UpBy(in)
           IN /\ state.status = DeriveStatus(in.timer, state.died, at, up)
              /\ state.window = DeriveWindow(in.timer, state.died, at)
<1> DEFINE up  == UpBy(in)
           out == Cluster(TruncateAtQuake(FoldRetractions(in.rows), in.quakes, in.timer).kills,
                          EpsilonSeconds(in.timer))
<1>1. DeriveFrom(in, at) = StateOf(out, up, in.timer, at, in.threshold, in.revoked)
  BY Zenon DEF DeriveFrom, Derive, UpBy
<1> HIDE DEF up, out
<1>2. CASE out = <<>>
  <2> DEFINE status == DeriveStatus(in.timer, None, at, up)
             window == DeriveWindow(in.timer, None, at)
  <2>1. StateOf(out, up, in.timer, at, in.threshold, in.revoked)
          = [status |-> status, died |-> None, up |-> up, window |-> window, confidence |-> "unknown",
             contest |-> None, alternatives |-> <<>>, alternativesTotal |-> 0,
             evidence |-> NoEvidence, implausible |-> {}, asOf |-> at]
    BY <1>2, Zenon DEF StateOf
  <2> HIDE DEF status, window
  <2>2. DeriveFrom(in, at).status = status /\ DeriveFrom(in, at).died = None /\ DeriveFrom(in, at).window = window
    BY <1>1, <2>1
  <2> QED
    BY <2>2 DEF status, window, up
<1>3. CASE out # <<>>
  <2> DEFINE choice  == SelectCurrent(out, in.timer, at, in.threshold)
             current == out[choice.index]
             died    == Estimate(current)
             doubted == ImplausibleReportIDs(out, choice.index, in.timer)
             status  == DeriveStatus(in.timer, died, at, up)
             window  == DeriveWindow(in.timer, died, at)
             confidence == ConfidenceOf(current, died)
             contest == ContestReason(out, choice.index, in.timer, at, choice.pending, doubted)
             others  == AlternativesOf(out, choice.index, in.timer, at)
             total   == Cardinality(LiveRivals(out, choice.index, in.timer, at))
             evidence == EvidenceOf(current, in.revoked)
  <2>1. StateOf(out, up, in.timer, at, in.threshold, in.revoked)
          = [status |-> status, died |-> died, up |-> up, window |-> window, confidence |-> confidence,
             contest |-> contest, alternatives |-> others, alternativesTotal |-> total,
             evidence |-> evidence, implausible |-> doubted, asOf |-> at]
    BY <1>3, Zenon DEF StateOf
  <2> HIDE DEF status, window, died, confidence, contest, others, total, evidence, doubted
  <2>2. DeriveFrom(in, at).status = status /\ DeriveFrom(in, at).died = died /\ DeriveFrom(in, at).window = window
    BY <1>1, <2>1
  <2> QED
    BY <2>2 DEF status, window, up
<1> QED
  BY <1>2, <1>3

(* Truncating answers with the latest quake or with None, so only a flagged target with a quake is up. *)
LEMMA UpByIs ==
    ASSUME NEW in
    PROVE  /\ UpBy(in) \in {None, UpSince(in.timer, in.quakes)}
           /\ in.rows = {} => UpBy(in) = UpSince(in.timer, in.quakes)
<1> DEFINE folded == FoldRetractions(in.rows)
           after  == {k \in folded : k.died >= Latest(in.quakes)}
<1>1. CASE ~in.timer.quake \/ in.quakes = {}
  <2>1. TruncateAtQuake(folded, in.quakes, in.timer) = [kills |-> folded, up |-> None]
    BY <1>1 DEF TruncateAtQuake
  <2> QED
    BY <1>1, <2>1 DEF UpBy, UpSince
<1>2. CASE ~(~in.timer.quake \/ in.quakes = {})
  <2>1. TruncateAtQuake(folded, in.quakes, in.timer)
          = [kills |-> after, up |-> IF after = {} THEN Latest(in.quakes) ELSE None]
    BY <1>2 DEF TruncateAtQuake
  <2>2. UpBy(in) = IF after = {} THEN Latest(in.quakes) ELSE None
    BY <2>1 DEF UpBy
  <2>3. in.rows = {} => after = {}
    BY DEF FoldRetractions
  <2>4. UpSince(in.timer, in.quakes) = Latest(in.quakes)
    BY <1>2 DEF UpSince
  <2> QED
    BY <2>2, <2>3, <2>4
<1> QED
  BY <1>1, <1>2

(* A status says up exactly when there is an instant the target has been up since. *)
LEMMA UpIsShown ==
    ASSUME NEW window, NEW died, NEW at, NEW up
    PROVE  DeriveStatus(window, died, at, up) = "up" <=> up # None
<1> DEFINE late == IF at < OpenAt(window, died) THEN "pre_window"
                   ELSE IF at <= CloseAt(window, died) THEN "in_window" ELSE "overdue"
<1>1. late # "up"
  OBVIOUS
<1>2. DeriveStatus(window, died, at, up) =
         CASE up # None -> "up"
           [] up = None /\ died = None -> "unknown"
           [] up = None /\ died # None /\ ~HasWindow(window) -> "no_timer"
           [] OTHER -> late
  BY DEF DeriveStatus
<1> HIDE DEF late
<1> QED
  BY <1>1, <1>2

(* With no row the board shows what deriving the empty log would say. *)
LEMMA NoRowIsDrawn ==
    ASSUME NEW in, in.rows = {}, NEW at
    PROVE  LET fresh == DeriveFrom(in, at)
           IN BoardEntry(None, in.timer, in.quakes, at) = [status |-> fresh.status, window |-> fresh.window]
<1> DEFINE fresh == DeriveFrom(in, at)
<1>1. fresh.died = None
  <2>1. FoldRetractions(in.rows) = {}
    BY DEF FoldRetractions
  <2>2. TruncateAtQuake({}, in.quakes, in.timer).kills = {}
    BY DEF TruncateAtQuake
  <2>3. fresh = StateOf(<<>>, UpBy(in), in.timer, at, in.threshold, in.revoked)
    BY <2>1, <2>2, NothingToCluster DEF DeriveFrom, Derive, UpBy
  <2> QED
    BY <2>3 DEF StateOf
<1>2. /\ fresh.status = DeriveStatus(in.timer, None, at, UpSince(in.timer, in.quakes))
      /\ fresh.window = DeriveWindow(in.timer, None, at)
  BY <1>1, DerivedIs, UpByIs
<1> HIDE DEF fresh
<1>3. BoardEntry(None, in.timer, in.quakes, at)
        = [status |-> DeriveStatus(in.timer, None, at, UpSince(in.timer, in.quakes)),
           window |-> DeriveWindow(in.timer, None, at)]
  BY Zenon DEF BoardEntry, Project
<1> QED
  BY <1>2, <1>3 DEF fresh

(* From a row the board shows what deriving its inputs now would say, when the estimate has not moved. *)
LEMMA RowIsDrawn ==
    ASSUME NEW row, row # None, NEW at, Columns(row).died = DeriveFrom(row.in, at).died
    PROVE  LET fresh == DeriveFrom(row.in, at)
           IN BoardEntry(row, row.in.timer, row.in.quakes, at)
                = [status |-> fresh.status, window |-> fresh.window]
<1> DEFINE in     == row.in
           fresh  == DeriveFrom(in, at)
           cached == DeriveFrom(in, row.asOf)
           shown  == Columns(row)
           since  == UpSince(in.timer, in.quakes)
           up     == IF shown.status = "up" THEN since ELSE None
<1>1. shown.status = cached.status /\ shown.died = fresh.died
  BY DEF Columns
<1>2. cached.status = DeriveStatus(in.timer, cached.died, row.asOf, UpBy(in))
  BY DerivedIs
<1> HIDE DEF shown, cached
<1>3. up = UpBy(in)
  <2>1. shown.status = "up" <=> UpBy(in) # None
    BY <1>1, <1>2, UpIsShown
  <2> QED
    BY <2>1, UpByIs
<1>4. fresh.status = DeriveStatus(in.timer, fresh.died, at, UpBy(in)) /\ fresh.window = DeriveWindow(in.timer, fresh.died, at)
  BY DerivedIs
<1> HIDE DEF fresh
<1>5. BoardEntry(row, in.timer, in.quakes, at)
        = [status |-> DeriveStatus(in.timer, shown.died, at, up), window |-> DeriveWindow(in.timer, shown.died, at)]
  BY Zenon DEF BoardEntry, Project, shown
<1> QED
  BY <1>1, <1>3, <1>4, <1>5 DEF fresh

(* In every state of every run, of any windows and instants, what the board draws from a current row
   without reading the log is what a derivation at that instant says, until the clock moves the
   estimate itself; and an unreported target is drawn right from no row (projection.go, boardEntry). *)
THEOREM BoardIsDerived == Spec => []RenderedIsDerived
<1>1. RenderedIsDerived
  <2> SUFFICES ASSUME NEW c \in live, NEW t \in Targets
               PROVE  LET in    == Inputs(c, t)
                          row   == cache[c][t]
                          fresh == DeriveFrom(in, now)
                      IN (IF row = None THEN in.rows = {}
                          ELSE row.in = in /\ Columns(row).died = fresh.died)
                         => BoardEntry(row, in.timer, in.quakes, now)
                              = [status |-> fresh.status, window |-> fresh.window]
    BY DEF RenderedIsDerived
  <2> DEFINE in  == Inputs(c, t)
             row == cache[c][t]
  <2> HIDE DEF in, row
  <2>1. CASE row = None
    BY <2>1, NoRowIsDrawn DEF in, row
  <2>2. CASE row # None
    BY <2>2, RowIsDrawn DEF in, row
  <2> QED
    BY <2>1, <2>2
<1> QED
  BY <1>1, PTL
=============================================================================
