---------------------------- MODULE ReportsProofs ----------------------------
(***************************************************************************)
(* Theorems of the two ways a report comes in.  Of Ingest, for any         *)
(* operations, callers, keys and facts, any number of requests in the      *)
(* server and any bounds: what a client is told stands, and the detailed   *)
(* server implements the promise of ReportLog.  And of Ingest and Discord  *)
(* beside each other, as MCReports puts them, by those and by the theorems *)
(* of DiscordProofs.                                                       *)
(***************************************************************************)
EXTENDS MCReports, TLAPS, FiniteSetTheorems

-----------------------------------------------------------------------------
(* The inductive invariant.  A request that has taken a record holds it until
   it settles its outcome, since nothing deletes a record that has not run
   out; and what it says while its client listens, its record says, unless
   the outcome was lost: then the record is left in flight and is nobody's. *)
Early      == {"read", "clear", "take"}
Middle     == {"lookup", "write", "again", "view", "outcome", "unrecorded"}
Running(q) == ~At(q, "idle")

(* No row, no record and no request to delete one has this id. *)
Fresh(n) ==
    /\ \A r \in records : r.id # n
    /\ \A r \in log : r.id # n
    /\ \A p \in Requests : At(p, "clear") => request[p].stale # n

(* An answer is true of the log; a record holds it, and has not run out. *)
Holds(x, fact) == x.verdict = "ok" => \E r \in RowsOf(fact) : r.id = x.row
Kept(op, x)    == \E r \in RecordsOf(op) : r.answer = x /\ ~Expired(r)

Own(q, r) ==
    /\ r.id = request[q].n /\ r.by = Caller[Op(q)] /\ r.key = Key[Op(q)]
    /\ r.hash = RequestHash(Op(q)) /\ r.answer = None /\ ~Expired(r)

RequestKnows(q) ==
    /\ At(q, "idle") => request[q] = Idle
    /\ Running(q) => /\ Op(q) \in Operations /\ request[q].n \in 1..sent
                     /\ Needs[Op(q)] # None => RowsOf(Needs[Op(q)]) # {}
    /\ request[q].at \in Early => Fresh(request[q].n)
    /\ At(q, "clear") => /\ request[q].stale \in 1..sent
                         /\ \A r \in records : r.id = request[q].stale => Expired(r)
    /\ request[q].at \in Middle => \E r \in records : Own(q, r)
    /\ At(q, "lookup") \/ At(q, "write") => \A r \in log : r.id # request[q].n
    /\ At(q, "view") => \E r \in RowsOf(FactOf[Op(q)]) : r.id = request[q].n
    /\ At(q, "outcome") \/ At(q, "unrecorded") \/ At(q, "flush") =>
         request[q].answer \in Answers /\ Holds(request[q].answer, FactOf[Op(q)])
    /\ At(q, "outcome") => request[q].answer.verdict \in {"ok", "refused", "failed"}
    /\ At(q, "flush") /\ Live(q) /\ request[q].answer.verdict = "ok" => Kept(Op(q), request[q].answer)

RequestsKnow == \A q \in Requests : RequestKnows(q)

OneEach == \A p, q \in Requests : Running(p) /\ Running(q) /\ request[p].n = request[q].n => p = q

IdsAreOld ==
    /\ \A r \in records : r.id <= sent
    /\ \A r \in log : r.id <= sent
    /\ IsFiniteSet(log)

OneRecordEach ==
    \A r, s \in records : r.id = s.id \/ (r.by = s.by /\ r.key = s.key) => r = s

(* A record in flight whose request has gone. *)
Left(r) ==
    r.answer = None /\ ~Expired(r) /\ \A p \in Requests : Running(p) => request[p].n # r.id

Stands(op, x) == Kept(op, x) \/ \E r \in RecordsOf(op) : Left(r)

(* While a client that was told of a success has another request for it in
   the server, the record still holds what it was told, or is left in flight. *)
ToldIsKept ==
    \A q \in Requests : Running(q) => \A x \in heard[Op(q)] : x.verdict = "ok" => Stands(Op(q), x)

IInv ==
    /\ TypeOK /\ RequestsKnow /\ OneEach /\ IdsAreOld /\ OneRecordEach /\ ToldIsKept
    /\ AnswersAreInTheLog /\ OneStory

-----------------------------------------------------------------------------
(* The bounds are numbers. *)
LEMMA Numbers == MaxSends \in Nat /\ MaxDay \in Nat /\ MaxFaults \in Nat
BY IngestAssumption

(* A request, field by field, and one step's change of it. *)
Req(op, n, stage, live, stale, answer) ==
    [op |-> op, n |-> n, at |-> stage, live |-> live, stale |-> stale, answer |-> answer]

ReqSet == [op : Operations \cup {None}, n : 0..MaxSends, at : Stages,
           live : BOOLEAN, stale : 0..MaxSends, answer : {None} \cup Answers]

Becomes(q, new) == request' = [request EXCEPT ![q] = new]

(* Each way a stage changes one field of a request. *)
LEMMA RowMoves ==
    ASSUME NEW r \in ReqSet, NEW v
    PROVE  /\ [r EXCEPT !.at = v] = Req(r.op, r.n, v, r.live, r.stale, r.answer)
           /\ [r EXCEPT !.live = v] = Req(r.op, r.n, r.at, v, r.stale, r.answer)
           /\ [r EXCEPT !.stale = v] = Req(r.op, r.n, r.at, r.live, v, r.answer)
           /\ [r EXCEPT !.answer = v] = Req(r.op, r.n, r.at, r.live, r.stale, v)
BY DEF ReqSet, Req

(* Goes, Says, Overdue, ClearExpired and HangUp, as the request they leave. *)
LEMMA Moves ==
    ASSUME TypeOK, NEW q \in Requests, NEW stage, NEW v
    PROVE  LET r == request[q] IN
      /\ Goes(q, stage) <=> Becomes(q, Req(r.op, r.n, stage, r.live, r.stale, r.answer))
      /\ Says(q, v) <=> Becomes(q, Req(r.op, r.n, "flush", r.live, r.stale, v))
      /\ request' = [request EXCEPT ![q].at = stage, ![q].stale = v]
           <=> Becomes(q, Req(r.op, r.n, stage, r.live, v, r.answer))
      /\ request' = [request EXCEPT ![q].live = v]
           <=> Becomes(q, Req(r.op, r.n, r.at, v, r.stale, r.answer))
<1> DEFINE r == request[q]
<1>r. r \in ReqSet
  BY DEF TypeOK, ReqSet
<1>d. q \in DOMAIN request
  BY DEF TypeOK
<1>1. [r EXCEPT !.at = stage] = Req(r.op, r.n, stage, r.live, r.stale, r.answer)
  BY <1>r, RowMoves
<1>2. [[r EXCEPT !.at = "flush"] EXCEPT !.answer = v] = Req(r.op, r.n, "flush", r.live, r.stale, v)
  <2>1. [r EXCEPT !.at = "flush"] = Req(r.op, r.n, "flush", r.live, r.stale, r.answer)
    BY <1>r, RowMoves
  <2>2. [Req(r.op, r.n, "flush", r.live, r.stale, r.answer) EXCEPT !.answer = v] = Req(r.op, r.n, "flush", r.live, r.stale, v)
    BY DEF Req
  <2> QED
    BY <2>1, <2>2, Zenon
<1>3. [[r EXCEPT !.at = stage] EXCEPT !.stale = v] = Req(r.op, r.n, stage, r.live, v, r.answer)
  <2>1. [r EXCEPT !.at = stage] = Req(r.op, r.n, stage, r.live, r.stale, r.answer)
    BY <1>r, RowMoves
  <2>2. [Req(r.op, r.n, stage, r.live, r.stale, r.answer) EXCEPT !.stale = v] = Req(r.op, r.n, stage, r.live, v, r.answer)
    BY DEF Req
  <2> QED
    BY <2>1, <2>2, Zenon
<1>4. [r EXCEPT !.live = v] = Req(r.op, r.n, r.at, v, r.stale, r.answer)
  BY <1>r, RowMoves
<1>5. [request EXCEPT ![q].at = "flush", ![q].answer = v] =
        [request EXCEPT ![q] = [[r EXCEPT !.at = "flush"] EXCEPT !.answer = v]]
  BY <1>d, Zenon
<1>6. [request EXCEPT ![q].at = stage, ![q].stale = v] =
        [request EXCEPT ![q] = [[r EXCEPT !.at = stage] EXCEPT !.stale = v]]
  BY <1>d, Zenon
<1> QED
  BY <1>1, <1>2, <1>3, <1>4, <1>5, <1>6, Zenon DEF Goes, Says, Becomes

(* Settles, as the request it leaves. *)
LEMMA SettlesIs ==
    ASSUME TypeOK, NEW q \in Requests, NEW verdict, NEW row
    PROVE  LET r == request[q] IN
      Settles(q, verdict, row) <=>
        Becomes(q, Req(r.op, r.n, "outcome", r.live, r.stale, Answer(verdict, row)))
<1> DEFINE r == request[q]
           v == Answer(verdict, row)
<1>r. r \in ReqSet
  BY DEF TypeOK, ReqSet
<1>d. q \in DOMAIN request
  BY DEF TypeOK
<1>2. [[r EXCEPT !.at = "outcome"] EXCEPT !.answer = v] = Req(r.op, r.n, "outcome", r.live, r.stale, v)
  <2>1. [r EXCEPT !.at = "outcome"] = Req(r.op, r.n, "outcome", r.live, r.stale, r.answer)
    BY <1>r, RowMoves
  <2>2. [Req(r.op, r.n, "outcome", r.live, r.stale, r.answer) EXCEPT !.answer = v] = Req(r.op, r.n, "outcome", r.live, r.stale, v)
    BY DEF Req
  <2> QED
    BY <2>1, <2>2, Zenon
<1>5. [request EXCEPT ![q].at = "outcome", ![q].answer = v] =
        [request EXCEPT ![q] = [[r EXCEPT !.at = "outcome"] EXCEPT !.answer = v]]
  BY <1>d, Zenon
<1> QED
  BY <1>2, <1>5, Zenon DEF Settles, Becomes

-----------------------------------------------------------------------------
(* What was told stands while no record is deleted before its time and nobody
   takes the number of another request.                                    *)
LEMMA StandsStill ==
    ASSUME NEW op, NEW x, Stands(op, x), UNCHANGED now,
           \A r \in records : ~Expired(r) => r \in records',
           \A p \in Requests : Running(p)' =>
             \/ Running(p) /\ request'[p].n = request[p].n
             \/ \A r \in records : r.id # request'[p].n
    PROVE  Stands(op, x)'
<1>1. Kept(op, x) => Kept(op, x)'
  BY DEF Kept, RecordsOf, Expired
<1>2. \A r \in RecordsOf(op) : Left(r) => r \in RecordsOf(op)' /\ Left(r)'
  BY DEF Left, RecordsOf, Expired
<1> QED
  BY <1>1, <1>2 DEF Stands

(* A step that moves one request and touches no table. *)
LEMMA MoveIsTyped ==
    ASSUME TypeOK, NEW q \in Requests, NEW new \in ReqSet, Becomes(q, new),
           UNCHANGED <<log, records, heard, now, sent>>, faults' \in 0..MaxFaults
    PROVE  TypeOK'
BY DEF TypeOK, ReqSet, Becomes

(* The other requests know what they knew. *)
LEMMA OthersKnow ==
    ASSUME IInv, NEW q \in Requests, NEW new, Becomes(q, new), NEW p \in Requests, p # q,
           UNCHANGED <<log, records, heard, now, sent>>,
           new.at = "clear" => \/ \E r \in records : r.id = new.stale
                               \/ At(q, "clear") /\ new.stale = request[q].stale
    PROVE  RequestKnows(p)'
<1>1. RequestKnows(p)
  BY DEF IInv, RequestsKnow
<1>2. request'[p] = request[p] /\ request'[q] = new
  BY DEF IInv, TypeOK, Becomes
<1>3. \A n : Fresh(n) => Fresh(n)'
  BY <1>2 DEF Fresh, Becomes, At, IInv, TypeOK
<1> QED
  BY <1>1, <1>2, <1>3 DEF RequestKnows, Running, At, Op, Live, RowsOf, RecordsOf, Own, Kept, Holds, Expired

(* So a move keeps the invariant when the request it moves knows enough. *)
LEMMA MoveKeeps ==
    ASSUME IInv, TypeOK', NEW q \in Requests, NEW new, Becomes(q, new),
           UNCHANGED <<log, records, heard, now, sent>>,
           new.at = "idle" \/ (Running(q) /\ new.op = Op(q) /\ new.n = request[q].n),
           new.at = "clear" => \/ \E r \in records : r.id = new.stale
                               \/ At(q, "clear") /\ new.stale = request[q].stale,
           RequestKnows(q)'
    PROVE  IInv'
<1>r. \A p \in Requests : p # q => request'[p] = request[p]
  BY DEF IInv, TypeOK, Becomes
<1>q. request'[q] = new
  BY DEF IInv, TypeOK, Becomes
<1>1. RequestsKnow'
  BY OthersKnow DEF RequestsKnow
<1>2. OneEach'
  BY <1>r, <1>q DEF IInv, OneEach, Running, At
<1>3. IdsAreOld' /\ OneRecordEach'
  BY DEF IInv, IdsAreOld, OneRecordEach
<1>4. ToldIsKept'
  <2>1. \A p \in Requests : Running(p)' => Running(p) /\ Op(p)' = Op(p) /\ request'[p].n = request[p].n
    BY <1>r, <1>q DEF Running, At, Op
  <2>2. \A op, x : Stands(op, x) => Stands(op, x)'
    BY <2>1, StandsStill
  <2> QED
    BY <2>1, <2>2 DEF IInv, ToldIsKept
<1>5. AnswersAreInTheLog' /\ OneStory'
  BY DEF IInv, AnswersAreInTheLog, OneStory, RowsOf
<1> QED
  BY <1>1, <1>2, <1>3, <1>4, <1>5 DEF IInv

-----------------------------------------------------------------------------
(* The steps that move one request alone. *)

(* The key is free, its record has run out, or the record answers: what a replay
   says is what the record holds, of the operation it was first sent for.  *)
LEMMA ReadKeeps ==
    ASSUME IInv, NEW q \in Requests, ReadRecord(q)
    PROVE  IInv'
<1> DEFINE r == request[q]
<1>t. TypeOK /\ r \in ReqSet /\ RequestKnows(q)
  BY DEF IInv, TypeOK, ReqSet, RequestsKnow
<1>u. /\ At(q, "read") /\ Live(q) /\ UNCHANGED <<log, records, heard, now, sent, faults>>
      /\ Running(q) /\ Op(q) \in Operations /\ r.n \in 1..sent /\ Fresh(r.n)
      /\ Needs[Op(q)] # None => RowsOf(Needs[Op(q)]) # {}
  BY <1>t DEF ReadRecord, bounded, RequestKnows, Running, At, Early
<1>f. faults' \in 0..MaxFaults
  BY <1>u DEF IInv, TypeOK
<1>1. ASSUME Unused(q) PROVE IInv'
  <2> DEFINE new == Req(r.op, r.n, "take", r.live, r.stale, r.answer)
  <2>1. Becomes(q, new)
    BY <1>1, <1>t, Moves DEF Unused
  <2>2. new \in ReqSet
    BY <1>t DEF Req, ReqSet, Stages
  <2>3. RequestKnows(q)'
    BY <2>1, <1>t, <1>u DEF RequestKnows, Becomes, Req, TypeOK, Running, At, Early, Middle, Op, Fresh, RowsOf
  <2>4. TypeOK'
    BY <2>1, <2>2, <1>t, <1>u, <1>f, MoveIsTyped
  <2>5. new.op = Op(q) /\ new.n = r.n /\ new.at # "clear"
    BY DEF Req, Op
  <2> QED
    BY <2>1, <2>3, <2>4, <2>5, <1>u, MoveKeeps
<1>2. ASSUME NEW c \in RecordsOf(Op(q)), Overdue(q, c) PROVE IInv'
  <2> DEFINE new == Req(r.op, r.n, "clear", r.live, c.id, r.answer)
  <2>1. Becomes(q, new)
    BY <1>2, <1>t, Moves DEF Overdue
  <2>c. c \in records /\ Expired(c) /\ c.id \in 1..sent /\ c.id # r.n
    BY <1>2, <1>t, <1>u, Numbers DEF RecordsOf, Overdue, IInv, TypeOK, IdsAreOld, Fresh
  <2>2. new \in ReqSet
    BY <1>t, <2>c, Numbers DEF Req, ReqSet, Stages, TypeOK
  <2>n. request'[q] = new /\ \A p \in Requests : p # q => request'[p] = request[p]
    BY <2>1, <1>t DEF Becomes, TypeOK
  <2>e. Fresh(r.n)'
    BY <2>n, <2>c, <1>u DEF Fresh, At, Req
  <2>o. \A d \in records : d.id = c.id => Expired(d)
    BY <2>c DEF IInv, OneRecordEach
  <2>3. RequestKnows(q)'
    BY <2>n, <2>c, <2>e, <2>o, <1>u DEF RequestKnows, Req, Running, At, Early, Middle, Op, RowsOf, Expired
  <2>4. TypeOK'
    BY <2>1, <2>2, <1>t, <1>u, <1>f, MoveIsTyped
  <2>5. new.op = Op(q) /\ new.n = r.n /\ new.stale = c.id
    BY DEF Req, Op
  <2> QED
    BY <2>1, <2>3, <2>4, <2>5, <2>c, <1>u, MoveKeeps
<1>3. ASSUME NEW c \in RecordsOf(Op(q)), Held(q, c) PROVE IInv'
  <2>1. PICK x : /\ Says(q, x)
                 /\ \/ x = Answer("in_flight", 0) \/ x = Answer("reused", 0)
                    \/ x = c.answer /\ c.answer # None /\ c.hash = RequestHash(Op(q)) /\ ~Expired(c)
    BY <1>3 DEF Held
  <2>x. /\ x \in Answers
        /\ x.verdict = "ok" => x = c.answer /\ c.answer # None /\ c.hash = RequestHash(Op(q)) /\ ~Expired(c)
    BY <2>1, Numbers DEF RecordsOf, IInv, TypeOK, Answers, Answer, Verdicts
  <2>h. Holds(x, FactOf[Op(q)]) /\ (x.verdict = "ok" => Kept(Op(q), x))
    <3>1. x.verdict = "ok" => \E row \in RowsOf(FactOf[Op(q)]) : row.id = x.row
      BY <2>x DEF RecordsOf, IInv, AnswersAreInTheLog, RequestHash
    <3> QED
      BY <3>1, <2>x DEF Holds, Kept
  <2> DEFINE new == Req(r.op, r.n, "flush", r.live, r.stale, x)
  <2>2. Becomes(q, new)
    BY <2>1, <1>t, Moves
  <2>3. new \in ReqSet
    BY <1>t, <2>x DEF Req, ReqSet, Stages
  <2>n. request'[q] = new
    BY <2>2, <1>t DEF Becomes, TypeOK
  <2>4. RequestKnows(q)'
    BY <2>n, <2>x, <2>h, <1>u DEF RequestKnows, Req, Running, At, Early, Middle, Op, Live, RowsOf, Holds, Kept, RecordsOf, Expired
  <2>5. TypeOK'
    BY <2>2, <2>3, <1>t, <1>u, <1>f, MoveIsTyped
  <2>6. new.op = Op(q) /\ new.n = r.n /\ new.at # "clear"
    BY DEF Req, Op
  <2> QED
    BY <2>2, <2>4, <2>5, <2>6, <1>u, MoveKeeps
<1> QED
  BY <1>1, <1>2, <1>3 DEF ReadRecord

(* A request that holds its record settles an answer that is true. *)
LEMMA SettleKeeps ==
    ASSUME IInv, NEW q \in Requests, request[q].at \in Middle, NEW verdict, NEW row,
           Settles(q, verdict, row), verdict \in {"ok", "refused", "failed"}, row \in 0..MaxSends,
           verdict = "ok" => \E r \in RowsOf(FactOf[Op(q)]) : r.id = row,
           UNCHANGED <<log, records, heard, now, sent>>, faults' \in 0..MaxFaults
    PROVE  IInv'
<1> DEFINE r   == request[q]
           new == Req(r.op, r.n, "outcome", r.live, r.stale, Answer(verdict, row))
<1>t. TypeOK /\ r \in ReqSet /\ RequestKnows(q)
  BY DEF IInv, TypeOK, ReqSet, RequestsKnow
<1>u. /\ Running(q) /\ Op(q) \in Operations /\ r.n \in 1..sent
      /\ Needs[Op(q)] # None => RowsOf(Needs[Op(q)]) # {}
      /\ \E c \in records : Own(q, c)
  BY <1>t DEF RequestKnows, Running, At, Middle
<1>1. Becomes(q, new)
  BY <1>t, SettlesIs
<1>2. Answer(verdict, row) \in Answers
  BY DEF Answer, Answers, Verdicts
<1>3. new \in ReqSet
  BY <1>t, <1>2 DEF Req, ReqSet, Stages
<1>n. request'[q] = new
  BY <1>1, <1>t DEF Becomes, TypeOK
<1>4. RequestKnows(q)'
  BY <1>n, <1>2, <1>u DEF RequestKnows, Req, Running, At, Early, Middle, Op, Live, RowsOf, Holds, Own, Expired, Answer
<1>5. TypeOK'
  BY <1>1, <1>3, <1>t, MoveIsTyped
<1>6. new.op = Op(q) /\ new.n = r.n /\ new.at # "clear"
  BY DEF Req, Op
<1> QED
  BY <1>1, <1>4, <1>5, <1>6, <1>u, MoveKeeps

(* A request that holds its record goes on to its transaction, or to read what
   another one wrote.                                                      *)
LEMMA GoKeeps ==
    ASSUME IInv, NEW q \in Requests, NEW stage, Goes(q, stage),
           \/ At(q, "lookup") /\ stage = "write"
           \/ At(q, "write") /\ stage = "again",
           UNCHANGED <<log, records, heard, now, sent, faults>>
    PROVE  IInv'
<1> DEFINE r   == request[q]
           new == Req(r.op, r.n, stage, r.live, r.stale, r.answer)
<1>t. TypeOK /\ r \in ReqSet /\ RequestKnows(q)
  BY DEF IInv, TypeOK, ReqSet, RequestsKnow
<1>u. /\ Running(q) /\ Op(q) \in Operations /\ r.n \in 1..sent
      /\ Needs[Op(q)] # None => RowsOf(Needs[Op(q)]) # {}
      /\ \E c \in records : Own(q, c)
      /\ \A row \in log : row.id # r.n
  BY <1>t DEF RequestKnows, Running, At, Middle
<1>1. Becomes(q, new)
  BY <1>t, Moves
<1>3. new \in ReqSet
  BY <1>t DEF Req, ReqSet, Stages
<1>n. request'[q] = new
  BY <1>1, <1>t DEF Becomes, TypeOK
<1>4. RequestKnows(q)'
  BY <1>n, <1>u DEF RequestKnows, Req, Running, At, Early, Middle, Op, Live, RowsOf, Own, Expired
<1>f. faults' \in 0..MaxFaults
  BY <1>t DEF TypeOK
<1>5. TypeOK'
  BY <1>1, <1>3, <1>t, <1>f, MoveIsTyped
<1>6. new.op = Op(q) /\ new.n = r.n /\ new.at # "clear"
  BY DEF Req, Op
<1> QED
  BY <1>1, <1>4, <1>5, <1>6, <1>u, MoveKeeps

(* A request says something other than that its operation succeeded. *)
LEMMA SayKeeps ==
    ASSUME IInv, NEW q \in Requests, Running(q), NEW verdict \in Verdicts \ {"ok"},
           Says(q, Answer(verdict, 0)),
           UNCHANGED <<log, records, heard, now, sent>>, faults' \in 0..MaxFaults
    PROVE  IInv'
<1> DEFINE r   == request[q]
           new == Req(r.op, r.n, "flush", r.live, r.stale, Answer(verdict, 0))
<1>t. TypeOK /\ r \in ReqSet /\ RequestKnows(q)
  BY DEF IInv, TypeOK, ReqSet, RequestsKnow
<1>u. /\ Op(q) \in Operations /\ r.n \in 1..sent
      /\ Needs[Op(q)] # None => RowsOf(Needs[Op(q)]) # {}
  BY <1>t DEF RequestKnows
<1>1. Becomes(q, new)
  BY <1>t, Moves
<1>2. Answer(verdict, 0) \in Answers /\ Answer(verdict, 0).verdict # "ok"
  BY Numbers DEF Answer, Answers
<1>3. new \in ReqSet
  BY <1>t, <1>2 DEF Req, ReqSet, Stages
<1>n. request'[q] = new
  BY <1>1, <1>t DEF Becomes, TypeOK
<1>4. RequestKnows(q)'
  BY <1>n, <1>2, <1>u DEF RequestKnows, Req, Running, At, Early, Middle, Op, Live, RowsOf, Holds
<1>5. TypeOK'
  BY <1>1, <1>3, <1>t, MoveIsTyped
<1>6. new.op = Op(q) /\ new.n = r.n /\ new.at # "clear"
  BY DEF Req, Op
<1> QED
  BY <1>1, <1>4, <1>5, <1>6, MoveKeeps

(* A request ends, answered or not. *)
LEMMA EndKeeps ==
    ASSUME IInv, NEW q \in Requests, request' = [request EXCEPT ![q] = Idle],
           UNCHANGED <<log, records, heard, now, sent>>, faults' \in 0..MaxFaults
    PROVE  IInv'
<1>t. TypeOK
  BY DEF IInv
<1>1. Becomes(q, Idle) /\ request'[q] = Idle
  BY <1>t DEF Becomes, TypeOK
<1>2. Idle \in ReqSet /\ Idle.at = "idle"
  BY Numbers DEF Idle, ReqSet, Stages
<1>3. RequestKnows(q)'
  BY <1>1, <1>2 DEF RequestKnows, Running, At, Early, Middle
<1>4. TypeOK'
  BY <1>1, <1>2, <1>t, MoveIsTyped
<1> QED
  BY <1>1, <1>2, <1>3, <1>4, MoveKeeps

(* Row ids are the numbers of requests. *)
LEMMA RowIds == ASSUME TypeOK, NEW fact, NEW r \in RowsOf(fact) PROVE r.id \in 0..MaxSends
BY Numbers DEF TypeOK, RowsOf

(* byNaturalKey, before the transaction and after it lost. *)
LEMMA FindKillKeeps ==
    ASSUME IInv, NEW q \in Requests, NEW otherwise, FindKill(q, otherwise), otherwise => IInv',
           request[q].at \in Middle, UNCHANGED <<log, records, heard, now, sent, faults>>
    PROVE  IInv'
<1>1. ASSUME NEW r \in RowsOf(FactOf[Op(q)]), Settles(q, "ok", r.id) PROVE IInv'
  <2>1. r.id \in 0..MaxSends /\ faults' \in 0..MaxFaults
    BY RowIds DEF IInv, TypeOK
  <2> QED
    BY <1>1, <2>1, SettleKeeps
<1> QED
  BY <1>1 DEF FindKill

(* The lookups of RecordKill and RecordRetraction. *)
LEMMA LookupKeeps ==
    ASSUME IInv, NEW q \in Requests, LookupKill(q) \/ LookupOriginal(q)
    PROVE  IInv'
<1>u. At(q, "lookup") /\ request[q].at \in Middle /\ UNCHANGED <<log, records, heard, now, sent, faults>>
  BY DEF LookupKill, LookupOriginal, bounded, At, Middle
<1>f. faults' \in 0..MaxFaults /\ 0 \in 0..MaxSends
  BY <1>u, Numbers DEF IInv, TypeOK
<1>1. Goes(q, "write") => IInv'
  BY <1>u, GoKeeps
<1>2. Settles(q, "refused", 0) => IInv'
  BY <1>u, <1>f, SettleKeeps
<1>3. LookupKill(q) => IInv'
  BY <1>1, <1>u, FindKillKeeps DEF LookupKill
<1> QED
  BY <1>1, <1>2, <1>3 DEF LookupOriginal

(* A statement that fails is a problem, or a failure to settle. *)
LEMMA FailKeeps ==
    ASSUME IInv, NEW q \in Requests, Running(q), Fails(q),
           UNCHANGED <<log, records, heard, now, sent>>, faults' \in 0..MaxFaults
    PROVE  IInv'
<1>f. 0 \in 0..MaxSends
  BY Numbers
<1>1. Says(q, Answer("failed", 0)) \/ Says(q, Answer("in_flight", 0)) => IInv'
  BY SayKeeps DEF Verdicts
<1>2. Settles(q, "failed", 0) /\ request[q].at \in Middle => IInv'
  BY <1>f, SettleKeeps
<1> QED
  BY <1>1, <1>2 DEF Fails, At, Middle

(* One that SQLite turned away. *)
LEMMA BusyKeeps == ASSUME IInv, NEW q \in Requests, Busy(q) PROVE IInv'
<1>1. Running(q) /\ Fails(q) /\ UNCHANGED <<log, records, heard, now, sent>>
  BY DEF Busy, Fails, Running, At
<1>2. faults' \in 0..MaxFaults
  BY Numbers DEF IInv, TypeOK, Busy
<1> QED
  BY <1>1, <1>2, FailKeeps

(* The loser of a race reads the winner's row. *)
LEMMA ReadBackKeeps == ASSUME IInv, NEW q \in Requests, ReadBack(q) PROVE IInv'
<1>u. request[q].at \in Middle /\ UNCHANGED <<log, records, heard, now, sent, faults>>
  BY DEF ReadBack, bounded, At, Middle
<1>f. faults' \in 0..MaxFaults /\ 0 \in 0..MaxSends
  BY <1>u, Numbers DEF IInv, TypeOK
<1>1. Settles(q, "refused", 0) => IInv'
  BY <1>u, <1>f, SettleKeeps
<1> QED
  BY <1>1, <1>u, FindKillKeeps DEF ReadBack

(* The row of a commit is answered for. *)
LEMMA ViewKeeps == ASSUME IInv, NEW q \in Requests, View(q) PROVE IInv'
<1>1. /\ request[q].at \in Middle /\ UNCHANGED <<log, records, heard, now, sent>>
      /\ faults' \in 0..MaxFaults /\ request[q].n \in 0..MaxSends
      /\ Settles(q, "ok", request[q].n)
      /\ \E r \in RowsOf(FactOf[Op(q)]) : r.id = request[q].n
  BY DEF IInv, TypeOK, View, At, Middle, bounded, RequestsKnow, RequestKnows
<1> QED
  BY <1>1, SettleKeeps

(* A context that was cancelled fails the next statement. *)
LEMMA GiveUpKeeps == ASSUME IInv, NEW q \in Requests, GiveUp(q) PROVE IInv'
<1>1. Running(q) /\ Fails(q) /\ UNCHANGED <<log, records, heard, now, sent, faults>>
  BY DEF GiveUp, Fails, bounded, Running, At
<1>2. faults' \in 0..MaxFaults
  BY <1>1 DEF IInv, TypeOK
<1> QED
  BY <1>1, <1>2, FailKeeps

(* An outcome that is lost leaves the record in flight. *)
LEMMA LoseKeeps == ASSUME IInv, NEW q \in Requests, LoseOutcome(q) PROVE IInv'
<1> DEFINE r   == request[q]
           new == Req(r.op, r.n, "unrecorded", r.live, r.stale, r.answer)
<1>t. TypeOK /\ r \in ReqSet /\ RequestKnows(q)
  BY DEF IInv, TypeOK, ReqSet, RequestsKnow
<1>u. /\ At(q, "outcome") /\ UNCHANGED <<log, records, heard, now, sent>> /\ faults' \in 0..MaxFaults
      /\ Running(q) /\ Op(q) \in Operations /\ r.n \in 1..sent
      /\ Needs[Op(q)] # None => RowsOf(Needs[Op(q)]) # {}
      /\ \E c \in records : Own(q, c)
      /\ r.answer \in Answers /\ Holds(r.answer, FactOf[Op(q)])
  BY <1>t, Numbers DEF LoseOutcome, TypeOK, RequestKnows, Running, At, Middle
<1>1. Becomes(q, new)
  BY <1>t, Moves DEF LoseOutcome
<1>2. new \in ReqSet
  BY <1>t DEF Req, ReqSet, Stages
<1>n. request'[q] = new
  BY <1>1, <1>t DEF Becomes, TypeOK
<1>3. RequestKnows(q)'
  BY <1>n, <1>u DEF RequestKnows, Req, Running, At, Early, Middle, Op, Live, RowsOf, Holds, Own, Expired
<1>4. TypeOK'
  BY <1>1, <1>2, <1>t, <1>u, MoveIsTyped
<1>5. new.op = Op(q) /\ new.n = r.n /\ new.at # "clear"
  BY DEF Req, Op
<1> QED
  BY <1>1, <1>3, <1>4, <1>5, <1>u, MoveKeeps

(* A handler that stops leaves its record as it is. *)
LEMMA StopKeeps == ASSUME IInv, NEW q \in Requests, Stop(q) PROVE IInv'
<1>1. /\ request' = [request EXCEPT ![q] = Idle]
      /\ UNCHANGED <<log, records, heard, now, sent>> /\ faults' \in 0..MaxFaults
  BY Numbers DEF Stop, IInv, TypeOK
<1> QED
  BY <1>1, EndKeeps

(* A client that hangs up takes nothing from what its request knows. *)
LEMMA HangUpKeeps == ASSUME IInv, NEW q \in Requests, HangUp(q) PROVE IInv'
<1> DEFINE r   == request[q]
           new == Req(r.op, r.n, r.at, FALSE, r.stale, r.answer)
<1>t. TypeOK /\ r \in ReqSet /\ RequestKnows(q)
  BY DEF IInv, TypeOK, ReqSet, RequestsKnow
<1>u. UNCHANGED <<log, records, heard, now, sent>> /\ faults' \in 0..MaxFaults /\ Running(q)
  BY <1>t, Numbers DEF TypeOK, HangUp, RequestKnows, Running, Live, Idle, At
<1>1. Becomes(q, new)
  BY <1>t, Moves DEF HangUp
<1>2. new \in ReqSet
  BY <1>t DEF Req, ReqSet
<1>n. request'[q] = new /\ \A p \in Requests : p # q => request'[p] = request[p]
  BY <1>1, <1>t DEF Becomes, TypeOK
<1>e. \A n : Fresh(n) => Fresh(n)'
  BY <1>n, <1>u DEF Fresh, At, Req
<1>3. RequestKnows(q)'
  BY <1>n, <1>e, <1>t, <1>u DEF RequestKnows, Req, Running, At, Early, Middle, Op, Live, RowsOf, Holds, Own, Expired
<1>4. TypeOK'
  BY <1>1, <1>2, <1>t, <1>u, MoveIsTyped
<1>5. new.op = Op(q) /\ new.n = r.n /\ new.stale = r.stale /\ (new.at = "clear" => At(q, "clear"))
  BY DEF Req, Op, At
<1> QED
  BY <1>1, <1>3, <1>4, <1>5, <1>u, MoveKeeps

-----------------------------------------------------------------------------
(* The steps that write a table. *)

(* A new request has an id nobody has used. *)
LEMMA SendKeeps == ASSUME IInv, NEW q \in Requests, NEW op \in Operations, Send(q, op) PROVE IInv'
<1> DEFINE new == Req(op, sent + 1, "read", TRUE, 0, None)
<1>t. TypeOK
  BY DEF IInv
<1>u. /\ sent' = sent + 1 /\ sent + 1 \in 1..MaxSends /\ Pending(op) /\ request[q] = Idle
      /\ Needs[op] # None => RowsOf(Needs[op]) # {}
      /\ UNCHANGED <<log, records, heard, now, faults>>
  BY <1>t, Numbers DEF Send, TypeOK
<1>n. /\ request' = [request EXCEPT ![q] = new] /\ request'[q] = new
      /\ \A p \in Requests : p # q => request'[p] = request[p]
  BY <1>t, <1>u DEF Send, Req, TypeOK
<1>1. TypeOK'
  <2>1. new \in ReqSet
    BY <1>u, Numbers DEF Req, ReqSet, Stages
  <2>2. sent' \in 0..MaxSends
    BY <1>u, Numbers
  <2> QED
    BY <1>t, <1>u, <1>n, <2>1, <2>2 DEF TypeOK, ReqSet
<1>2. \A n : Fresh(n) => Fresh(n)'
  BY <1>n, <1>u DEF Fresh, Req, At
<1>3. RequestKnows(q)'
  <2>k. PICK k : k = sent + 1
    OBVIOUS
  <2>1. Fresh(k)
    <3>1. \A p \in Requests : At(p, "clear") => request[p].stale # sent + 1
      BY <1>t, Numbers DEF IInv, RequestsKnow, RequestKnows, TypeOK
    <3>2. (\A r \in records : r.id # sent + 1) /\ (\A r \in log : r.id # sent + 1)
      BY <1>t, Numbers DEF IInv, IdsAreOld, TypeOK
    <3> QED
      BY <2>k, <3>1, <3>2 DEF Fresh
  <2>2. Fresh(k)'
    BY <1>2, <2>1
  <2>3. k \in 1..sent' /\ request'[q].n = k
    BY <1>t, <1>n, <1>u, <2>k DEF TypeOK, Req
  <2> QED
    BY <1>n, <1>u, <2>2, <2>3 DEF RequestKnows, Req, Running, At, Early, Middle, Op, RowsOf
<1>4. ASSUME NEW p \in Requests, p # q PROVE RequestKnows(p)'
  <2>1. RequestKnows(p) /\ request'[p] = request[p] /\ 1..sent \subseteq 1..sent'
    BY <1>t, <1>n, <1>u, <1>4 DEF IInv, RequestsKnow, TypeOK
  <2> QED
    BY <2>1, <1>2, <1>u DEF RequestKnows, Running, At, Op, Live, RowsOf, RecordsOf, Own, Kept, Holds, Expired
<1>5. OneEach'
  <2>1. \A p \in Requests : p # q /\ Running(p)' => Running(p) /\ request'[p] = request[p] /\ request'[p].n # sent + 1
    BY <1>t, <1>n DEF IInv, RequestsKnow, RequestKnows, Running, At, TypeOK
  <2>2. request'[q].n = sent + 1
    BY <1>n DEF Req
  <2> QED
    BY <2>1, <2>2 DEF IInv, OneEach
<1>6. IdsAreOld' /\ OneRecordEach'
  BY <1>t, <1>u DEF IInv, IdsAreOld, OneRecordEach, TypeOK
<1>7. ToldIsKept'
  <2>1. \A x \in heard[op] : x.verdict # "ok"
    BY <1>u DEF Pending
  <2>2. Op(q)' = op
    BY <1>n DEF Op, Req
  <2>3. \A p \in Requests : p # q /\ Running(p)' => Running(p) /\ Op(p)' = Op(p)
    BY <1>n DEF Running, At, Op
  <2>4. \A r \in records : r.id # sent + 1
    BY <1>t, Numbers DEF IInv, IdsAreOld, TypeOK
  <2>5. ASSUME NEW p \in Requests, Running(p)'
        PROVE  \/ Running(p) /\ request'[p].n = request[p].n
               \/ \A r \in records : r.id # request'[p].n
    <3>1. CASE p = q
      <4>1. request'[p].n = sent + 1
        BY <3>1, <1>n DEF Req
      <4> QED
        BY <2>4, <4>1
    <3>2. CASE p # q
      BY <1>n, <2>5, <3>2 DEF Running, At
    <3> QED
      BY <3>1, <3>2
  <2>6. \A o, x : Stands(o, x) => Stands(o, x)'
    BY <1>u, <2>5, StandsStill
  <2> QED
    BY <1>u, <2>1, <2>2, <2>3, <2>6 DEF IInv, ToldIsKept
<1>8. AnswersAreInTheLog' /\ OneStory'
  BY <1>u DEF IInv, AnswersAreInTheLog, OneStory, RowsOf
<1> QED
  BY <1>1, <1>3, <1>4, <1>5, <1>6, <1>7, <1>8 DEF IInv, RequestsKnow

(* What is left of the records when only some that have run out are gone. *)
LEMMA FewerKnow ==
    ASSUME IInv, NEW p \in Requests, RequestKnows(p), request'[p] = request[p],
           UNCHANGED <<log, heard, now, sent>>, records' \subseteq records,
           \A n : Fresh(n) => Fresh(n)',
           \A r \in records : ~Expired(r) => r \in records'
    PROVE  RequestKnows(p)'
BY DEF RequestKnows, Running, At, Op, Live, RowsOf, RecordsOf, Own, Kept, Holds, Expired

(* The sweep takes only records that ran out. *)
LEMMA SweepKeeps == ASSUME IInv, Sweep PROVE IInv'
<1>t. TypeOK
  BY DEF IInv
<1>u. /\ UNCHANGED <<log, request, heard, now, sent, faults>> /\ records' \subseteq records
      /\ \A r \in records : ~Expired(r) => r \in records'
  BY <1>t, Numbers DEF Sweep, bounded, Expired, Grace, TypeOK
<1>1. TypeOK'
  BY <1>t, <1>u DEF TypeOK
<1>2. \A n : Fresh(n) => Fresh(n)'
  BY <1>u DEF Fresh, At
<1>3. RequestsKnow'
  BY <1>u, <1>2, FewerKnow DEF IInv, RequestsKnow
<1>4. OneEach' /\ IdsAreOld' /\ OneRecordEach'
  BY <1>u DEF IInv, OneEach, IdsAreOld, OneRecordEach, Running, At
<1>5. ToldIsKept'
  <2>1. \A p \in Requests : Running(p)' => Running(p) /\ Op(p)' = Op(p) /\ request'[p].n = request[p].n
    BY <1>u DEF Running, At, Op
  <2>2. \A op, x : Stands(op, x) => Stands(op, x)'
    BY <1>u, <2>1, StandsStill
  <2> QED
    BY <1>u, <2>1, <2>2 DEF IInv, ToldIsKept
<1>6. AnswersAreInTheLog' /\ OneStory'
  BY <1>u DEF IInv, AnswersAreInTheLog, OneStory, RowsOf
<1> QED
  BY <1>1, <1>3, <1>4, <1>5, <1>6 DEF IInv

(* The delete is by an id whose record has run out, if it is there at all. *)
LEMMA ClearExpiredKeeps == ASSUME IInv, NEW q \in Requests, ClearExpired(q) PROVE IInv'
<1> DEFINE r   == request[q]
           new == Req(r.op, r.n, "take", r.live, 0, r.answer)
<1>t. TypeOK /\ r \in ReqSet /\ RequestKnows(q)
  BY DEF IInv, TypeOK, ReqSet, RequestsKnow
<1>u. /\ At(q, "clear") /\ UNCHANGED <<log, heard, now, sent, faults>> /\ records' \subseteq records
      /\ \A c \in records : ~Expired(c) => c \in records'
      /\ Running(q) /\ Op(q) \in Operations /\ r.n \in 1..sent /\ Fresh(r.n)
      /\ Needs[Op(q)] # None => RowsOf(Needs[Op(q)]) # {}
  BY <1>t DEF ClearExpired, bounded, RequestKnows, Running, At, Early
<1>m. Becomes(q, new)
  BY <1>t, Moves DEF ClearExpired
<1>n. request'[q] = new /\ \A p \in Requests : p # q => request'[p] = request[p]
  BY <1>m, <1>t DEF Becomes, TypeOK
<1>1. TypeOK'
  <2>1. new \in ReqSet
    BY <1>t, Numbers DEF Req, ReqSet, Stages
  <2> QED
    BY <1>t, <1>u, <1>m, <2>1 DEF TypeOK, ReqSet, Becomes
<1>2. \A n : Fresh(n) => Fresh(n)'
  BY <1>n, <1>u DEF Fresh, At, Req
<1>3. RequestsKnow'
  <2>1. \A p \in Requests : p # q => RequestKnows(p)'
    BY <1>n, <1>u, <1>2, FewerKnow DEF IInv, RequestsKnow
  <2>2. RequestKnows(q)'
    BY <1>n, <1>u, <1>2 DEF RequestKnows, Req, Running, At, Early, Middle, Op, RowsOf
  <2> QED
    BY <2>1, <2>2 DEF RequestsKnow
<1>4. OneEach' /\ IdsAreOld' /\ OneRecordEach'
  BY <1>n, <1>u DEF IInv, OneEach, IdsAreOld, OneRecordEach, Running, At, Req
<1>5. ToldIsKept'
  <2>1. \A p \in Requests : Running(p)' => Running(p) /\ Op(p)' = Op(p) /\ request'[p].n = request[p].n
    BY <1>n, <1>u DEF Running, At, Op, Req
  <2>2. \A op, x : Stands(op, x) => Stands(op, x)'
    BY <1>u, <2>1, StandsStill
  <2> QED
    BY <1>u, <2>1, <2>2 DEF IInv, ToldIsKept
<1>6. AnswersAreInTheLog' /\ OneStory'
  BY <1>u DEF IInv, AnswersAreInTheLog, OneStory, RowsOf
<1> QED
  BY <1>1, <1>3, <1>4, <1>5, <1>6 DEF IInv

(* Taking a record: the key was free, so nobody else's record is touched. *)
LEMMA TakeKeeps == ASSUME IInv, NEW q \in Requests, TakeRecord(q) PROVE IInv'
<1> DEFINE r == request[q]
           c == RecordFor(q)
<1>t. TypeOK /\ r \in ReqSet /\ RequestKnows(q)
  BY DEF IInv, TypeOK, ReqSet, RequestsKnow
<1>u. /\ At(q, "take") /\ UNCHANGED <<log, heard, now, sent, faults>>
      /\ Running(q) /\ Op(q) \in Operations /\ r.n \in 1..sent /\ Fresh(r.n)
      /\ Needs[Op(q)] # None => RowsOf(Needs[Op(q)]) # {}
  BY <1>t DEF TakeRecord, bounded, RequestKnows, Running, At, Early
<1>i. ASSUME Says(q, Answer("in_flight", 0)), UNCHANGED records PROVE IInv'
  <2>1. faults' \in 0..MaxFaults
    BY <1>u, <1>t DEF TypeOK
  <2> QED
    BY <1>i, <1>u, <2>1, SayKeeps DEF Verdicts
<1>a. ASSUME NEW stage \in {"lookup", "write"}, Goes(q, stage), RecordsOf(Op(q)) = {},
             records' = records \cup {RecordFor(q)}
      PROVE  IInv'
  <2> DEFINE new == Req(r.op, r.n, stage, r.live, r.stale, r.answer)
  <2>m. Becomes(q, new)
    BY <1>a, <1>t, Moves
  <2>n. request'[q] = new /\ \A p \in Requests : p # q => request'[p] = request[p]
    BY <2>m, <1>t DEF Becomes, TypeOK
  <2>c. PICK d : /\ records' = records \cup {d}
                 /\ d.id = r.n /\ d.by = Caller[Op(q)] /\ d.key = Key[Op(q)]
                 /\ d.hash = RequestHash(Op(q)) /\ d.expires = now + TTL /\ d.answer = None
                 /\ d = RecordFor(q)
    BY <1>a DEF RecordFor
  <2>x. ~Expired(d) /\ \A s \in records : s.by # d.by \/ s.key # d.key
    BY <2>c, <1>a, <1>t, Numbers DEF Expired, TTL, RecordsOf, TypeOK
  <2>1. TypeOK'
    <3>1. new \in ReqSet
      BY <1>a, <1>t DEF Req, ReqSet, Stages
    <3>2. RecordFor(q) \in [id : 1..MaxSends, by : Callers, key : Keys, hash : {RequestHash(o) : o \in Operations},
                            expires : TTL..(MaxDay + TTL),
                            answer : {None} \cup {x \in Answers : x.verdict \in {"ok", "refused"}}]
      BY <1>t, <1>u, Numbers, IngestAssumption DEF RecordFor, TypeOK, TTL
    <3> QED
      BY <1>a, <1>t, <1>u, <2>m, <3>1, <3>2 DEF TypeOK, ReqSet, Becomes
  <2>2. \A n : n # r.n /\ Fresh(n) => Fresh(n)'
    BY <2>n, <2>c, <1>a, <1>u DEF Fresh, At, Req
  <2>3. ASSUME NEW p \in Requests, p # q PROVE RequestKnows(p)'
    <3>1. RequestKnows(p) /\ request'[p] = request[p]
      BY <2>n, <2>3 DEF IInv, RequestsKnow
    <3>2. Running(p) => request[p].n # r.n
      BY <1>u, <2>3 DEF IInv, OneEach
    <3>3. At(p, "clear") => request[p].stale # d.id
      BY <1>u, <2>c DEF Fresh
    <3>4. request[p].at \in Early => Running(p)
      BY DEF Early, Running, At
    <3>5. request[p].at \in Early => Fresh(request[p].n)'
      BY <3>1, <3>2, <3>4, <2>2 DEF RequestKnows
    <3> QED
      BY <3>1, <3>3, <3>5, <2>c, <1>u DEF RequestKnows, Running, At, Op, Live, RowsOf, RecordsOf, Own, Kept, Holds, Expired
  <2>4. RequestKnows(q)'
    <3>1. Own(q, d)'
      BY <2>n, <2>c, <2>x, <1>u DEF Own, Req, Op, Expired
    <3>2. \A row \in log : row.id # r.n
      BY <1>u DEF Fresh
    <3> QED
      BY <2>n, <2>c, <1>a, <1>u, <3>1, <3>2 DEF RequestKnows, Req, Running, At, Early, Middle, Op, RowsOf
  <2>5. OneEach'
    BY <2>n, <1>a, <1>u DEF IInv, OneEach, Running, At, Req
  <2>6. IdsAreOld'
    BY <2>c, <1>u DEF IInv, IdsAreOld
  <2>7. OneRecordEach'
    BY <2>c, <2>x, <1>u DEF IInv, OneRecordEach, Fresh
  <2>8. ToldIsKept'
    <3>1. \A p \in Requests : Running(p)' => Running(p) /\ Op(p)' = Op(p) /\ request'[p].n = request[p].n
      BY <2>n, <1>u DEF Running, At, Op, Req
    <3>2. \A op, x : Stands(op, x) => Stands(op, x)'
      BY <2>c, <1>u, <3>1, StandsStill
    <3> QED
      BY <1>u, <3>1, <3>2 DEF IInv, ToldIsKept
  <2>9. AnswersAreInTheLog' /\ OneStory'
    BY <2>c, <1>u DEF IInv, AnswersAreInTheLog, OneStory, RowsOf
  <2> QED
    BY <2>1, <2>3, <2>4, <2>5, <2>6, <2>7, <2>8, <2>9 DEF IInv, RequestsKnow
<1> QED
  BY <1>i, <1>a DEF TakeRecord

(* The transaction appends a row with the request's own id. *)
LEMMA WriteKeeps == ASSUME IInv, NEW q \in Requests, Write(q) PROVE IInv'
<1> DEFINE r == request[q]
<1>t. TypeOK /\ r \in ReqSet /\ RequestKnows(q)
  BY DEF IInv, TypeOK, ReqSet, RequestsKnow
<1>u. /\ At(q, "write") /\ r.at \in Middle /\ UNCHANGED <<records, heard, now, sent, faults>>
      /\ Running(q) /\ Op(q) \in Operations /\ r.n \in 1..sent
      /\ Needs[Op(q)] # None => RowsOf(Needs[Op(q)]) # {}
      /\ \A row \in log : row.id # r.n
      /\ \E c \in records : Own(q, c)
  BY <1>t DEF Write, bounded, RequestKnows, Running, At, Middle
<1>f. faults' \in 0..MaxFaults /\ 0 \in 0..MaxSends
  BY <1>u, Numbers DEF IInv, TypeOK
<1>1. ASSUME Settles(q, "refused", 0), UNCHANGED log PROVE IInv'
  BY <1>1, <1>u, <1>f, SettleKeeps
<1>2. ASSUME Goes(q, "again"), UNCHANGED log PROVE IInv'
  BY <1>2, <1>u, GoKeeps
<1>3. ASSUME log' = log \cup {RowFor(q)}, Goes(q, "view") PROVE IInv'
  <2> DEFINE new == Req(r.op, r.n, "view", r.live, r.stale, r.answer)
  <2>m. Becomes(q, new)
    BY <1>3, <1>t, Moves
  <2>n. request'[q] = new /\ \A p \in Requests : p # q => request'[p] = request[p]
    BY <2>m, <1>t DEF Becomes, TypeOK
  <2>c. PICK row : /\ log' = log \cup {row} /\ row.id = r.n /\ row.fact = FactOf[Op(q)]
                   /\ row \in [id : 1..MaxSends, fact : Facts, by : Callers, on : 0..MaxDay]
    <3>1. RowFor(q) \in [id : 1..MaxSends, fact : Facts, by : Callers, on : 0..MaxDay]
      BY <1>t, <1>u, Numbers, IngestAssumption DEF RowFor, TypeOK
    <3> QED
      BY <1>3, <3>1 DEF RowFor
  <2>1. TypeOK'
    <3>1. new \in ReqSet
      BY <1>t DEF Req, ReqSet, Stages
    <3> QED
      BY <1>t, <1>u, <2>m, <2>c, <3>1 DEF TypeOK, ReqSet, Becomes
  <2>2. \A n : n # r.n /\ Fresh(n) => Fresh(n)'
    BY <2>n, <2>c, <1>u DEF Fresh, At, Req
  <2>3. ASSUME NEW p \in Requests, p # q PROVE RequestKnows(p)'
    <3>1. RequestKnows(p) /\ request'[p] = request[p]
      BY <2>n, <2>3 DEF IInv, RequestsKnow
    <3>2. Running(p) => request[p].n # r.n
      BY <1>u, <2>3 DEF IInv, OneEach
    <3>4. request[p].at \in Early \/ At(p, "lookup") \/ At(p, "write") => Running(p)
      BY DEF Early, Running, At
    <3>5. request[p].at \in Early => Fresh(request[p].n)'
      BY <3>1, <3>2, <3>4, <2>2 DEF RequestKnows
    <3>6. At(p, "lookup") \/ At(p, "write") => \A d \in log' : d.id # request[p].n
      BY <3>1, <3>2, <3>4, <2>c DEF RequestKnows
    <3> QED
      BY <3>1, <3>5, <3>6, <2>c, <1>u DEF RequestKnows, Running, At, Op, Live, RowsOf, RecordsOf, Own, Kept, Holds, Expired
  <2>4. RequestKnows(q)'
    BY <2>n, <2>c, <1>u DEF RequestKnows, Req, Running, At, Early, Middle, Op, RowsOf, Own, Expired
  <2>5. OneEach'
    BY <2>n, <1>u DEF IInv, OneEach, Running, At, Req
  <2>6. IdsAreOld'
    <3>1. IsFiniteSet(log')
      BY <2>c, FS_AddElement DEF IInv, IdsAreOld
    <3> QED
      BY <3>1, <2>c, <1>t, <1>u DEF IInv, IdsAreOld, TypeOK
  <2>7. OneRecordEach'
    BY <1>u DEF IInv, OneRecordEach
  <2>8. ToldIsKept'
    <3>1. \A p \in Requests : Running(p)' => Running(p) /\ Op(p)' = Op(p) /\ request'[p].n = request[p].n
      BY <2>n, <1>u DEF Running, At, Op, Req
    <3>2. \A op, x : Stands(op, x) => Stands(op, x)'
      BY <1>u, <3>1, StandsStill
    <3> QED
      BY <1>u, <3>1, <3>2 DEF IInv, ToldIsKept
  <2>9. AnswersAreInTheLog' /\ OneStory'
    BY <2>c, <1>u DEF IInv, AnswersAreInTheLog, OneStory, RowsOf
  <2> QED
    BY <2>1, <2>3, <2>4, <2>5, <2>6, <2>7, <2>8, <2>9 DEF IInv, RequestsKnow
<1> QED
  BY <1>1, <1>2, <1>3 DEF Write

(* A record that keeps an answer, field by field. *)
LEMMA CompletedRow ==
    ASSUME TypeOK, NEW r \in records, NEW v
    PROVE  [r EXCEPT !.answer = v] = [id |-> r.id, by |-> r.by, key |-> r.key, hash |-> r.hash,
                                      expires |-> r.expires, answer |-> v]
BY DEF TypeOK

(* The outcome completes or deletes the request's own record and no other. *)
LEMMA OutcomeKeeps ==
    ASSUME IInv, NEW q \in Requests, At(q, "outcome"), Goes(q, "flush"),
           UNCHANGED <<log, heard, now, sent, faults>>,
           \/ /\ records' = Completed(request[q].n, request[q].answer)
              /\ request[q].answer.verdict \in {"ok", "refused"}
           \/ /\ records' = Without(request[q].n) /\ request[q].answer.verdict # "ok"
           \/ records' = records /\ ~Live(q)
    PROVE  IInv'
<1> DEFINE r   == request[q]
           new == Req(r.op, r.n, "flush", r.live, r.stale, r.answer)
<1>t. TypeOK /\ r \in ReqSet /\ RequestKnows(q)
  BY DEF IInv, TypeOK, ReqSet, RequestsKnow
<1>u. /\ Running(q) /\ Op(q) \in Operations /\ r.n \in 1..sent
      /\ Needs[Op(q)] # None => RowsOf(Needs[Op(q)]) # {}
      /\ r.answer \in Answers /\ Holds(r.answer, FactOf[Op(q)])
  BY <1>t DEF RequestKnows, Running, At
<1>o. PICK own \in records : Own(q, own) /\ \A c \in records : c.id = r.n => c = own
  BY <1>t DEF RequestKnows, At, Middle, IInv, OneRecordEach, Own
<1>m. Becomes(q, new)
  BY <1>t, Moves
<1>n. request'[q] = new /\ \A p \in Requests : p # q => request'[p] = request[p]
  BY <1>m, <1>t DEF Becomes, TypeOK
<1>d. PICK done : done = [id |-> own.id, by |-> own.by, key |-> own.key, hash |-> own.hash,
                          expires |-> own.expires, answer |-> r.answer]
  OBVIOUS
<1>k. /\ \A c \in records : c # own => c \in records'
      /\ \A c \in records' : (c \in records) \/ (c = done /\ r.answer.verdict \in {"ok", "refused"} /\ own \notin records')
      /\ Live(q) /\ r.answer.verdict = "ok" => done \in records'
  <2>1. CASE records' = Completed(r.n, r.answer) /\ r.answer.verdict \in {"ok", "refused"}
    <3>1. [own EXCEPT !.answer = r.answer] = done
      BY <1>t, <1>o, <1>d, CompletedRow, Zenon
    <3>2. own.id = r.n /\ own.answer = None /\ r.answer # None
      BY <1>o, <1>u, IngestAssumption DEF Own
    <3>3. done # own
      BY <3>2, <1>d
    <3>4. \A c \in records : c # own => c.id # r.n
      BY <1>o
    <3>5. records' = {IF c = own THEN done ELSE c : c \in records}
      BY <2>1, <3>1, <3>2, <3>4 DEF Completed
    <3> QED
      BY <2>1, <3>3, <3>5
  <2>2. CASE records' = Without(r.n) /\ r.answer.verdict # "ok"
    BY <2>2, <1>o DEF Without
  <2>3. CASE records' = records /\ ~Live(q)
    BY <2>3
  <2> QED
    BY <2>1, <2>2, <2>3
<1>w. /\ own.answer = None /\ own.id = r.n /\ done.id = r.n /\ done.by = own.by /\ done.key = own.key
      /\ done.hash = own.hash /\ done.expires = own.expires /\ done.answer = r.answer
      /\ own.by = Caller[Op(q)] /\ own.key = Key[Op(q)] /\ own.hash = RequestHash(Op(q)) /\ ~Expired(own)
  BY <1>o, <1>d DEF Own
<1>y. \A op \in Operations : \A x \in Answers : Kept(op, x) => Kept(op, x)'
  <2> SUFFICES ASSUME NEW op \in Operations, NEW x \in Answers, Kept(op, x) PROVE Kept(op, x)'
    OBVIOUS
  <2>1. PICK c \in RecordsOf(op) : c.answer = x /\ ~Expired(c)
    BY DEF Kept
  <2>2. c # own
    BY <2>1, <1>w, IngestAssumption
  <2> QED
    BY <2>1, <2>2, <1>k DEF Kept, RecordsOf, Expired
<1>1. TypeOK'
  <2>1. new \in ReqSet
    BY <1>t DEF Req, ReqSet, Stages
  <2>2. records' \subseteq [id : 1..MaxSends, by : Callers, key : Keys, hash : {RequestHash(o) : o \in Operations},
                            expires : TTL..(MaxDay + TTL),
                            answer : {None} \cup {x \in Answers : x.verdict \in {"ok", "refused"}}]
    BY <1>t, <1>u, <1>d, <1>k DEF TypeOK
  <2> QED
    BY <1>t, <1>m, <2>1, <2>2 DEF TypeOK, ReqSet, Becomes
<1>2. \A n : Fresh(n) => Fresh(n)'
  BY <1>n, <1>k, <1>w DEF Fresh, At, Req
<1>3. ASSUME NEW p \in Requests, p # q PROVE RequestKnows(p)'
  <2>1. RequestKnows(p) /\ request'[p] = request[p] /\ (Running(p) => request[p].n # r.n /\ Op(p) \in Operations)
    BY <1>n, <1>u, <1>3 DEF IInv, RequestsKnow, OneEach, RequestKnows
  <2>2. request[p].at \in Middle => \E c \in records' : Own(p, c)
    BY <2>1, <1>k, <1>w DEF RequestKnows, Own, Middle, Running, At
  <2>3. At(p, "clear") => \A c \in records' : c.id = request[p].stale => Expired(c)
    BY <2>1, <1>k, <1>w DEF RequestKnows, Expired
  <2>4. At(p, "flush") /\ Live(p) /\ request[p].answer.verdict = "ok" => Kept(Op(p), request[p].answer)'
    BY <2>1, <1>y DEF RequestKnows, Running, At, Op
  <2> QED
    BY <2>1, <2>2, <2>3, <2>4, <1>2 DEF RequestKnows, Running, At, Op, Live, RowsOf, Own, Holds, Expired
<1>4. RequestKnows(q)'
  <2>1. Live(q) /\ r.answer.verdict = "ok" => Kept(Op(q), r.answer)'
    BY <1>n, <1>k, <1>w DEF Kept, RecordsOf, Expired, Op, Req
  <2> QED
    BY <1>n, <1>u, <2>1 DEF RequestKnows, Req, Running, At, Early, Middle, Op, Live, RowsOf, Holds
<1>5. OneEach' /\ IdsAreOld'
  BY <1>n, <1>u, <1>k, <1>w DEF IInv, OneEach, IdsAreOld, Running, At, Req
<1>6. OneRecordEach'
  BY <1>k, <1>w, <1>o DEF IInv, OneRecordEach
<1>7. ToldIsKept'
  <2>1. \A p \in Requests : Running(p)' => Running(p) /\ Op(p)' = Op(p) /\ request'[p].n = request[p].n
    BY <1>n, <1>u DEF Running, At, Op, Req
  <2>2. \A p \in Requests : Running(p) => Op(p) \in Operations /\ heard[Op(p)] \subseteq Answers
    BY <1>t DEF IInv, RequestsKnow, RequestKnows, TypeOK
  <2>3. \A c \in records : Left(c) => c \in records' /\ Left(c)'
    BY <2>1, <1>k, <1>w, <1>u DEF Left, Expired
  <2>4. \A op : (\E c \in RecordsOf(op) : Left(c)) => (\E c \in RecordsOf(op) : Left(c))'
    BY <2>3 DEF RecordsOf
  <2>5. \A op \in Operations : \A x \in Answers : Stands(op, x) => Stands(op, x)'
    BY <2>4, <1>y DEF Stands
  <2> QED
    BY <2>1, <2>2, <2>5 DEF IInv, ToldIsKept
<1>8. AnswersAreInTheLog' /\ OneStory'
  <2>1. done.answer.verdict = "ok" => \E row \in RowsOf(done.hash[2]) : row.id = done.answer.row
    BY <1>u, <1>w DEF Holds, RequestHash
  <2>2. \A c \in records' : c.answer # None =>
          (c.answer.verdict = "ok" => \E row \in RowsOf(c.hash[2]) : row.id = c.answer.row)
    BY <2>1, <1>k DEF IInv, AnswersAreInTheLog
  <2> QED
    BY <2>2 DEF IInv, AnswersAreInTheLog, OneStory, RowsOf
<1> QED
  BY <1>1, <1>3, <1>4, <1>5, <1>6, <1>7, <1>8 DEF IInv, RequestsKnow

(* Both variants of the outcome are of that form. *)
LEMMA RecordKeeps ==
    ASSUME IInv, NEW q \in Requests, RecordOutcome(q) \/ RecordOwnOutcome(q)
    PROVE  IInv'
<1>1. /\ At(q, "outcome") /\ Goes(q, "flush") /\ UNCHANGED <<log, heard, now, sent, faults>>
      /\ request[q].answer.verdict \in {"ok", "refused", "failed"}
  BY DEF RecordOutcome, RecordOwnOutcome, bounded, IInv, RequestsKnow, RequestKnows
<1>2. RecordOutcome(q) =>
        \/ records' = Without(request[q].n) /\ request[q].answer.verdict = "failed"
        \/ records' = Completed(request[q].n, request[q].answer) /\ request[q].answer.verdict # "failed"
  BY DEF RecordOutcome
<1>3. RecordOwnOutcome(q) =>
        \/ records' = records /\ ~Live(q)
        \/ records' = Completed(request[q].n, request[q].answer) /\ request[q].answer.verdict = "ok"
        \/ records' = Without(request[q].n) /\ request[q].answer.verdict # "ok"
  BY DEF RecordOwnOutcome
<1> QED
  BY <1>1, <1>2, <1>3, OutcomeKeeps

(* What a client hears of an operation is what its record holds. *)
LEMMA FlushKeeps == ASSUME IInv, NEW q \in Requests, Flush(q) PROVE IInv'
<1> DEFINE x == request[q].answer
           o == Op(q)
<1>t. TypeOK /\ RequestKnows(q)
  BY DEF IInv, RequestsKnow
<1>u. /\ o \in Operations /\ x \in Answers /\ Holds(x, FactOf[o]) /\ Running(q)
      /\ Live(q) /\ x.verdict = "ok" => Kept(o, x) \/ \E own \in records : Own(q, own)
      /\ request' = [request EXCEPT ![q] = Idle]
      /\ UNCHANGED <<log, records, now, sent, faults>>
  BY <1>t DEF Flush, bounded, RequestKnows, Running, At, Middle
<1>1. CASE ~Live(q)
  <2>1. heard' = heard /\ faults' \in 0..MaxFaults
    BY <1>1, <1>t DEF Flush, bounded, TypeOK
  <2> QED
    BY <2>1, <1>u, EndKeeps
<1>2. CASE Live(q)
  <2>n. request'[q] = Idle /\ \A p \in Requests : p # q => request'[p] = request[p]
    BY <1>u, <1>t DEF TypeOK
  <2>h. /\ heard'[o] = heard[o] \cup {x} /\ \A p \in Operations : p # o => heard'[p] = heard[p]
        /\ heard' \in [Operations -> SUBSET Answers]
    BY <1>2, <1>t, <1>u DEF Flush, TypeOK
  <2>s. \A y \in heard[o] : x.verdict = "ok" /\ y.verdict = "ok" => x = y
    <3>1. \A y \in heard[o] : y.verdict = "ok" => y \in Answers /\ Stands(o, y)
      BY <1>t, <1>u DEF IInv, ToldIsKept, TypeOK
    <3>2. \A c, d \in RecordsOf(o) : c = d
      BY DEF RecordsOf, IInv, OneRecordEach
    <3>3. \A y \in Answers : y # None
      BY IngestAssumption
    <3>4. \A own \in records : Own(q, own) => own \in RecordsOf(o) /\ own.answer = None /\ ~Left(own)
      BY <1>u DEF Own, RecordsOf, Left
    <3>5. CASE Kept(o, x)
      BY <3>1, <3>2, <3>3, <3>5, <1>u DEF Kept, Stands, Left
    <3>6. CASE \E own \in records : Own(q, own)
      BY <3>1, <3>2, <3>3, <3>4, <3>6 DEF Kept, Stands
    <3> QED
      BY <3>5, <3>6, <1>u, <1>2
  <2>1. TypeOK'
    <3>1. Idle \in ReqSet
      BY Numbers DEF Idle, ReqSet, Stages
    <3> QED
      BY <1>t, <1>u, <2>h, <3>1 DEF TypeOK, ReqSet
  <2>2. \A n : Fresh(n) => Fresh(n)'
    BY <2>n, <1>u DEF Fresh, At, Idle
  <2>3. RequestsKnow'
    <3>1. ASSUME NEW p \in Requests, p # q PROVE RequestKnows(p)'
      <4>1. RequestKnows(p) /\ request'[p] = request[p]
        BY <2>n, <3>1 DEF IInv, RequestsKnow
      <4> QED
        BY <4>1, <2>2, <1>u DEF RequestKnows, Running, At, Op, Live, RowsOf, RecordsOf, Own, Kept, Holds, Expired
    <3>2. RequestKnows(q)'
      BY <2>n DEF RequestKnows, Running, At, Early, Middle, Idle
    <3> QED
      BY <3>1, <3>2 DEF RequestsKnow
  <2>4. OneEach' /\ IdsAreOld' /\ OneRecordEach'
    BY <2>n, <1>u DEF IInv, OneEach, IdsAreOld, OneRecordEach, Running, At, Idle
  <2>5. ToldIsKept'
    <3>1. ASSUME NEW p \in Requests, Running(p)' PROVE Running(p) /\ Op(p)' = Op(p) /\ Op(p) \in Operations
      BY <2>n, <3>1 DEF Running, At, Op, Idle, IInv, RequestsKnow, RequestKnows
    <3>2. \A op, y : Stands(op, y) => Stands(op, y)'
      <4>1. \A p \in Requests : Running(p)' => Running(p) /\ request'[p].n = request[p].n
        BY <2>n DEF Running, At, Idle
      <4> QED
        BY <1>u, <4>1, StandsStill
    <3>3. PICK op, y : op = o /\ y = x
      OBVIOUS
    <3>4. y.verdict = "ok" => Stands(op, y)'
      <4>1. CASE Kept(op, y)
        BY <3>2, <4>1 DEF Stands
      <4>2. ASSUME NEW own \in records, Own(q, own) PROVE Stands(op, y)'
        <5>1. \A p \in Requests : Running(p)' => p # q /\ Running(p) /\ request'[p].n = request[p].n
          BY <2>n DEF Running, At, Idle
        <5>2. \A p \in Requests : Running(p)' => request'[p].n # own.id
          BY <5>1, <4>2, <1>u DEF IInv, OneEach, Own
        <5>3. own \in RecordsOf(op)'
          BY <3>3, <4>2, <1>u DEF Own, RecordsOf
        <5>4. own.answer = None /\ ~Expired(own)'
          BY <4>2, <1>u DEF Own, Expired
        <5> QED
          BY <5>2, <5>3, <5>4 DEF Stands, Left
      <4> QED
        BY <3>3, <4>1, <4>2, <1>u, <1>2
    <3>5. /\ heard'[op] = heard[op] \cup {y} /\ \A p \in Operations : p # op => heard'[p] = heard[p]
          /\ op \in Operations
      BY <3>3, <2>h, <1>u
    <3> QED
      BY <3>1, <3>2, <3>4, <3>5 DEF IInv, ToldIsKept
  <2>6. AnswersAreInTheLog'
    BY <2>h, <1>u DEF IInv, AnswersAreInTheLog, Holds, RowsOf
  <2>7. OneStory'
    BY <2>h, <2>s DEF IInv, OneStory
  <2> QED
    BY <2>1, <2>3, <2>4, <2>5, <2>6, <2>7 DEF IInv
<1> QED
  BY <1>1, <1>2

(* The clock moves when no request is in the server. *)
LEMMA TickKeeps == ASSUME IInv, Tick PROVE IInv'
<1>1. /\ \A q \in Requests : request[q] = Idle
      /\ now' \in 0..MaxDay /\ UNCHANGED <<log, records, request, heard, sent, faults>>
  BY Numbers DEF Tick, bounded, IInv, TypeOK
<1>2. TypeOK'
  BY <1>1 DEF IInv, TypeOK
<1>a. Idle.at = "idle"
  BY DEF Idle
<1>i. \A q \in Requests : request'[q] = Idle /\ request'[q].at = "idle" /\ ~Running(q)'
  BY <1>1, <1>a DEF Running, At
<1>3. RequestsKnow'
  BY <1>i DEF RequestsKnow, RequestKnows, At, Early, Middle
<1>5. OneEach' /\ ToldIsKept'
  BY <1>i DEF OneEach, ToldIsKept
<1>4. IdsAreOld' /\ OneRecordEach' /\ AnswersAreInTheLog' /\ OneStory'
  BY <1>1 DEF IInv, IdsAreOld, OneRecordEach, AnswersAreInTheLog, OneStory, RowsOf
<1> QED
  BY <1>2, <1>3, <1>4, <1>5 DEF IInv

-----------------------------------------------------------------------------
(* An empty server, and a step that changes nothing. *)
LEMMA InitEstablishes == Init => IInv
<1> SUFFICES ASSUME Init PROVE IInv
  OBVIOUS
<1>1. \A q \in Requests : request[q] = Idle /\ request[q].at = "idle" /\ ~Running(q)
  BY DEF Init, Running, At, Idle
<1>2. TypeOK
  <2>1. Idle \in ReqSet
    BY Numbers DEF Idle, ReqSet, Stages
  <2> QED
    BY <2>1, Numbers DEF Init, TypeOK, ReqSet
<1>3. RequestsKnow
  BY <1>1 DEF RequestsKnow, RequestKnows, At, Early, Middle
<1>4. OneEach /\ ToldIsKept
  BY <1>1 DEF OneEach, ToldIsKept
<1>5. IdsAreOld /\ OneRecordEach
  BY FS_EmptySet DEF Init, IdsAreOld, OneRecordEach
<1>6. AnswersAreInTheLog /\ OneStory
  BY DEF Init, AnswersAreInTheLog, OneStory
<1> QED
  BY <1>2, <1>3, <1>4, <1>5, <1>6 DEF IInv

(* A step that changes nothing. *)
LEMMA StutterKeeps == IInv /\ UNCHANGED vars => IInv'
<1> SUFFICES ASSUME IInv, UNCHANGED vars PROVE IInv'
  OBVIOUS
<1>u. UNCHANGED <<log, records, request, heard, now, sent, faults>>
  BY DEF vars, bounded
<1>1. TypeOK' /\ IdsAreOld' /\ OneRecordEach' /\ AnswersAreInTheLog' /\ OneStory'
  BY <1>u DEF IInv, TypeOK, IdsAreOld, OneRecordEach, AnswersAreInTheLog, OneStory, RowsOf
<1>2. \A n : Fresh(n) => Fresh(n)'
  BY <1>u DEF Fresh, At
<1>3. RequestsKnow'
  BY <1>u, <1>2, FewerKnow DEF IInv, RequestsKnow
<1>4. OneEach' /\ ToldIsKept'
  BY <1>u DEF IInv, OneEach, ToldIsKept, Running, At, Op, Stands, Left, Kept, RecordsOf, Expired
<1> QED
  BY <1>1, <1>3, <1>4 DEF IInv

(* Every stage of every request, its failures, the clock and the sweep. *)
LEMMA StepKeeps == IInv /\ [Next]_vars => IInv'
<1> SUFFICES ASSUME IInv, [Next]_vars PROVE IInv'
  OBVIOUS
<1>1. ASSUME NEW q \in Requests, NEW op \in Operations, Send(q, op) PROVE IInv'
  BY <1>1, SendKeeps
<1>2. ASSUME NEW q \in Requests, ReadRecord(q) \/ ClearExpired(q) \/ TakeRecord(q) PROVE IInv'
  BY <1>2, ReadKeeps, ClearExpiredKeeps, TakeKeeps
<1>3. ASSUME NEW q \in Requests, Handle(q) PROVE IInv'
  BY <1>3, LookupKeeps, WriteKeeps, ReadBackKeeps, ViewKeeps DEF Handle
<1>4. ASSUME NEW q \in Requests, RecordOutcome(q) \/ RecordOwnOutcome(q) \/ LoseOutcome(q) \/ Flush(q) PROVE IInv'
  BY <1>4, RecordKeeps, LoseKeeps, FlushKeeps
<1>5. ASSUME NEW q \in Requests, Busy(q) \/ GiveUp(q) \/ HangUp(q) \/ Stop(q) PROVE IInv'
  BY <1>5, BusyKeeps, GiveUpKeeps, HangUpKeeps, StopKeeps
<1>6. Tick \/ Sweep => IInv'
  BY TickKeeps, SweepKeeps
<1> QED
  BY <1>1, <1>2, <1>3, <1>4, <1>5, <1>6, StutterKeeps DEF Next, Serve

(* The records, the log and the requests of idempotency.go and tod.go satisfy
   the inductive invariant in every reachable state.                       *)
THEOREM Inductive == Spec => []IInv
BY InitEstablishes, StepKeeps, PTL DEF Spec

(* Rows, records, requests and answers keep their types; a record holds only
   what a handler settled.                                                 *)
THEOREM TypeCorrect == Spec => []TypeOK
<1>1. IInv => TypeOK
  BY DEF IInv
<1> QED
  BY <1>1, Inductive, PTL

(* idempotency.go, tod.go: a success that was told names a row of the log that
   says what was asked, and a client is told of one row only, for any number
   of requests, keys shared between operations, hang-ups and stops.        *)
THEOREM AnswersHold == Spec => []AnswersStand
<1>1. IInv => AnswersStand
  BY DEF IInv, AnswersStand
<1> QED
  BY <1>1, Inductive, PTL

(* withIdempotencyCapture, recordOutcome, runIdempotentHandler: when a client
   hears of a success its record holds that answer, or is the request's own,
   left in flight because its outcome could not be written.                *)
THEOREM RecordComesFirst == Spec => RecordedBeforeTold
<1>1. ASSUME IInv, [Next]_vars, NEW o \in Operations, NEW x \in heard'[o] \ heard[o], x.verdict = "ok"
      PROVE  \E r \in RecordsOf(o) :
               \/ r.answer = x
               \/ /\ r.answer = None
                  /\ \E q \in Requests : At(q, "unrecorded") /\ request'[q] = Idle /\ r.id = request[q].n
  <2>1. PICK q \in Requests : Flush(q)
    <3>1. heard' # heard
      BY <1>1
    <3> QED
      BY <1>1, <3>1 DEF Next, vars, bounded, Serve, Handle, Send, ReadRecord, ClearExpired, TakeRecord, LookupKill,
         LookupOriginal, Write, Busy, ReadBack, View, RecordOutcome, RecordOwnOutcome, LoseOutcome, HangUp,
         GiveUp, Stop, Tick, Sweep
  <2>2. RequestKnows(q)
    BY <1>1, <2>1 DEF IInv, RequestsKnow
  <2>3. Live(q) /\ x = request[q].answer /\ o = Op(q) /\ request'[q] = Idle
    BY <1>1, <2>1 DEF Flush, IInv, TypeOK
  <2>4. CASE At(q, "flush")
    BY <1>1, <2>2, <2>3, <2>4 DEF RequestKnows, Kept
  <2>5. CASE At(q, "unrecorded")
    <3>1. PICK own \in records : Own(q, own)
      BY <2>2, <2>5 DEF RequestKnows, At, Middle
    <3> QED
      BY <2>3, <2>5, <3>1 DEF Own, RecordsOf
  <2> QED
    BY <2>1, <2>4, <2>5 DEF Flush
<1>2. IInv /\ [Next]_vars =>
        [\A o \in Operations : \A x \in heard'[o] \ heard[o] : x.verdict = "ok" =>
           \E r \in RecordsOf(o) :
             \/ r.answer = x
             \/ /\ r.answer = None
                /\ \E q \in Requests : At(q, "unrecorded") /\ request'[q] = Idle /\ r.id = request[q].n]_vars
  BY <1>1
<1> QED
  BY <1>2, Inductive, PTL DEF Spec, RecordedBeforeTold

-----------------------------------------------------------------------------
(* What the promise sees of the server. *)
Rows       == [f \in Facts |-> Cardinality(RowsOf(f))]
Remembered == {o \in Operations : RecordsOf(o) # {}}
Acted      == {o \in Operations : \E r \in RecordsOf(o) : \E row \in log : row.id = r.id}
Told       == {o \in Operations : \E x \in heard[o] : x.verdict = "ok"}

Sees == <<Rows, Remembered, Acted, Told>>

PromisedStep == Promise!Next \/ UNCHANGED Promise!logVars

(* The steps of the promise, in those words. *)
LEMMA Stutters == UNCHANGED Sees => PromisedStep
BY DEF Sees, PromisedStep, Rows, Remembered, Acted, Told, Promise!logVars

(* ReportLog!Remember: a key is taken. *)
LEMMA Remembers ==
    ASSUME Remembered \subseteq Remembered', Remembered # Remembered', UNCHANGED <<Rows, Acted, Told>>
    PROVE  PromisedStep
BY DEF PromisedStep, Rows, Remembered, Acted, Told, Promise!Next, Promise!Remember

(* ReportLog!Forget: keys are let go. *)
LEMMA Forgets ==
    ASSUME Remembered' \subseteq Remembered, Remembered # Remembered',
           Acted' = Acted \cap Remembered', UNCHANGED <<Rows, Told>>
    PROVE  PromisedStep
BY DEF PromisedStep, Rows, Remembered, Acted, Told, Promise!Next, Promise!Forget

(* ReportLog!Act: a row is appended for an operation not acted on. *)
LEMMA Acts ==
    ASSUME NEW op \in Remembered \ Acted,
           FactOf[op] \in Keyed => Rows[FactOf[op]] = 0,
           Needs[op] # None => Rows[Needs[op]] > 0,
           Rows' = [Rows EXCEPT ![FactOf[op]] = @ + 1],
           Acted \cup {op} \subseteq Acted', Acted' \subseteq Remembered,
           UNCHANGED <<Remembered, Told>>
    PROVE  PromisedStep
BY DEF PromisedStep, Rows, Remembered, Acted, Told, Promise!Next, Promise!Act

(* ReportLog!Tell: a client hears of a success. *)
LEMMA Tells ==
    ASSUME NEW op \in Operations \ Told, Told' = Told \cup {op}, Rows[FactOf[op]] > 0,
           UNCHANGED <<Rows, Remembered, Acted>>
    PROVE  PromisedStep
BY DEF PromisedStep, Rows, Remembered, Acted, Told, Promise!Next, Promise!Tell

-----------------------------------------------------------------------------
(* A fact with a row is counted, one without is not. *)
LEMMA Counted ==
    ASSUME IInv, NEW f \in Facts
    PROVE  /\ Rows[f] \in Nat /\ IsFiniteSet(RowsOf(f))
           /\ RowsOf(f) = {} <=> Rows[f] = 0
           /\ RowsOf(f) # {} <=> Rows[f] > 0
<1>1. IsFiniteSet(RowsOf(f))
  BY FS_Subset DEF IInv, IdsAreOld, RowsOf
<1>2. Rows[f] = Cardinality(RowsOf(f)) /\ Cardinality(RowsOf(f)) \in Nat
  BY <1>1, FS_CardinalityType DEF Rows
<1> QED
  BY <1>1, <1>2, FS_EmptySet

(* A step that touches no table and tells nobody is no step of the promise. *)
LEMMA QuietStep == ASSUME UNCHANGED <<log, records, heard>> PROVE PromisedStep
<1>1. \A f \in Facts : RowsOf(f)' = RowsOf(f)
  BY DEF RowsOf
<1>2. \A o \in Operations : RecordsOf(o)' = RecordsOf(o)
  BY DEF RecordsOf
<1> QED
  BY <1>1, <1>2, Stutters DEF Sees, Rows, Remembered, Acted, Told

(* Deleting records forgets their keys, and what was done under them. *)
LEMMA Deleting ==
    ASSUME IInv, records' \subseteq records, UNCHANGED <<log, heard>>
    PROVE  PromisedStep
<1>1. UNCHANGED <<Rows, Told>>
  <2>1. \A f \in Facts : RowsOf(f)' = RowsOf(f)
    BY DEF RowsOf
  <2> QED
    BY <2>1 DEF Rows, Told
<1>2. Remembered' \subseteq Remembered
  BY DEF Remembered, RecordsOf
<1>3. Acted' = Acted \cap Remembered'
  <2>1. \A o \in Operations : RecordsOf(o)' \subseteq RecordsOf(o)
    BY DEF RecordsOf
  <2>2. \A o \in Operations : \A r, s \in RecordsOf(o) : r = s
    BY DEF RecordsOf, IInv, OneRecordEach
  <2> QED
    BY <2>1, <2>2 DEF Acted, Remembered
<1>4. Acted \subseteq Remembered
  BY DEF Acted, Remembered
<1> QED
  BY <1>1, <1>2, <1>3, <1>4, Forgets, Stutters DEF Sees

(* Storing an answer leaves the key and the id of every record. *)
LEMMA Completing ==
    ASSUME IInv, NEW n, NEW x, records' = Completed(n, x), UNCHANGED <<log, heard>>
    PROVE  PromisedStep
<1> DEFINE done(r) == IF r.id = n /\ r.answer = None THEN [r EXCEPT !.answer = x] ELSE r
<1>1. \A r \in records : done(r).id = r.id /\ done(r).by = r.by /\ done(r).key = r.key
  <2> SUFFICES ASSUME NEW r \in records
               PROVE  done(r).id = r.id /\ done(r).by = r.by /\ done(r).key = r.key
    OBVIOUS
  <2>1. [r EXCEPT !.answer = x] = [id |-> r.id, by |-> r.by, key |-> r.key, hash |-> r.hash,
                                   expires |-> r.expires, answer |-> x]
    BY CompletedRow DEF IInv
  <2> QED
    BY <2>1
<1>2. records' = {done(r) : r \in records}
  BY DEF Completed
<1> HIDE DEF done
<1>3. \A o \in Operations : RecordsOf(o)' = {done(r) : r \in RecordsOf(o)}
  BY <1>1, <1>2 DEF RecordsOf
<1>4. UNCHANGED <<Remembered, Acted>>
  BY <1>1, <1>3 DEF Remembered, Acted, RecordsOf
<1>5. UNCHANGED <<Rows, Told>>
  <2>1. \A f \in Facts : RowsOf(f)' = RowsOf(f)
    BY DEF RowsOf
  <2> QED
    BY <2>1 DEF Rows, Told
<1> QED
  BY <1>4, <1>5, Stutters DEF Sees

(* Taking a free key remembers it; the new record's id has no row yet. *)
LEMMA Taking == ASSUME IInv, NEW q \in Requests, TakeRecord(q) PROVE PromisedStep
<1>1. CASE UNCHANGED records
  BY <1>1, QuietStep DEF TakeRecord
<1>2. CASE RecordsOf(Op(q)) = {} /\ records' = records \cup {RecordFor(q)}
  <2>u. UNCHANGED <<log, heard>> /\ Op(q) \in Operations /\ Fresh(request[q].n)
    BY DEF TakeRecord, IInv, RequestsKnow, RequestKnows, Running, At, Early
  <2>d. PICK d : d = RecordFor(q)
    OBVIOUS
  <2>c. d.id = request[q].n /\ d.by = Caller[Op(q)] /\ d.key = Key[Op(q)]
    BY <2>d DEF RecordFor
  <2>1. \A o \in Operations : \A r : r \in RecordsOf(o)' <=>
          r \in RecordsOf(o) \/ (r = d /\ d.by = Caller[o] /\ d.key = Key[o])
    BY <1>2, <2>d DEF RecordsOf
  <2>2. Op(q) \in Remembered' /\ Op(q) \notin Remembered /\ Remembered \subseteq Remembered'
    BY <1>2, <2>1, <2>c, <2>u DEF Remembered
  <2>3. \A row \in log : row.id # d.id
    BY <2>u, <2>c DEF Fresh
  <2>4. Acted' = Acted
    BY <2>1, <2>3, <2>u DEF Acted
  <2>5. UNCHANGED <<Rows, Told>>
    <3>1. \A f \in Facts : RowsOf(f)' = RowsOf(f)
      BY <2>u DEF RowsOf
    <3> QED
      BY <3>1, <2>u DEF Rows, Told
  <2> QED
    BY <2>2, <2>4, <2>5, Remembers
<1> QED
  BY <1>1, <1>2 DEF TakeRecord

(* The transaction acts on the operation whose record the request holds. *)
LEMMA Writing == ASSUME IInv, NEW q \in Requests, Write(q) PROVE PromisedStep
<1> DEFINE op  == Op(q)
           row == RowFor(q)
<1>1. CASE UNCHANGED log
  BY <1>1, QuietStep DEF Write
<1>2. CASE log' = log \cup {row} /\ ~(FactOf[op] \in Keyed /\ RowsOf(FactOf[op]) # {})
  <2>u. /\ UNCHANGED <<records, heard>> /\ op \in Operations
        /\ Needs[op] # None => RowsOf(Needs[op]) # {}
        /\ \A s \in log : s.id # request[q].n
    BY DEF Write, IInv, RequestsKnow, RequestKnows, Running, At
  <2>f. FactOf[op] \in Facts /\ (Needs[op] # None => Needs[op] \in Facts)
    BY <2>u, IngestAssumption
  <2>o. PICK c \in records : Own(q, c)
    BY DEF Write, IInv, RequestsKnow, RequestKnows, At, Middle
  <2>r. row.id = request[q].n /\ row.fact = FactOf[op] /\ row \notin log
    BY <2>u DEF RowFor
  <2> HIDE DEF row
  <2>k. \A o \in Operations : RecordsOf(o)' = RecordsOf(o)
    BY <2>u DEF RecordsOf
  <2>1. UNCHANGED <<Remembered, Told>>
    BY <2>k, <2>u DEF Remembered, Told
  <2>2. c \in RecordsOf(op) /\ c.id = request[q].n /\ \A r \in RecordsOf(op) : r = c
    BY <2>o DEF RecordsOf, Own, IInv, OneRecordEach
  <2>3. op \in Remembered \ Acted
    BY <2>2, <2>u DEF Remembered, Acted
  <2>4. Acted \cup {op} \subseteq Acted' /\ Acted' \subseteq Remembered
    BY <1>2, <2>2, <2>k, <2>r, <2>u DEF Acted, Remembered
  <2>5. Rows' = [Rows EXCEPT ![FactOf[op]] = @ + 1]
    <3>0. PICK f \in Facts : f = FactOf[op]
      BY <2>f
    <3>1. \A g \in Facts : g # f => RowsOf(g)' = RowsOf(g)
      BY <3>0, <1>2, <2>r DEF RowsOf
    <3>2. RowsOf(f)' = RowsOf(f) \cup {row} /\ row \notin RowsOf(f)
      BY <3>0, <1>2, <2>r DEF RowsOf
    <3>3. Cardinality(RowsOf(f)') = Cardinality(RowsOf(f)) + 1
      <4>1. IsFiniteSet(RowsOf(f))
        BY Counted
      <4>2. Cardinality(RowsOf(f) \cup {row}) = IF row \in RowsOf(f) THEN Cardinality(RowsOf(f)) ELSE Cardinality(RowsOf(f)) + 1
        BY <4>1, FS_AddElement
      <4> QED
        BY <3>2, <4>2
    <3> QED
      BY <3>0, <3>1, <3>3 DEF Rows
  <2>6. FactOf[op] \in Keyed => Rows[FactOf[op]] = 0
    BY <1>2, <2>f, Counted
  <2>7. Needs[op] # None => Rows[Needs[op]] > 0
    BY <2>u, <2>f, Counted
  <2> QED
    BY <2>1, <2>3, <2>4, <2>5, <2>6, <2>7, Acts
<1> QED
  BY <1>1, <1>2 DEF Write

(* An answer that reaches the client tells it of a row that is there. *)
LEMMA Flushing == ASSUME IInv, NEW q \in Requests, Flush(q) PROVE PromisedStep
<1> DEFINE o == Op(q)
           x == request[q].answer
<1>u. /\ UNCHANGED <<log, records>> /\ o \in Operations /\ x \in Answers
      /\ x.verdict = "ok" => RowsOf(FactOf[o]) # {}
  BY DEF Flush, IInv, RequestsKnow, RequestKnows, Running, At, Holds
<1>1. CASE heard' = heard
  BY <1>1, <1>u, QuietStep
<1>2. CASE heard' = [heard EXCEPT ![o] = @ \cup {x}]
  <2>h. /\ heard'[o] = heard[o] \cup {x}
        /\ \A p \in Operations : p # o => heard'[p] = heard[p]
    BY <1>2, <1>u DEF IInv, TypeOK
  <2>k. UNCHANGED <<Rows, Remembered, Acted>>
    <3>1. \A f \in Facts : RowsOf(f)' = RowsOf(f)
      BY <1>u DEF RowsOf
    <3>2. \A p \in Operations : RecordsOf(p)' = RecordsOf(p)
      BY <1>u DEF RecordsOf
    <3> QED
      BY <3>1, <3>2, <1>u DEF Rows, Remembered, Acted
  <2>1. CASE x.verdict = "ok" /\ o \notin Told
    <3>1. Told' = Told \cup {o}
      BY <2>1, <2>h, <1>u DEF Told
    <3>2. Rows[FactOf[o]] > 0
      BY <2>1, <1>u, Counted, IngestAssumption
    <3> QED
      BY <2>1, <2>k, <3>1, <3>2, <1>u, Tells
  <2>2. CASE x.verdict # "ok" \/ o \in Told
    <3>1. Told' = Told
      BY <2>2, <2>h, <1>u DEF Told
    <3> QED
      BY <2>k, <3>1, Stutters DEF Sees
  <2> QED
    BY <2>1, <2>2
<1> QED
  BY <1>1, <1>2 DEF Flush

(* An empty server promises nothing yet. *)
LEMMA PromiseStarts == Init => Promise!Init
<1> SUFFICES ASSUME Init PROVE Promise!Init
  OBVIOUS
<1>1. \A f \in Facts : Cardinality(RowsOf(f)) = 0
  BY FS_EmptySet DEF Init, RowsOf
<1>2. \A o \in Operations : RecordsOf(o) = {} /\ heard[o] = {}
  BY DEF Init, RecordsOf
<1> QED
  BY <1>1, <1>2 DEF Promise!Init

(* Every step of the server, one by one. *)
LEMMA PromiseSteps == ASSUME IInv, [Next]_vars PROVE PromisedStep
<1>1. ASSUME NEW q \in Requests, NEW op \in Operations, Send(q, op) PROVE PromisedStep
  BY <1>1, QuietStep DEF Send
<1>2. ASSUME NEW q \in Requests, ReadRecord(q) \/ Busy(q) \/ GiveUp(q) \/ HangUp(q) \/ Stop(q) PROVE PromisedStep
  BY <1>2, QuietStep DEF ReadRecord, Busy, GiveUp, HangUp, Stop
<1>3. ASSUME NEW q \in Requests, LookupKill(q) \/ LookupOriginal(q) \/ ReadBack(q) \/ View(q) \/ LoseOutcome(q)
      PROVE  PromisedStep
  BY <1>3, QuietStep DEF LookupKill, LookupOriginal, ReadBack, View, LoseOutcome
<1>4. ASSUME NEW q \in Requests, RecordOutcome(q) \/ RecordOwnOutcome(q) PROVE PromisedStep
  <2>1. UNCHANGED <<log, heard>>
    BY <1>4 DEF RecordOutcome, RecordOwnOutcome
  <2>2. records' \subseteq records \/ records' = Completed(request[q].n, request[q].answer)
    BY <1>4 DEF RecordOutcome, RecordOwnOutcome, Without
  <2> QED
    BY <2>1, <2>2, Deleting, Completing
<1>5. ASSUME NEW q \in Requests, ClearExpired(q) PROVE PromisedStep
  BY <1>5, Deleting DEF ClearExpired
<1>6. Tick => PromisedStep
  BY QuietStep DEF Tick
<1>7. Sweep => PromisedStep
  BY Deleting DEF Sweep
<1>8. UNCHANGED vars => PromisedStep
  BY QuietStep DEF vars
<1> QED
  BY <1>1, <1>2, <1>3, <1>4, <1>5, <1>6, <1>7, <1>8, Taking, Writing, Flushing DEF Next, Serve, Handle

(* What the write API promises a client that retries (nparse-plus-integration.md
   section 6): while a key is remembered its operation is acted on at most once,
   a fact under a unique index is in the log once, a retraction finds its kill,
   and nobody is told of a row before it is there.  idempotency.go and tod.go
   keep it whatever requests share a key, hang up or stop half-way.         *)
THEOREM Implements == Spec => KeepsItsPromise
<1>1. Init => Promise!Init
  BY PromiseStarts
<1>2. IInv /\ [Next]_vars => [Promise!Next]_(Promise!logVars)
  BY PromiseSteps DEF PromisedStep
<1> QED
  BY <1>1, <1>2, Inductive, PTL DEF Spec, KeepsItsPromise, Promise!Spec

-----------------------------------------------------------------------------
(* The other door.  Either way in runs as its own specification says, so that
   what Ingest and Discord promise they promise beside each other.          *)
BotProofs == INSTANCE DiscordProofs WITH
    People <- {"carol"}, Joined <- [c \in Circles |-> [p \in {"carol"} |-> "officer"]], Nobody <- None,
    now <- clock

(* The requests of the API run as Ingest says. *)
LEMMA RequestsRun == Either => Spec
<1>1. EitherInit => Init
  BY DEF EitherInit
<1>2. [EitherNext]_<<vars, botVars, door>> => [Next]_vars
  BY DEF EitherNext
<1> QED
  BY <1>1, <1>2, PTL DEF Either, Spec

(* The same of the commands. *)
LEMMA CommandsRun == Either => Bot!Spec
<1>1. EitherInit => Bot!Init
  BY DEF EitherInit
<1>2. [EitherNext]_<<vars, botVars, door>> => [Bot!Next]_(Bot!vars)
  BY DEF EitherNext, botVars, Bot!vars, Bot!circles
<1> QED
  BY <1>1, <1>2, PTL DEF Either, Bot!Spec

(* Discord here is the Discord that DiscordProofs is about. *)
LEMMA BotIsBot == Bot!Spec => BotProofs!Spec
<1>1. Bot!Init => BotProofs!Init
  BY DEF Bot!Init, Bot!NotSent, Bot!Idle, Bot!Undecided, Bot!Unbound,
    Bot!NoRequest, Bot!Presses, BotProofs!Init, BotProofs!NotSent,
    BotProofs!Idle, BotProofs!Undecided, BotProofs!Unbound,
    BotProofs!NoRequest, BotProofs!Presses
<1>2. [Bot!Next]_(Bot!vars) => [BotProofs!Next]_(BotProofs!vars)
  BY DEF Bot!Next, Bot!vars, Bot!circles, Bot!Command, Bot!Press, Bot!Fresh,
    Bot!Deliver, Bot!Resolve, Bot!May, Bot!Admit, Bot!ReplyIsVisible,
    Bot!Status, Bot!Name, Bot!DiedAt, Bot!Report, Bot!Finish, Bot!BeginEdit,
    Bot!Replaced, Bot!Bind, Bot!Unbind, Bot!Change, Bot!ChangeMember,
    Bot!DeleteCircle, Bot!Elsewhere, Bot!Tick, Bot!Presses, Bot!Targets,
    Bot!Roles, Bot!Undecided, Bot!Unbound, Bot!NotSent, Bot!Idle,
    Bot!NoRequest, Bot!Sent, Bot!At, Bot!Move, BotProofs!Next,
    BotProofs!vars, BotProofs!circles, BotProofs!Command, BotProofs!Press,
    BotProofs!Fresh, BotProofs!Deliver, BotProofs!Resolve, BotProofs!May,
    BotProofs!Admit, BotProofs!ReplyIsVisible, BotProofs!Status,
    BotProofs!Name, BotProofs!DiedAt, BotProofs!Report, BotProofs!Finish,
    BotProofs!BeginEdit, BotProofs!Replaced, BotProofs!Bind,
    BotProofs!Unbind, BotProofs!Change, BotProofs!ChangeMember,
    BotProofs!DeleteCircle, BotProofs!Elsewhere, BotProofs!Tick,
    BotProofs!Presses, BotProofs!Targets, BotProofs!Roles,
    BotProofs!Undecided, BotProofs!Unbound, BotProofs!NotSent,
    BotProofs!Idle, BotProofs!NoRequest, BotProofs!Sent, BotProofs!At,
    BotProofs!Move
<1> QED
  BY <1>1, <1>2, PTL DEF Bot!Spec, BotProofs!Spec

(* What Discord assumes is what MCReports assumes of it. *)
LEMMA BotAssumes == BotProofs!DiscordAssumption
BY BotAssumption DEF Bot!DiscordAssumption, BotProofs!DiscordAssumption

(* Rows, records and requests hold what tod, api and discord put there. *)
THEOREM RowsKeepTheirTypes == Either => []RowsAreTyped
<1>1. BotProofs!TypeOK => Bot!TypeOK
  BY DEF Bot!TypeOK, Bot!Unbound, Bot!Targets, Bot!Presses,
    BotProofs!TypeOK, BotProofs!Unbound, BotProofs!Targets,
    BotProofs!Presses
<1>2. BotProofs!Spec => []BotProofs!TypeOK
  BY BotAssumes, BotProofs!TypeCorrect
<1>3. TypeOK /\ Bot!TypeOK => RowsAreTyped
  BY DEF RowsAreTyped
<1> QED
  BY <1>1, <1>2, <1>3, TypeCorrect, RequestsRun, CommandsRun, BotIsBot, PTL

(* dispatch.go:338-353, binding.go:163-169: what a command leaves, with any
   number of people's requests going on beside it.                          *)
THEOREM CommandsLeave == Either => []WhatACommandLeaves
<1>1. BotProofs!WhatACommandLeaves => WhatACommandLeaves
  BY DEF WhatACommandLeaves, Bot!WhatACommandLeaves, Bot!ARedeliveryIsOneReport,
    Bot!OnlyItsOfficersDisclose, Bot!At, BotProofs!WhatACommandLeaves,
    BotProofs!ARedeliveryIsOneReport, BotProofs!OnlyItsOfficersDisclose,
    BotProofs!At
<1>2. BotProofs!Spec => []BotProofs!WhatACommandLeaves
  BY BotAssumes, BotProofs!CommandsLeave
<1> QED
  BY <1>1, <1>2, CommandsRun, BotIsBot, PTL
=============================================================================
