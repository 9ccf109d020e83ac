------------------------------- MODULE Ingest -------------------------------
(***************************************************************************)
(* The state-creating POSTs as one server process runs them: the record    *)
(* that internal/api takes on an Idempotency-Key, the steps of             *)
(* internal/tod (kill, retraction, quake) and of createCircle behind it,   *)
(* the outcome, the answer, and the sweep of expired records.              *)
(*                                                                         *)
(* One step is one pooled statement or one transaction, and any of them    *)
(* may fail.  Between any two the client may hang up, which cancels the    *)
(* request context and fails every later statement made on it, or the      *)
(* handler may stop for good (a panic or the end of the process), which    *)
(* leaves whatever is written.                                             *)
(***************************************************************************)
EXTENDS Integers, FiniteSets

CONSTANTS Operations,      \* what clients mean to do, each with its own body
          Callers, Keys, Facts,
          Kind,            \* "kill", "retraction", "quake" or "circle"
          Caller, Key,     \* who sends an operation, under which key
          FactOf,          \* what its row says: the columns of the unique index
          Needs,           \* the kill a retraction names
          Officers,        \* callers with tod.retract.any
          Requests,        \* bound: requests in the server at once
          MaxSends,        \* bound: requests ever sent
          MaxDay,          \* bound: the clock, in lifetimes of a record
          MaxFaults,       \* bound: hang-ups, stops and statements that fail
          None

Verdicts == {"ok", "refused", "reused", "in_flight", "failed"}
Answers  == [verdict : Verdicts, row : 0..MaxSends]

ASSUME IngestAssumption ==
    /\ Kind \in [Operations -> {"kill", "retraction", "quake", "circle"}]
    /\ Caller \in [Operations -> Callers] /\ Key \in [Operations -> Keys]
    /\ FactOf \in [Operations -> Facts] /\ Needs \in [Operations -> Facts \cup {None}]
    /\ \A o \in Operations : Kind[o] = "retraction" <=> Needs[o] # None
    /\ \A o, p \in Operations : FactOf[o] = FactOf[p] => Kind[o] = Kind[p] /\ Needs[o] = Needs[p]
    /\ Officers \subseteq Callers /\ None \notin Facts \cup Answers
    /\ MaxSends \in Nat /\ MaxDay \in Nat /\ MaxFaults \in Nat

TTL   == 1     \* idempotencyTTL, 24 hours, is the unit of the clock
Grace == 1     \* sweep.Grace

VARIABLES
    log,       \* tod_report, quake_event and circle rows
    records,   \* idempotency_record
    request,   \* what each request in the server is doing
    heard,     \* answers that reached the client, by operation
    sent,      \* requests sent so far
    now,
    faults     \* how many so far

bounded == <<sent, faults>>
vars    == <<log, records, request, heard, now, bounded>>

Answer(verdict, row) == [verdict |-> verdict, row |-> row]
Idle == [op |-> None, n |-> 0, at |-> "idle", live |-> FALSE, stale |-> 0, answer |-> None]

(* requestHash and hashBody: equal exactly for equal operations and bodies. *)
RequestHash(op) == <<Kind[op], FactOf[op]>>

Keyed == {FactOf[o] : o \in {p \in Operations : Kind[p] # "quake"}}

RowsOf(fact) == {r \in log : r.fact = fact}

(* The record of a caller's key: at most one, by the unique index. *)
RecordsOf(op) == {r \in records : r.by = Caller[op] /\ r.key = Key[op]}

-----------------------------------------------------------------------------
Init ==
    /\ log = {} /\ records = {}
    /\ request = [q \in Requests |-> Idle]
    /\ heard = [o \in Operations |-> {}]
    /\ sent = 0 /\ now = 0 /\ faults = 0

At(q, stage) == request[q].at = stage
Op(q)        == request[q].op
Live(q)      == request[q].live

(* A request moves on, answers before it holds a record, or settles the
   answer its record is to keep.                                           *)
Goes(q, stage)           == request' = [request EXCEPT ![q].at = stage]
Says(q, answer)          == request' = [request EXCEPT ![q].at = "flush", ![q].answer = answer]
Settles(q, verdict, row) ==
    request' = [request EXCEPT ![q].at = "outcome", ![q].answer = Answer(verdict, row)]

(* A client repeats an operation until it hears something final, and does
   not wait for an earlier request of its own to end.                      *)
Pending(op) == \A x \in heard[op] : x.verdict \in {"in_flight", "failed"}

Send(q, op) ==
    /\ request[q] = Idle /\ Pending(op) /\ sent < MaxSends
    /\ Needs[op] # None => RowsOf(Needs[op]) # {}
    /\ sent' = sent + 1
    /\ request' = [request EXCEPT ![q] =
           [op |-> op, n |-> sent', at |-> "read", live |-> TRUE, stale |-> 0, answer |-> None]]
    /\ UNCHANGED <<log, records, heard, now, faults>>

-----------------------------------------------------------------------------
(* The record, before the handler runs. *)

Expired(r) == r.expires < now

Unused(q) ==
    /\ RecordsOf(Op(q)) = {}
    /\ Goes(q, "take")

Overdue(q, r) ==
    /\ Expired(r)
    /\ request' = [request EXCEPT ![q].at = "clear", ![q].stale = r.id]

(* Mutant: a key is replayed whatever it was first sent with. *)
HeldByKey(q, r) ==
    /\ ~Expired(r)
    /\ Says(q, IF r.answer = None THEN Answer("in_flight", 0) ELSE r.answer)

Held(q, r) ==
    /\ ~Expired(r)
    /\ Says(q, CASE r.hash # RequestHash(Op(q)) -> Answer("reused", 0)
                 [] r.hash = RequestHash(Op(q)) /\ r.answer = None -> Answer("in_flight", 0)
                 [] OTHER -> r.answer)

ReadRecord(q) ==
    /\ At(q, "read") /\ Live(q)
    /\ Unused(q) \/ \E r \in RecordsOf(Op(q)) : Overdue(q, r) \/ Held(q, r)
    /\ UNCHANGED <<log, records, heard, now, bounded>>

(* Mutant: the expired record is deleted by its key. *)
ClearExpiredByKey(q) ==
    /\ At(q, "clear") /\ Live(q)
    /\ records' = records \ RecordsOf(Op(q))
    /\ request' = [request EXCEPT ![q].at = "take", ![q].stale = 0]
    /\ UNCHANGED <<log, heard, now, bounded>>

(* An expired record is deleted by its own id, so the delete of a request
   that read it late does not take the record of one that came after.      *)
ClearExpired(q) ==
    /\ At(q, "clear") /\ Live(q)
    /\ records' = {r \in records : r.id # request[q].stale}
    /\ request' = [request EXCEPT ![q].at = "take", ![q].stale = 0]
    /\ UNCHANGED <<log, heard, now, bounded>>

RecordFor(q) ==
    [id |-> request[q].n, by |-> Caller[Op(q)], key |-> Key[Op(q)],
     hash |-> RequestHash(Op(q)), expires |-> now + TTL, answer |-> None]

TakeRecord(q) ==
    /\ At(q, "take") /\ Live(q)
    /\ \/ /\ RecordsOf(Op(q)) = {}
          /\ records' = records \cup {RecordFor(q)}
          /\ Goes(q, IF Kind[Op(q)] \in {"kill", "retraction"} THEN "lookup" ELSE "write")
       \/ /\ RecordsOf(Op(q)) # {}
          /\ Says(q, Answer("in_flight", 0))
          /\ UNCHANGED records
    /\ UNCHANGED <<log, heard, now, bounded>>

-----------------------------------------------------------------------------
(* The handler. *)

(* byNaturalKey: a kill already in the log is the answer, withdrawn or not. *)
FindKill(q, otherwise) ==
    \/ \E r \in RowsOf(FactOf[Op(q)]) : Settles(q, "ok", r.id)
    \/ RowsOf(FactOf[Op(q)]) = {} /\ otherwise

LookupKill(q) ==
    /\ At(q, "lookup") /\ Live(q) /\ Kind[Op(q)] = "kill"
    /\ FindKill(q, Goes(q, "write"))
    /\ UNCHANGED <<log, records, heard, now, bounded>>

LookupOriginal(q) ==
    /\ At(q, "lookup") /\ Live(q) /\ Kind[Op(q)] = "retraction"
    /\ \E original \in RowsOf(Needs[Op(q)]) :
         IF /\ RowsOf(FactOf[Op(q)]) = {}
            /\ original.by = Caller[Op(q)] \/ Caller[Op(q)] \in Officers
         THEN Goes(q, "write")
         ELSE Settles(q, "refused", 0)
    /\ UNCHANGED <<log, records, heard, now, bounded>>

RowFor(q) == [id |-> request[q].n, fact |-> FactOf[Op(q)], by |-> Caller[Op(q)], on |-> now]

(* Mutant: no unique index, the lookup is trusted. *)
WriteTrustingTheLookup(q) ==
    /\ At(q, "write") /\ Live(q)
    /\ log' = log \cup {RowFor(q)}
    /\ Goes(q, "view")
    /\ UNCHANGED <<records, heard, now, bounded>>

(* The transaction: the row, or the unique index. *)
Write(q) ==
    /\ At(q, "write") /\ Live(q)
    /\ IF FactOf[Op(q)] \in Keyed /\ RowsOf(FactOf[Op(q)]) # {}
       THEN /\ IF Kind[Op(q)] = "kill" THEN Goes(q, "again") ELSE Settles(q, "refused", 0)
            /\ UNCHANGED log
       ELSE /\ log' = log \cup {RowFor(q)}
            /\ Goes(q, "view")
    /\ UNCHANGED <<records, heard, now, bounded>>

ReadBack(q) ==
    /\ At(q, "again") /\ Live(q)
    /\ FindKill(q, Settles(q, "refused", 0))
    /\ UNCHANGED <<log, records, heard, now, bounded>>

(* Mutant: the answer is sent first and recorded by nobody. *)
ViewAnswering(q) ==
    /\ At(q, "view") /\ Live(q)
    /\ Says(q, Answer("ok", request[q].n))
    /\ UNCHANGED <<log, records, heard, now, bounded>>

(* After the commit the answer is read on the request context. *)
View(q) ==
    /\ At(q, "view") /\ Live(q)
    /\ Settles(q, "ok", request[q].n)
    /\ UNCHANGED <<log, records, heard, now, bounded>>

-----------------------------------------------------------------------------
(* The outcome, on a context of its own, and the answer. *)

Completed(n, answer) ==
    {IF r.id = n /\ r.answer = None THEN [r EXCEPT !.answer = answer] ELSE r : r \in records}

Without(n) == {r \in records : r.id # n}

(* Mutant: a 5xx is stored like any other answer. *)
RecordOutcomeAlways(q) ==
    /\ At(q, "outcome") /\ Kind[Op(q)] # "circle"
    /\ records' = Completed(request[q].n, request[q].answer)
    /\ Goes(q, "flush")
    /\ UNCHANGED <<log, heard, now, bounded>>

RecordOutcome(q) ==
    /\ At(q, "outcome") /\ Kind[Op(q)] # "circle"
    /\ records' = IF request[q].answer.verdict = "failed"
                  THEN Without(request[q].n) ELSE Completed(request[q].n, request[q].answer)
    /\ Goes(q, "flush")
    /\ UNCHANGED <<log, heard, now, bounded>>

(* The handler-owned variant keeps only a success, and both of its writes
   are made on the request context.                                        *)
RecordOwnOutcome(q) ==
    /\ At(q, "outcome") /\ Kind[Op(q)] = "circle"
    /\ records' = CASE ~Live(q) -> records
                    [] Live(q) /\ request[q].answer.verdict = "ok" ->
                         Completed(request[q].n, request[q].answer)
                    [] OTHER -> Without(request[q].n)
    /\ Goes(q, "flush")
    /\ UNCHANGED <<log, heard, now, bounded>>

(* Mutant: a record whose outcome could not be written is let go. *)
LoseOutcomeClearing(q) ==
    /\ At(q, "outcome") /\ faults < MaxFaults
    /\ faults' = faults + 1
    /\ records' = Without(request[q].n)
    /\ Goes(q, "unrecorded")
    /\ UNCHANGED <<log, heard, now, sent>>

(* Either write may fail with the client still there: the database is busy,
   or recordOutcomeTimeout is over.  That is logged, the record stays in
   flight, and the answer is sent all the same.                            *)
LoseOutcome(q) ==
    /\ At(q, "outcome") /\ faults < MaxFaults
    /\ faults' = faults + 1
    /\ Goes(q, "unrecorded")
    /\ UNCHANGED <<log, records, heard, now, sent>>

Flush(q) ==
    /\ At(q, "flush") \/ At(q, "unrecorded")
    /\ heard' = IF Live(q) THEN [heard EXCEPT ![Op(q)] = @ \cup {request[q].answer}] ELSE heard
    /\ request' = [request EXCEPT ![q] = Idle]
    /\ UNCHANGED <<log, records, now, bounded>>

-----------------------------------------------------------------------------
(* What goes wrong, and what time does. *)

HangUp(q) ==
    /\ Live(q) /\ faults < MaxFaults
    /\ faults' = faults + 1
    /\ request' = [request EXCEPT ![q].live = FALSE]
    /\ UNCHANGED <<log, records, heard, now, sent>>

(* A statement fails: before the record is taken the problem is written at
   once, after it the failure is the outcome.                              *)
Fails(q) ==
    \/ /\ At(q, "read") \/ At(q, "clear")
       /\ Says(q, Answer("failed", 0))
    \/ /\ At(q, "take")
       /\ Says(q, Answer("in_flight", 0))
    \/ /\ \E stage \in {"lookup", "write", "again", "view"} : At(q, stage)
       /\ Settles(q, "failed", 0)

(* Of a client that is there, now and then. *)
Busy(q) ==
    /\ Live(q) /\ faults < MaxFaults
    /\ faults' = faults + 1
    /\ Fails(q)
    /\ UNCHANGED <<log, records, heard, now, sent>>

(* On a cancelled context, every one. *)
GiveUp(q) ==
    /\ request[q] # Idle /\ ~Live(q)
    /\ Fails(q)
    /\ UNCHANGED <<log, records, heard, now, bounded>>

(* Nothing recovers a panic around the capture, and the process may end. *)
Stop(q) ==
    /\ request[q] # Idle /\ faults < MaxFaults
    /\ faults' = faults + 1
    /\ request' = [request EXCEPT ![q] = Idle]
    /\ UNCHANGED <<log, records, heard, now, sent>>

(* The server's write timeout, 30 seconds, is far below a unit of the clock,
   and only records ask what time it is.                                   *)
Tick ==
    /\ now < MaxDay /\ records # {} /\ \A q \in Requests : request[q] = Idle
    /\ now' = now + 1
    /\ UNCHANGED <<log, records, request, heard, bounded>>

Sweep ==
    /\ \E r \in records : r.expires < now - Grace
    /\ records' = {r \in records : r.expires >= now - Grace}
    /\ UNCHANGED <<log, request, heard, now, bounded>>

Handle(q) == LookupKill(q) \/ LookupOriginal(q) \/ Write(q) \/ ReadBack(q) \/ View(q)

Serve(q) ==
    \/ ReadRecord(q) \/ ClearExpired(q) \/ TakeRecord(q)
    \/ Handle(q)
    \/ RecordOutcome(q) \/ RecordOwnOutcome(q) \/ LoseOutcome(q) \/ Flush(q)
    \/ Busy(q) \/ GiveUp(q)

Next ==
    \/ \E q \in Requests : \/ \E op \in Operations : Send(q, op)
                           \/ Serve(q) \/ HangUp(q) \/ Stop(q)
    \/ Tick \/ Sweep

Spec == Init /\ [][Next]_vars

-----------------------------------------------------------------------------
Stages  == {"idle", "read", "clear", "take", "lookup", "write", "again", "view", "outcome", "unrecorded", "flush"}

(* Every variable holds a value of the schema; in particular a record keeps
   only answers a handler settled, never a conflict of the key itself.     *)
TypeOK ==
    /\ log \subseteq [id : 1..MaxSends, fact : Facts, by : Callers, on : 0..MaxDay]
    /\ records \subseteq [id : 1..MaxSends, by : Callers, key : Keys, hash : {RequestHash(o) : o \in Operations},
                          expires : TTL..(MaxDay + TTL),
                          answer : {None} \cup {x \in Answers : x.verdict \in {"ok", "refused"}}]
    /\ request \in [Requests -> [op : Operations \cup {None}, n : 0..MaxSends, at : Stages,
                                 live : BOOLEAN, stale : 0..MaxSends, answer : {None} \cup Answers]]
    /\ heard \in [Operations -> SUBSET Answers]
    /\ sent \in 0..MaxSends /\ now \in 0..MaxDay /\ faults \in 0..MaxFaults

(* idempotency.go, tod.go: an answer that says a row exists, told to a client
   or kept for one, names a row of the log that says what its operation
   asked for, whichever request, replay or lost race produced it.          *)
AnswersAreInTheLog ==
    LET Shown(x, fact) == x.verdict = "ok" => \E r \in RowsOf(fact) : r.id = x.row
    IN  /\ \A o \in Operations : \A x \in heard[o] : Shown(x, FactOf[o])
        /\ \A r \in records : r.answer # None => Shown(r.answer, r.hash[2])

(* Idempotency-Key: however often a client repeats an operation, every
   success it hears is about one and the same row.                         *)
OneStory ==
    \A o \in Operations : \A x, y \in heard[o] :
      x.verdict = "ok" /\ y.verdict = "ok" => x = y

(* What a client was told of its operation stands: there is such a row, and it
   is never told of another (idempotency.go, replay).                      *)
AnswersStand == AnswersAreInTheLog /\ OneStory

(* idempotency.go:71-78, idempotent_handler.go:97-114: when a client hears that
   its operation succeeded, its record already holds that answer; or the write
   of the outcome failed, and the record is still there and in flight, so that
   a retry made from then on replays or is turned away, and never runs again
   while the record lasts.                                                 *)
RecordedBeforeTold ==
    [][\A o \in Operations : \A x \in heard'[o] \ heard[o] : x.verdict = "ok" =>
         \E r \in RecordsOf(o) :
           \/ r.answer = x
           \/ /\ r.answer = None
              /\ \E q \in Requests : At(q, "unrecorded") /\ request'[q] = Idle /\ r.id = request[q].n]_vars

(* ReportLog: a key is acted on at most once while it is remembered, a unique
   fact is in the log once, and nothing is told before it is there.        *)
Promise == INSTANCE ReportLog WITH
    rows       <- [f \in Facts |-> Cardinality(RowsOf(f))],
    remembered <- {o \in Operations : RecordsOf(o) # {}},
    acted      <- {o \in Operations : \E r \in RecordsOf(o) : \E row \in log : row.id = r.id},
    told       <- {o \in Operations : \E x \in heard[o] : x.verdict = "ok"}
KeepsItsPromise == Promise!Spec

(* idempotency.go:247-262 and nparse-plus-integration.md section 6: a retry
   under the same key within the record's day does not append a second row. *)
NoDuplicateWithinTheDay ==
    \A r, s \in log : r.fact = s.fact /\ r.by = s.by /\ s.on - r.on \in 0..TTL => r = s
=============================================================================
