# tod-serve in TLA+

tod-serve is a multi-tenant server that keeps, for each raid target of each circle, an append-only
log of reported times of death, and derives from it what every client asks: is the target up, and
when does it come back.  This directory models it: TLA+ modules, TLC configurations that check them
on small instances, and TLAPS proofs that hold for instances of every size.

Paths below are relative to the repository (`src/` in `PROJECT.json`).

## Inventory

### How the parts interact

One process, one SQLite database in WAL mode, many requests at once, and a few commands run by
timers (`verify-states`, `rebuild-states`, the sweeps, backup).  There are three ways of touching
the database, and nearly every hazard comes from the seams between them:

- `store.DB.InTx`: `BEGIN IMMEDIATE`, so writing transactions are totally ordered and each sees
  every earlier one;
- `store.DB.InReadSnapshot`: a read transaction over one WAL snapshot, which writers do not wait for;
- `db.Queries()`: a pooled statement, a transaction of its own.

A request typically makes pooled reads (who is this, which circle, does the row exist), then one
transaction that rereads some of it and not the rest.  Callbacks run inside the writer's
transaction: `tod` calls the projection's delete, `catalogue` calls a `TimerInvalidator`, which is
the projection's recomputation.  There are no background goroutines that write; the timers start
separate processes.

### Components

| Component | State it keeps | Operations | What is hard | What makes it correct | Module |
|---|---|---|---|---|---|
| `internal/consensus` | none: a function of the log | fold retractions, truncate at the quake, cluster, estimate, choose a cluster, contest, confidence, window and status | boundary instants, arrival order, rival clusters, retractions of retractions | the answer depends on what was reported and when, not on order of arrival; disagreement is shown; a withdrawn kill leaves no trace | `Consensus` |
| `internal/projection` | `target_state_cache` | `Get`, `Board`, `Rebuild`, `Verify`, the three timer callbacks | read-miss fills written back after the snapshot they came from; recomputation inside other components' transactions; clock-dependent columns | a row is a derivation of this log; a write that moves a row's inputs removes or replaces it; the nightly sweep converges | `Projection` |
| `internal/tod` | `tod_report`, `quake_event` (append-only) | `Create`, `Retract`, `ReportQuake` | pooled checks before the transaction, natural-key races, double retraction, retries | one row per observation; a kill is retracted at most once; every append invalidates | `Projection`, `Ingest` |
| `internal/catalogue` | `raid_target` with its aliases, `raid_target_timer`, `circle_timer_override` | target and timer writes, overrides, resolve, both seeds | one write moves boards of many circles; names and aliases share a namespace and are read in two statements; seeds that stop | the circles whose window moved are recomputed with the write, the others left alone; an exact spelling wins; a seed may be run again | `Names`, `Projection` |
| `internal/circle` | `circle`, accepted providers | create, `Update`, `Delete`, gate changes | read on the pool then write of every column; `If-Match` outside the transaction | a tombstone closes everything; a door asks the rows as they are | `Admission`, `Projection` |
| `internal/membership` | `membership`, `api_token`, redemptions | join, authenticate, roles, revoke, reinstate, step-up | provider round trip between read and write, last owner, one membership per identity | the decision is made from rows reread under the lock; a circle keeps an owner | `Admission`, `SignIn` |
| `internal/invite` | `invite`, `invite_redemption`, owner grants | mint, resolve, redeem, revoke | the last use, taken by two people | redemptions never exceed `max_uses`; an owner grant is used once | `Admission` |
| `internal/instancegrant`, `instancesettings`, `setup` | two hash-chained ledgers, settings | decide, change, first run | chain tail, no-op decisions, first administrator, steps without a common transaction | one chain, no fork; nothing unread is replaced; one first administrator | `Settings`, `Admission` |
| `internal/api/idempotency*.go`, `etag.go` | `idempotency_record` | begin, complete, clear, replay; `If-Match` | record, handler and outcome are separate writes | a remembered key runs its handler at most once; what a client was told stands | `Ingest`, `Settings` |
| `internal/identity`, `internal/auth`, `internal/sweep` | flows, tickets, providers, sessions | begin, callback, redeem, step-up, sign-out, expiry | double callback, double redeem, sweeps behind readers | an authorization is one proof; sign-out is final | `SignIn` |
| `internal/identity/oidc/jwks.go` | the key set of a provider | lookup, refetch | a rotating or failing issuer, a slow answer | a withdrawn key is forgotten; an issuer that answers is spared | `KeySet` |
| `internal/discord` | channel bindings | verify, resolve, admit, status, report, bind | redelivery; rebinding between resolve and answer | a command leaves one report, and shows only what its channel may see | `Discord` |
| `internal/api/ratelimit.go`, `internal/core/ulid.go` | buckets; the last id | `Allow`; `New` | the table at its bound; a clock set back | a burst and what came back; ids rise | `Limiter`, `Ids` |
| `internal/authz`, `apierr`, `schemaenum`, gates | static tables | lookup | none at run time | checked by the repository's own gates | none |
| rest of `internal/api`, `audit`, `store`, `cmd`, web console | transport, audit rows | routing, rendering, wiring | see `PROJECT.json` | | partly, as steps of the others |

`PROJECT.json` names the files of each, what is modelled of it, and under `hazards` the lines where
each difficulty bites, with the properties that watch it.

## Modules

| Module | What it is |
|---|---|
| `Consensus` | `internal/consensus` as pure operators; no state |
| `MCConsensus` | a log, quakes and a clock that grow, and the laws `Derive` is checked against |
| `Projection` | the tables a derivation reads, their writers in `tod`, `catalogue`, `circle` and `membership`, the cache and its readers; EXTENDS `Consensus` |
| `MCProjection` | constants of the small instances |
| `ReportLog` | what the write API promises a client that retries; abstract |
| `Ingest` | state-creating POSTs behind `Idempotency-Key`: record, handler, outcome, answer, sweep; implements `ReportLog` |
| `Discord` | slash commands and channel bindings |
| `MCIngest`, `MCReports` | constants of `Ingest`; and `Ingest` or `Discord`, the two ways a report comes in |
| `Admission` | doors, codes, roles, revocation, service members, providers of a circle, setup, the first administrator |
| `MCAdmission` | constants of its instances |
| `SignIn` | authorization flow, ticket, session cookie, step-up, sign-out, and the sweep of their rows |
| `Settings` | instance settings with their entity tag, and the two ledgers |
| `Names` | targets, aliases, the shipped list, the resolve ladder, the timer seed |
| `KeySet`, `Limiter`, `Ids` | the key-set cache, the bucket of the limited routes, the id generator |
| `MCInstance` | one of `SignIn`, `Settings`, `Names`, `KeySet`, `Limiter` and `Ids` at a time |
| `ConsensusProofs`, `ProjectionProofs`, `AdmissionProofs`, `SettingsProofs`, `NamesProofs`, `DiscordProofs` | theorems of the module they are named after, for `Consensus` the laws of `MCConsensus` |
| `ReportsProofs`, `InstanceProofs` | theorems of `Ingest` and of `SignIn`, and of what `MCReports` and `MCInstance` put together; `InstanceProofs` also proves `KeySet`, `Limiter` and `Ids` |

An operator introduced as "Mutant" is a wrong version of the one after it.  It is used by nothing;
it is there so that each property can be shown to fail when the code is wrong in that way.

`MCReports` and `MCInstance` explore a disjoint union: their parts have no variable in common, so a
behaviour follows one with the others at rest, and the states add up instead of multiplying.

### Consensus

Each stage of `Derive` is an operator named after the Go function: `FoldRetractions`,
`TruncateAtQuake`, `Cluster`, `Estimate`, `SelectCurrent`, `ContestReason`, `ConfidenceOf`,
`DeriveWindow`, `DeriveStatus`, and `Project`, the part the board uses alone.  Reports are records,
the log is a set (a report's id orders ties, as in the code), instants are whole seconds, and a nil
pointer is the model value `None`.  The sweep over sorted reports is a recursive function of how many
it has passed, one `Swept` at a time, so no RECURSIVE operator stands in the way of a proof; a
report's place in the order is its `Rank`, the number of reports before it, and the median is a
`Place` among a cluster's estimators.

### Projection

| State | In the code |
|---|---|
| `reports`, `quakes` | `tod_report`, `quake_event` by circle |
| `catalogue`, `override`, `quakeTarget` | `raid_target_timer`, `circle_timer_override`, `raid_target.is_quake_target` |
| `threshold`, `revoked`, `live` | `circle.min_reporters_to_supersede`, `membership.revoked_at`, `circle.deleted_at` |
| `cache` | `target_state_cache`; a row is the derivation that wrote it: inputs, instant, explicit reason.  `Columns` is what the row says |
| `job` | readers in flight, each with the snapshot it took and what it has yet to write |
| `now`, `writes` | the wall clock; a bound on transactions |

| Actions | In the code |
|---|---|
| `CreateKill`, `Retract`, `ReportQuake` | `tod.Create`, `Retract`, `ReportQuake`: the append and its `invalidate` |
| `PutTimer`, `PutOverride`, `DeleteOverride`, `UpdateTarget` | `catalogue`: the write and the recomputation its `TimerInvalidator` makes in the same transaction.  Seeds make the same write as `PutTimer`, one window at a time |
| `UpdateCircle`, `Revoke`, `Reinstate`, `DeleteCircle` | `circle.Update`, `Delete`; `membership.Revoke`, `Reinstate` |
| `BeginGet`, `BeginRebuild`, `BeginVerify`, `BeginBoard` | the snapshot each reader takes |
| `FillRead`, `FillDerive` | `Board`'s read-miss fill, a pooled read at a time after the snapshot |
| `Store` | `storeOrDrop`, the write-back |
| `Abandon` | a cancelled request or a stopped process, between any two steps |

Choices a reader should know of:

- A writing transaction is one step, since writers are serialised by `BEGIN IMMEDIATE`.  What a
  handler read on the pool before it opened the transaction is not trusted: `CreateKill` may land
  in a circle that was tombstoned meanwhile, or from a member revoked meanwhile, and its id is any
  unused one, because ids are minted before the lock.  `PutOverride`, `DeleteOverride` and `Revoke`
  read a live circle inside the transaction, so their guard is real.
- `Get` asks the clock after its snapshot has ended (`DerivedAt`).  `Board` reads the rows and the
  revocations of a missing target later than its timer, quakes and threshold.
- `UpdateTarget` rereads the flag under the lock, so comparing and writing are one step.
- The nightly sweep is modelled one circle at a time, as it runs.  Deleting an orphan is the
  write-back of an empty log.
- Left out because no modelled decision reads them: report notes and characters, audit rows,
  archived and retired states, paging, sorting and filtering of the board, the last-owner guard.

### Ingest

`records` is `idempotency_record`, `log` the rows of `tod_report`, `quake_event` and `circle`,
`request` what each HTTP request is doing, `heard` the answers that reached a client.  A step is one
pooled statement or one transaction: `Send`, `ClearExpired`, `TakeRecord`, `ReadRecord`, `Held`
(begin, in both variants of the middleware), `LookupKill`, `LookupOriginal`, `Write`, `ReadBack`,
`View` (the handlers of kill, retraction, quake and circle), `RecordOutcome` and
`RecordOwnOutcome` (complete or clear), `Flush`, and `Sweep`.  Any statement may fail.  `Busy` is one
that fails while the client is there; in `LoseOutcome` it is the write of the outcome, which both
variants log and then answer all the same, so that the record stays in flight.  `HangUp` cancels the
request context and fails every later statement made on it; `Stop` is a panic or the end of the
process.  A clock of days is enough: a record expires after one.

### Admission

`circle`, `member`, `code`, `token`, `granted`, `enabled` are the tables; `guild` is what only the
provider knows.  `BeginJoin` and `BeginSession` make the pooled reads and the round trip;
`JoinNew`, `JoinAgain` and `Authenticate` are the transactions that reread.  A member's request is
`Call`, then one of `MintInvite`, `RevokeInvite`, `ChangeRole`, `Revoke`, `Reinstate`,
`CreateService`, `RevokeToken`, `SetProviders`, `UpdateCircle`, `DeleteCircle`.  `SetupDescribe`,
`SetupCircle`, `SetupAccept`, `SetupGrant`, `SetupFail` are the wizard; `Decide`, `SwitchProvider`,
`CreateCircle` and `MoveGuild` the operator and the world.  A refusal writes nothing and is
`Abandon`.  Left out: the expiry of codes and of idempotency records (in `Ingest`), and a writer of
`identity.blocked_at`, which the code does not have (the constant `Blocked`).

### SignIn

`flow`, `ticket`, `signedOut` are rows; `cookies` every session value ever issued, because nothing
stores one and any may come back.  `CreateAuthorizationURL`, `ConsumeAuthFlow`, `MintTicket`,
`BeginRedeem`, `ConsumeTicket`, `SignIn`, `StepUp`, `BeginSignOut`, `SignOut`, `Sweep` are the steps of
the code; `ChangeMember` and `ChangeProvider` happen beside them.  Signing is taken as unforgeable.

### Settings

The hash of a row is its place in the order of commits, which the code cannot read: it knows only
which hash each row names as its predecessor.  Ids come in any order.  `Authenticate`, `Describe`,
`NotModified`, `Apply`, `Decide` are the requests, `OpenWizard` and `InstanceStep` the first run.
`Matches` is the comparison of tags, which some clients (`Careless`) pass with `*`.

### Names

`row` is `raid_target` with its aliases, by normal form.  `Create`, `BeginUpdate` and `CommitUpdate`
(a pooled read, then a transaction that writes every column), `SeedTargets` (the shipped list),
`ReadNames` and `ReadAliases` (the two statements of `loadTargets`), `BeginSeed`, `ResolveSeed`,
`ApplySeedWindow` and `EndSeed` (a seed file, one window per transaction).

### Discord

`Press` is an interaction that Discord signed, `Deliver` any of its arrivals, `Resolve`, `Admit`,
`Name`, `Report` and `Status` the command, `Finish` its reply; `BeginEdit`, `Bind` and `Unbind` an
officer's request; `ChangeMember`, `DeleteCircle` and `Elsewhere` what moves meanwhile.

### KeySet, Limiter, Ids

`KeyFor`, `Serve`, `Fetched`, `Failed` and `Answered` are one verification under the mutex, `Rotate` the
issuer.  `Allow` is one attempt.  `New` is one id, `SetClock` the wall clock, set to anything.

## What the runs check

| Run | Instance | Distinct states (about) | Shows |
|---|---|---|---|
| `consensus` | up to 4 rows; kills at 0, 300, 600, 900; a quake at 600; three timers; thresholds 1 and 2; clock 900, 1600, 2200 | 374 000 | the laws of the derivation, on every such log |
| `projection` | two circles on one server, one target, one reader, up to 4 transactions, 2 reports per circle, clock 300 and 700 | 405 000 | what a cached row may say, and which writes remove or replace it |
| `board` | one circle, two members, kills at 0 and 600, up to 6 transactions, 3 reports, clock 700 and 1600, no readers | 208 000 | what the board draws from a current row |
| `projection_heals` | one circle, two targets, a request and the nightly sweep, 2 transactions | small | stale write-backs do not last |
| `reports` | five operations of two callers under shared keys, two requests at once, three sends, one fault, three days; or one press delivered at will, two circles, one channel | 822 000 | what a retried write and a redelivered command leave behind |
| `admission` | two people, two requests, two circles, a verifiable and an unverifiable provider, two codes, three members and tokens, three writes of members and one of anybody else | 1 240 000 | who gets in, by which code, and who may make whom what |
| `instance` | sign-in (two people, requests, flows and sessions, lifetimes of a tick or two): 1 295 000; settings (two settings, two changes, two decisions, an administrator who sends the tag they read and one who sends `*`): 120 000; catalogue (three spellings, three targets, a file of three rows): 133 000; key set, limiter, ids: 101 000 | 1 649 000 | six parts of an instance |
| `stale_up`, `no_delete`, `cries_wolf`, `quake_twice`, `bot_survives` | the smallest of the above that shows it | small | five statements of the repository that the code does not keep |

**Why these bounds are enough.**

- *Derivation.*  With epsilon at its floor of 300 seconds, deaths 300 apart are the inclusive edge of
  one cluster, and 0, 300, 600, 900 is a chain that must be cut in two; 600 is also the quake's own
  instant.  Four rows are two rivals of two, or a kill, its retraction and a retraction of that.  The
  clock stops inside, at the edge of and after the windows of the first and last kill.
- *Cache.*  Two circles tell apart the circle a write is about, one that overrode the catalogue, and a
  deleted one; one reader with its snapshot held across writers is enough for every race between a
  write-back and a write, because a write-back reads nothing.  `board` needs two kill times and two
  members for a supersede that is pending or thin, and no readers: its property speaks of rows that
  are current.
- *Requests.*  The handlers meet in the tables alone, and every property is about one row, one key or
  one code, so two requests and what may happen between their steps are the smallest race and the
  general one; a third write is the retry.  Two operations share a key and two a fact.  Two
  providers differ in whether they can prove the same person again, the only thing the code asks.
- *Clocks.*  Lifetimes of one or two ticks put every pair of deadlines before, at and after each
  other; what is compared is only ever a difference.
- *Names.*  One spelling is the start of another and one is an alias in the shipped list, which is
  all the ladder and the namespace tell apart; the file names one target twice.

Circles, members, people and requests are interchangeable where a run says SYMMETRY, and no run with
symmetry checks liveness.  Deadlock checking is off because each instance stops at its bounds.

**Properties of the derivation** (`consensus`).  `ClusterLaw` and `EstimateLaw` state clustering and
the median without the sweep.  `WithdrawnLeavesNoTrace`: the answer is that of the log without
withdrawn kills.  `UpLaw`: up exactly while the latest quake is unanswered.  `DoubtIsShown`: only a
strictly better corroborated live cluster holds back the newest, and then, or when the newest
displaces one, the answer is contested; and high confidence is two people near the estimate.
`TheClockOnlyReleases`: on one log, time alone only walks the status forward and releases a pending
supersede.

**Properties of the cache** (`projection`, `board`).  `CacheNeverInvents`: a row comes from a
non-empty part of its own log.  `OnlyKnownDoors`: no write leaves a current row behind with its
inputs moved, except of the supersede threshold and of a reporter's standing.
`TimerMoveRecomputes`: a moved timer removes or recomputes every row it governs, in the same step.
`NoFalseTimerChange`: and no other.  `TombstoneStaysOff`: a deleted circle gets no row but from a
reader begun before.  `RenderedIsDerived`: the board, which reads a row and not the log, draws what
a derivation at that instant says, unless the clock has moved the estimate itself (a pending
supersede released), the one case that waits for a fresh derivation.

**Properties of reports** (`reports`).  `AnswersStand`: a success that a client heard names a row that
says what was asked, and it never hears of another.  `RecordedBeforeTold`: by then the record of its
key holds that answer, or the write of the outcome has failed and the record is still there, in
flight, so that a retry is turned away and not run again while it lasts.  `KeepsItsPromise`: `Ingest` implements `ReportLog`.  `WhatACommandLeaves`: one
press is one report of one target, whatever is redelivered, and what a whole channel can read is
what the last decision about that channel, by an officer of that circle, allows.

**Properties of membership** (`admission`).  `UsesAreCounted`: a code's uses are the memberships made
through it, and no more than it allows.  `AlwaysAnOwner`: owners who step down at once leave one who is
live.  `ARetryAddsNothing`: neither a second
membership nor, under one key, a second token.  `AdmittedByTheLiveRules`: a token is handed out only by
the rows as they are at that instant.  `SealedCodesStaySealed`: an invite closed by a weak revocation
admits nobody, not even a join already at the provider.  `OwnershipIsHandedOn`: an owner is made by an
owner grant or another owner.  `OneFirstAdministrator`: a code makes an administrator only where there
is none.

**Properties of an instance** (`instance`).  `OneProofPerAuthorization`, `ProofIsTheMembers`,
`SessionsAreDated`, `SignedOutStaysOut`: one ticket is one proof, of the same person; a session ends
when it was to end and is fresh as long as its proof is; a session that was signed out of is not
accepted again.  `TagsDoNotRepeat`, `NothingUnseenIsReplaced`, `CurrentIsTheLatest`: a tag that matches
hides nothing, an administrator who sends the tag of what they read extends only a ledger that was
read to its end, no row misstates what it replaced, and the derived head of a chain is its last row.
An administrator in `Careless` sends `If-Match: *`, or a list of tags, which `RequireIfMatch` lets
through whatever they have read: the first two properties promise less of them.  `ExactIsNeverOutranked`, `SeedsMayBeRunAgain`: an exact spelling is its
own target whatever happens to others between the two reads; a seed that stopped may be run again.
`KeysAreCurrent`, `BurstIsKept`, `IdsRise`.

**Liveness** (`projection_heals`, `EventuallyExact`): once writes stop, every cached row of a live
circle becomes exact and stays so.  The fairness is that of the nightly timer alone: strong
fairness of starting the sweep of a circle, since the timer fires every night whatever happened the
night before, and of its write-backs, since a sweep is not killed at the same place every night.
Nothing is assumed of requests: any may stop anywhere, or hold its old snapshot as long as it likes
and write it back late.  It can do that once, and the next sweep repairs it.  Nothing else in the
code promises to happen eventually without a client that asks again.

**What the code does not keep.**  Five runs are expected to be violated, each one statement of the
repository (quoted in `PROJECT.json`):

- `stale_up`: `projection.go` relies on a cached `up` having been true when it was written.  A
  reader that saw the quake can write its row after a later kill has already deleted it.
- `no_delete`: `doc.go` says a row is thrown away the moment anything it was computed from changes.
  The supersede threshold and a revocation are inputs, and their writes leave the rows.
- `cries_wolf`: the sweep's alert is said to mean a bug or a write behind the server's back.
  `diff` compares `status`, which moves with the clock, so a row cached before its window opened
  and swept afterwards is reported as drift.
- `quake_twice`: a client that hangs up while the answer to its quake is read back makes the handler
  fail, which clears the record of a quake that is in the log; the retry appends it again.
- `bot_survives`: a bot's token is said to die with its owner's membership; authentication asks only
  for the bot's own.

## What is proved

Eight modules of theorems, each for every value of the constants.  What they assume of the constants
is a named formula: `NoneIsNoValue`, `MCConsensusAssumption`, `ProjectionAssumption`,
`AdmissionAssumption`, `SignInAssumption` and `IngestAssumption` are assumed by the modules that declare the constants, `SettingsAssumption`,
`NamesAssumption`, `DiscordAssumption`, `KeySetAssumption` and `LimiterAssumption` are hypotheses of
the theorems, assumed by `MCInstance` and `MCReports` of the values they give.  They say that bounds
and lifetimes are numbers (positive where the code clamps or defaults them), that a stand-in for
"none" is not a value, and that each operation, circle or shipped target has the fields the code
gives it.  Every run that extends a module evaluates its assumptions.

| Module | Theorems | Establish |
|---|---|---|
| `ConsensusProofs` | `ClustersCutTheLog`, `EstimatesAreMedians`, `NoTrace`, `UpIsUnanswered`, `DoubtShown`, `ClockReleases` | `ClusterLaw`, `EstimateLaw`, `WithdrawnLeavesNoTrace`, `UpLaw`, `DoubtIsShown`, `TheClockOnlyReleases` |
| | `ClustersAreRuns`, `EstimateIsTheLowerMedian` | `Cluster` and `Estimate` of any log, outside any behaviour |
| `ProjectionProofs` | `TypeCorrect`, `NeverInvents`, `Tombstones`, `TimerPush`, `Spared`, `KnownDoors`, `BoardIsDerived` | `TypeOK`, `CacheNeverInvents`, `TombstoneStaysOff`, `TimerMoveRecomputes`, `NoFalseTimerChange`, `OnlyKnownDoors`, `RenderedIsDerived` |
| `AdmissionProofs` | `TypeCorrect`, `CodesCount`, `CirclesAreOwned`, `RetriesAddNothing`, `SealsHold`, `OwnersMakeOwners`, `FirstAdministratorIsOne`, `DoorsAskTheLiveRows` | `TypeOK`, `UsesAreCounted`, `AlwaysAnOwner`, `ARetryAddsNothing`, `SealedCodesStaySealed`, `OwnershipIsHandedOn`, `OneFirstAdministrator`, `AdmittedByTheLiveRules` |
| `InstanceProofs`, of `SignIn` | `TypeCorrect`, `AuthorizationIsSpentOnce`, `ProofIsNobodyElses`, `SessionsKeepTheirDates`, `SignOutIsFinal` | `OneProofPerAuthorization`, `ProofIsTheMembers`, `SessionsAreDated`, `SignedOutStaysOut` |
| `ReportsProofs` | `TypeCorrect`, `AnswersHold`, `RecordComesFirst`, `Implements`, `RowsKeepTheirTypes`, `CommandsLeave` | `AnswersStand`, `RecordedBeforeTold`, `KeepsItsPromise`, `RowsAreTyped`, `WhatACommandLeaves` |
| `SettingsProofs`, `NamesProofs`, `DiscordProofs` | `TypeCorrect` and the properties of the component | the same properties as the next row and the last of the row above, for the component alone |
| `InstanceProofs`, of the whole | `TagsHold`, `HeadsAreLatest`, `WritersHaveRead`, `ExactHolds`, `SeedsHold`, `IdsKeepRising`, `KeysStayCurrent`, `BurstsAreKept`, `RowsKeepTheirTypes` | `TagsDoNotRepeat`, `CurrentIsTheLatest`, `NothingUnseenIsReplaced`, `ExactIsNeverOutranked`, `SeedsMayBeRunAgain`, `IdsRise`, `KeysAreCurrent`, `BurstIsKept`, `RowsAreTyped` |

In each, an invariant is strengthened to an inductive `IInv`, with a lemma per action; what follows is
the strengthening, and why the property does not stand without it.

**Consensus.**  The invariant is small: `IInv` says that the log is finite, its ids are its own, a kill
withdraws nothing (`Recorded`), the timer has the fields of `types.go` (`Timed`), and everything else
is an instant.  Each law is proved of every state that satisfies it, so of any log in any order of
arrival, any quakes, timer, threshold and clock; `MCConsensus` only shows that such states arise.

The work is in the operators.  No two reports have one `Rank` (`RankRises`), and as many ranks as
reports are all taken (`NumberedIs`, by counting), so `Sorted` has every report once, in its order
(`SortedIs`).  A recursive function exists for every length (`SweepExists`), and the induction over
how far it has come (`AllUpTo`, from the well-foundedness of the numbers) carries `Formed`: the
clusters so far cover the reports passed (`Covers`), one after another (`InOrder`), none wider than
it may be (`Tight`), and none ended where the next report would have joined (`CutOff`).  Each of the
two things one more report can do keeps it (`Extended`, `Started`).  `ClusterLaw` is what `Formed`
says of the end.  `EstimateLaw` counts: as many estimators are at the middle place or before as the
median needs, and an earlier one that split them evenly would have all the later ones after it.

The laws of the whole derivation follow from three facts about clusters that are formed.  `Apart`:
where the sweep cuts, time has passed, so no two clusters begin with one report and estimates rise
from cluster to cluster (`EstimatesRise`).  `SelectedIs`: the choice is the newest cluster, or the
newest that holds it back.  `RivalsGo`: what holds back later holds back now, and a newer cluster
that does so now does so later whenever an older one does.  So the choice at a later instant is the
same or the newest (`ChoiceGoes`), which is `TheClockOnlyReleases`; it could not be said of clusters
whose estimates may cross.

**Projection.**  `OneKindOfStep` sorts every step into a write of the log, of a timer, of a circle, a
reader's step or a tick, with what each leaves alone.  `CacheStep` says what one step can do to one
row: keep it, drop it, push a fresh derivation into it (a timer write, of a live circle), or write
back a reader's draft.  With one lemma per part of the state, `TypeOK` is inductive by itself.

`CacheNeverInvents` is not: `Store` writes a draft taken many steps ago, so the invariant must also
say of every reader in flight that each draft it holds was folded from rows the log has now
(`DraftsFollowTheLog`).  That holds because the log is append-only (`LogGrows`), whatever else the
reader missed.  The inductive invariant is `TypeOK /\ DraftsFollowTheLog /\ CacheNeverInvents`.

The four action properties then need only the shape of a step (`RecomputeShape`, `PushedRow`,
`TimerMoves`, `AddsToOneTarget`): which tables an action writes, and that its recomputation reads
them as the transaction leaves them.  The derivation is not expanded for any of these: they are
about *which* derivation a row holds, so they hold whatever `Consensus` computes.

`RenderedIsDerived` does expand it.  A status is `up` exactly when truncating said so (`UpIsShown`),
and truncating can say nothing but the latest quake or nothing (`UpByIs`), which is why the board may
read `up` back from a column and take the instant from the quakes; and status and window depend on
the log through the estimate alone (`DerivedIs`).  With no row, the empty log forms no cluster
(`NothingToCluster`).

**Admission.**  `IInv` adds to the properties that a request, a setup, a member, a code and a token
each know rows that exist and belong together (`RequestsAre`, `RequestsKnow`, `SetupKnows`,
`MembersKnow`, `CodesKnow`, `TokensKnow`).  A request at a door acts on what it read before a round
trip; what makes that safe is that a row once made keeps its circle and its kind, so the code or the
member a request holds is still about the same circle, and the transaction rereads the rest.

**SignIn.**  `RequestsKnow`, `StepUpsAreTimely`, `TicketsFollow`, `OneEach`, `CookiesKnow`,
`SessionsAgree`, `SignOutsKnow`, `ProofsAreDated`.  A ticket is spent once, so the request that spent it
is the only one that may issue a cookie for it; every value of a session keeps the end and the
person of the first; and the row of a sign-out outlives every value it refuses.

**Ingest.**  `RequestsKnow`, `OneEach`, `IdsAreOld`, `OneRecordEach`, `ToldIsKept`, `AnswersAreInTheLog`,
`OneStory`.  A request that has taken a record holds it until it settles its outcome, since nothing
deletes a record that has not run out; so two requests are never behind one key, and what is said
while the client listens is what its record says, or its record is left in flight by a request that
has gone (`Left`) and nobody says anything else until it runs out (`ToldIsKept`).  The refinement is step by step: `TakeRecord` is
`Remember`, what clears or sweeps a record is `Forget`, `Write` is `Act`, `Flush` is `Tell`, and every
other step changes nothing `ReportLog` speaks of.

**Discord.**  `SentKnows`, `HandlerKnows`, `BindingsAreDecided`, `EditorKnows`, `ReportsSay`: a row of a
channel says what the last decision about it says, a resolved command carries what that was then,
and a report says who pressed enter and which second was signed, which is what makes a redelivery
meet the unique index.

**Settings.**  `Chained` of both ledgers, `CopyKnows`, `DecisionsFollow`: the hashes of a ledger are 1 to
its length, each row names the one before, a copy holds the settings under the tag they came with
and, unless its owner is in `Careless`, a prefix of the ledger, and each decision supersedes the latest about its person.  The code appends a row for each
setting that moves; that this is a chain again takes `PlacesAreTaken`, that counting the moves before
each of them numbers them without a gap.

**Names.**  `Distinct`: no spelling is claimed by two targets; `UpdatesKnow`, `LookupKnows`, `SeedKnows`:
an update knows a target that is there, a lookup has read a table that was in order and of which
nothing has gone since, and of a seed the windows still to come are as they were.  What the shipped
list does is proved by induction over it: `ShipAdds` (one target adds what collides with nothing, and
leaves nothing of itself to add) and `UpTo`, first-order induction from the well-foundedness of the
numbers.

**KeySet, Limiter, Ids.**  Keys: a key in the cached set that is no longer published was withdrawn
after that set was asked for, and a set that has worked is as old as the last attempt.  Bucket: the
tokens taken since any attempt, with what is left, are no more than a burst and what came back until
the bucket was last looked at, and a bucket forgotten as full would be full now; the bound of the
table is part of it.  Ids: the last is after all others.

**Put together.**  `MCReports` and `MCInstance` take one component at a time; a lemma for each
(`PageRuns`, `CatalogueRuns` and so on) shows that such a behaviour is one of the component's own
specification, and the theorem of the component is then carried over.

*Only model-checked.*

- `EventuallyExact`: liveness under strong fairness needs ENABLED, which the provers do not have.
- What the five expected violations show: each is a trace.
- The rest of `Derive`'s record (the order and number of alternatives, the evidence, the basis points
  of a window) is no law of its own; the runs compare it as a whole in `WithdrawnLeavesNoTrace` and
  in the columns of `Projection`.

Every other property of a passing run is a theorem.

## Other disagreements met while modelling

Places where the code does less than a reader of its comments may expect, seen in a model or while
writing one, and not made a run of their own:

- `loadTargets` reads names and aliases in two statements.  An update that moves a spelling between
  name and alias of *one* target in between makes an exact spelling answered by another target's
  prefix, against `resolve.go:26-31`.  `ExactIsNeverOutranked` asks that the target's own row stood
  still.
- `jwks.go:135-136` says a failing issuer is retried at the bounded rate.  With a set that is stale,
  every request asks it again, under the mutex.  `KeysAreCurrent` states the weaker truth.
- `ratelimit.go:112-116` says a newest caller is not tracked and is allowed when the table is full.
  The code forgets some active caller and tracks the newest.  `Retry-After` drops fractions of a
  second, so a client that waits exactly that long may be refused again.
- A Discord report that is delivered again after the typed name has come to mean another target, or
  the channel another circle, is a second row; `dispatch.go:338-353` calls a repeat a replay.
- `RequireIfMatch` takes `If-Match: *` for any version (`etag.go:66`), on settings, circles, members,
  providers and targets.  `catalogue.go:495-500` calls that "correct everywhere else in this API" and
  refuses a bare `*` for an override there is already, as `discord.go:239` does for a binding, since
  it "would let an officer overwrite another officer's update having read nothing".  So an
  administrator may replace settings they never read; and sent with `*`, a settings change is not made
  safe to retry by `If-Match`, as `instance.go:204-206` says it is.
- The write of an idempotent outcome may fail with the client there; it is logged, and the answer is
  sent (`idempotency.go:269-275`, `idempotent_handler.go:104-113`).  "Losing the record costs a
  replay": every retry of that day is told `idempotency_conflict`, and one made later runs again.
- `If-Match` is compared before the transaction for bindings, overrides, targets and circles, so two
  editors may both pass it.  `catalogue.Update`, `circle.Update` and `ChangeProvider` then write every
  column they read on the pool: a concurrent edit of another field is lost (a target un-retired, a
  provider enabled again, the owner-only `revoke_invalidates_invites` set back by an officer).
- A bot may be promoted to owner, and be the last live one.  The `last_owner` backstop may fire for
  an actor revoked between authentication and transaction.
- Invites of several uses that were minted before a circle accepted a weak provider stay so, and an
  invite that a weak officer is inserting lands after `RevokeAllLive`.
- A join that is retried with a single-use invite meets `invite_exhausted` before its replay.  An owner
  grant redeemed by a member who is live already bootstraps but is not used up.
- Setup's steps share no transaction: `acceptProvider` may write back providers it read earlier, and
  the instance step may overwrite a settings change without a ledger row.

## What is not modelled

`PROJECT.json` lists each component with the reason.  In short: protocol clients (Discord, OIDC),
transport, rendering, migrations and backup are I/O; authorization tables are static and checked by
the repository's gates; the console holds no authoritative state.  Within modelled parts: paging,
sorting and wording, audit rows (nothing reads them to decide), zones and expansions, names of
circles and members, the characters of codes and hashes.  The clock of `Limiter` never goes back,
while the code's can.  `Names` leaves out the rows of a seed file that name a target by its id, and
`BeginUpdate` reads a target and its aliases in one step where the code makes two reads.  Ids rise in
the order they are minted (`IdsRise`), which is not the order their rows are committed in.

## Plan

What was planned is modelled, checked and proved.  What would come next:

1. The evidence and the alternatives of an answer as laws of their own: the alternatives are the
   newest live rivals in order, and the evidence counts what the current cluster holds.
2. `circle` and `catalogue` requests at the grain of `Ingest`, with the lost updates that
   "Other disagreements" names as runs of their own.
