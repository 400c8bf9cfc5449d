# Raze Posting, in TLA+

Raze Posting publishes advertising campaigns to Meta for many ad accounts at
once, collects what they spend and earn, and pauses those that miss their
targets. It is an API process and any number of worker processes (Go) around one
PostgreSQL database; the workers take jobs from a table and call Meta's Graph
API. What is hard about it is that real money starts to be spent by a remote
call which may take effect without an answer, from a worker which may die or be
overtaken, while other workers, an operator and a guard act on the same campaign.

This directory holds models of the parts where that matters, checked by TLC on
small instances, and proofs for every instance: every safety property that a
passing run checks is also a theorem.

## 1. Inventory

Paths are under `src/internal/` unless they start with `cmd/` or `docs/`.

| Component | State | Operations | Talks to |
|---|---|---|---|
| Job queue (`platform/database/job_repository.go`) and runner (`worker/runner.go`) | rows of `jobs`: status, attempts, locked_by, locked_until, available_at; a worker's claimed record | Enqueue, Claim (reaps exhausted jobs), ExtendLease, Complete, Fail; claim/heartbeat/close of the runner | calls every handler below |
| Batch creation and launch (`application/batches.go:19`, `launch*.go`) | `batches`, `batch_account_results`, `jobs` in one transaction, then a guard | CreateBatch, Launch, StopBatch | queue, guards, Meta |
| Flat publish (`application/batches.go`, `meta/publisher.go`, `meta/reconciliation.go`) | one account result, `published_objects` rows, the hierarchy at Meta | mark running, reconcile a retry, create campaign/ad set/creative/ad, activate, finish, safety pause | queue, aggregation, Meta |
| Tree publish (`application/batches_tree.go`) | the same for several ad sets and ads | ensure each object, activate | as above |
| Batch aggregation (`platform/database/batch_repository.go`) | `batches` and `batch_account_results` | MarkAccountRunning, FinishAccountResult, RecordAccountRetry, finalisation of dead jobs, recalculateBatch | called by publish and queue |
| Spend guards (`application/guards.go`, `guard_repository.go`) | `campaign_guards`, `guard_checks`, a campaign's local status | evaluate, save check, pause, resume with override, create, edit | Meta, insights, operator |
| Insight collection, inventory sweep (`application/insights.go`, `insights_daily.go`) | snapshots, `ad_entities`, effective status | CollectInsights, SyncAdEntities | Meta, guards |
| Insight jobs (`application/insights_jobs.go`) | coverage rows, backfill target | backfill chunk chain, gap repair, retention sweep | queue, Meta |
| Recurring scheduler (`worker/scheduler*.go`, `insights_cursor_repository.go`) | tickers, a rotation cursor | enqueue per connection and per account | queue |
| Connection sync (`application/sync.go`, `refresh.go`) | connections, ad accounts, assets | discover, reconcile, enqueue first insights | queue, Meta |
| OAuth (`application/oauth.go`, `meta_repository.go`) | sessions, connections, encrypted tokens | start, complete, revoke, expire | Meta, sync |
| Media (`application/media.go`) | upload checkpoints per account | upload, rediscover, wait for processing | publish, Meta |
| Meta client and governor (`meta/client.go`, `throttle.go`) | pressure and block per key | call with retries, wait, observe | every caller of Meta |
| Duplication, tracker, users and tenancy, HTTP, crypto, storage, config, web UI | various | request handling and data transformation | |

Interactions that matter: the queue runs handlers at least once and may run two
at a time when a lease is lost; the publish handler owns its result row only
through conditional updates; several results share one batch row; a claim that
buries an exhausted publish job closes its result in the same transaction; the
guard job, the operator, the sweep and the collector all write a campaign's
status, at Meta or locally; `StopBatch` and the guard decide by local status.

What makes the components correct:

* *queue*: a job runs under one valid lease; only its newest attempt closes it;
  attempts are bounded; every job ends;
* *publish*: no duplicates at Meta, no spend through an incomplete hierarchy, no
  work under a spending campaign, a successful result describes what exists, an
  unsuccessful one does not spend, the result ends with the job;
* *aggregation*: the batch tells the truth about its results, for good once it
  has succeeded; its transactions wait in a cycle in known ways only;
* *guards*: rungs are judged in order, decisions stick, a breach is stopped;
* *scheduler*: the recurring job of a connection comes round, no account is handed
  out twice in a round, every account is served again and again;
* *history*: no day is marked that is not stored; the backfill arrives although
  its chain breaks;
* *campaigns*: the workspace follows Meta, every launched campaign gets its figures;
* *launch*: a repeated or racing request ends with one batch, its own or a
  conflict; the batch does not go out without the guard it was promised (it can);
* *inventory*: overlapping syncs leave behind what Meta lists;
* *client*: a list comes back whole, a create is sent once, a call ends;
* *OAuth and connections*: a state is used once; a connection goes out of use only
  when Meta refuses its token, and does go out of use then;
* *media*: one id per medium and account, given out only when Meta is done with it.

`PROJECT.json` lists the hazards behind these, each at its line and with the
property that would catch it or the reason why there is none yet.

## 2. Modules

`JobLifecycle` is the abstract promise of the queue about one row: started at
most `MaxAttempts` times, a number of its own for each start, closed by its
newest attempt only. It has no clocks, leases or worker names.

`JobQueue` is the queue and the runner in detail. `status`, `attempts`,
`lockedBy`, `lease`, `wait` are the columns; `phase`, `job`, `attempt`, `timer`
what a runner knows. Every repository method takes a `now` that its caller read
before the call, so a late call acts on an old time. The model keeps times
relative to the present and `timer` is the age of the `now` in hand; this needs
no ever-growing clock and keeps exactly the comparisons the SQL makes. Each
repository call is one action, a commit whose reply is lost included; a crash is
possible everywhere. `left` is a ghost: what remains of the lease that the
worker last secured.

`Publish` is one account result and the attempts that work on it. An attempt is
a process; each call it makes to Meta or to the database is a step that
succeeds, fails, or takes effect and still reports an error. Its queue is
`JobLifecycle`, instantiated, so what holds of the promise need not be modelled
twice. Objects are named by kind and creating attempt because every object of a
result carries one marker in its name. `Overlap` says whether an attempt may
start while an older one still runs; see section 4.

`TreePublish` is the same for the second publish path, a campaign with several ad
sets and ads. `Ads` is its shape: the number of ads of each ad set. Every place
of the tree is ensured in turn: resumed from its row, found at Meta by its
unique name and parent, or created; `row` and `shown` are the checkpoints by
place, `known` what an attempt has ensured so far. A retry pauses the campaign
as soon as it knows it, before anything below it; activation goes from the ads
up. Attempts do not overlap here; what an overlap does is shown in `Publish`.

`BatchAggregation` is the SQL of the aggregation, statement by statement, with
row locks and READ COMMITTED views: a transaction sees its own writes and what
was committed when the statement began, and waits for locked rows. `owner` holds
the rows a session has updated or locked `FOR UPDATE`. The foreign keys of
`published_objects` are locks too (`shares`): a finish that inserts the row of an
object whose checkpoint failed, and a checkpoint of its own, share the batch `FOR
KEY SHARE` with each other and with an update, but not with `recalculateBatch`'s
`SELECT ... FOR UPDATE`. A cycle of waits is a state here; PostgreSQL ends it by a
`RollBack`, always possible.

`Guards` is one published campaign under a batch guard and a guard of its own:
the evaluation (one call per step), the operator's pause, resume, guard creation
and edit, Meta's figures, the inventory sweep and the collector's status
refresh. `remote`, `local` and `inventory` are the three copies of the status.
`faulty` starts TRUE and becomes FALSE for good at a moment of TLC's choosing:
after it the evaluation's own calls succeed. It is how "if the calls stop
failing" is said in `BreachStops`.

`Connections` is one Meta user's connection: the sessions an operator starts, the
callbacks that complete them (`CompleteOAuth`, a step per call), the syncs of the
connection, its revocation. `status` and `token` are the row of
`meta_connections`; `fate` is what Meta would say of each token, named by the
session whose code it was exchanged for. No writer of the row looks at what it
holds, so every writer's step comes as late as it likes; a sync carries the token
it loaded. The other workflows that read the token treat a refusal as the sync
does (`markConnectionExpiredForMetaError`) and are not repeated. `faulty` is as in
`Guards`.

`Launch` is the launch requests under one idempotency key (`launch.go`,
`CreateBatch`, `CreateGuard`): `batch` is the row of the key, `guards` its guards,
`request` where each request stands. Batch, results and jobs are one transaction,
the guard is another call, which looks at the interval of the request (`good` or
`short`) for the first time; between any two a request may be lost and be sent
again, and two may race for the unique key.

`Media` is one medium on one account (`uploadMediaForAccount`): `row` is the
checkpoint, `remote` Meta's copies, `job` the publish jobs that want it. An image
is one copy however often it is uploaded, a video is a new one each time; the
search by title may see any part of them, and several jobs wait, mark and return.

`Client` is one call to Meta: tries (`doWithClientRetries`), the governor's wait,
pages (`CollectPagesWithMeta`) and smaller pages after an oversized answer
(`CollectPagesAdaptive`). `call.got` says how often each object is in the result
so far; `steady` and `made` are history. `blocked` and `pressed` are what the governor knows; other calls of
the account appear only in what it hears. A sleep has no length.

`Inventory` is the ad accounts and assets of one connection: `reach` is what Meta
lists, `usable`, `access`, `active` the tables, `sync` the syncs under way. A
discovery may miss an edge; upserts are row by row; `Reconcile` is one READ
COMMITTED transaction whose locks and unseen deletes are kept in `taken` and `off`
until it commits. Simplified: the edges a discovery does not miss are read at one
instant, and the DELETEs of `Reconcile` on one table are one step; what either
hides is repaired by a later sync, which is all `InventoryConverges` asks.

`Rotation` is the cursor over the ad accounts of one level (`DueAdAccounts`) and
the passes of the scheduler processes that share it. `servable` is the list the
query sees, which changes between passes; `lap` and `list` are history, what was
handed out since the cursor was at the start.

`Recurring` is the one active job of a connection: two lanes with keys of their
own, and an enqueue of three calls (look, insert, look again) over the partial
unique index. Intervals are counted modulo 2.

`History` is the insight history of one account and level: `target`, `row` and
`inventory` are the row of `ad_account_sync_state`, `covered` the coverage rows,
`stored` the daily rows, `job` the backfill jobs, `spent` the keys that are
taken by finished ones. Time is in `Tick` (keys of a minute or an hour pass) and
`NextDay`. A day's rows and its mark are separate steps, with retention between.

`Campaigns` is the campaigns of one account as the workspace knows them:
`graph` is Meta, `entity` the inventory (`ad_entities`), `published` the launched
ones (`published_objects`), `sweep` the audits under way with the list each has
read, `collector` a collection with the rows and inventory it has loaded, `oper`
the operator's request (status, delete, duplicate) between its calls.

Several of these have no state in common that their properties speak of.
`Collection` (Rotation, Recurring, History, Campaigns) and `Launching` (Client,
Launch, Media, Inventory, Guards) therefore instantiate them side by side and let `part`,
chosen in the first state, say which one moves: each behaviour is one of a single
component, the state space is the sum and not the product, and a component's
property is checked on all its behaviours. `Part` is the set `part` is chosen
from; where `Init` offers several initial states, a component that does not move
takes one of them. Where the components do meet, the meeting is modelled inside
one: the key of a finished job in `History` and `Recurring`, the sweep and the
collector in `Campaigns`.

`MCJobQueue`, `MCTreePublish` and `MCLaunching` define the constants a `.cfg` cannot
express. `Collection`, `Publish`, `BatchAggregation` and `Connections` are instantiated by
their `.cfg` files alone, and so are `Guards` and `Launch` where one of their own
questions is asked. Operators marked *Mutation* are variations of the one
they precede, each the shape of a plausible slip in the code; no behaviour uses
them, and exchanging one for its original makes TLC report the property listed
with it in `PROJECT.json`.

## 3. Runs

| Run | Instance | Shows |
|---|---|---|
| `job_queue` | 2 runners (one may stall), 2 jobs of different priority, 2 attempts, lease 4, lag 1; 135 thousand states | lease exclusion, fencing, heartbeat, refinement of `JobLifecycle`, every job ends |
| `publish` | 3 attempts, no overlap; 22 thousand states | the publish properties above |
| `tree_publish` | 3 attempts, 2 ad sets with 2 ads and 1 ad; 103 thousand states | no duplicate at any place, a spending campaign is whole, work only under a paused one, a successful tree hangs together, the result ends |
| `batch_aggregation` | 3 results, 2 sessions; 772 thousand states | truth of the batch row, every deadlock of a known kind, success is final |
| `connections` | 2 sessions, 1 callback at a time, 2 syncs; 570 thousand states | a session serves once, a connection consented to once goes out of use only when its token is refused, a refused token does not stay active |
| `collection` | Rotation: 3 accounts, 2 processes, slices of 2, 1 change of the list; Recurring: 2 passes; History: 2 days, 2 days of backfill, 2 jobs at once on the first and 1 on the second; Campaigns: 2 campaigns, chunks of 2, 2 sweeps, 1 request or change; 346 thousand states | disjoint slices; no day marked that is not stored; accounts, connections and campaigns come round; the workspace follows Meta; the backfill arrives |
| `launching` | Client: 3 objects, 1 retry, page sizes 2 and 1, 3 pages, 1 change; Launch: 2 requests, 2 specifications, 2 ladders; Media: 2 jobs, 3 videos; Inventory: an account, a pixel, an Instagram account, 2 syncs; Guards: 2 rungs, spend 0..2, yield 0..1, 1 request; 293 thousand states | whole lists, creates sent once, calls end; a launch keeps its word; one id per medium; the inventory converges; ladder order, a breach is stopped |
| `publish_spend`, `publish_stop`, `publish_overlap`, `guards_override`, `launch_guard` | 2 attempts; one rung; one request | the five disagreements of section 6 |

*Bounds.* Two runners are enough for a claim, an expiry and a late close to
meet; a third would only add another owner, and the safety part is proved for
any number. Two attempts give the queue a retry and a last attempt. Three
attempts give a publish retry that itself dies before one that succeeds, which
is what reconciliation of reconciled objects needs. Two ad sets, one of them with
two ads, are the smallest tree in which siblings have an order and an ad can end
up under the wrong parent. With three results and two
sessions, one transaction can reap two results while another holds the batch and
a third result stays open. Two rungs are needed for an order; spend 2 reaches
both; one request lets the operator act at any one point, and the safety part is
proved for any number. One request is a real limit of `BreachStops`, which no
proof covers. Yields 0 and 1 leave out the edit that asks more of a checkpoint
already passed; `PassedKept` is proved for every yield. Two sessions are a consent
and a second one; two syncs let one finish late beside another. One callback at
a time still presents a state again after a lost answer; callbacks side by side
are covered by the proof, which holds for any number.

The instances of `collection` and `launching` are the smallest in which their
cases happen. Three accounts and slices of two make a round of two slices, the
second of them short; two processes interleave their passes; one change of the
list falls into any place of a round. Two passes are enough to race for an
insert. The target of the backfill is two chunks away. Two backfill jobs and days
that pass multiply, so `LateSlot` leaves one job when the first day is over: two
chains meet on the first day, and a chain, a collection and its rows live to see
the next one and the retention sweep. Two campaigns share a chunk; two
sweeps hold lists of different ages; the one request or change comes at any
point of them. Three objects in pages of two make a second page, one of one a
third, which is also the limit of pages. Two ladders and two specifications let
requests under one key differ in either. Three videos let two jobs upload and one
repeat. One account, an asset that only accounts list and one that accounts or
pages list are enough for every case of `Reconcile`: assets move between an account
and the pages and go, the account goes, and comes back.

*Deadlock* is checked except in `Publish` and `TreePublish`, where the system stops
when the job is over and no attempt is left. In `Connections` it says nothing: the
sweep of pending sessions is always possible.

## 4. Fairness and assumptions

* *Queue.* Time passes; a database call returns or errors (the code sets it no
  deadline of its own: this is assumed of driver and database); a handler returns. A runner that does not stall
  polls again, and its claims go through now and then however often the
  database errs (`SF` on a claim that changes a row). Nothing is assumed of a
  stalled one.
* *Lease.* `LeaseAssumption`: one slow claim, one heartbeat period and one slow
  heartbeat fit into a lease. By default a lease is five minutes and a heartbeat
  comes every 100 seconds, which leaves 100 seconds for each of the two calls. It is what makes `HeartbeatKeepsLease` true.
* *Publish, TreePublish.* `Overlap = FALSE` in the passing run (`TreePublish` has no
  other mode): an attempt is over before the
  next one starts. That holds when the handler stops once its job context is
  cancelled, before its lease ends. `runner.go:241-243`, where the heartbeat ends
  silently on a context error, is how it can fail, and `publish_overlap` shows
  what then happens. The properties that say `~overlapped` are the ones that rely
  on it; `WholeWhenActive` and `JobClosesResult` are stated without.
* *Guards.* One evaluation at a time (`uq_jobs_recurring_active` and the lease).
  The evaluation's calls return; each active guard comes due again and again; the
  sweep and the collector go on (stated in `Guards` and, for its component, in
  `Launching`). `BreachStops` needs no luck beyond `faulty`
  settling: it is vacuous in a behaviour whose calls fail for ever, as the code's
  promise is.

* *Connections.* Callbacks, syncs and revocations under way go on (a handler runs
  to its end or is lost); the scheduler's discovery comes round again and again.
  Nothing obliges anyone to start, repeat or revoke a consent. `RefusedEnds` is
  vacuous while calls fail for ever: the write of the status may then fail each
  time.
* *Collection.* Tickers fire again and again; every process takes the steps of its
  pass; the runner claims and finishes the job of a connection; discovery, sweeps
  and collections come round; minutes and hours pass (`Tick`; days need not).
  Requests already begun end. All of it is what `Scheduler.Run`'s tickers and the
  queue's `EveryJobEnds` give. No operator, list change or retention is obliged to
  happen, and each liveness property waits for `faulty` to settle, or is about
  accounts, connections and campaigns that stay. Each condition is
  about one component, and says nothing when another is the one that moves.
* *Launching.* A call goes on to an answer or its deadline (`CallStep`; the context
  is the deadline that may come at any point), syncs are queued and take their
  steps, guards go on as said above. Nothing is assumed of launches and uploads,
  which have safety only.

## 5. Proofs

Eight modules hold theorems, checked by TLAPS, for every value of the constants
that meets the named assumptions (`LeaseAssumption`, `TreeAssumption` and so on;
`LaunchingAssumption` and `CollectionAssumption` gather those of the components).
TLC evaluates each of them on the values the runs give. They say that numbers are
numbers, that sets which are counted are finite, and what the code's own limits
say of one another. Beyond them only `Overlap = FALSE` is a hypothesis, of every
theorem of `PublishProofs`.

*`PublishProofs`.* All six invariants of `Publish`, for any number of attempts, as
long as they do not overlap. None is inductive: whether an object may be created,
activated or recorded depends on what the attempt at work knows. `Inv` says what
that is. `World` is the hierarchy at Meta: one object of a kind, each under its
parent, rows and active objects that exist. `KnownIsReal` and `Creating` tie the
attempt to it: each ID it goes by exists, and from `uploading` on it knows *all*
there is (`KnowsAll`), so the object it creates is the first of its kind. A retry
gets there by checkpoint or by search, and `NoneBelow` is the heart of it: creation
follows the hierarchy and the search the parent, so where a search finds nothing
there is nothing of that kind or below it. A first attempt gets there because
nothing exists before a result is marked running (`Untouched`), and that is why
`seen` is read before it. `Paused` is the preflight pause carried to the last
create; `Delivers` the bottom-up order; `Ending` and `AllRecorded` follow the
success into the rows. An attempt that is over leaves a blank (`Alone`), so each
step has one attempt to speak of (`Frame`), and `IdleKeeps` serves the queue's steps.

*`JobQueueProofs`.* `LeaseExclusive`, `CloseFenced` and the refinement are not
inductive: nothing in them says that the record a worker holds came from the
row. `IInv` adds that running rows are locked and started (`RowsOK`), that a busy
worker holds an attempt the job really had (`HeldOK`), that two workers never
hold the same attempt (`AttemptsDiffer`), that the row names the holder of its
newest attempt (`NewestLocked`), and what the ghost `left` and the heartbeat
timer are worth. The heart of the argument is arithmetic on ages: a claim takes
a running job only when `lease <= -timer`, hence only when the lease last secured
has run out in true time. The refinement maps `inFlight` to the attempts of
busy workers, one case per action.

*`BatchAggregationProofs`.* The invariant is about transactions in progress: who
has written a result or the batch holds its lock, what a transaction is about to
commit as the batch row was counted on a view that the committed results cannot
have left, because every transaction that changes a result also writes the batch
and so waits for the lock. `BatchTruth` follows at each commit; `SuccessKept`
because a succeeded result is left by no operation. `KnownDeadlocks` is about waits
of any number of transactions. Its invariant says what a transaction holds when it
asks for a lock: whoever processes one result holds nothing before it has the
result's row, whoever has the batch row asks for nothing but another result, and
only a finish or a checkpoint shares the batch. So in a cycle nobody waits for a
result without waiting for someone at the batch, and there only the three kinds are
left.

*Guards* (`GuardsProofs`: lemmas on one step; the theorems are in `LaunchingProofs`).
`LadderClimbs` is not inductive without `AtHand`: the
evaluation stands at a rung whose predecessors are already settled on record,
not only in the copy of the checks it read. That rests on the facts that only
the evaluation writes checks other than an override, and that an override only
settles more. The operator's requests are unbounded here.

*`ConnectionsProofs`.* `SessionOnce` needs `CallbackInv`: a callback at work has
consumed its session, so no later `Consume` can take it. `OutOfUseIsRefused`
needs to know that a write in preparation will still be right when it comes:
`SpentInv` says that while there is one consent, a sync or a revocation about to
put the row out of use has already seen its token refused, and a refusal is for
good; `HolderInv` ties what they carry to tokens that were issued. Lemmas on who
comes to write what (`SyncTurns`, `RevokeTurns`, `StatusTurns`) carry the step.

*`TreePublishProofs`.* The same five invariants for trees of any shape and any
number of attempts. The argument is that of `PublishProofs` with an order in place
of the four kinds: a place has its turn when every place before it is known, and
the places an object hangs from come before it (`HangsFrom`), so what is created
hangs from objects that exist and are the only ones at their places. `Ensuring`
says that what a first attempt has in hand is *all* there is, and that what a
retry creates was looked for by its unique name and is nowhere. `WholeWhenActive`
needs the order of activation as well: the campaign is activated last, when `done`
holds every other place and each of those is active (`Activating`); until then the
campaign is paused (`Paused`), which is `WorksPaused`. Turns are least elements of
finite sets of numbered places (`LeastNumber`, by well-founded induction).

*`LaunchingProofs`* and *`CollectionProofs`* are about the two compositions. Their
invariants are conjunctions with one part for each component, and `OneMoves` says
why that is enough: a step is one of one component and leaves the variables of the
others alone.

*Launch.* With the types, `LaunchKeepsItsWord` is inductive but for `OnItsWay`: a
request at its guard has checkpoints, and one that ran into a batch finds it
there. The batch of a key changes once, and until then no guard exists and nobody
has been answered with a batch.

*Media.* `SameMedia` needs `InHand`, what each job carries: an id it waits for is
the row's, and a verdict *ready* in hand is true at Meta, where what is ready stays
ready. So the last verdict may overwrite any other (`Mark` looks at nothing)
without `RowIsTrue` failing, and the row keeps its first id.

*Client.* `CallKeepsItsWord` for every list, page size, number of pages and retries.
A list is whole because of `FetchedSoFar`: all that stayed listed up to the place
the next page starts at is in the result, once, and nothing behind that place is.
A page is the first objects behind a place (`PageIsFirst`), so it continues the
result whatever its size, and a page made smaller after an oversized answer starts
at the same place (`PageAdds`). The last page has everything that is left. That a
create is sent once is `NotYet`: as long as it can be sent it has not been carried
out.

*Inventory.* Its types, for any accounts, assets and syncs.

*History.* `CoveredIsStored` says nothing of a job between its two statements;
`ToMarkIsKept` does: what a collection or a chunk is about to mark is stored, or
behind the retention horizon. Retention keeps that because it deletes behind the
horizon only, and the horizon moves forward only.

*Rotation.* `DisjointSlices` needs to know where the cursor stands:
`CursorIsBehind` says that in the middle of a round it is within the list it was
moved on and not before any account handed out. The accounts are any finite set
of numbers; places are cardinalities. That a pass which takes a slice takes some
account (`PassesHaveWork`) rests on the least account behind the cursor.

*Recurring and Campaigns.* Their types, for any number of passes, campaigns and
sweeps; among them that a status refresh under way has a campaign left to ask for.

*Only model-checked.* Attempts of `Publish` that overlap, which `publish_overlap`
shows to break `JobClosesResult`. All liveness (`EveryJobEnds`, `ResultEnds` of both
publish modules, `BreachStops`, `RefusedEnds`, `WorkComesRound`, `HistoryArrives`,
`CallEnds`, `InventoryConverges`), since the prover has no fairness or ENABLED. The promises of
`Inventory`, `Recurring` and `Campaigns` are among these, so only their types are
theorems. Proved and not run: `PassedIsFinal` of `Guards`.

## 6. Disagreements found

1. `publish_spend`: `batches.go:400-402` says an ACTIVE campaign is never left
   spending while its success is not durable. A crash after activation on the
   last attempt, a failed pause there, or a token that does not load on a retry
   (the result ends before the preflight pause, `batches.go:281-284`), leaves one.
2. `publish_stop`: `launch_stop.go:24-27` says the place that starts spending
   can stop it. It skips objects recorded as PAUSED, which an activated campaign
   is when its activation was never recorded.
3. `publish_overlap`: `job_repository.go:307-311` says an exhausted job leaves no
   result running. A stale attempt can mark the failed result running again.
4. `guards_override`: `guard_repository.go:137-139` says an overridden check is
   never downgraded to failed. `SaveCheck` reads and then updates without a lock.
5. `launch_guard`: `src/README.md:65` says the ladder is attached atomically with
   the batch, and `launch.go:66-68` calls a guard rejected after the batch went out
   "the one outcome this endpoint exists to prevent". The guard is a transaction of
   its own after the batch's. An interval below a minute is refused only there
   (`guards.go:54-56`), and an insert that fails ends the same way: the caller gets
   an error and the batch publishes without its ladder. `LaunchKeepsItsWord` says
   what is left: an answer *without* a warning has its guard.

Further observations, each in the state space of the module named or seen while
writing it; none has a run of its own.

*Where documents and code differ.*

* `README.md:47` and `docs/operations.md:16` say Insights are never deleted on a
  schedule; `RunRetentionSweepJob` deletes daily rows behind `INSIGHTS_RETENTION`
  (`History`).
* `DeleteCampaign` (`guards.go:488-491`) says a campaign disappears from the
  workspace. A launched one loses its `published_objects` row, its row in the
  inventory stays, and `campaignViews` then lists it as a discovered one with its
  last status, also after the sweep that finds it gone (`Campaigns`, `DeleteLocal`).
* Creates are sent once (`PostJSONNoRetry`), but a campaign copy, a create as well,
  goes through `PostJSON` (`copy.go:41`): a lost answer can leave two copies
  (`Campaigns`, `Copy`).

*What the design leaves open.*

* The key of a chained backfill job has the minute in it: a chunk that ends within
  a minute finds its own row and the chain stops. The hourly initial sync starts
  it again, which is why `HistoryArrives` holds (`History`, `ChainChunk`).
* Whoever creates the row of `ad_account_sync_state` decides on its target: if a
  sync or a poll does so before the seeding, the target stays NULL and there is no
  backfill. `HistoryArrives` speaks of recorded targets only.
* Jobs for gap repair and windowed reach have handlers and no caller enqueues them.
* A launch whose request is lost after its batch was committed leaves it without a
  guard until it is sent again, and a retry with other checkpoints adds a second
  guard (`Launch`).
* Two publishes of a batch that end at the same time deadlock when each has an
  object to insert whose checkpoint failed: both share the batch and want it `FOR
  UPDATE`. PostgreSQL aborts one, after its campaign may have been activated. To
  `Publish` that is an outcome whose commit fails (`FinishFails`): the campaign is
  paused, the job retried. A claim that buries several jobs, and a checkpoint beside
  a finalisation of its result, are the other two kinds (`DeadlocksAreKnown`).
* An empty audit hides nothing, so the last campaign of an account stays shown as
  live; `WorkspaceFollows` speaks of accounts with a campaign left (`Campaigns`).
* The snapshots of a chunk are lost together when one of its campaigns is deleted
  here meanwhile; the next collection has them again (`Campaigns`, `KeepChunk`).
* Two videos of one title stay ambiguous: every publish that needs the video fails
  until one of them goes (`Media`, `Search`).
* Two reconciliations that overlap at READ COMMITTED can each leave a pixel without
  access to the other to deactivate; `InventoryConverges` is weaker there.
* The sync after a duplication has a constant key, so a second duplication of the
  same campaign queues none (`duplicate.go:49`).
* The governor's `BlockedUntil` is there for a scheduler to skip a tenant
  (`throttle.go:22`) and no scheduler asks it; a wait is capped below a long block.
* A guard edit keeps decisions by the index of their checkpoint (`guards.go:104`);
  `docs/guards.md` says that passed checks are kept, not for which checkpoint.
* A sync in flight makes a connection active that was expired or revoked meanwhile,
  until the next discovery meets the refusal; after a second consent, a write meant
  for the first token puts the connection out of use although the new token is
  good. `OutOfUseIsRefused` is stated for a single consent for that reason.

## 7. Not modelled

* Gap repair and windowed reach (never enqueued), `Cancel` of a job, `SetStatus` of
  a batch, `UpdateToken` and `Delete` of a connection (no caller).
* `SaveMedia`; businesses; watermarks, failure counts and other columns that are
  written and never decide anything.
* Validate-only publishing and requests that do not decode (no state at Meta).
* Several operators at once, on guards or campaigns.
* In `BatchAggregation`, the wait for another transaction's uncommitted row of the
  same object. It is always for or by a checkpoint, one statement that holds no lock
  while it waits so; the locks a cycle needs are the modelled ones. The rows of jobs,
  which `Claim` and `Fail` lock before any result, and of connections and ad accounts,
  which nothing locks `FOR UPDATE`.
* The content of specifications, metrics, names and tracker figures; lengths of
  delays; retries inside one call of a handler, which `Client` has by itself and the
  handlers' modules see as one step with three outcomes.
* HTTP decoding, users and tenancy, encryption, file storage, configuration,
  migrations, web UI, deployment: request handling, pure functions and text. Their
  state machines, where they have one, are single statements.

## 8. What is left

In order of what can go wrong with money first:

1. `WholeWhenActive` of `Publish` for attempts that overlap, and what is left of
   `JobClosesResult` then.
2. An abstract publish, "exists whole and active, or does not spend", for both
   publish modules to implement as far as they do.
3. StopBatch as an action that races the publish of several results.
4. Overlapping attempts in `TreePublish`; a second operator in `Guards`.
5. The one active job of `Recurring`, for any number of passes.
