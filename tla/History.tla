------------------------------ MODULE History ------------------------------
(***************************************************************************)
(* The insight history of one ad account at one level: seeding on          *)
(* discovery, the live and look-back collections, the backfill chain that  *)
(* walks backwards a chunk at a time, and retention                        *)
(* (internal/application/insights_jobs.go, insights_daily.go, sync.go).    *)
(*                                                                         *)
(* Days are numbered; the account is connected on FirstDay.  A daily row   *)
(* and a coverage row are written by separate statements, and any job may  *)
(* die between two of them and be retried or given up.  Each level of an   *)
(* account has a chain and coverage of its own and shares only the row of  *)
(* ad_account_sync_state, whose target is written once for all of them.    *)
(* The columns nothing reads (the watermarks, failure counts, last error)  *)
(* are left out, their writes remain as points where an attempt can fail.  *)
(***************************************************************************)
EXTENDS Integers

CONSTANTS
  FirstDay,       \* the account's day when its connection is first discovered
  LastDay,        \* bound: the last day
  BackfillDays,   \* INSIGHTS_BACKFILL_DAYS
  ChunkDays,      \* backfillChunkDays of the level
  LookbackDays,   \* INSIGHTS_LOOKBACK_DAYS
  RetentionDays,  \* INSIGHTS_RETENTION
  Slot,           \* bound: backfill jobs pending or running at once
  LateSlot        \* bound: those of them left when FirstDay is over

HistoryAssumption ==
  /\ FirstDay \in Nat /\ LastDay \in Nat /\ FirstDay <= LastDay
  /\ BackfillDays \in 1..FirstDay /\ ChunkDays \in Nat \ {0}
  /\ LookbackDays \in Nat \ {0} /\ RetentionDays \in Nat
  /\ LateSlot \subseteq Slot

VARIABLES
  today,      \* the account's calendar day
  known,      \* the ad account is in the inventory
  row,        \* it has a row in ad_account_sync_state
  target,     \* backfill_target_date: {} for NULL, else the one day
  inventory,  \* entities_synced_at is set
  covered,    \* ad_insights_coverage
  stored,     \* the days whose ad_insights_daily rows are written
  discovery,  \* SyncConnection
  poll,       \* the days a CollectAccountInsights at the live edge has stored and not marked
  job,        \* the backfill jobs
  spent,      \* the dedupe keys of this moment whose job has ended
  faulty      \* may calls still fail, processes die?

processVars == <<discovery, poll, job, spent>>
vars == <<today, known, row, target, inventory, covered, stored, discovery, poll,
          job, spent, faulty>>

Day  == 0..LastDay
Key  == {"seed", "hour", "minute"}   \* by what a job's key changes with: nothing, the hour of
                                     \* an initial sync, the minute of a chained chunk; "past"
                                     \* stands for one no enqueue makes any more
Span(since, until) == {d \in Day : since <= d /\ d <= until}

NoJob == [at |-> "free", key |-> "past", days |-> {}]

TypeOK ==
  /\ today \in Day /\ known \in BOOLEAN /\ row \in BOOLEAN /\ inventory \in BOOLEAN
  /\ target \subseteq Day /\ (target # {} => row)
  /\ covered \subseteq Day /\ stored \subseteq Day
  /\ discovery \in {"idle", "seeding", "queueing"}
  /\ poll \subseteq Day
  /\ job \in [Slot -> [at : {"free", "pending", "marking", "chaining"},
                       key : Key \union {"past"}, days : SUBSET Day]]
  /\ spent \subseteq Key /\ faulty \in BOOLEAN

Init ==
  /\ today = FirstDay /\ known = FALSE /\ row = FALSE /\ target = {} /\ inventory = FALSE
  /\ covered = {} /\ stored = {}
  /\ discovery = "idle" /\ poll = {}
  /\ job = [j \in Slot |-> NoJob] /\ spent = {} /\ faulty = TRUE

-----------------------------------------------------------------------------
(* The job queue: a row with the same key, whatever its status, absorbs an *)
(* enqueue.                                                                *)

Absorbs(k) == k \in spent \/ \E j \in Slot : job[j].key = k

Open == IF today = FirstDay THEN Slot ELSE LateSlot
Free == {j \in Open : job[j].at = "free"}

Pending(k) == [at |-> "pending", key |-> k, days |-> {}]

EnqueueBackfill(k) ==
  IF Absorbs(k) THEN UNCHANGED job
  ELSE \E j \in Free : job' = [job EXCEPT ![j] = Pending(k)]

(* The job in slot j ends; its row keeps its key taken. *)
SpentBy(j) == spent \union ({job[j].key} \ {"past"})

(* Time goes on: the keys with this minute, or this hour, in them are not made any more. *)
Tick(past) ==
  /\ past \in {{"minute"}, {"minute", "hour"}}
  /\ spent' = spent \ past
  /\ job' = [j \in Slot |-> IF job[j].key \in past THEN [job[j] EXCEPT !.key = "past"]
                            ELSE job[j]]
  /\ UNCHANGED <<today, known, row, target, inventory, covered, stored, discovery,
                 poll, faulty>>

NextDay ==
  /\ today < LastDay /\ today' = today + 1
  /\ \A j \in Slot \ LateSlot : job[j].at = "free"
  /\ UNCHANGED <<known, row, target, inventory, covered, stored, processVars, faulty>>

Calm ==
  /\ faulty /\ faulty' = FALSE
  /\ UNCHANGED <<today, known, row, target, inventory, covered, stored, processVars>>

-----------------------------------------------------------------------------
(* Discovery, run again every interval: it stores the accounts it finds,   *)
(* seeds their tracking, and queues an initial sync of each.  An error of  *)
(* the seeding, or of a single enqueue, is reported and passed over.       *)

BeginDiscovery ==
  /\ discovery = "idle"
  /\ discovery' = "seeding" /\ known' = TRUE
  /\ UNCHANGED <<today, row, target, inventory, covered, stored, poll, job, spent, faulty>>

(* Mutation: the target is noted without the row. *)
EnsureTarget(day) ==
  /\ UNCHANGED row
  /\ target' = IF row THEN target ELSE day

(* Ensure inserts or does nothing: whoever creates the row decides on its target. *)
Ensure(day) ==
  /\ row' = TRUE
  /\ target' = IF row THEN target ELSE day

(* The enqueue of the first chunk may fail; it is made only for an account never synced. *)
SeedTracking ==
  /\ discovery = "seeding" /\ discovery' = "queueing"
  /\ Ensure({today - BackfillDays})
  /\ \/ ~inventory /\ EnqueueBackfill("seed")
     \/ (inventory \/ faulty) /\ UNCHANGED job
  /\ UNCHANGED <<today, known, inventory, covered, stored, poll, spent, faulty>>

(* Mutation: of the initial sync only the polls are queued. *)
EnqueueInitialPolls ==
  /\ discovery = "queueing" /\ discovery' = "idle"
  /\ UNCHANGED <<today, known, row, target, inventory, covered, stored, poll, job, spent, faulty>>

EnqueueInitial ==
  /\ discovery = "queueing"
  /\ EnqueueBackfill("hour") /\ discovery' = "idle"
  /\ UNCHANGED <<today, known, row, target, inventory, covered, stored, poll, spent, faulty>>

(* A step fails and the next one goes on, or the worker dies. *)
DiscoveryFails ==
  /\ faulty /\ discovery # "idle"
  /\ discovery' \in {"queueing", "idle"}
  /\ UNCHANGED <<today, known, row, target, inventory, covered, stored, poll, job, spent, faulty>>

-----------------------------------------------------------------------------
(* The recurring jobs of a known account. *)

SyncAdEntities ==
  /\ known /\ ~row /\ Ensure({})
  /\ UNCHANGED <<today, known, inventory, covered, stored, processVars, faulty>>

(* A sync of entities always has its Ensure behind it; which sync it is does not matter. *)
MarkEntitiesSynced ==
  /\ known /\ row /\ ~inventory /\ inventory' = TRUE
  /\ UNCHANGED <<today, known, row, target, covered, stored, processVars, faulty>>

(* Mutation: the range is marked before it is stored. *)
MarkThenStorePoll ==
  /\ known /\ poll = {}
  /\ \E last \in FirstDay..today, days \in {1, LookbackDays} : poll' = Span(last - days, last)
  /\ covered' = covered \union poll'
  /\ Ensure({})
  /\ UNCHANGED <<today, known, inventory, stored, discovery, job, spent, faulty>>

(* A collection fetches and stores a range frozen when it was queued, on that day or before:  *)
(* yesterday and today, or the look-back.  (The initial sync counts its days in UTC; here they *)
(* are the account's.)                                                                         *)
StorePoll ==
  /\ known /\ poll = {}
  /\ \E last \in FirstDay..today, days \in {1, LookbackDays} : poll' = Span(last - days, last)
  /\ stored' = stored \union poll'
  /\ Ensure({})
  /\ UNCHANGED <<today, known, inventory, covered, discovery, job, spent, faulty>>

MarkPoll ==
  /\ poll # {} /\ covered' = covered \union poll /\ poll' = {}
  /\ UNCHANGED <<today, known, row, target, inventory, stored, discovery, job, spent, faulty>>

(* An attempt that fails or dies stores its range again, or never marks it. *)
PollFails ==
  /\ faulty /\ poll # {} /\ poll' = {}
  /\ UNCHANGED <<today, known, row, target, inventory, covered, stored, discovery, job, spent, faulty>>

-----------------------------------------------------------------------------
(* The backfill chain. *)

(* BackfillChunk: the days just behind the oldest one covered, or behind today if none is, *)
(* no further than the target.  Empty once the target is reached.                          *)
Chunk ==
  LET oldest == CHOOSE d \in covered : \A e \in covered : d <= e
      until  == IF covered = {} THEN today - 1 ELSE oldest - 1
  IN {d \in Span(until - (ChunkDays - 1), until) : \E t \in target : t <= d}

(* The chunk is fetched and stored.  Without a row the lookup fails, see JobFails. *)
StoreChunk(j) ==
  /\ job[j].at = "pending" /\ row
  /\ IF Chunk = {} THEN job' = [job EXCEPT ![j] = NoJob] /\ spent' = SpentBy(j)
     ELSE job' = [job EXCEPT ![j].at = "marking", ![j].days = Chunk] /\ UNCHANGED spent
  /\ stored' = stored \union Chunk
  /\ UNCHANGED <<today, known, row, target, inventory, covered, discovery, poll, faulty>>

MarkChunk(j) ==
  /\ job[j].at = "marking"
  /\ covered' = covered \union job[j].days
  /\ job' = [job EXCEPT ![j].at = "chaining", ![j].days = {}]
  /\ UNCHANGED <<today, known, row, target, inventory, stored, discovery, poll, spent, faulty>>

(* The next chunk is queued under this minute's key while this job still runs: if its own key  *)
(* is of this minute the enqueue finds it, and the chain ends.  Then this job completes.        *)
ChainChunk(j) ==
  /\ job[j].at = "chaining"
  /\ job' = [job EXCEPT ![j] = IF Absorbs("minute") THEN NoJob ELSE Pending("minute")]
  /\ spent' = SpentBy(j)
  /\ UNCHANGED <<today, known, row, target, inventory, covered, stored, discovery, poll, faulty>>

(* The next chunk is queued and the worker dies before this job completes: it runs again. *)
ChainTwice(j) ==
  /\ faulty /\ job[j].at = "chaining" /\ ~Absorbs("minute")
  /\ \E k \in Free : job' = [job EXCEPT ![k] = Pending("minute"), ![j].at = "pending"]
  /\ UNCHANGED <<today, known, row, target, inventory, covered, stored, discovery,
                 poll, spent, faulty>>

(* An attempt fails, or its worker dies: the job waits for its next attempt, or is dead. *)
JobFails(j) ==
  /\ job[j].at # "free" /\ (faulty \/ (~row /\ job[j].at = "pending"))
  /\ \/ job' = [job EXCEPT ![j].at = "pending", ![j].days = {}] /\ UNCHANGED spent
     \/ job' = [job EXCEPT ![j] = NoJob] /\ spent' = SpentBy(j)
  /\ UNCHANGED <<today, known, row, target, inventory, covered, stored, discovery, poll, faulty>>

(* RunRetentionSweepJob deletes rows from before the horizon, oldest first, up to a limit;  *)
(* the horizon is a time of day, so the rows of its own day go as well once they are behind *)
(* it.  Coverage is not touched.                                                            *)
RetentionSweep ==
  \E oldest \in 1..(today - RetentionDays + 1) :
    /\ stored' = {d \in stored : oldest <= d} /\ stored' # stored
    /\ UNCHANGED <<today, known, row, target, inventory, covered, processVars, faulty>>

BackfillStep(j) == StoreChunk(j) \/ MarkChunk(j) \/ ChainChunk(j)
DiscoveryStep   == SeedTracking \/ EnqueueInitial

Next ==
  \/ BeginDiscovery \/ DiscoveryStep \/ DiscoveryFails
  \/ SyncAdEntities \/ MarkEntitiesSynced
  \/ StorePoll \/ MarkPoll \/ PollFails
  \/ \E j \in Slot : BackfillStep(j) \/ ChainTwice(j) \/ JobFails(j)
  \/ \E past \in SUBSET Key : Tick(past)
  \/ RetentionSweep \/ NextDay \/ Calm

Spec == Init /\ [][Next]_vars

-----------------------------------------------------------------------------
(* A day on record as fetched has its rows in the database, unless the     *)
(* retention sweep took them: rows are stored before the day is marked     *)
(* (insights_daily.go, CollectAccountInsights), whatever dies in between.  *)
(* If it were not so nothing would ever fetch the day again.               *)
Swept == {d \in Day : d <= today - RetentionDays}
CoveredIsStored == covered \subseteq stored \union Swept

(* Once a backfill target is recorded, calls stop failing and discovery    *)
(* goes on, every day from the target to the day before the account was    *)
(* connected gets covered, however often the chain of chunks broke         *)
(* (insights_jobs.go, RunBackfillInsightsJob; sync.go,                     *)
(* enqueueInitialInsights).                                                *)
Arrived == \A t \in target : Span(t, FirstDay - 1) \subseteq covered
HistoryArrives == <>[](target # {}) => []<>Arrived
=============================================================================
