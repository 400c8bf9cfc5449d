------------------------------ MODULE JobQueue ------------------------------
(***************************************************************************)
(* The table "jobs" (internal/platform/database/job_repository.go) and the *)
(* workers that drain it (internal/worker/runner.go).                      *)
(*                                                                         *)
(* Every repository call compares the row with a time the WORKER read      *)
(* before it issued the call, so a call may act on an old "now".  Time is  *)
(* kept relative to the present: lease[j] is locked_until minus the true   *)
(* time, wait[j] is available_at minus the true time and timer[w] the age  *)
(* of the "now" that worker w holds.  With t the true time and             *)
(* now = t - timer[w],                                                     *)
(*     locked_until <= now   is   lease[j] <= -timer[w]                    *)
(*     locked_until := now + lease duration   is   Lease - timer[w].       *)
(* A call is served or has failed MaxLag after its "now" was read, so      *)
(* times further than MaxLag in the past need not be told apart.           *)
(***************************************************************************)
EXTENDS Integers, FiniteSets

CONSTANTS
  Job,          \* the (type, dedupe_key) identities of the rows
  Worker,       \* the sequential runners, over all worker processes
  None,         \* locked_by = '' and "no job in hand"
  Priority,     \* jobs.priority
  MaxAttempts,  \* jobs.max_attempts
  StartDelay,   \* available_at of a new job, from the moment it is enqueued
  Lease,        \* JOB_LEASE_DURATION, in ticks
  MaxLag,       \* longest time between reading "now" and the call's effect
  RetryBase, RetryMax,  \* the bounds of the retry delay
  Stalling      \* the workers that may stop being scheduled while they work

VARIABLES
  status, attempts, lockedBy,   \* columns of the row
  lease, wait,                  \* locked_until and available_at, see above
  phase,        \* where the worker is in Runner.ProcessOne
  job, attempt, \* the claimed record the worker holds
  timer,        \* age of the "now" in hand; while working, of the last heartbeat
  left          \* ghost: what remains of the lease the worker last secured

rowVars    == <<status, attempts, lockedBy, lease, wait>>
workerVars == <<phase, job, attempt, timer, left>>
vars       == <<status, attempts, lockedBy, lease, wait, phase, job, attempt, timer, left>>

\* domain.RetryDelay: base doubled for every earlier attempt, capped.
RetryDelay(n) ==
  LET delay == RetryBase * 2^(n - 1) IN IF delay > RetryMax THEN RetryMax ELSE delay

\* Mutation: the heartbeat period is the whole lease.
LateInterval == Lease

\* Runner.maintainLease beats every third of the lease, at the least every tick.
Interval == IF Lease \div 3 < 1 THEN 1 ELSE Lease \div 3

\* Mutation: the runners share the name of their process.
SharedName(w) == CHOOSE v \in Worker : TRUE

\* The WorkerID of a runner: cmd/worker/main.go numbers the runners of a process.
Name(w) == w

ASSUME QueueAssumption ==
  /\ None \notin Worker \union Job
  /\ Priority \in [Job -> Int]
  /\ StartDelay \in [Job -> Nat]
  /\ MaxAttempts \in Nat \ {0}
  /\ \A n \in 1..MaxAttempts : RetryDelay(n) \in Nat
  /\ Stalling \subseteq Worker

\* A lease outlives one slow claim, one heartbeat period and one slow heartbeat.
ASSUME LeaseAssumption ==
  /\ Lease \in Nat /\ MaxLag \in Nat
  /\ Lease >= 3
  /\ 2 * MaxLag + Lease \div 3 < Lease

Status   == {"absent", "pending", "running", "succeeded", "dead"}
Terminal == {"succeeded", "dead"}

\* The handler runs in these: its heartbeat ticking, a heartbeat call under way,
\* the heartbeat ended without an error, the job context cancelled by it.
Handling == {"working", "extending", "unattended", "lost"}
Closing  == {"completing", "failing"}
Busy     == Handling \union Closing
Phase    == {"idle", "claiming"} \union Busy
\* A repository call is under way in these.
Calling  == {"claiming", "extending"} \union Closing

TypeOK ==
  /\ status   \in [Job -> Status]
  /\ attempts \in [Job -> 0..MaxAttempts]
  /\ lockedBy \in [Job -> Worker \union {None}]
  /\ lease    \in [Job -> (-MaxLag)..Lease]
  /\ wait     \in [Job -> Int]
  /\ phase    \in [Worker -> Phase]
  /\ job      \in [Worker -> Job \union {None}]
  /\ attempt  \in [Worker -> 0..MaxAttempts]
  /\ timer    \in [Worker -> Nat]
  /\ left     \in [Worker -> (-MaxLag)..Lease]

Init ==
  /\ status   = [j \in Job |-> "absent"]
  /\ attempts = [j \in Job |-> 0]
  /\ lockedBy = [j \in Job |-> None]
  /\ lease    = [j \in Job |-> -MaxLag]
  /\ wait     = [j \in Job |-> -MaxLag]
  /\ phase    = [w \in Worker |-> "idle"]
  /\ job      = [w \in Worker |-> None]
  /\ attempt  = [w \in Worker |-> 0]
  /\ timer    = [w \in Worker |-> 0]
  /\ left     = [w \in Worker |-> -MaxLag]
-----------------------------------------------------------------------------
(* The clock. *)

Older(t) == IF t > -MaxLag THEN t - 1 ELSE t

\* How long worker w may stay where it is before it must act.
Patience(w) == IF phase[w] \in Calling THEN MaxLag ELSE Interval

\* Repository calls end in time, and a worker that is not stalled beats on time.
Punctual(w) ==
  phase[w] \in Calling \/ (phase[w] = "working" /\ w \notin Stalling)

Tick ==
  /\ \A w \in Worker : Punctual(w) => timer[w] < Patience(w)
  /\ lease' = [j \in Job |-> Older(lease[j])]
  /\ wait'  = [j \in Job |-> Older(wait[j])]
  /\ left'  = [w \in Worker |-> Older(left[w])]
  /\ timer' = [w \in Worker |-> IF phase[w] \in Calling \union {"working"} /\ timer[w] < Patience(w)
                                THEN timer[w] + 1 ELSE timer[w]]
  /\ UNCHANGED <<status, attempts, lockedBy, phase, job, attempt>>
-----------------------------------------------------------------------------
(* JobRepository.Enqueue: a row that exists, in any status, is left alone. *)

Enqueue(j) ==
  /\ status[j] = "absent"
  /\ status' = [status EXCEPT ![j] = "pending"]
  /\ wait'   = [wait EXCEPT ![j] = StartDelay[j]]
  /\ UNCHANGED <<attempts, lockedBy, lease, workerVars>>
-----------------------------------------------------------------------------
(* JobRepository.Claim, one transaction. *)

\* Mutation: no comparison of attempts with max_attempts.
DueOverBudget(w, j) ==
  \/ status[j] = "pending" /\ wait[j] <= -timer[w]
  \/ status[j] = "running" /\ lease[j] <= -timer[w]

\* Mutation: locked_until compared the wrong way round.
DueWhileLeased(w, j) ==
  /\ \/ status[j] = "pending" /\ wait[j] <= -timer[w]
     \/ status[j] = "running" /\ lease[j] >= -timer[w]
  /\ attempts[j] < MaxAttempts

\* The candidates of a claim that took its "now" timer[w] ago.
Due(w, j) ==
  /\ \/ status[j] = "pending" /\ wait[j] <= -timer[w]
     \/ status[j] = "running" /\ lease[j] <= -timer[w]
  /\ attempts[j] < MaxAttempts

\* Mutation: a job whose final lease has expired is left running.
NoneExhausted(w) == {}

\* Jobs whose final lease has expired: this claim moves them to dead first.
Exhausted(w) ==
  {j \in Job : status[j] = "running" /\ lease[j] <= -timer[w] /\ attempts[j] >= MaxAttempts}

Before(i, j) ==
  Priority[i] > Priority[j] \/ (Priority[i] = Priority[j] /\ wait[i] < wait[j])

\* FOR UPDATE SKIP LOCKED passes over a row only while the call of another
\* worker has it locked, and each of them locks one candidate.
MaySkip(w, rows) ==
  Cardinality(rows) <= Cardinality({v \in Worker \ {w} : phase[v] \in Calling})

BeginClaim(w) ==
  /\ phase[w] = "idle"
  /\ phase' = [phase EXCEPT ![w] = "claiming"]
  /\ timer' = [timer EXCEPT ![w] = 0]
  /\ UNCHANGED <<rowVars, job, attempt, left>>

\* Worker w's row effects when its claim takes the jobs of started (at most one).
ClaimRows(w, started) ==
  /\ status' = [j \in Job |-> IF j \in Exhausted(w) THEN "dead"
                              ELSE IF j \in started THEN "running" ELSE status[j]]
  /\ lockedBy' = [j \in Job |-> IF j \in Exhausted(w) THEN None
                                ELSE IF j \in started THEN Name(w) ELSE lockedBy[j]]
  /\ attempts' = [j \in Job |-> IF j \in started THEN attempts[j] + 1 ELSE attempts[j]]
  /\ lease' = [j \in Job |-> IF j \in Exhausted(w) THEN -MaxLag
                             ELSE IF j \in started THEN Lease - timer[w] ELSE lease[j]]
  /\ UNCHANGED wait

\* The worker puts down what it holds and polls again.
Release(w) ==
  /\ phase'   = [phase EXCEPT ![w] = "idle"]
  /\ job'     = [job EXCEPT ![w] = None]
  /\ attempt' = [attempt EXCEPT ![w] = 0]
  /\ timer'   = [timer EXCEPT ![w] = 0]
  /\ left'    = [left EXCEPT ![w] = -MaxLag]

ClaimJob(w, j) ==
  /\ phase[w] = "claiming"
  /\ Due(w, j)
  /\ MaySkip(w, {i \in Job : Due(w, i) /\ Before(i, j)})
  /\ ClaimRows(w, {j})
  /\ \/ /\ phase'   = [phase EXCEPT ![w] = "working"]
        /\ job'     = [job EXCEPT ![w] = j]
        /\ attempt' = [attempt EXCEPT ![w] = attempts[j] + 1]
        /\ timer'   = [timer EXCEPT ![w] = 0]
        /\ left'    = [left EXCEPT ![w] = Lease - timer[w]]
     \/ Release(w)       \* committed, but the reply is lost

ClaimNothing(w) ==
  /\ phase[w] = "claiming"
  /\ MaySkip(w, {j \in Job : Due(w, j)})
  /\ ClaimRows(w, {})
  /\ Release(w)

ClaimFails(w) ==
  /\ phase[w] = "claiming"
  /\ Release(w)
  /\ UNCHANGED rowVars
-----------------------------------------------------------------------------
(* Runner.maintainLease and JobRepository.ExtendLease. *)

\* Mutation: locked_by is not compared.
OwnsUnnamed(w) ==
  /\ status[job[w]] = "running"
  /\ lease[job[w]] > -timer[w]

\* The guard shared by ExtendLease, Complete and Fail.
Owns(w) ==
  /\ status[job[w]] = "running"
  /\ lockedBy[job[w]] = Name(w)
  /\ lease[job[w]] > -timer[w]

BeginExtend(w) ==
  /\ phase[w] = "working"
  /\ timer[w] >= Interval
  /\ phase' = [phase EXCEPT ![w] = "extending"]
  /\ timer' = [timer EXCEPT ![w] = 0]
  /\ UNCHANGED <<rowVars, job, attempt, left>>

\* An error ends the heartbeat: silently if it is a context error, else by
\* cancelling the job.
HeartbeatEnds(w) ==
  /\ \E p \in {"lost", "unattended"} : phase' = [phase EXCEPT ![w] = p]
  /\ timer' = [timer EXCEPT ![w] = 0]

\* The lease is extended, even when the reply to the worker is an error.
ExtendLease(w) ==
  /\ phase[w] = "extending"
  /\ Owns(w)
  /\ lease' = [lease EXCEPT ![job[w]] = Lease - timer[w]]
  /\ left'  = [left EXCEPT ![w] = Lease - timer[w]]
  /\ \/ phase' = [phase EXCEPT ![w] = "working"] /\ UNCHANGED timer
     \/ HeartbeatEnds(w)
  /\ UNCHANGED <<status, attempts, lockedBy, wait, job, attempt>>

\* ErrLeaseLost, or an error of the database.
ExtendFails(w) ==
  /\ phase[w] = "extending"
  /\ HeartbeatEnds(w)
  /\ UNCHANGED <<rowVars, job, attempt, left>>
-----------------------------------------------------------------------------
(* The handler returns: Runner.processClaimed. *)

\* A heartbeat call still under way is cancelled and awaited first.
HandlerReturns(w) ==
  /\ phase[w] \in Handling \ {"lost"}
  /\ \E p \in Closing : phase' = [phase EXCEPT ![w] = p]
  /\ timer' = [timer EXCEPT ![w] = 0]
  /\ UNCHANGED <<rowVars, job, attempt, left>>

\* After a heartbeat error the job is neither completed nor failed.
HandlerAbandons(w) ==
  /\ phase[w] = "lost"
  /\ Release(w)
  /\ UNCHANGED rowVars

\* The row is unlocked; locked_until is NULL.
Unlock(w) ==
  /\ lockedBy' = [lockedBy EXCEPT ![job[w]] = None]
  /\ lease'    = [lease EXCEPT ![job[w]] = -MaxLag]

Complete(w) ==
  /\ phase[w] = "completing"
  /\ Owns(w)
  /\ status' = [status EXCEPT ![job[w]] = "succeeded"]
  /\ Unlock(w)
  /\ Release(w)
  /\ UNCHANGED <<attempts, wait>>

Fail(w) ==
  /\ phase[w] = "failing"
  /\ Owns(w)
  /\ \/ /\ attempts[job[w]] >= MaxAttempts
        /\ status' = [status EXCEPT ![job[w]] = "dead"]
        /\ UNCHANGED wait
     \/ /\ attempts[job[w]] < MaxAttempts
        /\ status' = [status EXCEPT ![job[w]] = "pending"]
        /\ wait' = [wait EXCEPT ![job[w]] = RetryDelay(attempt[w]) - timer[w]]
  /\ Unlock(w)
  /\ Release(w)
  /\ UNCHANGED attempts

\* ErrLeaseLost, or an error of the database: the row keeps its lease.
CloseFails(w) ==
  /\ phase[w] \in Closing
  /\ Release(w)
  /\ UNCHANGED rowVars

\* The worker process dies and starts again, under a new locked_by name; no
\* row names the old one to any effect, so the model reuses it.
Crash(w) ==
  /\ phase[w] # "idle"
  /\ Release(w)
  /\ UNCHANGED rowVars
-----------------------------------------------------------------------------
ClaimCommits(w) == ClaimNothing(w) \/ \E j \in Job : ClaimJob(w, j)
ClaimMatters(w) == ClaimCommits(w) /\ <<status, attempts>>' # <<status, attempts>>
Heartbeat(w)    == BeginExtend(w) \/ ExtendLease(w) \/ ExtendFails(w)
HandlerEnds(w)  == HandlerReturns(w) \/ HandlerAbandons(w)
Close(w)        == Complete(w) \/ Fail(w) \/ CloseFails(w)

Next ==
  \/ Tick
  \/ \E j \in Job : Enqueue(j)
  \/ \E w \in Worker :
       \/ BeginClaim(w) \/ ClaimCommits(w) \/ ClaimFails(w)
       \/ Heartbeat(w) \/ HandlerEnds(w) \/ Close(w) \/ Crash(w)

(***************************************************************************)
(* Time passes; a repository call returns or errors; a handler returns.    *)
(* Only a worker that does not stall must go on polling and, however often *)
(* it crashes or the database errs, get a claim through now and then; no   *)
(* row stays locked by others each time it looks (a claim that locked the  *)
(* row takes it).                                                          *)
(***************************************************************************)
Fairness ==
  /\ WF_vars(Tick)
  /\ \A w \in Worker :
       /\ WF_vars(ClaimCommits(w) \/ ClaimFails(w))
       /\ WF_vars(ExtendLease(w) \/ ExtendFails(w))
       /\ WF_vars(Close(w))
       /\ WF_vars(HandlerEnds(w))
  /\ \A w \in Worker \ Stalling :
       /\ WF_vars(BeginClaim(w))
       /\ SF_vars(ClaimMatters(w))

Spec == Init /\ [][Next]_vars /\ Fairness
-----------------------------------------------------------------------------
(* Properties. *)

\* However late a call reaches the database, two workers that handle the same
\* job never both hold a lease that still runs: the claim predicate takes a job
\* over only after the lease its worker last secured has run out.
LeaseExclusive ==
  \A v, w \in Worker :
    /\ v # w /\ {phase[v], phase[w]} \subseteq Busy
    /\ job[v] = job[w]
    => left[v] <= 0 \/ left[w] <= 0

\* ExtendLease, Complete and Fail match the row by worker name and lease, not by
\* attempt; still, whoever passes that guard holds the newest attempt.
CloseFenced ==
  \A w \in Worker :
    phase[w] \in Busy /\ Owns(w) => attempt[w] = attempts[job[w]]

\* A worker that is scheduled and whose heartbeat calls succeed never lets its
\* lease run out, although every extension counts from the time its call began.
HeartbeatKeepsLease ==
  \A w \in Worker \ Stalling : phase[w] \in {"working", "extending"} => left[w] > 0

\* The attempts of each job that some worker still handles or closes.
InFlight ==
  [j \in Job |-> {attempt[w] : w \in {v \in Worker : phase[v] \in Busy /\ job[v] = j}}]

\* The queue keeps the promise of JobLifecycle: budget, terminal rows, and rows
\* closed by their newest attempt only.
Lifecycle == INSTANCE JobLifecycle WITH inFlight <- InFlight
LifecycleSpec == Lifecycle!Spec

\* Every job that was enqueued is finished: its retries, crashes, lost leases
\* and lost replies use up its attempts, and the last expiry is still reaped.
EveryJobEnds ==
  \A j \in Job : status[j] = "pending" ~> status[j] \in Terminal
=============================================================================
