--------------------------- MODULE JobQueueProofs ---------------------------
(***************************************************************************)
(* The safety of JobQueue for any set of jobs and workers and any lease    *)
(* long enough for LeaseAssumption.  The properties are not inductive:     *)
(* IInv adds what ties the record a worker holds to the row it came from.  *)
(***************************************************************************)
EXTENDS JobQueue, TLAPS

\* A running row is locked by a worker and has been started; others are unlocked.
RowsOK ==
  \A j \in Job :
    /\ status[j] = "running" => lockedBy[j] \in Worker /\ attempts[j] >= 1
    /\ status[j] # "running" => lockedBy[j] = None

\* A busy worker holds an attempt its job really had.
HeldOK ==
  \A w \in Worker : phase[w] \in Busy =>
    job[w] \in Job /\ attempt[w] >= 1 /\ attempt[w] <= attempts[job[w]]

\* Two busy workers never hold the same attempt of a job.
AttemptsDiffer ==
  \A v, w \in Worker :
    v # w /\ phase[v] \in Busy /\ phase[w] \in Busy /\ job[v] = job[w]
      => attempt[v] # attempt[w]

\* The row names the worker that holds its newest attempt, if any still does.
NewestLocked ==
  \A w \in Worker :
    /\ phase[w] \in Busy
    /\ status[job[w]] = "running"
    /\ lockedBy[job[w]] = w
    => attempt[w] = attempts[job[w]]

\* While the lease a worker last secured runs, the row is its own.
LeaseHeld ==
  \A w \in Worker : phase[w] \in Busy /\ left[w] > 0 =>
    /\ status[job[w]] = "running"
    /\ lockedBy[job[w]] = w
    /\ left[w] <= lease[job[w]]

\* A repository call acts on a "now" at most MaxLag old.
CallsInTime == \A w \in Worker : phase[w] \in Calling => timer[w] <= MaxLag

\* What is left of a lease, measured from the last heartbeat of its worker.
HeartbeatOK ==
  \A w \in Worker \ Stalling :
    /\ phase[w] = "working" =>
         \/ timer[w] <= Interval /\ left[w] >= Lease - MaxLag - timer[w]
         \/ timer[w] <= MaxLag /\ left[w] >= Lease - timer[w]
    /\ phase[w] = "extending" => left[w] >= Lease - MaxLag - Interval - timer[w]

Held == HeldOK /\ AttemptsDiffer /\ NewestLocked /\ LeaseHeld
IInv == TypeOK /\ RowsOK /\ Held /\ CallsInTime /\ HeartbeatOK

USE DEF Status, Handling, Closing, Busy, Phase, Calling, Name

\* The heartbeat period is a whole number of ticks, and three of them fit the lease.
LEMMA IntervalFits == Interval \in Nat \ {0} /\ Interval = Lease \div 3 /\ 2 * MaxLag + Interval < Lease
  BY LeaseAssumption DEF Interval

LEMMA Initially == Init => IInv
<1> SUFFICES ASSUME Init PROVE IInv
  OBVIOUS
<1>1. TypeOK
  BY QueueAssumption, LeaseAssumption DEF Init, TypeOK
<1>2. QED
  BY <1>1 DEF Init, IInv, RowsOK, Held, HeldOK, AttemptsDiffer, NewestLocked, LeaseHeld,
              CallsInTime, HeartbeatOK

\* A worker that lets go, with the row unchanged, disturbs nothing.
LEMMA ReleaseStep ==
  ASSUME NEW w \in Worker, IInv, Release(w), UNCHANGED rowVars
  PROVE  IInv'
<1> USE DEF Release, rowVars
<1>1. TypeOK'
  BY QueueAssumption, LeaseAssumption DEF IInv, TypeOK
<1>2. RowsOK'
  BY DEF IInv, RowsOK
<1>3. Held'
  BY DEF IInv, TypeOK, Held, HeldOK, AttemptsDiffer, NewestLocked, LeaseHeld
<1>4. CallsInTime'
  BY DEF IInv, TypeOK, CallsInTime
<1>5. HeartbeatOK'
  BY DEF IInv, TypeOK, HeartbeatOK
<1>6. QED
  BY <1>1, <1>2, <1>3, <1>4, <1>5 DEF IInv

LEMMA TickStep ==
  ASSUME IInv, Tick
  PROVE  IInv'
<1> USE DEF Tick, Older
<1>1. TypeOK'
  <2>1. ASSUME NEW t \in (-MaxLag)..Lease PROVE Older(t) \in (-MaxLag)..Lease
    BY LeaseAssumption
  <2>2. ASSUME NEW t \in Int PROVE Older(t) \in Int
    BY LeaseAssumption
  <2>3. timer' \in [Worker -> Nat]
    BY DEF IInv, TypeOK
  <2>4. lease' \in [Job -> (-MaxLag)..Lease] /\ left' \in [Worker -> (-MaxLag)..Lease]
    BY <2>1 DEF IInv, TypeOK
  <2>5. wait' \in [Job -> Int]
    BY <2>2 DEF IInv, TypeOK
  <2>6. QED
    BY <2>3, <2>4, <2>5 DEF IInv, TypeOK
<1>2. RowsOK'
  BY DEF IInv, RowsOK
<1>3. Held'
  <2>1. HeldOK' /\ AttemptsDiffer' /\ NewestLocked'
    BY DEF IInv, Held, HeldOK, AttemptsDiffer, NewestLocked
  <2>2. LeaseHeld'
    BY LeaseAssumption DEF IInv, TypeOK, Held, HeldOK, LeaseHeld
  <2>3. QED
    BY <2>1, <2>2 DEF Held
<1>4. CallsInTime'
  BY LeaseAssumption DEF IInv, TypeOK, CallsInTime, Punctual, Patience
<1>5. HeartbeatOK'
  BY LeaseAssumption, IntervalFits
  DEF IInv, TypeOK, CallsInTime, HeartbeatOK, Punctual, Patience
<1>6. QED
  BY <1>1, <1>2, <1>3, <1>4, <1>5 DEF IInv

LEMMA EnqueueStep ==
  ASSUME NEW j \in Job, IInv, Enqueue(j)
  PROVE  IInv'
<1> USE DEF Enqueue, workerVars
<1>1. TypeOK'
  <2>1. StartDelay[j] \in Int
    BY QueueAssumption
  <2>2. QED
    BY <2>1 DEF IInv, TypeOK
<1>2. RowsOK'
  BY DEF IInv, TypeOK, RowsOK
<1>3. Held'
  BY DEF IInv, TypeOK, Held, HeldOK, AttemptsDiffer, NewestLocked, LeaseHeld
<1>4. CallsInTime' /\ HeartbeatOK'
  BY DEF IInv, CallsInTime, HeartbeatOK
<1>5. QED
  BY <1>1, <1>2, <1>3, <1>4 DEF IInv

LEMMA BeginClaimStep ==
  ASSUME NEW w \in Worker, IInv, BeginClaim(w)
  PROVE  IInv'
<1> USE DEF BeginClaim, rowVars
<1>1. TypeOK'
  BY DEF IInv, TypeOK
<1>2. RowsOK'
  BY DEF IInv, RowsOK
<1>3. Held'
  BY DEF IInv, TypeOK, Held, HeldOK, AttemptsDiffer, NewestLocked, LeaseHeld
<1>4. CallsInTime' /\ HeartbeatOK'
  BY LeaseAssumption DEF IInv, TypeOK, CallsInTime, HeartbeatOK
<1>5. QED
  BY <1>1, <1>2, <1>3, <1>4 DEF IInv

\* What a claim does to the rows, whatever the worker then learns of it.
LEMMA ClaimRowsStep ==
  ASSUME NEW w \in Worker, NEW started \in SUBSET Job, IInv, phase[w] = "claiming",
         \A j \in started : Due(w, j), ClaimRows(w, started)
  PROVE  /\ status' \in [Job -> Status]
         /\ attempts' \in [Job -> 0..MaxAttempts]
         /\ lockedBy' \in [Job -> Worker \union {None}]
         /\ lease' \in [Job -> (-MaxLag)..Lease]
         /\ wait' \in [Job -> Int]
         /\ RowsOK'
         /\ Lease - timer[w] \in 1..Lease
         /\ \A j \in started \union Exhausted(w) : status[j] = "running" => lease[j] <= 0
<1> USE DEF ClaimRows, Due, Exhausted
<1>1. timer[w] \in 0..MaxLag
  BY LeaseAssumption DEF IInv, TypeOK, CallsInTime
<1>2. Lease - timer[w] \in 1..Lease
  BY <1>1, LeaseAssumption
<1>3. status' \in [Job -> Status] /\ lockedBy' \in [Job -> Worker \union {None}]
  BY DEF IInv, TypeOK
<1>4. attempts' \in [Job -> 0..MaxAttempts]
  <2>1. \A j \in started : attempts[j] + 1 \in 0..MaxAttempts
    BY QueueAssumption DEF IInv, TypeOK
  <2>2. QED
    BY <2>1 DEF IInv, TypeOK
<1>5. lease' \in [Job -> (-MaxLag)..Lease] /\ wait' \in [Job -> Int]
  BY <1>2, LeaseAssumption DEF IInv, TypeOK
<1>6. RowsOK'
  BY QueueAssumption DEF IInv, TypeOK, RowsOK
<1>7. \A j \in started \union Exhausted(w) : status[j] = "running" => lease[j] <= 0
  BY <1>1, LeaseAssumption DEF IInv, TypeOK
<1>8. QED
  BY <1>2, <1>3, <1>4, <1>5, <1>6, <1>7

\* A claim whose worker ends with nothing in hand: nothing due, or the reply lost.
LEMMA ClaimReleaseStep ==
  ASSUME NEW w \in Worker, NEW started \in SUBSET Job, IInv, phase[w] = "claiming",
         \A j \in started : Due(w, j), ClaimRows(w, started), Release(w)
  PROVE  IInv'
<1> USE DEF Release
<1>1. TypeOK' /\ RowsOK'
  BY ClaimRowsStep, QueueAssumption, LeaseAssumption DEF IInv, TypeOK
<1>2. \A v \in Worker : phase'[v] \in Busy =>
        /\ v # w /\ phase'[v] = phase[v]
        /\ job'[v] = job[v] /\ attempt'[v] = attempt[v]
        /\ left'[v] = left[v] /\ timer'[v] = timer[v]
  BY DEF IInv, TypeOK
<1>3. HeldOK' /\ AttemptsDiffer'
  BY <1>2 DEF IInv, TypeOK, ClaimRows, Held, HeldOK, AttemptsDiffer
<1>4. NewestLocked'
  BY <1>2 DEF IInv, TypeOK, ClaimRows, Held, HeldOK, NewestLocked
<1>5. LeaseHeld'
  <2>1. ASSUME NEW v \in Worker, phase'[v] \in Busy, left'[v] > 0
        PROVE  job[v] \notin started \union Exhausted(w) /\ job[v] \in Job
    BY <1>2, <2>1, ClaimRowsStep, LeaseAssumption DEF IInv, TypeOK, Held, HeldOK, LeaseHeld
  <2>2. QED
    BY <1>2, <2>1 DEF IInv, TypeOK, ClaimRows, Held, HeldOK, LeaseHeld
<1>6. CallsInTime' /\ HeartbeatOK'
  BY DEF IInv, TypeOK, CallsInTime, HeartbeatOK
<1>7. QED
  BY <1>1, <1>3, <1>4, <1>5, <1>6 DEF IInv, Held

\* A claim that puts job j into the hands of worker w.
LEMMA ClaimTakesStep ==
  ASSUME NEW w \in Worker, NEW j \in Job, IInv, phase[w] = "claiming",
         Due(w, j), ClaimRows(w, {j}),
         phase'   = [phase EXCEPT ![w] = "working"],
         job'     = [job EXCEPT ![w] = j],
         attempt' = [attempt EXCEPT ![w] = attempts[j] + 1],
         timer'   = [timer EXCEPT ![w] = 0],
         left'    = [left EXCEPT ![w] = Lease - timer[w]]
  PROVE  IInv'
<1>1. /\ status' \in [Job -> Status] /\ attempts' \in [Job -> 0..MaxAttempts]
      /\ lockedBy' \in [Job -> Worker \union {None}] /\ lease' \in [Job -> (-MaxLag)..Lease]
      /\ wait' \in [Job -> Int] /\ RowsOK'
      /\ Lease - timer[w] \in 1..Lease
      /\ \A i \in {j} \union Exhausted(w) : status[i] = "running" => lease[i] <= 0
  BY ClaimRowsStep
<1>2. j \notin Exhausted(w) /\ attempts[j] + 1 \in 1..MaxAttempts
  BY QueueAssumption DEF IInv, TypeOK, Due, Exhausted
<1>3. /\ attempts'[j] = attempts[j] + 1 /\ status'[j] = "running"
      /\ lockedBy'[j] = w /\ lease'[j] = Lease - timer[w]
  BY <1>2 DEF ClaimRows
<1>4. TypeOK'
  BY <1>1, <1>2, QueueAssumption, LeaseAssumption DEF IInv, TypeOK
<1>5. \A v \in Worker : v # w =>
        /\ phase'[v] = phase[v] /\ job'[v] = job[v] /\ attempt'[v] = attempt[v]
        /\ left'[v] = left[v] /\ timer'[v] = timer[v]
  BY DEF IInv, TypeOK
<1>6. /\ phase'[w] = "working" /\ job'[w] = j /\ attempt'[w] = attempts[j] + 1
      /\ timer'[w] = 0 /\ left'[w] = Lease - timer[w]
  BY DEF IInv, TypeOK
<1>7. HeldOK'
  BY <1>1, <1>2, <1>3, <1>5, <1>6 DEF IInv, TypeOK, ClaimRows, Held, HeldOK
<1>8. AttemptsDiffer'
  BY <1>5, <1>6 DEF IInv, TypeOK, Held, HeldOK, AttemptsDiffer
<1>9. NewestLocked'
  BY <1>3, <1>5, <1>6 DEF IInv, TypeOK, ClaimRows, Held, HeldOK, NewestLocked
<1>10. LeaseHeld'
  <2>1. ASSUME NEW v \in Worker, v # w, phase'[v] \in Busy, left'[v] > 0
        PROVE  job[v] \notin {j} \union Exhausted(w) /\ job[v] \in Job
    BY <1>1, <1>5, <2>1, LeaseAssumption DEF IInv, TypeOK, Held, HeldOK, LeaseHeld
  <2>2. QED
    BY <1>1, <1>3, <1>5, <1>6, <2>1, LeaseAssumption
    DEF IInv, TypeOK, ClaimRows, Held, HeldOK, LeaseHeld
<1>11. CallsInTime'
  BY <1>5, <1>6 DEF IInv, CallsInTime
<1>12. HeartbeatOK'
  <2>1. timer[w] \in 0..MaxLag
    BY LeaseAssumption DEF IInv, TypeOK, CallsInTime
  <2>2. QED
    BY <1>5, <1>6, <2>1, IntervalFits, LeaseAssumption DEF IInv, TypeOK, HeartbeatOK
<1>13. QED
  BY <1>1, <1>4, <1>7, <1>8, <1>9, <1>10, <1>11, <1>12 DEF IInv, Held

\* Steps that only move a busy worker on, its "now" read afresh or put aside.
LEMMA MoveOnStep ==
  ASSUME NEW w \in Worker, IInv, phase[w] \in Handling, NEW p \in Busy \ {"working", "extending"},
         phase' = [phase EXCEPT ![w] = p], timer' = [timer EXCEPT ![w] = 0],
         UNCHANGED <<rowVars, job, attempt, left>>
  PROVE  IInv'
<1> USE DEF rowVars
<1>1. TypeOK' /\ RowsOK'
  BY DEF IInv, TypeOK, RowsOK
<1>2. Held'
  BY DEF IInv, TypeOK, Held, HeldOK, AttemptsDiffer, NewestLocked, LeaseHeld
<1>3. CallsInTime' /\ HeartbeatOK'
  BY LeaseAssumption DEF IInv, TypeOK, CallsInTime, HeartbeatOK
<1>4. QED
  BY <1>1, <1>2, <1>3 DEF IInv

LEMMA BeginExtendStep ==
  ASSUME NEW w \in Worker, IInv, BeginExtend(w)
  PROVE  IInv'
<1> USE DEF BeginExtend, rowVars
<1>1. TypeOK' /\ RowsOK'
  BY DEF IInv, TypeOK, RowsOK
<1>2. Held'
  BY DEF IInv, TypeOK, Held, HeldOK, AttemptsDiffer, NewestLocked, LeaseHeld
<1>3. CallsInTime'
  BY LeaseAssumption DEF IInv, TypeOK, CallsInTime
<1>4. HeartbeatOK'
  BY LeaseAssumption, IntervalFits DEF IInv, TypeOK, HeartbeatOK
<1>5. QED
  BY <1>1, <1>2, <1>3, <1>4 DEF IInv

LEMMA ExtendLeaseStep ==
  ASSUME NEW w \in Worker, IInv, ExtendLease(w)
  PROVE  IInv'
<1> USE DEF ExtendLease, HeartbeatEnds, Owns
<1>1. timer[w] \in 0..MaxLag /\ Lease - timer[w] \in 1..Lease /\ job[w] \in Job
  BY LeaseAssumption DEF IInv, TypeOK, CallsInTime, Held, HeldOK
<1>2. TypeOK'
  BY <1>1, LeaseAssumption DEF IInv, TypeOK
<1>3. RowsOK'
  BY DEF IInv, RowsOK
<1>4. /\ phase'[w] \in {"working", "lost", "unattended"} /\ left'[w] = Lease - timer[w]
      /\ phase'[w] = "working" => timer'[w] = timer[w]
      /\ lease'[job[w]] = Lease - timer[w]
      /\ \A j \in Job : j # job[w] => lease'[j] = lease[j]
      /\ \A v \in Worker : v # w =>
           phase'[v] = phase[v] /\ left'[v] = left[v] /\ timer'[v] = timer[v]
  BY <1>1 DEF IInv, TypeOK
<1>5. HeldOK' /\ AttemptsDiffer' /\ NewestLocked'
  BY <1>4 DEF IInv, Held, HeldOK, AttemptsDiffer, NewestLocked
<1>6. LeaseHeld'
  BY <1>1, <1>4 DEF IInv, TypeOK, Held, HeldOK, LeaseHeld, Name
<1>7. CallsInTime'
  BY <1>4 DEF IInv, CallsInTime
<1>8. HeartbeatOK'
  BY <1>1, <1>4, LeaseAssumption DEF IInv, TypeOK, HeartbeatOK
<1>9. QED
  BY <1>2, <1>3, <1>5, <1>6, <1>7, <1>8 DEF IInv, Held

\* A close that the guard admits: the row leaves "running" and is unlocked.
LEMMA CloseStep ==
  ASSUME NEW w \in Worker, IInv, phase[w] \in Closing, Owns(w), Unlock(w), Release(w),
         NEW s \in {"succeeded", "dead", "pending"},
         status' = [status EXCEPT ![job[w]] = s], wait' \in [Job -> Int], UNCHANGED attempts
  PROVE  IInv'
<1> USE DEF Owns, Unlock, Release
<1>1. job[w] \in Job
  BY DEF IInv, Held, HeldOK
<1>2. TypeOK'
  <2>1. /\ status' \in [Job -> Status] /\ attempts' \in [Job -> 0..MaxAttempts]
        /\ lockedBy' \in [Job -> Worker \union {None}]
    BY DEF IInv, TypeOK
  <2>. -MaxLag \in (-MaxLag)..Lease
    BY LeaseAssumption
  <2>4. lease' \in [Job -> (-MaxLag)..Lease]
    BY DEF IInv, TypeOK
  <2>2. /\ phase' \in [Worker -> Phase] /\ job' \in [Worker -> Job \union {None}]
        /\ attempt' \in [Worker -> 0..MaxAttempts] /\ timer' \in [Worker -> Nat]
        /\ left' \in [Worker -> (-MaxLag)..Lease]
    BY QueueAssumption, LeaseAssumption DEF IInv, TypeOK
  <2>3. QED
    BY <2>1, <2>4, <2>2 DEF TypeOK
<1>3. RowsOK'
  BY <1>1 DEF IInv, TypeOK, RowsOK
<1>4. \A v \in Worker : phase'[v] \in Busy =>
        /\ v # w /\ phase'[v] = phase[v]
        /\ job'[v] = job[v] /\ attempt'[v] = attempt[v]
        /\ left'[v] = left[v] /\ timer'[v] = timer[v]
  BY DEF IInv, TypeOK
<1>5. HeldOK' /\ AttemptsDiffer' /\ NewestLocked'
  BY <1>1, <1>4 DEF IInv, TypeOK, Held, HeldOK, AttemptsDiffer, NewestLocked
<1>6. LeaseHeld'
  BY <1>1, <1>4 DEF IInv, TypeOK, Held, HeldOK, LeaseHeld
<1>7. CallsInTime' /\ HeartbeatOK'
  BY DEF IInv, TypeOK, CallsInTime, HeartbeatOK
<1>8. QED
  BY <1>2, <1>3, <1>5, <1>6, <1>7 DEF IInv, Held

LEMMA FailStep ==
  ASSUME NEW w \in Worker, IInv, Fail(w)
  PROVE  IInv'
<1>1. job[w] \in Job /\ attempt[w] \in 1..MaxAttempts /\ timer[w] \in Nat
  BY DEF Fail, IInv, TypeOK, Held, HeldOK
<1>2. RetryDelay(attempt[w]) - timer[w] \in Int
  BY <1>1, QueueAssumption
<1>3. CASE /\ status' = [status EXCEPT ![job[w]] = "dead"]
           /\ UNCHANGED wait
  BY <1>3, CloseStep DEF Fail, IInv, TypeOK
<1>4. CASE /\ status' = [status EXCEPT ![job[w]] = "pending"]
           /\ wait' = [wait EXCEPT ![job[w]] = RetryDelay(attempt[w]) - timer[w]]
  <2>1. wait' \in [Job -> Int]
    BY <1>1, <1>2, <1>4 DEF IInv, TypeOK
  <2>2. QED
    BY <1>4, <2>1, CloseStep DEF Fail
<1>5. QED
  BY <1>3, <1>4 DEF Fail

LEMMA StepKeepsIInv == IInv /\ [Next]_vars => IInv'
<1> SUFFICES ASSUME IInv, [Next]_vars PROVE IInv'
  OBVIOUS
<1>1. CASE Tick
  BY <1>1, TickStep
<1>2. ASSUME NEW j \in Job, Enqueue(j) PROVE IInv'
  BY <1>2, EnqueueStep
<1>3. ASSUME NEW w \in Worker, BeginClaim(w) PROVE IInv'
  BY <1>3, BeginClaimStep
<1>4. ASSUME NEW w \in Worker, ClaimNothing(w) PROVE IInv'
  BY <1>4, ClaimReleaseStep, \A j \in {} : Due(w, j) DEF ClaimNothing
<1>5. ASSUME NEW w \in Worker, NEW j \in Job, ClaimJob(w, j) PROVE IInv'
  <2>1. CASE Release(w)
    BY <1>5, <2>1, ClaimReleaseStep, \A i \in {j} : i = j DEF ClaimJob
  <2>2. CASE ~Release(w)
    BY <1>5, <2>2, ClaimTakesStep DEF ClaimJob
  <2>3. QED
    BY <2>1, <2>2
<1>6. ASSUME NEW w \in Worker, ClaimFails(w) \/ HandlerAbandons(w) \/ CloseFails(w) \/ Crash(w)
      PROVE IInv'
  BY <1>6, ReleaseStep DEF ClaimFails, HandlerAbandons, CloseFails, Crash
<1>7. ASSUME NEW w \in Worker, BeginExtend(w) \/ ExtendLease(w) PROVE IInv'
  BY <1>7, BeginExtendStep, ExtendLeaseStep
<1>8. ASSUME NEW w \in Worker, ExtendFails(w) \/ HandlerReturns(w) PROVE IInv'
  BY <1>8, MoveOnStep DEF ExtendFails, HeartbeatEnds, HandlerReturns
<1>9. ASSUME NEW w \in Worker, Complete(w) PROVE IInv'
  BY <1>9, CloseStep DEF Complete, IInv, TypeOK
<1>10. ASSUME NEW w \in Worker, Fail(w) PROVE IInv'
  BY <1>10, FailStep
<1>11. CASE UNCHANGED vars
  BY <1>11 DEF vars, IInv, TypeOK, RowsOK, Held, HeldOK, AttemptsDiffer, NewestLocked,
               LeaseHeld, CallsInTime, HeartbeatOK
<1>12. QED
  BY <1>1, <1>2, <1>3, <1>4, <1>5, <1>6, <1>7, <1>8, <1>9, <1>10, <1>11
  DEF Next, ClaimCommits, Heartbeat, HandlerEnds, Close

LEMMA AlwaysIInv == Spec => []IInv
  BY Initially, StepKeepsIInv, PTL DEF Spec
-----------------------------------------------------------------------------
\* Every column, lease, "now" and budget stays in its range: in particular no
\* row is ever started more than MaxAttempts times.
THEOREM TypeCorrect == Spec => []TypeOK
  BY AlwaysIInv, PTL DEF IInv

\* Whatever the age of the "now" of each call (Claim, ExtendLease), two workers
\* never hold running leases on one job.
THEOREM LeaseExclusion == Spec => []LeaseExclusive
<1>1. IInv => LeaseExclusive
  BY DEF IInv, TypeOK, Held, HeldOK, LeaseHeld, LeaseExclusive
<1>2. QED
  BY <1>1, AlwaysIInv, PTL

\* The guard of ExtendLease, Complete and Fail, which names the worker and not
\* the attempt, admits the newest attempt only.
THEOREM Fencing == Spec => []CloseFenced
<1>1. IInv => CloseFenced
  BY DEF IInv, Held, NewestLocked, CloseFenced, Owns
<1>2. QED
  BY <1>1, AlwaysIInv, PTL

\* Three heartbeats a lease are enough for a worker that is scheduled and whose
\* calls succeed within MaxLag.
THEOREM HeartbeatSafety == Spec => []HeartbeatKeepsLease
<1>1. IInv => HeartbeatKeepsLease
  <2> SUFFICES ASSUME IInv, NEW w \in Worker \ Stalling, phase[w] \in {"working", "extending"}
                 PROVE  left[w] > 0
    BY DEF HeartbeatKeepsLease
  <2>2. left[w] \in Int /\ timer[w] \in Nat
    BY LeaseAssumption DEF IInv, TypeOK
  <2>3. Lease \in Nat /\ MaxLag \in Nat /\ Interval \in Nat /\ 2 * MaxLag + Interval < Lease
    BY IntervalFits, LeaseAssumption
  <2>4. CASE phase[w] = "working"
    BY <2>2, <2>3, <2>4 DEF IInv, HeartbeatOK
  <2>5. CASE phase[w] = "extending"
    <3>1. timer[w] <= MaxLag
      BY <2>5 DEF IInv, CallsInTime
    <3>2. QED
      BY <2>2, <2>3, <2>5, <3>1 DEF IInv, HeartbeatOK
  <2>6. QED
    BY <2>4, <2>5
<1>2. QED
  BY <1>1, AlwaysIInv, PTL
-----------------------------------------------------------------------------
(* The queue implements JobLifecycle. *)

\* Nothing leaves or enters flight while the busy workers keep what they hold.
LEMMA FlightUnchanged ==
  ASSUME \A v \in Worker :
           /\ (phase'[v] \in Busy) <=> (phase[v] \in Busy)
           /\ phase[v] \in Busy => job'[v] = job[v] /\ attempt'[v] = attempt[v]
  PROVE  InFlight' = InFlight
  BY DEF InFlight

\* A worker that lets go takes its own attempt out of flight and no other.
LEMMA FlightReleased ==
  ASSUME IInv, NEW w \in Worker, Release(w), phase[w] \in Busy
  PROVE  InFlight' = [InFlight EXCEPT ![job[w]] = @ \ {attempt[w]}]
<1>1. \A v \in Worker : phase'[v] \in Busy =>
        v # w /\ phase'[v] = phase[v] /\ job'[v] = job[v] /\ attempt'[v] = attempt[v]
  BY DEF Release, IInv, TypeOK
<1>2. \A v \in Worker : v # w => phase'[v] = phase[v] /\ job'[v] = job[v] /\ attempt'[v] = attempt[v]
  BY DEF Release, IInv, TypeOK
<1>3. \A v \in Worker : v # w /\ phase[v] \in Busy /\ job[v] = job[w] => attempt[v] # attempt[w]
  BY DEF IInv, Held, AttemptsDiffer
<1>4. ASSUME NEW j \in Job
      PROVE  InFlight'[j] = IF j = job[w] THEN InFlight[j] \ {attempt[w]} ELSE InFlight[j]
  BY <1>1, <1>2, <1>3 DEF InFlight
<1>5. QED
  BY <1>4 DEF InFlight

LEMMA FlightIdleReleased ==
  ASSUME IInv, NEW w \in Worker, Release(w), phase[w] \notin Busy
  PROVE  InFlight' = InFlight
<1>1. \A v \in Worker :
        /\ (phase'[v] \in Busy) <=> (phase[v] \in Busy)
        /\ phase[v] \in Busy => job'[v] = job[v] /\ attempt'[v] = attempt[v]
  BY DEF Release, IInv, TypeOK
<1>2. QED
  BY <1>1, FlightUnchanged

\* The attempt that a worker holds is in flight.
LEMMA HeldInFlight ==
  ASSUME IInv, NEW w \in Worker, phase[w] \in Busy
  PROVE  job[w] \in Job /\ attempt[w] \in InFlight[job[w]]
  BY DEF IInv, Held, HeldOK, InFlight

\* The claim that puts j into the hands of w adds exactly the new attempt.
LEMMA FlightTaken ==
  ASSUME IInv, NEW w \in Worker, NEW j \in Job, phase[w] = "claiming",
         phase'   = [phase EXCEPT ![w] = "working"],
         job'     = [job EXCEPT ![w] = j],
         attempt' = [attempt EXCEPT ![w] = attempts[j] + 1]
  PROVE  InFlight' = [i \in Job |-> IF i \in {j} THEN InFlight[i] \union {attempts[i] + 1}
                                   ELSE InFlight[i]]
<1>1. phase'[w] = "working" /\ job'[w] = j /\ attempt'[w] = attempts[j] + 1
  BY DEF IInv, TypeOK
<1>2. \A v \in Worker : v # w =>
        phase'[v] = phase[v] /\ job'[v] = job[v] /\ attempt'[v] = attempt[v]
  BY DEF IInv, TypeOK
<1>3. ASSUME NEW i \in Job
      PROVE  InFlight'[i] = IF i \in {j} THEN InFlight[i] \union {attempts[i] + 1} ELSE InFlight[i]
  BY <1>1, <1>2 DEF InFlight
<1>4. QED
  BY <1>3 DEF InFlight

USE DEF Lifecycle!Status

\* A budget that is not left is used up exactly.
LEMMA BudgetSpent ==
  ASSUME IInv, NEW j \in Job, attempts[j] >= MaxAttempts
  PROVE  attempts[j] = MaxAttempts
<1>1. attempts[j] \in 0..MaxAttempts
  BY DEF IInv, TypeOK
<1>2. MaxAttempts \in Nat
  BY QueueAssumption
<1>3. QED
  BY <1>1, <1>2

\* The row effects of a claim are those of the abstract claim.
LEMMA ClaimRowsImplement ==
  ASSUME IInv, NEW w \in Worker, NEW started \in SUBSET Job, \A i, j \in started : i = j,
         \A j \in started : Due(w, j), ClaimRows(w, started),
         \/ InFlight' = [j \in Job |-> IF j \in started THEN InFlight[j] \union {attempts[j] + 1}
                                       ELSE InFlight[j]]
         \/ InFlight' = InFlight
  PROVE  Lifecycle!Next
<1>1. Exhausted(w) \in SUBSET Job
  BY DEF Exhausted
<1>2. \A j \in Exhausted(w) : status[j] = "running" /\ attempts[j] = MaxAttempts
  BY BudgetSpent DEF Exhausted
<1>3. \A j \in started : status[j] \in {"pending", "running"} /\ attempts[j] < MaxAttempts
  BY DEF Due
<1>4. Lifecycle!Claim(Exhausted(w), started)
  BY <1>2, <1>3 DEF Lifecycle!Claim, ClaimRows
<1>5. QED
  BY <1>1, <1>4 DEF Lifecycle!Next

\* A worker that lets go of its attempt leaves the rows to others.
LEMMA ReleaseImplements ==
  ASSUME IInv, NEW w \in Worker, Release(w), UNCHANGED rowVars
  PROVE  [Lifecycle!Next]_(Lifecycle!vars)
<1>1. CASE phase[w] \in Busy
  <2>1. Lifecycle!Abandon(job[w], attempt[w])
    BY <1>1, FlightReleased, HeldInFlight DEF Lifecycle!Abandon, rowVars
  <2>2. QED
    BY <1>1, <2>1, HeldInFlight DEF Lifecycle!Next
<1>2. CASE phase[w] \notin Busy
  BY <1>2, FlightIdleReleased DEF Lifecycle!vars, rowVars
<1>3. QED
  BY <1>1, <1>2

\* A close that the guard admits is the close of the newest attempt.
LEMMA CloseImplements ==
  ASSUME IInv, NEW w \in Worker, phase[w] \in Closing, Owns(w), Release(w), UNCHANGED attempts,
         \/ status' = [status EXCEPT ![job[w]] = "succeeded"]
         \/ attempts[job[w]] = MaxAttempts /\ status' = [status EXCEPT ![job[w]] = "dead"]
         \/ attempts[job[w]] < MaxAttempts /\ status' = [status EXCEPT ![job[w]] = "pending"]
  PROVE  Lifecycle!Next
<1>1. job[w] \in Job /\ attempt[w] \in InFlight[job[w]]
  BY HeldInFlight
<1>2. status[job[w]] = "running" /\ attempt[w] = attempts[job[w]]
  BY DEF Owns, IInv, Held, NewestLocked
<1>3. InFlight' = [InFlight EXCEPT ![job[w]] = @ \ {attempts[job[w]]}]
  BY <1>2, FlightReleased
<1>4. Lifecycle!Close(job[w])
  BY <1>1, <1>2, <1>3 DEF Lifecycle!Close
<1>5. QED
  BY <1>1, <1>4 DEF Lifecycle!Next

LEMMA StepImplements == IInv /\ [Next]_vars => [Lifecycle!Next]_(Lifecycle!vars)
<1> SUFFICES ASSUME IInv, [Next]_vars PROVE [Lifecycle!Next]_(Lifecycle!vars)
  OBVIOUS
<1>1. CASE Tick
  BY <1>1, FlightUnchanged DEF Tick, Lifecycle!vars
<1>2. ASSUME NEW j \in Job, Enqueue(j) PROVE Lifecycle!Next
  <2>1. InFlight' = InFlight
    BY <1>2, FlightUnchanged DEF Enqueue, workerVars
  <2>2. Lifecycle!Enqueue(j)
    BY <1>2, <2>1 DEF Enqueue, Lifecycle!Enqueue
  <2>3. QED
    BY <2>2 DEF Lifecycle!Next
<1>3. ASSUME NEW w \in Worker, BeginClaim(w) PROVE UNCHANGED Lifecycle!vars
  <2>1. \A v \in Worker : (phase'[v] \in Busy) <=> (phase[v] \in Busy)
    BY <1>3 DEF BeginClaim, IInv, TypeOK
  <2>2. QED
    BY <1>3, <2>1, FlightUnchanged DEF BeginClaim, rowVars, Lifecycle!vars
<1>4. ASSUME NEW w \in Worker, ClaimNothing(w) PROVE Lifecycle!Next
  BY <1>4, FlightIdleReleased, ClaimRowsImplement DEF ClaimNothing
<1>5. ASSUME NEW w \in Worker, NEW j \in Job, ClaimJob(w, j) PROVE Lifecycle!Next
  <2>1. CASE Release(w)
    BY <1>5, <2>1, FlightIdleReleased, ClaimRowsImplement DEF ClaimJob
  <2>2. CASE ~Release(w)
    BY <1>5, <2>2, FlightTaken, ClaimRowsImplement DEF ClaimJob
  <2>3. QED
    BY <2>1, <2>2
<1>6. ASSUME NEW w \in Worker, ClaimFails(w) \/ HandlerAbandons(w) \/ CloseFails(w) \/ Crash(w)
      PROVE [Lifecycle!Next]_(Lifecycle!vars)
  BY <1>6, ReleaseImplements DEF ClaimFails, HandlerAbandons, CloseFails, Crash
<1>7. ASSUME NEW w \in Worker, Heartbeat(w) \/ HandlerReturns(w) PROVE UNCHANGED Lifecycle!vars
  <2>1. UNCHANGED <<status, attempts, job, attempt>>
    BY <1>7 DEF Heartbeat, BeginExtend, ExtendLease, ExtendFails, HandlerReturns, rowVars
  <2>2. \A v \in Worker : (phase'[v] \in Busy) <=> (phase[v] \in Busy)
    BY <1>7 DEF Heartbeat, BeginExtend, ExtendLease, ExtendFails, HeartbeatEnds, HandlerReturns,
                IInv, TypeOK
  <2>3. QED
    BY <2>1, <2>2, FlightUnchanged DEF Lifecycle!vars
<1>8. ASSUME NEW w \in Worker, Complete(w) PROVE Lifecycle!Next
  BY <1>8, CloseImplements DEF Complete
<1>9. ASSUME NEW w \in Worker, Fail(w) PROVE Lifecycle!Next
  <2>1. job[w] \in Job
    BY <1>9, HeldInFlight DEF Fail
  <2>2. attempts[job[w]] >= MaxAttempts => attempts[job[w]] = MaxAttempts
    BY <2>1, BudgetSpent
  <2>3. QED
    BY <1>9, <2>2, CloseImplements DEF Fail
<1>10. CASE UNCHANGED vars
  BY <1>10, FlightUnchanged DEF vars, Lifecycle!vars
<1>11. QED
  BY <1>1, <1>2, <1>3, <1>4, <1>5, <1>6, <1>7, <1>8, <1>9, <1>10
  DEF Next, ClaimCommits, HandlerEnds, Close

\* Every behaviour of the queue (Enqueue, Claim, ExtendLease, Complete, Fail and
\* the runners) is one that JobLifecycle allows.
THEOREM QueueImplementsLifecycle == Spec => LifecycleSpec
<1>1. Init => Lifecycle!Init
  BY DEF Init, Lifecycle!Init, InFlight
<1>2. QED
  BY <1>1, StepImplements, AlwaysIInv, PTL DEF Spec, LifecycleSpec, Lifecycle!Spec
=============================================================================
