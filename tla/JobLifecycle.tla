---------------------------- MODULE JobLifecycle ----------------------------
(***************************************************************************)
(* What the durable job queue promises about one row of the table "jobs",  *)
(* without clocks, leases or worker names: a job is started at most        *)
(* MaxAttempts times, every start has its own attempt number, and only the *)
(* newest attempt may close the job.  JobQueue implements this module.     *)
(***************************************************************************)
EXTENDS Integers

CONSTANTS Job,          \* the (type, dedupe_key) identities of the rows
          MaxAttempts   \* jobs.max_attempts

VARIABLES status,       \* jobs.status, "absent" before the row exists
          attempts,     \* jobs.attempts
          inFlight      \* attempt numbers whose handler has not returned

vars == <<status, attempts, inFlight>>

Status   == {"absent", "pending", "running", "succeeded", "dead"}
Terminal == {"succeeded", "dead"}

Init ==
  /\ status   = [j \in Job |-> "absent"]
  /\ attempts = [j \in Job |-> 0]
  /\ inFlight = [j \in Job |-> {}]

\* A row is inserted once; a second insert under its key finds it and does nothing.
Enqueue(j) ==
  /\ status[j] = "absent"
  /\ status' = [status EXCEPT ![j] = "pending"]
  /\ UNCHANGED <<attempts, inFlight>>

\* One claim transaction buries some exhausted jobs and starts at most one
\* other; the new attempt is in flight unless the worker never learns of it.
Claim(exhausted, started) ==
  /\ \A j \in exhausted : status[j] = "running" /\ attempts[j] = MaxAttempts
  /\ \A j \in started : status[j] \in {"pending", "running"} /\ attempts[j] < MaxAttempts
  /\ \A i, j \in started : i = j
  /\ status' = [j \in Job |-> IF j \in exhausted THEN "dead"
                              ELSE IF j \in started THEN "running" ELSE status[j]]
  /\ attempts' = [j \in Job |-> IF j \in started THEN attempts[j] + 1 ELSE attempts[j]]
  /\ \/ inFlight' = [j \in Job |-> IF j \in started THEN inFlight[j] \union {attempts[j] + 1}
                                   ELSE inFlight[j]]
     \/ inFlight' = inFlight

\* The newest attempt, still in flight, closes the job: for good, or back to
\* the queue while the budget lasts.
Close(j) ==
  /\ status[j] = "running"
  /\ attempts[j] \in inFlight[j]
  /\ \/ status' = [status EXCEPT ![j] = "succeeded"]
     \/ attempts[j] = MaxAttempts /\ status' = [status EXCEPT ![j] = "dead"]
     \/ attempts[j] < MaxAttempts /\ status' = [status EXCEPT ![j] = "pending"]
  /\ inFlight' = [inFlight EXCEPT ![j] = @ \ {attempts[j]}]
  /\ UNCHANGED attempts

\* An attempt ends without touching the row: a crash, or a lost lease.
Abandon(j, a) ==
  /\ a \in inFlight[j]
  /\ inFlight' = [inFlight EXCEPT ![j] = @ \ {a}]
  /\ UNCHANGED <<status, attempts>>

Next ==
  \/ \E j \in Job : Enqueue(j) \/ Close(j)
  \/ \E exhausted, started \in SUBSET Job : Claim(exhausted, started)
  \/ \E j \in Job : \E a \in inFlight[j] : Abandon(j, a)

Spec == Init /\ [][Next]_vars
=============================================================================
