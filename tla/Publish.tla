------------------------------ MODULE Publish ------------------------------
(***************************************************************************)
(* Publishing ONE account result of a batch, flat path: the attempts of    *)
(* its publish job (internal/application/batches.go), the hierarchy they   *)
(* create at Meta (internal/meta/publisher.go) and the rows in which they  *)
(* remember it (internal/platform/database/batch_repository.go).           *)
(*                                                                         *)
(* An attempt is a process.  Each of its calls to Meta or the database is  *)
(* one step, which may take effect and still report an error.  The queue   *)
(* that starts the attempts is JobLifecycle, the promise JobQueue keeps.   *)
(* All objects an attempt creates carry the result's unique name marker,   *)
(* so an object at Meta is named here by its kind and its creator.         *)
(***************************************************************************)
EXTENDS Integers, FiniteSets

CONSTANTS
  Result,       \* the batch_account_results row; its publish job has the same identity
  MaxAttempts,  \* jobs.max_attempts
  Overlap       \* may an attempt start while an earlier one still runs?

VARIABLES
  status, attempts,  \* the publish job
  result, tries,     \* batch_account_results: status and attempts
  row,          \* published_objects: the object each kind's row names, 0 without a row
  shown,        \* published_objects: effective_status
  remote,       \* the objects at Meta
  active,       \* those of them that are ACTIVE
  leavePaused,  \* plan.LeavePaused
  try,          \* the attempts
  overlapped    \* ghost: two attempts have been in flight at once

queueVars == <<status, attempts>>
localVars == <<result, tries, row, shown>>
metaVars  == <<remote, active>>
vars == <<status, attempts, result, tries, row, shown, remote, active,
          leavePaused, try, overlapped>>

ASSUME PublishAssumption ==
  /\ MaxAttempts \in Nat \ {0}
  /\ Overlap \in BOOLEAN

Attempt == 1..MaxAttempts
Kind    == {"campaign", "adset", "creative", "ad"}

\* Mutation: activation from the top down.
TopDownOrder == <<"campaign", "adset", "ad">>

\* Creation order, and the order of activation: the campaign comes last.
CreateOrder   == <<"campaign", "adset", "creative", "ad">>
ActivateOrder == <<"ad", "adset", "campaign">>

\* What an attempt waits for: its next call.
At == {"none", "loading", "marking", "listing",
       "calming", "noting", "finding", "halting", "adopting",  \* reconcilePublishRetry
       "uploading", "creating", "saving",               \* publish, with onStage
       "activating", "recording",
       "pausing", "finishing", "repausing",             \* the outcome
       "completing", "failing"}                         \* back in the runner

\* seen: the result row had attempts when it was read.  known: the object IDs
\* the attempt goes by, named by creator.  next: position in an order.
Blank == [at |-> "none", next |-> 0, seen |-> FALSE, known |-> [k \in Kind |-> 0],
          verdict |-> "none", paused |-> FALSE]

Object == [kind : Kind, by : Attempt, parent : 0..MaxAttempts]

TypeOK ==
  /\ status \in [{Result} -> {"pending", "running", "succeeded", "dead"}]
  /\ attempts \in [{Result} -> 0..MaxAttempts]
  /\ result \in {"pending", "running", "succeeded", "failed"}
  /\ tries \in 0..MaxAttempts
  /\ row \in [Kind -> 0..MaxAttempts]
  /\ shown \in [Kind -> {"none", "PAUSED", "ACTIVE", "UNKNOWN"}]
  /\ remote \subseteq Object
  /\ active \subseteq Kind \X Attempt
  /\ leavePaused \in BOOLEAN
  /\ try \in [Attempt -> [at : At, next : 0..5, seen : BOOLEAN,
                          known : [Kind -> 0..MaxAttempts],
                          verdict : {"none", "succeeded", "failed", "pending"},
                          paused : BOOLEAN]]
  /\ overlapped \in BOOLEAN

InFlight == [r \in {Result} |-> {a \in Attempt : try[a].at # "none"}]
Queue    == INSTANCE JobLifecycle WITH Job <- {Result}, inFlight <- InFlight

\* CreateBatch inserts result and job in one transaction.
Init ==
  /\ status = [r \in {Result} |-> "pending"]
  /\ attempts = [r \in {Result} |-> 0]
  /\ result = "pending" /\ tries = 0
  /\ row = [k \in Kind |-> 0] /\ shown = [k \in Kind |-> "none"]
  /\ remote = {} /\ active = {}
  /\ leavePaused \in BOOLEAN
  /\ try = [a \in Attempt |-> Blank]
  /\ overlapped = FALSE
-----------------------------------------------------------------------------
(* Steps of an attempt: bookkeeping. *)

Waits(a, at) == try[a].at = at
Go(a, at)    == try' = [try EXCEPT ![a].at = at]
\* Go to a position of an order.
GoTo(a, at, n) == try' = [try EXCEPT ![a].at = at, ![a].next = n]
Ends(a, verdict) == try' = [try EXCEPT ![a].at = "finishing", ![a].verdict = verdict]

Kept == <<leavePaused, overlapped>>

\* The kind whose turn it is.
Creates(a)   == CreateOrder[try[a].next]
Activates(a) == ActivateOrder[try[a].next]

Known(a, k) == try[a].known[k]

\* The first position from n on whose object the attempt does not know yet.
Missing(a, n) ==
  CHOOSE m \in n..5 :
    /\ \A i \in n..(m - 1) : Known(a, CreateOrder[i]) # 0
    /\ m = 5 \/ Known(a, CreateOrder[m]) = 0

\* Mutation: an ad is attached to the campaign.
FlatParent(a, k) ==
  IF k \in {"adset", "ad"} THEN Known(a, "campaign") ELSE 0

\* The parent an object is created under, and searched under.
Parent(a, k) ==
  CASE k = "adset" -> Known(a, "campaign")
    [] k = "ad"    -> Known(a, "adset")
    [] OTHER       -> 0

\* Mutation: the safety pause goes to the ad set.
PauseAdSet(k, by, ok) == active' = active \ {<<"adset", by>>}

\* Setting a status at Meta takes effect for certain only if the call succeeds.
Activate(k, by, ok) == active' = active \union {<<k, by>>} \/ (~ok /\ active' = active)
Pause(k, by, ok)    == active' = active \ {<<k, by>>}      \/ (~ok /\ active' = active)
-----------------------------------------------------------------------------
(* PublishAccountResult up to the first call to Meta. *)

\* GetAccountResult: the number of earlier attempts is read here.
Load(a) ==
  /\ Waits(a, "loading")
  /\ \/ try' = [try EXCEPT ![a].at = "marking", ![a].seen = tries > 0]
     \/ Go(a, "failing")
  /\ UNCHANGED <<queueVars, localVars, metaVars, Kept>>

\* A result that failed may run again, one that succeeded may not.
MarkAccountRunning(a) ==
  /\ Waits(a, "marking")
  /\ \/ /\ result # "succeeded"
        /\ result' = "running" /\ tries' = tries + 1
        /\ Go(a, "listing") \/ Go(a, "failing")
     \/ Go(a, "failing") /\ UNCHANGED <<result, tries>>
  /\ UNCHANGED <<queueVars, row, shown, metaVars, Kept>>

\* The checkpoints, then the access token; without a token the result ends.
ListCheckpoints(a) ==
  /\ Waits(a, "listing")
  /\ \/ try' = [try EXCEPT ![a].known = row,
                           ![a].at = IF ~try[a].seen THEN "uploading"
                                     ELSE IF row["campaign"] # 0 THEN "calming" ELSE "finding",
                           ![a].next = 1]
     \/ Go(a, "failing")
     \/ \E verdict \in {"failed", "pending"} : Ends(a, verdict)
  /\ UNCHANGED <<queueVars, localVars, metaVars, Kept>>
-----------------------------------------------------------------------------
(* reconcilePublishRetry: any error returns at once and leaves the result     *)
(* running.                                                                  *)

\* safetyPauseCampaign, of the checkpointed or of the rediscovered campaign.
Calm(a) ==
  /\ Waits(a, "calming") \/ Waits(a, "halting")
  /\ \E ok \in BOOLEAN :
       /\ Pause("campaign", Known(a, "campaign"), ok)
       /\ Go(a, IF ~ok THEN "failing" ELSE IF Waits(a, "calming") THEN "noting" ELSE "adopting")
  /\ UNCHANGED <<queueVars, localVars, remote, Kept>>

\* The turn after the object of position n is known; found objects need no search.
Reconciled(a, n, known) ==
  LET todo == {m \in (n + 1)..4 : known[CreateOrder[m]] = 0}
  IN  try' = [try EXCEPT ![a].known = known,
                         ![a].at = IF todo = {} THEN "uploading" ELSE "finding",
                         ![a].next = IF todo = {} THEN 1
                                     ELSE CHOOSE m \in todo : \A i \in todo : m <= i]

\* UpdatePublishedStatus after the pause of a checkpointed campaign.
Note(a) ==
  /\ Waits(a, "noting")
  /\ \/ shown' = [shown EXCEPT !["campaign"] = "PAUSED"] /\ Reconciled(a, 1, try[a].known)
     \/ shown' \in {shown, [shown EXCEPT !["campaign"] = "PAUSED"]} /\ Go(a, "failing")
  /\ UNCHANGED <<queueVars, result, tries, row, metaVars, Kept>>

\* Mutation: the search sees only objects that deliver.
ActiveMatches(a, k) == {o \in remote : o.kind = k /\ <<k, o.by>> \in active}

\* FindPublishedObjectByName: the marker, and for some kinds the parent, select.
Matches(a, k) ==
  {o \in remote : o.kind = k /\ (Parent(a, k) # 0 => o.parent = Parent(a, k))}

\* Creation follows the hierarchy, so the search ends where nothing is found.
\* Two matches are an error, as is a failed search.
Find(a) ==
  /\ Waits(a, "finding")
  /\ LET k == Creates(a)
         found == Matches(a, k)
     IN  \/ found = {} /\ Go(a, "uploading")
         \/ /\ Cardinality(found) = 1
            /\ try' = [try EXCEPT ![a].known[k] = (CHOOSE o \in found : TRUE).by,
                                  ![a].at = IF k = "campaign" THEN "halting" ELSE "adopting"]
         \/ Go(a, "failing")
  /\ UNCHANGED <<queueVars, localVars, metaVars, Kept>>

\* CheckpointPublishedObject of a rediscovered object, with the status found at
\* Meta; a creative has none of its own.
Adopt(a) ==
  /\ Waits(a, "adopting")
  /\ LET k == Creates(a)
         seen == IF k = "creative" THEN "UNKNOWN"
                 ELSE IF k # "campaign" /\ <<k, Known(a, k)>> \in active THEN "ACTIVE" ELSE "PAUSED"
     IN  \/ /\ row' = [row EXCEPT ![k] = Known(a, k)]
            /\ shown' = [shown EXCEPT ![k] = seen]
            /\ Reconciled(a, try[a].next, try[a].known) \/ Go(a, "failing")
         \/ Go(a, "failing") /\ UNCHANGED <<row, shown>>
  /\ UNCHANGED <<queueVars, result, tries, metaVars, Kept>>
-----------------------------------------------------------------------------
(* Publisher.PublishAccount with the onStage callback. *)

\* The media go up before anything is created, unless the creative exists.
Upload(a) ==
  /\ Waits(a, "uploading")
  /\ \/ LET n == Missing(a, 1) IN
          IF n < 5 THEN GoTo(a, "creating", n)
          ELSE IF leavePaused THEN Ends(a, "succeeded") ELSE GoTo(a, "activating", 1)
     \/ Known(a, "creative") = 0 /\ \E verdict \in {"failed", "pending"} : Ends(a, verdict)
  /\ UNCHANGED <<queueVars, localVars, metaVars, Kept>>

\* A stage failed, for good or retryably: with a campaign to pause, pause it first.
\* The attempt goes by the IDs of known.
Breaks(a, known) ==
  \E verdict \in {"failed", "pending"} :
    try' = [try EXCEPT ![a].known = known, ![a].verdict = verdict,
                       ![a].at = IF known["campaign"] # 0 /\ ~leavePaused
                                 THEN "pausing" ELSE "finishing"]

\* Every object is created PAUSED; a create is never repeated inline, and one
\* that reports an error may have happened.
Create(a) ==
  /\ Waits(a, "creating")
  /\ LET k == Creates(a)
         object == [kind |-> k, by |-> a, parent |-> Parent(a, k)]
     IN  \/ /\ remote' = remote \union {object}
            /\ \/ try' = [try EXCEPT ![a].known[k] = a, ![a].at = "saving"]
               \/ Breaks(a, try[a].known)
         \/ Breaks(a, try[a].known) /\ UNCHANGED remote
  /\ UNCHANGED <<queueVars, localVars, active, Kept>>

\* onStage after a create: CheckpointPublishedObject overwrites the kind's row.
Save(a) ==
  /\ Waits(a, "saving")
  /\ LET k == Creates(a)
         n == Missing(a, try[a].next)
         saved == row' = [row EXCEPT ![k] = a] /\ shown' = [shown EXCEPT ![k] = "PAUSED"]
     IN  \/ saved /\ IF n < 5 THEN GoTo(a, "creating", n)
                     ELSE IF leavePaused THEN Ends(a, "succeeded") ELSE GoTo(a, "activating", 1)
         \/ Breaks(a, try[a].known) /\ (saved \/ UNCHANGED <<row, shown>>)
  /\ UNCHANGED <<queueVars, result, tries, metaVars, Kept>>

\* SetEntityStatus ACTIVE, bottom-up.
ActivateEntity(a) ==
  /\ Waits(a, "activating")
  /\ \E ok \in BOOLEAN :
       /\ Activate(Activates(a), Known(a, Activates(a)), ok)
       /\ IF ok THEN Go(a, "recording") ELSE Breaks(a, try[a].known)
  /\ UNCHANGED <<queueVars, localVars, remote, Kept>>

\* onStage after an activation: UpdatePublishedStatus.
Record(a) ==
  /\ Waits(a, "recording")
  /\ LET recorded == shown' = [shown EXCEPT ![Activates(a)] = "ACTIVE"]
     IN  \/ /\ recorded
            /\ IF try[a].next < 3 THEN GoTo(a, "activating", try[a].next + 1)
               ELSE Ends(a, "succeeded")
         \/ Breaks(a, try[a].known) /\ (recorded \/ UNCHANGED shown)
  /\ UNCHANGED <<queueVars, result, tries, row, metaVars, Kept>>
-----------------------------------------------------------------------------
(* The outcome. *)

\* safetyPauseCampaign after a failure; if it fails too, the failure is retryable.
PauseAfterFailure(a) ==
  /\ Waits(a, "pausing")
  /\ \E ok \in BOOLEAN :
       /\ Pause("campaign", Known(a, "campaign"), ok)
       /\ try' = [try EXCEPT ![a].at = "finishing", ![a].paused = ok,
                             ![a].verdict = IF ok THEN @ ELSE "pending"]
  /\ UNCHANGED <<queueVars, localVars, remote, Kept>>

\* persistResultPublishedObjects adds the rows that are missing, and no others.
PersistObjects(a) ==
  LET added == {k \in Kind : row[k] = 0 /\ Known(a, k) # 0}
      effective == IF leavePaused \/ try[a].paused THEN "PAUSED" ELSE "UNKNOWN"
  IN  /\ row' = [k \in Kind |-> IF k \in added THEN Known(a, k) ELSE row[k]]
      /\ shown' = [k \in Kind |-> IF k \in added THEN effective ELSE shown[k]]

\* FinishAccountResult and RecordAccountRetry: only a running result is closed.
Durable(a) ==
  /\ result = "running"
  /\ result' = try[a].verdict
  /\ PersistObjects(a)

\* Closed: a failure is final and its job completes, unless the expired
\* connection could not be recorded; a retry fails the job.
Finish(a) ==
  /\ Waits(a, "finishing")
  /\ Durable(a)
  /\ \/ try[a].verdict # "pending" /\ Go(a, "completing")
     \/ try[a].verdict # "succeeded" /\ Go(a, "failing")
  /\ UNCHANGED <<queueVars, tries, metaVars, Kept>>

\* An error, though the transaction may have committed.
FinishFails(a) ==
  /\ Waits(a, "finishing")
  /\ Durable(a) \/ UNCHANGED <<result, row, shown>>
  /\ Go(a, IF try[a].verdict = "succeeded" /\ ~leavePaused THEN "repausing" ELSE "failing")
  /\ UNCHANGED <<queueVars, tries, metaVars, Kept>>

\* The success is not known to be durable: safetyPauseCampaign.
PauseUndurable(a) ==
  /\ Waits(a, "repausing")
  /\ \E ok \in BOOLEAN : Pause("campaign", Known(a, "campaign"), ok)
  /\ Go(a, "failing")
  /\ UNCHANGED <<queueVars, localVars, remote, Kept>>
-----------------------------------------------------------------------------
(* The queue: its own steps, and what they do to the result. *)

\* Mutation: the result takes the status of the job.
FinalizeAsDead ==
  /\ result' = IF result \in {"pending", "running"} THEN "dead" ELSE result
  /\ UNCHANGED <<tries, row, shown>>

\* Mutation: only a result that no attempt has marked running is closed.
FinalizePending ==
  /\ result' = IF result = "pending" THEN "failed" ELSE result
  /\ UNCHANGED <<tries, row, shown>>

\* Mutation: a result that waits for a retry is left open.
FinalizeRunning ==
  /\ result' = IF result = "running" THEN "failed" ELSE result
  /\ UNCHANGED <<tries, row, shown>>

\* finalizeDeadPublishAccountResult, in the transaction that buries the job.
Finalize ==
  /\ result' = IF result \in {"pending", "running"} THEN "failed" ELSE result
  /\ UNCHANGED <<tries, row, shown>>

Start ==
  /\ Overlap \/ InFlight[Result] = {}
  /\ attempts[Result] < MaxAttempts
  /\ \/ try' = [try EXCEPT ![attempts[Result] + 1].at = "loading"]
     \/ UNCHANGED try                \* committed, but the worker never learns of it
  /\ Queue!Claim({}, {Result})
  /\ overlapped' = (overlapped \/ Cardinality(InFlight'[Result]) > 1)
  /\ UNCHANGED <<localVars, metaVars, leavePaused>>

Bury ==
  /\ Overlap \/ InFlight[Result] = {}
  /\ UNCHANGED try
  /\ Queue!Claim({Result}, {})
  /\ Finalize
  /\ UNCHANGED <<metaVars, Kept>>

\* Complete, or Fail: the attempt's last step.
Close(a) ==
  /\ a = attempts[Result]
  /\ try' = [try EXCEPT ![a] = Blank]
  /\ Queue!Close(Result)
  /\ \/ Waits(a, "completing") /\ status'[Result] = "succeeded" /\ UNCHANGED localVars
     \/ Waits(a, "failing") /\ status'[Result] = "pending" /\ UNCHANGED localVars
     \/ Waits(a, "failing") /\ status'[Result] = "dead" /\ Finalize
  /\ UNCHANGED <<metaVars, Kept>>

\* A crash anywhere, or at its end an attempt whose lease is gone.
Abandon(a) ==
  /\ try' = [try EXCEPT ![a] = Blank]
  /\ Queue!Abandon(Result, a)
  /\ UNCHANGED <<localVars, metaVars, Kept>>
-----------------------------------------------------------------------------
Step(a) ==
  \/ Load(a) \/ MarkAccountRunning(a) \/ ListCheckpoints(a)
  \/ Calm(a) \/ Note(a) \/ Find(a) \/ Adopt(a)
  \/ Upload(a) \/ Create(a) \/ Save(a) \/ ActivateEntity(a) \/ Record(a)
  \/ PauseAfterFailure(a) \/ Finish(a) \/ FinishFails(a) \/ PauseUndurable(a)

Next ==
  \/ Start \/ Bury
  \/ \E a \in Attempt : Step(a) \/ Close(a) \/ Abandon(a)

\* The runner could not close the job: the lease is lost, or the database errs.
Leave(a) == try[a].at \in {"completing", "failing"} /\ Abandon(a)

\* Calls return or time out, the runner closes a job or leaves it to its lease,
\* and workers keep claiming.
Fairness ==
  /\ WF_vars(Start \/ Bury)
  /\ \A a \in Attempt : WF_vars(Step(a)) /\ WF_vars(Close(a) \/ Leave(a))

Spec == Init /\ [][Next]_vars /\ Fairness
-----------------------------------------------------------------------------
(* Properties. *)

IsActive(o) == <<o.kind, o.by>> \in active

\* Unless attempts overlap, no crash, lost answer or failed checkpoint makes an
\* attempt create what an earlier one already created.
NoDuplicates ==
  ~overlapped => \A o, p \in remote : o.kind = p.kind => o = p

\* The publisher's bottom-up order: a campaign spends only through an ad set and
\* an ad that were both complete and ACTIVE before it was activated.
WholeWhenActive ==
  \A c \in remote : c.kind = "campaign" /\ IsActive(c) =>
    \E s, d \in remote :
      /\ s.kind = "adset" /\ s.parent = c.by /\ IsActive(s)
      /\ d.kind = "ad" /\ d.parent = s.by /\ IsActive(d)

\* A retry pauses the campaign before it creates or activates anything: an
\* attempt at work on the hierarchy never works under a campaign that spends.
WorksPaused ==
  ~overlapped =>
    \A a \in Attempt :
      try[a].at \in {"uploading", "creating", "saving"} =>
        \A o \in remote : o.kind = "campaign" => ~IsActive(o)

\* What a successful result leaves behind: every row names an object at Meta and
\* each names the parent that the row of the parent's kind names.
SuccessIsWhole ==
  result = "succeeded" /\ ~overlapped =>
    \A k \in Kind : \E o \in remote :
      /\ o.kind = k /\ o.by = row[k]
      /\ k = "adset" => o.parent = row["campaign"]
      /\ k = "ad"    => o.parent = row["adset"]

\* A job that is over has left no result running or pending, whichever of its
\* transactions failed, committed unnoticed or never ran.
JobClosesResult ==
  status[Result] \in Queue!Terminal => result \in {"succeeded", "failed"}

\* The result of every batch account ends, and so does its job.
ResultEnds ==
  <>[](status[Result] \in Queue!Terminal /\ result \in {"succeeded", "failed"})

\* batches.go:400-402: "Never leave a remotely ACTIVE campaign spending while its
\* successful result is not durable."
SpendIsDurable ==
  (status[Result] \in Queue!Terminal /\ InFlight[Result] = {}) =>
    \A o \in remote : o.kind = "campaign" /\ IsActive(o) => result = "succeeded"

\* What StopBatch would pause: the objects with a row that does not say PAUSED.
StopTargets == {<<k, row[k]>> : k \in {i \in Kind : row[i] # 0 /\ shown[i] # "PAUSED"}}

\* launch_stop.go:25-27: "A system that can start spending has to be able to stop
\* it from the same place."
SpendIsStoppable ==
  (status[Result] \in Queue!Terminal /\ InFlight[Result] = {}) =>
    \A o \in remote : o.kind = "campaign" /\ IsActive(o) => <<o.kind, o.by>> \in StopTargets
=============================================================================
