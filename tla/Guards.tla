------------------------------- MODULE Guards -------------------------------
(***************************************************************************)
(* The spend guards of one published campaign                              *)
(* (internal/application/guards.go, guard_repository.go): the evaluation   *)
(* job climbs a ladder of spend checkpoints and pauses the campaign at     *)
(* Meta when one is not met, while the operator pauses, resumes and edits, *)
(* and the inventory sweep and the collector copy Meta's status back.      *)
(*                                                                         *)
(* A campaign may be covered by the guard of its batch and by one of its   *)
(* own, which shadows the other while it is active.  One evaluation job    *)
(* runs at a time (the index uq_jobs_recurring_active and the job lease);  *)
(* each of its calls and of the operator's is a step of its own.           *)
(***************************************************************************)
EXTENDS Integers

CONSTANTS
  MaxRungs,   \* most checkpoints of a ladder
  MaxSpend,   \* highest spend observed, or asked about
  MaxYield,   \* highest result (clicks, leads, sales...) observed, or asked for
  MaxOps      \* bound: number of the operator's requests

GuardsAssumption ==
  /\ MaxRungs \in Nat \ {0} /\ MaxSpend \in Nat \ {0} /\ MaxYield \in Nat \ {0}
  /\ MaxOps \in Nat

VARIABLES
  guard,      \* campaign_guards: status and ladder
  check,      \* guard_checks of the campaign: status, by guard and checkpoint index
  remote,     \* the campaign's status at Meta
  local,      \* published_objects.effective_status
  inventory,  \* ad_entities.effective_status, "none" before the first sweep
  observed,   \* what the insight snapshot and the tracker roll-up say
  eval,       \* the evaluation job
  oper,       \* the operator's request under way
  ops,        \* number of requests so far
  faulty      \* may the evaluation still fail half-way?

guardVars  == <<guard, check>>
statusVars == <<remote, local, inventory>>
operVars   == <<oper, ops>>
evalVars   == <<eval, faulty>>
vars == <<guard, check, remote, local, inventory, observed, eval, oper, ops, faulty>>

Guard  == {"batch", "own"}
Status == {"ACTIVE", "PAUSED"}
Rung   == 1..MaxRungs
CheckStatus == {"none", "passed", "failed", "overridden"}
Checks == [Rung -> CheckStatus]
NoChecks == [i \in Rung |-> "none"]

Checkpoint  == [spend : 1..MaxSpend, yield : 1..MaxYield]
Observation == [spend : 0..MaxSpend, yield : 0..MaxYield]

\* normalizeCheckpoints: what it accepts, sorted by a spend that is unique.
Checkpoints ==
  UNION {{l \in [1..n -> Checkpoint] : \A i, j \in 1..n : i < j => l[i].spend < l[j].spend} :
          n \in Rung}

\* Where the evaluation stands: its next call.
At == {"idle", "guards", "observing", "checking", "pausing", "storing", "finding", "writing"}

\* todo, ladder: the guards that ListDue returned; g: the guard being evaluated;
\* known, seen: the checks and the observation it goes by; rung: the checkpoint
\* at hand; verdict: what SaveCheck will write.
Evaluation ==
  [at : At, todo : SUBSET Guard, ladder : [Guard -> Checkpoints], g : Guard, known : Checks,
   seen : Observation, rung : Rung, verdict : {"passed", "failed"}]

TypeOK ==
  /\ guard \in [Guard -> [status : {"absent", "active", "disabled"}, ladder : Checkpoints]]
  /\ check \in [Guard -> Checks]
  /\ remote \in Status /\ local \in Status /\ inventory \in Status \union {"none"}
  /\ observed \in Observation
  /\ eval \in Evaluation
  /\ oper \in [at : {"idle", "setting", "storing", "overriding"}, status : Status]
  /\ ops \in 0..MaxOps /\ faulty \in BOOLEAN

Rest == [at |-> "idle", todo |-> {}, ladder |-> [g \in Guard |-> CHOOSE l \in Checkpoints : TRUE],
         g |-> "batch", known |-> NoChecks, seen |-> [spend |-> 0, yield |-> 0],
         rung |-> 1, verdict |-> "passed"]

\* The launcher publishes the batch with its guard; the campaign delivers.
Init ==
  /\ guard \in {[g \in Guard |-> [status |-> IF g = "batch" THEN "active" ELSE "absent",
                                  ladder |-> l]] : l \in Checkpoints}
  /\ check = [g \in Guard |-> NoChecks]
  /\ remote = "ACTIVE" /\ local = "ACTIVE" /\ inventory = "none"
  /\ observed = [spend |-> 0, yield |-> 0]
  /\ eval = Rest
  /\ oper = [at |-> "idle", status |-> "PAUSED"]
  /\ ops = 0 /\ faulty = TRUE
-----------------------------------------------------------------------------
(* EvaluateDueGuards, evaluateGuard, evaluateGuardCampaign. *)

Evaluates(at) == eval.at = at

\* This guard is finished with, judged or not: the next one.
NextGuard(todo) ==
  eval' = IF todo = {} THEN Rest
          ELSE [Rest EXCEPT !.at = "guards", !.todo = todo, !.ladder = eval.ladder]

\* ListDue reads the active guards whose interval has elapsed, ladders and all.
ListDue(due) ==
  /\ Evaluates("idle")
  /\ due # {} /\ \A g \in due : guard[g].status = "active"
  /\ eval' = [Rest EXCEPT !.at = "guards", !.todo = due, !.ladder = [g \in Guard |-> guard[g].ladder]]
  /\ UNCHANGED <<guardVars, statusVars, observed, operVars, faulty>>

\* guardCampaigns: the campaign belongs to the batch guard unless its own is active.
Covers(g) == g = "own" \/ guard["own"].status # "active"

\* A campaign known as paused is left alone.
ListCampaigns(g) ==
  /\ Evaluates("guards") /\ g \in eval.todo
  /\ IF Covers(g) /\ local # "PAUSED"
     THEN eval' = [eval EXCEPT !.at = "observing", !.g = g, !.todo = @ \ {g}]
     ELSE NextGuard(eval.todo \ {g})
  /\ UNCHANGED <<guardVars, statusVars, observed, operVars, faulty>>

\* An error ends the evaluation of this guard and, when the connection turns out
\* to have expired, of every other one of the job.
GiveUp ==
  /\ faulty
  /\ \/ Evaluates("guards") /\ \E g \in eval.todo : NextGuard(eval.todo \ {g})
     \/ eval.at \in {"observing", "checking", "finding", "writing"} /\ NextGuard(eval.todo)
     \/ eval.at \in {"guards", "observing", "checking", "finding", "writing"} /\ NextGuard({})
  /\ UNCHANGED <<guardVars, statusVars, observed, operVars, faulty>>

ObserveCampaign ==
  /\ Evaluates("observing")
  /\ eval' = [eval EXCEPT !.at = "checking", !.seen = observed]
  /\ UNCHANGED <<guardVars, statusVars, observed, operVars, faulty>>

\* Mutation: a failed check is not judged again.
DecidedOnce(known, i) == known[i] # "none"

\* A check counts unless it failed: that one is judged again.
Decided(known, i) == known[i] \notin {"none", "failed"}
Reached(l, seen)  == {i \in DOMAIN l : seen.spend >= l[i].spend}
Met(l, seen, i)   == seen.yield >= l[i].yield

\* The loop over the ladder from rung n on: the first reached checkpoint that is
\* not decided is judged, and a failure pauses before it is recorded.
Climb(known, seen, n) ==
  LET l    == eval.ladder[eval.g]
      open == {i \in Reached(l, seen) : i >= n /\ ~Decided(known, i)}
  IN  \/ open = {} /\ NextGuard(eval.todo)
      \/ \E i \in open :
           /\ \A k \in open : i <= k
           /\ eval' = [eval EXCEPT
                !.known = known, !.rung = i,
                !.at = IF Met(l, seen, i) THEN "finding" ELSE "pausing",
                !.verdict = IF Met(l, seen, i) THEN "passed" ELSE "failed"]

ListChecks ==
  /\ Evaluates("checking")
  /\ Climb(check[eval.g], eval.seen, 1)
  /\ UNCHANGED <<guardVars, statusVars, observed, operVars, faulty>>

\* PauseEntity may take effect and still report an error; the failed check is
\* recorded either way.
PauseEntity ==
  /\ Evaluates("pausing")
  /\ \/ remote' = "PAUSED" /\ eval' = [eval EXCEPT !.at = "storing"]
     \/ faulty /\ remote' \in {remote, "PAUSED"} /\ eval' = [eval EXCEPT !.at = "finding"]
  /\ UNCHANGED <<guardVars, local, inventory, observed, operVars, faulty>>

\* An error of UpdatePublishedStatus goes into the check.
StorePaused ==
  /\ Evaluates("storing")
  /\ local' = "PAUSED" \/ (faulty /\ local' = local)
  /\ eval' = [eval EXCEPT !.at = "finding"]
  /\ UNCHANGED <<guardVars, remote, inventory, observed, operVars, faulty>>

\* Mutation: a failure goes on with the ladder.
SavedGoesOn == Climb(eval.known, eval.seen, eval.rung + 1)

\* The check is saved: a pass goes on with the ladder, a failure ends it, and
\* the job if the pause found the connection expired.
Saved ==
  IF eval.verdict = "passed" THEN Climb(eval.known, eval.seen, eval.rung + 1)
  ELSE NextGuard(eval.todo) \/ (faulty /\ NextGuard({}))

\* SaveCheck reads the row first: an overridden one is left as it is.
FindCheck ==
  /\ Evaluates("finding")
  /\ IF check[eval.g][eval.rung] = "overridden" THEN Saved
     ELSE eval' = [eval EXCEPT !.at = "writing"]
  /\ UNCHANGED <<guardVars, statusVars, observed, operVars, faulty>>

\* Then it inserts the row, or updates the row it found by its id alone.
WriteCheck ==
  /\ Evaluates("writing")
  /\ check' = [check EXCEPT ![eval.g][eval.rung] = eval.verdict]
  /\ Saved
  /\ UNCHANGED <<guard, statusVars, observed, operVars, faulty>>

\* The worker dies, or its job is cancelled.
Crash ==
  /\ faulty /\ ~Evaluates("idle")
  /\ eval' = Rest
  /\ UNCHANGED <<guardVars, statusVars, observed, operVars, faulty>>

\* From here on the calls of the evaluation succeed.
Settle ==
  /\ faulty /\ faulty' = FALSE
  /\ UNCHANGED <<guardVars, statusVars, observed, eval, operVars>>
-----------------------------------------------------------------------------
(* The operator: SetCampaignStatus, CreateGuard, UpdateGuard. *)

Operates(at) == oper.at = at

SetCampaignStatus(status) ==
  /\ Operates("idle") /\ ops < MaxOps
  /\ oper' = [at |-> "setting", status |-> status]
  /\ ops' = ops + 1
  /\ UNCHANGED <<guardVars, statusVars, observed, evalVars>>

Ended == oper' = [at |-> "idle", status |-> "PAUSED"]
Goes(at) == oper' = [oper EXCEPT !.at = at]

SetEntityStatus ==
  /\ Operates("setting")
  /\ \/ remote' = oper.status /\ Goes("storing")
     \/ remote' \in {remote, oper.status} /\ Ended
  /\ UNCHANGED <<guardVars, local, inventory, observed, evalVars, ops>>

UpdatePublishedStatus ==
  /\ Operates("storing")
  /\ \/ local' = oper.status /\ IF oper.status = "ACTIVE" THEN Goes("overriding") ELSE Ended
     \/ local' \in {local, oper.status} /\ Ended
  /\ UNCHANGED <<guardVars, remote, inventory, observed, evalVars, ops>>

Overridden ==
  [g \in Guard |-> [i \in Rung |-> IF check[g][i] = "failed" THEN "overridden" ELSE check[g][i]]]

OverrideFailedChecks ==
  /\ Operates("overriding")
  /\ check' \in {Overridden, check}
  /\ Ended
  /\ UNCHANGED <<guard, statusVars, observed, evalVars, ops>>

\* The guard of the campaign itself is created, active or disabled ...
CreateGuard(status, l) ==
  /\ Operates("idle") /\ ops < MaxOps
  /\ guard["own"].status = "absent"
  /\ guard' = [guard EXCEPT !["own"] = [status |-> status, ladder |-> l]]
  /\ ops' = ops + 1
  /\ UNCHANGED <<check, statusVars, observed, evalVars, oper>>

\* ... and any guard is edited: its ladder is replaced, its checks are kept.
UpdateGuard(g, status, l) ==
  /\ Operates("idle") /\ ops < MaxOps
  /\ guard[g].status # "absent"
  /\ guard' = [guard EXCEPT ![g] = [status |-> status, ladder |-> l]]
  /\ ops' = ops + 1
  /\ UNCHANGED <<check, statusVars, observed, evalVars, oper>>
-----------------------------------------------------------------------------
(* What comes from Meta. *)

\* Lifetime figures grow; observeCampaign finds the newest stored.
Deliver ==
  /\ observed' \in {o \in Observation : o.spend >= observed.spend /\ o.yield >= observed.yield}
  /\ UNCHANGED <<guardVars, statusVars, evalVars, operVars>>

\* SyncAdEntities
Sweep ==
  /\ inventory' = remote
  /\ UNCHANGED <<guardVars, remote, local, observed, evalVars, operVars>>

\* CollectInsights copies the inventory's status, or asks Meta without one.
Refresh ==
  /\ local' = IF inventory = "none" THEN remote ELSE inventory
  /\ UNCHANGED <<guardVars, remote, inventory, observed, evalVars, operVars>>
-----------------------------------------------------------------------------
Evaluate ==
  \/ \E g \in Guard : ListCampaigns(g)
  \/ ObserveCampaign \/ ListChecks \/ PauseEntity \/ StorePaused \/ FindCheck \/ WriteCheck

Operate ==
  \/ \E status \in Status : SetCampaignStatus(status)
  \/ SetEntityStatus \/ UpdatePublishedStatus \/ OverrideFailedChecks
  \/ \E status \in {"active", "disabled"} : \E l \in Checkpoints :
       CreateGuard(status, l) \/ \E g \in Guard : UpdateGuard(g, status, l)

Next ==
  \/ \E due \in SUBSET Guard : ListDue(due)
  \/ Evaluate \/ GiveUp \/ Crash \/ Settle \/ Operate \/ Deliver \/ Sweep \/ Refresh

\* The evaluation's calls return; every active guard comes due again and again;
\* sweep and collector go on.
Fairness ==
  /\ WF_vars(Evaluate \/ GiveUp) /\ WF_vars(Sweep) /\ WF_vars(Refresh)
  /\ \A g \in Guard : SF_vars(\E due \in SUBSET Guard : g \in due /\ ListDue(due))

Spec == Init /\ [][Next]_vars /\ Fairness
-----------------------------------------------------------------------------
(* Properties. *)

\* The ladder is climbed one rung at a time: whatever edits, resumes and crashes
\* come between, a checkpoint is on record only when every earlier one has been
\* passed or overridden.
LadderClimbs ==
  \A g \in Guard : \A i, j \in Rung :
    j < i /\ check[g][i] # "none" => check[g][j] \in {"passed", "overridden"}

\* docs/guards.md:31-32: a passed checkpoint is never re-checked, so it stays passed.
PassedIsFinal ==
  [][\A g \in Guard : \A i \in Rung :
       check[g][i] = "passed" => check'[g][i] = "passed"]_vars

\* An active guard that covers the campaign has a reached checkpoint that is not
\* met, and the operator has not overridden it.
Breached ==
  \E g \in Guard :
    /\ guard[g].status = "active" /\ Covers(g)
    /\ \E i \in Reached(guard[g].ladder, observed) :
         ~Met(guard[g].ladder, observed, i) /\ check[g][i] \notin {"passed", "overridden"}

\* Once the calls of the evaluation stop failing, a campaign does not go on
\* spending in breach of its guard: a failed pause is retried, and neither a check
\* on record nor a stale local status hides the campaign for ever.
BreachStops == ~<>[](~faulty /\ remote = "ACTIVE" /\ Breached)

\* guard_repository.go:138-139: "An overridden check is never downgraded back to
\* failed so an operator's resume decision sticks."
OverrideSticks ==
  [][\A g \in Guard : \A i \in Rung :
       check[g][i] = "overridden" => check'[g][i] # "failed"]_vars
=============================================================================
