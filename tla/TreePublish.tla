---------------------------- MODULE TreePublish ----------------------------
(***************************************************************************)
(* Publishing one account result of a batch, tree path                     *)
(* (internal/application/batches_tree.go): a campaign with several ad sets *)
(* and ads, each object ensured in turn - resumed from its row, found at   *)
(* Meta by its unique name, or created.                                    *)
(*                                                                         *)
(* As in Publish an attempt is a process, each of its calls a step that    *)
(* may take effect and still report an error, and the queue JobLifecycle.  *)
(* An object is named by its place in the tree and the attempt that        *)
(* created it.                                                             *)
(***************************************************************************)
EXTENDS Integers, Sequences, FiniteSets

CONSTANTS
  Result,       \* the batch_account_results row and its publish job
  MaxAttempts,  \* jobs.max_attempts
  Ads           \* the shape of the tree: the number of ads of each ad set

ASSUME TreeAssumption ==
  /\ MaxAttempts \in Nat \ {0}
  /\ Ads \in Seq(Nat \ {0}) /\ Ads # <<>>

VARIABLES
  status, attempts,  \* the publish job
  result, tries,     \* batch_account_results: status and attempts
  row, shown,        \* published_objects by key: the object named (0 without a row), its status
  remote, active,    \* the objects at Meta; those of them that are ACTIVE
  leavePaused,       \* plan.LeavePaused
  try                \* the attempts

queueVars == <<status, attempts>>
localVars == <<result, tries, row, shown>>
metaVars  == <<remote, active>>
vars == <<status, attempts, result, tries, row, shown, remote, active, leavePaused, try>>

Attempt == 1..MaxAttempts

\* The places of the tree; treeObjectKey and tagCampaignTree give each its own key
\* and its own name.
Campaign == [kind |-> "campaign", s |-> 0, i |-> 0]
AdSet    == {[kind |-> "adset", s |-> s, i |-> 0] : s \in DOMAIN Ads}
Creative == UNION {{[kind |-> "creative", s |-> s, i |-> i] : i \in 1..Ads[s]} : s \in DOMAIN Ads}
Ad       == UNION {{[kind |-> "ad", s |-> s, i |-> i] : i \in 1..Ads[s]} : s \in DOMAIN Ads}
Place    == {Campaign} \union AdSet \union Creative \union Ad

\* The order in which the places are ensured: each ad set before its ads, each
\* creative before its ad.
Before(p, q) ==
  \/ p.s < q.s
  \/ p.s = q.s /\ p.i < q.i
  \/ p.s = q.s /\ p.i = q.i /\ p.kind = "creative" /\ q.kind = "ad"

\* Mutation: activation from the top down.
TopDown(p, q) == Before(p, q)

\* The order of activation: the ads, the ad sets, the campaign.
Rank(p) == IF p.kind = "ad" THEN 1 ELSE IF p.kind = "adset" THEN 2 ELSE 3
Sooner(p, q) == Rank(p) < Rank(q) \/ (Rank(p) = Rank(q) /\ Before(p, q))

Above(p)  == IF p.kind = "adset" THEN Campaign ELSE [kind |-> "adset", s |-> p.s, i |-> 0]
Content(p) == [kind |-> "creative", s |-> p.s, i |-> p.i]

At == {"none", "loading", "marking", "uploading", "listing",
       "finding", "adopting", "creating", "saving",     \* ensureTreeObject
       "calming", "noting",                             \* a retry pauses the campaign
       "activating", "recording",                       \* activateTreeObject
       "pausing", "finishing", "repausing",             \* the outcome
       "completing", "failing"}                         \* back in the runner

\* seen: the result had attempts when it was read.  known: the object of each
\* place, 0 until it is ensured; hand: the object about to be checkpointed;
\* done: the places activated.
Blank == [at |-> "none", seen |-> FALSE, known |-> [p \in Place |-> 0], hand |-> 0,
          done |-> {}, verdict |-> "none"]

Object == [place : Place, by : Attempt, parent : 0..MaxAttempts, content : 0..MaxAttempts]

TypeOK ==
  /\ status \in [{Result} -> {"pending", "running", "succeeded", "dead"}]
  /\ attempts \in [{Result} -> 0..MaxAttempts]
  /\ result \in {"pending", "running", "succeeded", "failed"} /\ tries \in 0..MaxAttempts
  /\ row \in [Place -> 0..MaxAttempts]
  /\ shown \in [Place -> {"none", "PAUSED", "ACTIVE", "UNKNOWN"}]
  /\ remote \subseteq Object /\ active \subseteq Place \X Attempt
  /\ leavePaused \in BOOLEAN
  /\ try \in [Attempt -> [at : At, seen : BOOLEAN, known : [Place -> 0..MaxAttempts],
                          hand : 0..MaxAttempts, done : SUBSET Place,
                          verdict : {"none", "succeeded", "failed", "pending"}]]

InFlight == [r \in {Result} |-> {a \in Attempt : try[a].at # "none"}]
Queue    == INSTANCE JobLifecycle WITH Job <- {Result}, inFlight <- InFlight

Init ==
  /\ status = [r \in {Result} |-> "pending"] /\ attempts = [r \in {Result} |-> 0]
  /\ result = "pending" /\ tries = 0
  /\ row = [p \in Place |-> 0] /\ shown = [p \in Place |-> "none"]
  /\ remote = {} /\ active = {}
  /\ leavePaused \in BOOLEAN
  /\ try = [a \in Attempt |-> Blank]
-----------------------------------------------------------------------------
Waits(a, at) == try[a].at = at
Go(a, at) == try' = [try EXCEPT ![a].at = at]
Ends(a, verdict) == try' = [try EXCEPT ![a].at = "finishing", ![a].verdict = verdict]

Known(a, p) == try[a].known[p]
First(S) == CHOOSE p \in S : \A q \in S \ {p} : Before(p, q)

\* The place whose turn it is, and the next to activate.
Unknown(known) == {p \in Place : known[p] = 0}
Turn(a)    == First(Unknown(try[a].known))
Waiting(a) == (Place \ Creative) \ try[a].done
Activates(a) == CHOOSE p \in Waiting(a) : \A q \in Waiting(a) \ {p} : Sooner(p, q)

\* Mutation: every ad goes under the first ad set.
FirstParent(a, p) ==
  CASE p.kind = "adset" -> Known(a, Campaign)
    [] p.kind = "ad"    -> Known(a, [kind |-> "adset", s |-> 1, i |-> 0])
    [] OTHER            -> 0

\* The parent an object is created under, and searched under.
Parent(a, p)  == IF p.kind \in {"adset", "ad"} THEN Known(a, Above(p)) ELSE 0

\* The loops over ad sets and ads, and what comes after them.
Onward(a, known) ==
  try' = [try EXCEPT
    ![a].known = known, ![a].hand = 0,
    ![a].at = IF Unknown(known) # {} THEN IF try[a].seen THEN "finding" ELSE "creating"
              ELSE IF leavePaused THEN "finishing" ELSE "activating",
    ![a].verdict = IF Unknown(known) = {} /\ leavePaused THEN "succeeded" ELSE @]

\* Mutation: a retry goes past the campaign without pausing it.
EnsuredUnpaused(a, known) == Onward(a, known)

\* A retry does not go past the campaign without pausing it.
Ensured(a, known) ==
  IF known[Campaign] # 0 /\ Known(a, Campaign) = 0 /\ try[a].seen
  THEN try' = [try EXCEPT ![a].known = known, ![a].hand = 0, ![a].at = "calming"]
  ELSE Onward(a, known)

\* finishTreePublishFailure: with a campaign to pause, pause it first, unless the
\* token for it cannot be read.
Breaks(a) ==
  \E verdict \in {"failed", "pending"} :
    \/ Ends(a, verdict)
    \/ /\ Known(a, Campaign) # 0 /\ ~leavePaused
       /\ try' = [try EXCEPT ![a].at = "pausing", ![a].verdict = verdict]

Activate(p, by, ok) == active' = active \union {<<p, by>>} \/ (~ok /\ active' = active)
Pause(by, ok) == active' = active \ {<<Campaign, by>>} \/ (~ok /\ active' = active)
-----------------------------------------------------------------------------
(* PublishAccountResult hands over to publishTreeAccountResult. *)

Load(a) ==
  /\ Waits(a, "loading")
  /\ try' = [try EXCEPT ![a].at = "marking", ![a].seen = tries > 0] \/ Go(a, "failing")
  /\ UNCHANGED <<queueVars, localVars, metaVars, leavePaused>>

MarkAccountRunning(a) ==
  /\ Waits(a, "marking")
  /\ \/ /\ result # "succeeded" /\ result' = "running" /\ tries' = tries + 1
        /\ Go(a, "uploading") \/ Go(a, "failing")
     \/ Go(a, "failing") /\ UNCHANGED <<result, tries>>
  /\ UNCHANGED <<queueVars, row, shown, metaVars, leavePaused>>

\* applyTreeMediaBindings and the access token; no campaign is known yet.
Upload(a) ==
  /\ Waits(a, "uploading")
  /\ Go(a, "listing") \/ Breaks(a)
  /\ UNCHANGED <<queueVars, localVars, metaVars, leavePaused>>

ListCheckpoints(a) ==
  /\ Waits(a, "listing")
  /\ Ensured(a, row) \/ Go(a, "failing")
  /\ UNCHANGED <<queueVars, localVars, metaVars, leavePaused>>
-----------------------------------------------------------------------------
(* ensureTreeObject. *)

\* Mutation: only what delivers is found.
ActiveMatches(a, p) ==
  {o \in remote : o.place = p /\ <<p, o.by>> \in active}

Matches(a, p) ==
  {o \in remote : o.place = p /\ (Parent(a, p) # 0 => o.parent = Parent(a, p))}

Find(a) ==
  /\ Waits(a, "finding")
  /\ LET found == Matches(a, Turn(a)) IN
       \/ found = {} /\ Go(a, "creating")
       \/ /\ Cardinality(found) = 1
          /\ try' = [try EXCEPT ![a].at = "adopting", ![a].hand = (CHOOSE o \in found : TRUE).by]
       \/ Breaks(a)
  /\ UNCHANGED <<queueVars, localVars, metaVars, leavePaused>>

\* Objects are created PAUSED, under what was ensured before them.
Create(a) ==
  /\ Waits(a, "creating")
  /\ LET p == Turn(a)
         object == [place |-> p, by |-> a, parent |-> Parent(a, p),
                    content |-> IF p.kind = "ad" THEN Known(a, Content(p)) ELSE 0]
     IN  \/ /\ remote' = remote \union {object}
            /\ try' = [try EXCEPT ![a].at = "saving", ![a].hand = a] \/ Breaks(a)
         \/ Breaks(a) /\ UNCHANGED remote
  /\ UNCHANGED <<queueVars, localVars, active, leavePaused>>

\* CheckpointPublishedObject, under the key of the place, of an object found or
\* created; a creative found has no status of its own.
Checkpoint(a) ==
  /\ Waits(a, "adopting") \/ Waits(a, "saving")
  /\ LET p == Turn(a)
         by == try[a].hand
         found == IF p.kind = "creative" THEN "UNKNOWN"
                  ELSE IF <<p, by>> \in active THEN "ACTIVE" ELSE "PAUSED"
         saved == /\ row' = [row EXCEPT ![p] = by]
                  /\ shown' = [shown EXCEPT ![p] = IF Waits(a, "adopting") THEN found ELSE "PAUSED"]
     IN  \/ saved /\ Ensured(a, [try[a].known EXCEPT ![p] = by])
         \/ Breaks(a) /\ (saved \/ UNCHANGED <<row, shown>>)
  /\ UNCHANGED <<queueVars, result, tries, metaVars, leavePaused>>
-----------------------------------------------------------------------------
(* The preflight pause of a retry, and activation. *)

Calm(a) ==
  /\ Waits(a, "calming")
  /\ \E ok \in BOOLEAN :
       /\ Pause(Known(a, Campaign), ok)
       /\ IF ok THEN Go(a, "noting") ELSE Breaks(a)
  /\ UNCHANGED <<queueVars, localVars, remote, leavePaused>>

\* The error of this UpdatePublishedStatus is ignored.
Note(a) ==
  /\ Waits(a, "noting")
  /\ shown' \in {shown, [shown EXCEPT ![Campaign] = "PAUSED"]}
  /\ Onward(a, try[a].known)
  /\ UNCHANGED <<queueVars, result, tries, row, metaVars, leavePaused>>

ActivateEntity(a) ==
  /\ Waits(a, "activating")
  /\ \E ok \in BOOLEAN :
       /\ Activate(Activates(a), Known(a, Activates(a)), ok)
       /\ IF ok THEN Go(a, "recording") ELSE Breaks(a)
  /\ UNCHANGED <<queueVars, localVars, remote, leavePaused>>

Record(a) ==
  /\ Waits(a, "recording")
  /\ LET p == Activates(a)
         recorded == shown' = [shown EXCEPT ![p] = "ACTIVE"]
     IN  \/ /\ recorded
            /\ try' = [try EXCEPT
                 ![a].done = @ \union {p},
                 ![a].at = IF Waiting(a) = {p} THEN "finishing" ELSE "activating",
                 ![a].verdict = IF Waiting(a) = {p} THEN "succeeded" ELSE @]
         \/ Breaks(a) /\ (recorded \/ UNCHANGED shown)
  /\ UNCHANGED <<queueVars, result, tries, row, metaVars, leavePaused>>
-----------------------------------------------------------------------------
(* The outcome. *)

\* A pause that fails joins the cause, and may make it retryable.
PauseAfterFailure(a) ==
  /\ Waits(a, "pausing")
  /\ \E ok \in BOOLEAN :
       /\ Pause(Known(a, Campaign), ok)
       /\ \E verdict \in IF ok THEN {try[a].verdict} ELSE {try[a].verdict, "pending"} :
            Ends(a, verdict)
  /\ UNCHANGED <<queueVars, localVars, remote, leavePaused>>

Durable(a) == result = "running" /\ result' = try[a].verdict

\* FinishAccountResult or RecordAccountRetry: a result is closed with its job, a
\* retry fails the job.
Finish(a) ==
  /\ Waits(a, "finishing")
  /\ Durable(a)
  /\ Go(a, IF try[a].verdict = "pending" THEN "failing" ELSE "completing")
  /\ UNCHANGED <<queueVars, tries, row, shown, metaVars, leavePaused>>

FinishFails(a) ==
  /\ Waits(a, "finishing")
  /\ Durable(a) \/ UNCHANGED result
  /\ \/ Go(a, "failing")
     \/ try[a].verdict = "succeeded" /\ ~leavePaused /\ Go(a, "repausing")
  /\ UNCHANGED <<queueVars, tries, row, shown, metaVars, leavePaused>>

PauseUndurable(a) ==
  /\ Waits(a, "repausing")
  /\ \E ok \in BOOLEAN : Pause(Known(a, Campaign), ok)
  /\ Go(a, "failing")
  /\ UNCHANGED <<queueVars, localVars, remote, leavePaused>>
-----------------------------------------------------------------------------
(* The queue. *)

\* Mutation: the result takes the status of the job.
FinalizeAsDead == result' = IF result \in {"pending", "running"} THEN "dead" ELSE result

\* Mutation: only a result that no attempt has marked running is closed.
FinalizePending == result' = IF result = "pending" THEN "failed" ELSE result

Finalize == result' = IF result \in {"pending", "running"} THEN "failed" ELSE result

Start ==
  /\ InFlight[Result] = {}
  /\ attempts[Result] < MaxAttempts
  /\ \/ try' = [try EXCEPT ![attempts[Result] + 1].at = "loading"]
     \/ UNCHANGED try                \* committed, but the worker never learns of it
  /\ Queue!Claim({}, {Result})
  /\ UNCHANGED <<localVars, metaVars, leavePaused>>

Bury ==
  /\ InFlight[Result] = {}
  /\ UNCHANGED try
  /\ Queue!Claim({Result}, {})
  /\ Finalize
  /\ UNCHANGED <<tries, row, shown, metaVars, leavePaused>>

Close(a) ==
  /\ a = attempts[Result]
  /\ try' = [try EXCEPT ![a] = Blank]
  /\ Queue!Close(Result)
  /\ \/ Waits(a, "completing") /\ status'[Result] = "succeeded" /\ UNCHANGED result
     \/ Waits(a, "failing") /\ status'[Result] = "pending" /\ UNCHANGED result
     \/ Waits(a, "failing") /\ status'[Result] = "dead" /\ Finalize
  /\ UNCHANGED <<tries, row, shown, metaVars, leavePaused>>

Abandon(a) ==
  /\ try' = [try EXCEPT ![a] = Blank]
  /\ Queue!Abandon(Result, a)
  /\ UNCHANGED <<localVars, metaVars, leavePaused>>

Step(a) ==
  \/ Load(a) \/ MarkAccountRunning(a) \/ Upload(a) \/ ListCheckpoints(a)
  \/ Find(a) \/ Create(a) \/ Checkpoint(a) \/ Calm(a) \/ Note(a)
  \/ ActivateEntity(a) \/ Record(a)
  \/ PauseAfterFailure(a) \/ Finish(a) \/ FinishFails(a) \/ PauseUndurable(a)

Next ==
  \/ Start \/ Bury
  \/ \E a \in Attempt : Step(a) \/ Close(a) \/ Abandon(a)

Leave(a) == try[a].at \in {"completing", "failing"} /\ Abandon(a)

\* As in Publish.
Fairness ==
  /\ WF_vars(Start \/ Bury)
  /\ \A a \in Attempt : WF_vars(Step(a)) /\ WF_vars(Close(a) \/ Leave(a))

Spec == Init /\ [][Next]_vars /\ Fairness
-----------------------------------------------------------------------------
(* Properties. *)

IsActive(o) == <<o.place, o.by>> \in active

\* However an attempt ends, the next one resumes or finds what exists: no place
\* of the tree is ever created twice.
NoDuplicates == \A o, p \in remote : o.place = p.place => o = p

\* activate: ads, ad sets, campaign.  A campaign that spends has its WHOLE tree,
\* every ad set and ad in place and ACTIVE.
WholeWhenActive ==
  \A c \in remote : c.place = Campaign /\ IsActive(c) =>
    \A p \in AdSet \union Ad : \E o \in remote :
      /\ o.place = p /\ IsActive(o)
      /\ p \in AdSet => o.parent = c.by
      /\ p \in Ad => \E s \in remote : s.place = Above(p) /\ s.by = o.parent /\ s.parent = c.by

\* batches_tree.go:112-113: "Keep the entire tree unable to spend until every
\* missing child is durable again."  The campaign never spends while an attempt
\* still looks for, creates or activates anything below it.
WorksPaused ==
  \A a \in Attempt :
    /\ try[a].at \in {"finding", "adopting", "creating", "saving", "activating", "recording"}
    /\ Waiting(a) # {Campaign} /\ Known(a, Campaign) # 0
    => \A o \in remote : o.place = Campaign => ~IsActive(o)

\* A successful result leaves a row for every place, and the rows name objects
\* that hang together as the plan has them.
SuccessIsWhole ==
  result = "succeeded" =>
    \A p \in Place : \E o \in remote :
      /\ o.place = p /\ o.by = row[p]
      /\ p.kind \in {"adset", "ad"} => o.parent = row[Above(p)]
      /\ p.kind = "ad" => o.content = row[Content(p)]

\* The result of the tree path, too, ends with its job.
ResultEnds ==
  <>[](status[Result] \in Queue!Terminal /\ result \in {"succeeded", "failed"})
=============================================================================
