---------------------------- MODULE GuardsProofs ----------------------------
(***************************************************************************)
(* What Launching's guards rest on, for ladders of any length, any figures *)
(* and any number of requests: the ladder is climbed one checkpoint at a   *)
(* time and a passed checkpoint stays passed.                              *)
(*                                                                         *)
(* The argument: from the moment the evaluation has read the checks until  *)
(* it saves the one at hand, every earlier checkpoint is decided and       *)
(* nothing later is on record; the operator only turns failed checks into  *)
(* overridden ones, which disturbs neither.                                *)
(***************************************************************************)
EXTENDS Launching, TLAPS

\* The constants of the guards.
LEMMA GuardsBounds ==
  /\ MaxRungs \in Nat \ {0} /\ MaxSpend \in Nat \ {0} /\ MaxYield \in Nat \ {0}
  /\ MaxOps \in Nat
BY LaunchingAssumption DEF Guards!GuardsAssumption

\* The evaluation has a checkpoint at hand.
Judging == eval.at \in {"pausing", "storing", "finding", "writing"}

\* What surrounds the checkpoint at hand.
AtHand ==
  Judging =>
    /\ \A j \in Guards!Rung : j < eval.rung => check[eval.g][j] \in {"passed", "overridden"}
    /\ \A i \in Guards!Rung : i > eval.rung => check[eval.g][i] = "none" /\ eval.known[i] = "none"
    /\ check[eval.g][eval.rung] # "passed"

GuardsInv == Guards!TypeOK /\ Guards!LadderClimbs /\ AtHand
-----------------------------------------------------------------------------
(* Ladders. *)

\* There are ladders, and their checkpoints are rungs with a spend that grows.
LEMMA LadderFacts ==
  /\ Guards!Checkpoints # {}
  /\ \A l \in Guards!Checkpoints :
       /\ DOMAIN l \subseteq Guards!Rung
       /\ \A i \in DOMAIN l : l[i] \in Guards!Checkpoint
       /\ \A i \in DOMAIN l : \A j \in Guards!Rung : j < i => j \in DOMAIN l /\ l[j].spend < l[i].spend
<1>1. Guards!Checkpoints # {}
  <2> DEFINE l == [i \in 1..1 |-> [spend |-> 1, yield |-> 1]]
  <2>1. 1 \in Guards!Rung /\ 1 \in 1..MaxSpend /\ 1 \in 1..MaxYield
    BY GuardsBounds DEF Guards!Rung
  <2>2. l \in [1..1 -> Guards!Checkpoint]
    BY <2>1 DEF Guards!Checkpoint
  <2>3. \A i, j \in 1..1 : i < j => l[i].spend < l[j].spend
    OBVIOUS
  <2>4. l \in Guards!Checkpoints
    BY <2>1, <2>2, <2>3 DEF Guards!Checkpoints
  <2> QED
    BY <2>4
<1>2. ASSUME NEW l \in Guards!Checkpoints
      PROVE  /\ DOMAIN l \subseteq Guards!Rung
             /\ \A i \in DOMAIN l : l[i] \in Guards!Checkpoint
             /\ \A i \in DOMAIN l : \A j \in Guards!Rung : j < i => j \in DOMAIN l /\ l[j].spend < l[i].spend
  <2>1. PICK n \in Guards!Rung : l \in {f \in [1..n -> Guards!Checkpoint] :
                                   \A i, j \in 1..n : i < j => f[i].spend < f[j].spend}
    BY <1>2 DEF Guards!Checkpoints
  <2> QED
    BY <2>1, GuardsBounds DEF Guards!Rung
<1> QED
  BY <1>1, <1>2

\* The evaluation at rest is well typed.
LEMMA RestType == Guards!Rest \in Guards!Evaluation
<1>1. (CHOOSE l \in Guards!Checkpoints : TRUE) \in Guards!Checkpoints
  BY LadderFacts
<1>2. 1 \in Guards!Rung /\ MaxSpend \in Nat /\ MaxYield \in Nat
  BY GuardsBounds DEF Guards!Rung
<1> QED
  BY <1>1, <1>2 DEF Guards!Rest, Guards!Evaluation, Guards!At, Guards!Guard, Guards!NoChecks,
                    Guards!Checks, Guards!CheckStatus, Guards!Observation
-----------------------------------------------------------------------------
(* The steps of the evaluation that choose where to go on. *)

\* Whichever guard comes next, the evaluation stays well typed and has no
\* checkpoint at hand.
LEMMA NextGuardStep ==
  ASSUME Guards!TypeOK, NEW todo \in SUBSET Guards!Guard, Guards!NextGuard(todo)
  PROVE  eval' \in Guards!Evaluation /\ ~Judging'
<1>1. eval \in Guards!Evaluation
  BY DEF Guards!TypeOK
<1>2. CASE todo = {}
  BY <1>2, RestType DEF Guards!NextGuard, Guards!Rest, Judging
<1>3. CASE todo # {}
  <2>1. eval' = [Guards!Rest EXCEPT !.at = "guards", !.todo = todo, !.ladder = eval.ladder]
    BY <1>3 DEF Guards!NextGuard
  <2>2. Guards!Rest.at = "idle" /\ eval'.at = "guards"
    BY <2>1 DEF Guards!Rest
  <2> QED
    BY <1>1, <2>1, <2>2, RestType DEF Guards!Evaluation, Guards!At, Judging
<1> QED
  BY <1>2, <1>3

\* The loop stops at a checkpoint of the ladder that is not decided, and every
\* checkpoint it went over is.
LEMMA ClimbStep ==
  ASSUME Guards!TypeOK, NEW known \in Guards!Checks, NEW n \in Nat, Guards!Climb(known, eval.seen, n)
  PROVE  /\ eval' \in Guards!Evaluation
         /\ Judging' =>
              /\ eval'.g = eval.g /\ eval'.known = known
              /\ eval'.rung >= n /\ ~Guards!Decided(known, eval'.rung)
              /\ \A j \in Guards!Rung : n <= j /\ j < eval'.rung => Guards!Decided(known, j)
<1> DEFINE l == eval.ladder[eval.g]
           open == {i \in Guards!Reached(l, eval.seen) : i >= n /\ ~Guards!Decided(known, i)}
<1>1. /\ eval \in Guards!Evaluation /\ eval.g \in Guards!Guard /\ eval.todo \in SUBSET Guards!Guard
      /\ l \in Guards!Checkpoints /\ eval.seen \in Guards!Observation
  BY DEF Guards!TypeOK, Guards!Evaluation
<1>2. CASE open = {} /\ Guards!NextGuard(eval.todo)
  BY <1>1, <1>2, NextGuardStep
<1>3. ASSUME NEW i \in open, \A k \in open : i <= k,
             eval' = [eval EXCEPT
                !.known = known, !.rung = i,
                !.at = IF Guards!Met(l, eval.seen, i) THEN "finding" ELSE "pausing",
                !.verdict = IF Guards!Met(l, eval.seen, i) THEN "passed" ELSE "failed"]
      PROVE  /\ eval' \in Guards!Evaluation
             /\ eval'.g = eval.g /\ eval'.known = known
             /\ eval'.rung >= n /\ ~Guards!Decided(known, eval'.rung)
             /\ \A j \in Guards!Rung : n <= j /\ j < eval'.rung => Guards!Decided(known, j)
  <2>1. /\ i \in DOMAIN l /\ i \in Guards!Rung /\ l[i].spend <= eval.seen.spend
        /\ i >= n /\ ~Guards!Decided(known, i)
    BY <1>1, <1>3, LadderFacts DEF Guards!Reached, Guards!Checkpoint, Guards!Observation
  <2>2. eval' \in Guards!Evaluation /\ eval'.g = eval.g /\ eval'.known = known /\ eval'.rung = i
    BY <1>1, <1>3, <2>1 DEF Guards!Evaluation, Guards!At
  <2>3. ASSUME NEW j \in Guards!Rung, n <= j, j < i, ~Guards!Decided(known, j)
        PROVE  FALSE
    <3>1. j \in DOMAIN l /\ l[j].spend < l[i].spend
      BY <1>1, <2>1, <2>3, LadderFacts
    <3>2. l[j].spend \in Int /\ l[i].spend \in Int /\ eval.seen.spend \in Int
      BY <1>1, <2>1, <3>1, LadderFacts DEF Guards!Checkpoint, Guards!Observation
    <3>3. j \in open
      BY <2>1, <2>3, <3>1, <3>2 DEF Guards!Reached
    <3>4. i \in Int /\ j \in Int
      BY <2>1, <2>3 DEF Guards!Rung
    <3> QED
      BY <1>3, <2>3, <3>3, <3>4
  <2> QED
    BY <2>1, <2>2, <2>3
<1> QED
  BY <1>2, <1>3 DEF Guards!Climb
-----------------------------------------------------------------------------
(* The invariant. *)

\* Nothing is on record when a batch is launched.
LEMMA GuardsInitHolds == Guards!Init => GuardsInv
<1> SUFFICES ASSUME Guards!Init PROVE GuardsInv
  OBVIOUS
<1>1. Guards!TypeOK
  <2>1. 0 \in 0..MaxOps /\ 0 \in 0..MaxSpend /\ 0 \in 0..MaxYield
    BY GuardsBounds
  <2>2. guard \in [Guards!Guard -> [status : {"absent", "active", "disabled"}, ladder : Guards!Checkpoints]]
    BY DEF Guards!Init, Guards!Guard
  <2>3. check \in [Guards!Guard -> Guards!Checks] /\ observed \in Guards!Observation
    BY <2>1 DEF Guards!Init, Guards!Checks, Guards!NoChecks, Guards!CheckStatus, Guards!Observation
  <2> QED
    BY <2>1, <2>2, <2>3, RestType DEF Guards!Init, Guards!TypeOK, Guards!Status
<1>2. Guards!LadderClimbs
  BY DEF Guards!Init, Guards!LadderClimbs, Guards!NoChecks
<1>3. AtHand
  BY DEF Guards!Init, AtHand, Judging, Guards!Rest
<1> QED
  BY <1>1, <1>2, <1>3 DEF GuardsInv

\* A step of the evaluation that leaves the checks alone and whose evaluation is
\* well typed keeps the invariant if no checkpoint is at hand after it.
LEMMA QuietStep ==
  ASSUME GuardsInv, UNCHANGED check, Guards!TypeOK', ~Judging'
  PROVE  GuardsInv'
BY DEF GuardsInv, Guards!LadderClimbs, AtHand

\* The same, if the checkpoint at hand stays at hand.
LEMMA HoldStep ==
  ASSUME GuardsInv, UNCHANGED check, Guards!TypeOK', Judging,
         eval'.g = eval.g, eval'.rung = eval.rung, eval'.known = eval.known
  PROVE  GuardsInv'
BY DEF GuardsInv, Guards!LadderClimbs, AtHand

\* What the operator and Meta do: the checks may only be overridden.
LEMMA OutsideStep ==
  ASSUME GuardsInv, Guards!TypeOK', UNCHANGED eval, check' \in {check, Guards!Overridden}
  PROVE  GuardsInv'
<1>1. \A g \in Guards!Guard : \A i \in Guards!Rung :
        /\ check[g][i] \in {"passed", "overridden"} => check'[g][i] \in {"passed", "overridden"}
        /\ (check'[g][i] = "none") <=> (check[g][i] = "none")
        /\ (check'[g][i] = "passed") <=> (check[g][i] = "passed")
  BY DEF Guards!Overridden
<1>2. Guards!LadderClimbs'
  BY <1>1 DEF GuardsInv, Guards!LadderClimbs
<1>3. eval.g \in Guards!Guard /\ eval.rung \in Guards!Rung
  BY DEF GuardsInv, Guards!TypeOK, Guards!Evaluation
<1>4. AtHand'
  BY <1>1, <1>3 DEF GuardsInv, AtHand, Judging
<1> QED
  BY <1>2, <1>4 DEF GuardsInv

\* The checks are read: the loop begins.
LEMMA ListChecksStep == GuardsInv /\ Guards!ListChecks => GuardsInv'
<1> SUFFICES ASSUME GuardsInv, Guards!ListChecks PROVE GuardsInv'
  OBVIOUS
<1>1. /\ Guards!TypeOK /\ Guards!LadderClimbs
      /\ eval.g \in Guards!Guard /\ check[eval.g] \in Guards!Checks /\ eval \in Guards!Evaluation
  BY DEF GuardsInv, Guards!TypeOK, Guards!Evaluation
<1>2. /\ Guards!Climb(check[eval.g], eval.seen, 1)
      /\ UNCHANGED <<check, guard, Guards!statusVars, observed, Guards!operVars, failing>>
  BY DEF Guards!ListChecks, Guards!guardVars
<1>3. /\ eval' \in Guards!Evaluation
      /\ Judging' =>
           /\ eval'.g = eval.g /\ eval'.known = check[eval.g]
           /\ eval'.rung >= 1 /\ ~Guards!Decided(check[eval.g], eval'.rung)
           /\ \A j \in Guards!Rung : 1 <= j /\ j < eval'.rung => Guards!Decided(check[eval.g], j)
  BY <1>1, <1>2, ClimbStep
<1>4. Guards!TypeOK'
  BY <1>1, <1>2, <1>3 DEF Guards!TypeOK, Guards!statusVars, Guards!operVars
<1>5. CASE Judging'
  <2>1. eval'.rung \in Guards!Rung
    BY <1>3 DEF Guards!Evaluation
  <2>2. \A j \in Guards!Rung : 1 <= j
    BY DEF Guards!Rung
  <2>3. \A j \in Guards!Rung : check[eval.g][j] \in Guards!CheckStatus
    BY <1>1 DEF Guards!Checks
  <2>4. \A j \in Guards!Rung : j < eval'.rung => check[eval.g][j] \in {"passed", "overridden"}
    BY <1>3, <1>5, <2>2, <2>3 DEF Guards!Decided, Guards!CheckStatus
  <2>5. check[eval.g][eval'.rung] \in {"none", "failed"}
    BY <1>3, <1>5 DEF Guards!Decided
  <2>6. \A i \in Guards!Rung : i > eval'.rung => eval'.rung < i
    BY <2>1 DEF Guards!Rung
  <2>7. \A i \in Guards!Rung : i > eval'.rung => check[eval.g][i] = "none"
    BY <1>1, <2>1, <2>5, <2>6 DEF Guards!LadderClimbs
  <2>8. AtHand'
    BY <1>2, <1>3, <1>5, <2>4, <2>5, <2>7 DEF AtHand
  <2> QED
    BY <1>1, <1>2, <1>4, <2>8 DEF GuardsInv, Guards!LadderClimbs
<1> QED
  BY <1>2, <1>4, <1>5, QuietStep

\* After a save the loop goes on past the checkpoint, or the guard is done with.
LEMMA SavedStep ==
  ASSUME GuardsInv, Judging, Guards!Saved,
         check' \in [Guards!Guard -> Guards!Checks],
         \A j \in Guards!Rung : j # eval.rung => check'[eval.g][j] = check[eval.g][j],
         \A g \in Guards!Guard \ {eval.g} : check'[g] = check[g],
         check'[eval.g][eval.rung] # "none",
         eval.verdict = "passed" => check'[eval.g][eval.rung] \in {"passed", "overridden"}
  PROVE  eval' \in Guards!Evaluation /\ Guards!LadderClimbs' /\ AtHand'
<1>1. /\ Guards!TypeOK /\ eval \in Guards!Evaluation /\ eval.g \in Guards!Guard /\ eval.rung \in Guards!Rung
      /\ eval.known \in Guards!Checks /\ eval.todo \in SUBSET Guards!Guard /\ eval.rung + 1 \in Nat
  BY DEF GuardsInv, Guards!TypeOK, Guards!Evaluation, Guards!Rung
<1>2. \A i, j \in Guards!Rung : i \in Int /\ (i < j \/ j < i \/ i = j)
  BY DEF Guards!Rung
<1>3. /\ \A j \in Guards!Rung : j < eval.rung => check[eval.g][j] \in {"passed", "overridden"}
      /\ \A i \in Guards!Rung : i > eval.rung => check[eval.g][i] = "none" /\ eval.known[i] = "none"
  BY DEF GuardsInv, AtHand
<1>4. Guards!LadderClimbs'
  <2> SUFFICES ASSUME NEW g \in Guards!Guard, NEW i \in Guards!Rung, NEW j \in Guards!Rung, j < i,
                      check'[g][i] # "none"
               PROVE  check'[g][j] \in {"passed", "overridden"}
    BY DEF Guards!LadderClimbs
  <2>1. CASE g # eval.g
    BY <2>1 DEF GuardsInv, Guards!LadderClimbs
  <2>2. CASE g = eval.g
    <3>1. ~(i > eval.rung)
      BY <1>1, <1>2, <1>3, <2>2
    <3>2. j < eval.rung /\ j # eval.rung
      BY <1>1, <1>2, <3>1
    <3> QED
      BY <1>3, <2>2, <3>2
  <2> QED
    BY <2>1, <2>2
<1>5. CASE Guards!NextGuard(eval.todo) \/ Guards!NextGuard({})
  BY <1>1, <1>4, <1>5, NextGuardStep DEF AtHand
<1>6. CASE eval.verdict = "passed" /\ Guards!Climb(eval.known, eval.seen, eval.rung + 1)
  <2>1. /\ eval' \in Guards!Evaluation
        /\ Judging' =>
             /\ eval'.g = eval.g /\ eval'.known = eval.known
             /\ eval'.rung >= eval.rung + 1 /\ ~Guards!Decided(eval.known, eval'.rung)
             /\ \A j \in Guards!Rung : eval.rung + 1 <= j /\ j < eval'.rung => Guards!Decided(eval.known, j)
    BY <1>1, <1>6, ClimbStep
  <2>2. CASE Judging'
    <3>1. eval'.rung \in Guards!Rung /\ eval'.rung > eval.rung
      BY <1>1, <1>2, <2>1, <2>2 DEF Guards!Evaluation
    <3>2. \A j \in Guards!Rung : j < eval'.rung => j <= eval.rung
      <4> SUFFICES ASSUME NEW j \in Guards!Rung, j < eval'.rung, j > eval.rung PROVE FALSE
        BY <1>1, <1>2
      <4>1. eval.known[j] = "none" /\ eval.rung + 1 <= j
        BY <1>1, <1>2, <1>3
      <4> QED
        BY <2>1, <2>2, <4>1 DEF Guards!Decided
    <3>3. \A j \in Guards!Rung : j < eval'.rung => check'[eval.g][j] \in {"passed", "overridden"}
      BY <1>1, <1>2, <1>3, <1>6, <3>2
    <3>4. \A i \in Guards!Rung : i > eval'.rung => i > eval.rung /\ i # eval.rung
      BY <1>1, <1>2, <3>1
    <3>5. \A i \in Guards!Rung : i > eval'.rung => check'[eval.g][i] = "none" /\ eval.known[i] = "none"
      BY <1>3, <3>4
    <3>6. check'[eval.g][eval'.rung] # "passed"
      BY <1>1, <1>2, <1>3, <3>1
    <3> QED
      BY <1>4, <2>1, <2>2, <3>3, <3>5, <3>6 DEF AtHand
  <2> QED
    BY <1>4, <2>1, <2>2 DEF AtHand
<1> QED
  BY <1>4, <1>5, <1>6 DEF Guards!Saved

\* SaveCheck: an overridden check is left, and others are written only as far as
\* the checkpoint at hand goes.
LEMMA SaveCheckStep == GuardsInv /\ (Guards!FindCheck \/ Guards!WriteCheck) => GuardsInv'
<1> SUFFICES ASSUME GuardsInv, Guards!FindCheck \/ Guards!WriteCheck PROVE GuardsInv'
  OBVIOUS
<1>1. /\ Guards!TypeOK /\ eval \in Guards!Evaluation /\ eval.g \in Guards!Guard /\ eval.rung \in Guards!Rung
      /\ eval.verdict \in {"passed", "failed"}
      /\ check \in [Guards!Guard -> Guards!Checks]
  BY DEF GuardsInv, Guards!TypeOK, Guards!Evaluation
<1>2. Judging
  BY DEF Guards!FindCheck, Guards!WriteCheck, Guards!Evaluates, Judging
<1>3. CASE Guards!FindCheck /\ check[eval.g][eval.rung] = "overridden"
  <2>1. /\ Guards!Saved /\ check' = check
        /\ UNCHANGED <<guard, Guards!statusVars, observed, Guards!operVars, failing>>
    BY <1>3 DEF Guards!FindCheck, Guards!guardVars
  <2>2. eval' \in Guards!Evaluation /\ Guards!LadderClimbs' /\ AtHand'
    BY <1>1, <1>2, <1>3, <2>1, SavedStep
  <2> QED
    BY <1>1, <2>1, <2>2 DEF GuardsInv, Guards!TypeOK, Guards!statusVars, Guards!operVars
<1>4. CASE Guards!FindCheck /\ check[eval.g][eval.rung] # "overridden"
  <2>1. /\ eval' = [eval EXCEPT !.at = "writing"]
        /\ UNCHANGED <<Guards!guardVars, Guards!statusVars, observed, Guards!operVars, failing>>
    BY <1>4 DEF Guards!FindCheck
  <2>2. eval' \in Guards!Evaluation /\ eval'.g = eval.g /\ eval'.rung = eval.rung /\ eval'.known = eval.known
    BY <1>1, <2>1 DEF Guards!Evaluation, Guards!At
  <2>3. Guards!TypeOK'
    BY <1>1, <2>1, <2>2 DEF Guards!TypeOK, Guards!guardVars, Guards!statusVars, Guards!operVars
  <2> QED
    BY <1>2, <2>1, <2>2, <2>3, HoldStep DEF Guards!guardVars
<1>5. CASE Guards!WriteCheck
  <2>1. /\ check' = [check EXCEPT ![eval.g][eval.rung] = eval.verdict]
        /\ Guards!Saved /\ UNCHANGED <<guard, Guards!statusVars, observed, Guards!operVars, failing>>
    BY <1>5 DEF Guards!WriteCheck
  <2>2. check' \in [Guards!Guard -> Guards!Checks]
    BY <1>1, <2>1 DEF Guards!Checks, Guards!CheckStatus
  <2>3. /\ \A j \in Guards!Rung : j # eval.rung => check'[eval.g][j] = check[eval.g][j]
        /\ \A g \in Guards!Guard \ {eval.g} : check'[g] = check[g]
        /\ check'[eval.g][eval.rung] = eval.verdict
    BY <1>1, <2>1 DEF Guards!Checks
  <2>4. eval' \in Guards!Evaluation /\ Guards!LadderClimbs' /\ AtHand'
    BY <1>1, <1>2, <2>1, <2>2, <2>3, SavedStep
  <2> QED
    BY <1>1, <2>1, <2>2, <2>4 DEF GuardsInv, Guards!TypeOK, Guards!statusVars, Guards!operVars
<1> QED
  BY <1>3, <1>4, <1>5

\* The steps of the evaluation at which it has no checkpoint at hand afterwards.
LEMMA NoCheckpointStep ==
  ASSUME GuardsInv,
         \/ \E due \in SUBSET Guards!Guard : Guards!ListDue(due)
         \/ \E g \in Guards!Guard : Guards!ListCampaigns(g)
         \/ Guards!ObserveCampaign \/ Guards!GiveUp \/ Guards!Crash
  PROVE  GuardsInv'
<1>1. /\ Guards!TypeOK /\ eval \in Guards!Evaluation
      /\ guard \in [Guards!Guard -> [status : {"absent", "active", "disabled"}, ladder : Guards!Checkpoints]]
  BY DEF GuardsInv, Guards!TypeOK
<1>2. UNCHANGED <<guard, check, atMeta, local, inventory, observed, oper, ops, failing>>
  BY DEF Guards!ListDue, Guards!ListCampaigns, Guards!ObserveCampaign, Guards!GiveUp, Guards!Crash,
         Guards!guardVars, Guards!statusVars, Guards!operVars
<1>3. eval' \in Guards!Evaluation /\ ~Judging'
  <2>1. CASE \E due \in SUBSET Guards!Guard : Guards!ListDue(due)
    <3>1. PICK due \in SUBSET Guards!Guard : Guards!ListDue(due)
      BY <2>1
    <3>2. [g \in Guards!Guard |-> guard[g].ladder] \in [Guards!Guard -> Guards!Checkpoints]
      BY <1>1
    <3>3. eval' = [Guards!Rest EXCEPT !.at = "guards", !.todo = due,
                                      !.ladder = [g \in Guards!Guard |-> guard[g].ladder]]
      BY <3>1 DEF Guards!ListDue
    <3>4. eval'.at = "guards"
      BY <3>3 DEF Guards!Rest
    <3> QED
      BY <3>2, <3>3, <3>4, RestType DEF Guards!Evaluation, Guards!At, Judging
  <2>2. CASE \E g \in Guards!Guard : Guards!ListCampaigns(g)
    <3>1. PICK g \in Guards!Guard : Guards!ListCampaigns(g)
      BY <2>2
    <3>2. CASE Guards!NextGuard(eval.todo \ {g})
      <4>1. eval.todo \ {g} \in SUBSET Guards!Guard
        BY <1>1 DEF Guards!Evaluation
      <4> QED
        BY <1>1, <3>2, <4>1, NextGuardStep
    <3>3. CASE eval' = [eval EXCEPT !.at = "observing", !.g = g, !.todo = @ \ {g}]
      BY <1>1, <3>3 DEF Guards!Evaluation, Guards!At, Judging
    <3> QED
      BY <3>1, <3>2, <3>3 DEF Guards!ListCampaigns
  <2>3. CASE Guards!ObserveCampaign
    BY <1>1, <2>3 DEF Guards!ObserveCampaign, Guards!Evaluation, Guards!At, Judging, Guards!TypeOK
  <2>4. CASE Guards!GiveUp
    <3>1. PICK todo \in SUBSET Guards!Guard : Guards!NextGuard(todo)
      BY <1>1, <2>4 DEF Guards!GiveUp, Guards!Evaluation
    <3> QED
      BY <1>1, <3>1, NextGuardStep
  <2>5. CASE Guards!Crash
    BY <2>5, RestType DEF Guards!Crash, Guards!Rest, Judging
  <2> QED
    BY <2>1, <2>2, <2>3, <2>4, <2>5
<1>4. Guards!TypeOK'
  BY <1>1, <1>2, <1>3 DEF Guards!TypeOK
<1> QED
  BY <1>2, <1>3, <1>4, QuietStep

\* The pause, and the row that shows it.
LEMMA PauseStep == GuardsInv /\ (Guards!PauseEntity \/ Guards!StorePaused) => GuardsInv'
<1> SUFFICES ASSUME GuardsInv, Guards!PauseEntity \/ Guards!StorePaused PROVE GuardsInv'
  OBVIOUS
<1>1. Guards!TypeOK /\ eval \in Guards!Evaluation /\ Judging
  BY DEF GuardsInv, Guards!TypeOK, Guards!PauseEntity, Guards!StorePaused, Guards!Evaluates, Judging
<1>2. \E at \in {"storing", "finding"} : eval' = [eval EXCEPT !.at = at]
  BY DEF Guards!PauseEntity, Guards!StorePaused
<1>3. eval' \in Guards!Evaluation /\ eval'.g = eval.g /\ eval'.rung = eval.rung /\ eval'.known = eval.known
  BY <1>1, <1>2 DEF Guards!Evaluation, Guards!At
<1>4. /\ UNCHANGED <<guard, check, inventory, observed, oper, ops, failing>>
      /\ atMeta' \in {atMeta, "PAUSED"} /\ local' \in {local, "PAUSED"}
  BY DEF Guards!PauseEntity, Guards!StorePaused, Guards!guardVars, Guards!operVars
<1>5. Guards!TypeOK'
  BY <1>1, <1>3, <1>4 DEF Guards!TypeOK, Guards!Status
<1> QED
  BY <1>1, <1>3, <1>4, <1>5, HoldStep

\* The operator's and Meta's steps, and the end of the faults.
LEMMA OtherStep ==
  ASSUME GuardsInv,
         Guards!Operate \/ Guards!Deliver \/ Guards!Sweep \/ Guards!Refresh \/ Guards!Settle
  PROVE  GuardsInv'
<1>1. Guards!TypeOK /\ check \in [Guards!Guard -> Guards!Checks]
  BY DEF GuardsInv, Guards!TypeOK
<1>2. Guards!Overridden \in [Guards!Guard -> Guards!Checks]
  BY <1>1 DEF Guards!Overridden, Guards!Checks, Guards!CheckStatus
<1>3. MaxOps \in Nat
  BY GuardsBounds
<1>4. CASE Guards!Deliver
  BY <1>1, <1>4, OutsideStep DEF Guards!Deliver, Guards!TypeOK, Guards!guardVars, Guards!statusVars,
       Guards!evalVars, Guards!operVars
<1>5. CASE Guards!Sweep
  BY <1>1, <1>5, OutsideStep DEF Guards!Sweep, Guards!TypeOK, Guards!guardVars, Guards!evalVars,
       Guards!operVars
<1>6. CASE Guards!Refresh
  BY <1>1, <1>6, OutsideStep DEF Guards!Refresh, Guards!TypeOK, Guards!guardVars, Guards!evalVars,
       Guards!operVars
<1>7. CASE Guards!Settle
  BY <1>1, <1>7, OutsideStep DEF Guards!Settle, Guards!TypeOK, Guards!guardVars, Guards!statusVars,
       Guards!operVars
<1>8. CASE \E status \in Guards!Status : Guards!SetCampaignStatus(status)
  BY <1>1, <1>3, <1>8, OutsideStep DEF Guards!SetCampaignStatus, Guards!TypeOK, Guards!guardVars,
       Guards!statusVars, Guards!evalVars, Guards!Status
<1>9. CASE Guards!SetEntityStatus
  BY <1>1, <1>9, OutsideStep DEF Guards!SetEntityStatus, Guards!Ended, Guards!Goes, Guards!TypeOK,
       Guards!guardVars, Guards!evalVars, Guards!Status
<1>10. CASE Guards!UpdatePublishedStatus
  BY <1>1, <1>10, OutsideStep
    DEF Guards!UpdatePublishedStatus, Guards!Ended, Guards!Goes, Guards!TypeOK, Guards!guardVars,
        Guards!evalVars, Guards!Status
<1>11. CASE Guards!OverrideFailedChecks
  BY <1>1, <1>2, <1>11, OutsideStep
    DEF Guards!OverrideFailedChecks, Guards!Ended, Guards!TypeOK, Guards!statusVars, Guards!evalVars,
        Guards!Status
<1>12. CASE \E status \in {"active", "disabled"} : \E l \in Guards!Checkpoints :
              Guards!CreateGuard(status, l) \/ \E g \in Guards!Guard : Guards!UpdateGuard(g, status, l)
  <2>1. /\ UNCHANGED <<check, atMeta, local, inventory, observed, eval, oper, failing>>
        /\ ops < MaxOps /\ ops' = ops + 1
    BY <1>12 DEF Guards!CreateGuard, Guards!UpdateGuard, Guards!statusVars, Guards!evalVars
  <2>2. guard' \in [Guards!Guard -> [status : {"absent", "active", "disabled"}, ladder : Guards!Checkpoints]]
    BY <1>1, <1>12 DEF Guards!CreateGuard, Guards!UpdateGuard, Guards!TypeOK, Guards!Guard
  <2>3. Guards!TypeOK'
    BY <1>1, <1>3, <2>1, <2>2 DEF Guards!TypeOK
  <2> QED
    BY <2>1, <2>3, OutsideStep
<1> QED
  BY <1>4, <1>5, <1>6, <1>7, <1>8, <1>9, <1>10, <1>11, <1>12 DEF Guards!Operate

\* No step breaks the invariant.
LEMMA GuardsNextHolds == GuardsInv /\ [Guards!Next]_(Guards!vars) => GuardsInv'
<1>1. GuardsInv /\ Guards!Next => GuardsInv'
  BY ListChecksStep, SaveCheckStep, NoCheckpointStep, PauseStep, OtherStep DEF Guards!Next,
       Guards!Evaluate
<1>2. GuardsInv /\ UNCHANGED Guards!vars => GuardsInv'
  BY DEF GuardsInv, Guards!TypeOK, Guards!LadderClimbs, AtHand, Judging, Guards!vars
<1> QED
  BY <1>1, <1>2
-----------------------------------------------------------------------------
\* A step leaves a passed check passed: the one at hand has not been passed.
LEMMA PassedStays ==
  ASSUME GuardsInv, [Guards!Next]_(Guards!vars)
  PROVE  \A g \in Guards!Guard : \A i \in Guards!Rung : check[g][i] = "passed" => check'[g][i] = "passed"
<1> SUFFICES ASSUME NEW g \in Guards!Guard, NEW i \in Guards!Rung, check[g][i] = "passed"
             PROVE  check'[g][i] = "passed"
  OBVIOUS
<1>1. CASE UNCHANGED check
  BY <1>1
<1>2. CASE check' \in {Guards!Overridden, check}
  BY <1>2 DEF Guards!Overridden
<1>3. CASE Guards!WriteCheck
  <2>1. check' = [check EXCEPT ![eval.g][eval.rung] = eval.verdict] /\ Judging
    BY <1>3 DEF Guards!WriteCheck, Judging, Guards!Evaluates
  <2>2. ~(g = eval.g /\ i = eval.rung)
    BY <2>1 DEF GuardsInv, AtHand
  <2>3. check \in [Guards!Guard -> Guards!Checks] /\ eval.g \in Guards!Guard /\ eval.rung \in Guards!Rung
    BY DEF GuardsInv, Guards!TypeOK, Guards!Evaluation
  <2> QED
    BY <2>1, <2>2, <2>3 DEF Guards!Checks
<1> QED
  BY <1>1, <1>2, <1>3
     DEF Guards!Next, Guards!Evaluate, Guards!Operate, Guards!ListDue, Guards!ListCampaigns,
         Guards!ObserveCampaign, Guards!ListChecks, Guards!PauseEntity, Guards!StorePaused,
         Guards!FindCheck, Guards!GiveUp, Guards!Crash, Guards!Settle, Guards!SetCampaignStatus,
         Guards!SetEntityStatus, Guards!UpdatePublishedStatus, Guards!OverrideFailedChecks,
         Guards!CreateGuard, Guards!UpdateGuard, Guards!Deliver, Guards!Sweep, Guards!Refresh,
         Guards!guardVars, Guards!vars
=============================================================================
