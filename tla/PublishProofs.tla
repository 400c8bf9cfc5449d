--------------------------- MODULE PublishProofs ----------------------------
(***************************************************************************)
(* One account result is published once, for any number of attempts, as    *)
(* long as an attempt is over before the next one starts (Overlap =        *)
(* FALSE).  None of the properties is inductive: each rests on what the    *)
(* attempt at work knows of the hierarchy at Meta when it takes a step     *)
(* that changes it.                                                        *)
(***************************************************************************)
EXTENDS Publish, FiniteSetTheorems, TLAPS

Tries == [at : At, next : 0..5, seen : BOOLEAN, known : [Kind -> 0..MaxAttempts],
          verdict : {"none", "succeeded", "failed", "pending"}, paused : BOOLEAN]

(* One attempt at a time, and nothing is left of one that is over. *)
Alone ==
  /\ \A a, b \in Attempt : try[a].at # "none" /\ try[b].at # "none" => a = b
  /\ \A a \in Attempt : try[a].at = "none" => try[a] = Blank

-----------------------------------------------------------------------------
(* The hierarchy at Meta: one object of a kind at most, each under its parent and after those *)
(* that are created before it; what is recorded or active is there.                            *)
Has(k, by) == \E o \in remote : o.kind = k /\ o.by = by
Any(k)     == \E o \in remote : o.kind = k

OneOfAKind == \A o, p \in remote : o.kind = p.kind => o = p

Hangs ==
  \A o \in remote :
    /\ o.kind = "adset" => \E c \in remote : c.kind = "campaign" /\ o.parent = c.by
    /\ o.kind = "creative" => Any("adset")
    /\ o.kind = "ad" => Any("creative") /\ \E s \in remote : s.kind = "adset" /\ o.parent = s.by

RowsAreReal  == \A k \in Kind : row[k] # 0 => Has(k, row[k])
ActiveIsReal == \A x \in active : Has(x[1], x[2])

World == OneOfAKind /\ Hangs /\ RowsAreReal /\ ActiveIsReal /\ WholeWhenActive

(* The result row and the job. *)
Untouched   == tries = 0 => remote = {}
AllRecorded == result = "succeeded" => \A k \in Kind : row[k] # 0
JobInv ==
  /\ tries <= attempts[Result]
  /\ status[Result] \in {"succeeded", "dead"} =>
       result \in {"succeeded", "failed"} /\ \A a \in Attempt : try[a].at = "none"

-----------------------------------------------------------------------------
(* What an attempt knows, by what it waits for. *)
KnownIsReal(a) == \A k \in Kind : Known(a, k) # 0 => Has(k, Known(a, k))
KnowsAll(a)    == \A o \in remote : o.by = Known(a, o.kind)
KnowsTo(a, n)  == \A i \in 1..n : Known(a, CreateOrder[i]) # 0
KnowsEach(a)   == \A k \in Kind : Known(a, k) # 0
CampaignPaused == \A o \in remote : o.kind = "campaign" => <<"campaign", o.by>> \notin active

Beginning(a) ==
  /\ try[a].at \in {"loading", "marking"} => tries < attempts[Result]
  /\ try[a].at \in {"marking", "listing"} /\ ~try[a].seen => remote = {}
  /\ try[a].at \in {"listing", "calming", "noting", "finding", "halting", "adopting",
                    "uploading", "creating", "saving"} => tries > 0

Reconciling(a) ==
  /\ try[a].at \in {"calming", "noting"} => try[a].next = 1 /\ Known(a, "campaign") # 0
  /\ try[a].at \in {"finding", "halting", "adopting"} =>
       try[a].next \in 1..4 /\ KnowsTo(a, try[a].next - 1)
  /\ try[a].at = "halting" => try[a].next = 1
  /\ try[a].at \in {"halting", "adopting"} => Known(a, Creates(a)) # 0

Creating(a) ==
  /\ try[a].at \in {"uploading", "creating", "saving"} => KnowsAll(a)
  /\ try[a].at = "creating" =>
       try[a].next \in 1..4 /\ KnowsTo(a, try[a].next - 1) /\ Known(a, Creates(a)) = 0
  /\ try[a].at = "saving" =>
       try[a].next \in 1..4 /\ KnowsTo(a, try[a].next) /\ Known(a, Creates(a)) = a

(* Activated up to position n. *)
Delivers(a, n) ==
  /\ n >= 1 => <<"ad", Known(a, "ad")>> \in active
  /\ n >= 2 => <<"adset", Known(a, "adset")>> \in active

Activating(a) ==
  /\ try[a].at \in {"activating", "recording"} => try[a].next \in 1..3 /\ KnowsEach(a)
  /\ try[a].at = "activating" => Delivers(a, try[a].next - 1)
  /\ try[a].at = "recording" => Delivers(a, try[a].next)

Paused(a) ==
  /\ try[a].at \in {"noting", "adopting", "uploading", "creating", "saving"} => CampaignPaused
  /\ try[a].at = "finding" /\ try[a].next > 1 => CampaignPaused

Ending(a) ==
  /\ try[a].verdict = "succeeded" =>
       try[a].at \in {"finishing", "repausing", "completing", "failing"} /\ KnowsEach(a)
  /\ try[a].at = "finishing" => try[a].verdict # "none"
  /\ try[a].at = "pausing" => try[a].verdict \in {"failed", "pending"}
  /\ try[a].at = "completing" => result \in {"succeeded", "failed"}

AttemptInv(a) ==
  /\ KnownIsReal(a) /\ Beginning(a) /\ Reconciling(a) /\ Creating(a)
  /\ Activating(a) /\ Paused(a) /\ Ending(a)

(* The types of what the attempts leave behind. *)
DataOK ==
  /\ result \in {"pending", "running", "succeeded", "failed"}
  /\ tries \in 0..MaxAttempts
  /\ row \in [Kind -> 0..MaxAttempts]
  /\ shown \in [Kind -> {"none", "PAUSED", "ACTIVE", "UNKNOWN"}]
  /\ remote \subseteq Object
  /\ active \subseteq Kind \X Attempt

Inv ==
  /\ TypeOK /\ Alone /\ World /\ Untouched /\ AllRecorded /\ JobInv
  /\ \A a \in Attempt : AttemptInv(a)
-----------------------------------------------------------------------------
(* What a step of the attempt at work has to keep. *)

LEMMA Orders ==
  /\ CreateOrder[1] = "campaign" /\ CreateOrder[2] = "adset"
  /\ CreateOrder[3] = "creative" /\ CreateOrder[4] = "ad"
  /\ ActivateOrder[1] = "ad" /\ ActivateOrder[2] = "adset" /\ ActivateOrder[3] = "campaign"
BY DEF CreateOrder, ActivateOrder

LEMMA BlankKeeps ==
  ASSUME PublishAssumption, NEW a \in Attempt, (try[a] = Blank)'
  PROVE  AttemptInv(a)'
BY DEF Blank, Attempt, AttemptInv, KnownIsReal, Known, Beginning, Reconciling, Creating, Activating,
       Paused, Ending, Kind

(* The others are over. *)
LEMMA Frame ==
  ASSUME PublishAssumption, Inv, NEW a \in Attempt, try[a].at # "none",
         try' \in [Attempt -> Tries], \A b \in Attempt \ {a} : try'[b] = try[b],
         try'[a].at # "none", UNCHANGED <<queueVars, Kept>>,
         DataOK', World', Untouched', AllRecorded', tries' <= attempts[Result], AttemptInv(a)'
  PROVE  Inv'
<1>1. \A b \in Attempt \ {a} : try[b] = Blank
  BY DEF Inv, Alone
<1>2. TypeOK'
  BY DEF Inv, TypeOK, DataOK, Tries, queueVars, Kept
<1>3. Alone'
  BY <1>1 DEF Alone, Blank
<1>4. JobInv'
  BY DEF Inv, JobInv, queueVars
<1>5. \A b \in Attempt : AttemptInv(b)'
  BY <1>1, BlankKeeps
<1> QED BY <1>2, <1>3, <1>4, <1>5 DEF Inv

(* The parts of World, by what they are about. *)
LEMMA WorldStays ==
  /\ UNCHANGED remote => (OneOfAKind => OneOfAKind') /\ (Hangs => Hangs')
  /\ UNCHANGED <<remote, row>> /\ RowsAreReal => RowsAreReal'
  /\ UNCHANGED <<remote, active>> =>
       (ActiveIsReal => ActiveIsReal') /\ (WholeWhenActive => WholeWhenActive')
<1>1. UNCHANGED remote => (OneOfAKind => OneOfAKind') /\ (Hangs => Hangs')
  BY DEF OneOfAKind, Hangs, Any
<1>2. UNCHANGED <<remote, row>> /\ RowsAreReal => RowsAreReal'
  BY DEF RowsAreReal, Has
<1>3. UNCHANGED <<remote, active>> => (ActiveIsReal => ActiveIsReal')
  BY DEF ActiveIsReal, Has
<1>4. UNCHANGED <<remote, active>> => (WholeWhenActive => WholeWhenActive')
  BY DEF WholeWhenActive, IsActive
<1> QED BY <1>1, <1>2, <1>3, <1>4

(* A step that only moves on. *)
LEMMA Moves ==
  ASSUME PublishAssumption, Inv, NEW a \in Attempt, try[a].at # "none",
         try' \in [Attempt -> Tries], \A b \in Attempt \ {a} : try'[b] = try[b],
         try'[a].at # "none", UNCHANGED <<queueVars, localVars, metaVars, Kept>>, AttemptInv(a)'
  PROVE  Inv'
<1>1. DataOK' /\ tries' <= attempts[Result]
  BY DEF Inv, TypeOK, DataOK, JobInv, localVars, metaVars
<1>2. Untouched' /\ AllRecorded'
  BY DEF Inv, Untouched, AllRecorded, localVars, metaVars
<1>3. World'
  BY WorldStays DEF Inv, World, localVars, metaVars
<1> QED BY <1>1, <1>2, <1>3, Frame DEF Kept

-----------------------------------------------------------------------------
(* What becomes of the attempt that takes a step. *)
To(a, at, next, seen, known, verdict) ==
  /\ try' \in [Attempt -> Tries]
  /\ \A b \in Attempt \ {a} : try'[b] = try[b]
  /\ try'[a].at = at /\ try'[a].next = next /\ try'[a].seen = seen
  /\ try'[a].known = known /\ try'[a].verdict = verdict

LEMMA Fields ==
  ASSUME TypeOK, NEW a \in Attempt
  PROVE  /\ try \in [Attempt -> Tries] /\ try[a] \in Tries
         /\ try[a].at \in At /\ try[a].next \in 0..5 /\ try[a].seen \in BOOLEAN
         /\ try[a].known \in [Kind -> 0..MaxAttempts] /\ try[a].paused \in BOOLEAN
         /\ try[a].verdict \in {"none", "succeeded", "failed", "pending"}
BY DEF TypeOK, Tries

LEMMA Records ==
  ASSUME NEW t \in Tries, NEW at \in At, NEW next \in 0..5, NEW known \in [Kind -> 0..MaxAttempts],
         NEW verdict \in {"none", "succeeded", "failed", "pending"}
  PROVE  /\ [t EXCEPT !.known = known, !.at = at, !.next = next] \in Tries
         /\ [t EXCEPT !.known = known, !.verdict = verdict, !.at = at] \in Tries
BY DEF Tries

LEMMA RecordsKnown ==
  ASSUME NEW t \in Tries, NEW at \in At, NEW known \in [Kind -> 0..MaxAttempts]
  PROVE  [t EXCEPT !.known = known, !.at = at] \in Tries
BY DEF Tries

LEMMA Shapes ==
  ASSUME PublishAssumption, TypeOK, NEW a \in Attempt
  PROVE  /\ \A at \in At : Go(a, at) =>
              To(a, at, try[a].next, try[a].seen, try[a].known, try[a].verdict)
         /\ \A at \in At, n \in 0..5 : GoTo(a, at, n) =>
              To(a, at, n, try[a].seen, try[a].known, try[a].verdict)
         /\ \A verdict \in {"succeeded", "failed", "pending"} : Ends(a, verdict) =>
              To(a, "finishing", try[a].next, try[a].seen, try[a].known, verdict)
<1>1. /\ try \in [Attempt -> Tries] /\ try[a] \in Tries
      /\ try[a].at \in At /\ try[a].next \in 0..5 /\ try[a].seen \in BOOLEAN
      /\ try[a].known \in [Kind -> 0..MaxAttempts] /\ try[a].paused \in BOOLEAN
      /\ try[a].verdict \in {"none", "succeeded", "failed", "pending"}
  BY Fields
<1>2. ASSUME NEW at \in At, Go(a, at)
      PROVE  To(a, at, try[a].next, try[a].seen, try[a].known, try[a].verdict)
  <2>1. try' = [try EXCEPT ![a] = [try[a] EXCEPT !.at = at]]
    BY <1>2 DEF Go
  <2>2. [try[a] EXCEPT !.at = at] \in Tries
    BY <1>1 DEF Tries
  <2> QED BY <1>1, <2>1, <2>2 DEF To
<1>3. ASSUME NEW at \in At, NEW n \in 0..5, GoTo(a, at, n)
      PROVE  To(a, at, n, try[a].seen, try[a].known, try[a].verdict)
  <2>1. try' = [try EXCEPT ![a] = [try[a] EXCEPT !.at = at, !.next = n]]
    BY <1>1, <1>3 DEF GoTo
  <2>2. [try[a] EXCEPT !.at = at, !.next = n] \in Tries
    BY <1>1 DEF Tries
  <2> QED BY <1>1, <2>1, <2>2 DEF To
<1>4. ASSUME NEW verdict \in {"succeeded", "failed", "pending"}, Ends(a, verdict)
      PROVE  To(a, "finishing", try[a].next, try[a].seen, try[a].known, verdict)
  <2>1. try' = [try EXCEPT ![a] = [try[a] EXCEPT !.at = "finishing", !.verdict = verdict]]
    BY <1>1, <1>4 DEF Ends
  <2>2. [try[a] EXCEPT !.at = "finishing", !.verdict = verdict] \in Tries
    BY <1>1 DEF Tries, At
  <2> QED BY <1>1, <2>1, <2>2 DEF To
<1> QED BY <1>2, <1>3, <1>4

(* An attempt that gives up, or comes to its end. *)
LEMMA EndKeeps ==
  ASSUME PublishAssumption, NEW a \in Attempt,
         try'[a].at \in {"pausing", "finishing", "repausing", "failing"},
         try'[a].at = "pausing" => try'[a].verdict \in {"failed", "pending"},
         try'[a].at = "finishing" => try'[a].verdict # "none",
         KnownIsReal(a)', try'[a].verdict = "succeeded" => KnowsEach(a)'
  PROVE  AttemptInv(a)'
BY DEF AttemptInv, Beginning, Reconciling, Creating, Activating, Paused, Ending

LEMMA FailKeeps ==
  ASSUME PublishAssumption, Inv, NEW a \in Attempt, UNCHANGED remote,
         try'[a].at \in {"repausing", "failing"}, try'[a].known = try[a].known,
         try'[a].verdict = try[a].verdict
  PROVE  AttemptInv(a)'
<1>1. KnownIsReal(a)'
  BY DEF Inv, AttemptInv, KnownIsReal, Known, Has
<1>2. try'[a].verdict = "succeeded" => KnowsEach(a)'
  BY DEF Inv, AttemptInv, Ending, KnowsEach, Known
<1> QED BY <1>1, <1>2, EndKeeps
-----------------------------------------------------------------------------
(* The steps up to the first call to Meta. *)

LEMMA LoadKeeps ==
  ASSUME PublishAssumption, Inv, NEW a \in Attempt, Load(a)
  PROVE  Inv'
<1>1. TypeOK /\ AttemptInv(a) /\ try[a].at = "loading"
  BY DEF Inv, Load, Waits
<1>2. UNCHANGED <<queueVars, localVars, metaVars, Kept>>
  BY DEF Load
<1>3. CASE try' = [try EXCEPT ![a].at = "marking", ![a].seen = tries > 0]
  <2>1. To(a, "marking", try[a].next, tries > 0, try[a].known, try[a].verdict)
    <3>1. try' = [try EXCEPT ![a] = [try[a] EXCEPT !.at = "marking", !.seen = tries > 0]]
      BY <1>1, <1>3, Fields
    <3>2. (tries > 0) \in BOOLEAN
      OBVIOUS
    <3>3. [try[a] EXCEPT !.at = "marking", !.seen = tries > 0] \in Tries
      BY <1>1, <3>2, Fields DEF Tries, At
    <3> QED BY <1>1, <3>1, <3>3, Fields DEF To
  <2>2. KnownIsReal(a)'
    BY <1>1, <1>2, <2>1 DEF AttemptInv, KnownIsReal, Known, Has, To, metaVars
  <2>3. Beginning(a)'
    <3>1. ~(tries > 0) => tries = 0
      BY <1>1 DEF TypeOK
    <3> QED BY <1>1, <1>2, <2>1, <3>1
            DEF Inv, AttemptInv, Beginning, To, Untouched, localVars, metaVars, queueVars
  <2>4. /\ Reconciling(a)' /\ Creating(a)' /\ Activating(a)' /\ Paused(a)'
        /\ try[a].verdict # "succeeded"
    BY <1>1, <2>1 DEF AttemptInv, Ending, Reconciling, Creating, Activating, Paused, To
  <2>5. AttemptInv(a)'
    BY <2>1, <2>2, <2>3, <2>4 DEF AttemptInv, Ending, To
  <2> QED BY <1>1, <1>2, <2>1, <2>5, Moves DEF To
<1>4. CASE Go(a, "failing")
  <2>1. To(a, "failing", try[a].next, try[a].seen, try[a].known, try[a].verdict)
    BY <1>1, <1>4, Shapes DEF At
  <2>2. AttemptInv(a)'
    BY <1>2, <2>1, FailKeeps DEF To, metaVars
  <2> QED BY <1>1, <1>2, <2>1, <2>2, Moves DEF To
<1> QED BY <1>3, <1>4 DEF Load

LEMMA MarkKeeps ==
  ASSUME PublishAssumption, Inv, NEW a \in Attempt, MarkAccountRunning(a)
  PROVE  Inv'
<1>1. TypeOK /\ AttemptInv(a) /\ try[a].at = "marking"
  BY DEF Inv, MarkAccountRunning, Waits
<1>2. UNCHANGED <<queueVars, row, shown, metaVars, Kept>>
  BY DEF MarkAccountRunning
<1>3. tries < attempts[Result] /\ attempts[Result] \in 0..MaxAttempts
  BY <1>1 DEF AttemptInv, Beginning, TypeOK
<1>4. World'
  BY <1>2, WorldStays DEF Inv, World, metaVars
<1>5. PICK at \in {"listing", "failing"} :
         To(a, at, try[a].next, try[a].seen, try[a].known, try[a].verdict)
  BY <1>1, Shapes DEF MarkAccountRunning, At
<1>6. KnownIsReal(a)' /\ try[a].verdict # "succeeded"
  BY <1>1, <1>2, <1>5 DEF AttemptInv, KnownIsReal, Known, Has, To, metaVars, Ending
<1>7. CASE result # "succeeded" /\ result' = "running" /\ tries' = tries + 1
  <2>1. DataOK' /\ tries' <= attempts[Result] /\ tries' > 0
    BY <1>1, <1>2, <1>3, <1>7 DEF TypeOK, DataOK, metaVars
  <2>2. Untouched' /\ AllRecorded'
    BY <1>7, <2>1 DEF Untouched, AllRecorded
  <2>3. AttemptInv(a)'
    <3>1. CASE at = "failing"
      BY <1>2, <1>5, <3>1, FailKeeps DEF To, metaVars
    <3>2. CASE at = "listing"
      <4>1. Beginning(a)'
        BY <1>1, <1>2, <1>5, <2>1, <3>2 DEF AttemptInv, Beginning, To, metaVars
      <4>2. Reconciling(a)' /\ Creating(a)' /\ Activating(a)' /\ Paused(a)' /\ Ending(a)'
        BY <1>5, <1>6, <3>2 DEF Reconciling, Creating, Activating, Paused, Ending, To
      <4> QED BY <1>6, <4>1, <4>2 DEF AttemptInv
    <3> QED BY <1>5, <3>1, <3>2
  <2> QED BY <1>1, <1>2, <1>4, <1>5, <2>1, <2>2, <2>3, Frame DEF To
<1>8. CASE Go(a, "failing") /\ UNCHANGED <<result, tries>>
  <2>1. To(a, "failing", try[a].next, try[a].seen, try[a].known, try[a].verdict)
    BY <1>1, <1>8, Shapes DEF At
  <2>2. AttemptInv(a)'
    BY <1>2, <2>1, FailKeeps DEF To, metaVars
  <2> QED BY <1>1, <1>2, <1>8, <2>1, <2>2, Moves DEF To, localVars
<1> QED BY <1>7, <1>8 DEF MarkAccountRunning

(* A result that ends, or waits for a retry, before anything is created. *)
LEMMA EndsEarly ==
  ASSUME PublishAssumption, Inv, NEW a \in Attempt, try[a].at # "none",
         UNCHANGED <<queueVars, localVars, metaVars, Kept>>,
         \/ Go(a, "failing")
         \/ \E verdict \in {"failed", "pending"} : Ends(a, verdict)
  PROVE  Inv'
<1>1. TypeOK /\ AttemptInv(a)
  BY DEF Inv
<1>2. CASE Go(a, "failing")
  <2>1. To(a, "failing", try[a].next, try[a].seen, try[a].known, try[a].verdict)
    BY <1>1, <1>2, Shapes DEF At
  <2>2. AttemptInv(a)'
    BY <2>1, FailKeeps DEF To, metaVars
  <2> QED BY <2>1, <2>2, Moves DEF To
<1>3. ASSUME NEW verdict \in {"failed", "pending"}, Ends(a, verdict) PROVE Inv'
  <2>1. To(a, "finishing", try[a].next, try[a].seen, try[a].known, verdict)
    BY <1>1, <1>3, Shapes
  <2>2. KnownIsReal(a)'
    BY <1>1, <2>1 DEF AttemptInv, KnownIsReal, Known, Has, To, metaVars
  <2>3. AttemptInv(a)'
    BY <2>1, <2>2, EndKeeps DEF To
  <2> QED BY <2>1, <2>3, Moves DEF To
<1> QED BY <1>2, <1>3

LEMMA ListKeeps ==
  ASSUME PublishAssumption, Inv, NEW a \in Attempt, ListCheckpoints(a)
  PROVE  Inv'
<1>1. TypeOK /\ AttemptInv(a) /\ try[a].at = "listing"
  BY DEF Inv, ListCheckpoints, Waits
<1>2. UNCHANGED <<queueVars, localVars, metaVars, Kept>>
  BY DEF ListCheckpoints
<1> DEFINE at == IF ~try[a].seen THEN "uploading"
                 ELSE IF row["campaign"] # 0 THEN "calming" ELSE "finding"
<1>3. CASE try' = [try EXCEPT ![a].known = row, ![a].at = at, ![a].next = 1]
  <2>1. To(a, at, 1, try[a].seen, row, try[a].verdict)
    <3>1. try' = [try EXCEPT ![a] = [try[a] EXCEPT !.known = row, !.at = at, !.next = 1]]
      BY <1>1, <1>3, Fields
    <3>2. at \in At /\ row \in [Kind -> 0..MaxAttempts] /\ 1 \in 0..5
      BY <1>1 DEF TypeOK, At
    <3> HIDE DEF at
    <3>3. try[a] \in Tries
      BY <1>1, Fields
    <3>4. [try[a] EXCEPT !.known = row, !.at = at, !.next = 1] \in Tries
      BY <3>2, <3>3, Records, Zenon
    <3> QED BY <1>1, <3>1, <3>4, Fields DEF To, Tries
  <2>2. KnownIsReal(a)'
    BY <1>2, <2>1 DEF Inv, World, RowsAreReal, KnownIsReal, Known, Has, To, metaVars
  <2>3. Beginning(a)' /\ (try[a].seen \/ remote = {})
    BY <1>1, <1>2, <2>1 DEF AttemptInv, Beginning, To, localVars, metaVars
  <2>4. Reconciling(a)'
    BY <2>1 DEF Reconciling, KnowsTo, Known, To
  <2>5. Creating(a)' /\ Paused(a)'
    BY <1>2, <2>1, <2>3 DEF Creating, Paused, KnowsAll, CampaignPaused, To, metaVars
  <2>6. Activating(a)' /\ Ending(a)'
    BY <1>1, <2>1 DEF AttemptInv, Activating, Ending, To
  <2>7. AttemptInv(a)'
    BY <2>2, <2>3, <2>4, <2>5, <2>6 DEF AttemptInv
  <2> QED BY <1>1, <1>2, <2>1, <2>7, Moves DEF To
<1> QED BY <1>1, <1>2, <1>3, EndsEarly DEF ListCheckpoints

-----------------------------------------------------------------------------
(* The steps of reconcilePublishRetry. *)

LEMMA PauseKeeps ==
  ASSUME TypeOK, World, NEW by, NEW ok \in BOOLEAN, Pause("campaign", by, ok),
         UNCHANGED <<remote, row>>
  PROVE  /\ World' /\ active' \subseteq active
         /\ active \subseteq active' \union {<<"campaign", by>>}
         /\ ok => <<"campaign", by>> \notin active'
<1>1. /\ active' \subseteq active /\ active \subseteq active' \union {<<"campaign", by>>}
      /\ ok => <<"campaign", by>> \notin active'
  BY DEF Pause
<1>2. OneOfAKind' /\ Hangs' /\ RowsAreReal'
  BY WorldStays DEF World
<1>3. ActiveIsReal'
  BY <1>1 DEF World, ActiveIsReal, Has
<1>4. WholeWhenActive'
  <2> SUFFICES ASSUME NEW c \in remote, c.kind = "campaign", IsActive(c)'
               PROVE  \E s, d \in remote :
                        /\ s.kind = "adset" /\ s.parent = c.by /\ IsActive(s)'
                        /\ d.kind = "ad" /\ d.parent = s.by /\ IsActive(d)'
    BY DEF WholeWhenActive, IsActive
  <2>1. PICK s \in remote, d \in remote :
          /\ s.kind = "adset" /\ s.parent = c.by /\ IsActive(s)
          /\ d.kind = "ad" /\ d.parent = s.by /\ IsActive(d)
    BY <1>1 DEF World, WholeWhenActive, IsActive
  <2>2. IsActive(s)' /\ IsActive(d)'
    BY <1>1, <2>1 DEF IsActive
  <2> QED BY <2>1, <2>2
<1> QED BY <1>1, <1>2, <1>3, <1>4 DEF World

(* The campaign an attempt knows is the campaign there is. *)
LEMMA OnlyCampaign ==
  ASSUME World, NEW a \in Attempt, KnownIsReal(a), Known(a, "campaign") # 0
  PROVE  \A o \in remote : o.kind = "campaign" => o.by = Known(a, "campaign")
BY DEF World, OneOfAKind, KnownIsReal, Has, Kind

LEMMA CalmKeeps ==
  ASSUME PublishAssumption, Inv, NEW a \in Attempt, Calm(a)
  PROVE  Inv'
<1>1. TypeOK /\ AttemptInv(a) /\ World /\ try[a].at \in {"calming", "halting"}
  BY DEF Inv, Calm, Waits
<1>2. UNCHANGED <<queueVars, localVars, remote, Kept>>
  BY DEF Calm
<1>3. PICK ok \in BOOLEAN :
        /\ Pause("campaign", Known(a, "campaign"), ok)
        /\ Go(a, IF ~ok THEN "failing" ELSE IF Waits(a, "calming") THEN "noting" ELSE "adopting")
  BY DEF Calm
<1> DEFINE at == IF ~ok THEN "failing" ELSE IF Waits(a, "calming") THEN "noting" ELSE "adopting"
<1>4. To(a, at, try[a].next, try[a].seen, try[a].known, try[a].verdict)
  <2>1. at \in At /\ Go(a, at)
    BY <1>3 DEF At
  <2> HIDE DEF at
  <2> QED BY <1>1, <2>1, Shapes
<1>5. /\ World' /\ active' \subseteq active
      /\ ok => <<"campaign", Known(a, "campaign")>> \notin active'
  BY <1>1, <1>2, <1>3, PauseKeeps DEF localVars
<1>6. DataOK' /\ tries' <= attempts[Result] /\ Untouched' /\ AllRecorded'
  BY <1>1, <1>2, <1>5 DEF Inv, TypeOK, DataOK, JobInv, Untouched, AllRecorded, localVars
<1>7. AttemptInv(a)'
  <2>1. CASE ~ok
    BY <1>2, <1>4, <2>1, FailKeeps DEF To
  <2>2. CASE ok
    <3>1. Known(a, "campaign") # 0 /\ try[a].next = 1
      BY <1>1, Orders DEF AttemptInv, Reconciling, Creates
    <3>2. KnownIsReal(a)' /\ at \in {"noting", "adopting"}
      BY <1>1, <1>2, <1>4, <2>2 DEF AttemptInv, KnownIsReal, Known, Has, To
    <3>3. CampaignPaused'
      BY <1>1, <1>2, <1>5, <2>2, <3>1, OnlyCampaign DEF AttemptInv, CampaignPaused
    <3>4. Beginning(a)'
      BY <1>1, <1>2, <1>4, <3>2 DEF AttemptInv, Beginning, To, localVars
    <3>5. Reconciling(a)'
      <4>1. \A n \in 1..4 : KnowsTo(a, n - 1)' <=> KnowsTo(a, n - 1)
        BY <1>4 DEF KnowsTo, Known, To
      <4>2. Known(a, Creates(a))' # 0
        BY <1>4, <3>1, Orders DEF Known, Creates, To
      <4>3. KnowsTo(a, try[a].next - 1)
        BY <3>1 DEF KnowsTo
      <4> QED BY <1>4, <3>1, <3>2, <4>1, <4>2, <4>3 DEF Reconciling, Known, To
    <3>6. Creating(a)' /\ Activating(a)' /\ Paused(a)' /\ Ending(a)'
      BY <1>1, <1>4, <3>2, <3>3 DEF AttemptInv, Creating, Activating, Paused, Ending, To
    <3> QED BY <3>2, <3>4, <3>5, <3>6 DEF AttemptInv
  <2> QED BY <2>1, <2>2
<1>8. try[a].at # "none" /\ at # "none"
  BY <1>1
<1> HIDE DEF at
<1> QED BY <1>2, <1>4, <1>5, <1>6, <1>7, <1>8, Frame DEF To

LEMMA Least ==
  ASSUME NEW S \in SUBSET (1..4), S # {}
  PROVE  \E m \in S : \A i \in S : m <= i
<1>1. CASE 1 \in S
  BY <1>1
<1>2. CASE 1 \notin S /\ 2 \in S
  BY <1>2
<1>3. CASE 1 \notin S /\ 2 \notin S /\ 3 \in S
  BY <1>3
<1>4. CASE 1 \notin S /\ 2 \notin S /\ 3 \notin S
  <2>1. \A i \in S : i = 4
    BY <1>4
  <2>2. PICK j \in S : TRUE
    OBVIOUS
  <2> QED BY <2>1, <2>2
<1> QED BY <1>1, <1>2, <1>3, <1>4

(* The turn of the next object that is not known. *)
LEMMA ReconciledIs ==
  ASSUME PublishAssumption, TypeOK, NEW a \in Attempt, NEW n \in 1..4,
         NEW known \in [Kind -> 0..MaxAttempts], Reconciled(a, n, known)
  PROVE  \/ /\ \A i \in (n + 1)..4 : known[CreateOrder[i]] # 0
            /\ To(a, "uploading", 1, try[a].seen, known, try[a].verdict)
         \/ \E m \in (n + 1)..4 :
              /\ \A i \in (n + 1)..(m - 1) : known[CreateOrder[i]] # 0
              /\ To(a, "finding", m, try[a].seen, known, try[a].verdict)
<1> DEFINE todo == {m \in (n + 1)..4 : known[CreateOrder[m]] = 0}
           at == IF todo = {} THEN "uploading" ELSE "finding"
           next == IF todo = {} THEN 1 ELSE CHOOSE m \in todo : \A i \in todo : m <= i
<1>1. todo # {} => next \in todo /\ \A i \in todo : next <= i
  <2>1. todo \in SUBSET (1..4)
    OBVIOUS
  <2> HIDE DEF todo
  <2> QED BY <2>1, Least
<1>2. next \in 0..5 /\ at \in At
  <2>1. todo \subseteq 1..4
    OBVIOUS
  <2>2. at \in At
    BY DEF At
  <2>3. CASE todo = {}
    BY <2>2, <2>3
  <2>4. CASE todo # {}
    <3>1. next \in 1..4
      BY <1>1, <2>1, <2>4
    <3> HIDE DEF next
    <3> QED BY <2>2, <3>1
  <2> QED BY <2>3, <2>4
<1>3. To(a, at, next, try[a].seen, known, try[a].verdict)
  <2>1. try' = [try EXCEPT ![a].known = known, ![a].at = at, ![a].next = next]
    BY DEF Reconciled
  <2> HIDE DEF at, next
  <2>2. try' = [try EXCEPT ![a] = [try[a] EXCEPT !.known = known, !.at = at, !.next = next]]
    BY <2>1, Fields
  <2>3. try[a] \in Tries
    BY Fields
  <2>4. [try[a] EXCEPT !.known = known, !.at = at, !.next = next] \in Tries
    BY <1>2, <2>3, Records, Zenon
  <2> QED BY <2>2, <2>4, Fields DEF To, Tries
<1>4. CASE todo = {}
  BY <1>3, <1>4
<1>5. CASE todo # {}
  <2>1. next \in (n + 1)..4
    BY <1>1, <1>5
  <2>2. \A i \in (n + 1)..(next - 1) : known[CreateOrder[i]] # 0
    <3> SUFFICES ASSUME NEW i \in (n + 1)..(next - 1), known[CreateOrder[i]] = 0 PROVE FALSE
      OBVIOUS
    <3>1. i \in todo /\ i < next
      BY <2>1
    <3>2. next <= i
      BY <1>1, <1>5, <3>1
    <3> HIDE DEF next
    <3> QED BY <2>1, <3>1, <3>2
  <2>3. at = "finding"
    BY <1>5
  <2> HIDE DEF next, at
  <2> QED BY <1>3, <2>1, <2>2, <2>3
<1> QED BY <1>4, <1>5

(* All four known and real: all there is. *)
LEMMA AllKnown ==
  ASSUME World, TypeOK, NEW a \in Attempt, KnownIsReal(a), KnowsTo(a, 4)
  PROVE  KnowsAll(a)
<1>1. \A k \in Kind : Known(a, k) # 0
  BY Orders DEF KnowsTo, Kind
<1> QED BY <1>1 DEF World, OneOfAKind, KnownIsReal, Has, KnowsAll, TypeOK, Object

(* The next turn of an attempt that keeps what it knows and has paused the campaign. *)
LEMMA ReconciledKeeps ==
  ASSUME PublishAssumption, TypeOK, NEW a \in Attempt, AttemptInv(a),
         try[a].at \in {"noting", "adopting"}, Reconciled(a, try[a].next, try[a].known),
         UNCHANGED <<tries, metaVars>>, World, World'
  PROVE  AttemptInv(a)'
<1> DEFINE n == try[a].next
<1>1. n \in 1..4 /\ KnowsTo(a, n) /\ CampaignPaused
  BY Orders DEF AttemptInv, Reconciling, Paused, KnowsTo, Creates
<1>2. try[a].known \in [Kind -> 0..MaxAttempts]
  BY Fields
<1>3. KnownIsReal(a) /\ CampaignPaused'
  BY <1>1 DEF AttemptInv, CampaignPaused, metaVars
<1>4. try[a].verdict # "succeeded" /\ tries' > 0
  BY DEF AttemptInv, Ending, Beginning
<1>5. CASE /\ \A i \in (n + 1)..4 : try[a].known[CreateOrder[i]] # 0
           /\ To(a, "uploading", 1, try[a].seen, try[a].known, try[a].verdict)
  <2>1. KnowsTo(a, 4)
    BY <1>1, <1>5 DEF KnowsTo, Known
  <2>2. KnownIsReal(a)' /\ KnowsAll(a)'
    BY <1>3, <1>5, <2>1, AllKnown DEF KnownIsReal, KnowsAll, Known, Has, To, metaVars
  <2> QED BY <1>3, <1>4, <1>5, <2>2
          DEF AttemptInv, Beginning, Reconciling, Creating, Activating, Paused, Ending, To
<1>6. ASSUME NEW m \in (n + 1)..4,
             \A i \in (n + 1)..(m - 1) : try[a].known[CreateOrder[i]] # 0,
             To(a, "finding", m, try[a].seen, try[a].known, try[a].verdict)
      PROVE  AttemptInv(a)'
  <2>1. KnowsTo(a, m - 1)' /\ m \in 1..4
    BY <1>1, <1>6 DEF KnowsTo, Known, To
  <2>2. KnownIsReal(a)'
    BY <1>3, <1>6 DEF KnownIsReal, Known, Has, To, metaVars
  <2> QED BY <1>3, <1>4, <1>6, <2>1, <2>2
          DEF AttemptInv, Beginning, Reconciling, Creating, Activating, Paused, Ending, To
<1> QED BY <1>1, <1>2, <1>5, <1>6, ReconciledIs

(* A turn that is taken. *)
LEMMA ReconciledTurn ==
  ASSUME PublishAssumption, TypeOK, NEW a \in Attempt, NEW n \in 1..4,
         NEW known \in [Kind -> 0..MaxAttempts], Reconciled(a, n, known)
  PROVE  /\ try' \in [Attempt -> Tries] /\ \A b \in Attempt \ {a} : try'[b] = try[b]
         /\ try'[a].at # "none"
BY ReconciledIs DEF To

LEMMA NoteKeeps ==
  ASSUME PublishAssumption, Inv, NEW a \in Attempt, Note(a)
  PROVE  Inv'
<1>1. TypeOK /\ AttemptInv(a) /\ World /\ try[a].at = "noting"
  BY DEF Inv, Note, Waits
<1>2. UNCHANGED <<queueVars, result, tries, row, metaVars, Kept>>
  BY DEF Note
<1>3. shown' \in [Kind -> {"none", "PAUSED", "ACTIVE", "UNKNOWN"}]
  BY <1>1 DEF Note, TypeOK
<1>4. DataOK' /\ tries' <= attempts[Result] /\ Untouched' /\ AllRecorded'
  BY <1>1, <1>2, <1>3 DEF Inv, TypeOK, DataOK, JobInv, Untouched, AllRecorded, metaVars
<1>5. World'
  BY <1>1, <1>2, WorldStays DEF World, metaVars
<1>6. CASE Reconciled(a, 1, try[a].known)
  <2>1. try[a].next = 1 /\ try[a].known \in [Kind -> 0..MaxAttempts]
    BY <1>1, Fields DEF AttemptInv, Reconciling
  <2>2. AttemptInv(a)'
    BY <1>1, <1>2, <1>5, <1>6, <2>1, ReconciledKeeps
  <2> QED BY <1>1, <1>2, <1>4, <1>5, <1>6, <2>1, <2>2, ReconciledTurn, Frame
<1>7. CASE Go(a, "failing")
  <2>1. To(a, "failing", try[a].next, try[a].seen, try[a].known, try[a].verdict)
    BY <1>1, <1>7, Shapes DEF At
  <2>2. AttemptInv(a)'
    BY <1>2, <2>1, FailKeeps DEF To, metaVars
  <2> QED BY <1>1, <1>2, <1>4, <1>5, <2>1, <2>2, Frame DEF To
<1> QED BY <1>6, <1>7 DEF Note

(* Nothing under the known parent: nothing of that kind, nor of those below it. *)
LEMMA NoneBelow ==
  ASSUME TypeOK, World, NEW a \in Attempt, KnownIsReal(a), NEW n \in 1..4, KnowsTo(a, n - 1),
         Matches(a, CreateOrder[n]) = {}
  PROVE  KnowsAll(a) /\ (n = 1 => remote = {})
<1>1. \A o \in remote : o.kind \in Kind
  BY DEF TypeOK, Object
<1>2. \A o, p \in remote : o.kind = p.kind => o = p
  BY DEF World, OneOfAKind
<1>3. \A i \in 1..(n - 1) : \A o \in remote : o.kind = CreateOrder[i] => o.by = Known(a, o.kind)
  <2>1. \A i \in 1..(n - 1) : CreateOrder[i] \in Kind /\ Known(a, CreateOrder[i]) # 0
    BY Orders DEF KnowsTo, Kind
  <2> QED BY <1>2, <2>1 DEF KnownIsReal, Has
<1>4. \A o \in remote : o.kind # CreateOrder[n]
  <2> SUFFICES ASSUME NEW o \in remote, o.kind = CreateOrder[n] PROVE FALSE
    OBVIOUS
  <2>1. Parent(a, CreateOrder[n]) # 0 => o.parent = Parent(a, CreateOrder[n])
    <3>1. CASE n = 2
      <4>1. PICK c \in remote : c.kind = "campaign" /\ o.parent = c.by
        BY <3>1, Orders DEF World, Hangs
      <4>2. c.by = Known(a, "campaign")
        BY <1>3, <3>1, <4>1, Orders
      <4> QED BY <3>1, <4>1, <4>2, Orders DEF Parent
    <3>2. CASE n = 4
      <4>1. PICK s \in remote : s.kind = "adset" /\ o.parent = s.by
        BY <3>2, Orders DEF World, Hangs
      <4>2. s.by = Known(a, "adset")
        BY <1>3, <3>2, <4>1, Orders
      <4> QED BY <3>2, <4>1, <4>2, Orders DEF Parent
    <3>3. CASE n = 1 \/ n = 3
      BY <3>3, Orders DEF Parent
    <3> QED BY <3>1, <3>2, <3>3
  <2>2. o \in Matches(a, CreateOrder[n])
    BY <2>1 DEF Matches
  <2> QED BY <2>2
<1>5. \A i \in n..4 : ~Any(CreateOrder[i])
  <2>1. ~Any(CreateOrder[n])
    BY <1>4 DEF Any
  <2>2. Any("ad") => Any("creative")
    BY DEF World, Hangs, Any
  <2>3. Any("creative") => Any("adset")
    BY DEF World, Hangs, Any
  <2>4. Any("adset") => Any("campaign")
    BY DEF World, Hangs, Any
  <2> QED BY <2>1, <2>2, <2>3, <2>4, Orders
<1>6. \A k \in Kind : \E i \in 1..4 : CreateOrder[i] = k
  BY Orders DEF Kind
<1>7. \A o \in remote : \E i \in 1..(n - 1) : CreateOrder[i] = o.kind
  BY <1>1, <1>5, <1>6 DEF Any
<1> QED BY <1>3, <1>7 DEF KnowsAll

LEMMA FindKeeps ==
  ASSUME PublishAssumption, Inv, NEW a \in Attempt, Find(a)
  PROVE  Inv'
<1> DEFINE k == Creates(a)
           found == Matches(a, k)
           n == try[a].next
<1>1. TypeOK /\ AttemptInv(a) /\ World /\ try[a].at = "finding"
  BY DEF Inv, Find, Waits
<1>2. UNCHANGED <<queueVars, localVars, metaVars, Kept>>
  BY DEF Find
<1>3. n \in 1..4 /\ KnowsTo(a, n - 1) /\ k \in Kind /\ KnownIsReal(a) /\ tries > 0
  BY <1>1, Orders DEF AttemptInv, Reconciling, Beginning, Creates, Kind
<1>4. try[a].verdict # "succeeded"
  BY <1>1 DEF AttemptInv, Ending
<1>5. CASE found = {} /\ Go(a, "uploading")
  <2>1. To(a, "uploading", n, try[a].seen, try[a].known, try[a].verdict)
    BY <1>1, <1>5, Shapes DEF At
  <2>2. KnowsAll(a) /\ (n = 1 => remote = {})
    BY <1>1, <1>3, <1>5, NoneBelow DEF Creates
  <2>3. CampaignPaused
    BY <1>1, <1>3, <2>2 DEF AttemptInv, Paused, CampaignPaused
  <2>4. KnownIsReal(a)' /\ KnowsAll(a)' /\ CampaignPaused'
    BY <1>2, <1>3, <2>1, <2>2, <2>3
      DEF KnownIsReal, KnowsAll, CampaignPaused, Known, Has, To, metaVars
  <2>5. AttemptInv(a)'
    BY <1>2, <1>3, <1>4, <2>1, <2>4
       DEF AttemptInv, Beginning, Reconciling, Creating, Activating, Paused, Ending, To, localVars
  <2> QED BY <1>1, <1>2, <2>1, <2>5, Moves DEF To
<1>6. CASE /\ Cardinality(found) = 1
           /\ try' = [try EXCEPT ![a].known[k] = (CHOOSE o \in found : TRUE).by,
                                 ![a].at = IF k = "campaign" THEN "halting" ELSE "adopting"]
  <2> DEFINE o == CHOOSE x \in found : TRUE
             known == [try[a].known EXCEPT ![k] = o.by]
             at == IF k = "campaign" THEN "halting" ELSE "adopting"
  <2>1. o \in remote /\ o.kind = k /\ o.by \in Attempt
    <3>1. found # {}
      BY <1>6, FS_EmptySet
    <3>2. o \in found
      BY <3>1
    <3> HIDE DEF o
    <3> QED BY <1>1, <3>2 DEF Matches, TypeOK, Object
  <2>2. To(a, at, n, try[a].seen, known, try[a].verdict)
    <3>1. at \in At
      BY DEF At
    <3>6. try' = [try EXCEPT ![a].known[k] = o.by, ![a].at = at]
      BY <1>6
    <3> HIDE DEF o, at, k
    <3>2. try' = [try EXCEPT ![a] = [try[a] EXCEPT !.known = known, !.at = at]]
      BY <1>1, <3>6, Fields
    <3>3. known \in [Kind -> 0..MaxAttempts]
      BY <1>1, <1>3, <2>1, Fields DEF Attempt, PublishAssumption
    <3>4. try[a] \in Tries
      BY <1>1, Fields
    <3> HIDE DEF known
    <3>5. [try[a] EXCEPT !.known = known, !.at = at] \in Tries
      BY <3>1, <3>3, <3>4, RecordsKnown, Zenon
    <3> QED BY <1>1, <3>2, <3>5, Fields DEF To, Tries
  <2> HIDE DEF o
  <2>3. /\ \A i \in Kind : known[i] = IF i = k THEN o.by ELSE try[a].known[i]
        /\ o.by # 0
    BY <1>1, <1>3, <2>1, Fields DEF Attempt, PublishAssumption
  <2>4. at \in {"halting", "adopting"} /\ (at = "halting" <=> n = 1)
    BY <1>3, Orders DEF Creates
  <2> HIDE DEF known, at
  <2>5. KnownIsReal(a)'
    BY <1>2, <1>3, <2>1, <2>2, <2>3 DEF KnownIsReal, Known, Has, To, metaVars
  <2>6. KnowsTo(a, n - 1)' /\ (Known(a, Creates(a)) # 0)'
    <3>1. \A i \in 1..4 : CreateOrder[i] \in Kind
      BY Orders DEF Kind
    <3> QED BY <1>3, <2>2, <2>3, <3>1 DEF KnowsTo, Known, Creates, To
  <2>7. Reconciling(a)' /\ Beginning(a)'
    BY <1>2, <1>3, <2>2, <2>4, <2>6 DEF Reconciling, Beginning, To, localVars
  <2>8. Paused(a)'
    BY <1>1, <1>2, <1>3, <2>2, <2>4 DEF AttemptInv, Paused, CampaignPaused, To, metaVars
  <2>9. AttemptInv(a)'
    BY <1>4, <2>2, <2>4, <2>5, <2>7, <2>8 DEF AttemptInv, Creating, Activating, Ending, To
  <2> QED BY <1>1, <1>2, <2>2, <2>4, <2>9, Moves DEF To
<1>7. CASE Go(a, "failing")
  BY <1>1, <1>2, <1>7, EndsEarly
<1> QED BY <1>5, <1>6, <1>7 DEF Find

LEMMA AdoptKeeps ==
  ASSUME PublishAssumption, Inv, NEW a \in Attempt, Adopt(a)
  PROVE  Inv'
<1> DEFINE k == Creates(a)
           n == try[a].next
<1>1. TypeOK /\ AttemptInv(a) /\ World /\ try[a].at = "adopting"
  BY DEF Inv, Adopt, Waits
<1>2. UNCHANGED <<queueVars, result, tries, metaVars, Kept>>
  BY DEF Adopt
<1>3. n \in 1..4 /\ k \in Kind /\ Known(a, k) # 0 /\ KnownIsReal(a)
  BY <1>1, Orders DEF AttemptInv, Reconciling, Creates, Kind
<1>4. try[a].known \in [Kind -> 0..MaxAttempts]
  BY <1>1, Fields
<1>5. CASE UNCHANGED <<row, shown>> /\ Go(a, "failing")
  BY <1>1, <1>2, <1>5, EndsEarly DEF localVars
<1>6. CASE /\ row' = [row EXCEPT ![k] = Known(a, k)]
           /\ \E seen \in {"UNKNOWN", "ACTIVE", "PAUSED"} : shown' = [shown EXCEPT ![k] = seen]
           /\ Reconciled(a, n, try[a].known) \/ Go(a, "failing")
  <2> HIDE DEF k
  <2>1. /\ row' \in [Kind -> 0..MaxAttempts]
        /\ \A i \in Kind : row'[i] = IF i = k THEN Known(a, k) ELSE row[i]
    BY <1>1, <1>3, <1>4, <1>6 DEF TypeOK, Known
  <2>2. shown' \in [Kind -> {"none", "PAUSED", "ACTIVE", "UNKNOWN"}]
    BY <1>1, <1>6 DEF TypeOK
  <2>3. DataOK' /\ tries' <= attempts[Result] /\ Untouched'
    BY <1>1, <1>2, <2>1, <2>2 DEF Inv, TypeOK, DataOK, JobInv, Untouched, metaVars
  <2>4. AllRecorded'
    BY <1>2, <1>3, <2>1 DEF Inv, AllRecorded
  <2>5. World'
    <3>1. RowsAreReal'
      BY <1>1, <1>2, <1>3, <2>1 DEF World, RowsAreReal, KnownIsReal, Has, metaVars
    <3> QED BY <1>1, <1>2, <3>1, WorldStays DEF World, metaVars
  <2>6. CASE Reconciled(a, n, try[a].known)
    <3>1. AttemptInv(a)'
      BY <1>1, <1>2, <2>5, <2>6, ReconciledKeeps
    <3> QED BY <1>1, <1>2, <1>3, <1>4, <2>3, <2>4, <2>5, <2>6, <3>1, ReconciledTurn, Frame
  <2>7. CASE Go(a, "failing")
    <3>1. To(a, "failing", n, try[a].seen, try[a].known, try[a].verdict)
      BY <1>1, <2>7, Shapes DEF At
    <3>2. AttemptInv(a)'
      BY <1>2, <3>1, FailKeeps DEF To, metaVars
    <3> QED BY <1>1, <1>2, <2>3, <2>4, <2>5, <3>1, <3>2, Frame DEF To
  <2> QED BY <1>6, <2>6, <2>7
<1> QED BY <1>5, <1>6 DEF Adopt

-----------------------------------------------------------------------------
(* The steps of Publisher.PublishAccount. *)

LEMMA MissingIs ==
  ASSUME NEW a \in Attempt, NEW n \in 1..4
  PROVE  /\ Missing(a, n) \in n..5
         /\ \A i \in n..(Missing(a, n) - 1) : Known(a, CreateOrder[i]) # 0
         /\ Missing(a, n) = 5 \/ Known(a, CreateOrder[Missing(a, n)]) = 0
<1> DEFINE Q(m) == /\ \A i \in n..(m - 1) : Known(a, CreateOrder[i]) # 0
                   /\ m = 5 \/ Known(a, CreateOrder[m]) = 0
           S == {m \in n..4 : Known(a, CreateOrder[m]) = 0}
<1>1. \E m \in n..5 : Q(m)
  <2>1. CASE S = {}
    <3>1. Q(5)
      BY <2>1
    <3> QED BY <3>1
  <2>2. CASE S # {}
    <3>1. S \in SUBSET (1..4)
      OBVIOUS
    <3>2. PICK m \in S : \A i \in S : m <= i
      <4> HIDE DEF S
      <4> QED BY <2>2, <3>1, Least
    <3>3. ASSUME NEW i \in n..(m - 1), Known(a, CreateOrder[i]) = 0 PROVE FALSE
      <4>1. i \in S /\ m \in 1..4
        BY <3>1, <3>2, <3>3
      <4>2. m <= i
        BY <3>2, <4>1
      <4> QED BY <3>3, <4>1, <4>2
    <3>4. Q(m) /\ m \in n..5
      BY <3>2, <3>3
    <3> QED BY <3>4
  <2> QED BY <2>1, <2>2
<1>2. Missing(a, n) = CHOOSE m \in n..5 : Q(m)
  BY DEF Missing
<1> HIDE DEF Q
<1>3. Missing(a, n) \in n..5 /\ Q(Missing(a, n))
  BY <1>1, <1>2
<1> USE DEF Q
<1> QED BY <1>3

(* The next object that is missing, the activation, or the end. *)
Proceeds(a, n) ==
  IF n < 5 THEN GoTo(a, "creating", n)
  ELSE IF leavePaused THEN Ends(a, "succeeded") ELSE GoTo(a, "activating", 1)

LEMMA ProceedsKeeps ==
  ASSUME PublishAssumption, TypeOK, NEW a \in Attempt, KnownIsReal(a), KnowsAll(a), CampaignPaused,
         tries > 0, try[a].verdict # "succeeded", NEW m \in 1..4, KnowsTo(a, m - 1),
         Proceeds(a, Missing(a, m)), UNCHANGED <<tries, metaVars>>
  PROVE  /\ AttemptInv(a)' /\ try' \in [Attempt -> Tries]
         /\ \A b \in Attempt \ {a} : try'[b] = try[b]
         /\ try'[a].at # "none"
<1> DEFINE n == Missing(a, m)
<1>1. /\ n \in 1..5 /\ KnowsTo(a, n - 1)
      /\ n = 5 \/ Known(a, CreateOrder[n]) = 0
  BY MissingIs DEF KnowsTo
<1> HIDE DEF n
<1>2. CASE n < 5 /\ GoTo(a, "creating", n)
  <2>1. To(a, "creating", n, try[a].seen, try[a].known, try[a].verdict)
    BY <1>1, <1>2, Shapes DEF At
  <2>2. KnownIsReal(a)' /\ KnowsAll(a)' /\ CampaignPaused'
    BY <2>1 DEF KnownIsReal, KnowsAll, CampaignPaused, Known, Has, To, metaVars
  <2>3. Creating(a)'
    BY <1>1, <1>2, <2>1, <2>2 DEF Creating, KnowsTo, Known, Creates, To
  <2>4. AttemptInv(a)'
    BY <2>1, <2>2, <2>3
       DEF AttemptInv, Beginning, Reconciling, Activating, Paused, Ending, To
  <2> QED BY <2>1, <2>4 DEF To
<1>3. CASE n = 5
  <2>1. KnowsEach(a)
    BY <1>1, <1>3, Orders DEF KnowsTo, KnowsEach, Kind
  <2>2. CASE Ends(a, "succeeded")
    <3>1. To(a, "finishing", try[a].next, try[a].seen, try[a].known, "succeeded")
      BY <2>2, Shapes
    <3>2. KnownIsReal(a)' /\ KnowsEach(a)'
      BY <2>1, <3>1 DEF KnownIsReal, KnowsEach, Known, Has, To, metaVars
    <3>3. AttemptInv(a)'
      BY <3>1, <3>2, EndKeeps DEF To
    <3> QED BY <3>1, <3>3 DEF To
  <2>3. CASE GoTo(a, "activating", 1)
    <3>1. To(a, "activating", 1, try[a].seen, try[a].known, try[a].verdict)
      BY <2>3, Shapes DEF At
    <3>2. KnownIsReal(a)' /\ KnowsEach(a)'
      BY <2>1, <3>1 DEF KnownIsReal, KnowsEach, Known, Has, To, metaVars
    <3>3. AttemptInv(a)'
      BY <3>1, <3>2 DEF AttemptInv, Beginning, Reconciling, Creating, Activating, Delivers, Paused,
                        Ending, To
    <3> QED BY <3>1, <3>3 DEF To
  <2> QED BY <1>3, <2>2, <2>3 DEF Proceeds, n
<1> QED BY <1>1, <1>2, <1>3 DEF Proceeds, n

LEMMA UploadKeeps ==
  ASSUME PublishAssumption, Inv, NEW a \in Attempt, Upload(a)
  PROVE  Inv'
<1>1. TypeOK /\ AttemptInv(a) /\ try[a].at = "uploading"
  BY DEF Inv, Upload, Waits
<1>2. UNCHANGED <<queueVars, localVars, metaVars, Kept>>
  BY DEF Upload
<1>3. /\ KnownIsReal(a) /\ KnowsAll(a) /\ CampaignPaused /\ tries > 0
      /\ try[a].verdict # "succeeded" /\ KnowsTo(a, 0)
  BY <1>1 DEF AttemptInv, Creating, Paused, Beginning, Ending, KnowsTo
<1>4. CASE Proceeds(a, Missing(a, 1))
  <2>1. UNCHANGED <<tries, metaVars>>
    BY <1>2 DEF localVars
  <2>2. /\ AttemptInv(a)' /\ try' \in [Attempt -> Tries]
        /\ \A b \in Attempt \ {a} : try'[b] = try[b]
        /\ try'[a].at # "none"
    BY <1>1, <1>3, <1>4, <2>1, ProceedsKeeps
  <2> QED BY <1>1, <1>2, <2>2, Moves
<1>5. CASE \E verdict \in {"failed", "pending"} : Ends(a, verdict)
  BY <1>1, <1>2, <1>5, EndsEarly
<1> QED BY <1>4, <1>5 DEF Upload, Proceeds

LEMMA BreaksIs ==
  ASSUME PublishAssumption, TypeOK, NEW a \in Attempt, Breaks(a, try[a].known)
  PROVE  \E verdict \in {"failed", "pending"}, at \in {"pausing", "finishing"} :
           To(a, at, try[a].next, try[a].seen, try[a].known, verdict)
<1> DEFINE at == IF try[a].known["campaign"] # 0 /\ ~leavePaused THEN "pausing" ELSE "finishing"
           known == try[a].known
<1>1. known \in [Kind -> 0..MaxAttempts] /\ try[a] \in Tries
  BY Fields
<1>2. PICK verdict \in {"failed", "pending"} :
        try' = [try EXCEPT ![a].known = known, ![a].verdict = verdict, ![a].at = at]
  BY DEF Breaks
<1>3. at \in {"pausing", "finishing"} /\ at \in At /\ 1 \in 0..5
  BY DEF At
<1> HIDE DEF at, known
<1>4. try' = [try EXCEPT ![a] = [try[a] EXCEPT !.known = known, !.verdict = verdict, !.at = at]]
  BY <1>2, Fields
<1>5. verdict \in {"none", "succeeded", "failed", "pending"}
  OBVIOUS
<1>6. [try[a] EXCEPT !.known = known, !.verdict = verdict, !.at = at] \in Tries
  BY <1>1, <1>3, <1>5, Records, Zenon
<1>7. To(a, at, try[a].next, try[a].seen, known, verdict)
  BY <1>4, <1>6, Fields DEF To, Tries
<1> QED BY <1>3, <1>7 DEF known

LEMMA BreaksKeeps ==
  ASSUME PublishAssumption, TypeOK, NEW a \in Attempt, KnownIsReal(a), Breaks(a, try[a].known),
         remote \subseteq remote'
  PROVE  /\ AttemptInv(a)' /\ try' \in [Attempt -> Tries]
         /\ \A b \in Attempt \ {a} : try'[b] = try[b]
         /\ try'[a].at # "none"
<1>1. PICK verdict \in {"failed", "pending"}, at \in {"pausing", "finishing"} :
        To(a, at, try[a].next, try[a].seen, try[a].known, verdict)
  BY BreaksIs
<1>2. KnownIsReal(a)'
  BY <1>1 DEF KnownIsReal, Known, Has, To
<1>3. AttemptInv(a)'
  BY <1>1, <1>2, EndKeeps DEF To
<1> QED BY <1>1, <1>3 DEF To

(* A create adds the one object that is not there yet, under the object the attempt knows. *)
LEMMA CreatesObject ==
  ASSUME PublishAssumption, TypeOK, World, NEW a \in Attempt, KnownIsReal(a), KnowsAll(a),
         NEW n \in 1..4, KnowsTo(a, n - 1), NEW k, k = CreateOrder[n], Known(a, k) = 0,
         remote' = remote \union {[kind |-> k, by |-> a, parent |-> Parent(a, k)]},
         UNCHANGED <<row, active>>
  PROVE  /\ World' /\ remote' \subseteq Object
         /\ \A o \in remote : o.kind # k
         /\ CampaignPaused => CampaignPaused'
<1> DEFINE object == [kind |-> k, by |-> a, parent |-> Parent(a, k)]
<1>1. k \in Kind
  BY Orders DEF Kind
<1>2. \A o \in remote : o.kind # k
  BY DEF KnowsAll, TypeOK, Object, Attempt, PublishAssumption
<1>3. object \in Object
  <2>1. Parent(a, k) \in 0..MaxAttempts
    BY Fields DEF Parent, Known, Kind, PublishAssumption
  <2> QED BY <1>1, <2>1 DEF Object
<1>4. /\ n > 1 => Has("campaign", Known(a, "campaign"))
      /\ n > 2 => Has("adset", Known(a, "adset"))
      /\ n > 3 => Has("creative", Known(a, "creative"))
  BY Orders DEF KnowsTo, KnownIsReal, Kind
<1>5. /\ k = "adset" => n = 2 /\ Parent(a, k) = Known(a, "campaign")
      /\ k = "creative" => n = 3
      /\ k = "ad" => n = 4 /\ Parent(a, k) = Known(a, "adset")
  BY Orders DEF Parent
<1>6. <<k, a>> \notin active
  BY <1>2 DEF World, ActiveIsReal, Has
<1>7. remote' = remote \union {object} /\ object.kind = k /\ object.by = a
      /\ object.parent = Parent(a, k)
  OBVIOUS
<1> HIDE DEF object
<1>8. OneOfAKind'
  BY <1>2, <1>7 DEF World, OneOfAKind
<1>9. Hangs'
  <2> SUFFICES ASSUME NEW o \in remote'
               PROVE  /\ o.kind = "adset" =>
                           \E c \in remote' : c.kind = "campaign" /\ o.parent = c.by
                      /\ o.kind = "creative" => Any("adset")'
                      /\ o.kind = "ad" =>
                           Any("creative")' /\ \E s \in remote' : s.kind = "adset" /\ o.parent = s.by
    BY DEF Hangs
  <2>1. CASE o \in remote
    <3>1. /\ o.kind = "adset" => \E c \in remote : c.kind = "campaign" /\ o.parent = c.by
          /\ o.kind = "creative" => Any("adset")
          /\ o.kind = "ad" => Any("creative") /\ \E s \in remote : s.kind = "adset" /\ o.parent = s.by
      BY <2>1 DEF World, Hangs
    <3>2. \A i : Any(i) => Any(i)'
      BY <1>7 DEF Any
    <3> QED BY <1>7, <3>1, <3>2
  <2>2. CASE o = object
    BY <1>4, <1>5, <1>7, <2>2 DEF Has, Any
  <2> QED BY <1>7, <2>1, <2>2
<1>10. RowsAreReal' /\ ActiveIsReal'
  <2>1. \A i, by : Has(i, by) => Has(i, by)'
    BY <1>7 DEF Has
  <2> QED BY <2>1 DEF World, RowsAreReal, ActiveIsReal
<1>11. WholeWhenActive'
  BY <1>6, <1>7 DEF World, WholeWhenActive, IsActive
<1>12. CampaignPaused => CampaignPaused'
  BY <1>6, <1>7 DEF CampaignPaused
<1>13. remote' \subseteq Object
  BY <1>3, <1>7 DEF TypeOK
<1> QED BY <1>2, <1>8, <1>9, <1>10, <1>11, <1>12, <1>13 DEF World

LEMMA CreateKeeps ==
  ASSUME PublishAssumption, Inv, NEW a \in Attempt, Create(a)
  PROVE  Inv'
<1> DEFINE k == Creates(a)
           n == try[a].next
           object == [kind |-> k, by |-> a, parent |-> Parent(a, k)]
<1>1. TypeOK /\ AttemptInv(a) /\ World /\ try[a].at = "creating"
  BY DEF Inv, Create, Waits
<1>2. UNCHANGED <<queueVars, localVars, active, Kept>>
  BY DEF Create
<1>3. /\ n \in 1..4 /\ KnowsTo(a, n - 1) /\ Known(a, k) = 0 /\ k = CreateOrder[n] /\ k \in Kind
      /\ KnownIsReal(a) /\ KnowsAll(a) /\ CampaignPaused /\ tries > 0
      /\ try[a].verdict # "succeeded"
  BY <1>1, Orders DEF AttemptInv, Creating, Creates, Paused, Beginning, Ending, Kind
<1>4. CASE Breaks(a, try[a].known) /\ UNCHANGED remote
  <2>1. /\ AttemptInv(a)' /\ try' \in [Attempt -> Tries]
        /\ \A b \in Attempt \ {a} : try'[b] = try[b]
        /\ try'[a].at # "none"
    BY <1>1, <1>3, <1>4, BreaksKeeps
  <2> QED BY <1>1, <1>2, <1>4, <2>1, Moves DEF metaVars
<1>5. CASE /\ remote' = remote \union {object}
           /\ \/ try' = [try EXCEPT ![a].known[k] = a, ![a].at = "saving"]
              \/ Breaks(a, try[a].known)
  <2>1. World' /\ remote' \subseteq Object /\ CampaignPaused' /\ \A o \in remote : o.kind # k
    BY <1>1, <1>2, <1>3, <1>5, CreatesObject DEF localVars
  <2>2. DataOK' /\ tries' <= attempts[Result] /\ Untouched' /\ AllRecorded'
    BY <1>1, <1>2, <1>3, <2>1
       DEF Inv, TypeOK, DataOK, JobInv, Untouched, AllRecorded, localVars
  <2>3. CASE Breaks(a, try[a].known)
    <3>1. /\ AttemptInv(a)' /\ try' \in [Attempt -> Tries]
          /\ \A b \in Attempt \ {a} : try'[b] = try[b]
          /\ try'[a].at # "none"
      BY <1>1, <1>3, <1>5, <2>3, BreaksKeeps
    <3> QED BY <1>1, <1>2, <2>1, <2>2, <3>1, Frame
  <2>4. CASE try' = [try EXCEPT ![a].known[k] = a, ![a].at = "saving"]
    <3> DEFINE known == [try[a].known EXCEPT ![k] = a]
    <3> HIDE DEF k
    <3>1. To(a, "saving", n, try[a].seen, known, try[a].verdict)
      <4>1. try' = [try EXCEPT ![a] = [try[a] EXCEPT !.known = known, !.at = "saving"]]
        BY <1>1, <2>4, Fields
      <4>2. known \in [Kind -> 0..MaxAttempts]
        BY <1>1, <1>3, Fields DEF Attempt, PublishAssumption
      <4>3. try[a] \in Tries /\ "saving" \in At
        BY <1>1, Fields DEF At
      <4> HIDE DEF known
      <4>4. [try[a] EXCEPT !.known = known, !.at = "saving"] \in Tries
        BY <4>2, <4>3, RecordsKnown, Zenon
      <4> QED BY <1>1, <4>1, <4>4, Fields DEF To, Tries
    <3>2. a # 0 /\ \A i \in Kind : known[i] = IF i = k THEN a ELSE try[a].known[i]
      BY <1>1, Fields DEF Attempt, PublishAssumption
    <3> HIDE DEF known
    <3>3. \A o \in remote' : o \in remote \/ (o.kind = k /\ o.by = a)
      BY <1>5
    <3>4. /\ \E o \in remote' : o.kind = k /\ o.by = a
          /\ remote \subseteq remote'
      <4>1. object \in remote' /\ object.kind = k /\ object.by = a
        BY <1>5
      <4> HIDE DEF object
      <4> QED BY <1>5, <4>1
    <3>5. KnownIsReal(a)'
      <4>1. \A i \in Kind : i # k /\ known[i] # 0 =>
              \E o \in remote : o.kind = i /\ o.by = known[i]
        BY <1>3, <3>2 DEF KnownIsReal, Known, Has
      <4>2. \A i \in Kind : known[i] # 0 => \E o \in remote' : o.kind = i /\ o.by = known[i]
        BY <3>2, <3>4, <4>1
      <4>3. try'[a].known = known
        BY <3>1 DEF To
      <4> QED BY <4>2, <4>3 DEF KnownIsReal, Known, Has
    <3>6. KnowsAll(a)'
      BY <1>1, <1>3, <2>1, <3>1, <3>2, <3>3 DEF KnowsAll, Known, To, TypeOK, Object
    <3>7. KnowsTo(a, n)' /\ (Known(a, Creates(a)) = a)'
      <4>1. \A i \in 1..4 : CreateOrder[i] \in Kind
        BY Orders DEF Kind
      <4>2. \A i \in 1..n : i \in 1..(n - 1) \/ CreateOrder[i] = k
        BY <1>3
      <4>3. \A i \in 1..n : known[CreateOrder[i]] # 0
        BY <1>3, <3>2, <4>1, <4>2 DEF KnowsTo, Known
      <4> QED BY <1>3, <3>1, <3>2, <4>3 DEF KnowsTo, Known, Creates, To
    <3>8. AttemptInv(a)'
      BY <1>2, <1>3, <2>1, <3>1, <3>5, <3>6, <3>7
         DEF AttemptInv, Beginning, Reconciling, Creating, Activating, Paused, Ending, To, localVars
    <3> QED BY <1>1, <1>2, <2>1, <2>2, <3>1, <3>8, Frame DEF To
  <2> QED BY <1>5, <2>3, <2>4
<1> QED BY <1>4, <1>5 DEF Create

LEMMA SaveKeeps ==
  ASSUME PublishAssumption, Inv, NEW a \in Attempt, Save(a)
  PROVE  Inv'
<1> DEFINE k == Creates(a)
           m == try[a].next
           saved == row' = [row EXCEPT ![k] = a] /\ shown' = [shown EXCEPT ![k] = "PAUSED"]
<1>1. TypeOK /\ AttemptInv(a) /\ World /\ try[a].at = "saving"
  BY DEF Inv, Save, Waits
<1>2. UNCHANGED <<queueVars, result, tries, metaVars, Kept>>
  BY DEF Save
<1>3. /\ m \in 1..4 /\ KnowsTo(a, m - 1) /\ k \in Kind /\ Known(a, k) = a
      /\ a # 0 /\ a \in 0..MaxAttempts
      /\ KnownIsReal(a) /\ KnowsAll(a) /\ CampaignPaused /\ tries > 0
      /\ try[a].verdict # "succeeded"
  BY <1>1, Orders
    DEF AttemptInv, Creating, Creates, KnowsTo, Paused, Beginning, Ending, Kind, Attempt,
                      PublishAssumption
<1>4. /\ AttemptInv(a)' /\ try' \in [Attempt -> Tries]
      /\ \A b \in Attempt \ {a} : try'[b] = try[b]
      /\ try'[a].at # "none"
  <2>1. CASE Proceeds(a, Missing(a, m))
    BY <1>1, <1>2, <1>3, <2>1, ProceedsKeeps
  <2>2. CASE Breaks(a, try[a].known)
    BY <1>1, <1>2, <1>3, <2>2, BreaksKeeps DEF metaVars
  <2> QED BY <2>1, <2>2 DEF Save, Proceeds
<1>5. CASE saved
  <2> HIDE DEF k
  <2>1. /\ row' \in [Kind -> 0..MaxAttempts]
        /\ \A i \in Kind : row'[i] = IF i = k THEN a ELSE row[i]
    BY <1>1, <1>3, <1>5 DEF TypeOK
  <2>2. shown' \in [Kind -> {"none", "PAUSED", "ACTIVE", "UNKNOWN"}]
    BY <1>1, <1>5 DEF TypeOK
  <2>3. DataOK' /\ tries' <= attempts[Result] /\ Untouched'
    BY <1>1, <1>2, <2>1, <2>2 DEF Inv, TypeOK, DataOK, JobInv, Untouched, metaVars
  <2>4. AllRecorded'
    BY <1>2, <1>3, <2>1 DEF Inv, AllRecorded
  <2>5. World'
    <3>1. RowsAreReal'
      BY <1>1, <1>2, <1>3, <2>1 DEF World, RowsAreReal, KnownIsReal, Has, metaVars
    <3> QED BY <1>1, <1>2, <3>1, WorldStays DEF World, metaVars
  <2> QED BY <1>1, <1>2, <1>4, <2>3, <2>4, <2>5, Frame
<1>6. CASE UNCHANGED <<row, shown>>
  BY <1>1, <1>2, <1>4, <1>6, Moves DEF localVars
<1> QED BY <1>5, <1>6 DEF Save

(* Bottom-up: the campaign is activated over an ad set and an ad that deliver. *)
LEMMA ActivateKeeps ==
  ASSUME TypeOK, World, NEW a \in Attempt, KnownIsReal(a), KnowsEach(a), NEW n \in 1..3,
         Delivers(a, n - 1), NEW k, k = ActivateOrder[n], NEW ok \in BOOLEAN,
         Activate(k, Known(a, k), ok), UNCHANGED <<remote, row>>
  PROVE  /\ World' /\ active' \subseteq Kind \X Attempt /\ active \subseteq active'
         /\ ok => <<k, Known(a, k)>> \in active'
<1> DEFINE by == Known(a, k)
<1>1. /\ active \subseteq active' /\ active' \subseteq active \union {<<k, by>>}
      /\ ok => <<k, by>> \in active'
  BY DEF Activate
<1>2. k \in Kind /\ Has(k, by)
  BY Orders DEF Kind, KnownIsReal, KnowsEach
<1>3. by \in Attempt
  BY <1>2 DEF Has, TypeOK, Object
<1> HIDE DEF by
<1>4. active' \subseteq Kind \X Attempt
  BY <1>1, <1>2, <1>3 DEF TypeOK
<1>5. OneOfAKind' /\ Hangs' /\ RowsAreReal'
  BY WorldStays DEF World
<1>6. ActiveIsReal'
  BY <1>1, <1>2 DEF World, ActiveIsReal, Has
<1>7. WholeWhenActive'
  <2> SUFFICES ASSUME NEW c \in remote, c.kind = "campaign", IsActive(c)'
               PROVE  \E s, d \in remote :
                        /\ s.kind = "adset" /\ s.parent = c.by /\ IsActive(s)'
                        /\ d.kind = "ad" /\ d.parent = s.by /\ IsActive(d)'
    BY DEF WholeWhenActive, IsActive
  <2>1. \A o \in remote : IsActive(o) => IsActive(o)'
    BY <1>1 DEF IsActive
  <2>2. CASE IsActive(c)
    <3>1. PICK s \in remote, d \in remote :
            /\ s.kind = "adset" /\ s.parent = c.by /\ IsActive(s)
            /\ d.kind = "ad" /\ d.parent = s.by /\ IsActive(d)
      BY <2>2 DEF World, WholeWhenActive
    <3> QED BY <2>1, <3>1
  <2>3. CASE ~IsActive(c)
    <3>1. n = 3
      BY <1>1, <2>3, Orders DEF IsActive
    <3>2. /\ <<"ad", Known(a, "ad")>> \in active
          /\ <<"adset", Known(a, "adset")>> \in active
      BY <3>1 DEF Delivers
    <3>3. PICK s \in remote : s.kind = "adset" /\ s.by = Known(a, "adset")
      BY DEF KnownIsReal, KnowsEach, Has, Kind
    <3>4. PICK d \in remote : d.kind = "ad" /\ d.by = Known(a, "ad")
      BY DEF KnownIsReal, KnowsEach, Has, Kind
    <3>5. s.parent = c.by /\ d.parent = s.by
      BY <3>3, <3>4 DEF World, Hangs, OneOfAKind
    <3>6. IsActive(s) /\ IsActive(d)
      BY <3>2, <3>3, <3>4 DEF IsActive
    <3> QED BY <2>1, <3>3, <3>4, <3>5, <3>6
  <2> QED BY <2>2, <2>3
<1> QED BY <1>1, <1>4, <1>5, <1>6, <1>7 DEF World, by

LEMMA ActivateEntityKeeps ==
  ASSUME PublishAssumption, Inv, NEW a \in Attempt, ActivateEntity(a)
  PROVE  Inv'
<1> DEFINE k == Activates(a)
           n == try[a].next
<1>1. TypeOK /\ AttemptInv(a) /\ World /\ try[a].at = "activating"
  BY DEF Inv, ActivateEntity, Waits
<1>2. UNCHANGED <<queueVars, localVars, remote, Kept>>
  BY DEF ActivateEntity
<1>3. /\ n \in 1..3 /\ KnowsEach(a) /\ Delivers(a, n - 1) /\ KnownIsReal(a) /\ k = ActivateOrder[n]
      /\ try[a].verdict # "succeeded"
  BY <1>1 DEF AttemptInv, Activating, Activates, Ending
<1>4. PICK ok \in BOOLEAN :
        /\ Activate(k, Known(a, k), ok)
        /\ IF ok THEN Go(a, "recording") ELSE Breaks(a, try[a].known)
  BY DEF ActivateEntity
<1>5. /\ World' /\ active' \subseteq Kind \X Attempt /\ active \subseteq active'
      /\ ok => <<k, Known(a, k)>> \in active'
  BY <1>1, <1>2, <1>3, <1>4, ActivateKeeps DEF localVars
<1>6. DataOK' /\ tries' <= attempts[Result] /\ Untouched' /\ AllRecorded'
  BY <1>1, <1>2, <1>5 DEF Inv, TypeOK, DataOK, JobInv, Untouched, AllRecorded, localVars
<1>7. CASE ok
  <2>1. To(a, "recording", n, try[a].seen, try[a].known, try[a].verdict)
    BY <1>1, <1>4, <1>7, Shapes DEF At
  <2>2. KnownIsReal(a)' /\ KnowsEach(a)'
    BY <1>2, <1>3, <2>1 DEF KnownIsReal, KnowsEach, Known, Has, To
  <2>3. Delivers(a, n)'
    <3>1. /\ n >= 1 => <<"ad", Known(a, "ad")>> \in active'
          /\ n >= 2 => <<"adset", Known(a, "adset")>> \in active'
      BY <1>3, <1>5, <1>7, Orders DEF Delivers
    <3> QED BY <2>1, <3>1 DEF Delivers, Known, To
  <2>4. Activating(a)'
    BY <1>3, <2>1, <2>2, <2>3 DEF Activating, To
  <2>5. AttemptInv(a)'
    BY <1>3, <2>1, <2>2, <2>4
       DEF AttemptInv, Beginning, Reconciling, Creating, Paused, Ending, To
  <2> QED BY <1>1, <1>2, <1>5, <1>6, <2>1, <2>5, Frame DEF To
<1>8. CASE ~ok
  <2>1. /\ AttemptInv(a)' /\ try' \in [Attempt -> Tries]
        /\ \A b \in Attempt \ {a} : try'[b] = try[b]
        /\ try'[a].at # "none"
    BY <1>1, <1>2, <1>3, <1>4, <1>8, BreaksKeeps
  <2> QED BY <1>1, <1>2, <1>5, <1>6, <2>1, Frame
<1> QED BY <1>7, <1>8

LEMMA RecordKeeps ==
  ASSUME PublishAssumption, Inv, NEW a \in Attempt, Record(a)
  PROVE  Inv'
<1> DEFINE n == try[a].next
<1>1. TypeOK /\ AttemptInv(a) /\ World /\ try[a].at = "recording"
  BY DEF Inv, Record, Waits
<1>2. UNCHANGED <<queueVars, result, tries, row, metaVars, Kept>>
  BY DEF Record
<1>3. /\ n \in 1..3 /\ KnowsEach(a) /\ Delivers(a, n) /\ KnownIsReal(a)
      /\ try[a].verdict # "succeeded"
  BY <1>1 DEF AttemptInv, Activating, Ending
<1>4. shown' \in [Kind -> {"none", "PAUSED", "ACTIVE", "UNKNOWN"}]
  BY <1>1 DEF Record, TypeOK
<1>5. DataOK' /\ tries' <= attempts[Result] /\ Untouched' /\ AllRecorded' /\ World'
  BY <1>1, <1>2, <1>4, WorldStays
     DEF Inv, TypeOK, DataOK, JobInv, Untouched, AllRecorded, World, metaVars
<1>6. CASE n < 3 /\ GoTo(a, "activating", n + 1)
  <2>1. To(a, "activating", n + 1, try[a].seen, try[a].known, try[a].verdict)
    BY <1>1, <1>3, <1>6, Shapes DEF At
  <2>2. KnownIsReal(a)' /\ KnowsEach(a)'
    BY <1>2, <1>3, <2>1 DEF KnownIsReal, KnowsEach, Known, Has, To, metaVars
  <2>3. Activating(a)'
    BY <1>2, <1>3, <1>6, <2>1, <2>2 DEF Activating, Delivers, KnowsEach, Known, To, metaVars
  <2>4. AttemptInv(a)'
    BY <1>3, <2>1, <2>2, <2>3
       DEF AttemptInv, Beginning, Reconciling, Creating, Paused, Ending, To
  <2> QED BY <1>1, <1>2, <1>5, <2>1, <2>4, Frame DEF To
<1>7. CASE Ends(a, "succeeded")
  <2>1. To(a, "finishing", n, try[a].seen, try[a].known, "succeeded")
    BY <1>1, <1>7, Shapes
  <2>2. KnownIsReal(a)' /\ KnowsEach(a)'
    BY <1>2, <1>3, <2>1 DEF KnownIsReal, KnowsEach, Known, Has, To, metaVars
  <2>3. AttemptInv(a)'
    BY <2>1, <2>2, EndKeeps DEF To
  <2> QED BY <1>1, <1>2, <1>5, <2>1, <2>3, Frame DEF To
<1>8. CASE Breaks(a, try[a].known)
  <2>1. /\ AttemptInv(a)' /\ try' \in [Attempt -> Tries]
        /\ \A b \in Attempt \ {a} : try'[b] = try[b]
        /\ try'[a].at # "none"
    BY <1>1, <1>2, <1>3, <1>8, BreaksKeeps DEF metaVars
  <2> QED BY <1>1, <1>2, <1>5, <2>1, Frame
<1> QED BY <1>6, <1>7, <1>8 DEF Record

-----------------------------------------------------------------------------
(* The outcome. *)

LEMMA PauseAfterFailureKeeps ==
  ASSUME PublishAssumption, Inv, NEW a \in Attempt, PauseAfterFailure(a)
  PROVE  Inv'
<1>1. TypeOK /\ AttemptInv(a) /\ World /\ try[a].at = "pausing"
  BY DEF Inv, PauseAfterFailure, Waits
<1>2. UNCHANGED <<queueVars, localVars, remote, Kept>>
  BY DEF PauseAfterFailure
<1>3. PICK ok \in BOOLEAN :
        /\ Pause("campaign", Known(a, "campaign"), ok)
        /\ try' = [try EXCEPT ![a].at = "finishing", ![a].paused = ok,
                              ![a].verdict = IF ok THEN @ ELSE "pending"]
  BY DEF PauseAfterFailure
<1>4. World' /\ active' \subseteq active
  BY <1>1, <1>2, <1>3, PauseKeeps DEF localVars
<1>5. DataOK' /\ tries' <= attempts[Result] /\ Untouched' /\ AllRecorded'
  BY <1>1, <1>2, <1>4 DEF Inv, TypeOK, DataOK, JobInv, Untouched, AllRecorded, localVars
<1>6. PICK verdict \in {"failed", "pending"} :
        To(a, "finishing", try[a].next, try[a].seen, try[a].known, verdict)
  <2> DEFINE verdict == IF ok THEN try[a].verdict ELSE "pending"
  <2>1. verdict \in {"failed", "pending"}
    BY <1>1 DEF AttemptInv, Ending
  <2>2. try' = [try EXCEPT ![a] = [try[a] EXCEPT !.at = "finishing", !.paused = ok,
                                                 !.verdict = verdict]]
    BY <1>1, <1>3, Fields
  <2> HIDE DEF verdict
  <2>3. [try[a] EXCEPT !.at = "finishing", !.paused = ok, !.verdict = verdict] \in Tries
    BY <1>1, <2>1, Fields DEF Tries, At
  <2>4. To(a, "finishing", try[a].next, try[a].seen, try[a].known, verdict)
    BY <1>1, <2>2, <2>3, Fields DEF To, Tries
  <2> QED BY <2>1, <2>4
<1>7. AttemptInv(a)'
  <2>1. KnownIsReal(a)'
    BY <1>1, <1>2, <1>6 DEF AttemptInv, KnownIsReal, Known, Has, To
  <2> QED BY <1>6, <2>1, EndKeeps DEF To
<1> QED BY <1>1, <1>2, <1>4, <1>5, <1>6, <1>7, Frame DEF To

LEMMA PauseUndurableKeeps ==
  ASSUME PublishAssumption, Inv, NEW a \in Attempt, PauseUndurable(a)
  PROVE  Inv'
<1>1. TypeOK /\ World /\ try[a].at = "repausing"
  BY DEF Inv, PauseUndurable, Waits
<1>2. UNCHANGED <<queueVars, localVars, remote, Kept>>
  BY DEF PauseUndurable
<1>3. World' /\ active' \subseteq active
  BY <1>1, <1>2, PauseKeeps DEF PauseUndurable, localVars
<1>4. DataOK' /\ tries' <= attempts[Result] /\ Untouched' /\ AllRecorded'
  BY <1>1, <1>2, <1>3 DEF Inv, TypeOK, DataOK, JobInv, Untouched, AllRecorded, localVars
<1>5. To(a, "failing", try[a].next, try[a].seen, try[a].known, try[a].verdict)
  BY <1>1, Shapes DEF PauseUndurable, At
<1>6. AttemptInv(a)'
  BY <1>2, <1>5, FailKeeps DEF To
<1> QED BY <1>1, <1>2, <1>3, <1>4, <1>5, <1>6, Frame DEF To

(* What the transaction that ends the result leaves behind. *)
LEMMA DurableKeeps ==
  ASSUME PublishAssumption, Inv, NEW a \in Attempt, try[a].at = "finishing", Durable(a),
         UNCHANGED <<tries, metaVars, queueVars>>
  PROVE  /\ DataOK' /\ World' /\ Untouched' /\ AllRecorded' /\ tries' <= attempts[Result]
         /\ result' = try[a].verdict
<1>1. /\ TypeOK /\ World /\ KnownIsReal(a)
      /\ try[a].verdict \in {"succeeded", "failed", "pending"}
      /\ try[a].verdict = "succeeded" => KnowsEach(a)
  BY Fields DEF Inv, AttemptInv, Ending
<1>2. result' = try[a].verdict
  BY DEF Durable
<1>3. \A k \in Kind : row'[k] = IF row[k] = 0 /\ Known(a, k) # 0 THEN Known(a, k) ELSE row[k]
  BY DEF Durable, PersistObjects
<1>4. \A k \in Kind : Known(a, k) \in 0..MaxAttempts /\ row[k] \in 0..MaxAttempts
  BY <1>1, Fields DEF Known, TypeOK
<1>5. row' \in [Kind -> 0..MaxAttempts]
  <2>1. row' = [k \in Kind |-> row'[k]]
    BY DEF Durable, PersistObjects
  <2>2. \A k \in Kind : row'[k] \in 0..MaxAttempts
    BY <1>3, <1>4
  <2> QED BY <2>1, <2>2
<1>6. shown' \in [Kind -> {"none", "PAUSED", "ACTIVE", "UNKNOWN"}]
  BY <1>1 DEF Durable, PersistObjects, TypeOK
<1>7. DataOK' /\ tries' <= attempts[Result] /\ Untouched'
  BY <1>1, <1>2, <1>5, <1>6
     DEF Inv, TypeOK, DataOK, JobInv, Untouched, metaVars
<1>8. AllRecorded'
  BY <1>1, <1>2, <1>3 DEF AllRecorded, KnowsEach
<1>9. World'
  <2>1. RowsAreReal'
    BY <1>1, <1>3 DEF World, RowsAreReal, KnownIsReal, Has, metaVars
  <2> QED BY <1>1, <2>1, WorldStays DEF World, metaVars
<1> QED BY <1>2, <1>7, <1>8, <1>9

LEMMA FinishKeeps ==
  ASSUME PublishAssumption, Inv, NEW a \in Attempt, Finish(a)
  PROVE  Inv'
<1>1. TypeOK /\ AttemptInv(a) /\ try[a].at = "finishing"
  BY DEF Inv, Finish, Waits
<1>2. UNCHANGED <<queueVars, tries, metaVars, Kept>> /\ Durable(a)
  BY DEF Finish
<1>3. /\ DataOK' /\ World' /\ Untouched' /\ AllRecorded' /\ tries' <= attempts[Result]
      /\ result' = try[a].verdict
  BY <1>1, <1>2, DurableKeeps
<1>4. CASE Go(a, "failing")
  <2>1. To(a, "failing", try[a].next, try[a].seen, try[a].known, try[a].verdict)
    BY <1>1, <1>4, Shapes DEF At
  <2>2. AttemptInv(a)'
    BY <1>2, <2>1, FailKeeps DEF To, metaVars
  <2> QED BY <1>1, <1>2, <1>3, <2>1, <2>2, Frame DEF To
<1>5. CASE try[a].verdict # "pending" /\ Go(a, "completing")
  <2>1. To(a, "completing", try[a].next, try[a].seen, try[a].known, try[a].verdict)
    BY <1>1, <1>5, Shapes DEF At
  <2>2. try[a].verdict \in {"succeeded", "failed"}
    BY <1>1, <1>5, Fields DEF AttemptInv, Ending
  <2>3. KnownIsReal(a)' /\ Ending(a)'
    BY <1>1, <1>2, <1>3, <2>1, <2>2
       DEF AttemptInv, KnownIsReal, Ending, KnowsEach, Known, Has, To, metaVars
  <2>4. AttemptInv(a)'
    BY <2>1, <2>3 DEF AttemptInv, Beginning, Reconciling, Creating, Activating, Paused, To
  <2> QED BY <1>1, <1>2, <1>3, <2>1, <2>4, Frame DEF To
<1> QED BY <1>4, <1>5 DEF Finish

LEMMA FinishFailsKeeps ==
  ASSUME PublishAssumption, Inv, NEW a \in Attempt, FinishFails(a)
  PROVE  Inv'
<1>1. TypeOK /\ AttemptInv(a) /\ try[a].at = "finishing"
  BY DEF Inv, FinishFails, Waits
<1>2. UNCHANGED <<queueVars, tries, metaVars, Kept>>
  BY DEF FinishFails
<1>3. PICK at \in {"repausing", "failing"} :
        To(a, at, try[a].next, try[a].seen, try[a].known, try[a].verdict)
  BY <1>1, Shapes DEF FinishFails, At
<1>4. AttemptInv(a)'
  BY <1>2, <1>3, FailKeeps DEF To, metaVars
<1>5. CASE Durable(a)
  <2>1. DataOK' /\ World' /\ Untouched' /\ AllRecorded' /\ tries' <= attempts[Result]
    BY <1>1, <1>2, <1>5, DurableKeeps
  <2> QED BY <1>1, <1>2, <1>3, <1>4, <2>1, Frame DEF To
<1>6. CASE UNCHANGED <<result, row, shown>>
  BY <1>1, <1>2, <1>3, <1>4, <1>6, Moves DEF To, localVars
<1> QED BY <1>5, <1>6 DEF FinishFails

-----------------------------------------------------------------------------
(* The queue. *)

(* No attempt is left: the steps that start, bury, close or abandon one. *)
LEMMA IdleKeeps ==
  ASSUME PublishAssumption, Inv, try' \in [Attempt -> Tries], \A b \in Attempt : try'[b] = Blank,
         UNCHANGED <<tries, row, shown, metaVars, leavePaused>>, overlapped' \in BOOLEAN,
         result' \in {"pending", "running", "succeeded", "failed"},
         result' = "succeeded" => result = "succeeded",
         status' \in [{Result} -> {"pending", "running", "succeeded", "dead"}],
         attempts' \in [{Result} -> 0..MaxAttempts], attempts[Result] <= attempts'[Result],
         status'[Result] \in {"succeeded", "dead"} => result' \in {"succeeded", "failed"}
  PROVE  Inv'
<1>1. TypeOK'
  BY DEF Inv, TypeOK, Tries, metaVars
<1>2. Alone' /\ Untouched' /\ AllRecorded'
  BY DEF Inv, Alone, Untouched, AllRecorded, Blank, metaVars
<1>3. World'
  BY WorldStays DEF Inv, World, metaVars
<1>4. JobInv'
  <2>1. tries' <= attempts'[Result]
    BY DEF Inv, JobInv, TypeOK
  <2> QED BY <2>1 DEF JobInv, Blank
<1>5. \A b \in Attempt : AttemptInv(b)'
  BY BlankKeeps
<1> QED BY <1>1, <1>2, <1>3, <1>4, <1>5 DEF Inv

LEMMA BlankIsATry == PublishAssumption => Blank \in Tries
<1> SUFFICES ASSUME PublishAssumption PROVE Blank \in Tries
  OBVIOUS
<1>1. 0 \in 0..MaxAttempts
  BY DEF PublishAssumption
<1> QED BY <1>1 DEF Blank, Tries, At

LEMMA StartKeeps ==
  ASSUME PublishAssumption, Overlap = FALSE, Inv, Start
  PROVE  Inv'
<1>1. TypeOK /\ \A b \in Attempt : try[b] = Blank
  BY DEF Inv, Start, InFlight, Alone
<1>2. UNCHANGED <<localVars, metaVars, leavePaused>> /\ attempts[Result] < MaxAttempts
  BY DEF Start
<1>3. /\ status' = [j \in {Result} |-> "running"]
      /\ attempts' = [j \in {Result} |-> attempts[j] + 1]
  BY DEF Start, Queue!Claim
<1>4. overlapped' \in BOOLEAN
  BY DEF Start
<1>5. /\ status' \in [{Result} -> {"pending", "running", "succeeded", "dead"}]
      /\ attempts' \in [{Result} -> 0..MaxAttempts] /\ attempts'[Result] = attempts[Result] + 1
      /\ attempts[Result] \in 0..MaxAttempts /\ status'[Result] = "running"
  BY <1>1, <1>2, <1>3 DEF TypeOK, PublishAssumption
<1>6. CASE UNCHANGED try
  <2>1. try' \in [Attempt -> Tries]
    BY <1>1, <1>6 DEF TypeOK, Tries
  <2> QED BY <1>1, <1>2, <1>4, <1>5, <1>6, <2>1, IdleKeeps DEF TypeOK, localVars
<1>7. CASE try' = [try EXCEPT ![attempts[Result] + 1].at = "loading"]
  <2> DEFINE a == attempts[Result] + 1
  <2>1. a \in Attempt
    BY <1>2, <1>5 DEF Attempt, PublishAssumption
  <2>2. /\ try' \in [Attempt -> Tries] /\ \A b \in Attempt \ {a} : try'[b] = Blank
        /\ try'[a] = [Blank EXCEPT !.at = "loading"]
    <3>1. [Blank EXCEPT !.at = "loading"] \in Tries
      <4>1. Blank \in Tries
        BY BlankIsATry
      <4> QED BY <4>1 DEF Tries, At
    <3>2. try' = [try EXCEPT ![a] = [Blank EXCEPT !.at = "loading"]] /\ try \in [Attempt -> Tries]
      BY <1>1, <1>7, <2>1 DEF TypeOK, Tries
    <3> QED BY <1>1, <2>1, <3>1, <3>2
  <2> HIDE DEF a
  <2>3. TypeOK'
    BY <1>1, <1>2, <1>4, <1>5, <2>2 DEF TypeOK, Tries, localVars, metaVars
  <2>4. try'[a].at = "loading" /\ try'[a].known = [k \in Kind |-> 0] /\ try'[a].verdict = "none"
        /\ try'[a].seen = FALSE
    BY <2>2 DEF Blank
  <2>5. Alone'
    BY <2>2, <2>4 DEF Alone, Blank
  <2>6. Untouched' /\ AllRecorded' /\ World'
    BY <1>2, WorldStays DEF Inv, Untouched, AllRecorded, World, localVars, metaVars
  <2>7. JobInv' /\ tries' < attempts'[Result]
    BY <1>1, <1>2, <1>5 DEF Inv, JobInv, TypeOK, localVars
  <2>8. \A b \in Attempt : (try'[b].at = "loading" /\ try'[b].known = [k \in Kind |-> 0]
                              /\ try'[b].verdict = "none") => AttemptInv(b)'
    BY <2>7
      DEF AttemptInv, KnownIsReal, Known, Beginning, Reconciling, Creating, Activating, Paused,
                Ending
  <2>9. \A b \in Attempt : AttemptInv(b)'
    BY <2>2, <2>4, <2>8, BlankKeeps
  <2> QED BY <2>3, <2>5, <2>6, <2>7, <2>9 DEF Inv
<1> QED BY <1>6, <1>7 DEF Start

LEMMA BuryKeeps ==
  ASSUME PublishAssumption, Overlap = FALSE, Inv, Bury
  PROVE  Inv'
<1>1. TypeOK /\ \A b \in Attempt : try'[b] = Blank
  BY DEF Inv, Bury, InFlight, Alone
<1>2. try' \in [Attempt -> Tries]
  BY <1>1 DEF Bury, TypeOK, Tries
<1>3. /\ status' = [j \in {Result} |-> "dead"] /\ attempts' = [j \in {Result} |-> attempts[j]]
      /\ UNCHANGED <<metaVars, leavePaused, overlapped>>
  BY DEF Bury, Queue!Claim, Kept
<1>4. /\ UNCHANGED <<tries, row, shown>>
      /\ result' \in {"failed", "succeeded"}
      /\ result' = "succeeded" => result = "succeeded"
  BY <1>1 DEF Bury, Finalize, TypeOK
<1>5. /\ status' \in [{Result} -> {"pending", "running", "succeeded", "dead"}]
      /\ attempts' \in [{Result} -> 0..MaxAttempts] /\ attempts'[Result] = attempts[Result]
      /\ attempts[Result] \in 0..MaxAttempts
  BY <1>1, <1>3 DEF TypeOK
<1> QED BY <1>1, <1>2, <1>3, <1>4, <1>5, IdleKeeps DEF TypeOK

(* The attempt at work is over, so none is left. *)
LEMMA NoneLeft ==
  ASSUME PublishAssumption, Inv, NEW a \in Attempt, try[a].at # "none",
         try' = [try EXCEPT ![a] = Blank]
  PROVE  try' \in [Attempt -> Tries] /\ \A b \in Attempt : try'[b] = Blank
<1>1. try \in [Attempt -> Tries] /\ \A b \in Attempt \ {a} : try[b] = Blank
  BY DEF Inv, TypeOK, Tries, Alone
<1> QED BY <1>1, BlankIsATry

LEMMA CloseKeeps ==
  ASSUME PublishAssumption, Inv, NEW a \in Attempt, Close(a)
  PROVE  Inv'
<1>1. /\ TypeOK /\ AttemptInv(a) /\ try' = [try EXCEPT ![a] = Blank]
      /\ UNCHANGED <<metaVars, leavePaused, overlapped>>
  BY DEF Inv, Close, Kept
<1>2. try[a].at \in {"completing", "failing"}
  BY DEF Close, Waits
<1>3. /\ UNCHANGED attempts
      /\ status' \in [{Result} -> {"pending", "running", "succeeded", "dead"}]
  BY <1>1 DEF Close, Queue!Close, TypeOK
<1>4. /\ UNCHANGED <<tries, row, shown>>
      /\ result' \in {"pending", "running", "succeeded", "failed"}
      /\ result' = "succeeded" => result = "succeeded"
      /\ status'[Result] \in {"succeeded", "dead"} => result' \in {"succeeded", "failed"}
  <2>1. CASE Waits(a, "completing") /\ status'[Result] = "succeeded" /\ UNCHANGED localVars
    BY <1>1, <2>1 DEF AttemptInv, Ending, Waits, TypeOK, localVars
  <2>2. CASE Waits(a, "failing") /\ status'[Result] = "pending" /\ UNCHANGED localVars
    BY <1>1, <2>2 DEF TypeOK, localVars
  <2>3. CASE Waits(a, "failing") /\ status'[Result] = "dead" /\ Finalize
    BY <1>1, <2>3 DEF Finalize, TypeOK
  <2> QED BY <2>1, <2>2, <2>3 DEF Close
<1>5. try' \in [Attempt -> Tries] /\ \A b \in Attempt : try'[b] = Blank
  BY <1>1, <1>2, NoneLeft
<1>6. attempts' \in [{Result} -> 0..MaxAttempts] /\ attempts[Result] <= attempts'[Result]
  BY <1>1, <1>3 DEF TypeOK
<1> QED BY <1>1, <1>3, <1>4, <1>5, <1>6, IdleKeeps DEF TypeOK

LEMMA AbandonKeeps ==
  ASSUME PublishAssumption, Inv, NEW a \in Attempt, Abandon(a)
  PROVE  Inv'
<1>1. /\ TypeOK /\ try' = [try EXCEPT ![a] = Blank]
      /\ UNCHANGED <<localVars, metaVars, leavePaused, overlapped>>
  BY DEF Inv, Abandon, Kept
<1>2. try[a].at # "none" /\ UNCHANGED <<status, attempts>>
  BY DEF Abandon, Queue!Abandon, InFlight
<1>3. try' \in [Attempt -> Tries] /\ \A b \in Attempt : try'[b] = Blank
  BY <1>1, <1>2, NoneLeft
<1>4. status[Result] \in {"succeeded", "dead"} => result \in {"succeeded", "failed"}
  BY DEF Inv, JobInv
<1>5. attempts \in [{Result} -> 0..MaxAttempts] /\ attempts[Result] <= attempts'[Result]
  BY <1>1, <1>2 DEF TypeOK
<1> QED BY <1>1, <1>2, <1>3, <1>4, <1>5, IdleKeeps DEF TypeOK, localVars

-----------------------------------------------------------------------------
LEMMA InitInv == PublishAssumption /\ Init => Inv
<1> SUFFICES ASSUME PublishAssumption, Init PROVE Inv
  OBVIOUS
<1>1. try \in [Attempt -> Tries] /\ \A a \in Attempt : try[a] = Blank
  BY BlankIsATry DEF Init
<1>2. TypeOK
  <2>1. /\ status \in [{Result} -> {"pending", "running", "succeeded", "dead"}]
        /\ attempts \in [{Result} -> 0..MaxAttempts] /\ tries \in 0..MaxAttempts
        /\ row \in [Kind -> 0..MaxAttempts]
        /\ shown \in [Kind -> {"none", "PAUSED", "ACTIVE", "UNKNOWN"}]
    BY DEF Init, PublishAssumption
  <2>2. result = "pending" /\ remote = {} /\ active = {} /\ leavePaused \in BOOLEAN
        /\ overlapped = FALSE
    BY DEF Init
  <2> QED BY <1>1, <2>1, <2>2 DEF TypeOK, Tries
<1>3. Alone /\ Untouched /\ AllRecorded /\ JobInv
  BY <1>1 DEF Init, Alone, Untouched, AllRecorded, JobInv, Blank
<1>4. World
  BY DEF Init, World, OneOfAKind, Hangs, RowsAreReal, ActiveIsReal, WholeWhenActive
<1>5. \A a \in Attempt : AttemptInv(a)
  BY <1>1 DEF Blank, AttemptInv, KnownIsReal, Known, Beginning, Reconciling, Creating, Activating,
              Paused, Ending, Kind
<1> QED BY <1>2, <1>3, <1>4, <1>5 DEF Inv

LEMMA NextInv == PublishAssumption /\ Overlap = FALSE /\ Inv /\ [Next]_vars => Inv'
<1> SUFFICES ASSUME PublishAssumption, Overlap = FALSE, Inv, [Next]_vars PROVE Inv'
  OBVIOUS
<1>1. CASE Start \/ Bury
  BY <1>1, StartKeeps, BuryKeeps
<1>2. ASSUME NEW a \in Attempt, Step(a) PROVE Inv'
  BY <1>2, LoadKeeps, MarkKeeps, ListKeeps, CalmKeeps, NoteKeeps, FindKeeps, AdoptKeeps,
     UploadKeeps, CreateKeeps, SaveKeeps, ActivateEntityKeeps, RecordKeeps,
     PauseAfterFailureKeeps, FinishKeeps, FinishFailsKeeps, PauseUndurableKeeps DEF Step
<1>3. ASSUME NEW a \in Attempt, Close(a) \/ Abandon(a) PROVE Inv'
  BY <1>3, CloseKeeps, AbandonKeeps
<1>4. CASE UNCHANGED vars
  <2>1. UNCHANGED <<queueVars, localVars, metaVars, Kept, try>>
    BY <1>4 DEF vars, queueVars, localVars, metaVars, Kept
  <2>2. TypeOK' /\ Alone' /\ Untouched' /\ AllRecorded' /\ JobInv'
    BY <2>1 DEF Inv, TypeOK, Alone, Untouched, AllRecorded, JobInv, queueVars, localVars, metaVars,
                Kept
  <2>3. World'
    BY <2>1, WorldStays DEF Inv, World, localVars, metaVars
  <2>4. \A a \in Attempt : AttemptInv(a)'
    <3> SUFFICES ASSUME NEW a \in Attempt PROVE AttemptInv(a)'
      OBVIOUS
    <3>1. AttemptInv(a)
      BY DEF Inv
    <3>2. try' = try /\ remote' = remote /\ active' = active /\ tries' = tries /\ result' = result
          /\ attempts' = attempts
      BY <2>1 DEF queueVars, localVars, metaVars
    <3>3. KnownIsReal(a)' /\ Beginning(a)' /\ Ending(a)'
      BY <3>1, <3>2 DEF AttemptInv, KnownIsReal, Known, Has, Beginning, Ending, KnowsEach
    <3>4. Reconciling(a)' /\ Paused(a)'
      BY <3>1, <3>2 DEF AttemptInv, Reconciling, KnowsTo, Known, Creates, Paused, CampaignPaused
    <3>5. Creating(a)' /\ Activating(a)'
      BY <3>1, <3>2 DEF AttemptInv, Creating, KnowsAll, KnowsTo, Known, Creates, Activating,
                        KnowsEach, Delivers
    <3> QED BY <3>3, <3>4, <3>5 DEF AttemptInv
  <2> QED BY <2>2, <2>3, <2>4 DEF Inv
<1> QED BY <1>1, <1>2, <1>3, <1>4 DEF Next

-----------------------------------------------------------------------------
(* In every reachable state the attempt at work knows the hierarchy at Meta: what it goes by    *)
(* exists, and once it creates, it knows all there is.  Overlap = FALSE is the lease's promise  *)
(* (job_repository.go, Claim), kept as long as an attempt ends before its lease.               *)
THEOREM Invariant == ASSUME Overlap = FALSE PROVE Spec => []Inv
<1>1. Init => Inv
  BY InitInv, PublishAssumption
<1>2. Inv /\ [Next]_vars => Inv'
  BY NextInv, PublishAssumption
<1> QED BY <1>1, <1>2, PTL DEF Spec

(* The variables keep their types, whatever the steps of attempts and queue (batches.go,        *)
(* publisher.go, batch_repository.go).                                                          *)
THEOREM TypeCorrect == ASSUME Overlap = FALSE PROVE Spec => []TypeOK
<1>1. Inv => TypeOK
  BY DEF Inv
<1> QED BY <1>1, Invariant, PTL

(* One account result has at most one campaign, ad set, creative and ad at Meta, after any      *)
(* number of crashed, failed and retried attempts (reconcilePublishRetry in batches.go).        *)
THEOREM PublishedOnce == ASSUME Overlap = FALSE PROVE Spec => []NoDuplicates
<1>1. Inv => NoDuplicates
  BY DEF Inv, World, OneOfAKind, NoDuplicates
<1> QED BY <1>1, Invariant, PTL

(* A campaign is ACTIVE only over an ad set and an ad of its own that are ACTIVE                 *)
(* (activate in publisher.go).                                                                  *)
THEOREM ActiveIsWhole == ASSUME Overlap = FALSE PROVE Spec => []WholeWhenActive
<1>1. Inv => WholeWhenActive
  BY DEF Inv, World
<1> QED BY <1>1, Invariant, PTL

(* An attempt creates only under a campaign that does not spend (safetyPauseCampaign at the      *)
(* start of a retry, batches.go).                                                               *)
THEOREM BuiltPaused == ASSUME Overlap = FALSE PROVE Spec => []WorksPaused
<1>1. Inv => WorksPaused
  <2> SUFFICES ASSUME Inv, NEW a \in Attempt, try[a].at \in {"uploading", "creating", "saving"}
               PROVE  \A o \in remote : o.kind = "campaign" => ~IsActive(o)
    BY DEF WorksPaused
  <2>1. CampaignPaused
    BY DEF Inv, AttemptInv, Paused
  <2> QED BY <2>1 DEF CampaignPaused, IsActive
<1> QED BY <1>1, Invariant, PTL

(* When attempts do not overlap, the rows of a successful result name the whole hierarchy, and  *)
(* each object hangs under the object in the row above (FinishAccountResult in                  *)
(* batch_repository.go).                                                                        *)
THEOREM SuccessWhole == ASSUME Overlap = FALSE PROVE Spec => []SuccessIsWhole
<1>1. Inv => SuccessIsWhole
  <2> SUFFICES ASSUME Inv, result = "succeeded"
               PROVE  \A k \in Kind : \E o \in remote :
                        /\ o.kind = k /\ o.by = row[k]
                        /\ k = "adset" => o.parent = row["campaign"]
                        /\ k = "ad"    => o.parent = row["adset"]
    BY DEF SuccessIsWhole
  <2>1. \A k \in Kind : Has(k, row[k])
    BY DEF Inv, AllRecorded, World, RowsAreReal
  <2>2. \A o \in remote : o.kind \in Kind => o.by = row[o.kind]
    BY <2>1 DEF Inv, World, OneOfAKind, Has
  <2>3. \A o \in remote : /\ o.kind = "adset" => o.parent = row["campaign"]
                          /\ o.kind = "ad" => o.parent = row["adset"]
    BY <2>2 DEF Inv, World, Hangs, Kind
  <2> QED BY <2>1, <2>3 DEF Has
<1> QED BY <1>1, Invariant, PTL

(* When attempts do not overlap, a publish job that is over has closed its result               *)
(* (finalizeDeadPublishAccountResult and FinishAccountResult).  MarkAccountRunning of an        *)
(* attempt that overlaps can reopen it.                                                         *)
THEOREM JobAndResult == ASSUME Overlap = FALSE PROVE Spec => []JobClosesResult
<1>1. Inv => JobClosesResult
  BY DEF Inv, JobInv, JobClosesResult, Queue!Terminal
<1> QED BY <1>1, Invariant, PTL
=============================================================================
