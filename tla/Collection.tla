----------------------------- MODULE Collection -----------------------------
(***************************************************************************)
(* What is collected when: the rotation over ad accounts, the recurring    *)
(* job of a connection, the insight history of an account and the          *)
(* campaigns shown for it.  They share no state that matters to their      *)
(* properties, so each is looked at by itself: a behaviour is one of the   *)
(* component that part names, and the others do not move.                  *)
(***************************************************************************)
EXTENDS Integers

CONSTANTS
  Part,                                        \* the components looked at
  Account, Replica, BatchSize, MaxChanges,     \* of Rotation
  Pass,                                        \* of Recurring
  FirstDay, LastDay, BackfillDays, ChunkDays, LookbackDays, RetentionDays,
  Slot, LateSlot,                              \* of History, with the line before
  Campaign, ChunkSize, Sweep, MaxRequests      \* of Campaigns

VARIABLES
  part,
  servable, changes, cursor, handed, slicing, lap, list, rotationFaulty,
  active, status, made, pass, recurringFaulty,
  today, known, row, target, inventory, covered, stored, discovery, poll, job, spent,
  historyFaulty,
  graph, entity, published, sweep, collector, measured, oper, requests, campaignsFaulty

Rotation  == INSTANCE Rotation WITH made <- handed, pass <- slicing, faulty <- rotationFaulty
Recurring == INSTANCE Recurring WITH faulty <- recurringFaulty
History   == INSTANCE History WITH faulty <- historyFaulty
Campaigns == INSTANCE Campaigns WITH
  MaxChanges <- MaxRequests, changes <- requests, faulty <- campaignsFaulty

ASSUME CollectionAssumption ==
  /\ Part \subseteq {"rotation", "recurring", "history", "campaigns"}
  /\ Rotation!RotationAssumption /\ History!HistoryAssumption /\ Campaigns!CampaignsAssumption

rotationVars == <<servable, changes, cursor, handed, slicing, lap, list, rotationFaulty>>
recurringVars == <<active, status, made, pass, recurringFaulty>>
historyVars == <<today, known, row, target, inventory, covered, stored, discovery, poll, job,
                 spent, historyFaulty>>
campaignsVars == <<graph, entity, published, sweep, collector, measured, oper, requests,
                   campaignsFaulty>>
vars == <<part, rotationVars, recurringVars, historyVars, campaignsVars>>

(* Of the components that do not move one initial state is enough. *)
Init ==
  /\ part \in Part
  /\ Rotation!Init /\ Recurring!Init /\ History!Init /\ Campaigns!Init
  /\ part # "rotation" => servable = {}
  /\ part # "recurring" => active = FALSE
  /\ part # "campaigns" => graph = Campaigns!Absent

RotationMoves(A)  == part = "rotation" /\ A /\ UNCHANGED <<part, recurringVars, historyVars, campaignsVars>>
RecurringMoves(A) == part = "recurring" /\ A /\ UNCHANGED <<part, rotationVars, historyVars, campaignsVars>>
HistoryMoves(A)   == part = "history" /\ A /\ UNCHANGED <<part, rotationVars, recurringVars, campaignsVars>>
CampaignsMoves(A) == part = "campaigns" /\ A /\ UNCHANGED <<part, rotationVars, recurringVars, historyVars>>

Next ==
  \/ RotationMoves(Rotation!Next)
  \/ RecurringMoves(Recurring!Next)
  \/ HistoryMoves(History!Next)
  \/ CampaignsMoves(Campaigns!Next)

(* Tickers fire, processes take their steps, workers claim and finish jobs, discovery,       *)
(* sweeps and collections are run every interval, time goes on; failures stop some time.       *)
RotationFairness ==
  /\ WF_rotationVars(part = "rotation" /\ Rotation!Calm)
  /\ WF_rotationVars(part = "rotation" /\ Rotation!NextInterval)
  /\ \A r \in Replica : WF_rotationVars(part = "rotation" /\ Rotation!PassStep(r))

RecurringFairness ==
  /\ WF_recurringVars(part = "recurring" /\ Recurring!Calm)
  /\ \A lane \in Recurring!Lane :
       WF_recurringVars(part = "recurring" /\ Recurring!NextInterval(lane))
  /\ WF_recurringVars(part = "recurring" /\ Recurring!Claim)
  /\ WF_recurringVars(part = "recurring" /\ Recurring!JobEnds)
  /\ \A p \in Pass : WF_recurringVars(part = "recurring" /\ Recurring!PassStep(p))

HistoryFairness ==
  /\ WF_historyVars(part = "history" /\ History!Calm)
  /\ WF_historyVars(part = "history" /\ History!BeginDiscovery)
  /\ WF_historyVars(part = "history" /\ History!DiscoveryStep)
  /\ WF_historyVars(part = "history" /\ History!Tick({"minute", "hour"}))
  /\ \A j \in Slot : WF_historyVars(part = "history" /\ History!BackfillStep(j))

CampaignsFairness ==
  /\ WF_campaignsVars(part = "campaigns" /\ Campaigns!Calm)
  /\ WF_campaignsVars(part = "campaigns" /\ Campaigns!CollectionStep)
  /\ WF_campaignsVars(part = "campaigns" /\ Campaigns!RequestStep)
  /\ \A w \in Sweep : WF_campaignsVars(part = "campaigns" /\ Campaigns!SweepStep(w))

Fairness == RotationFairness /\ RecurringFairness /\ HistoryFairness /\ CampaignsFairness

Spec == Init /\ [][Next]_vars /\ Fairness

-----------------------------------------------------------------------------
(* The types of the components (the columns and job states of their tables). *)
TypeOK == Rotation!TypeOK /\ Recurring!TypeOK /\ History!TypeOK /\ Campaigns!TypeOK

(* Rotation.DisjointSlices: two scheduler processes never hand out an account twice in one *)
(* round of the cursor (DueAdAccounts).                                                     *)
DisjointSlices == Rotation!DisjointSlices

(* History.CoveredIsStored: a day on record as fetched has its rows (CollectAccountInsights). *)
CoveredIsStored == History!CoveredIsStored

(* History.HistoryArrives: the whole backfill is fetched in the end, however often the chain *)
(* of chunks breaks (RunBackfillInsightsJob, enqueueInitialInsights).                         *)
HistoryArrives == History!HistoryArrives

(* Rotation.EveryoneServed, Recurring.ComesRound, Campaigns.EveryoneMeasured and             *)
(* WorkspaceFollows: every account on the list and every active connection gets its job       *)
(* again and again, every launched campaign its figures, and the workspace shows in the end    *)
(* what Meta lists (ScheduleAccountInsights, Enqueue, CollectInsights, SyncAdEntities).         *)
WorkComesRound ==
  /\ Rotation!EveryoneServed /\ Recurring!ComesRound
  /\ Campaigns!EveryoneMeasured /\ Campaigns!WorkspaceFollows
=============================================================================
