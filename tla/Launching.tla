----------------------------- MODULE Launching ------------------------------
(***************************************************************************)
(* What a launch rests on: calls to Meta, the batch and its guard, media   *)
(* uploads, the inventory the form is filled from, and the guard that      *)
(* watches what was launched.  They share no state that matters to their   *)
(* properties, so each is looked at by itself: a behaviour is one of the   *)
(* component that part names, and the others do not move.                  *)
(***************************************************************************)
EXTENDS Integers, FiniteSets

CONSTANTS
  Item, MaxRetries, Limit, MinLimit, MaxPages, MaxChanges,  \* of Client
  Request, Specification, Ladder, None,                     \* of Launch
  Job, MaxVideos,                                           \* of Media
  Account, Scoped, Instagram, PageAsset, No, Sync, Truth,   \* of Inventory
  MaxRungs, MaxSpend, MaxYield, MaxOps                      \* of Guards

VARIABLES
  part,
  listed, changes, blocked, pressed, call,
  batch, guards, request,
  kind, remote, row, job, returned,
  reach, usable, access, active, sync, faulty,
  guard, check, atMeta, local, inventory, observed, eval, oper, ops, failing

Client    == INSTANCE Client
Launch    == INSTANCE Launch
Media     == INSTANCE Media
Inventory == INSTANCE Inventory
Guards    == INSTANCE Guards WITH remote <- atMeta, faulty <- failing

ASSUME LaunchingAssumption ==
  /\ Client!ClientAssumption /\ Launch!LaunchAssumption
  /\ Media!MediaAssumption /\ Inventory!InventoryAssumption /\ Guards!GuardsAssumption

clientVars    == <<listed, changes, blocked, pressed, call>>
launchVars    == <<batch, guards, request>>
mediaVars     == <<kind, remote, row, job, returned>>
inventoryVars == <<reach, usable, access, active, sync, faulty>>
guardsVars    == <<guard, check, atMeta, local, inventory, observed, eval, oper, ops, failing>>
vars == <<part, clientVars, launchVars, mediaVars, inventoryVars, guardsVars>>

(* Of the components that do not move one initial state is enough. *)
Init ==
  /\ part \in {"client", "launch", "media", "inventory", "guards"}
  /\ Client!Init /\ Launch!Init /\ Media!Init /\ Inventory!Init /\ Guards!Init
  /\ part # "client" => listed = {}
  /\ part # "launch" =>
       \A r \in Request : /\ request[r].spec = (CHOOSE s \in Specification : TRUE)
                           /\ request[r].ladder = None /\ request[r].interval = "good"
  /\ part # "media" => kind = "image"
  /\ part # "inventory" => reach = CHOOSE t \in Truth : TRUE
  /\ part # "guards" => guard["batch"].ladder = CHOOSE l \in Guards!Checkpoints : TRUE

ClientMoves(A)    == part = "client" /\ A /\ UNCHANGED <<part, launchVars, mediaVars, inventoryVars, guardsVars>>
LaunchMoves(A)    == part = "launch" /\ A /\ UNCHANGED <<part, clientVars, mediaVars, inventoryVars, guardsVars>>
MediaMoves(A)     == part = "media" /\ A /\ UNCHANGED <<part, clientVars, launchVars, inventoryVars, guardsVars>>
InventoryMoves(A) == part = "inventory" /\ A /\ UNCHANGED <<part, clientVars, launchVars, mediaVars, guardsVars>>
GuardsMoves(A)    == part = "guards" /\ A /\ UNCHANGED <<part, clientVars, launchVars, mediaVars, inventoryVars>>

Next ==
  \/ ClientMoves(Client!Next)
  \/ LaunchMoves(Launch!Next)
  \/ MediaMoves(Media!Next)
  \/ InventoryMoves(Inventory!Next)
  \/ GuardsMoves(Guards!Next)

(* A call goes on by itself, to an answer or a deadline; syncs are queued again and again and *)
(* take their steps; failures and changes at Meta stop some time.  The evaluation's calls      *)
(* return, every active guard comes due again and again, sweep and collector go on.            *)
Fairness ==
  /\ WF_vars(ClientMoves(Client!CallStep))
  /\ \A y \in Sync : WF_vars(InventoryMoves(Inventory!SyncStep(y)))
  /\ WF_vars(InventoryMoves(Inventory!Calm))
  /\ WF_vars(GuardsMoves(Guards!Evaluate \/ Guards!GiveUp))
  /\ WF_vars(GuardsMoves(Guards!Sweep)) /\ WF_vars(GuardsMoves(Guards!Refresh))
  /\ \A g \in Guards!Guard :
       SF_vars(GuardsMoves(\E due \in SUBSET Guards!Guard : g \in due /\ Guards!ListDue(due)))

Spec == Init /\ [][Next]_vars /\ Fairness

-----------------------------------------------------------------------------
(* The types of the five components. *)
TypeOK == Client!TypeOK /\ Launch!TypeOK /\ Media!TypeOK /\ Inventory!TypeOK /\ Guards!TypeOK

(* Client.ListIsWhole and CreatedOnce: a list that is returned is whole and without doubles, *)
(* a create is sent once (CollectPagesAdaptive, PostJSONNoRetry).                             *)
CallKeepsItsWord == Client!ListIsWhole /\ Client!CreatedOnce

(* Launch.LaunchKeepsItsWord: an answer with a batch is the batch of the request, with its *)
(* guard on it unless it is a warning (Launch, CreateBatch).                                *)
LaunchKeepsItsWord == Launch!LaunchKeepsItsWord

(* Media.SameMedia: all jobs get one id, of media that are ready (CheckpointAccountUpload). *)
SameMedia == Media!SameMedia

(* Client.CallEnds: no call holds its worker for ever (MemoryGovernor.Wait, PostJSON). *)
CallEnds == Client!CallEnds

(* Inventory.InventoryConverges: syncs that overlap leave behind what Meta lists (Reconcile). *)
InventoryConverges == Inventory!InventoryConverges

(* Guards.LadderClimbs: a checkpoint is on record only when every earlier one has been passed *)
(* or overridden (evaluateGuardCampaign, SaveCheck).                                           *)
LadderClimbs == Guards!LadderClimbs

(* Guards.BreachStops: no campaign goes on spending in breach of its guard (PauseEntity, *)
(* CollectInsights, SyncAdEntities).                                                      *)
BreachStops == Guards!BreachStops

(* Guards.PassedIsFinal: a passed checkpoint is never judged again (Decided). *)
PassedIsFinal == Guards!PassedIsFinal
=============================================================================
