----------------------------- MODULE Campaigns -----------------------------
(***************************************************************************)
(* The campaigns of one ad account as the workspace knows them: the rows   *)
(* of those launched here (published_objects), the inventory of all        *)
(* (ad_entities), the sweeps that refresh it, the collection of insights   *)
(* that refreshes the status of launched ones, and the requests of an      *)
(* operator (SyncAdEntities of insights_daily.go, CollectInsights of       *)
(* insights.go, SetCampaignStatus and DeleteCampaign of guards.go,         *)
(* duplicate.go, all of internal/application).                             *)
(*                                                                         *)
(* Campaigns are numbered in the order of their creation.  Every one but   *)
(* the operator's writer reads Meta, or a table, and writes later what it  *)
(* has read.  Sweeps of an account overlap, since their keys differ; of    *)
(* the collections of a connection at most one is under way (Recurring).   *)
(* Ad sets and ads are swept and collected alike, in rounds of their own.  *)
(***************************************************************************)
EXTENDS Integers, FiniteSets

CONSTANTS
  Campaign,    \* campaigns that may come to exist, a set of numbers
  ChunkSize,   \* insightObjectChunkSize
  Sweep,       \* bound: sweeps under way at once
  MaxChanges   \* bound: requests of the operator and changes at Meta

CampaignsAssumption ==
  /\ Campaign \subseteq Nat \ {0} /\ IsFiniteSet(Campaign)
  /\ ChunkSize \in Nat \ {0} /\ MaxChanges \in Nat

VARIABLES
  graph,      \* the status of each campaign at Meta
  entity,     \* ad_entities: its effective status, and whether disappeared_at is NULL
  published,  \* published_objects: its effective status, "none" without a row
  sweep,      \* SyncAdEntities: what the audit has listed
  collector,  \* CollectInsights
  measured,   \* the launched campaigns with a snapshot of this collection
  oper,       \* the operator's request
  changes, faulty

vars == <<graph, entity, published, sweep, collector, measured, oper, changes, faulty>>

On     == {"ACTIVE", "PAUSED"}
Status == On \union {"DELETED", "none"}

Absent    == [c \in Campaign |-> "none"]
NoSweep   == [at |-> "idle", seen |-> Absent]
NoPass    == [at |-> "idle", rows |-> Absent, known |-> Absent, left |-> {}, got |-> "none"]
NoRequest == [at |-> "idle", what |-> "copy", own |-> FALSE, of |-> 0]

TypeOK ==
  /\ graph \in [Campaign -> Status] /\ published \in [Campaign -> Status]
  /\ entity \in [Campaign -> [status : Status, live : BOOLEAN]]
  /\ sweep \in [Sweep -> [at : {"idle", "storing", "pruning"}, seen : [Campaign -> Status]]]
  /\ collector.at \in {"idle", "refreshing", "storing", "measuring", "keeping"}
  /\ collector.rows \in [Campaign -> Status] /\ collector.known \in [Campaign -> Status]
  /\ collector.left \subseteq Campaign /\ collector.got \in Status
  /\ measured \subseteq Campaign
  /\ oper.at \in {"idle", "remote", "local"} /\ oper.what \in On \union {"DELETED", "copy"}
  /\ oper.own \in BOOLEAN /\ oper.of \in Campaign \union {0}
  /\ changes \in 0..MaxChanges /\ faulty \in BOOLEAN

(* Some campaigns were launched before anything is swept. *)
Init ==
  /\ graph \in [Campaign -> {"none", "ACTIVE"}]
  /\ \E launched \in SUBSET {c \in Campaign : graph[c] # "none"} :
       published = [c \in Campaign |-> IF c \in launched THEN "ACTIVE" ELSE "none"]
  /\ entity = [c \in Campaign |-> [status |-> "none", live |-> FALSE]]
  /\ sweep = [w \in Sweep |-> NoSweep]
  /\ collector = NoPass /\ measured = {} /\ oper = NoRequest
  /\ changes = 0 /\ faulty = TRUE

Rows   == {c \in Campaign : published[c] # "none"}
Listed == {c \in Campaign : graph[c] \in On}

-----------------------------------------------------------------------------
(* A sweep: AuditAdAccount lists what is not deleted, UpsertMany stores it, MarkDisappeared *)
(* hides the rest, unless the list is empty.                                                  *)
sweepOnly == <<graph, published, collector, measured, oper, changes, faulty>>

Audit(w) ==
  /\ sweep[w].at = "idle"
  /\ sweep' = [sweep EXCEPT ![w] =
       [at |-> "storing", seen |-> [c \in Campaign |-> IF c \in Listed THEN graph[c] ELSE "none"]]]
  /\ UNCHANGED <<sweepOnly, entity>>

Seen(w) == {c \in Campaign : sweep[w].seen[c] # "none"}

StoreEntities(w) ==
  /\ sweep[w].at = "storing"
  /\ entity' = [c \in Campaign |-> IF c \in Seen(w) THEN [status |-> sweep[w].seen[c], live |-> TRUE]
                                   ELSE entity[c]]
  /\ sweep' = [sweep EXCEPT ![w] = IF Seen(w) = {} THEN NoSweep ELSE [@ EXCEPT !.at = "pruning"]]
  /\ UNCHANGED sweepOnly

MarkDisappeared(w) ==
  /\ sweep[w].at = "pruning"
  /\ entity' = [c \in Campaign |-> IF c \in Seen(w) THEN entity[c] ELSE [entity[c] EXCEPT !.live = FALSE]]
  /\ sweep' = [sweep EXCEPT ![w] = NoSweep]
  /\ UNCHANGED sweepOnly

SweepFails(w) ==
  /\ faulty /\ sweep[w].at # "idle"
  /\ sweep' = [sweep EXCEPT ![w] = NoSweep]
  /\ UNCHANGED <<sweepOnly, entity>>

-----------------------------------------------------------------------------
(* A collection: first the status of each launched object, in the order of creation, then   *)
(* the insights, a chunk of objects at a time.                                                *)
collectorOnly == <<graph, entity, sweep, oper, changes, faulty>>

(* EffectiveStatusesForConnection; without an answer every object is asked about. *)
Inventory == [c \in Campaign |-> IF entity[c].live THEN entity[c].status ELSE "none"]

BeginCollection ==
  /\ collector.at = "idle" /\ Rows # {}
  /\ \E known \in {Inventory} \union (IF faulty THEN {Absent} ELSE {}) :
       collector' = [NoPass EXCEPT !.at = "refreshing", !.rows = published, !.known = known, !.left = Rows]
  /\ measured' = {}
  /\ UNCHANGED <<collectorOnly, published>>

FirstLeft == CHOOSE c \in collector.left : \A b \in collector.left : c <= b

(* The objects of this pass from which the insights start. *)
Loaded == {c \in Campaign : collector.rows[c] # "none"}

Refreshed ==
  collector' = IF collector.left = {FirstLeft}
               THEN [collector EXCEPT !.at = "measuring", !.left = Loaded, !.got = "none"]
               ELSE [collector EXCEPT !.at = "refreshing", !.left = collector.left \ {FirstLeft}, !.got = "none"]

(* UpdatePublishedStatus finds no row once the campaign was deleted here. *)
Update(c, status) == published' = IF c \in Rows THEN [published EXCEPT ![c] = status] ELSE published

(* The inventory knows the object: its status is compared with the one loaded. *)
RefreshFromInventory ==
  LET c == FirstLeft IN
  /\ collector.at = "refreshing" /\ collector.known[c] # "none"
  /\ IF collector.known[c] # collector.rows[c] THEN Update(c, collector.known[c]) ELSE UNCHANGED published
  /\ Refreshed
  /\ UNCHANGED <<collectorOnly, measured>>

(* It does not: Meta is asked, and also tells of a deleted one. *)
AskStatus ==
  /\ collector.at = "refreshing" /\ collector.known[FirstLeft] = "none"
  /\ collector' = [collector EXCEPT !.at = "storing", !.got = graph[FirstLeft]]
  /\ UNCHANGED <<collectorOnly, published, measured>>

StoreStatus ==
  /\ collector.at = "storing"
  /\ Update(FirstLeft, collector.got) /\ Refreshed
  /\ UNCHANGED <<collectorOnly, measured>>

(* buildInsightCollectionBatches. *)
Chunk == {c \in collector.left : Cardinality({b \in collector.left : b <= c}) <= ChunkSize}

FetchChunk ==
  /\ collector.at = "measuring"
  /\ collector' = [collector EXCEPT !.at = "keeping"]
  /\ UNCHANGED <<collectorOnly, published, measured>>

Passed ==
  collector' = IF collector.left = Chunk THEN NoPass
               ELSE [collector EXCEPT !.at = "measuring", !.left = collector.left \ Chunk]

(* The snapshots of a chunk are one statement, and each refers to its row: if one of the    *)
(* campaigns was deleted meanwhile, those of the others are lost as well.                     *)
KeepChunk ==
  /\ collector.at = "keeping" /\ Passed
  /\ measured' = IF Chunk \subseteq Rows THEN measured \union Chunk ELSE measured
  /\ UNCHANGED <<collectorOnly, published>>

(* publishedStatusRefreshDue: an object refreshed less than an hour ago is passed over.  Passes *)
(* after the last change in which that happens are left out: a later one refreshes it.          *)
NotDue ==
  /\ faulty /\ collector.at = "refreshing" /\ Refreshed
  /\ UNCHANGED <<collectorOnly, published, measured>>

(* The refresh of an object or a chunk fails; or the token is refused, the worker dies, and   *)
(* the pass is over.                                                                           *)
CollectionFails ==
  /\ faulty
  /\ \/ collector.at = "storing" /\ Refreshed
     \/ collector.at \in {"measuring", "keeping"} /\ Passed
     \/ collector.at # "idle" /\ collector' = NoPass
  /\ UNCHANGED <<collectorOnly, published, measured>>

-----------------------------------------------------------------------------
(* The operator: a request writes Meta and then, if that went well, the row of a launched    *)
(* campaign or the inventory.  A deletion writes it in any case.                               *)
operOnly == <<sweep, collector, measured, faulty>>

(* resolveCampaign; bound: no copy when no number is left for it. *)
Request(c, what) ==
  /\ oper.at = "idle" /\ changes < MaxChanges /\ changes' = changes + 1
  /\ c \in Rows \/ entity[c].status # "none"
  /\ what = "copy" => \E n \in Campaign : graph[n] = "none"
  /\ oper' = [at |-> "remote", what |-> what, own |-> c \in Rows, of |-> c]
  /\ UNCHANGED <<operOnly, graph, entity, published>>

WriteRemote ==
  /\ oper.at = "remote" /\ oper.what # "copy"
  /\ \/ graph[oper.of] \in On /\ graph' = [graph EXCEPT ![oper.of] = oper.what]
        /\ oper' = [oper EXCEPT !.at = "local"]
     \/ \* refused, or not answered, carried out or not
        /\ graph' \in {graph} \union (IF graph[oper.of] \in On
                                      THEN {[graph EXCEPT ![oper.of] = oper.what]} ELSE {})
        /\ graph[oper.of] \notin On \/ faulty
        /\ oper' = IF oper.what = "DELETED" THEN [oper EXCEPT !.at = "local"] ELSE NoRequest
  /\ UNCHANGED <<operOnly, entity, published, changes>>

(* CopyCampaign is sent again after a lost answer, and then makes a second copy. *)
Copy ==
  /\ oper.at = "remote" /\ oper.what = "copy"
  /\ \E made \in SUBSET {n \in Campaign : graph[n] = "none"} :
       /\ Cardinality(made) = 1 \/ faulty
       /\ graph' = [n \in Campaign |-> IF n \in made THEN "PAUSED" ELSE graph[n]]
  /\ oper' = NoRequest
  /\ UNCHANGED <<operOnly, entity, published, changes>>

WriteLocal ==
  LET c == oper.of IN
  /\ oper.at = "local" /\ oper.what # "DELETED"
  /\ IF oper.own THEN Update(c, oper.what) /\ UNCHANGED entity
     ELSE entity' = [entity EXCEPT ![c].status = oper.what] /\ UNCHANGED published
  /\ oper' = NoRequest
  /\ UNCHANGED <<operOnly, graph, changes>>

(* A launched campaign loses its row, with its guards and checks, and not the inventory's. *)
DeleteLocal ==
  LET c == oper.of IN
  /\ oper.at = "local" /\ oper.what = "DELETED"
  /\ IF oper.own THEN published' = [published EXCEPT ![c] = "none"] /\ UNCHANGED entity
     ELSE entity' = [entity EXCEPT ![c].status = "DELETED"] /\ UNCHANGED published
  /\ oper' = NoRequest
  /\ UNCHANGED <<operOnly, graph, changes>>

RequestFails ==
  /\ faulty /\ oper.at # "idle" /\ oper' = NoRequest
  /\ UNCHANGED <<operOnly, graph, entity, published, changes>>

-----------------------------------------------------------------------------
(* Campaigns are created, changed and deleted by others. *)
MetaChanges ==
  /\ changes < MaxChanges /\ changes' = changes + 1
  /\ \E c \in Campaign, status \in On \union {"DELETED"} :
       /\ graph[c] # "DELETED" /\ (status = "DELETED" => graph[c] # "none")
       /\ graph' = [graph EXCEPT ![c] = status]
  /\ UNCHANGED <<operOnly, oper, entity, published>>

Calm ==
  /\ faulty /\ faulty' = FALSE
  /\ UNCHANGED <<graph, entity, published, sweep, collector, measured, oper, changes>>

SweepStep(w)   == Audit(w) \/ StoreEntities(w) \/ MarkDisappeared(w)
CollectionStep ==
  BeginCollection \/ RefreshFromInventory \/ AskStatus \/ StoreStatus \/ FetchChunk \/ KeepChunk
RequestStep    == WriteRemote \/ Copy \/ WriteLocal \/ DeleteLocal

Next ==
  \/ \E w \in Sweep : SweepStep(w) \/ SweepFails(w)
  \/ CollectionStep \/ NotDue \/ CollectionFails
  \/ \E c \in Campaign, what \in On \union {"DELETED", "copy"} : Request(c, what)
  \/ RequestStep \/ RequestFails \/ MetaChanges \/ Calm

Spec == Init /\ [][Next]_vars

-----------------------------------------------------------------------------
(* campaignViews: the status shown, the inventory's if it has a row, even one that disappeared. *)
Shown(c) == IF entity[c].status # "none" THEN entity[c].status ELSE published[c]

(* Whatever sweeps and collections with old lists write over the requests  *)
(* of the operator and each other, in the end the workspace shows every    *)
(* campaign Meta lists with its status, and no other as live, and a        *)
(* launched one has the status it has at Meta, deleted included            *)
(* (SyncAdEntities, CollectInsights).  Only while Meta lists something: an *)
(* empty list hides nothing.                                               *)
WorkspaceFollows ==
  <>[](~faulty /\ Listed # {})
    => <>[](/\ {c \in Campaign : entity[c].live} = Listed
            /\ \A c \in Listed : Shown(c) = graph[c]
            /\ \A c \in Rows : published[c] = graph[c])

(* A launched campaign that stays in the workspace gets new figures again  *)
(* and again (CollectInsights), although others of its chunk are deleted   *)
(* while the figures are under way.                                        *)
EveryoneMeasured ==
  \A c \in Campaign : <>[](c \in Rows) => []<>(c \in measured)
=============================================================================
