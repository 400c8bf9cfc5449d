-------------------------- MODULE CollectionProofs --------------------------
(***************************************************************************)
(* Proofs about what is collected when.                                    *)
(*                                                                         *)
(* History: a day on record as fetched has its rows, for any lengths of    *)
(* backfill, chunks, look-back and retention, and any number of jobs.      *)
(* CoveredIsStored is not inductive: whoever is about to mark days must    *)
(* still have their rows when it comes to that, although the retention     *)
(* sweep runs meanwhile and days go by.                                    *)
(*                                                                         *)
(* Rotation: disjoint slices, for any accounts, scheduler processes and    *)
(* slice size.  What makes it so is that the cursor never stops past the   *)
(* end of the list it was moved on, and that it stands behind every        *)
(* account of that list that was handed out.  That a pass never takes an   *)
(* empty slice is part of the types.                                       *)
(*                                                                         *)
(* Recurring and Campaigns: their types, for any number of passes, of      *)
(* campaigns and of sweeps.  What they promise is liveness.                *)
(*                                                                         *)
(* The invariant of the composition is the conjunction of the four, since  *)
(* a step moves one component and leaves the others alone.                 *)
(***************************************************************************)
EXTENDS Collection, FiniteSetTheorems, WellFoundedInduction, TLAPS

-----------------------------------------------------------------------------
(* The history of an account. *)
Jobs == [at : {"free", "pending", "marking", "chaining"},
         key : History!Key \union {"past"}, days : SUBSET History!Day]

(* The days whose rows are there, or were until the retention sweep took them. *)
Kept == stored \union History!Swept

(* What a collection or a chunk is about to mark. *)
ToMarkIsKept == poll \subseteq Kept /\ \A j \in Slot : job[j].days \subseteq Kept

HistoryInv == History!TypeOK /\ FirstDay <= today /\ History!CoveredIsStored /\ ToMarkIsKept

LEMMA NoJobIsJob == History!NoJob \in Jobs /\ History!NoJob.days = {}
  BY DEF History!NoJob, Jobs, History!Key

LEMMA PendingIsJob ==
  \A k \in {"seed", "hour", "minute"} : History!Pending(k) \in Jobs /\ History!Pending(k).days = {}
  BY DEF History!Pending, Jobs, History!Key

LEMMA HistoryInitHolds == History!HistoryAssumption /\ History!Init => HistoryInv
<1> SUFFICES ASSUME History!HistoryAssumption, History!Init PROVE HistoryInv
  OBVIOUS
<1>1. today \in History!Day /\ FirstDay <= today
  BY DEF History!HistoryAssumption, History!Init, History!Day
<1>2. job \in [Slot -> Jobs] /\ \A j \in Slot : job[j].days = {}
  BY NoJobIsJob DEF History!Init
<1>3. History!TypeOK
  BY <1>1, <1>2 DEF History!Init, History!TypeOK, Jobs
<1>4. History!CoveredIsStored /\ ToMarkIsKept
  BY <1>2 DEF History!Init, History!CoveredIsStored, ToMarkIsKept
<1> QED BY <1>1, <1>3, <1>4 DEF HistoryInv

(* Nothing but rows is kept, and what is swept was kept already. *)
LEMMA KeptGrows ==
  ASSUME History!HistoryAssumption, HistoryInv, today' \in History!Day, today <= today', stored \subseteq stored'
  PROVE  Kept \subseteq Kept'
<1>1. today \in Int /\ today' \in Int /\ RetentionDays \in Int
  BY DEF History!HistoryAssumption, HistoryInv, History!TypeOK, History!Day
<1>2. \A a, b, c, d \in Int : a <= b /\ d <= a - c => d <= b - c
  OBVIOUS
<1>3. History!Swept \subseteq History!Swept'
  BY <1>1, <1>2 DEF History!Swept, History!Day
<1> QED BY <1>3 DEF Kept

LEMMA FreeIsSlot == History!HistoryAssumption => History!Free \subseteq Slot
  BY DEF History!HistoryAssumption, History!Free, History!Open

(* The queue's part of an action: jobs come and go without days to mark. *)
LEMMA EnqueueKeeps ==
  ASSUME History!HistoryAssumption, HistoryInv, NEW k \in History!Key, History!EnqueueBackfill(k)
  PROVE  job' \in [Slot -> Jobs] /\ \A j \in Slot : job'[j].days \subseteq job[j].days
<1>1. CASE UNCHANGED job
  BY <1>1 DEF HistoryInv, History!TypeOK, Jobs
<1>2. ASSUME NEW j \in Slot, job' = [job EXCEPT ![j] = History!Pending(k)]
      PROVE  job' \in [Slot -> Jobs] /\ \A i \in Slot : job'[i].days \subseteq job[i].days
  <2>1. History!Pending(k) \in Jobs /\ History!Pending(k).days = {}
    BY DEF History!Pending, Jobs
  <2> QED BY <1>2, <2>1 DEF HistoryInv, History!TypeOK, Jobs
<1> QED BY <1>1, <1>2, FreeIsSlot DEF History!EnqueueBackfill

(* Jobs move, and none gets more days to mark. *)
LEMMA JobsMove ==
  ASSUME History!HistoryAssumption, HistoryInv, job' \in [Slot -> Jobs],
         \A j \in Slot : job'[j].days \subseteq job[j].days,
         spent' \subseteq History!Key, discovery' \in {"idle", "seeding", "queueing"},
         known' \in BOOLEAN, row' \in BOOLEAN, inventory' \in BOOLEAN,
         target' \subseteq History!Day, target' # {} => row',
         UNCHANGED <<today, covered, stored, poll, historyFaulty>>
  PROVE  HistoryInv'
<1>1. History!TypeOK'
  BY DEF HistoryInv, History!TypeOK, Jobs, History!Day
<1>2. History!CoveredIsStored' /\ ToMarkIsKept'
  BY DEF HistoryInv, History!CoveredIsStored, ToMarkIsKept, Kept, History!Swept
<1> QED BY <1>1, <1>2 DEF HistoryInv

(* Ensure, with a day or with none. *)
LEMMA EnsureKeeps ==
  ASSUME History!HistoryAssumption, HistoryInv, NEW day \in SUBSET History!Day, History!Ensure(day)
  PROVE  row' = TRUE /\ target' \subseteq History!Day
  BY DEF History!Ensure, HistoryInv, History!TypeOK

(* seedAccountTracking and the enqueues of discovery. *)
LEMMA DiscoveryKeeps ==
  ASSUME History!HistoryAssumption, HistoryInv,
         History!BeginDiscovery \/ History!SeedTracking \/ History!EnqueueInitial \/ History!DiscoveryFails
  PROVE  HistoryInv'
<1>0. job \in [Slot -> Jobs]
  BY DEF HistoryInv, History!TypeOK, Jobs
<1>1. CASE History!BeginDiscovery
  BY <1>0, <1>1, JobsMove DEF History!BeginDiscovery, HistoryInv, History!TypeOK
<1>2. CASE History!SeedTracking
  <2>1. {today - BackfillDays} \in SUBSET History!Day
    BY DEF History!HistoryAssumption, HistoryInv, History!TypeOK, History!Day
  <2>2. row' = TRUE /\ target' \subseteq History!Day
    BY <1>2, <2>1, EnsureKeeps DEF History!SeedTracking
  <2>3. job' \in [Slot -> Jobs] /\ \A j \in Slot : job'[j].days \subseteq job[j].days
    BY <1>0, <1>2, EnqueueKeeps DEF History!SeedTracking, History!Key
  <2> QED BY <1>2, <2>2, <2>3, JobsMove DEF History!SeedTracking, HistoryInv, History!TypeOK
<1>3. CASE History!EnqueueInitial
  <2>1. job' \in [Slot -> Jobs] /\ \A j \in Slot : job'[j].days \subseteq job[j].days
    BY <1>3, EnqueueKeeps DEF History!EnqueueInitial, History!Key
  <2> QED BY <1>3, <2>1, JobsMove DEF History!EnqueueInitial, HistoryInv, History!TypeOK
<1>4. CASE History!DiscoveryFails
  BY <1>0, <1>4, JobsMove DEF History!DiscoveryFails, HistoryInv, History!TypeOK
<1> QED BY <1>1, <1>2, <1>3, <1>4

(* SyncAdEntities and the mark it leaves. *)
LEMMA SyncKeeps ==
  ASSUME History!HistoryAssumption, HistoryInv, History!SyncAdEntities \/ History!MarkEntitiesSynced
  PROVE  HistoryInv'
<1>0. job \in [Slot -> Jobs]
  BY DEF HistoryInv, History!TypeOK, Jobs
<1>1. CASE History!SyncAdEntities
  BY <1>0, <1>1, EnsureKeeps, JobsMove
    DEF History!SyncAdEntities, History!processVars, HistoryInv, History!TypeOK
<1>2. CASE History!MarkEntitiesSynced
  BY <1>0, <1>2, JobsMove
    DEF History!MarkEntitiesSynced, History!processVars, HistoryInv, History!TypeOK
<1> QED BY <1>1, <1>2

(* CollectAccountInsights: rows first, then the mark. *)
LEMMA PollKeeps ==
  ASSUME History!HistoryAssumption, HistoryInv, History!StorePoll \/ History!MarkPoll \/ History!PollFails
  PROVE  HistoryInv'
<1>1. CASE History!StorePoll
  <2>1. poll' \subseteq History!Day /\ stored' = stored \union poll'
    BY <1>1 DEF History!StorePoll, History!Span
  <2>2. row' = TRUE /\ target' \subseteq History!Day
    BY <1>1, EnsureKeeps DEF History!StorePoll
  <2>3. History!TypeOK'
    BY <1>1, <2>1, <2>2 DEF History!StorePoll, HistoryInv, History!TypeOK, History!Day
  <2>4. History!CoveredIsStored' /\ ToMarkIsKept'
    BY <1>1, <2>1
      DEF History!StorePoll, HistoryInv, History!CoveredIsStored, ToMarkIsKept, Kept,
          History!Swept
  <2> QED BY <1>1, <2>3, <2>4 DEF History!StorePoll, HistoryInv
<1>2. CASE History!MarkPoll
  <2>1. History!TypeOK'
    BY <1>2 DEF History!MarkPoll, HistoryInv, History!TypeOK, History!Day
  <2>2. History!CoveredIsStored' /\ ToMarkIsKept'
    BY <1>2
      DEF History!MarkPoll, HistoryInv, History!CoveredIsStored, ToMarkIsKept, Kept, History!Swept
  <2> QED BY <1>2, <2>1, <2>2 DEF History!MarkPoll, HistoryInv
<1>3. CASE History!PollFails
  <2>1. History!TypeOK'
    BY <1>3 DEF History!PollFails, HistoryInv, History!TypeOK, History!Day
  <2>2. History!CoveredIsStored' /\ ToMarkIsKept'
    BY <1>3
      DEF History!PollFails, HistoryInv, History!CoveredIsStored, ToMarkIsKept, Kept,
          History!Swept
  <2> QED BY <1>3, <2>1, <2>2 DEF History!PollFails, HistoryInv
<1> QED BY <1>1, <1>2, <1>3

(* The chain: a chunk's rows, then its mark, then the next chunk's job. *)
LEMMA ChainKeeps ==
  ASSUME History!HistoryAssumption, HistoryInv, NEW j \in Slot,
         History!BackfillStep(j) \/ History!ChainTwice(j) \/ History!JobFails(j)
  PROVE  HistoryInv'
<1>0. job \in [Slot -> Jobs] /\ History!SpentBy(j) \subseteq History!Key
  BY DEF HistoryInv, History!TypeOK, Jobs, History!SpentBy
<1>1. CASE History!StoreChunk(j)
  <2>1. History!Chunk \subseteq History!Day /\ stored' = stored \union History!Chunk
    BY <1>1 DEF History!StoreChunk, History!Chunk, History!Span
  <2>2. /\ job' \in [Slot -> Jobs]
        /\ \A i \in Slot : job'[i].days \subseteq job[i].days \union History!Chunk
    <3>1. CASE History!Chunk = {}
      BY <1>0, <1>1, <3>1, NoJobIsJob DEF History!StoreChunk
    <3>2. CASE History!Chunk # {}
      BY <1>0, <1>1, <2>1, <3>2 DEF History!StoreChunk, Jobs
    <3> QED BY <3>1, <3>2
  <2>3. spent' \subseteq History!Key
    BY <1>0, <1>1 DEF History!StoreChunk, HistoryInv, History!TypeOK
  <2>4. History!TypeOK'
    BY <1>1, <2>1, <2>2, <2>3 DEF History!StoreChunk, HistoryInv, History!TypeOK, Jobs, History!Day
  <2>5. History!CoveredIsStored' /\ ToMarkIsKept'
    BY <1>1, <2>1, <2>2
      DEF History!StoreChunk, HistoryInv, History!CoveredIsStored, ToMarkIsKept, Kept,
          History!Swept
  <2> QED BY <1>1, <2>4, <2>5 DEF History!StoreChunk, HistoryInv
<1>2. CASE History!MarkChunk(j)
  <2>1. job' \in [Slot -> Jobs] /\ \A i \in Slot : job'[i].days \subseteq job[i].days
    BY <1>0, <1>2 DEF History!MarkChunk, Jobs
  <2>2. History!TypeOK'
    BY <1>0, <1>2, <2>1 DEF History!MarkChunk, HistoryInv, History!TypeOK, Jobs, History!Day
  <2>3. History!CoveredIsStored' /\ ToMarkIsKept'
    BY <1>2, <2>1
      DEF History!MarkChunk, HistoryInv, History!CoveredIsStored, ToMarkIsKept, Kept,
          History!Swept
  <2> QED BY <1>2, <2>2, <2>3 DEF History!MarkChunk, HistoryInv
<1>3. CASE History!ChainChunk(j)
  <2>1. job' \in [Slot -> Jobs] /\ \A i \in Slot : job'[i].days \subseteq job[i].days
    BY <1>0, <1>3, NoJobIsJob, PendingIsJob DEF History!ChainChunk
  <2> QED BY <1>0, <1>3, <2>1, JobsMove DEF History!ChainChunk, HistoryInv, History!TypeOK
<1>4. CASE History!ChainTwice(j)
  <2>1. job' \in [Slot -> Jobs] /\ \A i \in Slot : job'[i].days \subseteq job[i].days
    <3>1. PICK k \in Slot : job' = [job EXCEPT ![k] = History!Pending("minute"), ![j].at = "pending"]
      BY <1>4, FreeIsSlot DEF History!ChainTwice
    <3>2. History!Pending("minute") \in Jobs /\ History!Pending("minute").days = {}
      BY PendingIsJob
    <3>3. \A x \in Jobs : [x EXCEPT !.at = "pending"] \in Jobs /\ [x EXCEPT !.at = "pending"].days = x.days
      BY DEF Jobs
    <3> QED BY <1>0, <3>1, <3>2, <3>3
  <2> QED BY <1>4, <2>1, JobsMove DEF History!ChainTwice, HistoryInv, History!TypeOK
<1>5. CASE History!JobFails(j)
  <2>1. job' \in [Slot -> Jobs] /\ \A i \in Slot : job'[i].days \subseteq job[i].days
    <3>1. CASE job' = [job EXCEPT ![j] = History!NoJob]
      BY <1>0, <3>1, NoJobIsJob
    <3>2. CASE job' = [job EXCEPT ![j].at = "pending", ![j].days = {}]
      BY <1>0, <3>2 DEF Jobs
    <3> QED BY <1>5, <3>1, <3>2 DEF History!JobFails
  <2>2. spent' \subseteq History!Key
    BY <1>0, <1>5 DEF History!JobFails, HistoryInv, History!TypeOK
  <2> QED BY <1>5, <2>1, <2>2, JobsMove DEF History!JobFails, HistoryInv, History!TypeOK
<1> QED BY <1>1, <1>2, <1>3, <1>4, <1>5 DEF History!BackfillStep

(* The keys of a moment pass with it. *)
LEMMA TickKeeps ==
  ASSUME History!HistoryAssumption, HistoryInv, NEW past \in SUBSET History!Key, History!Tick(past)
  PROVE  HistoryInv'
<1>1. job' \in [Slot -> Jobs] /\ \A j \in Slot : job'[j].days \subseteq job[j].days
  <2>1. job \in [Slot -> Jobs]
    BY DEF HistoryInv, History!TypeOK, Jobs
  <2>2. \A x \in Jobs : /\ [x EXCEPT !.key = "past"] \in Jobs
                        /\ [x EXCEPT !.key = "past"].days = x.days
    BY DEF Jobs
  <2> QED BY <2>1, <2>2 DEF History!Tick
<1> QED BY <1>1, JobsMove DEF History!Tick, HistoryInv, History!TypeOK

(* What RunRetentionSweepJob deletes is behind the horizon. *)
LEMMA RetentionKeeps ==
  ASSUME History!HistoryAssumption, HistoryInv, History!RetentionSweep
  PROVE  HistoryInv'
<1>1. PICK oldest \in 1..(today - RetentionDays + 1) : stored' = {d \in stored : oldest <= d}
  BY DEF History!RetentionSweep
<1>2. stored \subseteq History!Day /\ today \in Int /\ RetentionDays \in Int
  BY DEF History!HistoryAssumption, HistoryInv, History!TypeOK, History!Day
<1>3. \A d \in stored \ stored' : d \in History!Swept
  BY <1>1, <1>2 DEF History!Swept, History!Day
<1>4. UNCHANGED <<today, known, row, target, inventory, covered, discovery, poll, job, spent, historyFaulty>>
  BY DEF History!RetentionSweep, History!processVars
<1>5. Kept \subseteq Kept'
  BY <1>3, <1>4 DEF Kept, History!Swept
<1>6. History!TypeOK'
  BY <1>1, <1>2, <1>4 DEF HistoryInv, History!TypeOK, History!Day
<1>7. History!CoveredIsStored' /\ ToMarkIsKept'
  BY <1>4, <1>5 DEF HistoryInv, History!CoveredIsStored, ToMarkIsKept, Kept
<1> QED BY <1>4, <1>6, <1>7 DEF HistoryInv

(* A day goes by, or the calls stop failing. *)
LEMMA TimeKeeps ==
  ASSUME History!HistoryAssumption, HistoryInv, History!NextDay \/ History!Calm \/ UNCHANGED History!vars
  PROVE  HistoryInv'
<1>1. CASE History!NextDay
  <2>1. today' \in History!Day /\ today <= today' /\ FirstDay <= today'
    BY <1>1 DEF History!NextDay, History!HistoryAssumption, HistoryInv, History!TypeOK, History!Day
  <2>2. UNCHANGED <<known, row, target, inventory, covered, stored, discovery, poll, job, spent, historyFaulty>>
    BY <1>1 DEF History!NextDay, History!processVars
  <2>3. Kept \subseteq Kept'
    BY <2>1, <2>2, KeptGrows
  <2>4. History!TypeOK'
    BY <2>1, <2>2 DEF HistoryInv, History!TypeOK, History!Day
  <2>5. History!CoveredIsStored' /\ ToMarkIsKept'
    BY <2>2, <2>3 DEF HistoryInv, History!CoveredIsStored, ToMarkIsKept, Kept
  <2> QED BY <2>1, <2>4, <2>5 DEF HistoryInv
<1>2. CASE History!Calm \/ UNCHANGED History!vars
  <2>1. History!TypeOK'
    BY <1>2
      DEF History!Calm, History!vars, History!processVars, HistoryInv, History!TypeOK, History!Day
  <2>2. History!CoveredIsStored' /\ ToMarkIsKept'
    BY <1>2
      DEF History!Calm, History!vars, History!processVars, HistoryInv, History!CoveredIsStored,
          ToMarkIsKept, Kept, History!Swept
  <2> QED BY <1>2, <2>1, <2>2 DEF History!Calm, History!vars, HistoryInv
<1> QED BY <1>1, <1>2

LEMMA HistoryNextHolds == History!HistoryAssumption /\ HistoryInv /\ [History!Next]_(History!vars) => HistoryInv'
<1> SUFFICES ASSUME History!HistoryAssumption, HistoryInv, [History!Next]_(History!vars) PROVE HistoryInv'
  OBVIOUS
<1> QED
  BY DiscoveryKeeps, SyncKeeps, PollKeeps, ChainKeeps, TickKeeps, RetentionKeeps, TimeKeeps
     DEF History!Next, History!DiscoveryStep

-----------------------------------------------------------------------------
(* The rotation over accounts. *)

(* The operators of FiniteSets, as Rotation sees them. *)
LEMMA SameSets ==
  /\ \A S : Rotation!Cardinality(S) = Cardinality(S)
  /\ \A S : Rotation!IsFiniteSet(S) <=> IsFiniteSet(S)
<1>1. \A S : Rotation!Cardinality(S) = Cardinality(S)
  BY DEF Rotation!Cardinality, Cardinality
<1>2. \A S : Rotation!IsFiniteSet(S) <=> IsFiniteSet(S)
  BY DEF Rotation!IsFiniteSet, IsFiniteSet
<1> QED BY <1>1, <1>2


(* Of the types only what the argument needs. *)
RotationTypes ==
  /\ servable \subseteq Account /\ list \subseteq Account /\ lap \subseteq Account
  /\ cursor \in Nat
  /\ slicing \in [Replica -> [at : {"due", "taking", "queueing", "done"},
                           seen : SUBSET Account, slice : SUBSET Account]]

(* In the middle of a round the cursor is within its list and behind what the round handed out. *)
CursorIsBehind ==
  cursor # 0 => /\ cursor < Rotation!Cardinality(list)
                /\ \A a \in lap : Rotation!Place(a, list) <= cursor

RotationInv == RotationTypes /\ CursorIsBehind

LEMMA PlacesAreNumbers ==
  ASSUME Rotation!RotationAssumption, NEW accounts \in SUBSET Account
  PROVE  Rotation!Cardinality(accounts) \in Nat /\ \A a \in Account : Rotation!Place(a, accounts) \in Nat
<1>1. \A S \in SUBSET Account : IsFiniteSet(S)
  BY SameSets, FS_Subset DEF Rotation!RotationAssumption
<1>2. \A S \in SUBSET Account : Rotation!Cardinality(S) \in Nat
  BY <1>1, SameSets, FS_CardinalityType
<1>3. \A a \in Account : {b \in accounts : b <= a} \in SUBSET Account
  OBVIOUS
<1> QED BY <1>2, <1>3 DEF Rotation!Place

(* Where a slice begins and how far it goes, and where the cursor then stands (DueAdAccounts). *)
LEMMA OffsetIsNumber ==
  ASSUME Rotation!RotationAssumption, RotationInv, NEW accounts \in SUBSET Account
  PROVE  /\ Rotation!Offset(accounts) \in Nat /\ Rotation!NextOffset(accounts) \in Nat
         /\ Rotation!Slice(accounts) \in SUBSET Account
         /\ \A a \in Rotation!Slice(accounts) :
              Rotation!Offset(accounts) < Rotation!Place(a, accounts) /\ Rotation!Place(a, accounts) <= Rotation!Offset(accounts) + BatchSize
         /\ Rotation!NextOffset(accounts) # 0 => /\ Rotation!NextOffset(accounts) < Rotation!Cardinality(accounts)
                                        /\ Rotation!NextOffset(accounts) = Rotation!Offset(accounts) + BatchSize
<1>1. Rotation!Cardinality(accounts) \in Nat
  BY PlacesAreNumbers
<1>2. Rotation!Offset(accounts) \in Nat
  BY <1>1 DEF Rotation!Offset, RotationInv, RotationTypes
<1>3. BatchSize \in Nat
  BY DEF Rotation!RotationAssumption
<1>4. Rotation!NextOffset(accounts) \in Nat
  BY <1>2, <1>3 DEF Rotation!NextOffset
<1>5. Rotation!NextOffset(accounts) # 0 => /\ Rotation!NextOffset(accounts) < Rotation!Cardinality(accounts)
                                  /\ Rotation!NextOffset(accounts) = Rotation!Offset(accounts) + BatchSize
  BY <1>1, <1>2, <1>3 DEF Rotation!NextOffset
<1>6. Rotation!Slice(accounts) \in SUBSET Account
  BY DEF Rotation!Slice
<1>7. \A a \in Rotation!Slice(accounts) :
        Rotation!Offset(accounts) < Rotation!Place(a, accounts) /\ Rotation!Place(a, accounts) <= Rotation!Offset(accounts) + BatchSize
  BY DEF Rotation!Slice
<1> QED BY <1>2, <1>4, <1>5, <1>6, <1>7

LEMMA RotationInitHolds == Rotation!RotationAssumption /\ Rotation!Init => RotationInv
  BY DEF Rotation!RotationAssumption, Rotation!Init, RotationInv, RotationTypes, CursorIsBehind,
        Rotation!PassAt

(* Whatever does not take a slice leaves the cursor alone. *)
LEMMA PassesMove ==
  ASSUME RotationInv, servable' \subseteq Account, UNCHANGED <<cursor, lap, list>>,
         slicing' \in [Replica -> [at : {"due", "taking", "queueing", "done"},
                                seen : SUBSET Account, slice : SUBSET Account]]
  PROVE  RotationInv'
  BY DEF RotationInv, RotationTypes, CursorIsBehind, Rotation!Place

LEMMA TakeSliceKeeps ==
  ASSUME Rotation!RotationAssumption, RotationInv, NEW r \in Replica, Rotation!TakeSlice(r)
  PROVE  RotationInv'
<1> DEFINE seen == slicing[r].seen
<1>1. seen \in SUBSET Account /\ list' = seen /\ cursor' = Rotation!NextOffset(seen)
      /\ lap' = (IF cursor = 0 \/ seen # list THEN {} ELSE lap) \union Rotation!Slice(seen)
      /\ servable' = servable
  BY DEF Rotation!TakeSlice, RotationInv, RotationTypes
<1>2. slicing' = [slicing EXCEPT ![r].at = "queueing", ![r].slice = Rotation!Slice(seen)]
  BY DEF Rotation!TakeSlice
<1>3. /\ Rotation!Offset(seen) \in Nat /\ Rotation!NextOffset(seen) \in Nat /\ Rotation!Slice(seen) \in SUBSET Account
      /\ \A a \in Rotation!Slice(seen) : Rotation!Place(a, seen) <= Rotation!Offset(seen) + BatchSize
      /\ Rotation!NextOffset(seen) # 0 => /\ Rotation!NextOffset(seen) < Rotation!Cardinality(seen)
                                 /\ Rotation!NextOffset(seen) = Rotation!Offset(seen) + BatchSize
  BY <1>1, OffsetIsNumber
<1>4. BatchSize \in Nat /\ \A a \in Account : Rotation!Place(a, seen) \in Nat
  BY <1>1, PlacesAreNumbers DEF Rotation!RotationAssumption
<1> HIDE DEF seen
<1>5. RotationTypes'
  <2>1. slicing' \in [Replica -> [at : {"due", "taking", "queueing", "done"},
                               seen : SUBSET Account, slice : SUBSET Account]]
    BY <1>2, <1>3 DEF RotationInv, RotationTypes
  <2>2. lap' \subseteq Account
    BY <1>1, <1>3 DEF RotationInv, RotationTypes
  <2> QED BY <1>1, <1>3, <2>1, <2>2 DEF RotationInv, RotationTypes
<1>6. ASSUME cursor # 0, seen = list, NEW a \in lap
      PROVE  Rotation!Place(a, seen) <= Rotation!Offset(seen) + BatchSize
  <2>1. Rotation!Offset(seen) = cursor /\ Rotation!Place(a, seen) <= cursor
    BY <1>6 DEF RotationInv, CursorIsBehind, Rotation!Offset
  <2>2. a \in Account
    BY DEF RotationInv, RotationTypes
  <2> QED BY <1>4, <2>1, <2>2, <1>3
<1>7. \A a \in lap' : Rotation!Place(a, seen) <= Rotation!Offset(seen) + BatchSize
  BY <1>1, <1>3, <1>6
<1>8. CursorIsBehind'
  <2>1. ASSUME Rotation!NextOffset(seen) # 0
        PROVE  /\ Rotation!NextOffset(seen) < Rotation!Cardinality(seen)
               /\ \A a \in lap' : Rotation!Place(a, seen) <= Rotation!NextOffset(seen)
    BY <1>3, <1>7, <2>1
  <2> QED BY <1>1, <2>1 DEF CursorIsBehind, Rotation!Place
<1> QED BY <1>5, <1>8 DEF RotationInv

(* What becomes of a pass that goes through its slice. *)
LEMMA LeftKeepsType ==
  ASSUME RotationInv, NEW r \in Replica, NEW a, Rotation!Left(r, a)
  PROVE  slicing' \in [Replica -> [at : {"due", "taking", "queueing", "done"},
                                seen : SUBSET Account, slice : SUBSET Account]]
  BY DEF Rotation!Left, Rotation!PassAt, RotationInv, RotationTypes

LEMMA RotationNextHolds == Rotation!RotationAssumption /\ RotationInv /\ [Rotation!Next]_(Rotation!vars) => RotationInv'
<1> SUFFICES ASSUME Rotation!RotationAssumption, RotationInv, [Rotation!Next]_(Rotation!vars) PROVE RotationInv'
  OBVIOUS
<1> DEFINE PassType == [Replica -> [at : {"due", "taking", "queueing", "done"},
                                    seen : SUBSET Account, slice : SUBSET Account]]
<1>0. slicing \in PassType /\ servable \subseteq Account
  BY DEF RotationInv, RotationTypes
<1>1. ASSUME NEW r \in Replica, Rotation!BeginPass(r) PROVE RotationInv'
  <2>1. slicing' \in PassType
    BY <1>0, <1>1 DEF Rotation!BeginPass, Rotation!PassAt
  <2> QED BY <1>0, <1>1, <2>1, PassesMove DEF Rotation!BeginPass
<1>2. ASSUME NEW r \in Replica, Rotation!EnqueueNext(r) PROVE RotationInv'
  <2>1. slicing' \in PassType
    BY <1>2, LeftKeepsType DEF Rotation!EnqueueNext
  <2> QED BY <1>0, <1>2, <2>1, PassesMove DEF Rotation!EnqueueNext
<1>3. ASSUME NEW r \in Replica, Rotation!PassFails(r) PROVE RotationInv'
  <2>1. ASSUME Rotation!Left(r, Rotation!FirstOf(r)) PROVE slicing' \in PassType
    BY <2>1, LeftKeepsType
  <2>2. ASSUME NEW at \in {"due", "done"}, slicing' = [slicing EXCEPT ![r] = Rotation!PassAt(at)]
        PROVE  slicing' \in PassType
    BY <1>0, <2>2 DEF Rotation!PassAt
  <2>3. slicing' \in PassType
    BY <1>3, <2>1, <2>2 DEF Rotation!PassFails
  <2> QED BY <1>0, <1>3, <2>3, PassesMove DEF Rotation!PassFails
<1>4. CASE Rotation!NextInterval
  <2>1. slicing' \in PassType
    BY <1>4 DEF Rotation!NextInterval, Rotation!PassAt
  <2> QED BY <1>0, <1>4, <2>1, PassesMove DEF Rotation!NextInterval
<1>5. CASE Rotation!ListChanges
  BY <1>0, <1>5, PassesMove DEF Rotation!ListChanges
<1>6. CASE Rotation!Calm \/ UNCHANGED Rotation!vars
  BY <1>0, <1>6, PassesMove DEF Rotation!Calm, Rotation!vars
<1> QED
  BY <1>1, <1>2, <1>3, <1>4, <1>5, <1>6, TakeSliceKeeps DEF Rotation!Next, Rotation!PassStep

(* Only TakeSlice hands anything out, and it starts behind the cursor. *)
LEMMA StepHandsOutNew == Rotation!RotationAssumption /\ RotationInv /\ [Rotation!Next]_(Rotation!vars) => [Rotation!HandsOutNew]_(Rotation!vars)
<1> SUFFICES ASSUME Rotation!RotationAssumption, RotationInv, [Rotation!Next]_(Rotation!vars),
                    NEW r \in Replica, slicing[r].at = "taking", slicing'[r].at = "queueing",
                    cursor # 0, slicing[r].seen = list
             PROVE  slicing'[r].slice \intersect lap = {}
  BY DEF Rotation!HandsOutNew
<1>1. Rotation!TakeSlice(r)
  <2>1. ASSUME NEW q \in Replica, Rotation!BeginPass(q) PROVE FALSE
    BY <2>1 DEF Rotation!BeginPass, RotationInv, RotationTypes
  <2>2. ASSUME NEW q \in Replica, Rotation!TakeSlice(q) PROVE q = r
    BY <2>2 DEF Rotation!TakeSlice, RotationInv, RotationTypes
  <2>3. ASSUME NEW q \in Replica, Rotation!EnqueueNext(q) PROVE FALSE
    BY <2>3 DEF Rotation!EnqueueNext, Rotation!Left, RotationInv, RotationTypes
  <2>4. ASSUME NEW q \in Replica, Rotation!PassFails(q) PROVE FALSE
    BY <2>4 DEF Rotation!PassFails, Rotation!Left, Rotation!PassAt, RotationInv, RotationTypes
  <2>5. ~Rotation!NextInterval /\ ~Rotation!ListChanges /\ ~Rotation!Calm /\ ~UNCHANGED Rotation!vars
    BY DEF Rotation!NextInterval, Rotation!ListChanges, Rotation!Calm, Rotation!vars
  <2> QED BY <2>1, <2>2, <2>3, <2>4, <2>5 DEF Rotation!Next, Rotation!PassStep
<1>2. slicing'[r].slice = Rotation!Slice(list)
  BY <1>1 DEF Rotation!TakeSlice, RotationInv, RotationTypes
<1>3. Rotation!Offset(list) = cursor /\ \A a \in lap : Rotation!Place(a, list) <= cursor
  BY DEF RotationInv, CursorIsBehind, Rotation!Offset
<1>4. list \in SUBSET Account /\ lap \subseteq Account /\ cursor \in Nat
  BY DEF RotationInv, RotationTypes
<1>5. \A a \in Account : Rotation!Place(a, list) \in Nat
  BY <1>4, PlacesAreNumbers
<1>6. ASSUME NEW a \in Rotation!Slice(list), a \in lap PROVE FALSE
  <2>1. cursor < Rotation!Place(a, list)
    BY <1>3 DEF Rotation!Slice
  <2>2. Rotation!Place(a, list) <= cursor /\ Rotation!Place(a, list) \in Nat
    BY <1>3, <1>4, <1>5, <1>6
  <2> QED BY <1>4, <2>1, <2>2
<1> QED BY <1>2, <1>6

LEMMA LeastNumber ==
  ASSUME NEW N, N \subseteq Nat, N # {}
  PROVE  \E m \in N : \A n \in N : m <= n
<1>1. PICK m \in N : \A n \in N : <<n, m>> \notin OpToRel(<, Nat)
  BY NatLessThanWellFounded, WFMin
<1>2. \A n \in N : ~(n < m)
  BY <1>1 DEF OpToRel
<1> QED BY <1>2

(* A part of a finite set that lacks one of its elements is smaller. *)
LEMMA Smaller ==
  ASSUME NEW S, IsFiniteSet(S), NEW T, T \subseteq S, NEW x \in S, x \notin T
  PROVE  Cardinality(T) < Cardinality(S)
<1>1. Cardinality(T) <= Cardinality(S) /\ Cardinality(T) # Cardinality(S)
  BY FS_Subset
<1>2. Cardinality(T) \in Nat /\ Cardinality(S) \in Nat
  BY FS_Subset, FS_CardinalityType
<1> QED BY <1>1, <1>2

(* Of finitely many numbers one is the greatest: the one with the fewest above it. *)
LEMMA GreatestNumber ==
  ASSUME NEW S, S \subseteq Nat, IsFiniteSet(S), S # {}
  PROVE  \E m \in S : \A j \in S : j <= m
<1> DEFINE Above(i) == {j \in S : j > i}
<1>1. \A i \in S : IsFiniteSet(Above(i)) /\ Cardinality(Above(i)) \in Nat
  BY FS_Subset, FS_CardinalityType
<1>2. PICK n \in {Cardinality(Above(i)) : i \in S} : \A k \in {Cardinality(Above(i)) : i \in S} : n <= k
  <2>1. {Cardinality(Above(i)) : i \in S} \subseteq Nat
    BY <1>1
  <2>2. {Cardinality(Above(i)) : i \in S} # {}
    OBVIOUS
  <2> QED BY <2>1, <2>2, LeastNumber, Zenon
<1>3. PICK m \in S : n = Cardinality(Above(m))
  BY <1>2
<1>4. ASSUME NEW j \in S, m < j PROVE FALSE
  <2>1. Above(j) \subseteq Above(m) /\ j \in Above(m) /\ j \notin Above(j)
    <3>1. m \in Nat /\ j \in Nat /\ \A k \in S : k \in Nat
      OBVIOUS
    <3>2. \A k \in S : k > j => k > m
      BY <1>4, <3>1
    <3>3. j > m /\ ~(j > j)
      BY <1>4, <3>1
    <3> QED BY <3>2, <3>3
  <2>2. Cardinality(Above(j)) < Cardinality(Above(m))
    BY <1>1, <2>1, Smaller
  <2>3. Cardinality(Above(m)) <= Cardinality(Above(j))
    BY <1>2, <1>3
  <2>4. Cardinality(Above(m)) \in Nat /\ Cardinality(Above(j)) \in Nat
    BY <1>1
  <2> HIDE DEF Above
  <2> QED BY <2>2, <2>3, <2>4
<1>5. \A j \in S : ~(m < j)
  BY <1>4
<1> QED BY <1>5

(* While the list has accounts a slice has some: the first one past the offset is in it. *)
LEMMA SliceHasOne ==
  ASSUME Rotation!RotationAssumption, RotationInv, NEW accounts \in SUBSET Account, accounts # {},
         BatchSize # 0
  PROVE  Rotation!Slice(accounts) # {}
<1> DEFINE Before(a) == {b \in accounts : b <= a}
           Past == {a \in accounts : Rotation!Place(a, accounts) > Rotation!Offset(accounts)}
<1>1. accounts \subseteq Nat /\ IsFiniteSet(accounts) /\ BatchSize \in Nat
  BY SameSets, FS_Subset DEF Rotation!RotationAssumption
<1>2. \A a \in accounts : Rotation!Place(a, accounts) = Cardinality(Before(a))
  BY SameSets DEF Rotation!Place
<1>3. \A a \in accounts : IsFiniteSet(Before(a)) /\ Cardinality(Before(a)) \in Nat
  BY <1>1, FS_Subset, FS_CardinalityType
<1>4. Rotation!Offset(accounts) \in Nat /\ Rotation!Offset(accounts) < Cardinality(accounts)
      /\ Cardinality(accounts) \in Nat
  <2>1. Cardinality(accounts) \in Nat /\ Cardinality(accounts) # 0
    BY <1>1, FS_CardinalityType, FS_EmptySet
  <2> QED BY <2>1, SameSets DEF Rotation!Offset, RotationInv, RotationTypes
<1>5. PICK o : o = Rotation!Offset(accounts)
  OBVIOUS
<1>6. Past = {a \in accounts : Cardinality(Before(a)) > o}
  BY <1>2, <1>5
<1> HIDE DEF Past
<1>7. Past # {}
  <2>1. PICK m \in accounts : \A b \in accounts : b <= m
    BY <1>1, GreatestNumber
  <2>2. Before(m) = accounts
    BY <2>1
  <2>3. Cardinality(Before(m)) > o
    BY <1>4, <1>5, <2>2
  <2> QED BY <1>6, <2>3
<1>8. PICK a \in Past : \A b \in Past : a <= b
  <2>1. Past \subseteq Nat
    BY <1>1, <1>6
  <2> QED BY <1>7, <2>1, LeastNumber
<1>9. a \in accounts /\ a \in Nat /\ Cardinality(Before(a)) > o
  BY <1>1, <1>6, <1>8
<1>10. Cardinality(Before(a)) <= o + 1
  <2> DEFINE Less == {b \in accounts : b < a}
  <2>1. Before(a) = Less \union {a} /\ a \notin Less /\ Less \subseteq accounts
    <3>1. \A b \in accounts : b <= a <=> b < a \/ b = a
      BY <1>1, <1>9
    <3>2. Before(a) = Less \union {a}
      BY <1>9, <3>1, Zenon
    <3>3. ~(a < a)
      BY <1>9
    <3>4. a \notin Less /\ Less \subseteq accounts
      BY <3>3
    <3> QED BY <3>2, <3>4
  <2>2. IsFiniteSet(Less) /\ Less \subseteq Nat /\ Cardinality(Less) \in Nat
    BY <1>1, <2>1, FS_Subset, FS_CardinalityType
  <2>3. Cardinality(Before(a)) = Cardinality(Less) + 1
    BY <2>1, <2>2, FS_AddElement
  <2>4. Cardinality(Less) <= o
    <3>1. CASE Less = {}
      <4>1. Cardinality(Less) = 0
        BY <3>1, FS_EmptySet
      <4> QED BY <1>4, <1>5, <4>1
    <3>2. CASE Less # {}
      <4> HIDE DEF Less
      <4>1. PICK p \in Less : \A b \in Less : b <= p
        BY <2>2, <3>2, GreatestNumber
      <4> USE DEF Less
      <4>2. p \in accounts /\ p < a /\ p \in Nat
        BY <1>1, <4>1
      <4>3. p \notin Past
        BY <1>8, <1>9, <4>2
      <4>4. Less = Before(p)
        <5>1. \A b \in accounts : b < a <=> b <= p
          BY <1>1, <1>9, <4>1, <4>2
        <5> QED BY <5>1
      <4>5. ~(Cardinality(Before(p)) > o) /\ Cardinality(Before(p)) \in Nat
        BY <1>3, <1>6, <4>2, <4>3
      <4> HIDE DEF Less, Before
      <4> QED BY <1>4, <1>5, <4>4, <4>5
    <3> QED BY <3>1, <3>2
  <2> HIDE DEF Less, Before
  <2> QED BY <1>4, <1>5, <2>2, <2>3, <2>4
<1>11. Cardinality(Before(a)) <= o + BatchSize
  <2> HIDE DEF Before
  <2> QED BY <1>1, <1>3, <1>4, <1>5, <1>9, <1>10
<1>12. a \in Rotation!Slice(accounts)
  <2>1. Rotation!Place(a, accounts) = Cardinality(Before(a)) /\ Cardinality(Before(a)) \in Nat
    BY <1>2, <1>3, <1>9
  <2> HIDE DEF Before
  <2> QED BY <1>4, <1>5, <1>9, <1>11, <2>1 DEF Rotation!Slice
<1> QED BY <1>12

(* A pass that queues jobs has accounts to queue them for, and the others are of their types. *)
PassesHaveWork ==
  /\ \A r \in Replica : /\ slicing[r].at = "taking" => slicing[r].seen # {} /\ BatchSize # 0
                        /\ slicing[r].at = "queueing" => slicing[r].slice # {}
  /\ changes \in 0..MaxChanges /\ handed \subseteq Account /\ rotationFaulty \in BOOLEAN

LEMMA FirstIsQueued ==
  ASSUME Rotation!RotationAssumption, RotationInv, PassesHaveWork, NEW r \in Replica,
         slicing[r].at = "queueing"
  PROVE  Rotation!FirstOf(r) \in slicing[r].slice /\ Rotation!FirstOf(r) \in Account
<1>1. slicing[r].slice \subseteq Account /\ slicing[r].slice # {}
  BY DEF RotationInv, RotationTypes, PassesHaveWork
<1>2. \E a \in slicing[r].slice : \A b \in slicing[r].slice : a <= b
  BY <1>1, LeastNumber DEF Rotation!RotationAssumption
<1> QED BY <1>1, <1>2 DEF Rotation!FirstOf

LEMMA LeftHasWork ==
  ASSUME Rotation!RotationAssumption, RotationInv, PassesHaveWork, NEW r \in Replica,
         slicing[r].at = "queueing", Rotation!Left(r, Rotation!FirstOf(r)),
         handed' \subseteq Account, UNCHANGED <<changes, rotationFaulty>>
  PROVE  PassesHaveWork'
<1>1. slicing[r].slice # {Rotation!FirstOf(r)} => slicing[r].slice \ {Rotation!FirstOf(r)} # {}
  BY FirstIsQueued
<1> QED BY <1>1 DEF PassesHaveWork, RotationInv, RotationTypes, Rotation!Left, Rotation!PassAt

LEMMA RotationStepHasWork ==
  ASSUME Rotation!RotationAssumption, RotationInv, PassesHaveWork, [Rotation!Next]_(Rotation!vars)
  PROVE  PassesHaveWork'
<1>1. ASSUME NEW r \in Replica, Rotation!BeginPass(r) PROVE PassesHaveWork'
  BY <1>1 DEF Rotation!BeginPass, Rotation!PassAt, PassesHaveWork, RotationInv, RotationTypes
<1>2. ASSUME NEW r \in Replica, Rotation!TakeSlice(r) PROVE PassesHaveWork'
  <2>1. slicing[r].seen \in SUBSET Account /\ slicing[r].seen # {} /\ BatchSize # 0
    BY <1>2 DEF Rotation!TakeSlice, PassesHaveWork, RotationInv, RotationTypes
  <2>2. Rotation!Slice(slicing[r].seen) # {}
    BY <2>1, SliceHasOne
  <2>3. /\ slicing' = [slicing EXCEPT ![r].at = "queueing", ![r].slice = Rotation!Slice(slicing[r].seen)]
        /\ UNCHANGED <<changes, handed, rotationFaulty>>
    BY <1>2 DEF Rotation!TakeSlice
  <2> QED BY <2>2, <2>3 DEF PassesHaveWork, RotationInv, RotationTypes
<1>3. ASSUME NEW r \in Replica, Rotation!EnqueueNext(r) PROVE PassesHaveWork'
  <2>1. slicing[r].at = "queueing" /\ Rotation!Left(r, Rotation!FirstOf(r))
        /\ handed' = handed \union {Rotation!FirstOf(r)} /\ UNCHANGED <<changes, rotationFaulty>>
    BY <1>3 DEF Rotation!EnqueueNext
  <2>2. handed' \subseteq Account
    BY <2>1, FirstIsQueued DEF PassesHaveWork
  <2> QED BY <2>1, <2>2, LeftHasWork
<1>4. ASSUME NEW r \in Replica, Rotation!PassFails(r) PROVE PassesHaveWork'
  <2>1. handed' \subseteq Account /\ UNCHANGED <<changes, rotationFaulty, handed>>
    BY <1>4 DEF Rotation!PassFails, PassesHaveWork
  <2>2. CASE slicing[r].at = "queueing" /\ Rotation!Left(r, Rotation!FirstOf(r))
    BY <2>1, <2>2, LeftHasWork
  <2>3. ASSUME NEW at \in {"due", "done"}, slicing' = [slicing EXCEPT ![r] = Rotation!PassAt(at)]
        PROVE  PassesHaveWork'
    BY <2>1, <2>3 DEF Rotation!PassAt, PassesHaveWork, RotationInv, RotationTypes
  <2> QED BY <1>4, <2>2, <2>3 DEF Rotation!PassFails
<1>5. CASE Rotation!NextInterval
  BY <1>5 DEF Rotation!NextInterval, Rotation!PassAt, PassesHaveWork
<1>6. CASE Rotation!ListChanges
  BY <1>6 DEF Rotation!ListChanges, PassesHaveWork, Rotation!RotationAssumption
<1>7. CASE Rotation!Calm \/ UNCHANGED Rotation!vars
  BY <1>7 DEF Rotation!Calm, Rotation!vars, PassesHaveWork
<1> QED
  BY <1>1, <1>2, <1>3, <1>4, <1>5, <1>6, <1>7 DEF Rotation!Next, Rotation!PassStep

LEMMA RotationTyped == RotationInv /\ PassesHaveWork => Rotation!TypeOK
  BY DEF RotationInv, RotationTypes, PassesHaveWork, Rotation!TypeOK

-----------------------------------------------------------------------------
(* The recurring job of a connection: its types. *)
PassState ==
  [at : {"idle", "looking", "inserting", "looking again"}, lane : Recurring!Lane, ago : 0..1]

LEMMA RecurringInitHolds == Recurring!Init => Recurring!TypeOK
  BY DEF Recurring!Init, Recurring!TypeOK, Recurring!Idle, Recurring!Lane

LEMMA RecurringNextHolds == Recurring!TypeOK /\ [Recurring!Next]_(Recurring!vars) => Recurring!TypeOK'
<1> SUFFICES ASSUME Recurring!TypeOK, [Recurring!Next]_(Recurring!vars) PROVE Recurring!TypeOK'
  OBVIOUS
<1>0. /\ pass \in [Pass -> PassState]
      /\ made \subseteq Recurring!Key /\ Recurring!Idle \in PassState
      /\ \A p \in Pass : pass[p] \in PassState
      /\ 0 \in 0..1 /\ 1 \in 0..1
  <2>1. Recurring!Idle \in PassState
    BY DEF PassState, Recurring!Idle, Recurring!Lane
  <2>2. pass \in [Pass -> PassState] /\ made \subseteq Recurring!Key
    BY DEF Recurring!TypeOK, PassState
  <2> QED BY <2>1, <2>2
<1>1. ASSUME NEW p \in Pass, NEW s \in PassState, pass' = [pass EXCEPT ![p] = s],
             status' \in {"none", "pending", "running"}, made' \subseteq Recurring!Key,
             UNCHANGED <<active, recurringFaulty>>
      PROVE  Recurring!TypeOK'
  BY <1>1 DEF Recurring!TypeOK, PassState
<1>2. ASSUME NEW p \in Pass, NEW lane \in Recurring!Lane, Recurring!BeginPass(p, lane)
      PROVE  Recurring!TypeOK'
  <2>1. [at |-> "looking", lane |-> lane, ago |-> 0] \in PassState
    <3>1. \A n \in 0..1 : [at |-> "looking", lane |-> lane, ago |-> n] \in PassState
      BY DEF PassState
    <3> QED BY <1>0, <3>1
  <2> QED BY <1>1, <1>2, <2>1 DEF Recurring!BeginPass, Recurring!TypeOK
<1>3. ASSUME NEW p \in Pass, NEW at \in {"inserting", "looking again"}, Recurring!Goto(p, at)
      PROVE  \E s \in PassState : pass' = [pass EXCEPT ![p] = s]
  <2>1. [pass[p] EXCEPT !.at = at] \in PassState /\ pass' = [pass EXCEPT ![p] = [pass[p] EXCEPT !.at = at]]
    BY <1>0, <1>3 DEF Recurring!Goto, PassState
  <2> QED BY <2>1
<1>4. ASSUME NEW p \in Pass, Recurring!Ends(p)
      PROVE  \E s \in PassState : pass' = [pass EXCEPT ![p] = s]
  BY <1>0, <1>4 DEF Recurring!Ends
<1>5. ASSUME NEW p \in Pass, Recurring!Look(p) PROVE Recurring!TypeOK'
  BY <1>1, <1>3, <1>4, <1>5 DEF Recurring!Look, Recurring!TypeOK
<1>6. ASSUME NEW p \in Pass, Recurring!Insert(p) PROVE Recurring!TypeOK'
  <2>1. <<pass[p].lane, pass[p].ago>> \in Recurring!Key
    BY <1>0 DEF PassState, Recurring!Key
  <2>2. /\ \E s \in PassState : pass' = [pass EXCEPT ![p] = s]
        /\ status' \in {status, "pending"}
        /\ made' \subseteq made \union {<<pass[p].lane, pass[p].ago>>}
        /\ UNCHANGED <<active, recurringFaulty>>
    BY <1>3, <1>4, <1>6 DEF Recurring!Insert
  <2>3. made' \subseteq Recurring!Key
    BY <1>0, <2>1, <2>2
  <2>4. status' \in {"none", "pending", "running"}
    BY <2>2 DEF Recurring!TypeOK
  <2> QED BY <1>1, <2>2, <2>3, <2>4
<1>7. ASSUME NEW p \in Pass, Recurring!LookAgain(p) \/ Recurring!PassFails(p) PROVE Recurring!TypeOK'
  BY <1>1, <1>4, <1>7 DEF Recurring!LookAgain, Recurring!PassFails, Recurring!TypeOK
<1>8. CASE Recurring!Claim \/ Recurring!JobEnds \/ Recurring!Change \/ Recurring!Calm \/ UNCHANGED Recurring!vars
  BY <1>8 DEF Recurring!Claim, Recurring!JobEnds, Recurring!Change, Recurring!Calm, Recurring!vars,
              Recurring!TypeOK
<1>9. ASSUME NEW lane \in Recurring!Lane, Recurring!NextInterval(lane) PROVE Recurring!TypeOK'
  <2>1. made' \subseteq Recurring!Key
    BY <1>9 DEF Recurring!NextInterval
  <2>2. \A p \in Pass : [pass[p] EXCEPT !.ago = 1] \in PassState
    <3>1. \A n \in 0..1, s \in PassState : [s EXCEPT !.ago = n] \in PassState
      BY DEF PassState
    <3> QED BY <1>0, <3>1
  <2>3. pass' \in [Pass -> PassState]
    BY <1>0, <1>9, <2>2 DEF Recurring!NextInterval, Recurring!Aged
  <2> QED BY <1>9, <2>1, <2>3 DEF Recurring!NextInterval, Recurring!TypeOK, PassState
<1> QED
  BY <1>2, <1>5, <1>6, <1>7, <1>8, <1>9 DEF Recurring!Next, Recurring!PassStep, Recurring!Lane

-----------------------------------------------------------------------------
(* The campaigns of an account: their types.  A refresh has a campaign left to look at, and a *)
(* request that is on its way one that it is about.                                             *)
Statuses == [Campaign -> Campaigns!Status]

CollectorState ==
  [at : {"idle", "refreshing", "storing", "measuring", "keeping"}, rows : Statuses, known : Statuses,
   left : SUBSET Campaign, got : Campaigns!Status]

RequestState ==
  [at : {"idle", "remote", "local"}, what : Campaigns!On \union {"DELETED", "copy"}, own : BOOLEAN,
   of : Campaign \union {0}]

CampaignsInv ==
  /\ Campaigns!TypeOK
  /\ collector \in CollectorState /\ oper \in RequestState
  /\ collector.at \in {"refreshing", "storing"} => collector.left # {}
  /\ oper.at # "idle" => oper.of \in Campaign
  /\ oper.at = "local" => oper.what # "copy"

LEMMA CampaignsTypes ==
  ASSUME CampaignsInv
  PROVE  /\ graph \in Statuses /\ published \in Statuses
         /\ entity \in [Campaign -> [status : Campaigns!Status, live : BOOLEAN]]
         /\ sweep \in [Sweep -> [at : {"idle", "storing", "pruning"}, seen : Statuses]]
         /\ measured \subseteq Campaign /\ requests \in 0..MaxRequests /\ campaignsFaulty \in BOOLEAN
         /\ collector \in CollectorState /\ oper \in RequestState
         /\ Campaign \subseteq Nat /\ Campaigns!Absent \in Statuses /\ MaxRequests \in Nat
  BY CollectionAssumption
     DEF CampaignsInv, Campaigns!TypeOK, Statuses, Campaigns!Absent, Campaigns!Status, Campaigns!On,
         Campaigns!CampaignsAssumption

LEMMA Typed ==
  ASSUME graph \in Statuses, published \in Statuses,
         entity \in [Campaign -> [status : Campaigns!Status, live : BOOLEAN]],
         sweep \in [Sweep -> [at : {"idle", "storing", "pruning"}, seen : Statuses]],
         measured \subseteq Campaign, requests \in 0..MaxRequests, campaignsFaulty \in BOOLEAN,
         collector \in CollectorState, oper \in RequestState
  PROVE  Campaigns!TypeOK
  BY DEF Campaigns!TypeOK, Statuses, CollectorState, RequestState

LEMMA Idles ==
  /\ Campaigns!NoPass \in CollectorState /\ Campaigns!NoPass.at = "idle"
  /\ Campaigns!NoRequest \in RequestState /\ Campaigns!NoRequest.at = "idle"
  /\ Campaigns!NoSweep \in [at : {"idle", "storing", "pruning"}, seen : Statuses]
<1>1. Campaigns!Absent \in Statuses
  BY DEF Campaigns!Absent, Statuses, Campaigns!Status
<1> QED BY <1>1 DEF Campaigns!NoPass, Campaigns!NoRequest, Campaigns!NoSweep, CollectorState,
                    RequestState, Campaigns!Status

LEMMA CampaignsInitHolds == Campaigns!Init => CampaignsInv
<1> SUFFICES ASSUME Campaigns!Init PROVE CampaignsInv
  OBVIOUS
<1>1. graph \in Statuses /\ published \in Statuses
      /\ entity \in [Campaign -> [status : Campaigns!Status, live : BOOLEAN]]
  BY DEF Campaigns!Init, Statuses, Campaigns!Status, Campaigns!On
<1>2. sweep \in [Sweep -> [at : {"idle", "storing", "pruning"}, seen : Statuses]]
  BY Idles DEF Campaigns!Init
<1>3. requests \in 0..MaxRequests /\ measured \subseteq Campaign /\ campaignsFaulty \in BOOLEAN
  BY CollectionAssumption DEF Campaigns!Init, Campaigns!CampaignsAssumption
<1>4. collector \in CollectorState /\ oper \in RequestState /\ collector.at = "idle" /\ oper.at = "idle"
  BY Idles DEF Campaigns!Init
<1>5. Campaigns!TypeOK
  BY <1>1, <1>2, <1>3, <1>4, Typed
<1> QED BY <1>4, <1>5 DEF CampaignsInv

LEMMA SweepKeeps ==
  ASSUME CampaignsInv, NEW w \in Sweep, Campaigns!SweepStep(w) \/ Campaigns!SweepFails(w)
  PROVE  CampaignsInv'
<1> DEFINE SweepState == [at : {"idle", "storing", "pruning"}, seen : Statuses]
<1>0. sweep \in [Sweep -> SweepState] /\ Campaigns!NoSweep \in SweepState
  BY CampaignsTypes, Idles
<1>1. ASSUME NEW s \in SweepState, sweep' = [sweep EXCEPT ![w] = s],
             entity' \in [Campaign -> [status : Campaigns!Status, live : BOOLEAN]],
             UNCHANGED Campaigns!sweepOnly
      PROVE  CampaignsInv'
  <2>1. sweep' \in [Sweep -> SweepState]
    BY <1>0, <1>1
  <2>2. UNCHANGED <<graph, published, collector, measured, oper, requests, campaignsFaulty>>
    BY <1>1 DEF Campaigns!sweepOnly
  <2>3. Campaigns!TypeOK'
    BY <1>1, <2>1, <2>2, CampaignsTypes DEF Campaigns!TypeOK, Statuses, CampaignsInv
  <2> QED BY <2>2, <2>3 DEF CampaignsInv, CollectorState, RequestState, Statuses
<1>2. CASE Campaigns!Audit(w)
  <2> DEFINE s == [at |-> "storing",
                   seen |-> [c \in Campaign |-> IF c \in Campaigns!Listed THEN graph[c] ELSE "none"]]
  <2>1. s \in SweepState
    BY CampaignsTypes DEF Statuses, Campaigns!Status
  <2>2. sweep' = [sweep EXCEPT ![w] = s] /\ UNCHANGED <<Campaigns!sweepOnly, entity>>
    BY <1>2 DEF Campaigns!Audit
  <2> HIDE DEF s, SweepState
  <2> QED BY <1>1, <2>1, <2>2, CampaignsTypes
<1>3. CASE Campaigns!StoreEntities(w)
  <2> DEFINE s == IF Campaigns!Seen(w) = {} THEN Campaigns!NoSweep ELSE [sweep[w] EXCEPT !.at = "pruning"]
  <2>1. s \in SweepState
    BY <1>0
  <2>2. sweep' = [sweep EXCEPT ![w] = s] /\ UNCHANGED Campaigns!sweepOnly
    BY <1>0, <1>3 DEF Campaigns!StoreEntities
  <2>3. sweep[w].seen \in Statuses
    BY <1>0
  <2>4. entity' \in [Campaign -> [status : Campaigns!Status, live : BOOLEAN]]
    BY <1>3, <2>3, CampaignsTypes DEF Campaigns!StoreEntities, Statuses
  <2> HIDE DEF s, SweepState
  <2> QED BY <1>1, <2>1, <2>2, <2>4
<1>4. CASE Campaigns!MarkDisappeared(w)
  <2>1. entity' \in [Campaign -> [status : Campaigns!Status, live : BOOLEAN]]
    BY <1>4, CampaignsTypes DEF Campaigns!MarkDisappeared
  <2> HIDE DEF SweepState
  <2> QED BY <1>0, <1>1, <1>4, <2>1 DEF Campaigns!MarkDisappeared
<1>5. CASE Campaigns!SweepFails(w)
  <2> HIDE DEF SweepState
  <2> QED BY <1>0, <1>1, <1>5, CampaignsTypes DEF Campaigns!SweepFails
<1> QED BY <1>2, <1>3, <1>4, <1>5 DEF Campaigns!SweepStep

(* A step of the collection. *)
LEMMA CollectorMoves ==
  ASSUME CampaignsInv, collector' \in CollectorState,
         collector'.at \in {"refreshing", "storing"} => collector'.left # {},
         published' \in Statuses, measured' \subseteq Campaign, UNCHANGED Campaigns!collectorOnly
  PROVE  CampaignsInv'
<1>1. UNCHANGED <<graph, entity, sweep, oper, requests, campaignsFaulty>>
  BY DEF Campaigns!collectorOnly
<1>2. Campaigns!TypeOK'
  BY <1>1 DEF CampaignsInv, Campaigns!TypeOK, CollectorState, Statuses
<1> QED BY <1>1, <1>2 DEF CampaignsInv, CollectorState, RequestState, Statuses

LEMMA FirstIsLeft ==
  ASSUME CampaignsInv, collector.at \in {"refreshing", "storing"}
  PROVE  /\ Campaigns!FirstLeft \in collector.left /\ Campaigns!FirstLeft \in Campaign
         /\ collector.known[Campaigns!FirstLeft] \in Campaigns!Status
         /\ graph[Campaigns!FirstLeft] \in Campaigns!Status
<1>1. collector.left \subseteq Campaign /\ collector.left # {} /\ Campaign \subseteq Nat
      /\ collector.known \in Statuses /\ graph \in Statuses
  BY CampaignsTypes DEF CampaignsInv, CollectorState
<1>2. \E c \in collector.left : \A b \in collector.left : c <= b
  BY <1>1, LeastNumber
<1>3. Campaigns!FirstLeft \in collector.left
  BY <1>2 DEF Campaigns!FirstLeft
<1> QED BY <1>1, <1>3 DEF Statuses

LEMMA RefreshedKeeps ==
  ASSUME CampaignsInv, collector.at \in {"refreshing", "storing"}, Campaigns!Refreshed,
         published' \in Statuses, UNCHANGED measured, UNCHANGED Campaigns!collectorOnly
  PROVE  CampaignsInv'
<1>1. CASE collector.left = {Campaigns!FirstLeft}
  <2>1. Campaigns!Loaded \subseteq Campaign /\ "none" \in Campaigns!Status
    BY DEF Campaigns!Loaded, Campaigns!Status
  <2>2. collector' = [collector EXCEPT !.at = "measuring", !.left = Campaigns!Loaded, !.got = "none"]
    BY <1>1 DEF Campaigns!Refreshed
  <2>3. collector' \in CollectorState /\ collector'.at = "measuring"
    BY <2>1, <2>2, CampaignsTypes DEF CollectorState
  <2> QED BY <2>3, CollectorMoves, CampaignsTypes
<1>2. CASE collector.left # {Campaigns!FirstLeft}
  <2> DEFINE rest == collector.left \ {Campaigns!FirstLeft}
  <2>1. rest \subseteq Campaign /\ rest # {} /\ "none" \in Campaigns!Status
    BY <1>2, FirstIsLeft, CampaignsTypes DEF CollectorState, Campaigns!Status
  <2>2. collector' = [collector EXCEPT !.at = "refreshing", !.left = rest, !.got = "none"]
    BY <1>2 DEF Campaigns!Refreshed
  <2> HIDE DEF rest
  <2>3. collector' \in CollectorState /\ collector'.left # {}
    BY <2>1, <2>2, CampaignsTypes DEF CollectorState
  <2> QED BY <2>3, CollectorMoves, CampaignsTypes
<1> QED BY <1>1, <1>2

LEMMA PassedKeeps ==
  ASSUME CampaignsInv, Campaigns!Passed \/ collector' = Campaigns!NoPass,
         UNCHANGED published, measured' \subseteq Campaign, UNCHANGED Campaigns!collectorOnly
  PROVE  CampaignsInv'
<1>1. CASE collector' = Campaigns!NoPass
  BY <1>1, Idles, CollectorMoves, CampaignsTypes
<1>2. CASE collector' = [collector EXCEPT !.at = "measuring", !.left = collector.left \ Campaigns!Chunk]
  <2>1. collector' \in CollectorState /\ collector'.at = "measuring"
    BY <1>2, CampaignsTypes DEF CollectorState
  <2> QED BY <2>1, CollectorMoves, CampaignsTypes
<1> QED BY <1>1, <1>2 DEF Campaigns!Passed

LEMMA CollectionKeeps ==
  ASSUME CampaignsInv, Campaigns!CollectionStep \/ Campaigns!NotDue \/ Campaigns!CollectionFails
  PROVE  CampaignsInv'
<1>1. CASE Campaigns!BeginCollection
  <2>1. PICK known0 \in {Campaigns!Inventory, Campaigns!Absent} :
          /\ collector' = [Campaigns!NoPass EXCEPT !.at = "refreshing", !.rows = published,
                                                  !.known = known0, !.left = Campaigns!Rows]
          /\ Campaigns!Rows # {} /\ measured' = {}
          /\ UNCHANGED <<Campaigns!collectorOnly, published>>
    BY <1>1 DEF Campaigns!BeginCollection
  <2>2. known0 \in Statuses /\ Campaigns!Rows \subseteq Campaign
    BY <2>1, CampaignsTypes DEF Campaigns!Inventory, Campaigns!Rows, Statuses, Campaigns!Status
  <2>3. collector' \in CollectorState /\ collector'.left # {}
    BY <2>1, <2>2, Idles, CampaignsTypes DEF CollectorState
  <2> QED BY <2>1, <2>3, CollectorMoves, CampaignsTypes
<1>2. ASSUME NEW c \in Campaign, NEW s \in Campaigns!Status, Campaigns!Update(c, s)
      PROVE  published' \in Statuses
  BY <1>2, CampaignsTypes DEF Campaigns!Update, Statuses
<1>3. CASE Campaigns!RefreshFromInventory
  <2>0. collector.at = "refreshing" /\ Campaigns!Refreshed /\ UNCHANGED measured
        /\ UNCHANGED Campaigns!collectorOnly
    BY <1>3 DEF Campaigns!RefreshFromInventory
  <2>1. published' \in Statuses
    BY <1>2, <1>3, <2>0, FirstIsLeft, CampaignsTypes DEF Campaigns!RefreshFromInventory
  <2> QED BY <2>0, <2>1, RefreshedKeeps
<1>4. CASE Campaigns!AskStatus
  <2>0. collector.at = "refreshing"
        /\ collector' = [collector EXCEPT !.at = "storing", !.got = graph[Campaigns!FirstLeft]]
        /\ UNCHANGED <<Campaigns!collectorOnly, published, measured>>
    BY <1>4 DEF Campaigns!AskStatus
  <2>1. collector' \in CollectorState /\ collector'.left # {}
    BY <2>0, FirstIsLeft, CampaignsTypes DEF CollectorState, CampaignsInv
  <2> QED BY <2>0, <2>1, CollectorMoves, CampaignsTypes
<1>5. CASE Campaigns!StoreStatus
  <2>0. collector.at = "storing" /\ Campaigns!Refreshed /\ UNCHANGED measured
        /\ UNCHANGED Campaigns!collectorOnly /\ Campaigns!Update(Campaigns!FirstLeft, collector.got)
    BY <1>5 DEF Campaigns!StoreStatus
  <2>1. collector.got \in Campaigns!Status
    BY CampaignsTypes DEF CollectorState
  <2>2. published' \in Statuses
    BY <1>2, <2>0, <2>1, FirstIsLeft
  <2> QED BY <2>0, <2>2, RefreshedKeeps
<1>6. CASE Campaigns!FetchChunk
  <2>1. collector' \in CollectorState /\ collector'.at = "keeping"
    BY <1>6, CampaignsTypes DEF Campaigns!FetchChunk, CollectorState
  <2> QED BY <1>6, <2>1, CollectorMoves, CampaignsTypes DEF Campaigns!FetchChunk
<1>7. CASE Campaigns!KeepChunk
  <2>1. measured' \subseteq Campaign
    BY <1>7, CampaignsTypes DEF Campaigns!KeepChunk, Campaigns!Chunk, CollectorState
  <2> QED BY <1>7, <2>1, PassedKeeps DEF Campaigns!KeepChunk
<1>8. CASE Campaigns!NotDue
  BY <1>8, RefreshedKeeps, CampaignsTypes DEF Campaigns!NotDue
<1>9. CASE Campaigns!CollectionFails
  <2>1. UNCHANGED <<Campaigns!collectorOnly, published, measured>>
    BY <1>9 DEF Campaigns!CollectionFails
  <2>2. CASE collector.at = "storing" /\ Campaigns!Refreshed
    BY <2>1, <2>2, RefreshedKeeps, CampaignsTypes
  <2>3. CASE Campaigns!Passed \/ collector' = Campaigns!NoPass
    BY <2>1, <2>3, PassedKeeps, CampaignsTypes
  <2> QED BY <1>9, <2>2, <2>3 DEF Campaigns!CollectionFails
<1> QED
  BY <1>1, <1>3, <1>4, <1>5, <1>6, <1>7, <1>8, <1>9 DEF Campaigns!CollectionStep

(* A step of the operator's request, or of Meta. *)
LEMMA OperatorMoves ==
  ASSUME CampaignsInv, oper' \in RequestState, oper'.at # "idle" => oper'.of \in Campaign,
         oper'.at = "local" => oper'.what # "copy", graph' \in Statuses, published' \in Statuses,
         entity' \in [Campaign -> [status : Campaigns!Status, live : BOOLEAN]],
         requests' \in 0..MaxRequests, UNCHANGED Campaigns!operOnly
  PROVE  CampaignsInv'
<1>1. UNCHANGED <<sweep, collector, measured, campaignsFaulty>>
  BY DEF Campaigns!operOnly
<1>2. Campaigns!TypeOK'
  BY <1>1 DEF CampaignsInv, Campaigns!TypeOK, RequestState, Statuses
<1> QED BY <1>1, <1>2 DEF CampaignsInv, CollectorState, RequestState, Statuses

LEMMA RequestKeeps ==
  ASSUME CampaignsInv,
         \/ \E c \in Campaign, what \in Campaigns!On \union {"DELETED", "copy"} : Campaigns!Request(c, what)
         \/ Campaigns!RequestStep \/ Campaigns!RequestFails \/ Campaigns!MetaChanges
  PROVE  CampaignsInv'
<1>1. ASSUME NEW c \in Campaign, NEW what \in Campaigns!On \union {"DELETED", "copy"},
             Campaigns!Request(c, what)
      PROVE  CampaignsInv'
  <2>1. /\ oper' = [at |-> "remote", what |-> what, own |-> c \in Campaigns!Rows, of |-> c]
        /\ requests < MaxRequests /\ requests' = requests + 1
        /\ UNCHANGED <<Campaigns!operOnly, graph, entity, published>>
    BY <1>1 DEF Campaigns!Request
  <2>2. oper' \in RequestState /\ oper'.at = "remote" /\ oper'.of \in Campaign
    BY <2>1 DEF RequestState
  <2>3. requests' \in 0..MaxRequests
    BY <2>1, CampaignsTypes
  <2> QED BY <2>1, <2>2, <2>3, OperatorMoves, CampaignsTypes
<1>2. CASE Campaigns!WriteRemote
  <2>0. oper.at = "remote" /\ oper.what # "copy" /\ oper.what \in Campaigns!Status
        /\ oper.of \in Campaign /\ UNCHANGED <<Campaigns!operOnly, entity, published, requests>>
    BY <1>2, CampaignsTypes
       DEF Campaigns!WriteRemote, CampaignsInv, RequestState, Campaigns!Status, Campaigns!On
  <2>1. graph' \in {graph, [graph EXCEPT ![oper.of] = oper.what]}
        /\ oper' \in {[oper EXCEPT !.at = "local"], Campaigns!NoRequest}
    BY <1>2 DEF Campaigns!WriteRemote
  <2>2. graph' \in Statuses
    BY <2>0, <2>1, CampaignsTypes DEF Statuses
  <2>3. oper' \in RequestState /\ (oper'.at # "idle" => oper'.of \in Campaign /\ oper'.what # "copy")
    BY <2>0, <2>1, Idles, CampaignsTypes DEF RequestState
  <2> QED BY <2>0, <2>2, <2>3, OperatorMoves, CampaignsTypes
<1>3. CASE Campaigns!Copy
  <2>1. graph' \in Statuses
    BY <1>3, CampaignsTypes DEF Campaigns!Copy, Statuses, Campaigns!Status, Campaigns!On
  <2> QED BY <1>3, <2>1, Idles, OperatorMoves, CampaignsTypes DEF Campaigns!Copy
<1>4. CASE Campaigns!WriteLocal
  <2>0. oper.what \in Campaigns!Status /\ oper.of \in Campaign /\ oper' = Campaigns!NoRequest
        /\ UNCHANGED <<Campaigns!operOnly, graph, requests>>
    BY <1>4, CampaignsTypes
       DEF Campaigns!WriteLocal, CampaignsInv, RequestState, Campaigns!Status, Campaigns!On
  <2>1. published' \in Statuses
    BY <1>4, <2>0, CampaignsTypes DEF Campaigns!WriteLocal, Campaigns!Update, Statuses
  <2>2. entity' \in [Campaign -> [status : Campaigns!Status, live : BOOLEAN]]
    BY <1>4, <2>0, CampaignsTypes DEF Campaigns!WriteLocal
  <2> QED BY <2>0, <2>1, <2>2, Idles, OperatorMoves, CampaignsTypes
<1>5. CASE Campaigns!DeleteLocal
  <2>0. oper.of \in Campaign /\ oper' = Campaigns!NoRequest
        /\ UNCHANGED <<Campaigns!operOnly, graph, requests>>
    BY <1>5 DEF Campaigns!DeleteLocal, CampaignsInv
  <2>1. published' \in Statuses
    BY <1>5, <2>0, CampaignsTypes DEF Campaigns!DeleteLocal, Statuses, Campaigns!Status
  <2>2. entity' \in [Campaign -> [status : Campaigns!Status, live : BOOLEAN]]
    BY <1>5, <2>0, CampaignsTypes DEF Campaigns!DeleteLocal, Campaigns!Status
  <2> QED BY <2>0, <2>1, <2>2, Idles, OperatorMoves, CampaignsTypes
<1>6. CASE Campaigns!RequestFails
  BY <1>6, Idles, OperatorMoves, CampaignsTypes DEF Campaigns!RequestFails
<1>7. CASE Campaigns!MetaChanges
  <2>1. graph' \in Statuses
    BY <1>7, CampaignsTypes DEF Campaigns!MetaChanges, Statuses, Campaigns!Status
  <2>2. requests' \in 0..MaxRequests
    BY <1>7, CampaignsTypes DEF Campaigns!MetaChanges
  <2>3. UNCHANGED <<Campaigns!operOnly, oper, entity, published>>
    BY <1>7 DEF Campaigns!MetaChanges
  <2>4. oper' \in RequestState /\ (oper'.at # "idle" => oper'.of \in Campaign)
        /\ (oper'.at = "local" => oper'.what # "copy")
    BY <2>3, CampaignsTypes DEF CampaignsInv
  <2> QED BY <2>1, <2>2, <2>3, <2>4, OperatorMoves, CampaignsTypes
<1> QED BY <1>1, <1>2, <1>3, <1>4, <1>5, <1>6, <1>7 DEF Campaigns!RequestStep

LEMMA CampaignsNextHolds == CampaignsInv /\ [Campaigns!Next]_(Campaigns!vars) => CampaignsInv'
<1> SUFFICES ASSUME CampaignsInv, [Campaigns!Next]_(Campaigns!vars) PROVE CampaignsInv'
  OBVIOUS
<1>1. CASE Campaigns!Calm \/ UNCHANGED Campaigns!vars
  <2>1. UNCHANGED <<graph, entity, published, sweep, collector, measured, oper, requests>>
        /\ campaignsFaulty' \in BOOLEAN
    BY <1>1, CampaignsTypes DEF Campaigns!Calm, Campaigns!vars
  <2>2. Campaigns!TypeOK'
    BY <2>1 DEF CampaignsInv, Campaigns!TypeOK
  <2> QED BY <2>1, <2>2 DEF CampaignsInv, CollectorState, RequestState, Statuses
<1> QED BY <1>1, SweepKeeps, CollectionKeeps, RequestKeeps DEF Campaigns!Next

-----------------------------------------------------------------------------
(* Together: a step of one component is a step of it alone, and the others stutter. *)
Inv == RotationInv /\ PassesHaveWork /\ Recurring!TypeOK /\ HistoryInv /\ CampaignsInv

LEMMA OneMoves ==
  ASSUME [Next]_vars
  PROVE  /\ [Rotation!Next]_(Rotation!vars) /\ [Recurring!Next]_(Recurring!vars)
         /\ [History!Next]_(History!vars) /\ [Campaigns!Next]_(Campaigns!vars)
<1> USE DEF Rotation!vars, Recurring!vars, History!vars, History!processVars, Campaigns!vars,
            rotationVars, recurringVars, historyVars, campaignsVars
<1>1. CASE RotationMoves(Rotation!Next)
  BY <1>1 DEF RotationMoves
<1>2. CASE RecurringMoves(Recurring!Next)
  BY <1>2 DEF RecurringMoves
<1>3. CASE HistoryMoves(History!Next)
  BY <1>3 DEF HistoryMoves
<1>4. CASE CampaignsMoves(Campaigns!Next)
  BY <1>4 DEF CampaignsMoves
<1>5. CASE UNCHANGED vars
  BY <1>5 DEF vars
<1> QED BY <1>1, <1>2, <1>3, <1>4, <1>5 DEF Next

LEMMA InitHolds == Init => Inv
<1> SUFFICES ASSUME Init PROVE Inv
  OBVIOUS
<1>1. RotationInv /\ Recurring!TypeOK /\ HistoryInv /\ CampaignsInv
  BY CollectionAssumption, RotationInitHolds, RecurringInitHolds, HistoryInitHolds,
     CampaignsInitHolds DEF Init
<1>2. PassesHaveWork
  BY CollectionAssumption
     DEF Init, Rotation!Init, PassesHaveWork, Rotation!PassAt, Rotation!RotationAssumption
<1> QED BY <1>1, <1>2 DEF Inv

LEMMA NextHolds == Inv /\ [Next]_vars => Inv'
<1> SUFFICES ASSUME Inv, [Next]_vars PROVE Inv'
  OBVIOUS
<1>1. RotationInv' /\ PassesHaveWork'
  BY CollectionAssumption, OneMoves, RotationNextHolds, RotationStepHasWork DEF Inv
<1>2. Recurring!TypeOK' /\ HistoryInv' /\ CampaignsInv'
  BY CollectionAssumption, OneMoves, RecurringNextHolds, HistoryNextHolds, CampaignsNextHolds
    DEF Inv
<1> QED BY <1>1, <1>2 DEF Inv

(* The states of cursors, passes, jobs, chunks, sweeps, collections and requests are those the *)
(* code knows, for any number of each: a pass that queues jobs always has an account left, a    *)
(* refresh always a campaign.                                                                   *)
THEOREM TypeCorrect == Spec => []TypeOK
<1>1. Inv => TypeOK
  BY RotationTyped DEF Inv, HistoryInv, CampaignsInv, TypeOK
<1> QED BY <1>1, InitHolds, NextHolds, PTL DEF Spec

(* However far the backfill, the look-back and the retention reach, and whatever dies between *)
(* storing days and marking them, a day on record as fetched has its rows                      *)
(* (CollectAccountInsights, RunBackfillInsightsJob).                                            *)
THEOREM NoHole == Spec => []CoveredIsStored
<1>1. Inv => CoveredIsStored
  BY DEF Inv, HistoryInv, CoveredIsStored
<1> QED BY <1>1, InitHolds, NextHolds, PTL DEF Spec

(* Whichever scheduler processes ask, and whatever they crash in, an account is handed out    *)
(* once in a round of the cursor over one list (DueAdAccounts).                                 *)
THEOREM HandedOutOnce == Spec => DisjointSlices
<1>1. Inv /\ [Next]_vars => [Rotation!HandsOutNew]_(Rotation!vars)
  BY CollectionAssumption, OneMoves, StepHandsOutNew DEF Inv
<1> QED BY <1>1, InitHolds, NextHolds, PTL DEF Spec, DisjointSlices, Rotation!DisjointSlices
=============================================================================
