-------------------------- MODULE LaunchingProofs ---------------------------
(***************************************************************************)
(* Proofs about what a launch rests on.                                    *)
(*                                                                         *)
(* Media: one id per media and account, for any number of publish jobs and *)
(* uploads.  An id that is waited for is that of the row, and the row      *)
(* keeps its first; what is ready at Meta stays so.                        *)
(*                                                                         *)
(* Launch: the word of a launch, for any number of requests,               *)
(* specifications and lists of checkpoints.  With the types it is          *)
(* inductive: batch changes once, from None, and until then no guard       *)
(* exists and no request is past its insert.                               *)
(*                                                                         *)
(* Client: the word of a call, for any list, page sizes and retries.  A    *)
(* list that is being fetched has all that stayed up to the place where    *)
(* its next page starts, each once, and nothing behind it.                 *)
(*                                                                         *)
(* Inventory: its types, for any accounts, assets and syncs.               *)
(*                                                                         *)
(* Guards: the ladder, for ladders of any length (GuardsProofs).           *)
(*                                                                         *)
(* The invariant of the composition is the conjunction of the five, since  *)
(* a step moves one component and leaves the others alone.                 *)
(***************************************************************************)
EXTENDS GuardsProofs, FiniteSetTheorems, WellFoundedInduction

-----------------------------------------------------------------------------
(* Images are ready at once, and nothing searches for them. *)
Images ==
  /\ kind = "image" => \A i \in Media!Id : remote[i] \in {"absent", "ready"}
  /\ kind = "image" => \A j \in Job : job[j].at # "searching"

(* The row is ready only with a copy that is. *)
RowIsTrue == row.status = "ready" => row.id \in Media!Id /\ remote[row.id] = "ready"

(* What a job has in hand. *)
InHand ==
  \A j \in Job :
    /\ job[j].at = "keeping" => /\ job[j].id \in Media!Id
                                /\ kind = "image" => remote[job[j].id] = "ready"
    /\ job[j].at \in {"waiting", "marking"} => row.id \in Media!Id /\ job[j].id = row.id
    /\ job[j].at = "marking" /\ job[j].verdict = "ready" => remote[row.id] = "ready"

MediaState == [at : {"idle", "reading", "searching", "uploading", "keeping", "waiting", "marking"},
          id : Media!Id \union {0}, verdict : {"processing", "ready", "failed"}]

MediaInv == Media!TypeOK /\ Images /\ RowIsTrue /\ InHand /\ Media!SameMedia

LEMMA MediaInitHolds == Media!Init => MediaInv
  BY DEF Media!Init, MediaInv, Media!TypeOK, Images, RowIsTrue, InHand, Media!SameMedia,
        Media!Idle, Media!Id

LEMMA ZeroIsNoId == 0 \notin Media!Id
  BY DEF Media!Id

(* What becomes of a job with the checkpoint of the row (resolveAccountMediaUpload). *)
LEMMA ResolveKeeps ==
  ASSUME MediaInv, NEW j \in Job, row.id \in Media!Id, Media!Resolve(j, row), UNCHANGED <<kind, remote, row>>
  PROVE  MediaInv'
<1>1. CASE row.status = "ready" /\ Media!Return(j, row.id)
  BY <1>1
    DEF MediaInv, Media!TypeOK, Images, RowIsTrue, InHand, Media!SameMedia, Media!Return,
        Media!Ends, Media!Idle
<1>2. CASE Media!Ends(j) /\ UNCHANGED returned
  BY <1>2
    DEF MediaInv, Media!TypeOK, Images, RowIsTrue, InHand, Media!SameMedia, Media!Ends, Media!Idle
<1>3. CASE Media!Hold(j, "waiting", row.id) /\ UNCHANGED returned
  BY <1>3
    DEF MediaInv, Media!TypeOK, Images, RowIsTrue, InHand, Media!SameMedia, Media!Hold, Media!Idle
<1> QED BY <1>1, <1>2, <1>3 DEF Media!Resolve

(* A job moves with nothing in hand. *)
LEMMA GotoKeeps ==
  ASSUME MediaInv, NEW j \in Job, NEW at \in {"reading", "searching", "uploading"}, Media!Goto(j, at),
         at = "searching" => kind = "video", UNCHANGED <<kind, remote, row, returned>>
  PROVE  MediaInv'
  BY DEF MediaInv, Media!TypeOK, Images, RowIsTrue, InHand, Media!SameMedia, Media!Goto

LEMMA EndsKeeps ==
  ASSUME MediaInv, NEW j \in Job, Media!Ends(j), UNCHANGED <<kind, remote, row, returned>>
  PROVE  MediaInv'
  BY ZeroIsNoId
    DEF MediaInv, Media!TypeOK, Images, RowIsTrue, InHand, Media!SameMedia, Media!Ends, Media!Idle

LEMMA SearchKeeps ==
  ASSUME MediaInv, NEW j \in Job, Media!Search(j)
  PROVE  MediaInv'
<1>1. PICK seen \in SUBSET {i \in Media!Id : remote[i] # "absent"} :
        /\ job[j].at = "searching" /\ UNCHANGED <<kind, remote, row, returned>>
        /\ \/ seen = {} /\ Media!Goto(j, "uploading")
           \/ \E i \in seen : seen = {i} /\ Media!Hold(j, "keeping", i)
           \/ Media!Ends(j)
  BY DEF Media!Search
<1>2. CASE Media!Goto(j, "uploading")
  BY <1>1, <1>2, GotoKeeps
<1>3. CASE Media!Ends(j)
  BY <1>1, <1>3, EndsKeeps
<1>4. ASSUME NEW i \in seen, Media!Hold(j, "keeping", i) PROVE MediaInv'
  <2>1. kind = "video" /\ i \in Media!Id
    BY <1>1 DEF MediaInv, Media!TypeOK, Images
  <2> QED
    BY <1>1, <1>4, <2>1
      DEF MediaInv, Media!TypeOK, Images, RowIsTrue, InHand, Media!SameMedia, Media!Hold,
          Media!Idle
<1> QED BY <1>1, <1>2, <1>3, <1>4

(* An upload makes a copy where there was none, or an image ready that was. *)
LEMMA UploadKeeps ==
  ASSUME MediaInv, NEW j \in Job, Media!Upload(j)
  PROVE  MediaInv'
<1>1. PICK i \in Media!Id :
        /\ job[j].at = "uploading" /\ UNCHANGED <<kind, row, returned>>
        /\ \A k \in Media!Id : k < i <=> remote[k] # "absent" /\ kind = "video"
        /\ remote' = [remote EXCEPT ![i] = IF kind = "video" THEN "processing" ELSE "ready"]
        /\ Media!Hold(j, "keeping", i) \/ Media!Ends(j)
  BY DEF Media!Upload
<1>2. kind = "video" => remote[i] = "absent"
  BY <1>1 DEF Media!Id
<1>3. remote' \in [Media!Id -> {"absent", "processing", "ready", "error"}]
  BY <1>1 DEF MediaInv, Media!TypeOK
<1>4. \A k \in Media!Id : remote[k] = "ready" => remote'[k] = "ready"
  BY <1>1, <1>2 DEF MediaInv, Media!TypeOK
<1>5. kind = "image" => remote'[i] = "ready"
  BY <1>1 DEF MediaInv, Media!TypeOK
<1>6. /\ (job'[j].at = "keeping" /\ job'[j].id = i) \/ job'[j].at = "idle"
      /\ \A k \in Job : k # j => job'[k] = job[k]
  <2>1. CASE Media!Hold(j, "keeping", i)
    BY <2>1 DEF MediaInv, Media!TypeOK, Media!Hold, Media!Idle
  <2>2. CASE Media!Ends(j)
    BY <2>2 DEF MediaInv, Media!TypeOK, Media!Ends, Media!Idle
  <2> QED BY <1>1, <2>1, <2>2
<1>7. Media!TypeOK'
  <2>1. job \in [Job -> MediaState] /\ Media!Idle \in MediaState /\ [Media!Idle EXCEPT !.at = "keeping", !.id = i] \in MediaState
    BY DEF MediaInv, Media!TypeOK, MediaState, Media!Idle
  <2>2. job' \in [Job -> MediaState]
    BY <1>1, <2>1 DEF Media!Hold, Media!Ends
  <2> QED BY <1>1, <1>3, <2>2 DEF MediaInv, Media!TypeOK, MediaState
<1>8. Images'
  <2>1. \A k \in Media!Id : k # i => remote'[k] = remote[k]
    BY <1>1 DEF MediaInv, Media!TypeOK
  <2>2. kind' = "image" => \A k \in Media!Id : remote'[k] \in {"absent", "ready"}
    BY <1>1, <1>5, <2>1 DEF MediaInv, Images
  <2>3. kind' = "image" => \A k \in Job : job'[k].at # "searching"
    BY <1>1, <1>6 DEF MediaInv, Images
  <2> QED BY <2>2, <2>3 DEF Images
<1>9. RowIsTrue' /\ Media!SameMedia'
  BY <1>1, <1>4 DEF MediaInv, Media!TypeOK, RowIsTrue, Media!SameMedia
<1>10. InHand'
  <2> SUFFICES ASSUME NEW k \in Job
               PROVE  /\ job'[k].at = "keeping" => /\ job'[k].id \in Media!Id
                                                   /\ kind = "image" => remote'[job'[k].id] = "ready"
                      /\ job'[k].at \in {"waiting", "marking"} => row.id \in Media!Id /\ job'[k].id = row.id
                      /\ job'[k].at = "marking" /\ job'[k].verdict = "ready" => remote'[row.id] = "ready"
    BY <1>1 DEF InHand
  <2>1. CASE k = j
    BY <1>5, <1>6, <2>1
  <2>2. CASE k # j
    BY <1>4, <1>6, <2>2 DEF MediaInv, InHand
  <2> QED BY <2>1, <2>2
<1> QED BY <1>7, <1>8, <1>9, <1>10 DEF MediaInv

(* The first id goes into the row, any other one is dropped for it (CheckpointAccountUpload). *)
LEMMA KeepKeeps ==
  ASSUME MediaInv, NEW j \in Job, Media!Keep(j)
  PROVE  MediaInv'
<1>1. CASE row.id # 0
  BY <1>1, GotoKeeps DEF Media!Keep
<1>2. CASE row.id = 0
  <2>1. /\ row' = [id |-> job[j].id, status |-> IF kind = "video" THEN "processing" ELSE "ready"]
        /\ Media!Resolve(j, row') /\ UNCHANGED <<kind, remote>> /\ job[j].at = "keeping"
    BY <1>2 DEF Media!Keep
  <2>2. returned = {} /\ \A k \in Job : job[k].at \notin {"waiting", "marking"}
    BY <1>2, ZeroIsNoId DEF MediaInv, Media!TypeOK, InHand, Media!SameMedia
  <2>3. row'.id \in Media!Id /\ (kind = "image" => remote[row'.id] = "ready") /\ row'.status # "failed"
    BY <2>1 DEF MediaInv, Media!TypeOK, InHand
  <2>4. CASE Media!Return(j, row'.id) /\ row'.status = "ready"
    <3>1. kind = "image"
      BY <2>1, <2>4 DEF MediaInv, Media!TypeOK
    <3> QED
      BY <2>1, <2>2, <2>3, <2>4, <3>1
         DEF MediaInv, Media!TypeOK, Images, RowIsTrue, InHand, Media!SameMedia, Media!Return,
              Media!Ends, Media!Idle
  <2>5. CASE Media!Hold(j, "waiting", row'.id) /\ row'.status = "processing" /\ UNCHANGED returned
    BY <2>1, <2>2, <2>3, <2>5
       DEF MediaInv, Media!TypeOK, Images, RowIsTrue, InHand, Media!SameMedia, Media!Hold,
            Media!Idle
  <2> QED BY <2>1, <2>3, <2>4, <2>5 DEF Media!Resolve
<1> QED BY <1>1, <1>2

LEMMA WaitKeeps ==
  ASSUME MediaInv, NEW j \in Job, Media!Wait(j)
  PROVE  MediaInv'
<1>1. PICK verdict \in Media!Verdict(remote[job[j].id]) :
        /\ job[j].at = "waiting" /\ UNCHANGED <<kind, remote, row, returned>>
        /\ job' = [job EXCEPT ![j].at = "marking", ![j].verdict = verdict]
  BY DEF Media!Wait
<1>2. row.id \in Media!Id /\ job[j].id = row.id
  BY <1>1 DEF MediaInv, InHand
<1>3. verdict \in {"processing", "ready", "failed"} /\ (verdict = "ready" => remote[row.id] = "ready")
  BY <1>1, <1>2 DEF Media!Verdict
<1>4. Media!TypeOK'
  <2>1. job \in [Job -> MediaState]
    BY DEF MediaInv, Media!TypeOK, MediaState
  <2>2. [job[j] EXCEPT !.at = "marking", !.verdict = verdict] \in MediaState
    BY <1>3, <2>1 DEF MediaState
  <2>3. job' = [job EXCEPT ![j] = [job[j] EXCEPT !.at = "marking", !.verdict = verdict]]
    BY <1>1, <2>1
  <2>4. job' \in [Job -> MediaState]
    BY <2>1, <2>2, <2>3
  <2> QED BY <1>1, <2>4 DEF MediaInv, Media!TypeOK, MediaState
<1>5. /\ job'[j].at = "marking" /\ job'[j].id = job[j].id /\ job'[j].verdict = verdict
      /\ \A k \in Job : k # j => job'[k] = job[k]
  BY <1>1 DEF MediaInv, Media!TypeOK
<1>6. Images' /\ RowIsTrue' /\ Media!SameMedia'
  BY <1>1, <1>5 DEF MediaInv, Images, RowIsTrue, Media!SameMedia
<1>7. InHand'
  BY <1>1, <1>2, <1>3, <1>5 DEF MediaInv, InHand
<1> QED BY <1>4, <1>6, <1>7 DEF MediaInv

LEMMA MarkKeeps ==
  ASSUME MediaInv, NEW j \in Job, Media!Mark(j)
  PROVE  MediaInv'
<1>1. row.id \in Media!Id /\ job[j].id = row.id /\ (job[j].verdict = "ready" => remote[row.id] = "ready")
  BY DEF Media!Mark, MediaInv, InHand
<1>2. row' = [row EXCEPT !.status = job[j].verdict] /\ UNCHANGED <<kind, remote>>
  BY DEF Media!Mark
<1>3. row'.id = row.id /\ row'.status = job[j].verdict
      /\ row' \in [id : Media!Id \union {0}, status : {"processing", "ready", "failed"}]
  BY <1>2 DEF MediaInv, Media!TypeOK
<1>4. Media!Ends(j) /\ returned' \in {returned, returned \union {row.id}}
      /\ (returned' # returned => job[j].verdict = "ready")
  BY <1>1 DEF Media!Mark, Media!Return
<1> QED
  BY <1>1, <1>2, <1>3, <1>4
    DEF MediaInv, Media!TypeOK, Images, RowIsTrue, InHand, Media!SameMedia, Media!Ends, Media!Idle

LEMMA MetaKeeps ==
  ASSUME MediaInv, Media!MetaProcesses
  PROVE  MediaInv'
<1>1. PICK i \in Media!Id, state \in {"ready", "error"} :
        /\ remote[i] = "processing" /\ remote' = [remote EXCEPT ![i] = state]
        /\ UNCHANGED <<kind, row, job, returned>>
  BY DEF Media!MetaProcesses
<1>2. \A k \in Media!Id : remote[k] = "ready" => remote'[k] = "ready"
  BY <1>1 DEF MediaInv, Media!TypeOK
<1>3. kind # "image"
  BY <1>1 DEF MediaInv, Images
<1> QED
  BY <1>1, <1>2, <1>3 DEF MediaInv, Media!TypeOK, Images, RowIsTrue, InHand, Media!SameMedia

LEMMA MediaNextHolds == MediaInv /\ [Media!Next]_(Media!vars) => MediaInv'
<1> SUFFICES ASSUME MediaInv, [Media!Next]_(Media!vars) PROVE MediaInv'
  OBVIOUS
<1>1. CASE UNCHANGED Media!vars
  BY <1>1 DEF MediaInv, Media!TypeOK, Images, RowIsTrue, InHand, Media!SameMedia, Media!vars
<1>2. ASSUME NEW j \in Job, Media!Begin(j) PROVE MediaInv'
  BY <1>2, GotoKeeps DEF Media!Begin
<1>3. ASSUME NEW j \in Job, Media!ReadRow(j) PROVE MediaInv'
  <2>1. CASE row.id # 0
    BY <1>3, <2>1, ResolveKeeps DEF Media!ReadRow, MediaInv, Media!TypeOK
  <2>2. CASE row.id = 0
    BY <1>3, <2>2, GotoKeeps DEF Media!ReadRow
  <2> QED BY <2>1, <2>2
<1>4. ASSUME NEW j \in Job, Media!JobFails(j) PROVE MediaInv'
  BY <1>4, EndsKeeps DEF Media!JobFails
<1> QED
  BY <1>1, <1>2, <1>3, <1>4, SearchKeeps, UploadKeeps, KeepKeeps, WaitKeeps, MarkKeeps, MetaKeeps
     DEF Media!Next, Media!JobStep

-----------------------------------------------------------------------------
(* Only a request with checkpoints gets as far as its guard, and the batch an insert has run *)
(* into is still there when it is looked up.                                                  *)
OnItsWay ==
  \A r \in Request : /\ request[r].at = "guarding" => request[r].ladder # None
                     /\ request[r].at = "looking again" => batch # None

LaunchInv == Launch!TypeOK /\ OnItsWay /\ Launch!LaunchKeepsItsWord

(* A request that goes on with the batch of the key: Found of a retry, and Insert. *)
LEMMA WithBatchKeeps ==
  ASSUME Launch!LaunchAssumption, LaunchInv, NEW r \in Request, request[r].at \in Launch!Running,
         batch = request[r].spec, Launch!WithBatch(r), UNCHANGED <<batch, guards>>
  PROVE  LaunchInv'
<1>1. Launch!TypeOK' /\ OnItsWay'
  BY DEF LaunchInv, Launch!TypeOK, OnItsWay, Launch!WithBatch, Launch!Goto, Launch!Running,
         Launch!Answer
<1>2. Launch!LaunchKeepsItsWord'
  BY DEF LaunchInv, Launch!TypeOK, Launch!LaunchKeepsItsWord, Launch!WithBatch, Launch!Goto,
         Launch!Running, Launch!Answer
<1> QED BY <1>1, <1>2 DEF LaunchInv

(* The batch that is found is taken or answered with a conflict (CreateBatch). *)
LEMMA BatchFoundKeeps ==
  ASSUME Launch!LaunchAssumption, LaunchInv, NEW r \in Request, request[r].at \in Launch!Running,
         batch # None, Launch!Found(r), UNCHANGED <<batch, guards>>
  PROVE  LaunchInv'
<1>1. CASE batch = request[r].spec
  BY <1>1, WithBatchKeeps DEF Launch!Found
<1>2. CASE batch # request[r].spec
  <2>0. Launch!Goto(r, "conflict")
    BY <1>2 DEF Launch!Found
  <2>1. Launch!TypeOK' /\ OnItsWay'
    BY <1>2, <2>0 DEF LaunchInv, Launch!TypeOK, OnItsWay, Launch!Goto, Launch!Running, Launch!Answer
  <2>2. Launch!LaunchKeepsItsWord'
    BY <1>2, <2>0 DEF LaunchInv, Launch!TypeOK, Launch!LaunchKeepsItsWord, Launch!Goto,
                      Launch!Running, Launch!Answer
  <2> QED BY <2>1, <2>2 DEF LaunchInv
<1> QED BY <1>1, <1>2

(* The transaction of CreateBatch commits, whatever becomes of its request. *)
LEMMA InsertKeeps ==
  ASSUME Launch!LaunchAssumption, LaunchInv, NEW r \in Request, request[r].at = "inserting",
         batch = None, batch' = request[r].spec, UNCHANGED guards,
         NEW at \in {"created", "guarding", "lost"}, Launch!Goto(r, at),
         at = "created" <=> request[r].ladder = None /\ at # "lost"
  PROVE  LaunchInv'
<1>1. guards = {}
  BY DEF LaunchInv, Launch!TypeOK, Launch!LaunchKeepsItsWord, Launch!LaunchAssumption
<1>2. \A q \in Request : request[q].at \notin {"created", "warned", "guarding", "conflict"}
  BY DEF LaunchInv, Launch!TypeOK, Launch!LaunchKeepsItsWord, Launch!LaunchAssumption
<1>3. Launch!TypeOK' /\ OnItsWay'
  BY DEF LaunchInv, Launch!TypeOK, OnItsWay, Launch!Goto, Launch!Running, Launch!Answer
<1>4. Launch!LaunchKeepsItsWord'
  BY <1>1, <1>2 DEF LaunchInv, Launch!TypeOK, Launch!LaunchKeepsItsWord, Launch!LaunchAssumption,
                    Launch!Goto, Launch!Running, Launch!Answer
<1> QED BY <1>3, <1>4 DEF LaunchInv

(* The guard is attached, whatever the request hears of it (CreateGuard). *)
LEMMA GuardKeeps ==
  ASSUME Launch!LaunchAssumption, LaunchInv, NEW r \in Request, request[r].at = "guarding",
         UNCHANGED batch,
         guards' = guards \union {<<request[r].spec, request[r].ladder>>},
         NEW at \in {"created", "warned", "lost"}, Launch!Goto(r, at)
  PROVE  LaunchInv'
<1>1. request[r].spec \in Specification /\ request[r].ladder \in Ladder /\ request[r].spec = batch
  BY DEF LaunchInv, Launch!TypeOK, OnItsWay, Launch!LaunchKeepsItsWord
<1>2. <<request[r].spec, request[r].ladder>> \in Specification \X Ladder
  BY <1>1
<1>3. Launch!TypeOK' /\ OnItsWay'
  <2>1. guards' \subseteq Specification \X Ladder
    BY <1>2 DEF LaunchInv, Launch!TypeOK
  <2>2. request' \in [Request -> [at : Launch!Running \union Launch!Answer \union {"idle", "lost"},
                                 spec : Specification, ladder : Ladder \union {None},
                                 interval : Launch!Interval]]
    BY DEF LaunchInv, Launch!TypeOK, Launch!Goto, Launch!Running, Launch!Answer
  <2>3. OnItsWay'
    BY DEF LaunchInv, Launch!TypeOK, OnItsWay, Launch!Goto, Launch!Running, Launch!Answer
  <2> QED BY <2>1, <2>2, <2>3 DEF LaunchInv, Launch!TypeOK
<1>4. \A g \in guards' : g[1] = batch
  BY <1>1 DEF LaunchInv, Launch!LaunchKeepsItsWord
<1>5. \A q \in Request \ {r} : request'[q] = request[q]
  BY DEF LaunchInv, Launch!TypeOK, Launch!Goto
<1>6. request'[r] = [request[r] EXCEPT !.at = at]
  BY DEF LaunchInv, Launch!TypeOK, Launch!Goto
<1>7. Launch!LaunchKeepsItsWord'
  BY <1>1, <1>4, <1>5, <1>6 DEF LaunchInv, Launch!TypeOK, Launch!LaunchKeepsItsWord
<1> QED BY <1>3, <1>7 DEF LaunchInv

(* A request moves and the database does not. *)
LEMMA MoveKeeps ==
  ASSUME Launch!LaunchAssumption, LaunchInv, NEW r \in Request, UNCHANGED <<batch, guards>>,
         NEW at \in {"composing", "looking up", "inserting", "looking again", "refused", "lost", "warned"},
         at = "warned" => request[r].at = "guarding",
         at = "looking again" => batch # None, Launch!Goto(r, at)
  PROVE  LaunchInv'
<1>1. Launch!TypeOK' /\ OnItsWay'
  BY DEF LaunchInv, Launch!TypeOK, OnItsWay, Launch!Goto, Launch!Running, Launch!Answer
<1>2. Launch!LaunchKeepsItsWord'
  BY DEF LaunchInv, Launch!TypeOK, Launch!LaunchKeepsItsWord, Launch!Goto, Launch!Running,
         Launch!Answer
<1> QED BY <1>1, <1>2 DEF LaunchInv

LEMMA LaunchInitHolds == Launch!LaunchAssumption /\ Launch!Init => LaunchInv
  BY DEF Launch!Init, LaunchInv, Launch!TypeOK, OnItsWay, Launch!LaunchKeepsItsWord,
         Launch!LaunchAssumption, Launch!Running, Launch!Answer

LEMMA LaunchNextHolds == Launch!LaunchAssumption /\ LaunchInv /\ [Launch!Next]_(Launch!vars) => LaunchInv'
<1> SUFFICES ASSUME Launch!LaunchAssumption, LaunchInv, [Launch!Next]_(Launch!vars) PROVE LaunchInv'
  OBVIOUS
<1>1. CASE UNCHANGED Launch!vars
  BY <1>1 DEF LaunchInv, Launch!TypeOK, OnItsWay, Launch!LaunchKeepsItsWord, Launch!vars
<1>2. ASSUME NEW r \in Request, Launch!Send(r) \/ Launch!Compose(r) PROVE LaunchInv'
  BY <1>2, MoveKeeps DEF Launch!Send, Launch!Compose
<1>3. ASSUME NEW r \in Request, Launch!LookUp(r) \/ Launch!LookAgain(r) PROVE LaunchInv'
  <2>1. CASE Launch!LookUp(r) /\ batch # None
    BY <2>1, BatchFoundKeeps DEF Launch!LookUp, Launch!Running
  <2>2. CASE Launch!LookUp(r) /\ batch = None
    BY <2>2, MoveKeeps DEF Launch!LookUp
  <2>3. CASE Launch!LookAgain(r)
    BY <2>3, BatchFoundKeeps DEF Launch!LookAgain, Launch!Running, LaunchInv, OnItsWay
  <2> QED BY <1>3, <2>1, <2>2, <2>3
<1>4. ASSUME NEW r \in Request, Launch!Refuse(r) PROVE LaunchInv'
  BY <1>4, MoveKeeps DEF Launch!Refuse
<1>5. ASSUME NEW r \in Request, Launch!Insert(r) PROVE LaunchInv'
  <2>1. CASE batch = None
    BY <1>5, <2>1, InsertKeeps DEF Launch!Insert, Launch!WithBatch
  <2>2. CASE batch # None
    BY <1>5, <2>2, MoveKeeps DEF Launch!Insert
  <2> QED BY <2>1, <2>2
<1>6. ASSUME NEW r \in Request, Launch!AttachGuard(r) PROVE LaunchInv'
  BY <1>6, GuardKeeps DEF Launch!AttachGuard, Launch!Guarded
<1>9. ASSUME NEW r \in Request, Launch!RejectGuard(r) PROVE LaunchInv'
  BY <1>9, MoveKeeps DEF Launch!RejectGuard
<1>7. ASSUME NEW r \in Request, Launch!GuardFails(r) PROVE LaunchInv'
  <2>1. CASE guards' = guards
    BY <1>7, <2>1, MoveKeeps DEF Launch!GuardFails
  <2>2. CASE guards' # guards
    BY <1>7, <2>2, GuardKeeps DEF Launch!GuardFails, Launch!Guarded
  <2> QED BY <2>1, <2>2
<1>8. ASSUME NEW r \in Request, Launch!Fails(r) PROVE LaunchInv'
  <2>1. CASE UNCHANGED <<batch, guards>>
    BY <1>8, <2>1, MoveKeeps DEF Launch!Fails
  <2>2. CASE request[r].at = "inserting" /\ batch = None /\ batch' = request[r].spec /\ UNCHANGED guards
    BY <1>8, <2>2, InsertKeeps DEF Launch!Fails
  <2>3. CASE /\ request[r].at = "guarding" /\ UNCHANGED batch
             /\ guards' = guards \union {<<request[r].spec, request[r].ladder>>}
    BY <1>8, <2>3, GuardKeeps DEF Launch!Fails
  <2> QED BY <1>8, <2>1, <2>2, <2>3 DEF Launch!Fails, Launch!Guarded
<1> QED
  BY <1>1, <1>2, <1>3, <1>4, <1>5, <1>6, <1>7, <1>8, <1>9 DEF Launch!Next, Launch!RequestStep


-----------------------------------------------------------------------------
(* Client: what CollectPagesWithMeta makes of the pages of a list. *)

(* The operators of FiniteSets, as Client sees them. *)
LEMMA SameSets ==
  /\ \A S : Client!Cardinality(S) = Cardinality(S)
  /\ \A S : Client!IsFiniteSet(S) <=> IsFiniteSet(S)
<1>1. \A S : Client!Cardinality(S) = Cardinality(S)
  BY DEF Client!Cardinality, Cardinality
<1>2. \A S : Client!IsFiniteSet(S) <=> IsFiniteSet(S)
  BY DEF Client!IsFiniteSet, IsFiniteSet
<1> QED BY <1>1, <1>2

LEMMA LeastNumber ==
  ASSUME NEW N, N \subseteq Nat, N # {}
  PROVE  \E m \in N : \A n \in N : m <= n
<1>1. PICK m \in N : \A n \in N : <<n, m>> \notin OpToRel(<, Nat)
  BY NatLessThanWellFounded, WFMin
<1>2. \A n \in N : ~(n < m)
  BY <1>1 DEF OpToRel
<1> QED BY <1>2

(* A part of a finite set that lacks one of its elements is smaller. *)
LEMMA Smaller ==
  ASSUME NEW S, IsFiniteSet(S), NEW T, T \subseteq S, NEW x \in S, x \notin T
  PROVE  Cardinality(T) < Cardinality(S)
<1>1. Cardinality(T) <= Cardinality(S) /\ Cardinality(T) # Cardinality(S)
  BY FS_Subset
<1>2. Cardinality(T) \in Nat /\ Cardinality(S) \in Nat
  BY FS_Subset, FS_CardinalityType
<1> QED BY <1>1, <1>2

(* Of finitely many numbers one is the greatest: the one with the fewest above it. *)
LEMMA GreatestNumber ==
  ASSUME NEW S, S \subseteq Nat, IsFiniteSet(S), S # {}
  PROVE  \E m \in S : \A j \in S : j <= m
<1> DEFINE Above(i) == {j \in S : j > i}
<1>1. \A i \in S : IsFiniteSet(Above(i)) /\ Cardinality(Above(i)) \in Nat
  BY FS_Subset, FS_CardinalityType
<1>2. PICK n \in {Cardinality(Above(i)) : i \in S} : \A k \in {Cardinality(Above(i)) : i \in S} : n <= k
  <2>1. {Cardinality(Above(i)) : i \in S} \subseteq Nat
    BY <1>1
  <2>2. {Cardinality(Above(i)) : i \in S} # {}
    OBVIOUS
  <2> QED BY <2>1, <2>2, LeastNumber, Zenon
<1>3. PICK m \in S : n = Cardinality(Above(m))
  BY <1>2
<1>4. ASSUME NEW j \in S, m < j PROVE FALSE
  <2>1. Above(j) \subseteq Above(m) /\ j \in Above(m) /\ j \notin Above(j)
    <3>1. m \in Nat /\ j \in Nat /\ \A k \in S : k \in Nat
      OBVIOUS
    <3>2. \A k \in S : k > j => k > m
      BY <1>4, <3>1
    <3>3. j > m /\ ~(j > j)
      BY <1>4, <3>1
    <3> QED BY <3>2, <3>3
  <2>2. Cardinality(Above(j)) < Cardinality(Above(m))
    BY <1>1, <2>1, Smaller
  <2>3. Cardinality(Above(m)) <= Cardinality(Above(j))
    BY <1>2, <1>3
  <2>4. Cardinality(Above(m)) \in Nat /\ Cardinality(Above(j)) \in Nat
    BY <1>1
  <2> HIDE DEF Above
  <2> QED BY <2>2, <2>3, <2>4
<1>5. \A j \in S : ~(m < j)
  BY <1>4
<1> QED BY <1>5

(* What Meta sends after a place: the first objects behind it, at least one if there is one. *)
LEMMA PageIsFirst ==
  ASSUME Client!ClientAssumption, NEW after \in Nat, NEW limit \in Nat \ {0}, listed \subseteq Item
  PROVE  LET page == Client!Page(after, limit)  rest == Client!Rest(after) IN
         /\ page \subseteq rest
         /\ page = {} => rest = {}
         /\ page # {} => /\ Client!LastOf(page) \in page
                         /\ \A i \in page : i <= Client!LastOf(page)
                         /\ \A i \in rest : i <= Client!LastOf(page) => i \in page
<1> DEFINE rest == Client!Rest(after)
           page == Client!Page(after, limit)
           Before(i) == {j \in rest : j <= i}
<1>1. rest \subseteq Nat /\ IsFiniteSet(rest)
  BY SameSets, FS_Subset DEF Client!ClientAssumption, Client!Rest
<1>2. page = {i \in rest : Cardinality(Before(i)) <= limit} /\ page \subseteq rest
  BY SameSets DEF Client!Page
<1>3. \A i \in rest : IsFiniteSet(Before(i)) /\ Cardinality(Before(i)) \in Nat
  BY <1>1, FS_Subset, FS_CardinalityType
<1> HIDE DEF page, rest
<1>4. ASSUME rest # {} PROVE page # {}
  <2>1. PICK m \in rest : \A j \in rest : m <= j
    BY <1>1, <1>4, LeastNumber
  <2>2. Before(m) = {m}
    <3>1. m \in Nat /\ \A j \in rest : j \in Nat
      BY <1>1
    <3>2. \A j \in rest : j <= m <=> j = m
      BY <2>1, <3>1
    <3> QED BY <3>2
  <2>3. Cardinality(Before(m)) = 1
    BY <2>2, FS_Singleton
  <2>4. Cardinality(Before(m)) <= limit
    BY <2>3
  <2> QED BY <1>2, <2>4
<1>5. ASSUME page # {}
      PROVE  Client!LastOf(page) \in page /\ \A i \in page : i <= Client!LastOf(page)
  <2>1. page \subseteq Nat /\ IsFiniteSet(page)
    BY <1>1, <1>2, FS_Subset
  <2>2. \E m \in page : \A i \in page : i <= m
    BY <1>5, <2>1, GreatestNumber
  <2> QED BY <2>2 DEF Client!LastOf
<1>6. ASSUME NEW l \in page, NEW i \in rest, i <= l PROVE i \in page
  <2>1. Before(i) \subseteq Before(l) /\ l \in rest
    <3>1. i \in Nat /\ l \in Nat /\ l \in rest /\ \A j \in rest : j \in Nat
      BY <1>1, <1>2
    <3>2. \A j \in rest : j <= i => j <= l
      BY <1>6, <3>1
    <3> QED BY <3>1, <3>2
  <2>2. Cardinality(Before(i)) <= Cardinality(Before(l)) /\ Cardinality(Before(l)) <= limit
    BY <1>2, <1>3, <2>1, FS_Subset
  <2>3. Cardinality(Before(i)) \in Nat /\ Cardinality(Before(l)) \in Nat
    BY <1>3, <2>1
  <2> HIDE DEF Before
  <2>4. Cardinality(Before(i)) <= limit
    BY <2>2, <2>3
  <2> QED BY <1>2, <2>4
<1> QED BY <1>2, <1>4, <1>5, <1>6 DEF page, rest

(* Where a call is under way. *)
Running == {"asking", "sleeping", "sending"}

CallState ==
  [at : Running \union {"idle", "returned", "failed"}, kind : Client!Kind, attempt : 0..MaxRetries,
   limit : MinLimit..Limit, page : 0..(MaxPages - 1), after : Item \union {0}, got : [Item -> Nat],
   steady : SUBSET Item, made : 0..(MaxRetries + 1)]

(* Of a list everything that stayed has been fetched up to the place the next page starts at, *)
(* and nothing behind it.                                                                      *)
FetchedSoFar(c) ==
  \A i \in Item :
    /\ c.got[i] <= 1 /\ (i > c.after => c.got[i] = 0)
    /\ i \in c.steady /\ i <= c.after => c.got[i] = 1

(* What a call knows of the list while it runs, and what has come of it. *)
OnPage(c) ==
  /\ c.at \in Running => c.steady \subseteq listed
  /\ c.at \in Running /\ c.kind = "read" => FetchedSoFar(c)
  /\ c.at = "returned" => c.kind # "loop"

(* A create has not been carried out while its call runs. *)
NotYet(c) ==
  /\ c.kind = "create" /\ c.at \in Running => c.made = 0
  /\ c.made <= 1

ClientInv ==
  /\ Client!TypeOK /\ call \in CallState
  /\ OnPage(call) /\ NotYet(call)
  /\ Client!ListIsWhole

LEMMA ClientNumbers ==
  /\ Client!ClientAssumption /\ Item \subseteq Nat
  /\ MaxRetries \in Nat /\ MaxRetries > 0 /\ MaxPages \in Nat /\ MaxPages > 0
  /\ MinLimit \in Nat /\ MinLimit > 0 /\ Limit \in Nat /\ MinLimit <= Limit
  BY LaunchingAssumption DEF Client!ClientAssumption

LEMMA NoCallIs ==
  LET c == Client!NoCall IN
  /\ c \in CallState /\ c.at = "idle" /\ c.kind = "read" /\ c.made = 0
  /\ c.after = 0 /\ c.got = [i \in Item |-> 0]
<1>1. Client!NoCall \in CallState
  <2>1. /\ Client!Nothing \in [Item -> Nat] /\ "read" \in Client!Kind
        /\ "idle" \in Running \union {"idle", "returned", "failed"}
    BY DEF Client!Nothing, Client!Kind
  <2>2. 0 \in 0..MaxRetries /\ Limit \in MinLimit..Limit /\ 0 \in 0..(MaxPages - 1)
        /\ 0 \in 0..(MaxRetries + 1)
    BY ClientNumbers
  <2> QED BY <2>1, <2>2 DEF Client!NoCall, CallState
<1>2. /\ Client!NoCall.at = "idle" /\ Client!NoCall.kind = "read" /\ Client!NoCall.made = 0
      /\ Client!NoCall.after = 0 /\ Client!NoCall.got = [i \in Item |-> 0]
  BY DEF Client!NoCall, Client!Nothing
<1> QED BY <1>1, <1>2

LEMMA NewCall ==
  ASSUME NEW k \in Client!Kind, NEW s \in SUBSET Item
  PROVE  LET c == [Client!NoCall EXCEPT !.at = "asking", !.kind = k, !.steady = s] IN
         /\ c \in CallState /\ c.at = "asking" /\ c.kind = k /\ c.steady = s /\ c.made = 0
         /\ c.after = 0 /\ c.got = [i \in Item |-> 0]
  BY NoCallIs DEF CallState, Running

(* A call ends as anything but a list. *)
LEMMA CallOver ==
  ASSUME ClientInv, call' \in CallState, call'.at = "failed" \/ (call'.kind = "create" /\ call'.at = "returned"),
         call'.made <= 1, UNCHANGED <<listed, changes>>, blocked' \in BOOLEAN, pressed' \in BOOLEAN
  PROVE  ClientInv'
<1>1. Client!TypeOK'
  BY DEF ClientInv, Client!TypeOK, CallState, Running, Client!Kind
<1>2. OnPage(call)' /\ NotYet(call)' /\ Client!ListIsWhole'
  BY DEF OnPage, NotYet, Client!ListIsWhole, Running
<1> QED BY <1>1, <1>2 DEF ClientInv, CallState

(* A call goes on, with what it has. *)
LEMMA CallGoesOn ==
  ASSUME ClientInv, call.at \in Running, call' \in CallState, call'.at \in Running,
         call'.kind = call.kind, call'.after = call.after, call'.got = call.got,
         call'.steady = call.steady, call'.made = call.made,
         UNCHANGED <<listed, changes>>, blocked' \in BOOLEAN, pressed' \in BOOLEAN
  PROVE  ClientInv'
<1>1. Client!TypeOK'
  BY DEF ClientInv, Client!TypeOK, CallState, Running, Client!Kind
<1>2. OnPage(call)'
  BY DEF ClientInv, OnPage, FetchedSoFar, Running
<1>3. NotYet(call)' /\ Client!ListIsWhole'
  BY DEF ClientInv, NotYet, Client!ListIsWhole, Running
<1> QED BY <1>1, <1>2, <1>3 DEF ClientInv, CallState

LEMMA ExecutedIs ==
  ASSUME ClientInv, call.at \in Running, NEW b \in BOOLEAN
  PROVE  LET e == Client!Executed(b) IN
         /\ e \in CallState /\ e.at = call.at /\ e.kind = call.kind /\ e.attempt = call.attempt
         /\ e.limit = call.limit /\ e.page = call.page /\ e.after = call.after /\ e.got = call.got
         /\ e.steady = call.steady /\ e.made <= 1
         /\ e.kind # "create" => e.made = call.made
<1> DEFINE m == IF call.kind = "create" /\ b THEN call.made + 1 ELSE call.made
<1>1. m \in 0..(MaxRetries + 1) /\ m <= 1 /\ (call.kind # "create" => m = call.made)
  BY ClientNumbers DEF ClientInv, NotYet, CallState
<1>2. Client!Executed(b) = [call EXCEPT !.made = m]
  BY DEF Client!Executed
<1> HIDE DEF m
<1> QED BY <1>1, <1>2 DEF ClientInv, CallState

LEMMA TryAgainKeeps ==
  ASSUME ClientInv, call.at \in Running, NEW b \in BOOLEAN, Client!TryAgain(b),
         UNCHANGED <<listed, changes>>, blocked' \in BOOLEAN, pressed' \in BOOLEAN
  PROVE  ClientInv'
<1> DEFINE e == Client!Executed(b)
<1>1. /\ e \in CallState /\ e.at = call.at /\ e.kind = call.kind /\ e.attempt = call.attempt
      /\ e.limit = call.limit /\ e.page = call.page /\ e.after = call.after /\ e.got = call.got
      /\ e.steady = call.steady /\ e.made <= 1
      /\ e.kind # "create" => e.made = call.made
  BY ExecutedIs
<1>2. call' = IF call.attempt < Client!Retries(call.kind)
              THEN [e EXCEPT !.at = "asking", !.attempt = call.attempt + 1]
              ELSE [e EXCEPT !.at = "failed"]
  BY DEF Client!TryAgain
<1>3. call.attempt \in 0..MaxRetries /\ call.kind \in Client!Kind
  BY DEF ClientInv, CallState
<1> HIDE DEF e
<1>4. CASE call.attempt < Client!Retries(call.kind)
  <2>1. call.kind # "create" /\ call.attempt + 1 \in 0..MaxRetries
    BY <1>3, <1>4, ClientNumbers DEF Client!Retries
  <2>2. call' = [e EXCEPT !.at = "asking", !.attempt = call.attempt + 1]
    BY <1>2, <1>4
  <2>3. call' \in CallState /\ call'.at = "asking" /\ call'.kind = call.kind
        /\ call'.after = call.after /\ call'.got = call.got /\ call'.steady = call.steady
        /\ call'.made = call.made
    BY <1>1, <2>1, <2>2 DEF CallState, Running
  <2>4. call'.at \in Running
    BY <2>3 DEF Running
  <2> QED BY <2>3, <2>4, CallGoesOn
<1>5. CASE ~(call.attempt < Client!Retries(call.kind))
  <2>1. call' = [e EXCEPT !.at = "failed"]
    BY <1>2, <1>5
  <2>2. call' \in CallState /\ call'.at = "failed" /\ call'.made <= 1
    BY <1>1, <2>1 DEF CallState, Running
  <2>3. call'.at = "failed" \/ (call'.kind = "create" /\ call'.at = "returned")
    BY <2>2
  <2> QED BY <2>2, <2>3, CallOver
<1> QED BY <1>4, <1>5

LEMMA CallTypes ==
  ASSUME ClientInv
  PROVE  /\ call \in CallState /\ call.made <= 1 /\ listed \subseteq Item
         /\ blocked \in BOOLEAN /\ pressed \in BOOLEAN
         /\ \A at \in {"asking", "sleeping", "sending", "failed", "returned"} :
              [call EXCEPT !.at = at] \in CallState
  BY DEF ClientInv, Client!TypeOK, NotYet, CallState, Running

LEMMA BeginKeeps ==
  ASSUME ClientInv, Client!Begin
  PROVE  ClientInv'
<1>1. PICK k \in Client!Kind :
        /\ call' = [Client!NoCall EXCEPT !.at = "asking", !.kind = k, !.steady = listed]
        /\ UNCHANGED <<listed, changes, blocked, pressed>>
  BY DEF Client!Begin
<1>2. /\ call' \in CallState /\ call'.at = "asking" /\ call'.kind = k /\ call'.steady = listed
      /\ call'.made = 0 /\ call'.after = 0 /\ call'.got = [i \in Item |-> 0]
  <2>1. listed \in SUBSET Item
    BY CallTypes
  <2>2. LET c == [Client!NoCall EXCEPT !.at = "asking", !.kind = k, !.steady = listed] IN
         /\ c \in CallState /\ c.at = "asking" /\ c.kind = k /\ c.steady = listed /\ c.made = 0
         /\ c.after = 0 /\ c.got = [i \in Item |-> 0]
    BY <2>1, NewCall
  <2> QED BY <1>1, <2>2
<1>3. Client!TypeOK'
  BY <1>1, <1>2 DEF ClientInv, Client!TypeOK, CallState, Running, Client!Kind
<1>4. FetchedSoFar(call')
  BY <1>2, ClientNumbers DEF FetchedSoFar, Client!ClientAssumption
<1>5. OnPage(call)'
  BY <1>1, <1>2, <1>4 DEF OnPage, FetchedSoFar, Running
<1>6. NotYet(call)' /\ Client!ListIsWhole'
  BY <1>2 DEF NotYet, Client!ListIsWhole
<1> QED BY <1>2, <1>3, <1>5, <1>6 DEF ClientInv, CallState

(* The governor lets it through at once, or after a sleep. *)
LEMMA GovernorKeeps ==
  ASSUME ClientInv, Client!AskGovernor \/ Client!Wake
  PROVE  ClientInv'
<1>1. /\ call.at \in Running /\ UNCHANGED <<listed, changes, blocked, pressed>>
      /\ \E at \in {"sleeping", "sending"} : call' = [call EXCEPT !.at = at]
  BY DEF Client!AskGovernor, Client!Wake, Client!Goto, Running
<1>2. /\ call' \in CallState /\ call'.at \in Running /\ call'.kind = call.kind
      /\ call'.after = call.after /\ call'.got = call.got /\ call'.steady = call.steady
      /\ call'.made = call.made
  BY <1>1, CallTypes DEF CallState, Running
<1> QED BY <1>1, <1>2, CallTypes, CallGoesOn

LEMMA Observed ==
  ASSUME ClientInv, Client!Observe
  PROVE  UNCHANGED <<listed, changes>> /\ blocked' \in BOOLEAN /\ pressed' \in BOOLEAN
  BY CallTypes DEF Client!Observe

(* The answers that say nothing, or that it is over. *)
LEMMA FailuresKeep ==
  ASSUME ClientInv,
         Client!Refused \/ Client!Lost \/ Client!Garbled \/ Client!Rejected \/ Client!ContextEnds
  PROVE  ClientInv'
<1>1. CASE Client!Refused
  BY <1>1, Observed, TryAgainKeeps DEF Client!Refused, Running
<1>2. CASE Client!Lost
  BY <1>2, CallTypes, TryAgainKeeps DEF Client!Lost, Running
<1>3. ASSUME NEW b \in BOOLEAN, call.at \in Running, UNCHANGED <<listed, changes>>,
             blocked' \in BOOLEAN, pressed' \in BOOLEAN,
             call' = [Client!Executed(b) EXCEPT !.at = "failed"]
      PROVE  ClientInv'
  <2>1. Client!Executed(b) \in CallState /\ Client!Executed(b).made <= 1
    BY <1>3, ExecutedIs
  <2>2. call' \in CallState /\ call'.at = "failed" /\ call'.made <= 1
    BY <1>3, <2>1 DEF CallState, Running
  <2>3. call'.at = "failed" \/ (call'.kind = "create" /\ call'.at = "returned")
    BY <2>2
  <2> QED BY <1>3, <2>2, <2>3, CallOver
<1>4. CASE Client!Garbled
  BY <1>3, <1>4, Observed DEF Client!Garbled, Running
<1>5. CASE Client!ContextEnds
  BY <1>3, <1>5, CallTypes DEF Client!ContextEnds, Running
<1>6. CASE Client!Rejected
  <2>1. call' = [call EXCEPT !.at = "failed"]
    BY <1>6 DEF Client!Rejected, Client!Goto
  <2>2. call' \in CallState /\ call'.at = "failed" /\ call'.made <= 1
    BY <2>1, CallTypes DEF CallState
  <2>3. call'.at = "failed" \/ (call'.kind = "create" /\ call'.at = "returned")
    BY <2>2
  <2>4. UNCHANGED <<listed, changes>> /\ blocked' \in BOOLEAN /\ pressed' \in BOOLEAN
    BY <1>6, Observed DEF Client!Rejected
  <2> QED BY <2>2, <2>3, <2>4, CallOver
<1> QED BY <1>1, <1>2, <1>4, <1>5, <1>6

LEMMA CreatedKeeps ==
  ASSUME ClientInv, Client!Created
  PROVE  ClientInv'
<1>1. call.at \in Running /\ call.kind = "create" /\ call' = [Client!Executed(TRUE) EXCEPT !.at = "returned"]
  BY DEF Client!Created, Running
<1>2. /\ Client!Executed(TRUE) \in CallState /\ Client!Executed(TRUE).made <= 1
      /\ Client!Executed(TRUE).kind = "create"
  BY <1>1, ExecutedIs
<1>3. call' \in CallState /\ call'.at = "returned" /\ call'.kind = "create" /\ call'.made <= 1
  BY <1>1, <1>2 DEF CallState, Running
<1>4. call'.at = "failed" \/ (call'.kind = "create" /\ call'.at = "returned")
  BY <1>3
<1>5. UNCHANGED <<listed, changes>> /\ blocked' \in BOOLEAN /\ pressed' \in BOOLEAN
  BY Observed DEF Client!Created
<1> QED BY <1>3, <1>4, <1>5, CallOver

(* A read of smaller pages starts again with nothing (CollectPagesAdaptive). *)
LEMMA OversizedKeeps ==
  ASSUME ClientInv, Client!Oversized
  PROVE  ClientInv'
<1>0. call.at = "sending" /\ call.kind # "create" /\ Client!Observe
  BY DEF Client!Oversized
<1>1. UNCHANGED <<listed, changes>> /\ blocked' \in BOOLEAN /\ pressed' \in BOOLEAN
  BY <1>0, Observed
<1>2. CASE ~Client!MayShrink(call.limit)
  <2>1. call' = [call EXCEPT !.at = "failed"]
    BY <1>2 DEF Client!Oversized
  <2>2. call' \in CallState /\ call'.at = "failed" /\ call'.made <= 1
    BY <2>1, CallTypes DEF CallState
  <2>3. call'.at = "failed" \/ (call'.kind = "create" /\ call'.at = "returned")
    BY <2>2
  <2> QED BY <1>1, <2>2, <2>3, CallOver
<1>3. CASE Client!MayShrink(call.limit)
  <2>1. call' = [call EXCEPT !.at = "asking", !.limit = Client!Smaller(call.limit),
                             !.attempt = 0, !.page = 0, !.after = 0, !.got = Client!Nothing]
    BY <1>3 DEF Client!Oversized
  <2>2. Client!Smaller(call.limit) \in MinLimit..Limit
    <3>1. call.limit \in MinLimit..Limit
      BY CallTypes DEF CallState
    <3> QED BY <3>1, ClientNumbers DEF Client!Smaller
  <2>3. 0 \in 0..MaxRetries /\ 0 \in 0..(MaxPages - 1) /\ Client!Nothing \in [Item -> Nat]
    BY ClientNumbers DEF Client!Nothing
  <2>4. /\ call' \in CallState /\ call'.at = "asking" /\ call'.kind = call.kind /\ call'.after = 0
        /\ call'.got = [i \in Item |-> 0] /\ call'.steady = call.steady /\ call'.made = call.made
    BY <2>1, <2>2, <2>3, CallTypes DEF CallState, Running, Client!Nothing
  <2>5. Client!TypeOK'
    BY <1>1, <2>4 DEF ClientInv, Client!TypeOK, CallState, Running, Client!Kind
  <2>6. FetchedSoFar(call')
    BY <2>4, ClientNumbers DEF FetchedSoFar, Client!ClientAssumption
  <2>7. OnPage(call)'
    BY <1>0, <1>1, <2>4, <2>6 DEF ClientInv, OnPage, FetchedSoFar, Running
  <2>8. NotYet(call)' /\ Client!ListIsWhole'
    BY <1>0, <2>4, CallTypes DEF NotYet, Client!ListIsWhole
  <2> QED BY <2>4, <2>5, <2>7, <2>8 DEF ClientInv, CallState
<1> QED BY <1>2, <1>3

(* The page of a list, added to what was fetched: everything that stayed is there once, up to *)
(* the last object of the page (CollectPagesWithMeta).                                         *)
LEMMA PageAdds ==
  ASSUME ClientInv, call.at \in Running, call.kind = "read",
         NEW page, page = Client!Page(call.after, call.limit), page # {}
  PROVE  LET last == Client!LastOf(page) IN
         /\ last \in Item /\ page \subseteq Item
         /\ \A i \in Item : LET n == call.got[i] + (IF i \in page THEN 1 ELSE 0) IN
              /\ n <= 1 /\ (i > last => n = 0)
              /\ i \in call.steady /\ i <= last => n = 1
<1> DEFINE last == Client!LastOf(page)
<1>1. /\ call.after \in Nat /\ call.limit \in Nat \ {0} /\ listed \subseteq Item
      /\ call.steady \subseteq listed /\ FetchedSoFar(call) /\ \A i \in Item : call.got[i] \in Nat
  BY CallTypes, ClientNumbers DEF ClientInv, OnPage, CallState
<1>2. /\ page \subseteq Client!Rest(call.after) /\ last \in page /\ \A i \in page : i <= last
      /\ \A i \in Client!Rest(call.after) : i <= last => i \in page
  BY <1>1, PageIsFirst, ClientNumbers
<1>3. last \in Item /\ page \subseteq Item /\ last > call.after /\ \A i \in page : i > call.after
  BY <1>1, <1>2 DEF Client!Rest
<1>4. ASSUME NEW i \in Item
      PROVE  LET n == call.got[i] + (IF i \in page THEN 1 ELSE 0) IN
              /\ n <= 1 /\ (i > last => n = 0)
              /\ i \in call.steady /\ i <= last => n = 1
  <2>0. i \in Nat /\ last \in Nat /\ call.after \in Nat /\ call.got[i] \in Nat
    BY <1>1, <1>3, ClientNumbers
  <2> HIDE DEF last
  <2>1. CASE i \in page
    <3>1. i > call.after /\ i <= last /\ call.got[i] = 0
      BY <1>1, <1>2, <1>3, <2>1 DEF FetchedSoFar
    <3> QED BY <2>0, <2>1, <3>1
  <2>2. CASE i \notin page
    <3>1. call.got[i] <= 1 /\ (i > call.after => call.got[i] = 0)
          /\ (i \in call.steady /\ i <= call.after => call.got[i] = 1)
      BY <1>1 DEF FetchedSoFar
    <3>2. i \in call.steady /\ i <= last => i <= call.after
      BY <1>1, <1>2, <2>0, <2>2 DEF Client!Rest
    <3>3. i > last => i > call.after
      BY <1>3, <2>0
    <3> QED BY <2>0, <2>2, <3>1, <3>2, <3>3
  <2> QED BY <2>1, <2>2
<1> HIDE DEF last
<1>5. /\ last \in Item /\ page \subseteq Item
      /\ \A i \in Item : LET n == call.got[i] + (IF i \in page THEN 1 ELSE 0) IN
              /\ n <= 1 /\ (i > last => n = 0)
              /\ i \in call.steady /\ i <= last => n = 1
  BY <1>3, <1>4
<1> QED BY <1>5 DEF last

LEMMA PageKeeps ==
  ASSUME ClientInv, Client!PageArrives
  PROVE  ClientInv'
<1> DEFINE page == Client!Page(call.after, call.limit)
           last == IF page = {} \/ call.kind = "loop" THEN 0 ELSE Client!LastOf(page)
           more == call.kind = "loop" \/ (page # {} /\ Client!Rest(last) # {})
           g == [i \in Item |-> call.got[i] + IF i \in page THEN 1 ELSE 0]
<1>1. /\ call.at = "sending" /\ call.kind # "create" /\ call.kind \in Client!Kind /\ Client!Observe
      /\ call' = IF ~more THEN [[call EXCEPT !.got = g] EXCEPT !.at = "returned"]
                 ELSE IF call.page + 1 = MaxPages THEN [[call EXCEPT !.got = g] EXCEPT !.at = "failed"]
                 ELSE [[call EXCEPT !.got = g] EXCEPT !.at = "asking", !.attempt = 0,
                                                      !.page = call.page + 1, !.after = last]
  BY CallTypes DEF Client!PageArrives, CallState
<1>2. UNCHANGED <<listed, changes>> /\ blocked' \in BOOLEAN /\ pressed' \in BOOLEAN
  BY <1>1, Observed
<1>3. g \in [Item -> Nat]
  BY CallTypes DEF CallState
<1>4. \A i \in Item : g[i] = call.got[i] + IF i \in page THEN 1 ELSE 0
  OBVIOUS
<1>5. call.steady \subseteq listed /\ listed \subseteq Item /\ call.kind \in {"read", "loop"}
      /\ (call.kind = "read" => FetchedSoFar(call)) /\ call.after \in Nat /\ call.limit \in Nat \ {0}
      /\ \A i \in Item : i \in Nat /\ call.got[i] \in Nat
  BY <1>1, CallTypes, ClientNumbers DEF ClientInv, OnPage, Running, CallState, Client!Kind
<1>6. page = {} => Client!Rest(call.after) = {}
  BY <1>5, PageIsFirst, ClientNumbers
<1>7. call.kind = "read" /\ page # {}
        => /\ last \in Item
           /\ \A i \in Item : /\ g[i] <= 1 /\ (i > last => g[i] = 0)
                              /\ i \in call.steady /\ i <= last => g[i] = 1
  <2> SUFFICES ASSUME call.kind = "read", page # {}
               PROVE  /\ last \in Item
                      /\ \A i \in Item : /\ g[i] <= 1 /\ (i > last => g[i] = 0)
                                         /\ i \in call.steady /\ i <= last => g[i] = 1
    OBVIOUS
  <2>1. last = Client!LastOf(page) /\ call.at \in Running
    BY <1>1 DEF Running
  <2> HIDE DEF page, last
  <2>2. PICK p : p = page
    OBVIOUS
  <2>3. p = Client!Page(call.after, call.limit)
    BY <2>2 DEF page
  <2> QED BY <1>4, <2>1, <2>2, <2>3, PageAdds
<1>8. last \in Item \union {0}
  <2>1. CASE call.kind = "loop" \/ page = {}
    BY <2>1
  <2> QED BY <1>5, <1>7, <2>1
<1> HIDE DEF g, page
<1>9. CASE ~more
  <2>1. call' = [[call EXCEPT !.got = g] EXCEPT !.at = "returned"]
    BY <1>1, <1>9
  <2>2. /\ call' \in CallState /\ call'.at = "returned" /\ call'.kind = call.kind /\ call'.got = g
        /\ call'.steady = call.steady /\ call'.made = call.made
    BY <1>3, <2>1, CallTypes DEF CallState, Running
  <2>3. call.kind = "read"
    BY <1>5, <1>9
  <2>4. \A i \in Item : g[i] <= 1 /\ (i \in call.steady => g[i] = 1)
    <3> SUFFICES ASSUME NEW i \in Item PROVE g[i] <= 1 /\ (i \in call.steady => g[i] = 1)
      OBVIOUS
    <3>1. CASE page = {}
      <4>1. i \in call.steady => i <= call.after
        BY <1>5, <1>6, <3>1 DEF Client!Rest
      <4>2. g[i] = call.got[i]
        BY <1>4, <1>5, <3>1
      <4> QED BY <1>5, <2>3, <4>1, <4>2 DEF FetchedSoFar
    <3>2. CASE page # {}
      <4>1. Client!Rest(last) = {} /\ last \in Item
        BY <1>7, <1>9, <2>3, <3>2
      <4> HIDE DEF last
      <4>2. i \in call.steady => i <= last
        BY <1>5, <4>1 DEF Client!Rest
      <4> QED BY <1>7, <2>3, <3>2, <4>2
    <3> QED BY <3>1, <3>2
  <2>5. Client!TypeOK'
    BY <1>2, <2>2 DEF ClientInv, Client!TypeOK, CallState, Running, Client!Kind
  <2>6. OnPage(call)' /\ NotYet(call)'
    BY <1>1, <2>2, <2>3, CallTypes DEF OnPage, NotYet, Running
  <2>7. Client!ListIsWhole'
    BY <2>2, <2>4 DEF Client!ListIsWhole
  <2> QED BY <2>2, <2>5, <2>6, <2>7 DEF ClientInv, CallState
<1>10. CASE more /\ call.page + 1 = MaxPages
  <2>1. call' = [[call EXCEPT !.got = g] EXCEPT !.at = "failed"]
    BY <1>1, <1>10
  <2>2. call' \in CallState /\ call'.at = "failed" /\ call'.made <= 1
    BY <1>3, <2>1, CallTypes DEF CallState, Running
  <2>3. call'.at = "failed" \/ (call'.kind = "create" /\ call'.at = "returned")
    BY <2>2
  <2> QED BY <1>2, <2>2, <2>3, CallOver
<1>11. CASE more /\ call.page + 1 # MaxPages
  <2> HIDE DEF last
  <2>1. call' = [[call EXCEPT !.got = g] EXCEPT !.at = "asking", !.attempt = 0,
                                                !.page = call.page + 1, !.after = last]
    BY <1>1, <1>11
  <2>2. call.page + 1 \in 0..(MaxPages - 1) /\ 0 \in 0..MaxRetries
    <3>1. call.page \in 0..(MaxPages - 1)
      BY CallTypes DEF CallState
    <3> HIDE DEF more
    <3> QED BY <1>11, <3>1, ClientNumbers
  <2>3. /\ call' \in CallState /\ call'.at = "asking" /\ call'.kind = call.kind /\ call'.got = g
        /\ call'.steady = call.steady /\ call'.made = call.made /\ call'.after = last
    BY <1>3, <1>8, <2>1, <2>2, CallTypes DEF CallState, Running
  <2>4. call.kind = "read" => FetchedSoFar(call')
    <3>1. call.kind = "read" => page # {}
      BY <1>11
    <3> QED BY <1>7, <2>3, <3>1 DEF FetchedSoFar
  <2>5. Client!TypeOK'
    BY <1>2, <2>3 DEF ClientInv, Client!TypeOK, CallState, Running, Client!Kind
  <2>6. OnPage(call)'
    BY <1>2, <1>5, <2>3, <2>4 DEF OnPage, FetchedSoFar, Running
  <2>7. NotYet(call)' /\ Client!ListIsWhole'
    BY <1>1, <2>3, CallTypes DEF NotYet, Client!ListIsWhole
  <2> QED BY <2>3, <2>5, <2>6, <2>7 DEF ClientInv, CallState
<1> QED BY <1>9, <1>10, <1>11

(* An object that comes or goes is no longer one that stayed. *)
LEMMA ListChangesKeeps ==
  ASSUME ClientInv, Client!ListChanges
  PROVE  ClientInv'
<1>1. /\ call' = [call EXCEPT !.steady = call.steady \intersect listed']
      /\ changes' = changes + 1 /\ changes < MaxChanges /\ UNCHANGED <<blocked, pressed>>
      /\ listed' \subseteq Item
  BY CallTypes DEF Client!ListChanges
<1>2. /\ call' \in CallState /\ call'.at = call.at /\ call'.kind = call.kind /\ call'.got = call.got
      /\ call'.steady = call.steady \intersect listed' /\ call'.made = call.made
      /\ call'.after = call.after
  BY <1>1, CallTypes DEF CallState
<1>3. changes' \in 0..MaxChanges
  BY <1>1, ClientNumbers DEF ClientInv, Client!TypeOK, Client!ClientAssumption
<1>4. Client!TypeOK'
  BY <1>1, <1>2, <1>3, CallTypes DEF Client!TypeOK, CallState, Running, Client!Kind
<1>5. OnPage(call)'
  BY <1>2 DEF ClientInv, OnPage, FetchedSoFar
<1>6. NotYet(call)' /\ Client!ListIsWhole'
  BY <1>2 DEF ClientInv, NotYet, Client!ListIsWhole
<1> QED BY <1>2, <1>4, <1>5, <1>6 DEF ClientInv, CallState

(* What another call hears, or a block that runs out, leaves this one alone. *)
LEMMA ElsewhereKeeps ==
  ASSUME ClientInv, UNCHANGED <<listed, changes, call>>, blocked' \in BOOLEAN, pressed' \in BOOLEAN
  PROVE  ClientInv'
<1>1. Client!TypeOK'
  BY DEF ClientInv, Client!TypeOK
<1>2. OnPage(call)' /\ NotYet(call)' /\ Client!ListIsWhole'
  BY DEF ClientInv, OnPage, FetchedSoFar, NotYet, Client!ListIsWhole
<1> QED BY <1>1, <1>2 DEF ClientInv, CallState

LEMMA ClientInitHolds == Client!Init => ClientInv
<1> SUFFICES ASSUME Client!Init PROVE ClientInv
  OBVIOUS
<1>2. call \in CallState /\ call.at = "idle" /\ call.kind = "read" /\ call.made = 0
  BY NoCallIs DEF Client!Init
<1>3. Client!TypeOK
  <2>1. changes \in 0..MaxChanges
    BY ClientNumbers DEF Client!Init, Client!ClientAssumption
  <2> QED BY <1>2, <2>1 DEF Client!Init, Client!TypeOK, CallState, Running, Client!Kind
<1> QED BY <1>2, <1>3 DEF ClientInv, OnPage, NotYet, Client!ListIsWhole, Running

LEMMA ClientNextHolds == ClientInv /\ [Client!Next]_(Client!vars) => ClientInv'
<1> SUFFICES ASSUME ClientInv, [Client!Next]_(Client!vars) PROVE ClientInv'
  OBVIOUS
<1>1. CASE UNCHANGED Client!vars
  BY <1>1, CallTypes, ElsewhereKeeps DEF Client!vars
<1>2. CASE Client!Elsewhere
  BY <1>2, Observed, ElsewhereKeeps DEF Client!Elsewhere
<1>3. CASE Client!Unblock
  BY <1>3, CallTypes, ElsewhereKeeps DEF Client!Unblock
<1> QED
  BY <1>1, <1>2, <1>3, BeginKeeps, GovernorKeeps, FailuresKeep, CreatedKeeps, OversizedKeeps,
     PageKeeps, ListChangesKeeps DEF Client!Next, Client!CallStep, Client!Answer

-----------------------------------------------------------------------------
(* Inventory: its types, with every access an entry of an account's edge. *)
InventoryInv == Inventory!TypeOK /\ access \subseteq Inventory!Entry

SyncState ==
  [at : {"idle", "upserting", "reconciling", "committing"}, left : SUBSET Inventory!Entry,
   gone : SUBSET Inventory!Entry, taken : SUBSET Inventory!Entry, off : SUBSET Inventory!Asset]

LEMMA EntryIs ==
  /\ No \notin Account /\ No \notin Inventory!Asset
  /\ \A e \in Inventory!Entry :
       /\ e[1] = No => e[2] \in Account
       /\ e[1] # No => e[1] \in Inventory!Asset
       /\ e[1] # No /\ e[2] # No => e \in Inventory!Asset \X Account
       /\ e[2] = No \/ e[2] \in Account
<1>1. No \notin Account /\ No \notin Inventory!Asset
  BY LaunchingAssumption DEF Inventory!InventoryAssumption
<1>2. ASSUME NEW e \in Inventory!Entry
      PROVE  /\ e[1] = No => e[2] \in Account
             /\ e[1] # No => e[1] \in Inventory!Asset
             /\ e[1] # No /\ e[2] # No => e \in Inventory!Asset \X Account
             /\ e[2] = No \/ e[2] \in Account
  <2>1. CASE e \in {No} \X Account
    BY <1>1, <2>1
  <2>2. CASE e \in (Scoped \union Instagram) \X Account
    BY <1>1, <2>2 DEF Inventory!Asset
  <2>3. CASE e \in (Instagram \union PageAsset) \X {No}
    BY <1>1, <2>3 DEF Inventory!Asset
  <2> QED BY <2>1, <2>2, <2>3 DEF Inventory!Entry
<1> QED BY <1>1, <1>2

LEMMA SyncMoves ==
  ASSUME InventoryInv, NEW y \in Sync, NEW s \in SyncState, sync' = [sync EXCEPT ![y] = s],
         usable' \subseteq Account, access' \subseteq Inventory!Asset \X Account,
         access' \subseteq Inventory!Entry, active' \subseteq Inventory!Asset,
         UNCHANGED <<reach, faulty>>
  PROVE  InventoryInv'
  BY DEF InventoryInv, Inventory!TypeOK, SyncState

LEMMA InventoryTypes ==
  ASSUME InventoryInv
  PROVE  /\ reach \in Truth /\ usable \subseteq Account /\ access \subseteq Inventory!Asset \X Account
         /\ access \subseteq Inventory!Entry /\ active \subseteq Inventory!Asset
         /\ sync \in [Sync -> SyncState] /\ \A y \in Sync : sync[y] \in SyncState
  BY DEF InventoryInv, Inventory!TypeOK, SyncState

LEMMA SyncStepKeeps ==
  ASSUME InventoryInv, NEW y \in Sync, Inventory!SyncStep(y) \/ Inventory!SyncFails(y)
  PROVE  InventoryInv'
<1>0. Inventory!Idle \in SyncState
  BY DEF Inventory!Idle, SyncState
<1>1. CASE Inventory!Discover(y)
  <2>1. PICK failed \in {{}} \union {{Inventory!Edge(e)} : e \in {f \in Inventory!Entry : f[1] # No}} :
          /\ sync' = [sync EXCEPT ![y] =
               [at    |-> "upserting",
                left  |-> {e \in reach : Inventory!Edge(e) \notin failed},
                gone  |-> {e \in Inventory!Entry \ reach :
                             Inventory!Edge(e) \notin failed /\ Inventory!IsRead(e)},
                taken |-> {}, off |-> {}]]
          /\ UNCHANGED <<reach, usable, access, active, faulty>>
    BY <1>1 DEF Inventory!Discover
  <2>2. reach \subseteq Inventory!Entry
    BY InventoryTypes, LaunchingAssumption DEF Inventory!InventoryAssumption
  <2>3. [at    |-> "upserting",
         left  |-> {e \in reach : Inventory!Edge(e) \notin failed},
         gone  |-> {e \in Inventory!Entry \ reach :
                      Inventory!Edge(e) \notin failed /\ Inventory!IsRead(e)},
         taken |-> {}, off |-> {}] \in SyncState
    BY <2>2 DEF SyncState
  <2> QED BY <2>1, <2>3, SyncMoves, InventoryTypes
<1>2. CASE Inventory!Upsert(y)
  <2>1. PICK e \in sync[y].left :
          /\ sync' = [sync EXCEPT ![y].left = sync[y].left \ {e}]
          /\ usable' = IF e[1] = No THEN usable \union {e[2]} ELSE usable
          /\ active' = IF e[1] = No THEN active ELSE active \union {e[1]}
          /\ access' = IF e[1] = No \/ e[2] = No THEN access ELSE access \union {e}
          /\ UNCHANGED <<reach, faulty>>
    BY <1>2 DEF Inventory!Upsert
  <2>2. e \in Inventory!Entry
    BY <2>1, InventoryTypes DEF SyncState
  <2> DEFINE s == [sync[y] EXCEPT !.left = sync[y].left \ {e}]
  <2>3. s \in SyncState /\ sync' = [sync EXCEPT ![y] = s]
    BY <2>1, InventoryTypes DEF SyncState
  <2> HIDE DEF s
  <2>4. usable' \subseteq Account /\ active' \subseteq Inventory!Asset
    BY <2>1, <2>2, EntryIs, InventoryTypes
  <2>5. access' \subseteq Inventory!Asset \X Account /\ access' \subseteq Inventory!Entry
    BY <2>1, <2>2, EntryIs, InventoryTypes
  <2> QED BY <2>1, <2>3, <2>4, <2>5, SyncMoves
<1>3. CASE Inventory!TakeBack(y)
  <2> DEFINE t == Inventory!Deactivated(y) \union Inventory!Deleted(y)
             s == [sync[y] EXCEPT !.at = "reconciling", !.taken = t]
  <2>1. t \subseteq Inventory!Entry
    BY InventoryTypes DEF Inventory!Deactivated, Inventory!Deleted, SyncState
  <2>2. sync' = [sync EXCEPT ![y].at = "reconciling", ![y].taken = t]
        /\ UNCHANGED <<reach, usable, access, active, faulty>>
    BY <1>3 DEF Inventory!TakeBack
  <2> HIDE DEF t
  <2>3. s \in SyncState /\ sync' = [sync EXCEPT ![y] = s]
    BY <2>1, <2>2, InventoryTypes DEF SyncState
  <2> HIDE DEF s
  <2> QED BY <2>2, <2>3, SyncMoves, InventoryTypes
<1>4. CASE Inventory!DeactivateAssets(y)
  <2> DEFINE o == Inventory!Inactive(y) \intersect active
             s == [sync[y] EXCEPT !.at = "committing", !.off = o]
  <2>1. o \subseteq Inventory!Asset
    BY InventoryTypes
  <2>2. sync' = [sync EXCEPT ![y].at = "committing", ![y].off = o]
        /\ UNCHANGED <<reach, usable, access, active, faulty>>
    BY <1>4 DEF Inventory!DeactivateAssets
  <2> HIDE DEF o
  <2>3. s \in SyncState /\ sync' = [sync EXCEPT ![y] = s]
    BY <2>1, <2>2, InventoryTypes DEF SyncState
  <2> HIDE DEF s
  <2> QED BY <2>2, <2>3, SyncMoves, InventoryTypes
<1>5. CASE Inventory!Commit(y)
  BY <1>0, <1>5, SyncMoves, InventoryTypes DEF Inventory!Commit
<1>6. CASE Inventory!SyncFails(y)
  BY <1>0, <1>6, SyncMoves, InventoryTypes DEF Inventory!SyncFails
<1> QED BY <1>1, <1>2, <1>3, <1>4, <1>5, <1>6 DEF Inventory!SyncStep

LEMMA InventoryInitHolds == Inventory!Init => InventoryInv
  BY DEF Inventory!Init, InventoryInv, Inventory!TypeOK, Inventory!Idle

LEMMA InventoryNextHolds == InventoryInv /\ [Inventory!Next]_(Inventory!vars) => InventoryInv'
<1> SUFFICES ASSUME InventoryInv, [Inventory!Next]_(Inventory!vars) PROVE InventoryInv'
  OBVIOUS
<1>1. CASE UNCHANGED Inventory!vars
  BY <1>1 DEF InventoryInv, Inventory!TypeOK, Inventory!vars
<1>2. CASE Inventory!MetaChanges \/ Inventory!Calm
  BY <1>2 DEF InventoryInv, Inventory!TypeOK, Inventory!MetaChanges, Inventory!Calm
<1> QED BY <1>1, <1>2, SyncStepKeeps DEF Inventory!Next

-----------------------------------------------------------------------------
(* Together: a step of one component is a step of it alone, and the others stutter. *)
Inv == ClientInv /\ LaunchInv /\ MediaInv /\ InventoryInv /\ GuardsInv

LEMMA OneMoves ==
  ASSUME [Next]_vars
  PROVE  /\ [Client!Next]_(Client!vars) /\ [Launch!Next]_(Launch!vars)
         /\ [Media!Next]_(Media!vars) /\ [Inventory!Next]_(Inventory!vars)
         /\ [Guards!Next]_(Guards!vars)
<1> USE DEF Client!vars, Launch!vars, Media!vars, Inventory!vars, Guards!vars,
            clientVars, launchVars, mediaVars, inventoryVars, guardsVars
<1>1. CASE ClientMoves(Client!Next)
  BY <1>1 DEF ClientMoves
<1>2. CASE LaunchMoves(Launch!Next)
  BY <1>2 DEF LaunchMoves
<1>3. CASE MediaMoves(Media!Next)
  BY <1>3 DEF MediaMoves
<1>4. CASE InventoryMoves(Inventory!Next)
  BY <1>4 DEF InventoryMoves
<1>5. CASE GuardsMoves(Guards!Next)
  BY <1>5 DEF GuardsMoves
<1>6. CASE UNCHANGED vars
  BY <1>6 DEF vars
<1> QED BY <1>1, <1>2, <1>3, <1>4, <1>5, <1>6 DEF Next

LEMMA InitHolds == Init => Inv
  BY LaunchingAssumption, ClientInitHolds, LaunchInitHolds, MediaInitHolds, InventoryInitHolds,
     GuardsInitHolds
     DEF Init, Inv

LEMMA NextHolds == Inv /\ [Next]_vars => Inv'
  BY LaunchingAssumption, OneMoves, ClientNextHolds, LaunchNextHolds, MediaNextHolds,
       InventoryNextHolds, GuardsNextHolds
     DEF Inv

(* The states of calls, launches, uploads, syncs and guards are those the code knows, for any   *)
(* number of each: in particular a page size stays between its floor and the one a collector    *)
(* starts with, and the checkpoint at hand is a rung of a ladder that was accepted.             *)
THEOREM TypeCorrect == Spec => []TypeOK
<1>1. Inv => TypeOK
  BY DEF Inv, ClientInv, LaunchInv, MediaInv, InventoryInv, GuardsInv, TypeOK
<1> QED BY <1>1, InitHolds, NextHolds, PTL DEF Spec

(* A list that is returned is whole and has nothing twice, however its pages were retried, made *)
(* smaller or changed under the call, and a create is carried out at most once                  *)
(* (CollectPagesAdaptive, CollectPagesWithMeta, PostJSONNoRetry).                                *)
THEOREM CallsKeepTheirWord == Spec => []CallKeepsItsWord
<1>1. Inv => CallKeepsItsWord
  <2>1. call.made <= 1 => Client!CreatedOnce
    BY DEF Client!CreatedOnce
  <2> QED BY <2>1 DEF Inv, ClientInv, NotYet, CallKeepsItsWord
<1> QED BY <1>1, InitHolds, NextHolds, PTL DEF Spec

(* Requests with one key race, fail anywhere and are sent again: who is answered with a batch *)
(* got the one it asked for, guarded unless it is warned (Launch, CreateBatch).                *)
THEOREM WordKept == Spec => []LaunchKeepsItsWord
<1>1. Inv => LaunchKeepsItsWord
  BY DEF Inv, LaunchInv, LaunchKeepsItsWord
<1> QED BY <1>1, InitHolds, NextHolds, PTL DEF Spec

(* However many jobs upload at once and whatever gets lost, all are given the id of the first *)
(* checkpoint, once Meta is done with it (uploadMediaForAccount, CheckpointAccountUpload).     *)
THEOREM OneId == Spec => []SameMedia
<1>1. Inv => SameMedia
  BY DEF Inv, MediaInv, SameMedia
<1> QED BY <1>1, InitHolds, NextHolds, PTL DEF Spec

(* A checkpoint is on record only when every earlier one is passed or overridden, for ladders *)
(* of any length (evaluateGuardCampaign, SaveCheck).                                           *)
THEOREM ClimbsInOrder == Spec => []LadderClimbs
<1>1. Inv => LadderClimbs
  BY DEF Inv, GuardsInv, LadderClimbs
<1> QED BY <1>1, InitHolds, NextHolds, PTL DEF Spec

(* A checkpoint once passed is never judged again (Decided). *)
THEOREM PassedKept == Spec => PassedIsFinal
<1>1. Inv /\ [Next]_vars =>
        [\A g \in Guards!Guard : \A i \in Guards!Rung :
           check[g][i] = "passed" => check'[g][i] = "passed"]_(Guards!vars)
  BY OneMoves, PassedStays DEF Inv
<1> QED
  BY <1>1, InitHolds, NextHolds, PTL DEF Spec, PassedIsFinal, Guards!PassedIsFinal
=============================================================================
