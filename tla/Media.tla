------------------------------- MODULE Media --------------------------------
(***************************************************************************)
(* One image or video on one ad account: the publish jobs that need it     *)
(* upload it unless it is known to be there, keep the first id they get in *)
(* a checkpoint, and wait for Meta to process a video                      *)
(* (internal/application/media.go, internal/platform/database/             *)
(* media_repository.go, internal/meta/media.go, video_status.go).          *)
(*                                                                         *)
(* An image is known by its content: uploaded twice, it has one hash.      *)
(* Every upload of a video makes another one, with the same title.  The    *)
(* list of videos may lag behind.                                          *)
(***************************************************************************)
EXTENDS Integers, FiniteSets

CONSTANTS
  Job,       \* publish jobs that upload at once
  MaxVideos  \* bound: uploads of the video

MediaAssumption == MaxVideos \in Nat \ {0}

VARIABLES
  kind,      \* of the media
  remote,    \* Meta's state of each copy of it, by id; "absent" before it is uploaded
  row,       \* media_account_uploads: id 0 without a row
  job,       \* uploadMediaForAccount in each job, with the id it has in hand
  returned   \* history: the ids it has returned

vars == <<kind, remote, row, job, returned>>

Id == 1..MaxVideos

TypeOK ==
  /\ kind \in {"image", "video"}
  /\ remote \in [Id -> {"absent", "processing", "ready", "error"}]
  /\ row \in [id : Id \union {0}, status : {"processing", "ready", "failed"}]
  /\ job \in [Job -> [at : {"idle", "reading", "searching", "uploading", "keeping", "waiting",
                            "marking"},
                      id : Id \union {0}, verdict : {"processing", "ready", "failed"}]]
  /\ returned \subseteq Id

Idle == [at |-> "idle", id |-> 0, verdict |-> "processing"]

Init ==
  /\ kind \in {"image", "video"}
  /\ remote = [i \in Id |-> "absent"]
  /\ row = [id |-> 0, status |-> "processing"]
  /\ job = [j \in Job |-> Idle] /\ returned = {}

-----------------------------------------------------------------------------
Goto(j, at)     == job' = [job EXCEPT ![j].at = at]
Hold(j, at, id) == job' = [job EXCEPT ![j] = [Idle EXCEPT !.at = at, !.id = id]]
Ends(j)         == job' = [job EXCEPT ![j] = Idle]
Return(j, id)   == Ends(j) /\ returned' = returned \union {id}

Begin(j) ==
  /\ job[j].at = "idle" /\ Goto(j, "reading")
  /\ UNCHANGED <<kind, remote, row, returned>>

(* resolveAccountMediaUpload: what the checkpoint says is used, failed or waited for. *)
Resolve(j, checkpoint) ==
  \/ checkpoint.status = "ready" /\ Return(j, checkpoint.id)
  \/ checkpoint.status = "failed" /\ Ends(j) /\ UNCHANGED returned
  \/ checkpoint.status = "processing" /\ Hold(j, "waiting", checkpoint.id) /\ UNCHANGED returned

(* GetAccountUpload, also after an insert that found a row there. *)
ReadRow(j) ==
  /\ job[j].at = "reading"
  /\ \/ row.id # 0 /\ Resolve(j, row)
     \/ row.id = 0 /\ Goto(j, IF kind = "video" THEN "searching" ELSE "uploading")
        /\ UNCHANGED returned
  /\ UNCHANGED <<kind, remote, row>>

(* FindUploadedVideoByTitle: a single video of the title is taken for a lost upload. *)
Search(j) ==
  \E seen \in SUBSET {i \in Id : remote[i] # "absent"} :
    /\ job[j].at = "searching"
    /\ \/ seen = {} /\ Goto(j, "uploading")
       \/ \E i \in seen : seen = {i} /\ Hold(j, "keeping", i)
       \/ Cardinality(seen) > 1 /\ Ends(j)
    /\ UNCHANGED <<kind, remote, row, returned>>

(* Carried out, and the id may be lost with the response. *)
Upload(j) ==
  \E i \in Id :
    /\ job[j].at = "uploading"
    /\ \A k \in Id : k < i <=> remote[k] # "absent" /\ kind = "video"
    /\ remote' = [remote EXCEPT ![i] = IF kind = "video" THEN "processing" ELSE "ready"]
    /\ Hold(j, "keeping", i) \/ Ends(j)
    /\ UNCHANGED <<kind, row, returned>>

(* Mutation: the last id stays. *)
KeepLast(j) ==
  /\ job[j].at = "keeping"
  /\ row' = [id |-> job[j].id, status |-> IF kind = "video" THEN "processing" ELSE "ready"]
  /\ Resolve(j, row')
  /\ UNCHANGED <<kind, remote>>

(* CheckpointAccountUpload: the first id stays. *)
Keep(j) ==
  /\ job[j].at = "keeping"
  /\ IF row.id # 0 THEN Goto(j, "reading") /\ UNCHANGED <<row, returned>>
     ELSE /\ row' = [id |-> job[j].id, status |-> IF kind = "video" THEN "processing" ELSE "ready"]
          /\ Resolve(j, row')
  /\ UNCHANGED <<kind, remote>>

(* WaitForVideoReady: until the video is ready or has failed; a status that cannot be read, or *)
(* one that does not change in time, leaves it processing.                                      *)
Verdict(state) ==
  CASE state = "ready" -> {"ready", "processing"}
    [] state = "error" -> {"failed", "processing"}
    [] OTHER           -> {"processing"}

Wait(j) ==
  /\ job[j].at = "waiting"
  /\ \E verdict \in Verdict(remote[job[j].id]) :
       job' = [job EXCEPT ![j].at = "marking", ![j].verdict = verdict]
  /\ UNCHANGED <<kind, remote, row, returned>>

(* UpdateAccountUploadStatus looks at nothing: the last verdict stays. *)
Mark(j) ==
  /\ job[j].at = "marking"
  /\ row' = [row EXCEPT !.status = job[j].verdict]
  /\ IF job[j].verdict = "ready" THEN Return(j, job[j].id) ELSE Ends(j) /\ UNCHANGED returned
  /\ UNCHANGED <<kind, remote>>

(* A call fails or the worker dies; the job is tried again, or by another one. *)
JobFails(j) ==
  /\ job[j].at # "idle" /\ Ends(j)
  /\ UNCHANGED <<kind, remote, row, returned>>

MetaProcesses ==
  \E i \in Id, state \in {"ready", "error"} :
    /\ remote[i] = "processing" /\ remote' = [remote EXCEPT ![i] = state]
    /\ UNCHANGED <<kind, row, job, returned>>

JobStep(j) == ReadRow(j) \/ Search(j) \/ Upload(j) \/ Keep(j) \/ Wait(j) \/ Mark(j)

Next ==
  \/ \E j \in Job : Begin(j) \/ JobStep(j) \/ JobFails(j)
  \/ MetaProcesses

Spec == Init /\ [][Next]_vars

-----------------------------------------------------------------------------
(* Every publish job of the account gets one and the same id for the media *)
(* (CheckpointAccountUpload: a concurrent caller must reuse the winning    *)
(* checkpoint), and only when Meta is done with it, although two jobs      *)
(* upload it at once, responses get lost and an old verdict is written     *)
(* over a newer one.                                                       *)
SameMedia ==
  \A i \in returned : i = row.id /\ remote[i] = "ready"
=============================================================================
