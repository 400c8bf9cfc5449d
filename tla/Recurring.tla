----------------------------- MODULE Recurring -----------------------------
(***************************************************************************)
(* The recurring job of a connection, the collection of its insights or    *)
(* the evaluation of its guards: the standard and the fast lane of every   *)
(* scheduler process enqueue it, under keys of their own, and at most one  *)
(* is pending or running (internal/worker/scheduler.go,                    *)
(* ScheduleFastLane of scheduler_accounts.go).                             *)
(*                                                                         *)
(* An enqueue is three calls: look for an active job, insert, and look     *)
(* again if the insert hits the partial unique index.                      *)
(***************************************************************************)
EXTENDS Integers

CONSTANTS
  Pass  \* the passes of the scheduler processes that may be under way at once

VARIABLES
  active,  \* the connection is active
  status,  \* of its one pending or running job, "none" without one
  made,    \* the keys, by lane and interval, that are in the queue's table
  pass,    \* the enqueue each pass is in
  faulty   \* may calls still fail, processes die?

vars == <<active, status, made, pass, faulty>>

Lane == {"standard", "fast"}
Key  == Lane \X (0..1)   \* of the interval (the bucket) that is now, or of the one before

Idle == [at |-> "idle", lane |-> "standard", ago |-> 0]

TypeOK ==
  /\ active \in BOOLEAN
  /\ status \in {"none", "pending", "running"}
  /\ made \subseteq Key
  /\ pass \in [Pass -> [at : {"idle", "looking", "inserting", "looking again"},
                        lane : Lane, ago : 0..1]]
  /\ faulty \in BOOLEAN

Init ==
  /\ active \in BOOLEAN
  /\ status = "none" /\ made = {}
  /\ pass = [p \in Pass |-> Idle] /\ faulty = TRUE

Goto(p, at) == pass' = [pass EXCEPT ![p].at = at]
Ends(p)     == pass' = [pass EXCEPT ![p] = Idle]

(* scheduleForActiveConnections: the connection is on the list.  ScheduleFastLane: it is on the *)
(* list of those with an active guard that asks for it.                                          *)
BeginPass(p, lane) ==
  /\ pass[p].at = "idle" /\ active
  /\ pass' = [pass EXCEPT ![p] = [at |-> "looking", lane |-> lane, ago |-> 0]]
  /\ UNCHANGED <<active, status, made, faulty>>

Look(p) ==
  /\ pass[p].at = "looking"
  /\ IF status = "none" THEN Goto(p, "inserting") ELSE Ends(p)
  /\ UNCHANGED <<active, status, made, faulty>>

(* A row with the key, whatever its status, makes the insert do nothing; otherwise an active  *)
(* job makes it fail.                                                                          *)
Insert(p) ==
  LET key == <<pass[p].lane, pass[p].ago>> IN
  /\ pass[p].at = "inserting"
  /\ \/ key \in made /\ Ends(p) /\ UNCHANGED <<status, made>>
     \/ key \notin made /\ status # "none" /\ Goto(p, "looking again") /\ UNCHANGED <<status, made>>
     \/ key \notin made /\ status = "none" /\ Ends(p)
        /\ status' = "pending" /\ made' = made \union {key}
  /\ UNCHANGED <<active, faulty>>

(* The job that was in the way may have ended by now: then the pass reports an error. *)
LookAgain(p) ==
  /\ pass[p].at = "looking again" /\ Ends(p)
  /\ UNCHANGED <<active, status, made, faulty>>

PassFails(p) ==
  /\ faulty /\ pass[p].at # "idle" /\ Ends(p)
  /\ UNCHANGED <<active, status, made, faulty>>

Claim ==
  /\ status = "pending" /\ status' = "running"
  /\ UNCHANGED <<active, made, pass, faulty>>

(* The job succeeds or is dead, or, on a failure, waits for its next attempt. *)
JobEnds ==
  /\ status = "running"
  /\ status' = "none" \/ (faulty /\ status' = "pending")
  /\ UNCHANGED <<active, made, pass, faulty>>

Aged(lane) == [p \in Pass |-> IF pass[p].at # "idle" /\ pass[p].lane = lane
                              THEN [pass[p] EXCEPT !.ago = 1] ELSE pass[p]]

(* Mutation: the key leaves the interval out. *)
NextIntervalSameKey(lane) ==
  /\ \A p \in Pass : pass[p].lane = lane => pass[p].ago = 0
  /\ pass' = Aged(lane)
  /\ UNCHANGED <<active, status, made, faulty>>

(* The next interval of a lane begins; bound: no pass lasts from the interval before. *)
NextInterval(lane) ==
  /\ \A p \in Pass : pass[p].lane = lane => pass[p].ago = 0
  /\ pass' = Aged(lane)
  /\ made' = {k \in Key : IF k[1] = lane THEN k[2] = 1 /\ <<lane, 0>> \in made ELSE k \in made}
  /\ UNCHANGED <<active, status, faulty>>

(* The connection is revoked, expired or connected again. *)
Change ==
  /\ faulty /\ active' \in BOOLEAN
  /\ UNCHANGED <<status, made, pass, faulty>>

Calm == faulty /\ faulty' = FALSE /\ UNCHANGED <<active, status, made, pass>>

PassStep(p) == BeginPass(p, "standard") \/ Look(p) \/ Insert(p) \/ LookAgain(p)

Next ==
  \/ \E p \in Pass : PassStep(p) \/ BeginPass(p, "fast") \/ PassFails(p)
  \/ Claim \/ JobEnds \/ Change \/ Calm
  \/ \E lane \in Lane : NextInterval(lane)

Spec == Init /\ [][Next]_vars

-----------------------------------------------------------------------------
(* The job of a connection that stays active runs again and again          *)
(* (RepositoryScheduleStore.Enqueue): neither the passes of two lanes and  *)
(* several processes that race to insert it nor the keys and the job that  *)
(* are in the way keep it from coming round.                               *)
ComesRound == <>[]active => []<>(status = "none") /\ []<>(status = "running")
=============================================================================
