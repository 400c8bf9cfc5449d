------------------------------- MODULE Launch -------------------------------
(***************************************************************************)
(* Launch requests under one idempotency key of one connection: the form   *)
(* is composed, the batch of the key is created or found, and the guard    *)
(* the launch promised is attached to it (internal/application/launch.go,  *)
(* CreateBatch of batches.go, CreateGuard of guards.go).                   *)
(*                                                                         *)
(* The batch, its account results and their publish jobs are one           *)
(* transaction, the guard is another.  Nothing is shared by two requests   *)
(* but the database, and the key is unique there.                          *)
(***************************************************************************)
CONSTANTS
  Request,        \* launch requests that may be under way at once
  Specification,  \* what two requests with one key may ask to publish
  Ladder,         \* lists of checkpoints
  None            \* no batch, or a launch without checkpoints

LaunchAssumption == None \notin Specification \union Ladder

VARIABLES
  batch,   \* the specification of the batch of the key, or None
  guards,  \* its guards, each with the specification of the request that attached it
  request  \* the requests

vars == <<batch, guards, request>>

Running  == {"composing", "looking up", "inserting", "looking again", "guarding"}
Answer   == {"created", "warned", "conflict", "refused"}
Interval == {"good", "short"}  \* at which the guard is to be evaluated: short is under a minute

TypeOK ==
  /\ batch \in Specification \union {None}
  /\ guards \subseteq Specification \X Ladder
  /\ request \in [Request -> [at : Running \union Answer \union {"idle", "lost"},
                              spec : Specification, ladder : Ladder \union {None},
                              interval : Interval]]

Init ==
  /\ batch = None /\ guards = {}
  /\ request \in [Request -> [at : {"idle"}, spec : Specification, ladder : Ladder \union {None},
                              interval : Interval]]

-----------------------------------------------------------------------------
Goto(r, at) == request' = [request EXCEPT ![r].at = at]

(* With its batch a request goes on to its guard, if it has one. *)
WithBatch(r) == Goto(r, IF request[r].ladder = None THEN "created" ELSE "guarding")

(* Mutation: the batch of the key, whatever is in it. *)
FoundAny(r) == WithBatch(r)

(* sameJSON: the key is good for one specification.  The checkpoints are not part of it. *)
Found(r) == IF batch = request[r].spec THEN WithBatch(r) ELSE Goto(r, "conflict")

(* A request arrives, for the first time or, whatever became of it, once more. *)
Send(r) ==
  /\ request[r].at \notin Running
  /\ Goto(r, "composing")
  /\ UNCHANGED <<batch, guards>>

(* The form and the checkpoints are refused before anything is created, or are in order; *)
(* the interval is not looked at yet.                                                     *)
Compose(r) ==
  /\ request[r].at = "composing"
  /\ \E at \in {"looking up", "refused"} : Goto(r, at)
  /\ UNCHANGED <<batch, guards>>

LookUp(r) ==
  /\ request[r].at = "looking up"
  /\ \/ batch # None /\ Found(r)
     \/ batch = None /\ Goto(r, "inserting")
  /\ UNCHANGED <<batch, guards>>

(* The connection, an account or a medium is not in order. *)
Refuse(r) ==
  /\ request[r].at = "inserting" /\ Goto(r, "refused")
  /\ UNCHANGED <<batch, guards>>

Insert(r) ==
  /\ request[r].at = "inserting"
  /\ \/ batch = None /\ batch' = request[r].spec /\ WithBatch(r)
     \/ batch # None /\ Goto(r, "looking again") /\ UNCHANGED batch
  /\ UNCHANGED guards

LookAgain(r) ==
  /\ request[r].at = "looking again" /\ Found(r)
  /\ UNCHANGED <<batch, guards>>

(* CreateGuard refuses a short interval; the batch is queued and stays. *)
RejectGuard(r) ==
  /\ request[r].at = "guarding" /\ request[r].interval = "short"
  /\ Goto(r, "warned")
  /\ UNCHANGED <<batch, guards>>

(* The guard of r is inserted. *)
Guarded(r) ==
  /\ request[r].at = "guarding" /\ request[r].interval = "good"
  /\ guards' = guards \union {<<request[r].spec, request[r].ladder>>}

AttachGuard(r) == Guarded(r) /\ Goto(r, "created") /\ UNCHANGED batch

(* The insert fails, for all the service knows. *)
GuardFails(r) ==
  /\ request[r].at = "guarding"
  /\ UNCHANGED guards \/ Guarded(r)
  /\ Goto(r, "warned")
  /\ UNCHANGED batch

(* A statement fails, the process dies or the answer is lost, the statement carried out or not. *)
Fails(r) ==
  /\ request[r].at \in Running /\ Goto(r, "lost")
  /\ \/ UNCHANGED <<batch, guards>>
     \/ request[r].at = "inserting" /\ batch = None /\ batch' = request[r].spec /\ UNCHANGED guards
     \/ Guarded(r) /\ UNCHANGED batch

RequestStep(r) ==
  \/ Compose(r) \/ LookUp(r) \/ Refuse(r) \/ Insert(r) \/ LookAgain(r)
  \/ RejectGuard(r) \/ AttachGuard(r) \/ GuardFails(r) \/ Fails(r)

Next == \E r \in Request : Send(r) \/ RequestStep(r)

Spec == Init /\ [][Next]_vars

-----------------------------------------------------------------------------
(* A launch that is answered with a batch got the batch it asked for,      *)
(* whatever other requests do with the key meanwhile and whichever answers *)
(* were lost, and one that is answered without a warning has its guard on  *)
(* it (Launch, CreateBatch); a conflict is answered only if the key is     *)
(* taken by another specification; and no request attaches its guard to    *)
(* another's batch.  What a warning leaves behind is LadderWithBatch's.    *)
LaunchKeepsItsWord ==
  /\ \A r \in Request :
       /\ request[r].at \in {"created", "warned", "guarding"} => batch = request[r].spec
       /\ request[r].at = "created" /\ request[r].ladder # None
            => <<batch, request[r].ladder>> \in guards
       /\ request[r].at = "conflict" => batch \notin {None, request[r].spec}
  /\ \A g \in guards : g[1] = batch

(* src/README.md:65: "the spend-guard rungs, attached atomically with the *)
(* batch", and launch.go:66-68: a guard that is rejected after the batch  *)
(* went out is "the one outcome this endpoint exists to prevent".  So a   *)
(* launch with checkpoints that ended with its batch has its guard.       *)
LadderWithBatch ==
  \A r \in Request : request[r].at \in {"created", "warned"} /\ request[r].ladder # None
                       => <<batch, request[r].ladder>> \in guards
=============================================================================
