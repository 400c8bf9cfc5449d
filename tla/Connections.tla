---------------------------- MODULE Connections ----------------------------
(***************************************************************************)
(* One Meta user's connection: consent by OAuth, the token it yields, the  *)
(* syncs of the ad accounts behind it, revocation                          *)
(* (internal/application/oauth.go, service.go, sync.go).                   *)
(*                                                                         *)
(* The API handles callbacks concurrently, the same state more than once   *)
(* if a browser repeats it; any number of syncs of the connection may run, *)
(* since each is queued under a key of its own; an operator revokes.  All  *)
(* write the one meta_connections row, none with a look at what it holds.  *)
(* A token is named by the session whose code it was exchanged for.        *)
(***************************************************************************)
CONSTANTS
  Session,    \* oauth_sessions
  Callback,   \* OAuth callbacks in progress at once
  Sync,       \* bound: sync jobs of the connection queued or running at once
  None        \* no session

ASSUME ConnectionsAssumption == None \notin Session

VARIABLES
  session,    \* oauth_sessions.status
  lapsed,     \* the sessions whose expires_at is past
  status,     \* meta_connections.status, "none" without a row
  token,      \* and the token the row holds
  fate,       \* the tokens: a dated one is past its recorded expiry, a refused one
              \* was invalidated by Meta before
  callback,   \* CompleteOAuth
  sync,       \* SyncConnection
  revoke,     \* RevokeConnection
  faulty      \* may calls still fail, processes die?

sessionVars    == <<session, lapsed>>
connectionVars == <<status, token>>
processVars    == <<callback, sync, revoke>>
vars == <<session, lapsed, status, token, fate, callback, sync, revoke, faulty>>

NoCallback == [at |-> "idle", of |-> None]
NoSync     == [at |-> "idle", token |-> None]
NoRevoke   == [at |-> "idle", token |-> None]

TypeOK ==
  /\ session \in [Session -> {"absent", "pending", "consumed", "completed", "failed", "expired"}]
  /\ lapsed \subseteq Session
  /\ status \in {"none", "active", "expired", "revoked"}
  /\ token \in Session \union {None} /\ (token = None <=> status = "none")
  /\ fate \in [Session -> {"unissued", "good", "refused", "dated"}]
  /\ callback \in [Callback -> [at : {"idle", "exchanging", "saving", "completing", "enqueueing",
                                      "failing"},
                                of : Session \union {None}]]
  /\ sync \in [Sync -> [at : {"idle", "queued", "discovering", "marking",
                              "expiring", "excusing"},
                        token : Session \union {None}]]
  /\ revoke \in [at : {"idle", "deleting", "marking", "expiring"},
                 token : Session \union {None}]
  /\ faulty \in BOOLEAN

Init ==
  /\ session = [s \in Session |-> "absent"] /\ lapsed = {}
  /\ status = "none" /\ token = None
  /\ fate = [s \in Session |-> "unissued"]
  /\ callback = [c \in Callback |-> NoCallback]
  /\ sync = [y \in Sync |-> NoSync]
  /\ revoke = NoRevoke
  /\ faulty = TRUE
-----------------------------------------------------------------------------
(* Sessions: StartOAuthForUser, the scheduler's ExpirePending. *)

\* Without an authorization URL the session is failed at once, or left pending.
StartOAuth(s) ==
  /\ session[s] = "absent"
  /\ \E to \in {"pending", "failed"} : session' = [session EXCEPT ![s] = to]
  /\ UNCHANGED <<lapsed, connectionVars, fate, processVars, faulty>>

Lapse(s) ==
  /\ session[s] = "pending" /\ s \notin lapsed
  /\ lapsed' = lapsed \union {s}
  /\ UNCHANGED <<session, connectionVars, fate, processVars, faulty>>

ExpirePending ==
  /\ session' = [s \in Session |-> IF session[s] = "pending" /\ s \in lapsed THEN "expired"
                                   ELSE session[s]]
  /\ UNCHANGED <<lapsed, connectionVars, fate, processVars, faulty>>
-----------------------------------------------------------------------------
(* CompleteOAuth. *)

Calls(c, at) == callback[c].at = at
Proceed(c, at) == callback' = [callback EXCEPT ![c].at = at]
Answer(c) == callback' = [callback EXCEPT ![c] = NoCallback]

\* Mutation: a state that is being completed may be presented again.
ConsumableAgain(s) == session[s] \in {"pending", "consumed"} /\ s \notin lapsed

Consumable(s) == session[s] = "pending" /\ s \notin lapsed

\* The callback goes on, or never learns that the update was committed.
Consume(c, s) ==
  /\ Calls(c, "idle") /\ Consumable(s)
  /\ session' = [session EXCEPT ![s] = "consumed"]
  /\ \/ callback' = [callback EXCEPT ![c] = [at |-> "exchanging", of |-> s]]
     \/ faulty /\ UNCHANGED callback
  /\ UNCHANGED <<lapsed, connectionVars, fate, sync, revoke, faulty>>

\* ExchangeCode, ExchangeLongLivedToken, DebugToken, GetMe; Meta gives a token for
\* a code once.  Any of the four may fail, or they disagree on the user.
Exchange(c) ==
  /\ Calls(c, "exchanging")
  /\ \/ /\ fate[callback[c].of] = "unissued"
        /\ fate' = [fate EXCEPT ![callback[c].of] = "good"]
        /\ Proceed(c, "saving") \/ Proceed(c, "failing")
     \/ Proceed(c, "failing") /\ UNCHANGED fate
  /\ UNCHANGED <<sessionVars, connectionVars, sync, revoke, faulty>>

\* Upsert; the reload that follows may fail as well.
Upsert(c) ==
  /\ Calls(c, "saving")
  /\ \/ /\ status' = "active" /\ token' = callback[c].of
        /\ Proceed(c, "completing") \/ (faulty /\ Proceed(c, "failing"))
     \/ faulty /\ Proceed(c, "failing") /\ UNCHANGED <<status, token>>
  /\ UNCHANGED <<sessionVars, fate, sync, revoke, faulty>>

Complete(c) ==
  /\ Calls(c, "completing")
  /\ \/ /\ session[callback[c].of] = "consumed"
        /\ session' = [session EXCEPT ![callback[c].of] = "completed"]
        /\ Proceed(c, "enqueueing") \/ (faulty /\ Answer(c))
     \/ /\ session[callback[c].of] # "consumed" \/ faulty
        /\ Answer(c) /\ UNCHANGED session
  /\ UNCHANGED <<lapsed, connectionVars, fate, sync, revoke, faulty>>

\* The error of Fail is ignored.
Fail(c) ==
  /\ Calls(c, "failing")
  /\ Answer(c)
  /\ \/ session' = [session EXCEPT ![callback[c].of] =
                      IF @ \in {"pending", "consumed"} THEN "failed" ELSE @]
     \/ faulty /\ UNCHANGED session
  /\ UNCHANGED <<lapsed, connectionVars, fate, sync, revoke, faulty>>

\* EnqueueConnectionSync, under the session's key.
EnqueueInitial(c) ==
  /\ Calls(c, "enqueueing")
  /\ Answer(c)
  /\ \/ \E y \in Sync : sync[y].at = "idle" /\ sync' = [sync EXCEPT ![y].at = "queued"]
     \/ faulty /\ UNCHANGED sync
  /\ UNCHANGED <<sessionVars, connectionVars, fate, revoke, faulty>>
-----------------------------------------------------------------------------
(* SyncConnection, as a job of the queue.  Every other workflow that reads the   *)
(* token and meets a refusal treats the row as Load, Discover and Expire do.     *)

Syncs(y, at) == sync[y].at = at
Turn(y, at)  == sync' = [sync EXCEPT ![y].at = at]
Done(y)      == sync' = [sync EXCEPT ![y] = NoSync]

\* A failed job is tried again, or was at its last attempt.
Broken(y) == Done(y) \/ sync' = [sync EXCEPT ![y] = [NoSync EXCEPT !.at = "queued"]]

\* By request, after a duplication, or by the scheduler.
Enqueue(y) ==
  /\ Syncs(y, "idle") /\ status # "none"
  /\ Turn(y, "queued")
  /\ UNCHANGED <<sessionVars, connectionVars, fate, callback, revoke, faulty>>

\* The scheduler's discovery lists the active connections.
Schedule(y) == status = "active" /\ Enqueue(y)

\* accessToken: the row must be active; a token past its expiry expires it.
Load(y) ==
  /\ Syncs(y, "queued")
  /\ \/ /\ status = "active" /\ fate[token] # "dated"
        /\ sync' = [sync EXCEPT ![y].at = "discovering", ![y].token = token]
     \/ status = "active" /\ fate[token] = "dated" /\ Turn(y, "expiring")
     \/ (status # "active" \/ faulty) /\ Broken(y)
  /\ UNCHANGED <<sessionVars, connectionVars, fate, callback, revoke, faulty>>

\* Mutation: a refused token is an error like any other.
DiscoverUnclassified(y) ==
  /\ Syncs(y, "discovering")
  /\ \/ /\ fate[sync[y].token] # "refused"
        /\ sync' = [sync EXCEPT ![y] = [NoSync EXCEPT !.at = "marking"]]
     \/ (fate[sync[y].token] # "good" \/ faulty) /\ Turn(y, "excusing")
  /\ UNCHANGED <<sessionVars, connectionVars, fate, callback, revoke, faulty>>

\* A refused token expires the connection, another error is noted on it.  Meta may
\* accept a dated token still: the expiry of the data access is recorded as well.
Discover(y) ==
  /\ Syncs(y, "discovering")
  /\ \/ /\ fate[sync[y].token] # "refused"
        /\ sync' = [sync EXCEPT ![y] = [NoSync EXCEPT !.at = "marking"]]
     \/ fate[sync[y].token] # "good" /\ Turn(y, "expiring")
     \/ faulty /\ Turn(y, "excusing")
  /\ UNCHANGED <<sessionVars, connectionVars, fate, callback, revoke, faulty>>

\* markConnectionExpired: SetStatus, whatever the status and the token are by now.
Expire(y) ==
  /\ Syncs(y, "expiring")
  /\ status' = "expired" \/ (faulty /\ UNCHANGED status)
  /\ Broken(y)
  /\ UNCHANGED <<sessionVars, token, fate, callback, revoke, faulty>>

\* The error goes into last_error, by a SetStatus to active.
Excuse(y) ==
  /\ Syncs(y, "excusing")
  /\ status' = "active" \/ (faulty /\ UNCHANGED status)
  /\ Broken(y)
  /\ UNCHANGED <<sessionVars, token, fate, callback, revoke, faulty>>

\* The inventory is stored, then MarkSynced makes the connection active; an error
\* on the way leaves it as it is.  What is seeded and queued afterwards never fails
\* the job.
MarkSynced(y) ==
  /\ Syncs(y, "marking")
  /\ \/ status' = "active" /\ Done(y)
     \/ faulty /\ status' \in {status, "active"} /\ Broken(y)
  /\ UNCHANGED <<sessionVars, token, fate, callback, revoke, faulty>>
-----------------------------------------------------------------------------
(* RevokeConnection, one operator at a time. *)

Revokes(at) == revoke.at = at

\* Mutation: the row is marked before Meta is asked.
MarkFirst ==
  /\ Revokes("idle") /\ status = "active"
  /\ revoke' = [at |-> "marking", token |-> token]
  /\ UNCHANGED <<sessionVars, connectionVars, fate, callback, sync, faulty>>

StartRevoke ==
  /\ Revokes("idle") /\ status = "active"
  /\ revoke' = [at |-> IF fate[token] = "dated" THEN "expiring" ELSE "deleting", token |-> token]
  /\ UNCHANGED <<sessionVars, connectionVars, fate, callback, sync, faulty>>

\* The grant is gone, and with it every token that rested on it.
Ungranted == [s \in Session |-> IF fate[s] = "good" THEN "refused" ELSE fate[s]]

\* DELETE /me/permissions needs a token that Meta still accepts, as Discover does.
DeletePermissions ==
  /\ Revokes("deleting")
  /\ \/ /\ fate[revoke.token] # "refused" /\ fate' = Ungranted
        /\ revoke' = [revoke EXCEPT !.at = "marking"] \/ (faulty /\ revoke' = NoRevoke)
     \/ /\ fate[revoke.token] # "good" \/ faulty
        /\ revoke' = NoRevoke /\ UNCHANGED fate
  /\ UNCHANGED <<sessionVars, connectionVars, callback, sync, faulty>>

\* Mutation: the status is cleared, the token stays.
MarkCleared ==
  /\ Revokes("marking")
  /\ status' = "none" \/ (faulty /\ UNCHANGED status)
  /\ revoke' = NoRevoke
  /\ UNCHANGED <<sessionVars, token, fate, callback, sync, faulty>>

MarkRevoked ==
  /\ Revokes("marking")
  /\ status' = "revoked" \/ (faulty /\ UNCHANGED status)
  /\ revoke' = NoRevoke
  /\ UNCHANGED <<sessionVars, token, fate, callback, sync, faulty>>

ExpireInstead ==
  /\ Revokes("expiring")
  /\ status' = "expired" \/ (faulty /\ UNCHANGED status)
  /\ revoke' = NoRevoke
  /\ UNCHANGED <<sessionVars, token, fate, callback, sync, faulty>>
-----------------------------------------------------------------------------
(* Meta, and the processes' deaths. *)

Spoil(s) ==
  /\ fate[s] = "good"
  /\ \E to \in {"refused", "dated"} : fate' = [fate EXCEPT ![s] = to]
  /\ UNCHANGED <<sessionVars, connectionVars, processVars, faulty>>

\* A callback or a request is lost; a job is reclaimed or buried.
Crash ==
  /\ faulty
  /\ \/ \E c \in Callback : Answer(c) /\ UNCHANGED <<sync, revoke>>
     \/ \E y \in Sync : ~Syncs(y, "idle") /\ Broken(y) /\ UNCHANGED <<callback, revoke>>
     \/ revoke' = NoRevoke /\ UNCHANGED <<callback, sync>>
  /\ UNCHANGED <<sessionVars, connectionVars, fate, faulty>>

\* From here on calls succeed.
Settle ==
  /\ faulty /\ faulty' = FALSE
  /\ UNCHANGED <<sessionVars, connectionVars, fate, processVars>>
-----------------------------------------------------------------------------
CallbackStep(c) ==
  Exchange(c) \/ Upsert(c) \/ Complete(c) \/ Fail(c) \/ EnqueueInitial(c)

SyncStep(y) ==
  \/ Load(y) \/ Discover(y) \/ Expire(y) \/ Excuse(y)
  \/ MarkSynced(y)

RevokeStep == DeletePermissions \/ MarkRevoked \/ ExpireInstead

Next ==
  \/ \E s \in Session : StartOAuth(s) \/ Lapse(s) \/ Spoil(s)
  \/ ExpirePending
  \/ \E c \in Callback : CallbackStep(c) \/ \E s \in Session : Consume(c, s)
  \/ \E y \in Sync : SyncStep(y) \/ Enqueue(y)
  \/ StartRevoke \/ RevokeStep \/ Crash \/ Settle

\* Callbacks, syncs and revocations under way go on; the scheduler's discovery
\* comes round again and again.
Fairness ==
  /\ \A c \in Callback : WF_vars(CallbackStep(c))
  /\ \A y \in Sync : WF_vars(SyncStep(y))
  /\ WF_vars(RevokeStep)
  /\ WF_vars(\E y \in Sync : Schedule(y))

Spec == Init /\ [][Next]_vars /\ Fairness
-----------------------------------------------------------------------------
(* Properties. *)

\* Consume's conditional update: however often a state comes back, and whatever
\* the sweep of pending sessions does meanwhile, one callback works on a session,
\* its code is exchanged once, and the token of a connection stems from a session
\* that was consumed.
SessionOnce ==
  /\ \A c, d \in Callback : callback[c].of = callback[d].of /\ callback[c].of # None => c = d
  /\ \A c \in Callback : Calls(c, "exchanging") => fate[callback[c].of] = "unissued"
  /\ \A s \in Session : fate[s] # "unissued" => session[s] \in {"consumed", "completed", "failed"}

ConsentedOnce == \A s, t \in Session : fate[s] # "unissued" /\ fate[t] # "unissued" => s = t

\* oauth.go:179: Meta's grant is invalidated before the row is marked revoked; and
\* only a refusal or the expiry of the token expires it.  So a connection consented
\* to once is out of use only when Meta refuses its token.  (After a second consent
\* a write meant for the first token can put the new one out of use.)
OutOfUseIsRefused ==
  /\ ConsentedOnce
  /\ status \in {"expired", "revoked"}
  => fate[token] \in {"refused", "dated"}

\* service.go:143-146: once Meta refuses a token, the scheduler stops creating work
\* for it.  With writes of the status that look at nothing, a sync that finished
\* late may make the connection active again; when calls do not fail it does not
\* stay so.
RefusedEnds ==
  <>~faulty => <>[](status = "active" => fate[token] = "good")
=============================================================================
