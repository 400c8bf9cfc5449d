------------------------- MODULE ConnectionsProofs -------------------------
(***************************************************************************)
(* Proofs about Connections, for any number of sessions, callbacks and     *)
(* syncs: a session serves once, and a connection consented to once goes   *)
(* out of use only when Meta refuses its token.                            *)
(***************************************************************************)
EXTENDS Connections, TLAPS

Used   == {"consumed", "completed", "failed"}
Issued == {s \in Session : fate[s] # "unissued"}
Spent  == fate[token] \in {"refused", "dated"}

\* A callback has consumed the session it works on, which no other has.
CallbackInv ==
  /\ \A c \in Callback : callback[c].at # "idle" => callback[c].of \in Session
  /\ \A c \in Callback : callback[c].of # None => session[callback[c].of] \in Used
  /\ \A c \in Callback : Calls(c, "saving") => callback[c].of \in Issued

\* Whoever is about to write the row has seen it, and its tokens were issued.
HolderInv ==
  /\ token # None => token \in Issued
  /\ \A y \in Sync : Syncs(y, "discovering") => sync[y].token \in Issued
  /\ ~Revokes("idle") => revoke.token \in Issued
  /\ ~Revokes("idle") \/ (\E y \in Sync : sync[y].at \notin {"idle", "queued"}) => token # None

\* With a single consent, whoever is about to put the connection out of use has
\* seen its token refused.
SpentInv ==
  ConsentedOnce =>
    /\ \A y \in Sync : Syncs(y, "expiring") => Spent
    /\ Revokes("marking") \/ Revokes("expiring") => Spent
    /\ status \in {"expired", "revoked"} => Spent

IInv == TypeOK /\ SessionOnce /\ CallbackInv /\ HolderInv /\ SpentInv

LEMMA InitInv == Init => IInv
  BY ConnectionsAssumption
  DEF Init, IInv, TypeOK, SessionOnce, CallbackInv, HolderInv, SpentInv, Calls, Syncs, Revokes,
      NoCallback, NoSync, NoRevoke, Issued, Spent, ConsentedOnce

LEMMA TypeStep == IInv /\ [Next]_vars => TypeOK'
<1> SUFFICES ASSUME IInv, [Next]_vars PROVE TypeOK'
  OBVIOUS
<1> USE ConnectionsAssumption
    DEF IInv, TypeOK, sessionVars, connectionVars, processVars, NoCallback, NoSync, NoRevoke
<1>1. ASSUME NEW s \in Session, StartOAuth(s) \/ Lapse(s) \/ Spoil(s) PROVE TypeOK'
  BY <1>1 DEF StartOAuth, Lapse, Spoil
<1>2. CASE ExpirePending
  BY <1>2 DEF ExpirePending
<1>3. ASSUME NEW c \in Callback, NEW s \in Session, Consume(c, s) PROVE TypeOK'
  BY <1>3 DEF Consume
<1>4. ASSUME NEW c \in Callback, CallbackStep(c) PROVE TypeOK'
  <2>1. CASE Exchange(c)
    BY <2>1 DEF Exchange, Proceed, CallbackInv
  <2>2. CASE Upsert(c)
    BY <2>2 DEF Upsert, Proceed, Calls, CallbackInv
  <2>3. CASE Complete(c)
    BY <2>3 DEF Complete, Proceed, Answer
  <2>4. CASE Fail(c)
    BY <2>4 DEF Fail, Answer
  <2>5. CASE EnqueueInitial(c)
    BY <2>5 DEF EnqueueInitial, Answer
  <2> QED BY <1>4, <2>1, <2>2, <2>3, <2>4, <2>5 DEF CallbackStep
<1>5. ASSUME NEW y \in Sync, Enqueue(y) PROVE TypeOK'
  BY <1>5 DEF Enqueue, Turn
<1>6. ASSUME NEW y \in Sync, SyncStep(y) PROVE TypeOK'
  <2>1. CASE Load(y)
    BY <2>1 DEF Load, Turn, Broken, Done
  <2>2. CASE Discover(y)
    BY <2>2 DEF Discover, Turn
  <2>3. CASE Expire(y) \/ Excuse(y) \/ MarkSynced(y)
    BY <2>3 DEF Expire, Excuse, MarkSynced, Broken, Done, HolderInv, Syncs
  <2> QED BY <1>6, <2>1, <2>2, <2>3 DEF SyncStep
<1>7. CASE StartRevoke
  BY <1>7 DEF StartRevoke
<1>8. CASE RevokeStep
  BY <1>8 DEF RevokeStep, DeletePermissions, MarkRevoked, ExpireInstead, Ungranted, Revokes,
              HolderInv
<1>9. CASE Crash
  BY <1>9 DEF Crash, Answer, Broken, Done
<1>10. CASE Settle \/ UNCHANGED vars
  BY <1>10 DEF Settle, vars
<1> QED BY <1>1, <1>2, <1>3, <1>4, <1>5, <1>6, <1>7, <1>8, <1>9, <1>10 DEF Next

\* What Proceed and Answer make of the callbacks.
LEMMA ProceedShape ==
  ASSUME TypeOK, NEW c \in Callback, NEW at, Proceed(c, at)
  PROVE  \A d \in Callback : /\ callback'[d].of = callback[d].of
                             /\ callback'[d].at = IF d = c THEN at ELSE callback[d].at
BY DEF TypeOK, Proceed

LEMMA AnswerShape ==
  ASSUME TypeOK, NEW c \in Callback, Answer(c)
  PROVE  \A d \in Callback : /\ d = c => callback'[d].of = None /\ callback'[d].at = "idle"
                             /\ d # c => callback'[d] = callback[d]
BY DEF TypeOK, Answer, NoCallback

\* Nothing is lost while no token is issued, sessions that were consumed remain so,
\* and callbacks go on, beyond the exchange, or end.
LEMMA Carried ==
  ASSUME IInv, fate' = fate,
         \A s \in Session : session[s] \in Used => session'[s] \in Used,
         \A d \in Callback :
           \/ callback'[d] = callback[d]
           \/ /\ callback[d].at # "idle" /\ callback'[d].of = callback[d].of
              /\ callback'[d].at \notin {"exchanging", "saving"}
           \/ callback'[d].of = None /\ callback'[d].at = "idle"
  PROVE  SessionOnce' /\ CallbackInv'
<1>1. \A c \in Callback : callback'[c].of # None => callback'[c].of = callback[c].of
  OBVIOUS
<1>2. SessionOnce'
  BY <1>1 DEF IInv, SessionOnce, Used, Calls
<1>3. \A c \in Callback : callback[c].of \in Session \union {None}
  BY DEF IInv, TypeOK
<1>4. CallbackInv'
  <2>1. \A c \in Callback : callback'[c].at # "idle" => callback'[c].of \in Session
    BY DEF IInv, CallbackInv
  <2>2. \A c \in Callback : callback'[c].of # None => session'[callback'[c].of] \in Used
    BY <1>1, <1>3 DEF IInv, CallbackInv
  <2>3. \A c \in Callback : callback'[c].at = "saving" => callback'[c] = callback[c]
    OBVIOUS
  <2>4. \A c \in Callback : callback'[c].at = "saving" => callback'[c].of \in Issued'
    BY <2>3 DEF IInv, CallbackInv, Calls, Issued
  <2> QED BY <2>1, <2>2, <2>4 DEF CallbackInv, Calls, Used
<1> QED BY <1>2, <1>4

\* Only a callback that has consumed a session brings its token about.
LEMMA SessionStep == IInv /\ [Next]_vars => SessionOnce' /\ CallbackInv'
<1> SUFFICES ASSUME IInv, [Next]_vars PROVE SessionOnce' /\ CallbackInv'
  OBVIOUS
<1>a. TypeOK
  BY DEF IInv
<1> USE DEF sessionVars, connectionVars, processVars
<1>1. ASSUME NEW s \in Session, StartOAuth(s) \/ Lapse(s) PROVE SessionOnce' /\ CallbackInv'
  <2>1. fate' = fate /\ callback' = callback
    BY <1>1 DEF StartOAuth, Lapse
  <2>2. \A r \in Session : session[r] \in Used => session'[r] \in Used
    BY <1>1, <1>a DEF StartOAuth, Lapse, Used, TypeOK
  <2> QED BY <2>1, <2>2, Carried
<1>2. CASE ExpirePending
  <2>1. fate' = fate /\ callback' = callback
    BY <1>2 DEF ExpirePending
  <2>2. \A r \in Session : session[r] \in Used => session'[r] \in Used
    BY <1>2 DEF ExpirePending, Used
  <2> QED BY <2>1, <2>2, Carried
<1>3. ASSUME NEW s \in Session, Spoil(s) PROVE SessionOnce' /\ CallbackInv'
  <2>1. UNCHANGED <<session, callback>>
    BY <1>3 DEF Spoil
  <2>2. \A t \in Session : fate'[t] = "unissued" <=> fate[t] = "unissued"
    BY <1>3, <1>a DEF Spoil, TypeOK
  <2>3. \A c \in Callback : Calls(c, "exchanging") => callback[c].of \in Session
    BY DEF IInv, CallbackInv, Calls
  <2>4. SessionOnce'
    BY <2>1, <2>2, <2>3 DEF IInv, SessionOnce, Calls
  <2>5. CallbackInv'
    BY <2>1, <2>2 DEF IInv, CallbackInv, Calls, Issued
  <2> QED BY <2>4, <2>5
<1>4. ASSUME NEW c \in Callback, NEW s \in Session, Consume(c, s)
      PROVE SessionOnce' /\ CallbackInv'
  <2>1. session[s] = "pending" /\ session' = [session EXCEPT ![s] = "consumed"] /\ fate' = fate
    BY <1>4 DEF Consume, Consumable
  <2>2. \A d \in Callback : callback[d].of = s => callback[d].of = None
    BY <2>1 DEF IInv, CallbackInv, Used
  <2>3. fate[s] = "unissued"
    BY <2>1 DEF IInv, SessionOnce
  <2>4. \A d \in Callback :
          \/ callback'[d] = callback[d]
          \/ d = c /\ callback'[d].of = s /\ callback'[d].at = "exchanging"
    <3>1. \/ callback' = [callback EXCEPT ![c] = [at |-> "exchanging", of |-> s]]
          \/ callback' = callback
      BY <1>4 DEF Consume
    <3> QED BY <3>1, <1>a DEF TypeOK
  <2>5. \A r \in Session : /\ session[r] \in Used => session'[r] \in Used
                           /\ r = s => session'[r] \in Used
    BY <2>1, <1>a DEF Used, TypeOK
  <2>6. None # s
    BY ConnectionsAssumption
  <2>7. \A d, e \in Callback :
          callback'[d].of = callback'[e].of /\ callback'[d].of # None => d = e
    BY <2>2, <2>4, <2>6 DEF IInv, SessionOnce
  <2>8. SessionOnce'
    BY <2>1, <2>3, <2>4, <2>5, <2>7 DEF IInv, SessionOnce, Calls, Used
  <2>9. CallbackInv'
    BY <2>1, <2>4, <2>5 DEF IInv, CallbackInv, Calls, Issued
  <2> QED BY <2>8, <2>9
<1>5. ASSUME NEW c \in Callback, CallbackStep(c) PROVE SessionOnce' /\ CallbackInv'
  <2>1. CASE Exchange(c)
    <3>1. session' = session /\ callback[c].at = "exchanging" /\ callback[c].of \in Session
      BY <2>1 DEF Exchange, Calls, IInv, CallbackInv
    <3>2. CASE Proceed(c, "failing") /\ fate' = fate
      <4>1. \A d \in Callback : /\ callback'[d].of = callback[d].of
                                /\ callback'[d].at = IF d = c THEN "failing" ELSE callback[d].at
        BY <3>2, <1>a, ProceedShape
      <4>2. \A d \in Callback \ {c} : callback'[d] = callback[d]
        BY <3>2, <1>a DEF Proceed, TypeOK
      <4> QED BY <3>1, <3>2, <4>1, <4>2, Carried
    <3>3. ASSUME NEW at \in {"saving", "failing"}, Proceed(c, at),
                 fate' = [fate EXCEPT ![callback[c].of] = "good"]
          PROVE  SessionOnce' /\ CallbackInv'
      <4>1. \A d \in Callback : /\ callback'[d].of = callback[d].of
                                /\ callback'[d].at = IF d = c THEN at ELSE callback[d].at
        BY <3>3, <1>a, ProceedShape
      <4>2. \A s \in Session : fate'[s] = IF s = callback[c].of THEN "good" ELSE fate[s]
        BY <3>3, <1>a DEF TypeOK
      <4>3. session[callback[c].of] \in Used
        BY <3>1, ConnectionsAssumption DEF IInv, CallbackInv
      <4>4. \A d \in Callback \ {c} : callback[d].of # callback[c].of
        BY <3>1, ConnectionsAssumption DEF IInv, SessionOnce
      <4>5. \A d \in Callback : Calls(d, "exchanging") => callback[d].of \in Session
        BY DEF IInv, CallbackInv, Calls
      <4>6. SessionOnce'
        BY <3>1, <4>1, <4>2, <4>3, <4>4, <4>5 DEF IInv, SessionOnce, Calls, Used
      <4>7. CallbackInv'
        BY <3>1, <4>1, <4>2 DEF IInv, CallbackInv, Calls, Issued
      <4> QED BY <4>6, <4>7
    <3> QED BY <2>1, <3>2, <3>3 DEF Exchange
  <2>2. ASSUME NEW at \in {"completing", "enqueueing", "failing"}, Proceed(c, at), ~Calls(c, "idle"),
               fate' = fate, \A s \in Session : session[s] \in Used => session'[s] \in Used
        PROVE  SessionOnce' /\ CallbackInv'
    <3>1. \A d \in Callback : /\ callback'[d].of = callback[d].of
                              /\ callback'[d].at = IF d = c THEN at ELSE callback[d].at
      BY <2>2, <1>a, ProceedShape
    <3>2. \A d \in Callback \ {c} : callback'[d] = callback[d]
      BY <2>2, <1>a DEF Proceed, TypeOK
    <3> QED BY <2>2, <3>1, <3>2, Carried DEF Calls
  <2>3. ASSUME Answer(c),
               fate' = fate, \A s \in Session : session[s] \in Used => session'[s] \in Used
        PROVE  SessionOnce' /\ CallbackInv'
    BY <2>3, <1>a, AnswerShape, Carried
  <2>4. CASE Upsert(c)
    BY <2>4, <2>2 DEF Upsert, Calls
  <2>5. CASE Complete(c)
    <3>1. \A s \in Session : session[s] \in Used => session'[s] \in Used
      BY <2>5, <1>a DEF Complete, TypeOK, Used
    <3> QED BY <2>5, <3>1, <2>2, <2>3 DEF Complete, Calls
  <2>6. CASE Fail(c)
    <3>1. \A s \in Session : session[s] \in Used => session'[s] \in Used
      BY <2>6, <1>a DEF Fail, TypeOK, Used
    <3> QED BY <2>6, <3>1, <2>3 DEF Fail
  <2>7. CASE EnqueueInitial(c)
    BY <2>7, <2>3 DEF EnqueueInitial
  <2> QED BY <1>5, <2>1, <2>4, <2>5, <2>6, <2>7 DEF CallbackStep
<1>6. CASE UNCHANGED <<session, fate, callback>>
  BY <1>6, Carried
<1>7. CASE DeletePermissions
  <2>1. UNCHANGED <<session, callback>>
    BY <1>7 DEF DeletePermissions
  <2>2. \A t \in Session : fate'[t] = "unissued" <=> fate[t] = "unissued"
    BY <1>7, <1>a DEF DeletePermissions, Ungranted, TypeOK
  <2>3. \A c \in Callback : Calls(c, "exchanging") => callback[c].of \in Session
    BY DEF IInv, CallbackInv, Calls
  <2>4. SessionOnce'
    BY <2>1, <2>2, <2>3 DEF IInv, SessionOnce, Calls
  <2>5. CallbackInv'
    BY <2>1, <2>2 DEF IInv, CallbackInv, Calls, Issued
  <2> QED BY <2>4, <2>5
<1>8. CASE Crash
  <2>1. session' = session /\ fate' = fate
    BY <1>8 DEF Crash
  <2>2. ASSUME NEW c \in Callback, Answer(c) PROVE SessionOnce' /\ CallbackInv'
    BY <2>1, <2>2, <1>a, AnswerShape, Carried
  <2> QED BY <1>8, <1>6, <2>1, <2>2 DEF Crash
<1>9. ASSUME NEW y \in Sync, SyncStep(y) \/ Enqueue(y) PROVE UNCHANGED <<session, fate, callback>>
  BY <1>9 DEF SyncStep, Load, Discover, Expire, Excuse, MarkSynced, Enqueue
<1>10. CASE StartRevoke \/ MarkRevoked \/ ExpireInstead \/ Settle \/ UNCHANGED vars
  BY <1>10, <1>6 DEF StartRevoke, MarkRevoked, ExpireInstead, Settle, vars
<1> QED
  BY <1>1, <1>2, <1>3, <1>4, <1>5, <1>6, <1>7, <1>8, <1>9, <1>10 DEF Next, RevokeStep

\* A token once issued stays issued, and a refused one is never good again.
LEMMA FateStep ==
  IInv /\ [Next]_vars =>
    /\ Issued \subseteq Issued'
    /\ \A s \in Session : fate[s] \in {"refused", "dated"} => fate'[s] \in {"refused", "dated"}
<1> SUFFICES ASSUME IInv, [Next]_vars
             PROVE  /\ Issued \subseteq Issued'
                    /\ \A s \in Session : fate[s] \in {"refused", "dated"}
                                           => fate'[s] \in {"refused", "dated"}
  OBVIOUS
<1> USE DEF IInv, TypeOK, Issued
<1>1. ASSUME NEW s \in Session, Spoil(s) PROVE /\ fate'[s] # "unissued" /\ fate[s] = "good"
                                               /\ \A t \in Session \ {s} : fate'[t] = fate[t]
  BY <1>1 DEF Spoil
<1>2. ASSUME NEW c \in Callback, Exchange(c), fate' # fate
      PROVE /\ callback[c].of \in Session /\ fate[callback[c].of] = "unissued"
            /\ fate' = [fate EXCEPT ![callback[c].of] = "good"]
  BY <1>2 DEF Exchange, Calls, CallbackInv
<1>3. CASE DeletePermissions
  BY <1>3 DEF DeletePermissions, Ungranted
<1>4. CASE UNCHANGED fate
  BY <1>4
<1> QED
  <2>1. \/ \E s \in Session : Spoil(s)
        \/ \E c \in Callback : Exchange(c)
        \/ DeletePermissions
        \/ UNCHANGED fate
    BY DEF Next, vars, StartOAuth, Lapse, ExpirePending, Consume, CallbackStep, Upsert, Complete,
           Fail, EnqueueInitial, Enqueue, SyncStep, Load, Discover, Expire, Excuse, MarkSynced,
           StartRevoke, RevokeStep, MarkRevoked, ExpireInstead, Crash, Settle
  <2>2. CASE \E s \in Session : Spoil(s)
    BY <2>2, <1>1
  <2>3. CASE \E c \in Callback : Exchange(c)
    BY <2>3, <1>2, <1>4
  <2> QED BY <2>1, <2>2, <2>3, <1>3, <1>4

\* The row is overwritten by a token that was issued, and never emptied.
LEMMA TokenStep ==
  IInv /\ [Next]_vars =>
    /\ token' = token \/ token' \in Issued
    /\ token # None => token' # None
<1> SUFFICES ASSUME IInv, [Next]_vars
             PROVE  /\ token' = token \/ token' \in Issued
                    /\ token # None => token' # None
  OBVIOUS
<1>1. ASSUME NEW c \in Callback, Upsert(c) PROVE token' = token \/ token' \in Issued
  BY <1>1 DEF Upsert, IInv, CallbackInv
<1>2. token' = token \/ \E c \in Callback : Upsert(c)
  BY DEF Next, vars, sessionVars, connectionVars, processVars, StartOAuth, Lapse, ExpirePending, Spoil,
         Consume, CallbackStep, Exchange, Complete, Fail, EnqueueInitial, Enqueue, SyncStep, Load,
         Discover, Expire, Excuse, MarkSynced, StartRevoke, RevokeStep, DeletePermissions,
         MarkRevoked, ExpireInstead, Crash, Settle
<1> QED BY <1>1, <1>2, ConnectionsAssumption DEF Issued

\* Who comes to write the row, and what has been seen of it: a sync ...
LEMMA SyncTurns ==
  ASSUME IInv, [Next]_vars, NEW y \in Sync
  PROVE  /\ \/ sync'[y] = sync[y]
            \/ sync'[y].at \in {"idle", "queued"}
            \/ sync'[y].at = "discovering" /\ sync'[y].token = token /\ status = "active"
            \/ sync'[y].at \in {"marking", "excusing"} /\ Syncs(y, "discovering")
            \/ sync'[y].at = "expiring"
         /\ sync'[y].at = "expiring" =>
              \/ Syncs(y, "expiring")
              \/ UNCHANGED <<token, fate>> /\ status = "active" /\ fate[token] = "dated"
              \/ UNCHANGED <<token, fate>> /\ Syncs(y, "discovering") /\ fate[sync[y].token] # "good"
<1>a. sync \in [Sync -> [at : {"idle", "queued", "discovering", "marking", "expiring", "excusing"},
                        token : Session \union {None}]]
  BY DEF IInv, TypeOK
<1> USE <1>a DEF NoSync, Syncs
<1>1. CASE UNCHANGED sync
  BY <1>1
<1>2. ASSUME NEW c \in Callback, EnqueueInitial(c), NEW z \in Sync,
             sync' = [sync EXCEPT ![z].at = "queued"]
      PROVE  sync'[y] = sync[y] \/ sync'[y].at = "queued"
  BY <1>2
<1>3. ASSUME NEW z \in Sync, Enqueue(z) PROVE sync'[y] = sync[y] \/ sync'[y].at = "queued"
  BY <1>3 DEF Enqueue, Turn
<1>4. ASSUME NEW z \in Sync, Broken(z) \/ Done(z)
      PROVE  sync'[y] = sync[y] \/ sync'[y].at \in {"idle", "queued"}
  BY <1>4 DEF Broken, Done
<1>5. ASSUME NEW z \in Sync, Load(z)
      PROVE  \/ sync'[y] = sync[y]
             \/ sync'[y].at \in {"idle", "queued"}
             \/ sync'[y].at = "discovering" /\ sync'[y].token = token /\ status = "active"
             \/ /\ sync'[y].at = "expiring" /\ UNCHANGED <<token, fate>>
                /\ status = "active" /\ fate[token] = "dated"
  BY <1>5, <1>4 DEF Load, Turn, connectionVars
<1>6. ASSUME NEW z \in Sync, Discover(z)
      PROVE  \/ sync'[y] = sync[y]
             \/ sync'[y].at \in {"marking", "excusing"} /\ Syncs(y, "discovering")
             \/ /\ sync'[y].at = "expiring" /\ UNCHANGED <<token, fate>>
                /\ Syncs(y, "discovering") /\ fate[sync[y].token] # "good"
  BY <1>6 DEF Discover, Turn, connectionVars
<1>7. \/ UNCHANGED sync
      \/ \E c \in Callback : EnqueueInitial(c)
      \/ \E z \in Sync : Enqueue(z) \/ Broken(z) \/ Done(z) \/ Load(z) \/ Discover(z)
  BY DEF Next, vars, sessionVars, connectionVars, processVars, StartOAuth, Lapse, ExpirePending, Spoil,
         Consume, CallbackStep, Exchange, Upsert, Complete, Fail, SyncStep, Expire, Excuse,
         MarkSynced, StartRevoke, RevokeStep, DeletePermissions, MarkRevoked, ExpireInstead, Crash,
         Settle
<1>8. CASE \E c \in Callback : EnqueueInitial(c)
  BY <1>8, <1>1, <1>2 DEF EnqueueInitial
<1> QED BY <1>1, <1>3, <1>4, <1>5, <1>6, <1>7, <1>8

\* ... or a revocation ...
LEMMA RevokeTurns ==
  ASSUME IInv, [Next]_vars
  PROVE  \/ revoke' = revoke
         \/ revoke'.at = "idle"
         \/ /\ Revokes("idle") /\ status = "active" /\ revoke'.token = token
            /\ revoke'.at = "deleting" \/ (revoke'.at = "expiring" /\ fate[token] = "dated")
            /\ UNCHANGED <<token, fate>>
         \/ /\ Revokes("deleting") /\ revoke'.token = revoke.token /\ revoke'.at = "marking"
            /\ fate' = Ungranted /\ UNCHANGED token
<1>a. revoke \in [at : {"idle", "deleting", "marking", "expiring"}, token : Session \union {None}]
  BY DEF IInv, TypeOK
<1> USE <1>a DEF NoRevoke, Revokes
<1>1. CASE StartRevoke
  BY <1>1 DEF StartRevoke, connectionVars
<1>2. CASE DeletePermissions
  BY <1>2 DEF DeletePermissions, connectionVars
<1>3. CASE MarkRevoked \/ ExpireInstead \/ Crash
  BY <1>3 DEF MarkRevoked, ExpireInstead, Crash
<1>4. \/ UNCHANGED revoke \/ StartRevoke \/ RevokeStep \/ Crash
  BY DEF Next, vars, sessionVars, connectionVars, processVars, StartOAuth, Lapse, ExpirePending, Spoil,
         Consume, CallbackStep, Exchange, Upsert, Complete, Fail, EnqueueInitial, Enqueue, SyncStep,
         Load, Discover, Expire, Excuse, MarkSynced, Settle
<1> QED BY <1>1, <1>2, <1>3, <1>4 DEF RevokeStep

\* ... and who puts the connection out of use.
LEMMA StatusTurns ==
  ASSUME IInv, [Next]_vars, status' \in {"expired", "revoked"}
  PROVE  \/ status' = status
         \/ \E y \in Sync : Syncs(y, "expiring")
         \/ Revokes("marking") \/ Revokes("expiring")
BY DEF Next, vars, sessionVars, connectionVars, processVars, StartOAuth, Lapse, ExpirePending, Spoil,
       Consume, CallbackStep, Exchange, Upsert, Complete, Fail, EnqueueInitial, Enqueue, SyncStep,
       Load, Discover, Expire, Excuse, MarkSynced, StartRevoke, RevokeStep, DeletePermissions,
       MarkRevoked, ExpireInstead, Crash, Settle

LEMMA HolderStep == IInv /\ [Next]_vars => HolderInv'
<1> SUFFICES ASSUME IInv, [Next]_vars PROVE HolderInv'
  OBVIOUS
<1>1. Issued \subseteq Issued'
  BY FateStep
<1>2. status = "active" => token # None
  BY DEF IInv, TypeOK
<1>a. HolderInv
  BY DEF IInv
<1>b. (token' = token \/ token' \in Issued) /\ (token # None => token' # None)
  BY TokenStep
<1>3. token' # None => token' \in Issued'
  BY <1>1, <1>a, <1>b DEF HolderInv
<1>c. status = "active" => token \in Issued
  BY <1>2, <1>a DEF HolderInv
<1>4. ASSUME NEW y \in Sync, sync'[y].at = "discovering" PROVE sync'[y].token \in Issued'
  <2>1. \/ sync'[y] = sync[y]
        \/ sync'[y].token = token /\ status = "active"
    BY <1>4, SyncTurns
  <2>2. CASE sync'[y] = sync[y]
    BY <1>4, <2>2, <1>1, <1>a DEF HolderInv, Syncs
  <2>3. CASE sync'[y].token = token /\ status = "active"
    BY <2>3, <1>1, <1>c
  <2> QED BY <2>1, <2>2, <2>3
<1>5. ASSUME NEW y \in Sync, sync'[y].at \notin {"idle", "queued"} PROVE token' # None
  <2>1. sync[y].at \notin {"idle", "queued"} \/ status = "active"
    <3>1. \/ sync'[y] = sync[y] \/ status = "active"
          \/ sync[y].at \in {"discovering", "expiring"}
      BY <1>5, SyncTurns DEF Syncs
    <3> QED BY <3>1, <1>5
  <2>2. token # None
    BY <2>1, <1>2, <1>a DEF HolderInv
  <2> QED BY <2>2, <1>b
<1>6. ASSUME revoke'.at # "idle" PROVE revoke'.token \in Issued' /\ token' # None
  <2>1. \/ revoke' = revoke
        \/ status = "active" /\ revoke'.token = token
        \/ revoke.at = "deleting" /\ revoke'.token = revoke.token
    BY <1>6, RevokeTurns DEF Revokes
  <2>2. CASE revoke.at # "idle" /\ revoke'.token = revoke.token
    BY <2>2, <1>1, <1>a, <1>b DEF HolderInv, Revokes
  <2>3. CASE status = "active" /\ revoke'.token = token
    BY <2>3, <1>1, <1>2, <1>b, <1>c
  <2> QED BY <1>6, <2>1, <2>2, <2>3
<1> QED BY <1>3, <1>4, <1>5, <1>6 DEF HolderInv, Syncs, Revokes

\* With a single consent the row keeps its token, and the token its refusal.
LEMMA SpentKept ==
  ASSUME IInv, [Next]_vars, ConsentedOnce', token # None, Spent PROVE Spent'
<1>1. token \in Issued' /\ token' \in Issued'
  BY FateStep, TokenStep DEF IInv, HolderInv
<1>2. token' = token
  BY <1>1 DEF ConsentedOnce, Issued
<1> QED BY <1>1, <1>2, FateStep DEF Spent, Issued

LEMMA SpentStep == IInv /\ [Next]_vars => SpentInv'
<1> SUFFICES ASSUME IInv, [Next]_vars, ConsentedOnce'
             PROVE  /\ \A y \in Sync : Syncs(y, "expiring")' => Spent'
                    /\ (Revokes("marking") \/ Revokes("expiring"))' => Spent'
                    /\ status' \in {"expired", "revoked"} => Spent'
  BY DEF SpentInv
<1>1. ConsentedOnce
  BY FateStep DEF ConsentedOnce, Issued
<1>2. ASSUME NEW y \in Sync, Syncs(y, "expiring") PROVE Spent /\ token # None
  BY <1>1, <1>2 DEF IInv, SpentInv, HolderInv, Syncs
<1>3. ASSUME Revokes("marking") \/ Revokes("expiring") PROVE Spent /\ token # None
  BY <1>1, <1>3 DEF IInv, SpentInv, HolderInv, Revokes
<1>4. ASSUME NEW s \in Issued, token # None PROVE s = token
  BY <1>1, <1>4 DEF IInv, HolderInv, ConsentedOnce, Issued
<1>5. ASSUME NEW y \in Sync, Syncs(y, "expiring")' PROVE Spent'
  <2>1. CASE Syncs(y, "expiring")
    BY <2>1, <1>2, SpentKept
  <2>2. CASE UNCHANGED <<token, fate>> /\ fate[token] = "dated"
    BY <2>2 DEF Spent
  <2>3. CASE UNCHANGED <<token, fate>> /\ Syncs(y, "discovering") /\ fate[sync[y].token] # "good"
    <3>1. sync[y].token \in Issued /\ token # None
      BY <2>3 DEF IInv, HolderInv, Syncs
    <3>2. fate[token] # "good" /\ token \in Session /\ fate[token] # "unissued"
      BY <2>3, <3>1, <1>4 DEF Issued
    <3> QED BY <2>3, <3>2 DEF Spent, IInv, TypeOK
  <2> QED BY <1>5, <2>1, <2>2, <2>3, SyncTurns DEF Syncs
<1>6. ASSUME (Revokes("marking") \/ Revokes("expiring"))' PROVE Spent'
  <2>1. CASE revoke' = revoke
    BY <1>6, <2>1, <1>3, SpentKept DEF Revokes
  <2>2. CASE UNCHANGED <<token, fate>> /\ fate[token] = "dated"
    BY <2>2 DEF Spent
  <2>3. CASE Revokes("deleting") /\ fate' = Ungranted /\ UNCHANGED token
    <3>1. revoke.token \in Issued /\ token # None
      BY <2>3 DEF IInv, HolderInv, Revokes
    <3>2. token \in Session /\ fate[token] # "unissued"
      BY <3>1, <1>4 DEF Issued
    <3>3. fate[token] \in {"good", "refused", "dated"}
      BY <3>2 DEF IInv, TypeOK
    <3> QED BY <2>3, <3>2, <3>3 DEF Spent, Ungranted
  <2> QED BY <1>6, <2>1, <2>2, <2>3, RevokeTurns DEF Revokes
<1>7. ASSUME status' \in {"expired", "revoked"} PROVE Spent'
  <2>1. CASE status' = status
    <3>1. Spent /\ token # None
      BY <1>1, <1>7, <2>1 DEF IInv, SpentInv, TypeOK
    <3> QED BY <3>1, SpentKept
  <2> QED BY <1>2, <1>3, <1>7, <2>1, StatusTurns, SpentKept
<1> QED BY <1>5, <1>6, <1>7

\* Every reachable state satisfies the invariant.
THEOREM Invariance == Spec => []IInv
<1>1. IInv /\ [Next]_vars => IInv'
  BY TypeStep, SessionStep, HolderStep, SpentStep DEF IInv
<1> QED BY InitInv, <1>1, PTL DEF Spec

\* The types of CompleteOAuth, SyncConnection and RevokeConnection; the row has a
\* token as soon as it exists.
THEOREM TypeCorrect == Spec => []TypeOK
BY Invariance, PTL DEF IInv

\* Consume: a session serves one callback and one exchange of its code.
THEOREM SessionUsedOnce == Spec => []SessionOnce
BY Invariance, PTL DEF IInv

\* RevokeConnection, markConnectionExpired: a connection consented to once goes out
\* of use only when Meta refuses its token.
THEOREM OutOfUseOnlyRefused == Spec => []OutOfUseIsRefused
<1>1. IInv => OutOfUseIsRefused
  BY DEF IInv, SpentInv, OutOfUseIsRefused, Spent
<1> QED BY Invariance, <1>1, PTL
=============================================================================
