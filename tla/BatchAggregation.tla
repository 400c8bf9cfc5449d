-------------------------- MODULE BatchAggregation --------------------------
(***************************************************************************)
(* One batch and its account results under concurrent transactions         *)
(* (internal/platform/database/batch_repository.go, and the finalisation   *)
(* of dead publish jobs in job_repository.go).                             *)
(*                                                                         *)
(* PostgreSQL at READ COMMITTED, as far as this code relies on it: a       *)
(* statement that writes or locks a row waits until no other transaction   *)
(* holds that row and then goes by its newest committed version, every     *)
(* statement sees what is committed when it starts plus the transaction's  *)
(* own writes, and a cycle of waits is broken by aborting a transaction.   *)
(* A row of published_objects that is inserted refers to its batch and its *)
(* result, and locks both FOR KEY SHARE until its transaction ends: many   *)
(* may share a row so, beside an UPDATE but not beside SELECT FOR UPDATE.  *)
(* Each step below takes the locks of one row.  The queue decides which    *)
(* transactions run; here any may, at any time.                            *)
(***************************************************************************)
EXTENDS Integers, FiniteSets

CONSTANTS
  Account,  \* the batch_account_results rows of the batch
  Worker,   \* the database sessions
  Batch,    \* the batches row, as something to lock
  None

VARIABLES
  account,  \* committed status of each account result
  batch,    \* committed batches row: status, succeeded_accounts, failed_accounts
  owner,    \* which session has updated each row, or locked it FOR UPDATE
  tx        \* what each session is doing

vars == <<account, batch, owner, tx>>

AccountStatus == {"pending", "running", "succeeded", "failed"}
BatchStatus   == {"queued", "running", "partially_succeeded", "succeeded", "failed"}
Row == Account \union {Batch}

\* MarkAccountRunning; FinishAccountResult or RecordAccountRetry, by the status
\* they write; finalizeDeadPublishAccountResult for the jobs that a claim buries or
\* a failure ends; CheckpointPublishedObject, a statement by itself.
Op == {"mark", "finish", "reap", "checkpoint"}

Count(view, statuses) == Cardinality({a \in Account : view[a] \in statuses})

\* Mutation: a batch whose results all wait takes the status of a result.
RecountPending(view, status) ==
  [succeeded |-> Count(view, {"succeeded"}), failed |-> Count(view, {"failed"}),
   status |-> IF Count(view, {"pending"}) = Cardinality(Account) THEN "pending" ELSE "running"]

\* recalculateBatch: what the counting statement makes of the view it sees.
Recount(view, status) ==
  LET succeeded == Count(view, {"succeeded"})
      failed    == Count(view, {"failed"})
  IN  [succeeded |-> succeeded, failed |-> failed,
       status |->
         IF Count(view, {"pending", "running"}) > 0 THEN "running"
         ELSE IF succeeded = Cardinality(Account) THEN "succeeded"
         ELSE IF succeeded > 0 /\ failed > 0 THEN "partially_succeeded"
         ELSE IF failed = Cardinality(Account) THEN "failed"
         ELSE status]

BatchRow == [status : BatchStatus, succeeded : 0..Cardinality(Account),
             failed : 0..Cardinality(Account)]

ASSUME BatchAssumption ==
  /\ Account # {} /\ IsFiniteSet(Account)
  /\ None \notin Worker \union Account
  /\ Batch \notin Account
  /\ None \notin BatchRow

\* What a session is doing.  wrote, row: the transaction's own versions of the
\* rows; todo: the results it has still to process; shares: it has the batch row
\* FOR KEY SHARE.
Tx == [op : Op \union {"none"},
       at : {"idle", "account", "objects", "result", "batch", "count", "commit"},
       verdict : AccountStatus \union {"none"},
       todo : SUBSET Account,
       wrote : [Account -> AccountStatus \union {"unwritten"}],
       row : BatchRow \union {None},
       shares : BOOLEAN]

Idle == [op |-> "none", at |-> "idle", verdict |-> "none", todo |-> {},
         wrote |-> [a \in Account |-> "unwritten"], row |-> None, shares |-> FALSE]

TypeOK ==
  /\ account \in [Account -> AccountStatus]
  /\ batch \in BatchRow
  /\ owner \in [Row -> Worker \union {None}]
  /\ tx \in [Worker -> Tx]

\* Batches.Create: queued, every result pending.
Init ==
  /\ account = [a \in Account |-> "pending"]
  /\ batch = [status |-> "queued", succeeded |-> 0, failed |-> 0]
  /\ owner = [r \in Row |-> None]
  /\ tx = [w \in Worker |-> Idle]
-----------------------------------------------------------------------------
\* What a statement of w sees.
View(w) == [a \in Account |-> IF tx[w].wrote[a] = "unwritten" THEN account[a]
                              ELSE tx[w].wrote[a]]
SeenBatch(w) == IF tx[w].row = None THEN batch ELSE tx[w].row

\* recalculateBatch has the batch row FOR UPDATE; MarkAccountRunning only updates it.
LocksForUpdate(v) == owner[Batch] = v /\ tx[v].op # "mark"

\* Mutation: recalculateBatch without its lock.
FreeUnlocked(w, r) == r = Batch \/ owner[r] \in {w, None}

\* A row that no other transaction holds.
Free(w, r) == owner[r] \in {w, None}
Lock(w, r) == Free(w, r) /\ owner' = [owner EXCEPT ![r] = w]

\* Mutation: MarkAccountRunning takes a result of any status.
FromAny(op) == CASE op = "mark"   -> AccountStatus
                 [] op = "finish" -> {"running"}
                 [] op = "reap"   -> {"pending", "running"}

\* The statuses from which an operation moves a result.
From(op) == CASE op = "mark"   -> {"pending", "failed", "running"}
              [] op = "finish" -> {"running"}
              [] op = "reap"   -> {"pending", "running"}

Begin(w, op, verdict, todo) ==
  /\ tx[w] = Idle
  /\ tx' = [tx EXCEPT ![w] = [@ EXCEPT !.op = op, !.at = "account",
                                 !.verdict = verdict, !.todo = todo]]
  /\ UNCHANGED <<account, batch, owner>>

\* A created object is recorded outside of any transaction (one that has its row
\* already is updated, and locks nothing but that row).
BeginCheckpoint(w, a) ==
  /\ tx[w] = Idle
  /\ tx' = [tx EXCEPT ![w] = [@ EXCEPT !.op = "checkpoint", !.at = "objects", !.todo = {a}]]
  /\ UNCHANGED <<account, batch, owner>>

\* The session rolls back and lets its locks go: no matching row, an error, a
\* crash, or the victim of a deadlock.
RollBack(w) ==
  /\ tx[w] # Idle
  /\ tx' = [tx EXCEPT ![w] = Idle]
  /\ owner' = [r \in Row |-> IF owner[r] = w THEN None ELSE owner[r]]
  /\ UNCHANGED <<account, batch>>

\* The conditional update of a result.  A reap goes on when the result is
\* already closed; the others find no row and roll back.
UpdateAccount(w, a) ==
  /\ tx[w].at = "account"
  /\ a \in tx[w].todo
  /\ Lock(w, a)
  /\ \/ /\ View(w)[a] \in From(tx[w].op)
        /\ tx' = [tx EXCEPT ![w] = [@ EXCEPT !.at = IF tx[w].op = "finish" THEN "objects" ELSE "batch",
                                      !.todo = tx[w].todo \ {a},
                                      !.wrote[a] = tx[w].verdict]]
     \/ /\ View(w)[a] \notin From(tx[w].op) /\ tx[w].op = "reap"
        /\ tx' = [tx EXCEPT ![w] = [@ EXCEPT !.at = "batch", !.todo = tx[w].todo \ {a}]]
  /\ UNCHANGED <<account, batch>>

\* persistResultPublishedObjects, before the batch is counted: an object whose
\* checkpoint failed has no row yet, and to insert it locks the batch FOR KEY SHARE.
\* So does a checkpoint.
InsertObjects(w) ==
  /\ tx[w].at = "objects"
  /\ \/ tx[w].op = "finish" /\ tx' = [tx EXCEPT ![w].at = "batch"]
     \/ /\ \A v \in Worker \ {w} : ~LocksForUpdate(v)
        /\ tx' = [tx EXCEPT ![w] = [@ EXCEPT !.at = IF tx[w].op = "finish" THEN "batch" ELSE "result",
                                      !.shares = TRUE]]
  /\ UNCHANGED <<account, batch, owner>>

\* Then a checkpoint locks its result FOR KEY SHARE, which a finalisation alone has
\* FOR UPDATE, and is done.
ShareResult(w) ==
  /\ tx[w].at = "result"
  /\ \A a \in tx[w].todo : \A v \in Worker : owner[a] = v => tx[v].op # "reap"
  /\ tx' = [tx EXCEPT ![w] = Idle]
  /\ UNCHANGED <<account, batch, owner>>

\* Mutation: MarkAccountRunning writes the batch row before the result.
MarkBatchFirst(w) ==
  /\ tx[w].at \in {"account", "batch"} /\ tx[w].op = "mark"
  /\ Lock(w, Batch)
  /\ tx' = [tx EXCEPT ![w] = [@ EXCEPT !.at = IF tx[w].at = "batch" THEN "commit" ELSE tx[w].at,
                                 !.row = [SeenBatch(w) EXCEPT !.status = "running"]]]
  /\ UNCHANGED <<account, batch>>

\* MarkAccountRunning writes the batch row outright ...
MarkBatch(w) ==
  /\ tx[w].at = "batch" /\ tx[w].op = "mark"
  /\ Lock(w, Batch)
  /\ tx' = [tx EXCEPT ![w] = [@ EXCEPT !.at = "commit",
                                 !.row = [SeenBatch(w) EXCEPT !.status = "running"]]]
  /\ UNCHANGED <<account, batch>>

\* ... and recalculateBatch locks it, which nobody else may share then, ...
LockBatch(w) ==
  /\ tx[w].at = "batch" /\ tx[w].op # "mark"
  /\ Lock(w, Batch) /\ \A v \in Worker \ {w} : ~tx[v].shares
  /\ tx' = [tx EXCEPT ![w] = [@ EXCEPT !.at = "count"]]
  /\ UNCHANGED <<account, batch>>

\* ... before it counts.  A reap goes on with the result of the next buried job.
CountBatch(w) ==
  /\ tx[w].at = "count"
  /\ Free(w, Batch)
  /\ tx' = [tx EXCEPT ![w] = [@ EXCEPT !.at = IF tx[w].todo = {} THEN "commit" ELSE "account",
                                 !.row = Recount(View(w), SeenBatch(w).status)]]
  /\ UNCHANGED <<account, batch, owner>>

Commit(w) ==
  /\ tx[w].at = "commit"
  /\ account' = View(w)
  /\ batch' = SeenBatch(w)
  /\ owner' = [r \in Row |-> IF owner[r] = w THEN None ELSE owner[r]]
  /\ tx' = [tx EXCEPT ![w] = Idle]

Advance(w) ==
  \/ \E a \in Account : UpdateAccount(w, a)
  \/ InsertObjects(w) \/ ShareResult(w)
  \/ MarkBatch(w) \/ LockBatch(w) \/ CountBatch(w) \/ Commit(w)

Next ==
  \E w \in Worker :
    \/ \E a \in Account : Begin(w, "mark", "running", {a})
    \/ \E a \in Account : \E verdict \in {"succeeded", "failed", "pending"} :
         Begin(w, "finish", verdict, {a})
    \/ \E todo \in SUBSET Account \ {{}} : Begin(w, "reap", "failed", todo)
    \/ \E a \in Account : BeginCheckpoint(w, a)
    \/ Advance(w)
    \/ RollBack(w)

Spec == Init /\ [][Next]_vars
-----------------------------------------------------------------------------
(* Properties. *)

\* However the transactions interleave, the committed batch row tells the truth
\* about the committed results: the lock in recalculateBatch makes each count
\* see the results of every transaction that wrote the batch before.
BatchTellsResults ==
  /\ batch.status = Recount(account, batch.status).status
       \/ (batch.status = "queued" /\ \A a \in Account : account[a] = "pending")
  /\ batch.succeeded = Count(account, {"succeeded"})
  /\ batch.status # "running" => batch.failed = Count(account, {"failed"})

\* w may have to wait for a lock of v.
Waits(w, v) ==
  /\ v # w
  /\ CASE tx[w].at = "account" -> \E a \in tx[w].todo : owner[a] = v
       [] tx[w].at = "objects" -> LocksForUpdate(v)
       [] tx[w].at = "result"  -> tx[v].op = "reap" /\ \E a \in tx[w].todo : owner[a] = v
       [] tx[w].at = "batch"   -> owner[Batch] = v \/ (tx[w].op # "mark" /\ tx[v].shares)
       [] OTHER                -> FALSE

Deadlocked(S) == S # {} /\ \A w \in S : \E v \in S : Waits(w, v)

\* A claim that buries several jobs has the batch row and asks for one more result.
BuriesAnother(w) == tx[w].op = "reap" /\ tx[w].at = "account" /\ owner[Batch] = w

\* Two finished attempts have both inserted rows of objects, and each asks for the batch.
BothInserted(v, w) ==
  v # w /\ \A u \in {v, w} : tx[u].op = "finish" /\ tx[u].shares

\* An attempt records an object although its result is being finalised.
ChecksADeadResult(v, w) ==
  /\ tx[v].op = "checkpoint" /\ tx[w].op = "reap"
  /\ \E a \in tx[v].todo : owner[a] = w

\* Everyone but a checkpoint takes the result before the batch.  So however many
\* transactions wait for each other, in a cycle of whatever length, one of these
\* three is part of it: transactions that each mark, retry, finish or finalise a
\* single result, and insert nothing, always get through.
DeadlocksAreKnown ==
  \A S \in SUBSET Worker : Deadlocked(S) =>
    \/ \E w \in S : BuriesAnother(w)
    \/ \E v, w \in S : BothInserted(v, w) \/ ChecksADeadResult(v, w)

\* A batch that has succeeded is never reopened.
SuccessIsFinal ==
  [][batch.status = "succeeded" => batch'.status = "succeeded"]_vars
=============================================================================
