----------------------- MODULE BatchAggregationProofs -----------------------
(***************************************************************************)
(* The committed batch row tells the truth about the committed results, a  *)
(* successful batch stays successful, and transactions wait for each other *)
(* in the three known ways only, for any number of results and of          *)
(* concurrent transactions.                                                *)
(*                                                                         *)
(* The argument: whoever has written the batch row holds its lock until it *)
(* commits, so no other transaction commits in between, and what a         *)
(* transaction has counted is still what it sees when it commits.          *)
(* Who has the batch row waits for nobody, unless it shares or comes back  *)
(* for more, so no cycle goes through a result or the batch row alone.     *)
(***************************************************************************)
EXTENDS BatchAggregation, FiniteSetTheorems, TLAPS

\* A transaction that has written or counted the batch holds its lock.
HoldsBatch(w) ==
  /\ tx[w].at \in {"count", "commit"} \/ tx[w].row # None => owner[Batch] = w
  /\ tx[w].at = "commit" => tx[w].row # None
  /\ tx[w].op = "mark" => tx[w].at # "count" /\ (tx[w].at \in {"account", "batch"} => tx[w].row = None)

\* A transaction holds the results it has written, and none had succeeded.
HoldsAccounts(w) ==
  \A a \in Account : tx[w].wrote[a] # "unwritten" => owner[a] = w /\ account[a] # "succeeded"

\* MarkAccountRunning: a result is running, and of the batch only the status changes.
Marked(w) ==
  tx[w].op = "mark" =>
    /\ \A a \in Account : tx[w].wrote[a] \in {"unwritten", "running"}
    /\ tx[w].at \in {"batch", "commit"} => \E a \in Account : tx[w].wrote[a] = "running"
    /\ tx[w].at = "commit" => tx[w].row = [batch EXCEPT !.status = "running"]

\* recalculateBatch: the count in hand is the count of what the transaction sees.
Counted(w) ==
  tx[w].at = "commit" /\ tx[w].op # "mark" =>
    \E status \in BatchStatus : tx[w].row = Recount(View(w), status)

\* What a transaction writes to a result.
VerdictOK(w) ==
  /\ tx[w].at # "idle" => tx[w].op # "none"
  /\ tx[w].op \notin {"none", "checkpoint"} => tx[w].verdict \in AccountStatus
  /\ tx[w].op = "checkpoint" => tx[w].at \in {"objects", "result"}
  /\ tx[w].op = "mark" => tx[w].verdict = "running"

TxOK == \A w \in Worker :
  HoldsBatch(w) /\ HoldsAccounts(w) /\ Marked(w) /\ Counted(w) /\ VerdictOK(w)

IInv == TypeOK /\ TxOK /\ BatchTellsResults
-----------------------------------------------------------------------------
(* Counting. *)

\* A count is a number of accounts.
LEMMA CountType ==
  ASSUME NEW view, NEW statuses
  PROVE  Count(view, statuses) \in 0..Cardinality(Account)
<1> DEFINE S == {a \in Account : view[a] \in statuses}
<1>1. IsFiniteSet(Account)
  BY BatchAssumption
<1>2. /\ IsFiniteSet(S) /\ Cardinality(S) <= Cardinality(Account)
  BY <1>1, FS_Subset
<1>3. Cardinality(S) \in Nat /\ Cardinality(Account) \in Nat
  BY <1>1, <1>2, FS_CardinalityType
<1> QED
  BY <1>2, <1>3 DEF Count

\* A count is zero when no account qualifies, and everything when all do.
LEMMA CountBounds ==
  ASSUME NEW view, NEW statuses
  PROVE  /\ Count(view, statuses) > 0 <=> \E a \in Account : view[a] \in statuses
         /\ Count(view, statuses) = Cardinality(Account) <=> \A a \in Account : view[a] \in statuses
<1> DEFINE S == {a \in Account : view[a] \in statuses}
<1>1. IsFiniteSet(Account)
  BY BatchAssumption
<1>2. IsFiniteSet(S) /\ (Cardinality(Account) = Cardinality(S) => Account = S)
  BY <1>1, FS_Subset
<1>3. Cardinality(S) \in Nat /\ (Cardinality(S) = 0 <=> S = {})
  BY <1>2, FS_CardinalityType, FS_EmptySet
<1>4. Count(view, statuses) = Cardinality(S)
  BY DEF Count
<1>5. (\A a \in Account : view[a] \in statuses) => S = Account
  OBVIOUS
<1>6. Cardinality(S) > 0 <=> S # {}
  BY <1>3
<1> QED
  BY <1>2, <1>4, <1>5, <1>6

\* The count of successes only depends on which accounts succeeded.
LEMMA SameSuccesses ==
  ASSUME NEW v, NEW w, \A a \in Account : v[a] = "succeeded" <=> w[a] = "succeeded"
  PROVE  Count(v, {"succeeded"}) = Count(w, {"succeeded"})
<1> {a \in Account : v[a] \in {"succeeded"}} = {a \in Account : w[a] \in {"succeeded"}}
  OBVIOUS
<1> QED
  BY DEF Count

\* The count written to the batch is a batch row.
LEMMA RecountType ==
  ASSUME NEW view, NEW status \in BatchStatus
  PROVE  Recount(view, status) \in BatchRow
<1>1. /\ Count(view, {"succeeded"}) \in 0..Cardinality(Account)
      /\ Count(view, {"failed"}) \in 0..Cardinality(Account)
  BY CountType
<1> QED
  BY <1>1 DEF Recount, BatchRow, BatchStatus

\* Counting again changes nothing.
LEMMA RecountStable ==
  ASSUME NEW view, NEW status
  PROVE  Recount(view, Recount(view, status).status).status = Recount(view, status).status
BY DEF Recount

\* The status counted is "running" while an account is not closed, and "succeeded"
\* exactly when every account succeeded.
LEMMA RecountMeaning ==
  ASSUME NEW view \in [Account -> AccountStatus], NEW status
  PROVE  /\ (\E a \in Account : view[a] \in {"pending", "running"})
               => Recount(view, status).status = "running"
         /\ Recount(view, status).status = "succeeded"
               <=> \A a \in Account : view[a] = "succeeded"
<1>1. \A S : /\ Count(view, S) > 0 <=> \E a \in Account : view[a] \in S
             /\ Count(view, S) = Cardinality(Account) <=> \A a \in Account : view[a] \in S
  BY CountBounds
<1> DEFINE open == \E a \in Account : view[a] \in {"pending", "running"}
           all  == \A a \in Account : view[a] \in {"succeeded"}
<1>2. /\ Count(view, {"pending", "running"}) > 0 <=> open
      /\ Count(view, {"succeeded"}) = Cardinality(Account) <=> all
      /\ Count(view, {"succeeded"}) > 0 <=> \E a \in Account : view[a] \in {"succeeded"}
      /\ Count(view, {"failed"}) > 0 <=> \E a \in Account : view[a] \in {"failed"}
      /\ Count(view, {"failed"}) = Cardinality(Account) <=> \A a \in Account : view[a] \in {"failed"}
  BY <1>1
<1>3. open => Recount(view, status).status = "running"
  BY <1>2 DEF Recount
<1>4. all => ~open /\ Recount(view, status).status = "succeeded"
  BY <1>2 DEF Recount
<1>5. ~open /\ ~all => Recount(view, status).status \in {"partially_succeeded", "failed"}
  <2>1. SUFFICES ASSUME ~open, ~all
                 PROVE  Recount(view, status).status \in {"partially_succeeded", "failed"}
    OBVIOUS
  <2>2. \A a \in Account : view[a] \in {"succeeded", "failed"}
    BY <2>1 DEF AccountStatus
  <2>3. Count(view, {"failed"}) > 0
    BY <1>2, <2>1, <2>2
  <2>4. Count(view, {"succeeded"}) > 0 \/ Count(view, {"failed"}) = Cardinality(Account)
    BY <1>2, <2>2
  <2> QED
    BY <1>2, <2>1, <2>3, <2>4 DEF Recount
<1> QED
  BY <1>3, <1>4, <1>5
-----------------------------------------------------------------------------
(* Types. *)

\* What a transaction sees is well formed.
LEMMA ViewType ==
  ASSUME TypeOK, NEW w \in Worker
  PROVE  View(w) \in [Account -> AccountStatus] /\ SeenBatch(w) \in BatchRow
<1>1. tx[w].wrote \in [Account -> AccountStatus \union {"unwritten"}] /\ tx[w].row \in BatchRow \union {None}
  BY DEF TypeOK, Tx
<1>2. "unwritten" \notin AccountStatus
  BY DEF AccountStatus
<1> QED
  BY <1>1, <1>2 DEF View, SeenBatch, TypeOK

\* The steps, and what a transaction begins with.
LEMMA Steps ==
  ASSUME [Next]_vars
  PROVE  \/ UNCHANGED vars
         \/ \E w \in Worker : \E op \in Op \ {"checkpoint"} : \E verdict \in AccountStatus :
              \E todo \in SUBSET Account :
                Begin(w, op, verdict, todo) /\ (op = "mark" => verdict = "running")
         \/ \E w \in Worker : \E a \in Account : BeginCheckpoint(w, a)
         \/ \E w \in Worker : RollBack(w)
         \/ \E w \in Worker : \E a \in Account : UpdateAccount(w, a)
         \/ \E w \in Worker : InsertObjects(w) \/ ShareResult(w)
         \/ \E w \in Worker : MarkBatch(w) \/ LockBatch(w) \/ CountBatch(w) \/ Commit(w)
<1> DEFINE Begins == \E w \in Worker : \E op \in Op \ {"checkpoint"} : \E verdict \in AccountStatus : \E todo \in SUBSET Account :
                       Begin(w, op, verdict, todo) /\ (op = "mark" => verdict = "running")
<1>1. ASSUME NEW w \in Worker, NEW a \in Account, Begin(w, "mark", "running", {a}) PROVE Begins
  <2>1. "mark" \in Op \ {"checkpoint"} /\ "running" \in AccountStatus /\ {a} \in SUBSET Account
    BY DEF Op, AccountStatus
  <2> QED
    BY <1>1, <2>1
<1>2. ASSUME NEW w \in Worker, NEW a \in Account, NEW verdict \in {"succeeded", "failed", "pending"},
             Begin(w, "finish", verdict, {a})
      PROVE  Begins
  <2>1. "finish" \in Op \ {"checkpoint"} /\ verdict \in AccountStatus /\ {a} \in SUBSET Account
    BY DEF Op, AccountStatus
  <2> QED
    BY <1>2, <2>1
<1>3. ASSUME NEW w \in Worker, NEW todo \in SUBSET Account \ {{}}, Begin(w, "reap", "failed", todo)
      PROVE  Begins
  <2>1. "reap" \in Op \ {"checkpoint"} /\ "failed" \in AccountStatus /\ todo \in SUBSET Account
    BY DEF Op, AccountStatus
  <2> QED
    BY <1>3, <2>1
<1> QED
  BY <1>1, <1>2, <1>3 DEF Next, Advance

\* A row lock changes hands only by a step of its type.
LEMMA LockType ==
  ASSUME TypeOK, NEW w \in Worker, NEW r \in Row, Lock(w, r)
  PROVE  owner' \in [Row -> Worker \union {None}]
BY DEF TypeOK, Lock

\* A session that ends drops its locks.
LEMMA ReleaseType ==
  ASSUME TypeOK, NEW w \in Worker,
         owner' = [r \in Row |-> IF owner[r] = w THEN None ELSE owner[r]]
  PROVE  owner' \in [Row -> Worker \union {None}]
BY DEF TypeOK

\* A step that changes one session's record to another record keeps tx well formed.
LEMMA TxType ==
  ASSUME TypeOK, NEW w \in Worker, NEW t \in Tx, tx' = [tx EXCEPT ![w] = t]
  PROVE  tx' \in [Worker -> Tx]
BY DEF TypeOK

\* Every variable keeps its type.
LEMMA TypeStep ==
  ASSUME TypeOK, TxOK, [Next]_vars
  PROVE  TypeOK'
<1>0. CASE UNCHANGED vars
  BY <1>0 DEF vars, TypeOK
<1>1. ASSUME NEW w \in Worker, NEW op \in Op, NEW verdict \in AccountStatus,
             NEW todo \in SUBSET Account, Begin(w, op, verdict, todo)
      PROVE  TypeOK'
  <2>1. [tx[w] EXCEPT !.op = op, !.at = "account", !.verdict = verdict, !.todo = todo] \in Tx
    BY DEF TypeOK, Tx
  <2>2. tx' \in [Worker -> Tx]
    BY <1>1, <2>1, TxType DEF Begin
  <2> QED
    BY <1>1, <2>2 DEF TypeOK, Begin
<1>9. ASSUME NEW w \in Worker, NEW a \in Account, BeginCheckpoint(w, a) PROVE TypeOK'
  <2>1. [tx[w] EXCEPT !.op = "checkpoint", !.at = "objects", !.todo = {a}] \in Tx
    <3>1. "checkpoint" \in Op /\ {a} \in SUBSET Account /\ tx[w] \in Tx
      BY DEF TypeOK, Op
    <3> QED
      BY <3>1 DEF Tx
  <2>2. tx' \in [Worker -> Tx]
    BY <1>9, <2>1, TxType DEF BeginCheckpoint
  <2> QED
    BY <1>9, <2>2 DEF TypeOK, BeginCheckpoint
<1>10. ASSUME NEW w \in Worker, InsertObjects(w) \/ ShareResult(w) PROVE TypeOK'
  <2>1. PICK t \in Tx : tx' = [tx EXCEPT ![w] = t]
    <3> DEFINE next == IF tx[w].op = "finish" THEN "batch" ELSE "result"
    <3>a. tx[w] \in Tx /\ next \in {"batch", "result"}
      BY DEF TypeOK
    <3>b. \A t \in Tx : \A x \in {"batch", "result"} :
            [t EXCEPT !.at = x] \in Tx /\ [t EXCEPT !.at = x, !.shares = TRUE] \in Tx
      BY DEF Tx
    <3>c. Idle \in Tx
      BY DEF Idle, Tx
    <3> HIDE DEF next
    <3>1. /\ Idle \in Tx
          /\ [tx[w] EXCEPT !.at = "batch"] \in Tx
          /\ [tx[w] EXCEPT !.at = next, !.shares = TRUE] \in Tx
      BY <3>a, <3>b, <3>c
    <3> USE DEF next
    <3>2. CASE tx' = [tx EXCEPT ![w].at = "batch"]
      BY <3>1, <3>2
    <3> QED
      BY <1>10, <3>1, <3>2 DEF InsertObjects, ShareResult
  <2>2. tx' \in [Worker -> Tx]
    BY <2>1, TxType
  <2> QED
    BY <1>10, <2>2 DEF TypeOK, InsertObjects, ShareResult
<1>2. ASSUME NEW w \in Worker, RollBack(w) PROVE TypeOK'
  <2>1. Idle \in Tx
    BY DEF Idle, Tx
  <2>2. tx' \in [Worker -> Tx]
    BY <1>2, <2>1, TxType DEF RollBack
  <2>3. owner' \in [Row -> Worker \union {None}]
    BY <1>2, ReleaseType DEF RollBack
  <2> QED
    BY <1>2, <2>2, <2>3 DEF TypeOK, RollBack
<1>3. ASSUME NEW w \in Worker, NEW a \in Account, UpdateAccount(w, a) PROVE TypeOK'
  <2> DEFINE next == IF tx[w].op = "finish" THEN "objects" ELSE "batch"
  <2>1. tx[w].verdict \in AccountStatus
    BY <1>3 DEF UpdateAccount, TxOK, VerdictOK
  <2>2. /\ [tx[w] EXCEPT !.at = next, !.todo = tx[w].todo \ {a}, !.wrote[a] = tx[w].verdict] \in Tx
        /\ [tx[w] EXCEPT !.at = "batch", !.todo = tx[w].todo \ {a}] \in Tx
    BY <2>1 DEF TypeOK, Tx
  <2>3. tx' \in [Worker -> Tx]
    <3>1. CASE tx' = [tx EXCEPT ![w] = [tx[w] EXCEPT !.at = next, !.todo = tx[w].todo \ {a},
                                                     !.wrote[a] = tx[w].verdict]]
      BY <2>2, <3>1, TxType
    <3>2. CASE tx' = [tx EXCEPT ![w] = [tx[w] EXCEPT !.at = "batch", !.todo = tx[w].todo \ {a}]]
      BY <2>2, <3>2, TxType
    <3> QED
      BY <1>3, <3>1, <3>2 DEF UpdateAccount
  <2>4. owner' \in [Row -> Worker \union {None}]
    BY <1>3, LockType DEF UpdateAccount, Row
  <2> QED
    BY <1>3, <2>3, <2>4 DEF TypeOK, UpdateAccount
<1>4. ASSUME NEW w \in Worker, MarkBatch(w) PROVE TypeOK'
  <2>1. SeenBatch(w) \in BatchRow
    BY ViewType
  <2>2. [SeenBatch(w) EXCEPT !.status = "running"] \in BatchRow
    BY <2>1 DEF BatchRow, BatchStatus
  <2>3. [tx[w] EXCEPT !.at = "commit", !.row = [SeenBatch(w) EXCEPT !.status = "running"]] \in Tx
    BY <2>2 DEF TypeOK, Tx
  <2>4. tx' \in [Worker -> Tx]
    BY <1>4, <2>3, TxType DEF MarkBatch
  <2>5. owner' \in [Row -> Worker \union {None}]
    BY <1>4, LockType DEF MarkBatch, Row
  <2> QED
    BY <1>4, <2>4, <2>5 DEF TypeOK, MarkBatch
<1>5. ASSUME NEW w \in Worker, LockBatch(w) PROVE TypeOK'
  <2>1. [tx[w] EXCEPT !.at = "count"] \in Tx
    BY DEF TypeOK, Tx
  <2>2. tx' \in [Worker -> Tx]
    BY <1>5, <2>1, TxType DEF LockBatch
  <2>3. owner' \in [Row -> Worker \union {None}]
    BY <1>5, LockType DEF LockBatch, Row
  <2> QED
    BY <1>5, <2>2, <2>3 DEF TypeOK, LockBatch
<1>6. ASSUME NEW w \in Worker, CountBatch(w) PROVE TypeOK'
  <2>1. SeenBatch(w).status \in BatchStatus
    BY ViewType DEF BatchRow
  <2>2. Recount(View(w), SeenBatch(w).status) \in BatchRow
    BY <2>1, RecountType
  <2>3. [tx[w] EXCEPT !.at = IF tx[w].todo = {} THEN "commit" ELSE "account",
                      !.row = Recount(View(w), SeenBatch(w).status)] \in Tx
    <3>1. \A t \in Tx : \A x \in {"commit", "account"} : \A row \in BatchRow :
            [t EXCEPT !.at = x, !.row = row] \in Tx
      BY DEF Tx
    <3>2. tx[w] \in Tx
      BY DEF TypeOK
    <3> QED
      BY <2>2, <3>1, <3>2
  <2>4. tx' \in [Worker -> Tx]
    BY <1>6, <2>3, TxType DEF CountBatch
  <2> QED
    BY <1>6, <2>4 DEF TypeOK, CountBatch
<1>7. ASSUME NEW w \in Worker, Commit(w) PROVE TypeOK'
  <2>1. View(w) \in [Account -> AccountStatus] /\ SeenBatch(w) \in BatchRow
    BY ViewType
  <2>2. Idle \in Tx
    BY DEF Idle, Tx
  <2>3. tx' \in [Worker -> Tx]
    BY <1>7, <2>2, TxType DEF Commit
  <2>4. owner' \in [Row -> Worker \union {None}]
    BY <1>7, ReleaseType DEF Commit
  <2> QED
    BY <1>7, <2>1, <2>3, <2>4 DEF TypeOK, Commit
<1> QED
  BY <1>0, <1>1, <1>2, <1>3, <1>4, <1>5, <1>6, <1>7, <1>9, <1>10, Steps
-----------------------------------------------------------------------------
(* The transactions. *)

SessionOK(w) == HoldsBatch(w) /\ HoldsAccounts(w) /\ Marked(w) /\ Counted(w) /\ VerdictOK(w)

\* A session that takes no step keeps what is true of it, as long as nothing is
\* committed and it keeps its locks.
LEMMA Bystander ==
  ASSUME NEW w \in Worker, SessionOK(w), tx'[w] = tx[w],
         account' = account, batch' = batch,
         \A r \in Row : owner[r] = w => owner'[r] = w
  PROVE  SessionOK(w)'
<1>1. View(w)' = View(w)
  BY DEF View
<1> QED
  BY <1>1 DEF SessionOK, HoldsBatch, HoldsAccounts, Marked, Counted, VerdictOK, Row

\* A session without a transaction.
LEMMA IdleOK ==
  ASSUME NEW w \in Worker, tx'[w] = Idle
  PROVE  SessionOK(w)'
BY DEF Idle, SessionOK, HoldsBatch, HoldsAccounts, Marked, Counted, VerdictOK

\* A row can only be locked by one session at a time.
LEMMA LockKeeps ==
  ASSUME TypeOK, NEW w \in Worker, NEW r \in Row, Lock(w, r)
  PROVE  /\ owner'[r] = w
         /\ \A v \in Worker \ {w} : \A q \in Row : owner[q] = v => owner'[q] = v
         /\ \A q \in Row : owner[q] = w => owner'[q] = w
<1>1. None \notin Worker
  BY BatchAssumption
<1> QED
  BY <1>1 DEF TypeOK, Lock, Free

\* The transactions stay in order.
LEMMA TxStep ==
  ASSUME TypeOK, TxOK, [Next]_vars
  PROVE  TxOK'
<1>0. \A w \in Worker : SessionOK(w)
  BY DEF TxOK, SessionOK
<1>n. None \notin Worker /\ None \notin BatchRow
  BY BatchAssumption
<1> SUFFICES ASSUME NEW u \in Worker PROVE SessionOK(u)'
  BY DEF TxOK, SessionOK
<1>1. CASE UNCHANGED vars
  BY <1>0, <1>1, Bystander DEF vars
<1>2. ASSUME NEW w \in Worker, NEW op \in Op \ {"checkpoint"}, NEW verdict \in AccountStatus,
             NEW todo \in SUBSET Account, Begin(w, op, verdict, todo),
             op = "mark" => verdict = "running"
      PROVE  SessionOK(u)'
  <2>1. CASE u # w
    BY <1>0, <1>2, <2>1, Bystander DEF Begin, TypeOK
  <2>2. CASE u = w
    <3>1. tx[w] \in Tx /\ tx'[w] = [tx[w] EXCEPT !.op = op, !.at = "account",
                                                 !.verdict = verdict, !.todo = todo]
      BY <1>2 DEF Begin, TypeOK
    <3>2. tx[w] = Idle
      BY <1>2 DEF Begin
    <3>3. /\ tx'[w].op = op /\ tx'[w].at = "account" /\ tx'[w].verdict = verdict
          /\ tx'[w].wrote = [a \in Account |-> "unwritten"] /\ tx'[w].row = None
      BY <3>1, <3>2 DEF Idle
    <3> QED
      BY <1>2, <2>2, <3>3 DEF SessionOK, HoldsBatch, HoldsAccounts, Marked, Counted, VerdictOK, Op
  <2> QED
    BY <2>1, <2>2
<1>9. ASSUME NEW w \in Worker, NEW a \in Account, BeginCheckpoint(w, a) PROVE SessionOK(u)'
  <2>1. CASE u # w
    BY <1>0, <1>9, <2>1, Bystander DEF BeginCheckpoint, TypeOK
  <2>2. CASE u = w
    <3>1. /\ tx'[w].op = "checkpoint" /\ tx'[w].at = "objects"
          /\ tx'[w].wrote = [b \in Account |-> "unwritten"] /\ tx'[w].row = None
      BY <1>9 DEF BeginCheckpoint, Idle, TypeOK
    <3> QED
      BY <2>2, <3>1 DEF SessionOK, HoldsBatch, HoldsAccounts, Marked, Counted, VerdictOK
  <2> QED
    BY <2>1, <2>2
<1>10. ASSUME NEW w \in Worker, InsertObjects(w) PROVE SessionOK(u)'
  <2>1. CASE u # w
    BY <1>0, <1>10, <2>1, Bystander DEF InsertObjects, TypeOK
  <2>2. CASE u = w
    <3>1. /\ tx[w] \in Tx /\ SessionOK(w) /\ tx[w].at = "objects"
      BY <1>0, <1>10 DEF InsertObjects, TypeOK
    <3>2. /\ tx'[w].op = tx[w].op /\ tx'[w].verdict = tx[w].verdict
          /\ tx'[w].wrote = tx[w].wrote /\ tx'[w].row = tx[w].row
          /\ tx'[w].at = IF tx[w].op = "finish" THEN "batch" ELSE "result"
      <4>1. CASE tx[w].op = "finish" /\ tx' = [tx EXCEPT ![w].at = "batch"]
        BY <3>1, <4>1 DEF TypeOK, Tx
      <4>2. CASE tx' = [tx EXCEPT ![w] = [@ EXCEPT !.at = IF tx[w].op = "finish" THEN "batch" ELSE "result",
                                              !.shares = TRUE]]
        BY <3>1, <4>2 DEF TypeOK, Tx
      <4> QED
        BY <1>10, <4>1, <4>2 DEF InsertObjects
    <3>3. account' = account /\ batch' = batch /\ owner' = owner
      BY <1>10 DEF InsertObjects
    <3> QED
      BY <2>2, <3>1, <3>2, <3>3
         DEF SessionOK, HoldsBatch, HoldsAccounts, Marked, Counted, VerdictOK
  <2> QED
    BY <2>1, <2>2
<1>11. ASSUME NEW w \in Worker, ShareResult(w) PROVE SessionOK(u)'
  <2>1. CASE u # w
    BY <1>0, <1>11, <2>1, Bystander DEF ShareResult, TypeOK
  <2>2. CASE u = w
    BY <1>11, <2>2, IdleOK DEF ShareResult, TypeOK
  <2> QED
    BY <2>1, <2>2
<1>3. ASSUME NEW w \in Worker, RollBack(w) PROVE SessionOK(u)'
  <2>1. CASE u # w
    BY <1>0, <1>3, <2>1, Bystander DEF RollBack, TypeOK
  <2>2. CASE u = w
    BY <1>3, <2>2, IdleOK DEF RollBack, TypeOK
  <2> QED
    BY <2>1, <2>2
<1>4. ASSUME NEW w \in Worker, NEW a \in Account, UpdateAccount(w, a) PROVE SessionOK(u)'
  <2> DEFINE next == IF tx[w].op = "finish" THEN "objects" ELSE "batch"
  <2>1. /\ owner'[a] = w
        /\ \A v \in Worker \ {w} : \A q \in Row : owner[q] = v => owner'[q] = v
        /\ \A q \in Row : owner[q] = w => owner'[q] = w
    BY <1>4, LockKeeps DEF UpdateAccount, Row
  <2>2. CASE u # w
    BY <1>0, <1>4, <2>1, <2>2, Bystander DEF UpdateAccount, TypeOK
  <2>3. CASE u = w
    <3>1. /\ tx[w] \in Tx /\ tx[w].at = "account"
          /\ tx[w].op \notin {"none", "checkpoint"} /\ tx[w].verdict \in AccountStatus
          /\ tx[w].op = "mark" => tx[w].verdict = "running" /\ tx[w].row = None
          /\ tx[w].row # None => owner[Batch] = w
          /\ HoldsAccounts(w) /\ Marked(w)
      BY <1>0, <1>4 DEF UpdateAccount, TypeOK, SessionOK, HoldsBatch, VerdictOK
    <3>2. /\ tx'[w].op = tx[w].op /\ tx'[w].at = next
          /\ tx'[w].verdict = tx[w].verdict /\ tx'[w].row = tx[w].row
          /\ account' = account
      <4>1. CASE tx' = [tx EXCEPT ![w] = [tx[w] EXCEPT !.at = next, !.todo = tx[w].todo \ {a},
                                                       !.wrote[a] = tx[w].verdict]]
        BY <1>4, <3>1, <4>1 DEF UpdateAccount, TypeOK, Tx
      <4>2. CASE tx' = [tx EXCEPT ![w] = [tx[w] EXCEPT !.at = next, !.todo = tx[w].todo \ {a}]]
        BY <1>4, <3>1, <4>2 DEF UpdateAccount, TypeOK, Tx
      <4> QED
        BY <1>4, <4>1, <4>2 DEF UpdateAccount
    <3>3. HoldsBatch(w)' /\ Counted(w)' /\ VerdictOK(w)'
      BY <2>1, <3>1, <3>2 DEF HoldsBatch, Counted, VerdictOK, Row
    <3>4. CASE /\ View(w)[a] \in From(tx[w].op)
               /\ tx' = [tx EXCEPT ![w] = [@ EXCEPT !.at = next, !.todo = tx[w].todo \ {a}, !.wrote[a] = tx[w].verdict]]
      <4>1. tx'[w].wrote = [tx[w].wrote EXCEPT ![a] = tx[w].verdict]
        BY <3>1, <3>4 DEF TypeOK, Tx
      <4>2. tx[w].wrote \in [Account -> AccountStatus \union {"unwritten"}]
        BY <3>1 DEF Tx
      <4>3. tx[w].op \in Op
        BY <3>1 DEF Tx
      <4>4. account[a] # "succeeded"
        BY <3>1, <3>4, <4>3 DEF HoldsAccounts, View, From, Op
      <4>5. HoldsAccounts(w)'
        BY <2>1, <3>1, <3>2, <4>1, <4>2, <4>4 DEF HoldsAccounts, Row
      <4>6. Marked(w)'
        BY <3>1, <3>2, <4>1, <4>2 DEF Marked
      <4> QED
        BY <2>3, <3>3, <4>5, <4>6 DEF SessionOK
    <3>5. CASE tx[w].op = "reap" /\ tx' = [tx EXCEPT ![w] = [@ EXCEPT !.at = next, !.todo = tx[w].todo \ {a}]]
      <4>1. tx'[w].wrote = tx[w].wrote
        BY <3>1, <3>5 DEF TypeOK, Tx
      <4>2. HoldsAccounts(w)' /\ Marked(w)'
        BY <2>1, <3>1, <3>2, <3>5, <4>1 DEF HoldsAccounts, Marked, Row
      <4> QED
        BY <2>3, <3>3, <4>2 DEF SessionOK
    <3> QED
      BY <1>4, <3>4, <3>5 DEF UpdateAccount
  <2> QED
    BY <2>2, <2>3
<1>5. ASSUME NEW w \in Worker, MarkBatch(w) PROVE SessionOK(u)'
  <2>1. /\ owner'[Batch] = w
        /\ \A v \in Worker \ {w} : \A q \in Row : owner[q] = v => owner'[q] = v
        /\ \A q \in Row : owner[q] = w => owner'[q] = w
    BY <1>5, LockKeeps DEF MarkBatch, Row
  <2>2. CASE u # w
    BY <1>0, <1>5, <2>1, <2>2, Bystander DEF MarkBatch, TypeOK
  <2>3. CASE u = w
    <3>1. /\ tx[w] \in Tx /\ tx[w].at = "batch" /\ tx[w].op = "mark" /\ tx[w].row = None
          /\ HoldsAccounts(w) /\ Marked(w) /\ VerdictOK(w)
      BY <1>0, <1>5 DEF MarkBatch, TypeOK, SessionOK, HoldsBatch
    <3>2. /\ tx'[w].op = "mark" /\ tx'[w].at = "commit" /\ tx'[w].verdict = tx[w].verdict
          /\ tx'[w].wrote = tx[w].wrote /\ tx'[w].row = [batch EXCEPT !.status = "running"]
          /\ account' = account /\ batch' = batch
      BY <1>5, <3>1 DEF MarkBatch, TypeOK, Tx, SeenBatch
    <3>3. batch \in BatchRow
      BY DEF TypeOK
    <3>4. [batch EXCEPT !.status = "running"] \in BatchRow
      BY <3>3 DEF BatchRow, BatchStatus
    <3>5. HoldsBatch(w)' /\ Counted(w)' /\ VerdictOK(w)'
      BY <1>n, <2>1, <3>1, <3>2, <3>4 DEF HoldsBatch, Counted, VerdictOK
    <3>6. HoldsAccounts(w)' /\ Marked(w)'
      BY <2>1, <3>1, <3>2 DEF HoldsAccounts, Marked, Row
    <3> QED
      BY <2>3, <3>5, <3>6 DEF SessionOK
  <2> QED
    BY <2>2, <2>3
<1>6. ASSUME NEW w \in Worker, LockBatch(w) PROVE SessionOK(u)'
  <2>1. /\ owner'[Batch] = w
        /\ \A v \in Worker \ {w} : \A q \in Row : owner[q] = v => owner'[q] = v
        /\ \A q \in Row : owner[q] = w => owner'[q] = w
    BY <1>6, LockKeeps DEF LockBatch, Row
  <2>2. CASE u # w
    BY <1>0, <1>6, <2>1, <2>2, Bystander DEF LockBatch, TypeOK
  <2>3. CASE u = w
    <3>1. /\ tx[w] \in Tx /\ tx[w].at = "batch" /\ tx[w].op # "mark"
          /\ HoldsAccounts(w) /\ VerdictOK(w)
      BY <1>0, <1>6 DEF LockBatch, TypeOK, SessionOK
    <3>2. /\ tx'[w].op = tx[w].op /\ tx'[w].at = "count" /\ tx'[w].verdict = tx[w].verdict
          /\ tx'[w].wrote = tx[w].wrote /\ tx'[w].row = tx[w].row /\ account' = account
      BY <1>6, <3>1 DEF LockBatch, TypeOK, Tx
    <3> QED
      BY <2>1, <2>3, <3>1, <3>2
         DEF SessionOK, HoldsBatch, HoldsAccounts, Marked, Counted, VerdictOK, Row
  <2> QED
    BY <2>2, <2>3
<1>7. ASSUME NEW w \in Worker, CountBatch(w) PROVE SessionOK(u)'
  <2>1. CASE u # w
    BY <1>0, <1>7, <2>1, Bystander DEF CountBatch, TypeOK
  <2>2. CASE u = w
    <3>1. /\ tx[w] \in Tx /\ tx[w].at = "count" /\ tx[w].op # "mark" /\ owner[Batch] = w
          /\ HoldsAccounts(w) /\ VerdictOK(w)
      BY <1>0, <1>7 DEF CountBatch, TypeOK, SessionOK, HoldsBatch
    <3>2. PICK status \in BatchStatus : status = SeenBatch(w).status
      BY ViewType DEF BatchRow
    <3>3. /\ tx'[w].op = tx[w].op /\ tx'[w].at \in {"account", "commit"}
          /\ tx'[w].verdict = tx[w].verdict /\ tx'[w].wrote = tx[w].wrote
          /\ tx'[w].row = Recount(View(w), status)
          /\ account' = account /\ batch' = batch /\ owner' = owner
      BY <1>7, <3>1, <3>2 DEF CountBatch, TypeOK, Tx
    <3>4. View(w)' = View(w)
      BY <3>3 DEF View
    <3>5. tx'[w].row # None
      BY <1>n, <3>3, RecountType
    <3> QED
      BY <2>2, <3>1, <3>3, <3>4, <3>5
         DEF SessionOK, HoldsBatch, HoldsAccounts, Marked, Counted, VerdictOK
  <2> QED
    BY <2>1, <2>2
<1>8. ASSUME NEW w \in Worker, Commit(w) PROVE SessionOK(u)'
  <2>1. CASE u = w
    BY <1>8, <2>1, IdleOK DEF Commit, TypeOK
  <2>2. CASE u # w
    <3>1. owner[Batch] = w
      BY <1>0, <1>8 DEF Commit, SessionOK, HoldsBatch
    <3>2. /\ tx'[u] = tx[u] /\ tx[u] \in Tx
          /\ \A r \in Row : owner[r] = u => owner'[r] = u
      BY <1>8, <2>2 DEF Commit, TypeOK
    <3>3. tx[u].at \notin {"count", "commit"} /\ tx[u].row = None
      BY <1>0, <2>2, <3>1 DEF SessionOK, HoldsBatch
    <3>4. \A a \in Account : tx[u].wrote[a] # "unwritten" => account'[a] = account[a]
      BY <1>0, <1>8, <2>2 DEF Commit, View, SessionOK, HoldsAccounts
    <3> QED
      BY <1>0, <2>2, <3>2, <3>3, <3>4
         DEF SessionOK, HoldsBatch, HoldsAccounts, Marked, Counted, VerdictOK, Row
  <2> QED
    BY <2>1, <2>2
<1> QED
  BY <1>1, <1>2, <1>3, <1>4, <1>5, <1>6, <1>7, <1>8, <1>9, <1>10, <1>11, Steps
-----------------------------------------------------------------------------
(* The batch. *)

\* A commit leaves the batch row telling the truth about the results.
LEMMA CommitTells ==
  ASSUME IInv, NEW w \in Worker, Commit(w)
  PROVE  BatchTellsResults'
<1>1. /\ tx[w] \in Tx /\ tx[w].at = "commit" /\ tx[w].row # None
      /\ HoldsAccounts(w) /\ Marked(w) /\ Counted(w)
  BY DEF IInv, TypeOK, TxOK, HoldsBatch, Commit
<1>2. account' = View(w) /\ batch' = tx[w].row
  BY <1>1 DEF Commit, SeenBatch
<1>3. View(w) \in [Account -> AccountStatus]
  BY ViewType DEF IInv
<1>4. CASE tx[w].op # "mark"
  <2>1. PICK status \in BatchStatus : tx[w].row = Recount(View(w), status)
    BY <1>1, <1>4 DEF Counted
  <2>2. /\ batch'.status = Recount(account', batch'.status).status
        /\ batch'.succeeded = Count(account', {"succeeded"})
        /\ batch'.failed = Count(account', {"failed"})
    BY <1>2, <2>1, RecountStable DEF Recount
  <2> QED
    BY <2>2 DEF BatchTellsResults, Count
<1>5. CASE tx[w].op = "mark"
  <2>1. batch' = [batch EXCEPT !.status = "running"] /\ batch \in BatchRow
    BY <1>1, <1>2, <1>5 DEF Marked, IInv, TypeOK
  <2>2. batch'.status = "running" /\ batch'.succeeded = batch.succeeded
    BY <2>1 DEF BatchRow
  <2>3. \E a \in Account : View(w)[a] = "running"
    BY <1>1, <1>5 DEF Marked, View
  <2>4. Recount(View(w), "running").status = "running"
    BY <1>3, <2>3, RecountMeaning
  <2>5. \A a \in Account : View(w)[a] = "succeeded" <=> account[a] = "succeeded"
    BY <1>1, <1>5 DEF Marked, HoldsAccounts, View
  <2>6. Count(View(w), {"succeeded"}) = Count(account, {"succeeded"})
    BY <2>5, SameSuccesses
  <2>7. batch.succeeded = Count(account, {"succeeded"})
    BY DEF IInv, BatchTellsResults
  <2>8. Count(View(w), {"succeeded"})  = Count(account, {"succeeded"})'
    BY <1>2 DEF Count
  <2>9. Recount(View(w), "running").status = Recount(account, batch.status)'.status
    BY <1>2, <2>2 DEF Recount, Count
  <2> QED
    BY <2>2, <2>4, <2>6, <2>7, <2>8, <2>9 DEF BatchTellsResults
<1> QED
  BY <1>4, <1>5

\* The first state satisfies the inductive invariant.
LEMMA InitIInv == Init => IInv
<1> SUFFICES ASSUME Init PROVE IInv
  OBVIOUS
<1>1. Cardinality(Account) \in Nat
  BY BatchAssumption, FS_CardinalityType
<1>2. batch \in BatchRow
  BY <1>1 DEF Init, BatchRow, BatchStatus
<1>3. Idle \in Tx
  BY DEF Idle, Tx
<1>4. TypeOK
  BY <1>2, <1>3 DEF Init, TypeOK, AccountStatus, Row
<1>5. TxOK
  BY DEF Init, Idle, TxOK, HoldsBatch, HoldsAccounts, Marked, Counted, VerdictOK
<1>6. Count(account, {"succeeded"}) \in 0..Cardinality(Account)
      /\ Count(account, {"failed"}) \in 0..Cardinality(Account)
  BY CountType
<1>7. ~(Count(account, {"succeeded"}) > 0) /\ ~(Count(account, {"failed"}) > 0)
  BY CountBounds DEF Init
<1>8. BatchTellsResults
  BY <1>1, <1>6, <1>7 DEF Init, BatchTellsResults
<1> QED
  BY <1>4, <1>5, <1>8 DEF IInv

\* Every step keeps it.
LEMMA NextIInv == IInv /\ [Next]_vars => IInv'
<1> SUFFICES ASSUME IInv, [Next]_vars PROVE IInv'
  OBVIOUS
<1>1. TypeOK' /\ TxOK'
  BY TypeStep, TxStep DEF IInv
<1>2. ASSUME UNCHANGED <<account, batch>> PROVE BatchTellsResults'
  <2>1. \A S : Count(account, S)' = Count(account, S)
    BY <1>2 DEF Count
  <2>2. Recount(account, batch.status)' = Recount(account, batch.status)
    BY <1>2 DEF Recount, Count
  <2> QED
    BY <1>2, <2>1, <2>2 DEF IInv, BatchTellsResults
<1>3. ASSUME NEW w \in Worker, Commit(w) PROVE BatchTellsResults'
  BY <1>3, CommitTells
<1>4. UNCHANGED <<account, batch>> \/ \E w \in Worker : Commit(w)
  BY DEF vars, Next, Advance, Begin, BeginCheckpoint, RollBack, UpdateAccount, InsertObjects, ShareResult,
            MarkBatch, LockBatch, CountBatch
<1>5. BatchTellsResults'
  BY <1>2, <1>3, <1>4
<1> QED
  BY <1>1, <1>5 DEF IInv

\* Invariance of the whole.
LEMMA Invariance == Spec => []IInv
<1> QED
  BY InitIInv, NextIInv, PTL DEF Spec

\* The state of rows, locks and transactions stays well formed.
THEOREM TypeCorrect == Spec => []TypeOK
<1>1. IInv => TypeOK
  BY DEF IInv
<1> QED
  BY <1>1, Invariance, PTL

\* However many transactions finish, retry, mark and bury results at once, the
\* committed batch row agrees with the committed results.
THEOREM BatchTruth == Spec => []BatchTellsResults
<1>1. IInv => BatchTellsResults
  BY DEF IInv
<1> QED
  BY <1>1, Invariance, PTL

\* A batch that has succeeded is never reopened, by a retry, by a stale attempt
\* or by the burial of a dead job.
THEOREM SuccessKept == Spec => SuccessIsFinal
<1>1. IInv /\ IInv' /\ [Next]_vars => [batch.status = "succeeded" => batch'.status = "succeeded"]_vars
  <2> SUFFICES ASSUME IInv, IInv', [Next]_vars, batch.status = "succeeded"
               PROVE  batch'.status = "succeeded"
    OBVIOUS
  <2>1. CASE UNCHANGED batch
    BY <2>1
  <2>2. ASSUME NEW w \in Worker, Commit(w) PROVE batch'.status = "succeeded"
    <3>1. account \in [Account -> AccountStatus]
      BY DEF IInv, TypeOK
    <3>2. Recount(account, batch.status).status = "succeeded"
      BY DEF IInv, BatchTellsResults
    <3>3. \A a \in Account : account[a] = "succeeded"
      BY <3>1, <3>2, RecountMeaning
    <3>4. HoldsAccounts(w) /\ Marked(w) /\ Counted(w) /\ HoldsBatch(w) /\ tx[w].at = "commit"
      BY <2>2 DEF IInv, TxOK, Commit
    <3>5. \A a \in Account : tx[w].wrote[a] = "unwritten"
      BY <3>3, <3>4 DEF HoldsAccounts
    <3>6. tx[w].op # "mark"
      BY <3>4, <3>5 DEF Marked
    <3>7. PICK status \in BatchStatus : tx[w].row = Recount(View(w), status)
      BY <3>4, <3>6 DEF Counted
    <3>8. View(w) \in [Account -> AccountStatus] /\ \A a \in Account : View(w)[a] = "succeeded"
      BY <3>3, <3>5, ViewType DEF View, IInv
    <3>9. Recount(View(w), status).status = "succeeded"
      BY <3>8, RecountMeaning
    <3> QED
      BY <2>2, <3>4, <3>7, <3>9 DEF Commit, SeenBatch, HoldsBatch
  <2>3. UNCHANGED batch \/ \E w \in Worker : Commit(w)
    BY DEF vars, Next, Advance, Begin, BeginCheckpoint, RollBack, UpdateAccount, InsertObjects, ShareResult,
            MarkBatch, LockBatch, CountBatch
  <2> QED
    BY <2>1, <2>2, <2>3
<1> QED
  BY <1>1, Invariance, PTL DEF Spec, SuccessIsFinal

-----------------------------------------------------------------------------
(* Deadlocks. *)

\* Who processes one result holds no row before it has the result's, and the batch
\* row only when it is past waiting for it; a checkpoint holds no row.  A claim that
\* buries several jobs comes back for the next result with the batch row in hand.
InOrder(w) ==
  /\ tx[w].op # "reap" /\ tx[w].at \in {"idle", "account", "objects", "batch"} => owner[Batch] # w
  /\ tx[w].op # "reap" /\ tx[w].at \in {"idle", "account"} => \A a \in Account : owner[a] # w
  /\ tx[w].op = "reap" => tx[w].at \in {"account", "batch", "count", "commit"}
  /\ tx[w].op = "reap" /\ tx[w].at = "account" => owner[Batch] = w \/ \A a \in Account : owner[a] # w
  /\ tx[w].op = "checkpoint" => tx[w].at \in {"objects", "result"} /\ \A r \in Row : owner[r] # w
  /\ tx[w].op \in {"mark", "finish"} =>
       /\ tx[w].at = "account" => \E a \in Account : tx[w].todo = {a}
       /\ tx[w].at \in {"objects", "batch", "count", "commit"} => tx[w].todo = {}

\* Who shares the batch row, and when.
SharesInOrder(w) ==
  /\ tx[w].shares => \/ tx[w].op = "finish" /\ tx[w].at \in {"batch", "count", "commit"}
                     \/ tx[w].op = "checkpoint" /\ tx[w].at = "result"
  /\ tx[w].at = "objects" => tx[w].op \in {"finish", "checkpoint"}
  /\ tx[w].at = "result" => tx[w].op = "checkpoint"

\* Nobody shares the batch row that another has FOR UPDATE.
Exclusive ==
  \A v, w \in Worker : v # w /\ LocksForUpdate(v) => ~tx[w].shares

LockOrder == Exclusive /\ \A w \in Worker : InOrder(w) /\ SharesInOrder(w)

\* A session that ends has nothing left.
LEMMA EndsInOrder ==
  ASSUME TypeOK, LockOrder, NEW w \in Worker, tx' = [tx EXCEPT ![w] = Idle],
         owner' = [r \in Row |-> IF owner[r] = w THEN None ELSE owner[r]]
  PROVE  LockOrder'
<1>1. tx'[w] = Idle /\ \A u \in Worker \ {w} : tx'[u] = tx[u]
  BY DEF TypeOK
<1>2. /\ \A r \in Row : owner'[r] # w
      /\ \A r \in Row : \A u \in Worker \ {w} : owner'[r] = u <=> owner[r] = u
  BY BatchAssumption
<1>3. ASSUME NEW u \in Worker PROVE InOrder(u)' /\ SharesInOrder(u)'
  <2>1. CASE u = w
    BY <1>1, <1>2, <2>1 DEF InOrder, SharesInOrder, Idle, Row
  <2>2. CASE u # w
    <3>1. tx'[u] = tx[u] /\ \A r \in Row : owner'[r] = u <=> owner[r] = u
      BY <1>1, <1>2, <2>2
    <3>2. Account \subseteq Row /\ Batch \in Row
      BY DEF Row
    <3>3. InOrder(u)'
      BY <3>1, <3>2 DEF LockOrder, InOrder
    <3>4. SharesInOrder(u)'
      BY <3>1 DEF LockOrder, SharesInOrder
    <3> QED
      BY <3>3, <3>4
  <2> QED
    BY <2>1, <2>2
<1>4. ~tx'[w].shares /\ ~LocksForUpdate(w)'
  BY <1>1, <1>2 DEF Idle, LocksForUpdate, Row
<1>5. \A v \in Worker \ {w} : LocksForUpdate(v)' <=> LocksForUpdate(v)
  BY <1>1, <1>2 DEF LocksForUpdate, Row
<1>6. Exclusive'
  BY <1>1, <1>4, <1>5 DEF LockOrder, Exclusive
<1> QED
  BY <1>3, <1>6 DEF LockOrder

\* Nobody else is given a lock, or loses one, by a step that takes a free row or none.
LEMMA OthersInOrder ==
  ASSUME TypeOK, LockOrder, NEW w \in Worker, \A u \in Worker \ {w} : tx'[u] = tx[u],
         owner' = owner \/ \E r \in Row : Lock(w, r),
         InOrder(w)', SharesInOrder(w)',
         LocksForUpdate(w)' => LocksForUpdate(w) \/ \A v \in Worker \ {w} : ~tx[v].shares,
         tx'[w].shares => tx[w].shares \/ \A v \in Worker \ {w} : ~LocksForUpdate(v)
  PROVE  LockOrder'
<1>1. \A r \in Row : \A u \in Worker \ {w} : owner'[r] = u <=> owner[r] = u
  BY BatchAssumption DEF TypeOK, Lock, Free
<1>2. ASSUME NEW u \in Worker \ {w} PROVE InOrder(u)' /\ SharesInOrder(u)'
  BY <1>1 DEF LockOrder, InOrder, SharesInOrder, Row
<1>3. \A v \in Worker \ {w} : LocksForUpdate(v)' <=> LocksForUpdate(v)
  BY <1>1 DEF LocksForUpdate, Row
<1>4. ASSUME NEW v \in Worker, NEW u \in Worker, v # u, LocksForUpdate(v)', tx'[u].shares
      PROVE  FALSE
  <2>1. CASE v = w
    BY <1>4, <2>1 DEF LockOrder, Exclusive
  <2>2. CASE u = w
    BY <1>3, <1>4, <2>2 DEF LockOrder, Exclusive
  <2>3. CASE v # w /\ u # w
    BY <1>3, <1>4, <2>3 DEF LockOrder, Exclusive
  <2> QED
    BY <2>1, <2>2, <2>3
<1>5. Exclusive'
  BY <1>4 DEF Exclusive
<1> QED
  BY <1>2, <1>5 DEF LockOrder

\* The locks are taken in order by every step.
LEMMA OrderStep ==
  ASSUME TypeOK, TxOK, LockOrder, [Next]_vars
  PROVE  LockOrder'
<1>a. \A w \in Worker : tx[w] \in Tx
  BY DEF TypeOK
<1>b. \A w \in Worker : InOrder(w) /\ SharesInOrder(w)
  BY DEF LockOrder
<1>1. CASE UNCHANGED vars
  BY <1>1 DEF vars, LockOrder, Exclusive, LocksForUpdate, InOrder, SharesInOrder
<1>2. ASSUME NEW w \in Worker, NEW op \in Op \ {"checkpoint"}, NEW verdict, NEW todo,
             Begin(w, op, verdict, todo), op # "reap" => \E a \in Account : todo = {a}
      PROVE  LockOrder'
  <2>1. /\ owner' = owner /\ \A u \in Worker \ {w} : tx'[u] = tx[u]
        /\ tx'[w].op = op /\ tx'[w].at = "account" /\ tx'[w].shares = FALSE /\ tx'[w].todo = todo
    BY <1>2 DEF Begin, TypeOK, Idle
  <2>2. \A r \in Row : owner[r] # w
    BY <1>2, <1>b DEF Begin, InOrder, Idle, Row
  <2>3. InOrder(w)' /\ SharesInOrder(w)'
    BY <1>2, <2>1, <2>2 DEF InOrder, SharesInOrder, Row, Op
  <2>4. ~LocksForUpdate(w)'
    BY <2>1, <2>2 DEF LocksForUpdate, Row
  <2> QED
    BY <2>1, <2>3, <2>4, OthersInOrder
<1>3. ASSUME NEW w \in Worker, NEW a \in Account, BeginCheckpoint(w, a) PROVE LockOrder'
  <2>1. /\ owner' = owner /\ \A u \in Worker \ {w} : tx'[u] = tx[u]
        /\ tx'[w].op = "checkpoint" /\ tx'[w].at = "objects" /\ tx'[w].shares = FALSE
    BY <1>3 DEF BeginCheckpoint, TypeOK, Idle
  <2>2. \A r \in Row : owner[r] # w
    BY <1>3, <1>b DEF BeginCheckpoint, InOrder, Idle, Row
  <2>3. InOrder(w)' /\ SharesInOrder(w)'
    BY <2>1, <2>2 DEF InOrder, SharesInOrder, Row
  <2>4. ~LocksForUpdate(w)'
    BY <2>1, <2>2 DEF LocksForUpdate, Row
  <2> QED
    BY <2>1, <2>3, <2>4, OthersInOrder
<1>4. ASSUME NEW w \in Worker, RollBack(w) \/ Commit(w) PROVE LockOrder'
  BY <1>4, EndsInOrder DEF RollBack, Commit
<1>5. ASSUME NEW w \in Worker, ShareResult(w) PROVE LockOrder'
  <2>1. tx' = [tx EXCEPT ![w] = Idle] /\ owner' = owner /\ tx[w].op = "checkpoint"
    BY <1>5, <1>b DEF ShareResult, SharesInOrder
  <2>2. \A r \in Row : owner[r] # w
    BY <2>1, <1>b DEF InOrder
  <2>3. owner' = [r \in Row |-> IF owner[r] = w THEN None ELSE owner[r]]
    BY <2>1, <2>2 DEF TypeOK
  <2> QED
    BY <2>1, <2>3, EndsInOrder
<1>6. ASSUME NEW w \in Worker, NEW a \in Account, UpdateAccount(w, a) PROVE LockOrder'
  <2> DEFINE next == IF tx[w].op = "finish" THEN "objects" ELSE "batch"
  <2>1. /\ \A u \in Worker \ {w} : tx'[u] = tx[u]
        /\ tx'[w].op = tx[w].op /\ tx'[w].at = next /\ tx'[w].shares = tx[w].shares
        /\ tx'[w].todo = tx[w].todo \ {a}
    <3>1. CASE tx' = [tx EXCEPT ![w] = [@ EXCEPT !.at = next, !.todo = tx[w].todo \ {a},
                                            !.wrote[a] = tx[w].verdict]]
      BY <1>a, <3>1 DEF TypeOK, Tx
    <3>2. CASE tx' = [tx EXCEPT ![w] = [@ EXCEPT !.at = "batch", !.todo = tx[w].todo \ {a}]]
               /\ tx[w].op = "reap"
      BY <1>a, <3>2 DEF TypeOK, Tx
    <3> QED
      BY <1>6, <3>1, <3>2 DEF UpdateAccount
  <2>2. Lock(w, a) /\ a \in Row /\ owner'[Batch] = owner[Batch]
    BY <1>6, BatchAssumption DEF UpdateAccount, Lock, Row, TypeOK
  <2>3. tx[w].at = "account" /\ tx[w].op # "checkpoint" /\ ~tx[w].shares /\ a \in tx[w].todo
    BY <1>6, <1>b DEF UpdateAccount, InOrder, SharesInOrder
  <2>4. InOrder(w)' /\ SharesInOrder(w)'
    BY <1>b, <2>1, <2>2, <2>3 DEF InOrder, SharesInOrder
  <2>5. LocksForUpdate(w)' => LocksForUpdate(w)
    BY <2>1, <2>2 DEF LocksForUpdate
  <2> QED
    BY <2>1, <2>2, <2>4, <2>5, OthersInOrder
<1>7. ASSUME NEW w \in Worker, InsertObjects(w) PROVE LockOrder'
  <2>1. /\ owner' = owner /\ \A u \in Worker \ {w} : tx'[u] = tx[u]
        /\ tx'[w].op = tx[w].op
        /\ tx'[w].at = IF tx[w].op = "finish" THEN "batch" ELSE "result"
        /\ tx'[w].todo = tx[w].todo
        /\ tx'[w].shares => tx[w].shares \/ \A v \in Worker \ {w} : ~LocksForUpdate(v)
    <3>1. CASE tx[w].op = "finish" /\ tx' = [tx EXCEPT ![w].at = "batch"]
      BY <1>7, <1>a, <3>1 DEF InsertObjects, TypeOK, Tx
    <3>2. CASE /\ \A v \in Worker \ {w} : ~LocksForUpdate(v)
               /\ tx' = [tx EXCEPT ![w] = [@ EXCEPT !.at = IF tx[w].op = "finish" THEN "batch" ELSE "result",
                                               !.shares = TRUE]]
      BY <1>7, <1>a, <3>2 DEF InsertObjects, TypeOK, Tx
    <3> QED
      BY <1>7, <3>1, <3>2 DEF InsertObjects
  <2>2. tx[w].at = "objects" /\ tx[w].op \in {"finish", "checkpoint"}
    BY <1>7, <1>b DEF InsertObjects, SharesInOrder
  <2>3. InOrder(w)' /\ SharesInOrder(w)'
    BY <1>b, <2>1, <2>2 DEF InOrder, SharesInOrder
  <2>4. LocksForUpdate(w)' => LocksForUpdate(w)
    BY <2>1 DEF LocksForUpdate
  <2> QED
    BY <2>1, <2>3, <2>4, OthersInOrder
<1>8. ASSUME NEW w \in Worker, MarkBatch(w) \/ LockBatch(w) PROVE LockOrder'
  <2>1. /\ \A u \in Worker \ {w} : tx'[u] = tx[u]
        /\ tx'[w].op = tx[w].op /\ tx'[w].shares = tx[w].shares /\ tx'[w].todo = tx[w].todo
        /\ tx[w].at = "batch" /\ tx'[w].at \in {"count", "commit"}
    <3>1. CASE MarkBatch(w)
      BY <1>a, <3>1 DEF MarkBatch, TypeOK, Tx
    <3>2. CASE LockBatch(w)
      BY <1>a, <3>2 DEF LockBatch, TypeOK, Tx
    <3> QED
      BY <1>8, <3>1, <3>2
  <2>2. Lock(w, Batch) /\ Batch \in Row
    BY <1>8 DEF MarkBatch, LockBatch, Row
  <2>3. tx[w].op # "checkpoint"
    BY <1>b, <2>1 DEF InOrder
  <2>4. InOrder(w)' /\ SharesInOrder(w)'
    BY <1>b, <2>1, <2>3 DEF InOrder, SharesInOrder
  <2>5. LocksForUpdate(w)' => \A v \in Worker \ {w} : ~tx[v].shares
    BY <1>8, <2>1 DEF LocksForUpdate, MarkBatch, LockBatch
  <2> QED
    BY <2>1, <2>2, <2>4, <2>5, OthersInOrder
<1>9. ASSUME NEW w \in Worker, CountBatch(w) PROVE LockOrder'
  <2>1. /\ owner' = owner /\ \A u \in Worker \ {w} : tx'[u] = tx[u]
        /\ tx'[w].op = tx[w].op /\ tx'[w].shares = tx[w].shares /\ tx'[w].todo = tx[w].todo
        /\ tx[w].at = "count" /\ tx'[w].at = IF tx[w].todo = {} THEN "commit" ELSE "account"
    BY <1>9, <1>a DEF CountBatch, TypeOK, Tx
  <2>2. tx[w].op \in {"finish", "reap"} /\ owner[Batch] = w
    BY <1>9, <1>a, <1>b DEF InOrder, TxOK, HoldsBatch, VerdictOK, CountBatch, Tx, Op
  <2>3. tx'[w].at = "account" => tx[w].op = "reap"
    BY <1>b, <2>1, <2>2 DEF InOrder
  <2>4. InOrder(w)' /\ SharesInOrder(w)'
    BY <1>b, <2>1, <2>2, <2>3 DEF InOrder, SharesInOrder
  <2>5. LocksForUpdate(w)' => LocksForUpdate(w)
    BY <2>1 DEF LocksForUpdate
  <2> QED
    BY <2>1, <2>4, <2>5, OthersInOrder
<1>10. ASSUME NEW w \in Worker,
              \/ \E a \in Account : Begin(w, "mark", "running", {a})
              \/ \E a \in Account : \E verdict \in {"succeeded", "failed", "pending"} :
                   Begin(w, "finish", verdict, {a})
              \/ \E todo \in SUBSET Account \ {{}} : Begin(w, "reap", "failed", todo)
       PROVE  LockOrder'
  BY <1>2, <1>10 DEF Op
<1> QED
  BY <1>1, <1>3, <1>4, <1>5, <1>6, <1>7, <1>8, <1>9, <1>10 DEF Next, Advance

\* Who has the batch row does not wait, unless it buries another job.
LEMMA HolderGoesOn ==
  ASSUME LockOrder, NEW v \in Worker, NEW w \in Worker, owner[Batch] = w, Waits(w, v),
         ~BuriesAnother(w)
  PROVE  FALSE
<1>1. InOrder(w) /\ SharesInOrder(w)
  BY DEF LockOrder
<1>2. v # w /\ tx[w].at \in {"account", "objects", "result", "batch"}
  BY DEF Waits
<1>3. CASE tx[w].op = "reap"
  <2>1. tx[w].at = "batch"
    BY <1>1, <1>2, <1>3 DEF InOrder, BuriesAnother
  <2>2. LocksForUpdate(w) /\ tx[v].shares
    BY <1>2, <1>3, <2>1 DEF LocksForUpdate, Waits
  <2> QED
    BY <1>2, <2>2 DEF LockOrder, Exclusive
<1>4. CASE tx[w].op # "reap"
  <2>1. tx[w].op # "checkpoint"
    BY <1>1 DEF InOrder, Row
  <2> QED
    BY <1>1, <1>2, <1>4, <2>1 DEF InOrder, SharesInOrder
<1> QED
  BY <1>3, <1>4

\* Nor does who has a result, but for the batch.
LEMMA ResultHolderWaits ==
  ASSUME LockOrder, NEW v \in Worker, NEW w \in Worker, NEW a \in Account, owner[a] = w,
         Waits(w, v), ~BuriesAnother(w)
  PROVE  tx[w].at \in {"objects", "batch"}
<1>1. InOrder(w) /\ SharesInOrder(w)
  BY DEF LockOrder
<1>2. tx[w].at \in {"account", "objects", "result", "batch"}
  BY DEF Waits
<1>3. tx[w].at # "account"
  BY <1>1 DEF InOrder, BuriesAnother
<1>4. tx[w].at # "result"
  BY <1>1 DEF InOrder, SharesInOrder, Row
<1> QED
  BY <1>2, <1>3, <1>4

\* Everyone but a checkpoint takes the result before the batch, so a set of
\* transactions that wait for each other, however large, has in it a claim that
\* buries several jobs, two that both inserted objects, or a checkpoint of a result
\* that is being finalised.
THEOREM KnownDeadlocks == Spec => []DeadlocksAreKnown
<1>1. Init => LockOrder
  BY BatchAssumption
     DEF Init, LockOrder, Exclusive, LocksForUpdate, InOrder, SharesInOrder, Idle, Row
<1>2. IInv /\ LockOrder /\ [Next]_vars => LockOrder'
  BY OrderStep DEF IInv
<1>3. TypeOK /\ LockOrder => DeadlocksAreKnown
  <2> SUFFICES ASSUME TypeOK, LockOrder, NEW S \in SUBSET Worker, Deadlocked(S),
                      \A w \in S : ~BuriesAnother(w),
                      \A v, w \in S : ~BothInserted(v, w) /\ ~ChecksADeadResult(v, w)
               PROVE  FALSE
    BY DEF DeadlocksAreKnown
  <2>1. ASSUME NEW w \in S PROVE owner[Batch] # w /\ \E v \in S : Waits(w, v)
    <3>1. PICK v \in S : Waits(w, v)
      BY DEF Deadlocked
    <3> QED
      BY <3>1, HolderGoesOn
  <2>2. \A w \in S : tx[w].at \notin {"objects", "result"}
    <3> SUFFICES ASSUME NEW w \in S, tx[w].at \in {"objects", "result"} PROVE FALSE
      OBVIOUS
    <3>1. PICK v \in S : Waits(w, v)
      BY <2>1
    <3>2. tx[w].at = "result"
      BY <2>1, <3>1 DEF Waits, LocksForUpdate
    <3>3. tx[w].op = "checkpoint"
      BY <3>2 DEF LockOrder, SharesInOrder
    <3>4. tx[v].op = "reap" /\ \E a \in tx[w].todo : owner[a] = v
      BY <3>1, <3>2 DEF Waits
    <3> QED
      BY <3>3, <3>4 DEF ChecksADeadResult
  <2>3. PICK w \in S : tx[w].at = "batch"
    <3>1. PICK u \in S : TRUE
      BY DEF Deadlocked
    <3>2. PICK v \in S : Waits(u, v)
      BY <2>1
    <3>3. PICK x \in S : Waits(v, x)
      BY <2>1
    <3>4. CASE tx[u].at = "account"
      <4>1. PICK a \in tx[u].todo : owner[a] = v
        BY <3>2, <3>4 DEF Waits
      <4>2. a \in Account
        BY <4>1 DEF TypeOK, Tx
      <4>3. tx[v].at \in {"objects", "batch"}
        BY <3>3, <4>1, <4>2, ResultHolderWaits
      <4> QED
        BY <2>2, <4>3
    <3>5. CASE tx[u].at = "batch"
      BY <3>5
    <3> QED
      BY <2>2, <3>2, <3>4, <3>5 DEF Waits
  <2>4. ASSUME NEW u \in S, tx[u].at = "batch"
        PROVE  \E x \in S : x # u /\ tx[x].shares /\ tx[x].op = "finish" /\ tx[x].at = "batch"
    <3>1. PICK x \in S : Waits(u, x)
      BY <2>1
    <3>2. x # u /\ tx[x].shares
      BY <2>1, <2>4, <3>1 DEF Waits
    <3>3. PICK y \in S : Waits(x, y)
      BY <2>1
    <3>4. tx[x].at \in {"account", "objects", "result", "batch"}
      BY <3>3 DEF Waits
    <3>5. SharesInOrder(x)
      BY DEF LockOrder
    <3> QED
      BY <2>2, <3>2, <3>4, <3>5 DEF SharesInOrder
  <2>5. PICK x \in S : tx[x].shares /\ tx[x].op = "finish" /\ tx[x].at = "batch"
    BY <2>3, <2>4
  <2>6. PICK y \in S : y # x /\ tx[y].shares /\ tx[y].op = "finish"
    BY <2>4, <2>5
  <2>7. BothInserted(x, y)
    BY <2>5, <2>6 DEF BothInserted
  <2> QED
    BY <2>7
<1>4. IInv => TypeOK
  BY DEF IInv
<1> QED
  BY <1>1, <1>2, <1>3, <1>4, Invariance, PTL DEF Spec
=============================================================================
