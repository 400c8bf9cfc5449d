------------------------------ MODULE Rotation ------------------------------
(***************************************************************************)
(* Which ad accounts of a connection are polled next: the passes over one  *)
(* level of every scheduler process and the cursor they share              *)
(* (internal/worker/scheduler_accounts.go,                                 *)
(* internal/platform/database/insights_cursor_repository.go).              *)
(*                                                                         *)
(* Accounts are numbered in the order of their ids, the order of the list. *)
(* A pass reads the list, then locks the cursor, takes the slice behind it *)
(* and moves it in one transaction, and then queues a job per account of   *)
(* the slice.  The three levels, the entity sync and the look-back rotate  *)
(* alike, each with a cursor of its own.                                   *)
(***************************************************************************)
EXTENDS Integers, FiniteSets

CONSTANTS
  Account,    \* ad accounts, a set of numbers
  Replica,    \* scheduler processes
  BatchSize,  \* INSIGHTS_AD_BATCH_SIZE; 0 polls every account each cycle
  MaxChanges  \* bound: changes of the list of servable accounts

RotationAssumption ==
  /\ Account \subseteq Nat /\ IsFiniteSet(Account)
  /\ BatchSize \in Nat /\ MaxChanges \in Nat

VARIABLES
  servable,   \* the accounts the query lists: active, able to deliver, connection active
  changes,    \* how often that has changed
  cursor,     \* insights_sync_cursors.next_offset, 0 without a row
  made,       \* the accounts whose job of this interval is in the queue's table
  pass,       \* ScheduleAccountInsights in each process
  lap,        \* history: the accounts handed out since the cursor was last at the start ...
  list,       \* ... from this list
  faulty      \* may calls still fail, processes die?

vars == <<servable, changes, cursor, made, pass, lap, list, faulty>>

PassAt(at) == [at |-> at, seen |-> {}, slice |-> {}]

TypeOK ==
  /\ servable \subseteq Account /\ changes \in 0..MaxChanges
  /\ cursor \in Nat /\ made \subseteq Account
  /\ pass \in [Replica -> [at : {"due", "taking", "queueing", "done"},
                           seen : SUBSET Account, slice : SUBSET Account]]
  /\ lap \subseteq Account /\ list \subseteq Account /\ faulty \in BOOLEAN

Init ==
  /\ servable \in SUBSET Account /\ changes = 0
  /\ cursor = 0 /\ made = {}
  /\ pass = [r \in Replica |-> PassAt("due")] /\ lap = {} /\ list = {} /\ faulty = TRUE

-----------------------------------------------------------------------------
(* The place of an account in a list, from 1. *)
Place(a, accounts) == Cardinality({b \in accounts : b <= a})

(* An offset past the end of a list that has shrunk starts over. *)
Offset(accounts) == IF cursor < Cardinality(accounts) THEN cursor ELSE 0

Slice(accounts) ==
  {a \in accounts : Offset(accounts) < Place(a, accounts)
                    /\ Place(a, accounts) <= Offset(accounts) + BatchSize}

(* Mutation: the last account of a slice is taken again. *)
NextOffsetShort(accounts) ==
  IF Offset(accounts) + BatchSize < Cardinality(accounts) THEN Offset(accounts) + BatchSize - 1 ELSE 0

NextOffset(accounts) ==
  IF Offset(accounts) + BatchSize < Cardinality(accounts) THEN Offset(accounts) + BatchSize ELSE 0

(* A ticker fires, or the process starts.  Nothing is due without an account on the list. *)
BeginPass(r) ==
  /\ pass[r].at = "due"
  /\ pass' = [pass EXCEPT ![r] =
       IF servable = {} THEN PassAt("done")
       ELSE IF BatchSize = 0 THEN [at |-> "queueing", seen |-> servable, slice |-> servable]
       ELSE [at |-> "taking", seen |-> servable, slice |-> {}]]
  /\ UNCHANGED <<servable, changes, cursor, made, lap, list, faulty>>

TakeSlice(r) ==
  LET seen == pass[r].seen IN
  /\ pass[r].at = "taking"
  /\ pass' = [pass EXCEPT ![r].at = "queueing", ![r].slice = Slice(seen)]
  /\ cursor' = NextOffset(seen)
  /\ lap' = (IF cursor = 0 \/ seen # list THEN {} ELSE lap) \union Slice(seen)
  /\ list' = seen
  /\ UNCHANGED <<servable, changes, made, faulty>>

Left(r, a) ==
  pass' = [pass EXCEPT ![r] = IF pass[r].slice = {a} THEN PassAt("done")
                              ELSE [pass[r] EXCEPT !.slice = pass[r].slice \ {a}]]

(* enqueueAccountJob, in the order of the slice: one job per account and interval. *)
FirstOf(r) == CHOOSE a \in pass[r].slice : \A b \in pass[r].slice : a <= b

EnqueueNext(r) ==
  /\ pass[r].at = "queueing"
  /\ made' = made \union {FirstOf(r)} /\ Left(r, FirstOf(r))
  /\ UNCHANGED <<servable, changes, cursor, lap, list, faulty>>

(* An enqueue fails and is reported at the end of the pass; or the transaction fails, or the *)
(* process dies, to start again with a pass or at its next tick.                              *)
PassFails(r) ==
  /\ faulty
  /\ \/ pass[r].at = "queueing" /\ Left(r, FirstOf(r))
     \/ \E at \in {"due", "done"} : pass' = [pass EXCEPT ![r] = PassAt(at)]
  /\ UNCHANGED <<servable, changes, cursor, made, lap, list, faulty>>

(* The next interval begins: other keys.  Bound: no pass lasts from the interval before. *)
NextInterval ==
  /\ \A r \in Replica : pass[r].at \in {"due", "done"}
  /\ pass' = [r \in Replica |-> PassAt("due")] /\ made' = {}
  /\ UNCHANGED <<servable, changes, cursor, lap, list, faulty>>

(* A sync of the inventory lists other accounts, or finds one disabled or back in use. *)
ListChanges ==
  /\ changes < MaxChanges /\ changes' = changes + 1
  /\ \E a \in Account : servable' = IF a \in servable THEN servable \ {a} ELSE servable \union {a}
  /\ UNCHANGED <<cursor, made, pass, lap, list, faulty>>

Calm ==
  /\ faulty /\ faulty' = FALSE
  /\ UNCHANGED <<servable, changes, cursor, made, pass, lap, list>>

PassStep(r) == BeginPass(r) \/ TakeSlice(r) \/ EnqueueNext(r)

Next ==
  \/ \E r \in Replica : PassStep(r) \/ PassFails(r)
  \/ NextInterval \/ ListChanges \/ Calm

Spec == Init /\ [][Next]_vars

-----------------------------------------------------------------------------
(* Scheduler processes hand out disjoint slices (DueAdAccounts): from one  *)
(* list of accounts none is handed out again before the cursor has come    *)
(* round, whichever processes ask, and whatever they crash in.             *)
HandsOutNew ==
  \A r \in Replica :
    pass[r].at = "taking" /\ pass'[r].at = "queueing" /\ cursor # 0 /\ pass[r].seen = list
      => pass'[r].slice \intersect lap = {}
DisjointSlices == [][HandsOutNew]_vars

(* Every account that stays on the list gets a job in one interval after   *)
(* another (ScheduleAccountInsights, DueAdAccounts), although lists        *)
(* change, passes of several processes overlap and fail, and a failed one  *)
(* has moved the cursor on.                                                *)
EveryoneServed ==
  \A a \in Account : <>[](a \in servable) => []<>(a \in made)
=============================================================================
