----------------------------- MODULE Inventory -----------------------------
(***************************************************************************)
(* The ad accounts and assets of one connection: every sync reads what the *)
(* user can reach at Meta, upserts what it found row by row, and ends with *)
(* one transaction that takes back what a complete edge no longer lists    *)
(* (SyncConnection of internal/application/sync.go, Discover of            *)
(* internal/meta/discovery.go, Reconcile of                                *)
(* internal/platform/database/inventory_repository.go).                    *)
(*                                                                         *)
(* An entry <<x, a>> stands for asset x on an edge of account a, <<x, No>> *)
(* for a page or an Instagram account on the edge of the pages, <<No, a>>  *)
(* for account a itself.  Syncs of one connection overlap: their keys      *)
(* differ, and no index keeps a second one from running.  Businesses only  *)
(* name what is listed here, and are left out with the ad_account_id of an *)
(* asset, which nothing reads.                                             *)
(***************************************************************************)
CONSTANTS
  Account,     \* ad accounts
  Scoped,      \* pixels, datasets, conversions, audiences, apps: seen through ad accounts alone
  Instagram,   \* Instagram accounts: seen through ad accounts and pages
  PageAsset,   \* pages
  No,          \* not an account, nor an asset
  Sync,        \* bound: syncs under way at once
  Truth        \* bound: what the user may be able to reach, sets of entries

VARIABLES
  reach,   \* what the user can reach at Meta
  usable,  \* ad_accounts with is_active
  access,  \* asset_ad_accounts
  active,  \* assets with is_active
  sync,    \* the syncs
  faulty   \* may calls fail, workers die, what Meta lists change?

vars == <<reach, usable, access, active, sync, faulty>>

Asset == Scoped \union Instagram \union PageAsset
Entry ==
  ({No} \X Account) \union ((Scoped \union Instagram) \X Account)
  \union ((Instagram \union PageAsset) \X {No})

InventoryAssumption ==
  /\ No \notin Account \union Asset
  /\ \A t \in Truth : t \subseteq Entry /\ \A e \in t : e[2] # No => <<No, e[2]>> \in t

(* left: found and not yet upserted.  gone: not on an edge that was read whole. *)
(* taken, off: the rows its transaction has updated or deleted, not yet committed.   *)
Idle == [at |-> "idle", left |-> {}, gone |-> {}, taken |-> {}, off |-> {}]

TypeOK ==
  /\ reach \in Truth
  /\ usable \subseteq Account /\ access \subseteq Asset \X Account /\ active \subseteq Asset
  /\ sync \in [Sync -> [at : {"idle", "upserting", "reconciling", "committing"},
                        left : SUBSET Entry, gone : SUBSET Entry, taken : SUBSET Entry,
                        off : SUBSET Asset]]
  /\ faulty \in BOOLEAN

Init ==
  /\ reach \in Truth
  /\ usable = {} /\ access = {} /\ active = {}
  /\ sync = [y \in Sync |-> Idle] /\ faulty = TRUE

-----------------------------------------------------------------------------
(* The edge an entry is on; that of the accounts is the only one without which there is no  *)
(* result.  The edges of scoped assets, one per type, fail together here.                    *)
Edge(e) ==
  IF e[1] = No THEN <<"accounts", No>>
  ELSE <<IF e[2] = No THEN "pages" ELSE IF e[1] \in Scoped THEN "scoped" ELSE "instagram", e[2]>>

(* Only the edges of an account that was found are read. *)
IsRead(e) == e[2] = No \/ e[1] = No \/ <<No, e[2]>> \in reach

(* Bound: at most one edge of a discovery fails. *)
Discover(y) ==
  \E failed \in {{}} \union {{Edge(e)} : e \in {f \in Entry : f[1] # No}} :
    /\ sync[y].at = "idle" /\ (failed # {} => faulty)
    /\ sync' = [sync EXCEPT ![y] =
         [at    |-> "upserting",
          left  |-> {e \in reach : Edge(e) \notin failed},
          gone  |-> {e \in Entry \ reach : Edge(e) \notin failed /\ IsRead(e)},
          taken |-> {}, off |-> {}]]
    /\ UNCHANGED <<reach, usable, access, active, faulty>>

(* What the transactions of the syncs hold: others wait for it. *)
Locked(e) == \E y \in Sync : e \in sync[y].taken \/ e[1] \in sync[y].off

(* The accounts first; an asset and its access in one transaction. *)
Upsert(y) ==
  \E e \in sync[y].left :
    /\ sync[y].at = "upserting" /\ ~Locked(e)
    /\ e[1] # No => \A f \in sync[y].left : f[1] # No
    /\ sync' = [sync EXCEPT ![y].left = sync[y].left \ {e}]
    /\ usable' = IF e[1] = No THEN usable \union {e[2]} ELSE usable
    /\ active' = IF e[1] = No THEN active ELSE active \union {e[1]}
    /\ access' = IF e[1] = No \/ e[2] = No THEN access ELSE access \union {e}
    /\ UNCHANGED <<reach, faulty>>

(* Mutation: an account is active for ever. *)
DeactivatedNone(y) == {e \in sync[y].gone : e[1] = No /\ e[2] \in usable /\ FALSE}

(* Reconcile, first half: the accounts that are deactivated, and the accesses deleted, those *)
(* of inactive accounts and those an edge no longer lists.                                    *)
Deactivated(y) == {e \in sync[y].gone : e[1] = No /\ e[2] \in usable}
Deleted(y) ==
  {e \in access : e \in sync[y].gone \/ e[2] \notin usable \/ <<No, e[2]>> \in sync[y].gone}

TakeBack(y) ==
  LET taken == Deactivated(y) \union Deleted(y) IN
  /\ sync[y].at = "upserting" /\ sync[y].left = {}
  /\ \A e \in taken, z \in Sync : e \notin sync[z].taken
  /\ sync' = [sync EXCEPT ![y].at = "reconciling", ![y].taken = taken]
  /\ UNCHANGED <<reach, usable, access, active, faulty>>

(* Second half: the pages that are gone, the Instagram accounts that are gone from the pages   *)
(* and without access, and the scoped assets that lost one and are left without.  Accesses that *)
(* another open transaction has deleted are still there for this one.                           *)
HasAccess(x, y) == \E a \in Account : <<x, a>> \in access \ sync[y].taken

Inactive(y) ==
  {x \in PageAsset : <<x, No>> \in sync[y].gone}
  \union {x \in Instagram : <<x, No>> \in sync[y].gone /\ ~HasAccess(x, y)}
  \union {x \in Scoped : ~HasAccess(x, y) /\ \E a \in Account : <<x, a>> \in sync[y].taken}

DeactivateAssets(y) ==
  /\ sync[y].at = "reconciling"
  /\ \A z \in Sync : Inactive(y) \intersect active \intersect sync[z].off = {}
  /\ sync' = [sync EXCEPT ![y].at = "committing", ![y].off = Inactive(y) \intersect active]
  /\ UNCHANGED <<reach, usable, access, active, faulty>>

Commit(y) ==
  /\ sync[y].at = "committing"
  /\ usable' = {a \in usable : <<No, a>> \notin sync[y].taken}
  /\ access' = access \ sync[y].taken
  /\ active' = active \ sync[y].off
  /\ sync' = [sync EXCEPT ![y] = Idle]
  /\ UNCHANGED <<reach, faulty>>

(* The sync fails, in a deadlock of two transactions for one, or its worker dies; an open *)
(* transaction is rolled back.                                                               *)
SyncFails(y) ==
  /\ faulty /\ sync[y].at # "idle"
  /\ sync' = [sync EXCEPT ![y] = Idle]
  /\ UNCHANGED <<reach, usable, access, active, faulty>>

MetaChanges ==
  /\ faulty /\ reach' \in Truth
  /\ UNCHANGED <<usable, access, active, sync, faulty>>

Calm == faulty /\ faulty' = FALSE /\ UNCHANGED <<reach, usable, access, active, sync>>

SyncStep(y) ==
  Discover(y) \/ Upsert(y) \/ TakeBack(y) \/ DeactivateAssets(y) \/ Commit(y)

Next ==
  \/ \E y \in Sync : SyncStep(y) \/ SyncFails(y)
  \/ MetaChanges \/ Calm

Spec == Init /\ [][Next]_vars

-----------------------------------------------------------------------------
Listed == {x \in Asset : \E e \in reach : e[1] = x}
Converged ==
  /\ usable = {a \in Account : <<No, a>> \in reach}
  /\ access = {e \in reach : e[1] # No /\ e[2] # No}
  /\ Listed \subseteq active
  /\ active \ Scoped = Listed \ Scoped

(* However syncs with discoveries of different ages write and reconcile,   *)
(* with edges missing and crashes half way, the inventory becomes what     *)
(* Meta lists once that stops changing (Reconcile: a later sync can retry  *)
(* safely).  Of a scoped asset only that it is active while listed: two    *)
(* transactions that overlap can each leave it to the other to deactivate. *)
InventoryConverges == <>[]~faulty => <>[]Converged
=============================================================================
