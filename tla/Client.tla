------------------------------- MODULE Client -------------------------------
(***************************************************************************)
(* A call to Meta's Graph API: one request is tried up to a number of      *)
(* times, a list is fetched page by page and from the start again in       *)
(* smaller pages if Meta finds them too big, and every request asks the    *)
(* governor of its account first (internal/meta/client.go, throttle.go,    *)
(* pagination.go, errors.go).                                              *)
(*                                                                         *)
(* A create is sent without retries, everything else with MaxRetries (a    *)
(* copy of a campaign too, copy.go:41; see Copy in Campaigns).             *)
(* How long a call sleeps matters to no property: it sleeps, and wakes.    *)
(* Calls meet only in the governor: one is modelled, and of the others of  *)
(* the account the responses the governor hears.                           *)
(***************************************************************************)
EXTENDS Integers, FiniteSets

CONSTANTS
  Item,        \* objects of an edge, numbered in the order Meta lists them
  MaxRetries,  \* of a call that may be repeated
  Limit,       \* the page size a collector starts with
  MinLimit,    \* minAdaptiveLimit
  MaxPages,    \* the guard of CollectPagesWithMeta, 10000 there
  MaxChanges   \* bound: changes of the list at Meta

ClientAssumption ==
  /\ Item \subseteq Nat \ {0} /\ IsFiniteSet(Item)
  /\ MaxRetries \in Nat \ {0} /\ MaxPages \in Nat \ {0} /\ MaxChanges \in Nat
  /\ MinLimit \in Nat \ {0} /\ Limit \in Nat /\ MinLimit <= Limit

VARIABLES
  listed,   \* the objects of the edge now, at Meta
  changes,  \* how often that has changed
  blocked,  \* the governor knows a block that has not run out
  pressed,  \* the last usage it heard calls for a delay
  call      \* the call

vars == <<listed, changes, blocked, pressed, call>>

Kind == {"read", "loop", "create"}  \* a loop is a read whose pages lead back to the first

(* got: how often each object is in the result so far.  steady and made are history: the    *)
(* objects that have been listed since the call began, and how often Meta has carried it out. *)
Nothing == [i \in Item |-> 0]
NoCall == [at |-> "idle", kind |-> "read", attempt |-> 0, limit |-> Limit, page |-> 0, after |-> 0,
           got |-> Nothing, steady |-> {}, made |-> 0]

TypeOK ==
  /\ listed \subseteq Item /\ changes \in 0..MaxChanges
  /\ blocked \in BOOLEAN /\ pressed \in BOOLEAN
  /\ call.at \in {"idle", "asking", "sleeping", "sending", "returned", "failed"}
  /\ call.kind \in Kind /\ call.attempt \in 0..MaxRetries
  /\ call.limit \in MinLimit..Limit /\ call.page \in 0..(MaxPages - 1)
  /\ call.after \in Item \union {0} /\ call.got \in [Item -> Nat]
  /\ call.steady \subseteq Item /\ call.made \in 0..(MaxRetries + 1)

Init ==
  /\ listed \in SUBSET Item /\ changes = 0
  /\ blocked = FALSE /\ pressed = FALSE
  /\ call = NoCall

-----------------------------------------------------------------------------
(* Mutation: one retry too many. *)
RetriesOneMore(kind) == IF kind = "create" THEN 0 ELSE MaxRetries + 1

Retries(kind) == IF kind = "create" THEN 0 ELSE MaxRetries

(* CollectPagesAdaptive: half the page, but not below the floor. *)
Smaller(limit) == IF limit \div 2 < MinLimit THEN MinLimit ELSE limit \div 2
MayShrink(limit) == limit > MinLimit

Goto(at) == call' = [call EXCEPT !.at = at]

(* What Meta sends after a place in the list, and whether something is left behind it. *)
Rest(after) == {i \in listed : i > after}
Page(after, limit) == {i \in Rest(after) : Cardinality({j \in Rest(after) : j <= i}) <= limit}
LastOf(page) == CHOOSE i \in page : \A j \in page : j <= i

Begin ==
  /\ call.at \in {"idle", "returned", "failed"}
  /\ \E kind \in Kind : call' = [NoCall EXCEPT !.at = "asking", !.kind = kind, !.steady = listed]
  /\ UNCHANGED <<listed, changes, blocked, pressed>>

(* MemoryGovernor.Wait: what it knows now decides on a sleep, whose length is capped ... *)
AskGovernor ==
  /\ call.at = "asking"
  /\ Goto(IF blocked \/ pressed THEN "sleeping" ELSE "sending")
  /\ UNCHANGED <<listed, changes, blocked, pressed>>

(* Mutation: the governor is asked again until it knows of nothing. *)
WakeAndAsk ==
  /\ call.at = "sleeping" /\ Goto("asking")
  /\ UNCHANGED <<listed, changes, blocked, pressed>>

(* ... and after it the request is sent, whatever has become known in between. *)
Wake ==
  /\ call.at = "sleeping" /\ Goto("sending")
  /\ UNCHANGED <<listed, changes, blocked, pressed>>

(* MemoryGovernor.Observe, with every response: pressure is replaced, a block only by another. *)
Observe ==
  /\ pressed' \in BOOLEAN /\ blocked' \in {blocked, TRUE}
  /\ UNCHANGED <<listed, changes>>

(* Only creates are counted. *)
Executed(carriedOut) ==
  [call EXCEPT !.made = IF call.kind = "create" /\ carriedOut THEN call.made + 1 ELSE call.made]

(* A try that failed in a way that may pass: another one, or the end. *)
TryAgain(carriedOut) ==
  call' = IF call.attempt < Retries(call.kind)
          THEN [Executed(carriedOut) EXCEPT !.at = "asking", !.attempt = call.attempt + 1]
          ELSE [Executed(carriedOut) EXCEPT !.at = "failed"]

(* 429, 5xx or a transient Graph error: Meta has not carried the request out. *)
Refused == call.at = "sending" /\ TryAgain(FALSE) /\ Observe

(* A network error: no response, and nobody knows. *)
Lost ==
  /\ call.at = "sending" /\ \E carriedOut \in BOOLEAN : TryAgain(carriedOut)
  /\ UNCHANGED <<listed, changes, blocked, pressed>>

(* A response that cannot be read or decoded: carried out, and not repeated. *)
Garbled ==
  /\ call.at = "sending"
  /\ call' = [Executed(TRUE) EXCEPT !.at = "failed"]
  /\ Observe

(* An error that no repetition would mend. *)
Rejected == call.at = "sending" /\ Goto("failed") /\ Observe

(* The context ends, with the request under way or not. *)
ContextEnds ==
  /\ call.at \in {"asking", "sleeping", "sending"}
  /\ \E carriedOut \in BOOLEAN :
       /\ carriedOut => call.at = "sending"
       /\ call' = [Executed(carriedOut) EXCEPT !.at = "failed"]
  /\ UNCHANGED <<listed, changes, blocked, pressed>>

(* Mutation: smaller pages from the first on, added to what has been fetched. *)
OversizedKeepsPages ==
  /\ call.at = "sending" /\ call.kind # "create"
  /\ call' = IF MayShrink(call.limit)
            THEN [call EXCEPT !.at = "asking", !.limit = Smaller(call.limit),
                              !.attempt = 0, !.page = 0, !.after = 0]
            ELSE [call EXCEPT !.at = "failed"]
  /\ Observe

(* Reduce the amount of data: the same call from its first page, or the end. *)
Oversized ==
  /\ call.at = "sending" /\ call.kind # "create"
  /\ call' = IF MayShrink(call.limit)
            THEN [call EXCEPT !.at = "asking", !.limit = Smaller(call.limit),
                              !.attempt = 0, !.page = 0, !.after = 0, !.got = Nothing]
            ELSE [call EXCEPT !.at = "failed"]
  /\ Observe

Created ==
  /\ call.at = "sending" /\ call.kind = "create"
  /\ call' = [Executed(TRUE) EXCEPT !.at = "returned"]
  /\ Observe

(* CollectPagesWithMeta: a page is added, and the one it points to is fetched next. *)
PageArrives ==
  LET page == Page(call.after, call.limit)
      last == IF page = {} \/ call.kind = "loop" THEN 0 ELSE LastOf(page)
      more == call.kind = "loop" \/ (page # {} /\ Rest(last) # {})
      next == [call EXCEPT !.got = [i \in Item |-> call.got[i] + IF i \in page THEN 1 ELSE 0]]
  IN
  /\ call.at = "sending" /\ call.kind # "create"
  /\ call' = IF ~more THEN [next EXCEPT !.at = "returned"]
            ELSE IF call.page + 1 = MaxPages THEN [next EXCEPT !.at = "failed"]
            ELSE [next EXCEPT !.at = "asking", !.attempt = 0, !.page = call.page + 1,
                              !.after = last]
  /\ Observe

(* A response to another call of the account. *)
Elsewhere == Observe /\ UNCHANGED call

(* The block runs out. *)
Unblock ==
  /\ blocked /\ blocked' = FALSE
  /\ UNCHANGED <<listed, changes, pressed, call>>

(* An object of the edge is created or deleted. *)
ListChanges ==
  /\ changes < MaxChanges /\ changes' = changes + 1
  /\ \E i \in Item : listed' = IF i \in listed THEN listed \ {i} ELSE listed \union {i}
  /\ call' = [call EXCEPT !.steady = call.steady \intersect listed']
  /\ UNCHANGED <<blocked, pressed>>

Answer ==
  \/ Refused \/ Lost \/ Garbled \/ Rejected \/ ContextEnds \/ Oversized
  \/ Created \/ PageArrives
CallStep == AskGovernor \/ Wake \/ Answer

Next == Begin \/ CallStep \/ Elsewhere \/ Unblock \/ ListChanges

Spec == Init /\ [][Next]_vars

-----------------------------------------------------------------------------
(* A list that is returned has every object that was listed all the while, *)
(* and none twice (CollectPagesWithMeta, CollectPagesAdaptive): not when a *)
(* page was tried again, when the pages became smaller half way through,   *)
(* or when objects came and went between two of them.                      *)
ListIsWhole ==
  call.at = "returned" /\ call.kind # "create"
    => \A i \in Item : call.got[i] <= 1 /\ (i \in call.steady => call.got[i] = 1)

(* A create is carried out at most once by a call (PostJSONNoRetry), since *)
(* a lost answer is not a reason to send it again.                         *)
CreatedOnce == call.kind = "create" => call.made <= 1

(* Every call ends, in a result or an error, although Meta goes on         *)
(* refusing pages, leads in a circle or blocks the account again and again *)
(* (throttle.go:135, pagination.go:58): none holds its worker for ever.    *)
CallEnds == []<>(call.at \in {"idle", "returned", "failed"})
=============================================================================
