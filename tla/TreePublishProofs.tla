-------------------------- MODULE TreePublishProofs --------------------------
(***************************************************************************)
(* The tree of one account result is published once, for trees of any      *)
(* shape and any number of attempts.  As in PublishProofs no property is   *)
(* inductive: each rests on what the attempt at work knows of the tree at  *)
(* Meta.  Here that is ordered: a place has its turn when every place      *)
(* before it is known, the one it hangs from among them.                   *)
(***************************************************************************)
EXTENDS TreePublish, FiniteSetTheorems, WellFoundedInduction, TLAPS

Tries == [at : At, seen : BOOLEAN, known : [Place -> 0..MaxAttempts], hand : 0..MaxAttempts,
          done : SUBSET Place, verdict : {"none", "succeeded", "failed", "pending"}]

(* One attempt at a time, and nothing is left of one that is over. *)
Alone ==
  /\ \A a, b \in Attempt : try[a].at # "none" /\ try[b].at # "none" => a = b
  /\ \A a \in Attempt : try[a].at = "none" => try[a] = Blank

-----------------------------------------------------------------------------
(* The tree at Meta: each object hangs from those it was created under; what is recorded or *)
(* active is there.                                                                          *)
Has(p, by) == \E o \in remote : o.place = p /\ o.by = by
Any(p)     == \E o \in remote : o.place = p

Hangs ==
  \A o \in remote :
    /\ o.place \in AdSet \union Ad => Has(Above(o.place), o.parent)
    /\ o.place \in Ad => Has(Content(o.place), o.content)

RowsAreReal  == \A p \in Place : row[p] # 0 => Has(p, row[p])
ActiveIsReal == \A x \in active : Has(x[1], x[2])

World == NoDuplicates /\ Hangs /\ RowsAreReal /\ ActiveIsReal /\ WholeWhenActive

(* The result row: an attempt counts there once it is at work, and only then creates. *)
Counted     == tries <= attempts[Result] /\ (tries = 0 => remote = {})
AllRecorded == result = "succeeded" => \A p \in Place : row[p] # 0

-----------------------------------------------------------------------------
(* What an attempt knows, by what it waits for. *)
KnownIsReal(a) == \A p \in Place : Known(a, p) # 0 => row[p] # 0 /\ Has(p, Known(a, p))
KnowsAll(a)    == \A o \in remote : o.by = Known(a, o.place)
CampaignPaused == \A o \in remote : o.place = Campaign => <<Campaign, o.by>> \notin active

Beginning(a) ==
  /\ try[a].at \in {"loading", "marking"} => tries < attempts[Result]
  /\ try[a].at \in {"marking", "uploading", "listing"} /\ ~try[a].seen => remote = {}
  /\ try[a].at \in {"loading", "marking", "uploading", "listing"} => \A p \in Place : Known(a, p) = 0
  /\ try[a].at \in {"uploading", "listing", "calming", "noting"} => tries > 0
  /\ try[a].at \in {"calming", "noting"} => try[a].seen /\ Known(a, Campaign) # 0

Ensuring(a) ==
  /\ try[a].at \in {"finding", "adopting", "creating", "saving"} => Unknown(try[a].known) # {}
  /\ try[a].at \in {"finding", "adopting"} => try[a].seen
  /\ try[a].at \in {"finding", "adopting", "creating", "saving"} => tries > 0
  /\ try[a].at = "creating" => ~Any(Turn(a)) /\ (try[a].seen \/ KnowsAll(a))
  /\ try[a].at \in {"adopting", "saving"} => try[a].hand # 0 /\ Has(Turn(a), try[a].hand)
  /\ try[a].at = "saving" /\ ~try[a].seen =>
       \A o \in remote : o.by = Known(a, o.place) \/ (o.place = Turn(a) /\ o.by = try[a].hand)

Activating(a) ==
  /\ try[a].done # {} => try[a].at \in {"activating", "recording", "pausing", "finishing",
                                        "repausing", "completing", "failing"}
  /\ try[a].at \in {"activating", "recording"} =>
       /\ Unknown(try[a].known) = {} /\ Campaign \notin try[a].done
       /\ \A p \in try[a].done : <<p, Known(a, p)>> \in active
  /\ try[a].at = "recording" => <<Activates(a), Known(a, Activates(a))>> \in active

Paused(a) ==
  /\ try[a].at = "noting" => CampaignPaused
  /\ try[a].at \in {"finding", "adopting", "creating", "saving"}
       /\ (Known(a, Campaign) # 0 \/ ~try[a].seen) => CampaignPaused
  /\ try[a].at \in {"activating", "recording"} /\ Waiting(a) # {Campaign} => CampaignPaused

Ending(a) ==
  /\ try[a].verdict = "succeeded" => \A p \in Place : row[p] # 0
  /\ try[a].at = "finishing" => try[a].verdict # "none"
  /\ try[a].at = "pausing" => try[a].verdict \in {"failed", "pending"}

AttemptInv(a) ==
  KnownIsReal(a) /\ Beginning(a) /\ Ensuring(a) /\ Activating(a) /\ Paused(a) /\ Ending(a)

Inv ==
  /\ TypeOK /\ Alone /\ World /\ Counted /\ AllRecorded
  /\ \A a \in Attempt : AttemptInv(a)
-----------------------------------------------------------------------------
(* The places and their order. *)

LEMMA Kinds ==
  ASSUME TreeAssumption, NEW p \in Place
  PROVE  /\ p.s \in Nat /\ p.i \in Nat
         /\ p.kind \in {"campaign", "adset", "creative", "ad"}
         /\ p = [kind |-> p.kind, s |-> p.s, i |-> p.i]
         /\ p = Campaign <=> p.kind = "campaign"
         /\ p \in AdSet <=> p.kind = "adset"
         /\ p \in Creative <=> p.kind = "creative"
         /\ p \in Ad <=> p.kind = "ad"
         /\ p.kind = "campaign" => p.s = 0 /\ p.i = 0
         /\ p.kind = "adset" => p.s \in DOMAIN Ads /\ p.s # 0 /\ p.i = 0
         /\ p.kind \in {"creative", "ad"} =>
              p.s \in DOMAIN Ads /\ p.s # 0 /\ p.i \in 1..Ads[p.s] /\ p.i # 0
<1>1. DOMAIN Ads \subseteq Nat \ {0} /\ \A s \in DOMAIN Ads : Ads[s] \in Nat
  BY DEF TreeAssumption
<1>2. CASE p = Campaign
  <2>1. p.kind = "campaign" /\ p.s = 0 /\ p.i = 0 /\ p = [kind |-> p.kind, s |-> p.s, i |-> p.i]
    BY <1>2 DEF Campaign
  <2>2. p \notin AdSet /\ p \notin Creative /\ p \notin Ad
    BY <2>1 DEF AdSet, Creative, Ad
  <2> QED BY <1>2, <2>1, <2>2
<1>3. CASE p \in AdSet
  BY <1>1, <1>3 DEF Campaign, AdSet, Creative, Ad
<1>4. CASE p \in Creative
  BY <1>1, <1>4 DEF Campaign, AdSet, Creative, Ad
<1>5. CASE p \in Ad
  BY <1>1, <1>5 DEF Campaign, AdSet, Creative, Ad
<1> QED BY <1>2, <1>3, <1>4, <1>5 DEF Place

(* What a place hangs from is a place, ensured before it. *)
LEMMA HangsFrom ==
  ASSUME TreeAssumption, NEW p \in Place
  PROVE  /\ p.kind \in {"adset", "ad"} => Above(p) \in Place /\ Before(Above(p), p) /\ Above(p) # p
         /\ p.kind = "ad" => Content(p) \in Place /\ Before(Content(p), p) /\ Content(p) # p
         /\ p.kind = "adset" => Above(p) = Campaign
         /\ p.kind = "ad" => Above(p) \in AdSet
<1>1. CASE p.kind = "adset"
  <2>1. Above(p) = Campaign /\ Campaign \in Place
    BY <1>1 DEF Above, Place
  <2>2. Campaign.s = 0 /\ Campaign.kind = "campaign"
    BY DEF Campaign
  <2> QED BY <1>1, <2>1, <2>2, Kinds DEF Before
<1>2. CASE p.kind = "ad"
  <2>1. p.s \in DOMAIN Ads /\ p.i \in 1..Ads[p.s] /\ p.i # 0 /\ p.i \in Nat
    BY <1>2, Kinds
  <2>2. Above(p) = [kind |-> "adset", s |-> p.s, i |-> 0] /\ Above(p) \in AdSet
    BY <1>2, <2>1 DEF Above, AdSet
  <2>3. Content(p) = [kind |-> "creative", s |-> p.s, i |-> p.i] /\ Content(p) \in Creative
    BY <2>1 DEF Content, Creative
  <2> QED BY <1>2, <2>1, <2>2, <2>3 DEF Before, Place
<1> QED BY <1>1, <1>2

LEMMA LeastNumber ==
  ASSUME NEW N, N \subseteq Nat, N # {}
  PROVE  \E m \in N : \A n \in N : m <= n
<1>1. PICK m \in N : \A n \in N : <<n, m>> \notin OpToRel(<, Nat)
  BY NatLessThanWellFounded, WFMin
<1>2. \A n \in N : ~(n < m)
  BY <1>1 DEF OpToRel
<1> QED BY <1>2

(* Of any places one comes first. *)
LEMMA OneIsFirst ==
  ASSUME TreeAssumption, NEW S, S \subseteq Place, S # {}
  PROVE  First(S) \in S /\ \A q \in S \ {First(S)} : Before(First(S), q)
<1>1. \A p \in S : p.s \in Nat /\ p.i \in Nat
  BY Kinds
<1>2. PICK s \in {p.s : p \in S} : \A n \in {p.s : p \in S} : s <= n
  <2>1. {p.s : p \in S} \subseteq Nat /\ {p.s : p \in S} # {}
    BY <1>1
  <2> QED BY <2>1, LeastNumber, Zenon
<1> DEFINE T == {p \in S : p.s = s}
<1>3. PICK i \in {p.i : p \in T} : \A n \in {p.i : p \in T} : i <= n
  <2>1. {p.i : p \in T} \subseteq Nat /\ {p.i : p \in T} # {}
    BY <1>1, <1>2
  <2> QED BY <2>1, LeastNumber
<1> DEFINE R == {p \in T : p.i = i}
<1>4. R # {} /\ R \subseteq S /\ s \in Nat /\ i \in Nat
  BY <1>1, <1>2, <1>3
<1>5. \A q \in S \ R : s < q.s \/ (s = q.s /\ i < q.i)
  <2> SUFFICES ASSUME NEW q \in S, q \notin R PROVE s < q.s \/ (s = q.s /\ i < q.i)
    OBVIOUS
  <2>1. s <= q.s /\ (q.s = s => i <= q.i /\ q.i # i) /\ q.s \in Nat /\ q.i \in Nat
    BY <1>1, <1>2, <1>3
  <2> QED BY <1>4, <2>1
<1>6. PICK m \in R : m.kind # "ad" \/ \A q \in R : q.kind = "ad"
  BY <1>4
<1>7. \A q \in R \ {m} : m.kind = "creative" /\ q.kind = "ad"
  <2> SUFFICES ASSUME NEW q \in R, q # m PROVE m.kind = "creative" /\ q.kind = "ad"
    OBVIOUS
  <2>1. m.s = q.s /\ m.i = q.i /\ m \in Place /\ q \in Place
    BY <1>4
  <2>2. m.kind # q.kind
    BY <2>1, Kinds
  <2> QED BY <1>6, <2>1, <2>2, Kinds
<1>8. m \in S /\ m.s = s /\ m.i = i
  OBVIOUS
<1>9. \A q \in S \ {m} : Before(m, q)
  <2> SUFFICES ASSUME NEW q \in S, q # m PROVE Before(m, q)
    OBVIOUS
  <2>1. CASE q \in R
    BY <1>7, <1>8, <2>1 DEF Before
  <2>2. CASE q \notin R
    BY <1>5, <1>8, <2>2 DEF Before
  <2> QED BY <2>1, <2>2
<1> QED BY <1>8, <1>9 DEF First

(* Of the places that wait to be activated one is the soonest, and never the campaign while *)
(* there are others.                                                                          *)
LEMMA OneIsSoonest ==
  ASSUME TreeAssumption, NEW S, S \subseteq Place, S # {}
  PROVE  LET m == CHOOSE p \in S : \A q \in S \ {p} : Sooner(p, q)
         IN  m \in S /\ \A q \in S \ {m} : Sooner(m, q)
<1>1. \A p \in S : Rank(p) \in Nat
  BY DEF Rank
<1>2. PICK r \in {Rank(p) : p \in S} : \A n \in {Rank(p) : p \in S} : r <= n
  <2>1. {Rank(p) : p \in S} \subseteq Nat /\ {Rank(p) : p \in S} # {}
    BY <1>1
  <2> QED BY <2>1, LeastNumber
<1> DEFINE R == {p \in S : Rank(p) = r}
<1>3. R # {} /\ R \subseteq Place
  BY <1>2
<1>4. First(R) \in R /\ \A q \in R \ {First(R)} : Before(First(R), q)
  BY <1>3, OneIsFirst
<1>5. \A q \in S \ R : r < Rank(q)
  BY <1>1, <1>2
<1>6. \A q \in S \ {First(R)} : Sooner(First(R), q)
  BY <1>4, <1>5 DEF Sooner
<1>7. \E m \in S : \A q \in S \ {m} : Sooner(m, q)
  BY <1>4, <1>6
<1> QED BY <1>7
-----------------------------------------------------------------------------
(* What becomes of the attempt that takes a step. *)
To(a, at, seen, known, hand, done, verdict) ==
  /\ try' \in [Attempt -> Tries]
  /\ \A b \in Attempt \ {a} : try'[b] = try[b]
  /\ try'[a].at = at /\ try'[a].seen = seen /\ try'[a].known = known
  /\ try'[a].hand = hand /\ try'[a].done = done /\ try'[a].verdict = verdict

Verdict == {"none", "succeeded", "failed", "pending"}

LEMMA Fields ==
  ASSUME TypeOK, NEW a \in Attempt
  PROVE  /\ try \in [Attempt -> Tries] /\ try[a] \in Tries
         /\ try[a].at \in At /\ try[a].seen \in BOOLEAN
         /\ try[a].known \in [Place -> 0..MaxAttempts] /\ try[a].hand \in 0..MaxAttempts
         /\ try[a].done \in SUBSET Place /\ try[a].verdict \in Verdict
BY DEF TypeOK, Tries, Verdict

LEMMA Moved ==
  ASSUME TypeOK, NEW a \in Attempt, NEW t \in Tries, try' = [try EXCEPT ![a] = t]
  PROVE  To(a, t.at, t.seen, t.known, t.hand, t.done, t.verdict)
BY Fields DEF To

LEMMA GoesTo ==
  ASSUME TypeOK, NEW a \in Attempt, NEW at \in At, Go(a, at)
  PROVE  To(a, at, try[a].seen, try[a].known, try[a].hand, try[a].done, try[a].verdict)
<1> DEFINE t == [try[a] EXCEPT !.at = at]
<1>1. try' = [try EXCEPT ![a] = t]
  BY Fields DEF Go
<1>2. t \in Tries /\ t.at = at /\ t.seen = try[a].seen /\ t.known = try[a].known
      /\ t.hand = try[a].hand /\ t.done = try[a].done /\ t.verdict = try[a].verdict
  BY Fields DEF Tries
<1> HIDE DEF t
<1>3. To(a, t.at, t.seen, t.known, t.hand, t.done, t.verdict)
  BY <1>1, <1>2, Moved
<1> QED BY <1>2, <1>3

(* One record for every step but the first: where it goes, with which verdict. *)
LEMMA VerdictTo ==
  ASSUME TypeOK, NEW a \in Attempt, NEW at \in At, NEW verdict \in Verdict,
         try' = [try EXCEPT ![a].at = at, ![a].verdict = verdict]
  PROVE  To(a, at, try[a].seen, try[a].known, try[a].hand, try[a].done, verdict)
<1> DEFINE t == [try[a] EXCEPT !.at = at, !.verdict = verdict]
<1>1. try' = [try EXCEPT ![a] = t]
  BY Fields
<1>2. t \in Tries /\ t.at = at /\ t.seen = try[a].seen /\ t.known = try[a].known
      /\ t.hand = try[a].hand /\ t.done = try[a].done /\ t.verdict = verdict
  BY Fields DEF Tries, Verdict
<1> HIDE DEF t
<1>3. To(a, t.at, t.seen, t.known, t.hand, t.done, t.verdict)
  BY <1>1, <1>2, Moved
<1> QED BY <1>2, <1>3

LEMMA HandTo ==
  ASSUME TypeOK, NEW a \in Attempt, NEW at \in At, NEW hand \in 0..MaxAttempts,
         try' = [try EXCEPT ![a].at = at, ![a].hand = hand]
  PROVE  To(a, at, try[a].seen, try[a].known, hand, try[a].done, try[a].verdict)
<1> DEFINE t == [try[a] EXCEPT !.at = at, !.hand = hand]
<1>1. try' = [try EXCEPT ![a] = t]
  BY Fields
<1>2. t \in Tries /\ t.at = at /\ t.seen = try[a].seen /\ t.known = try[a].known
      /\ t.hand = hand /\ t.done = try[a].done /\ t.verdict = try[a].verdict
  BY Fields DEF Tries
<1> HIDE DEF t
<1>3. To(a, t.at, t.seen, t.known, t.hand, t.done, t.verdict)
  BY <1>1, <1>2, Moved
<1> QED BY <1>2, <1>3

(* Past a place that is ensured. *)
OnTo(a, known) ==
  IF Unknown(known) # {} THEN IF try[a].seen THEN "finding" ELSE "creating"
  ELSE IF leavePaused THEN "finishing" ELSE "activating"

OnVerdict(a, known) == IF Unknown(known) = {} /\ leavePaused THEN "succeeded" ELSE try[a].verdict

LEMMA OnwardTo ==
  ASSUME TypeOK, NEW a \in Attempt, NEW known \in [Place -> 0..MaxAttempts], Onward(a, known)
  PROVE  To(a, OnTo(a, known), try[a].seen, known, 0, try[a].done, OnVerdict(a, known))
<1> DEFINE t == [try[a] EXCEPT !.known = known, !.hand = 0, !.at = OnTo(a, known),
                               !.verdict = OnVerdict(a, known)]
<1>1. try' = [try EXCEPT ![a] = t]
  BY Fields DEF Onward, OnTo, OnVerdict
<1>2. OnTo(a, known) \in At /\ OnVerdict(a, known) \in Verdict
  BY Fields DEF OnTo, OnVerdict, At, Verdict
<1>3. 0 \in 0..MaxAttempts
  BY TreeAssumption DEF TreeAssumption
<1>4. t \in Tries /\ t.at = OnTo(a, known) /\ t.seen = try[a].seen /\ t.known = known
      /\ t.hand = 0 /\ t.done = try[a].done /\ t.verdict = OnVerdict(a, known)
  BY <1>2, <1>3, Fields DEF Tries, Verdict
<1> HIDE DEF t
<1>5. To(a, t.at, t.seen, t.known, t.hand, t.done, t.verdict)
  BY <1>1, <1>4, Moved
<1> QED BY <1>4, <1>5

(* The campaign is known now and was not: a retry pauses it first. *)
LEMMA EnsuredTo ==
  ASSUME TypeOK, NEW a \in Attempt, NEW known \in [Place -> 0..MaxAttempts], Ensured(a, known)
  PROVE  \/ /\ known[Campaign] # 0 /\ try[a].seen
            /\ To(a, "calming", try[a].seen, known, 0, try[a].done, try[a].verdict)
         \/ /\ known[Campaign] = 0 \/ Known(a, Campaign) # 0 \/ ~try[a].seen
            /\ Onward(a, known)
<1>1. CASE known[Campaign] # 0 /\ Known(a, Campaign) = 0 /\ try[a].seen
  <2> DEFINE t == [try[a] EXCEPT !.known = known, !.hand = 0, !.at = "calming"]
  <2>1. try' = [try EXCEPT ![a] = t]
    BY <1>1, Fields DEF Ensured
  <2>2. 0 \in 0..MaxAttempts /\ "calming" \in At
    BY TreeAssumption DEF TreeAssumption, At
  <2>3. t \in Tries /\ t.at = "calming" /\ t.seen = try[a].seen /\ t.known = known
        /\ t.hand = 0 /\ t.done = try[a].done /\ t.verdict = try[a].verdict
    BY <2>2, Fields DEF Tries
  <2> HIDE DEF t
  <2>4. To(a, t.at, t.seen, t.known, t.hand, t.done, t.verdict)
    BY <2>1, <2>3, Moved
  <2> QED BY <1>1, <2>3, <2>4
<1>2. CASE ~(known[Campaign] # 0 /\ Known(a, Campaign) = 0 /\ try[a].seen)
  BY <1>2 DEF Ensured
<1> QED BY <1>1, <1>2

LEMMA BreaksTo ==
  ASSUME TypeOK, NEW a \in Attempt, Breaks(a)
  PROVE  \E at \in {"pausing", "finishing"}, verdict \in {"failed", "pending"} :
           To(a, at, try[a].seen, try[a].known, try[a].hand, try[a].done, verdict)
<1>1. PICK verdict \in {"failed", "pending"} : \E at \in {"pausing", "finishing"} :
        try' = [try EXCEPT ![a].at = at, ![a].verdict = verdict]
  BY DEF Breaks, Ends
<1>2. verdict \in Verdict /\ {"pausing", "finishing"} \subseteq At
  BY DEF Verdict, At
<1> QED BY <1>1, <1>2, VerdictTo
-----------------------------------------------------------------------------
(* What a step of the attempt at work has to keep. *)

(* The types of what the attempts leave behind. *)
DataOK ==
  /\ result \in {"pending", "running", "succeeded", "failed"} /\ tries \in 0..MaxAttempts
  /\ row \in [Place -> 0..MaxAttempts]
  /\ shown \in [Place -> {"none", "PAUSED", "ACTIVE", "UNKNOWN"}]
  /\ remote \subseteq Object /\ active \subseteq Place \X Attempt

(* Nothing at Meta or on record goes away. *)
Grows == remote \subseteq remote' /\ \A p \in Place : row[p] # 0 => row'[p] # 0

LEMMA BlankKeeps ==
  ASSUME TreeAssumption, NEW a \in Attempt, (try[a] = Blank)'
  PROVE  AttemptInv(a)'
<1>1. /\ try'[a].at = "none" /\ try'[a].done = {} /\ try'[a].verdict = "none"
      /\ \A p \in Place : try'[a].known[p] = 0
  BY DEF Blank
<1>2. Campaign \in Place
  BY DEF Place
<1> QED
  BY <1>1, <1>2 DEF AttemptInv, KnownIsReal, Known, Beginning, Ensuring, Activating, Paused, Ending

(* The others are over. *)
LEMMA Frame ==
  ASSUME TreeAssumption, Inv, NEW a \in Attempt, try[a].at # "none",
         try' \in [Attempt -> Tries], \A b \in Attempt \ {a} : try'[b] = try[b],
         try'[a].at # "none", UNCHANGED <<queueVars, leavePaused>>,
         DataOK', World', Counted', AllRecorded', AttemptInv(a)'
  PROVE  Inv'
<1>1. \A b \in Attempt \ {a} : try[b] = Blank
  BY DEF Inv, Alone
<1>2. TypeOK'
  BY DEF Inv, TypeOK, DataOK, Tries, queueVars
<1>3. Alone'
  BY <1>1 DEF Alone, Blank
<1>4. \A b \in Attempt : AttemptInv(b)'
  BY <1>1, BlankKeeps
<1> QED BY <1>2, <1>3, <1>4 DEF Inv

(* A campaign that spends goes on having its tree. *)
LEMMA WholeStays ==
  ASSUME WholeWhenActive, remote \subseteq remote',
         \A o \in remote : IsActive(o) /\ o.place # Campaign => IsActive(o)',
         \A c \in remote' : c.place = Campaign /\ IsActive(c)' => c \in remote /\ IsActive(c)
  PROVE  WholeWhenActive'
<1> SUFFICES ASSUME NEW c \in remote', c.place = Campaign, IsActive(c)', NEW p \in AdSet \union Ad
             PROVE  \E o \in remote' :
                      /\ o.place = p /\ IsActive(o)'
                      /\ p \in AdSet => o.parent = c.by
                      /\ p \in Ad => \E s \in remote' :
                                     s.place = Above(p) /\ s.by = o.parent /\ s.parent = c.by
  BY DEF WholeWhenActive
<1>1. PICK o \in remote :
        /\ o.place = p /\ IsActive(o)
        /\ p \in AdSet => o.parent = c.by
        /\ p \in Ad => \E s \in remote : s.place = Above(p) /\ s.by = o.parent /\ s.parent = c.by
  BY DEF WholeWhenActive
<1>2. p # Campaign
  BY DEF AdSet, Ad, Campaign
<1> QED BY <1>1, <1>2

LEMMA WorldStays ==
  ASSUME World, UNCHANGED <<remote, row, active>>
  PROVE  World'
<1>1. NoDuplicates' /\ Hangs' /\ RowsAreReal' /\ ActiveIsReal'
  BY DEF World, NoDuplicates, Hangs, RowsAreReal, ActiveIsReal, Has
<1>2. WholeWhenActive'
  BY WholeStays DEF World, IsActive
<1> QED BY <1>1, <1>2 DEF World

(* A step that only moves on. *)
LEMMA Moves ==
  ASSUME TreeAssumption, Inv, NEW a \in Attempt, try[a].at # "none",
         try' \in [Attempt -> Tries], \A b \in Attempt \ {a} : try'[b] = try[b],
         try'[a].at # "none", UNCHANGED <<queueVars, localVars, metaVars, leavePaused>>,
         AttemptInv(a)'
  PROVE  Inv'
<1>1. DataOK'
  BY DEF Inv, TypeOK, DataOK, localVars, metaVars
<1>2. Counted' /\ AllRecorded'
  BY DEF Inv, Counted, AllRecorded, queueVars, localVars, metaVars
<1>3. World'
  BY WorldStays DEF Inv, localVars, metaVars
<1> QED BY <1>1, <1>2, <1>3, Frame

(* What is known stays so. *)
LEMMA KnownStays ==
  ASSUME NEW a \in Attempt, KnownIsReal(a), Grows, try'[a].known = try[a].known
  PROVE  KnownIsReal(a)'
<1>1. \A p \in Place : \A by : Has(p, by) => Has(p, by)'
  BY DEF Has, Grows
<1> QED BY <1>1 DEF KnownIsReal, Known, Grows

Endings == {"pausing", "finishing", "repausing", "completing", "failing"}

LEMMA EndHolds ==
  ASSUME TreeAssumption, NEW a \in Attempt, try'[a].at \in Endings, KnownIsReal(a)',
         try'[a].verdict = "succeeded" => \A p \in Place : row'[p] # 0,
         try'[a].at = "finishing" => try'[a].verdict # "none",
         try'[a].at = "pausing" => try'[a].verdict \in {"failed", "pending"}
  PROVE  AttemptInv(a)'
BY DEF AttemptInv, Beginning, Ensuring, Activating, Paused, Ending, Endings

(* An attempt comes to its end, with the verdict it has or a failure. *)
LEMMA EndKeeps ==
  ASSUME TreeAssumption, Inv, NEW a \in Attempt, try[a].at # "none", NEW at \in Endings,
         NEW verdict \in {try[a].verdict, "failed", "pending"},
         To(a, at, try[a].seen, try[a].known, try[a].hand, try[a].done, verdict),
         at = "finishing" => verdict # "none", at = "pausing" => verdict \in {"failed", "pending"},
         UNCHANGED <<queueVars, leavePaused>>, Grows, DataOK', World', Counted', AllRecorded'
  PROVE  Inv'
<1>1. AttemptInv(a) /\ KnownIsReal(a)
  BY DEF Inv, AttemptInv
<1>2. KnownIsReal(a)'
  BY <1>1, KnownStays DEF To
<1>3. verdict = "succeeded" => \A p \in Place : row'[p] # 0
  BY <1>1 DEF AttemptInv, Ending, Grows
<1>4. AttemptInv(a)'
  BY <1>2, <1>3, EndHolds DEF To
<1>5. at # "none"
  BY DEF Endings
<1> QED BY <1>4, <1>5, Frame DEF To

LEMMA RecordsStay ==
  ASSUME Inv, Grows, UNCHANGED <<queueVars, result, tries>>, tries > 0 \/ UNCHANGED remote
  PROVE  Counted' /\ AllRecorded'
<1>1. tries \in Nat
  BY TreeAssumption DEF TreeAssumption, Inv, TypeOK
<1> QED BY <1>1 DEF Inv, Counted, AllRecorded, Grows, queueVars

(* finishTreePublishFailure, after whatever the step that failed has left behind. *)
LEMMA BreaksKeeps ==
  ASSUME TreeAssumption, Inv, NEW a \in Attempt, try[a].at # "none", Breaks(a),
         UNCHANGED <<queueVars, result, tries, leavePaused>>, tries > 0 \/ UNCHANGED remote,
         Grows, DataOK', World'
  PROVE  Inv'
<1>1. TypeOK
  BY DEF Inv
<1>2. PICK at \in {"pausing", "finishing"}, verdict \in {"failed", "pending"} :
        To(a, at, try[a].seen, try[a].known, try[a].hand, try[a].done, verdict)
  BY <1>1, BreaksTo
<1>3. at \in Endings /\ verdict # "none"
  BY DEF Endings
<1>4. Counted' /\ AllRecorded'
  BY RecordsStay
<1> QED BY <1>2, <1>3, <1>4, EndKeeps

LEMMA FailKeeps ==
  ASSUME TreeAssumption, Inv, NEW a \in Attempt, try[a].at # "none",
         NEW at \in {"repausing", "completing", "failing"}, Go(a, at),
         UNCHANGED <<queueVars, leavePaused>>, Grows, DataOK', World', Counted', AllRecorded'
  PROVE  Inv'
<1>1. TypeOK
  BY DEF Inv
<1>2. at \in At /\ at \in Endings
  BY DEF At, Endings
<1>3. To(a, at, try[a].seen, try[a].known, try[a].hand, try[a].done, try[a].verdict)
  BY <1>1, <1>2, GoesTo
<1> QED BY <1>2, <1>3, EndKeeps

LEMMA NothingMoves ==
  ASSUME Inv, UNCHANGED <<queueVars, localVars, metaVars>>
  PROVE  Grows /\ DataOK' /\ World' /\ Counted' /\ AllRecorded'
<1>1. Grows /\ UNCHANGED <<result, tries, remote, row, active>>
  BY DEF Grows, localVars, metaVars
<1>2. DataOK'
  BY DEF Inv, TypeOK, DataOK, localVars, metaVars
<1> QED BY <1>1, <1>2, RecordsStay, WorldStays DEF Inv
-----------------------------------------------------------------------------
(* The calls and statements that change the tree at Meta or its rows. *)

LEMMA PauseKeeps ==
  ASSUME TypeOK, World, NEW by, NEW ok \in BOOLEAN, Pause(by, ok), UNCHANGED <<remote, row>>
  PROVE  /\ World' /\ active' \subseteq Place \X Attempt
         /\ active' \subseteq active /\ active \subseteq active' \union {<<Campaign, by>>}
         /\ ok => <<Campaign, by>> \notin active'
<1>1. /\ active' \subseteq active /\ active \subseteq active' \union {<<Campaign, by>>}
      /\ ok => <<Campaign, by>> \notin active'
  BY DEF Pause
<1>2. NoDuplicates' /\ Hangs' /\ RowsAreReal' /\ ActiveIsReal'
  BY <1>1 DEF World, NoDuplicates, Hangs, RowsAreReal, ActiveIsReal, Has
<1>3. \A o \in remote : IsActive(o) /\ o.place # Campaign => IsActive(o)'
  BY <1>1 DEF IsActive
<1>4. \A c \in remote : IsActive(c)' => IsActive(c)
  BY <1>1 DEF IsActive
<1>5. WholeWhenActive'
  BY <1>3, <1>4, WholeStays DEF World
<1> QED BY <1>1, <1>2, <1>5 DEF World, TypeOK

(* A new object, the first of its place, under what it hangs from. *)
LEMMA CreateKeeps ==
  ASSUME TypeOK, World, NEW o \in Object, ~Any(o.place), remote' = remote \union {o},
         o.place \in AdSet \union Ad => Has(Above(o.place), o.parent),
         o.place \in Ad => Has(Content(o.place), o.content), UNCHANGED <<row, active>>
  PROVE  World' /\ remote' \subseteq Object /\ <<o.place, o.by>> \notin active
<1>1. \A p, by : Has(p, by) => Has(p, by)'
  BY DEF Has
<1>2. NoDuplicates'
  BY DEF World, NoDuplicates, Any
<1>3. Hangs'
  BY <1>1 DEF World, Hangs
<1>4. RowsAreReal' /\ ActiveIsReal'
  BY <1>1 DEF World, RowsAreReal, ActiveIsReal
<1>5. <<o.place, o.by>> \notin active
  BY DEF World, ActiveIsReal, Has, Any
<1>6. WholeWhenActive'
  BY <1>5, WholeStays DEF World, IsActive
<1> QED BY <1>2, <1>3, <1>4, <1>5, <1>6 DEF World, TypeOK

(* A row for an object that is there. *)
LEMMA RowKeeps ==
  ASSUME TypeOK, World, NEW p \in Place, NEW by \in 0..MaxAttempts, by # 0, Has(p, by),
         row' = [row EXCEPT ![p] = by], UNCHANGED <<remote, active>>
  PROVE  World' /\ Grows /\ row' \in [Place -> 0..MaxAttempts]
<1>1. row' \in [Place -> 0..MaxAttempts] /\ \A q \in Place : row'[q] = IF q = p THEN by ELSE row[q]
  BY DEF TypeOK
<1>2. RowsAreReal'
  BY <1>1 DEF World, RowsAreReal, Has
<1>3. Grows
  BY <1>1 DEF Grows
<1>4. NoDuplicates' /\ Hangs' /\ ActiveIsReal'
  BY DEF World, NoDuplicates, Hangs, ActiveIsReal, Has
<1>5. WholeWhenActive'
  BY WholeStays DEF World, IsActive
<1> QED BY <1>1, <1>2, <1>3, <1>4, <1>5 DEF World

(* Activation of what is below the campaign, or of the campaign once all below it delivers. *)
LEMMA ActivateKeeps ==
  ASSUME TreeAssumption, TypeOK, World, NEW p \in Place, NEW by, Has(p, by),
         active' \in {active, active \union {<<p, by>>}}, UNCHANGED <<remote, row>>,
         p = Campaign => \A q \in AdSet \union Ad : \E o \in remote : o.place = q /\ IsActive(o)
  PROVE  World' /\ active' \subseteq Place \X Attempt
<1>1. by \in Attempt
  BY DEF Has, TypeOK, Object
<1>2. active' \subseteq Place \X Attempt
  BY <1>1 DEF TypeOK
<1>3. NoDuplicates' /\ Hangs' /\ RowsAreReal' /\ ActiveIsReal'
  BY DEF World, NoDuplicates, Hangs, RowsAreReal, ActiveIsReal, Has
<1>4. WholeWhenActive'
  <2>1. CASE p # Campaign
    <3>1. \A c \in remote : c.place = Campaign /\ IsActive(c)' => IsActive(c)
      BY <2>1 DEF IsActive
    <3>2. \A o \in remote : IsActive(o) => IsActive(o)'
      BY DEF IsActive
    <3> QED BY <3>1, <3>2, WholeStays DEF World
  <2>2. CASE p = Campaign
    <3> SUFFICES ASSUME NEW c \in remote, c.place = Campaign, NEW q \in AdSet \union Ad
                 PROVE  \E o \in remote :
                          /\ o.place = q /\ IsActive(o)'
                          /\ q \in AdSet => o.parent = c.by
                          /\ q \in Ad => \E s \in remote :
                                         s.place = Above(q) /\ s.by = o.parent /\ s.parent = c.by
      BY DEF WholeWhenActive
    <3>1. PICK o \in remote : o.place = q /\ IsActive(o)
      BY <2>2
    <3>2. IsActive(o)'
      BY <3>1 DEF IsActive
    <3>3. q \in Place
      BY DEF Place
    <3>4. \A d \in remote : d.place = Campaign => d = c
      BY DEF World, NoDuplicates
    <3>5. ASSUME q \in AdSet PROVE o.parent = c.by
      <4>1. Above(q) = Campaign
        BY <3>3, <3>5, Kinds, HangsFrom
      <4> QED BY <3>1, <3>4, <3>5, <4>1 DEF World, Hangs, Has
    <3>6. ASSUME q \in Ad
          PROVE  \E s \in remote : s.place = Above(q) /\ s.by = o.parent /\ s.parent = c.by
      <4>1. Above(q) \in AdSet
        BY <3>3, <3>6, Kinds, HangsFrom
      <4>2. PICK s \in remote : s.place = Above(q) /\ s.by = o.parent
        BY <3>1, <3>6 DEF World, Hangs, Has
      <4>3. Above(Above(q)) = Campaign
        <5>1. Above(q) \in Place
          BY <4>1 DEF Place
        <5> QED BY <4>1, <5>1, Kinds, HangsFrom
      <4> QED BY <3>4, <4>1, <4>2, <4>3 DEF World, Hangs, Has
    <3> QED BY <3>1, <3>2, <3>5, <3>6
  <2> QED BY <2>1, <2>2
<1> QED BY <1>2, <1>3, <1>4 DEF World
-----------------------------------------------------------------------------
(* The loops over the tree. *)

(* What the place whose turn it is hangs from is known. *)
LEMMA TurnIs ==
  ASSUME TreeAssumption, NEW a \in Attempt, Unknown(try[a].known) # {}
  PROVE  /\ Turn(a) \in Place /\ Known(a, Turn(a)) = 0
         /\ Turn(a).kind \in {"adset", "ad"} =>
              Above(Turn(a)) \in Place /\ Above(Turn(a)) # Turn(a) /\ Known(a, Above(Turn(a))) # 0
         /\ Turn(a).kind = "ad" =>
              /\ Content(Turn(a)) \in Place /\ Content(Turn(a)) # Turn(a)
              /\ Known(a, Content(Turn(a))) # 0
<1> DEFINE p == Turn(a)
<1>1. p \in Place /\ Known(a, p) = 0 /\ \A q \in Place : Known(a, q) = 0 /\ q # p => Before(p, q)
  <2>1. Unknown(try[a].known) \subseteq Place
    BY DEF Unknown
  <2>2. p \in Unknown(try[a].known) /\ \A q \in Unknown(try[a].known) \ {p} : Before(p, q)
    BY <2>1, OneIsFirst DEF Turn
  <2> QED BY <2>1, <2>2 DEF Unknown, Known
<1> HIDE DEF p
<1>2. \A q \in Place : Before(q, p) /\ q # p => Known(a, q) # 0
  <2> SUFFICES ASSUME NEW q \in Place, Before(q, p), Before(p, q) PROVE FALSE
    BY <1>1
  <2>1. p.s \in Nat /\ p.i \in Nat /\ q.s \in Nat /\ q.i \in Nat
    BY <1>1, Kinds
  <2> QED BY <2>1 DEF Before
<1>3. p.kind \in {"adset", "ad"} => Above(p) \in Place /\ Above(p) # p /\ Known(a, Above(p)) # 0
  BY <1>1, <1>2, HangsFrom
<1>4. p.kind = "ad" => Content(p) \in Place /\ Content(p) # p /\ Known(a, Content(p)) # 0
  BY <1>1, <1>2, HangsFrom
<1> QED BY <1>1, <1>3, <1>4 DEF p

(* On to the next place, or past the last one. *)
LEMMA OnwardKeeps ==
  ASSUME TreeAssumption, Inv, NEW a \in Attempt, try[a].at # "none", try[a].done = {}, tries > 0,
         NEW known \in [Place -> 0..MaxAttempts], Onward(a, known),
         \A p \in Place : known[p] # 0 => row'[p] # 0 /\ Has(p, known[p]),
         ~try[a].seen => \A o \in remote : o.by = known[o.place],
         ~try[a].seen \/ known[Campaign] # 0 => CampaignPaused,
         UNCHANGED <<queueVars, result, tries, metaVars, leavePaused>>, Grows, DataOK', World'
  PROVE  Inv'
<1>1. TypeOK /\ AttemptInv(a)
  BY DEF Inv
<1>2. /\ To(a, OnTo(a, known), try[a].seen, known, 0, {}, OnVerdict(a, known))
      /\ remote' = remote /\ active' = active /\ tries' = tries
  BY <1>1, OnwardTo DEF metaVars
<1>3. Campaign \in Place
  BY DEF Place
<1>4. \A p \in Place : p \in Unknown(known) <=> known[p] = 0
  BY DEF Unknown
<1>5. KnownIsReal(a)'
  BY <1>2 DEF KnownIsReal, Known, Has, To
<1>6. CampaignPaused => CampaignPaused'
  BY <1>2 DEF CampaignPaused
<1>7. /\ OnTo(a, known) \in {"finding", "creating", "finishing", "activating"}
      /\ OnTo(a, known) \in {"finding", "creating"} <=> Unknown(known) # {}
      /\ OnTo(a, known) = "finding" => try[a].seen
      /\ OnTo(a, known) = "creating" => ~try[a].seen
      /\ OnTo(a, known) = "finishing" => OnVerdict(a, known) = "succeeded"
  BY DEF OnTo, OnVerdict
<1>8. Beginning(a)'
  BY <1>2, <1>7 DEF Beginning, To
<1>9. Ensuring(a)'
  <2>1. CASE OnTo(a, known) = "creating"
    <3>1. Unknown(try'[a].known) # {} /\ \A o \in remote' : o.by = try'[a].known[o.place]
      BY <1>2, <1>7, <2>1 DEF To
    <3>2. Turn(a)' \in Place /\ Known(a, Turn(a))' = 0
      <4>1. Unknown(known) \subseteq Place /\ Unknown(known) # {}
        BY <1>7, <2>1 DEF Unknown
      <4>2. First(Unknown(known)) \in Unknown(known)
        BY <4>1, OneIsFirst
      <4> QED BY <1>2, <1>4, <4>1, <4>2 DEF Turn, Known, To
    <3>3. \A o \in remote' : o.by # 0
      BY <1>1, <1>2 DEF TypeOK, Object, Attempt
    <3>4. ~Any(Turn(a))'
      BY <3>1, <3>2, <3>3 DEF Any, Known
    <3> QED BY <1>2, <2>1, <3>1, <3>4 DEF Ensuring, KnowsAll, Known, To
  <2>2. CASE OnTo(a, known) # "creating"
    BY <1>2, <1>7, <2>2 DEF Ensuring, To
  <2> QED BY <2>1, <2>2
<1>10. Activating(a)'
  BY <1>2, <1>3, <1>7 DEF Activating, To
<1>11. Paused(a)'
  <2>1. OnTo(a, known) = "activating" => known[Campaign] # 0
    BY <1>3, <1>4, <1>7
  <2> QED BY <1>2, <1>6, <1>7, <2>1 DEF Paused, Known, To
<1>12. Ending(a)'
  <2>1. try[a].verdict = "succeeded" => \A p \in Place : row'[p] # 0
    BY <1>1 DEF AttemptInv, Ending, Grows
  <2>2. OnVerdict(a, known) = "succeeded" => \A p \in Place : row'[p] # 0
    BY <1>4, <2>1 DEF OnVerdict
  <2> QED BY <1>2, <1>7, <2>2 DEF Ending, To
<1>13. AttemptInv(a)'
  BY <1>5, <1>8, <1>9, <1>10, <1>11, <1>12 DEF AttemptInv
<1>14. Counted' /\ AllRecorded'
  BY RecordsStay
<1> QED BY <1>2, <1>7, <1>13, <1>14, Frame DEF To

(* On by way of the campaign, which a retry pauses. *)
LEMMA EnsuredKeeps ==
  ASSUME TreeAssumption, Inv, NEW a \in Attempt, try[a].at # "none", try[a].done = {}, tries > 0,
         NEW known \in [Place -> 0..MaxAttempts], Ensured(a, known),
         \A p \in Place : known[p] # 0 => row'[p] # 0 /\ Has(p, known[p]),
         ~try[a].seen => \A o \in remote : o.by = known[o.place],
         ~try[a].seen \/ Known(a, Campaign) # 0 => CampaignPaused,
         UNCHANGED <<queueVars, result, tries, metaVars, leavePaused>>, Grows, DataOK', World'
  PROVE  Inv'
<1>1. TypeOK /\ AttemptInv(a)
  BY DEF Inv
<1>2. CASE /\ known[Campaign] # 0 /\ try[a].seen
           /\ To(a, "calming", try[a].seen, known, 0, try[a].done, try[a].verdict)
  <2>1. KnownIsReal(a)'
    BY <1>2 DEF KnownIsReal, Known, Has, To, metaVars
  <2>2. Beginning(a)' /\ Ensuring(a)' /\ Activating(a)' /\ Paused(a)'
    BY <1>2 DEF Beginning, Ensuring, Activating, Paused, Known, To
  <2>3. Ending(a)'
    BY <1>1, <1>2 DEF AttemptInv, Ending, Grows, To
  <2>4. AttemptInv(a)'
    BY <2>1, <2>2, <2>3 DEF AttemptInv
  <2>5. Counted' /\ AllRecorded'
    BY RecordsStay DEF metaVars
  <2> QED BY <1>2, <2>4, <2>5, Frame DEF To
<1>3. CASE (known[Campaign] = 0 \/ Known(a, Campaign) # 0 \/ ~try[a].seen) /\ Onward(a, known)
  BY <1>3, OnwardKeeps
<1> QED BY <1>1, <1>2, <1>3, EnsuredTo
-----------------------------------------------------------------------------
(* The steps before the loops. *)

LEMMA LoadKeeps ==
  ASSUME TreeAssumption, Inv, NEW a \in Attempt, Load(a)
  PROVE  Inv'
<1>1. TypeOK /\ AttemptInv(a) /\ try[a].at = "loading"
  BY DEF Inv, Load, Waits
<1>2. UNCHANGED <<queueVars, localVars, metaVars, leavePaused>>
  BY DEF Load
<1>3. CASE try' = [try EXCEPT ![a].at = "marking", ![a].seen = tries > 0]
  <2>1. To(a, "marking", tries > 0, try[a].known, try[a].hand, try[a].done, try[a].verdict)
    <3> DEFINE t == [try[a] EXCEPT !.at = "marking", !.seen = tries > 0]
    <3>1. try' = [try EXCEPT ![a] = t]
      BY <1>1, <1>3, Fields
    <3>2. (tries > 0) \in BOOLEAN /\ "marking" \in At
      BY DEF At
    <3>3. t \in Tries /\ t.at = "marking" /\ t.seen = (tries > 0) /\ t.known = try[a].known
          /\ t.hand = try[a].hand /\ t.done = try[a].done /\ t.verdict = try[a].verdict
      BY <1>1, <3>2, Fields DEF Tries
    <3> HIDE DEF t
    <3>4. To(a, t.at, t.seen, t.known, t.hand, t.done, t.verdict)
      BY <1>1, <3>1, <3>3, Moved
    <3> QED BY <3>3, <3>4
  <2>2. KnownIsReal(a)'
    BY <1>1, <1>2, <2>1, KnownStays DEF AttemptInv, Grows, To, localVars, metaVars
  <2>3. Beginning(a)'
    <3>1. ~(tries > 0) => remote = {}
      BY <1>1 DEF TypeOK, Inv, Counted
    <3> QED BY <1>1, <1>2, <2>1, <3>1
              DEF AttemptInv, Beginning, Known, To, localVars, metaVars, queueVars
  <2>4. Ensuring(a)' /\ Activating(a)' /\ Paused(a)' /\ Ending(a)'
    BY <1>1, <1>2, <2>1 DEF AttemptInv, Activating, Ending, Ensuring, Paused, To, localVars
  <2>5. AttemptInv(a)'
    BY <2>2, <2>3, <2>4 DEF AttemptInv
  <2> QED BY <1>1, <1>2, <2>1, <2>5, Moves DEF To
<1>4. CASE Go(a, "failing")
  BY <1>1, <1>2, <1>4, NothingMoves, FailKeeps
<1> QED BY <1>3, <1>4 DEF Load

LEMMA MarkKeeps ==
  ASSUME TreeAssumption, Inv, NEW a \in Attempt, MarkAccountRunning(a)
  PROVE  Inv'
<1>1. TypeOK /\ AttemptInv(a) /\ try[a].at = "marking"
  BY DEF Inv, MarkAccountRunning, Waits
<1>2. UNCHANGED <<queueVars, row, shown, metaVars, leavePaused>> /\ Grows
  BY DEF MarkAccountRunning, Grows, metaVars
<1>3. World'
  BY <1>2, WorldStays DEF Inv, metaVars
<1>4. CASE result # "succeeded" /\ result' = "running" /\ tries' = tries + 1
  <2>1. tries < attempts[Result] /\ attempts[Result] \in 0..MaxAttempts /\ tries \in Nat
    BY <1>1 DEF AttemptInv, Beginning, TypeOK
  <2>2. DataOK' /\ tries' > 0
    BY <1>1, <1>2, <1>4, <2>1 DEF TypeOK, DataOK, metaVars
  <2>3. Counted' /\ AllRecorded'
    BY <1>2, <1>4, <2>1, <2>2 DEF Counted, AllRecorded, queueVars
  <2>4. CASE Go(a, "failing")
    BY <1>1, <1>2, <1>3, <2>2, <2>3, <2>4, FailKeeps
  <2>5. CASE Go(a, "uploading")
    <3>1. To(a, "uploading", try[a].seen, try[a].known, try[a].hand, try[a].done, try[a].verdict)
      BY <1>1, <2>5, GoesTo DEF At
    <3>2. KnownIsReal(a)'
      BY <1>1, <1>2, <3>1, KnownStays DEF AttemptInv, To
    <3>3. Beginning(a)'
      BY <1>1, <1>2, <2>2, <3>1 DEF AttemptInv, Beginning, Known, To, metaVars
    <3>4. Ensuring(a)' /\ Activating(a)' /\ Paused(a)' /\ Ending(a)'
      BY <1>1, <1>2, <3>1 DEF AttemptInv, Activating, Ending, Ensuring, Paused, To
    <3>5. AttemptInv(a)'
      BY <3>2, <3>3, <3>4 DEF AttemptInv
    <3> QED BY <1>1, <1>2, <1>3, <2>2, <2>3, <3>1, <3>5, Frame DEF To
  <2> QED BY <2>4, <2>5, <1>4, <1>1 DEF MarkAccountRunning
<1>5. CASE Go(a, "failing") /\ UNCHANGED <<result, tries>>
  BY <1>1, <1>2, <1>5, NothingMoves, FailKeeps DEF localVars
<1> QED BY <1>4, <1>5 DEF MarkAccountRunning

LEMMA UploadKeeps ==
  ASSUME TreeAssumption, Inv, NEW a \in Attempt, Upload(a)
  PROVE  Inv'
<1>1. TypeOK /\ AttemptInv(a) /\ try[a].at = "uploading"
  BY DEF Inv, Upload, Waits
<1>2. UNCHANGED <<queueVars, localVars, metaVars, leavePaused>>
  BY DEF Upload
<1>3. CASE Go(a, "listing")
  <2>1. To(a, "listing", try[a].seen, try[a].known, try[a].hand, try[a].done, try[a].verdict)
    BY <1>1, <1>3, GoesTo DEF At
  <2>2. KnownIsReal(a)'
    BY <1>1, <1>2, <2>1, NothingMoves, KnownStays DEF AttemptInv, To
  <2>3. Beginning(a)'
    BY <1>1, <1>2, <2>1 DEF AttemptInv, Beginning, Known, To, localVars, metaVars
  <2>4. Ensuring(a)' /\ Activating(a)' /\ Paused(a)' /\ Ending(a)'
    BY <1>1, <1>2, <2>1 DEF AttemptInv, Activating, Ending, Ensuring, Paused, To, localVars
  <2>5. AttemptInv(a)'
    BY <2>2, <2>3, <2>4 DEF AttemptInv
  <2> QED BY <1>1, <1>2, <2>1, <2>5, Moves DEF To
<1>4. CASE Breaks(a)
  BY <1>1, <1>2, <1>4, NothingMoves, BreaksKeeps DEF localVars, metaVars
<1> QED BY <1>3, <1>4 DEF Upload

LEMMA ListKeeps ==
  ASSUME TreeAssumption, Inv, NEW a \in Attempt, ListCheckpoints(a)
  PROVE  Inv'
<1>1. TypeOK /\ AttemptInv(a) /\ try[a].at = "listing"
  BY DEF Inv, ListCheckpoints, Waits
<1>2. UNCHANGED <<queueVars, localVars, metaVars, leavePaused>>
  BY DEF ListCheckpoints
<1>3. try[a].done = {} /\ tries > 0 /\ (~try[a].seen => remote = {})
  BY <1>1 DEF AttemptInv, Beginning, Activating
<1>4. CASE Ensured(a, row)
  <2>1. row \in [Place -> 0..MaxAttempts] /\ row' = row
    BY <1>1, <1>2 DEF TypeOK, localVars
  <2>2. \A p \in Place : row[p] # 0 => row'[p] # 0 /\ Has(p, row[p])
    BY <2>1 DEF Inv, World, RowsAreReal
  <2>3. Known(a, Campaign) = 0
    BY <1>1 DEF AttemptInv, Beginning, Place
  <2>4. ~try[a].seen => CampaignPaused /\ \A o \in remote : o.by = row[o.place]
    BY <1>3 DEF CampaignPaused
  <2> QED BY <1>1, <1>2, <1>3, <1>4, <2>1, <2>2, <2>3, <2>4, NothingMoves, EnsuredKeeps
          DEF localVars
<1>5. CASE Go(a, "failing")
  BY <1>1, <1>2, <1>5, NothingMoves, FailKeeps
<1> QED BY <1>4, <1>5 DEF ListCheckpoints
-----------------------------------------------------------------------------
(* The steps of ensureTreeObject. *)

LEMMA FindKeeps ==
  ASSUME TreeAssumption, Inv, NEW a \in Attempt, Find(a)
  PROVE  Inv'
<1>1. TypeOK /\ AttemptInv(a) /\ try[a].at = "finding"
  BY DEF Inv, Find, Waits
<1>2. UNCHANGED <<queueVars, localVars, metaVars, leavePaused>>
  BY DEF Find
<1>3. Unknown(try[a].known) # {} /\ try[a].seen /\ tries > 0 /\ try[a].done = {}
  BY <1>1 DEF AttemptInv, Ensuring, Activating
<1>4. Matches(a, Turn(a)) = {} => ~Any(Turn(a))
  <2> SUFFICES ASSUME NEW o \in remote, o.place = Turn(a), Parent(a, Turn(a)) # 0
               PROVE  o.parent = Parent(a, Turn(a))
    BY DEF Matches, Any
  <2>1. Turn(a) \in Place /\ Turn(a).kind \in {"adset", "ad"} /\ Parent(a, Turn(a)) = Known(a, Above(Turn(a)))
    BY <1>3, TurnIs DEF Parent
  <2>2. Turn(a) \in AdSet \union Ad /\ Above(Turn(a)) \in Place
    BY <1>3, <2>1, Kinds, TurnIs
  <2>3. Has(Above(Turn(a)), o.parent) /\ Has(Above(Turn(a)), Known(a, Above(Turn(a))))
    BY <1>1, <2>1, <2>2 DEF Inv, World, Hangs, AttemptInv, KnownIsReal
  <2> QED BY <2>1, <2>3 DEF Inv, World, NoDuplicates, Has
<1>5. CASE Matches(a, Turn(a)) = {} /\ Go(a, "creating")
  <2>1. To(a, "creating", try[a].seen, try[a].known, try[a].hand, {}, try[a].verdict)
    BY <1>1, <1>3, <1>5, GoesTo DEF At
  <2>2. KnownIsReal(a)'
    BY <1>1, <1>2, <2>1, NothingMoves, KnownStays DEF AttemptInv, To
  <2>3. Ensuring(a)'
    BY <1>2, <1>3, <1>4, <1>5, <2>1 DEF Ensuring, Turn, Any, To, localVars, metaVars
  <2>4. Paused(a)'
    BY <1>1, <1>2, <1>3, <2>1 DEF AttemptInv, Paused, CampaignPaused, Known, To, metaVars
  <2>5. Beginning(a)' /\ Activating(a)' /\ Ending(a)'
    BY <1>1, <1>2, <2>1 DEF AttemptInv, Beginning, Activating, Ending, To, localVars
  <2>6. AttemptInv(a)'
    BY <2>2, <2>3, <2>4, <2>5 DEF AttemptInv
  <2> QED BY <1>1, <1>2, <2>1, <2>6, Moves DEF To
<1>6. ASSUME Cardinality(Matches(a, Turn(a))) = 1,
             try' = [try EXCEPT ![a].at = "adopting",
                                ![a].hand = (CHOOSE o \in Matches(a, Turn(a)) : TRUE).by]
      PROVE  Inv'
  <2>1. Matches(a, Turn(a)) # {}
    <3>1. Cardinality({}) = 0
      BY FS_EmptySet
    <3> SUFFICES ASSUME Matches(a, Turn(a)) = {} PROVE FALSE
      OBVIOUS
    <3> QED BY <1>6, <3>1
  <2> DEFINE o == CHOOSE x \in Matches(a, Turn(a)) : TRUE
  <2>2. o \in remote /\ o.place = Turn(a)
    BY <2>1 DEF Matches
  <2>3. o.by \in 0..MaxAttempts /\ o.by # 0
    BY <1>1, <2>2, TreeAssumption DEF TypeOK, Object, Attempt, TreeAssumption
  <2> HIDE DEF o
  <2>4. To(a, "adopting", try[a].seen, try[a].known, o.by, {}, try[a].verdict)
    BY <1>1, <1>3, <1>6, <2>3, HandTo DEF At, o
  <2>5. KnownIsReal(a)'
    BY <1>1, <1>2, <2>4, NothingMoves, KnownStays DEF AttemptInv, To
  <2>6. Has(Turn(a), o.by)
    BY <2>2 DEF Has
  <2>7. Ensuring(a)'
    BY <1>2, <1>3, <2>3, <2>4, <2>6 DEF Ensuring, Turn, Has, To, localVars, metaVars
  <2>8. Paused(a)'
    BY <1>1, <1>2, <1>3, <2>4 DEF AttemptInv, Paused, CampaignPaused, Known, To, metaVars
  <2>9. Beginning(a)' /\ Activating(a)' /\ Ending(a)'
    BY <1>1, <1>2, <2>4 DEF AttemptInv, Beginning, Activating, Ending, To, localVars
  <2>10. AttemptInv(a)'
    BY <2>5, <2>7, <2>8, <2>9 DEF AttemptInv
  <2> QED BY <1>1, <1>2, <2>4, <2>10, Moves DEF To
<1>7. CASE Breaks(a)
  BY <1>1, <1>2, <1>7, NothingMoves, BreaksKeeps DEF localVars, metaVars
<1> QED BY <1>5, <1>6, <1>7 DEF Find

LEMMA CreateKeepsInv ==
  ASSUME TreeAssumption, Inv, NEW a \in Attempt, Create(a)
  PROVE  Inv'
<1> DEFINE p == Turn(a)
           o == [place |-> p, by |-> a, parent |-> Parent(a, p),
                 content |-> IF p.kind = "ad" THEN Known(a, Content(p)) ELSE 0]
<1>1. TypeOK /\ World /\ AttemptInv(a) /\ try[a].at = "creating"
  BY DEF Inv, Create, Waits
<1>2. UNCHANGED <<queueVars, localVars, active, leavePaused>>
  BY DEF Create
<1>3. /\ Unknown(try[a].known) # {} /\ tries > 0 /\ try[a].done = {}
      /\ ~Any(p) /\ (try[a].seen \/ KnowsAll(a))
  BY <1>1 DEF AttemptInv, Ensuring, Activating
<1>4. CASE Breaks(a) /\ UNCHANGED remote
  BY <1>1, <1>2, <1>4, NothingMoves, BreaksKeeps DEF localVars, metaVars
<1>5. CASE remote' = remote \union {o}
  <2>1. p \in Place
    BY <1>3, TurnIs
  <2>2. /\ p.kind \in {"adset", "ad"} => Above(p) \in Place /\ Known(a, Above(p)) # 0
        /\ p.kind = "ad" => Content(p) \in Place /\ Known(a, Content(p)) # 0
    BY <1>3, TurnIs
  <2>3. a # 0 /\ a \in 0..MaxAttempts
    BY TreeAssumption DEF TreeAssumption, Attempt
  <2> HIDE DEF p
  <2>4. o.place = p /\ o.by = a
        /\ (p.kind \in {"adset", "ad"} => o.parent = Known(a, Above(p)))
        /\ (p.kind = "ad" => o.content = Known(a, Content(p)))
    BY DEF Parent
  <2>5. o \in Object
    <3>1. \A q \in Place : Known(a, q) \in 0..MaxAttempts
      BY <1>1, Fields DEF Known
    <3>2. 0 \in 0..MaxAttempts
      BY TreeAssumption DEF TreeAssumption
    <3>3. o.parent \in 0..MaxAttempts
      BY <2>2, <3>1, <3>2 DEF Parent
    <3>4. o.content \in 0..MaxAttempts
      BY <2>2, <3>1, <3>2
    <3> QED BY <2>1, <3>3, <3>4 DEF Object
  <2> HIDE DEF o
  <2>6. /\ p \in AdSet \union Ad => Has(Above(p), o.parent)
        /\ p \in Ad => Has(Content(p), o.content)
    BY <1>1, <2>1, <2>2, <2>4, Kinds DEF AttemptInv, KnownIsReal
  <2>7. World' /\ remote' \subseteq Object /\ <<p, a>> \notin active
    BY <1>1, <1>2, <1>3, <1>5, <2>4, <2>5, <2>6, CreateKeeps DEF localVars
  <2>8. Grows /\ DataOK'
    BY <1>1, <1>2, <1>5, <2>7 DEF Grows, TypeOK, DataOK, localVars
  <2>9. CASE Breaks(a)
    BY <1>1, <1>2, <1>3, <2>7, <2>8, <2>9, BreaksKeeps DEF localVars
  <2>10. CASE try' = [try EXCEPT ![a].at = "saving", ![a].hand = a]
    <3>1. To(a, "saving", try[a].seen, try[a].known, a, {}, try[a].verdict)
      BY <1>1, <1>3, <2>3, <2>10, HandTo DEF At
    <3>2. KnownIsReal(a)'
      BY <1>1, <2>8, <3>1, KnownStays DEF AttemptInv, To
    <3>3. (\E q \in remote' : q.place = p /\ q.by = a) /\ Turn(a)' = p
      BY <1>5, <2>4, <3>1 DEF Turn, To, p
    <3>4. ~try[a].seen => \A q \in remote' : q.by = try[a].known[q.place] \/ (q.place = p /\ q.by = a)
      BY <1>3, <1>5, <2>4 DEF KnowsAll, Known
    <3>5. Ensuring(a)'
      <4>1. /\ try'[a].at = "saving" /\ try'[a].hand = a /\ try'[a].seen = try[a].seen
            /\ Unknown(try'[a].known) # {} /\ tries' > 0
        BY <1>2, <1>3, <3>1 DEF To, localVars
      <4>2. Has(Turn(a), try[a].hand)'
        BY <3>3, <4>1 DEF Has
      <4>3. ~try'[a].seen =>
              \A q \in remote' : q.by = Known(a, q.place)' \/ (q.place = Turn(a)' /\ q.by = try'[a].hand)
        BY <3>1, <3>3, <3>4, <4>1 DEF Known, To
      <4> QED BY <2>3, <4>1, <4>2, <4>3 DEF Ensuring
    <3>6. CampaignPaused => CampaignPaused'
      BY <1>2, <1>5, <2>4, <2>7 DEF CampaignPaused
    <3>7. Paused(a)'
      BY <1>1, <3>1, <3>6 DEF AttemptInv, Paused, Known, To
    <3>8. Beginning(a)' /\ Activating(a)' /\ Ending(a)'
      BY <1>1, <1>2, <3>1 DEF AttemptInv, Beginning, Activating, Ending, To, localVars
    <3>9. AttemptInv(a)'
      BY <3>2, <3>5, <3>7, <3>8 DEF AttemptInv
    <3>10. Counted' /\ AllRecorded'
      BY <1>2, <1>3, <2>8, RecordsStay DEF localVars
    <3> QED BY <1>1, <1>2, <2>7, <2>8, <3>1, <3>9, <3>10, Frame DEF To
  <2> QED BY <1>5, <2>9, <2>10, <1>1 DEF Create, o, p
<1> QED BY <1>4, <1>5 DEF Create

LEMMA CheckpointKeeps ==
  ASSUME TreeAssumption, Inv, NEW a \in Attempt, Checkpoint(a)
  PROVE  Inv'
<1> DEFINE p == Turn(a)
           by == try[a].hand
           found == IF p.kind = "creative" THEN "UNKNOWN"
                    ELSE IF <<p, by>> \in active THEN "ACTIVE" ELSE "PAUSED"
           saved == /\ row' = [row EXCEPT ![p] = by]
                    /\ shown' = [shown EXCEPT ![p] = IF Waits(a, "adopting") THEN found ELSE "PAUSED"]
           known == [try[a].known EXCEPT ![p] = by]
<1>1. TypeOK /\ World /\ AttemptInv(a) /\ try[a].at \in {"adopting", "saving"}
  BY DEF Inv, Checkpoint, Waits
<1>2. UNCHANGED <<queueVars, result, tries, metaVars, leavePaused>>
  BY DEF Checkpoint
<1>3. /\ Unknown(try[a].known) # {} /\ tries > 0 /\ try[a].done = {}
      /\ by # 0 /\ Has(p, by) /\ p \in Place
  BY <1>1, TurnIs DEF AttemptInv, Ensuring, Activating
<1>4. by \in 0..MaxAttempts /\ try[a].known \in [Place -> 0..MaxAttempts]
  BY <1>1, Fields
<1>5. ~try[a].seen => /\ try[a].at = "saving" /\ CampaignPaused
                      /\ \A o \in remote : o.by = try[a].known[o.place] \/ (o.place = p /\ o.by = by)
  BY <1>1 DEF AttemptInv, Ensuring, Paused, Known
<1>6. Known(a, Campaign) # 0 => CampaignPaused
  BY <1>1 DEF AttemptInv, Paused
<1>7. found \in {"none", "PAUSED", "ACTIVE", "UNKNOWN"}
  OBVIOUS
<1>8. saved => World' /\ Grows /\ DataOK'
  <2> SUFFICES ASSUME saved PROVE World' /\ Grows /\ DataOK'
    OBVIOUS
  <2>1. shown' \in [Place -> {"none", "PAUSED", "ACTIVE", "UNKNOWN"}]
    BY <1>1, <1>7 DEF TypeOK
  <2>2. World' /\ Grows /\ row' \in [Place -> 0..MaxAttempts]
    <3>1. row' = [row EXCEPT ![p] = by]
      OBVIOUS
    <3> HIDE DEF p, by, saved
    <3> QED BY <1>1, <1>2, <1>3, <1>4, <3>1, RowKeeps DEF metaVars
  <2> QED BY <1>1, <1>2, <2>1, <2>2 DEF TypeOK, DataOK, metaVars
<1>9. UNCHANGED <<row, shown>> => World' /\ Grows /\ DataOK'
  BY <1>2, NothingMoves DEF localVars
<1>10. CASE Breaks(a) /\ (saved \/ UNCHANGED <<row, shown>>)
  <2> HIDE DEF saved
  <2> QED BY <1>1, <1>2, <1>3, <1>8, <1>9, <1>10, BreaksKeeps
<1>11. CASE saved /\ Ensured(a, known)
  <2>1. known \in [Place -> 0..MaxAttempts] /\ \A q \in Place : known[q] = IF q = p THEN by ELSE Known(a, q)
    BY <1>3, <1>4 DEF Known
  <2>2. row'[p] = by
    BY <1>1, <1>3, <1>11 DEF TypeOK
  <2>3. Grows
    BY <1>8, <1>11
  <2>4. remote \subseteq Object /\ \A o \in remote : o.place \in Place
    BY <1>1 DEF TypeOK, Object
  <2> HIDE DEF p, by, saved, known
  <2>5. \A q \in Place : known[q] # 0 => row'[q] # 0 /\ Has(q, known[q])
    BY <1>1, <1>3, <2>1, <2>2, <2>3 DEF AttemptInv, KnownIsReal, Grows
  <2>6. ~try[a].seen => \A o \in remote : o.by = known[o.place]
    <3> SUFFICES ASSUME ~try[a].seen, NEW o \in remote PROVE o.by = known[o.place]
      OBVIOUS
    <3>1. CASE o.place = p
      BY <1>1, <1>3, <2>1, <2>4, <3>1 DEF World, NoDuplicates, Has
    <3>2. CASE o.place # p
      BY <1>5, <2>1, <2>4, <3>2 DEF Known
    <3> QED BY <3>1, <3>2
  <2> QED BY <1>1, <1>2, <1>3, <1>5, <1>6, <1>8, <1>11, <2>1, <2>5, <2>6, EnsuredKeeps
<1> QED BY <1>10, <1>11 DEF Checkpoint
-----------------------------------------------------------------------------
(* The pause of a retry, and activation. *)

LEMMA CalmKeeps ==
  ASSUME TreeAssumption, Inv, NEW a \in Attempt, Calm(a)
  PROVE  Inv'
<1>1. TypeOK /\ World /\ AttemptInv(a) /\ try[a].at = "calming"
  BY DEF Inv, Calm, Waits
<1>2. UNCHANGED <<queueVars, localVars, remote, leavePaused>>
  BY DEF Calm
<1>3. /\ tries > 0 /\ try[a].done = {} /\ try[a].seen /\ Campaign \in Place
      /\ Known(a, Campaign) # 0 /\ Has(Campaign, Known(a, Campaign))
  BY <1>1 DEF AttemptInv, Beginning, Activating, KnownIsReal, Place
<1>4. PICK ok \in BOOLEAN : Pause(Known(a, Campaign), ok) /\ IF ok THEN Go(a, "noting") ELSE Breaks(a)
  BY DEF Calm
<1>5. /\ World' /\ active' \subseteq Place \X Attempt /\ active' \subseteq active
      /\ ok => <<Campaign, Known(a, Campaign)>> \notin active'
  BY <1>1, <1>2, <1>4, PauseKeeps DEF localVars
<1>6. Grows /\ DataOK'
  BY <1>1, <1>2, <1>5 DEF Grows, TypeOK, DataOK, localVars
<1>7. CASE ok
  <2>1. To(a, "noting", try[a].seen, try[a].known, try[a].hand, try[a].done, try[a].verdict)
    BY <1>1, <1>4, <1>7, GoesTo DEF At
  <2>2. KnownIsReal(a)'
    BY <1>1, <1>6, <2>1, KnownStays DEF AttemptInv, To
  <2>3. CampaignPaused'
    BY <1>1, <1>2, <1>3, <1>5, <1>7 DEF CampaignPaused, World, NoDuplicates, Has
  <2>4. Beginning(a)' /\ Ensuring(a)' /\ Activating(a)' /\ Paused(a)' /\ Ending(a)'
    BY <1>1, <1>2, <1>3, <2>1, <2>3
    DEF AttemptInv, Beginning, Activating, Ending, Ensuring, Paused, Known, To, localVars
  <2>5. AttemptInv(a)'
    BY <2>2, <2>4 DEF AttemptInv
  <2>6. Counted' /\ AllRecorded'
    BY <1>2, <1>3, <1>6, RecordsStay DEF localVars
  <2> QED BY <1>1, <1>2, <1>5, <1>6, <2>1, <2>5, <2>6, Frame DEF To
<1>8. CASE ~ok
  BY <1>1, <1>2, <1>3, <1>4, <1>5, <1>6, <1>8, BreaksKeeps DEF localVars
<1> QED BY <1>7, <1>8

LEMMA NoteKeeps ==
  ASSUME TreeAssumption, Inv, NEW a \in Attempt, Note(a)
  PROVE  Inv'
<1>1. TypeOK /\ World /\ AttemptInv(a) /\ try[a].at = "noting"
  BY DEF Inv, Note, Waits
<1>2. UNCHANGED <<queueVars, result, tries, row, metaVars, leavePaused>> /\ Onward(a, try[a].known)
  BY DEF Note
<1>3. tries > 0 /\ try[a].done = {} /\ try[a].seen /\ CampaignPaused /\ KnownIsReal(a)
  BY <1>1 DEF AttemptInv, Beginning, Activating, Paused
<1>4. shown' \in [Place -> {"none", "PAUSED", "ACTIVE", "UNKNOWN"}]
  BY <1>1 DEF Note, TypeOK
<1>5. Grows /\ DataOK' /\ World'
  BY <1>1, <1>2, <1>4, WorldStays DEF Grows, TypeOK, DataOK, metaVars
<1>6. \A p \in Place : try[a].known[p] # 0 => row'[p] # 0 /\ Has(p, try[a].known[p])
  BY <1>2, <1>3 DEF KnownIsReal, Known
<1>7. try[a].known \in [Place -> 0..MaxAttempts]
  BY <1>1, Fields
<1> QED BY <1>1, <1>2, <1>3, <1>5, <1>6, <1>7, OnwardKeeps

(* The campaign has its turn when nothing below it is left. *)
LEMMA ActivatesIs ==
  ASSUME TreeAssumption, TypeOK, NEW a \in Attempt, Campaign \notin try[a].done
  PROVE  /\ Activates(a) \in Waiting(a) /\ Activates(a) \in Place
         /\ Activates(a) = Campaign => Waiting(a) = {Campaign}
<1>1. Waiting(a) \subseteq Place /\ Campaign \in Waiting(a)
  <2>1. Campaign \in Place /\ Campaign.kind = "campaign"
    BY DEF Place, Campaign
  <2>2. Campaign \notin Creative
    BY <2>1, Kinds
  <2> QED BY <2>1, <2>2 DEF Waiting
<1>2. Activates(a) \in Waiting(a) /\ \A q \in Waiting(a) \ {Activates(a)} : Sooner(Activates(a), q)
  BY <1>1, OneIsSoonest DEF Activates
<1>3. ASSUME Activates(a) = Campaign, NEW q \in Waiting(a), q # Campaign PROVE FALSE
  <2>1. q \in Place /\ q.kind \in {"adset", "ad"}
    BY <1>1, <1>3, Kinds DEF Waiting
  <2>2. Rank(q) \in {1, 2} /\ Rank(Campaign) = 3
    BY <2>1 DEF Rank, Campaign
  <2>3. Sooner(Campaign, q)
    BY <1>2, <1>3
  <2> QED BY <2>2, <2>3 DEF Sooner
<1> QED BY <1>1, <1>2, <1>3

LEMMA ActivateEntityKeeps ==
  ASSUME TreeAssumption, Inv, NEW a \in Attempt, ActivateEntity(a)
  PROVE  Inv'
<1> DEFINE p == Activates(a)
           by == Known(a, p)
<1>1. TypeOK /\ World /\ AttemptInv(a) /\ try[a].at = "activating"
  BY DEF Inv, ActivateEntity, Waits
<1>2. UNCHANGED <<queueVars, localVars, remote, leavePaused>>
  BY DEF ActivateEntity
<1>3. /\ Unknown(try[a].known) = {} /\ Campaign \notin try[a].done
      /\ \A q \in try[a].done : <<q, Known(a, q)>> \in active
  BY <1>1 DEF AttemptInv, Activating
<1>4. p \in Place /\ (p = Campaign => Waiting(a) = {Campaign})
  BY <1>1, <1>3, ActivatesIs
<1>5. \A q \in Place : Known(a, q) # 0 /\ Has(q, Known(a, q))
  BY <1>1, <1>3 DEF Unknown, Known, AttemptInv, KnownIsReal
<1>6. PICK ok \in BOOLEAN : Activate(p, by, ok) /\ IF ok THEN Go(a, "recording") ELSE Breaks(a)
  BY DEF ActivateEntity
<1>7. p = Campaign => \A q \in AdSet \union Ad : \E o \in remote : o.place = q /\ IsActive(o)
  <2> SUFFICES ASSUME p = Campaign, NEW q \in AdSet \union Ad
               PROVE  \E o \in remote : o.place = q /\ IsActive(o)
    OBVIOUS
  <2>1. q \in Place /\ q # Campaign /\ q \notin Creative
    <3>1. q \in Place
      BY DEF Place
    <3> QED BY <3>1, Kinds
  <2>2. q \in try[a].done
    BY <1>4, <2>1 DEF Waiting
  <2>3. <<q, Known(a, q)>> \in active
    BY <1>3, <2>2
  <2> QED BY <1>5, <2>1, <2>3 DEF Has, IsActive
<1>8. Has(p, by) /\ active' \in {active, active \union {<<p, by>>}} /\ (ok => <<p, by>> \in active')
  BY <1>4, <1>5, <1>6 DEF Activate
<1> HIDE DEF p, by
<1>9. World' /\ active' \subseteq Place \X Attempt
  BY <1>1, <1>2, <1>4, <1>7, <1>8, ActivateKeeps DEF localVars
<1>10. Grows /\ DataOK'
  BY <1>1, <1>2, <1>9 DEF Grows, TypeOK, DataOK, localVars
<1>11. CASE ok
  <2>1. To(a, "recording", try[a].seen, try[a].known, try[a].hand, try[a].done, try[a].verdict)
    BY <1>1, <1>6, <1>11, GoesTo DEF At
  <2>2. KnownIsReal(a)'
    BY <1>1, <1>10, <2>1, KnownStays DEF AttemptInv, To
  <2>3. Waiting(a)' = Waiting(a) /\ Activates(a)' = Activates(a)
    BY <2>1 DEF Waiting, Activates, To
  <2>4. active \subseteq active'
    BY <1>8
  <2>5. <<Activates(a)', Known(a, Activates(a))'>> \in active'
    BY <1>8, <1>11, <2>1, <2>3 DEF Known, To, p, by
  <2>6. Activating(a)'
    BY <1>3, <2>1, <2>3, <2>4, <2>5 DEF Activating, Known, To
  <2>7. Waiting(a) # {Campaign} => CampaignPaused'
    BY <1>1, <1>2, <1>4, <1>8 DEF AttemptInv, Paused, CampaignPaused
  <2>8. Beginning(a)' /\ Ensuring(a)' /\ Paused(a)' /\ Ending(a)'
    BY <1>1, <1>2, <2>1, <2>3, <2>7
    DEF AttemptInv, Beginning, Ensuring, Paused, Ending, To, localVars
  <2>9. AttemptInv(a)'
    BY <2>2, <2>6, <2>8 DEF AttemptInv
  <2>10. Counted' /\ AllRecorded'
    BY <1>2, <1>10, RecordsStay DEF localVars
  <2> QED BY <1>1, <1>2, <1>9, <1>10, <2>1, <2>9, <2>10, Frame DEF To
<1>12. CASE ~ok
  BY <1>1, <1>2, <1>6, <1>9, <1>10, <1>12, BreaksKeeps DEF localVars
<1> QED BY <1>11, <1>12

LEMMA RecordKeeps ==
  ASSUME TreeAssumption, Inv, NEW a \in Attempt, Record(a)
  PROVE  Inv'
<1> DEFINE p == Activates(a)
           recorded == shown' = [shown EXCEPT ![p] = "ACTIVE"]
           at == IF Waiting(a) = {p} THEN "finishing" ELSE "activating"
           verdict == IF Waiting(a) = {p} THEN "succeeded" ELSE try[a].verdict
<1>1. TypeOK /\ World /\ AttemptInv(a) /\ try[a].at = "recording"
  BY DEF Inv, Record, Waits
<1>2. UNCHANGED <<queueVars, result, tries, row, metaVars, leavePaused>>
  BY DEF Record
<1>3. /\ Unknown(try[a].known) = {} /\ Campaign \notin try[a].done
      /\ \A q \in try[a].done : <<q, Known(a, q)>> \in active
      /\ <<p, Known(a, p)>> \in active
  BY <1>1 DEF AttemptInv, Activating
<1>4. p \in Place /\ p \in Waiting(a) /\ (p = Campaign => Waiting(a) = {Campaign})
  BY <1>1, <1>3, ActivatesIs
<1>5. \A q \in Place : row[q] # 0
  BY <1>1, <1>3 DEF Unknown, Known, AttemptInv, KnownIsReal
<1>6. recorded \/ UNCHANGED shown
  BY DEF Record
<1>7. shown' \in [Place -> {"none", "PAUSED", "ACTIVE", "UNKNOWN"}]
  BY <1>1, <1>6 DEF TypeOK
<1>8. Grows /\ DataOK' /\ World'
  BY <1>1, <1>2, <1>7, WorldStays DEF Grows, TypeOK, DataOK, metaVars
<1>9. Counted' /\ AllRecorded'
  BY <1>2, <1>8, RecordsStay DEF metaVars
<1>10. CASE try' = [try EXCEPT ![a].done = @ \union {p}, ![a].at = at, ![a].verdict = verdict]
  <2>1. To(a, at, try[a].seen, try[a].known, try[a].hand, try[a].done \union {p}, verdict)
    <3> DEFINE t == [try[a] EXCEPT !.done = try[a].done \union {p}, !.at = at, !.verdict = verdict]
    <3>1. try' = [try EXCEPT ![a] = t]
      BY <1>1, <1>10, Fields
    <3>2. at \in At /\ verdict \in Verdict
      BY <1>1, Fields DEF At, Verdict
    <3> HIDE DEF at, verdict, p
    <3>3. try[a].done \union {p} \in SUBSET Place
      BY <1>1, <1>4, Fields
    <3>4. t \in Tries /\ t.at = at /\ t.seen = try[a].seen /\ t.known = try[a].known
          /\ t.hand = try[a].hand /\ t.done = try[a].done \union {p} /\ t.verdict = verdict
      BY <1>1, <3>2, <3>3, Fields DEF Tries, Verdict
    <3> HIDE DEF t
    <3>5. To(a, t.at, t.seen, t.known, t.hand, t.done, t.verdict)
      BY <1>1, <3>1, <3>4, Moved
    <3> QED BY <3>4, <3>5
  <2>2. KnownIsReal(a)'
    BY <1>1, <1>8, <2>1, KnownStays DEF AttemptInv, To
  <2>3. CASE Waiting(a) = {p}
    <3>1. To(a, "finishing", try[a].seen, try[a].known, try[a].hand, try[a].done \union {p}, "succeeded")
      BY <2>1, <2>3
    <3>2. AttemptInv(a)'
      BY <1>2, <1>5, <2>2, <3>1, EndHolds DEF To, Endings
    <3> QED BY <1>1, <1>2, <1>8, <1>9, <3>1, <3>2, Frame DEF To
  <2>4. CASE Waiting(a) # {p}
    <3>1. To(a, "activating", try[a].seen, try[a].known, try[a].hand, try[a].done \union {p}, try[a].verdict)
      BY <2>1, <2>4
    <3> HIDE DEF p
    <3>2. Waiting(a)' = Waiting(a) \ {p} /\ p # Campaign
      BY <1>4, <2>4, <3>1 DEF Waiting, To
    <3>3. Activating(a)'
      BY <1>2, <1>3, <3>1, <3>2 DEF Activating, Known, To, metaVars
    <3>4. Paused(a)'
      BY <1>1, <1>2, <1>4, <3>1, <3>2 DEF AttemptInv, Paused, CampaignPaused, To, metaVars
    <3>5. Beginning(a)' /\ Ensuring(a)' /\ Ending(a)'
      BY <1>1, <1>2, <3>1 DEF AttemptInv, Beginning, Ensuring, Ending, To
    <3>6. AttemptInv(a)'
      BY <2>2, <3>3, <3>4, <3>5 DEF AttemptInv
    <3> QED BY <1>1, <1>2, <1>8, <1>9, <3>1, <3>6, Frame DEF To
  <2> QED BY <2>3, <2>4
<1>11. CASE Breaks(a)
  BY <1>1, <1>2, <1>8, <1>11, BreaksKeeps DEF metaVars
<1> QED BY <1>10, <1>11 DEF Record
-----------------------------------------------------------------------------
(* The outcome. *)

LEMMA PauseAfterFailureKeeps ==
  ASSUME TreeAssumption, Inv, NEW a \in Attempt, PauseAfterFailure(a)
  PROVE  Inv'
<1>1. TypeOK /\ World /\ AttemptInv(a) /\ try[a].at = "pausing"
  BY DEF Inv, PauseAfterFailure, Waits
<1>2. UNCHANGED <<queueVars, localVars, remote, leavePaused>>
  BY DEF PauseAfterFailure
<1>3. try[a].verdict \in {"failed", "pending"}
  BY <1>1 DEF AttemptInv, Ending
<1>4. PICK ok \in BOOLEAN, verdict \in {"failed", "pending"} :
        Pause(Known(a, Campaign), ok) /\ Ends(a, verdict)
  BY <1>3 DEF PauseAfterFailure
<1>5. World' /\ active' \subseteq Place \X Attempt
  BY <1>1, <1>2, <1>4, PauseKeeps DEF localVars
<1>6. Grows /\ DataOK'
  BY <1>1, <1>2, <1>5 DEF Grows, TypeOK, DataOK, localVars
<1>7. Counted' /\ AllRecorded'
  BY <1>2, <1>6, RecordsStay DEF localVars
<1>8. "finishing" \in Endings /\ "finishing" \in At /\ verdict \in Verdict
  BY DEF Endings, At, Verdict
<1>9. To(a, "finishing", try[a].seen, try[a].known, try[a].hand, try[a].done, verdict)
  BY <1>1, <1>4, <1>8, VerdictTo DEF Ends
<1> QED BY <1>1, <1>2, <1>5, <1>6, <1>7, <1>8, <1>9, EndKeeps

(* What a verdict leaves in the result row: success only with every place on record. *)
LEMMA DurableKeeps ==
  ASSUME Inv, NEW a \in Attempt, try[a].at = "finishing", Durable(a) \/ UNCHANGED result,
         UNCHANGED <<queueVars, tries, row, shown, metaVars>>
  PROVE  Grows /\ DataOK' /\ World' /\ Counted' /\ AllRecorded'
<1>1. TypeOK /\ AttemptInv(a)
  BY DEF Inv
<1>2. result' # result => result' = try[a].verdict /\ try[a].verdict \in {"succeeded", "failed", "pending"}
  BY <1>1, Fields DEF Durable, AttemptInv, Ending, Verdict
<1>3. Grows /\ World'
  BY WorldStays DEF Grows, Inv, metaVars
<1>4. DataOK'
  BY <1>1, <1>2 DEF TypeOK, DataOK, metaVars
<1>5. Counted'
  BY DEF Inv, Counted, queueVars, metaVars
<1>6. AllRecorded'
  BY <1>1, <1>2 DEF Inv, AllRecorded, AttemptInv, Ending
<1> QED BY <1>3, <1>4, <1>5, <1>6

LEMMA FinishKeeps ==
  ASSUME TreeAssumption, Inv, NEW a \in Attempt, Finish(a)
  PROVE  Inv'
<1>1. try[a].at = "finishing" /\ (Durable(a) \/ UNCHANGED result)
  BY DEF Finish, Waits
<1>2. UNCHANGED <<queueVars, tries, row, shown, metaVars, leavePaused>>
  BY DEF Finish
<1>3. Grows /\ DataOK' /\ World' /\ Counted' /\ AllRecorded'
  BY <1>1, <1>2, DurableKeeps
<1>4. PICK at \in {"completing", "failing"} : Go(a, at)
  BY DEF Finish
<1> QED BY <1>1, <1>2, <1>3, <1>4, FailKeeps

LEMMA FinishFailsKeeps ==
  ASSUME TreeAssumption, Inv, NEW a \in Attempt, FinishFails(a)
  PROVE  Inv'
<1>1. try[a].at = "finishing" /\ (Durable(a) \/ UNCHANGED result)
  BY DEF FinishFails, Waits
<1>2. UNCHANGED <<queueVars, tries, row, shown, metaVars, leavePaused>>
  BY DEF FinishFails
<1>3. Grows /\ DataOK' /\ World' /\ Counted' /\ AllRecorded'
  BY <1>1, <1>2, DurableKeeps
<1>4. PICK at \in {"failing", "repausing"} : Go(a, at)
  BY DEF FinishFails
<1> QED BY <1>1, <1>2, <1>3, <1>4, FailKeeps

LEMMA PauseUndurableKeeps ==
  ASSUME TreeAssumption, Inv, NEW a \in Attempt, PauseUndurable(a)
  PROVE  Inv'
<1>1. TypeOK /\ World /\ try[a].at = "repausing" /\ Go(a, "failing")
  BY DEF Inv, PauseUndurable, Waits
<1>2. UNCHANGED <<queueVars, localVars, remote, leavePaused>>
  BY DEF PauseUndurable
<1>3. PICK ok \in BOOLEAN : Pause(Known(a, Campaign), ok)
  BY DEF PauseUndurable
<1>4. World' /\ active' \subseteq Place \X Attempt
  BY <1>1, <1>2, <1>3, PauseKeeps DEF localVars
<1>5. Grows /\ DataOK'
  BY <1>1, <1>2, <1>4 DEF Grows, TypeOK, DataOK, localVars
<1>6. Counted' /\ AllRecorded'
  BY <1>2, <1>5, RecordsStay DEF localVars
<1> QED BY <1>1, <1>2, <1>4, <1>5, <1>6, FailKeeps
-----------------------------------------------------------------------------
(* The queue. *)

LEMMA BlankIs ==
  ASSUME TreeAssumption
  PROVE  Blank \in Tries
BY DEF TreeAssumption, Blank, Tries, At

(* The types of the publish job. *)
QueueOK ==
  /\ status \in [{Result} -> {"pending", "running", "succeeded", "dead"}]
  /\ attempts \in [{Result} -> 0..MaxAttempts]

(* Between two attempts. *)
LEMMA RestKeeps ==
  ASSUME TreeAssumption, leavePaused' \in BOOLEAN, try' \in [Attempt -> Tries],
         QueueOK', DataOK', World', Counted', AllRecorded', \A a \in Attempt : try'[a] = Blank
  PROVE  Inv'
<1>1. TypeOK'
  BY DEF TypeOK, QueueOK, DataOK, Tries
<1>2. Alone'
  BY DEF Alone, Blank
<1> QED BY <1>1, <1>2, BlankKeeps DEF Inv

LEMMA StartKeeps ==
  ASSUME TreeAssumption, Inv, Start
  PROVE  Inv'
<1>1. TypeOK /\ Alone /\ Counted /\ UNCHANGED <<localVars, metaVars, leavePaused>>
  BY DEF Inv, Start
<1>2. attempts[Result] \in 0..MaxAttempts /\ attempts[Result] < MaxAttempts /\ MaxAttempts \in Nat
  BY <1>1, TreeAssumption DEF TypeOK, Start, TreeAssumption
<1>3. PICK n \in Attempt : n = attempts[Result] + 1
  BY <1>2 DEF Attempt
<1>4. \A a \in Attempt : try[a] = Blank
  BY <1>1 DEF Start, InFlight, Alone
<1>5. /\ status' = [j \in {Result} |-> "running"]
      /\ attempts' = [j \in {Result} |-> attempts[j] + 1]
  BY DEF Start, Queue!Claim
<1>6. QueueOK' /\ attempts'[Result] = n
  BY <1>2, <1>3, <1>5 DEF QueueOK
<1>7. DataOK' /\ World' /\ AllRecorded'
  BY <1>1, WorldStays DEF Inv, TypeOK, DataOK, AllRecorded, localVars, metaVars
<1>8. tries' = tries /\ tries \in Nat /\ n \in Nat /\ tries < n
  BY <1>1, <1>2, <1>3 DEF Counted, TypeOK, localVars
<1>9. Counted'
  BY <1>1, <1>6, <1>8 DEF Counted, localVars, metaVars
<1>10. CASE UNCHANGED try
  BY <1>1, <1>4, <1>6, <1>7, <1>9, <1>10, BlankIs, RestKeeps DEF TypeOK, Tries
<1>11. CASE Go(n, "loading")
  <2>1. To(n, "loading", FALSE, Blank.known, 0, {}, "none")
    <3>1. To(n, "loading", try[n].seen, try[n].known, try[n].hand, try[n].done, try[n].verdict)
      BY <1>1, <1>11, GoesTo DEF At
    <3>2. /\ try[n].seen = FALSE /\ try[n].known = Blank.known /\ try[n].hand = 0
          /\ try[n].done = {} /\ try[n].verdict = "none"
      BY <1>4 DEF Blank
    <3> QED BY <3>1, <3>2
  <2>2. \A p \in Place : Known(n, p)' = 0
    BY <2>1 DEF Known, To, Blank
  <2>3. KnownIsReal(n)'
    BY <2>2 DEF KnownIsReal
  <2>4. Beginning(n)'
    BY <1>6, <1>8, <2>1, <2>2 DEF Beginning, To
  <2>5. Ensuring(n)' /\ Activating(n)' /\ Paused(n)' /\ Ending(n)'
    BY <2>1 DEF Ensuring, Activating, Paused, Ending, To
  <2>6. AttemptInv(n)'
    BY <2>3, <2>4, <2>5 DEF AttemptInv
  <2>7. \A b \in Attempt \ {n} : try'[b] = Blank
    BY <1>4, <2>1 DEF To
  <2>8. TypeOK'
    BY <1>1, <1>6, <1>7, <2>1 DEF TypeOK, QueueOK, DataOK, Tries, To
  <2>9. Alone'
    BY <2>1, <2>7 DEF Alone, Blank, To
  <2>10. \A b \in Attempt : AttemptInv(b)'
    BY <2>6, <2>7, BlankKeeps
  <2> QED BY <1>7, <1>9, <2>8, <2>9, <2>10 DEF Inv
<1> QED BY <1>3, <1>10, <1>11 DEF Start, Go

LEMMA BuryKeeps ==
  ASSUME TreeAssumption, Inv, Bury
  PROVE  Inv'
<1>1. TypeOK /\ Alone /\ UNCHANGED <<tries, row, shown, metaVars, leavePaused, try>> /\ Finalize
  BY DEF Inv, Bury
<1>2. \A a \in Attempt : try'[a] = Blank
  BY <1>1 DEF Bury, InFlight, Alone
<1>3. /\ status' = [j \in {Result} |-> "dead"]
      /\ attempts' = [j \in {Result} |-> attempts[j]]
  BY DEF Bury, Queue!Claim
<1>4. QueueOK' /\ attempts'[Result] = attempts[Result]
  BY <1>1, <1>3 DEF TypeOK, QueueOK
<1>5. DataOK' /\ World' /\ AllRecorded'
  BY <1>1, WorldStays DEF Inv, TypeOK, DataOK, AllRecorded, Finalize, metaVars
<1>6. Counted'
  BY <1>1, <1>4 DEF Inv, Counted, metaVars
<1>7. try' \in [Attempt -> Tries] /\ leavePaused' \in BOOLEAN
  BY <1>1 DEF TypeOK, Tries
<1> QED BY <1>2, <1>4, <1>5, <1>6, <1>7, RestKeeps

(* Nothing is left of an attempt that is over. *)
LEMMA Over ==
  ASSUME TreeAssumption, Inv, NEW a \in Attempt, try[a].at # "none", try' = [try EXCEPT ![a] = Blank]
  PROVE  try' \in [Attempt -> Tries] /\ \A b \in Attempt : try'[b] = Blank
<1>1. try \in [Attempt -> Tries] /\ \A b \in Attempt \ {a} : try[b] = Blank
  BY DEF Inv, Alone, TypeOK, Tries
<1> QED BY <1>1, BlankIs

LEMMA CloseKeeps ==
  ASSUME TreeAssumption, Inv, NEW a \in Attempt, Close(a)
  PROVE  Inv'
<1>1. TypeOK /\ UNCHANGED <<tries, row, shown, metaVars, leavePaused>> /\ try[a].at # "none"
  BY DEF Inv, Close, Waits
<1>2. try' \in [Attempt -> Tries] /\ \A b \in Attempt : try'[b] = Blank
  BY <1>1, Over DEF Close
<1>3. QueueOK' /\ attempts' = attempts
  BY <1>1 DEF Close, Queue!Close, TypeOK, QueueOK
<1>4. result' = result \/ Finalize
  BY DEF Close
<1>5. DataOK' /\ World' /\ AllRecorded'
  BY <1>1, <1>4, WorldStays DEF Inv, TypeOK, DataOK, AllRecorded, Finalize, metaVars
<1>6. Counted' /\ leavePaused' \in BOOLEAN
  BY <1>1, <1>3 DEF Inv, TypeOK, Counted, metaVars
<1> QED BY <1>2, <1>3, <1>5, <1>6, RestKeeps

LEMMA AbandonKeeps ==
  ASSUME TreeAssumption, Inv, NEW a \in Attempt, Abandon(a)
  PROVE  Inv'
<1>1. TypeOK /\ UNCHANGED <<queueVars, localVars, metaVars, leavePaused>> /\ try[a].at # "none"
  BY DEF Inv, Abandon, Queue!Abandon, InFlight, queueVars
<1>2. try' \in [Attempt -> Tries] /\ \A b \in Attempt : try'[b] = Blank
  BY <1>1, Over DEF Abandon
<1>3. QueueOK' /\ leavePaused' \in BOOLEAN
  BY <1>1 DEF TypeOK, QueueOK, queueVars
<1> QED BY <1>1, <1>2, <1>3, NothingMoves, RestKeeps
-----------------------------------------------------------------------------
LEMMA InitInv == TreeAssumption /\ Init => Inv
<1> SUFFICES ASSUME TreeAssumption, Init PROVE Inv
  OBVIOUS
<1>1. \A a \in Attempt : try[a] = Blank
  BY DEF Init
<1>2. 0 \in 0..MaxAttempts
  BY DEF TreeAssumption
<1>3. TypeOK
  BY <1>2, BlankIs DEF Init, TypeOK, Tries
<1>4. Alone
  <2>1. \A a \in Attempt : try[a].at = "none"
    BY <1>1 DEF Blank
  <2> QED BY <1>1, <2>1 DEF Alone
<1>5. World /\ Counted /\ AllRecorded
  BY <1>2 DEF Init, World, Counted, AllRecorded, NoDuplicates, Hangs, RowsAreReal, ActiveIsReal,
              WholeWhenActive
<1>6. \A a \in Attempt : AttemptInv(a)
  BY <1>1 DEF AttemptInv, KnownIsReal, Beginning, Ensuring, Activating, Paused, Ending, Known, Blank
<1> QED BY <1>3, <1>4, <1>5, <1>6 DEF Inv

LEMMA StepInv ==
  ASSUME TreeAssumption, Inv, NEW a \in Attempt, Step(a)
  PROVE  Inv'
BY LoadKeeps, MarkKeeps, UploadKeeps, ListKeeps, FindKeeps, CreateKeepsInv, CheckpointKeeps,
   CalmKeeps, NoteKeeps, ActivateEntityKeeps, RecordKeeps, PauseAfterFailureKeeps, FinishKeeps,
   FinishFailsKeeps, PauseUndurableKeeps
DEF Step

LEMMA NextInv == TreeAssumption /\ Inv /\ [Next]_vars => Inv'
<1> SUFFICES ASSUME TreeAssumption, Inv, [Next]_vars PROVE Inv'
  OBVIOUS
<1>1. CASE Start
  BY <1>1, StartKeeps
<1>2. CASE Bury
  BY <1>2, BuryKeeps
<1>3. ASSUME NEW a \in Attempt, Step(a) PROVE Inv'
  BY <1>3, StepInv
<1>4. ASSUME NEW a \in Attempt, Close(a) PROVE Inv'
  BY <1>4, CloseKeeps
<1>5. ASSUME NEW a \in Attempt, Abandon(a) PROVE Inv'
  BY <1>5, AbandonKeeps
<1>6. CASE UNCHANGED vars
  <2>1. TypeOK' /\ Alone'
    BY <1>6 DEF Inv, TypeOK, Alone, vars
  <2>2. World' /\ Counted' /\ AllRecorded'
    BY <1>6, WorldStays DEF Inv, Counted, AllRecorded, vars
  <2>3. \A a \in Attempt : AttemptInv(a)'
    <3> SUFFICES ASSUME NEW a \in Attempt, AttemptInv(a) PROVE AttemptInv(a)'
      BY DEF Inv
    <3>1. KnownIsReal(a)' /\ Beginning(a)' /\ Ending(a)'
      BY <1>6 DEF AttemptInv, KnownIsReal, Beginning, Ending, Known, Has, vars
    <3>2. Ensuring(a)'
      BY <1>6 DEF AttemptInv, Ensuring, KnowsAll, Known, Has, Any, Turn, vars
    <3>3. Activating(a)'
      BY <1>6 DEF AttemptInv, Activating, Known, Activates, Waiting, vars
    <3>4. Paused(a)'
      BY <1>6 DEF AttemptInv, Paused, CampaignPaused, Known, Waiting, vars
    <3> QED BY <3>1, <3>2, <3>3, <3>4 DEF AttemptInv
  <2> QED BY <2>1, <2>2, <2>3 DEF Inv
<1> QED BY <1>1, <1>2, <1>3, <1>4, <1>5, <1>6 DEF Next
-----------------------------------------------------------------------------
(* In every reachable state the attempt at work knows the tree as far as it has come, what it   *)
(* goes by exists, and the campaign does not spend before everything below it delivers          *)
(* (publishTreeAccountResult in batches_tree.go).                                               *)
THEOREM Invariance == Spec => []Inv
<1>1. Init => Inv
  BY InitInv, TreeAssumption
<1>2. Inv /\ [Next]_vars => Inv'
  BY NextInv, TreeAssumption
<1> QED BY <1>1, <1>2, PTL DEF Spec

(* The variables keep their types, whatever the steps of attempts and queue                     *)
(* (batches_tree.go, batch_repository.go).                                                      *)
THEOREM TypeCorrect == Spec => []TypeOK
<1>1. Inv => TypeOK
  BY DEF Inv
<1> QED BY <1>1, Invariance, PTL

(* No place of the tree is created twice, whatever its shape and however many attempts fail     *)
(* or crash between creating an object and recording it (ensureTreeObject in batches_tree.go).  *)
THEOREM CreatedOnce == Spec => []NoDuplicates
<1>1. Inv => NoDuplicates
  BY DEF Inv, World
<1> QED BY <1>1, Invariance, PTL

(* A campaign is ACTIVE only over its whole tree, every ad set and ad of it ACTIVE and hanging  *)
(* where the plan has it (activateTreeObject: ads, ad sets, campaign).                          *)
THEOREM ActiveIsWhole == Spec => []WholeWhenActive
<1>1. Inv => WholeWhenActive
  BY DEF Inv, World
<1> QED BY <1>1, Invariance, PTL

(* While anything below the campaign is looked for, created or activated, the campaign does     *)
(* not spend (the preflight pause, batches_tree.go:112-113).                                    *)
THEOREM BuiltPaused == Spec => []WorksPaused
<1>1. Inv => WorksPaused
  <2> SUFFICES ASSUME Inv, NEW a \in Attempt,
                      try[a].at \in {"finding", "adopting", "creating", "saving", "activating", "recording"},
                      Waiting(a) # {Campaign}, Known(a, Campaign) # 0
               PROVE  \A o \in remote : o.place = Campaign => ~IsActive(o)
    BY DEF WorksPaused
  <2>1. CampaignPaused
    BY DEF Inv, AttemptInv, Paused
  <2> QED BY <2>1 DEF CampaignPaused, IsActive
<1> QED BY <1>1, Invariance, PTL

(* The rows of a successful result name the whole tree, and each object hangs from the objects  *)
(* the rows name (FinishAccountResult in batch_repository.go).                                  *)
THEOREM SuccessWhole == Spec => []SuccessIsWhole
<1>1. Inv => SuccessIsWhole
  <2> SUFFICES ASSUME Inv, result = "succeeded", NEW p \in Place
               PROVE  \E o \in remote :
                        /\ o.place = p /\ o.by = row[p]
                        /\ p.kind \in {"adset", "ad"} => o.parent = row[Above(p)]
                        /\ p.kind = "ad" => o.content = row[Content(p)]
    BY DEF SuccessIsWhole
  <2>1. \A q \in Place : Has(q, row[q])
    BY DEF Inv, AllRecorded, World, RowsAreReal
  <2>2. PICK o \in remote : o.place = p /\ o.by = row[p]
    BY <2>1 DEF Has
  <2>3. \A q \in Place : \A by : Has(q, by) => by = row[q]
    BY <2>1 DEF Inv, World, NoDuplicates, Has
  <2>4. p.kind \in {"adset", "ad"} => Above(p) \in Place /\ Has(Above(p), o.parent)
    BY <2>2, TreeAssumption, HangsFrom, Kinds DEF Inv, World, Hangs
  <2>5. p.kind = "ad" => Content(p) \in Place /\ Has(Content(p), o.content)
    BY <2>2, TreeAssumption, HangsFrom, Kinds DEF Inv, World, Hangs
  <2> QED BY <2>2, <2>3, <2>4, <2>5
<1> QED BY <1>1, Invariance, PTL
=============================================================================
