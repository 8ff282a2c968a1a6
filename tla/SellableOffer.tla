--------------------------- MODULE SellableOffer ---------------------------
(***************************************************************************)
(* The commerce kernel between the question "can this be sold?" and the    *)
(* Service Request: offers, the capacity holds they place, and the commit  *)
(* that consumes them (src/src/kernel/offer.ts, commit.ts and the kernel   *)
(* half of src/src/core/capacity/capacity.ts).                             *)
(*                                                                         *)
(* All offers here want the same window, so a resource is held by at most  *)
(* one of them.  An offer's capacity is judged free in one statement and   *)
(* taken in later ones of the same transaction; others commit in between,  *)
(* so Evaluate and CreateSellableOffer are two steps.  From its first hold *)
(* on, a transaction waits for whoever it conflicts with (advisory lock,   *)
(* row locks), so taking the holds, and a commit, are one step each.       *)
(* withTransaction commits a refusal like any other result.                *)
(***************************************************************************)
EXTENDS Naturals, Sequences

CONSTANTS
    Offers,          \* the offers that may be made, one per idempotency key
    Resources,       \* exclusive resources: a provider, a room, ...
    ResourceKeys,    \* ResourceKeys[o]: what offer o needs, in lock order
    Supersedes,      \* Supersedes[o]: the offer that o replaces, or None
    None             \* no offer

ASSUME OffersAssumption ==
    /\ None \notin Offers
    /\ ResourceKeys \in [Offers -> Seq(Resources)]
    /\ \A o \in Offers : ResourceKeys[o] # <<>>
    /\ Supersedes \in [Offers -> Offers \union {None}]

VARIABLES
    offer,           \* offer[o]: core_sellable_offer.state of o
    judged,          \* offers found sellable whose row is not yet inserted
    hold,            \* hold[o][r]: core_capacity_hold.state of o's hold on r
    requested,       \* offers with a Service Request created from them
    quoted,          \* offers their customer has been given
    lapsed,          \* offers past expires_at
    overdue,         \* offers whose holds are past their TTL
    drifted          \* offers whose price, service or provider has changed

vars == <<offer, judged, hold, requested, quoted, lapsed, overdue, drifted>>

clock == <<lapsed, overdue, drifted>>

-----------------------------------------------------------------------------
OfferStates == {"NONE", "ACTIVE", "EXPIRED", "INVALIDATED", "SUPERSEDED",
                "COMMITTED"}

HoldStates == {"NONE", "ACTIVE", "CONSUMED", "EXPIRED", "INVALIDATED", "RELEASED"}

BlockingHoldStates == {"ACTIVE", "CONSUMED"}

Needs(o) == {ResourceKeys[o][i] : i \in DOMAIN ResourceKeys[o]}

IsUnsold(book, r) ==                      \* fault: every ACTIVE hold is overdue
    \A q \in Offers : book[q][r] # "CONSUMED"

(* isResourceFree: a hold past its TTL no longer counts.                   *)
IsResourceFree(book, r) ==
    \A q \in Offers :
       /\ book[q][r] # "CONSUMED"
       /\ book[q][r] = "ACTIVE" => q \in overdue

(* invalidateHoldsForOffer ends what is ACTIVE and leaves what was sold.   *)
InvalidateHolds(book, o) ==
    [book EXCEPT ![o] = [r \in Resources |->
        IF book[o][r] = "ACTIVE" THEN "INVALIDATED" ELSE book[o][r]]]

(* The resources placeKernelHold gets for o, one after the other, up to    *)
(* the first that somebody else has.                                       *)
TakenRegardless(book, o) == Needs(o)      \* fault: no exclusion constraint

Taken(book, o) ==
    {ResourceKeys[o][i] : i \in {n \in DOMAIN ResourceKeys[o] :
        \A m \in 1 .. n : IsResourceFree(book, ResourceKeys[o][m])}}

(* On every resource taken, overdue holds are materialized as EXPIRED and  *)
(* o gets its own.                                                         *)
PlaceHolds(book, o) ==
    [q \in Offers |-> [r \in Resources |->
        IF r \notin Taken(book, o) THEN book[q][r]
        ELSE IF q = o THEN "ACTIVE"
        ELSE IF book[q][r] = "ACTIVE" THEN "EXPIRED" ELSE book[q][r]]]

Init ==
    /\ offer = [o \in Offers |-> "NONE"]
    /\ judged = {}
    /\ hold = [o \in Offers |-> [r \in Resources |-> "NONE"]]
    /\ requested = {}
    /\ quoted = {}
    /\ lapsed = {}
    /\ overdue = {}
    /\ drifted = {}

-----------------------------------------------------------------------------
(* evaluateServiceCommerce finds every resource of o free: a predecessor's *)
(* live hold counts like anybody's.  A predecessor is named by the id it   *)
(* got, so it exists; an id nobody got is refused.                         *)
Evaluate(o) ==
    /\ offer[o] = "NONE" /\ o \notin judged
    /\ Supersedes[o] # None => offer[Supersedes[o]] # "NONE"
    /\ \A r \in Needs(o) : IsResourceFree(hold, r)
    /\ judged' = judged \union {o}
    /\ UNCHANGED <<offer, hold, requested, quoted, clock>>

(* The offer's predecessor, if any, is closed whatever state it is in; the *)
(* offer is inserted; its holds are placed.  When a resource is gone the   *)
(* call is refused, with everything written so far left in place.          *)
CreateSellableOffer(o) ==
    /\ o \in judged
    /\ judged' = judged \ {o}
    /\ LET prior == Supersedes[o]
           book == IF prior = None THEN hold ELSE InvalidateHolds(hold, prior)
       IN /\ prior # None =>
                /\ offer[prior] # "NONE"
                /\ \A q \in Offers :                    \* uq_offer_key_version
                      Supersedes[q] = prior => offer[q] = "NONE"
          /\ offer' = [q \in Offers |->
                          IF q = o THEN "ACTIVE"
                          ELSE IF q = prior THEN "SUPERSEDED" ELSE offer[q]]
          /\ hold' = PlaceHolds(book, o)
          /\ quoted' = IF Taken(book, o) = Needs(o)
                       THEN quoted \union {o} ELSE quoted
    /\ UNCHANGED <<requested, clock>>

(* Its transaction is lost, as it is when another offer has superseded its *)
(* predecessor by now (uq_offer_key_version): nothing is written.          *)
LoseCreation(o) ==
    /\ o \in judged
    /\ judged' = judged \ {o}
    /\ UNCHANGED <<offer, hold, requested, quoted, clock>>

(* The same key is sent again: the row that exists is the answer, whatever *)
(* the first call was told.  Once the customer has it, nothing changes.    *)
ReplayCreate(o) ==
    /\ offer[o] # "NONE" /\ o \notin quoted
    /\ quoted' = quoted \union {o}
    /\ UNCHANGED <<offer, judged, hold, requested, clock>>

CommitAnyLiveHold(o) ==                   \* fault: one good hold is enough
    /\ o \in quoted
    /\ offer[o] = "ACTIVE" /\ o \notin lapsed \union overdue \union drifted
    /\ \E r \in Resources : hold[o][r] = "ACTIVE"
    /\ hold' = [hold EXCEPT ![o] = [r \in Resources |->
                   IF hold[o][r] = "ACTIVE" THEN "CONSUMED" ELSE hold[o][r]]]
    /\ requested' = requested \union {o}
    /\ offer' = [offer EXCEPT ![o] = "COMMITTED"]
    /\ UNCHANGED <<judged, quoted, clock>>

(* revalidateOffer, then consumeHold on every hold there is, then the      *)
(* request, then the offer is closed against it.                           *)
CommitOffer(o) ==
    /\ o \in quoted
    /\ offer[o] = "ACTIVE" /\ o \notin lapsed
    /\ \E r \in Resources : hold[o][r] # "NONE"
    /\ \A r \in Resources : hold[o][r] \in {"NONE", "ACTIVE"}
    /\ o \notin overdue \union drifted
    /\ hold' = [hold EXCEPT ![o] = [r \in Resources |->
                   IF hold[o][r] = "ACTIVE" THEN "CONSUMED" ELSE "NONE"]]
    /\ requested' = requested \union {o}
    /\ offer' = [offer EXCEPT ![o] = "COMMITTED"]
    /\ UNCHANGED <<judged, quoted, clock>>

CloseOfferAlone(ended, terminal) ==       \* fault: the holds are forgotten
    /\ offer' = [o \in Offers |-> IF o \in ended THEN terminal ELSE offer[o]]
    /\ UNCHANGED hold

(* closeOffer, for every offer in ended: a hold may not outlive its offer. *)
CloseOffer(ended, terminal) ==
    /\ offer' = [o \in Offers |-> IF o \in ended THEN terminal ELSE offer[o]]
    /\ hold' = [o \in Offers |->
                   IF o \in ended THEN InvalidateHolds(hold, o)[o] ELSE hold[o]]

InvalidateOfferAnyTime(o) ==              \* fault: never asks for its state
    /\ offer[o] # "NONE"
    /\ CloseOffer({o}, "INVALIDATED")
    /\ UNCHANGED <<judged, requested, quoted, clock>>

InvalidateOffer(o) ==
    /\ offer[o] = "ACTIVE"
    /\ CloseOffer({o}, "INVALIDATED")
    /\ UNCHANGED <<judged, requested, quoted, clock>>

ExpireSellableOffers ==
    LET due == {o \in lapsed : offer[o] = "ACTIVE"}
    IN /\ due # {}
       /\ CloseOffer(due, "EXPIRED")
       /\ UNCHANGED <<judged, requested, quoted, clock>>

(* The market-wide sweep over holds; it leaves their offers ACTIVE.        *)
ExpireStaleHolds ==
    /\ \E o \in overdue, r \in Resources : hold[o][r] = "ACTIVE"
    /\ hold' = [o \in Offers |-> [r \in Resources |->
                   IF o \in overdue /\ hold[o][r] = "ACTIVE"
                   THEN "EXPIRED" ELSE hold[o][r]]]
    /\ UNCHANGED <<offer, judged, requested, quoted, clock>>

ReleaseUnplaced(o, r) ==                  \* fault: releases by key, not by row
    /\ hold[o][r] # "CONSUMED"
    /\ hold' = [hold EXCEPT ![o][r] = "RELEASED"]
    /\ UNCHANGED <<offer, judged, requested, quoted, clock>>

ReleaseKernelHold(o, r) ==
    /\ hold[o][r] = "ACTIVE"
    /\ hold' = [hold EXCEPT ![o][r] = "RELEASED"]
    /\ UNCHANGED <<offer, judged, requested, quoted, clock>>

-----------------------------------------------------------------------------
(* Time passes and the catalogue moves on.  Validity and hold TTL are      *)
(* configured apart, and either may run out first.  Each is recorded only  *)
(* while something still reads it; drift is read by a commit alone.        *)

OfferValidityElapses(o) ==
    /\ offer[o] = "ACTIVE" /\ o \notin lapsed
    /\ lapsed' = lapsed \union {o}
    /\ UNCHANGED <<offer, judged, hold, requested, quoted, overdue, drifted>>

HoldTtlElapses(o) ==
    /\ o \notin overdue /\ \E r \in Resources : hold[o][r] = "ACTIVE"
    /\ overdue' = overdue \union {o}
    /\ UNCHANGED <<offer, judged, hold, requested, quoted, lapsed, drifted>>

TermsDrift(o) ==
    /\ o \in quoted /\ offer[o] = "ACTIVE" /\ o \notin drifted
    /\ drifted' = drifted \union {o}
    /\ UNCHANGED <<offer, judged, hold, requested, quoted, lapsed, overdue>>

Next ==
    \/ \E o \in Offers :
          \/ Evaluate(o)
          \/ CreateSellableOffer(o)
          \/ LoseCreation(o)
          \/ ReplayCreate(o)
          \/ CommitOffer(o)
          \/ InvalidateOffer(o)
          \/ \E r \in Resources : ReleaseKernelHold(o, r)
          \/ OfferValidityElapses(o)
          \/ HoldTtlElapses(o)
          \/ TermsDrift(o)
    \/ ExpireSellableOffers
    \/ ExpireStaleHolds

Spec == Init /\ [][Next]_vars

-----------------------------------------------------------------------------
(* Correctness.                                                            *)

(* Every variable keeps its type, and a hold belongs to an offer that      *)
(* exists and needs its resource.                                          *)
TypeOK ==
    /\ offer \in [Offers -> OfferStates]
    /\ judged \subseteq {o \in Offers : offer[o] = "NONE"}
    /\ hold \in [Offers -> [Resources -> HoldStates]]
    /\ requested \subseteq Offers
    /\ quoted \subseteq Offers
    /\ lapsed \subseteq Offers
    /\ overdue \subseteq Offers
    /\ drifted \subseteq Offers
    /\ \A o \in Offers, r \in Resources :
          hold[o][r] # "NONE" => offer[o] # "NONE" /\ r \in Needs(o)

(* No two offers hold one resource for the window, though both were told   *)
(* it was free (commit.ts: no "two commitments against one exclusive       *)
(* capacity").                                                             *)
SlotIsExclusive ==
    \A o, q \in Offers, r \in Resources :
       /\ hold[o][r] \in BlockingHoldStates
       /\ hold[q][r] \in BlockingHoldStates
       => o = q

(* Capacity is consumed for a Service Request and for nothing else, and a  *)
(* request rests on no hold that ended another way (commit.ts: no          *)
(* "consumed capacity with no canonical commitment", no "commit against an *)
(* expired / released / invalidated hold").                                *)
ConsumedForARequest ==
    \A o \in Offers :
       IF o \in requested
       THEN /\ \E r \in Resources : hold[o][r] = "CONSUMED"
            /\ \A r \in Resources : hold[o][r] \in {"NONE", "CONSUMED"}
       ELSE \A r \in Resources : hold[o][r] # "CONSUMED"

(* "A hold may not outlive its governing offer" (capacity.ts): once an     *)
(* offer is closed, none of its holds still blocks without having been     *)
(* sold.                                                                   *)
ClosedOfferHoldsNothing ==
    \A o \in Offers :
       offer[o] # "ACTIVE" => \A r \in Resources : hold[o][r] # "ACTIVE"

(* A sold slot stays sold, whatever becomes of the offer that sold it.     *)
SoldStaysSold ==
    [][\A o \in Offers, r \in Resources :
          hold[o][r] = "CONSUMED" => hold'[o][r] = "CONSUMED"]_vars

(* The holds keep the promise of SlotLedger: who has a resource, which are *)
(* sold, and how either may change (capacity.ts:289-414, 560-587,          *)
(* commit.ts).                                                             *)
Blocks(book, o, r) == book[o][r] \in BlockingHoldStates

HolderOf(book, r) ==
    IF \E o \in Offers : Blocks(book, o, r)
    THEN CHOOSE o \in Offers : Blocks(book, o, r) ELSE None

SoldIn(book) == {r \in Resources : \E o \in Offers : book[o][r] = "CONSUMED"}

Ledger == INSTANCE SlotLedger
    WITH holder <- [r \in Resources |-> HolderOf(hold, r)], sold <- SoldIn(hold)

KeepsSlots == Ledger!Spec

(* commit.ts:15 makes impossible "a Service Request commitment without the *)
(* capacity it needs"; offer.ts:141-142: "Either the offer exists with     *)
(* every hold it needs, or nothing was written".                           *)
CommitmentIsWhole ==
    \A o \in requested : \A r \in Needs(o) : hold[o][r] = "CONSUMED"

(* commit.ts:81: "an already-committed offer returns its one result": a    *)
(* retry finds the offer of a request COMMITTED, whatever expired, was     *)
(* invalidated or swept meanwhile.  One thing alone takes that from it:    *)
(* closeOffer does not ask (offer.ts:239), so an offer that replaces it    *)
(* makes it SUPERSEDED, and the retry is refused.                          *)
CommittedOrReplaced ==
    \A o \in requested :
       \/ offer[o] = "COMMITTED"
       \/ /\ offer[o] = "SUPERSEDED"
          /\ \E q \in Offers : Supersedes[q] = o /\ offer[q] # "NONE"
=============================================================================
