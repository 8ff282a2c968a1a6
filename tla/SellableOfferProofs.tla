------------------------ MODULE SellableOfferProofs ------------------------
(***************************************************************************)
(* Exclusive capacity through offer and commit, for any set of offers, any *)
(* resources and any order in which each offer asks for what it needs.     *)
(* The four invariants are proved together: what may be said of a slot     *)
(* depends on what is known of the offer that holds it.                    *)
(***************************************************************************)
EXTENDS SellableOffer, TLAPS

Books == [Offers -> [Resources -> HoldStates]]

IInv == TypeOK /\ SlotIsExclusive /\ ConsumedForARequest /\ ClosedOfferHoldsNothing

-----------------------------------------------------------------------------
(* What the operations on the book of holds do, entry by entry.            *)

LEMMA InvalidatedBook ==
    ASSUME NEW book \in Books, NEW o \in Offers
    PROVE  /\ InvalidateHolds(book, o) \in Books
           /\ \A q \in Offers, r \in Resources :
                 InvalidateHolds(book, o)[q][r] =
                    IF q = o /\ book[q][r] = "ACTIVE" THEN "INVALIDATED"
                                                      ELSE book[q][r]
BY DEF InvalidateHolds, Books, HoldStates

LEMMA PlacedBook ==
    ASSUME NEW book \in Books, NEW o \in Offers
    PROVE  /\ PlaceHolds(book, o) \in Books
           /\ \A q \in Offers, r \in Resources :
                 PlaceHolds(book, o)[q][r] =
                    IF r \notin Taken(book, o) THEN book[q][r]
                    ELSE IF q = o THEN "ACTIVE"
                    ELSE IF book[q][r] = "ACTIVE" THEN "EXPIRED" ELSE book[q][r]
BY DEF PlaceHolds, Books, HoldStates

(* Whatever is taken was needed, and was free.                             *)
LEMMA TakenIsFree ==
    ASSUME NEW book \in Books, NEW o \in Offers, NEW r \in Taken(book, o)
    PROVE  r \in Needs(o) /\ r \in Resources /\ IsResourceFree(book, r)
<1>1. PICK n \in DOMAIN ResourceKeys[o] :
         /\ r = ResourceKeys[o][n]
         /\ \A m \in 1 .. n : IsResourceFree(book, ResourceKeys[o][m])
  BY DEF Taken
<1>2. ResourceKeys[o] \in Seq(Resources)
  BY OffersAssumption
<1>3. n \in 1 .. n /\ ResourceKeys[o][n] \in Resources
  BY <1>1, <1>2
<1> QED
  BY <1>1, <1>3 DEF Needs

-----------------------------------------------------------------------------
LEMMA Initially == Init => IInv
<1> SUFFICES ASSUME Init PROVE IInv
  OBVIOUS
<1>1. TypeOK
  BY DEF Init, TypeOK, OfferStates, HoldStates
<1>2. SlotIsExclusive /\ ConsumedForARequest /\ ClosedOfferHoldsNothing
  BY DEF Init, SlotIsExclusive, ConsumedForARequest, ClosedOfferHoldsNothing,
         BlockingHoldStates
<1> QED
  BY <1>1, <1>2 DEF IInv

(* A step that only ends ACTIVE holds, of offers that are not sold, keeps  *)
(* every relation between holds, requests and each other.                  *)
LEMMA HoldsOnlyEnd ==
    ASSUME IInv, hold' \in Books, UNCHANGED requested,
           \A q \in Offers, r \in Resources :
              \/ hold'[q][r] = hold[q][r]
              \/ /\ hold[q][r] = "ACTIVE"
                 /\ hold'[q][r] \in {"EXPIRED", "INVALIDATED", "RELEASED"}
    PROVE  SlotIsExclusive' /\ ConsumedForARequest'
<1>1. SlotIsExclusive'
  BY DEF IInv, SlotIsExclusive, BlockingHoldStates
<1>2. ConsumedForARequest'
  BY DEF IInv, ConsumedForARequest
<1> QED
  BY <1>1, <1>2

(* The book of holds once the predecessor of o is closed.                  *)
Before(o) == IF Supersedes[o] = None THEN hold ELSE InvalidateHolds(hold, Supersedes[o])

(* What the making of an offer does to the book, entry by entry.           *)
LEMMA CreateEntries ==
    ASSUME IInv, NEW o \in Offers, CreateSellableOffer(o)
    PROVE  /\ offer[o] = "NONE" /\ o \notin requested
           /\ \A r \in Resources : hold[o][r] = "NONE"
           /\ Supersedes[o] # None =>
                 /\ Supersedes[o] \in Offers /\ Supersedes[o] # o
                 /\ offer[Supersedes[o]] # "NONE"
           /\ \A q \in Offers, r \in Resources :
                 Before(o)[q][r] = IF q = Supersedes[o] /\ hold[q][r] = "ACTIVE"
                                   THEN "INVALIDATED" ELSE hold[q][r]
           /\ \A r \in Taken(Before(o), o) :
                 /\ r \in Needs(o)
                 /\ \A q \in Offers : /\ Before(o)[q][r] # "CONSUMED"
                                      /\ Before(o)[q][r] = "ACTIVE" => q \in overdue
           /\ hold' \in Books
           /\ \A q \in Offers, r \in Resources :
                 hold'[q][r] = IF r \notin Taken(Before(o), o) THEN Before(o)[q][r]
                               ELSE IF q = o THEN "ACTIVE"
                               ELSE IF Before(o)[q][r] = "ACTIVE" THEN "EXPIRED"
                               ELSE Before(o)[q][r]
<1>1. /\ offer[o] = "NONE" /\ o \notin requested
      /\ \A r \in Resources : hold[o][r] = "NONE"
  BY DEF CreateSellableOffer, IInv, TypeOK, ConsumedForARequest
<1>2. Supersedes[o] # None =>
         /\ Supersedes[o] \in Offers /\ Supersedes[o] # o
         /\ offer[Supersedes[o]] # "NONE"
  BY <1>1, OffersAssumption DEF CreateSellableOffer
<1>3. hold \in Books
  BY DEF IInv, TypeOK, Books
<1>4. /\ Before(o) \in Books
      /\ \A q \in Offers, r \in Resources :
            Before(o)[q][r] = IF q = Supersedes[o] /\ hold[q][r] = "ACTIVE"
                              THEN "INVALIDATED" ELSE hold[q][r]
  BY <1>2, <1>3, InvalidatedBook, OffersAssumption DEF Before
<1>5. hold' = PlaceHolds(Before(o), o)
  BY DEF CreateSellableOffer, Before
<1>6. \A r \in Taken(Before(o), o) :
         /\ r \in Needs(o)
         /\ \A q \in Offers : /\ Before(o)[q][r] # "CONSUMED"
                              /\ Before(o)[q][r] = "ACTIVE" => q \in overdue
  BY <1>4, TakenIsFree DEF IsResourceFree
<1> QED
  BY <1>1, <1>2, <1>4, <1>5, <1>6, PlacedBook

LEMMA CreateStep ==
    ASSUME IInv, NEW o \in Offers, CreateSellableOffer(o)
    PROVE  IInv' /\ \A q \in Offers, r \in Resources :
                       hold[q][r] = "CONSUMED" => hold'[q][r] = "CONSUMED"
<1> DEFINE prior == Supersedes[o]
           book == Before(o)
<1>1. /\ offer[o] = "NONE" /\ o \notin requested
      /\ \A r \in Resources : hold[o][r] = "NONE"
  BY CreateEntries
<1>2. prior # None => prior \in Offers /\ prior # o /\ offer[prior] # "NONE"
  BY CreateEntries
<1>4. \A q \in Offers, r \in Resources :
         book[q][r] = IF q = prior /\ hold[q][r] = "ACTIVE"
                      THEN "INVALIDATED" ELSE hold[q][r]
  BY CreateEntries
<1>5. UNCHANGED <<requested, lapsed, overdue, drifted>>
  BY DEF CreateSellableOffer, clock
<1>6. offer' = [q \in Offers |-> IF q = o THEN "ACTIVE"
                                 ELSE IF q = prior THEN "SUPERSEDED" ELSE offer[q]]
  BY DEF CreateSellableOffer
<1>7. judged' = judged \ {o} /\ quoted' \subseteq Offers
  BY DEF CreateSellableOffer, IInv, TypeOK
<1>8. /\ hold' \in Books
      /\ \A q \in Offers, r \in Resources :
            hold'[q][r] = IF r \notin Taken(book, o) THEN book[q][r]
                          ELSE IF q = o THEN "ACTIVE"
                          ELSE IF book[q][r] = "ACTIVE" THEN "EXPIRED"
                          ELSE book[q][r]
  BY CreateEntries
<1>9. \A r \in Taken(book, o) :
         r \in Needs(o) /\ \A q \in Offers : book[q][r] # "CONSUMED"
  BY CreateEntries
<1> HIDE DEF book, prior
<1>10. TypeOK'
  <2>1. offer' \in [Offers -> OfferStates]
    BY <1>6 DEF IInv, TypeOK, OfferStates
  <2>2. judged' \subseteq {q \in Offers : offer'[q] = "NONE"}
    BY <1>2, <1>6, <1>7, OffersAssumption DEF IInv, TypeOK, prior
  <2>3. \A q \in Offers, r \in Resources :
           hold'[q][r] # "NONE" => offer'[q] # "NONE" /\ r \in Needs(q)
    BY <1>4, <1>6, <1>8, <1>9 DEF IInv, TypeOK
  <2> QED
    BY <1>5, <1>7, <1>8, <2>1, <2>2, <2>3 DEF IInv, TypeOK, Books
<1>11. SlotIsExclusive'
  BY <1>1, <1>4, <1>8, <1>9 DEF IInv, SlotIsExclusive, BlockingHoldStates
<1>12. ConsumedForARequest'
  <2>1. ASSUME NEW q \in Offers, q \in requested
        PROVE  /\ \E r \in Resources : hold'[q][r] = "CONSUMED"
               /\ \A r \in Resources : hold'[q][r] \in {"NONE", "CONSUMED"}
    BY <1>1, <1>4, <1>8, <1>9, <2>1 DEF IInv, ConsumedForARequest
  <2>2. ASSUME NEW q \in Offers, q \notin requested
        PROVE  \A r \in Resources : hold'[q][r] # "CONSUMED"
    BY <1>4, <1>8, <2>2 DEF IInv, ConsumedForARequest
  <2> QED
    BY <1>5, <2>1, <2>2 DEF ConsumedForARequest
<1>13. ClosedOfferHoldsNothing'
  BY <1>1, <1>4, <1>6, <1>8 DEF IInv, ClosedOfferHoldsNothing
<1>14. \A q \in Offers, r \in Resources :
          hold[q][r] = "CONSUMED" => hold'[q][r] = "CONSUMED"
  BY <1>1, <1>4, <1>8, <1>9
<1> QED
  BY <1>10, <1>11, <1>12, <1>13, <1>14 DEF IInv

LEMMA CommitStep ==
    ASSUME IInv, NEW o \in Offers, CommitOffer(o)
    PROVE  IInv' /\ \A q \in Offers, r \in Resources :
                       hold[q][r] = "CONSUMED" => hold'[q][r] = "CONSUMED"
<1>1. \A q \in Offers, r \in Resources :
         hold'[q][r] = IF q = o /\ hold[q][r] = "ACTIVE" THEN "CONSUMED"
                                                         ELSE hold[q][r]
  BY DEF CommitOffer, IInv, TypeOK
<1>2. hold' \in Books
  BY DEF CommitOffer, IInv, TypeOK, Books, HoldStates
<1>3. /\ requested' = requested \union {o} /\ o \notin requested
      /\ offer' = [offer EXCEPT ![o] = "COMMITTED"]
      /\ UNCHANGED <<judged, quoted, lapsed, overdue, drifted>>
      /\ offer[o] = "ACTIVE"
      /\ \A r \in Resources : hold[o][r] \in {"NONE", "ACTIVE"}
      /\ \E r \in Resources : hold[o][r] # "NONE"
  BY DEF CommitOffer, clock, IInv, ConsumedForARequest
<1>4. TypeOK'
  BY <1>1, <1>2, <1>3 DEF IInv, TypeOK, OfferStates, Books
<1>5. SlotIsExclusive'
  BY <1>1 DEF IInv, SlotIsExclusive, BlockingHoldStates
<1>6. ConsumedForARequest'
  BY <1>1, <1>3 DEF IInv, ConsumedForARequest
<1>7. ClosedOfferHoldsNothing'
  BY <1>1, <1>3 DEF IInv, TypeOK, ClosedOfferHoldsNothing
<1> QED
  BY <1>1, <1>4, <1>5, <1>6, <1>7 DEF IInv

(* Closing offers that are ACTIVE.                                         *)
LEMMA CloseStep ==
    ASSUME IInv, NEW ended \in SUBSET Offers, \A o \in ended : offer[o] = "ACTIVE",
           NEW terminal \in {"INVALIDATED", "EXPIRED"}, CloseOffer(ended, terminal),
           UNCHANGED <<judged, requested, quoted, clock>>
    PROVE  IInv' /\ \A q \in Offers, r \in Resources :
                       hold[q][r] = "CONSUMED" => hold'[q][r] = "CONSUMED"
<1>1. hold \in Books
  BY DEF IInv, TypeOK, Books
<1>2. \A q \in Offers, r \in Resources :
         hold'[q][r] = IF q \in ended /\ hold[q][r] = "ACTIVE" THEN "INVALIDATED"
                                                               ELSE hold[q][r]
  BY <1>1, InvalidatedBook DEF CloseOffer
<1>3. hold' \in Books
  <2>1. \A o \in Offers : InvalidateHolds(hold, o) \in Books
    BY <1>1, InvalidatedBook
  <2>2. \A o \in Offers : hold[o] \in [Resources -> HoldStates]
    BY <1>1 DEF Books
  <2>3. \A o \in Offers : InvalidateHolds(hold, o)[o] \in [Resources -> HoldStates]
    BY <2>1 DEF Books
  <2>4. hold' = [o \in Offers |->
                   IF o \in ended THEN InvalidateHolds(hold, o)[o] ELSE hold[o]]
    BY DEF CloseOffer
  <2> QED
    BY <2>2, <2>3, <2>4 DEF Books
<1>4. offer' = [o \in Offers |-> IF o \in ended THEN terminal ELSE offer[o]]
  BY DEF CloseOffer
<1>5. TypeOK'
  BY <1>2, <1>3, <1>4 DEF IInv, TypeOK, OfferStates, Books, clock
<1>6. SlotIsExclusive' /\ ConsumedForARequest'
  BY <1>2, <1>3, HoldsOnlyEnd
<1>7. ClosedOfferHoldsNothing'
  BY <1>2, <1>4 DEF IInv, ClosedOfferHoldsNothing
<1> QED
  BY <1>2, <1>5, <1>6, <1>7 DEF IInv

(* A step that ends holds and leaves the offers as they are.               *)
LEMMA EndStep ==
    ASSUME IInv, hold' \in Books, UNCHANGED <<offer, judged, requested>>,
           quoted' \subseteq Offers, lapsed' \subseteq Offers,
           overdue' \subseteq Offers, drifted' \subseteq Offers,
           \A q \in Offers, r \in Resources :
              \/ hold'[q][r] = hold[q][r]
              \/ /\ hold[q][r] = "ACTIVE"
                 /\ hold'[q][r] \in {"EXPIRED", "INVALIDATED", "RELEASED"}
    PROVE  IInv' /\ \A q \in Offers, r \in Resources :
                       hold[q][r] = "CONSUMED" => hold'[q][r] = "CONSUMED"
<1>1. TypeOK'
  BY DEF IInv, TypeOK, Books
<1>2. ClosedOfferHoldsNothing'
  BY DEF IInv, ClosedOfferHoldsNothing
<1> QED
  BY <1>1, <1>2, HoldsOnlyEnd DEF IInv

LEMMA Inductively ==
    IInv /\ [Next]_vars =>
       /\ IInv'
       /\ \A q \in Offers, r \in Resources :
             hold[q][r] = "CONSUMED" => hold'[q][r] = "CONSUMED"
<1> DEFINE Kept == \A q \in Offers, r \in Resources :
                      hold[q][r] = "CONSUMED" => hold'[q][r] = "CONSUMED"
<1> SUFFICES ASSUME IInv, [Next]_vars PROVE IInv' /\ Kept
  OBVIOUS
<1>0. hold \in Books
  BY DEF IInv, TypeOK, Books
<1>1. ASSUME UNCHANGED <<offer, hold, requested>>,
             judged' \subseteq {o \in Offers : offer[o] = "NONE"},
             quoted' \subseteq Offers, lapsed' \subseteq Offers,
             overdue' \subseteq Offers, drifted' \subseteq Offers
      PROVE  IInv' /\ Kept
  BY <1>1 DEF IInv, TypeOK, SlotIsExclusive, ConsumedForARequest,
     ClosedOfferHoldsNothing
<1>2. ASSUME NEW o \in Offers,
             \/ Evaluate(o) \/ LoseCreation(o) \/ ReplayCreate(o)
             \/ OfferValidityElapses(o) \/ HoldTtlElapses(o) \/ TermsDrift(o)
      PROVE  IInv' /\ Kept
  BY <1>1, <1>2
  DEF Evaluate, LoseCreation, ReplayCreate, OfferValidityElapses,
      HoldTtlElapses, TermsDrift, clock, IInv, TypeOK
<1>3. ASSUME NEW o \in Offers, CreateSellableOffer(o) PROVE IInv' /\ Kept
  BY <1>3, CreateStep
<1>4. ASSUME NEW o \in Offers, CommitOffer(o) PROVE IInv' /\ Kept
  BY <1>4, CommitStep
<1>5. ASSUME NEW o \in Offers, InvalidateOffer(o) PROVE IInv' /\ Kept
  BY <1>5, CloseStep DEF InvalidateOffer
<1>6. CASE ExpireSellableOffers
  <2> DEFINE due == {o \in lapsed : offer[o] = "ACTIVE"}
  <2>1. due \in SUBSET Offers /\ \A o \in due : offer[o] = "ACTIVE"
    BY DEF IInv, TypeOK
  <2>2. CloseOffer(due, "EXPIRED") /\ UNCHANGED <<judged, requested, quoted, clock>>
    BY <1>6 DEF ExpireSellableOffers
  <2> HIDE DEF due
  <2> QED
    BY <2>1, <2>2, CloseStep
<1>7. CASE ExpireStaleHolds
  <2>1. hold' \in Books
    BY <1>0, <1>7 DEF ExpireStaleHolds, Books, HoldStates
  <2>2. \A q \in Offers, r \in Resources :
           \/ hold'[q][r] = hold[q][r]
           \/ hold[q][r] = "ACTIVE" /\ hold'[q][r] = "EXPIRED"
    BY <1>7 DEF ExpireStaleHolds
  <2> QED
    BY <1>7, <2>1, <2>2, EndStep DEF ExpireStaleHolds, clock, IInv, TypeOK
<1>8. ASSUME NEW o \in Offers, NEW s \in Resources, ReleaseKernelHold(o, s)
      PROVE  IInv' /\ Kept
  <2>1. hold' \in Books
    BY <1>0, <1>8 DEF ReleaseKernelHold, Books, HoldStates
  <2>2. \A q \in Offers, r \in Resources :
           \/ hold'[q][r] = hold[q][r]
           \/ hold[q][r] = "ACTIVE" /\ hold'[q][r] = "RELEASED"
    BY <1>0, <1>8 DEF ReleaseKernelHold, Books
  <2> QED
    BY <1>8, <2>1, <2>2, EndStep DEF ReleaseKernelHold, clock, IInv, TypeOK
<1>9. CASE UNCHANGED vars
  BY <1>1, <1>9 DEF vars, IInv, TypeOK
<1> QED
  BY <1>2, <1>3, <1>4, <1>5, <1>6, <1>7, <1>8, <1>9 DEF Next

-----------------------------------------------------------------------------
LEMMA Invariance == Spec => []IInv
<1> QED
  BY Initially, Inductively, PTL DEF Spec

(* Every variable keeps its type, and holds belong to offers that exist.   *)
THEOREM TypeCorrect == Spec => []TypeOK
<1>1. IInv => TypeOK
  BY DEF IInv
<1> QED
  BY <1>1, Invariance, PTL

(* No two offers ever hold one exclusive resource for the window.          *)
THEOREM SlotAlwaysExclusive == Spec => []SlotIsExclusive
<1>1. IInv => SlotIsExclusive
  BY DEF IInv
<1> QED
  BY <1>1, Invariance, PTL

(* Capacity is consumed for a Service Request and for nothing else.        *)
THEOREM AlwaysConsumedForARequest == Spec => []ConsumedForARequest
<1>1. IInv => ConsumedForARequest
  BY DEF IInv
<1> QED
  BY <1>1, Invariance, PTL

(* A hold never outlives the offer that governs it.                        *)
THEOREM ClosedOfferNeverHolds == Spec => []ClosedOfferHoldsNothing
<1>1. IInv => ClosedOfferHoldsNothing
  BY DEF IInv
<1> QED
  BY <1>1, Invariance, PTL

(* What was sold is never taken back, whatever becomes of its offer.       *)
THEOREM SoldIsKept == Spec => SoldStaysSold
<1>1. IInv /\ [Next]_vars =>
         [\A o \in Offers, r \in Resources :
             hold[o][r] = "CONSUMED" => hold'[o][r] = "CONSUMED"]_vars
  BY Inductively
<1> QED
  BY <1>1, Invariance, PTL DEF Spec, SoldStaysSold

-----------------------------------------------------------------------------
(* The holds implement SlotLedger.                                         *)

(* At most one offer blocks each resource.                                 *)
Exclusive(book) ==
    \A o, q \in Offers, r \in Resources :
       Blocks(book, o, r) /\ Blocks(book, q, r) => o = q

Holder == [r \in Resources |-> HolderOf(hold, r)]

(* The holder of a resource is the offer that blocks it.                   *)
LEMMA HolderBlocks ==
    ASSUME NEW book, Exclusive(book), NEW r \in Resources
    PROVE  /\ HolderOf(book, r) \in Offers \union {None}
           /\ \A o \in Offers : Blocks(book, o, r) <=> HolderOf(book, r) = o
           /\ HolderOf(book, r) = None <=> \A o \in Offers : ~Blocks(book, o, r)
<1>1. CASE \E o \in Offers : Blocks(book, o, r)
  <2>1. HolderOf(book, r) = CHOOSE o \in Offers : Blocks(book, o, r)
    BY <1>1 DEF HolderOf
  <2>2. HolderOf(book, r) \in Offers /\ Blocks(book, HolderOf(book, r), r)
    BY <1>1, <2>1
  <2> QED
    BY <2>2, OffersAssumption DEF Exclusive
<1>2. CASE ~\E o \in Offers : Blocks(book, o, r)
  BY <1>2, OffersAssumption DEF HolderOf
<1> QED
  BY <1>1, <1>2

LEMMA BothExclusive ==
    ASSUME IInv, IInv'
    PROVE  Exclusive(hold) /\ Exclusive(hold')
BY DEF IInv, SlotIsExclusive, Exclusive, Blocks

(* Who blocks what decides what the ledger shows.                          *)
LEMMA SameLedger ==
    ASSUME IInv, IInv',
           \A q \in Offers, r \in Resources : Blocks(hold', q, r) <=> Blocks(hold, q, r)
    PROVE  Holder' = Holder
<1>1. ASSUME NEW r \in Resources PROVE HolderOf(hold', r) = HolderOf(hold, r)
  BY BothExclusive, HolderBlocks
<1> QED
  BY <1>1 DEF Holder

LEMMA HoldersTyped ==
    ASSUME IInv, IInv'
    PROVE  Holder' \in [Resources -> Offers \union {None}]
<1>1. \A r \in Resources : HolderOf(hold', r) \in Offers \union {None}
  BY BothExclusive, HolderBlocks
<1> QED
  BY <1>1 DEF Holder

LEMMA LedgerKept ==
    ASSUME IInv, IInv', UNCHANGED <<hold, overdue>>
    PROVE  UNCHANGED Ledger!vars
BY DEF Ledger!vars, HolderOf, Blocks, SoldIn

(* Holds that end without a sale are given up.                             *)
LEMMA EndingGivesUp ==
    ASSUME IInv, IInv', UNCHANGED overdue,
           \A q \in Offers, r \in Resources :
              \/ hold'[q][r] = hold[q][r]
              \/ /\ hold[q][r] = "ACTIVE"
                 /\ hold'[q][r] \in {"EXPIRED", "INVALIDATED", "RELEASED"}
    PROVE  Ledger!GiveUp
<1>1. SoldIn(hold') = SoldIn(hold)
  BY DEF SoldIn
<1>2. ASSUME NEW r \in Resources, HolderOf(hold', r) # HolderOf(hold, r)
      PROVE  HolderOf(hold', r) = None /\ r \notin SoldIn(hold)
  <2>1. \A q \in Offers : Blocks(hold', q, r) => Blocks(hold, q, r)
    BY DEF Blocks, BlockingHoldStates
  <2>2. HolderOf(hold', r) = None
    BY <1>2, <2>1, BothExclusive, HolderBlocks
  <2>3. \A q \in Offers : ~Blocks(hold', q, r)
    BY <2>2, BothExclusive, HolderBlocks
  <2>4. \A q \in Offers : hold[q][r] # "CONSUMED"
    BY <2>3 DEF Blocks, BlockingHoldStates
  <2> QED
    BY <2>2, <2>4 DEF SoldIn
<1>3. Holder' \in [Resources -> Offers \union {None}]
  BY HoldersTyped
<1> QED
  BY <1>1, <1>2, <1>3 DEF Ledger!GiveUp, Ledger!Changes, Holder

(* An offer that was found sellable competes with nothing live of its      *)
(* predecessor's: nothing of it was, and no hold comes back to life.       *)
PredecessorGivesWay ==
    \A o \in judged : Supersedes[o] # None =>
       /\ offer[Supersedes[o]] # "NONE"
       /\ \A r \in Needs(o) :
             /\ hold[Supersedes[o]][r] # "CONSUMED"
             /\ hold[Supersedes[o]][r] = "ACTIVE" => Supersedes[o] \in overdue

(* The offer that is made takes what was free or lapsed; what its          *)
(* predecessor sold stays sold.                                            *)
LEMMA CreateTakes ==
    ASSUME IInv, IInv', PredecessorGivesWay, NEW o \in Offers, CreateSellableOffer(o)
    PROVE  Ledger!Take(o)
<1> DEFINE prior == Supersedes[o]
           taken == Taken(Before(o), o)
<1>1. \A r \in Resources : hold[o][r] = "NONE"
  BY CreateEntries
<1>2. prior # None => prior \in Offers /\ prior # o
  BY CreateEntries
<1>3. ASSUME NEW q \in Offers, NEW r \in Resources, r \in taken
      PROVE  /\ hold[q][r] # "CONSUMED"
             /\ hold[q][r] = "ACTIVE" => q \in overdue
             /\ hold'[q][r] # "CONSUMED"
  <2>1. /\ hold[q][r] # "CONSUMED" /\ hold'[q][r] # "CONSUMED"
        /\ hold[q][r] = "ACTIVE" => q = prior \/ q \in overdue
    BY <1>3, CreateEntries
  <2>2. o \in judged /\ r \in Needs(o)
    BY <1>3, CreateEntries DEF CreateSellableOffer
  <2>3. q = prior => prior # None
    BY OffersAssumption
  <2> QED
    BY <2>1, <2>2, <2>3 DEF PredecessorGivesWay
<1>4. ASSUME NEW r \in Resources, r \in taken
      PROVE  hold'[o][r] = "ACTIVE"
  BY <1>4, CreateEntries
<1>5. ASSUME NEW q \in Offers, NEW r \in Resources, r \notin taken
      PROVE  hold'[q][r] = IF q = prior /\ hold[q][r] = "ACTIVE"
                           THEN "INVALIDATED" ELSE hold[q][r]
  BY <1>5, CreateEntries
<1> HIDE DEF prior, taken
<1>6. SoldIn(hold') = SoldIn(hold)
  BY <1>3, <1>5 DEF SoldIn
<1>7. Ledger!Held(o) = {}
  <2>1. ASSUME NEW r \in Resources PROVE HolderOf(hold, r) # o
    BY <1>1, BothExclusive, HolderBlocks DEF Blocks, BlockingHoldStates
  <2> QED
    BY <2>1 DEF Ledger!Held
<1>8. ASSUME NEW r \in Resources
      PROVE  \/ /\ HolderOf(hold', r) = o /\ r \notin SoldIn(hold)
                /\ HolderOf(hold, r) \in {None} \union overdue
             \/ /\ HolderOf(hold', r) = HolderOf(hold, r)
                /\ HolderOf(hold, r) = prior => r \in SoldIn(hold)
             \/ /\ HolderOf(hold', r) = None /\ HolderOf(hold, r) = prior
                /\ r \notin SoldIn(hold)
  <2>1. CASE r \in taken
    <3>1. Blocks(hold', o, r)
      BY <1>4, <2>1 DEF Blocks, BlockingHoldStates
    <3>2. HolderOf(hold', r) = o
      BY <3>1, BothExclusive, HolderBlocks
    <3>3. r \notin SoldIn(hold)
      BY <1>3, <2>1 DEF SoldIn
    <3>4. \A q \in Offers : Blocks(hold, q, r) => q \in overdue
      BY <1>3, <2>1 DEF Blocks, BlockingHoldStates
    <3>5. HolderOf(hold, r) \in {None} \union overdue
      BY <3>4, BothExclusive, HolderBlocks
    <3> QED
      BY <3>2, <3>3, <3>5
  <2>2. CASE r \notin taken /\ prior \in Offers /\ hold[prior][r] = "ACTIVE"
    <3>1. Blocks(hold, prior, r) /\ ~Blocks(hold', prior, r)
      BY <1>5, <2>2 DEF Blocks, BlockingHoldStates
    <3>2. \A q \in Offers : q # prior => (Blocks(hold', q, r) <=> Blocks(hold, q, r))
      BY <1>5, <2>2 DEF Blocks
    <3>3. HolderOf(hold, r) = prior
      BY <3>1, <2>2, BothExclusive, HolderBlocks
    <3>4. \A q \in Offers : ~Blocks(hold', q, r)
      BY <2>2, <3>1, <3>2, BothExclusive DEF Exclusive
    <3>5. HolderOf(hold', r) = None
      BY <3>4, BothExclusive, HolderBlocks
    <3>6. r \notin SoldIn(hold)
      <4>1. ASSUME NEW q \in Offers, hold[q][r] = "CONSUMED" PROVE FALSE
        <5>1. Blocks(hold, q, r)
          BY <4>1 DEF Blocks, BlockingHoldStates
        <5>2. q = prior
          BY <3>1, <5>1, <2>2, BothExclusive DEF Exclusive
        <5> QED
          BY <2>2, <4>1, <5>2
      <4> QED
        BY <4>1 DEF SoldIn
    <3> QED
      BY <3>3, <3>5, <3>6
  <2>3. CASE r \notin taken /\ ~(prior \in Offers /\ hold[prior][r] = "ACTIVE")
    <3>1. \A q \in Offers : hold'[q][r] = hold[q][r]
      BY <1>5, <2>3
    <3>2. \A q \in Offers : Blocks(hold', q, r) <=> Blocks(hold, q, r)
      BY <3>1 DEF Blocks
    <3>3. HolderOf(hold', r) = HolderOf(hold, r)
      BY <3>2, BothExclusive, HolderBlocks
    <3>4. CASE HolderOf(hold, r) # prior \/ r \in SoldIn(hold)
      BY <3>3, <3>4
    <3>5. CASE HolderOf(hold, r) = prior /\ r \notin SoldIn(hold)
      <4>1. CASE prior \in Offers
        <5>1. Blocks(hold, prior, r)
          BY <3>5, <4>1, BothExclusive, HolderBlocks
        <5>2. hold[prior][r] = "CONSUMED"
          BY <5>1, <4>1, <2>3 DEF Blocks, BlockingHoldStates
        <5> QED
          BY <3>5, <4>1, <5>2 DEF SoldIn
      <4>2. CASE prior \notin Offers
        BY <1>2, <3>3, <3>5, <4>2
      <4> QED
        BY <4>1, <4>2
    <3> QED
      BY <3>4, <3>5
  <2> QED
    BY <2>1, <2>2, <2>3
<1>9. Holder' \in [Resources -> Offers \union {None}] /\ UNCHANGED overdue
  BY HoldersTyped DEF CreateSellableOffer, clock
<1> QED
  BY <1>6, <1>7, <1>8, <1>9
  DEF Ledger!Take, Ledger!Changes, Ledger!MayTake, Holder, prior

(* A commit sells all its offer holds, none of which was sold.             *)
LEMMA CommitSells ==
    ASSUME IInv, IInv', NEW o \in Offers, CommitOffer(o)
    PROVE  Ledger!Sell(o)
<1>1. \A q \in Offers, r \in Resources :
         hold'[q][r] = IF q = o /\ hold[q][r] = "ACTIVE" THEN "CONSUMED"
                                                         ELSE hold[q][r]
  BY DEF CommitOffer, IInv, TypeOK
<1>2. /\ \A r \in Resources : hold[o][r] \in {"NONE", "ACTIVE"}
      /\ \E r \in Resources : hold[o][r] = "ACTIVE"
      /\ o \notin overdue /\ UNCHANGED overdue
  BY DEF CommitOffer, clock
<1>3. Holder' = Holder
  BY <1>1, SameLedger DEF Blocks, BlockingHoldStates
<1>4. ASSUME NEW r \in Resources
      PROVE  HolderOf(hold, r) = o <=> hold[o][r] = "ACTIVE"
  BY <1>2, BothExclusive, HolderBlocks DEF Blocks, BlockingHoldStates
<1>5. ASSUME NEW r \in Resources, hold[o][r] = "ACTIVE"
      PROVE  r \notin SoldIn(hold)
  <2>1. ASSUME NEW q \in Offers, hold[q][r] = "CONSUMED" PROVE FALSE
    <3>1. Blocks(hold, q, r) /\ Blocks(hold, o, r)
      BY <1>5, <2>1 DEF Blocks, BlockingHoldStates
    <3>2. q = o
      BY <3>1, BothExclusive DEF Exclusive
    <3> QED
      BY <1>5, <2>1, <3>2
  <2> QED
    BY <2>1 DEF SoldIn
<1>6. SoldIn(hold') = SoldIn(hold) \union {r \in Resources : HolderOf(hold, r) = o}
  BY <1>1, <1>4 DEF SoldIn
<1> QED
  BY <1>2, <1>3, <1>4, <1>5, <1>6 DEF Ledger!Sell, Ledger!Held, Holder

(* An offer lapses with resources it holds and has not sold.               *)
LEMMA TtlLapses ==
    ASSUME IInv, IInv', NEW o \in Offers, HoldTtlElapses(o)
    PROVE  Ledger!Lapse(o)
<1>1. PICK r \in Resources : hold[o][r] = "ACTIVE"
  BY DEF HoldTtlElapses
<1>2. Blocks(hold, o, r)
  BY <1>1 DEF Blocks, BlockingHoldStates
<1>3. HolderOf(hold, r) = o
  BY <1>2, BothExclusive, HolderBlocks
<1>4. r \notin SoldIn(hold)
  <2>1. ASSUME NEW q \in Offers, hold[q][r] = "CONSUMED" PROVE FALSE
    <3>1. Blocks(hold, q, r)
      BY <2>1 DEF Blocks, BlockingHoldStates
    <3>2. q = o
      BY <1>2, <3>1, BothExclusive DEF Exclusive
    <3> QED
      BY <1>1, <2>1, <3>2
  <2> QED
    BY <2>1 DEF SoldIn
<1>5. UNCHANGED hold /\ overdue' = overdue \union {o}
  BY DEF HoldTtlElapses
<1>6. Holder' = Holder /\ SoldIn(hold') = SoldIn(hold)
  BY <1>5, SameLedger DEF SoldIn
<1> QED
  BY <1>3, <1>4, <1>5, <1>6 DEF Ledger!Lapse, Ledger!Held, Holder

(* Whatever leaves offers in being, and holds as they are or ended, keeps  *)
(* a predecessor out of the way.                                           *)
LEMMA GivesWayStill ==
    ASSUME IInv, PredecessorGivesWay, judged' \subseteq judged, overdue \subseteq overdue',
           \A p \in Offers : offer[p] # "NONE" =>
              /\ offer'[p] # "NONE"
              /\ \A r \in Resources :
                    \/ hold'[p][r] = hold[p][r]
                    \/ hold'[p][r] \notin BlockingHoldStates
                    \/ hold[p][r] = "ACTIVE" /\ p \notin overdue
    PROVE  PredecessorGivesWay'
<1> SUFFICES ASSUME NEW o \in judged', Supersedes[o] # None
             PROVE  /\ offer'[Supersedes[o]] # "NONE"
                    /\ \A r \in Needs(o) :
                          /\ hold'[Supersedes[o]][r] # "CONSUMED"
                          /\ hold'[Supersedes[o]][r] = "ACTIVE"
                                => Supersedes[o] \in overdue'
  BY DEF PredecessorGivesWay, Needs
<1>1. o \in judged
  OBVIOUS
<1>2. /\ offer[Supersedes[o]] # "NONE"
      /\ \A r \in Needs(o) :
            /\ hold[Supersedes[o]][r] # "CONSUMED"
            /\ hold[Supersedes[o]][r] = "ACTIVE" => Supersedes[o] \in overdue
  BY <1>1 DEF PredecessorGivesWay
<1>3. o \in Offers /\ Supersedes[o] \in Offers /\ Needs(o) \subseteq Resources
  <2>1. o \in Offers
    BY <1>1 DEF IInv, TypeOK
  <2> QED
    BY <2>1, OffersAssumption DEF Needs
<1>4. offer'[Supersedes[o]] # "NONE"
  BY <1>2, <1>3
<1>5. ASSUME NEW r \in Needs(o)
      PROVE  /\ hold'[Supersedes[o]][r] # "CONSUMED"
             /\ hold'[Supersedes[o]][r] = "ACTIVE" => Supersedes[o] \in overdue'
  BY <1>2, <1>3, <1>5 DEF BlockingHoldStates
<1> QED
  BY <1>4, <1>5

LEMMA PredecessorStep ==
    IInv /\ PredecessorGivesWay /\ [Next]_vars => PredecessorGivesWay'
<1> SUFFICES ASSUME IInv, PredecessorGivesWay, [Next]_vars
             PROVE  PredecessorGivesWay'
  OBVIOUS
<1>0. hold \in Books
  BY DEF IInv, TypeOK, Books
<1>1. ASSUME NEW o \in Offers, Evaluate(o) PROVE PredecessorGivesWay'
  BY <1>1, OffersAssumption
  DEF Evaluate, PredecessorGivesWay, IsResourceFree, Needs, clock
<1>2. ASSUME NEW o \in Offers, CreateSellableOffer(o) PROVE PredecessorGivesWay'
  <2>1. /\ judged' \subseteq judged /\ UNCHANGED overdue /\ offer[o] = "NONE"
        /\ \A p \in Offers : offer[p] # "NONE" => offer'[p] # "NONE"
    BY <1>2, CreateEntries DEF CreateSellableOffer, clock
  <2>2. ASSUME NEW p \in Offers, offer[p] # "NONE", NEW r \in Resources
        PROVE  \/ hold'[p][r] = hold[p][r]
               \/ hold'[p][r] \notin BlockingHoldStates
    BY <1>2, <2>1, <2>2, CreateEntries DEF BlockingHoldStates
  <2> QED
    BY <2>1, <2>2, GivesWayStill
<1>3. ASSUME NEW o \in Offers,
             \/ LoseCreation(o) \/ ReplayCreate(o) \/ OfferValidityElapses(o)
             \/ HoldTtlElapses(o) \/ TermsDrift(o)
      PROVE  PredecessorGivesWay'
  BY <1>3, GivesWayStill
  DEF LoseCreation, ReplayCreate, OfferValidityElapses, HoldTtlElapses, TermsDrift, clock
<1>4. ASSUME NEW o \in Offers, CommitOffer(o) PROVE PredecessorGivesWay'
  <2>1. \A p \in Offers, r \in Resources :
           hold'[p][r] = IF p = o /\ hold[p][r] = "ACTIVE" THEN "CONSUMED"
                                                           ELSE hold[p][r]
    BY <1>4 DEF CommitOffer, IInv, TypeOK
  <2>2. /\ o \notin overdue /\ UNCHANGED <<judged, overdue>>
        /\ offer' = [offer EXCEPT ![o] = "COMMITTED"]
    BY <1>4 DEF CommitOffer, clock
  <2>3. \A p \in Offers : offer[p] # "NONE" => offer'[p] # "NONE"
    BY <2>2 DEF IInv, TypeOK
  <2> QED
    BY <2>1, <2>2, <2>3, GivesWayStill
<1>5. ASSUME NEW ended \in SUBSET Offers,
             NEW terminal \in {"INVALIDATED", "EXPIRED"}, CloseOffer(ended, terminal),
             UNCHANGED <<judged, overdue>>
      PROVE  PredecessorGivesWay'
  <2>1. \A p \in Offers, r \in Resources :
           hold'[p][r] = IF p \in ended /\ hold[p][r] = "ACTIVE" THEN "INVALIDATED"
                                                                 ELSE hold[p][r]
    BY <1>0, <1>5, InvalidatedBook DEF CloseOffer
  <2>2. \A p \in Offers : offer[p] # "NONE" => offer'[p] # "NONE"
    BY <1>5 DEF CloseOffer
  <2> QED
    BY <1>5, <2>1, <2>2, GivesWayStill DEF BlockingHoldStates
<1>6. ASSUME NEW o \in Offers, InvalidateOffer(o) PROVE PredecessorGivesWay'
  BY <1>5, <1>6 DEF InvalidateOffer, clock
<1>7. CASE ExpireSellableOffers
  <2> DEFINE due == {o \in lapsed : offer[o] = "ACTIVE"}
  <2>1. due \in SUBSET Offers
    BY DEF IInv, TypeOK
  <2>2. CloseOffer(due, "EXPIRED") /\ UNCHANGED <<judged, overdue>>
    BY <1>7 DEF ExpireSellableOffers, clock
  <2> HIDE DEF due
  <2> QED
    BY <1>5, <2>1, <2>2
<1>8. CASE ExpireStaleHolds
  BY <1>8, GivesWayStill DEF ExpireStaleHolds, BlockingHoldStates, clock
<1>9. ASSUME NEW o \in Offers, NEW s \in Resources, ReleaseKernelHold(o, s)
      PROVE  PredecessorGivesWay'
  BY <1>0, <1>9, GivesWayStill DEF ReleaseKernelHold, BlockingHoldStates, Books, clock
<1>10. CASE UNCHANGED vars
  BY <1>10, GivesWayStill DEF vars
<1> QED
  BY <1>1, <1>2, <1>3, <1>4, <1>6, <1>7, <1>8, <1>9, <1>10 DEF Next

LEMMA StepKeepsSlots ==
    ASSUME IInv, PredecessorGivesWay, [Next]_vars
    PROVE  [Ledger!Next]_(Ledger!vars)
<1>0. IInv' /\ hold \in Books
  BY Inductively DEF IInv, TypeOK, Books
<1>1. ASSUME UNCHANGED <<hold, overdue>> PROVE UNCHANGED Ledger!vars
  BY <1>0, <1>1, LedgerKept
<1>2. ASSUME NEW o \in Offers,
             \/ Evaluate(o) \/ LoseCreation(o) \/ ReplayCreate(o)
             \/ OfferValidityElapses(o) \/ TermsDrift(o)
      PROVE  UNCHANGED Ledger!vars
  BY <1>1, <1>2
  DEF Evaluate, LoseCreation, ReplayCreate, OfferValidityElapses, TermsDrift, clock
<1>3. ASSUME NEW o \in Offers, CreateSellableOffer(o) PROVE Ledger!Take(o)
  BY <1>0, <1>3, CreateTakes
<1>4. ASSUME NEW o \in Offers, CommitOffer(o) PROVE Ledger!Sell(o)
  BY <1>0, <1>4, CommitSells
<1>5. ASSUME NEW o \in Offers, HoldTtlElapses(o) PROVE Ledger!Lapse(o)
  BY <1>0, <1>5, TtlLapses
<1>6. ASSUME NEW ended \in SUBSET Offers, NEW terminal, CloseOffer(ended, terminal),
             UNCHANGED overdue
      PROVE  Ledger!GiveUp
  <2>1. \A q \in Offers, r \in Resources :
           hold'[q][r] = IF q \in ended /\ hold[q][r] = "ACTIVE" THEN "INVALIDATED"
                                                                 ELSE hold[q][r]
    BY <1>0, <1>6, InvalidatedBook DEF CloseOffer
  <2> QED
    BY <1>0, <1>6, <2>1, EndingGivesUp
<1>7. ASSUME NEW o \in Offers, InvalidateOffer(o) PROVE Ledger!GiveUp
  BY <1>6, <1>7 DEF InvalidateOffer, clock
<1>8. CASE ExpireSellableOffers
  <2> DEFINE due == {o \in lapsed : offer[o] = "ACTIVE"}
  <2>1. due \in SUBSET Offers
    BY DEF IInv, TypeOK
  <2>2. CloseOffer(due, "EXPIRED") /\ UNCHANGED overdue
    BY <1>8 DEF ExpireSellableOffers, clock
  <2> HIDE DEF due
  <2>3. Ledger!GiveUp
    BY <1>6, <2>1, <2>2
  <2> QED
    BY <2>3 DEF Ledger!Next
<1>9. CASE ExpireStaleHolds
  <2>1. \A q \in Offers, r \in Resources :
           \/ hold'[q][r] = hold[q][r]
           \/ hold[q][r] = "ACTIVE" /\ hold'[q][r] = "EXPIRED"
    BY <1>9 DEF ExpireStaleHolds
  <2>2. Ledger!GiveUp
    BY <1>0, <1>9, <2>1, EndingGivesUp DEF ExpireStaleHolds, clock
  <2> QED
    BY <2>2 DEF Ledger!Next
<1>10. ASSUME NEW o \in Offers, NEW s \in Resources, ReleaseKernelHold(o, s)
       PROVE  Ledger!GiveUp
  <2>1. \A q \in Offers, r \in Resources :
           \/ hold'[q][r] = hold[q][r]
           \/ hold[q][r] = "ACTIVE" /\ hold'[q][r] = "RELEASED"
    BY <1>0, <1>10 DEF ReleaseKernelHold, Books
  <2> QED
    BY <1>0, <1>10, <2>1, EndingGivesUp DEF ReleaseKernelHold, clock
<1>11. CASE UNCHANGED vars
  BY <1>1, <1>11 DEF vars
<1> QED
  BY <1>2, <1>3, <1>4, <1>5, <1>7, <1>8, <1>9, <1>10, <1>11 DEF Next, Ledger!Next

(* The holds of the kernel keep the promise of SlotLedger: for any offers, *)
(* resources and lock orders, a live hold is never lost to another offer,  *)
(* a commit sells all its offer holds in one step, and what is sold keeps  *)
(* its holder for good.                                                    *)
THEOREM HoldsKeepSlots == Spec => KeepsSlots
<1>1. Init => Ledger!Init
  <2> SUFFICES ASSUME Init PROVE Ledger!Init
    OBVIOUS
  <2>1. \A r \in Resources : HolderOf(hold, r) = None
    BY DEF Init, HolderOf, Blocks, BlockingHoldStates
  <2>2. SoldIn(hold) = {} /\ overdue = {}
    BY DEF Init, SoldIn
  <2> QED
    BY <2>1, <2>2 DEF Ledger!Init
<1>2. IInv /\ PredecessorGivesWay /\ [Next]_vars => [Ledger!Next]_(Ledger!vars)
  BY StepKeepsSlots
<1>3. Init => PredecessorGivesWay
  BY DEF Init, PredecessorGivesWay
<1> QED
  BY <1>1, <1>2, <1>3, PredecessorStep, Invariance, PTL DEF Spec, KeepsSlots, Ledger!Spec

-----------------------------------------------------------------------------
(* How far the two faults of the commit go.                                *)

(* Sets of places in the lock order of o that leave out none before.       *)
Prefixes(o) ==
    {places \in SUBSET DOMAIN ResourceKeys[o] :
        \A j \in places : \A i \in DOMAIN ResourceKeys[o] : i <= j => i \in places}

At(o, places) == {ResourceKeys[o][i] : i \in places}

Placed(o, places) == \A r \in Resources : hold[o][r] # "NONE" <=> r \in At(o, places)

(* The holds of an offer were placed in lock order, up to some place.      *)
PlacedInOrder == \A o \in Offers : \E places \in Prefixes(o) : Placed(o, places)

LEMMA ReplacedStep ==
    IInv /\ CommittedOrReplaced /\ [Next]_vars => CommittedOrReplaced'
<1> SUFFICES ASSUME IInv, CommittedOrReplaced, [Next]_vars
             PROVE  CommittedOrReplaced'
  OBVIOUS
<1>1. ASSUME UNCHANGED <<offer, requested>> PROVE CommittedOrReplaced'
  BY <1>1 DEF CommittedOrReplaced
<1>2. ASSUME NEW o \in Offers, CreateSellableOffer(o) PROVE CommittedOrReplaced'
  <2>1. /\ offer[o] = "NONE" /\ o \notin requested /\ UNCHANGED requested
        /\ offer' = [q \in Offers |->
                         IF q = o THEN "ACTIVE"
                         ELSE IF q = Supersedes[o] THEN "SUPERSEDED" ELSE offer[q]]
    BY <1>2, CreateEntries DEF CreateSellableOffer
  <2> SUFFICES ASSUME NEW p \in requested
               PROVE  \/ offer'[p] = "COMMITTED"
                      \/ /\ offer'[p] = "SUPERSEDED"
                         /\ \E q \in Offers : Supersedes[q] = p /\ offer'[q] # "NONE"
    BY <2>1 DEF CommittedOrReplaced
  <2>2. p \in Offers /\ p # o
    BY <2>1 DEF IInv, TypeOK
  <2>3. CASE p = Supersedes[o]
    BY <2>1, <2>2, <2>3
  <2>4. CASE p # Supersedes[o]
    BY <2>1, <2>2, <2>4 DEF CommittedOrReplaced
  <2> QED
    BY <2>3, <2>4
<1>3. ASSUME NEW o \in Offers, CommitOffer(o) PROVE CommittedOrReplaced'
  BY <1>3 DEF CommitOffer, CommittedOrReplaced, IInv, TypeOK
<1>4. ASSUME NEW ended, \A o \in ended : offer[o] = "ACTIVE", NEW terminal,
             CloseOffer(ended, terminal), terminal # "NONE", UNCHANGED requested
      PROVE  CommittedOrReplaced'
  <2>1. \A q \in Offers : offer'[q] = IF q \in ended THEN terminal ELSE offer[q]
    BY <1>4 DEF CloseOffer
  <2> QED
    BY <1>4, <2>1 DEF CommittedOrReplaced, IInv, TypeOK
<1>5. ASSUME NEW o \in Offers, InvalidateOffer(o) PROVE CommittedOrReplaced'
  BY <1>4, <1>5 DEF InvalidateOffer
<1>6. CASE ExpireSellableOffers
  <2> DEFINE due == {o \in lapsed : offer[o] = "ACTIVE"}
  <2>1. /\ \A o \in due : offer[o] = "ACTIVE"
        /\ CloseOffer(due, "EXPIRED") /\ UNCHANGED requested
    BY <1>6 DEF ExpireSellableOffers
  <2> HIDE DEF due
  <2> QED
    BY <1>4, <2>1
<1> QED
  BY <1>1, <1>2, <1>3, <1>5, <1>6
  DEF Next, Evaluate, LoseCreation, ReplayCreate, ExpireStaleHolds,
      ReleaseKernelHold, OfferValidityElapses, HoldTtlElapses, TermsDrift, clock, vars

(* A request is always that of a COMMITTED offer, unless an offer that     *)
(* names this one as its predecessor was made (offer.ts:239).              *)
THEOREM CommittedUnlessReplaced == Spec => []CommittedOrReplaced
<1>1. Init => CommittedOrReplaced
  BY DEF Init, CommittedOrReplaced
<1> QED
  BY <1>1, ReplacedStep, Invariance, PTL DEF Spec

(* While no hold appears or vanishes, what was placed was placed in order. *)
LEMMA OrderFrame ==
    ASSUME PlacedInOrder,
           \A o \in Offers, r \in Resources : hold'[o][r] = "NONE" <=> hold[o][r] = "NONE"
    PROVE  PlacedInOrder'
<1> SUFFICES ASSUME NEW o \in Offers
             PROVE  \E places \in Prefixes(o) : Placed(o, places)'
  BY DEF PlacedInOrder, Prefixes
<1>1. PICK places \in Prefixes(o) : Placed(o, places)
  BY DEF PlacedInOrder
<1>2. Placed(o, places)'
  BY <1>1 DEF Placed, At
<1> QED
  BY <1>2

LEMMA OrderStep == IInv /\ PlacedInOrder /\ [Next]_vars => PlacedInOrder'
<1> SUFFICES ASSUME IInv, PlacedInOrder, [Next]_vars PROVE PlacedInOrder'
  OBVIOUS
<1>1. CASE UNCHANGED hold
  BY <1>1, OrderFrame
<1>2. ASSUME NEW o \in Offers, CreateSellableOffer(o) PROVE PlacedInOrder'
  <2> DEFINE free == {n \in DOMAIN ResourceKeys[o] :
                         \A m \in 1 .. n : IsResourceFree(Before(o), ResourceKeys[o][m])}
  <2>1. Taken(Before(o), o) = At(o, free)
    BY DEF Taken, At
  <2>2. free \in Prefixes(o)
    <3>1. ResourceKeys[o] \in Seq(Resources)
      BY OffersAssumption
    <3>2. DOMAIN ResourceKeys[o] = 1 .. Len(ResourceKeys[o]) /\ Len(ResourceKeys[o]) \in Nat
      BY <3>1
    <3> QED
      BY <3>2 DEF Prefixes
  <2> HIDE DEF free
  <2>3. ASSUME NEW r \in Resources
        PROVE  hold'[o][r] # "NONE" <=> r \in At(o, free)
    <3>1. /\ hold[o][r] = "NONE"
          /\ Before(o)[o][r] = IF o = Supersedes[o] /\ hold[o][r] = "ACTIVE"
                               THEN "INVALIDATED" ELSE hold[o][r]
          /\ hold'[o][r] = IF r \notin Taken(Before(o), o) THEN Before(o)[o][r]
                           ELSE "ACTIVE"
      BY <1>2, CreateEntries
    <3> QED
      BY <2>1, <3>1
  <2>4. ASSUME NEW q \in Offers, q # o, NEW r \in Resources
        PROVE  hold'[q][r] = "NONE" <=> hold[q][r] = "NONE"
    <3>1. /\ Before(o)[q][r] = IF q = Supersedes[o] /\ hold[q][r] = "ACTIVE"
                               THEN "INVALIDATED" ELSE hold[q][r]
          /\ hold'[q][r] = IF r \notin Taken(Before(o), o) THEN Before(o)[q][r]
                           ELSE IF q = o THEN "ACTIVE"
                           ELSE IF Before(o)[q][r] = "ACTIVE" THEN "EXPIRED"
                           ELSE Before(o)[q][r]
      BY <1>2, CreateEntries
    <3> QED
      BY <2>4, <3>1
  <2>5. ASSUME NEW q \in Offers
        PROVE  \E places \in Prefixes(q) : Placed(q, places)'
    <3>1. CASE q = o
      BY <2>2, <2>3, <3>1 DEF Placed, At
    <3>2. CASE q # o
      <4>1. PICK places \in Prefixes(q) : Placed(q, places)
        BY DEF PlacedInOrder
      <4>2. Placed(q, places)'
        BY <2>4, <3>2, <4>1 DEF Placed, At
      <4> QED
        BY <4>2
    <3> QED
      BY <3>1, <3>2
  <2> QED
    BY <2>5 DEF PlacedInOrder, Prefixes
<1>3. ASSUME NEW o \in Offers, CommitOffer(o) PROVE PlacedInOrder'
  <2>1. \A q \in Offers, r \in Resources :
           hold'[q][r] = IF q = o /\ hold[q][r] = "ACTIVE" THEN "CONSUMED"
                                                           ELSE hold[q][r]
    BY <1>3 DEF CommitOffer, IInv, TypeOK
  <2> QED
    BY <2>1, OrderFrame
<1>4. ASSUME NEW ended \in SUBSET Offers, NEW terminal, CloseOffer(ended, terminal)
      PROVE  PlacedInOrder'
  <2>1. hold \in Books
    BY DEF IInv, TypeOK, Books
  <2>2. \A q \in Offers, r \in Resources :
           hold'[q][r] = IF q \in ended /\ hold[q][r] = "ACTIVE" THEN "INVALIDATED"
                                                                 ELSE hold[q][r]
    BY <1>4, <2>1, InvalidatedBook DEF CloseOffer
  <2> QED
    BY <2>2, OrderFrame
<1>5. ASSUME NEW o \in Offers, InvalidateOffer(o) PROVE PlacedInOrder'
  BY <1>4, <1>5 DEF InvalidateOffer
<1>6. CASE ExpireSellableOffers
  <2> DEFINE due == {o \in lapsed : offer[o] = "ACTIVE"}
  <2>1. due \in SUBSET Offers
    BY DEF IInv, TypeOK
  <2>2. CloseOffer(due, "EXPIRED")
    BY <1>6 DEF ExpireSellableOffers
  <2> HIDE DEF due
  <2> QED
    BY <1>4, <2>1, <2>2
<1>7. CASE ExpireStaleHolds
  BY <1>7, OrderFrame DEF ExpireStaleHolds
<1>8. ASSUME NEW o \in Offers, NEW s \in Resources, ReleaseKernelHold(o, s)
      PROVE  PlacedInOrder'
  BY <1>8, OrderFrame DEF ReleaseKernelHold, IInv, TypeOK
<1> QED
  BY <1>1, <1>2, <1>3, <1>5, <1>6, <1>7, <1>8
  DEF Next, Evaluate, LoseCreation, ReplayCreate, OfferValidityElapses,
      HoldTtlElapses, TermsDrift, vars

(* The fault that CommitmentIsWhole exhibits goes no further than the tail *)
(* of the lock order: what a request consumed is what its offer needs up   *)
(* to some place, and at least the first.  So a commitment that needs one  *)
(* resource is whole (offer.ts:294-322, commit.ts).                        *)
THEOREM CommitmentIsAPrefix ==
    Spec => [](\A o \in requested :
                  /\ \E places \in Prefixes(o) :
                        /\ places # {}
                        /\ {r \in Resources : hold[o][r] = "CONSUMED"} = At(o, places)
                  /\ Len(ResourceKeys[o]) = 1 =>
                        \A r \in Needs(o) : hold[o][r] = "CONSUMED")
<1> DEFINE Partial(o) ==
             /\ \E places \in Prefixes(o) :
                   /\ places # {}
                   /\ {r \in Resources : hold[o][r] = "CONSUMED"} = At(o, places)
             /\ Len(ResourceKeys[o]) = 1 =>
                   \A r \in Needs(o) : hold[o][r] = "CONSUMED"
<1>1. ASSUME IInv, PlacedInOrder, NEW o \in requested PROVE Partial(o)
  <2>1. o \in Offers /\ ResourceKeys[o] \in Seq(Resources)
    BY <1>1, OffersAssumption DEF IInv, TypeOK
  <2>2. /\ \E r \in Resources : hold[o][r] = "CONSUMED"
        /\ \A r \in Resources : hold[o][r] # "NONE" <=> hold[o][r] = "CONSUMED"
    BY <1>1, <2>1 DEF IInv, ConsumedForARequest
  <2>3. PICK places \in Prefixes(o) : Placed(o, places)
    BY <1>1, <2>1 DEF PlacedInOrder
  <2>4. \A r \in Resources : hold[o][r] = "CONSUMED" <=> r \in At(o, places)
    BY <2>2, <2>3 DEF Placed
  <2>5. At(o, places) \subseteq Resources
    BY <2>1, <2>3 DEF At, Prefixes
  <2>6. {r \in Resources : hold[o][r] = "CONSUMED"} = At(o, places)
    BY <2>4, <2>5
  <2>7. places # {} /\ places \subseteq DOMAIN ResourceKeys[o]
    BY <2>2, <2>3, <2>4 DEF At, Prefixes
  <2>8. ASSUME Len(ResourceKeys[o]) = 1, NEW r \in Needs(o)
        PROVE  hold[o][r] = "CONSUMED"
    <3>1. DOMAIN ResourceKeys[o] = {1}
      BY <2>1, <2>8
    <3>2. places = {1}
      BY <2>7, <3>1
    <3>3. r \in At(o, places)
      BY <2>8, <3>1, <3>2 DEF Needs, At
    <3> QED
      BY <2>4, <2>5, <3>3
  <2> QED
    BY <2>6, <2>7, <2>8
<1>2. IInv /\ PlacedInOrder => \A o \in requested : Partial(o)
  BY <1>1
<1>3. Init => PlacedInOrder
  <2>1. ASSUME Init, NEW o \in Offers
        PROVE  \E places \in Prefixes(o) : Placed(o, places)
    <3>1. {} \in Prefixes(o) /\ Placed(o, {})
      BY <2>1 DEF Init, Prefixes, Placed, At
    <3> QED
      BY <3>1
  <2> QED
    BY <2>1 DEF PlacedInOrder
<1> QED
  BY <1>2, <1>3, OrderStep, Invariance, PTL DEF Spec
=============================================================================
