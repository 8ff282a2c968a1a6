------------------------- MODULE CoreBookingProofs -------------------------
(***************************************************************************)
(* Theorems about one booking, for any providers, windows and prices and   *)
(* any number of amendments.                                               *)
(***************************************************************************)
EXTENDS CoreBooking, SequenceTheorems, TLAPS

Confirmed == {"CUSTOMER_CONFIRMED", "FULFILLMENT_ACTIVE"} \union Results

(* What an adoption relies on between its two steps: the open amendment is *)
(* the newest, its candidate is the next version, and one that needs the   *)
(* customer again was validated on a consent the booking still has.        *)
AmendmentsInOrder ==
    /\ \A i \in DOMAIN amendments :
          i # Len(amendments) => amendments[i].state \in Decided
    /\ adopting # NotAdopting => LatestIs(Validated)
    /\ LatestIs(Validated) =>
          /\ Latest.candidate = currentVersion + 1
          /\ Latest.requiresReconfirmation => state \in Confirmed
          /\ adopting # NotAdopting /\ Latest.requiresReconfirmation
                /\ state = "CUSTOMER_CONFIRMED" => adopting.state = state

IInv ==
    /\ TypeOK
    /\ NoSplitBrain
    /\ AmendmentsInOrder
    /\ ConsentMatchesState

-----------------------------------------------------------------------------
(* Rows.                                                                   *)

(* Replacing the newest row of a table leaves the others where they are.   *)
LEMMA NewestRow ==
    ASSUME NEW S, NEW rows \in Seq(S), rows # <<>>, NEW row \in S
    PROVE  LET table == [rows EXCEPT ![Len(rows)] = row]
           IN  /\ table \in Seq(S)
               /\ table # <<>>
               /\ Len(table) = Len(rows)
               /\ DOMAIN table = DOMAIN rows
               /\ table[Len(rows)] = row
               /\ \A i \in DOMAIN rows : i # Len(rows) => table[i] = rows[i]
<1> DEFINE table == [rows EXCEPT ![Len(rows)] = row]
<1>1. Len(rows) \in Nat \ {0} /\ DOMAIN rows = 1 .. Len(rows)
  BY LenProperties, EmptySeq
<1>2. table \in [1 .. Len(rows) -> S]
  BY <1>1, ElementOfSeq
<1>3. table \in Seq(S) /\ Len(table) = Len(rows) /\ DOMAIN table = 1 .. Len(rows)
  BY <1>1, <1>2, LenProperties
<1> QED
  BY <1>1, <1>3, EmptySeq

LEMMA DecideRow ==
    ASSUME NEW rows \in Seq(AmendmentRow), rows # <<>>, NEW decision \in Decided
    PROVE  LET table == [rows EXCEPT ![Len(rows)].state = decision]
           IN  /\ table \in Seq(AmendmentRow)
               /\ table # <<>>
               /\ Len(table) = Len(rows)
               /\ DOMAIN table = DOMAIN rows
               /\ table[Len(rows)] = [rows[Len(rows)] EXCEPT !.state = decision]
               /\ \A i \in DOMAIN rows : i # Len(rows) => table[i] = rows[i]
<1>1. Len(rows) \in 1 .. Len(rows) /\ DOMAIN rows = 1 .. Len(rows)
  BY LenProperties, EmptySeq
<1>2. [rows[Len(rows)] EXCEPT !.state = decision] \in AmendmentRow
  <2>1. rows[Len(rows)] \in AmendmentRow
    BY <1>1, ElementOfSeq
  <2> QED
    BY <2>1 DEF AmendmentRow
<1>3. [rows EXCEPT ![Len(rows)].state = decision]
         = [rows EXCEPT ![Len(rows)] = [rows[Len(rows)] EXCEPT !.state = decision]]
  OBVIOUS
<1> QED
  BY <1>2, <1>3, NewestRow

(* supersedeConfirmation leaves no confirmation that counts.               *)
LEMMA SupersededRows ==
    ASSUME confirmations \in Seq(Confirmation), SupersedeConfirmation
    PROVE  confirmations' \in Seq(Confirmation) /\ ~HasActiveConfirmation'
<1>1. Len(confirmations) \in Nat /\ DOMAIN confirmations = 1 .. Len(confirmations)
  BY LenProperties
<1>2. \A c \in DOMAIN confirmations : confirmations[c] \in Confirmation
  BY ElementOfSeq, LenProperties
<1>3. confirmations' \in [1 .. Len(confirmations) -> Confirmation]
  BY <1>1, <1>2 DEF SupersedeConfirmation, Confirmation
<1>4. \A c \in DOMAIN confirmations : confirmations'[c].status = "SUPERSEDED"
  BY <1>2 DEF SupersedeConfirmation, Confirmation
<1> QED
  BY <1>1, <1>3, <1>4 DEF HasActiveConfirmation

LEMMA CandidateTypes ==
    ASSUME NEW rows \in Seq(AmendmentRow)
    PROVE  \A i \in DOMAIN rows : rows[i] \in AmendmentRow /\ rows[i].candidate \in Nat
<1>1. \A i \in 1 .. Len(rows) : rows[i] \in AmendmentRow
  BY ElementOfSeq
<1> QED
  BY <1>1, LenProperties DEF AmendmentRow

LEMMA LatestRow ==
    ASSUME TypeOK, NEW states, LatestIs(states)
    PROVE  /\ Len(amendments) \in DOMAIN amendments
           /\ DOMAIN amendments = 1 .. Len(amendments)
           /\ Latest \in AmendmentRow
           /\ Latest.state \in states
           /\ Latest.candidate <= Len(versions)
<1>1. amendments \in Seq(AmendmentRow) /\ amendments # <<>>
  BY DEF TypeOK, LatestIs
<1>2. Len(amendments) \in DOMAIN amendments /\ DOMAIN amendments = 1 .. Len(amendments)
  BY <1>1, LenProperties, EmptySeq
<1>3. amendments[Len(amendments)] \in AmendmentRow
  BY <1>1, <1>2, ElementOfSeq
<1> QED
  BY <1>2, <1>3 DEF TypeOK, LatestIs, Latest

-----------------------------------------------------------------------------
(* Every variable keeps its type under every operation, and no version or  *)
(* candidate points outside the table of versions.                         *)
LEMMA TypeInit == Init => TypeOK
<1> SUFFICES ASSUME Init PROVE TypeOK
  OBVIOUS
<1>1. PICK t \in Terms : versions = <<t>>
  BY DEF Init
<1>2. versions \in Seq(Terms) /\ Len(versions) = 1
  BY <1>1
<1>3. confirmations \in Seq(Confirmation) /\ amendments \in Seq(AmendmentRow)
       /\ DOMAIN amendments = {}
  BY EmptySeq DEF Init
<1>4. state \in RequestStates
  BY DEF Init, RequestStates, LegalTransitions
<1>5. holds \in [Providers -> [Windows -> {None, "HELD", "COMMITTED"}]]
  BY DEF Init, NoHolds
<1>6. currentVersion \in 1 .. Len(versions)
  BY <1>2 DEF Init
<1>7. \A i \in DOMAIN amendments : amendments[i].candidate <= Len(versions)
  BY <1>3
<1> QED
  BY <1>2, <1>3, <1>4, <1>5, <1>6, <1>7 DEF Init, TypeOK

(* What the operations leave of TypeOK when they do not touch the versions *)
(* and the amendments.                                                     *)
LEMMA TransitionTypes ==
    ASSUME NEW from, NEW to, state \in RequestStates, Transition(from, to)
    PROVE  state' \in RequestStates
BY DEF Transition, RequestStates, LegalTransitions

(* Deciding the newest amendment changes its state alone.                  *)
LEMMA DecideTypes ==
    ASSUME TypeOK, amendments # <<>>, NEW decision \in Decided,
           DecideLatest(decision)
    PROVE  /\ amendments' \in Seq(AmendmentRow)
           /\ amendments' # <<>>
           /\ Len(amendments') = Len(amendments)
           /\ DOMAIN amendments' = DOMAIN amendments
           /\ Latest'.state = decision
           /\ Latest'.candidate = Latest.candidate
           /\ \A i \in DOMAIN amendments : i # Len(amendments) =>
                 amendments'[i] = amendments[i]
           /\ \A i \in DOMAIN amendments' : amendments'[i].candidate <= Len(versions)
<1>1. amendments \in Seq(AmendmentRow)
  BY DEF TypeOK
<1>2. /\ amendments' \in Seq(AmendmentRow)
      /\ amendments' # <<>>
      /\ Len(amendments') = Len(amendments)
      /\ DOMAIN amendments' = DOMAIN amendments
      /\ amendments'[Len(amendments)]
            = [amendments[Len(amendments)] EXCEPT !.state = decision]
      /\ \A i \in DOMAIN amendments :
            i # Len(amendments) => amendments'[i] = amendments[i]
  BY <1>1, DecideRow DEF DecideLatest
<1>3. amendments[Len(amendments)] \in AmendmentRow /\ Len(amendments) \in DOMAIN amendments
  BY <1>1, ElementOfSeq, LenProperties, EmptySeq
<1>4. /\ amendments'[Len(amendments)].state = decision
      /\ amendments'[Len(amendments)].candidate = amendments[Len(amendments)].candidate
  BY <1>2, <1>3 DEF AmendmentRow
<1>5. \A i \in DOMAIN amendments' : amendments'[i].candidate <= Len(versions)
  BY <1>2, <1>3, <1>4 DEF TypeOK
<1> QED
  BY <1>2, <1>4, <1>5 DEF Latest

LEMMA TypeStep == TypeOK /\ AmendmentsInOrder /\ [Next]_vars => TypeOK'
<1> SUFFICES ASSUME TypeOK, AmendmentsInOrder, [Next]_vars PROVE TypeOK'
  OBVIOUS
<1> USE DEF dispatchVars, consentVars, amendmentVars, capacityVars
<1>1. ASSUME NEW outcome \in BOOLEAN, QualifyRequest(outcome) PROVE TypeOK'
  BY <1>1 DEF TypeOK, QualifyRequest
<1>2. CASE ReadForOffer
  BY <1>2 DEF TypeOK, ReadForOffer
<1>3. ASSUME NEW p \in Providers, OfferDispatch(p) PROVE TypeOK'
  BY <1>3, TransitionTypes DEF TypeOK, OfferDispatch, OfferStates
<1>4. CASE OfferRefused
  BY <1>4 DEF TypeOK, OfferRefused
<1>5. ASSUME NEW decision \in {"ACCEPTED", "DECLINED"}, RespondToOffer(decision)
      PROVE  TypeOK'
  <2>1. offer \in [provider : Providers, state : OfferStates]
    BY <1>5 DEF TypeOK, RespondToOffer, NoOffer, None
  <2>2. offer' \in [provider : Providers, state : OfferStates]
    BY <1>5, <2>1 DEF RespondToOffer, OfferStates
  <2> QED
    BY <1>5, <2>2, TransitionTypes DEF TypeOK, RespondToOffer
<1>6. CASE SweepListsOffer
  BY <1>6 DEF TypeOK, SweepListsOffer
<1>7. CASE SweepExpiresOffer
  <2>1. offer \in [provider : Providers, state : OfferStates]
    BY <1>7 DEF TypeOK, SweepExpiresOffer, NoOffer, None
  <2>2. offer' \in [provider : Providers, state : OfferStates]
    BY <1>7, <2>1 DEF SweepExpiresOffer, OfferStates
  <2>3. state' \in RequestStates
    BY <1>7 DEF TypeOK, SweepExpiresOffer, RequestStates, LegalTransitions
  <2> QED
    BY <1>7, <2>2, <2>3 DEF TypeOK, SweepExpiresOffer
<1>8. CASE SweepSkipsOffer
  BY <1>8 DEF TypeOK, SweepSkipsOffer
<1>9. CASE AssignRequest
  <2>1. offer \in [provider : Providers, state : OfferStates]
    BY <1>9 DEF TypeOK, AssignRequest, NoOffer, None
  <2>2. holds' \in [Providers -> [Windows -> {None, "HELD", "COMMITTED"}]]
    BY <1>9 DEF TypeOK, AssignRequest, CommitHeld
  <2> QED
    BY <1>9, <2>1, <2>2, TransitionTypes DEF TypeOK, AssignRequest
<1>10. CASE RequestCustomerConfirmation
  BY <1>10, TransitionTypes DEF TypeOK, RequestCustomerConfirmation
<1>11. CASE ReadForConfirmation
  BY <1>11, LenProperties DEF TypeOK, ReadForConfirmation
<1>12. CASE ConfirmBooking
  <2>1. [version |-> confirming, status |-> "CONFIRMED"] \in Confirmation
    BY <1>12 DEF TypeOK, ConfirmBooking, Confirmation
  <2>2. confirmations' \in Seq(Confirmation)
    BY <1>12, <2>1, AppendProperties DEF TypeOK, ConfirmBooking
  <2> QED
    BY <1>12, <2>2, TransitionTypes DEF TypeOK, ConfirmBooking
<1>13. CASE ConfirmationRefused
  BY <1>13 DEF TypeOK, ConfirmationRefused
<1>14. CASE BeginFulfillment
  BY <1>14, TransitionTypes DEF TypeOK, BeginFulfillment
<1>15. ASSUME NEW result \in Results, RecordFulfillmentResult(result) PROVE TypeOK'
  <2>1. holds' \in [Providers -> [Windows -> {None, "HELD", "COMMITTED"}]]
    BY <1>15 DEF RecordFulfillmentResult, NoHolds
  <2> QED
    BY <1>15, <2>1, TransitionTypes DEF TypeOK, RecordFulfillmentResult
<1>16. CASE ProposeAmendment
  <2> DEFINE row == [state |-> "PROPOSED", candidate |-> 0,
                     requiresReconfirmation |-> FALSE]
  <2>1. row \in AmendmentRow
    BY DEF AmendmentRow, OpenStates
  <2>2. /\ amendments' = Append(amendments, row)
        /\ amendments \in Seq(AmendmentRow)
    BY <1>16 DEF ProposeAmendment, TypeOK
  <2>3. /\ amendments' \in Seq(AmendmentRow)
        /\ Len(amendments') = Len(amendments) + 1
        /\ \A i \in 1 .. Len(amendments) : amendments'[i] = amendments[i]
        /\ amendments'[Len(amendments) + 1] = row
    BY <2>1, <2>2, AppendProperties
  <2>4. Len(amendments) \in Nat /\ DOMAIN amendments = 1 .. Len(amendments)
         /\ DOMAIN amendments' = 1 .. Len(amendments')
    BY <2>2, <2>3, LenProperties
  <2>5. versions' = versions /\ Len(versions) \in Nat
    BY <1>16, LenProperties DEF TypeOK, ProposeAmendment
  <2>6. \A i \in DOMAIN amendments' : amendments'[i].candidate <= Len(versions')
    BY <2>3, <2>4, <2>5 DEF TypeOK
  <2> QED
    BY <1>16, <2>3, <2>6 DEF TypeOK, ProposeAmendment
<1>17. ASSUME NEW terms \in Terms, ValidateAmendment(terms) PROVE TypeOK'
  <2>1. /\ amendments \in Seq(AmendmentRow) /\ amendments # <<>>
        /\ versions \in Seq(Terms) /\ currentVersion = Len(versions)
        /\ Len(versions) \in Nat
    BY <1>17, LenProperties DEF ValidateAmendment, LatestIs, TypeOK
  <2> DEFINE reconfirm == HasActiveConfirmation /\ terms # versions[currentVersion]
  <2> DEFINE new == [state |-> IF reconfirm THEN "REQUIRES_RECONFIRMATION"
                                            ELSE "VALIDATING",
                     candidate |-> currentVersion + 1,
                     requiresReconfirmation |-> reconfirm]
  <2>2. /\ amendments' = [amendments EXCEPT ![Len(amendments)] = new]
        /\ new.candidate = currentVersion + 1
        /\ new \in AmendmentRow
    <3>1. reconfirm \in BOOLEAN
      BY DEF HasActiveConfirmation
    <3>2. new \in AmendmentRow
      BY <2>1, <3>1 DEF AmendmentRow, OpenStates, Validated
    <3> QED
      BY <1>17, <3>2 DEF ValidateAmendment
  <2> HIDE DEF new
  <2>3. /\ amendments' \in Seq(AmendmentRow)
        /\ DOMAIN amendments' = DOMAIN amendments
        /\ amendments'[Len(amendments)] = new
        /\ \A i \in DOMAIN amendments :
              i # Len(amendments) => amendments'[i] = amendments[i]
    BY <2>1, <2>2, NewestRow
  <2>4. versions' \in Seq(Terms) /\ Len(versions') = Len(versions) + 1
    BY <1>17, <2>1, AppendProperties DEF ValidateAmendment
  <2>5. \A i \in DOMAIN amendments : amendments[i].candidate \in Nat
    BY <2>1, CandidateTypes
  <2>6. \A i \in DOMAIN amendments' : amendments'[i].candidate <= Len(versions')
    BY <2>1, <2>2, <2>3, <2>4, <2>5 DEF TypeOK
  <2>7. currentVersion' \in 1 .. Len(versions')
    BY <1>17, <2>1, <2>4 DEF TypeOK, ValidateAmendment
  <2> QED
    BY <1>17, <2>3, <2>4, <2>6, <2>7 DEF TypeOK, ValidateAmendment
<1>18. CASE ReadForAdoption
  BY <1>18 DEF TypeOK, ReadForAdoption
<1>19. CASE AbandonAdoption
  BY <1>19 DEF TypeOK, AbandonAdoption
<1>20. ASSUME NEW terminal \in {"REJECTED", "WITHDRAWN"}, RejectAmendment(terminal)
       PROVE  TypeOK'
  <2>1. amendments \in Seq(AmendmentRow) /\ amendments # <<>> /\ terminal \in Decided
    BY <1>20 DEF RejectAmendment, LatestIs, TypeOK, Decided
  <2>2. /\ amendments' \in Seq(AmendmentRow)
        /\ \A i \in DOMAIN amendments' : amendments'[i].candidate <= Len(versions)
    <3>1. DecideLatest(terminal)
      BY <1>20 DEF RejectAmendment
    <3> QED
      BY <2>1, <3>1, DecideTypes
  <2> QED
    BY <1>20, <2>2 DEF TypeOK, RejectAmendment
<1>21. CASE Holding
  <2>1. ASSUME NEW p \in Providers, WithdrawProviderCapacity(p) PROVE TypeOK'
    BY <2>1 DEF TypeOK, WithdrawProviderCapacity
  <2>2. ASSUME NEW p \in Providers, NEW w \in Windows, HoldCapacity(p, w) PROVE TypeOK'
    BY <2>2 DEF TypeOK, HoldCapacity
  <2>3. ASSUME NEW p \in Providers, NEW w \in Windows, RivalTakesWindow(p, w)
        PROVE  TypeOK'
    BY <2>3 DEF TypeOK, RivalTakesWindow
  <2>4. ASSUME NEW p \in Providers, NEW w \in Windows, RivalFreesWindow(p, w)
        PROVE  TypeOK'
    BY <2>4 DEF TypeOK, RivalFreesWindow
  <2> QED
    BY <1>21, <2>1, <2>2, <2>3, <2>4 DEF Holding
<1>23. CASE Adopt
  <2>1. /\ LatestIs(Validated) /\ Latest.candidate = currentVersion + 1
        /\ amendments # <<>>
    BY <1>23 DEF Adopt, AmendmentsInOrder, LatestIs
  <2>2. Latest.candidate <= Len(versions) /\ Latest.candidate \in Nat
    BY <2>1, LatestRow DEF AmendmentRow
  <2>3. currentVersion' \in 1 .. Len(versions')
    BY <1>23, <2>1, <2>2, LenProperties DEF TypeOK, Adopt
  <2>4. /\ amendments' \in Seq(AmendmentRow)
        /\ \A i \in DOMAIN amendments' : amendments'[i].candidate <= Len(versions)
    BY <1>23, <2>1, DecideTypes DEF Adopt, Decided
  <2>5. holds' \in [Providers -> [Windows -> {None, "HELD", "COMMITTED"}]]
    <3>1. CASE adopting.provider = None
      BY <1>23, <3>1 DEF TypeOK, Adopt
    <3>2. CASE adopting.provider # None
      BY <1>23, <3>2 DEF Adopt, SwapCapacity, NoHolds
    <3> QED
      BY <3>1, <3>2
  <2>6. confirmations' \in Seq(Confirmation)
    BY <1>23, SupersededRows DEF TypeOK, Adopt
  <2>7. state' \in RequestStates
    BY <1>23 DEF TypeOK, Adopt, RequestStates, LegalTransitions
  <2> QED
    BY <1>23, <2>3, <2>4, <2>5, <2>6, <2>7 DEF TypeOK, Adopt
<1>22. CASE UNCHANGED vars
  BY <1>22 DEF TypeOK, vars
<1> QED
  BY <1>1, <1>2, <1>3, <1>4, <1>5, <1>6, <1>7, <1>8, <1>9, <1>10, <1>11, <1>12,
     <1>13, <1>14, <1>15, <1>16, <1>17, <1>18, <1>19, <1>20, <1>21, <1>22, <1>23
  DEF Next, Dispatching, Confirming, Amending

-----------------------------------------------------------------------------
(* The request's state.                                                    *)

(* What neither dispatches, confirms nor adopts leaves the request as it   *)
(* is, with its offer, its assignment and its confirmations.               *)
LEMMA OthersLeaveTheRequest ==
    ASSUME Amending \/ Holding \/ UNCHANGED vars, ~Adopt
    PROVE  UNCHANGED <<state, offer, assigned, confirmations>>
<1> USE DEF dispatchVars, consentVars
<1>1. ASSUME NEW terms \in Terms, ValidateAmendment(terms)
      PROVE  UNCHANGED <<state, offer, assigned, confirmations>>
  BY <1>1 DEF ValidateAmendment
<1>2. ASSUME NEW terminal \in {"REJECTED", "WITHDRAWN"}, RejectAmendment(terminal)
      PROVE  UNCHANGED <<state, offer, assigned, confirmations>>
  BY <1>2 DEF RejectAmendment
<1>3. CASE Holding
  BY <1>3 DEF Holding, WithdrawProviderCapacity, HoldCapacity, RivalTakesWindow,
              RivalFreesWindow
<1>4. CASE ProposeAmendment \/ ReadForAdoption \/ AbandonAdoption
  BY <1>4 DEF ProposeAmendment, ReadForAdoption, AbandonAdoption
<1> QED
  BY <1>1, <1>2, <1>3, <1>4 DEF Amending, vars

(* Dispatch and confirmation never take a confirmed booking back, and a    *)
(* booking they leave alone they leave to the amendments.                  *)
LEMMA ConfirmedStays ==
    ASSUME TypeOK, Dispatching \/ Confirming
    PROVE  /\ UNCHANGED <<currentVersion, amendments, adopting, versions>>
           /\ state \in Confirmed => /\ state' \in Confirmed
                                     /\ state' = "CUSTOMER_CONFIRMED" => state' = state
<1> USE DEF amendmentVars, Confirmed, Transition, Results
<1>1. ASSUME NEW outcome \in BOOLEAN, QualifyRequest(outcome)
      PROVE  UNCHANGED <<state, amendmentVars>>
  BY <1>1 DEF QualifyRequest
<1>2. CASE ReadForOffer \/ OfferRefused \/ SweepListsOffer \/ SweepSkipsOffer
           \/ ReadForConfirmation \/ ConfirmationRefused
  BY <1>2 DEF ReadForOffer, OfferRefused, SweepListsOffer, SweepSkipsOffer,
              ReadForConfirmation, ConfirmationRefused
<1>3. ASSUME NEW p \in Providers, OfferDispatch(p)
      PROVE  UNCHANGED amendmentVars /\ state \notin Confirmed
  BY <1>3 DEF OfferDispatch
<1>4. ASSUME NEW decision \in {"ACCEPTED", "DECLINED"}, RespondToOffer(decision)
      PROVE  UNCHANGED amendmentVars /\ state \notin Confirmed
  BY <1>4 DEF RespondToOffer
<1>5. CASE SweepExpiresOffer
  BY <1>5 DEF SweepExpiresOffer
<1>6. CASE AssignRequest \/ RequestCustomerConfirmation \/ ConfirmBooking
  BY <1>6 DEF AssignRequest, RequestCustomerConfirmation, ConfirmBooking
<1>7. CASE BeginFulfillment
  BY <1>7 DEF BeginFulfillment
<1>8. ASSUME NEW result \in Results, RecordFulfillmentResult(result)
      PROVE  UNCHANGED amendmentVars /\ state' = result
  BY <1>8 DEF RecordFulfillmentResult
<1> QED
  BY <1>1, <1>2, <1>3, <1>4, <1>5, <1>6, <1>7, <1>8 DEF Dispatching, Confirming

(* An adoption that ends consent finds the booking confirmed, and if it is *)
(* not yet being fulfilled sends it back to its customer.                  *)
LEMMA AdoptionReturnsTheRequest ==
    ASSUME AmendmentsInOrder, Adopt
    PROVE  IF Latest.requiresReconfirmation
           THEN /\ SupersedeConfirmation
                /\ state \in Confirmed
                /\ state' = IF state = "CUSTOMER_CONFIRMED"
                            THEN "AWAITING_CUSTOMER_CONFIRMATION" ELSE state
           ELSE UNCHANGED <<confirmations, state>>
BY DEF Adopt, AmendmentsInOrder

LEMMA SplitBrainStep ==
    ASSUME TypeOK, AmendmentsInOrder, NoSplitBrain, [Next]_vars
    PROVE  NoSplitBrain'
<1> USE DEF dispatchVars, NoSplitBrain, Transition, NoOffer, None, Results
<1>1. ASSUME NEW outcome \in BOOLEAN, QualifyRequest(outcome) PROVE NoSplitBrain'
  BY <1>1 DEF QualifyRequest
<1>2. CASE ReadForOffer \/ OfferRefused \/ SweepListsOffer \/ SweepSkipsOffer
           \/ ReadForConfirmation \/ ConfirmationRefused
  BY <1>2 DEF ReadForOffer, OfferRefused, SweepListsOffer, SweepSkipsOffer,
              ReadForConfirmation, ConfirmationRefused
<1>3. ASSUME NEW p \in Providers, OfferDispatch(p) PROVE NoSplitBrain'
  BY <1>3 DEF OfferDispatch
<1>4. ASSUME NEW decision \in {"ACCEPTED", "DECLINED"}, RespondToOffer(decision)
      PROVE  NoSplitBrain'
  <2>1. offer'.state = decision /\ offer'.provider = offer.provider
    BY <1>4 DEF RespondToOffer, TypeOK
  <2> QED
    BY <1>4, <2>1 DEF RespondToOffer
<1>5. CASE SweepExpiresOffer
  <2>1. offer'.state = "EXPIRED"
    BY <1>5 DEF SweepExpiresOffer, TypeOK
  <2> QED
    BY <1>5, <2>1 DEF SweepExpiresOffer
<1>6. CASE AssignRequest
  BY <1>6 DEF AssignRequest
<1>7. CASE RequestCustomerConfirmation \/ ConfirmBooking \/ BeginFulfillment
  BY <1>7 DEF RequestCustomerConfirmation, ConfirmBooking, BeginFulfillment
<1>8. ASSUME NEW result \in Results, RecordFulfillmentResult(result) PROVE NoSplitBrain'
  BY <1>8 DEF RecordFulfillmentResult
<1>9. CASE Adopt
  <2>1. UNCHANGED <<offer, assigned>>
    BY <1>9 DEF Adopt
  <2>2. \/ UNCHANGED state
        \/ state = "CUSTOMER_CONFIRMED" /\ state' = "AWAITING_CUSTOMER_CONFIRMATION"
    BY <1>9, AdoptionReturnsTheRequest
  <2> QED
    BY <2>1, <2>2
<1>10. CASE (Amending \/ Holding \/ UNCHANGED vars) /\ ~Adopt
  BY <1>10, OthersLeaveTheRequest
<1> QED
  BY <1>1, <1>2, <1>3, <1>4, <1>5, <1>6, <1>7, <1>8, <1>9, <1>10
  DEF Next, Dispatching, Confirming

-----------------------------------------------------------------------------
(* Consent.                                                                *)

(* Rows added or superseded one at a time leave at most one that counts.   *)
LEMMA ConsentStep ==
    ASSUME TypeOK, AmendmentsInOrder, ConsentMatchesState, [Next]_vars
    PROVE  ConsentMatchesState'
<1> USE DEF consentVars, ConsentMatchesState, HasActiveConfirmation, Transition, Results
<1>1. ASSUME NEW outcome \in BOOLEAN, QualifyRequest(outcome)
      PROVE  ConsentMatchesState'
  BY <1>1 DEF QualifyRequest
<1>2. CASE ReadForOffer \/ OfferRefused \/ SweepListsOffer \/ SweepSkipsOffer
           \/ ReadForConfirmation \/ ConfirmationRefused
  BY <1>2 DEF ReadForOffer, OfferRefused, SweepListsOffer, SweepSkipsOffer,
              ReadForConfirmation, ConfirmationRefused
<1>3. ASSUME NEW p \in Providers, OfferDispatch(p) PROVE ConsentMatchesState'
  BY <1>3 DEF OfferDispatch
<1>4. ASSUME NEW decision \in {"ACCEPTED", "DECLINED"}, RespondToOffer(decision)
      PROVE  ConsentMatchesState'
  BY <1>4 DEF RespondToOffer
<1>5. CASE SweepExpiresOffer
  BY <1>5 DEF SweepExpiresOffer
<1>6. CASE AssignRequest \/ RequestCustomerConfirmation \/ BeginFulfillment
  BY <1>6 DEF AssignRequest, RequestCustomerConfirmation, BeginFulfillment
<1>7. CASE ConfirmBooking
  <2> DEFINE row == [version |-> confirming, status |-> "CONFIRMED"]
  <2>1. row \in Confirmation /\ confirmations \in Seq(Confirmation)
    BY <1>7 DEF TypeOK, ConfirmBooking, Confirmation
  <2>2. /\ confirmations' = Append(confirmations, row)
        /\ state' = "CUSTOMER_CONFIRMED"
        /\ \A c \in DOMAIN confirmations : confirmations[c].status # "CONFIRMED"
    BY <1>7 DEF ConfirmBooking
  <2>3. /\ Len(confirmations) \in Nat
        /\ DOMAIN confirmations = 1 .. Len(confirmations)
        /\ DOMAIN confirmations' = 1 .. Len(confirmations) + 1
        /\ \A c \in 1 .. Len(confirmations) : confirmations'[c] = confirmations[c]
        /\ confirmations'[Len(confirmations) + 1] = row
    BY <2>1, <2>2, AppendProperties, LenProperties
  <2>4. \A c \in DOMAIN confirmations' :
           confirmations'[c].status = "CONFIRMED" <=> c = Len(confirmations) + 1
    BY <2>2, <2>3
  <2> QED
    BY <2>2, <2>3, <2>4
<1>8. ASSUME NEW result \in Results, RecordFulfillmentResult(result)
      PROVE  ConsentMatchesState'
  BY <1>8 DEF RecordFulfillmentResult
<1>9. CASE Adopt
  <2>1. CASE Latest.requiresReconfirmation
    <3>1. ~HasActiveConfirmation'
      BY <1>9, <2>1, AdoptionReturnsTheRequest, SupersededRows DEF TypeOK
    <3>2. state' # "CUSTOMER_CONFIRMED"
      BY <1>9, <2>1, AdoptionReturnsTheRequest
    <3> QED
      BY <3>1, <3>2
  <2>2. CASE ~Latest.requiresReconfirmation
    BY <1>9, <2>2, AdoptionReturnsTheRequest
  <2> QED
    BY <2>1, <2>2
<1>10. CASE (Amending \/ Holding \/ UNCHANGED vars) /\ ~Adopt
  BY <1>10, OthersLeaveTheRequest
<1> QED
  BY <1>1, <1>2, <1>3, <1>4, <1>5, <1>6, <1>7, <1>8, <1>9, <1>10
  DEF Next, Dispatching, Confirming

-----------------------------------------------------------------------------
(* Amendments.                                                             *)

(* Once the newest amendment is decided, none is open.                     *)
LEMMA DecidedInOrder ==
    ASSUME TypeOK, AmendmentsInOrder, amendments # <<>>,
           NEW decision \in Decided, DecideLatest(decision), adopting' = NotAdopting
    PROVE  AmendmentsInOrder'
<1>1. /\ amendments' # <<>>
      /\ Len(amendments') = Len(amendments)
      /\ DOMAIN amendments' = DOMAIN amendments
      /\ Latest'.state = decision
      /\ \A i \in DOMAIN amendments : i # Len(amendments) =>
            amendments'[i] = amendments[i]
  BY DecideTypes
<1>2. ~LatestIs(Validated)'
  BY <1>1 DEF LatestIs, Latest, Validated, Decided
<1> QED
  BY <1>1, <1>2 DEF AmendmentsInOrder

LEMMA AmendmentsStep ==
    ASSUME TypeOK, AmendmentsInOrder, ConsentMatchesState, [Next]_vars
    PROVE  AmendmentsInOrder'
<1> USE DEF LatestIs, Latest
<1>1. CASE Dispatching \/ Confirming
  BY <1>1, ConfirmedStays DEF AmendmentsInOrder
<1>2. CASE ProposeAmendment
  <2> DEFINE row == [state |-> "PROPOSED", candidate |-> 0,
                     requiresReconfirmation |-> FALSE]
  <2>1. row \in AmendmentRow /\ amendments \in Seq(AmendmentRow)
    BY DEF AmendmentRow, OpenStates, TypeOK
  <2>2. amendments' = Append(amendments, row) /\ UNCHANGED adopting
    BY <1>2 DEF ProposeAmendment
  <2>3. /\ Len(amendments) \in Nat /\ DOMAIN amendments = 1 .. Len(amendments)
        /\ DOMAIN amendments' = 1 .. Len(amendments) + 1
        /\ Len(amendments') = Len(amendments) + 1
        /\ \A i \in 1 .. Len(amendments) : amendments'[i] = amendments[i]
        /\ amendments'[Len(amendments) + 1] = row
    BY <2>1, <2>2, AppendProperties, LenProperties
  <2>4. \A i \in DOMAIN amendments : amendments[i].state \in Decided
    <3>1. \A i \in DOMAIN amendments : amendments[i] \in AmendmentRow
      BY <2>1, CandidateTypes
    <3>2. amendments # <<>> => Len(amendments) \in DOMAIN amendments
      BY <2>1, <2>3, EmptySeq
    <3>3. \A i \in DOMAIN amendments : amendments # <<>>
      BY EmptySeq
    <3> QED
      BY <1>2, <3>1, <3>2, <3>3 DEF ProposeAmendment, AmendmentsInOrder, AmendmentRow
  <2>5. adopting = NotAdopting
    BY <1>2 DEF ProposeAmendment, AmendmentsInOrder, OpenStates
  <2>6. ~LatestIs(Validated)'
    BY <2>3 DEF Validated
  <2> QED
    BY <2>2, <2>3, <2>4, <2>5, <2>6 DEF AmendmentsInOrder
<1>3. ASSUME NEW terms \in Terms, ValidateAmendment(terms)
      PROVE  AmendmentsInOrder'
  <2> DEFINE reconfirm == HasActiveConfirmation /\ terms # versions[currentVersion]
  <2> DEFINE new == [state |-> IF reconfirm THEN "REQUIRES_RECONFIRMATION"
                                            ELSE "VALIDATING",
                     candidate |-> currentVersion + 1,
                     requiresReconfirmation |-> reconfirm]
  <2>1. /\ amendments \in Seq(AmendmentRow) /\ amendments # <<>>
        /\ currentVersion \in Nat /\ Latest.state = "PROPOSED"
    BY <1>3, LenProperties DEF ValidateAmendment, TypeOK
  <2>2. reconfirm \in BOOLEAN
    BY DEF HasActiveConfirmation
  <2>3. new \in AmendmentRow
    BY <2>1, <2>2 DEF AmendmentRow, OpenStates, Validated
  <2>4. amendments' = [amendments EXCEPT ![Len(amendments)] = new]
        /\ UNCHANGED <<adopting, currentVersion, state>>
    BY <1>3 DEF ValidateAmendment
  <2>5. /\ Len(amendments') = Len(amendments)
        /\ DOMAIN amendments' = DOMAIN amendments
        /\ amendments'[Len(amendments)] = new
        /\ \A i \in DOMAIN amendments :
              i # Len(amendments) => amendments'[i] = amendments[i]
    BY <2>1, <2>3, <2>4, NewestRow
  <2>6. Latest' = new /\ amendments' # <<>>
    BY <2>1, <2>3, <2>4, <2>5, NewestRow
  <2>7. adopting = NotAdopting
    BY <2>1 DEF AmendmentsInOrder, Validated
  <2>8. new.candidate = currentVersion + 1 /\ (new.requiresReconfirmation => reconfirm)
    OBVIOUS
  <2>9. reconfirm => state \in Confirmed
    BY DEF ConsentMatchesState, Confirmed
  <2> HIDE DEF new, reconfirm
  <2> QED
    BY <2>4, <2>5, <2>6, <2>7, <2>8, <2>9 DEF AmendmentsInOrder
<1>4. CASE ReadForAdoption
  BY <1>4 DEF ReadForAdoption, AmendmentsInOrder
<1>5. CASE AbandonAdoption
  BY <1>5 DEF AbandonAdoption, AmendmentsInOrder
<1>6. CASE Adopt
  <2>1. amendments # <<>> /\ adopting' = NotAdopting /\ DecideLatest("APPLIED")
    BY <1>6 DEF Adopt, AmendmentsInOrder
  <2> QED
    BY <2>1, DecidedInOrder DEF Decided
<1>7. ASSUME NEW terminal \in {"REJECTED", "WITHDRAWN"}, RejectAmendment(terminal)
      PROVE  AmendmentsInOrder'
  <2>1. /\ amendments # <<>> /\ adopting' = NotAdopting /\ DecideLatest(terminal)
        /\ terminal \in Decided
    BY <1>7 DEF RejectAmendment, Decided
  <2> QED
    BY <2>1, DecidedInOrder
<1>8. CASE Holding
  BY <1>8 DEF Holding, WithdrawProviderCapacity, HoldCapacity, RivalTakesWindow,
              RivalFreesWindow, amendmentVars, AmendmentsInOrder
<1>9. CASE UNCHANGED vars
  BY <1>9 DEF vars, AmendmentsInOrder
<1> QED
  BY <1>1, <1>2, <1>3, <1>4, <1>5, <1>6, <1>7, <1>8, <1>9 DEF Next, Amending

-----------------------------------------------------------------------------
(* The theorems.                                                           *)

(* In every booking the request, its offers, its consent and its           *)
(* amendments agree.                                                       *)
LEMMA Agreement == Spec => []IInv
<1>1. Init => IInv
  <2>1. Init => NoSplitBrain
    BY DEF Init, NoSplitBrain, NoOffer, None
  <2>2. Init => AmendmentsInOrder
    BY EmptySeq DEF Init, AmendmentsInOrder, LatestIs
  <2>3. Init => ConsentMatchesState
    BY EmptySeq DEF Init, ConsentMatchesState, HasActiveConfirmation
  <2> QED
    BY TypeInit, <2>1, <2>2, <2>3 DEF IInv
<1>2. IInv /\ [Next]_vars => IInv'
  BY TypeStep, SplitBrainStep, AmendmentsStep, ConsentStep DEF IInv
<1> QED
  BY <1>1, <1>2, PTL DEF Spec

(* Every variable of a booking always has its type, and no version and no  *)
(* candidate lies outside the table of versions.                           *)
THEOREM TypeCorrect == Spec => []TypeOK
BY Agreement, PTL DEF IInv

(* A sweep and an answer never both decide an offer, and only the provider *)
(* that accepted is assigned.                                              *)
THEOREM NeverSplitBrain == Spec => []NoSplitBrain
BY Agreement, PTL DEF IInv

(* A confirmed booking always has one consent on record, and one that      *)
(* awaits its customer has none, whatever was amended.                     *)
THEOREM ConsentAlwaysMatches == Spec => []ConsentMatchesState
BY Agreement, PTL DEF IInv

-----------------------------------------------------------------------------
(* What no step may do.                                                    *)

(* A step moves the version only to the candidate of the amendment it      *)
(* applies, and rewrites no version.                                       *)
LEMMA AuthorityStep ==
    ASSUME IInv, [Next]_vars
    PROVE  /\ currentVersion' # currentVersion =>
                 /\ currentVersion' = currentVersion + 1
                 /\ \E i \in DOMAIN amendments :
                       /\ amendments[i].state \in Validated
                       /\ amendments'[i].state = "APPLIED"
                       /\ amendments[i].candidate = currentVersion'
           /\ \A v \in DOMAIN versions :
                 v \in DOMAIN versions' /\ versions'[v] = versions[v]
<1> USE DEF IInv
<1>1. CASE Dispatching \/ Confirming
  BY <1>1, ConfirmedStays
<1>2. ASSUME NEW terms \in Terms, ValidateAmendment(terms)
      PROVE  /\ UNCHANGED currentVersion
             /\ \A v \in DOMAIN versions :
                   v \in DOMAIN versions' /\ versions'[v] = versions[v]
  <2>1. versions \in Seq(Terms) /\ versions' = Append(versions, terms)
    BY <1>2 DEF TypeOK, ValidateAmendment
  <2>2. /\ Len(versions) \in Nat /\ DOMAIN versions = 1 .. Len(versions)
        /\ DOMAIN versions' = 1 .. Len(versions) + 1
        /\ \A v \in 1 .. Len(versions) : versions'[v] = versions[v]
    BY <2>1, AppendProperties, LenProperties
  <2> QED
    BY <1>2, <2>2 DEF ValidateAmendment
<1>3. CASE Adopt
  <2>1. LatestIs(Validated) /\ Latest.candidate = currentVersion + 1 /\ amendments # <<>>
    BY <1>3 DEF Adopt, AmendmentsInOrder, LatestIs
  <2>2. Latest'.state = "APPLIED" /\ Len(amendments') = Len(amendments)
    BY <1>3, <2>1, DecideTypes DEF Adopt, Decided
  <2>3. Len(amendments) \in DOMAIN amendments /\ Latest.state \in Validated
    BY <2>1, LatestRow
  <2>4. currentVersion' = Latest.candidate /\ UNCHANGED versions
    BY <1>3 DEF Adopt
  <2>5. amendments'[Len(amendments)].state = "APPLIED"
    BY <2>2 DEF Latest
  <2> QED
    BY <2>1, <2>3, <2>4, <2>5 DEF Latest
<1>4. CASE ProposeAmendment \/ ReadForAdoption \/ AbandonAdoption
           \/ \E terminal \in {"REJECTED", "WITHDRAWN"} : RejectAmendment(terminal)
  BY <1>4 DEF ProposeAmendment, ReadForAdoption, AbandonAdoption, RejectAmendment
<1>5. CASE Holding
  BY <1>5 DEF Holding, WithdrawProviderCapacity, HoldCapacity, RivalTakesWindow,
              RivalFreesWindow, amendmentVars
<1>6. CASE UNCHANGED vars
  BY <1>6 DEF vars
<1> QED
  BY <1>1, <1>2, <1>3, <1>4, <1>5, <1>6 DEF Next, Amending

(* Nothing validates over a stranded draft, and nothing adopts it.         *)
LEMMA StrandedStep ==
    ASSUME IInv, DraftIsStranded, [Next]_vars
    PROVE  DraftIsStranded' /\ UNCHANGED <<versions, currentVersion>>
<1> USE DEF IInv
<1>1. adopting = NotAdopting /\ Len(versions) # currentVersion
  BY LenProperties DEF DraftIsStranded, AmendmentsInOrder, TypeOK
<1>2. ~Adopt /\ \A terms \in Terms : ~ValidateAmendment(terms)
  BY <1>1 DEF Adopt, ValidateAmendment
<1>3. CASE Dispatching \/ Confirming \/ Holding \/ ReadForAdoption \/ AbandonAdoption
           \/ UNCHANGED vars
  <2>1. UNCHANGED <<amendments, currentVersion, versions>>
    BY <1>3, ConfirmedStays DEF Holding, WithdrawProviderCapacity, HoldCapacity,
       RivalTakesWindow, RivalFreesWindow, ReadForAdoption, AbandonAdoption, vars,
       amendmentVars
  <2> QED
    BY <2>1 DEF DraftIsStranded, LatestIs
<1>4. CASE ProposeAmendment
  <2> DEFINE row == [state |-> "PROPOSED", candidate |-> 0,
                     requiresReconfirmation |-> FALSE]
  <2>1. row \in AmendmentRow /\ amendments' = Append(amendments, row)
         /\ UNCHANGED <<versions, currentVersion>> /\ amendments \in Seq(AmendmentRow)
    BY <1>4 DEF AmendmentRow, OpenStates, ProposeAmendment, TypeOK
  <2>2. amendments'[Len(amendments')].state = "PROPOSED"
    BY <2>1, AppendProperties
  <2> QED
    BY <2>1, <2>2 DEF DraftIsStranded, LatestIs, Validated
<1>5. ASSUME NEW terminal \in {"REJECTED", "WITHDRAWN"}, RejectAmendment(terminal)
      PROVE  DraftIsStranded' /\ UNCHANGED <<versions, currentVersion>>
  <2>1. amendments # <<>> /\ DecideLatest(terminal) /\ terminal \in Decided
         /\ UNCHANGED <<versions, currentVersion>>
    BY <1>5 DEF RejectAmendment, LatestIs, Decided
  <2>2. Latest'.state = terminal
    BY <2>1, DecideTypes
  <2> QED
    BY <1>5, <2>1, <2>2 DEF DraftIsStranded, LatestIs, Latest, Validated
<1> QED
  BY <1>2, <1>3, <1>4, <1>5 DEF Next, Amending

(* The committed terms stay authoritative until a validated replacement is *)
(* adopted, one version at a time; and once an amendment was validated and *)
(* then given up, none is ever validated or adopted again, for its draft   *)
(* has taken the only version number there is to draft.                    *)
THEOREM AuthorityOnlyByAdoption == Spec => AuthorityMovesByAdoption
<1>1. IInv /\ [Next]_vars =>
         [/\ currentVersion' # currentVersion =>
               /\ currentVersion' = currentVersion + 1
               /\ \E i \in DOMAIN amendments :
                     /\ amendments[i].state \in Validated
                     /\ amendments'[i].state = "APPLIED"
                     /\ amendments[i].candidate = currentVersion'
          /\ \A v \in DOMAIN versions :
               v \in DOMAIN versions' /\ versions'[v] = versions[v]
          /\ DraftIsStranded =>
               DraftIsStranded' /\ UNCHANGED <<versions, currentVersion>>]_vars
  BY AuthorityStep, StrandedStep
<1> QED
  BY <1>1, Agreement, PTL DEF Spec, AuthorityMovesByAdoption

(* A step decides an amendment at most once, and never applies a proposal. *)
LEMMA DecisionStep ==
    ASSUME IInv, [Next]_vars
    PROVE  \A i \in DOMAIN amendments :
              /\ i \in DOMAIN amendments'
              /\ amendments[i].state \in Decided => amendments'[i] = amendments[i]
              /\ amendments[i].state = "PROPOSED" => amendments'[i].state # "APPLIED"
              /\ i # Len(amendments) => amendments[i].state \in Decided
<1> USE DEF IInv, Latest
<1>1. \A i \in DOMAIN amendments : i # Len(amendments) => amendments[i].state \in Decided
  BY DEF AmendmentsInOrder
<1>2. amendments \in Seq(AmendmentRow)
  BY DEF TypeOK
<1>3. CASE UNCHANGED amendments
  BY <1>1, <1>3
<1>4. CASE ProposeAmendment
  <2> DEFINE row == [state |-> "PROPOSED", candidate |-> 0,
                     requiresReconfirmation |-> FALSE]
  <2>1. row \in AmendmentRow /\ amendments' = Append(amendments, row)
    BY <1>4 DEF AmendmentRow, OpenStates, ProposeAmendment
  <2>2. /\ Len(amendments) \in Nat /\ DOMAIN amendments = 1 .. Len(amendments)
        /\ DOMAIN amendments' = 1 .. Len(amendments) + 1
        /\ \A i \in 1 .. Len(amendments) : amendments'[i] = amendments[i]
    BY <1>2, <2>1, AppendProperties, LenProperties
  <2> QED
    BY <1>1, <2>2
<1>5. ASSUME NEW terms \in Terms, ValidateAmendment(terms)
      PROVE  \A i \in DOMAIN amendments :
                /\ i \in DOMAIN amendments'
                /\ amendments[i].state \in Decided => amendments'[i] = amendments[i]
                /\ amendments[i].state = "PROPOSED" => amendments'[i].state # "APPLIED"
  <2> DEFINE reconfirm == HasActiveConfirmation /\ terms # versions[currentVersion]
  <2> DEFINE new == [state |-> IF reconfirm THEN "REQUIRES_RECONFIRMATION"
                                            ELSE "VALIDATING",
                     candidate |-> currentVersion + 1,
                     requiresReconfirmation |-> reconfirm]
  <2>1. /\ amendments # <<>> /\ currentVersion \in Nat
        /\ Latest.state = "PROPOSED"
        /\ amendments' = [amendments EXCEPT ![Len(amendments)] = new]
    BY <1>5, LenProperties DEF ValidateAmendment, TypeOK, LatestIs
  <2>2. reconfirm \in BOOLEAN
    BY DEF HasActiveConfirmation
  <2>3. new \in AmendmentRow
    BY <2>1, <2>2 DEF AmendmentRow, OpenStates, Validated
  <2>4. /\ DOMAIN amendments' = DOMAIN amendments
        /\ amendments'[Len(amendments)] = new
        /\ \A i \in DOMAIN amendments :
              i # Len(amendments) => amendments'[i] = amendments[i]
    BY <1>2, <2>1, <2>3, NewestRow
  <2>5. new.state # "APPLIED"
    OBVIOUS
  <2> HIDE DEF new
  <2> QED
    BY <1>1, <2>1, <2>4, <2>5 DEF Decided
<1>6. ASSUME NEW decision \in Decided, DecideLatest(decision), amendments # <<>>,
             Latest.state \in OpenStates,
             decision = "APPLIED" => Latest.state \in Validated
      PROVE  \A i \in DOMAIN amendments :
                /\ i \in DOMAIN amendments'
                /\ amendments[i].state \in Decided => amendments'[i] = amendments[i]
                /\ amendments[i].state = "PROPOSED" => amendments'[i].state # "APPLIED"
  <2>1. /\ DOMAIN amendments' = DOMAIN amendments
        /\ amendments'[Len(amendments)].state = decision
        /\ \A i \in DOMAIN amendments :
              i # Len(amendments) => amendments'[i] = amendments[i]
    BY <1>6, DecideTypes
  <2> QED
    BY <1>1, <1>6, <2>1 DEF Decided, OpenStates, Validated
<1>7. CASE Adopt
  <2>1. /\ amendments # <<>> /\ Latest.state \in Validated
        /\ DecideLatest("APPLIED")
    BY <1>7 DEF Adopt, AmendmentsInOrder, LatestIs
  <2> QED
    BY <1>1, <1>6, <2>1 DEF Decided, OpenStates
<1>8. ASSUME NEW terminal \in {"REJECTED", "WITHDRAWN"}, RejectAmendment(terminal)
      PROVE  \A i \in DOMAIN amendments :
                /\ i \in DOMAIN amendments'
                /\ amendments[i].state \in Decided => amendments'[i] = amendments[i]
                /\ amendments[i].state = "PROPOSED" => amendments'[i].state # "APPLIED"
  <2>1. /\ amendments # <<>> /\ Latest.state \in OpenStates
        /\ DecideLatest(terminal) /\ terminal \in Decided
    BY <1>8 DEF RejectAmendment, LatestIs, Decided
  <2> QED
    BY <1>6, <1>8, <2>1
<1>9. CASE Dispatching \/ Confirming \/ Holding \/ ReadForAdoption \/ AbandonAdoption
           \/ UNCHANGED vars
  <2>1. UNCHANGED amendments
    BY <1>9, ConfirmedStays DEF Holding, WithdrawProviderCapacity, HoldCapacity,
       RivalTakesWindow, RivalFreesWindow, ReadForAdoption, AbandonAdoption, vars,
       amendmentVars
  <2> QED
    BY <1>3, <2>1
<1> QED
  BY <1>1, <1>4, <1>5, <1>7, <1>8, <1>9 DEF Next, Amending

(* An amendment is decided once, never applied unvalidated or once it was  *)
(* rejected, and only the newest is ever open.                             *)
THEOREM AmendmentsDecidedOnce == Spec => AmendmentDecidedOnce
<1>1. IInv /\ [Next]_vars =>
         [\A i \in DOMAIN amendments :
             /\ i \in DOMAIN amendments'
             /\ amendments[i].state \in Decided => amendments'[i] = amendments[i]
             /\ amendments[i].state = "PROPOSED" => amendments'[i].state # "APPLIED"
             /\ i # Len(amendments) => amendments[i].state \in Decided]_vars
  BY DecisionStep
<1> QED
  BY <1>1, Agreement, PTL DEF Spec, AmendmentDecidedOnce

-----------------------------------------------------------------------------
(* What the versions in force were adopted from.                           *)

(* The account of the versions is about the adopted rows and the two       *)
(* lengths alone.                                                          *)
LEMMA TraceFrame ==
    ASSUME AuthorityIsTraced, UNCHANGED currentVersion, Adopted' = Adopted,
           \A i \in Adopted : amendments'[i] = amendments[i],
           Len(versions') <= currentVersion + 1
    PROVE  AuthorityIsTraced'
BY DEF AuthorityIsTraced

LEMMA TraceStep ==
    ASSUME IInv, AuthorityIsTraced, [Next]_vars
    PROVE  AuthorityIsTraced'
<1> USE DEF IInv
<1>1. amendments \in Seq(AmendmentRow) /\ currentVersion \in Nat /\ Len(versions) \in Nat
       /\ Len(versions) <= currentVersion + 1 /\ Len(amendments) \in Nat
       /\ DOMAIN amendments = 1 .. Len(amendments)
  BY LenProperties DEF TypeOK, AuthorityIsTraced
<1>2. CASE UNCHANGED <<amendments, currentVersion, versions>>
  BY <1>1, <1>2, TraceFrame DEF Adopted
<1>3. CASE Dispatching \/ Confirming \/ Holding \/ ReadForAdoption \/ AbandonAdoption
           \/ UNCHANGED vars
  <2>1. UNCHANGED <<amendments, currentVersion, versions>>
    BY <1>3, ConfirmedStays DEF Holding, WithdrawProviderCapacity, HoldCapacity,
       RivalTakesWindow, RivalFreesWindow, ReadForAdoption, AbandonAdoption, vars,
       amendmentVars
  <2> QED
    BY <1>2, <2>1
<1>4. CASE ProposeAmendment
  <2> DEFINE row == [state |-> "PROPOSED", candidate |-> 0,
                     requiresReconfirmation |-> FALSE]
  <2>1. row \in AmendmentRow /\ amendments' = Append(amendments, row)
         /\ UNCHANGED <<versions, currentVersion>>
    BY <1>4 DEF AmendmentRow, OpenStates, ProposeAmendment
  <2>2. /\ DOMAIN amendments' = 1 .. Len(amendments) + 1
        /\ \A i \in 1 .. Len(amendments) : amendments'[i] = amendments[i]
        /\ amendments'[Len(amendments) + 1].state = "PROPOSED"
    BY <1>1, <2>1, AppendProperties, LenProperties
  <2>3. Adopted' = Adopted /\ \A i \in Adopted : amendments'[i] = amendments[i]
    BY <1>1, <2>2 DEF Adopted
  <2> QED
    BY <1>1, <2>1, <2>3, TraceFrame
<1>5. ASSUME NEW terms \in Terms, ValidateAmendment(terms) PROVE AuthorityIsTraced'
  <2> DEFINE reconfirm == HasActiveConfirmation /\ terms # versions[currentVersion]
  <2> DEFINE new == [state |-> IF reconfirm THEN "REQUIRES_RECONFIRMATION"
                                            ELSE "VALIDATING",
                     candidate |-> currentVersion + 1,
                     requiresReconfirmation |-> reconfirm]
  <2>1. /\ amendments # <<>> /\ amendments[Len(amendments)].state = "PROPOSED"
        /\ amendments' = [amendments EXCEPT ![Len(amendments)] = new]
        /\ Len(versions) = currentVersion /\ versions' = Append(versions, terms)
        /\ UNCHANGED currentVersion
    BY <1>5 DEF ValidateAmendment, LatestIs
  <2>2. new \in AmendmentRow
    <3>1. reconfirm \in BOOLEAN
      BY DEF HasActiveConfirmation
    <3> QED
      BY <1>1, <3>1 DEF AmendmentRow, OpenStates, Validated
  <2>3. new.state # "APPLIED"
    OBVIOUS
  <2> HIDE DEF new
  <2>4. /\ DOMAIN amendments' = DOMAIN amendments
        /\ amendments'[Len(amendments)] = new
        /\ \A i \in DOMAIN amendments :
              i # Len(amendments) => amendments'[i] = amendments[i]
    BY <1>1, <2>1, <2>2, NewestRow
  <2>5. Adopted' = Adopted /\ \A i \in Adopted : amendments'[i] = amendments[i]
    BY <2>1, <2>3, <2>4 DEF Adopted
  <2>6. Len(versions') = currentVersion + 1
    BY <2>1, AppendProperties DEF TypeOK
  <2> QED
    BY <1>1, <2>1, <2>5, <2>6, TraceFrame
<1>6. ASSUME NEW terminal \in {"REJECTED", "WITHDRAWN"}, RejectAmendment(terminal)
      PROVE  AuthorityIsTraced'
  <2>1. /\ amendments # <<>> /\ amendments[Len(amendments)].state \in OpenStates
        /\ DecideLatest(terminal) /\ terminal \in Decided
        /\ UNCHANGED <<versions, currentVersion>>
    BY <1>6 DEF RejectAmendment, LatestIs, Decided
  <2>2. /\ DOMAIN amendments' = DOMAIN amendments
        /\ amendments'[Len(amendments)].state = terminal
        /\ \A i \in DOMAIN amendments :
              i # Len(amendments) => amendments'[i] = amendments[i]
    BY <2>1, DecideTypes DEF Latest
  <2>3. Adopted' = Adopted /\ \A i \in Adopted : amendments'[i] = amendments[i]
    BY <1>6, <2>1, <2>2 DEF Adopted, OpenStates, Validated
  <2> QED
    BY <1>1, <2>1, <2>3, TraceFrame
<1>7. CASE Adopt
  <2> DEFINE n == Len(amendments)
  <2>1. /\ amendments # <<>> /\ Latest.candidate = currentVersion + 1
        /\ Latest.state \in Validated /\ n \in DOMAIN amendments
    <3>1. LatestIs(Validated) /\ Latest.candidate = currentVersion + 1
      BY <1>7 DEF Adopt, AmendmentsInOrder
    <3> QED
      BY <3>1, LatestRow DEF LatestIs
  <2>2. /\ DecideLatest("APPLIED") /\ currentVersion' = currentVersion + 1
        /\ UNCHANGED versions
    BY <1>7, <2>1 DEF Adopt
  <2>3. /\ DOMAIN amendments' = DOMAIN amendments
        /\ amendments'[n].state = "APPLIED"
        /\ amendments'[n].candidate = currentVersion + 1
        /\ \A i \in DOMAIN amendments : i # n => amendments'[i] = amendments[i]
    BY <2>1, <2>2, DecideTypes DEF Latest, Decided
  <2>4. n \notin Adopted
    BY <2>1 DEF Adopted, Latest, Validated
  <2>5. Adopted' = Adopted \union {n} /\ \A i \in Adopted : amendments'[i] = amendments[i]
    BY <2>1, <2>3, <2>4 DEF Adopted
  <2>6. \A i \in Adopted : i \in 1 .. n /\ i # n
    BY <1>1, <2>4 DEF Adopted
  <2>7. \A i \in Adopted : amendments[i].candidate \in 2 .. currentVersion
    BY DEF AuthorityIsTraced
  <2>8. \A v \in 2 .. currentVersion' :
           \E i \in Adopted' : amendments'[i].candidate = v
    <3>1. ASSUME NEW v \in 2 .. currentVersion'
          PROVE  \E i \in Adopted' : amendments'[i].candidate = v
      <4>1. CASE v = currentVersion + 1
        BY <2>3, <2>5, <4>1
      <4>2. CASE v # currentVersion + 1
        <5>1. v \in 2 .. currentVersion
          BY <1>1, <2>2, <4>2
        <5> QED
          BY <2>5, <5>1 DEF AuthorityIsTraced
      <4> QED
        BY <4>1, <4>2
    <3> QED
      BY <3>1
  <2>9. \A i \in Adopted' : amendments'[i].candidate \in 2 .. currentVersion'
    <3>1. currentVersion + 1 \in 2 .. currentVersion'
      BY <2>2 DEF TypeOK
    <3>2. \A k \in 2 .. currentVersion : k \in 2 .. currentVersion'
      BY <1>1, <2>2
    <3> QED
      BY <2>3, <2>5, <2>7, <3>1, <3>2
  <2>10. \A i, j \in Adopted' :
            i < j => amendments'[i].candidate < amendments'[j].candidate
    <3>1. ASSUME NEW i \in Adopted', NEW j \in Adopted', i < j
          PROVE  amendments'[i].candidate < amendments'[j].candidate
      <4>1. i \in Adopted
        BY <1>1, <2>5, <2>6, <3>1
      <4>2. CASE j \in Adopted
        BY <2>5, <3>1, <4>1, <4>2 DEF AuthorityIsTraced
      <4>3. CASE j = n
        <5>1. amendments[i].candidate \in 2 .. currentVersion
          BY <2>7, <4>1
        <5> QED
          BY <1>1, <2>3, <2>5, <4>1, <4>3, <5>1
      <4> QED
        BY <2>5, <4>2, <4>3
    <3> QED
      BY <3>1
  <2>11. Len(versions') <= currentVersion' + 1
    BY <1>1, <2>2
  <2> QED
    BY <2>8, <2>9, <2>10, <2>11 DEF AuthorityIsTraced
<1> QED
  BY <1>3, <1>4, <1>5, <1>6, <1>7 DEF Next, Amending

(* Every version of a booking that was ever in force after the first was   *)
(* drafted for one amendment and adopted with it, in order, for any number *)
(* of amendments and whatever fell between reading and adopting.           *)
THEOREM AuthorityAlwaysTraced == Spec => []AuthorityIsTraced
<1>1. Init => AuthorityIsTraced
  <2> SUFFICES ASSUME Init PROVE AuthorityIsTraced
    OBVIOUS
  <2>1. PICK t \in Terms : versions = <<t>>
    BY DEF Init
  <2>2. currentVersion = 1 /\ Len(versions) = 1 /\ Adopted = {}
    BY <2>1, EmptySeq DEF Init, Adopted
  <2> QED
    BY <2>2 DEF AuthorityIsTraced
<1> QED
  BY <1>1, TraceStep, Agreement, PTL DEF Spec

-----------------------------------------------------------------------------
(* How consent is inherited.                                               *)

(* Every consent on record is to what the booking now promises.            *)
Agreed ==
    \A c \in DOMAIN confirmations :
       confirmations[c].status = "CONFIRMED" =>
          versions[confirmations[c].version] = versions[currentVersion]

(* A change that was validated with no customer to ask is about to be      *)
(* adopted, and meanwhile the customer has confirmed.                      *)
Overtaken ==
    /\ HasActiveConfirmation
    /\ LatestIs(Validated) /\ ~Latest.requiresReconfirmation
    /\ versions[Latest.candidate] # versions[currentVersion]

Confirms == ~HasActiveConfirmation /\ HasActiveConfirmation'

(* What a customer names when confirming has been authoritative.           *)
VersionsNamed ==
    /\ confirming <= currentVersion
    /\ \A c \in DOMAIN confirmations : confirmations[c].version \in 1 .. currentVersion

LEMMA VersionsNamedStep ==
    ASSUME IInv, VersionsNamed, [Next]_vars
    PROVE  VersionsNamed'
<1> USE DEF IInv, consentVars
<1>1. /\ confirmations \in Seq(Confirmation) /\ confirming \in Nat
      /\ currentVersion \in Nat \ {0}
      /\ Len(confirmations) \in Nat /\ DOMAIN confirmations = 1 .. Len(confirmations)
  BY LenProperties DEF TypeOK
<1>2. currentVersion' \in Nat /\ currentVersion <= currentVersion'
  BY <1>1, AuthorityStep
<1>3. CASE UNCHANGED confirmations /\ confirming' \in {confirming, 0}
  BY <1>1, <1>2, <1>3 DEF VersionsNamed
<1>4. CASE ReadForConfirmation
  <2>1. UNCHANGED <<confirmations, currentVersion>> /\ confirming' = currentVersion
    BY <1>4 DEF ReadForConfirmation, amendmentVars
  <2> QED
    BY <1>1, <2>1 DEF VersionsNamed
<1>5. CASE ConfirmBooking
  <2> DEFINE row == [version |-> confirming, status |-> "CONFIRMED"]
  <2>1. row \in Confirmation /\ confirmations' = Append(confirmations, row)
         /\ confirming' = 0 /\ UNCHANGED currentVersion /\ row.version \in 1 .. currentVersion
    BY <1>1, <1>5 DEF ConfirmBooking, Confirmation, amendmentVars, VersionsNamed
  <2>2. /\ DOMAIN confirmations' = 1 .. Len(confirmations) + 1
        /\ \A c \in 1 .. Len(confirmations) : confirmations'[c] = confirmations[c]
        /\ confirmations'[Len(confirmations) + 1] = row
    BY <1>1, <2>1, AppendProperties, LenProperties
  <2>3. \A c \in DOMAIN confirmations' : confirmations'[c].version \in 1 .. currentVersion
    BY <1>1, <2>1, <2>2 DEF VersionsNamed
  <2> QED
    BY <1>1, <2>1, <2>3 DEF VersionsNamed
<1>6. CASE Adopt
  <2>1. CASE ~Latest.requiresReconfirmation
    BY <1>3, <1>6, <2>1 DEF Adopt
  <2>2. CASE Latest.requiresReconfirmation
    <3>1. SupersedeConfirmation /\ UNCHANGED confirming
      BY <1>6, <2>2 DEF Adopt
    <3>2. /\ DOMAIN confirmations' = DOMAIN confirmations
          /\ \A c \in DOMAIN confirmations :
                confirmations'[c].version = confirmations[c].version
      <4>1. \A c \in DOMAIN confirmations : confirmations[c] \in Confirmation
        BY <1>1, ElementOfSeq
      <4> QED
        BY <3>1, <4>1 DEF SupersedeConfirmation, Confirmation
    <3> QED
      BY <1>1, <1>2, <3>1, <3>2 DEF VersionsNamed
  <2> QED
    BY <2>1, <2>2
<1>7. CASE Dispatching
  BY <1>3, <1>7
  DEF Dispatching, QualifyRequest, ReadForOffer, OfferDispatch, OfferRefused,
      RespondToOffer, SweepListsOffer, SweepExpiresOffer, SweepSkipsOffer, AssignRequest
<1>8. CASE RequestCustomerConfirmation \/ ConfirmationRefused \/ BeginFulfillment
           \/ \E result \in Results : RecordFulfillmentResult(result)
  BY <1>3, <1>8
  DEF RequestCustomerConfirmation, ConfirmationRefused, BeginFulfillment,
      RecordFulfillmentResult
<1>9. CASE ProposeAmendment \/ (\E terms \in Terms : ValidateAmendment(terms))
           \/ ReadForAdoption \/ AbandonAdoption
           \/ \E terminal \in {"REJECTED", "WITHDRAWN"} : RejectAmendment(terminal)
  BY <1>3, <1>9
  DEF ProposeAmendment, ValidateAmendment, ReadForAdoption, AbandonAdoption,
      RejectAmendment
<1>10. CASE Holding
  BY <1>3, <1>10
  DEF Holding, WithdrawProviderCapacity, HoldCapacity, RivalTakesWindow, RivalFreesWindow
<1>11. CASE UNCHANGED vars
  BY <1>3, <1>11 DEF vars
<1> QED
  BY <1>4, <1>5, <1>6, <1>7, <1>8, <1>9, <1>10, <1>11 DEF Next, Confirming, Amending

(* What a consent is to does not move while the version does not.          *)
LEMMA AgreedFrame ==
    ASSUME VersionsNamed, TypeOK, Agreed, UNCHANGED <<confirmations, currentVersion>>,
           \A v \in DOMAIN versions : versions'[v] = versions[v]
    PROVE  Agreed'
<1>1. currentVersion \in DOMAIN versions
       /\ \A c \in DOMAIN confirmations : confirmations[c].version \in DOMAIN versions
  BY LenProperties DEF TypeOK, VersionsNamed
<1> QED
  BY <1>1 DEF Agreed

LEMMA DriftStep ==
    ASSUME IInv, VersionsNamed, Agreed, [Next]_vars
    PROVE  \/ Agreed'
           \/ Overtaken /\ currentVersion' = Latest.candidate
           \/ Confirms /\ confirming # currentVersion
<1> USE DEF IInv
<1>1. \A v \in DOMAIN versions : versions'[v] = versions[v]
  BY AuthorityStep
<1>2. UNCHANGED <<confirmations, currentVersion>> => Agreed'
  BY <1>1, AgreedFrame
<1>3. CASE ConfirmBooking
  <2> DEFINE row == [version |-> confirming, status |-> "CONFIRMED"]
  <2>1. /\ row \in Confirmation /\ confirmations \in Seq(Confirmation)
        /\ confirmations' = Append(confirmations, row) /\ ~HasActiveConfirmation
        /\ UNCHANGED <<currentVersion, versions>>
    BY <1>3 DEF TypeOK, ConfirmBooking, Confirmation, amendmentVars
  <2>2. /\ DOMAIN confirmations = 1 .. Len(confirmations) /\ Len(confirmations) \in Nat
        /\ DOMAIN confirmations' = 1 .. Len(confirmations) + 1
        /\ \A c \in 1 .. Len(confirmations) : confirmations'[c] = confirmations[c]
        /\ confirmations'[Len(confirmations) + 1] = row
    BY <2>1, AppendProperties, LenProperties
  <2>3. Confirms
    BY <2>1, <2>2 DEF Confirms, HasActiveConfirmation
  <2>4. CASE confirming = currentVersion
    <3>1. \A c \in DOMAIN confirmations' : confirmations'[c].status = "CONFIRMED" =>
             c = Len(confirmations) + 1
      BY <2>1, <2>2 DEF HasActiveConfirmation
    <3> QED
      BY <2>1, <2>2, <2>4, <3>1 DEF Agreed
  <2> QED
    BY <2>3, <2>4
<1>4. CASE Adopt
  <2>1. currentVersion' = Latest.candidate /\ UNCHANGED versions /\ LatestIs(Validated)
    BY <1>4 DEF Adopt, AmendmentsInOrder
  <2>2. CASE Latest.requiresReconfirmation
    <3>1. ~HasActiveConfirmation'
      BY <1>4, <2>2, SupersededRows DEF Adopt, TypeOK
    <3> QED
      BY <3>1 DEF HasActiveConfirmation, Agreed
  <2>3. CASE ~Latest.requiresReconfirmation
    <3>1. UNCHANGED confirmations
      BY <1>4, <2>3 DEF Adopt
    <3>2. ASSUME ~Agreed' PROVE Overtaken
      <4>1. PICK c \in DOMAIN confirmations :
               /\ confirmations[c].status = "CONFIRMED"
               /\ versions[confirmations[c].version] # versions[Latest.candidate]
        BY <2>1, <3>1, <3>2 DEF Agreed
      <4> QED
        BY <2>1, <2>3, <4>1 DEF Agreed, Overtaken, HasActiveConfirmation
    <3> QED
      BY <2>1, <3>2
  <2> QED
    BY <2>2, <2>3
<1>5. CASE Dispatching
  BY <1>2, <1>5
  DEF Dispatching, QualifyRequest, ReadForOffer, OfferDispatch, OfferRefused,
      RespondToOffer, SweepListsOffer, SweepExpiresOffer, SweepSkipsOffer,
      AssignRequest, consentVars, amendmentVars
<1>6. CASE RequestCustomerConfirmation \/ ReadForConfirmation \/ ConfirmationRefused
           \/ BeginFulfillment \/ \E result \in Results : RecordFulfillmentResult(result)
  BY <1>2, <1>6
  DEF RequestCustomerConfirmation, ReadForConfirmation, ConfirmationRefused,
      BeginFulfillment, RecordFulfillmentResult, consentVars, amendmentVars
<1>7. CASE ProposeAmendment \/ (\E terms \in Terms : ValidateAmendment(terms))
           \/ ReadForAdoption \/ AbandonAdoption
           \/ \E terminal \in {"REJECTED", "WITHDRAWN"} : RejectAmendment(terminal)
  BY <1>2, <1>7
  DEF ProposeAmendment, ValidateAmendment, ReadForAdoption, AbandonAdoption,
      RejectAmendment, consentVars
<1>8. CASE Holding
  BY <1>2, <1>8
  DEF Holding, WithdrawProviderCapacity, HoldCapacity, RivalTakesWindow,
      RivalFreesWindow, consentVars, amendmentVars
<1>9. CASE UNCHANGED vars
  BY <1>2, <1>9 DEF vars
<1> QED
  BY <1>3, <1>4, <1>5, <1>6, <1>7, <1>8, <1>9 DEF Next, Confirming, Amending

(* Validation asks about a consent there is; only one that comes later     *)
(* escapes it.                                                             *)
LEMMA OvertakenStep ==
    ASSUME IInv, ~Overtaken, Overtaken', [Next]_vars
    PROVE  Confirms
<1> USE DEF IInv
<1>1. CASE Dispatching \/ Confirming
  <2>1. UNCHANGED <<currentVersion, amendments, versions>>
    BY <1>1, ConfirmedStays
  <2> QED
    BY <2>1 DEF Overtaken, LatestIs, Latest, Confirms
<1>2. CASE ProposeAmendment
  <2> DEFINE row == [state |-> "PROPOSED", candidate |-> 0,
                     requiresReconfirmation |-> FALSE]
  <2>1. row \in AmendmentRow /\ amendments' = Append(amendments, row)
         /\ amendments \in Seq(AmendmentRow)
    BY <1>2 DEF AmendmentRow, OpenStates, ProposeAmendment, TypeOK
  <2>2. amendments'[Len(amendments')].state = "PROPOSED"
    BY <2>1, AppendProperties
  <2> QED
    BY <2>2 DEF Overtaken, LatestIs, Validated
<1>3. ASSUME NEW terms \in Terms, ValidateAmendment(terms) PROVE FALSE
  <2> DEFINE reconfirm == HasActiveConfirmation /\ terms # versions[currentVersion]
  <2> DEFINE new == [state |-> IF reconfirm THEN "REQUIRES_RECONFIRMATION"
                                            ELSE "VALIDATING",
                     candidate |-> currentVersion + 1,
                     requiresReconfirmation |-> reconfirm]
  <2>1. /\ amendments \in Seq(AmendmentRow) /\ amendments # <<>>
        /\ amendments' = [amendments EXCEPT ![Len(amendments)] = new]
        /\ versions \in Seq(Terms) /\ Len(versions) = currentVersion
        /\ versions' = Append(versions, terms) /\ currentVersion \in 1 .. Len(versions)
        /\ UNCHANGED <<currentVersion, confirmations>>
    BY <1>3 DEF ValidateAmendment, LatestIs, TypeOK, consentVars
  <2>2. reconfirm \in BOOLEAN
    BY DEF HasActiveConfirmation
  <2>3. new \in AmendmentRow
    BY <2>1, <2>2, LenProperties DEF AmendmentRow, OpenStates, Validated
  <2>4. Latest' = new
    BY <2>1, <2>3, NewestRow DEF Latest
  <2>5. new.candidate = currentVersion + 1 /\ new.requiresReconfirmation = reconfirm
    OBVIOUS
  <2> HIDE DEF new
  <2>6. versions'[currentVersion + 1] = terms /\ versions'[currentVersion] = versions[currentVersion]
    BY <2>1, AppendProperties, LenProperties
  <2>7. HasActiveConfirmation' <=> HasActiveConfirmation
    BY <2>1 DEF HasActiveConfirmation
  <2> QED
    BY <2>1, <2>4, <2>5, <2>6, <2>7 DEF Overtaken
<1>4. ASSUME NEW decision \in Decided, DecideLatest(decision), amendments # <<>>
      PROVE  FALSE
  <2>1. Latest'.state = decision
    BY <1>4, DecideTypes
  <2> QED
    BY <1>4, <2>1 DEF Overtaken, LatestIs, Latest, Validated, Decided
<1>5. CASE Adopt
  <2>1. amendments # <<>> /\ DecideLatest("APPLIED")
    BY <1>5 DEF Adopt, AmendmentsInOrder, LatestIs
  <2> QED
    BY <1>4, <2>1 DEF Decided
<1>6. ASSUME NEW terminal \in {"REJECTED", "WITHDRAWN"}, RejectAmendment(terminal)
      PROVE  FALSE
  <2>1. amendments # <<>> /\ DecideLatest(terminal) /\ terminal \in Decided
    BY <1>6 DEF RejectAmendment, LatestIs, Decided
  <2> QED
    BY <1>4, <2>1
<1>7. CASE ReadForAdoption \/ AbandonAdoption \/ Holding \/ UNCHANGED vars
  <2>1. UNCHANGED <<currentVersion, amendments, versions, confirmations>>
    BY <1>7 DEF ReadForAdoption, AbandonAdoption, Holding, WithdrawProviderCapacity,
       HoldCapacity, RivalTakesWindow, RivalFreesWindow, vars, amendmentVars, consentVars
  <2> QED
    BY <2>1 DEF Overtaken, LatestIs, Latest, HasActiveConfirmation
<1> QED
  BY <1>1, <1>2, <1>3, <1>5, <1>6, <1>7 DEF Next, Amending

(* Where the inherited_consent run can come from, and nowhere else: a      *)
(* consent on record stops being to what is promised only when a change is *)
(* adopted that the customer confirmed past after its validation, or when  *)
(* a confirmation lands that had read its version before an adoption       *)
(* (amendment.ts:338, customerConfirmation.ts).                            *)
THEOREM ConsentDriftsInTwoWindows ==
    Spec => [][/\ Agreed /\ ~Agreed' => \/ Overtaken /\ currentVersion' = Latest.candidate
                                        \/ Confirms /\ confirming # currentVersion
               /\ ~Overtaken /\ Overtaken' => Confirms]_vars
<1>1. Init => VersionsNamed
  <2> SUFFICES ASSUME Init PROVE VersionsNamed
    OBVIOUS
  <2>1. DOMAIN confirmations = {} /\ confirming = 0 /\ currentVersion = 1
    BY EmptySeq DEF Init
  <2> QED
    BY <2>1 DEF VersionsNamed
<1>2. Spec => []VersionsNamed
  BY <1>1, VersionsNamedStep, Agreement, PTL DEF Spec
<1>3. IInv /\ VersionsNamed /\ [Next]_vars =>
         [/\ Agreed /\ ~Agreed' => \/ Overtaken /\ currentVersion' = Latest.candidate
                                   \/ Confirms /\ confirming # currentVersion
          /\ ~Overtaken /\ Overtaken' => Confirms]_vars
  BY DriftStep, OvertakenStep
<1> QED
  BY <1>2, <1>3, Agreement, PTL DEF Spec
=============================================================================
