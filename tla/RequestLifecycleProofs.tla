---------------------- MODULE RequestLifecycleProofs ----------------------
(***************************************************************************)
(* Theorems about one request, for any set of providers and any bound on   *)
(* its attempts and assignments.                                           *)
(***************************************************************************)
EXTENDS RequestLifecycle, SequenceTheorems, TLAPS

(* A function on the rows of a table is a table of the same length.        *)
LEMMA SameTable ==
    ASSUME NEW S, NEW rows \in Seq(S), NEW table \in [DOMAIN rows -> S]
    PROVE  /\ table \in Seq(S)
           /\ Len(table) = Len(rows)
           /\ DOMAIN table = 1 .. Len(rows)
<1>1. Len(rows) \in Nat /\ DOMAIN rows = 1 .. Len(rows)
  BY LenProperties
<1>2. table \in Seq(S)
  BY <1>1
<1> QED
  BY <1>1, <1>2, LenProperties

(* Ending the active assignments touches nothing but their status.         *)
LEMMA EndActiveRows ==
    ASSUME NEW rows \in Seq(Assignment),
           NEW status \in {"REPLACED", "REVOKED"}
    PROVE  /\ EndActive(rows, status) \in Seq(Assignment)
           /\ Len(EndActive(rows, status)) = Len(rows)
           /\ DOMAIN EndActive(rows, status) = DOMAIN rows
           /\ \A a \in DOMAIN rows :
                 /\ EndActive(rows, status)[a].provider = rows[a].provider
                 /\ EndActive(rows, status)[a].attempt = rows[a].attempt
                 /\ EndActive(rows, status)[a].status # "ACTIVE"
<1>1. \A a \in DOMAIN rows : rows[a] \in Assignment
  BY ElementOfSeq, LenProperties
<1>2. EndActive(rows, status) \in [DOMAIN rows -> Assignment]
  BY <1>1 DEF EndActive, Assignment, AssignmentStatuses
<1>3. \A a \in DOMAIN rows :
         /\ EndActive(rows, status)[a].provider = rows[a].provider
         /\ EndActive(rows, status)[a].attempt = rows[a].attempt
         /\ EndActive(rows, status)[a].status # "ACTIVE"
  BY <1>1 DEF EndActive, Assignment
<1> QED
  BY <1>2, <1>3, SameTable, LenProperties

(* Ending the live contexts leaves none, and touches only their status.    *)
LEMMA EndedRows ==
    ASSUME NEW rows \in Seq(Context),
           NEW status \in {"SUPERSEDED", "WITHDRAWN"}
    PROVE  LET ended == [c \in DOMAIN rows |-> Ended(rows[c], status)]
           IN  /\ ended \in Seq(Context)
               /\ Len(ended) = Len(rows)
               /\ DOMAIN ended = DOMAIN rows
               /\ \A c \in DOMAIN rows : ~IsLive(ended[c])
<1> DEFINE ended == [c \in DOMAIN rows |-> Ended(rows[c], status)]
<1>1. \A c \in DOMAIN rows : rows[c] \in Context
  BY ElementOfSeq, LenProperties
<1>2. ended \in [DOMAIN rows -> Context]
  BY <1>1 DEF Ended, IsLive, Context, ContextStatuses
<1>3. \A c \in DOMAIN rows : ~IsLive(ended[c])
  BY <1>1 DEF Ended, IsLive, Context
<1> QED
  BY <1>2, <1>3, SameTable, LenProperties

(* Deciding an attempt keeps the table of attempts a table.                *)
LEMMA DecideRows ==
    ASSUME NEW rows \in Seq(Attempt), NEW i \in DOMAIN rows,
           NEW decision \in AttemptStates
    PROVE  LET decided == [rows EXCEPT ![i].state = decision]
           IN  /\ decided \in Seq(Attempt)
               /\ Len(decided) = Len(rows)
               /\ DOMAIN decided = DOMAIN rows
               /\ decided[i].state = decision
               /\ \A j \in DOMAIN rows : j # i => decided[j] = rows[j]
<1>1. \A a \in DOMAIN rows : rows[a] \in Attempt
  BY ElementOfSeq, LenProperties
<1>2. [rows EXCEPT ![i].state = decision] \in [DOMAIN rows -> Attempt]
  <2>1. [rows[i] EXCEPT !.state = decision] \in Attempt
    BY <1>1 DEF Attempt
  <2> QED
    BY <1>1, <2>1
<1>3. /\ [rows EXCEPT ![i].state = decision][i].state = decision
      /\ \A j \in DOMAIN rows : j # i =>
            [rows EXCEPT ![i].state = decision][j] = rows[j]
  BY <1>1 DEF Attempt
<1> QED
  BY <1>2, <1>3, SameTable, LenProperties

-----------------------------------------------------------------------------
(* The initial state of a request is well typed.                           *)
LEMMA TypeInit == Init => TypeOK
<1> SUFFICES ASSUME Init PROVE TypeOK
  OBVIOUS
<1>1. state \in RequestStates
  BY DEF Init, RequestStates, LegalTransitions
<1>2. /\ attempts \in Seq(Attempt) /\ Len(attempts) <= MaxAttempts
      /\ assignments \in Seq(Assignment) /\ Len(assignments) <= MaxAssignments
      /\ contexts \in Seq(Context)
  BY BoundsAssumption, EmptySeq DEF Init
<1>3. recovery \in [status : Resolutions \union {"OPEN", None},
                   trigger : Triggers \union {None}]
  BY DEF Init, NoRecovery
<1>4. holds \in [Providers -> {None, "HELD", "COMMITTED"}]
  BY DEF Init
<1>5. currentVersion \in Nat \ {0} /\ busy \subseteq Providers
  BY DEF Init
<1> QED
  BY <1>1, <1>2, <1>3, <1>4, <1>5 DEF Init, TypeOK

(* A recovery that is opened or resolved is still a recovery.              *)
LEMMA RecoveryRows ==
    ASSUME TypeOK, NEW trigger \in Triggers, NEW resolution \in Resolutions
    PROVE  LET Rows == [status : Resolutions \union {"OPEN", None},
                        trigger : Triggers \union {None}]
           IN  /\ Opened(trigger) \in Rows
               /\ Resolved(recovery, resolution) \in Rows
               /\ Resolved(Opened(trigger), resolution) \in Rows
BY DEF TypeOK, Opened, Resolved

(* A legal transition leads to a state of the graph.                       *)
LEMMA TransitionTyped ==
    ASSUME NEW to, state \in RequestStates, Transition(to)
    PROVE  state' \in RequestStates
BY DEF Transition, RequestStates, LegalTransitions

(* Every handler keeps every variable well typed.                          *)
LEMMA TypeStep == TypeOK /\ [Next]_vars => TypeOK'
<1> SUFFICES ASSUME TypeOK, [Next]_vars PROVE TypeOK'
  OBVIOUS
<1> USE BoundsAssumption
<1>1. ASSUME NEW outcome \in Outcomes, QualifyRequest(outcome) PROVE TypeOK'
  BY <1>1 DEF QualifyRequest, TypeOK, dispatchVars, consentVars, supplyVars
<1>2. ASSUME NEW p \in Providers, DispatchProvider(p) PROVE TypeOK'
  <2>1. state' \in RequestStates
    BY <1>2, TransitionTyped DEF DispatchProvider, TypeOK
  <2>2. [provider |-> p, state |-> "OFFERED"] \in Attempt
    BY DEF Attempt, AttemptStates
  <2>3. attempts' \in Seq(Attempt) /\ Len(attempts') = Len(attempts) + 1
    BY <1>2, <2>2, AppendProperties DEF DispatchProvider, TypeOK
  <2>4. Len(attempts') <= MaxAttempts
    BY <1>2, <2>3, LenProperties DEF DispatchProvider, TypeOK
  <2> QED
    BY <1>2, <2>1, <2>3, <2>4
    DEF DispatchProvider, TypeOK, demandVars, consentVars, supplyVars
<1>3. ASSUME NEW p \in Providers, ReassignProvider(p) PROVE TypeOK'
  <2>1. state' \in RequestStates
    BY <1>3, TransitionTyped DEF ReassignProvider, TypeOK
  <2> DEFINE heir == [provider |-> p,
                      attempt |-> assignments[Len(assignments)].attempt,
                      status |-> "ACTIVE"]
  <2>2. heir \in Assignment
    <3>1. Len(assignments) \in DOMAIN assignments
      BY <1>3 DEF ReassignProvider, IsActiveAssignment
    <3>2. assignments[Len(assignments)] \in Assignment
      BY <3>1, LenProperties, ElementOfSeq DEF TypeOK
    <3> QED
      BY <3>2 DEF Assignment, AssignmentStatuses
  <2>3. /\ assignments' \in Seq(Assignment)
        /\ Len(assignments') = Len(assignments) + 1
    BY <1>3, <2>2, EndActiveRows, AppendProperties DEF ReassignProvider, TypeOK
  <2>4. contexts' \in Seq(Context)
    BY <1>3, EndedRows DEF ReassignProvider, EndLiveContext, TypeOK
  <2>5. Len(assignments') <= MaxAssignments
    BY <1>3, <2>3, LenProperties DEF ReassignProvider, TypeOK
  <2> QED
    BY <1>3, <2>1, <2>3, <2>4, <2>5
    DEF ReassignProvider, TypeOK, demandVars, dispatchVars, supplyVars
<1>4. CASE RequestCustomerConfirmation
  <2>1. state' \in RequestStates
    BY <1>4, TransitionTyped DEF RequestCustomerConfirmation, TypeOK
  <2>2. contexts' \in Seq(Context)
    <3> DEFINE ended == [c \in DOMAIN contexts |-> Ended(contexts[c], "SUPERSEDED")]
               context(a) == [assignment |-> a, version |-> currentVersion,
                              status |-> "PENDING"]
    <3>1. PICK a \in DOMAIN assignments : contexts' = Append(ended, context(a))
      BY <1>4 DEF RequestCustomerConfirmation
    <3>2. a \in 1 .. MaxAssignments
      BY LenProperties DEF TypeOK
    <3>3. context(a) \in Context
      BY <3>2 DEF TypeOK, Context, ContextStatuses
    <3>4. ended \in Seq(Context)
      BY EndedRows DEF TypeOK
    <3> QED
      BY <3>1, <3>3, <3>4, AppendProperties
  <2> QED
    BY <1>4, <2>1, <2>2
    DEF RequestCustomerConfirmation, TypeOK, demandVars, dispatchVars, supplyVars
<1>5. CASE RecordCustomerConfirmation
  <2>1. state' \in RequestStates
    BY <1>5, TransitionTyped DEF RecordCustomerConfirmation, TypeOK
  <2>2. contexts' \in Seq(Context)
    <3>1. PICK c \in DOMAIN contexts :
             contexts' = [contexts EXCEPT ![c].status = "CONFIRMED"]
      BY <1>5 DEF RecordCustomerConfirmation
    <3>2. contexts[c] \in Context
      BY ElementOfSeq, LenProperties DEF TypeOK
    <3>3. [contexts[c] EXCEPT !.status = "CONFIRMED"] \in Context
      BY <3>2 DEF Context, ContextStatuses
    <3> QED
      BY <3>1, <3>3, ExceptSeq, LenProperties DEF TypeOK
  <2> QED
    BY <1>5, <2>1, <2>2
    DEF RecordCustomerConfirmation, TypeOK, demandVars, dispatchVars, supplyVars
<1>6. CASE StartFulfillment
  BY <1>6, TransitionTyped
  DEF StartFulfillment, TypeOK, demandVars, dispatchVars, consentVars, supplyVars
<1>7. ASSUME NEW target \in Results, NEW from, Conclude(target, from)
      PROVE  TypeOK'
  <2>1. recovery' \in [status : Resolutions \union {"OPEN", None},
                       trigger : Triggers \union {None}]
    BY <1>7, RecoveryRows DEF Conclude, TypeOK, Resolutions, Triggers
  <2> QED
    BY <1>7, <2>1, TransitionTyped
    DEF Conclude, ReleaseAllCapacity, TypeOK, demandVars, dispatchVars,
        consentVars, supplyVars
<1>8. CASE CancelService
  <2>1. recovery' \in [status : Resolutions \union {"OPEN", None},
                       trigger : Triggers \union {None}]
    BY <1>8, RecoveryRows DEF CancelService, TypeOK, Resolutions, Triggers
  <2>2. /\ assignments' \in Seq(Assignment)
        /\ Len(assignments') = Len(assignments)
    BY <1>8, EndActiveRows DEF CancelService, TypeOK
  <2>3. contexts' \in Seq(Context)
    BY <1>8, EndedRows DEF CancelService, EndLiveContext, TypeOK
  <2>4. state' \in RequestStates
    BY <1>8, TransitionTyped DEF CancelService, TypeOK
  <2> QED
    BY <1>8, <2>1, <2>2, <2>3, <2>4
    DEF CancelService, ReleaseAllCapacity, TypeOK, demandVars, dispatchVars,
        supplyVars
<1>9. ASSUME NEW p \in Providers, RecordCapacityLoss(p) PROVE TypeOK'
  <2>1. recovery' \in [status : Resolutions \union {"OPEN", None},
                       trigger : Triggers \union {None}]
    BY <1>9, RecoveryRows DEF RecordCapacityLoss, Resolutions, Triggers
  <2> QED
    BY <1>9, <2>1
    DEF RecordCapacityLoss, TypeOK, demandVars, dispatchVars, consentVars,
        supplyVars
<1>10. CASE InitiateOperationalRecovery
  <2>1. recovery' \in [status : Resolutions \union {"OPEN", None},
                       trigger : Triggers \union {None}]
    BY <1>10, RecoveryRows DEF InitiateOperationalRecovery, Resolutions, Triggers
  <2> QED
    BY <1>10, <2>1
    DEF InitiateOperationalRecovery, TypeOK, demandVars, dispatchVars,
        consentVars, supplyVars
<1>11. ASSUME NEW i \in DOMAIN attempts, Response(i) PROVE TypeOK'
  <2>1. ASSUME NEW decision \in AttemptStates, Decide(i, decision)
        PROVE  attempts' \in Seq(Attempt) /\ Len(attempts') = Len(attempts)
    BY <2>1, DecideRows DEF Decide, TypeOK
  <2>2. CASE ExpireDispatch(i)
    <3>1. recovery' \in [status : Resolutions \union {"OPEN", None},
                         trigger : Triggers \union {None}]
      BY <2>2, RecoveryRows DEF ExpireDispatch, Resolutions, Triggers
    <3> QED
      BY <2>1, <2>2, <3>1, TransitionTyped
      DEF ExpireDispatch, TypeOK, AttemptStates, demandVars, consentVars,
          supplyVars
  <2>3. CASE RecordProviderAcceptance(i)
    BY <2>1, <2>3, TransitionTyped
    DEF RecordProviderAcceptance, TypeOK, AttemptStates, demandVars, consentVars,
        supplyVars
  <2>4. CASE RecordProviderRejection(i)
    <3>1. recovery' \in [status : Resolutions \union {"OPEN", None},
                         trigger : Triggers \union {None}]
      BY <2>4, RecoveryRows DEF RecordProviderRejection, Resolutions, Triggers
    <3> QED
      BY <2>1, <2>4, <3>1, TransitionTyped
      DEF RecordProviderRejection, TypeOK, AttemptStates, demandVars,
          consentVars, supplyVars
  <2>5. CASE AssignProvider(i)
    <3>1. attempts[i] \in Attempt /\ i \in 1 .. MaxAttempts
      BY ElementOfSeq, LenProperties DEF TypeOK
    <3>2. [provider |-> attempts[i].provider, attempt |-> i, status |-> "ACTIVE"]
             \in Assignment
      BY <3>1 DEF Attempt, Assignment, AssignmentStatuses
    <3>3. assignments' \in Seq(Assignment) /\ Len(assignments') = 1
      BY <2>5, <3>2 DEF AssignProvider
    <3> QED
      BY <2>5, <3>3, TransitionTyped
      DEF AssignProvider, TypeOK, demandVars, dispatchVars, consentVars,
          supplyVars
  <2> QED
    BY <1>11, <2>2, <2>3, <2>4, <2>5 DEF Response
<1>12. CASE Surroundings
  BY <1>12
  DEF Surroundings, HoldCapacity, CommitCapacity, RivalTakesWindow,
      RivalFreesWindow, SuspendProvider, ApproveProviderSupply,
      AcceptanceWindowCloses, ConfirmationWindowCloses, TypeOK, demandVars,
      dispatchVars, consentVars, supplyVars
<1>13. CASE UNCHANGED vars
  BY <1>13 DEF vars, TypeOK
<1> QED
  BY <1>1, <1>2, <1>3, <1>4, <1>5, <1>6, <1>7, <1>8, <1>9, <1>10, <1>11,
     <1>12, <1>13
  DEF Next, OwnerAct, CompleteService, MarkNoShow, MarkUnableToFulfill, Results

(* Every variable of a request keeps its type in every reachable state.    *)
THEOREM TypeCorrect == Spec => []TypeOK
<1>1. QED
  BY TypeInit, TypeStep, PTL DEF Spec
=============================================================================
