------------------------ MODULE ProviderSupplyProofs ------------------------
(***************************************************************************)
(* Theorems about a partner's supply, for any services, regions and keys   *)
(* and any number of profiles, cards and weeks.  What is sellable rests on *)
(* rows of five tables, so the invariants are proved together, each action *)
(* once; rows only ever evolve, which is all that a settled key needs.     *)
(***************************************************************************)
EXTENDS ProviderSupply, SequenceTheorems, TLAPS

(* What a partner's standing says of its rows.                             *)
Standing ==
    /\ session = "APPLICANT" => supplyStatus = None
    /\ session = "PARTNER" => supplyStatus # None
    /\ supplyStatus = None => profiles = <<>>
    /\ supplyStatus = "APPROVED" =>
          /\ publicId # 0
          /\ \E c \in DOMAIN cards : cards[c].state = "APPROVED"

(* Every settled key goes on naming what it settled.                       *)
KeysStand == \A k \in Keys : RowStands(ingress[k])

IInv == /\ TypeOK /\ SupplyIsWhatWasConfirmed /\ KeysStand
        /\ Standing

(* How rows may change: they are appended, decided, and then left.         *)
ProfilesEvolve ==
    \A n \in DOMAIN profiles : n \in DOMAIN profiles' /\ profiles'[n] = profiles[n]

CardsEvolve ==
    \A c \in DOMAIN cards :
       /\ c \in DOMAIN cards'
       /\ cards'[c].profile = cards[c].profile
       /\ cards[c].state # "SUBMITTED" => cards'[c] = cards[c]

SchedulesEvolve ==
    \A v \in DOMAIN schedules :
       /\ v \in DOMAIN schedules'
       /\ schedules'[v].regions = schedules[v].regions
       /\ schedules[v].state = "SUPERSEDED" => schedules'[v] = schedules[v]
       /\ schedules[v].state = "CONFIRMED" => schedules'[v].state # "SUBMITTED"

RowsEvolve == ProfilesEvolve /\ CardsEvolve /\ SchedulesEvolve

(* A key stays as it is, or is settled on a row that stands.               *)
KeysSettle ==
    \A k \in Keys : \/ ingress'[k] = ingress[k]
                    \/ ingress[k] = NoRow /\ RowStands(ingress[k])'

StandingKept ==
    /\ supplyStatus = "APPROVED" => supplyStatus' = "APPROVED"
    /\ publicId # 0 => publicId' = publicId

(* What every action is shown to do.                                       *)
StepOK == /\ TypeOK' /\ SupplyIsWhatWasConfirmed' /\ Standing'
          /\ RowsEvolve /\ KeysSettle /\ StandingKept

-----------------------------------------------------------------------------
(* Rows.                                                                   *)

(* A row replaced in its table.                                            *)
LEMMA EditRow ==
    ASSUME NEW S, NEW rows \in Seq(S), NEW i \in DOMAIN rows, NEW e \in S,
           NEW new, new = [rows EXCEPT ![i] = e]
    PROVE  /\ new \in Seq(S) /\ Len(new) = Len(rows) /\ DOMAIN new = DOMAIN rows
           /\ new[i] = e
           /\ \A j \in DOMAIN rows : j # i => new[j] = rows[j]
<1>1. DOMAIN rows = 1 .. Len(rows)
  BY LenProperties
<1>2. new \in Seq(S) /\ Len(new) = Len(rows)
  BY <1>1, ExceptSeq
<1>3. DOMAIN new = 1 .. Len(new)
  BY <1>2, LenProperties
<1> QED
  BY <1>1, <1>2, <1>3

(* A row appended to its table.                                            *)
Added(S, rows, e, new) ==
    /\ new \in Seq(S) /\ new # <<>>
    /\ Len(rows) \in Nat /\ Len(new) = Len(rows) + 1
    /\ DOMAIN rows = 1 .. Len(rows)
    /\ DOMAIN new = DOMAIN rows \union {Len(rows) + 1}
    /\ new[Len(rows) + 1] = e
    /\ \A j \in DOMAIN rows : new[j] = rows[j]

LEMMA AddRow ==
    ASSUME NEW S, NEW rows \in Seq(S), NEW e \in S
    PROVE  Added(S, rows, e, Append(rows, e))
<1> DEFINE new == Append(rows, e)
<1>1. Len(rows) \in Nat /\ DOMAIN rows = 1 .. Len(rows)
  BY LenProperties
<1>2. /\ new \in Seq(S) /\ new # <<>> /\ Len(new) = Len(rows) + 1
      /\ new[Len(rows) + 1] = e
      /\ \A j \in 1 .. Len(rows) : new[j] = rows[j]
  BY AppendProperties
<1> HIDE DEF new
<1>3. DOMAIN new = 1 .. (Len(rows) + 1)
  BY <1>2, LenProperties
<1>4. 1 .. (Len(rows) + 1) = (1 .. Len(rows)) \union {Len(rows) + 1}
  BY <1>1
<1>5. Added(S, rows, e, new)
  BY <1>1, <1>2, <1>3, <1>4 DEF Added
<1> QED
  BY <1>5 DEF new

(* A card is decided.                                                      *)
Decided(c, s, new) ==
    /\ new \in Seq(Card) /\ DOMAIN new = DOMAIN cards
    /\ new[c].state = s
    /\ \A x \in DOMAIN cards :
          /\ new[x].profile = cards[x].profile
          /\ cards[x].state # "SUBMITTED" => new[x] = cards[x]

LEMMA CardDecided ==
    ASSUME TypeOK, NEW c \in DOMAIN cards, cards[c].state = "SUBMITTED",
           NEW s \in {"APPROVED", "REJECTED"}
    PROVE  Decided(c, s, [cards EXCEPT ![c].state = s])
<1> DEFINE row == [cards[c] EXCEPT !.state = s]
           new == [cards EXCEPT ![c] = row]
<1>1. cards \in Seq(Card) /\ DOMAIN cards = 1 .. Len(cards)
  BY LenProperties DEF TypeOK
<1>2. cards[c] \in Card
  BY <1>1, ElementOfSeq
<1>3. row \in Card /\ row.profile = cards[c].profile /\ row.state = s
  BY <1>2 DEF Card
<1>4. [cards EXCEPT ![c].state = s] = new
  OBVIOUS
<1> HIDE DEF row
<1>5. /\ new \in Seq(Card) /\ DOMAIN new = DOMAIN cards
      /\ new[c] = row
      /\ \A x \in DOMAIN cards : x # c => new[x] = cards[x]
  BY <1>1, <1>3, EditRow
<1> HIDE DEF new
<1> QED
  BY <1>3, <1>4, <1>5 DEF Decided

(* A week is confirmed.                                                    *)
Confirmed(v, new) ==
    /\ new \in Seq(Schedule) /\ DOMAIN new = DOMAIN schedules
    /\ Len(new) = Len(schedules)
    /\ new[v].state = "CONFIRMED" /\ new[v].regions = schedules[v].regions
    /\ \A x \in DOMAIN schedules : x # v => new[x] = schedules[x]

LEMMA WeekConfirmed ==
    ASSUME TypeOK, NEW v \in DOMAIN schedules, schedules[v].state = "SUBMITTED"
    PROVE  Confirmed(v, [schedules EXCEPT ![v].state = "CONFIRMED"])
<1> DEFINE row == [schedules[v] EXCEPT !.state = "CONFIRMED"]
           new == [schedules EXCEPT ![v] = row]
<1>1. schedules \in Seq(Schedule) /\ DOMAIN schedules = 1 .. Len(schedules)
  BY LenProperties DEF TypeOK
<1>2. schedules[v] \in Schedule
  BY <1>1, ElementOfSeq
<1>3. /\ row \in Schedule /\ row.regions = schedules[v].regions
      /\ row.state = "CONFIRMED"
  BY <1>2 DEF Schedule
<1>4. [schedules EXCEPT ![v].state = "CONFIRMED"] = new
  OBVIOUS
<1> HIDE DEF row
<1>5. /\ new \in Seq(Schedule) /\ DOMAIN new = DOMAIN schedules
      /\ Len(new) = Len(schedules)
      /\ new[v] = row
      /\ \A x \in DOMAIN schedules : x # v => new[x] = schedules[x]
  BY <1>1, <1>3, <1>4, EditRow
<1> HIDE DEF new
<1> QED
  BY <1>3, <1>4, <1>5 DEF Confirmed

(* The week is replaced: what was open is closed.                          *)
Replaced(week, new) ==
    /\ new \in Seq(Schedule) /\ Len(schedules) \in Nat
    /\ Len(new) = Len(schedules) + 1
    /\ DOMAIN new = DOMAIN schedules \union {Len(schedules) + 1}
    /\ new[Len(schedules) + 1] = [regions |-> week, state |-> "SUBMITTED"]
    /\ \A v \in DOMAIN schedules :
          /\ new[v].regions = schedules[v].regions
          /\ new[v].state = "SUPERSEDED"
          /\ schedules[v].state = "SUPERSEDED" => new[v] = schedules[v]

LEMMA WeekReplaced ==
    ASSUME TypeOK, NEW week \in SUBSET Regions, NEW new,
           new = Append([v \in DOMAIN schedules |->
                            [schedules[v] EXCEPT !.state = "SUPERSEDED"]],
                        [regions |-> week, state |-> "SUBMITTED"])
    PROVE  Replaced(week, new)
<1> DEFINE closed == [v \in DOMAIN schedules |->
                         [schedules[v] EXCEPT !.state = "SUPERSEDED"]]
           row == [regions |-> week, state |-> "SUBMITTED"]
<1>1. /\ schedules \in Seq(Schedule) /\ Len(schedules) \in Nat
      /\ DOMAIN schedules = 1 .. Len(schedules)
  BY LenProperties DEF TypeOK
<1>2. \A v \in DOMAIN schedules : schedules[v] \in Schedule
  BY <1>1, ElementOfSeq
<1>3. \A v \in DOMAIN schedules :
         /\ closed[v] \in Schedule
         /\ closed[v].regions = schedules[v].regions
         /\ closed[v].state = "SUPERSEDED"
         /\ schedules[v].state = "SUPERSEDED" => closed[v] = schedules[v]
  BY <1>2 DEF Schedule
<1>4. /\ closed \in Seq(Schedule) /\ Len(closed) = Len(schedules)
      /\ DOMAIN closed = DOMAIN schedules
  <2>1. closed \in [1 .. Len(schedules) -> Schedule]
    BY <1>1, <1>3
  <2> HIDE DEF closed
  <2>2. closed \in Seq(Schedule) /\ Len(closed) = Len(schedules)
    BY <1>1, <2>1
  <2> QED
    BY <1>1, <2>1, <2>2
<1>5. row \in Schedule
  BY DEF Schedule
<1>6. new = Append(closed, row)
  OBVIOUS
<1> HIDE DEF closed, row
<1>7. /\ new \in Seq(Schedule)
      /\ Len(new) = Len(closed) + 1
      /\ DOMAIN new = DOMAIN closed \union {Len(closed) + 1}
      /\ new[Len(closed) + 1] = row
      /\ \A v \in DOMAIN closed : new[v] = closed[v]
  <2>1. Added(Schedule, closed, row, new)
    BY <1>4, <1>5, <1>6, AddRow
  <2> QED
    BY <2>1 DEF Added
<1>8. Len(closed) = Len(schedules) /\ DOMAIN closed = DOMAIN schedules
  BY <1>4
<1> QED
  <2>1. row = [regions |-> week, state |-> "SUBMITTED"]
    BY DEF row
  <2>2. \A v \in DOMAIN schedules : new[v] = closed[v]
    BY <1>7, <1>8
  <2>3. \A v \in DOMAIN schedules :
           /\ new[v].regions = schedules[v].regions
           /\ new[v].state = "SUPERSEDED"
           /\ schedules[v].state = "SUPERSEDED" => new[v] = schedules[v]
    BY <1>3, <2>2
  <2> QED
    BY <1>1, <1>7, <1>8, <2>1, <2>3 DEF Replaced

-----------------------------------------------------------------------------
(* Keys.                                                                   *)

(* A row that stands goes on standing, however the tables evolve.          *)
LEMMA RowKept ==
    ASSUME TypeOK, RowsEvolve, NEW row, RowStands(row)
    PROVE  RowStands(row)'
<1>1. \A v \in DOMAIN schedules :
         schedules[v].state \in {"SUBMITTED", "CONFIRMED", "SUPERSEDED"}
  <2>1. schedules \in Seq(Schedule) /\ DOMAIN schedules = 1 .. Len(schedules)
    BY LenProperties DEF TypeOK
  <2>2. \A v \in DOMAIN schedules : schedules[v] \in Schedule
    BY <2>1, ElementOfSeq
  <2> QED
    BY <2>2 DEF Schedule
<1> QED
  BY <1>1 DEF RowStands, RowsEvolve, ProfilesEvolve, CardsEvolve, SchedulesEvolve

(* Where no key is claimed none is settled; and a command settles at most  *)
(* the key it claimed.                                                     *)
LEMMA KeysKept == UNCHANGED ingress => KeysSettle
BY DEF KeysSettle

LEMMA KeyRecorded ==
    ASSUME TypeOK, NEW k, NEW row \in IngressRow, Claim(k),
           Record(k, row.command, row.fingerprint, row.ref), RowStands(row)'
    PROVE  KeysSettle /\ ingress' \in [Keys -> IngressRow \union {NoRow}]
<1>1. ingress \in [Keys -> IngressRow \union {NoRow}]
  BY DEF TypeOK
<1>2. row = [command |-> row.command, fingerprint |-> row.fingerprint, ref |-> row.ref]
  BY DEF IngressRow
<1>3. ingress' = IF k \in Keys THEN [ingress EXCEPT ![k] = row] ELSE ingress
  BY <1>2 DEF Record
<1>4. /\ ingress' \in [Keys -> IngressRow \union {NoRow}]
      /\ \A j \in Keys : ingress'[j] = ingress[j]
                        \/ (ingress[j] = NoRow /\ ingress'[j] = row)
  BY <1>1, <1>3 DEF Claim
<1>5. \A j \in Keys : ingress'[j] = row => RowStands(ingress[j])'
  BY DEF RowStands
<1> QED
  BY <1>4, <1>5 DEF KeysSettle

(* So every settled key goes on naming what it settled.                    *)
LEMMA RemembersStep ==
    ASSUME IInv, RowsEvolve, KeysSettle
    PROVE  KeysStand'
<1>1. \A k \in Keys : RowStands(ingress[k])
  BY DEF IInv, KeysStand
<1>2. ASSUME NEW k \in Keys PROVE RowStands(ingress[k])'
  <2>1. CASE ingress'[k] = ingress[k]
    <3>1. TypeOK
      BY DEF IInv
    <3> DEFINE row == ingress[k]
    <3>2. RowStands(row)
      BY <1>1
    <3> HIDE DEF row
    <3>3. \A r : RowStands(r) => RowStands(r)'
      BY <3>1, RowKept
    <3> QED
      BY <2>1, <3>2, <3>3 DEF RowStands, row
  <2> QED
    BY <2>1, <1>2 DEF KeysSettle
<1> QED
  BY <1>2 DEF KeysStand

-----------------------------------------------------------------------------
(* The actions.                                                            *)

(* A session begins or ends.                                               *)
LEMMA SessionsStep ==
    ASSUME IInv, Sessions
    PROVE  StepOK
<1>1. /\ TypeOK /\ SupplyIsWhatWasConfirmed /\ Standing
      /\ UNCHANGED <<supplyStatus, profiles, cards, publicId, capabilities, schedules,
                     windows, catalogue, areas, ingress>>
  BY DEF IInv, Sessions, Enrol, IssueProviderAccessSession, SessionEnds, cardVars,
         scheduleVars, projectionVars
<1>2. /\ session' \in SessionStates
      /\ session' = "APPLICANT" => supplyStatus = None
      /\ session' = "PARTNER" => supplyStatus # None
  BY <1>1 DEF Sessions, Enrol, IssueProviderAccessSession, SessionEnds, SessionStates,
              None
<1>3. TypeOK'
  BY <1>1, <1>2 DEF TypeOK
<1>4. Standing'
  BY <1>1, <1>2 DEF Standing
<1>5. SupplyIsWhatWasConfirmed'
  BY <1>1 DEF SupplyIsWhatWasConfirmed, Open
<1> QED
  BY <1>1, <1>3, <1>4, <1>5, KeysKept
  DEF StepOK, RowsEvolve, ProfilesEvolve, CardsEvolve, SchedulesEvolve, StandingKept

(* The partner a submission is attached to.                                *)
LEMMA Attached ==
    ASSUME IInv, AttachProvider
    PROVE  /\ session' = "PARTNER"
           /\ supplyStatus' \in {"SUBMITTED", "APPROVED"}
           /\ supplyStatus' = "APPROVED" => supplyStatus = "APPROVED"
           /\ supplyStatus = "APPROVED" => supplyStatus' = "APPROVED"
<1>1. /\ session \in {"APPLICANT", "PARTNER"}
      /\ supplyStatus \in {None, "SUBMITTED", "APPROVED"}
      /\ session = "APPLICANT" => supplyStatus = None
      /\ session = "PARTNER" => supplyStatus # None
  BY DEF IInv, TypeOK, Standing, AttachProvider, SessionStates
<1> QED
  BY <1>1 DEF AttachProvider, None

(* A profile version is appended.                                          *)
LEMMA SubmitProviderProfileStep ==
    ASSUME IInv, NEW codes \in (SUBSET Services) \ {{}}, NEW k \in Keys \union {None},
           SubmitProviderProfile(codes, k)
    PROVE  StepOK
<1>1. /\ TypeOK /\ SupplyIsWhatWasConfirmed /\ Standing
      /\ UNCHANGED <<cards, publicId, capabilities, schedules, windows, catalogue, areas>>
      /\ profiles' = Append(profiles, codes)
      /\ AttachProvider
  BY DEF IInv, SubmitProviderProfile, cardVars, scheduleVars, projectionVars
<1>2. /\ profiles' \in Seq((SUBSET Services) \ {{}}) /\ profiles' # <<>>
      /\ Len(profiles) \in Nat
      /\ DOMAIN profiles' = DOMAIN profiles \union {Len(profiles) + 1}
      /\ profiles'[Len(profiles) + 1] = codes
      /\ \A n \in DOMAIN profiles : profiles'[n] = profiles[n]
  <2>1. Added((SUBSET Services) \ {{}}, profiles, codes, profiles')
    BY <1>1, AddRow DEF TypeOK
  <2> QED
    BY <2>1 DEF Added
<1>3. /\ session' = "PARTNER"
      /\ supplyStatus' \in {"SUBMITTED", "APPROVED"}
      /\ supplyStatus' = "APPROVED" => supplyStatus = "APPROVED"
      /\ supplyStatus = "APPROVED" => supplyStatus' = "APPROVED"
  BY <1>1, Attached
<1>4. KeysSettle /\ ingress' \in [Keys -> IngressRow \union {NoRow}]
  <2> SUFFICES ASSUME NEW row,
                      row = [command |-> "PROVIDER_PROFILE_SUBMIT",
                             fingerprint |-> AboutServices(codes),
                             ref |-> Len(profiles) + 1]
               PROVE  KeysSettle /\ ingress' \in [Keys -> IngressRow \union {NoRow}]
    OBVIOUS
  <2>1. AboutServices(codes) \in Fingerprint /\ AboutServices(codes).services = codes
    BY DEF AboutServices, Fingerprint
  <2>2. RowStands(row)'
    BY <1>2, <2>1 DEF RowStands
  <2>3. Claim(k) /\ Record(k, row.command, row.fingerprint, row.ref)
    BY DEF SubmitProviderProfile
  <2>4. row \in IngressRow
    BY <1>2, <2>1 DEF IngressRow, Commands
  <2> QED
    BY <1>1, <2>2, <2>3, <2>4, KeyRecorded
<1>5. TypeOK'
  BY <1>1, <1>2, <1>3, <1>4 DEF TypeOK, SessionStates
<1>6. Standing'
  BY <1>1, <1>3 DEF Standing, None
<1>7. SupplyIsWhatWasConfirmed'
  BY <1>1 DEF SupplyIsWhatWasConfirmed, Open
<1> QED
  BY <1>1, <1>2, <1>3, <1>4, <1>5, <1>6, <1>7
  DEF StepOK, RowsEvolve, ProfilesEvolve, CardsEvolve, SchedulesEvolve, StandingKept

(* A profile refused for its portrait leaves the provider.                 *)
LEMMA ProfileRefusedStep ==
    ASSUME IInv, ProfileRefusedForPortrait
    PROVE  StepOK
<1>1. /\ TypeOK /\ SupplyIsWhatWasConfirmed /\ Standing
      /\ UNCHANGED <<profiles, cards, publicId, capabilities, schedules, windows,
                     catalogue, areas, ingress>>
      /\ AttachProvider
  BY DEF IInv, ProfileRefusedForPortrait, cardVars, scheduleVars, projectionVars
<1>2. /\ session' = "PARTNER"
      /\ supplyStatus' \in {"SUBMITTED", "APPROVED"}
      /\ supplyStatus' = "APPROVED" => supplyStatus = "APPROVED"
      /\ supplyStatus = "APPROVED" => supplyStatus' = "APPROVED"
  BY <1>1, Attached
<1>3. TypeOK'
  BY <1>1, <1>2 DEF TypeOK, SessionStates
<1>4. Standing'
  BY <1>1, <1>2 DEF Standing, None
<1>5. SupplyIsWhatWasConfirmed'
  BY <1>1 DEF SupplyIsWhatWasConfirmed, Open
<1> QED
  BY <1>1, <1>2, <1>3, <1>4, <1>5, KeysKept
  DEF StepOK, RowsEvolve, ProfilesEvolve, CardsEvolve, SchedulesEvolve, StandingKept

(* A card joins the others, for the newest profile.                        *)
LEMMA SubmitProviderCardStep ==
    ASSUME IInv, NEW k \in Keys \union {None}, SubmitProviderCard(k)
    PROVE  StepOK
<1> DEFINE card == [profile |-> Len(profiles), state |-> "SUBMITTED"]
<1>1. /\ TypeOK /\ SupplyIsWhatWasConfirmed /\ Standing
      /\ UNCHANGED <<session, supplyStatus, profiles, publicId, capabilities,
                     schedules, windows, catalogue, areas>>
      /\ Len(profiles) \in DOMAIN profiles /\ Len(profiles) \in Nat \ {0}
  <2>1. profiles \in Seq((SUBSET Services) \ {{}}) /\ profiles # <<>>
    BY DEF IInv, TypeOK, SubmitProviderCard
  <2>2. Len(profiles) \in Nat \ {0} /\ DOMAIN profiles = 1 .. Len(profiles)
    BY <2>1, LenProperties, EmptySeq
  <2> QED
    BY <2>2 DEF IInv, SubmitProviderCard, scheduleVars, projectionVars
<1>2. /\ cards' \in Seq(Card) /\ Len(cards) \in Nat
      /\ DOMAIN cards' = DOMAIN cards \union {Len(cards) + 1}
      /\ cards'[Len(cards) + 1] = card
      /\ \A c \in DOMAIN cards : cards'[c] = cards[c]
  <2>1. cards \in Seq(Card) /\ cards' = Append(cards, card)
    BY DEF IInv, TypeOK, SubmitProviderCard
  <2>2. card \in Card
    BY <1>1 DEF Card
  <2>3. Added(Card, cards, card, cards')
    BY <2>1, <2>2, AddRow
  <2> QED
    BY <2>3 DEF Added
<1>3. KeysSettle /\ ingress' \in [Keys -> IngressRow \union {NoRow}]
  <2> SUFFICES ASSUME NEW row,
                      row = [command |-> "PROVIDER_CARD_SUBMIT",
                             fingerprint |-> AboutRow(Len(profiles)),
                             ref |-> Len(cards) + 1]
               PROVE  KeysSettle /\ ingress' \in [Keys -> IngressRow \union {NoRow}]
    OBVIOUS
  <2>1. /\ AboutRow(Len(profiles)) \in Fingerprint
        /\ AboutRow(Len(profiles)).subject = Len(profiles)
    BY <1>1, <1>2 DEF AboutRow, Fingerprint
  <2>2. RowStands(row)'
    BY <1>1, <1>2, <2>1 DEF RowStands
  <2>3. Claim(k) /\ Record(k, row.command, row.fingerprint, row.ref)
    BY DEF SubmitProviderCard
  <2>4. row \in IngressRow
    BY <1>1, <1>2, <2>1 DEF IngressRow, Commands
  <2> QED
    BY <1>1, <2>2, <2>3, <2>4, KeyRecorded
<1>4. TypeOK'
  BY <1>1, <1>2, <1>3 DEF TypeOK
<1>5. Standing'
  BY <1>1, <1>2 DEF Standing
<1>6. SupplyIsWhatWasConfirmed'
  BY <1>1 DEF SupplyIsWhatWasConfirmed, Open
<1> QED
  BY <1>1, <1>2, <1>3, <1>4, <1>5, <1>6
  DEF StepOK, RowsEvolve, ProfilesEvolve, CardsEvolve, SchedulesEvolve, StandingKept

(* A card was submitted for some profile, so there is one now.             *)
LEMMA CardHasProfile ==
    ASSUME TypeOK, NEW c \in DOMAIN cards
    PROVE  /\ c \in Nat \ {0} /\ CurrentProfile \in (SUBSET Services) \ {{}}
           /\ profiles # <<>>
<1>1. cards \in Seq(Card) /\ profiles \in Seq((SUBSET Services) \ {{}})
  BY DEF TypeOK
<1>2. DOMAIN cards = 1 .. Len(cards) /\ Len(cards) \in Nat
  BY <1>1, LenProperties
<1>3. DOMAIN profiles = 1 .. Len(profiles) /\ Len(profiles) \in Nat
  BY <1>1, LenProperties
<1>4. DOMAIN profiles # {}
  BY DEF TypeOK
<1>5. Len(profiles) \in 1 .. Len(profiles)
  BY <1>3, <1>4
<1>6. profiles[Len(profiles)] \in (SUBSET Services) \ {{}}
  BY <1>1, <1>5, ElementOfSeq
<1>7. profiles # <<>>
  BY <1>4, EmptySeq
<1> QED
  BY <1>2, <1>6, <1>7 DEF CurrentProfile

(* A card is approved, and with it the partner.                              *)
LEMMA ApproveProviderCardStep ==
    ASSUME IInv, NEW k \in Keys \union {None}, NEW c, ApproveProviderCard(c, k)
    PROVE  StepOK
<1>1. /\ TypeOK /\ SupplyIsWhatWasConfirmed /\ Standing
      /\ UNCHANGED <<session, profiles, schedules, windows, catalogue, areas>>
      /\ c \in DOMAIN cards /\ cards[c].state = "SUBMITTED"
      /\ cards' = [cards EXCEPT ![c].state = "APPROVED"]
  BY DEF IInv, ApproveProviderCard, scheduleVars, projectionVars
<1>2. /\ cards' \in Seq(Card) /\ DOMAIN cards' = DOMAIN cards
      /\ cards'[c].state = "APPROVED"
      /\ \A x \in DOMAIN cards :
            /\ cards'[x].profile = cards[x].profile
            /\ cards[x].state # "SUBMITTED" => cards'[x] = cards[x]
      /\ c \in Nat \ {0} /\ profiles # <<>>
      /\ CurrentProfile \subseteq Services
  <2>1. Decided(c, "APPROVED", cards')
    BY <1>1, CardDecided
  <2>2. c \in Nat \ {0} /\ CurrentProfile \subseteq Services /\ profiles # <<>>
    BY <1>1, CardHasProfile
  <2> QED
    BY <2>1, <2>2 DEF Decided
<1>3. KeysSettle /\ ingress' \in [Keys -> IngressRow \union {NoRow}]
  <2> SUFFICES ASSUME NEW row,
                      row = [command |-> "PROVIDER_CARD_APPROVE",
                             fingerprint |-> AboutRow(c),
                             ref |-> c]
               PROVE  KeysSettle /\ ingress' \in [Keys -> IngressRow \union {NoRow}]
    OBVIOUS
  <2>1. AboutRow(c) \in Fingerprint
    BY <1>1, <1>2 DEF AboutRow, Fingerprint
  <2>2. RowStands(row)'
    BY <1>1, <1>2, <2>1 DEF RowStands
  <2>3. Claim(k) /\ Record(k, row.command, row.fingerprint, row.ref)
    BY DEF ApproveProviderCard
  <2>4. row \in IngressRow
    BY <1>1, <1>2, <2>1 DEF IngressRow, Commands
  <2> QED
    BY <1>1, <2>2, <2>3, <2>4, KeyRecorded
<1>4. /\ supplyStatus' = "APPROVED"
      /\ capabilities' = capabilities \union CurrentProfile
      /\ publicId' = IF publicId = 0 THEN c ELSE publicId
  BY DEF ApproveProviderCard, AssignPublicId
<1>5. supplyStatus # None
  BY <1>1, <1>2 DEF Standing
<1>6. TypeOK'
  BY <1>1, <1>2, <1>3, <1>4 DEF TypeOK
<1>7. Standing'
  BY <1>1, <1>2, <1>4, <1>5 DEF Standing, None
<1>8. SupplyIsWhatWasConfirmed'
  BY <1>1 DEF SupplyIsWhatWasConfirmed, Open
<1> QED
  BY <1>1, <1>2, <1>3, <1>4, <1>6, <1>7, <1>8
  DEF StepOK, RowsEvolve, ProfilesEvolve, CardsEvolve, SchedulesEvolve, StandingKept

(* A card is rejected.                                                    *)
LEMMA RejectProviderCardStep ==
    ASSUME IInv, NEW k \in Keys \union {None}, NEW c, RejectProviderCard(c, k)
    PROVE  StepOK
<1>1. /\ TypeOK /\ SupplyIsWhatWasConfirmed /\ Standing
      /\ UNCHANGED <<session, profiles, schedules, windows, catalogue, areas>>
      /\ c \in DOMAIN cards /\ cards[c].state = "SUBMITTED"
      /\ cards' = [cards EXCEPT ![c].state = "REJECTED"]
  BY DEF IInv, RejectProviderCard, scheduleVars, projectionVars
<1>2. /\ cards' \in Seq(Card) /\ DOMAIN cards' = DOMAIN cards
      /\ cards'[c].state = "REJECTED"
      /\ \A x \in DOMAIN cards :
            /\ cards'[x].profile = cards[x].profile
            /\ cards[x].state # "SUBMITTED" => cards'[x] = cards[x]
      /\ c \in Nat \ {0} /\ profiles # <<>>
  <2>1. Decided(c, "REJECTED", cards')
    BY <1>1, CardDecided
  <2>2. c \in Nat \ {0} /\ CurrentProfile \subseteq Services /\ profiles # <<>>
    BY <1>1, CardHasProfile
  <2> QED
    BY <2>1, <2>2 DEF Decided
<1>3. KeysSettle /\ ingress' \in [Keys -> IngressRow \union {NoRow}]
  <2> SUFFICES ASSUME NEW row,
                      row = [command |-> "PROVIDER_CARD_REJECT",
                             fingerprint |-> AboutRow(c),
                             ref |-> c]
               PROVE  KeysSettle /\ ingress' \in [Keys -> IngressRow \union {NoRow}]
    OBVIOUS
  <2>1. AboutRow(c) \in Fingerprint
    BY <1>1, <1>2 DEF AboutRow, Fingerprint
  <2>2. RowStands(row)'
    BY <1>1, <1>2, <2>1 DEF RowStands
  <2>3. Claim(k) /\ Record(k, row.command, row.fingerprint, row.ref)
    BY DEF RejectProviderCard
  <2>4. row \in IngressRow
    BY <1>1, <1>2, <2>1 DEF IngressRow, Commands
  <2> QED
    BY <1>1, <2>2, <2>3, <2>4, KeyRecorded
<1>4. UNCHANGED <<supplyStatus, publicId, capabilities>>
  BY DEF RejectProviderCard
<1>6. TypeOK'
  BY <1>1, <1>2, <1>3, <1>4 DEF TypeOK
<1>7. Standing'
  BY <1>1, <1>2, <1>4 DEF Standing
<1>8. SupplyIsWhatWasConfirmed'
  BY <1>1 DEF SupplyIsWhatWasConfirmed, Open
<1> QED
  BY <1>1, <1>2, <1>3, <1>4, <1>6, <1>7, <1>8
  DEF StepOK, RowsEvolve, ProfilesEvolve, CardsEvolve, SchedulesEvolve, StandingKept

(* A refused approval leaves a public id and capabilities, and no approval. *)
LEMMA ApprovalRefusedStep ==
    ASSUME IInv, NEW k, NEW c, ApprovalRefused(c, k)
    PROVE  StepOK
<1>1. /\ TypeOK /\ SupplyIsWhatWasConfirmed /\ Standing
      /\ UNCHANGED <<session, supplyStatus, profiles, cards, schedules, windows,
                     catalogue, areas, ingress>>
      /\ c \in DOMAIN cards
      /\ publicId' = IF publicId = 0 THEN c ELSE publicId
  BY DEF IInv, ApprovalRefused, AssignPublicId, scheduleVars, projectionVars
<1>2. PICK before \in SUBSET (CurrentProfile \intersect catalogue) :
         capabilities' = capabilities \union before
  BY DEF ApprovalRefused
<1>3. c \in Nat \ {0} /\ CurrentProfile \subseteq Services
  BY <1>1, CardHasProfile
<1>4. TypeOK'
  BY <1>1, <1>2, <1>3 DEF TypeOK
<1>5. Standing'
  BY <1>1, <1>3 DEF Standing
<1>6. SupplyIsWhatWasConfirmed'
  BY <1>1 DEF SupplyIsWhatWasConfirmed, Open
<1> QED
  BY <1>1, <1>3, <1>4, <1>5, <1>6, KeysKept
  DEF StepOK, RowsEvolve, ProfilesEvolve, CardsEvolve, SchedulesEvolve, StandingKept

(* A week submitted again is the week there is.                            *)
LEMMA ResubmitAvailabilityStep ==
    ASSUME IInv, NEW week \in SUBSET Regions, NEW k, ResubmitAvailability(week, k)
    PROVE  StepOK
<1>1. /\ TypeOK /\ SupplyIsWhatWasConfirmed /\ Standing
      /\ UNCHANGED <<session, supplyStatus, profiles, cards, publicId, capabilities,
                     schedules, windows, catalogue, areas>>
      /\ Claim(k)
  BY DEF IInv, ResubmitAvailability, CanSubmitAvailability, cardVars, scheduleVars,
         projectionVars
<1>2. PICK v \in DOMAIN schedules :
         /\ schedules[v].regions = week
         /\ Record(k, "PROVIDER_AVAILABILITY_SUBMIT", AboutRegions(week), v)
  BY DEF ResubmitAvailability
<1>3. v \in Nat \ {0}
  <2>1. schedules \in Seq(Schedule)
    BY <1>1 DEF TypeOK
  <2>2. DOMAIN schedules = 1 .. Len(schedules) /\ Len(schedules) \in Nat
    BY <2>1, LenProperties
  <2> QED
    BY <2>2
<1>4. KeysSettle /\ ingress' \in [Keys -> IngressRow \union {NoRow}]
  <2> SUFFICES ASSUME NEW row,
                      row = [command |-> "PROVIDER_AVAILABILITY_SUBMIT",
                             fingerprint |-> AboutRegions(week),
                             ref |-> v]
               PROVE  KeysSettle /\ ingress' \in [Keys -> IngressRow \union {NoRow}]
    OBVIOUS
  <2>1. /\ AboutRegions(week) \in Fingerprint
        /\ AboutRegions(week).regions = week
    BY DEF AboutRegions, Fingerprint
  <2>2. RowStands(row)'
    BY <1>1, <1>2, <2>1 DEF RowStands
  <2>3. Claim(k) /\ Record(k, row.command, row.fingerprint, row.ref)
    BY <1>1, <1>2
  <2>4. row \in IngressRow
    BY <1>3, <2>1 DEF IngressRow, Commands
  <2> QED
    BY <1>1, <2>2, <2>3, <2>4, KeyRecorded
<1>5. TypeOK'
  BY <1>1, <1>4 DEF TypeOK
<1>6. Standing' /\ SupplyIsWhatWasConfirmed'
  BY <1>1 DEF Standing, SupplyIsWhatWasConfirmed, Open
<1> QED
  BY <1>1, <1>4, <1>5, <1>6
  DEF StepOK, RowsEvolve, ProfilesEvolve, CardsEvolve, SchedulesEvolve, StandingKept

(* A new version of the week closes what was open, and takes back every    *)
(* window there was: each of them was granted by a confirmed version.      *)
LEMMA SubmitAvailabilityStep ==
    ASSUME IInv, NEW week \in SUBSET Regions, NEW k, SubmitAvailability(week, k)
    PROVE  StepOK
<1>1. /\ TypeOK /\ SupplyIsWhatWasConfirmed /\ Standing
      /\ UNCHANGED <<session, supplyStatus, profiles, cards, publicId, capabilities,
                     catalogue, areas>>
      /\ windows' = Remaining
  BY DEF IInv, SubmitAvailability, cardVars, projectionVars
<1>2. /\ schedules' \in Seq(Schedule) /\ Len(schedules) \in Nat
      /\ Len(schedules') = Len(schedules) + 1
      /\ DOMAIN schedules' = DOMAIN schedules \union {Len(schedules) + 1}
      /\ schedules'[Len(schedules) + 1] = [regions |-> week, state |-> "SUBMITTED"]
      /\ \A v \in DOMAIN schedules :
            /\ schedules'[v].regions = schedules[v].regions
            /\ schedules'[v].state = "SUPERSEDED"
            /\ schedules[v].state = "SUPERSEDED" => schedules'[v] = schedules[v]
  <2>1. Replaced(week, schedules')
    BY <1>1, WeekReplaced DEF SubmitAvailability
  <2> QED
    BY <2>1 DEF Replaced
<1>3. windows' = {}
  BY <1>1 DEF Remaining, SupplyIsWhatWasConfirmed
<1>4. KeysSettle /\ ingress' \in [Keys -> IngressRow \union {NoRow}]
  <2> SUFFICES ASSUME NEW row,
                      row = [command |-> "PROVIDER_AVAILABILITY_SUBMIT",
                             fingerprint |-> AboutRegions(week),
                             ref |-> Len(schedules) + 1]
               PROVE  KeysSettle /\ ingress' \in [Keys -> IngressRow \union {NoRow}]
    OBVIOUS
  <2>1. /\ AboutRegions(week) \in Fingerprint
        /\ AboutRegions(week).regions = week
    BY DEF AboutRegions, Fingerprint
  <2>2. RowStands(row)'
    BY <1>1, <1>2, <2>1 DEF RowStands
  <2>3. Claim(k) /\ Record(k, row.command, row.fingerprint, row.ref)
    BY DEF SubmitAvailability, CanSubmitAvailability
  <2>4. row \in IngressRow
    BY <1>1, <1>2, <2>1 DEF IngressRow, Commands
  <2> QED
    BY <1>1, <2>2, <2>3, <2>4, KeyRecorded
<1>5. TypeOK'
  BY <1>1, <1>2, <1>3, <1>4 DEF TypeOK
<1>6. Standing'
  BY <1>1 DEF Standing
<1>7. SupplyIsWhatWasConfirmed'
  BY <1>2, <1>3 DEF SupplyIsWhatWasConfirmed, Open
<1> QED
  BY <1>1, <1>2, <1>4, <1>5, <1>6, <1>7
  DEF StepOK, RowsEvolve, ProfilesEvolve, CardsEvolve, SchedulesEvolve, StandingKept

(* A week that awaits confirmation is confirmed, with or without the       *)
(* windows it grants.                                                      *)
LEMMA ConfirmAvailabilityStep ==
    ASSUME IInv, NEW v, NEW k, ConfirmAvailability(v, k) \/ ConfirmationRefused(v, k)
    PROVE  StepOK
<1>1. /\ TypeOK /\ SupplyIsWhatWasConfirmed /\ Standing
      /\ UNCHANGED <<session, supplyStatus, profiles, cards, publicId, capabilities,
                     catalogue, areas>>
      /\ v \in DOMAIN schedules /\ schedules[v].state = "SUBMITTED"
      /\ schedules' = [schedules EXCEPT ![v].state = "CONFIRMED"]
      /\ windows \subseteq windows' /\ windows' \subseteq windows \union Granted(v)
  BY DEF IInv, ConfirmAvailability, ConfirmationRefused, cardVars, projectionVars
<1>2. /\ schedules' \in Seq(Schedule) /\ DOMAIN schedules' = DOMAIN schedules
      /\ Len(schedules') = Len(schedules)
      /\ schedules'[v].state = "CONFIRMED"
      /\ schedules'[v].regions = schedules[v].regions
      /\ \A x \in DOMAIN schedules : x # v => schedules'[x] = schedules[x]
      /\ schedules[v].regions \subseteq Regions
      /\ v \in Nat \ {0}
  <2>1. schedules \in Seq(Schedule)
    BY <1>1 DEF TypeOK
  <2>2. DOMAIN schedules = 1 .. Len(schedules) /\ Len(schedules) \in Nat
    BY <2>1, LenProperties
  <2>3. schedules[v] \in Schedule
    BY <1>1, <2>1, <2>2, ElementOfSeq
  <2>4. Confirmed(v, schedules')
    BY <1>1, WeekConfirmed
  <2> QED
    BY <1>1, <2>2, <2>3, <2>4 DEF Confirmed, Schedule
<1>3. KeysSettle /\ ingress' \in [Keys -> IngressRow \union {NoRow}]
  <2>1. CASE ConfirmationRefused(v, k)
    BY <1>1, <2>1, KeysKept DEF ConfirmationRefused, TypeOK
  <2>2. CASE ConfirmAvailability(v, k)
    <3> SUFFICES ASSUME NEW row,
                        row = [command |-> "PROVIDER_AVAILABILITY_CONFIRM",
                               fingerprint |-> AboutRow(v), ref |-> v]
                 PROVE  KeysSettle /\ ingress' \in [Keys -> IngressRow \union {NoRow}]
      OBVIOUS
    <3>1. AboutRow(v) \in Fingerprint
      BY <1>2 DEF AboutRow, Fingerprint
    <3>2. RowStands(row)'
      BY <1>1, <1>2 DEF RowStands
    <3>3. Claim(k) /\ Record(k, row.command, row.fingerprint, row.ref)
      BY <2>2 DEF ConfirmAvailability
    <3>4. row \in IngressRow
      BY <1>2, <3>1 DEF IngressRow, Commands
    <3> QED
      BY <1>1, <3>2, <3>3, <3>4, KeyRecorded
  <2> QED
    BY <2>1, <2>2
<1>4. TypeOK'
  <2>1. Granted(v) \subseteq [version : DOMAIN schedules, region : Regions]
    BY <1>1, <1>2 DEF Granted
  <2> QED
    BY <1>1, <1>2, <1>3, <2>1 DEF TypeOK
<1>5. Standing'
  BY <1>1 DEF Standing
<1>6. SupplyIsWhatWasConfirmed'
  <2>1. v = Len(schedules)
    BY <1>1 DEF SupplyIsWhatWasConfirmed, Open
  <2>2. \A x \in DOMAIN schedules' : Open(x)' <=> x = Len(schedules')
    BY <1>1, <1>2, <2>1 DEF SupplyIsWhatWasConfirmed, Open
  <2>3. ASSUME NEW w \in windows'
        PROVE  /\ schedules'[w.version].state = "CONFIRMED"
               /\ w.region \in schedules'[w.version].regions
    <3>1. CASE w \in windows
      BY <1>1, <1>2, <3>1 DEF SupplyIsWhatWasConfirmed, TypeOK
    <3>2. CASE w \in Granted(v)
      BY <1>1, <1>2, <3>2 DEF Granted
    <3> QED
      BY <1>1, <3>1, <3>2
  <2> QED
    BY <2>2, <2>3 DEF SupplyIsWhatWasConfirmed
<1> QED
  BY <1>1, <1>2, <1>3, <1>4, <1>5, <1>6
  DEF StepOK, RowsEvolve, ProfilesEvolve, CardsEvolve, SchedulesEvolve, StandingKept

(* A host that starts changes what later commands resolve against.         *)
LEMMA StartPartnerHostStep ==
    ASSUME IInv, NEW codes \in SUBSET Services,
           NEW governed \in (SUBSET Regions) \ {{}}, StartPartnerHost(codes, governed)
    PROVE  StepOK
<1>1. /\ TypeOK /\ SupplyIsWhatWasConfirmed /\ Standing
      /\ UNCHANGED <<session, supplyStatus, profiles, cards, publicId, capabilities,
                     schedules, windows, ingress>>
      /\ catalogue' = catalogue \union codes /\ areas' = governed
  BY DEF IInv, StartPartnerHost, cardVars, scheduleVars
<1>2. TypeOK'
  BY <1>1 DEF TypeOK
<1>3. Standing' /\ SupplyIsWhatWasConfirmed'
  BY <1>1 DEF Standing, SupplyIsWhatWasConfirmed, Open
<1> QED
  BY <1>1, <1>2, <1>3, KeysKept
  DEF StepOK, RowsEvolve, ProfilesEvolve, CardsEvolve, SchedulesEvolve, StandingKept

LEMMA NextStep ==
    ASSUME IInv, Next
    PROVE  StepOK
<1>1. CASE Sessions
  BY <1>1, SessionsStep
<1>2. CASE Profiles
  BY <1>2, SubmitProviderProfileStep, ProfileRefusedStep DEF Profiles
<1>3. CASE Cards
  BY <1>3, SubmitProviderCardStep, ApproveProviderCardStep, ApprovalRefusedStep,
     RejectProviderCardStep DEF Cards
<1>4. CASE Availability
  BY <1>4, ResubmitAvailabilityStep, SubmitAvailabilityStep, ConfirmAvailabilityStep
  DEF Availability
<1>5. CASE \E codes \in SUBSET Services, governed \in (SUBSET Regions) \ {{}} :
              StartPartnerHost(codes, governed)
  BY <1>5, StartPartnerHostStep
<1> QED
  BY <1>1, <1>2, <1>3, <1>4, <1>5 DEF Next

-----------------------------------------------------------------------------
(* The behaviours.                                                         *)

LEMMA Initially == Init => IInv
<1> SUFFICES ASSUME Init PROVE IInv
  OBVIOUS
<1>1. DOMAIN profiles = {} /\ DOMAIN cards = {} /\ DOMAIN schedules = {}
  BY DEF Init
<1>2. TypeOK
  BY <1>1 DEF Init, TypeOK, SessionStates
<1>3. SupplyIsWhatWasConfirmed
  BY <1>1 DEF Init, SupplyIsWhatWasConfirmed
<1>4. KeysStand
  BY DEF Init, KeysStand, RowStands, NoRow, None
<1>5. Standing
  BY DEF Init, Standing, None
<1> QED
  BY <1>2, <1>3, <1>4, <1>5 DEF IInv

LEMMA Stutter == IInv /\ UNCHANGED vars => IInv'
<1> SUFFICES ASSUME IInv, UNCHANGED vars PROVE IInv'
  OBVIOUS
<1>1. UNCHANGED <<session, supplyStatus, profiles, cards, publicId, capabilities,
                  schedules, windows, catalogue, areas, ingress>>
  BY DEF vars
<1>2. TypeOK'
  BY <1>1 DEF IInv, TypeOK
<1>3. SupplyIsWhatWasConfirmed' /\ Standing'
  BY <1>1 DEF IInv, SupplyIsWhatWasConfirmed, Open, Standing
<1>4. KeysStand'
  BY <1>1 DEF IInv, KeysStand, RowStands
<1> QED
  BY <1>2, <1>3, <1>4 DEF IInv

LEMMA Inductive == Spec => []IInv
<1>1. IInv /\ Next => IInv'
  <2> SUFFICES ASSUME IInv, Next PROVE IInv'
    OBVIOUS
  <2>1. StepOK
    BY NextStep
  <2>2. KeysStand'
    BY <2>1, RemembersStep DEF StepOK
  <2> QED
    BY <2>1, <2>2 DEF StepOK, IInv
<1>2. IInv /\ [Next]_vars => IInv'
  BY <1>1, Stutter
<1> QED
  BY Initially, <1>2, PTL DEF Spec

-----------------------------------------------------------------------------
(* Every row keeps its table's columns and refers to rows that exist.      *)
THEOREM TypeCorrect == Spec => []TypeOK
<1>1. IInv => TypeOK
  BY DEF IInv
<1> QED
  BY Inductive, <1>1, PTL

(* supply.ts: whatever is bookable was granted by the newest version of    *)
(* the week, in its regions, and an owner confirmed it; in any order of    *)
(* edits, confirmations and refusals, under any configurations.            *)
THEOREM SupplyAlwaysConfirmed == Spec => []SupplyIsWhatWasConfirmed
<1>1. IInv => SupplyIsWhatWasConfirmed
  BY DEF IInv
<1> QED
  BY Inductive, <1>1, PTL

(* kernel/evaluation.ts and supply.ts: nothing is sold that the read model *)
(* of approved supply does not show, though the two join different tables. *)
THEOREM SellableAlwaysApproved == Spec => []SellableIsApprovedSupply
<1>1. IInv => SellableIsApprovedSupply
  <2> SUFFICES ASSUME IInv, NEW service \in Services, NEW region \in Regions,
                      Sellable(service, region)
               PROVE  \E entry \in ApprovedSupply :
                         service \in entry.services /\ region \in entry.regions
    BY DEF SellableIsApprovedSupply
  <2>1. supplyStatus = "APPROVED" /\ service \in capabilities
    BY DEF Sellable
  <2>2. PICK w \in windows : w.region = region
    BY DEF Sellable
  <2>3. /\ w.version \in DOMAIN schedules
        /\ schedules[w.version].state = "CONFIRMED"
        /\ region \in schedules[w.version].regions
    BY <2>2 DEF IInv, TypeOK, SupplyIsWhatWasConfirmed
  <2>4. publicId # 0
    BY <2>1 DEF IInv, Standing
  <2>5. PICK c \in DOMAIN cards : cards[c].state = "APPROVED"
    BY <2>1 DEF IInv, Standing
  <2> DEFINE entry == [card |-> c, version |-> w.version, services |-> capabilities,
                       regions |-> schedules[w.version].regions]
  <2>6. entry \in ApprovedSupply
    BY <2>1, <2>3, <2>4, <2>5 DEF ApprovedSupply
  <2> QED
    BY <2>1, <2>3, <2>6
<1> QED
  BY Inductive, <1>1, PTL

(* ingress.ts: a repetition of a settled command is told of the row its    *)
(* command made or decided, as it made or decided it, unless a newer       *)
(* profile, a newer week or another coverage has come in between; and a    *)
(* decision about a card is never overtaken.                               *)
THEOREM RepeatsAlwaysAnswered == Spec => []AnsweredUnlessOvertaken
<1>1. IInv => AnsweredUnlessOvertaken
  <2> SUFFICES ASSUME IInv, NEW k \in Keys, ingress[k] # NoRow
               PROVE  /\ RowStands(ingress[k])
                      /\ RepeatIsTold(k) = ingress[k].ref \/ Overtaken(ingress[k])
    BY DEF AnsweredUnlessOvertaken
  <2> DEFINE row == ingress[k]
  <2>1. RowStands(row)
    BY DEF IInv, KeysStand
  <2>2. row \in IngressRow
    BY DEF IInv, TypeOK
  <2>3. CASE row.command = "PROVIDER_PROFILE_SUBMIT"
    <3>1. row.ref \in 1 .. Len(profiles) /\ Len(profiles) \in Nat
      BY <2>1, <2>3 DEF RowStands, IInv, TypeOK
    <3>2. row.ref = Len(profiles) \/ row.ref < Len(profiles)
      BY <3>1
    <3>3. RepeatIsTold(k) = Len(profiles)
      BY <2>3 DEF RepeatIsTold
    <3> QED
      BY <2>1, <2>3, <3>2, <3>3 DEF Overtaken
  <2>4. CASE row.command = "PROVIDER_CARD_SUBMIT"
    <3>1. /\ row.ref \in DOMAIN cards
          /\ cards[row.ref].profile = row.fingerprint.subject
      BY <2>1, <2>4 DEF RowStands
    <3>2. cards[row.ref].profile \in DOMAIN profiles
      BY <3>1 DEF IInv, TypeOK
    <3>3. cards[row.ref].profile \in 1 .. Len(profiles) /\ Len(profiles) \in Nat
      BY <3>2 DEF IInv, TypeOK
    <3>4. \/ cards[row.ref].profile = Len(profiles)
          \/ cards[row.ref].profile < Len(profiles)
      BY <3>3
    <3>5. row.fingerprint.subject = Len(profiles) => RepeatIsTold(k) = row.ref
      BY <2>4 DEF RepeatIsTold
    <3> QED
      BY <2>1, <2>4, <3>1, <3>4, <3>5 DEF Overtaken
  <2>5. CASE row.command \in {"PROVIDER_CARD_APPROVE", "PROVIDER_CARD_REJECT"}
    BY <2>1, <2>5 DEF RowStands, RepeatIsTold
  <2>6. CASE row.command = "PROVIDER_AVAILABILITY_SUBMIT"
    BY <2>1, <2>6 DEF RowStands, RepeatIsTold, Overtaken
  <2>7. CASE row.command = "PROVIDER_AVAILABILITY_CONFIRM"
    <3>1. row.ref \in DOMAIN schedules /\ schedules[row.ref].state # "SUBMITTED"
      BY <2>1, <2>7 DEF RowStands
    <3>2. row.ref \in 1 .. Len(schedules) /\ Len(schedules) \in Nat
      BY <3>1 DEF IInv, TypeOK
    <3>3. schedules[row.ref].state # "CONFIRMED" => row.ref # Len(schedules)
      BY <3>1 DEF IInv, SupplyIsWhatWasConfirmed, Open
    <3>4. row.ref = Len(schedules) \/ row.ref < Len(schedules)
      BY <3>2
    <3>5. schedules[row.ref].state = "CONFIRMED" => RepeatIsTold(k) = row.ref
      BY <2>7 DEF RepeatIsTold
    <3> QED
      BY <2>1, <2>7, <3>3, <3>4, <3>5 DEF Overtaken
  <2> QED
    BY <2>1, <2>2, <2>3, <2>4, <2>5, <2>6, <2>7 DEF IngressRow, Commands
<1> QED
  BY Inductive, <1>1, PTL

(* card.ts, availability.ts: no later command undoes a decision.           *)
THEOREM DecisionsStand == Spec => DecidedOnce
<1> DEFINE Stands ==
      /\ \A c \in DOMAIN cards : cards[c].state # "SUBMITTED" => cards'[c] = cards[c]
      /\ \A v \in DOMAIN schedules :
            /\ schedules'[v].regions = schedules[v].regions
            /\ schedules[v].state = "SUPERSEDED" => schedules'[v] = schedules[v]
            /\ schedules[v].state = "CONFIRMED" => schedules'[v].state # "SUBMITTED"
      /\ \A k \in Keys : ingress[k] # NoRow => ingress'[k] = ingress[k]
      /\ supplyStatus = "APPROVED" => supplyStatus' = "APPROVED"
      /\ publicId # 0 => publicId' = publicId
<1>1. IInv /\ [Next]_vars => [Stands]_vars
  <2> SUFFICES ASSUME IInv, Next PROVE Stands
    OBVIOUS
  <2>1. RowsEvolve /\ KeysSettle /\ StandingKept
    BY NextStep DEF StepOK
  <2> QED
    BY <2>1 DEF RowsEvolve, CardsEvolve, SchedulesEvolve, KeysSettle, StandingKept
<1> QED
  BY Inductive, <1>1, PTL DEF Spec, DecidedOnce

(* ScheduleAndSupplyAgree (availability.ts:132-135) does not hold: a week  *)
(* can be confirmed whose windows no configuration lets exist.  But that   *)
(* is the only way: no edit, grant or change of configuration parts the    *)
(* two.                                                                    *)
ConfirmedWithoutAreas(v) ==
    /\ v \in DOMAIN schedules
    /\ schedules[v].state = "SUBMITTED" /\ schedules'[v].state = "CONFIRMED"
    /\ ~ (schedules[v].regions \subseteq areas)
    /\ UNCHANGED <<windows, ingress>>

LEMMA UntouchedWeeksAgree ==
    ASSUME ScheduleAndSupplyAgree, UNCHANGED scheduleVars
    PROVE  ScheduleAndSupplyAgree'
BY DEF ScheduleAndSupplyAgree, Granted, scheduleVars

LEMMA EditedWeekAgrees ==
    ASSUME IInv, NEW week \in SUBSET Regions, NEW k, SubmitAvailability(week, k)
    PROVE  ScheduleAndSupplyAgree'
<1>1. Replaced(week, schedules')
  BY WeekReplaced DEF IInv, SubmitAvailability
<1>2. \A v \in DOMAIN schedules' : schedules'[v].state # "CONFIRMED"
  BY <1>1 DEF Replaced
<1> QED
  BY <1>2 DEF ScheduleAndSupplyAgree

LEMMA GrantedWeekAgrees ==
    ASSUME IInv, ScheduleAndSupplyAgree, NEW v, NEW k, ConfirmAvailability(v, k)
    PROVE  ScheduleAndSupplyAgree'
<1>1. v \in DOMAIN schedules /\ windows' = windows \union Granted(v)
  BY DEF ConfirmAvailability
<1>2. Confirmed(v, schedules')
  BY WeekConfirmed DEF IInv, ConfirmAvailability
<1>3. ASSUME NEW x \in DOMAIN schedules, schedules'[x].state = "CONFIRMED"
      PROVE  [version : {x}, region : schedules'[x].regions] \subseteq windows'
  <2>1. CASE x = v
    BY <1>1, <1>2, <2>1 DEF Confirmed, Granted
  <2>2. CASE x # v
    BY <1>1, <1>2, <1>3, <2>2 DEF Confirmed, Granted, ScheduleAndSupplyAgree
  <2> QED
    BY <2>1, <2>2
<1> QED
  BY <1>2, <1>3 DEF ScheduleAndSupplyAgree, Granted, Confirmed

(* availability.ts:617: schedule and supply part only when a confirmation  *)
(* is refused after its version was confirmed; and nothing records it.     *)
THEOREM ScheduleDriftsByRefusalOnly ==
    Spec => [][ScheduleAndSupplyAgree /\ ~ ScheduleAndSupplyAgree' =>
                  \E v \in 1 .. MaxSchedules : ConfirmedWithoutAreas(v)]_vars
<1> DEFINE Drift == ScheduleAndSupplyAgree /\ ~ ScheduleAndSupplyAgree' =>
                       \E v \in 1 .. MaxSchedules : ConfirmedWithoutAreas(v)
<1>1. IInv /\ [Next]_vars => [Drift]_vars
  <2> SUFFICES ASSUME IInv, Next, ScheduleAndSupplyAgree, ~ ScheduleAndSupplyAgree'
               PROVE  \E v \in 1 .. MaxSchedules : ConfirmedWithoutAreas(v)
    OBVIOUS
  <2>1. ~ UNCHANGED scheduleVars
    BY UntouchedWeeksAgree
  <2>2. PICK k \in Keys \union {None} :
           \/ \E week \in SUBSET Regions : SubmitAvailability(week, k)
           \/ \E v \in 1 .. MaxSchedules :
                 ConfirmAvailability(v, k) \/ ConfirmationRefused(v, k)
    <3>1. ~ Sessions
      BY <2>1 DEF Sessions, Enrol, IssueProviderAccessSession, SessionEnds
    <3>2. ~ Profiles
      BY <2>1 DEF Profiles, SubmitProviderProfile, ProfileRefusedForPortrait
    <3>3. ~ Cards
      BY <2>1 DEF Cards, SubmitProviderCard, ApproveProviderCard, ApprovalRefused,
                  RejectProviderCard
    <3>4. Availability
      BY <2>1, <3>1, <3>2, <3>3 DEF Next, StartPartnerHost
    <3> QED
      BY <2>1, <3>4 DEF Availability, ResubmitAvailability
  <2>3. PICK v \in 1 .. MaxSchedules : ConfirmationRefused(v, k)
    BY <2>2, EditedWeekAgrees, GrantedWeekAgrees
  <2>4. schedules'[v].state = "CONFIRMED"
    <3>1. Confirmed(v, schedules')
      BY <2>3, WeekConfirmed DEF IInv, ConfirmationRefused
    <3> QED
      BY <3>1 DEF Confirmed
  <2> QED
    BY <2>3, <2>4 DEF ConfirmedWithoutAreas, ConfirmationRefused
<1> QED
  BY Inductive, <1>1, PTL DEF Spec
=============================================================================
