------------------------ MODULE GovernedDemandProofs ------------------------
(***************************************************************************)
(* Theorems about demand under a changing configuration, for any number of *)
(* versions, hosts, keys and intents and any prices.  What a demand may be *)
(* depends on what its host read, and that on what ever governed, so the   *)
(* invariants are proved together.                                         *)
(***************************************************************************)
EXTENDS GovernedDemand, SequenceTheorems, TLAPS

(* There are prices only since the first projection.                       *)
PricedByProjection == projected = 0 => prices = <<>>

(* Whatever was not rejected passed validation.                            *)
NothingUnvalidated ==
    \A v \in Versions : configuration[v] \notin {None, "REJECTED"} => v \in Valid

(* An approval is on record exactly from APPROVED on.                      *)
ApprovalsFit ==
    \A v \in Versions :
       /\ configuration[v] = "APPROVED" => Approved(v)
       /\ Approved(v) => configuration[v] \in {"APPROVED", "ACTIVE", "SUPERSEDED"}

GovernanceInv == ForceIsOnRecord /\ NothingUnvalidated /\ ApprovalsFit

IInv == TypeOK /\ GovernanceInv /\ DemandIsGoverned /\ PricedByProjection

-----------------------------------------------------------------------------
(* What a projection does to the prices.                                   *)

LEMMA SwitchedOff ==
    ASSUME NEW rows \in Seq(PriceVersion)
    PROVE  LET off == [n \in DOMAIN rows |-> [rows[n] EXCEPT !.active = FALSE]]
           IN  /\ off \in Seq(PriceVersion)
               /\ Len(off) = Len(rows)
               /\ \A n \in DOMAIN rows : off[n].amount = rows[n].amount /\ ~off[n].active
<1> DEFINE off == [n \in DOMAIN rows |-> [rows[n] EXCEPT !.active = FALSE]]
<1>1. Len(rows) \in Nat /\ DOMAIN rows = 1 .. Len(rows)
  BY LenProperties
<1>2. \A n \in 1 .. Len(rows) : rows[n] \in PriceVersion
  BY ElementOfSeq
<1>3. off \in [1 .. Len(rows) -> PriceVersion]
  BY <1>1, <1>2 DEF PriceVersion
<1>4. off \in Seq(PriceVersion) /\ Len(off) = Len(rows)
  BY <1>1, <1>3, LenProperties
<1> QED
  BY <1>1, <1>2, <1>4 DEF PriceVersion

RepricedAs(rows, amount, new) ==
    /\ new \in Seq(PriceVersion)
    /\ \A n \in DOMAIN rows :
          /\ n \in DOMAIN new
          /\ new[n].amount = rows[n].amount
          /\ new[n].active => rows[n].active
    /\ \A n \in DOMAIN new : n \in DOMAIN rows \/ new[n].amount = amount
    /\ new # <<>>
    /\ ActivePrices(new) = {Len(new)} /\ new[Len(new)].amount = amount

LEMMA RepricedRows ==
    ASSUME NEW rows \in Seq(PriceVersion), NEW amount \in Nat,
           rows = <<>> \/ ActivePrices(rows) = {Len(rows)},
           NEW new, new = Repriced(rows, amount)
    PROVE  RepricedAs(rows, amount, new)
<1> USE DEF RepricedAs
<1> DEFINE off == [n \in DOMAIN rows |-> [rows[n] EXCEPT !.active = FALSE]]
           row == [amount |-> amount, active |-> TRUE]
<1>0. /\ Len(rows) \in Nat /\ DOMAIN rows = 1 .. Len(rows)
      /\ rows # <<>> => Len(rows) \in DOMAIN rows
  <2>1. Len(rows) \in Nat /\ DOMAIN rows = 1 .. Len(rows)
    BY LenProperties
  <2>2. rows # <<>> => Len(rows) \in Nat \ {0}
    BY EmptySeq
  <2> QED
    BY <2>1, <2>2
<1>1. CASE \E n \in ActivePrices(rows) : rows[n].amount = amount
  <2>1. new = rows
    BY <1>1 DEF Repriced
  <2>2. PICK n \in ActivePrices(rows) : rows[n].amount = amount
    BY <1>1
  <2>3. n \in DOMAIN rows /\ rows # <<>>
    BY <2>2 DEF ActivePrices
  <2>4. n = Len(rows) /\ ActivePrices(rows) = {Len(rows)}
    BY <2>2, <2>3
  <2> QED
    BY <2>1, <2>2, <2>3, <2>4
<1>2. CASE ~ \E n \in ActivePrices(rows) : rows[n].amount = amount
  <2>1. new = Append(off, row)
    BY <1>2 DEF Repriced
  <2>2. /\ off \in Seq(PriceVersion) /\ Len(off) = Len(rows)
        /\ \A n \in DOMAIN rows : off[n].amount = rows[n].amount /\ ~off[n].active
    BY SwitchedOff
  <2>3. row \in PriceVersion
    BY DEF PriceVersion
  <2>4. DOMAIN off = 1 .. Len(rows)
    BY <1>0, <2>2, LenProperties
  <2>5. /\ new \in Seq(PriceVersion) /\ new # <<>>
        /\ Len(new) = Len(rows) + 1
        /\ DOMAIN new = 1 .. (Len(rows) + 1)
        /\ \A n \in 1 .. Len(rows) : new[n] = off[n]
        /\ new[Len(rows) + 1] = row
    BY <1>0, <2>1, <2>2, <2>3, <2>4, AppendProperties, LenProperties
  <2>6. ActivePrices(new) = {Len(rows) + 1}
    <3>1. \A n \in 1 .. Len(rows) : ~new[n].active
      <4> HIDE DEF off
      <4> QED
        BY <1>0, <2>2, <2>4, <2>5
    <3>2. new[Len(rows) + 1].active
      BY <2>5
    <3>3. \A n \in DOMAIN new : n \in 1 .. Len(rows) \/ n = Len(rows) + 1
      BY <1>0, <2>5
    <3>4. Len(rows) + 1 \in DOMAIN new
      BY <1>0, <2>5
    <3> QED
      BY <3>1, <3>2, <3>3, <3>4 DEF ActivePrices
  <2>7. \A n \in DOMAIN rows : n \in DOMAIN new /\ new[n] = off[n]
    BY <1>0, <2>5
  <2>8. new[Len(new)].amount = amount
    BY <2>5
  <2>9. \A n \in DOMAIN new : n \in DOMAIN rows \/ new[n].amount = amount
    BY <1>0, <2>5, <2>8
  <2> QED
    BY <2>2, <2>5, <2>6, <2>7, <2>8, <2>9
<1> QED
  BY <1>1, <1>2

-----------------------------------------------------------------------------
LEMMA Initially == Init => IInv
<1> SUFFICES ASSUME Init PROVE IInv
  OBVIOUS
<1>1. TypeOK
  BY EmptySeq, ConfigurationAssumption DEF Init, ConfigurationInit, TypeOK
<1>2. GovernanceInv
  BY DEF Init, ConfigurationInit, GovernanceInv, ForceIsOnRecord, NothingUnvalidated,
         ApprovalsFit, Approved, ApprovalSkipped, Proven, None
<1>3. DemandIsGoverned
  BY EmptySeq, LenProperties
  DEF Init, DemandIsGoverned, ServedIsProven, OnePriceQuoted, QuotesAreProven,
      ReadWhileOpen, AcceptedIsProven, NoRow
<1> QED
  BY <1>1, <1>2, <1>3 DEF Init, IInv, PricedByProjection

(* Governing moves versions only forward to ACTIVE or aside: whatever was   *)
(* proven stays so, and the log says how it came to be.                    *)
LEMMA GovernStep ==
    ASSUME TypeOK, GovernanceInv, NEW v \in Versions, Govern(v)
    PROVE  /\ configuration' \in [Versions -> ConfigurationStates \union {None}]
           /\ publishing' \subseteq Versions
           /\ events' \subseteq Event
           /\ \A u \in Versions : Proven(u) => Proven(u)'
           /\ GovernanceInv'
<1> USE DEF TypeOK, ConfigurationStates, Event
<1>1. CASE BeginPublication(v)
  BY <1>1 DEF BeginPublication, Proven, GovernanceInv, ForceIsOnRecord,
              NothingUnvalidated, ApprovalsFit, Approved, ApprovalSkipped
<1>2. CASE PublishConfiguration(v)
  <2>1. configuration[v] = None
    BY <1>2 DEF PublishConfiguration, Published
  <2>2. configuration'[v] \in {"VALIDATED", "REJECTED"} /\ events' = events
    BY <1>2 DEF PublishConfiguration
  <2>3. \A u \in Versions : u # v => configuration'[u] = configuration[u]
    BY <1>2 DEF PublishConfiguration
  <2>4. \A u \in Versions : Proven(u)' <=> Proven(u)
    BY <2>1, <2>2, <2>3 DEF Proven, None
  <2>5. ForceIsOnRecord' /\ ApprovalsFit'
    BY <2>1, <2>2, <2>3, <2>4
    DEF GovernanceInv, ForceIsOnRecord, ApprovalsFit, Approved, ApprovalSkipped, None
  <2>6. NothingUnvalidated'
    BY <1>2 DEF PublishConfiguration, GovernanceInv, NothingUnvalidated
  <2> QED
    BY <1>2, <2>2, <2>4, <2>5, <2>6 DEF PublishConfiguration, GovernanceInv
<1>3. CASE ApproveConfiguration(v)
  <2>1. /\ configuration[v] = "VALIDATED" /\ configuration'[v] = "APPROVED"
        /\ \A u \in Versions : u # v => configuration'[u] = configuration[u]
    BY <1>3 DEF ApproveConfiguration
  <2>2. events' = events \union {[version |-> v, to |-> "APPROVED"]}
    BY <1>3 DEF ApproveConfiguration, RecordEvent
  <2>3. /\ \A u \in Versions : Proven(u)' <=> Proven(u)
        /\ \A u \in Versions : Approved(u)' <=> Approved(u) \/ u = v
        /\ \A u \in Versions : ApprovalSkipped(u)' <=> ApprovalSkipped(u)
    BY <2>1, <2>2 DEF Proven, Approved, ApprovalSkipped
  <2>4. ~Proven(v)
    BY <2>1 DEF Proven
  <2>5. ForceIsOnRecord'
    BY <2>3, <2>4 DEF GovernanceInv, ForceIsOnRecord
  <2>6. NothingUnvalidated' /\ ApprovalsFit'
    BY <2>1, <2>3 DEF GovernanceInv, NothingUnvalidated, ApprovalsFit, None
  <2> QED
    BY <1>3, <2>2, <2>3, <2>5, <2>6 DEF ApproveConfiguration, GovernanceInv
<1>4. CASE ActivateConfiguration(v) \/ RollbackToVersion(v)
  <2>1. /\ MakeActive(v) /\ UNCHANGED publishing
        /\ configuration[v] \in {"VALIDATED", "APPROVED", "SUPERSEDED"}
        /\ events' = IF configuration[v] = "VALIDATED"
                     THEN events \union {[version |-> v, to |-> "ACTIVE"]} ELSE events
    BY <1>4 DEF ActivateConfiguration, RollbackToVersion, RecordEvent
  <2>2. configuration'[v] = "ACTIVE"
    BY <2>1 DEF MakeActive
  <2>3. \A u \in Versions : u # v =>
           configuration'[u] = IF configuration[u] = "ACTIVE" THEN "SUPERSEDED"
                               ELSE configuration[u]
    BY <2>1 DEF MakeActive
  <2>4. \A u \in Versions : Proven(u)' <=> u = v \/ Proven(u)
    BY <2>2, <2>3 DEF Proven
  <2>5. /\ \A u \in Versions : Approved(u)' <=> Approved(u)
        /\ \A u \in Versions : ApprovalSkipped(u)' <=>
              ApprovalSkipped(u) \/ (u = v /\ configuration[v] = "VALIDATED")
    BY <2>1 DEF Approved, ApprovalSkipped
  <2>6. /\ v \in Valid
        /\ configuration[v] = "VALIDATED" => ~Approved(v)
        /\ configuration[v] = "APPROVED" => Approved(v)
        /\ configuration[v] = "SUPERSEDED" => Proven(v)
    BY <2>1 DEF GovernanceInv, NothingUnvalidated, ApprovalsFit, Proven, None
  <2>7. ForceIsOnRecord'
    <3>1. \A u \in Versions : u # v =>
             (/\ Proven(u) => u \in Valid
              /\ Proven(u) /\ ~Approved(u) => ApprovalSkipped(u)
              /\ ApprovalSkipped(u) => Proven(u) /\ ~Approved(u))'
      BY <2>4, <2>5 DEF GovernanceInv, ForceIsOnRecord
    <3>2. (/\ Proven(v) => v \in Valid
           /\ Proven(v) /\ ~Approved(v) => ApprovalSkipped(v)
           /\ ApprovalSkipped(v) => Proven(v) /\ ~Approved(v))'
      BY <2>1, <2>4, <2>5, <2>6 DEF GovernanceInv, ForceIsOnRecord
    <3> QED
      BY <3>1, <3>2 DEF ForceIsOnRecord
  <2>8. NothingUnvalidated'
    BY <2>2, <2>3, <2>6 DEF GovernanceInv, NothingUnvalidated, None
  <2>9. ApprovalsFit'
    BY <2>2, <2>3, <2>5 DEF GovernanceInv, ApprovalsFit
  <2> QED
    BY <2>1, <2>4, <2>7, <2>8, <2>9 DEF MakeActive, GovernanceInv
<1> QED
  BY <1>1, <1>2, <1>3, <1>4 DEF Govern

-----------------------------------------------------------------------------
(* What every step preserves of the past, and what a host or a submission  *)
(* may do that leaves the prices and what governs alone.                   *)

Frozen ==
    /\ \A k \in Keys : demand[k] # NoRow => demand'[k] = demand[k]
    /\ \A n \in DOMAIN prices :
          /\ n \in DOMAIN prices'
          /\ prices'[n].amount = prices[n].amount
          /\ prices'[n].active => prices[n].active

(* ReadWhileOpen, of one submission.                                       *)
Reads(k) ==
    submission[k] # NoSubmission =>
       /\ demand[k] = NoRow
       /\ host[submission[k].host].phase = "SERVING"
       /\ submission[k].intent \in Admits[host[submission[k].host].version]
       /\ submission[k].since \in DOMAIN prices
       /\ submission[k].phase = "PRICED" =>
             submission[k].row \in submission[k].since .. Len(prices)

LEMMA OpenReads == ReadWhileOpen <=> \A k \in Keys : Reads(k)
BY DEF ReadWhileOpen, Reads

LEMMA QuietStep ==
    ASSUME IInv, UNCHANGED <<configVars, catalogueVars, demand>>,
           host' \in [Hosts -> Up \union {Down}],
           \A g \in Hosts : host'[g] # Down => Proven(host'[g].version),
           submission' \in [Keys -> Submission \union {NoSubmission}],
           \A k \in Keys : Reads(k)'
    PROVE  IInv' /\ Frozen
<1> USE DEF IInv
<1>1. TypeOK'
  BY DEF TypeOK, configVars, catalogueVars
<1>2. GovernanceInv' /\ PricedByProjection'
  BY DEF GovernanceInv, ForceIsOnRecord, NothingUnvalidated, ApprovalsFit, Approved,
         ApprovalSkipped, PricedByProjection, Proven, configVars, catalogueVars
<1>3. ServedIsProven' /\ OnePriceQuoted' /\ QuotesAreProven' /\ AcceptedIsProven'
  BY DEF DemandIsGoverned, ServedIsProven, OnePriceQuoted, QuotesAreProven,
         AcceptedIsProven, Proven, ActivePrices, configVars, catalogueVars
<1>4. ReadWhileOpen'
  BY DEF ReadWhileOpen, Reads
<1> QED
  BY <1>1, <1>2, <1>3, <1>4 DEF DemandIsGoverned, Frozen, catalogueVars

LEMMA ServeStep ==
    ASSUME IInv, NEW h \in Hosts, Serve(h)
    PROVE  IInv' /\ Frozen
<1> USE DEF IInv
<1>1. /\ host \in [Hosts -> Up \union {Down}]
      /\ submission \in [Keys -> Submission \union {NoSubmission}]
      /\ \A g \in Hosts : host[g] # Down => Proven(host[g].version)
      /\ \A k \in Keys : Reads(k)
  BY OpenReads DEF TypeOK, DemandIsGoverned, ServedIsProven
<1>2. \A k \in Keys : submission[k] # NoSubmission =>
         submission[k].host \in Hosts /\ host[submission[k].host].phase = "SERVING"
  BY <1>1 DEF Reads, Submission
<1>3. ASSUME host[h].phase # "SERVING",
             \A g \in Hosts : g # h => host'[g] = host[g],
             UNCHANGED <<submission, prices, demand>>
      PROVE  \A k \in Keys : Reads(k)'
  <2> TAKE k \in Keys
  <2>1. submission[k] # NoSubmission =>
           host'[submission[k].host] = host[submission[k].host]
    BY <1>2, <1>3
  <2> QED
    BY <1>1, <1>3, <2>1 DEF Reads
<1>4. CASE StartRuntime(h)
  <2>1. PICK v \in Versions :
           /\ configuration[v] = "ACTIVE"
           /\ host' = [host EXCEPT ![h] = [phase |-> "RESOLVED", version |-> v]]
    BY <1>4 DEF StartRuntime
  <2>2. UNCHANGED <<configVars, catalogueVars, demandVars>> /\ host[h] = Down
    BY <1>4 DEF StartRuntime
  <2>3. host' \in [Hosts -> Up \union {Down}]
        /\ \A g \in Hosts : g # h => host'[g] = host[g]
    BY <1>1, <2>1 DEF Up
  <2>4. \A g \in Hosts : host'[g] # Down => Proven(host'[g].version)
    BY <1>1, <2>1 DEF Proven
  <2>5. \A k \in Keys : Reads(k)'
    BY <1>3, <2>2, <2>3 DEF Down, catalogueVars, demandVars
  <2> QED
    BY <1>1, <2>2, <2>3, <2>4, <2>5, QuietStep DEF demandVars
<1>5. CASE ServeWithoutProjection(h)
  <2>1. /\ host[h].phase = "RESOLVED"
        /\ host' = [host EXCEPT ![h].phase = "SERVING"]
        /\ UNCHANGED <<configVars, catalogueVars, demandVars>>
    BY <1>5 DEF ServeWithoutProjection
  <2>2. /\ host' \in [Hosts -> Up \union {Down}]
        /\ \A g \in Hosts : g # h => host'[g] = host[g]
        /\ \A g \in Hosts : host'[g] # Down =>
              host[g] # Down /\ host'[g].version = host[g].version
    BY <1>1, <2>1 DEF Up, Down
  <2>3. \A k \in Keys : Reads(k)'
    BY <1>3, <2>1, <2>2 DEF catalogueVars, demandVars
  <2> QED
    BY <1>1, <2>1, <2>2, <2>3, QuietStep DEF demandVars
<1>6. CASE Stop(h)
  <2>1. /\ host' = [host EXCEPT ![h] = Down]
        /\ submission' = [k \in Keys |->
              IF submission[k] # NoSubmission /\ submission[k].host = h
              THEN NoSubmission ELSE submission[k]]
        /\ UNCHANGED <<configVars, catalogueVars, demand>>
    BY <1>6 DEF Stop
  <2>2. /\ host' \in [Hosts -> Up \union {Down}]
        /\ \A g \in Hosts : host'[g] # Down => g # h /\ host'[g] = host[g]
        /\ submission' \in [Keys -> Submission \union {NoSubmission}]
    BY <1>1, <2>1
  <2>3. ASSUME NEW k \in Keys PROVE Reads(k)'
    <3>1. submission'[k] # NoSubmission =>
             /\ submission'[k] = submission[k]
             /\ host'[submission[k].host] = host[submission[k].host]
      BY <1>2, <2>1
    <3> QED
      BY <1>1, <2>1, <3>1 DEF Reads, catalogueVars
  <2> QED
    BY <1>1, <2>1, <2>2, <2>3, QuietStep
<1>7. ASSUME NEW k \in Keys, NEW i \in Intents, BeginSubmission(h, k, i)
      PROVE  IInv' /\ Frozen
  <2> DEFINE begun == [phase |-> "BOUND", host |-> h, intent |-> i,
                       since |-> Len(prices), row |-> 0]
  <2>1. /\ host[h].phase = "SERVING" /\ i \in Admits[host[h].version]
        /\ demand[k] = NoRow /\ projected # 0
        /\ submission' = [submission EXCEPT ![k] = begun]
        /\ UNCHANGED <<configVars, host, catalogueVars, demand>>
    BY <1>7 DEF BeginSubmission
  <2>2. prices # <<>> /\ Len(prices) \in DOMAIN prices /\ Len(prices) \in Nat
    BY <2>1, EmptySeq, LenProperties DEF TypeOK, DemandIsGoverned, OnePriceQuoted
  <2>3. begun \in Submission
    BY <2>2 DEF Submission
  <2>4. /\ submission' \in [Keys -> Submission \union {NoSubmission}]
        /\ submission'[k] = begun
        /\ \A j \in Keys : j # k => submission'[j] = submission[j]
    BY <1>1, <2>1, <2>3
  <2>5. ASSUME NEW j \in Keys PROVE Reads(j)'
    <3>1. CASE j = k
      BY <2>1, <2>2, <2>4, <3>1 DEF Reads, catalogueVars
    <3>2. CASE j # k
      BY <1>1, <2>1, <2>4, <3>2 DEF Reads, catalogueVars
    <3> QED
      BY <3>1, <3>2
  <2> QED
    BY <1>1, <2>1, <2>4, <2>5, QuietStep
<1>8. CASE ProjectCatalogue(h)
  <2> DEFINE v == host[h].version
  <2>1. host[h] \in Up /\ v \in Versions /\ Proven(v) /\ host[h].phase # "SERVING"
    BY <1>1, <1>8 DEF ProjectCatalogue, Up, Down
  <2>2. v \in 1 .. MaxVersion /\ v # 0 /\ Price[v] \in Nat
    BY <2>1, DemandAssumption, ConfigurationAssumption DEF Versions
  <2>3. prices = <<>> \/ ActivePrices(prices) = {Len(prices)}
    BY DEF PricedByProjection, DemandIsGoverned, OnePriceQuoted
  <2>4. /\ prices' = Repriced(prices, Price[v]) /\ projected' = v
        /\ UNCHANGED <<configuration, publishing, events, submission, demand>>
    BY <1>8 DEF ProjectCatalogue, configVars, demandVars
  <2>5. /\ prices' \in Seq(PriceVersion) /\ prices' # <<>>
        /\ \A n \in DOMAIN prices :
              /\ n \in DOMAIN prices'
              /\ prices'[n].amount = prices[n].amount
              /\ prices'[n].active => prices[n].active
        /\ \A n \in DOMAIN prices' : n \in DOMAIN prices \/ prices'[n].amount = Price[v]
        /\ ActivePrices(prices') = {Len(prices')}
        /\ prices'[Len(prices')].amount = Price[v]
    <3>1. prices \in Seq(PriceVersion)
      BY DEF TypeOK
    <3>2. RepricedAs(prices, Price[v], Repriced(prices, Price[v]))
      BY <2>2, <2>3, <3>1, RepricedRows
    <3> QED
      BY <2>4, <3>2 DEF RepricedAs
  <2>6. /\ host' \in [Hosts -> Up \union {Down}]
        /\ \A g \in Hosts : host'[g] # Down =>
              host[g] # Down /\ host'[g].version = host[g].version
        /\ \A g \in Hosts : g # h => host'[g] = host[g]
    BY <1>1, <1>8, <2>1 DEF ProjectCatalogue, Up, Down
  <2>7. TypeOK'
    BY <2>2, <2>4, <2>5, <2>6, ConfigurationAssumption DEF TypeOK
  <2>8. GovernanceInv' /\ PricedByProjection'
    BY <2>2, <2>4
    DEF GovernanceInv, ForceIsOnRecord, NothingUnvalidated, ApprovalsFit, Approved,
        ApprovalSkipped, PricedByProjection, Proven
  <2>9. ServedIsProven'
    BY <1>1, <2>4, <2>6 DEF ServedIsProven, Proven
  <2>10. OnePriceQuoted'
    BY <2>1, <2>4, <2>5 DEF OnePriceQuoted, Proven
  <2>11. QuotesAreProven'
    BY <2>1, <2>4, <2>5 DEF DemandIsGoverned, QuotesAreProven, Proven
  <2>12. AcceptedIsProven'
    BY <2>4, <2>5 DEF DemandIsGoverned, AcceptedIsProven, Proven
  <2>13. ReadWhileOpen'
    <3>1. /\ Len(prices) \in Nat /\ DOMAIN prices = 1 .. Len(prices)
          /\ Len(prices') \in Nat /\ DOMAIN prices' = 1 .. Len(prices')
      BY <2>5, LenProperties DEF TypeOK
    <3>2. Len(prices) <= Len(prices')
      <4>1. CASE Len(prices) = 0
        BY <3>1, <4>1
      <4>2. CASE Len(prices) # 0
        <5>1. Len(prices) \in DOMAIN prices
          BY <3>1, <4>2
        <5> QED
          BY <2>5, <3>1, <5>1
      <4> QED
        BY <4>1, <4>2
    <3>3. ASSUME NEW k \in Keys PROVE Reads(k)'
      <4>1. submission[k] # NoSubmission =>
               host'[submission[k].host] = host[submission[k].host]
        BY <1>2, <2>1, <2>6
      <4>2. submission[k] # NoSubmission => submission[k].since \in DOMAIN prices'
        BY <1>1, <2>5 DEF Reads
      <4>3. submission[k] # NoSubmission /\ submission[k].phase = "PRICED" =>
               submission[k].row \in submission[k].since .. Len(prices')
        BY <1>1, <3>1, <3>2 DEF Reads
      <4> QED
        BY <1>1, <2>4, <4>1, <4>2, <4>3 DEF Reads
    <3> QED
      BY <3>3 DEF ReadWhileOpen, Reads
  <2> QED
    BY <2>4, <2>5, <2>7, <2>8, <2>9, <2>10, <2>11, <2>12, <2>13
    DEF DemandIsGoverned, Frozen
<1> QED
  BY <1>4, <1>5, <1>6, <1>7, <1>8 DEF Serve

(* A submission's own steps.                                               *)
LEMMA SubmitStep ==
    ASSUME IInv, NEW k \in Keys, Submit(k)
    PROVE  IInv' /\ Frozen
<1> USE DEF IInv
<1>1. /\ host \in [Hosts -> Up \union {Down}]
      /\ submission \in [Keys -> Submission \union {NoSubmission}]
      /\ \A g \in Hosts : host[g] # Down => Proven(host[g].version)
      /\ \A j \in Keys : Reads(j)
      /\ prices \in Seq(PriceVersion)
  BY OpenReads DEF TypeOK, DemandIsGoverned, ServedIsProven
<1>2. Len(prices) \in Nat /\ DOMAIN prices = 1 .. Len(prices)
  BY <1>1, LenProperties
<1>3. ASSUME NEW next \in Submission \union {NoSubmission},
             submission' = [submission EXCEPT ![k] = next],
             UNCHANGED <<configVars, host, catalogueVars, demand>>,
             next # NoSubmission =>
                /\ submission[k] # NoSubmission
                /\ next.host = submission[k].host
                /\ next.intent = submission[k].intent
                /\ next.since = submission[k].since
                /\ next.phase = "PRICED" => next.row \in next.since .. Len(prices)
      PROVE  IInv' /\ Frozen
  <2>1. /\ submission' \in [Keys -> Submission \union {NoSubmission}]
        /\ submission'[k] = next
        /\ \A j \in Keys : j # k => submission'[j] = submission[j]
    BY <1>1, <1>3
  <2>2. ASSUME NEW j \in Keys PROVE Reads(j)'
    <3>1. CASE j = k
      BY <1>1, <1>3, <2>1, <3>1 DEF Reads, catalogueVars
    <3>2. CASE j # k
      BY <1>1, <1>3, <2>1, <3>2 DEF Reads, catalogueVars
    <3> QED
      BY <3>1, <3>2
  <2> QED
    BY <1>1, <1>3, <2>1, <2>2, QuietStep
<1>4. CASE ReadService(k)
  <2> DEFINE next == [submission[k] EXCEPT !.phase = "OFFERED"]
  <2>1. submission[k] \in Submission /\ submission[k] # NoSubmission
    BY <1>1, <1>4 DEF ReadService, NoSubmission, None
  <2>2. next \in Submission
    BY <2>1 DEF Submission
  <2>3. submission' = [submission EXCEPT ![k] = next]
        /\ UNCHANGED <<configVars, host, catalogueVars, demand>>
    BY <1>1, <1>4 DEF ReadService
  <2>4. /\ next.host = submission[k].host /\ next.intent = submission[k].intent
        /\ next.since = submission[k].since /\ next.phase = "OFFERED"
    BY <2>1 DEF Submission
  <2> HIDE DEF next
  <2> QED
    BY <1>3, <2>1, <2>2, <2>3, <2>4
<1>5. CASE ReadPrice(k)
  <2>1. PICK n \in ActivePrices(prices) :
           submission' = [submission EXCEPT ![k].phase = "PRICED", ![k].row = n]
    BY <1>5 DEF ReadPrice
  <2> DEFINE next == [submission[k] EXCEPT !.phase = "PRICED", !.row = n]
  <2>2. submission[k] \in Submission /\ submission[k] # NoSubmission
    BY <1>1, <1>5 DEF ReadPrice, NoSubmission, None
  <2>3. submission[k].since \in 1 .. Len(prices)
    BY <1>1, <1>2, <2>2 DEF Reads
  <2>4. n = Len(prices)
    <3>1. n \in DOMAIN prices
      BY <2>1 DEF ActivePrices
    <3>2. projected # 0
      BY <1>2, <3>1, <1>1, EmptySeq DEF PricedByProjection
    <3> QED
      BY <2>1, <3>2 DEF DemandIsGoverned, OnePriceQuoted
  <2>5. next \in Submission
    BY <1>2, <2>2, <2>4 DEF Submission
  <2>6. submission' = [submission EXCEPT ![k] = next]
        /\ UNCHANGED <<configVars, host, catalogueVars, demand>>
    BY <1>1, <1>5, <2>1, <2>2 DEF ReadPrice, Submission
  <2>7. /\ next.host = submission[k].host /\ next.intent = submission[k].intent
        /\ next.since = submission[k].since /\ next.row = n
    BY <2>2 DEF Submission
  <2>8. n \in submission[k].since .. Len(prices)
    BY <1>2, <2>3, <2>4
  <2> HIDE DEF next
  <2> QED
    BY <1>3, <2>2, <2>5, <2>6, <2>7, <2>8
<1>6. CASE RefuseSubmission(k)
  BY <1>3, <1>6 DEF RefuseSubmission
<1>7. CASE SubmitCustomerDemand(k)
  <2> DEFINE row == [intent |-> submission[k].intent,
                     version |-> host[submission[k].host].version,
                     price |-> prices[submission[k].row].amount,
                     row |-> submission[k].row]
  <2>1. /\ submission[k].phase = "PRICED"
        /\ demand' = [demand EXCEPT ![k] = row]
        /\ submission' = [submission EXCEPT ![k] = NoSubmission]
        /\ UNCHANGED <<configuration, publishing, events, host, projected, prices>>
    BY <1>7 DEF SubmitCustomerDemand, configVars, catalogueVars
  <2>2. submission[k] \in Submission /\ submission[k] # NoSubmission
    BY <1>1, <2>1 DEF NoSubmission, None
  <2>3. /\ demand[k] = NoRow
        /\ submission[k].intent \in Admits[host[submission[k].host].version]
        /\ host[submission[k].host].phase = "SERVING"
        /\ submission[k].host \in Hosts /\ submission[k].intent \in Intents
    BY <1>1, <2>2 DEF Reads, Submission
  <2>4. host[submission[k].host] \in Up /\ Proven(host[submission[k].host].version)
    BY <1>1, <2>3 DEF Down, Up
  <2>5. submission[k].row \in DOMAIN prices /\ submission[k].row \in Nat \ {0}
    BY <1>1, <1>2, <2>1, <2>2 DEF Reads
  <2>6. prices[submission[k].row] \in PriceVersion
    BY <1>1, <1>2, <2>5, ElementOfSeq
  <2>7. row \in Demand
    BY <2>3, <2>4, <2>5, <2>6 DEF Demand, Up, PriceVersion
  <2>8. /\ demand' \in [Keys -> Demand \union {NoRow}]
        /\ demand'[k] = row
        /\ \A j \in Keys : j # k => demand'[j] = demand[j]
    BY <2>1, <2>7 DEF TypeOK
  <2>9. /\ submission' \in [Keys -> Submission \union {NoSubmission}]
        /\ submission'[k] = NoSubmission
        /\ \A j \in Keys : j # k => submission'[j] = submission[j]
    BY <1>1, <2>1
  <2>10. TypeOK'
    BY <2>1, <2>8, <2>9 DEF TypeOK
  <2>11. GovernanceInv' /\ PricedByProjection'
    BY <2>1 DEF GovernanceInv, ForceIsOnRecord, NothingUnvalidated, ApprovalsFit,
                Approved, ApprovalSkipped, PricedByProjection, Proven
  <2>12. ServedIsProven' /\ OnePriceQuoted' /\ QuotesAreProven'
    BY <2>1 DEF DemandIsGoverned, ServedIsProven, OnePriceQuoted, QuotesAreProven,
                Proven, ActivePrices
  <2>13. ReadWhileOpen'
    <3>1. ASSUME NEW j \in Keys PROVE Reads(j)'
      <4>1. CASE j = k
        BY <2>9, <4>1 DEF Reads
      <4>2. CASE j # k
        BY <1>1, <2>1, <2>8, <2>9, <4>2 DEF Reads
      <4> QED
        BY <4>1, <4>2
    <3> QED
      BY <3>1 DEF ReadWhileOpen, Reads
  <2>14. AcceptedIsProven'
    <3>1. /\ Proven(demand[k].version)'
          /\ demand'[k].intent \in Admits[demand'[k].version]
          /\ demand'[k].row \in DOMAIN prices'
          /\ demand'[k].price = prices'[demand'[k].row].amount
      BY <2>1, <2>3, <2>4, <2>5, <2>8 DEF Proven
    <3>2. ASSUME NEW j \in Keys, j # k, demand'[j] # NoRow
          PROVE  /\ Proven(demand[j].version)'
                 /\ demand'[j].intent \in Admits[demand'[j].version]
                 /\ demand'[j].row \in DOMAIN prices'
                 /\ demand'[j].price = prices'[demand'[j].row].amount
      BY <2>1, <2>8, <3>2 DEF DemandIsGoverned, AcceptedIsProven, Proven
    <3> QED
      BY <3>1, <3>2 DEF AcceptedIsProven
  <2>15. Frozen
    BY <2>1, <2>3, <2>8 DEF Frozen
  <2> QED
    BY <2>10, <2>11, <2>12, <2>13, <2>14, <2>15 DEF DemandIsGoverned
<1> QED
  BY <1>4, <1>5, <1>6, <1>7 DEF Submit

(* A step of governance leaves demand and catalogue alone, and they rest   *)
(* only on versions that stay proven.                                      *)
LEMMA GovernConfigurationStep ==
    ASSUME IInv, GovernConfiguration
    PROVE  IInv' /\ Frozen
<1> USE DEF IInv
<1>1. PICK v \in Versions : Govern(v)
  BY DEF GovernConfiguration
<1>2. UNCHANGED <<host, projected, prices, submission, demand>>
  BY DEF GovernConfiguration, catalogueVars, demandVars
<1>3. /\ configuration' \in [Versions -> ConfigurationStates \union {None}]
      /\ publishing' \subseteq Versions
      /\ events' \subseteq Event
      /\ \A u \in Versions : Proven(u) => Proven(u)'
      /\ GovernanceInv'
  BY <1>1, GovernStep
<1>4. TypeOK'
  BY <1>2, <1>3 DEF TypeOK
<1>5. ServedIsProven' /\ AcceptedIsProven'
  <2>1. \A g \in Hosts : host[g] # Down => host[g].version \in Versions
    BY DEF TypeOK, Up
  <2>2. \A k \in Keys : demand[k] # NoRow => demand[k].version \in Versions
    BY DEF TypeOK, Demand
  <2> QED
    BY <1>2, <1>3, <2>1, <2>2
    DEF DemandIsGoverned, ServedIsProven, AcceptedIsProven, Proven
<1>6. OnePriceQuoted' /\ QuotesAreProven'
  <2>1. projected # 0 => projected \in Versions
    BY ConfigurationAssumption DEF TypeOK, Versions
  <2> QED
    BY <1>2, <1>3, <2>1
    DEF DemandIsGoverned, OnePriceQuoted, QuotesAreProven, Proven, ActivePrices
<1>7. ReadWhileOpen' /\ Frozen
  BY <1>2 DEF DemandIsGoverned, ReadWhileOpen, Frozen
<1> QED
  BY <1>2, <1>3, <1>4, <1>5, <1>6, <1>7 DEF DemandIsGoverned, PricedByProjection

LEMMA Stutter == IInv /\ UNCHANGED vars => IInv'
<1> SUFFICES ASSUME IInv, UNCHANGED vars PROVE IInv'
  OBVIOUS
<1>1. UNCHANGED <<configVars, catalogueVars, host, submission, demand>>
  BY DEF vars, demandVars
<1>2. \A k \in Keys : Reads(k)'
  BY <1>1, OpenReads DEF IInv, DemandIsGoverned, Reads, catalogueVars
<1>3. /\ host' \in [Hosts -> Up \union {Down}]
      /\ \A g \in Hosts : host'[g] # Down => Proven(host'[g].version)
      /\ submission' \in [Keys -> Submission \union {NoSubmission}]
  BY <1>1 DEF IInv, TypeOK, DemandIsGoverned, ServedIsProven
<1> QED
  BY <1>1, <1>2, <1>3, QuietStep

LEMMA NextStep == IInv /\ Next => IInv' /\ Frozen
<1> SUFFICES ASSUME IInv, Next PROVE IInv' /\ Frozen
  OBVIOUS
<1> QED
  BY ServeStep, SubmitStep, GovernConfigurationStep DEF Next

LEMMA Inductive == Spec => []IInv
<1>1. IInv /\ [Next]_vars => IInv'
  BY NextStep, Stutter
<1> QED
  BY Initially, <1>1, PTL DEF Spec

-----------------------------------------------------------------------------
(* Rows and processes keep their columns.                                  *)
THEOREM TypeCorrect == Spec => []TypeOK
<1>1. IInv => TypeOK
  BY DEF IInv
<1> QED
  BY Inductive, <1>1, PTL

(* store.ts: what governs passed validation, and was approved or is on     *)
(* record as rolled back to without: the fault of rollbackToVersion        *)
(* (store.ts:277) is the only way past an approval.                        *)
THEOREM ApprovalIsSkippedByRollbackOnly == Spec => []ForceIsOnRecord
<1>1. IInv => ForceIsOnRecord
  BY DEF IInv, GovernanceInv
<1> QED
  BY Inductive, <1>1, PTL

(* demandIngress.ts: whatever was accepted was accepted under a version    *)
(* that had been put in force, at a price Core quoted while the submission *)
(* was open, whoever projected between its reads.                          *)
THEOREM EveryDemandIsGoverned == Spec => []DemandIsGoverned
<1>1. IInv => DemandIsGoverned
  BY DEF IInv
<1> QED
  BY Inductive, <1>1, PTL

(* catalogueProjection.ts: a projection appends, and neither it nor        *)
(* anything else rewrites a demand or a price.                             *)
THEOREM AcceptedTermsStayFrozen == Spec => AcceptedTermsAreFrozen
<1>1. IInv /\ [Next]_vars => [Frozen]_vars
  BY NextStep
<1> QED
  BY Inductive, <1>1, PTL DEF Spec, AcceptedTermsAreFrozen, Frozen

(* What a demand says when it is recorded: the version of the host that    *)
(* took it, which admits it, and a price of some version once in force     *)
(* that was not retired before the submission began, though it may have    *)
(* been since.                                                             *)
QuotedAsRead(k) ==
    /\ host[submission[k].host].phase = "SERVING"
    /\ demand'[k].version = host[submission[k].host].version
    /\ demand'[k].intent \in Admits[demand'[k].version]
    /\ demand'[k].row \in submission[k].since .. Len(prices)
    /\ demand'[k].price = prices[demand'[k].row].amount
    /\ \E v \in Versions : Proven(v) /\ demand'[k].price = Price[v]

LEMMA SubmissionIsQuoted ==
    ASSUME IInv, NEW k \in Keys, SubmitCustomerDemand(k)
    PROVE  /\ QuotedAsRead(k)
           /\ \A j \in Keys : j # k => demand'[j] = demand[j]
<1>1. demand \in [Keys -> Demand \union {NoRow}] /\ prices \in Seq(PriceVersion)
  BY DEF IInv, TypeOK
<1>2. /\ demand'[k] = [intent |-> submission[k].intent,
                       version |-> host[submission[k].host].version,
                       price |-> prices[submission[k].row].amount,
                       row |-> submission[k].row]
      /\ \A j \in Keys : j # k => demand'[j] = demand[j]
  BY <1>1 DEF SubmitCustomerDemand
<1>3. submission[k].phase = "PRICED" /\ submission[k] # NoSubmission
  BY DEF SubmitCustomerDemand, NoSubmission, None
<1>4. /\ host[submission[k].host].phase = "SERVING"
      /\ submission[k].intent \in Admits[host[submission[k].host].version]
      /\ submission[k].since \in DOMAIN prices
      /\ submission[k].row \in submission[k].since .. Len(prices)
  BY <1>3 DEF IInv, DemandIsGoverned, ReadWhileOpen
<1>5. submission[k].row \in DOMAIN prices
  BY <1>1, <1>4, LenProperties
<1>6. \E v \in Versions : Proven(v) /\ prices[submission[k].row].amount = Price[v]
  BY <1>5 DEF IInv, DemandIsGoverned, QuotesAreProven
<1> QED
  BY <1>2, <1>4, <1>6 DEF QuotedAsRead

(* demandIngress.ts: through any restarts, rollbacks and projections, a    *)
(* demand is only ever recorded by a host that serves, under the version   *)
(* it serves, and at a price read while the submission was open: not       *)
(* necessarily the one in effect when it is recorded.                      *)
THEOREM EveryDemandIsQuotedAsRead ==
    Spec => [][\A k \in Keys : demand'[k] # demand[k] => QuotedAsRead(k)]_vars
<1> DEFINE Quoted == \A k \in Keys : demand'[k] # demand[k] => QuotedAsRead(k)
<1>1. IInv /\ [Next]_vars => [Quoted]_vars
  <2> SUFFICES ASSUME IInv, Next, NEW k \in Keys, demand'[k] # demand[k]
               PROVE  QuotedAsRead(k)
    OBVIOUS
  <2>1. ~ GovernConfiguration
    BY DEF GovernConfiguration, demandVars
  <2>2. \A h \in Hosts : ~ Serve(h)
    BY DEF Serve, StartRuntime, ProjectCatalogue, ServeWithoutProjection, Stop,
           BeginSubmission, demandVars
  <2>3. PICK j \in Keys : Submit(j)
    BY <2>1, <2>2 DEF Next
  <2>4. SubmitCustomerDemand(j)
    BY <2>3 DEF Submit, ReadService, ReadPrice, RefuseSubmission
  <2>5. j = k /\ QuotedAsRead(j)
    BY <2>4, SubmissionIsQuoted
  <2> QED
    BY <2>5
<1> QED
  BY Inductive, <1>1, PTL DEF Spec
=============================================================================
