--------------------------- MODULE GovernedDemand ---------------------------
(***************************************************************************)
(* How a customer's demand becomes a Service Request                       *)
(* (src/src/customer/demandIngress.ts, catalogueProjection.ts,             *)
(* src/src/runtime/bootstrap.ts, src/src/host/customerHost.ts), under a    *)
(* configuration that changes while hosts run.                             *)
(*                                                                         *)
(* A host reads the ACTIVE version in one transaction, projects it into    *)
(* Core's catalogue in another, and serves what it read until it ends.     *)
(* Core's catalogue is shared: the last projection decides what a request  *)
(* costs, whichever host takes it.  One service, which every version       *)
(* lists, stands for the catalogue.                                        *)
(* A submission is one transaction under the advisory lock of its key, but *)
(* not one step: at READ COMMITTED its reads of the binding, the service   *)
(* and the price each see what is committed by then, and no lock keeps a   *)
(* projection from committing between them.  It writes when it commits;    *)
(* refused, or a replay, it leaves no demand.                              *)
(***************************************************************************)
EXTENDS TenantConfiguration, Sequences

CONSTANTS
    Hosts,           \* processes that serve customers
    Keys,            \* idempotency keys
    Intents,         \* what a submission asks for: its fingerprint
    Price,           \* of each version: the price of the service
    Admits,          \* of each version: the intents it admits
    MaxPrices        \* bound: price versions of the service

ASSUME DemandAssumption ==
    /\ Price \in [Versions -> Nat]
    /\ Admits \in [Versions -> SUBSET Intents]
    /\ MaxPrices \in Nat

VARIABLES
    host,            \* each process: what it does, and the version it read
    projected,       \* core_catalogue_binding.projected_from_version, 0 if none
    prices,          \* core_service_price_version rows, by age
    submission,      \* of each key: the transaction that holds its lock
    demand           \* core_demand_ingress rows and their request's version 1

catalogueVars == <<projected, prices>>
demandVars    == <<submission, demand>>
vars == <<configVars, host, catalogueVars, demandVars>>

Down == [phase |-> "DOWN", version |-> 0]

Up == [phase : {"RESOLVED", "SERVING"}, version : Versions]

PriceVersion == [amount : Nat, active : BOOLEAN]

Demand == [intent : Intents, version : Versions, price : Nat, row : Nat \ {0}]

NoRow == [intent |-> None]

(* What it has read so far; `since` is the price row that was the newest   *)
(* when it began, which the code does not keep.                            *)
Submission == [phase : {"BOUND", "OFFERED", "PRICED"}, host : Hosts,
               intent : Intents, since : Nat, row : Nat]

NoSubmission == [phase |-> None]

(* A version whose catalogue has the service inactive admits no intent, and *)
(* its projection makes Core's service inactive.                           *)
Offered(v) == Admits[v] # {}

ActivePrices(rows) == {n \in DOMAIN rows : rows[n].active}

-----------------------------------------------------------------------------
(* Deliberate faults.  Each is a plausible mistake in one definition and   *)
(* stands in for it when we ask whether a property could fail at all.      *)

RepricedInPlace(rows, amount) ==          \* the accepted price moves too
    IF rows = <<>> THEN <<[amount |-> amount, active |-> TRUE]>>
    ELSE [rows EXCEPT ![Len(rows)].amount = amount]

ReadPriceEver(k) ==                       \* any price version, not the active
    /\ submission[k].phase = "OFFERED"
    /\ \E n \in DOMAIN prices :
          submission' = [submission EXCEPT ![k].phase = "PRICED", ![k].row = n]
    /\ UNCHANGED <<configVars, host, catalogueVars, demand>>

-----------------------------------------------------------------------------
(* A price that changed is appended; the one it replaces is only switched  *)
(* off.                                                                    *)
Repriced(rows, amount) ==
    IF \E n \in ActivePrices(rows) : rows[n].amount = amount THEN rows
    ELSE Append([n \in DOMAIN rows |-> [rows[n] EXCEPT !.active = FALSE]],
                [amount |-> amount, active |-> TRUE])

Init ==
    /\ ConfigurationInit
    /\ host = [h \in Hosts |-> Down]
    /\ projected = 0
    /\ prices = <<>>
    /\ submission = [k \in Keys |-> NoSubmission]
    /\ demand = [k \in Keys |-> NoRow]

(* Every check of the spine passes; a process that fails one stays down.   *)
StartRuntime(h) ==
    /\ host[h] = Down
    /\ \E v \in Versions :
          /\ configuration[v] = "ACTIVE"
          /\ host' = [host EXCEPT ![h] = [phase |-> "RESOLVED", version |-> v]]
    /\ UNCHANGED <<configVars, catalogueVars, demandVars>>

(* What it projects is what it read, whatever is ACTIVE by now and whoever *)
(* has projected since.                                                    *)
ProjectCatalogue(h) ==
    /\ host[h].phase = "RESOLVED"
    /\ Len(prices) < MaxPrices
    /\ prices' = Repriced(prices, Price[host[h].version])
    /\ projected' = host[h].version
    /\ host' = [host EXCEPT ![h].phase = "SERVING"]
    /\ UNCHANGED <<configVars, demandVars>>

(* A host may be told not to project (projectCatalogueOnStart).            *)
ServeWithoutProjection(h) ==
    /\ host[h].phase = "RESOLVED"
    /\ host' = [host EXCEPT ![h].phase = "SERVING"]
    /\ UNCHANGED <<configVars, catalogueVars, demandVars>>

(* It is closed, or crashes, in either phase, and the transactions that    *)
(* were open in it are lost.                                               *)
Stop(h) ==
    /\ host[h] # Down
    /\ host' = [host EXCEPT ![h] = Down]
    /\ submission' = [k \in Keys |->
          IF submission[k] # NoSubmission /\ submission[k].host = h
          THEN NoSubmission ELSE submission[k]]
    /\ UNCHANGED <<configVars, catalogueVars, demand>>

-----------------------------------------------------------------------------
(* A submission, statement by statement.                                   *)

(* The host's version judges the intent; the key is free and new; a        *)
(* binding exists, whichever version it was projected from.                *)
BeginSubmission(h, k, i) ==
    /\ host[h].phase = "SERVING"
    /\ i \in Admits[host[h].version]
    /\ submission[k] = NoSubmission
    /\ demand[k] = NoRow
    /\ projected # 0
    /\ submission' = [submission EXCEPT ![k] =
          [phase |-> "BOUND", host |-> h, intent |-> i,
           since |-> Len(prices), row |-> 0]]
    /\ UNCHANGED <<configVars, host, catalogueVars, demand>>

(* buildCommercialSnapshot asks whether the service is active ...          *)
ReadService(k) ==
    /\ submission[k].phase = "BOUND"
    /\ Offered(projected)
    /\ submission' = [submission EXCEPT ![k].phase = "OFFERED"]
    /\ UNCHANGED <<configVars, host, catalogueVars, demand>>

(* ... and then for its active price.                                      *)
ReadPrice(k) ==
    /\ submission[k].phase = "OFFERED"
    /\ \E n \in ActivePrices(prices) :
          submission' = [submission EXCEPT ![k].phase = "PRICED", ![k].row = n]
    /\ UNCHANGED <<configVars, host, catalogueVars, demand>>

(* The service is off, or what was created would end after closing time    *)
(* and is rolled back to the savepoint.                                    *)
RefuseSubmission(k) ==
    /\ \/ submission[k].phase = "BOUND" /\ ~Offered(projected)
       \/ submission[k].phase = "PRICED"
    /\ submission' = [submission EXCEPT ![k] = NoSubmission]
    /\ UNCHANGED <<configVars, host, catalogueVars, demand>>

(* Both rows are committed, with the version of the host and the price as  *)
(* it was read.                                                            *)
SubmitCustomerDemand(k) ==
    /\ submission[k].phase = "PRICED"
    /\ demand' = [demand EXCEPT ![k] =
          [intent |-> submission[k].intent,
           version |-> host[submission[k].host].version,
           price |-> prices[submission[k].row].amount,
           row |-> submission[k].row]]
    /\ submission' = [submission EXCEPT ![k] = NoSubmission]
    /\ UNCHANGED <<configVars, host, catalogueVars>>

-----------------------------------------------------------------------------
Serve(h) ==
    \/ StartRuntime(h)
    \/ ProjectCatalogue(h)
    \/ ServeWithoutProjection(h)
    \/ Stop(h)
    \/ \E k \in Keys, i \in Intents : BeginSubmission(h, k, i)

Submit(k) ==
    \/ ReadService(k)
    \/ ReadPrice(k)
    \/ RefuseSubmission(k)
    \/ SubmitCustomerDemand(k)

GovernConfiguration ==
    /\ \E v \in Versions : Govern(v)
    /\ UNCHANGED <<host, catalogueVars, demandVars>>

Next ==
    \/ GovernConfiguration
    \/ \E h \in Hosts : Serve(h)
    \/ \E k \in Keys : Submit(k)

Spec == Init /\ [][Next]_vars

-----------------------------------------------------------------------------
(* Correctness.                                                            *)

(* Rows and processes have their columns.                                  *)
TypeOK ==
    /\ configuration \in [Versions -> ConfigurationStates \union {None}]
    /\ publishing \subseteq Versions
    /\ events \subseteq Event
    /\ host \in [Hosts -> Up \union {Down}]
    /\ projected \in 0 .. MaxVersion
    /\ prices \in Seq(PriceVersion)
    /\ submission \in [Keys -> Submission \union {NoSubmission}]
    /\ demand \in [Keys -> Demand \union {NoRow}]

ServedIsProven == \A h \in Hosts : host[h] # Down => Proven(host[h].version)

(* Core quotes one price at a time, the newest, that of the last           *)
(* projection.                                                             *)
OnePriceQuoted ==
    projected # 0 =>
       /\ Proven(projected)
       /\ prices # <<>>
       /\ ActivePrices(prices) = {Len(prices)}
       /\ prices[Len(prices)].amount = Price[projected]

(* No price that was quoted is an amount nobody governed.                  *)
QuotesAreProven ==
    \A n \in DOMAIN prices :
       \E v \in Versions : Proven(v) /\ prices[n].amount = Price[v]

(* A submission lives in the host that judged it, and the price it has     *)
(* read was not retired before it began.                                   *)
ReadWhileOpen ==
    \A k \in Keys : submission[k] # NoSubmission =>
       /\ demand[k] = NoRow
       /\ host[submission[k].host].phase = "SERVING"
       /\ submission[k].intent \in Admits[host[submission[k].host].version]
       /\ submission[k].since \in DOMAIN prices
       /\ submission[k].phase = "PRICED" =>
             submission[k].row \in submission[k].since .. Len(prices)

AcceptedIsProven ==
    \A k \in Keys : demand[k] # NoRow =>
       /\ Proven(demand[k].version)
       /\ demand[k].intent \in Admits[demand[k].version]
       /\ demand[k].row \in DOMAIN prices
       /\ demand[k].price = prices[demand[k].row].amount

(* However stale a host is, in whatever order hosts project, and whatever  *)
(* is projected between the reads of a submission: no version is served,   *)
(* projected or recorded of a demand that nobody ever put in force; the    *)
(* demand is one its version admits; and its price is one that Core quoted *)
(* while the submission was open, of a version that was put in force.      *)
(* It need not be the version in force when the intent is accepted, as     *)
(* migration 011:109 has it: a host keeps the version it started with, and *)
(* records that, and the price may be of another version again, and of one *)
(* that has taken the service off.                                         *)
DemandIsGoverned ==
    /\ ServedIsProven /\ OnePriceQuoted /\ QuotesAreProven
    /\ ReadWhileOpen /\ AcceptedIsProven

(* A key is settled by the first submission it carries, and no price that  *)
(* was ever quoted is rewritten (migration 002: "later catalogue changes   *)
(* never reprice a persisted request"), through any projection, restart or *)
(* rollback.                                                               *)
AcceptedTermsAreFrozen ==
    [][/\ \A k \in Keys : demand[k] # NoRow => demand'[k] = demand[k]
       /\ \A n \in DOMAIN prices :
             /\ n \in DOMAIN prices'
             /\ prices'[n].amount = prices[n].amount
             /\ prices'[n].active => prices[n].active]_vars
=============================================================================
