------------------------ MODULE TenantConfiguration ------------------------
(***************************************************************************)
(* The governed configuration of one tenant, market and environment        *)
(* (src/src/config/tenant/store.ts, db/migrations/008): versions are       *)
(* published, approved, activated and rolled back to, and a host that      *)
(* starts takes the one that is ACTIVE.                                    *)
(*                                                                         *)
(* A call is a transaction.  Activation and rollback lock the row they     *)
(* activate and the ACTIVE one they supersede, and the partial unique      *)
(* index makes the slower of two fail as a whole, so each is one action.   *)
(* Publication reads the newest version without a lock: it is two, and     *)
(* another may publish in between.                                         *)
(***************************************************************************)
EXTENDS ServiceRequestStates, Naturals

CONSTANTS
    MaxVersion,      \* bound: versions of the configuration
    Valid            \* the versions whose bundle passes validation

Versions == 1 .. MaxVersion

ASSUME ConfigurationAssumption ==
    /\ MaxVersion \in Nat
    /\ Valid \subseteq Versions

VARIABLES
    configuration,   \* core_tenant_configuration.state, by version
    publishing,      \* versions whose publisher has read the newest one
    events           \* core_tenant_configuration_event rows that leave VALIDATED

configVars == <<configuration, publishing, events>>

ConfigurationStates ==
    {"VALIDATED", "REJECTED", "APPROVED", "ACTIVE", "SUPERSEDED"}

Event == [version : Versions, to : {"APPROVED", "ACTIVE"}]

Published == {v \in Versions : configuration[v] # None}

(* It governs, or did.                                                     *)
Proven(v) == configuration[v] \in {"ACTIVE", "SUPERSEDED"}

(* supersedeActive, and the row that takes its place.                      *)
MakeActive(v) ==
    configuration' = [u \in Versions |->
        IF u = v THEN "ACTIVE"
        ELSE IF configuration[u] = "ACTIVE" THEN "SUPERSEDED"
        ELSE configuration[u]]

(* recordEvent, of which only what became of a validated version is kept.  *)
RecordEvent(v, from, to) ==
    events' = IF from = "VALIDATED" THEN events \union {[version |-> v, to |-> to]}
                                    ELSE events

-----------------------------------------------------------------------------
(* Deliberate faults.                                                      *)

ActivateConfigurationUnapproved(v) ==     \* never asks whether it was approved
    /\ configuration[v] \in {"VALIDATED", "APPROVED"}
    /\ MakeActive(v)
    /\ RecordEvent(v, "APPROVED", "ACTIVE")
    /\ UNCHANGED publishing

-----------------------------------------------------------------------------
ConfigurationInit ==
    /\ configuration = [v \in Versions |-> None]
    /\ publishing = {}
    /\ events = {}

BeginPublication(v) ==
    /\ \A u \in Published : u < v
    /\ publishing' = publishing \union {v}
    /\ UNCHANGED <<configuration, events>>

(* uq_configuration_version refuses a number that is taken by now, and     *)
(* nothing refuses one that is older by now.                               *)
PublishConfiguration(v) ==
    /\ v \in publishing
    /\ v \notin Published
    /\ configuration' = [configuration EXCEPT ![v] =
            IF v \in Valid THEN "VALIDATED" ELSE "REJECTED"]
    /\ publishing' = publishing \ {v}
    /\ UNCHANGED events

ApproveConfiguration(v) ==
    /\ configuration[v] = "VALIDATED"
    /\ configuration' = [configuration EXCEPT ![v] = "APPROVED"]
    /\ RecordEvent(v, "VALIDATED", "APPROVED")
    /\ UNCHANGED publishing

ActivateConfiguration(v) ==
    /\ configuration[v] = "APPROVED"
    /\ MakeActive(v)
    /\ RecordEvent(v, "APPROVED", "ACTIVE")
    /\ UNCHANGED publishing

(* Only what was rejected is refused: a version nobody approved passes.    *)
RollbackToVersion(v) ==
    /\ configuration[v] \in {"VALIDATED", "APPROVED", "SUPERSEDED"}
    /\ MakeActive(v)
    /\ RecordEvent(v, configuration[v], "ACTIVE")
    /\ UNCHANGED publishing

Govern(v) ==
    \/ BeginPublication(v)
    \/ PublishConfiguration(v)
    \/ ApproveConfiguration(v)
    \/ ActivateConfiguration(v)
    \/ RollbackToVersion(v)

-----------------------------------------------------------------------------
(* Correctness.                                                            *)

Approved(v) == [version |-> v, to |-> "APPROVED"] \in events

ApprovalSkipped(v) == [version |-> v, to |-> "ACTIVE"] \in events

(* store.ts:5: "an unapproved configuration cannot activate", and          *)
(* store.ts:8: "rollback REACTIVATES a previously proven version".         *)
OnlyApprovedGoverns ==
    \A v \in Versions : configuration[v] = "ACTIVE" => Approved(v)

(* What is true instead, however activations, rollbacks and publications   *)
(* interleave.  What governs, or ever did, passed validation; the event    *)
(* log tells of each version whether it was approved first or whether a    *)
(* rollback skipped that, and never both; and a version on record as       *)
(* skipped did govern, so nothing but a rollback from VALIDATED puts an    *)
(* unapproved version in force, and none is approved afterwards.           *)
ForceIsOnRecord ==
    \A v \in Versions :
       /\ Proven(v) => v \in Valid
       /\ Proven(v) /\ ~Approved(v) => ApprovalSkipped(v)
       /\ ApprovalSkipped(v) => Proven(v) /\ ~Approved(v)
=============================================================================
