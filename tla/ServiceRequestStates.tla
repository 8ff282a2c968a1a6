----------------------- MODULE ServiceRequestStates -----------------------
(***************************************************************************)
(* The state graph of a Service Request (src/src/core/request/             *)
(* serviceRequest.ts), which the operational orchestrator and the core     *)
(* foundation share.                                                       *)
(***************************************************************************)

None == "NONE"

LegalTransitions ==
    [PENDING_ACCEPTANCE |->
        {"PROVIDER_DISPATCHED", "CANCELLED", "UNABLE_TO_FULFILL"},
     PROVIDER_DISPATCHED |->
        {"PROVIDER_ACCEPTED", "PENDING_ACCEPTANCE", "CANCELLED"},
     PROVIDER_ACCEPTED |->
        {"OWNER_ASSIGNED", "PENDING_ACCEPTANCE", "CANCELLED", "UNABLE_TO_FULFILL"},
     OWNER_ASSIGNED |->
        {"AWAITING_CUSTOMER_CONFIRMATION", "PENDING_ACCEPTANCE", "CANCELLED",
         "UNABLE_TO_FULFILL"},
     AWAITING_CUSTOMER_CONFIRMATION |->
        {"CUSTOMER_CONFIRMED", "PENDING_ACCEPTANCE", "CANCELLED",
         "UNABLE_TO_FULFILL"},
     CUSTOMER_CONFIRMED |->
        {"FULFILLMENT_ACTIVE", "AWAITING_CUSTOMER_CONFIRMATION", "CANCELLED",
         "NO_SHOW", "UNABLE_TO_FULFILL"},
     FULFILLMENT_ACTIVE |-> {"SERVICE_COMPLETED", "NO_SHOW", "UNABLE_TO_FULFILL"},
     SERVICE_COMPLETED |-> {}, CANCELLED |-> {}, NO_SHOW |-> {},
     UNABLE_TO_FULFILL |-> {}]

RequestStates == DOMAIN LegalTransitions

Terminal == {"SERVICE_COMPLETED", "CANCELLED", "NO_SHOW", "UNABLE_TO_FULFILL"}

Results == {"SERVICE_COMPLETED", "NO_SHOW", "UNABLE_TO_FULFILL"}
=============================================================================
