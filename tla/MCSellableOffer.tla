-------------------------- MODULE MCSellableOffer --------------------------
(* A customer's offer o1 needs a provider and a room; o2 competes for the  *)
(* room alone; o3 replaces o2 and competes for the provider instead.       *)
EXTENDS SellableOffer, TLC

CONSTANTS o1, o2, o3, provider, room

AllOffers == {o1, o2, o3}
AllResources == {provider, room}

KeysOfOffer == (o1 :> <<provider, room>>) @@ (o2 :> <<room>>)
                  @@ (o3 :> <<provider>>)
PriorOfOffer == (o1 :> None) @@ (o2 :> None) @@ (o3 :> o2)
=============================================================================
