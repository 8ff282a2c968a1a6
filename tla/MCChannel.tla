----------------------------- MODULE MCChannel -----------------------------
(* Two ids on one channel, and the first of them on another channel too.   *)
EXTENDS Channel

CONSTANTS p1, whatsapp, telegram

ProvidersOfMarket == {p1}
EventsOfTransport == {<<whatsapp, 1>>, <<telegram, 1>>, <<whatsapp, 2>>}
=============================================================================
