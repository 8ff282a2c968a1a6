---------------------------- MODULE MCCoreBooking ----------------------------
(* One provider, two windows to move between, and two amendments, so that  *)
(* one can be left behind by the other.                                    *)
EXTENDS CoreBooking

CONSTANTS p1, monday, friday

ProvidersOfMarket == {p1}
WindowsOfBooking == {monday, friday}
=============================================================================
