-------------------------- MODULE MCProviderSupply --------------------------
(* Two services and two regions, so that a projection may know one and not *)
(* the other; one key, for a retry; a second card after the first is       *)
(* decided, and weeks enough to edit one that was confirmed.               *)
EXTENDS ProviderSupply, TLC

CONSTANTS nails, spa, canggu, ubud, k1

ServicesOfTenant == {nails, spa}
RegionsOfMarket == {canggu, ubud}
KeysStated == {k1}

Interchangeable ==
    Permutations(ServicesOfTenant) \union Permutations(RegionsOfMarket)
=============================================================================
