----------------------------- MODULE MCCompanyF -----------------------------
(* Two orders of one title, and two coders.                                *)
EXTENDS CompanyF, TLC

Symmetry == Permutations(WorkOrders) \union Permutations(Coders)
=============================================================================
