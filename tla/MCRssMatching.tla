--------------------------- MODULE MCRssMatching ---------------------------
(* An item, a rule for everything on one downloader, and two rules on the  *)
(* other, the first of which asks for free items.                          *)
EXTENDS RssMatching, TLC

CONSTANTS i1, s1, s2

MCFiltersOf == [r \in Rules |-> {[titles |-> Items, free |-> r = 2]}]

MCDownloaderOf == [r \in Rules |-> IF r = 1 THEN "qa" ELSE "qb"]

Symmetry == Permutations(Scanners)

=============================================================================
