--------------------------- MODULE MCMediaSeason ----------------------------
(* MediaSeason on a season of four episode numbers, with a pack of the     *)
(* first two.                                                              *)
EXTENDS MediaSeason

MCOffers == [pack |-> {1, 2}]
=============================================================================
