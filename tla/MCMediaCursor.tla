--------------------------- MODULE MCMediaCursor ----------------------------
(* MediaCursor on a season of four episode numbers; the last one plays     *)
(* u32::MAX.                                                               *)
EXTENDS MediaCursor

MCOffers == [single |-> {2}, opening |-> {1, 2}, middle |-> {2, 3, 4}]
=============================================================================
