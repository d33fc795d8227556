-------------------------- MODULE MCMediaPipeline ---------------------------
(* Torrents for MediaPipeline: single announces the first episode, pack    *)
(* the first two (the first, where the season has no second).              *)
EXTENDS MediaPipeline

CONSTANTS single, pack, loop, manualRun

MCOffers == [t \in Torrents |-> IF t = single THEN {1} ELSE {1, 2} \cap Episodes]
=============================================================================
