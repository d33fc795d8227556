------------------------- MODULE MCMediaRelocation -------------------------
(* Two automatic jobs of one file each; or one alone, on a storage with or *)
(* without hashes, where somebody else puts a file in its place; or one    *)
(* manual job: of three files to another qBittorrent, or of two files with *)
(* such a foreign one.  Another torrent uses the second file as well.      *)
EXTENDS MediaRelocation

Auto(hashed, foreign, made) ==
  [kind |-> "auto", same |-> FALSE, hashed |-> hashed, files |-> 1, shared |-> {},
   foreign |-> foreign, dir |-> made]

NoJob == [Auto(TRUE, {}, TRUE) EXCEPT !.kind = "none"]

Manual2(same, hashed) ==
  [kind |-> "manual", same |-> same, hashed |-> hashed, files |-> 2, shared |-> {2},
   foreign |-> {1}, dir |-> FALSE]

Manual3 == [Manual2(FALSE, TRUE) EXCEPT !.files = 3, !.foreign = {}]

TwoAutomatic == [j \in Jobs |-> Auto(TRUE, {}, j # 1)]

One(setup1) == [j \in Jobs |-> IF j = 1 THEN setup1 ELSE NoJob]

MCSetups ==
  {TwoAutomatic} \cup
  {One(job1) : job1 \in {Auto(TRUE, {1}, FALSE), Auto(FALSE, {1}, TRUE),
                        Manual2(TRUE, TRUE), Manual2(FALSE, FALSE), Manual3}}
=============================================================================
