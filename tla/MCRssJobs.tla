----------------------------- MODULE MCRssJobs -----------------------------
(* Two jobs on one downloader that has room for one torrent; the same      *)
(* torrent, unless the site replaces that of the first.                    *)
EXTENDS RssJobs, TLC

CONSTANTS a, b, qb1, h1, h2, feed, w1, w2

Symmetric == Permutations(Workers)

MCDownloaderOf == [j \in Jobs |-> qb1]

MCFeedOf == [j \in Jobs |-> feed]

MCSourcesOf == [j \in Jobs |-> {feed}]

MCHashesOf == [j \in Jobs |-> IF j = a THEN {h1, h2} ELSE {h1}]

MCCapacity == [d \in Downloaders |-> 1]

(* Bound: of the two torrents, the one both jobs may want is relocated.    *)
SharedMoves == \A d \in Downloaders : moving[d] \subseteq {h1}
=============================================================================
