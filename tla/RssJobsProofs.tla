--------------------------- MODULE RssJobsProofs ---------------------------
(***************************************************************************)
(* RssJobs for any number of jobs, downloaders, workers, feeds and rules:  *)
(* one submission at a time on each downloader, no request forgotten, no   *)
(* infohash with two jobs, nothing submitted where a relocation works.     *)
(***************************************************************************)
EXTENDS RssJobs, FiniteSetTheorems, TLAPS

Tabled(t) ==
  t \in [job : [Jobs -> Rows], key : [Downloaders -> [Hashes -> Keys]],
         slot : [Downloaders -> Jobs \cup {NoJob}]]

(* Only rows that are worked on have a lease; what may have been sent is   *)
(* known by its infohash and keeps its space; what may be fetched again    *)
(* has an attempt left.                                                    *)
RowOK(row) ==
  /\ row.status \in Uncertain => row.hash \in Hashes /\ row.reserved
  /\ row.status = "submitted" => row.hash \in Hashes
  /\ row.lease # "none" => row.status \in Active
  /\ row.status \in Unclaimed \cup {"fetching", "held", "none"} => row.attempts < MaxAttempts

(* A slot is of a job of its downloader, and of the one that is active.    *)
SlotOK(t) ==
  /\ \A d \in Downloaders : t.slot[d] # NoJob => DownloaderOf[t.slot[d]] = d
  /\ \A j \in Jobs : t.job[j].status \in Active <=> t.slot[DownloaderOf[j]] = j

(* What is submitted, or may be, has its infohash for itself.              *)
KeyOK(t) ==
  \A j \in Jobs :
    /\ t.job[j].status \in Uncertain =>
         t.key[DownloaderOf[j]][t.job[j].hash] = [job |-> j, outcome |-> "busy"]
    /\ t.job[j].status = "submitted" =>
         t.key[DownloaderOf[j]][t.job[j].hash] = [job |-> j, outcome |-> "done"]

TableOK(t) == Tabled(t) /\ (\A j \in Jobs : RowOK(t.job[j])) /\ SlotOK(t) /\ KeyOK(t)

WorkOK(W) ==
  /\ W \in [Workers -> [phase : Phases, job : Jobs \cup {NoJob},
                        hash : Hashes \cup {NoHash}, current : BOOLEAN]]
  /\ \A w \in Workers :
       /\ W[w].phase # "idle" => W[w].job \in Jobs
       /\ W[w].phase \in {"there", "ready", "sending", "sent", "check"} => W[w].hash \in Hashes

Matches(phase, status) ==
  \/ phase \in {"fetch", "there", "ready"} /\ status = "fetching"
  \/ phase \in {"sending", "sent"} /\ status = "submitting"
  \/ phase = "check" /\ status = "reconciling"

(* Who holds a lease works on that job, in the state it says; who submits  *)
(* holds the lease; and both mean the same torrent.                        *)
LeaseOK(t, W) ==
  /\ \A j \in Jobs, w \in Workers :
       t.job[j].lease = w => W[w].job = j /\ Matches(W[w].phase, t.job[j].status)
  /\ \A w \in Workers :
       W[w].phase \in {"sending", "sent", "check"} /\ t.job[W[w].job].lease = w
         => t.job[W[w].job].hash = W[w].hash
  /\ \A w \in Workers : W[w].phase \in {"sending", "sent"} => t.job[W[w].job].lease = w

(* The infohashes of requests, by downloader.                              *)
Came(A) == [d \in Downloaders |-> {r.hash : r \in {q \in A : DownloaderOf[q.job] = d}}]

(* A torrent that no request has brought to a downloader, with room for it *)
(* beside those that requests have brought.                                *)
HasRoom(hash, d, Q) == hash \notin Q[d] /\ Cardinality(Q[d]) < Capacity[d]

FullOK(Q) == \A d \in Downloaders : IsFiniteSet(Q[d]) /\ Cardinality(Q[d]) <= Capacity[d]

(* What requests have brought is in the downloader.                        *)
ThereOK(A, Q) == \A d \in Downloaders : IsFiniteSet(Q[d]) /\ Came(A)[d] \subseteq Q[d]

(* What is about to be submitted has room, and is not on its way.          *)
RoomOK(t, W, F, Q) ==
  \A w \in Workers :
    /\ W[w].phase \in {"ready", "sending"} /\ t.job[W[w].job].lease = w
         => HasRoom(W[w].hash, DownloaderOf[W[w].job], Q)
    /\ W[w].phase = "sending" => \A r \in F : r.job # W[w].job

(* The row still knows of a torrent that came for it, until it goes.       *)
Accounted(row, hash) ==
  row.status = "deleted" \/ (row.status \in Uncertain \cup {"submitted"} /\ row.hash = hash)

(* A request on its way is waited for; one that has arrived is accounted   *)
(* for.                                                                    *)
FlyOK(t, F, A, Q) ==
  /\ F \subseteq Requests /\ A \subseteq Requests
  /\ \A r \in F :
       /\ t.job[r.job].status \in Uncertain
       /\ t.job[r.job].hash = r.hash /\ HasRoom(r.hash, DownloaderOf[r.job], Q)
  /\ \A r \in A : Accounted(t.job[r.job], r.hash)

ApartOK(t, M) ==
  \A j \in Jobs : t.job[j].status \in Uncertain => t.job[j].hash \notin M[DownloaderOf[j]]

Inv(t, W, F, A, Q, M) ==
  /\ TableOK(t) /\ WorkOK(W)
  /\ LeaseOK(t, W) /\ RoomOK(t, W, F, Q) /\ FlyOK(t, F, A, Q) /\ ApartOK(t, M)

IInv ==
  /\ source \in [Sources -> {"on", "off", "archived"}]
  /\ moving \in [Downloaders -> SUBSET Hashes]
  /\ qb \in [Downloaders -> SUBSET Hashes] /\ ThereOK(arrived, qb) /\ FullOK(Came(arrived))
  /\ Inv(db, worker, flying, arrived, Came(arrived), moving)

-----------------------------------------------------------------------------
(* The tables.                                                             *)

(* An infohash is a column of its own: no other job's tables move.         *)
LEMMA RowStep ==
  ASSUME NEW t, NEW u, TableOK(t), Tabled(u), NEW j \in Jobs, RowOK(u.job[j]), SlotOK(u),
         \A k \in Jobs : k # j => u.job[k] = t.job[k],
         \A k \in Jobs : k # j /\ t.job[k].status \in Uncertain \cup {"submitted"} =>
           u.key[DownloaderOf[k]][t.job[k].hash] = t.key[DownloaderOf[k]][t.job[k].hash],
         u.job[j].status \in Uncertain =>
           u.key[DownloaderOf[j]][u.job[j].hash] = [job |-> j, outcome |-> "busy"],
         u.job[j].status = "submitted" =>
           u.key[DownloaderOf[j]][u.job[j].hash] = [job |-> j, outcome |-> "done"]
  PROVE  TableOK(u)
<1>1. \A k \in Jobs : RowOK(u.job[k])
  BY DEF TableOK
<1>2. KeyOK(u)
  BY DEF TableOK, KeyOK, Uncertain
<1>. QED
  BY <1>1, <1>2 DEF TableOK

LEMMA SlotsSame ==
  ASSUME NEW t, NEW u, SlotOK(t), u.slot = t.slot,
         \A j \in Jobs : u.job[j].status \in Active <=> t.job[j].status \in Active
  PROVE  SlotOK(u)
BY DEF SlotOK

LEMMA SlotsDropped ==
  ASSUME NEW t, NEW u, Tabled(t), SlotOK(t),
         \A d \in Downloaders :
           u.slot[d] = IF t.slot[d] # NoJob /\ u.job[t.slot[d]].status \in Active THEN t.slot[d] ELSE NoJob,
         \A j \in Jobs : u.job[j].status \in Active => t.job[j].status \in Active
  PROVE  SlotOK(u)
<1>1. \A d \in Downloaders : t.slot[d] \in Jobs \cup {NoJob}
  BY DEF Tabled
<1>2. \A j \in Jobs : DownloaderOf[j] \in Downloaders /\ j # NoJob
  BY Parameters
<1>3. \A d \in Downloaders : u.slot[d] # NoJob => DownloaderOf[u.slot[d]] = d
  BY DEF SlotOK
<1>4. ASSUME NEW j \in Jobs PROVE u.job[j].status \in Active <=> u.slot[DownloaderOf[j]] = j
  BY <1>2 DEF SlotOK
<1>. QED
  BY <1>3, <1>4 DEF SlotOK

(* What recovery, the states of feeds and rules, and an orderly stop do to *)
(* a row: nothing a submission relies on.                                  *)
QuietRow(a, b, protected) ==
  \/ b = a
  \/ /\ b.lease = "none" /\ b.hash = a.hash /\ b.attempts = a.attempts
     /\ \/ a.status \in Uncertain /\ a.lease \notin protected /\ b.status = "reconciling" /\ b.reserved = a.reserved
        \/ a.status \in Unclaimed \cup {"fetching", "held"} /\ b.status \in {"queued", "held", "cancelled"}
        \/ a.status = "failed" /\ b.status = "cancelled"

Quiet(t, u, protected) ==
  /\ Tabled(u)
  /\ \A j \in Jobs : QuietRow(t.job[j], u.job[j], protected)
  /\ \A d \in Downloaders, h \in Hashes : u.key[d][h] # t.key[d][h] =>
       /\ t.key[d][h].job \in Jobs
       /\ u.job[t.key[d][h].job].status \in {"queued", "held", "cancelled"}
  /\ \A d \in Downloaders :
       u.slot[d] = IF t.slot[d] # NoJob /\ u.job[t.slot[d]].status \in Active THEN t.slot[d] ELSE NoJob

LEMMA QuietTable ==
  ASSUME NEW t, NEW u, NEW protected, TableOK(t), Quiet(t, u, protected)
  PROVE  TableOK(u)
<1>1. Tabled(t) /\ Tabled(u) /\ SlotOK(t)
  BY DEF TableOK, Quiet
<1>2. ASSUME NEW j \in Jobs
      PROVE  /\ RowOK(u.job[j])
             /\ u.job[j].status \in Active => t.job[j].status \in Active
             /\ u.job[j].status \in Uncertain => t.job[j].status \in Uncertain /\ u.job[j].hash = t.job[j].hash
             /\ u.job[j].status = "submitted" => u.job[j] = t.job[j]
  <2>1. RowOK(t.job[j]) /\ QuietRow(t.job[j], u.job[j], protected)
    BY DEF TableOK, Quiet
  <2>. QED
    BY <2>1 DEF RowOK, QuietRow, Unclaimed, Uncertain, Active
<1>3. SlotOK(u)
  BY <1>1, <1>2, SlotsDropped DEF Quiet
<1>4. KeyOK(u)
  <2>. SUFFICES ASSUME NEW j \in Jobs, u.job[j].status \in Uncertain \cup {"submitted"}
                PROVE  u.key[DownloaderOf[j]][t.job[j].hash] = t.key[DownloaderOf[j]][t.job[j].hash]
    BY <1>2 DEF KeyOK, TableOK, Uncertain
  <2>1. t.job[j].status \in Uncertain \cup {"submitted"}
    BY <1>2
  <2>2. t.job[j].hash \in Hashes /\ DownloaderOf[j] \in Downloaders
    BY <2>1, Parameters DEF TableOK, RowOK
  <2>3. t.key[DownloaderOf[j]][t.job[j].hash].job = j
    <3>1. t.key[DownloaderOf[j]][t.job[j].hash] \in
            {[job |-> j, outcome |-> "busy"], [job |-> j, outcome |-> "done"]}
      BY <2>1 DEF TableOK, KeyOK
    <3>. QED
      BY <3>1
  <2>. QED
    BY <2>2, <2>3 DEF Quiet, Uncertain
<1>. QED
  BY <1>1, <1>2, <1>3, <1>4 DEF TableOK

-----------------------------------------------------------------------------
(* The tables against the workers, the requests and the relocations.       *)

(* What has been submitted stays so, with its infohash.                    *)
Follows(a, b) ==
  b.status = "deleted" \/ (a.status # "deleted" /\ b.status \in Uncertain \cup {"submitted"} /\ b.hash = a.hash)

(* Leases may be lost, except by who submits; workers may go; requests may *)
(* end.                                                                    *)
Loosened(t, u, W, V, F, G, A, B) ==
  /\ G \subseteq F /\ B \subseteq A
  /\ \A w \in Workers :
       /\ V[w].phase # "idle" =>
            /\ V[w].phase = W[w].phase /\ V[w].job = W[w].job /\ V[w].hash = W[w].hash
            /\ V[w].job \in Jobs
       /\ V[w].phase \in {"sending", "sent"} => u.job[V[w].job].lease = w
  /\ \A j \in Jobs, w \in Workers : u.job[j].lease = w =>
       /\ t.job[j].lease = w /\ V[w].phase # "idle"
       /\ u.job[j].status = t.job[j].status /\ u.job[j].hash = t.job[j].hash
  /\ \A j \in Jobs : u.job[j].status \in Uncertain =>
       t.job[j].status \in Uncertain /\ u.job[j].hash = t.job[j].hash
  /\ \A r \in G : u.job[r.job].status \in Uncertain
  /\ \A r \in B : Follows(t.job[r.job], u.job[r.job])

(* A table that is loosened has no more to fear.                           *)
LEMMA Loosen ==
  ASSUME NEW t, NEW u, NEW W, NEW V, NEW F, NEW G, NEW A, NEW B, NEW Q, NEW M,
         LeaseOK(t, W), RoomOK(t, W, F, Q), FlyOK(t, F, A, Q), ApartOK(t, M),
         Loosened(t, u, W, V, F, G, A, B)
  PROVE  LeaseOK(u, V) /\ RoomOK(u, V, G, Q) /\ FlyOK(u, G, B, Q) /\ ApartOK(u, M)
<1>1. LeaseOK(u, V)
  <2>1. ASSUME NEW j \in Jobs, NEW w \in Workers, u.job[j].lease = w
        PROVE  V[w].job = j /\ Matches(V[w].phase, u.job[j].status)
    BY <2>1 DEF LeaseOK, Loosened
  <2>2. ASSUME NEW w \in Workers, V[w].phase \in {"sending", "sent", "check"}, u.job[V[w].job].lease = w
        PROVE  u.job[V[w].job].hash = V[w].hash
    BY <2>2 DEF LeaseOK, Loosened
  <2>. QED
    BY <2>1, <2>2 DEF LeaseOK, Loosened
<1>2. RoomOK(u, V, G, Q)
  BY DEF RoomOK, Loosened
<1>3. FlyOK(u, G, B, Q)
  <2>1. \A r \in G : r.job \in Jobs
    BY DEF FlyOK, Requests, Loosened
  <2>. QED
    BY <2>1 DEF FlyOK, Loosened, Accounted, Follows
<1>4. ApartOK(u, M)
  BY DEF ApartOK, Loosened
<1>. QED
  BY <1>1, <1>2, <1>3, <1>4

LEMMA QuietInv ==
  ASSUME NEW t, NEW u, NEW W, NEW F, NEW A, NEW Q, NEW M,
         Inv(t, W, F, A, Q, M), Quiet(t, u, Workers)
  PROVE  Inv(u, W, F, A, Q, M)
<1>1. TableOK(u)
  BY QuietTable DEF Inv
<1>2. /\ LeaseOK(t, W) /\ RoomOK(t, W, F, Q) /\ FlyOK(t, F, A, Q) /\ ApartOK(t, M)
      /\ WorkOK(W)
      /\ \A j \in Jobs : RowOK(t.job[j]) /\ QuietRow(t.job[j], u.job[j], Workers)
  BY DEF Inv, TableOK, Quiet
<1>3. "none" \notin Workers
  BY Parameters
<1>4. \A r \in F \cup A : r.job \in Jobs
  BY <1>2 DEF FlyOK, Requests
<1>5. \A w \in Workers : W[w].phase # "idle" => W[w].job \in Jobs
  BY <1>2 DEF WorkOK
<1>6. ASSUME NEW j \in Jobs, NEW w \in Workers, u.job[j].lease = w
      PROVE  u.job[j] = t.job[j] /\ W[w].phase # "idle"
  <2>1. u.job[j] = t.job[j]
    BY <1>2, <1>3, <1>6 DEF QuietRow
  <2>2. Matches(W[w].phase, t.job[j].status)
    BY <1>2, <1>6, <2>1 DEF LeaseOK
  <2>. QED
    BY <2>1, <2>2 DEF Matches
<1>7. ASSUME NEW w \in Workers, W[w].phase \in {"sending", "sent"}
      PROVE  u.job[W[w].job].lease = w
  <2>1. /\ W[w].job \in Jobs /\ t.job[W[w].job].lease = w
        /\ Matches(W[w].phase, t.job[W[w].job].status)
    BY <1>2, <1>5, <1>7 DEF LeaseOK
  <2>2. t.job[W[w].job].status = "submitting"
    BY <1>7, <2>1 DEF Matches
  <2>. QED
    BY <1>2, <2>1, <2>2 DEF QuietRow, Uncertain, Unclaimed
<1>8. ASSUME NEW j \in Jobs
      PROVE  /\ u.job[j].status \in Uncertain =>
                  t.job[j].status \in Uncertain /\ u.job[j].hash = t.job[j].hash
             /\ t.job[j].status \in Uncertain => u.job[j].status \in Uncertain
             /\ t.job[j].status \in Uncertain \cup {"submitted"} => u.job[j].hash = t.job[j].hash
             /\ \A status \in {"submitted", "deleted"} : t.job[j].status = status => u.job[j].status = status
  BY <1>2 DEF QuietRow, Uncertain, Unclaimed
<1>9. /\ \A r \in F : u.job[r.job].status \in Uncertain
      /\ \A r \in A : Follows(t.job[r.job], u.job[r.job])
  BY <1>2, <1>4, <1>8 DEF FlyOK, Accounted, Follows, Uncertain
<1>10. LeaseOK(u, W) /\ RoomOK(u, W, F, Q) /\ FlyOK(u, F, A, Q) /\ ApartOK(u, M)
  <2>1. Loosened(t, u, W, W, F, F, A, A)
    BY <1>5, <1>6, <1>7, <1>8, <1>9 DEF Loosened
  <2>. QED
    BY <1>2, <2>1, Loosen
<1>. QED
  BY <1>1, <1>2, <1>10 DEF Inv

(* One row changes, its lease ends, and whoever had it is gone unless it   *)
(* may find out later.                                                     *)
RowLoosened(t, u, W, V, F, A, j) ==
  /\ \A k \in Jobs : k # j => u.job[k] = t.job[k]
  /\ u.job[j].lease \notin Workers
  /\ u.job[j].status \in Uncertain =>
       t.job[j].status \in Uncertain /\ u.job[j].hash = t.job[j].hash
  /\ \A r \in F : r.job = j => u.job[j].status \in Uncertain
  /\ \A r \in A : r.job = j => Follows(t.job[j], u.job[j])
  /\ \A w \in Workers : V[w].phase # "idle" =>
       V[w].phase = W[w].phase /\ V[w].job = W[w].job /\ V[w].hash = W[w].hash
  /\ \A k \in Jobs, w \in Workers : k # j /\ t.job[k].lease = w => V[w].phase = W[w].phase
  /\ t.job[j].lease \in Workers => V[t.job[j].lease].phase \notin {"sending", "sent"}

(* A row that is loosened keeps what is known of the others.               *)
LEMMA LoosenRow ==
  ASSUME NEW t, NEW u, NEW W, NEW V, NEW F, NEW A, NEW Q, NEW M, NEW j \in Jobs,
         Inv(t, W, F, A, Q, M), TableOK(u), WorkOK(V), RowLoosened(t, u, W, V, F, A, j)
  PROVE  Inv(u, V, F, A, Q, M)
<1>1. LeaseOK(t, W) /\ RoomOK(t, W, F, Q) /\ FlyOK(t, F, A, Q) /\ ApartOK(t, M)
  BY DEF Inv
<1>2. \A w \in Workers : V[w].phase # "idle" => V[w].job \in Jobs
  BY DEF WorkOK
<1>3. \A r \in F \cup A : r.job \in Jobs
  BY <1>1 DEF FlyOK, Requests
<1>4. ASSUME NEW k \in Jobs, NEW w \in Workers, u.job[k].lease = w
      PROVE  u.job[k] = t.job[k] /\ V[w].phase # "idle"
  <2>1. k # j /\ u.job[k] = t.job[k]
    BY <1>4 DEF RowLoosened
  <2>2. Matches(W[w].phase, t.job[k].status) /\ V[w].phase = W[w].phase
    BY <1>1, <1>4, <2>1 DEF LeaseOK, RowLoosened
  <2>. QED
    BY <2>1, <2>2 DEF Matches
<1>5. ASSUME NEW w \in Workers, V[w].phase \in {"sending", "sent"}
      PROVE  u.job[V[w].job].lease = w
  <2>1. W[w].phase = V[w].phase /\ W[w].job = V[w].job /\ V[w].job \in Jobs
    BY <1>2, <1>5 DEF RowLoosened
  <2>2. t.job[V[w].job].lease = w
    BY <1>1, <1>5, <2>1 DEF LeaseOK
  <2>3. V[w].job # j
    BY <1>5, <2>2 DEF RowLoosened
  <2>. QED
    BY <2>1, <2>2, <2>3 DEF RowLoosened
<1>6. \A k \in Jobs : u.job[k].status \in Uncertain =>
        t.job[k].status \in Uncertain /\ u.job[k].hash = t.job[k].hash
  BY DEF RowLoosened
<1>7. /\ \A r \in F : u.job[r.job].status \in Uncertain
      /\ \A r \in A : Follows(t.job[r.job], u.job[r.job])
  BY <1>1, <1>3 DEF FlyOK, RowLoosened, Accounted, Follows, Uncertain
<1>8. LeaseOK(u, V) /\ RoomOK(u, V, F, Q) /\ FlyOK(u, F, A, Q) /\ ApartOK(u, M)
  <2>1. Loosened(t, u, W, V, F, F, A, A)
    BY <1>2, <1>4, <1>5, <1>6, <1>7 DEF Loosened, RowLoosened
  <2>. QED
    BY <1>1, <2>1, Loosen
<1>. QED
  BY <1>8 DEF Inv


-----------------------------------------------------------------------------
(* Recovery, feeds and rules, an orderly stop: quiet.                      *)

LEMMA FreedKey ==
  ASSUME NEW t, Tabled(t), NEW statuses
  PROVE  /\ Tabled(Freed(t, statuses))
         /\ Freed(t, statuses).job = t.job /\ Freed(t, statuses).slot = t.slot
         /\ \A d \in Downloaders, h \in Hashes : Freed(t, statuses).key[d][h] # t.key[d][h] =>
              /\ t.key[d][h].job \in Jobs
              /\ t.job[t.key[d][h].job].status \in statuses
<1>. DEFINE K == [d \in Downloaders |-> [h \in Hashes |->
       IF t.key[d][h].job \in {j \in Jobs : t.job[j].status \in statuses} /\ t.key[d][h].outcome # "done"
         THEN [t.key[d][h] EXCEPT !.outcome = "free"] ELSE t.key[d][h]]]
<1>1. Freed(t, statuses) = [job |-> t.job, key |-> K, slot |-> t.slot]
  <2>1. \A X : [t EXCEPT !.key = X] = [job |-> t.job, key |-> X, slot |-> t.slot]
    BY DEF Tabled
  <2>2. Freed(t, statuses) = [t EXCEPT !.key = K]
    BY DEF Freed
  <2>. HIDE DEF K
  <2>. QED
    BY <2>1, <2>2
<1>2. \A d \in Downloaders, h \in Hashes : t.key[d][h] \in Keys
  BY DEF Tabled
<1>3. \A key \in Keys : [key EXCEPT !.outcome = "free"] \in Keys
  BY DEF Keys
<1>4. K \in [Downloaders -> [Hashes -> Keys]]
  BY <1>2, <1>3
<1>5. \A d \in Downloaders, h \in Hashes : K[d][h] # t.key[d][h] =>
        t.key[d][h].job \in Jobs /\ t.job[t.key[d][h].job].status \in statuses
  OBVIOUS
<1>. HIDE DEF K
<1>. QED
  BY <1>1, <1>4, <1>5 DEF Tabled

LEMMA SlotsFreedTable ==
  ASSUME NEW t, Tabled(t)
  PROVE  /\ Tabled(SlotsFreed(t))
         /\ SlotsFreed(t).job = t.job /\ SlotsFreed(t).key = t.key
         /\ \A d \in Downloaders : SlotsFreed(t).slot[d] =
              IF t.slot[d] # NoJob /\ t.job[t.slot[d]].status \in Active THEN t.slot[d] ELSE NoJob
<1>. DEFINE S == [d \in Downloaders |->
       IF t.slot[d] # NoJob /\ t.job[t.slot[d]].status \in Active THEN t.slot[d] ELSE NoJob]
<1>1. SlotsFreed(t) = [job |-> t.job, key |-> t.key, slot |-> S]
  BY DEF SlotsFreed, Tabled
<1>2. S \in [Downloaders -> Jobs \cup {NoJob}]
  BY DEF Tabled
<1>. QED
  BY <1>1, <1>2 DEF Tabled

(* A new status and no lease, with the space given up or not.              *)
LEMMA UnleasedRow ==
  ASSUME NEW row \in Rows, NEW status \in Statuses
  PROVE  /\ Unleased(row, status) \in Rows /\ Unleased(row, status).status = status
         /\ Unleased(row, status).lease = "none" /\ Unleased(row, status).hash = row.hash
         /\ Unleased(row, status).attempts = row.attempts
         /\ Unleased(row, status).reserved = row.reserved
         /\ Dropped(row, status) \in Rows /\ Dropped(row, status).status = status
         /\ Dropped(row, status).lease = "none" /\ Dropped(row, status).hash = row.hash
         /\ Dropped(row, status).attempts = row.attempts
BY DEF Rows, Leases, Unleased, Dropped

LEMMA StatusesUsed ==
  /\ {"reconciling", "queued", "cancelled", "held", "submitted", "submitting", "fetching"} \subseteq Statuses
  /\ {"waiting", "retry_wait", "failed", "already_present", "none", "deleted"} \subseteq Statuses
BY DEF Statuses, Unclaimed, Active, Uncertain, Final, Success

LEMMA RecoveredQuiet ==
  ASSUME NEW t, TableOK(t)
  PROVE  Quiet(t, Recovered(t), Workers)
<1>. DEFINE rows == [t EXCEPT !.job = [j \in Jobs |-> RecoveredRow(t.job[j])]]
<1>1. Tabled(t)
  BY DEF TableOK
<1>2. ASSUME NEW j \in Jobs
      PROVE  RecoveredRow(t.job[j]) \in Rows /\ QuietRow(t.job[j], RecoveredRow(t.job[j]), Workers)
  <2>1. t.job[j] \in Rows /\ "expired" \notin Workers
    BY <1>1, Parameters DEF Tabled
  <2>2. /\ Unleased(t.job[j], "reconciling") \in Rows /\ Unleased(t.job[j], "reconciling").status = "reconciling"
        /\ Unleased(t.job[j], "reconciling").lease = "none"
        /\ Unleased(t.job[j], "reconciling").hash = t.job[j].hash
        /\ Unleased(t.job[j], "reconciling").attempts = t.job[j].attempts
        /\ Unleased(t.job[j], "reconciling").reserved = t.job[j].reserved
        /\ Dropped(t.job[j], "queued") \in Rows /\ Dropped(t.job[j], "queued").status = "queued"
        /\ Dropped(t.job[j], "queued").lease = "none"
        /\ Dropped(t.job[j], "queued").hash = t.job[j].hash
        /\ Dropped(t.job[j], "queued").attempts = t.job[j].attempts
    <3>1. "reconciling" \in Statuses /\ "queued" \in Statuses
      BY StatusesUsed
    <3>. QED
      BY <2>1, <3>1, UnleasedRow
  <2>. QED
    BY <2>1, <2>2 DEF RecoveredRow, QuietRow
<1>3. /\ Tabled(rows) /\ rows.key = t.key /\ rows.slot = t.slot
      /\ \A j \in Jobs : rows.job[j] = RecoveredRow(t.job[j])
  <2>1. [j \in Jobs |-> RecoveredRow(t.job[j])] \in [Jobs -> Rows]
    BY <1>2
  <2>. QED
    BY <1>1, <2>1 DEF Tabled
<1>. HIDE DEF rows
<1>4. Recovered(t) = Freed(SlotsFreed(rows), {"queued"})
  BY DEF Recovered, rows
<1>5. /\ Tabled(SlotsFreed(rows)) /\ SlotsFreed(rows).job = rows.job /\ SlotsFreed(rows).key = rows.key
      /\ \A d \in Downloaders : SlotsFreed(rows).slot[d] =
           IF rows.slot[d] # NoJob /\ rows.job[rows.slot[d]].status \in Active THEN rows.slot[d] ELSE NoJob
  BY <1>3, SlotsFreedTable
<1>6. /\ Tabled(Recovered(t)) /\ Recovered(t).job = rows.job /\ Recovered(t).slot = SlotsFreed(rows).slot
      /\ \A d \in Downloaders, h \in Hashes : Recovered(t).key[d][h] # t.key[d][h] =>
           t.key[d][h].job \in Jobs /\ rows.job[t.key[d][h].job].status \in {"queued"}
  BY <1>3, <1>4, <1>5, FreedKey
<1>. QED
  BY <1>2, <1>3, <1>5, <1>6 DEF Quiet

LEMMA SynchronizedQuiet ==
  ASSUME NEW t, TableOK(t), NEW srcs
  PROVE  /\ Quiet(t, Synchronized(srcs, t), Workers)
         /\ \A j \in Jobs : Synchronized(srcs, t).job[j] = SynchronizedRow(srcs, j, t.job[j])
<1>. DEFINE rows == [t EXCEPT !.job = [j \in Jobs |-> SynchronizedRow(srcs, j, t.job[j])]]
<1>1. Tabled(t)
  BY DEF TableOK
<1>2. ASSUME NEW j \in Jobs
      PROVE  /\ SynchronizedRow(srcs, j, t.job[j]) \in Rows
             /\ QuietRow(t.job[j], SynchronizedRow(srcs, j, t.job[j]), Workers)
  <2>1. t.job[j] \in Rows /\ RowOK(t.job[j])
    BY <1>1 DEF Tabled, TableOK
  <2>2. ASSUME NEW status \in {"cancelled", "held"}
        PROVE  /\ Dropped(t.job[j], status) \in Rows /\ Dropped(t.job[j], status).status = status
               /\ Dropped(t.job[j], status).lease = "none"
               /\ Dropped(t.job[j], status).hash = t.job[j].hash
               /\ Dropped(t.job[j], status).attempts = t.job[j].attempts
    <3>1. status \in Statuses
      BY StatusesUsed
    <3>. QED
      BY <2>1, <3>1, UnleasedRow
  <2>3. t.job[j].status = "held" => t.job[j].lease = "none"
    BY <2>1 DEF RowOK, Active, Uncertain
  <2>4. ASSUME NEW b, b = [t.job[j] EXCEPT !.status = "queued"]
        PROVE  /\ b \in Rows /\ b.status = "queued" /\ b.lease = t.job[j].lease /\ b.hash = t.job[j].hash
               /\ b.attempts = t.job[j].attempts
    BY <2>1, <2>4, StatusesUsed DEF Rows
  <2>. QED
    BY <2>1, <2>2, <2>3, <2>4 DEF SynchronizedRow, QuietRow
<1>3. /\ Tabled(rows) /\ rows.key = t.key /\ rows.slot = t.slot
      /\ \A j \in Jobs : rows.job[j] = SynchronizedRow(srcs, j, t.job[j])
  <2>1. [j \in Jobs |-> SynchronizedRow(srcs, j, t.job[j])] \in [Jobs -> Rows]
    BY <1>2
  <2>. QED
    BY <1>1, <2>1 DEF Tabled
<1>. HIDE DEF rows
<1>. DEFINE freed == Freed(rows, {"held", "cancelled"})
<1>4. Synchronized(srcs, t) = SlotsFreed(freed)
  BY DEF Synchronized, rows
<1>5. /\ Tabled(freed) /\ freed.job = rows.job /\ freed.slot = rows.slot
      /\ \A d \in Downloaders, h \in Hashes : freed.key[d][h] # rows.key[d][h] =>
           rows.key[d][h].job \in Jobs /\ rows.job[rows.key[d][h].job].status \in {"held", "cancelled"}
  BY <1>3, FreedKey
<1>. HIDE DEF freed
<1>6. /\ Tabled(SlotsFreed(freed)) /\ SlotsFreed(freed).job = freed.job /\ SlotsFreed(freed).key = freed.key
      /\ \A d \in Downloaders : SlotsFreed(freed).slot[d] =
           IF freed.slot[d] # NoJob /\ freed.job[freed.slot[d]].status \in Active THEN freed.slot[d] ELSE NoJob
  BY <1>5, SlotsFreedTable
<1>. QED
  BY <1>2, <1>3, <1>4, <1>5, <1>6 DEF Quiet

LEMMA ReleasedQuiet ==
  ASSUME NEW t, TableOK(t), NEW own \in Own
  PROVE  /\ Quiet(t, Released(t, own), {})
         /\ \A j \in Jobs : Released(t, own).job[j].lease \notin Workers
<1>. DEFINE rows == [t EXCEPT !.job = [j \in Jobs |-> ReleasedRow(t.job[j], own)]]
            S == [d \in Downloaders |->
                   IF rows.slot[d] # NoJob /\ rows.job[rows.slot[d]].status # "reconciling"
                      /\ t.job[rows.slot[d]].lease \in own
                     THEN NoJob ELSE rows.slot[d]]
            slots == [rows EXCEPT !.slot = S]
<1>1. /\ Tabled(t) /\ Workers \subseteq own /\ "none" \notin Workers /\ "none" \notin own
      /\ \A j \in Jobs : RowOK(t.job[j]) /\ t.job[j] \in Rows
  BY Parameters DEF TableOK, Tabled, Own
<1>2. ASSUME NEW j \in Jobs
      PROVE  /\ ReleasedRow(t.job[j], own) \in Rows
             /\ QuietRow(t.job[j], ReleasedRow(t.job[j], own), {})
             /\ ReleasedRow(t.job[j], own).lease \notin Workers
             /\ t.job[j].lease \in own =>
                  ReleasedRow(t.job[j], own).status \in {"reconciling", "queued"}
             /\ t.job[j].lease \notin own => ReleasedRow(t.job[j], own) = t.job[j]
  <2>2. ASSUME NEW status \in {"reconciling", "queued"}
        PROVE  \A b \in {Unleased(t.job[j], status), Dropped(t.job[j], status)} :
                 /\ b \in Rows /\ b.status = status /\ b.lease = "none" /\ b.hash = t.job[j].hash
                 /\ b.attempts = t.job[j].attempts
    <3>1. status \in Statuses
      BY StatusesUsed
    <3>. QED
      BY <1>1, <3>1, UnleasedRow
  <2>3. Unleased(t.job[j], "reconciling").reserved = t.job[j].reserved
    <3>1. t.job[j] \in Rows
      BY <1>1
    <3>2. "reconciling" \in Statuses
      BY StatusesUsed
    <3>. HIDE DEF rows, S, slots
    <3>. QED
      BY <3>1, <3>2, UnleasedRow
  <2>4. t.job[j].lease \in own => t.job[j].status \in Uncertain \cup {"fetching"}
    BY <1>1 DEF RowOK, Active
  <2>5. CASE t.job[j].lease \notin own
    BY <1>1, <2>5 DEF ReleasedRow, QuietRow
  <2>6. CASE t.job[j].lease \in own /\ t.job[j].status \in Uncertain
    <3>1. ReleasedRow(t.job[j], own) = Unleased(t.job[j], "reconciling")
      BY <2>6 DEF ReleasedRow
    <3>. QED
      BY <1>1, <2>2, <2>3, <2>6, <3>1 DEF QuietRow
  <2>7. CASE t.job[j].lease \in own /\ t.job[j].status = "fetching"
    <3>1. ReleasedRow(t.job[j], own) = Dropped(t.job[j], "queued")
      BY <2>7 DEF ReleasedRow, Uncertain
    <3>. QED
      BY <1>1, <2>2, <2>7, <3>1 DEF QuietRow
  <2>. QED
    BY <2>4, <2>5, <2>6, <2>7
<1>3. /\ rows.key = t.key /\ rows.slot = t.slot
      /\ \A j \in Jobs : rows.job[j] = ReleasedRow(t.job[j], own)
      /\ Tabled(rows)
  <2>1. [j \in Jobs |-> ReleasedRow(t.job[j], own)] \in [Jobs -> Rows]
    BY <1>2
  <2>. QED
    BY <1>1, <2>1 DEF Tabled
<1>4. Released(t, own) = Freed(slots, {"queued"})
  BY DEF Released
<1>. HIDE DEF rows
<1>5. Tabled(slots) /\ slots.job = rows.job /\ slots.key = rows.key /\ slots.slot = S
  <2>1. S \in [Downloaders -> Jobs \cup {NoJob}]
    BY <1>3 DEF Tabled
  <2>. HIDE DEF S
  <2>. QED
    BY <1>3, <2>1 DEF Tabled
<1>6. ASSUME NEW d \in Downloaders
      PROVE  S[d] = IF t.slot[d] # NoJob /\ rows.job[t.slot[d]].status \in Active THEN t.slot[d] ELSE NoJob
  <2>1. S[d] = IF t.slot[d] # NoJob /\ rows.job[t.slot[d]].status # "reconciling"
                  /\ t.job[t.slot[d]].lease \in own THEN NoJob ELSE t.slot[d]
    BY <1>3
  <2>2. CASE t.slot[d] = NoJob
    BY <2>1, <2>2
  <2>3. CASE t.slot[d] # NoJob
    <3>1. t.slot[d] \in Jobs /\ t.job[t.slot[d]].status \in Active
      <4>1. t.slot[d] \in Jobs /\ DownloaderOf[t.slot[d]] = d
        BY <1>1, <2>3 DEF Tabled, TableOK, SlotOK
      <4>. QED
        BY <4>1 DEF TableOK, SlotOK
    <3>. QED
      BY <1>2, <1>3, <2>1, <2>3, <3>1 DEF Active, Uncertain
  <2>. QED
    BY <2>2, <2>3
<1>. HIDE DEF S, slots
<1>7. /\ Tabled(Released(t, own)) /\ Released(t, own).job = rows.job /\ Released(t, own).slot = S
      /\ \A d \in Downloaders, h \in Hashes : Released(t, own).key[d][h] # t.key[d][h] =>
           t.key[d][h].job \in Jobs /\ rows.job[t.key[d][h].job].status \in {"queued"}
  BY <1>3, <1>4, <1>5, FreedKey
<1>. QED
  BY <1>2, <1>3, <1>6, <1>7 DEF Quiet

-----------------------------------------------------------------------------
(* The end of a job's turn.                                                *)

(* Where a job may end: as its submission, only if it made one; where it   *)
(* may be fetched again, only with an attempt left.                        *)
MayFinish(row, status) ==
  /\ status \in {"waiting", "queued", "retry_wait", "failed", "cancelled", "already_present", "submitted",
                 "reconciling"}
  /\ status \in {"reconciling", "submitted"} => row.status \in Uncertain
  /\ status \in {"waiting", "queued"} => row.attempts < MaxAttempts

LEMMA FinishedRowOK ==
  ASSUME NEW row \in Rows, RowOK(row), NEW status, NEW release \in BOOLEAN, MayFinish(row, status)
  PROVE  LET b == FinishedRow(row, status, release)
         IN  /\ b \in Rows /\ RowOK(b) /\ b.lease = "none" /\ b.hash = row.hash
             /\ b.status = status \/ (status = "retry_wait" /\ b.status = "failed")
<1>1. MaxAttempts \in Nat /\ row.attempts \in 0..MaxAttempts
  BY Parameters DEF Rows
<1>2. Attempts(row, status) \in 0..MaxAttempts
  BY <1>1 DEF RowOK, Attempts, Unclaimed
<1>3. status \in {"waiting", "queued"} => Attempts(row, status) = row.attempts
  BY DEF Attempts
<1>. DEFINE b == FinishedRow(row, status, release)
<1>4. /\ b.status = IF status = "retry_wait" /\ Attempts(row, status) >= MaxAttempts THEN "failed" ELSE status
      /\ b.lease = "none" /\ b.hash = row.hash /\ b.attempts = Attempts(row, status)
      /\ b.reserved = (row.reserved /\ ~(release /\ status \notin Uncertain))
  BY DEF FinishedRow, Rows
<1>5. b \in Rows
  <2>1. b.status \in Statuses /\ b.status = IF status = "retry_wait" /\ Attempts(row, status) >= MaxAttempts
                                              THEN "failed" ELSE status
    BY <1>4, StatusesUsed DEF MayFinish
  <2>2. \A s \in Statuses, n \in 0..MaxAttempts, y \in BOOLEAN :
          [row EXCEPT !.status = s, !.lease = "none", !.attempts = n, !.reserved = y] \in Rows
    BY DEF Rows, Leases
  <2>. DEFINE reserved == row.reserved /\ ~(release /\ status \notin Uncertain)
  <2>3. b = [row EXCEPT !.status = b.status, !.lease = "none",
                        !.attempts = Attempts(row, status), !.reserved = reserved]
    BY <2>1 DEF FinishedRow
  <2>4. reserved \in BOOLEAN
    OBVIOUS
  <2>5. [row EXCEPT !.status = b.status, !.lease = "none",
                    !.attempts = Attempts(row, status), !.reserved = reserved] \in Rows
    <3>. HIDE DEF b, reserved
    <3>. QED
      BY <1>2, <2>1, <2>2, <2>4
  <2>. QED
    BY <2>3, <2>5
<1>. HIDE DEF b
<1>6. RowOK(b)
  <2>1. b.status \in Uncertain => b.hash \in Hashes /\ b.reserved
    BY <1>4 DEF MayFinish, RowOK, Uncertain
  <2>2. b.status = "submitted" => b.hash \in Hashes
    BY <1>4 DEF MayFinish, RowOK, Uncertain
  <2>3. b.status \in Unclaimed \cup {"fetching", "held", "none"} => b.attempts < MaxAttempts
    BY <1>1, <1>2, <1>3, <1>4 DEF MayFinish, Unclaimed
  <2>. QED
    BY <1>4, <2>1, <2>2, <2>3 DEF RowOK
<1>. QED
  BY <1>4, <1>5, <1>6 DEF b


(* What a finished turn does to the keys and the slot, whatever becomes of *)
(* the other fields of the row.                                            *)
FinishedTables(t, u, j, status, release) ==
  /\ Tabled(u)
  /\ u.key = Finished(t, j, status, release).key /\ u.slot = Finished(t, j, status, release).slot
  /\ \A k \in Jobs : k # j => u.job[k] = t.job[k]
  /\ RowOK(u.job[j]) /\ u.job[j].hash = t.job[j].hash
  /\ u.job[j].status = status \/ (status = "retry_wait" /\ u.job[j].status = "failed")

LEMMA FinishedTableOK ==
  ASSUME NEW t, TableOK(t), NEW j \in Jobs, NEW status, NEW release \in BOOLEAN,
         MayFinish(t.job[j], status), NEW u, FinishedTables(t, u, j, status, release)
  PROVE  TableOK(u)
<1>1. /\ Tabled(t) /\ Tabled(u) /\ SlotOK(t) /\ KeyOK(t) /\ RowOK(u.job[j]) /\ RowOK(t.job[j])
      /\ \A k \in Jobs : k # j => u.job[k] = t.job[k]
  BY DEF FinishedTables, TableOK
<1>2. /\ u.job[j].status \in Active <=> status \in Uncertain
      /\ u.job[j].status \in Uncertain <=> status = "reconciling"
      /\ u.job[j].status = "submitted" <=> status = "submitted"
      /\ status \in Uncertain <=> status = "reconciling"
      /\ u.job[j].hash = t.job[j].hash
  BY DEF FinishedTables, MayFinish, Active, Uncertain
<1>3. \A d \in Downloaders : u.slot[d] = IF t.slot[d] = j /\ status \notin Uncertain THEN NoJob ELSE t.slot[d]
  BY DEF FinishedTables, Finished
<1>4. \A d \in Downloaders, h \in Hashes : u.key[d][h] = FinishedKey(t.key[d][h], j, status, release)
  BY DEF FinishedTables, Finished
<1>5. \A k \in Jobs : DownloaderOf[k] \in Downloaders /\ k # NoJob
  BY Parameters
<1>6. SlotOK(u)
  <2>1. \A d \in Downloaders : u.slot[d] # NoJob => DownloaderOf[u.slot[d]] = d
    BY <1>1, <1>3 DEF SlotOK
  <2>2. ASSUME NEW k \in Jobs PROVE u.job[k].status \in Active <=> u.slot[DownloaderOf[k]] = k
    <3>1. CASE k # j
      BY <1>1, <1>3, <1>5, <3>1 DEF SlotOK
    <3>2. CASE k = j
      <4>1. status \in Uncertain => t.job[j].status \in Active
        BY <1>2 DEF MayFinish, Active
      <4>. QED
        BY <1>1, <1>2, <1>3, <1>5, <3>2, <4>1 DEF SlotOK
    <3>. QED
      BY <3>1, <3>2
  <2>. QED
    BY <2>1, <2>2 DEF SlotOK
<1>7. ASSUME NEW k \in Jobs, k # j, t.job[k].status \in Uncertain \cup {"submitted"}
      PROVE  u.key[DownloaderOf[k]][t.job[k].hash] = t.key[DownloaderOf[k]][t.job[k].hash]
  <2>1. t.job[k].hash \in Hashes
    BY <1>7 DEF TableOK, RowOK
  <2>2. t.key[DownloaderOf[k]][t.job[k].hash] \in
          {[job |-> k, outcome |-> "busy"], [job |-> k, outcome |-> "done"]}
    BY <1>1, <1>7 DEF KeyOK
  <2>3. t.key[DownloaderOf[k]][t.job[k].hash].job # j
    BY <1>7, <2>2
  <2>. QED
    BY <1>4, <1>5, <2>1, <2>3 DEF FinishedKey
<1>8. ASSUME status \in {"reconciling", "submitted"}
      PROVE  u.key[DownloaderOf[j]][u.job[j].hash] =
               [job |-> j, outcome |-> IF status = "submitted" THEN "done" ELSE "busy"]
  <2>1. t.job[j].status \in Uncertain
    BY <1>8 DEF MayFinish
  <2>2. t.job[j].hash \in Hashes /\ t.key[DownloaderOf[j]][t.job[j].hash] = [job |-> j, outcome |-> "busy"]
    BY <1>1, <2>1 DEF KeyOK, RowOK
  <2>3. FinishedKey([job |-> j, outcome |-> "busy"], j, status, release) =
          [job |-> j, outcome |-> IF status = "submitted" THEN "done" ELSE "busy"]
    BY <1>8 DEF FinishedKey, Success, Uncertain
  <2>. QED
    BY <1>2, <1>4, <1>5, <2>2, <2>3
<1>. QED
  BY <1>1, <1>2, <1>6, <1>7, <1>8, RowStep DEF Uncertain

(* finish_job_state on tables that are in order.                           *)
LEMMA FinishedOK ==
  ASSUME NEW t, TableOK(t), NEW j \in Jobs, NEW status, NEW release \in BOOLEAN, MayFinish(t.job[j], status)
  PROVE  /\ TableOK(Finished(t, j, status, release))
         /\ \A k \in Jobs : k # j => Finished(t, j, status, release).job[k] = t.job[k]
         /\ LET b == Finished(t, j, status, release).job[j]
            IN  /\ b.lease = "none" /\ b.hash = t.job[j].hash
                /\ b.status = status \/ (status = "retry_wait" /\ b.status = "failed")
<1>. DEFINE u == Finished(t, j, status, release)
            b == FinishedRow(t.job[j], status, release)
<1>1. Tabled(t) /\ t.job[j] \in Rows /\ RowOK(t.job[j])
  BY DEF TableOK, Tabled
<1>2. /\ b \in Rows /\ RowOK(b) /\ b.lease = "none" /\ b.hash = t.job[j].hash
      /\ b.status = status \/ (status = "retry_wait" /\ b.status = "failed")
  BY <1>1, FinishedRowOK
<1>3. u.job = [t.job EXCEPT ![j] = b] /\ u = [job |-> u.job, key |-> u.key, slot |-> u.slot]
  BY DEF Finished
<1>. HIDE DEF b
<1>4. u.job \in [Jobs -> Rows] /\ u.job[j] = b /\ \A k \in Jobs : k # j => u.job[k] = t.job[k]
  BY <1>1, <1>2, <1>3 DEF Tabled
<1>5. u.key \in [Downloaders -> [Hashes -> Keys]]
  <2>1. \A key \in Keys : FinishedKey(key, j, status, release) \in Keys
    BY DEF FinishedKey, Keys
  <2>2. u.key = [d \in Downloaders |-> [h \in Hashes |-> FinishedKey(t.key[d][h], j, status, release)]]
    BY DEF Finished
  <2>3. \A d \in Downloaders, h \in Hashes : t.key[d][h] \in Keys
    BY <1>1 DEF Tabled
  <2>. HIDE DEF u
  <2>. QED
    BY <2>1, <2>2, <2>3
<1>6. u.slot \in [Downloaders -> Jobs \cup {NoJob}]
  <2>1. u.slot = [d \in Downloaders |-> IF t.slot[d] = j /\ status \notin Uncertain THEN NoJob ELSE t.slot[d]]
    BY DEF Finished
  <2>. HIDE DEF u
  <2>. QED
    BY <1>1, <2>1 DEF Tabled
<1>7. u.key = Finished(t, j, status, release).key /\ u.slot = Finished(t, j, status, release).slot
  OBVIOUS
<1>8. TableOK(u)
  <2>. HIDE DEF u
  <2>1. FinishedTables(t, u, j, status, release)
    BY <1>2, <1>3, <1>4, <1>5, <1>6, <1>7 DEF FinishedTables, Tabled
  <2>. QED
    BY <2>1, FinishedTableOK
<1>. HIDE DEF u
<1>9. QED
  BY <1>2, <1>4, <1>8 DEF u

-----------------------------------------------------------------------------
(* Rows whose status and infohash stay.                                    *)

(* A lease that is lost, space that shows, attempts counted anew.          *)
KeptRow(a, b) ==
  /\ b.status = a.status /\ b.hash = a.hash /\ b.attempts \in {a.attempts, 0}
  /\ b.reserved = a.reserved \/ a.status = "submitted"
  /\ b.lease # "none" => a.lease # "none"

Kept(t, u) ==
  /\ Tabled(u) /\ u.key = t.key /\ u.slot = t.slot
  /\ \A j \in Jobs : KeptRow(t.job[j], u.job[j])

(* No worker is given a lease, or goes with one, or submits without one.   *)
Held(t, u, W, V) ==
  /\ \A w \in Workers : V[w].phase # "idle" =>
       V[w].phase = W[w].phase /\ V[w].job = W[w].job /\ V[w].hash = W[w].hash
  /\ \A j \in Jobs, w \in Workers : u.job[j].lease = w => t.job[j].lease = w /\ V[w].phase # "idle"
  /\ \A w \in Workers : V[w].phase \in {"sending", "sent"} => u.job[V[w].job].lease = w

LEMMA KeptTable ==
  ASSUME NEW t, NEW u, TableOK(t), Kept(t, u)
  PROVE  TableOK(u)
<1>1. \A j \in Jobs : KeptRow(t.job[j], u.job[j]) /\ RowOK(t.job[j])
  BY DEF Kept, TableOK
<1>2. \A j \in Jobs : RowOK(u.job[j])
  BY <1>1, Parameters DEF RowOK, KeptRow, Uncertain
<1>3. SlotOK(u)
  BY <1>1, SlotsSame DEF TableOK, Kept, KeptRow
<1>4. KeyOK(u)
  BY <1>1 DEF TableOK, KeyOK, Kept, KeptRow
<1>. QED
  BY <1>2, <1>3, <1>4 DEF TableOK, Kept

LEMMA KeptInv ==
  ASSUME NEW t, NEW u, NEW W, NEW V, NEW F, NEW A, NEW Q, NEW M,
         Inv(t, W, F, A, Q, M), Kept(t, u), WorkOK(V), Held(t, u, W, V)
  PROVE  Inv(u, V, F, A, Q, M)
<1>1. TableOK(u)
  BY KeptTable DEF Inv
<1>2. LeaseOK(t, W) /\ RoomOK(t, W, F, Q) /\ FlyOK(t, F, A, Q) /\ ApartOK(t, M)
  BY DEF Inv
<1>3. \A j \in Jobs : u.job[j].status = t.job[j].status /\ u.job[j].hash = t.job[j].hash
  BY DEF Kept, KeptRow
<1>4. \A r \in F \cup A : r.job \in Jobs
  BY <1>2 DEF FlyOK, Requests
<1>5. \A w \in Workers : V[w].phase # "idle" => V[w].job \in Jobs
  BY DEF WorkOK
<1>6. Loosened(t, u, W, V, F, F, A, A)
  BY <1>2, <1>3, <1>4, <1>5 DEF Loosened, Held, FlyOK, Accounted, Follows, Uncertain
<1>7. LeaseOK(u, V) /\ RoomOK(u, V, F, Q) /\ FlyOK(u, F, A, Q) /\ ApartOK(u, M)
  BY <1>2, <1>6, Loosen
<1>. QED
  BY <1>1, <1>7 DEF Inv

-----------------------------------------------------------------------------
(* A worker that goes.                                                     *)

LEMMA WorkerGoes ==
  ASSUME NEW W, WorkOK(W), NEW w \in Workers
  PROVE  LET V == [W EXCEPT ![w] = Idle]
         IN  /\ WorkOK(V) /\ V[w].phase = "idle"
             /\ \A v \in Workers : v # w => V[v] = W[v]
<1>. DEFINE V == [W EXCEPT ![w] = Idle]
<1>1. Idle \in [phase : Phases, job : Jobs \cup {NoJob}, hash : Hashes \cup {NoHash}, current : BOOLEAN]
  BY DEF Idle, Phases
<1>2. \A v \in Workers : V[v] = IF v = w THEN Idle ELSE W[v]
  BY DEF WorkOK
<1>3. V \in [Workers -> [phase : Phases, job : Jobs \cup {NoJob}, hash : Hashes \cup {NoHash}, current : BOOLEAN]]
  BY <1>1 DEF WorkOK
<1>4. Idle.phase = "idle"
  BY DEF Idle
<1>5. WorkOK(V) /\ V[w].phase = "idle" /\ \A v \in Workers : v # w => V[v] = W[v]
  <2>. HIDE DEF V
  <2>. QED
    BY <1>2, <1>3, <1>4 DEF WorkOK
<1>. QED
  BY <1>5

LEMMA LeftInv ==
  ASSUME NEW t, NEW W, NEW V, NEW F, NEW A, NEW Q, NEW M, NEW w \in Workers,
         Inv(t, W, F, A, Q, M), V = [W EXCEPT ![w] = Idle]
  PROVE  Inv(Left(t, w), V, F, A, Q, M)
<1>. DEFINE u == Left(t, w)
            J == [j \in Jobs |-> IF t.job[j].lease = w THEN [t.job[j] EXCEPT !.lease = "left"] ELSE t.job[j]]
<1>1. Tabled(t) /\ WorkOK(W) /\ LeaseOK(t, W) /\ FlyOK(t, F, A, Q)
  BY DEF Inv, TableOK
<1>2. WorkOK(V) /\ V[w].phase = "idle" /\ \A v \in Workers : v # w => V[v] = W[v]
  BY <1>1, WorkerGoes
<1>3. u = [job |-> J, key |-> t.key, slot |-> t.slot]
  <2>1. \A X : [t EXCEPT !.job = X] = [job |-> X, key |-> t.key, slot |-> t.slot]
    BY <1>1 DEF Tabled
  <2>2. u = [t EXCEPT !.job = J]
    BY DEF Left
  <2>. HIDE DEF u, J
  <2>. QED
    BY <2>1, <2>2
<1>4. /\ w # "none" /\ "left" # "none" /\ "left" \notin Workers
      /\ \A row \in Rows : LET b == [row EXCEPT !.lease = "left"]
                           IN  b \in Rows /\ (row.lease # "none" => KeptRow(row, b)) /\ b.lease = "left"
      /\ \A row \in Rows : KeptRow(row, row)
  BY Parameters DEF Rows, Leases, KeptRow
<1>5. \A j \in Jobs : /\ J[j] \in Rows /\ KeptRow(t.job[j], J[j])
                      /\ t.job[j].lease # w => J[j] = t.job[j]
                      /\ t.job[j].lease = w => J[j].lease = "left"
  <2>1. \A j \in Jobs : t.job[j] \in Rows
    BY <1>1 DEF Tabled
  <2>. QED
    BY <1>4, <2>1
<1>6. Kept(t, u)
  <2>1. J \in [Jobs -> Rows]
    BY <1>5
  <2>. HIDE DEF J, u
  <2>. QED
    BY <1>1, <1>3, <1>5, <2>1 DEF Kept, Tabled
<1>7. Held(t, u, W, V)
  <2>1. ASSUME NEW j \in Jobs, NEW v \in Workers, u.job[j].lease = v
        PROVE  t.job[j].lease = v /\ V[v].phase # "idle"
    <3>1. t.job[j].lease = v /\ v # w
      BY <1>3, <1>4, <1>5, <2>1
    <3>2. Matches(W[v].phase, t.job[j].status)
      BY <1>1, <3>1 DEF LeaseOK
    <3>. QED
      BY <1>2, <3>1, <3>2 DEF Matches
  <2>2. ASSUME NEW v \in Workers, V[v].phase \in {"sending", "sent"}
        PROVE  u.job[V[v].job].lease = v
    <3>1. v # w /\ V[v] = W[v] /\ V[v].job \in Jobs
      BY <1>2, <2>2 DEF WorkOK
    <3>2. t.job[V[v].job].lease = v
      BY <1>1, <2>2, <3>1 DEF LeaseOK
    <3>. QED
      BY <1>3, <1>5, <3>1, <3>2
  <2>. HIDE DEF u
  <2>. QED
    BY <1>2, <2>1, <2>2 DEF Held
<1>. HIDE DEF u
<1>8. Inv(u, V, F, A, Q, M)
  BY <1>2, <1>6, <1>7, KeptInv
<1>. QED
  BY <1>8 DEF u

(* What is known of the requests of a job that ends its turn.              *)
Settled(status, F, A, j) ==
  /\ \A r \in F : r.job = j => status = "reconciling"
  /\ \A r \in A : r.job = j => status \in {"reconciling", "submitted"}

Ended(t, u, j, status, release) ==
  /\ FinishedTables(t, u, j, status, release)
  /\ u.job[j].lease = "none"

(* Only who has the job may go with it, and must where it submits.         *)
Leaves(t, W, V, j) ==
  /\ \A w \in Workers : V[w] = W[w] \/ (V[w].phase = "idle" /\ t.job[j].lease = w)
  /\ t.job[j].lease \in Workers => V[t.job[j].lease].phase \notin {"sending", "sent"}

LEMMA EndedLoosened ==
  ASSUME NEW t, NEW u, NEW W, NEW V, NEW F, NEW A, NEW Q, NEW M, NEW j \in Jobs, NEW status,
         NEW release \in BOOLEAN,
         Inv(t, W, F, A, Q, M), MayFinish(t.job[j], status), Ended(t, u, j, status, release),
         Settled(status, F, A, j), WorkOK(V), Leaves(t, W, V, j)
  PROVE  Inv(u, V, F, A, Q, M)
<1>1. TableOK(u)
  BY FinishedTableOK DEF Inv, Ended
<1>2. "none" \notin Workers
  BY Parameters
<1>3. /\ u.job[j].status \in Uncertain => t.job[j].status \in Uncertain
      /\ u.job[j].hash = t.job[j].hash
      /\ status = "reconciling" => u.job[j].status \in Uncertain
      /\ status = "submitted" => u.job[j].status = "submitted"
  BY DEF Ended, FinishedTables, MayFinish, Uncertain
<1>4. LeaseOK(t, W)
  BY DEF Inv
<1>5. \A k \in Jobs, w \in Workers : k # j /\ t.job[k].lease = w => V[w].phase = W[w].phase
  BY <1>4 DEF LeaseOK, Leaves
<1>6. \A r \in A : r.job = j => Follows(t.job[j], u.job[j])
  BY <1>3 DEF Settled, MayFinish, Follows, Uncertain
<1>7. RowLoosened(t, u, W, V, F, A, j)
  BY <1>2, <1>3, <1>4, <1>5, <1>6 DEF RowLoosened, Ended, FinishedTables, Settled, Leaves
<1>. QED
  BY <1>1, <1>7, LoosenRow

LEMMA FinishedEnded ==
  ASSUME NEW t, TableOK(t), NEW j \in Jobs, NEW status, NEW release \in BOOLEAN, MayFinish(t.job[j], status)
  PROVE  Ended(t, Finished(t, j, status, release), j, status, release)
<1>. DEFINE u == Finished(t, j, status, release)
<1>1. /\ TableOK(u) /\ \A k \in Jobs : k # j => u.job[k] = t.job[k]
      /\ u.job[j].lease = "none" /\ u.job[j].hash = t.job[j].hash
      /\ u.job[j].status = status \/ (status = "retry_wait" /\ u.job[j].status = "failed")
  BY FinishedOK
<1>2. u.key = Finished(t, j, status, release).key /\ u.slot = Finished(t, j, status, release).slot
  OBVIOUS
<1>. HIDE DEF u
<1>3. Ended(t, u, j, status, release)
  BY <1>1, <1>2 DEF Ended, FinishedTables, TableOK
<1>. QED
  BY <1>3 DEF u

(* finish_job_state by the worker that holds the job.                      *)
LEMMA WorkerEnds ==
  ASSUME NEW t, NEW W, NEW V, NEW F, NEW A, NEW Q, NEW M, NEW w \in Workers, NEW status,
         NEW release \in BOOLEAN,
         Inv(t, W, F, A, Q, M), V = [W EXCEPT ![w] = Idle],
         W[w].job \in Jobs, t.job[W[w].job].lease = w, MayFinish(t.job[W[w].job], status),
         Settled(status, F, A, W[w].job)
  PROVE  Inv(Finished(t, W[w].job, status, release), V, F, A, Q, M)
<1>1. WorkOK(V) /\ V[w].phase = "idle" /\ \A v \in Workers : v # w => V[v] = W[v]
  BY WorkerGoes DEF Inv
<1>2. Ended(t, Finished(t, W[w].job, status, release), W[w].job, status, release)
  BY FinishedEnded DEF Inv
<1>3. Leaves(t, W, V, W[w].job)
  BY <1>1 DEF Leaves
<1>. HIDE DEF Ended, Inv
<1>. QED
  BY <1>1, <1>2, <1>3, EndedLoosened

(* finish_job_state by somebody else, of a job that is not being submitted.*)
LEMMA OthersEnd ==
  ASSUME NEW t, NEW u, NEW W, NEW F, NEW A, NEW Q, NEW M, NEW j \in Jobs, NEW status,
         NEW release \in BOOLEAN,
         Inv(t, W, F, A, Q, M), MayFinish(t.job[j], status), Ended(t, u, j, status, release),
         Settled(status, F, A, j),
         t.job[j].status # "submitting" \/ t.job[j].lease \notin Workers
  PROVE  Inv(u, W, F, A, Q, M)
<1>1. WorkOK(W) /\ LeaseOK(t, W)
  BY DEF Inv
<1>2. Leaves(t, W, W, j)
  BY <1>1 DEF LeaseOK, Matches, Leaves
<1>. QED
  BY <1>1, <1>2, EndedLoosened


-----------------------------------------------------------------------------
(* The steps of a worker.                                                  *)

Outside == OutsideUnchanged /\ Inv(db', worker', flying, arrived, Came(arrived), moving)

LEMMA OutsideInv ==
  ASSUME IInv, Outside
  PROVE  IInv'
BY DEF IInv, Outside, OutsideUnchanged

(* Recovery and the states of feeds and rules, as before a claim.          *)
LEMMA TablesInv ==
  ASSUME IInv
  PROVE  Inv(Tables, worker, flying, arrived, Came(arrived), moving)
<1>. DEFINE t == Recovered(db)
<1>1. Inv(db, worker, flying, arrived, Came(arrived), moving) /\ TableOK(db)
  BY DEF IInv, Inv
<1>2. Inv(t, worker, flying, arrived, Came(arrived), moving) /\ TableOK(t)
  <2>1. Quiet(db, t, Workers)
    BY <1>1, RecoveredQuiet
  <2>2. Inv(t, worker, flying, arrived, Came(arrived), moving)
    BY <1>1, <2>1, QuietInv
  <2>. QED
    BY <2>2 DEF Inv
<1>. HIDE DEF t
<1>3. Quiet(t, Synchronized(source, t), Workers)
  BY <1>2, SynchronizedQuiet
<1>4. Inv(Synchronized(source, t), worker, flying, arrived, Came(arrived), moving)
  BY <1>2, <1>3, QuietInv
<1>. QED
  BY <1>4 DEF Tables, t

LEMMA ClaimedRowOK ==
  ASSUME NEW row \in Rows, RowOK(row), NEW w \in Workers, row.status \in Unclaimed \cup {"reconciling"}
  PROVE  LET b == ClaimedRow(row, w)
         IN  /\ b \in Rows /\ RowOK(b) /\ b.lease = w /\ b.hash = row.hash
             /\ b.status \in {"fetching", "reconciling"}
             /\ b.status = "reconciling" <=> row.status = "reconciling"
<1>. DEFINE b == ClaimedRow(row, w)
<1>1. /\ b.status = IF row.status = "reconciling" THEN "reconciling" ELSE "fetching"
      /\ b.lease = w /\ b.hash = row.hash
      /\ b.attempts = row.attempts /\ b.reserved = row.reserved
  BY DEF ClaimedRow, Rows
<1>2. \A s \in Statuses : [row EXCEPT !.status = s, !.lease = w] \in Rows
  BY DEF Rows, Leases
<1>3. b \in Rows
  <2>1. b = [row EXCEPT !.status = IF row.status = "reconciling" THEN "reconciling" ELSE "fetching", !.lease = w]
    BY DEF ClaimedRow
  <2>2. (IF row.status = "reconciling" THEN "reconciling" ELSE "fetching") \in Statuses
    BY StatusesUsed
  <2>. QED
    BY <1>2, <2>1, <2>2
<1>. HIDE DEF b
<1>4. RowOK(b)
  BY <1>1 DEF RowOK, Unclaimed, Uncertain, Active
<1>5. QED
  BY <1>1, <1>3, <1>4 DEF b

(* A claim takes the slot of its downloader, which no other job has.       *)
LEMMA ClaimInv ==
  ASSUME IInv, NEW w \in Workers, NEW j \in Jobs, Claim(w, j)
  PROVE  IInv'
<1>. DEFINE t == Tables
            u == db'
            V == worker'
            d == DownloaderOf[j]
<1>1. /\ Inv(t, worker, flying, arrived, Came(arrived), moving) /\ TableOK(t) /\ Tabled(t) /\ WorkOK(worker)
      /\ LeaseOK(t, worker) /\ RoomOK(t, worker, flying, Came(arrived)) /\ FlyOK(t, flying, arrived, Came(arrived)) /\ ApartOK(t, moving)
  BY TablesInv DEF Inv, TableOK
<1>2. /\ worker[w] = Idle /\ Claimable(t, j) /\ OutsideUnchanged
      /\ u = [t EXCEPT !.job[j] = ClaimedRow(@, w), !.slot[d] = j]
      /\ V = [worker EXCEPT ![w] =
           IF t.job[j].status = "reconciling"
             THEN [phase |-> "check", job |-> j, hash |-> t.job[j].hash, current |-> FALSE]
             ELSE [phase |-> "fetch", job |-> j, hash |-> NoHash, current |-> TRUE]]
  BY DEF Claim
<1>. HIDE DEF t, u, V
<1>3. /\ t.job[j] \in Rows /\ RowOK(t.job[j]) /\ d \in Downloaders /\ j # NoJob
      /\ t.job[j].status \in Unclaimed \cup {"reconciling"} /\ t.job[j].lease = "none" /\ t.slot[d] \in {NoJob, j}
      /\ "none" \notin Workers
  BY <1>1, <1>2, Parameters DEF Tabled, TableOK, Claimable
<1>. DEFINE b == ClaimedRow(t.job[j], w)
<1>4. /\ b \in Rows /\ RowOK(b) /\ b.lease = w /\ b.hash = t.job[j].hash
      /\ b.status \in {"fetching", "reconciling"}
      /\ b.status = "reconciling" <=> t.job[j].status = "reconciling"
  BY <1>3, ClaimedRowOK
<1>. HIDE DEF b
<1>5. [t.job EXCEPT ![j] = b] \in [Jobs -> Rows] /\ [t.slot EXCEPT ![d] = j] \in [Downloaders -> Jobs \cup {NoJob}]
  BY <1>1, <1>4 DEF Tabled
<1>6. /\ Tabled(u) /\ u.job[j] = b /\ u.key = t.key
      /\ \A k \in Jobs : k # j => u.job[k] = t.job[k]
      /\ \A e \in Downloaders : u.slot[e] = IF e = d THEN j ELSE t.slot[e]
  <2>1. u = [t EXCEPT !.job = [t.job EXCEPT ![j] = b], !.slot = [t.slot EXCEPT ![d] = j]]
    BY <1>2 DEF b
  <2>2. Tabled(u) /\ u.key = t.key /\ u.job = [t.job EXCEPT ![j] = b] /\ u.slot = [t.slot EXCEPT ![d] = j]
    <3>. DEFINE X == [t.job EXCEPT ![j] = b]
                Y == [t.slot EXCEPT ![d] = j]
    <3>1. X \in [Jobs -> Rows] /\ Y \in [Downloaders -> Jobs \cup {NoJob}] /\ u = [t EXCEPT !.job = X, !.slot = Y]
      BY <1>5, <2>1
    <3>. HIDE DEF X, Y
    <3>2. Tabled(u) /\ u.key = t.key /\ u.job = X /\ u.slot = Y
      BY <1>1, <3>1 DEF Tabled
    <3>. QED
      BY <3>2 DEF X, Y
  <2>. QED
    BY <1>1, <1>3, <2>2 DEF Tabled
<1>7. SlotOK(u)
  <2>1. \A e \in Downloaders : u.slot[e] # NoJob => DownloaderOf[u.slot[e]] = e
    BY <1>1, <1>6 DEF TableOK, SlotOK
  <2>2. ASSUME NEW k \in Jobs PROVE u.job[k].status \in Active <=> u.slot[DownloaderOf[k]] = k
    <3>1. CASE k = j
      BY <1>3, <1>4, <1>6, <3>1 DEF Active, Uncertain
    <3>2. CASE k # j
      <4>1. DownloaderOf[k] \in Downloaders /\ k # NoJob
        BY Parameters
      <4>2. t.job[k].status \in Active <=> t.slot[DownloaderOf[k]] = k
        BY <1>1 DEF TableOK, SlotOK
      <4>. QED
        BY <1>3, <1>6, <3>2, <4>1, <4>2
    <3>. QED
      BY <3>1, <3>2
  <2>. QED
    BY <2>1, <2>2 DEF SlotOK
<1>8. TableOK(u)
  <2>1. t.job[j].status = "reconciling" =>
          u.key[DownloaderOf[j]][u.job[j].hash] = [job |-> j, outcome |-> "busy"]
    BY <1>1, <1>4, <1>6 DEF TableOK, KeyOK, Uncertain
  <2>2. u.job[j].status \in Uncertain <=> t.job[j].status = "reconciling"
    BY <1>4, <1>6 DEF Uncertain
  <2>3. u.job[j].status # "submitted" /\ RowOK(u.job[j])
    BY <1>4, <1>6
  <2>. QED
    BY <1>1, <1>6, <1>7, <2>1, <2>2, <2>3, RowStep
<1>9. /\ \A v \in Workers : v # w => V[v] = worker[v]
      /\ V[w].job = j /\ V[w].phase = IF t.job[j].status = "reconciling" THEN "check" ELSE "fetch"
      /\ t.job[j].status = "reconciling" => V[w].hash = t.job[j].hash
      /\ WorkOK(V)
  <2>. DEFINE x == IF t.job[j].status = "reconciling"
                     THEN [phase |-> "check", job |-> j, hash |-> t.job[j].hash, current |-> FALSE]
                     ELSE [phase |-> "fetch", job |-> j, hash |-> NoHash, current |-> TRUE]
  <2>1. t.job[j].hash \in Hashes \cup {NoHash} /\ (t.job[j].status = "reconciling" => t.job[j].hash \in Hashes)
    BY <1>3 DEF Rows, RowOK, Uncertain
  <2>2. /\ x \in [phase : Phases, job : Jobs \cup {NoJob}, hash : Hashes \cup {NoHash}, current : BOOLEAN]
        /\ x.job = j /\ x.phase = IF t.job[j].status = "reconciling" THEN "check" ELSE "fetch"
        /\ x.phase = "check" => x.hash \in Hashes
        /\ t.job[j].status = "reconciling" => x.hash = t.job[j].hash
    BY <2>1 DEF Phases
  <2>3. V = [worker EXCEPT ![w] = x]
    BY <1>2
  <2>. HIDE DEF x
  <2>4. \A v \in Workers : V[v] = IF v = w THEN x ELSE worker[v]
    BY <1>1, <2>3 DEF WorkOK
  <2>5. V \in [Workers -> [phase : Phases, job : Jobs \cup {NoJob}, hash : Hashes \cup {NoHash}, current : BOOLEAN]]
    BY <1>1, <2>2, <2>3 DEF WorkOK
  <2>. QED
    BY <1>1, <2>2, <2>4, <2>5 DEF WorkOK
<1>10. /\ worker[w].phase = "idle"
       /\ \A k \in Jobs : t.job[k].lease # w
  BY <1>1, <1>2 DEF Idle, LeaseOK, Matches
<1>11. LeaseOK(u, V)
  <2>1. ASSUME NEW k \in Jobs, NEW v \in Workers, u.job[k].lease = v
        PROVE  V[v].job = k /\ Matches(V[v].phase, u.job[k].status)
    <3>1. CASE k = j
      BY <1>4, <1>6, <1>9, <2>1, <3>1 DEF Matches
    <3>2. CASE k # j
      BY <1>1, <1>6, <1>9, <1>10, <2>1, <3>2 DEF LeaseOK
    <3>. QED
      BY <3>1, <3>2
  <2>2. ASSUME NEW v \in Workers, V[v].phase \in {"sending", "sent", "check"}, u.job[V[v].job].lease = v
        PROVE  u.job[V[v].job].hash = V[v].hash
    <3>1. CASE v = w
      BY <1>4, <1>6, <1>9, <2>2, <3>1
    <3>2. CASE v # w
      <4>1. V[v] = worker[v] /\ worker[v].job \in Jobs /\ worker[v].job # j
        BY <1>1, <1>4, <1>6, <1>9, <2>2, <3>2 DEF WorkOK
      <4>. QED
        BY <1>1, <1>6, <2>2, <4>1 DEF LeaseOK
    <3>. QED
      BY <3>1, <3>2
  <2>3. ASSUME NEW v \in Workers, V[v].phase \in {"sending", "sent"}
        PROVE  u.job[V[v].job].lease = v
    <3>1. v # w /\ V[v] = worker[v] /\ worker[v].job \in Jobs
      BY <1>1, <1>9, <2>3 DEF WorkOK
    <3>2. t.job[worker[v].job].lease = v
      BY <1>1, <2>3, <3>1 DEF LeaseOK
    <3>3. worker[v].job # j
      BY <1>3, <3>2
    <3>. QED
      BY <1>6, <3>1, <3>2, <3>3
  <2>. QED
    BY <2>1, <2>2, <2>3 DEF LeaseOK
<1>12. RoomOK(u, V, flying, Came(arrived))
  <2>1. ASSUME NEW v \in Workers, V[v].phase \in {"ready", "sending"}
        PROVE  /\ u.job[V[v].job].lease = v => HasRoom(V[v].hash, DownloaderOf[V[v].job], Came(arrived))
               /\ V[v].phase = "sending" => \A r \in flying : r.job # V[v].job
    <3>1. v # w /\ V[v] = worker[v] /\ worker[v].job \in Jobs
      BY <1>1, <1>9, <2>1 DEF WorkOK
    <3>2. u.job[V[v].job].lease = v => t.job[worker[v].job].lease = v
      BY <1>4, <1>6, <3>1
    <3>. QED
      BY <1>1, <2>1, <3>1, <3>2 DEF RoomOK
  <2>. QED
    BY <2>1 DEF RoomOK
<1>13. FlyOK(u, flying, arrived, Came(arrived)) /\ ApartOK(u, moving)
  <2>1. \A k \in Jobs : /\ u.job[k].hash = t.job[k].hash
                        /\ u.job[k].status \in Uncertain <=> t.job[k].status \in Uncertain
                        /\ u.job[k].status = "submitted" <=> t.job[k].status = "submitted"
                        /\ u.job[k].status = "deleted" <=> t.job[k].status = "deleted"
    BY <1>3, <1>4, <1>6 DEF Uncertain, Unclaimed
  <2>. QED
    BY <1>1, <2>1 DEF FlyOK, Accounted, ApartOK, Requests
<1>14. Inv(u, V, flying, arrived, Came(arrived), moving)
  BY <1>8, <1>9, <1>11, <1>12, <1>13 DEF Inv
<1>. QED
  BY <1>2, <1>14, OutsideInv DEF Outside, u, V

(* rss_release_observed_reservations moves nothing but space.              *)
LEMMA ObservedInv ==
  ASSUME IInv, NEW d
  PROVE  /\ Inv(Observed(db, d), worker, flying, arrived, Came(arrived), moving)
         /\ \A j \in Jobs : db.job[j].status # "submitted" => Observed(db, d).job[j] = db.job[j]
<1>. DEFINE u == Observed(db, d)
            J == [j \in Jobs |->
                   IF DownloaderOf[j] = d /\ db.job[j].status = "submitted" /\ db.job[j].hash \in qb[d]
                     THEN [db.job[j] EXCEPT !.reserved = FALSE] ELSE db.job[j]]
<1>1. /\ Inv(db, worker, flying, arrived, Came(arrived), moving) /\ Tabled(db) /\ WorkOK(worker)
      /\ LeaseOK(db, worker) /\ FlyOK(db, flying, arrived, Came(arrived))
  BY DEF IInv, Inv, TableOK
<1>2. u = [job |-> J, key |-> db.key, slot |-> db.slot]
  <2>1. \A X : [db EXCEPT !.job = X] = [job |-> X, key |-> db.key, slot |-> db.slot]
    BY <1>1 DEF Tabled
  <2>2. u = [db EXCEPT !.job = J]
    BY DEF Observed
  <2>. HIDE DEF u, J
  <2>. QED
    BY <2>1, <2>2
<1>3. \A row \in Rows : LET b == [row EXCEPT !.reserved = FALSE]
                        IN  /\ b \in Rows /\ b.lease = row.lease
                            /\ b.status = row.status /\ b.hash = row.hash /\ b.attempts = row.attempts
  BY DEF Rows
<1>4. \A j \in Jobs : /\ J[j] \in Rows /\ KeptRow(db.job[j], J[j])
                      /\ J[j].lease = db.job[j].lease
                      /\ db.job[j].status # "submitted" => J[j] = db.job[j]
  BY <1>1, <1>3 DEF Tabled, KeptRow
<1>5. Kept(db, u)
  <2>1. J \in [Jobs -> Rows]
    BY <1>4
  <2>. HIDE DEF J, u
  <2>. QED
    BY <1>1, <1>2, <1>4, <2>1 DEF Kept, Tabled
<1>6. Held(db, u, worker, worker)
  <2>1. \A j \in Jobs : u.job[j].lease = db.job[j].lease
    BY <1>2, <1>4
  <2>. HIDE DEF u
  <2>. QED
    BY <1>1, <2>1 DEF Held, LeaseOK, Matches, WorkOK
<1>. HIDE DEF u
<1>7. Inv(u, worker, flying, arrived, Came(arrived), moving)
  BY <1>1, <1>5, <1>6, KeptInv
<1>8. \A j \in Jobs : db.job[j].status # "submitted" => u.job[j] = db.job[j]
  BY <1>2, <1>4
<1>. QED
  BY <1>7, <1>8 DEF u


(* A worker that found out which torrent the job's URL leads to.           *)
FoundBy(w, W, V, phase, hash) ==
  /\ WorkOK(V)
  /\ V[w].phase = phase /\ V[w].hash = hash /\ V[w].job = W[w].job
  /\ \A v \in Workers : v # w => V[v] = W[v]

LEMMA FoundWork ==
  ASSUME NEW W, WorkOK(W), NEW w \in Workers, W[w].phase = "fetch",
         NEW phase \in {"there", "ready"}, NEW hash \in Hashes, NEW current \in BOOLEAN
  PROVE  FoundBy(w, W, [W EXCEPT ![w] = [@ EXCEPT !.phase = phase, !.hash = hash, !.current = current]],
                 phase, hash)
<1>. DEFINE x == [W[w] EXCEPT !.phase = phase, !.hash = hash, !.current = current]
            V == [W EXCEPT ![w] = x]
<1>1. W[w] \in [phase : Phases, job : Jobs \cup {NoJob}, hash : Hashes \cup {NoHash}, current : BOOLEAN]
  BY DEF WorkOK
<1>2. /\ x \in [phase : Phases, job : Jobs \cup {NoJob}, hash : Hashes \cup {NoHash}, current : BOOLEAN]
      /\ x.phase = phase /\ x.hash = hash /\ x.job = W[w].job
  BY <1>1 DEF Phases
<1>. HIDE DEF x
<1>3. /\ V \in [Workers -> [phase : Phases, job : Jobs \cup {NoJob}, hash : Hashes \cup {NoHash}, current : BOOLEAN]]
      /\ V[w] = x /\ \A v \in Workers : v # w => V[v] = W[v]
  BY <1>2 DEF WorkOK
<1>. HIDE DEF V
<1>4. FoundBy(w, W, V, phase, hash)
  BY <1>2, <1>3 DEF WorkOK, FoundBy
<1>. QED
  BY <1>4 DEF V, x

LEMMA FoundInv ==
  ASSUME NEW t, NEW W, NEW V, NEW F, NEW A, NEW Q, NEW M, NEW w \in Workers,
         Inv(t, W, F, A, Q, M), W[w].phase = "fetch",
         NEW phase \in {"there", "ready"}, NEW hash \in Hashes, FoundBy(w, W, V, phase, hash),
         phase = "ready" => HasRoom(hash, DownloaderOf[W[w].job], Q)
  PROVE  Inv(t, V, F, A, Q, M)
<1>1. WorkOK(V) /\ LeaseOK(t, W) /\ RoomOK(t, W, F, Q)
  BY DEF Inv, FoundBy
<1>2. LeaseOK(t, V)
  <2>1. ASSUME NEW j \in Jobs, NEW v \in Workers, t.job[j].lease = v
        PROVE  V[v].job = j /\ Matches(V[v].phase, t.job[j].status)
    BY <1>1, <2>1 DEF LeaseOK, Matches, FoundBy
  <2>2. \A v \in Workers : V[v].phase \in {"sending", "sent", "check"} => V[v] = W[v]
    BY DEF FoundBy
  <2>. QED
    BY <1>1, <2>1, <2>2 DEF LeaseOK
<1>3. RoomOK(t, V, F, Q)
  BY <1>1 DEF RoomOK, FoundBy
<1>. QED
  BY <1>1, <1>2, <1>3 DEF Inv

LEMMA FetchInv ==
  ASSUME IInv, NEW w \in Workers, Fetch(w)
  PROVE  IInv'
<1>. DEFINE j == worker[w].job
            d == DownloaderOf[j]
<1>1. PICK hash \in HashesOf[j], phase \in {"there", "ready"}, current \in BOOLEAN :
        /\ worker' = [worker EXCEPT ![w] = [@ EXCEPT !.phase = phase, !.hash = hash, !.current = current]]
        /\ phase = "ready" => hash \notin qb[d] /\ SpaceAvailable(Observed(db, d), d, j)
        /\ db' = db \/ db' = Observed(db, d)
  <2>1. worker[w] \in [phase : Phases, job : Jobs \cup {NoJob}, hash : Hashes \cup {NoHash}, current : BOOLEAN]
    BY DEF IInv, Inv, WorkOK
  <2>2. /\ worker[w].current \in BOOLEAN
        /\ \A hash : [worker[w] EXCEPT !.phase = "ready", !.hash = hash]
                     = [worker[w] EXCEPT !.phase = "ready", !.hash = hash, !.current = worker[w].current]
    BY <2>1
  <2>3. PICK hash \in HashesOf[j] :
          \/ /\ worker' = [worker EXCEPT ![w] = [worker[w] EXCEPT !.phase = "there", !.hash = hash, !.current = FALSE]]
             /\ db' = db
          \/ /\ hash \notin qb[d] /\ SpaceAvailable(Observed(db, d), d, j) /\ db' = Observed(db, d)
             /\ worker' = [worker EXCEPT ![w] = [worker[w] EXCEPT !.phase = "ready", !.hash = hash]]
    BY DEF Fetch
  <2>4. \E phase \in {"there", "ready"}, current \in BOOLEAN :
          /\ worker' = [worker EXCEPT ![w] =
               [worker[w] EXCEPT !.phase = phase, !.hash = hash, !.current = current]]
          /\ phase = "ready" => hash \notin qb[d] /\ SpaceAvailable(Observed(db, d), d, j)
          /\ db' = db \/ db' = Observed(db, d)
    BY <2>2, <2>3
  <2>. QED
    BY <2>4
<1>2. worker[w].phase = "fetch" /\ OutsideUnchanged
  BY DEF Fetch
<1>3. hash \in Hashes
  <2>1. j \in Jobs
    BY <1>2 DEF IInv, Inv, WorkOK
  <2>. QED
    BY <2>1, Parameters
<1>4. Inv(db', worker, flying, arrived, Came(arrived), moving)
  BY <1>1, ObservedInv DEF IInv
<1>5. FoundBy(w, worker, worker', phase, hash)
  <2>1. WorkOK(worker)
    BY DEF IInv, Inv
  <2>2. FoundBy(w, worker, [worker EXCEPT ![w] = [@ EXCEPT !.phase = phase, !.hash = hash, !.current = current]],
               phase, hash)
    BY <1>2, <1>3, <2>1, FoundWork, Zenon
  <2>. QED
    BY <1>1, <2>2, Zenon
<1>6. phase = "ready" => HasRoom(hash, d, Came(arrived))
  <2>1. j \in Jobs /\ d \in Downloaders
    BY <1>2, Parameters DEF IInv, Inv, WorkOK
  <2>. HIDE DEF d
  <2>2. IsFiniteSet(Reserved(Observed(db, d), d, j))
    <3>1. Reserved(Observed(db, d), d, j) \in SUBSET Jobs /\ IsFiniteSet(Jobs)
      BY Parameters DEF Reserved
    <3>. QED
      BY <3>1, FS_Subset
  <2>3. /\ Cardinality(Reserved(Observed(db, d), d, j)) \in Nat
        /\ Cardinality(qb[d]) \in Nat /\ Capacity[d] \in Nat
    BY <2>1, <2>2, FS_CardinalityType, Parameters DEF IInv, ThereOK
  <2>4. /\ Came(arrived)[d] \subseteq qb[d]
        /\ Cardinality(Came(arrived)[d]) \in Nat /\ Cardinality(Came(arrived)[d]) <= Cardinality(qb[d])
    <3>1. IsFiniteSet(qb[d]) /\ Came(arrived)[d] \in SUBSET qb[d]
      BY <2>1 DEF IInv, ThereOK
    <3>. QED
      BY <3>1, FS_Subset, FS_CardinalityType
  <2>. QED
    BY <1>1, <2>3, <2>4 DEF SpaceAvailable, HasRoom
<1>7. Inv(db', worker', flying, arrived, Came(arrived), moving)
  BY <1>1, <1>2, <1>3, <1>4, <1>5, <1>6, FoundInv
<1>. QED
  BY <1>2, <1>7, OutsideInv DEF Outside

(* A worker that works on a job it still holds.                            *)
LEMMA Holding ==
  ASSUME IInv, NEW w \in Workers, worker[w].phase # "idle"
  PROVE  LET j == worker[w].job
         IN  /\ j \in Jobs /\ TableOK(db) /\ db.job[j] \in Rows /\ RowOK(db.job[j])
             /\ Inv(db, worker, flying, arrived, Came(arrived), moving)
             /\ \A status : Holds(w, status) => db.job[j].lease = w /\ db.job[j].status = status
BY DEF IInv, Inv, TableOK, Tabled, WorkOK, Holds

LEMMA TransitionInv ==
  ASSUME IInv, NEW w \in Workers, worker[w].phase # "idle", NEW from, NEW status, NEW release \in BOOLEAN,
         Transition(w, from, status, release), OutsideUnchanged,
         Holds(w, from) => /\ MayFinish(db.job[worker[w].job], status)
                           /\ Settled(status, flying, arrived, worker[w].job)
  PROVE  IInv'
<1>1. /\ Inv(db, worker, flying, arrived, Came(arrived), moving) /\ worker[w].job \in Jobs
      /\ worker' = [worker EXCEPT ![w] = Idle]
      /\ Holds(w, from) => db.job[worker[w].job].lease = w
  BY Holding DEF Transition, Gone
<1>2. CASE Holds(w, from)
  <2>1. db' = Finished(db, worker[w].job, status, release)
    BY <1>2 DEF Transition
  <2>2. Inv(db', worker', flying, arrived, Came(arrived), moving)
    BY <1>1, <1>2, <2>1, WorkerEnds
  <2>. QED
    BY <2>2, OutsideInv DEF Outside
<1>3. CASE ~Holds(w, from)
  <2>1. db' = Left(db, w)
    BY <1>3 DEF Transition
  <2>2. Inv(db', worker', flying, arrived, Came(arrived), moving)
    BY <1>1, <2>1, LeftInv
  <2>. QED
    BY <2>2, OutsideInv DEF Outside
<1>. QED
  BY <1>2, <1>3

LEMMA GivesUpInv ==
  ASSUME IInv, NEW w \in Workers, GivesUp(w), OutsideUnchanged
  PROVE  IInv'
<1>1. Inv(Left(db, w), worker', flying, arrived, Came(arrived), moving)
  BY LeftInv DEF IInv, GivesUp, Gone
<1>. QED
  BY <1>1, OutsideInv DEF Outside, GivesUp

(* A job that is fetched has nothing on its way, and an attempt left.      *)
LEMMA FetchingMay ==
  ASSUME IInv, NEW j \in Jobs, db.job[j].status = "fetching",
         NEW status \in {"waiting", "failed", "retry_wait", "already_present", "cancelled", "queued"}
  PROVE  MayFinish(db.job[j], status) /\ Settled(status, flying, arrived, j)
<1>1. RowOK(db.job[j]) /\ FlyOK(db, flying, arrived, Came(arrived))
  BY DEF IInv, Inv, TableOK
<1>. QED
  BY <1>1 DEF MayFinish, RowOK, Settled, FlyOK, Accounted, Uncertain

LEMMA FetchEndsInv ==
  ASSUME IInv, NEW w \in Workers, NoSpace(w) \/ FetchFails(w) \/ FetchConflicts(w)
  PROVE  IInv'
<1>1. worker[w].phase = "fetch" /\ OutsideUnchanged /\ worker[w].job \in Jobs
  <2>1. worker[w].phase = "fetch" /\ OutsideUnchanged
    BY DEF NoSpace, FetchFails, FetchConflicts
  <2>. QED
    BY <2>1, Holding
<1>2. CASE NoSpace(w)
  <2>. DEFINE j == worker[w].job
              seen == Observed(db, DownloaderOf[j])
  <2>1. Inv(seen, worker, flying, arrived, Came(arrived), moving)
    BY ObservedInv
  <2>2. db' = IF Holds(w, "fetching") THEN Finished(seen, j, "waiting", FALSE) ELSE Left(seen, w)
    BY <1>2 DEF NoSpace
  <2>3. worker' = [worker EXCEPT ![w] = Idle]
    BY <1>2 DEF NoSpace, Gone
  <2>4. CASE Holds(w, "fetching")
    <3>1. seen.job[j] = db.job[j] /\ db.job[j].lease = w /\ db.job[j].status = "fetching"
      BY <1>1, <2>4, Holding, ObservedInv
    <3>2. MayFinish(seen.job[j], "waiting") /\ Settled("waiting", flying, arrived, j)
      BY <1>1, <3>1, FetchingMay
    <3>. HIDE DEF seen
    <3>3. Inv(Finished(seen, j, "waiting", FALSE), worker', flying, arrived, Came(arrived), moving)
      BY <1>1, <2>1, <2>3, <3>1, <3>2, WorkerEnds
    <3>. QED
      BY <1>1, <2>2, <2>4, <3>3, OutsideInv DEF Outside
  <2>5. CASE ~Holds(w, "fetching")
    <3>1. Inv(Left(seen, w), worker', flying, arrived, Came(arrived), moving)
      BY <2>1, <2>3, LeftInv
    <3>. QED
      BY <1>1, <2>2, <2>5, <3>1, OutsideInv DEF Outside
  <2>. QED
    BY <2>4, <2>5
<1>3. CASE FetchFails(w)
  <2>1. PICK status \in {"waiting", "failed", "retry_wait"} : Transition(w, "fetching", status, TRUE)
    BY <1>3 DEF FetchFails
  <2>2. Holds(w, "fetching") => /\ MayFinish(db.job[worker[w].job], status)
                                /\ Settled(status, flying, arrived, worker[w].job)
    BY <1>1, FetchingMay DEF Holds
  <2>. QED
    BY <1>1, <2>1, <2>2, TransitionInv
<1>4. CASE FetchConflicts(w)
  BY <1>1, <1>4, GivesUpInv DEF FetchConflicts
<1>. QED
  BY <1>2, <1>3, <1>4

(* Requests that have ended are nobody's worry.                            *)
LEMMA FewerRequests ==
  ASSUME NEW t, NEW W, NEW F, NEW G, NEW A, NEW Q, NEW M, Inv(t, W, F, A, Q, M), G \subseteq F
  PROVE  Inv(t, W, G, A, Q, M)
<1>1. RoomOK(t, W, F, Q) /\ FlyOK(t, F, A, Q)
  BY DEF Inv
<1>2. RoomOK(t, W, G, Q)
  BY <1>1 DEF RoomOK
<1>3. FlyOK(t, G, A, Q)
  BY <1>1 DEF FlyOK
<1>. QED
  BY <1>2, <1>3 DEF Inv

(* A transition upon an answer of the downloader: the job's own request is *)
(* not waited for any more.                                                *)
LEMMA AnsweredInv ==
  ASSUME IInv, NEW w \in Workers, worker[w].phase # "idle", NEW from, NEW status, NEW release \in BOOLEAN,
         Transition(w, from, status, release), Answered(w, from), UNCHANGED <<source, moving, qb, arrived>>,
         Holds(w, from) => /\ MayFinish(db.job[worker[w].job], status)
                           /\ Settled(status, flying \ {Sent(w)}, arrived, worker[w].job)
  PROVE  IInv'
<1>1. /\ Inv(db, worker, flying, arrived, Came(arrived), moving) /\ worker[w].job \in Jobs
      /\ worker' = [worker EXCEPT ![w] = Idle]
      /\ Holds(w, from) => db.job[worker[w].job].lease = w
  BY Holding DEF Transition, Gone
<1>2. Inv(db', worker', flying', arrived, Came(arrived), moving)
  <2>1. CASE Holds(w, from)
    <3>1. flying' = flying \ {Sent(w)} /\ db' = Finished(db, worker[w].job, status, release)
      BY <2>1 DEF Transition, Answered
    <3>2. Inv(db, worker, flying', arrived, Came(arrived), moving)
      BY <1>1, <3>1, FewerRequests
    <3>. QED
      BY <1>1, <2>1, <3>1, <3>2, WorkerEnds
  <2>2. CASE ~Holds(w, from)
    <3>1. flying' = flying /\ db' = Left(db, w)
      BY <2>2 DEF Transition, Answered
    <3>. QED
      BY <1>1, <3>1, LeftInv
  <2>. QED
    BY <2>1, <2>2
<1>. QED
  BY <1>2 DEF IInv

(* What a worker knows that still has the job it submitted: the infohash   *)
(* of every request of the job is its own.                                 *)
LEMMA AnswersMay ==
  ASSUME IInv, NEW w \in Workers, worker[w].phase \in {"sent", "check"},
         db.job[worker[w].job].lease = w, db.job[worker[w].job].status \in Uncertain
  PROVE  LET j == worker[w].job
             G == flying \ {Sent(w)}
         IN  /\ MayFinish(db.job[j], "reconciling") /\ Settled("reconciling", flying, arrived, j)
             /\ Settled("reconciling", G, arrived, j)
             /\ Present(w) => MayFinish(db.job[j], "submitted") /\ Settled("submitted", G, arrived, j)
             /\ ~Present(w) => \A status : Settled(status, G, arrived, j)
             /\ MayFinish(db.job[j], "failed") /\ MayFinish(db.job[j], "retry_wait")
<1>. DEFINE j == worker[w].job
            G == flying \ {Sent(w)}
<1>1. /\ j \in Jobs /\ DownloaderOf[j] \in Downloaders /\ FlyOK(db, flying, arrived, Came(arrived))
      /\ db.job[j].hash = worker[w].hash /\ ThereOK(arrived, qb)
  BY Parameters DEF IInv, Inv, WorkOK, LeaseOK
<1>2. ASSUME NEW r \in G PROVE r.job # j
  <2>1. r \in Requests /\ db.job[r.job].hash = r.hash /\ r # Sent(w)
    BY <1>1, <1>2 DEF FlyOK
  <2>. QED
    BY <1>1, <2>1 DEF Requests, Sent
<1>3. ASSUME NEW r \in arrived, r.job = j PROVE Present(w)
  <2>1. r.hash = worker[w].hash
    BY <1>1, <1>3 DEF FlyOK, Accounted, Uncertain
  <2>2. r.hash \in Came(arrived)[DownloaderOf[j]]
    BY <1>1, <1>3 DEF Came
  <2>. QED
    BY <1>1, <2>1, <2>2 DEF ThereOK, Present
<1>. QED
  BY <1>2, <1>3 DEF MayFinish, Settled

LEMMA SettleInv ==
  ASSUME IInv, NEW w \in Workers, Settle(w) \/ CheckAnswered(w) \/ CheckAgain(w)
  PROVE  IInv'
<1>. DEFINE j == worker[w].job
<1>1. worker[w].phase \in {"sent", "check"} /\ UNCHANGED <<source, moving, qb, arrived>>
  BY DEF Settle, CheckAnswered, CheckAgain, OutsideUnchanged
<1>2. CASE Settle(w) /\ Transition(w, "submitting", "submitted", FALSE) /\ Answered(w, "submitting") /\ Present(w)
  <2>1. Holds(w, "submitting") =>
          MayFinish(db.job[j], "submitted") /\ Settled("submitted", flying \ {Sent(w)}, arrived, j)
    BY <1>1, <1>2, AnswersMay DEF Holds, Uncertain
  <2>. QED
    BY <1>1, <1>2, <2>1, AnsweredInv
<1>3. CASE \/ Transition(w, "submitting", "reconciling", FALSE) /\ UNCHANGED flying
           \/ CheckAgain(w)
  <2>1. PICK from \in Uncertain : Transition(w, from, "reconciling", FALSE) /\ OutsideUnchanged
    BY <1>1, <1>3 DEF CheckAgain, OutsideUnchanged, Uncertain
  <2>2. Holds(w, from) =>
          MayFinish(db.job[j], "reconciling") /\ Settled("reconciling", flying, arrived, j)
    BY <1>1, AnswersMay DEF Holds
  <2>. QED
    BY <1>1, <2>1, <2>2, TransitionInv
<1>4. CASE CheckAnswered(w)
  <2>. DEFINE status == Found(w)
  <2>1. Transition(w, "reconciling", status, status # "submitted") /\ Answered(w, "reconciling")
    BY <1>4 DEF CheckAnswered
  <2>2. Holds(w, "reconciling") =>
          MayFinish(db.job[j], status) /\ Settled(status, flying \ {Sent(w)}, arrived, j)
    BY <1>1, AnswersMay DEF Holds, Uncertain, Found
  <2>3. (status # "submitted") \in BOOLEAN
    OBVIOUS
  <2>. HIDE DEF status
  <2>. QED
    BY <1>1, <2>1, <2>2, <2>3, AnsweredInv
<1>. QED
  BY <1>2, <1>3, <1>4 DEF Settle


(* A row of a job that is fetched, and one key that no submission has.     *)
Noted(t, u, j) ==
  /\ Tabled(u) /\ u.slot = t.slot
  /\ \A k \in Jobs : k # j => u.job[k] = t.job[k]
  /\ u.job[j].status = "fetching" /\ u.job[j].lease = t.job[j].lease
  /\ u.job[j].attempts = t.job[j].attempts
  /\ \A k \in Jobs : k # j /\ t.job[k].status \in Uncertain \cup {"submitted"} =>
       u.key[DownloaderOf[k]][t.job[k].hash] = t.key[DownloaderOf[k]][t.job[k].hash]

LEMMA NotedInv ==
  ASSUME NEW t, NEW u, NEW W, NEW F, NEW A, NEW Q, NEW M, NEW j \in Jobs,
         Inv(t, W, F, A, Q, M), t.job[j].status = "fetching", Noted(t, u, j)
  PROVE  Inv(u, W, F, A, Q, M)
<1>1. /\ TableOK(t) /\ RowOK(t.job[j]) /\ WorkOK(W) /\ LeaseOK(t, W) /\ RoomOK(t, W, F, Q)
      /\ FlyOK(t, F, A, Q) /\ ApartOK(t, M)
  BY DEF Inv, TableOK
<1>2. RowOK(u.job[j])
  BY <1>1 DEF RowOK, Noted, Uncertain, Active
<1>3. SlotOK(u)
  BY <1>1, SlotsSame DEF TableOK, Noted
<1>4. u.job[j].status \notin Uncertain /\ u.job[j].status # "submitted"
  BY DEF Noted, Uncertain
<1>5. TableOK(u)
  BY <1>1, <1>2, <1>3, <1>4, RowStep DEF Noted
<1>6. \A k \in Jobs : u.job[k].status = t.job[k].status /\ u.job[k].lease = t.job[k].lease
  BY DEF Noted
<1>7. LeaseOK(u, W)
  <2>1. ASSUME NEW w \in Workers, W[w].phase \in {"sending", "sent", "check"}, u.job[W[w].job].lease = w
        PROVE  u.job[W[w].job].hash = W[w].hash
    <3>1. W[w].job \in Jobs /\ t.job[W[w].job].lease = w
      BY <1>1, <1>6, <2>1 DEF WorkOK
    <3>2. W[w].job # j
      BY <1>1, <2>1, <3>1 DEF LeaseOK, Matches
    <3>. QED
      BY <1>1, <2>1, <3>1, <3>2 DEF LeaseOK, Noted
  <2>. QED
    BY <1>1, <1>6, <2>1 DEF LeaseOK, WorkOK
<1>8. RoomOK(u, W, F, Q)
  BY <1>1, <1>6 DEF RoomOK, WorkOK
<1>9. FlyOK(u, F, A, Q) /\ ApartOK(u, M)
  <2>1. \A r \in F \cup A : r.job \in Jobs /\ r.job # j
    BY <1>1 DEF FlyOK, Accounted, Requests, Uncertain
  <2>. QED
    BY <1>1, <1>4, <2>1 DEF FlyOK, ApartOK, Noted
<1>. QED
  BY <1>1, <1>5, <1>7, <1>8, <1>9 DEF Inv

(* One row and one key are written.                                        *)
WrittenAs(t, u, j, h, b, key) ==
  /\ u.slot = t.slot /\ u = [job |-> u.job, key |-> u.key, slot |-> u.slot]
  /\ u.job = [t.job EXCEPT ![j] = b] /\ u.key = [t.key EXCEPT ![DownloaderOf[j]][h] = key]

LEMMA Written ==
  ASSUME NEW t, Tabled(t), NEW j \in Jobs, NEW h \in Hashes, NEW b \in Rows, NEW key \in Keys,
         NEW u, WrittenAs(t, u, j, h, b, key)
  PROVE  /\ Tabled(u) /\ u.job[j] = b
         /\ \A k \in Jobs : k # j => u.job[k] = t.job[k]
         /\ \A d \in Downloaders, g \in Hashes :
              u.key[d][g] = IF d = DownloaderOf[j] /\ g = h THEN key ELSE t.key[d][g]
<1>1. DownloaderOf[j] \in Downloaders
  BY Parameters
<1>2. u.job \in [Jobs -> Rows] /\ u.job[j] = b /\ \A k \in Jobs : k # j => u.job[k] = t.job[k]
  BY DEF Tabled, WrittenAs
<1>3. u.key \in [Downloaders -> [Hashes -> Keys]]
  BY <1>1 DEF Tabled, WrittenAs
<1>4. \A d \in Downloaders, g \in Hashes :
        u.key[d][g] = IF d = DownloaderOf[j] /\ g = h THEN key ELSE t.key[d][g]
  BY <1>1 DEF Tabled, WrittenAs
<1>. QED
  BY <1>2, <1>3, <1>4 DEF Tabled, WrittenAs

LEMMA KeyedAsDone ==
  ASSUME NEW key \in Keys, NEW j \in Jobs
  PROVE  /\ KeyedAs(key, j, "done") \in Keys
         /\ \A k \in Jobs : key = [job |-> k, outcome |-> "done"] => KeyedAs(key, j, "done") = key
BY Parameters DEF KeyedAs, Keys, NoKey

(* On one downloader only one job is active.                               *)
LEMMA OneActive ==
  ASSUME NEW t, TableOK(t), NEW j \in Jobs, NEW k \in Jobs, DownloaderOf[j] = DownloaderOf[k],
         t.job[j].status \in Active, t.job[k].status \in Active
  PROVE  j = k
BY DEF TableOK, SlotOK

LEMMA PresentInv ==
  ASSUME IInv, NEW w \in Workers, AlreadyPresent(w)
  PROVE  IInv'
<1>. DEFINE j == worker[w].job
            d == DownloaderOf[j]
            hash == worker[w].hash
            kept == [db EXCEPT !.job[j].hash = hash, !.key[d][hash] = KeyedAs(@, j, "done")]
<1>1. /\ j \in Jobs /\ hash \in Hashes /\ d \in Downloaders /\ TableOK(db) /\ Tabled(db)
      /\ Inv(db, worker, flying, arrived, Came(arrived), moving) /\ KeyOK(db)
  BY Parameters DEF AlreadyPresent, IInv, Inv, WorkOK, TableOK
<1>2. /\ worker' = [worker EXCEPT ![w] = Idle] /\ OutsideUnchanged
      /\ db' = IF Holds(w, "fetching") THEN Finished(kept, j, "already_present", TRUE) ELSE Left(db, w)
  BY DEF AlreadyPresent, Gone
<1>3. CASE Holds(w, "fetching")
  <2>. DEFINE b == [db.job[j] EXCEPT !.hash = hash]
              key == KeyedAs(db.key[d][hash], j, "done")
  <2>1. db.job[j].lease = w /\ db.job[j].status = "fetching" /\ db.job[j] \in Rows /\ db.key[d][hash] \in Keys
    BY <1>1, <1>3 DEF Holds, Tabled
  <2>2. b \in Rows /\ b.status = "fetching" /\ b.lease = w /\ b.attempts = db.job[j].attempts
    BY <1>1, <2>1 DEF Rows
  <2>3. key \in Keys
    BY <1>1, <2>1, KeyedAsDone
  <2>4. WrittenAs(db, kept, j, hash, b, key)
    <3>. DEFINE X == [db.job EXCEPT ![j] = b]
                Y == [db.key EXCEPT ![d][hash] = key]
    <3>1. kept = [db EXCEPT !.job = X, !.key = Y]
      OBVIOUS
    <3>. HIDE DEF X, Y, kept
    <3>2. /\ kept.job = X /\ kept.key = Y /\ kept.slot = db.slot
          /\ kept = [job |-> kept.job, key |-> kept.key, slot |-> kept.slot]
      BY <1>1, <3>1 DEF Tabled
    <3>. QED
      BY <3>2 DEF WrittenAs, X, Y
  <2>. HIDE DEF kept, b, key
  <2>5. /\ Tabled(kept) /\ kept.job[j] = b
        /\ \A k \in Jobs : k # j => kept.job[k] = db.job[k]
        /\ \A e \in Downloaders, g \in Hashes :
             kept.key[e][g] = IF e = d /\ g = hash THEN key ELSE db.key[e][g]
    BY <1>1, <2>2, <2>3, <2>4, Written
  <2>6. ASSUME NEW k \in Jobs, k # j, db.job[k].status \in Uncertain \cup {"submitted"}
        PROVE  kept.key[DownloaderOf[k]][db.job[k].hash] = db.key[DownloaderOf[k]][db.job[k].hash]
    <3>1. db.job[k].hash \in Hashes /\ DownloaderOf[k] \in Downloaders
      BY <1>1, <2>6, Parameters DEF TableOK, RowOK
    <3>2. CASE DownloaderOf[k] # d
      BY <2>5, <3>1, <3>2
    <3>3. CASE DownloaderOf[k] = d
      <4>1. db.job[k].status = "submitted"
        BY <1>1, <2>1, <2>6, <3>3, OneActive DEF Active
      <4>2. db.key[DownloaderOf[k]][db.job[k].hash] = [job |-> k, outcome |-> "done"]
        BY <1>1, <4>1 DEF KeyOK
      <4>3. db.job[k].hash = hash => key = db.key[d][hash]
        BY <1>1, <2>1, <3>3, <4>2, KeyedAsDone DEF key
      <4>. QED
        BY <2>5, <3>1, <3>3, <4>3
    <3>. QED
      BY <3>2, <3>3
  <2>7. Noted(db, kept, j)
    BY <2>1, <2>2, <2>4, <2>5, <2>6 DEF Noted, WrittenAs
  <2>8. Inv(kept, worker, flying, arrived, Came(arrived), moving)
    BY <1>1, <2>1, <2>7, NotedInv
  <2>9. MayFinish(kept.job[j], "already_present") /\ Settled("already_present", flying, arrived, j)
    <3>1. Settled("already_present", flying, arrived, j)
      BY <1>1, <2>1, FetchingMay
    <3>. QED
      BY <3>1 DEF MayFinish
  <2>10. Inv(Finished(kept, j, "already_present", TRUE), worker', flying, arrived, Came(arrived), moving)
    BY <1>1, <1>2, <2>2, <2>5, <2>8, <2>9, WorkerEnds
  <2>. QED
    BY <1>2, <1>3, <2>10, OutsideInv DEF Outside
<1>4. CASE ~Holds(w, "fetching")
  <2>1. db' = Left(db, w)
    BY <1>2, <1>4
  <2>2. Inv(db', worker', flying, arrived, Came(arrived), moving)
    BY <1>1, <1>2, <2>1, LeftInv
  <2>. QED
    BY <1>2, <2>2, OutsideInv DEF Outside
<1>. QED
  BY <1>3, <1>4

LEMMA DeliveredInv ==
  ASSUME IInv, NEW w \in Workers, PrepareFindsDelivered(w)
  PROVE  IInv'
<1>. DEFINE j == worker[w].job
            hash == worker[w].hash
            kept == [db EXCEPT !.job[j].hash = hash]
            b == [db.job[j] EXCEPT !.hash = hash]
<1>1. /\ worker' = [worker EXCEPT ![w] = Idle] /\ OutsideUnchanged /\ worker[w].phase = "ready"
      /\ Holds(w, "fetching") /\ db' = Finished(kept, j, "already_present", TRUE)
  BY DEF PrepareFindsDelivered, Passes, Proceeds, Valid, Gone
<1>2. /\ j \in Jobs /\ hash \in Hashes /\ Tabled(db) /\ Inv(db, worker, flying, arrived, Came(arrived), moving)
      /\ db.job[j] \in Rows /\ db.job[j].lease = w /\ db.job[j].status = "fetching"
  BY <1>1 DEF IInv, Inv, WorkOK, TableOK, Tabled, Holds
<1>3. b \in Rows /\ b.status = "fetching" /\ b.lease = w /\ b.attempts = db.job[j].attempts
  BY <1>2 DEF Rows
<1>4. /\ kept.slot = db.slot /\ kept.key = db.key /\ kept = [job |-> kept.job, key |-> kept.key, slot |-> kept.slot]
      /\ kept.job = [db.job EXCEPT ![j] = b]
  BY <1>2 DEF Tabled
<1>. HIDE DEF kept, b
<1>5. Tabled(kept) /\ kept.job[j] = b /\ \A k \in Jobs : k # j => kept.job[k] = db.job[k]
  BY <1>2, <1>3, <1>4 DEF Tabled
<1>6. Noted(db, kept, j)
  BY <1>2, <1>3, <1>4, <1>5 DEF Noted
<1>7. Inv(kept, worker, flying, arrived, Came(arrived), moving)
  BY <1>2, <1>6, NotedInv
<1>8. MayFinish(kept.job[j], "already_present") /\ Settled("already_present", flying, arrived, j)
  <2>1. Settled("already_present", flying, arrived, j)
    BY <1>2, FetchingMay
  <2>. QED
    BY <2>1 DEF MayFinish
<1>9. Inv(Finished(kept, j, "already_present", TRUE), worker', flying, arrived, Came(arrived), moving)
  BY <1>1, <1>2, <1>3, <1>5, <1>7, <1>8, WorkerEnds
<1>. QED
  BY <1>1, <1>9, OutsideInv DEF Outside


(* A worker that goes with no lease left.                                  *)
LEMMA GoneInv ==
  ASSUME NEW t, NEW W, NEW F, NEW A, NEW Q, NEW M, NEW w \in Workers,
         Inv(t, W, F, A, Q, M), \A j \in Jobs : t.job[j].lease # w
  PROVE  Inv(t, [W EXCEPT ![w] = Idle], F, A, Q, M)
<1>. DEFINE V == [W EXCEPT ![w] = Idle]
<1>1. TableOK(t) /\ WorkOK(W) /\ LeaseOK(t, W) /\ FlyOK(t, F, A, Q)
  BY DEF Inv
<1>2. WorkOK(V) /\ V[w].phase = "idle" /\ \A v \in Workers : v # w => V[v] = W[v]
  BY <1>1, WorkerGoes
<1>. HIDE DEF V
<1>3. Kept(t, t)
  BY <1>1 DEF Kept, KeptRow, TableOK
<1>4. Held(t, t, W, V)
  BY <1>1, <1>2 DEF Held, LeaseOK, Matches
<1>5. Inv(t, V, F, A, Q, M)
  BY <1>2, <1>3, <1>4, KeptInv
<1>. QED
  BY <1>5 DEF V

LEMMA RefusedInv ==
  ASSUME IInv, NEW w \in Workers, Refused(w)
  PROVE  IInv'
<1>. DEFINE j == worker[w].job
            hash == worker[w].hash
<1>1. /\ worker' = [worker EXCEPT ![w] = Idle] /\ OutsideUnchanged /\ worker[w].phase = "ready"
      /\ Holds(w, "fetching") /\ (Changed(j, hash) \/ ~On(j))
      /\ db' = IF Changed(j, hash) THEN Finished(db, j, "failed", TRUE) ELSE Synchronized(source, db)
  BY DEF Refused, Valid, Gone
<1>2. /\ j \in Jobs /\ TableOK(db) /\ Tabled(db) /\ Inv(db, worker, flying, arrived, Came(arrived), moving)
      /\ db.job[j].lease = w /\ db.job[j].status = "fetching" /\ LeaseOK(db, worker)
      /\ source \in [Sources -> {"on", "off", "archived"}]
  BY <1>1 DEF IInv, Inv, WorkOK, TableOK, Holds
<1>3. CASE Changed(j, hash)
  <2>1. MayFinish(db.job[j], "failed") /\ Settled("failed", flying, arrived, j)
    BY <1>2, FetchingMay
  <2>2. Inv(Finished(db, j, "failed", TRUE), worker', flying, arrived, Came(arrived), moving)
    BY <1>1, <1>2, <2>1, WorkerEnds
  <2>. QED
    BY <1>1, <1>3, <2>2, OutsideInv DEF Outside
<1>4. CASE ~Changed(j, hash)
  <2>. DEFINE t == Synchronized(source, db)
  <2>1. Quiet(db, t, Workers)
    BY <1>2, SynchronizedQuiet
  <2>2. Inv(t, worker, flying, arrived, Came(arrived), moving)
    BY <1>2, <2>1, QuietInv
  <2>3. t.job[j] = SynchronizedRow(source, j, db.job[j])
    BY <1>2, SynchronizedQuiet
  <2>4. t.job[j].lease = "none"
    <3>1. ~AllOn(source, j)
      BY <1>1, <1>4 DEF On, AllOn
    <3>2. \A status : Dropped(db.job[j], status).lease = "none"
      BY <1>2 DEF Dropped, Unleased, Tabled, Rows
    <3>. QED
      BY <1>2, <2>3, <3>1, <3>2 DEF SynchronizedRow
  <2>5. ASSUME NEW k \in Jobs PROVE t.job[k].lease # w
    <3>1. t.job[k].lease \in {"none", db.job[k].lease} /\ w # "none"
      BY <2>1, Parameters DEF Quiet, QuietRow
    <3>. QED
      BY <1>2, <2>4, <3>1 DEF LeaseOK
  <2>. HIDE DEF t
  <2>6. Inv(t, worker', flying, arrived, Came(arrived), moving)
    BY <1>1, <2>2, <2>5, GoneInv
  <2>. QED
    BY <1>1, <1>4, <2>6, OutsideInv DEF Outside, t
<1>. QED
  BY <1>3, <1>4

LEMMA WaitsInv ==
  ASSUME IInv, NEW w \in Workers, PrepareConflicts(w) \/ PrepareWaits(w)
  PROVE  IInv'
<1>1. CASE PrepareConflicts(w)
  BY <1>1, GivesUpInv DEF PrepareConflicts
<1>2. CASE PrepareWaits(w)
  <2>. DEFINE j == worker[w].job
  <2>1. /\ worker' = [worker EXCEPT ![w] = Idle] /\ OutsideUnchanged /\ worker[w].phase = "ready"
        /\ Holds(w, "fetching") /\ db' = Finished(db, j, "waiting", TRUE)
    BY <1>2 DEF PrepareWaits, Proceeds, Valid, Gone
  <2>2. /\ j \in Jobs /\ Inv(db, worker, flying, arrived, Came(arrived), moving)
        /\ db.job[j].lease = w /\ db.job[j].status = "fetching"
    BY <2>1 DEF IInv, Inv, WorkOK, Holds
  <2>3. MayFinish(db.job[j], "waiting") /\ Settled("waiting", flying, arrived, j)
    BY <2>2, FetchingMay
  <2>4. Inv(Finished(db, j, "waiting", TRUE), worker', flying, arrived, Came(arrived), moving)
    BY <2>1, <2>2, <2>3, WorkerEnds
  <2>. QED
    BY <2>1, <2>4, OutsideInv DEF Outside
<1>. QED
  BY <1>1, <1>2

LEMMA SubmittingRowOK ==
  ASSUME NEW row \in Rows, RowOK(row), row.status = "fetching", NEW hash \in Hashes
  PROVE  LET b == SubmittingRow(row, hash)
         IN  /\ b \in Rows /\ RowOK(b) /\ b.status = "submitting" /\ b.lease = row.lease
             /\ b.hash = hash
<1>. DEFINE b == SubmittingRow(row, hash)
<1>1. row.attempts + 1 \in 0..MaxAttempts
  BY Parameters DEF Rows, RowOK
<1>2. \A s \in Statuses, n \in 0..MaxAttempts :
        [row EXCEPT !.status = s, !.hash = hash, !.reserved = TRUE, !.attempts = n] \in Rows
  BY DEF Rows
<1>3. b = [row EXCEPT !.status = "submitting", !.hash = hash, !.reserved = TRUE,
                      !.attempts = row.attempts + 1]
  BY DEF SubmittingRow
<1>4. b \in Rows
  <2>1. "submitting" \in Statuses
    BY StatusesUsed
  <2>. QED
    <3>1. [row EXCEPT !.status = "submitting", !.hash = hash, !.reserved = TRUE,
                      !.attempts = row.attempts + 1] \in Rows
      BY <1>1, <1>2, <2>1
    <3>. QED
      BY <1>3, <3>1
<1>5. b.status = "submitting" /\ b.lease = row.lease /\ b.hash = hash /\ b.reserved
  BY DEF SubmittingRow, Rows
<1>. HIDE DEF b
<1>6. RowOK(b)
  BY <1>5 DEF RowOK, Uncertain, Active, Unclaimed
<1>7. QED
  BY <1>4, <1>5, <1>6 DEF b

(* The note that a submission is made: the infohash is nobody else's, the  *)
(* torrent is not in the downloader, nor a relocation's.                   *)
LEMMA PrepareInv ==
  ASSUME IInv, NEW w \in Workers, Prepare(w)
  PROVE  IInv'
<1>. DEFINE j == worker[w].job
            d == DownloaderOf[j]
            hash == worker[w].hash
            u == db'
            V == worker'
            b == SubmittingRow(db.job[j], hash)
            key == TakenKey(db.key[d][hash], j)
<1>1. /\ OutsideUnchanged /\ worker[w].phase = "ready" /\ Holds(w, "fetching")
      /\ ~HeldElsewhere(db.key[d][hash], j) /\ ~DoneElsewhere(db.key[d][hash], j)
      /\ u = Submitting(db, j, hash) /\ hash \notin moving[d]
      /\ V = [worker EXCEPT ![w].phase = "sending", ![w].current = FALSE]
  BY DEF Prepare, Passes, Proceeds, Valid
<1>2. /\ j \in Jobs /\ hash \in Hashes /\ d \in Downloaders /\ db.job[j] \in Rows /\ db.key[d][hash] \in Keys
      /\ Inv(db, worker, flying, arrived, Came(arrived), moving) /\ WorkOK(worker) /\ LeaseOK(db, worker)
      /\ RoomOK(db, worker, flying, Came(arrived)) /\ FlyOK(db, flying, arrived, Came(arrived)) /\ ApartOK(db, moving)
      /\ TableOK(db) /\ Tabled(db) /\ RowOK(db.job[j]) /\ KeyOK(db)
      /\ db.job[j].lease = w /\ db.job[j].status = "fetching"
  BY <1>1, Parameters DEF IInv, Inv, WorkOK, TableOK, Tabled, Holds
<1>3. b \in Rows /\ RowOK(b) /\ b.status = "submitting" /\ b.lease = w /\ b.hash = hash
  BY <1>2, SubmittingRowOK
<1>4. key = [job |-> j, outcome |-> "busy"] /\ key \in Keys
  BY <1>1, <1>2 DEF TakenKey, HeldElsewhere, DoneElsewhere, Keys
<1>5. WrittenAs(db, u, j, hash, b, key)
  <2>. DEFINE X == [db.job EXCEPT ![j] = b]
              Y == [db.key EXCEPT ![d][hash] = key]
  <2>1. u = [db EXCEPT !.job = X, !.key = Y]
    BY <1>1 DEF Submitting
  <2>. HIDE DEF X, Y, u
  <2>2. u.job = X /\ u.key = Y /\ u.slot = db.slot /\ u = [job |-> u.job, key |-> u.key, slot |-> u.slot]
    BY <1>2, <2>1 DEF Tabled
  <2>. QED
    BY <2>2 DEF WrittenAs, X, Y
<1>6. /\ V[w].phase = "sending" /\ V[w].job = j /\ V[w].hash = hash
      /\ \A v \in Workers : v # w => V[v] = worker[v]
      /\ WorkOK(V)
  <2>. DEFINE x == [worker[w] EXCEPT !.phase = "sending", !.current = FALSE]
  <2>1. V = [worker EXCEPT ![w] = x]
    BY <1>1
  <2>2. /\ x \in [phase : Phases, job : Jobs \cup {NoJob}, hash : Hashes \cup {NoHash}, current : BOOLEAN]
        /\ x.phase = "sending" /\ x.job = j /\ x.hash = hash
    BY <1>2 DEF WorkOK, Phases
  <2>. HIDE DEF x, V
  <2>3. V \in [Workers -> [phase : Phases, job : Jobs \cup {NoJob}, hash : Hashes \cup {NoHash}, current : BOOLEAN]]
    BY <1>2, <2>1, <2>2 DEF WorkOK
  <2>4. \A v \in Workers : V[v] = IF v = w THEN x ELSE worker[v]
    BY <1>2, <2>1 DEF WorkOK
  <2>. QED
    BY <1>2, <2>2, <2>3, <2>4 DEF WorkOK
<1>. HIDE DEF u, V, b, key
<1>7. /\ Tabled(u) /\ u.job[j] = b
      /\ \A k \in Jobs : k # j => u.job[k] = db.job[k]
      /\ \A e \in Downloaders, g \in Hashes : u.key[e][g] = IF e = d /\ g = hash THEN key ELSE db.key[e][g]
  BY <1>2, <1>3, <1>4, <1>5, Written
<1>8. TableOK(u)
  <2>1. SlotOK(u)
    <3>1. u.slot = db.slot /\ SlotOK(db)
      BY <1>2, <1>5 DEF TableOK, WrittenAs
    <3>2. \A k \in Jobs : u.job[k].status \in Active <=> db.job[k].status \in Active
      BY <1>2, <1>3, <1>7 DEF Active, Uncertain
    <3>. QED
      BY <3>1, <3>2, SlotsSame
  <2>2. ASSUME NEW k \in Jobs, k # j, db.job[k].status \in Uncertain \cup {"submitted"}
        PROVE  u.key[DownloaderOf[k]][db.job[k].hash] = db.key[DownloaderOf[k]][db.job[k].hash]
    <3>1. db.job[k].hash \in Hashes /\ DownloaderOf[k] \in Downloaders
      BY <1>2, <2>2, Parameters DEF TableOK, RowOK
    <3>2. CASE DownloaderOf[k] # d \/ db.job[k].hash # hash
      BY <1>7, <3>1, <3>2
    <3>3. CASE DownloaderOf[k] = d /\ db.job[k].hash = hash
      <4>1. db.job[k].status = "submitted"
        BY <1>2, <2>2, <3>3, OneActive DEF Active
      <4>2. db.key[d][hash] = [job |-> k, outcome |-> "done"]
        BY <1>2, <3>3, <4>1 DEF KeyOK
      <4>. QED
        BY <1>1, <2>2, <4>2 DEF DoneElsewhere
    <3>. QED
      BY <3>2, <3>3
  <2>3. u.key[DownloaderOf[j]][u.job[j].hash] = [job |-> j, outcome |-> "busy"] /\ u.job[j].status # "submitted"
    BY <1>2, <1>3, <1>4, <1>7
  <2>. QED
    <3>1. RowOK(u.job[j])
      BY <1>3, <1>7
    <3>. QED
      BY <1>2, <1>7, <2>1, <2>2, <2>3, <3>1, RowStep
<1>9. LeaseOK(u, V)
  <2>1. ASSUME NEW k \in Jobs, NEW v \in Workers, u.job[k].lease = v
        PROVE  V[v].job = k /\ Matches(V[v].phase, u.job[k].status)
    <3>1. CASE k = j
      BY <1>3, <1>6, <1>7, <2>1, <3>1 DEF Matches
    <3>2. CASE k # j
      <4>1. db.job[k].lease = v /\ v # w
        BY <1>2, <1>7, <2>1, <3>2 DEF LeaseOK
      <4>. QED
        BY <1>2, <1>6, <1>7, <3>2, <4>1 DEF LeaseOK
    <3>. QED
      BY <3>1, <3>2
  <2>2. ASSUME NEW v \in Workers, V[v].phase \in {"sending", "sent", "check"}
        PROVE  /\ u.job[V[v].job].lease = v => u.job[V[v].job].hash = V[v].hash
               /\ V[v].phase \in {"sending", "sent"} => u.job[V[v].job].lease = v
    <3>1. CASE v = w
      BY <1>3, <1>6, <1>7, <3>1
    <3>2. CASE v # w
      <4>1. V[v] = worker[v] /\ worker[v].job \in Jobs
        BY <1>2, <1>6, <2>2, <3>2 DEF WorkOK
      <4>2. CASE worker[v].job = j
        BY <1>2, <1>3, <1>7, <2>2, <3>2, <4>1, <4>2 DEF LeaseOK
      <4>3. CASE worker[v].job # j
        BY <1>2, <1>7, <2>2, <4>1, <4>3 DEF LeaseOK
      <4>. QED
        BY <4>2, <4>3
    <3>. QED
      BY <3>1, <3>2
  <2>. QED
    BY <2>1, <2>2 DEF LeaseOK
<1>10. \A r \in flying \cup arrived : r.job \in Jobs /\ r.job # j
  BY <1>2 DEF FlyOK, Accounted, Requests, Uncertain
<1>11. RoomOK(u, V, flying, Came(arrived))
  <2>1. ASSUME NEW v \in Workers, V[v].phase \in {"ready", "sending"}
        PROVE  /\ u.job[V[v].job].lease = v => HasRoom(V[v].hash, DownloaderOf[V[v].job], Came(arrived))
               /\ V[v].phase = "sending" => \A r \in flying : r.job # V[v].job
    <3>1. CASE v = w
      BY <1>1, <1>2, <1>6, <1>10, <3>1 DEF RoomOK
    <3>2. CASE v # w
      <4>1. V[v] = worker[v] /\ worker[v].job \in Jobs
        BY <1>2, <1>6, <2>1, <3>2 DEF WorkOK
      <4>2. u.job[V[v].job].lease = v => db.job[worker[v].job].lease = v
        BY <1>3, <1>7, <3>2, <4>1
      <4>. QED
        BY <1>2, <2>1, <4>1, <4>2 DEF RoomOK
    <3>. QED
      BY <3>1, <3>2
  <2>. QED
    BY <2>1 DEF RoomOK
<1>12. FlyOK(u, flying, arrived, Came(arrived))
  BY <1>2, <1>7, <1>10 DEF FlyOK
<1>13. ApartOK(u, moving)
  <2>1. u.job[j].hash \notin moving[d]
    BY <1>1, <1>3, <1>7
  <2>2. \A k \in Jobs : k # j /\ u.job[k].status \in Uncertain => u.job[k].hash \notin moving[DownloaderOf[k]]
    BY <1>2, <1>7 DEF ApartOK
  <2>. QED
    BY <2>1, <2>2 DEF ApartOK
<1>14. Inv(u, V, flying, arrived, Came(arrived), moving)
  BY <1>6, <1>8, <1>9, <1>11, <1>12, <1>13 DEF Inv
<1>. QED
  BY <1>1, <1>14, OutsideInv DEF Outside, u, V

(* The request goes out under the lease of who made the note.              *)
LEMMA SendInv ==
  ASSUME IInv, NEW w \in Workers, Send(w)
  PROVE  IInv'
<1>. DEFINE j == worker[w].job
            r == [job |-> worker[w].job, hash |-> worker[w].hash]
            V == worker'
<1>1. /\ worker[w].phase = "sending" /\ flying' = flying \cup {r}
      /\ V = [worker EXCEPT ![w].phase = "sent"] /\ UNCHANGED <<db, source, moving, qb, arrived>>
  BY DEF Send, Sent
<1>2. /\ j \in Jobs /\ worker[w].hash \in Hashes /\ RowOK(db.job[j])
      /\ Inv(db, worker, flying, arrived, Came(arrived), moving) /\ WorkOK(worker) /\ LeaseOK(db, worker)
      /\ RoomOK(db, worker, flying, Came(arrived)) /\ FlyOK(db, flying, arrived, Came(arrived)) /\ ApartOK(db, moving)
  BY <1>1 DEF IInv, Inv, WorkOK, TableOK
<1>3. db.job[j].lease = w /\ db.job[j].hash = worker[w].hash /\ db.job[j].status = "submitting"
  BY <1>1, <1>2 DEF LeaseOK, Matches
<1>4. /\ V[w].phase = "sent" /\ V[w].job = j /\ V[w].hash = worker[w].hash
      /\ \A v \in Workers : v # w => V[v] = worker[v]
      /\ WorkOK(V)
  <2>. DEFINE x == [worker[w] EXCEPT !.phase = "sent"]
  <2>1. V = [worker EXCEPT ![w] = x]
    BY <1>1
  <2>2. /\ x \in [phase : Phases, job : Jobs \cup {NoJob}, hash : Hashes \cup {NoHash}, current : BOOLEAN]
        /\ x.phase = "sent" /\ x.job = j /\ x.hash = worker[w].hash
    BY <1>2 DEF WorkOK, Phases
  <2>. HIDE DEF x, V
  <2>3. V \in [Workers -> [phase : Phases, job : Jobs \cup {NoJob}, hash : Hashes \cup {NoHash}, current : BOOLEAN]]
    BY <1>2, <2>1, <2>2 DEF WorkOK
  <2>4. \A v \in Workers : V[v] = IF v = w THEN x ELSE worker[v]
    BY <1>2, <2>1 DEF WorkOK
  <2>. QED
    BY <1>2, <2>2, <2>3, <2>4 DEF WorkOK
<1>. HIDE DEF V
<1>5. LeaseOK(db, V)
  <2>1. \A v \in Workers : /\ V[v].job = worker[v].job /\ V[v].hash = worker[v].hash
                           /\ V[v].phase = worker[v].phase \/ (v = w /\ V[v].phase = "sent")
    BY <1>4
  <2>. QED
    BY <1>1, <1>2, <2>1 DEF LeaseOK, Matches
<1>6. RoomOK(db, V, flying', Came(arrived))
  <2>1. ASSUME NEW v \in Workers, V[v].phase \in {"ready", "sending"}
        PROVE  /\ db.job[V[v].job].lease = v => HasRoom(V[v].hash, DownloaderOf[V[v].job], Came(arrived))
               /\ V[v].phase = "sending" => \A q \in flying' : q.job # V[v].job
    <3>1. v # w /\ V[v] = worker[v]
      BY <1>4, <2>1
    <3>2. V[v].phase = "sending" => worker[v].job # j
      BY <1>2, <1>3, <3>1 DEF LeaseOK
    <3>. QED
      BY <1>1, <1>2, <2>1, <3>1, <3>2 DEF RoomOK
  <2>. QED
    BY <2>1 DEF RoomOK
<1>7. FlyOK(db, flying', arrived, Came(arrived))
  <2>1. r \in Requests /\ r.job = j /\ r.hash = worker[w].hash
    BY <1>2 DEF Requests
  <2>2. HasRoom(r.hash, DownloaderOf[j], Came(arrived))
    BY <1>1, <1>2, <1>3, <2>1 DEF RoomOK
  <2>3. db.job[j].status \in Uncertain
    BY <1>3 DEF Uncertain
  <2>. HIDE DEF r
  <2>. QED
    BY <1>1, <1>2, <1>3, <2>1, <2>2, <2>3 DEF FlyOK
<1>8. Inv(db, V, flying', arrived, Came(arrived), moving)
  BY <1>2, <1>4, <1>5, <1>6, <1>7 DEF Inv
<1>. QED
  BY <1>1, <1>8 DEF IInv, V


-----------------------------------------------------------------------------
(* The steps of people.                                                    *)

(* Versions of claims change, nothing else of a worker.                    *)
LEMMA VersionedInv ==
  ASSUME NEW t, NEW F, NEW A, NEW Q, NEW M, NEW s, Inv(t, worker, F, A, Q, M), Versioned(s)
  PROVE  Inv(t, worker', F, A, Q, M)
<1>. DEFINE V == worker'
<1>1. TableOK(t) /\ WorkOK(worker) /\ LeaseOK(t, worker) /\ FlyOK(t, F, A, Q)
  BY DEF Inv
<1>2. /\ V = [w \in Workers |-> V[w]]
      /\ \A w \in Workers : V[w] \in {worker[w], [worker[w] EXCEPT !.current = FALSE]}
  BY DEF Versioned
<1>3. ASSUME NEW w \in Workers
      PROVE  /\ V[w] \in [phase : Phases, job : Jobs \cup {NoJob}, hash : Hashes \cup {NoHash}, current : BOOLEAN]
             /\ V[w].phase = worker[w].phase /\ V[w].job = worker[w].job /\ V[w].hash = worker[w].hash
  <2>1. worker[w] \in [phase : Phases, job : Jobs \cup {NoJob}, hash : Hashes \cup {NoHash}, current : BOOLEAN]
    BY <1>1 DEF WorkOK
  <2>. DEFINE x == [worker[w] EXCEPT !.current = FALSE]
  <2>2. /\ x \in [phase : Phases, job : Jobs \cup {NoJob}, hash : Hashes \cup {NoHash}, current : BOOLEAN]
        /\ x.phase = worker[w].phase /\ x.job = worker[w].job /\ x.hash = worker[w].hash
    BY <2>1
  <2>. HIDE DEF x, V
  <2>. QED
    BY <1>2, <2>1, <2>2 DEF x
<1>. HIDE DEF V
<1>4. WorkOK(V)
  BY <1>1, <1>2, <1>3 DEF WorkOK
<1>5. Kept(t, t)
  BY <1>1 DEF Kept, KeptRow, TableOK
<1>6. Held(t, t, worker, V)
  BY <1>1, <1>3 DEF Held, LeaseOK, Matches, WorkOK
<1>7. Inv(t, V, F, A, Q, M)
  BY <1>1, <1>4, <1>5, <1>6, KeptInv
<1>. QED
  BY <1>7 DEF V

LEMMA SourceInv ==
  ASSUME IInv, NEW s \in Sources,
         EditSource(s) \/ \E state \in {"on", "off", "archived"} : SetSource(s, state)
  PROVE  IInv'
<1>1. /\ db' = Synchronized(source', db) /\ Versioned(s)
      /\ source' \in [Sources -> {"on", "off", "archived"}]
      /\ UNCHANGED <<moving, qb, flying, arrived>>
  <2>1. source \in [Sources -> {"on", "off", "archived"}]
    BY DEF IInv
  <2>2. CASE EditSource(s)
    BY <2>1, <2>2 DEF EditSource, OutsideUnchanged
  <2>3. CASE \E state \in {"on", "off", "archived"} : SetSource(s, state)
    BY <2>1, <2>3 DEF SetSource
  <2>. QED
    BY <2>2, <2>3
<1>2. TableOK(db) /\ Inv(db, worker, flying, arrived, Came(arrived), moving)
  BY DEF IInv, Inv
<1>. DEFINE t == Synchronized(source', db)
<1>3. Quiet(db, t, Workers)
  BY <1>2, SynchronizedQuiet
<1>4. Inv(t, worker, flying, arrived, Came(arrived), moving)
  BY <1>2, <1>3, QuietInv
<1>5. Inv(t, worker', flying, arrived, Came(arrived), moving)
  BY <1>1, <1>4, VersionedInv
<1>. HIDE DEF t
<1>. QED
  BY <1>1, <1>5 DEF IInv, t

(* Only the row changes; it has no lease, and nothing was submitted for it.*)
LEMMA FreshInv ==
  ASSUME IInv, NEW j \in Jobs, db.job[j].status = "none", db' = [db EXCEPT !.job[j].status = "queued"],
         worker' = worker, OutsideUnchanged
  PROVE  IInv'
<1>. DEFINE b == [db.job[j] EXCEPT !.status = "queued"]
            u == db'
<1>1. /\ Inv(db, worker, flying, arrived, Came(arrived), moving) /\ TableOK(db) /\ Tabled(db) /\ RowOK(db.job[j])
      /\ db.job[j] \in Rows /\ WorkOK(worker) /\ LeaseOK(db, worker) /\ FlyOK(db, flying, arrived, Came(arrived))
      /\ "none" \notin Workers
  BY Parameters DEF IInv, Inv, TableOK, Tabled
<1>2. db.job[j].lease = "none"
  BY <1>1 DEF RowOK, Active, Uncertain
<1>3. /\ b \in Rows /\ b.status = "queued" /\ b.lease = "none" /\ b.attempts = db.job[j].attempts
  <2>1. "queued" \in Statuses
    BY StatusesUsed
  <2>. QED
    BY <1>1, <1>2, <2>1 DEF Rows
<1>4. RowOK(b)
  <2>. HIDE DEF b
  <2>. QED
    BY <1>1, <1>3 DEF RowOK, Uncertain, Active, Unclaimed
<1>5. /\ Tabled(u) /\ u.key = db.key /\ u.slot = db.slot /\ u.job[j] = b
      /\ \A k \in Jobs : k # j => u.job[k] = db.job[k]
  <2>. DEFINE X == [db.job EXCEPT ![j] = b]
  <2>1. u = [db EXCEPT !.job = X]
    OBVIOUS
  <2>. HIDE DEF u, b
  <2>2. X \in [Jobs -> Rows] /\ X[j] = b /\ \A k \in Jobs : k # j => X[k] = db.job[k]
    BY <1>1, <1>3 DEF Tabled
  <2>. HIDE DEF X
  <2>. QED
    BY <1>1, <2>1, <2>2 DEF Tabled
<1>. HIDE DEF u, b
<1>6. SlotOK(u)
  <2>1. \A k \in Jobs : u.job[k].status \in Active <=> db.job[k].status \in Active
    BY <1>3, <1>5 DEF Active, Uncertain
  <2>. QED
    BY <1>1, <1>5, <2>1, SlotsSame DEF TableOK
<1>7. u.job[j].status \notin Uncertain /\ u.job[j].status # "submitted"
  BY <1>3, <1>5 DEF Uncertain
<1>8. TableOK(u)
  BY <1>1, <1>4, <1>5, <1>6, <1>7, RowStep
<1>9. \A r \in flying \cup arrived : r.job # j
  BY <1>1 DEF FlyOK, Accounted, Uncertain
<1>10. RowLoosened(db, u, worker, worker, flying, arrived, j)
  BY <1>1, <1>2, <1>3, <1>5, <1>7, <1>9 DEF RowLoosened
<1>11. Inv(u, worker, flying, arrived, Came(arrived), moving)
  BY <1>1, <1>8, <1>10, LoosenRow
<1>. QED
  BY <1>11, OutsideInv DEF Outside, u

LEMMA JobActionInv ==
  ASSUME IInv, NEW j \in Jobs, Cancel(j) \/ Reconcile(j)
  PROVE  IInv'
<1>1. /\ Inv(db, worker, flying, arrived, Came(arrived), moving) /\ TableOK(db) /\ RowOK(db.job[j])
      /\ FlyOK(db, flying, arrived, Came(arrived)) /\ {"none", "expired"} \cap Workers = {}
  BY Parameters DEF IInv, Inv, TableOK
<1>2. CASE Cancel(j)
  <2>1. /\ db' = Finished(db, j, "cancelled", TRUE) /\ worker' = worker /\ OutsideUnchanged
        /\ db.job[j].status \in Unclaimed \cup {"held", "fetching", "failed"}
    BY <1>2 DEF Cancel, JobAction, Cancellable
  <2>2. MayFinish(db.job[j], "cancelled") /\ Settled("cancelled", flying, arrived, j)
    BY <1>1, <2>1 DEF MayFinish, Settled, FlyOK, Accounted, Unclaimed, Uncertain
  <2>3. Ended(db, Finished(db, j, "cancelled", TRUE), j, "cancelled", TRUE)
    BY <1>1, <2>2, FinishedEnded
  <2>4. db.job[j].status # "submitting"
    BY <2>1 DEF Unclaimed
  <2>5. Inv(Finished(db, j, "cancelled", TRUE), worker, flying, arrived, Came(arrived), moving)
    BY <1>1, <2>2, <2>3, <2>4, OthersEnd
  <2>. QED
    BY <2>1, <2>5, OutsideInv DEF Outside
<1>3. CASE Reconcile(j)
  <2>1. /\ db' = Finished(db, j, "reconciling", FALSE) /\ worker' = worker /\ OutsideUnchanged
        /\ db.job[j].status \in Uncertain /\ db.job[j].lease \in {"none", "expired"}
    BY <1>3 DEF Reconcile, JobAction
  <2>2. MayFinish(db.job[j], "reconciling") /\ Settled("reconciling", flying, arrived, j)
    BY <1>1, <2>1 DEF MayFinish, Settled
  <2>3. Ended(db, Finished(db, j, "reconciling", FALSE), j, "reconciling", FALSE)
    BY <1>1, <2>2, FinishedEnded
  <2>4. db.job[j].lease \notin Workers
    BY <1>1, <2>1
  <2>5. Inv(Finished(db, j, "reconciling", FALSE), worker, flying, arrived, Came(arrived), moving)
    BY <1>1, <2>2, <2>3, <2>4, OthersEnd
  <2>. QED
    BY <2>1, <2>5, OutsideInv DEF Outside
<1>. QED
  BY <1>2, <1>3

(* A job that failed for good is fetched again, with all its attempts: the *)
(* attempts may as well be reset first.                                    *)
LEMMA RetryRow ==
  ASSUME NEW row \in Rows
  PROVE  FinishedRow([row EXCEPT !.attempts = 0], "queued", TRUE)
           = [FinishedRow(row, "queued", TRUE) EXCEPT !.attempts = 0]
<1>. DEFINE reset == [row EXCEPT !.attempts = 0]
            reserved == row.reserved /\ ~(TRUE /\ "queued" \notin Uncertain)
            a == [reset EXCEPT !.status = "queued", !.lease = "none",
                               !.attempts = 0, !.reserved = reserved]
            b == [row EXCEPT !.status = "queued", !.lease = "none",
                             !.attempts = row.attempts, !.reserved = reserved]
            c == [b EXCEPT !.attempts = 0]
<1>1. /\ reset \in Rows /\ reset.attempts = 0 /\ reset.reserved = row.reserved
      /\ reset.hash = row.hash
      /\ Attempts(row, "queued") = row.attempts /\ Attempts(reset, "queued") = 0
  BY Parameters DEF Attempts, Rows
<1>2. FinishedRow(reset, "queued", TRUE) = a
  BY <1>1 DEF FinishedRow
<1>3. FinishedRow(row, "queued", TRUE) = b
  BY <1>1 DEF FinishedRow
<1>4. reserved \in BOOLEAN /\ "queued" \in Statuses /\ 0 \in 0..MaxAttempts /\ "none" \in Leases
  BY Parameters, StatusesUsed DEF Leases
<1>. HIDE DEF reserved, reset
<1>5. /\ a \in Rows /\ a.status = "queued" /\ a.lease = "none" /\ a.hash = row.hash
      /\ a.attempts = 0 /\ a.reserved = reserved
  BY <1>1, <1>4 DEF Rows
<1>6. /\ b \in Rows /\ b.status = "queued" /\ b.lease = "none" /\ b.hash = row.hash
      /\ b.reserved = reserved
  BY <1>4 DEF Rows
<1>. HIDE DEF a, b
<1>7. /\ c \in Rows /\ c.status = "queued" /\ c.lease = "none" /\ c.hash = row.hash
      /\ c.attempts = 0 /\ c.reserved = reserved
  BY <1>4, <1>6 DEF Rows
<1>. HIDE DEF c
<1>8. a = c
  BY <1>5, <1>7 DEF Rows
<1>. QED
  BY <1>2, <1>3, <1>8 DEF c, reset

LEMMA RetryInv ==
  ASSUME IInv, NEW j \in Jobs, Retry(j)
  PROVE  IInv'
<1>. DEFINE c == [db.job[j] EXCEPT !.attempts = 0]
            X == [db.job EXCEPT ![j] = c]
            t == [db EXCEPT !.job = X]
<1>1. /\ db' = [Finished(db, j, "queued", TRUE) EXCEPT !.job[j].attempts = 0]
      /\ worker' = worker /\ OutsideUnchanged
      /\ db.job[j].status \in {"failed", "waiting", "retry_wait"}
  BY DEF Retry, JobAction
<1>2. /\ Inv(db, worker, flying, arrived, Came(arrived), moving) /\ TableOK(db) /\ Tabled(db)
      /\ RowOK(db.job[j]) /\ db.job[j] \in Rows /\ WorkOK(worker) /\ LeaseOK(db, worker)
      /\ FlyOK(db, flying, arrived, Came(arrived)) /\ MaxAttempts \in Nat \ {0}
  BY Parameters DEF IInv, Inv, TableOK, Tabled
<1>3. /\ c \in Rows /\ KeptRow(db.job[j], c) /\ c.attempts = 0 /\ c.lease = db.job[j].lease
      /\ c.status = db.job[j].status
  BY <1>2 DEF Rows, KeptRow
<1>. HIDE DEF c
<1>4. X \in [Jobs -> Rows] /\ X[j] = c /\ \A k \in Jobs : k # j => X[k] = db.job[k]
  BY <1>2, <1>3 DEF Tabled
<1>5. t = [job |-> X, key |-> db.key, slot |-> db.slot]
  <2>. HIDE DEF X
  <2>. QED
    BY <1>2 DEF Tabled
<1>. HIDE DEF t
<1>6. Kept(db, t)
  <2>. HIDE DEF X
  <2>. QED
    BY <1>2, <1>3, <1>4, <1>5 DEF Kept, Tabled, KeptRow
<1>7. Held(db, t, worker, worker)
  <2>1. \A k \in Jobs : t.job[k].lease = db.job[k].lease
    BY <1>3, <1>4, <1>5
  <2>. QED
    BY <1>2, <2>1 DEF Held, LeaseOK, Matches, WorkOK
<1>8. Inv(t, worker, flying, arrived, Came(arrived), moving)
  BY <1>2, <1>6, <1>7, KeptInv
<1>9. /\ MayFinish(t.job[j], "queued") /\ Settled("queued", flying, arrived, j) /\ TableOK(t)
      /\ t.job[j].status # "submitting"
  <2>1. t.job[j] = c
    BY <1>4, <1>5
  <2>2. Settled("queued", flying, arrived, j)
    BY <1>1, <1>2 DEF Settled, FlyOK, Accounted, Uncertain
  <2>. QED
    BY <1>1, <1>2, <1>3, <1>8, <2>1, <2>2 DEF MayFinish, Inv
<1>10. Inv(Finished(t, j, "queued", TRUE), worker, flying, arrived, Came(arrived), moving)
  <2>1. Ended(t, Finished(t, j, "queued", TRUE), j, "queued", TRUE)
    BY <1>9, FinishedEnded
  <2>. QED
    BY <1>8, <1>9, <2>1, OthersEnd
<1>11. db' = Finished(t, j, "queued", TRUE)
  <2>. DEFINE b == FinishedRow(db.job[j], "queued", TRUE)
              K == [d \in Downloaders |-> [h \in Hashes |-> FinishedKey(db.key[d][h], j, "queued", TRUE)]]
              S == [d \in Downloaders |->
                     IF db.slot[d] = j /\ "queued" \notin Uncertain THEN NoJob ELSE db.slot[d]]
              Y == [db.job EXCEPT ![j] = b]
              Z == [db.job EXCEPT ![j] = [b EXCEPT !.attempts = 0]]
  <2>1. Finished(db, j, "queued", TRUE) = [job |-> Y, key |-> K, slot |-> S]
    BY DEF Finished
  <2>2. db' = [job |-> [Y EXCEPT ![j].attempts = 0], key |-> K, slot |-> S]
    <3>. DEFINE f == Finished(db, j, "queued", TRUE)
                R == [Y EXCEPT ![j].attempts = 0]
    <3>. HIDE DEF Y, K, S
    <3>1. f = [job |-> Y, key |-> K, slot |-> S]
      BY <2>1
    <3>2. db' = [f EXCEPT !.job = [f.job EXCEPT ![j].attempts = 0]]
      BY <1>1
    <3>. HIDE DEF f
    <3>3. db' = [f EXCEPT !.job = R]
      BY <3>1, <3>2
    <3>. HIDE DEF R
    <3>4. [f EXCEPT !.job = R] = [job |-> R, key |-> K, slot |-> S]
      BY <3>1
    <3>. QED
      BY <3>3, <3>4 DEF R
  <2>3. [Y EXCEPT ![j].attempts = 0] = Z
    <3>. HIDE DEF b
    <3>. QED
      BY <1>2 DEF Tabled
  <2>4. FinishedRow(c, "queued", TRUE) = [b EXCEPT !.attempts = 0]
    BY <1>2, RetryRow DEF c
  <2>5. [X EXCEPT ![j] = FinishedRow(c, "queued", TRUE)] = Z
    <3>. HIDE DEF b
    <3>. QED
      BY <1>2, <2>4 DEF Tabled
  <2>6. Finished(t, j, "queued", TRUE) = [job |-> Z, key |-> K, slot |-> S]
    <3>1. t.job = X /\ t.key = db.key /\ t.slot = db.slot /\ X[j] = c
      BY <1>4, <1>5
    <3>. HIDE DEF X, Z
    <3>. QED
      BY <2>5, <3>1 DEF Finished
  <2>. HIDE DEF Y, Z, K, S
  <2>. QED
    BY <2>2, <2>3, <2>6
<1>. QED
  BY <1>1, <1>10, <1>11, OutsideInv DEF Outside


(* Requests that are there no more give room.                              *)
LEMMA CameFewer ==
  ASSUME NEW A, NEW B, B \subseteq A, NEW Q, ThereOK(A, Q), FullOK(Came(A))
  PROVE  /\ FullOK(Came(B))
         /\ \A e \in Downloaders, h \in Hashes : HasRoom(h, e, Came(A)) => HasRoom(h, e, Came(B))
         /\ \A e \in Downloaders : Came(B)[e] \subseteq Came(A)[e]
<1>1. ASSUME NEW e \in Downloaders
      PROVE  /\ Came(B)[e] \subseteq Came(A)[e]
             /\ IsFiniteSet(Came(B)[e]) /\ Cardinality(Came(B)[e]) <= Cardinality(Came(A)[e])
             /\ Cardinality(Came(A)[e]) \in Nat /\ Cardinality(Came(B)[e]) \in Nat /\ Capacity[e] \in Nat
             /\ Cardinality(Came(A)[e]) <= Capacity[e]
  <2>1. Came(B)[e] \in SUBSET Came(A)[e]
    BY DEF Came
  <2>2. IsFiniteSet(Came(A)[e]) /\ Cardinality(Came(A)[e]) <= Capacity[e]
    BY DEF FullOK
  <2>3. IsFiniteSet(Came(B)[e]) /\ Cardinality(Came(B)[e]) <= Cardinality(Came(A)[e])
    BY <2>1, <2>2, FS_Subset
  <2>. QED
    BY <2>1, <2>2, <2>3, FS_CardinalityType, Parameters
<1>. QED
  BY <1>1 DEF FullOK, HasRoom

LEMMA RemoveInv ==
  ASSUME IInv, NEW d \in Downloaders, NEW hash \in Hashes, RemoveTorrent(d, hash)
  PROVE  IInv'
<1>1. /\ qb' = [qb EXCEPT ![d] = qb[d] \ {hash}]
      /\ arrived' = {r \in arrived : ~(DownloaderOf[r.job] = d /\ r.hash = hash)}
      /\ UNCHANGED <<db, source, worker, moving, flying>>
  BY DEF RemoveTorrent
<1>. DEFINE C == Came(arrived)
            D == Came(arrived')
<1>2. /\ qb \in [Downloaders -> SUBSET Hashes] /\ ThereOK(arrived, qb) /\ FullOK(C) /\ WorkOK(worker)
      /\ RoomOK(db, worker, flying, C) /\ FlyOK(db, flying, arrived, C)
  BY DEF IInv, Inv
<1>3. arrived' \subseteq arrived
  BY <1>1
<1>4. /\ FullOK(D)
      /\ \A e \in Downloaders, h \in Hashes : HasRoom(h, e, C) => HasRoom(h, e, D)
      /\ \A e \in Downloaders : D[e] \subseteq C[e]
  BY <1>2, <1>3, CameFewer
<1>5. qb' \in [Downloaders -> SUBSET Hashes]
  BY <1>1, <1>2
<1>6. ThereOK(arrived', qb')
  <2>1. ASSUME NEW e \in Downloaders PROVE IsFiniteSet(qb'[e]) /\ D[e] \subseteq qb'[e]
    <3>1. IsFiniteSet(qb[e]) /\ qb'[e] \in SUBSET qb[e] /\ D[e] \subseteq qb[e]
      BY <1>1, <1>2, <1>4 DEF ThereOK
    <3>2. IsFiniteSet(qb'[e])
      BY <3>1, FS_Subset
    <3>3. hash \notin D[d]
      BY <1>1 DEF Came
    <3>. HIDE DEF D
    <3>. QED
      BY <1>1, <1>2, <3>1, <3>2, <3>3
  <2>. QED
    BY <2>1 DEF ThereOK
<1>. HIDE DEF C, D
<1>7. RoomOK(db, worker, flying, D)
  <2>1. \A w \in Workers : worker[w].phase \in {"ready", "sending"} =>
          DownloaderOf[worker[w].job] \in Downloaders /\ worker[w].hash \in Hashes
    BY <1>2, Parameters DEF WorkOK
  <2>. QED
    BY <1>2, <1>4, <2>1 DEF RoomOK
<1>8. FlyOK(db, flying, arrived', D)
  <2>1. \A r \in flying : r.job \in Jobs /\ DownloaderOf[r.job] \in Downloaders /\ r.hash \in Hashes
    BY <1>2, Parameters DEF FlyOK, Requests
  <2>. QED
    BY <1>2, <1>3, <1>4, <2>1 DEF FlyOK
<1>9. Inv(db, worker, flying, arrived', D, moving)
  BY <1>7, <1>8 DEF IInv, Inv
<1>. QED
  BY <1>1, <1>4, <1>5, <1>6, <1>9 DEF IInv, D

LEMMA MovesInv ==
  ASSUME IInv, NEW d \in Downloaders, NEW hash \in Hashes, MoveStarts(d, hash) \/ MoveEnds(d, hash)
  PROVE  IInv'
<1>1. moving \in [Downloaders -> SUBSET Hashes] /\ ApartOK(db, moving) /\ TableOK(db)
  BY DEF IInv, Inv
<1>2. UNCHANGED <<db, source, worker, qb, flying, arrived>>
  BY DEF MoveStarts, MoveEnds
<1>3. moving' \in [Downloaders -> SUBSET Hashes] /\ ApartOK(db, moving')
  <2>1. CASE MoveStarts(d, hash)
    <3>1. moving' = [moving EXCEPT ![d] = moving[d] \cup {hash}] /\ ~RssActive(d, hash)
      BY <2>1 DEF MoveStarts
    <3>2. ASSUME NEW j \in Jobs, db.job[j].status \in Uncertain
          PROVE  db.job[j].hash \notin moving'[DownloaderOf[j]]
      <4>1. DownloaderOf[j] = d => db.job[j].hash # hash
        BY <3>1, <3>2 DEF RssActive, Active
      <4>. QED
        BY <1>1, <3>1, <3>2, <4>1, Parameters DEF ApartOK
    <3>. QED
      BY <1>1, <3>1, <3>2 DEF ApartOK
  <2>2. CASE MoveEnds(d, hash)
    <3>1. moving' = [moving EXCEPT ![d] = moving[d] \ {hash}]
      BY <2>2 DEF MoveEnds
    <3>2. \A e \in Downloaders : moving'[e] \subseteq moving[e]
      BY <1>1, <3>1
    <3>. QED
      BY <1>1, <3>1, <3>2, Parameters DEF ApartOK
  <2>. QED
    BY <2>1, <2>2
<1>. QED
  BY <1>2, <1>3 DEF IInv, Inv

LEMMA DeletedRowOK ==
  /\ DeletedRow \in Rows /\ RowOK(DeletedRow) /\ DeletedRow.status = "deleted" /\ DeletedRow.lease = "none"
<1>1. NewRow = [status |-> "none", lease |-> "none", hash |-> NoHash, reserved |-> FALSE,
                attempts |-> 0]
  BY DEF NewRow
<1>2. NewRow \in Rows
  BY <1>1, StatusesUsed, Parameters DEF Rows, Leases
<1>3. /\ DeletedRow.status = "deleted" /\ DeletedRow.lease = "none"
      /\ DeletedRow \in Rows
  <2>1. /\ NewRow.lease = "none" /\ "deleted" \in Statuses
    BY <1>1, StatusesUsed
  <2>. HIDE DEF NewRow
  <2>. QED
    BY <1>2, <2>1 DEF DeletedRow, Rows
<1>4. RowOK(DeletedRow)
  BY <1>3 DEF RowOK, Uncertain, Active, Unclaimed
<1>. QED
  BY <1>3, <1>4

(* A job a month old goes, its keys are nobody's.                          *)
LEMMA CleanupInv ==
  ASSUME IInv, NEW j \in Jobs, Cleanup(j)
  PROVE  IInv'
<1>. DEFINE u == db'
            Cleaned(key) == IF key.job # j THEN key
                            ELSE IF key.outcome = "free" THEN NoKey ELSE [key EXCEPT !.job = NoJob]
            X == [db.job EXCEPT ![j] = DeletedRow]
            Y == [d \in Downloaders |-> [h \in Hashes |-> Cleaned(db.key[d][h])]]
<1>1. /\ u = [db EXCEPT !.job = X, !.key = Y]
      /\ UNCHANGED <<source, worker, moving, qb, flying, arrived>>
      /\ db.job[j].status \in Final
  BY DEF Cleanup
<1>2. /\ Inv(db, worker, flying, arrived, Came(arrived), moving) /\ TableOK(db) /\ Tabled(db) /\ RowOK(db.job[j])
      /\ WorkOK(worker) /\ LeaseOK(db, worker) /\ FlyOK(db, flying, arrived, Came(arrived)) /\ KeyOK(db)
      /\ "none" \notin Workers
  BY Parameters DEF IInv, Inv, TableOK
<1>3. X \in [Jobs -> Rows] /\ X[j] = DeletedRow /\ \A k \in Jobs : k # j => X[k] = db.job[k]
  BY <1>2, DeletedRowOK DEF Tabled
<1>4. Y \in [Downloaders -> [Hashes -> Keys]] /\ \A d \in Downloaders, h \in Hashes : Y[d][h] = Cleaned(db.key[d][h])
  <2>1. \A key \in Keys : Cleaned(key) \in Keys
    BY DEF Keys, NoKey
  <2>2. \A d \in Downloaders, h \in Hashes : db.key[d][h] \in Keys
    BY <1>2 DEF Tabled
  <2>. HIDE DEF Cleaned
  <2>. QED
    BY <2>1, <2>2
<1>. HIDE DEF u, X, Y
<1>5. u.job = X /\ u.key = Y /\ u.slot = db.slot /\ Tabled(u)
  BY <1>1, <1>2, <1>3, <1>4 DEF Tabled
<1>6. SlotOK(u)
  <2>1. \A k \in Jobs : u.job[k].status \in Active <=> db.job[k].status \in Active
    BY <1>1, <1>3, <1>5, DeletedRowOK DEF Active, Uncertain, Final, Success
  <2>. QED
    BY <1>2, <1>5, <2>1, SlotsSame DEF TableOK
<1>7. ASSUME NEW k \in Jobs, k # j, db.job[k].status \in Uncertain \cup {"submitted"}
      PROVE  u.key[DownloaderOf[k]][db.job[k].hash] = db.key[DownloaderOf[k]][db.job[k].hash]
  <2>1. db.job[k].hash \in Hashes /\ DownloaderOf[k] \in Downloaders
    BY <1>2, <1>7, Parameters DEF TableOK, RowOK
  <2>2. db.key[DownloaderOf[k]][db.job[k].hash] \in
          {[job |-> k, outcome |-> "busy"], [job |-> k, outcome |-> "done"]}
    BY <1>2, <1>7 DEF KeyOK
  <2>3. db.key[DownloaderOf[k]][db.job[k].hash].job # j
    BY <1>7, <2>2
  <2>. QED
    BY <1>4, <1>5, <2>1, <2>3
<1>8. /\ u.job[j].status \notin Uncertain /\ u.job[j].status # "submitted" /\ RowOK(u.job[j])
      /\ u.job[j].lease = "none"
      /\ \A k \in Jobs : k # j => u.job[k] = db.job[k]
  BY <1>3, <1>5, DeletedRowOK DEF Uncertain
<1>9. TableOK(u)
  BY <1>2, <1>5, <1>6, <1>7, <1>8, RowStep
<1>10. /\ \A r \in flying : r.job # j
       /\ u.job[j].status = "deleted"
  BY <1>1, <1>2, <1>3, <1>5, DeletedRowOK DEF FlyOK, Uncertain, Final, Success
<1>11. db.job[j].lease = "none"
  BY <1>1, <1>2 DEF RowOK, Active, Uncertain, Final, Success
<1>12. RowLoosened(db, u, worker, worker, flying, arrived, j)
  BY <1>2, <1>8, <1>10, <1>11 DEF RowLoosened, Follows
<1>13. Inv(u, worker, flying, arrived, Came(arrived), moving)
  BY <1>2, <1>9, <1>12, LoosenRow
<1>. QED
  BY <1>1, <1>13 DEF IInv, u

-----------------------------------------------------------------------------
(* The steps of the downloader, the clock and the process.                 *)

(* The torrent that arrives is waited for; another that is on its way, or  *)
(* about to be, is not on this downloader.                                 *)
LEMMA ArrivesInv ==
  ASSUME IInv, NEW r \in flying, Arrives(r)
  PROVE  IInv'
<1>. DEFINE d == DownloaderOf[r.job]
            C == Came(arrived)
            D == Came(arrived')
<1>1. /\ flying' = flying \ {r} /\ qb' = [qb EXCEPT ![d] = qb[d] \cup {r.hash}]
      /\ arrived' = arrived \cup {r} /\ UNCHANGED <<db, source, worker, moving>>
  BY DEF Arrives
<1>2. /\ qb \in [Downloaders -> SUBSET Hashes] /\ ThereOK(arrived, qb) /\ FullOK(C)
      /\ WorkOK(worker) /\ TableOK(db) /\ LeaseOK(db, worker)
      /\ RoomOK(db, worker, flying, C) /\ FlyOK(db, flying, arrived, C)
  BY DEF IInv, Inv
<1>3. /\ r.job \in Jobs /\ r.hash \in Hashes /\ d \in Downloaders
      /\ db.job[r.job].status \in Uncertain /\ db.job[r.job].hash = r.hash
  BY <1>2, Parameters DEF FlyOK, Requests
<1>4. qb' \in [Downloaders -> SUBSET Hashes]
  BY <1>1, <1>2, <1>3
<1>5. /\ \A e \in Downloaders : e # d => D[e] = C[e]
      /\ D[d] = C[d] \cup {r.hash}
  BY <1>1, <1>3 DEF Came
<1>. HIDE DEF C, D
<1>6. /\ FullOK(D)
      /\ \A h : \A e \in Downloaders : e # d /\ HasRoom(h, e, C) => HasRoom(h, e, D)
  <2>1. HasRoom(r.hash, d, C) /\ IsFiniteSet(C[d])
    BY <1>2, <1>3 DEF FlyOK, FullOK
  <2>2. D[d] = C[d] \cup {r.hash}
    BY <1>5
  <2>. HIDE DEF d
  <2>3. IsFiniteSet(D[d]) /\ Cardinality(D[d]) = Cardinality(C[d]) + 1
    <3>1. r.hash \notin C[d]
      BY <2>1 DEF HasRoom
    <3>. QED
      BY <2>1, <2>2, <3>1, FS_AddElement
  <2>4. Cardinality(C[d]) \in Nat /\ Capacity[d] \in Nat
    BY <1>3, <2>1, FS_CardinalityType, Parameters
  <2>5. Cardinality(D[d]) <= Capacity[d]
    BY <2>1, <2>3, <2>4 DEF HasRoom
  <2>. QED
    BY <1>2, <1>5, <2>3, <2>5 DEF FullOK, HasRoom
<1>7. RoomOK(db, worker, flying', D)
  <2>1. ASSUME NEW w \in Workers, worker[w].phase \in {"ready", "sending"}, db.job[worker[w].job].lease = w
        PROVE  HasRoom(worker[w].hash, DownloaderOf[worker[w].job], D)
    <3>1. /\ worker[w].job \in Jobs /\ DownloaderOf[worker[w].job] \in Downloaders
          /\ Matches(worker[w].phase, db.job[worker[w].job].status)
      BY <1>2, <2>1, Parameters DEF WorkOK, LeaseOK
    <3>2. worker[w].job # r.job
      BY <1>2, <1>3, <2>1, <3>1 DEF Matches, RoomOK, Uncertain
    <3>3. DownloaderOf[worker[w].job] # d
      BY <1>2, <1>3, <2>1, <3>1, <3>2, OneActive DEF Matches, Active, Uncertain
    <3>. QED
      BY <1>2, <1>6, <2>1, <3>1, <3>3 DEF RoomOK
  <2>. QED
    BY <1>1, <1>2, <2>1 DEF RoomOK
<1>8. FlyOK(db, flying', arrived', D)
  <2>1. ASSUME NEW q \in flying' PROVE HasRoom(q.hash, DownloaderOf[q.job], D)
    <3>1. /\ q \in flying /\ q # r /\ q.job \in Jobs /\ db.job[q.job].status \in Uncertain
          /\ q.hash = db.job[q.job].hash /\ DownloaderOf[q.job] \in Downloaders
      BY <1>1, <1>2, Parameters DEF FlyOK, Requests
    <3>2. q.job # r.job
      BY <1>2, <1>3, <3>1 DEF FlyOK, Requests
    <3>3. DownloaderOf[q.job] # d
      BY <1>2, <1>3, <3>1, <3>2, OneActive DEF Active
    <3>. QED
      BY <1>2, <1>6, <3>1, <3>3 DEF FlyOK
  <2>2. \A q \in arrived' : Accounted(db.job[q.job], q.hash)
    BY <1>1, <1>2, <1>3 DEF FlyOK, Accounted
  <2>3. flying' \subseteq flying /\ arrived' \subseteq Requests
    BY <1>1, <1>2 DEF FlyOK
  <2>. QED
    BY <1>2, <2>1, <2>2, <2>3 DEF FlyOK
<1>9. ThereOK(arrived', qb')
  <2>1. ASSUME NEW e \in Downloaders PROVE IsFiniteSet(qb'[e]) /\ D[e] \subseteq qb'[e]
    <3>1. IsFiniteSet(qb[e]) /\ C[e] \subseteq qb[e]
      BY <1>2 DEF ThereOK, C
    <3>2. CASE e # d
      BY <1>1, <1>2, <1>5, <3>1, <3>2
    <3>3. CASE e = d
      <4>1. qb'[e] = qb[e] \cup {r.hash}
        BY <1>1, <1>2, <3>3
      <4>2. IsFiniteSet(qb'[e])
        BY <3>1, <4>1, FS_AddElement
      <4>. QED
        BY <1>5, <3>1, <3>3, <4>1, <4>2
    <3>. QED
      BY <3>2, <3>3
  <2>. QED
    BY <2>1 DEF ThereOK, D
<1>10. Inv(db, worker, flying', arrived', D, moving)
  BY <1>7, <1>8 DEF IInv, Inv
<1>. QED
  BY <1>1, <1>4, <1>6, <1>9, <1>10 DEF IInv, D

(* What others bring is nobody's request.                                  *)
LEMMA AppearsInv ==
  ASSUME IInv, NEW d \in Downloaders, NEW hash \in Hashes, Appears(d, hash)
  PROVE  IInv'
<1>1. qb' = [qb EXCEPT ![d] = qb[d] \cup {hash}] /\ UNCHANGED <<db, source, worker, moving, flying, arrived>>
  BY DEF Appears
<1>2. qb \in [Downloaders -> SUBSET Hashes] /\ ThereOK(arrived, qb)
  BY DEF IInv
<1>3. qb' \in [Downloaders -> SUBSET Hashes]
  BY <1>1, <1>2
<1>4. ThereOK(arrived, qb')
  <2>1. ASSUME NEW e \in Downloaders PROVE IsFiniteSet(qb'[e]) /\ Came(arrived)[e] \subseteq qb'[e]
    <3>1. IsFiniteSet(qb[e]) /\ Came(arrived)[e] \subseteq qb[e] /\ qb'[e] \in {qb[e], qb[e] \cup {hash}}
      BY <1>1, <1>2 DEF ThereOK
    <3>. QED
      BY <3>1, FS_AddElement
  <2>. QED
    BY <2>1 DEF ThereOK
<1>. QED
  BY <1>1, <1>3, <1>4 DEF IInv

LEMMA LostInv ==
  ASSUME IInv, NEW r \in flying, IsLost(r)
  PROVE  IInv'
<1>1. flying' \subseteq flying /\ UNCHANGED <<db, source, worker, moving, qb, arrived>>
  BY DEF IsLost
<1>2. Inv(db, worker, flying', arrived, Came(arrived), moving)
  BY <1>1, FewerRequests DEF IInv
<1>. QED
  BY <1>1, <1>2 DEF IInv

(* A lease that runs out is not of a worker that submits.                  *)
LEMMA ExpiresInv ==
  ASSUME IInv, NEW j \in Jobs, LeaseExpires(j)
  PROVE  IInv'
<1>. DEFINE u == db'
            a == db.job[j]
<1>1. /\ Inv(db, worker, flying, arrived, Came(arrived), moving) /\ TableOK(db) /\ Tabled(db) /\ a \in Rows
      /\ WorkOK(worker) /\ LeaseOK(db, worker) /\ FlyOK(db, flying, arrived, Came(arrived))
      /\ {"none", "expired", "left", "dead"} \cap Workers = {}
  BY Parameters DEF IInv, Inv, TableOK, Tabled
<1>2. worker' = worker /\ OutsideUnchanged
  BY DEF LeaseExpires
<1>3. PICK b \in Rows :
        /\ u = [db EXCEPT !.job = [db.job EXCEPT ![j] = b]]
        /\ KeptRow(a, b)
        /\ b.lease \in Workers => b.lease = a.lease
        /\ a.lease \in Workers /\ b.lease # a.lease => worker[a.lease].phase \notin {"sending", "sent"}
  <2>. DEFINE b == [a EXCEPT !.lease = "expired"]
  <2>1. MayExpire(a.lease) /\ u = [db EXCEPT !.job = [db.job EXCEPT ![j] = b]]
    BY DEF LeaseExpires
  <2>2. b \in Rows /\ b.lease = "expired" /\ (a.lease # "none" => KeptRow(a, b))
    BY <1>1 DEF Rows, Leases, KeptRow
  <2>3. a.lease # "none" /\ (a.lease \in Workers => worker[a.lease].phase \notin {"sending", "sent"})
    BY <1>1, <2>1 DEF MayExpire
  <2>. HIDE DEF b, a, u
  <2>. QED
    BY <1>1, <2>1, <2>2, <2>3
<1>. HIDE DEF u
<1>4. /\ Tabled(u) /\ u.key = db.key /\ u.slot = db.slot /\ u.job[j] = b
      /\ \A k \in Jobs : k # j => u.job[k] = db.job[k]
  <2>. DEFINE X == [db.job EXCEPT ![j] = b]
  <2>1. X \in [Jobs -> Rows] /\ X[j] = b /\ \A k \in Jobs : k # j => X[k] = db.job[k]
    BY <1>1 DEF Tabled
  <2>2. u = [db EXCEPT !.job = X]
    BY <1>3
  <2>. HIDE DEF X
  <2>. QED
    BY <1>1, <2>1, <2>2 DEF Tabled
<1>5. Kept(db, u)
  BY <1>1, <1>3, <1>4 DEF Kept, KeptRow
<1>6. Held(db, u, worker, worker)
  <2>1. ASSUME NEW k \in Jobs, NEW w \in Workers, u.job[k].lease = w
        PROVE  db.job[k].lease = w /\ worker[w].phase # "idle"
    <3>1. db.job[k].lease = w
      BY <1>3, <1>4, <2>1
    <3>. QED
      BY <1>1, <3>1 DEF LeaseOK, Matches
  <2>2. ASSUME NEW w \in Workers, worker[w].phase \in {"sending", "sent"}
        PROVE  u.job[worker[w].job].lease = w
    <3>1. worker[w].job \in Jobs /\ db.job[worker[w].job].lease = w
      BY <1>1, <2>2 DEF WorkOK, LeaseOK
    <3>. QED
      BY <1>3, <1>4, <2>2, <3>1
  <2>. QED
    BY <2>1, <2>2 DEF Held
<1>7. Inv(u, worker, flying, arrived, Came(arrived), moving)
  BY <1>1, <1>5, <1>6, KeptInv
<1>. QED
  BY <1>2, <1>7, OutsideInv DEF Outside, u

(* Whoever was at work is gone.                                            *)
LEMMA AllGone ==
  ASSUME NEW t, NEW u, NEW F, NEW A, NEW Q, NEW M, Inv(t, worker, F, A, Q, M), TableOK(u), WorkersGone,
         \A j \in Jobs : u.job[j].lease \notin Workers,
         \A j \in Jobs : /\ u.job[j].hash = t.job[j].hash \/ t.job[j].status \notin Uncertain \cup {"submitted"}
                         /\ u.job[j].status \in Uncertain <=> t.job[j].status \in Uncertain
                         /\ \A status \in {"submitted", "deleted"} :
                              t.job[j].status = status => u.job[j].status = status
  PROVE  Inv(u, worker', F, A, Q, M)
<1>. DEFINE V == worker'
<1>1. LeaseOK(t, worker) /\ RoomOK(t, worker, F, Q) /\ FlyOK(t, F, A, Q) /\ ApartOK(t, M)
  BY DEF Inv
<1>2. V = [w \in Workers |-> Idle]
  BY DEF WorkersGone
<1>3. Idle \in [phase : Phases, job : Jobs \cup {NoJob}, hash : Hashes \cup {NoHash}, current : BOOLEAN]
  BY DEF Idle, Phases
<1>4. Idle.phase = "idle"
  BY DEF Idle
<1>. HIDE DEF V
<1>5. \A w \in Workers : V[w].phase = "idle"
  BY <1>2, <1>4
<1>6. WorkOK(V)
  BY <1>2, <1>3, <1>5 DEF WorkOK
<1>7. \A r \in F \cup A : r.job \in Jobs
  BY <1>1 DEF FlyOK, Requests
<1>8. Loosened(t, u, worker, V, F, F, A, A)
  <2>1. /\ \A r \in F : u.job[r.job].status \in Uncertain
        /\ \A r \in A : Follows(t.job[r.job], u.job[r.job])
    BY <1>1, <1>7 DEF FlyOK, Accounted, Follows, Uncertain
  <2>2. \A j \in Jobs : u.job[j].status \in Uncertain =>
          t.job[j].status \in Uncertain /\ u.job[j].hash = t.job[j].hash
    OBVIOUS
  <2>. QED
    BY <1>5, <2>1, <2>2 DEF Loosened
<1>9. LeaseOK(u, V) /\ RoomOK(u, V, F, Q) /\ FlyOK(u, F, A, Q) /\ ApartOK(u, M)
  BY <1>1, <1>8, Loosen
<1>. QED
  BY <1>6, <1>9 DEF Inv, V

LEMMA CrashInv ==
  ASSUME IInv, Crash
  PROVE  IInv'
<1>. DEFINE u == db'
            J == [j \in Jobs |->
                   IF db.job[j].lease \in Workers \cup {"left"}
                     THEN [db.job[j] EXCEPT !.lease = "dead"] ELSE db.job[j]]
<1>1. u = [db EXCEPT !.job = J] /\ WorkersGone /\ OutsideUnchanged
  BY DEF Crash
<1>2. /\ Inv(db, worker, flying, arrived, Came(arrived), moving) /\ TableOK(db) /\ Tabled(db)
      /\ {"none", "left", "dead"} \cap Workers = {}
  BY Parameters DEF IInv, Inv, TableOK
<1>3. \A row \in Rows : LET b == [row EXCEPT !.lease = "dead"]
                        IN  /\ b \in Rows /\ b.lease = "dead"
                            /\ row.lease # "none" => KeptRow(row, b)
  BY DEF Rows, Leases, KeptRow
<1>4. \A j \in Jobs : /\ J[j] \in Rows /\ KeptRow(db.job[j], J[j])
                      /\ J[j].lease \notin Workers
  <2>1. \A j \in Jobs : db.job[j] \in Rows
    BY <1>2 DEF Tabled
  <2>2. \A row \in Rows : KeptRow(row, row)
    BY DEF KeptRow
  <2>. QED
    BY <1>2, <1>3, <2>1, <2>2
<1>5. J \in [Jobs -> Rows]
  BY <1>4
<1>. HIDE DEF J, u
<1>6. u.job = J /\ Kept(db, u)
  BY <1>1, <1>2, <1>4, <1>5 DEF Kept, Tabled
<1>7. TableOK(u)
  BY <1>2, <1>6, KeptTable
<1>8. Inv(u, worker', flying, arrived, Came(arrived), moving)
  <2>1. \A j \in Jobs : /\ u.job[j].hash = db.job[j].hash
                        /\ u.job[j].status \in Uncertain <=> db.job[j].status \in Uncertain
                        /\ u.job[j].status = db.job[j].status
                        /\ u.job[j].lease \notin Workers
    BY <1>4, <1>6 DEF KeptRow
  <2>. QED
    BY <1>1, <1>2, <1>7, <2>1, AllGone
<1>. QED
  BY <1>1, <1>8, OutsideInv DEF Outside, u

LEMMA StopInv ==
  ASSUME IInv, Stop
  PROVE  IInv'
<1>1. PICK own \in Own : db' = Released(db, own)
  BY DEF Stop
<1>2. WorkersGone /\ OutsideUnchanged
  BY DEF Stop
<1>3. Inv(db, worker, flying, arrived, Came(arrived), moving) /\ TableOK(db)
  BY DEF IInv, Inv
<1>. DEFINE u == Released(db, own)
<1>4. Quiet(db, u, {}) /\ \A j \in Jobs : u.job[j].lease \notin Workers
  BY <1>3, ReleasedQuiet
<1>. HIDE DEF u
<1>5. TableOK(u)
  BY <1>3, <1>4, QuietTable
<1>6. ASSUME NEW j \in Jobs
      PROVE  /\ u.job[j].hash = db.job[j].hash
             /\ u.job[j].status \in Uncertain <=> db.job[j].status \in Uncertain
             /\ \A status \in {"submitted", "deleted"} :
                  db.job[j].status = status => u.job[j].status = status
  <2>1. QuietRow(db.job[j], u.job[j], {})
    BY <1>4 DEF Quiet
  <2>. QED
    BY <2>1 DEF QuietRow, Uncertain, Unclaimed
<1>7. Inv(u, worker', flying, arrived, Came(arrived), moving)
  BY <1>2, <1>3, <1>4, <1>5, <1>6, AllGone
<1>. QED
  BY <1>1, <1>2, <1>7, OutsideInv DEF Outside, u


-----------------------------------------------------------------------------
(* The induction.                                                          *)

LEMMA InitInv == Init => IInv
<1>. SUFFICES ASSUME Init PROVE IInv
  OBVIOUS
<1>. DEFINE J == [j \in Jobs |-> NewRow]
            K == [d \in Downloaders |-> [h \in Hashes |-> NoKey]]
            S == [d \in Downloaders |-> NoJob]
<1>1. /\ db = [job |-> J, key |-> K, slot |-> S]
      /\ source = [s \in Sources |-> "on"]
      /\ worker = [w \in Workers |-> Idle]
      /\ moving = [d \in Downloaders |-> {}] /\ qb = [d \in Downloaders |-> {}]
      /\ flying = {} /\ arrived = {}
  BY DEF Init
<1>2. /\ NewRow \in Rows /\ RowOK(NewRow) /\ NewRow.status = "none" /\ NewRow.lease = "none"
  <2>1. NewRow = [status |-> "none", lease |-> "none", hash |-> NoHash, reserved |-> FALSE,
                  attempts |-> 0]
    BY DEF NewRow
  <2>2. NewRow \in Rows
    BY <2>1, StatusesUsed, Parameters DEF Rows, Leases
  <2>3. RowOK(NewRow)
    BY <2>1, Parameters DEF RowOK, Uncertain, Active, Unclaimed
  <2>. QED
    BY <2>1, <2>2, <2>3
<1>3. NoKey \in Keys
  BY DEF NoKey, Keys
<1>4. /\ Idle \in [phase : Phases, job : Jobs \cup {NoJob}, hash : Hashes \cup {NoHash}, current : BOOLEAN]
      /\ Idle.phase = "idle"
  BY DEF Idle, Phases
<1>5. \A j \in Jobs : DownloaderOf[j] \in Downloaders /\ j # NoJob
  BY Parameters
<1>. HIDE DEF NewRow, NoKey, Idle
<1>6. /\ Tabled(db) /\ \A j \in Jobs : db.job[j] = NewRow
      /\ \A d \in Downloaders : db.slot[d] = NoJob
  BY <1>1, <1>2, <1>3 DEF Tabled
<1>7. TableOK(db)
  <2>1. SlotOK(db)
    BY <1>2, <1>5, <1>6 DEF SlotOK, Active, Uncertain
  <2>2. KeyOK(db)
    BY <1>2, <1>6 DEF KeyOK, Uncertain
  <2>. QED
    BY <1>2, <1>6, <2>1, <2>2 DEF TableOK
<1>8. WorkOK(worker) /\ \A w \in Workers : worker[w].phase = "idle"
  BY <1>1, <1>4 DEF WorkOK
<1>9. LeaseOK(db, worker) /\ RoomOK(db, worker, flying, Came(arrived))
  BY <1>2, <1>6, <1>8, Parameters DEF LeaseOK, RoomOK
<1>10. FlyOK(db, flying, arrived, Came(arrived)) /\ ApartOK(db, moving)
  BY <1>1, <1>2, <1>6 DEF FlyOK, ApartOK, Uncertain
<1>11. ThereOK(arrived, qb) /\ FullOK(Came(arrived))
  <2>1. \A d \in Downloaders : Came(arrived)[d] = {}
    BY <1>1 DEF Came
  <2>. QED
    <3>1. IsFiniteSet({}) /\ Cardinality({}) = 0
      BY FS_EmptySet
    <3>2. \A d \in Downloaders : qb[d] = {} /\ Capacity[d] \in Nat
      BY <1>1, Parameters
    <3>3. \A n \in Nat : 0 <= n
      OBVIOUS
    <3>. QED
      BY <2>1, <3>1, <3>2, <3>3, Zenon DEF FullOK, ThereOK
<1>. QED
  BY <1>1, <1>7, <1>8, <1>9, <1>10, <1>11 DEF IInv, Inv

LEMMA WorkerStepInv == IInv /\ WorkerStep => IInv'
<1>. SUFFICES ASSUME IInv, WorkerStep PROVE IInv'
  OBVIOUS
<1>1. PICK w \in Workers :
        \/ \E j \in Jobs : Claim(w, j)
        \/ Fetch(w) \/ NoSpace(w) \/ FetchFails(w) \/ FetchConflicts(w) \/ AlreadyPresent(w)
        \/ Refused(w) \/ PrepareConflicts(w) \/ PrepareWaits(w) \/ PrepareFindsDelivered(w) \/ Prepare(w)
        \/ Send(w) \/ Settle(w) \/ CheckAnswered(w) \/ CheckAgain(w)
  BY DEF WorkerStep
<1>2. CASE \E j \in Jobs : Claim(w, j)
  BY <1>2, ClaimInv
<1>3. CASE Fetch(w)
  BY <1>3, FetchInv
<1>4. CASE NoSpace(w) \/ FetchFails(w) \/ FetchConflicts(w)
  BY <1>4, FetchEndsInv
<1>5. CASE AlreadyPresent(w)
  BY <1>5, PresentInv
<1>6. CASE Refused(w)
  BY <1>6, RefusedInv
<1>7. CASE PrepareConflicts(w) \/ PrepareWaits(w)
  BY <1>7, WaitsInv
<1>8. CASE PrepareFindsDelivered(w)
  BY <1>8, DeliveredInv
<1>9. CASE Prepare(w)
  BY <1>9, PrepareInv
<1>10. CASE Send(w)
  BY <1>10, SendInv
<1>11. CASE Settle(w) \/ CheckAnswered(w) \/ CheckAgain(w)
  BY <1>11, SettleInv
<1>. QED
  BY <1>1, <1>2, <1>3, <1>4, <1>5, <1>6, <1>7, <1>8, <1>9, <1>10, <1>11

LEMMA PeopleStepInv == IInv /\ PeopleStep => IInv'
<1>. SUFFICES ASSUME IInv, PeopleStep PROVE IInv'
  OBVIOUS
<1>1. CASE \E j \in Jobs : Enqueue(j) \/ Cancel(j) \/ Retry(j) \/ Reconcile(j)
  <2>1. PICK j \in Jobs : Enqueue(j) \/ Cancel(j) \/ Retry(j) \/ Reconcile(j)
    BY <1>1
  <2>2. CASE Enqueue(j)
    BY <2>2, FreshInv DEF Enqueue
  <2>3. CASE Cancel(j) \/ Reconcile(j)
    BY <2>3, JobActionInv
  <2>4. CASE Retry(j)
    BY <2>4, RetryInv
  <2>. QED
    BY <2>1, <2>2, <2>3, <2>4
<1>2. CASE \E s \in Sources : EditSource(s) \/ \E state \in {"on", "off", "archived"} : SetSource(s, state)
  BY <1>2, SourceInv
<1>3. CASE \E d \in Downloaders, hash \in Hashes :
             RemoveTorrent(d, hash) \/ MoveStarts(d, hash) \/ MoveEnds(d, hash)
  <2>1. PICK d \in Downloaders, hash \in Hashes :
          RemoveTorrent(d, hash) \/ MoveStarts(d, hash) \/ MoveEnds(d, hash)
    BY <1>3
  <2>2. CASE RemoveTorrent(d, hash)
    BY <2>2, RemoveInv
  <2>3. CASE MoveStarts(d, hash) \/ MoveEnds(d, hash)
    BY <2>3, MovesInv
  <2>. QED
    BY <2>1, <2>2, <2>3
<1>. QED
  BY <1>1, <1>2, <1>3 DEF PeopleStep

LEMMA SystemStepInv == IInv /\ SystemStep => IInv'
<1>. SUFFICES ASSUME IInv, SystemStep PROVE IInv'
  OBVIOUS
<1>1. CASE \E j \in Jobs : LeaseExpires(j) \/ Cleanup(j)
  BY <1>1, ExpiresInv, CleanupInv
<1>2. CASE \E r \in flying : Arrives(r) \/ IsLost(r)
  BY <1>2, ArrivesInv, LostInv
<1>3. CASE \E d \in Downloaders : Sample(d)
  <2>1. PICK d \in Downloaders : Sample(d)
    BY <1>3
  <2>2. Inv(Observed(db, d), worker, flying, arrived, Came(arrived), moving)
    BY ObservedInv
  <2>. QED
    BY <2>1, <2>2, OutsideInv DEF Sample, Outside
<1>4. CASE Recover
  <2>1. Inv(Tables, worker, flying, arrived, Came(arrived), moving)
    BY TablesInv
  <2>. QED
    BY <1>4, <2>1, OutsideInv DEF Recover, Outside
<1>5. CASE Crash
  BY <1>5, CrashInv
<1>6. CASE Stop
  BY <1>6, StopInv
<1>7. CASE \E d \in Downloaders, hash \in Hashes : Appears(d, hash)
  BY <1>7, AppearsInv
<1>. QED
  BY <1>1, <1>2, <1>3, <1>4, <1>5, <1>6, <1>7 DEF SystemStep

LEMMA NextInv == IInv /\ [Next]_vars => IInv'
<1>. SUFFICES ASSUME IInv, [Next]_vars PROVE IInv'
  OBVIOUS
<1>1. CASE UNCHANGED vars
  BY <1>1 DEF vars, IInv
<1>2. CASE Next
  BY <1>2, WorkerStepInv, PeopleStepInv, SystemStepInv DEF Next
<1>. QED
  BY <1>1, <1>2

(* In every reachable state the tables, the leases, the requests and the   *)
(* relocations fit together.                                               *)
THEOREM SpecIInv == Spec => []IInv
<1>1. Init => IInv
  BY InitInv
<1>2. IInv /\ [Next]_vars => IInv'
  BY NextInv
<1>. QED
  BY <1>1, <1>2, PTL DEF Spec

(* Every row, key, slot and worker is one the code can write.              *)
THEOREM SpecTypeOK == Spec => []TypeOK
<1>1. IInv => TypeOK
  BY DEF IInv, Inv, TableOK, Tabled, WorkOK, FlyOK, TypeOK
<1>. QED
  BY <1>1, SpecIInv, PTL

(* A slot is neither lost nor kept: rss_claim_job, finish_job_state and    *)
(* synchronize_jobs agree on who has it.                                   *)
THEOREM SpecSlotKept == Spec => []SlotKept
<1>1. IInv => SlotKept
  BY DEF IInv, Inv, TableOK, SlotOK, SlotKept
<1>. QED
  BY <1>1, SpecIInv, PTL

(* However many workers there are and whoever's lease ran out, only one    *)
(* submits on a downloader at a time.                                      *)
THEOREM SpecOneSubmission == Spec => []OneSubmission
<1>1. IInv => OneSubmission
  <2>. SUFFICES ASSUME IInv, NEW v \in Workers, NEW w \in Workers,
                       worker[v].phase \in {"sending", "sent"}, worker[w].phase \in {"sending", "sent"},
                       DownloaderOf[worker[v].job] = DownloaderOf[worker[w].job]
                PROVE  v = w
    BY DEF OneSubmission
  <2>1. WorkOK(worker) /\ LeaseOK(db, worker) /\ TableOK(db)
    BY DEF IInv, Inv
  <2>2. ASSUME NEW x \in {v, w}
        PROVE  /\ worker[x].job \in Jobs /\ db.job[worker[x].job].lease = x
               /\ db.job[worker[x].job].status \in Active
    BY <2>1 DEF WorkOK, LeaseOK, Matches, Active, Uncertain
  <2>3. worker[v].job = worker[w].job
    BY <2>1, <2>2, OneActive
  <2>. QED
    BY <2>2, <2>3
<1>. QED
  BY <1>1, SpecIInv, PTL

(* An infohash that is submitted on a downloader, or may be, is one job's. *)
THEOREM SpecHashOwned == Spec => []HashOwned
<1>1. IInv => HashOwned
  <2>. SUFFICES ASSUME IInv PROVE HashOwned
    OBVIOUS
  <2>1. KeyOK(db)
    BY DEF IInv, Inv, TableOK
  <2>2. ASSUME NEW j \in Jobs, NEW k \in Jobs, DownloaderOf[j] = DownloaderOf[k],
               db.job[j].hash = db.job[k].hash,
               {db.job[j].status, db.job[k].status} \subseteq Uncertain \cup {"submitted"}
        PROVE  j = k
    <3>1. ASSUME NEW i \in {j, k}
          PROVE  db.key[DownloaderOf[j]][db.job[j].hash] \in
                   {[job |-> i, outcome |-> "busy"], [job |-> i, outcome |-> "done"]}
      BY <2>1, <2>2 DEF KeyOK
    <3>. QED
      BY <3>1
  <2>. QED
    BY <2>1, <2>2 DEF HashOwned, KeyOK
<1>. QED
  BY <1>1, SpecIInv, PTL

(* Whatever people do, whoever's lease runs out and however often the      *)
(* process stops: until the downloader has answered, the job of a request  *)
(* waits for it with its space and infohash, and a torrent that came while *)
(* it waited is the job's until the job is cleaned up.                     *)
THEOREM SpecNothingForgotten == Spec => []NothingForgotten
<1>1. IInv => NothingForgotten
  BY DEF IInv, Inv, TableOK, RowOK, FlyOK, Accounted, Requests, NothingForgotten, Uncertain
<1>. QED
  BY <1>1, SpecIInv, PTL

(* What a downloader is given, and waited for, has room there.             *)
THEOREM SpecFits == Spec => []Fits
<1>1. IInv => Fits
  <2>. SUFFICES ASSUME IInv, NEW d \in Downloaders
                PROVE  Cardinality(Brought(d)) <= Capacity[d]
    BY DEF Fits
  <2>. DEFINE came == Came(arrived)[d]
              coming == {r.hash : r \in {q \in flying : DownloaderOf[q.job] = d}}
  <2>1. /\ FlyOK(db, flying, arrived, Came(arrived)) /\ TableOK(db)
        /\ IsFiniteSet(came) /\ Cardinality(came) <= Capacity[d]
    BY DEF IInv, Inv, FullOK
  <2>2. Brought(d) = came \cup coming
    BY DEF Brought, Came
  <2>. HIDE DEF came
  <2>3. CASE coming = {}
    BY <2>1, <2>2, <2>3
  <2>4. CASE coming # {}
    <3>1. PICK q \in flying : DownloaderOf[q.job] = d
      BY <2>4
    <3>2. ASSUME NEW r \in flying, DownloaderOf[r.job] = d PROVE r.hash = q.hash
      <4>1. r.job \in Jobs /\ q.job \in Jobs /\ db.job[r.job].status \in Active /\ db.job[q.job].status \in Active
        BY <2>1 DEF FlyOK, Requests, Active
      <4>2. r.job = q.job
        BY <2>1, <3>1, <3>2, <4>1, OneActive
      <4>. QED
        BY <2>1, <4>2 DEF FlyOK
    <3>3. coming = {q.hash}
      BY <3>1, <3>2
    <3>4. q.hash \notin came /\ Cardinality(came) < Capacity[d]
      BY <2>1, <3>1 DEF FlyOK, HasRoom, came
    <3>5. Cardinality(came \cup {q.hash}) = Cardinality(came) + 1 /\ Cardinality(came) \in Nat
      BY <2>1, <3>4, FS_AddElement, FS_CardinalityType
    <3>6. Capacity[d] \in Nat
      BY Parameters
    <3>. QED
      BY <2>2, <3>3, <3>4, <3>5, <3>6
  <2>. QED
    BY <2>3, <2>4
<1>. QED
  BY <1>1, SpecIInv, PTL

(* A submission and a relocation never have the same torrent.              *)
THEOREM SpecApart == Spec => []Apart
<1>1. IInv => Apart
  BY DEF IInv, Inv, ApartOK, Apart
<1>. QED
  BY <1>1, SpecIInv, PTL
=============================================================================
