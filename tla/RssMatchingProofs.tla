------------------------- MODULE RssMatchingProofs -------------------------
(***************************************************************************)
(* What an RSS subscription downloads: for all values of the constants, no *)
(* item is overlooked, none is taken that was published while nobody was   *)
(* watching, and no cycle takes more than its quota.                       *)
(***************************************************************************)
EXTENDS RssMatching, FiniteSetTheorems, TLAPS

(* An evaluation that may still be committed is of an item.                *)
EvaluationInv == evaluator.fresh => evaluator.item \in Items

(* A feed that is not on is being scanned by nobody.                       *)
LeaseInv == feed.state # "on" => feed.lease = "none"

(* Sequence numbers: an item that has none has been shown to no rule, and  *)
(* one the site has never shown has none.                                  *)
SequenceInv ==
  /\ \A i \in Items :
       /\ item[i].seq <= feed.last
       /\ item[i].seq = 0 => \A r \in Rules : decision[i][r].status = "none"
       /\ site[i] = "absent" => item[i].seq = 0 /\ \A s \in Scanners : scanner[s].items[i] = "absent"
  /\ \A r \in Rules : rule[r].boundary <= feed.last

(* A rule waits for its boundary only until the next baseline.             *)
BoundaryInv == \A r \in Rules : rule[r].pending => Baseline

(* The site answers that nothing has changed only if all it shows is       *)
(* stored.                                                                 *)
UnchangedInv == feed.unchanged => \A i \in Items : site[i] \notin {"absent", "gone"} => item[i].seq > 0

(* Published while nobody was watching, and not stored yet.                *)
Missed(i) == item[i].seq = 0 /\ \E r \in Rules : seen[i][r] = "missed"

(* The scan that will be committed.                                        *)
Holds(s) == feed.lease = s /\ scanner[s].phase = "fetched"

(* Such an item is stored by the next baseline, or never.                  *)
MissedInv ==
  \A i \in Items : Missed(i) =>
    /\ site[i] # "absent"
    /\ feed.state = "on" =>
         /\ Baseline => \A s \in Scanners : Holds(s) => scanner[s].items[i] # "absent" \/ site[i] = "gone"
         /\ ~Baseline => site[i] = "gone" /\ \A s \in Scanners : Holds(s) => scanner[s].items[i] = "absent"

Past(i, r) == ~rule[r].pending /\ item[i].seq > rule[r].boundary

(* A rule decides, or will, only about what it has seen or was asked for.  *)
SeenInv ==
  \A i \in Items, r \in Rules :
    decision[i][r].status # "none" \/ (rule[r].state = "on" /\ Past(i, r)) => seen[i][r] \notin {"no", "missed"}

(* What a rule that is on owes an item it has watched from the start.      *)
Watches(i, r) ==
  /\ Past(i, r)
  /\ \/ decision[i][r].status \in Open
     \/ job[i][DownloaderOf[r]] # NoRule
     \/ decision[i][r].status = "skipped" /\ Verdict(rule[r].filters, i, item[i].attributes) = "rejected"

WatchInv ==
  \A i \in Items, r \in Rules : seen[i][r] = "due" =>
    /\ rule[r].state = "off" => feed.state = "archived"
    /\ rule[r].state = "on" => Watches(i, r)

IInv ==
  /\ TypeOK /\ EvaluationInv /\ LeaseInv /\ SequenceInv /\ BoundaryInv /\ UnchangedInv
  /\ MissedInv /\ SeenInv /\ WatchInv

-----------------------------------------------------------------------------
(* The quota.                                                              *)

(* Of a finite set of numbers, those with less than a number of others     *)
(* before them are not more than that number.                              *)
LEMMA QuotaBound ==
  ASSUME NEW M \in SUBSET Nat, IsFiniteSet(M), NEW used \in 0..Quota, NEW W \in SUBSET M,
         \A r \in W : used + Cardinality({q \in M : q < r}) < Quota
  PROVE  used + Cardinality(W) \in 0..Quota
  <1> DEFINE B == [r \in M |-> {q \in M : q < r}]
             T == {Quota - used - Cardinality(B[r]) : r \in W}
  <1>1. Quota \in Nat
    BY Parameters
  <1>2. \A r \in M : B[r] \in SUBSET M
    OBVIOUS
  <1>3. \A r \in M : IsFiniteSet(B[r]) /\ Cardinality(B[r]) \in Nat
    <2> SUFFICES ASSUME NEW r \in M
                 PROVE  IsFiniteSet(B[r]) /\ Cardinality(B[r]) \in Nat
      OBVIOUS
    <2> QED
      BY <1>2, FS_Subset, FS_CardinalityType
  <1>4. \A r \in W : used + Cardinality(B[r]) < Quota
    OBVIOUS
  <1>5. \A r \in M : r \notin B[r]
    OBVIOUS
  <1>6. \A r, p \in M : r < p => B[r] \cup {r} \in SUBSET B[p]
    <2> SUFFICES ASSUME NEW r \in M, NEW p \in M, r < p, NEW q \in B[r] \cup {r}
                 PROVE  q \in B[p]
      OBVIOUS
    <2>1. p \in Nat /\ r \in Nat /\ q \in Nat /\ q \in M /\ q <= r
      OBVIOUS
    <2> QED
      BY <2>1
  <1>7. \A r \in M : (\A p \in W : p <= r) => W \in SUBSET (B[r] \cup {r})
    <2> SUFFICES ASSUME NEW r \in M, \A p \in W : p <= r, NEW p \in W
                 PROVE  p \in B[r] \/ p = r
      OBVIOUS
    <2>1. p <= r /\ p \in M /\ p \in Nat /\ r \in Nat
      OBVIOUS
    <2> QED
      BY <2>1
  <1>8. IsFiniteSet(W) /\ Cardinality(W) \in Nat
    BY FS_Subset, FS_CardinalityType
  <1> HIDE DEF B
  <1>9. CASE W = {}
    <2>1. Cardinality(W) = 0
      BY <1>9, FS_EmptySet
    <2> QED
      BY <2>1, <1>1
  <1>10. CASE W # {}
    <2>1. T \subseteq Nat /\ T # {}
      <3>1. \A r \in W : Quota - used - Cardinality(B[r]) \in Nat
        BY <1>1, <1>3, <1>4
      <3> QED
        BY <3>1, <1>10
    <2>2. PICK x \in T : \A y \in T : ~ (<<y, x>> \in OpToRel(<, Nat))
      BY <2>1, NatLessThanWellFounded, WFMin
    <2>3. \A y \in T : ~(y < x)
      BY <2>1, <2>2 DEF OpToRel
    <2>4. PICK r \in W : x = Quota - used - Cardinality(B[r])
      OBVIOUS
    <2>5. \A p \in W : p <= r
      <3> SUFFICES ASSUME NEW p \in W, r < p
                   PROVE  FALSE
        OBVIOUS
      <3>1. B[r] \cup {r} \in SUBSET B[p] /\ r \notin B[r]
        BY <1>5, <1>6
      <3>2. Cardinality(B[r] \cup {r}) <= Cardinality(B[p])
        BY <3>1, <1>3, FS_Subset
      <3>3. Cardinality(B[r] \cup {r}) = Cardinality(B[r]) + 1
        BY <3>1, <1>3, FS_AddElement
      <3>4. ~(Quota - used - Cardinality(B[p]) < x)
        BY <2>3
      <3> QED
        BY <3>2, <3>3, <3>4, <2>4, <1>1, <1>3
    <2>6. W \in SUBSET (B[r] \cup {r})
      BY <2>5, <1>7
    <2>7. IsFiniteSet(B[r] \cup {r}) /\ Cardinality(B[r] \cup {r}) = Cardinality(B[r]) + 1
      BY <1>3, <1>5, FS_AddElement
    <2>8. Cardinality(W) <= Cardinality(B[r]) + 1
      BY <2>6, <2>7, FS_Subset
    <2> QED
      BY <2>8, <1>1, <1>3, <1>4, <1>8
  <1> QED
    BY <1>9, <1>10

LEMMA EnqueuedBound ==
  ASSUME TypeOK, NEW i, NEW attributes, NEW rules \in SUBSET Rules
  PROVE  feed.quota + Cardinality(Enqueued(i, attributes, rules)) \in 0..Quota
  <1> DEFINE M == Matched(i, attributes, rules)
  <1> HIDE DEF M
  <1>1. M \in SUBSET Rules
    BY DEF M, Matched, Decisive
  <1>2. M \in SUBSET Nat /\ IsFiniteSet(M) /\ feed.quota \in 0..Quota
    BY <1>1, Parameters, FS_Subset DEF TypeOK
  <1> QED
    BY <1>2, QuotaBound DEF M, Enqueued

(* The highest priority of a set of rules.                                 *)
LEMMA FirstRule ==
  ASSUME NEW S \in SUBSET Rules, S # {}
  PROVE  \E q \in S : \A p \in S : ~(p < q)
  <1>1. S \subseteq Nat
    BY Parameters
  <1>2. \E q \in S : \A p \in S : ~ (<<p, q>> \in OpToRel(<, Nat))
    BY <1>1, NatLessThanWellFounded, WFMin
  <1> QED
    BY <1>1, <1>2 DEF OpToRel

-----------------------------------------------------------------------------
(* Types.                                                                  *)

Feeds ==
  [state : {"on", "off", "archived"}, known : BOOLEAN, resume : BOOLEAN, last : Nat,
   quota : 0..Quota, unchanged : BOOLEAN, lease : Scanners \cup {"none"}]

RuleRows ==
  [state : {"none", "on", "off", "archived"}, filters : Filters, boundary : Nat, pending : BOOLEAN]

Scans ==
  [phase : {"idle", "claimed", "fetched"}, modified : BOOLEAN, items : [Items -> Attributes \cup {"absent"}]]

Evaluations == [item : Items \cup {NoItem}, rules : SUBSET Rules, fresh : BOOLEAN]

Sightings == {"no", "due", "interrupted", "asked", "missed"}

LEMMA Typed ==
  TypeOK <=>
    /\ site \in [Items -> Attributes \cup {"absent", "gone"}]
    /\ feed \in Feeds
    /\ item \in [Items -> [seq : Nat, attributes : Attributes]]
    /\ rule \in [Rules -> RuleRows]
    /\ decision \in [Items -> [Rules -> Decisions]]
    /\ job \in [Items -> [Downloaders -> Rules \cup {NoRule}]]
    /\ scanner \in [Scanners -> Scans]
    /\ evaluator \in Evaluations
    /\ edits \in 0..MaxEdits
    /\ seen \in [Items -> [Rules -> Sightings]]
  BY DEF TypeOK, Feeds, RuleRows, Scans, Evaluations, Sightings

LEMMA Constants ==
  /\ NoScan \in Scans /\ NoEvaluation \in Evaluations /\ NoFilters \in Filters
  /\ NoDecision \in Decisions /\ NewDecision \in Decisions /\ NewRule \in RuleRows
  /\ \A d \in Decisions : [d EXCEPT !.current = FALSE] \in Decisions /\ [d EXCEPT !.manual = TRUE] \in Decisions
  /\ \A d \in Decisions, s \in Open \cup Settled : [d EXCEPT !.status = s] \in Decisions
  /\ 0 \in 0..Quota /\ 0 \in 0..MaxEdits
  <1>1. NoScan \in Scans /\ NoEvaluation \in Evaluations
    BY DEF Scans, NoScan, Evaluations, NoEvaluation
  <1>2. NoFilters \in Filters
    BY DEF NoFilters, Filters
  <1>3. NewRule \in RuleRows
    BY <1>2 DEF NewRule, RuleRows
  <1>4. NoDecision \in Decisions /\ NewDecision \in Decisions
    BY DEF Decisions, NoDecision, NewDecision, Open
  <1>5. \A d \in Decisions : [d EXCEPT !.current = FALSE] \in Decisions /\ [d EXCEPT !.manual = TRUE] \in Decisions
    BY DEF Decisions
  <1>6. \A d \in Decisions, s \in Open \cup Settled : [d EXCEPT !.status = s] \in Decisions
    BY DEF Decisions
  <1>7. 0 \in 0..Quota /\ 0 \in 0..MaxEdits
    BY Parameters
  <1> QED
    BY <1>1, <1>2, <1>3, <1>4, <1>5, <1>6, <1>7

LEMMA InitTypeOK == Init => TypeOK
  <1> SUFFICES ASSUME Init
               PROVE  TypeOK
    OBVIOUS
  <1>1. \A r \in Rules : EarlyRule(r) \subseteq RuleRows
    <2> SUFFICES ASSUME NEW r \in Rules, NEW x \in EarlyRule(r)
                 PROVE  x \in RuleRows
      OBVIOUS
    <2>1. FiltersOf[r] \subseteq Filters
      BY Parameters
    <2>2. x \in [state : {"on"}, filters : FiltersOf[r], boundary : {0}, pending : {TRUE}]
      BY DEF EarlyRule
    <2>3. {"on"} \subseteq {"none", "on", "off", "archived"} /\ {0} \subseteq Nat /\ {TRUE} \subseteq BOOLEAN
      OBVIOUS
    <2>4. x \in [state : {"none", "on", "off", "archived"}, filters : Filters, boundary : Nat, pending : BOOLEAN]
      BY <2>1, <2>2, <2>3, Zenon
    <2> QED
      BY <2>4 DEF RuleRows
  <1>2. rule \in [Rules -> RuleRows]
    BY <1>1, Constants DEF Init
  <1>3. feed \in Feeds
    BY Constants DEF Init, Feeds
  <1>4. edits \in 0..MaxEdits
    BY Constants DEF Init
  <1> QED
    BY <1>2, <1>3, <1>4, Constants, Typed DEF Init, Attributes, Sightings

LEMMA DecidedType ==
  ASSUME NEW rules, NEW seq, NEW r, NEW d \in Decisions
  PROVE  Reopened(d) \in Decisions /\ Decided(rules, seq, r, d) \in Decisions
  <1>1. Reopened(d) \in Decisions
    BY Constants DEF Reopened, Open
  <1> QED
    BY <1>1, Constants DEF Decided

LEMMA ScanTypes ==
  ASSUME TypeOK, NEW s \in Scanners, ClaimFeed(s) \/ Fetch(s) \/ FailScan(s) \/ ScanConflicts(s)
  PROVE  TypeOK'
  <1>1. CASE ClaimFeed(s)
    <2>1. feed' \in Feeds
      BY <1>1, Typed DEF ClaimFeed, Feeds
    <2>2. scanner' \in [Scanners -> Scans]
      BY <1>1, Typed DEF ClaimFeed, Scans
    <2> QED
      BY <1>1, <2>1, <2>2, Typed DEF ClaimFeed, TypeOK, Feeds, Scans
  <1>2. CASE Fetch(s)
    <2>1. Listed \in [Items -> Attributes \cup {"absent"}] /\ NoScan.items \in [Items -> Attributes \cup {"absent"}]
      BY Typed DEF Listed, NoScan
    <2>2. scanner' \in [Scanners -> Scans]
      BY <1>2, <2>1, Typed DEF Fetch, Scans
    <2> QED
      BY <1>2, <2>2 DEF Fetch, TypeOK, Scans
  <1>3. CASE FailScan(s)
    <2>1. feed' \in Feeds
      BY <1>3, Typed DEF FailScan, Feeds
    <2>2. scanner' \in [Scanners -> Scans]
      BY <1>3, Typed, Constants DEF FailScan
    <2> QED
      BY <1>3, <2>1, <2>2 DEF FailScan, TypeOK, Feeds, Scans
  <1>4. CASE ScanConflicts(s)
    <2>1. scanner' \in [Scanners -> Scans]
      BY <1>4, Typed, Constants DEF ScanConflicts
    <2> QED
      BY <1>4, <2>1 DEF ScanConflicts, TypeOK, Scans
  <1> QED
    BY <1>1, <1>2, <1>3, <1>4

(* What a scan has found.                                                  *)
Listing(s) == {i \in Items : scanner[s].items[i] # "absent"}

(* A decision when the scan comes to it: what has changed is out of date.  *)
Known(s, i, r) ==
  IF i \in Listing(s) /\ item[i].seq # 0 /\ item[i].attributes # scanner[s].items[i]
    THEN [decision[i][r] EXCEPT !.current = FALSE] ELSE decision[i][r]

(* What a scan leaves behind.                                              *)
ItemsCommitted(s) ==
  item' = [i \in Items |->
    [seq |-> IF i \in Listing(s) /\ item[i].seq = 0 THEN feed'.last ELSE item[i].seq,
     attributes |-> IF i \in Listing(s) THEN scanner[s].items[i] ELSE item[i].attributes]]

FeedCommitted(s) ==
  /\ feed.lease = s
  /\ feed'.last = IF \E i \in Listing(s) : item[i].seq = 0 THEN feed.last + 1 ELSE feed.last
  /\ feed' = [feed EXCEPT !.known = TRUE, !.resume = FALSE, !.last = feed'.last, !.quota = 0, !.lease = "none",
                !.unchanged = IF scanner[s].modified THEN scanner[s].items = Listed ELSE @]

RulesCommitted ==
  rule' = IF Baseline THEN [r \in Rules |-> [rule[r] EXCEPT !.boundary = feed'.last, !.pending = FALSE]] ELSE rule

DecisionsCommitted(s) ==
  decision' = [i \in Items |-> [r \in Rules |->
    IF Baseline \/ i \notin Listing(s) THEN Known(s, i, r)
    ELSE Decided(rule, item'[i].seq, r, Known(s, i, r))]]

SeenCommitted(s) ==
  seen' = [i \in Items |-> [r \in Rules |->
    IF ~Baseline /\ i \in Listing(s) /\ item[i].seq = 0 /\ rule[r].state = "on" /\ seen[i][r] = "no"
      THEN "due"
    ELSE IF Baseline /\ seen[i][r] = "due" THEN "interrupted"
    ELSE seen[i][r]]]

OthersCommitted(s) ==
  /\ scanner[s].phase = "fetched"
  /\ scanner' = [scanner EXCEPT ![s] = NoScan]
  /\ evaluator' \in {evaluator, [evaluator EXCEPT !.fresh = FALSE]}
  /\ UNCHANGED <<site, job, edits>>

Committed(s) ==
  /\ ItemsCommitted(s) /\ FeedCommitted(s) /\ RulesCommitted /\ DecisionsCommitted(s)
  /\ SeenCommitted(s) /\ OthersCommitted(s)

LEMMA ScanCommitted ==
  ASSUME TypeOK, NEW s \in Scanners, CommitScan(s)
  PROVE  Committed(s)
  <1> DEFINE new == {i \in Listing(s) : item[i].seq = 0}
             last == IF new = {} THEN feed.last ELSE feed.last + 1
  <1>1. feed' = [feed EXCEPT !.known = TRUE, !.resume = FALSE, !.last = last, !.quota = 0, !.lease = "none",
                       !.unchanged = IF scanner[s].modified THEN scanner[s].items = Listed ELSE @]
    BY DEF CommitScan, Listing
  <1>2. feed'.last = last
    BY <1>1, Typed DEF Feeds
  <1>3. item' = [i \in Items |->
              [seq |-> IF i \in Listing(s) /\ item[i].seq = 0 THEN last ELSE item[i].seq,
               attributes |-> IF i \in Listing(s) THEN scanner[s].items[i] ELSE item[i].attributes]]
    BY DEF CommitScan, Listing
  <1>4. rule' = IF Baseline THEN [r \in Rules |-> [rule[r] EXCEPT !.boundary = last, !.pending = FALSE]] ELSE rule
    BY DEF CommitScan, Listing
  <1>5. decision' = [i \in Items |-> [r \in Rules |->
              IF Baseline \/ i \notin Listing(s) THEN Known(s, i, r)
              ELSE Decided(rule, item'[i].seq, r, Known(s, i, r))]]
    BY DEF CommitScan, Listing, Known
  <1>6. seen' = [i \in Items |-> [r \in Rules |->
              IF ~Baseline /\ i \in Listing(s) /\ item[i].seq = 0 /\ rule[r].state = "on" /\ seen[i][r] = "no"
                THEN "due"
              ELSE IF Baseline /\ seen[i][r] = "due" THEN "interrupted"
              ELSE seen[i][r]]]
    BY DEF CommitScan, Listing
  <1>7. /\ scanner[s].phase = "fetched" /\ feed.lease = s
        /\ scanner' = [scanner EXCEPT ![s] = NoScan]
        /\ UNCHANGED <<site, job, edits>>
    BY DEF CommitScan
  <1>8. evaluator' \in {evaluator, [evaluator EXCEPT !.fresh = FALSE]}
    BY DEF CommitScan, EvaluationOutdated
  <1>9. last = IF \E i \in Listing(s) : item[i].seq = 0 THEN feed.last + 1 ELSE feed.last
    OBVIOUS
  <1>10. FeedCommitted(s) /\ ItemsCommitted(s) /\ RulesCommitted
    <2>1. FeedCommitted(s)
      BY <1>1, <1>2, <1>7, <1>9 DEF FeedCommitted
    <2>2. ItemsCommitted(s)
      BY <1>2, <1>3 DEF ItemsCommitted
    <2>3. RulesCommitted
      BY <1>2, <1>4 DEF RulesCommitted
    <2> QED
      BY <2>1, <2>2, <2>3
  <1>11. DecisionsCommitted(s) /\ SeenCommitted(s) /\ OthersCommitted(s)
    BY <1>5, <1>6, <1>7, <1>8 DEF DecisionsCommitted, SeenCommitted, OthersCommitted
  <1> QED
    BY <1>10, <1>11 DEF Committed

LEMMA CommitScanType ==
  ASSUME TypeOK, NEW s \in Scanners, CommitScan(s)
  PROVE  TypeOK'
  <1>0. Committed(s)
    BY ScanCommitted
  <1>a. feed \in Feeds /\ item \in [Items -> [seq : Nat, attributes : Attributes]] /\ scanner[s] \in Scans
    BY Typed
  <1>b. rule \in [Rules -> RuleRows] /\ seen \in [Items -> [Rules -> Sightings]]
    BY Typed
  <1>1. feed'.last \in Nat
    BY <1>0, <1>a DEF Committed, FeedCommitted, Feeds
  <1>2. feed' \in Feeds
    BY <1>0, <1>1, <1>a, Constants DEF Committed, FeedCommitted, Feeds
  <1>3. item' \in [Items -> [seq : Nat, attributes : Attributes]]
    <2>1. \A i \in Listing(s) : scanner[s].items[i] \in Attributes
      BY <1>a DEF Listing, Scans
    <2> QED
      BY <1>0, <1>1, <1>a, <2>1 DEF Committed, ItemsCommitted
  <1>4. rule' \in [Rules -> RuleRows]
    BY <1>0, <1>1, <1>b DEF Committed, RulesCommitted, RuleRows
  <1>5. decision' \in [Items -> [Rules -> Decisions]]
    <2>1. \A i \in Items, r \in Rules : Known(s, i, r) \in Decisions
      BY Typed, Constants DEF Known
    <2> QED
      BY <2>1, <1>0, DecidedType DEF Committed, DecisionsCommitted
  <1>6. scanner' \in [Scanners -> Scans]
    BY <1>0, Typed, Constants DEF Committed, OthersCommitted
  <1>7. evaluator' \in Evaluations
    BY <1>0, Typed DEF Committed, OthersCommitted, Evaluations
  <1>8. seen' \in [Items -> [Rules -> Sightings]]
    BY <1>0, <1>b DEF Committed, SeenCommitted, Sightings
  <1>9. /\ site' \in [Items -> Attributes \cup {"absent", "gone"}]
        /\ job' \in [Items -> [Downloaders -> Rules \cup {NoRule}]]
        /\ edits' \in 0..MaxEdits
    BY <1>0, Typed DEF Committed, OthersCommitted
  <1> QED
    BY <1>2, <1>3, <1>4, <1>5, <1>6, <1>7, <1>8, <1>9
       DEF TypeOK, Feeds, RuleRows, Scans, Evaluations, Sightings

(* A decision when the matcher comes to it, the rules that take part, and  *)
(* those that take the item.                                               *)
Reconsidered(i, a, r) ==
  IF a = item[i].attributes THEN decision[i][r]
  ELSE Decided(rule, item[i].seq, r, [decision[i][r] EXCEPT !.current = FALSE])

Participants(i, a) == {r \in Rules : rule[r].state = "on" /\ Reconsidered(i, a, r).status \in Open}

Winners(i, a) == Enqueued(i, a, Participants(i, a))

(* What an evaluation leaves behind.                                       *)
DecisionsEvaluated(i, a) ==
  /\ decision' \in [Items -> [Rules -> Decisions]]
  /\ \A j \in Items \ {i} : decision'[j] = decision[j]
  /\ \A r \in Rules :
       IF r \in Participants(i, a) THEN decision'[i][r].status = Outcome(i, a, Participants(i, a), r)
       ELSE decision'[i][r] = Reconsidered(i, a, r)

JobsEvaluated(i, a) ==
  /\ job' \in [Items -> [Downloaders -> Rules \cup {NoRule}]]
  /\ \A j \in Items \ {i} : job'[j] = job[j]
  /\ \A d \in Downloaders :
       IF \E r \in Winners(i, a) : DownloaderOf[r] = d
         THEN job'[i][d] \in Winners(i, a) /\ DownloaderOf[job'[i][d]] = d
         ELSE job'[i][d] = job[i][d]

OthersEvaluated(i, a) ==
  /\ feed.state = "on"
  /\ item' = [item EXCEPT ![i].attributes = a]
  /\ feed' = [feed EXCEPT !.quota = @ + Cardinality(Winners(i, a))]
  /\ evaluator' = NoEvaluation
  /\ UNCHANGED <<site, rule, scanner, seen, edits>>

Evaluated(i, a) == DecisionsEvaluated(i, a) /\ JobsEvaluated(i, a) /\ OthersEvaluated(i, a)

LEMMA OutcomeStatus ==
  ASSUME NEW i, NEW a, NEW rules, NEW r
  PROVE  Outcome(i, a, rules, r) \in Open \cup Settled
  BY DEF Outcome, Open, Settled

LEMMA EvaluationCommitted ==
  ASSUME TypeOK, EvaluationInv, CommitEvaluation
  PROVE  \E i \in Items, a \in Attributes : Evaluated(i, a)
  <1> DEFINE i == evaluator.item
  <1>1. i \in Items
    BY DEF CommitEvaluation, EvaluationInv
  <1> HIDE DEF i
  <1> DEFINE reopened(a) == IF a = item[i].attributes THEN decision
                            ELSE [decision EXCEPT ![i] = [r \in Rules |->
                                    Decided(rule, item[i].seq, r, [@[r] EXCEPT !.current = FALSE])]]
             winners(a) == Enqueued(i, a, OpenRules(reopened(a), i))
  <1>2. PICK a \in Enriched(i) :
          /\ item' = [item EXCEPT ![i].attributes = a]
          /\ decision' = [reopened(a) EXCEPT ![i] = [r \in Rules |->
               IF r \in OpenRules(reopened(a), i)
                 THEN [@[r] EXCEPT !.status = Outcome(i, a, OpenRules(reopened(a), i), r), !.current = TRUE]
               ELSE @[r]]]
          /\ job' = [job EXCEPT ![i] = [d \in Downloaders |->
               IF \E r \in winners(a) : DownloaderOf[r] = d THEN CHOOSE r \in winners(a) : DownloaderOf[r] = d
               ELSE @[d]]]
          /\ feed' = [feed EXCEPT !.quota = @ + Cardinality(winners(a))]
    BY DEF CommitEvaluation, i
  <1>3. a \in Attributes
    BY <1>1, <1>2, Typed DEF Enriched, Attributes
  <1>4. /\ reopened(a) \in [Items -> [Rules -> Decisions]]
        /\ \A j \in Items \ {i} : reopened(a)[j] = decision[j]
        /\ \A r \in Rules : reopened(a)[i][r] = Reconsidered(i, a, r)
    BY <1>1, Typed, Constants, DecidedType DEF Reconsidered
  <1> HIDE DEF reopened
  <1>5. OpenRules(reopened(a), i) = Participants(i, a)
    BY <1>4 DEF OpenRules, Participants
  <1>6. winners(a) = Winners(i, a)
    BY <1>5 DEF Winners
  <1> HIDE DEF winners
  <1>7. DecisionsEvaluated(i, a)
    <2>1. decision' = [reopened(a) EXCEPT ![i] = [r \in Rules |->
               IF r \in Participants(i, a)
                 THEN [@[r] EXCEPT !.status = Outcome(i, a, Participants(i, a), r), !.current = TRUE]
               ELSE @[r]]]
      BY <1>2, <1>5
    <2>2. \A d \in Decisions, r \in Rules :
             [d EXCEPT !.status = Outcome(i, a, Participants(i, a), r), !.current = TRUE] \in Decisions
      BY OutcomeStatus DEF Decisions
    <2>3. \A j \in Items \ {i} : decision'[j] = decision[j]
      BY <2>1, <1>1, <1>4
    <2>4. \A r \in Rules : decision'[i][r] =
             IF r \in Participants(i, a)
               THEN [reopened(a)[i][r] EXCEPT !.status = Outcome(i, a, Participants(i, a), r), !.current = TRUE]
             ELSE reopened(a)[i][r]
      BY <2>1, <1>1, <1>4
    <2>5. decision' \in [Items -> [Rules -> Decisions]]
      BY <2>1, <2>2, <1>1, <1>4
    <2>6. \A r \in Rules : r \in Participants(i, a) => decision'[i][r].status = Outcome(i, a, Participants(i, a), r)
      <3>1. \A d \in Decisions : \A v : [d EXCEPT !.status = v, !.current = TRUE].status = v
        BY DEF Decisions
      <3>2. \A r \in Rules : reopened(a)[i][r] \in Decisions
        BY <1>1, <1>4
      <3> SUFFICES ASSUME NEW r \in Participants(i, a)
                   PROVE  decision'[i][r].status = Outcome(i, a, Participants(i, a), r)
        OBVIOUS
      <3>3. r \in Rules
        BY DEF Participants
      <3>4. decision'[i][r] = [reopened(a)[i][r] EXCEPT !.status = Outcome(i, a, Participants(i, a), r), !.current = TRUE]
        BY <2>4, <3>3
      <3> QED
        BY <3>1, <3>2, <3>3, <3>4
    <2> QED
      BY <2>3, <2>4, <2>5, <2>6, <1>4 DEF DecisionsEvaluated
  <1>8. JobsEvaluated(i, a)
    <2>1. Winners(i, a) \subseteq Rules
      BY DEF Winners, Enqueued, Matched, Decisive, Participants
    <2>2. job \in [Items -> [Downloaders -> Rules \cup {NoRule}]]
      BY Typed
    <2>3. \A d \in Downloaders : (\E r \in Winners(i, a) : DownloaderOf[r] = d) =>
             LET q == CHOOSE r \in Winners(i, a) : DownloaderOf[r] = d
             IN  q \in Winners(i, a) /\ DownloaderOf[q] = d
      OBVIOUS
    <2>4. job' = [job EXCEPT ![i] = [d \in Downloaders |->
               IF \E r \in Winners(i, a) : DownloaderOf[r] = d THEN CHOOSE r \in Winners(i, a) : DownloaderOf[r] = d
               ELSE @[d]]]
      BY <1>2, <1>6
    <2>5. \A d \in Downloaders : job'[i][d] =
               IF \E r \in Winners(i, a) : DownloaderOf[r] = d THEN CHOOSE r \in Winners(i, a) : DownloaderOf[r] = d
               ELSE job[i][d]
      BY <1>1, <2>2, <2>4
    <2>6. \A j \in Items \ {i} : job'[j] = job[j]
      BY <1>1, <2>2, <2>4
    <2>7. job' \in [Items -> [Downloaders -> Rules \cup {NoRule}]]
      BY <1>1, <2>1, <2>2, <2>3, <2>4
    <2> QED
      BY <2>3, <2>5, <2>6, <2>7 DEF JobsEvaluated
  <1>9. OthersEvaluated(i, a)
    BY <1>2, <1>6 DEF CommitEvaluation, OthersEvaluated
  <1> QED
    BY <1>1, <1>3, <1>7, <1>8, <1>9 DEF Evaluated

LEMMA CommitEvaluationType ==
  ASSUME TypeOK, EvaluationInv, CommitEvaluation
  PROVE  TypeOK'
  <1>1. PICK i \in Items, a \in Attributes : Evaluated(i, a)
    BY EvaluationCommitted
  <1>2. feed.quota + Cardinality(Winners(i, a)) \in 0..Quota
    BY EnqueuedBound DEF Winners, Participants
  <1>3. feed' \in Feeds
    BY <1>1, <1>2, Typed DEF Evaluated, OthersEvaluated, Feeds
  <1>4. item' \in [Items -> [seq : Nat, attributes : Attributes]]
    BY <1>1, Typed DEF Evaluated, OthersEvaluated
  <1>5. evaluator' \in Evaluations
    BY <1>1, Constants DEF Evaluated, OthersEvaluated
  <1>6. decision' \in [Items -> [Rules -> Decisions]] /\ job' \in [Items -> [Downloaders -> Rules \cup {NoRule}]]
    BY <1>1 DEF Evaluated, DecisionsEvaluated, JobsEvaluated
  <1>7. /\ site' \in [Items -> Attributes \cup {"absent", "gone"}]
        /\ rule' \in [Rules -> RuleRows]
        /\ scanner' \in [Scanners -> Scans]
        /\ edits' \in 0..MaxEdits
        /\ seen' \in [Items -> [Rules -> Sightings]]
    BY <1>1, Typed DEF Evaluated, OthersEvaluated
  <1> QED
    BY <1>3, <1>4, <1>5, <1>6, <1>7 DEF TypeOK, Feeds, RuleRows, Scans, Evaluations, Sightings

(* What the preparation of a download leaves of its item.                  *)
Prepared(i, a) ==
  /\ item' = [item EXCEPT ![i].attributes = a]
  /\ decision' \in [Items -> [Rules -> Decisions]]
  /\ \A j \in Items \ {i} : decision'[j] = decision[j]
  /\ \A r \in Rules : decision'[i][r] = Reconsidered(i, a, r)
  /\ evaluator' \in {evaluator, [evaluator EXCEPT !.fresh = FALSE]}
  /\ UNCHANGED <<site, feed, rule, job, scanner, seen, edits>>

LEMMA SubmissionPrepared ==
  ASSUME TypeOK, NEW i \in Items, PrepareSubmission(i)
  PROVE  \E a \in Attributes : Prepared(i, a)
  <1>1. PICK a \in Attributes \ {item[i].attributes} : item' = [item EXCEPT ![i].attributes = a]
    BY DEF PrepareSubmission
  <1>2. decision \in [Items -> [Rules -> Decisions]]
    BY Typed
  <1>3. decision' = [decision EXCEPT ![i] = [r \in Rules |->
           Decided(rule, item[i].seq, r, [decision[i][r] EXCEPT !.current = FALSE])]]
    BY <1>2 DEF PrepareSubmission
  <1>4. \A r \in Rules : Reconsidered(i, a, r) = Decided(rule, item[i].seq, r, [decision[i][r] EXCEPT !.current = FALSE])
    BY <1>1 DEF Reconsidered
  <1>5. \A r \in Rules : Reconsidered(i, a, r) \in Decisions
    <2> SUFFICES ASSUME NEW r \in Rules
                 PROVE  Reconsidered(i, a, r) \in Decisions
      OBVIOUS
    <2>1. [decision[i][r] EXCEPT !.current = FALSE] \in Decisions
      BY <1>2, Constants
    <2> QED
      BY <1>4, <2>1, DecidedType
  <1>6. decision' = [decision EXCEPT ![i] = [r \in Rules |-> Reconsidered(i, a, r)]]
    BY <1>3, <1>4
  <1>7. /\ decision' \in [Items -> [Rules -> Decisions]]
        /\ \A j \in Items \ {i} : decision'[j] = decision[j]
        /\ \A r \in Rules : decision'[i][r] = Reconsidered(i, a, r)
    BY <1>2, <1>5, <1>6
  <1>8. /\ evaluator' \in {evaluator, [evaluator EXCEPT !.fresh = FALSE]}
        /\ UNCHANGED <<site, feed, rule, job, scanner, seen, edits>>
    BY DEF PrepareSubmission, EvaluationOutdated
  <1> QED
    BY <1>1, <1>7, <1>8 DEF Prepared

LEMMA PreparedType ==
  ASSUME TypeOK, NEW i \in Items, PrepareSubmission(i)
  PROVE  TypeOK'
  <1>1. PICK a \in Attributes : Prepared(i, a)
    BY SubmissionPrepared
  <1>2. item' \in [Items -> [seq : Nat, attributes : Attributes]]
    BY <1>1, Typed DEF Prepared
  <1>3. evaluator' \in Evaluations
    BY <1>1, Typed DEF Prepared, Evaluations
  <1> QED
    BY <1>1, <1>2, <1>3 DEF Prepared, TypeOK, Evaluations

LEMMA FeedSavedType ==
  ASSUME feed \in Feeds, NEW enabled \in BOOLEAN
  PROVE  /\ FeedSaved(enabled) \in Feeds
         /\ FeedSaved(enabled) = [feed EXCEPT !.state = FeedSaved(enabled).state,
                                 !.resume = FeedSaved(enabled).resume, !.lease = "none"]
         /\ FeedSaved(enabled).state = Enabled(enabled) /\ FeedSaved(enabled).lease = "none"
         /\ FeedSaved(enabled).last = feed.last /\ FeedSaved(enabled).known = feed.known
         /\ FeedSaved(enabled).unchanged = feed.unchanged
         /\ FeedSaved(enabled).resume = (feed.resume \/ (feed.state = "off" /\ enabled))
  BY DEF FeedSaved, Feeds, Enabled

LEMMA ResetType ==
  ASSUME NEW f \in Feeds, NEW saved \in RuleRows
  PROVE  Reset(f, saved) \in RuleRows
  BY DEF Reset, Feeds, RuleRows

LEMMA RuleSavedType ==
  ASSUME TypeOK, NEW f \in Feeds, NEW r \in Rules, NEW enabled \in BOOLEAN, NEW filters \in FiltersOf[r],
         RuleSaved(f, r, enabled, filters)
  PROVE  /\ rule' \in [Rules -> RuleRows]
         /\ decision' \in [Items -> [Rules -> Decisions]]
         /\ seen' \in [Items -> [Rules -> Sightings]]
  <1>1. filters \in Filters
    BY Parameters
  <1>2. /\ rule \in [Rules -> RuleRows] /\ decision \in [Items -> [Rules -> Decisions]]
        /\ seen \in [Items -> [Rules -> Sightings]]
    BY Typed
  <1>3. [rule[r] EXCEPT !.state = Enabled(enabled), !.filters = filters] \in RuleRows
    BY <1>1, <1>2 DEF RuleRows, Enabled
  <1>4. rule' \in [Rules -> RuleRows]
    BY <1>2, <1>3, ResetType DEF RuleSaved
  <1>5. decision' \in [Items -> [Rules -> Decisions]]
    BY <1>2, Constants DEF RuleSaved
  <1>6. seen' \in [Items -> [Rules -> Sightings]]
    BY <1>2 DEF RuleSaved, Sightings
  <1> QED
    BY <1>4, <1>5, <1>6

LEMMA OutdatedType ==
  ASSUME evaluator \in Evaluations
  PROVE  /\ FeedOutdated => evaluator' \in Evaluations
         /\ \A r : RuleOutdated(r) => evaluator' \in Evaluations
  BY DEF FeedOutdated, RuleOutdated, Evaluations

LEMMA CancelledType ==
  ASSUME NEW d \in Decisions
  PROVE  Cancelled(d) \in Decisions
  BY Constants DEF Cancelled, Settled

LEMMA PeopleTypes ==
  ASSUME TypeOK, PeopleStep
  PROVE  TypeOK'
  <1> USE DEF Edit
  <1>1. /\ site \in [Items -> Attributes \cup {"absent", "gone"}]
        /\ feed \in Feeds
        /\ item \in [Items -> [seq : Nat, attributes : Attributes]]
        /\ rule \in [Rules -> RuleRows]
        /\ decision \in [Items -> [Rules -> Decisions]]
        /\ job \in [Items -> [Downloaders -> Rules \cup {NoRule}]]
        /\ scanner \in [Scanners -> Scans]
        /\ evaluator \in Evaluations
        /\ edits \in 0..MaxEdits
        /\ seen \in [Items -> [Rules -> Sightings]]
    BY Typed
  <1>2. ASSUME   /\ site' \in [Items -> Attributes \cup {"absent", "gone"}]
                 /\ feed' \in Feeds
                 /\ item' \in [Items -> [seq : Nat, attributes : Attributes]]
                 /\ rule' \in [Rules -> RuleRows]
                 /\ decision' \in [Items -> [Rules -> Decisions]]
                 /\ job' \in [Items -> [Downloaders -> Rules \cup {NoRule}]]
                 /\ scanner' \in [Scanners -> Scans]
                 /\ evaluator' \in Evaluations
                 /\ edits' \in 0..MaxEdits
                 /\ seen' \in [Items -> [Rules -> Sightings]]
        PROVE    TypeOK'
    BY <1>2 DEF TypeOK, Feeds, RuleRows, Scans, Evaluations, Sightings
  <1>3. edits < MaxEdits /\ edits' = edits + 1 => edits' \in 0..MaxEdits
    BY <1>1, Parameters
  <1>4. ASSUME NEW enabled \in BOOLEAN, SaveFeed(enabled)
        PROVE  TypeOK'
    BY <1>1, <1>2, <1>3, <1>4, FeedSavedType, OutdatedType DEF SaveFeed
  <1>5. CASE ArchiveFeed
    <2>1. feed' \in Feeds
      BY <1>1, <1>5 DEF ArchiveFeed, Feeds
    <2>2. rule' \in [Rules -> RuleRows]
      BY <1>1, <1>5 DEF ArchiveFeed, RuleRows
    <2>3. decision' \in [Items -> [Rules -> Decisions]]
      BY <1>1, <1>5, CancelledType DEF ArchiveFeed
    <2> QED
      BY <2>1, <2>2, <2>3, <1>1, <1>2, <1>3, <1>5, OutdatedType DEF ArchiveFeed
  <1>6. ASSUME NEW r \in Rules, ResumeRule(r)
        PROVE  TypeOK'
    <2>1. [rule[r] EXCEPT !.state = "on"] \in RuleRows
      BY <1>1 DEF RuleRows
    <2>2. rule' \in [Rules -> RuleRows]
      BY <2>1, <1>1, <1>6, ResetType DEF ResumeRule
    <2>3. decision' \in [Items -> [Rules -> Decisions]]
      BY <1>1, <1>6, Constants DEF ResumeRule, Settled
    <2> QED
      BY <2>2, <2>3, <1>1, <1>2, <1>3, <1>6, OutdatedType DEF ResumeRule
  <1>7. ASSUME NEW r \in Rules, PauseRule(r)
        PROVE  TypeOK'
    <2>1. rule' \in [Rules -> RuleRows]
      BY <1>1, <1>7 DEF PauseRule, RuleRows
    <2>2. seen' \in [Items -> [Rules -> Sightings]]
      BY <1>1, <1>7 DEF PauseRule, Sightings
    <2> QED
      BY <2>1, <2>2, <1>1, <1>2, <1>3, <1>7, OutdatedType DEF PauseRule
  <1>8. ASSUME NEW r \in Rules, ArchiveRule(r)
        PROVE  TypeOK'
    <2>1. rule' \in [Rules -> RuleRows]
      BY <1>1, <1>8 DEF ArchiveRule, RuleRows
    <2>2. decision' \in [Items -> [Rules -> Decisions]]
      BY <1>1, <1>8, CancelledType DEF ArchiveRule
    <2> QED
      BY <2>1, <2>2, <1>1, <1>2, <1>3, <1>8, OutdatedType DEF ArchiveRule
  <1>9. ASSUME NEW r \in Rules, NEW enabled \in BOOLEAN, NEW filters \in FiltersOf[r],
               SaveRule(r, enabled, filters)
        PROVE  TypeOK'
    BY <1>1, <1>2, <1>3, <1>9, RuleSavedType, OutdatedType DEF SaveRule
  <1>10. ASSUME NEW r \in Rules, NEW enabled \in BOOLEAN, NEW filters \in FiltersOf[r],
                SaveSubscription(r, enabled, filters)
         PROVE  TypeOK'
    <2>1. FeedSaved(enabled) \in Feeds
      BY <1>1, FeedSavedType
    <2> QED
      BY <2>1, <1>1, <1>2, <1>3, <1>10, RuleSavedType, OutdatedType DEF SaveSubscription
  <1>11. ASSUME NEW i \in Items, NEW r \in Rules, Backfill(i, r)
         PROVE  TypeOK'
    <2>1. decision' \in [Items -> [Rules -> Decisions]]
      <3>1. \A d \in Decisions : [d EXCEPT !.status = "pending", !.manual = TRUE] \in Decisions
        BY DEF Decisions, Open
      <3> QED
        BY <3>1, <1>1, <1>11, Constants DEF Backfill
    <2>2. seen' \in [Items -> [Rules -> Sightings]]
      BY <1>1, <1>11 DEF Backfill, Sightings
    <2> QED
      BY <2>1, <2>2, <1>1, <1>2, <1>3, <1>11 DEF Backfill
  <1> QED
    BY <1>4, <1>5, <1>6, <1>7, <1>8, <1>9, <1>10, <1>11 DEF PeopleStep

LEMMA SystemTypes ==
  ASSUME TypeOK, SystemStep
  PROVE  TypeOK'
  <1>1. feed \in Feeds /\ Shown \subseteq Attributes
    BY Typed, Parameters
  <1>2. ASSUME NEW i \in Items, NEW attributes \in Shown, Publish(i, attributes)
        PROVE  TypeOK'
    <2>1. feed' \in Feeds
      BY <1>1, <1>2 DEF Publish, Feeds
    <2>2. site' \in [Items -> Attributes \cup {"absent", "gone"}]
      BY <1>1, <1>2, Typed DEF Publish
    <2>3. seen' \in [Items -> [Rules -> Sightings]]
      BY <1>2, Typed DEF Publish, Sightings
    <2> QED
      BY <1>2, <2>1, <2>2, <2>3 DEF Publish, TypeOK, Feeds, Sightings
  <1>3. ASSUME NEW i \in Items, Drop(i)
        PROVE  TypeOK'
    <2>1. feed' \in Feeds
      BY <1>1, <1>3 DEF Drop, Feeds
    <2>2. site' \in [Items -> Attributes \cup {"absent", "gone"}]
      BY <1>3, Typed DEF Drop
    <2> QED
      BY <1>3, <2>1, <2>2 DEF Drop, TypeOK, Feeds
  <1>4. CASE LeaseExpires
    <2>1. feed' \in Feeds
      BY <1>1, <1>4 DEF LeaseExpires, Feeds
    <2> QED
      BY <1>4, <2>1 DEF LeaseExpires, TypeOK, Feeds
  <1>5. CASE Crash \/ Stop
    <2>1. feed' \in Feeds
      BY <1>1, <1>5 DEF Crash, Stop, Feeds
    <2>2. scanner' \in [Scanners -> Scans] /\ evaluator' \in Evaluations
      BY <1>5, Constants DEF Crash, Stop
    <2> QED
      BY <1>5, <2>1, <2>2 DEF Crash, Stop, TypeOK, Feeds, Scans, Evaluations
  <1> QED
    BY <1>2, <1>3, <1>4, <1>5 DEF SystemStep

LEMMA NextTypeOK ==
  ASSUME TypeOK, EvaluationInv, [Next]_vars
  PROVE  TypeOK' /\ EvaluationInv'
  <1>1. TypeOK'
    <2>1. ASSUME NEW i \in Items, ClaimEvaluation(i)
          PROVE  TypeOK'
      <3>1. evaluator' \in Evaluations
        BY <2>1 DEF ClaimEvaluation, OpenRules, Evaluations
      <3> QED
        BY <2>1, <3>1 DEF ClaimEvaluation, TypeOK, Evaluations
    <2>2. CASE EvaluationConflicts
      <3>1. evaluator' \in Evaluations
        BY <2>2, Constants DEF EvaluationConflicts
      <3> QED
        BY <2>2, <3>1 DEF EvaluationConflicts, TypeOK, Evaluations
    <2>3. CASE UNCHANGED vars
      BY <2>3 DEF vars, TypeOK
    <2> QED
      BY <2>1, <2>2, <2>3, ScanTypes, CommitScanType, CommitEvaluationType, PreparedType, PeopleTypes, SystemTypes
         DEF Next, ScanStep, MatchStep, JobStep
  <1>2. evaluator'.fresh => evaluator'.item \in Items
    <2>1. evaluator \in Evaluations
      BY Typed
    <2>2. ASSUME NEW s \in Scanners, CommitScan(s)
          PROVE  evaluator' \in {evaluator, [evaluator EXCEPT !.fresh = FALSE]}
      BY <2>2, ScanCommitted DEF Committed, OthersCommitted
    <2>3. ASSUME NEW s \in Scanners, ClaimFeed(s) \/ Fetch(s) \/ FailScan(s) \/ ScanConflicts(s)
          PROVE  evaluator' = evaluator
      BY <2>3 DEF ClaimFeed, Fetch, FailScan, ScanConflicts
    <2>4. MatchStep => evaluator' = NoEvaluation \/ evaluator'.item \in Items
      <3>1. \A i \in Items : ClaimEvaluation(i) => evaluator'.item \in Items
        BY DEF ClaimEvaluation
      <3>2. EvaluationConflicts \/ CommitEvaluation => evaluator' = NoEvaluation
        BY DEF EvaluationConflicts, CommitEvaluation
      <3> QED
        BY <3>1, <3>2 DEF MatchStep
    <2>5. PeopleStep => evaluator' \in {evaluator, [evaluator EXCEPT !.fresh = FALSE]}
      BY DEF PeopleStep, SaveFeed, ArchiveFeed, ResumeRule, PauseRule, ArchiveRule, SaveRule, SaveSubscription, Backfill,
             FeedOutdated, RuleOutdated
    <2>6. SystemStep => evaluator' \in {evaluator, NoEvaluation}
      BY DEF SystemStep, Publish, Drop, LeaseExpires, Crash, Stop
    <2>7. JobStep => evaluator' \in {evaluator, [evaluator EXCEPT !.fresh = FALSE]}
      BY DEF JobStep, PrepareSubmission, EvaluationOutdated
    <2>8. evaluator' \in {evaluator, [evaluator EXCEPT !.fresh = FALSE], NoEvaluation} \/ evaluator'.item \in Items
      BY <2>2, <2>3, <2>4, <2>5, <2>6, <2>7 DEF Next, ScanStep, vars
    <2> QED
      BY <2>1, <2>8 DEF EvaluationInv, Evaluations, NoEvaluation
  <1> QED
    BY <1>1, <1>2 DEF EvaluationInv

-----------------------------------------------------------------------------
(* The steps.                                                              *)

(* The feed: only a scan numbers items and makes a baseline.               *)
FeedKept ==
  /\ feed'.state = feed.state /\ feed'.known = feed.known /\ feed'.resume = feed.resume /\ feed'.last = feed.last
  /\ feed'.lease \in {feed.lease, "none"}

LEMMA FeedSteps ==
  ASSUME TypeOK, [Next]_vars
  PROVE  \/ FeedKept
         \/ \E s \in Scanners : ClaimFeed(s) \/ CommitScan(s)
         \/ \E enabled \in BOOLEAN : feed.state # "archived" /\ feed' = FeedSaved(enabled)
         \/ ArchiveFeed
  <1>1. feed \in Feeds
    BY Typed
  <1>2. \A s \in Scanners : Fetch(s) \/ FailScan(s) \/ ScanConflicts(s) => FeedKept
    BY <1>1 DEF Fetch, FailScan, ScanConflicts, FeedKept, Feeds
  <1>3. (\E i \in Items : ClaimEvaluation(i)) \/ EvaluationConflicts => FeedKept
    BY DEF ClaimEvaluation, EvaluationConflicts, FeedKept
  <1>4. CommitEvaluation => FeedKept
    <2> SUFFICES ASSUME CommitEvaluation
                 PROVE  FeedKept
      OBVIOUS
    <2>1. \E n : feed' = [feed EXCEPT !.quota = n]
      BY DEF CommitEvaluation
    <2> QED
      BY <1>1, <2>1 DEF FeedKept, Feeds
  <1>5. \A r \in Rules : ResumeRule(r) \/ PauseRule(r) \/ ArchiveRule(r) => feed' = feed
    BY DEF ResumeRule, PauseRule, ArchiveRule
  <1>6. \A r \in Rules, enabled \in BOOLEAN : \A filters \in FiltersOf[r] : SaveRule(r, enabled, filters) => feed' = feed
    BY DEF SaveRule
  <1>7. \A r \in Rules, enabled \in BOOLEAN : \A filters \in FiltersOf[r] : SaveSubscription(r, enabled, filters) =>
          feed.state # "archived" /\ feed' = FeedSaved(enabled)
    BY DEF SaveSubscription
  <1>8. \A i \in Items, r \in Rules : Backfill(i, r) => feed' = feed
    BY DEF Backfill
  <1>9. \A enabled \in BOOLEAN : SaveFeed(enabled) => feed.state # "archived" /\ feed' = FeedSaved(enabled)
    BY DEF SaveFeed
  <1>10. SystemStep => FeedKept
    BY <1>1 DEF SystemStep, Publish, Drop, LeaseExpires, Crash, Stop, FeedKept, Feeds
  <1>11. JobStep => feed' = feed
    BY DEF JobStep, PrepareSubmission
  <1>12. feed' = feed => FeedKept
    BY DEF FeedKept
  <1> QED
    BY <1>2, <1>3, <1>4, <1>5, <1>6, <1>7, <1>8, <1>9, <1>10, <1>11, <1>12 DEF Next, ScanStep, MatchStep, PeopleStep, vars

(* What a rule that is saved becomes.                                      *)
OtherRulesKept(r) ==
  \A q \in Rules \ {r} : rule'[q] = rule[q] /\ \A i \in Items : decision'[i][q] = decision[i][q] /\ seen'[i][q] = seen[i][q]

FromNowOn(f, r) == rule'[r].boundary = f.last /\ rule'[r].pending = (~f.known \/ f.resume)

Revised(f, r) ==
  /\ FromNowOn(f, r)
  /\ \A i \in Items : /\ decision'[i][r] = NoDecision
                       /\ seen'[i][r] = IF seen[i][r] = "missed" THEN "missed" ELSE "no"

Resaved(f, r) ==
  /\ rule[r].state \in {"on", "off"} /\ rule'[r].filters = rule[r].filters
  /\ \/ rule[r].state = "off" /\ FromNowOn(f, r)
     \/ /\ rule'[r].state = "on" => rule[r].state = "on"
        /\ rule'[r].boundary = rule[r].boundary /\ rule'[r].pending = rule[r].pending
  /\ \A i \in Items : /\ decision'[i][r] = decision[i][r]
                       /\ seen'[i][r] = IF rule'[r].state = "off" /\ seen[i][r] = "due" THEN "interrupted" ELSE seen[i][r]

LEMMA SavedRule ==
  ASSUME TypeOK, NEW f \in Feeds, NEW r \in Rules, NEW enabled \in BOOLEAN, NEW filters \in FiltersOf[r],
         RuleSaved(f, r, enabled, filters)
  PROVE  /\ OtherRulesKept(r)
         /\ rule[r].state # "archived" /\ rule'[r].state = Enabled(enabled)
         /\ Revised(f, r) \/ Resaved(f, r)
  <1>1. /\ rule \in [Rules -> RuleRows] /\ decision \in [Items -> [Rules -> Decisions]]
        /\ seen \in [Items -> [Rules -> Sightings]]
    BY Typed
  <1> DEFINE revised == rule[r].state = "none" \/ rule[r].filters # filters
             saved == [rule[r] EXCEPT !.state = Enabled(enabled), !.filters = filters]
  <1>2. /\ saved.state = Enabled(enabled) /\ saved.filters = filters
        /\ saved.boundary = rule[r].boundary /\ saved.pending = rule[r].pending
        /\ Reset(f, saved).state = saved.state /\ Reset(f, saved).filters = saved.filters
        /\ Reset(f, saved).boundary = f.last /\ Reset(f, saved).pending = (~f.known \/ f.resume)
    BY <1>1 DEF RuleRows, Reset
  <1>3. rule'[r] = IF revised \/ (rule[r].state = "off" /\ enabled) THEN Reset(f, saved) ELSE saved
    BY <1>1 DEF RuleSaved
  <1>4. \A i \in Items : decision'[i][r] = IF revised THEN NoDecision ELSE decision[i][r]
    BY <1>1 DEF RuleSaved
  <1>5. \A i \in Items : seen'[i][r] =
          IF revised /\ seen[i][r] # "missed" THEN "no"
          ELSE IF ~enabled /\ seen[i][r] = "due" THEN "interrupted" ELSE seen[i][r]
    BY <1>1 DEF RuleSaved
  <1>6. OtherRulesKept(r)
    BY <1>1 DEF RuleSaved, OtherRulesKept
  <1>7. rule'[r].state = Enabled(enabled) /\ rule[r].state # "archived"
    BY <1>2, <1>3 DEF RuleSaved
  <1>8. CASE revised
    BY <1>2, <1>3, <1>4, <1>5, <1>6, <1>7, <1>8 DEF Revised, FromNowOn
  <1>9. CASE ~revised
    <2>1. rule[r].state \in {"on", "off"} /\ rule'[r].filters = rule[r].filters
      BY <1>1, <1>2, <1>3, <1>7, <1>9 DEF RuleRows
    <2>2. CASE rule[r].state = "off" /\ enabled
      BY <2>1, <2>2, <1>2, <1>3, <1>4, <1>5, <1>6, <1>7, <1>9 DEF Resaved, FromNowOn, Enabled
    <2>3. CASE ~(rule[r].state = "off" /\ enabled)
      BY <2>1, <2>3, <1>2, <1>3, <1>4, <1>5, <1>6, <1>7, <1>9 DEF Resaved, Enabled
    <2> QED
      BY <2>2, <2>3
  <1> QED
    BY <1>6, <1>7, <1>8, <1>9

(* A rule is saved, of the feed as it is after the step.                   *)
SavingStep(r) ==
  /\ feed.state # "archived" /\ OtherRulesKept(r) /\ rule[r].state # "archived"
  /\ rule'[r].state \in {"on", "off"}
  /\ Revised(feed', r) \/ Resaved(feed', r)
  /\ UNCHANGED <<site, item, job, scanner>>

LEMMA SavingSteps ==
  ASSUME TypeOK, NEW r \in Rules, NEW enabled \in BOOLEAN, NEW filters \in FiltersOf[r],
         SaveRule(r, enabled, filters) \/ SaveSubscription(r, enabled, filters)
  PROVE  SavingStep(r)
  <1>1. feed \in Feeds
    BY Typed
  <1>2. CASE SaveRule(r, enabled, filters)
    BY <1>1, <1>2, SavedRule DEF SaveRule, SavingStep, Enabled
  <1>3. CASE SaveSubscription(r, enabled, filters)
    BY <1>1, <1>3, SavedRule, FeedSavedType DEF SaveSubscription, SavingStep, Enabled
  <1> QED
    BY <1>2, <1>3

(* All other steps leave the rows alone.                                   *)
RowsKept == UNCHANGED <<item, rule, decision, job>>

QuietStep == RowsKept /\ (seen' = seen \/ \E i \in Items, a \in Shown : Publish(i, a))

LEMMA Steps ==
  ASSUME TypeOK, [Next]_vars
  PROVE  \/ QuietStep
         \/ \E s \in Scanners : CommitScan(s)
         \/ CommitEvaluation
         \/ \E i \in Items : PrepareSubmission(i)
         \/ ArchiveFeed
         \/ \E r \in Rules : ResumeRule(r) \/ PauseRule(r) \/ ArchiveRule(r) \/ SavingStep(r)
         \/ \E i \in Items, r \in Rules : Backfill(i, r)
  <1>1. \A s \in Scanners : ClaimFeed(s) \/ Fetch(s) \/ FailScan(s) \/ ScanConflicts(s) => QuietStep
    BY DEF ClaimFeed, Fetch, FailScan, ScanConflicts, QuietStep, RowsKept
  <1>2. (\E i \in Items : ClaimEvaluation(i)) \/ EvaluationConflicts => QuietStep
    BY DEF ClaimEvaluation, EvaluationConflicts, QuietStep, RowsKept
  <1>3. \A enabled \in BOOLEAN : SaveFeed(enabled) => QuietStep
    BY DEF SaveFeed, QuietStep, RowsKept
  <1>4. SystemStep => QuietStep
    BY DEF SystemStep, Publish, Drop, LeaseExpires, Crash, Stop, QuietStep, RowsKept
  <1>5. UNCHANGED vars => QuietStep
    BY DEF vars, QuietStep, RowsKept
  <1> QED
    BY <1>1, <1>2, <1>3, <1>4, <1>5, SavingSteps DEF Next, ScanStep, MatchStep, JobStep, PeopleStep

LEMMA NextLease == TypeOK /\ LeaseInv /\ [Next]_vars => LeaseInv'
  <1> SUFFICES ASSUME TypeOK, LeaseInv, [Next]_vars, feed'.state # "on"
               PROVE  feed'.lease = "none"
    BY DEF LeaseInv
  <1>1. feed \in Feeds
    BY Typed
  <1>2. CASE FeedKept
    BY <1>2 DEF FeedKept, LeaseInv
  <1>3. ASSUME NEW s \in Scanners, ClaimFeed(s) \/ CommitScan(s)
        PROVE  feed'.lease = "none"
    <2>1. CASE ClaimFeed(s)
      BY <1>1, <2>1 DEF ClaimFeed, Feeds
    <2>2. CASE CommitScan(s)
      BY <1>1, <2>2, ScanCommitted DEF Committed, FeedCommitted, Feeds
    <2> QED
      BY <1>3, <2>1, <2>2
  <1>4. ASSUME NEW enabled \in BOOLEAN, feed' = FeedSaved(enabled)
        PROVE  feed'.lease = "none"
    BY <1>1, <1>4, FeedSavedType
  <1>5. CASE ArchiveFeed
    BY <1>1, <1>5 DEF ArchiveFeed, Feeds
  <1> QED
    BY <1>2, <1>3, <1>4, <1>5, FeedSteps

(* Where the feed stands after a step.                                     *)
LEMMA FeedMoves ==
  ASSUME TypeOK, [Next]_vars
  PROVE  /\ feed.last <= feed'.last /\ feed.last \in Nat /\ feed'.last \in Nat
         /\ (\A s \in Scanners : ~CommitScan(s)) => feed'.last = feed.last /\ (Baseline => Baseline')
  <1>1. feed \in Feeds
    BY Typed
  <1>2. CASE FeedKept
    BY <1>1, <1>2 DEF FeedKept, Baseline, Feeds
  <1>3. ASSUME NEW s \in Scanners, ClaimFeed(s)
        PROVE  feed'.last = feed.last /\ feed'.known = feed.known /\ feed'.resume = feed.resume
    BY <1>1, <1>3 DEF ClaimFeed, Feeds
  <1>4. ASSUME NEW s \in Scanners, CommitScan(s)
        PROVE  feed'.last \in {feed.last, feed.last + 1}
    BY <1>4, ScanCommitted DEF Committed, FeedCommitted
  <1>5. ASSUME NEW enabled \in BOOLEAN, feed' = FeedSaved(enabled)
        PROVE  feed'.last = feed.last /\ feed'.known = feed.known /\ (feed.resume => feed'.resume)
    BY <1>1, <1>5, FeedSavedType
  <1>6. CASE ArchiveFeed
    BY <1>1, <1>6 DEF ArchiveFeed, Baseline, Feeds
  <1>7. feed.last \in Nat
    BY <1>1 DEF Feeds
  <1> QED
    BY <1>2, <1>3, <1>4, <1>5, <1>6, <1>7, FeedSteps DEF Baseline

(* The sequence numbers of items, and the boundaries of rules.             *)
LEMMA SequenceMoves ==
  ASSUME TypeOK, [Next]_vars, \A s \in Scanners : ~CommitScan(s)
  PROVE  /\ \A i \in Items : item'[i].seq = item[i].seq
         /\ \A r \in Rules : \/ /\ rule'[r].boundary = rule[r].boundary /\ rule'[r].pending = rule[r].pending
                                /\ rule'[r].state = "on" => rule[r].state = "on"
                             \/ /\ rule'[r].boundary = feed.last
                                /\ rule'[r].pending => Baseline'
  <1>1. item \in [Items -> [seq : Nat, attributes : Attributes]] /\ rule \in [Rules -> RuleRows] /\ feed \in Feeds
    BY Typed
  <1>2. CASE QuietStep
    BY <1>2 DEF QuietStep, RowsKept
  <1>3. CASE CommitEvaluation
    <2>1. \E i, a : item' = [item EXCEPT ![i].attributes = a]
      BY <1>3 DEF CommitEvaluation
    <2>2. \A i \in Items : item'[i].seq = item[i].seq
      BY <1>1, <2>1
    <2> QED
      BY <1>3, <2>2 DEF CommitEvaluation
  <1>4. CASE ArchiveFeed
    <2>1. \A r \in Rules : rule'[r].state # "on" /\ rule'[r].boundary = rule[r].boundary /\ rule'[r].pending = rule[r].pending
      BY <1>1, <1>4 DEF ArchiveFeed, RuleRows
    <2> QED
      BY <1>4, <2>1 DEF ArchiveFeed
  <1>5. ASSUME NEW q \in Rules, ResumeRule(q)
        PROVE  /\ item' = item /\ feed' = feed /\ \A r \in Rules \ {q} : rule'[r] = rule[r]
               /\ rule'[q].boundary = feed.last /\ rule'[q].pending = Baseline
    <2>1. rule'[q] = Reset(feed, [rule[q] EXCEPT !.state = "on"])
      BY <1>1, <1>5 DEF ResumeRule
    <2>2. rule'[q].boundary = feed.last /\ rule'[q].pending = Baseline
      BY <1>1, <2>1 DEF Reset, RuleRows, Baseline
    <2> QED
      BY <1>1, <1>5, <2>2 DEF ResumeRule
  <1>6. ASSUME NEW q \in Rules, PauseRule(q) \/ ArchiveRule(q)
        PROVE  /\ item' = item /\ \A r \in Rules \ {q} : rule'[r] = rule[r]
               /\ rule'[q].boundary = rule[q].boundary /\ rule'[q].pending = rule[q].pending /\ rule'[q].state # "on"
    BY <1>1, <1>6 DEF PauseRule, ArchiveRule, RuleRows
  <1>7. ASSUME NEW q \in Rules, SavingStep(q)
        PROVE  /\ item' = item /\ \A r \in Rules \ {q} : rule'[r] = rule[r]
               /\ \/ rule'[q].boundary = feed'.last /\ rule'[q].pending = Baseline'
                  \/ /\ rule'[q].boundary = rule[q].boundary /\ rule'[q].pending = rule[q].pending
                     /\ rule'[q].state = "on" => rule[q].state = "on"
    BY <1>7 DEF SavingStep, OtherRulesKept, Revised, Resaved, FromNowOn, Baseline
  <1>8. ASSUME NEW i \in Items, NEW r \in Rules, Backfill(i, r)
        PROVE  item' = item /\ rule' = rule
    BY <1>8 DEF Backfill
  <1>9. ASSUME NEW j \in Items, PrepareSubmission(j)
        PROVE  rule' = rule /\ \A i \in Items : item'[i].seq = item[i].seq
    <2>1. PICK a \in Attributes : Prepared(j, a)
      BY <1>9, SubmissionPrepared
    <2> QED
      BY <1>1, <2>1 DEF Prepared
  <1>10. feed'.last = feed.last
    BY FeedMoves
  <1> QED
    BY <1>2, <1>3, <1>4, <1>5, <1>6, <1>7, <1>8, <1>9, <1>10, Steps DEF Baseline

LEMMA NextBoundary == TypeOK /\ BoundaryInv /\ [Next]_vars => BoundaryInv'
  <1> SUFFICES ASSUME TypeOK, BoundaryInv, [Next]_vars, NEW r \in Rules, rule'[r].pending
               PROVE  Baseline'
    BY DEF BoundaryInv
  <1>1. CASE \A s \in Scanners : ~CommitScan(s)
    <2>1. Baseline => Baseline'
      BY <1>1, FeedMoves
    <2>2. rule'[r].pending = rule[r].pending \/ Baseline'
      BY <1>1, SequenceMoves
    <2> QED
      BY <2>1, <2>2 DEF BoundaryInv
  <1>2. ASSUME NEW s \in Scanners, CommitScan(s)
        PROVE  FALSE
    <2>1. RulesCommitted /\ rule \in [Rules -> RuleRows]
      BY <1>2, ScanCommitted, Typed DEF Committed
    <2> QED
      BY <2>1 DEF RulesCommitted, RuleRows, BoundaryInv
  <1> QED
    BY <1>1, <1>2

(* Decisions: who makes one about an item that had none.                   *)
LEMMA ReconsideredStatus ==
  ASSUME TypeOK, NEW i \in Items, NEW a, NEW r \in Rules
  PROVE  /\ Reconsidered(i, a, r) \in Decisions
         /\ Reconsidered(i, a, r).status # "none" =>
              decision[i][r].status # "none" \/ (rule[r].state = "on" /\ Past(i, r))
  <1> DEFINE d == [decision[i][r] EXCEPT !.current = FALSE]
  <1>1. decision[i][r] \in Decisions
    BY Typed
  <1>2. d \in Decisions /\ d.status = decision[i][r].status
    BY <1>1, Constants DEF Decisions
  <1>3. Reconsidered(i, a, r) \in Decisions
    BY <1>1, <1>2, DecidedType DEF Reconsidered
  <1> HIDE DEF d
  <1>4. Reopened(d).status # "none" => d.status # "none"
    BY <1>2 DEF Reopened
  <1>5. Decided(rule, item[i].seq, r, d).status # "none" => d.status # "none" \/ (rule[r].state = "on" /\ Past(i, r))
    BY <1>4 DEF Decided, Past
  <1> QED
    BY <1>2, <1>3, <1>5 DEF Reconsidered, d

LEMMA KnownStatus ==
  ASSUME TypeOK, NEW s \in Scanners, NEW i \in Items, NEW r \in Rules
  PROVE  Known(s, i, r) \in Decisions /\ Known(s, i, r).status = decision[i][r].status
  <1>1. decision[i][r] \in Decisions
    BY Typed
  <1> QED
    BY <1>1, Constants DEF Known, Decisions

(* What a scan, an evaluation and people do to a decision that was not     *)
(* made: the rule is on and past its boundary, or a person asks for it.    *)
LEMMA FirstDecision ==
  ASSUME TypeOK, EvaluationInv, [Next]_vars, NEW i \in Items, NEW r \in Rules,
         decision[i][r].status = "none", decision'[i][r].status # "none"
  PROVE  \/ /\ rule[r].state = "on" /\ ~rule[r].pending /\ item'[i].seq > rule[r].boundary
            /\ ~Baseline /\ \E s \in Scanners : CommitScan(s)
         \/ rule[r].state = "on" /\ Past(i, r)
         \/ Backfill(i, r)
  <1>1. decision \in [Items -> [Rules -> Decisions]] /\ item \in [Items -> [seq : Nat, attributes : Attributes]]
    BY Typed
  <1>2. CASE QuietStep
    BY <1>2 DEF QuietStep, RowsKept
  <1>3. ASSUME NEW s \in Scanners, CommitScan(s)
        PROVE  rule[r].state = "on" /\ ~rule[r].pending /\ item'[i].seq > rule[r].boundary /\ ~Baseline /\ i \in Listing(s)
    <2>1. DecisionsCommitted(s)
      BY <1>3, ScanCommitted DEF Committed
    <2>2. Known(s, i, r).status = "none"
      BY KnownStatus
    <2>3. ~Baseline /\ i \in Listing(s) /\ decision'[i][r] = Decided(rule, item'[i].seq, r, Known(s, i, r))
      BY <2>1, <2>2 DEF DecisionsCommitted
    <2> QED
      BY <2>2, <2>3 DEF Decided, Reopened
  <1>4. CASE CommitEvaluation
    <2>1. PICK j \in Items, a \in Attributes : Evaluated(j, a)
      BY <1>4, EvaluationCommitted
    <2>2. i = j
      BY <2>1 DEF Evaluated, DecisionsEvaluated
    <2>3. Reconsidered(i, a, r).status # "none"
      BY <2>1, <2>2 DEF Evaluated, DecisionsEvaluated, Participants, Open
    <2> QED
      BY <2>3, ReconsideredStatus
  <1>5. CASE ArchiveFeed
    <2>1. decision'[i][r] = Cancelled(decision[i][r])
      BY <1>5 DEF ArchiveFeed
    <2> QED
      BY <2>1 DEF Cancelled
  <1>6. ASSUME NEW q \in Rules, ResumeRule(q) \/ PauseRule(q) \/ ArchiveRule(q) \/ SavingStep(q)
        PROVE  FALSE
    <2>1. CASE ResumeRule(q)
      BY <1>1, <2>1 DEF ResumeRule
    <2>2. CASE PauseRule(q)
      BY <2>2 DEF PauseRule
    <2>3. CASE ArchiveRule(q)
      BY <1>1, <2>3 DEF ArchiveRule, Cancelled
    <2>4. CASE SavingStep(q)
      BY <2>4 DEF SavingStep, OtherRulesKept, Revised, Resaved, NoDecision
    <2> QED
      BY <1>6, <2>1, <2>2, <2>3, <2>4
  <1>7. ASSUME NEW j \in Items, NEW q \in Rules, Backfill(j, q)
        PROVE  j = i /\ q = r
    BY <1>1, <1>7 DEF Backfill
  <1>8. ASSUME NEW j \in Items, PrepareSubmission(j)
        PROVE  rule[r].state = "on" /\ Past(i, r)
    <2>1. PICK a \in Attributes : Prepared(j, a)
      BY <1>8, SubmissionPrepared
    <2>2. i = j
      BY <2>1 DEF Prepared
    <2>3. Reconsidered(i, a, r).status # "none"
      BY <2>1, <2>2 DEF Prepared
    <2> QED
      BY <2>3, ReconsideredStatus
  <1> QED
    BY <1>2, <1>3, <1>4, <1>5, <1>6, <1>7, <1>8, Steps

(* The site, and what a scanner has read of it.                            *)
LEMMA SiteMoves ==
  ASSUME TypeOK, [Next]_vars, NEW i \in Items, site'[i] = "absent"
  PROVE  site[i] = "absent" /\ \A s \in Scanners : scanner'[s].items[i] \in {scanner[s].items[i], "absent"}
  <1>1. scanner \in [Scanners -> Scans] /\ site \in [Items -> Attributes \cup {"absent", "gone"}]
    BY Typed
  <1>2. NoScan.items[i] = "absent"
    BY DEF NoScan
  <1>3. ASSUME NEW s \in Scanners, Fetch(s)
        PROVE  site' = site /\ \A t \in Scanners : scanner'[t].items[i] \in {scanner[t].items[i], "absent"}
    <2>1. site' = site
      BY <1>3 DEF Fetch
    <2>2. Listed[i] = "absent"
      BY <2>1 DEF Listed
    <2>3. \E m \in BOOLEAN : scanner' = [scanner EXCEPT ![s] =
             [phase |-> "fetched", items |-> IF m THEN Listed ELSE NoScan.items, modified |-> m]]
      BY <1>3 DEF Fetch
    <2> QED
      BY <1>1, <1>2, <2>1, <2>2, <2>3
  <1>4. ASSUME NEW s \in Scanners, ClaimFeed(s) \/ FailScan(s) \/ ScanConflicts(s) \/ CommitScan(s)
        PROVE  site' = site /\ \A t \in Scanners : scanner'[t].items[i] \in {scanner[t].items[i], "absent"}
    <2>1. CASE ClaimFeed(s)
      <3>1. \A c \in Scans : [c EXCEPT !.phase = "claimed"].items = c.items
        BY DEF Scans
      <3> QED
        BY <1>1, <2>1, <3>1 DEF ClaimFeed
    <2>2. CASE FailScan(s) \/ ScanConflicts(s)
      BY <1>1, <1>2, <2>2 DEF FailScan, ScanConflicts
    <2>3. CASE CommitScan(s)
      BY <1>1, <1>2, <2>3 DEF CommitScan
    <2> QED
      BY <1>4, <2>1, <2>2, <2>3
  <1>5. MatchStep \/ JobStep \/ PeopleStep => site' = site /\ scanner' = scanner
    BY DEF MatchStep, ClaimEvaluation, EvaluationConflicts, CommitEvaluation, JobStep, PrepareSubmission, PeopleStep, SaveFeed, ArchiveFeed, ResumeRule,
           PauseRule, ArchiveRule, SaveRule, SaveSubscription, Backfill
  <1>6. SystemStep => site[i] = "absent" /\ \A t \in Scanners : scanner'[t].items[i] \in {scanner[t].items[i], "absent"}
    <2>1. ASSUME NEW j \in Items, NEW a \in Shown, Publish(j, a)
          PROVE  site[i] = "absent" /\ scanner' = scanner
      <3>1. a # "absent"
        BY Parameters DEF Attributes
      <3> QED
        BY <1>1, <2>1, <3>1 DEF Publish
    <2>2. ASSUME NEW j \in Items, Drop(j)
          PROVE  site[i] = "absent" /\ scanner' = scanner
      BY <1>1, <2>2 DEF Drop
    <2>3. LeaseExpires => site' = site /\ scanner' = scanner
      BY DEF LeaseExpires
    <2>4. Crash \/ Stop => site' = site /\ scanner' = [s \in Scanners |-> NoScan]
      BY DEF Crash, Stop
    <2> QED
      BY <2>1, <2>2, <2>3, <2>4, <1>2 DEF SystemStep
  <1> QED
    BY <1>3, <1>4, <1>5, <1>6 DEF Next, ScanStep, vars

LEMMA NextSequence == IInv /\ [Next]_vars /\ TypeOK' => SequenceInv'
  <1> SUFFICES ASSUME IInv, [Next]_vars, TypeOK'
               PROVE  SequenceInv'
    OBVIOUS
  <1>1. /\ item \in [Items -> [seq : Nat, attributes : Attributes]] /\ rule \in [Rules -> RuleRows] /\ feed \in Feeds
        /\ TypeOK /\ SequenceInv /\ EvaluationInv
    BY Typed DEF IInv
  <1>2. ASSUME NEW s \in Scanners, CommitScan(s)
        PROVE  /\ ItemsCommitted(s) /\ FeedCommitted(s) /\ RulesCommitted /\ OthersCommitted(s)
               /\ \A i \in Items : item'[i].seq = IF i \in Listing(s) /\ item[i].seq = 0 THEN feed'.last ELSE item[i].seq
               /\ \A i \in Listing(s) : item'[i].seq > 0
    <2>1. Committed(s)
      BY <1>1, <1>2, ScanCommitted
    <2>2. \A i \in Items : item'[i].seq = IF i \in Listing(s) /\ item[i].seq = 0 THEN feed'.last ELSE item[i].seq
      BY <2>1 DEF Committed, ItemsCommitted
    <2>3. \A i \in Listing(s) : i \in Items /\ item[i].seq \in Nat /\ feed.last \in Nat
      BY <1>1 DEF Listing, Feeds
    <2>4. \A i \in Listing(s) : item'[i].seq > 0
      BY <2>1, <2>2, <2>3 DEF Committed, FeedCommitted
    <2> QED
      BY <2>1, <2>2, <2>4 DEF Committed
  <1>3. feed.last <= feed'.last /\ feed.last \in Nat /\ feed'.last \in Nat
    BY <1>1, FeedMoves
  <1>4. ASSUME NEW i \in Items
        PROVE  item'[i].seq <= feed'.last
    <2>1. item[i].seq <= feed.last /\ item[i].seq \in Nat
      BY <1>1 DEF SequenceInv
    <2>2. item'[i].seq = item[i].seq \/ item'[i].seq = feed'.last
      BY <1>1, <1>2, SequenceMoves
    <2> QED
      BY <2>1, <2>2, <1>3
  <1>5. ASSUME NEW i \in Items, item'[i].seq = 0, NEW r \in Rules
        PROVE  decision'[i][r].status = "none"
    <2> SUFFICES ASSUME decision'[i][r].status # "none"
                 PROVE  FALSE
      OBVIOUS
    <2>1. item[i].seq = 0
      BY <1>1, <1>2, <1>5, SequenceMoves DEF Listing
    <2>2. decision[i][r].status = "none"
      BY <1>1, <2>1 DEF SequenceInv
    <2>3. rule[r].boundary \in Nat
      BY <1>1 DEF RuleRows
    <2>4. Backfill(i, r)
      BY <1>1, <1>5, <2>1, <2>2, <2>3, FirstDecision DEF Past
    <2> QED
      BY <2>1, <2>4 DEF Backfill
  <1>6. ASSUME NEW i \in Items, site'[i] = "absent"
        PROVE  item'[i].seq = 0 /\ \A s \in Scanners : scanner'[s].items[i] = "absent"
    <2>1. site[i] = "absent" /\ \A s \in Scanners : scanner'[s].items[i] \in {scanner[s].items[i], "absent"}
      BY <1>1, <1>6, SiteMoves
    <2>2. item[i].seq = 0 /\ \A s \in Scanners : scanner[s].items[i] = "absent"
      BY <1>1, <2>1 DEF SequenceInv
    <2>3. item'[i].seq = item[i].seq
      BY <1>1, <1>2, <2>2, SequenceMoves DEF Listing
    <2> QED
      BY <2>1, <2>2, <2>3
  <1>7. ASSUME NEW r \in Rules
        PROVE  rule'[r].boundary <= feed'.last
    <2>1. rule[r].boundary <= feed.last /\ rule[r].boundary \in Nat
      BY <1>1 DEF SequenceInv, RuleRows
    <2>2. rule'[r].boundary = rule[r].boundary \/ rule'[r].boundary \in {feed.last, feed'.last}
      <3>1. CASE \A s \in Scanners : ~CommitScan(s)
        BY <3>1, <1>1, SequenceMoves
      <3>2. ASSUME NEW s \in Scanners, CommitScan(s)
            PROVE  rule'[r].boundary \in {rule[r].boundary, feed'.last}
        <4>1. RulesCommitted
          BY <1>2, <3>2
        <4>2. rule[r] \in RuleRows
          BY <1>1
        <4> QED
          BY <4>1, <4>2 DEF RulesCommitted, RuleRows
      <3> QED
        BY <3>1, <3>2
    <2> QED
      BY <2>1, <2>2, <1>3
  <1> QED
    BY <1>4, <1>5, <1>6, <1>7 DEF SequenceInv

(* A scan numbers all it has found, and nothing else.                      *)
LEMMA Numbered ==
  ASSUME TypeOK, NEW s \in Scanners, CommitScan(s)
  PROVE  /\ \A i \in Items : item'[i].seq = IF i \in Listing(s) /\ item[i].seq = 0 THEN feed'.last ELSE item[i].seq
         /\ \A i \in Items : item'[i].seq \in Nat /\ item[i].seq \in Nat
         /\ \A i \in Items : item[i].seq > 0 \/ i \in Listing(s) <=> item'[i].seq > 0
         /\ \A i \in Items : item'[i].attributes = IF i \in Listing(s) THEN scanner[s].items[i] ELSE item[i].attributes
  <1>1. feed \in Feeds /\ item \in [Items -> [seq : Nat, attributes : Attributes]]
    BY Typed
  <1>2. Committed(s)
    BY ScanCommitted
  <1>3. \A i \in Items : item'[i].seq = IF i \in Listing(s) /\ item[i].seq = 0 THEN feed'.last ELSE item[i].seq
    BY <1>2 DEF Committed, ItemsCommitted
  <1>4. \A i \in Items : item'[i].attributes = IF i \in Listing(s) THEN scanner[s].items[i] ELSE item[i].attributes
    BY <1>2 DEF Committed, ItemsCommitted
  <1>5. feed'.last = IF \E i \in Listing(s) : item[i].seq = 0 THEN feed.last + 1 ELSE feed.last
    BY <1>2 DEF Committed, FeedCommitted
  <1>6. feed.last \in Nat /\ feed'.last \in Nat /\ \A i \in Items : item[i].seq \in Nat
    BY <1>1, <1>5 DEF Feeds
  <1>7. \A i \in Listing(s) : item[i].seq = 0 => feed'.last > 0
    BY <1>5, <1>6
  <1> QED
    BY <1>3, <1>4, <1>6, <1>7

LEMMA NextUnchanged == IInv /\ [Next]_vars /\ TypeOK' => UnchangedInv'
  <1> SUFFICES ASSUME IInv, [Next]_vars, TypeOK', feed'.unchanged,
                      NEW i \in Items, site'[i] \notin {"absent", "gone"}
               PROVE  item'[i].seq > 0
    BY DEF UnchangedInv
  <1>1. TypeOK /\ UnchangedInv /\ feed \in Feeds /\ site \in [Items -> Attributes \cup {"absent", "gone"}]
    BY Typed DEF IInv
  <1>2. ASSUME NEW s \in Scanners, CommitScan(s)
        PROVE  item'[i].seq > 0
    <2>1. /\ site' = site
          /\ feed' = [feed EXCEPT !.known = TRUE, !.resume = FALSE, !.last = feed'.last, !.quota = 0, !.lease = "none",
                        !.unchanged = IF scanner[s].modified THEN scanner[s].items = Listed ELSE @]
      BY <1>1, <1>2, ScanCommitted DEF Committed, FeedCommitted, OthersCommitted
    <2>2. feed'.unchanged = IF scanner[s].modified THEN scanner[s].items = Listed ELSE feed.unchanged
      BY <1>1, <2>1 DEF Feeds
    <2>3. CASE scanner[s].items = Listed
      <3>1. i \in Listing(s)
        BY <1>1, <2>1, <2>3 DEF Listing, Listed
      <3> QED
        BY <1>1, <1>2, <3>1, Numbered
    <2>4. CASE feed.unchanged
      BY <1>1, <1>2, <2>1, <2>4, Numbered DEF UnchangedInv
    <2> QED
      BY <2>2, <2>3, <2>4
  <1>3. CASE \A s \in Scanners : ~CommitScan(s)
    <2>1. item'[i].seq = item[i].seq
      BY <1>1, <1>3, SequenceMoves
    <2>2. feed.unchanged /\ site'[i] = site[i]
      <3>1. ASSUME NEW j \in Items, NEW a \in Shown, Publish(j, a)
            PROVE  FALSE
        BY <1>1, <3>1 DEF Publish, Feeds
      <3>2. ASSUME NEW j \in Items, Drop(j)
            PROVE  FALSE
        BY <1>1, <3>2 DEF Drop, Feeds
      <3>3. \A s \in Scanners : ClaimFeed(s) \/ Fetch(s) \/ FailScan(s) \/ ScanConflicts(s) =>
              site' = site /\ feed'.unchanged = feed.unchanged
        BY <1>1 DEF ClaimFeed, Fetch, FailScan, ScanConflicts, Feeds
      <3>4. MatchStep => site' = site /\ feed'.unchanged = feed.unchanged
        <4>1. CASE CommitEvaluation
          <5>1. \E n : feed' = [feed EXCEPT !.quota = n]
            BY <4>1 DEF CommitEvaluation
          <5> QED
            BY <1>1, <4>1, <5>1 DEF CommitEvaluation, Feeds
        <4> QED
          BY <4>1 DEF MatchStep, ClaimEvaluation, EvaluationConflicts
      <3>5. PeopleStep => site' = site /\ feed'.unchanged = feed.unchanged
        <4>1. \A enabled \in BOOLEAN : FeedSaved(enabled).unchanged = feed.unchanged
          BY <1>1, FeedSavedType
        <4>2. \A enabled \in BOOLEAN : SaveFeed(enabled) => site' = site /\ feed'.unchanged = feed.unchanged
          BY <4>1 DEF SaveFeed
        <4>3. ArchiveFeed => site' = site /\ feed'.unchanged = feed.unchanged
          BY <1>1 DEF ArchiveFeed, Feeds
        <4>4. \A r \in Rules, enabled \in BOOLEAN : \A filters \in FiltersOf[r] :
                 SaveRule(r, enabled, filters) \/ SaveSubscription(r, enabled, filters) =>
                   site' = site /\ feed'.unchanged = feed.unchanged
          BY <4>1 DEF SaveRule, SaveSubscription
        <4> QED
          BY <4>2, <4>3, <4>4 DEF PeopleStep, ResumeRule, PauseRule, ArchiveRule, Backfill
      <3>6. LeaseExpires \/ Crash \/ Stop => site' = site /\ feed'.unchanged = feed.unchanged
        BY <1>1 DEF LeaseExpires, Crash, Stop, Feeds
      <3>7. JobStep => site' = site /\ feed' = feed
        BY DEF JobStep, PrepareSubmission
      <3> QED
        BY <1>3, <3>1, <3>2, <3>3, <3>4, <3>5, <3>6, <3>7 DEF Next, ScanStep, SystemStep, vars
    <2> QED
      BY <1>1, <2>1, <2>2 DEF UnchangedInv
  <1> QED
    BY <1>2, <1>3

(* Nothing becomes missed but what is published while nobody is watching.  *)
LEMMA MissedMoves ==
  ASSUME IInv, [Next]_vars, TypeOK', NEW i \in Items, Missed(i)'
  PROVE  \/ Missed(i) /\ \A s \in Scanners : CommitScan(s) => i \notin Listing(s)
         \/ Unwatched /\ \E a \in Shown : Publish(i, a)
  <1>1. TypeOK /\ item \in [Items -> [seq : Nat, attributes : Attributes]] /\ seen \in [Items -> [Rules -> Sightings]]
    BY Typed DEF IInv
  <1>2. PICK r \in Rules : item'[i].seq = 0 /\ seen'[i][r] = "missed"
    BY DEF Missed
  <1>3. item[i].seq = 0 /\ \A s \in Scanners : CommitScan(s) => i \notin Listing(s)
    <2>1. CASE \A s \in Scanners : ~CommitScan(s)
      BY <1>1, <1>2, <2>1, SequenceMoves
    <2>2. ASSUME NEW s \in Scanners, CommitScan(s)
          PROVE  item[i].seq = 0 /\ i \notin Listing(s)
      <3>1. ~(item'[i].seq > 0) /\ item[i].seq \in Nat
        BY <1>1, <1>2, <2>2, Numbered
      <3> QED
        BY <1>1, <2>2, <3>1, Numbered
    <2> QED
      BY <2>1, <2>2
  <1>4. seen[i][r] = "missed" \/ (Unwatched /\ \E a \in Shown : Publish(i, a))
    <2>1. CASE QuietStep
      <3>1. ASSUME NEW j \in Items, NEW a \in Shown, Publish(j, a)
            PROVE  seen[i][r] = "missed" \/ (Unwatched /\ i = j)
        BY <1>1, <1>2, <3>1 DEF Publish
      <3> QED
        BY <2>1, <3>1, <1>2 DEF QuietStep
    <2>2. ASSUME NEW s \in Scanners, CommitScan(s)
          PROVE  seen[i][r] = "missed"
      <3>1. SeenCommitted(s)
        BY <1>1, <2>2, ScanCommitted DEF Committed
      <3> QED
        BY <1>2, <3>1 DEF SeenCommitted
    <2>3. CASE CommitEvaluation \/ ArchiveFeed \/ \E j \in Items : PrepareSubmission(j)
      BY <1>2, <2>3 DEF CommitEvaluation, ArchiveFeed, PrepareSubmission
    <2>4. ASSUME NEW q \in Rules, ResumeRule(q) \/ PauseRule(q) \/ ArchiveRule(q)
          PROVE  seen[i][r] = "missed"
      BY <1>1, <1>2, <2>4 DEF ResumeRule, PauseRule, ArchiveRule
    <2>5. ASSUME NEW q \in Rules, SavingStep(q)
          PROVE  seen[i][r] = "missed"
      BY <1>1, <1>2, <2>5 DEF SavingStep, OtherRulesKept, Revised, Resaved
    <2>6. ASSUME NEW j \in Items, NEW q \in Rules, Backfill(j, q)
          PROVE  seen[i][r] = "missed"
      BY <1>1, <1>2, <2>6 DEF Backfill
    <2> QED
      BY <1>1, <2>1, <2>2, <2>3, <2>4, <2>5, <2>6, Steps
  <1> QED
    BY <1>3, <1>4 DEF Missed

LEMMA ScannerMoves ==
  ASSUME TypeOK, [Next]_vars, NEW s \in Scanners, scanner'[s].phase = "fetched"
  PROVE  scanner'[s] = scanner[s] \/ Fetch(s)
  <1>1. scanner \in [Scanners -> Scans]
    BY Typed
  <1>2. NoScan.phase = "idle"
    BY DEF NoScan
  <1>3. ASSUME NEW t \in Scanners, ClaimFeed(t) \/ Fetch(t) \/ FailScan(t) \/ ScanConflicts(t) \/ CommitScan(t)
        PROVE  scanner'[s] = scanner[s] \/ Fetch(s)
    <2>1. CASE ClaimFeed(t)
      <3>1. \A c \in Scans : [c EXCEPT !.phase = "claimed"].phase = "claimed"
        BY DEF Scans
      <3> QED
        BY <1>1, <2>1, <3>1 DEF ClaimFeed
    <2>2. CASE Fetch(t)
      BY <1>1, <2>2 DEF Fetch
    <2>3. CASE FailScan(t) \/ ScanConflicts(t)
      BY <1>1, <1>2, <2>3 DEF FailScan, ScanConflicts
    <2>4. CASE CommitScan(t)
      BY <1>1, <1>2, <2>4 DEF CommitScan
    <2> QED
      BY <1>3, <2>1, <2>2, <2>3, <2>4
  <1>4. MatchStep \/ JobStep \/ PeopleStep => scanner' = scanner
    BY DEF MatchStep, ClaimEvaluation, EvaluationConflicts, CommitEvaluation, JobStep, PrepareSubmission, PeopleStep, SaveFeed, ArchiveFeed, ResumeRule,
           PauseRule, ArchiveRule, SaveRule, SaveSubscription, Backfill
  <1>5. SystemStep => scanner' = scanner \/ scanner' = [t \in Scanners |-> NoScan]
    BY DEF SystemStep, Publish, Drop, LeaseExpires, Crash, Stop
  <1> QED
    BY <1>2, <1>3, <1>4, <1>5 DEF Next, ScanStep, vars

(* What is gone stays away.                                                *)
LEMMA GoneForGood ==
  ASSUME TypeOK, [Next]_vars, NEW i \in Items, site[i] = "gone"
  PROVE  site'[i] = "gone"
  <1>1. site \in [Items -> Attributes \cup {"absent", "gone"}]
    BY Typed
  <1>2. ScanStep \/ MatchStep \/ JobStep \/ PeopleStep => site' = site
    BY DEF ScanStep, ClaimFeed, Fetch, FailScan, ScanConflicts, CommitScan, MatchStep, ClaimEvaluation, EvaluationConflicts,
           CommitEvaluation, JobStep, PrepareSubmission, PeopleStep, SaveFeed, ArchiveFeed, ResumeRule, PauseRule,
           ArchiveRule, SaveRule,
           SaveSubscription, Backfill
  <1>3. SystemStep => site'[i] = "gone"
    BY <1>1 DEF SystemStep, Publish, Drop, LeaseExpires, Crash, Stop
  <1> QED
    BY <1>2, <1>3 DEF Next, vars

LEMMA NextMissed == IInv /\ [Next]_vars /\ TypeOK' => MissedInv'
  <1> SUFFICES ASSUME IInv, [Next]_vars, TypeOK', NEW i \in Items, Missed(i)'
               PROVE  /\ site'[i] # "absent"
                      /\ feed'.state = "on" =>
                           /\ Baseline' => \A s \in Scanners : Holds(s)' => scanner'[s].items[i] # "absent" \/ site'[i] = "gone"
                           /\ ~Baseline' => /\ site'[i] = "gone"
                                           /\ \A s \in Scanners : Holds(s)' => scanner'[s].items[i] = "absent"
    BY DEF MissedInv
  <1>1. /\ TypeOK /\ MissedInv /\ LeaseInv /\ UnchangedInv
        /\ feed \in Feeds /\ scanner \in [Scanners -> Scans] /\ site \in [Items -> Attributes \cup {"absent", "gone"}]
        /\ "none" \notin Scanners
    BY Typed, Parameters DEF IInv
  <1>2. ASSUME Unwatched, NEW a \in Shown, Publish(i, a)
        PROVE  /\ site'[i] # "absent"
               /\ feed'.state = "on" => Baseline' /\ \A s \in Scanners : ~Holds(s)'
    <2>1. site'[i] # "absent"
      BY <1>1, <1>2, Parameters DEF Publish, Attributes
    <2>2. feed'.state = feed.state /\ feed'.known = feed.known /\ scanner' = scanner
      BY <1>1, <1>2 DEF Publish, Feeds
    <2> QED
      BY <1>2, <2>1, <2>2 DEF Unwatched, Baseline, Holds
  <1>3. CASE Missed(i) /\ \A s \in Scanners : CommitScan(s) => i \notin Listing(s)
    <2>1. site[i] # "absent" /\ site'[i] # "absent"
      BY <1>1, <1>3, SiteMoves DEF MissedInv
    <2>2. site[i] = "gone" => site'[i] = "gone"
      BY <1>1, GoneForGood
    <2>3. CASE FeedKept
      <3> SUFFICES ASSUME feed.state = "on"
                   PROVE  /\ Baseline => \A s \in Scanners : Holds(s)' => scanner'[s].items[i] # "absent" \/ site'[i] = "gone"
                          /\ ~Baseline => /\ site'[i] = "gone"
                                         /\ \A s \in Scanners : Holds(s)' => scanner'[s].items[i] = "absent"
        BY <2>1, <2>3 DEF FeedKept, Baseline
      <3>1. ~Baseline => site[i] = "gone"
        BY <1>1, <1>3 DEF MissedInv
      <3>2. ASSUME NEW s \in Scanners, Holds(s)'
            PROVE  /\ Baseline => scanner'[s].items[i] # "absent" \/ site'[i] = "gone"
                   /\ ~Baseline => scanner'[s].items[i] = "absent"
        <4>1. feed.lease = s /\ scanner'[s].phase = "fetched"
          BY <1>1, <2>3, <3>2 DEF FeedKept, Holds
        <4>2. CASE scanner'[s] = scanner[s]
          BY <1>1, <1>3, <2>2, <4>1, <4>2 DEF MissedInv, Holds
        <4>3. CASE Fetch(s)
          <5>1. PICK m \in BOOLEAN : /\ m \/ feed.unchanged
                                     /\ scanner'[s].items = IF m THEN Listed ELSE NoScan.items
            BY <1>1, <4>3 DEF Fetch
          <5>2. Listed[i] = (IF site[i] = "gone" THEN "absent" ELSE site[i]) /\ NoScan.items[i] = "absent"
            BY DEF Listed, NoScan
          <5>3. feed.unchanged => site[i] = "gone"
            <6>1. item[i].seq = 0
              BY <1>3 DEF Missed
            <6> QED
              BY <1>1, <2>1, <6>1 DEF UnchangedInv
          <5> QED
            BY <2>1, <2>2, <3>1, <5>1, <5>2, <5>3
        <4> QED
          BY <1>1, <4>1, <4>2, <4>3, ScannerMoves
      <3> QED
        BY <2>2, <3>1, <3>2
    <2>4. ASSUME NEW s \in Scanners, ClaimFeed(s)
          PROVE  /\ feed.state = "on" /\ (Baseline' <=> Baseline)
                 /\ \A t \in Scanners : ~Holds(t)'
      <3>1. feed'.lease = s /\ feed'.known = feed.known /\ feed'.resume = feed.resume
        BY <1>1, <2>4 DEF ClaimFeed, Feeds
      <3>2. scanner'[s].phase = "claimed"
        BY <1>1, <2>4 DEF ClaimFeed, Scans
      <3> QED
        BY <2>4, <3>1, <3>2 DEF ClaimFeed, Baseline, Holds
    <2>5. ASSUME NEW s \in Scanners, CommitScan(s)
          PROVE  site[i] = "gone" /\ \A t \in Scanners : ~Holds(t)'
      <3>1. FeedCommitted(s) /\ OthersCommitted(s)
        BY <1>1, <2>5, ScanCommitted DEF Committed
      <3>2. feed.state = "on" /\ Holds(s)
        BY <1>1, <3>1 DEF FeedCommitted, OthersCommitted, Holds, LeaseInv
      <3>3. scanner[s].items[i] = "absent"
        BY <1>3, <2>5 DEF Listing
      <3>4. feed'.lease = "none"
        BY <1>1, <3>1 DEF FeedCommitted, Feeds
      <3> QED
        BY <1>1, <1>3, <3>2, <3>3, <3>4 DEF MissedInv, Holds
    <2>6. ASSUME NEW enabled \in BOOLEAN, feed.state # "archived", feed' = FeedSaved(enabled), feed'.state = "on"
          PROVE  /\ ~Baseline' => feed.state = "on" /\ ~Baseline
                 /\ \A t \in Scanners : ~Holds(t)'
      <3>1. /\ feed'.lease = "none" /\ feed'.known = feed.known
            /\ feed'.resume = (feed.resume \/ (feed.state = "off" /\ enabled)) /\ feed'.state = Enabled(enabled)
        BY <1>1, <2>6, FeedSavedType
      <3>2. feed.state \in {"on", "off"}
        BY <1>1, <2>6 DEF Feeds
      <3> QED
        BY <1>1, <2>6, <3>1, <3>2 DEF Enabled, Baseline, Holds
    <2>7. CASE ArchiveFeed
      <3>1. feed'.state = "archived"
        BY <1>1, <2>7 DEF ArchiveFeed, Feeds
      <3> QED
        BY <2>1, <3>1
    <2>8. feed.state = "on" /\ ~Baseline => site[i] = "gone"
      BY <1>1, <1>3 DEF MissedInv
    <2> QED
      BY <1>1, <2>1, <2>2, <2>3, <2>4, <2>5, <2>6, <2>7, <2>8, FeedSteps
  <1> QED
    BY <1>2, <1>3, MissedMoves

(* A scan that is not a baseline shows every rule that is on what is new.  *)
LEMMA ScanShows ==
  ASSUME IInv, NEW s \in Scanners, CommitScan(s), ~Baseline, NEW i \in Items, NEW r \in Rules,
         rule[r].state = "on", ~rule[r].pending, item'[i].seq > rule[r].boundary
  PROVE  seen'[i][r] \notin {"no", "missed"}
  <1>1. /\ TypeOK /\ SeenInv /\ MissedInv /\ LeaseInv
        /\ feed \in Feeds /\ rule \in [Rules -> RuleRows] /\ item \in [Items -> [seq : Nat, attributes : Attributes]]
        /\ "none" \notin Scanners
    BY Typed, Parameters DEF IInv
  <1>2. SeenCommitted(s) /\ FeedCommitted(s) /\ OthersCommitted(s)
    BY <1>1, ScanCommitted DEF Committed
  <1>3. seen'[i][r] = IF i \in Listing(s) /\ item[i].seq = 0 /\ seen[i][r] = "no" THEN "due" ELSE seen[i][r]
    BY <1>2 DEF SeenCommitted
  <1>4. CASE item[i].seq # 0
    <2>1. item'[i].seq = item[i].seq
      BY <1>1, <1>4, Numbered
    <2> QED
      BY <1>1, <1>3, <1>4, <2>1 DEF SeenInv, Past
  <1>5. CASE item[i].seq = 0
    <2>1. i \in Listing(s)
      <3>1. item'[i].seq > 0
        BY <1>1, Numbered DEF RuleRows
      <3> QED
        BY <1>1, <1>5, <3>1, Numbered
    <2>2. feed.state = "on" /\ Holds(s)
      BY <1>1, <1>2 DEF FeedCommitted, OthersCommitted, Holds, LeaseInv
    <2>3. ~Missed(i)
      BY <1>1, <2>1, <2>2 DEF MissedInv, Listing
    <2> QED
      BY <1>3, <1>5, <2>1, <2>3 DEF Missed
  <1> QED
    BY <1>4, <1>5

LEMMA NextSeen == IInv /\ SequenceInv' /\ [Next]_vars /\ TypeOK' => SeenInv'
  <1> SUFFICES ASSUME IInv, SequenceInv', [Next]_vars, TypeOK', NEW i \in Items, NEW r \in Rules,
                      decision'[i][r].status # "none" \/ (rule'[r].state = "on" /\ Past(i, r)'),
                      seen'[i][r] \in {"no", "missed"}
               PROVE  FALSE
    BY DEF SeenInv
  <1>1. /\ TypeOK /\ SeenInv /\ SequenceInv /\ EvaluationInv
        /\ feed \in Feeds /\ rule \in [Rules -> RuleRows] /\ item \in [Items -> [seq : Nat, attributes : Attributes]]
        /\ decision \in [Items -> [Rules -> Decisions]] /\ seen \in [Items -> [Rules -> Sightings]]
    BY Typed DEF IInv
  <1>2. rule[r].boundary \in Nat /\ item[i].seq \in Nat /\ item[i].seq <= feed.last /\ feed.last \in Nat /\ feed'.last \in Nat
        /\ item'[i].seq <= feed'.last
    BY <1>1, FeedMoves DEF SequenceInv, RuleRows
  <1>3. CASE seen[i][r] \in {"no", "missed"}
    <2>1. decision[i][r].status = "none" /\ ~(rule[r].state = "on" /\ Past(i, r))
      BY <1>1, <1>3 DEF SeenInv
    <2>2. decision'[i][r].status = "none"
      <3>1. ~Backfill(i, r)
        BY <1>1 DEF Backfill
      <3> QED
        BY <1>1, <2>1, <3>1, FirstDecision, ScanShows
    <2>3. rule'[r].state = "on" /\ ~rule'[r].pending /\ item'[i].seq > rule'[r].boundary
      BY <2>2 DEF Past
    <2>4. ASSUME NEW s \in Scanners, CommitScan(s)
          PROVE  FALSE
      <3>1. RulesCommitted
        BY <1>1, <2>4, ScanCommitted DEF Committed
      <3>2. CASE Baseline
        <4>1. rule'[r].boundary = feed'.last
          BY <1>1, <3>1, <3>2 DEF RulesCommitted, RuleRows
        <4> QED
          BY <1>1, <1>2, <2>3, <4>1, Numbered, <2>4
      <3>3. CASE ~Baseline
        <4>1. rule' = rule
          BY <3>1, <3>3 DEF RulesCommitted
        <4> QED
          BY <2>3, <2>4, <3>3, <4>1, ScanShows
      <3> QED
        BY <3>2, <3>3
    <2>5. CASE \A s \in Scanners : ~CommitScan(s)
      <3>1. item'[i].seq = item[i].seq
        BY <1>1, <2>5, SequenceMoves
      <3>2. \/ /\ rule'[r].boundary = rule[r].boundary /\ rule'[r].pending = rule[r].pending
               /\ rule'[r].state = "on" => rule[r].state = "on"
            \/ rule'[r].boundary = feed.last
        BY <1>1, <2>5, SequenceMoves
      <3> QED
        BY <1>2, <2>1, <2>3, <3>1, <3>2 DEF Past
    <2> QED
      BY <2>4, <2>5
  <1>4. CASE seen[i][r] \notin {"no", "missed"}
    <2>1. CASE QuietStep
      <3>1. PICK a \in Shown : Publish(i, a) /\ site[i] = "absent"
        <4>1. ASSUME NEW j \in Items, NEW a \in Shown, Publish(j, a)
              PROVE  i = j /\ site[i] = "absent"
          BY <1>1, <1>4, <4>1 DEF Publish
        <4> QED
          BY <1>4, <2>1, <4>1 DEF QuietStep
      <3>2. item[i].seq = 0 /\ decision[i][r].status = "none"
        BY <1>1, <3>1 DEF SequenceInv
      <3> QED
        BY <1>2, <2>1, <3>2 DEF QuietStep, RowsKept, Past
    <2>2. ASSUME NEW s \in Scanners, CommitScan(s)
          PROVE  FALSE
      <3>1. SeenCommitted(s)
        BY <1>1, <2>2, ScanCommitted DEF Committed
      <3> QED
        BY <1>4, <3>1 DEF SeenCommitted
    <2>3. CASE CommitEvaluation \/ ArchiveFeed \/ \E j \in Items : PrepareSubmission(j)
      BY <1>4, <2>3 DEF CommitEvaluation, ArchiveFeed, PrepareSubmission
    <2>4. ASSUME NEW q \in Rules, ResumeRule(q) \/ PauseRule(q) \/ ArchiveRule(q)
          PROVE  FALSE
      BY <1>1, <1>4, <2>4 DEF ResumeRule, PauseRule, ArchiveRule
    <2>5. ASSUME NEW q \in Rules, SavingStep(q)
          PROVE  FALSE
      <3>1. q = r /\ Revised(feed', r)
        BY <1>4, <2>5 DEF SavingStep, OtherRulesKept, Resaved
      <3>2. decision'[i][r].status = "none" /\ rule'[r].boundary = feed'.last
        BY <3>1 DEF Revised, FromNowOn, NoDecision
      <3>3. item' = item
        BY <2>5 DEF SavingStep
      <3> QED
        BY <1>2, <3>2, <3>3 DEF Past
    <2>6. ASSUME NEW j \in Items, NEW q \in Rules, Backfill(j, q)
          PROVE  FALSE
      BY <1>1, <1>4, <2>6 DEF Backfill
    <2> QED
      BY <1>1, <2>1, <2>2, <2>3, <2>4, <2>5, <2>6, Steps
  <1> QED
    BY <1>3, <1>4

-----------------------------------------------------------------------------
(* Evaluation.                                                             *)

(* Rules that watch an item that is free on their downloader take part in  *)
(* its evaluation, or reject it as it is.                                  *)
LEMMA WatchersTakePart ==
  ASSUME TypeOK, NEW i \in Items, NEW a, NEW r \in Rules, rule[r].state = "on", Watches(i, r),
         job[i][DownloaderOf[r]] = NoRule
  PROVE  \/ r \in Participants(i, a)
         \/ /\ a = item[i].attributes /\ decision[i][r].status = "skipped" /\ r \notin Participants(i, a)
            /\ Verdict(rule[r].filters, i, a) = "rejected"
  <1>1. decision[i][r] \in Decisions
    BY Typed
  <1> DEFINE d == [decision[i][r] EXCEPT !.current = FALSE]
  <1>2. d.status = decision[i][r].status /\ d.current = FALSE /\ d \in Decisions
    BY <1>1 DEF Decisions
  <1> HIDE DEF d
  <1>3. d.status \in Open \cup {"skipped"} => Reopened(d).status = "pending"
    BY <1>2 DEF Reopened, Open, Decisions
  <1>4. d.status \in Open \cup {"skipped"} => Decided(rule, item[i].seq, r, d).status \in Open
    BY <1>3 DEF Decided, Watches, Past, Open
  <1> QED
    BY <1>2, <1>4 DEF Watches, Participants, Reconsidered, Open, d

LEMMA WinnersAreRules ==
  ASSUME NEW i, NEW a
  PROVE  /\ Winners(i, a) \subseteq Rules /\ NoRule \notin Winners(i, a)
         /\ \A r \in Winners(i, a) : /\ r \in Participants(i, a) /\ job[i][DownloaderOf[r]] = NoRule
                                     /\ \A q \in Before(r, Participants(i, a)) : Verdict(rule[q].filters, i, a) = "rejected"
  BY Parameters DEF Winners, Enqueued, Matched, Decisive, Participants

(* A rule is skipped only when it rejects the item.                        *)
LEMMA SkippedRejects ==
  ASSUME NEW i, NEW a, NEW rules \in SUBSET Rules, NEW r \in rules, Outcome(i, a, rules, r) = "skipped"
  PROVE  Verdict(rule[r].filters, i, a) = "rejected"
  <1> DEFINE S == {q \in Before(r, rules) : Verdict(rule[q].filters, i, a) # "rejected"}
  <1>1. /\ job[i][DownloaderOf[r]] = NoRule /\ r \notin Decisive(i, a, rules)
        /\ Before(r, rules) \cap Decisive(i, a, rules) = {}
    BY DEF Outcome
  <1>2. S = {}
    <2> SUFFICES ASSUME S # {}
                 PROVE  FALSE
      OBVIOUS
    <2>1. S \in SUBSET Rules
      BY DEF Before
    <2>2. PICK q \in S : \A p \in S : ~(p < q)
      BY <2>1, FirstRule
    <2>3. q \in rules /\ q \in Nat /\ r \in Nat /\ q < r /\ DownloaderOf[q] = DownloaderOf[r]
      BY <2>1, Parameters DEF Before
    <2>4. \A p \in Before(q, rules) : p \in Before(r, rules) /\ p < q
      <3> SUFFICES ASSUME NEW p \in Before(q, rules)
                   PROVE  p \in Before(r, rules) /\ p < q
        OBVIOUS
      <3>1. p \in rules /\ p \in Nat /\ p < q /\ DownloaderOf[p] = DownloaderOf[q]
        BY Parameters DEF Before
      <3> QED
        BY <2>3, <3>1 DEF Before
    <2>5. \A p \in Before(q, rules) : Verdict(rule[p].filters, i, a) = "rejected"
      BY <2>2, <2>4
    <2>6. q \in Decisive(i, a, rules)
      BY <1>1, <2>3, <2>5 DEF Decisive
    <2> QED
      BY <1>1, <2>6
  <1> QED
    BY <1>1, <1>2 DEF Decisive

LEMMA WatchEvaluated ==
  ASSUME TypeOK, NEW i \in Items, NEW a \in Attributes, Evaluated(i, a),
         NEW j \in Items, NEW r \in Rules, rule[r].state = "on", Watches(j, r)
  PROVE  Watches(j, r)'
  <1>1. item \in [Items -> [seq : Nat, attributes : Attributes]] /\ DownloaderOf[r] \in Downloaders
    BY Typed, Parameters
  <1>2. /\ rule' = rule
        /\ \A k \in Items : item'[k].seq = item[k].seq /\ (k # i => item'[k].attributes = item[k].attributes)
        /\ item'[i].attributes = a
    BY <1>1 DEF Evaluated, OthersEvaluated
  <1>3. Past(j, r)'
    BY <1>2 DEF Watches, Past
  <1>4. CASE j # i
    <2>1. decision'[j] = decision[j] /\ job'[j] = job[j]
      BY <1>4 DEF Evaluated, DecisionsEvaluated, JobsEvaluated
    <2> QED
      BY <1>2, <1>3, <1>4, <2>1 DEF Watches
  <1>5. CASE j = i
    <2> DEFINE d == DownloaderOf[r]
    <2>1. job[i][d] # NoRule \/ (\E q \in Winners(i, a) : DownloaderOf[q] = d) => job'[i][d] # NoRule
      BY <1>1, WinnersAreRules DEF Evaluated, JobsEvaluated
    <2>2. CASE job[i][d] # NoRule
      BY <1>3, <1>5, <2>1, <2>2 DEF Watches
    <2>3. CASE job[i][d] = NoRule /\ r \in Participants(i, a)
      <3> DEFINE rules == Participants(i, a)
      <3>1. decision'[i][r].status = Outcome(i, a, rules, r) /\ rules \in SUBSET Rules
        BY <2>3 DEF Evaluated, DecisionsEvaluated, Participants
      <3>2. Outcome(i, a, rules, r) = "lower_priority" => \E q \in Winners(i, a) : DownloaderOf[q] = d
        BY <2>3 DEF Outcome, Winners, Before
      <3>3. Outcome(i, a, rules, r) = "queued" => \E q \in Winners(i, a) : DownloaderOf[q] = d
        BY <2>3 DEF Outcome, Winners
      <3>4. Outcome(i, a, rules, r) \in Open \cup {"lower_priority", "queued", "skipped"}
        BY DEF Outcome, Open
      <3>5. Outcome(i, a, rules, r) = "skipped" => Verdict(rule[r].filters, i, a) = "rejected"
        BY <2>3, <3>1, SkippedRejects
      <3> HIDE DEF rules
      <3> QED
        BY <1>2, <1>3, <1>5, <2>1, <3>1, <3>2, <3>3, <3>4, <3>5 DEF Watches
    <2>4. CASE job[i][d] = NoRule /\ r \notin Participants(i, a)
      <3>1. /\ a = item[i].attributes /\ decision[i][r].status = "skipped"
            /\ Verdict(rule[r].filters, i, a) = "rejected"
        BY <1>5, <2>4, WatchersTakePart
      <3>2. decision'[i][r] = decision[i][r]
        BY <2>4, <3>1 DEF Evaluated, DecisionsEvaluated, Reconsidered
      <3> QED
        BY <1>2, <1>3, <1>5, <3>1, <3>2 DEF Watches
    <2> QED
      BY <2>2, <2>3, <2>4
  <1> QED
    BY <1>4, <1>5

-----------------------------------------------------------------------------
(* Watching.                                                               *)

LEMMA WatchPrepared ==
  ASSUME TypeOK, NEW i \in Items, NEW a \in Attributes, Prepared(i, a),
         NEW j \in Items, NEW r \in Rules, rule[r].state = "on", Watches(j, r)
  PROVE  Watches(j, r)'
  <1>1. item \in [Items -> [seq : Nat, attributes : Attributes]] /\ decision[i][r] \in Decisions
    BY Typed
  <1>2. /\ rule' = rule /\ job' = job
        /\ item'[j].seq = item[j].seq /\ (j # i => item'[j].attributes = item[j].attributes)
        /\ item'[i].attributes = a
    BY <1>1 DEF Prepared
  <1>3. Past(j, r)'
    BY <1>2 DEF Watches, Past
  <1>4. CASE j # i
    <2>1. decision'[j] = decision[j]
      BY <1>4 DEF Prepared
    <2> QED
      BY <1>2, <1>3, <1>4, <2>1 DEF Watches
  <1>5. CASE j = i
    <2>1. decision'[i][r] = Reconsidered(i, a, r)
      BY DEF Prepared
    <2>2. CASE a = item[i].attributes
      BY <1>2, <1>3, <1>5, <2>1, <2>2 DEF Reconsidered, Watches
    <2>3. CASE a # item[i].attributes
      <3> DEFINE d == [decision[i][r] EXCEPT !.current = FALSE]
      <3>1. d.status = decision[i][r].status /\ d.current = FALSE /\ d \in Decisions
        BY <1>1 DEF Decisions
      <3>2. decision'[i][r] = Decided(rule, item[i].seq, r, d)
        BY <2>1, <2>3 DEF Reconsidered
      <3> HIDE DEF d
      <3>3. d.status \in Open \cup {"skipped"} => Reopened(d).status = "pending"
        BY <3>1 DEF Reopened, Open, Decisions
      <3>4. d.status \in Open \cup {"skipped"} => decision'[i][r].status \in Open
        BY <1>5, <3>2, <3>3 DEF Decided, Watches, Past, Open
      <3> QED
        BY <1>2, <1>3, <1>5, <3>1, <3>4 DEF Watches
    <2> QED
      BY <2>2, <2>3
  <1> QED
    BY <1>4, <1>5

(* A rule begins to watch when a scan shows it what is new.                *)
LEMMA BeginsToWatch ==
  ASSUME IInv, [Next]_vars, NEW i \in Items, NEW r \in Rules, seen'[i][r] = "due", seen[i][r] # "due"
  PROVE  /\ rule'[r].state = "on" /\ Watches(i, r)'
  <1>1. /\ TypeOK /\ BoundaryInv /\ SequenceInv
        /\ feed \in Feeds /\ rule \in [Rules -> RuleRows] /\ item \in [Items -> [seq : Nat, attributes : Attributes]]
        /\ decision \in [Items -> [Rules -> Decisions]] /\ seen \in [Items -> [Rules -> Sightings]]
    BY Typed DEF IInv
  <1>2. PICK s \in Scanners : CommitScan(s)
    <2>1. CASE QuietStep
      <3>1. ASSUME NEW j \in Items, NEW a \in Shown, Publish(j, a)
            PROVE  FALSE
        <4>1. seen' = seen \/ seen' = [seen EXCEPT ![j] = [q \in Rules |-> "missed"]]
          BY <3>1 DEF Publish
        <4>2. seen'[i][r] \in {seen[i][r], "missed"}
          BY <1>1, <4>1
        <4> QED
          BY <4>2
      <3> QED
        BY <2>1, <3>1 DEF QuietStep
    <2>2. CASE CommitEvaluation \/ ArchiveFeed \/ \E j \in Items : PrepareSubmission(j)
      BY <2>2 DEF CommitEvaluation, ArchiveFeed, PrepareSubmission
    <2>3. \A q \in Rules : ~ResumeRule(q) /\ ~PauseRule(q) /\ ~ArchiveRule(q)
      BY <1>1 DEF ResumeRule, PauseRule, ArchiveRule
    <2>4. \A q \in Rules : ~SavingStep(q)
      BY DEF SavingStep, OtherRulesKept, Revised, Resaved
    <2>5. \A j \in Items, q \in Rules : ~Backfill(j, q)
      BY <1>1 DEF Backfill
    <2> QED
      BY <1>1, <2>1, <2>2, <2>3, <2>4, <2>5, Steps
  <1>3. Committed(s)
    BY <1>1, <1>2, ScanCommitted
  <1>4. ~Baseline /\ i \in Listing(s) /\ item[i].seq = 0 /\ rule[r].state = "on"
    BY <1>3 DEF Committed, SeenCommitted
  <1>5. rule' = rule /\ ~rule[r].pending
    BY <1>1, <1>3, <1>4 DEF Committed, RulesCommitted, BoundaryInv
  <1>6. item'[i].seq > rule[r].boundary
    <2>1. item'[i].seq = feed.last + 1
      BY <1>2, <1>1, <1>3, <1>4, Numbered DEF Committed, FeedCommitted
    <2>2. rule[r].boundary <= feed.last /\ rule[r].boundary \in Nat /\ feed.last \in Nat
      BY <1>1 DEF SequenceInv, RuleRows, Feeds
    <2> QED
      BY <2>1, <2>2
  <1>7. decision'[i][r].status \in Open
    <2>1. Known(s, i, r).status = "none"
      <3>1. decision[i][r].status = "none"
        BY <1>1, <1>4 DEF SequenceInv
      <3> QED
        BY <1>1, <3>1, KnownStatus
    <2>2. decision'[i][r] = Decided(rule, item'[i].seq, r, Known(s, i, r))
      BY <1>3, <1>4 DEF Committed, DecisionsCommitted
    <2> QED
      BY <1>4, <1>5, <1>6, <2>1, <2>2 DEF Decided, NewDecision, Open
  <1> QED
    BY <1>4, <1>5, <1>6, <1>7 DEF Watches, Past

LEMMA WatchScanned ==
  ASSUME TypeOK, NEW s \in Scanners, CommitScan(s), ~Baseline, NEW i \in Items, NEW r \in Rules,
         rule[r].state = "on", Watches(i, r)
  PROVE  Watches(i, r)'
  <1>1. item[i].seq \in Nat /\ rule[r].boundary \in Nat /\ decision[i][r] \in Decisions
    BY Typed DEF RuleRows
  <1>2. Committed(s)
    BY ScanCommitted
  <1>3. rule' = rule /\ job' = job
    BY <1>2 DEF Committed, RulesCommitted, OthersCommitted
  <1>4. item[i].seq > 0
    BY <1>1 DEF Watches, Past
  <1>5. item'[i].seq = item[i].seq /\ item'[i].attributes = IF i \in Listing(s) THEN scanner[s].items[i] ELSE item[i].attributes
    BY <1>4, Numbered
  <1>6. Past(i, r)'
    BY <1>3, <1>5 DEF Watches, Past
  <1> DEFINE d == Known(s, i, r)
  <1>7. /\ d \in Decisions /\ d.status = decision[i][r].status
        /\ i \in Listing(s) /\ item[i].attributes # scanner[s].items[i] => d.current = FALSE
        /\ i \notin Listing(s) => d = decision[i][r]
    BY <1>1, <1>4, KnownStatus DEF Known, Decisions
  <1>8. decision'[i][r] = IF i \notin Listing(s) THEN d ELSE Decided(rule, item[i].seq, r, d)
    BY <1>2, <1>5 DEF Committed, DecisionsCommitted
  <1> HIDE DEF d
  <1>9. /\ d.status \in Open => Decided(rule, item[i].seq, r, d).status \in Open
        /\ d.status = "skipped" => Decided(rule, item[i].seq, r, d).status \in {"skipped", "pending"}
        /\ d.status = "skipped" /\ d.current = FALSE => Decided(rule, item[i].seq, r, d).status = "pending"
    <2>1. Decided(rule, item[i].seq, r, d) = IF d.status = "none" THEN NewDecision ELSE Reopened(d)
      BY DEF Decided, Watches, Past
    <2>2. \A e \in Decisions : [e EXCEPT !.status = "pending"].status = "pending"
      BY DEF Decisions
    <2> QED
      BY <1>7, <2>1, <2>2 DEF Reopened, Open
  <1> QED
    BY <1>3, <1>5, <1>6, <1>7, <1>8, <1>9 DEF Watches, Open

LEMMA NextWatch == IInv /\ [Next]_vars /\ TypeOK' => WatchInv'
  <1> SUFFICES ASSUME IInv, [Next]_vars, TypeOK', NEW i \in Items, NEW r \in Rules, seen'[i][r] = "due"
               PROVE  /\ rule'[r].state = "off" => feed'.state = "archived"
                      /\ rule'[r].state = "on" => Watches(i, r)'
    BY DEF WatchInv
  <1>1. /\ TypeOK /\ WatchInv /\ EvaluationInv /\ LeaseInv
        /\ feed \in Feeds /\ rule \in [Rules -> RuleRows] /\ item \in [Items -> [seq : Nat, attributes : Attributes]]
        /\ decision \in [Items -> [Rules -> Decisions]] /\ seen \in [Items -> [Rules -> Sightings]]
    BY Typed DEF IInv
  <1>2. CASE seen[i][r] # "due"
    BY <1>2, BeginsToWatch
  <1>3. CASE seen[i][r] = "due"
    <2>1. feed.state = "archived" => feed'.state = "archived"
      <3>1. \A s \in Scanners : CommitScan(s) => feed.state # "archived"
        BY <1>1, Parameters, ScanCommitted DEF Committed, FeedCommitted, LeaseInv
      <3> QED
        BY <1>1, <3>1, FeedSteps DEF FeedKept, ClaimFeed, ArchiveFeed
    <2>2. /\ rule[r].state = "off" => feed.state = "archived"
          /\ rule[r].state = "on" => Watches(i, r)
      BY <1>1, <1>3 DEF WatchInv
    <2>3. CASE /\ rule'[r] = rule[r] /\ item'[i] = item[i] /\ job'[i] = job[i] /\ decision'[i][r] = decision[i][r]
      BY <2>1, <2>2, <2>3 DEF Watches, Past
    <2>4. CASE QuietStep
      BY <2>3, <2>4 DEF QuietStep, RowsKept
    <2>5. ASSUME NEW s \in Scanners, CommitScan(s)
          PROVE  /\ rule'[r].state = "off" => feed'.state = "archived"
                 /\ rule'[r].state = "on" => Watches(i, r)'
      <3>1. SeenCommitted(s) /\ RulesCommitted
        BY <1>1, <2>5, ScanCommitted DEF Committed
      <3>2. ~Baseline
        BY <1>3, <3>1 DEF SeenCommitted
      <3>3. rule' = rule
        BY <3>1, <3>2 DEF RulesCommitted
      <3> QED
        BY <1>1, <2>1, <2>2, <2>5, <3>2, <3>3, WatchScanned
    <2>6. CASE CommitEvaluation
      <3>1. PICK j \in Items, a \in Attributes : Evaluated(j, a)
        BY <1>1, <2>6, EvaluationCommitted
      <3>2. rule' = rule
        BY <3>1 DEF Evaluated, OthersEvaluated
      <3> QED
        BY <1>1, <2>1, <2>2, <3>1, <3>2, WatchEvaluated
    <2>7. CASE ArchiveFeed
      <3>1. feed'.state = "archived" /\ rule'[r].state # "on"
        BY <1>1, <2>7 DEF ArchiveFeed, Feeds, RuleRows
      <3> QED
        BY <3>1
    <2>8. ASSUME NEW q \in Rules, ResumeRule(q)
          PROVE  /\ rule'[r].state = "off" => feed'.state = "archived"
                 /\ rule'[r].state = "on" => Watches(i, r)'
      <3>1. q # r
        BY <2>2, <2>8 DEF ResumeRule
      <3> QED
        BY <1>1, <2>3, <2>8, <3>1 DEF ResumeRule
    <2>9. ASSUME NEW q \in Rules, PauseRule(q)
          PROVE  /\ rule'[r].state = "off" => feed'.state = "archived"
                 /\ rule'[r].state = "on" => Watches(i, r)'
      <3>1. q # r
        BY <1>1, <2>9 DEF PauseRule
      <3> QED
        BY <1>1, <2>3, <2>9, <3>1 DEF PauseRule
    <2>10. ASSUME NEW q \in Rules, ArchiveRule(q)
           PROVE  /\ rule'[r].state = "off" => feed'.state = "archived"
                  /\ rule'[r].state = "on" => Watches(i, r)'
      <3>1. CASE q # r
        BY <1>1, <2>3, <2>10, <3>1 DEF ArchiveRule
      <3>2. CASE q = r
        <4>1. rule'[r].state = "archived"
          BY <1>1, <2>10, <3>2 DEF ArchiveRule, RuleRows
        <4> QED
          BY <4>1
      <3> QED
        BY <3>1, <3>2
    <2>11. ASSUME NEW q \in Rules, SavingStep(q)
           PROVE  /\ rule'[r].state = "off" => feed'.state = "archived"
                  /\ rule'[r].state = "on" => Watches(i, r)'
      <3>1. CASE q # r
        BY <2>3, <2>11, <3>1 DEF SavingStep, OtherRulesKept
      <3>2. CASE q = r
        <4>1. Resaved(feed', r) /\ feed.state # "archived" /\ item' = item /\ job' = job
          BY <2>11, <3>2 DEF SavingStep, Revised
        <4>2. rule[r].state = "on" /\ rule'[r].state # "off"
          BY <2>2, <4>1 DEF Resaved
        <4>3. /\ rule'[r].filters = rule[r].filters /\ rule'[r].boundary = rule[r].boundary
              /\ rule'[r].pending = rule[r].pending /\ decision'[i][r] = decision[i][r]
          BY <4>1, <4>2 DEF Resaved
        <4> QED
          BY <2>2, <4>1, <4>2, <4>3 DEF Watches, Past
      <3> QED
        BY <3>1, <3>2
    <2>12. ASSUME NEW j \in Items, NEW q \in Rules, Backfill(j, q)
           PROVE  /\ rule'[r].state = "off" => feed'.state = "archived"
                  /\ rule'[r].state = "on" => Watches(i, r)'
      <3>1. CASE j # i \/ q # r
        <4>1. decision'[i][r] = decision[i][r]
          BY <1>1, <2>12, <3>1 DEF Backfill
        <4> QED
          BY <2>3, <2>12, <4>1 DEF Backfill
      <3>2. CASE j = i /\ q = r
        <4>1. /\ rule' = rule /\ item' = item /\ job' = job /\ rule[r].state = "on"
              /\ decision'[i][r].status \in {"pending", decision[i][r].status}
              /\ decision[i][r].status = "skipped" => decision'[i][r].status = "pending"
          BY <1>1, <2>12, <3>2 DEF Backfill, NewDecision, Decisions
        <4> QED
          BY <2>2, <4>1 DEF Watches, Past, Open
      <3> QED
        BY <3>1, <3>2
    <2>13. ASSUME NEW j \in Items, PrepareSubmission(j)
           PROVE  /\ rule'[r].state = "off" => feed'.state = "archived"
                  /\ rule'[r].state = "on" => Watches(i, r)'
      <3>1. PICK a \in Attributes : Prepared(j, a)
        BY <1>1, <2>13, SubmissionPrepared
      <3>2. rule' = rule
        BY <3>1 DEF Prepared
      <3> QED
        BY <1>1, <2>1, <2>2, <3>1, <3>2, WatchPrepared
    <2> QED
      BY <1>1, <2>4, <2>5, <2>6, <2>7, <2>8, <2>9, <2>10, <2>11, <2>12, <2>13, Steps
  <1> QED
    BY <1>2, <1>3

-----------------------------------------------------------------------------
(* The theorems.                                                           *)

LEMMA InitIInv == Init => IInv
  <1> SUFFICES ASSUME Init
               PROVE  IInv
    OBVIOUS
  <1>1. TypeOK
    BY InitTypeOK
  <1>2. /\ feed.lease = "none" /\ ~feed.known /\ feed.last = 0 /\ feed.unchanged = FALSE
        /\ \A i \in Items : /\ item[i].seq = 0 /\ site[i] = "absent"
                            /\ \A s \in Scanners : scanner[s].items[i] = "absent"
                            /\ \A r \in Rules : decision[i][r].status = "none" /\ seen[i][r] = "no"
        /\ evaluator.fresh = FALSE
    BY DEF Init, NoDecision, NoScan, NoEvaluation
  <1>3. \A r \in Rules : rule[r].boundary = 0
    <2> SUFFICES ASSUME NEW r \in Rules
                 PROVE  rule[r].boundary = 0
      OBVIOUS
    <2>1. rule[r] = NewRule \/ rule[r] \in EarlyRule(r)
      BY DEF Init
    <2>2. \A x \in EarlyRule(r) : x \in [state : {"on"}, filters : FiltersOf[r], boundary : {0}, pending : {TRUE}]
      BY DEF EarlyRule
    <2>3. \A x \in [state : {"on"}, filters : FiltersOf[r], boundary : {0}, pending : {TRUE}] : x.boundary = 0
      OBVIOUS
    <2>4. rule[r] = NewRule => rule[r].boundary = 0
      BY DEF NewRule
    <2>5. rule[r] \in EarlyRule(r) => rule[r].boundary = 0
      BY <2>2, <2>3, Zenon
    <2> QED
      BY <2>1, <2>4, <2>5
  <1>4. Baseline
    BY <1>2 DEF Baseline
  <1>5. SequenceInv
    BY <1>2, <1>3 DEF SequenceInv
  <1>6. SeenInv
    BY <1>2, <1>3 DEF SeenInv, Past
  <1> QED
    BY <1>1, <1>2, <1>4, <1>5, <1>6
       DEF IInv, EvaluationInv, LeaseInv, BoundaryInv, UnchangedInv, MissedInv, Missed, WatchInv

LEMMA NextIInv == IInv /\ [Next]_vars => IInv'
  <1> SUFFICES ASSUME IInv, [Next]_vars
               PROVE  IInv'
    OBVIOUS
  <1>1. TypeOK' /\ EvaluationInv'
    BY NextTypeOK DEF IInv
  <1>2. LeaseInv' /\ BoundaryInv'
    BY NextLease, NextBoundary DEF IInv
  <1>3. SequenceInv' /\ UnchangedInv' /\ MissedInv' /\ WatchInv'
    BY <1>1, NextSequence, NextUnchanged, NextMissed, NextWatch
  <1>4. SeenInv'
    BY <1>1, <1>3, NextSeen
  <1> QED
    BY <1>1, <1>2, <1>3, <1>4 DEF IInv

LEMMA AlwaysIInv == Spec => []IInv
  BY InitIInv, NextIInv, PTL DEF Spec

(* Every row is one the code can write, and no cycle of the feed creates   *)
(* more jobs than its quota, whatever the rules and downloaders.           *)
THEOREM SpecTypeOK == Spec => []TypeOK
  <1>1. IInv => TypeOK
    BY DEF IInv
  <1> QED
    BY <1>1, AlwaysIInv, PTL

(* An item that a rule has watched from the start is decided, rejected as  *)
(* it is, or taken: no scan, evaluation, edit or crash drops it.           *)
THEOREM SpecNothingOverlooked == Spec => []NothingOverlooked
  <1>1. IInv => NothingOverlooked
    BY DEF IInv, WatchInv, Watches, NothingOverlooked
  <1> QED
    BY <1>1, AlwaysIInv, PTL

(* Only an evaluation enqueues an item, for a rule that took part in it.   *)
LEMMA EnqueuedByEvaluation ==
  ASSUME IInv, [Next]_vars, NEW i \in Items, NEW r \in Rules, Enqueues(i, r)
  PROVE  \E a \in Attributes : Evaluated(i, a) /\ r \in Winners(i, a)
  <1>1. TypeOK /\ EvaluationInv /\ NoRule \notin Rules /\ DownloaderOf[r] \in Downloaders
    BY Parameters DEF IInv
  <1>2. job' # job
    BY <1>1 DEF Enqueues
  <1>3. CommitEvaluation
    <2>1. \A s \in Scanners : CommitScan(s) => job' = job
      BY DEF CommitScan
    <2>2. QuietStep \/ ArchiveFeed => job' = job
      BY DEF QuietStep, RowsKept, ArchiveFeed
    <2>3. \A q \in Rules : ResumeRule(q) \/ PauseRule(q) \/ ArchiveRule(q) \/ SavingStep(q) => job' = job
      BY DEF ResumeRule, PauseRule, ArchiveRule, SavingStep
    <2>4. /\ \A j \in Items, q \in Rules : Backfill(j, q) => job' = job
          /\ \A j \in Items : PrepareSubmission(j) => job' = job
      BY DEF Backfill, PrepareSubmission
    <2> QED
      BY <1>1, <1>2, <2>1, <2>2, <2>3, <2>4, Steps
  <1>4. PICK j \in Items, a \in Attributes : Evaluated(j, a)
    BY <1>1, <1>3, EvaluationCommitted
  <1>5. j = i
    BY <1>1, <1>4 DEF Enqueues, Evaluated, JobsEvaluated
  <1>6. r \in Winners(i, a)
    BY <1>1, <1>4, <1>5 DEF Enqueues, Evaluated, JobsEvaluated
  <1> QED
    BY <1>4, <1>5, <1>6

(* What was published while nobody was watching is never downloaded unless *)
(* a person asks for it, however feed and rules are paused and edited.     *)
THEOREM SpecPauseIsSilent == Spec => PauseIsSilent
  <1>1. IInv /\ [Next]_vars => \A i \in Items, r \in Rules : Enqueues(i, r) => seen[i][r] \notin {"no", "missed"}
    <2> SUFFICES ASSUME IInv, [Next]_vars, NEW i \in Items, NEW r \in Rules, Enqueues(i, r)
                 PROVE  seen[i][r] \notin {"no", "missed"}
      OBVIOUS
    <2>1. PICK a \in Attributes : Evaluated(i, a) /\ r \in Winners(i, a)
      BY EnqueuedByEvaluation
    <2>2. r \in Participants(i, a)
      BY <2>1, WinnersAreRules
    <2>3. Reconsidered(i, a, r).status # "none"
      BY <2>2 DEF Participants, Open
    <2> QED
      BY <2>3, ReconsideredStatus DEF IInv, SeenInv
  <1> QED
    BY <1>1, AlwaysIInv, PTL DEF Spec, PauseIsSilent

(* The rule of highest priority decides, by what the item is when it is    *)
(* taken.                                                                  *)
THEOREM SpecPriorityKept == Spec => PriorityKept
  <1> DEFINE Kept == \A i \in Items, r \in Rules : Enqueues(i, r) =>
               \A q \in Before(r, Rules) : rule[q].state = "on" /\ seen[i][q] = "due"
                 => Verdict(rule[q].filters, i, item'[i].attributes) = "rejected"
  <1>1. IInv /\ [Next]_vars => Kept
    <2> SUFFICES ASSUME IInv, [Next]_vars, NEW i \in Items, NEW r \in Rules, Enqueues(i, r),
                        NEW q \in Before(r, Rules), rule[q].state = "on", seen[i][q] = "due"
                 PROVE  Verdict(rule[q].filters, i, item'[i].attributes) = "rejected"
      OBVIOUS
    <2>1. PICK a \in Attributes : Evaluated(i, a) /\ r \in Winners(i, a)
      BY EnqueuedByEvaluation
    <2>2. item'[i].attributes = a
      BY <2>1, Typed DEF IInv, Evaluated, OthersEvaluated
    <2>3. q \in Rules /\ q < r /\ DownloaderOf[q] = DownloaderOf[r]
      BY DEF Before
    <2>4. job[i][DownloaderOf[q]] = NoRule
      BY <2>3 DEF Enqueues
    <2>5. Watches(i, q)
      BY <2>3 DEF IInv, WatchInv
    <2>6. q \in Participants(i, a) \/ Verdict(rule[q].filters, i, a) = "rejected"
      BY <2>3, <2>4, <2>5, WatchersTakePart DEF IInv
    <2>7. q \in Participants(i, a) => q \in Before(r, Participants(i, a))
      BY <2>3 DEF Before
    <2> QED
      BY <2>1, <2>2, <2>6, <2>7, WinnersAreRules
  <1> QED
    BY <1>1, AlwaysIInv, PTL DEF Spec, PriorityKept

=============================================================================
