---------------------------- MODULE RssMatching ----------------------------
(***************************************************************************)
(* How an RSS subscription decides what to download.  Scanners fetch the   *)
(* feed and store what they have not seen before, the matcher takes the    *)
(* stored items one by one and lets the rules decide about them in the     *)
(* order of their priorities, and people pause, resume, edit and archive   *)
(* feed and rules at any moment.  Of one feed and the rules that read it.  *)
(***************************************************************************)
EXTENDS Naturals, FiniteSets

CONSTANTS
  Items,
  Shown,           \* attributes the feed itself may tell of an item
  Rules,           \* 1, 2, ...: in the order of priority and id
  Downloaders,
  DownloaderOf,    \* of a rule
  FiltersOf,       \* of a rule: what people may write into it
  EarlyRules,      \* the sets of rules that may have been made before the first scan
  Scanners,        \* as many as fetch_concurrency
  Quota,           \* jobs that a cycle may create: 20 in the code
  MaxEdits,        \* bound: what people do to feed and rules
  NoItem,
  NoRule

(* free: whether the item costs anything to download, the attribute that a *)
(* rule may ask for and the site may have to be asked for.                 *)
Attributes == {"unknown", "free", "paid"}

Filters == [titles : SUBSET Items, free : BOOLEAN]

ASSUME Parameters ==
  /\ Shown \subseteq Attributes
  /\ Rules \subseteq Nat /\ IsFiniteSet(Rules) /\ NoRule \notin Rules
  /\ NoItem \notin Items
  /\ DownloaderOf \in [Rules -> Downloaders]
  /\ EarlyRules \subseteq SUBSET Rules
  /\ FiltersOf \in [Rules -> SUBSET Filters]
  /\ "none" \notin Scanners
  /\ Quota \in Nat \ {0} /\ MaxEdits \in Nat

VARIABLES
  site,        \* what the feed shows of each item
  feed, item, rule,
  decision,    \* about an item, by a rule in its present revision
  job,         \* of an item on a downloader: the rule that enqueued it
  scanner,
  evaluator,   \* the one matcher of the process
  seen,        \* history: how an item came to a rule in its present revision
  edits        \* how often people have done something

vars == <<site, feed, item, rule, decision, job, scanner, evaluator, seen, edits>>

Open == {"pending", "ready", "attribute_unknown", "priority_wait"}

Settled == {"skipped", "lower_priority", "queued", "cancelled"}

(* current: made for the item as it is (item_revision).  manual: a person  *)
(* asked for it.                                                           *)
Decisions == [status : {"none"} \cup Open \cup Settled, current : BOOLEAN, manual : BOOLEAN]

NoDecision == [status |-> "none", current |-> FALSE, manual |-> FALSE]

NewDecision == [status |-> "pending", current |-> TRUE, manual |-> FALSE]

NoFilters == [titles |-> {}, free |-> FALSE]

NewRule == [state |-> "none", filters |-> NoFilters, boundary |-> 0, pending |-> FALSE]

NoScan == [phase |-> "idle", items |-> [i \in Items |-> "absent"], modified |-> FALSE]

NoEvaluation == [item |-> NoItem, rules |-> {}, fresh |-> FALSE]

-----------------------------------------------------------------------------
(* The filters.                                                            *)

(* matcher::evaluate: what is known to be wrong rejects an item, whatever  *)
(* is unknown of it.                                                       *)
Verdict(filters, i, attributes) ==
  IF i \notin filters.titles \/ (filters.free /\ attributes = "paid") THEN "rejected"
  ELSE IF filters.free /\ attributes = "unknown" THEN "unknown"
  ELSE "matched"

OpenRules(decisions, i) == {r \in Rules : rule[r].state = "on" /\ decisions[i][r].status \in Open}

Reopened(d) ==
  IF d.status \notin {"none", "queued", "lower_priority", "cancelled"} /\ ~d.current
    THEN [d EXCEPT !.status = "pending"] ELSE d

(* Mutant: a decision that was made stays.                                 *)
DecidedOnce(rules, seq, r, d) ==
  IF rules[r].state = "on" /\ ~rules[r].pending /\ seq > rules[r].boundary /\ d.status = "none"
    THEN NewDecision ELSE d

(* create_item_decisions: rules that are past their boundary decide, and   *)
(* decide again about what has changed.                                    *)
Decided(rules, seq, r, d) ==
  IF rules[r].state # "on" THEN d
  ELSE IF ~rules[r].pending /\ seq > rules[r].boundary
    THEN IF d.status = "none" THEN NewDecision ELSE Reopened(d)
  ELSE IF d.manual THEN Reopened(d) ELSE d

-----------------------------------------------------------------------------
(* Scans.                                                                  *)

EvaluationOutdated(changed) ==
  evaluator' = IF evaluator.item \in changed THEN [evaluator EXCEPT !.fresh = FALSE] ELSE evaluator

ClaimFeed(s) ==
  /\ scanner[s] = NoScan
  /\ feed.state = "on" /\ feed.lease = "none"
  /\ feed' = [feed EXCEPT !.lease = s]
  /\ scanner' = [scanner EXCEPT ![s].phase = "claimed"]
  /\ UNCHANGED <<site, item, rule, decision, job, evaluator, seen, edits>>

Listed == [i \in Items |-> IF site[i] = "gone" THEN "absent" ELSE site[i]]

(* The request is conditional: nothing is sent when nothing has changed    *)
(* since the last response that was stored.                                *)
Fetch(s) ==
  /\ scanner[s].phase = "claimed"
  /\ \E modified \in BOOLEAN :
       /\ modified \/ feed.unchanged
       /\ scanner' = [scanner EXCEPT ![s] =
            [phase |-> "fetched", items |-> IF modified THEN Listed ELSE NoScan.items, modified |-> modified]]
  /\ UNCHANGED <<site, feed, item, rule, decision, job, evaluator, seen, edits>>

FailScan(s) ==
  /\ scanner[s].phase = "claimed"
  /\ scanner' = [scanner EXCEPT ![s] = NoScan]
  /\ feed' = IF feed.lease = s THEN [feed EXCEPT !.lease = "none"] ELSE feed
  /\ UNCHANGED <<site, item, rule, decision, job, evaluator, seen, edits>>

(* validate_feed_claim: the feed was edited, or the lease ran out.         *)
ScanConflicts(s) ==
  /\ scanner[s].phase = "fetched" /\ feed.lease # s
  /\ scanner' = [scanner EXCEPT ![s] = NoScan]
  /\ UNCHANGED <<site, feed, item, rule, decision, job, evaluator, seen, edits>>

(* Mutant: only the first scan of all makes a baseline.                    *)
BaselineOnce == ~feed.known

(* The first scan, and the first one after a pause, only take note.        *)
Baseline == ~feed.known \/ feed.resume

(* rss_commit_scan.  What one scan finds shares a sequence number: no      *)
(* boundary is ever between.                                               *)
CommitScan(s) ==
  LET listed == {i \in Items : scanner[s].items[i] # "absent"}
      new == {i \in listed : item[i].seq = 0}
      changed == {i \in listed \ new : item[i].attributes # scanner[s].items[i]}
      last == IF new = {} THEN feed.last ELSE feed.last + 1
      known == [i \in Items |-> [d \in Rules |->
                  IF i \in changed THEN [decision[i][d] EXCEPT !.current = FALSE] ELSE decision[i][d]]]
  IN  /\ scanner[s].phase = "fetched" /\ feed.lease = s
      /\ item' = [i \in Items |->
           [seq |-> IF i \in new THEN last ELSE item[i].seq,
            attributes |-> IF i \in listed THEN scanner[s].items[i] ELSE item[i].attributes]]
      /\ rule' = IF Baseline THEN [r \in Rules |-> [rule[r] EXCEPT !.boundary = last, !.pending = FALSE]]
                 ELSE rule
      /\ decision' = [i \in Items |-> [r \in Rules |->
           IF Baseline \/ i \notin listed THEN known[i][r]
           ELSE Decided(rule, item'[i].seq, r, known[i][r])]]
      /\ feed' = [feed EXCEPT !.known = TRUE, !.resume = FALSE, !.last = last, !.quota = 0, !.lease = "none",
                              !.unchanged = IF scanner[s].modified THEN scanner[s].items = Listed ELSE @]
      /\ scanner' = [scanner EXCEPT ![s] = NoScan]
      /\ EvaluationOutdated(changed)
      /\ seen' = [i \in Items |-> [r \in Rules |->
           IF ~Baseline /\ i \in new /\ rule[r].state = "on" /\ seen[i][r] = "no" THEN "due"
           ELSE IF Baseline /\ seen[i][r] = "due" THEN "interrupted"
           ELSE seen[i][r]]]
      /\ UNCHANGED <<site, job, edits>>

-----------------------------------------------------------------------------
(* The matcher.                                                            *)

(* rss_claim_evaluation.  Times are left out; a decision that waits for    *)
(* the quota is due when there is some.                                    *)
ClaimEvaluation(i) ==
  /\ evaluator = NoEvaluation
  /\ feed.state = "on"
  /\ \E r \in OpenRules(decision, i) : decision[i][r].status # "ready" \/ feed.quota < Quota
  /\ evaluator' = [item |-> i, rules |-> OpenRules(decision, i), fresh |-> TRUE]
  /\ UNCHANGED <<site, feed, item, rule, decision, job, scanner, seen, edits>>

(* The claim is out of date or has run out, or the site takes too long.    *)
EvaluationConflicts ==
  /\ evaluator # NoEvaluation
  /\ evaluator' = NoEvaluation
  /\ UNCHANGED <<site, feed, item, rule, decision, job, scanner, seen, edits>>

(* service.evaluate: the site is asked if a rule has to know.              *)
Enriched(i) ==
  IF \E r \in evaluator.rules : Verdict(rule[r].filters, i, item[i].attributes) = "unknown"
    THEN {"free", "paid", item[i].attributes} ELSE {item[i].attributes}

Before(r, rules) == {q \in rules : q < r /\ DownloaderOf[q] = DownloaderOf[r]}

(* The first rule of each downloader that does not reject the item.        *)
Decisive(i, attributes, rules) ==
  {r \in rules : /\ job[i][DownloaderOf[r]] = NoRule
                 /\ Verdict(rule[r].filters, i, attributes) # "rejected"
                 /\ \A q \in Before(r, rules) : Verdict(rule[q].filters, i, attributes) = "rejected"}

Matched(i, attributes, rules) ==
  {r \in Decisive(i, attributes, rules) : Verdict(rule[r].filters, i, attributes) = "matched"}

(* Mutant: one job more than the quota.                                    *)
EnqueuedOneMore(i, attributes, rules) ==
  {r \in Matched(i, attributes, rules) :
     feed.quota + Cardinality({q \in Matched(i, attributes, rules) : q < r}) <= Quota}

(* Those that the quota of the cycle has room for.                         *)
Enqueued(i, attributes, rules) ==
  {r \in Matched(i, attributes, rules) :
     feed.quota + Cardinality({q \in Matched(i, attributes, rules) : q < r}) < Quota}

(* Mutant: the rules behind one that waits are done.                       *)
OutcomeFinal(i, attributes, rules, r) ==
  IF job[i][DownloaderOf[r]] # NoRule \/ Before(r, rules) \cap Decisive(i, attributes, rules) # {}
    THEN "lower_priority"
  ELSE IF r \notin Decisive(i, attributes, rules) THEN "skipped"
  ELSE IF Verdict(rule[r].filters, i, attributes) = "unknown" THEN "attribute_unknown"
  ELSE IF r \in Enqueued(i, attributes, rules) THEN "queued"
  ELSE "ready"

Outcome(i, attributes, rules, r) ==
  IF job[i][DownloaderOf[r]] # NoRule \/ Before(r, rules) \cap Enqueued(i, attributes, rules) # {}
    THEN "lower_priority"
  ELSE IF Before(r, rules) \cap Decisive(i, attributes, rules) # {} THEN "priority_wait"
  ELSE IF r \notin Decisive(i, attributes, rules) THEN "skipped"
  ELSE IF Verdict(rule[r].filters, i, attributes) = "unknown" THEN "attribute_unknown"
  ELSE IF r \in Enqueued(i, attributes, rules) THEN "queued"
  ELSE "ready"

(* rss_commit_evaluation.  What the site says may reopen decisions of      *)
(* rules that had rejected the item before: they take part.                *)
CommitEvaluation ==
  LET i == evaluator.item
  IN  /\ evaluator # NoEvaluation /\ evaluator.fresh /\ feed.state = "on"
      /\ \E attributes \in Enriched(i) :
           LET reopened == IF attributes = item[i].attributes THEN decision
                           ELSE [decision EXCEPT ![i] = [r \in Rules |->
                                   Decided(rule, item[i].seq, r, [@[r] EXCEPT !.current = FALSE])]]
               rules == OpenRules(reopened, i)
               winners == Enqueued(i, attributes, rules)
           IN  /\ item' = [item EXCEPT ![i].attributes = attributes]
               /\ decision' = [reopened EXCEPT ![i] = [r \in Rules |->
                    IF r \in rules THEN [@[r] EXCEPT !.status = Outcome(i, attributes, rules, r), !.current = TRUE]
                    ELSE @[r]]]
               /\ job' = [job EXCEPT ![i] = [d \in Downloaders |->
                    IF \E r \in winners : DownloaderOf[r] = d THEN CHOOSE r \in winners : DownloaderOf[r] = d
                    ELSE @[d]]]
               /\ feed' = [feed EXCEPT !.quota = @ + Cardinality(winners)]
      /\ evaluator' = NoEvaluation
      /\ UNCHANGED <<site, rule, scanner, seen, edits>>

(* rss_prepare_submission, of what it does to the item: the download of a  *)
(* job whose rule asks for free items asks the site again, and what the    *)
(* site says may reopen decisions of other rules.  The rule may have other *)
(* filters now than when it made the job.                                  *)
AsksAgain(i) ==
  \E d \in Downloaders : LET r == job[i][d]
                         IN  r # NoRule /\ rule[r].state = "on" /\ \E filters \in FiltersOf[r] : filters.free

PrepareSubmission(i) ==
  /\ feed.state = "on"
  /\ AsksAgain(i)
  /\ \E attributes \in Attributes \ {item[i].attributes} :
       item' = [item EXCEPT ![i].attributes = attributes]
  /\ decision' = [decision EXCEPT ![i] = [r \in Rules |->
       Decided(rule, item[i].seq, r, [@[r] EXCEPT !.current = FALSE])]]
  /\ EvaluationOutdated({i})
  /\ UNCHANGED <<site, feed, rule, job, scanner, seen, edits>>

-----------------------------------------------------------------------------
(* People.  Every one of these is a new version of the feed or rule.       *)

Edit == edits < MaxEdits /\ edits' = edits + 1

FeedOutdated == evaluator' = [evaluator EXCEPT !.fresh = FALSE]

RuleOutdated(r) ==
  evaluator' = IF r \in evaluator.rules THEN [evaluator EXCEPT !.fresh = FALSE] ELSE evaluator

Enabled(enabled) == IF enabled THEN "on" ELSE "off"

(* save_feed, rss_set_feed_enabled.                                        *)
FeedSaved(enabled) ==
  [feed EXCEPT !.state = Enabled(enabled), !.resume = @ \/ (feed.state = "off" /\ enabled), !.lease = "none"]

SaveFeed(enabled) ==
  /\ Edit
  /\ feed.state # "archived"
  /\ feed' = FeedSaved(enabled)
  /\ FeedOutdated
  /\ UNCHANGED <<site, item, rule, decision, job, scanner, seen>>

Cancelled(d) == IF d.status \in {"none", "queued"} THEN d ELSE [d EXCEPT !.status = "cancelled"]

(* The rules that read no other feed are paused.                           *)
ArchiveFeed ==
  /\ Edit
  /\ feed.state # "archived"
  /\ feed' = [feed EXCEPT !.state = "archived", !.lease = "none"]
  /\ rule' = [r \in Rules |-> IF rule[r].state = "on" THEN [rule[r] EXCEPT !.state = "off"] ELSE rule[r]]
  /\ decision' = [i \in Items |-> [r \in Rules |-> Cancelled(decision[i][r])]]
  /\ FeedOutdated
  /\ UNCHANGED <<site, item, job, scanner, seen>>

(* reset_rule_boundaries: the rule is about what is found from now on.     *)
Reset(f, saved) == [saved EXCEPT !.boundary = f.last, !.pending = ~f.known \/ f.resume]

(* rss_set_rule_enabled: what the rule has not decided it never will.      *)
ResumeRule(r) ==
  /\ Edit
  /\ feed.state # "archived" /\ rule[r].state = "off"
  /\ rule' = [rule EXCEPT ![r] = Reset(feed, [@ EXCEPT !.state = "on"])]
  /\ decision' = [i \in Items |-> [decision[i] EXCEPT ![r] =
       IF @.status \in {"none", "queued"} \/ @.manual THEN @ ELSE [@ EXCEPT !.status = "skipped"]]]
  /\ RuleOutdated(r)
  /\ UNCHANGED <<site, feed, item, job, scanner, seen>>

PauseRule(r) ==
  /\ Edit
  /\ rule[r].state = "on"
  /\ rule' = [rule EXCEPT ![r].state = "off"]
  /\ seen' = [i \in Items |-> [seen[i] EXCEPT ![r] = IF @ = "due" THEN "interrupted" ELSE @]]
  /\ RuleOutdated(r)
  /\ UNCHANGED <<site, feed, item, decision, job, scanner>>

ArchiveRule(r) ==
  /\ Edit
  /\ rule[r].state \in {"on", "off"}
  /\ rule' = [rule EXCEPT ![r].state = "archived"]
  /\ decision' = [i \in Items |-> [decision[i] EXCEPT ![r] = Cancelled(@)]]
  /\ RuleOutdated(r)
  /\ UNCHANGED <<site, feed, item, job, scanner, seen>>

(* save_rule, of a feed as it is or is being saved.  Other filters make a  *)
(* new revision, for which nothing has been decided.                       *)
RuleSaved(f, r, enabled, filters) ==
  LET revised == rule[r].state = "none" \/ rule[r].filters # filters
      saved == [rule[r] EXCEPT !.state = Enabled(enabled), !.filters = filters]
  IN  /\ rule[r].state # "archived"
      /\ rule' = [rule EXCEPT ![r] =
           IF revised \/ (rule[r].state = "off" /\ enabled) THEN Reset(f, saved) ELSE saved]
      /\ decision' = IF revised THEN [i \in Items |-> [decision[i] EXCEPT ![r] = NoDecision]] ELSE decision
      /\ seen' = [i \in Items |-> [seen[i] EXCEPT ![r] =
           IF revised /\ @ # "missed" THEN "no" ELSE IF ~enabled /\ @ = "due" THEN "interrupted" ELSE @]]

SaveRule(r, enabled, filters) ==
  /\ Edit
  /\ feed.state # "archived"
  /\ RuleSaved(feed, r, enabled, filters)
  /\ RuleOutdated(r)
  /\ UNCHANGED <<site, feed, item, job, scanner>>

(* rss_save_subscription: a feed with one rule, which is always on.        *)
SaveSubscription(r, enabled, filters) ==
  /\ Edit
  /\ feed.state # "archived"
  /\ \A q \in Rules \ {r} : rule[q].state \in {"none", "archived"}
  /\ RuleSaved(FeedSaved(enabled), r, TRUE, filters)
  /\ feed' = FeedSaved(enabled)
  /\ FeedOutdated
  /\ UNCHANGED <<site, item, job, scanner>>

(* rss_backfill: a person wants an item that is stored to be looked at.    *)
Backfill(i, r) ==
  LET d == decision[i][r]
  IN  /\ Edit
      /\ feed.state = "on" /\ rule[r].state = "on" /\ item[i].seq > 0
      /\ decision' = [decision EXCEPT ![i][r] =
           IF d.status = "none" THEN [NewDecision EXCEPT !.manual = TRUE]
           ELSE IF d.status \in {"queued", "lower_priority"} THEN [d EXCEPT !.manual = TRUE]
           ELSE [d EXCEPT !.status = "pending", !.manual = TRUE]]
      /\ seen' = [seen EXCEPT ![i][r] = IF @ \in {"no", "missed"} THEN "asked" ELSE @]
      /\ UNCHANGED <<site, feed, item, rule, job, scanner, evaluator>>

-----------------------------------------------------------------------------
(* The site and the process.                                               *)

(* Nobody has been told of what is published now: the feed is paused, or   *)
(* has not been fetched yet.                                               *)
Unwatched == feed.state # "on" \/ (~feed.known /\ \A s \in Scanners : scanner[s].phase # "fetched")

(* A new item, or another attribute of one that is shown.                  *)
Publish(i, attributes) ==
  /\ site[i] \notin {"gone", attributes}
  /\ site' = [site EXCEPT ![i] = attributes]
  /\ feed' = [feed EXCEPT !.unchanged = FALSE]
  /\ seen' = IF site[i] = "absent" /\ Unwatched THEN [seen EXCEPT ![i] = [r \in Rules |-> "missed"]] ELSE seen
  /\ UNCHANGED <<item, rule, decision, job, scanner, evaluator, edits>>

Drop(i) ==
  /\ site[i] \notin {"absent", "gone"}
  /\ site' = [site EXCEPT ![i] = "gone"]
  /\ feed' = [feed EXCEPT !.unchanged = FALSE]
  /\ UNCHANGED <<item, rule, decision, job, scanner, evaluator, seen, edits>>

LeaseExpires ==
  /\ feed.lease # "none"
  /\ feed' = [feed EXCEPT !.lease = "none"]
  /\ UNCHANGED <<site, item, rule, decision, job, scanner, evaluator, seen, edits>>

Crash ==
  /\ scanner' = [s \in Scanners |-> NoScan]
  /\ evaluator' = NoEvaluation
  /\ UNCHANGED <<site, feed, item, rule, decision, job, seen, edits>>

(* rss_release_owner.                                                      *)
Stop ==
  /\ scanner' = [s \in Scanners |-> NoScan]
  /\ evaluator' = NoEvaluation
  /\ feed' = [feed EXCEPT !.lease = "none"]
  /\ UNCHANGED <<site, item, rule, decision, job, seen, edits>>

-----------------------------------------------------------------------------
(* A rule that was made before the first scan of the feed.                 *)
EarlyRule(r) == [state : {"on"}, filters : FiltersOf[r], boundary : {0}, pending : {TRUE}]

Init ==
  /\ site = [i \in Items |-> "absent"]
  /\ \E state \in {"on", "off"} :
       feed = [state |-> state, known |-> FALSE, resume |-> FALSE, last |-> 0, quota |-> 0,
               unchanged |-> FALSE, lease |-> "none"]
  /\ item = [i \in Items |-> [seq |-> 0, attributes |-> "unknown"]]
  /\ \E early \in EarlyRules : rule \in {f \in [Rules -> {NewRule} \cup UNION {EarlyRule(r) : r \in Rules}] :
       \A r \in Rules : f[r] \in IF r \in early THEN EarlyRule(r) ELSE {NewRule}}
  /\ edits = 0
  /\ decision = [i \in Items |-> [r \in Rules |-> NoDecision]]
  /\ job = [i \in Items |-> [d \in Downloaders |-> NoRule]]
  /\ scanner = [s \in Scanners |-> NoScan]
  /\ evaluator = NoEvaluation
  /\ seen = [i \in Items |-> [r \in Rules |-> "no"]]

ScanStep == \E s \in Scanners : ClaimFeed(s) \/ Fetch(s) \/ FailScan(s) \/ ScanConflicts(s) \/ CommitScan(s)

MatchStep == (\E i \in Items : ClaimEvaluation(i)) \/ EvaluationConflicts \/ CommitEvaluation

JobStep == \E i \in Items : PrepareSubmission(i)

PeopleStep ==
  \/ \E enabled \in BOOLEAN : SaveFeed(enabled)
  \/ ArchiveFeed
  \/ \E r \in Rules : ResumeRule(r) \/ PauseRule(r) \/ ArchiveRule(r)
  \/ \E r \in Rules, enabled \in BOOLEAN : \E filters \in FiltersOf[r] :
       SaveRule(r, enabled, filters) \/ SaveSubscription(r, enabled, filters)
  \/ \E i \in Items, r \in Rules : Backfill(i, r)

SystemStep ==
  \/ \E i \in Items : Drop(i) \/ \E attributes \in Shown : Publish(i, attributes)
  \/ LeaseExpires \/ Crash \/ Stop

Next == ScanStep \/ MatchStep \/ JobStep \/ PeopleStep \/ SystemStep

Spec == Init /\ [][Next]_vars

-----------------------------------------------------------------------------
(* Every row is one the code can write, and no cycle of the feed creates   *)
(* more jobs than its quota.                                               *)
TypeOK ==
  /\ site \in [Items -> Attributes \cup {"absent", "gone"}]
  /\ feed \in [state : {"on", "off", "archived"}, known : BOOLEAN, resume : BOOLEAN, last : Nat,
               quota : 0..Quota, unchanged : BOOLEAN, lease : Scanners \cup {"none"}]
  /\ item \in [Items -> [seq : Nat, attributes : Attributes]]
  /\ rule \in [Rules -> [state : {"none", "on", "off", "archived"}, filters : Filters,
                         boundary : Nat, pending : BOOLEAN]]
  /\ decision \in [Items -> [Rules -> Decisions]]
  /\ job \in [Items -> [Downloaders -> Rules \cup {NoRule}]]
  /\ scanner \in [Scanners -> [phase : {"idle", "claimed", "fetched"}, modified : BOOLEAN,
                               items : [Items -> Attributes \cup {"absent"}]]]
  /\ evaluator \in [item : Items \cup {NoItem}, rules : SUBSET Rules, fresh : BOOLEAN]
  /\ edits \in 0..MaxEdits
  /\ seen \in [Items -> [Rules -> {"no", "due", "interrupted", "asked", "missed"}]]

Enqueues(i, r) == LET d == DownloaderOf[r] IN job[i][d] = NoRule /\ job'[i][d] = r

(* A pause is silent: what was published while the feed was paused or not  *)
(* yet known, or was found while the rule was, is downloaded only for a    *)
(* person who asked for it, however feed and rule are paused, edited and   *)
(* resumed, and whatever becomes of the item.                              *)
PauseIsSilent ==
  [][\A i \in Items, r \in Rules : Enqueues(i, r) => seen[i][r] \notin {"no", "missed"}]_vars

(* The rule of highest priority decides: when one takes an item, every one *)
(* before it on the downloader that has watched the item from the start    *)
(* rejects it as it is now, not as it was when that rule last looked.      *)
PriorityKept ==
  [][\A i \in Items, r \in Rules : Enqueues(i, r) =>
       \A q \in Before(r, Rules) : rule[q].state = "on" /\ seen[i][q] = "due"
         => Verdict(rule[q].filters, i, item'[i].attributes) = "rejected"]_vars

(* No item is overlooked: as long as a rule has watched an item from the   *)
(* start, it has still to decide about it, or rejects it as it is, or a    *)
(* rule has taken it on that downloader.                                   *)
NothingOverlooked ==
  \A i \in Items, r \in Rules : rule[r].state = "on" /\ seen[i][r] = "due"
    => \/ decision[i][r].status \in Open
       \/ job[i][DownloaderOf[r]] # NoRule
       \/ Verdict(rule[r].filters, i, item[i].attributes) = "rejected"

=============================================================================
