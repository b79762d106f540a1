---------------------------- MODULE AnalyticsRuns ----------------------------
(***************************************************************************)
(* The analytics of a shop: a collection run built from the snapshots the  *)
(* provider returned, what a product's metric is shown as, and whether two *)
(* products may be compared. Times are minutes.                            *)
(***************************************************************************)
EXTENDS Integers, FiniteSets

CONSTANTS
  Products,
  Values,
  MaxPages,  \* bound: pages of a run
  MaxTime,   \* bound: as-of times, the time of a request and its maximum age
  None

AnalyticsAssumption ==
  /\ Values \subseteq Nat /\ MaxPages \in Nat /\ MaxTime \in Nat
  /\ None \notin Products \cup Nat

VARIABLES
  pages,   \* history: the pages the run expected and observed
  source,  \* history: what the provider returned for each product
  run,     \* the run built: definition, requested products, status and snapshots
  answer   \* what the API has just answered about that run

vars == <<pages, source, run, answer>>

Times == 0..MaxTime
Capabilities == {"enabled", "unsupported"}
\* AnalyticsSnapshotFixtureSchema: a value has a number, and only a metric that is
\* supported has anything but "unsupported". The time of what has none is not looked at.
SnapshotsOf(capability) ==
  IF capability = "unsupported"
  THEN [state : {"unsupported"}, value : {None}, asOf : {0}]
  ELSE [state : {"missing", "not_returned"}, value : {None}, asOf : {0}]
         \cup [state : {"value"}, value : Values, asOf : Times]

Snapshots == UNION {SnapshotsOf(c) : c \in Capabilities}
Runs == [requested : SUBSET Products, capability : Capabilities,
         status : {"complete", "partial", "failed"},
         snapshots : UNION {[S -> Snapshots] : S \in SUBSET Products}]

TypeOK ==
  /\ pages \in [expected : Nat, observed : Nat]
  /\ source \in [Products -> Snapshots \cup {None}]
  /\ run \in Runs \cup {None}
  /\ answer.kind \in {"none", "denied", "shown"}

NoAnswer == [kind |-> "none"]
Denied == [kind |-> "denied"]

Init ==
  /\ pages = [expected |-> 0, observed |-> 0]
  /\ source = [p \in Products |-> None]
  /\ run = None
  /\ answer = NoAnswer

-----------------------------------------------------------------------------
\* buildRun: a run whose clock or page count is inconsistent has failed.
RunStatus(n, inOrder) ==
  IF ~inOrder \/ n.observed > n.expected THEN "failed"
  ELSE IF n.observed = n.expected THEN "complete"
  ELSE "partial"

NotReturned == [state |-> "not_returned", value |-> None, asOf |-> 0]

\* A run whose pages were all seen is partial when a product was not returned.
Downgrade(status, snapshots) ==
  IF status = "complete" /\ \E p \in DOMAIN snapshots : snapshots[p].state = "not_returned"
  THEN "partial" ELSE status

\* buildAnalyticsCollection.
Build(capability, requested, returned, n, inOrder) ==
  LET snapshots == [p \in requested |-> IF returned[p] = None THEN NotReturned ELSE returned[p]]
  IN /\ run = None /\ answer = NoAnswer
     /\ pages' = n
     /\ source' = [p \in Products |-> IF p \in requested THEN returned[p] ELSE None]
     /\ run' = [requested |-> requested, capability |-> capability, snapshots |-> snapshots,
                status |-> Downgrade(RunStatus(n, inOrder), snapshots)]
     /\ UNCHANGED answer

\* Snapshots of another shop, product or definition, twice the same, or no page count:
\* nothing is built.
BuildRefused ==
  /\ run = None /\ answer = NoAnswer
  /\ answer' = Denied
  /\ UNCHANGED <<pages, source, run>>

-----------------------------------------------------------------------------
IsStale(snapshot, now, age) == now - snapshot.asOf > age

\* projectAnalyticsMetric.
Project(snapshot, now, age) ==
  IF snapshot.state = "value" /\ IsStale(snapshot, now, age) THEN [kind |-> "stale"]
  ELSE IF snapshot.state = "value" THEN [kind |-> "value", value |-> snapshot.value]
  ELSE [kind |-> snapshot.state]

Ineligible(reason) == [kind |-> "ineligible", reason |-> reason]

\* compareAnalyticsSnapshots. Two snapshots of one run are of one definition.
Compare(left, right, status, now, age) ==
  IF status # "complete" THEN Ineligible("collection_incomplete")
  ELSE IF left.state # "value" \/ right.state # "value" THEN Ineligible("metric_absent")
  ELSE IF IsStale(left, now, age) \/ IsStale(right, now, age) THEN Ineligible("snapshot_stale")
  ELSE [kind |-> "eligible", delta |-> right.value - left.value]

\* buildComparison: the other product comes first.
Comparison(p, q, now, age) ==
  IF q \notin run.requested THEN Ineligible("metric_absent")
  ELSE Compare(run.snapshots[q], run.snapshots[p], run.status, now, age)

\* createAnalyticsApiHandler, for a product and one to compare it with.
Read(p, q, now, age) ==
  /\ answer = NoAnswer
  /\ run # None /\ p \in run.requested
  /\ answer' = [kind |-> "shown", product |-> p, other |-> q, now |-> now, age |-> age,
                status |-> run.status,
                metric |-> Project(run.snapshots[p], now, age),
                comparison |-> IF q = None THEN Ineligible("not_asked")
                               ELSE Comparison(p, q, now, age)]
  /\ UNCHANGED <<pages, source, run>>

\* Every other way out of the handler: the caller, the query, the scope, a product or a
\* run that is not there, a read that fails.
ReadDenied ==
  /\ answer = NoAnswer
  /\ answer' = Denied
  /\ UNCHANGED <<pages, source, run>>

\* The answer is out.
Answered ==
  /\ answer # NoAnswer
  /\ answer' = NoAnswer
  /\ UNCHANGED <<pages, source, run>>

Next ==
  \/ \E capability \in Capabilities, requested \in SUBSET Products,
        n \in [expected : 0..MaxPages, observed : 0..MaxPages], inOrder \in BOOLEAN :
       \E returned \in [requested -> SnapshotsOf(capability) \cup {None}] :
         Build(capability, requested, returned, n, inOrder)
  \/ BuildRefused \/ ReadDenied \/ Answered
  \/ \E p \in Products, q \in Products \cup {None}, now, age \in Times : Read(p, q, now, age)

Spec == Init /\ [][Next]_vars

-----------------------------------------------------------------------------
Recent(p) == answer.now - source[p].asOf <= answer.age

\* Nothing is claimed that the provider did not say: a number on display is the one
\* returned and not too old, and two products are compared only when every page was
\* seen, every product requested was returned and both numbers are recent.
ClaimsAreFounded ==
  answer.kind = "shown" =>
    /\ answer.metric.kind = "value"
         => /\ source[answer.product] # None
            /\ answer.metric.value = source[answer.product].value /\ Recent(answer.product)
    /\ answer.comparison.kind = "eligible"
         => /\ pages.observed = pages.expected
            /\ \A p \in run.requested : source[p] # None /\ source[p].state # "not_returned"
            /\ Recent(answer.product) /\ Recent(answer.other)
            /\ answer.comparison.delta = source[answer.product].value - source[answer.other].value
=============================================================================
