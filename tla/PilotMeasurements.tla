-------------------------- MODULE PilotMeasurements --------------------------
(***************************************************************************)
(* The pilot measurements of an organization: what a capture is judged to  *)
(* be, and the rows kept of them. Minutes and targets are whole numbers, a *)
(* reduction is in hundredths of a percent.                                *)
(***************************************************************************)
EXTENDS Integers

CONSTANTS
  Ids,
  Captures,  \* [baseline, observed, target : Nat]
  None

MeasurementAssumption ==
  /\ \A c \in Captures : /\ c.baseline \in Nat \ {0} /\ c.observed \in Nat
                         /\ c.target \in 50..100
  /\ None \notin Captures /\ None \notin Ids

VARIABLES
  rows,   \* pilot_workflow_measurements
  answer  \* what the API has just answered

vars == <<rows, answer>>

Outcomes == {"target_met", "target_missed"}
Records == [capture : Captures, reduction : Int, outcome : Outcomes]
Denials == {"authentication_required", "method_not_allowed", "measurement_read_forbidden",
            "measurement_capture_forbidden", "invalid_measurement_request",
            "organization_mismatch", "measurement_not_found", "measurement_state_unavailable",
            "measurement_duplicate", "measurement_persistence_unavailable"}

TypeOK ==
  /\ \A i \in Ids : rows[i] = None \/ rows[i] \in Records
  /\ answer.kind \in {"none", "denied", "captured"}

Init == rows = [i \in Ids |-> None] /\ answer = [kind |-> "none"]

-----------------------------------------------------------------------------
\* roundToTwoDecimalPlaces: Math.round takes a half up, of a negative number too.
Reduction(c) == ((c.baseline - c.observed) * 20000 + c.baseline) \div (2 * c.baseline)

\* reductionPercent.
ReductionPercent(c) == Reduction(c)

\* evaluatePilotMeasurement.
Evaluate(c) ==
  [capture |-> c, reduction |-> ReductionPercent(c),
   outcome |-> IF ReductionPercent(c) >= c.target * 100 THEN "target_met" ELSE "target_missed"]

\* captureMeasurement: the id is new to the process, yet may be in the table.
Capture(i, c) ==
  /\ IF rows[i] = None
     THEN /\ rows' = [rows EXCEPT ![i] = Evaluate(c)]
          /\ answer' = [kind |-> "captured", id |-> i, record |-> Evaluate(c)]
     ELSE /\ answer' = [kind |-> "denied", reason |-> "measurement_duplicate"]
          /\ UNCHANGED rows

\* The insert committed and its answer was lost: the caller is told to try again.
CaptureLost(i, c) ==
  /\ rows[i] = None
  /\ rows' = [rows EXCEPT ![i] = Evaluate(c)]
  /\ answer' = [kind |-> "denied", reason |-> "measurement_persistence_unavailable"]

\* saveMeasurement of a record whose outcome is not the capture's.
SaveMismatch(i, c, claimed) ==
  /\ claimed # Evaluate(c).outcome
  /\ answer' = [kind |-> "denied", reason |-> "measurement_persistence_unavailable"]
  /\ UNCHANGED rows

\* readMeasurement. The driver gives the numeric columns of a row as text, which
\* requiredNumber refuses: a row that is there cannot be read.
ReadBack(i) ==
  /\ answer' = [kind |-> "denied",
                reason |-> IF rows[i] = None THEN "measurement_not_found"
                           ELSE "measurement_state_unavailable"]
  /\ UNCHANGED rows

\* createStagingMeasurementApiHandler refuses the caller, the method or the request, or
\* the database fails.
Refused(reason) ==
  /\ reason \in Denials \ {"measurement_not_found", "measurement_duplicate"}
  /\ answer' = [kind |-> "denied", reason |-> reason]
  /\ UNCHANGED rows

Next ==
  \/ \E i \in Ids, c \in Captures : Capture(i, c) \/ CaptureLost(i, c)
  \/ \E i \in Ids, c \in Captures, claimed \in Outcomes : SaveMismatch(i, c, claimed)
  \/ \E i \in Ids : ReadBack(i)
  \/ \E reason \in Denials : Refused(reason)

Spec == Init /\ [][Next]_vars

-----------------------------------------------------------------------------
\* A measurement is said to meet its target only when the minutes do, to half a
\* hundredth of a percent, and what the API says it captured is what is kept.
OutcomeIsFair ==
  /\ \A i \in Ids : rows[i] # None =>
       LET c == rows[i].capture
           gain == 20000 * (c.baseline - c.observed)
       IN IF rows[i].outcome = "target_met"
          THEN gain >= (200 * c.target - 1) * c.baseline
          ELSE gain < 200 * c.target * c.baseline
  /\ answer.kind = "captured" => rows[answer.id] = answer.record
=============================================================================
