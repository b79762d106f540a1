--------------------------- MODULE StagingControl ---------------------------
(***************************************************************************)
(* Whether a shop may leave the write hold of staging: the flags and the   *)
(* reconciliation saved for it, and the workflow the API derives from      *)
(* them. A snapshot is saved by two statements of one transaction; the row *)
(* lock of the first keeps savers apart.                                   *)
(***************************************************************************)
CONSTANTS
  Snapshots,  \* snapshots that may be saved
  None

Gates == {"verified", "unknown", "denied"}

\* The states among the five capability gates, and the pilot flag.
Flags == [gates : (SUBSET Gates) \ {{}}, pilot : BOOLEAN]
\* Whether the destination counts agree; a clean one with others is not accepted.
Reconciliations ==
  {r \in [status : {"clean", "mismatch", "unavailable"}, agree : BOOLEAN] :
     r.status = "clean" => r.agree}

StagingAssumption ==
  /\ Snapshots \subseteq [flags : Flags, reconciliation : Reconciliations]
  /\ None \notin Snapshots \cup Flags \cup Reconciliations

VARIABLES
  stored,  \* the two rows of the shop
  tx,      \* the snapshot being saved, and the rows written in the open transaction
  saved,   \* history: the snapshot whose transaction committed last
  answer   \* what the API has just answered

vars == <<stored, tx, saved, answer>>

NoRows == [flags |-> None, reconciliation |-> None]
Rows == [flags : Flags \cup {None}, reconciliation : Reconciliations \cup {None}]
Denials == {"authentication_required", "invalid_staging_request", "organization_mismatch",
            "shop_not_accessible", "staging_state_not_found", "staging_state_unavailable"}
Disabled == {"capability_unknown", "capability_denied", "feature_flag_disabled"}
Holds == {"write_gate_disabled", "reconciliation_mismatch", "reconciliation_unavailable"}

TypeOK ==
  /\ stored \in Rows /\ saved \in Snapshots \cup {None}
  /\ tx \in [snapshot : Snapshots \cup {None}, written : Rows]
  /\ answer \in {None} \cup [denied : Denials]
                \cup [gate : Disabled \cup {"write_eligible"}, hold : Holds \cup {"hold_released"}]

Idle == [snapshot |-> None, written |-> NoRows]

Init == stored = NoRows /\ tx = Idle /\ saved = None /\ answer = None

-----------------------------------------------------------------------------
(* saveSnapshot. *)

\* Parsed, then the upsert of the flags, which waits for another saver's.
UpsertFlags(snapshot) ==
  /\ tx.snapshot = None
  /\ tx' = [snapshot |-> snapshot, written |-> [NoRows EXCEPT !.flags = snapshot.flags]]
  /\ answer' = None /\ UNCHANGED <<stored, saved>>

UpsertReconciliation ==
  /\ tx.snapshot # None /\ tx.written.reconciliation = None
  /\ tx' = [tx EXCEPT !.written.reconciliation = tx.snapshot.reconciliation]
  /\ answer' = None /\ UNCHANGED <<stored, saved>>

CommitSnapshot ==
  /\ tx.snapshot # None /\ tx.written.reconciliation # None
  /\ stored' = tx.written /\ saved' = tx.snapshot /\ tx' = Idle
  /\ answer' = None

\* Mutant: each statement commits for itself.
KeepWritten(rows, written) == IF written.flags = None THEN rows
                              ELSE [rows EXCEPT !.flags = written.flags]

\* The transaction fails, or its process dies, after either statement.
RolledBack(rows, written) == rows

AbortSnapshot ==
  /\ tx.snapshot # None
  /\ stored' = RolledBack(stored, tx.written) /\ tx' = Idle
  /\ answer' = None /\ UNCHANGED saved

-----------------------------------------------------------------------------
(* The workflow and the API. *)

\* evaluateStagingWriteGate.
WriteGate(flags) ==
  IF "unknown" \in flags.gates THEN "capability_unknown"
  ELSE IF "denied" \in flags.gates THEN "capability_denied"
  ELSE IF ~flags.pilot THEN "feature_flag_disabled"
  ELSE "write_eligible"

\* determineHoldControl.
HoldControl(gate, reconciliation) ==
  IF gate # "write_eligible" THEN "write_gate_disabled"
  ELSE CASE reconciliation.status = "clean" -> "hold_released"
         [] reconciliation.status = "mismatch" -> "reconciliation_mismatch"
         [] reconciliation.status = "unavailable" -> "reconciliation_unavailable"

\* readSnapshot joins the rows; buildReadOnlyAlphaWorkflow allows no mutation either way.
Read ==
  /\ answer' = IF None \in {stored.flags, stored.reconciliation}
               THEN [denied |-> "staging_state_not_found"]
               ELSE LET gate == WriteGate(stored.flags)
                    IN [gate |-> gate, hold |-> HoldControl(gate, stored.reconciliation)]
  /\ UNCHANGED <<stored, tx, saved>>

\* createStagingApiHandler refuses the caller or the query, or the read fails.
ReadDenied(reason) ==
  /\ reason \in Denials \ {"staging_state_not_found"}
  /\ answer' = [denied |-> reason]
  /\ UNCHANGED <<stored, tx, saved>>

Next ==
  \/ \E snapshot \in Snapshots : UpsertFlags(snapshot)
  \/ UpsertReconciliation \/ CommitSnapshot \/ AbortSnapshot
  \/ Read \/ \E reason \in Denials : ReadDenied(reason)

Spec == Init /\ [][Next]_vars

-----------------------------------------------------------------------------
\* The hold is released only on one saved snapshot with every gate verified, the pilot
\* on and a clean reconciliation: never on the flags of one and the counts of another,
\* whichever statement of a save was the last to run.
HoldIsFounded ==
  answer # None /\ "hold" \in DOMAIN answer /\ answer.hold = "hold_released" =>
    /\ saved # None
    /\ saved.flags = [gates |-> {"verified"}, pilot |-> TRUE]
    /\ saved.reconciliation = [status |-> "clean", agree |-> TRUE]
=============================================================================
