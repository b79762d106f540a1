--------------------------- MODULE WriteRecovery ---------------------------
(***************************************************************************)
(* The confirmed-write path of packages/write-recovery: a confirmed copy   *)
(* command is expanded into one attempt per destination shop, an attempt   *)
(* is dispatched, and workers push it through the provider steps           *)
(* (media_upload, item_create, variation_init, publication) while an       *)
(* operator resolves the attempts whose outcome is unknown.                *)
(*                                                                         *)
(* Every repository call of the code is a transaction of its own, so every *)
(* call is one action here and a worker can stop between any two of them.  *)
(* The same attempt can be executed by several workers at a time: a queue  *)
(* job whose lease expired is delivered again while the first worker may   *)
(* still be running.                                                       *)
(***************************************************************************)
EXTENDS Naturals, Sequences

CONSTANTS
  Commands,    \* confirmed write commands (write_commands.command_id)
  Attempts,    \* attempt ids: the hash of intent, version and one destination
  Workers,     \* executions of executeConfirmedWriteWorker
  Operators,   \* people working the recovery inbox
  NumSteps,    \* the length of STEPS (4 in the code)
  PlanOf,      \* the attempt ids createWritePlan derives for a command
  None         \* no command, no attempt

Steps == 1..NumSteps

ASSUME WriteAssumption ==
  /\ NumSteps \in Nat \ {0}
  /\ PlanOf \in [Commands -> (SUBSET Attempts) \ {{}}]
  /\ None \notin Commands
  /\ None \notin Attempts

VARIABLES
  command,    \* the plan kind saved for each command
  attempt,    \* write_attempts
  decisions,  \* write_recovery_decisions, append-only, by attempt
  operation,  \* external_operation_attempts.state, by attempt and step
  calls,      \* how often the provider was called, by attempt and step
  request,    \* what became of the call at the provider
  granted,    \* what the revalidator answers for an attempt
  pc, job, step, result,  \* a worker's control point and locals
  review      \* the attempt an operator has open

db == <<command, attempt, decisions, operation>>
provider == <<calls, request>>
locals == <<pc, job, step, result>>
vars == <<command, attempt, decisions, operation, calls, request, granted,
          pc, job, step, result, review>>

AttemptStates ==
  {"pending", "dispatched", "succeeded", "failed", "outcome_unknown", "reauth_required"}
Settled == {"succeeded", "failed", "reauth_required"}

OperationStates ==
  {"prepared", "sent", "succeeded", "failed", "outcome_unknown", "reauth_required"}

Outcomes == {"succeeded", "failed", "outcome_unknown"}

DecisionKinds == {"reauthenticate", "mark_failed", "confirm_succeeded"}

\* The state recoverOutcomeUnknown gives an attempt for a decision.
Resolution ==
  [reauthenticate |-> "reauth_required", mark_failed |-> "failed",
   confirm_succeeded |-> "succeeded"]

PcValues ==
  {"idle", "read", "create", "revalidate", "send", "call", "await", "record", "finish"}

Attempt(state, c, allowed) ==
  [state |-> state, command |-> c, dispatchAllowed |-> allowed]

Absent == Attempt("absent", None, FALSE)

TypeOK ==
  /\ command \in [Commands -> {"unsaved", "ready", "write_disabled"}]
  /\ attempt \in [Attempts -> [state : AttemptStates \cup {"absent"},
                               command : Commands \cup {None},
                               dispatchAllowed : BOOLEAN]]
  /\ decisions \in [Attempts -> Seq(DecisionKinds)]
  /\ operation \in [Attempts -> [Steps -> OperationStates \cup {"absent"}]]
  /\ calls \in [Attempts -> [Steps -> Nat]]
  /\ request \in [Attempts -> [Steps -> {"none", "inflight", "applied", "rejected"}]]
  /\ granted \in [Attempts -> BOOLEAN]
  /\ pc \in [Workers -> PcValues]
  /\ job \in [Workers -> Attempts \cup {None}]
  /\ \A w \in Workers : pc[w] # "idle" => job[w] \in Attempts
  /\ step \in [Workers -> Steps]
  /\ result \in [Workers -> Outcomes]
  /\ review \in [Operators -> Attempts \cup {None}]

Init ==
  /\ command = [c \in Commands |-> "unsaved"]
  /\ attempt = [a \in Attempts |-> Absent]
  /\ decisions = [a \in Attempts |-> <<>>]
  /\ operation = [a \in Attempts |-> [s \in Steps |-> "absent"]]
  /\ calls = [a \in Attempts |-> [s \in Steps |-> 0]]
  /\ request = [a \in Attempts |-> [s \in Steps |-> "none"]]
  /\ granted = [a \in Attempts |-> TRUE]
  /\ pc = [w \in Workers |-> "idle"]
  /\ job = [w \in Workers |-> None]
  /\ step = [w \in Workers |-> 1]
  /\ result = [w \in Workers |-> "succeeded"]
  /\ review = [o \in Operators |-> None]

-----------------------------------------------------------------------------
\* Saving a plan and dispatching its attempts (the web process).

\* Mutant: ON CONFLICT DO UPDATE, the later plan takes the rows over.
UpsertsAttempts(c) == PlanOf[c] # {}

\* createWritePlan, then savePlan: the command row and every attempt row are
\* inserted in one transaction. Two commands can derive the same attempt id;
\* the primary key of write_attempts then rejects the whole second plan.
NoKeyConflict(c) == \A a \in PlanOf[c] : attempt[a].state = "absent"

InsertPlan(c, kind) ==
  /\ command[c] = "unsaved"
  /\ NoKeyConflict(c)
  /\ command' = [command EXCEPT ![c] = kind]
  /\ attempt' = [a \in Attempts |->
                   IF a \in PlanOf[c] THEN Attempt("pending", c, kind = "ready")
                   ELSE attempt[a]]

\* The capability gate is verified, or unknown or denied.
SavePlan(c) ==
  /\ \E kind \in {"ready", "write_disabled"} : InsertPlan(c, kind)
  /\ UNCHANGED <<decisions, operation, provider, granted, locals, review>>

\* Mutant: the capability gate of the plan is not consulted.
MayDispatchUngated(c, a, binding) ==
  /\ a \in PlanOf[c] /\ attempt[a].command = c
  /\ binding = c
  /\ attempt[a].state = "pending"

\* What dispatchAttempt demands, with the binding the caller presents. A
\* binding is the hash of the command's fields: one per command.
MayDispatch(c, a, binding) ==
  /\ a \in PlanOf[c] /\ attempt[a].command = c
  /\ command[c] = "ready"
  /\ binding = c
  /\ attempt[a].state = "pending"

\* createConfirmedWriteDispatch, then updateAttempt expecting 'pending'.
DispatchAttempt(c, a, binding) ==
  /\ MayDispatch(c, a, binding)
  /\ attempt' = [attempt EXCEPT ![a] = Attempt("dispatched", c, FALSE)]
  /\ UNCHANGED <<command, decisions, operation, provider, granted, locals, review>>

-----------------------------------------------------------------------------
\* The worker. Exit(w) is a return or a throw: the locals are gone.

Goto(w, l) == pc' = [pc EXCEPT ![w] = l]

Exit(w) ==
  /\ Goto(w, "idle")
  /\ job' = [job EXCEPT ![w] = None]
  /\ step' = [step EXCEPT ![w] = 1]
  /\ result' = [result EXCEPT ![w] = "succeeded"]

Conclude(w, r) ==
  /\ Goto(w, "finish")
  /\ result' = [result EXCEPT ![w] = r]
  /\ UNCHANGED <<job, step>>

\* Mutant: the loop does not stop at the last step.
NextStepPastEnd(w) ==
  /\ Goto(w, "read")
  /\ step' = [step EXCEPT ![w] = @ + 1]
  /\ UNCHANGED <<job, result>>

\* `continue` of the loop over STEPS, and its end.
NextStep(w) ==
  IF step[w] = NumSteps THEN Conclude(w, "succeeded")
  ELSE /\ Goto(w, "read")
       /\ step' = [step EXCEPT ![w] = @ + 1]
       /\ UNCHANGED <<job, result>>

\* Mutant: an attempt that was never dispatched is executed as well.
MayExecutePending(a) ==
  /\ attempt[a].command # None
  /\ command[attempt[a].command] = "ready"
  /\ attempt[a].state \in {"pending", "dispatched"}

\* validateDispatchBoundary and the early returns on an attempt that has a
\* verdict already.
MayExecute(a) ==
  /\ attempt[a].command # None
  /\ command[attempt[a].command] = "ready"
  /\ ~attempt[a].dispatchAllowed
  /\ attempt[a].state = "dispatched"

\* The attempt is read once; the snapshot the worker keeps says 'dispatched'.
StartExecution(w, a) ==
  /\ pc[w] = "idle"
  /\ MayExecute(a)
  /\ Goto(w, "read")
  /\ job' = [job EXCEPT ![w] = a]
  /\ step' = [step EXCEPT ![w] = 1]
  /\ UNCHANGED <<db, provider, granted, result, review>>

\* Mutant: an operation found 'sent' belongs to another worker: leave it.
LeaveSent(w) == Exit(w)

\* An operation found 'sent' was left behind by an execution that never
\* recorded the answer: its outcome is unknown.
AbandonSent(w) ==
  /\ Goto(w, "record")
  /\ result' = [result EXCEPT ![w] = "outcome_unknown"]
  /\ UNCHANGED <<job, step>>

\* readExternalOperationAttempt and the tests on the state it returns.
ReadOperation(w) ==
  /\ pc[w] = "read"
  /\ LET o == operation[job[w]][step[w]] IN
       \/ /\ o = "absent" /\ Goto(w, "create")
          /\ UNCHANGED <<job, step, result>>
       \/ /\ o = "prepared" /\ Goto(w, "revalidate")
          /\ UNCHANGED <<job, step, result>>
       \/ o = "succeeded" /\ NextStep(w)
       \/ o = "failed" /\ Conclude(w, "failed")
       \/ o \in {"outcome_unknown", "reauth_required"} /\ Conclude(w, "outcome_unknown")
       \/ o = "sent" /\ AbandonSent(w)
  /\ UNCHANGED <<db, provider, granted, review>>

SetOperation(a, s, state) == operation' = [operation EXCEPT ![a][s] = state]

\* saveExternalOperationAttempt: a second insert of the same id throws.
CreateOperation(w) ==
  /\ pc[w] = "create"
  /\ IF operation[job[w]][step[w]] = "absent"
     THEN /\ SetOperation(job[w], step[w], "prepared")
          /\ Goto(w, "revalidate")
          /\ UNCHANGED <<job, step, result>>
     ELSE Exit(w) /\ UNCHANGED operation
  /\ UNCHANGED <<command, attempt, decisions, provider, granted, review>>

\* The injected revalidator; a denial leaves operation and attempt as they are.
Revalidate(w) ==
  /\ pc[w] = "revalidate"
  /\ IF granted[job[w]] THEN Goto(w, "send") /\ UNCHANGED <<job, step, result>>
     ELSE Exit(w)
  /\ UNCHANGED <<db, provider, granted, review>>

\* assertExternalOperationTransition
AllowedTransitions ==
  [prepared |-> {"sent", "failed"},
   sent |-> {"succeeded", "failed", "outcome_unknown"},
   outcome_unknown |-> {"succeeded", "failed", "reauth_required"},
   succeeded |-> {}, failed |-> {}, reauth_required |-> {}]

\* Mutant: the UPDATE is not conditional on the expected state.
CanUpdateBlindly(a, s, expected, next) == next \in AllowedTransitions[expected]

\* updateExternalOperationAttempt: UPDATE ... WHERE state = expected.
CanUpdateOperation(a, s, expected, next) ==
  /\ next \in AllowedTransitions[expected]
  /\ operation[a][s] = expected

MarkSent(w) ==
  /\ pc[w] = "send"
  /\ IF CanUpdateOperation(job[w], step[w], "prepared", "sent")
     THEN /\ SetOperation(job[w], step[w], "sent")
          /\ Goto(w, "call")
          /\ UNCHANGED <<job, step, result>>
     ELSE Exit(w) /\ UNCHANGED operation
  /\ UNCHANGED <<command, attempt, decisions, provider, granted, review>>

CallProvider(w) ==
  /\ pc[w] = "call"
  /\ calls' = [calls EXCEPT ![job[w]][step[w]] = @ + 1]
  /\ request' = [request EXCEPT ![job[w]][step[w]] = "inflight"]
  /\ Goto(w, "await")
  /\ UNCHANGED <<db, granted, job, step, result, review>>

\* Mutant: an exception of the provider call counts as a failed step.
ResponsesFailFast(a, s) == {"failed"} \cup
  IF request[a][s] = "applied" THEN {"succeeded"} ELSE {}

\* The response the worker gets: the provider's answer, or an exception
\* (timeout, lost response) whatever the provider did.
Responses(a, s) ==
  {"outcome_unknown"} \cup
  {r \in {"succeeded", "failed"} :
     request[a][s] = IF r = "succeeded" THEN "applied" ELSE "rejected"}

AwaitResponse(w) ==
  /\ pc[w] = "await"
  /\ \E r \in Responses(job[w], step[w]) : result' = [result EXCEPT ![w] = r]
  /\ Goto(w, "record")
  /\ UNCHANGED <<db, provider, granted, job, step, review>>

\* Mutant: the loop goes on after a step that did not succeed.
AlwaysNextStep(w) == NextStep(w)

AfterResult(w) ==
  IF result[w] = "succeeded" THEN NextStep(w) ELSE Conclude(w, result[w])

\* sent -> succeeded | failed | outcome_unknown
RecordResult(w) ==
  /\ pc[w] = "record"
  /\ IF CanUpdateOperation(job[w], step[w], "sent", result[w])
     THEN /\ SetOperation(job[w], step[w], result[w])
          /\ AfterResult(w)
     ELSE Exit(w) /\ UNCHANGED operation
  /\ UNCHANGED <<command, attempt, decisions, provider, granted, review>>

\* Mutant: the attempt's UPDATE is not conditional on its state.
CanUpdateAttemptBlindly(a) == attempt[a].state # "absent"

CanUpdateAttempt(a) == attempt[a].state = "dispatched"

\* finishUnknown, finishFailed and the update after the loop: updateAttempt
\* expects the state of the snapshot, 'dispatched', and throws otherwise.
FinishAttempt(w) ==
  /\ pc[w] = "finish"
  /\ LET a == job[w] IN
       IF CanUpdateAttempt(a)
       THEN attempt' = [attempt EXCEPT ![a] = Attempt(result[w], @.command, FALSE)]
       ELSE UNCHANGED attempt
  /\ Exit(w)
  /\ UNCHANGED <<command, decisions, operation, provider, granted, review>>

\* The process dies, or a repository call or the revalidator throws.
Crash(w) ==
  /\ pc[w] # "idle"
  /\ Exit(w)
  /\ UNCHANGED <<db, provider, granted, review>>

-----------------------------------------------------------------------------
\* The operator: the recovery API and persistRecoveryDecision.

\* POST: `find` returns an operation that is outcome_unknown, and
\* recoverOutcomeUnknown demands an attempt that is outcome_unknown.
OpenReview(o, a) ==
  /\ review[o] = None
  /\ \E s \in Steps : operation[a][s] = "outcome_unknown"
  /\ attempt[a].state = "outcome_unknown"
  /\ review' = [review EXCEPT ![o] = a]
  /\ UNCHANGED <<db, provider, granted, locals>>

\* Mutant: the UPDATE of the decision lacks its condition on the state.
AwaitsDecisionOrDecided(a) == attempt[a].state \in Settled \cup {"outcome_unknown"}

AwaitsDecision(a) == attempt[a].state = "outcome_unknown"

\* persistRecoveryDecision: the decision row is inserted and the attempt
\* updated where it still is outcome_unknown, or the transaction rolls back.
Decide(o, kind) ==
  /\ review[o] # None
  /\ LET a == review[o] IN
       IF AwaitsDecision(a)
       THEN /\ decisions' = [decisions EXCEPT ![a] = Append(@, kind)]
            /\ attempt' = [attempt EXCEPT ![a] = Attempt(Resolution[kind], @.command, FALSE)]
       ELSE UNCHANGED <<decisions, attempt>>
  /\ review' = [review EXCEPT ![o] = None]
  /\ UNCHANGED <<command, operation, provider, granted, locals>>

-----------------------------------------------------------------------------
\* The environment: the provider and the authorization the revalidator reads.

ProviderHandles(a, s) ==
  /\ request[a][s] = "inflight"
  /\ \E verdict \in {"applied", "rejected"} :
       request' = [request EXCEPT ![a][s] = verdict]
  /\ UNCHANGED <<db, calls, granted, locals, review>>

ChangeGrant(a) ==
  /\ granted' = [granted EXCEPT ![a] = ~@]
  /\ UNCHANGED <<db, provider, locals, review>>

-----------------------------------------------------------------------------
WorkerStep(w) ==
  \/ ReadOperation(w)
  \/ CreateOperation(w)
  \/ Revalidate(w)
  \/ MarkSent(w)
  \/ CallProvider(w)
  \/ AwaitResponse(w)
  \/ RecordResult(w)
  \/ FinishAttempt(w)

Next ==
  \/ \E c \in Commands : SavePlan(c)
  \/ \E c \in Commands, a \in Attempts, b \in Commands : DispatchAttempt(c, a, b)
  \/ \E w \in Workers, a \in Attempts : StartExecution(w, a)
  \/ \E w \in Workers : WorkerStep(w) \/ Crash(w)
  \/ \E o \in Operators, a \in Attempts : OpenReview(o, a)
  \/ \E o \in Operators, k \in DecisionKinds : Decide(o, k)
  \/ \E a \in Attempts, s \in Steps : ProviderHandles(a, s)
  \/ \E a \in Attempts : ChangeGrant(a)

Spec == Init /\ [][Next]_vars

\* Fairness. A running worker keeps running, and an attempt that is dispatched
\* is executed again for as long as it is: delivery is at-least-once. Nothing
\* is assumed of the provider (a call may time out), of operators or of grants.
FairSpec ==
  /\ Spec
  /\ \A w \in Workers : WF_vars(WorkerStep(w))
  /\ \A a \in Attempts : SF_vars(\E w \in Workers : StartExecution(w, a))

-----------------------------------------------------------------------------
(* Safety *)

\* The provider is called at most once for each step of an attempt, however
\* often the attempt is redelivered and however many workers run it: the
\* compare-and-set of updateExternalOperationAttempt admits one sender.
AtMostOneCall == \A a \in Attempts, s \in Steps : calls[a][s] <= 1

\* A step is sent only after the provider applied every earlier step and the
\* reference of each was recorded (the order of the loop over STEPS).
StepsInOrder ==
  \A a \in Attempts, s \in Steps : operation[a][s] \notin {"absent", "prepared"} =>
    \A t \in 1..(s - 1) : operation[a][t] = "succeeded" /\ request[a][t] = "applied"

\* A verdict no operator gave is the provider's: a succeeded attempt has every
\* step applied, a failed one a rejected step and nothing sent after it. An
\* exception of the call never becomes 'failed' (finishFailed, finishUnknown).
VerdictIsTheProviders ==
  \A a \in Attempts : decisions[a] = <<>> =>
    /\ attempt[a].state = "succeeded" => \A s \in Steps : request[a][s] = "applied"
    /\ attempt[a].state = "failed" =>
         \E s \in Steps : /\ request[a][s] = "rejected"
                          /\ \A t \in Steps : t > s => calls[a][t] = 0

\* A saved plan owns all its attempts and no attempt serves two commands,
\* though overlapping commands derive the same attempt ids (savePlan).
PlanIsWhole ==
  \A c \in Commands, a \in Attempts :
    (command[c] # "unsaved" /\ a \in PlanOf[c]) <=> attempt[a].command = c

\* Nothing is dispatched, recorded or called for a command whose capability
\* gate was not verified when its plan was made (createWritePlan).
GateHolds ==
  \A a \in Attempts :
    attempt[a].state \notin {"absent", "pending"} \/ (\E s \in Steps : calls[a][s] > 0)
      => command[attempt[a].command] = "ready"

\* An attempt is decided once, whoever has it open, and its state is the one
\* the recorded decision stands for (persistRecoveryDecision).
DecisionIsRecorded ==
  \A a \in Attempts :
    /\ Len(decisions[a]) <= 1
    /\ decisions[a] # <<>> => attempt[a].state = Resolution[decisions[a][1]]
    /\ attempt[a].state = "reauth_required" => decisions[a] # <<>>

\* A settled attempt never changes again, and outcome_unknown is left only by
\* the step that records a decision: no retry, late answer or second worker
\* reopens or overwrites a verdict (the expectedState of updateAttempt).
VerdictIsFinal ==
  [][\A a \in Attempts :
       /\ attempt[a].state \in Settled => attempt'[a] = attempt[a]
       /\ attempt[a].state = "outcome_unknown" /\ attempt'[a] # attempt[a] =>
            decisions'[a] # decisions[a]]_vars

(* Liveness *)

\* A step that only a crash explains: a denial or a lost race ends alike.
Dies(w) == Crash(w) /\ ~WorkerStep(w)

\* Unless workers crash for ever, a dispatched attempt gets a verdict or meets
\* a revalidator that denies it.
DispatchedSettles ==
  <>[][\A w \in Workers : ~Dies(w)]_vars =>
    \A a \in Attempts : attempt[a].state = "dispatched" ~>
                         (attempt[a].state # "dispatched" \/ ~granted[a])

\* An operation whose sender died is found out: 'sent' does not last.
SentIsResolved ==
  <>[][\A w \in Workers : ~Dies(w)]_vars =>
    \A a \in Attempts, s \in Steps :
      operation[a][s] = "sent" ~> operation[a][s] # "sent"

\* Nothing that was begun stays open because a worker died.
WritesSettle == DispatchedSettles /\ SentIsResolved

(* Claimed by the documentation *)

\* "Pause automatic retry and dispatch": while an attempt waits for evidence,
\* or has been decided, no call of its steps goes out.
NoCallAfterVerdict ==
  [][\A a \in Attempts, s \in Steps :
       calls'[a][s] # calls[a][s] => attempt[a].state = "dispatched"]_vars

\* "Persist mapping and continue only from the definitely incomplete safe step":
\* an attempt that ends as succeeded had every step sent to the provider.
SucceededWasSent ==
  \A a \in Attempts :
    attempt[a].state = "succeeded" => \A s \in Steps : calls[a][s] > 0

-----------------------------------------------------------------------------
(* The inductive invariant of the proofs in WriteRecoveryProofs. *)

Verdicts == Settled \cup {"outcome_unknown"}
Stopped == {"failed", "outcome_unknown", "reauth_required"}
AllSucceeded(a) == \A s \in Steps : operation[a][s] = "succeeded"
SomeStopped(a) == \E s \in Steps : operation[a][s] \in Stopped

\* The operations of an attempt are a prefix of the steps, all succeeded but
\* the last.
OperationsInOrder ==
  \A a \in Attempts, s \in Steps, t \in Steps :
    t < s /\ operation[a][s] # "absent" => operation[a][t] = "succeeded"

\* A call was marked before it was made, and is made once.
CallsAreMarked ==
  \A a \in Attempts, s \in Steps :
    /\ calls[a][s] \in {0, 1}
    /\ calls[a][s] = 0 <=> request[a][s] = "none"
    /\ calls[a][s] # 0 => operation[a][s] \notin {"absent", "prepared"}

RecordedAsAnswered ==
  \A a \in Attempts, s \in Steps :
    /\ operation[a][s] = "succeeded" => request[a][s] = "applied"
    /\ operation[a][s] = "failed" => request[a][s] = "rejected"

\* A running worker has a dispatched attempt and the steps before its own done.
InOrder(w) ==
  pc[w] # "idle" =>
    /\ attempt[job[w]].state \notin {"absent", "pending"}
    /\ \A t \in Steps : t < step[w] => operation[job[w]][t] = "succeeded"

\* What a worker knows of its step from what it has read, written or been told.
AtStep(w) ==
  LET a == job[w]  s == step[w] IN
    /\ pc[w] \in {"revalidate", "send"} => operation[a][s] # "absent"
    /\ pc[w] \in {"call", "await", "record"} => operation[a][s] \notin {"absent", "prepared"}
    /\ pc[w] = "call" => calls[a][s] = 0
    /\ pc[w] = "record" /\ result[w] = "succeeded" => request[a][s] = "applied"
    /\ pc[w] = "record" /\ result[w] = "failed" => request[a][s] = "rejected"
    /\ pc[w] = "finish" /\ result[w] = "succeeded" => AllSucceeded(a)
    /\ pc[w] = "finish" /\ result[w] = "failed" => operation[a][s] = "failed"
    /\ pc[w] = "finish" /\ result[w] = "outcome_unknown" =>
         operation[a][s] \in {"outcome_unknown", "reauth_required"}

\* No two workers are about to call the provider for the same step.
OneSender ==
  \A v, w \in Workers :
    pc[v] = "call" /\ pc[w] = "call" /\ job[v] = job[w] /\ step[v] = step[w] => v = w

\* Work is under way only on attempts that are open, and a verdict has a cause.
OpenWhileWorking ==
  \A a \in Attempts :
    /\ \A s \in Steps : operation[a][s] \in {"prepared", "sent"} => attempt[a].state = "dispatched"
    /\ attempt[a].state \in {"absent", "pending"} => \A s \in Steps : operation[a][s] = "absent"
    /\ attempt[a].state \in Verdicts => AllSucceeded(a) \/ SomeStopped(a)

VerdictHasCause ==
  \A a \in Attempts :
    /\ attempt[a].state \in {"absent", "pending", "dispatched", "outcome_unknown"} =>
         decisions[a] = <<>>
    /\ decisions[a] = <<>> /\ attempt[a].state = "succeeded" => AllSucceeded(a)
    /\ decisions[a] = <<>> /\ attempt[a].state = "failed" =>
         \E s \in Steps : operation[a][s] = "failed"
    /\ attempt[a].state = "outcome_unknown" => SomeStopped(a)

\* What the code maintains, with every worker anywhere between two of its calls.
Protocol ==
  /\ OperationsInOrder
  /\ CallsAreMarked
  /\ RecordedAsAnswered
  /\ \A w \in Workers : InOrder(w) /\ AtStep(w)
  /\ OneSender
  /\ OpenWhileWorking
  /\ VerdictHasCause
  /\ DecisionIsRecorded

\* In every state the rows of an attempt, the requests the provider got and the position
\* of every worker fit together.
Invariant == TypeOK /\ Protocol

-----------------------------------------------------------------------------
\* The promise to the seller, and how this module implements it.
Verdict(a) ==
  CASE attempt[a].state \in {"absent", "pending"} -> "none"
    [] attempt[a].state = "dispatched" -> "open"
    [] OTHER -> attempt[a].state

Publication == INSTANCE SafePublication WITH
  verdict <- [a \in Attempts |-> Verdict(a)],
  sent <- [a \in Attempts |-> {s \in Steps : operation[a][s] \notin {"absent", "prepared"}}],
  answer <- [a \in Attempts |-> [s \in Steps |->
               IF request[a][s] = "inflight" THEN "none" ELSE request[a][s]]]

\* Workers, retries and operators together implement the publication protocol
\* of SafePublication: each step is sent once, in order, and only while open.
ImplementsPublication == Publication!Spec

=============================================================================
