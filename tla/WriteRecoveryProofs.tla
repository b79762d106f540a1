------------------------ MODULE WriteRecoveryProofs ------------------------
(***************************************************************************)
(* Proofs about WriteRecovery for every set of commands, attempts, workers *)
(* and operators and every number of provider steps.                       *)
(***************************************************************************)
EXTENDS WriteRecovery, TLAPS

\* The steps are 1 up to NumSteps.
LEMMA StepFacts ==
  /\ 1 \in Steps
  /\ \A s \in Steps : s # NumSteps => s + 1 \in Steps
  /\ \A s \in Steps : s \in Nat
BY WriteAssumption DEF Steps

\* The locals of the workers are typed, and a running worker has a job.
LocalsOK ==
  /\ pc \in [Workers -> PcValues]
  /\ job \in [Workers -> Attempts \cup {None}]
  /\ \A w \in Workers : pc[w] # "idle" => job[w] \in Attempts
  /\ step \in [Workers -> Steps]
  /\ result \in [Workers -> Outcomes]

\* Moving a running worker to another control point keeps the locals typed.
LEMMA GotoTyped ==
  ASSUME TypeOK, NEW w \in Workers, NEW l \in PcValues, pc[w] # "idle",
         Goto(w, l), UNCHANGED <<job, step, result>>
  PROVE  LocalsOK'
BY DEF TypeOK, LocalsOK, Goto

\* A return or a throw keeps the locals typed.
LEMMA ExitTyped ==
  ASSUME TypeOK, NEW w \in Workers, Exit(w)
  PROVE  LocalsOK'
<1>1. "idle" \in PcValues /\ "succeeded" \in Outcomes
  BY DEF PcValues, Outcomes
<1>. QED
  BY <1>1, StepFacts DEF TypeOK, LocalsOK, Exit, Goto

\* Leaving the loop with a result keeps the locals typed.
LEMMA ConcludeTyped ==
  ASSUME TypeOK, NEW w \in Workers, NEW r \in Outcomes, pc[w] # "idle", Conclude(w, r)
  PROVE  LocalsOK'
BY DEF TypeOK, LocalsOK, Conclude, Goto, PcValues

\* The next turn of the loop over STEPS, or its end, keeps the locals typed.
LEMMA NextStepTyped ==
  ASSUME TypeOK, NEW w \in Workers, pc[w] # "idle", NextStep(w)
  PROVE  LocalsOK'
<1>1. CASE step[w] = NumSteps
  BY <1>1, ConcludeTyped DEF NextStep, Outcomes
<1>2. CASE step[w] # NumSteps
  <2>1. step[w] + 1 \in Steps
    BY <1>2, StepFacts DEF TypeOK
  <2>. QED
    BY <1>2, <2>1 DEF TypeOK, LocalsOK, NextStep, Goto, PcValues
<1>. QED
  BY <1>1, <1>2

\* Writing the state of one operation keeps the table typed.
LEMMA SetOperationTyped ==
  ASSUME TypeOK, NEW a \in Attempts, NEW s \in Steps, NEW o \in OperationStates,
         SetOperation(a, s, o)
  PROVE  operation' \in [Attempts -> [Steps -> OperationStates \cup {"absent"}]]
BY DEF TypeOK, SetOperation

\* Writing the state of one attempt keeps the table typed.
LEMMA SetAttemptTyped ==
  ASSUME TypeOK, NEW a \in Attempts, NEW st \in AttemptStates,
         attempt' = [attempt EXCEPT ![a] = Attempt(st, @.command, FALSE)]
  PROVE  attempt' \in [Attempts -> [state : AttemptStates \cup {"absent"},
                                  command : Commands \cup {None},
                                  dispatchAllowed : BOOLEAN]]
BY DEF TypeOK, Attempt

\* The tables of the write path and the locals of its workers keep their types.
THEOREM TypeCorrect == Spec => []TypeOK
<1>1. Init => TypeOK
  BY StepFacts DEF Init, TypeOK, Absent, Attempt, PcValues, Outcomes
<1>2. TypeOK /\ [Next]_vars => TypeOK'
  <2>. SUFFICES ASSUME TypeOK, [Next]_vars PROVE TypeOK'
    OBVIOUS
  <2>1. ASSUME NEW c \in Commands, SavePlan(c) PROVE TypeOK'
    BY <2>1 DEF TypeOK, SavePlan, InsertPlan, Attempt, AttemptStates, provider, locals
  <2>2. ASSUME NEW c \in Commands, NEW a \in Attempts, NEW b \in Commands,
               DispatchAttempt(c, a, b)
        PROVE TypeOK'
    BY <2>2 DEF TypeOK, DispatchAttempt, Attempt, AttemptStates, provider, locals
  <2>3. ASSUME NEW w \in Workers, NEW a \in Attempts, StartExecution(w, a) PROVE TypeOK'
    BY <2>3, StepFacts DEF TypeOK, StartExecution, Goto, PcValues, db, provider
  <2>4. ASSUME NEW w \in Workers, ReadOperation(w) PROVE TypeOK'
    <3>1. LocalsOK'
      <4>1. CASE Goto(w, "create") /\ UNCHANGED <<job, step, result>>
        BY <2>4, <4>1, GotoTyped DEF ReadOperation, PcValues
      <4>2. CASE Goto(w, "revalidate") /\ UNCHANGED <<job, step, result>>
        BY <2>4, <4>2, GotoTyped DEF ReadOperation, PcValues
      <4>3. CASE NextStep(w)
        BY <2>4, <4>3, NextStepTyped DEF ReadOperation
      <4>4. ASSUME NEW r \in Outcomes, Conclude(w, r) PROVE LocalsOK'
        BY <2>4, <4>4, ConcludeTyped DEF ReadOperation
      <4>5. CASE AbandonSent(w)
        BY <2>4, <4>5 DEF ReadOperation, AbandonSent, LocalsOK, TypeOK, Goto, PcValues, Outcomes
      <4>. QED
        BY <2>4, <4>1, <4>2, <4>3, <4>4, <4>5 DEF ReadOperation, Outcomes
    <3>. QED
      BY <2>4, <3>1 DEF ReadOperation, TypeOK, LocalsOK, db, provider
  <2>5. ASSUME NEW w \in Workers, CreateOperation(w) PROVE TypeOK'
    <3>1. LocalsOK'
      BY <2>5, GotoTyped, ExitTyped DEF CreateOperation, PcValues
    <3>2. operation' \in [Attempts -> [Steps -> OperationStates \cup {"absent"}]]
      BY <2>5, SetOperationTyped DEF CreateOperation, TypeOK, OperationStates
    <3>. QED
      BY <2>5, <3>1, <3>2 DEF CreateOperation, TypeOK, LocalsOK, provider
  <2>6. ASSUME NEW w \in Workers, Revalidate(w) PROVE TypeOK'
    <3>1. LocalsOK'
      BY <2>6, GotoTyped, ExitTyped DEF Revalidate, PcValues
    <3>. QED
      BY <2>6, <3>1 DEF Revalidate, TypeOK, LocalsOK, db, provider
  <2>7. ASSUME NEW w \in Workers, MarkSent(w) PROVE TypeOK'
    <3>1. LocalsOK'
      BY <2>7, GotoTyped, ExitTyped DEF MarkSent, PcValues
    <3>2. operation' \in [Attempts -> [Steps -> OperationStates \cup {"absent"}]]
      BY <2>7, SetOperationTyped DEF MarkSent, TypeOK, OperationStates
    <3>. QED
      BY <2>7, <3>1, <3>2 DEF MarkSent, TypeOK, LocalsOK, provider
  <2>8. ASSUME NEW w \in Workers, CallProvider(w) PROVE TypeOK'
    <3>1. LocalsOK'
      BY <2>8, GotoTyped DEF CallProvider, PcValues
    <3>2. job[w] \in Attempts /\ step[w] \in Steps
      BY <2>8 DEF CallProvider, TypeOK
    <3>3. calls' \in [Attempts -> [Steps -> Nat]]
      BY <2>8, <3>2 DEF CallProvider, TypeOK
    <3>4. request' \in [Attempts -> [Steps -> {"none", "inflight", "applied", "rejected"}]]
      BY <2>8, <3>2 DEF CallProvider, TypeOK
    <3>. QED
      BY <2>8, <3>1, <3>3, <3>4 DEF CallProvider, TypeOK, LocalsOK, db
  <2>9. ASSUME NEW w \in Workers, AwaitResponse(w) PROVE TypeOK'
    BY <2>9 DEF TypeOK, AwaitResponse, Responses, Goto, PcValues, Outcomes, db, provider
  <2>10. ASSUME NEW w \in Workers, RecordResult(w) PROVE TypeOK'
    <3>1. LocalsOK'
      BY <2>10, NextStepTyped, ConcludeTyped, ExitTyped DEF RecordResult, AfterResult, TypeOK
    <3>2. result[w] \in OperationStates /\ step[w] \in Steps /\ job[w] \in Attempts
      BY <2>10 DEF RecordResult, TypeOK, Outcomes, OperationStates
    <3>3. operation' \in [Attempts -> [Steps -> OperationStates \cup {"absent"}]]
      BY <2>10, <3>2, SetOperationTyped DEF RecordResult, TypeOK
    <3>. QED
      BY <2>10, <3>1, <3>3 DEF RecordResult, TypeOK, LocalsOK, provider
  <2>11. ASSUME NEW w \in Workers, FinishAttempt(w) PROVE TypeOK'
    <3>1. LocalsOK'
      BY <2>11, ExitTyped DEF FinishAttempt
    <3>2. result[w] \in AttemptStates /\ job[w] \in Attempts
      BY <2>11 DEF FinishAttempt, TypeOK, Outcomes, AttemptStates
    <3>3. attempt' \in [Attempts -> [state : AttemptStates \cup {"absent"},
                                    command : Commands \cup {None},
                                    dispatchAllowed : BOOLEAN]]
      BY <2>11, <3>2, SetAttemptTyped DEF FinishAttempt, TypeOK
    <3>. QED
      BY <2>11, <3>1, <3>3 DEF FinishAttempt, TypeOK, LocalsOK, provider
  <2>12. ASSUME NEW w \in Workers, Crash(w) PROVE TypeOK'
    <3>1. LocalsOK'
      BY <2>12, ExitTyped DEF Crash
    <3>. QED
      BY <2>12, <3>1 DEF Crash, TypeOK, LocalsOK, db, provider
  <2>13. ASSUME NEW o \in Operators, NEW a \in Attempts, OpenReview(o, a) PROVE TypeOK'
    BY <2>13 DEF TypeOK, OpenReview, db, provider, locals
  <2>14. ASSUME NEW o \in Operators, NEW k \in DecisionKinds, Decide(o, k) PROVE TypeOK'
    <3>1. Resolution[k] \in AttemptStates
      BY DEF Resolution, DecisionKinds, AttemptStates
    <3>2. review[o] \in Attempts
      BY <2>14 DEF Decide, TypeOK
    <3>3. decisions' \in [Attempts -> Seq(DecisionKinds)]
      <4>1. Append(decisions[review[o]], k) \in Seq(DecisionKinds)
        BY <3>2 DEF TypeOK
      <4>. QED
        BY <2>14, <3>2, <4>1 DEF TypeOK, Decide
    <3>4. attempt' \in [Attempts -> [state : AttemptStates \cup {"absent"},
                                    command : Commands \cup {None},
                                    dispatchAllowed : BOOLEAN]]
      BY <2>14, <3>1, <3>2, SetAttemptTyped DEF TypeOK, Decide
    <3>. QED
      BY <2>14, <3>3, <3>4 DEF TypeOK, Decide, provider, locals
  <2>15. ASSUME NEW a \in Attempts, NEW s \in Steps, ProviderHandles(a, s) PROVE TypeOK'
    BY <2>15 DEF TypeOK, ProviderHandles, db, locals
  <2>16. ASSUME NEW a \in Attempts, ChangeGrant(a) PROVE TypeOK'
    BY <2>16 DEF TypeOK, ChangeGrant, db, provider, locals
  <2>17. CASE UNCHANGED vars
    BY <2>17 DEF TypeOK, vars
  <2>. QED
    BY <2>1, <2>2, <2>3, <2>4, <2>5, <2>6, <2>7, <2>8, <2>9, <2>10, <2>11, <2>12,
       <2>13, <2>14, <2>15, <2>16, <2>17 DEF Next, WorkerStep
<1>. QED
  BY <1>1, <1>2, PTL DEF Spec

-----------------------------------------------------------------------------
(* The inductive invariant Protocol, split into what it says of the rows and *)
(* what it says of one worker.                                               *)

Data ==
  /\ OperationsInOrder
  /\ CallsAreMarked
  /\ RecordedAsAnswered
  /\ OpenWhileWorking
  /\ VerdictHasCause
  /\ DecisionIsRecorded

rows == <<attempt, decisions, operation, calls, request>>

WorkerOK(w) == InOrder(w) /\ AtStep(w)

\* What no step takes back: rows only move forward.
Forward ==
  \A a \in Attempts :
    /\ attempt[a].state \notin {"absent", "pending"} =>
         attempt'[a].state \notin {"absent", "pending"}
    /\ \A s \in Steps :
         /\ operation[a][s] # "absent" => operation'[a][s] # "absent"
         /\ operation[a][s] \notin {"absent", "prepared"} =>
              operation'[a][s] \notin {"absent", "prepared"}
         /\ operation[a][s] \notin {"absent", "prepared", "sent"} =>
              operation'[a][s] = operation[a][s]
         /\ request[a][s] \in {"applied", "rejected"} => request'[a][s] = request[a][s]

\* A worker that does not take the step.
Still(w) ==
  /\ pc'[w] = pc[w] /\ job'[w] = job[w] /\ step'[w] = step[w] /\ result'[w] = result[w]
  /\ pc[w] = "call" => calls'[job[w]][step[w]] = calls[job[w]][step[w]]

\* Protocol is its data part, one fact for each worker, and OneSender.
LEMMA ProtocolParts == Protocol <=> Data /\ OneSender /\ \A w \in Workers : WorkerOK(w)
BY DEF Protocol, Data, WorkerOK

\* Facts about the rows survive a step that writes no row.
LEMMA DataKept ==
  ASSUME Data, UNCHANGED rows
  PROVE  Data'
BY DEF Data, rows, OperationsInOrder, CallsAreMarked, RecordedAsAnswered, OpenWhileWorking,
       VerdictHasCause, DecisionIsRecorded, AllSucceeded, SomeStopped

\* A step that writes no row moves every row forward.
LEMMA ForwardKept ==
  ASSUME UNCHANGED rows
  PROVE  Forward
BY DEF Forward, rows

\* What a worker relies on is not undone by the steps of others.
LEMMA OthersKeep ==
  ASSUME TypeOK, Forward, NEW w \in Workers, WorkerOK(w), Still(w)
  PROVE  WorkerOK(w)'
<1>1. CASE pc[w] = "idle"
  BY <1>1 DEF WorkerOK, Still, InOrder, AtStep
<1>2. CASE pc[w] # "idle"
  <2>1. job[w] \in Attempts /\ step[w] \in Steps
    BY <1>2 DEF TypeOK
  <2>2. InOrder(w)'
    BY <1>2, <2>1 DEF WorkerOK, Still, InOrder, Forward
  <2>3. AtStep(w)'
    BY <1>2, <2>1 DEF WorkerOK, Still, AtStep, Forward, AllSucceeded
  <2>. QED
    BY <2>2, <2>3 DEF WorkerOK
<1>. QED
  BY <1>1, <1>2

\* OneSender survives a step that brings no worker to its call.
LEMMA SenderKept ==
  ASSUME OneSender,
         \A w \in Workers : pc'[w] = "call" =>
           pc[w] = "call" /\ job'[w] = job[w] /\ step'[w] = step[w]
  PROVE  OneSender'
BY DEF OneSender

\* A worker's step leaves the locals of every other worker alone.
Mine(w) ==
  \A v \in Workers \ {w} :
    pc'[v] = pc[v] /\ job'[v] = job[v] /\ step'[v] = step[v] /\ result'[v] = result[v]

\* Exit is idle and touches no other worker.
LEMMA ExitFacts ==
  ASSUME TypeOK, NEW w \in Workers, Exit(w)
  PROVE  Mine(w) /\ pc'[w] = "idle" /\ WorkerOK(w)'
BY DEF TypeOK, Exit, Goto, Mine, WorkerOK, InOrder, AtStep

\* An attempt with an operation under way or still to be created at a step all
\* of whose predecessors succeeded has no verdict yet.
LEMMA StillOpen ==
  ASSUME TypeOK, Data, NEW a \in Attempts, NEW s \in Steps,
         attempt[a].state \notin {"absent", "pending"},
         operation[a][s] \in {"absent", "prepared", "sent"},
         \A t \in Steps : t < s => operation[a][t] = "succeeded"
  PROVE  /\ attempt[a].state = "dispatched"
         /\ \A t \in Steps : s < t => operation[a][t] = "absent"
<1>1. \A t \in Steps : s < t => operation[a][t] = "absent"
  BY DEF Data, OperationsInOrder
<1>2. ~AllSucceeded(a)
  BY DEF AllSucceeded
<1>3. \A t \in Steps : operation[a][t] \notin Stopped
  <2>. TAKE t \in Steps
  <2>1. t < s \/ t = s \/ s < t
    BY StepFacts
  <2>. QED
    BY <1>1, <2>1 DEF Stopped
<1>4. attempt[a].state \in {"dispatched"} \cup Verdicts
  BY DEF TypeOK, AttemptStates, Verdicts, Settled
<1>. QED
  BY <1>1, <1>2, <1>3, <1>4 DEF Data, OpenWhileWorking, SomeStopped

-----------------------------------------------------------------------------
(* One lemma for each action that writes a row. *)

\* A step of worker w that goes forward, keeps the data facts and leaves w
\* well placed preserves Protocol if it does not bring w to its call.
LEMMA WorkerStepKeeps ==
  ASSUME TypeOK, Protocol, NEW w \in Workers, Mine(w), Data', WorkerOK(w)', Forward,
         pc'[w] # "call",
         \A v \in Workers \ {w} : pc[v] = "call" =>
           calls'[job[v]][step[v]] = calls[job[v]][step[v]]
  PROVE  Protocol'
<1>1. \A v \in Workers : WorkerOK(v)'
  <2>. TAKE v \in Workers
  <2>1. CASE v = w
    BY <2>1
  <2>2. CASE v # w
    BY <2>2, OthersKeep, ProtocolParts DEF Mine, Still
  <2>. QED
    BY <2>1, <2>2
<1>2. OneSender'
  BY SenderKept, ProtocolParts DEF Mine
<1>. QED
  BY <1>1, <1>2, ProtocolParts DEF Protocol, Data, WorkerOK

\* A step that moves no worker preserves Protocol if rows go forward.
LEMMA RowStepKeeps ==
  ASSUME TypeOK, Protocol, UNCHANGED locals, UNCHANGED calls, Data', Forward
  PROVE  Protocol'
<1>1. \A v \in Workers : WorkerOK(v)'
  BY OthersKeep, ProtocolParts DEF locals, Still
<1>2. OneSender'
  BY SenderKept, ProtocolParts DEF locals
<1>. QED
  BY <1>1, <1>2 DEF Protocol, Data, WorkerOK

\* What a stopped worker, or one that gives up, does to Protocol: nothing.
LEMMA ExitKeeps ==
  ASSUME TypeOK, Protocol, NEW w \in Workers, Exit(w), UNCHANGED rows
  PROVE  Protocol'
<1>1. Mine(w) /\ pc'[w] # "call" /\ WorkerOK(w)'
  BY ExitFacts
<1>2. Data'
  BY DataKept, ProtocolParts
<1>. QED
  BY <1>1, <1>2, ForwardKept, WorkerStepKeeps DEF rows

\* Saving a plan only turns attempts no worker has seen from absent to pending.
LEMMA SavePlanKeeps ==
  ASSUME TypeOK, Protocol, NEW c \in Commands, SavePlan(c)
  PROVE  Protocol'
<1>1. \A a \in Attempts :
        \/ attempt'[a] = attempt[a]
        \/ attempt[a].state = "absent" /\ attempt'[a].state = "pending"
  BY DEF TypeOK, SavePlan, InsertPlan, NoKeyConflict, Attempt
<1>2. UNCHANGED <<decisions, operation, calls, request>> /\ UNCHANGED locals
  BY DEF SavePlan, provider
<1>3. Forward
  BY <1>1, <1>2 DEF Forward
<1>4. Data'
  BY <1>1, <1>2, ProtocolParts
     DEF Data, OperationsInOrder, CallsAreMarked, RecordedAsAnswered, OpenWhileWorking,
         VerdictHasCause, DecisionIsRecorded, Verdicts, Settled, AllSucceeded, SomeStopped
<1>. QED
  BY <1>2, <1>3, <1>4, RowStepKeeps

\* A dispatch opens a pending attempt, which no operation or worker knows yet.
LEMMA DispatchKeeps ==
  ASSUME TypeOK, Protocol, NEW c \in Commands, NEW a \in Attempts, NEW b \in Commands,
         DispatchAttempt(c, a, b)
  PROVE  Protocol'
<1>1. /\ attempt[a].state = "pending" /\ attempt'[a].state = "dispatched"
      /\ \A x \in Attempts \ {a} : attempt'[x] = attempt[x]
  BY DEF TypeOK, DispatchAttempt, MayDispatch, Attempt
<1>2. UNCHANGED <<decisions, operation, calls, request>> /\ UNCHANGED locals
  BY DEF DispatchAttempt, provider
<1>3. Forward
  BY <1>1, <1>2 DEF Forward
<1>4. Data'
  BY <1>1, <1>2, ProtocolParts
     DEF Data, OperationsInOrder, CallsAreMarked, RecordedAsAnswered, OpenWhileWorking,
         VerdictHasCause, DecisionIsRecorded, Verdicts, Settled, AllSucceeded, SomeStopped
<1>. QED
  BY <1>2, <1>3, <1>4, RowStepKeeps

\* A recorded decision settles an attempt that has a stopped operation and no earlier decision.
LEMMA DecideKeeps ==
  ASSUME TypeOK, Protocol, NEW o \in Operators, NEW k \in DecisionKinds, Decide(o, k)
  PROVE  Protocol'
<1>. DEFINE a == review[o]
<1>0. UNCHANGED <<operation, calls, request>> /\ UNCHANGED locals
  BY DEF Decide, provider
<1>1. CASE ~AwaitsDecision(a)
  <2>1. UNCHANGED rows
    BY <1>0, <1>1 DEF Decide, rows
  <2>. QED
    BY <1>0, <2>1, DataKept, ForwardKept, RowStepKeeps, ProtocolParts
<1>2. CASE AwaitsDecision(a)
  <2>1. a \in Attempts /\ attempt[a].state = "outcome_unknown"
    BY <1>2 DEF AwaitsDecision, Decide, TypeOK
  <2>2. /\ attempt'[a].state = Resolution[k]
        /\ \A x \in Attempts \ {a} : attempt'[x] = attempt[x] /\ decisions'[x] = decisions[x]
    BY <1>2, <2>1 DEF TypeOK, Decide, Attempt
  <2>3. Resolution[k] \in Settled
    BY DEF Resolution, DecisionKinds, Settled
  <2>4. decisions[a] = <<>>
    BY <2>1, ProtocolParts DEF Data, VerdictHasCause
  <2>5. Len(decisions'[a]) = 1 /\ decisions'[a] # <<>> /\ decisions'[a][1] = k
    <3>1. decisions'[a] = Append(decisions[a], k)
      BY <1>2, <2>1 DEF Decide, TypeOK
    <3>. QED
      BY <2>4, <3>1
  <2>6. Forward
    BY <1>0, <2>1, <2>2, <2>3 DEF Forward, Settled
  <2>7. OpenWhileWorking' /\ VerdictHasCause'
    BY <1>0, <2>1, <2>2, <2>3, <2>5, ProtocolParts
       DEF Data, OpenWhileWorking, VerdictHasCause, Verdicts, Settled, AllSucceeded, SomeStopped
  <2>8. DecisionIsRecorded'
    <3>. SUFFICES ASSUME NEW x \in Attempts
                  PROVE  /\ Len(decisions'[x]) <= 1
                         /\ decisions'[x] # <<>> =>
                              attempt'[x].state = Resolution[decisions'[x][1]]
                         /\ attempt'[x].state = "reauth_required" => decisions'[x] # <<>>
      BY DEF DecisionIsRecorded
    <3>1. CASE x = a
      BY <3>1, <2>2, <2>5
    <3>2. CASE x # a
      BY <3>2, <2>2, ProtocolParts DEF Data, DecisionIsRecorded
    <3>. QED
      BY <3>1, <3>2
  <2>9. Data'
    BY <1>0, <2>7, <2>8, ProtocolParts
       DEF Data, OperationsInOrder, CallsAreMarked, RecordedAsAnswered
  <2>. QED
    BY <1>0, <2>6, <2>9, RowStepKeeps
<1>. QED
  BY <1>1, <1>2

\* The answer of the provider is to a call that was marked and made.
LEMMA ProviderKeeps ==
  ASSUME TypeOK, Protocol, NEW a \in Attempts, NEW s \in Steps, ProviderHandles(a, s)
  PROVE  Protocol'
<1>0. UNCHANGED <<attempt, decisions, operation, calls>> /\ UNCHANGED locals
  BY DEF ProviderHandles, db
<1>1. /\ request[a][s] = "inflight" /\ request'[a][s] \in {"applied", "rejected"}
      /\ \A x \in Attempts, y \in Steps : x # a \/ y # s => request'[x][y] = request[x][y]
  BY DEF ProviderHandles, TypeOK
<1>2. Forward
  BY <1>0, <1>1 DEF Forward
<1>3. Data'
  BY <1>0, <1>1, ProtocolParts
     DEF Data, OperationsInOrder, CallsAreMarked, RecordedAsAnswered, OpenWhileWorking,
         VerdictHasCause, DecisionIsRecorded, AllSucceeded, SomeStopped
<1>. QED
  BY <1>0, <1>2, <1>3, RowStepKeeps

\* Updating one operation of worker w's attempt, at w's step.
LEMMA OperationUpdate ==
  ASSUME TypeOK, NEW a \in Attempts, NEW s \in Steps, NEW o, SetOperation(a, s, o)
  PROVE  /\ operation'[a][s] = o
         /\ \A x \in Attempts, y \in Steps : x # a \/ y # s => operation'[x][y] = operation[x][y]
BY DEF TypeOK, SetOperation

\* A new operation is prepared after every earlier step succeeded.
LEMMA CreateKeeps ==
  ASSUME TypeOK, Protocol, NEW w \in Workers, CreateOperation(w)
  PROVE  Protocol'
<1>. DEFINE a == job[w]
<1>. DEFINE s == step[w]
<1>0. a \in Attempts /\ s \in Steps
  BY DEF CreateOperation, TypeOK
<1>1. CASE operation[a][s] # "absent"
  <2>1. Exit(w) /\ UNCHANGED rows
    BY <1>1 DEF CreateOperation, provider, rows
  <2>. QED
    BY <2>1, ExitKeeps
<1>2. CASE operation[a][s] = "absent"
  <2>0. /\ SetOperation(a, s, "prepared")
        /\ Goto(w, "revalidate")
        /\ UNCHANGED <<job, step, result>>
        /\ UNCHANGED <<attempt, decisions, calls, request>>
    BY <1>2 DEF CreateOperation, provider
  <2>1. Mine(w) /\ pc'[w] = "revalidate"
    BY <2>0 DEF Goto, Mine, TypeOK
  <2>2. /\ operation'[a][s] = "prepared"
        /\ \A x \in Attempts, y \in Steps : x # a \/ y # s => operation'[x][y] = operation[x][y]
    BY <1>0, <2>0, OperationUpdate
  <2>3. /\ attempt[a].state \notin {"absent", "pending"}
        /\ \A t \in Steps : t < s => operation[a][t] = "succeeded"
    BY ProtocolParts DEF CreateOperation, WorkerOK, InOrder
  <2>4. /\ attempt[a].state = "dispatched"
        /\ \A t \in Steps : s < t => operation[a][t] = "absent"
    BY <1>0, <1>2, <2>3, StillOpen, ProtocolParts
  <2>5. Forward
    BY <1>2, <2>0, <2>2 DEF Forward
  <2>6. Data'
    <3>1. OperationsInOrder'
      BY <1>0, <2>2, <2>3, <2>4, ProtocolParts, StepFacts DEF Data, OperationsInOrder
    <3>2. CallsAreMarked' /\ RecordedAsAnswered'
      BY <1>0, <1>2, <2>0, <2>2, ProtocolParts DEF Data, CallsAreMarked, RecordedAsAnswered
    <3>3. OpenWhileWorking' /\ VerdictHasCause' /\ DecisionIsRecorded'
      BY <1>0, <2>0, <2>2, <2>4, ProtocolParts
         DEF Data, OpenWhileWorking, VerdictHasCause, DecisionIsRecorded, Verdicts, Settled,
             AllSucceeded, SomeStopped
    <3>. QED
      BY <3>1, <3>2, <3>3 DEF Data
  <2>7. WorkerOK(w)'
    BY <1>0, <2>0, <2>1, <2>2, <2>3, StepFacts DEF WorkerOK, InOrder, AtStep
  <2>. QED
    BY <2>0, <2>1, <2>5, <2>6, <2>7, WorkerStepKeeps
<1>. QED
  BY <1>1, <1>2

\* The compare-and-set from prepared to sent lets one worker through to its call.
LEMMA MarkSentKeeps ==
  ASSUME TypeOK, Protocol, NEW w \in Workers, MarkSent(w)
  PROVE  Protocol'
<1>. DEFINE a == job[w]
<1>. DEFINE s == step[w]
<1>0. a \in Attempts /\ s \in Steps
  BY DEF MarkSent, TypeOK
<1>1. CASE ~CanUpdateOperation(a, s, "prepared", "sent")
  <2>1. Exit(w) /\ UNCHANGED rows
    BY <1>1 DEF MarkSent, provider, rows
  <2>. QED
    BY <2>1, ExitKeeps
<1>2. CASE CanUpdateOperation(a, s, "prepared", "sent")
  <2>0. /\ operation[a][s] = "prepared"
        /\ SetOperation(a, s, "sent")
        /\ Goto(w, "call")
        /\ UNCHANGED <<job, step, result>>
        /\ UNCHANGED <<attempt, decisions, calls, request>>
    BY <1>2 DEF MarkSent, provider, CanUpdateOperation
  <2>1. Mine(w) /\ pc'[w] = "call" /\ job'[w] = a /\ step'[w] = s
    BY <2>0 DEF Goto, Mine, TypeOK
  <2>2. /\ operation'[a][s] = "sent"
        /\ \A x \in Attempts, y \in Steps : x # a \/ y # s => operation'[x][y] = operation[x][y]
    BY <1>0, <2>0, OperationUpdate
  <2>3. /\ attempt[a].state = "dispatched"
        /\ \A t \in Steps : t < s => operation[a][t] = "succeeded"
        /\ calls[a][s] = 0
    BY <1>0, <2>0, ProtocolParts
       DEF MarkSent, WorkerOK, InOrder, Data, OpenWhileWorking, CallsAreMarked
  <2>5. Forward
    BY <2>0, <2>2 DEF Forward
  <2>6. Data'
    <3>1. OperationsInOrder'
      BY <1>0, <2>0, <2>2, <2>3, ProtocolParts DEF Data, OperationsInOrder
    <3>2. CallsAreMarked' /\ RecordedAsAnswered'
      BY <1>0, <2>0, <2>2, ProtocolParts DEF Data, CallsAreMarked, RecordedAsAnswered
    <3>3. OpenWhileWorking' /\ VerdictHasCause' /\ DecisionIsRecorded'
      BY <1>0, <2>0, <2>2, <2>3, ProtocolParts
         DEF Data, OpenWhileWorking, VerdictHasCause, DecisionIsRecorded, Verdicts, Settled,
             AllSucceeded, SomeStopped
    <3>. QED
      BY <3>1, <3>2, <3>3 DEF Data
  <2>7. \A v \in Workers : WorkerOK(v)'
    <3>. TAKE v \in Workers
    <3>1. CASE v = w
      BY <3>1, <1>0, <2>0, <2>1, <2>2, <2>3, StepFacts DEF WorkerOK, InOrder, AtStep
    <3>2. CASE v # w
      BY <3>2, <2>0, <2>1, <2>5, OthersKeep, ProtocolParts DEF Mine, Still
    <3>. QED
      BY <3>1, <3>2
  <2>8. OneSender'
    <3>1. \A v \in Workers : pc[v] = "call" => ~(job[v] = a /\ step[v] = s)
      BY <2>0, ProtocolParts DEF WorkerOK, AtStep
    <3>. QED
      BY <2>1, <3>1, ProtocolParts DEF OneSender, Mine
  <2>. QED
    BY <2>6, <2>7, <2>8 DEF Protocol, Data, WorkerOK
<1>. QED
  BY <1>1, <1>2

\* The worker that marked the step is the only one to call, and had not called before.
LEMMA CallKeeps ==
  ASSUME TypeOK, Protocol, NEW w \in Workers, CallProvider(w)
  PROVE  Protocol'
<1>. DEFINE a == job[w]
<1>. DEFINE s == step[w]
<1>0. a \in Attempts /\ s \in Steps
  BY DEF CallProvider, TypeOK
<1>1. /\ Goto(w, "await")
      /\ UNCHANGED <<job, step, result>>
      /\ UNCHANGED <<attempt, decisions, operation>>
  BY DEF CallProvider, db
<1>2. Mine(w) /\ pc'[w] = "await"
  BY <1>1 DEF Goto, Mine, TypeOK
<1>3. /\ calls[a][s] = 0
      /\ request[a][s] = "none"
      /\ operation[a][s] \notin {"absent", "prepared"}
  BY <1>0, ProtocolParts DEF CallProvider, WorkerOK, AtStep, Data, CallsAreMarked
<1>4. /\ calls'[a][s] = 1 /\ request'[a][s] = "inflight"
      /\ \A x \in Attempts, y \in Steps : x # a \/ y # s =>
           calls'[x][y] = calls[x][y] /\ request'[x][y] = request[x][y]
  BY <1>0, <1>3 DEF CallProvider, TypeOK
<1>5. Forward
  BY <1>1, <1>3, <1>4 DEF Forward
<1>6. Data'
  BY <1>0, <1>1, <1>3, <1>4, ProtocolParts
     DEF Data, OperationsInOrder, CallsAreMarked, RecordedAsAnswered, OpenWhileWorking,
         VerdictHasCause, DecisionIsRecorded, AllSucceeded, SomeStopped
<1>7. WorkerOK(w)'
  BY <1>0, <1>1, <1>2, <1>3, ProtocolParts DEF WorkerOK, InOrder, AtStep, CallProvider
<1>8. \A v \in Workers \ {w} : pc[v] = "call" =>
        calls'[job[v]][step[v]] = calls[job[v]][step[v]]
  <2>. SUFFICES ASSUME NEW v \in Workers, v # w, pc[v] = "call"
                PROVE  calls'[job[v]][step[v]] = calls[job[v]][step[v]]
    OBVIOUS
  <2>1. job[v] \in Attempts /\ step[v] \in Steps
    BY DEF TypeOK
  <2>2. job[v] # a \/ step[v] # s
    BY ProtocolParts DEF OneSender, CallProvider
  <2>. QED
    BY <2>1, <2>2, <1>4
<1>. QED
  BY <1>2, <1>5, <1>6, <1>7, <1>8, WorkerStepKeeps

\* A worker that concludes with a result its operation accounts for is well placed.
LEMMA ConcludePlaced ==
  ASSUME TypeOK, NEW w \in Workers, NEW r \in Outcomes, pc[w] # "idle", Conclude(w, r),
         attempt'[job[w]].state \notin {"absent", "pending"},
         \A t \in Steps : t < step[w] => operation'[job[w]][t] = "succeeded",
         r = "succeeded" => \A t \in Steps : operation'[job[w]][t] = "succeeded",
         r = "failed" => operation'[job[w]][step[w]] = "failed",
         r = "outcome_unknown" =>
           operation'[job[w]][step[w]] \in {"outcome_unknown", "reauth_required"}
  PROVE  Mine(w) /\ pc'[w] # "call" /\ WorkerOK(w)'
<1>1. Mine(w) /\ pc'[w] = "finish" /\ result'[w] = r /\ job'[w] = job[w] /\ step'[w] = step[w]
  BY DEF TypeOK, Conclude, Goto, Mine
<1>2. InOrder(w)'
  BY <1>1 DEF InOrder
<1>3. AtStep(w)'
  BY <1>1 DEF AtStep, AllSucceeded
<1>. QED
  BY <1>1, <1>2, <1>3 DEF WorkerOK

\* A worker whose step succeeded goes on to the next, or has done them all.
LEMMA NextStepPlaced ==
  ASSUME TypeOK, NEW w \in Workers, pc[w] # "idle", NextStep(w),
         attempt'[job[w]].state \notin {"absent", "pending"},
         \A t \in Steps : t < step[w] => operation'[job[w]][t] = "succeeded",
         operation'[job[w]][step[w]] = "succeeded"
  PROVE  Mine(w) /\ pc'[w] # "call" /\ WorkerOK(w)'
<1>0. step[w] \in Steps /\ step[w] \in Nat /\ NumSteps \in Nat
  BY StepFacts, WriteAssumption DEF TypeOK
<1>1. \A t \in Steps : t < step[w] + 1 => operation'[job[w]][t] = "succeeded"
  <2>. SUFFICES ASSUME NEW t \in Steps, t < step[w] + 1
                PROVE  operation'[job[w]][t] = "succeeded"
    OBVIOUS
  <2>1. t < step[w] \/ t = step[w]
    BY <1>0, StepFacts
  <2>. QED
    BY <2>1
<1>2. CASE step[w] = NumSteps
  <2>1. \A t \in Steps : operation'[job[w]][t] = "succeeded"
    BY <1>1, <1>2, <1>0 DEF Steps
  <2>. QED
    BY <1>2, <2>1, ConcludePlaced DEF NextStep, Outcomes
<1>3. CASE step[w] # NumSteps
  <2>1. Mine(w) /\ pc'[w] = "read" /\ job'[w] = job[w] /\ step'[w] = step[w] + 1
    BY <1>3 DEF TypeOK, NextStep, Goto, Mine
  <2>2. InOrder(w)'
    BY <1>1, <2>1 DEF InOrder
  <2>3. AtStep(w)'
    BY <2>1 DEF AtStep
  <2>. QED
    BY <2>1, <2>2, <2>3 DEF WorkerOK
<1>. QED
  BY <1>2, <1>3

\* What a worker reads of its step is true of the rows when it acts on it.
LEMMA ReadKeeps ==
  ASSUME TypeOK, Protocol, NEW w \in Workers, ReadOperation(w)
  PROVE  Protocol'
<1>. DEFINE a == job[w]
<1>. DEFINE s == step[w]
<1>0. UNCHANGED rows
  BY DEF ReadOperation, db, provider, rows
<1>1. /\ a \in Attempts /\ s \in Steps /\ pc[w] = "read"
      /\ attempt'[a].state \notin {"absent", "pending"}
      /\ \A t \in Steps : t < s => operation'[a][t] = "succeeded"
  BY <1>0, ProtocolParts DEF ReadOperation, TypeOK, WorkerOK, InOrder, rows
<1>2. Mine(w) /\ pc'[w] # "call" /\ WorkerOK(w)'
  <2>1. CASE operation[a][s] \in {"absent", "prepared"}
    <3>1. /\ Mine(w) /\ pc'[w] \in {"create", "revalidate"}
          /\ pc'[w] = "revalidate" => operation[a][s] # "absent"
          /\ job'[w] = a /\ step'[w] = s
      BY <1>1, <2>1 DEF TypeOK, ReadOperation, Goto, Mine
    <3>. QED
      BY <1>0, <1>1, <3>1 DEF WorkerOK, InOrder, AtStep, rows
  <2>2. CASE operation[a][s] = "succeeded"
    <3>1. NextStep(w) /\ operation'[a][s] = "succeeded"
      BY <1>0, <2>2 DEF ReadOperation, rows
    <3>. QED
      BY <1>1, <3>1, NextStepPlaced
  <2>3. CASE operation[a][s] = "failed"
    <3>1. Conclude(w, "failed") /\ operation'[a][s] = "failed"
      BY <1>0, <2>3 DEF ReadOperation, rows
    <3>. QED
      BY <1>1, <3>1, ConcludePlaced DEF Outcomes
  <2>4. CASE operation[a][s] \in {"outcome_unknown", "reauth_required"}
    <3>1. /\ Conclude(w, "outcome_unknown")
          /\ operation'[a][s] \in {"outcome_unknown", "reauth_required"}
      BY <1>0, <2>4 DEF ReadOperation, rows
    <3>. QED
      BY <1>1, <3>1, ConcludePlaced DEF Outcomes
  <2>5. CASE operation[a][s] = "sent"
    <3>1. /\ Mine(w) /\ pc'[w] = "record" /\ result'[w] = "outcome_unknown"
          /\ job'[w] = a /\ step'[w] = s
      BY <2>5 DEF TypeOK, ReadOperation, AbandonSent, Goto, Mine
    <3>. QED
      BY <1>0, <1>1, <2>5, <3>1 DEF WorkerOK, InOrder, AtStep, rows
  <2>6. operation[a][s] \in OperationStates \cup {"absent"}
    BY <1>1 DEF TypeOK
  <2>. QED
    BY <2>1, <2>2, <2>3, <2>4, <2>5, <2>6 DEF OperationStates
<1>3. Data' /\ Forward
  BY <1>0, DataKept, ForwardKept, ProtocolParts
<1>. QED
  BY <1>0, <1>2, <1>3, WorkerStepKeeps DEF rows

\* A recorded result is the answer the worker got, or outcome_unknown.
LEMMA RecordKeeps ==
  ASSUME TypeOK, Protocol, NEW w \in Workers, RecordResult(w)
  PROVE  Protocol'
<1>. DEFINE a == job[w]
<1>. DEFINE s == step[w]
<1>0. a \in Attempts /\ s \in Steps /\ result[w] \in Outcomes /\ pc[w] = "record"
  BY DEF RecordResult, TypeOK
<1>1. CASE ~CanUpdateOperation(a, s, "sent", result[w])
  <2>1. Exit(w) /\ UNCHANGED rows
    BY <1>1 DEF RecordResult, provider, rows
  <2>. QED
    BY <2>1, ExitKeeps
<1>2. CASE CanUpdateOperation(a, s, "sent", result[w])
  <2>0. /\ operation[a][s] = "sent"
        /\ SetOperation(a, s, result[w])
        /\ AfterResult(w)
        /\ UNCHANGED <<attempt, decisions, calls, request>>
    BY <1>2 DEF RecordResult, provider, CanUpdateOperation
  <2>1. /\ operation'[a][s] = result[w]
        /\ \A x \in Attempts, y \in Steps : x # a \/ y # s => operation'[x][y] = operation[x][y]
    BY <1>0, <2>0, OperationUpdate
  <2>2. /\ attempt[a].state \notin {"absent", "pending"}
        /\ \A t \in Steps : t < s => operation[a][t] = "succeeded"
    BY <1>0, ProtocolParts DEF WorkerOK, InOrder
  <2>3. /\ attempt[a].state = "dispatched"
        /\ \A t \in Steps : s < t => operation[a][t] = "absent"
    BY <1>0, <2>0, <2>2, StillOpen, ProtocolParts
  <2>4. Forward
    BY <1>0, <2>0, <2>1 DEF Forward, Outcomes
  <2>5. Data'
    <3>1. OperationsInOrder'
      BY <1>0, <2>1, <2>2, <2>3, ProtocolParts, StepFacts DEF Data, OperationsInOrder
    <3>2. CallsAreMarked' /\ RecordedAsAnswered'
      BY <1>0, <2>0, <2>1, ProtocolParts
         DEF Data, CallsAreMarked, RecordedAsAnswered, WorkerOK, AtStep, Outcomes
    <3>3. OpenWhileWorking' /\ VerdictHasCause' /\ DecisionIsRecorded'
      BY <1>0, <2>0, <2>1, <2>3, ProtocolParts
         DEF Data, OpenWhileWorking, VerdictHasCause, DecisionIsRecorded, Verdicts, Settled,
             Outcomes, AllSucceeded, SomeStopped
    <3>. QED
      BY <3>1, <3>2, <3>3 DEF Data
  <2>6. /\ attempt'[a].state \notin {"absent", "pending"}
        /\ \A t \in Steps : t < s => operation'[a][t] = "succeeded"
    BY <1>0, <2>0, <2>1, <2>2, StepFacts
  <2>7. Mine(w) /\ pc'[w] # "call" /\ WorkerOK(w)'
    <3>1. CASE result[w] = "succeeded"
      BY <1>0, <2>0, <2>1, <2>6, <3>1, NextStepPlaced DEF AfterResult
    <3>2. CASE result[w] # "succeeded"
      BY <1>0, <2>0, <2>1, <2>6, <3>2, ConcludePlaced DEF AfterResult, Outcomes
    <3>. QED
      BY <3>1, <3>2
  <2>. QED
    BY <2>0, <2>4, <2>5, <2>7, WorkerStepKeeps
<1>. QED
  BY <1>1, <1>2

\* An attempt is closed with a result its operations bear out.
LEMMA FinishKeeps ==
  ASSUME TypeOK, Protocol, NEW w \in Workers, FinishAttempt(w)
  PROVE  Protocol'
<1>. DEFINE a == job[w]
<1>. DEFINE s == step[w]
<1>0. /\ a \in Attempts /\ s \in Steps /\ result[w] \in Outcomes /\ pc[w] = "finish"
      /\ Exit(w) /\ UNCHANGED <<decisions, operation, calls, request>>
  BY DEF FinishAttempt, TypeOK, provider
<1>1. CASE ~CanUpdateAttempt(a)
  <2>1. UNCHANGED rows
    BY <1>0, <1>1 DEF FinishAttempt, rows
  <2>. QED
    BY <1>0, <2>1, ExitKeeps
<1>2. CASE CanUpdateAttempt(a)
  <2>1. /\ attempt[a].state = "dispatched" /\ attempt'[a].state = result[w]
        /\ \A x \in Attempts \ {a} : attempt'[x] = attempt[x]
    BY <1>0, <1>2 DEF FinishAttempt, CanUpdateAttempt, TypeOK, Attempt
  <2>2. /\ result[w] = "succeeded" => AllSucceeded(a)
        /\ result[w] = "failed" => operation[a][s] = "failed"
        /\ result[w] = "outcome_unknown" =>
             operation[a][s] \in {"outcome_unknown", "reauth_required"}
        /\ \A t \in Steps : t < s => operation[a][t] = "succeeded"
    BY <1>0, ProtocolParts DEF WorkerOK, AtStep, InOrder
  <2>3. AllSucceeded(a) \/ operation[a][s] \in Stopped
    BY <1>0, <2>2 DEF Outcomes, Stopped
  <2>4. \A t \in Steps : operation[a][t] \notin {"prepared", "sent"}
    <3>1. CASE AllSucceeded(a)
      BY <3>1 DEF AllSucceeded
    <3>2. CASE operation[a][s] \in Stopped
      <4>. TAKE t \in Steps
      <4>1. t < s \/ t = s \/ s < t
        BY <1>0, StepFacts
      <4>2. s < t => operation[a][t] = "absent"
        BY <1>0, <3>2, ProtocolParts DEF Data, OperationsInOrder, Stopped
      <4>. QED
        BY <2>2, <3>2, <4>1, <4>2 DEF Stopped
    <3>. QED
      BY <2>3, <3>1, <3>2
  <2>5. Forward
    BY <1>0, <2>1 DEF Forward, Outcomes
  <2>6. OpenWhileWorking' /\ VerdictHasCause' /\ DecisionIsRecorded'
    BY <1>0, <2>1, <2>2, <2>3, <2>4, ProtocolParts
       DEF Data, OpenWhileWorking, VerdictHasCause, DecisionIsRecorded, Verdicts, Settled,
           Outcomes, AllSucceeded, SomeStopped, Stopped
  <2>7. Data'
    BY <1>0, <2>6, ProtocolParts
       DEF Data, OperationsInOrder, CallsAreMarked, RecordedAsAnswered
  <2>8. Mine(w) /\ pc'[w] # "call" /\ WorkerOK(w)'
    BY <1>0, ExitFacts
  <2>. QED
    BY <1>0, <2>5, <2>7, <2>8, WorkerStepKeeps
<1>. QED
  BY <1>1, <1>2

\* The steps that write no row and bring no worker to its call: a delivery, a
\* revalidation, a response and a crash.
LEMMA LocalStepsKeep ==
  ASSUME TypeOK, Protocol, NEW w \in Workers,
         \/ \E a \in Attempts : StartExecution(w, a)
         \/ Revalidate(w) \/ AwaitResponse(w) \/ Crash(w)
  PROVE  Protocol'
<1>0. UNCHANGED rows
  BY DEF StartExecution, Revalidate, AwaitResponse, Crash, db, provider, rows
<1>1. Data' /\ Forward
  BY <1>0, DataKept, ForwardKept, ProtocolParts
<1>2. ASSUME NEW a \in Attempts, StartExecution(w, a)
      PROVE  Mine(w) /\ pc'[w] # "call" /\ WorkerOK(w)'
  <2>1. Mine(w) /\ pc'[w] = "read" /\ job'[w] = a /\ step'[w] = 1
    BY <1>2 DEF StartExecution, Goto, TypeOK, Mine
  <2>3. InOrder(w)'
    BY <1>0, <1>2, <2>1, StepFacts
       DEF InOrder, StartExecution, MayExecute, rows, Steps
  <2>. QED
    BY <2>1, <2>3 DEF WorkerOK, AtStep
<1>3. ASSUME Revalidate(w) PROVE Protocol'
  <2>1. CASE Exit(w)
    BY <1>0, <2>1, ExitKeeps
  <2>2. CASE Goto(w, "send") /\ UNCHANGED <<job, step, result>>
    <3>1. Mine(w) /\ pc'[w] = "send" /\ job'[w] = job[w] /\ step'[w] = step[w]
      BY <2>2 DEF Goto, TypeOK, Mine
    <3>2. WorkerOK(w)'
      BY <1>0, <1>3, <3>1, ProtocolParts DEF Revalidate, WorkerOK, InOrder, AtStep, rows
    <3>. QED
      BY <1>0, <1>1, <3>1, <3>2, WorkerStepKeeps DEF rows
  <2>. QED
    BY <1>3, <2>1, <2>2 DEF Revalidate
<1>4. ASSUME AwaitResponse(w) PROVE Mine(w) /\ pc'[w] # "call" /\ WorkerOK(w)'
  <2>1. PICK r \in Responses(job[w], step[w]) : result' = [result EXCEPT ![w] = r]
    BY <1>4 DEF AwaitResponse
  <2>2. /\ Mine(w) /\ pc'[w] = "record" /\ result'[w] = r
        /\ job'[w] = job[w] /\ step'[w] = step[w]
    BY <1>4, <2>1 DEF AwaitResponse, Goto, TypeOK, Mine
  <2>3. /\ r = "succeeded" => request[job[w]][step[w]] = "applied"
        /\ r = "failed" => request[job[w]][step[w]] = "rejected"
    BY DEF Responses
  <2>. QED
    BY <1>0, <1>4, <2>2, <2>3, ProtocolParts DEF AwaitResponse, WorkerOK, InOrder, AtStep, rows
<1>5. ASSUME Crash(w) PROVE Protocol'
  BY <1>0, <1>5, ExitKeeps DEF Crash
<1>. QED
  BY <1>0, <1>1, <1>2, <1>3, <1>4, <1>5, WorkerStepKeeps DEF rows

\* Protocol is inductive given the types: in every reachable state the rows of
\* every attempt and the position of every worker fit together.
THEOREM ProtocolHolds == Spec => []Protocol
<1>1. Init => Protocol
  BY StepFacts
     DEF Init, Protocol, OperationsInOrder, CallsAreMarked, RecordedAsAnswered, InOrder,
         AtStep, OneSender, OpenWhileWorking, VerdictHasCause, DecisionIsRecorded, Absent,
         Attempt, Verdicts, Settled
<1>2. TypeOK /\ Protocol /\ [Next]_vars => Protocol'
  <2>. SUFFICES ASSUME TypeOK, Protocol, [Next]_vars PROVE Protocol'
    OBVIOUS
  <2>1. CASE \E o \in Operators, a \in Attempts : OpenReview(o, a)
    <3>1. UNCHANGED rows /\ UNCHANGED locals
      BY <2>1 DEF OpenReview, db, provider, rows
    <3>. QED
      BY <3>1, DataKept, ForwardKept, RowStepKeeps, ProtocolParts DEF rows
  <2>2. CASE \E a \in Attempts : ChangeGrant(a)
    <3>1. UNCHANGED rows /\ UNCHANGED locals
      BY <2>2 DEF ChangeGrant, db, provider, rows
    <3>. QED
      BY <3>1, DataKept, ForwardKept, RowStepKeeps, ProtocolParts DEF rows
  <2>3. CASE UNCHANGED vars
    <3>1. UNCHANGED rows /\ UNCHANGED locals
      BY <2>3 DEF vars, rows, locals
    <3>. QED
      BY <3>1, DataKept, ForwardKept, RowStepKeeps, ProtocolParts DEF rows
  <2>. QED
    BY <2>1, <2>2, <2>3, SavePlanKeeps, DispatchKeeps, ReadKeeps, CreateKeeps, MarkSentKeeps,
       CallKeeps, RecordKeeps, FinishKeeps, LocalStepsKeep, DecideKeeps, ProviderKeeps
       DEF Next, WorkerStep
<1>. QED
  BY <1>1, <1>2, TypeCorrect, PTL DEF Spec

\* Types, rows and workers fit together in every reachable state.
THEOREM InvariantHolds == Spec => []Invariant
BY TypeCorrect, ProtocolHolds, PTL DEF Invariant

\* An attempt is decided at most once, and its state is the one decided.
THEOREM DecidedOnce == Spec => []DecisionIsRecorded
<1>1. Protocol => DecisionIsRecorded
  BY DEF Protocol
<1>. QED
  BY <1>1, ProtocolHolds, PTL

-----------------------------------------------------------------------------
(* Plans. *)

\* An attempt under way: it was dispatched.
Started(a) == attempt[a].state \notin {"absent", "pending"}

\* What saving and dispatching maintain: plans are whole, an attempt that is absent has
\* no command, and one that was dispatched has a command whose gate was verified.
Plans ==
  /\ PlanIsWhole
  /\ \A a \in Attempts : attempt[a].state = "absent" => attempt[a].command = None
  /\ \A a \in Attempts : Started(a) => command[attempt[a].command] = "ready"

\* Whole plans stay whole: a plan takes only attempts that no other plan has.
LEMMA SavePlanKeepsPlans ==
  ASSUME TypeOK, Plans, NEW c \in Commands, SavePlan(c)
  PROVE  Plans'
<1>1. PICK kind \in {"ready", "write_disabled"} : InsertPlan(c, kind)
  BY DEF SavePlan
<1>2. /\ command[c] = "unsaved"
      /\ \A a \in PlanOf[c] : attempt[a].state = "absent"
      /\ \A d \in Commands : command'[d] = IF d = c THEN kind ELSE command[d]
      /\ \A a \in Attempts : attempt'[a] = IF a \in PlanOf[c]
                                           THEN Attempt("pending", c, kind = "ready")
                                           ELSE attempt[a]
  BY <1>1 DEF InsertPlan, NoKeyConflict, TypeOK
<1>3. \A a \in Attempts : a \in PlanOf[c] => attempt'[a].command = c /\ attempt'[a].state = "pending"
  BY <1>2 DEF Attempt
<1>4. \A a \in PlanOf[c] : attempt[a].command = None
  BY <1>2, WriteAssumption DEF Plans
<1>5. PlanIsWhole'
  <2>. SUFFICES ASSUME NEW d \in Commands, NEW a \in Attempts
                PROVE  (command'[d] # "unsaved" /\ a \in PlanOf[d]) <=> attempt'[a].command = d
    BY DEF PlanIsWhole
  <2>1. (command[d] # "unsaved" /\ a \in PlanOf[d]) <=> attempt[a].command = d
    BY DEF Plans, PlanIsWhole
  <2>2. CASE d = c
    BY <1>2, <1>3, <2>1, <2>2
  <2>3. CASE d # c
    BY <1>2, <1>3, <1>4, <2>1, <2>3, WriteAssumption
  <2>. QED
    BY <2>2, <2>3
<1>6. ASSUME NEW a \in Attempts
      PROVE  /\ attempt'[a].state = "absent" => attempt'[a].command = None
             /\ attempt'[a].state \notin {"absent", "pending"}
                  => command'[attempt'[a].command] = "ready"
  <2>1. CASE a \in PlanOf[c]
    BY <1>3, <2>1
  <2>2. CASE a \notin PlanOf[c]
    <3>1. attempt'[a] = attempt[a]
      BY <1>2, <2>2
    <3>2. ASSUME Started(a) PROVE command'[attempt[a].command] = "ready"
      <4>1. command[attempt[a].command] = "ready"
        BY <3>2 DEF Plans
      <4>2. attempt[a].command \in Commands \cup {None} /\ command' = [command EXCEPT ![c] = kind]
        BY <1>1 DEF TypeOK, InsertPlan
      <4>. QED
        BY <1>2, <4>1, <4>2
    <3>. QED
      BY <3>1, <3>2 DEF Plans, Started
  <2>. QED
    BY <2>1, <2>2
<1>. QED
  BY <1>5, <1>6 DEF Plans, Started

\* Only attempts of a command whose gate was verified are dispatched.
LEMMA DispatchKeepsPlans ==
  ASSUME TypeOK, Plans, NEW c \in Commands, NEW x \in Attempts, NEW b \in Commands,
         DispatchAttempt(c, x, b)
  PROVE  Plans'
<1>1. /\ command' = command /\ command[c] = "ready" /\ attempt[x].command = c
      /\ \A a \in Attempts : attempt'[a] = IF a = x THEN Attempt("dispatched", c, FALSE)
                                           ELSE attempt[a]
  BY DEF DispatchAttempt, MayDispatch, TypeOK
<1>2. \A a \in Attempts : attempt'[a].command = attempt[a].command
  BY <1>1 DEF Attempt
<1>3. PlanIsWhole'
  BY <1>1, <1>2 DEF Plans, PlanIsWhole
<1>4. attempt'[x].state = "dispatched"
  BY <1>1 DEF Attempt
<1>. QED
  BY <1>1, <1>2, <1>3, <1>4 DEF Plans, Started

\* A step that leaves the commands alone, and changes no attempt but the state of those
\* under way, keeps the plans.
LEMMA VerdictKeepsPlans ==
  ASSUME Plans, UNCHANGED command,
         \A a \in Attempts : \/ attempt'[a] = attempt[a]
                             \/ /\ attempt'[a].command = attempt[a].command
                                /\ Started(a) /\ attempt'[a].state # "absent"
  PROVE  Plans'
BY DEF Plans, PlanIsWhole, Started

\* Plans stay whole and gated at every step.
LEMMA NextKeepsPlans ==
  ASSUME TypeOK, Plans, [Next]_vars
  PROVE  Plans'
<1>1. ASSUME NEW w \in Workers, FinishAttempt(w) PROVE Plans'
  <2>1. /\ UNCHANGED command
        /\ \/ UNCHANGED attempt
           \/ /\ attempt[job[w]].state = "dispatched"
              /\ attempt' = [attempt EXCEPT ![job[w]] =
                                Attempt(result[w], attempt[job[w]].command, FALSE)]
    BY <1>1 DEF FinishAttempt, CanUpdateAttempt
  <2>2. result[w] # "absent"
    BY DEF TypeOK, Outcomes
  <2>. QED
    BY <2>1, <2>2, VerdictKeepsPlans DEF Attempt, TypeOK, Started
<1>2. ASSUME NEW o \in Operators, NEW k \in DecisionKinds, Decide(o, k) PROVE Plans'
  <2>1. /\ UNCHANGED command
        /\ \/ UNCHANGED attempt
           \/ /\ attempt[review[o]].state = "outcome_unknown"
              /\ attempt' = [attempt EXCEPT ![review[o]] =
                                Attempt(Resolution[k], attempt[review[o]].command, FALSE)]
    BY <1>2 DEF Decide, AwaitsDecision
  <2>2. Resolution[k] # "absent"
    BY DEF Resolution, DecisionKinds
  <2>. QED
    BY <2>1, <2>2, VerdictKeepsPlans DEF Attempt, TypeOK, Started
<1>3. CASE UNCHANGED <<command, attempt>>
  BY <1>3, VerdictKeepsPlans
<1>4. ASSUME NEW w \in Workers, WorkerStep(w) PROVE Plans'
  BY <1>1, <1>3, <1>4 DEF WorkerStep, ReadOperation, CreateOperation, Revalidate, MarkSent,
     CallProvider, AwaitResponse, RecordResult, db
<1>. QED
  BY <1>2, <1>3, <1>4, SavePlanKeepsPlans, DispatchKeepsPlans
     DEF Next, StartExecution, Crash, OpenReview, ProviderHandles, ChangeGrant, vars, db

\* In every reachable state plans are whole and gated.
THEOREM PlansHold == Spec => []Plans
<1>1. Init => Plans
  BY WriteAssumption DEF Init, Plans, PlanIsWhole, Started, Absent, Attempt
<1>. QED
  BY <1>1, NextKeepsPlans, TypeCorrect, PTL DEF Spec

\* A plan that was saved has all its attempts, and no attempt serves two commands.
THEOREM PlansAreWhole == Spec => []PlanIsWhole
BY PlansHold, PTL DEF Plans

\* No attempt is dispatched and no provider called for a command whose gate was not
\* verified.
THEOREM GatesHold == Spec => []GateHolds
<1>1. Plans /\ Protocol /\ TypeOK => GateHolds
  <2>. SUFFICES ASSUME Plans, Protocol, TypeOK, NEW a \in Attempts,
                       attempt[a].state \notin {"absent", "pending"}
                         \/ \E s \in Steps : calls[a][s] > 0
                PROVE  command[attempt[a].command] = "ready"
    BY DEF GateHolds
  <2>1. Started(a)
    <3>1. ASSUME NEW s \in Steps, calls[a][s] > 0 PROVE Started(a)
      <4>1. operation[a][s] # "absent"
        BY <3>1 DEF Protocol, CallsAreMarked
      <4>. QED
        BY <4>1 DEF Protocol, OpenWhileWorking, Started
    <3>. QED
      BY <3>1 DEF Started
  <2>. QED
    BY <2>1 DEF Plans
<1>. QED
  BY <1>1, PlansHold, ProtocolHolds, TypeCorrect, PTL

-----------------------------------------------------------------------------
\* No redelivery, crash or second worker makes the provider be called twice for
\* a step of an attempt.
THEOREM CalledAtMostOnce == Spec => []AtMostOneCall
<1>1. Protocol => AtMostOneCall
  BY DEF Protocol, CallsAreMarked, AtMostOneCall
<1>. QED
  BY <1>1, ProtocolHolds, PTL

\* The steps of an attempt reach the provider in order, each only after the one
\* before it was applied.
THEOREM SentInOrder == Spec => []StepsInOrder
<1>1. Protocol => StepsInOrder
  <2>. SUFFICES ASSUME Protocol, NEW a \in Attempts, NEW s \in Steps,
                       operation[a][s] \notin {"absent", "prepared"}, NEW t \in 1..(s - 1)
                PROVE  operation[a][t] = "succeeded" /\ request[a][t] = "applied"
    BY DEF StepsInOrder
  <2>1. t \in Steps /\ t < s
    BY WriteAssumption DEF Steps
  <2>. QED
    BY <2>1 DEF Protocol, OperationsInOrder, RecordedAsAnswered
<1>. QED
  BY <1>1, ProtocolHolds, PTL

\* Until an operator decides, 'succeeded' and 'failed' are what the provider did.
THEOREM VerdictSound == Spec => []VerdictIsTheProviders
<1>1. TypeOK /\ Protocol => VerdictIsTheProviders
  <2>. SUFFICES ASSUME TypeOK, Protocol, NEW a \in Attempts, decisions[a] = <<>>
                PROVE  /\ attempt[a].state = "succeeded" =>
                            \A s \in Steps : request[a][s] = "applied"
                       /\ attempt[a].state = "failed" =>
                            \E s \in Steps :
                              /\ request[a][s] = "rejected"
                              /\ \A t \in Steps : t > s => calls[a][t] = 0
    BY DEF VerdictIsTheProviders
  <2>1. attempt[a].state = "succeeded" => \A s \in Steps : request[a][s] = "applied"
    BY DEF Protocol, VerdictHasCause, AllSucceeded, RecordedAsAnswered
  <2>2. ASSUME attempt[a].state = "failed"
        PROVE  \E s \in Steps : /\ request[a][s] = "rejected"
                                /\ \A t \in Steps : t > s => calls[a][t] = 0
    <3>1. PICK s \in Steps : operation[a][s] = "failed"
      BY <2>2 DEF Protocol, VerdictHasCause
    <3>2. \A t \in Steps : t > s => operation[a][t] = "absent"
      BY <3>1, StepFacts DEF Protocol, OperationsInOrder
    <3>. QED
      BY <3>1, <3>2 DEF Protocol, RecordedAsAnswered, CallsAreMarked
  <2>. QED
    BY <2>1, <2>2
<1>. QED
  BY <1>1, TypeCorrect, ProtocolHolds, PTL

\* A settled verdict never changes, and an unknown one only with a decision.
THEOREM VerdictsStay == Spec => VerdictIsFinal
<1>1. TypeOK /\ [Next]_vars =>
        [\A a \in Attempts :
           /\ attempt[a].state \in Settled => attempt'[a] = attempt[a]
           /\ attempt[a].state = "outcome_unknown" /\ attempt'[a] # attempt[a] =>
                decisions'[a] # decisions[a]]_vars
  <2>. SUFFICES ASSUME TypeOK, [Next]_vars, NEW a \in Attempts
                PROVE  /\ attempt[a].state \in Settled => attempt'[a] = attempt[a]
                       /\ attempt[a].state = "outcome_unknown" /\ attempt'[a] # attempt[a] =>
                            decisions'[a] # decisions[a]
    OBVIOUS
  <2>1. ASSUME NEW c \in Commands, SavePlan(c)
        PROVE  attempt'[a] = attempt[a] \/ attempt[a].state = "absent"
    BY <2>1 DEF SavePlan, InsertPlan, NoKeyConflict, TypeOK
  <2>2. ASSUME NEW c \in Commands, NEW x \in Attempts, NEW b \in Commands,
               DispatchAttempt(c, x, b)
        PROVE  attempt'[a] = attempt[a] \/ attempt[a].state = "pending"
    BY <2>2 DEF DispatchAttempt, MayDispatch, TypeOK
  <2>3. ASSUME NEW w \in Workers, FinishAttempt(w)
        PROVE  attempt'[a] = attempt[a] \/ attempt[a].state = "dispatched"
    BY <2>3 DEF FinishAttempt, CanUpdateAttempt, TypeOK
  <2>4. ASSUME NEW o \in Operators, NEW k \in DecisionKinds, Decide(o, k)
        PROVE  \/ attempt'[a] = attempt[a]
               \/ attempt[a].state = "outcome_unknown" /\ decisions'[a] # decisions[a]
    <3>1. CASE a = review[o] /\ AwaitsDecision(a)
      <4>1. decisions'[a] = Append(decisions[a], k) /\ decisions[a] \in Seq(DecisionKinds)
        BY <2>4, <3>1 DEF Decide, TypeOK
      <4>2. Len(decisions'[a]) = Len(decisions[a]) + 1 /\ Len(decisions[a]) \in Nat
        BY <4>1
      <4>. QED
        BY <3>1, <4>2 DEF AwaitsDecision
    <3>2. CASE ~(a = review[o] /\ AwaitsDecision(a))
      BY <2>4, <3>2 DEF Decide, TypeOK
    <3>. QED
      BY <3>1, <3>2
  <2>5. CASE \/ \E w \in Workers : \/ Crash(w) \/ ReadOperation(w) \/ CreateOperation(w)
                                   \/ Revalidate(w) \/ MarkSent(w) \/ CallProvider(w)
                                   \/ AwaitResponse(w) \/ RecordResult(w)
             \/ \E w \in Workers, x \in Attempts : StartExecution(w, x)
             \/ \E o \in Operators, x \in Attempts : OpenReview(o, x)
             \/ \E x \in Attempts, s \in Steps : ProviderHandles(x, s)
             \/ \E x \in Attempts : ChangeGrant(x)
             \/ UNCHANGED vars
    <3>1. UNCHANGED attempt
      BY <2>5 DEF Crash, ReadOperation, CreateOperation, Revalidate, MarkSent, CallProvider,
         AwaitResponse, RecordResult, StartExecution, OpenReview, ProviderHandles, ChangeGrant,
         vars, db
    <3>. QED
      BY <3>1
  <2>. QED
    BY <2>1, <2>2, <2>3, <2>4, <2>5 DEF Next, WorkerStep, Settled
<1>. QED
  BY <1>1, TypeCorrect, PTL DEF Spec, VerdictIsFinal

-----------------------------------------------------------------------------
(* The refinement of SafePublication. *)

SentSteps(a) == {s \in Steps : operation[a][s] \notin {"absent", "prepared"}}

Answered(a, s) == IF request[a][s] = "inflight" THEN "none" ELSE request[a][s]

verdictBar == [a \in Attempts |-> Verdict(a)]
sentBar == [a \in Attempts |-> SentSteps(a)]
answerBar == [a \in Attempts |-> [s \in Steps |-> Answered(a, s)]]

\* The variables of SafePublication, as functions of the rows.
LEMMA BarsAreMapped ==
  /\ Publication!Init <=> /\ verdictBar = [a \in Attempts |-> "none"]
                          /\ sentBar = [a \in Attempts |-> {}]
                          /\ answerBar = [a \in Attempts |-> [s \in Publication!Steps |-> "none"]]
  /\ Publication!Steps = Steps
BY DEF Publication!Init, Publication!Steps, Steps, verdictBar, sentBar, answerBar,
       SentSteps, Answered

\* Rows that mean the same to the seller make a stuttering step.
LEMMA Stutters ==
  ASSUME \A a \in Attempts :
           /\ Verdict(a)' = Verdict(a)
           /\ \A s \in Steps :
                /\ (operation'[a][s] \notin {"absent", "prepared"}) <=>
                     (operation[a][s] \notin {"absent", "prepared"})
                /\ Answered(a, s)' = Answered(a, s)
  PROVE  UNCHANGED Publication!vars
<1>1. verdictBar' = verdictBar /\ sentBar' = sentBar /\ answerBar' = answerBar
  <2>1. verdictBar' = verdictBar
    BY DEF verdictBar
  <2>2. \A a \in Attempts : SentSteps(a)' = SentSteps(a)
    BY DEF SentSteps
  <2>3. sentBar' = sentBar
    BY <2>2 DEF sentBar
  <2>4. answerBar' = answerBar
    BY DEF answerBar
  <2>. QED
    BY <2>1, <2>3, <2>4
<1>. QED
  BY <1>1 DEF Publication!vars, verdictBar, sentBar, answerBar, SentSteps, Answered

\* A step that changes the verdict of one attempt, and nothing else a seller sees.
LEMMA VerdictMoves ==
  ASSUME UNCHANGED <<operation, request>>, NEW a \in Attempts, NEW v,
         Verdict(a)' = v,
         \A x \in Attempts \ {a} : Verdict(x)' = Verdict(x)
  PROVE  /\ verdictBar' = [verdictBar EXCEPT ![a] = v]
         /\ sentBar' = sentBar /\ answerBar' = answerBar
         /\ verdictBar[a] = Verdict(a)
<1>1. verdictBar' = [verdictBar EXCEPT ![a] = v]
  BY DEF verdictBar
<1>. QED
  BY <1>1 DEF verdictBar, sentBar, answerBar, SentSteps, Answered

\* A dispatch is the Confirm of SafePublication.
LEMMA DispatchConfirms ==
  ASSUME TypeOK, NEW c \in Commands, NEW a \in Attempts, NEW b \in Commands,
         DispatchAttempt(c, a, b)
  PROVE  Publication!Confirm(a)
<1>1. /\ attempt[a].state = "pending" /\ attempt'[a].state = "dispatched"
      /\ \A x \in Attempts \ {a} : attempt'[x] = attempt[x]
      /\ UNCHANGED <<operation, request>>
  BY DEF TypeOK, DispatchAttempt, MayDispatch, Attempt, provider
<1>2. /\ Verdict(a) = "none" /\ Verdict(a)' = "open"
      /\ \A x \in Attempts \ {a} : Verdict(x)' = Verdict(x)
  BY <1>1 DEF Verdict
<1>. QED
  BY <1>1, <1>2, VerdictMoves DEF Publication!Confirm, verdictBar, sentBar, answerBar,
     SentSteps, Answered

\* Marking an operation sent is the Send of SafePublication.
LEMMA MarkSentSends ==
  ASSUME TypeOK, Protocol, NEW w \in Workers, MarkSent(w),
         CanUpdateOperation(job[w], step[w], "prepared", "sent")
  PROVE  \E a \in Attempts, s \in Steps : Publication!Send(a, s)
<1>0. PICK a \in Attempts, s \in Steps : a = job[w] /\ s = step[w]
  BY DEF MarkSent, TypeOK
<1>1. /\ operation[a][s] = "prepared" /\ SetOperation(a, s, "sent")
      /\ UNCHANGED <<attempt, request>>
  BY <1>0 DEF MarkSent, provider, CanUpdateOperation
<1>2. /\ operation'[a][s] = "sent"
      /\ \A x \in Attempts, y \in Steps : x # a \/ y # s => operation'[x][y] = operation[x][y]
  BY <1>0, <1>1, OperationUpdate
<1>3. /\ attempt[a].state = "dispatched"
      /\ \A t \in Steps : t < s => request[a][t] = "applied"
  BY <1>0, <1>1 DEF Protocol, OpenWhileWorking, MarkSent, InOrder, RecordedAsAnswered
<1>4. SentSteps(a)' = SentSteps(a) \cup {s} /\ s \notin SentSteps(a)
  BY <1>0, <1>1, <1>2 DEF SentSteps
<1>5. \A x \in Attempts \ {a} : SentSteps(x)' = SentSteps(x)
  BY <1>0, <1>2 DEF SentSteps
<1>6. sentBar' = [sentBar EXCEPT ![a] = @ \cup {s}] /\ sentBar[a] = SentSteps(a)
  BY <1>0, <1>4, <1>5 DEF sentBar
<1>7. verdictBar' = verdictBar /\ answerBar' = answerBar
  BY <1>1 DEF verdictBar, answerBar, Verdict, Answered
<1>8. verdictBar[a] = "open"
  BY <1>0, <1>3 DEF verdictBar, Verdict
<1>9. \A t \in 1..(s - 1) : answerBar[a][t] = "applied"
  <2>1. \A t \in 1..(s - 1) : t \in Steps /\ t < s
    BY <1>0, WriteAssumption DEF Steps
  <2>. QED
    BY <1>0, <1>3, <2>1 DEF answerBar, Answered
<1>10. Publication!Send(a, s)
  BY <1>4, <1>6, <1>7, <1>8, <1>9
     DEF Publication!Send, verdictBar, sentBar, answerBar, SentSteps, Answered
<1>. QED
  BY <1>10

\* Closing an attempt is the Conclude of SafePublication.
LEMMA FinishConcludes ==
  ASSUME TypeOK, Protocol, NEW w \in Workers, FinishAttempt(w), CanUpdateAttempt(job[w])
  PROVE  Publication!Conclude(job[w], result[w])
<1>0. PICK a \in Attempts, s \in Steps, r \in Outcomes :
        a = job[w] /\ s = step[w] /\ r = result[w]
  BY DEF FinishAttempt, TypeOK
<1>p. pc[w] = "finish"
  BY DEF FinishAttempt
<1>1. /\ attempt[a].state = "dispatched" /\ attempt'[a].state = r
      /\ \A x \in Attempts \ {a} : attempt'[x] = attempt[x]
      /\ UNCHANGED <<operation, request>>
  BY <1>0 DEF FinishAttempt, CanUpdateAttempt, TypeOK, Attempt, provider
<1>2. /\ Verdict(a) = "open" /\ Verdict(a)' = r
      /\ \A x \in Attempts \ {a} : Verdict(x)' = Verdict(x)
  BY <1>0, <1>p, <1>1 DEF Verdict, Outcomes
<1>3. /\ verdictBar' = [verdictBar EXCEPT ![a] = r]
      /\ sentBar' = sentBar /\ answerBar' = answerBar /\ verdictBar[a] = "open"
  BY <1>0, <1>p, <1>1, <1>2, VerdictMoves
<1>4. \/ r = "succeeded" /\ \A t \in Steps : answerBar[a][t] = "applied"
      \/ r = "failed" /\ \E t \in Steps : answerBar[a][t] = "rejected"
      \/ r = "outcome_unknown" /\ sentBar[a] # {}
  <2>1. CASE r = "succeeded"
    <3>1. \A t \in Steps : request[a][t] = "applied"
      BY <1>0, <1>p, <2>1 DEF Protocol, AtStep, AllSucceeded, RecordedAsAnswered
    <3>. QED
      BY <1>0, <1>p, <2>1, <3>1 DEF answerBar, Answered
  <2>2. CASE r = "failed"
    <3>1. request[a][s] = "rejected"
      BY <1>0, <1>p, <2>2 DEF Protocol, AtStep, RecordedAsAnswered
    <3>. QED
      BY <1>0, <1>p, <2>2, <3>1 DEF answerBar, Answered
  <2>3. CASE r = "outcome_unknown"
    <3>1. s \in SentSteps(a)
      BY <1>0, <1>p, <2>3 DEF Protocol, AtStep, SentSteps
    <3>. QED
      BY <1>0, <1>p, <2>3, <3>1 DEF sentBar
  <2>. QED
    BY <1>0, <1>p, <2>1, <2>2, <2>3 DEF Outcomes
<1>. QED
  BY <1>0, <1>3, <1>4, BarsAreMapped DEF Publication!Conclude, verdictBar, sentBar, answerBar,
     SentSteps, Answered

\* A decision on an unknown outcome is the Resolve of SafePublication.
LEMMA DecideResolves ==
  ASSUME TypeOK, NEW o \in Operators, NEW k \in DecisionKinds, Decide(o, k),
         AwaitsDecision(review[o])
  PROVE  Publication!Resolve(review[o], Resolution[k]) /\ Resolution[k] \in Settled
<1>1. PICK a \in Attempts : a = review[o] /\ attempt[a].state = "outcome_unknown"
  BY DEF AwaitsDecision, Decide, TypeOK
<1>2. /\ attempt'[a].state = Resolution[k]
      /\ \A x \in Attempts \ {a} : attempt'[x] = attempt[x]
      /\ UNCHANGED <<operation, request>>
  BY <1>1 DEF TypeOK, Decide, Attempt, provider
<1>3. Resolution[k] \in Settled
  BY DEF Resolution, DecisionKinds, Settled
<1>4. /\ Verdict(a) = "outcome_unknown" /\ Verdict(a)' = Resolution[k]
      /\ \A x \in Attempts \ {a} : Verdict(x)' = Verdict(x)
  BY <1>1, <1>2, <1>3 DEF Verdict, Settled
<1>. QED
  BY <1>1, <1>2, <1>3, <1>4, VerdictMoves
     DEF Publication!Resolve, verdictBar, sentBar, answerBar, SentSteps, Answered

\* What the provider does with a call is the Answer of SafePublication.
LEMMA ProviderAnswers ==
  ASSUME TypeOK, Protocol, NEW a \in Attempts, NEW s \in Steps, ProviderHandles(a, s)
  PROVE  \E v \in {"applied", "rejected"} : Publication!Answer(a, s, v)
<1>1. PICK v \in {"applied", "rejected"} : request' = [request EXCEPT ![a][s] = v]
  BY DEF ProviderHandles
<1>2. /\ request[a][s] = "inflight" /\ request'[a][s] = v
      /\ \A x \in Attempts, y \in Steps : x # a \/ y # s => request'[x][y] = request[x][y]
      /\ UNCHANGED <<attempt, operation>>
  BY <1>1 DEF ProviderHandles, TypeOK, db
<1>3. calls[a][s] # 0 /\ operation[a][s] \notin {"absent", "prepared"}
  BY <1>2 DEF Protocol, CallsAreMarked
<1>4. s \in SentSteps(a) /\ Answered(a, s) = "none" /\ Answered(a, s)' = v
  BY <1>2, <1>3 DEF SentSteps, Answered
<1>5. \A x \in Attempts, y \in Steps : x # a \/ y # s => Answered(x, y)' = Answered(x, y)
  BY <1>2 DEF Answered
<1>6. /\ answerBar' = [answerBar EXCEPT ![a][s] = v]
      /\ answerBar[a][s] = "none" /\ sentBar[a] = SentSteps(a)
  BY <1>4, <1>5 DEF answerBar, sentBar
<1>7. verdictBar' = verdictBar /\ sentBar' = sentBar
  BY <1>2 DEF verdictBar, sentBar, Verdict, SentSteps
<1>. QED
  BY <1>4, <1>6, <1>7 DEF Publication!Answer, verdictBar, sentBar, answerBar, SentSteps, Answered

\* Workers, retries, crashes and operators together implement SafePublication.
THEOREM PublicationImplemented == Spec => ImplementsPublication
<1>1. Init => Publication!Init
  BY BarsAreMapped
     DEF Init, Absent, Attempt, verdictBar, sentBar, answerBar, Verdict, SentSteps, Answered
<1>2. TypeOK /\ Protocol /\ [Next]_vars => [Publication!Next]_(Publication!vars)
  <2>. SUFFICES ASSUME TypeOK, Protocol, [Next]_vars
                PROVE  Publication!Next \/ UNCHANGED Publication!vars
    OBVIOUS
  <2>1. ASSUME NEW c \in Commands, SavePlan(c) PROVE UNCHANGED Publication!vars
    <3>1. \A a \in Attempts :
            \/ attempt'[a] = attempt[a]
            \/ attempt[a].state = "absent" /\ attempt'[a].state = "pending"
      BY <2>1 DEF TypeOK, SavePlan, InsertPlan, NoKeyConflict, Attempt
    <3>. QED
      BY <2>1, <3>1, Stutters DEF SavePlan, provider, Verdict, Answered
  <2>2. ASSUME NEW w \in Workers, CreateOperation(w) PROVE UNCHANGED Publication!vars
    <3>1. PICK a \in Attempts, s \in Steps : a = job[w] /\ s = step[w]
      BY <2>2 DEF CreateOperation, TypeOK
    <3>2. \/ UNCHANGED operation
          \/ operation[a][s] = "absent" /\ SetOperation(a, s, "prepared")
      BY <2>2, <3>1 DEF CreateOperation
    <3>3. \A x \in Attempts, y \in Steps :
            (operation'[x][y] \notin {"absent", "prepared"}) <=>
              (operation[x][y] \notin {"absent", "prepared"})
      BY <3>2, OperationUpdate
    <3>. QED
      BY <2>2, <3>3, Stutters DEF CreateOperation, provider, Verdict, Answered
  <2>3. ASSUME NEW w \in Workers, CallProvider(w) PROVE UNCHANGED Publication!vars
    <3>1. PICK a \in Attempts, s \in Steps : a = job[w] /\ s = step[w]
      BY <2>3 DEF CallProvider, TypeOK
    <3>2. request[a][s] = "none"
      BY <2>3, <3>1 DEF Protocol, AtStep, CallsAreMarked, CallProvider
    <3>3. request' = [request EXCEPT ![a][s] = "inflight"]
      BY <2>3, <3>1 DEF CallProvider
    <3>4. \A x \in Attempts, y \in Steps : Answered(x, y)' = Answered(x, y)
      BY <3>2, <3>3 DEF Answered, TypeOK
    <3>. QED
      BY <2>3, <3>4, Stutters DEF CallProvider, db, Verdict
  <2>4. ASSUME NEW w \in Workers, RecordResult(w) PROVE UNCHANGED Publication!vars
    <3>1. PICK a \in Attempts, s \in Steps, r \in Outcomes :
            a = job[w] /\ s = step[w] /\ r = result[w]
      BY <2>4 DEF RecordResult, TypeOK
    <3>2. \/ UNCHANGED operation
          \/ operation[a][s] = "sent" /\ SetOperation(a, s, r)
      BY <2>4, <3>1 DEF RecordResult, CanUpdateOperation
    <3>3. \A x \in Attempts, y \in Steps :
            (operation'[x][y] \notin {"absent", "prepared"}) <=>
              (operation[x][y] \notin {"absent", "prepared"})
      BY <3>2, OperationUpdate DEF Outcomes
    <3>. QED
      BY <2>4, <3>3, Stutters DEF RecordResult, provider, Verdict, Answered
  <2>5. ASSUME NEW w \in Workers, MarkSent(w)
        PROVE  Publication!Next \/ UNCHANGED Publication!vars
    <3>1. CASE CanUpdateOperation(job[w], step[w], "prepared", "sent")
      <4>1. \E a \in Attempts, s \in Publication!Steps : Publication!Send(a, s)
        BY <2>5, <3>1, MarkSentSends, BarsAreMapped
      <4>. QED
        BY <4>1 DEF Publication!Next
    <3>2. CASE ~CanUpdateOperation(job[w], step[w], "prepared", "sent")
      BY <2>5, <3>2, Stutters DEF MarkSent, provider, Verdict, Answered
    <3>. QED
      BY <3>1, <3>2
  <2>6. ASSUME NEW w \in Workers, FinishAttempt(w)
        PROVE  Publication!Next \/ UNCHANGED Publication!vars
    <3>1. CASE CanUpdateAttempt(job[w])
      <4>1. job[w] \in Attempts /\ result[w] \in {"succeeded", "failed", "outcome_unknown"}
        BY <2>6 DEF FinishAttempt, TypeOK, Outcomes
      <4>2. Publication!Conclude(job[w], result[w])
        BY <2>6, <3>1, FinishConcludes
      <4>. QED
        BY <4>1, <4>2 DEF Publication!Next
    <3>2. CASE ~CanUpdateAttempt(job[w])
      BY <2>6, <3>2, Stutters DEF FinishAttempt, provider, Verdict, Answered
    <3>. QED
      BY <3>1, <3>2
  <2>7. ASSUME NEW o \in Operators, NEW k \in DecisionKinds, Decide(o, k)
        PROVE  Publication!Next \/ UNCHANGED Publication!vars
    <3>1. CASE AwaitsDecision(review[o])
      <4>1. review[o] \in Attempts
        BY <2>7 DEF Decide, TypeOK
      <4>2. /\ Publication!Resolve(review[o], Resolution[k])
            /\ Resolution[k] \in {"succeeded", "failed", "reauth_required"}
        BY <2>7, <3>1, DecideResolves DEF Settled
      <4>. QED
        BY <4>1, <4>2 DEF Publication!Next
    <3>2. CASE ~AwaitsDecision(review[o])
      BY <2>7, <3>2, Stutters DEF Decide, provider, Verdict, Answered
    <3>. QED
      BY <3>1, <3>2
  <2>8. ASSUME NEW c \in Commands, NEW a \in Attempts, NEW b \in Commands,
               DispatchAttempt(c, a, b)
        PROVE  Publication!Next
    BY <2>8, DispatchConfirms DEF Publication!Next
  <2>9. ASSUME NEW a \in Attempts, NEW s \in Steps, ProviderHandles(a, s)
        PROVE  Publication!Next
    BY <2>9, ProviderAnswers, BarsAreMapped DEF Publication!Next
  <2>10. CASE \/ \E w \in Workers : \/ Crash(w) \/ ReadOperation(w)
                                    \/ Revalidate(w) \/ AwaitResponse(w)
              \/ \E w \in Workers, a \in Attempts : StartExecution(w, a)
              \/ \E o \in Operators, a \in Attempts : OpenReview(o, a)
              \/ \E a \in Attempts : ChangeGrant(a)
              \/ UNCHANGED vars
    <3>1. UNCHANGED <<attempt, operation, request>>
      BY <2>10 DEF Crash, ReadOperation, Revalidate, AwaitResponse, StartExecution, OpenReview,
         ChangeGrant, vars, db, provider
    <3>. QED
      BY <3>1, Stutters DEF Verdict, Answered
  <2>. QED
    BY <2>1, <2>2, <2>3, <2>4, <2>5, <2>6, <2>7, <2>8, <2>9, <2>10 DEF Next, WorkerStep
<1>. QED
  BY <1>1, <1>2, TypeCorrect, ProtocolHolds, PTL
     DEF Spec, ImplementsPublication, Publication!Spec

=============================================================================
