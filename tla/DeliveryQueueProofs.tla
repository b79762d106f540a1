------------------------ MODULE DeliveryQueueProofs ------------------------
(***************************************************************************)
(* Proofs about DeliveryQueue for every set of commands, jobs, processes   *)
(* and clock readings and every bound on generations.                      *)
(***************************************************************************)
EXTENDS DeliveryQueue, TLAPS

JobRows == [state : JobStates \cup {"absent"},
            command : Commands \cup {None},
            replayOf : DeadLetterIds \cup {None},
            available : Times \cup {0},
            owner : WorkerIds \cup {None},
            expires : Times \cup {0},
            generation : Nat]

\* None names no command, job, dead letter or worker.
LEMMA NoneIsNothing ==
  None \notin Commands /\ None \notin JobIds /\ None \notin DeadLetterIds /\ None \notin WorkerIds
BY DeliveryAssumption

\* The rows the operations write are rows of queue_jobs.
LEMMA JobTyped ==
  ASSUME NEW c \in Commands \cup {None}, NEW d \in DeadLetterIds \cup {None},
         NEW t \in Times \cup {0}
  PROVE  Job(c, d, t) \in JobRows /\ NoJob \in JobRows
BY DEF Job, NoJob, JobRows, JobStates

\* A lease is a row of the same job with the next generation.
LEMMA LeaseTyped ==
  ASSUME NEW j \in JobIds, NEW p \in Processes, NEW e \in Times, jobs[j] \in JobRows
  PROVE  /\ Lease(j, p, e) \in JobRows
         /\ Lease(j, p, e).state = "LEASED"
         /\ Lease(j, p, e).command = jobs[j].command
         /\ Lease(j, p, e).replayOf = jobs[j].replayOf
         /\ Lease(j, p, e).owner \in WorkerIds
         /\ Lease(j, p, e).generation = jobs[j].generation + 1
<1>1. WorkerIdOf[p] \in WorkerIds /\ "LEASED" \in JobStates
  BY DeliveryAssumption DEF JobStates
<1>2. jobs[j].generation + 1 \in Nat
  BY DEF JobRows
<1>. QED
  BY <1>1, <1>2 DEF Lease, JobRows

\* Changing the state of one job.
LEMMA StateUpdate ==
  ASSUME TypeOK, NEW k \in JobIds, NEW s \in JobStates,
         jobs' = [jobs EXCEPT ![k].state = s]
  PROVE  /\ jobs' \in [JobIds -> JobRows]
         /\ jobs'[k].state = s
         /\ \A j \in JobIds : /\ jobs'[j].command = jobs[j].command
                              /\ jobs'[j].replayOf = jobs[j].replayOf
                              /\ jobs'[j].owner = jobs[j].owner
                              /\ jobs'[j].generation = jobs[j].generation
                              /\ j # k => jobs'[j] = jobs[j]
<1>1. jobs \in [JobIds -> JobRows]
  BY DEF TypeOK, JobRows
<1>2. jobs'[k] = [jobs[k] EXCEPT !.state = s] /\ \A j \in JobIds \ {k} : jobs'[j] = jobs[j]
  BY <1>1
<1>3. /\ jobs'[k] \in JobRows /\ jobs'[k].state = s
      /\ jobs'[k].command = jobs[k].command
      /\ jobs'[k].replayOf = jobs[k].replayOf
      /\ jobs'[k].owner = jobs[k].owner
      /\ jobs'[k].generation = jobs[k].generation
  BY <1>1, <1>2 DEF JobRows
<1>4. DOMAIN jobs' = JobIds
  BY <1>1
<1>5. jobs' \in [JobIds -> JobRows]
  BY <1>1, <1>2, <1>3
<1>. QED
  BY <1>2, <1>3, <1>5

\* A process that holds a lease holds it on a job.
LEMMA HolderHasJob ==
  ASSUME TypeOK, NEW p \in Processes, HoldsLease(p)
  PROVE  token[p].job \in JobIds /\ jobs[token[p].job].state = "LEASED"
BY DEF TypeOK, HoldsLease

\* What commitResult does, with the job named.
LEMMA CommitEffect ==
  ASSUME TypeOK, NEW p \in Processes, CommitResult(p)
  PROVE  \E k \in JobIds : /\ k = token[p].job
                           /\ jobs[k].state = "LEASED"
                           /\ jobs' = [jobs EXCEPT ![k].state = "COMPLETED"]
<1>1. HoldsLease(p) /\ jobs' = [jobs EXCEPT ![token[p].job].state = "COMPLETED"]
  BY DEF CommitResult
<1>2. token[p].job \in JobIds /\ jobs[token[p].job].state = "LEASED"
  BY <1>1, HolderHasJob
<1>. QED
  BY <1>1, <1>2

\* What deadLetter does, with the job named.
LEMMA BuryEffect ==
  ASSUME TypeOK, NEW p \in Processes, NEW d \in DeadLetterIds, DeadLetter(p, d)
  PROVE  \E k \in JobIds : /\ k = token[p].job
                           /\ jobs[k].state = "LEASED"
                           /\ jobs' = [jobs EXCEPT ![k].state = "DEAD_LETTERED"]
                           /\ dead' = [dead EXCEPT ![d] = k]
<1>1. /\ HoldsLease(p) /\ jobs' = [jobs EXCEPT ![token[p].job].state = "DEAD_LETTERED"]
      /\ dead' = [dead EXCEPT ![d] = token[p].job]
  BY DEF DeadLetter
<1>2. token[p].job \in JobIds /\ jobs[token[p].job].state = "LEASED"
  BY <1>1, HolderHasJob
<1>. QED
  BY <1>1, <1>2

\* Every step keeps the type of every column.
LEMMA TypeStep ==
  ASSUME TypeOK, [Next]_vars
  PROVE  TypeOK'
<1>. \A j \in JobIds : jobs[j] \in JobRows
  BY DEF TypeOK, JobRows
<1>1. ASSUME NEW c \in Commands, NEW t \in Times, AppendOutbox(c, t) PROVE TypeOK'
  BY <1>1 DEF TypeOK, AppendOutbox
<1>2. ASSUME NEW c \in Commands, NEW j \in JobIds, DispatchOutbox(c, j) PROVE TypeOK'
  <2>1. outbox[c].available \in Times \cup {0}
    BY DEF TypeOK
  <2>2. Job(c, None, outbox[c].available) \in JobRows
    BY <2>1, JobTyped
  <2>3. jobs' \in [JobIds -> JobRows]
    BY <1>2, <2>2 DEF TypeOK, DispatchOutbox, JobRows
  <2>4. \A k \in JobIds : jobs'[k].state = "LEASED" => jobs'[k].owner # None
    BY <1>2 DEF TypeOK, DispatchOutbox, Job
  <2>. QED
    BY <1>2, <2>3, <2>4 DEF TypeOK, DispatchOutbox, JobRows
<1>3. ASSUME NEW j \in JobIds, NEW p \in Processes, NEW now \in Times, NEW e \in Times,
             ClaimJob(p, j, now, e)
      PROVE  TypeOK'
  <2>1. jobs' \in [JobIds -> JobRows]
    BY <1>3, LeaseTyped DEF TypeOK, ClaimJob, JobRows
  <2>2. \A k \in JobIds : jobs'[k].state = "LEASED" => jobs'[k].owner # None
    <3>1. jobs'[j].owner \in WorkerIds
      BY <1>3, LeaseTyped DEF TypeOK, ClaimJob
    <3>. QED
      BY <1>3, <3>1, NoneIsNothing DEF TypeOK, ClaimJob
  <2>3. token' \in [Processes -> [job : JobIds \cup {None}, generation : Nat]]
    <3>1. jobs'[j].generation \in Nat
      BY <2>1 DEF JobRows
    <3>. QED
      BY <1>3, <3>1 DEF TypeOK, ClaimJob
  <2>. QED
    BY <1>3, <2>1, <2>2, <2>3 DEF TypeOK, ClaimJob, JobRows
<1>4. ASSUME NEW j \in JobIds, Acknowledge(j) PROVE TypeOK'
  BY <1>4 DEF TypeOK, Acknowledge, JobStates
<1>5. ASSUME NEW p \in Processes, CommitResult(p) PROVE TypeOK'
  <2>1. PICK j \in JobIds : jobs' = [jobs EXCEPT ![j].state = "COMPLETED"]
    BY <1>5, CommitEffect
  <2>2. /\ jobs' \in [JobIds -> JobRows]
        /\ \A k \in JobIds : jobs'[k].state = "LEASED" => jobs'[k] = jobs[k]
    BY <2>1, StateUpdate DEF JobStates
  <2>. QED
    BY <1>5, <2>2 DEF TypeOK, CommitResult, JobRows
<1>6. ASSUME NEW p \in Processes, Forget(p) PROVE TypeOK'
  BY <1>6 DEF TypeOK, Forget, NoToken
<1>7. ASSUME NEW p \in Processes, NEW d \in DeadLetterIds, DeadLetter(p, d) PROVE TypeOK'
  <2>1. PICK j \in JobIds : /\ jobs' = [jobs EXCEPT ![j].state = "DEAD_LETTERED"]
                           /\ dead' = [dead EXCEPT ![d] = j]
    BY <1>7, BuryEffect
  <2>2. /\ jobs' \in [JobIds -> JobRows]
        /\ \A k \in JobIds : jobs'[k].state = "LEASED" => jobs'[k] = jobs[k]
    BY <2>1, StateUpdate DEF JobStates
  <2>3. UNCHANGED <<outbox, token>>
    BY <1>7 DEF DeadLetter
  <2>. QED
    BY <2>1, <2>2, <2>3 DEF TypeOK, JobRows
<1>8. ASSUME NEW d \in DeadLetterIds, NEW j \in JobIds, NEW t \in Times,
             ReplayDeadLetter(d, j, t)
      PROVE  TypeOK'
  <2>1. jobs[dead[d]].command \in Commands \cup {None}
    BY <1>8 DEF TypeOK, ReplayDeadLetter, Replayable
  <2>2. Job(jobs[dead[d]].command, d, t) \in JobRows
    BY <2>1, JobTyped
  <2>3. jobs' \in [JobIds -> JobRows]
    BY <1>8, <2>2 DEF TypeOK, ReplayDeadLetter, JobRows
  <2>4. \A k \in JobIds : jobs'[k].state = "LEASED" => jobs'[k].owner # None
    BY <1>8 DEF TypeOK, ReplayDeadLetter, Job
  <2>. QED
    BY <1>8, <2>3, <2>4 DEF TypeOK, ReplayDeadLetter, JobRows
<1>9. CASE UNCHANGED vars
  BY <1>9 DEF TypeOK, vars
<1>. QED
  BY <1>1, <1>2, <1>3, <1>4, <1>5, <1>6, <1>7, <1>8, <1>9 DEF Next, Claim

\* Every column keeps its type, and a LEASED row has an owner (a CHECK of
\* queue_jobs).
THEOREM TypeCorrect == Spec => []TypeOK
<1>1. Init => TypeOK
  BY NoneIsNothing DEF Init, TypeOK, NoJob, Job, NoToken
<1>2. TypeOK /\ [Next]_vars => TypeOK'
  BY TypeStep
<1>. QED
  BY <1>1, <1>2, PTL DEF Spec

-----------------------------------------------------------------------------
(* The inductive invariant Queue. *)

Rows == RowsAgree /\ OneHead /\ HeadExists /\ OneDeadLetter /\ RowsWellFormed

\* Queue is a fact about the rows and one about the tokens.
LEMMA QueueParts == Queue <=> Rows /\ TokensAreDistinct
BY DEF Queue, Rows

\* A step that moves a job along, without making or burying one, keeps the rows.
LEMMA MovesKeepRows ==
  ASSUME TypeOK, Rows, UNCHANGED <<outbox, dead>>,
         \A j \in JobIds :
           /\ jobs'[j].command = jobs[j].command
           /\ jobs'[j].replayOf = jobs[j].replayOf
           /\ jobs'[j].state = "absent" <=> jobs[j].state = "absent"
           /\ jobs[j].state \in {"absent", "DEAD_LETTERED"} => jobs'[j] = jobs[j]
           /\ jobs'[j].state = "DEAD_LETTERED" => jobs[j].state = "DEAD_LETTERED"
  PROVE  Rows'
<1>1. \A j \in JobIds : (Exists(j)' <=> Exists(j)) /\ (Head(j)' <=> Head(j))
  BY DEF Exists, Head
<1>2. RowsAgree'
  <2>. \A d \in DeadLetterIds : dead[d] # None => dead[d] \in JobIds
    BY DEF TypeOK
  <2>. \A j \in JobIds : jobs[j].replayOf # None => jobs[j].replayOf \in DeadLetterIds
    BY DEF TypeOK
  <2>1. \A c \in Commands :
          outbox'[c].state = "dispatched" <=>
            \E j \in JobIds : Exists(j)' /\ jobs'[j].command = c /\ jobs'[j].replayOf = None
    BY <1>1 DEF Rows, RowsAgree
  <2>2. \A d \in DeadLetterIds : dead'[d] # None => jobs'[dead'[d]].state = "DEAD_LETTERED"
    <3>. SUFFICES ASSUME NEW d \in DeadLetterIds, dead[d] # None
                  PROVE  jobs'[dead[d]].state = "DEAD_LETTERED"
      OBVIOUS
    <3>1. jobs[dead[d]].state = "DEAD_LETTERED"
      BY DEF Rows, RowsAgree
    <3>. QED
      BY <3>1
  <2>3. \A j \in JobIds : jobs'[j].replayOf # None =>
          /\ dead'[jobs'[j].replayOf] # None
          /\ jobs'[dead'[jobs'[j].replayOf]].command = jobs'[j].command
    BY DEF Rows, RowsAgree
  <2>. QED
    BY <2>1, <2>2, <2>3 DEF RowsAgree, Exists
<1>3. OneHead'
  BY <1>1 DEF Rows, OneHead
<1>4. OneDeadLetter'
  BY DEF Rows, OneDeadLetter
<1>6. HeadExists'
  BY <1>1 DEF Rows, HeadExists
<1>5. RowsWellFormed'
  BY <1>1 DEF Rows, RowsWellFormed, Exists, NoJob
<1>. QED
  BY <1>2, <1>3, <1>4, <1>5, <1>6 DEF Rows

\* What RowsAgree and the types say about the ids rows refer to.
LEMMA References ==
  ASSUME TypeOK, Rows
  PROVE  /\ \A d \in DeadLetterIds : dead[d] # None =>
              dead[d] \in JobIds /\ jobs[dead[d]].state = "DEAD_LETTERED"
         /\ \A j \in JobIds : jobs[j].replayOf # None =>
              /\ jobs[j].replayOf \in DeadLetterIds
              /\ dead[jobs[j].replayOf] # None
              /\ jobs[dead[jobs[j].replayOf]].command = jobs[j].command
         /\ \A j \in JobIds : ~Exists(j) => jobs[j] = NoJob
BY DEF TypeOK, Rows, RowsAgree, RowsWellFormed

\* A job made for an event, or for the dead letter of its command's head, becomes
\* the command's head.
LEMMA NewJobKeepsRows ==
  ASSUME TypeOK, Rows,
         NEW c \in Commands, NEW j \in JobIds, NEW d \in DeadLetterIds \cup {None},
         NEW t \in Times \cup {0},
         ~Exists(j), jobs' = [jobs EXCEPT ![j] = Job(c, d, t)], dead' = dead,
         \A b \in Commands :
           outbox'[b].state = IF b = c THEN "dispatched" ELSE outbox[b].state,
         d = None => outbox[c].state # "dispatched",
         d # None => /\ dead[d] # None /\ Head(dead[d])
                     /\ jobs[dead[d]].command = c
                     /\ outbox[c].state = "dispatched"
  PROVE  Rows'
<1>. USE References
<1>1. /\ jobs'[j] = Job(c, d, t)
      /\ \A k \in JobIds \ {j} : jobs'[k] = jobs[k]
      /\ jobs[j] = NoJob /\ jobs[j].state = "absent" /\ jobs[j].replayOf = None
      /\ jobs'[j].state = "PENDING" /\ jobs'[j].command = c /\ jobs'[j].replayOf = d
  BY DEF TypeOK, Job, NoJob
<1>2. \A e \in DeadLetterIds : dead[e] # j
  BY <1>1, NoneIsNothing
<1>3. \A k \in JobIds \ {j} :
        /\ Exists(k)' <=> Exists(k)
        /\ Head(k)' <=> Head(k) /\ (d = None \/ k # dead[d])
  BY <1>1, NoneIsNothing DEF Head, Exists
<1>4. Exists(j)' /\ Head(j)'
  <2>1. \A k \in JobIds : jobs'[k].replayOf # None => dead[jobs'[k].replayOf] # j
    <3>1. ASSUME NEW k \in JobIds, jobs'[k].replayOf # None PROVE jobs'[k].replayOf \in DeadLetterIds
      BY <1>1, <3>1
    <3>. QED
      BY <3>1, <1>2
  <2>. QED
    BY <2>1, <1>1 DEF Head, Exists
<1>5. \A k \in JobIds : Exists(k) /\ jobs[k].command = c => d # None
  BY DEF Rows, RowsWellFormed
<1>6. RowsAgree'
  <2>1. \A b \in Commands :
          outbox'[b].state = "dispatched" <=>
            \E k \in JobIds : Exists(k)' /\ jobs'[k].command = b /\ jobs'[k].replayOf = None
    <3>. SUFFICES ASSUME NEW b \in Commands
                  PROVE  outbox'[b].state = "dispatched" <=>
                           \E k \in JobIds : Exists(k)' /\ jobs'[k].command = b /\ jobs'[k].replayOf = None
      OBVIOUS
    <3>1. outbox[b].state = "dispatched" <=>
            \E k \in JobIds \ {j} : Exists(k) /\ jobs[k].command = b /\ jobs[k].replayOf = None
      BY DEF Rows, RowsAgree
    <3>2. outbox[b].state = "dispatched" <=>
            \E k \in JobIds \ {j} : Exists(k)' /\ jobs'[k].command = b /\ jobs'[k].replayOf = None
      BY <3>1, <1>1, <1>3
    <3>. QED
      BY <3>2, <1>1, <1>4
  <2>2. ASSUME NEW e \in DeadLetterIds, dead'[e] # None
        PROVE  jobs'[dead'[e]].state = "DEAD_LETTERED"
    BY <2>2, <1>1, <1>2
  <2>3. ASSUME NEW k \in JobIds, jobs'[k].replayOf # None
        PROVE  dead[jobs'[k].replayOf] # None /\ jobs'[dead[jobs'[k].replayOf]].command = jobs'[k].command
    <3>1. CASE k = j
      BY <3>1, <2>3, <1>1, <1>2
    <3>2. CASE k # j
      BY <3>2, <2>3, <1>1, <1>2
    <3>. QED
      BY <3>1, <3>2
  <2>4. \A e \in DeadLetterIds : dead'[e] # None => jobs'[dead'[e]].state = "DEAD_LETTERED"
    BY <2>2
  <2>5. \A k \in JobIds : jobs'[k].replayOf # None =>
          dead'[jobs'[k].replayOf] # None /\ jobs'[dead'[jobs'[k].replayOf]].command = jobs'[k].command
    BY <2>3
  <2>. QED
    BY <2>1, <2>4, <2>5 DEF RowsAgree, Exists
<1>7. OneHead'
  <2>1. ASSUME NEW k \in JobIds \ {j}, Head(k)', jobs'[k].command = c PROVE FALSE
    <3>1. Head(k) /\ Exists(k) /\ jobs[k].command = c /\ (d = None \/ k # dead[d])
      BY <2>1, <1>1, <1>3 DEF Head
    <3>2. d # None /\ dead[d] \in JobIds
      BY <3>1, <1>5
    <3>. QED
      BY <3>1, <3>2 DEF Rows, OneHead
  <2>2. ASSUME NEW k \in JobIds \ {j}, NEW l \in JobIds \ {j}, Head(k)', Head(l)',
               jobs'[k].command = jobs'[l].command
        PROVE  k = l
    BY <2>2, <1>1, <1>3 DEF Rows, OneHead
  <2>. QED
    BY <2>1, <2>2, <1>1 DEF OneHead
<1>8. HeadExists'
  <2>. SUFFICES ASSUME NEW b \in Commands, outbox'[b].state = "dispatched"
                PROVE  \E k \in JobIds : Head(k)' /\ jobs'[k].command = b
    BY DEF HeadExists
  <2>1. CASE b = c
    BY <2>1, <1>1, <1>4
  <2>2. CASE b # c
    <3>1. PICK k \in JobIds : Head(k) /\ jobs[k].command = b
      BY <2>2 DEF Rows, HeadExists
    <3>2. k # j
      BY <3>1 DEF Head
    <3>. QED
      BY <3>1, <3>2, <2>2, <1>1, <1>3
  <2>. QED
    BY <2>1, <2>2
<1>9. OneDeadLetter'
  BY <1>1 DEF Rows, OneDeadLetter
<1>10. RowsWellFormed'
  BY <1>1, <1>3, <1>4 DEF Rows, RowsWellFormed
<1>. QED
  BY <1>6, <1>7, <1>8, <1>9, <1>10 DEF Rows

\* A dead letter for a job that was alive: the job stays its command's head.
LEMMA BurialKeepsRows ==
  ASSUME TypeOK, Rows, NEW p \in Processes, NEW d \in DeadLetterIds, DeadLetter(p, d)
  PROVE  Rows'
<1>. USE References
<1>1. PICK j \in JobIds : /\ j = token[p].job
                        /\ jobs[j].state = "LEASED"
                        /\ jobs' = [jobs EXCEPT ![j].state = "DEAD_LETTERED"]
                        /\ dead' = [dead EXCEPT ![d] = j]
  BY BuryEffect
<1>2. /\ jobs[j].state = "LEASED" /\ dead[d] = None /\ outbox' = outbox
      /\ jobs' = [jobs EXCEPT ![j].state = "DEAD_LETTERED"]
      /\ dead' = [dead EXCEPT ![d] = j]
  BY <1>1 DEF DeadLetter
<1>3. /\ jobs'[j].state = "DEAD_LETTERED"
      /\ \A k \in JobIds : /\ jobs'[k].command = jobs[k].command
                           /\ jobs'[k].replayOf = jobs[k].replayOf
                           /\ k # j => jobs'[k] = jobs[k]
  <2>1. "DEAD_LETTERED" \in JobStates
    BY DEF JobStates
  <2>2. jobs' = [jobs EXCEPT ![j].state = "DEAD_LETTERED"]
    BY <1>2
  <2>3. /\ jobs'[j].state = "DEAD_LETTERED"
        /\ \A k \in JobIds : /\ jobs'[k].command = jobs[k].command
                             /\ jobs'[k].replayOf = jobs[k].replayOf
                             /\ jobs'[k].owner = jobs[k].owner
                             /\ jobs'[k].generation = jobs[k].generation
                             /\ k # j => jobs'[k] = jobs[k]
    BY ONLY TypeOK, j \in JobIds, <2>1, <2>2, StateUpdate
  <2>. QED
    BY <2>3
<1>4. dead'[d] = j /\ \A e \in DeadLetterIds \ {d} : dead'[e] = dead[e]
  BY <1>2 DEF TypeOK
<1>5. \A k \in JobIds : jobs[k].replayOf # d
  BY <1>2, NoneIsNothing
<1>6. \A k \in JobIds : (Exists(k)' <=> Exists(k)) /\ (Head(k)' <=> Head(k))
  <2>1. \A k \in JobIds : Exists(k)' <=> Exists(k)
    BY <1>2, <1>3 DEF Exists
  <2>2. \A k \in JobIds : jobs[k].replayOf # None => dead'[jobs[k].replayOf] = dead[jobs[k].replayOf]
    BY <1>4, <1>5
  <2>. QED
    BY <2>1, <2>2, <1>3 DEF Head
<1>7. \A e \in DeadLetterIds : dead[e] # j
  BY <1>2, NoneIsNothing
<1>8. RowsAgree'
  <2>1. \A c \in Commands :
          outbox'[c].state = "dispatched" <=>
            \E k \in JobIds : Exists(k)' /\ jobs'[k].command = c /\ jobs'[k].replayOf = None
    BY <1>2, <1>3, <1>6 DEF Rows, RowsAgree
  <2>2. \A e \in DeadLetterIds : dead'[e] # None => jobs'[dead'[e]].state = "DEAD_LETTERED"
    <3>. SUFFICES ASSUME NEW e \in DeadLetterIds, dead'[e] # None
                  PROVE  jobs'[dead'[e]].state = "DEAD_LETTERED"
      OBVIOUS
    <3>1. CASE e = d
      BY <3>1, <1>3, <1>4
    <3>2. CASE e # d
      BY <3>2, <1>3, <1>4, <1>7
    <3>. QED
      BY <3>1, <3>2
  <2>3. \A k \in JobIds : jobs'[k].replayOf # None =>
          dead'[jobs'[k].replayOf] # None /\ jobs'[dead'[jobs'[k].replayOf]].command = jobs'[k].command
    <3>. SUFFICES ASSUME NEW k \in JobIds, jobs[k].replayOf # None
                  PROVE  /\ dead'[jobs[k].replayOf] # None
                         /\ jobs'[dead'[jobs[k].replayOf]].command = jobs[k].command
      BY <1>3
    <3>1. jobs[k].replayOf \in DeadLetterIds \ {d}
      BY <1>5
    <3>. QED
      BY <3>1, <1>3, <1>4
  <2>. QED
    BY <2>1, <2>2, <2>3 DEF RowsAgree, Exists
<1>9. OneHead'
  BY <1>3, <1>6 DEF Rows, OneHead
<1>10. HeadExists'
  BY <1>2, <1>3, <1>6 DEF Rows, HeadExists
<1>11. OneDeadLetter'
  <2>1. \A e, f \in DeadLetterIds : dead'[e] # None /\ dead'[e] = dead'[f] => e = f
    BY <1>4, <1>7 DEF Rows, OneDeadLetter
  <2>2. \A k \in JobIds : jobs'[k].state = "DEAD_LETTERED" => \E e \in DeadLetterIds : dead'[e] = k
    <3>. SUFFICES ASSUME NEW k \in JobIds, jobs'[k].state = "DEAD_LETTERED"
                  PROVE  \E e \in DeadLetterIds : dead'[e] = k
      OBVIOUS
    <3>1. CASE k = j
      BY <3>1, <1>4
    <3>2. CASE k # j
      <4>1. PICK e \in DeadLetterIds : dead[e] = k
        BY <3>2, <1>3 DEF Rows, OneDeadLetter
      <4>2. e # d
        BY <4>1, <1>2, NoneIsNothing
      <4>. QED
        BY <4>1, <4>2, <1>4
    <3>. QED
      BY <3>1, <3>2
  <2>. QED
    BY <2>1, <2>2 DEF OneDeadLetter
<1>12. RowsWellFormed'
  BY <1>2, <1>3, <1>6 DEF Rows, RowsWellFormed, Exists
<1>. QED
  BY <1>8, <1>9, <1>10, <1>11, <1>12 DEF Rows

\* Tokens stay behind the generations of their jobs, and a claim hands out a new one.
LEMMA TokensStayDistinct ==
  ASSUME TypeOK, TypeOK', Rows, TokensAreDistinct, [Next]_vars
  PROVE  TokensAreDistinct'
<1>1. ASSUME UNCHANGED token, \A j \in JobIds : jobs[j].generation <= jobs'[j].generation
      PROVE  TokensAreDistinct'
  <2>. SUFFICES ASSUME NEW p \in Processes, NEW q \in Processes, token[p].job # None
                PROVE  /\ token[p].generation <= jobs'[token[p].job].generation
                       /\ token[p] = token[q] => p = q
    BY <1>1 DEF TokensAreDistinct
  <2>1. token[p].job \in JobIds /\ token[p].generation \in Nat
    BY DEF TypeOK
  <2>2. jobs[token[p].job].generation \in Nat /\ jobs'[token[p].job].generation \in Nat
    BY <2>1 DEF TypeOK
  <2>. QED
    BY <1>1, <2>1, <2>2 DEF TokensAreDistinct
<1>2. ASSUME NEW c \in Commands \cup {None}, NEW d \in DeadLetterIds \cup {None},
             NEW t \in Times \cup {0}, NEW j \in JobIds,
             ~Exists(j), jobs' = [jobs EXCEPT ![j] = Job(c, d, t)]
      PROVE  \A k \in JobIds : jobs[k].generation <= jobs'[k].generation
  <2>1. jobs[j].generation = 0 /\ jobs'[j].generation = 0
    BY <1>2 DEF TypeOK, Rows, RowsWellFormed, NoJob, Job
  <2>2. \A k \in JobIds : jobs[k].generation \in Nat
    BY DEF TypeOK
  <2>. QED
    BY <1>2, <2>1, <2>2 DEF TypeOK
<1>3. ASSUME NEW j \in JobIds, NEW s \in JobStates, jobs' = [jobs EXCEPT ![j].state = s]
      PROVE  \A k \in JobIds : jobs[k].generation <= jobs'[k].generation
  <2>1. \A k \in JobIds : jobs[k].generation \in Nat
    BY DEF TypeOK
  <2>. QED
    BY <1>3, <2>1, StateUpdate
<1>4. ASSUME UNCHANGED <<jobs, token>> PROVE TokensAreDistinct'
  BY <1>4 DEF TokensAreDistinct
<1>5. ASSUME NEW c \in Commands, NEW t \in Times, AppendOutbox(c, t) PROVE TokensAreDistinct'
  BY <1>5, <1>4 DEF AppendOutbox
<1>6. ASSUME NEW c \in Commands, NEW j \in JobIds, DispatchOutbox(c, j) PROVE TokensAreDistinct'
  <2>1. outbox[c].available \in Times \cup {0}
    BY DEF TypeOK
  <2>2. \A k \in JobIds : jobs[k].generation <= jobs'[k].generation
    BY <1>2, <1>6, <2>1 DEF DispatchOutbox
  <2>. QED
    BY <1>1, <1>6, <2>2 DEF DispatchOutbox
<1>7. ASSUME NEW j \in JobIds, NEW p \in Processes, NEW now \in Times, NEW e \in Times,
             ClaimJob(p, j, now, e)
      PROVE  TokensAreDistinct'
  <2>1. /\ jobs'[j].generation = jobs[j].generation + 1
        /\ \A k \in JobIds \ {j} : jobs'[k] = jobs[k]
    BY <1>7, LeaseTyped DEF TypeOK, ClaimJob, JobRows
  <2>2. /\ token'[p] = [job |-> j, generation |-> jobs[j].generation + 1]
        /\ \A q \in Processes \ {p} : token'[q] = token[q]
    BY <1>7, <2>1 DEF TypeOK, ClaimJob
  <2>3. \A k \in JobIds : jobs[k].generation \in Nat
    BY DEF TypeOK
  <2>4. \A q \in Processes : token[q].job \in JobIds \cup {None} /\ token[q].generation \in Nat
    BY DEF TypeOK
  <2>5. \A q \in Processes \ {p} : token'[q] # token'[p]
    <3>. SUFFICES ASSUME NEW q \in Processes \ {p}, token[q].job = j,
                         token[q].generation = jobs[j].generation + 1
                  PROVE  FALSE
      BY <2>2
    <3>1. token[q].generation <= jobs[j].generation
      BY NoneIsNothing DEF TokensAreDistinct
    <3>. QED
      BY <3>1, <2>3
  <2>6. \A q \in Processes : token'[q].job # None =>
          token'[q].generation <= jobs'[token'[q].job].generation
    <3>. SUFFICES ASSUME NEW q \in Processes, token'[q].job # None
                  PROVE  token'[q].generation <= jobs'[token'[q].job].generation
      OBVIOUS
    <3>1. CASE q = p
      BY <3>1, <2>1, <2>2, <2>3
    <3>2. CASE q # p
      <4>1. token[q].generation <= jobs[token[q].job].generation
        BY <3>2, <2>2 DEF TokensAreDistinct
      <4>. QED
        BY <4>1, <3>2, <2>1, <2>2, <2>3, <2>4
    <3>. QED
      BY <3>1, <3>2
  <2>7. ASSUME NEW q \in Processes, NEW r \in Processes, token'[q].job # None, token'[q] = token'[r]
        PROVE  q = r
    BY <2>7, <2>2, <2>5 DEF TokensAreDistinct
  <2>. QED
    BY <2>6, <2>7 DEF TokensAreDistinct
<1>8. ASSUME NEW j \in JobIds, Acknowledge(j) PROVE TokensAreDistinct'
  BY <1>8, <1>1, <1>3 DEF Acknowledge, JobStates
<1>9. ASSUME NEW p \in Processes, CommitResult(p) PROVE TokensAreDistinct'
  <2>1. PICK j \in JobIds : jobs' = [jobs EXCEPT ![j].state = "COMPLETED"]
    BY <1>9, CommitEffect
  <2>2. token' = token
    BY <1>9 DEF CommitResult
  <2>. QED
    BY <2>1, <2>2, <1>1, <1>3 DEF JobStates
<1>10. ASSUME NEW p \in Processes, NEW d \in DeadLetterIds, DeadLetter(p, d)
       PROVE  TokensAreDistinct'
  <2>1. PICK j \in JobIds : jobs' = [jobs EXCEPT ![j].state = "DEAD_LETTERED"]
    BY <1>10, BuryEffect
  <2>2. token' = token
    BY <1>10 DEF DeadLetter
  <2>. QED
    BY <2>1, <2>2, <1>1, <1>3 DEF JobStates
<1>11. ASSUME NEW d \in DeadLetterIds, NEW j \in JobIds, NEW t \in Times, ReplayDeadLetter(d, j, t)
       PROVE  TokensAreDistinct'
  <2>1. jobs[dead[d]].command \in Commands \cup {None}
    BY <1>11 DEF TypeOK, ReplayDeadLetter, Replayable
  <2>2. \A k \in JobIds : jobs[k].generation <= jobs'[k].generation
    BY <1>2, <1>11, <2>1 DEF ReplayDeadLetter
  <2>. QED
    BY <1>1, <1>11, <2>2 DEF ReplayDeadLetter
<1>12. ASSUME NEW p \in Processes, Forget(p) PROVE TokensAreDistinct'
  <2>1. \A q \in Processes : token'[q] = token[q] \/ token'[q].job = None
    BY <1>12 DEF TypeOK, Forget, NoToken
  <2>. QED
    BY <1>12, <2>1 DEF TypeOK, Forget, TokensAreDistinct
<1>13. CASE UNCHANGED vars
  BY <1>13, <1>4 DEF vars
<1>. QED
  BY <1>5, <1>6, <1>7, <1>8, <1>9, <1>10, <1>11, <1>12, <1>13 DEF Next, Claim

\* Every operation keeps the rows agreeing with each other.
LEMMA StepKeepsRows ==
  ASSUME TypeOK, Rows, [Next]_vars
  PROVE  Rows'
<1>. USE References
<1>1. ASSUME UNCHANGED <<outbox, jobs, dead>> PROVE Rows'
  BY <1>1 DEF Rows, RowsAgree, OneHead, HeadExists, OneDeadLetter, RowsWellFormed, Head, Exists
<1>2. ASSUME NEW c \in Commands, NEW t \in Times, AppendOutbox(c, t) PROVE Rows'
  <2>1. \A b \in Commands : outbox'[b].state = "dispatched" <=> outbox[b].state = "dispatched"
    BY <1>2 DEF TypeOK, AppendOutbox
  <2>2. jobs' = jobs /\ dead' = dead /\ \A j \in JobIds : Exists(j)' = Exists(j) /\ Head(j)' = Head(j)
    BY <1>2 DEF AppendOutbox, Head, Exists
  <2>. QED
    BY <2>1, <2>2 DEF Rows, RowsAgree, OneHead, HeadExists, OneDeadLetter, RowsWellFormed, Exists
<1>3. ASSUME NEW c \in Commands, NEW j \in JobIds, DispatchOutbox(c, j) PROVE Rows'
  <2>1. /\ outbox[c].available \in Times \cup {0}
        /\ \A b \in Commands :
             outbox'[b].state = IF b = c THEN "dispatched" ELSE outbox[b].state
    BY <1>3 DEF TypeOK, DispatchOutbox
  <2>. QED
    BY <1>3, <2>1, NewJobKeepsRows DEF DispatchOutbox, Undispatched
<1>4. ASSUME NEW j \in JobIds, NEW p \in Processes, NEW now \in Times, NEW e \in Times,
             ClaimJob(p, j, now, e)
      PROVE  Rows'
  <2>1. \A k \in JobIds \ {j} : jobs'[k] = jobs[k]
    BY <1>4 DEF TypeOK, ClaimJob
  <2>2. /\ jobs[j].state \in {"PENDING", "RETRY_SCHEDULED", "LEASED"}
        /\ jobs'[j].state = "LEASED"
        /\ jobs'[j].command = jobs[j].command
        /\ jobs'[j].replayOf = jobs[j].replayOf
    BY <1>4, LeaseTyped DEF TypeOK, ClaimJob, Claimable, JobRows
  <2>. QED
    BY <1>4, <2>1, <2>2, MovesKeepRows DEF ClaimJob
<1>5. ASSUME NEW j \in JobIds, Acknowledge(j) PROVE Rows'
  <2>1. /\ jobs'[j].state = "ACKNOWLEDGED"
        /\ \A k \in JobIds : /\ jobs'[k].command = jobs[k].command
                              /\ jobs'[k].replayOf = jobs[k].replayOf
                              /\ k # j => jobs'[k] = jobs[k]
    BY <1>5, StateUpdate DEF Acknowledge, JobStates
  <2>. QED
    BY <1>5, <2>1, MovesKeepRows DEF Acknowledge
<1>6. ASSUME NEW p \in Processes, CommitResult(p) PROVE Rows'
  <2>1. PICK j \in JobIds : /\ jobs[j].state = "LEASED"
                           /\ jobs' = [jobs EXCEPT ![j].state = "COMPLETED"]
    BY <1>6, CommitEffect
  <2>2. jobs[j].state = "LEASED" /\ jobs' = [jobs EXCEPT ![j].state = "COMPLETED"]
    BY <2>1
  <2>3. /\ jobs'[j].state = "COMPLETED"
        /\ \A k \in JobIds : /\ jobs'[k].command = jobs[k].command
                              /\ jobs'[k].replayOf = jobs[k].replayOf
                              /\ k # j => jobs'[k] = jobs[k]
    BY <2>2, StateUpdate DEF JobStates
  <2>. QED
    BY <1>6, <2>2, <2>3, MovesKeepRows DEF CommitResult
<1>7. ASSUME NEW p \in Processes, NEW d \in DeadLetterIds, DeadLetter(p, d) PROVE Rows'
  BY <1>7, BurialKeepsRows
<1>8. ASSUME NEW d \in DeadLetterIds, NEW j \in JobIds, NEW t \in Times, ReplayDeadLetter(d, j, t)
      PROVE  Rows'
  <2>1. dead[d] \in JobIds /\ jobs[dead[d]].state = "DEAD_LETTERED" /\ d # None
    BY <1>8, NoneIsNothing DEF ReplayDeadLetter, Replayable
  <2>2. PICK c \in Commands : c = jobs[dead[d]].command /\ outbox[c].state = "dispatched"
    BY <2>1 DEF Rows, RowsWellFormed, Exists
  <2>3. Head(dead[d])
    <3>. SUFFICES ASSUME NEW k \in JobIds, jobs[k].replayOf # None, dead[jobs[k].replayOf] = dead[d]
                  PROVE  FALSE
      BY <2>1 DEF Head, Exists
    <3>1. jobs[k].replayOf = d
      BY <2>1 DEF Rows, OneDeadLetter
    <3>. QED
      BY <1>8, <3>1 DEF ReplayDeadLetter, Replayable
  <2>4. /\ ~Exists(j) /\ dead' = dead /\ outbox' = outbox /\ dead[d] # None
        /\ jobs' = [jobs EXCEPT ![j] = Job(c, d, t)]
    BY <1>8, <2>2 DEF ReplayDeadLetter, Replayable
  <2>5. \A b \in Commands : outbox'[b].state = IF b = c THEN "dispatched" ELSE outbox[b].state
    BY <2>2, <2>4
  <2>. QED
    BY <2>1, <2>2, <2>3, <2>4, <2>5, NewJobKeepsRows
<1>9. ASSUME NEW p \in Processes, Forget(p) PROVE Rows'
  BY <1>9, <1>1 DEF Forget
<1>10. CASE UNCHANGED vars
  BY <1>10, <1>1 DEF vars
<1>. QED
  BY <1>2, <1>3, <1>4, <1>5, <1>6, <1>7, <1>8, <1>9, <1>10 DEF Next, Claim

\* The rows of the queue agree, every dispatched command has exactly one job at the
\* head of its replays, and no generation is handed out twice.
THEOREM QueueHolds == Spec => []Queue
<1>1. Init => Queue
  <2>. SUFFICES ASSUME Init PROVE Queue
    OBVIOUS
  <2>1. \A j \in JobIds : ~Exists(j) /\ ~Head(j) /\ jobs[j].replayOf = None
    BY DEF Init, Exists, Head, NoJob, Job
  <2>2. Rows
    BY <2>1 DEF Init, Rows, RowsAgree, OneHead, HeadExists, OneDeadLetter, RowsWellFormed, NoJob, Job
  <2>3. TokensAreDistinct
    BY DEF Init, TokensAreDistinct, NoToken
  <2>. QED
    BY <2>2, <2>3, QueueParts
<1>2. TypeOK /\ TypeOK' /\ Queue /\ [Next]_vars => Queue'
  <2>. SUFFICES ASSUME TypeOK, TypeOK', Queue, [Next]_vars PROVE Queue'
    OBVIOUS
  <2>1. Rows /\ TokensAreDistinct
    BY QueueParts
  <2>2. Rows'
    BY <2>1, StepKeepsRows
  <2>3. TokensAreDistinct'
    BY <2>1, TokensStayDistinct
  <2>. QED
    BY <2>2, <2>3 DEF Queue, Rows
<1>. QED
  BY <1>1, <1>2, TypeCorrect, PTL DEF Spec

\* Types and rows hold together in every reachable state.
THEOREM InvariantHolds == Spec => []Invariant
BY TypeCorrect, QueueHolds, PTL DEF Invariant

-----------------------------------------------------------------------------
(* What the invariant says of deliveries and commands. *)

\* At most one process can commit or bury a job.
THEOREM HolderIsAlone == Spec => []OneHolder
<1>1. TypeOK /\ Queue => OneHolder
  <2>. SUFFICES ASSUME TypeOK, Queue, NEW p \in Processes, NEW q \in Processes,
                       HoldsLease(p), HoldsLease(q), token[p].job = token[q].job
                PROVE  p = q
    BY DEF OneHolder
  <2>1. token[p].generation = token[q].generation /\ token[p].job # None
    BY DEF HoldsLease
  <2>2. token[p] = token[q]
    BY <2>1 DEF TypeOK
  <2>. QED
    BY <2>1, <2>2 DEF Queue, TokensAreDistinct
<1>. QED
  BY <1>1, TypeCorrect, QueueHolds, PTL

\* A job that is alive or done is the head of its command.
LEMMA OpenIsHead ==
  ASSUME TypeOK, Rows, NEW j \in JobIds, Open(j)
  PROVE  Head(j)
BY References, NoneIsNothing DEF Open, Head, Exists

\* However often a command is delivered, buried and replayed, it never has two
\* jobs that are alive or done.
THEOREM CommandStaysOne == Spec => []OneLogicalCommand
<1>1. TypeOK /\ Queue => OneLogicalCommand
  BY QueueParts, OpenIsHead DEF OneLogicalCommand, Rows, OneHead
<1>. QED
  BY <1>1, TypeCorrect, QueueHolds, PTL

\* A dispatched command is never lost between its job, a dead letter and a replay.
THEOREM CommandsSurvive == Spec => []NothingLost
<1>1. TypeOK /\ Queue => NothingLost
  <2>. SUFFICES ASSUME TypeOK, Rows, NEW c \in Commands, outbox[c].state = "dispatched"
                PROVE  \E j \in JobIds :
                         /\ jobs[j].command = c
                         /\ Open(j) \/ (\E d \in DeadLetterIds : dead[d] = j /\ Replayable(d))
    BY QueueParts DEF NothingLost
  <2>1. PICK j \in JobIds : Head(j) /\ jobs[j].command = c
    BY DEF Rows, HeadExists
  <2>2. CASE jobs[j].state = "DEAD_LETTERED"
    <3>1. PICK d \in DeadLetterIds : dead[d] = j
      BY <2>2 DEF Rows, OneDeadLetter
    <3>2. ~\E k \in JobIds : jobs[k].replayOf = d
      BY <2>1, <3>1, NoneIsNothing DEF Head
    <3>. QED
      BY <2>1, <3>1, <3>2, NoneIsNothing DEF Replayable
  <2>3. CASE jobs[j].state # "DEAD_LETTERED"
    BY <2>1, <2>3 DEF Head, Exists, Open
  <2>. QED
    BY <2>2, <2>3
<1>. QED
  BY <1>1, TypeCorrect, QueueHolds, PTL

\* A change of one state leaves every other row as it was.
LEMMA OnlyThatRow ==
  ASSUME TypeOK, NEW k \in JobIds, NEW s, jobs' = [jobs EXCEPT ![k].state = s],
         NEW j \in JobIds, jobs'[j] # jobs[j]
  PROVE  j = k
<1>1. jobs'[j] = IF j = k THEN [jobs[j] EXCEPT !.state = s] ELSE jobs[j]
  BY DEF TypeOK
<1>. QED
  BY <1>1

\* A delivery after the end changes nothing: a completed job can only be acknowledged,
\* an acknowledged or buried one never changes.
THEOREM EndsAreFinal == Spec => TerminalStays
<1>1. TypeOK /\ [Next]_vars =>
        \A j \in JobIds :
          /\ jobs[j].state = "COMPLETED" /\ jobs'[j] # jobs[j] => jobs'[j].state = "ACKNOWLEDGED"
          /\ jobs[j].state \in {"ACKNOWLEDGED", "DEAD_LETTERED"} => jobs'[j] = jobs[j]
  <2>. SUFFICES ASSUME TypeOK, [Next]_vars, NEW j \in JobIds, jobs'[j] # jobs[j]
                PROVE  /\ jobs[j].state = "COMPLETED" => jobs'[j].state = "ACKNOWLEDGED"
                       /\ jobs[j].state \notin {"ACKNOWLEDGED", "DEAD_LETTERED"}
    OBVIOUS
  <2>1. ASSUME NEW c \in Commands, NEW k \in JobIds, DispatchOutbox(c, k)
        PROVE  jobs[j].state = "absent"
    BY <2>1 DEF TypeOK, DispatchOutbox, Exists
  <2>2. ASSUME NEW k \in JobIds, NEW p \in Processes, NEW now \in Times, NEW e \in Times,
               ClaimJob(p, k, now, e)
        PROVE  jobs[j].state \in {"PENDING", "RETRY_SCHEDULED", "LEASED"}
    BY <2>2 DEF TypeOK, ClaimJob, Claimable
  <2>3. ASSUME NEW k \in JobIds, Acknowledge(k)
        PROVE  jobs[j].state = "COMPLETED" /\ jobs'[j].state = "ACKNOWLEDGED"
    <3>1. jobs[k].state = "COMPLETED" /\ jobs' = [jobs EXCEPT ![k].state = "ACKNOWLEDGED"]
      BY <2>3 DEF Acknowledge
    <3>2. jobs'[k].state = "ACKNOWLEDGED"
      BY <3>1, StateUpdate DEF JobStates
    <3>3. j = k
      BY <3>1, OnlyThatRow
    <3>. QED
      BY <3>1, <3>2, <3>3
  <2>4. ASSUME NEW p \in Processes, CommitResult(p) PROVE jobs[j].state = "LEASED"
    <3>1. PICK k \in JobIds : /\ jobs[k].state = "LEASED"
                             /\ jobs' = [jobs EXCEPT ![k].state = "COMPLETED"]
      BY <2>4, CommitEffect
    <3>3. j = k
      BY <3>1, OnlyThatRow
    <3>. QED
      BY <3>1, <3>3
  <2>5. ASSUME NEW p \in Processes, NEW d \in DeadLetterIds, DeadLetter(p, d)
        PROVE  jobs[j].state = "LEASED"
    <3>1. PICK k \in JobIds : /\ jobs[k].state = "LEASED"
                             /\ jobs' = [jobs EXCEPT ![k].state = "DEAD_LETTERED"]
      BY <2>5, BuryEffect
    <3>3. j = k
      BY <3>1, OnlyThatRow
    <3>. QED
      BY <3>1, <3>3
  <2>6. ASSUME NEW d \in DeadLetterIds, NEW k \in JobIds, NEW t \in Times, ReplayDeadLetter(d, k, t)
        PROVE  jobs[j].state = "absent"
    BY <2>6 DEF TypeOK, ReplayDeadLetter, Exists
  <2>7. CASE UNCHANGED jobs
    BY <2>7
  <2>. QED
    BY <2>1, <2>2, <2>3, <2>4, <2>5, <2>6, <2>7 DEF Next, Claim, vars, AppendOutbox, Forget
<1>. QED
  BY <1>1, TypeCorrect, PTL DEF Spec, TerminalStays

-----------------------------------------------------------------------------
(* The queue implements LogicalCommands. *)

Running == {"PENDING", "LEASED", "RETRY_SCHEDULED"}
Has(c, S) == \E j \in JobIds : jobs[j].command = c /\ jobs[j].state \in S

\* The status of a command, read off its jobs.
LEMMA StatusIs ==
  \A c \in Commands :
    /\ Has(c, Done) => Status(c) = "done"
    /\ ~Has(c, Done) /\ Has(c, Running) => Status(c) = "open"
    /\ ~Has(c, Done) /\ ~Has(c, Running) /\ Has(c, {"DEAD_LETTERED"}) => Status(c) = "parked"
    /\ ~Has(c, Done) /\ ~Has(c, Running) /\ ~Has(c, {"DEAD_LETTERED"}) => Status(c) = "new"
BY DEF Status, Has, Running, Done

\* The same, after a step.
LEMMA StatusIsNext ==
  \A c \in Commands :
    /\ Has(c, Done)' => Status(c)' = "done"
    /\ ~Has(c, Done)' /\ Has(c, Running)' => Status(c)' = "open"
    /\ ~Has(c, Done)' /\ ~Has(c, Running)' /\ Has(c, {"DEAD_LETTERED"})' => Status(c)' = "parked"
    /\ ~Has(c, Done)' /\ ~Has(c, Running)' /\ ~Has(c, {"DEAD_LETTERED"})' => Status(c)' = "new"
BY DEF Status, Has, Running, Done

\* A command whose jobs stay in the same classes keeps its status.
LEMMA SameStatus ==
  ASSUME NEW b \in Commands,
         Has(b, Done)' <=> Has(b, Done),
         Has(b, Running)' <=> Has(b, Running),
         Has(b, {"DEAD_LETTERED"})' <=> Has(b, {"DEAD_LETTERED"})
  PROVE  Status(b)' = Status(b)
BY StatusIs, StatusIsNext

\* A step that changes one job changes the status of its command only.
LEMMA OthersKeepStatus ==
  ASSUME NEW c \in Commands, NEW j \in JobIds,
         \A k \in JobIds \ {j} : jobs'[k] = jobs[k],
         jobs[j].command \in {c, None}, jobs'[j].command = c,
         NEW b \in Commands, b # c
  PROVE  Status(b)' = Status(b)
<1>1. ASSUME NEW S PROVE Has(b, S)' <=> Has(b, S)
  BY NoneIsNothing DEF Has
<1>. QED
  BY <1>1, SameStatus

\* Changing the status of one command is a Move of LogicalCommands.
LEMMA OneMove ==
  ASSUME NEW c \in Commands, NEW from, NEW to, Status(c) = from, Status(c)' = to,
         \A b \in Commands : b # c => Status(b)' = Status(b)
  PROVE  Logical!Move(c, from, to)
BY DEF Logical!Move

\* Every step of the queue moves at most one logical command, along LogicalCommands.
LEMMA StepsMoveCommands ==
  ASSUME TypeOK, TypeOK', Rows, Rows', OneLogicalCommand, OneLogicalCommand', [Next]_vars
  PROVE  Logical!Next \/ [c \in Commands |-> Status(c)]' = [c \in Commands |-> Status(c)]
<1>. USE References
<1>1. ASSUME \A b \in Commands : Status(b)' = Status(b)
      PROVE  [c \in Commands |-> Status(c)]' = [c \in Commands |-> Status(c)]
  BY <1>1
<1>2. ASSUME UNCHANGED jobs PROVE \A b \in Commands : Status(b)' = Status(b)
  BY <1>2 DEF Status
<1>3. ASSUME NEW c \in Commands, NEW j \in JobIds, DispatchOutbox(c, j) PROVE Logical!Next
  <2>1. /\ \A k \in JobIds \ {j} : jobs'[k] = jobs[k]
        /\ jobs[j].command = None /\ jobs'[j].command = c /\ jobs'[j].state = "PENDING"
    BY <1>3 DEF TypeOK, DispatchOutbox, Job, NoJob
  <2>2. \A k \in JobIds : jobs[k].command # c
    BY <1>3, NoneIsNothing DEF DispatchOutbox, Undispatched, Rows, RowsWellFormed, NoJob, Job
  <2>3. Status(c) = "new"
    BY <2>2, StatusIs DEF Has
  <2>4. Status(c)' = "open"
    BY <2>1, <2>2, StatusIsNext DEF Has, Done, Running
  <2>5. Logical!Move(c, "new", "open")
    BY <2>1, <2>3, <2>4, OthersKeepStatus, OneMove
  <2>. QED
    BY <2>5 DEF Logical!Next, Logical!Open
<1>4. ASSUME NEW j \in JobIds, NEW p \in Processes, NEW now \in Times, NEW e \in Times,
             ClaimJob(p, j, now, e)
      PROVE  \A b \in Commands : Status(b)' = Status(b)
  <2>1. /\ \A k \in JobIds \ {j} : jobs'[k] = jobs[k]
        /\ jobs[j].state \in Running /\ jobs'[j].state \in Running
        /\ jobs'[j].command = jobs[j].command
    BY <1>4, LeaseTyped DEF TypeOK, ClaimJob, Claimable, JobRows, Running
  <2>. QED
    BY <2>1, SameStatus DEF Has, Running, Done
<1>5. ASSUME NEW j \in JobIds, Acknowledge(j) PROVE \A b \in Commands : Status(b)' = Status(b)
  <2>1. /\ \A k \in JobIds \ {j} : jobs'[k] = jobs[k]
        /\ jobs[j].state \in Done /\ jobs'[j].state \in Done
        /\ jobs'[j].command = jobs[j].command
    BY <1>5, StateUpdate DEF Acknowledge, JobStates, Done
  <2>. QED
    BY <2>1, SameStatus DEF Has, Running, Done
<1>6. ASSUME NEW p \in Processes, CommitResult(p) PROVE Logical!Next
  <2>1. PICK j \in JobIds : /\ jobs[j].state = "LEASED"
                           /\ jobs' = [jobs EXCEPT ![j].state = "COMPLETED"]
    BY <1>6, CommitEffect
  <2>2. jobs[j].state = "LEASED" /\ jobs' = [jobs EXCEPT ![j].state = "COMPLETED"]
    BY <2>1
  <2>3. PICK c \in Commands : c = jobs[j].command
    BY <2>2 DEF Rows, RowsWellFormed, Exists
  <2>4. /\ jobs'[j].state = "COMPLETED" /\ jobs'[j].command = c
        /\ \A k \in JobIds \ {j} : jobs'[k] = jobs[k]
    <3>1. "COMPLETED" \in JobStates
      BY DEF JobStates
    <3>. QED
      BY <2>2, <2>3, <3>1, StateUpdate
  <2>5. ~Has(c, Done) /\ Has(c, Running)
    BY <2>2, <2>3 DEF OneLogicalCommand, Open, Has, Done, Running
  <2>6. Has(c, Done)'
    BY <2>4 DEF Has, Done
  <2>7. Logical!Move(c, "open", "done")
    BY <2>3, <2>4, <2>5, <2>6, StatusIs, StatusIsNext, OthersKeepStatus, OneMove
  <2>. QED
    BY <2>7 DEF Logical!Next, Logical!Finish
<1>7. ASSUME NEW p \in Processes, NEW d \in DeadLetterIds, DeadLetter(p, d) PROVE Logical!Next
  <2>1. PICK j \in JobIds : /\ jobs[j].state = "LEASED"
                           /\ jobs' = [jobs EXCEPT ![j].state = "DEAD_LETTERED"]
    BY <1>7, BuryEffect
  <2>2. jobs[j].state = "LEASED" /\ jobs' = [jobs EXCEPT ![j].state = "DEAD_LETTERED"]
    BY <2>1
  <2>3. PICK c \in Commands : c = jobs[j].command
    BY <2>2 DEF Rows, RowsWellFormed, Exists
  <2>4. /\ jobs'[j].state = "DEAD_LETTERED" /\ jobs'[j].command = c
        /\ \A k \in JobIds \ {j} : jobs'[k] = jobs[k]
    <3>1. "DEAD_LETTERED" \in JobStates
      BY DEF JobStates
    <3>. QED
      BY <2>2, <2>3, <3>1, StateUpdate
  <2>5. \A k \in JobIds \ {j} : jobs[k].command = c => ~Open(k)
    BY <2>2, <2>3 DEF OneLogicalCommand, Open
  <2>6. ~Has(c, Done) /\ Has(c, Running)
    BY <2>2, <2>3, <2>5 DEF Open, Has, Done, Running
  <2>7. ~Has(c, Done)' /\ ~Has(c, Running)' /\ Has(c, {"DEAD_LETTERED"})'
    BY <2>4, <2>5 DEF Open, Has, Done, Running
  <2>8. Logical!Move(c, "open", "parked")
    BY <2>3, <2>4, <2>6, <2>7, StatusIs, StatusIsNext, OthersKeepStatus, OneMove
  <2>. QED
    BY <2>8 DEF Logical!Next, Logical!Park
<1>8. ASSUME NEW d \in DeadLetterIds, NEW j \in JobIds, NEW t \in Times, ReplayDeadLetter(d, j, t)
      PROVE  Logical!Next
  <2>1. PICK k \in JobIds : k = dead[d] /\ jobs[k].state = "DEAD_LETTERED"
    BY <1>8 DEF ReplayDeadLetter, Replayable
  <2>2. PICK c \in Commands : c = jobs[k].command
    BY <2>1 DEF Rows, RowsWellFormed, Exists
  <2>3. /\ \A l \in JobIds \ {j} : jobs'[l] = jobs[l]
        /\ jobs[j].command = None /\ jobs[j].state = "absent"
        /\ jobs'[j].command = c /\ jobs'[j].state = "PENDING"
    BY <1>8, <2>1, <2>2 DEF TypeOK, ReplayDeadLetter, Job, NoJob
  <2>4. \A l \in JobIds : Open(l) /\ jobs[l].command = c => FALSE
    <3>1. Head(k)
      <4>. SUFFICES ASSUME NEW l \in JobIds, jobs[l].replayOf # None, dead[jobs[l].replayOf] = dead[d]
                    PROVE  FALSE
        BY <2>1 DEF Head, Exists
      <4>1. jobs[l].replayOf = d
        BY <1>8 DEF ReplayDeadLetter, Replayable, Rows, OneDeadLetter
      <4>. QED
        BY <1>8, <4>1 DEF ReplayDeadLetter, Replayable
    <3>2. \A l \in JobIds : Open(l) /\ jobs[l].command = c => l = k
      BY <3>1, <2>2, OpenIsHead DEF Rows, OneHead
    <3>. QED
      BY <3>2, <2>1 DEF Open
  <2>5. ~Has(c, Done) /\ ~Has(c, Running) /\ Has(c, {"DEAD_LETTERED"})
    BY <2>1, <2>2, <2>4 DEF Open, Has, Done, Running
  <2>6. ~Has(c, Done)' /\ Has(c, Running)'
    BY <2>3, <2>4 DEF Open, Has, Done, Running
  <2>7. Logical!Move(c, "parked", "open")
    BY <2>3, <2>5, <2>6, StatusIs, StatusIsNext, OthersKeepStatus, OneMove
  <2>. QED
    BY <2>7 DEF Logical!Next, Logical!Reopen
<1>9. CASE UNCHANGED jobs
  BY <1>9, <1>1, <1>2
<1>. QED
  BY <1>1, <1>3, <1>4, <1>5, <1>6, <1>7, <1>8, <1>9 DEF Next, Claim, vars, AppendOutbox, Forget

\* Whatever happens to its deliveries, a logical command is opened once, gets one
\* result, and is open again only after it was parked.
THEOREM CommandsImplemented == Spec => ImplementsLogicalCommands
<1>1. Init => Logical!Init
  BY NoneIsNothing DEF Init, Logical!Init, Status, NoJob, Job
<1>2. TypeOK /\ TypeOK' /\ Queue /\ Queue' /\ OneLogicalCommand /\ OneLogicalCommand'
        /\ [Next]_vars
      => [Logical!Next]_([c \in Commands |-> Status(c)])
  BY StepsMoveCommands DEF Queue, Rows
<1>. QED
  BY <1>1, <1>2, TypeCorrect, QueueHolds, CommandStaysOne, PTL
     DEF Spec, ImplementsLogicalCommands, Logical!Spec

=============================================================================
