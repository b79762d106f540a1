--------------------------- MODULE DeliveryQueue ---------------------------
(***************************************************************************)
(* The PostgreSQL queue of packages/delivery: an outbox event becomes one  *)
(* job, processes lease jobs under a fencing generation, a result is       *)
(* committed under the current generation and acknowledged afterwards, and *)
(* a job that cannot be done is dead-lettered and may be replayed.         *)
(*                                                                         *)
(* Every operation of the repository is one transaction whose row locks    *)
(* serialise it with the others, so each is one action. The clock readings *)
(* of an operation are the caller's and are arbitrary here: processes need *)
(* not agree on the time. An event stands for the command it carries.      *)
(***************************************************************************)
EXTENDS Naturals

CONSTANTS
  Commands,       \* commands, each with its outbox event
  JobIds, DeadLetterIds,
  Processes,      \* processes that lease jobs
  WorkerIds, WorkerIdOf,  \* the worker id a process was started with
  Times,          \* the clock readings
  Int8AsNumber,   \* does the driver give a bigint column as a number
  MaxGeneration,  \* bound: how often a job is leased
  None

ASSUME DeliveryAssumption ==
  /\ WorkerIdOf \in [Processes -> WorkerIds]
  /\ Times \subseteq Nat
  /\ MaxGeneration \in Nat
  /\ Int8AsNumber \in BOOLEAN
  /\ None \notin Commands \cup JobIds \cup DeadLetterIds \cup WorkerIds

VARIABLES
  outbox,   \* outbox_events, by command
  jobs,     \* queue_jobs
  dead,     \* dead_letter_jobs: the source job of each dead letter
  token     \* the lease token a process remembers, current or not

vars == <<outbox, jobs, dead, token>>

JobStates ==
  {"PENDING", "LEASED", "COMPLETED", "ACKNOWLEDGED", "RETRY_SCHEDULED", "DEAD_LETTERED"}
Done == {"COMPLETED", "ACKNOWLEDGED"}

\* A row of queue_jobs: of one command, made for its event (replayOf = None)
\* or for a dead letter.
Job(c, d, t) ==
  [state |-> "PENDING", command |-> c, replayOf |-> d, available |-> t,
   owner |-> None, expires |-> 0, generation |-> 0]

NoJob == [Job(None, None, 0) EXCEPT !.state = "absent"]
NoToken == [job |-> None, generation |-> 0]

Exists(j) == jobs[j].state # "absent"
Open(j) == jobs[j].state \notin {"absent", "DEAD_LETTERED"}

TypeOK ==
  /\ outbox \in [Commands -> [state : {"absent", "waiting", "dispatched"},
                              available : Times \cup {0}]]
  /\ jobs \in [JobIds -> [state : JobStates \cup {"absent"},
                          command : Commands \cup {None},
                          replayOf : DeadLetterIds \cup {None},
                          available : Times \cup {0},
                          owner : WorkerIds \cup {None},
                          expires : Times \cup {0},
                          generation : Nat]]
  /\ dead \in [DeadLetterIds -> JobIds \cup {None}]
  /\ token \in [Processes -> [job : JobIds \cup {None}, generation : Nat]]
  /\ \A j \in JobIds : jobs[j].state = "LEASED" => jobs[j].owner # None  \* a CHECK

Init ==
  /\ outbox = [c \in Commands |-> [state |-> "absent", available |-> 0]]
  /\ jobs = [j \in JobIds |-> NoJob]
  /\ dead = [d \in DeadLetterIds |-> None]
  /\ token = [p \in Processes |-> NoToken]

-----------------------------------------------------------------------------
\* commandInsert and outboxInsert of the callback handoff, in the transaction
\* that accepts the command: a second event for its dedupe key is refused.
AppendOutbox(c, t) ==
  /\ outbox[c].state = "absent"
  /\ outbox' = [outbox EXCEPT ![c] = [state |-> "waiting", available |-> t]]
  /\ UNCHANGED <<jobs, dead, token>>

\* onlyJob maps the row of the job before its transaction ends. requiredNumber refuses a
\* fencing_generation that is not a number: where the driver gives a string, as
\* node-postgres does, it throws, and the transaction is undone.
JobIsRead == Int8AsNumber

\* Mutant: the event is not locked while undispatched and queue_jobs has no
\* unique outbox_event_id.
AnyEvent(c) == outbox[c].state # "absent"

\* SELECT ... WHERE dispatched_at IS NULL FOR UPDATE, and ON CONFLICT
\* (outbox_event_id): a second dispatch finds the first one's job.
Undispatched(c) ==
  /\ outbox[c].state = "waiting"
  /\ ~\E j \in JobIds : Exists(j) /\ jobs[j].command = c /\ jobs[j].replayOf = None

\* The new job id must be unused (the primary key).
DispatchOutbox(c, j) ==
  /\ Undispatched(c)
  /\ ~Exists(j)
  /\ JobIsRead
  /\ jobs' = [jobs EXCEPT ![j] = Job(c, None, outbox[c].available)]
  /\ outbox' = [outbox EXCEPT ![c].state = "dispatched"]
  /\ UNCHANGED <<dead, token>>

\* Mutant: anything that is not yet acknowledged can be claimed.
ClaimableUntilAcked(j, now) ==
  /\ jobs[j].available <= now
  /\ jobs[j].state \in {"PENDING", "RETRY_SCHEDULED", "LEASED", "COMPLETED"}

Claimable(j, now) ==
  /\ jobs[j].available <= now
  /\ \/ jobs[j].state \in {"PENDING", "RETRY_SCHEDULED"}
     \/ jobs[j].state = "LEASED" /\ jobs[j].expires <= now

\* Mutant: the lease does not say whose it is.
LeaseUnowned(j, p, expires) ==
  [jobs[j] EXCEPT !.state = "LEASED", !.expires = expires, !.generation = @ + 1]

Lease(j, p, expires) ==
  [jobs[j] EXCEPT !.state = "LEASED", !.owner = WorkerIdOf[p], !.expires = expires,
                  !.generation = @ + 1]

\* claimJob: both readings come from the process that claims.
ClaimJob(p, j, now, expires) ==
  /\ token[p] = NoToken
  /\ Claimable(j, now)
  /\ jobs[j].generation < MaxGeneration
  /\ JobIsRead
  /\ jobs' = [jobs EXCEPT ![j] = Lease(j, p, expires)]
  /\ token' = [token EXCEPT ![p] = [job |-> j, generation |-> jobs'[j].generation]]
  /\ UNCHANGED <<outbox, dead>>

\* Mutant: the update is fenced by the owner alone.
HoldsByOwner(p) ==
  /\ token[p].job # None
  /\ jobs[token[p].job].state = "LEASED"
  /\ jobs[token[p].job].owner = WorkerIdOf[p]

\* WHERE state = 'LEASED' AND lease_owner AND fencing_generation: the expiry of
\* the lease is not asked.
HoldsLease(p) ==
  /\ token[p].job # None
  /\ jobs[token[p].job].state = "LEASED"
  /\ jobs[token[p].job].owner = WorkerIdOf[p]
  /\ jobs[token[p].job].generation = token[p].generation

\* commitResult; a stale token throws and changes nothing.
CommitResult(p) ==
  /\ HoldsLease(p)
  /\ JobIsRead
  /\ jobs' = [jobs EXCEPT ![token[p].job].state = "COMPLETED"]
  /\ UNCHANGED <<outbox, dead, token>>

\* acknowledge names the job only: whoever delivers it again can do it.
Acknowledge(j) ==
  /\ jobs[j].state = "COMPLETED"
  /\ JobIsRead
  /\ jobs' = [jobs EXCEPT ![j].state = "ACKNOWLEDGED"]
  /\ UNCHANGED <<outbox, dead, token>>

\* Mutant: the dead letter is not written with the job.
DeadLetterUnrecorded(p, d) ==
  /\ HoldsLease(p)
  /\ dead[d] = None
  /\ JobIsRead
  /\ jobs' = [jobs EXCEPT ![token[p].job].state = "DEAD_LETTERED"]
  /\ UNCHANGED <<outbox, dead, token>>

\* deadLetter: fenced like a commit; the dead letter's id must be unused.
DeadLetter(p, d) ==
  /\ HoldsLease(p)
  /\ dead[d] = None
  /\ JobIsRead
  /\ jobs' = [jobs EXCEPT ![token[p].job].state = "DEAD_LETTERED"]
  /\ dead' = [dead EXCEPT ![d] = token[p].job]
  /\ UNCHANGED <<outbox, token>>

\* Mutant: every replay makes a job.
ReplayableAgain(d) == dead[d] # None

\* The dead letter is locked, and a job that replays it already is returned.
Replayable(d) ==
  /\ dead[d] # None
  /\ ~\E j \in JobIds : jobs[j].replayOf = d

ReplayDeadLetter(d, j, t) ==
  /\ Replayable(d)
  /\ ~Exists(j)
  /\ JobIsRead
  /\ jobs' = [jobs EXCEPT ![j] = Job(jobs[dead[d]].command, d, t)]
  /\ UNCHANGED <<outbox, dead, token>>

\* A process moves on, or it dies or gives up a job without telling the queue.
Forget(p) ==
  /\ token[p] # NoToken
  /\ token' = [token EXCEPT ![p] = NoToken]
  /\ UNCHANGED <<outbox, jobs, dead>>

Claim(j) == \E p \in Processes, now, expires \in Times : ClaimJob(p, j, now, expires)

Next ==
  \/ \E c \in Commands, t \in Times : AppendOutbox(c, t)
  \/ \E c \in Commands, j \in JobIds : DispatchOutbox(c, j)
  \/ \E j \in JobIds : Claim(j) \/ Acknowledge(j)
  \/ \E p \in Processes : CommitResult(p) \/ Forget(p)
  \/ \E p \in Processes, d \in DeadLetterIds : DeadLetter(p, d)
  \/ \E d \in DeadLetterIds, j \in JobIds, t \in Times : ReplayDeadLetter(d, j, t)

Spec == Init /\ [][Next]_vars

-----------------------------------------------------------------------------
(* Properties *)

\* At most one process can still commit or dead-letter a job, though processes
\* may share a worker id, disagree on the time and keep stale tokens: every
\* other delivery of the job is fenced off (fencing_generation).
OneHolder ==
  \A p, q \in Processes :
    HoldsLease(p) /\ HoldsLease(q) /\ token[p].job = token[q].job => p = q

\* Duplicate scans, expired leases, dead letters and replays leave one logical
\* command: never two jobs of it that are alive or done.
OneLogicalCommand ==
  \A j, k \in JobIds :
    Open(j) /\ Open(k) /\ jobs[j].command = jobs[k].command => j = k

\* An event is marked dispatched exactly when its job exists, and a dead letter
\* is about a job that is dead and of the command its replay carries.
RowsAgree ==
  /\ \A c \in Commands :
       outbox[c].state = "dispatched" <=>
         \E j \in JobIds : Exists(j) /\ jobs[j].command = c /\ jobs[j].replayOf = None
  /\ \A d \in DeadLetterIds : dead[d] # None => jobs[dead[d]].state = "DEAD_LETTERED"
  /\ \A j \in JobIds : jobs[j].replayOf # None =>
       /\ dead[jobs[j].replayOf] # None
       /\ jobs[dead[jobs[j].replayOf]].command = jobs[j].command

\* No job is lost: a dispatched command has a job that is alive, done, or dead
\* with a dead letter an operator can still replay.
NothingLost ==
  \A c \in Commands : outbox[c].state = "dispatched" =>
    \E j \in JobIds :
      /\ jobs[j].command = c
      /\ Open(j) \/ (\E d \in DeadLetterIds : dead[d] = j /\ Replayable(d))

\* A job that was done or given up is never run again: COMPLETED only becomes
\* ACKNOWLEDGED, and the other two do not change (terminal_noop of claimJob).
TerminalStays ==
  [][\A j \in JobIds :
       /\ jobs[j].state = "COMPLETED" /\ jobs'[j] # jobs[j] => jobs'[j].state = "ACKNOWLEDGED"
       /\ jobs[j].state \in {"ACKNOWLEDGED", "DEAD_LETTERED"} => jobs'[j] = jobs[j]]_vars

-----------------------------------------------------------------------------
(* The inductive invariant of the proofs in DeliveryQueueProofs. *)

\* The job no replay continues: the head of its command's chain of replays.
Head(j) ==
  /\ Exists(j)
  /\ ~\E k \in JobIds : jobs[k].replayOf # None /\ dead[jobs[k].replayOf] = j

OneHead ==
  \A j, k \in JobIds : Head(j) /\ Head(k) /\ jobs[j].command = jobs[k].command => j = k

HeadExists ==
  \A c \in Commands : outbox[c].state = "dispatched" =>
    \E j \in JobIds : Head(j) /\ jobs[j].command = c

OneDeadLetter ==
  /\ \A d, e \in DeadLetterIds : dead[d] # None /\ dead[d] = dead[e] => d = e
  /\ \A j \in JobIds : jobs[j].state = "DEAD_LETTERED" => \E d \in DeadLetterIds : dead[d] = j

RowsWellFormed ==
  \A j \in JobIds :
    /\ ~Exists(j) => jobs[j] = NoJob
    /\ Exists(j) => jobs[j].command \in Commands /\ outbox[jobs[j].command].state = "dispatched"

\* A generation is handed out once for each job.
TokensAreDistinct ==
  \A p, q \in Processes : token[p].job # None =>
    /\ token[p].generation <= jobs[token[p].job].generation
    /\ token[p] = token[q] => p = q

Queue ==
  /\ RowsAgree
  /\ OneHead
  /\ HeadExists
  /\ OneDeadLetter
  /\ RowsWellFormed
  /\ TokensAreDistinct

\* In every state outbox, jobs, dead letters and the leases workers believe in agree.
Invariant == TypeOK /\ Queue

-----------------------------------------------------------------------------
\* The status of a command, from its jobs.
Status(c) ==
  LET OfCommand(S) == \E j \in JobIds : jobs[j].command = c /\ jobs[j].state \in S IN
    IF OfCommand(Done) THEN "done"
    ELSE IF OfCommand({"PENDING", "LEASED", "RETRY_SCHEDULED"}) THEN "open"
    ELSE IF OfCommand({"DEAD_LETTERED"}) THEN "parked"
    ELSE "new"

Logical == INSTANCE LogicalCommands WITH status <- [c \in Commands |-> Status(c)]

\* The queue, with all its deliveries, implements LogicalCommands.
ImplementsLogicalCommands == Logical!Spec

=============================================================================
