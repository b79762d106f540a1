-------------------------- MODULE InMemoryDelivery --------------------------
(***************************************************************************)
(* InMemoryDeliveryStore, the queue the tests of packages/delivery and     *)
(* their scenarios run on. Its maps are kept in one process, so a call is  *)
(* one action, and a call that throws changes nothing.                     *)
(*                                                                         *)
(* A job's row is that of DeliveryQueue, with the event a job, or the      *)
(* chain of dead letters before a replay, began with in its `command`.     *)
(***************************************************************************)
EXTENDS Naturals

CONSTANTS
  Commands,       \* envelopes callers register: [id, organization, key]
  Events,         \* ids of outbox events
  Slots,          \* organization:task:target:slot
  JobIds, DeadLetterIds, Processes, WorkerIds, WorkerIdOf, Times,
  MaxGeneration,  \* bound: how often a job is leased
  None

VARIABLES
  commands,   \* the envelopes registered
  outbox,     \* events: of which command, when available, dispatched or not
  jobs,
  dead,       \* deadLetters: the job it is of, and replayJobId
  token,      \* the lease token a process remembers
  slots       \* scheduleSlots

vars == <<commands, outbox, jobs, dead, token, slots>>

NoEvent == [command |-> None, available |-> 0, dispatched |-> FALSE]
NoLetter == [job |-> None, replay |-> None]
NoToken == [job |-> None, generation |-> 0]
Job(e, d, t) ==
  [state |-> "PENDING", command |-> e, replayOf |-> d, available |-> t,
   owner |-> None, expires |-> 0, generation |-> 0]
NoJob == [Job(None, None, 0) EXCEPT !.state = "absent"]

Has(j) == jobs[j].state # "absent"

Init ==
  /\ commands = {}
  /\ outbox = [e \in Events |-> NoEvent]
  /\ jobs = [j \in JobIds |-> NoJob]
  /\ dead = [d \in DeadLetterIds |-> NoLetter]
  /\ token = [p \in Processes |-> NoToken]
  /\ slots = {}

-----------------------------------------------------------------------------
\* An organization's dedupe key is of one command, and a command of one envelope.
RegisterCommand(c) ==
  /\ \A k \in commands : k.organization = c.organization /\ k.key = c.key => k.id = c.id
  /\ \A k \in commands : k.id = c.id => k = c
  /\ commands' = commands \cup {c}
  /\ UNCHANGED <<outbox, jobs, dead, token, slots>>

AppendOutbox(e, id, organization, t) ==
  /\ \E c \in commands : c.id = id /\ c.organization = organization
  /\ outbox[e] = NoEvent
  /\ outbox' = [outbox EXCEPT ![e] = [command |-> id, available |-> t, dispatched |-> FALSE]]
  /\ UNCHANGED <<commands, jobs, dead, token, slots>>

\* jobsByEvent: an event has one job, whoever dispatches it again.
DispatchOutbox(e, j) ==
  /\ ~\E k \in JobIds : Has(k) /\ jobs[k].command = e /\ jobs[k].replayOf = None
  /\ ~Has(j)
  /\ outbox[e] # NoEvent
  /\ jobs' = [jobs EXCEPT ![j] = Job(e, None, outbox[e].available)]
  /\ outbox' = [outbox EXCEPT ![e].dispatched = TRUE]
  /\ UNCHANGED <<commands, dead, token, slots>>

BeginDelivery(p, j, now, expires) ==
  /\ token[p] = NoToken
  /\ jobs[j].state \in {"PENDING", "LEASED"}
  /\ jobs[j].state = "LEASED" => jobs[j].expires <= now
  /\ jobs[j].available <= now
  /\ jobs[j].generation < MaxGeneration
  /\ jobs' = [jobs EXCEPT ![j].state = "LEASED", ![j].owner = WorkerIdOf[p],
                          ![j].expires = expires, ![j].generation = @ + 1]
  /\ token' = [token EXCEPT ![p] = [job |-> j, generation |-> jobs[j].generation + 1]]
  /\ UNCHANGED <<commands, outbox, dead, slots>>

\* requireActiveLease
ActiveLease(p) ==
  /\ token[p].job # None
  /\ jobs[token[p].job].state = "LEASED"
  /\ jobs[token[p].job].owner = WorkerIdOf[p]
  /\ jobs[token[p].job].generation = token[p].generation

CommitResult(p) ==
  /\ ActiveLease(p)
  /\ jobs' = [jobs EXCEPT ![token[p].job].state = "COMPLETED"]
  /\ UNCHANGED <<commands, outbox, dead, token, slots>>

Acknowledge(j) ==
  /\ jobs[j].state = "COMPLETED"
  /\ jobs' = [jobs EXCEPT ![j].state = "ACKNOWLEDGED"]
  /\ UNCHANGED <<commands, outbox, dead, token, slots>>

DeadLetter(p, d) ==
  /\ ActiveLease(p) /\ dead[d] = NoLetter
  /\ jobs' = [jobs EXCEPT ![token[p].job].state = "DEAD_LETTERED"]
  /\ dead' = [dead EXCEPT ![d].job = token[p].job]
  /\ UNCHANGED <<commands, outbox, token, slots>>

\* A dead letter that was replayed answers with the job it has.
ReplayDeadLetter(d, j, t) ==
  /\ dead[d] # NoLetter /\ dead[d].replay = None
  /\ ~Has(j)
  /\ jobs' = [jobs EXCEPT ![j] = Job(jobs[dead[d].job].command, d, t)]
  /\ dead' = [dead EXCEPT ![d].replay = j]
  /\ UNCHANGED <<commands, outbox, token, slots>>

\* materializeSchedule: an identity seen before is a duplicate.
MaterializeSchedule(s) ==
  /\ slots' = slots \cup {s}
  /\ UNCHANGED <<commands, outbox, jobs, dead, token>>

\* A caller drops the token it holds.
Forget(p) ==
  /\ token[p] # NoToken
  /\ token' = [token EXCEPT ![p] = NoToken]
  /\ UNCHANGED <<commands, outbox, jobs, dead, slots>>

Next ==
  \/ \E c \in Commands : RegisterCommand(c)
  \/ \E s \in Slots : MaterializeSchedule(s)
  \/ \E e \in Events, c \in Commands, o \in {k.organization : k \in Commands}, t \in Times :
       AppendOutbox(e, c.id, o, t)
  \/ \E e \in Events, j \in JobIds : DispatchOutbox(e, j)
  \/ \E p \in Processes, j \in JobIds, now, expires \in Times : BeginDelivery(p, j, now, expires)
  \/ \E p \in Processes, d \in DeadLetterIds : DeadLetter(p, d)
  \/ \E p \in Processes : CommitResult(p) \/ Forget(p)
  \/ \E j \in JobIds : Acknowledge(j)
  \/ \E d \in DeadLetterIds, j \in JobIds, t \in Times : ReplayDeadLetter(d, j, t)

Spec == Init /\ [][Next]_vars

-----------------------------------------------------------------------------
\* The outbox and the dead letters as the tables have them: an event is waiting or
\* dispatched, and a dead letter's replay is found through its job. No row is parsed.
Queue == INSTANCE DeliveryQueue WITH
           Commands <- Events, Int8AsNumber <- TRUE,
           outbox <- [e \in Events |->
                        [state |-> IF outbox[e] = NoEvent THEN "absent"
                                   ELSE IF outbox[e].dispatched THEN "dispatched" ELSE "waiting",
                         available |-> outbox[e].available]],
           dead <- [d \in DeadLetterIds |-> dead[d].job]

\* Ids are strings, and a command has one.
MemoryAssumption == Queue!DeliveryAssumption /\ \A c \in Commands : c.id # None

\* The types are those of the queue, and an event is of a command that was registered in
\* the one organization that has its dedupe key.
TypeOK ==
  /\ Queue!TypeOK /\ slots \subseteq Slots
  /\ \A e \in Events : outbox[e] # NoEvent => \E c \in commands : c.id = outbox[e].command
  /\ \A c, k \in commands : c.organization = k.organization /\ c.key = k.key => c = k

\* What the tests show of this store, the PostgreSQL queue may do: every step here is a
\* step of DeliveryQueue, or none.
ImplementsQueue == Queue!Spec
=============================================================================
