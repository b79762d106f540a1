-------------------------- MODULE WebRuntimeProofs --------------------------
(***************************************************************************)
(* Theorems about WebRuntime for every value of its constants: whatever    *)
(* one part promises alone it promises beside the others, since a step of  *)
(* the parts together is a step of one of them and leaves the others as    *)
(* they are. GuardProofs and ReadsProofs prove most parts; here are the    *)
(* schedule slots, the queue kept in memory and the executor.              *)
(***************************************************************************)
EXTENDS GuardProofs, ReadsProofs, OAuthExchangeProofs, TLAPS

-----------------------------------------------------------------------------
(* The schedule slots. *)

\* The calls that hold the lock of their slot.
Holds(p) == tCalls[p].phase \in {"inserted", "taken", "found"}

\* A call knows what it has seen of its slot, which nobody else can change.
CallIsSound(p) ==
  LET c == tCalls[p] IN
  /\ c.phase # "idle" => c.slot \in Slots
  /\ c.phase \in {"called", "inserted"} => c.trigger \in TriggerIds
  /\ c.phase = "inserted" => tRows[c.slot] = None /\ \A s \in Slots : tRows[s] # c.trigger
  /\ c.phase = "taken" => tRows[c.slot] # None
  /\ c.phase = "found" => tRows[c.slot] = c.trigger /\ c.trigger \in TriggerIds

\* One call holds a slot, and no id is inserted by two.
CallsAreApart ==
  \A p, q \in Schedulers : Holds(p) /\ Holds(q) =>
    \/ p = q
    \/ /\ tCalls[p].slot # tCalls[q].slot
       /\ tCalls[p].phase = "inserted" /\ tCalls[q].phase = "inserted"
            => tCalls[p].trigger # tCalls[q].trigger

\* What a call answered is the row of its slot.
AnswersAreRows == \A a \in tAnswers : tRows[a.slot] = a.trigger
\* No trigger is the row of two slots.
TriggersAreApart == \A s, r \in Slots : tRows[s] # None /\ tRows[s] = tRows[r] => s = r

\* The inductive invariant of the slots.
SlotsInv ==
  /\ T!TypeOK
  /\ \A p \in Schedulers : CallIsSound(p)
  /\ CallsAreApart /\ AnswersAreRows /\ TriggersAreApart

\* A step that leaves the rows alone and changes one call, to one that is sound and
\* apart from the others, keeps the invariant.
LEMMA CallMoves ==
  ASSUME SlotsInv, NEW p \in Schedulers, NEW c \in [phase : {"idle", "called", "inserted",
             "taken", "found"},
                               slot : Slots \cup {None}, trigger : TriggerIds \cup {None}],
         UNCHANGED <<tRows, tAnswers>>, tCalls' = [tCalls EXCEPT ![p] = c],
         CallIsSound(p)',
         c.phase \in {"inserted", "taken", "found"} =>
           \A q \in Schedulers \ {p} : Holds(q) =>
             /\ tCalls[q].slot # c.slot
             /\ c.phase = "inserted" /\ tCalls[q].phase = "inserted"
                    => tCalls[q].trigger # c.trigger
  PROVE  SlotsInv'
<1>1. tCalls'[p] = c /\ \A q \in Schedulers \ {p} : tCalls'[q] = tCalls[q]
  BY DEF SlotsInv, T!TypeOK
<1>2. T!TypeOK'
  BY DEF SlotsInv, T!TypeOK
<1>3. \A q \in Schedulers : CallIsSound(q)'
  BY <1>1 DEF SlotsInv, CallIsSound
<1>4. CallsAreApart'
  BY <1>1 DEF SlotsInv, CallsAreApart, Holds
<1>5. AnswersAreRows' /\ TriggersAreApart'
  BY DEF SlotsInv, AnswersAreRows, TriggersAreApart
<1>. QED
  BY <1>2, <1>3, <1>4, <1>5 DEF SlotsInv

\* The inductive step: a call inserts its row, finds another there, or fails at an id that
\* is taken, each under the lock of its slot.
LEMMA SlotsStep ==
  ASSUME SlotsInv, [T!Next]_(T!vars)
  PROVE  SlotsInv'
<1>. USE PartsAssumption DEF T!SlotsAssumption
<1>0. T!TypeOK /\ T!NoCall \in [phase : {"idle", "called", "inserted", "taken", "found"},
                               slot : Slots \cup {None}, trigger : TriggerIds \cup {None}]
  BY DEF SlotsInv, T!NoCall
<1>1. ASSUME NEW p \in Schedulers, NEW s \in Slots, NEW t \in TriggerIds, T!Call(p, s, t)
      PROVE  SlotsInv'
  <2>. DEFINE c == [phase |-> "called", slot |-> s, trigger |-> t]
  <2>1. tCalls' = [tCalls EXCEPT ![p] = c] /\ UNCHANGED <<tRows, tAnswers>>
    BY <1>1 DEF T!Call
  <2>2. CallIsSound(p)'
    BY <1>0, <2>1 DEF CallIsSound, T!TypeOK
  <2>. QED
    BY <2>1, <2>2, CallMoves
<1>2. ASSUME NEW p \in Schedulers, T!Insert(p) PROVE SlotsInv'
  <2>. DEFINE c == tCalls[p]
  <2>0. c.phase = "called" /\ c.slot \in Slots /\ c.trigger \in TriggerIds
        /\ UNCHANGED <<tRows, tAnswers>> /\ ~T!Locked(c.slot)
    BY <1>2 DEF T!Insert, SlotsInv, CallIsSound
  <2>1. CASE tRows[c.slot] # None
    <3>. DEFINE n == [c EXCEPT !.phase = "taken"]
    <3>1. tCalls' = [tCalls EXCEPT ![p] = n]
      BY <1>2, <2>1 DEF T!Insert
    <3>2. n.phase = "taken" /\ n.slot = c.slot
          /\ n \in [phase : {"idle", "called", "inserted", "taken", "found"},
                    slot : Slots \cup {None}, trigger : TriggerIds \cup {None}]
      BY <1>0 DEF T!TypeOK
    <3>3. CallIsSound(p)'
      BY <1>0, <2>0, <2>1, <3>1, <3>2 DEF CallIsSound, T!TypeOK
    <3>. QED
      BY <2>0, <3>1, <3>2, <3>3, CallMoves DEF T!Locked, Holds
  <2>2. CASE tRows[c.slot] = None /\ T!Stored(c.trigger)
    <3>1. tCalls' = [tCalls EXCEPT ![p] = T!NoCall]
      BY <1>2, <2>2 DEF T!Insert
    <3>2. CallIsSound(p)'
      BY <1>0, <3>1 DEF CallIsSound, T!TypeOK, T!NoCall
    <3>. QED
      BY <1>0, <2>0, <3>1, <3>2, CallMoves DEF T!NoCall
  <2>3. CASE tRows[c.slot] = None /\ ~T!Stored(c.trigger)
    <3>. DEFINE n == [c EXCEPT !.phase = "inserted"]
    <3>1. tCalls' = [tCalls EXCEPT ![p] = n] /\ ~T!Pending(c.trigger)
      BY <1>2, <2>3 DEF T!Insert
    <3>2. n.phase = "inserted" /\ n.slot = c.slot /\ n.trigger = c.trigger
          /\ n \in [phase : {"idle", "called", "inserted", "taken", "found"},
                    slot : Slots \cup {None}, trigger : TriggerIds \cup {None}]
      BY <1>0 DEF T!TypeOK
    <3>3. CallIsSound(p)'
      BY <1>0, <2>0, <2>3, <3>1, <3>2 DEF CallIsSound, T!TypeOK, T!Stored
    <3>. QED
      BY <2>0, <3>1, <3>2, <3>3, CallMoves DEF T!Locked, T!Pending, Holds
  <2>. QED
    BY <2>1, <2>2, <2>3
<1>3. ASSUME NEW p \in Schedulers, T!Find(p) PROVE SlotsInv'
  <2>. DEFINE c == tCalls[p]
              n == [c EXCEPT !.phase = "found", !.trigger = tRows[c.slot]]
  <2>1. /\ c.phase = "taken" /\ c.slot \in Slots /\ tRows[c.slot] # None
        /\ tRows[c.slot] \in TriggerIds
        /\ UNCHANGED <<tRows, tAnswers>>
    BY <1>0, <1>3 DEF T!Find, SlotsInv, CallIsSound, T!TypeOK
  <2>2. tCalls' = [tCalls EXCEPT ![p] = n]
    BY <1>0, <1>3 DEF T!Find, T!TypeOK
  <2>3. n.phase = "found" /\ n.slot = c.slot /\ n.trigger = tRows[c.slot]
        /\ n \in [phase : {"idle", "called", "inserted", "taken", "found"},
                  slot : Slots \cup {None}, trigger : TriggerIds \cup {None}]
    BY <1>0, <2>1 DEF T!TypeOK
  <2>4. CallIsSound(p)'
    BY <1>0, <2>1, <2>2, <2>3 DEF CallIsSound, T!TypeOK
  <2>5. Holds(p)
    BY <2>1 DEF Holds
  <2>. QED
    BY <2>1, <2>2, <2>3, <2>4, <2>5, CallMoves DEF SlotsInv, CallsAreApart
<1>4. ASSUME NEW p \in Schedulers, T!RollBack(p) PROVE SlotsInv'
  <2>1. tCalls' = [tCalls EXCEPT ![p] = T!NoCall] /\ UNCHANGED <<tRows, tAnswers>>
    BY <1>4 DEF T!RollBack
  <2>2. CallIsSound(p)'
    BY <1>0, <2>1 DEF CallIsSound, T!TypeOK, T!NoCall
  <2>. QED
    BY <1>0, <2>1, <2>2, CallMoves DEF T!NoCall
<1>5. ASSUME NEW p \in Schedulers, NEW heard \in BOOLEAN, T!Commit(p, heard) PROVE SlotsInv'
  <2>. DEFINE c == tCalls[p]
  <2>0. /\ c.phase \in {"inserted", "found"} /\ c.slot \in Slots /\ c.trigger \in TriggerIds
        /\ CallIsSound(p)
    BY <1>5 DEF T!Commit, SlotsInv, CallIsSound
  <2>1. tCalls'[p] = T!NoCall /\ \A q \in Schedulers \ {p} : tCalls'[q] = tCalls[q]
    BY <1>0, <1>5 DEF T!Commit, T!TypeOK
  <2>2. tRows'[c.slot] = c.trigger /\ \A s \in Slots \ {c.slot} : tRows'[s] = tRows[s]
    BY <1>0, <1>5, <2>0 DEF T!Commit, T!TypeOK, CallIsSound
  <2>3. tRows[c.slot] # None => tRows[c.slot] = c.trigger
    BY <2>0 DEF CallIsSound
  <2>4. \A s \in Slots : tRows[s] = c.trigger => s = c.slot
    BY <2>0 DEF CallIsSound, SlotsInv, TriggersAreApart
  <2>5. T!TypeOK'
    BY <1>0, <1>5, <2>0 DEF T!Commit, T!TypeOK
  <2>6. ASSUME NEW q \in Schedulers PROVE CallIsSound(q)'
    <3>1. CASE q = p
      BY <2>1, <3>1 DEF CallIsSound, T!NoCall
    <3>2. CASE q # p
      <4>1. tCalls'[q] = tCalls[q] /\ CallIsSound(q)
        BY <2>1, <3>2 DEF SlotsInv
      <4>2. Holds(p) /\ (Holds(q) => tCalls[q].slot # c.slot)
        BY <2>0, <3>2 DEF SlotsInv, CallsAreApart, Holds
      <4>3. tCalls[q].phase = "inserted" => tCalls[q].trigger # c.trigger
        <5>1. CASE c.phase = "inserted"
          BY <2>0, <3>2, <5>1 DEF SlotsInv, CallsAreApart, Holds
        <5>2. CASE c.phase = "found"
          BY <2>0, <4>1, <5>2 DEF CallIsSound
        <5>. QED
          BY <2>0, <5>1, <5>2
      <4>. QED
        BY <2>2, <4>1, <4>2, <4>3 DEF CallIsSound, Holds
    <3>. QED
      BY <3>1, <3>2
  <2>7. CallsAreApart'
    BY <2>1 DEF SlotsInv, CallsAreApart, Holds, T!NoCall
  <2>8. AnswersAreRows'
    <3>1. tAnswers' \subseteq tAnswers \cup {[slot |-> c.slot, trigger |-> c.trigger]}
      BY <1>5 DEF T!Commit
    <3>2. ASSUME NEW a \in tAnswers PROVE tRows'[a.slot] = a.trigger
      <4>1. a.slot \in Slots /\ a.trigger # None /\ tRows[a.slot] = a.trigger
        BY <1>0 DEF SlotsInv, AnswersAreRows, T!TypeOK
      <4>. QED
        BY <2>2, <2>3, <4>1
    <3>. QED
      BY <2>2, <3>1, <3>2 DEF AnswersAreRows
  <2>9. TriggersAreApart'
    BY <2>2, <2>4 DEF SlotsInv, TriggersAreApart
  <2>. QED
    BY <2>5, <2>6, <2>7, <2>8, <2>9 DEF SlotsInv
<1>6. CASE UNCHANGED T!vars
  BY <1>6 DEF T!vars, SlotsInv, T!TypeOK, CallIsSound, CallsAreApart, Holds, AnswersAreRows,
     TriggersAreApart
<1>. QED
  BY <1>1, <1>2, <1>3, <1>4, <1>5, <1>6 DEF T!Next

\* The invariant of the slots is inductive.
THEOREM SlotsInvariant == T!Spec => []SlotsInv
<1>1. T!Init => SlotsInv
  BY PartsAssumption DEF T!SlotsAssumption, T!Init, SlotsInv, T!TypeOK, T!NoCall, CallIsSound,
     CallsAreApart, Holds, AnswersAreRows, TriggersAreApart
<1>. QED
  BY <1>1, SlotsStep, PTL DEF T!Spec

\* Every scheduler is answered with the row of its slot, and no trigger is the row of two
\* slots (PostgresDurableDelivery.recordScheduleTrigger).
THEOREM SlotsHold == T!Spec => T!SlotsAreKept
<1>1. SlotsInv => /\ \A a \in tAnswers : tRows[a.slot] = a.trigger
                  /\ \A s, r \in Slots : tRows[s] # None /\ tRows[s] = tRows[r] => s = r
  BY DEF SlotsInv, AnswersAreRows, TriggersAreApart
<1>. QED
  BY <1>1, SlotsInvariant, PTL DEF T!SlotsAreKept

-----------------------------------------------------------------------------
(* The queue kept in memory. *)

QP == INSTANCE DeliveryQueueProofs WITH
        Commands <- Events, Processes <- Callers, Times <- Readings,
        Int8AsNumber <- TRUE,
        outbox <- [e \in Events |->
                        [state |-> IF qOutbox[e] = Q!NoEvent THEN "absent"
                                   ELSE IF qOutbox[e].dispatched THEN "dispatched" ELSE "waiting",
                         available |-> qOutbox[e].available]],
        jobs <- qJobs,
        dead <- [d \in DeadLetterIds |-> qDead[d].job],
        token <- qToken

\* The queue of the proofs may be made of what the maps are made of.
LEMMA QueueAssumption == QP!DeliveryAssumption /\ \A c \in Envelopes : c.id # None
BY PartsAssumption DEF Q!MemoryAssumption, Q!Queue!DeliveryAssumption, QP!DeliveryAssumption

\* A step of the queue keeps its types.
LEMMA QueueTypes == QP!TypeOK /\ [QP!Next]_(QP!vars) => QP!TypeOK'
BY QueueAssumption, QP!TypeStep

\* The queue of module InMemoryDelivery and the one the proofs are instantiated for are
\* the same.
LEMMA Same ==
  /\ QP!TypeOK <=> Q!Queue!TypeOK
  /\ QP!TypeOK' <=> Q!Queue!TypeOK'
  /\ QP!Init <=> Q!Queue!Init
  /\ [QP!Next]_(QP!vars) <=> [Q!Queue!Next]_(Q!Queue!vars)
<1>1. /\ QP!NoJob = Q!Queue!NoJob /\ QP!NoToken = Q!Queue!NoToken
      /\ QP!JobStates = Q!Queue!JobStates
  BY DEF QP!NoJob, Q!Queue!NoJob, QP!Job, Q!Queue!Job, QP!NoToken, Q!Queue!NoToken,
         QP!JobStates, Q!Queue!JobStates
<1>2. /\ QP!TypeOK <=> Q!Queue!TypeOK
      /\ QP!TypeOK' <=> Q!Queue!TypeOK'
      /\ QP!Init <=> Q!Queue!Init
  BY <1>1 DEF QP!TypeOK, Q!Queue!TypeOK, QP!Init, Q!Queue!Init
<1>3. [QP!Next]_(QP!vars) <=> [Q!Queue!Next]_(Q!Queue!vars)
  BY <1>1 DEF QP!vars, Q!Queue!vars, QP!Next, Q!Queue!Next, QP!Job, Q!Queue!Job,
     QP!AppendOutbox, Q!Queue!AppendOutbox, QP!DispatchOutbox, Q!Queue!DispatchOutbox,
     QP!Undispatched, Q!Queue!Undispatched, QP!Exists, Q!Queue!Exists,
     QP!Claim, Q!Queue!Claim, QP!ClaimJob, Q!Queue!ClaimJob, QP!Claimable, Q!Queue!Claimable,
     QP!Lease, Q!Queue!Lease, QP!CommitResult, Q!Queue!CommitResult,
     QP!HoldsLease, Q!Queue!HoldsLease, QP!Acknowledge, Q!Queue!Acknowledge,
     QP!DeadLetter, Q!Queue!DeadLetter, QP!ReplayDeadLetter, Q!Queue!ReplayDeadLetter,
     QP!Replayable, Q!Queue!Replayable, QP!Forget, Q!Queue!Forget,
     QP!JobIsRead, Q!Queue!JobIsRead
<1>. QED
  BY <1>2, <1>3

\* The tables of the queue, as the maps give them.
OutboxTable == [e \in Events |->
                        [state |-> IF qOutbox[e] = Q!NoEvent THEN "absent"
                                   ELSE IF qOutbox[e].dispatched THEN "dispatched" ELSE "waiting",
                         available |-> qOutbox[e].available]]
DeadTable == [d \in DeadLetterIds |-> qDead[d].job]

\* The maps hold what the types of the code say.
MapsAreTyped ==
  /\ qCommands \subseteq Envelopes
  /\ qOutbox \in [Events -> [command : {c.id : c \in Envelopes} \cup {None},
                             available : Readings \cup {0}, dispatched : BOOLEAN]]
  /\ qDead \in [DeadLetterIds -> [job : JobIds \cup {None}, replay : JobIds \cup {None}]]

\* An event that was dispatched has its job, and a letter that a job replays says so.
MapsAgree ==
  /\ \A e \in Events : qOutbox[e].dispatched =>
       \E j \in JobIds : Q!Has(j) /\ qJobs[j].command = e /\ qJobs[j].replayOf = None
  /\ \A d \in DeadLetterIds : qDead[d].replay # None => qDead[d].job # None
  /\ \A j \in JobIds : qJobs[j].replayOf # None => qDead[qJobs[j].replayOf].replay # None

\* The inductive invariant of the store.
MemoryInv == MapsAreTyped /\ MapsAgree /\ Q!TypeOK

\* None names no row.
LEMMA NoneIsNoId ==
  /\ None \notin Events /\ None \notin JobIds /\ None \notin DeadLetterIds
  /\ None \notin WorkerIds
  /\ \A c \in Envelopes : c.id # None
BY QueueAssumption DEF QP!DeliveryAssumption

\* Every step is one of the queue, or changes none of its tables.
LEMMA MemoryMaps ==
  ASSUME MemoryInv, [Q!Next]_(Q!vars)
  PROVE  [QP!Next]_(QP!vars)
<1>0. QP!TypeOK
  BY Same DEF MemoryInv, Q!TypeOK
<1>1. ASSUME NEW e \in Events, NEW c \in Envelopes, NEW t \in Readings, NEW o,
                 Q!AppendOutbox(e, c.id, o, t)
      PROVE  QP!AppendOutbox(e, t)
  <2>1. qOutbox[e] = Q!NoEvent /\ UNCHANGED <<qJobs, qDead, qToken>>
        /\ qOutbox' = [qOutbox EXCEPT ![e] = [command |-> c.id, available |-> t,
               dispatched |-> FALSE]]
    BY <1>1 DEF Q!AppendOutbox
  <2>2. qOutbox'[e] # Q!NoEvent /\ qOutbox'[e].available = t /\ qOutbox'[e].dispatched = FALSE
        /\ \A f \in Events \ {e} : qOutbox'[f] = qOutbox[f]
    BY <2>1, NoneIsNoId DEF Q!NoEvent, MemoryInv, MapsAreTyped
  <2>3. OutboxTable' = [OutboxTable EXCEPT ![e] = [state |-> "waiting", available |-> t]]
    BY <2>2 DEF OutboxTable
  <2>4. OutboxTable[e].state = "absent"
    BY <2>1 DEF OutboxTable
  <2>. QED
    BY <2>1, <2>3, <2>4 DEF QP!AppendOutbox, OutboxTable
<1>2. ASSUME NEW e \in Events, NEW j \in JobIds, Q!DispatchOutbox(e, j)
                 PROVE QP!DispatchOutbox(e, j)
  <2>1. /\ ~\E k \in JobIds : Q!Has(k) /\ qJobs[k].command = e /\ qJobs[k].replayOf = None
        /\ ~Q!Has(j) /\ qOutbox[e] # Q!NoEvent
        /\ qJobs' = [qJobs EXCEPT ![j] = Q!Job(e, None, qOutbox[e].available)]
        /\ qOutbox' = [qOutbox EXCEPT ![e].dispatched = TRUE]
        /\ UNCHANGED <<qDead, qToken>>
    BY <1>2 DEF Q!DispatchOutbox
  <2>2. ~qOutbox[e].dispatched
    BY <2>1 DEF MemoryInv, MapsAgree
  <2>3. qOutbox'[e].dispatched /\ qOutbox'[e].available = qOutbox[e].available
        /\ \A f \in Events \ {e} : qOutbox'[f] = qOutbox[f]
    BY <2>1 DEF MemoryInv, MapsAreTyped
  <2>4. qOutbox'[e] # Q!NoEvent
    BY <2>3 DEF Q!NoEvent
  <2>5. OutboxTable' = [OutboxTable EXCEPT ![e].state = "dispatched"]
    BY <2>3, <2>4 DEF OutboxTable
  <2>6. OutboxTable[e].state = "waiting" /\ OutboxTable[e].available = qOutbox[e].available
    BY <2>1, <2>2 DEF OutboxTable
  <2>. QED
    BY <2>1, <2>5, <2>6 DEF QP!DispatchOutbox, QP!JobIsRead, QP!Undispatched, QP!Exists, Q!Has,
       QP!Job, Q!Job, OutboxTable
<1>3. ASSUME NEW p \in Callers, NEW j \in JobIds, NEW now \in Readings, NEW expires \in Readings,
             Q!BeginDelivery(p, j, now, expires)
      PROVE  QP!ClaimJob(p, j, now, expires)
  <2>1. qJobs' = [qJobs EXCEPT ![j] = QP!Lease(j, p, expires)]
    BY <1>0, <1>3 DEF Q!BeginDelivery, QP!Lease, QP!TypeOK
  <2>2. qJobs'[j].generation = qJobs[j].generation + 1
    BY <1>0, <2>1 DEF QP!Lease, QP!TypeOK
  <2>3. UNCHANGED <<OutboxTable, DeadTable>>
    BY <1>3 DEF Q!BeginDelivery, OutboxTable, DeadTable
  <2>4. qToken[p] = QP!NoToken /\ QP!Claimable(j, now) /\ qJobs[j].generation < MaxGeneration
    BY <1>3 DEF Q!BeginDelivery, Q!NoToken, QP!NoToken, QP!Claimable
  <2>5. qToken' = [qToken EXCEPT ![p] = [job |-> j, generation |-> qJobs'[j].generation]]
    BY <1>3, <2>2 DEF Q!BeginDelivery
  <2>. QED
    BY <2>1, <2>3, <2>4, <2>5 DEF QP!ClaimJob, QP!JobIsRead, OutboxTable, DeadTable
<1>4. ASSUME NEW p \in Callers, Q!CommitResult(p) PROVE QP!CommitResult(p)
  BY <1>4 DEF Q!CommitResult, QP!CommitResult, QP!JobIsRead, Q!ActiveLease, QP!HoldsLease
<1>5. ASSUME NEW j \in JobIds, Q!Acknowledge(j) PROVE QP!Acknowledge(j)
  BY <1>5 DEF Q!Acknowledge, QP!Acknowledge, QP!JobIsRead
<1>6. ASSUME NEW p \in Callers, NEW d \in DeadLetterIds, Q!DeadLetter(p, d)
                 PROVE QP!DeadLetter(p, d)
  <2>1. Q!ActiveLease(p) /\ qDead[d] = Q!NoLetter /\ UNCHANGED <<qOutbox, qToken>>
        /\ qJobs' = [qJobs EXCEPT ![qToken[p].job].state = "DEAD_LETTERED"]
        /\ qDead' = [qDead EXCEPT ![d].job = qToken[p].job]
    BY <1>6 DEF Q!DeadLetter
  <2>2. qDead'[d].job = qToken[p].job /\ \A c \in DeadLetterIds \ {d} : qDead'[c] = qDead[c]
    BY <2>1 DEF MemoryInv, MapsAreTyped
  <2>3. DeadTable[d] = None
    BY <2>1 DEF DeadTable, Q!NoLetter
  <2>4. DeadTable' = [DeadTable EXCEPT ![d] = qToken[p].job]
    BY <2>2 DEF DeadTable
  <2>. QED
    BY <2>1, <2>3, <2>4 DEF QP!DeadLetter, QP!JobIsRead, DeadTable, Q!ActiveLease, QP!HoldsLease
<1>7. ASSUME NEW d \in DeadLetterIds, NEW j \in JobIds, NEW t \in Readings,
                 Q!ReplayDeadLetter(d, j, t)
      PROVE  QP!ReplayDeadLetter(d, j, t)
  <2>1. qDead[d] # Q!NoLetter /\ qDead[d].replay = None /\ ~Q!Has(j) /\ UNCHANGED <<qOutbox,
            qToken>>
        /\ qJobs' = [qJobs EXCEPT ![j] = Q!Job(qJobs[qDead[d].job].command, d, t)]
        /\ qDead' = [qDead EXCEPT ![d].replay = j]
    BY <1>7 DEF Q!ReplayDeadLetter
  <2>2. qDead[d] \in [job : JobIds \cup {None}, replay : JobIds \cup {None}]
    BY DEF MemoryInv, MapsAreTyped
  <2>3. qDead[d].job # None
    BY <2>1, <2>2 DEF Q!NoLetter
  <2>4. ~\E k \in JobIds : qJobs[k].replayOf = d
    BY <2>1, NoneIsNoId DEF MemoryInv, MapsAgree
  <2>5. DeadTable' = DeadTable
    BY <2>1 DEF DeadTable, MemoryInv, MapsAreTyped
  <2>. QED
    BY <2>1, <2>3, <2>4, <2>5 DEF QP!ReplayDeadLetter, QP!JobIsRead, QP!Replayable, QP!Exists, Q!Has,
       QP!Job, Q!Job, DeadTable
<1>8. ASSUME NEW p \in Callers, Q!Forget(p) PROVE QP!Forget(p)
  BY <1>8 DEF Q!Forget, QP!Forget, Q!ActiveLease, QP!HoldsLease, Q!NoToken, QP!NoToken
<1>9. ASSUME UNCHANGED <<qOutbox, qJobs, qDead, qToken>> PROVE UNCHANGED QP!vars
  BY <1>9 DEF QP!vars
<1>. QED
  BY <1>1, <1>2, <1>3, <1>4, <1>5, <1>6, <1>7, <1>8, <1>9
     DEF Q!Next, Q!vars, QP!Next, QP!Claim, Q!RegisterCommand, Q!MaterializeSchedule

\* The maps keep their types and agree.
LEMMA MapsStep ==
  ASSUME MemoryInv, [Q!Next]_(Q!vars)
  PROVE  MapsAreTyped' /\ MapsAgree'
<1>0. QP!TypeOK
  BY Same DEF MemoryInv, Q!TypeOK
<1>. USE DEF MemoryInv
<1>1. ASSUME NEW e \in Events, NEW c \in Envelopes, NEW t \in Readings, NEW o,
                 Q!AppendOutbox(e, c.id, o, t)
      PROVE  MapsAreTyped' /\ MapsAgree'
  <2>1. /\ qOutbox' = [qOutbox EXCEPT ![e] = [command |-> c.id, available |-> t,
               dispatched |-> FALSE]]
        /\ UNCHANGED <<qCommands, qJobs, qDead>>
    BY <1>1 DEF Q!AppendOutbox
  <2>. QED
    BY <2>1 DEF MapsAreTyped, MapsAgree, Q!Has
<1>2. ASSUME NEW e \in Events, NEW j \in JobIds, Q!DispatchOutbox(e, j)
      PROVE  MapsAreTyped' /\ MapsAgree'
  <2>1. /\ ~Q!Has(j) /\ UNCHANGED <<qCommands, qDead>>
        /\ qJobs' = [qJobs EXCEPT ![j] = Q!Job(e, None, qOutbox[e].available)]
        /\ qOutbox' = [qOutbox EXCEPT ![e].dispatched = TRUE]
    BY <1>2 DEF Q!DispatchOutbox
  <2>2. qJobs'[j] = Q!Job(e, None, qOutbox[e].available) /\ \A k \in JobIds \ {j} :
            qJobs'[k] = qJobs[k]
    BY <1>0, <2>1 DEF QP!TypeOK
  <2>3. MapsAreTyped'
    BY <2>1 DEF MapsAreTyped
  <2>4. ASSUME NEW f \in Events, qOutbox'[f].dispatched
        PROVE  \E k \in JobIds : Q!Has(k)' /\ qJobs'[k].command = f /\ qJobs'[k].replayOf = None
    <3>1. CASE f = e
      BY <2>2, <3>1 DEF Q!Has, Q!Job
    <3>2. CASE f # e
      <4>1. qOutbox[f].dispatched
        BY <2>1, <2>4, <3>2 DEF MapsAreTyped
      <4>2. PICK k \in JobIds : Q!Has(k) /\ qJobs[k].command = f /\ qJobs[k].replayOf = None
        BY <4>1 DEF MapsAgree
      <4>. QED
        BY <2>1, <2>2, <4>2 DEF Q!Has
    <3>. QED
      BY <3>1, <3>2
  <2>5. \A k \in JobIds : qJobs'[k].replayOf # None => qDead[qJobs'[k].replayOf].replay # None
    BY <2>2 DEF MapsAgree, Q!Job
  <2>. QED
    BY <2>1, <2>3, <2>4, <2>5 DEF MapsAgree
<1>3. ASSUME qOutbox' = qOutbox, qCommands' = qCommands,
             \A d \in DeadLetterIds : qDead'[d].replay = qDead[d].replay
                                     /\ (qDead[d].job # None => qDead'[d].job # None),
             \A k \in JobIds : /\ Q!Has(k) => Q!Has(k)'
                               /\ qJobs'[k].command = qJobs[k].command
                               /\ qJobs'[k].replayOf = qJobs[k].replayOf
      PROVE  MapsAgree'
  <2>1. \A k \in JobIds : qJobs[k].replayOf \in DeadLetterIds \cup {None}
    BY <1>0 DEF QP!TypeOK
  <2>2. \A k \in JobIds : qJobs'[k].replayOf # None => qDead'[qJobs'[k].replayOf].replay # None
    BY <1>3, <2>1 DEF MapsAgree
  <2>3. \A e \in Events : qOutbox'[e].dispatched =>
          \E k \in JobIds : Q!Has(k)' /\ qJobs'[k].command = e /\ qJobs'[k].replayOf = None
    <3>1. ASSUME NEW e \in Events, qOutbox'[e].dispatched
          PROVE  \E k \in JobIds : Q!Has(k)' /\ qJobs'[k].command = e /\ qJobs'[k].replayOf = None
      <4>1. PICK k \in JobIds : Q!Has(k) /\ qJobs[k].command = e /\ qJobs[k].replayOf = None
        BY <1>3, <3>1 DEF MapsAgree
      <4>. QED
        BY <1>3, <4>1
    <3>. QED
      BY <3>1
  <2>. QED
    BY <1>3, <2>2, <2>3 DEF MapsAgree
<1>4. ASSUME NEW p \in Callers, NEW j \in JobIds, NEW now \in Readings, NEW expires \in Readings,
             Q!BeginDelivery(p, j, now, expires)
      PROVE  MapsAreTyped' /\ MapsAgree'
  <2>1. /\ qJobs' = [qJobs EXCEPT ![j].state = "LEASED", ![j].owner = WorkerIdOf[p],
                                  ![j].expires = expires, ![j].generation = @ + 1]
        /\ UNCHANGED <<qCommands, qOutbox, qDead>>
    BY <1>4 DEF Q!BeginDelivery
  <2>2. \A k \in JobIds : /\ Q!Has(k) => Q!Has(k)'
                          /\ qJobs'[k].command = qJobs[k].command
                          /\ qJobs'[k].replayOf = qJobs[k].replayOf
    BY <1>0, <2>1 DEF QP!TypeOK, Q!Has
  <2>. QED
    BY <1>3, <2>1, <2>2 DEF MapsAreTyped
<1>5. ASSUME NEW j \in JobIds, NEW s \in {"COMPLETED", "ACKNOWLEDGED", "DEAD_LETTERED"},
             qJobs' = [qJobs EXCEPT ![j].state = s]
      PROVE  \A k \in JobIds : /\ Q!Has(k) => Q!Has(k)'
                               /\ qJobs'[k].command = qJobs[k].command
                               /\ qJobs'[k].replayOf = qJobs[k].replayOf
  BY <1>0, <1>5 DEF QP!TypeOK, Q!Has
<1>6. ASSUME NEW p \in Callers, Q!CommitResult(p) PROVE MapsAreTyped' /\ MapsAgree'
  <2>1. qToken[p].job \in JobIds
    BY <1>0, <1>6 DEF Q!CommitResult, Q!ActiveLease, QP!TypeOK
  <2>2. qJobs' = [qJobs EXCEPT ![qToken[p].job].state = "COMPLETED"] /\ UNCHANGED <<qCommands,
            qOutbox, qDead>>
    BY <1>6 DEF Q!CommitResult
  <2>. QED
    BY <1>3, <1>5, <2>1, <2>2 DEF MapsAreTyped
<1>7. ASSUME NEW j \in JobIds, Q!Acknowledge(j) PROVE MapsAreTyped' /\ MapsAgree'
  <2>1. qJobs' = [qJobs EXCEPT ![j].state = "ACKNOWLEDGED"] /\ UNCHANGED <<qCommands, qOutbox,
            qDead>>
    BY <1>7 DEF Q!Acknowledge
  <2>. QED
    BY <1>3, <1>5, <2>1 DEF MapsAreTyped
<1>8. ASSUME NEW p \in Callers, NEW d \in DeadLetterIds, Q!DeadLetter(p, d)
                 PROVE MapsAreTyped' /\ MapsAgree'
  <2>1. qToken[p].job \in JobIds
    BY <1>0, <1>8 DEF Q!DeadLetter, Q!ActiveLease, QP!TypeOK
  <2>2. /\ qJobs' = [qJobs EXCEPT ![qToken[p].job].state = "DEAD_LETTERED"]
        /\ qDead' = [qDead EXCEPT ![d].job = qToken[p].job]
        /\ UNCHANGED <<qCommands, qOutbox>>
    BY <1>8 DEF Q!DeadLetter
  <2>3. MapsAreTyped'
    BY <2>1, <2>2 DEF MapsAreTyped
  <2>4. \A c \in DeadLetterIds : qDead'[c].replay = qDead[c].replay
                                 /\ (qDead[c].job # None => qDead'[c].job # None)
    BY <2>1, <2>2, NoneIsNoId DEF MapsAreTyped
  <2>. QED
    BY <1>3, <1>5, <2>1, <2>2, <2>3, <2>4
<1>9. ASSUME NEW d \in DeadLetterIds, NEW j \in JobIds, NEW t \in Readings,
                 Q!ReplayDeadLetter(d, j, t)
      PROVE  MapsAreTyped' /\ MapsAgree'
  <2>1. qDead[d] # Q!NoLetter /\ qDead[d].replay = None /\ ~Q!Has(j) /\ UNCHANGED <<qCommands,
            qOutbox>>
        /\ qJobs' = [qJobs EXCEPT ![j] = Q!Job(qJobs[qDead[d].job].command, d, t)]
        /\ qDead' = [qDead EXCEPT ![d].replay = j]
    BY <1>9 DEF Q!ReplayDeadLetter
  <2>2. qJobs'[j].replayOf = d /\ \A k \in JobIds \ {j} : qJobs'[k] = qJobs[k]
    BY <1>0, <2>1 DEF QP!TypeOK, Q!Job
  <2>3. MapsAreTyped'
    BY <2>1 DEF MapsAreTyped
  <2>4. qDead[d].job # None
    BY <2>1 DEF Q!NoLetter, MapsAreTyped
  <2>5. qDead'[d].replay = j /\ \A c \in DeadLetterIds : qDead'[c].job = qDead[c].job
                                                       /\ (c # d => qDead'[c] = qDead[c])
    BY <2>1 DEF MapsAreTyped
  <2>6. \A c \in DeadLetterIds : qDead'[c].replay # None => qDead'[c].job # None
    BY <2>4, <2>5 DEF MapsAgree
  <2>7. \A k \in JobIds : qJobs[k].replayOf \in DeadLetterIds \cup {None}
    BY <1>0 DEF QP!TypeOK
  <2>8. \A k \in JobIds : qJobs'[k].replayOf # None => qDead'[qJobs'[k].replayOf].replay # None
    BY <2>2, <2>5, <2>7, NoneIsNoId DEF MapsAgree
  <2>9. \A e \in Events : qOutbox'[e].dispatched =>
          \E k \in JobIds : Q!Has(k)' /\ qJobs'[k].command = e /\ qJobs'[k].replayOf = None
    BY <2>1, <2>2 DEF MapsAgree, Q!Has
  <2>. QED
    BY <2>3, <2>6, <2>8, <2>9 DEF MapsAgree
<1>10. ASSUME UNCHANGED <<qOutbox, qJobs, qDead>>, qCommands' \subseteq Envelopes
                  PROVE MapsAreTyped' /\ MapsAgree'
  BY <1>10 DEF MapsAreTyped, MapsAgree, Q!Has
<1>11. ASSUME NEW c \in Envelopes, Q!RegisterCommand(c) PROVE MapsAreTyped' /\ MapsAgree'
  BY <1>10, <1>11 DEF Q!RegisterCommand, MapsAreTyped
<1>12. ASSUME UNCHANGED <<qCommands, qOutbox, qJobs, qDead>> PROVE MapsAreTyped' /\ MapsAgree'
  BY <1>10, <1>12 DEF MapsAreTyped
<1>. QED
  BY <1>1, <1>2, <1>4, <1>6, <1>7, <1>8, <1>9, <1>11, <1>12
     DEF Q!Next, Q!vars, Q!MaterializeSchedule, Q!Forget

\* A command that is registered stays so, and has its dedupe key alone.
LEMMA EnvelopesStep ==
  ASSUME MemoryInv, [Q!Next]_(Q!vars)
  PROVE  /\ qSlots' \subseteq Identities
         /\ \A e \in Events : qOutbox'[e] # Q!NoEvent => \E c \in qCommands' :
                c.id = qOutbox'[e].command
         /\ \A c, k \in qCommands' : c.organization = k.organization /\ c.key = k.key => c = k
<1>1. /\ qSlots \subseteq Identities
      /\ \A e \in Events : qOutbox[e] # Q!NoEvent => \E c \in qCommands :
             c.id = qOutbox[e].command
      /\ \A c, k \in qCommands : c.organization = k.organization /\ c.key = k.key => c = k
  BY DEF MemoryInv, Q!TypeOK
<1>2. ASSUME NEW c \in Envelopes, Q!RegisterCommand(c)
      PROVE  /\ \A e \in Events : qOutbox'[e] # Q!NoEvent => \E k \in qCommands' :
                    k.id = qOutbox'[e].command
             /\ \A d, k \in qCommands' : d.organization = k.organization /\ d.key = k.key => d = k
             /\ qSlots' = qSlots
  BY <1>1, <1>2 DEF Q!RegisterCommand
<1>3. ASSUME NEW e \in Events, NEW c \in Envelopes, NEW t \in Readings, NEW o,
                 Q!AppendOutbox(e, c.id, o, t)
      PROVE  /\ qCommands' = qCommands /\ qSlots' = qSlots
             /\ \A f \in Events : qOutbox'[f] # Q!NoEvent => \E k \in qCommands :
                    k.id = qOutbox'[f].command
  BY <1>1, <1>3 DEF Q!AppendOutbox, MemoryInv, MapsAreTyped
<1>4. ASSUME NEW e \in Events, NEW j \in JobIds, Q!DispatchOutbox(e, j)
      PROVE  /\ qCommands' = qCommands /\ qSlots' = qSlots
             /\ \A f \in Events : qOutbox'[f] # Q!NoEvent => \E k \in qCommands :
                    k.id = qOutbox'[f].command
  <2>1. qOutbox[e] # Q!NoEvent /\ qOutbox' = [qOutbox EXCEPT ![e].dispatched = TRUE]
        /\ qCommands' = qCommands /\ qSlots' = qSlots
    BY <1>4 DEF Q!DispatchOutbox
  <2>2. qOutbox'[e].command = qOutbox[e].command /\ \A f \in Events \ {e} :
            qOutbox'[f] = qOutbox[f]
    BY <2>1 DEF MemoryInv, MapsAreTyped
  <2>. QED
    BY <1>1, <2>1, <2>2
<1>5. ASSUME NEW s \in Identities, Q!MaterializeSchedule(s)
      PROVE  UNCHANGED <<qCommands, qOutbox>> /\ qSlots' \subseteq Identities
  BY <1>1, <1>5 DEF Q!MaterializeSchedule
<1>6. CASE UNCHANGED <<qCommands, qOutbox, qSlots>>
  BY <1>1, <1>6
<1>. QED
  BY <1>1, <1>2, <1>3, <1>4, <1>5, <1>6
     DEF Q!Next, Q!vars, Q!BeginDelivery, Q!CommitResult, Q!Acknowledge, Q!DeadLetter,
         Q!ReplayDeadLetter, Q!Forget

\* The invariant of the maps is inductive.
THEOREM MemoryInvariant == Q!Spec => []MemoryInv
<1>1. Q!Init => MemoryInv
  <2>1. Q!Init => QP!TypeOK
    BY NoneIsNoId DEF Q!Init, Q!NoEvent, Q!NoJob, Q!Job, Q!NoLetter, Q!NoToken, QP!TypeOK,
       QP!JobStates
  <2>2. Q!Init => MapsAreTyped /\ MapsAgree
    BY DEF Q!Init, Q!NoEvent, Q!NoJob, Q!Job, Q!NoLetter, MapsAreTyped, MapsAgree
  <2>. QED
    BY <2>1, <2>2, Same DEF MemoryInv, Q!TypeOK, Q!Init
<1>2. MemoryInv /\ [Q!Next]_(Q!vars) => MemoryInv'
  <2>. SUFFICES ASSUME MemoryInv, [Q!Next]_(Q!vars) PROVE MemoryInv'
    OBVIOUS
  <2>1. QP!TypeOK'
    BY MemoryMaps, QueueTypes, Same DEF MemoryInv, Q!TypeOK
  <2>2. Q!Queue!TypeOK'
    BY <2>1, Same
  <2>. QED
    BY <2>2, MapsStep, EnvelopesStep DEF MemoryInv, Q!TypeOK, Q!NoEvent
<1>. QED
  BY <1>1, <1>2, PTL DEF Q!Spec

\* The maps of InMemoryDurableDelivery implement the queue of DeliveryQueue: a step of the
\* maps is a step of the tables or leaves them as they are.
THEOREM MemoryImplementsQueue == Q!Spec => Q!ImplementsQueue
<1>1. Q!Init => QP!Init
  BY DEF Q!Init, Q!NoEvent, Q!NoJob, Q!Job, Q!NoLetter, Q!NoToken, QP!Init, QP!NoJob, QP!Job,
     QP!NoToken
<1>2. Q!Init => Q!Queue!Init
  BY <1>1, Same
<1>3. MemoryInv /\ [Q!Next]_(Q!vars) => [Q!Queue!Next]_(Q!Queue!vars)
  BY MemoryMaps, Same
<1>. QED
  BY <1>2, <1>3, MemoryInvariant, PTL DEF Q!Spec, Q!ImplementsQueue, Q!Queue!Spec

\* What is proved of the queue of PostgresDurableDelivery is so of the one in memory: a job is
\* held once, an event has one job that is alive or done, none is lost, what has ended
\* stays, and the deliveries of a command are those of LogicalCommands.
THEOREM MemoryIsSafe ==
  Q!Spec => /\ [](QP!OneHolder /\ QP!OneLogicalCommand /\ QP!NothingLost)
            /\ QP!TerminalStays
            /\ QP!ImplementsLogicalCommands
<1>1. Q!Spec => QP!Spec
  BY MemoryImplementsQueue, Same, PTL DEF Q!ImplementsQueue, Q!Queue!Spec, QP!Spec
<1>2. Q!Spec => [](QP!OneHolder /\ QP!OneLogicalCommand /\ QP!NothingLost)
  BY <1>1, QueueAssumption, QP!HolderIsAlone, QP!CommandStaysOne, QP!CommandsSurvive, PTL
<1>3. Q!Spec => QP!TerminalStays
  BY <1>1, QueueAssumption, QP!EndsAreFinal, PTL
<1>4. Q!Spec => QP!ImplementsLogicalCommands
  BY <1>1, QueueAssumption, QP!CommandsImplemented, PTL
<1>. QED
  BY <1>2, <1>3, <1>4, PTL

-----------------------------------------------------------------------------
(* The executor, proved about in PostgresExecutorProofs. *)

EP == INSTANCE PostgresExecutorProofs WITH
        jobs <- eJobs, clients <- eClients, committed <- eCommitted, torn <- eTorn

\* The executor of WebRuntime and the one the proofs are instantiated for are the same.
LEMMA SameExecutor ==
  /\ EP!ExecutorAssumption
  /\ EP!Init <=> E!Init
  /\ [EP!Next]_(EP!vars) <=> [E!Next]_(E!vars)
  /\ EP!TypeOK <=> E!TypeOK
  /\ EP!AllOrNothing <=> E!AllOrNothing
<1>1. EP!ExecutorAssumption
  BY PartsAssumption DEF EP!ExecutorAssumption, E!ExecutorAssumption
<1>2. EP!Init <=> E!Init
  BY DEF EP!Init, E!Init, EP!NewJob, E!NewJob, EP!Clean, E!Clean, EP!Kinds, E!Kinds
<1>3. [EP!Next]_(EP!vars) <=> [E!Next]_(E!vars)
  BY DEF EP!vars, E!vars, EP!Next, E!Next, EP!Clean, E!Clean, EP!Statements, E!Statements,
         EP!At, E!At, EP!Client, E!Client, EP!Failed, E!Failed, EP!Fails, E!Fails, EP!Connect,
         E!Connect, EP!ConnectFails, E!ConnectFails, EP!Begin, E!Begin, EP!Run, E!Run,
         EP!Statement, E!Statement, EP!StatementRefused, E!StatementRefused, EP!WorkThrows,
         E!WorkThrows, EP!Commit, E!Commit, EP!Rollback, E!Rollback, EP!RollbackLost,
         E!RollbackLost, EP!Release, E!Release
<1>4. EP!TypeOK <=> E!TypeOK
  BY DEF EP!TypeOK, E!TypeOK, EP!Kinds, E!Kinds, EP!Writes, E!Writes
<1>5. EP!AllOrNothing <=> E!AllOrNothing
  BY DEF EP!AllOrNothing, E!AllOrNothing, EP!At, E!At, EP!Kept, E!Kept, EP!Statements, E!Statements,
         EP!Writes, E!Writes
<1>. QED
  BY <1>1, <1>2, <1>3, <1>4, <1>5

\* A job of the executor is kept whole or not at all (PgExecutor.transaction).
THEOREM ExecutorHolds == E!Spec => [](E!TypeOK /\ E!AllOrNothing)
<1>1. EP!Spec => []EP!IInv
  BY SameExecutor, EP!InvariantHolds
<1>2. EP!Spec => []EP!AllOrNothing
  BY SameExecutor, EP!AtomicityHolds
<1>3. E!Spec => EP!Spec
  BY SameExecutor, PTL DEF E!Spec, EP!Spec
<1>4. EP!IInv => E!TypeOK
  BY SameExecutor DEF EP!IInv
<1>. QED
  BY <1>1, <1>2, <1>3, <1>4, SameExecutor, PTL

-----------------------------------------------------------------------------
(* A behaviour of the parts together is one of each part. *)

\* The exchange takes its own steps.
LEMMA ExchangePart == PartsSpec => Spec
<1>1. InitParts => Init
  BY DEF InitParts
<1>2. [NextParts]_allVars => [Next]_vars
  BY DEF NextParts, OthersStay, Stops, allVars
<1>. QED
  BY <1>1, <1>2, PTL DEF PartsSpec, Spec

\* The panels take their own steps.
LEMMA PanelsPart == PartsSpec => P!Spec
<1>1. InitParts => P!Init
  BY DEF InitParts
<1>2. [NextParts]_allVars => [P!Next]_(P!vars)
  BY DEF NextParts, OthersStay, Stops, allVars, pVars, P!vars
<1>. QED
  BY <1>1, <1>2, PTL DEF PartsSpec, P!Spec

\* The dashboard takes its own steps.
LEMMA DashboardPart == PartsSpec => D!Spec
<1>1. InitParts => D!Init
  BY DEF InitParts
<1>2. [NextParts]_allVars => [D!Next]_(D!vars)
  BY DEF NextParts, OthersStay, Stops, allVars, dVars, D!vars
<1>. QED
  BY <1>1, <1>2, PTL DEF PartsSpec, D!Spec

\* The catalog takes its own steps.
LEMMA CatalogPart == PartsSpec => C!Spec
<1>1. InitParts => C!Init
  BY DEF InitParts
<1>2. [NextParts]_allVars => [C!Next]_(C!vars)
  BY DEF NextParts, OthersStay, Stops, allVars, cVars, C!vars
<1>. QED
  BY <1>1, <1>2, PTL DEF PartsSpec, C!Spec

\* The requests take their own steps.
LEMMA ReadsPart == PartsSpec => R!Spec
<1>1. InitParts => R!Init
  BY DEF InitParts
<1>2. [NextParts]_allVars => [R!Next]_(R!vars)
  BY DEF NextParts, OthersStay, Stops, allVars, rVars, R!vars
<1>. QED
  BY <1>1, <1>2, PTL DEF PartsSpec, R!Spec

\* The analytics take their own steps.
LEMMA AnalyticsPart == PartsSpec => A!Spec
<1>1. InitParts => A!Init
  BY DEF InitParts
<1>2. [NextParts]_allVars => [A!Next]_(A!vars)
  BY DEF NextParts, OthersStay, Stops, allVars, aVars, A!vars
<1>. QED
  BY <1>1, <1>2, PTL DEF PartsSpec, A!Spec

\* The staging takes its own steps.
LEMMA StagingPart == PartsSpec => S!Spec
<1>1. InitParts => S!Init
  BY DEF InitParts
<1>2. [NextParts]_allVars => [S!Next]_(S!vars)
  BY DEF NextParts, OthersStay, Stops, allVars, sVars, S!vars
<1>. QED
  BY <1>1, <1>2, PTL DEF PartsSpec, S!Spec

\* The measurements take their own steps.
LEMMA MeasurementsPart == PartsSpec => M!Spec
<1>1. InitParts => M!Init
  BY DEF InitParts
<1>2. [NextParts]_allVars => [M!Next]_(M!vars)
  BY DEF NextParts, OthersStay, Stops, allVars, mVars, M!vars
<1>. QED
  BY <1>1, <1>2, PTL DEF PartsSpec, M!Spec

\* The authorization takes its own steps.
LEMMA AuthorizationPart == PartsSpec => Z!Spec
<1>1. InitParts => Z!Init
  BY DEF InitParts
<1>2. [NextParts]_allVars => [Z!Next]_(Z!vars)
  BY DEF NextParts, OthersStay, Stops, allVars, zVars, Z!vars
<1>. QED
  BY <1>1, <1>2, PTL DEF PartsSpec, Z!Spec

\* The intents take their own steps.
LEMMA IntentsPart == PartsSpec => I!Spec
<1>1. InitParts => I!Init
  BY DEF InitParts
<1>2. [NextParts]_allVars => [I!Next]_(I!vars)
  BY DEF NextParts, OthersStay, Stops, allVars, iVars, I!vars
<1>. QED
  BY <1>1, <1>2, PTL DEF PartsSpec, I!Spec

\* The limits take their own steps.
LEMMA LimitsPart == PartsSpec => L!Spec
<1>1. InitParts => L!Init
  BY DEF InitParts
<1>2. [NextParts]_allVars => [L!Next]_(L!vars)
  BY DEF NextParts, OthersStay, Stops, allVars, lVars, L!vars
<1>. QED
  BY <1>1, <1>2, PTL DEF PartsSpec, L!Spec

\* The executor takes its own steps.
LEMMA ExecutorPart == PartsSpec => E!Spec
<1>1. InitParts => E!Init
  BY DEF InitParts
<1>2. [NextParts]_allVars => [E!Next]_(E!vars)
  BY DEF NextParts, OthersStay, Stops, allVars, eVars, E!vars
<1>. QED
  BY <1>1, <1>2, PTL DEF PartsSpec, E!Spec

\* The process takes its own steps.
LEMMA ProcessPart == PartsSpec => W!Spec
<1>1. InitParts => W!Init
  BY DEF InitParts
<1>2. [NextParts]_allVars => [W!Next]_(W!vars)
  BY DEF NextParts, OthersStay, Stops, allVars, wVars, W!vars
<1>. QED
  BY <1>1, <1>2, PTL DEF PartsSpec, W!Spec

\* The memory takes its own steps.
LEMMA MemoryPart == PartsSpec => Q!Spec
<1>1. InitParts => Q!Init
  BY DEF InitParts
<1>2. [NextParts]_allVars => [Q!Next]_(Q!vars)
  BY DEF NextParts, OthersStay, Stops, allVars, qVars, Q!vars
<1>. QED
  BY <1>1, <1>2, PTL DEF PartsSpec, Q!Spec

\* The slots take their own steps.
LEMMA SlotsPart == PartsSpec => T!Spec
<1>1. InitParts => T!Init
  BY DEF InitParts
<1>2. [NextParts]_allVars => [T!Next]_(T!vars)
  BY DEF NextParts, OthersStay, Stops, allVars, tVars, T!vars
<1>. QED
  BY <1>1, <1>2, PTL DEF PartsSpec, T!Spec

\* The store takes its own steps.
LEMMA StorePart == PartsSpec => B!Spec
<1>1. InitParts => B!Init
  BY DEF InitParts
<1>2. [NextParts]_allVars => [B!Next]_(B!vars)
  BY DEF NextParts, OthersStay, Stops, allVars, bVars, B!vars
<1>. QED
  BY <1>1, <1>2, PTL DEF PartsSpec, B!Spec

-----------------------------------------------------------------------------
(* The parts together. *)

\* Every part keeps its types.
THEOREM TypesHold == PartsSpec => []TypesOK
<1>1. PartsSpec => []TypeOK
  BY ExchangePart, TypeCorrect, PTL
<1>2. PartsSpec => []P!TypeOK
  <2>1. PanelsInv => P!TypeOK
    BY DEF PanelsInv
  <2>. QED
    BY <2>1, PanelsPart, PanelsInvariant, PTL
<1>3. PartsSpec => []D!TypeOK
  <2>1. DashboardInv => D!TypeOK
    BY DEF DashboardInv
  <2>. QED
    BY <2>1, DashboardPart, DashboardInvariant, PTL
<1>4. PartsSpec => []C!TypeOK
  <2>1. CatalogInv => C!TypeOK
    BY DEF CatalogInv
  <2>. QED
    BY <2>1, CatalogPart, CatalogInvariant, PTL
<1>5. PartsSpec => []R!TypeOK
  <2>1. ReadsInv => R!TypeOK
    BY DEF ReadsInv
  <2>. QED
    BY <2>1, ReadsPart, ReadsInvariant, PTL
<1>6. PartsSpec => []A!TypeOK
  <2>1. AnalyticsInv => A!TypeOK
    BY DEF AnalyticsInv
  <2>. QED
    BY <2>1, AnalyticsPart, AnalyticsInvariant, PTL
<1>7. PartsSpec => []S!TypeOK
  BY StagingPart, StagingTypes, PTL
<1>8. PartsSpec => []M!TypeOK
  <2>1. MeasurementsInv => M!TypeOK
    BY EvaluateIsFair DEF MeasurementsInv, M!TypeOK
  <2>. QED
    BY <2>1, MeasurementsPart, MeasurementInvariant, PTL
<1>9. PartsSpec => []Z!TypeOK
  <2>1. AuthorizationInv => Z!TypeOK
    BY DEF AuthorizationInv
  <2>. QED
    BY <2>1, AuthorizationPart, AuthorizationInvariant, PTL
<1>10. PartsSpec => []I!TypeOK
  <2>1. IntentsInv => I!TypeOK
    BY DEF IntentsInv
  <2>. QED
    BY <2>1, IntentsPart, IntentsInvariant, PTL
<1>11. PartsSpec => []L!TypeOK
  <2>1. LimitsInv => L!TypeOK
    BY DEF LimitsInv
  <2>. QED
    BY <2>1, LimitsPart, LimitsInvariant, PTL
<1>12. PartsSpec => []E!TypeOK
  BY ExecutorPart, ExecutorHolds, PTL
<1>13. PartsSpec => []W!TypeOK
  <2>1. ProcessInv => W!TypeOK
    BY DEF ProcessInv
  <2>. QED
    BY <2>1, ProcessPart, ProcessInvariant, PTL
<1>14. PartsSpec => []Q!TypeOK
  <2>1. MemoryInv => Q!TypeOK
    BY DEF MemoryInv
  <2>. QED
    BY <2>1, MemoryPart, MemoryInvariant, PTL
<1>15. PartsSpec => []T!TypeOK
  <2>1. SlotsInv => T!TypeOK
    BY DEF SlotsInv
  <2>. QED
    BY <2>1, SlotsPart, SlotsInvariant, PTL
<1>16. PartsSpec => []B!TypeOK
  <2>1. StoreInv => B!TypeOK
    BY DEF StoreInv
  <2>. QED
    BY <2>1, StorePart, StoreInvariant, PTL
<1>17. /\ TypeOK /\ P!TypeOK /\ D!TypeOK /\ C!TypeOK /\ R!TypeOK /\ A!TypeOK
       /\ S!TypeOK /\ M!TypeOK /\ Z!TypeOK /\ I!TypeOK /\ L!TypeOK /\ E!TypeOK
       /\ W!TypeOK /\ Q!TypeOK /\ T!TypeOK /\ B!TypeOK
       => TypesOK
  BY DEF TypesOK
<1>. QED
  BY <1>1, <1>2, <1>3, <1>4, <1>5, <1>6, <1>7, <1>8, <1>9, <1>10, <1>11, <1>12, <1>13, <1>14,
     <1>15, <1>16, <1>17, PTL

\* What a page shows is about what is chosen, and what it waits for comes.
THEOREM DisplayHolds == PartsSpec => []DisplayIsCurrent
<1>1. P!DisplayIsCurrent /\ D!LoadsAreAwaited => DisplayIsCurrent
  BY DEF DisplayIsCurrent
<1>. QED
  BY <1>1, PanelsPart, FiguresHold, DashboardPart, LoadsAreAwaitedAlways, PTL

\* What the API says it read is what the provider said, and what was stored.
THEOREM ReadsHold == PartsSpec => []ReadsAreFounded
<1>1. /\ C!CollectionIsSound /\ R!SectionsStandAlone
      /\ A!ClaimsAreFounded /\ B!ReadIsWhatWasSaved
      => ReadsAreFounded
  BY DEF ReadsAreFounded
<1>. QED
  BY <1>1, CatalogPart, CollectionsAreSound, ReadsPart, SectionsStandAloneAlways, AnalyticsPart,
     ClaimsHold, StorePart, ReadsGiveWhatWasSaved, PTL

\* The write hold is released, and the pilot's target met, only on what was saved.
THEOREM StagingHolds == PartsSpec => []StagingIsFounded
<1>1. S!HoldIsFounded /\ M!OutcomeIsFair => StagingIsFounded
  BY DEF StagingIsFounded
<1>. QED
  BY <1>1, StagingPart, HoldIsFoundedAlways, MeasurementsPart, OutcomesAreFair, PTL

\* A member is allowed only what the role of its session allows.
THEOREM AllowHolds == PartsSpec => []AllowIsFounded
BY AuthorizationPart, AllowIsFoundedAlways, PTL DEF AllowIsFounded

\* A request is authenticated by a cookie that is good, and the inline worker runs once at
\* a time.
THEOREM ProcessIsSound == PartsSpec => []ProcessIsFounded
<1>1. W!SessionIsFounded /\ W!RunsAlone => ProcessIsFounded
  BY DEF ProcessIsFounded
<1>. QED
  BY <1>1, ProcessPart, ProcessHolds, PTL

\* A job of the executor is kept whole or not at all.
THEOREM JobsAreWhole == PartsSpec => []AllOrNothing
BY ExecutorPart, ExecutorHolds, PTL DEF AllOrNothing

\* A session of the dashboard keeps its shop.
THEOREM ShopStays == PartsSpec => ShopIsKept
BY DashboardPart, ShopIsKeptAlways, PTL DEF ShopIsKept

\* What is stored once stays: an intent, the job of an event and the trigger of a slot.
THEOREM RowsStay == PartsSpec => RowsAreKept
BY IntentsPart, StoredIntentsStayHolds, MemoryPart, MemoryImplementsQueue, SlotsPart, SlotsHold, PTL
   DEF RowsAreKept

\* No scope admits more than its limit.
THEOREM LimitsStay == PartsSpec => LimitsAreKept
BY LimitsPart, LimitsHold, PTL DEF LimitsAreKept

\* A run whose lease was taken over does not end its successor's command.
THEOREM HolderStays == PartsSpec => HolderSettles
BY ExchangePart, HolderEndsIt, PTL
=============================================================================
