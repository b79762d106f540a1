--------------------------- MODULE ScheduleSlots ---------------------------
(***************************************************************************)
(* materializeSchedule of the PostgreSQL queue: schedulers that call it    *)
(* for one slot, at once or again, with trigger ids of their own. A call   *)
(* is a transaction of one INSERT and, when the slot is taken, one SELECT. *)
(***************************************************************************)
CONSTANTS Schedulers, Slots, TriggerIds, None

SlotsAssumption == None \notin TriggerIds \cup Slots

VARIABLES
  rows,     \* scheduled_triggers that are committed, by slot
  calls,    \* the call of each scheduler
  answers   \* history: what was answered, of which slot

vars == <<rows, calls, answers>>

\* phase "inserted" is an INSERT that is not committed, "taken" one that found the slot.
NoCall == [phase |-> "idle", slot |-> None, trigger |-> None]

TypeOK ==
  /\ rows \in [Slots -> TriggerIds \cup {None}]
  /\ calls \in [Schedulers -> [phase : {"idle", "called", "inserted", "taken", "found"},
                               slot : Slots \cup {None}, trigger : TriggerIds \cup {None}]]
  /\ answers \subseteq [slot : Slots, trigger : TriggerIds]

Init ==
  /\ rows = [s \in Slots |-> None]
  /\ calls = [p \in Schedulers |-> NoCall]
  /\ answers = {}

-----------------------------------------------------------------------------
Call(p, s, t) ==
  /\ calls[p].phase = "idle"
  /\ calls' = [calls EXCEPT ![p] = [phase |-> "called", slot |-> s, trigger |-> t]]
  /\ UNCHANGED <<rows, answers>>

\* pg_advisory_xact_lock of the slot, to the end of the transaction.
Locked(s) == \E q \in Schedulers : calls[q].slot = s /\ calls[q].phase \in {"inserted", "taken", "found"}

\* The primary key: an id that another transaction has inserted and not committed is
\* waited for, one that is stored raises.
Pending(t) == \E q \in Schedulers : calls[q].phase = "inserted" /\ calls[q].trigger = t
Stored(t) == \E s \in Slots : rows[s] = t

\* ON CONFLICT of the slot DO NOTHING, whatever the trigger id.
Insert(p) ==
  LET c == calls[p] IN
  /\ c.phase = "called" /\ ~Locked(c.slot)
  /\ rows[c.slot] = None => ~Pending(c.trigger)
  /\ calls' = [calls EXCEPT ![p] =
       IF rows[c.slot] # None THEN [c EXCEPT !.phase = "taken"]
       ELSE IF Stored(c.trigger) THEN NoCall ELSE [c EXCEPT !.phase = "inserted"]]
  /\ UNCHANGED <<rows, answers>>

\* The SELECT of the slot.
Find(p) ==
  /\ calls[p].phase = "taken"
  /\ calls' = [calls EXCEPT ![p].phase = "found", ![p].trigger = rows[calls[p].slot]]
  /\ UNCHANGED <<rows, answers>>

\* COMMIT: an insert is stored, and the trigger inserted or found is answered, unless the
\* answer to COMMIT is lost.
Commit(p, heard) ==
  LET c == calls[p] IN
  /\ c.phase \in {"inserted", "found"}
  /\ rows' = IF c.phase = "inserted" THEN [rows EXCEPT ![c.slot] = c.trigger] ELSE rows
  /\ answers' = IF heard THEN answers \cup {[slot |-> c.slot, trigger |-> c.trigger]} ELSE answers
  /\ calls' = [calls EXCEPT ![p] = NoCall]

\* A statement fails, or the scheduler dies.
RollBack(p) ==
  /\ calls[p].phase # "idle"
  /\ calls' = [calls EXCEPT ![p] = NoCall]
  /\ UNCHANGED <<rows, answers>>

Next ==
  \E p \in Schedulers :
    \/ \E s \in Slots, t \in TriggerIds : Call(p, s, t)
    \/ Insert(p) \/ Find(p) \/ RollBack(p)
    \/ \E heard \in BOOLEAN : Commit(p, heard)

Spec == Init /\ [][Next]_vars

-----------------------------------------------------------------------------
\* Whoever is answered about a slot is told its one trigger, which stays, and no trigger
\* is of two slots.
SlotsAreKept ==
  /\ [](\A a \in answers : rows[a.slot] = a.trigger)
  /\ [](\A s, r \in Slots : rows[s] # None /\ rows[s] = rows[r] => s = r)
=============================================================================
