--------------------------- MODULE OAuthExchange ---------------------------
(***************************************************************************)
(* Connecting a Shopee shop. The web issues a state for an actor, the      *)
(* callback hands its code to a durable exchange command, and workers      *)
(* lease the command, send the code to Shopee, commit the grant and settle *)
(* the command.                                                            *)
(*                                                                         *)
(* A callback, a claim, a commit and a settlement are one transaction or   *)
(* one statement each. A worker's steps between them are not: the lease    *)
(* can lapse and the worker can die at every point. An attempt stands for  *)
(* its state, its command and its envelope. A deadline is the fact of      *)
(* having passed: the only thing the code compares an instant with.        *)
(***************************************************************************)
EXTENDS Naturals

CONSTANTS
  Attempts,     \* OAuth attempts: one state and at most one command each
  Actors,       \* signed-in owners
  Codes,        \* callback codes Shopee may issue for one state
  Workers,      \* worker runs, each with a worker id of its own
  MaxMishaps,   \* bound: how often worker runs die or outlive their lease
  None

ASSUME ExchangeAssumption ==
  /\ MaxMishaps \in Nat
  /\ None \notin Actors \cup Codes \cup Workers \cup Attempts

VARIABLES
  states,    \* oauth_states: status and actor
  overdue,   \* attempts whose state's expires_at has passed
  commands,  \* oauth_exchange_commands: status, lease owner, sealed code
  lapsed,    \* attempts whose lease_expires_at has passed
  grants,    \* how many grants, with credential and binding, an attempt has
  workers,   \* where each worker run is, and with which attempt
  spent,     \* the codes Shopee has exchanged
  sent,      \* attempts whose code was ever sent to Shopee
  replies,   \* the last answer to a callback, and to whom
  mishaps

vars == <<states, overdue, commands, lapsed, grants, workers, spent, sent, replies, mishaps>>
web == <<states, overdue, replies>>

NoCommand == [status |-> "absent", owner |-> None, code |-> None]
Idle == [pc |-> "idle", job |-> None]
Denials == {"state_expired", "state_actor_mismatch", "state_already_claimed"}

CommandRows ==
  [status : {"absent", "pending", "processing", "completed", "failed"},
   owner : Workers \cup {None},
   code : Codes \cup {None}]

RunStates ==
  [pc : {"idle", "claimed", "waiting", "answered", "exchanged", "committed", "failing"},
   job : Attempts \cup {None}]

TypeOK ==
  /\ states \in [Attempts -> [status : {"absent", "issued", "claimed", "expired"},
                              actor : Actors \cup {None}]]
  /\ overdue \subseteq Attempts
  /\ commands \in [Attempts -> CommandRows]
  /\ lapsed \subseteq Attempts
  /\ grants \in [Attempts -> Nat]
  /\ workers \in [Workers -> RunStates]
  /\ spent \subseteq Attempts \X Codes
  /\ sent \subseteq Attempts
  /\ replies \in [Attempts -> [to : Actors \cup {None},
                               kind : {"none", "accepted", "duplicate"} \cup Denials]]
  /\ mishaps \in Nat
  /\ \A a \in Attempts :  \* a CHECK
       commands[a].status = "processing" => commands[a].owner # None

Init ==
  /\ states = [a \in Attempts |-> [status |-> "absent", actor |-> None]]
  /\ overdue = {}
  /\ commands = [a \in Attempts |-> NoCommand]
  /\ lapsed = {}
  /\ grants = [a \in Attempts |-> 0]
  /\ workers = [w \in Workers |-> Idle]
  /\ spent = {}
  /\ sent = {}
  /\ replies = [a \in Attempts |-> [to |-> None, kind |-> "none"]]
  /\ mishaps = 0

-----------------------------------------------------------------------------
(* The web.                                                                *)

\* createOAuthStartApiHandler: a new random state, saved before it is given out.
Start(a, actor) ==
  /\ states[a].status = "absent"
  /\ states' = [states EXCEPT ![a] = [status |-> "issued", actor |-> actor]]
  /\ UNCHANGED <<overdue, commands, lapsed, grants, workers, spent, sent, replies, mishaps>>

\* expires_at passes.
StateLapses(a) ==
  /\ states[a].status # "absent"
  /\ a \notin overdue
  /\ overdue' = overdue \cup {a}
  /\ UNCHANGED <<states, commands, lapsed, grants, workers, spent, sent, replies, mishaps>>

Expired(a) == a \in overdue \/ states[a].status = "expired"

Answer(a, actor, kind) == replies' = [replies EXCEPT ![a] = [to |-> actor, kind |-> kind]]

\* Mutant: only expiry protects a state, and the command is overwritten.
FirstUse(a) == states[a].status \in {"issued", "claimed"}

\* The callback may create the command: nobody used the state before.
Usable(a) == states[a].status = "issued"

\* Mutant: the UPDATE does not ask for status = 'issued'.
DenyExpiredAnyway(a, actor) ==
  /\ states[a].status # "absent"
  /\ Expired(a)
  /\ states' = [states EXCEPT ![a].status = "expired"]
  /\ Answer(a, actor, "state_expired")
  /\ UNCHANGED <<overdue, commands, lapsed, grants, workers, spent, sent, mishaps>>

\* accept: the state is locked, and expiry, actor and earlier use are
\* checked in this order.
DenyExpired(a, actor) ==
  /\ states[a].status # "absent"
  /\ Expired(a)
  /\ states' = [states EXCEPT ![a].status = IF @ = "issued" THEN "expired" ELSE @]
  /\ Answer(a, actor, "state_expired")
  /\ UNCHANGED <<overdue, commands, lapsed, grants, workers, spent, sent, mishaps>>

DenyActor(a, actor) ==
  /\ states[a].status # "absent"
  /\ ~Expired(a)
  /\ states[a].actor # actor
  /\ Answer(a, actor, "state_actor_mismatch")
  /\ UNCHANGED <<states, overdue, commands, lapsed, grants, workers, spent, sent, mishaps>>

\* existingHandoff: a claimed state whose command is missing is denied.
ReadExisting(a, actor) ==
  /\ states[a].status = "claimed"
  /\ ~Expired(a)
  /\ states[a].actor = actor
  /\ Answer(a, actor, IF commands[a].status = "absent" THEN "state_already_claimed"
                                                        ELSE "duplicate")
  /\ UNCHANGED <<states, overdue, commands, lapsed, grants, workers, spent, sent, mishaps>>

\* The command and its envelope are inserted with the state's claim.
Accept(a, actor, c) ==
  /\ Usable(a)
  /\ ~Expired(a)
  /\ states[a].actor = actor
  /\ commands' = [commands EXCEPT ![a] = [status |-> "pending", owner |-> None, code |-> c]]
  /\ states' = [states EXCEPT ![a].status = "claimed"]
  /\ Answer(a, actor, "accepted")
  /\ UNCHANGED <<overdue, lapsed, grants, workers, spent, sent, mishaps>>

Callback(a, actor) ==
  \/ DenyExpired(a, actor)
  \/ DenyActor(a, actor)
  \/ ReadExisting(a, actor)
  \/ \E c \in Codes : Accept(a, actor, c)

-----------------------------------------------------------------------------
(* The queue.                                                              *)

Settled(a) == commands[a].status \in {"completed", "failed"}

\* Mutant: a failed command is tried again.
ClaimableAfterFailure(a) ==
  \/ commands[a].status \in {"pending", "failed"}
  \/ commands[a].status = "processing" /\ a \in lapsed

\* Mutant: a lease never lapses.
ClaimableOnce(a) == commands[a].status = "pending"

Claimable(a) ==
  \/ commands[a].status = "pending"
  \/ commands[a].status = "processing" /\ a \in lapsed

\* Mutant: a claim does not record whose it is.
LeaseUnowned(w, a) == [commands EXCEPT ![a].status = "processing"]

Lease(w, a) == [commands EXCEPT ![a] = [@ EXCEPT !.status = "processing", !.owner = w]]

\* claimNext: any claimable command, since rows locked by others are skipped.
ClaimNext(w, a) ==
  /\ workers[w].pc = "idle"
  /\ Claimable(a)
  /\ commands' = Lease(w, a)
  /\ lapsed' = lapsed \ {a}
  /\ workers' = [workers EXCEPT ![w] = [pc |-> "claimed", job |-> a]]
  /\ UNCHANGED <<web, grants, spent, sent, mishaps>>

\* lease_expires_at passes. The worker is not told; that it still works is a
\* mishap (a lease lasts 30 to 300 s, a request or query 12 s).
LeaseLapses(a) ==
  /\ commands[a].status = "processing"
  /\ a \notin lapsed
  /\ lapsed' = lapsed \cup {a}
  /\ IF workers[commands[a].owner].job = a
       THEN mishaps < MaxMishaps /\ mishaps' = mishaps + 1
       ELSE UNCHANGED mishaps
  /\ UNCHANGED <<web, commands, grants, workers, spent, sent>>

\* Mutant: the UPDATE does not ask whose lease it is.
HoldsAnyLease(w) == commands[workers[w].job].status = "processing"

\* WHERE status = 'processing' AND lease_owner = the worker.
HoldsLease(w) ==
  /\ commands[workers[w].job].status = "processing"
  /\ commands[workers[w].job].owner = w

Settle(w, status) ==
  [commands EXCEPT ![workers[w].job] = [@ EXCEPT !.status = status, !.owner = None]]

-----------------------------------------------------------------------------
(* A worker run: runOAuthExchangeWorkerOnce.                               *)

At(w, pc) == workers[w].pc = pc
GoTo(w, pc) == workers' = [workers EXCEPT ![w].pc = pc]
Leave(w) == workers' = [workers EXCEPT ![w] = Idle]
CodeOf(a) == <<a, commands[a].code>>

\* The envelope is opened and the code sent.
SendCode(w) ==
  /\ At(w, "claimed")
  /\ GoTo(w, "waiting")
  /\ sent' = sent \cup {workers[w].job}
  /\ UNCHANGED <<web, commands, lapsed, grants, spent, mishaps>>

\* Shopee, which exchanges a code once.
ProviderExchanges(w) ==
  /\ At(w, "waiting")
  /\ CodeOf(workers[w].job) \notin spent
  /\ spent' = spent \cup {CodeOf(workers[w].job)}
  /\ GoTo(w, "answered")
  /\ UNCHANGED <<web, commands, lapsed, grants, sent, mishaps>>

\* The tokens arrive, and the shop name is read if it can be.
ReceiveTokens(w) ==
  /\ At(w, "answered")
  /\ GoTo(w, "exchanged")
  /\ UNCHANGED <<web, commands, lapsed, grants, spent, sent, mishaps>>

\* The catch of runOAuthExchangeWorkerOnce: the envelope does not open,
\* Shopee refuses, the answer is lost, the commit is refused or rolled back,
\* or complete() throws.
StepFails(w) ==
  /\ workers[w].pc \in {"claimed", "waiting", "answered", "exchanged", "committed"}
  /\ GoTo(w, "failing")
  /\ UNCHANGED <<web, commands, lapsed, grants, spent, sent, mishaps>>

\* Mutant: persistence is left to a provider that does not commit.
CommitNowhere(w) ==
  /\ At(w, "exchanged")
  /\ GoTo(w, "committed")
  /\ UNCHANGED <<web, commands, lapsed, grants, spent, sent, mishaps>>

\* PostgresOAuthExchangeCommitter.commit: shop name, credential, binding and
\* grant in one transaction, which does not ask for the lease. The answer to
\* its COMMIT may be lost.
CommitGrant(w) ==
  /\ At(w, "exchanged")
  /\ grants' = [grants EXCEPT ![workers[w].job] = @ + 1]
  /\ GoTo(w, "committed") \/ GoTo(w, "failing")
  /\ UNCHANGED <<web, commands, lapsed, spent, sent, mishaps>>

\* complete: it throws when the lease is not the worker's, and the answer to
\* its UPDATE may be lost; both lead to fail.
Complete(w) ==
  /\ At(w, "committed")
  /\ HoldsLease(w)
  /\ commands' = Settle(w, "completed")
  /\ Leave(w) \/ GoTo(w, "failing")
  /\ UNCHANGED <<web, lapsed, grants, spent, sent, mishaps>>

Fail(w) ==
  /\ At(w, "failing")
  /\ HoldsLease(w)
  /\ commands' = Settle(w, "failed")
  /\ Leave(w)
  /\ UNCHANGED <<web, lapsed, grants, spent, sent, mishaps>>

\* fail throws stale_lease, and the batch ends.
FailStale(w) ==
  /\ At(w, "failing")
  /\ ~HoldsLease(w)
  /\ Leave(w)
  /\ UNCHANGED <<web, commands, lapsed, grants, spent, sent, mishaps>>

\* The process dies, or fail() itself cannot be written.
Crash(w) ==
  /\ ~At(w, "idle")
  /\ mishaps < MaxMishaps
  /\ mishaps' = mishaps + 1
  /\ Leave(w)
  /\ UNCHANGED <<web, commands, lapsed, grants, spent, sent>>

Run(w) ==
  \/ SendCode(w)
  \/ ProviderExchanges(w)
  \/ ReceiveTokens(w)
  \/ StepFails(w)
  \/ CommitGrant(w)
  \/ Complete(w)
  \/ Fail(w)
  \/ FailStale(w)

Next ==
  \/ \E a \in Attempts :
       \/ \E actor \in Actors : Start(a, actor) \/ Callback(a, actor)
       \/ StateLapses(a)
       \/ LeaseLapses(a)
       \/ \E w \in Workers : ClaimNext(w, a)
  \/ \E w \in Workers : Run(w) \/ Crash(w)

Spec == Init /\ [][Next]_vars

\* The inline worker runs every INLINE_WORKER_INTERVAL_MS and the scheduled
\* one is started again and again, so somebody claims; every step of a run
\* ends (queries and requests have timeouts); time passes, and only
\* finitely many runs die or take longer than their lease.
Fairness ==
  /\ \A a \in Attempts : SF_vars(\E w \in Workers : ClaimNext(w, a))
  /\ \A a \in Attempts : WF_vars(LeaseLapses(a))
  /\ \A w \in Workers : WF_vars(Run(w))

FairSpec == Spec /\ Fairness

-----------------------------------------------------------------------------
(* Properties.                                                             *)

\* A state is claimed exactly when its exchange command exists with its code,
\* an expired one never gets a command, a lease has an owner exactly while the command
\* is processing, and so no callback is told that its command is missing.
Handoff ==
  \A a \in Attempts :
    /\ states[a].status = "claimed" <=> commands[a].status # "absent"
    /\ commands[a].code # None <=> commands[a].status # "absent"
    /\ commands[a].status = "processing" <=> commands[a].owner # None
    /\ replies[a].kind # "state_already_claimed"

\* An attempt connects its shop at most once, however often its callback and
\* its command are delivered.
SingleGrant == \A a \in Attempts : grants[a] <= 1

\* A command reported completed has its grant, credential and binding: a
\* worker that took the command over cannot complete it for another's work.
CompletedHasGrant ==
  \A a \in Attempts : commands[a].status = "completed" => grants[a] = 1

\* A grant comes from an accepted callback whose code Shopee exchanged.
GrantNeedsCallback ==
  \A a \in Attempts :
    grants[a] > 0 => states[a].status = "claimed" /\ a \in sent /\ CodeOf(a) \in spent

\* What the tables report was earned: neither a completed command without its grant nor
\* a grant without its callback, whichever run died, was overtaken or worked on.
GrantsAreEarned == CompletedHasGrant /\ GrantNeedsCallback

\* What a worker run holds agrees with the tables, whoever holds the lease:
\* its command exists, its code was sent once it waits for an answer, the one
\* exchange of a code yields one run that carries the tokens until their grant
\* is committed, and a run that has committed is the one whose grant it is.
Carries(w) == workers[w].pc \in {"answered", "exchanged"}

Carriers ==
  /\ \A w \in Workers :
       /\ At(w, "idle") <=> workers[w].job = None
       /\ ~At(w, "idle") => commands[workers[w].job].status # "absent"
       /\ At(w, "waiting") \/ Carries(w) => workers[w].job \in sent
       /\ Carries(w) => /\ grants[workers[w].job] = 0
                        /\ CodeOf(workers[w].job) \in spent
       /\ At(w, "committed") => grants[workers[w].job] = 1
  /\ \A v, w \in Workers :
       Carries(v) /\ Carries(w) /\ workers[v].job = workers[w].job => v = w
  /\ \A p \in spent :
       /\ commands[p[1]].status # "absent"
       /\ commands[p[1]].code = p[2]
       /\ p[1] \in sent

\* The rows of an attempt agree with each other and with every run that works on it.
RunsAgree == Handoff /\ Carriers

\* A command is settled by the run that holds its lease, while it works on
\* it: a run whose lease was taken over cannot end its successor's command.
HolderSettles ==
  [][\A a \in Attempts :
       ~Settled(a) /\ Settled(a)' =>
         \E w \in Workers :
           /\ commands[a].owner = w
           /\ workers[w].job = a
           /\ workers'[w] # workers[w]]_vars

\* A settled command is never leased or settled again, and the code it
\* exchanged is never replaced by a later callback's.
SettledStays ==
  [][\A a \in Attempts :
       /\ Settled(a) => commands'[a] = commands[a]
       /\ commands[a].status # "absent" => commands'[a].code = commands[a].code]_vars

\* An accepted callback ends: its command is completed or failed although
\* workers die and leases lapse, finitely often.
CommandsSettle ==
  \A a \in Attempts : (commands[a].status = "pending") ~> Settled(a)

\* "Unknown exchange tidak boleh blind replay jika code replay safety belum
\* terbukti" (docs/requirements/credential-subject-model.md:20): a code is
\* not sent a second time. claimNext does it after a lapsed lease.
NoBlindReplay ==
  [][\A w \in Workers :
       At(w, "claimed") /\ At(w, "waiting")' => workers[w].job \notin sent]_vars

\* "Duplicate callback membaca hasil durable" (the same line): the actor whose
\* callback was accepted is not told that the state expired. accept tests the
\* expiry before it looks for the existing command.
DuplicateReadsResult ==
  \A a \in Attempts :
    states[a].status = "claimed" /\ replies[a].to = states[a].actor
      => replies[a].kind \in {"accepted", "duplicate"}
=============================================================================
