------------------------- MODULE CredentialRefresh -------------------------
(***************************************************************************)
(* The refresh of one shop's Shopee credential. Web processes resolve an   *)
(* access token for the catalog and the other readers: from their cache,   *)
(* or by rotating the refresh token of the shop's credential subject under *)
(* a row lock that is held across the call to Shopee.                      *)
(*                                                                         *)
(* The transaction of withRefreshLease is many steps here, because the     *)
(* lock, the call and the COMMIT can fail one by one; the reads before it  *)
(* are not locked. A refresh token is the number of its rotation; Shopee   *)
(* accepts the last one it gave out.                                       *)
(***************************************************************************)
EXTENDS Naturals, FiniteSets

CONSTANTS
  Subjects,      \* credential subjects the shop may be bound to
  Processes,     \* web processes, each with a cache of its own
  MaxRotations,  \* bound: connections and rotations
  MaxFailures,   \* bound: crashes, lost answers and failed commits
  None

ASSUME RefreshAssumption ==
  /\ MaxRotations \in Nat
  /\ MaxFailures \in Nat
  /\ None \notin Subjects \cup Processes

VARIABLES
  subjects,  \* credential_subjects: status, revision, token, expires_at
  bindings,  \* shop_credential_bindings of the shop: status
  locks,     \* who holds the row lock of a subject
  live,      \* the rotation of each subject's token that Shopee accepts
  procs,     \* each process's refresh: step, subject, revision read, token got
  cache,     \* the access token a process serves, by subject and rotation
  waiting,   \* processes with requests that wait for an access token
  spoiled,   \* subjects whose rotation at Shopee never reached the database
  now,       \* the clock, ticked by connections and rotations
  failures

vars == <<subjects, bindings, locks, live, procs, cache, waiting, spoiled, now, failures>>

NoSubject == [status |-> "absent", revision |-> 0, token |-> 0, expires |-> 0]
Idle == [pc |-> "idle", job |-> None, revision |-> 0, token |-> 0, expires |-> 0]
NoAccess == [job |-> None, token |-> 0]

SubjectRows ==
  [status : {"absent", "active", "reauth_required"},
   revision : Nat, token : Nat, expires : Nat]

Steps == {"idle", "chosen", "asking", "rotated", "holding", "unknown", "serving"}

Refreshes ==
  [pc : Steps, job : Subjects \cup {None}, revision : Nat, token : Nat, expires : Nat]

Accesses == [job : Subjects \cup {None}, token : Nat]

TypeOK ==
  /\ subjects \in [Subjects -> SubjectRows]
  /\ bindings \in [Subjects -> {"absent", "active", "reauth_required"}]
  /\ locks \in [Subjects -> Processes \cup {None}]
  /\ live \in [Subjects -> Nat]
  /\ procs \in [Processes -> Refreshes]
  /\ cache \in [Processes -> Accesses]
  /\ waiting \subseteq Processes
  /\ spoiled \subseteq Subjects
  /\ now \in Nat
  /\ failures \in Nat
  /\ \A s \in Subjects :  \* a CHECK
       subjects[s].status # "absent" => subjects[s].revision > 0

Init ==
  /\ subjects = [s \in Subjects |-> NoSubject]
  /\ bindings = [s \in Subjects |-> "absent"]
  /\ locks = [s \in Subjects |-> None]
  /\ live = [s \in Subjects |-> 0]
  /\ procs = [p \in Processes |-> Idle]
  /\ cache = [p \in Processes |-> NoAccess]
  /\ waiting = {}
  /\ spoiled = {}
  /\ now = 0
  /\ failures = 0

-----------------------------------------------------------------------------
At(p, pc) == procs[p].pc = pc
Job(p) == procs[p].job
GoTo(p, pc) == procs' = [procs EXCEPT ![p] = [@ EXCEPT !.pc = pc]]

\* Mutant: the connection goes back to the pool inside its transaction.
KeepLock(p) == UNCHANGED locks

Unlock(p) == locks' = [locks EXCEPT ![Job(p)] = None]
Usable(s) == subjects[s].status = "active" /\ bindings[s] = "active"
Fails == failures < MaxFailures /\ failures' = failures + 1

\* The refresh ends with an error, and every request that waited for it gets it.
Reject(p) ==
  /\ procs' = [procs EXCEPT ![p] = Idle]
  /\ waiting' = waiting \ {p}

\* Mutant: revisions are counted from zero.
UnrevisedSubject == [status |-> "active", revision |-> 0, token |-> 1, expires |-> now + 1]

NewSubject == [status |-> "active", revision |-> 1, token |-> 1, expires |-> now + 1]

\* The commit of an OAuth exchange: saveSubject and bindShop for a new subject.
Connect(s) ==
  /\ subjects[s].status = "absent"
  /\ now < MaxRotations
  /\ now' = now + 1
  /\ subjects' = [subjects EXCEPT ![s] = NewSubject]
  /\ bindings' = [bindings EXCEPT ![s] = "active"]
  /\ live' = [live EXCEPT ![s] = 1]
  /\ UNCHANGED <<locks, procs, cache, waiting, spoiled, failures>>

\* A request is served from the cache, or joins or starts a refresh.
Request(p) ==
  /\ cache[p] = NoAccess
  /\ p \notin waiting
  /\ waiting' = waiting \cup {p}
  /\ UNCHANGED <<subjects, bindings, locks, live, procs, cache, spoiled, now, failures>>

\* The cached access token reaches its INLINE_ACCESS_TTL_MS.
CacheExpires(p) ==
  /\ cache[p] # NoAccess
  /\ cache' = [cache EXCEPT ![p] = NoAccess]
  /\ UNCHANGED <<subjects, bindings, locks, live, procs, waiting, spoiled, now, failures>>

\* resolveFresh reads, without a lock, the shop's usable subject that expires last.
Choose(p) ==
  /\ At(p, "idle") /\ p \in waiting
  /\ \E s \in Subjects :
       /\ Usable(s)
       /\ \A t \in Subjects : Usable(t) => subjects[t].expires <= subjects[s].expires
       /\ procs' = [procs EXCEPT ![p] =
            [Idle EXCEPT !.pc = "chosen", !.job = s, !.revision = subjects[s].revision]]
  /\ UNCHANGED <<subjects, bindings, locks, live, cache, waiting, spoiled, now, failures>>

NotBound(p) ==
  /\ At(p, "idle") /\ p \in waiting
  /\ ~\E s \in Subjects : Usable(s)
  /\ Reject(p)
  /\ UNCHANGED <<subjects, bindings, locks, live, cache, spoiled, now, failures>>

\* Mutant: the revision is not compared once the row is locked.
FreshStatusOnly(p) == subjects[Job(p)].status = "active"

\* Mutant: the status is not looked at.
FreshRevisionOnly(p) == subjects[Job(p)].revision = procs[p].revision

\* What withRefreshLease asks of the row it has locked.
Fresh(p) ==
  /\ subjects[Job(p)].revision = procs[p].revision
  /\ subjects[Job(p)].status = "active"

\* SELECT ... FOR UPDATE, and the token is opened and sent.
Lock(p) ==
  /\ At(p, "chosen")
  /\ locks[Job(p)] = None
  /\ Fresh(p)
  /\ locks' = [locks EXCEPT ![Job(p)] = p]
  /\ GoTo(p, "asking")
  /\ UNCHANGED <<subjects, bindings, live, cache, waiting, spoiled, now, failures>>

\* stale_credential_revision, or the subject needs reauthorization.
LockRefused(p) ==
  /\ At(p, "chosen")
  /\ locks[Job(p)] = None
  /\ ~Fresh(p)
  /\ Reject(p)
  /\ UNCHANGED <<subjects, bindings, locks, live, cache, spoiled, now, failures>>

\* The lock does not come within the query timeout, or a connection fails.
LockFails(p) ==
  /\ At(p, "chosen")
  /\ Fails
  /\ Reject(p)
  /\ UNCHANGED <<subjects, bindings, locks, live, cache, spoiled, now>>

\* Shopee rotates the token it gave out last. (A request it handles after the
\* process died has the effect of one it handled just before.)
ProviderRotates(p) ==
  /\ At(p, "asking")
  /\ subjects[Job(p)].token = live[Job(p)]
  /\ now < MaxRotations
  /\ now' = now + 1
  /\ live' = [live EXCEPT ![Job(p)] = @ + 1]
  /\ GoTo(p, "rotated")
  /\ UNCHANGED <<subjects, bindings, locks, cache, waiting, spoiled, failures>>

\* Shopee refuses an old token, and any token at the bound.
ProviderRefuses(p) ==
  /\ At(p, "asking")
  /\ subjects[Job(p)].token # live[Job(p)] \/ now = MaxRotations
  /\ GoTo(p, "unknown")
  /\ UNCHANGED <<subjects, bindings, locks, live, cache, waiting, spoiled, now, failures>>

\* Mutant: the access token is cached as soon as Shopee has given it out.
ReceiveAndCache(p) ==
  /\ At(p, "rotated")
  /\ procs' = [procs EXCEPT ![p] =
       [@ EXCEPT !.pc = "holding", !.token = live[Job(p)], !.expires = now]]
  /\ cache' = [cache EXCEPT ![p] = [job |-> Job(p), token |-> live[Job(p)]]]
  /\ UNCHANGED <<subjects, bindings, locks, live, waiting, spoiled, now, failures>>

\* The answer, and the end of the credential's lifetime counted from it.
ReceiveTokens(p) ==
  /\ At(p, "rotated")
  /\ procs' = [procs EXCEPT ![p] =
       [@ EXCEPT !.pc = "holding", !.token = live[Job(p)], !.expires = now]]
  /\ UNCHANGED <<subjects, bindings, locks, live, cache, waiting, spoiled, now, failures>>

\* The envelope does not open, the call or its answer is lost or malformed,
\* or the new token cannot be sealed: outcome_unknown.
LoseOutcome(p) ==
  /\ procs[p].pc \in {"asking", "rotated", "holding"}
  /\ Fails
  /\ GoTo(p, "unknown")
  /\ UNCHANGED <<subjects, bindings, locks, live, cache, waiting, spoiled, now>>

\* Mutant: only the subject is fenced, not its bindings.
FenceSubject(s) ==
  /\ subjects' = [subjects EXCEPT ![s].status = "reauth_required"]
  /\ UNCHANGED bindings

Fence(s) ==
  /\ subjects' = [subjects EXCEPT ![s].status = "reauth_required"]
  /\ bindings' = [bindings EXCEPT ![s] = IF @ = "active" THEN "reauth_required" ELSE @]

\* persistRefreshOutcome, outcome_unknown.
CommitUnknown(p) ==
  /\ At(p, "unknown")
  /\ Fence(Job(p))
  /\ Unlock(p)
  /\ Reject(p)
  /\ UNCHANGED <<live, cache, spoiled, now, failures>>

\* The UPDATE of a rotation: its WHERE asks for the revision read at first.
Rotated(p) ==
  IF subjects[Job(p)].revision = procs[p].revision
    THEN [subjects[Job(p)] EXCEPT !.status = "active", !.revision = @ + 1,
                                  !.token = procs[p].token,
                                  !.expires = procs[p].expires]
    ELSE subjects[Job(p)]

\* persistRefreshOutcome, rotated: afterwards the access token is served,
\* unless the answer to the COMMIT is lost.
CommitRotation(p) ==
  /\ At(p, "holding")
  /\ subjects' = [subjects EXCEPT ![Job(p)] = Rotated(p)]
  /\ Unlock(p)
  /\ \/ /\ GoTo(p, "serving")
        /\ UNCHANGED <<waiting, failures>>
     \/ Fails /\ Reject(p)
  /\ UNCHANGED <<bindings, live, cache, spoiled, now>>

\* A rotation that is rolled back leaves the database with a dead token.
Spoil(p) ==
  spoiled' = IF live[Job(p)] # subjects[Job(p)].token THEN spoiled \cup {Job(p)} ELSE spoiled

\* The transaction fails: its lock goes and nothing is written.
RollBack(p) ==
  /\ procs[p].pc \in {"asking", "rotated", "holding", "unknown"}
  /\ Fails
  /\ Spoil(p)
  /\ Unlock(p)
  /\ Reject(p)
  /\ UNCHANGED <<subjects, bindings, live, cache, now>>

\* The access token is cached for the requests that wait and for later ones.
Serve(p) ==
  /\ At(p, "serving")
  /\ cache' = [cache EXCEPT ![p] = [job |-> Job(p), token |-> procs[p].token]]
  /\ Reject(p)
  /\ UNCHANGED <<subjects, bindings, locks, live, spoiled, now, failures>>

\* The process dies: its cache and its connections go with it.
Crash(p) ==
  /\ Fails
  /\ cache' = [cache EXCEPT ![p] = NoAccess]
  /\ IF At(p, "idle") \/ locks[Job(p)] # p
       THEN UNCHANGED <<locks, spoiled>>
       ELSE Unlock(p) /\ Spoil(p)
  /\ Reject(p)
  /\ UNCHANGED <<subjects, bindings, live, now>>

Refresh(p) ==
  \/ Choose(p)
  \/ NotBound(p)
  \/ Lock(p)
  \/ LockRefused(p)
  \/ ProviderRotates(p)
  \/ ProviderRefuses(p)
  \/ ReceiveTokens(p)
  \/ CommitUnknown(p)
  \/ CommitRotation(p)
  \/ Serve(p)

Next ==
  \/ \E s \in Subjects : Connect(s)
  \/ \E p \in Processes :
       \/ Request(p)
       \/ CacheExpires(p)
       \/ Refresh(p)
       \/ LockFails(p)
       \/ LoseOutcome(p)
       \/ RollBack(p)
       \/ Crash(p)

Spec == Init /\ [][Next]_vars

\* A refresh that was started goes on; PostgreSQL grants a free row lock to
\* one who waits for it; Shopee answers or refuses. The last is an assumption
\* on Shopee: refreshAccessToken sets no timeout.
Fairness == \A p \in Processes : SF_vars(Refresh(p))

FairSpec == Spec /\ Fairness

-----------------------------------------------------------------------------
(* Properties.                                                             *)

\* Whoever holds the row lock of a subject works on it.
Working(s) == \E p \in Processes : locks[s] = p

\* The stored token is the one Shopee accepts, unless a rotation was rolled
\* back: no interleaving of processes loses a token.
CurrentToken ==
  \A s \in Subjects :
    subjects[s].status = "active" /\ ~Working(s) /\ s \notin spoiled
      => subjects[s].token = live[s]

\* A subject that needs reauthorization is not sent to Shopee again, by a
\* process that read it before it was fenced either.
FencedIsNotAsked ==
  \A p \in Processes :
    procs[p].pc \in {"asking", "rotated", "holding"} =>
      subjects[Job(p)].status = "active" /\ locks[Job(p)] = p

\* A subject and its binding are usable or fenced together.
FencedTogether == \A s \in Subjects : bindings[s] = subjects[s].status

\* An access token that is served was committed with its refresh token: what
\* a process caches is never ahead of the database.
ServedIsCommitted ==
  \A p \in Processes :
    cache[p] # NoAccess => cache[p].token <= subjects[cache[p].job].token

\* Only a new connection makes a shop usable again: a fenced subject stays so.
FencedStays ==
  [][\A s \in Subjects :
       subjects[s].status = "reauth_required" => subjects'[s] = subjects[s]]_vars

\* A request for an access token is answered, with a token or an error.
RequestsAnswered == \A p \in Processes : p \in waiting ~> p \notin waiting

\* "crash setelah possible rotation menjadi unknown/reauth, bukan stale retry"
\* (docs/requirements/acceptance-criteria.md:11): a token that Shopee has
\* replaced is not sent again. It is after a rotation that was rolled back.
NoStaleRetry ==
  \A p \in Processes : At(p, "asking") => subjects[Job(p)].token = live[Job(p)]
=============================================================================
