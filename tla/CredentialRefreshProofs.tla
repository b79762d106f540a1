---------------------- MODULE CredentialRefreshProofs ----------------------
(***************************************************************************)
(* Theorems about CredentialRefresh for every set of subjects and          *)
(* processes and any number of rotations and failures.                     *)
(*                                                                         *)
(* The inductive invariant adds to the properties what the row lock means: *)
(* who is between the lock and the COMMIT holds the lock, and the row is   *)
(* still the one it compared (Refreshing), and the stored token is never   *)
(* ahead of Shopee (Tokens).                                               *)
(***************************************************************************)
EXTENDS CredentialRefresh, TLAPS

Locked(p) == procs[p].pc \in {"asking", "rotated", "holding", "unknown"}

Refreshing ==
  /\ \A p \in Processes : ~At(p, "idle") => Job(p) \in Subjects
  /\ \A p \in Processes : Locked(p) => locks[Job(p)] = p /\ Fresh(p)
  /\ \A s \in Subjects, p \in Processes : locks[s] = p => Job(p) = s /\ Locked(p)
  /\ \A p \in Processes : At(p, "holding") => procs[p].token = live[Job(p)]
  /\ \A p \in Processes : At(p, "serving") => procs[p].token <= subjects[Job(p)].token

Tokens ==
  \A s \in Subjects :
    /\ subjects[s].token <= live[s]
    /\ subjects[s].status = "absent" => subjects[s].token = 0

Cached ==
  \A p \in Processes :
    cache[p] # NoAccess =>
      cache[p].job \in Subjects /\ cache[p].token <= subjects[cache[p].job].token

IInv ==
  /\ TypeOK
  /\ Refreshing
  /\ Tokens
  /\ Cached
  /\ CurrentToken
  /\ FencedTogether

USE RefreshAssumption

LEMMA InitIInv == Init => IInv
  BY DEF Init, IInv, TypeOK, Refreshing, Tokens, Cached, CurrentToken, FencedTogether, Locked,
         At, Idle, NoSubject, NoAccess, SubjectRows, Refreshes, Accesses, Steps

\* What a step makes of a row: a move, and each of the writes to a subject.
LEMMA Moved ==
  \A r \in Refreshes, pc \in Steps :
    /\ [r EXCEPT !.pc = pc] \in Refreshes
    /\ [r EXCEPT !.pc = pc].pc = pc
    /\ [r EXCEPT !.pc = pc].job = r.job
    /\ [r EXCEPT !.pc = pc].revision = r.revision
    /\ [r EXCEPT !.pc = pc].token = r.token
    /\ [r EXCEPT !.pc = pc].expires = r.expires
BY DEF Refreshes

LEMMA Chosen ==
  \A s \in Subjects, n \in Nat :
    /\ [Idle EXCEPT !.pc = "chosen", !.job = s, !.revision = n] \in Refreshes
    /\ [Idle EXCEPT !.pc = "chosen", !.job = s, !.revision = n].pc = "chosen"
    /\ [Idle EXCEPT !.pc = "chosen", !.job = s, !.revision = n].job = s
BY DEF Refreshes, Idle, Steps

LEMMA IdleRow == Idle \in Refreshes /\ Idle.pc = "idle"
  BY DEF Idle, Refreshes, Steps

LEMMA FencedRow ==
  \A r \in SubjectRows :
    /\ [r EXCEPT !.status = "reauth_required"] \in SubjectRows
    /\ [r EXCEPT !.status = "reauth_required"].status = "reauth_required"
    /\ [r EXCEPT !.status = "reauth_required"].revision = r.revision
    /\ [r EXCEPT !.status = "reauth_required"].token = r.token
BY DEF SubjectRows

\* The WHERE of the rotation finds the row: it is locked and was compared.
LEMMA RotatedRow ==
  ASSUME IInv, NEW p \in Processes, At(p, "holding")
  PROVE  /\ Rotated(p) \in SubjectRows
         /\ Rotated(p).status = "active"
         /\ Rotated(p).revision = subjects[Job(p)].revision + 1
         /\ Rotated(p).token = procs[p].token
<1>1. Job(p) \in Subjects /\ subjects[Job(p)].revision = procs[p].revision
  BY DEF IInv, Refreshing, Locked, At, Fresh
<1>2. subjects[Job(p)] \in SubjectRows /\ procs[p] \in Refreshes
  BY <1>1 DEF IInv, TypeOK
<1>3. PICK r \in SubjectRows, q \in Refreshes : r = subjects[Job(p)] /\ q = procs[p]
  BY <1>2
<1>4. r.revision + 1 \in Nat /\ q.token \in Nat /\ q.expires \in Nat
  BY DEF SubjectRows, Refreshes
<1>5. Rotated(p) = [r EXCEPT !.status = "active", !.revision = r.revision + 1,
                             !.token = q.token, !.expires = q.expires]
  BY <1>1, <1>3 DEF Rotated
<1>6. Rotated(p).status = "active" /\ Rotated(p).revision = r.revision + 1
  BY <1>5 DEF SubjectRows
<1>7. Rotated(p).token = q.token
  BY <1>5 DEF SubjectRows
<1>8. Rotated(p) \in SubjectRows
  BY <1>4, <1>5 DEF SubjectRows
<1> QED BY <1>3, <1>6, <1>7, <1>8

\* What a process does outside the lock changes no row.
LEMMA OutsideKeepsIInv ==
  ASSUME IInv, NEW p \in Processes,
         Request(p) \/ CacheExpires(p) \/ Choose(p) \/ NotBound(p) \/ LockRefused(p)
           \/ LockFails(p) \/ Serve(p) \/ (Crash(p) /\ ~Locked(p))
  PROVE  IInv'
<1> USE DEF IInv
<1> HIDE DEF Refreshes, SubjectRows, Accesses
<1>1. UNCHANGED <<subjects, bindings, locks, live, spoiled, now>>
  BY DEF Request, CacheExpires, Choose, NotBound, LockRefused, LockFails, Serve, Crash,
         Refreshing, Locked, At
<1>2. Tokens' /\ CurrentToken' /\ FencedTogether'
  BY <1>1 DEF Tokens, CurrentToken, Working, FencedTogether
<1>3. waiting' \subseteq Processes /\ failures' \in Nat
  <2>1. \/ UNCHANGED waiting
        \/ waiting' = waiting \cup {p}
        \/ waiting' = waiting \ {p}
    BY DEF Request, CacheExpires, Choose, NotBound, LockRefused, LockFails, Serve, Reject,
           Crash
  <2>2. UNCHANGED failures \/ failures' = failures + 1
    BY DEF Request, CacheExpires, Choose, NotBound, LockRefused, LockFails, Serve, Fails,
           Crash
  <2> QED BY <2>1, <2>2 DEF TypeOK
<1>4. ASSUME NEW r \in Refreshes, procs' = [procs EXCEPT ![p] = r], ~Locked(p),
             r.pc \in {"idle", "chosen"}, r.pc # "idle" => r.job \in Subjects
      PROVE  procs' \in [Processes -> Refreshes] /\ Refreshing'
  <2>1. procs'[p] = r /\ \A q \in Processes \ {p} : procs'[q] = procs[q]
    BY <1>4 DEF TypeOK
  <2>2. procs' \in [Processes -> Refreshes]
    BY <1>4 DEF TypeOK
  <2>3. \A q \in Processes : Locked(q)' => q # p /\ Locked(q)
    BY <1>4, <2>1 DEF Locked
  <2>4. \A q \in Processes : At(q, "holding")' \/ At(q, "serving")' => q # p
    BY <1>4, <2>1 DEF At
  <2> QED BY <1>1, <1>4, <2>1, <2>2, <2>3, <2>4 DEF Refreshing, Locked, At, Job, Fresh
<1>5. procs' \in [Processes -> Refreshes] /\ Refreshing'
  <2>1. CASE UNCHANGED procs
    BY <1>1, <2>1 DEF TypeOK, Refreshing, Locked, At, Job, Fresh
  <2>2. CASE procs' = [procs EXCEPT ![p] = Idle] /\ ~Locked(p)
    BY <2>2, <1>4, IdleRow
  <2>3. CASE Choose(p)
    <3>1. PICK s \in Subjects :
            procs' = [procs EXCEPT ![p] =
              [Idle EXCEPT !.pc = "chosen", !.job = s, !.revision = subjects[s].revision]]
      BY <2>3 DEF Choose
    <3>2. PICK n \in Nat : n = subjects[s].revision
      BY DEF TypeOK, SubjectRows
    <3>3. ~Locked(p)
      BY <2>3 DEF Choose, At, Locked
    <3>4. PICK r \in Refreshes :
            /\ r = [Idle EXCEPT !.pc = "chosen", !.job = s, !.revision = n]
            /\ r.pc = "chosen" /\ r.job = s
      BY Chosen
    <3>5. procs' = [procs EXCEPT ![p] = r]
      BY <3>1, <3>2, <3>4
    <3> QED BY <3>3, <3>4, <3>5, <1>4
  <2> QED BY <2>1, <2>2, <2>3 DEF Request, CacheExpires, NotBound, LockRefused, LockFails, Serve,
               Crash, Reject, At, Locked
<1>6. cache' \in [Processes -> Accesses] /\ Cached'
  <2>1. CASE cache' = [cache EXCEPT ![p] = NoAccess]
    BY <1>1, <2>1 DEF TypeOK, Cached, NoAccess, Accesses
  <2>2. CASE UNCHANGED cache
    BY <1>1, <2>2 DEF TypeOK, Cached
  <2>3. CASE Serve(p)
    <3>1. /\ cache' = [cache EXCEPT ![p] = [job |-> Job(p), token |-> procs[p].token]]
          /\ Job(p) \in Subjects /\ procs[p].token <= subjects[Job(p)].token
          /\ procs[p].token \in Nat
      BY <2>3 DEF Serve, Refreshing, At, TypeOK, Refreshes
    <3> QED BY <1>1, <3>1 DEF TypeOK, Cached, Accesses
  <2> QED BY <2>1, <2>2, <2>3 DEF Request, CacheExpires, Choose, NotBound, LockRefused, LockFails,
               Crash
<1> QED BY <1>1, <1>2, <1>3, <1>5, <1>6 DEF TypeOK

\* A move of the process that has, or takes, the lock of its subject. No row
\* is written; the token at Shopee may be rotated.
LEMMA MoveKeepsRefreshing ==
  ASSUME IInv, NEW p \in Processes, NEW r \in Refreshes, NEW s \in Subjects,
         s = Job(p), r.job = s, Fresh(p), r.revision = procs[p].revision,
         procs' = [procs EXCEPT ![p] = r],
         r.pc \in {"asking", "rotated", "holding", "unknown"},
         locks' = [locks EXCEPT ![s] = p], locks[s] \in {p, None},
         UNCHANGED <<subjects>>,
         \A t \in Subjects \ {s} : live'[t] = live[t],
         r.pc = "holding" => r.token = live'[s]
  PROVE  procs' \in [Processes -> Refreshes] /\ Refreshing'
<1> USE DEF IInv
<1> HIDE DEF Refreshes
<1>1. procs'[p] = r /\ \A q \in Processes \ {p} : procs'[q] = procs[q]
  BY DEF TypeOK
<1>2. locks'[s] = p /\ \A t \in Subjects \ {s} : locks'[t] = locks[t]
  BY DEF TypeOK
<1>3. \A q \in Processes : Locked(q) /\ q # p => Job(q) \in Subjects \ {s}
  BY DEF Refreshing, Locked, At
<1>4. procs' \in [Processes -> Refreshes]
  BY DEF TypeOK
<1>5. Locked(p)' /\ \A q \in Processes \ {p} : Locked(q)' <=> Locked(q)
  BY <1>1 DEF Locked
<1>6. \A q \in Processes : Locked(q)' => (locks[Job(q)] = q /\ Fresh(q))'
  BY <1>1, <1>2, <1>3, <1>5 DEF Refreshing, Job, Fresh
<1>7. \A t \in Subjects, q \in Processes : locks'[t] = q => (Job(q) = t /\ Locked(q))'
  BY <1>1, <1>2, <1>5 DEF Refreshing, Job
<1>8. \A q \in Processes : ~At(q, "idle")' => Job(q)' \in Subjects
  BY <1>1 DEF Refreshing, At, Job
<1>9. \A q \in Processes :
        /\ At(q, "holding")' => procs'[q].token = live'[Job(q)']
        /\ At(q, "serving")' => procs'[q].token <= subjects'[Job(q)'].token
  BY <1>1, <1>3 DEF Refreshing, At, Job, Locked
<1> QED BY <1>4, <1>6, <1>7, <1>8, <1>9 DEF Refreshing

\* A process takes the lock, or goes on under it, and writes nothing yet.
LEMMA InsideKeepsIInv ==
  ASSUME IInv, NEW p \in Processes,
         Lock(p) \/ ProviderRotates(p) \/ ProviderRefuses(p) \/ ReceiveTokens(p)
           \/ LoseOutcome(p)
  PROVE  IInv'
<1> USE DEF IInv
<1> HIDE DEF Refreshes, SubjectRows, Accesses
<1>1. Job(p) \in Subjects /\ Fresh(p)
  BY DEF Lock, ProviderRotates, ProviderRefuses, ReceiveTokens, LoseOutcome, Refreshing,
         Locked, At
<1>2. PICK s \in Subjects : s = Job(p)
  BY <1>1
<1>3. UNCHANGED <<subjects, bindings, cache, waiting, spoiled>>
  BY DEF Lock, ProviderRotates, ProviderRefuses, ReceiveTokens, LoseOutcome
<1>4. locks' = [locks EXCEPT ![s] = p] /\ locks[s] \in {p, None}
  BY <1>2 DEF Lock, ProviderRotates, ProviderRefuses, ReceiveTokens, LoseOutcome, Refreshing,
              Locked, At, TypeOK
<1>5. \/ UNCHANGED live
      \/ ProviderRotates(p) /\ live' = [live EXCEPT ![s] = @ + 1]
  BY <1>2 DEF Lock, ProviderRotates, ProviderRefuses, ReceiveTokens, LoseOutcome
<1>6. PICK r \in Refreshes :
        /\ procs' = [procs EXCEPT ![p] = r]
        /\ r.job = s /\ r.revision = procs[p].revision
        /\ r.pc \in {"asking", "rotated", "holding", "unknown"}
        /\ r.pc = "holding" => UNCHANGED live /\ r.token = live[s]
  <2>1. procs[p] \in Refreshes /\ procs[p].job = s
    BY <1>2 DEF TypeOK, Job
  <2>2. ASSUME NEW pc \in {"asking", "rotated", "unknown"}, GoTo(p, pc)
        PROVE  \E r \in Refreshes :
                 /\ procs' = [procs EXCEPT ![p] = r]
                 /\ r.job = s /\ r.revision = procs[p].revision /\ r.pc = pc
    <3>1. pc \in Steps
      BY DEF Steps
    <3>2. procs' = [procs EXCEPT ![p] = [procs[p] EXCEPT !.pc = pc]]
      BY <2>2 DEF GoTo, TypeOK
    <3> QED BY <2>1, <3>1, <3>2, Moved
  <2>3. CASE ReceiveTokens(p)
    <3>1. PICK t \in Nat, e \in Nat : t = live[s] /\ e = now
      BY DEF TypeOK
    <3>2. procs' = [procs EXCEPT ![p] =
                      [procs[p] EXCEPT !.pc = "holding", !.token = t, !.expires = e]]
      BY <1>2, <2>3, <3>1 DEF ReceiveTokens, TypeOK
    <3>3. PICK q \in Refreshes : q = procs[p]
      BY <2>1
    <3>4. PICK r : r = [q EXCEPT !.pc = "holding", !.token = t, !.expires = e]
      OBVIOUS
    <3>5. r.pc = "holding" /\ r.job = s /\ r.token = t /\ r.revision = procs[p].revision
      BY <2>1, <3>3, <3>4 DEF Refreshes
    <3>6. r \in Refreshes
      BY <3>3, <3>4 DEF Refreshes, Steps
    <3>7. UNCHANGED live
      BY <2>3 DEF ReceiveTokens
    <3> QED BY <3>1, <3>2, <3>3, <3>4, <3>5, <3>6, <3>7
  <2> QED BY <2>2, <2>3 DEF Lock, ProviderRotates, ProviderRefuses, LoseOutcome
<1>7. procs' \in [Processes -> Refreshes] /\ Refreshing'
  BY <1>1, <1>2, <1>3, <1>4, <1>5, <1>6, MoveKeepsRefreshing DEF TypeOK
<1>8. TypeOK'
  <2>1. live' \in [Subjects -> Nat] /\ locks' \in [Subjects -> Processes \cup {None}]
    BY <1>4, <1>5 DEF TypeOK
  <2>2. now' \in Nat /\ failures' \in Nat
    BY DEF Lock, ProviderRotates, ProviderRefuses, ReceiveTokens, LoseOutcome, Fails, TypeOK
  <2> QED BY <1>3, <1>7, <2>1, <2>2 DEF TypeOK
<1>9. Tokens' /\ Cached' /\ FencedTogether'
  <2>1. \A t \in Subjects : subjects[t].token \in Nat /\ live[t] \in Nat
    BY DEF TypeOK, SubjectRows
  <2> QED BY <1>3, <1>5, <2>1 DEF Tokens, Cached, FencedTogether, TypeOK
<1>10. CurrentToken'
  <2>1. Working(s)'
    BY <1>4 DEF Working, TypeOK
  <2>2. \A t \in Subjects \ {s} : live'[t] = live[t] /\ (Working(t)' <=> Working(t))
    BY <1>4, <1>5 DEF Working, TypeOK
  <2> QED BY <1>3, <2>1, <2>2 DEF CurrentToken
<1> QED BY <1>7, <1>8, <1>9, <1>10

\* The end of the transaction, with or without a write to the locked row.
Ends(p, s, r) ==
  /\ Locked(p) /\ s = Job(p) /\ Unlock(p)
  /\ procs' = [procs EXCEPT ![p] = r]
  /\ r.pc \in {"idle", "serving"}
  /\ r.pc = "serving" => r.job = s /\ r.token <= subjects'[s].token
  /\ UNCHANGED <<live, now>>
  /\ UNCHANGED cache \/ cache' = [cache EXCEPT ![p] = NoAccess]
  /\ waiting' \subseteq Processes /\ failures' \in Nat

Writes(s) ==
  /\ subjects' \in [Subjects -> SubjectRows]
  /\ bindings' \in [Subjects -> {"absent", "active", "reauth_required"}]
  /\ \A t \in Subjects \ {s} : subjects'[t] = subjects[t] /\ bindings'[t] = bindings[t]
  /\ subjects'[s].status # "absent" /\ subjects'[s].revision > 0
  /\ bindings'[s] = subjects'[s].status
  /\ subjects[s].token <= subjects'[s].token /\ subjects'[s].token <= live[s]
  /\ subjects'[s].status = "active" => subjects'[s].token = live[s] \/ s \in spoiled'
  /\ spoiled \subseteq spoiled' /\ spoiled' \subseteq Subjects

LEMMA ReleaseKeepsIInv ==
  ASSUME IInv, NEW p \in Processes, NEW s \in Subjects, NEW r \in Refreshes,
         Ends(p, s, r), Writes(s)
  PROVE  IInv'
<1> USE DEF IInv, Ends, Writes
<1> HIDE DEF Refreshes, SubjectRows, Accesses
<1>1. procs'[p] = r /\ \A q \in Processes \ {p} : procs'[q] = procs[q]
  BY DEF TypeOK
<1>2. locks' = [locks EXCEPT ![s] = None] /\ locks[s] = p
  BY DEF Unlock, Refreshing, Locked
<1>3. ~Locked(p)' /\ \A q \in Processes \ {p} : Locked(q)' <=> Locked(q)
  BY <1>1 DEF Locked
<1>4. TypeOK'
  <2>1. locks' \in [Subjects -> Processes \cup {None}]
    BY <1>2 DEF TypeOK
  <2>2. procs' \in [Processes -> Refreshes]
    BY DEF TypeOK
  <2>3. cache' \in [Processes -> Accesses]
    BY DEF TypeOK, NoAccess, Accesses
  <2>4. \A t \in Subjects : subjects'[t].status # "absent" => subjects'[t].revision > 0
    BY DEF TypeOK
  <2> QED BY <2>1, <2>2, <2>3, <2>4 DEF TypeOK
<1>5. \A t \in Subjects :
        /\ subjects[t].token \in Nat /\ subjects'[t].token \in Nat
        /\ subjects[t].token <= subjects'[t].token
  <2>1. \A t \in Subjects : subjects[t].token \in Nat /\ subjects'[t].token \in Nat
    BY DEF TypeOK, SubjectRows
  <2> QED BY <2>1
<1>6. \A q \in Processes :
        /\ procs[q].token \in Nat /\ cache[q].token \in Nat
        /\ Locked(q) /\ q # p => Job(q) \in Subjects \ {s}
  BY <1>2 DEF TypeOK, Refreshes, Accesses, Refreshing, Locked, At
<1>7. Refreshing'
  <2>1. \A q \in Processes : Locked(q)' => (locks[Job(q)] = q /\ Fresh(q))'
    BY <1>1, <1>2, <1>3, <1>6 DEF Refreshing, Job, Fresh, TypeOK
  <2>2. \A t \in Subjects, q \in Processes : locks'[t] = q => (Job(q) = t /\ Locked(q))'
    BY <1>1, <1>2, <1>3 DEF Refreshing, Job, TypeOK
  <2>3. \A q \in Processes : ~At(q, "idle")' => Job(q)' \in Subjects
    BY <1>1 DEF Refreshing, At, Job
  <2>4. \A q \in Processes : At(q, "holding")' => procs'[q].token = live'[Job(q)']
    BY <1>1 DEF Refreshing, At, Job
  <2>5. \A q \in Processes : At(q, "serving")' => procs'[q].token <= subjects'[Job(q)'].token
    <3>1. At(p, "serving")' => procs'[p].token <= subjects'[Job(p)'].token
      BY <1>1 DEF At, Job
    <3>2. ASSUME NEW q \in Processes \ {p}, At(q, "serving")'
          PROVE  procs'[q].token <= subjects'[Job(q)'].token
      <4>1. Job(q) \in Subjects /\ procs[q].token <= subjects[Job(q)].token
        BY <1>1, <3>2 DEF Refreshing, At
      <4>2. procs'[q].token = procs[q].token /\ Job(q)' = Job(q)
        BY <1>1 DEF Job
      <4> QED BY <1>5, <1>6, <4>1, <4>2
    <3> QED BY <3>1, <3>2
  <2> QED BY <2>1, <2>2, <2>3, <2>4, <2>5 DEF Refreshing
<1>8. Tokens' /\ FencedTogether'
  BY DEF Tokens, FencedTogether
<1>9. Cached'
  <2>1. ASSUME NEW q \in Processes, cache'[q] # NoAccess
        PROVE  cache'[q].job \in Subjects /\ cache'[q].token <= subjects'[cache'[q].job].token
    <3>1. cache'[q] = cache[q]
      BY <2>1 DEF TypeOK
    <3> QED BY <1>5, <1>6, <2>1, <3>1 DEF Cached
  <2> QED BY <2>1 DEF Cached
<1>10. CurrentToken'
  <2>1. \A t \in Subjects \ {s} : Working(t)' <=> Working(t)
    BY <1>2 DEF Working, TypeOK
  <2> QED BY <2>1 DEF CurrentToken
<1> QED BY <1>4, <1>7, <1>8, <1>9, <1>10

\* The three ways a transaction ends, and the death of the process inside one.
LEMMA EndKeepsIInv ==
  ASSUME IInv, NEW p \in Processes,
         CommitUnknown(p) \/ CommitRotation(p) \/ RollBack(p) \/ (Crash(p) /\ Locked(p))
  PROVE  IInv'
<1> HIDE DEF Refreshes, SubjectRows, Accesses
<1>1. Locked(p) /\ Job(p) \in Subjects /\ Fresh(p) /\ locks[Job(p)] = p
  BY DEF CommitUnknown, CommitRotation, RollBack, Locked, IInv, Refreshing, At
<1>2. PICK s \in Subjects : s = Job(p)
  BY <1>1
<1>3. /\ subjects[s] \in SubjectRows /\ procs[p] \in Refreshes
      /\ subjects[s].status = "active" /\ bindings[s] = "active"
      /\ subjects[s].revision \in Nat \ {0}
      /\ subjects[s].token \in Nat /\ live[s] \in Nat /\ subjects[s].token <= live[s]
  BY <1>1, <1>2 DEF IInv, TypeOK, Fresh, Tokens, FencedTogether, SubjectRows
<1>4. Unlock(p) /\ UNCHANGED <<live, now>>
  BY <1>1 DEF CommitUnknown, CommitRotation, RollBack, Crash, Locked, At
<1>5. /\ UNCHANGED cache \/ cache' = [cache EXCEPT ![p] = NoAccess]
      /\ waiting' \subseteq Processes /\ failures' \in Nat
  BY DEF CommitUnknown, CommitRotation, RollBack, Crash, Reject, Fails, IInv, TypeOK
<1>6. procs' = [procs EXCEPT ![p] = Idle] => Ends(p, s, Idle)
  BY <1>1, <1>2, <1>4, <1>5, IdleRow DEF Ends
<1>7. CASE CommitUnknown(p)
  <2>1. PICK q \in SubjectRows : q = subjects[s]
    BY <1>3
  <2>2. PICK u : u = [q EXCEPT !.status = "reauth_required"]
    OBVIOUS
  <2>3. /\ u \in SubjectRows /\ u.status = "reauth_required"
        /\ u.revision = subjects[s].revision /\ u.token = subjects[s].token
    BY <2>1, <2>2, FencedRow
  <2>4. subjects' = [subjects EXCEPT ![s] = u]
    BY <1>2, <1>7, <2>1, <2>2 DEF CommitUnknown, Fence, IInv, TypeOK
  <2>5. /\ bindings' \in [Subjects -> {"absent", "active", "reauth_required"}]
        /\ bindings'[s] = "reauth_required"
        /\ \A t \in Subjects \ {s} : bindings'[t] = bindings[t]
    BY <1>2, <1>3, <1>7 DEF CommitUnknown, Fence, IInv, TypeOK
  <2>6. /\ procs' = [procs EXCEPT ![p] = Idle]
        /\ UNCHANGED spoiled
    BY <1>7 DEF CommitUnknown, Reject
  <2>7. /\ subjects' \in [Subjects -> SubjectRows] /\ subjects'[s] = u
        /\ \A t \in Subjects \ {s} : subjects'[t] = subjects[t]
    BY <2>3, <2>4 DEF IInv, TypeOK
  <2>8. Writes(s)
    BY <1>3, <2>3, <2>5, <2>6, <2>7 DEF Writes, IInv, TypeOK
  <2> QED BY <1>6, <2>6, <2>8, IdleRow, ReleaseKeepsIInv
<1>8. CASE CommitRotation(p)
  <2>1. At(p, "holding") /\ procs[p].token = live[s]
    BY <1>2, <1>8 DEF CommitRotation, IInv, Refreshing
  <2>2. /\ Rotated(p) \in SubjectRows /\ Rotated(p).status = "active"
        /\ Rotated(p).revision = subjects[s].revision + 1
        /\ Rotated(p).token = live[s]
    BY <1>2, <2>1, RotatedRow
  <2>3. /\ subjects' \in [Subjects -> SubjectRows] /\ subjects'[s] = Rotated(p)
        /\ \A t \in Subjects \ {s} : subjects'[t] = subjects[t]
    BY <1>2, <1>8, <2>2 DEF CommitRotation, IInv, TypeOK
  <2>4. Writes(s)
    <3>1. UNCHANGED <<bindings, spoiled>>
      BY <1>8 DEF CommitRotation
    <3> QED BY <1>3, <2>2, <2>3, <3>1 DEF Writes, IInv, TypeOK
  <2>5. CASE GoTo(p, "serving")
    <3>1. PICK q \in Refreshes : q = procs[p]
      BY <1>3
    <3>2. PICK r : r = [q EXCEPT !.pc = "serving"]
      OBVIOUS
    <3>3. r.pc = "serving" /\ r.job = s /\ r.token = live[s]
      BY <1>2, <2>1, <3>1, <3>2 DEF Job, Refreshes
    <3>4. r \in Refreshes
      BY <3>1, <3>2 DEF Refreshes, Steps
    <3>5. procs' = [procs EXCEPT ![p] = r]
      BY <2>5, <3>1, <3>2 DEF GoTo, IInv, TypeOK
    <3>6. Ends(p, s, r)
      BY <1>1, <1>2, <1>3, <1>4, <1>5, <2>2, <2>3, <3>3, <3>5 DEF Ends
    <3> QED BY <2>4, <3>4, <3>6, ReleaseKeepsIInv
  <2>6. CASE procs' = [procs EXCEPT ![p] = Idle]
    BY <1>6, <2>4, <2>6, IdleRow, ReleaseKeepsIInv
  <2> QED BY <1>8, <2>5, <2>6 DEF CommitRotation, Reject
<1>9. CASE RollBack(p) \/ Crash(p)
  <2>1. /\ procs' = [procs EXCEPT ![p] = Idle]
        /\ UNCHANGED <<subjects, bindings>>
        /\ Spoil(p)
    BY <1>1, <1>9 DEF RollBack, Crash, Reject, Locked, At, IInv, Refreshing
  <2>2. /\ spoiled \subseteq spoiled' /\ spoiled' \subseteq Subjects
        /\ subjects[s].token = live[s] \/ s \in spoiled'
    BY <1>2, <2>1 DEF Spoil, IInv, TypeOK
  <2>3. Writes(s)
    BY <1>3, <2>1, <2>2 DEF Writes, IInv, TypeOK
  <2> QED BY <1>6, <2>1, <2>3, IdleRow, ReleaseKeepsIInv
<1> QED BY <1>7, <1>8, <1>9

\* A connection makes a row of its own, which nobody holds.
LEMMA ConnectKeepsIInv ==
  ASSUME IInv, NEW s \in Subjects, Connect(s)
  PROVE  IInv'
<1> USE DEF IInv
<1> HIDE DEF Refreshes, Accesses
<1>1. /\ NewSubject \in SubjectRows /\ NewSubject.status = "active"
      /\ NewSubject.revision = 1 /\ NewSubject.token = 1
  BY DEF NewSubject, SubjectRows, TypeOK
<1>2. /\ subjects' \in [Subjects -> SubjectRows] /\ subjects'[s] = NewSubject
      /\ \A t \in Subjects \ {s} : subjects'[t] = subjects[t]
  BY <1>1 DEF Connect, TypeOK
<1>3. /\ live' \in [Subjects -> Nat] /\ live'[s] = 1
      /\ \A t \in Subjects \ {s} : live'[t] = live[t]
  BY DEF Connect, TypeOK
<1>4. /\ bindings' \in [Subjects -> {"absent", "active", "reauth_required"}]
      /\ bindings'[s] = "active"
      /\ \A t \in Subjects \ {s} : bindings'[t] = bindings[t]
  BY DEF Connect, TypeOK
<1>5. UNCHANGED <<locks, procs, cache, waiting, spoiled, failures>> /\ now' \in Nat
  BY DEF Connect, TypeOK
<1>6. subjects[s].token = 0 /\ \A p \in Processes : Locked(p) => Job(p) # s
  BY DEF Connect, Tokens, Refreshing, Fresh
<1>7. TypeOK'
  BY <1>1, <1>2, <1>3, <1>4, <1>5 DEF TypeOK
<1>8. Refreshing'
  <2>1. \A p \in Processes : At(p, "serving") => procs[p].token <= subjects'[Job(p)].token
    <3>1. \A p \in Processes : procs[p].token \in Nat
      BY DEF TypeOK, Refreshes
    <3> QED BY <1>1, <1>2, <1>6, <3>1 DEF Refreshing, At
  <2> QED BY <1>2, <1>3, <1>5, <1>6, <2>1 DEF Refreshing, Locked, At, Job, Fresh
<1>9. Tokens' /\ FencedTogether'
  BY <1>1, <1>2, <1>3, <1>4 DEF Tokens, FencedTogether
<1>10. Cached'
  <2>1. \A p \in Processes : cache[p].token \in Nat
    BY DEF TypeOK, Accesses
  <2> QED BY <1>1, <1>2, <1>5, <1>6, <2>1 DEF Cached
<1>11. CurrentToken'
  BY <1>1, <1>2, <1>3, <1>5 DEF CurrentToken, Working
<1> QED BY <1>7, <1>8, <1>9, <1>10, <1>11

LEMMA StepKeepsIInv == IInv /\ [Next]_vars => IInv'
<1> SUFFICES ASSUME IInv, [Next]_vars PROVE IInv'
  OBVIOUS
<1>1. CASE UNCHANGED vars
  BY <1>1 DEF vars, IInv, TypeOK, Refreshing, Tokens, Cached, CurrentToken, FencedTogether,
              Working, Locked, At, Job, Fresh
<1>2. CASE Next
  BY <1>2, ConnectKeepsIInv, OutsideKeepsIInv, InsideKeepsIInv, EndKeepsIInv DEF Next, Refresh
<1> QED BY <1>1, <1>2

\* The inductive invariant: what the lock and the revision guarantee while a
\* refresh is under way, with the properties below.
THEOREM InvariantHolds == Spec => []IInv
<1>1. Init => IInv
  BY InitIInv
<1>2. IInv /\ [Next]_vars => IInv'
  BY StepKeepsIInv
<1> QED BY <1>1, <1>2, PTL DEF Spec

\* Every row, lock and cache keeps its type, and a subject's revision is positive.
THEOREM TypeCorrect == Spec => []TypeOK
<1>1. IInv => TypeOK
  BY DEF IInv
<1> QED BY <1>1, InvariantHolds, PTL

\* However many processes refresh one subject, the stored token is the one
\* Shopee accepts, unless a rotation was rolled back.
THEOREM TokenIsCurrent == Spec => []CurrentToken
<1>1. IInv => CurrentToken
  BY DEF IInv
<1> QED BY <1>1, InvariantHolds, PTL

\* A subject is sent to Shopee only while it is active and its row locked by
\* the sender.
THEOREM OnlyUsableIsAsked == Spec => []FencedIsNotAsked
<1>1. IInv => FencedIsNotAsked
  BY DEF IInv, Refreshing, FencedIsNotAsked, Locked, Fresh
<1> QED BY <1>1, InvariantHolds, PTL

\* A subject and its binding have the same status at every COMMIT.
THEOREM FencesAreWhole == Spec => []FencedTogether
<1>1. IInv => FencedTogether
  BY DEF IInv
<1> QED BY <1>1, InvariantHolds, PTL

\* No process serves an access token whose refresh token was not committed.
THEOREM CachesFollow == Spec => []ServedIsCommitted
<1>1. IInv => ServedIsCommitted
  BY DEF IInv, Cached, ServedIsCommitted
<1> QED BY <1>1, InvariantHolds, PTL

\* Nothing but a new subject brings a fenced one back: the writes of a refresh
\* find the row active.
THEOREM FencedIsFinal == Spec => FencedStays
<1>1. IInv /\ [Next]_vars =>
        \A s \in Subjects :
          subjects[s].status = "reauth_required" => subjects'[s] = subjects[s]
  <2> SUFFICES ASSUME IInv, [Next]_vars, NEW s \in Subjects,
                      subjects[s].status = "reauth_required"
               PROVE  subjects'[s] = subjects[s]
    OBVIOUS
  <2>1. ASSUME NEW p \in Processes, CommitUnknown(p) \/ CommitRotation(p)
        PROVE  subjects'[s] = subjects[s]
    <3>1. Job(p) \in Subjects /\ Job(p) # s
      BY <2>1 DEF CommitUnknown, CommitRotation, IInv, Refreshing, Locked, At, Fresh
    <3> QED BY <2>1, <3>1 DEF CommitUnknown, CommitRotation, Fence, IInv, TypeOK
  <2>2. ASSUME NEW t \in Subjects, Connect(t)
        PROVE  subjects'[s] = subjects[s]
    BY <2>2 DEF Connect, IInv, TypeOK
  <2>3. CASE UNCHANGED subjects
    BY <2>3
  <2> QED BY <2>1, <2>2, <2>3
          DEF Next, Refresh, vars, Request, CacheExpires, Choose, NotBound, Lock, LockRefused,
              LockFails, ProviderRotates, ProviderRefuses, ReceiveTokens, LoseOutcome,
              RollBack, Serve, Crash
<1> QED BY <1>1, InvariantHolds, PTL DEF Spec, FencedStays
=============================================================================
