------------------------ MODULE OAuthExchangeProofs ------------------------
(***************************************************************************)
(* Theorems about OAuthExchange for every set of attempts, actors, codes   *)
(* and workers and every number of mishaps.                                *)
(*                                                                         *)
(* The inductive invariant adds Carriers to the properties: at most one    *)
(* run carries the tokens of a code, and only until its grant exists. That *)
(* is what SingleGrant needs, since neither the commit nor the provider    *)
(* looks at the lease.                                                     *)
(***************************************************************************)
EXTENDS OAuthExchange, TLAPS

IInv ==
  /\ TypeOK
  /\ Handoff
  /\ SingleGrant
  /\ CompletedHasGrant
  /\ GrantNeedsCallback
  /\ Carriers

USE ExchangeAssumption DEF CommandRows, RunStates

\* The tables are empty and the workers idle when the service is installed.
LEMMA InitIInv == Init => IInv
  BY DEF Init, IInv, TypeOK, Handoff, SingleGrant, CompletedHasGrant, GrantNeedsCallback,
         Carriers, Carries, At, NoCommand, Idle, Denials

\* What a lease, a settlement and a move make of a row.
LEMMA RowChanged ==
  \A r \in CommandRows, o \in Workers \cup {None},
     s \in {"processing", "completed", "failed"} :
    [r EXCEPT !.status = s, !.owner = o] \in CommandRows
OBVIOUS

LEMMA RunMoved ==
  \A r \in RunStates,
     pc \in {"idle", "claimed", "waiting", "answered", "exchanged", "committed", "failing"} :
    /\ [r EXCEPT !.pc = pc] = [pc |-> pc, job |-> r.job]
    /\ [r EXCEPT !.pc = pc] \in RunStates
OBVIOUS

\* A run that moves, without gaining tokens or a commit, keeps Carriers as
\* long as no command, code, grant or exchange is lost or replaced.
LEMMA CarriersMoved ==
  ASSUME TypeOK, Carriers, NEW w \in Workers, NEW r \in RunStates,
         workers' = [workers EXCEPT ![w] = r],
         UNCHANGED <<grants, spent>>, sent \subseteq sent',
         \A b \in Attempts : /\ commands'[b].code = commands[b].code
                             /\ commands'[b].status = "absent" <=> commands[b].status = "absent",
         r.pc = "idle" <=> r.job = None,
         r.pc # "idle" => r.job \in Attempts /\ commands[r.job].status # "absent",
         r.pc = "waiting" => r.job \in sent',
         r.pc \in {"answered", "exchanged"} => Carries(w) /\ r.job = workers[w].job,
         r.pc = "committed" => At(w, "committed") /\ r.job = workers[w].job
  PROVE  Carriers'
<1>1. workers'[w] = r /\ \A v \in Workers \ {w} : workers'[v] = workers[v]
  BY DEF TypeOK
<1>2. \A v \in Workers : ~At(v, "idle") => workers[v].job \in Attempts
  BY DEF Carriers, TypeOK, At
<1>3. \A v \in Workers :
        /\ At(v, "idle")' <=> workers'[v].job = None
        /\ ~At(v, "idle")' => commands'[workers'[v].job].status # "absent"
  BY <1>1, <1>2 DEF Carriers, At
<1>4. \A v \in Workers : At(v, "waiting")' \/ Carries(v)' => workers'[v].job \in sent'
  BY <1>1 DEF Carriers, Carries, At
<1>5. \A v \in Workers : Carries(v)' => Carries(v) /\ workers'[v].job = workers[v].job
  BY <1>1 DEF Carries
<1>6. \A v \in Workers :
        Carries(v)' => grants'[workers'[v].job] = 0 /\ (CodeOf(workers[v].job) \in spent)'
  <2> TAKE v \in Workers
  <2> HAVE Carries(v)'
  <2>1. /\ Carries(v) /\ workers'[v].job = workers[v].job
        /\ workers[v].job \in Attempts
    BY <1>2, <1>5 DEF Carries, At
  <2> QED BY <2>1 DEF Carriers, CodeOf
<1>7. \A v \in Workers : At(v, "committed")' => grants'[workers'[v].job] = 1
  BY <1>1 DEF Carriers, At
<1>8. \A u, v \in Workers :
        Carries(u)' /\ Carries(v)' /\ workers'[u].job = workers'[v].job => u = v
  BY <1>5 DEF Carriers
<1>9. \A q \in spent' :
        /\ commands'[q[1]].status # "absent"
        /\ commands'[q[1]].code = q[2]
        /\ q[1] \in sent'
  BY DEF Carriers, TypeOK
<1> QED BY <1>3, <1>4, <1>6, <1>7, <1>8, <1>9 DEF Carriers

\* Every step of the web keeps the invariant: nobody works on an attempt
\* before its callback is accepted, and no command or grant is touched after.
LEMMA WebKeepsIInv ==
  ASSUME IInv, NEW a \in Attempts, NEW actor \in Actors,
         Start(a, actor) \/ Callback(a, actor)
  PROVE  IInv'
<1> USE DEF IInv
<1>1. CASE Start(a, actor)
  BY <1>1 DEF Start, TypeOK, Handoff, SingleGrant, CompletedHasGrant, GrantNeedsCallback,
              Carriers, Carries, At, CodeOf, Denials
<1>2. CASE DenyExpired(a, actor)
  <2>1. \A b \in Attempts : states'[b].status = "claimed" <=> states[b].status = "claimed"
    BY <1>2 DEF DenyExpired, TypeOK
  <2>2. TypeOK'
    <3>1. states' \in [Attempts -> [status : {"absent", "issued", "claimed", "expired"},
                                   actor : Actors \cup {None}]]
      BY <1>2 DEF DenyExpired, TypeOK
    <3>2. replies' \in [Attempts -> [to : Actors \cup {None},
                                    kind : {"none", "accepted", "duplicate"} \cup Denials]]
      <4>1. "state_expired" \in Denials
        BY DEF Denials
      <4>2. replies' = [replies EXCEPT ![a] = [to |-> actor, kind |-> "state_expired"]]
        BY <1>2 DEF DenyExpired, Answer
      <4> QED BY <4>1, <4>2 DEF TypeOK
    <3>3. UNCHANGED <<overdue, commands, lapsed, grants, workers, spent, sent, mishaps>>
      BY <1>2 DEF DenyExpired
    <3> QED BY <3>1, <3>2, <3>3 DEF TypeOK
  <2>3. Handoff' /\ SingleGrant'
    BY <1>2, <2>1 DEF DenyExpired, Answer, TypeOK, Handoff, SingleGrant
  <2>4. CompletedHasGrant' /\ GrantNeedsCallback' /\ Carriers'
    BY <1>2, <2>1 DEF DenyExpired, CompletedHasGrant, GrantNeedsCallback, Carriers, Carries,
                      At, CodeOf
  <2> QED BY <2>2, <2>3, <2>4
<1>3. CASE DenyActor(a, actor)
  BY <1>3 DEF DenyActor, Answer, TypeOK, Handoff, SingleGrant, CompletedHasGrant,
              GrantNeedsCallback, Carriers, Carries, At, CodeOf, Denials
<1>4. CASE ReadExisting(a, actor)
  BY <1>4 DEF ReadExisting, Answer, TypeOK, Handoff, SingleGrant, CompletedHasGrant,
              GrantNeedsCallback, Carriers, Carries, At, CodeOf, Denials
<1>5. ASSUME NEW c \in Codes, Accept(a, actor, c)
      PROVE  IInv'
  <2>1. commands[a].status = "absent"
    BY <1>5 DEF Accept, Usable, Handoff, TypeOK
  <2>2. \A w \in Workers : workers[w].job # a
    BY <2>1 DEF Carriers, At, TypeOK
  <2>3. \A p \in spent : p[1] # a
    BY <2>1 DEF Carriers
  <2>4. grants[a] = 0
    BY <2>1 DEF GrantNeedsCallback, Handoff, TypeOK
  <2>5. /\ TypeOK'
        /\ Handoff'
        /\ SingleGrant'
    <3>1. TypeOK'
      <4>1. [status |-> "pending", owner |-> None, code |-> c] \in CommandRows
        OBVIOUS
      <4>2. commands' \in [Attempts -> CommandRows]
        BY <1>5, <4>1 DEF Accept, TypeOK
      <4>3. \A b \in Attempts : commands'[b].status = "processing" => commands'[b].owner # None
        BY <1>5 DEF Accept, TypeOK
      <4> QED BY <1>5, <4>2, <4>3 DEF Accept, Answer, TypeOK, Denials
    <3>2. Handoff'
      BY <1>5 DEF Accept, Answer, TypeOK, Handoff
    <3> QED BY <1>5, <3>1, <3>2 DEF Accept, SingleGrant
  <2>6. CompletedHasGrant' /\ GrantNeedsCallback'
    BY <1>5, <2>4 DEF Accept, TypeOK, CompletedHasGrant, GrantNeedsCallback, CodeOf
  <2>7. Carriers'
    BY <1>5, <2>2, <2>3 DEF Accept, TypeOK, Carriers, Carries, At, CodeOf
  <2> QED BY <2>5, <2>6, <2>7
<1> QED BY <1>1, <1>2, <1>3, <1>4, <1>5 DEF Callback

\* The passing of a deadline changes nothing a run carries.
LEMMA TimeKeepsIInv ==
  ASSUME IInv, NEW a \in Attempts, StateLapses(a) \/ LeaseLapses(a)
  PROVE  IInv'
<1> USE DEF IInv
<1>1. CASE StateLapses(a)
  BY <1>1 DEF StateLapses, TypeOK, Handoff, SingleGrant, CompletedHasGrant,
              GrantNeedsCallback, Carriers, Carries, At, CodeOf
<1>2. CASE LeaseLapses(a)
  BY <1>2 DEF LeaseLapses, TypeOK, Handoff, SingleGrant, CompletedHasGrant,
              GrantNeedsCallback, Carriers, Carries, At, CodeOf, web
<1> QED BY <1>1, <1>2

\* A claim changes who holds a command, nothing a run carries: a settled
\* command cannot be claimed.
LEMMA ClaimKeepsIInv ==
  ASSUME IInv, NEW a \in Attempts, NEW w \in Workers, ClaimNext(w, a)
  PROVE  IInv'
<1> USE DEF IInv
<1>1. commands[a].status \in {"pending", "processing"}
  BY DEF ClaimNext, Claimable
<1>2. \A b \in Attempts :
        /\ commands'[b].code = commands[b].code
        /\ commands'[b].status = "absent" <=> commands[b].status = "absent"
  BY <1>1 DEF ClaimNext, Lease, TypeOK
<1>3. TypeOK'
  <2>1. commands' \in [Attempts -> CommandRows]
    <3>1. [commands[a] EXCEPT !.status = "processing", !.owner = w] \in CommandRows
      <4>1. commands[a] \in CommandRows
        BY DEF TypeOK
      <4> QED BY <4>1, RowChanged
    <3> HIDE DEF CommandRows
    <3> QED BY <3>1 DEF ClaimNext, Lease, TypeOK
  <2>2. workers' \in [Workers -> RunStates]
    BY DEF ClaimNext, TypeOK
  <2>3. \A b \in Attempts : commands'[b].status = "processing" => commands'[b].owner # None
    BY DEF ClaimNext, Lease, TypeOK
  <2> QED BY <2>1, <2>2, <2>3 DEF ClaimNext, TypeOK, web
<1>4. Handoff' /\ SingleGrant'
  BY <1>1 DEF ClaimNext, Lease, TypeOK, Handoff, SingleGrant, web
<1>5. CompletedHasGrant' /\ GrantNeedsCallback'
  BY <1>2 DEF ClaimNext, Lease, TypeOK, CompletedHasGrant, GrantNeedsCallback, CodeOf, web
<1>6. Carriers'
  <2>1. [pc |-> "claimed", job |-> a] \in RunStates
    OBVIOUS
  <2> QED BY <1>1, <1>2, <2>1, CarriersMoved DEF ClaimNext
<1> QED BY <1>3, <1>4, <1>5, <1>6

\* Every step of a worker run keeps the invariant. The first run whose code
\* Shopee exchanges is the only carrier; its commit makes the one grant.
LEMMA RunKeepsIInv ==
  ASSUME IInv, NEW w \in Workers, Run(w) \/ Crash(w)
  PROVE  IInv'
<1> USE DEF IInv
<1> DEFINE a == workers[w].job
<1>0. ~At(w, "idle") /\ a \in Attempts /\ commands[a].status # "absent"
  <2>1. ~At(w, "idle")
    BY DEF Run, Crash, SendCode, ProviderExchanges, ReceiveTokens, StepFails, CommitGrant,
           Complete, Fail, FailStale, At
  <2> QED BY <2>1 DEF Carriers, TypeOK, At
<1>1. CASE SendCode(w) \/ ReceiveTokens(w) \/ StepFails(w)
  <2>1. PICK pc \in {"waiting", "exchanged", "failing"} :
          /\ workers' = [workers EXCEPT ![w] = [pc |-> pc, job |-> a]]
          /\ pc = "waiting" => a \in sent'
          /\ pc = "exchanged" => Carries(w)
    BY <1>0, <1>1 DEF SendCode, ReceiveTokens, StepFails, GoTo, TypeOK, Carries, At
  <2>2. /\ UNCHANGED <<web, commands, lapsed, grants, spent, mishaps>>
        /\ sent \subseteq sent' /\ sent' \subseteq Attempts
    BY <1>0, <1>1 DEF SendCode, ReceiveTokens, StepFails, TypeOK
  <2>3. [pc |-> pc, job |-> a] \in RunStates
    BY <1>0
  <2>4. TypeOK'
    BY <2>1, <2>2, <2>3 DEF TypeOK, web
  <2>5. Carriers'
    <3> DEFINE r == [pc |-> pc, job |-> a]
    <3>1. r.pc = pc /\ r.job = a
      OBVIOUS
    <3> HIDE DEF r
    <3> QED BY <1>0, <2>1, <2>2, <2>3, <3>1, CarriersMoved DEF r
  <2> QED BY <2>2, <2>4, <2>5 DEF Handoff, SingleGrant, CompletedHasGrant,
                                  GrantNeedsCallback, CodeOf, web
<1>2. CASE ProviderExchanges(w)
  <2>1. grants[a] = 0
    BY <1>0, <1>2 DEF ProviderExchanges, GrantNeedsCallback, TypeOK
  <2>2. \A v \in Workers : Carries(v) => workers[v].job # a
    BY <1>2 DEF ProviderExchanges, Carriers
  <2>3. TypeOK'
    <3>1. CodeOf(a) \in Attempts \X Codes
      BY <1>0 DEF CodeOf, TypeOK, Handoff
    <3>2. workers' \in [Workers -> RunStates]
      BY <1>2 DEF ProviderExchanges, GoTo, TypeOK
    <3> QED BY <1>2, <3>1, <3>2 DEF ProviderExchanges, TypeOK, web
  <2>4. Handoff' /\ SingleGrant' /\ CompletedHasGrant' /\ GrantNeedsCallback'
    BY <1>2 DEF ProviderExchanges, Handoff, SingleGrant, CompletedHasGrant,
                GrantNeedsCallback, CodeOf, web
  <2>5. Carriers'
    <3>1. /\ workers' = [workers EXCEPT ![w] = [pc |-> "answered", job |-> a]]
          /\ spent' = spent \cup {CodeOf(a)}
          /\ At(w, "waiting")
          /\ UNCHANGED <<commands, grants, sent>>
      <4>1. workers' = [workers EXCEPT ![w] = [pc |-> "answered", job |-> a]]
        <5>1. workers[w] \in RunStates
          BY DEF TypeOK
        <5> HIDE DEF RunStates
        <5> QED BY <1>2, <5>1, RunMoved DEF ProviderExchanges, GoTo
      <4> QED BY <1>2, <4>1 DEF ProviderExchanges
    <3>2. /\ workers'[w] = [pc |-> "answered", job |-> a]
          /\ \A v \in Workers \ {w} : workers'[v] = workers[v]
      BY <3>1 DEF TypeOK
    <3>3. \A v \in Workers :
            /\ At(v, "idle")' <=> workers'[v].job = None
            /\ ~At(v, "idle")' => commands'[workers'[v].job].status # "absent"
            /\ At(v, "waiting")' \/ Carries(v)' => workers'[v].job \in sent'
            /\ At(v, "committed")' => grants'[workers'[v].job] = 1
      BY <1>0, <3>1, <3>2 DEF Carriers, Carries, At
    <3>4. \A v \in Workers :
            Carries(v)' => grants'[workers'[v].job] = 0 /\ (CodeOf(workers[v].job) \in spent)'
      BY <2>1, <3>1, <3>2 DEF Carriers, Carries, CodeOf
    <3>5. \A u, v \in Workers :
            Carries(u)' /\ Carries(v)' /\ workers'[u].job = workers'[v].job => u = v
      BY <2>2, <3>2 DEF Carriers, Carries
    <3>6. \A q \in spent' :
            /\ commands'[q[1]].status # "absent"
            /\ commands'[q[1]].code = q[2]
            /\ q[1] \in sent'
      BY <1>0, <3>1 DEF Carriers, CodeOf
    <3> QED BY <3>3, <3>4, <3>5, <3>6 DEF Carriers
  <2> QED BY <2>3, <2>4, <2>5
<1>3. CASE CommitGrant(w)
  <2>1. Carries(w) /\ grants[a] = 0
    BY <1>3 DEF CommitGrant, Carriers, Carries, At
  <2>2. \A v \in Workers \ {w} :
          workers[v].job = a => ~Carries(v) /\ ~At(v, "committed")
    BY <2>1 DEF Carriers
  <2>3. TypeOK'
    <3>1. workers' \in [Workers -> RunStates]
      <4>1. \A pc \in {"committed", "failing"} : [workers[w] EXCEPT !.pc = pc] \in RunStates
        BY DEF TypeOK
      <4>2. PICK pc \in {"committed", "failing"} : GoTo(w, pc)
        BY <1>3 DEF CommitGrant
      <4>3. [workers[w] EXCEPT !.pc = pc] \in RunStates
        BY <4>1
      <4> HIDE DEF RunStates
      <4> QED BY <4>2, <4>3 DEF GoTo, TypeOK
    <3>2. grants' \in [Attempts -> Nat]
      <4>1. grants \in [Attempts -> Nat]
        BY DEF TypeOK
      <4> QED BY <1>0, <1>3, <4>1 DEF CommitGrant
    <3> QED BY <1>3, <3>1, <3>2 DEF CommitGrant, TypeOK, web
  <2>4. grants' = [grants EXCEPT ![a] = 1]
    BY <1>3, <2>1 DEF CommitGrant, TypeOK
  <2>5. Handoff' /\ SingleGrant' /\ CompletedHasGrant'
    BY <1>0, <1>3, <2>4 DEF CommitGrant, TypeOK, Handoff, SingleGrant, CompletedHasGrant, web
  <2>6. GrantNeedsCallback'
    BY <1>0, <1>3, <2>1, <2>4 DEF CommitGrant, TypeOK, Handoff, GrantNeedsCallback, Carriers,
                                  CodeOf, web
  <2>7. Carriers'
    <3>1. PICK pc \in {"committed", "failing"} :
            workers' = [workers EXCEPT ![w] = [pc |-> pc, job |-> a]]
      BY <1>3 DEF CommitGrant, GoTo, TypeOK
    <3>2. UNCHANGED <<commands, spent, sent>>
      BY <1>3 DEF CommitGrant
    <3>3. workers'[w] = [pc |-> pc, job |-> a] /\ \A v \in Workers \ {w} : workers'[v] = workers[v]
      BY <3>1 DEF TypeOK
    <3>4. \A v \in Workers :
            /\ At(v, "idle")' <=> workers'[v].job = None
            /\ ~At(v, "idle")' => commands'[workers'[v].job].status # "absent"
            /\ At(v, "waiting")' \/ Carries(v)' => workers'[v].job \in sent'
            /\ Carries(v)' => Carries(v) /\ v # w /\ workers'[v] = workers[v]
      BY <1>0, <3>2, <3>3 DEF Carriers, Carries, At
    <3>5. \A v \in Workers :
            Carries(v)' => grants'[workers'[v].job] = 0 /\ (CodeOf(workers[v].job) \in spent)'
      BY <2>2, <2>4, <3>2, <3>4 DEF Carriers, CodeOf, Carries, At, TypeOK
    <3>6. \A v \in Workers : At(v, "committed")' => grants'[workers'[v].job] = 1
      BY <1>0, <2>2, <2>4, <3>3 DEF Carriers, At, TypeOK
    <3> QED BY <3>2, <3>4, <3>5, <3>6 DEF Carriers
  <2> QED BY <2>3, <2>5, <2>6, <2>7
<1>4. CASE Complete(w) \/ Fail(w)
  <2>1. PICK s \in {"completed", "failed"} :
          /\ commands' = Settle(w, s)
          /\ s = "completed" => grants[a] = 1
    BY <1>4 DEF Complete, Fail, Carriers
  <2>2. Leave(w) \/ (GoTo(w, "failing") /\ ~At(w, "idle"))
    BY <1>0, <1>4 DEF Complete, Fail
  <2>3. UNCHANGED <<web, lapsed, grants, spent, sent, mishaps>>
    BY <1>4 DEF Complete, Fail
  <2>4. \A b \in Attempts :
          /\ commands'[b].code = commands[b].code
          /\ commands[b].status # "absent" <=> commands'[b].status # "absent"
    BY <1>0, <2>1 DEF Settle, TypeOK
  <2>5. TypeOK'
    <3>1. commands' \in [Attempts -> CommandRows]
      <4>1. [commands[a] EXCEPT !.status = s, !.owner = None] \in CommandRows
        <5>1. commands[a] \in CommandRows
          BY <1>0 DEF TypeOK
        <5> QED BY <5>1, RowChanged
      <4> HIDE DEF CommandRows
      <4> QED BY <1>0, <2>1, <4>1 DEF Settle, TypeOK
    <3>2. workers' \in [Workers -> RunStates]
      <4>1. Idle \in RunStates /\ [workers[w] EXCEPT !.pc = "failing"] \in RunStates
        BY DEF Idle, TypeOK
      <4> QED BY <2>2, <4>1 DEF Leave, GoTo, TypeOK
    <3>3. \A b \in Attempts : commands'[b].status = "processing" => commands'[b].owner # None
      BY <1>0, <2>1 DEF Settle, TypeOK
    <3> QED BY <2>3, <3>1, <3>2, <3>3 DEF TypeOK, web
  <2>6. Handoff' /\ SingleGrant'
    BY <1>0, <2>1, <2>3, <2>4 DEF Settle, TypeOK, Handoff, SingleGrant, web
  <2>7. CompletedHasGrant' /\ GrantNeedsCallback'
    BY <1>0, <2>1, <2>3, <2>4 DEF Settle, TypeOK, CompletedHasGrant, GrantNeedsCallback,
                                  CodeOf, web
  <2>8. Carriers'
    <3>1. PICK r \in {Idle, [pc |-> "failing", job |-> a]} :
            workers' = [workers EXCEPT ![w] = r]
      BY <2>2 DEF Leave, GoTo, TypeOK
    <3>2. /\ r \in RunStates
          /\ r.pc = "idle" <=> r.job = None
          /\ r.pc = "idle" \/ (r.pc = "failing" /\ r.job = a)
      BY <1>0, <3>1 DEF Idle
    <3> QED BY <1>0, <2>3, <2>4, <3>1, <3>2, CarriersMoved
  <2> QED BY <2>5, <2>6, <2>7, <2>8
<1>5. CASE FailStale(w) \/ Crash(w)
  <2>1. /\ workers' = [workers EXCEPT ![w] = Idle] /\ mishaps' \in Nat
        /\ UNCHANGED <<web, commands, lapsed, grants, spent, sent>>
    BY <1>5 DEF FailStale, Crash, Leave, TypeOK
  <2>2. Idle \in RunStates /\ Idle.pc = "idle" /\ Idle.job = None
    BY DEF Idle
  <2>3. TypeOK'
    BY <2>1, <2>2 DEF TypeOK, web
  <2>4. Carriers'
    BY <2>1, <2>2, CarriersMoved
  <2> QED BY <2>1, <2>3, <2>4 DEF Handoff, SingleGrant, CompletedHasGrant,
                                  GrantNeedsCallback, CodeOf, web
<1> QED BY <1>1, <1>2, <1>3, <1>4, <1>5 DEF Run

\* The invariant is inductive.
LEMMA NextKeepsIInv == IInv /\ [Next]_vars => IInv'
<1> SUFFICES ASSUME IInv, [Next]_vars PROVE IInv'
  OBVIOUS
<1>1. CASE UNCHANGED vars
  BY <1>1 DEF vars, IInv, TypeOK, Handoff, SingleGrant, CompletedHasGrant,
              GrantNeedsCallback, Carriers, Carries, At, CodeOf
<1>2. CASE Next
  BY <1>2, WebKeepsIInv, TimeKeepsIInv, ClaimKeepsIInv, RunKeepsIInv DEF Next
<1> QED BY <1>1, <1>2

\* The invariant holds in every reachable state.
THEOREM InvariantHolds == Spec => []IInv
BY InitIInv, NextKeepsIInv, PTL DEF Spec

-----------------------------------------------------------------------------

\* Every column and every worker variable keeps its type, and a processing
\* command names its owner (the CHECK of the migration).
THEOREM TypeCorrect == Spec => []TypeOK
BY InvariantHolds, PTL DEF IInv

\* State, command and lease stay consistent, and no callback finds its
\* command missing.
THEOREM HandoffHolds == Spec => []Handoff
BY InvariantHolds, PTL DEF IInv

\* An attempt is granted at most once, although commands are leased again
\* and commits ignore the lease.
THEOREM GrantIsSingle == Spec => []SingleGrant
BY InvariantHolds, PTL DEF IInv

\* A completed command has its grant, and a grant has its callback.
THEOREM GrantsEarned == Spec => []GrantsAreEarned
BY InvariantHolds, PTL DEF IInv, GrantsAreEarned

\* What runs carry agrees with the tables.
THEOREM CarriersHold == Spec => []Carriers
BY InvariantHolds, PTL DEF IInv

\* Rows and runs agree.
THEOREM RunsAgreeAlways == Spec => []RunsAgree
BY HandoffHolds, CarriersHold, PTL DEF RunsAgree

\* A settled command stays as it is, and an accepted code is not replaced.
THEOREM SettledIsFinal == Spec => SettledStays
<1>1. IInv /\ [Next]_vars =>
        [\A a \in Attempts :
           /\ Settled(a) => commands'[a] = commands[a]
           /\ commands[a].status # "absent" => commands'[a].code = commands[a].code]_vars
  <2> SUFFICES ASSUME IInv, Next, NEW a \in Attempts
               PROVE  /\ Settled(a) => commands'[a] = commands[a]
                      /\ commands[a].status # "absent" => commands'[a].code = commands[a].code
    BY DEF vars
  <2>1. ASSUME NEW b \in Attempts, NEW actor \in Actors, NEW c \in Codes, Accept(b, actor, c)
        PROVE  b = a => commands[a].status = "absent"
    BY <2>1 DEF Accept, Usable, IInv, Handoff, TypeOK
  <2>2. ASSUME NEW b \in Attempts, NEW w \in Workers, ClaimNext(w, b)
        PROVE  /\ commands'[a].code = commands[a].code
               /\ Settled(a) => commands'[a] = commands[a]
    BY <2>2 DEF ClaimNext, Claimable, Lease, Settled, IInv, TypeOK
  <2>3. ASSUME NEW w \in Workers, Complete(w) \/ Fail(w)
        PROVE  /\ commands'[a].code = commands[a].code
               /\ Settled(a) => commands'[a] = commands[a]
    <3>1. PICK s \in {"completed", "failed"} : commands' = Settle(w, s)
      BY <2>3 DEF Complete, Fail
    <3>2. commands[workers[w].job].status = "processing"
      BY <2>3 DEF Complete, Fail, HoldsLease
    <3>3. commands \in [Attempts -> CommandRows]
      BY DEF IInv, TypeOK
    <3> QED BY <3>1, <3>2, <3>3 DEF Settle, Settled
  <2>4. ASSUME NEW b \in Attempts, NEW actor \in Actors, NEW c \in Codes, Accept(b, actor, c)
        PROVE  a # b => commands'[a] = commands[a]
    BY <2>4 DEF Accept, IInv, TypeOK
  <2>5. \/ commands' = commands
        \/ \E b \in Attempts, actor \in Actors, c \in Codes : Accept(b, actor, c)
        \/ \E b \in Attempts, w \in Workers : ClaimNext(w, b)
        \/ \E w \in Workers : Complete(w) \/ Fail(w)
    BY DEF Next, Callback, Run, Start, StateLapses, DenyExpired, DenyActor, ReadExisting,
           LeaseLapses, SendCode, ProviderExchanges, ReceiveTokens, StepFails, CommitGrant,
           FailStale, Crash
  <2> QED BY <2>1, <2>2, <2>3, <2>4, <2>5 DEF Settled
<1> QED BY <1>1, InvariantHolds, PTL DEF Spec, SettledStays

\* A command is ended by the run that holds its lease and no other.
THEOREM HolderEndsIt == Spec => HolderSettles
<1>1. IInv /\ [Next]_vars =>
        [\A a \in Attempts :
           ~Settled(a) /\ Settled(a)' =>
             \E w \in Workers :
               /\ commands[a].owner = w
               /\ workers[w].job = a
               /\ workers'[w] # workers[w]]_vars
  <2> SUFFICES ASSUME IInv, Next, NEW a \in Attempts, ~Settled(a), Settled(a)'
               PROVE  \E w \in Workers :
                        /\ commands[a].owner = w
                        /\ workers[w].job = a
                        /\ workers'[w] # workers[w]
    BY DEF vars
  <2>1. ASSUME NEW b \in Attempts, NEW actor \in Actors, NEW c \in Codes, Accept(b, actor, c)
        PROVE  FALSE
    BY <2>1 DEF Accept, Settled, IInv, TypeOK
  <2>2. ASSUME NEW b \in Attempts, NEW w \in Workers, ClaimNext(w, b)
        PROVE  FALSE
    BY <2>2 DEF ClaimNext, Lease, Settled, IInv, TypeOK
  <2>3. PICK w \in Workers : Complete(w) \/ Fail(w)
    BY <2>1, <2>2 DEF Settled, Next, Callback, Run, Start, StateLapses, DenyExpired,
         DenyActor, ReadExisting, LeaseLapses, SendCode, ProviderExchanges, ReceiveTokens,
         StepFails, CommitGrant, FailStale, Crash
  <2>4. workers[w].job \in Attempts
    BY <2>3 DEF Complete, Fail, At, IInv, TypeOK, Carriers
  <2>5. workers[w].job = a /\ commands[a].owner = w
    BY <2>3, <2>4 DEF Complete, Fail, HoldsLease, Settle, Settled, IInv, TypeOK
  <2>6. workers'[w] # workers[w]
    BY <2>3 DEF Complete, Fail, At, Leave, GoTo, Idle, IInv, TypeOK
  <2> QED BY <2>5, <2>6
<1> QED BY <1>1, InvariantHolds, PTL DEF Spec, HolderSettles
=============================================================================
