----------------------- MODULE PostgresExecutorProofs -----------------------
(***************************************************************************)
(* Proofs about PostgresExecutor for every set of jobs and of connections. *)
(***************************************************************************)
EXTENDS PostgresExecutor, TLAPS

\* A job holds a connection from its connect to its release, and no other job holds it.
Holding == {"begin", "work", "rollback", "release"}

ConnectionsAreHeldOnce ==
  /\ \A j \in Jobs : IF jobs[j].step \in Holding THEN Client(j) \in Clients ELSE Client(j) = None
  /\ \A j, k \in Jobs : Client(j) = Client(k) /\ Client(j) # None => j = k

\* What the connections hold of a job: nothing, or nothing but on its own.
Nowhere(j) == \A c \in Clients, n \in {1, 2} : <<j, n>> \notin clients[c].writes
OnItsOwn(j) == \A c \in Clients, n \in {1, 2} : c # Client(j) => <<j, n>> \notin clients[c].writes

\* What the database keeps of a job.
KeptNothing(j) == \A n \in {1, 2} : <<j, n>> \notin committed
KeptAll(j) == \A n \in {1, 2} : <<j, n>> \in committed <=> n \in Statements(jobs[j].kind)

\* Where a job is and what is kept of it and held for it, when no ROLLBACK was lost.
JobOK(j) ==
  /\ jobs[j].step \in {"waiting", "begin"} => jobs[j].done = {}
  /\ jobs[j].step \in {"waiting", "begin", "work"} => KeptNothing(j)
  /\ KeptNothing(j) \/ KeptAll(j)
  /\ jobs[j].answer = "result" => KeptAll(j) /\ jobs[j].step \in {"release", "over"}
  /\ OnItsOwn(j)
  /\ jobs[j].step \in {"waiting", "begin", "release", "over"} \/ jobs[j].kind = "query"
       => Nowhere(j)
  /\ jobs[j].step \in {"begin", "rollback"} => jobs[j].kind = "transaction"
  /\ jobs[j].step = "work" /\ jobs[j].kind = "query" =>
       jobs[j].done = {} /\ ~clients[Client(j)].open
  /\ jobs[j].step = "work" /\ jobs[j].kind = "transaction" =>
       /\ clients[Client(j)].open
       /\ \A n \in {1, 2} : <<j, n>> \in clients[Client(j)].writes <=> n \in jobs[j].done

IInv == TypeOK /\ ConnectionsAreHeldOnce /\ \A j \in Jobs : j \notin torn => JobOK(j)

-----------------------------------------------------------------------------
(* What the steps of a job have in common. *)

\* A step of one job leaves the others as they are: it touches only its own connection,
\* and there only what nobody else has written.
LEMMA OthersKeep ==
  ASSUME IInv, ExecutorAssumption, NEW j \in Jobs, NEW k \in Jobs, k # j, k \notin torn,
         jobs'[k] = jobs[k],
         \A c \in Clients : c # Client(j) => clients'[c] = clients[c],
         \A c \in Clients, n \in {1, 2} :
           <<k, n>> \in clients'[c].writes => <<k, n>> \in clients[c].writes,
         \A n \in {1, 2} : <<k, n>> \in committed' <=> <<k, n>> \in committed
  PROVE  JobOK(k)'
<1>1. JobOK(k)
  BY DEF IInv
<1>2. Client(k) \in Clients => Client(k) # Client(j) /\ clients'[Client(k)] = clients[Client(k)]
  BY DEF IInv, ConnectionsAreHeldOnce, ExecutorAssumption
<1>3. jobs[k].step = "work" => Client(k) \in Clients
  BY DEF IInv, ConnectionsAreHeldOnce, Holding
<1>4. Client(k)' = Client(k)
  BY DEF Client
<1>5. /\ KeptNothing(k)' <=> KeptNothing(k)
      /\ KeptAll(k)' <=> KeptAll(k)
  BY DEF KeptNothing, KeptAll
<1>6. /\ OnItsOwn(k) => OnItsOwn(k)'
      /\ Nowhere(k) => Nowhere(k)'
  BY <1>4 DEF OnItsOwn, Nowhere
<1>. QED
  BY <1>1, <1>2, <1>3, <1>4, <1>5, <1>6 DEF JobOK

\* A job's step that keeps types, connections and others' state keeps the invariant, if
\* it keeps the job's own.
LEMMA StepKeeps ==
  ASSUME IInv, ExecutorAssumption, NEW j \in Jobs,
         TypeOK', ConnectionsAreHeldOnce',
         \A k \in Jobs : k # j => jobs'[k] = jobs[k] /\ (k \in torn' <=> k \in torn),
         \A c \in Clients : c # Client(j) => clients'[c] = clients[c],
         \A k \in Jobs, c \in Clients, n \in {1, 2} :
           k # j /\ <<k, n>> \in clients'[c].writes => <<k, n>> \in clients[c].writes,
         \A k \in Jobs, n \in {1, 2} :
           k # j /\ k \notin torn => (<<k, n>> \in committed' <=> <<k, n>> \in committed),
         j \notin torn' => JobOK(j)'
  PROVE  IInv'
<1>1. ASSUME NEW k \in Jobs, k \notin torn' PROVE JobOK(k)'
  <2>1. CASE k = j
    BY <1>1, <2>1
  <2>2. CASE k # j
    BY <1>1, <2>2, OthersKeep
  <2>. QED
    BY <2>1, <2>2
<1>. QED
  BY <1>1 DEF IInv

\* The connection of a job that holds one.
LEMMA HolderFacts ==
  ASSUME IInv, NEW j \in Jobs, jobs[j].step \in Holding
  PROVE  /\ Client(j) \in Clients
         /\ clients[Client(j)] \in [open : BOOLEAN, writes : SUBSET Writes, aborted : BOOLEAN]
         /\ jobs[j] \in [kind : Kinds,
                         step : {"waiting", "begin", "work", "rollback", "release", "over"},
                         client : Clients \cup {None}, done : SUBSET {1, 2},
                         answer : {"result", "error", None}]
BY DEF IInv, ConnectionsAreHeldOnce, TypeOK

\* A job that changes its step, what it has done and its answer, and holds its
\* connection before and after, keeps types and connections.
LEMMA HolderKeeps ==
  ASSUME IInv, NEW j \in Jobs, jobs[j].step \in Holding,
         NEW r \in [kind : Kinds,
                    step : {"waiting", "begin", "work", "rollback", "release", "over"},
                    client : Clients \cup {None}, done : SUBSET {1, 2},
                    answer : {"result", "error", None}],
         r.step \in Holding, r.client = jobs[j].client,
         jobs' = [jobs EXCEPT ![j] = r],
         clients' \in [Clients -> [open : BOOLEAN, writes : SUBSET Writes, aborted : BOOLEAN]],
         committed' \subseteq Writes, torn' \subseteq Jobs
  PROVE  /\ TypeOK' /\ ConnectionsAreHeldOnce'
         /\ jobs'[j] = r
         /\ \A k \in Jobs : k # j => jobs'[k] = jobs[k]
<1>1. TypeOK'
  BY DEF IInv, TypeOK
<1>2. jobs'[j] = r /\ \A k \in Jobs : k # j => jobs'[k] = jobs[k]
  BY DEF IInv, TypeOK
<1>3. \A k \in Jobs : Client(k)' = Client(k)
  BY <1>2 DEF Client
<1>4. \A k \in Jobs : jobs'[k].step \in Holding <=> jobs[k].step \in Holding
  BY <1>2
<1>5. ConnectionsAreHeldOnce'
  BY <1>3, <1>4 DEF IInv, ConnectionsAreHeldOnce
<1>. QED
  BY <1>1, <1>2, <1>5

-----------------------------------------------------------------------------
(* The steps. *)

\* A job gets a connection that no other job holds; a clean one, or it is torn.
LEMMA ConnectKeeps ==
  ASSUME IInv, ExecutorAssumption, NEW j \in Jobs, NEW c \in Clients, Connect(j, c)
  PROVE  IInv'
<1>. DEFINE r == [jobs[j] EXCEPT !.client = c,
                                 !.step = IF jobs[j].kind = "query" THEN "work" ELSE "begin"]
<1>0. jobs[j] \in [kind : Kinds,
                   step : {"waiting", "begin", "work", "rollback", "release", "over"},
                   client : Clients \cup {None}, done : SUBSET {1, 2},
                   answer : {"result", "error", None}]
  BY DEF IInv, TypeOK
<1>1. /\ jobs[j].step = "waiting" /\ \A k \in Jobs : Client(k) # c
      /\ jobs' = [jobs EXCEPT ![j] = r]
      /\ UNCHANGED <<clients, committed>>
      /\ torn' = IF clients[c].open THEN torn \cup {j} ELSE torn
  BY <1>0 DEF Connect, At, IInv, TypeOK
<1>2. /\ jobs'[j] = r /\ \A k \in Jobs : k # j => jobs'[k] = jobs[k]
      /\ r.client = c /\ r.kind = jobs[j].kind /\ r.done = jobs[j].done
      /\ r.answer = jobs[j].answer
      /\ r.step = IF jobs[j].kind = "query" THEN "work" ELSE "begin"
  BY <1>0, <1>1 DEF IInv, TypeOK
<1>3. TypeOK'
  BY <1>0, <1>1, <1>2 DEF IInv, TypeOK
<1>. HIDE DEF r
<1>4. ConnectionsAreHeldOnce'
  <2>1. \A k \in Jobs : k # j => Client(k)' = Client(k)
    BY <1>2 DEF Client
  <2>2. Client(j)' = c
    BY <1>2 DEF Client
  <2>3. jobs'[j].step \in Holding
    BY <1>2 DEF Holding
  <2>. QED
    BY <1>1, <1>2, <2>1, <2>2, <2>3 DEF IInv, ConnectionsAreHeldOnce
<1>5. ASSUME j \notin torn' PROVE JobOK(j)'
  <2>1. j \notin torn /\ ~clients[c].open
    BY <1>1, <1>5
  <2>2. /\ JobOK(j) /\ jobs[j].done = {} /\ KeptNothing(j) /\ Nowhere(j)
        /\ jobs[j].answer # "result"
    BY <1>1, <2>1 DEF IInv, JobOK
  <2>3. KeptNothing(j)' /\ Nowhere(j)' /\ OnItsOwn(j)'
    BY <1>1, <2>2 DEF KeptNothing, Nowhere, OnItsOwn
  <2>4. ~clients'[Client(j)'].open /\ jobs[j].kind \in Kinds
    BY <1>0, <1>1, <1>2, <2>1 DEF Client
  <2>. QED
    BY <1>2, <2>2, <2>3, <2>4 DEF JobOK, Kinds
<1>. QED
  BY <1>1, <1>2, <1>3, <1>4, <1>5, StepKeeps

\* A job that found no connection is over, and nothing came of it.
LEMMA ConnectFailsKeeps ==
  ASSUME IInv, ExecutorAssumption, NEW j \in Jobs, ConnectFails(j)
  PROVE  IInv'
<1>0. jobs[j] \in [kind : Kinds,
                   step : {"waiting", "begin", "work", "rollback", "release", "over"},
                   client : Clients \cup {None}, done : SUBSET {1, 2},
                   answer : {"result", "error", None}]
  BY DEF IInv, TypeOK
<1>1. /\ jobs[j].step = "waiting"
      /\ jobs' = [jobs EXCEPT ![j] = [jobs[j] EXCEPT !.answer = "error", !.step = "over"]]
      /\ UNCHANGED <<clients, committed, torn>>
  BY <1>0 DEF ConnectFails, At, IInv, TypeOK
<1>2. /\ \A k \in Jobs : k # j => jobs'[k] = jobs[k]
      /\ jobs'[j].client = jobs[j].client /\ jobs'[j].kind = jobs[j].kind
      /\ jobs'[j].answer = "error" /\ jobs'[j].step = "over"
  BY <1>0, <1>1 DEF IInv, TypeOK
<1>3. TypeOK'
  BY <1>0, <1>1 DEF IInv, TypeOK
<1>4. ConnectionsAreHeldOnce'
  <2>1. \A k \in Jobs : Client(k)' = Client(k)
    BY <1>2 DEF Client
  <2>2. \A k \in Jobs : jobs'[k].step \in Holding <=> jobs[k].step \in Holding
    BY <1>1, <1>2 DEF Holding
  <2>. QED
    BY <2>1, <2>2 DEF IInv, ConnectionsAreHeldOnce
<1>5. ASSUME j \notin torn' PROVE JobOK(j)'
  <2>1. KeptNothing(j) /\ Nowhere(j) /\ OnItsOwn(j)
    BY <1>1, <1>5 DEF IInv, JobOK
  <2>2. KeptNothing(j)' /\ Nowhere(j)' /\ OnItsOwn(j)'
    BY <1>1, <2>1 DEF KeptNothing, Nowhere, OnItsOwn
  <2>. QED
    BY <1>2, <2>2 DEF JobOK
<1>. QED
  BY <1>1, <1>2, <1>3, <1>4, <1>5, StepKeeps

\* The error of a job: it rolls back if it is a transaction, and keeps its connection.
LEMMA FailedFacts ==
  ASSUME IInv, NEW j \in Jobs, jobs[j].step \in Holding
  PROVE  /\ Failed(j) \in [kind : Kinds,
                           step : {"waiting", "begin", "work", "rollback", "release", "over"},
                           client : Clients \cup {None}, done : SUBSET {1, 2},
                           answer : {"result", "error", None}]
         /\ Failed(j).step \in Holding /\ Failed(j).client = jobs[j].client
         /\ Failed(j).kind = jobs[j].kind /\ Failed(j).answer = "error"
         /\ Failed(j).step = IF jobs[j].kind = "transaction" THEN "rollback" ELSE "release"
<1>1. jobs[j] \in [kind : Kinds,
                   step : {"waiting", "begin", "work", "rollback", "release", "over"},
                   client : Clients \cup {None}, done : SUBSET {1, 2},
                   answer : {"result", "error", None}]
  BY HolderFacts
<1>2. CASE jobs[j].kind = "transaction"
  <2>1. Failed(j) = [jobs[j] EXCEPT !.answer = "error", !.step = "rollback"]
    BY <1>2 DEF Failed
  <2>. QED
    BY ONLY <1>1, <1>2, <2>1 DEF Holding
<1>3. CASE jobs[j].kind # "transaction"
  <2>1. Failed(j) = [jobs[j] EXCEPT !.answer = "error", !.step = "release"]
    BY <1>3 DEF Failed
  <2>. QED
    BY ONLY <1>1, <1>3, <2>1 DEF Holding
<1>. QED
  BY <1>2, <1>3

\* A job that fails is well if it is kept whole or not at all, and a query left nothing.
LEMMA FailureLeavesJobOK ==
  ASSUME IInv, NEW j \in Jobs, jobs[j].step \in Holding, jobs'[j] = Failed(j),
         (KeptNothing(j) \/ KeptAll(j))', OnItsOwn(j)', jobs[j].kind = "query" => Nowhere(j)'
  PROVE  JobOK(j)'
<1>1. jobs[j].kind \in Kinds
  BY HolderFacts
<1>. QED
  BY <1>1, FailedFacts DEF JobOK, Kinds

\* BEGIN opens the transaction, in time or not.
LEMMA BeginKeeps ==
  ASSUME IInv, ExecutorAssumption, NEW j \in Jobs, Begin(j)
  PROVE  IInv'
<1>. DEFINE r == [jobs[j] EXCEPT !.step = "work"]
<1>0. jobs[j].step = "begin" /\ jobs[j].step \in Holding
  BY DEF Begin, At, Holding
<1>1. /\ clients' = [clients EXCEPT ![Client(j)] =
                       [clients[Client(j)] EXCEPT !.open = TRUE]]
      /\ jobs' = [jobs EXCEPT ![j] = r] \/ jobs' = [jobs EXCEPT ![j] = Failed(j)]
      /\ UNCHANGED <<committed, torn>>
  BY DEF Begin, Fails, IInv, TypeOK
<1>2. /\ r \in [kind : Kinds,
                step : {"waiting", "begin", "work", "rollback", "release", "over"},
                client : Clients \cup {None}, done : SUBSET {1, 2},
                answer : {"result", "error", None}]
      /\ r.step = "work" /\ r.client = jobs[j].client /\ r.kind = jobs[j].kind
      /\ r.done = jobs[j].done /\ r.answer = jobs[j].answer
  BY <1>0, HolderFacts
<1>. HIDE DEF r
<1>3. /\ clients' \in [Clients -> [open : BOOLEAN, writes : SUBSET Writes, aborted : BOOLEAN]]
      /\ \A c \in Clients : clients'[c].writes = clients[c].writes
      /\ \A c \in Clients : c # Client(j) => clients'[c] = clients[c]
      /\ clients'[Client(j)].open
  BY <1>0, <1>1, HolderFacts DEF IInv, TypeOK
<1>4. committed' \subseteq Writes /\ torn' \subseteq Jobs
  BY <1>1 DEF IInv, TypeOK
<1>5. /\ TypeOK' /\ ConnectionsAreHeldOnce'
      /\ \A k \in Jobs : k # j => jobs'[k] = jobs[k]
      /\ jobs'[j] = r \/ jobs'[j] = Failed(j)
  <2>1. r.step \in Holding
    BY <1>2 DEF Holding
  <2>2. CASE jobs' = [jobs EXCEPT ![j] = r]
    BY <1>0, <1>2, <1>3, <1>4, <2>1, <2>2, HolderKeeps
  <2>3. CASE jobs' = [jobs EXCEPT ![j] = Failed(j)]
    BY <1>0, <1>3, <1>4, <2>3, HolderKeeps, FailedFacts
  <2>. QED
    BY <1>1, <2>2, <2>3
<1>6. Client(j)' = Client(j)
  BY <1>0, <1>2, <1>5, FailedFacts DEF Client
<1>7. ASSUME j \notin torn' PROVE JobOK(j)'
  <2>1. /\ JobOK(j) /\ jobs[j].done = {} /\ KeptNothing(j) /\ Nowhere(j)
        /\ jobs[j].answer # "result" /\ jobs[j].kind = "transaction"
    BY <1>0, <1>1, <1>7 DEF IInv, JobOK
  <2>2. KeptNothing(j)' /\ Nowhere(j)' /\ OnItsOwn(j)'
    BY <1>1, <1>3, <2>1 DEF KeptNothing, Nowhere, OnItsOwn
  <2>3. CASE jobs'[j] = Failed(j)
    BY <1>0, <2>2, <2>3, FailureLeavesJobOK
  <2>4. CASE jobs'[j] = r
    <3>1. Client(j) \in Clients
      BY <1>0, HolderFacts
    <3>2. \A n \in {1, 2} : <<j, n>> \in clients'[Client(j)].writes <=> n \in jobs'[j].done
      BY <1>2, <2>1, <2>2, <2>4, <3>1, <1>6 DEF Nowhere
    <3>. QED
      BY <1>2, <1>3, <1>6, <2>1, <2>2, <2>4, <3>2 DEF JobOK
  <2>. QED
    BY <1>5, <2>3, <2>4
<1>. QED
  BY <1>1, <1>3, <1>5, <1>7, StepKeeps

\* Work that throws, or a statement that was never sent, changes nothing but the job.
LEMMA WorkThrowsKeeps ==
  ASSUME IInv, ExecutorAssumption, NEW j \in Jobs, WorkThrows(j)
  PROVE  IInv'
<1>0. jobs[j].step \in {"begin", "work"} /\ jobs[j].step \in Holding
  BY DEF WorkThrows, Holding
<1>1. jobs' = [jobs EXCEPT ![j] = Failed(j)] /\ UNCHANGED <<clients, committed, torn>>
  BY DEF WorkThrows, Fails
<1>2. /\ TypeOK' /\ ConnectionsAreHeldOnce' /\ jobs'[j] = Failed(j)
      /\ \A k \in Jobs : k # j => jobs'[k] = jobs[k]
  BY <1>0, <1>1, HolderKeeps, FailedFacts DEF IInv, TypeOK
<1>3. ASSUME j \notin torn' PROVE JobOK(j)'
  <2>1. KeptNothing(j) /\ OnItsOwn(j) /\ (jobs[j].kind = "query" => Nowhere(j))
    BY <1>0, <1>1, <1>3 DEF IInv, JobOK
  <2>2. Client(j)' = Client(j)
    BY <1>0, <1>2, FailedFacts DEF Client
  <2>3. KeptNothing(j)' /\ OnItsOwn(j)' /\ (jobs[j].kind = "query" => Nowhere(j)')
    BY <1>1, <2>1, <2>2 DEF KeptNothing, OnItsOwn, Nowhere
  <2>. QED
    BY <1>0, <1>2, <2>3, FailureLeavesJobOK
<1>. QED
  BY <1>1, <1>2, <1>3, StepKeeps

\* A statement the server refuses aborts the transaction and changes no write.
LEMMA StatementRefusedKeeps ==
  ASSUME IInv, ExecutorAssumption, NEW j \in Jobs, StatementRefused(j)
  PROVE  IInv'
<1>0. jobs[j].step = "work" /\ jobs[j].step \in Holding
  BY DEF StatementRefused, At, Holding
<1>1. /\ clients' = [clients EXCEPT ![Client(j)] =
                       [clients[Client(j)] EXCEPT !.aborted = clients[Client(j)].open]]
      /\ jobs' = [jobs EXCEPT ![j] = Failed(j)] /\ UNCHANGED <<committed, torn>>
  BY DEF StatementRefused, Fails, IInv, TypeOK
<1>2. /\ clients' \in [Clients -> [open : BOOLEAN, writes : SUBSET Writes, aborted : BOOLEAN]]
      /\ \A c \in Clients : clients'[c].writes = clients[c].writes
      /\ \A c \in Clients : c # Client(j) => clients'[c] = clients[c]
  BY <1>0, <1>1, HolderFacts DEF IInv, TypeOK
<1>3. /\ TypeOK' /\ ConnectionsAreHeldOnce' /\ jobs'[j] = Failed(j)
      /\ \A k \in Jobs : k # j => jobs'[k] = jobs[k]
  BY <1>0, <1>1, <1>2, HolderKeeps, FailedFacts DEF IInv, TypeOK
<1>4. ASSUME j \notin torn' PROVE JobOK(j)'
  <2>1. KeptNothing(j) /\ OnItsOwn(j) /\ (jobs[j].kind = "query" => Nowhere(j))
    BY <1>0, <1>1, <1>4 DEF IInv, JobOK
  <2>2. Client(j)' = Client(j)
    BY <1>0, <1>3, FailedFacts DEF Client
  <2>3. KeptNothing(j)' /\ OnItsOwn(j)' /\ (jobs[j].kind = "query" => Nowhere(j)')
    BY <1>1, <1>2, <2>1, <2>2 DEF KeptNothing, OnItsOwn, Nowhere
  <2>. QED
    BY <1>0, <1>3, <2>3, FailureLeavesJobOK
<1>. QED
  BY <1>1, <1>2, <1>3, <1>4, StepKeeps

\* A statement that runs writes for its job alone: into the transaction, or at once.
LEMMA RunFacts ==
  ASSUME IInv, NEW j \in Jobs, NEW n \in {1, 2}, jobs[j].step \in Holding,
         Run(Client(j), <<j, n>>)
  PROVE  /\ clients' \in [Clients -> [open : BOOLEAN, writes : SUBSET Writes, aborted : BOOLEAN]]
         /\ committed' \subseteq Writes
         /\ \A c \in Clients : c # Client(j) => clients'[c] = clients[c]
         /\ clients[Client(j)].open =>
              /\ clients'[Client(j)].open /\ committed' = committed
              /\ clients'[Client(j)].writes = clients[Client(j)].writes \cup {<<j, n>>}
         /\ ~clients[Client(j)].open =>
              clients' = clients /\ committed' = committed \cup {<<j, n>>}
<1>1. <<j, n>> \in Writes
  BY DEF Writes
<1>2. CASE clients[Client(j)].open
  <2>1. /\ clients' = [clients EXCEPT ![Client(j)] =
                        [clients[Client(j)] EXCEPT !.writes =
                           clients[Client(j)].writes \cup {<<j, n>>}]]
        /\ committed' = committed
    BY <1>2 DEF Run, IInv, TypeOK
  <2>. QED
    BY <1>1, <1>2, <2>1, HolderFacts DEF IInv, TypeOK
<1>3. CASE ~clients[Client(j)].open
  <2>1. clients' = clients /\ committed' = committed \cup {<<j, n>>}
    BY <1>3 DEF Run
  <2>. QED
    BY <1>1, <1>3, <2>1 DEF IInv, TypeOK
<1>. QED
  BY <1>2, <1>3

\* A statement: a query's is kept at once and is all of it, a transaction's waits.
LEMMA StatementKeeps ==
  ASSUME IInv, ExecutorAssumption, NEW j \in Jobs, NEW n \in {1, 2}, Statement(j, n)
  PROVE  IInv'
<1>. DEFINE r == [jobs[j] EXCEPT
                    !.done = jobs[j].done \cup {n},
                    !.answer = IF jobs[j].kind = "query" THEN "result" ELSE jobs[j].answer,
                    !.step = IF jobs[j].kind = "query" THEN "release" ELSE jobs[j].step]
<1>0. /\ jobs[j].step = "work" /\ jobs[j].step \in Holding
      /\ n \in Statements(jobs[j].kind) /\ n \notin jobs[j].done
  BY DEF Statement, At, Holding
<1>1. /\ Run(Client(j), <<j, n>>) /\ torn' = torn
      /\ jobs' = [jobs EXCEPT ![j] = r] \/ jobs' = [jobs EXCEPT ![j] = Failed(j)]
  BY DEF Statement, Fails, IInv, TypeOK
<1>2. /\ r \in [kind : Kinds,
                step : {"waiting", "begin", "work", "rollback", "release", "over"},
                client : Clients \cup {None}, done : SUBSET {1, 2},
                answer : {"result", "error", None}]
      /\ r.client = jobs[j].client /\ r.kind = jobs[j].kind
      /\ r.done = jobs[j].done \cup {n}
      /\ r.answer = IF jobs[j].kind = "query" THEN "result" ELSE jobs[j].answer
      /\ r.step = IF jobs[j].kind = "query" THEN "release" ELSE "work"
  BY <1>0, HolderFacts
<1>. HIDE DEF r
<1>r. /\ clients' \in [Clients -> [open : BOOLEAN, writes : SUBSET Writes, aborted : BOOLEAN]]
      /\ committed' \subseteq Writes
      /\ \A c \in Clients : c # Client(j) => clients'[c] = clients[c]
      /\ clients[Client(j)].open =>
           /\ clients'[Client(j)].open /\ committed' = committed
           /\ clients'[Client(j)].writes = clients[Client(j)].writes \cup {<<j, n>>}
      /\ ~clients[Client(j)].open =>
           clients' = clients /\ committed' = committed \cup {<<j, n>>}
  BY <1>0, <1>1, RunFacts
<1>3. /\ TypeOK' /\ ConnectionsAreHeldOnce'
      /\ \A k \in Jobs : k # j => jobs'[k] = jobs[k]
      /\ jobs'[j] = r \/ jobs'[j] = Failed(j)
  <2>1. r.step \in Holding
    BY <1>2 DEF Holding
  <2>2. torn' \subseteq Jobs
    BY <1>1 DEF IInv, TypeOK
  <2>3. CASE jobs' = [jobs EXCEPT ![j] = r]
    BY <1>0, <1>2, <1>r, <2>1, <2>2, <2>3, HolderKeeps
  <2>4. CASE jobs' = [jobs EXCEPT ![j] = Failed(j)]
    BY <1>0, <1>r, <2>2, <2>4, HolderKeeps, FailedFacts
  <2>. QED
    BY <1>1, <2>3, <2>4
<1>4. Client(j)' = Client(j) /\ Client(j) \in Clients
  BY <1>0, <1>2, <1>3, FailedFacts, HolderFacts DEF Client
<1>5. \A k \in Jobs, m \in {1, 2} : k # j => <<k, m>> # <<j, n>>
  OBVIOUS
<1>6. /\ \A c \in Clients : c # Client(j) => clients'[c] = clients[c]
      /\ \A k \in Jobs, c \in Clients, m \in {1, 2} :
           k # j /\ <<k, m>> \in clients'[c].writes => <<k, m>> \in clients[c].writes
      /\ \A k \in Jobs, m \in {1, 2} :
           k # j => (<<k, m>> \in committed' <=> <<k, m>> \in committed)
  <2>1. CASE clients[Client(j)].open
    BY ONLY <1>5, <1>r, <2>1
  <2>2. CASE ~clients[Client(j)].open
    BY ONLY <1>5, <1>r, <2>2
  <2>. QED
    BY <2>1, <2>2
<1>7. ASSUME j \notin torn' PROVE JobOK(j)'
  <2>0. JobOK(j) /\ KeptNothing(j) /\ jobs[j].answer # "result" /\ OnItsOwn(j)
    BY <1>0, <1>1, <1>7 DEF IInv, JobOK
  <2>1. CASE jobs[j].kind = "query"
    <3>1. ~clients[Client(j)].open /\ Nowhere(j) /\ Statements(jobs[j].kind) = {1} /\ n = 1
      BY <1>0, <2>0, <2>1 DEF JobOK, Statements
    <3>2. clients' = clients /\ committed' = committed \cup {<<j, 1>>}
      BY <1>r, <3>1
    <3>3. Nowhere(j)' /\ OnItsOwn(j)'
      BY <3>1, <3>2 DEF Nowhere, OnItsOwn
    <3>4. jobs'[j].kind = "query"
      BY <1>0, <1>2, <1>3, <2>1, FailedFacts
    <3>5. KeptAll(j)'
      BY <2>0, <3>2, <3>4 DEF KeptAll, KeptNothing, Statements
    <3>6. CASE jobs'[j] = r
      BY <1>2, <2>1, <3>3, <3>5, <3>6 DEF JobOK
    <3>7. CASE jobs'[j] = Failed(j)
      BY <1>0, <3>3, <3>5, <3>7, FailureLeavesJobOK
    <3>. QED
      BY <1>3, <3>6, <3>7
  <2>2. CASE jobs[j].kind # "query"
    <3>1. jobs[j].kind = "transaction" /\ clients[Client(j)].open
      BY <1>0, <2>0, <2>2, HolderFacts DEF JobOK, Kinds
    <3>2. /\ committed' = committed /\ clients'[Client(j)].open
          /\ clients'[Client(j)].writes = clients[Client(j)].writes \cup {<<j, n>>}
      BY <1>r, <3>1
    <3>3. KeptNothing(j)' /\ OnItsOwn(j)'
      BY <1>4, <1>6, <2>0, <3>2 DEF KeptNothing, OnItsOwn
    <3>4. \A m \in {1, 2} : <<j, m>> \in clients'[Client(j)].writes
                              <=> m \in jobs[j].done \cup {n}
      BY <1>0, <2>0, <3>1, <3>2 DEF JobOK
    <3>5. CASE jobs'[j] = r
      BY <1>2, <1>4, <2>0, <2>2, <3>1, <3>2, <3>3, <3>4, <3>5 DEF JobOK
    <3>6. CASE jobs'[j] = Failed(j)
      BY <1>0, <2>2, <3>3, <3>6, FailureLeavesJobOK
    <3>. QED
      BY <1>3, <3>5, <3>6
  <2>. QED
    BY <2>1, <2>2
<1>. QED
  BY <1>1, <1>3, <1>6, <1>7, StepKeeps

\* A connection that is cleaned holds nothing of anybody.
LEMMA CleanFacts ==
  ASSUME IInv, NEW j \in Jobs, jobs[j].step \in Holding,
         clients' = [clients EXCEPT ![Client(j)] = Clean]
  PROVE  /\ clients' \in [Clients -> [open : BOOLEAN, writes : SUBSET Writes, aborted : BOOLEAN]]
         /\ \A c \in Clients : c # Client(j) => clients'[c] = clients[c]
         /\ clients'[Client(j)].writes = {}
         /\ \A k \in Jobs, c \in Clients, n \in {1, 2} :
              <<k, n>> \in clients'[c].writes => <<k, n>> \in clients[c].writes
         /\ OnItsOwn(j) => \A c \in Clients, n \in {1, 2} : <<j, n>> \notin clients'[c].writes
<1>1. Clean \in [open : BOOLEAN, writes : SUBSET Writes, aborted : BOOLEAN] /\ Clean.writes = {}
  BY DEF Clean
<1>2. Client(j) \in Clients
  BY HolderFacts
<1>3. /\ clients' \in [Clients -> [open : BOOLEAN, writes : SUBSET Writes, aborted : BOOLEAN]]
      /\ \A c \in Clients : c # Client(j) => clients'[c] = clients[c]
      /\ clients'[Client(j)].writes = {}
  BY <1>1, <1>2 DEF IInv, TypeOK
<1>4. OnItsOwn(j) => \A c \in Clients, n \in {1, 2} : <<j, n>> \notin clients'[c].writes
  BY <1>3 DEF OnItsOwn
<1>5. \A k \in Jobs, c \in Clients, n \in {1, 2} :
        <<k, n>> \in clients'[c].writes => <<k, n>> \in clients[c].writes
  BY <1>3
<1>. QED
  BY <1>3, <1>4, <1>5

\* COMMIT keeps both statements of its transaction and nothing of any other job.
LEMMA CommitKeeps ==
  ASSUME IInv, ExecutorAssumption, NEW j \in Jobs, Commit(j)
  PROVE  IInv'
<1>. DEFINE r == [jobs[j] EXCEPT !.answer = "result", !.step = "release"]
<1>0. jobs[j].step = "work" /\ jobs[j].done = {1, 2} /\ jobs[j].step \in Holding
  BY DEF Commit, At, Holding
<1>1. /\ clients' = [clients EXCEPT ![Client(j)] = Clean] /\ torn' = torn
      /\ committed' = committed \cup clients[Client(j)].writes
      /\ jobs' = [jobs EXCEPT ![j] = r] \/ jobs' = [jobs EXCEPT ![j] = Failed(j)]
  BY DEF Commit, Fails, IInv, TypeOK
<1>2. /\ r \in [kind : Kinds,
                step : {"waiting", "begin", "work", "rollback", "release", "over"},
                client : Clients \cup {None}, done : SUBSET {1, 2},
                answer : {"result", "error", None}]
      /\ r.client = jobs[j].client /\ r.kind = jobs[j].kind
      /\ r.answer = "result" /\ r.step = "release" /\ r.step \in Holding
  BY <1>0, HolderFacts DEF Holding
<1>. HIDE DEF r
<1>3. committed' \subseteq Writes /\ torn' \subseteq Jobs
  BY <1>0, <1>1, HolderFacts DEF IInv, TypeOK
<1>4. /\ TypeOK' /\ ConnectionsAreHeldOnce'
      /\ \A k \in Jobs : k # j => jobs'[k] = jobs[k]
      /\ jobs'[j] = r \/ jobs'[j] = Failed(j)
  <2>0. clients' \in [Clients -> [open : BOOLEAN, writes : SUBSET Writes, aborted : BOOLEAN]]
    BY <1>0, <1>1, CleanFacts
  <2>1. CASE jobs' = [jobs EXCEPT ![j] = r]
    BY <1>0, <1>2, <1>3, <2>0, <2>1, HolderKeeps
  <2>2. CASE jobs' = [jobs EXCEPT ![j] = Failed(j)]
    BY <1>0, <1>3, <2>0, <2>2, HolderKeeps, FailedFacts
  <2>. QED
    BY <1>1, <2>1, <2>2
<1>5. ASSUME NEW k \in Jobs, k # j, k \notin torn, NEW n \in {1, 2}
      PROVE  <<k, n>> \in committed' <=> <<k, n>> \in committed
  <2>1. Client(j) \in Clients /\ Client(j) # Client(k)
    BY <1>0, <1>5, HolderFacts DEF IInv, ConnectionsAreHeldOnce, ExecutorAssumption
  <2>2. <<k, n>> \notin clients[Client(j)].writes
    BY <1>5, <2>1 DEF IInv, JobOK, OnItsOwn
  <2>. QED
    BY <1>1, <2>2
<1>6. ASSUME j \notin torn' PROVE JobOK(j)'
  <2>1. JobOK(j)
    BY <1>1, <1>6 DEF IInv
  <2>2. jobs[j].kind = "transaction" /\ KeptNothing(j) /\ OnItsOwn(j)
    BY <1>0, <2>1, HolderFacts DEF JobOK, Kinds
  <2>3. \A n \in {1, 2} : <<j, n>> \in clients[Client(j)].writes
    BY <1>0, <2>1, <2>2 DEF JobOK
  <2>4. jobs'[j].kind = "transaction"
    BY <1>0, <1>2, <1>4, <2>2, FailedFacts
  <2>5. KeptAll(j)'
    BY <1>1, <2>3, <2>4 DEF KeptAll, Statements
  <2>6. Nowhere(j)' /\ OnItsOwn(j)'
    BY <1>0, <1>1, <2>2, CleanFacts DEF Nowhere, OnItsOwn
  <2>7. CASE jobs'[j] = r
    BY <1>2, <2>4, <2>5, <2>6, <2>7 DEF JobOK
  <2>8. CASE jobs'[j] = Failed(j)
    BY <1>0, <2>5, <2>6, <2>8, FailureLeavesJobOK
  <2>. QED
    BY <1>4, <2>7, <2>8
<1>7. /\ \A c \in Clients : c # Client(j) => clients'[c] = clients[c]
      /\ \A k \in Jobs, c \in Clients, n \in {1, 2} :
           <<k, n>> \in clients'[c].writes => <<k, n>> \in clients[c].writes
  BY <1>0, <1>1, CleanFacts
<1>. QED
  BY <1>1, <1>4, <1>5, <1>6, <1>7, StepKeeps

\* ROLLBACK leaves nothing on the connection, and what was committed is still kept.
LEMMA RollbackKeeps ==
  ASSUME IInv, ExecutorAssumption, NEW j \in Jobs, Rollback(j)
  PROVE  IInv'
<1>. DEFINE r == [jobs[j] EXCEPT !.step = "release"]
<1>0. jobs[j].step = "rollback" /\ jobs[j].step \in Holding
  BY DEF Rollback, At, Holding
<1>1. /\ clients' = [clients EXCEPT ![Client(j)] = Clean]
      /\ UNCHANGED <<committed, torn>> /\ jobs' = [jobs EXCEPT ![j] = r]
  BY DEF Rollback, IInv, TypeOK
<1>2. /\ r \in [kind : Kinds,
                step : {"waiting", "begin", "work", "rollback", "release", "over"},
                client : Clients \cup {None}, done : SUBSET {1, 2},
                answer : {"result", "error", None}]
      /\ r.client = jobs[j].client /\ r.kind = jobs[j].kind /\ r.answer = jobs[j].answer
      /\ r.step = "release" /\ r.step \in Holding
  BY <1>0, HolderFacts DEF Holding
<1>. HIDE DEF r
<1>3. committed' \subseteq Writes /\ torn' \subseteq Jobs
  BY <1>1 DEF IInv, TypeOK
<1>4. /\ TypeOK' /\ ConnectionsAreHeldOnce' /\ jobs'[j] = r
      /\ \A k \in Jobs : k # j => jobs'[k] = jobs[k]
  BY <1>0, <1>1, <1>2, <1>3, HolderKeeps, CleanFacts
<1>5. ASSUME j \notin torn' PROVE JobOK(j)'
  <2>1. JobOK(j)
    BY <1>1, <1>5 DEF IInv
  <2>2. OnItsOwn(j) /\ (KeptNothing(j) \/ KeptAll(j)) /\ jobs[j].answer # "result"
    BY <1>0, <2>1 DEF JobOK
  <2>3. Nowhere(j)' /\ OnItsOwn(j)'
    BY <1>0, <1>1, <2>2, CleanFacts DEF Nowhere, OnItsOwn
  <2>4. KeptNothing(j)' \/ KeptAll(j)'
    BY <1>1, <1>2, <1>4, <2>2 DEF KeptNothing, KeptAll
  <2>. QED
    BY <1>2, <1>4, <2>2, <2>3, <2>4 DEF JobOK
<1>6. /\ \A c \in Clients : c # Client(j) => clients'[c] = clients[c]
      /\ \A k \in Jobs, c \in Clients, n \in {1, 2} :
           <<k, n>> \in clients'[c].writes => <<k, n>> \in clients[c].writes
  BY <1>0, <1>1, CleanFacts
<1>. QED
  BY <1>1, <1>4, <1>5, <1>6, StepKeeps

\* A ROLLBACK that is lost makes its job torn, and touches no other.
LEMMA RollbackLostKeeps ==
  ASSUME IInv, ExecutorAssumption, NEW j \in Jobs, RollbackLost(j)
  PROVE  IInv'
<1>. DEFINE r == [jobs[j] EXCEPT !.step = "release"]
<1>0. jobs[j].step = "rollback" /\ jobs[j].step \in Holding
  BY DEF RollbackLost, At, Holding
<1>1. /\ UNCHANGED <<clients, committed>> /\ torn' = torn \cup {j}
      /\ jobs' = [jobs EXCEPT ![j] = r]
  BY DEF RollbackLost, IInv, TypeOK
<1>2. /\ r \in [kind : Kinds,
                step : {"waiting", "begin", "work", "rollback", "release", "over"},
                client : Clients \cup {None}, done : SUBSET {1, 2},
                answer : {"result", "error", None}]
      /\ r.client = jobs[j].client /\ r.step \in Holding
  BY <1>0, HolderFacts DEF Holding
<1>. HIDE DEF r
<1>3. /\ committed' \subseteq Writes /\ torn' \subseteq Jobs
      /\ clients' \in [Clients -> [open : BOOLEAN, writes : SUBSET Writes, aborted : BOOLEAN]]
  BY <1>1 DEF IInv, TypeOK
<1>4. /\ TypeOK' /\ ConnectionsAreHeldOnce'
      /\ \A k \in Jobs : k # j => jobs'[k] = jobs[k]
  BY <1>0, <1>1, <1>2, <1>3, HolderKeeps
<1>. QED
  BY <1>1, <1>4, StepKeeps

\* A job gives its connection back when nothing of it is left there.
LEMMA ReleaseKeeps ==
  ASSUME IInv, ExecutorAssumption, NEW j \in Jobs, Release(j)
  PROVE  IInv'
<1>0. jobs[j] \in [kind : Kinds,
                   step : {"waiting", "begin", "work", "rollback", "release", "over"},
                   client : Clients \cup {None}, done : SUBSET {1, 2},
                   answer : {"result", "error", None}]
  BY DEF IInv, TypeOK
<1>1. /\ jobs[j].step = "release"
      /\ jobs' = [jobs EXCEPT ![j] = [jobs[j] EXCEPT !.client = None, !.step = "over"]]
      /\ UNCHANGED <<clients, committed, torn>>
  BY <1>0 DEF Release, At, IInv, TypeOK
<1>2. /\ \A k \in Jobs : k # j => jobs'[k] = jobs[k]
      /\ jobs'[j].client = None /\ jobs'[j].kind = jobs[j].kind
      /\ jobs'[j].answer = jobs[j].answer /\ jobs'[j].step = "over"
  BY <1>0, <1>1 DEF IInv, TypeOK
<1>3. TypeOK'
  BY <1>0, <1>1 DEF IInv, TypeOK
<1>4. ConnectionsAreHeldOnce'
  <2>1. Client(j)' = None /\ \A k \in Jobs : k # j => Client(k)' = Client(k)
    BY <1>2 DEF Client
  <2>2. /\ jobs'[j].step \notin Holding
        /\ \A k \in Jobs : k # j => (jobs'[k].step \in Holding <=> jobs[k].step \in Holding)
    BY <1>2 DEF Holding
  <2>. QED
    BY <2>1, <2>2 DEF IInv, ConnectionsAreHeldOnce
<1>5. ASSUME j \notin torn' PROVE JobOK(j)'
  <2>1. JobOK(j) /\ Nowhere(j)
    BY <1>1, <1>5 DEF IInv, JobOK
  <2>2. Nowhere(j)' /\ OnItsOwn(j)'
    BY <1>1, <2>1 DEF Nowhere, OnItsOwn
  <2>3. /\ KeptNothing(j)' <=> KeptNothing(j)
        /\ KeptAll(j)' <=> KeptAll(j)
    BY <1>1, <1>2 DEF KeptNothing, KeptAll
  <2>. QED
    BY <1>1, <1>2, <2>1, <2>2, <2>3 DEF JobOK
<1>. QED
  BY <1>1, <1>2, <1>3, <1>4, <1>5, StepKeeps

-----------------------------------------------------------------------------
(* The invariant and what follows from it. *)

\* No job has begun and every connection is clean.
LEMMA InitEstablishesIInv ==
  ASSUME ExecutorAssumption, Init
  PROVE  IInv
<1>1. /\ \A j \in Jobs : \E k \in Kinds : jobs[j] = NewJob(k)
      /\ jobs \in [Jobs -> {NewJob(k) : k \in Kinds}]
      /\ clients = [c \in Clients |-> Clean] /\ committed = {} /\ torn = {}
  BY DEF Init
<1>2. \A k \in Kinds :
        /\ NewJob(k) \in [kind : Kinds,
                          step : {"waiting", "begin", "work", "rollback", "release", "over"},
                          client : Clients \cup {None}, done : SUBSET {1, 2},
                          answer : {"result", "error", None}]
        /\ NewJob(k).step = "waiting" /\ NewJob(k).client = None
        /\ NewJob(k).done = {} /\ NewJob(k).answer = None
  BY DEF NewJob
<1>3. Clean \in [open : BOOLEAN, writes : SUBSET Writes, aborted : BOOLEAN] /\ Clean.writes = {}
  BY DEF Clean
<1>4. TypeOK
  BY <1>1, <1>2, <1>3 DEF TypeOK
<1>5. ConnectionsAreHeldOnce
  BY <1>1, <1>2 DEF ConnectionsAreHeldOnce, Client, Holding
<1>6. ASSUME NEW j \in Jobs PROVE JobOK(j)
  <2>1. /\ jobs[j].step = "waiting" /\ jobs[j].done = {} /\ jobs[j].answer = None
    BY <1>1, <1>2
  <2>2. \A c \in Clients : clients[c].writes = {}
    BY <1>1, <1>3
  <2>3. KeptNothing(j) /\ Nowhere(j) /\ OnItsOwn(j)
    BY <1>1, <2>2 DEF KeptNothing, Nowhere, OnItsOwn
  <2>. QED
    BY <2>1, <2>3 DEF JobOK, ExecutorAssumption
<1>. QED
  BY <1>4, <1>5, <1>6 DEF IInv

\* Every step keeps it.
LEMMA NextKeepsIInv ==
  ASSUME IInv, ExecutorAssumption, [Next]_vars
  PROVE  IInv'
<1>1. ASSUME NEW j \in Jobs, NEW c \in Clients, Connect(j, c) PROVE IInv'
  BY <1>1, ConnectKeeps
<1>2. ASSUME NEW j \in Jobs, ConnectFails(j) PROVE IInv'
  BY <1>2, ConnectFailsKeeps
<1>3. ASSUME NEW j \in Jobs, Begin(j) PROVE IInv'
  BY <1>3, BeginKeeps
<1>4. ASSUME NEW j \in Jobs, StatementRefused(j) PROVE IInv'
  BY <1>4, StatementRefusedKeeps
<1>5. ASSUME NEW j \in Jobs, WorkThrows(j) PROVE IInv'
  BY <1>5, WorkThrowsKeeps
<1>6. ASSUME NEW j \in Jobs, NEW n \in {1, 2}, Statement(j, n) PROVE IInv'
  BY <1>6, StatementKeeps
<1>7. ASSUME NEW j \in Jobs, Commit(j) PROVE IInv'
  BY <1>7, CommitKeeps
<1>8. ASSUME NEW j \in Jobs, Rollback(j) PROVE IInv'
  BY <1>8, RollbackKeeps
<1>9. ASSUME NEW j \in Jobs, RollbackLost(j) PROVE IInv'
  BY <1>9, RollbackLostKeeps
<1>10. ASSUME NEW j \in Jobs, Release(j) PROVE IInv'
  BY <1>10, ReleaseKeeps
<1>11. CASE UNCHANGED vars
  <2>1. UNCHANGED jobs /\ UNCHANGED clients /\ UNCHANGED committed /\ UNCHANGED torn
    BY <1>11 DEF vars
  <2>2. TypeOK'
    BY <2>1 DEF IInv, TypeOK
  <2>3. ConnectionsAreHeldOnce'
    BY <2>1 DEF IInv, ConnectionsAreHeldOnce, Client
  <2>4. ASSUME NEW j \in Jobs, j \notin torn' PROVE JobOK(j)'
    <3>1. JobOK(j)
      BY <2>1, <2>4 DEF IInv
    <3>. QED
      BY <2>1, <3>1 DEF JobOK, KeptNothing, KeptAll, OnItsOwn, Nowhere, Client
  <2>. QED
    BY <2>2, <2>3, <2>4 DEF IInv
<1>. QED
  BY <1>1, <1>2, <1>3, <1>4, <1>5, <1>6, <1>7, <1>8, <1>9, <1>10, <1>11 DEF Next

\* The invariant says what the property does of a job that is over.
LEMMA IInvImpliesAllOrNothing == ASSUME IInv PROVE AllOrNothing
<1>1. ASSUME NEW j \in Jobs, At(j, "over"), j \notin torn
      PROVE  /\ Kept(j) \in {{}, Statements(jobs[j].kind)}
             /\ jobs[j].answer = "result" => Kept(j) # {}
             /\ \A c \in Clients : clients[c].writes \cap ({j} \X {1, 2}) = {}
  <2>1. /\ KeptNothing(j) \/ KeptAll(j)
        /\ jobs[j].answer = "result" => KeptAll(j)
        /\ Nowhere(j)
    BY <1>1 DEF IInv, JobOK, At
  <2>2. KeptNothing(j) => Kept(j) = {}
    BY DEF KeptNothing, Kept
  <2>3. KeptAll(j) => Kept(j) = Statements(jobs[j].kind)
    BY DEF KeptAll, Kept, Statements
  <2>4. Statements(jobs[j].kind) # {}
    BY DEF Statements
  <2>5. \A c \in Clients : clients[c].writes \cap ({j} \X {1, 2}) = {}
    BY <2>1 DEF Nowhere
  <2>. QED
    BY <2>1, <2>2, <2>3, <2>4, <2>5
<1>. QED
  BY <1>1 DEF AllOrNothing

\* The pool and its transactions stay within their types, each connection with one job,
\* and each job that lost no ROLLBACK is kept whole or not at all at every moment.
THEOREM InvariantHolds == ASSUME ExecutorAssumption PROVE Spec => []IInv
<1>1. Init => IInv
  BY InitEstablishesIInv
<1>2. IInv /\ [Next]_vars => IInv'
  BY NextKeepsIInv
<1>. QED
  BY <1>1, <1>2, PTL DEF Spec

\* PgExecutor.transaction is atomic and leaves a clean connection: a job that is over,
\* and neither lost its ROLLBACK nor met the remains of one, was kept whole or not at
\* all, and whole when its caller was answered.
THEOREM AtomicityHolds == ASSUME ExecutorAssumption PROVE Spec => []AllOrNothing
<1>1. IInv => AllOrNothing
  BY IInvImpliesAllOrNothing
<1>. QED
  BY <1>1, InvariantHolds, PTL
=============================================================================
