-------------------------- MODULE PostgresExecutor --------------------------
(***************************************************************************)
(* PgExecutor over a pool of connections: a job is one query, or one       *)
(* transaction of two statements. Statements fail, or are not answered in  *)
(* time (query_timeout), whether they ran or not. The pool and the         *)
(* server's side of a connection are outside the code.                     *)
(***************************************************************************)
CONSTANTS
  Jobs,
  Clients,  \* connections of the pool (5 in the web process, 1 in the worker)
  None

ExecutorAssumption == None \notin Clients \cup {"result", "error"}

VARIABLES
  jobs,       \* each job: kind, step, connection, statements done, answer
  clients,    \* each connection: its open transaction, its writes, whether it is aborted
  committed,  \* writes the database keeps
  torn        \* history: jobs whose ROLLBACK failed, and those that met their remains

vars == <<jobs, clients, committed, torn>>

Kinds == {"query", "transaction"}
Statements(kind) == IF kind = "query" THEN {1} ELSE {1, 2}
Writes == Jobs \X {1, 2}

NewJob(kind) == [kind |-> kind, step |-> "waiting", client |-> None, done |-> {}, answer |-> None]
Clean == [open |-> FALSE, writes |-> {}, aborted |-> FALSE]

TypeOK ==
  /\ jobs \in [Jobs -> [kind : Kinds,
                        step : {"waiting", "begin", "work", "rollback", "release", "over"},
                        client : Clients \cup {None}, done : SUBSET {1, 2},
                        answer : {"result", "error", None}]]
  /\ clients \in [Clients -> [open : BOOLEAN, writes : SUBSET Writes, aborted : BOOLEAN]]
  /\ committed \subseteq Writes /\ torn \subseteq Jobs

Init ==
  /\ jobs \in [Jobs -> {NewJob(k) : k \in Kinds}]
  /\ clients = [c \in Clients |-> Clean]
  /\ committed = {} /\ torn = {}

-----------------------------------------------------------------------------
At(j, step) == jobs[j].step = step
Client(j) == jobs[j].client

\* Mutant: a failure goes straight to the release of the connection.
ReleaseAtOnce(j) == [jobs[j] EXCEPT !.answer = "error", !.step = "release"]

\* The job's error: a transaction rolls back before it gives its connection back.
Failed(j) ==
  [jobs[j] EXCEPT !.answer = "error",
                  !.step = IF jobs[j].kind = "transaction" THEN "rollback" ELSE "release"]

Fails(j) == jobs' = [jobs EXCEPT ![j] = Failed(j)]

\* pool.connect gives an idle connection, whatever was left on it.
Connect(j, c) ==
  /\ At(j, "waiting") /\ \A k \in Jobs : Client(k) # c
  /\ jobs' = [jobs EXCEPT ![j].client = c,
                          ![j].step = IF jobs[j].kind = "query" THEN "work" ELSE "begin"]
  /\ torn' = IF clients[c].open THEN torn \cup {j} ELSE torn
  /\ UNCHANGED <<clients, committed>>

\* There is none in time.
ConnectFails(j) ==
  /\ At(j, "waiting")
  /\ jobs' = [jobs EXCEPT ![j].answer = "error", ![j].step = "over"]
  /\ UNCHANGED <<clients, committed, torn>>

\* BEGIN; in an open transaction it is a warning. Its answer may be late.
Begin(j) ==
  /\ At(j, "begin")
  /\ clients' = [clients EXCEPT ![Client(j)].open = TRUE]
  /\ jobs' = [jobs EXCEPT ![j].step = "work"] \/ Fails(j)
  /\ UNCHANGED <<committed, torn>>

\* The server runs a statement: in the transaction, if one is open.
Run(c, write) ==
  /\ ~clients[c].aborted
  /\ IF clients[c].open
     THEN clients' = [clients EXCEPT ![c].writes = @ \cup {write}] /\ UNCHANGED committed
     ELSE committed' = committed \cup {write} /\ UNCHANGED clients

\* The next statement runs; in time, or not.
Statement(j, n) ==
  /\ At(j, "work") /\ n \in Statements(jobs[j].kind) \ jobs[j].done
  /\ n = 2 => 1 \in jobs[j].done
  /\ Run(Client(j), <<j, n>>)
  /\ \/ jobs' = [jobs EXCEPT ![j].done = @ \cup {n},
                             ![j].answer = IF jobs[j].kind = "query" THEN "result" ELSE @,
                             ![j].step = IF jobs[j].kind = "query" THEN "release" ELSE @]
     \/ Fails(j)
  /\ UNCHANGED torn

\* The server refuses it, which aborts an open transaction.
StatementRefused(j) ==
  /\ At(j, "work")
  /\ clients' = [clients EXCEPT ![Client(j)].aborted = clients[Client(j)].open]
  /\ Fails(j)
  /\ UNCHANGED <<committed, torn>>

\* The work of the transaction throws, or a statement, BEGIN too, never reaches the server.
WorkThrows(j) ==
  /\ jobs[j].step \in {"begin", "work"}
  /\ Fails(j)
  /\ UNCHANGED <<clients, committed, torn>>

\* COMMIT keeps what the connection's transaction wrote. Its answer may be late.
Commit(j) ==
  /\ At(j, "work") /\ jobs[j].done = {1, 2}
  /\ committed' = committed \cup clients[Client(j)].writes
  /\ clients' = [clients EXCEPT ![Client(j)] = Clean]
  /\ \/ jobs' = [jobs EXCEPT ![j].answer = "result", ![j].step = "release"]
     \/ Fails(j)
  /\ UNCHANGED torn

\* ROLLBACK; the connection may break instead, and the pool drop it.
Rollback(j) ==
  /\ At(j, "rollback")
  /\ clients' = [clients EXCEPT ![Client(j)] = Clean]
  /\ jobs' = [jobs EXCEPT ![j].step = "release"]
  /\ UNCHANGED <<committed, torn>>

\* ROLLBACK is not answered in time and never sent: nobody is told.
RollbackLost(j) ==
  /\ At(j, "rollback")
  /\ jobs' = [jobs EXCEPT ![j].step = "release"]
  /\ torn' = torn \cup {j}
  /\ UNCHANGED <<clients, committed>>

Release(j) ==
  /\ At(j, "release")
  /\ jobs' = [jobs EXCEPT ![j].client = None, ![j].step = "over"]
  /\ UNCHANGED <<clients, committed, torn>>

Next ==
  \E j \in Jobs :
    \/ \E c \in Clients : Connect(j, c)
    \/ ConnectFails(j) \/ Begin(j) \/ StatementRefused(j) \/ WorkThrows(j)
    \/ \E n \in {1, 2} : Statement(j, n)
    \/ Commit(j) \/ Rollback(j) \/ RollbackLost(j) \/ Release(j)

Spec == Init /\ [][Next]_vars

-----------------------------------------------------------------------------
Kept(j) == {n \in {1, 2} : <<j, n>> \in committed}

\* A job that is over is kept whole or not at all, whole when it was answered, and left
\* nothing on its connection for the next one to commit. (A ROLLBACK that is lost leaves
\* the transaction open for the next job, which may then commit both or lose its own.)
AllOrNothing ==
  \A j \in Jobs : At(j, "over") /\ j \notin torn =>
    /\ Kept(j) \in {{}, Statements(jobs[j].kind)}
    /\ jobs[j].answer = "result" => Kept(j) # {}
    /\ \A c \in Clients : clients[c].writes \cap ({j} \X {1, 2}) = {}
=============================================================================
