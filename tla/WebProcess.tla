----------------------------- MODULE WebProcess -----------------------------
(***************************************************************************)
(* The web process with live OAuth: its start from an environment, the     *)
(* operator's session, which is a signed cookie and nothing the process    *)
(* keeps, and the inline worker, whose runs a timer starts. What a run     *)
(* does to the exchange queue is module OAuthExchange.                     *)
(***************************************************************************)
EXTENDS Naturals

CONSTANTS
  Environments,  \* [valid, live, inline : BOOLEAN, secret, actor, lifetime : Nat \ {0}]
  MaxClaims,     \* WORKER_ONCE_MAXIMUM_CLAIMS
  MaxTime,       \* bound: the clock, in seconds
  None

WebProcessAssumption ==
  /\ \A e \in Environments : e.lifetime \in Nat \ {0}
  /\ MaxClaims \in Nat \ {0} /\ MaxTime \in Nat
  /\ None \notin Environments

VARIABLES
  config,   \* the environment the process started from; None when it is down
  now,
  browser,  \* the operator's cookie, with the time of its login
  copy,     \* a cookie once set that the browser may have dropped
  seen,     \* the last request: its cookie and whether it was authenticated
  runs,     \* invocations of run that are under way: claims so far of each
  worker    \* running, stopped, and whether stop was called and has returned

vars == <<config, now, browser, copy, seen, runs, worker>>

Cookies == [secret : {e.secret : e \in Environments}, actor : {e.actor : e \in Environments},
            expires : Nat, since : Nat]
NoWorker == [running |-> FALSE, stopped |-> FALSE, halted |-> FALSE]
NoRequest == [cookie |-> None, ok |-> FALSE]

TypeOK ==
  /\ config \in Environments \cup {None}
  /\ now \in 0..MaxTime
  /\ browser \in Cookies \cup {None} /\ copy \in Cookies \cup {None}
  /\ seen \in [cookie : Cookies \cup {None}, ok : BOOLEAN]
  /\ runs \in [{1, 2} -> 0..MaxClaims \cup {None}]
  /\ worker \in [running : BOOLEAN, stopped : BOOLEAN, halted : BOOLEAN]

NoRuns == [i \in {1, 2} |-> None]

Init ==
  /\ config = None /\ now = 0
  /\ browser = None /\ copy = None /\ seen = NoRequest
  /\ runs = NoRuns /\ worker = NoWorker

-----------------------------------------------------------------------------
(* start, and the end of the process. *)

Up == config # None

\* The head of run.
MayRun == ~worker.running /\ ~worker.stopped

BeginRun ==
  IF MayRun
  THEN /\ worker' = [worker EXCEPT !.running = TRUE]
       /\ \E i \in {1, 2} : runs[i] = None /\ runs' = [runs EXCEPT ![i] = 0]
  ELSE UNCHANGED <<runs, worker>>

\* An environment that does not parse rejects the start.
Start(e) ==
  /\ ~Up /\ e.valid
  /\ config' = e /\ seen' = NoRequest
  /\ IF e.live /\ e.inline THEN BeginRun ELSE UNCHANGED <<runs, worker>>
  /\ UNCHANGED <<now, browser, copy>>

\* The process ends; main never calls stop.
Exit ==
  /\ Up
  /\ config' = None /\ runs' = NoRuns /\ worker' = NoWorker /\ seen' = NoRequest
  /\ UNCHANGED <<now, browser, copy>>

Tick ==
  /\ now < MaxTime /\ now' = now + 1
  /\ browser' = IF browser # None /\ browser.expires <= now + 1 THEN None ELSE browser
  /\ seen' = NoRequest
  /\ UNCHANGED <<config, copy, runs, worker>>

-----------------------------------------------------------------------------
(* The session. *)

\* login with the right token; any other one is refused.
Login ==
  /\ Up /\ config.live
  /\ LET cookie == [secret |-> config.secret, actor |-> config.actor,
                    expires |-> now + config.lifetime, since |-> now]
     IN browser' = cookie /\ copy' \in {copy, cookie}
  /\ seen' = NoRequest
  /\ UNCHANGED <<config, now, runs, worker>>

\* logout tells the browser to forget; it asks for no session.
Logout ==
  /\ Up /\ config.live
  /\ browser' = None /\ seen' = NoRequest
  /\ UNCHANGED <<config, now, copy, runs, worker>>

\* Mutant: the lifetime of a cookie ends a second late.
ExpiresLate(cookie) ==
  /\ cookie.secret = config.secret
  /\ cookie.expires >= now
  /\ cookie.actor = config.actor

\* authenticate: the signature, the expiry, and whose it is.
Authentic(cookie) ==
  /\ cookie.secret = config.secret
  /\ cookie.expires > now
  /\ cookie.actor = config.actor

\* A request with a cookie this process, or an earlier one, has set, or with none.
Request(cookie) ==
  /\ Up /\ config.live
  /\ seen' = [cookie |-> cookie, ok |-> cookie # None /\ Authentic(cookie)]
  /\ UNCHANGED <<config, now, browser, copy, runs, worker>>

-----------------------------------------------------------------------------
(* The inline worker. *)

\* The timer; stop clears it.
Timer ==
  /\ Up /\ config.live /\ config.inline /\ MayRun
  /\ BeginRun /\ seen' = NoRequest
  /\ UNCHANGED <<config, now, browser, copy>>

\* One turn of runOAuthExchangeWorkerBatch: a command was claimed, and completed or failed.
Claimed(i) ==
  /\ runs[i] # None /\ runs[i] < MaxClaims
  /\ runs' = [runs EXCEPT ![i] = @ + 1]
  /\ seen' = NoRequest
  /\ UNCHANGED <<config, now, browser, copy, worker>>

\* The batch ends: at its limit, with an idle queue, or with an error, which run swallows.
EndRun(i) ==
  /\ runs[i] # None
  /\ runs' = [runs EXCEPT ![i] = None]
  /\ worker' = [worker EXCEPT !.running = FALSE]
  /\ seen' = NoRequest
  /\ UNCHANGED <<config, now, browser, copy>>

\* stop, which waits for the run under way. (main keeps no handle to call it with.)
Stop ==
  /\ Up /\ config.live /\ config.inline /\ ~worker.stopped
  /\ worker' = [worker EXCEPT !.stopped = TRUE]
  /\ seen' = NoRequest
  /\ UNCHANGED <<config, now, browser, copy, runs>>

StopReturns ==
  /\ worker.stopped /\ ~worker.halted /\ ~worker.running
  /\ worker' = [worker EXCEPT !.halted = TRUE]
  /\ seen' = NoRequest
  /\ UNCHANGED <<config, now, browser, copy, runs>>

Next ==
  \/ \E e \in Environments : Start(e)
  \/ Exit \/ Tick \/ Login \/ Logout
  \/ \E cookie \in {browser, copy, None} : Request(cookie)
  \/ Timer \/ \E i \in {1, 2} : Claimed(i) \/ EndRun(i)
  \/ Stop \/ StopReturns

Spec == Init /\ [][Next]_vars

-----------------------------------------------------------------------------
\* A request is authenticated only by a cookie of this identity that was signed with
\* the present secret and is younger than the lifetime of its time, across restarts
\* with other environments; so is the operator's own until a restart or a logout.
SessionIsFounded ==
  /\ seen.ok => /\ seen.cookie.secret = config.secret
                /\ seen.cookie.actor = config.actor
                /\ \E e \in Environments : now - seen.cookie.since < e.lifetime
                                         /\ seen.cookie.expires = seen.cookie.since + e.lifetime
  /\ Up /\ browser # None /\ browser.secret = config.secret /\ browser.actor = config.actor
       => Authentic(browser)

\* One run of the inline worker at a time, and none once stop has returned.
RunsAlone == (\E i \in {1, 2} : runs[i] # None) =>
  ~worker.halted /\ ~\A i \in {1, 2} : runs[i] # None
=============================================================================
