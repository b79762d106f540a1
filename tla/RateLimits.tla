----------------------------- MODULE RateLimits -----------------------------
(***************************************************************************)
(* HierarchicalRateLimiter: a request is admitted when all four of its     *)
(* scopes admit it, and is then counted in each. Every request carries its *)
(* own time, and the provider may put a scope on a cooldown.               *)
(***************************************************************************)
EXTENDS Naturals, FiniteSets

CONSTANTS
  Requests,      \* [partner_global, credential_subject, shop, endpoint]: the key in each scope
  PolicySets,    \* policies the limiter may be made with: of each scope
                 \* [state, limit, window]; its state is "verified", "unknown" or "undefined"
  Waits,         \* seconds the provider may ask to wait
  MaxTime,       \* bound: times
  MaxCooldowns,  \* bound: keys that ever had a cooldown
  None

Scopes == {"partner_global", "credential_subject", "shop", "endpoint"}
Times == 0..MaxTime

RateLimitAssumption ==
  /\ MaxTime \in Nat /\ Waits \subseteq Nat /\ MaxCooldowns \in Nat
  /\ \A p \in PolicySets, s \in Scopes :
       p[s].limit \in Nat \ {0} /\ p[s].window \in Nat \ {0}

VARIABLES
  policies,   \* those it was made with
  buckets,    \* of a scope and key: start and count of the window last used
  cooldowns,  \* of a scope and key: the time it ends
  admitted,   \* history: requests admitted, by scope and key and the window of their time
  latest      \* history: the latest time so far; None once a request came with an earlier one

vars == <<policies, buckets, cooldowns, admitted, latest>>

Keys == {<<s, r[s]>> : s \in Scopes, r \in Requests}

TypeOK ==
  /\ policies \in PolicySets
  /\ buckets \in [Keys -> [start : Times, count : Nat]]
  /\ cooldowns \in [Keys -> Nat]
  /\ admitted \in [Keys -> [Times -> Nat]]
  /\ latest \in Times \cup {None}

Init ==
  /\ policies \in PolicySets
  /\ buckets = [k \in Keys |-> [start |-> 0, count |-> 0]]
  /\ cooldowns = [k \in Keys |-> 0]
  /\ admitted = [k \in Keys |-> [t \in Times |-> 0]]
  /\ latest = 0

-----------------------------------------------------------------------------
WindowStart(s, now) == now - (now % policies[s].window)

\* readBucket: that of any other window, a later one included, is dropped.
ReadBucket(k, now) ==
  IF buckets[k].start = WindowStart(k[1], now) THEN buckets[k]
  ELSE [start |-> WindowStart(k[1], now), count |-> 0]

\* A scope admits a request; which one refuses first, and until when, is left out.
Admits(s, r, now) ==
  /\ policies[s].state = "verified"
  /\ cooldowns[<<s, r[s]>>] <= now
  /\ ReadBucket(<<s, r[s]>>, now).count < policies[s].limit

KeysOf(r) == {<<s, r[s]>> : s \in Scopes}

\* Mutant: the partner's bucket is the only one counted in.
CountForPartner(r) == {<<"partner_global", r.partner_global>>}

\* The keys a request is counted in.
Reserved(r) == KeysOf(r)

Clock(now) == latest' = IF latest = None \/ now < latest THEN None ELSE now

\* admit.
Admit(r, now) ==
  /\ Clock(now)
  /\ IF \A s \in Scopes : Admits(s, r, now)
     THEN /\ buckets' = [k \in Keys |-> IF k \in Reserved(r)
                                        THEN [ReadBucket(k, now) EXCEPT !.count = @ + 1]
                                        ELSE buckets[k]]
          /\ admitted' = [k \in Keys |->
               IF k \in KeysOf(r) THEN [admitted[k] EXCEPT ![WindowStart(k[1], now)] = @ + 1]
               ELSE admitted[k]]
     ELSE UNCHANGED <<buckets, admitted>>
  /\ UNCHANGED <<policies, cooldowns>>

\* observeProviderRateLimit: a cooldown is never cut short; a scope without a policy
\* throws.
ObserveProviderRateLimit(s, r, now, retryAfter) ==
  /\ policies[s].state # "undefined"
  /\ Cardinality({k \in Keys : k = <<s, r[s]>> \/ cooldowns[k] > 0}) <= MaxCooldowns
  /\ LET until == now + retryAfter
     IN cooldowns' = [cooldowns EXCEPT ![<<s, r[s]>>] = IF until > @ THEN until ELSE @]
  /\ UNCHANGED <<policies, buckets, admitted, latest>>

Next ==
  \E r \in Requests, now \in Times :
    \/ Admit(r, now)
    \/ \E s \in Scopes, retryAfter \in Waits : ObserveProviderRateLimit(s, r, now, retryAfter)

Spec == Init /\ [][Next]_vars

-----------------------------------------------------------------------------
\* While requests come in the order of their times, no window of any scope admits more
\* than its limit, whichever scopes the requests share, and none is admitted in a
\* cooldown. (A request from an earlier window empties the bucket, and the count of the
\* later one is lost.)
LimitsAreKept ==
  [][\A k \in Keys, t \in Times :
       latest' # None /\ admitted'[k][t] # admitted[k][t] =>
         /\ admitted'[k][t] <= policies[k[1]].limit
         /\ cooldowns[k] <= latest']_vars
=============================================================================
