-------------------------- MODULE SafePublication --------------------------
(***************************************************************************)
(* What packages/write-recovery promises about publishing a copy to one    *)
(* destination: once confirmed, the provider steps are sent one after the  *)
(* other, each at most once and each only after the provider applied the   *)
(* step before it; the publication is then given one verdict, and only a   *)
(* person turns an unknown outcome into a known one. There are no workers, *)
(* queues or transactions here.                                            *)
(***************************************************************************)
EXTENDS Naturals

CONSTANTS Attempts, NumSteps

Steps == 1..NumSteps

VARIABLES
  verdict,  \* where the publication stands
  sent,     \* the steps handed to the provider
  answer    \* what the provider did with each of them

vars == <<verdict, sent, answer>>

Init ==
  /\ verdict = [a \in Attempts |-> "none"]
  /\ sent = [a \in Attempts |-> {}]
  /\ answer = [a \in Attempts |-> [s \in Steps |-> "none"]]

\* The user confirmed this destination.
Confirm(a) ==
  /\ verdict[a] = "none"
  /\ verdict' = [verdict EXCEPT ![a] = "open"]
  /\ UNCHANGED <<sent, answer>>

Send(a, s) ==
  /\ verdict[a] = "open"
  /\ s \notin sent[a]
  /\ \A t \in 1..(s - 1) : answer[a][t] = "applied"
  /\ sent' = [sent EXCEPT ![a] = @ \cup {s}]
  /\ UNCHANGED <<verdict, answer>>

\* The provider answers when it likes, also after the verdict.
Answer(a, s, v) ==
  /\ s \in sent[a]
  /\ answer[a][s] = "none"
  /\ answer' = [answer EXCEPT ![a][s] = v]
  /\ UNCHANGED <<verdict, sent>>

Conclude(a, v) ==
  /\ verdict[a] = "open"
  /\ \/ v = "succeeded" /\ \A s \in Steps : answer[a][s] = "applied"
     \/ v = "failed" /\ \E s \in Steps : answer[a][s] = "rejected"
     \/ v = "outcome_unknown" /\ sent[a] # {}
  /\ verdict' = [verdict EXCEPT ![a] = v]
  /\ UNCHANGED <<sent, answer>>

Resolve(a, v) ==
  /\ verdict[a] = "outcome_unknown"
  /\ verdict' = [verdict EXCEPT ![a] = v]
  /\ UNCHANGED <<sent, answer>>

Next ==
  \E a \in Attempts :
    \/ Confirm(a)
    \/ \E s \in Steps : Send(a, s)
    \/ \E s \in Steps, v \in {"applied", "rejected"} : Answer(a, s, v)
    \/ \E v \in {"succeeded", "failed", "outcome_unknown"} : Conclude(a, v)
    \/ \E v \in {"succeeded", "failed", "reauth_required"} : Resolve(a, v)

Spec == Init /\ [][Next]_vars

=============================================================================
