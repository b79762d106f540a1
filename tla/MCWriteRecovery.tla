-------------------------- MODULE MCWriteRecovery --------------------------
(***************************************************************************)
(* Instances of WriteRecovery for TLC.                                     *)
(***************************************************************************)
EXTENDS WriteRecovery, TLC

CONSTANTS c1, c2, a1, a2, w1, w2, w3, o1, o2

\* One command with one destination.
OneDestination == [c \in {c1} |-> {a1}]

\* Two commands of one intent version with a destination in common.
Overlapping == (c1 :> {a1, a2}) @@ (c2 :> {a2})

Symmetry == Permutations(Workers) \cup Permutations(Operators)

=============================================================================
