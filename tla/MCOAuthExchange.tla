-------------------------- MODULE MCOAuthExchange --------------------------
(***************************************************************************)
(* Small instances of OAuthExchange.                                       *)
(***************************************************************************)
EXTENDS OAuthExchange, TLC

\* Workers and codes are interchangeable. A run that checks liveness does not use this.
Symmetry == Permutations(Workers) \cup Permutations(Codes) \cup Permutations(Attempts)
=============================================================================
