-------------------------- MODULE MCCacheProposals --------------------------
(* Small instances of CacheProposals for TLC. *)
EXTENDS CacheProposals, TLC

CONSTANTS t1

\* All proposals are about one setting.
OneTarget == [p \in Proposals |-> t1]

Symmetry == Permutations(Tunings) \cup Permutations(Callers) \cup Permutations(Payloads)
=============================================================================
