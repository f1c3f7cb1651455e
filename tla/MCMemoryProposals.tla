------------------------- MODULE MCMemoryProposals -------------------------
(* Small instances of MemoryProposals for TLC. *)
EXTENDS MemoryProposals, TLC

CONSTANTS t1

\* All proposals are about one target.
OneTarget == [p \in Proposals |-> t1]

Symmetry == Permutations(Proposals) \cup Permutations(Callers)
=============================================================================
