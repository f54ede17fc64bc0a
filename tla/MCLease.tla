------------------------------ MODULE MCLease ------------------------------
(***************************************************************************)
(* Bounded instances of Lease for TLC.                                      *)
(***************************************************************************)
EXTENDS Lease, TLC

CONSTANTS n1, n2, n3

Symmetry == Permutations(Nodes)

NoSkew == [n \in Nodes |-> 0]
\* n1 runs far ahead of the others: the lease it writes looks bogus to them.
OneAhead == [n \in Nodes |-> IF n = n1 THEN 5 * TTL ELSE 0]
=============================================================================
