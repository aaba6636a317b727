----------------------------- MODULE MCXfsCache -----------------------------
(* Instances of XfsCache for TLC. *)
EXTENDS XfsCache, TLC

CONSTANTS t1, t2, k1, k2, k3, b1, b2, n1, n2

\* All keys on one chain, or one of them on a chain of its own.
OneChain  == [k \in Keys |-> b1]
TwoChains == [k \in Keys |-> IF k = k3 THEN b2 ELSE b1]

Symmetry ==
  Permutations({t1, t2}) \cup Permutations({n1, n2}) \cup Permutations({k1, k2})
=============================================================================
