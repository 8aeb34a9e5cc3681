--------------------------- MODULE MCCacheHandler ---------------------------
(***************************************************************************)
(* Model-checking instance of CacheHandler: callers are model values, and  *)
(* they are interchangeable, so runs may use their permutations as a       *)
(* symmetry set.                                                           *)
(***************************************************************************)
EXTENDS CacheHandler, TLC

CONSTANTS c1, c2, c3

MCCallers2 == {c1, c2}
MCCallers3 == {c1, c2, c3}

\* Every policy but the two that write without the key's lock.
LockingPolicies == MissPolicies \ {"BestEffort"}

CallerSymmetry == Permutations(Callers)

=============================================================================
