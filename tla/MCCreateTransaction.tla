-------------------------- MODULE MCCreateTransaction --------------------------
(* Instances of CreateTransaction for TLC.                                    *)
EXTENDS InMemoryTransactionRepository, TLC

CONSTANTS e1, e2, e3, k1, f1, f2

TwoExecutions == {e1, e2}
ThreeExecutions == {e1, e2, e3}
OneKey == {k1}
OneFingerprint == {f1}
TwoFingerprints == {f1, f2}

\* Executions and fingerprints are interchangeable; used by a safety run only.
Symmetry3 == Permutations(ThreeExecutions) \cup Permutations(TwoFingerprints)
===============================================================================
