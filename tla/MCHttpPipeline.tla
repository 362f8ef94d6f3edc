---------------------------- MODULE MCHttpPipeline ----------------------------
(* An instance of HttpPipeline for TLC.                                      *)
EXTENDS HttpPipeline, TLC

CONSTANTS r1, r2, s1, s2

TwoRequests == {r1, r2}
TwoServices == {s1, s2}

\* Requests are interchangeable.
RequestSymmetry == Permutations(TwoRequests)
===============================================================================
