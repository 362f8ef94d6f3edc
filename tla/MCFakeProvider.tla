---------------------------- MODULE MCFakeProvider ----------------------------
(* Instances of FakeProvider for TLC.                                        *)
EXTENDS FakeProvider

CONSTANTS r1, r2, r3, k1

ThreeRequests == {r1, r2, r3}
OneKey == {k1}

\* A refusal, a result that is kept and answered late, and a plain success.
RefusalTimeoutSuccess == <<"status", "timeout", "success">>
===============================================================================
