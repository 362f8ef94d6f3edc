-------------------------- MODULE MCRedisRateLimiter --------------------------
(* An instance of RedisRateLimiter for TLC.                                  *)
EXTENDS InMemoryRateLimiter

CONSTANTS c1, c2, c3

ThreeCallers == {c1, c2, c3}
===============================================================================
