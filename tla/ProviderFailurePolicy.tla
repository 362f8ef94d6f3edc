------------------------ MODULE ProviderFailurePolicy ------------------------
(***************************************************************************)
(* How a failure of the payment provider is classified                     *)
(* (provider-failure-policy.ts, provider-errors.ts).  An error is its      *)
(* class; ProviderServerError is two kinds, because only some of its       *)
(* statuses are retried.                                                   *)
(***************************************************************************)

\* ProviderServerError with a status in retryableServerStatuses, and without.
ServerErrors == {"server_transient", "server_other"}

\* The subclasses of ProviderError, and "unknown" for any other exception.
ErrorKinds ==
  {"circuit_open", "rejected", "rate_limited", "timeout", "network",
   "unavailable", "invalid_response", "unknown"} \cup ServerErrors

\* classifyProviderFailure(error): whether the attempt may be repeated, whether
\* the final failure feeds the breaker, and what is known of the side effect.
ClassifyProviderFailure(error) ==
  [retryable |->
     error \in {"rate_limited", "server_transient", "timeout", "network",
                "unavailable"},
   countsTowardCircuitBreaker |->
     error \in {"timeout", "network", "unavailable", "invalid_response"}
                 \cup ServerErrors,
   outcome |->
     CASE error = "circuit_open" -> "not_started"
       [] error = "rejected"     -> "definitive_rejection"
       [] OTHER                  -> "ambiguous"]
==============================================================================
