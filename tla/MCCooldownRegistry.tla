-------------------------- MODULE MCCooldownRegistry --------------------------
(* A small instance of CooldownRegistry: two racing callers on one route.   *)
EXTENDS CooldownRegistry, TLC

\* A throttle with a long hint, an unhinted 5xx, a streak-building
\* disconnect and a failure that is not the account's fault.
MCReport ==
    {[kind |-> "rate_limited", retryAfter |-> 2],
     [kind |-> "upstream_unavailable", retryAfter |-> 0],
     [kind |-> "stream_disconnected", retryAfter |-> 0],
     [kind |-> "invalid_request", retryAfter |-> 0]}

MCSymmetry == Permutations(Caller)

=============================================================================
