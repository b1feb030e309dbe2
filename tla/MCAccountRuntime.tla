--------------------------- MODULE MCAccountRuntime ---------------------------
(* Small instances of AccountRuntime: one account, one model, two parties.  *)
EXTENDS AccountRuntime, TLC

\* One failure per scope and kind of disposition.
MCOutcome ==
    {[kind |-> "credential_rejected", scope |-> "account", retryAfter |-> 0],
     [kind |-> "quota_exhausted", scope |-> "account", retryAfter |-> 0],
     [kind |-> "model_unsupported", scope |-> "model", retryAfter |-> 0]}

\* A document that blocks and one that does not.
MCDocument ==
    {[kind |-> "reauthentication_required", until |-> 3],
     [kind |-> "rate_limited", until |-> 3]}

\* A healthy account, an exhausted one and an exhausted model family.
MCSnapshot ==
    {[account |-> FALSE, models |-> {}, remaining |-> "known"],
     [account |-> TRUE, models |-> {}, remaining |-> "known"],
     [account |-> FALSE, models |-> Model, remaining |-> "unknown"]}

MCNone == {}

MCSymmetry == Permutations(Caller)

=============================================================================
