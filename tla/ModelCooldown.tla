---------------------------- MODULE ModelCooldown ----------------------------
(***************************************************************************)
(* The transient state of one (account, model) route and the pure rules    *)
(* that change it: core/accountruntime/policy.go and state.go.             *)
(*                                                                         *)
(* A route keeps a streak (how many failures of one kind in a row, until   *)
(* when they count), a cooldown (why and until when the route is closed)   *)
(* and the time of its last cooling failure.  Times are clock ticks; the   *)
(* zero time of the code is NoTime, and every real instant is after it.    *)
(***************************************************************************)
EXTENDS Naturals

CONSTANTS
    GuessedCooldown,  \* cooldown length when the provider gave no hint
    FailureWindow,    \* how long a streak-building failure counts
    MaxCooldownHint,  \* longest hint a failure may carry
    CountCap          \* largest value of the streak counter (255 in the code)

ASSUME DurationAssumption ==
    /\ GuessedCooldown \in Nat \ {0}
    /\ FailureWindow \in Nat \ {0}
    /\ MaxCooldownHint \in Nat
    /\ GuessedCooldown <= MaxCooldownHint
    /\ CountCap \in Nat \ {0, 1}

NoTime == 0
NoKind == "none"

-----------------------------------------------------------------------------
(* Failure kinds, grouped by the policy PolicyFor gives them.              *)

\* Backoff the upstream itself asked for.
ThrottleKinds == {"rate_limited", "model_overloaded"}

\* One occurrence closes the route.
ImmediateKinds ==
    ThrottleKinds \cup {"upstream_unavailable", "static_credential_rejected"}

\* Two of the same kind in a row, within FailureWindow, close the route.
StreakKinds == {"request_timeout", "connection_reset", "stream_disconnected"}

CooldownKinds == ImmediateKinds \cup StreakKinds

CredentialKinds == {"credential_rejected", "reauthentication_required"}
QuotaKinds == {"quota_exhausted", "billing_blocked"}
PolicyKinds == {"workspace_deactivated", "model_unsupported",
                "region_unsupported", "permission_denied"}

\* Kinds that close an account or a route until its truth source changes.
BlockingKinds == CredentialKinds \cup QuotaKinds \cup PolicyKinds

\* Kinds that end the request and say nothing about the account.
PassiveKinds == {"upstream_edge_rejected", "invalid_request", "not_found",
                 "safety_rejected", "malformed_response",
                 "request_cancelled", "unclassified"}

FailureKinds == CooldownKinds \cup BlockingKinds \cup PassiveKinds

FailureThreshold(kind) == IF kind \in StreakKinds THEN 2 ELSE 1

-----------------------------------------------------------------------------
Later(s, t) == IF s > t THEN s ELSE t

NoStreak == [kind |-> NoKind, count |-> 0, expiresAt |-> NoTime]
NoCooldown == [kind |-> NoKind, until |-> NoTime]

Streaks ==
    [kind : StreakKinds \cup {NoKind}, count : 0 .. CountCap, expiresAt : Nat]
Cooldowns == [kind : CooldownKinds \cup {NoKind}, until : Nat]

ModelStates ==
    [streak : Streaks, cooldown : Cooldowns, lastFailureAt : Nat]

\* A healthy route; the sparse index holds no entry for it.
ZeroState ==
    [streak |-> NoStreak, cooldown |-> NoCooldown, lastFailureAt |-> NoTime]

Failures ==
    [kind : FailureKinds, occurredAt : Nat \ {0}, retryAfter : 0 .. MaxCooldownHint]

ClearStreak(state) == [state EXCEPT !.streak = NoStreak]

\* Mutant of Prune: forgets when the route last failed as soon as no streak is
\* left, although a cooldown is still in force.
PruneByStreak(state, t) ==
    LET streaking == state.streak.expiresAt > t
    IN  [streak |-> IF streaking THEN state.streak ELSE NoStreak,
         cooldown |->
            IF state.cooldown.until > t THEN state.cooldown ELSE NoCooldown,
         lastFailureAt |-> IF streaking THEN state.lastFailureAt ELSE NoTime]

\* Drop what has run out at time t.
Prune(state, t) ==
    LET streak == IF state.streak.expiresAt > t THEN state.streak ELSE NoStreak
        cooldown ==
            IF state.cooldown.until > t THEN state.cooldown ELSE NoCooldown
        live == \/ state.streak.expiresAt > t
                \/ state.cooldown.until > t
    IN  [streak |-> streak,
         cooldown |-> cooldown,
         lastFailureAt |-> IF live THEN state.lastFailureAt ELSE NoTime]

\* Mutant of SaturatingIncrement: the uint8 wraps.
WrappingIncrement(count) == (count + 1) % (CountCap + 1)

\* The counter is a uint8 that saturates.
SaturatingIncrement(count) == IF count = CountCap THEN count ELSE count + 1

\* How many failures of this kind in a row this one makes.
FailureCount(state, failure) ==
    IF /\ state.streak.kind = failure.kind
       /\ state.streak.expiresAt > failure.occurredAt
    THEN SaturatingIncrement(state.streak.count)
    ELSE 1

\* Mutant of Backoff: adds the provider's hint to the default.
BackoffPlusHint(failure) == GuessedCooldown + failure.retryAfter

\* The provider's hint when there is one, the default otherwise; every
\* cooling kind has the same default.
Backoff(failure) ==
    IF failure.retryAfter > 0 THEN failure.retryAfter ELSE GuessedCooldown

\* Whether this failure closes the route, on a pruned state.
Closes(state, failure) ==
    /\ failure.kind \in CooldownKinds
    /\ FailureCount(state, failure) >= FailureThreshold(failure.kind)

\* A failure that counts towards a cooldown, on a pruned state.
Cool(state, failure) ==
    LET count == FailureCount(state, failure)
        closes == Closes(state, failure)
        until == Later(state.cooldown.until, failure.occurredAt + Backoff(failure))
        window == failure.occurredAt + FailureWindow
        streak == [kind |-> failure.kind,
                   count |-> count,
                   expiresAt |-> IF closes THEN Later(window, until) ELSE window]
    IN  [streak |-> IF failure.kind \in StreakKinds THEN streak ELSE NoStreak,
         cooldown |-> IF closes THEN [kind |-> failure.kind, until |-> until]
                      ELSE state.cooldown,
         lastFailureAt |-> Later(state.lastFailureAt, failure.occurredAt)]

\* The state after a failure.
Apply(state, failure) ==
    LET pruned == Prune(state, failure.occurredAt)
    IN  IF failure.kind \in CooldownKinds
        THEN Cool(pruned, failure)
        ELSE ClearStreak(pruned)


\* The state after a success: an older success does not undo a newer failure.
Succeed(state, happenedAt) ==
    IF state.lastFailureAt > happenedAt THEN state ELSE ZeroState

\* Whether the route is closed by its cooldown at time t.
CoolingDown(state, t) == state.cooldown.until > t

\* What RestoreModelState accepts of a persisted row (validPersistedStreak,
\* validPersistedCooldown and the lastFailureAt requirement).
Restorable(row) ==
    /\ \/ row.streak = NoStreak
       \/ /\ row.streak.kind \in CooldownKinds
          /\ row.streak.count >= 1
          /\ row.streak.expiresAt > NoTime
    /\ \/ row.cooldown = NoCooldown
       \/ /\ row.cooldown.kind \in CooldownKinds
          /\ row.cooldown.until > NoTime
    /\ \/ /\ row.streak.expiresAt = NoTime
          /\ row.cooldown.until = NoTime
       \/ row.lastFailureAt > NoTime

\* The state rebuilt from a row at start-up: a corrupt row counts as none.
Restore(row, t) == IF Restorable(row) THEN Prune(row, t) ELSE ZeroState

=============================================================================
