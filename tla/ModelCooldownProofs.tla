------------------------- MODULE ModelCooldownProofs -------------------------
(***************************************************************************)
(* Lemmas about the rules of ModelCooldown: what pruning, a failure and a  *)
(* success do to any state, for every choice of the durations.             *)
(***************************************************************************)
EXTENDS ModelCooldown, TLAPS

\* Kind sets are sets of strings apart from NoKind; only membership matters.
LEMMA KindFacts ==
    /\ StreakKinds \subseteq CooldownKinds
    /\ CooldownKinds \subseteq FailureKinds
    /\ NoKind \notin CooldownKinds
  BY DEF StreakKinds, CooldownKinds, ImmediateKinds, ThrottleKinds,
         FailureKinds, NoKind

\* The healthy state is a state, and pruning leaves it alone.
LEMMA ZeroFacts ==
    /\ ZeroState \in ModelStates
    /\ Restorable(ZeroState)
    /\ \A t \in Nat : Prune(ZeroState, t) = ZeroState
  <1>1. CountCap \in Nat
    BY DurationAssumption
  <1> QED
    BY <1>1 DEF ZeroState, ModelStates, Streaks, Cooldowns, NoStreak,
                NoCooldown, NoTime, NoKind, Restorable, Prune

\* Pruning keeps the type and what start-up accepts.
LEMMA PruneType ==
    ASSUME NEW s \in ModelStates, NEW t \in Nat
    PROVE  /\ Prune(s, t) \in ModelStates
           /\ Restorable(s) => Restorable(Prune(s, t))
           /\ Prune(s, t).cooldown.until <= s.cooldown.until
           /\ Prune(s, t).lastFailureAt <= s.lastFailureAt
  <1>1. CountCap \in Nat
    BY DurationAssumption
  <1>2. NoStreak \in Streaks /\ NoCooldown \in Cooldowns
    BY <1>1 DEF Streaks, Cooldowns, NoStreak, NoCooldown, NoTime
  <1>3. Prune(s, t) \in ModelStates
    BY <1>2 DEF Prune, ModelStates, NoTime
  <1>4. Restorable(s) => Restorable(Prune(s, t))
    BY DEF Prune, ModelStates, Streaks, Cooldowns, Restorable, NoStreak,
           NoCooldown, NoTime
  <1>5. /\ Prune(s, t).cooldown.until <= s.cooldown.until
        /\ Prune(s, t).lastFailureAt <= s.lastFailureAt
    BY DEF Prune, ModelStates, Streaks, Cooldowns, NoStreak, NoCooldown, NoTime
  <1> QED
    BY <1>3, <1>4, <1>5

\* Pruning earlier does not change what pruning later finds.
LEMMA PruneAbsorbs ==
    ASSUME NEW s \in ModelStates, NEW t \in Nat, NEW u \in Nat, t <= u
    PROVE  Prune(Prune(s, t), u) = Prune(s, u)
  BY DEF Prune, ModelStates, Streaks, Cooldowns, NoStreak, NoCooldown, NoTime

\* What a failure does to a state: it stays a state that start-up accepts,
\* the cooldown never gets shorter than it was nor longer than a hint allows.
LEMMA ApplyType ==
    ASSUME NEW s \in ModelStates, NEW f \in Failures
    PROVE  /\ Apply(s, f) \in ModelStates
           /\ Restorable(s) => Restorable(Apply(s, f))
           /\ \/ Apply(s, f).cooldown.until <= s.cooldown.until
              \/ Apply(s, f).cooldown.until <= f.occurredAt + MaxCooldownHint
           /\ CoolingDown(s, f.occurredAt) =>
                Apply(s, f).cooldown.until >= s.cooldown.until
  <1> DEFINE p == Prune(s, f.occurredAt)
             n == FailureCount(p, f)
  <1>1. /\ CountCap \in Nat \ {0, 1}
        /\ GuessedCooldown \in Nat \ {0}
        /\ FailureWindow \in Nat \ {0}
        /\ MaxCooldownHint \in Nat
        /\ GuessedCooldown <= MaxCooldownHint
    BY DurationAssumption
  <1>2. /\ f.kind \in FailureKinds
        /\ f.occurredAt \in Nat \ {0}
        /\ f.retryAfter \in 0 .. MaxCooldownHint
    BY DEF Failures
  <1>3. /\ p \in ModelStates
        /\ Restorable(s) => Restorable(p)
        /\ p.cooldown.until <= s.cooldown.until
        /\ CoolingDown(s, f.occurredAt) => p.cooldown = s.cooldown
    <2>1. CoolingDown(s, f.occurredAt) => p.cooldown = s.cooldown
      BY DEF Prune, CoolingDown, ModelStates
    <2> QED
      BY <1>2, <2>1, PruneType
  <1>4. /\ p.streak \in Streaks
        /\ p.cooldown \in Cooldowns
        /\ p.lastFailureAt \in Nat
        /\ p.cooldown.until \in Nat
        /\ s.cooldown.until \in Nat
    BY <1>3 DEF ModelStates, Cooldowns
  <1>5. n \in 1 .. CountCap
    BY <1>1, <1>4 DEF FailureCount, SaturatingIncrement, Streaks
  <1>6. Backoff(f) \in Nat \ {0} /\ Backoff(f) <= MaxCooldownHint
    BY <1>1, <1>2 DEF Backoff
  <1>7. CASE f.kind \in CooldownKinds
    <2> DEFINE until == Later(p.cooldown.until, f.occurredAt + Backoff(f))
               window == f.occurredAt + FailureWindow
    <2>1. /\ until \in Nat
          /\ until > NoTime
          /\ until >= p.cooldown.until
          /\ \/ until = p.cooldown.until
             \/ until <= f.occurredAt + MaxCooldownHint
      BY <1>1, <1>2, <1>4, <1>6 DEF Later, NoTime
    <2>2. /\ window \in Nat
          /\ window > NoTime
          /\ Later(window, until) \in Nat
          /\ Later(window, until) > NoTime
      BY <1>1, <1>2, <2>1 DEF Later, NoTime
    <2>3. /\ Later(p.lastFailureAt, f.occurredAt) \in Nat
          /\ Later(p.lastFailureAt, f.occurredAt) > NoTime
      BY <1>2, <1>4 DEF Later, NoTime
    <2>4. Apply(s, f) = Cool(p, f)
      BY <1>7 DEF Apply
    <2>5. Cool(p, f) =
            [streak |-> IF f.kind \in StreakKinds
                        THEN [kind |-> f.kind, count |-> n,
                              expiresAt |-> IF Closes(p, f)
                                            THEN Later(window, until)
                                            ELSE window]
                        ELSE NoStreak,
             cooldown |-> IF Closes(p, f)
                          THEN [kind |-> f.kind, until |-> until]
                          ELSE p.cooldown,
             lastFailureAt |-> Later(p.lastFailureAt, f.occurredAt)]
      BY Zenon DEF Cool
    <2>6. Cool(p, f).streak \in Streaks
      BY <1>1, <1>5, <2>2, <2>5
         DEF Streaks, NoStreak, NoTime
    <2>7. Cool(p, f).cooldown \in Cooldowns
      BY <1>4, <1>7, <2>1, <2>5 DEF Cooldowns
    <2>8. Cool(p, f) \in ModelStates
      BY <2>3, <2>5, <2>6, <2>7 DEF ModelStates
    <2>9. Restorable(s) => Restorable(Cool(p, f))
      <3> SUFFICES ASSUME Restorable(s) PROVE Restorable(Cool(p, f))
        OBVIOUS
      <3>1. \/ Cool(p, f).cooldown = NoCooldown
            \/ /\ Cool(p, f).cooldown.kind \in CooldownKinds
               /\ Cool(p, f).cooldown.until > NoTime
        BY <1>3, <1>7, <2>1, <2>5 DEF Restorable
      <3>2. \/ Cool(p, f).streak = NoStreak
            \/ /\ Cool(p, f).streak.kind \in CooldownKinds
               /\ Cool(p, f).streak.count >= 1
               /\ Cool(p, f).streak.expiresAt > NoTime
        BY <1>5, <1>7, <2>2, <2>5
      <3>3. Cool(p, f).lastFailureAt > NoTime
        BY <2>3, <2>5
      <3> QED
        BY <3>1, <3>2, <3>3 DEF Restorable
    <2>10. /\ \/ Cool(p, f).cooldown.until <= s.cooldown.until
              \/ Cool(p, f).cooldown.until <= f.occurredAt + MaxCooldownHint
           /\ Cool(p, f).cooldown.until >= p.cooldown.until
      BY <1>3, <1>4, <2>1, <2>5
    <2> QED
      BY <1>3, <2>4, <2>8, <2>9, <2>10
  <1>8. CASE f.kind \notin CooldownKinds
    <2>1. Apply(s, f) = [p EXCEPT !.streak = NoStreak]
      BY <1>8 DEF Apply, ClearStreak
    <2>2. NoStreak \in Streaks
      BY <1>1 DEF Streaks, NoStreak, NoTime
    <2>3. Apply(s, f) = [streak |-> NoStreak, cooldown |-> p.cooldown,
                         lastFailureAt |-> p.lastFailureAt]
      BY <1>3, <2>1 DEF ModelStates
    <2>4. Restorable(s) => Restorable(Apply(s, f))
      BY <1>3, <1>4, <2>3 DEF Restorable, NoStreak, NoTime
    <2> QED
      BY <1>3, <1>4, <2>2, <2>3, <2>4 DEF ModelStates
  <1> QED
    BY <1>7, <1>8

\* A cooldown left behind by a failure protects the earlier closing failures
\* (the newest of which came at h) and, if it closes the route, this one.
LEMMA ApplyHits ==
    ASSUME NEW s \in ModelStates, NEW f \in Failures, NEW h \in Nat,
           s.cooldown.until = NoTime => h = NoTime,
           s.cooldown.until # NoTime => /\ h <= s.lastFailureAt
                                        /\ h < s.cooldown.until
    PROVE  LET next == Apply(s, f)
               hit == IF Closes(Prune(s, f.occurredAt), f)
                      THEN f.occurredAt ELSE NoTime
           IN  next.cooldown.until # NoTime =>
                 /\ Later(h, hit) <= next.lastFailureAt
                 /\ Later(h, hit) < next.cooldown.until
  <1> DEFINE p == Prune(s, f.occurredAt)
             next == Apply(s, f)
             hit == IF Closes(p, f) THEN f.occurredAt ELSE NoTime
  <1>1. /\ f.occurredAt \in Nat \ {0}
        /\ Backoff(f) \in Nat \ {0}
    BY DurationAssumption DEF Failures, Backoff
  <1>2. /\ s.cooldown.until \in Nat
        /\ s.lastFailureAt \in Nat
        /\ p.cooldown.until \in Nat
        /\ p.lastFailureAt \in Nat
        /\ p.lastFailureAt <= s.lastFailureAt
        /\ next \in ModelStates
    <2>1. p \in ModelStates /\ p.lastFailureAt <= s.lastFailureAt
      BY <1>1, PruneType
    <2> QED
      BY <2>1, ApplyType DEF ModelStates, Cooldowns
  <1>3. \/ /\ p.cooldown.until = s.cooldown.until
           /\ p.lastFailureAt = s.lastFailureAt
           /\ p.cooldown.until > f.occurredAt
        \/ /\ p.cooldown.until = NoTime
           /\ s.cooldown.until <= f.occurredAt
    BY <1>1, <1>2 DEF Prune, ModelStates, NoCooldown, NoTime
  <1>4. CASE f.kind \in CooldownKinds
    <2>1. /\ next.lastFailureAt = Later(p.lastFailureAt, f.occurredAt)
          /\ next.cooldown.until =
               IF Closes(p, f)
               THEN Later(p.cooldown.until, f.occurredAt + Backoff(f))
               ELSE p.cooldown.until
      BY <1>4 DEF Apply, Cool
    <2>2. CASE Closes(p, f)
      BY <1>1, <1>2, <1>3, <2>1, <2>2 DEF Later, NoTime
    <2>3. CASE ~ Closes(p, f)
      BY <1>1, <1>2, <1>3, <2>1, <2>3 DEF Later, NoTime
    <2> QED
      BY <2>2, <2>3
  <1>5. CASE f.kind \notin CooldownKinds
    <2>1. /\ next.lastFailureAt = p.lastFailureAt
          /\ next.cooldown = p.cooldown
      <3>1. p \in ModelStates
        BY <1>1, PruneType
      <3> QED
        BY <1>5, <3>1 DEF Apply, ClearStreak, ModelStates
    <2>2. ~ Closes(p, f)
      BY <1>5 DEF Closes
    <2> QED
      BY <1>1, <1>2, <1>3, <2>1, <2>2 DEF Later, NoTime
  <1> QED
    BY <1>4, <1>5

\* A success either changes nothing or heals the route.
LEMMA SucceedType ==
    ASSUME NEW s \in ModelStates, NEW t \in Nat
    PROVE  /\ Succeed(s, t) = s \/ Succeed(s, t) = ZeroState
           /\ Succeed(s, t) \in ModelStates
           /\ Succeed(s, t) = s \/ s.lastFailureAt <= t
  BY ZeroFacts DEF Succeed, ModelStates

=============================================================================
