------------------------ MODULE CooldownRegistryProofs ------------------------
(***************************************************************************)
(* Theorems of CooldownRegistry, for every set of accounts, models and     *)
(* callers, every set of reports and every choice of the durations.        *)
(***************************************************************************)
EXTENDS CooldownRegistry, ModelCooldownProofs

-----------------------------------------------------------------------------
(* Sound states.                                                          *)

\* The zero state is sound; a sound state stays sound when time passes and
\* when it is pruned.
LEMMA SoundFacts ==
    ASSUME NEW t \in Nat
    PROVE  /\ Sound(ZeroState, t)
           /\ \A s \in ModelStates, u \in Nat :
                Sound(s, t) => /\ Sound(Prune(s, u), t)
                               /\ t <= u => Sound(s, u)
  <1>1. Sound(ZeroState, t)
    BY ZeroFacts, DurationAssumption
       DEF Sound, ZeroState, NoCooldown, NoTime
  <1>2. ASSUME NEW s \in ModelStates, NEW u \in Nat, Sound(s, t)
        PROVE  Sound(Prune(s, u), t)
    <2>1. /\ Prune(s, u) \in ModelStates
          /\ Restorable(Prune(s, u))
          /\ Prune(s, u).cooldown.until <= s.cooldown.until
          /\ Prune(s, u).lastFailureAt <= s.lastFailureAt
      BY <1>2, PruneType DEF Sound
    <2> QED
      BY <1>2, <2>1, DurationAssumption DEF Sound, ModelStates, Cooldowns
  <1>3. ASSUME NEW s \in ModelStates, NEW u \in Nat, Sound(s, t), t <= u
        PROVE  Sound(s, u)
    BY <1>3, DurationAssumption DEF Sound, ModelStates, Cooldowns
  <1> QED
    BY <1>1, <1>2, <1>3

\* A failure stamped no later than t leaves a sound state sound.
LEMMA ApplySound ==
    ASSUME NEW s \in ModelStates, NEW f \in Failures, NEW t \in Nat,
           Sound(s, t), f.occurredAt <= t
    PROVE  Sound(Apply(s, f), t)
  <1>1. /\ Apply(s, f) \in ModelStates
        /\ Restorable(Apply(s, f))
        /\ \/ Apply(s, f).cooldown.until <= s.cooldown.until
           \/ Apply(s, f).cooldown.until <= f.occurredAt + MaxCooldownHint
    BY ApplyType DEF Sound
  <1>2. /\ f.occurredAt \in Nat
        /\ s.lastFailureAt \in Nat
        /\ s.cooldown.until \in Nat
        /\ Apply(s, f).cooldown.until \in Nat
        /\ Apply(s, f).lastFailureAt \in Nat
    BY <1>1 DEF Failures, ModelStates, Cooldowns
  <1>3. Apply(s, f).lastFailureAt <= t
    <2>1. Apply(s, f).lastFailureAt \in
             {Later(Prune(s, f.occurredAt).lastFailureAt, f.occurredAt),
              Prune(s, f.occurredAt).lastFailureAt}
      <3>1. Prune(s, f.occurredAt) \in ModelStates
        BY <1>2, PruneType
      <3> QED
        BY <3>1 DEF Apply, Cool, ClearStreak, ModelStates
    <2>2. /\ Prune(s, f.occurredAt).lastFailureAt \in Nat
          /\ Prune(s, f.occurredAt).lastFailureAt <= s.lastFailureAt
      BY <1>2, PruneType DEF ModelStates
    <2> QED
      BY <1>2, <2>1, <2>2 DEF Sound, Later
  <1> QED
    BY <1>1, <1>2, <1>3, DurationAssumption DEF Sound

\* What a restart makes of a sound row.
LEMMA RestoreFacts ==
    ASSUME NEW row \in ModelStates, NEW t \in Nat, Sound(row, t)
    PROVE  /\ Restore(row, t) = Prune(row, t)
           /\ Restore(row, t) \in ModelStates
           /\ Sound(Restore(row, t), t)
  <1>1. Restore(row, t) = Prune(row, t)
    BY DEF Restore, Sound
  <1> QED
    BY <1>1, PruneType, SoundFacts

-----------------------------------------------------------------------------
(* The invariant.                                                          *)

\* What a call in flight carries.
LEMMA CallFacts ==
    ASSUME IndInv, NEW c \in Caller
    PROVE  /\ calls[c].op = "failure" =>
                /\ calls[c].route \in Route
                /\ calls[c].failure \in Failures
                /\ calls[c].failure.occurredAt \in Nat
                /\ calls[c].failure.occurredAt <= now
           /\ calls[c].op \in {"success", "check"} =>
                /\ calls[c].route \in Route
                /\ calls[c].at \in Nat
                /\ calls[c].at <= now
           /\ calls[c].op = "forget" => calls[c].account \in Account
  <1>1. calls[c] \in Calls
    BY DEF IndInv, TypeOK
  <1>2. CallsNotAhead
    BY DEF IndInv
  <1>3. CASE calls[c] = Idle
    BY <1>3 DEF Idle
  <1>4. CASE calls[c] \in FailureCalls
    BY <1>2, <1>4 DEF FailureCalls, CallsNotAhead, Failures
  <1>5. CASE calls[c] \in SuccessCalls
    BY <1>2, <1>5 DEF SuccessCalls, CallsNotAhead
  <1>6. CASE calls[c] \in CheckCalls
    BY <1>2, <1>6 DEF CheckCalls, CallsNotAhead
  <1>7. CASE calls[c] \in ForgetCalls
    BY <1>7 DEF ForgetCalls
  <1> QED
    BY <1>1, <1>3, <1>4, <1>5, <1>6, <1>7 DEF Calls

\* Beginning or ending a call keeps the calls typed and not ahead.
LEMMA CallsStep ==
    ASSUME IndInv, NEW c \in Caller, NEW call \in Calls,
           calls' = [calls EXCEPT ![c] = call], now' = now,
           call.op = "failure" => call.failure.occurredAt <= now,
           call.op \in {"success", "check"} => call.at <= now
    PROVE  calls' \in [Caller -> Calls] /\ CallsNotAhead'
  BY DEF IndInv, TypeOK, CallsNotAhead

\* The call of a caller that does nothing.
LEMMA IdleFacts == Idle \in Calls /\ Idle.op = "idle"
  BY DEF Idle, Calls

\* Writing a route's new entry and, perhaps, its row.
LEMMA CommitStep ==
    ASSUME IndInv, NEW r \in Route, NEW next \in ModelStates, NEW h \in Nat,
           Sound(next, now),
           now' = now, accounts' = accounts,
           states' = [states EXCEPT ![r] = next],
           Persist(r, next), NoteHit(r, next, h),
           next.cooldown.until # NoTime =>
             /\ Later(lastHit[r], h) <= next.lastFailureAt
             /\ Later(lastHit[r], h) < next.cooldown.until,
           calls' \in [Caller -> Calls], CallsNotAhead'
    PROVE  IndInv'
  <1>1. TypeOK /\ RowsMatchMemory /\ HitsRemembered
    BY DEF IndInv
  <1>2. /\ states' \in [Route -> ModelStates]
        /\ states'[r] = next
        /\ \A q \in Route \ {r} : states'[q] = states[q]
    BY <1>1 DEF TypeOK
  <1>3. /\ rows' \in [Route -> ModelStates]
        /\ \A q \in Route \ {r} : rows'[q] = rows[q]
        /\ rows'[r] \in {rows[r], next, ZeroState}
        /\ r \notin unsaved' /\ r.account \in accounts => rows'[r] = next
        /\ unsaved' \subseteq Route
        /\ unsaved \ {r} = unsaved' \ {r}
        /\ persistErr' \in BOOLEAN
    BY <1>1, ZeroFacts DEF TypeOK, Persist
  <1>4. /\ lastHit' \in [Route -> Nat]
        /\ \A q \in Route \ {r} : lastHit'[q] = lastHit[q]
        /\ lastHit'[r] = IF next.cooldown.until = NoTime THEN NoTime
                         ELSE Later(lastHit[r], h)
    BY <1>1 DEF TypeOK, NoteHit, Later, NoTime
  <1>5. TypeOK'
    BY <1>1, <1>2, <1>3, <1>4 DEF TypeOK
  <1>6. \A q \in Route : Sound(states'[q], now') /\ Sound(rows'[q], now')
    <2>1. \A q \in Route : Sound(states[q], now) /\ Sound(rows[q], now)
      BY DEF IndInv
    <2>2. Sound(ZeroState, now)
      BY <1>1, SoundFacts DEF TypeOK
    <2> QED
      BY <1>2, <1>3, <2>1, <2>2
  <1>7. RowsMatchMemory'
    BY <1>1, <1>2, <1>3 DEF RowsMatchMemory
  <1>8. HitsRemembered'
    BY <1>1, <1>2, <1>4 DEF HitsRemembered
  <1> QED
    BY <1>5, <1>6, <1>7, <1>8 DEF IndInv

\* A step that leaves the index, the rows and their history alone.
LEMMA BeginStep ==
    ASSUME IndInv, NEW c \in Caller, NEW call \in Calls, Begin(c, call),
           call.op = "failure" => call.failure.occurredAt <= now,
           call.op \in {"success", "check"} => call.at <= now,
           UNCHANGED <<now, accounts, states, rows, persistErr, unsaved, lastHit>>
    PROVE  IndInv'
  <1>1. calls' \in [Caller -> Calls] /\ CallsNotAhead'
    BY CallsStep DEF Begin
  <1>2. TypeOK'
    BY <1>1 DEF IndInv, TypeOK
  <1>3. RowsMatchMemory' /\ HitsRemembered'
    BY DEF IndInv, RowsMatchMemory, HitsRemembered
  <1> QED
    BY <1>1, <1>2, <1>3 DEF IndInv

\* An empty registry over no rows satisfies the invariant.
LEMMA InitInv == Init => IndInv
  <1> SUFFICES ASSUME Init PROVE IndInv
    OBVIOUS
  <1>1. TypeOK
    <2>1. /\ calls \in [Caller -> Calls]
          /\ states \in [Route -> ModelStates]
          /\ rows \in [Route -> ModelStates]
      BY ZeroFacts, IdleFacts, Zenon DEF Init
    <2>2. /\ now \in Nat \ {0}
          /\ lastHit \in [Route -> Nat]
      BY DEF Init, NoTime
    <2> QED
      BY <2>1, <2>2 DEF Init, TypeOK
  <1>2. CallsNotAhead
    BY IdleFacts DEF Init, CallsNotAhead
  <1>3. \A r \in Route : Sound(states[r], now) /\ Sound(rows[r], now)
    BY SoundFacts DEF Init
  <1>4. RowsMatchMemory /\ HitsRemembered
    BY DEF Init, RowsMatchMemory, HitsRemembered, ZeroState, NoCooldown
  <1> QED
    BY <1>1, <1>2, <1>3, <1>4 DEF IndInv

\* A failure changes the state of its route and writes its row, or fails to.
LEMMA CommitFailureInv ==
    ASSUME IndInv, NEW c \in Caller, CommitFailure(c)
    PROVE  IndInv'
  <1> DEFINE r == calls[c].route
             f == calls[c].failure
             next == Apply(states[r], f)
             h == IF Closes(Prune(states[r], f.occurredAt), f)
                  THEN f.occurredAt ELSE NoTime
  <1>1. /\ r \in Route
        /\ f \in Failures
        /\ f.occurredAt \in Nat
        /\ f.occurredAt <= now
    BY CallFacts DEF CommitFailure
  <1>2. states[r] \in ModelStates /\ Sound(states[r], now) /\ now \in Nat
    BY <1>1 DEF IndInv, TypeOK
  <1>3. next \in ModelStates /\ Sound(next, now) /\ h \in Nat
    BY <1>1, <1>2, ApplyType, ApplySound DEF NoTime
  <1>4. next.cooldown.until # NoTime =>
          /\ Later(lastHit[r], h) <= next.lastFailureAt
          /\ Later(lastHit[r], h) < next.cooldown.until
    <2>1. /\ lastHit[r] \in Nat
          /\ states[r].cooldown.until = NoTime => lastHit[r] = NoTime
          /\ states[r].cooldown.until # NoTime =>
               /\ lastHit[r] <= states[r].lastFailureAt
               /\ lastHit[r] < states[r].cooldown.until
      BY <1>1 DEF IndInv, TypeOK, HitsRemembered
    <2> QED
      BY <1>1, <1>2, <2>1, ApplyHits
  <1>5. calls' \in [Caller -> Calls] /\ CallsNotAhead'
    BY CallsStep, IdleFacts DEF CommitFailure, Return
  <1>6. /\ now' = now
        /\ accounts' = accounts
        /\ states' = [states EXCEPT ![r] = next]
        /\ Persist(r, next)
        /\ NoteHit(r, next, h)
    BY DEF CommitFailure
  <1> HIDE DEF r, next, h
  <1> QED
    BY <1>1, <1>3, <1>4, <1>5, <1>6, CommitStep

\* A success clears its route and deletes its row, or fails to.
LEMMA CommitSuccessInv ==
    ASSUME IndInv, NEW c \in Caller, CommitSuccess(c)
    PROVE  IndInv'
  <1> DEFINE r == calls[c].route
             next == Succeed(states[r], calls[c].at)
  <1>1. r \in Route /\ calls[c].at \in Nat
    BY CallFacts DEF CommitSuccess
  <1>2. /\ states[r] \in ModelStates
        /\ Sound(states[r], now)
        /\ now \in Nat
        /\ lastHit[r] \in Nat
    BY <1>1 DEF IndInv, TypeOK
  <1>3. next \in {states[r], ZeroState} /\ next \in ModelStates
    BY <1>1, <1>2, SucceedType
  <1>4. Sound(next, now)
    BY <1>2, <1>3, SoundFacts
  <1>5. next.cooldown.until # NoTime =>
          /\ Later(lastHit[r], NoTime) <= next.lastFailureAt
          /\ Later(lastHit[r], NoTime) < next.cooldown.until
    BY <1>1, <1>2, <1>3 DEF IndInv, HitsRemembered, Later, NoTime, ZeroState,
                           NoCooldown
  <1>6. calls' \in [Caller -> Calls] /\ CallsNotAhead'
    BY CallsStep, IdleFacts DEF CommitSuccess, Return
  <1>7. /\ now' = now
        /\ accounts' = accounts
        /\ states' = [states EXCEPT ![r] = next]
        /\ Persist(r, next)
        /\ NoteHit(r, next, NoTime)
        /\ NoTime \in Nat
    BY DEF CommitSuccess, NoTime
  <1> HIDE DEF r, next
  <1> QED
    BY <1>1, <1>3, <1>4, <1>5, <1>6, <1>7, CommitStep

\* A check prunes what has ended.
LEMMA CommitCheckInv ==
    ASSUME IndInv, NEW c \in Caller, CommitCheck(c)
    PROVE  IndInv'
  <1> DEFINE r == calls[c].route
             t == calls[c].at
             next == Prune(states[r], t)
  <1>1. r \in Route /\ t \in Nat /\ t <= now
    BY CallFacts DEF CommitCheck
  <1>2. /\ TypeOK
        /\ RowsMatchMemory
        /\ HitsRemembered
        /\ states[r] \in ModelStates
        /\ now \in Nat
        /\ lastHit[r] \in Nat
    BY <1>1 DEF IndInv, TypeOK
  <1>3. /\ next \in ModelStates
        /\ Sound(next, now)
        /\ Prune(next, now) = Prune(states[r], now)
    BY <1>1, <1>2, PruneType, SoundFacts, PruneAbsorbs DEF IndInv
  <1>4. /\ now' = now
        /\ accounts' = accounts
        /\ rows' = rows
        /\ persistErr' = persistErr
        /\ unsaved' = unsaved
        /\ states' = [states EXCEPT ![r] = next]
        /\ NoteHit(r, next, NoTime)
    BY DEF CommitCheck
  <1>5. calls' \in [Caller -> Calls] /\ CallsNotAhead'
    BY CallsStep, IdleFacts, <1>4 DEF CommitCheck, Return
  <1>6. TypeOK'
    BY <1>1, <1>2, <1>3, <1>4, <1>5 DEF TypeOK, NoteHit, Later, NoTime
  <1>7. \A q \in Route : Sound(states'[q], now') /\ Sound(rows'[q], now')
    BY <1>1, <1>2, <1>3, <1>4 DEF IndInv, TypeOK
  <1>8. RowsMatchMemory'
    BY <1>1, <1>2, <1>3, <1>4 DEF RowsMatchMemory, TypeOK
  <1>9. HitsRemembered'
    <2>1. next.cooldown.until # NoTime =>
            /\ next.cooldown = states[r].cooldown
            /\ next.lastFailureAt = states[r].lastFailureAt
      BY <1>1, <1>2 DEF Prune, ModelStates, NoCooldown
    <2>2. /\ states'[r] = next
          /\ lastHit'[r] = IF next.cooldown.until = NoTime THEN NoTime
                           ELSE Later(lastHit[r], NoTime)
          /\ \A q \in Route \ {r} : /\ states'[q] = states[q]
                                   /\ lastHit'[q] = lastHit[q]
      BY <1>1, <1>2, <1>4 DEF TypeOK, NoteHit
    <2>3. Later(lastHit[r], NoTime) = lastHit[r]
      BY <1>2 DEF Later, NoTime
    <2> HIDE DEF next
    <2> QED
      BY <1>1, <1>2, <2>1, <2>2, <2>3 DEF HitsRemembered
  <1> QED
    BY <1>5, <1>6, <1>7, <1>8, <1>9 DEF IndInv

\* A deletion commits: the rows go, memory follows later.
LEMMA DeleteAccountInv ==
    ASSUME IndInv, NEW c \in Caller, NEW a \in Account, DeleteAccount(c, a)
    PROVE  IndInv'
  <1>1. TypeOK /\ RowsMatchMemory
    BY DEF IndInv
  <1>2. [op |-> "forget", account |-> a] \in Calls
    BY DEF Calls, ForgetCalls
  <1>3. calls' \in [Caller -> Calls] /\ CallsNotAhead'
    BY <1>2, CallsStep DEF DeleteAccount, Begin
  <1>4. rows' \in [Route -> ModelStates]
    BY <1>1, ZeroFacts DEF DeleteAccount, TypeOK
  <1>5. TypeOK'
    BY <1>1, <1>3, <1>4 DEF DeleteAccount, TypeOK
  <1>6. \A q \in Route : Sound(states'[q], now') /\ Sound(rows'[q], now')
    BY <1>1, SoundFacts DEF IndInv, DeleteAccount, TypeOK
  <1>7. RowsMatchMemory'
    BY <1>1 DEF DeleteAccount, RowsMatchMemory, RoutesOf
  <1>8. HitsRemembered'
    BY DEF IndInv, DeleteAccount, HitsRemembered
  <1> QED
    BY <1>3, <1>5, <1>6, <1>7, <1>8 DEF IndInv

\* Forgetting leaves nothing of the account in memory.
LEMMA CommitForgetInv ==
    ASSUME IndInv, NEW c \in Caller, CommitForget(c)
    PROVE  IndInv'
  <1> DEFINE forgotten == RoutesOf(calls[c].account) \cap InIndex
  <1>1. TypeOK /\ RowsMatchMemory
    BY DEF IndInv
  <1>2. PICK failed \in SUBSET forgotten :
          /\ states' = [r \in Route |->
                          IF r \in forgotten THEN ZeroState ELSE states[r]]
          /\ rows' = [r \in Route |->
                        IF r \in forgotten \ failed
                        THEN ZeroState ELSE rows[r]]
          /\ persistErr' = (failed # {})
          /\ unsaved' = (unsaved \ forgotten) \cup failed
          /\ lastHit' = [r \in Route |->
                           IF r \in forgotten THEN NoTime ELSE lastHit[r]]
    BY DEF CommitForget
  <1>3. calls' \in [Caller -> Calls] /\ CallsNotAhead'
    BY CallsStep, IdleFacts DEF CommitForget, Return
  <1>4. forgotten \subseteq Route
    BY DEF RoutesOf
  <1>5. now' = now /\ accounts' = accounts
    BY DEF CommitForget
  <1> HIDE DEF forgotten
  <1>6. /\ states' \in [Route -> ModelStates]
        /\ rows' \in [Route -> ModelStates]
        /\ lastHit' \in [Route -> Nat]
    BY <1>1, <1>2, ZeroFacts DEF TypeOK, NoTime
  <1>7. TypeOK'
    BY <1>1, <1>2, <1>3, <1>4, <1>5, <1>6 DEF TypeOK
  <1>8. \A q \in Route : Sound(states'[q], now') /\ Sound(rows'[q], now')
    BY <1>1, <1>2, <1>5, SoundFacts DEF IndInv, TypeOK
  <1>9. RowsMatchMemory'
    BY <1>1, <1>2, <1>5 DEF RowsMatchMemory
  <1>10. HitsRemembered'
    <2>1. ZeroState.cooldown.until = NoTime
      BY DEF ZeroState, NoCooldown
    <2> QED
      BY <1>2, <2>1 DEF IndInv, HitsRemembered
  <1> QED
    BY <1>3, <1>7, <1>8, <1>9, <1>10 DEF IndInv

\* Start-up restores each row, or drops it.
LEMMA RestartInv == ASSUME IndInv, Restart PROVE IndInv'
  <1> DEFINE restored == [r \in Route |-> Restore(rows[r], now)]
             dead == {r \in Route : rows[r] # ZeroState /\ restored[r] = ZeroState}
  <1>1. TypeOK /\ now \in Nat
    BY DEF IndInv, TypeOK
  <1>2. PICK failed \in SUBSET dead :
          /\ states' = restored
          /\ rows' = [r \in Route |->
                        IF r \in dead \ failed THEN ZeroState ELSE rows[r]]
          /\ persistErr' = (failed # {})
          /\ unsaved' = {}
          /\ calls' = [c \in Caller |-> Idle]
          /\ lastHit' = [r \in Route |->
                           IF restored[r].cooldown.until = NoTime THEN NoTime
                           ELSE restored[r].lastFailureAt]
          /\ UNCHANGED <<now, accounts>>
    BY DEF Restart
  <1>3. \A r \in Route :
          /\ rows[r] \in ModelStates
          /\ Sound(rows[r], now)
          /\ restored[r] = Prune(rows[r], now)
          /\ restored[r] \in ModelStates
          /\ Sound(restored[r], now)
    BY <1>1, RestoreFacts DEF IndInv, TypeOK
  <1>4. \A r \in dead : Prune(rows[r], now) = ZeroState
    BY <1>3
  <1>5. TypeOK'
    <2>1. /\ states' \in [Route -> ModelStates]
          /\ rows' \in [Route -> ModelStates]
          /\ lastHit' \in [Route -> Nat]
      BY <1>1, <1>2, <1>3, ZeroFacts DEF TypeOK, ModelStates, NoTime
    <2>2. calls' \in [Caller -> Calls]
      BY <1>2, IdleFacts
    <2> QED
      BY <1>1, <1>2, <2>1, <2>2 DEF TypeOK
  <1>6. CallsNotAhead'
    BY <1>2, IdleFacts DEF CallsNotAhead
  <1>7. \A q \in Route : Sound(states'[q], now') /\ Sound(rows'[q], now')
    BY <1>1, <1>2, <1>3, SoundFacts
  <1>8. RowsMatchMemory'
    <2> SUFFICES ASSUME NEW r \in Route
                 PROVE  Prune(rows'[r], now) = Prune(states'[r], now)
      BY <1>2 DEF RowsMatchMemory
    <2>1. Prune(Prune(rows[r], now), now) = Prune(rows[r], now)
      BY <1>1, <1>3, PruneAbsorbs
    <2>2. states'[r] = Prune(rows[r], now)
      BY <1>2, <1>3
    <2>3. rows'[r] = rows[r] \/ (rows'[r] = ZeroState /\ r \in dead)
      BY <1>2
    <2> QED
      BY <1>1, <1>4, <2>1, <2>2, <2>3, ZeroFacts
  <1>9. HitsRemembered'
    <2> SUFFICES ASSUME NEW r \in Route, restored[r].cooldown.until # NoTime
                 PROVE  restored[r].lastFailureAt < restored[r].cooldown.until
      BY <1>2, <1>3 DEF HitsRemembered, ModelStates
    <2>1. restored[r].cooldown.until > now
      <3>1. Prune(rows[r], now).cooldown =
              IF rows[r].cooldown.until > now
              THEN rows[r].cooldown ELSE NoCooldown
        BY DEF Prune
      <3>2. restored[r] = Prune(rows[r], now)
        BY <1>3
      <3> QED
        BY <3>1, <3>2 DEF NoCooldown
    <2>2. restored[r].lastFailureAt <= now
      BY <1>3 DEF Sound
    <2> QED
      BY <1>1, <1>3, <2>1, <2>2 DEF ModelStates, Cooldowns
  <1> QED
    BY <1>5, <1>6, <1>7, <1>8, <1>9 DEF IndInv

\* A later clock leaves every state and row as sound as it was.
LEMMA TickInv == ASSUME IndInv, Tick PROVE IndInv'
  <1>1. TypeOK /\ TypeOK'
    BY DEF IndInv, TypeOK, Tick
  <1>2. /\ now \in Nat
        /\ now' \in Nat
        /\ now <= now'
        /\ UNCHANGED <<accounts, states, rows, calls, unsaved, lastHit>>
    BY <1>1 DEF Tick, TypeOK
  <1>3. CallsNotAhead'
    <2> SUFFICES ASSUME NEW c \in Caller
                 PROVE  /\ calls[c].op = "failure" =>
                             calls[c].failure.occurredAt <= now'
                        /\ calls[c].op \in {"success", "check"} =>
                             calls[c].at <= now'
      BY <1>2 DEF CallsNotAhead
    <2> QED
      BY <1>2, CallFacts
  <1>4. \A q \in Route : Sound(states'[q], now') /\ Sound(rows'[q], now')
    BY <1>1, <1>2, SoundFacts DEF IndInv, TypeOK
  <1>5. RowsMatchMemory'
    <2> SUFFICES ASSUME NEW r \in Route, r.account \in accounts, r \notin unsaved
                 PROVE  Prune(rows[r], now') = Prune(states[r], now')
      BY <1>2 DEF RowsMatchMemory
    <2>1. Prune(rows[r], now) = Prune(states[r], now)
      BY DEF IndInv, RowsMatchMemory
    <2>2. /\ Prune(Prune(rows[r], now), now') = Prune(rows[r], now')
          /\ Prune(Prune(states[r], now), now') = Prune(states[r], now')
      BY <1>1, <1>2, PruneAbsorbs DEF TypeOK
    <2> QED
      BY <2>1, <2>2
  <1>6. HitsRemembered'
    BY <1>2 DEF IndInv, HitsRemembered
  <1> QED
    BY <1>1, <1>3, <1>4, <1>5, <1>6 DEF IndInv

\* Every step keeps the invariant.
LEMMA NextInv == IndInv /\ [Next]_vars => IndInv'
  <1> SUFFICES ASSUME IndInv, [Next]_vars PROVE IndInv'
    OBVIOUS
  <1>1. ASSUME NEW c \in Caller, CallerStep(c) PROVE IndInv'
    <2>1. now \in Nat \ {0}
      BY DEF IndInv, TypeOK
    <2>2. CASE ReadFailureClock(c)
      <3>1. PICK r \in Route, report \in Report :
              Begin(c, [op |-> "failure", route |-> r,
                        failure |-> [kind |-> report.kind, occurredAt |-> now,
                                     retryAfter |-> report.retryAfter]])
        BY <2>2 DEF ReadFailureClock
      <3> DEFINE call == [op |-> "failure", route |-> r,
                          failure |-> [kind |-> report.kind, occurredAt |-> now,
                                       retryAfter |-> report.retryAfter]]
      <3>2. report \in Reports
        BY ReportAssumption
      <3>3. call.failure \in Failures
        BY <2>1, <3>2 DEF Failures, Reports
      <3>4. call \in Calls
        BY <3>3 DEF Calls, FailureCalls
      <3>5. call.op = "failure" /\ call.failure.occurredAt <= now
        BY <2>1
      <3> HIDE DEF call
      <3> QED
        BY <2>2, <3>1, <3>4, <3>5, BeginStep DEF ReadFailureClock, call
    <2>3. CASE CommitFailure(c)
      BY <2>3, CommitFailureInv
    <2>4. CASE FinishUpstreamCall(c)
      <3>1. PICK r \in Route : Begin(c, [op |-> "success", route |-> r, at |-> now])
        BY <2>4 DEF FinishUpstreamCall
      <3>2. [op |-> "success", route |-> r, at |-> now] \in Calls
        BY <2>1 DEF Calls, SuccessCalls
      <3> QED
        BY <2>1, <2>4, <3>1, <3>2, BeginStep DEF FinishUpstreamCall
    <2>5. CASE CommitSuccess(c)
      BY <2>5, CommitSuccessInv
    <2>6. CASE ReadCheckClock(c)
      <3>1. PICK r \in Route : Begin(c, [op |-> "check", route |-> r, at |-> now])
        BY <2>6 DEF ReadCheckClock
      <3>2. [op |-> "check", route |-> r, at |-> now] \in Calls
        BY <2>1 DEF Calls, CheckCalls
      <3> QED
        BY <2>1, <2>6, <3>1, <3>2, BeginStep DEF ReadCheckClock
    <2>7. CASE CommitCheck(c)
      BY <2>7, CommitCheckInv
    <2>8. CASE \E a \in Account : DeleteAccount(c, a)
      BY <2>8, DeleteAccountInv
    <2>9. CASE \E a \in Account : RotateCredential(c, a)
      <3>1. PICK a \in Account : RotateCredential(c, a)
        BY <2>9
      <3>2. [op |-> "forget", account |-> a] \in Calls
        BY DEF Calls, ForgetCalls
      <3> QED
        BY <3>1, <3>2, BeginStep DEF RotateCredential
    <2>10. CASE CommitForget(c)
      BY <2>10, CommitForgetInv
    <2> QED
      BY <1>1, <2>2, <2>3, <2>4, <2>5, <2>6, <2>7, <2>8, <2>9, <2>10
         DEF CallerStep
  <1>2. CASE Restart
    BY <1>2, RestartInv
  <1>3. CASE Tick
    BY <1>3, TickInv
  <1>4. CASE UNCHANGED vars
    BY <1>4 DEF vars, IndInv, TypeOK, CallsNotAhead, RowsMatchMemory,
                HitsRemembered
  <1> QED
    BY <1>1, <1>2, <1>3, <1>4 DEF Next

-----------------------------------------------------------------------------
(* The theorems.                                                           *)

\* The index, its rows and the calls in flight are always well formed, sound
\* and in agreement.
THEOREM Invariance == Spec => []IndInv
  <1> QED
    BY InitInv, NextInv, PTL DEF Spec

\* The index and the table only ever hold states of routes.
THEOREM TypeCorrect == Spec => []TypeOK
  <1>1. IndInv => TypeOK
    BY DEF IndInv
  <1> QED
    BY <1>1, Invariance, PTL

\* A restart rebuilds what memory held, except for routes whose last row
\* write failed.
THEOREM RestartRebuildsMemory == Spec => []RowsMatchMemory
  <1>1. IndInv => RowsMatchMemory
    BY DEF IndInv
  <1> QED
    BY <1>1, Invariance, PTL

\* Start-up never takes a row this registry wrote for a corrupt one.
THEOREM RowsAlwaysRestore == Spec => []RowsRestorable
  <1>1. IndInv => RowsRestorable
    BY DEF IndInv, Sound, RowsRestorable
  <1> QED
    BY <1>1, Invariance, PTL

\* No interleaving of failures closes a route beyond the longest hint.
THEOREM CooldownsAreBounded == Spec => []CooldownBounded
  <1>1. IndInv => CooldownBounded
    BY DEF IndInv, Sound, CooldownBounded
  <1> QED
    BY <1>1, Invariance, PTL

\* A late success, a stale failure, a check or a restart never shortens a
\* cooldown that is in force.
THEOREM ClosedRoutesStayClosed == Spec => ClosedStaysClosed
  <1> DEFINE Kept(r) == \/ states'[r].cooldown.until >= states[r].cooldown.until
                        \/ now' >= states[r].cooldown.until
                        \/ Released(r)
  <1>1. ASSUME IndInv, [Next]_vars,
               NEW r \in Route, CoolingDown(states[r], now)
        PROVE  Kept(r)
    <2>1. /\ TypeOK
          /\ now \in Nat
          /\ states[r] \in ModelStates
          /\ states[r].cooldown.until \in Nat
          /\ states[r].cooldown.until > now
      BY <1>1 DEF IndInv, TypeOK, ModelStates, Cooldowns, CoolingDown
    <2>2. ASSUME UNCHANGED states PROVE Kept(r)
      BY <2>1, <2>2
    <2>3. ASSUME NEW c \in Caller, CommitFailure(c) PROVE Kept(r)
      <3> DEFINE q == calls[c].route
                 f == calls[c].failure
      <3>1. /\ q \in Route
            /\ f \in Failures
            /\ f.occurredAt \in Nat
            /\ f.occurredAt <= now
        BY <1>1, <2>3, CallFacts DEF CommitFailure
      <3>2. states' = [states EXCEPT ![q] = Apply(states[q], f)]
        BY <2>3 DEF CommitFailure
      <3>3. CASE q = r
        <4>1. CoolingDown(states[r], f.occurredAt)
          BY <2>1, <3>1 DEF CoolingDown
        <4>2. Apply(states[r], f).cooldown.until >= states[r].cooldown.until
          BY <2>1, <3>1, <4>1, ApplyType
        <4> QED
          BY <2>1, <3>2, <3>3, <4>2 DEF TypeOK
      <3>4. CASE q # r
        BY <2>1, <3>2, <3>4
      <3> QED
        BY <3>3, <3>4
    <2>4. ASSUME NEW c \in Caller, CommitSuccess(c) PROVE Kept(r)
      <3> DEFINE q == calls[c].route
                 t == calls[c].at
      <3>1. q \in Route /\ t \in Nat
        BY <1>1, <2>4, CallFacts DEF CommitSuccess
      <3>2. /\ calls[c].op = "success"
            /\ calls'[c] = Idle
            /\ states' = [states EXCEPT ![q] = Succeed(states[q], t)]
        BY <2>1, <2>4 DEF CommitSuccess, Return, TypeOK
      <3>3. CASE q = r /\ states[r].lastFailureAt <= t
        <4>1. lastHit[r] <= states[r].lastFailureAt
          BY <1>1, <2>1 DEF IndInv, HitsRemembered, NoTime
        <4>2. t >= lastHit[r]
          BY <2>1, <3>1, <3>3, <4>1 DEF TypeOK, ModelStates
        <4> QED
          BY <3>2, <3>3, <4>2 DEF Released
      <3>4. CASE ~ (q = r /\ states[r].lastFailureAt <= t)
        BY <2>1, <3>1, <3>2, <3>4, SucceedType
      <3> QED
        BY <3>3, <3>4
    <2>5. ASSUME NEW c \in Caller, CommitCheck(c) PROVE Kept(r)
      <3> DEFINE q == calls[c].route
                 t == calls[c].at
      <3>1. q \in Route /\ t \in Nat /\ t <= now
        BY <1>1, <2>5, CallFacts DEF CommitCheck
      <3>2. states' = [states EXCEPT ![q] = Prune(states[q], t)]
        BY <2>5 DEF CommitCheck
      <3>3. Prune(states[r], t).cooldown = states[r].cooldown
        BY <2>1, <3>1 DEF Prune
      <3> QED
        BY <2>1, <3>2, <3>3 DEF TypeOK
    <2>6. ASSUME NEW c \in Caller, CommitForget(c) PROVE Kept(r)
      <3>1. /\ calls[c].op = "forget"
            /\ calls'[c] = Idle
        BY <2>1, <2>6 DEF CommitForget, Return, TypeOK
      <3>2. CASE calls[c].account = r.account
        BY <3>1, <3>2 DEF Released
      <3>3. CASE calls[c].account # r.account
        <4>1. r \notin RoutesOf(calls[c].account)
          BY <3>3 DEF RoutesOf
        <4>2. states'[r] = states[r]
          BY <2>6, <4>1 DEF CommitForget
        <4> QED
          BY <2>1, <4>2
      <3> QED
        BY <3>2, <3>3
    <2>7. ASSUME Restart PROVE Kept(r)
      <3>1. /\ states'[r] = Restore(rows[r], now)
            /\ rows[r] \in ModelStates
            /\ Sound(rows[r], now)
        BY <1>1, <2>1, <2>7 DEF Restart, IndInv, TypeOK
      <3>2. states'[r] = Prune(rows[r], now)
        BY <2>1, <3>1, RestoreFacts
      <3>3. CASE r \in unsaved \/ r.account \notin accounts
        BY <3>3 DEF Released
      <3>4. CASE r \notin unsaved /\ r.account \in accounts
        <4>1. Prune(rows[r], now) = Prune(states[r], now)
          BY <1>1, <3>4 DEF IndInv, RowsMatchMemory
        <4>2. Prune(states[r], now).cooldown = states[r].cooldown
          BY <2>1 DEF Prune
        <4> QED
          BY <2>1, <3>2, <4>1, <4>2
      <3> QED
        BY <3>3, <3>4
    <2>8. CASE \E c \in Caller : CallerStep(c)
      <3>1. PICK c \in Caller : CallerStep(c)
        BY <2>8
      <3> QED
        BY <2>2, <2>3, <2>4, <2>5, <2>6, <3>1
           DEF CallerStep, ReadFailureClock, FinishUpstreamCall,
               ReadCheckClock, DeleteAccount, RotateCredential
    <2>9. CASE Tick \/ UNCHANGED vars
      BY <2>2, <2>9 DEF Tick, vars
    <2> QED
      BY <1>1, <2>7, <2>8, <2>9 DEF Next
  <1>2. IndInv /\ [Next]_vars =>
          [\A r \in Route : CoolingDown(states[r], now) => Kept(r)]_vars
    BY <1>1
  <1> QED
    BY <1>2, Invariance, PTL DEF ClosedStaysClosed, Spec

=============================================================================
