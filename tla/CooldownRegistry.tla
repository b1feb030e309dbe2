--------------------------- MODULE CooldownRegistry ---------------------------
(***************************************************************************)
(* The sparse, persisted index of route cooldowns:                         *)
(* application/accountruntime/registry.go over the account_runtime_state   *)
(* table of internal/adapters/accounts/sqliteaccount.                      *)
(*                                                                         *)
(* A caller's operation is split where the code lets another one in: the   *)
(* clock (or the time of the success) is read first, the index lock is     *)
(* taken later.  The row is written inside the lock, and the write may     *)
(* fail.  The process may restart at any moment and keeps only the rows.   *)
(***************************************************************************)
EXTENDS ModelCooldown, FiniteSets

CONSTANTS
    Account,   \* accounts known to the store
    Model,     \* real upstream models
    Caller,    \* goroutines that use the registry
    Report,    \* failures a caller may report: [kind, retryAfter]
    Horizon    \* bound of the model: the clock stops here

Reports == [kind : FailureKinds, retryAfter : 0 .. MaxCooldownHint]

ASSUME ReportAssumption == Report \subseteq Reports
ASSUME HorizonAssumption == Horizon \in Nat

VARIABLES
    now,         \* wall clock, never before tick 1
    accounts,    \* rows of the accounts table
    states,      \* the in-memory index; ZeroState stands for no entry
    rows,        \* account_runtime_state; ZeroState stands for no row
    persistErr,  \* the last index operation could not write its row
    calls,       \* what each caller is in the middle of
    unsaved,     \* history: routes whose last row write failed
    lastHit      \* history: newest failure that closed the route, NoTime
                 \* while no cooldown is remembered

vars == <<now, accounts, states, rows, persistErr, calls, unsaved, lastHit>>

Route == [account : Account, model : Model]

RoutesOf(account) == {r \in Route : r.account = account}

\* The index key is compared as a whole, so a route never aliases another.
InIndex == {r \in Route : states[r] # ZeroState}

Idle == [op |-> "idle"]
FailureCalls == [op : {"failure"}, route : Route, failure : Failures]
SuccessCalls == [op : {"success"}, route : Route, at : Nat \ {0}]
CheckCalls == [op : {"check"}, route : Route, at : Nat \ {0}]
ForgetCalls == [op : {"forget"}, account : Account]
Calls == {Idle} \cup FailureCalls \cup SuccessCalls \cup CheckCalls \cup ForgetCalls

TypeOK ==
    /\ now \in Nat \ {0}
    /\ accounts \subseteq Account
    /\ states \in [Route -> ModelStates]
    /\ rows \in [Route -> ModelStates]
    /\ persistErr \in BOOLEAN
    /\ calls \in [Caller -> Calls]
    /\ unsaved \subseteq Route
    /\ lastHit \in [Route -> Nat]

Init ==
    /\ now = 1
    /\ accounts = Account
    /\ states = [r \in Route |-> ZeroState]
    /\ rows = [r \in Route |-> ZeroState]
    /\ persistErr = FALSE
    /\ calls = [c \in Caller |-> Idle]
    /\ unsaved = {}
    /\ lastHit = [r \in Route |-> NoTime]

-----------------------------------------------------------------------------
Begin(c, call) ==
    /\ calls[c] = Idle
    /\ calls' = [calls EXCEPT ![c] = call]

Return(c) == calls' = [calls EXCEPT ![c] = Idle]

\* Mutant of Persist: only ever upserts, a healed route keeps its row.
PersistUpsertOnly(r, state) ==
    \/ /\ rows' = [rows EXCEPT ![r] = IF r.account \in accounts /\ state # ZeroState
                                      THEN state ELSE rows[r]]
       /\ persistErr' = FALSE
       /\ unsaved' = unsaved \ {r}
    \/ /\ persistErr' = TRUE
       /\ unsaved' = unsaved \cup {r}
       /\ UNCHANGED rows

\* Write the route's new state to its row: an upsert, or a delete when the
\* state is zero.  A row of a deleted account is dropped without an error.
Persist(r, state) ==
    \/ /\ rows' = [rows EXCEPT ![r] = IF r.account \in accounts
                                      THEN state ELSE ZeroState]
       /\ persistErr' = FALSE
       /\ unsaved' = unsaved \ {r}
    \/ /\ persistErr' = TRUE
       /\ unsaved' = unsaved \cup {r}
       /\ UNCHANGED rows

\* History: the entry is now in this state, and a failure at time t (NoTime:
\* none) was one that closes the route.
NoteHit(r, state, t) ==
    lastHit' = [lastHit EXCEPT ![r] =
                  IF state.cooldown.until = NoTime THEN NoTime
                  ELSE Later(lastHit[r], t)]

\* RecordFailure: the clock is read before the lock is taken.
ReadFailureClock(c) ==
    /\ \E r \in Route, report \in Report :
         Begin(c, [op |-> "failure", route |-> r,
                   failure |-> [kind |-> report.kind, occurredAt |-> now,
                                retryAfter |-> report.retryAfter]])
    /\ UNCHANGED <<now, accounts, states, rows, persistErr, unsaved, lastHit>>

CommitFailure(c) ==
    /\ calls[c].op = "failure"
    /\ LET r == calls[c].route
           failure == calls[c].failure
           next == Apply(states[r], failure)
       IN  /\ states' = [states EXCEPT ![r] = next]
           /\ Persist(r, next)
           /\ NoteHit(r, next,
                      IF Closes(Prune(states[r], failure.occurredAt), failure)
                      THEN failure.occurredAt ELSE NoTime)
    /\ Return(c)
    /\ UNCHANGED <<now, accounts>>

\* RecordSuccess: happenedAt was taken when the upstream call finished.
FinishUpstreamCall(c) ==
    /\ \E r \in Route : Begin(c, [op |-> "success", route |-> r, at |-> now])
    /\ UNCHANGED <<now, accounts, states, rows, persistErr, unsaved, lastHit>>

CommitSuccess(c) ==
    /\ calls[c].op = "success"
    /\ LET r == calls[c].route
           next == Succeed(states[r], calls[c].at)
       IN  /\ states' = [states EXCEPT ![r] = next]
           /\ Persist(r, next)
           /\ NoteHit(r, next, NoTime)
    /\ Return(c)
    /\ UNCHANGED <<now, accounts>>

\* CheckEligibility reads the clock, then prunes the entry under the lock.
\* Only memory is pruned: the row stays until the next write or restart.
ReadCheckClock(c) ==
    /\ \E r \in Route : Begin(c, [op |-> "check", route |-> r, at |-> now])
    /\ UNCHANGED <<now, accounts, states, rows, persistErr, unsaved, lastHit>>

CommitCheck(c) ==
    /\ calls[c].op = "check"
    /\ LET r == calls[c].route
           next == Prune(states[r], calls[c].at)
       IN  /\ states' = [states EXCEPT ![r] = next]
           /\ NoteHit(r, next, NoTime)
    /\ Return(c)
    /\ UNCHANGED <<now, accounts, rows, persistErr, unsaved>>

\* The account's rows go with it (foreign key cascade); ForgetAccount, a
\* later step, clears the memory.
DeleteAccount(c, a) ==
    /\ a \in accounts
    /\ Begin(c, [op |-> "forget", account |-> a])
    /\ accounts' = accounts \ {a}
    /\ rows' = [r \in Route |-> IF r.account = a THEN ZeroState ELSE rows[r]]
    /\ unsaved' = unsaved \ RoutesOf(a)
    /\ UNCHANGED <<now, states, persistErr, lastHit>>

\* Rotating a static credential keeps the account and resets its state.
RotateCredential(c, a) ==
    /\ a \in accounts
    /\ Begin(c, [op |-> "forget", account |-> a])
    /\ UNCHANGED <<now, accounts, states, rows, persistErr, unsaved, lastHit>>

\* ForgetAccount drops the account's index entries, and the rows of exactly
\* those entries; each delete may fail on its own.
CommitForget(c) ==
    /\ calls[c].op = "forget"
    /\ LET forgotten == RoutesOf(calls[c].account) \cap InIndex
       IN  \E failed \in SUBSET forgotten :
             /\ states' = [r \in Route |->
                             IF r \in forgotten THEN ZeroState ELSE states[r]]
             /\ rows' = [r \in Route |->
                           IF r \in forgotten \ failed
                           THEN ZeroState ELSE rows[r]]
             /\ persistErr' = (failed # {})
             /\ unsaved' = (unsaved \ forgotten) \cup failed
             /\ lastHit' = [r \in Route |->
                              IF r \in forgotten THEN NoTime ELSE lastHit[r]]
    /\ Return(c)
    /\ UNCHANGED <<now, accounts>>

\* The process stops between any two steps and comes back from its rows:
\* NewRegistryWithStore restores what is live and deletes the rest.
Restart ==
    LET restored == [r \in Route |-> Restore(rows[r], now)]
        dead == {r \in Route : rows[r] # ZeroState /\ restored[r] = ZeroState}
    IN  \E failed \in SUBSET dead :
          /\ states' = restored
          /\ rows' = [r \in Route |->
                        IF r \in dead \ failed THEN ZeroState ELSE rows[r]]
          /\ persistErr' = (failed # {})
          /\ unsaved' = {}
          /\ calls' = [c \in Caller |-> Idle]
          /\ lastHit' = [r \in Route |->
                           IF restored[r].cooldown.until = NoTime THEN NoTime
                           ELSE restored[r].lastFailureAt]
          /\ UNCHANGED <<now, accounts>>

Tick ==
    /\ now < Horizon
    /\ now' = now + 1
    /\ UNCHANGED <<accounts, states, rows, persistErr, calls, unsaved, lastHit>>

CallerStep(c) ==
    \/ ReadFailureClock(c)
    \/ CommitFailure(c)
    \/ FinishUpstreamCall(c)
    \/ CommitSuccess(c)
    \/ ReadCheckClock(c)
    \/ CommitCheck(c)
    \/ \E a \in Account : DeleteAccount(c, a)
    \/ \E a \in Account : RotateCredential(c, a)
    \/ CommitForget(c)

Next ==
    \/ \E c \in Caller : CallerStep(c)
    \/ Restart
    \/ Tick

Spec == Init /\ [][Next]_vars

-----------------------------------------------------------------------------
(* Properties.                                                             *)

\* What a restart would rebuild is what memory holds: for every existing
\* account, a route whose last row write succeeded has a row that prunes to
\* the same state as its index entry, although CheckEligibility prunes only
\* the memory and ForgetAccount deletes only the rows it finds in memory.
RowsMatchMemory ==
    \A r \in Route :
        (r.account \in accounts /\ r \notin unsaved) =>
            Prune(rows[r], now) = Prune(states[r], now)

\* Every row this implementation writes passes RestoreModelState: start-up
\* never throws away a live cooldown as corrupt.
RowsRestorable == \A r \in Route : Restorable(rows[r])

\* No route is closed for longer than the longest hint from now on, however
\* failures of several callers interleave and extend one another.
CooldownBounded ==
    \A r \in Route : states[r].cooldown.until <= now + MaxCooldownHint

\* The ways a closed route may legitimately reopen before its time: a
\* success no older than any failure that closed it, ForgetAccount, or a
\* restart that finds no row because the write failed or the account is gone.
Released(r) ==
    \/ \E c \in Caller :
         /\ calls[c].op = "success"
         /\ calls[c].route = r
         /\ calls[c].at >= lastHit[r]
         /\ calls'[c] = Idle
    \/ \E c \in Caller :
         /\ calls[c].op = "forget"
         /\ calls[c].account = r.account
         /\ calls'[c] = Idle
    \/ r \in unsaved
    \/ r.account \notin accounts

\* A closed route stays closed at least as long as announced: a late success,
\* a shorter backoff, a failure stamped earlier but applied later, an
\* eligibility check and a restart never shorten a cooldown in force.
ClosedStaysClosed ==
    [][\A r \in Route :
         CoolingDown(states[r], now) =>
           \/ states'[r].cooldown.until >= states[r].cooldown.until
           \/ now' >= states[r].cooldown.until
           \/ Released(r)]_vars

\* The inductive invariant behind the properties above.
CallsNotAhead ==
    \A c \in Caller :
        /\ calls[c].op = "failure" => calls[c].failure.occurredAt <= now
        /\ calls[c].op \in {"success", "check"} => calls[c].at <= now

\* What an entry or a row may hold at time t.
Sound(state, t) ==
    /\ Restorable(state)
    /\ state.cooldown.until <= t + MaxCooldownHint
    /\ state.lastFailureAt <= t

\* A remembered cooldown protects every failure that closed the route.
HitsRemembered ==
    \A r \in Route :
        IF states[r].cooldown.until = NoTime
        THEN lastHit[r] = NoTime
        ELSE /\ lastHit[r] <= states[r].lastFailureAt
             /\ lastHit[r] < states[r].cooldown.until

IndInv ==
    /\ TypeOK
    /\ CallsNotAhead
    /\ \A r \in Route : Sound(states[r], now) /\ Sound(rows[r], now)
    /\ RowsMatchMemory
    /\ HitsRemembered

=============================================================================
