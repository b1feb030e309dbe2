------------------------- MODULE AccountRuntimeProofs -------------------------
(***************************************************************************)
(* Theorems of AccountRuntime, for every set of accounts, models and       *)
(* callers, every set of outcomes, documents and snapshots, and every      *)
(* choice of the durations.                                                *)
(***************************************************************************)
EXTENDS AccountRuntime, ModelCooldownProofs

-----------------------------------------------------------------------------
(* Hard blocks.                                                            *)

\* A blocking failure waits for an event its scope supports.
LEMMA DirectiveFacts ==
    ASSUME NEW o \in Outcomes
    PROVE  /\ o.kind \in FailureKinds
           /\ o.retryAfter \in 0 .. MaxCooldownHint
           /\ o.scope = "account" => RecoveryOf[o.kind] \in AccountTriggers
           /\ o.scope = "model" => RecoveryOf[o.kind] \in ModelTriggers
  <1>1. o.scope # "none" =>
          [kind |-> o.kind, scope |-> o.scope] \in Directives
    BY DEF Outcomes
  <1> QED
    BY <1>1 DEF Outcomes, Directives

\* Waiting for nothing is an observation of every kind.
LEMMA NothingFacts ==
    ASSUME NEW T
    PROVE  NoObservation \in ObservationsOf(T)
  BY DEF NoObservation, ObservationsOf, NoTime

\* Waiting for nothing is within a recheck interval of now.
LEMMA NothingIsDue ==
    ASSUME IndInv
    PROVE  NoObservation.recheckAt <= now + BlockRecheckInterval
  BY DurationAssumption
     DEF IndInv, TypeOK, NoObservation, NoTime, BlockRecheckInterval

\* A new observation keeps the type, joins the one that still counts, and
\* never makes it due earlier.
LEMMA ObserveFacts ==
    ASSUME NEW T, NEW o \in ObservationsOf(T), NEW trigger \in T,
           NEW t \in Nat, NEW due \in Nat
    PROVE  /\ Observe(o, trigger, t, due) \in ObservationsOf(T)
           /\ \A bound \in Nat :
                (o.recheckAt <= bound /\ due <= bound) =>
                    Observe(o, trigger, t, due).recheckAt <= bound
           /\ \A seen \in ActiveAt(o, t) :
                /\ seen \in Observe(o, trigger, t, due).set
                /\ Observe(o, trigger, t, due).recheckAt >= o.recheckAt
  BY DEF Observe, ObservationsOf, ActiveAt, Later

\* Lifting one event keeps the type and every other event.
LEMMA LiftFacts ==
    ASSUME NEW T, NEW o \in ObservationsOf(T), NEW trigger
    PROVE  /\ Lift(o, trigger) \in ObservationsOf(T)
           /\ Lift(o, trigger).recheckAt <= o.recheckAt
           /\ \A seen \in o.set \ {trigger} :
                /\ seen \in Lift(o, trigger).set
                /\ Lift(o, trigger).recheckAt = o.recheckAt
  BY DEF Lift, ObservationsOf, NoObservation, NoTime

\* A document stands for an account-wide observation or for none.
LEMMA ProjectionFacts ==
    ASSUME NEW d \in Documents \cup {NoDocument}
    PROVE  /\ Projection(d) \in ObservationsOf(AccountTriggers)
           /\ Projection(NoDocument) = NoObservation
  <1>1. NoKind \notin BlockingKinds
    BY DEF NoKind, BlockingKinds, CredentialKinds, QuotaKinds, PolicyKinds
  <1>2. d.until \in Nat
    BY DEF Documents, NoDocument, NoTime
  <1>3. [kind |-> d.kind, scope |-> "account"] \in Directives =>
          RecoveryOf[d.kind] \in AccountTriggers
    BY DEF Directives
  <1>4. [kind |-> NoKind, scope |-> "account"] \notin Directives
    BY <1>1 DEF Directives
  <1>5. Projection(d) \in ObservationsOf(AccountTriggers)
    BY <1>2, <1>3, NothingFacts DEF Projection, ObservationsOf
  <1> QED
    BY <1>4, <1>5 DEF Projection, NoDocument

-----------------------------------------------------------------------------
(* The calls under way.                                                    *)

\* What a call of each kind carries.
LEMMA CallFacts ==
    ASSUME NEW call \in Calls
    PROVE  /\ call.op \in {"attempt", "failure", "success", "due", "drop"} =>
                /\ call.route \in Route
                /\ call.route.account \in Account
           /\ call.op \in {"attempt", "failure"} => call.generation \in Nat
           /\ call.op = "failure" => call.outcome \in Outcomes
           /\ call.op \in {"success", "due", "drop"} => call.at \in Nat
           /\ call.op \in {"reauth", "forget", "catalog", "put"} =>
                /\ call.account \in Account
                /\ call \in ManagementCalls
           /\ call.op = "put" => call.document \in Documents \cup {NoDocument}
  <1>1. call \in RouteCalls => call.route \in Route
    BY DEF RouteCalls
  <1>2. call \in RouteCalls => call.route.account \in Account
    BY <1>1 DEF Route
  <1>3. call \in RouteCalls =>
          /\ call.op \in {"attempt", "failure"} => call.generation \in Nat
          /\ call.op = "failure" => call.outcome \in Outcomes
          /\ call.op \in {"success", "due", "drop"} => call.at \in Nat
          /\ call.op \notin {"idle", "reauth", "forget", "catalog", "put"}
    BY DEF RouteCalls
  <1>4. call \in ManagementCalls =>
          /\ call.account \in Account
          /\ call.op = "put" => call.document \in Documents \cup {NoDocument}
          /\ call.op \in {"reauth", "forget", "catalog", "put"}
    BY DEF ManagementCalls
  <1>5. call = Idle => call.op = "idle"
    BY DEF Idle
  <1> QED
    BY <1>1, <1>2, <1>3, <1>4, <1>5 DEF Calls

\* A party that does nothing is a well-typed one.
LEMMA IdleFacts == Idle \in Calls /\ Idle.op = "idle"
  BY DEF Calls, Idle

\* A step that only changes what one caller, not writing a document before or
\* after, is in the middle of.
LEMMA CallsStep ==
    ASSUME IndInv, NEW c \in Caller, NEW call \in Calls,
           call.op \in {"success", "due", "drop"} => call.at <= now,
           call.op # "put", calls[c].op # "put",
           calls' = [calls EXCEPT ![c] = call],
           UNCHANGED <<now, accounts, documents, persistedFailures, unsettled>>
    PROVE  /\ calls' \in [Caller -> Calls]
           /\ CallsNotAhead'
           /\ NoDocumentsOfTheGone'
           /\ DocumentsProjected'
           /\ OneWriter'
  <1>1. calls \in [Caller -> Calls]
    BY DEF IndInv, TypeOK
  <1>2. \A d \in Caller : calls'[d] = IF d = c THEN call ELSE calls[d]
    BY <1>1
  <1>3. \A a \in Account, d \in Caller :
          (calls'[d].op = "put" /\ calls'[d].account = a)
          <=> (calls[d].op = "put" /\ calls[d].account = a)
    BY <1>2
  <1>4. CallsNotAhead'
    BY <1>2 DEF IndInv, CallsNotAhead
  <1>5. accounts \subseteq Account
    BY DEF IndInv, TypeOK
  <1>6. DocumentsProjected'
    <2> SUFFICES ASSUME NEW a \in accounts \ unsettled, Quiet(a)'
                 PROVE  persistedFailures[a] = Projection(documents[a])
      BY DEF DocumentsProjected
    <2>1. Quiet(a)
      BY <1>3, <1>5 DEF Quiet
    <2> QED
      BY <2>1 DEF IndInv, DocumentsProjected
  <1>7. OneWriter'
    <2> SUFFICES ASSUME NEW a \in accounts \ unsettled, NEW d \in Caller,
                        calls'[d].op = "put", calls'[d].account = a
                 PROVE  /\ calls'[d].document = documents[a]
                        /\ ~ Writing(d, a)'
      BY DEF OneWriter
    <2>1. d # c /\ calls[d].op = "put" /\ calls[d].account = a
      BY <1>2
    <2>2. calls[d].document = documents[a] /\ ~ Writing(d, a)
      BY <2>1 DEF IndInv, OneWriter
    <2>3. ~ Writing(d, a)'
      BY <1>3, <1>5, <2>2 DEF Writing
    <2> QED
      BY <1>2, <2>1, <2>2, <2>3
  <1>8. NoDocumentsOfTheGone'
    BY DEF IndInv, NoDocumentsOfTheGone
  <1> QED
    BY <1>1, <1>2, <1>4, <1>6, <1>7, <1>8

\* A step that leaves every table alone.
LEMMA TablesStep ==
    ASSUME IndInv, UNCHANGED <<now, database, usageFacts, observations,
                               persistedFailures, cooldowns, unsettled>>,
           calls' \in [Caller -> Calls],
           CallsNotAhead', NoDocumentsOfTheGone', DocumentsProjected', OneWriter'
    PROVE  IndInv'
  BY DEF IndInv, TypeOK, ObservationsComeDue, UsageFactsAgree, database,
         usageFacts, observations

\* An empty runtime over no documents satisfies the invariant.
LEMMA InitInv == Init => IndInv
  <1> SUFFICES ASSUME Init PROVE IndInv
    OBVIOUS
  <1>1. NoDocument \in Documents \cup {NoDocument}
    OBVIOUS
  <1>2. /\ ZeroState \in ModelStates
        /\ NoObservation \in ObservationsOf(AccountTriggers)
        /\ NoObservation \in ObservationsOf(ModelTriggers)
        /\ NoSnapshot \in Snapshots
        /\ Projection(NoDocument) = NoObservation
    BY <1>1, ZeroFacts, NothingFacts, ProjectionFacts DEF NoSnapshot, Snapshots
  <1>3. TypeOK
    BY <1>1, <1>2, IdleFacts DEF Init, TypeOK
  <1>4. CallsNotAhead /\ OneWriter
    BY IdleFacts DEF Init, CallsNotAhead, OneWriter
  <1>5. ObservationsComeDue
    BY <1>2, DurationAssumption
       DEF Init, ObservationsComeDue, NoObservation, NoTime, BlockRecheckInterval
  <1>6. UsageFactsAgree
    BY DEF Init, UsageFactsAgree, NoSnapshot, Route
  <1>7. DocumentsProjected /\ NoDocumentsOfTheGone
    BY <1>2 DEF Init, DocumentsProjected, NoDocumentsOfTheGone
  <1> QED
    BY <1>3, <1>4, <1>5, <1>6, <1>7 DEF IndInv

-----------------------------------------------------------------------------
(* Calls to the upstream.                                                  *)

\* Starting a call changes its own party only.
LEMMA StartAttemptInv ==
    ASSUME IndInv, NEW c \in Caller, StartAttempt(c)
    PROVE  IndInv'
  <1>1. PICK r \in Route :
          Begin(c, [op |-> "attempt", route |-> r,
                    generation |-> credential[r.account]])
    BY DEF StartAttempt
  <1> DEFINE call == [op |-> "attempt", route |-> r,
                      generation |-> credential[r.account]]
  <1>2. call \in Calls
    BY DEF Calls, RouteCalls, Route, IndInv, TypeOK
  <1>3. calls[c].op # "put" /\ calls' = [calls EXCEPT ![c] = call]
    BY <1>1, IdleFacts DEF Begin
  <1>4. call.op = "attempt"
    OBVIOUS
  <1> HIDE DEF call
  <1> QED
    BY <1>2, <1>3, <1>4, CallsStep, TablesStep DEF StartAttempt, database

\* The credential guard of a failure reads, and decides whether it is recorded.
LEMMA VerifyFailureInv ==
    ASSUME IndInv, NEW c \in Caller, VerifyFailure(c)
    PROVE  IndInv'
  <1>1. /\ calls[c] \in Calls
        /\ calls[c].op = "attempt"
        /\ calls[c].route \in Route
        /\ calls[c].generation \in Nat
    BY CallFacts DEF IndInv, TypeOK, VerifyFailure
  <1>2. CASE Return(c)
    BY <1>1, <1>2, IdleFacts, CallsStep, TablesStep
       DEF VerifyFailure, Return, Continue, database
  <1>3. CASE ~ Return(c)
    <2>1. PICK o \in Outcome :
            Continue(c, [op |-> "failure", route |-> calls[c].route,
                         generation |-> calls[c].generation,
                         outcome |-> Disposition(calls[c].route.account, o)])
      BY <1>3 DEF VerifyFailure
    <2> DEFINE disposition == Disposition(calls[c].route.account, o)
               call == [op |-> "failure", route |-> calls[c].route,
                        generation |-> calls[c].generation,
                        outcome |-> disposition]
    <2>2. disposition \in Outcomes
      <3>1. [kind |-> "static_credential_rejected", scope |-> "none",
             retryAfter |-> 0] \in Outcomes
        <4>1. /\ "static_credential_rejected" \in FailureKinds
              /\ "static_credential_rejected" \notin BlockingKinds
          BY DEF FailureKinds, CooldownKinds, ImmediateKinds, BlockingKinds,
                 CredentialKinds, QuotaKinds, PolicyKinds
        <4> QED
          BY <4>1, DurationAssumption DEF Outcomes
      <3> QED
        BY <3>1, OutcomeAssumption DEF Disposition
    <2>3. call \in Calls
      BY <1>1, <2>2 DEF Calls, RouteCalls
    <2>4. call.op = "failure" /\ calls' = [calls EXCEPT ![c] = call]
      BY <2>1 DEF Continue
    <2> HIDE DEF call
    <2> QED
      BY <1>1, <2>3, <2>4, CallsStep, TablesStep DEF VerifyFailure, database
  <1> QED
    BY <1>2, <1>3

\* The credential guard of a success reads, and decides whether it counts.
LEMMA VerifySuccessInv ==
    ASSUME IndInv, NEW c \in Caller, VerifySuccess(c)
    PROVE  IndInv'
  <1> DEFINE call == [op |-> "success", route |-> calls[c].route, at |-> now]
  <1>1. /\ calls[c].op = "attempt"
        /\ calls[c].route \in Route
        /\ now \in Nat
    BY CallFacts DEF IndInv, TypeOK, VerifySuccess
  <1>2. call \in Calls /\ call.op = "success" /\ call.at <= now
    BY <1>1 DEF Calls, RouteCalls
  <1>3. calls' = [calls EXCEPT ![c] = call]
    BY DEF VerifySuccess, Continue
  <1> HIDE DEF call
  <1> QED
    BY <1>1, <1>2, <1>3, CallsStep, TablesStep DEF VerifySuccess, database

\* A success notes what is due under the read lock and changes nothing.
LEMMA FindDueFailuresInv ==
    ASSUME IndInv, NEW c \in Caller, FindDueFailures(c)
    PROVE  IndInv'
  <1>1. /\ calls[c].op = "due"
        /\ calls[c].route \in Route
        /\ calls[c].at \in Nat
        /\ calls[c].at <= now
    BY CallFacts DEF IndInv, TypeOK, CallsNotAhead, FindDueFailures
  <1>2. PICK call \in Calls :
          /\ call.op = "drop" => call.at <= now
          /\ call.op \in {"idle", "drop"}
          /\ calls' = [calls EXCEPT ![c] = call]
    <2> DEFINE account == Due(accountFailures[calls[c].route.account], calls[c].at)
               model == Due(modelFailures[calls[c].route], calls[c].at)
               drop == [op |-> "drop", route |-> calls[c].route,
                        at |-> calls[c].at, account |-> account,
                        model |-> model]
    <2>1. account \in BOOLEAN /\ model \in BOOLEAN
      BY DEF Due
    <2>2. drop \in Calls /\ drop.op = "drop" /\ drop.at <= now
      BY <1>1, <2>1 DEF Calls, RouteCalls
    <2>3. \/ calls' = [calls EXCEPT ![c] = Idle]
          \/ calls' = [calls EXCEPT ![c] = drop]
      BY DEF FindDueFailures, Continue, Return
    <2> HIDE DEF drop
    <2> QED
      BY <2>2, <2>3, IdleFacts
  <1>3. call.op # "put" /\ (call.op \in {"success", "due", "drop"} => call.at <= now)
    BY <1>2
  <1> QED
    BY <1>1, <1>2, <1>3, CallsStep, TablesStep DEF FindDueFailures, database

\* A recorded failure adds blocks that are due within an interval.
LEMMA RecordFailureInv ==
    ASSUME IndInv, NEW c \in Caller, RecordFailure(c)
    PROVE  IndInv'
  <1> DEFINE r == calls[c].route
             outcome == calls[c].outcome
             failure == [kind |-> outcome.kind, occurredAt |-> now,
                         retryAfter |-> outcome.retryAfter]
             Seen(o) == Observe(o, RecoveryOf[outcome.kind], now,
                                now + BlockRecheckInterval)
  <1>1. /\ TypeOK
        /\ now \in Nat \ {0}
        /\ now + BlockRecheckInterval \in Nat
    BY DurationAssumption DEF IndInv, TypeOK, BlockRecheckInterval
  <1>2. /\ calls[c].op = "failure"
        /\ r \in Route
        /\ r.account \in Account
        /\ outcome \in Outcomes
    BY <1>1, CallFacts DEF TypeOK, RecordFailure
  <1>3. failure \in Failures
    BY <1>1, <1>2, DirectiveFacts DEF Failures
  <1>4. /\ cooldowns' = [cooldowns EXCEPT ![r] = Apply(@, failure)]
        /\ accountFailures' = IF outcome.scope = "account"
                              THEN [accountFailures EXCEPT ![r.account] = Seen(@)]
                              ELSE accountFailures
        /\ modelFailures' = IF outcome.scope = "model"
                            THEN [modelFailures EXCEPT ![r] = Seen(@)]
                            ELSE modelFailures
    BY DEF RecordFailure
  <1>5. cooldowns' \in [Route -> ModelStates]
    BY <1>1, <1>2, <1>3, <1>4, ApplyType DEF TypeOK
  <1>6. /\ accountFailures' \in [Account -> ObservationsOf(AccountTriggers)]
        /\ \A a \in Account :
             accountFailures'[a].recheckAt <= now + BlockRecheckInterval
    <2>1. CASE outcome.scope = "account"
      <3>1. RecoveryOf[outcome.kind] \in AccountTriggers
        BY <1>2, <2>1, DirectiveFacts
      <3>2. accountFailures[r.account] \in ObservationsOf(AccountTriggers)
        BY <1>1, <1>2 DEF TypeOK
      <3>3. /\ Seen(accountFailures[r.account]) \in ObservationsOf(AccountTriggers)
            /\ Seen(accountFailures[r.account]).recheckAt
                 <= now + BlockRecheckInterval
        BY <1>1, <1>2, <3>1, <3>2, ObserveFacts DEF IndInv, ObservationsComeDue
      <3> HIDE DEF Seen
      <3> QED
        BY <1>1, <1>2, <1>4, <2>1, <3>3 DEF TypeOK, IndInv, ObservationsComeDue
    <2>2. CASE outcome.scope # "account"
      BY <1>1, <1>4, <2>2 DEF TypeOK, IndInv, ObservationsComeDue
    <2> QED
      BY <2>1, <2>2
  <1>7. /\ modelFailures' \in [Route -> ObservationsOf(ModelTriggers)]
        /\ \A q \in Route :
             modelFailures'[q].recheckAt <= now + BlockRecheckInterval
    <2>1. CASE outcome.scope = "model"
      <3>1. RecoveryOf[outcome.kind] \in ModelTriggers
        BY <1>2, <2>1, DirectiveFacts
      <3>2. modelFailures[r] \in ObservationsOf(ModelTriggers)
        BY <1>1, <1>2 DEF TypeOK
      <3>3. /\ Seen(modelFailures[r]) \in ObservationsOf(ModelTriggers)
            /\ Seen(modelFailures[r]).recheckAt <= now + BlockRecheckInterval
        BY <1>1, <1>2, <3>1, <3>2, ObserveFacts DEF IndInv, ObservationsComeDue
      <3> HIDE DEF Seen
      <3> QED
        BY <1>1, <1>2, <1>4, <2>1, <3>3 DEF TypeOK, IndInv, ObservationsComeDue
    <2>2. CASE outcome.scope # "model"
      BY <1>1, <1>4, <2>2 DEF TypeOK, IndInv, ObservationsComeDue
    <2> QED
      BY <2>1, <2>2
  <1>8. /\ calls' \in [Caller -> Calls]
        /\ CallsNotAhead' /\ NoDocumentsOfTheGone'
        /\ DocumentsProjected' /\ OneWriter'
    BY <1>2, IdleFacts, CallsStep DEF RecordFailure, Return, Continue, database
  <1>9. /\ UNCHANGED <<now, accounts, static, credential, documents, accountBlocks,
                       modelBlocks, remaining, projected, persistedFailures,
                       unsettled>>
    BY DEF RecordFailure, database, usageFacts
  <1>10. TypeOK'
    BY <1>1, <1>5, <1>6, <1>7, <1>8, <1>9 DEF TypeOK
  <1>11. ObservationsComeDue'
    BY <1>6, <1>7, <1>9 DEF ObservationsComeDue, BlockRecheckInterval
  <1>12. UsageFactsAgree'
    BY <1>9 DEF IndInv, UsageFactsAgree
  <1> QED
    BY <1>8, <1>10, <1>11, <1>12 DEF IndInv

\* A success lifts the cooldown of its route only.
LEMMA RecordSuccessInv ==
    ASSUME IndInv, NEW c \in Caller, RecordSuccess(c)
    PROVE  IndInv'
  <1> DEFINE call == [op |-> "due", route |-> calls[c].route, at |-> now]
  <1>1. /\ TypeOK
        /\ now \in Nat
        /\ calls[c].op = "success"
        /\ calls[c].route \in Route
        /\ calls[c].at \in Nat
    BY CallFacts DEF IndInv, TypeOK, RecordSuccess
  <1>2. call \in Calls /\ call.op = "due" /\ call.at <= now
    BY <1>1 DEF Calls, RouteCalls
  <1>3. calls' = [calls EXCEPT ![c] = call]
    BY DEF RecordSuccess, Continue
  <1> HIDE DEF call
  <1>4. /\ calls' \in [Caller -> Calls]
        /\ CallsNotAhead' /\ NoDocumentsOfTheGone'
        /\ DocumentsProjected' /\ OneWriter'
    BY <1>1, <1>2, <1>3, CallsStep DEF RecordSuccess, database
  <1>5. cooldowns' \in [Route -> ModelStates]
    BY <1>1, SucceedType DEF RecordSuccess, TypeOK
  <1>6. UNCHANGED <<now, accounts, static, credential, documents, accountBlocks,
                    modelBlocks, remaining, projected, accountFailures,
                    modelFailures, persistedFailures, unsettled>>
    BY DEF RecordSuccess, database, usageFacts, observations
  <1>7. TypeOK'
    BY <1>1, <1>4, <1>5, <1>6 DEF TypeOK
  <1> QED
    BY <1>4, <1>6, <1>7 DEF IndInv, ObservationsComeDue, UsageFactsAgree

\* Under the write lock a success drops only what is still due.
LEMMA DropDueFailuresInv ==
    ASSUME IndInv, NEW c \in Caller, DropDueFailures(c)
    PROVE  IndInv'
  <1>1. TypeOK /\ calls[c].op = "drop"
    BY DEF IndInv, DropDueFailures
  <1>2. /\ calls' \in [Caller -> Calls]
        /\ CallsNotAhead' /\ NoDocumentsOfTheGone'
        /\ DocumentsProjected' /\ OneWriter'
    BY <1>1, IdleFacts, CallsStep DEF DropDueFailures, Return, Continue, database
  <1>3. /\ accountFailures' \in [Account -> ObservationsOf(AccountTriggers)]
        /\ modelFailures' \in [Route -> ObservationsOf(ModelTriggers)]
        /\ \A a \in Account :
             \/ accountFailures'[a] = accountFailures[a]
             \/ accountFailures'[a] = NoObservation
        /\ \A r \in Route :
             \/ modelFailures'[r] = modelFailures[r]
             \/ modelFailures'[r] = NoObservation
    BY <1>1, NothingFacts DEF DropDueFailures, TypeOK
  <1>4. UNCHANGED <<now, accounts, static, credential, documents, accountBlocks,
                    modelBlocks, remaining, projected, persistedFailures,
                    cooldowns, unsettled>>
    BY DEF DropDueFailures, database, usageFacts
  <1>5. TypeOK'
    BY <1>1, <1>2, <1>3, <1>4 DEF TypeOK
  <1>6. ObservationsComeDue'
    BY <1>3, <1>4, NothingIsDue DEF IndInv, ObservationsComeDue
  <1> QED
    BY <1>2, <1>4, <1>5, <1>6 DEF IndInv, UsageFactsAgree

-----------------------------------------------------------------------------
(* Management, usage, start-up and time.                                   *)

\* The database gets a new credential and a handler goes on to memory.
LEMMA CommitCredentialInv ==
    ASSUME IndInv, NEW c \in Caller, NEW a \in Account,
           CommitReauthentication(c, a) \/ CommitRotation(c, a)
    PROVE  IndInv'
  <1>1. PICK op \in {"reauth", "forget"} : Begin(c, [op |-> op, account |-> a])
    BY DEF CommitReauthentication, CommitRotation
  <1> DEFINE call == [op |-> op, account |-> a]
  <1>2. call \in Calls /\ call.op = op
    BY DEF Calls, ManagementCalls
  <1>3. calls[c].op # "put" /\ calls' = [calls EXCEPT ![c] = call]
    BY <1>1, IdleFacts DEF Begin
  <1> HIDE DEF call
  <1>4. /\ calls' \in [Caller -> Calls]
        /\ CallsNotAhead' /\ NoDocumentsOfTheGone'
        /\ DocumentsProjected' /\ OneWriter'
    BY <1>1, <1>2, <1>3, CallsStep DEF CommitReauthentication, CommitRotation
  <1>5. credential' \in [Account -> Nat]
    BY DEF IndInv, TypeOK, CommitReauthentication, CommitRotation
  <1>6. UNCHANGED <<now, accounts, static, documents, usageFacts, observations,
                    persistedFailures, cooldowns, unsettled>>
    BY DEF CommitReauthentication, CommitRotation
  <1>7. TypeOK'
    BY <1>4, <1>5, <1>6 DEF IndInv, TypeOK, usageFacts, observations
  <1> QED
    BY <1>4, <1>6, <1>7
       DEF IndInv, ObservationsComeDue, UsageFactsAgree, usageFacts, observations

\* A reauthentication lifts credential blocks and adds none.
LEMMA ClearCredentialBlockInv ==
    ASSUME IndInv, NEW c \in Caller, ClearCredentialBlock(c)
    PROVE  IndInv'
  <1>1. /\ TypeOK
        /\ calls[c].op = "reauth"
        /\ calls[c].account \in Account
    BY CallFacts DEF IndInv, TypeOK, ClearCredentialBlock
  <1> DEFINE a == calls[c].account
  <1>2. /\ calls' \in [Caller -> Calls]
        /\ CallsNotAhead' /\ NoDocumentsOfTheGone'
        /\ DocumentsProjected' /\ OneWriter'
    BY <1>1, IdleFacts, CallsStep
       DEF ClearCredentialBlock, Return, Continue, database
  <1>3. accountBlocks' = accountBlocks
    BY <1>1 DEF ClearCredentialBlock, TypeOK
  <1>4. /\ Lift(accountFailures[a], "credentials") \in ObservationsOf(AccountTriggers)
        /\ Lift(accountFailures[a], "credentials").recheckAt
             <= accountFailures[a].recheckAt
    BY <1>1, LiftFacts DEF TypeOK
  <1>5. accountFailures' =
          [accountFailures EXCEPT ![a] = Lift(accountFailures[a], "credentials")]
    BY DEF ClearCredentialBlock
  <1>6. UNCHANGED <<now, accounts, static, credential, documents, modelBlocks, remaining,
                    projected, modelFailures, persistedFailures, cooldowns,
                    unsettled>>
    BY DEF ClearCredentialBlock, database
  <1>7. TypeOK'
    BY <1>1, <1>2, <1>3, <1>4, <1>5, <1>6 DEF TypeOK
  <1>8. ObservationsComeDue'
    <2>1. accountFailures[a].recheckAt \in Nat /\ now + BlockRecheckInterval \in Nat
      BY <1>1, DurationAssumption DEF TypeOK, ObservationsOf, BlockRecheckInterval
    <2>2. Lift(accountFailures[a], "credentials").recheckAt
            <= now + BlockRecheckInterval
      BY <1>1, <1>4, <2>1 DEF IndInv, ObservationsComeDue, ObservationsOf
    <2> QED
      BY <1>1, <1>5, <1>6, <2>2 DEF IndInv, TypeOK, ObservationsComeDue
  <1> QED
    BY <1>2, <1>3, <1>6, <1>7, <1>8 DEF IndInv, UsageFactsAgree

\* A deletion commits: the documents go, memory follows later.
LEMMA CommitDeletionInv ==
    ASSUME IndInv, NEW c \in Caller, NEW a \in Account, CommitDeletion(c, a)
    PROVE  IndInv'
  <1> DEFINE call == [op |-> "forget", account |-> a]
  <1>1. TypeOK
    BY DEF IndInv
  <1>2. call \in Calls /\ call.op = "forget"
    BY DEF Calls, ManagementCalls
  <1>3. calls[c].op = "idle" /\ calls' = [calls EXCEPT ![c] = call]
    BY IdleFacts DEF CommitDeletion, Begin
  <1> HIDE DEF call
  <1>4. /\ accounts' = accounts \ {a}
        /\ documents' = [documents EXCEPT ![a] = NoDocument]
        /\ UNCHANGED <<now, static, credential, accountBlocks, modelBlocks, remaining,
                       projected, accountFailures, modelFailures,
                       persistedFailures, cooldowns, unsettled>>
    BY DEF CommitDeletion, usageFacts, observations
  <1>5. calls' \in [Caller -> Calls] /\ CallsNotAhead'
    BY <1>1, <1>2, <1>3, <1>4 DEF IndInv, TypeOK, CallsNotAhead
  <1>6. TypeOK'
    BY <1>1, <1>4, <1>5 DEF TypeOK
  <1>7. \A b \in accounts' : b \in accounts /\ documents'[b] = documents[b]
    BY <1>1, <1>4 DEF TypeOK
  <1>8. \A b \in accounts, d \in Caller :
          (calls'[d].op = "put" /\ calls'[d].account = b)
          <=> (calls[d].op = "put" /\ calls[d].account = b)
    BY <1>1, <1>2, <1>3 DEF TypeOK
  <1>9. DocumentsProjected'
    <2> SUFFICES ASSUME NEW b \in accounts' \ unsettled, Quiet(b)'
                 PROVE  persistedFailures[b] = Projection(documents[b])
      BY <1>4, <1>7 DEF DocumentsProjected
    <2>1. b \in accounts /\ Quiet(b)
      BY <1>7, <1>8 DEF Quiet
    <2> QED
      BY <2>1 DEF IndInv, DocumentsProjected
  <1>10. OneWriter'
    <2> SUFFICES ASSUME NEW b \in accounts' \ unsettled, NEW d \in Caller,
                        calls'[d].op = "put", calls'[d].account = b
                 PROVE  /\ calls'[d].document = documents'[b]
                        /\ ~ Writing(d, b)'
      BY <1>4 DEF OneWriter
    <2>1. /\ b \in accounts \ unsettled
          /\ d # c
          /\ calls[d].op = "put" /\ calls[d].account = b
      BY <1>1, <1>2, <1>3, <1>7 DEF TypeOK
    <2>2. calls[d].document = documents[b] /\ ~ Writing(d, b)
      BY <2>1 DEF IndInv, OneWriter
    <2>3. ~ Writing(d, b)'
      BY <1>8, <2>1, <2>2 DEF Writing
    <2> QED
      BY <1>1, <1>3, <1>7, <2>1, <2>2, <2>3 DEF TypeOK
  <1>11. NoDocumentsOfTheGone'
    BY <1>1, <1>4 DEF TypeOK, IndInv, NoDocumentsOfTheGone
  <1> QED
    BY <1>4, <1>5, <1>6, <1>9, <1>10, <1>11
       DEF IndInv, ObservationsComeDue, UsageFactsAgree

\* An account that comes back finds no document in the row; where memory or a
\* write under way still holds one, it is unsettled.
LEMMA RegisterNewInv ==
    ASSUME IndInv, NEW a \in Account, RegisterNew(a)
    PROVE  IndInv'
  <1>1. TypeOK
    BY DEF IndInv
  <1>2. /\ a \in Account \ accounts
        /\ accounts' = accounts \cup {a}
        /\ credential' = [credential EXCEPT ![a] = credential[a] + 1]
        /\ unsettled' = IF Quiet(a) /\ persistedFailures[a] = NoObservation
                        THEN unsettled \ {a}
                        ELSE unsettled \cup {a}
        /\ UNCHANGED <<now, static, documents, accountBlocks, modelBlocks, remaining,
                       projected, accountFailures, modelFailures,
                       persistedFailures, cooldowns, calls>>
    BY DEF RegisterNew, usageFacts, observations
  <1>3. TypeOK'
    BY <1>1, <1>2 DEF TypeOK
  <1>4. \A b \in accounts' \ unsettled' :
          \/ b \in accounts \ unsettled
          \/ b = a /\ Quiet(a) /\ persistedFailures[a] = NoObservation
    BY <1>2
  <1>5. DocumentsProjected'
    <2> SUFFICES ASSUME NEW b \in accounts' \ unsettled', Quiet(b)'
                 PROVE  persistedFailures[b] = Projection(documents[b])
      BY <1>2 DEF DocumentsProjected
    <2>1. CASE b \in accounts \ unsettled
      BY <1>2, <2>1 DEF IndInv, DocumentsProjected, Quiet
    <2>2. CASE b = a /\ persistedFailures[a] = NoObservation
      <3>1. documents[a] = NoDocument
        BY <1>2 DEF IndInv, NoDocumentsOfTheGone
      <3>2. Projection(NoDocument) = NoObservation
        BY ProjectionFacts
      <3> QED
        BY <2>2, <3>1, <3>2
    <2> QED
      BY <1>4, <2>1, <2>2
  <1>6. OneWriter'
    <2> SUFFICES ASSUME NEW b \in accounts' \ unsettled', NEW d \in Caller,
                        calls[d].op = "put", calls[d].account = b
                 PROVE  calls[d].document = documents[b] /\ ~ Writing(d, b)
      BY <1>2 DEF OneWriter, Writing
    <2>1. b \in accounts \ unsettled
      BY <1>4 DEF Quiet
    <2> QED
      BY <2>1 DEF IndInv, OneWriter
  <1>7. CallsNotAhead' /\ NoDocumentsOfTheGone'
    BY <1>2 DEF IndInv, CallsNotAhead, NoDocumentsOfTheGone
  <1> QED
    BY <1>2, <1>3, <1>5, <1>6, <1>7
       DEF IndInv, ObservationsComeDue, UsageFactsAgree

\* Forgetting an account leaves nothing of it in memory.
LEMMA ForgetAccountInv ==
    ASSUME IndInv, NEW c \in Caller, ForgetAccount(c)
    PROVE  IndInv'
  <1> DEFINE a == calls[c].account
             OnRoutes(table, nothing) ==
               [r \in Route |-> IF r.account = a THEN nothing ELSE table[r]]
  <1>1. /\ TypeOK
        /\ calls[c].op = "forget"
        /\ a \in Account
    BY CallFacts DEF IndInv, TypeOK, ForgetAccount
  <1>2. /\ calls' \in [Caller -> Calls]
        /\ CallsNotAhead' /\ NoDocumentsOfTheGone'
        /\ DocumentsProjected' /\ OneWriter'
    BY <1>1, IdleFacts, CallsStep DEF ForgetAccount, Return, Continue, database
  <1>3. /\ accountBlocks' = [accountBlocks EXCEPT ![a] = {}]
        /\ accountFailures' = [accountFailures EXCEPT ![a] = NoObservation]
        /\ remaining' = [remaining EXCEPT ![a] = "unknown"]
        /\ modelBlocks' = OnRoutes(modelBlocks, {})
        /\ modelFailures' = OnRoutes(modelFailures, NoObservation)
        /\ cooldowns' = OnRoutes(cooldowns, ZeroState)
        /\ projected' = [projected EXCEPT ![a] = NoSnapshot]
        /\ UNCHANGED <<now, accounts, static, credential, documents,
                       persistedFailures, unsettled>>
    BY DEF ForgetAccount, database
  <1>4. TypeOK'
    <2>1. NoSnapshot \in Snapshots
      BY DEF NoSnapshot, Snapshots
    <2>2. /\ accountBlocks' \in [Account -> SUBSET {"usage"}]
          /\ remaining' \in [Account -> {"known", "unknown"}]
          /\ projected' \in [Account -> Snapshots]
          /\ modelBlocks' \in [Route -> SUBSET {"usage"}]
      BY <1>1, <1>3, <2>1 DEF TypeOK
    <2>3. /\ accountFailures' \in [Account -> ObservationsOf(AccountTriggers)]
          /\ modelFailures' \in [Route -> ObservationsOf(ModelTriggers)]
          /\ cooldowns' \in [Route -> ModelStates]
      BY <1>1, <1>3, NothingFacts, ZeroFacts DEF TypeOK
    <2> QED
      BY <1>1, <1>2, <1>3, <2>2, <2>3 DEF TypeOK
  <1>5. ObservationsComeDue'
    <2>1. NoObservation.recheckAt <= now + BlockRecheckInterval
      BY NothingIsDue
    <2>2. /\ \A b \in Account : \/ accountFailures'[b] = accountFailures[b]
                                 \/ accountFailures'[b] = NoObservation
          /\ \A r \in Route : \/ modelFailures'[r] = modelFailures[r]
                               \/ modelFailures'[r] = NoObservation
      BY <1>1, <1>3 DEF TypeOK
    <2> QED
      BY <1>3, <2>1, <2>2 DEF IndInv, ObservationsComeDue
  <1>6. UsageFactsAgree'
    <2> SUFFICES ASSUME NEW b \in Account
                 PROVE  /\ accountBlocks'[b] =
                             IF projected'[b].account THEN {"usage"} ELSE {}
                        /\ remaining'[b] = projected'[b].remaining
                        /\ \A r \in Route : r.account = b =>
                             modelBlocks'[r] = IF r.model \in projected'[b].models
                                               THEN {"usage"} ELSE {}
      BY DEF UsageFactsAgree
    <2>1. CASE b = a
      BY <1>1, <1>3, <2>1 DEF TypeOK, NoSnapshot
    <2>2. CASE b # a
      <3>1. /\ accountBlocks'[b] = accountBlocks[b]
            /\ remaining'[b] = remaining[b]
            /\ projected'[b] = projected[b]
            /\ \A r \in Route : r.account = b => modelBlocks'[r] = modelBlocks[r]
        BY <1>1, <1>3, <2>2 DEF TypeOK
      <3> QED
        BY <3>1 DEF IndInv, UsageFactsAgree
    <2> QED
      BY <2>1, <2>2
  <1> QED
    BY <1>2, <1>4, <1>5, <1>6 DEF IndInv

\* A catalog commit changes its own party only.
LEMMA CommitCatalogInv ==
    ASSUME IndInv, NEW c \in Caller, NEW a \in Account,
           NEW models \in SUBSET Model, CommitCatalog(c, a, models)
    PROVE  IndInv'
  <1> DEFINE call == [op |-> "catalog", account |-> a, models |-> models]
  <1>1. call \in Calls /\ call.op = "catalog"
    BY DEF Calls, ManagementCalls
  <1>2. calls[c].op # "put" /\ calls' = [calls EXCEPT ![c] = call]
    BY IdleFacts DEF CommitCatalog, Begin
  <1> HIDE DEF call
  <1> QED
    BY <1>1, <1>2, CallsStep, TablesStep DEF CommitCatalog, database

\* A new catalog lifts the blocks of its models and adds none.
LEMMA ClearModelBlocksInv ==
    ASSUME IndInv, NEW c \in Caller, ClearModelBlocks(c)
    PROVE  IndInv'
  <1>1. /\ TypeOK
        /\ calls[c].op = "catalog"
    BY DEF IndInv, ClearModelBlocks
  <1>2. /\ calls' \in [Caller -> Calls]
        /\ CallsNotAhead' /\ NoDocumentsOfTheGone'
        /\ DocumentsProjected' /\ OneWriter'
    BY <1>1, IdleFacts, CallsStep
       DEF ClearModelBlocks, Return, Continue, database
  <1> DEFINE listed == {r \in Route : /\ r.account = calls[c].account
                                      /\ r.model \in calls[c].models}
  <1>3. /\ modelBlocks' = [r \in Route |->
               IF r \in listed THEN modelBlocks[r] \ {"catalog"} ELSE modelBlocks[r]]
        /\ modelFailures' = [r \in Route |->
               IF r \in listed THEN Lift(modelFailures[r], "catalog")
               ELSE modelFailures[r]]
        /\ UNCHANGED <<now, accounts, static, credential, documents, accountBlocks,
                       remaining, projected, accountFailures,
                       persistedFailures, cooldowns, unsettled>>
    BY DEF ClearModelBlocks, database
  <1> HIDE DEF listed
  <1>4. modelBlocks' = modelBlocks
    BY <1>1, <1>3 DEF TypeOK
  <1>5. \A r \in Route :
          /\ modelFailures[r] \in ObservationsOf(ModelTriggers)
          /\ Lift(modelFailures[r], "catalog") \in ObservationsOf(ModelTriggers)
          /\ Lift(modelFailures[r], "catalog").recheckAt <= modelFailures[r].recheckAt
    BY <1>1, LiftFacts DEF TypeOK
  <1>6. modelFailures' \in [Route -> ObservationsOf(ModelTriggers)]
    BY <1>3, <1>5
  <1>7. TypeOK'
    BY <1>1, <1>2, <1>3, <1>4, <1>6 DEF TypeOK
  <1>8. ObservationsComeDue'
    <2>1. now + BlockRecheckInterval \in Nat
      BY <1>1, DurationAssumption DEF TypeOK, BlockRecheckInterval
    <2>2. ASSUME NEW r \in Route
          PROVE  Lift(modelFailures[r], "catalog").recheckAt
                   <= now + BlockRecheckInterval
      BY <1>5, <2>1 DEF IndInv, ObservationsComeDue, ObservationsOf
    <2> QED
      BY <1>3, <2>2 DEF IndInv, ObservationsComeDue
  <1> QED
    BY <1>2, <1>3, <1>4, <1>7, <1>8 DEF IndInv, UsageFactsAgree

\* A document is stored by the one party that will project it.
LEMMA StoreDocumentInv ==
    ASSUME IndInv, NEW c \in Caller, NEW a \in Account,
           NEW document \in Document \cup {NoDocument},
           StoreDocument(c, a, document)
    PROVE  IndInv'
  <1> DEFINE call == [op |-> "put", account |-> a, document |-> document]
  <1>1. TypeOK /\ document \in Documents \cup {NoDocument}
    BY DocumentAssumption DEF IndInv
  <1>2. /\ call \in Calls
        /\ call.op = "put" /\ call.account = a /\ call.document = document
    BY <1>1 DEF Calls, ManagementCalls
  <1>3. calls[c].op = "idle" /\ calls' = [calls EXCEPT ![c] = call]
    BY IdleFacts DEF StoreDocument, Begin
  <1> HIDE DEF call
  <1>4. /\ documents' = [documents EXCEPT ![a] = document]
        /\ unsettled' = IF Writing(c, a) THEN unsettled \cup {a}
                         ELSE unsettled \ {a}
        /\ UNCHANGED <<now, accounts, static, credential, accountBlocks, modelBlocks,
                       remaining, projected, accountFailures, modelFailures,
                       persistedFailures, cooldowns>>
    BY DEF StoreDocument, usageFacts, observations
  <1>5. calls' \in [Caller -> Calls] /\ CallsNotAhead'
    BY <1>1, <1>2, <1>3, <1>4 DEF IndInv, TypeOK, CallsNotAhead
  <1>6. TypeOK'
    BY <1>1, <1>4, <1>5 DEF TypeOK
  <1>7. \A d \in Caller : calls'[d] = IF d = c THEN call ELSE calls[d]
    BY <1>1, <1>3 DEF TypeOK
  <1>8. \A b \in Account : documents'[b] = IF b = a THEN document ELSE documents[b]
    BY <1>1, <1>4 DEF TypeOK
  <1>9. DocumentsProjected'
    <2> SUFFICES ASSUME NEW b \in accounts \ unsettled', Quiet(b)'
                 PROVE  persistedFailures[b] = Projection(documents'[b])
      BY <1>4 DEF DocumentsProjected
    <2>1. b # a
      BY <1>2, <1>7 DEF Quiet
    <2>2. b \in accounts \ unsettled /\ b \in Account
      BY <1>1, <1>4, <2>1 DEF TypeOK
    <2>3. Quiet(b)
      BY <1>3, <1>7, <2>1 DEF Quiet
    <2> QED
      BY <1>8, <2>1, <2>2, <2>3 DEF IndInv, DocumentsProjected
  <1>10. OneWriter'
    <2> SUFFICES ASSUME NEW b \in accounts \ unsettled', NEW d \in Caller,
                        calls'[d].op = "put", calls'[d].account = b
                 PROVE  /\ calls'[d].document = documents'[b]
                        /\ ~ Writing(d, b)'
      BY <1>4 DEF OneWriter
    <2>1. CASE b = a
      <3>1. ~ Writing(c, a) /\ a \in Account
        BY <1>4, <2>1
      <3>2. d = c
        BY <1>7, <2>1, <3>1 DEF Writing
      <3>3. ~ Writing(c, a)'
        BY <1>7, <3>1 DEF Writing
      <3> QED
        BY <1>2, <1>7, <1>8, <2>1, <3>1, <3>2, <3>3
    <2>2. CASE b # a
      <3>1. /\ d # c
            /\ calls[d].op = "put" /\ calls[d].account = b
            /\ b \in accounts \ unsettled
            /\ b \in Account
        BY <1>1, <1>2, <1>4, <1>7, <2>2 DEF TypeOK
      <3>2. calls[d].document = documents[b] /\ ~ Writing(d, b)
        BY <3>1 DEF IndInv, OneWriter
      <3>3. ~ Writing(d, b)'
        BY <1>2, <1>7, <2>2, <3>2 DEF Writing
      <3> QED
        BY <1>7, <1>8, <2>2, <3>1, <3>2, <3>3
    <2> QED
      BY <2>1, <2>2
  <1>11. NoDocumentsOfTheGone'
    BY <1>4, <1>8 DEF StoreDocument, IndInv, NoDocumentsOfTheGone
  <1> QED
    BY <1>4, <1>5, <1>6, <1>9, <1>10, <1>11
       DEF IndInv, ObservationsComeDue, UsageFactsAgree

\* Projecting a document makes memory agree with it.
LEMMA ProjectDocumentInv ==
    ASSUME IndInv, NEW c \in Caller, ProjectDocument(c)
    PROVE  IndInv'
  <1> DEFINE a == calls[c].account
             document == calls[c].document
  <1>1. /\ TypeOK
        /\ calls[c].op = "put"
        /\ a \in Account
        /\ document \in Documents \cup {NoDocument}
    BY CallFacts DEF IndInv, TypeOK, ProjectDocument
  <1>2. /\ persistedFailures' = [persistedFailures EXCEPT ![a] = Projection(document)]
        /\ calls' = [calls EXCEPT ![c] = Idle]
        /\ UNCHANGED <<now, accounts, static, credential, documents, accountBlocks,
                       modelBlocks, remaining, projected, accountFailures,
                       modelFailures, cooldowns, unsettled>>
    BY DEF ProjectDocument, Return, Continue, database, usageFacts, observations
  <1>3. calls' \in [Caller -> Calls] /\ CallsNotAhead'
    BY <1>1, <1>2, IdleFacts DEF IndInv, TypeOK, CallsNotAhead
  <1>4. TypeOK'
    BY <1>1, <1>2, <1>3, ProjectionFacts DEF TypeOK
  <1>5. \A d \in Caller : calls'[d] = IF d = c THEN Idle ELSE calls[d]
    BY <1>1, <1>2 DEF TypeOK
  <1>6. DocumentsProjected'
    <2> SUFFICES ASSUME NEW b \in accounts \ unsettled, Quiet(b)'
                 PROVE  persistedFailures'[b] = Projection(documents[b])
      BY <1>2 DEF DocumentsProjected
    <2>1. b \in Account
      BY <1>1 DEF TypeOK
    <2>2. CASE b = a
      <3>1. document = documents[a]
        BY <1>1, <2>2 DEF IndInv, OneWriter
      <3> QED
        BY <1>1, <1>2, <2>2, <3>1 DEF TypeOK
    <2>3. CASE b # a
      <3>1. Quiet(b)
        BY <1>5, <2>3 DEF Quiet
      <3> QED
        BY <1>1, <1>2, <2>1, <2>3, <3>1 DEF TypeOK, IndInv, DocumentsProjected
    <2> QED
      BY <2>2, <2>3
  <1>7. OneWriter'
    <2> SUFFICES ASSUME NEW b \in accounts \ unsettled, NEW d \in Caller,
                        calls'[d].op = "put", calls'[d].account = b
                 PROVE  /\ calls'[d].document = documents[b]
                        /\ ~ Writing(d, b)'
      BY <1>2 DEF OneWriter
    <2>1. d # c
      BY <1>5, IdleFacts
    <2>2. calls[d].op = "put" /\ calls[d].account = b
      BY <1>5, <2>1
    <2>3. calls[d].document = documents[b] /\ ~ Writing(d, b)
      BY <2>2 DEF IndInv, OneWriter
    <2>4. ~ Writing(d, b)'
      BY <1>5, <2>3, IdleFacts DEF Writing
    <2> QED
      BY <1>5, <2>1, <2>3, <2>4
  <1> QED
    BY <1>2, <1>3, <1>4, <1>6, <1>7
       DEF IndInv, ObservationsComeDue, UsageFactsAgree, NoDocumentsOfTheGone

\* A usage snapshot replaces the facts of all tables at once.
LEMMA ReplaceUsageProjectionInv ==
    ASSUME IndInv, NEW a \in Account, NEW snapshot \in Snapshot,
           ReplaceUsageProjection(a, snapshot)
    PROVE  IndInv'
  <1>1. TypeOK /\ snapshot \in Snapshots
    BY SnapshotAssumption DEF IndInv
  <1>2. /\ accountBlocks' = [accountBlocks EXCEPT ![a] =
              (accountBlocks[a] \ {"usage"}) \cup
                  (IF snapshot.account THEN {"usage"} ELSE {})]
        /\ accountFailures' = [accountFailures EXCEPT ![a] =
                                 Lift(accountFailures[a], "usage")]
        /\ modelFailures' = [r \in Route |->
              IF r.account = a THEN Lift(modelFailures[r], "usage")
              ELSE modelFailures[r]]
        /\ remaining' = [remaining EXCEPT ![a] = snapshot.remaining]
        /\ modelBlocks' = BlockedRoutes(a, snapshot)
        /\ projected' = [projected EXCEPT ![a] = snapshot]
        /\ UNCHANGED <<now, accounts, static, credential, documents,
                       persistedFailures, cooldowns, calls, unsettled>>
    BY DEF ReplaceUsageProjection, database
  <1>3. \A r \in Route :
          /\ modelFailures[r] \in ObservationsOf(ModelTriggers)
          /\ Lift(modelFailures[r], "usage") \in ObservationsOf(ModelTriggers)
          /\ Lift(modelFailures[r], "usage").recheckAt <= modelFailures[r].recheckAt
    BY <1>1, LiftFacts DEF TypeOK
  <1>4. /\ accountFailures[a] \in ObservationsOf(AccountTriggers)
        /\ Lift(accountFailures[a], "usage") \in ObservationsOf(AccountTriggers)
        /\ Lift(accountFailures[a], "usage").recheckAt <= accountFailures[a].recheckAt
    BY <1>1, LiftFacts DEF TypeOK
  <1>5. /\ accountFailures' \in [Account -> ObservationsOf(AccountTriggers)]
        /\ modelFailures' \in [Route -> ObservationsOf(ModelTriggers)]
    BY <1>1, <1>2, <1>3, <1>4 DEF TypeOK
  <1>6. modelBlocks' \in [Route -> SUBSET {"usage"}]
    BY <1>1, <1>2 DEF TypeOK, BlockedRoutes
  <1>7. TypeOK'
    <2>1. snapshot.remaining \in {"known", "unknown"}
      BY <1>1 DEF Snapshots
    <2>2. accountBlocks' \in [Account -> SUBSET {"usage"}]
      BY <1>1, <1>2 DEF TypeOK
    <2> QED
      BY <1>1, <1>2, <1>5, <1>6, <2>1, <2>2 DEF TypeOK
  <1>8. ObservationsComeDue'
    <2>1. now + BlockRecheckInterval \in Nat
      BY <1>1, DurationAssumption DEF TypeOK, BlockRecheckInterval
    <2>2. ASSUME NEW r \in Route
          PROVE  Lift(modelFailures[r], "usage").recheckAt
                   <= now + BlockRecheckInterval
      BY <1>3, <2>1 DEF IndInv, ObservationsComeDue, ObservationsOf
    <2>3. Lift(accountFailures[a], "usage").recheckAt <= now + BlockRecheckInterval
      BY <1>4, <2>1 DEF IndInv, ObservationsComeDue, ObservationsOf
    <2> QED
      BY <1>1, <1>2, <2>2, <2>3 DEF IndInv, TypeOK, ObservationsComeDue
  <1>9. UsageFactsAgree'
    <2> SUFFICES ASSUME NEW b \in Account
                 PROVE  /\ accountBlocks'[b] =
                             IF projected'[b].account THEN {"usage"} ELSE {}
                        /\ remaining'[b] = projected'[b].remaining
                        /\ \A r \in Route : r.account = b =>
                             modelBlocks'[r] = IF r.model \in projected'[b].models
                                               THEN {"usage"} ELSE {}
      BY DEF UsageFactsAgree
    <2>1. CASE b = a
      <3>1. projected'[b] = snapshot /\ remaining'[b] = snapshot.remaining
        BY <1>1, <1>2, <2>1 DEF TypeOK
      <3>2. accountBlocks'[b] = IF snapshot.account THEN {"usage"} ELSE {}
        BY <1>1, <1>2, <2>1 DEF TypeOK
      <3>3. \A r \in Route : r.account = b =>
              modelBlocks'[r] = IF r.model \in snapshot.models
                                THEN {"usage"} ELSE {}
        BY <1>1, <1>2, <2>1 DEF TypeOK, BlockedRoutes
      <3> QED
        BY <3>1, <3>2, <3>3
    <2>2. CASE b # a
      <3>1. /\ accountBlocks'[b] = accountBlocks[b]
            /\ remaining'[b] = remaining[b]
            /\ projected'[b] = projected[b]
            /\ \A r \in Route : r.account = b => modelBlocks'[r] = modelBlocks[r]
        BY <1>1, <1>2, <2>2 DEF TypeOK, BlockedRoutes
      <3> QED
        BY <3>1 DEF IndInv, UsageFactsAgree
    <2> QED
      BY <2>1, <2>2
  <1> QED
    BY <1>2, <1>7, <1>8, <1>9
       DEF IndInv, CallsNotAhead, NoDocumentsOfTheGone, DocumentsProjected,
           OneWriter, Quiet, Writing

\* Start-up projects every stored document on empty memory.
LEMMA RestartInv == ASSUME IndInv, Restart PROVE IndInv'
  <1>1. TypeOK
    BY DEF IndInv
  <1>2. /\ UNCHANGED <<now, accounts, static, credential, documents>>
        /\ persistedFailures' = [a \in Account |-> Projection(documents[a])]
        /\ calls' = [c \in Caller |-> Idle]
        /\ unsettled' = {}
    BY DEF Restart, Seeded, database
  <1>3. TypeOK'
    <2>1. persistedFailures' \in [Account -> ObservationsOf(AccountTriggers)]
      BY <1>1, <1>2, ProjectionFacts DEF TypeOK
    <2>2. cooldowns' \in [Route -> ModelStates]
      BY <1>1, PruneType DEF Restart, TypeOK
    <2>3. NoSnapshot \in Snapshots
      BY DEF NoSnapshot, Snapshots
    <2> QED
      BY <1>1, <1>2, <2>1, <2>2, <2>3, NothingFacts, IdleFacts DEF Restart, TypeOK
  <1>4. CallsNotAhead' /\ OneWriter'
    BY <1>2, IdleFacts DEF CallsNotAhead, OneWriter
  <1>5. ObservationsComeDue'
    BY <1>2, NothingIsDue DEF Restart, ObservationsComeDue
  <1>6. UsageFactsAgree'
    BY DEF Restart, UsageFactsAgree, NoSnapshot, Route
  <1>7. DocumentsProjected' /\ NoDocumentsOfTheGone'
    BY <1>1, <1>2 DEF TypeOK, IndInv, DocumentsProjected, NoDocumentsOfTheGone
  <1> QED
    BY <1>3, <1>4, <1>5, <1>6, <1>7 DEF IndInv

\* A later clock only brings rechecks closer.
LEMMA TickInv == ASSUME IndInv, Tick PROVE IndInv'
  <1>1. TypeOK /\ now \in Nat \ {0} /\ now' = now + 1
    BY DEF IndInv, TypeOK, Tick
  <1>2. UNCHANGED <<accounts, static, credential, documents, accountBlocks, modelBlocks,
                    remaining, projected, accountFailures, modelFailures,
                    persistedFailures, cooldowns, calls, unsettled>>
    BY DEF Tick, database, usageFacts, observations
  <1>3. TypeOK'
    BY <1>1, <1>2 DEF TypeOK
  <1>4. CallsNotAhead'
    <2> SUFFICES ASSUME NEW c \in Caller,
                        calls[c].op \in {"success", "due", "drop"}
                 PROVE  calls[c].at <= now'
      BY <1>2 DEF CallsNotAhead
    <2>1. calls[c].at \in Nat /\ calls[c].at <= now
      BY <1>1, CallFacts DEF TypeOK, IndInv, CallsNotAhead
    <2> QED
      BY <1>1, <2>1
  <1>5. ObservationsComeDue'
    <2>1. BlockRecheckInterval \in Nat
      BY DurationAssumption DEF BlockRecheckInterval
    <2>2. /\ \A a \in Account : accountFailures[a].recheckAt \in Nat
          /\ \A r \in Route : modelFailures[r].recheckAt \in Nat
      BY <1>1 DEF TypeOK, ObservationsOf
    <2> QED
      BY <1>1, <1>2, <2>1, <2>2 DEF IndInv, ObservationsComeDue
  <1> QED
    BY <1>2, <1>3, <1>4, <1>5
       DEF IndInv, UsageFactsAgree, NoDocumentsOfTheGone, DocumentsProjected,
           OneWriter, Quiet, Writing

\* Every step keeps the invariant.
LEMMA NextInv == IndInv /\ [Next]_vars => IndInv'
  <1> SUFFICES ASSUME IndInv, [Next]_vars PROVE IndInv'
    OBVIOUS
  <1>1. ASSUME NEW c \in Caller, CallStep(c) PROVE IndInv'
    BY <1>1, StartAttemptInv, VerifyFailureInv, VerifySuccessInv,
       RecordFailureInv, RecordSuccessInv, FindDueFailuresInv,
       DropDueFailuresInv DEF CallStep
  <1>2. ASSUME NEW c \in Caller, ManagementStep(c) PROVE IndInv'
    BY <1>2, CommitCredentialInv, ClearCredentialBlockInv, CommitDeletionInv,
       ForgetAccountInv, CommitCatalogInv, ClearModelBlocksInv,
       StoreDocumentInv, ProjectDocumentInv DEF ManagementStep
  <1>3. CASE \E a \in Account, snapshot \in Snapshot :
               ReplaceUsageProjection(a, snapshot)
    BY <1>3, ReplaceUsageProjectionInv
  <1>4. CASE UNCHANGED vars
    BY <1>4 DEF vars, database, usageFacts, observations, IndInv, TypeOK,
                CallsNotAhead, ObservationsComeDue, UsageFactsAgree,
                NoDocumentsOfTheGone, DocumentsProjected, OneWriter,
                Quiet, Writing
  <1> QED
    BY <1>1, <1>2, <1>3, <1>4, RegisterNewInv, RestartInv, TickInv DEF Next

-----------------------------------------------------------------------------
(* The theorems.                                                           *)

\* The tables, the calls in flight and the stored documents are always well
\* formed and in agreement.
THEOREM Invariance == Spec => []IndInv
  <1> QED
    BY InitInv, NextInv, PTL DEF Spec

\* The tables only ever hold facts of accounts and routes, each on a scope
\* that its event can lift.
THEOREM TypeCorrect == Spec => []TypeOK
  <1>1. IndInv => TypeOK
    BY DEF IndInv
  <1> QED
    BY <1>1, Invariance, PTL

\* However many failures pile up, an observed block is rechecked within one
\* interval.
THEOREM ObservationsAreRechecked == Spec => []ObservationsComeDue
  <1>1. IndInv => ObservationsComeDue
    BY DEF IndInv
  <1> QED
    BY <1>1, Invariance, PTL

\* Routing never sees the usage facts of two snapshots of one account.
THEOREM OneSnapshotPerAccount == Spec => []UsageFactsAgree
  <1>1. IndInv => UsageFactsAgree
    BY DEF IndInv
  <1> QED
    BY <1>1, Invariance, PTL

\* Memory holds what the stored document says, across rotations, restarts and
\* imports of deleted accounts, unless two writes of it overlapped or the account
\* came back to a document that memory had not let go of.
THEOREM DocumentsReachMemory == Spec => []DocumentsProjected
  <1>1. IndInv => DocumentsProjected
    BY DEF IndInv
  <1> QED
    BY <1>1, Invariance, PTL

\* A failure that still counts is lifted by its own event, by forgetting the
\* account or by a restart, never by a late success or another party.
THEOREM ObservedAccountBlocksStand == Spec => AccountObservationsStand
  <1> DEFINE Kept(a, trigger) ==
         \/ now' >= accountFailures[a].recheckAt
         \/ /\ trigger \in accountFailures'[a].set
            /\ accountFailures'[a].recheckAt >= accountFailures[a].recheckAt
         \/ /\ trigger = "usage"
            /\ \E s \in Snapshot : ReplaceUsageProjection(a, s)
         \/ \E c \in Caller :
              /\ calls[c] \in ManagementCalls
              /\ calls[c].account = a
              /\ \/ trigger = "credentials" /\ ClearCredentialBlock(c)
                 \/ ForgetAccount(c)
         \/ Restart
  <1>1. ASSUME IndInv, [Next]_vars, NEW a \in Account,
               NEW trigger \in ActiveAt(accountFailures[a], now)
        PROVE  Kept(a, trigger)
    <2>1. /\ TypeOK
          /\ accountFailures[a] \in ObservationsOf(AccountTriggers)
          /\ accountFailures[a].recheckAt \in Nat
          /\ now \in Nat
          /\ now < accountFailures[a].recheckAt
          /\ trigger \in accountFailures[a].set
      BY <1>1 DEF IndInv, TypeOK, ObservationsOf, ActiveAt
    <2>2. ASSUME accountFailures'[a] = accountFailures[a] PROVE Kept(a, trigger)
      BY <2>1, <2>2
    <2>3. ASSUME NEW c \in Caller, RecordFailure(c) PROVE Kept(a, trigger)
      <3> DEFINE r == calls[c].route
                 outcome == calls[c].outcome
                 Seen(o) == Observe(o, RecoveryOf[outcome.kind], now,
                                    now + BlockRecheckInterval)
      <3>1. CASE outcome.scope = "account" /\ r.account = a
        <4>1. outcome \in Outcomes
          BY <2>1, <2>3, CallFacts DEF RecordFailure, TypeOK
        <4>2. RecoveryOf[outcome.kind] \in AccountTriggers
          BY <3>1, <4>1, DirectiveFacts
        <4>3. /\ trigger \in Seen(accountFailures[a]).set
              /\ Seen(accountFailures[a]).recheckAt >= accountFailures[a].recheckAt
          <5>1. now + BlockRecheckInterval \in Nat
            BY <2>1, DurationAssumption DEF BlockRecheckInterval
          <5> HIDE DEF r, outcome
          <5>2. RecoveryOf[outcome.kind] \in AccountTriggers
            BY <4>2
          <5> QED BY <1>1, <2>1, <5>1, <5>2, ObserveFacts
        <4>4. accountFailures'[a] = Seen(accountFailures[a])
          BY <2>1, <2>3, <3>1 DEF RecordFailure, TypeOK
        <4> HIDE DEF Seen
        <4> QED
          BY <4>3, <4>4
      <3>2. CASE ~ (outcome.scope = "account" /\ r.account = a)
        <4>1. accountFailures'[a] = accountFailures[a]
          BY <2>1, <2>3, <3>2 DEF RecordFailure, TypeOK
        <4> QED
          BY <2>2, <4>1
      <3> QED
        BY <3>1, <3>2
    <2>4. ASSUME NEW c \in Caller, DropDueFailures(c) PROVE Kept(a, trigger)
      <3>1. calls[c].at \in Nat /\ calls[c].at <= now
        BY <1>1, <2>1, <2>4, CallFacts
           DEF DropDueFailures, TypeOK, IndInv, CallsNotAhead
      <3>2. ~ Due(accountFailures[a], calls[c].at)
        BY <2>1, <3>1 DEF Due, ActiveAt
      <3>3. accountFailures'[a] = accountFailures[a]
        BY <2>1, <2>4, <3>2 DEF DropDueFailures, DropsOn, TypeOK
      <3> QED
        BY <2>2, <3>3
    <2>5. ASSUME NEW c \in Caller, ClearCredentialBlock(c) PROVE Kept(a, trigger)
      <3>1. calls[c] \in ManagementCalls
        BY <2>1, <2>5, CallFacts DEF ClearCredentialBlock, TypeOK
      <3>2. CASE calls[c].account # a
        <4>1. accountFailures'[a] = accountFailures[a]
          BY <2>1, <2>5, <3>2 DEF ClearCredentialBlock, TypeOK
        <4> QED
          BY <2>2, <4>1
      <3>3. CASE calls[c].account = a /\ trigger # "credentials"
        <4>1. accountFailures'[a] = Lift(accountFailures[a], "credentials")
          BY <2>1, <2>5, <3>3 DEF ClearCredentialBlock, TypeOK
        <4> QED
          BY <2>1, <3>3, <4>1, LiftFacts
      <3> QED
        BY <2>5, <3>1, <3>2, <3>3
    <2>6. ASSUME NEW c \in Caller, ForgetAccount(c) PROVE Kept(a, trigger)
      <3>1. calls[c] \in ManagementCalls
        BY <2>1, <2>6, CallFacts DEF ForgetAccount, TypeOK
      <3>2. CASE calls[c].account # a
        <4>1. accountFailures'[a] = accountFailures[a]
          BY <2>1, <2>6, <3>2 DEF ForgetAccount, TypeOK
        <4> QED
          BY <2>2, <4>1
      <3> QED
        BY <2>6, <3>1, <3>2
    <2>7. ASSUME NEW b \in Account, NEW s \in Snapshot,
                 ReplaceUsageProjection(b, s)
          PROVE  Kept(a, trigger)
      <3>1. CASE b # a
        <4>1. accountFailures'[a] = accountFailures[a]
          BY <2>1, <2>7, <3>1 DEF ReplaceUsageProjection, TypeOK
        <4> QED
          BY <2>2, <4>1
      <3>2. CASE b = a /\ trigger # "usage"
        <4>1. accountFailures'[a] = Lift(accountFailures[a], "usage")
          BY <2>1, <2>7, <3>2 DEF ReplaceUsageProjection, TypeOK
        <4> QED
          BY <2>1, <3>2, <4>1, LiftFacts
      <3> QED
        BY <2>7, <3>1, <3>2
    <2>8. ASSUME NEW c \in Caller, CallStep(c) PROVE Kept(a, trigger)
      <3>1. CASE RecordFailure(c) \/ DropDueFailures(c)
        BY <2>3, <2>4, <3>1
      <3>2. CASE ~ (RecordFailure(c) \/ DropDueFailures(c))
        <4>1. accountFailures' = accountFailures
          BY <2>8, <3>2
             DEF CallStep, StartAttempt, VerifyFailure, VerifySuccess,
                 RecordSuccess, FindDueFailures, observations
        <4> QED
          BY <2>2, <4>1
      <3> QED
        BY <3>1, <3>2
    <2>9. ASSUME NEW c \in Caller, ManagementStep(c) PROVE Kept(a, trigger)
      <3>1. CASE ClearCredentialBlock(c) \/ ForgetAccount(c)
        BY <2>5, <2>6, <3>1
      <3>2. CASE ~ (ClearCredentialBlock(c) \/ ForgetAccount(c))
        <4>1. accountFailures' = accountFailures
          BY <2>9, <3>2
             DEF ManagementStep, CommitReauthentication, CommitRotation,
                 CommitDeletion, CommitCatalog, ClearModelBlocks,
                 StoreDocument, ProjectDocument, observations
        <4> QED
          BY <2>2, <4>1
      <3> QED
        BY <3>1, <3>2
    <2>10. CASE (\E b \in Account : RegisterNew(b)) \/ Tick \/ UNCHANGED vars
      <3>1. accountFailures' = accountFailures
        BY <2>10 DEF RegisterNew, Tick, vars, observations
      <3> QED
        BY <2>2, <3>1
    <2>11. CASE Restart
      BY <2>11
    <2> HIDE DEF Kept
    <2> QED
      BY <1>1, <2>7, <2>8, <2>9, <2>10, <2>11 DEF Next
  <1>2. IndInv /\ [Next]_vars =>
          [\A a \in Account :
             \A trigger \in ActiveAt(accountFailures[a], now) : Kept(a, trigger)]_vars
    BY <1>1
  <1> QED
    BY <1>2, Invariance, PTL DEF AccountObservationsStand, Spec

\* The same for a route: the catalog that lists its model lifts that trigger, and
\* the snapshot, forgetting the account or a restart the others.
THEOREM ObservedModelBlocksStand == Spec => ModelObservationsStand
  <1> DEFINE Kept(r, trigger) ==
         \/ now' >= modelFailures[r].recheckAt
         \/ /\ trigger \in modelFailures'[r].set
            /\ modelFailures'[r].recheckAt >= modelFailures[r].recheckAt
         \/ /\ trigger = "usage"
            /\ \E s \in Snapshot : ReplaceUsageProjection(r.account, s)
         \/ \E c \in Caller :
              /\ calls[c] \in ManagementCalls
              /\ calls[c].account = r.account
              /\ \/ /\ trigger = "catalog"
                    /\ ClearModelBlocks(c)
                    /\ r.model \in calls[c].models
                 \/ ForgetAccount(c)
         \/ Restart
  <1>1. ASSUME IndInv, [Next]_vars, NEW r \in Route,
               NEW trigger \in ActiveAt(modelFailures[r], now)
        PROVE  Kept(r, trigger)
    <2>1. /\ TypeOK
          /\ modelFailures[r] \in ObservationsOf(ModelTriggers)
          /\ modelFailures[r].recheckAt \in Nat
          /\ now \in Nat
          /\ now < modelFailures[r].recheckAt
          /\ trigger \in modelFailures[r].set
      BY <1>1 DEF IndInv, TypeOK, ObservationsOf, ActiveAt
    <2>2. ASSUME modelFailures'[r] = modelFailures[r] PROVE Kept(r, trigger)
      BY <2>1, <2>2
    <2>3. ASSUME NEW c \in Caller, RecordFailure(c) PROVE Kept(r, trigger)
      <3> DEFINE outcome == calls[c].outcome
                 Seen(o) == Observe(o, RecoveryOf[outcome.kind], now,
                                    now + BlockRecheckInterval)
      <3>1. CASE outcome.scope = "model" /\ calls[c].route = r
        <4>1. outcome \in Outcomes
          BY <2>1, <2>3, CallFacts DEF RecordFailure, TypeOK
        <4>2. RecoveryOf[outcome.kind] \in ModelTriggers
          BY <3>1, <4>1, DirectiveFacts
        <4>3. /\ trigger \in Seen(modelFailures[r]).set
              /\ Seen(modelFailures[r]).recheckAt >= modelFailures[r].recheckAt
          <5>1. now + BlockRecheckInterval \in Nat
            BY <2>1, DurationAssumption DEF BlockRecheckInterval
          <5> HIDE DEF outcome
          <5>2. RecoveryOf[outcome.kind] \in ModelTriggers
            BY <4>2
          <5> QED BY <1>1, <2>1, <5>1, <5>2, ObserveFacts
        <4>4. modelFailures'[r] = Seen(modelFailures[r])
          BY <2>1, <2>3, <3>1 DEF RecordFailure, TypeOK
        <4> HIDE DEF Seen
        <4> QED
          BY <4>3, <4>4
      <3>2. CASE ~ (outcome.scope = "model" /\ calls[c].route = r)
        <4>1. modelFailures'[r] = modelFailures[r]
          BY <2>1, <2>3, <3>2 DEF RecordFailure, TypeOK
        <4> QED
          BY <2>2, <4>1
      <3> QED
        BY <3>1, <3>2
    <2>4. ASSUME NEW c \in Caller, DropDueFailures(c) PROVE Kept(r, trigger)
      <3>1. calls[c].at \in Nat /\ calls[c].at <= now
        BY <1>1, <2>1, <2>4, CallFacts
           DEF DropDueFailures, TypeOK, IndInv, CallsNotAhead
      <3>2. ~ Due(modelFailures[r], calls[c].at)
        BY <2>1, <3>1 DEF Due, ActiveAt
      <3>3. modelFailures'[r] = modelFailures[r]
        BY <2>1, <2>4, <3>2 DEF DropDueFailures, DropsOn, TypeOK
      <3> QED
        BY <2>2, <3>3
    <2>5. ASSUME NEW c \in Caller, ClearModelBlocks(c) PROVE Kept(r, trigger)
      <3>1. calls[c] \in ManagementCalls
        BY <2>1, <2>5, CallFacts DEF ClearModelBlocks, TypeOK
      <3>2. CASE ~ (r.account = calls[c].account /\ r.model \in calls[c].models)
        <4>1. modelFailures'[r] = modelFailures[r]
          BY <2>5, <3>2 DEF ClearModelBlocks
        <4> QED
          BY <2>2, <4>1
      <3>3. CASE /\ r.account = calls[c].account /\ r.model \in calls[c].models
                 /\ trigger # "catalog"
        <4>1. modelFailures'[r] = Lift(modelFailures[r], "catalog")
          BY <2>5, <3>3 DEF ClearModelBlocks
        <4> QED
          BY <2>1, <3>3, <4>1, LiftFacts
      <3> QED
        BY <2>5, <3>1, <3>2, <3>3
    <2>6. ASSUME NEW c \in Caller, ForgetAccount(c) PROVE Kept(r, trigger)
      <3>1. calls[c] \in ManagementCalls
        BY <2>1, <2>6, CallFacts DEF ForgetAccount, TypeOK
      <3>2. CASE calls[c].account # r.account
        <4>1. modelFailures'[r] = modelFailures[r]
          BY <2>6, <3>2 DEF ForgetAccount
        <4> QED
          BY <2>2, <4>1
      <3> QED
        BY <2>6, <3>1, <3>2
    <2>7. ASSUME NEW a \in Account, NEW s \in Snapshot,
                 ReplaceUsageProjection(a, s)
          PROVE  Kept(r, trigger)
      <3>1. CASE r.account # a
        <4>1. modelFailures'[r] = modelFailures[r]
          BY <2>7, <3>1 DEF ReplaceUsageProjection
        <4> QED
          BY <2>2, <4>1
      <3>2. CASE r.account = a /\ trigger # "usage"
        <4>1. modelFailures'[r] = Lift(modelFailures[r], "usage")
          BY <2>7, <3>2 DEF ReplaceUsageProjection
        <4> QED
          BY <2>1, <3>2, <4>1, LiftFacts
      <3> QED
        BY <2>7, <3>1, <3>2
    <2>8. ASSUME NEW c \in Caller, CallStep(c) PROVE Kept(r, trigger)
      <3>1. CASE RecordFailure(c) \/ DropDueFailures(c)
        BY <2>3, <2>4, <3>1
      <3>2. CASE ~ (RecordFailure(c) \/ DropDueFailures(c))
        <4>1. modelFailures' = modelFailures
          BY <2>8, <3>2
             DEF CallStep, StartAttempt, VerifyFailure, VerifySuccess,
                 RecordSuccess, FindDueFailures, observations
        <4> QED
          BY <2>2, <4>1
      <3> QED
        BY <3>1, <3>2
    <2>9. ASSUME NEW c \in Caller, ManagementStep(c) PROVE Kept(r, trigger)
      <3>1. CASE ClearModelBlocks(c) \/ ForgetAccount(c)
        BY <2>5, <2>6, <3>1
      <3>2. CASE ~ (ClearModelBlocks(c) \/ ForgetAccount(c))
        <4>1. modelFailures' = modelFailures
          BY <2>9, <3>2
             DEF ManagementStep, CommitReauthentication, ClearCredentialBlock,
                 CommitRotation, CommitDeletion, CommitCatalog,
                 StoreDocument, ProjectDocument, observations
        <4> QED
          BY <2>2, <4>1
      <3> QED
        BY <3>1, <3>2
    <2>10. CASE (\E b \in Account : RegisterNew(b)) \/ Tick \/ UNCHANGED vars
      <3>1. modelFailures' = modelFailures
        BY <2>10 DEF RegisterNew, Tick, vars, observations
      <3> QED
        BY <2>2, <3>1
    <2>11. CASE Restart
      BY <2>11
    <2> HIDE DEF Kept
    <2> QED
      BY <1>1, <2>7, <2>8, <2>9, <2>10, <2>11 DEF Next
  <1>2. IndInv /\ [Next]_vars =>
          [\A r \in Route :
             \A trigger \in ActiveAt(modelFailures[r], now) : Kept(r, trigger)]_vars
    BY <1>1
  <1> QED
    BY <1>2, Invariance, PTL DEF ModelObservationsStand, Spec

=============================================================================
