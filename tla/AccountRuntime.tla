---------------------------- MODULE AccountRuntime ----------------------------
(***************************************************************************)
(* The routing state of the accounts in one process:                       *)
(* internal/adapters/accountruntime/inmemory, written by four parties that *)
(* know nothing of each other:                                             *)
(*   - calls to the upstream, through the credential guard of              *)
(*     application/inferencegateway/observed_failure_recorder.go;          *)
(*   - the management API: state documents (accountsapi), new credentials  *)
(*     and model catalogs (accountrecovery), rotation and deletion;        *)
(*   - usage snapshots, as one atomic projection;                          *)
(*   - start-up, which projects the stored documents again.                *)
(*                                                                         *)
(* Each party first changes the database and then, in another step, this   *)
(* memory; the clock and the other parties run in between.                 *)
(***************************************************************************)
EXTENDS HardBlocks, FiniteSets

CONSTANTS
    Account,
    Model,
    Caller,       \* goroutines: calls to the upstream and API handlers
    Outcome,      \* failures a call may end with: [kind, scope, retryAfter]
    Document,     \* state documents a client may store: [kind, until]
    Snapshot,     \* usage snapshots: [account, models, remaining]
    Horizon,      \* bound of the model: the clock stops here
    MaxCredential \* bound of the model: generations of a credential

Outcomes ==
    {o \in [kind : FailureKinds, scope : {"account", "model", "none"},
            retryAfter : 0 .. MaxCooldownHint] :
        IF o.kind \in BlockingKinds
        THEN [kind |-> o.kind, scope |-> o.scope] \in Directives
        ELSE o.scope = "none"}

\* No account-wide usage block, no blocked model, no weight.
NoSnapshot == [account |-> FALSE, models |-> {}, remaining |-> "unknown"]
Snapshots == [account : BOOLEAN, models : SUBSET Model, remaining : {"known", "unknown"}]

NoDocument == [kind |-> NoKind, until |-> NoTime]

\* The failures a document may name (nodeFailureKinds, DeriveBlock).
DocumentKinds ==
    CredentialKinds \cup QuotaKinds \cup (PolicyKinds \ {"model_unsupported"})
    \cup ThrottleKinds \cup {"upstream_unavailable", "connection_reset"}

Documents == [kind : DocumentKinds, until : Nat]

ASSUME OutcomeAssumption == Outcome \subseteq Outcomes
ASSUME DocumentAssumption == Document \subseteq Documents
ASSUME SnapshotAssumption == Snapshot \subseteq Snapshots
ASSUME BoundAssumption == Horizon \in Nat /\ MaxCredential \in Nat

VARIABLES
    now,
    accounts,           \* database: accounts that exist
    static,             \* database: accounts whose credential is a static secret
    credential,         \* database: generation of each credential
    documents,          \* database: state document of each account
    accountBlocks,      \* memory: truth-source blocks, no expiry
    modelBlocks,
    accountFailures,    \* memory: observed failures, due at some time
    modelFailures,
    persistedFailures,  \* memory: projected documents
    remaining,          \* memory: what is left, for the routing weight
    cooldowns,          \* memory: route cooldowns
    calls,              \* what each caller is in the middle of
    projected,          \* history: snapshot the usage facts come from
    unsettled           \* history: accounts whose projected document may be
                        \* another than the stored one

database == <<accounts, static, credential, documents>>
usageFacts == <<accountBlocks, modelBlocks, remaining, projected>>
observations == <<accountFailures, modelFailures>>
vars == <<now, database, usageFacts, observations, persistedFailures,
          cooldowns, calls, unsettled>>

Route == [account : Account, model : Model]

Idle == [op |-> "idle"]
RouteCalls ==
    [op : {"attempt"}, route : Route, generation : Nat]
    \cup [op : {"failure"}, route : Route, generation : Nat, outcome : Outcomes]
    \cup [op : {"success", "due"}, route : Route, at : Nat]
    \cup [op : {"drop"}, route : Route, at : Nat,
          account : BOOLEAN, model : BOOLEAN]
ManagementCalls ==
    [op : {"reauth", "forget"}, account : Account]
    \cup [op : {"catalog"}, account : Account, models : SUBSET Model]
    \cup [op : {"put"}, account : Account,
          document : Documents \cup {NoDocument}]
Calls == {Idle} \cup RouteCalls \cup ManagementCalls

TypeOK ==
    /\ now \in Nat \ {0}
    /\ accounts \subseteq Account
    /\ static \subseteq Account
    /\ credential \in [Account -> Nat]
    /\ documents \in [Account -> Documents \cup {NoDocument}]
    /\ accountBlocks \in [Account -> SUBSET {"usage"}]
    /\ modelBlocks \in [Route -> SUBSET {"usage"}]
    /\ accountFailures \in [Account -> ObservationsOf(AccountTriggers)]
    /\ modelFailures \in [Route -> ObservationsOf(ModelTriggers)]
    /\ persistedFailures \in [Account -> ObservationsOf(AccountTriggers)]
    /\ remaining \in [Account -> {"known", "unknown"}]
    /\ cooldowns \in [Route -> ModelStates]
    /\ calls \in [Caller -> Calls]
    /\ projected \in [Account -> Snapshots]
    /\ unsettled \subseteq Account

-----------------------------------------------------------------------------
\* The observation a document stands for (ApplyAccountState): a document
\* whose kind does not block routing on the account scope stands for none.
Projection(document) ==
    IF [kind |-> document.kind, scope |-> "account"] \in Directives
    THEN [set |-> {RecoveryOf[document.kind]}, recheckAt |-> document.until]
    ELSE NoObservation

Init ==
    /\ now = 1
    /\ accounts = Account
    /\ static \in SUBSET Account
    /\ credential = [a \in Account |-> 0]
    /\ documents = [a \in Account |-> NoDocument]
    /\ accountBlocks = [a \in Account |-> {}]
    /\ modelBlocks = [r \in Route |-> {}]
    /\ accountFailures = [a \in Account |-> NoObservation]
    /\ modelFailures = [r \in Route |-> NoObservation]
    /\ persistedFailures = [a \in Account |-> NoObservation]
    /\ remaining = [a \in Account |-> "unknown"]
    /\ cooldowns = [r \in Route |-> ZeroState]
    /\ calls = [c \in Caller |-> Idle]
    /\ projected = [a \in Account |-> NoSnapshot]
    /\ unsettled = {}

\* No write of this account's document is under way.
Quiet(a) ==
    \A c \in Caller : ~ (calls[c].op = "put" /\ calls[c].account = a)

\* Another write of this account's document is under way.
Writing(c, a) ==
    \E d \in Caller \ {c} : calls[d].op = "put" /\ calls[d].account = a

Begin(c, call) ==
    /\ calls[c] = Idle
    /\ calls' = [calls EXCEPT ![c] = call]
Continue(c, call) == calls' = [calls EXCEPT ![c] = call]
Return(c) == Continue(c, Idle)

-----------------------------------------------------------------------------
(* Calls to the upstream.                                                  *)

\* A request resolved the account's credential and calls the upstream.
StartAttempt(c) ==
    /\ \E r \in Route :
         /\ r.account \in accounts
         /\ Begin(c, [op |-> "attempt", route |-> r,
                      generation |-> credential[r.account]])
    /\ UNCHANGED <<now, database, usageFacts, observations,
                   persistedFailures, cooldowns, unsettled>>

\* IsCurrentCredentialObservation: the credential the request read is still
\* the account's.
Current(c) ==
    /\ calls[c].route.account \in accounts
    /\ calls[c].generation = credential[calls[c].route.account]

\* forStaticSecret: a static secret has no refresh, its rejection only cools.
Disposition(account, outcome) ==
    IF account \in static /\ outcome.kind = "credential_rejected"
    THEN [kind |-> "static_credential_rejected", scope |-> "none", retryAfter |-> 0]
    ELSE outcome

\* The call ended.  The guard reads the database; when the credential is not
\* current, or cannot be verified, nothing is written.
VerifyFailure(c) ==
    /\ calls[c].op = "attempt"
    /\ \/ /\ Current(c)
          /\ \E o \in Outcome :
               Continue(c, [op |-> "failure", route |-> calls[c].route,
                            generation |-> calls[c].generation,
                            outcome |-> Disposition(calls[c].route.account, o)])
       \/ Return(c)
    /\ UNCHANGED <<now, database, usageFacts, observations,
                   persistedFailures, cooldowns, unsettled>>

VerifySuccess(c) ==
    /\ calls[c].op = "attempt"
    /\ Current(c)
    /\ Continue(c, [op |-> "success", route |-> calls[c].route, at |-> now])
    /\ UNCHANGED <<now, database, usageFacts, observations,
                   persistedFailures, cooldowns, unsettled>>

\* RecordFailure: the cooldown index first (a blocking failure clears the
\* streak there), then the observation on the scope of the directive.
RecordFailure(c) ==
    /\ calls[c].op = "failure"
    /\ LET r == calls[c].route
           outcome == calls[c].outcome
           failure == [kind |-> outcome.kind, occurredAt |-> now,
                       retryAfter |-> outcome.retryAfter]
           Seen(observation) == Observe(observation, RecoveryOf[outcome.kind],
                                        now, now + BlockRecheckInterval)
       IN  /\ cooldowns' = [cooldowns EXCEPT ![r] = Apply(@, failure)]
           /\ accountFailures' =
                IF outcome.scope = "account"
                THEN [accountFailures EXCEPT ![r.account] = Seen(@)]
                ELSE accountFailures
           /\ modelFailures' =
                IF outcome.scope = "model"
                THEN [modelFailures EXCEPT ![r] = Seen(@)]
                ELSE modelFailures
    /\ Return(c)
    /\ UNCHANGED <<now, database, usageFacts, persistedFailures, unsettled>>

\* RecordSuccess clears the route's cooldown, reads the clock...
RecordSuccess(c) ==
    /\ calls[c].op = "success"
    /\ cooldowns' = [cooldowns EXCEPT ![calls[c].route] = Succeed(@, calls[c].at)]
    /\ Continue(c, [op |-> "due", route |-> calls[c].route, at |-> now])
    /\ UNCHANGED <<now, database, usageFacts, observations,
                   persistedFailures, unsettled>>

\* ... looks for observations that are due at that time under the read lock
\* (forgetDueFailures)...
Due(observation, t) == observation.set # {} /\ ActiveAt(observation, t) = {}

FindDueFailures(c) ==
    /\ calls[c].op = "due"
    /\ LET r == calls[c].route
           account == Due(accountFailures[r.account], calls[c].at)
           model == Due(modelFailures[r], calls[c].at)
       IN  IF account \/ model
           THEN Continue(c, [op |-> "drop", route |-> r, at |-> calls[c].at,
                             account |-> account, model |-> model])
           ELSE Return(c)
    /\ UNCHANGED <<now, database, usageFacts, observations,
                   persistedFailures, cooldowns, unsettled>>

\* Mutant of DropsOn: what looked due under the read lock goes.
DropsOnSight(found, observation, t) == found

\* ... and decides again under the write lock what is still due.
DropsOn(found, observation, t) == Due(observation, t)

DropDueFailures(c) ==
    /\ calls[c].op = "drop"
    /\ LET r == calls[c].route
           t == calls[c].at
       IN  /\ accountFailures' =
                [accountFailures EXCEPT ![r.account] =
                    IF DropsOn(calls[c].account, @, t) THEN NoObservation ELSE @]
           /\ modelFailures' =
                [modelFailures EXCEPT ![r] =
                    IF DropsOn(calls[c].model, @, t) THEN NoObservation ELSE @]
    /\ Return(c)
    /\ UNCHANGED <<now, database, usageFacts, persistedFailures, cooldowns,
                   unsettled>>

-----------------------------------------------------------------------------
(* Management.                                                             *)

\* Reauthentication replaced the OAuth credential in the database.
CommitReauthentication(c, a) ==
    /\ a \in accounts \ static
    /\ credential[a] < MaxCredential
    /\ credential' = [credential EXCEPT ![a] = @ + 1]
    /\ Begin(c, [op |-> "reauth", account |-> a])
    /\ UNCHANGED <<now, accounts, static, documents, usageFacts, observations,
                   persistedFailures, cooldowns, unsettled>>

\* ClearAccountBlock(RecoveryCredentialsUpdated).
ClearCredentialBlock(c) ==
    /\ calls[c].op = "reauth"
    /\ LET a == calls[c].account
       IN  /\ accountBlocks' = [accountBlocks EXCEPT ![a] = @ \ {"credentials"}]
           /\ accountFailures' =
                [accountFailures EXCEPT ![a] = Lift(@, "credentials")]
    /\ Return(c)
    /\ UNCHANGED <<now, database, modelBlocks, remaining, projected,
                   modelFailures, persistedFailures, cooldowns, unsettled>>

\* A static credential was rotated in the database.
CommitRotation(c, a) ==
    /\ a \in accounts \cap static
    /\ credential[a] < MaxCredential
    /\ credential' = [credential EXCEPT ![a] = @ + 1]
    /\ Begin(c, [op |-> "forget", account |-> a])
    /\ UNCHANGED <<now, accounts, static, documents, usageFacts, observations,
                   persistedFailures, cooldowns, unsettled>>

\* The account is deleted; its document goes with it (foreign key cascade).
CommitDeletion(c, a) ==
    /\ a \in accounts
    /\ accounts' = accounts \ {a}
    /\ documents' = [documents EXCEPT ![a] = NoDocument]
    /\ Begin(c, [op |-> "forget", account |-> a])
    /\ UNCHANGED <<now, static, credential, usageFacts, observations,
                   persistedFailures, cooldowns, unsettled>>

\* The account is imported again: its reference is derived from the
\* credential.  The row has no document, and memory keeps what it still has.
RegisterNew(a) ==
    /\ a \in Account \ accounts
    /\ credential[a] < MaxCredential
    /\ accounts' = accounts \cup {a}
    /\ credential' = [credential EXCEPT ![a] = @ + 1]
    /\ unsettled' = IF Quiet(a) /\ persistedFailures[a] = NoObservation
                    THEN unsettled \ {a}
                    ELSE unsettled \cup {a}
    /\ UNCHANGED <<now, static, documents, usageFacts, observations,
                   persistedFailures, cooldowns, calls>>

\* ForgetAccount clears every table but the projected documents.
ForgetAccount(c) ==
    /\ calls[c].op = "forget"
    /\ LET a == calls[c].account
           OnRoutes(table, nothing) ==
               [r \in Route |-> IF r.account = a THEN nothing ELSE table[r]]
       IN  /\ accountBlocks' = [accountBlocks EXCEPT ![a] = {}]
           /\ accountFailures' = [accountFailures EXCEPT ![a] = NoObservation]
           /\ remaining' = [remaining EXCEPT ![a] = "unknown"]
           /\ modelBlocks' = OnRoutes(modelBlocks, {})
           /\ modelFailures' = OnRoutes(modelFailures, NoObservation)
           /\ cooldowns' = OnRoutes(cooldowns, ZeroState)
           /\ projected' = [projected EXCEPT ![a] = NoSnapshot]
    /\ Return(c)
    /\ UNCHANGED <<now, database, persistedFailures, unsettled>>

\* A new model catalog, or a manual policy, was stored; these models are in it.
CommitCatalog(c, a, models) ==
    /\ a \in accounts
    /\ models # {}
    /\ Begin(c, [op |-> "catalog", account |-> a, models |-> models])
    /\ UNCHANGED <<now, database, usageFacts, observations,
                   persistedFailures, cooldowns, unsettled>>

\* ClearModelBlocks(RecoveryModelCatalog).
ClearModelBlocks(c) ==
    /\ calls[c].op = "catalog"
    /\ LET listed == {r \in Route : /\ r.account = calls[c].account
                                    /\ r.model \in calls[c].models}
       IN  /\ modelBlocks' = [r \in Route |->
                  IF r \in listed THEN modelBlocks[r] \ {"catalog"}
                  ELSE modelBlocks[r]]
           /\ modelFailures' = [r \in Route |->
                  IF r \in listed THEN Lift(modelFailures[r], "catalog")
                  ELSE modelFailures[r]]
    /\ Return(c)
    /\ UNCHANGED <<now, database, accountBlocks, remaining, projected,
                   accountFailures, persistedFailures, cooldowns, unsettled>>

\* PUT of a state document (NoDocument: null, a deletion, which also succeeds
\* when there is no such account): store it...
StoreDocument(c, a, document) ==
    /\ a \in accounts \/ document = NoDocument
    /\ documents' = [documents EXCEPT ![a] = document]
    /\ Begin(c, [op |-> "put", account |-> a, document |-> document])
    /\ unsettled' = IF Writing(c, a) THEN unsettled \cup {a}
                    ELSE unsettled \ {a}
    /\ UNCHANGED <<now, accounts, static, credential, usageFacts, observations,
                   persistedFailures, cooldowns>>

\* ... then project the document this handler wrote (syncRuntimeEligibility).
ProjectDocument(c) ==
    /\ calls[c].op = "put"
    /\ persistedFailures' = [persistedFailures EXCEPT ![calls[c].account] =
                                Projection(calls[c].document)]
    /\ Return(c)
    /\ UNCHANGED <<now, database, usageFacts, observations, cooldowns, unsettled>>

-----------------------------------------------------------------------------
(* Usage, start-up and time.                                               *)

\* Mutant of BlockedRoutes: a model once blocked by a snapshot stays blocked.
BlockedRoutesSoFar(a, snapshot) ==
    [r \in Route |->
        IF r.account # a THEN modelBlocks[r]
        ELSE modelBlocks[r] \cup
                (IF r.model \in snapshot.models THEN {"usage"} ELSE {})]

\* The models the snapshot blocks, and only those.
BlockedRoutes(a, snapshot) ==
    [r \in Route |->
        IF r.account # a THEN modelBlocks[r]
        ELSE (modelBlocks[r] \ {"usage"}) \cup
                (IF r.model \in snapshot.models THEN {"usage"} ELSE {})]

\* ReplaceUsageProjection: one snapshot replaces every usage fact of the
\* account and lifts the usage failures observed before it.
ReplaceUsageProjection(a, snapshot) ==
    /\ accountBlocks' = [accountBlocks EXCEPT ![a] =
            (@ \ {"usage"}) \cup (IF snapshot.account THEN {"usage"} ELSE {})]
    /\ accountFailures' = [accountFailures EXCEPT ![a] = Lift(@, "usage")]
    /\ modelFailures' = [r \in Route |->
            IF r.account = a THEN Lift(modelFailures[r], "usage")
            ELSE modelFailures[r]]
    /\ remaining' = [remaining EXCEPT ![a] = snapshot.remaining]
    /\ modelBlocks' = BlockedRoutes(a, snapshot)
    /\ projected' = [projected EXCEPT ![a] = snapshot]
    /\ UNCHANGED <<now, database, persistedFailures, cooldowns, calls, unsettled>>

\* Mutant of Seeded: start-up waits for the next write of a document.
SeededLater == [a \in Account |-> NoObservation]

\* The documents start-up finds are projected before the first request.
Seeded == [a \in Account |-> Projection(documents[a])]

\* The process stops between any two steps; cooldowns come back from their
\* own rows (CooldownRegistry), everything else is gone.
Restart ==
    /\ accountBlocks' = [a \in Account |-> {}]
    /\ modelBlocks' = [r \in Route |-> {}]
    /\ accountFailures' = [a \in Account |-> NoObservation]
    /\ modelFailures' = [r \in Route |-> NoObservation]
    /\ persistedFailures' = Seeded
    /\ remaining' = [a \in Account |-> "unknown"]
    /\ cooldowns' = [r \in Route |-> Prune(cooldowns[r], now)]
    /\ calls' = [c \in Caller |-> Idle]
    /\ projected' = [a \in Account |-> NoSnapshot]
    /\ unsettled' = {}
    /\ UNCHANGED <<now, database>>

Tick ==
    /\ now < Horizon
    /\ now' = now + 1
    /\ UNCHANGED <<database, usageFacts, observations, persistedFailures,
                   cooldowns, calls, unsettled>>

CallStep(c) ==
    \/ StartAttempt(c)
    \/ VerifyFailure(c)
    \/ VerifySuccess(c)
    \/ RecordFailure(c)
    \/ RecordSuccess(c)
    \/ FindDueFailures(c)
    \/ DropDueFailures(c)

ManagementStep(c) ==
    \/ \E a \in Account : CommitReauthentication(c, a)
    \/ ClearCredentialBlock(c)
    \/ \E a \in Account : CommitRotation(c, a)
    \/ \E a \in Account : CommitDeletion(c, a)
    \/ ForgetAccount(c)
    \/ \E a \in Account, models \in SUBSET Model : CommitCatalog(c, a, models)
    \/ ClearModelBlocks(c)
    \/ \E a \in Account, document \in Document \cup {NoDocument} :
         StoreDocument(c, a, document)
    \/ ProjectDocument(c)

Next ==
    \/ \E c \in Caller : CallStep(c) \/ ManagementStep(c)
    \/ \E a \in Account : RegisterNew(a)
    \/ \E a \in Account, snapshot \in Snapshot : ReplaceUsageProjection(a, snapshot)
    \/ Restart
    \/ Tick

Spec == Init /\ [][Next]_vars

-----------------------------------------------------------------------------
(* Properties.                                                             *)

\* An observed block counts until it is due: whoever else writes in between,
\* only the event it waits for, forgetting the account or a restart lifts it.
\* A success of a call that was already under way does not, even when the
\* block appears between its two looks at the table (forgetDueFailures).
AccountObservationsStand ==
    [][\A a \in Account : \A trigger \in ActiveAt(accountFailures[a], now) :
         \/ now' >= accountFailures[a].recheckAt
         \/ /\ trigger \in accountFailures'[a].set
            /\ accountFailures'[a].recheckAt >= accountFailures[a].recheckAt
         \/ /\ trigger = "usage"
            /\ \E s \in Snapshot : ReplaceUsageProjection(a, s)
         \/ \E c \in Caller :
              /\ calls[c] \in ManagementCalls
              /\ calls[c].account = a
              /\ \/ trigger = "credentials" /\ ClearCredentialBlock(c)
                 \/ ForgetAccount(c)
         \/ Restart]_vars

\* The same for a route: its block waits for the catalog, usage or policy.
ModelObservationsStand ==
    [][\A r \in Route : \A trigger \in ActiveAt(modelFailures[r], now) :
         \/ now' >= modelFailures[r].recheckAt
         \/ /\ trigger \in modelFailures'[r].set
            /\ modelFailures'[r].recheckAt >= modelFailures[r].recheckAt
         \/ /\ trigger = "usage"
            /\ \E s \in Snapshot : ReplaceUsageProjection(r.account, s)
         \/ \E c \in Caller :
              /\ calls[c] \in ManagementCalls
              /\ calls[c].account = r.account
              /\ \/ /\ trigger = "catalog"
                    /\ ClearModelBlocks(c)
                    /\ r.model \in calls[c].models
                 \/ ForgetAccount(c)
         \/ Restart]_vars

\* A failed call is an observation, not a verdict: however many failures
\* pile up, each route is retried within one recheck interval of the last.
ObservationsComeDue ==
    /\ \A a \in Account : accountFailures[a].recheckAt <= now + BlockRecheckInterval
    /\ \A r \in Route : modelFailures[r].recheckAt <= now + BlockRecheckInterval

\* The usage facts of an account, spread over three tables that other parties
\* write too, always come from one and the same snapshot.
UsageFactsAgree ==
    \A a \in Account :
        /\ accountBlocks[a] = IF projected[a].account THEN {"usage"} ELSE {}
        /\ remaining[a] = projected[a].remaining
        /\ \A r \in Route : r.account = a =>
             modelBlocks[r] = IF r.model \in projected[a].models
                              THEN {"usage"} ELSE {}

\* As soon as no write of an account's document is under way, memory holds what
\* the stored document says: across restarts, rotations, deletions and imports,
\* and everything the other parties do.  The exceptions (unsettled) are
\* two writes that overlapped, and an import of a deleted account for which memory
\* still held a document, or a write was still to be projected; each lasts until
\* the next write that overlaps with none, or a restart.
DocumentsProjected ==
    \A a \in accounts \ unsettled :
        Quiet(a) => persistedFailures[a] = Projection(documents[a])

\* No caller acts on a time that has not come.
CallsNotAhead ==
    \A c \in Caller : calls[c].op \in {"success", "due", "drop"} => calls[c].at <= now

\* A deleted account leaves no document behind (foreign key cascade).
NoDocumentsOfTheGone == \A a \in Account \ accounts : documents[a] = NoDocument

\* Unless the account is unsettled, the write under way is the only one, and is
\* of the stored document.
OneWriter ==
    \A a \in accounts \ unsettled, c \in Caller :
        (calls[c].op = "put" /\ calls[c].account = a) =>
            /\ calls[c].document = documents[a]
            /\ ~ Writing(c, a)

\* The inductive invariant of the proofs: every step of every party keeps
\* the tables well formed, the usage facts of one snapshot together, and
\* memory in step with the stored documents.
IndInv ==
    /\ TypeOK
    /\ CallsNotAhead
    /\ ObservationsComeDue
    /\ UsageFactsAgree
    /\ NoDocumentsOfTheGone
    /\ DocumentsProjected
    /\ OneWriter

\* "Lifted as soon as the credential is updated" (policy.go:98): when the
\* handler that updated the credential returns, nothing in memory waits for
\* a credential any more.
ReauthenticationLifts ==
    [][\A c \in Caller :
         ClearCredentialBlock(c) =>
             LET a == calls[c].account
             IN  "credentials" \notin
                    accountBlocks'[a]
                    \cup ActiveAt(accountFailures'[a], now')
                    \cup ActiveAt(persistedFailures'[a], now')]_vars

=============================================================================
