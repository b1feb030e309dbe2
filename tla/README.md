# A verification project for ai_home

ai_home lets several command-line and web clients share a pool of provider
accounts (Claude, Codex, Gemini, Agy, Kiro and others). This directory holds
TLA+ modules of the parts of it that decide **which account may be called,
what a failed call does to it, with which credential it is called, what the
client of a request is told, what becomes of the messages of a chat session, and
what a browser sees of it**, with the TLC instances that model-check them and the
TLAPS proofs of their main properties. Paths below are relative to `src/`.

Contents

1. The system: components, state, interactions
2. The modules and the code they model
3. The runs: what each checks, bounds, fairness
4. The proofs
5. Findings and known divergences
6. What is only model-checked, and what is not modelled
7. Plan

---------------------------------------------------------------------------

## 1. The system

The repository holds two control planes. The older one is JavaScript
(`lib/`, Node); the newer one is Go (`core/`, `application/`, `internal/`,
`cmd/`) and serves the inference gateway, keeps the accounts, their
credentials, their quota and their routing state in one process over SQLite.
The concurrency is in two places, and they are what the modules model: the Go
core, and the chat runtime of the Node server (`lib/server/chat-runtime*`),
which runs the provider's native sessions for the web client.
`core/` is pure, `application/` holds the use cases with their locks and
goroutines, `internal/adapters/` the storage, the protocols and the in-memory
runtime, `internal/host/` the composition.

### Components

| Component | State it keeps | Operations | What makes it correct |
|---|---|---|---|
| route cooldown registry (`core/accountruntime/{policy,state}.go`, `application/accountruntime/registry.go`) | per (account, model): failure streak, cooldown, last failure; a row for each in SQLite | RecordFailure, RecordSuccess, CheckEligibility, ForgetAccount, restore | a closed route is not reopened early nor closed for too long, whatever order callers commit in; memory and rows agree; a restart restores what was there |
| account runtime index (`internal/adapters/accountruntime/inmemory`) | truth-source blocks, observed blocks with a recheck time, projected documents, routing weight | RecordFailure, RecordSuccess, ApplyAccountState, ClearAccountBlock, ClearModelBlocks, ReplaceUsageProjection, ForgetAccount | each block is lifted by its own event only; facts of one snapshot stay together; memory follows the stored documents |
| account recovery decorators (`.../accountrecovery`) | none | reauthenticate, replace a catalog, then lift the blocks | the lift follows the commit |
| state document API (`internal/transport/http/accountsapi/account_runtime_state.go`) | document per account in SQLite | PUT, DELETE, then project | the projection is that of the stored document |
| usage service (`application/accountusage/service.go`) | flight and generation per account; snapshot in SQLite; projection in the runtime | RefreshUsage, ReplaceUsage, ForgetAccount, RestoreUsageProjection | one refresh per generation; readings of a former principal are neither stored, projected nor answered; callers always return |
| request coordinator (`application/inferencegateway`) | per request: plan position, kept failure, ambiguous failures, one second round | Execute | one answer of one attempt; blame on evidence; every request returns |
| account recruitment (`application/accountrouting`) | per round: scan order, put-off candidates; ticket counter; affinity table | Begin, Next | every candidate is asked, none is called twice; conversations that must stay with their account do |
| credential resolver (`application/accountcredentials`) | flight per account, suppression after failed refreshes | ResolveCredential, forced refresh, CAS write | no refresh token is submitted twice; a refusal never rests a new sign-in; no sign-in is overwritten; every call returns |
| usage scheduler (`application/accountusage/coordinator.go`) | heap of due tasks, worker queues per provider, backoff | Schedule, Forget, run | no task lost or run twice; every account is refreshed again |
| usage documents (`application/accountusage/document.go`) | documents and a derived quota state | replace, derive | derived state belongs to the newest document |
| account sign-in jobs (`application/accountauth`) | job per sign-in | start, poll, complete, cancel, expire | one end for each job |
| accounts (`application/accounts`) | registration, rotation, catalogs, refresh queue | import, delete, rotate, refresh models | cleanup follows every commit |
| relay leases (`application/clauderelay`) | one-time tokens, bounded heap | issue, redeem, expire | a token is redeemed once |
| websocket selection, catalogs, plugin runtime, provider launch, usage ledger, protocol adapters, host | immutable snapshots, processes, codecs | - | covered by tests; see `PROJECT.json` |
| chat session (`lib/server/chat-runtime/`: session actor, turn lifecycle, automatic queue coordinator, recovery) | rows of session, queue, commands and runs; an actor with a mailbox and an active turn; a lane of automatic actions | submit, stop, queue add / move / remove / dispatch, follow up, steer at a tool's end, end of a turn, crash and recovery | one end per run; a message is handed over at most once; a queue goes on by itself only behind a completed run; commands are settled |
| event feed of a chat session (`lib/server/webui-chat-runtime-sse*.js`, `chat-runtime-publishing-store.js`, `web/src/chat-runtime`) | event rows, subscribers, replay buffers; a projection in the browser | append, subscribe, replay, write with backpressure; connect, fold, resynchronise | the projection is a prefix of the history; gaps are noticed and closed |
| Node control plane, the rest (`lib/server`, `lib/account`, `lib/cli`, `lib/usage`) | account files, daemons | - | reaches the core through its management API |
| web and native clients | - | - | user interface |

### How they interact

    client -> Execute -> Resolve plan -> Begin/Next (recruitment)
                            |               |- CheckEligibility -> runtime index -> cooldown registry
                            |               |- ResolveCredential -> credential resolver
                            |               '- affinity table
                            '-> upstream adapter -> events -> attemptStream -> client
                                      '-> RecordFailure / RecordSuccess
                                             -> credential guard (database)
                                             -> runtime index -> cooldown registry -> rows

    management API -> database commit, then a step on memory:
         PUT state document        -> ApplyAccountState
         reauthentication, catalog -> ClearAccountBlock / ClearModelBlocks
         rotation, deletion        -> ForgetAccount of runtime, usage service, ...

    web client -> command -> mailbox of the session's actor -> turn -> native provider
                                  ^                                     |  |
                                  |-------- end of the turn ------------'  | tool ends
                                  '-- follow up / steer -- lane of automatic actions
    rows of the session -> event rows -> event stream -> projection of the web client

    usage workers -> RefreshUsage -> provider -> snapshot (gated) -> ReplaceUsageProjection -> runtime index
    start-up -> rows, documents, snapshots -> memory

Everything shared is either a table of SQLite, changed in transactions, or a
structure under one mutex. What is hard is what happens *between* those
atomic steps:

- times are read before a lock and used under it;
- a credential is read, a provider is called for seconds, and the result is
  applied to an account whose credential may have changed meanwhile;
- a commit is followed by a second step on memory, and other parties run
  in between; a stop between the two leaves only the tables;
- a row or document write may fail after memory has changed;
- failures are kept back until the outcome of a request is known;
- leaders of a flight leave, are detached, or finish late;
- a decision is made outside a mailbox and the command it leads to waits in it;
- the provider's turn goes on while the process that started it is down;
- events are stored, published, replayed and folded in four places, with bounded
  buffers between them and connections that end at any time.

`PROJECT.json` lists these hazards one by one, each at its line, with the
properties that cover it.

---------------------------------------------------------------------------

## 2. The modules

| Module | Models | Extends / composes |
|---|---|---|
| `ModelCooldown` | the pure rules of one route's state | - |
| `CooldownRegistry` | the registry, its rows, its callers, restarts | `ModelCooldown` |
| `HardBlocks` | which event lifts which failure; observations | `ModelCooldown` |
| `AccountRuntime` | the runtime index with all its writers | `HardBlocks` |
| `UsageService` | refresh flights, generations, snapshot, projection | - |
| `Recruitment` | the session of one round, as operators on a record | - |
| `InferenceCoordinator` | a request from plan to answer | `Recruitment`; refines `RequestAnswer` |
| `RequestAnswer` | abstract: what a client is promised | - |
| `CredentialResolver` | the resolver of one account's credential, and whoever else writes the row | refines `CredentialRow` |
| `CredentialRow` | abstract: what the stored credential promises | - |
| `ChatSession` | a chat session: actor, turn, queue, lane, provider, crash and recovery | refines `MessageQueue` |
| `MessageQueue` | abstract: what the queue promises for a message | - |
| `EventStream` | the feed of a session: rows, published events, one stream, one browser tab | - |
| `MC*` | the TLC instances | the module of that name |
| `*Proofs` | theorems | the module of that name, and TLAPS |

No module that is proved about declares a RECURSIVE operator. Definitions whose
comment begins with "Mutant" are variants of the definition after them, with a
plausible bug; no specification uses them. They show that the property a run
checks would notice the bug.

### ModelCooldown and CooldownRegistry

`ModelCooldown` translates `policy.go` and `state.go`: the grouping of failure
kinds (`PolicyFor`), `Prune`, `Apply` with its streak and its saturating
`uint8`, `Succeed`, `RestoreModelState`. Time is a number of ticks and the zero
time is 0, which is before every real instant; all four durations are constants.

`CooldownRegistry` splits each operation where the code lets another caller in:
`ReadFailureClock` is `registry.clock()` before the lock, `CommitFailure` the
critical section, which changes memory and then writes the row inside the lock
(`Persist`, an upsert or a delete that may fail; `unsaved` remembers where it
did). `FinishUpstreamCall`/`CommitSuccess` and `ReadCheckClock`/`CommitCheck`
likewise; `CommitCheck` prunes memory only. `DeleteAccount` and
`RotateCredential` are the commits after which `CommitForget` runs. `Restart` is
a stop at any point followed by `NewRegistryWithStore`: each row is validated,
pruned and restored, or deleted, and each delete may fail. `lastHit` is history:
the newest failure that closed a route, which decides whether a success may
reopen it.

### HardBlocks and AccountRuntime

`HardBlocks` is `core/accountruntime/block.go` (`recoveryForBlock`,
`definitionForRecovery`) and the observation of `failure_block.go`: a set of
events that are waited for, and a recheck time after which the observation no
longer counts.

`AccountRuntime` lets four parties write the same index: calls behind the
credential guard (`StartAttempt`, `VerifyFailure`/`VerifySuccess` which read the
database, then `RecordFailure`, or `RecordSuccess`, `FindDueFailures` under the
read lock and `DropDueFailures` under the write lock), the management API
(`Commit...` then the step on memory; `RegisterNew`, which has no second step, when
a deleted account is imported again), usage snapshots
(`ReplaceUsageProjection`, atomic under the lock) and `Restart`. An account in
`static`, any set of accounts that `Init` chooses, has a static secret, whose
rejection only cools (`forStaticSecret`). `projected` and `unsettled` are history. `unsettled` holds the
accounts whose projected document may be another than the stored one: two writes
overlapped, or the account was deleted and imported again while memory, or a write
under way, still had a document of its earlier life. The next write that overlaps
with none, a restart, or an import that finds nothing left, takes it out.

Two tables that the real index also has hold nothing but usage blocks here,
because no other writer of them exists in the code: `accountBlocks` and
`modelBlocks` are typed that way, which `TypeCorrect` proves.

### UsageService

One account, and three kinds of parties. A caller of `RefreshUsage` leads or
joins a flight; the leader goes through `ResolveCredential`, `FetchUsage`,
`StoreSnapshot` (the transaction gated on the credential version),
`StoreDocument`, `Project` (under `projectionMu`, gated on the generation) and
`Finish`, and may `Fail` at each or be `Abandon`ed. A mutator commits a new
credential, keeps the same one, or deletes the account, and afterwards forgets
it in three critical sections (`SwitchGeneration`, `DetachRefresh`,
`ClearProjection`, the latter two under `projectionMu`). A writer delivers a
reading that was taken elsewhere. A reading is told apart by its *principal*
only, the sign-in that its credential belongs to: principal p is the one that
signed in with credential version p. Tokens expire, and are renewed by the
resolver, which makes a new version of the same principal.

### Recruitment and InferenceCoordinator

`Recruitment` is one session of `recruiter.go`: positions ahead, positions put
off because only a soft cooldown holds them back (`softCooldownFallback`), and
the replay of the latter, which opens the escape valve for good. A snapshot's
positions are written as the accounts that stand there. Any scan order with the
conversation's account first can occur, since a plugin may rank the candidates.

`InferenceCoordinator` is `Execute`. The nested loops of the code become the
control states of one request:

    idle --Execute--> route --BeginRecruitment--> scan <--> call --> settle --> route | idle

`route` is the call of `executeRouteRound`; `scan` the loop around
`session.Next`; `call` one attempt, whose `attemptStream` forwards events as
they come (`Forward`), keeps the terminal event (`Hold`) or breaks (`Break`);
`settle` what `executeRoute` and `executePlan` do with the returned
`routeExecution`: a second round of an agy pool (`RetryPool`), the pin's
fallback (`FallBackFromPin`), the next route, or the return. `session`,
`round`, `stream` and `execution` are locals, and are reset where they go out
of scope. The client is a sink with the one rule of the protocol encoders that
the code relies on: events of one attempt are numbered, and an event that is
not the next number, or follows a terminal event, is refused (`Accepts`).
Everything another request does reaches this one through three inputs: what
eligibility and credentials answer, and where the conversation is bound
(`Rebind`). `ambiguous`, `blamed` and `winner` are history.

`RequestAnswer` says in a page what all of this is for, and
`InferenceCoordinator` implements it: the output that a client sees is that of
one attempt, it has at most one terminal event, of the same attempt, and
`Execute` returns nil exactly if that event was delivered.

### CredentialResolver and CredentialRow

One account with a refreshable credential, and one resolver; `row` is the table.
A call is `check` (`suppressesRefresh`, `Rest` or `StopResting`), `join`
(`refreshFlightGroup.Do`), and either `wait` or the steps of the leader
(`refreshCurrent`): `Reread`, the provider's answer (`Grant`, `Refuse`), the CAS
`Write`, `Clear` or `Reload`, `Finish`. `Fail` stands for every error that is not
remembered. `Abandon` is the end of the caller's context: a waiter leaves, a leader
takes the flight with it, and those who were cut off join once more (`again`).

- A row's `version` is `updated_at`, its `token` the refresh token, numbered as the
  provider issues them, its `signIn` the sign-in the token stems from. Clocks may
  show anything; that versions grow is what `NextVersion` and `CanReplaceAt` do.
- Other resolvers and the Node host write the same row: `RenewElsewhere`. Where
  refreshing is delegated to the host, the resolver never gets to `join`.
- When a suppression ends is any time, so `retryAt` is not kept.
- `Register` assumes that an import is stamped later than what was deleted before
  it was stored. The code does not compare the two, since the row is gone.
- Left out: a deletion's projection (`deletionprojection/credential.go:189`) may
  store the token that is there under a newer version, if only its time of refresh
  differs.
- `spent` is history: tokens this resolver has exchanged and replaced.

`CredentialRow` says what all readers of the row rely on: a version stands for one
content, a renewal stays in the sign-in that it renews, and no sign-in gives way to
an older one.

### ChatSession and MessageQueue

An action is one stretch of JavaScript without an `await`, with at most one
transaction; everything between two of them may interleave. Four parties take
steps. The *actor* (`session-actor.js`) takes one task at a time from its
mailbox: a command is accepted (`Accept`), executed in one or more steps
(`Submit`, `LeaseForTurn`, `BeginLeased`, `Start`, `Interrupt`, ...; `current.at`
says how far it is) and completed or failed; the end of a turn (`FinishTurn`) is
a task behind the commands that came first. The *lane*
(`automatic-queue-coordinator.js`) works off what happened, one action after
the other: at the end of a tool call it leases a message and sends it into the
running turn, at the end of a turn it waits until the session is idle
(`AwaitIdle`, twice through the mailbox) and sends the follow-up. The *provider*
makes tool calls and ends turns, and goes on while the process is down; what it
reports then is only found by the recovery. `Crash` loses what is in memory and
nothing else, and `RecoveryNext` is the start of the coordinator in
`chat-runtime-recovery-coordinator.js`.

The rows are `session`, `control`, `item`, `status`, `runs` and `ends`; the rest
is memory of the process or of the provider. `delivered` is history: how often a
message was handed to the provider, also if the provider refused it. A queued
message is known by the command that added it, a run by its number.

Decisions about what is one step, and what is left out:

- `waiting_input` is `running` (no rule of the queue tells them apart), a retry
  of a turn is a submission, and of the slash commands one that starts a turn
  stands for all that do. Editing a queued message changes its payload only.
- `startTurn` and the transition to `running`, and leasing and marking a message
  at a tool's end, are one step each: recovery treats the states in between
  alike. The lease of a dispatch and `beginTurn` are two, because a crash between
  them requeues the message.
- An interrupted run counts as a failed one (`Terminal`): the queue treats both
  alike, and a stop that was requested turns a reported completion into an
  interruption.
- A recovery that finds two messages in hand throws in `begin`, which is rolled
  back, and then gives the run up: `LoseTurn` from "down".
- Leases have ids in the code; they are checked by the same process that took
  them and are left out.

`MessageQueue` says what the user may rely on for each message, whatever
happens: it is handed over at most once, only while somebody is in charge of
it, never after it was taken back, and never returns to the queue afterwards.

### EventStream

One session, one browser tab. `last` and `rows` are the table of events;
`unpublished` remembers events that were stored and not published. `stream` is
the connection and the server's stream behind it, which live and die together
for the client: `connecting`, then `replaying` (`Accept`: subscribed, and the
rows are read), `live` from the end of the replay on (`FinishReplay`), `ended`
when the server gave up or the connection was lost. `buffer` holds what is
published during a replay, `pending` the frames of `BoundedSseWriter` that wait
for `drain`, `wire` what is in the socket and in the network. `cursor` is the
controller's `throughSeq`, `store` the projection's with its gap, `fetch` the
two requests for a snapshot that may be under way (that of `start()` and that of a
resynchronisation), `timer` the scheduled reconnection.

- An event is its number. A replay in place of which a snapshot is sent keeps
  that snapshot's number.
- `PublishKnown` and `AppendEvent` are the two ways to publish: everything that
  the operation appended, or the one event that was given, also where the
  transaction appended another.
- `Compact` stands for both clean-ups of rows. The first row stays: it is that of
  the session's creation, or the row that others are merged into.
- A delta for an item that is on no loaded page (`MissItem`) may come at any time.
- Left out: the connection state shown to the user, which no rule here reads;
  events that cannot be parsed, which are treated as gaps are; `dispose`,
  earlier pages of the timeline and local echoes.

---------------------------------------------------------------------------

## 3. The runs

| Run | Instance | What it shows |
|---|---|---|
| `cooldown_race` | one route, two callers, four kinds of reports, clock to 3 | memory and rows agree (`RowsMatchMemory`), rows can be restored (`RowsRestorable`), cooldowns are bounded (`CooldownBounded`) and never shortened (`ClosedStaysClosed`) |
| `account_runtime` | one account, with an OAuth credential or a static secret, one model, two parties, clock to 3 | observed blocks stand until their event (`AccountObservationsStand`, `ModelObservationsStand`) or come due (`ObservationsComeDue`); facts of one snapshot (`UsageFactsAgree`); memory holds the stored documents, also after a rotation has forgotten the account or a deleted one was imported again, with two exceptions that section 5 describes (`DocumentsProjected`) |
| `runtime_reauthentication` | one party | a finding: `ReauthenticationLifts` is violated |
| `usage_refresh` | two callers, one mutator, two versions, fairness | `OneRefresh`, `FreshRefreshSurvives`, `StoredOfPrincipal`, `ProjectedOfPrincipal`, `AnswerOfPrincipal`; every refresh call returns (`CallsReturn`) |
| `usage_deliver` | a caller, a writer, a mutator | a deletion leaves no snapshot behind (`SnapshotHasAccount`) |
| `gateway_pool` | two accounts, plans `<<agy>>`, `<<agy, other>>`, `<<other, agy>>` | `RetriesUnseen`, `BlameIsEarned`, `ExhaustedMeansTried`, `EncryptedStaysHome`, `OncePerSession`, the refinement `AnswersOnce`, and every request returns (`RequestsReturn`) |
| `gateway_lost_failure` | two accounts, one agy route | a finding: `FailureReported` is violated |
| `credential_refresh` | two callers of one resolver, three versions, three tokens; renewals elsewhere, sign-ins, deletion and import, restarts; fairness | no token is submitted twice (`SpentOnce`), a refusal rests its own token only (`RestsItsOwn`), the refinement `RowSpec`; every call returns (`ResolvesReturn`) |
| `chat_session` | a submission, a stop, a message for after the turn and one for a tool's end; failing hooks, starts and stops; one crash | `RunsEndOnce`, `ItemsInHand`, `PausedUnlessCompleted`, `FollowsCompletion`, `SteersItsRun`, and the refinement `QueueSpec` |
| `chat_queue` | the user also moves, removes and dispatches messages, two of them wait for one tool; one crash, fairness | `BoundaryOnce`; commands are settled (`CommandsSettle`) and runs end (`RunsEnd`) |
| `chat_stranded` | two messages behind one run, one is removed | a finding: `NoMessageStranded` is violated |
| `event_stream` | four events, every buffer of length one, two faults (lost connection, failed fetch, hidden page, compaction, unknown item), fairness | gaps are those of the server (`GapsExplained`), the view does not go back (`NeverBack`), a shown page always has a way to go on (`NeverDeaf`) and sees what was published (`CatchesUp`) |

The runs do not repeat the type invariants: they are proved for every instance,
as `TypeCorrect`. So are the inductive invariants that the modules state beside
their properties (`AnswerInv` and `WaitersLed` of `UsageService`, `TurnGoesOn` of `ChatSession`,
`FeedInv` and `OnceInv` of `EventStream`, ...): they hold when added to the
properties of the runs of their modules, and are proved for every instance.

### Bounds, and why they are enough

- **Clock** (`Horizon = 3`, durations 1 and 2). A cooldown and a streak can
  begin, be extended and end, in either order of their ends, and a failure can
  be stamped in one tick and applied in a later one. The rules compare times
  and add durations, so longer durations add no new order of events. That
  nothing depends on these bounds is what the proofs are for.
- **Routes.** One account and one model in the cooldown and runtime runs: the
  index compares whole keys and no rule relates two routes, other than "all
  routes of an account", which the proofs treat for any number of them.
- **Parties.** Two callers are a race; the proofs take any number.
  One mutator is a race with the callers; that another one commits while it
  forgets is left to the proofs.
- **CountCap** is 3 in the cooldown run and 2 in the runtime runs instead of 255:
  `stream_disconnected` needs two failures, so the counter reaches its threshold
  and then saturates, in the cooldown run one failure later.
- **MaxVersion = 2, MaxKept = 1.** A second version is a new principal or a
  renewal; a forgetting without a commit (`KeepCredential`) brings the
  generation ahead of the versions once.
- **Credentials.** With two callers one leads while the other waits, or arrives
  late, or tries once more. Three versions and three tokens: the one that was read,
  a renewal or sign-in meanwhile, and what is written after it. `MaxVersion` and
  `MaxToken` bound clocks and what the provider issues.
- **AttemptLimit = 2** with pools of up to two accounts, so that a round may
  end by its limit with or before the end of the pool. Two routes suffice for a
  failure that is kept across routes, and for one model's blame to meet
  another's. An agy plan of one route has two rounds.
- **Chat sessions.** Two runs (`MaxRun`), so that what is late for the first
  meets the second; one tool call, which two messages may wait for; one task in
  the mailbox ahead of a client's (`MaxMailbox`), on top of which the lane, the
  turn and the marks add theirs. `MaxEvent` bounds the commands that are sent,
  out of those that `Command` offers, together with the crashes: five with
  failing hooks, three where the whole queue can be edited, four without
  crashes for the finding. One crash can come at any step, the recovery's
  included.
- **Event feed.** `BufferLimit`, `FrameLimit` and `SocketLimit` are 256, 256 and
  the socket's in the code; with 1, 1 and 2 each of them overflows within the
  four events of `MaxSeq`, alone and together with a replay. `Retention = 2` lets
  a cursor fall behind the window. `MaxFault` counts what may happen for ever:
  with two, one fault may meet what the other one left behind. The buffers'
  overflow is not a fault and not counted.
- **Symmetry** is used over callers, mutators or accounts, in safety runs only
  and where every constant is symmetric in them.

### Fairness

Safety runs assume none. `UsageService!Fairness` asks that a leader's next
step, a delivery's and a forgetting's are taken if they stay possible: the
provider's answer is bounded by the HTTP client's timeout, the rest are
critical sections in the process, and `Fail` is always among the possible
outcomes. Nobody has to call, leave, commit or restart, and waiters have no
fairness of their own: that they return is what `CallsReturn` says.
`InferenceCoordinator!Fairness` asks that `Execute`, on its own goroutine, goes
on; nothing is assumed of what it meets, so `RequestsReturn` rests on every loop
of the code having an end: candidates run out, put-off ones are replayed once,
pins fall back once, the second round has one permit per request, routes run
out. `Rebind`, which may happen forever, is outside the fairness.

`CredentialResolver!FairSpec` asks that the steps of a call are taken: the
provider's answer is bounded by the HTTP client's timeout, `Fail` is a possible
answer of each step outside the process, and the rest is memory. Nobody has to
leave, sign in, delete or restart. `ResolvesReturn` thus also speaks of those who
wait for a leader whose caller has left.

`ChatSession!Fairness` asks that the actor and the lane go on (promises of one
process), that a native turn ends at some time and its end is reported while the
process listens, and that a stopped process is started again and recovers.
Clients need not send anything, tools need not end, and the process need not
stop. `CommandsSettle` and `RunsEnd` thus rest on no step of the actor or the
lane waiting for what never comes: `waitForIdle` in the lane waits for the
actor, and never the other way round.

`EventStream!Fairness` asks that the server goes on with a stream it has (the
socket drains while the client reads), that the client handles what has arrived,
that a fetch is answered, and that a timer fires. Nothing has to be stored, no page
has to be opened or shown, and the other faults need not stop but for their
bound: `CatchesUp` says what is reached once a page stays shown for long enough.

Every run checks deadlock, except those of chat sessions, their feed and the
credential resolver: there the clients have a bounded number of commands, and the
events, versions and tokens are bounded; once they are used up, the system is at
rest.

---------------------------------------------------------------------------

## 4. The proofs

All theorems hold for any values of the constants under the assumptions named
next to their declaration: durations are positive and the default cooldown is
no longer than the longest hint (`DurationAssumption`), reports and outcomes
are of the kinds that the code produces, the set of accounts is finite
(`AccountAssumption` of `Recruitment`), plans are not empty and the attempt
limit is 1 to 4 (`RouteAssumption`, `LimitAssumption`), the limits of the feed are
positive (`LimitAssumption` of `EventStream`), `NoOne` is not a caller and
bounds are naturals (`CallerAssumption`, `BoundAssumption`).

**`ModelCooldownProofs`** states once what the rules return and preserve:
types of `Prune`, `Apply` and `Succeed`, that pruning twice is pruning at the
later time, and that applying a failure never moves the end of a cooldown back
nor beyond the longest hint. `CooldownRegistryProofs` cites these by name.

**`CooldownRegistryProofs`**: `TypeCorrect`, `RestartRebuildsMemory`,
`RowsAlwaysRestore`, `CooldownsAreBounded` and the action property
`ClosedRoutesStayClosed`, from the inductive `IndInv`. `RowsMatchMemory` is not
inductive by itself: a check prunes memory with a time that was read earlier,
so calls must not be ahead of the clock (`CallsNotAhead`), and rows must be
sound to be restored (`Sound`). For `ClosedStaysClosed`, a success may only
reopen what it is newer than, so a cooldown in memory must remember its newest
closing failure (`HitsRemembered`).

**`AccountRuntimeProofs`**: `TypeCorrect`, `ObservationsAreRechecked`,
`OneSnapshotPerAccount`, `DocumentsReachMemory`, and the action properties
`ObservedAccountBlocksStand` and `ObservedModelBlocksStand`. `DocumentsProjected`
needs `OneWriter`, that the only write of a document that is under way is of the
stored one, and `NoDocumentsOfTheGone`, that a deleted account leaves none
behind: an account that comes back to a memory that holds none is in agreement
at once. There is one lemma per action.

**`UsageServiceProofs`**: `TypeCorrect`, `OneRefreshPerGeneration`,
`FreshRefreshesSurvive` from `FlightInv` (the flight belongs to a leader of the
newest settled generation, and every other leader has been left behind), for
any parties. `ProbeInv`, for any parties too, is about the credentials that leaders
have read: versions only grow, so one that passes the version gate is of the
principal signed in; a leader of the current generation holds such a one, or a
commit has yet to switch the generation. Hence whatever a refresh stores or
projects is of that principal (`RefreshesStoreTheirs`, `RefreshesProjectTheirs`), and
nothing but a delivery can leave a snapshot or facts of somebody else
(`OnlyDeliveriesStoreOthers`, `OnlyDeliveriesProjectOthers`): a reading delivered
from outside carries no proof of whose it is, see section 5. With `Writer = {}` it
follows that there never are any (`SnapshotsOfPrincipal`, `FactsOfPrincipal`).
`SnapshotsHaveAccounts` and `AnswersOfPrincipal` assume nothing of the parties. The
first needs no more than that the account is read in the critical section which
writes the snapshot. For the second, `AnswerInv` relates each waiter to the leader
whose answer it will be given: the leader's reading is of a principal at least
as new as the one its waiters asked for. A leader that others may still join has a
reading of the principal signed in, unless a commit has not yet switched the
generation, and nobody who joins in that interval asks for a principal
(`AnswerOfPrincipal` says nothing of it). That each waiter has a leader which is
still there, whoever was detached, abandoned or failed, is `NobodyWaitsForTheGone`
(`WaitersLed`).

**`CredentialResolverProofs`**: `TypeCorrect`, `TokensSpentOnce`, `RefusalsOfTheirToken` and
`RowKept` (each step of callers, users and other processes is one of
`CredentialRow` or leaves the row alone), for any number of callers, versions and
tokens. None is inductive alone. `FlightInv`: a flight has one leader, so nobody
else of the resolver exchanges tokens while one is submitted. `ContentInv`: versions
and tokens of the row only grow, and what was read, refused or granted under a
version is never newer than the row and agrees with it where the versions are the
same; every spent token is older than the stored one. That the leader reads the row
after it has the flight is what `SpentOnce` needs of `refreshCurrent`.
`NobodyWaitsForTheGone` (`WaitersLed`): whoever waits, waits for a caller that leads;
all who wait when a leader is done wait for it, and each of them returns or joins
once more.

**`ChatSessionProofs`**: for every set of commands, whatever they ask for, and
any number of runs, tool calls and crashes. The invariant has eight parts
besides types and the three properties that are part of it. `StoppedInv`: what
memory holds in each phase of the process. `TurnInv`: the actor's turn is that of
the row, and no stop is requested of a turn that the row calls running (this is
what makes the check of the row in `Intervene` enough). `CommandInv`: a command
is accepted in the tables exactly while the actor is at it. `AddedInv`: a row
exists only for a message whose command was executed, so an added row never
replaces another. `LaneInv`, `HandInv`: who has a message in hand, and the state
of its row. `SteerInv`: the lane waits as long as its command does, and a command
that was answered has its answer stored. `GivenInv`: a message that was not
taken, or was only leased, was not handed over. From them follow `OneTerminalPerRun`,
`QueuesGoOnAfterCompletion`, `OneMessagePerBoundary`, `OneHandPerMessage`, the
action properties `FollowUpsFollowCompletion` and `SteersReachTheirRun`, and
`QueueKept`: every step is one of `MessageQueue` or leaves its variables alone.
There is one lemma per action; those that leave the rows of messages alone share
one.

Beside it, `GoesOn` says why a session cannot come to rest in the middle of a turn.
`ActiveTurnsCanEnd` (`TurnGoesOn`): while the process is up, the active turn is
about to be started, its provider has it, or its end will be reported or waits in
the mailbox. What makes it hold is that a report which was heard stays in the
mailbox until the actor takes it, that the actor ignores the end of another run
only, and that a restart forgets what was heard (`HeardInv`). `LaneIsPassedOn`
(`LaneGoesOn`): the lane waits for the mailbox to drain only while its mark is there.

**`EventStreamProofs`** has three arguments, all for any limits of the replay, the
buffers and the socket, and any number of events and faults.

`ShownPagesGoOn` (`NeverDeaf`): the operators on streams never take a stream away
from the client (`SendKeeps`, `EmitKeeps`, `FinishedKeeps`, ...), so only the client's
own steps matter, and each of them that closes a connection leaves another, a
fetch or a timer. The inductive invariant adds only the shape of streams and
fetches.

`FeedInvariance`, and from it `TypeCorrect`, `GapsAreExplained`, `SettledMeansCaughtUp`
and the action property `ProjectionNeverBack`. `GapsExplained` is far from
inductive: that nothing is missing when a frame arrives rests on what was written
to the socket long before. `FeedInv` says where each event that was published and
is stored has got to:

- `InSequence`: before a frame of event q arrives, the client will have every
  published event below q, or know that it misses some. This is the part that
  `RefuseEvent` needs: a number that is missing was not published or is gone.
- `ReplayInv`: while a stream replays, each event is in the projection, the replay or
  the buffer, or behind the snapshot that is sent in their place. The stream's
  cursor is still the client's, or what is sent would not follow what it has.
- `LiveInv`: a live stream has passed on everything, so what is published next
  comes after it.
- `ResetsFirst`: a snapshot in the stream comes before every event and is no older
  than the cursor; otherwise it could take the projection back, or events between
  the two would be applied and then forgotten.
- `Quiet`: while a snapshot is fetched that was asked for after the first, no
  stream is open and none is scheduled. So nothing is applied that the answer would
  take back, which is what `NeverBack` needs. A hidden page has neither.
- `Numbered`: no number is ahead of the last one, and frames wait only while the
  socket is full (`Drain` keeps their order).

The frames of a set of events are the set in order. Their order is proved without
induction over sequences: `EventFrames` takes as the k-th frame the event that
k - 1 others precede, and `Ranks` says that an event's rank in a finite set of
numbers determines it and grows with it. `SendFacts` is about any sequence of frames:
what is written and what waits are what there was, followed by the new frames; or
the stream has ended, and what was written is the beginning of that.
`FinishedPart` and `EmitPart` lift this to the operators on streams. The server's steps
then need only what they do to the stream (`ServerFeed`); the client's either
leave the stream alone (`SameFeed`), begin a new one (`FreshFeed`) or take its first
frame (`TakeFeed`).

`EventsComeOnce` (`OnceInv`, inductive beside `FeedInv`): the frames on their way are
in the order of their numbers, no event among them is one that the client has, and
a live stream's cursor is not behind anything it has sent, so a late publication
is passed over. The buffer at the end of a replay may hold what was replayed as
well, or lies below the snapshot that is sent; `FinishedOnce` shows that none of
that is sent again. With it
every event that is applied moves the projection by exactly one
(`EventsAreAppliedOnce`): the duplicate case of `SessionProjectionStore.apply` is a
safeguard that no run of the model needs.

**`InferenceCoordinatorProofs`**: the invariant has four parts besides types
and the scope of locals. `SeenInv`: what the client has seen at each control
state. `BlameInv`: until a request is decided, every ambiguous failure waits
and nobody is blamed; afterwards nothing waits and the blame is earned.
`SessionInv`: what is ahead is unseen, what is put off is "soft", and a
candidate that was refused or recruited is in neither list; the conversation's
account comes first. From them follow `OutputIsStartedOnce`, `BlameOnEvidence`,
`ExhaustionIsHonest`, `EncryptedReasoningStays`, the action property
`CalledOncePerSession`, and `AnswersAsPromised`: every step of the coordinator
is a step of `RequestAnswer` or leaves its variables alone.

---------------------------------------------------------------------------

## 5. Findings and known divergences

Where the code does something else than a comment of its own says, and a run
shows it:

1. **A projected document outlives a reauthentication**
   (`runtime_reauthentication`). `inmemory/runtime.go:270` clears two of the
   three tables; `core/accountruntime/policy.go:98` says that the block is lifted
   as soon as the credential is updated.
2. **A kept failure is lost in the second round** (`gateway_lost_failure`).
   `application/inferencegateway/coordinator.go:487` returns the second round's
   result alone; `coordinator.go:228` says that the last safe failure is kept.
3. **A failed follow-up uses up the name of all that follow** (`chat_stranded`).
   `lib/server/chat-runtime/automatic-queue-coordinator.js:114` names the command
   after the run it follows. If it fails, since the user removed the message it
   was sent for, the next message that arrives behind the same run is answered
   with the stored failure and stays, although
   `docs/architecture/chat-harness-absorption.md:430` says that late messages
   share that command without being lost.

Others were met while modelling and are described here without a run, because
the models have these behaviours and the properties are stated around them:

- `NewService` (`application/accountusage/service.go:256`) drops
  `dependencies.Refresher`, so an expired token of a provider that the resolver
  cannot refresh is used for the probe; `service.go:383` says that it is
  refreshed first.
- A running throttle keeps its later deadline but takes the kind of a newer
  failure (`core/accountruntime/state.go:232`), so that the recruiter no longer
  preserves it as a backoff the upstream asked for, as
  `application/accountrouting/recruiter.go:641` says it does.
- `appendEvent` publishes the event it was given
  (`chat-runtime-publishing-store.js:114`). For the first output and the metrics of
  a turn the same transaction stores a second event
  (`turn-metrics-repository.js:39`, `chat-context-state.js:64`), which nobody
  publishes. A client that was connected all the time finds a hole at the next
  event and fetches the whole snapshot, in every turn; if none follows, it does not
  see the second event. `publishSince` of the same class throws if numbers do not
  follow each other (line 259), and `chat-runtime-service.js:218` names compaction
  as what leaves holes. `GapsExplained` allows these holes (`unpublished`), and
  `CatchesUp` speaks of published events only; without either exception TLC finds
  the history within a few steps.
- A replay has up to 500 events and is written at once, while 256 frames may wait
  for the socket: a long one overflows, and the client comes forward by what fitted
  at each reconnection. `CatchesUp` holds all the same.
- Compaction may remove the last row; a replay then ends before the last number
  without a snapshot (`isContiguousFrom` looks for holes between rows only). The
  next event is a gap for the client, so `CatchesUp` excludes rows that are gone.
- A snapshot that `start()` asked for may arrive when a stream is already open (the
  page was hidden and shown, or the network came back, before the first answer).
  It takes the view back for the time of one replay; `NeverBack` excludes it.
- The comment on `RefreshDelegated`
  (`application/accountcredentials/resolver.go:69`) says that there can be only one
  refresher of a rotating token. Where refreshing is not delegated, the server
  builds two resolvers with flights and suppressions of their own
  (`internal/host/aihserver/composition.go:514`,
  `internal/host/inferenceruntime/runtime.go:125`), and each command line process
  another (`internal/host/aihcli/app.go:149`). `SpentOnce` speaks of one resolver;
  the others are `RenewElsewhere`, and the CAS keeps the row whole.
- `ForceRefreshCredentialBinding` (`resolver.go:257`: refreshes and returns the new
  binding) may join a flight of `Resolve` that finds the row renewed and not due,
  and then returns what is stored without having refreshed it.
- A caller that still holds an older snapshot drops the suppression of the newer one
  (`resolver.go:450`), and the flight does not look at suppressions again.
  `RestsItsOwn` says only that none rests wrongly.
- A granted token is lost if the leader's caller leaves, or the database fails,
  between the provider's answer and the write.
- A stop that fails resets `interruptRequested` (`turn-lifecycle.js:94`), also
  where an earlier stop was accepted: stop, stop again with an error, and a turn
  that then reports its completion counts as completed, and the queue goes on.
- A stop of the process between the end of a completed run and its follow-up
  leaves the message queued in an idle session; nothing looks for it at start.
  `chat_stranded` has no crash and shows the other way to strand a message; with
  one crash, one submission and one message TLC finds this one, and none
  without the crash.
- While a late follow-up waits in the lane for the session to become idle, a new
  turn may start, and its tool ends are noticed only after it.
- Two PUTs of one state document that overlap may be stored in one order and
  projected in the other (`account_runtime_state.go:114-120`, whereas
  `inmemory/runtime.go:204` calls the document the only current truth).
  `DocumentsProjected` excludes such accounts, which are `unsettled`, until the
  next write.
- `ForgetAccount` (`inmemory/runtime.go:399-425`) leaves `persistedFailures`
  alone. When an account with a blocking document is deleted and imported again in
  one process, `RegisterNew` (`registration_store.go:17-97`) accepts the reference,
  since it is derived from the credential (`application/accounts/registrar.go:43`),
  its document has gone with the old row, and neither the deletion nor the import
  tells memory. The new account stays out of routing until the end that the document
  named, its next document or a restart, although none is stored and
  `inmemory/runtime.go:204` calls the stored one the only truth. A write that is
  stored before the deletion and projected after it leaves the same behind.
  `DocumentsProjected` excludes these accounts as `unsettled`; without that
  exception TLC finds the history in four steps: store, project, delete, import.
- The credential guard reads the database and writes memory afterwards
  (`observed_failure_recorder.go:88`; its comment is at `:21`); a rotation or a
  reauthentication in between leaves a block of the old credential on the
  account until its recheck.
- A delivered reading is gated on the credential at delivery, not on the one
  with which it was collected (`service.go:482`, comment at `:52`). So the
  runs with writers check `SnapshotHasAccount` and no property of principals. That
  this is the only way by which a reading of somebody else gets in is proved
  (`OnlyDeliveriesStoreOthers`, `OnlyDeliveriesProjectOthers`).
- When an attempt that the client has seen is interrupted, `executePlan` still
  tries to send the failure that an earlier route kept back
  (`coordinator.go:290`, against `attempt_outcome.go:5` and
  `coordinator.go:561`). The encoders refuse it by its sequence number, so the
  client is not affected and `AnswersOnce` holds.

---------------------------------------------------------------------------

## 6. What is only model-checked, and what is not modelled

**Liveness** (`CallsReturn`, `RequestsReturn`, `CommandsSettle`, `RunsEnd`,
`CatchesUp`, `ResolvesReturn`) is out of TLAPS's reach and is checked by TLC alone;
what is proved is the safety part of it, that in no reachable state the thing
waited for is gone: `NobodyWaitsForTheGone` for `CallsReturn` and for `ResolvesReturn`,
`ActiveTurnsCanEnd` and `LaneIsPassedOn` for `RunsEnd`, `ShownPagesGoOn` and
`SettledMeansCaughtUp` for `CatchesUp`. `CommandsSettle` and `RequestsReturn` have no
such theorem of their own. Every other property of a passing run, invariants, action properties and refinements, is also
a theorem, with one restriction: `StoredOfPrincipal` and `ProjectedOfPrincipal` are
proved, and checked, without writers. The proof modules do not use induction over data and no recursive operators.

Abstractions, and what they hide:

- The registry's cooldowns in `AccountRuntime` come back over a restart as if
  every row write had succeeded; that they may fail is `CooldownRegistry`'s
  subject. Its clock reads are part of the step there, for the same reason.
- Readings are told apart by principal, so two readings of one principal in the
  wrong order (a delivery overtaking a refresh) cannot be seen.
- Usage documents are not in `UsageService`; that writing one may fail is.
- One request at a time: other requests are the environment. Execute keeps no
  state of its own across requests except the cursors that order equivalent
  routes, and the plan is any of a set of plans.
- The recorder's failures that are not ambiguous go to the runtime at once and
  do not appear in `InferenceCoordinator`; errors of that write do, as errors
  of the attempt.
- Eligibility is any answer at any time, so nothing is said about how often a
  given account is chosen.
- A chat session's messages, commands and runs are modelled; its interactions and
  approvals, branches, goals, policies and attachments are not. They have tables
  of their own, and no rule of the queue reads them. Neither are the user's own
  `turn.intervene`, a dispatch by the user that names no message (it takes the first
  that waits), and the deletion of a session, which is refused while a turn is
  under way (`chat-runtime-service.js:179`).
- `EventStream` leaves out heartbeat frames, which fill the buffer of a client that
  does not read but change no cursor, and the branch of `readEvents` for a cursor
  beyond the last number (`chat-runtime-service.js:210`): cursors only come from
  stored events and snapshots, and the last number never falls.
- One tab per session: tabs share nothing but the rows.

Not modelled: the usage scheduler, usage documents,
the scheduler's tickets and the affinity table, sign-in jobs, relay leases, model
refreshes, what else the Node server does (its writes of state documents are
among the document writers of `AccountRuntime`), codecs, process and terminal
control, user interfaces. `PROJECT.json` names the reason for each.

---------------------------------------------------------------------------

## 7. Plan

The order is by how much of the system's routing decisions rest on a part.
Done: cooldowns, runtime index, usage service, credential resolver, coordinator and
recruitment, chat sessions and their event feed.

1. `UsageService` composed with `CredentialResolver`, which would implement its
   `Renew`, as `CredentialRow` already does for the row.
2. `UsageCoordinator`: heap, queues per provider, rerun flag, backoff, forgetting
   and importing again. Properties: an account is never refreshed by two
   workers; a scheduled account is refreshed again; an old task never touches a
   new one.
3. `RouteGate`, an abstract specification of a route that is open or closed
   until a time, implemented by `CooldownRegistry` and used in place of it in
   `AccountRuntime`.
4. `FairRoundRobin` and `SessionAffinity`: tickets, the bounded table with its
   TTL. They would replace the free inputs of `InferenceCoordinator` in a
   composed instance with two requests.
5. `UsageDocuments`: two reads and a write back; equal capture times.
6. `AccountAuthJobs`, `RelayLeases`, the model refresh queue; then the Node
   side's window activation scheduler and token refresh daemon.
7. The interactions of a chat session (a claim, a resolution by the provider, a
   release), composed with `ChatSession`; and `EventStream` with the events that
   `ChatSession` appends, in place of any number of them.

Proofs left: the refinement of `RouteGate`; and, for each new module, its type invariant and its main safety
property.
