------------------------- MODULE InferenceCoordinator -------------------------
(***************************************************************************)
(* One inference request at a time through                                 *)
(* application/inferencegateway/coordinator.go: Execute walks the routes   *)
(* of a plan, each route in rounds over a recruitment session, each round  *)
(* in attempts on one account each. A failure that the client has not seen *)
(* is kept back while other accounts, the other accounts of a pin and      *)
(* other routes are tried; a failure that may be the request's own fault   *)
(* is charged to an account only once the request is decided.              *)
(*                                                                         *)
(* Other requests, the clock and the runtime state are the environment:    *)
(* what CheckEligibility and the credential resolver answer may differ     *)
(* from one candidate to the next, and the account the conversation is     *)
(* bound to may change between any two steps.                              *)
(*                                                                         *)
(* A route stands for its provider and effective model, which determine    *)
(* its protocol; attempts of the request are numbered from 1.              *)
(***************************************************************************)
EXTENDS Recruitment

CONSTANTS
    Route,
    Agy,           \* routes of the provider with ambiguous failures
    Plan,          \* the plans the catalog may resolve to, without the
                   \* routes that lack a capability the request needs
    AttemptLimit   \* UpstreamAttemptLimit

ASSUME RouteAssumption ==
    /\ Agy \subseteq Route
    /\ Plan \subseteq Seq(Route)
    /\ \A plan \in Plan : plan # <<>>
ASSUME LimitAssumption == AttemptLimit \in 1 .. 4

NoAttempt == 0

\* A classified failure: whether blame waits for the request's outcome, and
\* whether another account may be tried. Only the agy adapter defers, and
\* NewAttemptFailure refuses to defer what is not retryable.
Failures(route) ==
    [deferred : {FALSE}, retries : BOOLEAN]
        \cup (IF route \in Agy THEN {[deferred |-> TRUE, retries |-> TRUE]} ELSE {})

VARIABLES
    pc,
    request,       \* the request, how far its plan is, whether it is pinned
    session,       \* the recruitment session of the round
    round,         \* the round: loop count, kept failure, all of it ambiguous
    stream,        \* the attemptStream of the current attempt
    execution,     \* routeExecution and error of the route that returned
    planFailure,   \* executePlan's pendingFailure
    permitUsed,    \* the second round of the request has been claimed
    pending,       \* requestAccountFailureRecorder.pending
    tried,         \* attempts of the request so far
    client,        \* the sink: whose output it took, and the terminal event
    result,        \* what Execute returned
    affinity,      \* the account the conversation is bound to
    ambiguous,     \* history: deferred failures that nothing disproved
    blamed,        \* history: deferred failures charged to accounts
    winner         \* history: the account and route that completed

roundLocals == <<session, round, stream>>
roundState == <<roundLocals, tried>>
history == <<ambiguous, blamed, winner>>
vars == <<pc, request, roundState, execution, planFailure, permitUsed, pending,
          client, result, affinity, history>>

Failed == [route : Route, account : Account]
NoWinner == [route |-> "none", account |-> NoAccount]

IdleRequest == [plan |-> <<>>, pos |-> 0, pin |-> NoAccount, onPin |-> FALSE,
                keyed |-> FALSE, preserve |-> FALSE]
IdleSession == NewSession(<<>>, NoAccount)
FirstRound == [count |-> 0, failure |-> NoAttempt, onlyDeferred |-> TRUE]
IdleStream == [account |-> NoAccount, shown |-> FALSE, terminal |-> "none",
               broken |-> FALSE]
NotExecuted == [error |-> FALSE, terminal |-> FALSE, failure |-> NoAttempt,
                exhausted |-> FALSE, onlyDeferred |-> FALSE]
NothingSeen == [by |-> NoAttempt, terminal |-> "none"]

Init ==
    /\ pc = "idle"
    /\ request = IdleRequest
    /\ session = IdleSession
    /\ round = FirstRound
    /\ stream = IdleStream
    /\ execution = NotExecuted
    /\ planFailure = NoAttempt
    /\ permitUsed = FALSE
    /\ pending = {}
    /\ tried = 0
    /\ client = NothingSeen
    /\ result = "none"
    /\ affinity = NoAccount
    /\ ambiguous = {} /\ blamed = {} /\ winner = NoWinner

CurrentRoute == request.plan[request.pos]
ThisAttempt == [route |-> CurrentRoute, account |-> stream.account]

(***************************************************************************)
(* The request.                                                            *)
(***************************************************************************)

\* Execute: the resolver has ordered the plan, of which routes that do not
\* support the request are skipped. Encrypted reasoning only binds a request
\* that has a session key.
Execute ==
    /\ pc = "idle"
    /\ \E plan \in Plan, pin \in Account \cup {NoAccount}, keyed, preserve \in BOOLEAN :
        /\ preserve => keyed
        /\ request' = [plan |-> plan, pos |-> 1, pin |-> pin,
                       onPin |-> pin # NoAccount, keyed |-> keyed, preserve |-> preserve]
    /\ pc' = "route"
    /\ tried' = 0
    /\ client' = NothingSeen
    /\ result' = "pending"
    /\ ambiguous' = {} /\ blamed' = {} /\ winner' = NoWinner
    /\ UNCHANGED <<roundLocals, execution, planFailure, permitUsed, pending, affinity>>

\* Another request of the conversation binds it elsewhere, or the binding
\* expires or is evicted. It is read only where a round begins, so it is
\* enough to let it change there.
Rebind ==
    /\ pc = "route" /\ request.keyed
    /\ affinity' \in Account \cup {NoAccount}
    /\ affinity' # affinity
    /\ UNCHANGED <<pc, request, roundState, execution, planFailure, permitUsed, pending,
                   client, result, history>>

(***************************************************************************)
(* One round of a route: executeRouteRound.                                *)
(***************************************************************************)

\* What a route's execution hands to executePlan.
Executed(outcome) ==
    /\ execution' = outcome
    /\ pc' = "settle"

RoundFailed(failure) == Executed([NotExecuted EXCEPT !.error = TRUE, !.failure = failure])

Answered == Executed([NotExecuted EXCEPT !.terminal = TRUE])

\* beginRecruitment: a pinned request sees its account or nothing.
BeginRecruitment ==
    /\ pc = "route"
    /\ \E pool \in SUBSET Account :
        LET candidates == IF request.onPin THEN pool \cap {request.pin} ELSE pool
            home == IF request.keyed /\ ~request.onPin /\ affinity \in pool
                    THEN affinity ELSE NoAccount
        IN \E order \in ScanOrders(candidates, home) : session' = NewSession(order, home)
    /\ pc' = "scan"
    /\ UNCHANGED <<request, round, stream, tried, execution, planFailure, permitUsed, pending, client, result,
                   affinity, history>>

\* No adapter for the protocol, no snapshot, a failed preference, a context
\* that is done: the round returns a zero routeExecution with the error.
BeginFails ==
    /\ pc = "route"
    /\ RoundFailed(NoAttempt)
    /\ UNCHANGED <<request, roundState, planFailure, permitUsed, pending, client, result,
                   affinity, history>>

Scanning == pc = "scan" /\ round.count < AttemptLimit /\ ~ScanExhausted(session)

Scanned(answered) ==
    /\ session' = answered
    /\ UNCHANGED <<pc, request, round, stream, tried, execution, planFailure, permitUsed,
                   pending, client, result, affinity, history>>

\* After a pin fell back, its account is excluded from the pool.
Excluded == IF request.onPin THEN {} ELSE {request.pin} \ {NoAccount}

Admitted(eligibility) ==
    Admits(NextScanPosition(session), CandidateAt(session), eligibility, request.preserve)

\* The candidate is excluded, blocked or throttled, or it is admitted and its
\* credential is missing, dead or not one the protocol can carry.
SkipCandidate ==
    /\ Scanning
    /\ Scanned(Heard(NextScanPosition(session), CandidateAt(session), "refused"))

PutOffCandidate ==
    /\ Scanning
    /\ CandidateAt(session) \notin Excluded
    /\ ~Admitted("soft")
    /\ Scanned(DeferCandidate(NextScanPosition(session), CandidateAt(session)))

\* Next returns the candidate, the conversation is bound to it and the
\* attempt starts with a stream of its own.
Recruit ==
    /\ Scanning
    /\ CandidateAt(session) \notin Excluded
    /\ \E eligibility \in Eligibility : Admitted(eligibility)
    /\ session' = Heard(NextScanPosition(session), CandidateAt(session), "recruited")
    /\ affinity' = IF request.keyed /\ ~request.onPin THEN CandidateAt(session) ELSE affinity
    /\ round' = [round EXCEPT !.count = @ + 1]
    /\ stream' = [IdleStream EXCEPT !.account = CandidateAt(session)]
    /\ tried' = tried + 1
    /\ pc' = "call"
    /\ UNCHANGED <<request, execution, planFailure, permitUsed, pending, client, result, history>>

\* A broken snapshot, a runtime or storage error, a context that is done.
ScanFails ==
    /\ pc = "scan" /\ round.count < AttemptLimit
    /\ RoundFailed(round.failure)
    /\ UNCHANGED <<request, roundState, planFailure, permitUsed, pending, client, result,
                   affinity, history>>

\* The round is over without an answer: the pool is exhausted, or the
\* attempts are.
RoundOver(onlyDeferred) ==
    Executed([NotExecuted EXCEPT !.failure = round'.failure,
                                 !.exhausted = ScanExhausted(session),
                                 !.onlyDeferred = onlyDeferred])

EndRound ==
    /\ pc = "scan"
    /\ ScanExhausted(session) \/ round.count = AttemptLimit
    /\ UNCHANGED roundState
    /\ RoundOver(round.count > 0 /\ round.onlyDeferred)
    /\ UNCHANGED <<request, planFailure, permitUsed, pending, client, result, affinity, history>>

(***************************************************************************)
(* One attempt: attemptStream, runUpstreamAttempt, the plugin stage.       *)
(***************************************************************************)

\* What an encoder of a client protocol accepts: nothing after a terminal
\* event, and only the next number of the sequence. Every attempt numbers
\* its events from 0, so it is the next number within one attempt only.
Accepts(attempt) == client.terminal = "none" /\ client.by \in {NoAttempt, attempt}

Delivered(attempt, terminal) == client' = [by |-> attempt, terminal |-> terminal]

Streaming == pc = "call" /\ ~stream.broken /\ stream.terminal = "none"

\* Accept of an event that is not terminal: forwarded at once.
Forward ==
    /\ Streaming /\ Accepts(tried)
    /\ ~stream.shown
    /\ Delivered(tried, "none")
    /\ stream' = [stream EXCEPT !.shown = TRUE]
    /\ UNCHANGED <<pc, request, session, round, tried, execution, planFailure, permitUsed,
                   pending, result, affinity, history>>

\* The sink refuses the event, or the client is gone; an event out of order.
Break ==
    /\ Streaming
    /\ stream' = [stream EXCEPT !.broken = TRUE]
    /\ UNCHANGED <<pc, request, session, round, tried, execution, planFailure, permitUsed,
                   pending, client, result, affinity, history>>

\* Accept of a terminal event: kept until the outcome is recorded.
Hold ==
    /\ Streaming
    /\ \E terminal \in {"completed", "failed"} : stream' = [stream EXCEPT !.terminal = terminal]
    /\ UNCHANGED <<pc, request, session, round, tried, execution, planFailure, permitUsed,
                   pending, client, result, affinity, history>>

\* The attempt ends the round with an error: what was kept back may only
\* follow if this attempt wrote nothing.
AttemptFailed == RoundFailed(IF stream.shown THEN NoAttempt ELSE round.failure)

\* ForgetPending: this account's own ambiguous failure is disproved.
Forgotten(failures) == failures \ {ThisAttempt}

\* The stream broke, the adapter returned an error or an invalid result, a
\* gateway.attempt plugin refused the attempt; or the adapter reported a
\* completion that its stream does not hold.
AttemptErrs ==
    /\ pc = "call"
    /\ AttemptFailed
    /\ \/ UNCHANGED <<pending, ambiguous>>
       \/ /\ stream.terminal # "completed"
          /\ pending' = Forgotten(pending) /\ ambiguous' = Forgotten(ambiguous)
    /\ UNCHANGED <<request, roundState, planFailure, permitUsed, client, result, affinity,
                   blamed, winner>>

\* Mutant: what the sink answers is ignored.
FlushUnchecked(terminal) ==
    /\ Answered
    /\ \/ Accepts(tried) /\ Delivered(tried, terminal)
       \/ UNCHANGED client

\* FlushTerminal of the current attempt, as the last step of its outcome.
FlushTerminal(terminal) ==
    \/ /\ Accepts(tried)
       /\ Delivered(tried, terminal)
       /\ Answered
    \/ AttemptFailed /\ UNCHANGED client

\* RecordFailure for deferred failures: each is written, or dropped because
\* its credential is no longer the current one; an error leaves the rest.
Charge(due) ==
    /\ \E written \in SUBSET due : blamed' = blamed \cup written
    /\ pending' = {}

\* FinalizeSuccess: the failures of other accounts on the same model are
\* theirs, for this account did what they did not.
DueOnSuccess(failures) == {f \in failures : f.route = CurrentRoute}

\* Mutant: the failures of several accounts are charged to all of them.
DueAll(failures) == failures

\* FinalizeFailure: an ambiguous failure is an account's own if no other
\* account failed the same way on the same model.
DueOnFailure(failures) ==
    {f \in failures : \A g \in failures : g.route = f.route => g.account = f.account}

\* CompletedAttempt: forget this account's own ambiguous failure, charge the
\* others, record the success, deliver the terminal event.
Complete ==
    /\ pc = "call" /\ ~stream.broken /\ stream.terminal = "completed"
    /\ winner' = ThisAttempt
    /\ Charge(DueOnSuccess(Forgotten(pending)))
    /\ FlushTerminal("completed")
    /\ UNCHANGED <<request, roundState, planFailure, permitUsed, result, affinity, ambiguous>>

\* requestAccountFailureRecorder.Record; a failure that is not deferred is
\* written to the runtime at once, which is the environment here.
Recorded(failure) == IF failure.deferred THEN {ThisAttempt} ELSE {}

TakesFailure == pc = "call" /\ ~stream.broken /\ stream.terminal \in {"none", "failed"}

\* Mutant: what the client has seen is not asked.
RetriesAnyway(failure) == failure.retries

\* May another account be tried after this failure?
Retries(failure) == failure.retries /\ ~stream.shown

\* failAttempt keeps the failure back and the round goes on, or is over.
KeepFailure ==
    /\ TakesFailure
    /\ \E failure \in Failures(CurrentRoute) :
        /\ Retries(failure)
        /\ pending' = pending \cup Recorded(failure)
        /\ ambiguous' = ambiguous \cup Recorded(failure)
        /\ round' = [round EXCEPT !.failure = tried,
                                  !.onlyDeferred = @ /\ failure.deferred]
    /\ stream' = [stream EXCEPT !.terminal = "failed"]
    /\ IF ScanExhausted(session)
       THEN RoundOver(round'.onlyDeferred)
       ELSE pc' = "scan" /\ UNCHANGED execution
    /\ UNCHANGED <<request, session, tried, planFailure, permitUsed, client, result, affinity,
                   blamed, winner>>

\* failAttempt commits the failure, because it may not be retried, or
\* because a gateway.attempt plugin stops the failover.
CommitFailure ==
    /\ TakesFailure
    /\ \E failure \in Failures(CurrentRoute) :
        /\ Charge(DueOnFailure(pending \cup Recorded(failure)))
        /\ ambiguous' = ambiguous \cup Recorded(failure)
    /\ FlushTerminal("failed")
    /\ UNCHANGED <<request, roundState, planFailure, permitUsed, result, affinity, winner>>

(***************************************************************************)
(* What follows a route's execution: executeRoute and executePlan.         *)
(***************************************************************************)

Unanswered == pc = "settle" /\ ~execution.error /\ ~execution.terminal

\* claimPoolRetry: a second round for an agy pool all of whose failures were
\* ambiguous, once in a request and never for a pinned one.
CanRetryPool ==
    /\ CurrentRoute \in Agy
    /\ request.pin = NoAccount
    /\ ~permitUsed
    /\ execution.failure # NoAttempt /\ execution.exhausted /\ execution.onlyDeferred

\* The locals of executeRouteRound, executeRoute and their results are gone.
LocalsGone ==
    /\ session' = IdleSession /\ round' = FirstRound /\ stream' = IdleStream
    /\ execution' = NotExecuted

NextRound ==
    /\ pc' = "route"
    /\ LocalsGone
    /\ UNCHANGED <<tried, pending, client, result, affinity, history>>

\* The second round replaces what the first one returned.
RetryPool ==
    /\ Unanswered /\ CanRetryPool
    /\ permitUsed' = TRUE
    /\ NextRound
    /\ UNCHANGED <<request, planFailure>>

\* The wait before it is cut short: by the budget of the second round, which
\* leaves the first round's outcome, or with the request, which is an error.
RetryCutShort ==
    /\ Unanswered /\ CanRetryPool
    /\ permitUsed' = TRUE
    /\ execution' \in {execution, [execution EXCEPT !.error = TRUE]}
    /\ UNCHANGED <<pc, request, roundState, planFailure, pending, client, result, affinity,
                   history>>

\* The last failure that was kept back, over all routes.
LastFailure == IF execution.failure # NoAttempt THEN execution.failure ELSE planFailure

NextExecution(req) ==
    /\ request' = req
    /\ planFailure' = LastFailure
    /\ NextRound
    /\ UNCHANGED permitUsed

\* shouldFallBackFromPin: the same route without the pin, and without the
\* account that was pinned. Here and in claimPoolRetry the code also asks
\* that the failure kept back is unseen, as failAttempt has already done.
FallBackFromPin ==
    /\ Unanswered /\ ~CanRetryPool
    /\ request.onPin
    /\ NextExecution([request EXCEPT !.onPin = FALSE])

NextRoute ==
    /\ Unanswered /\ ~CanRetryPool
    /\ ~request.onPin
    /\ request.pos < Len(request.plan)
    /\ NextExecution([request EXCEPT !.pos = @ + 1, !.onPin = request.pin # NoAccount])

Returns(value) ==
    /\ result' = value
    /\ pc' = "idle"
    /\ LocalsGone
    /\ request' = IdleRequest
    /\ planFailure' = NoAttempt
    /\ permitUsed' = FALSE
    /\ UNCHANGED <<tried, affinity>>

\* The route answered the client.
ReturnAnswered ==
    /\ pc = "settle" /\ execution.terminal
    /\ Returns("nil")
    /\ UNCHANGED <<pending, client, history>>

\* Flushing a failure that was kept back, at the end of the plan.
FlushKept ==
    /\ LastFailure # NoAttempt /\ Accepts(LastFailure)
    /\ Delivered(LastFailure, "failed")
    /\ Returns("nil")

NotFlushed(value) == Returns(value) /\ UNCHANGED client

\* finishInterruptedPlan: charge what can be charged, then deliver the last
\* failure that was kept back in place of the error.
ReturnInterrupted ==
    /\ pc = "settle" /\ execution.error
    /\ Charge(DueOnFailure(pending))
    /\ FlushKept \/ NotFlushed("error")
    /\ UNCHANGED <<ambiguous, winner>>

\* finishExhaustedPlan: no route answered.
ReturnExhausted ==
    /\ Unanswered /\ ~CanRetryPool
    /\ ~request.onPin /\ request.pos = Len(request.plan)
    /\ Charge(DueOnFailure(pending))
    /\ \/ FlushKept
       \/ LastFailure = NoAttempt /\ NotFlushed("no_routable_account")
       \/ (LastFailure # NoAttempt \/ pending # {}) /\ NotFlushed("error")
    /\ UNCHANGED <<ambiguous, winner>>

(***************************************************************************)
(* The specification.                                                      *)
(***************************************************************************)
Round ==
    \/ BeginRecruitment \/ BeginFails
    \/ SkipCandidate \/ PutOffCandidate \/ Recruit \/ ScanFails \/ EndRound

Attempt ==
    \/ Forward \/ Break \/ Hold
    \/ AttemptErrs \/ Complete \/ KeepFailure \/ CommitFailure

Settle ==
    \/ RetryPool \/ RetryCutShort \/ FallBackFromPin \/ NextRoute
    \/ ReturnAnswered \/ ReturnInterrupted \/ ReturnExhausted

Step == Round \/ Attempt \/ Settle

Next == Execute \/ Rebind \/ Step

Spec == Init /\ [][Next]_vars

\* Execute runs on a goroutine of its own and every wait in it is bounded by
\* the request's context, the pool retry budget or the transport.
Fairness == WF_vars(Step)

FairSpec == Spec /\ Fairness

(***************************************************************************)
(* Properties.                                                             *)
(***************************************************************************)
TypeOK ==
    /\ pc \in {"idle", "route", "scan", "call", "settle"}
    /\ request \in [plan : Plan \cup {<<>>}, pos : Nat, pin : Account \cup {NoAccount},
                    onPin : BOOLEAN, keyed : BOOLEAN, preserve : BOOLEAN]
    /\ pc # "idle" => request.plan \in Plan /\ request.pos \in 1 .. Len(request.plan)
    /\ session \in Session
    /\ round \in [count : 0 .. AttemptLimit, failure : 0 .. tried, onlyDeferred : BOOLEAN]
    /\ stream \in [account : Account \cup {NoAccount}, shown : BOOLEAN, broken : BOOLEAN,
                   terminal : {"none", "completed", "failed"}]
    /\ execution \in [error : BOOLEAN, terminal : BOOLEAN, failure : 0 .. tried,
                      exhausted : BOOLEAN, onlyDeferred : BOOLEAN]
    /\ planFailure \in 0 .. tried
    /\ permitUsed \in BOOLEAN
    /\ tried \in Nat
    /\ client \in [by : 0 .. tried, terminal : {"none", "completed", "failed"}]
    /\ result \in {"none", "pending", "nil", "error", "no_routable_account"}
    /\ affinity \in Account \cup {NoAccount}
    /\ pending \in SUBSET Failed /\ ambiguous \in SUBSET Failed /\ blamed \in SUBSET Failed
    /\ winner \in Failed \cup {NoWinner}

\* Another account, another round or another route is only tried while the
\* client has seen nothing (coordinator.go failAttempt, shouldFallBackFromPin,
\* claimPoolRetry, executePlan): output is never started twice.
RetriesUnseen == pc \in {"route", "scan"} => client = NothingSeen

\* An ambiguous failure is charged to an account only on evidence: another
\* account completed the request on the same model, or no other account
\* failed the same way on it (request_account_failure_recorder.go). The
\* account that completed the request is never charged.
BlameIsEarned ==
    \A f \in blamed :
        \/ f.route = winner.route /\ f.account # winner.account
        \/ \A g \in ambiguous : g.route = f.route => g.account = f.account

\* A round that reports its pool exhausted has asked every candidate, and
\* left none out just because a soft cooldown held it back
\* (soft_cooldown_fallback.go, scanExhausted).
ExhaustedMeansTried ==
    pc = "settle" /\ execution.exhausted =>
        \A a \in Account : session.answers[a] # "soft"

\* A request with encrypted reasoning goes to another account than the one
\* its conversation is bound to only after that one was refused or tried
\* (recruiter.go admits).
EncryptedStaysHome ==
    pc = "call" /\ request.preserve /\ session.home # NoAccount =>
        session.answers[session.home] \in {"refused", "recruited"}

\* Within a session an account is called at most once, the replay of put-off
\* candidates included (soft_cooldown_fallback.go:14).
OncePerSession ==
    [][pc = "scan" /\ pc' = "call" =>
        session.answers[stream'.account] \notin {"refused", "recruited"}]_vars

\* Execute answers its client as RequestAnswer promises.
Promise == INSTANCE RequestAnswer WITH
    outcome <- IF result = "no_routable_account" THEN "error" ELSE result,
    by <- client.by,
    terminal <- client.terminal

AnswersOnce == Promise!Spec

\* Every request returns.
RequestsReturn == pc # "idle" ~> pc = "idle"

\* ErrNoRoutableAccount is only reported if no account was called: the last
\* failure that is safe to deliver is kept (coordinator.go executePlan).
FailureReported == pc = "idle" /\ result = "no_routable_account" => tried = 0

=============================================================================
