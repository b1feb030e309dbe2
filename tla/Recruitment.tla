----------------------------- MODULE Recruitment -----------------------------
(***************************************************************************)
(* The recruitment session of one round of a request:                      *)
(* application/accountrouting (recruiter.go, soft_cooldown_fallback.go,    *)
(* preference.go). A session fixes a snapshot of the candidates and the    *)
(* order to scan them in. Accounts that only a soft cooldown holds back    *)
(* are put off, and replayed once the scan has come to its end.            *)
(*                                                                         *)
(* Positions of the snapshot are written as the accounts that stand there: *)
(* a snapshot holds an account once.                                       *)
(***************************************************************************)
EXTENDS Integers, Sequences, FiniteSets

CONSTANTS
    Account,
    NoAccount

ASSUME AccountAssumption == IsFiniteSet(Account) /\ NoAccount \notin Account

\* What CheckEligibility may answer. A throttle is a model cooldown of kind
\* rate_limited or model_overloaded; a soft cooldown is one of another kind.
Eligibility == {"eligible", "soft", "throttled", "blocked"}

\* What the session has had from an account so far (the last three are for
\* the properties; the code keeps no such record).
Answer == {"unseen", "refused", "soft", "recruited"}

Session ==
    [ahead    : Seq(Account),              \* positions not scanned yet
     deferred : Seq(Account),              \* positions put off
     engaged  : BOOLEAN,                   \* the replay has begun
     home     : Account \cup {NoAccount},  \* the account of the conversation
     answers  : [Account -> Answer]]

\* The orders preferredOrder may return: the conversation's account first,
\* then whatever accounts a gateway.account plugin prefers, in its order,
\* then the rest. As a plugin may rank every candidate, any order of the
\* rest can occur; the ring from the ticket of the scheduler is one of them.
ScanOrders(pool, home) ==
    {order \in [1 .. Cardinality(pool) -> pool] :
        /\ \A i, j \in DOMAIN order : order[i] = order[j] => i = j
        /\ home # NoAccount => order[1] = home}

NewSession(order, home) ==
    [ahead    |-> order,
     deferred |-> <<>>,
     engaged  |-> FALSE,
     home     |-> home,
     answers  |-> [a \in Account |-> "unseen"]]

\* Mutant: the candidates put off are not looked at.
AheadExhausted(session) == session.ahead = <<>>

\* Neither positions ahead nor put off: sourceExhausted.
ScanExhausted(session) == session.ahead = <<>> /\ session.deferred = <<>>

CandidateAt(session) ==
    IF session.ahead # <<>> THEN Head(session.ahead) ELSE Head(session.deferred)

\* Mutant: the replay does not move its cursor.
NextScanPositionReplaysFirst(session) ==
    IF session.ahead # <<>>
    THEN [session EXCEPT !.ahead = Tail(@)]
    ELSE [session EXCEPT !.engaged = TRUE]

\* Mutant: the replay scans again without opening the escape valve.
NextScanPositionRescans(session) ==
    IF session.ahead # <<>>
    THEN [session EXCEPT !.ahead = Tail(@)]
    ELSE [session EXCEPT !.ahead = Tail(session.deferred), !.deferred = <<>>]

\* Taking the next position; replaying engages the escape valve for good.
NextScanPosition(session) ==
    IF session.ahead # <<>>
    THEN [session EXCEPT !.ahead = Tail(@)]
    ELSE [session EXCEPT !.deferred = Tail(@), !.engaged = TRUE]

\* Mutant: the conversation's account yields like any other.
AdmitsWithoutHome(session, candidate, eligibility, preserveAffinity) ==
    \/ eligibility = "eligible"
    \/ eligibility = "soft" /\ session.engaged

\* May this candidate's credential be resolved? Soft cooldowns yield to the
\* replay, and to a conversation that must stay with its account.
Admits(session, candidate, eligibility, preserveAffinity) ==
    \/ eligibility = "eligible"
    \/ /\ eligibility = "soft"
       /\ \/ session.engaged
          \/ preserveAffinity /\ candidate = session.home

Heard(session, candidate, answer) ==
    [session EXCEPT !.answers[candidate] = answer]

DeferCandidate(session, candidate) ==
    [session EXCEPT !.deferred = Append(@, candidate),
                    !.answers[candidate] = "soft"]

=============================================================================
