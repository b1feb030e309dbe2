---------------------- MODULE InferenceCoordinatorProofs ----------------------
(***************************************************************************)
(* The theorems of InferenceCoordinator, for any accounts, routes, plans   *)
(* and attempt limit. The inductive invariant has four parts besides the   *)
(* types: what the client has seen at each step, which ambiguous failures  *)
(* are still waiting, what a session has heard of its candidates, and what *)
(* an exhausted round knows.                                               *)
(***************************************************************************)
EXTENDS InferenceCoordinator, FiniteSetTheorems, SequenceTheorems, TLAPS
-------------------------------------------------------------------------------
(***************************************************************************)
(* The inductive invariant.                                                *)
(***************************************************************************)

\* What locals hold where they are out of scope in the code.
LocalsInv ==
    /\ pc \in {"idle", "route"} =>
          session = IdleSession /\ round = FirstRound /\ execution = NotExecuted
    /\ pc = "idle" => planFailure = NoAttempt
    /\ pc = "call" => stream.account \in Account /\ tried # NoAttempt

\* What the client has seen, at each step.
SeenInv ==
    /\ result = "pending" <=> pc # "idle"
    /\ pc \in {"route", "scan"} => client = NothingSeen
    /\ pc = "call" =>
          client = [by |-> IF stream.shown THEN tried ELSE NoAttempt, terminal |-> "none"]
    /\ Unanswered => client = NothingSeen
    /\ pc = "settle" /\ execution.error => client.terminal = "none"
    /\ pc = "settle" /\ execution.terminal =>
          client.terminal # "none" /\ ~execution.error
    /\ client.terminal # "none" => client.by # NoAttempt

\* Nothing is decided yet: every ambiguous failure still waits.
Undecided == pending = ambiguous /\ blamed = {} /\ winner = NoWinner

StillOpen == pc # "idle" /\ (pc = "settle" => ~execution.terminal)

\* Ambiguous failures wait until the request is decided, and are charged then.
BlameInv ==
    \/ Undecided /\ StillOpen
    \/ /\ pending = {} /\ BlameIsEarned
       /\ pc = "idle" \/ (pc = "settle" /\ ~Unanswered)

\* What a session has heard of the candidates ahead, put off and passed.
SessionSound(s) ==
    /\ \A i \in DOMAIN s.ahead : s.answers[s.ahead[i]] = "unseen"
    /\ \A i, j \in DOMAIN s.ahead : s.ahead[i] = s.ahead[j] => i = j
    /\ \A i \in DOMAIN s.deferred : s.answers[s.deferred[i]] = "soft"
    /\ \A i, j \in DOMAIN s.deferred : s.deferred[i] = s.deferred[j] => i = j
    /\ \A a \in Account :
          s.answers[a] = "soft" => \E i \in DOMAIN s.deferred : s.deferred[i] = a

\* The conversation's account is asked first, and waits for no replay if the
\* request carries encrypted reasoning.
HomeFirst(s, preserve) ==
    s.home # NoAccount =>
        /\ s.answers[s.home] = "unseen" => s.ahead # <<>> /\ Head(s.ahead) = s.home
        /\ preserve => s.answers[s.home] # "soft"

SessionInv ==
    /\ SessionSound(session)
    /\ HomeFirst(session, request.preserve)
    /\ pc = "settle" /\ execution.exhausted => ScanExhausted(session)
    /\ EncryptedStaysHome

IndInv == TypeOK /\ LocalsInv /\ SeenInv /\ BlameInv /\ SessionInv

USE DEF NoAttempt
-------------------------------------------------------------------------------
(***************************************************************************)
(* Lemmas about the session and the request.                               *)
(***************************************************************************)
LEMMA IdleTyped ==
    /\ IdleSession \in Session /\ SessionSound(IdleSession)
    /\ IdleSession.home = NoAccount
    /\ \A a \in Account : IdleSession.answers[a] = "unseen"
  BY DEF IdleSession, NewSession, Session, SessionSound, Answer

\* A snapshot in any of the orders preferredOrder may return is a fresh,
\* sound session that has the conversation's account first.
LEMMA NewSessionSound ==
    ASSUME NEW pool \in SUBSET Account, NEW home \in pool \cup {NoAccount},
           NEW order \in ScanOrders(pool, home), NEW preserve \in BOOLEAN
    PROVE  /\ NewSession(order, home) \in Session
           /\ SessionSound(NewSession(order, home))
           /\ HomeFirst(NewSession(order, home), preserve)
  <1> DEFINE n == Cardinality(pool)
  <1>1. IsFiniteSet(pool) /\ n \in Nat
    BY AccountAssumption, FS_Subset, FS_CardinalityType
  <1>2. order \in [1 .. n -> pool]
    BY DEF ScanOrders
  <1>3. order \in Seq(Account) /\ DOMAIN order = 1 .. n /\ Len(order) = n
    BY <1>1, <1>2
  <1>4. NewSession(order, home) \in Session
    BY <1>3 DEF NewSession, Session, Answer
  <1>5. SessionSound(NewSession(order, home))
    BY <1>2, <1>3 DEF NewSession, SessionSound, ScanOrders
  <1>6. ASSUME home # NoAccount PROVE order # <<>> /\ Head(order) = home
    <2>1. n # 0
      BY <1>1, <1>6, FS_EmptySet
    <2>2. order[1] = home
      BY <1>6 DEF ScanOrders
    <2> QED
      BY <1>1, <1>3, <2>1, <2>2
  <1>7. HomeFirst(NewSession(order, home), preserve)
    BY <1>6, AccountAssumption DEF HomeFirst, NewSession
  <1> QED
    BY <1>4, <1>5, <1>7

\* The candidate that is next, and what is left of the session after it.
LEMMA CandidateTyped ==
    ASSUME NEW s \in Session, ~ScanExhausted(s)
    PROVE  CandidateAt(s) \in Account
  BY DEF ScanExhausted, CandidateAt, Session

\* There is a next candidate while a session is not exhausted.
LEMMA NextTyped ==
    ASSUME NEW s \in Session, ~ScanExhausted(s)
    PROVE  /\ NextScanPosition(s) \in Session
           /\ NextScanPosition(s).answers = s.answers
           /\ NextScanPosition(s).home = s.home
           /\ s.ahead # <<>> =>
                 /\ NextScanPosition(s).ahead = Tail(s.ahead)
                 /\ NextScanPosition(s).deferred = s.deferred
           /\ s.ahead = <<>> =>
                 /\ NextScanPosition(s).ahead = <<>>
                 /\ NextScanPosition(s).deferred = Tail(s.deferred)
                 /\ NextScanPosition(s).engaged
  <1>1. CASE s.ahead # <<>>
    <2>1. Tail(s.ahead) \in Seq(Account)
      BY <1>1 DEF Session
    <2> QED
      BY <1>1, <2>1 DEF NextScanPosition, Session
  <1>2. CASE s.ahead = <<>>
    <2>1. Tail(s.deferred) \in Seq(Account)
      BY <1>2 DEF Session, ScanExhausted
    <2> QED
      BY <1>2, <2>1 DEF NextScanPosition, Session
  <1> QED
    BY <1>1, <1>2

\* Hearing of a candidate, or putting it off, leaves a session.
LEMMA HeardTyped ==
    ASSUME NEW s \in Session, NEW a \in Account
    PROVE  /\ \A answer \in Answer : Heard(s, a, answer) \in Session
           /\ DeferCandidate(s, a) \in Session
  <1>1. \A answer \in Answer :
            [s.answers EXCEPT ![a] = answer] \in [Account -> Answer]
    BY DEF Session
  <1>2. Append(s.deferred, a) \in Seq(Account)
    BY DEF Session
  <1>3. "soft" \in Answer
    BY DEF Answer
  <1> QED
    BY <1>1, <1>2, <1>3 DEF Heard, DeferCandidate, Session

\* What is left of a sequence without repetitions, after its head.
LEMMA TailDistinct ==
    ASSUME NEW q \in Seq(Account), q # <<>>,
           \A i, j \in DOMAIN q : q[i] = q[j] => i = j
    PROVE  /\ \A i, j \in DOMAIN Tail(q) : Tail(q)[i] = Tail(q)[j] => i = j
           /\ \A i \in DOMAIN Tail(q) :
                 Tail(q)[i] # Head(q) /\ \E k \in DOMAIN q : q[k] = Tail(q)[i]
           /\ \A k \in DOMAIN q :
                 q[k] = Head(q) \/ \E i \in DOMAIN Tail(q) : Tail(q)[i] = q[k]
  <1>1. Len(q) \in Nat \ {0} /\ Tail(q) \in Seq(Account) /\ Head(q) = q[1]
    OBVIOUS
  <1>2. DOMAIN q = 1 .. Len(q) /\ DOMAIN Tail(q) = 1 .. Len(q) - 1
    BY <1>1
  <1>3. \A i \in 1 .. Len(q) - 1 : Tail(q)[i] = q[i + 1]
    BY <1>1
  <1>4. \A k \in 1 .. Len(q) : k = 1 \/ (k - 1 \in 1 .. Len(q) - 1 /\ Tail(q)[k - 1] = q[k])
    <2> TAKE k \in 1 .. Len(q)
    <2>1. k = 1 \/ (k - 1 \in 1 .. Len(q) - 1 /\ k - 1 + 1 = k)
      BY <1>1
    <2> QED
      BY <1>3, <2>1
  <1>5. \A i \in 1 .. Len(q) - 1 : i + 1 \in DOMAIN q /\ i + 1 # 1 /\ 1 \in DOMAIN q
    BY <1>1, <1>2
  <1>6. \A i \in DOMAIN Tail(q) :
            Tail(q)[i] # Head(q) /\ \E k \in DOMAIN q : q[k] = Tail(q)[i]
    BY <1>1, <1>2, <1>3, <1>5
  <1>7. \A i, j \in DOMAIN Tail(q) : Tail(q)[i] = Tail(q)[j] => i = j
    <2> TAKE i, j \in DOMAIN Tail(q)
    <2> HAVE Tail(q)[i] = Tail(q)[j]
    <2>1. i + 1 = j + 1
      BY <1>2, <1>3, <1>5
    <2> QED
      BY <1>2, <2>1
  <1>8. \A k \in DOMAIN q : q[k] = Head(q) \/ \E i \in DOMAIN Tail(q) : Tail(q)[i] = q[k]
    BY <1>1, <1>2, <1>4
  <1> QED
    BY <1>6, <1>7, <1>8

\* The candidate has not been refused or tried before in this session.
LEMMA CandidateFresh ==
    ASSUME NEW s \in Session, SessionSound(s), ~ScanExhausted(s)
    PROVE  /\ s.ahead # <<>> => s.answers[CandidateAt(s)] = "unseen"
           /\ s.ahead = <<>> => s.answers[CandidateAt(s)] = "soft"
  BY DEF Session, SessionSound, ScanExhausted, CandidateAt

\* Passing the candidate, refused or recruited.
LEMMA PassingSound ==
    ASSUME NEW s \in Session, SessionSound(s), ~ScanExhausted(s),
           NEW preserve \in BOOLEAN, HomeFirst(s, preserve),
           NEW answer \in {"refused", "recruited"}
    PROVE  LET t == Heard(NextScanPosition(s), CandidateAt(s), answer)
           IN /\ t \in Session /\ SessionSound(t) /\ HomeFirst(t, preserve)
              /\ t.home # NoAccount => t.answers[t.home] # "unseen"
  <1> DEFINE c == CandidateAt(s)
             n == NextScanPosition(s)
             t == Heard(n, c, answer)
  <1> USE CandidateTyped, NextTyped
  <1>1. c \in Account /\ n \in Session
    OBVIOUS
  <1>2. /\ t \in Session
        /\ t.ahead = n.ahead /\ t.deferred = n.deferred /\ t.home = s.home
        /\ t.answers = [s.answers EXCEPT ![c] = answer]
    BY <1>1 DEF Heard, Session, Answer
  <1>3. /\ t.answers[c] = answer
        /\ \A a \in Account : a # c => t.answers[a] = s.answers[a]
    BY <1>1, <1>2 DEF Session
  <1>4. SessionSound(t)
    <2>1. CASE s.ahead # <<>>
      <3>1. c = Head(s.ahead) /\ t.ahead = Tail(s.ahead) /\ t.deferred = s.deferred
        BY <1>2, <2>1 DEF CandidateAt
      <3>2. s.answers[c] = "unseen"
        BY CandidateFresh, <2>1
      <3>3. \A i \in DOMAIN s.deferred : s.deferred[i] # c /\ s.deferred[i] \in Account
        BY <3>2 DEF SessionSound, Session
      <3>4. s.ahead \in Seq(Account) /\ \A i \in DOMAIN s.ahead : s.ahead[i] \in Account
        BY DEF Session
      <3>5. /\ \A i, j \in DOMAIN t.ahead : t.ahead[i] = t.ahead[j] => i = j
            /\ \A i \in DOMAIN t.ahead :
                  t.ahead[i] # c /\ \E k \in DOMAIN s.ahead : s.ahead[k] = t.ahead[i]
        <4>1. \A i, j \in DOMAIN s.ahead : s.ahead[i] = s.ahead[j] => i = j
          BY DEF SessionSound
        <4> HIDE DEF c, t
        <4> QED
          BY <2>1, <3>1, <3>4, <4>1, TailDistinct
      <3>6. \A i \in DOMAIN t.ahead : t.answers[t.ahead[i]] = "unseen"
        BY <1>3, <3>4, <3>5 DEF SessionSound
      <3> QED
        BY <1>1, <1>3, <3>1, <3>3, <3>5, <3>6 DEF SessionSound
    <2>2. CASE s.ahead = <<>>
      <3>1. c = Head(s.deferred) /\ t.ahead = <<>> /\ t.deferred = Tail(s.deferred)
        BY <1>2, <2>2 DEF CandidateAt
      <3>2. /\ s.deferred \in Seq(Account) /\ s.deferred # <<>>
            /\ \A i \in DOMAIN s.deferred : s.deferred[i] \in Account
        BY <2>2 DEF Session, ScanExhausted
      <3>3. /\ \A i, j \in DOMAIN t.deferred : t.deferred[i] = t.deferred[j] => i = j
            /\ \A i \in DOMAIN t.deferred :
                  t.deferred[i] # c /\ \E k \in DOMAIN s.deferred : s.deferred[k] = t.deferred[i]
            /\ \A k \in DOMAIN s.deferred :
                  s.deferred[k] = c \/ \E i \in DOMAIN t.deferred : t.deferred[i] = s.deferred[k]
        <4>1. \A i, j \in DOMAIN s.deferred : s.deferred[i] = s.deferred[j] => i = j
          BY DEF SessionSound
        <4> DEFINE q == s.deferred
        <4>2. /\ \A i, j \in DOMAIN Tail(q) : Tail(q)[i] = Tail(q)[j] => i = j
              /\ \A i \in DOMAIN Tail(q) :
                    Tail(q)[i] # Head(q) /\ \E k \in DOMAIN q : q[k] = Tail(q)[i]
              /\ \A k \in DOMAIN q :
                    q[k] = Head(q) \/ \E i \in DOMAIN Tail(q) : Tail(q)[i] = q[k]
          <5> HIDE DEF q
          <5> QED
            BY <3>2, <4>1, TailDistinct DEF q
        <4> HIDE DEF c, t, n
        <4> QED
          BY <3>1, <4>2
      <3>4. \A i \in DOMAIN t.deferred : t.answers[t.deferred[i]] = "soft"
        BY <1>3, <3>2, <3>3 DEF SessionSound
      <3>5. \A a \in Account :
               t.answers[a] = "soft" => \E i \in DOMAIN t.deferred : t.deferred[i] = a
        BY <1>1, <1>3, <3>3 DEF SessionSound
      <3> QED
        BY <3>1, <3>3, <3>4, <3>5 DEF SessionSound
    <2> QED
      BY <2>1, <2>2
  <1>5. t.home # NoAccount => t.answers[t.home] # "unseen"
    <2> SUFFICES ASSUME t.home # NoAccount, t.answers[t.home] = "unseen" PROVE FALSE
      OBVIOUS
    <2>1. t.home \in Account /\ t.home # c
      BY <1>2, <1>3 DEF Session
    <2>2. s.ahead # <<>> /\ Head(s.ahead) = t.home
      BY <1>2, <1>3, <2>1 DEF HomeFirst
    <2> QED
      BY <2>1, <2>2 DEF CandidateAt
  <1>6. preserve /\ t.home # NoAccount => t.answers[t.home] # "soft"
    <2>1. t.home # NoAccount => t.home \in Account
      BY <1>2 DEF Session
    <2> QED
      BY <1>2, <1>3, <2>1 DEF HomeFirst
  <1> QED
    BY <1>2, <1>4, <1>5, <1>6 DEF HomeFirst

\* Putting the candidate off, which only happens before the replay.
LEMMA PuttingOffSound ==
    ASSUME NEW s \in Session, SessionSound(s), ~ScanExhausted(s),
           NEW preserve \in BOOLEAN, HomeFirst(s, preserve),
           ~Admits(NextScanPosition(s), CandidateAt(s), "soft", preserve)
    PROVE  LET t == DeferCandidate(NextScanPosition(s), CandidateAt(s))
           IN t \in Session /\ SessionSound(t) /\ HomeFirst(t, preserve)
  <1> DEFINE c == CandidateAt(s)
             n == NextScanPosition(s)
             t == DeferCandidate(n, c)
  <1> USE CandidateTyped, NextTyped
  <1>1. c \in Account /\ n \in Session /\ s.ahead # <<>>
    BY DEF Admits
  <1>2. /\ c = Head(s.ahead) /\ n.ahead = Tail(s.ahead) /\ n.deferred = s.deferred
        /\ s.ahead \in Seq(Account) /\ s.deferred \in Seq(Account)
    BY <1>1 DEF CandidateAt, Session
  <1>3. /\ t \in Session
        /\ t.ahead = Tail(s.ahead) /\ t.home = s.home
        /\ t.deferred = Append(s.deferred, c)
        /\ t.answers = [s.answers EXCEPT ![c] = "soft"]
    <2>1. Append(s.deferred, c) \in Seq(Account)
      BY <1>1, <1>2
    <2> QED
      BY <1>1, <1>2, <2>1 DEF DeferCandidate, Session, Answer
  <1>4. /\ t.answers[c] = "soft"
        /\ \A a \in Account : a # c => t.answers[a] = s.answers[a]
    BY <1>1, <1>3 DEF Session
  <1>5. s.answers[c] = "unseen"
    BY CandidateFresh, <1>1
  <1>6. SessionSound(t)
    <2>1. /\ \A i, j \in DOMAIN t.ahead : t.ahead[i] = t.ahead[j] => i = j
          /\ \A i \in DOMAIN t.ahead :
                t.ahead[i] # c /\ \E k \in DOMAIN s.ahead : s.ahead[k] = t.ahead[i]
      <3>1. \A i, j \in DOMAIN s.ahead : s.ahead[i] = s.ahead[j] => i = j
        BY DEF SessionSound
      <3> HIDE DEF c, t
      <3> QED
        BY <1>1, <1>2, <1>3, <3>1, TailDistinct
    <2>2. \A i \in DOMAIN t.ahead : t.answers[t.ahead[i]] = "unseen"
      <3>1. \A i \in DOMAIN s.ahead : s.ahead[i] \in Account
        BY <1>2
      <3> QED
        BY <1>4, <2>1, <3>1 DEF SessionSound
    <2>3. \A i \in DOMAIN s.deferred : s.deferred[i] # c /\ s.deferred[i] \in Account
      BY <1>2, <1>5 DEF SessionSound
    <2>4. /\ DOMAIN t.deferred = 1 .. Len(s.deferred) + 1
          /\ DOMAIN s.deferred = 1 .. Len(s.deferred) /\ Len(s.deferred) \in Nat
          /\ t.deferred[Len(s.deferred) + 1] = c
          /\ \A i \in DOMAIN s.deferred : t.deferred[i] = s.deferred[i]
      <3>1. s.deferred \in Seq(Account) /\ c \in Account /\ t.deferred = Append(s.deferred, c)
        BY <1>1, <1>2, <1>3
      <3> HIDE DEF c, t
      <3> QED
        BY <3>1
    <2>5. \A i \in DOMAIN t.deferred : i \in DOMAIN s.deferred \/ i = Len(s.deferred) + 1
      BY <2>4
    <2>6. \A i, j \in DOMAIN t.deferred : t.deferred[i] = t.deferred[j] => i = j
      BY <2>3, <2>4, <2>5 DEF SessionSound
    <2>7. \A i \in DOMAIN t.deferred : t.answers[t.deferred[i]] = "soft"
      BY <1>4, <2>3, <2>4, <2>5 DEF SessionSound
    <2>8. \A i \in DOMAIN s.deferred : i \in DOMAIN t.deferred
      BY <2>4
    <2>9. Len(s.deferred) + 1 \in DOMAIN t.deferred
      BY <2>4
    <2>10. \A a \in Account :
              t.answers[a] = "soft" => \E i \in DOMAIN t.deferred : t.deferred[i] = a
      BY <1>1, <1>4, <2>4, <2>8, <2>9 DEF SessionSound
    <2> QED
      BY <2>1, <2>2, <2>6, <2>7, <2>10 DEF SessionSound
  <1>7. HomeFirst(t, preserve)
    <2> SUFFICES ASSUME t.home # NoAccount
                 PROVE  /\ t.answers[t.home] # "unseen"
                        /\ preserve => t.answers[t.home] # "soft"
      BY DEF HomeFirst
    <2>1. t.home \in Account /\ t.home = s.home
      BY <1>3 DEF Session
    <2>2. t.answers[t.home] # "unseen"
      BY <1>2, <1>4, <2>1 DEF HomeFirst
    <2>3. preserve => t.home # c
      BY <2>1 DEF Admits
    <2>4. preserve => t.answers[t.home] # "soft"
      BY <1>4, <2>1, <2>3 DEF HomeFirst
    <2> QED
      BY <2>2, <2>4
  <1> QED
    BY <1>3, <1>6, <1>7
-------------------------------------------------------------------------------
(***************************************************************************)
(* Typing.                                                                 *)
(***************************************************************************)
RequestType == [plan : Plan \cup {<<>>}, pos : Nat, pin : Account \cup {NoAccount},
                onPin : BOOLEAN, keyed : BOOLEAN, preserve : BOOLEAN]
RoundType(n) == [count : 0 .. AttemptLimit, failure : 0 .. n, onlyDeferred : BOOLEAN]
StreamType == [account : Account \cup {NoAccount}, shown : BOOLEAN, broken : BOOLEAN,
               terminal : {"none", "completed", "failed"}]
ExecutionType(n) == [error : BOOLEAN, terminal : BOOLEAN, failure : 0 .. n,
                     exhausted : BOOLEAN, onlyDeferred : BOOLEAN]
ClientType(n) == [by : 0 .. n, terminal : {"none", "completed", "failed"}]

\* The type invariant, in the parts that steps change together.
ControlOK ==
    /\ pc \in {"idle", "route", "scan", "call", "settle"}
    /\ request \in RequestType
    /\ pc # "idle" => request.plan \in Plan /\ request.pos \in 1 .. Len(request.plan)
    /\ permitUsed \in BOOLEAN
    /\ result \in {"none", "pending", "nil", "error", "no_routable_account"}
RoundOK ==
    session \in Session /\ round \in RoundType(tried) /\ stream \in StreamType
OutcomeOK ==
    /\ tried \in Nat
    /\ execution \in ExecutionType(tried)
    /\ planFailure \in 0 .. tried
    /\ client \in ClientType(tried)
ChargeOK ==
    /\ affinity \in Account \cup {NoAccount}
    /\ pending \in SUBSET Failed /\ ambiguous \in SUBSET Failed /\ blamed \in SUBSET Failed
    /\ winner \in Failed \cup {NoWinner}

\* The type invariant, in parts that steps change separately.
LEMMA TypeParts ==
    /\ TypeOK <=> ControlOK /\ RoundOK /\ OutcomeOK /\ ChargeOK
    /\ TypeOK' <=> ControlOK' /\ RoundOK' /\ OutcomeOK' /\ ChargeOK'
  BY DEF TypeOK, ControlOK, RoundOK, OutcomeOK, ChargeOK, RequestType, RoundType, StreamType,
         ExecutionType, ClientType

\* The records that steps write.
LEMMA ExecutionTyped ==
    ASSUME NEW n \in Nat
    PROVE  /\ NotExecuted \in ExecutionType(n)
           /\ [NotExecuted EXCEPT !.terminal = TRUE] \in ExecutionType(n)
           /\ \A f \in 0 .. n :
                 [NotExecuted EXCEPT !.error = TRUE, !.failure = f] \in ExecutionType(n)
           /\ \A f \in 0 .. n, e, b \in BOOLEAN :
                 [NotExecuted EXCEPT !.failure = f, !.exhausted = e, !.onlyDeferred = b]
                     \in ExecutionType(n)
           /\ \A x \in ExecutionType(n) :
                 /\ [x EXCEPT !.error = TRUE] \in ExecutionType(n)
                 /\ x.failure \in 0 .. n /\ x.error \in BOOLEAN /\ x.terminal \in BOOLEAN
                 /\ x \in ExecutionType(n + 1)
  <1>1. NotExecuted \in ExecutionType(n)
    BY DEF NotExecuted, ExecutionType
  <1>2. \A x \in ExecutionType(n) : [x EXCEPT !.terminal = TRUE] \in ExecutionType(n)
    BY DEF ExecutionType
  <1>3. \A x \in ExecutionType(n) : [x EXCEPT !.error = TRUE] \in ExecutionType(n)
    BY DEF ExecutionType
  <1>4. \A x \in ExecutionType(n), f \in 0 .. n : [x EXCEPT !.failure = f] \in ExecutionType(n)
    BY DEF ExecutionType
  <1>5. \A x \in ExecutionType(n), e \in BOOLEAN : [x EXCEPT !.exhausted = e] \in ExecutionType(n)
    BY DEF ExecutionType
  <1>6. \A x \in ExecutionType(n), b \in BOOLEAN : [x EXCEPT !.onlyDeferred = b] \in ExecutionType(n)
    BY DEF ExecutionType
  <1>7. ASSUME NEW f \in 0 .. n
        PROVE  [NotExecuted EXCEPT !.error = TRUE, !.failure = f] \in ExecutionType(n)
    <2> DEFINE x == [NotExecuted EXCEPT !.error = TRUE]
    <2>1. [NotExecuted EXCEPT !.error = TRUE, !.failure = f] = [x EXCEPT !.failure = f]
      OBVIOUS
    <2>2. x \in ExecutionType(n)
      BY <1>1, <1>3
    <2> QED
      BY <1>4, <2>1, <2>2
  <1>8. ASSUME NEW f \in 0 .. n, NEW e \in BOOLEAN, NEW b \in BOOLEAN
        PROVE  [NotExecuted EXCEPT !.failure = f, !.exhausted = e, !.onlyDeferred = b]
                   \in ExecutionType(n)
    <2> DEFINE x == [NotExecuted EXCEPT !.failure = f]
               y == [x EXCEPT !.exhausted = e]
    <2>1. [NotExecuted EXCEPT !.failure = f, !.exhausted = e, !.onlyDeferred = b]
             = [y EXCEPT !.onlyDeferred = b]
      OBVIOUS
    <2>2. x \in ExecutionType(n)
      BY <1>1, <1>4
    <2>3. y \in ExecutionType(n)
      BY <1>5, <2>2
    <2> QED
      BY <1>6, <2>1, <2>3
  <1>9. \A x \in ExecutionType(n) :
            /\ x.failure \in 0 .. n /\ x.error \in BOOLEAN /\ x.terminal \in BOOLEAN
            /\ x \in ExecutionType(n + 1)
    BY DEF ExecutionType
  <1> QED
    BY <1>1, <1>2, <1>3, <1>7, <1>8, <1>9

\* A round stays a round when attempts are added to it.
LEMMA RoundTyped ==
    ASSUME NEW n \in Nat
    PROVE  /\ FirstRound \in RoundType(n)
           /\ \A x \in RoundType(n) :
                 /\ x.count \in 0 .. AttemptLimit /\ x.failure \in 0 .. n
                 /\ x.onlyDeferred \in BOOLEAN
                 /\ x.count < AttemptLimit =>
                       [x EXCEPT !.count = @ + 1] \in RoundType(n + 1)
                 /\ \A b \in BOOLEAN :
                       [x EXCEPT !.failure = n, !.onlyDeferred = b] \in RoundType(n)
  <1>1. FirstRound \in RoundType(n)
    BY LimitAssumption DEF FirstRound, RoundType
  <1>2. \A x \in RoundType(n) :
            x.count \in 0 .. AttemptLimit /\ x.failure \in 0 .. n /\ x.onlyDeferred \in BOOLEAN
    BY DEF RoundType
  <1>3. ASSUME NEW x \in RoundType(n), x.count < AttemptLimit
        PROVE  [x EXCEPT !.count = @ + 1] \in RoundType(n + 1)
    BY <1>3, LimitAssumption DEF RoundType
  <1>4. ASSUME NEW x \in RoundType(n), NEW b \in BOOLEAN
        PROVE  [x EXCEPT !.failure = n, !.onlyDeferred = b] \in RoundType(n)
    <2> DEFINE y == [x EXCEPT !.failure = n]
    <2>1. [x EXCEPT !.failure = n, !.onlyDeferred = b] = [y EXCEPT !.onlyDeferred = b]
      OBVIOUS
    <2>2. y \in RoundType(n)
      BY DEF RoundType
    <2>3. \A z \in RoundType(n) : [z EXCEPT !.onlyDeferred = b] \in RoundType(n)
      BY DEF RoundType
    <2> QED
      BY <2>1, <2>2, <2>3
  <1> QED
    BY <1>1, <1>2, <1>3, <1>4

\* What a route's execution is when a round ends.
LEMMA OutcomeTyped ==
    ASSUME tried \in Nat
    PROVE  /\ \A f \in 0 .. tried :
                 RoundFailed(f) => execution' \in ExecutionType(tried) /\ pc' = "settle"
           /\ Answered => execution' \in ExecutionType(tried) /\ pc' = "settle"
           /\ \A b \in BOOLEAN :
                 round'.failure \in 0 .. tried /\ RoundOver(b) =>
                     execution' \in ExecutionType(tried) /\ pc' = "settle"
           /\ round \in RoundType(tried) /\ AttemptFailed =>
                 execution' \in ExecutionType(tried) /\ pc' = "settle"
  <1>1. ASSUME NEW f \in 0 .. tried, RoundFailed(f)
        PROVE  execution' \in ExecutionType(tried) /\ pc' = "settle"
    BY <1>1, ExecutionTyped DEF RoundFailed, Executed
  <1>2. ASSUME Answered PROVE execution' \in ExecutionType(tried) /\ pc' = "settle"
    BY <1>2, ExecutionTyped DEF Answered, Executed
  <1>3. ASSUME NEW b \in BOOLEAN, round'.failure \in 0 .. tried, RoundOver(b)
        PROVE  execution' \in ExecutionType(tried) /\ pc' = "settle"
    <2>1. ScanExhausted(session) \in BOOLEAN
      BY DEF ScanExhausted
    <2> DEFINE f == round'.failure
               e == ScanExhausted(session)
    <2>2. execution' = [NotExecuted EXCEPT !.failure = f, !.exhausted = e, !.onlyDeferred = b]
      BY <1>3 DEF RoundOver, Executed
    <2>3. f \in 0 .. tried /\ e \in BOOLEAN
      BY <1>3, <2>1
    <2> HIDE DEF f, e
    <2>4. execution' \in ExecutionType(tried)
      BY <2>2, <2>3, ExecutionTyped
    <2> QED
      BY <1>3, <2>4 DEF RoundOver, Executed
  <1>4. ASSUME round \in RoundType(tried), AttemptFailed
        PROVE  execution' \in ExecutionType(tried) /\ pc' = "settle"
    <2>1. round.failure \in 0 .. tried /\ 0 \in 0 .. tried
      BY <1>4 DEF RoundType
    <2>2. PICK f \in 0 .. tried : RoundFailed(f)
      BY <1>4, <2>1 DEF AttemptFailed
    <2> QED
      BY <1>1, <2>2
  <1> QED
    BY <1>1, <1>2, <1>3, <1>4

\* Every value that a step gives the stream is one.
LEMMA StreamTyped ==
    /\ IdleStream \in StreamType
    /\ \A a \in Account : [IdleStream EXCEPT !.account = a] \in StreamType
    /\ \A x \in StreamType :
          /\ x.account \in Account \cup {NoAccount} /\ x.shown \in BOOLEAN
          /\ [x EXCEPT !.shown = TRUE] \in StreamType
          /\ [x EXCEPT !.broken = TRUE] \in StreamType
          /\ \A t \in {"none", "completed", "failed"} : [x EXCEPT !.terminal = t] \in StreamType
  BY DEF IdleStream, StreamType

\* What the client has seen stays typed as attempts are added.
LEMMA ClientTyped ==
    ASSUME NEW n \in Nat
    PROVE  /\ NothingSeen \in ClientType(n)
           /\ \A k \in 0 .. n, t \in {"none", "completed", "failed"} :
                 [by |-> k, terminal |-> t] \in ClientType(n)
           /\ \A x \in ClientType(n) : x \in ClientType(n + 1)
  BY DEF NothingSeen, ClientType

\* Every value that a step gives the request is one.
LEMMA RequestTyped ==
    /\ IdleRequest \in RequestType
    /\ \A x \in RequestType :
          /\ x.pos \in Nat /\ x.onPin \in BOOLEAN /\ x.preserve \in BOOLEAN
          /\ x.pin \in Account \cup {NoAccount}
          /\ [x EXCEPT !.onPin = FALSE] \in RequestType
          /\ \A b \in BOOLEAN : [x EXCEPT !.pos = @ + 1, !.onPin = b] \in RequestType
  <1> USE DEF IdleRequest, RequestType
  <1>1. IdleRequest \in RequestType
    OBVIOUS
  <1>2. ASSUME NEW x \in RequestType
        PROVE  /\ x.pos \in Nat /\ x.onPin \in BOOLEAN /\ x.preserve \in BOOLEAN
               /\ x.pin \in Account \cup {NoAccount}
               /\ [x EXCEPT !.onPin = FALSE] \in RequestType
    OBVIOUS
  <1>3. ASSUME NEW x \in RequestType, NEW b \in BOOLEAN
        PROVE  [x EXCEPT !.pos = @ + 1, !.onPin = b] \in RequestType
    <2> DEFINE y == [x EXCEPT !.pos = @ + 1]
    <2>1. [x EXCEPT !.pos = @ + 1, !.onPin = b] = [y EXCEPT !.onPin = b]
      OBVIOUS
    <2>2. y \in RequestType
      OBVIOUS
    <2>3. \A z \in RequestType : [z EXCEPT !.onPin = b] \in RequestType
      OBVIOUS
    <2> HIDE DEF y, RequestType
    <2> QED
      BY <2>1, <2>2, <2>3
  <1> QED
    BY <1>1, <1>2, <1>3

\* Charging and forgetting only touch the failures of attempts.
LEMMA ChargeTyped ==
    ASSUME NEW due \in SUBSET Failed, Charge(due), blamed \in SUBSET Failed
    PROVE  pending' = {} /\ blamed' \in SUBSET Failed
  BY DEF Charge

\* A position of a plan holds a route.
LEMMA RouteTyped ==
    ASSUME request.plan \in Plan, request.pos \in 1 .. Len(request.plan)
    PROVE  CurrentRoute \in Route
  BY RouteAssumption DEF CurrentRoute

\* A request under way is on a route.
LEMMA RouteOfRequest == TypeOK /\ pc # "idle" => CurrentRoute \in Route
  BY RouteTyped DEF TypeOK

\* A call is an account on a route.
LEMMA ThisTyped ==
    TypeOK /\ LocalsInv /\ pc = "call" => ThisAttempt \in Failed /\ stream.account \in Account
  BY RouteOfRequest DEF LocalsInv, ThisAttempt, Failed

\* Nothing under way satisfies the invariant.
LEMMA InitInv == Init => IndInv
  <1> SUFFICES ASSUME Init PROVE IndInv
    OBVIOUS
  <1>1. TypeOK
    <2>1. FirstRound \in RoundType(0) /\ NotExecuted \in ExecutionType(0)
      BY RoundTyped, ExecutionTyped
    <2>2. NothingSeen \in ClientType(0)
      BY ClientTyped
    <2>3. ControlOK
      BY RequestTyped DEF Init, ControlOK
    <2>4. RoundOK
      BY <2>1, IdleTyped, StreamTyped DEF Init, RoundOK
    <2>5. OutcomeOK
      BY <2>1, <2>2 DEF Init, OutcomeOK
    <2>6. ChargeOK
      BY DEF Init, ChargeOK
    <2> QED
      BY <2>3, <2>4, <2>5, <2>6, TypeParts
  <1>2. LocalsInv
    BY DEF Init, LocalsInv
  <1>3. SeenInv
    BY DEF Init, SeenInv, NothingSeen, Unanswered
  <1>4. BlameInv
    BY DEF Init, BlameInv, BlameIsEarned
  <1>5. SessionInv
    BY IdleTyped DEF Init, SessionInv, HomeFirst, EncryptedStaysHome
  <1> QED
    BY <1>1, <1>2, <1>3, <1>4, <1>5 DEF IndInv

\* Every step keeps the types.
LEMMA NextTyping == TypeOK /\ LocalsInv /\ [Next]_vars => TypeOK'
  <1> SUFFICES ASSUME TypeOK, LocalsInv, [Next]_vars
               PROVE  ControlOK' /\ RoundOK' /\ OutcomeOK' /\ ChargeOK'
    BY TypeParts
  <1>a. ControlOK /\ RoundOK /\ OutcomeOK /\ ChargeOK
    BY TypeParts
  <1>b. tried \in Nat
    BY <1>a DEF OutcomeOK
  <1>1. CASE Execute
    <2>1. ControlOK'
      BY <1>1, <1>a, RouteAssumption DEF Execute, ControlOK, RequestType
    <2>2. RoundOK' /\ OutcomeOK'
      <3>1. /\ tried' = 0 /\ UNCHANGED <<session, round, stream, execution, planFailure>>
            /\ round = FirstRound /\ execution = NotExecuted /\ planFailure = 0
            /\ client' = NothingSeen
        BY <1>1 DEF Execute, LocalsInv, roundLocals
      <3>2. FirstRound \in RoundType(0) /\ NotExecuted \in ExecutionType(0)
        BY RoundTyped, ExecutionTyped
      <3>3. NothingSeen \in ClientType(0)
        BY ClientTyped
      <3> QED
        BY <1>a, <3>1, <3>2, <3>3 DEF RoundOK, OutcomeOK
    <2>3. ChargeOK'
      BY <1>1, <1>a DEF Execute, ChargeOK
    <2> QED
      BY <2>1, <2>2, <2>3
  <1>2. CASE Rebind
    BY <1>2, <1>a DEF Rebind, ControlOK, RoundOK, OutcomeOK, ChargeOK, roundState, roundLocals,
                      history
  <1>3. CASE BeginRecruitment
    <2>1. session' \in Session
      BY <1>3, NewSessionSound DEF BeginRecruitment
    <2> QED
      BY <1>3, <1>a, <2>1 DEF BeginRecruitment, ControlOK, RoundOK, OutcomeOK, ChargeOK, history
  <1>4. CASE BeginFails \/ ScanFails
    <2>1. round.failure \in 0 .. tried /\ 0 \in 0 .. tried
      BY <1>a, <1>b DEF RoundOK, RoundType
    <2>2. RoundFailed(0) \/ RoundFailed(round.failure)
      BY <1>4 DEF BeginFails, ScanFails
    <2>3. execution' \in ExecutionType(tried) /\ pc' = "settle"
      BY <1>b, <2>1, <2>2, OutcomeTyped
    <2> QED
      BY <1>4, <1>a, <2>3 DEF BeginFails, ScanFails, ControlOK, RoundOK,
                              OutcomeOK, ChargeOK, roundState, roundLocals, history
  <1>5. CASE SkipCandidate \/ PutOffCandidate
    <2>1. session' \in Session
      <3>1. session \in Session /\ ~ScanExhausted(session)
        BY <1>5, <1>a DEF SkipCandidate, PutOffCandidate, Scanning, RoundOK
      <3>2. CandidateAt(session) \in Account /\ NextScanPosition(session) \in Session
        BY <3>1, CandidateTyped, NextTyped
      <3>3. CASE SkipCandidate
        BY <3>2, <3>3, HeardTyped DEF SkipCandidate, Scanned, Answer
      <3>4. CASE PutOffCandidate
        BY <3>2, <3>4, HeardTyped DEF PutOffCandidate, Scanned
      <3> QED
        BY <1>5, <3>3, <3>4
    <2> QED
      BY <1>5, <1>a, <2>1 DEF SkipCandidate, PutOffCandidate, Scanned, ControlOK, RoundOK,
                              OutcomeOK, ChargeOK, history
  <1>6. CASE Recruit
    <2>1. CandidateAt(session) \in Account
      BY <1>6, <1>a, CandidateTyped DEF Recruit, Scanning, RoundOK
    <2>2. session' \in Session
      <3>1. NextScanPosition(session) \in Session
        BY <1>6, <1>a, NextTyped DEF Recruit, Scanning, RoundOK
      <3> QED
        BY <1>6, <2>1, <3>1, HeardTyped DEF Recruit, Answer
    <2>3. tried' = tried + 1 /\ tried' \in Nat
      BY <1>6, <1>b DEF Recruit
    <2>4. round' \in RoundType(tried')
      BY <1>6, <1>a, <1>b, <2>3, RoundTyped DEF Recruit, Scanning, RoundOK
    <2>5. stream' \in StreamType
      BY <1>6, <2>1, StreamTyped DEF Recruit
    <2>6. execution' \in ExecutionType(tried') /\ client' \in ClientType(tried')
      BY <1>6, <1>a, <1>b, <2>3, ExecutionTyped, ClientTyped DEF Recruit, OutcomeOK
    <2>7. planFailure' \in 0 .. tried'
      BY <1>6, <1>a, <1>b, <2>3 DEF Recruit, OutcomeOK
    <2>8. affinity' \in Account \cup {NoAccount}
      BY <1>6, <1>a, <2>1 DEF Recruit, ChargeOK
    <2> QED
      <3>1. ControlOK'
        BY <1>6, <1>a DEF Recruit, Scanning, ControlOK
      <3>2. RoundOK' /\ OutcomeOK'
        BY <2>2, <2>3, <2>4, <2>5, <2>6, <2>7 DEF RoundOK, OutcomeOK
      <3>3. ChargeOK'
        BY <1>6, <1>a, <2>8 DEF Recruit, ChargeOK, history
      <3> QED
        BY <3>1, <3>2, <3>3
  <1>7. CASE EndRound
    <2>1. execution' \in ExecutionType(tried) /\ pc' = "settle"
      <3>1. (round.count > 0 /\ round.onlyDeferred) \in BOOLEAN /\ round' = round
        BY <1>7 DEF EndRound, roundState, roundLocals
      <3>2. round'.failure \in 0 .. tried
        BY <1>a, <1>b, <3>1, RoundTyped DEF RoundOK
      <3> QED
        BY <1>7, <1>b, <3>1, <3>2, OutcomeTyped DEF EndRound
    <2> QED
      BY <1>7, <1>a, <2>1 DEF EndRound, ControlOK, RoundOK, OutcomeOK,
                              ChargeOK, roundState, roundLocals, history
  <1>8. CASE Forward \/ Break \/ Hold
    <2>1. stream' \in StreamType
      BY <1>8, <1>a, StreamTyped DEF Forward, Break, Hold, RoundOK
    <2>2. client' \in ClientType(tried)
      <3>1. client' = client \/ client' = [by |-> tried, terminal |-> "none"]
        BY <1>8 DEF Forward, Break, Hold, Delivered
      <3>2. tried \in 0 .. tried
        BY <1>b
      <3> QED
        BY <1>a, <1>b, <3>1, <3>2, ClientTyped DEF OutcomeOK
    <2> QED
      BY <1>8, <1>a, <2>1, <2>2 DEF Forward, Break, Hold, ControlOK, RoundOK, OutcomeOK,
                                    ChargeOK, history
  <1>9. CASE AttemptErrs
    <2>1. execution' \in ExecutionType(tried) /\ pc' = "settle"
      BY <1>9, <1>a, <1>b, OutcomeTyped DEF AttemptErrs, RoundOK
    <2>2. pending' \in SUBSET Failed /\ ambiguous' \in SUBSET Failed
      BY <1>9, <1>a DEF AttemptErrs, Forgotten, ChargeOK
    <2> QED
      BY <1>9, <1>a, <2>1, <2>2 DEF AttemptErrs, ControlOK, RoundOK, OutcomeOK, ChargeOK,
                                    roundState, roundLocals
  <1>b1. ASSUME NEW t \in {"completed", "failed"}, FlushTerminal(t)
         PROVE  /\ execution' \in ExecutionType(tried) /\ pc' = "settle"
                /\ client' \in ClientType(tried)
    <2>1. execution' \in ExecutionType(tried) /\ pc' = "settle"
      BY <1>a, <1>b, <1>b1, OutcomeTyped DEF FlushTerminal, RoundOK
    <2>2. client' = client \/ client' = [by |-> tried, terminal |-> t]
      BY <1>b1 DEF FlushTerminal, Delivered
    <2>3. tried \in 0 .. tried
      BY <1>b
    <2> QED
      BY <1>a, <1>b, <2>1, <2>2, <2>3, ClientTyped DEF OutcomeOK
  <1>10. CASE Complete
    <2>1. ThisAttempt \in Failed /\ FlushTerminal("completed")
      BY <1>10, ThisTyped DEF Complete
    <2>2. blamed' \in SUBSET Failed /\ pending' = {}
      <3>1. DueOnSuccess(Forgotten(pending)) \in SUBSET Failed
        BY <1>a DEF DueOnSuccess, Forgotten, ChargeOK
      <3> QED
        BY <1>10, <1>a, <3>1, ChargeTyped DEF Complete, ChargeOK
    <2> QED
      BY <1>10, <1>a, <1>b1, <2>1, <2>2 DEF Complete, ControlOK, RoundOK, OutcomeOK, ChargeOK,
                                            roundState, roundLocals
  <1>11. CASE KeepFailure
    <2>1. ThisAttempt \in Failed
      BY <1>11, ThisTyped DEF KeepFailure, TakesFailure
    <2>2. PICK failure \in Failures(CurrentRoute) :
             /\ pending' = pending \cup Recorded(failure)
             /\ ambiguous' = ambiguous \cup Recorded(failure)
             /\ round' = [round EXCEPT !.failure = tried,
                                       !.onlyDeferred = @ /\ failure.deferred]
      BY <1>11 DEF KeepFailure
    <2>3. pending' \in SUBSET Failed /\ ambiguous' \in SUBSET Failed
      BY <1>a, <2>1, <2>2 DEF Recorded, ChargeOK
    <2>4. round' \in RoundType(tried)
      <3>1. (round.onlyDeferred /\ failure.deferred) \in BOOLEAN
        OBVIOUS
      <3> QED
        BY <1>a, <1>b, <2>2, <3>1, RoundTyped DEF RoundOK
    <2>5. stream' \in StreamType
      BY <1>11, <1>a, StreamTyped DEF KeepFailure, RoundOK
    <2>6. execution' \in ExecutionType(tried) /\ pc' \in {"scan", "settle"}
      <3>1. round'.failure \in 0 .. tried /\ round'.onlyDeferred \in BOOLEAN
        BY <1>b, <2>4, RoundTyped
      <3>2. RoundOver(round'.onlyDeferred) \/ (pc' = "scan" /\ UNCHANGED execution)
        BY <1>11 DEF KeepFailure
      <3> QED
        BY <1>a, <1>b, <3>1, <3>2, OutcomeTyped DEF OutcomeOK
    <2> QED
      BY <1>11, <1>a, <2>3, <2>4, <2>5, <2>6 DEF KeepFailure, TakesFailure, ControlOK, RoundOK,
                                                 OutcomeOK, ChargeOK
  <1>12. CASE CommitFailure
    <2>1. ThisAttempt \in Failed /\ FlushTerminal("failed")
      BY <1>12, ThisTyped DEF CommitFailure, TakesFailure
    <2>2. PICK failure \in Failures(CurrentRoute) :
             /\ Charge(DueOnFailure(pending \cup Recorded(failure)))
             /\ ambiguous' = ambiguous \cup Recorded(failure)
      BY <1>12 DEF CommitFailure
    <2>3. Recorded(failure) \in SUBSET Failed
      BY <2>1 DEF Recorded
    <2>4. blamed' \in SUBSET Failed /\ pending' = {}
      <3>1. DueOnFailure(pending \cup Recorded(failure)) \in SUBSET Failed
        BY <1>a, <2>3 DEF DueOnFailure, ChargeOK
      <3> QED
        BY <1>a, <2>2, <3>1, ChargeTyped DEF ChargeOK
    <2>5. ambiguous' \in SUBSET Failed
      BY <1>a, <2>2, <2>3 DEF ChargeOK
    <2> QED
      <3>1. /\ execution' \in ExecutionType(tried) /\ pc' = "settle"
            /\ client' \in ClientType(tried)
        BY <1>b1, <2>1
      <3>2. ControlOK'
        BY <1>12, <1>a, <3>1 DEF CommitFailure, TakesFailure, ControlOK
      <3>3. RoundOK' /\ OutcomeOK'
        BY <1>12, <1>a, <3>1 DEF CommitFailure, RoundOK, OutcomeOK, roundState, roundLocals
      <3>4. ChargeOK'
        BY <1>12, <1>a, <2>4, <2>5 DEF CommitFailure, ChargeOK
      <3> QED
        BY <3>2, <3>3, <3>4
  <1>13. CASE RetryPool
    <2>1. RoundOK' /\ OutcomeOK'
      BY <1>13, <1>a, <1>b, IdleTyped, RoundTyped, StreamTyped, ExecutionTyped
      DEF RetryPool, NextRound, LocalsGone, RoundOK, OutcomeOK
    <2> QED
      BY <1>13, <1>a, <2>1 DEF RetryPool, Unanswered, NextRound, ControlOK, ChargeOK, history
  <1>14. CASE RetryCutShort
    <2>1. execution' \in ExecutionType(tried)
      BY <1>14, <1>a, <1>b, ExecutionTyped DEF RetryCutShort, OutcomeOK
    <2> QED
      BY <1>14, <1>a, <2>1 DEF RetryCutShort, ControlOK, RoundOK, OutcomeOK, ChargeOK,
                               roundState, roundLocals, history
  <1>c. LastFailure \in 0 .. tried
    BY <1>a, <1>b, ExecutionTyped DEF LastFailure, OutcomeOK
  <1>15. CASE FallBackFromPin \/ NextRoute
    <2>1. RoundOK' /\ OutcomeOK'
      BY <1>15, <1>a, <1>b, <1>c, IdleTyped, RoundTyped, StreamTyped, ExecutionTyped
      DEF FallBackFromPin, NextRoute, NextExecution, NextRound, LocalsGone, RoundOK, OutcomeOK
    <2>2. /\ request' \in RequestType /\ request'.plan = request.plan
          /\ request'.pos \in 1 .. Len(request.plan)
      <3>1. request.plan \in Plan /\ Len(request.plan) \in Nat
            /\ request.pos \in 1 .. Len(request.plan) /\ request \in RequestType
        BY <1>15, <1>a, RouteAssumption
        DEF FallBackFromPin, NextRoute, Unanswered, ControlOK
      <3>2. CASE FallBackFromPin
        BY <3>1, <3>2, RequestTyped DEF FallBackFromPin, NextExecution, RequestType
      <3>3. CASE NextRoute
        <4>1. request' = [request EXCEPT !.pos = @ + 1, !.onPin = request.pin # NoAccount]
              /\ request.pos < Len(request.plan)
          BY <3>3 DEF NextRoute, NextExecution
        <4> DEFINE pinned == request.pin # NoAccount
                   y == [request EXCEPT !.pos = @ + 1]
        <4>2. request' = [y EXCEPT !.onPin = pinned] /\ pinned \in BOOLEAN
          BY <4>1
        <4>3. /\ y \in RequestType /\ y.plan = request.plan
              /\ y.pos \in 1 .. Len(request.plan)
          BY <3>1, <4>1 DEF RequestType
        <4> HIDE DEF pinned, y
        <4> QED
          BY <4>2, <4>3 DEF RequestType
      <3> QED
        BY <1>15, <3>2, <3>3
    <2>3. pc' = "route" /\ UNCHANGED <<permitUsed, pending, client, result, affinity, history>>
      BY <1>15 DEF FallBackFromPin, NextRoute, NextExecution, NextRound
    <2>4. request.plan \in Plan
      BY <1>15, <1>a DEF FallBackFromPin, NextRoute, Unanswered, ControlOK
    <2> QED
      BY <1>a, <2>1, <2>2, <2>3, <2>4 DEF ControlOK, ChargeOK, history
  <1>16. CASE ReturnAnswered \/ ReturnInterrupted \/ ReturnExhausted
    <2>1. PICK value \in {"nil", "error", "no_routable_account"} : Returns(value)
      BY <1>16 DEF ReturnAnswered, ReturnInterrupted, ReturnExhausted, FlushKept, NotFlushed
    <2>2. client' \in ClientType(tried)
      BY <1>16, <1>a, <1>b, <1>c, ClientTyped
      DEF ReturnAnswered, ReturnInterrupted, ReturnExhausted, FlushKept, NotFlushed, Delivered,
          OutcomeOK
    <2>3. pending' \in SUBSET Failed /\ blamed' \in SUBSET Failed
      <3>1. DueOnFailure(pending) \in SUBSET Failed
        BY <1>a DEF DueOnFailure, ChargeOK
      <3> QED
        BY <1>16, <1>a, <3>1, ChargeTyped
        DEF ReturnAnswered, ReturnInterrupted, ReturnExhausted, ChargeOK, history
    <2>4. UNCHANGED <<ambiguous, winner>>
      BY <1>16 DEF ReturnAnswered, ReturnInterrupted, ReturnExhausted, history
    <2> QED
      <3>1. ControlOK'
        BY <2>1, RequestTyped DEF Returns, ControlOK
      <3>2. RoundOK'
        BY <1>b, <2>1, IdleTyped, RoundTyped, StreamTyped DEF Returns, LocalsGone, RoundOK
      <3>3. OutcomeOK'
        <4>1. tried' = tried /\ planFailure' = 0 /\ execution' = NotExecuted
          BY <2>1 DEF Returns, LocalsGone
        <4>2. NotExecuted \in ExecutionType(tried)
          BY <1>b, ExecutionTyped
        <4>3. 0 \in 0 .. tried
          BY <1>b
        <4> QED
          BY <1>b, <2>2, <4>1, <4>2, <4>3 DEF OutcomeOK
      <3>4. ChargeOK'
        BY <1>a, <2>1, <2>3, <2>4 DEF Returns, ChargeOK
      <3> QED
        BY <3>1, <3>2, <3>3, <3>4
  <1>17. CASE UNCHANGED vars
    BY <1>17, <1>a DEF vars, ControlOK, RoundOK, OutcomeOK, ChargeOK, roundState, roundLocals,
                       history
  <1> QED
    BY <1>1, <1>2, <1>3, <1>4, <1>5, <1>6, <1>7, <1>8, <1>9, <1>10, <1>11, <1>12, <1>13,
       <1>14, <1>15, <1>16, <1>17 DEF Next, Step, Round, Attempt, Settle
-------------------------------------------------------------------------------
(***************************************************************************)
(* What the client has seen.                                               *)
(***************************************************************************)
LEMMA NextLocals == TypeOK /\ LocalsInv /\ [Next]_vars => LocalsInv'
  <1> SUFFICES ASSUME TypeOK, LocalsInv, [Next]_vars PROVE LocalsInv'
    OBVIOUS
  <1>0. tried \in Nat /\ session \in Session
    BY DEF TypeOK
  <1>1. CASE Execute
    BY <1>1 DEF Execute, LocalsInv, roundLocals
  <1>2. CASE Rebind
    BY <1>2 DEF Rebind, LocalsInv, roundState, roundLocals
  <1>3. CASE BeginRecruitment \/ BeginFails \/ ScanFails \/ EndRound
    BY <1>3 DEF BeginRecruitment, BeginFails, ScanFails, EndRound, RoundOver, RoundFailed,
                Executed, LocalsInv
  <1>4. CASE SkipCandidate \/ PutOffCandidate
    BY <1>4 DEF SkipCandidate, PutOffCandidate, Scanning, Scanned, LocalsInv
  <1>5. CASE Recruit
    <2>1. CandidateAt(session) \in Account /\ tried' = tried + 1 /\ tried + 1 # 0
      BY <1>5, <1>0, CandidateTyped DEF Recruit, Scanning
    <2>2. stream'.account = CandidateAt(session) /\ pc' = "call"
      BY <1>5 DEF Recruit, IdleStream
    <2> QED
      BY <2>1, <2>2 DEF LocalsInv
  <1>6. CASE Forward \/ Break \/ Hold
    <2>1. stream'.account = stream.account /\ pc = "call" /\ pc' = pc /\ tried' = tried
      BY <1>6 DEF Forward, Break, Hold, Streaming, TypeOK
    <2> QED
      BY <2>1 DEF LocalsInv
  <1>7. CASE AttemptErrs \/ Complete \/ CommitFailure
    BY <1>7 DEF AttemptErrs, Complete, CommitFailure, FlushTerminal, Answered, AttemptFailed,
                RoundFailed, Executed, LocalsInv
  <1>8. CASE KeepFailure
    BY <1>8 DEF KeepFailure, RoundOver, Executed, LocalsInv
  <1>9. CASE RetryPool \/ FallBackFromPin \/ NextRoute
    BY <1>9 DEF RetryPool, FallBackFromPin, NextRoute, NextExecution, NextRound, LocalsGone,
                LocalsInv
  <1>10. CASE RetryCutShort
    BY <1>10 DEF RetryCutShort, Unanswered, LocalsInv
  <1>11. CASE ReturnAnswered \/ ReturnInterrupted \/ ReturnExhausted
    BY <1>11 DEF ReturnAnswered, ReturnInterrupted, ReturnExhausted, FlushKept, NotFlushed,
                 Returns, LocalsGone, LocalsInv
  <1>12. CASE UNCHANGED vars
    BY <1>12 DEF vars, LocalsInv, roundState, roundLocals
  <1> QED
    BY <1>1, <1>2, <1>3, <1>4, <1>5, <1>6, <1>7, <1>8, <1>9, <1>10, <1>11, <1>12
    DEF Next, Step, Round, Attempt, Settle

\* The outcomes a round may end with, in terms of what settling looks at.
LEMMA OutcomeShape ==
    /\ \A f : RoundFailed(f) =>
          pc' = "settle" /\ execution'.error /\ ~execution'.terminal /\ ~execution'.exhausted
    /\ Answered =>
          pc' = "settle" /\ ~execution'.error /\ execution'.terminal /\ ~execution'.exhausted
    /\ \A b : RoundOver(b) =>
          /\ pc' = "settle" /\ ~execution'.error /\ ~execution'.terminal
          /\ execution'.exhausted = ScanExhausted(session)
    /\ AttemptFailed =>
          pc' = "settle" /\ execution'.error /\ ~execution'.terminal /\ ~execution'.exhausted
  BY DEF RoundFailed, Answered, RoundOver, AttemptFailed, Executed, NotExecuted

\* Every step keeps what is known of the output that the client has seen.
LEMMA NextSeen == TypeOK /\ LocalsInv /\ SeenInv /\ [Next]_vars => SeenInv'
  <1> SUFFICES ASSUME TypeOK, LocalsInv, SeenInv, [Next]_vars PROVE SeenInv'
    OBVIOUS
  <1>0. tried \in Nat /\ client \in ClientType(tried) /\ stream.shown \in BOOLEAN
    BY DEF TypeOK, ClientType
  <1>1. CASE Execute
    BY <1>1 DEF Execute, SeenInv, NothingSeen, Unanswered
  <1>2. CASE Rebind
    BY <1>2 DEF Rebind, SeenInv, Unanswered, roundState, roundLocals
  <1>3. CASE BeginRecruitment \/ SkipCandidate \/ PutOffCandidate
    BY <1>3 DEF BeginRecruitment, SkipCandidate, PutOffCandidate, Scanning, Scanned, SeenInv,
                Unanswered
  <1>4. CASE BeginFails \/ ScanFails \/ EndRound
    BY <1>4, OutcomeShape DEF BeginFails, ScanFails, EndRound, SeenInv, NothingSeen, Unanswered
  <1>5. CASE Recruit
    <2>1. ~stream'.shown /\ pc' = "call" /\ client' = NothingSeen /\ result' = "pending"
      BY <1>5 DEF Recruit, Scanning, IdleStream, SeenInv
    <2> QED
      BY <2>1 DEF SeenInv, NothingSeen, Unanswered
  <1>6. CASE Forward
    <2>1. stream'.shown /\ pc' = "call" /\ client' = [by |-> tried, terminal |-> "none"]
          /\ result' = "pending" /\ tried' = tried
      BY <1>6 DEF Forward, Streaming, Delivered, SeenInv, TypeOK
    <2> QED
      BY <2>1 DEF SeenInv, Unanswered
  <1>7. CASE Break \/ Hold
    <2>1. stream'.shown = stream.shown /\ pc' = "call" /\ pc = "call"
          /\ UNCHANGED <<client, result, tried>>
      BY <1>7 DEF Break, Hold, Streaming, TypeOK
    <2> QED
      BY <2>1 DEF SeenInv, Unanswered
  <1>8. CASE AttemptErrs
    BY <1>8, OutcomeShape DEF AttemptErrs, SeenInv, Unanswered
  <1>9. CASE Complete \/ CommitFailure
    <2>1. PICK t \in {"completed", "failed"} : FlushTerminal(t)
      BY <1>9 DEF Complete, CommitFailure
    <2>2. pc = "call" /\ result' = result /\ tried # 0 /\ client.terminal = "none"
      BY <1>9 DEF Complete, CommitFailure, TakesFailure, SeenInv, LocalsInv
    <2> QED
      BY <2>1, <2>2, OutcomeShape DEF FlushTerminal, Delivered, SeenInv, Unanswered
  <1>10. CASE KeepFailure
    <2>1. ~stream.shown /\ pc = "call"
      BY <1>10 DEF KeepFailure, Retries, TakesFailure
    <2>2. client' = NothingSeen /\ result' = "pending"
      BY <1>10, <2>1 DEF KeepFailure, SeenInv, NothingSeen
    <2> QED
      BY <1>10, <2>2, OutcomeShape DEF KeepFailure, SeenInv, NothingSeen, Unanswered
  <1>11. CASE RetryPool \/ FallBackFromPin \/ NextRoute
    <2>1. client = NothingSeen /\ result = "pending" /\ pc' = "route"
          /\ UNCHANGED <<client, result>>
      BY <1>11 DEF RetryPool, FallBackFromPin, NextRoute, NextExecution, NextRound, Unanswered,
                   SeenInv
    <2> QED
      BY <2>1 DEF SeenInv, NothingSeen, Unanswered
  <1>12. CASE RetryCutShort
    <2>1. client = NothingSeen /\ result = "pending" /\ pc = "settle"
          /\ UNCHANGED <<pc, client, result>> /\ ~execution'.terminal
      BY <1>12 DEF RetryCutShort, Unanswered, SeenInv, TypeOK
    <2> QED
      BY <2>1 DEF SeenInv, NothingSeen, Unanswered
  <1>13. CASE ReturnAnswered \/ ReturnInterrupted \/ ReturnExhausted
    <2>1. pc' = "idle" /\ result' # "pending"
      BY <1>13 DEF ReturnAnswered, ReturnInterrupted, ReturnExhausted, FlushKept, NotFlushed,
                   Returns
    <2>2. client' = client \/ (LastFailure # 0 /\ client' = [by |-> LastFailure, terminal |-> "failed"])
      BY <1>13 DEF ReturnAnswered, ReturnInterrupted, ReturnExhausted, FlushKept, NotFlushed,
                   Delivered
    <2> QED
      BY <2>1, <2>2 DEF SeenInv, Unanswered
  <1>14. CASE UNCHANGED vars
    BY <1>14 DEF vars, SeenInv, Unanswered, roundState, roundLocals
  <1> QED
    BY <1>1, <1>2, <1>3, <1>4, <1>5, <1>6, <1>7, <1>8, <1>9, <1>10, <1>11, <1>12, <1>13, <1>14
    DEF Next, Step, Round, Attempt, Settle
-------------------------------------------------------------------------------
(***************************************************************************)
(* Who is blamed.                                                          *)
(***************************************************************************)

\* Charging by FinalizeFailure, while nobody has completed the request.
LEMMA FailureEarned ==
    ASSUME NEW failures, Charge(DueOnFailure(failures)), blamed = {}, ambiguous' = failures
    PROVE  BlameIsEarned' /\ pending' = {}
  BY DEF Charge, DueOnFailure, BlameIsEarned

\* Every step keeps ambiguous failures waiting, or charges them on evidence.
LEMMA NextBlame == TypeOK /\ LocalsInv /\ BlameInv /\ [Next]_vars => BlameInv'
  <1> SUFFICES ASSUME TypeOK, LocalsInv, BlameInv, [Next]_vars PROVE BlameInv'
    OBVIOUS
  <1>a. pc \in {"route", "scan", "call"} \/ Unanswered => Undecided /\ pc # "idle"
    BY DEF BlameInv, Unanswered, StillOpen
  <1>b. Undecided' /\ StillOpen' => BlameInv'
    BY DEF BlameInv
  <1>1. CASE Execute
    <2>1. pending = {}
      BY <1>1 DEF Execute, BlameInv, StillOpen
    <2> QED
      BY <1>1, <1>b, <2>1 DEF Execute, Undecided, StillOpen
  <1>2. CASE Rebind \/ BeginRecruitment \/ BeginFails \/ SkipCandidate \/ PutOffCandidate
             \/ Recruit \/ ScanFails \/ EndRound
    <2>1. /\ pc \in {"route", "scan"} /\ StillOpen'
          /\ UNCHANGED <<pending, ambiguous, blamed, winner>>
      BY <1>2, OutcomeShape DEF StillOpen, Rebind, BeginRecruitment, BeginFails, SkipCandidate, PutOffCandidate, Scanning,
                  Scanned, Recruit, ScanFails, EndRound, history
    <2> QED
      BY <1>a, <1>b, <2>1 DEF Undecided
  <1>3. CASE Forward \/ Break \/ Hold
    <2>1. /\ pc = "call" /\ pc' = pc /\ UNCHANGED <<pending, ambiguous, blamed, winner>>
      BY <1>3 DEF Forward, Break, Hold, Streaming, history
    <2> QED
      BY <1>a, <1>b, <2>1 DEF Undecided, StillOpen
  <1>4. CASE AttemptErrs
    <2>1. pc = "call" /\ StillOpen' /\ UNCHANGED <<blamed, winner>>
      BY <1>4, OutcomeShape DEF AttemptErrs, StillOpen
    <2>2. pending' = ambiguous'
      BY <1>4, <1>a, <2>1 DEF AttemptErrs, Undecided
    <2> QED
      BY <1>a, <1>b, <2>1, <2>2 DEF Undecided
  <1>5. CASE Complete
    <2>1. /\ Undecided /\ winner' = ThisAttempt /\ pending' = {}
          /\ blamed' \subseteq DueOnSuccess(Forgotten(pending))
      BY <1>5, <1>a DEF Complete, Charge, Undecided
    <2>2. pc' = "settle" /\ ~Unanswered'
      BY <1>5, OutcomeShape DEF Complete, FlushTerminal, Unanswered
    <2>3. ASSUME NEW f \in blamed'
          PROVE  f.route = winner'.route /\ f.account # winner'.account
      <3>1. f \in Failed /\ f.route = CurrentRoute /\ f # ThisAttempt
        BY <2>1, <2>3 DEF DueOnSuccess, Forgotten, TypeOK
      <3> QED
        BY <2>1, <3>1 DEF Failed, ThisAttempt
    <2> QED
      BY <2>1, <2>2, <2>3 DEF BlameInv, BlameIsEarned
  <1>6. CASE KeepFailure
    <2>1. pc = "call" /\ StillOpen' /\ UNCHANGED <<blamed, winner>>
      BY <1>6, OutcomeShape DEF KeepFailure, TakesFailure, StillOpen
    <2>2. pending' = ambiguous'
      BY <1>6, <1>a, <2>1 DEF KeepFailure, Undecided
    <2> QED
      BY <1>a, <1>b, <2>1, <2>2 DEF Undecided
  <1>7. CASE CommitFailure
    <2>1. Undecided
      BY <1>7, <1>a DEF CommitFailure, TakesFailure
    <2>2. PICK failures : Charge(DueOnFailure(failures)) /\ ambiguous' = failures
      BY <1>7, <2>1 DEF CommitFailure, Undecided
    <2>3. BlameIsEarned' /\ pending' = {}
      BY <2>1, <2>2, FailureEarned DEF Undecided
    <2>4. pc' = "settle" /\ ~Unanswered'
      BY <1>7, OutcomeShape DEF CommitFailure, FlushTerminal, Unanswered
    <2> QED
      BY <2>3, <2>4 DEF BlameInv
  <1>8. CASE RetryPool \/ FallBackFromPin \/ NextRoute
    <2>1. /\ Unanswered /\ pc' = "route" /\ UNCHANGED <<pending, ambiguous, blamed, winner>>
      BY <1>8 DEF RetryPool, FallBackFromPin, NextRoute, NextExecution, NextRound, history
    <2> QED
      BY <1>a, <1>b, <2>1 DEF Undecided, StillOpen
  <1>9. CASE RetryCutShort
    <2>1. /\ Unanswered /\ StillOpen' /\ UNCHANGED <<pending, ambiguous, blamed, winner>>
      BY <1>9 DEF RetryCutShort, Unanswered, StillOpen, history, TypeOK
    <2> QED
      BY <1>a, <1>b, <2>1 DEF Undecided
  <1>10. CASE ReturnAnswered \/ ReturnInterrupted \/ ReturnExhausted
    <2>1. pc' = "idle"
      BY <1>10 DEF ReturnAnswered, ReturnInterrupted, ReturnExhausted, FlushKept, NotFlushed,
                   Returns
    <2>2. CASE ReturnAnswered
      \* What answered the client was a completion or a committed failure.
      <3>1. ~StillOpen /\ UNCHANGED <<pending, ambiguous, blamed, winner>>
        BY <2>2 DEF ReturnAnswered, StillOpen, history
      <3> QED
        BY <2>1, <3>1 DEF BlameInv, BlameIsEarned
    <2>3. CASE ReturnInterrupted \/ ReturnExhausted
      <3>1. /\ Charge(DueOnFailure(pending)) /\ UNCHANGED <<ambiguous, winner>>
        BY <2>3 DEF ReturnInterrupted, ReturnExhausted
      <3>2. CASE Undecided
        BY <2>1, <3>1, <3>2, FailureEarned DEF BlameInv, Undecided
      <3>3. CASE pending = {} /\ BlameIsEarned
        <4>1. blamed' = blamed /\ pending' = {}
          BY <3>1, <3>3 DEF Charge, DueOnFailure
        <4> QED
          BY <2>1, <3>1, <3>3, <4>1 DEF BlameInv, BlameIsEarned
      <3> QED
        BY <3>2, <3>3 DEF BlameInv, Undecided
    <2> QED
      BY <1>10, <2>2, <2>3
  <1>11. CASE UNCHANGED vars
    BY <1>11 DEF vars, BlameInv, BlameIsEarned, Unanswered, Undecided, StillOpen, history
  <1> QED
    BY <1>1, <1>2, <1>3, <1>4, <1>5, <1>6, <1>7, <1>8, <1>9, <1>10, <1>11
    DEF Next, Step, Round, Attempt, Settle

-------------------------------------------------------------------------------
(***************************************************************************)
(* Whom a session asks.                                                    *)
(***************************************************************************)
LEMMA NextSession == TypeOK /\ LocalsInv /\ SessionInv /\ [Next]_vars => SessionInv'
  <1> SUFFICES ASSUME TypeOK, LocalsInv, SessionInv, [Next]_vars PROVE SessionInv'
    OBVIOUS
  <1>0. session \in Session /\ request.preserve \in BOOLEAN /\ SessionSound(session)
        /\ HomeFirst(session, request.preserve)
    BY DEF TypeOK, SessionInv
  <1>i. \A preserve : SessionSound(IdleSession) /\ HomeFirst(IdleSession, preserve)
    BY IdleTyped DEF HomeFirst
  <1>1. CASE Execute
    <2>1. session' = IdleSession /\ pc' = "route"
      BY <1>1 DEF Execute, LocalsInv, roundLocals
    <2> QED
      BY <1>i, <2>1 DEF SessionInv, EncryptedStaysHome
  <1>2. CASE BeginRecruitment
    <2>1. SessionSound(session') /\ HomeFirst(session', request.preserve)
      BY <1>2, <1>0, NewSessionSound DEF BeginRecruitment
    <2>2. pc' = "scan" /\ request' = request
      BY <1>2 DEF BeginRecruitment
    <2> QED
      BY <2>1, <2>2 DEF SessionInv, EncryptedStaysHome
  <1>3. CASE SkipCandidate \/ Recruit
    <2>1. /\ ~ScanExhausted(session)
          /\ \E answer \in {"refused", "recruited"} :
                session' = Heard(NextScanPosition(session), CandidateAt(session), answer)
      BY <1>3 DEF SkipCandidate, Recruit, Scanning, Scanned
    <2>2. /\ SessionSound(session') /\ HomeFirst(session', request.preserve)
          /\ session'.home # NoAccount => session'.answers[session'.home] # "unseen"
      BY <1>0, <2>1, PassingSound
    <2>3. pc' \in {"scan", "call"} /\ request' = request
      BY <1>3 DEF SkipCandidate, Recruit, Scanning, Scanned
    <2>4. session' \in Session
      BY <1>0, <2>1, PassingSound
    <2>5. request.preserve /\ session'.home # NoAccount =>
              session'.answers[session'.home] \in {"refused", "recruited"}
      BY <2>2, <2>4 DEF HomeFirst, Session, Answer
    <2> QED
      BY <2>2, <2>3, <2>5 DEF SessionInv, EncryptedStaysHome
  <1>4. CASE PutOffCandidate
    <2>1. /\ ~ScanExhausted(session)
          /\ ~Admits(NextScanPosition(session), CandidateAt(session), "soft", request.preserve)
          /\ session' = DeferCandidate(NextScanPosition(session), CandidateAt(session))
          /\ pc' = "scan" /\ request' = request
      BY <1>4 DEF PutOffCandidate, Scanning, Scanned, Admitted
    <2>2. SessionSound(session') /\ HomeFirst(session', request.preserve)
      BY <1>0, <2>1, PuttingOffSound
    <2> QED
      BY <2>1, <2>2 DEF SessionInv, EncryptedStaysHome
  <1>5. CASE Rebind \/ BeginFails \/ ScanFails \/ EndRound \/ AttemptErrs \/ Complete
             \/ KeepFailure \/ CommitFailure
    <2>1. UNCHANGED <<session, request>> /\ pc' # "call"
      BY <1>5, OutcomeShape
      DEF Rebind, BeginFails, ScanFails, EndRound, AttemptErrs, Complete, KeepFailure,
          CommitFailure, FlushTerminal, roundState, roundLocals
    <2>2. pc' = "settle" /\ execution'.exhausted => ScanExhausted(session)
      BY <1>5, OutcomeShape
      DEF Rebind, BeginFails, ScanFails, EndRound, AttemptErrs, Complete, KeepFailure,
          CommitFailure, FlushTerminal
    <2> QED
      BY <1>0, <2>1, <2>2 DEF SessionInv, EncryptedStaysHome, ScanExhausted
  <1>6. CASE Forward \/ Break \/ Hold
    <2>1. UNCHANGED <<session, request, pc>> /\ pc = "call"
      BY <1>6 DEF Forward, Break, Hold, Streaming
    <2> QED
      BY <1>0, <2>1 DEF SessionInv, EncryptedStaysHome
  <1>7. CASE RetryPool \/ FallBackFromPin \/ NextRoute \/ ReturnAnswered \/ ReturnInterrupted
             \/ ReturnExhausted
    <2>1. session' = IdleSession /\ pc' \in {"route", "idle"}
      BY <1>7 DEF RetryPool, FallBackFromPin, NextRoute, NextExecution, NextRound,
                  ReturnAnswered, ReturnInterrupted, ReturnExhausted, FlushKept, NotFlushed,
                  Returns, LocalsGone
    <2> QED
      BY <1>i, <2>1 DEF SessionInv, EncryptedStaysHome
  <1>8. CASE RetryCutShort
    <2>1. UNCHANGED <<session, request, pc>> /\ pc = "settle"
          /\ execution'.exhausted = execution.exhausted
      BY <1>8 DEF RetryCutShort, Unanswered, roundState, roundLocals, TypeOK
    <2> QED
      BY <1>0, <2>1 DEF SessionInv, EncryptedStaysHome, ScanExhausted
  <1>9. CASE UNCHANGED vars
    BY <1>9, <1>0 DEF vars, SessionInv, EncryptedStaysHome, ScanExhausted, roundState, roundLocals
  <1> QED
    BY <1>1, <1>2, <1>3, <1>4, <1>5, <1>6, <1>7, <1>8, <1>9
    DEF Next, Step, Round, Attempt, Settle

\* Every step keeps the inductive invariant.
LEMMA NextInv == IndInv /\ [Next]_vars => IndInv'
  BY NextTyping, NextLocals, NextSeen, NextBlame, NextSession DEF IndInv

-------------------------------------------------------------------------------
(***************************************************************************)
(* The theorems.                                                           *)
(***************************************************************************)

\* The inductive invariant holds in every reachable state of a request
\* (coordinator.go Execute and all it calls).
THEOREM Invariance == Spec => []IndInv
  <1>1. Init => IndInv
    BY InitInv
  <1>2. IndInv /\ [Next]_vars => IndInv'
    BY NextInv
  <1> QED
    BY <1>1, <1>2, PTL DEF Spec

\* Every reachable state of the coordinator is well-typed.
THEOREM TypeCorrect == Spec => []TypeOK
  <1>1. IndInv => TypeOK
    BY DEF IndInv
  <1> QED
    BY <1>1, Invariance, PTL

\* No attempt, round or route is started once the client has seen output,
\* for any plan, pool and attempt limit.
THEOREM OutputIsStartedOnce == Spec => []RetriesUnseen
  <1>1. IndInv => RetriesUnseen
    BY DEF IndInv, SeenInv, RetriesUnseen
  <1> QED
    BY <1>1, Invariance, PTL

\* Ambiguous failures are charged on evidence only
\* (request_account_failure_recorder.go).
THEOREM BlameOnEvidence == Spec => []BlameIsEarned
  <1>1. IndInv => BlameIsEarned
    BY DEF IndInv, BlameInv, BlameIsEarned, Undecided
  <1> QED
    BY <1>1, Invariance, PTL

\* A pool reported exhausted was asked to the last candidate
\* (soft_cooldown_fallback.go).
THEOREM ExhaustionIsHonest == Spec => []ExhaustedMeansTried
  <1>1. ASSUME SessionInv, session \in Session PROVE ExhaustedMeansTried
    <2> SUFFICES ASSUME pc = "settle", execution.exhausted, NEW a \in Account,
                        session.answers[a] = "soft"
                 PROVE  FALSE
      BY DEF ExhaustedMeansTried
    <2>1. session.deferred = <<>>
      BY <1>1 DEF SessionInv, ScanExhausted
    <2>2. \E i \in DOMAIN session.deferred : session.deferred[i] = a
      BY <1>1 DEF SessionInv, SessionSound
    <2> QED
      BY <2>1, <2>2
  <1>2. IndInv => ExhaustedMeansTried
    BY <1>1 DEF IndInv, TypeOK
  <1> QED
    BY <1>2, Invariance, PTL

\* Encrypted reasoning leaves its account only when it was refused or tried
\* (recruiter.go admits).
THEOREM EncryptedReasoningStays == Spec => []EncryptedStaysHome
  <1>1. IndInv => EncryptedStaysHome
    BY DEF IndInv, SessionInv
  <1> QED
    BY <1>1, Invariance, PTL

\* No account is called twice in a session, replay included.
THEOREM CalledOncePerSession == Spec => OncePerSession
  <1>1. ASSUME IndInv, Next, pc = "scan", pc' = "call"
        PROVE  session.answers[stream'.account] \notin {"refused", "recruited"}
    <2>1. Recruit
      BY <1>1, OutcomeShape
      DEF Next, Step, Round, Attempt, Settle, Execute, Rebind, BeginRecruitment, BeginFails,
          SkipCandidate, PutOffCandidate, Scanned, ScanFails, EndRound, Forward, Break, Hold,
          Streaming, AttemptErrs, Complete, KeepFailure, CommitFailure, TakesFailure, RetryPool,
          RetryCutShort, FallBackFromPin, NextRoute, Unanswered, ReturnAnswered,
          ReturnInterrupted, ReturnExhausted
    <2>2. stream'.account = CandidateAt(session) /\ ~ScanExhausted(session)
      BY <2>1 DEF Recruit, Scanning, IdleStream
    <2>3. session \in Session /\ SessionSound(session)
      BY <1>1 DEF IndInv, TypeOK, SessionInv
    <2>4. session.answers[CandidateAt(session)] \in {"unseen", "soft"}
      BY <2>2, <2>3, CandidateFresh
    <2> QED
      BY <2>2, <2>4
  <1>2. IndInv /\ [Next]_vars =>
            [pc = "scan" /\ pc' = "call" =>
                session.answers[stream'.account] \notin {"refused", "recruited"}]_vars
    BY <1>1
  <1> QED
    BY <1>2, Invariance, PTL DEF Spec, OncePerSession
-------------------------------------------------------------------------------
(***************************************************************************)
(* The coordinator implements RequestAnswer.                               *)
(***************************************************************************)

\* The steps of the coordinator that the client notices, and what they do.
LEMMA StepAnswers ==
    TypeOK /\ LocalsInv /\ SeenInv /\ [Next]_vars =>
        [Promise!Next]_<<IF result = "no_routable_account" THEN "error" ELSE result,
                         client.by, client.terminal>>
  <1> DEFINE outcome == IF result = "no_routable_account" THEN "error" ELSE result
  <1> SUFFICES ASSUME TypeOK, LocalsInv, SeenInv, [Next]_vars
               PROVE  \/ Promise!Accept \/ Promise!Show \/ Promise!Deliver \/ Promise!Return
                      \/ UNCHANGED <<outcome, client.by, client.terminal>>
    BY DEF Promise!Next
  <1>0. tried \in Nat /\ client \in ClientType(tried)
    BY DEF TypeOK, ClientType
  <1>1. CASE Execute
    <2>1. result # "pending" /\ result' = "pending" /\ client' = NothingSeen
      BY <1>1 DEF Execute, SeenInv
    <2> QED
      BY <2>1 DEF Promise!Accept, Promise!Nothing, NothingSeen
  <1>2. CASE Rebind \/ BeginRecruitment \/ BeginFails \/ SkipCandidate \/ PutOffCandidate
             \/ Recruit \/ ScanFails \/ EndRound \/ Break \/ Hold \/ AttemptErrs \/ KeepFailure
             \/ RetryPool \/ RetryCutShort \/ FallBackFromPin \/ NextRoute
    <2>1. UNCHANGED <<result, client>>
      BY <1>2 DEF Rebind, BeginRecruitment, BeginFails, SkipCandidate, PutOffCandidate, Scanned,
                  Recruit, ScanFails, EndRound, Break, Hold, AttemptErrs, KeepFailure, RetryPool,
                  RetryCutShort, FallBackFromPin, NextRoute, NextExecution, NextRound
    <2> QED
      BY <2>1
  <1>3. CASE Forward
    <2>1. /\ result = "pending" /\ result' = result /\ tried # 0
          /\ client = [by |-> 0, terminal |-> "none"]
          /\ client' = [by |-> tried, terminal |-> "none"]
      BY <1>3 DEF Forward, Streaming, Delivered, SeenInv, LocalsInv
    <2> QED
      BY <1>0, <2>1 DEF Promise!Show, Promise!Nothing
  <1>4. CASE Complete \/ CommitFailure
    <2>1. /\ result = "pending" /\ result' = result /\ tried # 0
          /\ client.terminal = "none" /\ client.by \in {0, tried}
      BY <1>4 DEF Complete, CommitFailure, TakesFailure, SeenInv, LocalsInv
    <2>2. PICK t \in {"completed", "failed"} :
              client' = client \/ client' = [by |-> tried, terminal |-> t]
      BY <1>4 DEF Complete, CommitFailure, FlushTerminal, Delivered
    <2> QED
      BY <1>0, <2>1, <2>2 DEF Promise!Deliver, Promise!End, Promise!Nothing
  <1>5. CASE ReturnAnswered
    <2>1. /\ result = "pending" /\ result' = "nil" /\ client' = client
          /\ client.terminal # "none"
      BY <1>5 DEF ReturnAnswered, Returns, SeenInv
    <2> QED
      BY <2>1 DEF Promise!Return
  <1>6. CASE ReturnInterrupted \/ ReturnExhausted
    <2>1. result = "pending" /\ client.terminal = "none"
      BY <1>6 DEF ReturnInterrupted, ReturnExhausted, Unanswered, SeenInv, NothingSeen
    <2>2. CASE FlushKept
      <3>1. /\ LastFailure # 0 /\ client.by \in {0, LastFailure}
            /\ client' = [by |-> LastFailure, terminal |-> "failed"] /\ result' = "nil"
        BY <2>2 DEF FlushKept, Accepts, Delivered, Returns
      <3>2. LastFailure \in Nat
        BY <1>0 DEF LastFailure, TypeOK
      <3> QED
        BY <2>1, <3>1, <3>2 DEF Promise!Return, Promise!End, Promise!Nothing
    <2>3. CASE NotFlushed("error") \/ NotFlushed("no_routable_account")
      <3>1. client' = client /\ result' \in {"error", "no_routable_account"}
        BY <2>3 DEF NotFlushed, Returns
      <3> QED
        BY <2>1, <3>1 DEF Promise!Return
    <2> QED
      BY <1>6, <2>2, <2>3 DEF ReturnInterrupted, ReturnExhausted
  <1>7. CASE UNCHANGED vars
    BY <1>7 DEF vars
  <1> QED
    BY <1>1, <1>2, <1>3, <1>4, <1>5, <1>6, <1>7 DEF Next, Step, Round, Attempt, Settle

\* Whatever accounts and models are tried, the client sees the output of one
\* attempt, at most one terminal event, and Execute returns nil exactly if
\* that event was delivered (RequestAnswer).
THEOREM AnswersAsPromised == Spec => AnswersOnce
  <1>1. Init => Promise!Init
    BY DEF Init, Promise!Init, Promise!Nothing, NothingSeen
  <1>2. IndInv /\ [Next]_vars => [Promise!Next]_(Promise!vars)
    BY StepAnswers DEF IndInv, Promise!vars
  <1> QED
    BY <1>1, <1>2, Invariance, PTL DEF Spec, AnswersOnce, Promise!Spec
===============================================================================
