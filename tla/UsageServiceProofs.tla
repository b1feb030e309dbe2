-------------------------- MODULE UsageServiceProofs --------------------------
(***************************************************************************)
(* The theorems of UsageService. Typing, the flight, what callers are      *)
(* answered and that a deletion leaves nothing behind hold for any         *)
(* parties; that stored and projected readings are those of the principal  *)
(* signed in holds where nothing is delivered from outside (no writers).   *)
(***************************************************************************)
EXTENDS UsageService, TLAPS
-------------------------------------------------------------------------------
(***************************************************************************)
(* Typing, field by field.                                                 *)
(***************************************************************************)
\* The credentials a step writes, and what a credential is made of.
LEMMA CredentialTyped ==
    /\ \A v \in Version :
          [version |-> v, principal |-> v, expired |-> FALSE] \in Credential
    /\ \A k \in Credential : [k EXCEPT !.expired = TRUE] \in Credential
    /\ \A k \in Credential, v \in Version :
          [k EXCEPT !.version = v, !.expired = FALSE] \in Credential
    /\ \A k \in Credential : k.version \in Version /\ k.principal \in Version
  BY DEF Credential

\* What a snapshot may hold: nothing, or the principal of any credential.
LEMMA ReadingTyped ==
    /\ NoReading \in Reading
    /\ \A k \in Credential \cup {NoCredential} : k.principal \in Reading
  <1>1. NoReading \in Reading /\ NoCredential.principal = NoReading
    BY DEF Reading, NoCredential
  <1>2. \A k \in Credential : k.principal \in Reading
    BY CredentialTyped DEF Reading
  <1> QED
    BY <1>1, <1>2

\* The next credential version is one.
LEMMA VersionTyped ==
    ASSUME versions \in Version, versions < MaxVersion
    PROVE  NewVersion \in Version
  BY BoundAssumption DEF NewVersion, Version

\* The records a step leaves in calls, and what a call is made of.
LEMMA CallTyped ==
    /\ IdleCall \in Call
    /\ \A l \in Caller, n \in Nat, r \in Reading :
          [IdleCall EXCEPT !.step = "resolve", !.leader = l, !.number = n,
                           !.asked = r] \in Call
    /\ \A l \in Caller, r \in Reading :
          [IdleCall EXCEPT !.step = "waiting", !.leader = l, !.asked = r] \in Call
    /\ \A k \in Call, s \in LeaderSteps : [k EXCEPT !.step = s] \in Call
    /\ \A k \in Call, p \in Credential :
          [k EXCEPT !.step = "fetch", !.probe = p] \in Call
    /\ \A k \in Call : [k EXCEPT !.step = "finish", !.ok = TRUE] \in Call
    /\ \A k \in Call : [k EXCEPT !.cancelled = "abandoned"] \in Call
    /\ \A k \in Call : [k EXCEPT !.cancelled = "detached"] \in Call
    /\ \A k \in Call : k.probe \in Credential \cup {NoCredential} /\ k.number \in Nat
  BY DEF Call, IdleCall, LeaderSteps, Reading, NoReading

\* The same for deliveries.
LEMMA DeliveryTyped ==
    /\ IdleDelivery \in Delivery
    /\ \A r \in Reading, s \in {"resolve", "store"} :
          [IdleDelivery EXCEPT !.step = s, !.reading = r] \in Delivery
    /\ \A k \in Delivery, v \in Version :
          [k EXCEPT !.step = "store", !.version = v] \in Delivery
    /\ \A k \in Delivery : [k EXCEPT !.step = "project"] \in Delivery
    /\ \A k \in Delivery : k.reading \in Reading
  BY DEF Delivery, IdleDelivery, Reading, NoReading, NoVersion

\* The initial state is well-typed.
LEMMA InitTyped == Init => TypeOK
  <1> SUFFICES ASSUME Init PROVE TypeOK
    OBVIOUS
  <1>1. 1 \in Version
    BY BoundAssumption DEF Version
  <1> QED
    BY <1>1, CredentialTyped, ReadingTyped, CallTyped, DeliveryTyped
    DEF Init, TypeOK, ForgetSteps

\* Every step keeps the types.
LEMMA NextTyped == TypeOK /\ [Next]_vars => TypeOK'
  <1> SUFFICES ASSUME TypeOK, [Next]_vars PROVE TypeOK'
    OBVIOUS
  <1> USE DEF TypeOK
  <1>1. ASSUME NEW c \in Caller, RefreshUsage(c) PROVE TypeOK'
    <2>1. Asked \in Reading
      BY ReadingTyped DEF Asked
    <2>2. CASE active = NoOne
      <3>1. active' = c
        BY <1>1, <2>2 DEF RefreshUsage
      <3>2. calls' \in [Caller -> Call]
        <4> DEFINE lead == [IdleCall EXCEPT !.step = "resolve", !.leader = c,
                                 !.number = generation, !.asked = Asked]
        <4>1. lead \in Call
          BY <2>1, CallTyped
        <4>2. calls' = [calls EXCEPT ![c] = lead]
          BY <1>1, <2>2 DEF RefreshUsage
        <4> QED
          BY <4>1, <4>2
      <3> QED
        BY <1>1, <3>1, <3>2 DEF RefreshUsage, database
    <2>3. CASE active # NoOne
      <3>1. active \in Caller
        BY <2>3
      <3>2. calls' \in [Caller -> Call]
        BY <1>1, <2>1, <2>3, <3>1, CallTyped DEF RefreshUsage
      <3> QED
        BY <1>1, <2>3, <3>2 DEF RefreshUsage, database
    <2> QED
      BY <2>2, <2>3
  <1>2. ASSUME NEW c \in Caller, ResolveCredential(c) PROVE TypeOK'
    BY <1>2, CallTyped DEF ResolveCredential, Exists, database
  <1>3. ASSUME NEW c \in Caller, FetchUsage(c) PROVE TypeOK'
    BY <1>3, CallTyped DEF FetchUsage, Advance, LeaderSteps, database
  <1>4. ASSUME NEW c \in Caller, StoreSnapshot(c) PROVE TypeOK'
    BY <1>4, CallTyped, ReadingTyped DEF StoreSnapshot, Advance, LeaderSteps
  <1>5. ASSUME NEW c \in Caller, StoreDocument(c) PROVE TypeOK'
    BY <1>5, CallTyped DEF StoreDocument, Advance, LeaderSteps, database
  <1>6. ASSUME NEW c \in Caller, Project(c) PROVE TypeOK'
    BY <1>6, CallTyped, ReadingTyped DEF Project, database
  <1>7. ASSUME NEW c \in Caller, Fail(c) PROVE TypeOK'
    BY <1>7, CallTyped DEF Fail, Advance, LeaderSteps, database
  <1>8. ASSUME NEW c \in Caller, Finish(c) PROVE TypeOK'
    BY <1>8, CallTyped DEF Finish, database
  <1>9. ASSUME NEW c \in Caller, Abandon(c) PROVE TypeOK'
    <2>1. CASE calls' = [calls EXCEPT ![c] = IdleCall]
      BY <1>9, <2>1, CallTyped DEF Abandon, database
    <2>2. CASE calls' = [calls EXCEPT ![c].cancelled = "abandoned"]
      BY <1>9, <2>2, CallTyped DEF Abandon, database
    <2> QED
      BY <1>9, <2>1, <2>2 DEF Abandon
  <1>10. ASSUME NEW w \in Writer, Collect(w) PROVE TypeOK'
    <2>1. credential.principal \in Reading
      BY ReadingTyped
    <2>2. PICK step \in {"resolve", "store"} :
             deliveries' = [deliveries EXCEPT ![w] =
                 [IdleDelivery EXCEPT !.step = step, !.reading = credential.principal]]
      BY <1>10 DEF Collect
    <2>3. deliveries' \in [Writer -> Delivery]
      BY <2>1, <2>2, DeliveryTyped
    <2> QED
      BY <1>10, <2>3 DEF Collect, database
  <1>11. ASSUME NEW w \in Writer, Deliver(w) PROVE TypeOK'
    <2>1. CASE ResolveDelivery(w)
      BY <2>1, DeliveryTyped, CredentialTyped DEF ResolveDelivery, Exists, database
    <2>2. CASE StoreDelivery(w)
      BY <2>2, DeliveryTyped DEF StoreDelivery
    <2>3. CASE ProjectDelivery(w)
      BY <2>3, DeliveryTyped DEF ProjectDelivery, database
    <2>4. CASE FailDelivery(w)
      BY <2>4, DeliveryTyped DEF FailDelivery, database
    <2> QED
      BY <1>11, <2>1, <2>2, <2>3, <2>4 DEF Deliver
  <1>12. ASSUME NEW m \in Mutator, CommitCredential(m) PROVE TypeOK'
    BY <1>12, CredentialTyped, ReadingTyped, VersionTyped
    DEF CommitCredential, SignedIn, ForgetSteps
  <1>13. ASSUME NEW m \in Mutator, CommitDeletion(m) PROVE TypeOK'
    BY <1>13, ReadingTyped DEF CommitDeletion, ForgetSteps
  <1>13a. ASSUME NEW m \in Mutator, KeepCredential(m) PROVE TypeOK'
    BY <1>13a DEF KeepCredential, ForgetSteps, database
  <1>14. ASSUME NEW m \in Mutator, SwitchGeneration(m) PROVE TypeOK'
    BY <1>14 DEF SwitchGeneration, ForgetSteps, database
  <1>15. ASSUME NEW m \in Mutator, DetachRefresh(m) PROVE TypeOK'
    <2>1. forgets' \in [Mutator -> ForgetSteps]
      BY <1>15 DEF DetachRefresh, ForgetSteps
    <2>2. active' \in Caller \cup {NoOne} /\ calls' \in [Caller -> Call]
      <3>1. CASE active # NoOne /\ Outdated(active)
        <4>1. active' = NoOne /\ calls' = [calls EXCEPT ![active].cancelled = "detached"]
          BY <1>15, <3>1 DEF DetachRefresh
        <4>2. active \in Caller /\ calls[active] \in Call
          BY <3>1
        <4>3. [calls[active] EXCEPT !.cancelled = "detached"] \in Call
          BY <4>2, CallTyped
        <4>4. calls' \in [Caller -> Call]
          BY <4>1, <4>2, <4>3
        <4> QED
          BY <4>1, <4>4
      <3>2. CASE ~(active # NoOne /\ Outdated(active))
        BY <1>15, <3>2 DEF DetachRefresh
      <3> QED
        BY <3>1, <3>2
    <2> QED
      BY <1>15, <2>1, <2>2 DEF DetachRefresh, database
  <1>16. ASSUME NEW m \in Mutator, ClearProjection(m) PROVE TypeOK'
    BY <1>16, ReadingTyped DEF ClearProjection, ForgetSteps, database
  <1>17. ASSUME Register PROVE TypeOK'
    BY <1>17, CredentialTyped, VersionTyped DEF Register, SignedIn
  <1>18. ASSUME Expire PROVE TypeOK'
    BY <1>18, CredentialTyped DEF Expire, Exists
  <1>19. ASSUME Renew PROVE TypeOK'
    BY <1>19, CredentialTyped, VersionTyped DEF Renew, Exists
  <1>20. ASSUME Restart PROVE TypeOK'
    BY <1>20, CallTyped, DeliveryTyped DEF Restart, ForgetSteps, database
  <1>21. CASE UNCHANGED vars
    BY <1>21 DEF vars, database
  <1> QED
    BY <1>1, <1>2, <1>3, <1>4, <1>5, <1>6, <1>7, <1>8, <1>9, <1>10, <1>11,
       <1>12, <1>13, <1>13a, <1>14, <1>15, <1>16, <1>17, <1>18, <1>19, <1>20, <1>21
    DEF Next, Progress, Forget

\* Every reachable state is well-typed.
THEOREM TypeCorrect == Spec => []TypeOK
  BY InitTyped, NextTyped, PTL DEF Spec
-------------------------------------------------------------------------------
(***************************************************************************)
(* The flight.                                                             *)
(***************************************************************************)
\* A step that leaves the flight, the generation and the leaders alone.
LEMMA FlightKept ==
    ASSUME TypeOK, FlightInv, active' = active, generation' = generation,
           \A m \in Mutator :
               /\ forgets'[m] = "switched" <=> forgets[m] = "switched"
               /\ forgets'[m] = "detached" => forgets[m] = "detached",
           \A d \in Caller :
               /\ calls'[d].step \in LeaderSteps <=> calls[d].step \in LeaderSteps
               /\ Leads(d) => calls'[d].number = calls[d].number
               /\ Leads(d) /\ calls'[d].cancelled = "detached"
                    => calls[d].cancelled = "detached"
    PROVE  FlightInv'
  <1>1. Settled' = Settled
    BY DEF Settled
  <1>2. \A d \in Caller : Leads(d)' <=> Leads(d)
    BY DEF Leads
  <1>3. active # NoOne => active \in Caller
    BY DEF TypeOK
  <1> QED
    BY <1>1, <1>2, <1>3 DEF FlightInv, OneRefresh, FreshRefreshSurvives

\* One leader moves on: its number and its cancellation stay.
LEMMA LeaderMoves ==
    ASSUME TypeOK, FlightInv, NEW c \in Caller, Leads(c),
           UNCHANGED <<active, generation, forgets>>,
           calls' \in [Caller -> Call],
           \A d \in Caller \ {c} : calls'[d] = calls[d],
           calls'[c].step \in LeaderSteps,
           calls'[c].number = calls[c].number,
           calls'[c].cancelled = "detached" => calls[c].cancelled = "detached"
    PROVE  FlightInv'
  BY FlightKept DEF Leads

\* No flight is under way at first.
LEMMA InitFlight == Init => FlightInv
  BY PartyAssumption
  DEF Init, FlightInv, OneRefresh, FreshRefreshSurvives, Leads, LeaderSteps, IdleCall

\* Every step keeps what is known of flights and their leaders.
LEMMA NextFlight == TypeOK /\ FlightInv /\ [Next]_vars => FlightInv'
  <1> SUFFICES ASSUME TypeOK, FlightInv, [Next]_vars PROVE FlightInv'
    OBVIOUS
  <1>0. TypeOK'
    BY NextTyped
  <1>1. ASSUME NEW c \in Caller, RefreshUsage(c) PROVE FlightInv'
    <2>1. Settled' = Settled /\ Settled <= generation
      BY <1>1 DEF RefreshUsage, Settled, TypeOK
    <2>2. CASE active = NoOne
      <3>1. /\ active' = c
            /\ calls'[c].step = "resolve"
            /\ calls'[c].number = generation
            /\ calls'[c].cancelled = "no"
            /\ \A d \in Caller \ {c} : calls'[d] = calls[d]
            /\ UNCHANGED <<generation, forgets>>
        BY <1>1, <2>2 DEF RefreshUsage, IdleCall, TypeOK
      <3>2. \A d \in Caller \ {c} : (Leads(d)' <=> Leads(d)) /\ calls'[d] = calls[d]
        BY <3>1 DEF Leads
      <3>3. \A d \in Caller \ {c} : Leads(d) => calls[d].number < Settled
        BY <2>2, PartyAssumption DEF FlightInv
      <3>4. \A d \in Caller : calls[d].number \in Nat
        BY CallTyped DEF TypeOK
      <3>5. Leads(c)'
        BY <3>1 DEF Leads, LeaderSteps
      <3>6. OneRefresh'
        BY <2>1, <3>1, <3>2, <3>3, <3>4 DEF FlightInv, OneRefresh, Settled, TypeOK
      <3>7. FreshRefreshSurvives'
        BY <3>1, <3>2 DEF FlightInv, FreshRefreshSurvives
      <3> QED
        BY <2>1, <3>1, <3>2, <3>3, <3>4, <3>5, <3>6, <3>7 DEF FlightInv, TypeOK
    <2>3. CASE active # NoOne
      <3>1. /\ calls'[c].step = "waiting" /\ calls[c].step = "idle"
            /\ \A d \in Caller \ {c} : calls'[d] = calls[d]
            /\ UNCHANGED <<active, generation, forgets>>
        BY <1>1, <2>3 DEF RefreshUsage, IdleCall, TypeOK
      <3> QED
        BY <3>1, FlightKept DEF Leads, LeaderSteps
    <2> QED
      BY <2>2, <2>3
  <1>2. ASSUME NEW c \in Caller, ResolveCredential(c) PROVE FlightInv'
    BY <1>0, <1>2, LeaderMoves DEF ResolveCredential, At, Leads, LeaderSteps, TypeOK, Call
  <1>3. ASSUME NEW c \in Caller, FetchUsage(c) PROVE FlightInv'
    BY <1>0, <1>3, LeaderMoves DEF FetchUsage, Advance, At, Leads, LeaderSteps, TypeOK, Call
  <1>4. ASSUME NEW c \in Caller, StoreSnapshot(c) PROVE FlightInv'
    BY <1>0, <1>4, LeaderMoves DEF StoreSnapshot, Advance, At, Leads, LeaderSteps, TypeOK, Call
  <1>5. ASSUME NEW c \in Caller, StoreDocument(c) PROVE FlightInv'
    BY <1>0, <1>5, LeaderMoves DEF StoreDocument, Advance, At, Leads, LeaderSteps, TypeOK, Call
  <1>6. ASSUME NEW c \in Caller, Project(c) PROVE FlightInv'
    BY <1>0, <1>6, LeaderMoves DEF Project, At, Leads, LeaderSteps, TypeOK, Call
  <1>7. ASSUME NEW c \in Caller, Fail(c) PROVE FlightInv'
    BY <1>0, <1>7, LeaderMoves DEF Fail, Advance, Leads, LeaderSteps, TypeOK, Call
  <1>8. ASSUME NEW c \in Caller, Finish(c) PROVE FlightInv'
    <2>1. /\ Leads(c) /\ ~Leads(c)'
          /\ \A d \in Caller : Leads(d)' => Leads(d) /\ calls'[d] = calls[d]
          /\ \A d \in Caller \ {c} : Leads(d) => Leads(d)'
          /\ UNCHANGED <<generation, forgets>>
      BY <1>8 DEF Finish, At, WaitsFor, Leads, LeaderSteps, IdleCall
    <2>2. Settled' = Settled
      BY <2>1 DEF Settled
    <2>3. \/ active = c /\ active' = NoOne
          \/ active # c /\ active' = active
      BY <1>8 DEF Finish, ReleasesFlight
    <2>4. active # NoOne => active \in Caller
      BY DEF TypeOK
    <2> QED
      BY <2>1, <2>2, <2>3, <2>4 DEF FlightInv, OneRefresh, FreshRefreshSurvives
  <1>9. ASSUME NEW c \in Caller, Abandon(c) PROVE FlightInv'
    <2>1. CASE At(c, "waiting") /\ calls' = [calls EXCEPT ![c] = IdleCall]
      BY <1>9, <2>1, FlightKept DEF Abandon, At, Leads, LeaderSteps, IdleCall, TypeOK
    <2>2. CASE Leads(c) /\ calls' = [calls EXCEPT ![c].cancelled = "abandoned"]
      BY <1>0, <1>9, <2>2, LeaderMoves DEF Abandon, Leads, TypeOK, Call
    <2> QED
      BY <1>9, <2>1, <2>2 DEF Abandon
  <1>10. ASSUME NEW w \in Writer, Collect(w) PROVE FlightInv'
    BY <1>10, FlightKept DEF Collect
  <1>11. ASSUME NEW w \in Writer, Deliver(w) PROVE FlightInv'
    BY <1>11, FlightKept
    DEF Deliver, ResolveDelivery, StoreDelivery, ProjectDelivery, FailDelivery
  <1>12. ASSUME NEW m \in Mutator, CommitCredential(m) PROVE FlightInv'
    BY <1>12, FlightKept DEF CommitCredential, TypeOK
  <1>13. ASSUME NEW m \in Mutator, CommitDeletion(m) PROVE FlightInv'
    BY <1>13, FlightKept DEF CommitDeletion, TypeOK
  <1>13a. ASSUME NEW m \in Mutator, KeepCredential(m) PROVE FlightInv'
    BY <1>13a, FlightKept DEF KeepCredential, TypeOK
  <1>14. ASSUME NEW m \in Mutator, SwitchGeneration(m) PROVE FlightInv'
    <2>1. /\ generation' = generation + 1
          /\ UNCHANGED <<active, calls>>
          /\ forgets'[m] = "switched"
          /\ \A n \in Mutator \ {m} : forgets'[n] = forgets[n]
      BY <1>14 DEF SwitchGeneration, TypeOK
    <2>2. \A n \in Mutator : forgets[n] \notin {"switched", "detached"}
      BY <1>14 DEF SwitchGeneration, ProjectionLocked
    <2>3. Settled' = generation /\ Settled = generation
      BY <2>1, <2>2 DEF Settled, TypeOK
    <2>4. \A c \in Caller : calls[c].number \in Nat
      BY CallTyped DEF TypeOK
    <2>5. active # NoOne => active \in Caller
      BY DEF TypeOK
    <2> QED
      BY <2>1, <2>2, <2>3, <2>4, <2>5 DEF FlightInv, OneRefresh, FreshRefreshSurvives, Leads, TypeOK
  <1>15. ASSUME NEW m \in Mutator, DetachRefresh(m) PROVE FlightInv'
    <2>1. /\ forgets[m] = "switched" /\ forgets'[m] = "detached"
          /\ generation' = generation
          /\ \A n \in Mutator \ {m} : forgets'[n] = forgets[n]
      BY <1>15 DEF DetachRefresh, TypeOK
    <2>2. \A n \in Mutator \ {m} : forgets[n] \notin {"switched", "detached"}
      BY <2>1 DEF FlightInv
    <2>3. Settled = generation - 1 /\ Settled' = generation
      BY <2>1, <2>2 DEF Settled
    <2>4. \A c \in Caller : calls[c].number \in Nat
      BY CallTyped DEF TypeOK
    <2>5. active # NoOne => active \in Caller
      BY DEF TypeOK
    <2>6. CASE active # NoOne /\ Outdated(active)
      <3>1. /\ active' = NoOne
            /\ calls' = [calls EXCEPT ![active].cancelled = "detached"]
        BY <1>15, <2>6 DEF DetachRefresh
      <3>2. \A c \in Caller : /\ calls'[c].number = calls[c].number
                              /\ calls'[c].step = calls[c].step
                              /\ c # active => calls'[c] = calls[c]
        BY <3>1, <2>5, <2>6 DEF TypeOK, Call
      <3>3. \A c \in Caller : Leads(c) => calls[c].number < generation
        BY <2>3, <2>4, <2>6 DEF FlightInv, Outdated, TypeOK
      <3> QED
        BY <2>1, <2>2, <2>3, <2>4, <3>1, <3>2, <3>3
        DEF FlightInv, OneRefresh, FreshRefreshSurvives, Leads, TypeOK
    <2>7. CASE ~(active # NoOne /\ Outdated(active))
      <3>1. UNCHANGED <<active, calls>>
        BY <1>15, <2>7 DEF DetachRefresh
      <3> QED
        BY <2>1, <2>2, <2>3, <2>4, <2>5, <2>7, <3>1
        DEF FlightInv, OneRefresh, FreshRefreshSurvives, Outdated, Leads, TypeOK
    <2> QED
      BY <2>6, <2>7
  <1>16. ASSUME NEW m \in Mutator, ClearProjection(m) PROVE FlightInv'
    BY <1>16, FlightKept DEF ClearProjection, TypeOK
  <1>17. CASE Register \/ Expire \/ Renew \/ UNCHANGED vars
    BY <1>17, FlightKept DEF Register, Expire, Renew, vars
  <1>18. CASE Restart
    BY <1>18, PartyAssumption
    DEF Restart, FlightInv, OneRefresh, FreshRefreshSurvives, Leads, LeaderSteps, IdleCall
  <1> QED
    BY <1>1, <1>2, <1>3, <1>4, <1>5, <1>6, <1>7, <1>8, <1>9, <1>10, <1>11,
       <1>12, <1>13, <1>13a, <1>14, <1>15, <1>16, <1>17, <1>18
    DEF Next, Progress, Forget

\* Two refreshes of one generation never run side by side.
THEOREM OneRefreshPerGeneration == Spec => []OneRefresh
  <1>1. FlightInv => OneRefresh
    BY DEF FlightInv
  <1> QED
    BY <1>1, TypeCorrect, InitFlight, NextFlight, PTL DEF Spec

\* No refresh of the newest generation has been cancelled by a ForgetAccount.
THEOREM FreshRefreshesSurvive == Spec => []FreshRefreshSurvives
  <1>1. FlightInv => FreshRefreshSurvives
    BY DEF FlightInv
  <1> QED
    BY <1>1, TypeCorrect, InitFlight, NextFlight, PTL DEF Spec
-------------------------------------------------------------------------------
(***************************************************************************)
(* Whose readings are stored and projected.                                *)
(***************************************************************************)
NothingCommitted == \A m \in Mutator : forgets[m] # "committed"

\* A step that changes no credential, and takes nobody's probe anywhere new.
LEMMA ProbesKept ==
    ASSUME ProbeInv,
           UNCHANGED <<credential, versions, generation>>,
           NothingCommitted' => NothingCommitted,
           \A d \in Caller : HasProbe(d)' =>
               /\ HasProbe(d)
               /\ calls'[d].probe = calls[d].probe
               /\ calls'[d].number = calls[d].number
    PROVE  ProbeInv'
  BY DEF ProbeInv, OfCurrentGeneration, NothingCommitted

\* Nobody has read a credential at first.
LEMMA InitProbes == Init => ProbeInv
  BY DEF Init, ProbeInv, HasProbe, IdleCall

\* No step lets a probe pass for one of a principal it is not of.
LEMMA NextProbes == TypeOK /\ FlightInv /\ ProbeInv /\ [Next]_vars => ProbeInv'
  <1> SUFFICES ASSUME TypeOK, FlightInv, ProbeInv, [Next]_vars
               PROVE  ProbeInv'
    OBVIOUS
  <1>a. \A d \in Caller : HasProbe(d) =>
            calls[d].probe.version \in Version /\ calls[d].probe.principal \in Version
    BY CredentialTyped DEF ProbeInv
  <1>b. \A v \in Version : v # NoReading /\ v # NoVersion /\ v \in Int
    BY DEF Version, NoReading, NoVersion
  <1>c. versions \in Version /\ generation \in Nat /\ \A d \in Caller : calls[d].number \in Nat
    BY CallTyped DEF TypeOK
  <1>1. ASSUME NEW c \in Caller, RefreshUsage(c) PROVE ProbeInv'
    <2> DEFINE lead == [IdleCall EXCEPT !.step = "resolve", !.leader = c,
                                        !.number = generation, !.asked = Asked]
               follow == [IdleCall EXCEPT !.step = "waiting", !.leader = active,
                                          !.asked = Asked]
    <2>1. calls' = [calls EXCEPT ![c] = lead] \/ calls' = [calls EXCEPT ![c] = follow]
      BY <1>1 DEF RefreshUsage
    <2>a. lead.step = "resolve" /\ follow.step = "waiting"
      BY DEF IdleCall
    <2> HIDE DEF lead, follow
    <2>2. calls'[c].step \in {"resolve", "waiting"} /\ \A d \in Caller \ {c} : calls'[d] = calls[d]
      BY <2>1, <2>a DEF TypeOK
    <2>3. ~HasProbe(c)'
      BY <2>2 DEF HasProbe
    <2> QED
      BY <1>1, <2>2, <2>3, ProbesKept
      DEF RefreshUsage, database, HasProbe, NothingCommitted
  <1>2. ASSUME NEW c \in Caller, ResolveCredential(c) PROVE ProbeInv'
    <2>1. /\ calls'[c].probe = credential /\ credential \in Credential
          /\ \A d \in Caller \ {c} : calls'[d] = calls[d]
          /\ UNCHANGED <<credential, versions, generation, forgets>>
      BY <1>2 DEF ResolveCredential, Exists, database, TypeOK, Call
    <2> QED
      BY <2>1 DEF ProbeInv, HasProbe, OfCurrentGeneration, NothingCommitted
  <1>3. ASSUME NEW c \in Caller, FetchUsage(c) PROVE ProbeInv'
    BY <1>3, ProbesKept
    DEF FetchUsage, Advance, At, HasProbe, database, NothingCommitted, TypeOK, Call
  <1>4. ASSUME NEW c \in Caller, StoreSnapshot(c) PROVE ProbeInv'
    BY <1>4, ProbesKept
    DEF StoreSnapshot, Advance, At, HasProbe, NothingCommitted, TypeOK, Call
  <1>5. ASSUME NEW c \in Caller, StoreDocument(c) PROVE ProbeInv'
    BY <1>5, ProbesKept
    DEF StoreDocument, Advance, At, HasProbe, database, NothingCommitted, TypeOK, Call
  <1>6. ASSUME NEW c \in Caller, Project(c) PROVE ProbeInv'
    BY <1>6, ProbesKept
    DEF Project, HasProbe, database, NothingCommitted, TypeOK, Call
  <1>7. ASSUME NEW c \in Caller, Fail(c) PROVE ProbeInv'
    BY <1>7, ProbesKept
    DEF Fail, Advance, HasProbe, database, NothingCommitted, TypeOK, Call
  <1>8. ASSUME NEW c \in Caller, Finish(c) PROVE ProbeInv'
    BY <1>8, ProbesKept
    DEF Finish, HasProbe, IdleCall, database, NothingCommitted
  <1>9. ASSUME NEW c \in Caller, Abandon(c) PROVE ProbeInv'
    <2>1. \A d \in Caller : HasProbe(d)' => /\ HasProbe(d)
                                            /\ calls'[d].probe = calls[d].probe
                                            /\ calls'[d].number = calls[d].number
      <3>1. CASE calls' = [calls EXCEPT ![c] = IdleCall]
        BY <3>1 DEF HasProbe, IdleCall, TypeOK
      <3>2. CASE calls' = [calls EXCEPT ![c].cancelled = "abandoned"]
        BY <3>2 DEF HasProbe, TypeOK, Call
      <3> QED
        BY <1>9, <3>1, <3>2 DEF Abandon
    <2> QED
      BY <1>9, <2>1, ProbesKept DEF Abandon, database, NothingCommitted
  <1>10. ASSUME NEW m \in Mutator, CommitCredential(m) PROVE ProbeInv'
    <2>1. /\ credential'.version = versions + 1
          /\ versions' = versions + 1
          /\ forgets'[m] = "committed"
          /\ UNCHANGED <<generation, calls>>
      BY <1>10 DEF CommitCredential, SignedIn, NewVersion, TypeOK
    <2>2. ~(\A n \in Mutator : forgets'[n] # "committed")
      BY <2>1
    <2> QED
      BY <1>a, <1>b, <1>c, <2>1, <2>2
      DEF ProbeInv, HasProbe, OfCurrentGeneration
  <1>11. ASSUME NEW m \in Mutator, CommitDeletion(m) PROVE ProbeInv'
    <2>1. /\ credential'.version = NoVersion
          /\ forgets'[m] = "committed"
          /\ UNCHANGED <<versions, generation, calls>>
      BY <1>11 DEF CommitDeletion, NoCredential, TypeOK
    <2>2. ~(\A n \in Mutator : forgets'[n] # "committed")
      BY <2>1
    <2>3. NoVersion <= versions
      BY <1>c DEF Version, NoVersion
    <2> QED
      BY <1>a, <1>b, <1>c, <2>1, <2>2, <2>3
      DEF ProbeInv, HasProbe, OfCurrentGeneration
  <1>11a. ASSUME NEW m \in Mutator, KeepCredential(m) PROVE ProbeInv'
    <2>1. forgets'[m] = "committed" /\ UNCHANGED <<database, generation, calls>>
      BY <1>11a DEF KeepCredential, TypeOK
    <2>2. ~NothingCommitted'
      BY <2>1 DEF NothingCommitted
    <2> QED
      BY <2>1, <2>2, ProbesKept DEF database, HasProbe
  <1>12. ASSUME NEW m \in Mutator, SwitchGeneration(m) PROVE ProbeInv'
    <2>1. generation' = generation + 1 /\ UNCHANGED <<credential, versions, calls>>
      BY <1>12 DEF SwitchGeneration, database
    <2>2. \A d \in Caller : HasProbe(d) => ~OfCurrentGeneration(d)'
      <3>1. \A d \in Caller : HasProbe(d) => calls[d].number < generation'
        BY <1>c, <2>1 DEF FlightInv, HasProbe, Leads, LeaderSteps
      <3> QED
        BY <1>c, <2>1, <3>1 DEF OfCurrentGeneration
    <2> QED
      BY <2>1, <2>2 DEF ProbeInv, HasProbe
  <1>13. ASSUME NEW m \in Mutator, DetachRefresh(m) PROVE ProbeInv'
    <2>1. \A d \in Caller : /\ calls'[d].step = calls[d].step
                            /\ calls'[d].probe = calls[d].probe
                            /\ calls'[d].number = calls[d].number
      <3>1. CASE active # NoOne /\ Outdated(active)
        <4>1. calls' = [calls EXCEPT ![active].cancelled = "detached"]
          BY <1>13, <3>1 DEF DetachRefresh
        <4> QED
          BY <3>1, <4>1 DEF TypeOK, Call
      <3>2. CASE ~(active # NoOne /\ Outdated(active))
        BY <1>13, <3>2 DEF DetachRefresh
      <3> QED
        BY <3>1, <3>2
    <2>2. NothingCommitted' => NothingCommitted
      BY <1>13 DEF DetachRefresh, NothingCommitted, TypeOK
    <2> QED
      BY <1>13, <2>1, <2>2, ProbesKept DEF DetachRefresh, database, HasProbe
  <1>14. ASSUME NEW m \in Mutator, ClearProjection(m) PROVE ProbeInv'
    BY <1>14, ProbesKept DEF ClearProjection, database, NothingCommitted, HasProbe, TypeOK
  <1>15. CASE Register
    <2>1. /\ credential = NoCredential
          /\ credential'.version = versions + 1
          /\ versions' = versions + 1
          /\ UNCHANGED <<generation, calls, forgets>>
      BY <1>15 DEF Register, Exists, SignedIn, NewVersion
    <2>2. \A d \in Caller :
              HasProbe(d) /\ NothingCommitted => ~OfCurrentGeneration(d)
      BY <1>a, <1>b, <2>1 DEF ProbeInv, NothingCommitted, NoCredential
    <2> QED
      BY <1>a, <1>b, <1>c, <2>1, <2>2
      DEF ProbeInv, HasProbe, OfCurrentGeneration, NothingCommitted
  <1>16. CASE Expire
    <2>1. /\ credential'.version = credential.version
          /\ credential'.principal = credential.principal
          /\ UNCHANGED <<versions, generation, calls, forgets>>
      BY <1>16 DEF Expire, Exists, TypeOK, Credential
    <2> QED
      BY <2>1 DEF ProbeInv, HasProbe, OfCurrentGeneration, NothingCommitted
  <1>17. CASE Renew
    <2>1. /\ credential'.version = versions + 1
          /\ credential'.principal = credential.principal
          /\ versions' = versions + 1
          /\ UNCHANGED <<generation, calls, forgets>>
      BY <1>17 DEF Renew, NewVersion, Exists, TypeOK, Credential
    <2> QED
      BY <1>a, <1>b, <1>c, <2>1
      DEF ProbeInv, HasProbe, OfCurrentGeneration, NothingCommitted
  <1>18. CASE Restart
    BY <1>18 DEF Restart, database, ProbeInv, HasProbe, IdleCall
  <1>19. CASE UNCHANGED vars
    BY <1>19, ProbesKept DEF vars, database, HasProbe, NothingCommitted
  <1>20. ASSUME NEW w \in Writer, Collect(w) \/ Deliver(w) PROVE ProbeInv'
    BY <1>20, ProbesKept
    DEF Collect, Deliver, ResolveDelivery, StoreDelivery, ProjectDelivery, FailDelivery,
        database, HasProbe, NothingCommitted
  <1> QED
    BY <1>1, <1>2, <1>3, <1>4, <1>5, <1>6, <1>7, <1>8, <1>9, <1>10, <1>11, <1>11a,
       <1>12, <1>13, <1>14, <1>15, <1>16, <1>17, <1>18, <1>19, <1>20
    DEF Next, Progress, Forget

\* For any parties.
LEMMA ProbeInvariance == Spec => []ProbeInv
  BY TypeCorrect, InitFlight, NextFlight, InitProbes, NextProbes, PTL DEF Spec

\* What a refresh stores passed the version gate.
LEMMA StoresTheirs ==
    ASSUME ProbeInv, NEW c \in Caller, StoreSnapshot(c)
    PROVE  stored' = credential.principal
  BY DEF StoreSnapshot, MatchesCredentialVersion, At, HasProbe, ProbeInv

\* What it projects passed the gate of the generation.
LEMMA ProjectsTheirs ==
    ASSUME ProbeInv, NEW c \in Caller, Project(c), ~Forgetting
    PROVE  projected' = credential.principal
<1>1. HasProbe(c) /\ OfCurrentGeneration(c) /\ projected' = calls[c].probe.principal
  BY DEF Project, At, HasProbe
<1>2. \A m \in Mutator : forgets[m] # "committed"
  BY DEF Forgetting
<1> QED
  BY <1>1, <1>2 DEF ProbeInv

\* A deleted account has no principal.
LEMMA NoPrincipal == NoCredential.principal = NoReading
  BY DEF NoCredential

\* A snapshot of the principal signed in stays one, or goes, as long as nothing
\* is delivered.
LEMMA SnapshotKept ==
    ASSUME TypeOK, ProbeInv, StoredOfPrincipal, [Next]_vars,
           \A w \in Writer : ~StoreDelivery(w)
    PROVE  StoredOfPrincipal'
<1>1. ASSUME stored' = stored, credential'.principal = credential.principal
      PROVE  StoredOfPrincipal'
  BY <1>1 DEF StoredOfPrincipal
<1>2. ASSUME NEW c \in Caller, RefreshUsage(c) \/ Progress(c) \/ Abandon(c)
      PROVE  StoredOfPrincipal'
  <2>1. CASE StoreSnapshot(c)
    BY <2>1, StoresTheirs DEF StoreSnapshot, StoredOfPrincipal
  <2>2. CASE ~ StoreSnapshot(c)
    BY <1>1, <1>2, <2>2
    DEF Progress, RefreshUsage, ResolveCredential, FetchUsage, StoreDocument,
        Project, Fail, Finish, Abandon, database
  <2> QED
    BY <2>1, <2>2
<1>3. ASSUME NEW w \in Writer, Collect(w) \/ Deliver(w) PROVE StoredOfPrincipal'
  BY <1>1, <1>3
  DEF Deliver, Collect, ResolveDelivery, ProjectDelivery, FailDelivery, database
<1>4. ASSUME NEW m \in Mutator, CommitCredential(m) \/ CommitDeletion(m)
      PROVE  StoredOfPrincipal'
  BY <1>4 DEF CommitCredential, CommitDeletion, StoredOfPrincipal
<1>5. ASSUME NEW m \in Mutator, KeepCredential(m) \/ Forget(m) PROVE StoredOfPrincipal'
  BY <1>1, <1>5
  DEF KeepCredential, Forget, SwitchGeneration, DetachRefresh, ClearProjection, database
<1>6. CASE Register
  BY <1>6, NoPrincipal DEF Register, Exists, StoredOfPrincipal
<1>7. CASE Expire
  BY <1>1, <1>7 DEF Expire, Exists, TypeOK, Credential
<1>8. CASE Renew
  BY <1>1, <1>8 DEF Renew, Exists, TypeOK, Credential
<1>9. CASE Restart \/ UNCHANGED vars
  BY <1>1, <1>9 DEF Restart, vars, database
<1> QED
  BY <1>2, <1>3, <1>4, <1>5, <1>6, <1>7, <1>8, <1>9 DEF Next

\* And the usage facts in memory with it: nothing is forgotten in between, or
\* the forgetting ends with them.
LEMMA FactsKept ==
    ASSUME TypeOK, ProbeInv, StoredOfPrincipal, ProjectedOfPrincipal, [Next]_vars,
           \A w \in Writer : ~ProjectDelivery(w)
    PROVE  ProjectedOfPrincipal'
<1>1. ASSUME projected' = projected, credential'.principal = credential.principal,
             Forgetting => Forgetting'
      PROVE  ProjectedOfPrincipal'
  BY <1>1 DEF ProjectedOfPrincipal
<1>2. ASSUME NEW c \in Caller, RefreshUsage(c) \/ Progress(c) \/ Abandon(c)
      PROVE  ProjectedOfPrincipal'
  <2>1. CASE Project(c)
    BY <2>1, ProjectsTheirs DEF Project, database, ProjectedOfPrincipal, Forgetting
  <2>2. CASE ~ Project(c)
    BY <1>1, <1>2, <2>2
    DEF Progress, RefreshUsage, ResolveCredential, FetchUsage, StoreSnapshot,
        StoreDocument, Fail, Finish, Abandon, database, Forgetting
  <2> QED
    BY <2>1, <2>2
<1>3. ASSUME NEW w \in Writer, Collect(w) \/ Deliver(w) PROVE ProjectedOfPrincipal'
  BY <1>1, <1>3
  DEF Deliver, Collect, ResolveDelivery, StoreDelivery, FailDelivery, database, Forgetting
<1>4. ASSUME NEW m \in Mutator,
             \/ CommitCredential(m) \/ KeepCredential(m) \/ CommitDeletion(m)
             \/ SwitchGeneration(m) \/ DetachRefresh(m)
      PROVE  ProjectedOfPrincipal'
  <2>1. forgets'[m] \in {"committed", "switched", "detached"}
    BY <1>4 DEF CommitCredential, KeepCredential, CommitDeletion, SwitchGeneration,
                DetachRefresh, TypeOK
  <2> QED
    BY <2>1 DEF ProjectedOfPrincipal, Forgetting
<1>5. ASSUME NEW m \in Mutator, ClearProjection(m) PROVE ProjectedOfPrincipal'
  BY <1>5 DEF ClearProjection, ProjectedOfPrincipal
<1>6. CASE Register
  BY <1>6, NoPrincipal DEF Register, Exists, ProjectedOfPrincipal, Forgetting
<1>7. CASE Expire
  BY <1>1, <1>7 DEF Expire, Exists, TypeOK, Credential, Forgetting
<1>8. CASE Renew
  BY <1>1, <1>8 DEF Renew, Exists, TypeOK, Credential, Forgetting
<1>9. CASE Restart
  BY <1>9 DEF Restart, database, StoredOfPrincipal, ProjectedOfPrincipal
<1>10. CASE UNCHANGED vars
  BY <1>1, <1>10 DEF vars, database, Forgetting
<1> QED
  BY <1>2, <1>3, <1>4, <1>5, <1>6, <1>7, <1>8, <1>9, <1>10 DEF Next, Forget

\* A refresh that a rotation, a reauthentication or a deletion overtakes stores
\* nothing (ReplaceUsageSnapshotIfCredentialVersion): whatever a refresh stores is
\* of the principal signed in at that moment, for any writers.
THEOREM RefreshesStoreTheirs ==
    Spec => [][\A c \in Caller : StoreSnapshot(c) => stored' = credential.principal]_vars
  <1>1. ProbeInv /\ [Next]_vars =>
            [\A c \in Caller : StoreSnapshot(c) => stored' = credential.principal]_vars
    BY StoresTheirs
  <1> QED
    BY <1>1, ProbeInvariance, PTL DEF Spec

\* Nor does it project anything once the generation has been switched
\* (call.project): outside of a forgetting, whatever a refresh projects is of the
\* principal signed in, for any writers.
THEOREM RefreshesProjectTheirs ==
    Spec => [][\A c \in Caller :
                   Project(c) /\ ~Forgetting => projected' = credential.principal]_vars
  <1>1. ProbeInv /\ [Next]_vars =>
            [\A c \in Caller :
                 Project(c) /\ ~Forgetting => projected' = credential.principal]_vars
    BY ProjectsTheirs
  <1> QED
    BY <1>1, ProbeInvariance, PTL DEF Spec

\* Only the store of a delivery (ReplaceUsage) can leave a snapshot of somebody
\* else than the principal signed in: no refresh, commit, import or restart does.
THEOREM OnlyDeliveriesStoreOthers ==
    Spec => [][StoredOfPrincipal /\ ~StoredOfPrincipal'
                   => \E w \in Writer : StoreDelivery(w)]_vars
  <1>1. TypeOK /\ ProbeInv /\ [Next]_vars =>
            [StoredOfPrincipal /\ ~StoredOfPrincipal'
                 => \E w \in Writer : StoreDelivery(w)]_vars
    BY SnapshotKept
  <1> QED
    BY <1>1, TypeCorrect, ProbeInvariance, PTL DEF Spec

\* And while the snapshot is of that principal, only the projection of a delivery
\* can leave facts of somebody else in memory.
THEOREM OnlyDeliveriesProjectOthers ==
    Spec => [][StoredOfPrincipal /\ ProjectedOfPrincipal /\ ~ProjectedOfPrincipal'
                   => \E w \in Writer : ProjectDelivery(w)]_vars
  <1>1. TypeOK /\ ProbeInv /\ [Next]_vars =>
            [StoredOfPrincipal /\ ProjectedOfPrincipal /\ ~ProjectedOfPrincipal'
                 => \E w \in Writer : ProjectDelivery(w)]_vars
    BY FactsKept
  <1> QED
    BY <1>1, TypeCorrect, ProbeInvariance, PTL DEF Spec

\* Nothing is stored or projected at first.
LEMMA InitPrincipal == Init => PrincipalInv
  BY InitProbes DEF Init, PrincipalInv, StoredOfPrincipal, ProjectedOfPrincipal

\* Without writers no step stores or projects a reading of somebody else.
LEMMA NextPrincipal ==
    ASSUME Writer = {}
    PROVE  TypeOK /\ FlightInv /\ PrincipalInv /\ [Next]_vars => PrincipalInv'
  BY NextProbes, SnapshotKept, FactsKept DEF PrincipalInv

\* Where nothing is delivered from outside, the stored snapshot is of the
\* principal who is signed in.
THEOREM SnapshotsOfPrincipal ==
    ASSUME Writer = {}
    PROVE  Spec => []StoredOfPrincipal
  <1>1. PrincipalInv => StoredOfPrincipal
    BY DEF PrincipalInv
  <1> QED
    BY <1>1, TypeCorrect, InitFlight, NextFlight, InitPrincipal, NextPrincipal, PTL
    DEF Spec

\* And so are the usage facts in memory, except between a commit and the end of
\* its ForgetAccount.
THEOREM FactsOfPrincipal ==
    ASSUME Writer = {}
    PROVE  Spec => []ProjectedOfPrincipal
  <1>1. PrincipalInv => ProjectedOfPrincipal
    BY DEF PrincipalInv
  <1> QED
    BY <1>1, TypeCorrect, InitFlight, NextFlight, InitPrincipal, NextPrincipal, PTL
    DEF Spec

\* The inductive invariant of this module, as the runs check it.
THEOREM Invariance == ASSUME Writer = {} PROVE Spec => []IndInv
  BY TypeCorrect, InitFlight, NextFlight, InitPrincipal, NextPrincipal, PTL
  DEF Spec, IndInv
-------------------------------------------------------------------------------
(***************************************************************************)
(* Snapshots and accounts, whoever delivers.                               *)
(***************************************************************************)
\* A credential that is changed in place is still one.
LEMMA ExistsKept ==
    ASSUME TypeOK
    PROVE  /\ Exists /\ Expire => Exists'
           /\ Exists /\ Renew => Exists'
           /\ NewVersion # NoVersion
  <1>2. \A k \in Credential : k # NoCredential
    <2>1. NoCredential.version = 0 /\ 0 \notin Version
      BY DEF NoCredential, NoVersion, Version
    <2> QED
      BY <2>1, CredentialTyped
  <1>3. ASSUME Exists, Expire PROVE Exists'
    BY <1>2, <1>3, CredentialTyped DEF Expire, Exists, TypeOK
  <1>4. ASSUME Exists, Renew PROVE Exists'
    BY <1>2, <1>4, CredentialTyped, VersionTyped DEF Renew, Exists, TypeOK
  <1>5. NewVersion # NoVersion
    BY DEF TypeOK, Version, NewVersion, NoVersion
  <1> QED
    BY <1>3, <1>4, <1>5

\* A commit that signs somebody in leaves a credential.
LEMMA SignedInExists == TypeOK => SignedIn # NoCredential
  BY ExistsKept DEF SignedIn, NoCredential

\* Every step that stores a reading finds the account, and every deletion
\* takes the reading with it.
LEMMA NextSnapshot ==
    TypeOK /\ SnapshotHasAccount /\ [Next]_vars => SnapshotHasAccount'
  <1> SUFFICES ASSUME TypeOK, SnapshotHasAccount, [Next]_vars
               PROVE  SnapshotHasAccount'
    OBVIOUS
  <1>1. ASSUME UNCHANGED <<credential, stored>> PROVE SnapshotHasAccount'
    BY <1>1 DEF SnapshotHasAccount, Exists
  <1>2. ASSUME NEW c \in Caller, RefreshUsage(c) \/ Progress(c) \/ Abandon(c)
        PROVE  SnapshotHasAccount'
    <2>1. CASE StoreSnapshot(c)
      BY <2>1 DEF StoreSnapshot, AccountExists, SnapshotHasAccount, Exists
    <2>2. CASE ~ StoreSnapshot(c)
      BY <1>1, <1>2, <2>2
      DEF Progress, RefreshUsage, ResolveCredential, FetchUsage, StoreDocument,
          Project, Fail, Finish, Abandon, database
    <2> QED
      BY <2>1, <2>2
  <1>3. ASSUME NEW w \in Writer, Collect(w) \/ Deliver(w) PROVE SnapshotHasAccount'
    <2>1. CASE StoreDelivery(w)
      BY <2>1 DEF StoreDelivery, AccountExists, SnapshotHasAccount, Exists
    <2>2. CASE ~ StoreDelivery(w)
      BY <1>1, <1>3, <2>2
      DEF Deliver, Collect, ResolveDelivery, ProjectDelivery, FailDelivery, database
    <2> QED
      BY <2>1, <2>2
  <1>4. ASSUME NEW m \in Mutator,
               CommitCredential(m) \/ KeepCredential(m) \/ CommitDeletion(m) \/ Forget(m)
        PROVE  SnapshotHasAccount'
    <2>1. CASE CommitCredential(m) \/ CommitDeletion(m)
      BY <2>1 DEF CommitCredential, CommitDeletion, SnapshotHasAccount
    <2>2. CASE KeepCredential(m) \/ Forget(m)
      BY <1>1, <2>2 DEF KeepCredential, Forget, SwitchGeneration, DetachRefresh,
                        ClearProjection, database
    <2> QED
      BY <1>4, <2>1, <2>2
  <1>5. CASE Register
    BY <1>5, SignedInExists DEF Register, Exists, SnapshotHasAccount
  <1>6. CASE Expire \/ Renew
    BY <1>6, ExistsKept DEF Expire, Renew, SnapshotHasAccount
  <1>7. CASE Restart \/ UNCHANGED vars
    BY <1>1, <1>7 DEF Restart, vars, database
  <1> QED
    BY <1>2, <1>3, <1>4, <1>5, <1>6, <1>7 DEF Next

\* A deletion leaves no snapshot behind, whatever is being refreshed or
\* delivered meanwhile: for any callers, writers and mutators.
THEOREM SnapshotsHaveAccounts == Spec => []SnapshotHasAccount
  <1>1. Init => SnapshotHasAccount
    BY DEF Init, SnapshotHasAccount
  <1> QED
    BY <1>1, TypeCorrect, NextSnapshot, PTL DEF Spec
-------------------------------------------------------------------------------
(***************************************************************************)
(* What callers are answered.                                              *)
(***************************************************************************)
\* What an idle call is, for the steps that end one.
Ended(c) == At(c, "idle") /\ calls[c].ok = FALSE /\ calls[c].asked = NoReading

LEMMA IdleEnded == \A c \in Caller : calls'[c] = IdleCall => Ended(c)'
  BY DEF Ended, At, IdleCall

LEMMA PrincipalTyped ==
    Version \subseteq Nat /\ \A k \in Credential \cup {NoCredential} : k.principal \in Nat
  <1>1. Version \subseteq Nat /\ Reading \subseteq Nat
    BY DEF Version, Reading, NoReading
  <1> QED
    BY <1>1, ReadingTyped

\* The numbers that answers are compared by.
LEMMA AnswerTypes ==
    ASSUME TypeOK
    PROVE  /\ versions \in Nat /\ generation \in Nat
           /\ credential.principal \in Nat
           /\ Exists => credential \in Credential
           /\ \A c \in Caller : /\ calls[c].asked \in Nat
                                /\ calls[c].number \in Nat
                                /\ calls[c].ok \in BOOLEAN
                                /\ calls[c].probe.principal \in Nat
  <1>1. Version \subseteq Nat /\ Reading \subseteq Nat
    BY DEF Version, Reading, NoReading
  <1>3. \A k \in Call : k.asked \in Nat /\ k.ok \in BOOLEAN
    BY <1>1 DEF Call
  <1> QED
    BY <1>1, <1>3, PrincipalTyped, CallTyped DEF TypeOK, Exists

\* A step of the parties: the credential and the generation stay, some calls
\* end together with all that wait for them, and no other call gets a reading.
LEMMA CallsMove ==
    ASSUME TypeOK, AnswerInv, UNCHANGED <<credential, versions, generation>>,
           NothingCommitted' => NothingCommitted,
           \A d \in Caller :
               \/ Ended(d)'
               \/ /\ Leads(d)' <=> Leads(d)
                  /\ At(d, "waiting")' <=> At(d, "waiting")
                  /\ At(d, "idle")' <=> At(d, "idle")
                  /\ calls'[d].leader = calls[d].leader
                  /\ calls'[d].asked = calls[d].asked
                  /\ calls'[d].number = calls[d].number
                  /\ calls'[d].ok => At(d, "finish")'
                  /\ HasAnswer(d)' => HasAnswer(d) /\ calls'[d].probe = calls[d].probe,
           \A d \in Caller : At(d, "waiting")' => ~ Ended(calls[d].leader)'
    PROVE  AnswerInv'
  <1>1. \A d \in Caller : Ended(d)' => ~ HasAnswer(d)' /\ ~ Leads(d)' /\ ~ At(d, "waiting")'
    BY DEF Ended, HasAnswer, HasProbe, Leads, LeaderSteps, At
  <1>2. \A d \in Caller :
          /\ Leads(d)' => calls'[d].leader = d
          /\ calls'[d].ok => At(d, "finish")'
          /\ calls'[d].asked <= versions'
          /\ Exists' => calls'[d].asked <= credential'.principal
    BY <1>1, AnswerTypes DEF AnswerInv, Ended, Exists, NoReading
  <1>3. \A d \in Caller : At(d, "waiting")' => calls'[d].leader \in Caller /\ Leads(calls[d].leader)'
    BY <1>1 DEF AnswerInv
  <1>4. ASSUME NEW c \in Caller, HasAnswer(c)'
        PROVE  /\ calls'[c].probe \in Credential
               /\ OfCurrentGeneration(c)' /\ NothingCommitted'
                    => calls'[c].probe.principal = credential'.principal
               /\ \A d \in Caller : ~At(d, "idle")' /\ calls'[d].leader = c
                    => calls'[c].probe.principal >= calls'[d].asked
    BY <1>1, <1>4 DEF AnswerInv, Ended, OfCurrentGeneration, NothingCommitted
  <1> QED
    BY <1>2, <1>3, <1>4 DEF AnswerInv, NothingCommitted

\* A leader's context is cancelled, and nothing else happens to it.
LEMMA RecordStays ==
    ASSUME TypeOK, AnswerInv, UNCHANGED <<credential, versions, generation>>,
           NothingCommitted' => NothingCommitted,
           NEW c \in Caller, Leads(c), NEW x,
           calls' = [calls EXCEPT ![c].cancelled = x]
    PROVE  AnswerInv'
  <1>1. \A d \in Caller : /\ calls'[d].step = calls[d].step
                          /\ calls'[d].leader = calls[d].leader
                          /\ calls'[d].asked = calls[d].asked
                          /\ calls'[d].number = calls[d].number
                          /\ calls'[d].probe = calls[d].probe
                          /\ calls'[d].ok = calls[d].ok
    BY DEF TypeOK, Call
  <1>2. \A d \in Caller : /\ (Leads(d)' <=> Leads(d)) /\ (HasAnswer(d)' => HasAnswer(d))
                          /\ (At(d, "waiting")' <=> At(d, "waiting"))
                          /\ (At(d, "idle")' <=> At(d, "idle"))
                          /\ calls'[d].ok => At(d, "finish")'
    BY <1>1, AnswerTypes DEF AnswerInv, Leads, HasAnswer, HasProbe, At
  <1>3. \A d \in Caller : At(d, "waiting")' => ~ Ended(calls[d].leader)'
    BY <1>1, <1>2 DEF AnswerInv, Ended, At, Leads, LeaderSteps
  <1> QED
    BY <1>1, <1>2, <1>3, CallsMove

\* A step of the credential or of the generation: principals only grow, and
\* whoever has a reading of another is no longer current.
LEMMA CredentialMoves ==
    ASSUME TypeOK, TypeOK', AnswerInv, UNCHANGED calls,
           versions <= versions', credential'.principal <= versions',
           Exists' => \/ credential'.principal >= versions
                      \/ Exists /\ credential'.principal = credential.principal,
           \A c \in Caller :
               HasAnswer(c) /\ OfCurrentGeneration(c)' /\ NothingCommitted'
                 => calls[c].probe.principal = credential'.principal
    PROVE  AnswerInv'
  <1>1. \A c \in Caller : /\ calls'[c].asked <= versions'
                          /\ Exists' => calls'[c].asked <= credential'.principal
    <2>1. credential'.principal \in Nat /\ versions' \in Nat
      <3>1. credential' \in Credential \cup {NoCredential} /\ versions' \in Version
        BY DEF TypeOK
      <3> QED
        BY <3>1, PrincipalTyped
    <2> QED
      BY <2>1, AnswerTypes DEF AnswerInv
  <1> QED
    BY <1>1 DEF AnswerInv, HasAnswer, HasProbe, Leads, At, NothingCommitted

\* A caller joins while nothing is being forgotten: the leader is current.
LEMMA NextRefresh ==
    ASSUME TypeOK, FlightInv, AnswerInv, NEW c \in Caller, RefreshUsage(c)
    PROVE  AnswerInv'
  <1>0. /\ At(c, "idle") /\ ~ Leads(c) /\ ~ HasAnswer(c)
        /\ UNCHANGED <<credential, versions, generation, forgets>>
    BY DEF RefreshUsage, At, Leads, LeaderSteps, HasAnswer, HasProbe, database
  <1>1. \A d \in Caller \ {c} : calls'[d] = calls[d]
    BY DEF RefreshUsage, TypeOK
  <1>2. /\ Asked \in Nat /\ Asked <= versions
        /\ Asked <= credential.principal
    BY AnswerTypes DEF AnswerInv, Asked, NoReading
  <1>3. \A d \in Caller : ~At(d, "idle") => calls[d].leader # c
    BY <1>0 DEF AnswerInv, At, Leads, LeaderSteps, TypeOK, Call
  <1>4. CASE active = NoOne
    <2>1. /\ calls'[c].step = "resolve" /\ calls'[c].leader = c
          /\ calls'[c].asked = Asked /\ calls'[c].ok = FALSE
      BY <1>4 DEF RefreshUsage, IdleCall, TypeOK
    <2>2. ~ HasAnswer(c)' /\ Leads(c)' /\ ~ At(c, "waiting")'
      BY <2>1 DEF HasAnswer, HasProbe, At, Leads, LeaderSteps
    <2> QED
      BY <1>0, <1>1, <1>2, <1>3, <2>1, <2>2
      DEF AnswerInv, HasAnswer, HasProbe, At, Leads, Exists, OfCurrentGeneration
  <1>5. CASE active # NoOne
    <2>1. /\ calls'[c].step = "waiting" /\ calls'[c].leader = active
          /\ calls'[c].asked = Asked /\ calls'[c].ok = FALSE
      BY <1>5 DEF RefreshUsage, IdleCall, TypeOK
    <2>2. active \in Caller /\ Leads(active) /\ active # c
      BY <1>0, <1>5 DEF FlightInv, TypeOK
    <2>3. ~ HasAnswer(c)' /\ ~ Leads(c)' /\ At(c, "waiting")'
      BY <2>1 DEF HasAnswer, HasProbe, At, Leads, LeaderSteps
    <2>4. HasAnswer(active) => calls[active].probe.principal >= Asked
      <3>1. CASE Forgetting
        BY <3>1, <2>2, AnswerTypes DEF Asked, NoReading
      <3>2. CASE ~ Forgetting
        <4>1. Settled = generation /\ NothingCommitted
          BY <3>2 DEF Forgetting, Settled, NothingCommitted
        <4>2. calls[active].number >= Settled /\ calls[active].number <= generation
          BY <1>5, <2>2 DEF FlightInv
        <4>3. OfCurrentGeneration(active)
          BY <2>2, <4>1, <4>2, AnswerTypes DEF OfCurrentGeneration
        <4> QED
          BY <1>2, <2>2, <3>2, <4>1, <4>3, AnswerTypes DEF AnswerInv, NothingCommitted
      <3> QED
        BY <3>1, <3>2
    <2> QED
      BY <1>0, <1>1, <1>2, <1>3, <2>1, <2>2, <2>3, <2>4
      DEF AnswerInv, HasAnswer, HasProbe, At, Leads, Exists, OfCurrentGeneration
  <1> QED
    BY <1>4, <1>5

\* A leader gets its reading: of whom all that wait for it may have seen.
LEMMA NextResolve ==
    ASSUME TypeOK, AnswerInv, NEW c \in Caller, ResolveCredential(c)
    PROVE  AnswerInv'
  <1>1. /\ Exists /\ credential \in Credential
        /\ calls' = [calls EXCEPT ![c].step = "fetch", ![c].probe = credential]
        /\ UNCHANGED <<credential, versions, generation, forgets>>
        /\ At(c, "resolve")
    BY DEF ResolveCredential, Exists, database, TypeOK
  <1>2. /\ calls'[c].step = "fetch" /\ calls'[c].probe = credential
        /\ calls'[c].leader = calls[c].leader /\ calls'[c].asked = calls[c].asked
        /\ calls'[c].ok = calls[c].ok /\ calls[c].ok = FALSE
        /\ \A d \in Caller \ {c} : calls'[d] = calls[d]
    <2>1. calls[c].ok = FALSE
      BY <1>1, AnswerTypes DEF AnswerInv, At
    <2> QED
      BY <1>1, <2>1 DEF TypeOK, Call
  <1>3. Leads(c) /\ Leads(c)' /\ ~ At(c, "waiting")' /\ ~ At(c, "idle")
    BY <1>1, <1>2 DEF Leads, LeaderSteps, At
  <1>4. \A d \in Caller : (Leads(d)' <=> Leads(d)) /\ (At(d, "idle")' <=> At(d, "idle"))
                          /\ calls'[d].leader = calls[d].leader
                          /\ calls'[d].asked = calls[d].asked
    BY <1>2, <1>3 DEF Leads, At, LeaderSteps
  <1>5. \A d \in Caller : Exists /\ calls[d].asked <= credential.principal
    BY <1>1 DEF AnswerInv
  <1>6. \A d \in Caller \ {c} :
            HasAnswer(d)' => HasAnswer(d) /\ (OfCurrentGeneration(d)' <=> OfCurrentGeneration(d))
    BY <1>1, <1>2 DEF HasAnswer, HasProbe, At, OfCurrentGeneration
  <1>7. ASSUME NEW d \in Caller
        PROVE  /\ Leads(d)' => calls'[d].leader = d
               /\ At(d, "waiting")' => calls'[d].leader \in Caller /\ Leads(calls[d].leader)'
               /\ calls'[d].ok => At(d, "finish")'
               /\ calls'[d].asked <= versions'
               /\ Exists' => calls'[d].asked <= credential'.principal
    <2>1. At(d, "waiting")' => At(d, "waiting")
      BY <1>2, <1>3 DEF At
    <2>2. At(d, "waiting")' => (calls[d].leader \in Caller /\ Leads(calls[d].leader))'
      BY <1>4, <2>1 DEF AnswerInv, Leads
    <2>3. calls'[d].ok => At(d, "finish")'
      <3>1. CASE d = c
        BY <1>2, <3>1
      <3>2. CASE d # c
        BY <1>2, <3>2 DEF AnswerInv, At
      <3> QED
        BY <3>1, <3>2
    <2>4. Leads(d)' => calls'[d].leader = d
      BY <1>4 DEF AnswerInv
    <2>5. calls'[d].asked <= versions' /\ calls'[d].asked <= credential'.principal
      <3>1. calls'[d].asked = calls[d].asked
        BY <1>4
      <3>2. calls[d].asked <= versions
        BY DEF AnswerInv
      <3> QED
        BY <1>1, <1>5, <3>1, <3>2
    <2> QED
      BY <2>2, <2>3, <2>4, <2>5
  <1>8. ASSUME NEW d \in Caller, HasAnswer(d)'
        PROVE  /\ calls'[d].probe \in Credential
               /\ OfCurrentGeneration(d)' /\ (\A m \in Mutator : forgets'[m] # "committed")
                     => calls'[d].probe.principal = credential'.principal
               /\ \A e \in Caller : ~At(e, "idle")' /\ calls'[e].leader = d
                     => calls'[d].probe.principal >= calls'[e].asked
    <2>1. CASE d = c
      BY <1>1, <1>2, <1>4, <1>5, <2>1, AnswerTypes
    <2>2. CASE d # c
      <3>1. HasAnswer(d) /\ (OfCurrentGeneration(d)' <=> OfCurrentGeneration(d))
        BY <1>6, <1>8, <2>2
      <3>2. calls'[d].probe = calls[d].probe
        BY <1>2, <2>2
      <3>3. /\ calls[d].probe \in Credential
            /\ OfCurrentGeneration(d) /\ (\A m \in Mutator : forgets[m] # "committed")
                  => calls[d].probe.principal = credential.principal
            /\ \A e \in Caller : ~At(e, "idle") /\ calls[e].leader = d
                  => calls[d].probe.principal >= calls[e].asked
        BY <3>1 DEF AnswerInv
      <3>4. \A e \in Caller : ~At(e, "idle")' /\ calls'[e].leader = d
                  => calls'[d].probe.principal >= calls'[e].asked
        <4> SUFFICES ASSUME NEW e \in Caller, ~At(e, "idle")', calls'[e].leader = d
                     PROVE  calls'[d].probe.principal >= calls'[e].asked
          OBVIOUS
        <4>1. ~At(e, "idle") /\ calls[e].leader = d /\ calls'[e].asked = calls[e].asked
          BY <1>4
        <4> QED
          BY <3>2, <3>3, <4>1
      <3> QED
        BY <1>1, <3>1, <3>2, <3>3, <3>4
    <2> QED
      BY <2>1, <2>2
  <1> QED
    BY <1>1, <1>7, <1>8 DEF AnswerInv

\* Nobody is answered with a reading that is older than what he has seen.
LEMMA NextAnswer == TypeOK /\ FlightInv /\ AnswerInv /\ [Next]_vars => AnswerInv'
  <1> SUFFICES ASSUME TypeOK, FlightInv, AnswerInv, [Next]_vars PROVE AnswerInv'
    OBVIOUS
  <1>0. TypeOK'
    BY NextTyped
  <1>a. \A d \in Caller : /\ calls[d] \in Call
                          /\ calls[d].ok => At(d, "finish")
                          /\ At(d, "waiting") => /\ calls[d].leader \in Caller
                                                 /\ Leads(calls[d].leader)
    BY DEF AnswerInv, TypeOK
  <1>b. \A d \in Caller : Leads(d) => ~ At(d, "idle") /\ ~ At(d, "waiting")
    BY DEF Leads, At, LeaderSteps
  <1>c. \A d \in Caller : Leads(d)' => ~ At(d, "idle")' /\ ~ At(d, "waiting")'
    BY DEF Leads, At, LeaderSteps
  <1>1. ASSUME UNCHANGED <<credential, versions, generation, calls>>,
               NothingCommitted' => NothingCommitted
        PROVE  AnswerInv'
    <2>1. \A d \in Caller : At(d, "waiting")' => ~ Ended(calls[d].leader)'
      BY <1>1, <1>a, <1>b DEF Ended, At
    <2> QED
      BY <1>1, <1>a, <2>1, CallsMove DEF Leads, At, HasAnswer, HasProbe
  \* A leader goes from one step to the next.
  <1>2. ASSUME NEW c \in Caller, NEW step \in LeaderSteps, Leads(c),
               HasProbe(c) \/ step = "finish",
               UNCHANGED <<credential, versions, generation, forgets>>,
               \/ calls' = [calls EXCEPT ![c].step = step]
               \/ /\ step = "finish" /\ HasProbe(c)
                  /\ calls' = [calls EXCEPT ![c].step = step, ![c].ok = TRUE],
               At(c, "finish") => step = "finish"
        PROVE  AnswerInv'
    <2>1. /\ calls'[c].step = step
          /\ calls'[c].leader = calls[c].leader /\ calls'[c].asked = calls[c].asked
          /\ calls'[c].number = calls[c].number /\ calls'[c].probe = calls[c].probe
          /\ \A d \in Caller \ {c} : calls'[d] = calls[d]
      BY <1>2 DEF TypeOK, Call
    <2>2. calls'[c].ok => step = "finish" /\ (calls[c].ok \/ HasProbe(c))
      <3>1. CASE calls' = [calls EXCEPT ![c].step = step]
        <4>1. calls'[c].ok = calls[c].ok
          BY <3>1, <1>a DEF TypeOK
        <4> QED
          BY <1>2, <1>a, <4>1
      <3>2. CASE step = "finish" /\ HasProbe(c)
        BY <3>2
      <3> QED
        BY <1>2, <3>1, <3>2
    <2>3. Leads(c)' /\ ~ At(c, "waiting")' /\ ~ At(c, "idle")'
      BY <1>2, <2>1 DEF Leads, At, LeaderSteps
    <2>4. HasAnswer(c)' => HasAnswer(c)
      BY <1>2, <1>a, <2>1, <2>2 DEF HasAnswer, HasProbe, At
    <2>5. calls'[c].ok => At(c, "finish")'
      BY <2>1, <2>2 DEF At
    <2>6. \A d \in Caller : At(d, "waiting")' => ~ Ended(calls[d].leader)'
      <3> SUFFICES ASSUME NEW d \in Caller, At(d, "waiting")'
                   PROVE  ~ Ended(calls[d].leader)'
        OBVIOUS
      <3>1. d # c /\ At(d, "waiting") /\ calls'[d].leader = calls[d].leader
        BY <2>1, <2>3 DEF At
      <3>2. calls[d].leader \in Caller /\ Leads(calls[d].leader)
        BY <1>a, <3>1
      <3>3. Leads(calls[d].leader)'
        BY <2>1, <2>3, <3>1, <3>2 DEF Leads
      <3> QED
        BY <3>1, <3>2, <3>3 DEF Ended, At, Leads, LeaderSteps
    <2>7. ASSUME NEW d \in Caller
          PROVE  /\ Leads(d)' <=> Leads(d)
                 /\ At(d, "waiting")' <=> At(d, "waiting")
                 /\ At(d, "idle")' <=> At(d, "idle")
                 /\ calls'[d].leader = calls[d].leader
                 /\ calls'[d].asked = calls[d].asked
                 /\ calls'[d].number = calls[d].number
                 /\ calls'[d].ok => At(d, "finish")'
                 /\ HasAnswer(d)' => HasAnswer(d) /\ calls'[d].probe = calls[d].probe
      <3>1. CASE d = c
        BY <1>2, <1>b, <2>1, <2>3, <2>4, <2>5, <3>1
      <3>2. CASE d # c
        BY <1>a, <2>1, <3>2 DEF Leads, At, HasAnswer, HasProbe
      <3> QED
        BY <3>1, <3>2
    <2> QED
      BY <1>2, <2>6, <2>7, CallsMove DEF NothingCommitted
  <1>3. ASSUME NEW c \in Caller, RefreshUsage(c) PROVE AnswerInv'
    BY <1>3, NextRefresh
  <1>4. ASSUME NEW c \in Caller, ResolveCredential(c) PROVE AnswerInv'
    BY <1>4, NextResolve
  <1>5. ASSUME NEW c \in Caller,
               FetchUsage(c) \/ StoreSnapshot(c) \/ StoreDocument(c) \/ Project(c) \/ Fail(c)
        PROVE  AnswerInv'
    <2>1. CASE FetchUsage(c)
      BY <1>2, <2>1 DEF FetchUsage, Advance, At, Leads, HasProbe, LeaderSteps, database
    <2>2. CASE StoreSnapshot(c)
      BY <1>2, <2>2 DEF StoreSnapshot, Advance, At, Leads, HasProbe, LeaderSteps
    <2>3. CASE StoreDocument(c)
      BY <1>2, <2>3 DEF StoreDocument, Advance, At, Leads, HasProbe, LeaderSteps, database
    <2>4. CASE Project(c)
      BY <1>2, <2>4 DEF Project, At, Leads, HasProbe, LeaderSteps, database
    <2>5. CASE Fail(c)
      BY <1>2, <2>5 DEF Fail, Advance, At, Leads, HasProbe, LeaderSteps, database
    <2> QED
      BY <1>5, <2>1, <2>2, <2>3, <2>4, <2>5
  <1>6. ASSUME NEW c \in Caller, Finish(c) PROVE AnswerInv'
    <2>1. /\ UNCHANGED <<credential, versions, generation, forgets>>
          /\ \A d \in Caller : IF d = c \/ WaitsFor(d, c)
                               THEN calls'[d] = IdleCall ELSE calls'[d] = calls[d]
          /\ Leads(c)
      BY <1>6 DEF Finish, database, At, Leads, LeaderSteps
    <2>2. \A d \in Caller : At(d, "waiting")' => ~ Ended(calls[d].leader)'
      <3> SUFFICES ASSUME NEW d \in Caller, At(d, "waiting")'
                   PROVE  ~ Ended(calls[d].leader)'
        OBVIOUS
      <3>1. d # c /\ ~ WaitsFor(d, c) /\ calls'[d] = calls[d] /\ At(d, "waiting")
        BY <2>1 DEF At, IdleCall
      <3>2. calls[d].leader \in Caller /\ Leads(calls[d].leader) /\ calls[d].leader # c
        BY <1>a, <3>1 DEF WaitsFor
      <3>3. calls'[calls[d].leader] = calls[calls[d].leader]
        BY <1>b, <2>1, <3>2 DEF WaitsFor
      <3> QED
        BY <3>1, <3>2, <3>3 DEF Ended, At, Leads, LeaderSteps
    <2>3. \A d \in Caller : Ended(d)' \/ calls'[d] = calls[d]
      BY <2>1, IdleEnded
    <2> QED
      BY <1>a, <2>1, <2>2, <2>3, CallsMove
      DEF NothingCommitted, Leads, At, HasAnswer, HasProbe
  <1>7. ASSUME NEW c \in Caller, Abandon(c) PROVE AnswerInv'
    <2>0. UNCHANGED <<credential, versions, generation, forgets>>
      BY <1>7 DEF Abandon, database
    <2>1. CASE At(c, "waiting") /\ calls' = [calls EXCEPT ![c] = IdleCall]
      <3>1. calls'[c] = IdleCall /\ \A d \in Caller \ {c} : calls'[d] = calls[d]
        BY <2>1 DEF TypeOK
      <3>2. \A d \in Caller : At(d, "waiting")' => ~ Ended(calls[d].leader)'
        <4> SUFFICES ASSUME NEW d \in Caller, At(d, "waiting")'
                     PROVE  ~ Ended(calls[d].leader)'
          OBVIOUS
        <4>1. d # c /\ calls'[d] = calls[d] /\ At(d, "waiting")
          BY <3>1 DEF At, IdleCall
        <4>2. calls[d].leader \in Caller /\ Leads(calls[d].leader)
          BY <1>a, <4>1
        <4>3. calls[d].leader # c
          BY <1>b, <2>1, <4>2
        <4>4. calls'[calls[d].leader] = calls[calls[d].leader]
          BY <3>1, <4>2, <4>3
        <4> QED
          BY <4>1, <4>2, <4>4 DEF Ended, At, Leads, LeaderSteps
      <3>3. \A d \in Caller : Ended(d)' \/ calls'[d] = calls[d]
        BY <3>1, IdleEnded
      <3> QED
        BY <1>a, <2>0, <3>2, <3>3, CallsMove
        DEF NothingCommitted, Leads, At, HasAnswer, HasProbe
    <2>2. CASE Leads(c) /\ calls' = [calls EXCEPT ![c].cancelled = "abandoned"]
      BY <1>0, <1>a, <1>b, <2>0, <2>2, RecordStays DEF NothingCommitted
    <2> QED
      BY <1>7, <2>1, <2>2 DEF Abandon
  <1>8. ASSUME NEW w \in Writer, Collect(w) \/ Deliver(w) PROVE AnswerInv'
    <2>1. UNCHANGED <<credential, versions, generation, calls, forgets>>
      BY <1>8 DEF Collect, Deliver, ResolveDelivery, StoreDelivery, ProjectDelivery,
                  FailDelivery, database
    <2> QED
      BY <1>1, <2>1 DEF NothingCommitted
  <1>9. ASSUME NEW m \in Mutator, CommitCredential(m) \/ CommitDeletion(m) PROVE AnswerInv'
    <2>1. forgets'[m] = "committed" /\ UNCHANGED calls
      BY <1>9 DEF CommitCredential, CommitDeletion, TypeOK
    <2>2. CASE CommitCredential(m)
      <3>1. credential'.principal = versions + 1 /\ versions' = versions + 1
        BY <2>2 DEF CommitCredential, SignedIn, NewVersion
      <3> QED
        BY <1>0, <2>1, <3>1, CredentialMoves, AnswerTypes DEF NothingCommitted
    <2>3. CASE CommitDeletion(m)
      <3>1. credential'.principal = 0 /\ ~ Exists' /\ versions' = versions
        BY <2>3 DEF CommitDeletion, Exists, NoCredential, NoReading
      <3> QED
        BY <1>0, <2>1, <3>1, CredentialMoves, AnswerTypes DEF NothingCommitted
    <2> QED
      BY <1>9, <2>2, <2>3
  <1>10. ASSUME NEW m \in Mutator, KeepCredential(m) PROVE AnswerInv'
    <2>1. forgets'[m] = "committed" /\ UNCHANGED <<credential, versions, generation, calls>>
      BY <1>10 DEF KeepCredential, database, TypeOK
    <2> QED
      BY <1>1, <2>1 DEF NothingCommitted
  <1>11. ASSUME NEW m \in Mutator, SwitchGeneration(m) PROVE AnswerInv'
    <2>1. generation' = generation + 1 /\ UNCHANGED <<credential, versions, calls>>
      BY <1>11 DEF SwitchGeneration, database
    <2>2. \A c \in Caller : HasAnswer(c) => calls[c].number <= generation
      BY DEF FlightInv, HasAnswer, HasProbe, At, Leads, LeaderSteps
    <2>3. \A c \in Caller : HasAnswer(c) => ~ OfCurrentGeneration(c)'
      BY <2>1, <2>2, AnswerTypes DEF OfCurrentGeneration
    <2>4. versions <= versions' /\ credential'.principal <= versions'
      BY <2>1, AnswerTypes DEF AnswerInv
    <2> QED
      BY <1>0, <2>1, <2>3, <2>4, CredentialMoves DEF Exists
  <1>12. ASSUME NEW m \in Mutator, DetachRefresh(m) PROVE AnswerInv'
    <2>0. /\ UNCHANGED <<credential, versions, generation>>
          /\ NothingCommitted' => NothingCommitted
      BY <1>12 DEF DetachRefresh, database, NothingCommitted, TypeOK
    <2>1. CASE active # NoOne /\ Outdated(active)
      <3>1. /\ calls' = [calls EXCEPT ![active].cancelled = "detached"]
            /\ active \in Caller /\ Leads(active)
        BY <1>12, <2>1 DEF DetachRefresh, FlightInv, TypeOK
      <3> QED
        BY <1>0, <1>a, <1>b, <2>0, <3>1, RecordStays
    <2>2. CASE ~ (active # NoOne /\ Outdated(active))
      BY <1>1, <1>12, <2>0, <2>2 DEF DetachRefresh
    <2> QED
      BY <2>1, <2>2
  <1>13. ASSUME NEW m \in Mutator, ClearProjection(m) PROVE AnswerInv'
    <2>1. /\ UNCHANGED <<credential, versions, generation, calls>>
          /\ NothingCommitted' => NothingCommitted
      BY <1>13 DEF ClearProjection, database, NothingCommitted, TypeOK
    <2> QED
      BY <1>1, <2>1
  <1>14. CASE Register
    <2>1. /\ credential'.principal = versions + 1 /\ versions' = versions + 1
          /\ credential.principal = 0
          /\ UNCHANGED <<calls, generation, forgets>>
      BY <1>14 DEF Register, Exists, SignedIn, NewVersion, NoCredential, NoReading
    <2>2. \A c \in Caller : HasAnswer(c) /\ OfCurrentGeneration(c) /\ NothingCommitted => FALSE
      <3>1. \A k \in Credential : k.principal # 0
        <4>1. 0 \notin Version
          BY DEF Version
        <4> QED
          BY <4>1, CredentialTyped
      <3> QED
        BY <2>1, <3>1 DEF AnswerInv, NothingCommitted
    <2>3. \A c \in Caller : HasAnswer(c) /\ OfCurrentGeneration(c)' /\ NothingCommitted' => FALSE
      BY <2>1, <2>2 DEF OfCurrentGeneration, NothingCommitted
    <2> QED
      BY <1>0, <2>1, <2>3, CredentialMoves, AnswerTypes
  <1>15. CASE Expire \/ Renew
    <2>1. /\ credential'.principal = credential.principal /\ Exists
          /\ versions <= versions'
          /\ UNCHANGED <<calls, generation, forgets>>
      <3>1. CASE Expire
        <4>1. credential \in Credential /\ Exists
          BY <3>1, AnswerTypes DEF Expire
        <4>2. credential'.principal = credential.principal
          BY <3>1, <4>1 DEF Expire, Credential
        <4> QED
          BY <3>1, <4>1, <4>2, AnswerTypes DEF Expire
      <3>2. CASE Renew
        <4>1. credential \in Credential /\ Exists
          BY <3>2, AnswerTypes DEF Renew
        <4>2. credential'.principal = credential.principal
          BY <3>2, <4>1 DEF Renew, Credential
        <4> QED
          BY <3>2, <4>1, <4>2, AnswerTypes DEF Renew, NewVersion
      <3> QED
        BY <1>15, <3>1, <3>2
    <2>2. \A c \in Caller :
            HasAnswer(c) /\ OfCurrentGeneration(c)' /\ NothingCommitted'
              => calls[c].probe.principal = credential'.principal
      BY <2>1 DEF AnswerInv, OfCurrentGeneration, NothingCommitted
    <2>3. versions' \in Nat /\ credential'.principal <= versions'
      BY <1>0, <2>1, AnswerTypes, PrincipalTyped DEF AnswerInv, TypeOK
    <2> QED
      BY <1>0, <2>1, <2>2, <2>3, CredentialMoves
  <1>16. CASE Restart
    <2>1. \A d \in Caller : Ended(d)'
      BY <1>16, IdleEnded DEF Restart
    <2>2. \A d \in Caller : ~ HasAnswer(d)' /\ ~ Leads(d)' /\ ~ At(d, "waiting")'
      BY <2>1 DEF Ended, HasAnswer, HasProbe, Leads, LeaderSteps, At
    <2>3. UNCHANGED <<credential, versions>>
      BY <1>16 DEF Restart, database
    <2> QED
      BY <2>1, <2>2, <2>3, AnswerTypes DEF AnswerInv, Ended, NoReading
  <1>17. CASE UNCHANGED vars
    BY <1>1, <1>17 DEF vars, database, NothingCommitted
  <1> QED
    BY <1>3, <1>4, <1>5, <1>6, <1>7, <1>8, <1>9, <1>10, <1>11, <1>12, <1>13, <1>14,
       <1>15, <1>16, <1>17
    DEF Next, Progress, Forget

\* What callers are told, and by whom.
LEMMA AnswerInvariance == Spec => [](FlightInv /\ AnswerInv)
  <1>1. Init => AnswerInv
    <2>1. Init => \A c \in Caller : Ended(c)
      <3>1. \A c \in Caller : calls[c] = IdleCall => Ended(c)
        BY DEF Ended, At, IdleCall
      <3> QED
        BY <3>1 DEF Init
    <2> QED
      BY <2>1 DEF Init, AnswerInv, Ended, HasAnswer, HasProbe, Leads, LeaderSteps, At, NoReading
  <1> QED
    BY <1>1, TypeCorrect, InitFlight, NextFlight, NextAnswer, PTL DEF Spec

\* A caller that asked when nothing was being forgotten is never answered with
\* a reading of the principal before, whichever leader it waited for: for any
\* callers, writers and mutators.
THEOREM AnswersOfPrincipal == Spec => []AnswerOfPrincipal
  <1>1. AnswerInv => AnswerOfPrincipal
    <2> SUFFICES ASSUME AnswerInv, NEW c \in Caller,
                        calls[c].step \in {"waiting", "finish"},
                        calls[calls[c].leader].ok
                 PROVE  calls[calls[c].leader].probe.principal >= calls[c].asked
      BY DEF AnswerOfPrincipal
    <2>1. calls[c].leader \in Caller /\ Leads(calls[c].leader) /\ ~ At(c, "idle")
      BY DEF AnswerInv, At, Leads, LeaderSteps
    <2>2. HasAnswer(calls[c].leader)
      BY <2>1 DEF AnswerInv, HasAnswer
    <2> QED
      BY <2>1, <2>2 DEF AnswerInv
  <1> QED
    BY <1>1, AnswerInvariance, PTL

\* However leaders finish, fail, are abandoned or detached, nobody is left waiting
\* for who has gone (refreshFlightGroup.Do and Detach): why calls can return.
THEOREM NobodyWaitsForTheGone == Spec => []WaitersLed
  <1>1. FlightInv /\ AnswerInv => WaitersLed
    BY DEF FlightInv, AnswerInv, WaitersLed
  <1> QED
    BY <1>1, AnswerInvariance, PTL
===============================================================================
