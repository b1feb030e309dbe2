----------------------------- MODULE UsageService -----------------------------
(***************************************************************************)
(* The quota readings of one account: application/accountusage/service.go. *)
(*                                                                         *)
(* A refresh reads the credential, asks the provider, stores the reading   *)
(* if the credential is still the one it read, and projects it into the    *)
(* routing memory. Refreshes of one account share a flight. A rotation,    *)
(* a reauthentication or a deletion commits first and forgets afterwards:  *)
(* it switches the generation, detaches the flight of the older generation *)
(* and clears the projection. Collectors deliver readings of their own,    *)
(* outside the flight. Every step below is one critical section or one     *)
(* transaction of the code; the parties interleave between them.           *)
(*                                                                         *)
(* A reading is told apart only by its principal: the login or key that    *)
(* the credential it was taken with belongs to.                            *)
(***************************************************************************)
EXTENDS Integers

CONSTANTS
    Caller,       \* goroutines that refresh: API handlers, usage workers
    Writer,       \* goroutines that deliver readings taken elsewhere
    Mutator,      \* goroutines that rotate, reauthenticate or delete
    Refreshable,  \* the resolver has a refresh strategy for the provider
    MaxVersion,   \* bound of the model: versions of the credential
    MaxKept       \* bound of the model: the generation up to which a
                  \* reauthentication may bring the same credential

NoOne == "no one"
NoReading == 0
NoVersion == 0

ASSUME PartyAssumption == NoOne \notin Caller
ASSUME RefreshableAssumption == Refreshable \in BOOLEAN
ASSUME BoundAssumption == MaxVersion \in Nat \ {0} /\ MaxKept \in Nat

\* A credential of principal p has a version no less than p: a principal is
\* named after the version it signed in with.
Version == 1 .. MaxVersion
Credential == [version : Version, principal : Version, expired : BOOLEAN]
NoCredential == [version |-> NoVersion, principal |-> NoReading, expired |-> FALSE]
Reading == Version \cup {NoReading}

VARIABLES
    credential,   \* database: the credential; the account exists if it does
    versions,     \* database: versions handed out (updated_at grows)
    stored,       \* database: principal of the stored snapshot
    projected,    \* memory: principal of the usage facts in the runtime
    active,       \* memory: who leads the flight
    generation,   \* memory: generation.number
    calls,        \* what each caller is in the middle of
    deliveries,   \* what each writer is in the middle of
    forgets       \* how far each mutator is

database == <<credential, versions, stored>>
vars == <<database, projected, active, generation, calls, deliveries, forgets>>

(***************************************************************************)
(* Steps of the parties.                                                   *)
(***************************************************************************)
LeaderSteps == {"resolve", "fetch", "store", "document", "project", "finish"}

\* probe: what ResolveCredential returned. cancelled: the leader's context is
\* done, because its caller left (Abandon) or a mutator detached it.
\* asked: for the properties only, the principal the caller saw signed in.
Call == [step : {"idle", "waiting"} \cup LeaderSteps,
         leader : Caller \cup {NoOne},
         number : Nat,
         probe : Credential \cup {NoCredential},
         cancelled : {"no", "abandoned", "detached"},
         ok : BOOLEAN,
         asked : Reading]

IdleCall == [step |-> "idle", leader |-> NoOne, number |-> 0,
             probe |-> NoCredential, cancelled |-> "no", ok |-> FALSE,
             asked |-> NoReading]

Delivery == [step : {"idle", "resolve", "store", "project"},
             reading : Reading,
             version : Version \cup {NoVersion}]

IdleDelivery == [step |-> "idle", reading |-> NoReading, version |-> NoVersion]

ForgetSteps == {"idle", "committed", "switched", "detached"}

Exists == credential # NoCredential

\* A commit whose ForgetAccount has not returned.
Forgetting == \E m \in Mutator : forgets[m] # "idle"

\* generation.projectionMu
ProjectionLocked == \E m \in Mutator : forgets[m] \in {"switched", "detached"}

Leads(c) == calls[c].step \in LeaderSteps

Init ==
    /\ credential = [version |-> 1, principal |-> 1, expired |-> FALSE]
    /\ versions = 1
    /\ stored = NoReading
    /\ projected = NoReading
    /\ active = NoOne
    /\ generation = 0
    /\ calls = [c \in Caller |-> IdleCall]
    /\ deliveries = [w \in Writer |-> IdleDelivery]
    /\ forgets = [m \in Mutator |-> "idle"]
-------------------------------------------------------------------------------
(***************************************************************************)
(* The refresh flight.                                                     *)
(***************************************************************************)
Asked == IF Forgetting THEN NoReading ELSE credential.principal

\* The first caller leads; the others wait for its result.
RefreshUsage(c) ==
    /\ calls[c].step = "idle"
    /\ IF active = NoOne
       THEN /\ active' = c
            /\ calls' = [calls EXCEPT ![c] =
                   [IdleCall EXCEPT !.step = "resolve", !.leader = c,
                                    !.number = generation, !.asked = Asked]]
       ELSE /\ calls' = [calls EXCEPT ![c] =
                   [IdleCall EXCEPT !.step = "waiting", !.leader = active,
                                    !.asked = Asked]]
            /\ UNCHANGED active
    /\ UNCHANGED <<database, projected, generation, deliveries, forgets>>

At(c, step) == calls[c].step = step

Advance(c, step) == calls' = [calls EXCEPT ![c].step = step]

Live(c) == calls[c].cancelled = "no"

\* Any step before the projection may fail: the account is gone, the provider
\* refuses or times out, the context is done.
Fail(c) ==
    /\ calls[c].step \in LeaderSteps \ {"finish"}
    /\ At(c, "project") => ~ProjectionLocked
    /\ Advance(c, "finish")
    /\ UNCHANGED <<database, projected, active, generation, deliveries, forgets>>

\* The credential in the database once the resolver is done with it. The
\* refresher of the service itself is never set, so nothing renews it here.
ResolveCredential(c) ==
    /\ At(c, "resolve") /\ Live(c) /\ Exists
    /\ calls' = [calls EXCEPT ![c].step = "fetch", ![c].probe = credential]
    /\ UNCHANGED <<database, projected, active, generation, deliveries, forgets>>

FetchUsage(c) ==
    /\ At(c, "fetch") /\ Live(c)
    /\ Advance(c, "store")
    /\ UNCHANGED <<database, projected, active, generation, deliveries, forgets>>

\* The transaction of replaceUsageSnapshot: the account exists, and with a
\* version given its credential has that version.
\* Mutant of AccountExists: trusts whoever delivers.
AccountNotRead == TRUE
AccountExists == Exists
\* Mutant of MatchesCredentialVersion: last writer wins.
AnyVersion(version) == TRUE
MatchesCredentialVersion(version) == credential.version = version

StoreSnapshot(c) ==
    /\ At(c, "store") /\ Live(c)
    /\ AccountExists /\ MatchesCredentialVersion(calls[c].probe.version)
    /\ stored' = calls[c].probe.principal
    /\ Advance(c, "document")
    /\ UNCHANGED <<credential, versions, projected, active, generation,
                   deliveries, forgets>>

\* The display document, for the strategies that produce one; the document
\* itself is not modelled, that its failure ends the refresh is.
StoreDocument(c) ==
    /\ At(c, "document") /\ Live(c)
    /\ Advance(c, "project")
    /\ UNCHANGED <<database, projected, active, generation, deliveries, forgets>>

\* call.project: only the current generation, under projectionMu, and no
\* longer subject to the context.
\* Mutant of OfCurrentGeneration: whoever has stored projects.
AnyGeneration(c) == TRUE
OfCurrentGeneration(c) == calls[c].number = generation

Project(c) ==
    /\ At(c, "project") /\ ~ProjectionLocked
    /\ OfCurrentGeneration(c)
    /\ projected' = calls[c].probe.principal
    /\ calls' = [calls EXCEPT ![c].step = "finish", ![c].ok = TRUE]
    /\ UNCHANGED <<database, active, generation, deliveries, forgets>>

\* A leader gives up the flight only if it is still its own, and answers
\* everybody who waits for it.
\* Mutant of ReleasesFlight: deletes the flight of whoever leads by now.
AlwaysReleases(c) == TRUE
ReleasesFlight(c) == active = c
\* Mutant of WaitsFor: a detached leader closes no channel.
WaitsForFlight(d, c) == At(d, "waiting") /\ calls[d].leader = c /\ active = c
WaitsFor(d, c) == At(d, "waiting") /\ calls[d].leader = c

Finish(c) ==
    /\ At(c, "finish")
    /\ active' = IF ReleasesFlight(c) THEN NoOne ELSE active
    /\ calls' = [d \in Caller |->
                    IF d = c \/ WaitsFor(d, c) THEN IdleCall ELSE calls[d]]
    /\ UNCHANGED <<database, projected, generation, deliveries, forgets>>

\* The caller's own context ends: a waiter leaves, a leader fails its next
\* step that looks at the context, and everybody who waits for it with it.
Abandon(c) ==
    /\ \/ /\ At(c, "waiting")
          /\ calls' = [calls EXCEPT ![c] = IdleCall]
       \/ /\ Leads(c) /\ Live(c)
          /\ calls' = [calls EXCEPT ![c].cancelled = "abandoned"]
    /\ UNCHANGED <<database, projected, active, generation, deliveries, forgets>>
-------------------------------------------------------------------------------
(***************************************************************************)
(* Readings delivered through PUT /usage.                                  *)
(***************************************************************************)
\* The collector takes its reading with the credential of the day.
Collect(w) ==
    /\ deliveries[w].step = "idle" /\ Exists
    /\ \E step \in {"resolve", "store"} :      \* collected: no resolve
          deliveries' = [deliveries EXCEPT ![w] =
              [IdleDelivery EXCEPT !.step = step, !.reading = credential.principal]]
    /\ UNCHANGED <<database, projected, active, generation, calls, forgets>>

\* ReplaceUsage gates on the credential of the moment it is called.
ResolveDelivery(w) ==
    /\ deliveries[w].step = "resolve" /\ Exists
    /\ deliveries' = [deliveries EXCEPT ![w].step = "store",
                                        ![w].version = credential.version]
    /\ UNCHANGED <<database, projected, active, generation, calls, forgets>>

\* Without a version (ReplaceCollectedUsage) only the account must exist.
StoreDelivery(w) ==
    /\ deliveries[w].step = "store" /\ AccountExists
    /\ \/ deliveries[w].version = NoVersion
       \/ MatchesCredentialVersion(deliveries[w].version)
    /\ stored' = deliveries[w].reading
    /\ deliveries' = [deliveries EXCEPT ![w].step = "project"]
    /\ UNCHANGED <<credential, versions, projected, active, generation, calls,
                   forgets>>

\* No generation and no projectionMu on this path.
ProjectDelivery(w) ==
    /\ deliveries[w].step = "project"
    /\ projected' = deliveries[w].reading
    /\ deliveries' = [deliveries EXCEPT ![w] = IdleDelivery]
    /\ UNCHANGED <<database, active, generation, calls, forgets>>

FailDelivery(w) ==
    /\ deliveries[w].step # "idle"
    /\ deliveries' = [deliveries EXCEPT ![w] = IdleDelivery]
    /\ UNCHANGED <<database, projected, active, generation, calls, forgets>>
-------------------------------------------------------------------------------
(***************************************************************************)
(* The credential, and the forgetting that follows a commit.               *)
(***************************************************************************)
NewVersion == versions + 1

SignedIn == [version |-> NewVersion, principal |-> NewVersion, expired |-> FALSE]

\* Rotation and reauthentication clear the stored snapshot in the same
\* transaction (clearCredentialUsage).
CommitCredential(m) ==
    /\ forgets[m] = "idle" /\ Exists /\ versions < MaxVersion
    /\ credential' = SignedIn
    /\ versions' = NewVersion
    /\ stored' = NoReading
    /\ forgets' = [forgets EXCEPT ![m] = "committed"]
    /\ UNCHANGED <<projected, active, generation, calls, deliveries>>

\* A reauthentication that brings the credential that is already there commits
\* nothing, and is followed by the same forgetting. Bounded by MaxKept.
KeepCredential(m) ==
    /\ forgets[m] = "idle" /\ Exists /\ generation < MaxKept
    /\ forgets' = [forgets EXCEPT ![m] = "committed"]
    /\ UNCHANGED <<database, projected, active, generation, calls, deliveries>>

CommitDeletion(m) ==
    /\ forgets[m] = "idle" /\ Exists
    /\ credential' = NoCredential
    /\ stored' = NoReading
    /\ forgets' = [forgets EXCEPT ![m] = "committed"]
    /\ UNCHANGED <<versions, projected, active, generation, calls, deliveries>>

\* Forget, its three critical sections; projectionMu is held from here on.
SwitchGeneration(m) ==
    /\ forgets[m] = "committed" /\ ~ProjectionLocked
    /\ generation' = generation + 1
    /\ forgets' = [forgets EXCEPT ![m] = "switched"]
    /\ UNCHANGED <<database, projected, active, calls, deliveries>>

\* Mutants of Outdated: detaches the newest flight as well, or none.
EveryCall(c) == TRUE
NoCall(c) == FALSE
Outdated(c) == calls[c].number < generation

DetachRefresh(m) ==
    /\ forgets[m] = "switched"
    /\ forgets' = [forgets EXCEPT ![m] = "detached"]
    /\ IF active # NoOne /\ Outdated(active)
       THEN /\ active' = NoOne
            /\ calls' = [calls EXCEPT ![active].cancelled = "detached"]
       ELSE UNCHANGED <<active, calls>>
    /\ UNCHANGED <<database, projected, generation, deliveries>>

ClearProjection(m) ==
    /\ forgets[m] = "detached"
    /\ projected' = NoReading
    /\ forgets' = [forgets EXCEPT ![m] = "idle"]
    /\ UNCHANGED <<database, active, generation, calls, deliveries>>

\* The same account is imported again.
Register ==
    /\ ~Exists /\ versions < MaxVersion
    /\ credential' = SignedIn
    /\ versions' = NewVersion
    /\ UNCHANGED <<stored, projected, active, generation, calls, deliveries, forgets>>

Expire ==
    /\ Exists /\ ~credential.expired
    /\ credential' = [credential EXCEPT !.expired = TRUE]
    /\ UNCHANGED <<versions, stored, projected, active, generation, calls,
                   deliveries, forgets>>

\* The credential resolver renews an expired token: another version of the
\* same principal, and nobody forgets anything.
Renew ==
    /\ Refreshable /\ Exists /\ credential.expired /\ versions < MaxVersion
    /\ credential' = [credential EXCEPT !.version = NewVersion, !.expired = FALSE]
    /\ versions' = NewVersion
    /\ UNCHANGED <<stored, projected, active, generation, calls, deliveries, forgets>>

\* The process stops at any point and starts again: RestoreUsageProjection
\* projects the stored snapshot before anything else runs.
Restart ==
    /\ projected' = stored
    /\ active' = NoOne
    /\ generation' = 0
    /\ calls' = [c \in Caller |-> IdleCall]
    /\ deliveries' = [w \in Writer |-> IdleDelivery]
    /\ forgets' = [m \in Mutator |-> "idle"]
    /\ UNCHANGED database
-------------------------------------------------------------------------------
Progress(c) ==
    \/ ResolveCredential(c) \/ FetchUsage(c) \/ StoreSnapshot(c)
    \/ StoreDocument(c) \/ Project(c) \/ Fail(c) \/ Finish(c)

Deliver(w) ==
    ResolveDelivery(w) \/ StoreDelivery(w) \/ ProjectDelivery(w) \/ FailDelivery(w)

Forget(m) == SwitchGeneration(m) \/ DetachRefresh(m) \/ ClearProjection(m)

Next ==
    \/ \E c \in Caller : RefreshUsage(c) \/ Progress(c) \/ Abandon(c)
    \/ \E w \in Writer : Collect(w) \/ Deliver(w)
    \/ \E m \in Mutator :
          CommitCredential(m) \/ KeepCredential(m) \/ CommitDeletion(m) \/ Forget(m)
    \/ Register \/ Expire \/ Renew \/ Restart

Spec == Init /\ [][Next]_vars

\* A leader's steps end: the provider's answer within the HTTP client's ten
\* seconds, the rest within the process. Nobody has to call, to leave, to
\* commit or to restart.
Fairness ==
    /\ \A c \in Caller : WF_vars(Progress(c))
    /\ \A w \in Writer : WF_vars(Deliver(w))
    /\ \A m \in Mutator : WF_vars(Forget(m))

FairSpec == Spec /\ Fairness
-------------------------------------------------------------------------------
(***************************************************************************)
(* Properties.                                                             *)
(***************************************************************************)
TypeOK ==
    /\ credential \in Credential \cup {NoCredential}
    /\ versions \in Version
    /\ stored \in Reading
    /\ projected \in Reading
    /\ active \in Caller \cup {NoOne}
    /\ generation \in Nat
    /\ calls \in [Caller -> Call]
    /\ deliveries \in [Writer -> Delivery]
    /\ forgets \in [Mutator -> ForgetSteps]

\* refreshFlightGroup merges the refreshes of an account: two of one generation
\* never run side by side, however detached leaders of older generations and
\* new ones finish (the pointer comparison at the end of Do).
OneRefresh ==
    \A c, d \in Caller :
        Leads(c) /\ Leads(d) /\ calls[c].number = calls[d].number => c = d

\* Forgetting cancels the flight of older generations only: a refresh that
\* started after the switch is not cancelled by it.
FreshRefreshSurvives ==
    \A c \in Caller :
        Leads(c) /\ calls[c].number = generation => calls[c].cancelled # "detached"

\* A waiting Detach still has to come for the newest generation.
Settled ==
    IF \E m \in Mutator : forgets[m] = "switched" THEN generation - 1 ELSE generation

\* Why OneRefresh holds: the flight belongs to a leader of the newest settled
\* generation or later, and every other leader has been left behind by it.
FlightInv ==
    /\ \A m, n \in Mutator :
          /\ forgets[m] \in {"switched", "detached"}
          /\ forgets[n] \in {"switched", "detached"}
          => m = n
    /\ active # NoOne => Leads(active) /\ calls[active].number >= Settled
    /\ \A c \in Caller : Leads(c) => calls[c].number <= generation
    /\ \A c \in Caller : Leads(c) /\ c # active => calls[c].number < Settled
    /\ OneRefresh
    /\ FreshRefreshSurvives

\* The stored snapshot was taken with a credential of the principal who is
\* signed in: a refresh that a rotation, a reauthentication or a deletion
\* overtakes does not write (ReplaceUsageSnapshotIfCredentialVersion), and the
\* commit itself removes what was there.
StoredOfPrincipal ==
    stored # NoReading => stored = credential.principal

\* A deleted account leaves no snapshot behind for the next import of the same
\* account: neither a refresh nor a delivery that a deletion overtakes writes.
SnapshotHasAccount == stored # NoReading => Exists

\* The usage facts in memory are those of the principal who is signed in, once
\* the forgetting that follows a commit is over: no refresh of an older
\* generation projects after it, and no restart brings older facts back.
ProjectedOfPrincipal ==
    projected # NoReading /\ ~Forgetting => projected = credential.principal

HasProbe(c) == calls[c].step \in {"fetch", "store", "document", "project"}

\* Why a refresh stores and projects for the principal signed in, whatever is
\* delivered meanwhile: versions only grow, so a probe that passes the gate is
\* of that principal; and a leader of the current generation holds a probe of
\* that principal, or a commit has yet to switch the generation and to clear the
\* projection.
ProbeInv ==
    /\ credential.version <= versions
    /\ \A c \in Caller : HasProbe(c) =>
          /\ calls[c].probe \in Credential
          /\ calls[c].probe.version <= versions
          /\ calls[c].probe.version = credential.version
                => calls[c].probe.principal = credential.principal
          /\ OfCurrentGeneration(c) /\ (\A m \in Mutator : forgets[m] # "committed")
                => calls[c].probe.principal = credential.principal

\* Without writers nothing else stores or projects.
PrincipalInv == ProbeInv /\ StoredOfPrincipal /\ ProjectedOfPrincipal

IndInv == TypeOK /\ FlightInv /\ PrincipalInv

\* A caller that asks once a commit and its forgetting are over is never
\* answered with a reading of the principal before.
AnswerOfPrincipal ==
    \A c \in Caller :
        LET d == calls[c].leader IN
        calls[c].step \in {"waiting", "finish"} /\ calls[d].ok
            => calls[d].probe.principal >= calls[c].asked

\* A reading is in a leader's hands, or is its answer.
HasAnswer(c) == HasProbe(c) \/ (At(c, "finish") /\ calls[c].ok)

\* Why: principals only grow; a leader of the current generation has a reading
\* of the one signed in, unless a commit has yet to switch the generation, in
\* which case nobody who joins it asks for anything; and whoever waits, waits
\* for a leader.
AnswerInv ==
    /\ credential.principal <= versions
    /\ \A c \in Caller :
          /\ Leads(c) => calls[c].leader = c
          /\ At(c, "waiting") => calls[c].leader \in Caller /\ Leads(calls[c].leader)
          /\ calls[c].ok => At(c, "finish")
          /\ calls[c].asked <= versions
          /\ Exists => calls[c].asked <= credential.principal
    /\ \A c \in Caller : HasAnswer(c) =>
          /\ calls[c].probe \in Credential
          /\ OfCurrentGeneration(c) /\ (\A m \in Mutator : forgets[m] # "committed")
                => calls[c].probe.principal = credential.principal
          /\ \A d \in Caller : ~At(d, "idle") /\ calls[d].leader = c
                => calls[c].probe.principal >= calls[d].asked

\* Whoever waits for a flight waits for one that has its leader still, and the
\* flight that others may join has one: nobody waits for who has gone.
WaitersLed ==
    /\ active # NoOne => Leads(active)
    /\ \A c \in Caller : At(c, "waiting") => calls[c].leader \in Caller /\ Leads(calls[c].leader)

\* Every call of RefreshUsage returns, the ones that wait for somebody else's
\* refresh included: when the leader is detached, abandoned or fails.
CallsReturn == \A c \in Caller : ~At(c, "idle") ~> At(c, "idle")

===============================================================================
