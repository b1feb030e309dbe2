------------------------- MODULE CredentialResolver -------------------------
(***************************************************************************)
(* Credentials that are fit for use: src/application/accountcredentials.   *)
(*                                                                         *)
(* A resolver reads the stored credential of an account.  One that is      *)
(* about to expire is refreshed first: the refresh token is exchanged at   *)
(* the provider and the result takes the place of what was read, if that   *)
(* is still stored.  Callers of one resolver share a refresh; a refused    *)
(* one rests for a while.  ForceRefreshCredentialBinding refreshes in any  *)
(* case, after the upstream has rejected the credential.                   *)
(*                                                                         *)
(* One resolver and one account are modelled, with a refreshable           *)
(* credential; a static one is never due.  Users sign in, delete and       *)
(* import it meanwhile, callers leave, and others renew the row: the       *)
(* server has one resolver for management and usage and one for inference, *)
(* every command line process its own, and the Node host may be another.   *)
(***************************************************************************)
EXTENDS Integers

CONSTANTS
    Caller,
    NoOne,
    MaxVersion,   \* bound of the model: versions of the row
    MaxToken      \* bound of the model: refresh tokens the provider issues

ASSUME CallerAssumption == NoOne \notin Caller
ASSUME BoundAssumption == MaxVersion \in Nat /\ MaxToken \in Nat

VARIABLES
    row,         \* database: the credential; what is left of it once deleted
    issued,      \* provider: how many refresh tokens it has issued
    active,      \* refreshFlightGroup.active: the leader
    suppressed,  \* refreshSuppress: what was refused
    forgetting,  \* a deletion has yet to clean up this resolver
    calls,
    spent        \* history: tokens this resolver has exchanged and replaced

vars == <<row, issued, active, suppressed, forgetting, calls, spent>>
memory == <<active, suppressed, forgetting>>

\* version: updated_at. signIn: which sign-in or import the token stems from.
Row == [exists : BOOLEAN, version : Nat, token : Nat, signIn : Nat, due : BOOLEAN]

FirstRow == [exists |-> TRUE, version |-> 1, token |-> 1, signIn |-> 1, due |-> TRUE]

\* What a call keeps of a row it has read.
Snapshot == [version : Nat, token : Nat, signIn : Nat]
NoSnapshot == [version |-> 0, token |-> 0, signIn |-> 0]
SnapshotOf(content) ==
    [version |-> content.version, token |-> content.token, signIn |-> content.signIn]

NoEntry == [version |-> 0, token |-> 0]
Entry == [version : Nat, token : Nat]

LeaderSteps == {"reread", "submit", "write", "clear", "reload", "finish"}

\* again: the flight was joined a second time. cancelled: the caller's own
\* context is done. grant: the token the provider answered with.
Call == [step : {"idle", "check", "join", "wait"} \cup LeaderSteps,
         force : BOOLEAN, snapshot : Snapshot, grant : Nat,
         result : {"none", "done", "failed", "cancelled"},
         leader : Caller \cup {NoOne}, again : BOOLEAN, cancelled : BOOLEAN]

IdleCall == [step |-> "idle", force |-> FALSE, snapshot |-> NoSnapshot, grant |-> 0,
             result |-> "none", leader |-> NoOne, again |-> FALSE, cancelled |-> FALSE]

Init ==
    /\ row = FirstRow
    /\ issued = 1
    /\ active = NoOne
    /\ suppressed = NoEntry
    /\ forgetting = FALSE
    /\ calls = [c \in Caller |-> IdleCall]
    /\ spent = {}

At(c, step) == calls[c].step = step
Leads(c) == calls[c].step \in LeaderSteps
Live(c) == ~calls[c].cancelled
Advance(c, step) == calls' = [calls EXCEPT ![c].step = step]
Ends(c, result) ==
    calls' = [calls EXCEPT ![c].step = "finish", ![c].result = result,
                           ![c].snapshot = NoSnapshot, ![c].grant = 0]
-----------------------------------------------------------------------------
(* Before the flight.                                                      *)

\* Resolve of a credential that is due; any other is returned as it is.
Resolve(c) ==
    /\ At(c, "idle") /\ row.exists /\ row.due
    /\ calls' = [calls EXCEPT ![c] =
          [IdleCall EXCEPT !.step = "check", !.snapshot = SnapshotOf(row)]]
    /\ UNCHANGED <<row, issued, memory, spent>>

\* ForceRefreshCredentialBinding does not look at earlier refusals.
ForceRefresh(c) ==
    /\ At(c, "idle") /\ row.exists
    /\ calls' = [calls EXCEPT ![c] =
          [IdleCall EXCEPT !.step = "join", !.force = TRUE]]
    /\ UNCHANGED <<row, issued, memory, spent>>

Matches(entry, snapshot) == entry # NoEntry /\ entry.version = snapshot.version

\* suppressesRefresh: the credential that was refused rests...
Rest(c) ==
    /\ At(c, "check")
    /\ Matches(suppressed, calls[c].snapshot)
    /\ calls' = [calls EXCEPT ![c] = IdleCall]
    /\ UNCHANGED <<row, issued, memory, spent>>

\* ... until its delay is over, which may be at any time. An entry of another
\* version is dropped, even by a caller that has read an older one.
StopResting(c) ==
    /\ At(c, "check")
    /\ suppressed' = NoEntry
    /\ calls' = [calls EXCEPT ![c].step = "join", ![c].snapshot = NoSnapshot]
    /\ UNCHANGED <<row, issued, active, forgetting, spent>>

\* Mutant of Free: everybody refreshes.
AlwaysFree == TRUE
Free == active = NoOne

\* refreshFlightGroup.Do: the first caller leads, the others wait.
Join(c) ==
    /\ At(c, "join")
    /\ IF Free
       THEN /\ active' = c
            /\ Advance(c, "reread")
       ELSE /\ calls' = [calls EXCEPT ![c].step = "wait", ![c].leader = active]
            /\ UNCHANGED active
    /\ UNCHANGED <<row, issued, suppressed, forgetting, spent>>
-----------------------------------------------------------------------------
(* The flight: refreshCurrent.                                             *)

Reread(c) ==
    /\ At(c, "reread") /\ Live(c) /\ row.exists
    /\ IF calls[c].force \/ row.due
       THEN calls' = [calls EXCEPT ![c].step = "submit", ![c].snapshot = SnapshotOf(row)]
       ELSE Ends(c, "done")
    /\ UNCHANGED <<row, issued, memory, spent>>

\* The provider answers a submitted refresh token with another...
Grant(c) ==
    /\ At(c, "submit") /\ issued < MaxToken
    /\ issued' = issued + 1
    /\ calls' = [calls EXCEPT ![c].step = "write", ![c].grant = issued + 1]
    /\ UNCHANGED <<row, memory, spent>>

\* Mutant of RefusedVersion: what is stored by now is taken to be refused.
VersionByNow(c) == row.version
RefusedVersion(c) == calls[c].snapshot.version

\* ... or refuses it, or cannot be reached (rememberRefreshFailure).
Refuse(c) ==
    /\ At(c, "submit")
    /\ suppressed' = [version |-> RefusedVersion(c),
                       token |-> calls[c].snapshot.token]
    /\ Ends(c, "failed")
    /\ UNCHANGED <<row, issued, active, forgetting, spent>>

\* nextCredentialVersion at clock reading t, which may be behind the row.
NextVersion(t, current) == IF t > current THEN t ELSE current + 1

\* Mutant of Unchanged: the last writer wins.
Unguarded(c) == row.exists
\* The WHERE clause of ReplaceCredential.
Unchanged(c) == row.exists /\ row.version = calls[c].snapshot.version

Write(c) ==
    /\ At(c, "write") /\ Live(c)
    /\ IF Unchanged(c)
       THEN /\ \E t \in 1 .. MaxVersion :
                 LET version == NextVersion(t, calls[c].snapshot.version) IN
                 /\ version <= MaxVersion
                 /\ row' = [exists |-> TRUE, version |-> version, token |-> calls[c].grant,
                            signIn |-> calls[c].snapshot.signIn, due |-> FALSE]
            /\ spent' = spent \cup {calls[c].snapshot.token}
            /\ Advance(c, "clear")
       ELSE Advance(c, "reload") /\ UNCHANGED <<row, spent>>
    /\ UNCHANGED <<issued, memory>>

\* forgetRefreshSuppression
Clear(c) ==
    /\ At(c, "clear")
    /\ suppressed' = NoEntry
    /\ Ends(c, "done")
    /\ UNCHANGED <<row, issued, active, forgetting, spent>>

\* resolveCredentialConflict: somebody else's newer version is as good.
Reload(c) ==
    /\ At(c, "reload") /\ Live(c) /\ row.exists
    /\ Ends(c, IF row.version > calls[c].snapshot.version THEN "done" ELSE "failed")
    /\ UNCHANGED <<row, issued, memory, spent>>

\* The account is gone, the database or the clock fails, the answer is not
\* usable: an error that is not remembered, or the leader's own cancellation.
\* A token that was granted is lost.
Fail(c) ==
    /\ calls[c].step \in {"reread", "submit", "write", "reload"}
    /\ \E result \in {"failed", "cancelled"} :
          /\ result = "cancelled" => ~Live(c)
          /\ Ends(c, result)
    /\ UNCHANGED <<row, issued, memory, spent>>

\* Mutant of Releases: a flight that failed keeps its place.
ReleasesDone(c) == calls[c].result = "done"
Releases(c) == TRUE

\* Whoever was cut off by somebody else's cancellation tries once more
\* (executeRefreshFlight); for all others the call is over.
AfterFlight(d, result) ==
    IF result = "cancelled" /\ Live(d) /\ ~calls[d].again
    THEN [calls[d] EXCEPT !.step = "join", !.leader = NoOne, !.again = TRUE]
    ELSE IdleCall

Finish(c) ==
    /\ At(c, "finish")
    /\ active' = IF Releases(c) THEN NoOne ELSE active
    /\ calls' = [d \in Caller |->
          IF d = c \/ (At(d, "wait") /\ calls[d].leader = c)
          THEN AfterFlight(d, calls[c].result) ELSE calls[d]]
    /\ UNCHANGED <<row, issued, suppressed, forgetting, spent>>

\* The caller's context ends: a waiter leaves (waitForRefresh); a leader fails
\* its next step that looks at the context, and those who wait with it.
Abandon(c) ==
    /\ At(c, "wait") \/ (~At(c, "idle") /\ Live(c))
    /\ calls' = [calls EXCEPT ![c] =
          IF At(c, "wait") THEN IdleCall ELSE [@ EXCEPT !.cancelled = TRUE]]
    /\ UNCHANGED <<row, issued, memory, spent>>
-----------------------------------------------------------------------------
(* The account, and the process.                                           *)

Expire ==
    /\ row.exists /\ ~row.due
    /\ row' = [row EXCEPT !.due = TRUE]
    /\ UNCHANGED <<issued, memory, calls, spent>>

\* canReplaceAt: a sign-in of the same millisecond is a conflict.
CanReplaceAt(t) == t > row.version

\* Another sign-in of the same user; what is brought in may be due already.
SignedInAt(t) ==
    \E due \in BOOLEAN :
        row' = [exists |-> TRUE, version |-> t, token |-> issued + 1,
                signIn |-> row.signIn + 1, due |-> due]

Reauthenticate ==
    /\ row.exists /\ issued < MaxToken
    /\ \E t \in 1 .. MaxVersion : CanReplaceAt(t) /\ SignedInAt(t)
    /\ issued' = issued + 1
    /\ UNCHANGED <<memory, calls, spent>>

CommitDeletion ==
    /\ row.exists
    /\ row' = [row EXCEPT !.exists = FALSE]
    /\ forgetting' = TRUE
    /\ UNCHANGED <<issued, active, suppressed, calls, spent>>

\* The resolver of management is cleaned up; that of inference is not, which
\* is the case that this step does not take place.
ForgetAccount ==
    /\ forgetting
    /\ forgetting' = FALSE
    /\ suppressed' = NoEntry
    /\ UNCHANGED <<row, issued, active, calls, spent>>

\* RegisterNew. An import takes place later than what was deleted was stored:
\* the clock is not set back in between.
Register ==
    /\ ~row.exists /\ issued < MaxToken
    /\ \E t \in 1 .. MaxVersion : t > row.version /\ SignedInAt(t)
    /\ issued' = issued + 1
    /\ UNCHANGED <<memory, calls, spent>>

\* Somebody else's refresh takes the place of what it was made from.
RenewElsewhere ==
    /\ row.exists /\ issued < MaxToken
    /\ \E t \in 1 .. MaxVersion :
          LET version == NextVersion(t, row.version) IN
          /\ version <= MaxVersion
          /\ row' = [row EXCEPT !.version = version, !.token = issued + 1, !.due = FALSE]
    /\ issued' = issued + 1
    /\ UNCHANGED <<memory, calls, spent>>

\* The process stops between any two steps.
Restart ==
    /\ active' = NoOne
    /\ suppressed' = NoEntry
    /\ forgetting' = FALSE
    /\ calls' = [c \in Caller |-> IdleCall]
    /\ UNCHANGED <<row, issued, spent>>
-----------------------------------------------------------------------------
Progress(c) ==
    \/ Rest(c) \/ StopResting(c) \/ Join(c)
    \/ Reread(c) \/ Grant(c) \/ Refuse(c) \/ Write(c) \/ Clear(c) \/ Reload(c)
    \/ Fail(c) \/ Finish(c)

Next ==
    \/ \E c \in Caller : Resolve(c) \/ ForceRefresh(c) \/ Progress(c) \/ Abandon(c)
    \/ Expire \/ RenewElsewhere \/ Reauthenticate \/ Register
    \/ CommitDeletion \/ ForgetAccount \/ Restart

Spec == Init /\ [][Next]_vars

\* The steps of a call end: the provider's answer within the timeout of the
\* HTTP client, the rest within the process. Nobody has to leave, to sign in,
\* to delete or to restart.
FairSpec == Spec /\ \A c \in Caller : WF_vars(Progress(c))
-----------------------------------------------------------------------------
(* Properties.                                                             *)
TypeOK ==
    /\ row \in Row
    /\ issued \in Nat
    /\ active \in Caller \cup {NoOne}
    /\ suppressed \in Entry
    /\ forgetting \in BOOLEAN
    /\ calls \in [Caller -> Call]
    /\ spent \subseteq Nat

\* A resolver never submits a refresh token that it has exchanged and replaced
\* already, however late a caller arrives at the flight: the leader reads the
\* row again, and nobody else of the resolver refreshes meanwhile
\* (refreshCurrent, refreshFlightGroup.Do).
SpentOnce ==
    \A c \in Caller :
        At(c, "submit") => calls[c].snapshot.token \notin spent

\* A new sign-in never rests because of the one before it: an entry that
\* matches the stored credential is of its very token, although a refusal may
\* be remembered long after the row has changed (suppressesRefresh).
RestsItsOwn ==
    Matches(suppressed, row) => suppressed.token = row.token

\* The stored credential keeps the promises of CredentialRow: whoever signs in
\* while a refresh is under way, in this process or in another, keeps the
\* sign-in, and no version stands for two contents (ReplaceCredential,
\* replaceCredential of the reauthentication).
Stored == INSTANCE CredentialRow
RowSpec == Stored!Spec

\* A flight has one leader, and whoever leads has the flight.
FlightInv ==
    /\ active # NoOne => Leads(active)
    /\ \A c \in Caller : Leads(c) => active = c

\* A version tells the content of the row: what was read with the version that
\* is stored is what is stored.
OfRow(snapshot) ==
    /\ snapshot.version <= row.version
    /\ snapshot.version = row.version
          => snapshot.token = row.token /\ snapshot.signIn = row.signIn

\* Why the three properties above hold: versions and tokens of the row only
\* grow, so that a snapshot, an entry and a granted token never pass for newer
\* than they are.
ContentInv ==
    /\ row.version >= 1 /\ row.token <= issued
    /\ \A c \in Caller :
          calls[c].step \in {"check", "submit", "write", "clear", "reload"} =>
              OfRow(calls[c].snapshot) /\ calls[c].snapshot.token <= issued
    /\ \A c \in Caller : At(c, "write") =>
          calls[c].grant > calls[c].snapshot.token /\ calls[c].grant <= issued
    /\ suppressed.version <= row.version
    /\ suppressed.version = row.version => suppressed.token = row.token
    /\ \A token \in spent : token < row.token

IndInv == TypeOK /\ FlightInv /\ ContentInv /\ SpentOnce

\* Whoever waits for a flight waits for one that has its leader still, and the
\* flight that others may join has one: nobody waits for who has gone.
WaitersLed ==
    /\ active # NoOne => Leads(active)
    /\ \A c \in Caller : At(c, "wait") => calls[c].leader \in Caller /\ Leads(calls[c].leader)

\* Every call returns: the ones that wait for somebody else's refresh too,
\* when its caller leaves, when it fails and when it is tried once more.
ResolvesReturn == \A c \in Caller : ~At(c, "idle") ~> At(c, "idle")
=============================================================================
