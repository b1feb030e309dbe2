---------------------- MODULE CredentialResolverProofs ----------------------
(***************************************************************************)
(* The resolver's safety properties for any number of callers, versions    *)
(* and tokens, and that the row keeps the promises of CredentialRow.       *)
(***************************************************************************)
EXTENDS CredentialResolver, TLAPS

Holding == {"check", "submit", "write", "clear", "reload"}

\* What the invariant says of one call.
Sound(call) ==
    /\ call.step \in Holding => OfRow(call.snapshot) /\ call.snapshot.token <= issued
    /\ call.step = "write" => call.grant > call.snapshot.token /\ call.grant <= issued
    /\ call.step = "submit" => call.snapshot.token \notin spent

EntryInv ==
    /\ suppressed.version <= row.version
    /\ suppressed.version = row.version => suppressed.token = row.token

LEMMA IndInvByCall ==
    IndInv <=> /\ TypeOK /\ FlightInv
               /\ row.version >= 1 /\ row.token <= issued
               /\ \A c \in Caller : Sound(calls[c])
               /\ EntryInv
               /\ \A token \in spent : token < row.token
  BY DEF IndInv, ContentInv, SpentOnce, Sound, EntryInv, Holding, At

LEMMA IndInvNext ==
    ASSUME TypeOK', FlightInv', row'.version >= 1, row'.token <= issued',
           \A c \in Caller : Sound(calls[c])', EntryInv',
           \A token \in spent' : token < row'.token
    PROVE  IndInv'
  BY DEF IndInv, ContentInv, SpentOnce, Sound, EntryInv, Holding, At

LEMMA IdleFacts ==
    /\ IdleCall \in Call /\ Sound(IdleCall)
    /\ IdleCall.step \notin LeaderSteps
  BY DEF IdleCall, Call, Snapshot, NoSnapshot, LeaderSteps, Sound, Holding

LEMMA VersionGrows ==
    ASSUME NEW t \in Nat, NEW current \in Nat
    PROVE  NextVersion(t, current) \in Nat /\ NextVersion(t, current) > current
  BY DEF NextVersion

-----------------------------------------------------------------------------
(* Steps of two kinds: those that change one call and perhaps the entry,   *)
(* and those that store another content in the row.                        *)

LEMMA CallStep ==
    ASSUME IndInv, NEW c \in Caller, NEW call \in Call, Sound(call),
           calls' = [calls EXCEPT ![c] = call],
           call.step \in LeaderSteps <=> Leads(c),
           UNCHANGED <<row, active, spent>>,
           forgetting' \in BOOLEAN,
           issued' \in Nat, issued' >= issued,
           suppressed' \in Entry, EntryInv'
    PROVE  IndInv'
<1> USE IndInvByCall DEF TypeOK
<1>1. \A d \in Caller : calls'[d] = IF d = c THEN call ELSE calls[d]
  OBVIOUS
<1>2. TypeOK'
  BY <1>1
<1>3. FlightInv'
  BY <1>1 DEF FlightInv, Leads
<1>4. \A d \in Caller : Sound(calls[d])'
  <2> SUFFICES ASSUME NEW d \in Caller PROVE Sound(calls[d])'
    OBVIOUS
  <2>1. Sound(calls'[d]) /\ calls'[d] \in Call
    BY <1>1
  <2> QED BY <2>1 DEF Sound, OfRow, Call, Snapshot
<1>5. row'.token <= issued'
  BY DEF Row
<1> QED BY <1>2, <1>3, <1>4, <1>5, IndInvNext

\* Most of the first kind leave everything else alone.
LEMMA QuietStep ==
    ASSUME IndInv, NEW c \in Caller, NEW call \in Call, Sound(call),
           calls' = [calls EXCEPT ![c] = call],
           call.step \in LeaderSteps <=> Leads(c),
           UNCHANGED <<row, issued, active, suppressed, forgetting, spent>>
    PROVE  IndInv'
<1>1. /\ issued' \in Nat /\ issued' >= issued /\ forgetting' \in BOOLEAN
      /\ suppressed' \in Entry
  BY DEF IndInv, TypeOK
<1>2. EntryInv'
  BY DEF IndInv, ContentInv, EntryInv
<1> QED BY <1>1, <1>2, CallStep

LEMMA RowStep ==
    ASSUME IndInv, row' \in Row,
           row'.version > row.version, row'.token > row.token,
           issued' \in Nat, issued' >= issued, row'.token <= issued',
           UNCHANGED <<memory, calls, spent>>
    PROVE  IndInv'
<1> USE IndInvByCall DEF TypeOK
<1>0. UNCHANGED <<active, suppressed, forgetting>>
  BY DEF memory
<1>1. TypeOK' /\ FlightInv'
  BY <1>0 DEF FlightInv, Leads
<1>2. \A c \in Caller : Sound(calls[c])'
  <2> SUFFICES ASSUME NEW c \in Caller PROVE Sound(calls[c])'
    OBVIOUS
  <2>1. Sound(calls[c]) /\ calls[c] \in Call
    OBVIOUS
  <2> QED BY <2>1 DEF Sound, OfRow, Call, Snapshot, Row
<1>3. EntryInv'
  BY <1>0 DEF EntryInv, Entry, Row
<1>4. row'.version >= 1 /\ \A token \in spent' : token < row'.token
  BY DEF Row
<1> QED BY <1>1, <1>2, <1>3, <1>4, IndInvNext

-----------------------------------------------------------------------------
(* The steps of a call.                                                    *)

\* The row as a call remembers it.
LEMMA SnapshotSound ==
    ASSUME TypeOK
    PROVE  SnapshotOf(row) \in Snapshot /\ OfRow(SnapshotOf(row))
  BY DEF TypeOK, SnapshotOf, Snapshot, Row, OfRow

LEMMA BeforeFlight ==
    ASSUME IndInv, NEW c \in Caller,
           Resolve(c) \/ ForceRefresh(c) \/ Rest(c) \/ StopResting(c) \/ Abandon(c)
    PROVE  IndInv'
<1> USE IndInvByCall
<1>0. /\ calls[c] \in Call /\ Sound(calls[c]) /\ row \in Row /\ suppressed \in Entry
      /\ forgetting \in BOOLEAN /\ issued \in Nat /\ calls \in [Caller -> Call]
  BY DEF TypeOK
<1>1. CASE Resolve(c)
  <2> DEFINE call == [IdleCall EXCEPT !.step = "check", !.snapshot = SnapshotOf(row)]
  <2>1. call \in Call
    BY SnapshotSound, IdleFacts DEF Call, IdleCall
  <2>2. Sound(call)
    BY SnapshotSound DEF IdleCall, Sound, SnapshotOf
  <2>3. call.step \notin LeaderSteps /\ ~Leads(c)
    BY <1>1 DEF Resolve, At, Leads, LeaderSteps, IdleCall
  <2>4. /\ calls' = [calls EXCEPT ![c] = call]
        /\ UNCHANGED <<row, issued, active, suppressed, forgetting, spent>>
    BY <1>1 DEF Resolve, memory
  <2> HIDE DEF call
  <2> QED BY <2>1, <2>2, <2>3, <2>4, QuietStep
<1>2. CASE ForceRefresh(c)
  <2> DEFINE call == [IdleCall EXCEPT !.step = "join", !.force = TRUE]
  <2>1. call \in Call
    BY IdleFacts DEF Call, IdleCall
  <2>2. Sound(call)
    BY DEF IdleCall, Sound, Holding
  <2>3. call.step \notin LeaderSteps /\ ~Leads(c)
    BY <1>2 DEF ForceRefresh, At, Leads, LeaderSteps, IdleCall
  <2>4. /\ calls' = [calls EXCEPT ![c] = call]
        /\ UNCHANGED <<row, issued, active, suppressed, forgetting, spent>>
    BY <1>2 DEF ForceRefresh, memory
  <2> HIDE DEF call
  <2> QED BY <2>1, <2>2, <2>3, <2>4, QuietStep
<1>3. CASE Rest(c)
  <2>1. ~Leads(c)
    BY <1>3 DEF Rest, At, Leads, LeaderSteps
  <2>2. /\ calls' = [calls EXCEPT ![c] = IdleCall]
        /\ UNCHANGED <<row, issued, active, suppressed, forgetting, spent>>
    BY <1>3 DEF Rest, memory
  <2> QED BY <2>1, <2>2, IdleFacts, QuietStep
<1>4. CASE StopResting(c)
  <2> DEFINE call == [calls[c] EXCEPT !.step = "join", !.snapshot = NoSnapshot]
  <2>1. call \in Call
    BY <1>0 DEF Call, NoSnapshot, Snapshot
  <2>2. Sound(call)
    BY <1>0 DEF Call, Sound, Holding
  <2>3. call.step \notin LeaderSteps /\ ~Leads(c)
    BY <1>0, <1>4 DEF StopResting, At, Leads, LeaderSteps, Call
  <2>4. calls' = [calls EXCEPT ![c] = call]
    BY <1>4 DEF StopResting
  <2>5. suppressed' \in Entry /\ EntryInv'
    BY <1>0, <1>4 DEF StopResting, NoEntry, Entry, EntryInv, Row
  <2>6. UNCHANGED <<row, issued, active, forgetting, spent>>
    BY <1>4 DEF StopResting
  <2>7. issued' \in Nat /\ issued' >= issued /\ forgetting' \in BOOLEAN
    BY <1>0, <2>6
  <2> HIDE DEF call
  <2> QED BY <2>1, <2>2, <2>3, <2>4, <2>5, <2>6, <2>7, CallStep
<1>5. CASE Abandon(c)
  <2> DEFINE call == IF At(c, "wait") THEN IdleCall ELSE [calls[c] EXCEPT !.cancelled = TRUE]
  <2>1. call \in Call
    BY <1>0, IdleFacts DEF Call
  <2>2. Sound(call)
    BY <1>0, IdleFacts DEF Call, Sound
  <2>3. call.step \in LeaderSteps <=> Leads(c)
    BY <1>0, IdleFacts DEF Call, At, Leads, LeaderSteps
  <2>4. /\ calls' = [calls EXCEPT ![c] = call]
        /\ UNCHANGED <<row, issued, active, suppressed, forgetting, spent>>
    BY <1>5 DEF Abandon, memory
  <2> HIDE DEF call
  <2> QED BY <2>1, <2>2, <2>3, <2>4, QuietStep
<1> QED BY <1>1, <1>2, <1>3, <1>4, <1>5

LEMMA JoinStep ==
    ASSUME IndInv, NEW c \in Caller, Join(c)
    PROVE  IndInv'
<1> USE IndInvByCall
<1>0. /\ calls[c] \in Call /\ calls \in [Caller -> Call] /\ issued \in Nat
      /\ active \in Caller \cup {NoOne} /\ forgetting \in BOOLEAN /\ suppressed \in Entry
  BY DEF TypeOK
<1>1. CASE Free
  <2>1. calls' = [calls EXCEPT ![c].step = "reread"] /\ active' = c
    BY <1>1 DEF Join, Advance
  <2>2. UNCHANGED <<row, issued, suppressed, forgetting, spent>>
    BY DEF Join
  <2>3. calls' \in [Caller -> Call]
    BY <1>0, <2>1 DEF Call, LeaderSteps
  <2>4. FlightInv'
    <3>1. \A d \in Caller : ~Leads(d)
      BY <1>1, CallerAssumption DEF FlightInv, Free
    <3>2. \A d \in Caller : Leads(d)' <=> d = c
      BY <1>0, <2>1, <3>1 DEF Leads, LeaderSteps, Call
    <3> QED BY <2>1, <3>2 DEF FlightInv
  <2>5. \A d \in Caller : Sound(calls[d])'
    BY <1>0, <2>1, <2>2 DEF Sound, Holding, OfRow, Call, TypeOK
  <2> QED BY <1>0, <2>1, <2>2, <2>3, <2>4, <2>5, IndInvNext DEF TypeOK, EntryInv
<1>2. CASE ~Free
  <2> DEFINE call == [calls[c] EXCEPT !.step = "wait", !.leader = active]
  <2>1. call \in Call
    BY <1>0 DEF Call
  <2>2. Sound(call)
    BY <1>0 DEF Call, Sound, Holding
  <2>3. call.step \notin LeaderSteps /\ ~Leads(c)
    BY <1>0 DEF Join, At, Leads, LeaderSteps, Call
  <2>4. /\ calls' = [calls EXCEPT ![c] = call]
        /\ UNCHANGED <<row, issued, active, suppressed, forgetting, spent>>
    BY <1>2 DEF Join
  <2> HIDE DEF call
  <2> QED BY <2>1, <2>2, <2>3, <2>4, QuietStep
<1> QED BY <1>1, <1>2

\* A leader's way to its end, with whatever result.
LEMMA EndsStep ==
    ASSUME IndInv, NEW c \in Caller, Leads(c),
           NEW result \in {"done", "failed", "cancelled"}, Ends(c, result),
           UNCHANGED <<row, issued, active, forgetting, spent>>,
           suppressed' \in Entry, EntryInv'
    PROVE  IndInv'
<1> DEFINE call == [calls[c] EXCEPT !.step = "finish", !.result = result,
                                    !.snapshot = NoSnapshot, !.grant = 0]
<1>0. calls[c] \in Call /\ forgetting \in BOOLEAN /\ issued \in Nat
  BY DEF IndInv, TypeOK
<1>1. call \in Call /\ call.step = "finish"
  BY <1>0 DEF Call, LeaderSteps, NoSnapshot, Snapshot
<1>2. Sound(call) /\ call.step \in LeaderSteps
  BY <1>1 DEF Sound, Holding, LeaderSteps
<1>3. calls' = [calls EXCEPT ![c] = call]
  BY DEF Ends
<1>4. issued' \in Nat /\ issued' >= issued /\ forgetting' \in BOOLEAN
  BY <1>0
<1> HIDE DEF call
<1> QED BY <1>1, <1>2, <1>3, <1>4, CallStep

LEMMA LeaderStep ==
    ASSUME IndInv, NEW c \in Caller,
           Reread(c) \/ Grant(c) \/ Refuse(c) \/ Clear(c) \/ Reload(c) \/ Fail(c)
    PROVE  IndInv'
<1> USE IndInvByCall
<1>0. /\ calls[c] \in Call /\ Sound(calls[c]) /\ row \in Row /\ suppressed \in Entry
      /\ forgetting \in BOOLEAN /\ issued \in Nat /\ calls \in [Caller -> Call]
  BY DEF TypeOK
<1>L. Leads(c)
  BY DEF Reread, Grant, Refuse, Clear, Reload, Fail, At, Leads, LeaderSteps
<1>1. CASE Reread(c) /\ (calls[c].force \/ row.due)
  <2> DEFINE call == [calls[c] EXCEPT !.step = "submit", !.snapshot = SnapshotOf(row)]
  <2>1. call \in Call
    BY <1>0, SnapshotSound DEF Call, LeaderSteps
  <2>2. row.token \notin spent
    BY <1>0 DEF Row
  <2>3. Sound(call)
    BY <1>0, <2>2, SnapshotSound DEF Call, Sound, Holding, SnapshotOf
  <2>4. call.step \in LeaderSteps
    BY <1>0 DEF Call, LeaderSteps
  <2>5. /\ calls' = [calls EXCEPT ![c] = call]
        /\ UNCHANGED <<row, issued, active, suppressed, forgetting, spent>>
    BY <1>1 DEF Reread, memory
  <2> HIDE DEF call
  <2> QED BY <1>L, <2>1, <2>3, <2>4, <2>5, QuietStep
<1>2. CASE Reread(c) /\ ~(calls[c].force \/ row.due)
  BY <1>0, <1>2, <1>L, EndsStep DEF Reread, memory, EntryInv
<1>3. CASE Grant(c)
  <2> DEFINE call == [calls[c] EXCEPT !.step = "write", !.grant = issued + 1]
  <2>1. call \in Call
    <3>1. issued + 1 \in Nat
      BY <1>0
    <3> QED BY <1>0, <3>1 DEF Call, LeaderSteps
  <2>2. issued' = issued + 1 /\ calls' = [calls EXCEPT ![c] = call]
    BY <1>3 DEF Grant
  <2>3. UNCHANGED <<row, active, suppressed, forgetting, spent>>
    BY <1>3 DEF Grant, memory
  <2>4. \A d \in Caller : Sound(calls[d])'
    <3> SUFFICES ASSUME NEW d \in Caller PROVE Sound(calls[d])'
      OBVIOUS
    <3>1. calls[d] \in Call /\ Sound(calls[d])
      BY <1>0
    <3>2. CASE d # c
      <4>1. calls'[d] = calls[d]
        BY <1>0, <2>2, <3>2
      <4>2. calls[d].snapshot.token \in Nat /\ calls[d].grant \in Nat
        BY <3>1 DEF Call, Snapshot
      <4>3. /\ calls[d].snapshot.token <= issued => calls[d].snapshot.token <= issued'
            /\ calls[d].grant <= issued => calls[d].grant <= issued'
        BY <1>0, <2>2, <4>2
      <4> QED BY <2>3, <3>1, <4>1, <4>3 DEF Sound, OfRow
    <3>3. CASE d = c
      <4>1. calls'[d] = call
        BY <1>0, <2>2, <3>3
      <4>2. /\ call.step = "write" /\ call.grant = issued + 1
            /\ call.snapshot = calls[c].snapshot
        BY <1>0 DEF Call
      <4>3. OfRow(calls[c].snapshot) /\ calls[c].snapshot.token <= issued
        BY <1>0, <1>3 DEF Grant, At, Sound, Holding
      <4> HIDE DEF call
      <4> QED BY <1>0, <2>2, <2>3, <4>1, <4>2, <4>3 DEF Sound, OfRow, Call, Snapshot
    <3> QED BY <3>2, <3>3
  <2>5. FlightInv'
    <3>1. call.step \in LeaderSteps
      BY <1>0 DEF Call, LeaderSteps
    <3> HIDE DEF call
    <3> QED BY <1>0, <1>L, <2>2, <2>3, <3>1 DEF FlightInv, Leads
  <2>6. TypeOK'
    <3> HIDE DEF call
    <3> QED BY <1>0, <2>1, <2>2, <2>3 DEF TypeOK
  <2>7. row'.token <= issued'
    BY <1>0, <2>2, <2>3 DEF Row
  <2> QED BY <2>3, <2>4, <2>5, <2>6, <2>7, IndInvNext DEF EntryInv
<1>4. CASE Refuse(c)
  <2>1. OfRow(calls[c].snapshot)
    BY <1>0, <1>4 DEF Refuse, At, Sound, Holding
  <2>2. suppressed' \in Entry /\ EntryInv'
    BY <1>0, <1>4, <2>1 DEF Refuse, RefusedVersion, Entry, EntryInv, OfRow, Call, Snapshot
  <2> QED BY <1>0, <1>4, <1>L, <2>2, EndsStep DEF Refuse
<1>5. CASE Clear(c)
  <2>1. suppressed' \in Entry /\ EntryInv'
    BY <1>0, <1>5 DEF Clear, NoEntry, Entry, EntryInv, Row
  <2> QED BY <1>0, <1>5, <1>L, <2>1, EndsStep DEF Clear
<1>6. CASE Reload(c)
  BY <1>0, <1>6, <1>L, EndsStep DEF Reload, memory, EntryInv
<1>7. CASE Fail(c)
  BY <1>0, <1>7, <1>L, EndsStep DEF Fail, memory, EntryInv
<1> QED BY <1>1, <1>2, <1>3, <1>4, <1>5, <1>6, <1>7

\* What a write that meets its own version does to the row.
LEMMA WriteRenews ==
    ASSUME IndInv, NEW c \in Caller, Write(c), Unchanged(c)
    PROVE  /\ row' \in Row /\ row.exists /\ row'.exists
           /\ row'.version > row.version /\ row'.signIn = row.signIn
           /\ row'.token = calls[c].grant /\ row'.token > row.token /\ row'.token <= issued
           /\ calls[c].snapshot.token = row.token
<1> USE IndInvByCall
<1>0. calls[c] \in Call /\ Sound(calls[c]) /\ row \in Row /\ At(c, "write")
  BY DEF TypeOK, Write
<1>1. /\ calls[c].snapshot.version = row.version /\ row.exists
      /\ calls[c].snapshot.token = row.token /\ calls[c].snapshot.signIn = row.signIn
      /\ calls[c].grant > row.token /\ calls[c].grant <= issued
  BY <1>0 DEF Sound, OfRow, Holding, Unchanged, At
<1>2. PICK t \in 1 .. MaxVersion :
        row' = [exists |-> TRUE, version |-> NextVersion(t, row.version), token |-> calls[c].grant,
                signIn |-> calls[c].snapshot.signIn, due |-> FALSE]
  BY <1>1 DEF Write
<1>3. NextVersion(t, row.version) \in Nat /\ NextVersion(t, row.version) > row.version
  BY <1>0, <1>2, VersionGrows, BoundAssumption DEF Row
<1> QED BY <1>0, <1>1, <1>2, <1>3 DEF Row, Call

LEMMA WriteStep ==
    ASSUME IndInv, NEW c \in Caller, Write(c)
    PROVE  IndInv'
<1> USE IndInvByCall
<1>0. /\ calls[c] \in Call /\ Sound(calls[c]) /\ row \in Row /\ suppressed \in Entry
      /\ forgetting \in BOOLEAN /\ issued \in Nat /\ calls \in [Caller -> Call]
      /\ active \in Caller \cup {NoOne} /\ spent \subseteq Nat
  BY DEF TypeOK
<1>L. Leads(c) /\ At(c, "write")
  BY DEF Write, At, Leads, LeaderSteps
<1>1. CASE Unchanged(c)
  <2>1. /\ row' \in Row /\ row'.version > row.version /\ row'.token > row.token
        /\ row'.token <= issued /\ calls[c].snapshot.token = row.token
    BY <1>1, WriteRenews
  <2>2. /\ calls' = [calls EXCEPT ![c].step = "clear"]
        /\ spent' = spent \cup {calls[c].snapshot.token}
        /\ UNCHANGED <<issued, active, suppressed, forgetting>>
    BY <1>1 DEF Write, Advance, memory
  <2>3. TypeOK'
    BY <1>0, <2>1, <2>2 DEF TypeOK, Call, LeaderSteps, Snapshot
  <2>4. FlightInv'
    BY <1>0, <1>L, <2>2 DEF FlightInv, Leads, LeaderSteps, Call
  <2>5. \A d \in Caller : Sound(calls[d])'
    <3> SUFFICES ASSUME NEW d \in Caller PROVE Sound(calls[d])'
      OBVIOUS
    <3>1. calls[d] \in Call /\ Sound(calls[d])
      BY <1>0
    <3>2. CASE d = c
      <4>1. calls'[d].step = "clear" /\ calls'[d].snapshot = calls[c].snapshot
        BY <1>0, <2>2, <3>2 DEF Call
      <4>2. OfRow(calls[c].snapshot) /\ calls[c].snapshot.token <= issued
        BY <1>0, <1>L DEF At, Sound, Holding
      <4> QED BY <1>0, <2>1, <2>2, <4>1, <4>2 DEF Sound, OfRow, Call, Snapshot, Row
    <3>3. CASE d # c
      <4>1. calls'[d] = calls[d]
        BY <1>0, <2>2, <3>3
      <4>2. calls[d].step # "submit"
        BY <1>L, <3>3 DEF FlightInv, Leads, LeaderSteps
      <4> QED BY <1>0, <2>1, <2>2, <3>1, <4>1, <4>2 DEF Sound, OfRow, Call, Snapshot, Row
    <3> QED BY <3>2, <3>3
  <2>6. EntryInv'
    BY <1>0, <2>1, <2>2 DEF EntryInv, Entry, Row
  <2>7. row'.version >= 1 /\ row'.token <= issued' /\ \A token \in spent' : token < row'.token
    BY <1>0, <2>1, <2>2 DEF Row
  <2> QED BY <2>3, <2>4, <2>5, <2>6, <2>7, IndInvNext
<1>2. CASE ~Unchanged(c)
  <2> DEFINE call == [calls[c] EXCEPT !.step = "reload"]
  <2>1. call \in Call /\ call.step \in LeaderSteps
    BY <1>0 DEF Call, LeaderSteps
  <2>2. Sound(call)
    BY <1>0, <1>L DEF Call, Sound, Holding, At
  <2>3. /\ calls' = [calls EXCEPT ![c] = call]
        /\ UNCHANGED <<row, issued, active, suppressed, forgetting, spent>>
    BY <1>2 DEF Write, Advance, memory
  <2> HIDE DEF call
  <2> QED BY <1>L, <2>1, <2>2, <2>3, QuietStep
<1> QED BY <1>1, <1>2

LEMMA FinishStep ==
    ASSUME IndInv, NEW c \in Caller, Finish(c)
    PROVE  IndInv'
<1> USE IndInvByCall
<1>0. /\ calls \in [Caller -> Call] /\ row \in Row /\ issued \in Nat
      /\ suppressed \in Entry /\ forgetting \in BOOLEAN
  BY DEF TypeOK
<1>1. /\ active' = NoOne
      /\ UNCHANGED <<row, issued, suppressed, forgetting, spent>>
  BY DEF Finish, Releases
<1>2. \A d \in Caller :
        /\ calls'[d] \in Call /\ Sound(calls'[d])
        /\ calls'[d].step \notin LeaderSteps
  <2> SUFFICES ASSUME NEW d \in Caller
               PROVE  /\ calls'[d] \in Call /\ Sound(calls'[d])
                      /\ calls'[d].step \notin LeaderSteps
    OBVIOUS
  <2>1. calls[d] \in Call /\ Sound(calls[d])
    BY <1>0
  <2>2. CASE calls'[d] = calls[d] /\ d # c
    BY <2>1, <2>2 DEF Finish, FlightInv, Leads, At, LeaderSteps
  <2>3. CASE calls'[d] = AfterFlight(d, calls[c].result)
    <3>1. CASE calls'[d] = IdleCall
      BY <3>1, IdleFacts
    <3>2. CASE calls'[d] = [calls[d] EXCEPT !.step = "join", !.leader = NoOne, !.again = TRUE]
      <4>1. calls'[d] \in Call /\ calls'[d].step = "join"
        BY <2>1, <3>2 DEF Call
      <4> QED BY <4>1 DEF Sound, Holding, LeaderSteps
    <3> QED BY <2>3, <3>1, <3>2 DEF AfterFlight
  <2> QED BY <2>2, <2>3 DEF Finish
<1>3. calls' \in [Caller -> Call]
  BY <1>2 DEF Finish
<1>4. \A d \in Caller : Sound(calls[d])'
  BY <1>1, <1>2 DEF Sound, OfRow
<1>5. FlightInv'
  BY <1>1, <1>2 DEF FlightInv, Leads
<1> QED BY <1>0, <1>1, <1>3, <1>4, <1>5, IndInvNext DEF TypeOK, EntryInv

-----------------------------------------------------------------------------
(* The account and the process.                                            *)

\* A content that somebody signs in with or renews elsewhere.
LEMMA SignInRaises ==
    ASSUME IndInv, Reauthenticate \/ Register
    PROVE  /\ row' \in Row /\ row'.exists
           /\ row'.version > row.version /\ row'.token > row.token
           /\ row'.token = issued' /\ issued' = issued + 1 /\ row'.signIn > row.signIn
<1>0. row \in Row /\ issued \in Nat /\ row.token <= issued
  BY DEF IndInv, TypeOK, ContentInv
<1>1. issued' = issued + 1
  BY DEF Reauthenticate, Register
<1>2. PICK t \in 1 .. MaxVersion : t > row.version /\ SignedInAt(t)
  BY DEF Reauthenticate, Register, CanReplaceAt
<1>3. t \in Nat
  BY <1>2, BoundAssumption
<1> QED BY <1>0, <1>1, <1>2, <1>3 DEF SignedInAt, Row

LEMMA RenewalRaises ==
    ASSUME IndInv, RenewElsewhere
    PROVE  /\ row' \in Row /\ row.exists /\ row'.exists
           /\ row'.version > row.version /\ row'.token > row.token
           /\ row'.token = issued' /\ issued' = issued + 1 /\ row'.signIn = row.signIn
<1>0. row \in Row /\ issued \in Nat /\ row.token <= issued
  BY DEF IndInv, TypeOK, ContentInv
<1>1. issued' = issued + 1 /\ row.exists
  BY DEF RenewElsewhere
<1>2. PICK t \in 1 .. MaxVersion :
        row' = [row EXCEPT !.version = NextVersion(t, row.version),
                           !.token = issued + 1, !.due = FALSE]
  BY DEF RenewElsewhere
<1>3. NextVersion(t, row.version) \in Nat /\ NextVersion(t, row.version) > row.version
  BY <1>0, <1>2, VersionGrows, BoundAssumption DEF Row
<1>4. row' = [exists |-> TRUE, version |-> NextVersion(t, row.version),
              token |-> issued + 1, signIn |-> row.signIn, due |-> FALSE]
  BY <1>0, <1>1, <1>2 DEF Row
<1> QED BY <1>0, <1>1, <1>3, <1>4 DEF Row

LEMMA AccountStep ==
    ASSUME IndInv,
           Expire \/ RenewElsewhere \/ Reauthenticate \/ Register
           \/ CommitDeletion \/ ForgetAccount \/ Restart
    PROVE  IndInv'
<1> USE IndInvByCall
<1>0. /\ row \in Row /\ issued \in Nat /\ calls \in [Caller -> Call]
      /\ row.version >= 1 /\ row.token <= issued
      /\ suppressed \in Entry /\ forgetting \in BOOLEAN
      /\ active \in Caller \cup {NoOne} /\ spent \subseteq Nat
  BY DEF TypeOK
<1>1. CASE Reauthenticate \/ Register
  <2>1. UNCHANGED <<memory, calls, spent>>
    BY <1>1 DEF Reauthenticate, Register
  <2> QED BY <1>0, <1>1, <2>1, SignInRaises, RowStep
<1>2. CASE RenewElsewhere
  <2>1. UNCHANGED <<memory, calls, spent>>
    BY <1>2 DEF RenewElsewhere
  <2> QED BY <1>0, <1>2, <2>1, RenewalRaises, RowStep
<1>3. CASE Expire \/ CommitDeletion
  <2>1. /\ row' \in Row /\ row'.version = row.version
        /\ row'.token = row.token /\ row'.signIn = row.signIn
    BY <1>0, <1>3 DEF Expire, CommitDeletion, Row
  <2>2. UNCHANGED <<issued, active, suppressed, calls, spent>> /\ forgetting' \in BOOLEAN
    BY <1>0, <1>3 DEF Expire, CommitDeletion, memory
  <2>3. \A c \in Caller : Sound(calls[c])'
    BY <2>1, <2>2 DEF Sound, OfRow
  <2>4. FlightInv'
    BY <2>2 DEF FlightInv, Leads
  <2> QED BY <1>0, <2>1, <2>2, <2>3, <2>4, IndInvNext DEF TypeOK, EntryInv
<1>4. CASE ForgetAccount
  <2>1. UNCHANGED <<row, issued, active, calls, spent>>
    BY <1>4 DEF ForgetAccount
  <2>2. suppressed' = NoEntry /\ forgetting' = FALSE
    BY <1>4 DEF ForgetAccount
  <2>5. suppressed' \in Entry /\ EntryInv'
    BY <1>0, <2>1, <2>2 DEF NoEntry, Entry, EntryInv, Row
  <2>3. \A c \in Caller : Sound(calls[c])'
    BY <2>1 DEF Sound, OfRow
  <2>4. FlightInv'
    BY <2>1 DEF FlightInv, Leads
  <2> QED BY <1>0, <2>1, <2>2, <2>3, <2>4, <2>5, IndInvNext DEF TypeOK
<1>5. CASE Restart
  <2>1. UNCHANGED <<row, issued, spent>> /\ active' = NoOne
    BY <1>5 DEF Restart
  <2>2. suppressed' = NoEntry /\ forgetting' = FALSE
    BY <1>5 DEF Restart
  <2>6. suppressed' \in Entry /\ EntryInv'
    BY <1>0, <2>1, <2>2 DEF NoEntry, Entry, EntryInv, Row
  <2>3. calls' = [c \in Caller |-> IdleCall]
    BY <1>5 DEF Restart
  <2>4. \A c \in Caller : Sound(calls[c])'
    BY <2>3 DEF IdleCall, Sound, Holding
  <2>5. FlightInv' /\ calls' \in [Caller -> Call]
    BY <2>1, <2>3, IdleFacts DEF FlightInv, Leads
  <2> QED BY <1>0, <2>1, <2>2, <2>4, <2>5, <2>6, IndInvNext DEF TypeOK
<1> QED BY <1>1, <1>2, <1>3, <1>4, <1>5

LEMMA Inductive ==
    ASSUME IndInv, [Next]_vars
    PROVE  IndInv'
<1>1. CASE UNCHANGED vars
  BY <1>1 DEF vars, IndInv, TypeOK, FlightInv, ContentInv, SpentOnce, Leads, At, OfRow
<1>2. ASSUME NEW c \in Caller,
             Resolve(c) \/ ForceRefresh(c) \/ Progress(c) \/ Abandon(c)
      PROVE  IndInv'
  BY <1>2, BeforeFlight, JoinStep, LeaderStep, WriteStep, FinishStep DEF Progress
<1> QED BY <1>1, <1>2, AccountStep DEF Next

-----------------------------------------------------------------------------
(* The theorems.                                                           *)

\* The inductive invariant: one leader to a flight, and versions that tell the
\* contents of the row apart.
THEOREM Invariance == Spec => []IndInv
<1>1. Init => IndInv
  <2> SUFFICES ASSUME Init PROVE IndInv
    OBVIOUS
  <2>1. TypeOK
    BY IdleFacts DEF Init, TypeOK, FirstRow, Row, NoEntry, Entry
  <2>2. FlightInv
    BY IdleFacts DEF Init, FlightInv, Leads
  <2>3. ContentInv /\ SpentOnce
    BY DEF Init, ContentInv, SpentOnce, FirstRow, NoEntry, IdleCall, At
  <2> QED BY <2>1, <2>2, <2>3 DEF IndInv
<1> QED BY <1>1, Inductive, PTL DEF Spec

\* Every state of the resolver, its callers and the row has its type.
THEOREM TypeCorrect == Spec => []TypeOK
<1>1. IndInv => TypeOK
  BY DEF IndInv
<1> QED BY <1>1, Invariance, PTL

\* A token that this resolver has exchanged and replaced is never submitted by
\* it again (refreshCurrent under refreshFlightGroup.Do).
THEOREM TokensSpentOnce == Spec => []SpentOnce
<1>1. IndInv => SpentOnce
  BY DEF IndInv
<1> QED BY <1>1, Invariance, PTL

\* A refusal that is remembered never holds back another sign-in
\* (suppressesRefresh, rememberRefreshFailure).
THEOREM RefusalsOfTheirToken == Spec => []RestsItsOwn
<1>1. IndInv => RestsItsOwn
  BY DEF IndInv, ContentInv, RestsItsOwn, Matches
<1> QED BY <1>1, Invariance, PTL

\* The row of the database, written by refreshes, sign-ins, imports and
\* deletions that interleave, keeps the promises of CredentialRow.
THEOREM RowKept == Spec => RowSpec
<1>1. Init => Stored!Init
  BY DEF Init, Stored!Init, FirstRow
<1>2. IndInv /\ [Next]_vars => [Stored!Next]_row
  <2> SUFFICES ASSUME IndInv, [Next]_vars, row' # row PROVE Stored!Next
    BY DEF Stored!Next
  <2> USE DEF Stored!Next, Stored!Renew, Stored!SignIn, Stored!Newer
  <2>1. ASSUME NEW c \in Caller, Write(c) PROVE Stored!Next
    <3>1. Unchanged(c)
      BY <2>1 DEF Write
    <3> QED BY <2>1, <3>1, WriteRenews
  <2>2. CASE Reauthenticate \/ Register
    BY <2>2, SignInRaises
  <2>3. CASE RenewElsewhere
    BY <2>3, RenewalRaises
  <2>4. CASE Expire \/ CommitDeletion
    BY <2>4 DEF Expire, CommitDeletion, Stored!Expire, Stored!Delete
  <2>5. CASE ForgetAccount \/ Restart \/ UNCHANGED vars
    BY <2>5 DEF ForgetAccount, Restart, vars
  <2>6. ASSUME NEW c \in Caller,
               Resolve(c) \/ ForceRefresh(c) \/ Abandon(c) \/ (Progress(c) /\ ~Write(c))
        PROVE  row' = row
    BY <2>6 DEF Resolve, ForceRefresh, Abandon, Progress, Rest, StopResting, Join,
                Reread, Grant, Refuse, Clear, Reload, Fail, Finish
  <2> QED BY <2>1, <2>2, <2>3, <2>4, <2>5, <2>6 DEF Next, Progress
<1> QED BY <1>1, <1>2, Invariance, PTL DEF Spec, RowSpec, Stored!Spec

-----------------------------------------------------------------------------
(* Those who wait.                                                         *)

LEMMA WaitKept ==
    ASSUME WaitersLed, FlightInv',
           \A c \in Caller : Leads(c) => Leads(c)',
           \A c \in Caller :
               At(c, "wait")' => At(c, "wait") /\ calls'[c].leader = calls[c].leader
    PROVE  WaitersLed'
  BY DEF WaitersLed, FlightInv

\* A caller that joins waits for a leader.
LEMMA JoinLed ==
    ASSUME TypeOK, FlightInv, FlightInv', WaitersLed, NEW c \in Caller, Join(c)
    PROVE  WaitersLed'
<1>1. CASE Free
  <2>1. calls'[c].step = "reread" /\ \A d \in Caller \ {c} : calls'[d] = calls[d]
    BY <1>1 DEF Join, Advance, TypeOK, Call
  <2> QED BY <2>1, WaitKept DEF At, Leads, LeaderSteps
<1>2. CASE ~Free
  <2>1. /\ calls' = [calls EXCEPT ![c].step = "wait", ![c].leader = active]
        /\ active \in Caller /\ Leads(active)
    BY <1>2 DEF Join, Free, FlightInv, TypeOK
  <2>2. /\ calls'[c].step = "wait" /\ calls'[c].leader = active
        /\ \A d \in Caller \ {c} : calls'[d] = calls[d]
    BY <2>1 DEF TypeOK, Call
  <2>3. \A d \in Caller : Leads(d) => d # c /\ Leads(d)'
    BY <2>2 DEF Join, At, Leads, LeaderSteps
  <2>4. \A d \in Caller \ {c} : At(d, "wait")' =>
            At(d, "wait") /\ calls'[d].leader = calls[d].leader
    BY <2>2 DEF At
  <2>5. \A d \in Caller : At(d, "wait")' => (calls[d].leader \in Caller /\ Leads(calls[d].leader))'
    BY <2>1, <2>2, <2>3, <2>4 DEF WaitersLed
  <2> QED BY <2>5 DEF WaitersLed, FlightInv
<1> QED BY <1>1, <1>2

\* All who wait when a leader is done wait for it.
LEMMA FinishLed ==
    ASSUME TypeOK, FlightInv, FlightInv', WaitersLed, NEW c \in Caller, Finish(c)
    PROVE  WaitersLed'
<1>1. \A d \in Caller : At(d, "wait") => calls[d].leader = c
  BY DEF WaitersLed, FlightInv, Finish, At, Leads, LeaderSteps
<1>2. \A d \in Caller : AfterFlight(d, calls[c].result).step \in {"join", "idle"}
  BY DEF AfterFlight, IdleCall, TypeOK, Call
<1>3. \A d \in Caller : ~At(d, "wait")'
  BY <1>1, <1>2 DEF Finish, At
<1> QED BY <1>3 DEF WaitersLed, FlightInv

LEMMA NextLed ==
    ASSUME IndInv, IndInv', WaitersLed, [Next]_vars
    PROVE  WaitersLed'
<1> USE DEF IndInv
<1>1. ASSUME NEW c \in Caller,
             \/ Resolve(c) \/ ForceRefresh(c) \/ Rest(c) \/ StopResting(c) \/ Abandon(c)
      PROVE  WaitersLed'
  <2>1. CASE Resolve(c) \/ ForceRefresh(c) \/ Rest(c) \/ StopResting(c)
    <3>1. /\ calls[c].step \in {"idle", "check"} /\ calls'[c].step \in {"idle", "check", "join"}
          /\ \A d \in Caller \ {c} : calls'[d] = calls[d]
      <4>1. CASE Resolve(c)
        BY <4>1 DEF Resolve, IdleCall, At, TypeOK
      <4>2. CASE ForceRefresh(c)
        BY <4>2 DEF ForceRefresh, IdleCall, At, TypeOK
      <4>3. CASE Rest(c)
        BY <4>3 DEF Rest, IdleCall, At, TypeOK
      <4>4. CASE StopResting(c)
        BY <4>4 DEF StopResting, At, TypeOK, Call
      <4> QED BY <2>1, <4>1, <4>2, <4>3, <4>4
    <3> QED BY <3>1, WaitKept DEF At, Leads, LeaderSteps
  <2>2. CASE Abandon(c)
    BY <2>2, WaitKept DEF Abandon, IdleCall, At, Leads, LeaderSteps, TypeOK, Call
  <2> QED BY <1>1, <2>1, <2>2
<1>2. ASSUME NEW c \in Caller,
             \/ Reread(c) \/ Grant(c) \/ Refuse(c) \/ Write(c) \/ Clear(c) \/ Reload(c)
             \/ Fail(c)
      PROVE  WaitersLed'
  <2>1. /\ calls'[c].step \in LeaderSteps /\ Leads(c)
        /\ \A d \in Caller \ {c} : calls'[d] = calls[d]
    BY <1>2 DEF Reread, Grant, Refuse, Write, Clear, Reload, Fail, Ends, Advance,
                At, Leads, LeaderSteps, TypeOK, Call
  <2> QED BY <2>1, WaitKept DEF At, Leads, LeaderSteps
<1>3. ASSUME NEW c \in Caller, Join(c) \/ Finish(c) PROVE WaitersLed'
  BY <1>3, JoinLed, FinishLed
<1>4. CASE \/ Expire \/ RenewElsewhere \/ Reauthenticate \/ Register
           \/ CommitDeletion \/ ForgetAccount \/ UNCHANGED vars
  <2>1. UNCHANGED <<calls, active>>
    BY <1>4 DEF Expire, RenewElsewhere, Reauthenticate, Register, CommitDeletion,
                ForgetAccount, vars, memory
  <2> QED BY <2>1, WaitKept DEF At, Leads
<1>5. CASE Restart
  BY <1>5 DEF Restart, WaitersLed, IdleCall, At
<1> QED BY <1>1, <1>2, <1>3, <1>4, <1>5 DEF Next, Progress

\* Whether a leader succeeds, fails or is cut off, nobody is left waiting for who
\* has gone (refreshFlightGroup.Do): why calls can return.
THEOREM NobodyWaitsForTheGone == Spec => []WaitersLed
<1>1. Init => WaitersLed
  BY DEF Init, WaitersLed, IdleCall, At
<1> QED BY <1>1, NextLed, Invariance, PTL DEF Spec
=============================================================================
