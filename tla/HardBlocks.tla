------------------------------ MODULE HardBlocks ------------------------------
(***************************************************************************)
(* Hard blocks: which external event lifts which failure, on which scope   *)
(* (core/accountruntime/block.go), and the observation of a failed call    *)
(* that counts until it is due for a recheck (failure_block.go and         *)
(* block_set.go of the in-memory runtime).                                 *)
(***************************************************************************)
EXTENDS ModelCooldown

BlockRecheckInterval == GuessedCooldown

\* External events that lift a block, one per truth source.
Triggers == {"credentials", "usage", "billing", "status", "catalog", "policy"}

\* The only event that lifts a blocking failure (recoveryForBlock).
RecoveryOf ==
    [credential_rejected |-> "credentials",
     reauthentication_required |-> "credentials",
     quota_exhausted |-> "usage",
     billing_blocked |-> "billing",
     workspace_deactivated |-> "status",
     model_unsupported |-> "catalog",
     region_unsupported |-> "policy",
     permission_denied |-> "policy"]

\* The scopes an event may lift blocks on (definitionForRecovery).
AccountTriggers == Triggers \ {"catalog"}
ModelTriggers == {"usage", "policy", "catalog"}

\* What a blocking failure may say about its scope.
Directives ==
    {d \in [kind : BlockingKinds, scope : {"account", "model"}] :
        RecoveryOf[d.kind] \in
            (IF d.scope = "account" THEN AccountTriggers ELSE ModelTriggers)}

-----------------------------------------------------------------------------
\* An observation of failed calls: the events it waits for, and the time it
\* stops counting whatever happens.
ObservationsOf(triggers) == [set : SUBSET triggers, recheckAt : Nat]
NoObservation == [set |-> {}, recheckAt |-> NoTime]

ActiveAt(observation, t) ==
    IF t < observation.recheckAt THEN observation.set ELSE {}

\* Mutant of Observe: every observation adds its interval to the last one.
ObserveStacked(observation, trigger, t, recheckAt) ==
    [set |-> ActiveAt(observation, t) \cup {trigger},
     recheckAt |-> IF ActiveAt(observation, t) = {} THEN recheckAt
                   ELSE observation.recheckAt + BlockRecheckInterval]

\* A new observation joins one that still counts and only ever delays its
\* recheck; one that is due is replaced.
Observe(observation, trigger, t, recheckAt) ==
    IF ActiveAt(observation, t) = {}
    THEN [set |-> {trigger}, recheckAt |-> recheckAt]
    ELSE [set |-> observation.set \cup {trigger},
          recheckAt |-> Later(observation.recheckAt, recheckAt)]

\* The event happened: stop waiting for it, and drop an empty observation.
Lift(observation, trigger) ==
    IF observation.set \subseteq {trigger} THEN NoObservation
    ELSE [observation EXCEPT !.set = @ \ {trigger}]
=============================================================================
