CONSTANTS
    GuessedCooldown = 2
    FailureWindow = 2
    MaxCooldownHint = 2
    CountCap = 2
    Account = {a1}
    Model = {m1}
    Caller = {c1, c2}
    Outcome <- MCOutcome
    Document <- MCDocument
    Snapshot <- MCSnapshot
    Horizon = 3
    MaxCredential = 1
SPECIFICATION Spec
SYMMETRY MCSymmetry
INVARIANTS
    ObservationsComeDue
    UsageFactsAgree
    DocumentsProjected
PROPERTIES
    AccountObservationsStand
    ModelObservationsStand
