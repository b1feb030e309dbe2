---------------------------- MODULE RequestAnswer ----------------------------
(***************************************************************************)
(* What the client of an inference request is promised, whatever accounts  *)
(* and models were tried for it: the output it sees is that of one         *)
(* attempt, it ends with at most one terminal event, which is of the same  *)
(* attempt, and Execute returns nil exactly if that event was delivered.   *)
(***************************************************************************)
EXTENDS Integers

VARIABLES
    outcome,    \* of Execute: "none" before the first request
    by,         \* the attempt whose output the client sees, 0 for none
    terminal    \* the terminal event that was delivered

vars == <<outcome, by, terminal>>

Nothing == 0

Init == outcome = "none" /\ by = Nothing /\ terminal = "none"

Accept ==
    /\ outcome # "pending"
    /\ outcome' = "pending"
    /\ by' = Nothing
    /\ terminal' = "none"

\* Some attempt writes its first event.
Show ==
    /\ outcome = "pending" /\ by = Nothing /\ terminal = "none"
    /\ by' \in Nat \ {Nothing}
    /\ UNCHANGED <<outcome, terminal>>

\* The terminal event of the attempt that is seen, or of any other if none is.
End ==
    /\ terminal = "none"
    /\ terminal' \in {"completed", "failed"}
    /\ by' \in Nat \ {Nothing}
    /\ by \in {Nothing, by'}

Deliver == outcome = "pending" /\ End /\ UNCHANGED outcome

Return ==
    /\ outcome = "pending"
    /\ End \/ UNCHANGED <<by, terminal>>
    /\ outcome' = IF terminal' = "none" THEN "error" ELSE "nil"

Next == Accept \/ Show \/ Deliver \/ Return

Spec == Init /\ [][Next]_vars
=============================================================================
