---------------------------- MODULE MessageQueue ----------------------------
(***************************************************************************)
(* What the queue of a chat session promises for every message a user      *)
(* leaves there: it is handed to the provider at most once, only while     *)
(* someone is in charge of it, and never returns to the queue once it was; *)
(* a message that was taken back is never handed over.                     *)
(***************************************************************************)
EXTENDS Integers

CONSTANT Message

VARIABLES
    place,    \* of every message
    given     \* how often it was handed to the provider

vars == <<place, given>>

Place == {"absent", "queued", "taken", "removed", "ended"}

Init ==
    /\ place = [m \in Message |-> "absent"]
    /\ given = [m \in Message |-> 0]

Keeps(m) == place'[m] = place[m] /\ given'[m] = given[m]

Goes(m, from, to) == place[m] = from /\ place'[m] = to /\ given'[m] = given[m]

\* Only a message that was not handed over may be put back.
Returns(m) == Goes(m, "taken", "queued") /\ given[m] = 0

HandedOver(m) ==
    /\ place[m] = "taken" /\ place'[m] = "taken"
    /\ given[m] = 0 /\ given'[m] = 1

Life(m) ==
    \/ Goes(m, "absent", "queued") \/ Goes(m, "queued", "removed")
    \/ Goes(m, "queued", "taken") \/ Goes(m, "taken", "ended")
    \/ Returns(m) \/ HandedOver(m)

\* A step may touch several messages: a restart settles all that were taken.
Next ==
    /\ place' \in [Message -> Place]
    /\ given' \in [Message -> {0, 1}]
    /\ \A m \in Message : Keeps(m) \/ Life(m)

Spec == Init /\ [][Next]_vars
=============================================================================
