------------------------- MODULE ChatSessionProofs -------------------------
(***************************************************************************)
(* Theorems of ChatSession, for every set of commands, whatever they ask   *)
(* for, and every number of runs, tool calls and crashes.                  *)
(***************************************************************************)
EXTENDS ChatSession, FiniteSetTheorems, TLAPS

(***************************************************************************)
(* The inductive invariant.                                                *)
(***************************************************************************)

\* While the process is not up, nothing is in its memory; a session is being
\* recovered only if it has an active turn and at most one message in hand.
StoppedInv ==
    /\ phase # "up" => /\ mailbox = <<>> /\ current = Rest /\ turn = NoTurn
                       /\ lane = <<>> /\ step = Ready
    /\ phase = "recovering" => session.run # NoRun /\ ~Ambiguous

\* The active turn in memory is that of the row, and it is the last one begun.
TurnInv ==
    /\ phase = "up" => turn.run = session.run
    /\ session.run \in {NoRun, runs}
    /\ control.lastRun <= runs
    /\ turn.item # None => turn.run # NoRun
    /\ current.at = "begun" => turn.run # NoRun /\ ~turn.interrupt
    /\ current.at = "leased" => turn.run = NoRun
    /\ phase = "up" /\ session.state = "running" => ~turn.interrupt
    /\ native.status # "none" => native.run # NoRun

\* A command is accepted as long as the actor is at it, or the process is down.
CommandInv ==
    /\ current.task = None <=> current = Rest
    /\ current.task # None => status[current.task] = "accepted"
    /\ phase # "down" => \A t \in CommandId : status[t] = "accepted" => current.task = t

\* The lane is at its first action, and has a message in hand only at a boundary.
LaneInv ==
    /\ step.at # "ready" => lane # <<>>
    /\ step.item # None <=> step.at # "ready" /\ Head(lane).kind = "tool_boundary"
    /\ step.item # None => step.at \in {"leased", "sent"}
    /\ step.item # None => item[step.item].boundary = Head(lane).boundary

\* Who has a message in hand, and the rows of those messages.
HandInv ==
    /\ current.at = "leased" <=> current.item # None
    /\ turn.item # None => item[turn.item].status = "running"
    /\ step.item # None => item[step.item].status = "running" /\ step.item # turn.item
    /\ current.item # None => item[current.item].status = "leased"
    /\ phase = "up" => \A i \in Active : i \in {turn.item, current.item, step.item}

\* A message is being sent into a boundary as long as the lane waits for it.
SteerInv ==
    /\ \A b \in Boundary, i \in Item :
         Waiting(Steer(b, i)) \/ current.task = Steer(b, i) =>
             step.at = "sent" /\ step.item = i /\ Head(lane) = AtBoundary(b)
    /\ \A b \in Boundary :
         step.at = "sent" /\ Head(lane) = AtBoundary(b) =>
             \/ Waiting(Steer(b, step.item)) \/ current.task = Steer(b, step.item)
             \/ status[Steer(b, step.item)] \in {"completed", "failed"}

\* The messages that were not handed over yet.
GivenInv ==
    /\ \A i \in Item : delivered[i] \in {0, 1}
    /\ \A i \in Item :
         item[i].status \in {"absent", "queued", "removed", "leased"} => delivered[i] = 0
    /\ step.at = "leased" => delivered[step.item] = 0
    /\ \A b \in Boundary, i \in Item :
         Waiting(Steer(b, i)) /\ status[Steer(b, i)] = "none" => delivered[i] = 0
    /\ \A b \in Boundary, i \in Item :
         current = [task |-> Steer(b, i), at |-> "accepted", item |-> None] => delivered[i] = 0
    /\ current.at = "begun" /\ turn.item # None => delivered[turn.item] = 0

\* A message is not there before its command is executed.
AddedInv ==
    \A i \in Item :
        status[User(i)] = "none" \/ (current.task = User(i) /\ current.at = "accepted") =>
            item[i].status = "absent"

IInv ==
    /\ TypeOK /\ StoppedInv /\ TurnInv /\ CommandInv /\ AddedInv
    /\ LaneInv /\ HandInv /\ SteerInv /\ GivenInv
    /\ RunsEndOnce /\ PausedUnlessCompleted /\ BoundaryOnce

-----------------------------------------------------------------------------
(* Tasks, actions and messages.                                            *)

LEMMA ItemFacts == None \notin Item /\ Cardinality(Item) \in Nat
  <1>1. Item \subseteq Command
    BY DEF Item
  <1>2. IsFiniteSet(Item)
    BY <1>1, CommandAssumption, FS_Subset
  <1> QED
    BY <1>1, <1>2, FS_CardinalityType, NoneAssumption

LEMMA TaskTypes ==
    /\ None \notin CommandId
    /\ CommandId \subseteq Task /\ Mark \in Task
    /\ \A c \in Command : User(c) \in CommandId
    /\ \A i \in Item : User(i) \in CommandId
    /\ \A r \in Run : FollowUp(r) \in CommandId
    /\ \A b \in Boundary, i \in Item : Steer(b, i) \in CommandId
    /\ \A r \in Run, how \in Ending : Finish(r, how) \in Task
    /\ \A r \in Run : AfterTurn(r) \in Action
    /\ \A b \in Boundary : AtBoundary(b) \in Action
  BY NoneAssumption DEF CommandId, Task, Action, Item

\* Tasks of different kinds differ, and an intervention names its cause.
LEMMA SteersDiffer ==
    ASSUME NEW b \in Boundary, NEW i \in Item
    PROVE  /\ \A c \in Command : User(c) # Steer(b, i)
           /\ \A r \in Run : FollowUp(r) # Steer(b, i)
           /\ \A r \in Run, how \in Ending : Finish(r, how) # Steer(b, i)
           /\ Mark # Steer(b, i) /\ None # Steer(b, i)
           /\ \A d \in Boundary, j \in Item : Steer(d, j) = Steer(b, i) => d = b /\ j = i
  <1>1. None # Steer(b, i)
    BY TaskTypes
  <1>2. /\ Steer(b, i).kind = "steer" /\ Steer(b, i).boundary = b /\ Steer(b, i).item = i
        /\ Mark.kind = "mark"
        /\ \A c \in Command : User(c).kind = "user"
        /\ \A r \in Run : FollowUp(r).kind = "follow_up"
        /\ \A r \in Run, how \in Ending : Finish(r, how).kind = "finish"
        /\ \A d \in Boundary, j \in Item :
             Steer(d, j).boundary = d /\ Steer(d, j).item = j
    BY DEF Steer, User, FollowUp, Finish, Mark
  <1> QED
    BY <1>1, <1>2

LEMMA ActionsDiffer ==
    /\ \A b \in Boundary : AtBoundary(b).kind = "tool_boundary" /\ AtBoundary(b).boundary = b
    /\ \A r \in Run : AfterTurn(r).kind = "turn_terminal"
    /\ \A a \in Action : a.kind = "tool_boundary" => \E b \in Boundary : a = AtBoundary(b)
  BY DEF AtBoundary, AfterTurn, Action

\* Rows that change their status.
LEMMA RowStatus ==
    ASSUME NEW row \in ItemRow, NEW s \in ItemStatus
    PROVE  /\ [row EXCEPT !.status = s] \in ItemRow
           /\ [row EXCEPT !.status = s].status = s
           /\ [row EXCEPT !.status = s].boundary = row.boundary
  BY DEF ItemRow

LEMMA RowUpdate ==
    ASSUME item \in [Item -> ItemRow], NEW i, NEW s \in ItemStatus,
           item' = [item EXCEPT ![i].status = s]
    PROVE  /\ item' \in [Item -> ItemRow]
           /\ \A j \in Item : /\ item'[j].status = IF j = i THEN s ELSE item[j].status
                              /\ item'[j].boundary = item[j].boundary
  <1>1. CASE i \in Item
    <2>1. \A j \in Item : item'[j] = IF j = i THEN [item[j] EXCEPT !.status = s] ELSE item[j]
      BY <1>1
    <2>2. item' = [j \in Item |-> item'[j]]
      BY <1>1
    <2>3. ASSUME NEW j \in Item
          PROVE  /\ item'[j] \in ItemRow
                 /\ item'[j].status = IF j = i THEN s ELSE item[j].status
                 /\ item'[j].boundary = item[j].boundary
      BY <2>1, RowStatus
    <2> QED
      BY <2>2, <2>3
  <1>2. CASE i \notin Item
    BY <1>2
  <1> QED
    BY <1>1, <1>2

\* What a command that is executed may rely on.
LEMMA ExecutesFacts ==
    ASSUME NEW t \in CommandId, NEW type, Executes(t, type)
    PROVE  /\ phase = "up" /\ current.task = t /\ current.at = "accepted"
           /\ type \in {"turn.submit", "slash.execute", "queue.dispatch"} => turn.run = NoRun
           /\ type = "turn.interrupt" => turn.run # NoRun
           /\ type = "queue.add" => t.command \in Item /\ t = User(t.command)
           /\ type \in {"queue.remove", "queue.move", "queue.dispatch"} =>
                Request[t.command].item \in Item /\ Queued(Request[t.command].item)
           /\ type = "follow_up" /\ ~Superseded(t.run) => turn.run = NoRun
           /\ type = "steer" =>
                /\ t.boundary \in Boundary /\ t.item \in Item
                /\ t = Steer(t.boundary, t.item) /\ ~BoundaryPassed(t.boundary)
  <1>1. /\ phase = "up" /\ current.task = t /\ current.at = "accepted"
        /\ TypeOf(t) = type /\ ~Refused(t)
    BY DEF Executes, At
  <1>2. CASE \E c \in Command : t = User(c)
    <2>1. PICK c \in Command : t = User(c)
      BY <1>2
    <2>2. t.kind = "user" /\ t.command = c /\ type = Request[c].type /\ type \in Type
      BY <1>1, <2>1, RequestAssumption DEF TypeOf, User
    <2>3. type \in {"queue.remove", "queue.move", "queue.dispatch"} => Request[c].item \in Item
      BY <2>2, RequestAssumption
    <2> QED
      BY <1>1, <2>1, <2>2, <2>3 DEF Refused, Busy, Item, Type
  <1>3. CASE \E r \in Run : t = FollowUp(r)
    <2>1. t.kind = "follow_up" /\ type = "follow_up"
      BY <1>1, <1>3 DEF TypeOf, FollowUp
    <2> QED
      BY <1>1, <2>1 DEF Refused, Busy
  <1>4. CASE \E b \in Boundary, i \in Item : t = Steer(b, i)
    <2>1. PICK b \in Boundary, i \in Item : t = Steer(b, i)
      BY <1>4
    <2>2. t.kind = "steer" /\ t.boundary = b /\ t.item = i /\ type = "steer"
      BY <1>1, <2>1 DEF TypeOf, Steer
    <2> QED
      BY <1>1, <2>1, <2>2 DEF Refused
  <1> QED
    BY <1>2, <1>3, <1>4 DEF CommandId

\* What waits after a task was added, or taken from the front.
LEMMA WaitingAppend ==
    ASSUME mailbox \in Seq(Task), NEW e \in Task, mailbox' = Append(mailbox, e)
    PROVE  \A t : Waiting(t)' <=> Waiting(t) \/ t = e
  <1>1. /\ DOMAIN mailbox' = DOMAIN mailbox \cup {Len(mailbox) + 1}
        /\ \A k \in DOMAIN mailbox : mailbox'[k] = mailbox[k]
        /\ mailbox'[Len(mailbox) + 1] = e
    OBVIOUS
  <1> QED
    BY <1>1 DEF Waiting

LEMMA WaitingTail ==
    ASSUME mailbox \in Seq(Task), mailbox # <<>>, mailbox' = Tail(mailbox)
    PROVE  /\ Waiting(Head(mailbox))
           /\ \A t : Waiting(t)' => Waiting(t)
           /\ \A t : Waiting(t) => Waiting(t)' \/ t = Head(mailbox)
  <1>1. /\ Len(mailbox) \in Nat \ {0} /\ DOMAIN mailbox = 1 .. Len(mailbox)
        /\ DOMAIN mailbox' = 1 .. Len(mailbox) - 1
        /\ Head(mailbox) = mailbox[1]
        /\ \A k \in 1 .. Len(mailbox) - 1 : mailbox'[k] = mailbox[k + 1]
    OBVIOUS
  <1>2. \A k \in 1 .. Len(mailbox) : k = 1 \/ k - 1 \in 1 .. Len(mailbox) - 1
    BY <1>1
  <1>3. \A k \in 1 .. Len(mailbox) : k = 1 \/ mailbox'[k - 1] = mailbox[k]
    BY <1>1, <1>2
  <1>4. ASSUME NEW t, Waiting(t)' PROVE Waiting(t)
    <2>1. PICK k \in 1 .. Len(mailbox) - 1 : mailbox'[k] = t
      BY <1>1, <1>4 DEF Waiting
    <2>2. k + 1 \in 1 .. Len(mailbox) /\ mailbox[k + 1] = t
      BY <1>1, <2>1
    <2> QED
      BY <1>1, <2>2 DEF Waiting
  <1>5. ASSUME NEW t, Waiting(t), t # Head(mailbox) PROVE Waiting(t)'
    <2>1. PICK k \in 1 .. Len(mailbox) : mailbox[k] = t
      BY <1>1, <1>5 DEF Waiting
    <2>2. k - 1 \in 1 .. Len(mailbox) - 1 /\ mailbox'[k - 1] = t
      BY <1>1, <1>2, <1>3, <1>5, <2>1
    <2> QED
      BY <1>1, <2>2 DEF Waiting
  <1>6. Waiting(Head(mailbox))
    BY <1>1 DEF Waiting
  <1> QED
    BY <1>4, <1>5, <1>6

LEMMA WaitingSame ==
    /\ UNCHANGED mailbox => \A t : Waiting(t)' <=> Waiting(t)
    /\ mailbox = <<>> => \A t : ~Waiting(t)
    /\ mailbox' = <<>> => \A t : ~Waiting(t)'
  BY DEF Waiting

LEMMA LaneGrows ==
    ASSUME lane \in Seq(Action), NEW a \in Action
    PROVE  /\ Append(lane, a) \in Seq(Action) /\ Append(lane, a) # <<>>
           /\ lane # <<>> => Head(Append(lane, a)) = Head(lane)
  <1>1. /\ Append(lane, a) \in Seq(Action)
        /\ Len(Append(lane, a)) = Len(lane) + 1 /\ Len(lane) \in Nat
        /\ \A k \in 1 .. Len(lane) : Append(lane, a)[k] = lane[k]
    OBVIOUS
  <1>2. lane # <<>> => Head(lane) = lane[1] /\ 1 \in 1 .. Len(lane)
    OBVIOUS
  <1>3. Append(lane, a) # <<>> /\ Head(Append(lane, a)) = Append(lane, a)[1]
    BY <1>1
  <1> QED
    BY <1>1, <1>2, <1>3

USE DEF rows, actor, lanes, provider, NoRun, NoTurn, Rest, Ready, IdleSession, SessionRow,
        ControlRow, ItemRow, CurrentTask, ActiveTurn, LaneStep

\* Beginning a turn.
Begun(i) ==
    /\ runs' = runs + 1 /\ runs' \in Run
    /\ session' = [state |-> "starting", run |-> runs', interrupt |-> FALSE]
    /\ control' \in ControlRow /\ control'.lastRun = control.lastRun
    /\ turn' = [run |-> runs', item |-> i, interrupt |-> FALSE]
    /\ current' = [task |-> current.task, at |-> "begun", item |-> None]

LEMMA BeginFacts ==
    ASSUME TypeOK, NEW resumes \in BOOLEAN, NEW i, BeginTurn(resumes, i)
    PROVE  Begun(i)
  <1>1. runs' = runs + 1 /\ runs' \in Run
    <2>1. runs < MaxRun /\ runs' = runs + 1
      BY DEF BeginTurn
    <2>2. runs \in 0 .. MaxRun
      BY DEF TypeOK
    <2> QED
      BY <2>1, <2>2, BoundAssumption DEF Run
  <1>2. control' \in ControlRow /\ control'.lastRun = control.lastRun
    BY DEF BeginTurn, TypeOK
  <1>3. current' = [task |-> current.task, at |-> "begun", item |-> None]
    BY DEF BeginTurn, TypeOK
  <1> QED
    BY <1>1, <1>2, <1>3 DEF BeginTurn, Begun

\* The terminal event of the active run.
LEMMA EndFacts ==
    ASSUME TypeOK, RunsEndOnce, session.run = runs, runs \in Run, NEW how \in Terminals,
           ends' = [ends EXCEPT ![runs] = Append(@, how)], session'.run = NoRun, UNCHANGED runs
    PROVE  ends' \in [Run -> Seq(Terminals)] /\ ends'[runs] = <<how>> /\ RunsEndOnce'
  <1>1. ends[runs] = <<>>
    BY DEF TypeOK, RunsEndOnce
  <1>2. Append(ends[runs], how) \in Seq(Terminals) /\ Append(ends[runs], how) = <<how>>
    BY <1>1 DEF TypeOK
  <1>3. ends' \in [Run -> Seq(Terminals)] /\ ends'[runs] = <<how>>
    BY <1>2 DEF TypeOK
  <1>4. ASSUME NEW r \in Run
        PROVE  Len(ends'[r]) = IF r <= runs' /\ r # session'.run THEN 1 ELSE 0
    <2>1. r # NoRun /\ runs <= runs
      BY BoundAssumption DEF Run
    <2>2. CASE r = runs
      BY <1>3, <2>1, <2>2
    <2>3. CASE r # runs
      <3>1. ends'[r] = ends[r]
        BY <2>3 DEF TypeOK
      <3> QED
        BY <2>1, <2>3, <3>1 DEF RunsEndOnce
    <2> QED
      BY <2>2, <2>3
  <1> QED
    BY <1>3, <1>4 DEF RunsEndOnce

\* What the end of the active turn leaves (settleTurn).
Settled ==
    /\ session.run = turn.run /\ turn.run = runs /\ runs \in Run
    /\ session' = IdleSession /\ turn' = NoTurn
    /\ control' \in ControlRow /\ control'.lastRun = runs
    /\ ends' \in [Run -> Seq(Terminals)]
    /\ lane' \in Seq(Action) /\ (lane # <<>> => lane' # <<>> /\ Head(lane') = Head(lane))
    /\ item' \in [Item -> ItemRow]
    /\ \A j \in Item : item'[j].boundary = item[j].boundary /\ (j # turn.item => item'[j] = item[j])
    /\ \A j \in Item : j = turn.item => item'[j].status \in {"completed", "failed"}
    /\ RunsEndOnce' /\ PausedUnlessCompleted'

LEMMA SettleFacts ==
    ASSUME IInv, phase = "up", turn.run # NoRun,
           NEW how \in Ending, Settle(turn.run, how), UNCHANGED runs
    PROVE  Settled
  <1>1. session.run = turn.run /\ turn.run = runs /\ runs \in Run
    BY DEF IInv, TypeOK, TurnInv, Run
  <1>2. /\ session' = IdleSession /\ turn' = NoTurn
        /\ control' = [paused |-> Pauses(runs, how), lastRun |-> runs]
        /\ ends' = [ends EXCEPT ![runs] = Append(@, how)]
    BY <1>1 DEF Settle, Rested
  <1>3. Pauses(runs, how) \in BOOLEAN /\ (~Pauses(runs, how) => how = "completed")
    BY DEF Pauses, OutcomeUnknown, IInv, TypeOK
  <1>4. control' \in ControlRow
    BY <1>1, <1>2, <1>3
  <1>5. session'.run = NoRun /\ how \in Terminals
    BY <1>2 DEF Terminals
  <1>6. ends' \in [Run -> Seq(Terminals)] /\ ends'[runs] = <<how>> /\ RunsEndOnce'
    BY <1>1, <1>2, <1>5, EndFacts DEF IInv
  <1>7. PausedUnlessCompleted'
    BY <1>1, <1>2, <1>3, <1>6 DEF PausedUnlessCompleted
  <1>8. AfterTurn(runs) \in Action /\ lane \in Seq(Action)
    BY <1>1, TaskTypes DEF IInv, TypeOK
  <1>9. lane' \in Seq(Action) /\ (lane # <<>> => lane' # <<>> /\ Head(lane') = Head(lane))
    BY <1>1, <1>8, LaneGrows DEF Settle
  <1>10. /\ item' \in [Item -> ItemRow]
         /\ \A j \in Item : item'[j].boundary = item[j].boundary /\ (j # turn.item => item'[j] = item[j])
         /\ \A j \in Item : j = turn.item => item'[j].status \in {"completed", "failed"}
    <2>1. CASE turn.item = None
      BY <2>1, ItemFacts DEF Settle, IInv, TypeOK
    <2>2. CASE turn.item # None
      <3> DEFINE result == IF how = "completed" THEN "completed" ELSE "failed"
      <3>1. result \in {"completed", "failed"} /\ result \in ItemStatus
        BY DEF ItemStatus
      <3>2. item' = [item EXCEPT ![turn.item].status = result]
        BY <2>2 DEF Settle
      <3> HIDE DEF result
      <3>3. item \in [Item -> ItemRow]
        BY DEF IInv, TypeOK
      <3>4. \A j \in Item : j # turn.item => item'[j] = item[j]
        BY <3>2, <3>3
      <3>5. /\ item' \in [Item -> ItemRow]
            /\ \A j \in Item : /\ item'[j].status = IF j = turn.item THEN result ELSE item[j].status
                               /\ item'[j].boundary = item[j].boundary
        BY <3>1, <3>2, <3>3, RowUpdate
      <3> QED
        BY <3>1, <3>4, <3>5
    <2> QED
      BY <2>1, <2>2
  <1> QED
    BY <1>1, <1>2, <1>4, <1>6, <1>7, <1>9, <1>10 DEF Settled

\* Messages that are not there stay away, unless their command is executed.
LEMMA AddedKept ==
    ASSUME AddedInv,
           \A i \in Item : item[i].status = "absent" => item'[i].status = "absent",
           \A x \in CommandId : status'[x] = "none" => status[x] = "none",
           current' = current \/ current'.at # "accepted"
    PROVE  AddedInv'
  BY TaskTypes DEF AddedInv

\* The changes of status that a step may make, and whether it may lease.
RowsLive(leases) ==
    \A i \in Item :
        \/ item'[i].status = item[i].status
        \/ item[i].status = "absent" /\ item'[i].status = "queued"
        \/ item[i].status = "queued" /\ item'[i].status \in {"removed", "running"} \cup leases
        \/ item[i].status = "leased" /\ item'[i].status \in {"queued", "running", "failed"}
        \/ item[i].status = "running" /\ item'[i].status \in {"completed", "failed"}

-----------------------------------------------------------------------------
(* Every action preserves the invariant; those that touch the queue's rows *)
(* change them in the order of a message's life.                           *)


LEMMA SendPreserves ==
    ASSUME IInv, NEW c \in Command, Send(c)
    PROVE  IInv'
  <1> USE DEF Send, User
  <1>1. UNCHANGED <<session, control, item, status, runs, ends, tool, native, phase,
                    current, turn, lane, step, crashes, delivered>>
    OBVIOUS
  <1>2. \A x : Waiting(x)' <=> Waiting(x) \/ x = User(c)
    BY WaitingAppend, TaskTypes DEF IInv, TypeOK
  <1>3. TypeOK'
    <2>1. mailbox' \in Seq(Task)
      BY TaskTypes DEF IInv, TypeOK
    <2> HIDE DEF SessionRow, ControlRow, ItemRow, CurrentTask, ActiveTurn, LaneStep
    <2> QED
      BY <2>1, <1>1 DEF IInv, TypeOK
  <1>4. StoppedInv'
    BY DEF IInv, StoppedInv, TypeOK, Ambiguous, Active
  <1>5. SteerInv'
    BY <1>2, SteersDiffer, ActionsDiffer DEF IInv, SteerInv, TypeOK, StoppedInv,
           CommandInv, LaneInv
  <1>6. GivenInv'
    BY <1>2, SteersDiffer, TaskTypes DEF IInv, GivenInv, TypeOK, HandInv, SteerInv,
           CommandInv, LaneInv
  <1>7. (TurnInv /\ CommandInv /\ AddedInv /\ LaneInv /\ HandInv /\ RunsEndOnce /\
         PausedUnlessCompleted /\ BoundaryOnce)'
    BY <1>1 DEF IInv, TurnInv, CommandInv, AddedInv, LaneInv, HandInv, RunsEndOnce,
           PausedUnlessCompleted, BoundaryOnce, Active
  <1> QED
    BY <1>3, <1>4, <1>5, <1>6, <1>7 DEF IInv

LEMMA AcceptPreserves ==
    ASSUME IInv, NEW t \in CommandId, Accept(t)
    PROVE  IInv'
  <1> USE DEF Accept, Known, NextTask
  <1>1. UNCHANGED <<session, control, item, runs, ends, tool, native, phase, turn,
                    lane, step, crashes, delivered>>
    OBVIOUS
  <1>2. /\ \A x : Waiting(x)' => Waiting(x)
        /\ \A x : Waiting(x) => Waiting(x)' \/ x = t
        /\ Waiting(t)
    BY WaitingTail DEF IInv, TypeOK
  <1>3. TypeOK'
    <2>1. status' \in [CommandId -> CommandStatus]
      BY DEF IInv, TypeOK, CommandStatus
    <2>2. mailbox' \in Seq(Task)
      BY TaskTypes DEF IInv, TypeOK
    <2>3. current' \in CurrentTask
      BY TaskTypes, ItemFacts DEF IInv, TypeOK
    <2> HIDE DEF SessionRow, ControlRow, ItemRow, CurrentTask, ActiveTurn, LaneStep
    <2> QED
      BY <2>1, <2>2, <2>3, <1>1 DEF IInv, TypeOK
  <1>4. StoppedInv'
    BY DEF IInv, StoppedInv, TypeOK, Ambiguous, Active
  <1>5. TurnInv'
    BY BoundAssumption DEF IInv, TurnInv, TypeOK, StoppedInv, Run
  <1>6. CommandInv'
    BY TaskTypes DEF IInv, CommandInv, TypeOK, StoppedInv
  <1>7. AddedInv'
    BY TaskTypes DEF IInv, AddedInv, TypeOK, CommandInv
  <1>8. HandInv'
    BY ItemFacts DEF IInv, HandInv, TypeOK, StoppedInv, LaneInv, Active
  <1>9. SteerInv'
    BY <1>2, SteersDiffer, ActionsDiffer DEF IInv, SteerInv, TypeOK, StoppedInv,
           CommandInv, LaneInv
  <1>10. GivenInv'
    BY <1>2, SteersDiffer, TaskTypes DEF IInv, GivenInv, TypeOK, HandInv, SteerInv,
           CommandInv, LaneInv
  <1>11. (LaneInv /\ RunsEndOnce /\ PausedUnlessCompleted /\ BoundaryOnce)'
    BY <1>1 DEF IInv, LaneInv, RunsEndOnce, PausedUnlessCompleted, BoundaryOnce
  <1> QED
    BY <1>3, <1>4, <1>5, <1>6, <1>7, <1>8, <1>9, <1>10, <1>11
       DEF IInv

LEMMA AnswerDuplicatePreserves ==
    ASSUME IInv, NEW t \in CommandId, AnswerDuplicate(t)
    PROVE  IInv'
  <1> USE DEF AnswerDuplicate, Known, NextTask
  <1>1. UNCHANGED <<session, control, item, status, runs, ends, tool, native, phase,
                    current, turn, lane, step, crashes, delivered>>
    OBVIOUS
  <1>2. /\ \A x : Waiting(x)' => Waiting(x)
        /\ \A x : Waiting(x) => Waiting(x)' \/ x = t
        /\ Waiting(t)
    BY WaitingTail DEF IInv, TypeOK
  <1>3. TypeOK'
    <2>1. mailbox' \in Seq(Task)
      BY TaskTypes DEF IInv, TypeOK
    <2> HIDE DEF SessionRow, ControlRow, ItemRow, CurrentTask, ActiveTurn, LaneStep
    <2> QED
      BY <2>1, <1>1 DEF IInv, TypeOK
  <1>4. StoppedInv'
    BY DEF IInv, StoppedInv, TypeOK, Ambiguous, Active
  <1>5. SteerInv'
    BY <1>2, SteersDiffer, ActionsDiffer, TaskTypes DEF IInv, SteerInv, TypeOK,
           StoppedInv, CommandInv, LaneInv, CommandStatus
  <1>6. GivenInv'
    BY <1>2, SteersDiffer, TaskTypes DEF IInv, GivenInv, TypeOK, HandInv, SteerInv,
           CommandInv, LaneInv
  <1>7. (TurnInv /\ CommandInv /\ AddedInv /\ LaneInv /\ HandInv /\ RunsEndOnce /\
         PausedUnlessCompleted /\ BoundaryOnce)'
    BY <1>1 DEF IInv, TurnInv, CommandInv, AddedInv, LaneInv, HandInv, RunsEndOnce,
           PausedUnlessCompleted, BoundaryOnce, Active
  <1> QED
    BY <1>3, <1>4, <1>5, <1>6, <1>7 DEF IInv

LEMMA RefusePreserves ==
    ASSUME IInv, NEW t \in CommandId, Refuse(t)
    PROVE  IInv'
  <1> USE DEF At, FailCommand, Refuse
  <1>1. UNCHANGED <<session, control, item, runs, ends, tool, native, phase, mailbox,
                    turn, lane, step, crashes, delivered>>
    OBVIOUS
  <1>2. \A x : Waiting(x)' <=> Waiting(x)
    BY WaitingSame
  <1>3. TypeOK'
    <2>1. status' \in [CommandId -> CommandStatus]
      BY DEF IInv, TypeOK, CommandStatus
    <2>2. current' \in CurrentTask
      BY TaskTypes, ItemFacts DEF IInv, TypeOK
    <2> HIDE DEF SessionRow, ControlRow, ItemRow, CurrentTask, ActiveTurn, LaneStep
    <2> QED
      BY <2>1, <2>2, <1>1 DEF IInv, TypeOK
  <1>4. StoppedInv'
    BY DEF IInv, StoppedInv, TypeOK, Ambiguous, Active
  <1>5. TurnInv'
    BY BoundAssumption DEF IInv, TurnInv, TypeOK, StoppedInv, Run
  <1>6. CommandInv'
    BY TaskTypes DEF IInv, CommandInv, TypeOK, StoppedInv
  <1>7. AddedInv'
    BY TaskTypes DEF IInv, AddedInv, TypeOK, CommandInv
  <1>8. HandInv'
    BY ItemFacts DEF IInv, HandInv, TypeOK, StoppedInv, LaneInv, Active
  <1>9. SteerInv'
    BY <1>2, SteersDiffer, ActionsDiffer DEF IInv, SteerInv, TypeOK, StoppedInv,
           CommandInv, LaneInv
  <1>10. GivenInv'
    BY <1>2, SteersDiffer, TaskTypes DEF IInv, GivenInv, TypeOK, HandInv, SteerInv,
           CommandInv, LaneInv
  <1>11. (LaneInv /\ RunsEndOnce /\ PausedUnlessCompleted /\ BoundaryOnce)'
    BY <1>1 DEF IInv, LaneInv, RunsEndOnce, PausedUnlessCompleted, BoundaryOnce
  <1> QED
    BY <1>3, <1>4, <1>5, <1>6, <1>7, <1>8, <1>9, <1>10, <1>11
       DEF IInv

LEMMA CompleteCommandPreserves ==
    ASSUME IInv, NEW t \in CommandId, CompleteCommand(t)
    PROVE  IInv'
  <1> USE DEF At, CompleteCommand
  <1>1. UNCHANGED <<session, control, item, runs, ends, tool, native, phase, mailbox,
                    turn, lane, step, crashes, delivered>>
    OBVIOUS
  <1>2. \A x : Waiting(x)' <=> Waiting(x)
    BY WaitingSame
  <1>3. TypeOK'
    <2>1. status' \in [CommandId -> CommandStatus]
      BY DEF IInv, TypeOK, CommandStatus
    <2>2. current' \in CurrentTask
      BY TaskTypes, ItemFacts DEF IInv, TypeOK
    <2> HIDE DEF SessionRow, ControlRow, ItemRow, CurrentTask, ActiveTurn, LaneStep
    <2> QED
      BY <2>1, <2>2, <1>1 DEF IInv, TypeOK
  <1>4. StoppedInv'
    BY DEF IInv, StoppedInv, TypeOK, Ambiguous, Active
  <1>5. TurnInv'
    BY BoundAssumption DEF IInv, TurnInv, TypeOK, StoppedInv, Run
  <1>6. CommandInv'
    BY TaskTypes DEF IInv, CommandInv, TypeOK, StoppedInv
  <1>7. AddedInv'
    BY TaskTypes DEF IInv, AddedInv, TypeOK, CommandInv
  <1>8. HandInv'
    BY ItemFacts DEF IInv, HandInv, TypeOK, StoppedInv, LaneInv, Active
  <1>9. SteerInv'
    BY <1>2, SteersDiffer, ActionsDiffer DEF IInv, SteerInv, TypeOK, StoppedInv,
           CommandInv, LaneInv
  <1>10. GivenInv'
    BY <1>2, SteersDiffer, TaskTypes DEF IInv, GivenInv, TypeOK, HandInv, SteerInv,
           CommandInv, LaneInv
  <1>11. (LaneInv /\ RunsEndOnce /\ PausedUnlessCompleted /\ BoundaryOnce)'
    BY <1>1 DEF IInv, LaneInv, RunsEndOnce, PausedUnlessCompleted, BoundaryOnce
  <1> QED
    BY <1>3, <1>4, <1>5, <1>6, <1>7, <1>8, <1>9, <1>10, <1>11
       DEF IInv

LEMMA SubmitPreserves ==
    ASSUME IInv, NEW t \in CommandId, Submit(t)
    PROVE  IInv'
  <1> USE DEF Begun
  <1>1. /\ phase = "up" /\ current.task = t /\ current.at = "accepted"
        /\ turn.run = NoRun
    BY ExecutesFacts DEF Submit
  <1>2. turn.item = None /\ session.run = NoRun
    BY <1>1 DEF IInv, TurnInv
  <1>3. Begun(None)
    BY BeginFacts DEF Submit, IInv
  <1>4. UNCHANGED <<item, status, ends, tool, native, phase, mailbox, lane, step,
                    crashes, delivered>>
    BY DEF Submit
  <1>5. \A x : Waiting(x)' <=> Waiting(x)
    BY <1>1, <1>2, <1>3, <1>4, WaitingSame
  <1>6. TypeOK'
    <2>1. session' \in SessionRow
      BY <1>1, <1>2, <1>3, <1>4, BoundAssumption DEF IInv, TypeOK, Run
    <2>2. control' \in ControlRow
      BY <1>1, <1>2, <1>3, <1>4 DEF IInv, TypeOK, Run
    <2>3. runs' \in 0 .. MaxRun
      BY <1>1, <1>2, <1>3, <1>4, BoundAssumption DEF IInv, TypeOK, Run
    <2>4. current' \in CurrentTask
      BY <1>1, <1>2, <1>3, <1>4, TaskTypes, ItemFacts DEF IInv, TypeOK
    <2>5. turn' \in ActiveTurn
      BY <1>1, <1>2, <1>3, <1>4, ItemFacts, BoundAssumption DEF IInv, TypeOK, Run
    <2> HIDE DEF SessionRow, ControlRow, ItemRow, CurrentTask, ActiveTurn, LaneStep
    <2> QED
      BY <2>1, <2>2, <2>3, <2>4, <2>5, <1>4 DEF IInv, TypeOK
  <1>7. StoppedInv'
    BY <1>1, <1>2, <1>3, <1>4 DEF IInv, StoppedInv, TypeOK, Ambiguous, Active
  <1>8. TurnInv'
    BY <1>1, <1>2, <1>3, <1>4, BoundAssumption DEF IInv, TurnInv, TypeOK, StoppedInv,
           Run
  <1>9. CommandInv'
    BY <1>1, <1>2, <1>3, <1>4, TaskTypes DEF IInv, CommandInv, TypeOK, StoppedInv
  <1>10. AddedInv'
    BY <1>1, <1>2, <1>3, <1>4, TaskTypes DEF IInv, AddedInv, TypeOK, CommandInv
  <1>11. HandInv'
    BY <1>1, <1>2, <1>3, <1>4, ItemFacts DEF IInv, HandInv, TypeOK, StoppedInv,
           LaneInv, Active
  <1>12. SteerInv'
    BY <1>1, <1>2, <1>3, <1>4, <1>5, SteersDiffer, ActionsDiffer
       DEF IInv, SteerInv, TypeOK, StoppedInv, CommandInv, LaneInv
  <1>13. GivenInv'
    BY <1>1, <1>2, <1>3, <1>4, <1>5, SteersDiffer, TaskTypes DEF IInv, GivenInv,
           TypeOK, HandInv, SteerInv, CommandInv, LaneInv
  <1>14. RunsEndOnce'
    BY <1>1, <1>2, <1>3, <1>4, BoundAssumption DEF IInv, RunsEndOnce, TypeOK, TurnInv,
           Run
  <1>15. PausedUnlessCompleted'
    BY <1>1, <1>2, <1>3, <1>4, BoundAssumption DEF IInv, PausedUnlessCompleted, TypeOK,
           TurnInv, RunsEndOnce, Run
  <1>16. (LaneInv /\ BoundaryOnce)'
    BY <1>4 DEF IInv, LaneInv, BoundaryOnce
  <1> QED
    BY <1>6, <1>7, <1>8, <1>9, <1>10, <1>11, <1>12, <1>13, <1>14, <1>15, <1>16
       DEF IInv

LEMMA LeaseForTurnPreserves ==
    ASSUME IInv, NEW t \in CommandId, LeaseForTurn(t)
    PROVE  IInv' /\ RowsLive({"leased"})
  <1>1. /\ phase = "up" /\ current.task = t /\ current.at = "accepted"
        /\ turn.run = NoRun
    BY ExecutesFacts DEF LeaseForTurn
  <1>2. turn.item = None /\ session.run = NoRun
    BY <1>1 DEF IInv, TurnInv
  <1>3. PICK i \in Item : item[i].status = "queued" /\ Lease(t, i)
    BY ExecutesFacts DEF LeaseForTurn, FirstQueued, Queued
  <1>4. current' = [task |-> t, at |-> "leased", item |-> i]
    BY <1>1, <1>3 DEF Lease, IInv, TypeOK
  <1>5. /\ item' \in [Item -> ItemRow]
        /\ \A j \in Item : /\ item'[j].status = IF j = i THEN "leased" ELSE item[j].status
                           /\ item'[j].boundary = item[j].boundary
    <2>1. item \in [Item -> ItemRow] /\ "leased" \in ItemStatus
      BY DEF IInv, TypeOK, ItemStatus
    <2>2. item' = [item EXCEPT ![i].status = "leased"]
      BY <1>3 DEF Lease
    <2> QED
      BY <2>1, <2>2, RowUpdate
  <1>6. UNCHANGED <<session, control, status, runs, ends, tool, native, phase, mailbox,
                    turn, lane, step, crashes, delivered>>
    BY DEF LeaseForTurn
  <1>7. \A x : Waiting(x)' <=> Waiting(x)
    BY <1>1, <1>2, <1>3, <1>4, <1>5, <1>6, WaitingSame
  <1>8. TypeOK'
    <2>1. item' \in [Item -> ItemRow]
      BY <1>1, <1>2, <1>3, <1>4, <1>5, <1>6, ItemFacts DEF IInv, TypeOK, ItemStatus
    <2>2. current' \in CurrentTask
      BY <1>1, <1>2, <1>3, <1>4, <1>5, <1>6, TaskTypes, ItemFacts
         DEF IInv, TypeOK
    <2> HIDE DEF SessionRow, ControlRow, ItemRow, CurrentTask, ActiveTurn, LaneStep
    <2> QED
      BY <2>1, <2>2, <1>6 DEF IInv, TypeOK
  <1>9. StoppedInv'
    BY <1>1, <1>2, <1>3, <1>4, <1>5, <1>6 DEF IInv, StoppedInv, TypeOK, Ambiguous,
           Active
  <1>10. TurnInv'
    BY <1>1, <1>2, <1>3, <1>4, <1>5, <1>6, BoundAssumption DEF IInv, TurnInv, TypeOK,
           StoppedInv, Run
  <1>11. CommandInv'
    BY <1>1, <1>2, <1>3, <1>4, <1>5, <1>6, TaskTypes DEF IInv, CommandInv, TypeOK,
           StoppedInv
  <1>12. AddedInv'
    <2>1. \A k \in Item : item[k].status = "absent" => item'[k].status = "absent"
      BY <1>1, <1>2, <1>3, <1>4, <1>5, <1>6, ItemFacts DEF IInv, TypeOK
    <2>2. \A x \in CommandId : status'[x] = "none" => status[x] = "none"
      BY <1>1, <1>2, <1>3, <1>4, <1>5, <1>6 DEF IInv, TypeOK
    <2>3. current' = current \/ current'.at # "accepted"
      BY <1>1, <1>2, <1>3, <1>4, <1>5, <1>6
    <2> QED
      BY <2>1, <2>2, <2>3, AddedKept DEF IInv
  <1>13. LaneInv'
    BY <1>1, <1>2, <1>3, <1>4, <1>5, <1>6, ActionsDiffer DEF IInv, LaneInv, TypeOK,
           StoppedInv
  <1>14. HandInv'
    BY <1>1, <1>2, <1>3, <1>4, <1>5, <1>6, ItemFacts DEF IInv, HandInv, TypeOK,
           StoppedInv, LaneInv, Active
  <1>15. SteerInv'
    BY <1>1, <1>2, <1>3, <1>4, <1>5, <1>6, <1>7, SteersDiffer, ActionsDiffer
       DEF IInv, SteerInv, TypeOK, StoppedInv, CommandInv, LaneInv
  <1>16. GivenInv'
    <2>1. (\A k \in Item : delivered[k] \in {0, 1})'
      BY <1>1, <1>2, <1>3, <1>4, <1>5, <1>6, <1>7, SteersDiffer, TaskTypes
         DEF IInv, GivenInv, TypeOK, HandInv, SteerInv, CommandInv, LaneInv
    <2>2. (\A k \in Item :
              item[k].status \in {"absent", "queued", "removed", "leased"} => delivered[k] = 0)'
      BY <1>3, <1>5, <1>6 DEF IInv, GivenInv
    <2>3. (step.at = "leased" => delivered[step.item] = 0)'
      BY <1>1, <1>2, <1>3, <1>4, <1>5, <1>6, <1>7, SteersDiffer, TaskTypes
         DEF IInv, GivenInv, TypeOK, HandInv, SteerInv, CommandInv, LaneInv
    <2>4. (\A b \in Boundary, k \in Item :
              Waiting(Steer(b, k)) /\ status[Steer(b, k)] = "none" => delivered[k] = 0)'
      BY <1>1, <1>2, <1>3, <1>4, <1>5, <1>6, <1>7, SteersDiffer, TaskTypes
         DEF IInv, GivenInv, TypeOK, HandInv, SteerInv, CommandInv, LaneInv
    <2>5. (\A b \in Boundary, k \in Item :
              current = [task |-> Steer(b, k), at |-> "accepted", item |-> None] => delivered[k] = 0)'
      BY <1>1, <1>2, <1>3, <1>4, <1>5, <1>6, <1>7, SteersDiffer, TaskTypes
         DEF IInv, GivenInv, TypeOK, HandInv, SteerInv, CommandInv, LaneInv
    <2>6. (current.at = "begun" /\ turn.item # None => delivered[turn.item] = 0)'
      BY <1>1, <1>2, <1>3, <1>4, <1>5, <1>6, <1>7, SteersDiffer, TaskTypes
         DEF IInv, GivenInv, TypeOK, HandInv, SteerInv, CommandInv, LaneInv
    <2> QED
      BY <2>1, <2>2, <2>3, <2>4, <2>5, <2>6 DEF GivenInv
  <1>17. BoundaryOnce'
    BY <1>1, <1>2, <1>3, <1>4, <1>5, <1>6, NoneAssumption DEF IInv, BoundaryOnce, TypeOK
  <1>18. (RunsEndOnce /\ PausedUnlessCompleted)'
    BY <1>6 DEF IInv, RunsEndOnce, PausedUnlessCompleted
  <1>19. RowsLive({"leased"})
    BY <1>1, <1>2, <1>3, <1>4, <1>5, <1>6, ItemFacts DEF RowsLive, IInv, TypeOK,
           HandInv, Active
  <1> QED
    BY <1>8, <1>9, <1>10, <1>11, <1>12, <1>13, <1>14, <1>15, <1>16, <1>17, <1>18, <1>19
       DEF IInv

LEMMA SkipFollowUpPreserves ==
    ASSUME IInv, NEW t \in CommandId, SkipFollowUp(t)
    PROVE  IInv'
  <1> USE DEF At, Effected, Executes, SkipFollowUp
  <1>1. UNCHANGED <<session, control, item, status, runs, ends, tool, native, phase,
                    mailbox, turn, lane, step, crashes, delivered>>
    OBVIOUS
  <1>2. \A x : Waiting(x)' <=> Waiting(x)
    BY WaitingSame
  <1>3. TypeOK'
    <2>1. current' \in CurrentTask
      BY TaskTypes, ItemFacts DEF IInv, TypeOK
    <2> HIDE DEF SessionRow, ControlRow, ItemRow, CurrentTask, ActiveTurn, LaneStep
    <2> QED
      BY <2>1, <1>1 DEF IInv, TypeOK
  <1>4. StoppedInv'
    BY DEF IInv, StoppedInv, TypeOK, Ambiguous, Active
  <1>5. TurnInv'
    BY BoundAssumption DEF IInv, TurnInv, TypeOK, StoppedInv, Run
  <1>6. CommandInv'
    BY TaskTypes DEF IInv, CommandInv, TypeOK, StoppedInv
  <1>7. AddedInv'
    BY TaskTypes DEF IInv, AddedInv, TypeOK, CommandInv
  <1>8. HandInv'
    BY ItemFacts DEF IInv, HandInv, TypeOK, StoppedInv, LaneInv, Active
  <1>9. SteerInv'
    BY <1>2, SteersDiffer, ActionsDiffer DEF IInv, SteerInv, TypeOK, StoppedInv,
           CommandInv, LaneInv
  <1>10. GivenInv'
    BY <1>2, SteersDiffer, TaskTypes DEF IInv, GivenInv, TypeOK, HandInv, SteerInv,
           CommandInv, LaneInv
  <1>11. (LaneInv /\ RunsEndOnce /\ PausedUnlessCompleted /\ BoundaryOnce)'
    BY <1>1 DEF IInv, LaneInv, RunsEndOnce, PausedUnlessCompleted, BoundaryOnce
  <1> QED
    BY <1>3, <1>4, <1>5, <1>6, <1>7, <1>8, <1>9, <1>10, <1>11
       DEF IInv

LEMMA BeginLeasedPreserves ==
    ASSUME IInv, NEW t \in CommandId, BeginLeased(t)
    PROVE  IInv' /\ RowsLive({})
  <1> USE DEF Begun
  <1>1. phase = "up" /\ current.task = t /\ current.at = "leased" /\ turn.run = NoRun
    BY DEF BeginLeased, At, IInv, TurnInv
  <1>2. turn.item = None /\ session.run = NoRun
    BY <1>1 DEF IInv, TurnInv
  <1>3. current.item \in Item /\ item[current.item].status = "leased"
    BY <1>1 DEF IInv, TypeOK, HandInv
  <1>4. Begun(current.item)
    BY BeginFacts DEF BeginLeased, IInv
  <1>5. /\ item' \in [Item -> ItemRow]
        /\ \A j \in Item : /\ item'[j].status = IF j = current.item THEN "running" ELSE item[j].status
                           /\ item'[j].boundary = item[j].boundary
    <2>1. item \in [Item -> ItemRow] /\ "running" \in ItemStatus
      BY DEF IInv, TypeOK, ItemStatus
    <2>2. item' = [item EXCEPT ![current.item].status = "running"]
      BY DEF BeginLeased
    <2> QED
      BY <2>1, <2>2, RowUpdate
  <1>6. UNCHANGED <<status, ends, tool, native, phase, mailbox, lane, step, crashes,
                    delivered>>
    BY DEF BeginLeased
  <1>7. \A x : Waiting(x)' <=> Waiting(x)
    BY <1>1, <1>2, <1>3, <1>4, <1>5, <1>6, WaitingSame
  <1>8. TypeOK'
    <2>1. session' \in SessionRow
      BY <1>1, <1>2, <1>3, <1>4, <1>5, <1>6, BoundAssumption DEF IInv, TypeOK, Run
    <2>2. control' \in ControlRow
      BY <1>1, <1>2, <1>3, <1>4, <1>5, <1>6 DEF IInv, TypeOK, Run
    <2>3. item' \in [Item -> ItemRow]
      BY <1>1, <1>2, <1>3, <1>4, <1>5, <1>6, ItemFacts DEF IInv, TypeOK, ItemStatus
    <2>4. runs' \in 0 .. MaxRun
      BY <1>1, <1>2, <1>3, <1>4, <1>5, <1>6, BoundAssumption DEF IInv, TypeOK, Run
    <2>5. current' \in CurrentTask
      BY <1>1, <1>2, <1>3, <1>4, <1>5, <1>6, TaskTypes, ItemFacts
         DEF IInv, TypeOK
    <2>6. turn' \in ActiveTurn
      BY <1>1, <1>2, <1>3, <1>4, <1>5, <1>6, ItemFacts, BoundAssumption
         DEF IInv, TypeOK, Run
    <2> HIDE DEF SessionRow, ControlRow, ItemRow, CurrentTask, ActiveTurn, LaneStep
    <2> QED
      BY <2>1, <2>2, <2>3, <2>4, <2>5, <2>6, <1>6 DEF IInv, TypeOK
  <1>9. StoppedInv'
    BY <1>1, <1>2, <1>3, <1>4, <1>5, <1>6 DEF IInv, StoppedInv, TypeOK, Ambiguous,
           Active
  <1>10. TurnInv'
    BY <1>1, <1>2, <1>3, <1>4, <1>5, <1>6, BoundAssumption DEF IInv, TurnInv, TypeOK,
           StoppedInv, Run
  <1>11. CommandInv'
    BY <1>1, <1>2, <1>3, <1>4, <1>5, <1>6, TaskTypes DEF IInv, CommandInv, TypeOK,
           StoppedInv
  <1>12. AddedInv'
    <2>1. \A i \in Item : item[i].status = "absent" => item'[i].status = "absent"
      BY <1>1, <1>2, <1>3, <1>4, <1>5, <1>6, ItemFacts DEF IInv, TypeOK, HandInv
    <2>2. \A x \in CommandId : status'[x] = "none" => status[x] = "none"
      BY <1>1, <1>2, <1>3, <1>4, <1>5, <1>6 DEF IInv, TypeOK
    <2>3. current' = current \/ current'.at # "accepted"
      BY <1>1, <1>2, <1>3, <1>4, <1>5, <1>6
    <2> QED
      BY <2>1, <2>2, <2>3, AddedKept DEF IInv
  <1>13. LaneInv'
    BY <1>1, <1>2, <1>3, <1>4, <1>5, <1>6, ActionsDiffer DEF IInv, LaneInv, TypeOK,
           StoppedInv
  <1>14. HandInv'
    BY <1>1, <1>2, <1>3, <1>4, <1>5, <1>6, ItemFacts DEF IInv, HandInv, TypeOK,
           StoppedInv, LaneInv, Active
  <1>15. SteerInv'
    BY <1>1, <1>2, <1>3, <1>4, <1>5, <1>6, <1>7, SteersDiffer, ActionsDiffer
       DEF IInv, SteerInv, TypeOK, StoppedInv, CommandInv, LaneInv
  <1>16. GivenInv'
    <2>1. (\A i \in Item : delivered[i] \in {0, 1})'
      BY <1>1, <1>2, <1>3, <1>4, <1>5, <1>6, <1>7, SteersDiffer, TaskTypes
         DEF IInv, GivenInv, TypeOK, HandInv, SteerInv, CommandInv, LaneInv
    <2>2. (\A i \in Item :
              item[i].status \in {"absent", "queued", "removed", "leased"} => delivered[i] = 0)'
      BY <1>1, <1>2, <1>3, <1>4, <1>5, <1>6, <1>7, SteersDiffer, TaskTypes
         DEF IInv, GivenInv, TypeOK, HandInv, SteerInv, CommandInv, LaneInv
    <2>3. (step.at = "leased" => delivered[step.item] = 0)'
      BY <1>1, <1>2, <1>3, <1>4, <1>5, <1>6, <1>7, SteersDiffer, TaskTypes
         DEF IInv, GivenInv, TypeOK, HandInv, SteerInv, CommandInv, LaneInv
    <2>4. (\A b \in Boundary, i \in Item :
              Waiting(Steer(b, i)) /\ status[Steer(b, i)] = "none" => delivered[i] = 0)'
      BY <1>1, <1>2, <1>3, <1>4, <1>5, <1>6, <1>7, SteersDiffer, TaskTypes
         DEF IInv, GivenInv, TypeOK, HandInv, SteerInv, CommandInv, LaneInv
    <2>5. (\A b \in Boundary, i \in Item :
              current = [task |-> Steer(b, i), at |-> "accepted", item |-> None] => delivered[i] = 0)'
      BY <1>1, <1>2, <1>3, <1>4, <1>5, <1>6, <1>7, SteersDiffer, TaskTypes
         DEF IInv, GivenInv, TypeOK, HandInv, SteerInv, CommandInv, LaneInv
    <2>6. (current.at = "begun" /\ turn.item # None => delivered[turn.item] = 0)'
      BY <1>1, <1>2, <1>3, <1>4, <1>5, <1>6, <1>7, SteersDiffer, TaskTypes
         DEF IInv, GivenInv, TypeOK, HandInv, SteerInv, CommandInv, LaneInv
    <2> QED
      BY <2>1, <2>2, <2>3, <2>4, <2>5, <2>6 DEF GivenInv
  <1>17. RunsEndOnce'
    BY <1>1, <1>2, <1>3, <1>4, <1>5, <1>6, BoundAssumption DEF IInv, RunsEndOnce,
           TypeOK, TurnInv, Run
  <1>18. PausedUnlessCompleted'
    BY <1>1, <1>2, <1>3, <1>4, <1>5, <1>6, BoundAssumption DEF IInv,
           PausedUnlessCompleted, TypeOK, TurnInv, RunsEndOnce, Run
  <1>19. BoundaryOnce'
    BY <1>1, <1>2, <1>3, <1>4, <1>5, <1>6, NoneAssumption DEF IInv, BoundaryOnce, TypeOK
  <1>20. RowsLive({})
    BY <1>1, <1>2, <1>3, <1>4, <1>5, <1>6, ItemFacts DEF RowsLive, IInv, TypeOK,
           HandInv, Active
  <1> QED
    BY <1>8, <1>9, <1>10, <1>11, <1>12, <1>13, <1>14, <1>15, <1>16, <1>17, <1>18,
       <1>19, <1>20 DEF IInv

LEMMA StartPreserves ==
    ASSUME IInv, NEW t \in CommandId, Start(t)
    PROVE  IInv'
  <1> USE DEF At, Effected, Start
  <1>1. UNCHANGED <<control, item, status, runs, ends, tool, phase, mailbox, turn,
                    lane, step, crashes>>
    OBVIOUS
  <1>2. \A x : Waiting(x)' <=> Waiting(x)
    BY WaitingSame
  <1>3. TypeOK'
    <2>1. session' \in SessionRow
      BY BoundAssumption DEF IInv, TypeOK, Run
    <2>2. native' \in NativeTurn
      BY DEF IInv, TypeOK, NativeTurn, Ending
    <2>3. current' \in CurrentTask
      BY TaskTypes, ItemFacts DEF IInv, TypeOK
    <2>4. delivered' \in [Item -> Nat]
      BY DEF IInv, TypeOK
    <2> HIDE DEF SessionRow, ControlRow, ItemRow, CurrentTask, ActiveTurn, LaneStep
    <2> QED
      BY <2>1, <2>2, <2>3, <2>4, <1>1 DEF IInv, TypeOK
  <1>4. StoppedInv'
    BY DEF IInv, StoppedInv, TypeOK, Ambiguous, Active
  <1>5. TurnInv'
    BY BoundAssumption DEF IInv, TurnInv, TypeOK, StoppedInv, Run
  <1>6. CommandInv'
    BY TaskTypes DEF IInv, CommandInv, TypeOK, StoppedInv
  <1>7. AddedInv'
    BY TaskTypes DEF IInv, AddedInv, TypeOK, CommandInv
  <1>8. HandInv'
    BY ItemFacts DEF IInv, HandInv, TypeOK, StoppedInv, LaneInv, Active
  <1>9. SteerInv'
    BY <1>2, SteersDiffer, ActionsDiffer DEF IInv, SteerInv, TypeOK, StoppedInv,
           CommandInv, LaneInv
  <1>10. GivenInv'
    BY <1>2, SteersDiffer, TaskTypes DEF IInv, GivenInv, TypeOK, HandInv, SteerInv,
           CommandInv, LaneInv
  <1>11. RunsEndOnce'
    BY BoundAssumption DEF IInv, RunsEndOnce, TypeOK, TurnInv, Run
  <1>12. PausedUnlessCompleted'
    BY BoundAssumption DEF IInv, PausedUnlessCompleted, TypeOK, TurnInv, RunsEndOnce,
           Run
  <1>13. (LaneInv /\ BoundaryOnce)'
    BY <1>1 DEF IInv, LaneInv, BoundaryOnce
  <1> QED
    BY <1>3, <1>4, <1>5, <1>6, <1>7, <1>8, <1>9, <1>10, <1>11, <1>12, <1>13
       DEF IInv

LEMMA StartFailsPreserves ==
    ASSUME IInv, NEW t \in CommandId, StartFails(t)
    PROVE  IInv' /\ RowsLive({})
  <1> USE DEF At, FailCommand, Settled
  <1>1. At(t, "begun") /\ FailCommand(t) /\ Settle(turn.run, "failed")
    BY DEF StartFails
  <1>2. Settled
    BY <1>1, SettleFacts DEF StartFails, At, IInv, TurnInv, Ending
  <1>3. \A i \in Item : \/ item'[i] = item[i]
                        \/ item[i].status = "running" /\ item'[i].status \in {"completed", "failed"}
    <2>1. \A i \in Item : i = turn.item => item[i].status = "running"
      BY ItemFacts DEF IInv, HandInv
    <2>2. \A i \in Item : /\ i # turn.item => item'[i] = item[i]
                          /\ i = turn.item => item'[i].status \in {"completed", "failed"}
      BY <1>2
    <2> QED
      BY <2>1, <2>2
  <1>4. UNCHANGED <<runs, tool, native, phase, mailbox, step, crashes, delivered>>
    BY DEF StartFails
  <1>5. \A x : Waiting(x)' <=> Waiting(x)
    BY <1>1, <1>2, <1>3, <1>4, WaitingSame
  <1>6. TypeOK'
    <2>1. session' \in SessionRow
      BY <1>1, <1>2, <1>3, <1>4, BoundAssumption DEF IInv, TypeOK, Run
    <2>2. control' \in ControlRow
      BY <1>1, <1>2, <1>3, <1>4 DEF IInv, TypeOK, Run
    <2>3. item' \in [Item -> ItemRow]
      BY <1>1, <1>2, <1>3, <1>4, ItemFacts DEF IInv, TypeOK, ItemStatus
    <2>4. status' \in [CommandId -> CommandStatus]
      BY <1>1, <1>2, <1>3, <1>4 DEF IInv, TypeOK, CommandStatus
    <2>5. ends' \in [Run -> Seq(Terminals)]
      BY <1>1, <1>2, <1>3, <1>4 DEF IInv, TypeOK, Terminals, Ending
    <2>6. current' \in CurrentTask
      BY <1>1, <1>2, <1>3, <1>4, TaskTypes, ItemFacts DEF IInv, TypeOK
    <2>7. turn' \in ActiveTurn
      BY <1>1, <1>2, <1>3, <1>4, ItemFacts, BoundAssumption DEF IInv, TypeOK, Run
    <2>8. lane' \in Seq(Action)
      BY <1>1, <1>2, <1>3, <1>4, TaskTypes DEF IInv, TypeOK
    <2> HIDE DEF SessionRow, ControlRow, ItemRow, CurrentTask, ActiveTurn, LaneStep
    <2> QED
      BY <2>1, <2>2, <2>3, <2>4, <2>5, <2>6, <2>7, <2>8, <1>4
         DEF IInv, TypeOK
  <1>7. StoppedInv'
    BY <1>1, <1>2, <1>3, <1>4 DEF IInv, StoppedInv, TypeOK, Ambiguous, Active
  <1>8. TurnInv'
    BY <1>1, <1>2, <1>3, <1>4, BoundAssumption DEF IInv, TurnInv, TypeOK, StoppedInv,
           Run
  <1>9. CommandInv'
    BY <1>1, <1>2, <1>3, <1>4, TaskTypes DEF IInv, CommandInv, TypeOK, StoppedInv
  <1>10. AddedInv'
    <2>1. \A i \in Item : item[i].status = "absent" => item'[i].status = "absent"
      BY <1>3
    <2>2. \A x \in CommandId : status'[x] = "none" => status[x] = "none"
      BY <1>1, <1>2, <1>3, <1>4 DEF IInv, TypeOK
    <2>3. current' = current \/ current'.at # "accepted"
      BY <1>1, <1>2, <1>3, <1>4
    <2> QED
      BY <2>1, <2>2, <2>3, AddedKept DEF IInv
  <1>11. LaneInv'
    BY <1>1, <1>2, <1>3, <1>4, ActionsDiffer DEF IInv, LaneInv, TypeOK, StoppedInv
  <1>12. HandInv'
    BY <1>1, <1>2, <1>3, <1>4, ItemFacts DEF IInv, HandInv, TypeOK, StoppedInv,
           LaneInv, Active
  <1>13. SteerInv'
    BY <1>1, <1>2, <1>3, <1>4, <1>5, SteersDiffer, ActionsDiffer
       DEF IInv, SteerInv, TypeOK, StoppedInv, CommandInv, LaneInv
  <1>14. GivenInv'
    <2>1. (\A i \in Item : delivered[i] \in {0, 1})'
      BY <1>1, <1>2, <1>3, <1>4, <1>5, SteersDiffer, TaskTypes
         DEF IInv, GivenInv, TypeOK, HandInv, SteerInv, CommandInv, LaneInv
    <2>2. (\A i \in Item :
              item[i].status \in {"absent", "queued", "removed", "leased"} => delivered[i] = 0)'
      BY <1>3, <1>4 DEF IInv, GivenInv
    <2>3. (step.at = "leased" => delivered[step.item] = 0)'
      BY <1>1, <1>2, <1>3, <1>4, <1>5, SteersDiffer, TaskTypes
         DEF IInv, GivenInv, TypeOK, HandInv, SteerInv, CommandInv, LaneInv
    <2>4. (\A b \in Boundary, i \in Item :
              Waiting(Steer(b, i)) /\ status[Steer(b, i)] = "none" => delivered[i] = 0)'
      BY <1>1, <1>2, <1>3, <1>4, <1>5, SteersDiffer, TaskTypes
         DEF IInv, GivenInv, TypeOK, HandInv, SteerInv, CommandInv, LaneInv
    <2>5. (\A b \in Boundary, i \in Item :
              current = [task |-> Steer(b, i), at |-> "accepted", item |-> None] => delivered[i] = 0)'
      BY <1>1, <1>2, <1>3, <1>4, <1>5, SteersDiffer, TaskTypes
         DEF IInv, GivenInv, TypeOK, HandInv, SteerInv, CommandInv, LaneInv
    <2>6. (current.at = "begun" /\ turn.item # None => delivered[turn.item] = 0)'
      BY <1>1, <1>2, <1>3, <1>4, <1>5, SteersDiffer, TaskTypes
         DEF IInv, GivenInv, TypeOK, HandInv, SteerInv, CommandInv, LaneInv
    <2> QED
      BY <2>1, <2>2, <2>3, <2>4, <2>5, <2>6 DEF GivenInv
  <1>15. RunsEndOnce'
    BY <1>1, <1>2, <1>3, <1>4, BoundAssumption DEF IInv, RunsEndOnce, TypeOK, TurnInv,
           Run
  <1>16. PausedUnlessCompleted'
    BY <1>1, <1>2, <1>3, <1>4, BoundAssumption DEF IInv, PausedUnlessCompleted, TypeOK,
           TurnInv, RunsEndOnce, Run
  <1>17. BoundaryOnce'
    BY <1>1, <1>2, <1>3, <1>4, NoneAssumption DEF IInv, BoundaryOnce, TypeOK
  <1>18. RowsLive({})
    BY <1>3 DEF RowsLive
  <1> QED
    BY <1>6, <1>7, <1>8, <1>9, <1>10, <1>11, <1>12, <1>13, <1>14, <1>15, <1>16, <1>17,
       <1>18 DEF IInv

LEMMA InterruptPreserves ==
    ASSUME IInv, NEW t \in CommandId, Interrupt(t)
    PROVE  IInv'
  <1> USE DEF Interrupt
  <1>1. /\ phase = "up" /\ current.task = t /\ current.at = "accepted"
        /\ turn.run # NoRun
    BY ExecutesFacts
  <1>2. UNCHANGED <<control, item, status, runs, ends, tool, native, phase, mailbox,
                    lane, step, crashes, delivered>>
    OBVIOUS
  <1>3. \A x : Waiting(x)' <=> Waiting(x)
    BY <1>1, WaitingSame
  <1>4. TypeOK'
    <2>1. session' \in SessionRow
      BY <1>1, BoundAssumption DEF IInv, TypeOK, Run
    <2>2. current' \in CurrentTask
      BY <1>1, TaskTypes, ItemFacts DEF IInv, TypeOK
    <2>3. turn' \in ActiveTurn
      BY <1>1, ItemFacts, BoundAssumption DEF IInv, TypeOK, Run
    <2> HIDE DEF SessionRow, ControlRow, ItemRow, CurrentTask, ActiveTurn, LaneStep
    <2> QED
      BY <2>1, <2>2, <2>3, <1>2 DEF IInv, TypeOK
  <1>5. StoppedInv'
    BY <1>1 DEF IInv, StoppedInv, TypeOK, Ambiguous, Active
  <1>6. TurnInv'
    BY <1>1, BoundAssumption DEF IInv, TurnInv, TypeOK, StoppedInv, Run
  <1>7. CommandInv'
    BY <1>1, TaskTypes DEF IInv, CommandInv, TypeOK, StoppedInv
  <1>8. AddedInv'
    BY <1>1, TaskTypes DEF IInv, AddedInv, TypeOK, CommandInv
  <1>9. HandInv'
    BY <1>1, ItemFacts DEF IInv, HandInv, TypeOK, StoppedInv, LaneInv, Active
  <1>10. SteerInv'
    BY <1>1, <1>3, SteersDiffer, ActionsDiffer DEF IInv, SteerInv, TypeOK, StoppedInv,
           CommandInv, LaneInv
  <1>11. GivenInv'
    BY <1>1, <1>3, SteersDiffer, TaskTypes DEF IInv, GivenInv, TypeOK, HandInv,
           SteerInv, CommandInv, LaneInv
  <1>12. RunsEndOnce'
    BY <1>1, BoundAssumption DEF IInv, RunsEndOnce, TypeOK, TurnInv, Run
  <1>13. PausedUnlessCompleted'
    BY <1>1, BoundAssumption DEF IInv, PausedUnlessCompleted, TypeOK, TurnInv,
           RunsEndOnce, Run
  <1>14. (LaneInv /\ BoundaryOnce)'
    BY <1>2 DEF IInv, LaneInv, BoundaryOnce
  <1> QED
    BY <1>4, <1>5, <1>6, <1>7, <1>8, <1>9, <1>10, <1>11, <1>12, <1>13, <1>14
       DEF IInv

LEMMA InterruptTakenPreserves ==
    ASSUME IInv, NEW t \in CommandId, InterruptTaken(t)
    PROVE  IInv'
  <1> USE DEF At, Effected, InterruptTaken
  <1>1. UNCHANGED <<session, control, item, status, runs, ends, tool, native, phase,
                    mailbox, turn, lane, step, crashes, delivered>>
    OBVIOUS
  <1>2. \A x : Waiting(x)' <=> Waiting(x)
    BY WaitingSame
  <1>3. TypeOK'
    <2>1. current' \in CurrentTask
      BY TaskTypes, ItemFacts DEF IInv, TypeOK
    <2> HIDE DEF SessionRow, ControlRow, ItemRow, CurrentTask, ActiveTurn, LaneStep
    <2> QED
      BY <2>1, <1>1 DEF IInv, TypeOK
  <1>4. StoppedInv'
    BY DEF IInv, StoppedInv, TypeOK, Ambiguous, Active
  <1>5. TurnInv'
    BY BoundAssumption DEF IInv, TurnInv, TypeOK, StoppedInv, Run
  <1>6. CommandInv'
    BY TaskTypes DEF IInv, CommandInv, TypeOK, StoppedInv
  <1>7. AddedInv'
    BY TaskTypes DEF IInv, AddedInv, TypeOK, CommandInv
  <1>8. HandInv'
    BY ItemFacts DEF IInv, HandInv, TypeOK, StoppedInv, LaneInv, Active
  <1>9. SteerInv'
    BY <1>2, SteersDiffer, ActionsDiffer DEF IInv, SteerInv, TypeOK, StoppedInv,
           CommandInv, LaneInv
  <1>10. GivenInv'
    BY <1>2, SteersDiffer, TaskTypes DEF IInv, GivenInv, TypeOK, HandInv, SteerInv,
           CommandInv, LaneInv
  <1>11. (LaneInv /\ RunsEndOnce /\ PausedUnlessCompleted /\ BoundaryOnce)'
    BY <1>1 DEF IInv, LaneInv, RunsEndOnce, PausedUnlessCompleted, BoundaryOnce
  <1> QED
    BY <1>3, <1>4, <1>5, <1>6, <1>7, <1>8, <1>9, <1>10, <1>11
       DEF IInv

LEMMA InterruptFailsPreserves ==
    ASSUME IInv, NEW t \in CommandId, InterruptFails(t)
    PROVE  IInv'
  <1> USE DEF At, FailCommand, InterruptFails
  <1>1. UNCHANGED <<control, item, runs, ends, tool, native, phase, mailbox, lane,
                    step, crashes, delivered>>
    OBVIOUS
  <1>2. \A x : Waiting(x)' <=> Waiting(x)
    BY WaitingSame
  <1>3. TypeOK'
    <2>1. session' \in SessionRow
      BY BoundAssumption DEF IInv, TypeOK, Run
    <2>2. status' \in [CommandId -> CommandStatus]
      BY DEF IInv, TypeOK, CommandStatus
    <2>3. current' \in CurrentTask
      BY TaskTypes, ItemFacts DEF IInv, TypeOK
    <2>4. turn' \in ActiveTurn
      BY ItemFacts, BoundAssumption DEF IInv, TypeOK, Run
    <2> HIDE DEF SessionRow, ControlRow, ItemRow, CurrentTask, ActiveTurn, LaneStep
    <2> QED
      BY <2>1, <2>2, <2>3, <2>4, <1>1 DEF IInv, TypeOK
  <1>4. StoppedInv'
    BY DEF IInv, StoppedInv, TypeOK, Ambiguous, Active
  <1>5. TurnInv'
    BY BoundAssumption DEF IInv, TurnInv, TypeOK, StoppedInv, Run
  <1>6. CommandInv'
    BY TaskTypes DEF IInv, CommandInv, TypeOK, StoppedInv
  <1>7. AddedInv'
    BY TaskTypes DEF IInv, AddedInv, TypeOK, CommandInv
  <1>8. HandInv'
    BY ItemFacts DEF IInv, HandInv, TypeOK, StoppedInv, LaneInv, Active
  <1>9. SteerInv'
    BY <1>2, SteersDiffer, ActionsDiffer DEF IInv, SteerInv, TypeOK, StoppedInv,
           CommandInv, LaneInv
  <1>10. GivenInv'
    BY <1>2, SteersDiffer, TaskTypes DEF IInv, GivenInv, TypeOK, HandInv, SteerInv,
           CommandInv, LaneInv
  <1>11. RunsEndOnce'
    BY BoundAssumption DEF IInv, RunsEndOnce, TypeOK, TurnInv, Run
  <1>12. PausedUnlessCompleted'
    BY BoundAssumption DEF IInv, PausedUnlessCompleted, TypeOK, TurnInv, RunsEndOnce,
           Run
  <1>13. (LaneInv /\ BoundaryOnce)'
    BY <1>1 DEF IInv, LaneInv, BoundaryOnce
  <1> QED
    BY <1>3, <1>4, <1>5, <1>6, <1>7, <1>8, <1>9, <1>10, <1>11, <1>12, <1>13
       DEF IInv

LEMMA AddPreserves ==
    ASSUME IInv, NEW t \in CommandId, Add(t)
    PROVE  IInv' /\ RowsLive({})
  <1>1. /\ phase = "up" /\ current.task = t /\ current.at = "accepted"
        /\ t.command \in Item /\ t = User(t.command)
    BY ExecutesFacts DEF Add
  <1>2. item[t.command].status = "absent"
    BY <1>1 DEF IInv, AddedInv
  <1>3. /\ item' \in [Item -> ItemRow]
        /\ item'[t.command].status = "queued" /\ item'[t.command].boundary = None
        /\ \A j \in Item : j # t.command => item'[j] = item[j]
    <2>1. PICK p \in 1 .. Cardinality(Item) : AddItem(t.command, p)
      BY DEF Add
    <2> QED
      BY <1>1, <2>1, ItemFacts DEF AddItem, ItemStatus, IInv, TypeOK
  <1>4. current' = [task |-> t, at |-> "effected", item |-> None]
    BY <1>1 DEF Add, Effected, IInv, TypeOK, HandInv
  <1>5. lane' \in Seq(Action) /\ (lane # <<>> => lane' # <<>> /\ Head(lane') = Head(lane))
    BY LaneGrows, TaskTypes DEF Add, ArrivesAfterTurn, IInv, TypeOK
  <1>6. UNCHANGED <<session, control, status, runs, ends, tool, native, phase, mailbox,
                    turn, step, crashes, delivered>>
    BY DEF Add
  <1>7. \A x : Waiting(x)' <=> Waiting(x)
    BY <1>1, <1>2, <1>3, <1>4, <1>5, <1>6, WaitingSame
  <1>8. TypeOK'
    <2>1. item' \in [Item -> ItemRow]
      BY <1>1, <1>2, <1>3, <1>4, <1>5, <1>6, ItemFacts DEF IInv, TypeOK, ItemStatus
    <2>2. current' \in CurrentTask
      BY <1>1, <1>2, <1>3, <1>4, <1>5, <1>6, TaskTypes, ItemFacts
         DEF IInv, TypeOK
    <2>3. lane' \in Seq(Action)
      BY <1>1, <1>2, <1>3, <1>4, <1>5, <1>6, TaskTypes DEF IInv, TypeOK
    <2> HIDE DEF SessionRow, ControlRow, ItemRow, CurrentTask, ActiveTurn, LaneStep
    <2> QED
      BY <2>1, <2>2, <2>3, <1>6 DEF IInv, TypeOK
  <1>9. StoppedInv'
    BY <1>1, <1>2, <1>3, <1>4, <1>5, <1>6 DEF IInv, StoppedInv, TypeOK, Ambiguous,
           Active
  <1>10. TurnInv'
    BY <1>1, <1>2, <1>3, <1>4, <1>5, <1>6, BoundAssumption DEF IInv, TurnInv, TypeOK,
           StoppedInv, Run
  <1>11. CommandInv'
    BY <1>1, <1>2, <1>3, <1>4, <1>5, <1>6, TaskTypes DEF IInv, CommandInv, TypeOK,
           StoppedInv
  <1>12. AddedInv'
    <2>1. status[User(t.command)] # "none"
      BY <1>1, TaskTypes DEF IInv, CommandInv
    <2>2. \A i \in Item : status[User(i)] = "none" => item'[i] = item[i]
      BY <1>3, <2>1
    <2> QED
      BY <1>4, <1>6, <2>2 DEF IInv, AddedInv
  <1>13. LaneInv'
    BY <1>1, <1>2, <1>3, <1>4, <1>5, <1>6, ActionsDiffer, ItemFacts
       DEF IInv, LaneInv, TypeOK, StoppedInv, HandInv
  <1>14. HandInv'
    BY <1>1, <1>2, <1>3, <1>4, <1>5, <1>6, ItemFacts DEF IInv, HandInv, TypeOK,
           StoppedInv, LaneInv, Active
  <1>15. SteerInv'
    BY <1>1, <1>2, <1>3, <1>4, <1>5, <1>6, <1>7, SteersDiffer, ActionsDiffer
       DEF IInv, SteerInv, TypeOK, StoppedInv, CommandInv, LaneInv
  <1>16. GivenInv'
    <2>1. (\A i \in Item : delivered[i] \in {0, 1})'
      BY <1>1, <1>2, <1>3, <1>4, <1>5, <1>6, <1>7, SteersDiffer, TaskTypes
         DEF IInv, GivenInv, TypeOK, HandInv, SteerInv, CommandInv, LaneInv
    <2>2. (\A i \in Item :
              item[i].status \in {"absent", "queued", "removed", "leased"} => delivered[i] = 0)'
      BY <1>1, <1>2, <1>3, <1>4, <1>5, <1>6, <1>7, SteersDiffer, TaskTypes
         DEF IInv, GivenInv, TypeOK, HandInv, SteerInv, CommandInv, LaneInv
    <2>3. (step.at = "leased" => delivered[step.item] = 0)'
      BY <1>1, <1>2, <1>3, <1>4, <1>5, <1>6, <1>7, SteersDiffer, TaskTypes
         DEF IInv, GivenInv, TypeOK, HandInv, SteerInv, CommandInv, LaneInv
    <2>4. (\A b \in Boundary, i \in Item :
              Waiting(Steer(b, i)) /\ status[Steer(b, i)] = "none" => delivered[i] = 0)'
      BY <1>1, <1>2, <1>3, <1>4, <1>5, <1>6, <1>7, SteersDiffer, TaskTypes
         DEF IInv, GivenInv, TypeOK, HandInv, SteerInv, CommandInv, LaneInv
    <2>5. (\A b \in Boundary, i \in Item :
              current = [task |-> Steer(b, i), at |-> "accepted", item |-> None] => delivered[i] = 0)'
      BY <1>1, <1>2, <1>3, <1>4, <1>5, <1>6, <1>7, SteersDiffer, TaskTypes
         DEF IInv, GivenInv, TypeOK, HandInv, SteerInv, CommandInv, LaneInv
    <2>6. (current.at = "begun" /\ turn.item # None => delivered[turn.item] = 0)'
      BY <1>1, <1>2, <1>3, <1>4, <1>5, <1>6, <1>7, SteersDiffer, TaskTypes
         DEF IInv, GivenInv, TypeOK, HandInv, SteerInv, CommandInv, LaneInv
    <2> QED
      BY <2>1, <2>2, <2>3, <2>4, <2>5, <2>6 DEF GivenInv
  <1>17. BoundaryOnce'
    <2>1. \A i \in Item : item'[i].boundary # None => item'[i] = item[i]
      BY <1>3
    <2> QED
      BY <2>1 DEF IInv, BoundaryOnce
  <1>18. (RunsEndOnce /\ PausedUnlessCompleted)'
    BY <1>6 DEF IInv, RunsEndOnce, PausedUnlessCompleted
  <1>19. RowsLive({})
    BY <1>1, <1>2, <1>3, <1>4, <1>5, <1>6, ItemFacts DEF RowsLive, IInv, TypeOK,
           HandInv, Active
  <1> QED
    BY <1>8, <1>9, <1>10, <1>11, <1>12, <1>13, <1>14, <1>15, <1>16, <1>17, <1>18, <1>19
       DEF IInv

LEMMA RemovePreserves ==
    ASSUME IInv, NEW t \in CommandId, Remove(t)
    PROVE  IInv' /\ RowsLive({})
  <1> USE DEF Effected, Remove
  <1>1. /\ phase = "up" /\ current.task = t /\ current.at = "accepted"
        /\ Request[t.command].item \in Item /\ item[Request[t.command].item].status = "queued"
    BY ExecutesFacts DEF Queued
  <1>2. /\ item' \in [Item -> ItemRow]
        /\ \A j \in Item : /\ item'[j].status = IF j = Request[t.command].item THEN "removed" ELSE item[j].status
                           /\ item'[j].boundary = item[j].boundary
    <2>1. item \in [Item -> ItemRow] /\ "removed" \in ItemStatus
      BY DEF IInv, TypeOK, ItemStatus
    <2>2. item' = [item EXCEPT ![Request[t.command].item].status = "removed"]
      BY DEF Remove
    <2> QED
      BY <2>1, <2>2, RowUpdate
  <1>3. UNCHANGED <<session, control, status, runs, ends, tool, native, phase, mailbox,
                    turn, lane, step, crashes, delivered>>
    OBVIOUS
  <1>4. \A x : Waiting(x)' <=> Waiting(x)
    BY <1>1, <1>2, WaitingSame
  <1>5. TypeOK'
    <2>1. item' \in [Item -> ItemRow]
      BY <1>1, <1>2, ItemFacts DEF IInv, TypeOK, ItemStatus
    <2>2. current' \in CurrentTask
      BY <1>1, <1>2, TaskTypes, ItemFacts DEF IInv, TypeOK
    <2> HIDE DEF SessionRow, ControlRow, ItemRow, CurrentTask, ActiveTurn, LaneStep
    <2> QED
      BY <2>1, <2>2, <1>3 DEF IInv, TypeOK
  <1>6. StoppedInv'
    BY <1>1, <1>2 DEF IInv, StoppedInv, TypeOK, Ambiguous, Active
  <1>7. TurnInv'
    BY <1>1, <1>2, BoundAssumption DEF IInv, TurnInv, TypeOK, StoppedInv, Run
  <1>8. CommandInv'
    BY <1>1, <1>2, TaskTypes DEF IInv, CommandInv, TypeOK, StoppedInv
  <1>9. AddedInv'
    BY <1>1, <1>2, TaskTypes DEF IInv, AddedInv, TypeOK, CommandInv
  <1>10. LaneInv'
    BY <1>1, <1>2, ActionsDiffer DEF IInv, LaneInv, TypeOK, StoppedInv
  <1>11. HandInv'
    BY <1>1, <1>2, ItemFacts DEF IInv, HandInv, TypeOK, StoppedInv, LaneInv, Active
  <1>12. SteerInv'
    BY <1>1, <1>2, <1>4, SteersDiffer, ActionsDiffer DEF IInv, SteerInv, TypeOK,
           StoppedInv, CommandInv, LaneInv
  <1>13. GivenInv'
    BY <1>1, <1>2, <1>4, SteersDiffer, TaskTypes DEF IInv, GivenInv, TypeOK, HandInv,
           SteerInv, CommandInv, LaneInv
  <1>14. BoundaryOnce'
    BY <1>1, <1>2, NoneAssumption DEF IInv, BoundaryOnce, TypeOK
  <1>15. (RunsEndOnce /\ PausedUnlessCompleted)'
    BY <1>3 DEF IInv, RunsEndOnce, PausedUnlessCompleted
  <1>16. RowsLive({})
    BY <1>1, <1>2, ItemFacts DEF RowsLive, IInv, TypeOK, HandInv, Active
  <1> QED
    BY <1>5, <1>6, <1>7, <1>8, <1>9, <1>10, <1>11, <1>12, <1>13, <1>14, <1>15, <1>16
       DEF IInv

LEMMA MovePreserves ==
    ASSUME IInv, NEW t \in CommandId, Move(t)
    PROVE  IInv' /\ RowsLive({})
  <1>1. /\ phase = "up" /\ current.task = t /\ current.at = "accepted"
    BY ExecutesFacts DEF Move
  <1>2. PICK p : /\ p \in [{j \in Item : Queued(j)} -> {item[j].position : j \in {k \in Item : Queued(k)}}]
                 /\ item' = [i \in Item |-> IF Queued(i) THEN [item[i] EXCEPT !.position = p[i]] ELSE item[i]]
    BY DEF Move, Moved
  <1>3. /\ item' \in [Item -> ItemRow]
        /\ \A j \in Item : item'[j].status = item[j].status /\ item'[j].boundary = item[j].boundary
    <2>1. \A i \in Item : item[i] \in ItemRow
      BY DEF IInv, TypeOK
    <2>2. \A i \in Item : Queued(i) => p[i] \in Nat
      BY <1>2, <2>1
    <2>3. ASSUME NEW i \in Item
          PROVE  item'[i] \in ItemRow /\ item'[i].status = item[i].status /\ item'[i].boundary = item[i].boundary
      BY <1>2, <2>1, <2>2
    <2>4. item' = [i \in Item |-> item'[i]]
      BY <1>2
    <2> QED
      BY <2>3, <2>4
  <1>4. current' = [task |-> t, at |-> "effected", item |-> None]
    BY <1>1 DEF Move, Effected, IInv, TypeOK, HandInv
  <1>5. UNCHANGED <<session, control, status, runs, ends, tool, native, phase, mailbox,
                    turn, lane, step, crashes, delivered>>
    BY DEF Move
  <1>6. \A x : Waiting(x)' <=> Waiting(x)
    BY <1>1, <1>2, <1>3, <1>4, <1>5, WaitingSame
  <1>7. TypeOK'
    <2>1. item' \in [Item -> ItemRow]
      BY <1>1, <1>2, <1>3, <1>4, <1>5, ItemFacts DEF IInv, TypeOK, ItemStatus
    <2>2. current' \in CurrentTask
      BY <1>1, <1>2, <1>3, <1>4, <1>5, TaskTypes, ItemFacts DEF IInv, TypeOK
    <2> HIDE DEF SessionRow, ControlRow, ItemRow, CurrentTask, ActiveTurn, LaneStep
    <2> QED
      BY <2>1, <2>2, <1>5 DEF IInv, TypeOK
  <1>8. StoppedInv'
    BY <1>1, <1>2, <1>3, <1>4, <1>5 DEF IInv, StoppedInv, TypeOK, Ambiguous, Active
  <1>9. TurnInv'
    BY <1>1, <1>2, <1>3, <1>4, <1>5, BoundAssumption DEF IInv, TurnInv, TypeOK,
           StoppedInv, Run
  <1>10. CommandInv'
    BY <1>1, <1>2, <1>3, <1>4, <1>5, TaskTypes DEF IInv, CommandInv, TypeOK, StoppedInv
  <1>11. AddedInv'
    BY <1>1, <1>2, <1>3, <1>4, <1>5, TaskTypes DEF IInv, AddedInv, TypeOK, CommandInv
  <1>12. LaneInv'
    BY <1>1, <1>2, <1>3, <1>4, <1>5, ActionsDiffer DEF IInv, LaneInv, TypeOK, StoppedInv
  <1>13. HandInv'
    BY <1>1, <1>2, <1>3, <1>4, <1>5, ItemFacts DEF IInv, HandInv, TypeOK, StoppedInv,
           LaneInv, Active
  <1>14. SteerInv'
    BY <1>1, <1>2, <1>3, <1>4, <1>5, <1>6, SteersDiffer, ActionsDiffer
       DEF IInv, SteerInv, TypeOK, StoppedInv, CommandInv, LaneInv
  <1>15. GivenInv'
    BY <1>1, <1>2, <1>3, <1>4, <1>5, <1>6, SteersDiffer, TaskTypes
       DEF IInv, GivenInv, TypeOK, HandInv, SteerInv, CommandInv, LaneInv
  <1>16. BoundaryOnce'
    BY <1>1, <1>2, <1>3, <1>4, <1>5, NoneAssumption DEF IInv, BoundaryOnce, TypeOK
  <1>17. (RunsEndOnce /\ PausedUnlessCompleted)'
    BY <1>5 DEF IInv, RunsEndOnce, PausedUnlessCompleted
  <1>18. RowsLive({})
    BY <1>1, <1>2, <1>3, <1>4, <1>5, ItemFacts DEF RowsLive, IInv, TypeOK, HandInv,
           Active
  <1> QED
    BY <1>7, <1>8, <1>9, <1>10, <1>11, <1>12, <1>13, <1>14, <1>15, <1>16, <1>17, <1>18
       DEF IInv

LEMMA IntervenePreserves ==
    ASSUME IInv, NEW t \in CommandId, Intervene(t)
    PROVE  IInv'
  <1>1. /\ phase = "up" /\ current.task = t /\ current.at = "accepted"
        /\ t.boundary \in Boundary /\ t.item \in Item /\ t = Steer(t.boundary, t.item)
    BY ExecutesFacts DEF Intervene
  <1>2. /\ step.at = "sent" /\ step.item = t.item /\ Head(lane) = AtBoundary(t.boundary)
        /\ item[t.item].status = "running" /\ status[t] = "accepted"
    BY <1>1, ItemFacts, TaskTypes DEF IInv, SteerInv, HandInv, CommandInv
  <1>3. current = [task |-> t, at |-> "accepted", item |-> None]
    BY <1>1 DEF IInv, TypeOK, HandInv
  <1>4. delivered[t.item] = 0
    BY <1>1, <1>3 DEF IInv, GivenInv
  <1>5. /\ current' = [task |-> t, at |-> "steering", item |-> None]
        /\ delivered' \in [Item -> Nat] /\ delivered'[t.item] = 1
        /\ \A i \in Item : i # t.item => delivered'[i] = delivered[i]
    <2>1. current' = [task |-> t, at |-> "steering", item |-> None]
      BY <1>3 DEF Intervene
    <2>2. delivered' = [delivered EXCEPT ![t.item] = 1]
      BY <1>4 DEF Intervene
    <2> QED
      BY <1>1, <2>1, <2>2 DEF IInv, TypeOK
  <1>6. \A b \in Boundary : Waiting(Steer(b, t.item)) => b = t.boundary
    BY <1>1, <1>2, ActionsDiffer DEF IInv, SteerInv
  <1>7. UNCHANGED <<session, control, item, status, runs, ends, tool, native, phase,
                    mailbox, turn, lane, step, crashes>>
    BY DEF Intervene
  <1>8. \A x : Waiting(x)' <=> Waiting(x)
    BY <1>1, <1>2, <1>3, <1>4, <1>5, <1>6, <1>7, WaitingSame
  <1>9. TypeOK'
    <2>1. current' \in CurrentTask
      BY <1>1, <1>2, <1>3, <1>4, <1>5, <1>6, <1>7, TaskTypes, ItemFacts
         DEF IInv, TypeOK
    <2>2. delivered' \in [Item -> Nat]
      BY <1>1, <1>2, <1>3, <1>4, <1>5, <1>6, <1>7 DEF IInv, TypeOK
    <2> HIDE DEF SessionRow, ControlRow, ItemRow, CurrentTask, ActiveTurn, LaneStep
    <2> QED
      BY <2>1, <2>2, <1>7 DEF IInv, TypeOK
  <1>10. StoppedInv'
    BY <1>1, <1>2, <1>3, <1>4, <1>5, <1>6, <1>7 DEF IInv, StoppedInv, TypeOK,
           Ambiguous, Active
  <1>11. TurnInv'
    BY <1>1, <1>2, <1>3, <1>4, <1>5, <1>6, <1>7, BoundAssumption
       DEF IInv, TurnInv, TypeOK, StoppedInv, Run
  <1>12. CommandInv'
    BY <1>1, <1>2, <1>3, <1>4, <1>5, <1>6, <1>7, TaskTypes DEF IInv, CommandInv,
           TypeOK, StoppedInv
  <1>13. AddedInv'
    BY <1>1, <1>2, <1>3, <1>4, <1>5, <1>6, <1>7, TaskTypes DEF IInv, AddedInv, TypeOK,
           CommandInv
  <1>14. HandInv'
    BY <1>1, <1>2, <1>3, <1>4, <1>5, <1>6, <1>7, ItemFacts DEF IInv, HandInv, TypeOK,
           StoppedInv, LaneInv, Active
  <1>15. SteerInv'
    BY <1>1, <1>2, <1>3, <1>4, <1>5, <1>6, <1>7, <1>8, SteersDiffer, ActionsDiffer
       DEF IInv, SteerInv, TypeOK, StoppedInv, CommandInv, LaneInv
  <1>16. GivenInv'
    <2>1. (\A i \in Item : delivered[i] \in {0, 1})'
      BY <1>1, <1>2, <1>3, <1>4, <1>5, <1>6, <1>7, <1>8, SteersDiffer, TaskTypes
         DEF IInv, GivenInv, TypeOK, HandInv, SteerInv, CommandInv, LaneInv
    <2>2. (\A i \in Item :
              item[i].status \in {"absent", "queued", "removed", "leased"} => delivered[i] = 0)'
      BY <1>1, <1>2, <1>3, <1>4, <1>5, <1>6, <1>7, <1>8, SteersDiffer, TaskTypes
         DEF IInv, GivenInv, TypeOK, HandInv, SteerInv, CommandInv, LaneInv
    <2>3. (step.at = "leased" => delivered[step.item] = 0)'
      BY <1>1, <1>2, <1>3, <1>4, <1>5, <1>6, <1>7, <1>8, SteersDiffer, TaskTypes
         DEF IInv, GivenInv, TypeOK, HandInv, SteerInv, CommandInv, LaneInv
    <2>4. (\A b \in Boundary, i \in Item :
              Waiting(Steer(b, i)) /\ status[Steer(b, i)] = "none" => delivered[i] = 0)'
      BY <1>1, <1>2, <1>3, <1>4, <1>5, <1>6, <1>7, <1>8, SteersDiffer, TaskTypes
         DEF IInv, GivenInv, TypeOK, HandInv, SteerInv, CommandInv, LaneInv
    <2>5. (\A b \in Boundary, i \in Item :
              current = [task |-> Steer(b, i), at |-> "accepted", item |-> None] => delivered[i] = 0)'
      BY <1>1, <1>2, <1>3, <1>4, <1>5, <1>6, <1>7, <1>8, SteersDiffer, TaskTypes
         DEF IInv, GivenInv, TypeOK, HandInv, SteerInv, CommandInv, LaneInv
    <2>6. (current.at = "begun" /\ turn.item # None => delivered[turn.item] = 0)'
      BY <1>1, <1>2, <1>3, <1>4, <1>5, <1>6, <1>7, <1>8, SteersDiffer, TaskTypes
         DEF IInv, GivenInv, TypeOK, HandInv, SteerInv, CommandInv, LaneInv
    <2> QED
      BY <2>1, <2>2, <2>3, <2>4, <2>5, <2>6 DEF GivenInv
  <1>17. (LaneInv /\ RunsEndOnce /\ PausedUnlessCompleted /\ BoundaryOnce)'
    BY <1>7 DEF IInv, LaneInv, RunsEndOnce, PausedUnlessCompleted, BoundaryOnce
  <1> QED
    BY <1>9, <1>10, <1>11, <1>12, <1>13, <1>14, <1>15, <1>16, <1>17
       DEF IInv

LEMMA InterventionTakenPreserves ==
    ASSUME IInv, NEW t \in CommandId, InterventionTaken(t)
    PROVE  IInv'
  <1> USE DEF At, Effected, InterventionTaken
  <1>1. UNCHANGED <<session, control, item, status, runs, ends, tool, native, phase,
                    mailbox, turn, lane, step, crashes, delivered>>
    OBVIOUS
  <1>2. \A x : Waiting(x)' <=> Waiting(x)
    BY WaitingSame
  <1>3. TypeOK'
    <2>1. current' \in CurrentTask
      BY TaskTypes, ItemFacts DEF IInv, TypeOK
    <2> HIDE DEF SessionRow, ControlRow, ItemRow, CurrentTask, ActiveTurn, LaneStep
    <2> QED
      BY <2>1, <1>1 DEF IInv, TypeOK
  <1>4. StoppedInv'
    BY DEF IInv, StoppedInv, TypeOK, Ambiguous, Active
  <1>5. TurnInv'
    BY BoundAssumption DEF IInv, TurnInv, TypeOK, StoppedInv, Run
  <1>6. CommandInv'
    BY TaskTypes DEF IInv, CommandInv, TypeOK, StoppedInv
  <1>7. AddedInv'
    BY TaskTypes DEF IInv, AddedInv, TypeOK, CommandInv
  <1>8. HandInv'
    BY ItemFacts DEF IInv, HandInv, TypeOK, StoppedInv, LaneInv, Active
  <1>9. SteerInv'
    BY <1>2, SteersDiffer, ActionsDiffer DEF IInv, SteerInv, TypeOK, StoppedInv,
           CommandInv, LaneInv
  <1>10. GivenInv'
    BY <1>2, SteersDiffer, TaskTypes DEF IInv, GivenInv, TypeOK, HandInv, SteerInv,
           CommandInv, LaneInv
  <1>11. (LaneInv /\ RunsEndOnce /\ PausedUnlessCompleted /\ BoundaryOnce)'
    BY <1>1 DEF IInv, LaneInv, RunsEndOnce, PausedUnlessCompleted, BoundaryOnce
  <1> QED
    BY <1>3, <1>4, <1>5, <1>6, <1>7, <1>8, <1>9, <1>10, <1>11
       DEF IInv

LEMMA InterventionFailsPreserves ==
    ASSUME IInv, NEW t \in CommandId, InterventionFails(t)
    PROVE  IInv'
  <1> USE DEF At, FailCommand, InterventionFails
  <1>1. UNCHANGED <<session, control, item, runs, ends, tool, native, phase, mailbox,
                    turn, lane, step, crashes, delivered>>
    OBVIOUS
  <1>2. \A x : Waiting(x)' <=> Waiting(x)
    BY WaitingSame
  <1>3. TypeOK'
    <2>1. status' \in [CommandId -> CommandStatus]
      BY DEF IInv, TypeOK, CommandStatus
    <2>2. current' \in CurrentTask
      BY TaskTypes, ItemFacts DEF IInv, TypeOK
    <2> HIDE DEF SessionRow, ControlRow, ItemRow, CurrentTask, ActiveTurn, LaneStep
    <2> QED
      BY <2>1, <2>2, <1>1 DEF IInv, TypeOK
  <1>4. StoppedInv'
    BY DEF IInv, StoppedInv, TypeOK, Ambiguous, Active
  <1>5. TurnInv'
    BY BoundAssumption DEF IInv, TurnInv, TypeOK, StoppedInv, Run
  <1>6. CommandInv'
    BY TaskTypes DEF IInv, CommandInv, TypeOK, StoppedInv
  <1>7. AddedInv'
    BY TaskTypes DEF IInv, AddedInv, TypeOK, CommandInv
  <1>8. HandInv'
    BY ItemFacts DEF IInv, HandInv, TypeOK, StoppedInv, LaneInv, Active
  <1>9. SteerInv'
    BY <1>2, SteersDiffer, ActionsDiffer DEF IInv, SteerInv, TypeOK, StoppedInv,
           CommandInv, LaneInv
  <1>10. GivenInv'
    BY <1>2, SteersDiffer, TaskTypes DEF IInv, GivenInv, TypeOK, HandInv, SteerInv,
           CommandInv, LaneInv
  <1>11. (LaneInv /\ RunsEndOnce /\ PausedUnlessCompleted /\ BoundaryOnce)'
    BY <1>1 DEF IInv, LaneInv, RunsEndOnce, PausedUnlessCompleted, BoundaryOnce
  <1> QED
    BY <1>3, <1>4, <1>5, <1>6, <1>7, <1>8, <1>9, <1>10, <1>11
       DEF IInv

LEMMA FinishActivePreserves ==
    ASSUME IInv, NEW r \in Run, NEW how \in Ending, FinishTurn(Finish(r, how)),
           turn.run = r
    PROVE  IInv' /\ RowsLive({})
  <1> USE DEF NextTask, Settled
  <1>1. NextTask(Finish(r, how)) /\ Settle(turn.run, Terminal(how)) /\ UNCHANGED <<status, runs>>
    BY DEF FinishTurn, Finish
  <1>2. Settled
    BY <1>1, SettleFacts DEF Terminal, Ending, Run
  <1>3. \A i \in Item : \/ item'[i] = item[i]
                        \/ item[i].status = "running" /\ item'[i].status \in {"completed", "failed"}
    <2>1. \A i \in Item : i = turn.item => item[i].status = "running"
      BY ItemFacts DEF IInv, HandInv
    <2>2. \A i \in Item : /\ i # turn.item => item'[i] = item[i]
                          /\ i = turn.item => item'[i].status \in {"completed", "failed"}
      BY <1>2
    <2> QED
      BY <2>1, <2>2
  <1>4. UNCHANGED <<status, runs, tool, native, phase, current, step, crashes, delivered>>
    BY DEF FinishTurn
  <1>5. /\ \A x : Waiting(x)' => Waiting(x)
        /\ \A x : Waiting(x) => Waiting(x)' \/ x = Finish(r, how)
        /\ Waiting(Finish(r, how))
    BY <1>1, <1>2, <1>3, <1>4, WaitingTail DEF IInv, TypeOK
  <1>6. TypeOK'
    <2>1. session' \in SessionRow
      BY <1>1, <1>2, <1>3, <1>4, BoundAssumption DEF IInv, TypeOK, Run
    <2>2. control' \in ControlRow
      BY <1>1, <1>2, <1>3, <1>4 DEF IInv, TypeOK, Run
    <2>3. item' \in [Item -> ItemRow]
      BY <1>1, <1>2, <1>3, <1>4, ItemFacts DEF IInv, TypeOK, ItemStatus
    <2>4. ends' \in [Run -> Seq(Terminals)]
      BY <1>1, <1>2, <1>3, <1>4 DEF IInv, TypeOK, Terminals, Ending
    <2>5. mailbox' \in Seq(Task)
      BY <1>1, <1>2, <1>3, <1>4, TaskTypes DEF IInv, TypeOK
    <2>6. turn' \in ActiveTurn
      BY <1>1, <1>2, <1>3, <1>4, ItemFacts, BoundAssumption DEF IInv, TypeOK, Run
    <2>7. lane' \in Seq(Action)
      BY <1>1, <1>2, <1>3, <1>4, TaskTypes DEF IInv, TypeOK
    <2> HIDE DEF SessionRow, ControlRow, ItemRow, CurrentTask, ActiveTurn, LaneStep
    <2> QED
      BY <2>1, <2>2, <2>3, <2>4, <2>5, <2>6, <2>7, <1>4 DEF IInv, TypeOK
  <1>7. StoppedInv'
    BY <1>1, <1>2, <1>3, <1>4 DEF IInv, StoppedInv, TypeOK, Ambiguous, Active
  <1>8. TurnInv'
    BY <1>1, <1>2, <1>3, <1>4, BoundAssumption DEF IInv, TurnInv, TypeOK, StoppedInv,
           Run
  <1>9. AddedInv'
    <2>1. \A i \in Item : item[i].status = "absent" => item'[i].status = "absent"
      BY <1>3
    <2>2. \A x \in CommandId : status'[x] = "none" => status[x] = "none"
      BY <1>1, <1>2, <1>3, <1>4 DEF IInv, TypeOK
    <2>3. current' = current \/ current'.at # "accepted"
      BY <1>1, <1>2, <1>3, <1>4
    <2> QED
      BY <2>1, <2>2, <2>3, AddedKept DEF IInv
  <1>10. LaneInv'
    BY <1>1, <1>2, <1>3, <1>4, ActionsDiffer DEF IInv, LaneInv, TypeOK, StoppedInv
  <1>11. HandInv'
    BY <1>1, <1>2, <1>3, <1>4, ItemFacts DEF IInv, HandInv, TypeOK, StoppedInv,
           LaneInv, Active
  <1>12. SteerInv'
    BY <1>1, <1>2, <1>3, <1>4, <1>5, SteersDiffer, ActionsDiffer
       DEF IInv, SteerInv, TypeOK, StoppedInv, CommandInv, LaneInv
  <1>13. GivenInv'
    <2>1. (\A i \in Item : delivered[i] \in {0, 1})'
      BY <1>1, <1>2, <1>3, <1>4, <1>5, SteersDiffer, TaskTypes
         DEF IInv, GivenInv, TypeOK, HandInv, SteerInv, CommandInv, LaneInv
    <2>2. (\A i \in Item :
              item[i].status \in {"absent", "queued", "removed", "leased"} => delivered[i] = 0)'
      BY <1>3, <1>4 DEF IInv, GivenInv
    <2>3. (step.at = "leased" => delivered[step.item] = 0)'
      BY <1>1, <1>2, <1>3, <1>4, <1>5, SteersDiffer, TaskTypes
         DEF IInv, GivenInv, TypeOK, HandInv, SteerInv, CommandInv, LaneInv
    <2>4. (\A b \in Boundary, i \in Item :
              Waiting(Steer(b, i)) /\ status[Steer(b, i)] = "none" => delivered[i] = 0)'
      BY <1>1, <1>2, <1>3, <1>4, <1>5, SteersDiffer, TaskTypes
         DEF IInv, GivenInv, TypeOK, HandInv, SteerInv, CommandInv, LaneInv
    <2>5. (\A b \in Boundary, i \in Item :
              current = [task |-> Steer(b, i), at |-> "accepted", item |-> None] => delivered[i] = 0)'
      BY <1>1, <1>2, <1>3, <1>4, <1>5, SteersDiffer, TaskTypes
         DEF IInv, GivenInv, TypeOK, HandInv, SteerInv, CommandInv, LaneInv
    <2>6. (current.at = "begun" /\ turn.item # None => delivered[turn.item] = 0)'
      BY <1>1, <1>2, <1>3, <1>4, <1>5, SteersDiffer, TaskTypes
         DEF IInv, GivenInv, TypeOK, HandInv, SteerInv, CommandInv, LaneInv
    <2> QED
      BY <2>1, <2>2, <2>3, <2>4, <2>5, <2>6 DEF GivenInv
  <1>14. RunsEndOnce'
    BY <1>1, <1>2, <1>3, <1>4, BoundAssumption DEF IInv, RunsEndOnce, TypeOK, TurnInv,
           Run
  <1>15. PausedUnlessCompleted'
    BY <1>1, <1>2, <1>3, <1>4, BoundAssumption DEF IInv, PausedUnlessCompleted, TypeOK,
           TurnInv, RunsEndOnce, Run
  <1>16. BoundaryOnce'
    BY <1>1, <1>2, <1>3, <1>4, NoneAssumption DEF IInv, BoundaryOnce, TypeOK
  <1>17. (CommandInv)'
    BY <1>4 DEF IInv, CommandInv
  <1>18. RowsLive({})
    BY <1>3 DEF RowsLive
  <1> QED
    BY <1>6, <1>7, <1>8, <1>9, <1>10, <1>11, <1>12, <1>13, <1>14, <1>15, <1>16, <1>17,
       <1>18 DEF IInv

LEMMA FinishStalePreserves ==
    ASSUME IInv, NEW r \in Run, NEW how \in Ending, FinishTurn(Finish(r, how)),
           turn.run # r
    PROVE  IInv'
  <1> USE DEF NextTask
  <1>1. NextTask(Finish(r, how))
    BY DEF FinishTurn
  <1>2. /\ UNCHANGED <<session, control, item, status, runs, ends, turn, lane, current, step>>
        /\ UNCHANGED <<tool, native, phase, crashes, delivered>>
    BY DEF FinishTurn, Finish, provider
  <1>3. /\ \A x : Waiting(x)' => Waiting(x)
        /\ \A x : Waiting(x) => Waiting(x)' \/ x = Finish(r, how)
        /\ Waiting(Finish(r, how))
    BY <1>1, <1>2, WaitingTail DEF IInv, TypeOK
  <1>4. TypeOK'
    <2>1. mailbox' \in Seq(Task)
      BY <1>1, <1>2, TaskTypes DEF IInv, TypeOK
    <2> HIDE DEF SessionRow, ControlRow, ItemRow, CurrentTask, ActiveTurn, LaneStep
    <2> QED
      BY <2>1, <1>1, <1>2 DEF IInv, TypeOK
  <1>5. StoppedInv'
    BY <1>1, <1>2 DEF IInv, StoppedInv, TypeOK, Ambiguous, Active
  <1>6. SteerInv'
    BY <1>1, <1>2, <1>3, SteersDiffer, ActionsDiffer DEF IInv, SteerInv, TypeOK,
           StoppedInv, CommandInv, LaneInv
  <1>7. GivenInv'
    BY <1>1, <1>2, <1>3, SteersDiffer, TaskTypes DEF IInv, GivenInv, TypeOK, HandInv,
           SteerInv, CommandInv, LaneInv
  <1>8. (TurnInv /\ CommandInv /\ AddedInv /\ LaneInv /\ HandInv /\ RunsEndOnce /\
         PausedUnlessCompleted /\ BoundaryOnce)'
    BY <1>1, <1>2 DEF IInv, TurnInv, CommandInv, AddedInv, LaneInv, HandInv,
           RunsEndOnce, PausedUnlessCompleted, BoundaryOnce, Active
  <1> QED
    BY <1>4, <1>5, <1>6, <1>7, <1>8 DEF IInv

LEMMA PassMarkPreserves ==
    ASSUME IInv, PassMark
    PROVE  IInv'
  <1> USE DEF Mark, NextTask, PassMark
  <1>1. UNCHANGED <<session, control, item, status, runs, ends, tool, native, phase,
                    current, turn, lane, crashes, delivered>>
    OBVIOUS
  <1>2. /\ \A x : Waiting(x)' => Waiting(x)
        /\ \A x : Waiting(x) => Waiting(x)' \/ x = Mark
        /\ Waiting(Mark)
    BY WaitingTail DEF IInv, TypeOK
  <1>3. TypeOK'
    <2>1. mailbox' \in Seq(Task)
      BY TaskTypes DEF IInv, TypeOK
    <2>2. step' \in LaneStep
      BY ItemFacts DEF IInv, TypeOK
    <2> HIDE DEF SessionRow, ControlRow, ItemRow, CurrentTask, ActiveTurn, LaneStep
    <2> QED
      BY <2>1, <2>2, <1>1 DEF IInv, TypeOK
  <1>4. StoppedInv'
    BY DEF IInv, StoppedInv, TypeOK, Ambiguous, Active
  <1>5. LaneInv'
    BY ActionsDiffer DEF IInv, LaneInv, TypeOK, StoppedInv
  <1>6. HandInv'
    BY ItemFacts DEF IInv, HandInv, TypeOK, StoppedInv, LaneInv, Active
  <1>7. SteerInv'
    BY <1>2, SteersDiffer, ActionsDiffer DEF IInv, SteerInv, TypeOK, StoppedInv,
           CommandInv, LaneInv
  <1>8. GivenInv'
    BY <1>2, SteersDiffer, TaskTypes DEF IInv, GivenInv, TypeOK, HandInv, SteerInv,
           CommandInv, LaneInv
  <1>9. (TurnInv /\ CommandInv /\ AddedInv /\ RunsEndOnce /\ PausedUnlessCompleted /\
         BoundaryOnce)'
    BY <1>1 DEF IInv, TurnInv, CommandInv, AddedInv, RunsEndOnce,
           PausedUnlessCompleted, BoundaryOnce
  <1> QED
    BY <1>3, <1>4, <1>5, <1>6, <1>7, <1>8, <1>9 DEF IInv

LEMMA DropBoundaryPreserves ==
    ASSUME IInv, NEW b \in Boundary, DropBoundary(b)
    PROVE  IInv'
  <1> USE DEF Acting, ActionDone, AtBoundary, DropBoundary
  <1>1. UNCHANGED <<session, control, item, status, runs, ends, tool, native, phase,
                    mailbox, current, turn, crashes, delivered>>
    OBVIOUS
  <1>2. \A x : Waiting(x)' <=> Waiting(x)
    BY WaitingSame
  <1>3. TypeOK'
    <2>1. lane' \in Seq(Action)
      BY TaskTypes DEF IInv, TypeOK
    <2>2. step' \in LaneStep
      BY ItemFacts DEF IInv, TypeOK
    <2> HIDE DEF SessionRow, ControlRow, ItemRow, CurrentTask, ActiveTurn, LaneStep
    <2> QED
      BY <2>1, <2>2, <1>1 DEF IInv, TypeOK
  <1>4. StoppedInv'
    BY DEF IInv, StoppedInv, TypeOK, Ambiguous, Active
  <1>5. LaneInv'
    BY ActionsDiffer DEF IInv, LaneInv, TypeOK, StoppedInv
  <1>6. HandInv'
    BY ItemFacts DEF IInv, HandInv, TypeOK, StoppedInv, LaneInv, Active
  <1>7. SteerInv'
    BY <1>2, SteersDiffer, ActionsDiffer DEF IInv, SteerInv, TypeOK, StoppedInv,
           CommandInv, LaneInv
  <1>8. GivenInv'
    BY <1>2, SteersDiffer, TaskTypes DEF IInv, GivenInv, TypeOK, HandInv, SteerInv,
           CommandInv, LaneInv
  <1>9. (TurnInv /\ CommandInv /\ AddedInv /\ RunsEndOnce /\ PausedUnlessCompleted /\
         BoundaryOnce)'
    BY <1>1 DEF IInv, TurnInv, CommandInv, AddedInv, RunsEndOnce,
           PausedUnlessCompleted, BoundaryOnce
  <1> QED
    BY <1>3, <1>4, <1>5, <1>6, <1>7, <1>8, <1>9 DEF IInv

LEMMA LeaseAtBoundaryPreserves ==
    ASSUME IInv, NEW b \in Boundary, LeaseAtBoundary(b)
    PROVE  IInv' /\ RowsLive({})
  <1> USE DEF Acting
  <1>1. Acting(AtBoundary(b), "ready") /\ ~AtWrongBoundary(b)
    BY DEF LeaseAtBoundary
  <1>2. PICK i \in Item : /\ item[i].status = "queued" /\ item' = [item EXCEPT ![i] = TakenAtBoundary(i, b)]
                          /\ step' = [at |-> "leased", item |-> i]
    BY DEF LeaseAtBoundary, FirstQueued, Queued
  <1>3. /\ item' \in [Item -> ItemRow]
        /\ item'[i].status = "running" /\ item'[i].boundary = b
        /\ \A j \in Item : j # i => item'[j] = item[j]
    BY <1>2 DEF TakenAtBoundary, ItemStatus, IInv, TypeOK
  <1>4. \A j \in Item : item[j].boundary # b
    BY <1>1 DEF AtWrongBoundary, Used
  <1>5. UNCHANGED <<session, control, status, runs, ends, tool, native, phase, mailbox,
                    current, turn, lane, crashes, delivered>>
    BY DEF LeaseAtBoundary
  <1>6. \A x : Waiting(x)' <=> Waiting(x)
    BY <1>1, <1>2, <1>3, <1>4, <1>5, WaitingSame
  <1>7. TypeOK'
    <2>1. item' \in [Item -> ItemRow]
      BY <1>1, <1>2, <1>3, <1>4, <1>5, ItemFacts DEF IInv, TypeOK, ItemStatus
    <2>2. step' \in LaneStep
      BY <1>1, <1>2, <1>3, <1>4, <1>5, ItemFacts DEF IInv, TypeOK
    <2> HIDE DEF SessionRow, ControlRow, ItemRow, CurrentTask, ActiveTurn, LaneStep
    <2> QED
      BY <2>1, <2>2, <1>5 DEF IInv, TypeOK
  <1>8. StoppedInv'
    BY <1>1, <1>2, <1>3, <1>4, <1>5 DEF IInv, StoppedInv, TypeOK, Ambiguous, Active
  <1>9. TurnInv'
    BY <1>1, <1>2, <1>3, <1>4, <1>5, BoundAssumption DEF IInv, TurnInv, TypeOK,
           StoppedInv, Run
  <1>10. AddedInv'
    BY <1>1, <1>2, <1>3, <1>4, <1>5, TaskTypes DEF IInv, AddedInv, TypeOK, CommandInv
  <1>11. LaneInv'
    BY <1>1, <1>2, <1>3, <1>4, <1>5, ActionsDiffer, ItemFacts
       DEF IInv, LaneInv, TypeOK, StoppedInv
  <1>12. HandInv'
    BY <1>1, <1>2, <1>3, <1>4, <1>5, ItemFacts DEF IInv, HandInv, TypeOK, StoppedInv,
           LaneInv, Active
  <1>13. SteerInv'
    BY <1>1, <1>2, <1>3, <1>4, <1>5, <1>6, SteersDiffer, ActionsDiffer
       DEF IInv, SteerInv, TypeOK, StoppedInv, CommandInv, LaneInv
  <1>14. GivenInv'
    BY <1>1, <1>2, <1>3, <1>4, <1>5, <1>6, SteersDiffer, TaskTypes
       DEF IInv, GivenInv, TypeOK, HandInv, SteerInv, CommandInv, LaneInv
  <1>15. BoundaryOnce'
    BY <1>1, <1>2, <1>3, <1>4, <1>5, NoneAssumption DEF IInv, BoundaryOnce, TypeOK
  <1>16. (CommandInv /\ RunsEndOnce /\ PausedUnlessCompleted)'
    BY <1>5 DEF IInv, CommandInv, RunsEndOnce, PausedUnlessCompleted
  <1>17. RowsLive({})
    BY <1>1, <1>2, <1>3, <1>4, <1>5, ItemFacts DEF RowsLive, IInv, TypeOK, HandInv,
           Active
  <1> QED
    BY <1>7, <1>8, <1>9, <1>10, <1>11, <1>12, <1>13, <1>14, <1>15, <1>16, <1>17
       DEF IInv

LEMMA SendSteerPreserves ==
    ASSUME IInv, NEW b \in Boundary, SendSteer(b)
    PROVE  IInv'
  <1> USE DEF Acting, AtBoundary, SendSteer, Steer
  <1>1. step.item \in Item
    BY ActionsDiffer DEF IInv, TypeOK, LaneInv
  <1>2. UNCHANGED <<session, control, item, status, runs, ends, tool, native, phase,
                    current, turn, lane, crashes, delivered>>
    OBVIOUS
  <1>3. \A x : Waiting(x)' <=> Waiting(x) \/ x = Steer(b, step.item)
    BY <1>1, WaitingAppend, TaskTypes DEF IInv, TypeOK
  <1>4. TypeOK'
    <2>1. mailbox' \in Seq(Task)
      BY <1>1, TaskTypes DEF IInv, TypeOK
    <2>2. step' \in LaneStep
      BY <1>1, ItemFacts DEF IInv, TypeOK
    <2> HIDE DEF SessionRow, ControlRow, ItemRow, CurrentTask, ActiveTurn, LaneStep
    <2> QED
      BY <2>1, <2>2, <1>2 DEF IInv, TypeOK
  <1>5. StoppedInv'
    BY <1>1 DEF IInv, StoppedInv, TypeOK, Ambiguous, Active
  <1>6. LaneInv'
    BY <1>1, ActionsDiffer DEF IInv, LaneInv, TypeOK, StoppedInv
  <1>7. HandInv'
    BY <1>1, ItemFacts DEF IInv, HandInv, TypeOK, StoppedInv, LaneInv, Active
  <1>8. SteerInv'
    BY <1>1, <1>3, SteersDiffer, ActionsDiffer DEF IInv, SteerInv, TypeOK, StoppedInv,
           CommandInv, LaneInv
  <1>9. GivenInv'
    BY <1>1, <1>3, SteersDiffer, TaskTypes DEF IInv, GivenInv, TypeOK, HandInv,
           SteerInv, CommandInv, LaneInv
  <1>10. (TurnInv /\ CommandInv /\ AddedInv /\ RunsEndOnce /\ PausedUnlessCompleted /\
         BoundaryOnce)'
    BY <1>2 DEF IInv, TurnInv, CommandInv, AddedInv, RunsEndOnce,
           PausedUnlessCompleted, BoundaryOnce
  <1> QED
    BY <1>4, <1>5, <1>6, <1>7, <1>8, <1>9, <1>10 DEF IInv

LEMMA SettleAtBoundaryPreserves ==
    ASSUME IInv, NEW b \in Boundary, SettleAtBoundary(b)
    PROVE  IInv' /\ RowsLive({})
  <1> USE DEF Acting
  <1>1. /\ Acting(AtBoundary(b), "sent") /\ Answered(Steer(b, step.item))
        /\ lane' = Tail(lane) /\ step' = Ready
    BY DEF SettleAtBoundary, ActionDone
  <1>2. step.item \in Item
    BY <1>1, ActionsDiffer DEF IInv, TypeOK, LaneInv
  <1>3. status[Steer(b, step.item)] \in {"completed", "failed"}
    BY <1>1 DEF Answered, IInv, SteerInv
  <1>4. \A d \in Boundary, i \in Item : ~Waiting(Steer(d, i)) /\ current.task # Steer(d, i)
    BY <1>1, ActionsDiffer DEF Answered, IInv, SteerInv
  <1>5. /\ item' \in [Item -> ItemRow]
        /\ \A j \in Item : /\ item'[j].status = IF j = step.item THEN status[Steer(b, step.item)]
                                                            ELSE item[j].status
                           /\ item'[j].boundary = item[j].boundary
    <2> DEFINE answer == status[Steer(b, step.item)]
    <2>1. answer \in ItemStatus /\ item \in [Item -> ItemRow]
      BY <1>3 DEF ItemStatus, IInv, TypeOK
    <2>2. item' = [item EXCEPT ![step.item].status = answer]
      BY DEF SettleAtBoundary
    <2> HIDE DEF answer
    <2>3. /\ item' \in [Item -> ItemRow]
          /\ \A j \in Item : /\ item'[j].status = IF j = step.item THEN answer ELSE item[j].status
                             /\ item'[j].boundary = item[j].boundary
      BY <2>1, <2>2, RowUpdate
    <2> QED
      BY <2>3 DEF answer
  <1>6. \A i \in Active' : i \in Active /\ i # step.item
    BY <1>3, <1>5 DEF Active
  <1>7. UNCHANGED <<session, control, status, runs, ends, tool, native, phase, mailbox,
                    current, turn, crashes, delivered>>
    BY DEF SettleAtBoundary
  <1>8. \A x : Waiting(x)' <=> Waiting(x)
    BY <1>1, <1>2, <1>3, <1>4, <1>5, <1>6, <1>7, WaitingSame
  <1>9. TypeOK'
    <2>1. item' \in [Item -> ItemRow]
      BY <1>1, <1>2, <1>3, <1>4, <1>5, <1>6, <1>7, ItemFacts DEF IInv, TypeOK,
             ItemStatus
    <2>2. lane' \in Seq(Action)
      BY <1>1, <1>2, <1>3, <1>4, <1>5, <1>6, <1>7, TaskTypes DEF IInv, TypeOK
    <2>3. step' \in LaneStep
      BY <1>1, <1>2, <1>3, <1>4, <1>5, <1>6, <1>7, ItemFacts DEF IInv, TypeOK
    <2> HIDE DEF SessionRow, ControlRow, ItemRow, CurrentTask, ActiveTurn, LaneStep
    <2> QED
      BY <2>1, <2>2, <2>3, <1>7 DEF IInv, TypeOK
  <1>10. StoppedInv'
    BY <1>1, <1>2, <1>3, <1>4, <1>5, <1>6, <1>7 DEF IInv, StoppedInv, TypeOK,
           Ambiguous, Active
  <1>11. TurnInv'
    BY <1>1, <1>2, <1>3, <1>4, <1>5, <1>6, <1>7, BoundAssumption
       DEF IInv, TurnInv, TypeOK, StoppedInv, Run
  <1>12. AddedInv'
    <2>1. \A i \in Item : item[i].status = "absent" => item'[i].status = "absent"
      BY <1>1, <1>2, <1>3, <1>4, <1>5, <1>6, <1>7, ItemFacts DEF IInv, TypeOK, HandInv
    <2>2. \A x \in CommandId : status'[x] = "none" => status[x] = "none"
      BY <1>1, <1>2, <1>3, <1>4, <1>5, <1>6, <1>7 DEF IInv, TypeOK
    <2>3. current' = current \/ current'.at # "accepted"
      BY <1>1, <1>2, <1>3, <1>4, <1>5, <1>6, <1>7
    <2> QED
      BY <2>1, <2>2, <2>3, AddedKept DEF IInv
  <1>13. LaneInv'
    BY <1>1, <1>2, <1>3, <1>4, <1>5, <1>6, <1>7, ActionsDiffer
       DEF IInv, LaneInv, TypeOK, StoppedInv
  <1>14. HandInv'
    <2>1. (current.at = "leased" <=> current.item # None)'
      BY <1>1, <1>2, <1>3, <1>4, <1>5, <1>6, <1>7, ItemFacts DEF IInv, HandInv, TypeOK,
             StoppedInv, LaneInv, Active
    <2>2. (turn.item # None => item[turn.item].status = "running")'
      BY <1>1, <1>2, <1>3, <1>4, <1>5, <1>6, <1>7, ItemFacts DEF IInv, HandInv, TypeOK,
             StoppedInv, LaneInv, Active
    <2>3. (step.item # None => item[step.item].status = "running" /\ step.item # turn.item)'
      BY <1>1, <1>2, <1>3, <1>4, <1>5, <1>6, <1>7, ItemFacts DEF IInv, HandInv, TypeOK,
             StoppedInv, LaneInv, Active
    <2>4. (current.item # None => item[current.item].status = "leased")'
      BY <1>1, <1>2, <1>3, <1>4, <1>5, <1>6, <1>7, ItemFacts DEF IInv, HandInv, TypeOK,
             StoppedInv, LaneInv, Active
    <2>5. (phase = "up" => \A i \in Active : i \in {turn.item, current.item, step.item})'
      BY <1>1, <1>2, <1>3, <1>4, <1>5, <1>6, <1>7, ItemFacts DEF IInv, HandInv, TypeOK,
             StoppedInv, LaneInv, Active
    <2> QED
      BY <2>1, <2>2, <2>3, <2>4, <2>5 DEF HandInv
  <1>15. SteerInv'
    <2>1. (\A d \in Boundary, i \in Item :
              Waiting(Steer(d, i)) \/ current.task = Steer(d, i) =>
                  step.at = "sent" /\ step.item = i /\ Head(lane) = AtBoundary(d))'
      BY <1>1, <1>2, <1>3, <1>4, <1>5, <1>6, <1>7, <1>8, SteersDiffer, ActionsDiffer
         DEF IInv, SteerInv, TypeOK, StoppedInv, CommandInv, LaneInv
    <2>2. (\A d \in Boundary :
              step.at = "sent" /\ Head(lane) = AtBoundary(d) =>
                  \/ Waiting(Steer(d, step.item)) \/ current.task = Steer(d, step.item)
                  \/ status[Steer(d, step.item)] \in {"completed", "failed"})'
      BY <1>1, <1>2, <1>3, <1>4, <1>5, <1>6, <1>7, <1>8, SteersDiffer, ActionsDiffer
         DEF IInv, SteerInv, TypeOK, StoppedInv, CommandInv, LaneInv
    <2> QED
      BY <2>1, <2>2 DEF SteerInv
  <1>16. GivenInv'
    <2>1. (\A i \in Item : delivered[i] \in {0, 1})'
      BY <1>1, <1>2, <1>3, <1>4, <1>5, <1>6, <1>7, <1>8, SteersDiffer, TaskTypes
         DEF IInv, GivenInv, TypeOK, HandInv, SteerInv, CommandInv, LaneInv
    <2>2. (\A i \in Item :
              item[i].status \in {"absent", "queued", "removed", "leased"} => delivered[i] = 0)'
      BY <1>1, <1>2, <1>3, <1>4, <1>5, <1>6, <1>7, <1>8, SteersDiffer, TaskTypes
         DEF IInv, GivenInv, TypeOK, HandInv, SteerInv, CommandInv, LaneInv
    <2>3. (step.at = "leased" => delivered[step.item] = 0)'
      BY <1>1, <1>2, <1>3, <1>4, <1>5, <1>6, <1>7, <1>8, SteersDiffer, TaskTypes
         DEF IInv, GivenInv, TypeOK, HandInv, SteerInv, CommandInv, LaneInv
    <2>4. (\A d \in Boundary, i \in Item :
              Waiting(Steer(d, i)) /\ status[Steer(d, i)] = "none" => delivered[i] = 0)'
      BY <1>1, <1>2, <1>3, <1>4, <1>5, <1>6, <1>7, <1>8, SteersDiffer, TaskTypes
         DEF IInv, GivenInv, TypeOK, HandInv, SteerInv, CommandInv, LaneInv
    <2>5. (\A d \in Boundary, i \in Item :
              current = [task |-> Steer(d, i), at |-> "accepted", item |-> None] => delivered[i] = 0)'
      BY <1>1, <1>2, <1>3, <1>4, <1>5, <1>6, <1>7, <1>8, SteersDiffer, TaskTypes
         DEF IInv, GivenInv, TypeOK, HandInv, SteerInv, CommandInv, LaneInv
    <2>6. (current.at = "begun" /\ turn.item # None => delivered[turn.item] = 0)'
      BY <1>1, <1>2, <1>3, <1>4, <1>5, <1>6, <1>7, <1>8, SteersDiffer, TaskTypes
         DEF IInv, GivenInv, TypeOK, HandInv, SteerInv, CommandInv, LaneInv
    <2> QED
      BY <2>1, <2>2, <2>3, <2>4, <2>5, <2>6 DEF GivenInv
  <1>17. BoundaryOnce'
    BY <1>1, <1>2, <1>3, <1>4, <1>5, <1>6, <1>7, NoneAssumption
       DEF IInv, BoundaryOnce, TypeOK
  <1>18. (CommandInv /\ RunsEndOnce /\ PausedUnlessCompleted)'
    BY <1>7 DEF IInv, CommandInv, RunsEndOnce, PausedUnlessCompleted
  <1>19. RowsLive({})
    BY <1>1, <1>2, <1>3, <1>4, <1>5, <1>6, <1>7, ItemFacts DEF RowsLive, IInv, TypeOK,
           HandInv, Active
  <1> QED
    BY <1>9, <1>10, <1>11, <1>12, <1>13, <1>14, <1>15, <1>16, <1>17, <1>18, <1>19
       DEF IInv

LEMMA AwaitIdlePreserves ==
    ASSUME IInv, NEW r \in Run, AwaitIdle(r)
    PROVE  IInv'
  <1> USE DEF Acting, AfterTurn, AwaitIdle, Mark
  <1>1. UNCHANGED <<session, control, item, status, runs, ends, tool, native, phase,
                    current, turn, lane, crashes, delivered>>
    OBVIOUS
  <1>2. \A x : Waiting(x)' <=> Waiting(x) \/ x = Mark
    BY WaitingAppend, TaskTypes DEF IInv, TypeOK
  <1>3. TypeOK'
    <2>1. mailbox' \in Seq(Task)
      BY TaskTypes DEF IInv, TypeOK
    <2>2. step' \in LaneStep
      BY ItemFacts DEF IInv, TypeOK
    <2> HIDE DEF SessionRow, ControlRow, ItemRow, CurrentTask, ActiveTurn, LaneStep
    <2> QED
      BY <2>1, <2>2, <1>1 DEF IInv, TypeOK
  <1>4. StoppedInv'
    BY DEF IInv, StoppedInv, TypeOK, Ambiguous, Active
  <1>5. LaneInv'
    BY ActionsDiffer DEF IInv, LaneInv, TypeOK, StoppedInv
  <1>6. HandInv'
    BY ItemFacts DEF IInv, HandInv, TypeOK, StoppedInv, LaneInv, Active
  <1>7. SteerInv'
    BY <1>2, SteersDiffer, ActionsDiffer DEF IInv, SteerInv, TypeOK, StoppedInv,
           CommandInv, LaneInv
  <1>8. GivenInv'
    BY <1>2, SteersDiffer, TaskTypes DEF IInv, GivenInv, TypeOK, HandInv, SteerInv,
           CommandInv, LaneInv
  <1>9. (TurnInv /\ CommandInv /\ AddedInv /\ RunsEndOnce /\ PausedUnlessCompleted /\
         BoundaryOnce)'
    BY <1>1 DEF IInv, TurnInv, CommandInv, AddedInv, RunsEndOnce,
           PausedUnlessCompleted, BoundaryOnce
  <1> QED
    BY <1>3, <1>4, <1>5, <1>6, <1>7, <1>8, <1>9 DEF IInv

LEMMA DropFollowUpPreserves ==
    ASSUME IInv, NEW r \in Run, DropFollowUp(r)
    PROVE  IInv'
  <1> USE DEF Acting, ActionDone, AfterTurn, DropFollowUp
  <1>1. UNCHANGED <<session, control, item, status, runs, ends, tool, native, phase,
                    mailbox, current, turn, crashes, delivered>>
    OBVIOUS
  <1>2. \A x : Waiting(x)' <=> Waiting(x)
    BY WaitingSame
  <1>3. TypeOK'
    <2>1. lane' \in Seq(Action)
      BY TaskTypes DEF IInv, TypeOK
    <2>2. step' \in LaneStep
      BY ItemFacts DEF IInv, TypeOK
    <2> HIDE DEF SessionRow, ControlRow, ItemRow, CurrentTask, ActiveTurn, LaneStep
    <2> QED
      BY <2>1, <2>2, <1>1 DEF IInv, TypeOK
  <1>4. StoppedInv'
    BY DEF IInv, StoppedInv, TypeOK, Ambiguous, Active
  <1>5. LaneInv'
    BY ActionsDiffer DEF IInv, LaneInv, TypeOK, StoppedInv
  <1>6. HandInv'
    BY ItemFacts DEF IInv, HandInv, TypeOK, StoppedInv, LaneInv, Active
  <1>7. SteerInv'
    BY <1>2, SteersDiffer, ActionsDiffer DEF IInv, SteerInv, TypeOK, StoppedInv,
           CommandInv, LaneInv
  <1>8. GivenInv'
    BY <1>2, SteersDiffer, TaskTypes DEF IInv, GivenInv, TypeOK, HandInv, SteerInv,
           CommandInv, LaneInv
  <1>9. (TurnInv /\ CommandInv /\ AddedInv /\ RunsEndOnce /\ PausedUnlessCompleted /\
         BoundaryOnce)'
    BY <1>1 DEF IInv, TurnInv, CommandInv, AddedInv, RunsEndOnce,
           PausedUnlessCompleted, BoundaryOnce
  <1> QED
    BY <1>3, <1>4, <1>5, <1>6, <1>7, <1>8, <1>9 DEF IInv

LEMMA DecideFollowUpPreserves ==
    ASSUME IInv, NEW r \in Run, DecideFollowUp(r)
    PROVE  IInv'
  <1> USE DEF Acting, AfterTurn, DecideFollowUp
  <1>1. UNCHANGED <<session, control, item, status, runs, ends, tool, native, phase,
                    mailbox, current, turn, lane, crashes, delivered>>
    OBVIOUS
  <1>2. \A x : Waiting(x)' <=> Waiting(x)
    BY WaitingSame
  <1>3. TypeOK'
    <2>1. step' \in LaneStep
      BY ItemFacts DEF IInv, TypeOK
    <2> HIDE DEF SessionRow, ControlRow, ItemRow, CurrentTask, ActiveTurn, LaneStep
    <2> QED
      BY <2>1, <1>1 DEF IInv, TypeOK
  <1>4. StoppedInv'
    BY DEF IInv, StoppedInv, TypeOK, Ambiguous, Active
  <1>5. LaneInv'
    BY ActionsDiffer DEF IInv, LaneInv, TypeOK, StoppedInv
  <1>6. HandInv'
    BY ItemFacts DEF IInv, HandInv, TypeOK, StoppedInv, LaneInv, Active
  <1>7. SteerInv'
    BY <1>2, SteersDiffer, ActionsDiffer DEF IInv, SteerInv, TypeOK, StoppedInv,
           CommandInv, LaneInv
  <1>8. GivenInv'
    BY <1>2, SteersDiffer, TaskTypes DEF IInv, GivenInv, TypeOK, HandInv, SteerInv,
           CommandInv, LaneInv
  <1>9. (TurnInv /\ CommandInv /\ AddedInv /\ RunsEndOnce /\ PausedUnlessCompleted /\
         BoundaryOnce)'
    BY <1>1 DEF IInv, TurnInv, CommandInv, AddedInv, RunsEndOnce,
           PausedUnlessCompleted, BoundaryOnce
  <1> QED
    BY <1>3, <1>4, <1>5, <1>6, <1>7, <1>8, <1>9 DEF IInv

LEMMA SendFollowUpPreserves ==
    ASSUME IInv, NEW r \in Run, SendFollowUp(r)
    PROVE  IInv'
  <1> USE DEF Acting, AfterTurn, FollowUp, SendFollowUp
  <1>1. UNCHANGED <<session, control, item, status, runs, ends, tool, native, phase,
                    current, turn, lane, crashes, delivered>>
    OBVIOUS
  <1>2. \A x : Waiting(x)' <=> Waiting(x) \/ x = FollowUp(r)
    BY WaitingAppend, TaskTypes DEF IInv, TypeOK
  <1>3. TypeOK'
    <2>1. mailbox' \in Seq(Task)
      BY TaskTypes DEF IInv, TypeOK
    <2>2. step' \in LaneStep
      BY ItemFacts DEF IInv, TypeOK
    <2> HIDE DEF SessionRow, ControlRow, ItemRow, CurrentTask, ActiveTurn, LaneStep
    <2> QED
      BY <2>1, <2>2, <1>1 DEF IInv, TypeOK
  <1>4. StoppedInv'
    BY DEF IInv, StoppedInv, TypeOK, Ambiguous, Active
  <1>5. LaneInv'
    BY ActionsDiffer DEF IInv, LaneInv, TypeOK, StoppedInv
  <1>6. HandInv'
    BY ItemFacts DEF IInv, HandInv, TypeOK, StoppedInv, LaneInv, Active
  <1>7. SteerInv'
    BY <1>2, SteersDiffer, ActionsDiffer DEF IInv, SteerInv, TypeOK, StoppedInv,
           CommandInv, LaneInv
  <1>8. GivenInv'
    BY <1>2, SteersDiffer, TaskTypes DEF IInv, GivenInv, TypeOK, HandInv, SteerInv,
           CommandInv, LaneInv
  <1>9. (TurnInv /\ CommandInv /\ AddedInv /\ RunsEndOnce /\ PausedUnlessCompleted /\
         BoundaryOnce)'
    BY <1>1 DEF IInv, TurnInv, CommandInv, AddedInv, RunsEndOnce,
           PausedUnlessCompleted, BoundaryOnce
  <1> QED
    BY <1>3, <1>4, <1>5, <1>6, <1>7, <1>8, <1>9 DEF IInv

LEMMA FollowUpAnsweredPreserves ==
    ASSUME IInv, NEW r \in Run, FollowUpAnswered(r)
    PROVE  IInv'
  <1> USE DEF Acting, ActionDone, AfterTurn, Answered, FollowUp, FollowUpAnswered
  <1>1. UNCHANGED <<session, control, item, status, runs, ends, tool, native, phase,
                    mailbox, current, turn, crashes, delivered>>
    OBVIOUS
  <1>2. \A x : Waiting(x)' <=> Waiting(x)
    BY WaitingSame
  <1>3. TypeOK'
    <2>1. lane' \in Seq(Action)
      BY TaskTypes DEF IInv, TypeOK
    <2>2. step' \in LaneStep
      BY ItemFacts DEF IInv, TypeOK
    <2> HIDE DEF SessionRow, ControlRow, ItemRow, CurrentTask, ActiveTurn, LaneStep
    <2> QED
      BY <2>1, <2>2, <1>1 DEF IInv, TypeOK
  <1>4. StoppedInv'
    BY DEF IInv, StoppedInv, TypeOK, Ambiguous, Active
  <1>5. LaneInv'
    BY ActionsDiffer DEF IInv, LaneInv, TypeOK, StoppedInv
  <1>6. HandInv'
    BY ItemFacts DEF IInv, HandInv, TypeOK, StoppedInv, LaneInv, Active
  <1>7. SteerInv'
    BY <1>2, SteersDiffer, ActionsDiffer DEF IInv, SteerInv, TypeOK, StoppedInv,
           CommandInv, LaneInv
  <1>8. GivenInv'
    BY <1>2, SteersDiffer, TaskTypes DEF IInv, GivenInv, TypeOK, HandInv, SteerInv,
           CommandInv, LaneInv
  <1>9. (TurnInv /\ CommandInv /\ AddedInv /\ RunsEndOnce /\ PausedUnlessCompleted /\
         BoundaryOnce)'
    BY <1>1 DEF IInv, TurnInv, CommandInv, AddedInv, RunsEndOnce,
           PausedUnlessCompleted, BoundaryOnce
  <1> QED
    BY <1>3, <1>4, <1>5, <1>6, <1>7, <1>8, <1>9 DEF IInv

LEMMA StartToolPreserves ==
    ASSUME IInv, NEW b \in Boundary, StartTool(b)
    PROVE  IInv'
  <1> USE DEF StartTool
  <1>1. UNCHANGED <<session, control, item, status, runs, ends, native, phase, mailbox,
                    current, turn, lane, step, crashes, delivered>>
    OBVIOUS
  <1>2. TypeOK'
    <2>1. tool' \in [Boundary -> ToolCall]
      BY DEF IInv, TypeOK, ToolCall, NativeTurn
    <2> HIDE DEF SessionRow, ControlRow, ItemRow, CurrentTask, ActiveTurn, LaneStep
    <2> QED
      BY <2>1, <1>1 DEF IInv, TypeOK
  <1>3. (StoppedInv /\ TurnInv /\ CommandInv /\ AddedInv /\ LaneInv /\ HandInv /\
         SteerInv /\ GivenInv /\ RunsEndOnce /\ PausedUnlessCompleted /\
         BoundaryOnce)'
    BY <1>1 DEF IInv, StoppedInv, TurnInv, CommandInv, AddedInv, LaneInv, HandInv,
           SteerInv, GivenInv, RunsEndOnce, PausedUnlessCompleted, BoundaryOnce,
           Ambiguous, Active, Waiting
  <1> QED
    BY <1>2, <1>3 DEF IInv

LEMMA CompleteToolPreserves ==
    ASSUME IInv, NEW b \in Boundary, CompleteTool(b)
    PROVE  IInv'
  <1> USE DEF AtBoundary, CompleteTool, Heard
  <1>1. PICK heard \in {"done", "repeated"} : tool' = [tool EXCEPT ![b].status = heard]
    OBVIOUS
  <1>2. tool' \in [Boundary -> ToolCall]
    <2>1. tool \in [Boundary -> ToolCall]
      BY DEF IInv, TypeOK
    <2> HIDE DEF CompleteTool
    <2> QED
      BY <1>1, <2>1 DEF ToolCall
  <1>3. /\ lane' \in Seq(Action) /\ (lane # <<>> => lane' # <<>> /\ Head(lane') = Head(lane))
    BY LaneGrows, TaskTypes DEF IInv, TypeOK
  <1>4. UNCHANGED <<session, control, item, status, runs, ends, native, phase, mailbox,
                    current, turn, step, crashes, delivered>>
    OBVIOUS
  <1>5. \A x : Waiting(x)' <=> Waiting(x)
    BY <1>1, <1>2, <1>3, WaitingSame
  <1>6. TypeOK'
    <2>1. tool' \in [Boundary -> ToolCall]
      BY <1>1, <1>2, <1>3 DEF IInv, TypeOK, ToolCall
    <2>2. lane' \in Seq(Action)
      BY <1>1, <1>2, <1>3, TaskTypes DEF IInv, TypeOK
    <2> HIDE DEF SessionRow, ControlRow, ItemRow, CurrentTask, ActiveTurn, LaneStep
    <2> QED
      BY <2>1, <2>2, <1>4 DEF IInv, TypeOK
  <1>7. StoppedInv'
    BY <1>1, <1>2, <1>3 DEF IInv, StoppedInv, TypeOK, Ambiguous, Active
  <1>8. LaneInv'
    BY <1>1, <1>2, <1>3, ActionsDiffer DEF IInv, LaneInv, TypeOK, StoppedInv
  <1>9. SteerInv'
    BY <1>1, <1>2, <1>3, <1>5, SteersDiffer, ActionsDiffer DEF IInv, SteerInv, TypeOK,
           StoppedInv, CommandInv, LaneInv
  <1>10. (TurnInv /\ CommandInv /\ AddedInv /\ HandInv /\ GivenInv /\ RunsEndOnce /\
         PausedUnlessCompleted /\ BoundaryOnce)'
    BY <1>4 DEF IInv, TurnInv, CommandInv, AddedInv, HandInv, GivenInv, RunsEndOnce,
           PausedUnlessCompleted, BoundaryOnce, Active, Waiting
  <1> QED
    BY <1>6, <1>7, <1>8, <1>9, <1>10 DEF IInv

LEMMA EndTurnPreserves ==
    ASSUME IInv, EndTurn
    PROVE  IInv'
  <1> USE DEF EndTurn
  <1>1. UNCHANGED <<session, control, item, status, runs, ends, tool, phase, mailbox,
                    current, turn, lane, step, crashes, delivered>>
    OBVIOUS
  <1>2. TypeOK'
    <2>1. native' \in NativeTurn
      BY DEF IInv, TypeOK, NativeTurn, Ending
    <2> HIDE DEF SessionRow, ControlRow, ItemRow, CurrentTask, ActiveTurn, LaneStep
    <2> QED
      BY <2>1, <1>1 DEF IInv, TypeOK
  <1>3. TurnInv'
    BY BoundAssumption DEF IInv, TurnInv, TypeOK, StoppedInv, Run
  <1>4. (StoppedInv /\ CommandInv /\ AddedInv /\ LaneInv /\ HandInv /\ SteerInv /\
         GivenInv /\ RunsEndOnce /\ PausedUnlessCompleted /\ BoundaryOnce)'
    BY <1>1 DEF IInv, StoppedInv, CommandInv, AddedInv, LaneInv, HandInv, SteerInv,
           GivenInv, RunsEndOnce, PausedUnlessCompleted, BoundaryOnce, Ambiguous,
           Active, Waiting
  <1> QED
    BY <1>2, <1>3, <1>4 DEF IInv

LEMMA ReportEndPreserves ==
    ASSUME IInv, ReportEnd
    PROVE  IInv'
  <1> USE DEF Finish, Heard, ReportEnd
  <1>1. /\ Finish(native.run, native.status) \in Task
        /\ \A b \in Boundary, i \in Item : Finish(native.run, native.status) # Steer(b, i)
    <2>1. native.run \in Run /\ native.status \in Ending
      BY DEF IInv, TypeOK, TurnInv, NativeTurn, Ending
    <2> QED
      BY <2>1, TaskTypes, SteersDiffer
  <1>2. UNCHANGED <<session, control, item, status, runs, ends, tool, phase, current,
                    turn, lane, step, crashes, delivered>>
    OBVIOUS
  <1>3. \A x : Waiting(x)' <=> Waiting(x) \/ x = Finish(native.run, native.status)
    BY <1>1, WaitingAppend, TaskTypes DEF IInv, TypeOK
  <1>4. TypeOK'
    <2>1. native' \in NativeTurn
      BY <1>1 DEF IInv, TypeOK, NativeTurn, Ending
    <2>2. mailbox' \in Seq(Task)
      BY <1>1, TaskTypes DEF IInv, TypeOK
    <2> HIDE DEF SessionRow, ControlRow, ItemRow, CurrentTask, ActiveTurn, LaneStep
    <2> QED
      BY <2>1, <2>2, <1>2 DEF IInv, TypeOK
  <1>5. StoppedInv'
    BY <1>1 DEF IInv, StoppedInv, TypeOK, Ambiguous, Active
  <1>6. TurnInv'
    BY <1>1, BoundAssumption DEF IInv, TurnInv, TypeOK, StoppedInv, Run
  <1>7. SteerInv'
    BY <1>1, <1>3, SteersDiffer, ActionsDiffer DEF IInv, SteerInv, TypeOK, StoppedInv,
           CommandInv, LaneInv
  <1>8. GivenInv'
    BY <1>1, <1>3, SteersDiffer, TaskTypes DEF IInv, GivenInv, TypeOK, HandInv,
           SteerInv, CommandInv, LaneInv
  <1>9. (CommandInv /\ AddedInv /\ LaneInv /\ HandInv /\ RunsEndOnce /\
         PausedUnlessCompleted /\ BoundaryOnce)'
    BY <1>2 DEF IInv, CommandInv, AddedInv, LaneInv, HandInv, RunsEndOnce,
           PausedUnlessCompleted, BoundaryOnce, Active
  <1> QED
    BY <1>4, <1>5, <1>6, <1>7, <1>8, <1>9 DEF IInv

LEMMA CrashPreserves ==
    ASSUME IInv, Crash
    PROVE  IInv'
  <1>1. /\ phase' = "down" /\ mailbox' = <<>> /\ current' = Rest /\ turn' = NoTurn
        /\ lane' = <<>> /\ step' = Ready /\ native' = [native EXCEPT !.heard = FALSE]
    BY DEF Crash
  <1>2. crashes' \in 0 .. MaxCrash
    <2>1. crashes < MaxCrash /\ crashes' = crashes + 1
      BY DEF Crash
    <2>2. crashes \in 0 .. MaxCrash
      BY DEF IInv, TypeOK
    <2> QED
      BY <2>1, <2>2, BoundAssumption
  <1>3. UNCHANGED <<session, control, item, status, runs, ends, tool, delivered>>
    BY DEF Crash
  <1>4. \A x : ~Waiting(x)'
    BY <1>1, <1>2, <1>3, WaitingSame
  <1>5. TypeOK'
    <2>1. native' \in NativeTurn
      BY <1>1, <1>2, <1>3 DEF IInv, TypeOK, NativeTurn, Ending
    <2>2. phase' \in {"up", "down", "recovering"}
      BY <1>1, <1>2, <1>3 DEF IInv, TypeOK
    <2>3. mailbox' \in Seq(Task)
      BY <1>1, <1>2, <1>3, TaskTypes DEF IInv, TypeOK
    <2>4. current' \in CurrentTask
      BY <1>1, <1>2, <1>3, TaskTypes, ItemFacts DEF IInv, TypeOK
    <2>5. turn' \in ActiveTurn
      BY <1>1, <1>2, <1>3, ItemFacts, BoundAssumption DEF IInv, TypeOK, Run
    <2>6. lane' \in Seq(Action)
      BY <1>1, <1>2, <1>3, TaskTypes DEF IInv, TypeOK
    <2>7. step' \in LaneStep
      BY <1>1, <1>2, <1>3, ItemFacts DEF IInv, TypeOK
    <2>8. crashes' \in 0 .. MaxCrash
      BY <1>1, <1>2, <1>3, BoundAssumption DEF IInv, TypeOK
    <2> HIDE DEF SessionRow, ControlRow, ItemRow, CurrentTask, ActiveTurn, LaneStep
    <2> QED
      BY <2>1, <2>2, <2>3, <2>4, <2>5, <2>6, <2>7, <2>8, <1>3
         DEF IInv, TypeOK
  <1>6. StoppedInv'
    BY <1>1, <1>2, <1>3 DEF IInv, StoppedInv, TypeOK, Ambiguous, Active
  <1>7. TurnInv'
    BY <1>1, <1>2, <1>3, BoundAssumption DEF IInv, TurnInv, TypeOK, StoppedInv, Run
  <1>8. CommandInv'
    BY <1>1, <1>2, <1>3, TaskTypes DEF IInv, CommandInv, TypeOK, StoppedInv
  <1>9. AddedInv'
    BY <1>1, <1>2, <1>3, TaskTypes DEF IInv, AddedInv, TypeOK, CommandInv
  <1>10. LaneInv'
    BY <1>1, <1>2, <1>3, ActionsDiffer DEF IInv, LaneInv, TypeOK, StoppedInv
  <1>11. HandInv'
    BY <1>1, <1>2, <1>3, ItemFacts DEF IInv, HandInv, TypeOK, StoppedInv, LaneInv,
           Active
  <1>12. SteerInv'
    BY <1>1, <1>2, <1>3, <1>4, SteersDiffer, ActionsDiffer DEF IInv, SteerInv, TypeOK,
           StoppedInv, CommandInv, LaneInv
  <1>13. GivenInv'
    BY <1>1, <1>2, <1>3, <1>4, SteersDiffer, TaskTypes DEF IInv, GivenInv, TypeOK,
           HandInv, SteerInv, CommandInv, LaneInv
  <1>14. (RunsEndOnce /\ PausedUnlessCompleted /\ BoundaryOnce)'
    BY <1>3 DEF IInv, RunsEndOnce, PausedUnlessCompleted, BoundaryOnce
  <1> QED
    BY <1>5, <1>6, <1>7, <1>8, <1>9, <1>10, <1>11, <1>12, <1>13, <1>14
       DEF IInv

LEMMA ConvergeOrphansPreserves ==
    ASSUME IInv, ConvergeOrphans
    PROVE  IInv' /\ RowsLive({})
  <1>1. phase = "down" /\ session.run = NoRun /\ phase' = "up"
    BY DEF ConvergeOrphans
  <1>2. mailbox = <<>> /\ current = Rest /\ turn = NoTurn /\ lane = <<>> /\ step = Ready
    BY <1>1 DEF IInv, StoppedInv
  <1>3. /\ status' \in [CommandId -> CommandStatus]
        /\ \A x \in CommandId : status'[x] = IF status[x] = "accepted" THEN "failed" ELSE status[x]
    BY DEF ConvergeOrphans, FailAccepted, IInv, TypeOK, CommandStatus
  <1>4. /\ control' \in ControlRow /\ control'.lastRun = control.lastRun
        /\ ~control'.paused => ~control.paused
    BY DEF ConvergeOrphans, IInv, TypeOK
  <1>5. /\ item' \in [Item -> ItemRow]
        /\ \A i \in Item : /\ item'[i].status = CASE item[i].status = "leased" -> "queued"
                                                    [] item[i].status = "running" -> "failed"
                                                    [] OTHER -> item[i].status
                           /\ item'[i].boundary \in {item[i].boundary, None}
    <2>1. ASSUME NEW i \in Item
          PROVE  /\ item'[i] \in ItemRow
                 /\ item'[i].status = CASE item[i].status = "leased" -> "queued"
                                          [] item[i].status = "running" -> "failed"
                                          [] OTHER -> item[i].status
                 /\ item'[i].boundary \in {item[i].boundary, None}
      <3>1. item[i] \in ItemRow
        BY DEF IInv, TypeOK
      <3>2. item'[i] = CASE item[i].status = "leased" -> [item[i] EXCEPT !.status = "queued", !.boundary = None]
                         [] item[i].status = "running" -> [item[i] EXCEPT !.status = "failed"]
                         [] OTHER -> item[i]
        BY DEF ConvergeOrphans, Requeues, Active
      <3> QED
        BY <3>1, <3>2 DEF ItemStatus
    <2>2. item' = [i \in Item |-> item'[i]]
      BY DEF ConvergeOrphans
    <2> QED
      BY <2>1, <2>2
  <1>6. Active' = {}
    BY <1>5 DEF Active, IInv, TypeOK, ItemStatus
  <1>7. UNCHANGED <<session, runs, ends, tool, native, mailbox, current, turn, lane,
                    step, crashes, delivered>>
    BY DEF ConvergeOrphans
  <1>8. \A x : Waiting(x)' <=> Waiting(x)
    BY <1>1, <1>2, <1>3, <1>4, <1>5, <1>6, <1>7, WaitingSame
  <1>9. TypeOK'
    <2>1. control' \in ControlRow
      BY <1>1, <1>2, <1>3, <1>4, <1>5, <1>6, <1>7 DEF IInv, TypeOK, Run
    <2>2. item' \in [Item -> ItemRow]
      BY <1>1, <1>2, <1>3, <1>4, <1>5, <1>6, <1>7, ItemFacts DEF IInv, TypeOK,
             ItemStatus
    <2>3. status' \in [CommandId -> CommandStatus]
      BY <1>1, <1>2, <1>3, <1>4, <1>5, <1>6, <1>7 DEF IInv, TypeOK, CommandStatus
    <2>4. phase' \in {"up", "down", "recovering"}
      BY <1>1, <1>2, <1>3, <1>4, <1>5, <1>6, <1>7 DEF IInv, TypeOK
    <2> HIDE DEF SessionRow, ControlRow, ItemRow, CurrentTask, ActiveTurn, LaneStep
    <2> QED
      BY <2>1, <2>2, <2>3, <2>4, <1>7 DEF IInv, TypeOK
  <1>10. StoppedInv'
    BY <1>1, <1>2, <1>3, <1>4, <1>5, <1>6, <1>7 DEF IInv, StoppedInv, TypeOK,
           Ambiguous, Active
  <1>11. TurnInv'
    BY <1>1, <1>2, <1>3, <1>4, <1>5, <1>6, <1>7, BoundAssumption
       DEF IInv, TurnInv, TypeOK, StoppedInv, Run
  <1>12. CommandInv'
    <2>1. (current.task = None <=> current = Rest)'
      BY <1>1, <1>2, <1>3, <1>4, <1>5, <1>6, <1>7, TaskTypes DEF IInv, CommandInv,
             TypeOK, StoppedInv
    <2>2. (current.task # None => status[current.task] = "accepted")'
      BY <1>1, <1>2, <1>3, <1>4, <1>5, <1>6, <1>7, TaskTypes DEF IInv, CommandInv,
             TypeOK, StoppedInv
    <2>3. (phase # "down" => \A t \in CommandId : status[t] = "accepted" => current.task = t)'
      BY <1>3
    <2> QED
      BY <2>1, <2>2, <2>3 DEF CommandInv
  <1>13. AddedInv'
    <2>1. \A i \in Item : item[i].status = "absent" => item'[i].status = "absent"
      BY <1>1, <1>2, <1>3, <1>4, <1>5, <1>6, <1>7, ItemFacts DEF IInv, TypeOK
    <2>2. \A x \in CommandId : status'[x] = "none" => status[x] = "none"
      BY <1>1, <1>2, <1>3, <1>4, <1>5, <1>6, <1>7 DEF IInv, TypeOK
    <2>3. current' = current \/ current'.at # "accepted"
      BY <1>1, <1>2, <1>3, <1>4, <1>5, <1>6, <1>7
    <2> QED
      BY <2>1, <2>2, <2>3, AddedKept DEF IInv
  <1>14. LaneInv'
    BY <1>1, <1>2, <1>3, <1>4, <1>5, <1>6, <1>7, ActionsDiffer
       DEF IInv, LaneInv, TypeOK, StoppedInv
  <1>15. HandInv'
    <2>1. (current.at = "leased" <=> current.item # None)'
      BY <1>1, <1>2, <1>3, <1>4, <1>5, <1>6, <1>7, ItemFacts DEF IInv, HandInv, TypeOK,
             StoppedInv, LaneInv, Active
    <2>2. (turn.item # None => item[turn.item].status = "running")'
      BY <1>1, <1>2, <1>3, <1>4, <1>5, <1>6, <1>7, ItemFacts DEF IInv, HandInv, TypeOK,
             StoppedInv, LaneInv, Active
    <2>3. (step.item # None => item[step.item].status = "running" /\ step.item # turn.item)'
      BY <1>1, <1>2, <1>3, <1>4, <1>5, <1>6, <1>7, ItemFacts DEF IInv, HandInv, TypeOK,
             StoppedInv, LaneInv, Active
    <2>4. (current.item # None => item[current.item].status = "leased")'
      BY <1>1, <1>2, <1>3, <1>4, <1>5, <1>6, <1>7, ItemFacts DEF IInv, HandInv, TypeOK,
             StoppedInv, LaneInv, Active
    <2>5. (phase = "up" => \A i \in Active : i \in {turn.item, current.item, step.item})'
      BY <1>1, <1>2, <1>3, <1>4, <1>5, <1>6, <1>7, ItemFacts DEF IInv, HandInv, TypeOK,
             StoppedInv, LaneInv, Active
    <2> QED
      BY <2>1, <2>2, <2>3, <2>4, <2>5 DEF HandInv
  <1>16. SteerInv'
    BY <1>1, <1>2, <1>3, <1>4, <1>5, <1>6, <1>7, <1>8, SteersDiffer, ActionsDiffer
       DEF IInv, SteerInv, TypeOK, StoppedInv, CommandInv, LaneInv
  <1>17. GivenInv'
    <2>1. (\A i \in Item : delivered[i] \in {0, 1})'
      BY <1>1, <1>2, <1>3, <1>4, <1>5, <1>6, <1>7, <1>8, SteersDiffer, TaskTypes
         DEF IInv, GivenInv, TypeOK, HandInv, SteerInv, CommandInv, LaneInv
    <2>2. (\A i \in Item :
              item[i].status \in {"absent", "queued", "removed", "leased"} => delivered[i] = 0)'
      BY <1>5, <1>7 DEF IInv, GivenInv
    <2>3. (step.at = "leased" => delivered[step.item] = 0)'
      BY <1>1, <1>2, <1>3, <1>4, <1>5, <1>6, <1>7, <1>8, SteersDiffer, TaskTypes
         DEF IInv, GivenInv, TypeOK, HandInv, SteerInv, CommandInv, LaneInv
    <2>4. (\A b \in Boundary, i \in Item :
              Waiting(Steer(b, i)) /\ status[Steer(b, i)] = "none" => delivered[i] = 0)'
      BY <1>1, <1>2, <1>3, <1>4, <1>5, <1>6, <1>7, <1>8, SteersDiffer, TaskTypes
         DEF IInv, GivenInv, TypeOK, HandInv, SteerInv, CommandInv, LaneInv
    <2>5. (\A b \in Boundary, i \in Item :
              current = [task |-> Steer(b, i), at |-> "accepted", item |-> None] => delivered[i] = 0)'
      BY <1>1, <1>2, <1>3, <1>4, <1>5, <1>6, <1>7, <1>8, SteersDiffer, TaskTypes
         DEF IInv, GivenInv, TypeOK, HandInv, SteerInv, CommandInv, LaneInv
    <2>6. (current.at = "begun" /\ turn.item # None => delivered[turn.item] = 0)'
      BY <1>1, <1>2, <1>3, <1>4, <1>5, <1>6, <1>7, <1>8, SteersDiffer, TaskTypes
         DEF IInv, GivenInv, TypeOK, HandInv, SteerInv, CommandInv, LaneInv
    <2> QED
      BY <2>1, <2>2, <2>3, <2>4, <2>5, <2>6 DEF GivenInv
  <1>18. PausedUnlessCompleted'
    BY <1>1, <1>2, <1>3, <1>4, <1>5, <1>6, <1>7, BoundAssumption
       DEF IInv, PausedUnlessCompleted, TypeOK, TurnInv, RunsEndOnce, Run
  <1>19. BoundaryOnce'
    BY <1>1, <1>2, <1>3, <1>4, <1>5, <1>6, <1>7, NoneAssumption
       DEF IInv, BoundaryOnce, TypeOK
  <1>20. (RunsEndOnce)'
    BY <1>7 DEF IInv, RunsEndOnce
  <1>21. RowsLive({})
    BY <1>1, <1>2, <1>3, <1>4, <1>5, <1>6, <1>7, ItemFacts DEF RowsLive, IInv, TypeOK,
           HandInv, Active
  <1> QED
    BY <1>9, <1>10, <1>11, <1>12, <1>13, <1>14, <1>15, <1>16, <1>17, <1>18, <1>19,
       <1>20, <1>21 DEF IInv

LEMMA BeginRecoveryPreserves ==
    ASSUME IInv, BeginRecovery
    PROVE  IInv'
  <1> USE DEF BeginRecovery, FailAccepted
  <1>1. UNCHANGED <<control, item, runs, ends, tool, native, mailbox, current, turn,
                    lane, step, crashes, delivered>>
    OBVIOUS
  <1>2. \A x : Waiting(x)' <=> Waiting(x)
    BY WaitingSame
  <1>3. TypeOK'
    <2>1. session' \in SessionRow
      BY BoundAssumption DEF IInv, TypeOK, Run
    <2>2. status' \in [CommandId -> CommandStatus]
      BY DEF IInv, TypeOK, CommandStatus
    <2>3. phase' \in {"up", "down", "recovering"}
      BY DEF IInv, TypeOK
    <2> HIDE DEF SessionRow, ControlRow, ItemRow, CurrentTask, ActiveTurn, LaneStep
    <2> QED
      BY <2>1, <2>2, <2>3, <1>1 DEF IInv, TypeOK
  <1>4. StoppedInv'
    BY DEF IInv, StoppedInv, TypeOK, Ambiguous, Active
  <1>5. TurnInv'
    BY BoundAssumption DEF IInv, TurnInv, TypeOK, StoppedInv, Run
  <1>6. CommandInv'
    BY TaskTypes DEF IInv, CommandInv, TypeOK, StoppedInv
  <1>7. AddedInv'
    BY TaskTypes DEF IInv, AddedInv, TypeOK, CommandInv
  <1>8. HandInv'
    BY ItemFacts DEF IInv, HandInv, TypeOK, StoppedInv, LaneInv, Active
  <1>9. SteerInv'
    BY <1>2, SteersDiffer, ActionsDiffer DEF IInv, SteerInv, TypeOK, StoppedInv,
           CommandInv, LaneInv
  <1>10. GivenInv'
    BY <1>2, SteersDiffer, TaskTypes DEF IInv, GivenInv, TypeOK, HandInv, SteerInv,
           CommandInv, LaneInv
  <1>11. RunsEndOnce'
    BY BoundAssumption DEF IInv, RunsEndOnce, TypeOK, TurnInv, Run
  <1>12. PausedUnlessCompleted'
    BY BoundAssumption DEF IInv, PausedUnlessCompleted, TypeOK, TurnInv, RunsEndOnce,
           Run
  <1>13. (LaneInv /\ BoundaryOnce)'
    BY <1>1 DEF IInv, LaneInv, BoundaryOnce
  <1> QED
    BY <1>3, <1>4, <1>5, <1>6, <1>7, <1>8, <1>9, <1>10, <1>11, <1>12, <1>13
       DEF IInv

LEMMA RecoverTurnPreserves ==
    ASSUME IInv, RecoverTurn
    PROVE  IInv' /\ RowsLive({})
  <1>1. phase = "recovering" /\ phase' = "up"
    BY DEF RecoverTurn
  <1>2. mailbox = <<>> /\ current = Rest /\ turn = NoTurn /\ lane = <<>> /\ step = Ready
    BY <1>1 DEF IInv, StoppedInv
  <1>3. /\ item' \in [Item -> ItemRow]
        /\ \A i \in Item : /\ item'[i].status = IF i \in Active THEN "running" ELSE item[i].status
                           /\ item'[i].boundary = item[i].boundary
    <2>1. ASSUME NEW i \in Item
          PROVE  /\ item'[i] \in ItemRow
                 /\ item'[i].status = IF i \in Active THEN "running" ELSE item[i].status
                 /\ item'[i].boundary = item[i].boundary
      <3>1. item[i] \in ItemRow
        BY DEF IInv, TypeOK
      <3>2. item'[i] = IF i \in Active THEN [item[i] EXCEPT !.status = "running"] ELSE item[i]
        BY DEF RecoverTurn
      <3> QED
        BY <3>1, <3>2 DEF ItemStatus
    <2>2. item' = [i \in Item |-> item'[i]]
      BY DEF RecoverTurn
    <2> QED
      BY <2>1, <2>2
  <1>4. \E i \in Active \cup {None} :
            /\ turn' = [run |-> session.run, item |-> i, interrupt |-> session.interrupt]
            /\ Active \subseteq {i}
    <2>1. \A i, j \in Active : i = j
      BY <1>1 DEF IInv, StoppedInv, Ambiguous
    <2> QED
      BY <2>1 DEF RecoverTurn
  <1>5. /\ session' \in SessionRow /\ session'.run = session.run
        /\ session'.state = "running" => ~session.interrupt
    BY DEF RecoverTurn, IInv, TypeOK
  <1>6. UNCHANGED <<control, status, runs, ends, tool, native, mailbox, current, lane,
                    step, crashes, delivered>>
    BY DEF RecoverTurn
  <1>7. \A x : Waiting(x)' <=> Waiting(x)
    BY <1>1, <1>2, <1>3, <1>4, <1>5, <1>6, WaitingSame
  <1>8. TypeOK'
    <2>1. session' \in SessionRow
      BY <1>1, <1>2, <1>3, <1>4, <1>5, <1>6, BoundAssumption DEF IInv, TypeOK, Run
    <2>2. item' \in [Item -> ItemRow]
      BY <1>1, <1>2, <1>3, <1>4, <1>5, <1>6, ItemFacts DEF IInv, TypeOK, ItemStatus
    <2>3. phase' \in {"up", "down", "recovering"}
      BY <1>1, <1>2, <1>3, <1>4, <1>5, <1>6 DEF IInv, TypeOK
    <2>4. turn' \in ActiveTurn
      BY <1>1, <1>2, <1>3, <1>4, <1>5, <1>6, ItemFacts, BoundAssumption
         DEF IInv, TypeOK, Run, Active
    <2> HIDE DEF SessionRow, ControlRow, ItemRow, CurrentTask, ActiveTurn, LaneStep
    <2> QED
      BY <2>1, <2>2, <2>3, <2>4, <1>6 DEF IInv, TypeOK
  <1>9. StoppedInv'
    BY <1>1, <1>2, <1>3, <1>4, <1>5, <1>6 DEF IInv, StoppedInv, TypeOK, Ambiguous,
           Active
  <1>10. TurnInv'
    BY <1>1, <1>2, <1>3, <1>4, <1>5, <1>6, BoundAssumption DEF IInv, TurnInv, TypeOK,
           StoppedInv, Run
  <1>11. CommandInv'
    BY <1>1, <1>2, <1>3, <1>4, <1>5, <1>6, TaskTypes DEF IInv, CommandInv, TypeOK,
           StoppedInv
  <1>12. AddedInv'
    <2>1. \A i \in Item : item[i].status = "absent" => item'[i].status = "absent"
      BY <1>1, <1>2, <1>3, <1>4, <1>5, <1>6, ItemFacts DEF IInv, TypeOK, Active
    <2>2. \A x \in CommandId : status'[x] = "none" => status[x] = "none"
      BY <1>1, <1>2, <1>3, <1>4, <1>5, <1>6 DEF IInv, TypeOK
    <2>3. current' = current \/ current'.at # "accepted"
      BY <1>1, <1>2, <1>3, <1>4, <1>5, <1>6
    <2> QED
      BY <2>1, <2>2, <2>3, AddedKept DEF IInv
  <1>13. LaneInv'
    BY <1>1, <1>2, <1>3, <1>4, <1>5, <1>6, ActionsDiffer DEF IInv, LaneInv, TypeOK,
           StoppedInv
  <1>14. HandInv'
    BY <1>1, <1>2, <1>3, <1>4, <1>5, <1>6, ItemFacts DEF IInv, HandInv, TypeOK,
           StoppedInv, LaneInv, Active
  <1>15. SteerInv'
    BY <1>1, <1>2, <1>3, <1>4, <1>5, <1>6, <1>7, SteersDiffer, ActionsDiffer
       DEF IInv, SteerInv, TypeOK, StoppedInv, CommandInv, LaneInv
  <1>16. GivenInv'
    <2>1. (\A i \in Item : delivered[i] \in {0, 1})'
      BY <1>1, <1>2, <1>3, <1>4, <1>5, <1>6, <1>7, SteersDiffer, TaskTypes
         DEF IInv, GivenInv, TypeOK, HandInv, SteerInv, CommandInv, LaneInv, Active,
             StoppedInv
    <2>2. (\A i \in Item :
              item[i].status \in {"absent", "queued", "removed", "leased"} => delivered[i] = 0)'
      BY <1>3, <1>6 DEF IInv, GivenInv, Active
    <2>3. (step.at = "leased" => delivered[step.item] = 0)'
      BY <1>1, <1>2, <1>3, <1>4, <1>5, <1>6, <1>7, SteersDiffer, TaskTypes
         DEF IInv, GivenInv, TypeOK, HandInv, SteerInv, CommandInv, LaneInv, Active,
             StoppedInv
    <2>4. (\A b \in Boundary, i \in Item :
              Waiting(Steer(b, i)) /\ status[Steer(b, i)] = "none" => delivered[i] = 0)'
      BY <1>1, <1>2, <1>3, <1>4, <1>5, <1>6, <1>7, SteersDiffer, TaskTypes
         DEF IInv, GivenInv, TypeOK, HandInv, SteerInv, CommandInv, LaneInv, Active,
             StoppedInv
    <2>5. (\A b \in Boundary, i \in Item :
              current = [task |-> Steer(b, i), at |-> "accepted", item |-> None] => delivered[i] = 0)'
      BY <1>1, <1>2, <1>3, <1>4, <1>5, <1>6, <1>7, SteersDiffer, TaskTypes
         DEF IInv, GivenInv, TypeOK, HandInv, SteerInv, CommandInv, LaneInv, Active,
             StoppedInv
    <2>6. (current.at = "begun" /\ turn.item # None => delivered[turn.item] = 0)'
      BY <1>1, <1>2, <1>3, <1>4, <1>5, <1>6, <1>7, SteersDiffer, TaskTypes
         DEF IInv, GivenInv, TypeOK, HandInv, SteerInv, CommandInv, LaneInv, Active,
             StoppedInv
    <2> QED
      BY <2>1, <2>2, <2>3, <2>4, <2>5, <2>6 DEF GivenInv
  <1>17. RunsEndOnce'
    BY <1>1, <1>2, <1>3, <1>4, <1>5, <1>6, BoundAssumption DEF IInv, RunsEndOnce,
           TypeOK, TurnInv, Run
  <1>18. PausedUnlessCompleted'
    BY <1>1, <1>2, <1>3, <1>4, <1>5, <1>6, BoundAssumption DEF IInv,
           PausedUnlessCompleted, TypeOK, TurnInv, RunsEndOnce, Run
  <1>19. BoundaryOnce'
    BY <1>1, <1>2, <1>3, <1>4, <1>5, <1>6, NoneAssumption DEF IInv, BoundaryOnce, TypeOK
  <1>20. RowsLive({})
    BY <1>1, <1>2, <1>3, <1>4, <1>5, <1>6, ItemFacts DEF RowsLive, IInv, TypeOK,
           HandInv, Active
  <1> QED
    BY <1>8, <1>9, <1>10, <1>11, <1>12, <1>13, <1>14, <1>15, <1>16, <1>17, <1>18,
       <1>19, <1>20 DEF IInv

LEMMA LoseTurnPreserves ==
    ASSUME IInv, LoseTurn
    PROVE  IInv' /\ RowsLive({})
  <1>1. phase # "up" /\ session.run # NoRun /\ phase' = "up"
    BY DEF LoseTurn, IInv, StoppedInv
  <1>2. mailbox = <<>> /\ current = Rest /\ turn = NoTurn /\ lane = <<>> /\ step = Ready
    BY <1>1 DEF IInv, StoppedInv
  <1>3. /\ item' \in [Item -> ItemRow]
        /\ \A i \in Item : /\ item'[i].status = IF i \in Active THEN "failed" ELSE item[i].status
                           /\ item'[i].boundary = item[i].boundary
    <2>1. ASSUME NEW i \in Item
          PROVE  /\ item'[i] \in ItemRow
                 /\ item'[i].status = IF i \in Active THEN "failed" ELSE item[i].status
                 /\ item'[i].boundary = item[i].boundary
      <3>1. item[i] \in ItemRow
        BY DEF IInv, TypeOK
      <3>2. item'[i] = IF i \in Active THEN [item[i] EXCEPT !.status = "failed"] ELSE item[i]
        BY DEF LoseTurn
      <3> QED
        BY <3>1, <3>2 DEF ItemStatus
    <2>2. item' = [i \in Item |-> item'[i]]
      BY DEF LoseTurn
    <2> QED
      BY <2>1, <2>2
  <1>4. session.run = runs /\ runs \in Run
    BY <1>1 DEF IInv, TypeOK, TurnInv
  <1>5. /\ session' = IdleSession /\ native' = [run |-> NoRun, status |-> "none", heard |-> FALSE]
        /\ control' \in ControlRow /\ control'.lastRun = control.lastRun /\ control'.paused
    BY DEF LoseTurn, IInv, TypeOK
  <1>6. ends' \in [Run -> Seq(Terminals)] /\ RunsEndOnce'
    <2>1. ends' = [ends EXCEPT ![runs] = Append(@, "lost")]
      BY <1>4 DEF LoseTurn
    <2>2. session'.run = NoRun /\ runs' = runs /\ "lost" \in Terminals
      BY <1>5 DEF LoseTurn, Terminals
    <2> QED
      BY <1>4, <2>1, <2>2, EndFacts DEF IInv
  <1>7. /\ status' \in [CommandId -> CommandStatus]
        /\ \A x \in CommandId : status'[x] = IF status[x] = "accepted" THEN "failed" ELSE status[x]
    BY DEF LoseTurn, FailAccepted, IInv, TypeOK, CommandStatus
  <1>8. UNCHANGED <<runs, tool, mailbox, current, turn, lane, step, crashes, delivered>>
    BY DEF LoseTurn
  <1>9. \A x : Waiting(x)' <=> Waiting(x)
    BY <1>1, <1>2, <1>3, <1>4, <1>5, <1>6, <1>7, <1>8, WaitingSame
  <1>10. TypeOK'
    <2>1. session' \in SessionRow
      BY <1>1, <1>2, <1>3, <1>4, <1>5, <1>6, <1>7, <1>8, BoundAssumption
         DEF IInv, TypeOK, Run
    <2>2. control' \in ControlRow
      BY <1>1, <1>2, <1>3, <1>4, <1>5, <1>6, <1>7, <1>8 DEF IInv, TypeOK, Run
    <2>3. item' \in [Item -> ItemRow]
      BY <1>1, <1>2, <1>3, <1>4, <1>5, <1>6, <1>7, <1>8, ItemFacts
         DEF IInv, TypeOK, ItemStatus
    <2>4. status' \in [CommandId -> CommandStatus]
      BY <1>1, <1>2, <1>3, <1>4, <1>5, <1>6, <1>7, <1>8 DEF IInv, TypeOK, CommandStatus
    <2>5. ends' \in [Run -> Seq(Terminals)]
      BY <1>1, <1>2, <1>3, <1>4, <1>5, <1>6, <1>7, <1>8 DEF IInv, TypeOK, Terminals,
             Ending
    <2>6. native' \in NativeTurn
      BY <1>1, <1>2, <1>3, <1>4, <1>5, <1>6, <1>7, <1>8 DEF IInv, TypeOK, NativeTurn,
             Ending
    <2>7. phase' \in {"up", "down", "recovering"}
      BY <1>1, <1>2, <1>3, <1>4, <1>5, <1>6, <1>7, <1>8 DEF IInv, TypeOK
    <2> HIDE DEF SessionRow, ControlRow, ItemRow, CurrentTask, ActiveTurn, LaneStep
    <2> QED
      BY <2>1, <2>2, <2>3, <2>4, <2>5, <2>6, <2>7, <1>8 DEF IInv, TypeOK
  <1>11. StoppedInv'
    BY <1>1, <1>2, <1>3, <1>4, <1>5, <1>6, <1>7, <1>8 DEF IInv, StoppedInv, TypeOK,
           Ambiguous, Active
  <1>12. TurnInv'
    BY <1>1, <1>2, <1>3, <1>4, <1>5, <1>6, <1>7, <1>8, BoundAssumption
       DEF IInv, TurnInv, TypeOK, StoppedInv, Run
  <1>13. CommandInv'
    <2>1. (current.task = None <=> current = Rest)'
      BY <1>1, <1>2, <1>3, <1>4, <1>5, <1>6, <1>7, <1>8, TaskTypes
         DEF IInv, CommandInv, TypeOK, StoppedInv
    <2>2. (current.task # None => status[current.task] = "accepted")'
      BY <1>1, <1>2, <1>3, <1>4, <1>5, <1>6, <1>7, <1>8, TaskTypes
         DEF IInv, CommandInv, TypeOK, StoppedInv
    <2>3. (phase # "down" => \A t \in CommandId : status[t] = "accepted" => current.task = t)'
      BY <1>7
    <2> QED
      BY <2>1, <2>2, <2>3 DEF CommandInv
  <1>14. AddedInv'
    <2>1. \A i \in Item : item[i].status = "absent" => item'[i].status = "absent"
      BY <1>1, <1>2, <1>3, <1>4, <1>5, <1>6, <1>7, <1>8, ItemFacts
         DEF IInv, TypeOK, Active
    <2>2. \A x \in CommandId : status'[x] = "none" => status[x] = "none"
      BY <1>1, <1>2, <1>3, <1>4, <1>5, <1>6, <1>7, <1>8 DEF IInv, TypeOK
    <2>3. current' = current \/ current'.at # "accepted"
      BY <1>1, <1>2, <1>3, <1>4, <1>5, <1>6, <1>7, <1>8
    <2> QED
      BY <2>1, <2>2, <2>3, AddedKept DEF IInv
  <1>15. LaneInv'
    BY <1>1, <1>2, <1>3, <1>4, <1>5, <1>6, <1>7, <1>8, ActionsDiffer
       DEF IInv, LaneInv, TypeOK, StoppedInv
  <1>16. HandInv'
    BY <1>1, <1>2, <1>3, <1>4, <1>5, <1>6, <1>7, <1>8, ItemFacts
       DEF IInv, HandInv, TypeOK, StoppedInv, LaneInv, Active
  <1>17. SteerInv'
    BY <1>1, <1>2, <1>3, <1>4, <1>5, <1>6, <1>7, <1>8, <1>9, SteersDiffer, ActionsDiffer
       DEF IInv, SteerInv, TypeOK, StoppedInv, CommandInv, LaneInv
  <1>18. GivenInv'
    <2>1. (\A i \in Item : delivered[i] \in {0, 1})'
      BY <1>1, <1>2, <1>3, <1>4, <1>5, <1>6, <1>7, <1>8, <1>9, SteersDiffer, TaskTypes
         DEF IInv, GivenInv, TypeOK, HandInv, SteerInv, CommandInv, LaneInv, Active
    <2>2. (\A i \in Item :
              item[i].status \in {"absent", "queued", "removed", "leased"} => delivered[i] = 0)'
      BY <1>3, <1>8 DEF IInv, GivenInv, Active
    <2>3. (step.at = "leased" => delivered[step.item] = 0)'
      BY <1>1, <1>2, <1>3, <1>4, <1>5, <1>6, <1>7, <1>8, <1>9, SteersDiffer, TaskTypes
         DEF IInv, GivenInv, TypeOK, HandInv, SteerInv, CommandInv, LaneInv, Active
    <2>4. (\A b \in Boundary, i \in Item :
              Waiting(Steer(b, i)) /\ status[Steer(b, i)] = "none" => delivered[i] = 0)'
      BY <1>1, <1>2, <1>3, <1>4, <1>5, <1>6, <1>7, <1>8, <1>9, SteersDiffer, TaskTypes
         DEF IInv, GivenInv, TypeOK, HandInv, SteerInv, CommandInv, LaneInv, Active
    <2>5. (\A b \in Boundary, i \in Item :
              current = [task |-> Steer(b, i), at |-> "accepted", item |-> None] => delivered[i] = 0)'
      BY <1>1, <1>2, <1>3, <1>4, <1>5, <1>6, <1>7, <1>8, <1>9, SteersDiffer, TaskTypes
         DEF IInv, GivenInv, TypeOK, HandInv, SteerInv, CommandInv, LaneInv, Active
    <2>6. (current.at = "begun" /\ turn.item # None => delivered[turn.item] = 0)'
      BY <1>1, <1>2, <1>3, <1>4, <1>5, <1>6, <1>7, <1>8, <1>9, SteersDiffer, TaskTypes
         DEF IInv, GivenInv, TypeOK, HandInv, SteerInv, CommandInv, LaneInv, Active
    <2> QED
      BY <2>1, <2>2, <2>3, <2>4, <2>5, <2>6 DEF GivenInv
  <1>19. RunsEndOnce'
    BY <1>1, <1>2, <1>3, <1>4, <1>5, <1>6, <1>7, <1>8, BoundAssumption
       DEF IInv, RunsEndOnce, TypeOK, TurnInv, Run
  <1>20. PausedUnlessCompleted'
    BY <1>1, <1>2, <1>3, <1>4, <1>5, <1>6, <1>7, <1>8, BoundAssumption
       DEF IInv, PausedUnlessCompleted, TypeOK, TurnInv, RunsEndOnce, Run
  <1>21. BoundaryOnce'
    BY <1>1, <1>2, <1>3, <1>4, <1>5, <1>6, <1>7, <1>8, NoneAssumption
       DEF IInv, BoundaryOnce, TypeOK
  <1>22. RowsLive({})
    BY <1>1, <1>2, <1>3, <1>4, <1>5, <1>6, <1>7, <1>8, ItemFacts
       DEF RowsLive, IInv, TypeOK, HandInv, Active
  <1> QED
    BY <1>10, <1>11, <1>12, <1>13, <1>14, <1>15, <1>16, <1>17, <1>18, <1>19, <1>20,
       <1>21, <1>22 DEF IInv

-----------------------------------------------------------------------------
(* The invariant.                                                          *)

LEMMA InitInv == Init => IInv
  <1> SUFFICES ASSUME Init
               PROVE  IInv
    OBVIOUS
  <1> USE DEF Init
  <1>1. TypeOK
    BY BoundAssumption, ItemFacts
    DEF TypeOK, Run, ItemStatus, CommandStatus, Terminals, ToolCall, NativeTurn, Ending
  <1>2. StoppedInv /\ TurnInv /\ CommandInv /\ AddedInv
    BY BoundAssumption, TaskTypes DEF StoppedInv, TurnInv, CommandInv, AddedInv
  <1>3. LaneInv /\ HandInv
    BY DEF LaneInv, HandInv, Active
  <1>4. SteerInv /\ GivenInv
    BY SteersDiffer DEF SteerInv, GivenInv, Waiting
  <1>5. RunsEndOnce /\ PausedUnlessCompleted /\ BoundaryOnce
    BY BoundAssumption DEF RunsEndOnce, PausedUnlessCompleted, BoundaryOnce, Run
  <1> QED
    BY <1>1, <1>2, <1>3, <1>4, <1>5 DEF IInv

\* Only the dispatch leases messages.
Lives == RowsLive({}) \/ \E t \in CommandId : LeaseForTurn(t)

LEMMA CommandPreserves ==
    ASSUME IInv, NEW t \in CommandId, CommandStep(t)
    PROVE  IInv' /\ Lives
  <1>1. CASE LeaseForTurn(t)
    BY <1>1, LeaseForTurnPreserves DEF Lives
  <1>2. CASE BeginLeased(t) \/ StartFails(t) \/ Add(t) \/ Remove(t) \/ Move(t)
    BY <1>2, BeginLeasedPreserves, StartFailsPreserves, AddPreserves, RemovePreserves,
       MovePreserves DEF Lives
  <1>3. CASE Accept(t) \/ AnswerDuplicate(t) \/ Refuse(t) \/ CompleteCommand(t) \/ Submit(t)
    <2>1. UNCHANGED item
      BY <1>3 DEF Accept, AnswerDuplicate, Refuse, CompleteCommand, Submit
    <2> QED
      BY <1>3, <2>1, AcceptPreserves, AnswerDuplicatePreserves, RefusePreserves,
         CompleteCommandPreserves, SubmitPreserves DEF Lives, RowsLive
  <1>4. CASE SkipFollowUp(t) \/ Start(t) \/ Interrupt(t) \/ InterruptTaken(t) \/ InterruptFails(t)
    <2>1. UNCHANGED item
      BY <1>4 DEF SkipFollowUp, Start, Interrupt, InterruptTaken, InterruptFails
    <2> QED
      BY <1>4, <2>1, SkipFollowUpPreserves, StartPreserves, InterruptPreserves,
         InterruptTakenPreserves, InterruptFailsPreserves DEF Lives, RowsLive
  <1>5. CASE Intervene(t) \/ InterventionTaken(t) \/ InterventionFails(t)
    <2>1. UNCHANGED item
      BY <1>5 DEF Intervene, InterventionTaken, InterventionFails
    <2> QED
      BY <1>5, <2>1, IntervenePreserves, InterventionTakenPreserves,
         InterventionFailsPreserves DEF Lives, RowsLive
  <1> QED
    BY <1>1, <1>2, <1>3, <1>4, <1>5 DEF CommandStep

LEMMA NextPreserves ==
    ASSUME IInv, Next
    PROVE  IInv' /\ Lives
  <1>1. ASSUME NEW c \in Command, Send(c)
        PROVE  IInv' /\ Lives
    BY <1>1, SendPreserves DEF Send, Lives, RowsLive
  <1>2. CASE ActorNext
    <2>1. ASSUME NEW t \in CommandId, CommandStep(t)
          PROVE  IInv' /\ Lives
      BY <2>1, CommandPreserves
    <2>2. ASSUME NEW r \in Run, NEW how \in Ending, FinishTurn(Finish(r, how))
          PROVE  IInv' /\ Lives
      <3>1. CASE turn.run = r
        BY <2>2, <3>1, FinishActivePreserves DEF Lives
      <3>2. CASE turn.run # r
        <4>1. UNCHANGED item
          BY <2>2, <3>2 DEF FinishTurn, Finish
        <4> QED
          BY <2>2, <3>2, <4>1, FinishStalePreserves DEF Lives, RowsLive
      <3> QED
        BY <3>1, <3>2
    <2>3. CASE PassMark
      BY <2>3, PassMarkPreserves DEF PassMark, Lives, RowsLive
    <2> QED
      BY <1>2, <2>1, <2>2, <2>3 DEF ActorNext
  <1>3. CASE LaneNext
    <2>1. ASSUME NEW b \in Boundary, LeaseAtBoundary(b) \/ SettleAtBoundary(b)
          PROVE  IInv' /\ Lives
      BY <2>1, LeaseAtBoundaryPreserves, SettleAtBoundaryPreserves DEF Lives
    <2>2. ASSUME NEW b \in Boundary, DropBoundary(b) \/ SendSteer(b)
          PROVE  IInv' /\ Lives
      BY <2>2, DropBoundaryPreserves, SendSteerPreserves
      DEF DropBoundary, SendSteer, Lives, RowsLive
    <2>3. ASSUME NEW r \in Run, AwaitIdle(r) \/ DropFollowUp(r) \/ DecideFollowUp(r)
          PROVE  IInv' /\ Lives
      BY <2>3, AwaitIdlePreserves, DropFollowUpPreserves, DecideFollowUpPreserves
      DEF AwaitIdle, DropFollowUp, DecideFollowUp, Lives, RowsLive
    <2>4. ASSUME NEW r \in Run, SendFollowUp(r) \/ FollowUpAnswered(r)
          PROVE  IInv' /\ Lives
      BY <2>4, SendFollowUpPreserves, FollowUpAnsweredPreserves
      DEF SendFollowUp, FollowUpAnswered, Lives, RowsLive
    <2> QED
      BY <1>3, <2>1, <2>2, <2>3, <2>4 DEF LaneNext
  <1>4. CASE ProviderNext
    <2>1. UNCHANGED item
      BY <1>4 DEF ProviderNext, EndTurn, ReportEnd, StartTool, CompleteTool
    <2>2. IInv'
      BY <1>4, EndTurnPreserves, ReportEndPreserves, StartToolPreserves, CompleteToolPreserves
      DEF ProviderNext
    <2> QED
      BY <2>1, <2>2 DEF Lives, RowsLive
  <1>5. CASE Crash
    BY <1>5, CrashPreserves DEF Crash, Lives, RowsLive
  <1>6. CASE RecoveryNext
    <2>1. CASE BeginRecovery
      BY <2>1, BeginRecoveryPreserves DEF BeginRecovery, Lives, RowsLive
    <2> QED
      BY <1>6, <2>1, ConvergeOrphansPreserves, RecoverTurnPreserves, LoseTurnPreserves
      DEF RecoveryNext, Lives
  <1> QED
    BY <1>1, <1>2, <1>3, <1>4, <1>5, <1>6 DEF Next

LEMMA StutterPreserves ==
    ASSUME IInv, UNCHANGED vars
    PROVE  IInv'
  <1>1. TypeOK' /\ StoppedInv' /\ TurnInv' /\ CommandInv' /\ AddedInv' /\ LaneInv'
    BY DEF vars, IInv, TypeOK, StoppedInv, Ambiguous, Active, TurnInv, CommandInv, AddedInv, LaneInv
  <1>2. HandInv' /\ SteerInv' /\ GivenInv'
    BY DEF vars, IInv, HandInv, Active, SteerInv, GivenInv, Waiting
  <1>3. RunsEndOnce' /\ PausedUnlessCompleted' /\ BoundaryOnce'
    BY DEF vars, IInv, RunsEndOnce, PausedUnlessCompleted, BoundaryOnce
  <1> QED
    BY <1>1, <1>2, <1>3 DEF IInv

-----------------------------------------------------------------------------
(* The theorems.                                                           *)

\* The inductive invariant holds in every reachable state of a session
\* (chat-runtime-actor.js, queue-coordinator.js, recovery-coordinator.js).
THEOREM Invariance == Spec => []IInv
  <1>1. Init => IInv
    BY InitInv
  <1>2. IInv /\ [Next]_vars => IInv'
    BY NextPreserves, StutterPreserves
  <1> QED
    BY <1>1, <1>2, PTL DEF Spec

\* Every reachable state of a session is well-typed.
THEOREM TypeCorrect == Spec => []TypeOK
  <1>1. IInv => TypeOK
    BY DEF IInv
  <1> QED
    BY <1>1, Invariance, PTL

\* Every run gets exactly one terminal event, however the end of its turn, a
\* stop, a failed start and a crash meet (settleTurn, recovery-storage fail).
THEOREM OneTerminalPerRun == Spec => []RunsEndOnce
  <1>1. IInv => RunsEndOnce
    BY DEF IInv
  <1> QED
    BY <1>1, Invariance, PTL

\* An idle session whose queue would go on by itself is one whose last run
\* completed (queueControl).
THEOREM QueuesGoOnAfterCompletion == Spec => []PausedUnlessCompleted
  <1>1. IInv => PausedUnlessCompleted
    BY DEF IInv
  <1> QED
    BY <1>1, Invariance, PTL

\* At most one message is sent into the end of a tool call
\* (boundaryAlreadyUsed).
THEOREM OneMessagePerBoundary == Spec => []BoundaryOnce
  <1>1. IInv => BoundaryOnce
    BY DEF IInv
  <1> QED
    BY <1>1, Invariance, PTL

\* A message that was taken from the queue is in exactly one hand, in the
\* state which that hand's next update expects (transitionInTransaction).
THEOREM OneHandPerMessage == Spec => []ItemsInHand
  <1>1. ASSUME IInv, phase = "up", NEW i \in Active
        PROVE  \E h \in Holders(i) : Holders(i) = {h}
    <2>1. i \in Item /\ i # None
      BY <1>1, ItemFacts DEF Active
    <2>2. \/ turn.item = i /\ current.item # i /\ step.item # i
          \/ turn.item # i /\ current.item = i /\ step.item # i
          \/ turn.item # i /\ current.item # i /\ step.item = i
      BY <1>1, <2>1 DEF IInv, HandInv
    <2> QED
      BY <2>2 DEF Holders
  <1>2. IInv => ItemsInHand
    BY <1>1 DEF IInv, HandInv, ItemsInHand
  <1> QED
    BY <1>2, Invariance, PTL

\* A message follows a run by itself only if that run is the last one and has
\* completed (SessionQueueLifecycle, dispatchNext).
THEOREM FollowUpsFollowCompletion == Spec => FollowsCompletion
  <1>1. ASSUME IInv, Next, NEW r \in Run, NEW i \in Item, current.task = FollowUp(r),
               item[i].status = "queued", item'[i].status = "leased"
        PROVE  r = runs /\ ends[r] = <<"completed">>
    <2>1. ~RowsLive({})
      BY <1>1 DEF RowsLive
    <2>2. PICK t \in CommandId : LeaseForTurn(t)
      BY <1>1, <2>1, NextPreserves DEF Lives
    <2>3. t = FollowUp(r) /\ t.kind = "follow_up" /\ t.run = r
      BY <1>1, <2>2 DEF LeaseForTurn, Executes, At, FollowUp
    <2>4. ~Superseded(r)
      BY <2>2, <2>3 DEF LeaseForTurn, Executes, TypeOf
    <2>5. session.run = NoRun /\ ~control.paused /\ control.lastRun = r
      BY <2>4 DEF Superseded
    <2>6. runs > 0
      BY <1>1, <2>5, BoundAssumption DEF IInv, TypeOK, TurnInv, Run
    <2> QED
      BY <1>1, <2>5, <2>6 DEF IInv, PausedUnlessCompleted
  <1>2. IInv /\ [Next]_vars =>
            [\A r \in Run, i \in Item :
                (current.task = FollowUp(r) /\ item[i].status = "queued" /\ item'[i].status = "leased") =>
                    r = runs /\ ends[r] = <<"completed">>]_vars
    BY <1>1
  <1> QED
    BY <1>2, Invariance, PTL DEF Spec, FollowsCompletion

\* Who hands a message to the provider.
LEMMA GivenSteps ==
    ASSUME IInv, Next
    PROVE  UNCHANGED delivered \/ \E t \in CommandId : Start(t) \/ Intervene(t)
  <1>1. ASSUME NEW t \in CommandId, CommandStep(t), ~Start(t), ~Intervene(t)
        PROVE  UNCHANGED delivered
    BY <1>1 DEF CommandStep, Accept, AnswerDuplicate, Refuse, CompleteCommand, Submit, LeaseForTurn,
       SkipFollowUp, BeginLeased, StartFails, Interrupt, InterruptTaken, InterruptFails, Add,
       Remove, Move, InterventionTaken, InterventionFails
  <1>2. CASE \E c \in Command : Send(c)
    BY <1>2 DEF Send
  <1>3. CASE (\E r \in Run, how \in Ending : FinishTurn(Finish(r, how))) \/ PassMark
    BY <1>3 DEF FinishTurn, PassMark
  <1>4. CASE LaneNext
    BY <1>4 DEF LaneNext, DropBoundary, LeaseAtBoundary, SendSteer, SettleAtBoundary, AwaitIdle,
       DropFollowUp, DecideFollowUp, SendFollowUp, FollowUpAnswered
  <1>5. CASE ProviderNext
    BY <1>5 DEF ProviderNext, EndTurn, ReportEnd, StartTool, CompleteTool
  <1>6. CASE Crash \/ RecoveryNext
    BY <1>6 DEF Crash, RecoveryNext, ConvergeOrphans, BeginRecovery, RecoverTurn, LoseTurn
  <1> QED
    BY <1>1, <1>2, <1>3, <1>4, <1>5, <1>6 DEF Next, ActorNext

\* Starting a turn hands over its message, an intervention the lane's.
LEMMA StartGives ==
    ASSUME IInv, NEW t \in CommandId, Start(t), NEW i \in Item, delivered'[i] # delivered[i]
    PROVE  i = turn.item /\ delivered[i] = 0 /\ item[i].status = "running" /\ UNCHANGED item
  <1>1. i = turn.item /\ turn.item # None
    BY ItemFacts DEF Start, IInv, TypeOK
  <1> QED
    BY <1>1 DEF Start, At, IInv, HandInv, GivenInv

LEMMA IntervenesGives ==
    ASSUME IInv, NEW t \in CommandId, Intervene(t), NEW i \in Item, delivered'[i] # delivered[i]
    PROVE  /\ i = step.item /\ delivered[i] = 0 /\ item[i].status = "running" /\ UNCHANGED item
           /\ item[i].boundary \in Boundary /\ ~BoundaryPassed(item[i].boundary)
           /\ turn.run = session.run /\ ~turn.interrupt
  <1>1. /\ phase = "up" /\ current.task = t /\ current.at = "accepted"
        /\ t.boundary \in Boundary /\ t.item \in Item
        /\ t = Steer(t.boundary, t.item) /\ ~BoundaryPassed(t.boundary)
    BY ExecutesFacts DEF Intervene
  <1>2. i = t.item /\ UNCHANGED item
    BY DEF Intervene, IInv, TypeOK
  <1>3. step.at = "sent" /\ step.item = i /\ Head(lane) = AtBoundary(t.boundary)
    BY <1>1, <1>2 DEF IInv, SteerInv
  <1>4. item[i].status = "running" /\ item[i].boundary = t.boundary
    BY <1>1, <1>3, ItemFacts, ActionsDiffer DEF IInv, HandInv, LaneInv
  <1>5. current = [task |-> t, at |-> "accepted", item |-> None]
    BY <1>1 DEF IInv, TypeOK, HandInv
  <1>6. delivered[i] = 0
    BY <1>1, <1>2, <1>5 DEF IInv, GivenInv
  <1>7. turn.run = session.run /\ ~turn.interrupt
    BY <1>1 DEF IInv, TurnInv, BoundaryPassed
  <1> QED
    BY <1>1, <1>2, <1>3, <1>4, <1>6, <1>7

\* A message sent into a tool's end reaches the run that made the call, which
\* is not being stopped (expectedRunId).
THEOREM SteersReachTheirRun == Spec => SteersItsRun
  <1>1. ASSUME IInv, Next, NEW i \in Item, delivered'[i] > delivered[i], turn.item # i
        PROVE  /\ tool[item[i].boundary].run = session.run
               /\ turn.run = session.run /\ ~turn.interrupt
    <2>1. delivered[i] \in Nat /\ delivered'[i] # delivered[i]
      BY <1>1 DEF IInv, TypeOK
    <2>2. PICK t \in CommandId : Start(t) \/ Intervene(t)
      BY <1>1, <2>1, GivenSteps
    <2>3. Intervene(t)
      BY <1>1, <2>1, <2>2, StartGives
    <2> QED
      BY <1>1, <2>1, <2>3, IntervenesGives DEF BoundaryPassed
  <1>2. IInv /\ [Next]_vars =>
            [\A i \in Item :
                (delivered'[i] > delivered[i] /\ turn.item # i) =>
                    /\ tool[item[i].boundary].run = session.run
                    /\ turn.run = session.run /\ ~turn.interrupt]_vars
    BY <1>1
  <1> QED
    BY <1>2, Invariance, PTL DEF Spec, SteersItsRun

-----------------------------------------------------------------------------
(* The session implements MessageQueue.                                    *)

Place == [i \in Item |-> PlaceOf(item[i].status)]

LEMMA PlaceSteps ==
    ASSUME IInv, Next, NEW i \in Item
    PROVE  \/ Place'[i] = Place[i]
           \/ /\ <<Place[i], Place'[i]>> \in {<<"absent", "queued">>, <<"queued", "removed">>,
                                             <<"queued", "taken">>, <<"taken", "ended">>}
              /\ UNCHANGED delivered
           \/ /\ Place[i] = "taken" /\ Place'[i] = "queued" /\ delivered[i] = 0
              /\ UNCHANGED delivered
  <1>1. CASE item'[i].status = item[i].status
    BY <1>1 DEF Place
  <1>2. CASE item'[i].status # item[i].status
    <2>1. UNCHANGED delivered
      <3>1. ASSUME NEW t \in CommandId, Start(t) \/ Intervene(t)
            PROVE  UNCHANGED item
        BY <3>1 DEF Start, Intervene
      <3> QED
        BY <1>2, <3>1, GivenSteps
    <2>2. RowsLive({}) \/ RowsLive({"leased"})
      BY NextPreserves, LeaseForTurnPreserves DEF Lives
    <2>3. \/ item[i].status = "absent" /\ item'[i].status = "queued"
          \/ item[i].status = "queued" /\ item'[i].status \in {"removed", "running", "leased"}
          \/ item[i].status = "leased" /\ item'[i].status \in {"queued", "running", "failed"}
          \/ item[i].status = "running" /\ item'[i].status \in {"completed", "failed"}
      BY <1>2, <2>2 DEF RowsLive
    <2>4. item[i].status = "leased" => delivered[i] = 0
      BY DEF IInv, GivenInv
    <2> QED
      BY <2>1, <2>3, <2>4 DEF Place, PlaceOf
  <1> QED
    BY <1>1, <1>2

LEMMA StepKeepsPromise ==
    ASSUME IInv, Next
    PROVE  Queue!Next
  <1>1. IInv'
    BY NextPreserves
  <1>2. Place' \in [Item -> Queue!Place] /\ delivered' \in [Item -> {0, 1}]
    <2>1. \A i \in Item : item'[i].status \in ItemStatus
      BY <1>1 DEF IInv, TypeOK
    <2>2. \A i \in Item : PlaceOf(item'[i].status) \in Queue!Place
      BY <2>1 DEF PlaceOf, ItemStatus, Queue!Place
    <2> QED
      BY <1>1, <2>2 DEF Place, IInv, TypeOK, GivenInv
  <1>3. ASSUME NEW i \in Item
        PROVE  \/ Place'[i] = Place[i] /\ delivered'[i] = delivered[i]
               \/ Queue!Life(i)
    <2>1. CASE delivered'[i] = delivered[i]
      BY <2>1, PlaceSteps DEF Queue!Life, Queue!Goes, Queue!Returns, Place
    <2>2. CASE delivered'[i] # delivered[i]
      <3>1. PICK t \in CommandId : Start(t) \/ Intervene(t)
        BY <2>2, GivenSteps
      <3>2. delivered[i] = 0 /\ item[i].status = "running" /\ UNCHANGED item
        BY <2>2, <3>1, StartGives, IntervenesGives
      <3>3. delivered'[i] = 1
        BY <1>2, <2>2, <3>2
      <3> QED
        BY <3>2, <3>3 DEF Queue!Life, Queue!HandedOver, PlaceOf
    <2> QED
      BY <2>1, <2>2
  <1> QED
    BY <1>2, <1>3 DEF Queue!Next, Queue!Keeps, Place

\* Through stops, failures, crashes and recoveries, every message keeps the
\* life that MessageQueue promises: it is handed over at most once, never
\* after it was taken back, and never returns to the queue after it was.
THEOREM QueueKept == Spec => QueueSpec
  <1>1. Init => Queue!Init
    BY DEF Init, Queue!Init, PlaceOf
  <1>2. UNCHANGED vars => UNCHANGED Queue!vars
    BY DEF vars, Queue!vars
  <1>3. IInv /\ [Next]_vars => [Queue!Next]_(Queue!vars)
    BY <1>2, StepKeepsPromise
  <1> QED
    BY <1>1, <1>3, Invariance, PTL DEF Spec, QueueSpec, Queue!Spec

-----------------------------------------------------------------------------
(***************************************************************************)
(* The active turn and the lane go on.                                     *)
(***************************************************************************)
GoesOn == TurnGoesOn /\ LaneGoesOn /\ HeardInv

\* What the mailbox holds for a turn or for the lane is no command.
LEMMA NoCommands ==
    /\ Mark \notin CommandId /\ \A r, how : Finish(r, how) \notin CommandId /\ Finish(r, how) # Mark
    /\ \A r, q, how, end : Finish(r, how) = Finish(q, end) => r = q
  <1>1. /\ Mark.kind = "mark"
        /\ \A r, how : Finish(r, how).kind = "finish" /\ Finish(r, how).run = r
        /\ \A t \in CommandId : t.kind \in {"user", "follow_up", "steer"}
    BY DEF Mark, Finish, CommandId, User, FollowUp, Steer
  <1> QED
    BY <1>1

\* A step that starts no turn, and takes nothing from the mailbox but commands.
LEMMA GoesOnKept ==
    ASSUME GoesOn, phase' = phase, native' = native,
           session'.run \in {session.run, NoRun},
           current.at = "begun" /\ session'.run # NoRun => current'.at = "begun",
           step'.at \in {"draining", "emptying"} => step'.at = step.at,
           \A t : t \notin CommandId /\ Waiting(t) => Waiting(t)'
    PROVE  GoesOn'
  <1>1. \A r, how : Waiting(Finish(r, how)) => Waiting(Finish(r, how))'
    BY NoCommands
  <1>2. Waiting(Mark) => Waiting(Mark)'
    BY NoCommands
  <1>3. LaneGoesOn'
    BY <1>2 DEF GoesOn, LaneGoesOn
  <1>4. HeardInv'
    BY DEF GoesOn, HeardInv
  <1>5. TurnGoesOn'
    <2> SUFFICES ASSUME phase = "up", session'.run # NoRun, current'.at # "begun"
                 PROVE  /\ native.run = session'.run
                        /\ \/ native.status = "running"
                           \/ /\ native.status \in Ending
                              /\ native.heard => Waiting(Finish(native.run, native.status))'
      BY DEF TurnGoesOn
    <2>1. session'.run = session.run /\ current.at # "begun"
      OBVIOUS
    <2> QED
      BY <1>1, <2>1 DEF GoesOn, TurnGoesOn
  <1> QED
    BY <1>3, <1>4, <1>5 DEF GoesOn

\* What the actor takes from its mailbox.
LEMMA TakenTask ==
    ASSUME TypeOK, NEW t, NextTask(t)
    PROVE  /\ phase = "up" /\ current.at = "rest"
           /\ \A u : u # t /\ Waiting(u) => Waiting(u)'
           /\ Waiting(t)
  BY WaitingTail DEF NextTask, TypeOK

LEMMA CommandsGoOn ==
    ASSUME IInv, GoesOn, NEW t \in CommandId, CommandStep(t)
    PROVE  GoesOn'
  <1> USE DEF IInv
  <1>1. CASE Accept(t) \/ AnswerDuplicate(t)
    <2>1. /\ NextTask(t) /\ UNCHANGED <<phase, native, session, step>>
      BY <1>1 DEF Accept, AnswerDuplicate
    <2>2. current.at # "begun" /\ \A u : u \notin CommandId /\ Waiting(u) => Waiting(u)'
      BY <2>1, TakenTask
    <2> QED
      BY <2>1, <2>2, GoesOnKept
  <1>2. CASE \/ Refuse(t) \/ CompleteCommand(t) \/ LeaseForTurn(t) \/ SkipFollowUp(t)
             \/ Interrupt(t) \/ InterruptTaken(t) \/ InterruptFails(t)
             \/ Add(t) \/ Remove(t) \/ Move(t)
             \/ Intervene(t) \/ InterventionTaken(t) \/ InterventionFails(t)
    <2>1. UNCHANGED <<phase, native, step, mailbox>> /\ session'.run = session.run
      BY <1>2 DEF Refuse, CompleteCommand, LeaseForTurn, SkipFollowUp, Interrupt, InterruptTaken,
                  InterruptFails, Add, Remove, Move, Intervene, InterventionTaken,
                  InterventionFails, TypeOK
    <2>2. current.at # "begun"
      BY <1>2 DEF Refuse, CompleteCommand, LeaseForTurn, SkipFollowUp, Interrupt, InterruptTaken,
                  InterruptFails, Add, Remove, Move, Intervene, InterventionTaken,
                  InterventionFails, Executes, At
    <2> QED
      BY <2>1, <2>2, WaitingSame, GoesOnKept
  <1>3. CASE Submit(t) \/ BeginLeased(t)
    <2>1. UNCHANGED <<phase, native, step, mailbox>> /\ current'.at = "begun"
      BY <1>3 DEF Submit, BeginLeased, BeginTurn, TypeOK
    <2> QED
      BY <2>1, WaitingSame DEF GoesOn, TurnGoesOn, LaneGoesOn, HeardInv
  <1>4. CASE Start(t)
    <2>1. /\ native' = [run |-> turn.run, status |-> "running", heard |-> FALSE]
          /\ UNCHANGED <<phase, step, mailbox>> /\ session'.run = session.run
          /\ phase = "up"
      BY <1>4 DEF Start, At, TypeOK
    <2>2. native'.run = session'.run /\ native'.status = "running" /\ ~native'.heard
      BY <2>1 DEF TurnInv
    <2> QED
      BY <2>1, <2>2, WaitingSame DEF GoesOn, TurnGoesOn, LaneGoesOn, HeardInv
  <1>5. CASE StartFails(t)
    <2>1. UNCHANGED <<phase, native, step, mailbox>> /\ session'.run = NoRun
      BY <1>5 DEF StartFails, Settle, Rested
    <2> QED
      BY <2>1, WaitingSame, GoesOnKept
  <1> QED
    BY <1>1, <1>2, <1>3, <1>4, <1>5 DEF CommandStep

\* The end of a turn that is taken from the mailbox settles it, or is of another.
LEMMA EndsGoOn ==
    ASSUME IInv, GoesOn, NEW r \in Run, NEW how \in Ending, FinishTurn(Finish(r, how))
    PROVE  GoesOn'
  <1> USE DEF IInv
  <1>1. /\ NextTask(Finish(r, how)) /\ UNCHANGED <<phase, native, step, current>>
        /\ Finish(r, how).run = r
    BY DEF FinishTurn, Finish
  <1>2. /\ phase = "up" /\ current.at = "rest" /\ turn.run = session.run
        /\ \A u : u # Finish(r, how) /\ Waiting(u) => Waiting(u)'
    BY <1>1, TakenTask DEF TurnInv
  <1>3. LaneGoesOn' /\ HeardInv'
    BY <1>1, <1>2, NoCommands DEF GoesOn, LaneGoesOn, HeardInv
  <1>4. CASE turn.run = r
    <2>1. session'.run = NoRun
      BY <1>1, <1>4 DEF FinishTurn, Settle, Rested
    <2> QED
      BY <1>3, <2>1 DEF GoesOn, TurnGoesOn
  <1>5. CASE turn.run # r
    <2>1. UNCHANGED session
      BY <1>1, <1>5 DEF FinishTurn
    <2>2. native.run = session.run /\ Waiting(Finish(native.run, native.status))
              => Waiting(Finish(native.run, native.status))'
      <3>1. native.run = session.run => Finish(native.run, native.status) # Finish(r, how)
        BY <1>2, <1>5, NoCommands
      <3> QED
        BY <1>1, <1>2, <3>1
    <2> QED
      BY <1>1, <1>2, <1>3, <2>1, <2>2 DEF GoesOn, TurnGoesOn
  <1> QED
    BY <1>4, <1>5

LEMMA MarksGoOn ==
    ASSUME IInv, GoesOn, PassMark
    PROVE  GoesOn'
  <1>1. NextTask(Mark) /\ UNCHANGED <<phase, native, session, current>>
    BY DEF PassMark
  <1>2. /\ current.at = "rest"
        /\ \A u : u # Mark /\ Waiting(u) => Waiting(u)'
    BY <1>1, TakenTask DEF IInv
  <1>3. step'.at \notin {"draining", "emptying"}
    BY DEF PassMark, IInv, TypeOK
  <1>4. TurnGoesOn'
    BY <1>1, <1>2, NoCommands DEF GoesOn, TurnGoesOn
  <1> QED
    BY <1>1, <1>3, <1>4 DEF GoesOn, LaneGoesOn, HeardInv

LEMMA LaneStepsGoOn ==
    ASSUME IInv, GoesOn, LaneNext
    PROVE  GoesOn'
  <1> USE DEF IInv
  <1>1. ASSUME NEW r \in Run, AwaitIdle(r) PROVE GoesOn'
    <2>1. /\ mailbox' = Append(mailbox, Mark) /\ mailbox \in Seq(Task) /\ Mark \in Task
          /\ UNCHANGED <<phase, native, session, current>>
      BY <1>1, TaskTypes DEF AwaitIdle, TypeOK
    <2>2. Waiting(Mark)' /\ \A u : Waiting(u) => Waiting(u)'
      BY <2>1, WaitingAppend
    <2> QED
      BY <2>1, <2>2 DEF GoesOn, TurnGoesOn, LaneGoesOn, HeardInv
  <1>2. ASSUME NEW b \in Boundary, SendSteer(b) PROVE GoesOn'
    <2>1. /\ mailbox' = Append(mailbox, Steer(b, step.item)) /\ step'.at = "sent"
          /\ UNCHANGED <<phase, native, session, current>>
      BY <1>2 DEF SendSteer, TypeOK
    <2>2. step.item \in Item
      BY <1>2, ActionsDiffer DEF SendSteer, Acting, LaneInv, TypeOK
    <2>3. \A u : Waiting(u) => Waiting(u)'
      BY <2>1, <2>2, TaskTypes, WaitingAppend DEF TypeOK
    <2> QED
      BY <2>1, <2>3, GoesOnKept
  <1>3. ASSUME NEW r \in Run, SendFollowUp(r) PROVE GoesOn'
    <2>1. /\ mailbox' = Append(mailbox, FollowUp(r)) /\ step'.at = "sent"
          /\ UNCHANGED <<phase, native, session, current>>
      BY <1>3 DEF SendFollowUp, TypeOK
    <2>2. \A u : Waiting(u) => Waiting(u)'
      BY <2>1, TaskTypes, WaitingAppend DEF TypeOK
    <2> QED
      BY <2>1, <2>2, GoesOnKept
  <1>4. ASSUME NEW b \in Boundary, DropBoundary(b) \/ LeaseAtBoundary(b) \/ SettleAtBoundary(b)
        PROVE  GoesOn'
    <2>1. /\ step'.at \in {"ready", "leased"}
          /\ UNCHANGED <<phase, native, session, current, mailbox>>
      BY <1>4 DEF DropBoundary, LeaseAtBoundary, SettleAtBoundary, ActionDone
    <2> QED
      BY <2>1, WaitingSame, GoesOnKept
  <1>5. ASSUME NEW r \in Run, DropFollowUp(r) \/ DecideFollowUp(r) \/ FollowUpAnswered(r)
        PROVE  GoesOn'
    <2>1. /\ step'.at \in {"ready", "decided"}
          /\ UNCHANGED <<phase, native, session, current, mailbox>>
      BY <1>5 DEF DropFollowUp, DecideFollowUp, FollowUpAnswered, ActionDone, TypeOK
    <2> QED
      BY <2>1, WaitingSame, GoesOnKept
  <1> QED
    BY <1>1, <1>2, <1>3, <1>4, <1>5 DEF LaneNext

\* The end of the provider's turn is heard once, and then waits in the mailbox.
LEMMA ProviderGoesOn ==
    ASSUME IInv, GoesOn, ProviderNext
    PROVE  GoesOn'
  <1> USE DEF IInv
  <1>1. CASE EndTurn
    <2>1. /\ UNCHANGED <<phase, session, current, step, mailbox>>
          /\ native.status = "running" /\ native'.status \in Ending
          /\ native'.run = native.run /\ native'.heard = native.heard
      BY <1>1 DEF EndTurn, TypeOK, NativeTurn
    <2>2. ~native.heard
      BY <2>1 DEF GoesOn, HeardInv, Ending
    <2>3. \A how \in Ending : how # "none"
      BY DEF Ending
    <2> QED
      BY <2>1, <2>2, <2>3, WaitingSame DEF GoesOn, TurnGoesOn, LaneGoesOn, HeardInv
  <1>2. CASE ReportEnd
    <2>1. /\ mailbox' = Append(mailbox, Finish(native.run, native.status))
          /\ UNCHANGED <<phase, session, current, step>> /\ phase = "up"
          /\ native.status \in Ending
          /\ native'.run = native.run /\ native'.status = native.status
      BY <1>2 DEF ReportEnd, Heard, TypeOK, NativeTurn
    <2>2. Finish(native.run, native.status) \in Task
      <3>1. native.status # "none" /\ native.run \in Run \cup {NoRun}
        BY <2>1 DEF TypeOK, NativeTurn, Ending
      <3>2. native.run \in Run
        BY <3>1 DEF TurnInv
      <3> QED
        BY <2>1, <3>2, TaskTypes
    <2>3. /\ Waiting(Finish(native.run, native.status))'
          /\ \A u : Waiting(u) => Waiting(u)'
      <3>1. \A u : Waiting(u)' <=> Waiting(u) \/ u = Finish(native.run, native.status)
        BY <2>1, <2>2, WaitingAppend DEF TypeOK
      <3>2. Finish(native'.run, native'.status) = Finish(native.run, native.status)
        BY <2>1
      <3> QED
        BY <3>1, <3>2
    <2> QED
      BY <2>1, <2>3 DEF GoesOn, TurnGoesOn, LaneGoesOn, HeardInv
  <1>3. ASSUME NEW b \in Boundary, StartTool(b) \/ CompleteTool(b) PROVE GoesOn'
    <2>1. UNCHANGED <<phase, native, session, current, step, mailbox>>
      BY <1>3 DEF StartTool, CompleteTool
    <2> QED
      BY <2>1, WaitingSame, GoesOnKept
  <1> QED
    BY <1>1, <1>2, <1>3 DEF ProviderNext

\* A crash forgets what was heard, and a recovery finds the provider's turn or
\* gives it up.
LEMMA RecoveryGoesOn ==
    ASSUME IInv, GoesOn, Crash \/ RecoveryNext
    PROVE  GoesOn'
  <1> USE DEF IInv
  <1>1. CASE Crash
    BY <1>1 DEF Crash, GoesOn, TurnGoesOn, LaneGoesOn, HeardInv, TypeOK, NativeTurn
  <1>2. CASE ConvergeOrphans \/ BeginRecovery
    <2>1. /\ phase = "down" /\ UNCHANGED <<native, step, mailbox>>
          /\ phase' = "up" => session'.run = NoRun
      BY <1>2 DEF ConvergeOrphans, BeginRecovery
    <2> QED
      BY <2>1, WaitingSame DEF GoesOn, TurnGoesOn, LaneGoesOn, HeardInv
  <1>3. CASE RecoverTurn
    <2>1. /\ phase = "recovering" /\ native.run = session.run /\ session'.run = session.run
          /\ UNCHANGED <<native, step, mailbox>>
      BY <1>3 DEF RecoverTurn, TypeOK
    <2>2. ~native.heard /\ native.status \in Ending \cup {"running"}
      BY <2>1 DEF GoesOn, HeardInv, StoppedInv, TypeOK, NativeTurn
    <2> QED
      BY <2>1, <2>2, WaitingSame DEF GoesOn, TurnGoesOn, LaneGoesOn, HeardInv
  <1>4. CASE LoseTurn
    <2>1. /\ session'.run = NoRun /\ UNCHANGED <<step, mailbox>>
          /\ ~native'.heard /\ native'.run = NoRun
      BY <1>4 DEF LoseTurn
    <2> QED
      BY <2>1, WaitingSame DEF GoesOn, TurnGoesOn, LaneGoesOn, HeardInv
  <1> QED
    BY <1>1, <1>2, <1>3, <1>4 DEF RecoveryNext

LEMMA NextGoesOn ==
    ASSUME IInv, GoesOn, [Next]_vars
    PROVE  GoesOn'
  <1>1. ASSUME NEW c \in Command, Send(c) PROVE GoesOn'
    <2>1. /\ mailbox' = Append(mailbox, User(c)) /\ mailbox \in Seq(Task) /\ User(c) \in Task
          /\ UNCHANGED <<phase, native, session, current, step>>
      BY <1>1, TaskTypes DEF Send, IInv, TypeOK
    <2>2. \A u : Waiting(u) => Waiting(u)'
      BY <2>1, WaitingAppend
    <2> QED
      BY <2>1, <2>2, GoesOnKept
  <1>2. CASE ActorNext
    BY <1>2, CommandsGoOn, EndsGoOn, MarksGoOn DEF ActorNext
  <1>3. CASE UNCHANGED vars
    BY <1>3, WaitingSame, GoesOnKept DEF vars
  <1> QED
    BY <1>1, <1>2, <1>3, LaneStepsGoOn, ProviderGoesOn, RecoveryGoesOn DEF Next

LEMMA GoesOnInvariance == Spec => []GoesOn
  <1>1. Init => GoesOn
    BY DEF Init, GoesOn, TurnGoesOn, LaneGoesOn, HeardInv
  <1> QED
    BY <1>1, NextGoesOn, Invariance, PTL DEF Spec

\* No run is left that nothing will end (finishTurn, recoverTurn): while the process
\* is up, the active turn is about to be started, its provider has it, or its end
\* will be reported or waits in the mailbox. This is the safety part of RunsEnd.
THEOREM ActiveTurnsCanEnd == Spec => []TurnGoesOn
  <1>1. GoesOn => TurnGoesOn
    BY DEF GoesOn
  <1> QED
    BY <1>1, GoesOnInvariance, PTL

\* The lane never waits for a mailbox to drain that has no mark of it
\* (waitForIdle).
THEOREM LaneIsPassedOn == Spec => []LaneGoesOn
  <1>1. GoesOn => LaneGoesOn
    BY DEF GoesOn
  <1> QED
    BY <1>1, GoesOnInvariance, PTL
=============================================================================
