---------------------------- MODULE ChatSession ----------------------------
(***************************************************************************)
(* One chat session of the Node server (src/lib/server/chat-runtime): its  *)
(* durable rows, the actor whose mailbox serialises commands and the ends  *)
(* of turns, the lane of automatic queue actions, the provider's native    *)
(* turn, and the process that may stop at any step and recover.            *)
(*                                                                         *)
(* An action is one stretch of code that runs without an await and commits *)
(* at most one transaction; where two of them follow at once, only a crash *)
(* can come between, and they are apart if that crash can be told.         *)
(***************************************************************************)
EXTENDS Integers, Sequences, FiniteSets

CONSTANTS
    Command,      \* the ids under which clients send commands
    Request,      \* what the command of each id asks for
    Boundary,     \* the tool calls that native turns may make
    None,         \* no command, item or boundary
    MaxRun,       \* bound: turns begun
    MaxEvent,     \* bound: commands that clients send, and crashes
    MaxMailbox,   \* bound: tasks in the mailbox when a client's is added
    MaxCrash,     \* bound: crashes of the process
    HooksFail     \* may an extension refuse a command?

Type == {"turn.submit", "slash.execute", "turn.interrupt", "queue.add",
         "queue.remove", "queue.move", "queue.dispatch"}
Policy == {"after_turn", "after_tool_boundary"}

\* The row of a queued message is known by the command that added it.
Item == {c \in Command : Request[c].type = "queue.add"}

ASSUME RequestAssumption ==
    /\ Request \in [Command -> [type : Type, policy : Policy,
                                item : Item \cup {None}, before : Item \cup {None}]]
    /\ \A c \in Command : Request[c].type \in {"queue.remove", "queue.move", "queue.dispatch"}
                            => Request[c].item \in Item
ASSUME CommandAssumption == IsFiniteSet(Command)
ASSUME BoundAssumption == MaxRun \in Nat /\ MaxEvent \in Nat /\ MaxMailbox \in Nat /\ MaxCrash \in Nat
ASSUME HookAssumption == HooksFail \in BOOLEAN

NoRun == 0
Run == 1 .. MaxRun

(***************************************************************************)
(* The tasks of the mailbox. The ids of automatic commands are made of     *)
(* what caused them, so that a repeated cause is a repeated command.       *)
(***************************************************************************)
User(c) == [kind |-> "user", command |-> c]
FollowUp(r) == [kind |-> "follow_up", run |-> r]
Steer(b, i) == [kind |-> "steer", boundary |-> b, item |-> i]
Finish(r, how) == [kind |-> "finish", run |-> r, how |-> how]
Mark == [kind |-> "mark"]

CommandId == {User(c) : c \in Command} \cup {FollowUp(r) : r \in Run}
                 \cup {Steer(b, i) : b \in Boundary, i \in Item}

ASSUME NoneAssumption == None \notin Command /\ None \notin Boundary /\ None \notin CommandId

\* How the provider's turn ends; an interruption counts as a failure.
Ending == {"completed", "failed"}
Task == CommandId \cup {Finish(r, how) : r \in Run, how \in Ending} \cup {Mark}

\* The actions of the lane.
AtBoundary(b) == [kind |-> "tool_boundary", boundary |-> b]
AfterTurn(r) == [kind |-> "turn_terminal", run |-> r]
Action == {AtBoundary(b) : b \in Boundary} \cup {AfterTurn(r) : r \in Run}

VARIABLES
    session,    \* row: state, run of the active turn, was a stop requested
    control,    \* row: the queue's pause and the run that ended last
    item,       \* rows of the queue
    status,     \* rows of the commands
    runs,       \* the number of runs begun
    ends,       \* rows: the terminal events of every run
    tool,       \* tool calls: the run that made it and what was heard of it
    native,     \* the provider's turn and whether its end was heard
    phase,      \* of the process
    mailbox,    \* of the actor, without the task it is at
    current,    \* that task
    turn,       \* the actor's active turn
    lane,       \* of the automatic queue coordinator, with the action it is at
    step,       \* how far that action is
    crashes,    \* the number of crashes
    delivered   \* how often each message was handed to the provider

rows == <<session, control, item, status, runs, ends>>
actor == <<mailbox, current, turn>>
lanes == <<lane, step>>
provider == <<tool, native>>
vars == <<session, control, item, status, runs, ends, tool, native, phase, mailbox,
          current, turn, lane, step, crashes, delivered>>

SessionRow == [state : {"idle", "starting", "running", "interrupting", "recovering"},
               run : Run \cup {NoRun}, interrupt : BOOLEAN]
ControlRow == [paused : BOOLEAN, lastRun : Run \cup {NoRun}]
ItemStatus == {"absent", "queued", "leased", "running", "completed", "failed", "removed"}
ItemRow == [status : ItemStatus, boundary : Boundary \cup {None}, position : Nat]
CommandStatus == {"none", "accepted", "completed", "failed"}
Terminals == Ending \cup {"lost"}
ToolCall == [run : Run \cup {NoRun}, status : {"none", "open", "done", "repeated"}]
NativeTurn == [run : Run \cup {NoRun}, status : Ending \cup {"none", "running"}, heard : BOOLEAN]
CurrentTask == [task : CommandId \cup {None}, item : Item \cup {None},
                at : {"rest", "accepted", "leased", "begun", "stopping", "steering", "effected"}]
ActiveTurn == [run : Run \cup {NoRun}, item : Item \cup {None}, interrupt : BOOLEAN]
LaneStep == [at : {"ready", "draining", "waiting", "emptying", "drained", "decided", "leased", "sent"},
             item : Item \cup {None}]

NoTurn == [run |-> NoRun, item |-> None, interrupt |-> FALSE]
IdleSession == [state |-> "idle", run |-> NoRun, interrupt |-> FALSE]
Rest == [task |-> None, at |-> "rest", item |-> None]
Ready == [at |-> "ready", item |-> None]

Init ==
    /\ session = IdleSession
    /\ control = [paused |-> FALSE, lastRun |-> NoRun]
    /\ item = [i \in Item |-> [status |-> "absent", boundary |-> None, position |-> 0]]
    /\ status = [t \in CommandId |-> "none"]
    /\ runs = 0
    /\ ends = [r \in Run |-> <<>>]
    /\ tool = [b \in Boundary |-> [run |-> NoRun, status |-> "none"]]
    /\ native = [run |-> NoRun, status |-> "none", heard |-> FALSE]
    /\ phase = "up"
    /\ mailbox = <<>> /\ current = Rest /\ turn = NoTurn
    /\ lane = <<>> /\ step = Ready
    /\ crashes = 0
    /\ delivered = [i \in Item |-> 0]

(***************************************************************************)
(* The mailbox.                                                            *)
(***************************************************************************)

Waiting(t) == \E k \in DOMAIN mailbox : mailbox[k] = t

\* The commands that wait or were accepted.
Sent == {c \in Command : status[User(c)] # "none" \/ Waiting(User(c))}

\* A client sends a command, for the first time or again. Sending waits for
\* the recovery of the session.
Send(c) ==
    /\ phase = "up"
    /\ Len(mailbox) < MaxMailbox /\ Cardinality(Sent \cup {c}) + crashes <= MaxEvent
    /\ User(c) # current.task /\ ~Waiting(User(c))
    /\ mailbox' = Append(mailbox, User(c))
    /\ UNCHANGED <<rows, current, turn, lanes, provider, phase, crashes, delivered>>

NextTask(t) ==
    /\ phase = "up" /\ current = Rest
    /\ mailbox # <<>> /\ Head(mailbox) = t
    /\ mailbox' = Tail(mailbox)

\* An id that was seen before is answered with what is stored.
Known(t) == status[t] # "none"

Accept(t) ==
    /\ NextTask(t) /\ ~Known(t)
    /\ status' = [status EXCEPT ![t] = "accepted"]
    /\ current' = [task |-> t, at |-> "accepted", item |-> None]
    /\ UNCHANGED <<session, control, item, runs, ends, turn, lanes, provider, phase,
                   crashes, delivered>>

AnswerDuplicate(t) ==
    /\ NextTask(t) /\ Known(t)
    /\ UNCHANGED <<rows, current, turn, lanes, provider, phase, crashes, delivered>>

At(t, at) == phase = "up" /\ current.task = t /\ current.at = at

CompleteCommand(t) ==
    /\ At(t, "effected")
    /\ status' = [status EXCEPT ![t] = "completed"]
    /\ current' = Rest
    /\ UNCHANGED <<session, control, item, runs, ends, mailbox, turn, lanes, provider,
                   phase, crashes, delivered>>

FailCommand(t) ==
    /\ status' = [status EXCEPT ![t] = "failed"]
    /\ current' = Rest

Effected == current' = [current EXCEPT !.at = "effected"]

(***************************************************************************)
(* The queue's rows.                                                       *)
(***************************************************************************)
Queued(i) == item[i].status = "queued"
Active == {i \in Item : item[i].status \in {"leased", "running"}}

\* The first queued message of a policy.
FirstQueued(policy) ==
    {i \in Item : /\ Queued(i) /\ Request[i].policy = policy
                  /\ \A j \in Item : Queued(j) /\ Request[j].policy = policy
                                       => item[i].position <= item[j].position}

LastPosition(p) == \A i \in Item : item[i].status \notin {"absent", "removed"} => item[i].position < p

AddItem(i, position) ==
    item' = [item EXCEPT ![i] = [status |-> "queued", boundary |-> None, position |-> position]]

\* The message goes before another one or behind all; the queued messages
\* share the positions they had.
Moved(i, before) ==
    LET waiting == {j \in Item : Queued(j)}
        Was(j) == item[j].position
    IN  {p \in [waiting -> {Was(j) : j \in waiting}] :
            /\ \A j, k \in waiting : p[j] = p[k] => j = k
            /\ \A j, k \in waiting \ {i} : Was(j) < Was(k) => p[j] < p[k]
            /\ \A j \in waiting \ {i} :
                 (p[i] < p[j]) = (before # None /\ Was(before) <= Was(j))}

(***************************************************************************)
(* Turns.                                                                  *)
(***************************************************************************)

\* beginTurn: a submission, also of a queued message, ends the pause.
BeginTurn(resumes, i) ==
    /\ runs < MaxRun
    /\ runs' = runs + 1
    /\ session' = [state |-> "starting", run |-> runs + 1, interrupt |-> FALSE]
    /\ control' = [control EXCEPT !.paused = @ /\ ~resumes]
    /\ turn' = [run |-> runs + 1, item |-> i, interrupt |-> FALSE]
    /\ current' = [current EXCEPT !.at = "begun", !.item = None]

\* A tool call whose result is not known holds the queue.
OutcomeUnknown(r) == \E b \in Boundary : tool[b].run = r /\ tool[b].status = "open"

\* The outcome of a run and of its queued message: a turn that was to stop
\* has failed, however its provider says it ended.
Terminal(how) == IF turn.interrupt THEN "failed" ELSE how

\* Mutant: only what nobody knows holds the queue.
PausesIfUnknown(r, how) == control.paused \/ OutcomeUnknown(r)

Pauses(r, how) == control.paused \/ OutcomeUnknown(r) \/ how # "completed"

\* Mutant: a settled run stays the current one.
RestedInPlace == [session EXCEPT !.state = "idle"]

Rested == IdleSession

\* settleTurn: one transaction, then its events reach the lane.
Settle(r, how) ==
    /\ ends' = [ends EXCEPT ![r] = Append(@, how)]
    /\ session' = Rested
    /\ control' = [paused |-> Pauses(r, how), lastRun |-> r]
    /\ item' = IF turn.item = None THEN item
               ELSE [item EXCEPT ![turn.item].status =
                        IF how = "completed" THEN "completed" ELSE "failed"]
    /\ turn' = NoTurn
    /\ lane' = IF Pauses(r, how) THEN lane ELSE Append(lane, AfterTurn(r))

(***************************************************************************)
(* Commands.                                                               *)
(***************************************************************************)
TypeOf(t) == IF t.kind = "user" THEN Request[t.command].type ELSE t.kind

\* A newer submit or stop may have won the race (SessionQueueLifecycle).
Superseded(r) ==
    session.state # "idle" \/ session.run # NoRun \/ control.paused \/ control.lastRun # r

\* Mutant: a run that is to stop still takes messages.
RunPassed(b) == session.run # tool[b].run

\* The boundary's run has ended or is being stopped (turn.intervene).
BoundaryPassed(b) == session.run # tool[b].run \/ session.state # "running"

\* A command the code answers with an error.
Busy == turn.run # NoRun

Refused(t) ==
    CASE TypeOf(t) \in {"turn.submit", "slash.execute"} -> Busy
      [] TypeOf(t) = "turn.interrupt" -> ~Busy
      [] TypeOf(t) = "queue.add" -> FALSE
      [] TypeOf(t) = "queue.remove" -> ~Queued(Request[t.command].item)
      [] TypeOf(t) = "queue.move" ->
            \/ ~Queued(Request[t.command].item)
            \/ (Request[t.command].before # None /\ ~Queued(Request[t.command].before))
      [] TypeOf(t) = "queue.dispatch" -> Busy \/ ~Queued(Request[t.command].item)
      [] TypeOf(t) = "follow_up" ->
            ~Superseded(t.run) /\ (Busy \/ FirstQueued("after_turn") = {})
      [] TypeOf(t) = "steer" -> BoundaryPassed(t.boundary)

Refuse(t) ==
    /\ At(t, "accepted") /\ (Refused(t) \/ HooksFail)
    /\ FailCommand(t)
    /\ UNCHANGED <<session, control, item, runs, ends, mailbox, turn, lanes, provider,
                   phase, crashes, delivered>>

Executes(t, type) == At(t, "accepted") /\ TypeOf(t) = type /\ ~Refused(t)

Submit(t) ==
    /\ \/ (Executes(t, "turn.submit") /\ BeginTurn(TRUE, None))
       \/ (Executes(t, "slash.execute") /\ BeginTurn(FALSE, None))
    /\ UNCHANGED <<item, status, ends, mailbox, lanes, provider, phase, crashes, delivered>>

Lease(t, i) ==
    /\ item' = [item EXCEPT ![i].status = "leased"]
    /\ current' = [current EXCEPT !.at = "leased", !.item = i]

\* queue.dispatch, of the message the user chose or of the first.
LeaseForTurn(t) ==
    /\ \/ Executes(t, "queue.dispatch") /\ Lease(t, Request[t.command].item)
       \/ /\ Executes(t, "follow_up") /\ ~Superseded(t.run)
          /\ \E i \in FirstQueued("after_turn") : Lease(t, i)
    /\ UNCHANGED <<session, control, status, runs, ends, mailbox, turn, lanes, provider,
                   phase, crashes, delivered>>

SkipFollowUp(t) ==
    /\ Executes(t, "follow_up") /\ Superseded(t.run)
    /\ Effected
    /\ UNCHANGED <<rows, mailbox, turn, lanes, provider, phase, crashes, delivered>>

BeginLeased(t) ==
    /\ At(t, "leased")
    /\ BeginTurn(TRUE, current.item)
    /\ item' = [item EXCEPT ![current.item].status = "running"]
    /\ UNCHANGED <<status, ends, mailbox, lanes, provider, phase, crashes, delivered>>

\* The driver takes the turn. Recovery does not tell a turn that is starting
\* from one that runs, so the change of phase that follows is one step with it.
Start(t) ==
    /\ At(t, "begun")
    /\ native' = [run |-> turn.run, status |-> "running", heard |-> FALSE]
    /\ session' = [session EXCEPT !.state = "running"]
    /\ delivered' = IF turn.item = None THEN delivered ELSE [delivered EXCEPT ![turn.item] = @ + 1]
    /\ Effected
    /\ UNCHANGED <<control, item, status, runs, ends, mailbox, turn, lanes, tool, phase, crashes>>

StartFails(t) ==
    /\ At(t, "begun")
    /\ Settle(turn.run, "failed")
    /\ FailCommand(t)
    /\ UNCHANGED <<runs, mailbox, step, provider, phase, crashes, delivered>>

Interrupt(t) ==
    /\ Executes(t, "turn.interrupt")
    /\ session' = [session EXCEPT !.state = "interrupting", !.interrupt = TRUE]
    /\ turn' = [turn EXCEPT !.interrupt = TRUE]
    /\ current' = [current EXCEPT !.at = "stopping"]
    /\ UNCHANGED <<control, item, status, runs, ends, mailbox, lanes, provider, phase,
                   crashes, delivered>>

InterruptTaken(t) ==
    /\ At(t, "stopping")
    /\ Effected
    /\ UNCHANGED <<rows, mailbox, turn, lanes, provider, phase, crashes, delivered>>

InterruptFails(t) ==
    /\ At(t, "stopping")
    /\ session' = [session EXCEPT !.state = "running", !.interrupt = FALSE]
    /\ turn' = [turn EXCEPT !.interrupt = FALSE]
    /\ FailCommand(t)
    /\ UNCHANGED <<control, item, runs, ends, mailbox, lanes, provider, phase, crashes, delivered>>

\* A message for after the turn that comes late: the lane is told at once.
ArrivesAfterTurn(i) ==
    /\ session.state = "idle" /\ session.run = NoRun
    /\ ~control.paused /\ control.lastRun # NoRun
    /\ Request[i].policy = "after_turn"

Add(t) ==
    /\ Executes(t, "queue.add")
    /\ \E p \in 1 .. Cardinality(Item) :
         /\ LastPosition(p)
         /\ \A q \in 1 .. p - 1 : ~LastPosition(q)
         /\ AddItem(t.command, p)
    /\ lane' = IF ArrivesAfterTurn(t.command) THEN Append(lane, AfterTurn(control.lastRun)) ELSE lane
    /\ Effected
    /\ UNCHANGED <<session, control, status, runs, ends, mailbox, turn, step, provider,
                   phase, crashes, delivered>>

Remove(t) ==
    /\ Executes(t, "queue.remove")
    /\ item' = [item EXCEPT ![Request[t.command].item].status = "removed"]
    /\ Effected
    /\ UNCHANGED <<session, control, status, runs, ends, mailbox, turn, lanes, provider,
                   phase, crashes, delivered>>

Move(t) ==
    /\ Executes(t, "queue.move")
    /\ \E p \in Moved(Request[t.command].item, Request[t.command].before) :
         item' = [i \in Item |-> IF Queued(i) THEN [item[i] EXCEPT !.position = p[i]] ELSE item[i]]
    /\ Effected
    /\ UNCHANGED <<session, control, status, runs, ends, mailbox, turn, lanes, provider,
                   phase, crashes, delivered>>

Intervene(t) ==
    /\ Executes(t, "steer")
    /\ delivered' = [delivered EXCEPT ![t.item] = @ + 1]
    /\ current' = [current EXCEPT !.at = "steering"]
    /\ UNCHANGED <<rows, mailbox, turn, lanes, provider, phase, crashes>>

InterventionTaken(t) ==
    /\ At(t, "steering")
    /\ Effected
    /\ UNCHANGED <<rows, mailbox, turn, lanes, provider, phase, crashes, delivered>>

InterventionFails(t) ==
    /\ At(t, "steering")
    /\ FailCommand(t)
    /\ UNCHANGED <<session, control, item, runs, ends, mailbox, turn, lanes, provider, phase,
                   crashes, delivered>>

(***************************************************************************)
(* The other tasks of the mailbox.                                         *)
(***************************************************************************)
FinishTurn(t) ==
    /\ t.kind = "finish" /\ NextTask(t)
    /\ IF turn.run = t.run
       THEN Settle(t.run, Terminal(t.how)) /\ UNCHANGED <<status, runs>>
       ELSE UNCHANGED <<rows, turn, lane>>
    /\ UNCHANGED <<current, step, provider, phase, crashes, delivered>>

\* Who waited for the mailbox to drain goes on.
PassMark ==
    /\ NextTask(Mark)
    /\ step' = [step EXCEPT !.at = CASE @ = "draining" -> "waiting"
                                      [] @ = "emptying" -> "drained"
                                      [] OTHER -> @]
    /\ UNCHANGED <<rows, current, turn, lane, provider, phase, crashes, delivered>>

(***************************************************************************)
(* The lane.                                                               *)
(***************************************************************************)
Acting(action, at) == phase = "up" /\ lane # <<>> /\ Head(lane) = action /\ step.at = at

ActionDone == lane' = Tail(lane) /\ step' = Ready

\* Mutant: a message that was sent is forgotten by its tool call.
UsedNow(b) == \E i \in Active : item[i].boundary = b

Used(b) == \E i \in Item : item[i].boundary = b

AtWrongBoundary(b) ==
    BoundaryPassed(b) \/ Used(b) \/ FirstQueued("after_tool_boundary") = {}

DropBoundary(b) ==
    /\ Acting(AtBoundary(b), "ready") /\ AtWrongBoundary(b)
    /\ ActionDone
    /\ UNCHANGED <<rows, actor, provider, phase, crashes, delivered>>

\* Mutant: a message that is sent is only leased.
LeasedAtBoundary(i, b) == [item[i] EXCEPT !.status = "leased", !.boundary = b]

TakenAtBoundary(i, b) == [item[i] EXCEPT !.status = "running", !.boundary = b]

\* Leased and marked as running at once: both are one to recovery while the
\* turn is active.
LeaseAtBoundary(b) ==
    /\ Acting(AtBoundary(b), "ready") /\ ~AtWrongBoundary(b)
    /\ \E i \in FirstQueued("after_tool_boundary") :
         /\ item' = [item EXCEPT ![i] = TakenAtBoundary(i, b)]
         /\ step' = [at |-> "leased", item |-> i]
    /\ UNCHANGED <<session, control, status, runs, ends, actor, lane, provider, phase, crashes, delivered>>

SendSteer(b) ==
    /\ Acting(AtBoundary(b), "leased")
    /\ mailbox' = Append(mailbox, Steer(b, step.item))
    /\ step' = [step EXCEPT !.at = "sent"]
    /\ UNCHANGED <<rows, current, turn, lane, provider, phase, crashes, delivered>>

Answered(t) == current.task # t /\ ~Waiting(t)

SettleAtBoundary(b) ==
    /\ Acting(AtBoundary(b), "sent") /\ Answered(Steer(b, step.item))
    /\ item' = [item EXCEPT ![step.item].status = status[Steer(b, step.item)]]
    /\ ActionDone
    /\ UNCHANGED <<session, control, status, runs, ends, actor, provider, phase, crashes, delivered>>

\* waitForIdle: the mailbox, the turns, the mailbox again.
AwaitIdle(r) ==
    /\ \/ Acting(AfterTurn(r), "ready") /\ step' = [step EXCEPT !.at = "draining"]
       \/ Acting(AfterTurn(r), "waiting") /\ turn.run = NoRun /\ step' = [step EXCEPT !.at = "emptying"]
    /\ mailbox' = Append(mailbox, Mark)
    /\ UNCHANGED <<rows, current, turn, lane, provider, phase, crashes, delivered>>

NothingToFollow(r) ==
    \/ session.state # "idle" \/ control.paused \/ control.lastRun # r
    \/ FirstQueued("after_turn") = {}

DropFollowUp(r) ==
    /\ Acting(AfterTurn(r), "drained") /\ NothingToFollow(r)
    /\ ActionDone
    /\ UNCHANGED <<rows, actor, provider, phase, crashes, delivered>>

DecideFollowUp(r) ==
    /\ Acting(AfterTurn(r), "drained") /\ ~NothingToFollow(r)
    /\ step' = [step EXCEPT !.at = "decided"]
    /\ UNCHANGED <<rows, actor, lane, provider, phase, crashes, delivered>>

SendFollowUp(r) ==
    /\ Acting(AfterTurn(r), "decided")
    /\ mailbox' = Append(mailbox, FollowUp(r))
    /\ step' = [step EXCEPT !.at = "sent"]
    /\ UNCHANGED <<rows, current, turn, lane, provider, phase, crashes, delivered>>

FollowUpAnswered(r) ==
    /\ Acting(AfterTurn(r), "sent") /\ Answered(FollowUp(r))
    /\ ActionDone
    /\ UNCHANGED <<rows, actor, provider, phase, crashes, delivered>>

(***************************************************************************)
(* The provider. Its turn goes on when this process stops; what it reports *)
(* meanwhile is only found by the recovery.                                *)
(***************************************************************************)
Heard == phase = "up" /\ turn.run = native.run

StartTool(b) ==
    /\ native.status = "running" /\ tool[b].status = "none"
    /\ tool' = [tool EXCEPT ![b] = [run |-> native.run, status |-> "open"]]
    /\ UNCHANGED <<rows, actor, lanes, native, phase, crashes, delivered>>

\* A completion may be reported a second time.
CompleteTool(b) ==
    /\ native.status = "running" /\ tool[b].run = native.run
    /\ \/ tool[b].status = "open" /\ tool' = [tool EXCEPT ![b].status = "done"]
       \/ tool[b].status = "done" /\ Heard /\ tool' = [tool EXCEPT ![b].status = "repeated"]
    /\ lane' = IF Heard /\ ~BoundaryPassed(b) THEN Append(lane, AtBoundary(b)) ELSE lane
    /\ UNCHANGED <<rows, actor, step, native, phase, crashes, delivered>>

EndTurn ==
    /\ native.status = "running"
    /\ \E how \in Ending : native' = [native EXCEPT !.status = how]
    /\ UNCHANGED <<rows, actor, lanes, tool, phase, crashes, delivered>>

\* Mutant: only completed turns are reported.
ReportCompletion ==
    /\ Heard /\ native.status = "completed" /\ ~native.heard
    /\ mailbox' = Append(mailbox, Finish(native.run, native.status))
    /\ native' = [native EXCEPT !.heard = TRUE]
    /\ UNCHANGED <<rows, current, turn, lanes, tool, phase, crashes, delivered>>

ReportEnd ==
    /\ Heard /\ native.status \in Ending /\ ~native.heard
    /\ mailbox' = Append(mailbox, Finish(native.run, native.status))
    /\ native' = [native EXCEPT !.heard = TRUE]
    /\ UNCHANGED <<rows, current, turn, lanes, tool, phase, crashes, delivered>>

(***************************************************************************)
(* Crash and recovery.                                                     *)
(***************************************************************************)
Crash ==
    /\ crashes < MaxCrash /\ Cardinality(Sent) + crashes < MaxEvent
    /\ phase # "down"
    /\ crashes' = crashes + 1
    /\ phase' = "down"
    /\ mailbox' = <<>> /\ current' = Rest /\ turn' = NoTurn
    /\ lane' = <<>> /\ step' = Ready
    /\ native' = [native EXCEPT !.heard = FALSE]
    /\ UNCHANGED <<rows, tool, delivered>>

\* Mutant: only the commands of a run are settled.
FailAcceptedOfTurn ==
    status' = [t \in CommandId |->
                  IF status[t] = "accepted" /\ TypeOf(t) \in {"turn.submit", "slash.execute"} THEN "failed" ELSE status[t]]

\* Ordinary commands whose outcome is unknown have failed.
FailAccepted == status' = [t \in CommandId |-> IF status[t] = "accepted" THEN "failed" ELSE status[t]]

\* Mutant: a message that may have been sent is queued again.
RequeuesAll(i) == i \in Active

\* A message that was only leased has not left the queue.
Requeues(i) == item[i].status = "leased"

\* Nothing was running: orphans converge.
ConvergeOrphans ==
    /\ phase = "down" /\ session.run = NoRun
    /\ FailAccepted
    /\ item' = [i \in Item |->
                  CASE Requeues(i) -> [item[i] EXCEPT !.status = "queued", !.boundary = None]
                    [] i \in Active /\ ~Requeues(i) -> [item[i] EXCEPT !.status = "failed"]
                    [] OTHER -> item[i]]
    /\ control' = [control EXCEPT !.paused = @ \/ Active # {}]
    /\ phase' = "up"
    /\ UNCHANGED <<session, runs, ends, actor, lanes, provider, crashes, delivered>>

\* More than one message is in hand: the run cannot be recovered.
Ambiguous == \E i, j \in Active : i # j

BeginRecovery ==
    /\ phase = "down" /\ session.run # NoRun /\ ~Ambiguous
    /\ FailAccepted
    /\ session' = [session EXCEPT !.state = "recovering",
                                  !.interrupt = @ \/ session.state = "interrupting"]
    /\ phase' = "recovering"
    /\ UNCHANGED <<control, item, runs, ends, actor, lanes, provider, crashes, delivered>>

\* The native turn is found and followed again, a stop is requested again.
RecoverTurn ==
    /\ phase = "recovering" /\ native.run = session.run
    /\ item' = [i \in Item |-> IF i \in Active THEN [item[i] EXCEPT !.status = "running"] ELSE item[i]]
    /\ session' = [session EXCEPT !.state = IF session.interrupt THEN "interrupting" ELSE "running"]
    /\ turn' = [run |-> session.run, interrupt |-> session.interrupt,
                item |-> IF Active = {} THEN None ELSE CHOOSE i \in Active : TRUE]
    /\ phase' = "up"
    /\ UNCHANGED <<control, status, runs, ends, mailbox, current, lanes, provider, crashes, delivered>>

LoseTurn ==
    /\ \/ phase = "recovering"
       \/ phase = "down" /\ session.run # NoRun /\ Ambiguous
    /\ FailAccepted
    /\ ends' = [ends EXCEPT ![session.run] = Append(@, "lost")]
    /\ item' = [i \in Item |-> IF i \in Active THEN [item[i] EXCEPT !.status = "failed"] ELSE item[i]]
    /\ session' = IdleSession
    /\ control' = [control EXCEPT !.paused = TRUE]
    /\ native' = [run |-> NoRun, status |-> "none", heard |-> FALSE]
    /\ phase' = "up"
    /\ UNCHANGED <<runs, actor, lanes, tool, crashes, delivered>>

(***************************************************************************)
(* The specification.                                                      *)
(***************************************************************************)
CommandStep(t) ==
    \/ Accept(t) \/ AnswerDuplicate(t) \/ Refuse(t) \/ CompleteCommand(t)
    \/ Submit(t) \/ LeaseForTurn(t) \/ SkipFollowUp(t) \/ BeginLeased(t)
    \/ Start(t) \/ StartFails(t)
    \/ Interrupt(t) \/ InterruptTaken(t) \/ InterruptFails(t)
    \/ Add(t) \/ Remove(t) \/ Move(t)
    \/ Intervene(t) \/ InterventionTaken(t) \/ InterventionFails(t)

ActorNext ==
    \/ \E t \in CommandId : CommandStep(t)
    \/ \E r \in Run, how \in Ending : FinishTurn(Finish(r, how))
    \/ PassMark

LaneNext ==
    \/ \E b \in Boundary : DropBoundary(b) \/ LeaseAtBoundary(b) \/ SendSteer(b) \/ SettleAtBoundary(b)
    \/ \E r \in Run : AwaitIdle(r) \/ DropFollowUp(r) \/ DecideFollowUp(r) \/ SendFollowUp(r)
                        \/ FollowUpAnswered(r)

ProviderNext == EndTurn \/ ReportEnd \/ \E b \in Boundary : StartTool(b) \/ CompleteTool(b)

RecoveryNext == ConvergeOrphans \/ BeginRecovery \/ RecoverTurn \/ LoseTurn

Next == (\E c \in Command : Send(c)) \/ ActorNext \/ LaneNext \/ ProviderNext \/ Crash \/ RecoveryNext

Spec == Init /\ [][Next]_vars

Fairness ==
    /\ WF_vars(ActorNext) /\ WF_vars(LaneNext)
    /\ WF_vars(EndTurn) /\ WF_vars(ReportEnd)
    /\ WF_vars(RecoveryNext)

FairSpec == Spec /\ Fairness

(***************************************************************************)
(* Properties.                                                             *)
(***************************************************************************)
TypeOK ==
    /\ session \in SessionRow /\ control \in ControlRow
    /\ item \in [Item -> ItemRow] /\ status \in [CommandId -> CommandStatus]
    /\ runs \in 0 .. MaxRun /\ ends \in [Run -> Seq(Terminals)]
    /\ tool \in [Boundary -> ToolCall] /\ native \in NativeTurn
    /\ phase \in {"up", "down", "recovering"}
    /\ mailbox \in Seq(Task) /\ current \in CurrentTask /\ turn \in ActiveTurn
    /\ lane \in Seq(Action) /\ step \in LaneStep
    /\ crashes \in 0 .. MaxCrash
    /\ delivered \in [Item -> Nat]

\* Every run that began gets exactly one terminal event, whether its end is
\* heard, its start fails, or it is lost in a restart (settleTurn, fail).
RunsEndOnce ==
    \A r \in Run : Len(ends[r]) = IF r <= runs /\ r # session.run THEN 1 ELSE 0

Holders(i) ==
    {h \in {"turn", "dispatch", "lane"} :
        \/ h = "turn" /\ turn.item = i
        \/ h = "dispatch" /\ current.item = i
        \/ h = "lane" /\ step.item = i}

\* While the process is up, a message that was taken from the queue is in the
\* hands of exactly one of the turn, the dispatch and the lane, in the state
\* that makes the holder's next update of its row valid
\* (transitionInTransaction throws otherwise, and the row would be stuck).
ItemsInHand ==
    phase = "up" =>
        /\ \A i \in Active : \E h \in Holders(i) : Holders(i) = {h}
        /\ turn.item # None => item[turn.item].status = "running"
        /\ step.item # None => item[step.item].status = "running"
        /\ current.item # None => item[current.item].status = "leased"

\* An idle session whose queue is not paused is one whose last run completed:
\* neither a stop, a failure, a restart nor a command of the user in between
\* leaves a queue that would go on by itself (queueControl).
PausedUnlessCompleted ==
    (session.run = NoRun /\ ~control.paused /\ runs > 0) =>
        control.lastRun = runs /\ ends[runs] = <<"completed">>

\* However often a tool's completion is reported, at most one message is sent
\* into it (boundaryAlreadyUsed).
BoundaryOnce ==
    \A i, j \in Item : item[i].boundary = item[j].boundary /\ item[i].boundary # None => i = j

\* A message follows a run by itself only if that run is the last one and has
\* completed; the decision was made before the command waited in the mailbox.
FollowsCompletion ==
    [][\A r \in Run, i \in Item :
          (current.task = FollowUp(r) /\ item[i].status = "queued" /\ item'[i].status = "leased") =>
              r = runs /\ ends[r] = <<"completed">>]_vars

\* A message sent into a tool's end reaches the run that made the call, and not
\* one that is being stopped (expectedRunId).
SteersItsRun ==
    [][\A i \in Item :
          (delivered'[i] > delivered[i] /\ turn.item # i) =>
              /\ tool[item[i].boundary].run = session.run
              /\ turn.run = session.run /\ ~turn.interrupt]_vars

PlaceOf(state) ==
    CASE state \in {"leased", "running"} -> "taken"
      [] state \in {"completed", "failed"} -> "ended"
      [] OTHER -> state

Queue == INSTANCE MessageQueue WITH
    Message <- Item,
    place <- [i \in Item |-> PlaceOf(item[i].status)],
    given <- delivered

\* The queue keeps the promises of MessageQueue, through stops, failures,
\* crashes and recoveries.
QueueSpec == Queue!Spec

\* The active turn has a way to its end: it is about to be started, its provider
\* has it, or its end will be reported or waits in the mailbox.
TurnGoesOn ==
    phase = "up" /\ session.run # NoRun =>
        \/ current.at = "begun"
        \/ /\ native.run = session.run
           /\ \/ native.status = "running"
              \/ /\ native.status \in Ending
                 /\ native.heard => Waiting(Finish(native.run, native.status))

\* And so has the lane: who waits for the mailbox to drain has a mark in it.
LaneGoesOn == step.at \in {"draining", "emptying"} => Waiting(Mark)

\* Only the end of a turn is heard, and a process that starts has heard nothing.
HeardInv ==
    /\ native.heard => phase = "up" /\ native.status \in Ending
    /\ native.run # NoRun => native.status # "none"

\* An accepted command is answered, at the latest by the recovery.
CommandsSettle ==
    (\E t \in CommandId : status[t] = "accepted") ~> (\A t \in CommandId : status[t] # "accepted")

\* The active turn ends, even if the process stops on its way.
RunsEnd == session.run # NoRun ~> session.run = NoRun

\* A message for after the turn that waits in an idle session whose queue is
\* not paused has been or will be noticed: it does not wait for ever.
NoMessageStranded ==
    (/\ phase = "up" /\ current = Rest /\ mailbox = <<>> /\ lane = <<>>
     /\ session.run = NoRun /\ ~control.paused /\ runs > 0)
        => FirstQueued("after_turn") = {}
=============================================================================
