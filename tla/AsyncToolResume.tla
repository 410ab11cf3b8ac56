-------------------------- MODULE AsyncToolResume ---------------------------
(* An operation that parks on deferred tools (sub-agents) and is resumed     *)
(* when all of them have answered.  A turn starts its children while it      *)
(* runs, saves the parked state to Redis, then the agent_operations row, and *)
(* then checks the barrier itself; every child that ends calls back, fills   *)
(* its placeholder message and checks the barrier; a check that has to hold  *)
(* arms a delayed verify, at most MaxAttempts deep.  Whoever finds every     *)
(* result in place claims the resume by a CAS on the row and publishes the   *)
(* next step.                                                                *)
(*                                                                           *)
(* Workers take step, callback and verify deliveries alike; `stage` says     *)
(* which await of the handler comes next.  StepExecution covers what may     *)
(* happen inside a step: here a turn is the whole run of steps up to a park. *)
EXTENDS Naturals, FiniteSets

CONSTANTS
  Workers,       \* the server instances
  Tools,         \* the deferred tools a turn may call, each once
  MaxTurn,       \* bound: turns 0 .. MaxTurn, and the last one does not park
  MaxAttempts,   \* ASYNC_TOOL_VERIFY_MAX_ATTEMPTS
  MaxFaults,     \* bound: how many faults happen
  Faults,        \* which kinds of fault may happen
  Interrupts     \* may the user interrupt the operation?

\* "throw": a callback or verify handler fails, or is killed, before its CAS;
\* "publish": it does after the CAS, before the next step is published;
\* "duplicate": QStash delivers a callback once more;
\* "lag": the barrier reads a replica that lacks the last writes, in a callback or
\* verify handler ("selfLag": in the self-check of the parking step);
\* "swallow": persistCompletion's write of the row fails and is swallowed;
\* "arm": so does the publish of a verify; "webhook": and that of a callback.
FaultKinds == {"throw", "publish", "duplicate", "lag", "selfLag", "swallow", "arm",
               "webhook"}

\* QStash retries three times: with as many faults no message is given up, which
\* JoinEnds needs; nothing else depends on how many there are.
ASSUME BoundsAssumption ==
  MaxTurn \in Nat /\ MaxAttempts \in Nat /\ MaxFaults \in Nat

ASSUME FaultsAssumption == Faults \subseteq FaultKinds /\ Interrupts \in BOOLEAN

Turns == 0 .. MaxTurn
Calls == Turns \X Tools
Attempts == 1 .. MaxAttempts

Terminal == {"done", "interrupted"}
Status == Terminal \cup {"running", "waiting_for_async_tool"}
ParentState ==
  [status : Status, stepCount : 0 .. MaxTurn + 1, pending : SUBSET Tools]

Stages == {"idle", "turn", "row", "backfill", "load", "barrier", "cas", "publish"}

\* What a worker is handling: a step, a callback or the verify number attempt.
Tasks ==
  [kind : {"step"}, turn : Turns]
    \cup [kind : {"callback"}, call : Calls]
    \cup [kind : {"verify"}, attempt : Attempts]
NoTask == [kind |-> "none"]

VARIABLES
  parent,     \* Redis agent state: status, stepCount, pendingToolsCalling
  row,        \* agent_operations.status
  made,       \* the placeholder tool messages, one per call
  children,   \* the calls whose sub-agent is still running
  filled,     \* the placeholders with a result
  callbacks,  \* queue: callback deliveries due, per call
  verifies,   \* queue: verify deliveries due, per attempt
  published,  \* queue: how often the step of the turn was published
  due,        \* queue: deliveries due of the turn's step
  stage, task, seen,  \* per worker: where it is, with what, on which state
  faults,
  unheard,    \* the calls whose callback was never published
  blind       \* did a check that missed the last result leave no verify behind?

vars == <<parent, row, made, children, filled, callbacks, verifies, published, due,
          stage, task, seen, faults, unheard, blind>>

messages == <<made, children, filled>>
queue == <<callbacks, verifies, published, due>>
history == <<faults, unheard, blind>>

Start == [status |-> "running", stepCount |-> 0, pending |-> {}]

Init ==
  /\ parent = Start
  /\ row = "running"
  /\ made = {} /\ children = {} /\ filled = {}
  /\ callbacks = [c \in Calls |-> 0]
  /\ verifies = [a \in Attempts |-> 0]
  /\ published = [i \in Turns |-> IF i = 0 THEN 1 ELSE 0]
  /\ due = published
  /\ stage = [w \in Workers |-> "idle"]
  /\ task = [w \in Workers |-> NoTask]
  /\ seen = [w \in Workers |-> Start]
  /\ faults = 0 /\ unheard = {} /\ blind = FALSE

Goto(w, label) == stage' = [stage EXCEPT ![w] = label]

Take(w, label, what) ==
  /\ stage[w] = "idle"
  /\ Goto(w, label)
  /\ task' = [task EXCEPT ![w] = what]

Finish(w) ==
  /\ Goto(w, "idle")
  /\ task' = [task EXCEPT ![w] = NoTask]
  /\ seen' = [seen EXCEPT ![w] = Start]

Failure(kind) ==
  /\ kind \in Faults /\ faults < MaxFaults
  /\ faults' = faults + 1

Fault(kind) == Failure(kind) /\ UNCHANGED <<unheard, blind>>

-----------------------------------------------------------------------------
(* The parent's turns.                                                       *)

Turn(w) == task[w].turn

\* The step lock: a delivery of a step that is being handled has to wait.
Unlocked(i) == \A v \in Workers : task[v] # [kind |-> "step", turn |-> i]

\* Mutant: a step is run without a message of it being due.
DeliverUndue(i) ==
  /\ Unlocked(i)
  /\ due' = [due EXCEPT ![i] = @ - 1]

Deliver(i) ==
  /\ due[i] > 0 /\ Unlocked(i)
  /\ due' = [due EXCEPT ![i] = @ - 1]

\* Layer 2 defence and early exit: a turn already executed is skipped, and the
\* end of an ended operation is written to the row again.
SkipTurn(i) ==
  /\ Deliver(i)
  /\ parent.stepCount > i \/ parent.status \in Terminal
  /\ row' = IF parent.stepCount > i THEN row ELSE parent.status
  /\ UNCHANGED <<parent, messages, callbacks, verifies, published, stage, task, seen,
                 history>>

StartTurn(w, i) ==
  /\ Deliver(i)
  /\ parent.stepCount <= i /\ parent.status \notin Terminal
  /\ Take(w, "turn", [kind |-> "step", turn |-> i])
  /\ UNCHANGED <<parent, row, messages, callbacks, verifies, published, seen, history>>

\* A deferred tool: its placeholder message is written, then its child started.
StartChild(w, t) ==
  /\ stage[w] = "turn" /\ Turn(w) < MaxTurn /\ <<Turn(w), t>> \notin made
  /\ made' = made \cup {<<Turn(w), t>>}
  /\ children' = children \cup {<<Turn(w), t>>}
  /\ UNCHANGED <<parent, row, filled, queue, stage, task, seen, history>>

CallsOf(i) == {t \in Tools : <<i, t>> \in made}

\* The step's result is saved, as interrupted if the user was faster.
SaveTurn(w, status, pending) ==
  LET result == [status    |-> IF parent.status = "interrupted" THEN "interrupted"
                                                                ELSE status,
                 stepCount |-> Turn(w) + 1,
                 pending   |-> pending]
  IN /\ parent' = result
     /\ seen' = [seen EXCEPT ![w] = result]
     /\ Goto(w, "row")
     /\ UNCHANGED <<row, messages, queue, task, history>>

ParkTurn(w) ==
  /\ stage[w] = "turn" /\ CallsOf(Turn(w)) # {}
  /\ SaveTurn(w, "waiting_for_async_tool", CallsOf(Turn(w)))

EndTurn(w) ==
  /\ stage[w] = "turn" /\ CallsOf(Turn(w)) = {}
  /\ SaveTurn(w, "done", {})

\* Mutant: no self-check after the park.
WriteRowOnly(w) ==
  /\ stage[w] = "row"
  /\ \/ row' = seen[w].status /\ UNCHANGED history
     \/ Fault("swallow") /\ UNCHANGED row
  /\ Finish(w)
  /\ UNCHANGED <<parent, messages, queue>>

\* persistCompletion writes the row; a parked turn then checks the barrier
\* itself, for the children that ended before the row said so.
WriteRow(w) ==
  /\ stage[w] = "row"
  /\ \/ row' = seen[w].status /\ UNCHANGED history
     \/ Fault("swallow") /\ UNCHANGED row
  /\ IF seen[w].status = "waiting_for_async_tool"
     THEN Goto(w, "load") /\ UNCHANGED <<task, seen>>
     ELSE Finish(w)
  /\ UNCHANGED <<parent, messages, queue>>

\* interruptOperation (its own interleavings are StepExecution's).
Interrupt ==
  /\ Interrupts /\ parent.status \notin Terminal
  /\ parent' = [parent EXCEPT !.status = "interrupted"]
  /\ UNCHANGED <<row, messages, queue, stage, task, seen, history>>

-----------------------------------------------------------------------------
(* The children and their callbacks.                                         *)

\* The child's onComplete hook publishes the callback.
ChildEnds(c) ==
  /\ c \in children
  /\ children' = children \ {c}
  /\ callbacks' = [callbacks EXCEPT ![c] = @ + 1]
  /\ UNCHANGED <<parent, row, made, filled, verifies, published, due, stage, task,
                 seen, history>>

\* HookDispatcher swallows the failure of that publish, and there is no fallback.
ChildEndsUnheard(c) ==
  /\ c \in children
  /\ children' = children \ {c}
  /\ Failure("webhook")
  /\ unheard' = unheard \cup {c}
  /\ UNCHANGED <<parent, row, made, filled, queue, stage, task, seen, blind>>

DuplicateCallback(c) ==
  /\ Fault("duplicate") /\ c \in made \ (children \cup unheard)
  /\ callbacks' = [callbacks EXCEPT ![c] = @ + 1]
  /\ UNCHANGED <<parent, row, messages, verifies, published, due, stage, task, seen>>

TakeCallback(w, c) ==
  /\ callbacks[c] > 0
  /\ callbacks' = [callbacks EXCEPT ![c] = @ - 1]
  /\ Take(w, "backfill", [kind |-> "callback", call |-> c])
  /\ UNCHANGED <<parent, row, messages, verifies, published, due, seen, history>>

Backfill(w) ==
  /\ stage[w] = "backfill"
  /\ filled' = filled \cup {task[w].call}
  /\ Goto(w, "load")
  /\ UNCHANGED <<parent, row, made, children, queue, task, seen, history>>

TakeVerify(w, a) ==
  /\ verifies[a] > 0
  /\ verifies' = [verifies EXCEPT ![a] = @ - 1]
  /\ Take(w, "load", [kind |-> "verify", attempt |-> a])
  /\ UNCHANGED <<parent, row, messages, callbacks, published, due, seen, history>>

-----------------------------------------------------------------------------
(* tryResumeParentFromAsyncTool.                                             *)

\* The verify a held check arms: a callback's first, or the next of a chain.
NextAttempt(w) == IF task[w].kind = "verify" THEN task[w].attempt + 1 ELSE 1

\* Mutant: the last attempt is not armed any more.
ArmOneFewer(w, status) ==
  verifies' = IF task[w].kind # "step" /\ status \notin Terminal
                /\ NextAttempt(w) < MaxAttempts
              THEN [verifies EXCEPT ![NextAttempt(w)] = @ + 1]
              ELSE verifies

\* Not for the self-check, an ended operation, or past the last attempt.
Arm(w, status) ==
  verifies' = IF task[w].kind # "step" /\ status \notin Terminal
                /\ NextAttempt(w) <= MaxAttempts
              THEN [verifies EXCEPT ![NextAttempt(w)] = @ + 1]
              ELSE verifies

Hold(w, status) ==
  /\ Arm(w, status)
  /\ Finish(w)
  /\ UNCHANGED <<parent, row, messages, callbacks, published, due>>

\* The publish of the verify fails and is swallowed: the handler ends all the same.
HoldUnarmed(w) ==
  /\ task[w].kind # "step"
  /\ Finish(w)
  /\ UNCHANGED <<parent, row, messages, queue>>

LoadParked(w) ==
  /\ stage[w] = "load" /\ parent.status = "waiting_for_async_tool"
  /\ seen' = [seen EXCEPT ![w] = parent]
  /\ Goto(w, "barrier")
  /\ UNCHANGED <<parent, row, messages, queue, task, history>>

LoadNotParked(w) ==
  /\ stage[w] = "load" /\ parent.status # "waiting_for_async_tool"
  /\ \/ Hold(w, parent.status) /\ UNCHANGED history
     \/ HoldUnarmed(w) /\ Fault("arm")

\* The calls a parked state waits for: those of the turn before its step.
AwaitedBy(state) == {c \in Calls : c[1] + 1 = state.stepCount /\ c[2] \in state.pending}
Awaited(w) == AwaitedBy(seen[w])

\* The placeholder this very handler has filled is trusted, not read.
KnownFilled(w) == IF task[w].kind = "callback" THEN {task[w].call} ELSE {}

\* Mutant: one result is enough.
BarrierOpensOnFirst(w) ==
  /\ stage[w] = "barrier" /\ Awaited(w) \cap filled # {}
  /\ Goto(w, "cas")
  /\ UNCHANGED <<parent, row, messages, queue, task, seen, history>>

BarrierOpens(w) ==
  /\ stage[w] = "barrier" /\ Awaited(w) \subseteq filled
  /\ Goto(w, "cas")
  /\ UNCHANGED <<parent, row, messages, queue, task, seen, history>>

\* A lagging replica does not show a result that is there.
Stale(w) == Awaited(w) \subseteq filled /\ ~(Awaited(w) \subseteq KnownFilled(w))
Lag(w) == IF task[w].kind = "step" THEN "selfLag" ELSE "lag"

BarrierHolds(w) ==
  /\ stage[w] = "barrier"
  /\ \/ ~(Awaited(w) \subseteq filled) /\ UNCHANGED history
     \/ Stale(w) /\ Fault(Lag(w))
  /\ Hold(w, seen[w].status)

\* A stale reading and no verify after it count as one fault.
BarrierHoldsUnarmed(w) ==
  /\ stage[w] = "barrier" /\ "arm" \in Faults
  /\ \/ ~(Awaited(w) \subseteq filled) /\ Fault("arm")
     \/ Stale(w) /\ Failure(Lag(w)) /\ blind' = TRUE /\ UNCHANGED unheard
  /\ HoldUnarmed(w)

\* Mutant: the row is not compared, every check that gets here resumes.
WinWithoutCompare(w) ==
  /\ stage[w] = "cas"
  /\ row' = "running"
  /\ Goto(w, "publish")
  /\ UNCHANGED <<parent, messages, queue, task, seen, history>>

\* Mutant: the claim is not followed by the publish.
ClaimOnly(w) ==
  /\ stage[w] = "cas" /\ row = "waiting_for_async_tool"
  /\ row' = "running"
  /\ Finish(w)
  /\ UNCHANGED <<parent, messages, queue, history>>

\* UPDATE .. SET status = running WHERE status = waiting_for_async_tool.
WinCas(w) ==
  /\ stage[w] = "cas" /\ row = "waiting_for_async_tool"
  /\ row' = "running"
  /\ Goto(w, "publish")
  /\ UNCHANGED <<parent, messages, queue, task, seen, history>>

LoseCas(w) ==
  /\ stage[w] = "cas" /\ row # "waiting_for_async_tool"
  /\ Finish(w)
  /\ UNCHANGED <<parent, row, messages, queue, history>>

PublishResume(w) ==
  /\ stage[w] = "publish"
  /\ published' = [published EXCEPT ![seen[w].stepCount] = @ + 1]
  /\ due' = [due EXCEPT ![seen[w].stepCount] = @ + 1]
  /\ Finish(w)
  /\ UNCHANGED <<parent, row, messages, callbacks, verifies, history>>

\* QStash makes a delivery that failed again; the self-check's failure is
\* swallowed by its step.
Redelivered(w) ==
  /\ callbacks' = IF task[w].kind = "callback"
                  THEN [callbacks EXCEPT ![task[w].call] = @ + 1] ELSE callbacks
  /\ verifies' = IF task[w].kind = "verify"
                 THEN [verifies EXCEPT ![task[w].attempt] = @ + 1] ELSE verifies
  /\ Finish(w)
  /\ UNCHANGED <<parent, row, messages, published, due>>

Throws(w) ==
  /\ stage[w] \in {"backfill", "load", "barrier", "cas"} /\ task[w].kind # "step"
  /\ Fault("throw")
  /\ Redelivered(w)

PublishThrows(w) ==
  /\ stage[w] = "publish"
  /\ Fault("publish")
  /\ Redelivered(w)

-----------------------------------------------------------------------------
TurnStep(w) ==
  \/ \E i \in Turns : StartTurn(w, i)
  \/ \E t \in Tools : StartChild(w, t)
  \/ ParkTurn(w) \/ EndTurn(w) \/ WriteRow(w)

Resume(w) ==
  \/ Backfill(w) \/ LoadParked(w) \/ LoadNotParked(w) \/ BarrierOpens(w)
  \/ BarrierHolds(w) \/ BarrierHoldsUnarmed(w) \/ WinCas(w) \/ LoseCas(w) \/ PublishResume(w)

TakeMessage(w) ==
  \/ \E c \in Calls : TakeCallback(w, c)
  \/ \E a \in Attempts : TakeVerify(w, a)

Next ==
  \/ \E w \in Workers : TurnStep(w) \/ Resume(w) \/ TakeMessage(w)
  \/ \E w \in Workers : Throws(w) \/ PublishThrows(w)
  \/ \E c \in Calls : ChildEnds(c) \/ ChildEndsUnheard(c) \/ DuplicateCallback(c)
  \/ \E i \in Turns : SkipTurn(i)
  \/ Interrupt

Spec == Init /\ [][Next]_vars

\* Handlers run to their end, QStash makes every delivery it owes, and every
\* child ends at last.
Fairness ==
  /\ \A w \in Workers : WF_vars(TurnStep(w) /\ stage[w] # "idle") /\ WF_vars(Resume(w))
  /\ \A c \in Calls : WF_vars(ChildEnds(c) \/ ChildEndsUnheard(c)) /\ WF_vars(\E w \in Workers : TakeCallback(w, c))
  /\ \A a \in Attempts : WF_vars(\E w \in Workers : TakeVerify(w, a))
  /\ \A i \in Turns : WF_vars(SkipTurn(i) \/ \E w \in Workers : StartTurn(w, i))

FairSpec == Spec /\ Fairness

-----------------------------------------------------------------------------
(* Properties.                                                               *)

TypeOK ==
  /\ parent \in ParentState
  /\ row \in Status
  /\ made \subseteq Calls /\ children \subseteq Calls /\ filled \subseteq Calls
  /\ callbacks \in [Calls -> Nat]
  /\ verifies \in [Attempts -> Nat]
  /\ published \in [Turns -> Nat]
  /\ due \in [Turns -> Nat]
  /\ stage \in [Workers -> Stages]
  /\ task \in [Workers -> Tasks \cup {NoTask}]
  /\ seen \in [Workers -> ParentState]
  /\ faults \in Nat
  /\ unheard \subseteq Calls /\ blind \in BOOLEAN

Join == INSTANCE AsyncJoin WITH released <- {i \in Turns : published[i] > 0}

\* The resume implements the join: whatever is redelivered, fails or lags, no turn
\* is published before every call of the turn before it has its result, and no
\* call is made by a turn that has been resumed.
ImplementsJoin == Join!JoinSpec

\* Single-fire: a park is resumed by one message, however many checks race.
SingleResume == \A i \in Turns : published[i] <= 1

\* Who will still look at the barrier: the step that parked, a callback's or a
\* verify's handler, and what is due of either.
WillCheck ==
  \/ \E w \in Workers : stage[w] \in {"row", "backfill", "load", "barrier", "cas"}
  \/ \E c \in Calls : callbacks[c] > 0
  \/ \E a \in Attempts : verifies[a] > 0

\* A result that is not in will come: from the child, its callback or the handler
\* that is about to fill it in.
WillArrive(c) ==
  \/ c \in children \/ callbacks[c] > 0
  \/ \E w \in Workers : stage[w] = "backfill" /\ task[w].call = c

\* No wake-up is lost: while the state and the row both say that the operation is
\* parked, each result it waits for will arrive, and once they are all in somebody
\* is still going to look, whichever handlers failed, held, read a stale replica or
\* armed no verify.  Except for a result whose callback was never published, and
\* after a check that both missed the last result and armed no verify: the code
\* swallows either failure to publish, and nobody comes again.
NoLostWakeup ==
  parent.status = "waiting_for_async_tool" /\ row = "waiting_for_async_tool" =>
    /\ \A c \in AwaitedBy(parent) : c \in filled \/ WillArrive(c) \/ c \in unheard
    /\ AwaitedBy(parent) \subseteq filled => WillCheck \/ blind

\* A parked operation is never left between its row and its next turn: the step
\* that parked it has still to write the row, or the row says so, or the winner of
\* the CAS has still to publish the turn, or it is due or runs.
ParkIsHeld ==
  parent.status = "waiting_for_async_tool" =>
    \/ row = "waiting_for_async_tool"
    \/ \E w \in Workers : /\ stage[w] \in {"row", "publish"}
                          /\ seen[w].stepCount = parent.stepCount
    \/ due[parent.stepCount] > 0
    \/ \E w \in Workers : stage[w] = "turn" /\ Turn(w) = parent.stepCount

\* A parked operation whose children end is resumed and ends, and its row says so:
\* no wake-up is lost between the park, the row and the callbacks, unless one of the
\* two publishes that NoLostWakeup excepts was.
JoinEnds ==
  <>[](\/ parent.status = "done" /\ row = "done"
       \/ unheard # {} \/ blind)
=============================================================================
