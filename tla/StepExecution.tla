--------------------------- MODULE StepExecution ----------------------------
(* One agent operation driven through the queue: every step is an HTTP       *)
(* delivery to /run, handled by AgentRuntimeService.executeStep on some      *)
(* worker.  Workers share the Redis agent state, the Redis step lock and the *)
(* agent_operations row; user interrupts write the same Redis state.         *)
(*                                                                           *)
(* A worker's program counter stops at every await on shared state:          *)
(*   claim - load - (budget save) - check - run - latest - result save -     *)
(*   (tracking save) - next - row - hook - release                           *)
(* and the catch block is catch - error save - row - hook - release.  A      *)
(* coordinator save is the three awaits prev - save - end; `site` says which *)
(* call site is saving and so where the worker goes on.                      *)
EXTENDS Naturals, Sequences, FiniteSets

CONSTANTS
  Workers,         \* the server instances that handle deliveries
  Requesters,      \* the callers of interruptOperation, one call each
  MaxStep,         \* bound: the operation has steps 0 .. MaxStep
  StepLimit,       \* the operation's maxSteps; 0: it has none
  Retries,         \* redeliveries QStash makes of one message
  MaxFaults,       \* bound: crashes, exceptions, swallowed failures and duplicates
  Faults,          \* which kinds of fault may happen
  Budgeted,        \* does the operation carry an executionBudget?
  AfterStepHooks,  \* does the operation register afterStep hooks?
  Free, Dead       \* a step lock nobody holds; one whose holder has crashed

FaultKinds == {"crash", "throw", "swallow", "duplicate", "lapse", "failOpen"}

ASSUME BoundsAssumption ==
  MaxStep \in Nat /\ StepLimit \in Nat /\ Retries \in Nat /\ MaxFaults \in Nat

ASSUME FaultsAssumption ==
  Faults \subseteq FaultKinds /\ Budgeted \in BOOLEAN /\ AfterStepHooks \in BOOLEAN

ASSUME ProcessAssumption ==
  /\ Workers \cap Requesters = {}
  /\ Free \notin Workers /\ Dead \notin Workers /\ Free # Dead

Steps == 0 .. MaxStep
Procs == Workers \cup Requesters

Terminal == {"done", "error", "interrupted"}
StreamEnd == Terminal \cup {"waiting_for_human"}
Status == StreamEnd \cup {"idle", "running", "waiting_for_async_tool"}
AgentState == [status : Status, stepCount : 0 .. MaxStep + 1]

VARIABLES
  state,        \* Redis agent state
  steps,        \* Redis step history, oldest first
  lock,         \* Redis step locks
  row,          \* agent_operations.status
  ends,         \* agent_runtime_end events published
  completions,  \* reasons for which onComplete was dispatched, as row statuses
  scheduled,    \* queue: how often a message for the step was published
  due,          \* queue: deliveries of the step's message ready to be made
  later,        \* queue: deliveries put off by a 429 with Retry-After
  attempts,     \* queue: redeliveries of the step's message so far
  pc, site, st, prev,  \* per process: where it is and the states it holds
  idx,          \* per worker: the stepIndex of its delivery
  faults        \* how many of the MaxFaults have happened

queue == <<scheduled, due, later, attempts>>
redis == <<state, steps>>
vars == <<state, steps, lock, row, ends, completions, scheduled, due, later,
          attempts, pc, site, st, prev, idx, faults>>

PC == {"idle", "claim", "load", "check", "run", "latest", "prev", "save", "end",
       "next", "row", "hook", "release", "catch", "accepted", "refused"}
Sites == {"none", "budget", "result", "track", "error", "interrupt"}

Initial == [status |-> "idle", stepCount |-> 0]

\* createOperation has saved the idle state and scheduled step 0.
Init ==
  /\ state = Initial
  /\ steps = <<>>
  /\ lock = [i \in Steps |-> Free]
  /\ row = "running"
  /\ ends = 0
  /\ completions = {}
  /\ scheduled = [i \in Steps |-> IF i = 0 THEN 1 ELSE 0]
  /\ due = [i \in Steps |-> IF i = 0 THEN 1 ELSE 0]
  /\ later = [i \in Steps |-> 0]
  /\ attempts = [i \in Steps |-> 0]
  /\ pc = [p \in Procs |-> "idle"]
  /\ site = [p \in Procs |-> "none"]
  /\ st = [p \in Procs |-> Initial]
  /\ prev = [p \in Procs |-> "idle"]
  /\ idx = [w \in Workers |-> 0]
  /\ faults = 0

-----------------------------------------------------------------------------
(* The queue.  QStash delivers at least once: a delivery that is answered    *)
(* 429 or 5xx, or not answered, is made again while attempts remain.         *)

Goto(p, label) == pc' = [pc EXCEPT ![p] = label]

\* The request is over and its locals with it.
Finish(w) ==
  /\ Goto(w, "idle")
  /\ site' = [site EXCEPT ![w] = "none"]
  /\ st' = [st EXCEPT ![w] = Initial]
  /\ prev' = [prev EXCEPT ![w] = "idle"]
  /\ idx' = [idx EXCEPT ![w] = 0]

Deliver(w, i) ==
  /\ pc[w] = "idle" /\ due[i] > 0
  /\ due' = [due EXCEPT ![i] = @ - 1]
  /\ idx' = [idx EXCEPT ![w] = i]
  /\ Goto(w, "claim")
  /\ UNCHANGED <<redis, lock, row, ends, completions, scheduled, later, attempts,
                 site, st, prev, faults>>

\* QStash has an attempt left for the message of step i, or has given it up.
Again(i) == attempts[i] < Retries /\ attempts' = [attempts EXCEPT ![i] = @ + 1]
GiveUp(i) == attempts[i] >= Retries /\ UNCHANGED attempts

Redelivered(i) ==
  \/ Again(i) /\ due' = [due EXCEPT ![i] = @ + 1]
  \/ GiveUp(i) /\ UNCHANGED due

\* Retry-After (37s) exceeds the lock TTL (35s): the lock that answered 429 is
\* gone when the put-off delivery is made.
RetryDue(i) ==
  /\ later[i] > 0 /\ lock[i] = Free
  /\ later' = [later EXCEPT ![i] = @ - 1]
  /\ due' = [due EXCEPT ![i] = @ + 1]
  /\ UNCHANGED <<redis, lock, row, ends, completions, scheduled, attempts,
                 pc, site, st, prev, idx, faults>>

Publish(i) ==
  /\ scheduled' = [scheduled EXCEPT ![i] = @ + 1]
  /\ due' = [due EXCEPT ![i] = @ + 1]

Fault(kind) ==
  /\ kind \in Faults /\ faults < MaxFaults
  /\ faults' = faults + 1

\* At-least-once delivery: a message already published arrives once more.
Duplicate(i) ==
  /\ Fault("duplicate") /\ scheduled[i] > 0
  /\ due' = [due EXCEPT ![i] = @ + 1]
  /\ UNCHANGED <<redis, lock, row, ends, completions, scheduled, later, attempts,
                 pc, site, st, prev, idx>>

-----------------------------------------------------------------------------
(* The step lock: SET NX EX 35 before the step, DEL in the finally block.    *)

\* Mutant: the lock is taken with a plain SET, whoever holds it.
ClaimWithoutNX(w) ==
  /\ pc[w] = "claim"
  /\ lock' = [lock EXCEPT ![idx[w]] = w]
  /\ Goto(w, "load")
  /\ UNCHANGED <<redis, row, ends, completions, queue, site, st, prev, idx, faults>>

Claim(w) ==
  /\ pc[w] = "claim" /\ lock[idx[w]] = Free
  /\ lock' = [lock EXCEPT ![idx[w]] = w]
  /\ Goto(w, "load")
  /\ UNCHANGED <<redis, row, ends, completions, queue, site, st, prev, idx, faults>>

\* Mutant: the finally block also runs for a delivery that was answered 429.
LockedReleases(w) ==
  /\ pc[w] = "claim" /\ lock[idx[w]] # Free
  /\ \/ Again(idx[w]) /\ later' = [later EXCEPT ![idx[w]] = @ + 1]
     \/ GiveUp(idx[w]) /\ UNCHANGED later
  /\ lock' = [lock EXCEPT ![idx[w]] = Free]
  /\ Finish(w)
  /\ UNCHANGED <<redis, row, ends, completions, scheduled, due, faults>>

\* The lock is held: 429, and QStash retries later while attempts remain.
Locked(w) ==
  /\ pc[w] = "claim" /\ lock[idx[w]] # Free
  /\ \/ Again(idx[w]) /\ later' = [later EXCEPT ![idx[w]] = @ + 1]
     \/ GiveUp(idx[w]) /\ UNCHANGED later
  /\ Finish(w)
  /\ UNCHANGED <<redis, lock, row, ends, completions, scheduled, due, faults>>

\* tryClaimStep answers true when Redis fails.
ClaimFailsOpen(w) ==
  /\ "failOpen" \in Faults /\ pc[w] = "claim"
  /\ Goto(w, "load")
  /\ UNCHANGED <<redis, lock, row, ends, completions, queue, site, st, prev, idx,
                 faults>>

\* Mutant: the lock is set without EX, so a crashed worker's stays.
ExpireNever(i) ==
  /\ "lapse" \in Faults /\ lock[i] \in Workers
  /\ lock' = [lock EXCEPT ![i] = Free]
  /\ UNCHANGED <<redis, row, ends, completions, queue, pc, site, st, prev, idx,
                 faults>>

\* The TTL frees the lock of a crashed worker and, when a step outlives its
\* lease ("lapse"), the lock of a live one.
Expire(i) ==
  /\ lock[i] = Dead \/ ("lapse" \in Faults /\ lock[i] \in Workers)
  /\ lock' = [lock EXCEPT ![i] = Free]
  /\ UNCHANGED <<redis, row, ends, completions, queue, pc, site, st, prev, idx,
                 faults>>

\* Mutant: a step that threw is answered 200 like any other.
ReleaseAnswersOk(w) ==
  /\ pc[w] = "release"
  /\ \/ lock' = [lock EXCEPT ![idx[w]] = Free] /\ UNCHANGED faults
     \/ Fault("swallow") /\ lock' = [lock EXCEPT ![idx[w]] = Dead]
  /\ Finish(w)
  /\ UNCHANGED <<redis, row, ends, completions, scheduled, due, attempts, later>>

\* The finally block deletes the key, whoever holds it, and the delivery is
\* answered: 200, or 500 after an exception.  A DEL that fails is swallowed and
\* leaves the key to its TTL.
Release(w) ==
  /\ pc[w] = "release"
  /\ \/ lock' = [lock EXCEPT ![idx[w]] = Free] /\ UNCHANGED faults
     \/ Fault("swallow") /\ lock' = [lock EXCEPT ![idx[w]] = Dead]
  /\ IF site[w] = "error" THEN Redelivered(idx[w]) ELSE UNCHANGED <<due, attempts>>
  /\ Finish(w)
  /\ UNCHANGED <<redis, row, ends, completions, scheduled, later>>

-----------------------------------------------------------------------------
(* The coordinator's save: read the previous status, write, and publish      *)
(* agent_runtime_end when the operation enters a stream-end status.  Workers *)
(* and interrupt requests both go through it.                                *)

BeginSave(p, call, new) ==
  /\ st' = [st EXCEPT ![p] = new]
  /\ site' = [site EXCEPT ![p] = call]
  /\ Goto(p, "prev")

SavePrev(p) ==
  /\ pc[p] = "prev"
  /\ prev' = [prev EXCEPT ![p] = state.status]
  /\ Goto(p, "save")
  /\ UNCHANGED <<redis, lock, row, ends, completions, queue, site, st, idx, faults>>

\* saveStepResult writes the state and pushes the step history in one MULTI;
\* saveAgentState writes the state only.
SaveWrite(p) ==
  /\ pc[p] = "save"
  /\ state' = st[p]
  /\ steps' = IF site[p] = "result"
              THEN Append(steps, [stepIndex |-> idx[p], status |-> st[p].status])
              ELSE steps
  /\ Goto(p, "end")
  /\ UNCHANGED <<lock, row, ends, completions, queue, site, st, prev, idx, faults>>

EntersStreamEnd(before, after) == after \in StreamEnd /\ before \notin StreamEnd

\* Where a process goes once its save is done.
AfterSave(p) ==
  CASE site[p] = "budget" -> "check"
    [] site[p] = "result" -> IF AfterStepHooks THEN "prev" ELSE "next"
    [] site[p] = "track" -> "next"
    [] site[p] = "error" -> "row"
    [] site[p] = "interrupt" -> "accepted"

SaveEnd(p) ==
  /\ pc[p] = "end"
  /\ ends' = IF EntersStreamEnd(prev[p], st[p].status) THEN ends + 1 ELSE ends
  /\ site' = IF site[p] = "result" /\ AfterStepHooks
             THEN [site EXCEPT ![p] = "track"] ELSE site
  /\ prev' = [prev EXCEPT ![p] = "idle"]
  /\ Goto(p, AfterSave(p))
  /\ UNCHANGED <<redis, lock, row, completions, queue, st, idx, faults>>

-----------------------------------------------------------------------------
(* executeStep, from loading the state to saving the step's result.          *)

\* An operation past its execution budget is saved as interrupted before
\* anything else is looked at.
Load(w) ==
  /\ pc[w] = "load"
  /\ \/ /\ Budgeted
        /\ BeginSave(w, "budget", [state EXCEPT !.status = "interrupted"])
     \/ /\ st' = [st EXCEPT ![w] = state]
        /\ Goto(w, "check")
        /\ UNCHANGED site
  /\ UNCHANGED <<redis, lock, row, ends, completions, queue, prev, idx, faults>>

\* Layer 2 defence: the step was executed by an earlier delivery.
SkipExecuted(w) ==
  /\ pc[w] = "check" /\ st[w].stepCount > idx[w]
  /\ Goto(w, "release")
  /\ UNCHANGED <<redis, lock, row, ends, completions, queue, site, st, prev, idx,
                 faults>>

\* Early exit: the operation has ended; its completion is dispatched again.
SkipEnded(w) ==
  /\ pc[w] = "check" /\ st[w].stepCount <= idx[w] /\ st[w].status \in Terminal
  /\ Goto(w, "row")
  /\ UNCHANGED <<redis, lock, row, ends, completions, queue, site, st, prev, idx,
                 faults>>

\* Mutant: no Layer 2 defence, a step already executed is executed again.
BeginStepAgain(w) ==
  /\ pc[w] = "check" /\ st[w].status \notin Terminal
  /\ Goto(w, "run")
  /\ UNCHANGED <<redis, lock, row, ends, completions, queue, site, st, prev, idx,
                 faults>>

BeginStep(w) ==
  /\ pc[w] = "check" /\ st[w].stepCount <= idx[w] /\ st[w].status \notin Terminal
  /\ Goto(w, "run")
  /\ UNCHANGED <<redis, lock, row, ends, completions, queue, site, st, prev, idx,
                 faults>>

\* What a step may return.  runtime.step adds one to stepCount; a finish
\* instruction takes it back, and a forced finish or interrupt never added it.
\* "running" stands for a state that neither ended nor parked, with a next context
\* or, when call_tool caught a tool's exception, without one: see StopHere.
\* Bound: only steps before MaxStep park.
StepOutcome(s, i) ==
  [status : {"running", "error", "waiting_for_human"}, stepCount : {s.stepCount + 1}]
    \cup [status : {"done", "interrupted"}, stepCount : {s.stepCount, s.stepCount + 1}]
    \cup {o \in [status : {"waiting_for_async_tool"}, stepCount : {s.stepCount + 1}] :
            i < MaxStep}

RunStep(w) ==
  /\ pc[w] = "run"
  /\ \E o \in StepOutcome(st[w], idx[w]) : st' = [st EXCEPT ![w] = o]
  /\ Goto(w, "latest")
  /\ UNCHANGED <<redis, lock, row, ends, completions, queue, site, prev, idx, faults>>

\* Was the operation interrupted while the step was executing?
ReadLatest(w) ==
  /\ pc[w] = "latest"
  /\ BeginSave(w, "result",
       IF state.status = "interrupted" THEN [st[w] EXCEPT !.status = "interrupted"]
                                       ELSE st[w])
  /\ UNCHANGED <<redis, lock, row, ends, completions, queue, prev, idx, faults>>

-----------------------------------------------------------------------------
(* executeStep, after the result is saved.                                   *)

\* shouldContinue: the step returned a next context, and the next step is
\* scheduled.  Bound: none after MaxStep.
ScheduleNext(w) ==
  /\ pc[w] = "next" /\ st[w].status = "running" /\ idx[w] < MaxStep
  /\ Publish(idx[w] + 1)
  /\ Goto(w, "release")
  /\ UNCHANGED <<redis, lock, row, ends, completions, later, attempts, site, st,
                 prev, idx, faults>>

\* The operation goes no further: its status ended or parked it, or it is still
\* running and the step returned no next context.
StopHere(w) ==
  /\ pc[w] = "next"
  /\ Goto(w, "row")
  /\ UNCHANGED <<redis, lock, row, ends, completions, queue, site, st, prev, idx,
                 faults>>

\* The status the completion is recorded and told with.  A state that stops while
\* it is running counts as done, or, at its maxSteps, as interrupted.
Reason(s) ==
  IF s.status # "running" THEN s.status
  ELSE IF StepLimit > 0 /\ s.stepCount >= StepLimit THEN "interrupted" ELSE "done"

\* Mutant: an async-tool park returns before the row is written.
PersistCompletionSkipsPark(w) ==
  /\ pc[w] = "row"
  /\ row' = IF st[w].status = "waiting_for_async_tool" THEN row ELSE Reason(st[w])
  /\ Goto(w, IF st[w].status = "waiting_for_async_tool" THEN "release" ELSE "hook")
  /\ UNCHANGED <<redis, lock, ends, completions, queue, site, st, prev, idx, faults>>

\* dispatchHooks, first half: persistCompletion, which swallows a failed write;
\* an async-tool park stops there.
PersistCompletion(w) ==
  /\ pc[w] = "row"
  /\ \/ row' = Reason(st[w]) /\ UNCHANGED faults
     \/ Fault("swallow") /\ UNCHANGED row
  /\ Goto(w, IF st[w].status = "waiting_for_async_tool" THEN "release" ELSE "hook")
  /\ UNCHANGED <<redis, lock, ends, completions, queue, site, st, prev, idx>>

\* dispatchHooks, second half: the onComplete hooks.
DispatchOnComplete(w) ==
  /\ pc[w] = "hook"
  /\ completions' = completions \cup {Reason(st[w])}
  /\ Goto(w, "release")
  /\ UNCHANGED <<redis, lock, row, ends, queue, site, st, prev, idx, faults>>

\* Mutant: the resume is not guarded by the row's status.
ResumeParkedWithoutCas ==
  /\ state.status = "waiting_for_async_tool"
  /\ row' = "running"
  /\ Publish(state.stepCount)
  /\ scheduled[state.stepCount] < 3
  /\ UNCHANGED <<redis, lock, ends, completions, later, attempts, pc, site, st,
                 prev, idx, faults>>

\* A parked operation whose deferred tools have all answered: the row is flipped
\* back to running, by one winner, and the step after the park is scheduled.
ResumeParked ==
  /\ state.status = "waiting_for_async_tool" /\ row = "waiting_for_async_tool"
  /\ row' = "running"
  /\ Publish(state.stepCount)
  /\ UNCHANGED <<redis, lock, ends, completions, later, attempts, pc, site, st,
                 prev, idx, faults>>

-----------------------------------------------------------------------------
(* The catch block, crashes and interrupts.                                  *)

Throws(w) ==
  /\ pc[w] \in {"load", "check", "run", "latest", "prev", "save", "end", "next"}
  /\ site[w] # "error"
  /\ Fault("throw")
  /\ Goto(w, "catch")
  /\ UNCHANGED <<redis, lock, row, ends, completions, queue, site, st, prev, idx>>

\* Mutant: the state is saved as the worker has it, not with the error.
CatchLoadOwnCopy(w) ==
  /\ pc[w] = "catch"
  /\ BeginSave(w, "error", st[w])
  /\ UNCHANGED <<redis, lock, row, ends, completions, queue, prev, idx, faults>>

\* The error is put on the state Redis has now, or, when that cannot be read, on
\* a minimal state.
CatchLoad(w) ==
  /\ pc[w] = "catch"
  /\ \/ /\ BeginSave(w, "error", [state EXCEPT !.status = "error"])
        /\ UNCHANGED faults
     \/ /\ BeginSave(w, "error", [status |-> "error", stepCount |-> idx[w]])
        /\ Fault("swallow")
  /\ UNCHANGED <<redis, lock, row, ends, completions, queue, prev, idx>>

\* A failing save of the error state is swallowed.
ErrorSaveFails(w) ==
  /\ pc[w] \in {"prev", "save", "end"} /\ site[w] = "error"
  /\ Fault("swallow")
  /\ Goto(w, "row")
  /\ UNCHANGED <<redis, lock, row, ends, completions, queue, site, st, prev, idx>>

\* The platform kills the instance: no finally block, no answer to QStash.
Crash(w) ==
  /\ pc[w] # "idle"
  /\ Fault("crash")
  /\ lock' = IF lock[idx[w]] = w THEN [lock EXCEPT ![idx[w]] = Dead] ELSE lock
  /\ Redelivered(idx[w])
  /\ Finish(w)
  /\ UNCHANGED <<redis, row, ends, completions, scheduled, later>>

\* interruptOperation reads the state; an ended operation is left alone.
RequestInterrupt(r) ==
  /\ pc[r] = "idle"
  /\ IF state.status \in Terminal
     THEN Goto(r, "refused") /\ UNCHANGED <<site, st>>
     ELSE BeginSave(r, "interrupt", [state EXCEPT !.status = "interrupted"])
  /\ UNCHANGED <<redis, lock, row, ends, completions, queue, prev, idx, faults>>

-----------------------------------------------------------------------------
WorkerStep(w) ==
  \/ Claim(w) \/ Locked(w) \/ ClaimFailsOpen(w) \/ Release(w)
  \/ SavePrev(w) \/ SaveWrite(w) \/ SaveEnd(w)
  \/ Load(w) \/ SkipExecuted(w) \/ SkipEnded(w) \/ BeginStep(w) \/ RunStep(w)
  \/ ReadLatest(w) \/ ScheduleNext(w) \/ StopHere(w) \/ PersistCompletion(w)
  \/ DispatchOnComplete(w) \/ CatchLoad(w)

WorkerFault(w) == Throws(w) \/ ErrorSaveFails(w) \/ Crash(w)

Requester(r) == RequestInterrupt(r) \/ SavePrev(r) \/ SaveWrite(r) \/ SaveEnd(r)

QueueStep(i) == RetryDue(i) \/ Expire(i) \/ \E w \in Workers : Deliver(w, i)

Next ==
  \/ \E w \in Workers : WorkerStep(w) \/ WorkerFault(w)
  \/ \E r \in Requesters : Requester(r)
  \/ \E i \in Steps : QueueStep(i) \/ Duplicate(i)
  \/ ResumeParked

Spec == Init /\ [][Next]_vars

\* An instance that is not killed runs its handler to the end; QStash makes the
\* deliveries it owes; a key's TTL runs out; a deferred tool answers at last.
Fairness ==
  /\ \A w \in Workers : WF_vars(WorkerStep(w))
  /\ \A r \in Requesters : WF_vars(SavePrev(r) \/ SaveWrite(r) \/ SaveEnd(r))
  /\ \A i \in Steps : /\ WF_vars(Expire(i))
                      /\ WF_vars(RetryDue(i))
                      /\ WF_vars(\E w \in Workers : Deliver(w, i))
  /\ WF_vars(ResumeParked)

FairSpec == Spec /\ Fairness

-----------------------------------------------------------------------------
(* Properties.                                                               *)

TypeOK ==
  /\ state \in AgentState
  /\ steps \in Seq([stepIndex : Steps, status : Status \ {"idle"}])
  /\ lock \in [Steps -> Workers \cup {Free, Dead}]
  /\ row \in Status
  /\ ends \in Nat
  /\ completions \subseteq Status
  /\ scheduled \in [Steps -> Nat]
  /\ due \in [Steps -> Nat]
  /\ later \in [Steps -> Nat]
  /\ attempts \in [Steps -> Nat]
  /\ pc \in [Procs -> PC]
  /\ site \in [Procs -> Sites]
  /\ st \in [Procs -> AgentState]
  /\ prev \in [Procs -> Status]
  /\ idx \in [Workers -> Steps]
  /\ faults \in Nat

\* From the decision to run a step until its result is saved.
Executing(w) ==
  pc[w] \in {"run", "latest"} \/ (pc[w] \in {"prev", "save"} /\ site[w] = "result")

\* At most one worker executes a step of the operation at any time, whatever is
\* delivered twice, late or after a crash, and however the steps interleave.
OneExecutor ==
  \A v, w \in Workers : Executing(v) /\ Executing(w) => v = w

Ledger == INSTANCE StepLedger

\* The pipeline implements the ledger: at-least-once deliveries of every message
\* execute each step once, in order, and none after the operation has ended.
ImplementsLedger == Ledger!LedgerSpec

\* No step's message is published twice, so a redelivery is the only source of a
\* second execution attempt.
ScheduledOnce == \A i \in Steps : scheduled[i] <= 1

\* Once a saved step result has ended the operation, no late write makes the
\* Redis state continue: a stale save can change how it ended, not that it did.
EndedStaysEnded == Ledger!Closed => state.status \in StreamEnd

\* A scheduled step is never dropped: until it is in the history or the operation
\* has ended, a delivery of it is due, is put off or is being handled, unless QStash
\* has used up its retries of the message.
NoStepDropped ==
  \A i \in Steps :
    scheduled[i] > 0 /\ Len(steps) = i /\ state.status \notin Terminal =>
      \/ due[i] > 0 \/ later[i] > 0 \/ attempts[i] >= Retries
      \/ \E w \in Workers : pc[w] # "idle" /\ idx[w] = i

\* An accepted interrupt stops the operation at the next step boundary: a delivery
\* that loads the state after interruptOperation returned true finds it ended.
InterruptStops ==
  [][\A w \in Workers : pc[w] = "load" /\ pc'[w] = "check"
       => \A r \in Requesters : pc[r] = "accepted" => st'[w].status \in Terminal]_vars

\* The Redis state has ended, and its consumers were told how.
Ended == state.status \in StreamEnd /\ state.status \in completions

\* A tool called alone threw: the consumers were told that the operation is over,
\* no further step was scheduled, and the Redis state says running for good,
\* without an agent_runtime_end for this step.
HalfEnded ==
  /\ state.status = "running" /\ Reason(state) \in completions
  /\ \A i \in Steps : i >= state.stepCount => scheduled[i] = 0

\* The operation comes to an end and the end it came to is dispatched, or it
\* half-ends: it never stops with its consumers waiting for a word.
Settles == <>[](Ended \/ HalfEnded)

\* A scheduled step is executed, or the operation ends without it, even when
\* the worker that first took it is killed.
StepsHeal ==
  \A i \in Steps :
    (scheduled[i] > 0 /\ Len(steps) = i) ~>
      (Len(steps) > i \/ state.status \in StreamEnd)
=============================================================================
