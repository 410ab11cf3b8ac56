----------------------- MODULE StepExecutionInvariant -----------------------
(* Why the pipeline of StepExecution executes every step once: the inductive *)
(* invariant behind OneExecutor, ScheduledOnce, EndedStaysEnded and          *)
(* ImplementsLedger, one named part per piece of the argument.  It needs     *)
(* LeaseHolds: after a lapse, two workers may execute one step.              *)
EXTENDS StepExecution

\* A worker's step finishes within its lease and the claim never fails open.
LeaseHolds == Faults \cap {"lapse", "failOpen"} = {}

Saving(p) == pc[p] \in {"prev", "save", "end"}

\* Which call sites a process saves for, and what it may save there: only the
\* step's own result and its tracking save ever write a non-terminal status.
ControlInv ==
  /\ \A w \in Workers :
       /\ pc[w] \notin {"accepted", "refused"}
       /\ site[w] # "interrupt"
       /\ Saving(w) => site[w] # "none"
       /\ Saving(w) /\ site[w] \in {"budget", "error"} => st[w].status \in Terminal
       /\ pc[w] = "run" => st[w].stepCount <= idx[w]
  /\ \A r \in Requesters :
       /\ pc[r] \in {"idle", "prev", "save", "end", "accepted", "refused"}
       /\ Saving(r) => site[r] = "interrupt" /\ st[r].status \in Terminal

\* Between the claim and the release, the lock of its step is the worker's own.
LeaseInv ==
  \A w \in Workers : pc[w] \notin {"idle", "claim"} => lock[idx[w]] = w

\* Only published messages are delivered, and a message is published once the
\* step before it is in the history and has not ended the operation.
QueueInv ==
  /\ \A i \in Steps :
       /\ due[i] > 0 \/ later[i] > 0 => scheduled[i] > 0
       /\ scheduled[i] > 0 => i <= Len(steps)
       /\ scheduled[i] > 0 /\ i = Len(steps) => ~Ledger!Closed
  /\ \A w \in Workers : pc[w] # "idle" => scheduled[idx[w]] > 0

\* While Redis lets the operation continue, its stepCount counts the history.
CountInv == state.status \notin Terminal => state.stepCount = Len(steps)

\* A worker about to begin, or executing, holds the next step of the history.
NextStepInv ==
  \A w \in Workers :
    /\ pc[w] = "check" /\ st[w].status \notin Terminal /\ st[w].stepCount <= idx[w]
         => Len(steps) = idx[w] /\ st[w].stepCount = idx[w]
    /\ Executing(w) =>
         /\ Len(steps) = idx[w]
         /\ pc[w] = "run" => st[w].stepCount = idx[w]
         /\ pc[w] # "run" /\ st[w].status \notin Terminal =>
              st[w].stepCount = idx[w] + 1
         /\ pc[w] # "run" => st[w].status # "idle"

\* From the result's save until the next step is scheduled or the row is written.
Concluding(w) ==
  \/ pc[w] = "end" /\ site[w] = "result"
  \/ Saving(w) /\ site[w] = "track"
  \/ pc[w] \in {"next", "row"}

\* A worker that concludes a step which did not end the operation is the last to
\* have written the history, and nothing has been published after its step.
ConcludeInv ==
  \A w \in Workers : Concluding(w) /\ st[w].status \notin Terminal =>
    /\ Len(steps) = idx[w] + 1 /\ st[w].stepCount = idx[w] + 1
    /\ steps[Len(steps)].status = st[w].status
    /\ st[w].status \in Ledger!Continues =>
         /\ idx[w] + 1 \in Steps => scheduled[idx[w] + 1] = 0
         /\ row # "waiting_for_async_tool"

\* A row that says parked has no message out for the step after the park.
ParkInv ==
  row = "waiting_for_async_tool" =>
    \A i \in Steps : i = Len(steps) => scheduled[i] = 0

\* A worker on its way to the answer 200.
Answering(w) ==
  \/ pc[w] = "check" /\ (st[w].status \in Terminal \/ st[w].stepCount > idx[w])
  \/ pc[w] = "end" /\ site[w] \in {"budget", "result"}
  \/ Saving(w) /\ site[w] = "track"
  \/ pc[w] = "next"
  \/ pc[w] \in {"row", "hook", "release"} /\ site[w] # "error"

\* It has seen its step executed or the operation ended, and neither is taken back
\* while it holds the step's lock.
AnsweredInv ==
  \A w \in Workers :
    Answering(w) => Len(steps) > idx[w] \/ state.status \in Terminal

IInv ==
  /\ TypeOK
  /\ ControlInv
  /\ LeaseInv
  /\ QueueInv
  /\ ScheduledOnce
  /\ CountInv
  /\ NextStepInv
  /\ ConcludeInv
  /\ ParkInv
  /\ EndedStaysEnded
=============================================================================
