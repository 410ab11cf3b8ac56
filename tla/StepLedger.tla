----------------------------- MODULE StepLedger -----------------------------
(* What the step pipeline promises, without workers, locks, queues or Redis: *)
(* an operation is a ledger of executed steps.  Each entry is the next step  *)
(* index, so a step is executed exactly once and in order, and nothing       *)
(* follows an entry whose status ended the operation.                        *)
EXTENDS Naturals, Sequences

VARIABLE steps

\* The statuses after which a further step may follow.
Continues == {"running", "waiting_for_async_tool"}

\* The statuses after which this operation executes nothing more.
Ends == {"done", "error", "interrupted", "waiting_for_human"}

Entry == [stepIndex : Nat, status : Continues \cup Ends]

Closed == steps # <<>> /\ steps[Len(steps)].status \in Ends

LedgerInit == steps = <<>>

\* Execute the next step and record how it left the operation.
Execute(status) ==
  /\ ~Closed
  /\ steps' = Append(steps, [stepIndex |-> Len(steps), status |-> status])

LedgerNext == \E status \in Continues \cup Ends : Execute(status)

LedgerSpec == LedgerInit /\ [][LedgerNext]_steps
=============================================================================
