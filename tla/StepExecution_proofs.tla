----------------------- MODULE StepExecution_proofs ------------------------
(* The step pipeline is correct for every number of workers, requesters,     *)
(* steps, retries and faults, as long as a worker's step finishes within its *)
(* lease (LeaseHolds): IInv is inductive, and from it follow the safety      *)
(* properties and the refinement of StepLedger.                              *)
(*                                                                           *)
(* One lemma per action shows that it preserves IInv, with one step per part *)
(* of the invariant; the data lemmas come first.                             *)
EXTENDS StepExecutionInvariant, TLAPS

-----------------------------------------------------------------------------
(* Data.                                                                     *)

\* The values a finished request's locals are reset to have the right types.
LEMMA ResetValues ==
  Initial \in AgentState /\ "none" \in Sites /\ "idle" \in Status /\ 0 \in Steps
BY BoundsAssumption DEF Initial, AgentState, Sites, Status, Steps

\* Overwriting the status of an agent state leaves an agent state.
LEMMA StatusWritten ==
  ASSUME NEW s \in AgentState, NEW x \in Status
  PROVE  /\ [s EXCEPT !.status = x] \in AgentState
         /\ [s EXCEPT !.status = x].status = x
         /\ [s EXCEPT !.status = x].stepCount = s.stepCount
BY DEF AgentState

\* A terminal status is a status, and ends the ledger.
LEMMA TerminalStatuses ==
  /\ Terminal \subseteq Status
  /\ Terminal \subseteq StreamEnd
  /\ Ledger!Ends = StreamEnd
  /\ Status \ {"idle"} = Ledger!Continues \cup Ledger!Ends
BY DEF Terminal, StreamEnd, Status, Ledger!Ends, Ledger!Continues

\* What pushing an entry on the step history does.
LEMMA HistoryPush ==
  ASSUME NEW S, NEW q \in Seq(S), NEW e \in S
  PROVE  /\ Append(q, e) \in Seq(S)
         /\ Len(Append(q, e)) = Len(q) + 1
         /\ Append(q, e)[Len(Append(q, e))] = e
         /\ Append(q, e) # <<>>
OBVIOUS

\* The last entry of a history that has one.
LEMMA LastEntry ==
  ASSUME NEW S, NEW q \in Seq(S), Len(q) > 0
  PROVE  q # <<>> /\ q[Len(q)] \in S
OBVIOUS

\* Counting up one entry of a table of counters, inside the table or not.
LEMMA CountUp ==
  ASSUME NEW S, NEW f \in [S -> Nat], NEW i
  PROVE  [f EXCEPT ![i] = f[i] + 1] \in [S -> Nat]
<1>1. CASE i \in S  BY <1>1
<1>2. CASE i \notin S
  <2>1. [f EXCEPT ![i] = f[i] + 1] = f  BY <1>2
  <2> QED BY <2>1
<1> QED BY <1>1, <1>2

\* Steps are natural numbers.
LEMMA StepsAreNat == Steps \subseteq Nat
BY BoundsAssumption DEF Steps

\* The state createOperation leaves satisfies the invariant.
LEMMA InitIInv == ASSUME Init PROVE IInv
<1> USE ProcessAssumption, BoundsAssumption
<1>1. TypeOK
  <2>1. Init => /\ state \in AgentState /\ steps \in Seq([stepIndex : Steps, status : Status \ {"idle"}])
                /\ row \in Status /\ site \in [Procs -> Sites] /\ st \in [Procs -> AgentState]
                /\ prev \in [Procs -> Status] /\ idx \in [Workers -> Steps]
    <3>1. "running" \in Status  BY DEF Status
    <3> QED BY <3>1, ResetValues DEF Init
  <2> QED BY <2>1 DEF Init, TypeOK, PC, Status
<1>2. ControlInv BY DEF Init, ControlInv, Saving, Procs
<1>3. LeaseInv BY DEF Init, LeaseInv, Procs
<1>4. QueueInv BY DEF Init, QueueInv, Procs, Ledger!Closed, Steps
<1>5. NextStepInv /\ ConcludeInv
  BY DEF Init, NextStepInv, ConcludeInv, Executing, Concluding, Saving, Procs
<1>6. ScheduledOnce /\ CountInv /\ ParkInv /\ EndedStaysEnded
  BY DEF Init, ScheduledOnce, CountInv, ParkInv, EndedStaysEnded,
      Ledger!Closed, Initial
<1> QED BY <1>1, <1>2, <1>3, <1>4, <1>5, <1>6 DEF IInv

\* Finishing a request resets a process's locals to values of their types.
LEMMA FinishTypes ==
  ASSUME TypeOK, NEW w \in Workers, Finish(w)
  PROVE  /\ pc' \in [Procs -> PC]
         /\ site' \in [Procs -> Sites]
         /\ st' \in [Procs -> AgentState]
         /\ prev' \in [Procs -> Status]
         /\ idx' \in [Workers -> Steps]
<1> USE ResetValues DEF TypeOK, Finish
<1>1. pc' \in [Procs -> PC]  BY DEF Goto, PC
<1>2. site' \in [Procs -> Sites]  OBVIOUS
<1>3. st' \in [Procs -> AgentState]  OBVIOUS
<1>4. prev' \in [Procs -> Status]  OBVIOUS
<1>5. idx' \in [Workers -> Steps]  OBVIOUS
<1> QED BY <1>1, <1>2, <1>3, <1>4, <1>5

\* A redelivery counts an attempt and makes the message due, or does neither.
LEMMA RedeliveredTypes ==
  ASSUME TypeOK, NEW i \in Steps, Redelivered(i)
  PROVE  due' \in [Steps -> Nat] /\ attempts' \in [Steps -> Nat]
<1> USE DEF TypeOK
<1>1. CASE Again(i) /\ due' = [due EXCEPT ![i] = @ + 1]
  BY <1>1 DEF Again
<1>2. CASE GiveUp(i) /\ UNCHANGED due
  BY <1>2 DEF GiveUp
<1> QED BY <1>1, <1>2 DEF Redelivered

\* Deliver: only a published message is delivered.
LEMMA DeliverIInv ==
  ASSUME IInv, NEW w \in Workers, NEW i \in Steps, Deliver(w, i)
  PROVE  IInv'
<1> USE ProcessAssumption DEF Deliver, Goto, queue, redis
<1>1. TypeOK' BY DEF IInv, TypeOK, Procs, PC
<1>2. ControlInv' BY DEF IInv, TypeOK, ControlInv, Saving, Procs, Terminal, Initial
<1>3. LeaseInv' BY DEF IInv, TypeOK, LeaseInv, Procs
<1>4. QueueInv' BY DEF IInv, TypeOK, QueueInv, Procs, Ledger!Closed, Steps
<1>5. NextStepInv'
  BY DEF IInv, TypeOK, ControlInv, QueueInv, CountInv, NextStepInv, Executing,
      Procs, Terminal
<1>6. ConcludeInv'
  BY DEF IInv, TypeOK, ControlInv, ConcludeInv, Concluding, Saving, Procs, Terminal
<1>7. ScheduledOnce' /\ CountInv' /\ ParkInv' /\ EndedStaysEnded'
  BY DEF IInv, TypeOK, ScheduledOnce, CountInv, ParkInv, EndedStaysEnded,
      Ledger!Closed
<1> QED BY <1>1, <1>2, <1>3, <1>4, <1>5, <1>6, <1>7 DEF IInv

\* RetryDue: a put-off delivery is of a published message.
LEMMA RetryDueIInv ==
  ASSUME IInv, NEW i \in Steps, RetryDue(i)
  PROVE  IInv'
<1> USE ProcessAssumption DEF RetryDue, Goto, queue, redis
<1>1. TypeOK' BY DEF IInv, TypeOK, Procs, PC
<1>2. ControlInv' BY DEF IInv, TypeOK, ControlInv, Saving, Procs, Terminal, Initial
<1>3. LeaseInv' BY DEF IInv, TypeOK, LeaseInv, Procs
<1>4. QueueInv' BY DEF IInv, TypeOK, QueueInv, Procs, Ledger!Closed, Steps
<1>5. NextStepInv'
  BY DEF IInv, TypeOK, ControlInv, QueueInv, CountInv, NextStepInv, Executing,
      Procs, Terminal
<1>6. ConcludeInv'
  BY DEF IInv, TypeOK, ControlInv, ConcludeInv, Concluding, Saving, Procs, Terminal
<1>7. ScheduledOnce' /\ CountInv' /\ ParkInv' /\ EndedStaysEnded'
  BY DEF IInv, TypeOK, ScheduledOnce, CountInv, ParkInv, EndedStaysEnded,
      Ledger!Closed
<1> QED BY <1>1, <1>2, <1>3, <1>4, <1>5, <1>6, <1>7 DEF IInv

\* Duplicate: only a published message is duplicated.
LEMMA DuplicateIInv ==
  ASSUME IInv, NEW i \in Steps, Duplicate(i)
  PROVE  IInv'
<1> USE ProcessAssumption DEF Duplicate, Goto, queue, redis, Fault
<1>1. TypeOK' BY DEF IInv, TypeOK, Procs, PC
<1>2. ControlInv' BY DEF IInv, TypeOK, ControlInv, Saving, Procs, Terminal, Initial
<1>3. LeaseInv' BY DEF IInv, TypeOK, LeaseInv, Procs
<1>4. QueueInv' BY DEF IInv, TypeOK, QueueInv, Procs, Ledger!Closed, Steps
<1>5. NextStepInv'
  BY DEF IInv, TypeOK, ControlInv, QueueInv, CountInv, NextStepInv, Executing,
      Procs, Terminal
<1>6. ConcludeInv'
  BY DEF IInv, TypeOK, ControlInv, ConcludeInv, Concluding, Saving, Procs, Terminal
<1>7. ScheduledOnce' /\ CountInv' /\ ParkInv' /\ EndedStaysEnded'
  BY DEF IInv, TypeOK, ScheduledOnce, CountInv, ParkInv, EndedStaysEnded,
      Ledger!Closed
<1> QED BY <1>1, <1>2, <1>3, <1>4, <1>5, <1>6, <1>7 DEF IInv

\* Claim: SET NX gives the worker a lock nobody held.
LEMMA ClaimIInv ==
  ASSUME IInv, NEW w \in Workers, Claim(w)
  PROVE  IInv'
<1> USE ProcessAssumption DEF Claim, Goto, queue, redis
<1>1. TypeOK' BY DEF IInv, TypeOK, Procs, PC
<1>2. ControlInv' BY DEF IInv, TypeOK, ControlInv, Saving, Procs, Terminal, Initial
<1>3. LeaseInv' BY DEF IInv, TypeOK, LeaseInv, Procs
<1>4. QueueInv' BY DEF IInv, TypeOK, QueueInv, Procs, Ledger!Closed, Steps
<1>5. NextStepInv'
  BY DEF IInv, TypeOK, ControlInv, QueueInv, CountInv, NextStepInv, Executing,
      Procs, Terminal
<1>6. ConcludeInv'
  BY DEF IInv, TypeOK, ControlInv, ConcludeInv, Concluding, Saving, Procs, Terminal
<1>7. ScheduledOnce' /\ CountInv' /\ ParkInv' /\ EndedStaysEnded'
  BY DEF IInv, TypeOK, ScheduledOnce, CountInv, ParkInv, EndedStaysEnded,
      Ledger!Closed
<1> QED BY <1>1, <1>2, <1>3, <1>4, <1>5, <1>6, <1>7 DEF IInv

\* Locked: a delivery answered 429 leaves the shared state alone.
LEMMA LockedIInv ==
  ASSUME IInv, NEW w \in Workers, Locked(w)
  PROVE  IInv'
<1>1. TypeOK'
  <2>1. later' \in [Steps -> Nat]
    <3>1. later' = [later EXCEPT ![idx[w]] = later[idx[w]] + 1] \/ later' = later
      BY DEF Locked
    <3>2. later \in [Steps -> Nat]  BY DEF IInv, TypeOK
    <3> QED BY <3>1, <3>2
  <2>2. attempts' \in [Steps -> Nat]
    <3>1. attempts' = [attempts EXCEPT ![idx[w]] = attempts[idx[w]] + 1] \/ attempts' = attempts
      BY DEF Locked, Again, GiveUp
    <3>2. attempts \in [Steps -> Nat]  BY DEF IInv, TypeOK
    <3> QED BY <3>1, <3>2
  <2> QED BY <2>1, <2>2, FinishTypes DEF IInv, TypeOK, Locked, redis
<1> USE ProcessAssumption DEF Locked, Goto, queue, redis, Finish, Again, GiveUp
<1>2. ControlInv' BY DEF IInv, TypeOK, ControlInv, Saving, Procs, Terminal, Initial
<1>3. LeaseInv' BY DEF IInv, TypeOK, LeaseInv, Procs
<1>4. QueueInv' BY DEF IInv, TypeOK, QueueInv, Procs, Ledger!Closed, Steps
<1>5. NextStepInv'
  BY DEF IInv, TypeOK, ControlInv, QueueInv, CountInv, NextStepInv, Executing,
      Procs, Terminal
<1>6. ConcludeInv'
  BY DEF IInv, TypeOK, ControlInv, ConcludeInv, Concluding, Saving, Procs, Terminal
<1>7. ScheduledOnce' /\ CountInv' /\ ParkInv' /\ EndedStaysEnded'
  BY DEF IInv, TypeOK, ScheduledOnce, CountInv, ParkInv, EndedStaysEnded,
      Ledger!Closed
<1> QED BY <1>1, <1>2, <1>3, <1>4, <1>5, <1>6, <1>7 DEF IInv

\* Expire: within the lease only a crashed worker's lock runs out.
LEMMA ExpireIInv ==
  ASSUME IInv, LeaseHolds, NEW i \in Steps, Expire(i)
  PROVE  IInv'
<1> USE ProcessAssumption DEF Expire, Goto, queue, redis, LeaseHolds
<1>1. TypeOK' BY DEF IInv, TypeOK, Procs, PC
<1>2. ControlInv' BY DEF IInv, TypeOK, ControlInv, Saving, Procs, Terminal, Initial
<1>3. LeaseInv' BY DEF IInv, TypeOK, LeaseInv, Procs
<1>4. QueueInv' BY DEF IInv, TypeOK, QueueInv, Procs, Ledger!Closed, Steps
<1>5. NextStepInv'
  BY DEF IInv, TypeOK, ControlInv, QueueInv, CountInv, NextStepInv, Executing,
      Procs, Terminal
<1>6. ConcludeInv'
  BY DEF IInv, TypeOK, ControlInv, ConcludeInv, Concluding, Saving, Procs, Terminal
<1>7. ScheduledOnce' /\ CountInv' /\ ParkInv' /\ EndedStaysEnded'
  BY DEF IInv, TypeOK, ScheduledOnce, CountInv, ParkInv, EndedStaysEnded,
      Ledger!Closed
<1> QED BY <1>1, <1>2, <1>3, <1>4, <1>5, <1>6, <1>7 DEF IInv

\* Release: the lock a worker deletes is its own.
LEMMA ReleaseIInv ==
  ASSUME IInv, NEW w \in Workers, Release(w)
  PROVE  IInv'
<1>1. TypeOK'
  <2>1. due' \in [Steps -> Nat] /\ attempts' \in [Steps -> Nat]
    <3>1. Redelivered(idx[w]) \/ UNCHANGED <<due, attempts>>
      BY DEF Release
    <3>2. idx[w] \in Steps  BY DEF IInv, TypeOK
    <3> QED BY <3>1, <3>2, RedeliveredTypes DEF IInv, TypeOK
  <2>2. lock' \in [Steps -> Workers \cup {Free, Dead}] /\ faults' \in Nat
    <3>1. \/ lock' = [lock EXCEPT ![idx[w]] = Free] /\ UNCHANGED faults
          \/ lock' = [lock EXCEPT ![idx[w]] = Dead] /\ faults' = faults + 1
      BY DEF Release, Fault
    <3>2. lock \in [Steps -> Workers \cup {Free, Dead}] /\ faults \in Nat
      BY DEF IInv, TypeOK
    <3> QED BY <3>1, <3>2
  <2> QED BY <2>1, <2>2, FinishTypes DEF IInv, TypeOK, Release, redis
<1> USE ProcessAssumption DEF Release, Goto, queue, redis, Finish, Fault,
    Redelivered, Again, GiveUp
<1>2. ControlInv' BY DEF IInv, TypeOK, ControlInv, Saving, Procs, Terminal, Initial
<1>3. LeaseInv' BY DEF IInv, TypeOK, LeaseInv, Procs
<1>4. QueueInv' BY DEF IInv, TypeOK, QueueInv, Procs, Ledger!Closed, Steps
<1>5. NextStepInv'
  BY DEF IInv, TypeOK, ControlInv, QueueInv, CountInv, NextStepInv, Executing,
      Procs, Terminal
<1>6. ConcludeInv'
  BY DEF IInv, TypeOK, ControlInv, ConcludeInv, Concluding, Saving, Procs, Terminal
<1>7. ScheduledOnce' /\ CountInv' /\ ParkInv' /\ EndedStaysEnded'
  BY DEF IInv, TypeOK, ScheduledOnce, CountInv, ParkInv, EndedStaysEnded,
      Ledger!Closed
<1> QED BY <1>1, <1>2, <1>3, <1>4, <1>5, <1>6, <1>7 DEF IInv

\* SavePrev: reading the previous status changes nothing shared.
LEMMA SavePrevIInv ==
  ASSUME IInv, NEW p \in Procs, SavePrev(p)
  PROVE  IInv'
<1> USE ProcessAssumption DEF SavePrev, Goto, queue, redis
<1>1. TypeOK' BY DEF IInv, TypeOK, Procs, PC, AgentState
<1>2. ControlInv' BY DEF IInv, TypeOK, ControlInv, Saving, Procs, Terminal, Initial
<1>3. LeaseInv' BY DEF IInv, TypeOK, LeaseInv, Procs
<1>4. QueueInv' BY DEF IInv, TypeOK, QueueInv, Procs, Ledger!Closed, Steps
<1>5. NextStepInv'
  BY DEF IInv, TypeOK, ControlInv, QueueInv, CountInv, NextStepInv, Executing,
      Procs, Terminal
<1>6. ConcludeInv'
  BY DEF IInv, TypeOK, ControlInv, ConcludeInv, Concluding, Saving, Procs, Terminal
<1>7. ScheduledOnce' /\ CountInv' /\ ParkInv' /\ EndedStaysEnded'
  BY DEF IInv, TypeOK, ScheduledOnce, CountInv, ParkInv, EndedStaysEnded,
      Ledger!Closed
<1> QED BY <1>1, <1>2, <1>3, <1>4, <1>5, <1>6, <1>7 DEF IInv

\* A worker that saves a step's result holds the next step of an open ledger.
LEMMA SavesNextStep ==
  ASSUME IInv, NEW p \in Procs, pc[p] = "save", site[p] = "result"
  PROVE  /\ p \in Workers /\ p \notin Requesters /\ Executing(p)
         /\ idx[p] \in Steps /\ Len(steps) = idx[p]
         /\ scheduled[idx[p]] > 0 /\ ~Ledger!Closed
         /\ st[p] \in AgentState /\ st[p].status \in Status \ {"idle"}
         /\ st[p].status \notin Terminal => st[p].stepCount = idx[p] + 1
<1> USE ProcessAssumption
<1>1. p \in Workers /\ p \notin Requesters /\ Executing(p)
  BY DEF IInv, ControlInv, Saving, Procs, Executing
<1>2. /\ Len(steps) = idx[p] /\ st[p].status # "idle"
      /\ st[p].status \notin Terminal => st[p].stepCount = idx[p] + 1
  BY <1>1 DEF IInv, NextStepInv
<1>3. idx[p] \in Steps /\ st[p] \in AgentState /\ st[p].status \in Status
  BY <1>1 DEF IInv, TypeOK, AgentState
<1>4. scheduled[idx[p]] > 0 /\ ~Ledger!Closed
  BY <1>1, <1>2, <1>3 DEF IInv, QueueInv
<1> QED BY <1>1, <1>2, <1>3, <1>4

\* SaveWrite, the argument's heart: a result extends an open ledger, and any
\* other save writes an end or rewrites what the ledger already says.
LEMMA SaveWriteIInv ==
  ASSUME IInv, NEW p \in Procs, SaveWrite(p)
  PROVE  IInv'
<1> USE ProcessAssumption
<1>0. /\ pc[p] = "save" /\ state' = st[p] /\ Goto(p, "end") /\ pc \in [Procs -> PC]
      /\ UNCHANGED <<lock, row, ends, completions, queue, site, st, prev, idx, faults>>
  BY DEF SaveWrite, IInv, TypeOK
<1>1. CASE site[p] = "result"
  <2> DEFINE entry == [stepIndex |-> idx[p], status |-> st[p].status]
  <2>1. p \in Workers /\ Executing(p) /\ p \notin Requesters
    BY <1>0, <1>1, SavesNextStep
  <2>2. /\ Len(steps) = idx[p] /\ st[p].status # "idle" /\ st[p] \in AgentState
        /\ st[p].status \notin Terminal => st[p].stepCount = idx[p] + 1
        /\ idx[p] \in Steps /\ st[p].status \in Status
    BY <1>0, <1>1, SavesNextStep
  <2>3. entry \in [stepIndex : Steps, status : Status \ {"idle"}]
    BY <2>2
  <2>4. steps' = Append(steps, entry)
    BY <1>1 DEF SaveWrite
  <2>5. /\ steps' \in Seq([stepIndex : Steps, status : Status \ {"idle"}])
        /\ Len(steps') = idx[p] + 1 /\ steps'[Len(steps')] = entry /\ steps' # <<>>
    BY <2>2, <2>3, <2>4, HistoryPush DEF IInv, TypeOK
  <2>6. scheduled[idx[p]] > 0 /\ ~Ledger!Closed
    BY <1>0, <1>1, SavesNextStep
  <2>7. \A v \in Workers : v # p /\ pc[v] \notin {"idle", "claim"} => idx[v] # idx[p]
    BY <1>0, <2>1 DEF IInv, LeaseInv
  <2>8. Ledger!Closed' => st[p].status \in StreamEnd
    BY <2>5, TerminalStatuses DEF Ledger!Closed
  <2>9. \A i \in Steps : scheduled[i] > 0 => i < Len(steps')
    BY StepsAreNat, <2>2, <2>5 DEF IInv, QueueInv
  <2>9a. scheduled \in [Steps -> Nat] /\ due \in [Steps -> Nat] /\ later \in [Steps -> Nat]
    BY DEF IInv, TypeOK
  <2> HIDE DEF entry
  <2>10. TypeOK' BY <1>0, <2>2, <2>5 DEF IInv, TypeOK, Goto, PC, queue
  <2>11. ControlInv'
    BY <1>0, <2>1 DEF IInv, TypeOK, ControlInv, Saving, Procs, Goto
  <2>12. LeaseInv'
    BY <1>0 DEF IInv, TypeOK, LeaseInv, Procs, Goto
  <2>13. QueueInv'
    <3>1. \A i \in Steps : due[i] > 0 \/ later[i] > 0 => scheduled[i] > 0
      BY DEF IInv, QueueInv
    <3>2. \A i \in Steps : scheduled[i] > 0 => i <= Len(steps') /\ i # Len(steps')
      BY StepsAreNat, <2>2, <2>5, <2>9
    <3>3. \A v \in Workers : pc'[v] # "idle" => scheduled[idx[v]] > 0
      BY <1>0, <2>6 DEF IInv, QueueInv, Goto, Procs
    <3> QED BY <1>0, <3>1, <3>2, <3>3 DEF QueueInv, queue
  <2>14. NextStepInv'
    BY <1>0, <2>1, <2>2, <2>7 DEF IInv, TypeOK, NextStepInv, Executing, Procs, Goto
  <2>15. ConcludeInv'
    <3> SUFFICES ASSUME NEW v \in Workers, Concluding(v)', st[v].status \notin Terminal
                 PROVE  /\ Len(steps') = idx[v] + 1 /\ st[v].stepCount = idx[v] + 1
                        /\ steps'[Len(steps')].status = st[v].status
                        /\ st[v].status \in Ledger!Continues =>
                             /\ idx[v] + 1 \in Steps => scheduled[idx[v] + 1] = 0
                             /\ row # "waiting_for_async_tool"
      BY <1>0 DEF ConcludeInv, queue
    <3>1. CASE v = p
      <4>1. idx[p] + 1 \in Steps => scheduled[idx[p] + 1] = 0
        BY StepsAreNat, <2>2, <2>5, <2>9, <2>9a
      <4>2. row # "waiting_for_async_tool"
        BY <2>2, <2>6 DEF IInv, ParkInv
      <4> QED BY <3>1, <4>1, <4>2, <2>2, <2>5 DEF entry
    <3>2. CASE v # p
      <4>1. Concluding(v)
        BY <1>0, <3>2 DEF Concluding, Saving, Goto, Procs
      <4>2. Len(steps) = idx[v] + 1 /\ steps[Len(steps)].status = st[v].status
            /\ (st[v].status \in Ledger!Continues =>
                  (idx[v] + 1 \in Steps => scheduled[idx[v] + 1] = 0))
        BY <4>1 DEF IInv, ConcludeInv
      <4>3. st[v].status \notin Ledger!Continues
        BY <4>2, <2>2, <2>6
      <4>4. steps # <<>> /\ steps[Len(steps)] \in [stepIndex : Steps, status : Status \ {"idle"}]
        <5>1. steps \in Seq([stepIndex : Steps, status : Status \ {"idle"}])
              /\ idx[v] \in Nat
          BY StepsAreNat DEF IInv, TypeOK
        <5>2. Len(steps) > 0
          BY <4>2, <5>1
        <5> QED BY <5>1, <5>2, LastEntry
      <4>5. Ledger!Closed
        BY <4>2, <4>3, <4>4, TerminalStatuses DEF Ledger!Closed
      <4> QED BY <4>5, <2>6
    <3> QED BY <3>1, <3>2
  <2>16. CountInv' /\ EndedStaysEnded'
    BY <1>0, <2>2, <2>5, <2>8 DEF CountInv, EndedStaysEnded
  <2>17. ScheduledOnce' /\ ParkInv'
    <3>1. \A i \in Steps : i = Len(steps') => scheduled[i] = 0
      BY StepsAreNat, <2>2, <2>5, <2>9, <2>9a
    <3> QED BY <1>0, <3>1 DEF IInv, ScheduledOnce, ParkInv, queue
  <2> QED BY <2>10, <2>11, <2>12, <2>13, <2>14, <2>15, <2>16, <2>17 DEF IInv
<1>2. CASE site[p] # "result"
  <2> USE <1>2 DEF Goto
  <2>1. UNCHANGED steps  BY DEF SaveWrite
  <2>2. \/ st[p].status \in Terminal
        \/ p \in Workers /\ Concluding(p)
    BY <1>0 DEF IInv, ControlInv, Saving, Procs, Concluding, Sites, TypeOK
  <2>3. /\ st[p].status \notin Terminal =>
             Len(steps) = st[p].stepCount /\ steps[Len(steps)].status = st[p].status
        /\ st[p] \in AgentState
    BY <2>2 DEF IInv, ConcludeInv, TypeOK
  <2>10. TypeOK' BY <1>0, <2>1, <2>3 DEF IInv, TypeOK, PC, queue
  <2>11. ControlInv'
    BY <1>0 DEF IInv, TypeOK, ControlInv, Saving, Procs
  <2>12. LeaseInv'
    BY <1>0 DEF IInv, TypeOK, LeaseInv, Procs
  <2>13. QueueInv'
    BY <1>0, <2>1 DEF IInv, TypeOK, QueueInv, Procs, queue, Ledger!Closed
  <2>14. NextStepInv'
    BY <1>0, <2>1 DEF IInv, TypeOK, NextStepInv, Executing, Procs
  <2>15. ConcludeInv'
    BY <1>0, <2>1 DEF IInv, TypeOK, ConcludeInv, Concluding, Saving, Procs, queue
  <2>16. CountInv'
    BY <1>0, <2>1, <2>3 DEF CountInv
  <2>17. EndedStaysEnded'
    BY <1>0, <2>1, <2>3, TerminalStatuses DEF EndedStaysEnded, Ledger!Closed
  <2>18. ScheduledOnce' /\ ParkInv'
    BY <1>0, <2>1 DEF IInv, ScheduledOnce, ParkInv, queue
  <2> QED BY <2>10, <2>11, <2>12, <2>13, <2>14, <2>15, <2>16, <2>17, <2>18 DEF IInv
<1> QED BY <1>1, <1>2

\* Beginning to save a terminal status, from any of the three places that do.
LEMMA TerminalSaveIInv ==
  ASSUME IInv,
         NEW p \in Procs, NEW call \in Sites, NEW new \in AgentState,
         new.status \in Terminal,
         \/ p \in Workers /\ pc[p] \in {"load", "catch"} /\ call \in {"budget", "error"}
         \/ p \in Requesters /\ pc[p] = "idle" /\ call = "interrupt",
         BeginSave(p, call, new),
         UNCHANGED <<redis, lock, row, ends, completions, queue, prev, idx>>,
         faults' \in Nat
  PROVE  IInv'
<1> USE ProcessAssumption DEF BeginSave, Goto, redis, queue
<1>1. TypeOK' BY DEF IInv, TypeOK, PC
<1>2. ControlInv' BY DEF IInv, TypeOK, ControlInv, Saving, Procs
<1>3. LeaseInv' BY DEF IInv, TypeOK, LeaseInv, Procs
<1>4. QueueInv' BY DEF IInv, TypeOK, QueueInv, Procs, Ledger!Closed
<1>5. NextStepInv' BY DEF IInv, TypeOK, NextStepInv, Executing, Procs
<1>6. ConcludeInv' BY DEF IInv, TypeOK, ConcludeInv, Concluding, Saving, Procs
<1>7. ScheduledOnce' /\ CountInv' /\ ParkInv' /\ EndedStaysEnded'
  BY DEF IInv, ScheduledOnce, CountInv, ParkInv, EndedStaysEnded, Ledger!Closed
<1> QED BY <1>1, <1>2, <1>3, <1>4, <1>5, <1>6, <1>7 DEF IInv

\* Load: a loaded state that may continue counts the history.
LEMMA LoadIInv ==
  ASSUME IInv, NEW w \in Workers, Load(w)
  PROVE  IInv'
<1> USE ProcessAssumption
<1>1. CASE Budgeted /\ BeginSave(w, "budget", [state EXCEPT !.status = "interrupted"])
  <2> DEFINE new == [state EXCEPT !.status = "interrupted"]
  <2>1. new \in AgentState /\ new.status \in Terminal
    BY StatusWritten, TerminalStatuses DEF IInv, TypeOK, Terminal
  <2>2. "budget" \in Sites /\ w \in Procs /\ faults' \in Nat
    BY DEF Sites, Procs, Load, IInv, TypeOK
  <2> QED BY <1>1, <2>1, <2>2, TerminalSaveIInv DEF Load
<1>2. CASE st' = [st EXCEPT ![w] = state] /\ Goto(w, "check") /\ UNCHANGED site
  <2> USE <1>2 DEF Goto, redis, queue
  <2>0. UNCHANGED <<redis, lock, row, ends, completions, queue, prev, idx, faults>> /\ pc[w] = "load"
    BY DEF Load
  <2>1. TypeOK' BY <2>0 DEF IInv, TypeOK, PC
  <2>2. ControlInv' BY <2>0 DEF IInv, TypeOK, ControlInv, Saving, Procs
  <2>3. LeaseInv' BY <2>0 DEF IInv, TypeOK, LeaseInv, Procs
  <2>4. QueueInv' BY <2>0 DEF IInv, TypeOK, QueueInv, Procs, Ledger!Closed
  <2>5. NextStepInv'
    <3>1. state.status \notin Terminal => state.stepCount = Len(steps) /\ idx[w] <= Len(steps) /\ idx[w] \in Nat /\ Len(steps) \in Nat
      BY <2>0 DEF IInv, TypeOK, CountInv, QueueInv, Steps
    <3> QED BY <2>0, <3>1 DEF IInv, TypeOK, NextStepInv, Executing, Procs
  <2>6. ConcludeInv'
    BY <2>0 DEF IInv, TypeOK, ConcludeInv, Concluding, Saving, Procs
  <2>7. ScheduledOnce' /\ CountInv' /\ ParkInv' /\ EndedStaysEnded'
    BY <2>0 DEF IInv, ScheduledOnce, CountInv, ParkInv, EndedStaysEnded,
        Ledger!Closed
  <2> QED BY <2>1, <2>2, <2>3, <2>4, <2>5, <2>6, <2>7 DEF IInv
<1> QED BY <1>1, <1>2 DEF Load

\* CatchLoad: both forms of the error state are terminal.
LEMMA CatchLoadIInv ==
  ASSUME IInv, NEW w \in Workers, CatchLoad(w)
  PROVE  IInv'
<1> USE ProcessAssumption
<1>1. PICK new : BeginSave(w, "error", new)
                 /\ new \in {[state EXCEPT !.status = "error"],
                             [status |-> "error", stepCount |-> idx[w]]}
  BY DEF CatchLoad
<1>2. new \in AgentState /\ new.status \in Terminal
  <2>1. CASE new = [state EXCEPT !.status = "error"]
    BY <2>1, StatusWritten, TerminalStatuses DEF IInv, TypeOK, Terminal
  <2>2. CASE new = [status |-> "error", stepCount |-> idx[w]]
    BY <2>2, BoundsAssumption, TerminalStatuses DEF IInv, TypeOK, Terminal,
        AgentState, Steps
  <2> QED BY <1>1, <2>1, <2>2
<1>3. "error" \in Sites /\ w \in Procs /\ faults' \in Nat
  BY DEF Sites, Procs, CatchLoad, Fault, IInv, TypeOK
<1>4. UNCHANGED <<redis, lock, row, ends, completions, queue, prev, idx>> /\ pc[w] = "catch"
  BY DEF CatchLoad
<1> QED BY <1>1, <1>2, <1>3, <1>4, TerminalSaveIInv

\* RequestInterrupt: an interrupt saves a terminal status or nothing.
LEMMA RequestInterruptIInv ==
  ASSUME IInv, NEW r \in Requesters, RequestInterrupt(r)
  PROVE  IInv'
<1> USE ProcessAssumption
<1>1. CASE BeginSave(r, "interrupt", [state EXCEPT !.status = "interrupted"])
  <2> DEFINE new == [state EXCEPT !.status = "interrupted"]
  <2>1. new \in AgentState /\ new.status \in Terminal
    BY StatusWritten, TerminalStatuses DEF IInv, TypeOK, Terminal
  <2>2. "interrupt" \in Sites /\ r \in Procs /\ faults' \in Nat
    BY DEF Sites, Procs, RequestInterrupt, IInv, TypeOK
  <2> QED BY <1>1, <2>1, <2>2, TerminalSaveIInv DEF RequestInterrupt
<1>2. CASE Goto(r, "refused") /\ UNCHANGED <<site, st>>
  <2> USE <1>2 DEF Goto, redis, queue
  <2>0. UNCHANGED <<redis, lock, row, ends, completions, queue, prev, idx, faults>> /\ pc[r] = "idle"
    BY DEF RequestInterrupt
  <2>1. TypeOK' BY <2>0 DEF IInv, TypeOK, PC
  <2>2. ControlInv' BY <2>0 DEF IInv, TypeOK, ControlInv, Saving, Procs
  <2>3. LeaseInv' BY <2>0 DEF IInv, TypeOK, LeaseInv, Procs
  <2>4. QueueInv' BY <2>0 DEF IInv, TypeOK, QueueInv, Procs, Ledger!Closed
  <2>5. NextStepInv' BY <2>0 DEF IInv, TypeOK, NextStepInv, Executing, Procs
  <2>6. ConcludeInv'
    BY <2>0 DEF IInv, TypeOK, ConcludeInv, Concluding, Saving, Procs
  <2>7. ScheduledOnce' /\ CountInv' /\ ParkInv' /\ EndedStaysEnded'
    BY <2>0 DEF IInv, ScheduledOnce, CountInv, ParkInv, EndedStaysEnded,
        Ledger!Closed
  <2> QED BY <2>1, <2>2, <2>3, <2>4, <2>5, <2>6, <2>7 DEF IInv
<1> QED BY <1>1, <1>2 DEF RequestInterrupt

\* SkipExecuted: skipping goes straight to the release.
LEMMA SkipExecutedIInv ==
  ASSUME IInv, NEW w \in Workers, SkipExecuted(w)
  PROVE  IInv'
<1> USE ProcessAssumption DEF SkipExecuted, Goto, queue, redis
<1>1. TypeOK' BY DEF IInv, TypeOK, Procs, PC
<1>2. ControlInv' BY DEF IInv, TypeOK, ControlInv, Saving, Procs, Terminal, Initial
<1>3. LeaseInv' BY DEF IInv, TypeOK, LeaseInv, Procs
<1>4. QueueInv' BY DEF IInv, TypeOK, QueueInv, Procs, Ledger!Closed, Steps
<1>5. NextStepInv'
  BY DEF IInv, TypeOK, ControlInv, QueueInv, CountInv, NextStepInv, Executing,
      Procs, Terminal
<1>6. ConcludeInv'
  BY DEF IInv, TypeOK, ControlInv, ConcludeInv, Concluding, Saving, Procs, Terminal
<1>7. ScheduledOnce' /\ CountInv' /\ ParkInv' /\ EndedStaysEnded'
  BY DEF IInv, TypeOK, ScheduledOnce, CountInv, ParkInv, EndedStaysEnded,
      Ledger!Closed
<1> QED BY <1>1, <1>2, <1>3, <1>4, <1>5, <1>6, <1>7 DEF IInv

\* SkipEnded: only an ended operation's completion is dispatched again.
LEMMA SkipEndedIInv ==
  ASSUME IInv, NEW w \in Workers, SkipEnded(w)
  PROVE  IInv'
<1> USE ProcessAssumption DEF SkipEnded, Goto, queue, redis
<1>1. TypeOK' BY DEF IInv, TypeOK, Procs, PC
<1>2. ControlInv' BY DEF IInv, TypeOK, ControlInv, Saving, Procs, Terminal, Initial
<1>3. LeaseInv' BY DEF IInv, TypeOK, LeaseInv, Procs
<1>4. QueueInv' BY DEF IInv, TypeOK, QueueInv, Procs, Ledger!Closed, Steps
<1>5. NextStepInv'
  BY DEF IInv, TypeOK, ControlInv, QueueInv, CountInv, NextStepInv, Executing,
      Procs, Terminal
<1>6. ConcludeInv'
  BY DEF IInv, TypeOK, ControlInv, ConcludeInv, Concluding, Saving, Procs, Terminal
<1>7. ScheduledOnce' /\ CountInv' /\ ParkInv' /\ EndedStaysEnded'
  BY DEF IInv, TypeOK, ScheduledOnce, CountInv, ParkInv, EndedStaysEnded,
      Ledger!Closed
<1> QED BY <1>1, <1>2, <1>3, <1>4, <1>5, <1>6, <1>7 DEF IInv

\* BeginStep: a step begins only as the next step of the history.
LEMMA BeginStepIInv ==
  ASSUME IInv, NEW w \in Workers, BeginStep(w)
  PROVE  IInv'
<1> USE ProcessAssumption DEF BeginStep, Goto, queue, redis
<1>1. TypeOK' BY DEF IInv, TypeOK, Procs, PC
<1>2. ControlInv' BY DEF IInv, TypeOK, ControlInv, Saving, Procs, Terminal, Initial
<1>3. LeaseInv' BY DEF IInv, TypeOK, LeaseInv, Procs
<1>4. QueueInv' BY DEF IInv, TypeOK, QueueInv, Procs, Ledger!Closed, Steps
<1>5. NextStepInv'
  BY DEF IInv, TypeOK, ControlInv, QueueInv, CountInv, NextStepInv, Executing,
      Procs, Terminal
<1>6. ConcludeInv'
  BY DEF IInv, TypeOK, ControlInv, ConcludeInv, Concluding, Saving, Procs, Terminal
<1>7. ScheduledOnce' /\ CountInv' /\ ParkInv' /\ EndedStaysEnded'
  BY DEF IInv, TypeOK, ScheduledOnce, CountInv, ParkInv, EndedStaysEnded,
      Ledger!Closed
<1> QED BY <1>1, <1>2, <1>3, <1>4, <1>5, <1>6, <1>7 DEF IInv

\* RunStep: what a step returns is typed and counts at most one more step.
LEMMA RunStepIInv ==
  ASSUME IInv, NEW w \in Workers, RunStep(w)
  PROVE  IInv'
<1> USE ProcessAssumption DEF RunStep, Goto, queue, redis, StepOutcome
<1>1. TypeOK'
  <2>1. st[w] \in AgentState /\ idx[w] \in Steps /\ st[w].stepCount <= idx[w]
    BY DEF IInv, TypeOK, ControlInv, Procs
  <2>2. StepOutcome(st[w], idx[w]) \subseteq AgentState
    BY <2>1, BoundsAssumption DEF StepOutcome, AgentState, Steps, Status,
        StreamEnd, Terminal
  <2> QED BY <2>2 DEF IInv, TypeOK, Procs, PC
<1>2. ControlInv' BY DEF IInv, TypeOK, ControlInv, Saving, Procs, Terminal, Initial
<1>3. LeaseInv' BY DEF IInv, TypeOK, LeaseInv, Procs
<1>4. QueueInv' BY DEF IInv, TypeOK, QueueInv, Procs, Ledger!Closed, Steps
<1>5. NextStepInv'
  BY DEF IInv, TypeOK, ControlInv, QueueInv, CountInv, NextStepInv, Executing,
      Procs, Terminal
<1>6. ConcludeInv'
  BY DEF IInv, TypeOK, ControlInv, ConcludeInv, Concluding, Saving, Procs, Terminal
<1>7. ScheduledOnce' /\ CountInv' /\ ParkInv' /\ EndedStaysEnded'
  BY DEF IInv, TypeOK, ScheduledOnce, CountInv, ParkInv, EndedStaysEnded,
      Ledger!Closed
<1> QED BY <1>1, <1>2, <1>3, <1>4, <1>5, <1>6, <1>7 DEF IInv

\* ReadLatest: the result to save is the step's, or interrupted.
LEMMA ReadLatestIInv ==
  ASSUME IInv, NEW w \in Workers, ReadLatest(w)
  PROVE  IInv'
<1> USE ProcessAssumption DEF ReadLatest, Goto, queue, redis, BeginSave
<1>1. TypeOK'
  BY DEF IInv, TypeOK, Procs, PC, Sites, AgentState, Status, StreamEnd, Terminal
<1>2. ControlInv' BY DEF IInv, TypeOK, ControlInv, Saving, Procs, Terminal, Initial
<1>3. LeaseInv' BY DEF IInv, TypeOK, LeaseInv, Procs
<1>4. QueueInv' BY DEF IInv, TypeOK, QueueInv, Procs, Ledger!Closed, Steps
<1>5. NextStepInv'
  BY DEF IInv, TypeOK, ControlInv, QueueInv, CountInv, NextStepInv, Executing,
      Procs, Terminal
<1>6. ConcludeInv'
  BY DEF IInv, TypeOK, ControlInv, ConcludeInv, Concluding, Saving, Procs, Terminal
<1>7. ScheduledOnce' /\ CountInv' /\ ParkInv' /\ EndedStaysEnded'
  BY DEF IInv, TypeOK, ScheduledOnce, CountInv, ParkInv, EndedStaysEnded,
      Ledger!Closed
<1> QED BY <1>1, <1>2, <1>3, <1>4, <1>5, <1>6, <1>7 DEF IInv

\* StopHere: a worker with nothing to schedule still concludes its step.
LEMMA StopHereIInv ==
  ASSUME IInv, NEW w \in Workers, StopHere(w)
  PROVE  IInv'
<1> USE ProcessAssumption DEF StopHere, Goto, queue, redis
<1>1. TypeOK' BY DEF IInv, TypeOK, Procs, PC
<1>2. ControlInv' BY DEF IInv, TypeOK, ControlInv, Saving, Procs, Terminal, Initial
<1>3. LeaseInv' BY DEF IInv, TypeOK, LeaseInv, Procs
<1>4. QueueInv' BY DEF IInv, TypeOK, QueueInv, Procs, Ledger!Closed, Steps
<1>5. NextStepInv'
  BY DEF IInv, TypeOK, ControlInv, QueueInv, CountInv, NextStepInv, Executing,
      Procs, Terminal
<1>6. ConcludeInv'
  BY DEF IInv, TypeOK, ControlInv, ConcludeInv, Concluding, Saving, Procs, Terminal
<1>7. ScheduledOnce' /\ CountInv' /\ ParkInv' /\ EndedStaysEnded'
  BY DEF IInv, TypeOK, ScheduledOnce, CountInv, ParkInv, EndedStaysEnded,
      Ledger!Closed
<1> QED BY <1>1, <1>2, <1>3, <1>4, <1>5, <1>6, <1>7 DEF IInv

\* A completion is told with a status, and says parked only of a parked state.
LEMMA ReasonOfState ==
  ASSUME NEW s \in AgentState
  PROVE  /\ Reason(s) \in Status
         /\ Reason(s) = "waiting_for_async_tool" => s.status = "waiting_for_async_tool"
BY DEF Reason, AgentState, Status, StreamEnd, Terminal

\* DispatchOnComplete: the hooks run after the conclusion.
LEMMA DispatchOnCompleteIInv ==
  ASSUME IInv, NEW w \in Workers, DispatchOnComplete(w)
  PROVE  IInv'
<1> USE ProcessAssumption DEF DispatchOnComplete, Goto, queue, redis
<1>1. TypeOK'
  <2>1. Reason(st[w]) \in Status  BY ReasonOfState DEF IInv, TypeOK, Procs
  <2> QED BY <2>1 DEF IInv, TypeOK, Procs, PC
<1>2. ControlInv' BY DEF IInv, TypeOK, ControlInv, Saving, Procs, Terminal, Initial
<1>3. LeaseInv' BY DEF IInv, TypeOK, LeaseInv, Procs
<1>4. QueueInv' BY DEF IInv, TypeOK, QueueInv, Procs, Ledger!Closed, Steps
<1>5. NextStepInv'
  BY DEF IInv, TypeOK, ControlInv, QueueInv, CountInv, NextStepInv, Executing,
      Procs, Terminal
<1>6. ConcludeInv'
  BY DEF IInv, TypeOK, ControlInv, ConcludeInv, Concluding, Saving, Procs, Terminal
<1>7. ScheduledOnce' /\ CountInv' /\ ParkInv' /\ EndedStaysEnded'
  BY DEF IInv, TypeOK, ScheduledOnce, CountInv, ParkInv, EndedStaysEnded,
      Ledger!Closed
<1> QED BY <1>1, <1>2, <1>3, <1>4, <1>5, <1>6, <1>7 DEF IInv

\* Throws: an exception leaves the shared state alone.
LEMMA ThrowsIInv ==
  ASSUME IInv, NEW w \in Workers, Throws(w)
  PROVE  IInv'
<1> USE ProcessAssumption DEF Throws, Goto, queue, redis, Fault
<1>1. TypeOK' BY DEF IInv, TypeOK, Procs, PC
<1>2. ControlInv' BY DEF IInv, TypeOK, ControlInv, Saving, Procs, Terminal, Initial
<1>3. LeaseInv' BY DEF IInv, TypeOK, LeaseInv, Procs
<1>4. QueueInv' BY DEF IInv, TypeOK, QueueInv, Procs, Ledger!Closed, Steps
<1>5. NextStepInv'
  BY DEF IInv, TypeOK, ControlInv, QueueInv, CountInv, NextStepInv, Executing,
      Procs, Terminal
<1>6. ConcludeInv'
  BY DEF IInv, TypeOK, ControlInv, ConcludeInv, Concluding, Saving, Procs, Terminal
<1>7. ScheduledOnce' /\ CountInv' /\ ParkInv' /\ EndedStaysEnded'
  BY DEF IInv, TypeOK, ScheduledOnce, CountInv, ParkInv, EndedStaysEnded,
      Ledger!Closed
<1> QED BY <1>1, <1>2, <1>3, <1>4, <1>5, <1>6, <1>7 DEF IInv

\* ErrorSaveFails: a swallowed save leaves a terminal local state.
LEMMA ErrorSaveFailsIInv ==
  ASSUME IInv, NEW w \in Workers, ErrorSaveFails(w)
  PROVE  IInv'
<1> USE ProcessAssumption DEF ErrorSaveFails, Goto, queue, redis, Fault
<1>1. TypeOK' BY DEF IInv, TypeOK, Procs, PC
<1>2. ControlInv' BY DEF IInv, TypeOK, ControlInv, Saving, Procs, Terminal, Initial
<1>3. LeaseInv' BY DEF IInv, TypeOK, LeaseInv, Procs
<1>4. QueueInv' BY DEF IInv, TypeOK, QueueInv, Procs, Ledger!Closed, Steps
<1>5. NextStepInv'
  BY DEF IInv, TypeOK, ControlInv, QueueInv, CountInv, NextStepInv, Executing,
      Procs, Terminal
<1>6. ConcludeInv'
  BY DEF IInv, TypeOK, ControlInv, ConcludeInv, Concluding, Saving, Procs, Terminal
<1>7. ScheduledOnce' /\ CountInv' /\ ParkInv' /\ EndedStaysEnded'
  BY DEF IInv, TypeOK, ScheduledOnce, CountInv, ParkInv, EndedStaysEnded,
      Ledger!Closed
<1> QED BY <1>1, <1>2, <1>3, <1>4, <1>5, <1>6, <1>7 DEF IInv

\* Crash: the dead worker's lock is never taken for another's.
LEMMA CrashIInv ==
  ASSUME IInv, NEW w \in Workers, Crash(w)
  PROVE  IInv'
<1>1. TypeOK'
  <2>1. due' \in [Steps -> Nat] /\ attempts' \in [Steps -> Nat]
    <3>1. idx[w] \in Steps  BY DEF IInv, TypeOK
    <3> QED BY <3>1, RedeliveredTypes DEF IInv, Crash
  <2>2. lock' \in [Steps -> Workers \cup {Free, Dead}] /\ faults' \in Nat
    BY DEF IInv, TypeOK, Crash, Fault
  <2> QED BY <2>1, <2>2, FinishTypes DEF IInv, TypeOK, Crash, redis
<1> USE ProcessAssumption DEF Crash, Goto, queue, redis, Finish, Fault,
    Redelivered, Again, GiveUp
<1>2. ControlInv' BY DEF IInv, TypeOK, ControlInv, Saving, Procs, Terminal, Initial
<1>3. LeaseInv' BY DEF IInv, TypeOK, LeaseInv, Procs
<1>4. QueueInv' BY DEF IInv, TypeOK, QueueInv, Procs, Ledger!Closed, Steps
<1>5. NextStepInv'
  BY DEF IInv, TypeOK, ControlInv, QueueInv, CountInv, NextStepInv, Executing,
      Procs, Terminal
<1>6. ConcludeInv'
  BY DEF IInv, TypeOK, ControlInv, ConcludeInv, Concluding, Saving, Procs, Terminal
<1>7. ScheduledOnce' /\ CountInv' /\ ParkInv' /\ EndedStaysEnded'
  BY DEF IInv, TypeOK, ScheduledOnce, CountInv, ParkInv, EndedStaysEnded,
      Ledger!Closed
<1> QED BY <1>1, <1>2, <1>3, <1>4, <1>5, <1>6, <1>7 DEF IInv

\* SaveEnd: where each call site goes on from its save.
LEMMA SaveEndIInv ==
  ASSUME IInv, NEW p \in Procs, SaveEnd(p)
  PROVE  IInv'
<1> USE ProcessAssumption
<1>1. /\ pc[p] = "end" /\ pc \in [Procs -> PC] /\ site \in [Procs -> Sites]
      /\ UNCHANGED <<redis, lock, row, completions, queue, st, idx, faults>>
      /\ ends' \in Nat /\ prev' \in [Procs -> Status]
  BY ResetValues DEF SaveEnd, IInv, TypeOK
<1>2. \/ /\ p \in Workers /\ site[p] = "budget" /\ st[p].status \in Terminal
         /\ Goto(p, "check") /\ UNCHANGED site
      \/ /\ p \in Workers /\ Concluding(p)
         /\ Goto(p, "prev") /\ site' = [site EXCEPT ![p] = "track"]
      \/ /\ p \in Workers /\ Concluding(p)
         /\ Goto(p, "next") /\ UNCHANGED site
      \/ /\ p \in Workers /\ st[p].status \in Terminal
         /\ Goto(p, "row") /\ UNCHANGED site
      \/ p \in Requesters /\ Goto(p, "accepted") /\ UNCHANGED site
  <2>1. CASE p \in Requesters
    <3>1. site[p] = "interrupt"
      BY <1>1, <2>1 DEF IInv, ControlInv, Saving
    <3> QED BY <2>1, <3>1 DEF SaveEnd, AfterSave
  <2>2. CASE p \in Workers
    <3>1. /\ site[p] \in {"budget", "result", "track", "error"}
          /\ site[p] \in {"budget", "error"} => st[p].status \in Terminal
      BY <1>1, <2>2 DEF IInv, ControlInv, Saving, Sites, Procs
    <3> QED BY <1>1, <2>2, <3>1 DEF SaveEnd, AfterSave, Concluding, Saving
  <2> QED BY <2>1, <2>2 DEF Procs
<1> USE DEF Goto, redis, queue
<1>3. TypeOK' BY <1>1, <1>2 DEF IInv, TypeOK, PC, Sites
<1>4. ControlInv' BY <1>1, <1>2 DEF IInv, ControlInv, Saving, Procs
<1>5. LeaseInv' BY <1>1, <1>2 DEF IInv, LeaseInv, Procs
<1>6. QueueInv' BY <1>1, <1>2 DEF IInv, QueueInv, Procs, Ledger!Closed
<1>7. NextStepInv' BY <1>1, <1>2 DEF IInv, NextStepInv, Executing, Procs
<1>8. ConcludeInv' BY <1>1, <1>2 DEF IInv, ConcludeInv, Concluding, Saving, Procs
<1>9. ScheduledOnce' /\ CountInv' /\ ParkInv' /\ EndedStaysEnded'
  BY <1>1 DEF IInv, ScheduledOnce, CountInv, ParkInv, EndedStaysEnded, Ledger!Closed
<1> QED BY <1>3, <1>4, <1>5, <1>6, <1>7, <1>8, <1>9 DEF IInv

\* ScheduleNext: the step after the last one was not published before, since
\* only one worker concludes it and the row does not say parked.
LEMMA ScheduleNextIInv ==
  ASSUME IInv, NEW w \in Workers, ScheduleNext(w)
  PROVE  IInv'
<1> USE ProcessAssumption
<1>1. /\ pc[w] = "next" /\ st[w].status = "running" /\ Goto(w, "release")
      /\ pc \in [Procs -> PC] /\ idx[w] \in Nat /\ w \in Procs
      /\ scheduled \in [Steps -> Nat] /\ due \in [Steps -> Nat]
      /\ scheduled' = [scheduled EXCEPT ![idx[w] + 1] = scheduled[idx[w] + 1] + 1]
      /\ due' = [due EXCEPT ![idx[w] + 1] = due[idx[w] + 1] + 1]
      /\ UNCHANGED <<redis, lock, row, ends, completions, later, attempts, site, st,
                     prev, idx, faults>>
  BY StepsAreNat DEF ScheduleNext, Publish, IInv, TypeOK, Procs
<1>2. Concluding(w) /\ st[w].status \notin Terminal /\ st[w].status \in Ledger!Continues
  BY <1>1 DEF Concluding, Terminal, Ledger!Continues
<1>3. /\ Len(steps) = idx[w] + 1 /\ steps[Len(steps)].status = "running"
      /\ idx[w] + 1 \in Steps => scheduled[idx[w] + 1] = 0
      /\ row # "waiting_for_async_tool"
  BY <1>1, <1>2 DEF IInv, ConcludeInv
<1>4. ~Ledger!Closed  BY <1>3 DEF Ledger!Closed, Ledger!Ends
<1>5. \A v \in Workers : v # w /\ pc[v] \notin {"idle", "claim"} => idx[v] # idx[w]
  BY <1>1 DEF IInv, LeaseInv
<1> USE DEF Goto, redis
<1>6. TypeOK'
  <2>1. scheduled' \in [Steps -> Nat] /\ due' \in [Steps -> Nat]
    BY <1>1, CountUp
  <2> QED BY <1>1, <2>1 DEF IInv, TypeOK, PC
<1>7. ControlInv' BY <1>1 DEF IInv, ControlInv, Saving, Procs
<1>8. LeaseInv' BY <1>1 DEF IInv, LeaseInv, Procs
<1>9. QueueInv'
  <2>1. \A i \in Steps : scheduled'[i] > 0 => scheduled[i] > 0 \/ i = Len(steps)
    BY <1>1, <1>3
  <2>2. \A i \in Steps : scheduled[i] > 0 => scheduled'[i] > 0
    BY <1>1
  <2>3. \A i \in Steps : due'[i] > 0 \/ later[i] > 0 => scheduled'[i] > 0
    BY <1>1 DEF IInv, QueueInv
  <2>4. \A i \in Steps : scheduled'[i] > 0 => i <= Len(steps)
    <3> SUFFICES ASSUME NEW i \in Steps, scheduled'[i] > 0
                 PROVE  i <= Len(steps)
      OBVIOUS
    <3>1. i \in Nat  BY StepsAreNat
    <3>2. CASE scheduled[i] > 0  BY <3>2 DEF IInv, QueueInv
    <3>3. CASE i = Len(steps)  BY <3>1, <3>3
    <3> QED BY <2>1, <3>2, <3>3
  <2>5. \A v \in Workers : pc'[v] # "idle" => scheduled'[idx[v]] > 0
    BY <1>1, <2>2 DEF IInv, QueueInv, TypeOK
  <2> QED BY <1>1, <1>4, <2>3, <2>4, <2>5 DEF QueueInv, Ledger!Closed
<1>10. NextStepInv' BY <1>1 DEF IInv, NextStepInv, Executing, Procs
<1>11. ConcludeInv'
  <2> SUFFICES ASSUME NEW v \in Workers, Concluding(v)', st[v].status \notin Terminal
               PROVE  /\ Len(steps) = idx[v] + 1 /\ st[v].stepCount = idx[v] + 1
                      /\ steps[Len(steps)].status = st[v].status
                      /\ st[v].status \in Ledger!Continues =>
                           /\ idx[v] + 1 \in Steps => scheduled'[idx[v] + 1] = 0
                           /\ row # "waiting_for_async_tool"
    BY <1>1 DEF ConcludeInv
  <2>1. v # w /\ Concluding(v)
    BY <1>1 DEF Concluding, Saving
  <2>2. Len(steps) = idx[v] + 1 /\ pc[v] \notin {"idle", "claim"}
    BY <2>1 DEF IInv, ConcludeInv, Concluding, Saving
  <2>3. idx[v] \in Nat  BY StepsAreNat DEF IInv, TypeOK
  <2> QED BY <1>1, <1>3, <1>5, <2>1, <2>2, <2>3
<1>12. ScheduledOnce'
  BY <1>1, <1>3 DEF IInv, ScheduledOnce
<1>13. CountInv' /\ ParkInv' /\ EndedStaysEnded'
  BY <1>1, <1>3 DEF IInv, CountInv, ParkInv, EndedStaysEnded, Ledger!Closed
<1> QED BY <1>6, <1>7, <1>8, <1>9, <1>10, <1>11, <1>12, <1>13 DEF IInv

\* PersistCompletion: the row says parked only when nothing is out for the
\* step after the park.
LEMMA PersistCompletionIInv ==
  ASSUME IInv, NEW w \in Workers, PersistCompletion(w)
  PROVE  IInv'
<1> USE ProcessAssumption
<1>1. /\ pc[w] = "row" /\ pc \in [Procs -> PC] /\ w \in Procs
      /\ row' = Reason(st[w]) \/ row' = row
      /\ st[w] \in AgentState
      /\ pc' = [pc EXCEPT ![w] = pc'[w]] /\ pc'[w] \in {"release", "hook"}
      /\ UNCHANGED <<redis, lock, ends, completions, queue, site, st, prev, idx>>
      /\ faults' \in Nat
  BY DEF PersistCompletion, Fault, Goto, IInv, TypeOK, Procs
<1>2. row' = "waiting_for_async_tool" /\ row' # row =>
        /\ st[w].status = "waiting_for_async_tool" /\ Len(steps) = idx[w] + 1
        /\ idx[w] + 1 \in Steps => scheduled[idx[w] + 1] = 0
  BY <1>1, ReasonOfState DEF IInv, ConcludeInv, Concluding, Terminal, Ledger!Continues
<1>3. \A v \in Workers : v # w /\ pc[v] \notin {"idle", "claim"} => idx[v] # idx[w]
  BY <1>1 DEF IInv, LeaseInv
<1> USE DEF redis, queue
<1>4. TypeOK'
  <2>1. Reason(st[w]) \in Status  BY <1>1, ReasonOfState
  <2> QED BY <1>1, <2>1 DEF IInv, TypeOK, PC
<1>5. ControlInv' BY <1>1 DEF IInv, ControlInv, Saving, Procs
<1>6. LeaseInv' BY <1>1 DEF IInv, LeaseInv, Procs
<1>7. QueueInv' BY <1>1 DEF IInv, QueueInv, Procs, Ledger!Closed
<1>8. NextStepInv' BY <1>1 DEF IInv, NextStepInv, Executing, Procs
<1>9. ConcludeInv'
  <2> SUFFICES ASSUME NEW v \in Workers, Concluding(v)', st[v].status \notin Terminal
               PROVE  /\ Len(steps) = idx[v] + 1 /\ st[v].stepCount = idx[v] + 1
                      /\ steps[Len(steps)].status = st[v].status
                      /\ st[v].status \in Ledger!Continues =>
                           /\ idx[v] + 1 \in Steps => scheduled[idx[v] + 1] = 0
                           /\ row' # "waiting_for_async_tool"
    BY <1>1 DEF ConcludeInv
  <2>1. v # w
    BY <1>1 DEF Concluding, Saving
  <2>2. pc'[v] = pc[v] /\ v \in Procs
    BY <1>1, <2>1 DEF Procs
  <2>3. Concluding(v)
    BY <1>1, <2>2 DEF Concluding, Saving
  <2>4. Len(steps) = idx[v] + 1 /\ pc[v] \notin {"idle", "claim"}
    BY <2>3 DEF IInv, ConcludeInv, Concluding, Saving
  <2>5. idx[v] \in Nat /\ idx[w] \in Nat  BY StepsAreNat DEF IInv, TypeOK
  <2>6. idx[v] # idx[w]  BY <1>3, <2>1, <2>4
  <2> QED BY <1>2, <2>3, <2>4, <2>5, <2>6 DEF IInv, ConcludeInv
<1>10. ParkInv'
  BY <1>1, <1>2 DEF IInv, ParkInv
<1>11. ScheduledOnce' /\ CountInv' /\ EndedStaysEnded'
  BY <1>1 DEF IInv, ScheduledOnce, CountInv, EndedStaysEnded, Ledger!Closed
<1> QED BY <1>4, <1>5, <1>6, <1>7, <1>8, <1>9, <1>10, <1>11 DEF IInv

\* ResumeParked: the CAS publishes a message nobody published before.
LEMMA ResumeParkedIInv ==
  ASSUME IInv, ResumeParked
  PROVE  IInv'
<1> USE ProcessAssumption
<1>1. /\ row = "waiting_for_async_tool" /\ row' = "running"
      /\ state.status = "waiting_for_async_tool"
      /\ scheduled \in [Steps -> Nat] /\ due \in [Steps -> Nat]
      /\ UNCHANGED <<redis, lock, ends, completions, later, attempts, pc, site, st,
                     prev, idx, faults>>
  BY DEF ResumeParked, IInv, TypeOK
<1>2. state.stepCount = Len(steps)
  BY <1>1 DEF IInv, CountInv, Terminal
<1>3. /\ scheduled' = [scheduled EXCEPT ![Len(steps)] = scheduled[Len(steps)] + 1]
      /\ due' = [due EXCEPT ![Len(steps)] = due[Len(steps)] + 1]
  BY <1>2 DEF ResumeParked, Publish
<1>4. \A i \in Steps : i = Len(steps) => scheduled[i] = 0
  BY <1>1 DEF IInv, ParkInv
<1>5. ~Ledger!Closed
  BY <1>1 DEF IInv, EndedStaysEnded, StreamEnd, Terminal
<1> USE DEF redis
<1>6. TypeOK'
  <2>1. scheduled' \in [Steps -> Nat] /\ due' \in [Steps -> Nat]
    BY <1>1, <1>3, CountUp
  <2>2. "running" \in Status  BY DEF Status
  <2> QED BY <1>1, <2>1, <2>2 DEF IInv, TypeOK
<1>7. ControlInv' BY <1>1 DEF IInv, ControlInv, Saving
<1>8. LeaseInv' BY <1>1 DEF IInv, LeaseInv
<1>9. QueueInv'
  <2>1. \A i \in Steps : scheduled'[i] > 0 => scheduled[i] > 0 \/ i = Len(steps)
    BY <1>1, <1>3
  <2>2. \A i \in Steps : scheduled[i] > 0 => scheduled'[i] > 0
    BY <1>1, <1>3
  <2>3. \A i \in Steps : due'[i] > 0 \/ later[i] > 0 => scheduled'[i] > 0
    BY <1>1, <1>3 DEF IInv, QueueInv
  <2>4. \A i \in Steps : scheduled'[i] > 0 => i <= Len(steps)
    <3> SUFFICES ASSUME NEW i \in Steps, scheduled'[i] > 0
                 PROVE  i <= Len(steps)
      OBVIOUS
    <3>1. i \in Nat  BY StepsAreNat
    <3>2. CASE scheduled[i] > 0  BY <3>2 DEF IInv, QueueInv
    <3>3. CASE i = Len(steps)  BY <3>1, <3>3
    <3> QED BY <2>1, <3>2, <3>3
  <2>5. \A v \in Workers : pc[v] # "idle" => scheduled'[idx[v]] > 0
    BY <2>2 DEF IInv, QueueInv, TypeOK
  <2> QED BY <1>1, <1>5, <2>3, <2>4, <2>5 DEF QueueInv, Ledger!Closed
<1>10. NextStepInv' BY <1>1 DEF IInv, NextStepInv, Executing
<1>11. ConcludeInv'
  BY <1>1 DEF IInv, ConcludeInv, Concluding, Saving
<1>12. ScheduledOnce'
  BY <1>1, <1>3, <1>4 DEF IInv, ScheduledOnce
<1>13. CountInv' /\ ParkInv' /\ EndedStaysEnded'
  BY <1>1 DEF IInv, CountInv, ParkInv, EndedStaysEnded, Ledger!Closed
<1> QED BY <1>6, <1>7, <1>8, <1>9, <1>10, <1>11, <1>12, <1>13 DEF IInv

\* The invariant speaks of nothing but the variables.
LEMMA StutterIInv ==
  ASSUME IInv, UNCHANGED vars
  PROVE  IInv'
<1> USE DEF vars, IInv
<1>1. TypeOK' BY DEF TypeOK
<1>2. ControlInv' BY DEF ControlInv, Saving
<1>3. LeaseInv' BY DEF LeaseInv
<1>4. QueueInv' BY DEF QueueInv, Ledger!Closed
<1>5. NextStepInv' BY DEF NextStepInv, Executing
<1>6. ConcludeInv' BY DEF ConcludeInv, Concluding, Saving
<1>7. ScheduledOnce' /\ CountInv' /\ ParkInv' /\ EndedStaysEnded'
  BY DEF ScheduledOnce, CountInv, ParkInv, EndedStaysEnded, Ledger!Closed
<1> QED BY <1>1, <1>2, <1>3, <1>4, <1>5, <1>6, <1>7

\* Every step of the pipeline preserves the invariant.
LEMMA NextIInv ==
  ASSUME IInv, LeaseHolds, [Next]_vars
  PROVE  IInv'
<1>1. CASE \E w \in Workers : WorkerStep(w)
  <2>1. PICK w \in Workers : WorkerStep(w)  BY <1>1
  <2>2. w \in Procs  BY DEF Procs
  <2>3. ~ClaimFailsOpen(w)  BY DEF LeaseHolds, ClaimFailsOpen
  <2> QED BY <2>1, <2>2, <2>3, ClaimIInv, LockedIInv, ReleaseIInv, SavePrevIInv,
             SaveWriteIInv, SaveEndIInv, LoadIInv, SkipExecutedIInv, SkipEndedIInv,
             BeginStepIInv, RunStepIInv, ReadLatestIInv, ScheduleNextIInv,
             StopHereIInv, PersistCompletionIInv, DispatchOnCompleteIInv,
             CatchLoadIInv
      DEF WorkerStep
<1>2. CASE \E w \in Workers : WorkerFault(w)
  BY <1>2, ThrowsIInv, ErrorSaveFailsIInv, CrashIInv DEF WorkerFault
<1>3. CASE \E r \in Requesters : Requester(r)
  <2>1. PICK r \in Requesters : Requester(r)  BY <1>3
  <2>2. r \in Procs  BY DEF Procs
  <2> QED BY <2>1, <2>2, RequestInterruptIInv, SavePrevIInv, SaveWriteIInv,
             SaveEndIInv
      DEF Requester
<1>4. CASE \E i \in Steps : QueueStep(i) \/ Duplicate(i)
  BY <1>4, RetryDueIInv, ExpireIInv, DeliverIInv, DuplicateIInv DEF QueueStep
<1>5. CASE ResumeParked
  BY <1>5, ResumeParkedIInv
<1>6. CASE UNCHANGED vars
  BY <1>6, StutterIInv
<1> QED BY <1>1, <1>2, <1>3, <1>4, <1>5, <1>6 DEF Next

\* The inductive invariant holds of every behaviour whose leases hold.
THEOREM InvariantTheorem ==
  ASSUME LeaseHolds
  PROVE  Spec => []IInv
<1>1. Init => IInv  BY InitIInv
<1>2. IInv /\ [Next]_vars => IInv'  BY NextIInv
<1> QED BY <1>1, <1>2, PTL DEF Spec

\* Type correctness: every variable keeps the values its code can give it.
THEOREM TypeCorrect ==
  ASSUME LeaseHolds
  PROVE  Spec => []TypeOK
<1>1. IInv => TypeOK  BY DEF IInv
<1> QED BY <1>1, InvariantTheorem, PTL

\* At most one worker executes a step of the operation at a time.
THEOREM OneExecutorTheorem ==
  ASSUME LeaseHolds
  PROVE  Spec => []OneExecutor
<1>1. IInv => OneExecutor
  <2> SUFFICES ASSUME IInv, NEW v \in Workers, NEW w \in Workers,
                      Executing(v), Executing(w)
               PROVE  v = w
    BY DEF OneExecutor
  <2>1. idx[v] = Len(steps) /\ idx[w] = Len(steps)
    BY DEF IInv, NextStepInv
  <2>2. lock[idx[v]] = v /\ lock[idx[w]] = w
    BY DEF IInv, LeaseInv, Executing
  <2> QED BY <2>1, <2>2
<1> QED BY <1>1, InvariantTheorem, PTL

\* No step's message is published twice.
THEOREM ScheduledOnceTheorem ==
  ASSUME LeaseHolds
  PROVE  Spec => []ScheduledOnce
<1>1. IInv => ScheduledOnce  BY DEF IInv
<1> QED BY <1>1, InvariantTheorem, PTL

\* Once a step result has ended the operation, the Redis state stays ended.
THEOREM EndedStaysEndedTheorem ==
  ASSUME LeaseHolds
  PROVE  Spec => []EndedStaysEnded
<1>1. IInv => EndedStaysEnded  BY DEF IInv
<1> QED BY <1>1, InvariantTheorem, PTL

-----------------------------------------------------------------------------
(* No scheduled step is dropped.                                             *)

\* What is executed or ended stays so: the only saves that would let an ended
\* operation continue are the result of the step itself and the tracking save of the
\* step before, which is over when the step has been scheduled.
LEMMA SaveKeepsAnswer ==
  ASSUME IInv, NEW p \in Procs, SaveWrite(p), NEW i \in Steps, scheduled[i] > 0,
         Len(steps) > i \/ state.status \in Terminal
  PROVE  Len(steps') > i \/ state'.status \in Terminal
<1> USE ProcessAssumption
<1>1. i \in Nat /\ i <= Len(steps) /\ Len(steps) \in Nat
  BY StepsAreNat DEF IInv, QueueInv, TypeOK
<1>2. CASE site[p] = "result"
  <2>1. Len(steps') = Len(steps) + 1
    <3>1. idx[p] \in Steps /\ st[p].status \in Status \ {"idle"}
      BY <1>2, SavesNextStep DEF SaveWrite
    <3>2. [stepIndex |-> idx[p], status |-> st[p].status]
            \in [stepIndex : Steps, status : Status \ {"idle"}]
      BY <3>1
    <3> QED BY <1>2, <3>2, HistoryPush DEF SaveWrite, IInv, TypeOK
  <2> QED BY <1>1, <2>1
<1>3. CASE site[p] # "result"
  <2>1. steps' = steps /\ state' = st[p] /\ pc[p] = "save"
    BY <1>3 DEF SaveWrite
  <2>2. CASE Len(steps) = i /\ st[p].status \notin Terminal
    <3>1. p \in Workers /\ site[p] = "track"
      BY <1>3, <2>1, <2>2 DEF IInv, ControlInv, TypeOK, Saving, Procs, Sites
    <3>2. Concluding(p)
      BY <2>1, <3>1 DEF Concluding, Saving
    <3>3. /\ Len(steps) = idx[p] + 1 /\ steps[Len(steps)].status = st[p].status
          /\ st[p].status \in Ledger!Continues => scheduled[i] = 0
      BY <2>2, <3>1, <3>2 DEF IInv, ConcludeInv
    <3>4. scheduled[i] \in Nat /\ idx[p] \in Nat
      BY <3>1, StepsAreNat DEF IInv, TypeOK
    <3>5. st[p].status \notin Ledger!Continues
      BY <3>3, <3>4
    <3>6. steps # <<>> /\ steps[Len(steps)] \in [stepIndex : Steps, status : Status \ {"idle"}]
      <4>1. steps \in Seq([stepIndex : Steps, status : Status \ {"idle"}]) /\ Len(steps) > 0
        BY <3>3, <3>4 DEF IInv, TypeOK
      <4> QED BY <4>1, LastEntry
    <3>7. Ledger!Closed
      BY <3>3, <3>5, <3>6, TerminalStatuses DEF Ledger!Closed
    <3> QED BY <2>2, <3>7 DEF IInv, QueueInv
  <2>3. CASE ~(Len(steps) = i /\ st[p].status \notin Terminal)
    BY <1>1, <2>1, <2>3
  <2> QED BY <2>2, <2>3
<1> QED BY <1>2, <1>3

\* A step that leaves Redis alone makes nobody answer who has not seen why.
LEMMA AnswersStay ==
  ASSUME AnsweredInv, UNCHANGED redis,
         \A w \in Workers :
           Answering(w)' => (Answering(w) /\ idx'[w] = idx[w])
                            \/ Len(steps) > idx'[w] \/ state.status \in Terminal
  PROVE  AnsweredInv'
BY DEF AnsweredInv, redis

\* A save by one process is a save that others may have answered by.
LEMMA SaveWriteAnswered ==
  ASSUME IInv, AnsweredInv, NEW p \in Procs, SaveWrite(p)
  PROVE  AnsweredInv'
<1> USE ProcessAssumption
<1>1. /\ pc[p] = "save" /\ pc' = [pc EXCEPT ![p] = "end"] /\ state' = st[p]
      /\ UNCHANGED <<site, st, idx>> /\ pc \in [Procs -> PC]
  BY DEF SaveWrite, Goto, IInv, TypeOK
<1> SUFFICES ASSUME NEW w \in Workers, Answering(w)'
             PROVE  Len(steps') > idx[w] \/ state'.status \in Terminal
  BY <1>1 DEF AnsweredInv
<1>2. idx[w] \in Steps /\ w \in Procs
  BY DEF IInv, TypeOK, Procs
<1>3. CASE Answering(w)
  <2>1. pc[w] # "idle"
    BY <1>3 DEF Answering, Saving
  <2>2. scheduled[idx[w]] > 0
    BY <2>1 DEF IInv, QueueInv
  <2> QED BY <1>2, <1>3, <2>2, SaveKeepsAnswer DEF AnsweredInv
<1>4. CASE ~Answering(w)
  <2>1. w = p
    BY <1>1, <1>2, <1>4 DEF Answering, Saving
  <2>2. site[w] \in {"budget", "result"}
    BY <1>1, <1>2, <1>4, <2>1 DEF Answering, Saving
  <2>3. CASE site[w] = "budget"
    BY <1>1, <2>1, <2>3 DEF IInv, ControlInv, Saving
  <2>4. CASE site[w] = "result"
    <3>1. Len(steps) = idx[w] /\ st[w].status \in Status \ {"idle"}
      BY <1>1, <2>1, <2>4, SavesNextStep
    <3>2. [stepIndex |-> idx[w], status |-> st[w].status]
            \in [stepIndex : Steps, status : Status \ {"idle"}]
      BY <1>2, <3>1
    <3>3. Len(steps') = Len(steps) + 1
      BY <2>1, <2>4, <3>2, HistoryPush DEF SaveWrite, IInv, TypeOK
    <3> QED BY <3>1, <3>3, <1>2, StepsAreNat
  <2> QED BY <2>2, <2>3, <2>4
<1> QED BY <1>3, <1>4

\* Whoever goes on to an answer has loaded what it answers by.
LEMMA WorkerStepAnswered ==
  ASSUME IInv, AnsweredInv, NEW w \in Workers, WorkerStep(w) \/ WorkerFault(w)
  PROVE  AnsweredInv'
<1> USE ProcessAssumption
<1>0. w \in Procs /\ pc \in [Procs -> PC] /\ site \in [Procs -> Sites]
      /\ st \in [Procs -> AgentState] /\ idx \in [Workers -> Steps]
  BY DEF Procs, IInv, TypeOK
<1>1. CASE SaveWrite(w)
  BY <1>0, <1>1, SaveWriteAnswered
<1>2. CASE Claim(w) \/ ClaimFailsOpen(w) \/ BeginStep(w) \/ RunStep(w) \/ Throws(w)
           \/ Locked(w) \/ Release(w) \/ Crash(w)
  <2>1. pc'[w] \in {"load", "run", "latest", "catch", "idle"} /\ UNCHANGED redis
        /\ \A v \in Workers : v # w => /\ pc'[v] = pc[v] /\ site'[v] = site[v]
                                      /\ st'[v] = st[v] /\ idx'[v] = idx[v]
    BY <1>0, <1>2 DEF Claim, ClaimFailsOpen, BeginStep, RunStep, Throws, Locked, Release,
                      Crash, Finish, Goto, Procs
  <2>2. ~Answering(w)'
    BY <2>1 DEF Answering, Saving
  <2>3. \A v \in Workers : v # w => (Answering(v)' => Answering(v))
    BY <2>1 DEF Answering, Saving
  <2> QED BY <2>1, <2>2, <2>3, AnswersStay
<1>3. CASE SavePrev(w) \/ SkipExecuted(w) \/ SkipEnded(w) \/ ScheduleNext(w) \/ StopHere(w)
           \/ PersistCompletion(w) \/ DispatchOnComplete(w)
  <2>1. /\ pc'[w] \in {"save", "release", "row", "hook"}
        /\ pc'[w] = "save" <=> pc[w] = "prev"
        /\ UNCHANGED <<redis, site, st, idx>>
        /\ \A v \in Workers : v # w => pc'[v] = pc[v]
    BY <1>0, <1>3 DEF SavePrev, SkipExecuted, SkipEnded, ScheduleNext, StopHere,
                      PersistCompletion, DispatchOnComplete, Goto, Procs
  <2>2. Answering(w)' => Answering(w)
    BY <1>0, <1>3, <2>1 DEF SavePrev, SkipExecuted, SkipEnded, ScheduleNext, StopHere,
                      PersistCompletion, DispatchOnComplete, Answering, Saving
  <2>3. \A v \in Workers : v # w => (Answering(v)' => Answering(v))
    BY <2>1 DEF Answering, Saving
  <2> QED BY <2>1, <2>2, <2>3, AnswersStay
<1>4. CASE SaveEnd(w)
  <2>1. /\ pc[w] = "end" /\ pc' = [pc EXCEPT ![w] = AfterSave(w)]
        /\ site' = IF site[w] = "result" /\ AfterStepHooks
                   THEN [site EXCEPT ![w] = "track"] ELSE site
        /\ UNCHANGED <<redis, st, idx>>
    BY <1>4 DEF SaveEnd, Goto
  <2>2. site[w] \in {"budget", "result", "track", "error"}
    BY <1>0, <2>1 DEF IInv, ControlInv, Saving, Sites
  <2>3. Answering(w)' => Answering(w)
    <3>1. CASE site[w] = "error"
      <4>1. pc'[w] = "row" /\ site'[w] = "error"
        BY <1>0, <2>1, <3>1 DEF AfterSave
      <4> QED BY <4>1 DEF Answering, Saving
    <3>2. CASE site[w] # "error"
      BY <2>1, <2>2, <3>2 DEF Answering, Saving
    <3> QED BY <3>1, <3>2
  <2>4. \A v \in Workers : v # w => pc'[v] = pc[v] /\ site'[v] = site[v]
    BY <1>0, <2>1 DEF Procs
  <2>5. \A v \in Workers : v # w => (Answering(v)' => Answering(v))
    BY <2>1, <2>4 DEF Answering, Saving
  <2> QED BY <2>1, <2>3, <2>5, AnswersStay
<1>5. CASE Load(w)
  <2>1. /\ UNCHANGED <<redis, idx>>
        /\ \A v \in Workers : v # w => /\ pc'[v] = pc[v] /\ site'[v] = site[v]
                                      /\ st'[v] = st[v]
        /\ \/ pc'[w] = "prev" /\ site'[w] = "budget"
           \/ pc'[w] = "check" /\ st'[w] = state
    BY <1>0, <1>5 DEF Load, BeginSave, Goto, Procs
  <2>2. Answering(w)' => Len(steps) > idx[w] \/ state.status \in Terminal
    <3> SUFFICES ASSUME Answering(w)', state.status \notin Terminal
                 PROVE  Len(steps) > idx[w]
      OBVIOUS
    <3>1. state.stepCount > idx[w]
      BY <2>1 DEF Answering, Saving
    <3> QED BY <3>1 DEF IInv, CountInv
  <2>3. \A v \in Workers : v # w => (Answering(v)' => Answering(v))
    BY <2>1 DEF Answering, Saving
  <2> QED BY <2>1, <2>2, <2>3, AnswersStay
<1>6. CASE ReadLatest(w) \/ CatchLoad(w) \/ ErrorSaveFails(w)
  <2>1. /\ UNCHANGED <<redis, idx>>
        /\ \A v \in Workers : v # w => /\ pc'[v] = pc[v] /\ site'[v] = site[v]
                                      /\ st'[v] = st[v]
        /\ \/ pc'[w] = "prev" /\ site'[w] \in {"result", "error"}
           \/ pc'[w] = "row" /\ site'[w] = "error"
    BY <1>0, <1>6 DEF ReadLatest, CatchLoad, ErrorSaveFails, BeginSave, Goto, Procs
  <2>2. ~Answering(w)'
    BY <2>1 DEF Answering, Saving
  <2>3. \A v \in Workers : v # w => (Answering(v)' => Answering(v))
    BY <2>1 DEF Answering, Saving
  <2> QED BY <2>1, <2>2, <2>3, AnswersStay
<1> QED BY <1>1, <1>2, <1>3, <1>4, <1>5, <1>6 DEF WorkerStep, WorkerFault

\* Requesters, the queue and the resume answer for no worker.
LEMMA NextAnswered ==
  ASSUME IInv, AnsweredInv, [Next]_vars
  PROVE  AnsweredInv'
<1> USE ProcessAssumption
<1>0. /\ pc \in [Procs -> PC] /\ site \in [Procs -> Sites] /\ st \in [Procs -> AgentState]
      /\ idx \in [Workers -> Steps]
  BY DEF IInv, TypeOK
<1>1. ASSUME UNCHANGED <<redis, pc, site, st, idx>> PROVE AnsweredInv'
  <2>1. \A v \in Workers : Answering(v)' => Answering(v)
    BY <1>1 DEF Answering, Saving
  <2> QED BY <1>1, <2>1, AnswersStay
<1>2. ASSUME NEW r \in Requesters, Requester(r) PROVE AnsweredInv'
  <2>0. r \in Procs
    BY DEF Procs
  <2>1. CASE SaveWrite(r)
    BY <2>0, <2>1, SaveWriteAnswered
  <2>2. CASE ~SaveWrite(r)
    <3>1. UNCHANGED <<redis, idx>>
          /\ \A v \in Workers : pc'[v] = pc[v] /\ site'[v] = site[v] /\ st'[v] = st[v]
      BY <1>0, <1>2, <2>0, <2>2
         DEF Requester, RequestInterrupt, SavePrev, SaveEnd, BeginSave, Goto, Procs
    <3>2. \A v \in Workers : Answering(v)' => Answering(v)
      BY <3>1 DEF Answering, Saving
    <3> QED BY <3>1, <3>2, AnswersStay
  <2> QED BY <2>1, <2>2
<1>3. ASSUME NEW i \in Steps, NEW w \in Workers, Deliver(w, i) PROVE AnsweredInv'
  <2>1. /\ UNCHANGED <<redis, site, st>> /\ pc'[w] = "claim"
        /\ \A v \in Workers : v # w => pc'[v] = pc[v] /\ idx'[v] = idx[v]
    BY <1>0, <1>3 DEF Deliver, Goto, Procs
  <2>2. \A v \in Workers : Answering(v)' => Answering(v) /\ v # w
    BY <2>1 DEF Answering, Saving
  <2> QED BY <2>1, <2>2, AnswersStay
<1>4. ASSUME NEW i \in Steps, RetryDue(i) \/ Expire(i) \/ Duplicate(i) PROVE AnsweredInv'
  BY <1>1, <1>4 DEF RetryDue, Expire, Duplicate, redis
<1>5. CASE ResumeParked
  BY <1>1, <1>5 DEF ResumeParked, redis
<1>6. CASE UNCHANGED vars
  BY <1>1, <1>6 DEF vars, redis
<1> QED BY <1>2, <1>3, <1>4, <1>5, <1>6, WorkerStepAnswered DEF Next, QueueStep

\* A delivery of the step is due, put off or in hand, or QStash has given it up.
Kept(i) ==
  \/ due[i] > 0 \/ later[i] > 0 \/ attempts[i] >= Retries
  \/ \E w \in Workers : pc[w] # "idle" /\ idx[w] = i

\* The counters of the queue count.
LEMMA QueueCounts ==
  ASSUME IInv
  PROVE  /\ due \in [Steps -> Nat] /\ later \in [Steps -> Nat]
         /\ attempts \in [Steps -> Nat] /\ scheduled \in [Steps -> Nat]
         /\ pc \in [Procs -> PC] /\ idx \in [Workers -> Steps]
BY DEF IInv, TypeOK

\* A step that leaves Redis alone drops nothing if every delivery is kept, or is the
\* delivery of a step that need not be made again.
LEMMA DeliveriesStay ==
  ASSUME NoStepDropped, UNCHANGED redis,
         \A i \in Steps : scheduled'[i] > 0 => scheduled[i] > 0 \/ due'[i] > 0,
         \A i \in Steps : Kept(i) => Kept(i)' \/ Len(steps) > i \/ state.status \in Terminal,
         Len(steps) \in Nat
  PROVE  NoStepDropped'
<1> SUFFICES ASSUME NEW i \in Steps, scheduled'[i] > 0, Len(steps) = i,
                    state.status \notin Terminal, ~(due'[i] > 0)
             PROVE  Kept(i)'
  BY DEF NoStepDropped, Kept, redis
<1>1. scheduled[i] > 0
  OBVIOUS
<1>2. Kept(i)
  BY <1>1 DEF NoStepDropped, Kept
<1> QED BY <1>2

\* A process that goes on keeps what it has.
LEMMA MoveKeeps ==
  ASSUME IInv, NoStepDropped, NEW p \in Procs, NEW label, label # "idle", Goto(p, label),
         UNCHANGED <<redis, due, later, attempts, scheduled, idx>>
  PROVE  NoStepDropped'
<1>1. \A w \in Workers : pc[w] # "idle" => pc'[w] # "idle"
  BY QueueCounts DEF Goto, Procs
<1>2. \A i \in Steps : Kept(i) => Kept(i)'
  BY <1>1 DEF Kept
<1>3. Len(steps) \in Nat
  BY DEF IInv, TypeOK
<1> QED BY <1>2, <1>3, DeliveriesStay

\* A worker that finishes has its step delivered again, or it has answered.
LEMMA FinishKeeps ==
  ASSUME IInv, NoStepDropped, NEW w \in Workers, Finish(w), UNCHANGED redis,
         scheduled' = scheduled,
         \A i \in Steps : /\ due[i] > 0 => due'[i] > 0
                          /\ later[i] > 0 => later'[i] > 0
                          /\ attempts'[i] \in Nat /\ attempts'[i] >= attempts[i],
         \/ due'[idx[w]] > 0 \/ later'[idx[w]] > 0 \/ attempts'[idx[w]] >= Retries
         \/ Len(steps) > idx[w] \/ state.status \in Terminal
  PROVE  NoStepDropped'
<1>1. \A v \in Workers : v # w => pc'[v] = pc[v] /\ idx'[v] = idx[v]
  BY QueueCounts DEF Finish, Goto, Procs
<1>2. ASSUME NEW i \in Steps, Kept(i)
      PROVE  Kept(i)' \/ Len(steps) > i \/ state.status \in Terminal
  <2>1. attempts[i] >= Retries => attempts'[i] >= Retries
    BY QueueCounts, BoundsAssumption
  <2>2. CASE \E v \in Workers : v # w /\ pc[v] # "idle" /\ idx[v] = i
    BY <1>1, <2>2 DEF Kept
  <2>3. CASE idx[w] = i
    BY <2>3 DEF Kept
  <2> QED BY <1>2, <2>1, <2>2, <2>3 DEF Kept
<1>3. Len(steps) \in Nat
  BY DEF IInv, TypeOK
<1> QED BY <1>2, <1>3, DeliveriesStay

\* A redelivery makes the message due, or finds that QStash has given it up.
LEMMA RedeliveredKeeps ==
  ASSUME IInv, NEW i \in Steps, Redelivered(i)
  PROVE  /\ due'[i] > 0 \/ attempts'[i] >= Retries
         /\ \A j \in Steps : /\ due[j] > 0 => due'[j] > 0
                             /\ attempts'[j] \in Nat /\ attempts'[j] >= attempts[j]
<1> USE QueueCounts, BoundsAssumption
<1>1. CASE Again(i) /\ due' = [due EXCEPT ![i] = due[i] + 1]
  BY <1>1 DEF Again
<1>2. CASE GiveUp(i) /\ UNCHANGED due
  BY <1>2 DEF GiveUp
<1> QED BY <1>1, <1>2 DEF Redelivered

\* Requests that end: answered 429, killed, or answered 200 or 500.
LEMMA RequestEndsKeeps ==
  ASSUME IInv, AnsweredInv, NoStepDropped, NEW w \in Workers,
         Locked(w) \/ Crash(w) \/ Release(w)
  PROVE  NoStepDropped'
<1> USE QueueCounts, BoundsAssumption
<1>0. idx[w] \in Steps
  OBVIOUS
<1>1. CASE Locked(w)
  <2>1. /\ Finish(w) /\ UNCHANGED redis /\ scheduled' = scheduled /\ due' = due
        /\ \/ Again(idx[w]) /\ later' = [later EXCEPT ![idx[w]] = later[idx[w]] + 1]
           \/ GiveUp(idx[w]) /\ UNCHANGED later
    BY <1>1 DEF Locked
  <2>2. \A i \in Steps : /\ later[i] > 0 => later'[i] > 0
                         /\ attempts'[i] \in Nat /\ attempts'[i] >= attempts[i]
    BY <1>0, <2>1 DEF Again, GiveUp
  <2>3. later'[idx[w]] > 0 \/ attempts'[idx[w]] >= Retries
    BY <1>0, <2>1 DEF Again, GiveUp
  <2> QED BY <2>1, <2>2, <2>3, FinishKeeps
<1>2. CASE Crash(w)
  <2>1. /\ Finish(w) /\ UNCHANGED redis /\ scheduled' = scheduled /\ later' = later
        /\ Redelivered(idx[w])
    BY <1>2 DEF Crash
  <2> QED BY <1>0, <2>1, RedeliveredKeeps, FinishKeeps
<1>3. CASE Release(w)
  <2>1. /\ Finish(w) /\ UNCHANGED redis /\ scheduled' = scheduled /\ later' = later
        /\ pc[w] = "release"
    BY <1>3 DEF Release
  <2>2. CASE site[w] = "error"
    <3>1. Redelivered(idx[w])
      BY <1>3, <2>2 DEF Release
    <3> QED BY <1>0, <2>1, <3>1, RedeliveredKeeps, FinishKeeps
  <2>3. CASE site[w] # "error"
    <3>1. UNCHANGED <<due, attempts>>
      BY <1>3, <2>3 DEF Release
    <3>2. Len(steps) > idx[w] \/ state.status \in Terminal
      BY <2>1, <2>3 DEF AnsweredInv, Answering
    <3> QED BY <2>1, <3>1, <3>2, FinishKeeps
  <2> QED BY <2>2, <2>3
<1> QED BY <1>1, <1>2, <1>3

\* A save makes no step the next one that has been scheduled before.
LEMMA SaveWriteKeeps ==
  ASSUME IInv, NoStepDropped, NEW p \in Procs, SaveWrite(p)
  PROVE  NoStepDropped'
<1> USE ProcessAssumption
<1>1. /\ pc' = [pc EXCEPT ![p] = "end"]
      /\ UNCHANGED <<scheduled, due, later, attempts, idx>>
  BY DEF SaveWrite, Goto, queue
<1> SUFFICES ASSUME NEW i \in Steps, scheduled[i] > 0, Len(steps') = i,
                    state'.status \notin Terminal
             PROVE  Kept(i)'
  BY <1>1 DEF NoStepDropped, Kept
<1>2. i \in Nat /\ i <= Len(steps) /\ Len(steps) \in Nat
  BY StepsAreNat DEF IInv, QueueInv, TypeOK
<1>3. Len(steps) = i /\ state.status \notin Terminal
  BY <1>2, SaveKeepsAnswer
<1>4. Kept(i)
  BY <1>3 DEF NoStepDropped, Kept
<1>5. \A w \in Workers : pc[w] # "idle" => pc'[w] # "idle"
  BY <1>1, QueueCounts DEF Procs
<1> QED BY <1>1, <1>4, <1>5 DEF Kept

\* A published message is due.
LEMMA PublishKeeps ==
  ASSUME IInv, NoStepDropped, NEW n, Publish(n), UNCHANGED <<redis, later, attempts, idx>>,
         \A w \in Workers : pc[w] # "idle" => pc'[w] # "idle"
  PROVE  NoStepDropped'
<1> USE QueueCounts
<1>1. /\ scheduled' = [scheduled EXCEPT ![n] = scheduled[n] + 1]
      /\ due' = [due EXCEPT ![n] = due[n] + 1]
  BY DEF Publish
<1>2. \A i \in Steps : /\ due[i] > 0 => due'[i] > 0
                       /\ scheduled'[i] > 0 => scheduled[i] > 0 \/ due'[i] > 0
  BY <1>1
<1>3. \A i \in Steps : Kept(i) => Kept(i)'
  BY <1>2 DEF Kept
<1>4. Len(steps) \in Nat
  BY DEF IInv, TypeOK
<1> QED BY <1>2, <1>3, <1>4, DeliveriesStay

\* The queue keeps what it has not handed over.
LEMMA QueueKeeps ==
  ASSUME IInv, NoStepDropped, NEW i \in Steps,
         RetryDue(i) \/ Expire(i) \/ Duplicate(i) \/ \E w \in Workers : Deliver(w, i)
  PROVE  NoStepDropped'
<1> USE QueueCounts
<1>0. Len(steps) \in Nat
  BY DEF IInv, TypeOK
<1>1. CASE RetryDue(i)
  <2>1. /\ later' = [later EXCEPT ![i] = later[i] - 1]
        /\ due' = [due EXCEPT ![i] = due[i] + 1]
        /\ UNCHANGED <<redis, scheduled, attempts, pc, idx>>
    BY <1>1 DEF RetryDue
  <2>2. \A j \in Steps : /\ due[j] > 0 => due'[j] > 0
                         /\ later[j] > 0 => later'[j] > 0 \/ due'[j] > 0
    BY <2>1
  <2>3. \A j \in Steps : Kept(j) => Kept(j)'
    BY <2>1, <2>2 DEF Kept
  <2> QED BY <1>0, <2>1, <2>3, DeliveriesStay
<1>2. CASE Expire(i)
  <2>1. UNCHANGED <<redis, scheduled, due, later, attempts, pc, idx>>
    BY <1>2 DEF Expire, queue
  <2>2. \A j \in Steps : Kept(j) => Kept(j)'
    BY <2>1 DEF Kept
  <2> QED BY <1>0, <2>1, <2>2, DeliveriesStay
<1>3. CASE Duplicate(i)
  <2>1. due' = [due EXCEPT ![i] = due[i] + 1]
        /\ UNCHANGED <<redis, scheduled, later, attempts, pc, idx>>
    BY <1>3 DEF Duplicate
  <2>2. \A j \in Steps : due[j] > 0 => due'[j] > 0
    BY <2>1
  <2>3. \A j \in Steps : Kept(j) => Kept(j)'
    BY <2>1, <2>2 DEF Kept
  <2> QED BY <1>0, <2>1, <2>3, DeliveriesStay
<1>4. ASSUME NEW w \in Workers, Deliver(w, i) PROVE NoStepDropped'
  <2>1. /\ pc[w] = "idle" /\ due' = [due EXCEPT ![i] = due[i] - 1]
        /\ idx' = [idx EXCEPT ![w] = i] /\ pc' = [pc EXCEPT ![w] = "claim"]
        /\ UNCHANGED <<redis, scheduled, later, attempts>>
    BY <1>4 DEF Deliver, Goto
  <2>2. /\ pc'[w] # "idle" /\ idx'[w] = i
        /\ \A v \in Workers : v # w => pc'[v] = pc[v] /\ idx'[v] = idx[v]
        /\ \A j \in Steps : j # i => due'[j] = due[j]
    BY <2>1 DEF Procs
  <2>3. Kept(i)'
    BY <2>2 DEF Kept
  <2>4. \A j \in Steps : j # i => (Kept(j) => Kept(j)')
    BY <2>1, <2>2 DEF Kept
  <2> QED BY <1>0, <2>1, <2>3, <2>4, DeliveriesStay
<1> QED BY <1>1, <1>2, <1>3, <1>4

\* Nobody lets go of a step that has still to be executed.
LEMMA NextKeeps ==
  ASSUME IInv, AnsweredInv, NoStepDropped, [Next]_vars
  PROVE  NoStepDropped'
<1> USE ProcessAssumption
<1>1. ASSUME NEW p \in Procs,
             SavePrev(p) \/ SaveEnd(p)
             \/ (p \in Workers /\
                  (Claim(p) \/ ClaimFailsOpen(p) \/ Load(p) \/ SkipExecuted(p)
                   \/ SkipEnded(p) \/ BeginStep(p) \/ RunStep(p) \/ ReadLatest(p)
                   \/ StopHere(p) \/ PersistCompletion(p) \/ DispatchOnComplete(p)
                   \/ CatchLoad(p) \/ Throws(p) \/ ErrorSaveFails(p)))
             \/ (p \in Requesters /\ RequestInterrupt(p))
      PROVE  NoStepDropped'
  <2>1. UNCHANGED <<redis, due, later, attempts, scheduled, idx>>
    BY <1>1 DEF SavePrev, SaveEnd, Claim, ClaimFailsOpen, Load, SkipExecuted, SkipEnded,
                BeginStep, RunStep, ReadLatest, StopHere, PersistCompletion,
                DispatchOnComplete, CatchLoad, Throws, ErrorSaveFails, RequestInterrupt,
                queue
  <2>2. \E label : label # "idle" /\ Goto(p, label)
    <3>1. CASE SaveEnd(p)
      <4>1. site[p] \in {"budget", "result", "track", "error", "interrupt"}
        BY <3>1 DEF SaveEnd, IInv, ControlInv, TypeOK, Saving, Procs, Sites
      <4>2. AfterSave(p) # "idle"
        BY <4>1 DEF AfterSave
      <4> QED BY <3>1, <4>2 DEF SaveEnd
    <3>2. CASE ~SaveEnd(p)
      BY <1>1, <3>2 DEF SavePrev, Claim, ClaimFailsOpen, Load, SkipExecuted, SkipEnded,
                BeginStep, RunStep, ReadLatest, StopHere, PersistCompletion, BeginSave,
                DispatchOnComplete, CatchLoad, Throws, ErrorSaveFails, RequestInterrupt
    <3> QED BY <3>1, <3>2
  <2> QED BY <2>1, <2>2, MoveKeeps
<1>2. ASSUME NEW w \in Workers, WorkerStep(w) \/ WorkerFault(w) PROVE NoStepDropped'
  <2>0. w \in Procs
    BY DEF Procs
  <2>1. CASE ScheduleNext(w)
    <3>1. \A v \in Workers : pc[v] # "idle" => pc'[v] # "idle"
      BY <2>1, QueueCounts DEF ScheduleNext, Goto, Procs
    <3> QED BY <2>1, <3>1, PublishKeeps DEF ScheduleNext
  <2>2. CASE ~ScheduleNext(w)
    BY <1>1, <1>2, <2>0, <2>2, RequestEndsKeeps, SaveWriteKeeps
       DEF WorkerStep, WorkerFault
  <2> QED BY <2>1, <2>2
<1>3. ASSUME NEW r \in Requesters, Requester(r) PROVE NoStepDropped'
  <2>0. r \in Procs
    BY DEF Procs
  <2> QED BY <1>1, <1>3, <2>0, SaveWriteKeeps DEF Requester
<1>4. ASSUME NEW i \in Steps, QueueStep(i) \/ Duplicate(i) PROVE NoStepDropped'
  BY <1>4, QueueKeeps DEF QueueStep
<1>5. CASE ResumeParked
  BY <1>5, PublishKeeps DEF ResumeParked
<1>6. CASE UNCHANGED vars
  <2>1. \A i \in Steps : Kept(i) => Kept(i)'
    BY <1>6 DEF Kept, vars
  <2>2. Len(steps) \in Nat
    BY DEF IInv, TypeOK
  <2> QED BY <1>6, <2>1, <2>2, DeliveriesStay DEF vars, redis
<1> QED BY <1>2, <1>3, <1>4, <1>5, <1>6 DEF Next

\* A scheduled step is never dropped, for any workers, requesters, steps, retries and
\* faults: whichever workers are killed, throw, or fail to save what they threw, and
\* however late or often the step is delivered (the answers of runStep that make
\* QStash deliver again, and the defences of executeStep that let it not).
THEOREM NoStepDroppedTheorem ==
  ASSUME LeaseHolds
  PROVE  Spec => []NoStepDropped
<1>1. Init => AnsweredInv /\ NoStepDropped
  BY ProcessAssumption DEF Init, AnsweredInv, Answering, Saving, NoStepDropped, Procs
<1>2. IInv /\ AnsweredInv /\ NoStepDropped /\ [Next]_vars => AnsweredInv' /\ NoStepDropped'
  BY NextAnswered, NextKeeps
<1> QED BY <1>1, <1>2, InvariantTheorem, PTL DEF Spec

\* A save either executes the next step of the ledger or leaves it alone.
LEMMA SaveWriteLedger ==
  ASSUME IInv, NEW p \in Procs, SaveWrite(p)
  PROVE  Ledger!LedgerNext \/ UNCHANGED steps
<1>1. CASE site[p] = "result"
  <2>1. st[p].status \in Ledger!Continues \cup Ledger!Ends /\ ~Ledger!Closed
        /\ Len(steps) = idx[p]
    BY <1>1, SavesNextStep, TerminalStatuses DEF SaveWrite
  <2>2. Ledger!Execute(st[p].status)
    BY <1>1, <2>1 DEF SaveWrite, Ledger!Execute
  <2> QED BY <2>1, <2>2 DEF Ledger!LedgerNext
<1>2. CASE site[p] # "result"
  BY <1>2 DEF SaveWrite
<1> QED BY <1>1, <1>2

\* No other action touches the step history.
LEMMA NextLedger ==
  ASSUME IInv, [Next]_vars
  PROVE  [Ledger!LedgerNext]_steps
<1>1. CASE \E w \in Workers : WorkerStep(w)
  <2>1. PICK w \in Workers : WorkerStep(w)  BY <1>1
  <2>2. CASE SaveWrite(w)
    BY <2>2, SaveWriteLedger DEF Procs
  <2>3. CASE ~SaveWrite(w)
    BY <2>1, <2>3 DEF WorkerStep, redis, Claim, Locked, ClaimFailsOpen,
        Release, SavePrev,
                      SaveEnd, Load, SkipExecuted, SkipEnded, BeginStep, RunStep,
                      ReadLatest, ScheduleNext, StopHere, PersistCompletion,
                      DispatchOnComplete, CatchLoad
  <2> QED BY <2>2, <2>3
<1>2. CASE \E w \in Workers : WorkerFault(w)
  BY <1>2 DEF WorkerFault, Throws, ErrorSaveFails, Crash, redis
<1>3. CASE \E r \in Requesters : Requester(r)
  <2>1. PICK r \in Requesters : Requester(r)  BY <1>3
  <2>2. CASE SaveWrite(r)
    BY <2>2, SaveWriteLedger DEF Procs
  <2>3. CASE ~SaveWrite(r)
    BY <2>1, <2>3 DEF Requester, RequestInterrupt, SavePrev, SaveEnd, redis
  <2> QED BY <2>2, <2>3
<1>4. CASE \E i \in Steps : QueueStep(i) \/ Duplicate(i)
  BY <1>4 DEF QueueStep, RetryDue, Expire, Deliver, Duplicate, redis
<1>5. CASE ResumeParked
  BY <1>5 DEF ResumeParked, redis
<1>6. CASE UNCHANGED vars
  BY <1>6 DEF vars
<1> QED BY <1>1, <1>2, <1>3, <1>4, <1>5, <1>6 DEF Next

\* The pipeline implements the exactly-once ledger: whatever is redelivered,
\* duplicated, crashes or is interrupted, each step is executed once, in order,
\* and none after the one that ended the operation.
THEOREM LedgerRefinement ==
  ASSUME LeaseHolds
  PROVE  Spec => ImplementsLedger
<1>1. Init => Ledger!LedgerInit
  BY DEF Init, Ledger!LedgerInit
<1>2. IInv /\ [Next]_vars => [Ledger!LedgerNext]_steps
  BY NextLedger
<1> QED BY <1>1, <1>2, InvariantTheorem, PTL DEF Spec, ImplementsLedger,
    Ledger!LedgerSpec
=============================================================================
