------------------------ MODULE AsyncToolResume_proofs ------------------------
(* Theorems about AsyncToolResume, for any workers, tools, turns, attempts    *)
(* and faults, interrupts included: no turn is published before every call of *)
(* the turn before it has its result.  Neither the barrier nor the CAS shows  *)
(* that alone, because a check may hold an earlier park's state when it wins; *)
(* the inductive invariant says that such a state still names all the calls   *)
(* of its turn, and that no other turn than the last one makes calls.  Then   *)
(* that a single park is resumed by one message, that no wake-up is lost      *)
(* while the operation is parked, and that the park is always held by the     *)
(* row or by who has to write it, claim it or publish its next turn.          *)
EXTENDS AsyncToolResume, TLAPS

USE DEF history

\* Results and callbacks are of calls that were made, by a turn that may park.
CallsInv ==
  /\ \A c \in made : c[1] < MaxTurn
  /\ children \subseteq made /\ filled \subseteq made
  /\ \A c \in Calls : callbacks[c] > 0 => c \in made
  /\ \A w \in Workers : task[w].kind = "callback" => task[w].call \in made

\* A turn is published by what its predecessor saved, and what is due was
\* published.
PublishedInv ==
  \A i \in Turns :
    /\ published[i] > 0 => i <= parent.stepCount
    /\ due[i] > 0 => published[i] > 0

\* The turn that runs is the next one after the history, and runs alone.
TurnInv ==
  \A w \in Workers :
    stage[w] = "turn" =>
      /\ task[w].kind = "step" /\ Turn(w) = parent.stepCount
      /\ published[Turn(w)] > 0
      /\ \A v \in Workers : stage[v] = "turn" => v = w

\* A parked state waits for all the calls of the turn that saved it.
Parked(state) ==
  /\ state.stepCount \in 1 .. MaxTurn
  /\ state.pending = CallsOf(state.stepCount - 1)
  /\ published[state.stepCount - 1] > 0

\* A handler that has loaded one holds the last park or an earlier one, and
\* past the barrier all its results are in.
HandlerInv(w) ==
  /\ stage[w] \in {"barrier", "cas", "publish"} =>
       Parked(seen[w]) /\ seen[w].stepCount <= parent.stepCount
  /\ stage[w] \in {"cas", "publish"} => Awaited(w) \subseteq filled
  /\ stage[w] = "backfill" => task[w].kind = "callback"

IInv ==
  /\ TypeOK /\ CallsInv /\ PublishedInv /\ TurnInv
  /\ \A w \in Workers : HandlerInv(w)
  /\ parent.status = "waiting_for_async_tool" => Parked(parent)

-----------------------------------------------------------------------------
\* Types.

\* What a handler's message tells, by its kind.
LEMMA TaskTypes ==
  ASSUME NEW what \in Tasks \cup {NoTask}
  PROVE  /\ what.kind \in {"none", "step", "callback", "verify"}
         /\ what.kind = "step" => what.turn \in Turns
                                  /\ what = [kind |-> "step", turn |-> what.turn]
         /\ what.kind = "callback" => what.call \in Calls
         /\ what.kind = "verify" => what.attempt \in Attempts
BY DEF Tasks, NoTask

\* The messages the queue delivers are tasks.
LEMMA TaskMade ==
  /\ \A i \in Turns : [kind |-> "step", turn |-> i] \in Tasks
  /\ \A c \in Calls : [kind |-> "callback", call |-> c] \in Tasks
  /\ \A a \in Attempts : [kind |-> "verify", attempt |-> a] \in Tasks
BY DEF Tasks

\* createOperation's state is one of the parent's.
LEMMA StartType == Start \in ParentState
BY BoundsAssumption DEF Start, ParentState, Status, Terminal

\* One step is published, and nothing else has happened.
LEMMA InitInv == Init => IInv
<1> SUFFICES ASSUME Init PROVE IInv
  OBVIOUS
<1>1. TypeOK
  BY StartType DEF Init, TypeOK, Status, Stages
<1>2. CallsInv /\ TurnInv /\ \A w \in Workers : HandlerInv(w)
  BY DEF Init, CallsInv, TurnInv, HandlerInv, NoTask
<1>3. PublishedInv
  BY DEF Init, PublishedInv, Start, Turns
<1>4. parent.status # "waiting_for_async_tool"
  BY DEF Init, Start
<1> QED BY <1>1, <1>2, <1>3, <1>4 DEF IInv

-----------------------------------------------------------------------------
\* The steps that leave the parent's state and the calls alone, and let no
\* further turn begin: they are judged by what the queue and the handlers do.

Quiet == {"idle", "turn", "row", "load"}

Stays(v) == stage'[v] = stage[v] /\ task'[v] = task[v] /\ seen'[v] = seen[v]

\* A handler that does not move keeps what it holds while others go on.
LEMMA HandlerStays ==
  ASSUME IInv, NEW w \in Workers, UNCHANGED <<parent, made>>, filled \subseteq filled',
         \A i \in Turns : published[i] > 0 => published'[i] > 0, Stays(w)
  PROVE  HandlerInv(w)'
<1>1. ASSUME stage'[w] \in {"barrier", "cas", "publish"}
      PROVE  Parked(seen[w])' /\ seen'[w].stepCount <= parent'.stepCount
  <2>1. Parked(seen[w]) /\ seen[w].stepCount <= parent.stepCount
    BY <1>1 DEF IInv, HandlerInv, Stays
  <2>2. seen[w].stepCount - 1 \in Turns
    BY <2>1, BoundsAssumption DEF Parked, Turns
  <2> QED BY <2>1, <2>2 DEF Parked, CallsOf, Stays
<1>2. stage'[w] \in {"cas", "publish"} => Awaited(w)' \subseteq filled'
  BY DEF IInv, HandlerInv, Awaited, AwaitedBy, Stays
<1>3. stage'[w] = "backfill" => task'[w].kind = "callback"
  BY DEF IInv, HandlerInv, Stays
<1> QED BY <1>1, <1>2, <1>3 DEF HandlerInv

\* Such a step needs only answer for types, calls, queue and its own handler.
LEMMA RestKept ==
  ASSUME IInv, TypeOK', CallsInv', UNCHANGED <<parent, made>>, filled \subseteq filled',
         \A i \in Turns : /\ published[i] > 0 => published'[i] > 0
                          /\ published'[i] > 0 => i <= parent.stepCount
                          /\ due'[i] > 0 => published'[i] > 0,
         \A v \in Workers : stage'[v] = "turn" => Stays(v),
         \A v \in Workers : Stays(v) \/ stage'[v] \in Quiet \/ HandlerInv(v)'
  PROVE  IInv'
<1>1. PublishedInv'
  BY DEF PublishedInv
<1>2. TurnInv'
  <2> SUFFICES ASSUME NEW w \in Workers, stage'[w] = "turn"
               PROVE  /\ task'[w].kind = "step" /\ Turn(w)' = parent'.stepCount
                      /\ published'[Turn(w)'] > 0
                      /\ \A v \in Workers : stage'[v] = "turn" => v = w
    BY DEF TurnInv
  <2>1. Stays(w) /\ stage[w] = "turn"
    BY DEF Stays
  <2>2. /\ task[w].kind = "step" /\ Turn(w) = parent.stepCount
        /\ published[Turn(w)] > 0
        /\ \A v \in Workers : stage[v] = "turn" => v = w
    BY <2>1 DEF IInv, TurnInv
  <2>3. Turn(w) \in Turns
    BY <2>2, TaskTypes DEF IInv, TypeOK, Turn
  <2> QED BY <2>1, <2>2, <2>3 DEF Turn, Stays
<1>3. ASSUME NEW v \in Workers PROVE HandlerInv(v)'
  <2>1. CASE Stays(v)
    BY <2>1, HandlerStays
  <2>2. CASE stage'[v] \in Quiet
    BY <2>2 DEF HandlerInv, Quiet
  <2> QED BY <2>1, <2>2
<1>4. parent'.status = "waiting_for_async_tool" => Parked(parent)'
  <2> SUFFICES ASSUME parent.status = "waiting_for_async_tool" PROVE Parked(parent)'
    OBVIOUS
  <2>1. Parked(parent) /\ parent.stepCount - 1 \in Turns
    BY BoundsAssumption DEF IInv, Parked, Turns
  <2> QED BY <2>1 DEF Parked, CallsOf
<1> QED BY <1>1, <1>2, <1>3, <1>4 DEF IInv

\* What the queue was before, where it stays.
LEMMA QueueFacts ==
  ASSUME IInv
  PROVE  \A i \in Turns : /\ published[i] > 0 => i <= parent.stepCount
                          /\ due[i] > 0 => published[i] > 0
BY DEF IInv, PublishedInv

\* A failure is one more.
LEMMA FailureStep ==
  ASSUME TypeOK, NEW kind, Failure(kind)
  PROVE  faults' \in Nat
BY DEF TypeOK, Failure

\* So is a fault, which loses no publish of a callback or verify for good.
LEMMA FaultStep ==
  ASSUME TypeOK, NEW kind, Fault(kind)
  PROVE  faults' \in Nat /\ UNCHANGED <<unheard, blind>>
BY DEF TypeOK, Fault, Failure

\* A handler that finishes is idle, the others stay.
LEMMA FinishStep ==
  ASSUME TypeOK, NEW w \in Workers, Finish(w)
  PROVE  /\ stage' \in [Workers -> Stages] /\ task' \in [Workers -> Tasks \cup {NoTask}]
         /\ seen' \in [Workers -> ParentState]
         /\ stage'[w] = "idle" /\ task'[w] = NoTask
         /\ \A v \in Workers : v # w => Stays(v)
BY StartType DEF TypeOK, Finish, Goto, Stays, Stages

\* A handler that goes on does so alone.
LEMMA GotoStep ==
  ASSUME TypeOK, NEW w \in Workers, NEW label \in Stages, Goto(w, label)
  PROVE  /\ stage' \in [Workers -> Stages] /\ stage'[w] = label
         /\ \A v \in Workers : v # w => stage'[v] = stage[v]
BY DEF TypeOK, Goto

-----------------------------------------------------------------------------
\* The queue and the children.

\* A late delivery of a step is used up.
LEMMA SkipTurnStep ==
  ASSUME IInv, NEW i \in Turns, SkipTurn(i)
  PROVE  IInv'
<1> USE DEF IInv
<1>1. /\ due' = [due EXCEPT ![i] = due[i] - 1] /\ due[i] > 0
      /\ row' \in Status
      /\ UNCHANGED <<parent, messages, callbacks, verifies, published, stage, task, seen,
                     history>>
  BY DEF SkipTurn, Deliver, TypeOK, Status
<1>2. due' \in [Turns -> Nat] /\ \A j \in Turns : due'[j] > 0 => due[j] > 0
  BY <1>1 DEF TypeOK
<1>3. TypeOK'
  BY <1>1, <1>2 DEF TypeOK, messages
<1>4. CallsInv'
  BY <1>1 DEF CallsInv, messages
<1> QED BY <1>1, <1>2, <1>3, <1>4, RestKept, QueueFacts DEF Stays, messages

\* A child that ends publishes a callback of a call that was made.
LEMMA ChildEndsStep ==
  ASSUME IInv, NEW c \in Calls, ChildEnds(c)
  PROVE  IInv'
<1> USE DEF IInv
<1>1. /\ callbacks' = [callbacks EXCEPT ![c] = callbacks[c] + 1] /\ c \in made
      /\ children' \subseteq children
      /\ UNCHANGED <<parent, row, made, filled, verifies, published, due, stage, task,
                     seen, history>>
  BY DEF ChildEnds, CallsInv
<1>2. callbacks' \in [Calls -> Nat] /\ \A d \in Calls : d # c => callbacks'[d] = callbacks[d]
  BY <1>1 DEF TypeOK
<1>3. TypeOK'
  BY <1>1, <1>2 DEF TypeOK
<1>4. CallsInv'
  BY <1>1, <1>2 DEF CallsInv
<1> QED BY <1>1, <1>3, <1>4, RestKept, QueueFacts DEF Stays

\* One that ends unheard publishes none.
LEMMA ChildEndsUnheardStep ==
  ASSUME IInv, NEW c \in Calls, ChildEndsUnheard(c)
  PROVE  IInv'
<1> USE DEF IInv
<1>1. /\ children' \subseteq children /\ unheard' = unheard \cup {c}
      /\ UNCHANGED <<parent, row, made, filled, queue, stage, task, seen, blind>>
  BY DEF ChildEndsUnheard
<1>2. faults' \in Nat
  BY FailureStep DEF ChildEndsUnheard
<1>3. TypeOK'
  BY <1>1, <1>2 DEF TypeOK, queue
<1>4. CallsInv'
  BY <1>1 DEF CallsInv, queue
<1> QED BY <1>1, <1>3, <1>4, RestKept, QueueFacts DEF Stays, queue

\* So does QStash when it delivers twice.
LEMMA DuplicateCallbackStep ==
  ASSUME IInv, NEW c \in Calls, DuplicateCallback(c)
  PROVE  IInv'
<1> USE DEF IInv
<1>1. /\ callbacks' = [callbacks EXCEPT ![c] = callbacks[c] + 1] /\ c \in made
      /\ UNCHANGED <<parent, row, messages, verifies, published, due, stage, task, seen>>
  BY DEF DuplicateCallback
<1>2. callbacks' \in [Calls -> Nat] /\ \A d \in Calls : d # c => callbacks'[d] = callbacks[d]
  BY <1>1 DEF TypeOK
<1>3. faults' \in Nat /\ UNCHANGED <<unheard, blind>>
  BY FaultStep DEF DuplicateCallback
<1>4. TypeOK'
  BY <1>1, <1>2, <1>3 DEF TypeOK, messages
<1>5. CallsInv'
  BY <1>1, <1>2 DEF CallsInv, messages
<1> QED BY <1>1, <1>4, <1>5, RestKept, QueueFacts DEF Stays, messages

\* A handler takes a callback to its backfill.
LEMMA TakeCallbackStep ==
  ASSUME IInv, NEW w \in Workers, NEW c \in Calls, TakeCallback(w, c)
  PROVE  IInv'
<1> USE DEF IInv
<1> DEFINE what == [kind |-> "callback", call |-> c]
<1>1. /\ callbacks[c] > 0 /\ callbacks' = [callbacks EXCEPT ![c] = callbacks[c] - 1]
      /\ Goto(w, "backfill") /\ task' = [task EXCEPT ![w] = what]
      /\ UNCHANGED <<parent, row, messages, verifies, published, due, seen, history>>
  BY DEF TakeCallback, Take
<1>2. what \in Tasks /\ what.kind = "callback" /\ what.call = c
  BY TaskMade
<1> HIDE DEF what
<1>3. callbacks' \in [Calls -> Nat] /\ \A d \in Calls : callbacks'[d] > 0 => callbacks[d] > 0
  BY <1>1 DEF TypeOK
<1>4. /\ stage' \in [Workers -> Stages] /\ stage'[w] = "backfill"
      /\ \A v \in Workers : v # w => stage'[v] = stage[v]
  BY <1>1, GotoStep DEF Stages
<1>5. /\ task' \in [Workers -> Tasks \cup {NoTask}] /\ task'[w] = what
      /\ \A v \in Workers : v # w => task'[v] = task[v]
  BY <1>1, <1>2 DEF TypeOK
<1>6. TypeOK'
  BY <1>1, <1>3, <1>4, <1>5 DEF TypeOK, messages
<1>7. CallsInv'
  BY <1>1, <1>2, <1>3, <1>5 DEF CallsInv, messages
<1>8. HandlerInv(w)'
  BY <1>2, <1>4, <1>5 DEF HandlerInv
<1> QED BY <1>1, <1>4, <1>5, <1>6, <1>7, <1>8, RestKept, QueueFacts DEF Stays, messages

\* A handler takes a verify to its check.
LEMMA TakeVerifyStep ==
  ASSUME IInv, NEW w \in Workers, NEW a \in Attempts, TakeVerify(w, a)
  PROVE  IInv'
<1> USE DEF IInv
<1> DEFINE what == [kind |-> "verify", attempt |-> a]
<1>1. /\ verifies[a] > 0 /\ verifies' = [verifies EXCEPT ![a] = verifies[a] - 1]
      /\ Goto(w, "load") /\ task' = [task EXCEPT ![w] = what]
      /\ UNCHANGED <<parent, row, messages, callbacks, published, due, seen, history>>
  BY DEF TakeVerify, Take
<1>2. what \in Tasks /\ what.kind = "verify"
  BY TaskMade
<1> HIDE DEF what
<1>3. verifies' \in [Attempts -> Nat]
  BY <1>1 DEF TypeOK
<1>4. /\ stage' \in [Workers -> Stages] /\ stage'[w] = "load"
      /\ \A v \in Workers : v # w => stage'[v] = stage[v]
  BY <1>1, GotoStep DEF Stages
<1>5. /\ task' \in [Workers -> Tasks \cup {NoTask}] /\ task'[w] = what
      /\ \A v \in Workers : v # w => task'[v] = task[v]
  BY <1>1, <1>2 DEF TypeOK
<1>6. TypeOK'
  BY <1>1, <1>3, <1>4, <1>5 DEF TypeOK, messages
<1>7. CallsInv'
  BY <1>1, <1>2, <1>5 DEF CallsInv, messages
<1> QED BY <1>1, <1>4, <1>5, <1>6, <1>7, RestKept, QueueFacts DEF Stays, messages, Quiet

-----------------------------------------------------------------------------
\* A handler that goes on to the next stage of its check.

\* The result that is filled in is that of a call that was made.
LEMMA BackfillStep ==
  ASSUME IInv, NEW w \in Workers, Backfill(w)
  PROVE  IInv'
<1> USE DEF IInv
<1>1. task[w].kind = "callback" /\ task[w].call \in Calls /\ task[w].call \in made
  BY TaskTypes DEF Backfill, HandlerInv, CallsInv, TypeOK
<1>2. /\ filled' = filled \cup {task[w].call} /\ Goto(w, "load")
      /\ UNCHANGED <<parent, row, made, children, queue, task, seen, history>>
  BY DEF Backfill
<1>3. /\ stage' \in [Workers -> Stages] /\ stage'[w] = "load"
      /\ \A v \in Workers : v # w => stage'[v] = stage[v]
  BY <1>2, GotoStep DEF Stages
<1>4. TypeOK'
  BY <1>1, <1>2, <1>3 DEF TypeOK, queue
<1>5. CallsInv'
  BY <1>1, <1>2 DEF CallsInv, queue
<1> QED BY <1>2, <1>3, <1>4, <1>5, RestKept, QueueFacts DEF Stays, queue, Quiet

\* A check loads the parked state as it is now.
LEMMA LoadParkedStep ==
  ASSUME IInv, NEW w \in Workers, LoadParked(w)
  PROVE  IInv'
<1> USE DEF IInv
<1>1. /\ Parked(parent) /\ Goto(w, "barrier") /\ seen' = [seen EXCEPT ![w] = parent]
      /\ UNCHANGED <<parent, row, messages, queue, task, history>>
  BY DEF LoadParked
<1>2. /\ stage' \in [Workers -> Stages] /\ stage'[w] = "barrier"
      /\ \A v \in Workers : v # w => stage'[v] = stage[v]
  BY <1>1, GotoStep DEF Stages
<1>3. /\ seen' \in [Workers -> ParentState] /\ seen'[w] = parent
      /\ \A v \in Workers : v # w => seen'[v] = seen[v]
  BY <1>1 DEF TypeOK
<1>4. TypeOK'
  BY <1>1, <1>2, <1>3 DEF TypeOK, messages, queue
<1>5. CallsInv'
  BY <1>1 DEF CallsInv, messages, queue
<1>6. HandlerInv(w)'
  BY <1>1, <1>2, <1>3 DEF HandlerInv, Parked, CallsOf, TypeOK, ParentState, messages, queue
<1> QED BY <1>1, <1>2, <1>3, <1>4, <1>5, <1>6, RestKept, QueueFacts
        DEF Stays, messages, queue

\* Past the barrier all results of the loaded state are in.
LEMMA BarrierOpensStep ==
  ASSUME IInv, NEW w \in Workers, BarrierOpens(w)
  PROVE  IInv'
<1> USE DEF IInv
<1>1. /\ stage[w] = "barrier" /\ Awaited(w) \subseteq filled /\ Goto(w, "cas")
      /\ UNCHANGED <<parent, row, messages, queue, task, seen, history>>
  BY DEF BarrierOpens
<1>2. /\ stage' \in [Workers -> Stages] /\ stage'[w] = "cas"
      /\ \A v \in Workers : v # w => stage'[v] = stage[v]
  BY <1>1, GotoStep DEF Stages
<1>3. TypeOK'
  BY <1>1, <1>2 DEF TypeOK, messages, queue
<1>4. CallsInv'
  BY <1>1 DEF CallsInv, messages, queue
<1>5. HandlerInv(w)'
  BY <1>1, <1>2 DEF HandlerInv, Parked, CallsOf, Awaited, AwaitedBy, messages, queue
<1> QED BY <1>1, <1>2, <1>3, <1>4, <1>5, RestKept, QueueFacts DEF Stays, messages, queue

\* The CAS changes the row, which the invariant does not look at.
LEMMA WinCasStep ==
  ASSUME IInv, NEW w \in Workers, WinCas(w)
  PROVE  IInv'
<1> USE DEF IInv
<1>1. /\ stage[w] = "cas" /\ Goto(w, "publish") /\ row' = "running"
      /\ UNCHANGED <<parent, messages, queue, task, seen, history>>
  BY DEF WinCas
<1>2. /\ stage' \in [Workers -> Stages] /\ stage'[w] = "publish"
      /\ \A v \in Workers : v # w => stage'[v] = stage[v]
  BY <1>1, GotoStep DEF Stages
<1>3. TypeOK'
  BY <1>1, <1>2 DEF TypeOK, Status, messages, queue
<1>4. CallsInv'
  BY <1>1 DEF CallsInv, messages, queue
<1>5. HandlerInv(w)'
  BY <1>1, <1>2 DEF HandlerInv, Parked, CallsOf, Awaited, AwaitedBy, messages, queue
<1> QED BY <1>1, <1>2, <1>3, <1>4, <1>5, RestKept, QueueFacts DEF Stays, messages, queue

\* persistCompletion: the row does not matter to the invariant.
LEMMA WriteRowStep ==
  ASSUME IInv, NEW w \in Workers, WriteRow(w)
  PROVE  IInv'
<1> USE DEF IInv
<1>1. row' \in Status /\ faults' \in Nat /\ UNCHANGED <<unheard, blind>>
  BY FaultStep DEF WriteRow, TypeOK, ParentState
<1>2. UNCHANGED <<parent, messages, queue>>
  BY DEF WriteRow
<1>3. /\ stage' \in [Workers -> Stages] /\ task' \in [Workers -> Tasks \cup {NoTask}]
      /\ seen' \in [Workers -> ParentState]
      /\ stage'[w] \in Quiet /\ stage'[w] # "turn"
      /\ task'[w] = task[w] \/ task'[w] = NoTask
      /\ \A v \in Workers : v # w => Stays(v)
  <2>1. CASE Finish(w)
    BY <2>1, FinishStep DEF Quiet
  <2>2. CASE Goto(w, "load") /\ UNCHANGED <<task, seen>>
    BY <2>2, GotoStep DEF Quiet, Stages, Stays, TypeOK
  <2> QED BY <2>1, <2>2 DEF WriteRow
<1>4. TypeOK'
  BY <1>1, <1>2, <1>3 DEF TypeOK, messages, queue
<1>5. CallsInv'
  BY <1>2, <1>3 DEF CallsInv, Stays, NoTask, messages, queue
<1> QED BY <1>2, <1>3, <1>4, <1>5, RestKept, QueueFacts DEF messages, queue

-----------------------------------------------------------------------------
\* A handler that is done, or has failed and is delivered again.

\* A handler that finishes answers only for what it leaves in the queue.
LEMMA HandlerFinishes ==
  ASSUME IInv, NEW w \in Workers, Finish(w), UNCHANGED <<parent, messages>>,
         row' \in Status, faults' \in Nat, unheard' \subseteq Calls, blind' \in BOOLEAN,
         callbacks' \in [Calls -> Nat], verifies' \in [Attempts -> Nat],
         published' \in [Turns -> Nat], due' \in [Turns -> Nat],
         \A c \in Calls : callbacks'[c] > 0 => c \in made,
         \A i \in Turns : /\ published[i] > 0 => published'[i] > 0
                          /\ published'[i] > 0 => i <= parent.stepCount
                          /\ due'[i] > 0 => published'[i] > 0
  PROVE  IInv'
<1> USE DEF IInv
<1>1. /\ stage' \in [Workers -> Stages] /\ task' \in [Workers -> Tasks \cup {NoTask}]
      /\ seen' \in [Workers -> ParentState]
      /\ stage'[w] = "idle" /\ task'[w] = NoTask
      /\ \A v \in Workers : v # w => Stays(v)
  BY FinishStep
<1>2. TypeOK'
  BY <1>1 DEF TypeOK, messages
<1>3. CallsInv'
  BY <1>1 DEF CallsInv, Stays, NoTask, messages
<1> QED BY <1>1, <1>2, <1>3, RestKept DEF messages, Quiet

\* A check that holds arms a verify within the bound, or none.
LEMMA HoldStep ==
  ASSUME IInv, NEW w \in Workers, NEW status, Hold(w, status), faults' \in Nat,
         UNCHANGED <<unheard, blind>>
  PROVE  IInv'
<1> USE DEF IInv
<1>1. verifies' \in [Attempts -> Nat]
  <2>1. NextAttempt(w) \in Nat \ {0}
    BY TaskTypes DEF NextAttempt, TypeOK, Attempts
  <2>2. verifies' = verifies
        \/ (NextAttempt(w) \in Attempts
             /\ verifies' = [verifies EXCEPT ![NextAttempt(w)] = verifies[NextAttempt(w)] + 1])
    BY <2>1, BoundsAssumption DEF Hold, Arm, Attempts
  <2> QED BY <2>2 DEF TypeOK
<1>2. /\ Finish(w)
      /\ UNCHANGED <<parent, row, messages, callbacks, published, due>>
  BY DEF Hold
<1> QED BY <1>1, <1>2, HandlerFinishes, QueueFacts DEF TypeOK, CallsInv

\* One that arms none leaves the queue as it is.
LEMMA HoldUnarmedStep ==
  ASSUME IInv, NEW w \in Workers, HoldUnarmed(w), faults' \in Nat,
         unheard' \subseteq Calls, blind' \in BOOLEAN
  PROVE  IInv'
<1>1. /\ Finish(w)
      /\ UNCHANGED <<parent, row, messages, callbacks, verifies, published, due>>
  BY DEF HoldUnarmed, queue
<1> QED BY <1>1, HandlerFinishes, QueueFacts DEF IInv, TypeOK, CallsInv

\* An operation that is not parked holds the check.
LEMMA LoadNotParkedStep ==
  ASSUME IInv, NEW w \in Workers, LoadNotParked(w)
  PROVE  IInv'
<1>1. faults' \in Nat /\ UNCHANGED <<unheard, blind>>
  BY FaultStep DEF LoadNotParked, IInv, TypeOK
<1> QED BY <1>1, HoldStep, HoldUnarmedStep DEF LoadNotParked, IInv, TypeOK

\* A missing result, or one that is not seen, holds the check.
LEMMA BarrierHoldsStep ==
  ASSUME IInv, NEW w \in Workers, BarrierHolds(w)
  PROVE  IInv'
<1>1. faults' \in Nat /\ UNCHANGED <<unheard, blind>>
  BY FaultStep DEF BarrierHolds, BarrierHoldsUnarmed, HoldUnarmed, IInv, TypeOK
<1> QED BY <1>1, HoldStep DEF BarrierHolds

\* And may arm nothing, which is remembered if the result was there.
LEMMA BarrierHoldsUnarmedStep ==
  ASSUME IInv, NEW w \in Workers, BarrierHoldsUnarmed(w)
  PROVE  IInv'
<1>1. faults' \in Nat /\ unheard' \subseteq Calls /\ blind' \in BOOLEAN
  BY FaultStep, FailureStep DEF BarrierHoldsUnarmed, IInv, TypeOK
<1> QED BY <1>1, HoldUnarmedStep DEF BarrierHoldsUnarmed

\* A check that lost its CAS just ends.
LEMMA LoseCasStep ==
  ASSUME IInv, NEW w \in Workers, LoseCas(w)
  PROVE  IInv'
BY HandlerFinishes, QueueFacts DEF LoseCas, IInv, TypeOK, CallsInv, queue

\* The step that is published is the one after the turn the handler has seen.
LEMMA PublishResumeStep ==
  ASSUME IInv, NEW w \in Workers, PublishResume(w)
  PROVE  IInv'
<1> USE DEF IInv
<1> DEFINE s == seen[w].stepCount
<1>1. s \in Turns /\ s <= parent.stepCount
  BY BoundsAssumption DEF PublishResume, HandlerInv, Parked, Turns
<1>2. /\ published' = [published EXCEPT ![s] = published[s] + 1]
      /\ due' = [due EXCEPT ![s] = due[s] + 1] /\ Finish(w)
      /\ UNCHANGED <<parent, row, messages, callbacks, verifies, history>>
  BY DEF PublishResume
<1> HIDE DEF s
<1>3. /\ published' \in [Turns -> Nat] /\ due' \in [Turns -> Nat]
      /\ \A i \in Turns : i # s => published'[i] = published[i] /\ due'[i] = due[i]
      /\ published'[s] > 0
  BY <1>1, <1>2 DEF TypeOK
<1> QED BY <1>1, <1>2, <1>3, HandlerFinishes, QueueFacts DEF TypeOK, CallsInv

\* A failed delivery is due again, for a call that was made.
LEMMA RedeliveredStep ==
  ASSUME IInv, NEW w \in Workers, Redelivered(w), faults' \in Nat,
         UNCHANGED <<unheard, blind>>
  PROVE  IInv'
<1> USE DEF IInv
<1>1. /\ callbacks' \in [Calls -> Nat]
      /\ \A c \in Calls : callbacks'[c] > 0 => c \in made
  BY TaskTypes DEF Redelivered, TypeOK, CallsInv
<1>2. verifies' \in [Attempts -> Nat]
  BY TaskTypes DEF Redelivered, TypeOK
<1>3. Finish(w) /\ UNCHANGED <<parent, row, messages, published, due>>
  BY DEF Redelivered
<1> QED BY <1>1, <1>2, <1>3, HandlerFinishes, QueueFacts DEF TypeOK

\* A handler may fail before its CAS and after it.
LEMMA FailureSteps ==
  ASSUME IInv, NEW w \in Workers, Throws(w) \/ PublishThrows(w)
  PROVE  IInv'
<1>1. faults' \in Nat /\ UNCHANGED <<unheard, blind>>
  BY FaultStep DEF Throws, PublishThrows, IInv
<1> QED BY <1>1, RedeliveredStep DEF Throws, PublishThrows

-----------------------------------------------------------------------------
\* The parent's turns.

\* A published step that was not executed is the next one, and runs alone.
LEMMA StartTurnStep ==
  ASSUME IInv, NEW w \in Workers, NEW i \in Turns, StartTurn(w, i)
  PROVE  IInv'
<1> USE DEF IInv
<1> DEFINE what == [kind |-> "step", turn |-> i]
<1>1. /\ due[i] > 0 /\ due' = [due EXCEPT ![i] = due[i] - 1]
      /\ \A v \in Workers : task[v] # what
      /\ parent.stepCount <= i
      /\ Goto(w, "turn") /\ task' = [task EXCEPT ![w] = what]
      /\ UNCHANGED <<parent, row, messages, callbacks, verifies, published, seen, history>>
  BY DEF StartTurn, Deliver, Unlocked, Take
<1>2. what \in Tasks /\ what.kind = "step" /\ what.turn = i
  BY TaskMade
<1>3. i = parent.stepCount /\ published[i] > 0
  BY <1>1, QueueFacts DEF TypeOK, ParentState, Turns
<1>4. ASSUME NEW v \in Workers PROVE stage[v] # "turn"
  <2> SUFFICES ASSUME stage[v] = "turn" PROVE FALSE
    OBVIOUS
  <2>1. task[v].kind = "step" /\ task[v].turn = i
    BY <1>3 DEF TurnInv, Turn
  <2>2. task[v] = what
    BY <2>1, TaskTypes DEF TypeOK
  <2> QED BY <1>1, <2>2
<1> HIDE DEF what
<1>5. due' \in [Turns -> Nat] /\ \A j \in Turns : due'[j] > 0 => due[j] > 0
  BY <1>1 DEF TypeOK
<1>6. /\ stage' \in [Workers -> Stages] /\ stage'[w] = "turn"
      /\ \A v \in Workers : v # w => stage'[v] = stage[v]
  BY <1>1, GotoStep DEF Stages
<1>7. /\ task' \in [Workers -> Tasks \cup {NoTask}] /\ task'[w] = what
      /\ \A v \in Workers : v # w => task'[v] = task[v]
  BY <1>1, <1>2 DEF TypeOK
<1>8. TypeOK'
  BY <1>1, <1>5, <1>6, <1>7 DEF TypeOK, messages
<1>9. CallsInv'
  BY <1>1, <1>2, <1>7 DEF CallsInv, messages
<1>10. PublishedInv'
  BY <1>1, <1>5 DEF PublishedInv
<1>11. TurnInv'
  BY <1>1, <1>2, <1>3, <1>4, <1>6, <1>7 DEF TurnInv, Turn
<1>12. ASSUME NEW v \in Workers PROVE HandlerInv(v)'
  <2>1. CASE v = w
    BY <1>6, <2>1 DEF HandlerInv
  <2>2. CASE v # w
    BY <1>1, <1>6, <1>7, <2>2, HandlerStays DEF Stays, messages
  <2> QED BY <2>1, <2>2
<1>13. parent'.status = "waiting_for_async_tool" => Parked(parent)'
  BY <1>1 DEF Parked, CallsOf, messages
<1> QED BY <1>8, <1>9, <1>10, <1>11, <1>12, <1>13

\* A call of the turn that runs is none of a turn that a parked state waits for.
LEMMA StartChildStep ==
  ASSUME IInv, NEW w \in Workers, NEW t \in Tools, StartChild(w, t)
  PROVE  IInv'
<1> USE DEF IInv
<1> DEFINE i == Turn(w)
<1>1. /\ i = parent.stepCount /\ i \in Turns /\ i < MaxTurn
      /\ made' = made \cup {<<i, t>>} /\ children' = children \cup {<<i, t>>}
      /\ UNCHANGED <<parent, row, filled, queue, stage, task, seen, history>>
  BY TaskTypes DEF StartChild, TurnInv, TypeOK, Turn
<1>2. <<i, t>> \in Calls /\ <<i, t>>[1] = i
  BY <1>1 DEF Calls
<1> HIDE DEF i
<1>3. TypeOK'
  BY <1>1, <1>2 DEF TypeOK, queue
<1>4. CallsInv'
  BY <1>1, <1>2 DEF CallsInv, queue
<1>5. PublishedInv'
  BY <1>1 DEF PublishedInv, queue
<1>6. TurnInv'
  BY <1>1 DEF TurnInv, Turn, queue
<1>7. ASSUME NEW s \in 1 .. MaxTurn, s <= parent.stepCount
      PROVE  CallsOf(s - 1)' = CallsOf(s - 1)
  <2>1. s - 1 # i
    BY <1>1, <1>7 DEF TypeOK, ParentState
  <2> QED BY <1>1, <2>1 DEF CallsOf
<1>8. ASSUME NEW v \in Workers PROVE HandlerInv(v)'
  BY <1>1, <1>7 DEF HandlerInv, Parked, Awaited, AwaitedBy, queue
<1>9. parent'.status = "waiting_for_async_tool" => Parked(parent)'
  BY <1>1, <1>7 DEF Parked, TypeOK, ParentState, queue
<1> QED BY <1>3, <1>4, <1>5, <1>6, <1>8, <1>9

\* The saved state names the calls of the turn that ends, which makes no more.
LEMMA SaveTurnStep ==
  ASSUME IInv, NEW w \in Workers, stage[w] = "turn",
         NEW status \in {"waiting_for_async_tool", "done"},
         NEW pending \in SUBSET Tools,
         status = "waiting_for_async_tool" =>
           pending = CallsOf(Turn(w)) /\ pending # {},
         SaveTurn(w, status, pending)
  PROVE  IInv'
<1> USE DEF IInv
<1> DEFINE i == Turn(w)
           result == [status    |-> IF parent.status = "interrupted" THEN "interrupted"
                                                                     ELSE status,
                      stepCount |-> i + 1,
                      pending   |-> pending]
<1>1. /\ i = parent.stepCount /\ i \in Turns /\ published[i] > 0
      /\ \A v \in Workers : stage[v] = "turn" => v = w
  BY TaskTypes DEF TurnInv, TypeOK, Turn
<1>2. /\ parent' = result /\ seen' = [seen EXCEPT ![w] = result] /\ Goto(w, "row")
      /\ UNCHANGED <<row, messages, queue, task, history>>
  BY DEF SaveTurn
<1>3. /\ result \in ParentState /\ result.stepCount = i + 1 /\ result.pending = pending
      /\ result.status = "waiting_for_async_tool" => status = "waiting_for_async_tool"
  BY <1>1, BoundsAssumption DEF ParentState, Status, Terminal, Turns
<1>4. i \in Nat
  BY <1>1 DEF Turns
<1> HIDE DEF i, result
<1>5. /\ stage' \in [Workers -> Stages] /\ stage'[w] = "row"
      /\ \A v \in Workers : v # w => stage'[v] = stage[v]
  BY <1>2, GotoStep DEF Stages
<1>6. /\ seen' \in [Workers -> ParentState]
      /\ \A v \in Workers : v # w => seen'[v] = seen[v]
  BY <1>2, <1>3 DEF TypeOK
<1>7. TypeOK'
  BY <1>2, <1>3, <1>5, <1>6 DEF TypeOK, messages, queue
<1>8. CallsInv'
  BY <1>2 DEF CallsInv, messages, queue
<1>9. PublishedInv'
  BY <1>1, <1>2, <1>3, <1>4 DEF PublishedInv, Turns, queue
<1>10. TurnInv'
  BY <1>1, <1>5 DEF TurnInv
<1>11. ASSUME NEW v \in Workers PROVE HandlerInv(v)'
  <2>1. CASE v = w
    BY <1>5, <2>1 DEF HandlerInv
  <2>2. CASE v # w
    BY <1>1, <1>2, <1>3, <1>4, <1>5, <1>6, <2>2
       DEF HandlerInv, Parked, CallsOf, Awaited, AwaitedBy, messages, queue
  <2> QED BY <2>1, <2>2
<1>12. parent'.status = "waiting_for_async_tool" => Parked(parent)'
  <2> SUFFICES ASSUME parent'.status = "waiting_for_async_tool" PROVE Parked(parent)'
    OBVIOUS
  <2>1. pending = CallsOf(i) /\ pending # {}
    BY <1>2, <1>3 DEF i
  <2>2. PICK t \in Tools : <<i, t>> \in made
    BY <2>1 DEF CallsOf
  <2>3. i < MaxTurn
    BY <2>2 DEF CallsInv
  <2>4. parent'.stepCount = i + 1 /\ parent'.stepCount - 1 = i
        /\ parent'.stepCount \in 1 .. MaxTurn
    BY <1>2, <1>3, <1>4, <2>3, BoundsAssumption
  <2> QED BY <1>1, <1>2, <1>3, <2>1, <2>4 DEF Parked, CallsOf, messages, queue
<1> QED BY <1>7, <1>8, <1>9, <1>10, <1>11, <1>12

\* A turn with calls parks, one without ends.
LEMMA EndOfTurnStep ==
  ASSUME IInv, NEW w \in Workers, ParkTurn(w) \/ EndTurn(w)
  PROVE  IInv'
<1>1. CASE ParkTurn(w)
  BY <1>1, SaveTurnStep DEF ParkTurn, CallsOf
<1>2. CASE EndTurn(w)
  BY <1>2, SaveTurnStep DEF EndTurn
<1> QED BY <1>1, <1>2

\* An interrupted operation is parked no longer.
LEMMA InterruptStep ==
  ASSUME IInv, Interrupt
  PROVE  IInv'
<1> USE DEF IInv
<1>1. /\ parent' \in ParentState /\ parent'.stepCount = parent.stepCount
      /\ parent'.status = "interrupted"
      /\ UNCHANGED <<row, messages, queue, stage, task, seen, history>>
  BY DEF Interrupt, TypeOK, ParentState, Status, Terminal
<1>2. TypeOK' /\ CallsInv' /\ PublishedInv' /\ TurnInv'
  BY <1>1 DEF TypeOK, CallsInv, PublishedInv, TurnInv, Turn, messages, queue
<1>3. ASSUME NEW v \in Workers PROVE HandlerInv(v)'
  BY <1>1 DEF HandlerInv, Parked, CallsOf, Awaited, AwaitedBy, messages, queue
<1> QED BY <1>1, <1>2, <1>3

\* A stuttering step changes nothing the invariant speaks of.
LEMMA StutterStep ==
  ASSUME IInv, UNCHANGED vars
  PROVE  IInv'
BY DEF IInv, TypeOK, CallsInv, PublishedInv, TurnInv, Turn, HandlerInv, Parked, CallsOf,
       Awaited, AwaitedBy, vars

\* The invariant is inductive.
LEMMA NextInv == IInv /\ [Next]_vars => IInv'
<1> SUFFICES ASSUME IInv, [Next]_vars PROVE IInv'
  OBVIOUS
<1>1. CASE UNCHANGED vars
  BY <1>1, StutterStep
<1>2. ASSUME NEW w \in Workers, TurnStep(w) PROVE IInv'
  BY <1>2, StartTurnStep, StartChildStep, EndOfTurnStep, WriteRowStep DEF TurnStep
<1>3. ASSUME NEW w \in Workers, Resume(w) PROVE IInv'
  BY <1>3, BackfillStep, LoadParkedStep, LoadNotParkedStep, BarrierOpensStep,
     BarrierHoldsStep, BarrierHoldsUnarmedStep, WinCasStep, LoseCasStep,
     PublishResumeStep DEF Resume
<1>4. ASSUME NEW w \in Workers, TakeMessage(w) PROVE IInv'
  BY <1>4, TakeCallbackStep, TakeVerifyStep DEF TakeMessage
<1>5. ASSUME NEW w \in Workers, Throws(w) \/ PublishThrows(w) PROVE IInv'
  BY <1>5, FailureSteps
<1>6. ASSUME NEW c \in Calls, ChildEnds(c) \/ ChildEndsUnheard(c)
             \/ DuplicateCallback(c) PROVE IInv'
  BY <1>6, ChildEndsStep, ChildEndsUnheardStep, DuplicateCallbackStep
<1>7. ASSUME NEW i \in Turns, SkipTurn(i) PROVE IInv'
  BY <1>7, SkipTurnStep
<1>8. CASE Interrupt
  BY <1>8, InterruptStep
<1> QED BY <1>1, <1>2, <1>3, <1>4, <1>5, <1>6, <1>7, <1>8 DEF Next

-----------------------------------------------------------------------------
\* The invariant holds of the pipeline with any workers, tools, turns, attempts
\* and faults (parking, callbacks, verifies and tryResumeParentFromAsyncTool as
\* AsyncToolResume has them).
THEOREM InvariantTheorem == Spec => []IInv
<1>1. Init => IInv
  BY InitInv
<1>2. IInv /\ [Next]_vars => IInv'
  BY NextInv
<1> QED BY <1>1, <1>2, PTL DEF Spec

\* Every reachable state is well typed: no delivery is counted below zero, and a
\* step count does not run past the last turn.
THEOREM TypeCorrect == Spec => []TypeOK
<1>1. IInv => TypeOK
  BY DEF IInv
<1> QED BY <1>1, InvariantTheorem, PTL

-----------------------------------------------------------------------------
\* A single park.  The right to publish turn 1 is a token: the due message of
\* turn 0, the worker that runs it or has still to write its row, the row that
\* says parked, the winner of the CAS, and the published message hold it in
\* turn.  With more parks than one it is not: a check that has loaded an earlier
\* park may win the CAS of a later one.

RunsFirst(w) == stage[w] \in {"turn", "row"} /\ task[w] = [kind |-> "step", turn |-> 0]

TokenInv ==
  /\ published[0] = 1 /\ published[1] <= 1 /\ due[0] <= 1
  /\ due[0] > 0 => published[1] = 0 /\ row # "waiting_for_async_tool"
  /\ row = "waiting_for_async_tool" => published[1] = 0
  /\ \A w \in Workers :
       /\ RunsFirst(w) \/ stage[w] = "publish" =>
            /\ due[0] = 0 /\ published[1] = 0 /\ row # "waiting_for_async_tool"
            /\ \A v \in Workers : RunsFirst(v) \/ stage[v] = "publish" => v = w
       /\ stage[w] = "row" /\ seen[w].status = "waiting_for_async_tool" => RunsFirst(w)

\* The numbers of the only two turns.
LEMMA TwoTurns ==
  ASSUME MaxTurn = 1
  PROVE  Turns = {0, 1}
BY DEF Turns

\* A step that hands the token to nobody at most drops it.
LEMMA NobodyNew ==
  ASSUME MaxTurn = 1, IInv, TokenInv,
         due'[0] <= due[0], UNCHANGED published, due' \in [Turns -> Nat],
         row' = "waiting_for_async_tool" => row = "waiting_for_async_tool",
         \A v \in Workers :
           /\ RunsFirst(v)' => RunsFirst(v)
           /\ stage'[v] = "publish" => stage[v] = "publish"
           /\ stage'[v] = "row" /\ seen'[v].status = "waiting_for_async_tool" =>
                RunsFirst(v)'
  PROVE  TokenInv'
<1>1. due[0] \in Nat /\ due'[0] \in Nat /\ published[1] \in Nat
  BY TwoTurns DEF IInv, TypeOK
<1>2. \A w \in Workers : RunsFirst(w)' \/ stage'[w] = "publish" =>
                           RunsFirst(w) \/ stage[w] = "publish"
  OBVIOUS
<1> QED BY <1>1, <1>2 DEF TokenInv

\* A handler that finishes, or whose stage is none of the token's, holds nothing.
LEMMA HandlersLeave ==
  ASSUME MaxTurn = 1, IInv, TokenInv, NEW w \in Workers, UNCHANGED <<published, due>>,
         row' = "waiting_for_async_tool" => row = "waiting_for_async_tool",
         stage'[w] \notin {"turn", "row", "publish"},
         \A v \in Workers : v # w => Stays(v)
  PROVE  TokenInv'
<1>1. \A v \in Workers : v # w => (RunsFirst(v)' <=> RunsFirst(v))
  BY DEF RunsFirst, Stays
<1>2. ~RunsFirst(w)'
  BY DEF RunsFirst
<1>3. \A v \in Workers :
           /\ RunsFirst(v)' => RunsFirst(v)
           /\ stage'[v] = "publish" => stage[v] = "publish"
           /\ stage'[v] = "row" /\ seen'[v].status = "waiting_for_async_tool" =>
                RunsFirst(v)'
  BY <1>1, <1>2 DEF TokenInv, Stays
<1>4. due' \in [Turns -> Nat] /\ due'[0] <= due[0]
  BY TwoTurns DEF IInv, TypeOK
<1> QED BY <1>3, <1>4, NobodyNew

\* The steps that do not touch the handlers, and spend at most a message.
LEMMA HandlersStay ==
  ASSUME MaxTurn = 1, IInv, TokenInv, UNCHANGED <<published, stage, task, seen>>,
         due'[0] <= due[0], due' \in [Turns -> Nat],
         row' = "waiting_for_async_tool" => row = "waiting_for_async_tool"
  PROVE  TokenInv'
<1>1. \A v \in Workers :
           /\ RunsFirst(v)' => RunsFirst(v)
           /\ stage'[v] = "publish" => stage[v] = "publish"
           /\ stage'[v] = "row" /\ seen'[v].status = "waiting_for_async_tool" =>
                RunsFirst(v)'
  BY DEF TokenInv, RunsFirst
<1> QED BY <1>1, NobodyNew

\* The first turn's message becomes its worker.
LEMMA StartTurnToken ==
  ASSUME MaxTurn = 1, IInv, TokenInv, NEW w \in Workers, NEW i \in Turns, StartTurn(w, i)
  PROVE  TokenInv'
<1> DEFINE what == [kind |-> "step", turn |-> i]
<1>1. /\ due[i] > 0 /\ due' = [due EXCEPT ![i] = due[i] - 1]
      /\ stage' = [stage EXCEPT ![w] = "turn"] /\ task' = [task EXCEPT ![w] = what]
      /\ UNCHANGED <<row, published, seen>>
  BY DEF StartTurn, Deliver, Take, Goto
<1>2. /\ stage'[w] = "turn" /\ task'[w] = what
      /\ \A v \in Workers : v # w => Stays(v)
  BY <1>1 DEF IInv, TypeOK, Stays
<1>3. due' \in [Turns -> Nat] /\ due'[i] = due[i] - 1 /\ \A j \in Turns : j # i => due'[j] = due[j]
  BY <1>1 DEF IInv, TypeOK
<1>4. \A v \in Workers : v # w => (RunsFirst(v)' <=> RunsFirst(v))
  BY <1>2 DEF RunsFirst, Stays
<1>5. CASE i = 0
  <2>1. due[0] = 1 /\ due'[0] = 0 /\ published[1] \in Nat
    BY <1>1, <1>3, <1>5, TwoTurns DEF TokenInv, IInv, TypeOK
  <2>2. \A v \in Workers : ~RunsFirst(v) /\ stage[v] # "publish"
    BY <2>1 DEF TokenInv
  <2>3. RunsFirst(w)'
    BY <1>2, <1>5 DEF RunsFirst
  <2> QED BY <1>1, <1>2, <1>4, <2>1, <2>2, <2>3 DEF TokenInv, Stays
<1>6. CASE i = 1
  <2>1. ~RunsFirst(w)'
    BY <1>2, <1>6 DEF RunsFirst
  <2>2. due'[0] = due[0] /\ due[0] \in Nat
    BY <1>3, <1>6, TwoTurns DEF IInv, TypeOK
  <2>3. \A v \in Workers :
           /\ RunsFirst(v)' => RunsFirst(v)
           /\ stage'[v] = "publish" => stage[v] = "publish"
           /\ stage'[v] = "row" /\ seen'[v].status = "waiting_for_async_tool" =>
                RunsFirst(v)'
    BY <1>2, <1>4, <2>1 DEF TokenInv, Stays
  <2> QED BY <1>1, <1>3, <2>2, <2>3, NobodyNew
<1> QED BY <1>5, <1>6, TwoTurns

\* Only the first turn parks, for the last one makes no calls.
LEMMA SaveTurnToken ==
  ASSUME MaxTurn = 1, IInv, TokenInv, NEW w \in Workers, stage[w] = "turn",
         NEW status, NEW pending, SaveTurn(w, status, pending),
         status = "waiting_for_async_tool" => CallsOf(Turn(w)) # {}
  PROVE  TokenInv'
<1>1. /\ stage' = [stage EXCEPT ![w] = "row"]
      /\ UNCHANGED <<row, published, due, task>>
      /\ \E s : /\ seen' = [seen EXCEPT ![w] = s]
                /\ s.status = "waiting_for_async_tool" => status = "waiting_for_async_tool"
  <2> DEFINE s == [status    |-> IF parent.status = "interrupted" THEN "interrupted"
                                                                  ELSE status,
                   stepCount |-> Turn(w) + 1,
                   pending   |-> pending]
  <2>1. seen' = [seen EXCEPT ![w] = s]
    BY DEF SaveTurn
  <2>2. s.status = "waiting_for_async_tool" => status = "waiting_for_async_tool"
    OBVIOUS
  <2>3. stage' = [stage EXCEPT ![w] = "row"] /\ UNCHANGED <<row, published, due, task>>
    BY DEF SaveTurn, Goto, queue
  <2> HIDE DEF s
  <2> QED BY <2>1, <2>2, <2>3
<1>2. /\ stage'[w] = "row" /\ \A v \in Workers : v # w => Stays(v)
      /\ seen'[w].status = "waiting_for_async_tool" => status = "waiting_for_async_tool"
  BY <1>1 DEF IInv, TypeOK, Stays
<1>3. RunsFirst(w)' <=> RunsFirst(w)
  BY <1>1, <1>2 DEF RunsFirst
<1>4. \A v \in Workers : v # w => (RunsFirst(v)' <=> RunsFirst(v))
  BY <1>2 DEF RunsFirst, Stays
<1>5. ASSUME seen'[w].status = "waiting_for_async_tool" PROVE RunsFirst(w)
  <2>1. PICK t \in Tools : <<Turn(w), t>> \in made
    BY <1>2, <1>5 DEF CallsOf
  <2>2. task[w].kind = "step" /\ task[w].turn \in Turns
        /\ task[w] = [kind |-> "step", turn |-> task[w].turn]
    BY TaskTypes DEF IInv, TurnInv, TypeOK
  <2>3. task[w].turn < 1
    BY <2>1, MaxTurn = 1 DEF IInv, CallsInv, Turn
  <2>4. task[w].turn = 0
    BY <2>2, <2>3, TwoTurns
  <2> QED BY <2>2, <2>4 DEF RunsFirst
<1>6. \A v \in Workers :
           /\ RunsFirst(v)' => RunsFirst(v)
           /\ stage'[v] = "publish" => stage[v] = "publish"
           /\ stage'[v] = "row" /\ seen'[v].status = "waiting_for_async_tool" =>
                RunsFirst(v)'
  BY <1>2, <1>3, <1>4, <1>5 DEF TokenInv, Stays
<1>7. due' \in [Turns -> Nat] /\ due'[0] <= due[0]
  BY <1>1, TwoTurns DEF IInv, TypeOK
<1> QED BY <1>1, <1>6, <1>7, NobodyNew

\* The worker leaves the token in the row.
LEMMA WriteRowToken ==
  ASSUME MaxTurn = 1, IInv, TokenInv, NEW w \in Workers, WriteRow(w)
  PROVE  TokenInv'
<1>1. stage'[w] \notin {"turn", "row", "publish"} /\ \A v \in Workers : v # w => Stays(v)
  <2>1. CASE Finish(w)
    BY <2>1, FinishStep DEF IInv
  <2>2. CASE Goto(w, "load") /\ UNCHANGED <<task, seen>>
    BY <2>2 DEF Goto, IInv, TypeOK, Stays
  <2> QED BY <2>1, <2>2 DEF WriteRow
<1>2. stage[w] = "row" /\ UNCHANGED <<published, due>> /\ (row' = row
      \/ row' = seen[w].status)
  BY DEF WriteRow, queue
<1>3. CASE row' = "waiting_for_async_tool" /\ row # "waiting_for_async_tool"
  <2>1. RunsFirst(w)
    BY <1>2, <1>3 DEF TokenInv
  <2>2. /\ due[0] = 0 /\ published[1] = 0
        /\ \A v \in Workers : RunsFirst(v) \/ stage[v] = "publish" => v = w
    BY <2>1 DEF TokenInv
  <2>3. \A v \in Workers : ~RunsFirst(v)' /\ stage'[v] # "publish"
    BY <1>1, <2>2 DEF RunsFirst, Stays
  <2>4. \A v \in Workers :
          ~(stage'[v] = "row" /\ seen'[v].status = "waiting_for_async_tool")
    BY <1>1, <2>2 DEF TokenInv, Stays
  <2> QED BY <1>2, <2>2, <2>3, <2>4 DEF TokenInv
<1>4. CASE ~(row' = "waiting_for_async_tool" /\ row # "waiting_for_async_tool")
  BY <1>1, <1>2, <1>4, HandlersLeave
<1> QED BY <1>3, <1>4

\* The CAS takes it from there.
LEMMA WinCasToken ==
  ASSUME MaxTurn = 1, IInv, TokenInv, NEW w \in Workers, WinCas(w)
  PROVE  TokenInv'
<1>1. /\ row = "waiting_for_async_tool" /\ row' = "running" /\ stage[w] = "cas"
      /\ stage'[w] = "publish" /\ \A v \in Workers : v # w => Stays(v)
      /\ UNCHANGED <<published, due>>
  BY DEF WinCas, Goto, IInv, TypeOK, Stays, queue
<1>2. due[0] = 0 /\ published[1] = 0 /\ \A v \in Workers : ~RunsFirst(v) /\ stage[v] # "publish"
  BY <1>1, TwoTurns DEF TokenInv, IInv, TypeOK
<1>3. \A v \in Workers : ~RunsFirst(v)'
  BY <1>1, <1>2 DEF RunsFirst, Stays
<1> QED BY <1>1, <1>2, <1>3 DEF TokenInv, Stays

\* The winner publishes turn 1, for there is no other park to have seen.
LEMMA PublishResumeToken ==
  ASSUME MaxTurn = 1, IInv, TokenInv, NEW w \in Workers, PublishResume(w)
  PROVE  TokenInv'
<1>1. stage[w] = "publish" /\ seen[w].stepCount = 1
  BY MaxTurn = 1 DEF PublishResume, IInv, HandlerInv, Parked
<1>2. /\ published' = [published EXCEPT ![1] = published[1] + 1]
      /\ due' = [due EXCEPT ![1] = due[1] + 1] /\ Finish(w) /\ UNCHANGED row
  BY <1>1 DEF PublishResume
<1>3. published'[0] = published[0] /\ published'[1] = published[1] + 1 /\ due'[0] = due[0]
  BY <1>2, TwoTurns DEF IInv, TypeOK
<1>4. stage'[w] = "idle" /\ \A v \in Workers : v # w => Stays(v)
  BY <1>2, FinishStep DEF IInv
<1>5. /\ due[0] = 0 /\ published[1] = 0 /\ row # "waiting_for_async_tool"
      /\ \A v \in Workers : RunsFirst(v) \/ stage[v] = "publish" => v = w
  BY <1>1 DEF TokenInv
<1>6. \A v \in Workers : ~RunsFirst(v)' /\ stage'[v] # "publish"
  BY <1>4, <1>5 DEF RunsFirst, Stays
<1>7. \A v \in Workers :
        stage'[v] = "row" /\ seen'[v].status = "waiting_for_async_tool" => RunsFirst(v)'
  <2> SUFFICES ASSUME NEW v \in Workers, stage'[v] = "row",
                      seen'[v].status = "waiting_for_async_tool"
               PROVE  FALSE
    OBVIOUS
  <2>1. v # w /\ RunsFirst(v)
    BY <1>4 DEF TokenInv, Stays
  <2> QED BY <1>5, <2>1
<1> QED BY <1>2, <1>3, <1>5, <1>6, <1>7 DEF TokenInv

\* The other stages of a check hold no token.
LEMMA CheckToken ==
  ASSUME MaxTurn = 1, IInv, TokenInv, NEW w \in Workers,
         \/ Backfill(w) \/ LoadParked(w) \/ LoadNotParked(w) \/ BarrierOpens(w)
         \/ BarrierHolds(w) \/ BarrierHoldsUnarmed(w) \/ LoseCas(w) \/ Throws(w)
            \/ PublishThrows(w)
  PROVE  TokenInv'
<1>1. CASE Backfill(w) \/ LoadParked(w) \/ BarrierOpens(w)
  <2>1. /\ stage'[w] \in {"load", "barrier", "cas"} /\ \A v \in Workers : v # w => Stays(v)
        /\ UNCHANGED <<row, published, due>>
    BY <1>1 DEF Backfill, LoadParked, BarrierOpens, Goto, IInv, TypeOK, Stays, queue
  <2> QED BY <2>1, HandlersLeave
<1>2. CASE LoadNotParked(w) \/ BarrierHolds(w) \/ BarrierHoldsUnarmed(w) \/ LoseCas(w)
           \/ Throws(w) \/ PublishThrows(w)
  <2>1. Finish(w) /\ UNCHANGED <<row, published, due>>
    BY <1>2 DEF LoadNotParked, BarrierHolds, BarrierHoldsUnarmed, HoldUnarmed, LoseCas,
         Throws, PublishThrows, Hold,
                Redelivered, queue
  <2>2. stage'[w] = "idle" /\ \A v \in Workers : v # w => Stays(v)
    BY <2>1, FinishStep DEF IInv
  <2> QED BY <2>1, <2>2, HandlersLeave
<1> QED BY <1>1, <1>2

\* Neither does a message that is taken up.
LEMMA TakeMessageToken ==
  ASSUME MaxTurn = 1, IInv, TokenInv, NEW w \in Workers, TakeMessage(w)
  PROVE  TokenInv'
<1>1. /\ UNCHANGED <<row, published, due>>
      /\ \E what : Take(w, "backfill", what) \/ Take(w, "load", what)
      /\ UNCHANGED seen
  BY DEF TakeMessage, TakeCallback, TakeVerify
<1>2. /\ stage'[w] \in {"backfill", "load"} /\ \A v \in Workers : v # w => Stays(v)
  BY <1>1 DEF Take, Goto, IInv, TypeOK, Stays
<1> QED BY <1>1, <1>2, HandlersLeave

\* A late delivery writes the end of an ended operation, never a park.
LEMMA SkipTurnToken ==
  ASSUME MaxTurn = 1, IInv, TokenInv, NEW i \in Turns, SkipTurn(i)
  PROVE  TokenInv'
<1>1. /\ due' = [due EXCEPT ![i] = due[i] - 1] /\ due[i] > 0
      /\ row' = "waiting_for_async_tool" => row = "waiting_for_async_tool"
      /\ UNCHANGED <<published, stage, task, seen>>
  BY DEF SkipTurn, Deliver, Terminal
<1>2. due' \in [Turns -> Nat] /\ due'[0] <= due[0]
  BY <1>1, TwoTurns DEF IInv, TypeOK
<1> QED BY <1>1, <1>2, HandlersStay

\* The token is never doubled.
LEMMA TokenNext ==
  ASSUME MaxTurn = 1, IInv, TokenInv, [Next]_vars
  PROVE  TokenInv'
<1>1. due \in [Turns -> Nat] /\ due[0] \in Nat
  BY TwoTurns DEF IInv, TypeOK
<1>2. CASE UNCHANGED vars
  BY <1>1, <1>2, HandlersStay DEF vars
<1>3. ASSUME NEW w \in Workers, TurnStep(w) PROVE TokenInv'
  <2>1. ASSUME NEW t \in Tools, StartChild(w, t) PROVE TokenInv'
    BY <1>1, <2>1, HandlersStay DEF StartChild, queue
  <2>2. CASE ParkTurn(w) \/ EndTurn(w)
    BY <2>2, SaveTurnToken DEF ParkTurn, EndTurn
  <2> QED BY <1>3, <2>1, <2>2, StartTurnToken, WriteRowToken DEF TurnStep
<1>4. ASSUME NEW w \in Workers, Resume(w) PROVE TokenInv'
  BY <1>4, CheckToken, WinCasToken, PublishResumeToken DEF Resume
<1>5. ASSUME NEW w \in Workers, TakeMessage(w) \/ Throws(w) \/ PublishThrows(w)
      PROVE  TokenInv'
  BY <1>5, TakeMessageToken, CheckToken
<1>6. ASSUME NEW c \in Calls, ChildEnds(c) \/ ChildEndsUnheard(c)
             \/ DuplicateCallback(c) PROVE TokenInv'
  BY <1>1, <1>6, HandlersStay DEF ChildEnds, ChildEndsUnheard, DuplicateCallback, queue
<1>7. ASSUME NEW i \in Turns, SkipTurn(i) PROVE TokenInv'
  BY <1>7, SkipTurnToken
<1>8. CASE Interrupt
  BY <1>1, <1>8, HandlersStay DEF Interrupt, queue
<1> QED BY <1>2, <1>3, <1>4, <1>5, <1>6, <1>7, <1>8 DEF Next

\* One park is resumed by one message, for any workers, tools, attempts and
\* faults: however many callbacks, verifies and self-checks find the barrier open,
\* and whichever of them fail, are repeated or read a lagging replica
\* (tryResumeParentFromAsyncTool's CAS on agent_operations).
THEOREM SingleResumeTheorem ==
  ASSUME MaxTurn = 1
  PROVE  Spec => []SingleResume
<1>1. Init => TokenInv
  BY TwoTurns DEF Init, TokenInv, RunsFirst, Start
<1>2. IInv /\ TokenInv /\ [Next]_vars => TokenInv'
  BY TokenNext
<1>3. TokenInv => SingleResume
  BY TwoTurns DEF TokenInv, SingleResume
<1> QED BY <1>1, <1>2, <1>3, InvariantTheorem, PTL DEF Spec

-----------------------------------------------------------------------------
\* No lost wake-up.  While the operation is parked and all its results are in,
\* some check is good: it will find the barrier open unless its replica lags, and
\* then it has still a verify to arm, because a chain of verifies that began when
\* the results were in has had a fault for each of its attempts.  The checks that
\* held before, for a result that was missing, are not relied on.

GoodAttempt(w) == task[w].kind = "verify" => task[w].attempt <= faults

Good(w) ==
  /\ GoodAttempt(w)
  /\ \/ stage[w] \in {"row", "barrier"} /\ seen[w].status = "waiting_for_async_tool"
     \/ stage[w] \in {"backfill", "load", "cas"}
  /\ stage[w] = "barrier" => Awaited(w) \subseteq filled
  /\ stage[w] = "backfill" => task[w].kind = "callback"

GoodDue ==
  \/ \E c \in Calls : callbacks[c] > 0
  \/ \E a \in Attempts : verifies[a] > 0 /\ a <= faults

Awake == GoodDue \/ \E w \in Workers : Good(w)

AllIn ==
  /\ parent.status = "waiting_for_async_tool" /\ row = "waiting_for_async_tool"
  /\ AwaitedBy(parent) \subseteq filled

\* A handler has a message, and it is a step's that writes the row.
KindInv ==
  \A w \in Workers :
    /\ stage[w] # "idle" => task[w].kind # "none"
    /\ stage[w] = "row" => task[w].kind = "step"

Arriving == \A c \in made : c \in filled \/ WillArrive(c) \/ c \in unheard

Watched == AllIn => Awake \/ blind

WakeInv == faults <= MaxFaults /\ KindInv /\ Arriving /\ Watched

\* What the watchdog needs: the self-check of the parking step, which arms no
\* verify, reads its own writes, and there are as many attempts as faults.
WatchdogAssumption == "selfLag" \notin Faults /\ MaxFaults <= MaxAttempts

\* A fault is within the bound.
LEMMA FaultBound ==
  ASSUME IInv, NEW kind, Failure(kind) \/ Fault(kind)
  PROVE  faults' = faults + 1 /\ faults' <= MaxFaults /\ faults <= faults'
BY BoundsAssumption DEF IInv, TypeOK, Fault, Failure

\* A handler that does not move stays good.
LEMMA GoodStays ==
  ASSUME IInv, NEW v \in Workers, Stays(v), Good(v), filled \subseteq filled',
         faults' \in Nat, faults <= faults'
  PROVE  Good(v)'
<1>1. task[v].kind = "verify" => task[v].attempt \in Nat
  BY TaskTypes DEF IInv, TypeOK, Attempts
<1>2. GoodAttempt(v)'
  BY <1>1 DEF Good, GoodAttempt, Stays, IInv, TypeOK
<1>3. stage'[v] = "barrier" => Awaited(v)' \subseteq filled'
  BY DEF Good, Awaited, AwaitedBy, Stays
<1> QED BY <1>2, <1>3 DEF Good, Stays

\* A step that leaves the park alone wakes as many as it puts to rest.
LEMMA WakersStay ==
  ASSUME IInv, WakeInv, UNCHANGED <<parent, filled>>,
         row' = "waiting_for_async_tool" => row = "waiting_for_async_tool",
         faults' \in Nat, faults <= faults', blind => blind',
         \A v \in Workers : Stays(v) \/ (Good(v) => Awake' \/ blind'),
         \A c \in Calls : callbacks[c] > 0 => callbacks'[c] > 0 \/ Awake',
         \A a \in Attempts : verifies[a] > 0 /\ a <= faults => verifies'[a] > 0 \/ Awake'
  PROVE  Watched'
<1> SUFFICES ASSUME AllIn', ~blind' PROVE Awake'
  BY DEF Watched
<1>1. AllIn
  BY DEF AllIn, AwaitedBy
<1>2. CASE \E w \in Workers : Good(w)
  <2>1. PICK v \in Workers : Good(v)
    BY <1>2
  <2> QED BY <2>1, GoodStays DEF Awake
<1>3. CASE GoodDue
  <2>1. CASE \E c \in Calls : callbacks[c] > 0
    BY <2>1 DEF Awake, GoodDue
  <2>2. CASE \E a \in Attempts : verifies[a] > 0 /\ a <= faults
    <3>1. PICK a \in Attempts : verifies[a] > 0 /\ a <= faults
      BY <2>2
    <3>2. a <= faults'
      BY <3>1 DEF Attempts, IInv, TypeOK
    <3> QED BY <3>1, <3>2 DEF Awake, GoodDue
  <2> QED BY <1>3, <2>1, <2>2 DEF GoodDue
<1> QED BY <1>1, <1>2, <1>3 DEF WakeInv, Watched, Awake

\* A result that is coming keeps coming while its child runs, its callback is due
\* or its handler stays.
LEMMA ArrivalsStay ==
  ASSUME IInv, WakeInv, UNCHANGED made, filled \subseteq filled', unheard \subseteq unheard',
         \A c \in Calls : c \in children =>
                            c \in children' \/ callbacks'[c] > 0 \/ c \in unheard',
         \A c \in Calls : callbacks[c] > 0 =>
                            callbacks'[c] > 0 \/ (c \in filled \/ WillArrive(c))',
         \A v \in Workers : stage[v] = "backfill" =>
                              Stays(v) \/ task[v].call \in filled'
                                       \/ callbacks'[task[v].call] > 0
  PROVE  Arriving'
<1> SUFFICES ASSUME NEW c \in made, c \notin filled', c \notin unheard'
             PROVE  WillArrive(c)'
  BY DEF Arriving
<1>1. c \in Calls /\ WillArrive(c)
  BY DEF IInv, TypeOK, WakeInv, Arriving
<1>2. CASE \E w \in Workers : stage[w] = "backfill" /\ task[w].call = c
  BY <1>2 DEF WillArrive, Stays
<1> QED BY <1>1, <1>2 DEF WillArrive

\* The handlers that did not move have their messages still.
LEMMA KindsStay ==
  ASSUME WakeInv, NEW w \in Workers, \A v \in Workers : v # w => Stays(v),
         stage'[w] # "idle" => task'[w].kind # "none",
         stage'[w] = "row" => task'[w].kind = "step"
  PROVE  KindInv'
BY DEF WakeInv, KindInv, Stays

\* The queue's and the children's steps.
LEMMA OutsideWakes ==
  ASSUME IInv, WakeInv,
         \/ \E c \in Calls : ChildEnds(c) \/ ChildEndsUnheard(c) \/ DuplicateCallback(c)
         \/ \E i \in Turns : SkipTurn(i)
         \/ Interrupt
  PROVE  WakeInv'
<1>1. ASSUME NEW c \in Calls, ChildEnds(c) \/ ChildEndsUnheard(c) \/ DuplicateCallback(c)
      PROVE  WakeInv'
  <2>1. /\ \/ callbacks' = [callbacks EXCEPT ![c] = callbacks[c] + 1]
           \/ UNCHANGED callbacks
        /\ UNCHANGED <<parent, row, made, filled, verifies, stage, task, seen>>
    BY <1>1 DEF ChildEnds, ChildEndsUnheard, DuplicateCallback, messages, queue
  <2>2. /\ faults' \in Nat /\ faults <= faults' /\ faults' <= MaxFaults
        /\ UNCHANGED blind /\ unheard \subseteq unheard'
    <3>1. CASE ChildEnds(c)
      BY <3>1 DEF ChildEnds, IInv, TypeOK, WakeInv
    <3>2. CASE ChildEndsUnheard(c)
      BY <3>2, FaultBound, FailureStep DEF ChildEndsUnheard, IInv
    <3>3. CASE DuplicateCallback(c)
      BY <3>3, FaultBound, FaultStep DEF DuplicateCallback, IInv
    <3> QED BY <1>1, <3>1, <3>2, <3>3
  <2>3. \A d \in Calls : callbacks[d] > 0 => callbacks'[d] > 0
    BY <2>1 DEF IInv, TypeOK
  <2>4. KindInv' /\ \A v \in Workers : Stays(v)
    BY <2>1 DEF WakeInv, KindInv, Stays
  <2>5. \A d \in Calls :
          d \in children => d \in children' \/ callbacks'[d] > 0 \/ d \in unheard'
    <3>1. CASE ChildEnds(c)
      BY <3>1 DEF ChildEnds, IInv, TypeOK
    <3>2. CASE ChildEndsUnheard(c)
      BY <3>2 DEF ChildEndsUnheard
    <3>3. CASE DuplicateCallback(c)
      BY <3>3 DEF DuplicateCallback, messages
    <3> QED BY <1>1, <3>1, <3>2, <3>3
  <2>6. Arriving'
    BY <2>1, <2>2, <2>3, <2>4, <2>5, ArrivalsStay
  <2>7. Watched'
    BY <2>1, <2>2, <2>3, <2>4, WakersStay
  <2> QED BY <2>2, <2>4, <2>6, <2>7 DEF WakeInv
<1>2. ASSUME NEW i \in Turns, SkipTurn(i)
      PROVE  WakeInv'
  <2>1. UNCHANGED <<parent, made, children, filled, callbacks, verifies, stage, task, seen,
                    history>>
    BY <1>2 DEF SkipTurn, messages
  <2>2. row' = row \/ row' # "waiting_for_async_tool"
    BY <1>2 DEF SkipTurn, Terminal
  <2>3. KindInv' /\ \A v \in Workers : Stays(v)
    BY <2>1 DEF WakeInv, KindInv, Stays
  <2>4. Arriving'
    BY <2>1, <2>3, ArrivalsStay
  <2>5. faults \in Nat
    BY DEF IInv, TypeOK
  <2>6. Watched'
    BY <2>1, <2>2, <2>3, <2>5, WakersStay
  <2> QED BY <2>1, <2>3, <2>4, <2>6 DEF WakeInv
<1>3. CASE Interrupt
  <2>1. /\ parent'.status = "interrupted"
        /\ UNCHANGED <<made, children, filled, callbacks, stage, task, seen, history>>
    BY <1>3 DEF Interrupt, messages, queue, IInv, TypeOK, ParentState
  <2>2. KindInv' /\ \A v \in Workers : Stays(v)
    BY <2>1 DEF WakeInv, KindInv, Stays
  <2>3. Arriving'
    BY <2>1, <2>2, ArrivalsStay
  <2> QED BY <2>1, <2>2, <2>3 DEF WakeInv, Watched, AllIn
<1> QED BY <1>1, <1>2, <1>3

\* A message that is taken up is in hand instead of due.
LEMMA TakeMessageWakes ==
  ASSUME IInv, WakeInv, NEW w \in Workers, TakeMessage(w)
  PROVE  WakeInv'
<1>1. ASSUME NEW c \in Calls, TakeCallback(w, c)
      PROVE  WakeInv'
  <2> DEFINE what == [kind |-> "callback", call |-> c]
  <2>1. /\ stage[w] = "idle" /\ callbacks' = [callbacks EXCEPT ![c] = callbacks[c] - 1]
        /\ Goto(w, "backfill") /\ task' = [task EXCEPT ![w] = what]
        /\ UNCHANGED <<parent, row, messages, verifies, seen, history>>
    BY <1>1 DEF TakeCallback, Take
  <2>2. what.kind = "callback" /\ what.call = c
    OBVIOUS
  <2> HIDE DEF what
  <2>3. /\ stage'[w] = "backfill" /\ task'[w] = what
        /\ \A v \in Workers : v # w => Stays(v)
    BY <2>1 DEF Goto, Stays, IInv, TypeOK
  <2>4. KindInv'
    BY <2>2, <2>3, KindsStay
  <2>5. \A d \in Calls : d # c => callbacks'[d] = callbacks[d]
    BY <2>1 DEF IInv, TypeOK
  <2>6. WillArrive(c)'
    BY <2>2, <2>3 DEF WillArrive
  <2>7. Arriving'
    BY <2>1, <2>3, <2>5, <2>6, ArrivalsStay DEF messages
  <2>8. Awake'
    BY <2>2, <2>3 DEF Awake, Good, GoodAttempt
  <2> QED BY <2>1, <2>4, <2>7, <2>8 DEF WakeInv, Watched
<1>2. ASSUME NEW a \in Attempts, TakeVerify(w, a)
      PROVE  WakeInv'
  <2> DEFINE what == [kind |-> "verify", attempt |-> a]
  <2>1. /\ stage[w] = "idle" /\ verifies' = [verifies EXCEPT ![a] = verifies[a] - 1]
        /\ Goto(w, "load") /\ task' = [task EXCEPT ![w] = what]
        /\ UNCHANGED <<parent, row, messages, callbacks, seen, history>>
    BY <1>2 DEF TakeVerify, Take
  <2>2. what.kind = "verify" /\ what.attempt = a
    OBVIOUS
  <2> HIDE DEF what
  <2>3. /\ stage'[w] = "load" /\ task'[w] = what
        /\ \A v \in Workers : v # w => Stays(v)
    BY <2>1 DEF Goto, Stays, IInv, TypeOK
  <2>4. KindInv'
    BY <2>2, <2>3, KindsStay
  <2>5. \A b \in Attempts : b # a => verifies'[b] = verifies[b]
    BY <2>1 DEF IInv, TypeOK
  <2>6. Arriving'
    BY <2>1, <2>3, ArrivalsStay DEF messages
  <2>7. a <= faults => Awake'
    BY <2>1, <2>2, <2>3 DEF Awake, Good, GoodAttempt
  <2>8. Good(w) => FALSE
    BY <2>1 DEF Good
  <2>9. faults \in Nat
    BY DEF IInv, TypeOK
  <2>10. Watched'
    BY <2>1, <2>3, <2>5, <2>7, <2>8, <2>9, WakersStay DEF messages
  <2> QED BY <2>1, <2>4, <2>6, <2>10 DEF WakeInv
<1> QED BY <1>1, <1>2 DEF TakeMessage

\* The handler that fills in a result will check itself.
LEMMA BackfillWakes ==
  ASSUME IInv, WakeInv, NEW w \in Workers, Backfill(w)
  PROVE  WakeInv'
<1>1. task[w].kind = "callback"
  BY DEF Backfill, IInv, HandlerInv
<1>2. /\ stage'[w] = "load" /\ filled' = filled \cup {task[w].call}
      /\ \A v \in Workers : v # w => Stays(v)
      /\ UNCHANGED <<made, children, callbacks, task, history>>
  BY DEF Backfill, Goto, Stays, IInv, TypeOK, queue
<1>3. KindInv'
  BY <1>1, <1>2, KindsStay
<1>4. Arriving'
  BY <1>2, ArrivalsStay
<1>5. Awake'
  BY <1>1, <1>2 DEF Awake, Good, GoodAttempt
<1> QED BY <1>2, <1>3, <1>4, <1>5 DEF WakeInv, Watched

\* A check of the park that is in goes on, and one of an earlier park does too.
LEMMA CheckGoesOnWakes ==
  ASSUME IInv, WakeInv, NEW w \in Workers, LoadParked(w) \/ BarrierOpens(w)
  PROVE  WakeInv'
<1>1. /\ stage'[w] \in {"barrier", "cas"} /\ stage[w] \in {"load", "barrier"}
      /\ \A v \in Workers : v # w => Stays(v)
      /\ UNCHANGED <<parent, row, made, children, filled, callbacks, verifies, task, history>>
  BY DEF LoadParked, BarrierOpens, Goto, Stays, IInv, TypeOK, messages, queue
<1>2. KindInv'
  BY <1>1, KindsStay DEF WakeInv, KindInv
<1>3. Arriving'
  BY <1>1, ArrivalsStay
<1>4. ASSUME AllIn, Good(w) PROVE Awake'
  <2>1. CASE LoadParked(w)
    <3>1. stage'[w] = "barrier" /\ seen'[w] = parent
      BY <2>1 DEF LoadParked, Goto, IInv, TypeOK
    <3>2. Awaited(w)' \subseteq filled'
      BY <1>1, <1>4, <3>1 DEF AllIn, Awaited, AwaitedBy
    <3> QED BY <1>1, <1>4, <3>1, <3>2 DEF AllIn, Awake, Good, GoodAttempt
  <2>2. CASE BarrierOpens(w)
    BY <1>1, <1>4, <2>2 DEF BarrierOpens, Goto, IInv, TypeOK, Awake, Good, GoodAttempt
  <2> QED BY <2>1, <2>2
<1>5. faults \in Nat
  BY DEF IInv, TypeOK
<1>6. Watched'
  <2>1. AllIn' => AllIn
    BY <1>1 DEF AllIn, AwaitedBy
  <2>2. CASE AllIn
    BY <1>1, <1>4, <1>5, <2>2, WakersStay
  <2> QED BY <2>1, <2>2 DEF Watched
<1> QED BY <1>1, <1>2, <1>3, <1>6 DEF WakeInv

\* A check that holds for a fault arms the next verify of a chain that has had a
\* fault for each of its attempts, or it is on record; one that holds for a result
\* that is missing is none that was relied on.
LEMMA HoldWakes ==
  ASSUME IInv, WakeInv, WatchdogAssumption, NEW w \in Workers,
         LoadNotParked(w) \/ BarrierHolds(w) \/ BarrierHoldsUnarmed(w)
  PROVE  WakeInv'
<1>1. /\ faults' \in Nat /\ faults <= faults' /\ faults' <= MaxFaults
      /\ UNCHANGED unheard /\ (blind => blind')
  <2>1. CASE UNCHANGED history
    BY <2>1 DEF IInv, TypeOK, WakeInv
  <2>2. ASSUME NEW kind, Fault(kind)
        PROVE  /\ faults' \in Nat /\ faults <= faults' /\ faults' <= MaxFaults
               /\ UNCHANGED <<unheard, blind>>
    BY <2>2, FaultBound, FaultStep DEF IInv
  <2>3. ASSUME Failure(Lag(w)), blind' = TRUE, UNCHANGED unheard
        PROVE  faults' \in Nat /\ faults <= faults' /\ faults' <= MaxFaults
    BY <2>3, FaultBound, FailureStep DEF IInv
  <2> QED BY <2>1, <2>2, <2>3 DEF LoadNotParked, BarrierHolds, BarrierHoldsUnarmed
<1>2. Finish(w) /\ UNCHANGED <<parent, row, made, children, filled, callbacks>>
  BY DEF LoadNotParked, BarrierHolds, BarrierHoldsUnarmed, Hold, HoldUnarmed, messages, queue
<1>3. /\ stage'[w] = "idle" /\ \A v \in Workers : v # w => Stays(v)
      /\ stage[w] \in {"load", "barrier"}
  BY <1>2, FinishStep DEF LoadNotParked, BarrierHolds, BarrierHoldsUnarmed, IInv
<1>4. KindInv'
  BY <1>3, KindsStay
<1>5. Arriving'
  <2>1. \A v \in Workers : stage[v] = "backfill" => Stays(v)
    BY <1>3
  <2>2. unheard \subseteq unheard'
    BY <1>1
  <2> QED BY <1>2, <2>1, <2>2, ArrivalsStay
<1> DEFINE n == NextAttempt(w)
<1>6. /\ n \in Nat \ {0}
      /\ GoodAttempt(w) => n <= faults + 1
  BY TaskTypes DEF NextAttempt, GoodAttempt, IInv, TypeOK, Attempts
<1>7. \A a \in Attempts : verifies[a] > 0 => verifies'[a] > 0
  <2>1. \/ verifies' = verifies
        \/ n \in Attempts /\ verifies' = [verifies EXCEPT ![n] = verifies[n] + 1]
    BY <1>6, BoundsAssumption DEF LoadNotParked, BarrierHolds, BarrierHoldsUnarmed, Hold,
       HoldUnarmed, Arm, Attempts, queue
  <2> QED BY <2>1 DEF IInv, TypeOK
<1>8. ASSUME AllIn, Good(w) PROVE Awake' \/ blind'
  <2>1. stage[w] = "barrier" /\ Awaited(w) \subseteq filled
        /\ seen[w].status = "waiting_for_async_tool"
    BY <1>3, <1>8 DEF AllIn, Good, LoadNotParked, BarrierHolds, BarrierHoldsUnarmed
  <2>2. CASE BarrierHoldsUnarmed(w)
    BY <2>1, <2>2 DEF BarrierHoldsUnarmed
  <2>3. CASE BarrierHolds(w)
    <3>1. Fault(Lag(w)) /\ Arm(w, seen[w].status)
      BY <2>1, <2>3 DEF BarrierHolds, Hold
    <3>2. task[w].kind # "step" /\ faults' = faults + 1 /\ faults' <= MaxFaults
      BY <3>1, FaultBound DEF Fault, Failure, Lag, WatchdogAssumption
    <3>3. n <= faults' /\ n <= MaxAttempts /\ n \in Attempts
      BY <1>6, <1>8, <3>2, BoundsAssumption
         DEF Good, WatchdogAssumption, Attempts, IInv, TypeOK
    <3>4. verifies' = [verifies EXCEPT ![n] = verifies[n] + 1]
      BY <2>1, <3>1, <3>2, <3>3 DEF Arm, Terminal
    <3>5. verifies'[n] > 0
      BY <3>3, <3>4 DEF IInv, TypeOK
    <3> QED BY <3>3, <3>5 DEF Awake, GoodDue
  <2>4. ~LoadNotParked(w)
    BY <1>8 DEF AllIn, LoadNotParked
  <2> QED BY <2>2, <2>3, <2>4
<1> HIDE DEF n
<1>9. Watched'
  <2>1. AllIn' => AllIn
    BY <1>2 DEF AllIn, AwaitedBy
  <2>2. CASE AllIn
    <3>1. \A v \in Workers : Stays(v) \/ (Good(v) => Awake' \/ blind')
      BY <1>3, <1>8, <2>2
    <3>2. UNCHANGED <<parent, filled, row, callbacks>>
      BY <1>2
    <3> QED BY <1>1, <1>7, <3>1, <3>2, WakersStay
  <2> QED BY <2>1, <2>2 DEF Watched
<1> QED BY <1>1, <1>4, <1>5, <1>9 DEF WakeInv

\* A claim, or a row that is claimed already, ends the park.
LEMMA ClaimWakes ==
  ASSUME IInv, WakeInv, NEW w \in Workers, WinCas(w) \/ LoseCas(w)
  PROVE  WakeInv'
<1>1. /\ stage'[w] \in {"publish", "idle"} /\ stage[w] = "cas"
      /\ task'[w].kind = task[w].kind \/ stage'[w] = "idle"
      /\ \A v \in Workers : v # w => Stays(v)
      /\ UNCHANGED <<made, children, filled, callbacks, history>>
      /\ row' # "waiting_for_async_tool"
  <2>1. CASE WinCas(w)
    BY <2>1 DEF WinCas, Goto, Stays, IInv, TypeOK, messages, queue
  <2>2. CASE LoseCas(w)
    BY <2>2, FinishStep DEF LoseCas, IInv, messages, queue
  <2> QED BY <2>1, <2>2
<1>2. KindInv'
  BY <1>1, KindsStay DEF WakeInv, KindInv
<1>3. Arriving'
  BY <1>1, ArrivalsStay
<1> QED BY <1>1, <1>2, <1>3 DEF WakeInv, Watched, AllIn

\* The publish comes from a handler that has claimed the park.
LEMMA PublishWakes ==
  ASSUME IInv, WakeInv, NEW w \in Workers, PublishResume(w)
  PROVE  WakeInv'
<1>1. /\ stage'[w] = "idle" /\ stage[w] = "publish"
      /\ \A v \in Workers : v # w => Stays(v)
      /\ UNCHANGED <<parent, row, made, children, filled, callbacks, verifies, history>>
  BY FinishStep DEF PublishResume, IInv, messages
<1>2. KindInv'
  BY <1>1, KindsStay
<1>3. Arriving'
  BY <1>1, ArrivalsStay
<1>4. ~Good(w) /\ faults \in Nat
  BY <1>1 DEF Good, IInv, TypeOK
<1>5. Watched'
  BY <1>1, <1>4, WakersStay
<1> QED BY <1>1, <1>2, <1>3, <1>5 DEF WakeInv

\* A handler that fails is delivered again, with its attempt.
LEMMA FailureWakes ==
  ASSUME IInv, WakeInv, NEW w \in Workers, Throws(w) \/ PublishThrows(w)
  PROVE  WakeInv'
<1>1. /\ faults' \in Nat /\ faults <= faults' /\ faults' <= MaxFaults
      /\ UNCHANGED <<unheard, blind>>
  BY FaultBound, FaultStep DEF Throws, PublishThrows, IInv
<1>2. /\ stage'[w] = "idle" /\ \A v \in Workers : v # w => Stays(v)
      /\ UNCHANGED <<parent, row, made, children, filled>>
      /\ Redelivered(w)
  BY FinishStep DEF Throws, PublishThrows, Redelivered, messages, IInv
<1>3. KindInv'
  BY <1>2, KindsStay
<1>4. /\ \A c \in Calls : callbacks[c] > 0 => callbacks'[c] > 0
      /\ \A a \in Attempts : verifies[a] > 0 => verifies'[a] > 0
  BY <1>2, TaskTypes DEF Redelivered, IInv, TypeOK
<1>5. task[w].kind = "callback" =>
        task[w].call \in Calls /\ callbacks'[task[w].call] > 0
  BY <1>2, TaskTypes DEF Redelivered, IInv, TypeOK
<1>6. task[w].kind = "verify" =>
        task[w].attempt \in Attempts /\ verifies'[task[w].attempt] > 0
  BY <1>2, TaskTypes DEF Redelivered, IInv, TypeOK
<1>7. stage[w] = "backfill" => task[w].kind = "callback"
  BY DEF IInv, HandlerInv
<1>8. Arriving'
  BY <1>1, <1>2, <1>4, <1>5, <1>7, ArrivalsStay
<1>9. ASSUME Good(w) PROVE Awake'
  <2>1. Throws(w)
    BY <1>9 DEF Good, PublishThrows
  <2>2. task[w].kind \in {"callback", "verify"}
    BY <2>1, TaskTypes DEF Throws, WakeInv, KindInv, IInv, TypeOK
  <2>3. task[w].kind = "verify" => task[w].attempt <= faults'
    BY <1>1, <1>6, <1>9 DEF Good, GoodAttempt, IInv, TypeOK, Attempts
  <2> QED BY <1>5, <1>6, <2>2, <2>3 DEF Awake, GoodDue
<1>10. Watched'
  BY <1>1, <1>2, <1>4, <1>9, WakersStay
<1> QED BY <1>1, <1>2, <1>3, <1>8, <1>10 DEF WakeInv

\* The step that parks writes the row, and then checks.
LEMMA TurnStepWakes ==
  ASSUME IInv, WakeInv, NEW w \in Workers, TurnStep(w)
  PROVE  WakeInv'
<1>0. faults \in Nat
  BY DEF IInv, TypeOK
<1>1. ASSUME NEW i \in Turns, StartTurn(w, i)
      PROVE  WakeInv'
  <2>1. /\ stage[w] = "idle" /\ stage'[w] = "turn" /\ task'[w].kind = "step"
        /\ \A v \in Workers : v # w => Stays(v)
        /\ UNCHANGED <<parent, row, made, children, filled, callbacks, verifies, history>>
    BY <1>1 DEF StartTurn, Take, Goto, Stays, IInv, TypeOK, messages
  <2>2. KindInv'
    BY <2>1, KindsStay
  <2>3. Arriving'
    BY <2>1, ArrivalsStay
  <2>4. ~Good(w)
    BY <2>1 DEF Good
  <2>5. Watched'
    BY <1>0, <2>1, <2>4, WakersStay
  <2> QED BY <2>1, <2>2, <2>3, <2>5 DEF WakeInv
<1>2. ASSUME NEW t \in Tools, StartChild(w, t)
      PROVE  WakeInv'
  <2>1. /\ made' = made \cup {<<Turn(w), t>>} /\ children' = children \cup {<<Turn(w), t>>}
        /\ UNCHANGED <<parent, row, filled, callbacks, verifies, stage, task, seen, history>>
    BY <1>2 DEF StartChild, queue
  <2>2. KindInv' /\ \A v \in Workers : Stays(v)
    BY <2>1 DEF WakeInv, KindInv, Stays
  <2>3. Arriving'
    BY <2>1 DEF WakeInv, Arriving, WillArrive
  <2>4. Watched'
    BY <1>0, <2>1, <2>2, WakersStay
  <2> QED BY <2>1, <2>2, <2>3, <2>4 DEF WakeInv
<1>3. ASSUME ParkTurn(w) \/ EndTurn(w)
      PROVE  WakeInv'
  <2>1. PICK status \in {"waiting_for_async_tool", "done"}, pending \in SUBSET Tools :
          SaveTurn(w, status, pending)
    BY <1>3 DEF ParkTurn, EndTurn, CallsOf
  <2> DEFINE s == [status    |-> IF parent.status = "interrupted" THEN "interrupted"
                                                                  ELSE status,
                   stepCount |-> Turn(w) + 1,
                   pending   |-> pending]
  <2>2. parent' = s /\ seen' = [seen EXCEPT ![w] = s]
    BY <2>1 DEF SaveTurn
  <2> HIDE DEF s
  <2>3. /\ stage'[w] = "row" /\ seen'[w] = parent' /\ task'[w] = task[w]
        /\ \A v \in Workers : v # w => Stays(v)
        /\ UNCHANGED <<made, children, filled, callbacks, verifies, history>>
    BY <2>1, <2>2 DEF SaveTurn, Goto, Stays, IInv, TypeOK, messages, queue
  <2>4. stage[w] = "turn" /\ task[w].kind = "step"
    BY <1>3 DEF ParkTurn, EndTurn, IInv, TurnInv
  <2>5. KindInv'
    BY <2>3, <2>4, KindsStay
  <2>6. Arriving'
    BY <2>3, <2>4, ArrivalsStay
  <2>7. Watched'
    BY <2>3, <2>4 DEF Watched, AllIn, Awake, Good, GoodAttempt
  <2> QED BY <2>3, <2>5, <2>6, <2>7 DEF WakeInv
<1>4. CASE WriteRow(w)
  <2>1. task[w].kind = "step" /\ stage[w] = "row"
    BY <1>4 DEF WriteRow, WakeInv, KindInv
  <2>2. /\ faults' \in Nat /\ faults <= faults' /\ faults' <= MaxFaults
        /\ UNCHANGED <<unheard, blind>>
    BY <1>0, <1>4, FaultBound, FaultStep DEF WriteRow, IInv, WakeInv
  <2>3. UNCHANGED <<parent, made, children, filled, callbacks, verifies>>
    BY <1>4 DEF WriteRow, messages, queue
  <2>4. CASE seen[w].status = "waiting_for_async_tool"
    <3>1. /\ stage'[w] = "load" /\ task'[w] = task[w]
          /\ \A v \in Workers : v # w => Stays(v)
      BY <1>4, <2>4 DEF WriteRow, Goto, Stays, IInv, TypeOK
    <3>2. KindInv'
      BY <2>1, <3>1, KindsStay
    <3>3. Arriving'
      BY <2>1, <2>2, <2>3, <3>1, ArrivalsStay
    <3>4. Awake'
      BY <2>1, <3>1 DEF Awake, Good, GoodAttempt
    <3> QED BY <2>2, <3>2, <3>3, <3>4 DEF WakeInv, Watched
  <2>5. CASE seen[w].status # "waiting_for_async_tool"
    <3>1. /\ stage'[w] = "idle" /\ \A v \in Workers : v # w => Stays(v)
          /\ row' = "waiting_for_async_tool" => row = "waiting_for_async_tool"
      BY <1>4, <2>5, FinishStep DEF WriteRow, IInv
    <3>2. KindInv'
      BY <3>1, KindsStay
    <3>3. Arriving'
      BY <2>1, <2>2, <2>3, <3>1, ArrivalsStay
    <3>4. ~Good(w)
      BY <2>1, <2>5 DEF Good
    <3>5. Watched'
      BY <2>2, <2>3, <3>1, <3>4, WakersStay
    <3> QED BY <2>2, <3>2, <3>3, <3>5 DEF WakeInv
  <2> QED BY <2>4, <2>5
<1> QED BY <1>1, <1>2, <1>3, <1>4 DEF TurnStep

\* Nobody is ever the last to have looked.
LEMMA WakeNext ==
  ASSUME IInv, WakeInv, WatchdogAssumption, [Next]_vars
  PROVE  WakeInv'
<1>1. CASE UNCHANGED vars
  <2>1. KindInv' /\ \A v \in Workers : Stays(v)
    BY <1>1 DEF WakeInv, KindInv, Stays, vars
  <2>2. faults \in Nat
    BY DEF IInv, TypeOK
  <2>3. Arriving'
    BY <1>1, <2>1, ArrivalsStay DEF vars
  <2>4. Watched'
    BY <1>1, <2>1, <2>2, WakersStay DEF vars
  <2> QED BY <1>1, <2>1, <2>3, <2>4 DEF WakeInv, vars
<1>2. ASSUME NEW w \in Workers, Resume(w) PROVE WakeInv'
  BY <1>2, BackfillWakes, CheckGoesOnWakes, HoldWakes, ClaimWakes, PublishWakes DEF Resume
<1> QED BY <1>1, <1>2, TurnStepWakes, TakeMessageWakes, FailureWakes, OutsideWakes DEF Next

\* While an operation is parked, each result it waits for will arrive, and once
\* they are all in somebody is still going to look, for any workers, tools, turns,
\* faults and interrupts: whichever handlers failed and were delivered again, held,
\* or read a stale replica, and whether a callback came before the park was saved,
\* between the save and the row, or after it (the self-check at the park and
\* maybeScheduleAsyncToolVerify).  The only exceptions are the two publishes whose
\* failure the code swallows: that of a callback, and that of a verify after a check
\* that read a stale replica.
THEOREM NoLostWakeupTheorem ==
  ASSUME WatchdogAssumption
  PROVE  Spec => []NoLostWakeup
<1>1. Init => WakeInv
  BY BoundsAssumption DEF Init, WakeInv, KindInv, Arriving, Watched, AllIn, Start
<1>2. IInv /\ WakeInv /\ [Next]_vars => WakeInv'
  BY WakeNext
<1>3. ASSUME IInv, WakeInv PROVE NoLostWakeup
  <2> SUFFICES ASSUME parent.status = "waiting_for_async_tool",
                      row = "waiting_for_async_tool"
               PROVE  /\ \A c \in AwaitedBy(parent) :
                           c \in filled \/ WillArrive(c) \/ c \in unheard
                      /\ AwaitedBy(parent) \subseteq filled => WillCheck \/ blind
    BY DEF NoLostWakeup
  <2>1. Parked(parent)
    BY <1>3 DEF IInv
  <2>2. ASSUME NEW c \in AwaitedBy(parent) PROVE c \in made
    <3>1. /\ c \in Calls /\ c[1] + 1 = parent.stepCount /\ c[1] \in Nat
          /\ c[2] \in CallsOf(parent.stepCount - 1)
      BY <2>1 DEF AwaitedBy, Parked, Calls, Turns
    <3>2. c[1] = parent.stepCount - 1 /\ c = <<c[1], c[2]>>
      BY <3>1, <2>1 DEF Parked, Calls
    <3> QED BY <3>1, <3>2 DEF CallsOf
  <2>3. Awake => WillCheck
    BY DEF Awake, GoodDue, Good, WillCheck
  <2> QED BY <1>3, <2>2, <2>3 DEF WakeInv, Arriving, Watched, AllIn
<1> QED BY <1>1, <1>2, <1>3, InvariantTheorem, PTL DEF Spec

-----------------------------------------------------------------------------
\* A single park is held by its step, its row, the winner of the CAS or the
\* published turn, one after the other.

Holding(w) ==
  \/ stage[w] = "row" /\ seen[w].status = "waiting_for_async_tool"
       /\ seen[w].stepCount = 1
  \/ stage[w] = "publish"
  \/ stage[w] = "turn" /\ Turn(w) = 1

Held ==
  row = "waiting_for_async_tool" \/ due[1] > 0 \/ \E w \in Workers : Holding(w)

\* A row that does not say parked is written for an ended operation only, and an
\* operation that is done runs no turn.
EndInv ==
  \A w \in Workers :
    /\ stage[w] = "row" =>
         seen[w].status = "waiting_for_async_tool" \/ parent.status \in Terminal
    /\ stage[w] = "turn" => parent.status # "done"

HeldInv == EndInv /\ (parent.status = "waiting_for_async_tool" => Held)

\* The row is written, and a claimed park's next turn is published.
NothingSwallowed == Faults \cap {"swallow", "publish"} = {}

\* Turn 1 is the only one that a park waits before.
LEMMA OnePark ==
  ASSUME MaxTurn = 1, NEW state, Parked(state)
  PROVE  state.stepCount = 1 /\ state.stepCount \in Turns
BY TwoTurns DEF Parked

\* A step that touches neither the state nor the row keeps the park held if it
\* takes no holder away.
LEMMA HoldersStay ==
  ASSUME HeldInv, UNCHANGED <<parent, row>>,
         due[1] > 0 => due'[1] > 0 \/ Held',
         \A v \in Workers : Holding(v) => Holding(v)' \/ Held',
         \A v \in Workers : stage'[v] \in {"row", "turn"} => Stays(v)
  PROVE  HeldInv'
<1>1. EndInv'
  BY DEF HeldInv, EndInv, Stays
<1>2. parent'.status = "waiting_for_async_tool" => Held'
  BY DEF HeldInv, Held
<1> QED BY <1>1, <1>2 DEF HeldInv

\* A handler that is neither a holder nor becomes one leaves the others alone.
LEMMA BystanderHeld ==
  ASSUME HeldInv, NEW w \in Workers, UNCHANGED <<parent, row, due>>,
         \A v \in Workers : v # w => Stays(v),
         ~Holding(w), stage'[w] \notin {"row", "turn"}
  PROVE  HeldInv'
BY HoldersStay DEF Holding, Turn, Stays

\* The turn that runs saves what its row will say.
LEMMA EndOfTurnHeld ==
  ASSUME MaxTurn = 1, IInv, IInv', HeldInv, NEW w \in Workers, ParkTurn(w) \/ EndTurn(w)
  PROVE  HeldInv'
<1>1. PICK status \in {"waiting_for_async_tool", "done"}, pending \in SUBSET Tools :
        SaveTurn(w, status, pending)
  BY DEF ParkTurn, EndTurn, CallsOf
<1> DEFINE s == [status    |-> IF parent.status = "interrupted" THEN "interrupted"
                                                                ELSE status,
                 stepCount |-> Turn(w) + 1,
                 pending   |-> pending]
<1>2. parent' = s /\ seen' = [seen EXCEPT ![w] = s]
  BY <1>1 DEF SaveTurn
<1>3. s.status \in Terminal \/ s.status = "waiting_for_async_tool"
  BY DEF Terminal
<1>4. parent.status = "interrupted" => s.status = "interrupted"
  OBVIOUS
<1> HIDE DEF s
<1>5. /\ stage'[w] = "row" /\ seen'[w] = parent' /\ stage[w] = "turn"
      /\ \A v \in Workers : v # w => Stays(v)
  BY <1>1, <1>2 DEF SaveTurn, Goto, Stays, IInv, TypeOK, ParkTurn, EndTurn
<1>6. \A v \in Workers : stage[v] = "turn" => v = w
  BY <1>5 DEF IInv, TurnInv
<1>7. parent.status \in Terminal => parent'.status \in Terminal
  BY <1>2, <1>4, <1>5 DEF HeldInv, EndInv, Terminal
<1>8. EndInv'
  BY <1>2, <1>3, <1>5, <1>6, <1>7 DEF HeldInv, EndInv, Stays
<1>9. ASSUME parent'.status = "waiting_for_async_tool" PROVE Holding(w)'
  <2>1. parent'.stepCount = 1
    BY <1>9, MaxTurn = 1 DEF IInv, Parked
  <2> QED BY <1>5, <1>9, <2>1 DEF Holding
<1> QED BY <1>8, <1>9 DEF HeldInv, Held

\* The step that parked passes the park to the row.
LEMMA WriteRowHeld ==
  ASSUME MaxTurn = 1, NothingSwallowed, IInv, HeldInv, NEW w \in Workers, WriteRow(w)
  PROVE  HeldInv'
<1>1. /\ stage[w] = "row" /\ row' = seen[w].status /\ UNCHANGED <<parent, due>>
      /\ stage'[w] \in {"load", "idle"} /\ \A v \in Workers : v # w => Stays(v)
  <2>1. row' = seen[w].status
    BY DEF WriteRow, Fault, Failure, NothingSwallowed
  <2>2. CASE Finish(w)
    BY <2>1, <2>2, FinishStep DEF WriteRow, IInv, queue
  <2>3. CASE Goto(w, "load") /\ UNCHANGED <<task, seen>>
    BY <2>1, <2>3 DEF WriteRow, Goto, IInv, TypeOK, Stays, queue
  <2> QED BY <2>2, <2>3 DEF WriteRow
<1>2. EndInv'
  BY <1>1 DEF HeldInv, EndInv, Stays
<1>3. parent.status = "waiting_for_async_tool" => row' = "waiting_for_async_tool"
  BY <1>1 DEF HeldInv, EndInv, Terminal
<1> QED BY <1>1, <1>2, <1>3 DEF HeldInv, Held

\* A step is started from its message: turn 0 by no parked operation.
LEMMA StartTurnHeld ==
  ASSUME MaxTurn = 1, IInv, IInv', HeldInv, NEW w \in Workers, NEW i \in Turns,
         StartTurn(w, i)
  PROVE  HeldInv'
<1>1. /\ stage[w] = "idle" /\ stage'[w] = "turn" /\ task'[w].turn = i
      /\ \A v \in Workers : v # w => Stays(v)
      /\ due' = [due EXCEPT ![i] = due[i] - 1] /\ parent.status \notin Terminal
      /\ UNCHANGED <<parent, row>>
  BY DEF StartTurn, Deliver, Take, Goto, Stays, IInv, TypeOK
<1>2. EndInv'
  BY <1>1 DEF HeldInv, EndInv, Stays, Terminal
<1>3. ASSUME parent.status = "waiting_for_async_tool" PROVE Holding(w)'
  <2>1. parent.stepCount = 1
    BY <1>3, OnePark DEF IInv
  <2>2. Turn(w)' = parent'.stepCount
    BY <1>1 DEF IInv, TurnInv
  <2> QED BY <1>1, <2>1, <2>2 DEF Holding
<1> QED BY <1>1, <1>2, <1>3 DEF HeldInv, Held

\* The row passes it to the winner, and the winner to the queue.
LEMMA ResumeHeld ==
  ASSUME MaxTurn = 1, IInv, HeldInv, NEW w \in Workers, WinCas(w) \/ PublishResume(w)
  PROVE  HeldInv'
<1>1. CASE WinCas(w)
  <2>1. /\ stage'[w] = "publish" /\ \A v \in Workers : v # w => Stays(v)
        /\ UNCHANGED <<parent, due>>
    BY <1>1 DEF WinCas, Goto, Stays, IInv, TypeOK, queue
  <2>2. EndInv'
    BY <2>1 DEF HeldInv, EndInv, Stays
  <2> QED BY <2>1, <2>2 DEF HeldInv, Held, Holding
<1>2. CASE PublishResume(w)
  <2>1. seen[w].stepCount = 1
    BY <1>2, OnePark DEF PublishResume, IInv, HandlerInv
  <2>2. /\ due' = [due EXCEPT ![1] = due[1] + 1] /\ UNCHANGED <<parent, row>>
        /\ stage'[w] = "idle" /\ \A v \in Workers : v # w => Stays(v)
    BY <1>2, <2>1, FinishStep DEF PublishResume, IInv
  <2>3. EndInv'
    BY <2>2 DEF HeldInv, EndInv, Stays
  <2>4. due'[1] > 0
    BY <2>2, TwoTurns DEF IInv, TypeOK
  <2> QED BY <2>3, <2>4 DEF HeldInv, Held
<1> QED BY <1>1, <1>2

\* The other stages of a check hold nothing.
LEMMA CheckHeld ==
  ASSUME NothingSwallowed, IInv, HeldInv, NEW w \in Workers,
         \/ Backfill(w) \/ LoadParked(w) \/ LoadNotParked(w) \/ BarrierOpens(w)
         \/ BarrierHolds(w) \/ BarrierHoldsUnarmed(w) \/ LoseCas(w) \/ Throws(w)
            \/ PublishThrows(w)
         \/ TakeMessage(w)
  PROVE  HeldInv'
<1>1. ~PublishThrows(w)
  BY DEF PublishThrows, Fault, Failure, NothingSwallowed
<1>2. stage[w] \in {"backfill", "load", "barrier", "cas", "idle"}
  BY <1>1 DEF Backfill, LoadParked, LoadNotParked, BarrierOpens, BarrierHolds,
       BarrierHoldsUnarmed, HoldUnarmed, LoseCas,
              Throws, TakeMessage, TakeCallback, TakeVerify, Take
<1>3. UNCHANGED <<parent, row, due>>
  BY <1>1 DEF Backfill, LoadParked, LoadNotParked, BarrierOpens, BarrierHolds,
       BarrierHoldsUnarmed, HoldUnarmed, LoseCas,
              Throws, TakeMessage, TakeCallback, TakeVerify, Hold, Redelivered, queue
<1>4. stage'[w] \notin {"row", "turn"} /\ \A v \in Workers : v # w => Stays(v)
  <2>1. CASE Backfill(w) \/ LoadParked(w) \/ BarrierOpens(w)
    BY <2>1 DEF Backfill, LoadParked, BarrierOpens, Goto, Stays, IInv, TypeOK
  <2>2. CASE LoadNotParked(w) \/ BarrierHolds(w) \/ BarrierHoldsUnarmed(w) \/ LoseCas(w)
             \/ Throws(w)
    BY <2>2, FinishStep
       DEF LoadNotParked, BarrierHolds, BarrierHoldsUnarmed, HoldUnarmed, LoseCas, Throws,
           Hold, Redelivered, IInv
  <2>3. CASE TakeMessage(w)
    <3>1. (\E what : Take(w, "backfill", what) \/ Take(w, "load", what)) /\ UNCHANGED seen
      BY <2>3 DEF TakeMessage, TakeCallback, TakeVerify
    <3> QED BY <3>1 DEF Take, Goto, Stays, IInv, TypeOK
  <2> QED BY <1>1, <2>1, <2>2, <2>3
<1>5. ~Holding(w)
  BY <1>2 DEF Holding
<1> QED BY <1>3, <1>4, <1>5, BystanderHeld

\* A late delivery is of a turn before the park, or the operation has ended.
LEMMA SkipTurnHeld ==
  ASSUME MaxTurn = 1, IInv, HeldInv, NEW i \in Turns, SkipTurn(i)
  PROVE  HeldInv'
<1>1. /\ due' = [due EXCEPT ![i] = due[i] - 1]
      /\ parent.stepCount > i \/ parent.status \in Terminal
      /\ UNCHANGED <<parent, stage, task, seen>>
  BY DEF SkipTurn, Deliver
<1>2. EndInv'
  BY <1>1 DEF HeldInv, EndInv
<1>3. ASSUME parent.status = "waiting_for_async_tool" PROVE Held'
  <2>1. parent.stepCount = 1 /\ i = 0
    BY <1>1, <1>3, OnePark, TwoTurns DEF IInv, Terminal
  <2>2. due'[1] = due[1] /\ row' = row
    BY <1>1, <2>1, TwoTurns DEF SkipTurn, IInv, TypeOK
  <2> QED BY <1>1, <1>3, <2>2 DEF HeldInv, Held, Holding, Turn
<1> QED BY <1>1, <1>2, <1>3 DEF HeldInv

\* The park is held from step to step.
LEMMA HeldNext ==
  ASSUME MaxTurn = 1, NothingSwallowed, IInv, IInv', HeldInv, [Next]_vars
  PROVE  HeldInv'
<1>1. ASSUME UNCHANGED <<parent, row, due, stage, task, seen>> PROVE HeldInv'
  BY <1>1, HoldersStay DEF Holding, Turn, Stays
<1>2. CASE UNCHANGED vars
  BY <1>1, <1>2 DEF vars
<1>3. ASSUME NEW w \in Workers, TurnStep(w) PROVE HeldInv'
  <2>1. ASSUME NEW t \in Tools, StartChild(w, t) PROVE HeldInv'
    BY <1>1, <2>1 DEF StartChild, queue
  <2> QED BY <1>3, <2>1, StartTurnHeld, EndOfTurnHeld, WriteRowHeld DEF TurnStep
<1>4. ASSUME NEW w \in Workers, Resume(w) PROVE HeldInv'
  BY <1>4, CheckHeld, ResumeHeld DEF Resume
<1>5. ASSUME NEW w \in Workers, TakeMessage(w) \/ Throws(w) \/ PublishThrows(w)
      PROVE  HeldInv'
  BY <1>5, CheckHeld
<1>6. ASSUME NEW c \in Calls, ChildEnds(c) \/ ChildEndsUnheard(c)
             \/ DuplicateCallback(c) PROVE HeldInv'
  BY <1>1, <1>6 DEF ChildEnds, ChildEndsUnheard, DuplicateCallback, queue
<1>7. ASSUME NEW i \in Turns, SkipTurn(i) PROVE HeldInv'
  BY <1>7, SkipTurnHeld
<1>8. CASE Interrupt
  <2>1. parent'.status = "interrupted" /\ UNCHANGED <<row, due, stage, task, seen>>
    BY <1>8 DEF Interrupt, queue, IInv, TypeOK, ParentState
  <2> QED BY <2>1 DEF HeldInv, EndInv, Terminal
<1> QED BY <1>2, <1>3, <1>4, <1>5, <1>6, <1>7, <1>8 DEF Next

\* A parked operation is never left between its row and its next turn, for any
\* workers, tools, attempts and faults but a swallowed write of the row and a lost
\* publish, which strand it (persistCompletion, tryResumeFromAsyncTool and the
\* publish after it).  It is of one park: a check that holds an earlier park's
\* state may claim a later one and publish the earlier turn once more.
THEOREM ParkIsHeldTheorem ==
  ASSUME MaxTurn = 1, NothingSwallowed
  PROVE  Spec => []ParkIsHeld
<1>1. Init => HeldInv
  BY DEF Init, HeldInv, EndInv, Start
<1>2. IInv /\ IInv' /\ HeldInv /\ [Next]_vars => HeldInv'
  BY HeldNext
<1>3. ASSUME IInv, HeldInv PROVE ParkIsHeld
  <2> SUFFICES ASSUME parent.status = "waiting_for_async_tool",
                      row # "waiting_for_async_tool", ~(due[parent.stepCount] > 0)
               PROVE  \E w \in Workers :
                        \/ stage[w] \in {"row", "publish"}
                             /\ seen[w].stepCount = parent.stepCount
                        \/ stage[w] = "turn" /\ Turn(w) = parent.stepCount
    BY DEF ParkIsHeld
  <2>1. parent.stepCount = 1
    BY <1>3, OnePark DEF IInv
  <2>2. PICK w \in Workers : Holding(w)
    BY <1>3, <2>1 DEF HeldInv, Held
  <2>3. stage[w] = "publish" => seen[w].stepCount = 1
    BY <1>3, OnePark DEF IInv, HandlerInv
  <2> QED BY <2>1, <2>2, <2>3 DEF Holding
<1> QED BY <1>1, <1>2, <1>3, InvariantTheorem, PTL DEF Spec

-----------------------------------------------------------------------------
\* The refinement: starting a child makes a call, a backfill lets it arrive, the
\* publish of a resume releases the next turn, and the rest stutters.

releasedTurns == {i \in Turns : published[i] > 0}
joinVars == <<made, filled, releasedTurns>>

\* Turn 0 may run and has made no calls.
LEMMA JoinInitial == Init => Join!JoinInit
BY BoundsAssumption DEF Init, Join!JoinInit, Turns

\* The turn that runs is released, and the next one is not.
LEMMA StartChildJoins ==
  ASSUME IInv, NEW w \in Workers, NEW t \in Tools, StartChild(w, t)
  PROVE  Join!JoinNext
<1> DEFINE i == Turn(w)
<1>1. i \in Turns /\ i = parent.stepCount /\ published[i] > 0
  BY TaskTypes DEF IInv, TurnInv, TypeOK, StartChild, Turn
<1>2. made' = made \cup {<<i, t>>} /\ UNCHANGED <<filled, published>>
  BY DEF StartChild, queue
<1> HIDE DEF i
<1>3. i + 1 \notin releasedTurns
  BY <1>1 DEF IInv, PublishedInv, releasedTurns, Turns
<1>4. Join!Make(i, t)
  BY <1>1, <1>2, <1>3 DEF Join!Make, releasedTurns
<1> QED BY <1>1, <1>4 DEF Join!JoinNext

\* A result arrives for a call that was made.
LEMMA BackfillJoins ==
  ASSUME IInv, NEW w \in Workers, Backfill(w)
  PROVE  Join!JoinNext
<1>1. task[w].call \in Calls /\ task[w].call \in made
  BY TaskTypes DEF Backfill, IInv, HandlerInv, CallsInv, TypeOK
<1>2. Join!Arrive(task[w].call)
  BY <1>1 DEF Backfill, Join!Arrive, queue
<1> QED BY <1>1, <1>2 DEF Join!JoinNext, Calls

\* The turn whose successor is published has all its results.
LEMMA PublishResumeJoins ==
  ASSUME IInv, NEW w \in Workers, PublishResume(w)
  PROVE  Join!JoinNext
<1> DEFINE s == seen[w].stepCount
<1>1. /\ s \in 1 .. MaxTurn /\ seen[w].pending = CallsOf(s - 1) /\ published[s - 1] > 0
      /\ Awaited(w) \subseteq filled
  BY DEF PublishResume, IInv, HandlerInv, Parked
<1>2. /\ published' = [published EXCEPT ![s] = published[s] + 1]
      /\ UNCHANGED <<made, filled>>
  BY DEF PublishResume, messages
<1>3. s \in Turns /\ s - 1 \in Turns /\ (s - 1) + 1 = s
  BY <1>1, BoundsAssumption DEF Turns
<1>4. ASSUME NEW c \in made, c[1] = s - 1
      PROVE  c \in filled
  <2>1. c \in Calls /\ c = <<s - 1, c[2]>> /\ c[2] \in Tools
    BY <1>4 DEF IInv, TypeOK, Calls
  <2>2. c[2] \in CallsOf(s - 1)
    BY <2>1 DEF CallsOf
  <2>3. c \in Awaited(w)
    BY <1>1, <1>3, <1>4, <2>1, <2>2 DEF Awaited, AwaitedBy
  <2> QED BY <1>1, <2>3
<1> HIDE DEF s
<1>5. releasedTurns' = releasedTurns \cup {s}
  BY <1>2, <1>3 DEF releasedTurns, IInv, TypeOK
<1>6. PICK i \in Turns : i = s - 1
  BY <1>3
<1>7. Join!ReleaseNext(i)
  BY <1>1, <1>2, <1>3, <1>4, <1>5, <1>6 DEF Join!ReleaseNext, releasedTurns
<1> QED BY <1>7 DEF Join!JoinNext

\* No turn is published before every call of the turn before it has its result,
\* and no call is made by a turn that has been resumed, whatever is redelivered,
\* fails, lags or is interrupted.
THEOREM JoinRefinement == Spec => ImplementsJoin
<1>1. ASSUME IInv, [Next]_vars
      PROVE  Join!JoinNext \/ UNCHANGED joinVars
  <2>1. CASE UNCHANGED vars
    BY <2>1 DEF vars, joinVars, releasedTurns
  <2>2. ASSUME NEW w \in Workers, TurnStep(w)
        PROVE  Join!JoinNext \/ UNCHANGED joinVars
    <3>1. CASE \E t \in Tools : StartChild(w, t)
      BY <1>1, <2>2, <3>1, StartChildJoins
    <3>2. CASE ~\E t \in Tools : StartChild(w, t)
      <4>1. UNCHANGED <<made, filled, published>>
        BY <2>2, <3>2 DEF TurnStep, StartTurn, ParkTurn, EndTurn, SaveTurn, WriteRow,
           messages, queue
      <4> QED BY <4>1 DEF joinVars, releasedTurns
    <3> QED BY <3>1, <3>2
  <2>3. ASSUME NEW w \in Workers, Resume(w)
        PROVE  Join!JoinNext \/ UNCHANGED joinVars
    <3>1. CASE Backfill(w) \/ PublishResume(w)
      BY <1>1, <2>3, <3>1, BackfillJoins, PublishResumeJoins
    <3>2. CASE ~(Backfill(w) \/ PublishResume(w))
      <4>1. UNCHANGED <<made, filled, published>>
        BY <2>3, <3>2 DEF Resume, LoadParked, LoadNotParked, BarrierOpens, BarrierHolds,
             BarrierHoldsUnarmed, HoldUnarmed,
           Hold, WinCas, LoseCas, messages, queue
      <4> QED BY <4>1 DEF joinVars, releasedTurns
    <3> QED BY <3>1, <3>2
  <2>4. ASSUME NEW w \in Workers, TakeMessage(w) \/ Throws(w) \/ PublishThrows(w)
        PROVE  UNCHANGED joinVars
    <3>1. UNCHANGED <<made, filled, published>>
      BY <2>4 DEF TakeMessage, TakeCallback, TakeVerify, Throws, PublishThrows,
         Redelivered, messages
    <3> QED BY <3>1 DEF joinVars, releasedTurns
  <2>5. ASSUME (\E c \in Calls : ChildEnds(c) \/ ChildEndsUnheard(c) \/ DuplicateCallback(c))
               \/ (\E i \in Turns : SkipTurn(i)) \/ Interrupt
        PROVE  UNCHANGED joinVars
    <3>1. UNCHANGED <<made, filled, published>>
      BY <2>5 DEF ChildEnds, ChildEndsUnheard, DuplicateCallback, SkipTurn, Interrupt,
           messages, queue
    <3> QED BY <3>1 DEF joinVars, releasedTurns
  <2> QED BY <1>1, <2>1, <2>2, <2>3, <2>4, <2>5 DEF Next
<1>2. IInv /\ [Next]_vars => [Join!JoinNext]_joinVars
  BY <1>1
<1>3. Init => Join!JoinInit
  BY JoinInitial
<1> QED BY <1>2, <1>3, InvariantTheorem, PTL
        DEF Spec, ImplementsJoin, Join!JoinSpec, joinVars, releasedTurns
=============================================================================
