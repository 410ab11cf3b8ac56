---------------------------- MODULE GroupMembers ----------------------------
(* A supervisor that calls the members of its group and is parked until all  *)
(* of them have answered.  Each member is an operation of its own with an    *)
(* anchor, the placeholder of its answer.  A member that ends calls back: its *)
(* anchor is filled, the filled anchors are counted, and whoever counts them *)
(* all fills the group call and tries to resume the supervisor, as in        *)
(* AsyncToolResume.  A member with a deadline is interrupted by a time-out   *)
(* message that then answers for it.                                         *)
(*                                                                           *)
(* One park of one supervisor with one group call.  A call of one member has *)
(* no anchors below it: the group call is the anchor.                        *)
EXTENDS Naturals, FiniteSets

CONSTANTS
  Workers,       \* the server instances
  Members,       \* the agents a call may name
  Asks,          \* what a call may ask for when they have answered
  MaxAttempts,   \* ASYNC_TOOL_VERIFY_MAX_ATTEMPTS
  MaxFaults,     \* bound: how many faults happen
  Faults         \* which kinds of fault may happen

\* "startFails": a member cannot be started;
\* "unmarked": and its anchor cannot be written either, which is swallowed;
\* "throw": a callback or verify handler fails before its CAS;
\* "timeoutThrows": a time-out handler fails;
\* "duplicate": QStash delivers a callback once more;
\* "lag": a read of the anchors or the group call lacks the last writes;
\* "unscheduled": a member has no time-out: its call gives none, or scheduling it
\* fails, which is swallowed;
\* "webhook": so is the failing publish of a member's callback;
\* "arm": and that of a verify.
FaultKinds == {"startFails", "unmarked", "throw", "timeoutThrows", "duplicate", "lag",
               "unscheduled", "webhook", "arm"}

\* QStash retries three times: with as many faults no message is given up, which
\* GroupEnds needs; nothing else depends on how many there are.
ASSUME BoundsAssumption == MaxAttempts \in Nat /\ MaxFaults \in Nat
ASSUME FaultsAssumption == Faults \subseteq FaultKinds
ASSUME AsksAssumption == Asks \subseteq {"resume", "finish"}

Attempts == 1 .. MaxAttempts
Dispositions == {"resume", "finish"}   \* GroupActionOnComplete
Outcomes == {"completed", "error"}
Memberhood == {"none", "running", "interrupted", "ended", "notStarted"}
Anchors == {"none", "pending"} \cup Outcomes
ParentStatus == {"running", "waiting_for_async_tool", "inline"}
Stages == {"idle", "timeout", "interrupt", "anchor", "count", "group", "row",
           "load", "cas", "publish"}

Tasks ==
  [kind : {"step"}]
    \cup [kind : {"callback"}, member : Members, outcome : Outcomes]
    \cup [kind : {"timeout"}, member : Members]
    \cup [kind : {"verify"}, attempt : Attempts]
NoTask == [kind |-> "none"]

VARIABLES
  called,      \* the members the call names
  isolated,    \* do they run as tasks with a deadline, or speak in the group?
  asked,       \* what the call asks for when they have answered
  member,      \* per member: its operation
  hung,        \* the members that wait for something that never comes
  anchor,      \* per member: its anchor
  group,       \* the group call's message: status and the stored onComplete
  parent, row, \* the supervisor's Redis status, and its row's
  callbacks,   \* queue: callback deliveries due, per member and outcome
  timeouts,    \* queue: the members whose time-out is due
  verifies,    \* queue: verify deliveries due, per attempt
  published,   \* queue: how often the next step was published, per disposition
  stage, task, found,   \* per worker: where it is, with what, what it found to do
  faults       \* the faults that happened, numbered

vars == <<called, isolated, asked, member, hung, anchor, group, parent, row, callbacks,
          timeouts, verifies, published, stage, task, found, faults>>

call == <<called, isolated, asked>>
members == <<member, hung>>
messages == <<anchor, group>>
supervisor == <<parent, row>>
queue == <<callbacks, timeouts, verifies, published>>

Init ==
  /\ called \in (SUBSET Members) \ {{}}
  /\ isolated \in BOOLEAN /\ asked \in Asks
  /\ member = [m \in Members |-> "none"] /\ hung = {}
  /\ anchor = [m \in Members |-> IF m \in called THEN "pending" ELSE "none"]
  /\ group = [status |-> "pending", onComplete |-> asked]
  /\ parent = "running" /\ row = "running"
  /\ callbacks = [c \in Members \X Outcomes |-> 0]
  /\ timeouts = {}
  /\ verifies = [a \in Attempts |-> 0]
  /\ published = [d \in Dispositions |-> 0]
  /\ stage = [w \in Workers |-> "idle"]
  /\ task = [w \in Workers |-> NoTask]
  /\ found = [w \in Workers |-> "resume"]
  /\ faults = {}

Goto(w, label) == stage' = [stage EXCEPT ![w] = label]

Take(w, label, what) ==
  /\ stage[w] = "idle"
  /\ Goto(w, label)
  /\ task' = [task EXCEPT ![w] = what]

Finish(w) ==
  /\ Goto(w, "idle")
  /\ task' = [task EXCEPT ![w] = NoTask]
  /\ found' = [found EXCEPT ![w] = "resume"]

Fault(kind) ==
  /\ kind \in Faults /\ Cardinality(faults) < MaxFaults
  /\ faults' = faults \cup {<<kind, Cardinality(faults)>>}

Happened(kind) == \E f \in faults : f[1] = kind

-----------------------------------------------------------------------------
(* The runner: members are forked in parallel while the turn runs.           *)

Collapsed == Cardinality(called) = 1
Filled(m) == anchor[m] \in Outcomes
GroupFilled == IF Collapsed THEN \A m \in called : Filled(m)
                            ELSE group.status \in Outcomes

\* A member that hangs is one that waits: for a human, or in a tool.  One that
\* speaks in the group has no deadline.
StartMember(m, hangs) ==
  /\ parent = "running" /\ m \in called /\ member[m] = "none"
  /\ member' = [member EXCEPT ![m] = "running"]
  /\ hung' = IF hangs THEN hung \cup {m} ELSE hung
  /\ \/ timeouts' = (IF isolated THEN timeouts \cup {m} ELSE timeouts) /\ UNCHANGED faults
     \/ isolated /\ Fault("unscheduled") /\ UNCHANGED timeouts
  /\ UNCHANGED <<call, messages, supervisor, callbacks, verifies, published, stage, task,
                 found>>

\* It will never call back: the runner fills its anchor.
MemberNotStarted(m) ==
  /\ parent = "running" /\ m \in called /\ member[m] = "none"
  /\ member' = [member EXCEPT ![m] = "notStarted"]
  /\ \/ Fault("startFails") /\ anchor' = [anchor EXCEPT ![m] = "error"]
     \/ Fault("unmarked") /\ UNCHANGED anchor
  /\ UNCHANGED <<call, hung, group, supervisor, queue, stage, task, found>>

\* The park is saved to Redis when every member is forked.
Park(w) ==
  /\ parent = "running" /\ \A m \in called : member[m] # "none"
  /\ \E m \in called : member[m] # "notStarted"
  /\ parent' = "waiting_for_async_tool"
  /\ Take(w, "row", [kind |-> "step"])
  /\ UNCHANGED <<call, members, messages, row, queue, found, faults>>

\* Mutant: the parked turn does not check the barrier.
WriteRowUnchecked(w) ==
  /\ stage[w] = "row"
  /\ row' = "waiting_for_async_tool"
  /\ Finish(w)
  /\ UNCHANGED <<call, members, messages, parent, queue, faults>>

\* The row follows, and the parked turn checks the barrier itself.
WriteRow(w) ==
  /\ stage[w] = "row"
  /\ row' = "waiting_for_async_tool"
  /\ Goto(w, "load")
  /\ UNCHANGED <<call, members, messages, parent, queue, task, found, faults>>

\* None was started: the placeholders are deleted and the turn goes on.
TearDown ==
  /\ parent = "running" /\ \A m \in called : member[m] = "notStarted"
  /\ parent' = "inline"
  /\ group' = [group EXCEPT !.status = "deleted"]
  /\ anchor' = [m \in Members |-> "none"]
  /\ UNCHANGED <<call, members, row, queue, stage, task, found, faults>>

-----------------------------------------------------------------------------
(* The members end, by themselves or interrupted, and their hook calls back. *)

\* An interrupt stops a member at its next step boundary, or is overwritten.
MemberEnds(m, outcome) ==
  /\ member[m] \in {"running", "interrupted"} /\ m \notin hung
  /\ member' = [member EXCEPT ![m] = "ended"]
  /\ callbacks' = [callbacks EXCEPT ![<<m, outcome>>] = @ + 1]
  /\ UNCHANGED <<call, hung, messages, supervisor, timeouts, verifies, published, stage,
                 task, found, faults>>

\* HookDispatcher swallows the failure of the publish, and there is no fallback.
MemberEndsUnheard(m) ==
  /\ member[m] \in {"running", "interrupted"} /\ m \notin hung
  /\ member' = [member EXCEPT ![m] = "ended"]
  /\ Fault("webhook")
  /\ UNCHANGED <<call, hung, messages, supervisor, queue, stage, task, found>>

DuplicateCallback(m, outcome) ==
  /\ Fault("duplicate") /\ callbacks[<<m, outcome>>] > 0
  /\ callbacks' = [callbacks EXCEPT ![<<m, outcome>>] = @ + 1]
  /\ UNCHANGED <<call, members, messages, supervisor, timeouts, verifies, published,
                 stage, task, found>>

TakeCallback(w, m, outcome) ==
  /\ callbacks[<<m, outcome>>] > 0
  /\ callbacks' = [callbacks EXCEPT ![<<m, outcome>>] = @ - 1]
  /\ Take(w, "anchor", [kind |-> "callback", member |-> m, outcome |-> outcome])
  /\ UNCHANGED <<call, members, messages, supervisor, timeouts, verifies, published,
                 found, faults>>

TakeVerify(w, a) ==
  /\ verifies[a] > 0
  /\ verifies' = [verifies EXCEPT ![a] = @ - 1]
  /\ Take(w, "load", [kind |-> "verify", attempt |-> a])
  /\ UNCHANGED <<call, members, messages, supervisor, callbacks, timeouts, published,
                 found, faults>>

TakeTimeout(w, m) ==
  /\ m \in timeouts
  /\ timeouts' = timeouts \ {m}
  /\ Take(w, "timeout", [kind |-> "timeout", member |-> m])
  /\ UNCHANGED <<call, members, messages, supervisor, callbacks, verifies, published,
                 found, faults>>

-----------------------------------------------------------------------------
(* handleGroupMemberTimeout.                                                 *)

\* Mutant: the time-out trusts the interrupted member to call back.
TimeoutInterruptOnly(w) ==
  /\ stage[w] = "interrupt"
  /\ member' = [member EXCEPT ![task[w].member] = IF @ = "running" THEN "interrupted" ELSE @]
  /\ Finish(w)
  /\ UNCHANGED <<call, hung, messages, supervisor, queue, faults>>

TimeoutLoads(w) ==
  /\ stage[w] = "timeout"
  /\ IF member[task[w].member] = "running"
     THEN Goto(w, "interrupt") /\ UNCHANGED <<task, found>>
     ELSE Finish(w)
  /\ UNCHANGED <<call, members, messages, supervisor, queue, faults>>

\* Whether the interrupt came in time is not asked.
TimeoutInterrupts(w) ==
  /\ stage[w] = "interrupt"
  /\ member' = [member EXCEPT ![task[w].member] = IF @ = "running" THEN "interrupted" ELSE @]
  /\ Goto(w, "anchor")
  /\ UNCHANGED <<call, hung, messages, supervisor, queue, task, found, faults>>

-----------------------------------------------------------------------------
(* completeGroupActionMember.                                                *)

\* updateToolMessage merges the new plugin state into the stored one.
FillAnchor(w) ==
  /\ stage[w] = "anchor"
  /\ anchor' = [anchor EXCEPT ![task[w].member] = IF task[w].kind = "callback"
                                                  THEN task[w].outcome ELSE "error"]
  /\ Goto(w, IF Collapsed THEN "load" ELSE "count")
  /\ UNCHANGED <<call, members, group, supervisor, queue, task, found, faults>>

\* The verify a held check arms: attempt 1, or the next of a chain.
NextAttempt(w) == IF task[w].kind = "verify" THEN task[w].attempt + 1 ELSE 1

Arm(w) ==
  verifies' = IF task[w].kind # "step" /\ NextAttempt(w) <= MaxAttempts
              THEN [verifies EXCEPT ![NextAttempt(w)] = @ + 1]
              ELSE verifies

Hold(w) ==
  /\ Arm(w)
  /\ Finish(w)
  /\ UNCHANGED <<call, members, messages, supervisor, callbacks, timeouts, published>>

\* The publish of the verify fails and is swallowed: the handler ends all the same.
HoldUnarmed(w) ==
  /\ "arm" \in Faults /\ task[w].kind # "step"
  /\ Finish(w)
  /\ UNCHANGED <<call, members, messages, supervisor, queue>>

\* A check holds, though all is there when a lagging replica does not show it.
HoldsOn(w, ready) ==
  \/ Hold(w) /\ IF ready THEN Fault("lag") ELSE UNCHANGED faults
  \/ HoldUnarmed(w) /\ Fault(IF ready THEN "lag" ELSE "arm")

\* Mutant: all but one are enough.
CountAllButOne(w) ==
  /\ stage[w] = "count"
  /\ Cardinality({m \in called : Filled(m)}) + 1 >= Cardinality(called)
  /\ Goto(w, "group")
  /\ UNCHANGED <<call, members, messages, supervisor, queue, task, found, faults>>

CountAll(w) ==
  /\ stage[w] = "count" /\ \A m \in called : Filled(m)
  /\ Goto(w, "group")
  /\ UNCHANGED <<call, members, messages, supervisor, queue, task, found, faults>>

\* Some are missing, or a replica does not show them: nobody counts again, the
\* verify it arms only looks at the group call.
CountTooFew(w) == stage[w] = "count" /\ HoldsOn(w, \A m \in called : Filled(m))

\* Mutant: the plugin state is replaced, and the disposition with it.
FillGroupAnew(w) ==
  /\ stage[w] = "group"
  /\ group' = [status |-> "completed", onComplete |-> "resume"]
  /\ Goto(w, "load")
  /\ UNCHANGED <<call, members, anchor, supervisor, queue, task, found, faults>>

\* Mutant: so is it here, and nothing is left of it.
FillGroupBare(w) ==
  /\ stage[w] = "group"
  /\ group' = [status |-> "completed"]
  /\ Goto(w, "load")
  /\ UNCHANGED <<call, members, anchor, supervisor, queue, task, found, faults>>

FillGroup(w) ==
  /\ stage[w] = "group"
  /\ group' = [group EXCEPT !.status = "completed"]
  /\ Goto(w, "load")
  /\ UNCHANGED <<call, members, anchor, supervisor, queue, task, found, faults>>

-----------------------------------------------------------------------------
(* tryResumeParentFromAsyncTool (taken further apart in AsyncToolResume): the *)
(* parked status stays until a step is published, so that loading it and      *)
(* reading the group call are one step.                                       *)

\* The stored disposition is read: a callback does not pass its own.
BarrierOpens(w) ==
  /\ stage[w] = "load" /\ parent = "waiting_for_async_tool" /\ GroupFilled
  /\ found' = [found EXCEPT ![w] = group.onComplete]
  /\ Goto(w, "cas")
  /\ UNCHANGED <<call, members, messages, supervisor, queue, task, faults>>

BarrierHolds(w) ==
  /\ stage[w] = "load"
  /\ HoldsOn(w, parent = "waiting_for_async_tool" /\ GroupFilled)

WinCas(w) ==
  /\ stage[w] = "cas" /\ row = "waiting_for_async_tool"
  /\ row' = "running"
  /\ Goto(w, "publish")
  /\ UNCHANGED <<call, members, messages, parent, queue, task, found, faults>>

LoseCas(w) ==
  /\ stage[w] = "cas" /\ row # "waiting_for_async_tool"
  /\ Finish(w)
  /\ UNCHANGED <<call, members, messages, supervisor, queue, faults>>

PublishNext(w) ==
  /\ stage[w] = "publish"
  /\ published' = [published EXCEPT ![found[w]] = @ + 1]
  /\ Finish(w)
  /\ UNCHANGED <<call, members, messages, supervisor, callbacks, timeouts, verifies,
                 faults>>

\* A failed delivery is made again.
Throws(w) ==
  /\ stage[w] \in {"timeout", "interrupt", "anchor", "count", "group", "load", "cas"}
  /\ task[w].kind # "step"
  /\ Fault(IF task[w].kind = "timeout" THEN "timeoutThrows" ELSE "throw")
  /\ callbacks' = IF task[w].kind = "callback"
                  THEN [callbacks EXCEPT ![<<task[w].member, task[w].outcome>>] = @ + 1]
                  ELSE callbacks
  /\ verifies' = IF task[w].kind = "verify"
                 THEN [verifies EXCEPT ![task[w].attempt] = @ + 1] ELSE verifies
  /\ timeouts' = IF task[w].kind = "timeout"
                 THEN timeouts \cup {task[w].member} ELSE timeouts
  /\ Finish(w)
  /\ UNCHANGED <<call, members, messages, supervisor, published>>

-----------------------------------------------------------------------------
Fork ==
  \/ \E m \in Members : MemberNotStarted(m) \/ \E hangs \in BOOLEAN : StartMember(m, hangs)
  \/ TearDown
  \/ \E w \in Workers : Park(w)

TakeMessage ==
  \E w \in Workers :
    \/ \E m \in Members : TakeTimeout(w, m) \/ \E o \in Outcomes : TakeCallback(w, m, o)
    \/ \E a \in Attempts : TakeVerify(w, a)

Handle(w) ==
  \/ WriteRow(w) \/ TimeoutLoads(w) \/ TimeoutInterrupts(w) \/ FillAnchor(w)
  \/ CountAll(w) \/ CountTooFew(w) \/ FillGroup(w)
  \/ BarrierOpens(w) \/ BarrierHolds(w)
  \/ WinCas(w) \/ LoseCas(w) \/ PublishNext(w)

Next ==
  \/ Fork \/ TakeMessage
  \/ \E w \in Workers : Handle(w) \/ Throws(w)
  \/ \E m \in Members, o \in Outcomes : MemberEnds(m, o) \/ DuplicateCallback(m, o)
  \/ \E m \in Members : MemberEndsUnheard(m)

Spec == Init /\ [][Next]_vars

\* The turn forks its members and parks, handlers run to their end, QStash makes
\* every delivery it owes, and a member that does not hang ends.
Fairness ==
  /\ WF_vars(Fork)
  /\ \A w \in Workers : WF_vars(Handle(w))
  /\ \A m \in Members : WF_vars(MemberEndsUnheard(m) \/ \E o \in Outcomes : MemberEnds(m, o))
  /\ \A m \in Members : WF_vars(\E w \in Workers : TakeTimeout(w, m))
  /\ \A m \in Members, o \in Outcomes : WF_vars(\E w \in Workers : TakeCallback(w, m, o))
  /\ \A a \in Attempts : WF_vars(\E w \in Workers : TakeVerify(w, a))

FairSpec == Spec /\ Fairness

-----------------------------------------------------------------------------
(* Properties.                                                               *)

TypeOK ==
  /\ called \subseteq Members /\ isolated \in BOOLEAN /\ asked \in Dispositions
  /\ member \in [Members -> Memberhood] /\ hung \subseteq Members
  /\ anchor \in [Members -> Anchors]
  /\ group \in [status : Anchors \cup {"deleted"}, onComplete : Dispositions]
  /\ parent \in ParentStatus /\ row \in ParentStatus
  /\ callbacks \in [Members \X Outcomes -> Nat]
  /\ timeouts \subseteq Members
  /\ verifies \in [Attempts -> Nat]
  /\ published \in [Dispositions -> Nat]
  /\ stage \in [Workers -> Stages]
  /\ task \in [Workers -> Tasks \cup {NoTask}]
  /\ found \in [Workers -> Dispositions]
  /\ faults \subseteq FaultKinds \X Nat

Released == \E d \in Dispositions : published[d] > 0

\* The group call is a join over its members: whatever is repeated, fails, times
\* out or lags, the supervisor goes on only when each of them has an answer.
ReleasedComplete == Released => \A m \in called : Filled(m)

\* The supervisor is released once, and as the call asked: a finish survives the
\* merges of the group call's plugin state and the collapse onto one member.
ReleasedAsAsked ==
  /\ published[asked] <= 1
  /\ \A d \in Dispositions \ {asked} : published[d] = 0

\* The last word of a member was not counted: a lagging read, a member that fails to
\* start while another ends, or whose failure is not marked; its callback was never
\* published; or its time-out was not scheduled, or failed half way.  A verify that
\* was not armed loses no word.
WordLost == \E k \in FaultKinds \ {"throw", "duplicate", "arm"} : Happened(k)

\* A member that hangs in the group, where it has no deadline.
Stranded(m) == m \in hung /\ ~isolated

\* A member will answer: it is still to start or to end by itself, its callback is
\* under way, or its time-out is and finds it running.
WillAnswer(m) ==
  \/ member[m] \in {"none", "running", "interrupted"} /\ m \notin hung
  \/ \E o \in Outcomes : callbacks[<<m, o>>] > 0
  \/ m \in timeouts /\ member[m] = "running"
  \/ \E w \in Workers :
       /\ task[w].kind \in {"callback", "timeout"} /\ task[w].member = m
       /\ stage[w] \in {"interrupt", "anchor"} \/ (stage[w] = "timeout" /\ member[m] = "running")

CallbackDue == \E m \in Members, o \in Outcomes : callbacks[<<m, o>>] > 0
AtWork(stages) == \E w \in Workers : stage[w] \in stages

\* The join over the members loses nobody: of a parked supervisor every member has
\* answered or will; when all have, somebody counts them; when they are counted,
\* somebody checks the barrier; and the park is a row to claim, or is being written
\* or published.  Callbacks that are repeated or fail, verifies that are not armed,
\* hanging members and any order of the answers and the park leave it so; but for a
\* lost word, and for a member that hangs without a deadline.
SupervisorHeld ==
  parent = "waiting_for_async_tool" /\ ~Released /\ ~WordLost =>
    /\ \A m \in called : Filled(m) \/ WillAnswer(m) \/ Stranded(m)
    /\ (\A m \in called : Filled(m)) =>
         GroupFilled \/ CallbackDue \/ AtWork({"anchor", "count", "group"})
    /\ GroupFilled /\ row = "waiting_for_async_tool" =>
         \/ CallbackDue \/ \E a \in Attempts : verifies[a] > 0
         \/ AtWork({"anchor", "count", "group", "load", "cas"})
    /\ row = "waiting_for_async_tool" \/ AtWork({"row", "publish"})

\* A supervisor is released at last, with members that hang, fail, answer twice or
\* are timed out, unless a member's word was lost or one hangs without a deadline.
GroupEnds ==
  <>(Released \/ parent = "inline" \/ WordLost \/ \E m \in called : Stranded(m))
=============================================================================
