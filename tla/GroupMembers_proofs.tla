------------------------- MODULE GroupMembers_proofs --------------------------
(* Theorems about GroupMembers, for any members, workers, attempts and        *)
(* faults: the supervisor goes on only when every member has its answer, at   *)
(* most once, and as its call asked.  That an anchor once filled stays filled *)
(* is true because the placeholders are deleted only when no member started,  *)
(* and then there is nobody to call back: the inductive invariant ties all    *)
(* there is to do to a member that has started.                               *)
EXTENDS GroupMembers, FiniteSetTheorems, TLAPS

TypeInv == TypeOK /\ IsFiniteSet(faults)

Started(m) == m \in called /\ member[m] \notin {"none", "notStarted"}
Somebody == \E m \in Members : Started(m)
AllFilled == \A m \in called : Filled(m)

\* Callbacks and time-outs are of members of the call that have started.
MessagesInv ==
  /\ \A m \in Members : member[m] # "none" => m \in called
  /\ \A m \in Members, o \in Outcomes : callbacks[<<m, o>>] > 0 => Started(m)
  /\ \A m \in timeouts : Started(m)
  /\ \A w \in Workers : task[w].kind \in {"callback", "timeout"} => Started(task[w].member)

\* Nothing is done, nor has been, unless somebody has started.
BusyInv ==
  /\ \A w \in Workers : stage[w] # "idle" => Somebody
  /\ \A a \in Attempts : verifies[a] > 0 => Somebody
  /\ Released \/ group.status \in Outcomes \/ parent = "waiting_for_async_tool" => Somebody

\* Past the count, the barrier or the group call's fill, all answers are in.
FilledInv ==
  /\ \A w \in Workers : stage[w] \in {"group", "cas", "publish"} => AllFilled
  /\ Released \/ group.status \in Outcomes => AllFilled

\* The park is one token: the turn that writes the row has it, then the row, then
\* the handler that won the CAS, then the message it publishes.
OnceInv ==
  /\ group.onComplete = asked
  /\ \A w \in Workers : stage[w] \in {"cas", "publish"} => found[w] = asked
  /\ ReleasedAsAsked
  /\ parent # "waiting_for_async_tool" =>
       /\ row # "waiting_for_async_tool" /\ ~Released
       /\ \A w \in Workers : stage[w] \notin {"row", "publish"}
  /\ \A w \in Workers : stage[w] \in {"row", "publish"} =>
       /\ row # "waiting_for_async_tool" /\ ~Released
       /\ \A v \in Workers : stage[v] \in {"row", "publish"} => v = w
  /\ row = "waiting_for_async_tool" => ~Released

IInv == TypeInv /\ MessagesInv /\ BusyInv /\ FilledInv /\ OnceInv

-----------------------------------------------------------------------------
\* Types.

\* What a handler's message tells, by its kind.
LEMMA TaskTypes ==
  ASSUME NEW what \in Tasks \cup {NoTask}
  PROVE  /\ what.kind \in {"none", "step", "callback", "timeout", "verify"}
         /\ what.kind = "callback" => what.member \in Members /\ what.outcome \in Outcomes
         /\ what.kind = "timeout" => what.member \in Members
         /\ what.kind = "verify" => what.attempt \in Attempts
BY DEF Tasks, NoTask

\* The messages the queue delivers are tasks.
LEMMA TaskMade ==
  /\ [kind |-> "step"] \in Tasks
  /\ \A m \in Members : [kind |-> "timeout", member |-> m] \in Tasks
  /\ \A m \in Members, o \in Outcomes :
       [kind |-> "callback", member |-> m, outcome |-> o] \in Tasks
  /\ \A a \in Attempts : [kind |-> "verify", attempt |-> a] \in Tasks
BY DEF Tasks

\* The types of what a worker does.
WorkerTypes ==
  /\ stage \in [Workers -> Stages]
  /\ task \in [Workers -> Tasks \cup {NoTask}]
  /\ found \in [Workers -> Dispositions]

\* The types of what happens to members and their messages.
GroupTypes ==
  /\ called \subseteq Members /\ isolated \in BOOLEAN /\ asked \in Dispositions
  /\ member \in [Members -> Memberhood] /\ hung \subseteq Members
  /\ anchor \in [Members -> Anchors]
  /\ group \in [status : Anchors \cup {"deleted"}, onComplete : Dispositions]
  /\ parent \in ParentStatus /\ row \in ParentStatus

\* The types of the queue.
QueueTypes ==
  /\ callbacks \in [Members \X Outcomes -> Nat]
  /\ timeouts \subseteq Members
  /\ verifies \in [Attempts -> Nat]
  /\ published \in [Dispositions -> Nat]

FaultTypes == faults \subseteq FaultKinds \X Nat /\ IsFiniteSet(faults)

\* The parts of TypeInv.
LEMMA TypeParts ==
  /\ TypeInv <=> WorkerTypes /\ GroupTypes /\ QueueTypes /\ FaultTypes
  /\ TypeInv' <=> WorkerTypes' /\ GroupTypes' /\ QueueTypes' /\ FaultTypes'
BY DEF TypeInv, TypeOK, WorkerTypes, GroupTypes, QueueTypes, FaultTypes

\* A fault is numbered by how many there were.
LEMMA FaultTyped ==
  ASSUME FaultTypes, NEW kind, Fault(kind)
  PROVE  FaultTypes'
<1>1. Cardinality(faults) \in Nat
  BY FS_CardinalityType DEF FaultTypes
<1>2. kind \in FaultKinds
  BY FaultsAssumption DEF Fault
<1>3. IsFiniteSet(faults \cup {<<kind, Cardinality(faults)>>})
  BY FS_AddElement DEF FaultTypes
<1> QED BY <1>1, <1>2, <1>3 DEF Fault, FaultTypes

\* A worker that goes on within its handler.
LEMMA GotoTyped ==
  ASSUME WorkerTypes, NEW w \in Workers, NEW label \in Stages, Goto(w, label),
         UNCHANGED <<task, found>>
  PROVE  /\ WorkerTypes' /\ stage'[w] = label
         /\ \A v \in Workers : v # w => stage'[v] = stage[v]
BY DEF WorkerTypes, Goto

\* A worker that takes a message.
LEMMA TakeTyped ==
  ASSUME WorkerTypes, NEW w \in Workers, NEW label \in Stages, NEW what \in Tasks,
         Take(w, label, what), UNCHANGED found
  PROVE  /\ WorkerTypes' /\ stage[w] = "idle" /\ stage'[w] = label /\ task'[w] = what
         /\ \A v \in Workers : v # w => stage'[v] = stage[v] /\ task'[v] = task[v]
BY DEF WorkerTypes, Goto, Take

\* A worker that is done.
LEMMA FinishTyped ==
  ASSUME WorkerTypes, NEW w \in Workers, Finish(w)
  PROVE  /\ WorkerTypes' /\ stage'[w] = "idle" /\ task'[w] = NoTask
         /\ \A v \in Workers : v # w => /\ stage'[v] = stage[v] /\ task'[v] = task[v]
                                        /\ found'[v] = found[v]
<1>1. "idle" \in Stages /\ "resume" \in Dispositions
  BY DEF Stages, Dispositions
<1> QED BY <1>1 DEF WorkerTypes, Finish, Goto

\* One more delivery of a kind, and no less of the others.
LEMMA MoreCallbacks ==
  ASSUME QueueTypes, NEW m \in Members, NEW o \in Outcomes,
         callbacks' = [callbacks EXCEPT ![<<m, o>>] = @ + 1]
  PROVE  /\ callbacks' \in [Members \X Outcomes -> Nat]
         /\ \A n \in Members, p \in Outcomes :
              callbacks'[<<n, p>>] > 0 => callbacks[<<n, p>>] > 0 \/ n = m
<1>1. callbacks \in [Members \X Outcomes -> Nat] /\ <<m, o>> \in Members \X Outcomes
  BY DEF QueueTypes
<1>3. callbacks' \in [Members \X Outcomes -> Nat]
  BY <1>1
<1>4. ASSUME NEW c \in Members \X Outcomes, c # <<m, o>> PROVE callbacks'[c] = callbacks[c]
  BY <1>1, <1>4
<1>5. ASSUME NEW n \in Members, NEW p \in Outcomes, callbacks'[<<n, p>>] > 0, n # m
      PROVE  callbacks[<<n, p>>] > 0
  <2>1. <<n, p>> \in Members \X Outcomes /\ <<n, p>> # <<m, o>>
    BY <1>5
  <2> QED BY <1>4, <1>5, <2>1
<1> QED BY <1>3, <1>5

\* One less.
LEMMA FewerCallbacks ==
  ASSUME QueueTypes, NEW m \in Members, NEW o \in Outcomes, callbacks[<<m, o>>] > 0,
         callbacks' = [callbacks EXCEPT ![<<m, o>>] = @ - 1]
  PROVE  /\ callbacks' \in [Members \X Outcomes -> Nat]
         /\ \A n \in Members, p \in Outcomes : callbacks'[<<n, p>>] > 0 => callbacks[<<n, p>>] > 0
<1>1. callbacks \in [Members \X Outcomes -> Nat] /\ <<m, o>> \in Members \X Outcomes
  BY DEF QueueTypes
<1>3. callbacks[<<m, o>>] \in Nat /\ callbacks[<<m, o>>] > 0
  BY <1>1
<1>2. callbacks[<<m, o>>] - 1 \in Nat
  BY <1>3
<1>4. callbacks' \in [Members \X Outcomes -> Nat]
  BY <1>1, <1>2
<1>5. ASSUME NEW c \in Members \X Outcomes, callbacks'[c] > 0 PROVE callbacks[c] > 0
  <2>1. CASE c = <<m, o>>
    BY <2>1, <1>3
  <2>2. CASE c # <<m, o>>
    BY <2>2, <1>1, <1>5
  <2> QED BY <2>1, <2>2
<1> QED BY <1>4, <1>5

\* A held check's verify.
LEMMA ArmTyped ==
  ASSUME TypeInv, NEW w \in Workers, Arm(w)
  PROVE  /\ verifies' \in [Attempts -> Nat]
         /\ \A a \in Attempts : verifies'[a] > 0 => verifies[a] > 0 \/ NextAttempt(w) = a
<1>1. verifies \in [Attempts -> Nat] /\ task[w] \in Tasks \cup {NoTask}
  BY DEF TypeInv, TypeOK
<1>2. NextAttempt(w) <= MaxAttempts => NextAttempt(w) \in Attempts
  BY <1>1, TaskTypes, BoundsAssumption DEF NextAttempt, Attempts
<1> QED BY <1>1, <1>2 DEF Arm

-----------------------------------------------------------------------------
\* The call is made, and nothing has happened.
LEMMA InitInv == Init => IInv
<1> SUFFICES ASSUME Init PROVE IInv
  OBVIOUS
<1>1. /\ called \subseteq Members /\ asked \in Dispositions
      /\ group \in [status : Anchors \cup {"deleted"}, onComplete : Dispositions]
      /\ anchor \in [Members -> Anchors]
  BY AsksAssumption DEF Init, Dispositions, Anchors
<1>2. TypeInv
  <2>1. WorkerTypes
    BY DEF Init, WorkerTypes, Stages, Dispositions
  <2>2. GroupTypes
    BY <1>1 DEF Init, GroupTypes, Memberhood, ParentStatus
  <2>3. QueueTypes
    BY DEF Init, QueueTypes
  <2>4. FaultTypes
    BY FS_EmptySet DEF Init, FaultTypes
  <2> QED BY <2>1, <2>2, <2>3, <2>4, TypeParts
<1>3. MessagesInv
  <2>1. \A m \in Members, o \in Outcomes : callbacks[<<m, o>>] = 0
    BY DEF Init
  <2> QED BY <2>1 DEF Init, MessagesInv, NoTask
<1>4. ~Released /\ group.status \notin Outcomes
  BY DEF Init, Released, Outcomes
<1>5. BusyInv /\ FilledInv
  BY <1>4 DEF Init, BusyInv, FilledInv
<1>6. ReleasedAsAsked
  BY <1>1 DEF Init, ReleasedAsAsked
<1>7. OnceInv
  BY <1>4, <1>6 DEF Init, OnceInv
<1> QED BY <1>2, <1>3, <1>5, <1>7 DEF IInv

-----------------------------------------------------------------------------
\* The steps that leave the supervisor and the group call alone are judged by
\* what they do to the members, the queue and the handlers.

\* What has started stays so, what is filled too, and no other member is named.
MembersGrow ==
  \A m \in Members :
    /\ Started(m) => Started(m)'
    /\ Filled(m) => Filled(m)'
    /\ member'[m] # "none" => m \in called

\* What is delivered was due before, or is of a member that has started.
DueOfStarted ==
  /\ \A m \in Members, o \in Outcomes : callbacks'[<<m, o>>] > 0 => callbacks[<<m, o>>] > 0 \/ Started(m)'
  /\ \A m \in timeouts' : m \in timeouts \/ Started(m)'
  /\ \A a \in Attempts : verifies'[a] > 0 => verifies[a] > 0 \/ Somebody

\* What a handler has in hand.
TaskKept(v) ==
  \/ task'[v] = task[v]
  \/ task'[v].kind \notin {"callback", "timeout"}
  \/ Started(task[v].member)'

\* Where a handler may have gone.
Moves(v) ==
  \/ stage'[v] = stage[v] /\ found'[v] = found[v]
  \/ stage'[v] = "idle"
  \/ stage'[v] \in {"timeout", "interrupt", "anchor", "count", "load"} /\ Somebody
  \/ stage'[v] = "group" /\ AllFilled /\ Somebody
  \/ stage'[v] = "cas" /\ AllFilled /\ Somebody /\ found'[v] = asked

\* Such a step keeps the invariant.
LEMMA Kept ==
  ASSUME IInv, TypeInv', UNCHANGED <<call, supervisor, group, published>>,
         MembersGrow, DueOfStarted, \A v \in Workers : TaskKept(v) /\ Moves(v)
  PROVE  IInv'
<1>1. UNCHANGED <<called, asked, parent, row, group, published>> /\ (Released' <=> Released)
  BY DEF call, supervisor, Released
<1>2. called \subseteq Members
  BY DEF IInv, TypeInv, TypeOK
<1>3. (Somebody => Somebody') /\ (AllFilled => AllFilled')
  BY <1>1, <1>2 DEF MembersGrow, Somebody, AllFilled
<1>4. MessagesInv'
  <2>1. \A m \in Members : member'[m] # "none" => m \in called'
    BY <1>1 DEF MembersGrow
  <2>2. \A m \in Members, o \in Outcomes : callbacks'[<<m, o>>] > 0 => Started(m)'
    BY DEF MembersGrow, DueOfStarted, IInv, MessagesInv
  <2>3. \A m \in timeouts' : Started(m)'
    <3>1. timeouts \subseteq Members
      BY DEF IInv, TypeInv, TypeOK
    <3> QED BY <3>1 DEF MembersGrow, DueOfStarted, IInv, MessagesInv
  <2>4. ASSUME NEW w \in Workers, task'[w].kind \in {"callback", "timeout"}
        PROVE  Started(task[w].member)'
    <3>1. CASE task'[w] = task[w]
      <4>1. Started(task[w].member)
        BY <3>1, <2>4 DEF IInv, MessagesInv
      <4>2. task[w].member \in Members
        BY <4>1, <1>2 DEF Started
      <4> QED BY <3>1, <4>1, <4>2 DEF MembersGrow, Started
    <3> QED BY <2>4, <3>1 DEF TaskKept
  <2> QED BY <2>1, <2>2, <2>3, <2>4 DEF MessagesInv
<1>5. BusyInv'
  <2>1. \A v \in Workers : stage'[v] # "idle" => Somebody
    BY DEF Moves, IInv, BusyInv
  <2> QED BY <1>1, <1>3, <2>1 DEF DueOfStarted, IInv, BusyInv
<1>6. FilledInv'
  <2>1. \A v \in Workers : stage'[v] \in {"group", "cas", "publish"} => AllFilled
    BY DEF Moves, IInv, FilledInv
  <2> QED BY <1>1, <1>3, <2>1 DEF IInv, FilledInv
<1>7. OnceInv'
  <2>1. \A v \in Workers : /\ stage'[v] \in {"row", "publish"} => stage[v] = stage'[v]
                           /\ stage'[v] \in {"cas", "publish"} => found'[v] = asked
    BY DEF Moves, IInv, OnceInv
  <2>2. ReleasedAsAsked'
    BY <1>1 DEF ReleasedAsAsked, IInv, OnceInv
  <2>3. group.onComplete = asked
    BY DEF IInv, OnceInv
  <2>4. parent # "waiting_for_async_tool" =>
           /\ row # "waiting_for_async_tool" /\ ~Released
           /\ \A v \in Workers : stage'[v] \notin {"row", "publish"}
    BY <2>1 DEF IInv, OnceInv
  <2>5. \A w \in Workers : stage'[w] \in {"row", "publish"} =>
           /\ row # "waiting_for_async_tool" /\ ~Released
           /\ \A v \in Workers : stage'[v] \in {"row", "publish"} => v = w
    BY <2>1 DEF IInv, OnceInv
  <2>6. row = "waiting_for_async_tool" => ~Released
    BY DEF IInv, OnceInv
  <2> HIDE DEF Released
  <2> QED BY <1>1, <2>1, <2>2, <2>3, <2>4, <2>5, <2>6 DEF OnceInv
<1> QED BY <1>4, <1>5, <1>6, <1>7 DEF IInv

\* What does not change is kept.
LEMMA Unmoved ==
  /\ UNCHANGED <<call, member, anchor>> /\ IInv => MembersGrow
  /\ UNCHANGED <<callbacks, timeouts, verifies>> => DueOfStarted
  /\ UNCHANGED <<stage, task, found>> => \A v \in Workers : TaskKept(v) /\ Moves(v)
<1>1. UNCHANGED <<call, member, anchor>> /\ IInv => MembersGrow
  BY DEF call, MembersGrow, Started, Filled, IInv, MessagesInv
<1>2. UNCHANGED <<callbacks, timeouts, verifies>> => DueOfStarted
  BY DEF DueOfStarted
<1>3. UNCHANGED <<stage, task, found>> => \A v \in Workers : TaskKept(v) /\ Moves(v)
  BY DEF TaskKept, Moves
<1> QED BY <1>1, <1>2, <1>3

\* One handler moves.
LEMMA OneMoves ==
  ASSUME NEW w \in Workers, TaskKept(w), Moves(w),
         \A v \in Workers : v # w => /\ stage'[v] = stage[v] /\ task'[v] = task[v]
                                     /\ found'[v] = found[v]
  PROVE  \A v \in Workers : TaskKept(v) /\ Moves(v)
BY DEF TaskKept, Moves

\* Whoever handles something does so for a member that has started.
LEMMA Busy ==
  ASSUME IInv, NEW w \in Workers, stage[w] # "idle"
  PROVE  Somebody
BY DEF IInv, BusyInv

-----------------------------------------------------------------------------
\* The turn forks its members, and they end.

\* A member that starts is of the call.
LEMMA StartMemberInv ==
  ASSUME IInv, NEW m \in Members, NEW hangs \in BOOLEAN, StartMember(m, hangs)
  PROVE  IInv'
<1>1. WorkerTypes /\ GroupTypes /\ QueueTypes /\ FaultTypes
  BY TypeParts DEF IInv
<1>2. UNCHANGED <<call, supervisor, group, published, anchor, callbacks, verifies, stage, task,
                  found>>
  BY DEF StartMember, messages
<1>3. /\ m \in called /\ member[m] = "none"
      /\ member' = [member EXCEPT ![m] = "running"]
      /\ timeouts' \subseteq timeouts \cup {m} /\ hung' \subseteq hung \cup {m}
  BY DEF StartMember
<1>4. TypeInv'
  <2>1. WorkerTypes' /\ QueueTypes'
    BY <1>1, <1>2, <1>3 DEF WorkerTypes, QueueTypes
  <2>2. "running" \in Memberhood
    BY DEF Memberhood
  <2>3. member' \in [Members -> Memberhood]
    BY <1>1, <1>3, <2>2 DEF GroupTypes
  <2>4. GroupTypes'
    BY <1>1, <1>2, <1>3, <2>3 DEF GroupTypes, call, supervisor
  <2>5. FaultTypes'
    BY <1>1, FaultTyped DEF StartMember, FaultTypes
  <2> QED BY <2>1, <2>4, <2>5, TypeParts
<1>5. /\ member'[m] = "running"
      /\ \A n \in Members : n # m => member'[n] = member[n]
  BY <1>1, <1>3 DEF GroupTypes
<1>6. MembersGrow
  BY <1>2, <1>3, <1>5 DEF MembersGrow, Started, Filled, call, IInv, MessagesInv
<1>7. DueOfStarted
  BY <1>2, <1>3, <1>5 DEF DueOfStarted, Started, call
<1>8. \A v \in Workers : TaskKept(v) /\ Moves(v)
  BY <1>2, Unmoved
<1> QED BY <1>2, <1>4, <1>6, <1>7, <1>8, Kept

\* One that does not start has, or has not, its anchor filled.
LEMMA MemberNotStartedInv ==
  ASSUME IInv, NEW m \in Members, MemberNotStarted(m)
  PROVE  IInv'
<1>1. WorkerTypes /\ GroupTypes /\ QueueTypes /\ FaultTypes
  BY TypeParts DEF IInv
<1>2. UNCHANGED <<call, hung, supervisor, group, published, callbacks, timeouts, verifies,
                  stage, task, found>>
  BY DEF MemberNotStarted, queue
<1>3. /\ m \in called /\ member[m] = "none"
      /\ member' = [member EXCEPT ![m] = "notStarted"]
      /\ anchor' = [anchor EXCEPT ![m] = "error"] \/ anchor' = anchor
  BY DEF MemberNotStarted
<1>4. "notStarted" \in Memberhood /\ "error" \in Anchors /\ "error" \in Outcomes
  BY DEF Memberhood, Anchors, Outcomes
<1>5. TypeInv'
  <2>1. WorkerTypes' /\ QueueTypes'
    BY <1>1, <1>2 DEF WorkerTypes, QueueTypes
  <2>2. member' \in [Members -> Memberhood] /\ anchor' \in [Members -> Anchors]
    BY <1>1, <1>3, <1>4 DEF GroupTypes
  <2>3. GroupTypes'
    BY <1>1, <1>2, <2>2 DEF GroupTypes, call, supervisor
  <2>4. FaultTypes'
    BY <1>1, FaultTyped DEF MemberNotStarted
  <2> QED BY <2>1, <2>3, <2>4, TypeParts
<1>6. \A n \in Members : /\ n # m => member'[n] = member[n] /\ anchor'[n] = anchor[n]
                         /\ anchor'[n] = anchor[n] \/ anchor'[n] = "error"
  BY <1>1, <1>3 DEF GroupTypes
<1>7. MembersGrow
  BY <1>2, <1>3, <1>4, <1>6 DEF MembersGrow, Started, Filled, call, IInv, MessagesInv
<1>8. DueOfStarted /\ \A v \in Workers : TaskKept(v) /\ Moves(v)
  BY <1>2, Unmoved
<1> QED BY <1>2, <1>5, <1>7, <1>8, Kept

\* A member that ends is one that has started, and so is its callback.
LEMMA MemberEndsInv ==
  ASSUME IInv, NEW m \in Members, NEW outcome \in Outcomes, MemberEnds(m, outcome)
  PROVE  IInv'
<1>1. WorkerTypes /\ GroupTypes /\ QueueTypes /\ FaultTypes
  BY TypeParts DEF IInv
<1>2. UNCHANGED <<call, hung, supervisor, group, anchor, published, timeouts, verifies, stage,
                  task, found, faults>>
  BY DEF MemberEnds, messages
<1>3. /\ member[m] \in {"running", "interrupted"}
      /\ member' = [member EXCEPT ![m] = "ended"]
      /\ callbacks' = [callbacks EXCEPT ![<<m, outcome>>] = @ + 1]
  BY DEF MemberEnds
<1>4. m \in called
  BY <1>3 DEF IInv, MessagesInv
<1>5. /\ callbacks' \in [Members \X Outcomes -> Nat]
      /\ \A n \in Members, p \in Outcomes : callbacks'[<<n, p>>] > 0 =>
                                              callbacks[<<n, p>>] > 0 \/ n = m
  BY <1>1, <1>3, MoreCallbacks
<1>6. TypeInv'
  <2>1. "ended" \in Memberhood
    BY DEF Memberhood
  <2>2. member' \in [Members -> Memberhood]
    BY <1>1, <1>3, <2>1 DEF GroupTypes
  <2>3. WorkerTypes' /\ GroupTypes' /\ QueueTypes' /\ FaultTypes'
    BY <1>1, <1>2, <1>5, <2>2
    DEF WorkerTypes, GroupTypes, QueueTypes, FaultTypes, call, supervisor
  <2> QED BY <2>3, TypeParts
<1>7. /\ member'[m] = "ended"
      /\ \A n \in Members : n # m => member'[n] = member[n]
  BY <1>1, <1>3 DEF GroupTypes
<1>8. MembersGrow
  BY <1>2, <1>4, <1>7 DEF MembersGrow, Started, Filled, call, IInv, MessagesInv
<1>9. DueOfStarted
  BY <1>2, <1>4, <1>5, <1>7 DEF DueOfStarted, Started, call
<1>10. \A v \in Workers : TaskKept(v) /\ Moves(v)
  BY <1>2, Unmoved
<1> QED BY <1>2, <1>6, <1>8, <1>9, <1>10, Kept

\* So does one whose callback is not published.
LEMMA MemberEndsUnheardInv ==
  ASSUME IInv, NEW m \in Members, MemberEndsUnheard(m)
  PROVE  IInv'
<1>1. WorkerTypes /\ GroupTypes /\ QueueTypes /\ FaultTypes
  BY TypeParts DEF IInv
<1>2. UNCHANGED <<call, hung, supervisor, group, anchor, published, callbacks, timeouts,
                  verifies, stage, task, found>>
  BY DEF MemberEndsUnheard, messages, queue
<1>3. /\ member[m] \in {"running", "interrupted"} /\ Fault("webhook")
      /\ member' = [member EXCEPT ![m] = "ended"]
  BY DEF MemberEndsUnheard
<1>4. m \in called
  BY <1>3 DEF IInv, MessagesInv
<1>5. TypeInv'
  <2>1. "ended" \in Memberhood
    BY DEF Memberhood
  <2>2. member' \in [Members -> Memberhood]
    BY <1>1, <1>3, <2>1 DEF GroupTypes
  <2>3. FaultTypes'
    BY <1>1, <1>3, FaultTyped
  <2>4. WorkerTypes' /\ GroupTypes' /\ QueueTypes'
    BY <1>1, <1>2, <2>2 DEF WorkerTypes, GroupTypes, QueueTypes, call, supervisor
  <2> QED BY <2>3, <2>4, TypeParts
<1>6. /\ member'[m] = "ended"
      /\ \A n \in Members : n # m => member'[n] = member[n]
  BY <1>1, <1>3 DEF GroupTypes
<1>7. MembersGrow
  BY <1>2, <1>4, <1>6 DEF MembersGrow, Started, Filled, call, IInv, MessagesInv
<1>8. DueOfStarted
  BY <1>2, <1>4, <1>6 DEF DueOfStarted, Started, call
<1>9. \A v \in Workers : TaskKept(v) /\ Moves(v)
  BY <1>2, Unmoved
<1> QED BY <1>2, <1>5, <1>7, <1>8, <1>9, Kept

\* What is delivered twice is due already.
LEMMA DuplicateCallbackInv ==
  ASSUME IInv, NEW m \in Members, NEW outcome \in Outcomes, DuplicateCallback(m, outcome)
  PROVE  IInv'
<1>1. WorkerTypes /\ GroupTypes /\ QueueTypes /\ FaultTypes
  BY TypeParts DEF IInv
<1>2. UNCHANGED <<call, member, hung, supervisor, group, anchor, published, timeouts, verifies,
                  stage, task, found>>
  BY DEF DuplicateCallback, members, messages
<1>3. callbacks' = [callbacks EXCEPT ![<<m, outcome>>] = @ + 1]
  BY DEF DuplicateCallback
<1>4. Started(m)
  BY DEF DuplicateCallback, IInv, MessagesInv
<1>5. /\ callbacks' \in [Members \X Outcomes -> Nat]
      /\ \A n \in Members, p \in Outcomes : callbacks'[<<n, p>>] > 0 =>
                                              callbacks[<<n, p>>] > 0 \/ n = m
  BY <1>1, <1>3, MoreCallbacks
<1>6. TypeInv'
  <2>1. WorkerTypes' /\ GroupTypes' /\ QueueTypes'
    BY <1>1, <1>2, <1>5
    DEF WorkerTypes, GroupTypes, QueueTypes, call, supervisor
  <2>2. FaultTypes'
    BY <1>1, FaultTyped DEF DuplicateCallback
  <2> QED BY <2>1, <2>2, TypeParts
<1>7. MembersGrow /\ \A v \in Workers : TaskKept(v) /\ Moves(v)
  BY <1>2, Unmoved
<1>8. DueOfStarted
  BY <1>2, <1>4, <1>5 DEF DueOfStarted, Started, call
<1> QED BY <1>2, <1>6, <1>7, <1>8, Kept

-----------------------------------------------------------------------------
\* Messages are delivered.

\* A handler that moves on, and nothing but the queue and the faults with it.
LEMMA HandlerMoves ==
  ASSUME IInv, NEW w \in Workers, WorkerTypes', QueueTypes', FaultTypes',
         UNCHANGED <<call, members, messages, supervisor, published>>,
         DueOfStarted, TaskKept(w), Moves(w),
         \A v \in Workers : v # w => /\ stage'[v] = stage[v] /\ task'[v] = task[v]
                                     /\ found'[v] = found[v]
  PROVE  IInv'
<1>1. GroupTypes'
  BY TypeParts DEF IInv, GroupTypes, call, members, messages, supervisor
<1>2. TypeInv'
  BY <1>1, TypeParts
<1>3. MembersGrow
  BY Unmoved DEF members, messages
<1>4. \A v \in Workers : TaskKept(v) /\ Moves(v)
  BY OneMoves
<1> QED BY <1>2, <1>3, <1>4, Kept DEF messages

\* A callback is in hand, of a member that has started.
LEMMA TakeCallbackInv ==
  ASSUME IInv, NEW w \in Workers, NEW m \in Members, NEW outcome \in Outcomes,
         TakeCallback(w, m, outcome)
  PROVE  IInv'
<1>1. WorkerTypes /\ GroupTypes /\ QueueTypes /\ FaultTypes
  BY TypeParts DEF IInv
<1> DEFINE what == [kind |-> "callback", member |-> m, outcome |-> outcome]
<1>2. /\ UNCHANGED <<call, members, messages, supervisor, published, timeouts, verifies,
                     found, faults>>
      /\ Take(w, "anchor", what)
  BY DEF TakeCallback
<1>3. what \in Tasks /\ what.kind = "callback" /\ what.member = m /\ "anchor" \in Stages
  BY TaskMade DEF Stages
<1> HIDE DEF what
<1>4. /\ WorkerTypes' /\ stage'[w] = "anchor" /\ task'[w] = what
      /\ \A v \in Workers : v # w => stage'[v] = stage[v] /\ task'[v] = task[v]
  BY <1>1, <1>2, <1>3, TakeTyped
<1>5. /\ callbacks' \in [Members \X Outcomes -> Nat]
      /\ \A n \in Members, p \in Outcomes :
           callbacks'[<<n, p>>] > 0 => callbacks[<<n, p>>] > 0
  BY <1>1, FewerCallbacks DEF TakeCallback
<1>6. QueueTypes' /\ FaultTypes' /\ DueOfStarted
  BY <1>1, <1>2, <1>5 DEF QueueTypes, FaultTypes, DueOfStarted
<1>7. Started(m) /\ Somebody
  BY DEF TakeCallback, IInv, MessagesInv, Somebody
<1>8. TaskKept(w) /\ Moves(w)
  BY <1>2, <1>3, <1>4, <1>7 DEF TaskKept, Moves, Started, call, members
<1> QED BY <1>2, <1>4, <1>6, <1>8, HandlerMoves

\* So is a time-out.
LEMMA TakeTimeoutInv ==
  ASSUME IInv, NEW w \in Workers, NEW m \in Members, TakeTimeout(w, m)
  PROVE  IInv'
<1>1. WorkerTypes /\ GroupTypes /\ QueueTypes /\ FaultTypes
  BY TypeParts DEF IInv
<1> DEFINE what == [kind |-> "timeout", member |-> m]
<1>2. /\ UNCHANGED <<call, members, messages, supervisor, published, callbacks, verifies,
                     found, faults>>
      /\ Take(w, "timeout", what) /\ timeouts' \subseteq timeouts
  BY DEF TakeTimeout
<1>3. what \in Tasks /\ what.kind = "timeout" /\ what.member = m /\ "timeout" \in Stages
  BY TaskMade DEF Stages
<1> HIDE DEF what
<1>4. /\ WorkerTypes' /\ stage'[w] = "timeout" /\ task'[w] = what
      /\ \A v \in Workers : v # w => stage'[v] = stage[v] /\ task'[v] = task[v]
  BY <1>1, <1>2, <1>3, TakeTyped
<1>5. QueueTypes' /\ FaultTypes' /\ DueOfStarted
  BY <1>1, <1>2 DEF QueueTypes, FaultTypes, DueOfStarted
<1>6. Started(m) /\ Somebody
  BY DEF TakeTimeout, IInv, MessagesInv, Somebody
<1>7. TaskKept(w) /\ Moves(w)
  BY <1>2, <1>3, <1>4, <1>6 DEF TaskKept, Moves, Started, call, members
<1> QED BY <1>2, <1>4, <1>5, <1>7, HandlerMoves

\* A verify is armed by somebody's handler.
LEMMA TakeVerifyInv ==
  ASSUME IInv, NEW w \in Workers, NEW a \in Attempts, TakeVerify(w, a)
  PROVE  IInv'
<1>1. WorkerTypes /\ GroupTypes /\ QueueTypes /\ FaultTypes
  BY TypeParts DEF IInv
<1> DEFINE what == [kind |-> "verify", attempt |-> a]
<1>2. /\ UNCHANGED <<call, members, messages, supervisor, published, callbacks, timeouts,
                     found, faults>>
      /\ Take(w, "load", what) /\ verifies[a] > 0
      /\ verifies' = [verifies EXCEPT ![a] = @ - 1]
  BY DEF TakeVerify
<1>3. what \in Tasks /\ what.kind = "verify" /\ "load" \in Stages
  BY TaskMade DEF Stages
<1> HIDE DEF what
<1>4. /\ WorkerTypes' /\ stage'[w] = "load" /\ task'[w] = what
      /\ \A v \in Workers : v # w => stage'[v] = stage[v] /\ task'[v] = task[v]
  BY <1>1, <1>2, <1>3, TakeTyped
<1>5. verifies' \in [Attempts -> Nat] /\ \A b \in Attempts : verifies'[b] > 0 => verifies[b] > 0
  BY <1>1, <1>2 DEF QueueTypes
<1>6. QueueTypes' /\ FaultTypes' /\ DueOfStarted
  BY <1>1, <1>2, <1>5 DEF QueueTypes, FaultTypes, DueOfStarted
<1>7. Somebody
  BY <1>2 DEF IInv, BusyInv
<1>8. TaskKept(w) /\ Moves(w)
  BY <1>3, <1>4, <1>7 DEF TaskKept, Moves
<1> QED BY <1>2, <1>4, <1>6, <1>8, HandlerMoves

-----------------------------------------------------------------------------
\* The handlers of the members' messages.

\* A time-out of a member that has ended is dropped.
LEMMA TimeoutLoadsInv ==
  ASSUME IInv, NEW w \in Workers, TimeoutLoads(w)
  PROVE  IInv'
<1>1. WorkerTypes /\ GroupTypes /\ QueueTypes /\ FaultTypes
  BY TypeParts DEF IInv
<1>2. /\ UNCHANGED <<call, members, messages, supervisor, queue, faults>>
      /\ UNCHANGED <<published, callbacks, timeouts, verifies>>
  BY DEF TimeoutLoads, queue
<1>3. QueueTypes' /\ FaultTypes' /\ DueOfStarted
  BY <1>1, <1>2, Unmoved DEF QueueTypes, FaultTypes
<1>4. Somebody
  BY Busy DEF TimeoutLoads
<1>5. CASE Goto(w, "interrupt") /\ UNCHANGED <<task, found>>
  <2>1. /\ WorkerTypes' /\ stage'[w] = "interrupt"
        /\ \A v \in Workers : v # w => stage'[v] = stage[v]
    BY <1>1, <1>5, GotoTyped DEF Stages
  <2>2. TaskKept(w) /\ Moves(w)
    BY <1>4, <1>5, <2>1 DEF TaskKept, Moves
  <2> QED BY <1>2, <1>3, <1>5, <2>1, <2>2, HandlerMoves
<1>6. CASE Finish(w)
  <2>1. TaskKept(w) /\ Moves(w)
    BY <1>1, <1>6, FinishTyped DEF TaskKept, Moves, NoTask
  <2> QED BY <1>1, <1>2, <1>3, <1>6, <2>1, FinishTyped, HandlerMoves
<1> QED BY <1>5, <1>6 DEF TimeoutLoads

\* An interrupted member has still started.
LEMMA TimeoutInterruptsInv ==
  ASSUME IInv, NEW w \in Workers, TimeoutInterrupts(w)
  PROVE  IInv'
<1>1. WorkerTypes /\ GroupTypes /\ QueueTypes /\ FaultTypes
  BY TypeParts DEF IInv
<1> DEFINE m == task[w].member
<1>2. /\ UNCHANGED <<call, hung, messages, supervisor, queue, task, found, faults>>
      /\ UNCHANGED <<group, anchor, published, callbacks, timeouts, verifies>>
      /\ Goto(w, "anchor")
      /\ member' = [member EXCEPT ![m] = IF @ = "running" THEN "interrupted" ELSE @]
  BY DEF TimeoutInterrupts, queue, messages
<1> HIDE DEF m
<1>3. /\ WorkerTypes' /\ stage'[w] = "anchor"
      /\ \A v \in Workers : v # w => stage'[v] = stage[v]
  BY <1>1, <1>2, GotoTyped DEF Stages
<1>4. \A n \in Members :
        member'[n] = member[n] \/ (member[n] = "running" /\ member'[n] = "interrupted")
  BY <1>1, <1>2 DEF GroupTypes
<1>5. TypeInv'
  <2>1. member' \in [Members -> Memberhood]
    <3>1. "interrupted" \in Memberhood
      BY DEF Memberhood
    <3>2. \A n \in Members : member'[n] \in Memberhood
      BY <1>1, <1>4, <3>1 DEF GroupTypes
    <3>3. DOMAIN member' = Members /\ member' = [n \in Members |-> member'[n]]
      BY <1>1, <1>2 DEF GroupTypes
    <3> QED BY <3>2, <3>3
  <2>2. GroupTypes' /\ QueueTypes' /\ FaultTypes'
    BY <1>1, <1>2, <2>1 DEF GroupTypes, QueueTypes, FaultTypes, call, supervisor
  <2> QED BY <1>3, <2>2, TypeParts
<1>6. MembersGrow
  BY <1>2, <1>4 DEF MembersGrow, Started, Filled, call, IInv, MessagesInv
<1>7. DueOfStarted
  BY <1>2, Unmoved
<1>8. Somebody
  BY Busy DEF TimeoutInterrupts
<1>9. \A v \in Workers : TaskKept(v) /\ Moves(v)
  BY <1>2, <1>3, <1>8 DEF TaskKept, Moves
<1> QED BY <1>2, <1>5, <1>6, <1>7, <1>9, Kept

\* An anchor is filled, or filled anew, never emptied.
LEMMA FillAnchorInv ==
  ASSUME IInv, NEW w \in Workers, FillAnchor(w)
  PROVE  IInv'
<1>1. WorkerTypes /\ GroupTypes /\ QueueTypes /\ FaultTypes
  BY TypeParts DEF IInv
<1> DEFINE m == task[w].member
           value == IF task[w].kind = "callback" THEN task[w].outcome ELSE "error"
           label == IF Collapsed THEN "load" ELSE "count"
<1>2. /\ UNCHANGED <<call, members, group, supervisor, queue, task, found, faults>>
      /\ UNCHANGED <<member, hung, published, callbacks, timeouts, verifies>>
      /\ Goto(w, label)
      /\ anchor' = [anchor EXCEPT ![m] = value]
  BY DEF FillAnchor, queue, members
<1>3. value \in Outcomes /\ Outcomes \subseteq Anchors
  <2>1. task[w] \in Tasks \cup {NoTask}
    BY <1>1 DEF WorkerTypes
  <2> QED BY <2>1, TaskTypes DEF Outcomes, Anchors
<1>4. label \in {"load", "count"} /\ label \in Stages
  BY DEF Stages
<1> HIDE DEF m, value, label
<1>5. /\ WorkerTypes' /\ stage'[w] = label
      /\ \A v \in Workers : v # w => stage'[v] = stage[v]
  BY <1>1, <1>2, <1>4, GotoTyped
<1>6. anchor' \in [Members -> Anchors] /\ \A n \in Members : Filled(n) => Filled(n)'
  BY <1>1, <1>2, <1>3 DEF GroupTypes, Filled
<1>7. TypeInv'
  <2>1. GroupTypes' /\ QueueTypes' /\ FaultTypes'
    BY <1>1, <1>2, <1>6 DEF GroupTypes, QueueTypes, FaultTypes, call, supervisor
  <2> QED BY <1>5, <2>1, TypeParts
<1>8. MembersGrow
  BY <1>2, <1>6 DEF MembersGrow, Started, call, IInv, MessagesInv
<1>9. DueOfStarted
  BY <1>2, Unmoved
<1>10. Somebody
  BY Busy DEF FillAnchor
<1>11. \A v \in Workers : TaskKept(v) /\ Moves(v)
  BY <1>2, <1>4, <1>5, <1>10 DEF TaskKept, Moves
<1> QED BY <1>2, <1>7, <1>8, <1>9, <1>11, Kept

\* The handler that counts all the anchors goes on to the group call.
LEMMA CountAllInv ==
  ASSUME IInv, NEW w \in Workers, CountAll(w)
  PROVE  IInv'
<1>1. WorkerTypes /\ GroupTypes /\ QueueTypes /\ FaultTypes
  BY TypeParts DEF IInv
<1>2. /\ UNCHANGED <<call, members, messages, supervisor, queue, task, found, faults>>
      /\ UNCHANGED <<published, callbacks, timeouts, verifies>>
      /\ Goto(w, "group") /\ AllFilled
  BY DEF CountAll, queue, AllFilled
<1>3. /\ WorkerTypes' /\ stage'[w] = "group"
      /\ \A v \in Workers : v # w => stage'[v] = stage[v]
  BY <1>1, <1>2, GotoTyped DEF Stages
<1>4. QueueTypes' /\ FaultTypes' /\ DueOfStarted
  BY <1>1, <1>2, Unmoved DEF QueueTypes, FaultTypes
<1>5. Somebody
  BY Busy DEF CountAll
<1>6. TaskKept(w) /\ Moves(w)
  BY <1>2, <1>3, <1>5 DEF TaskKept, Moves
<1> QED BY <1>2, <1>3, <1>4, <1>6, HandlerMoves

\* Whoever finds something missing arms a verify, if its publish does not fail, and is
\* done.
LEMMA HoldInv ==
  ASSUME IInv, NEW w \in Workers, stage[w] # "idle", Hold(w) \/ HoldUnarmed(w),
         UNCHANGED faults \/ Fault("lag") \/ Fault("arm")
  PROVE  IInv'
<1>1. WorkerTypes /\ GroupTypes /\ QueueTypes /\ FaultTypes
  BY TypeParts DEF IInv
<1>2. /\ UNCHANGED <<call, members, messages, supervisor, callbacks, timeouts, published>>
      /\ Arm(w) \/ UNCHANGED verifies
      /\ Finish(w)
  BY DEF Hold, HoldUnarmed, queue
<1>3. verifies' \in [Attempts -> Nat] /\ Somebody
  BY <1>1, <1>2, ArmTyped, Busy DEF IInv, QueueTypes
<1>4. QueueTypes' /\ DueOfStarted
  BY <1>1, <1>2, <1>3 DEF QueueTypes, DueOfStarted
<1>5. FaultTypes'
  <2>1. CASE UNCHANGED faults
    BY <1>1, <2>1 DEF FaultTypes
  <2>2. CASE Fault("lag") \/ Fault("arm")
    BY <1>1, <2>2, FaultTyped
  <2> QED BY <2>1, <2>2
<1>6. TaskKept(w) /\ Moves(w)
  BY <1>1, <1>2, FinishTyped DEF TaskKept, Moves, NoTask
<1> QED BY <1>1, <1>2, <1>4, <1>5, <1>6, FinishTyped, HandlerMoves

\* A handler that counts too few holds.
LEMMA CountTooFewInv ==
  ASSUME IInv, NEW w \in Workers, CountTooFew(w)
  PROVE  IInv'
BY HoldInv DEF CountTooFew, HoldsOn

-----------------------------------------------------------------------------
\* The barrier.

\* So does one that finds the group call unanswered.
LEMMA BarrierHoldsInv ==
  ASSUME IInv, NEW w \in Workers, BarrierHolds(w)
  PROVE  IInv'
BY HoldInv DEF BarrierHolds, HoldsOn

\* The group call is filled after its members, or is the only member's anchor.
LEMMA BarrierOpensInv ==
  ASSUME IInv, NEW w \in Workers, BarrierOpens(w)
  PROVE  IInv'
<1>1. WorkerTypes /\ GroupTypes /\ QueueTypes /\ FaultTypes
  BY TypeParts DEF IInv
<1>2. /\ UNCHANGED <<call, members, messages, supervisor, queue, task, faults>>
      /\ UNCHANGED <<published, callbacks, timeouts, verifies>>
      /\ Goto(w, "cas") /\ GroupFilled
      /\ found' = [found EXCEPT ![w] = group.onComplete]
  BY DEF BarrierOpens, queue
<1>3. group.onComplete = asked /\ asked \in Dispositions
  BY <1>1 DEF IInv, OnceInv, GroupTypes
<1>4. /\ WorkerTypes' /\ stage'[w] = "cas" /\ found'[w] = asked
      /\ \A v \in Workers : v # w => stage'[v] = stage[v] /\ found'[v] = found[v]
  <2>1. "cas" \in Stages
    BY DEF Stages
  <2> QED BY <1>1, <1>2, <1>3, <2>1 DEF WorkerTypes, Goto
<1>5. AllFilled
  BY <1>2 DEF GroupFilled, AllFilled, IInv, FilledInv
<1>6. Somebody
  BY Busy DEF BarrierOpens
<1>7. QueueTypes' /\ FaultTypes' /\ DueOfStarted
  BY <1>1, <1>2, Unmoved DEF QueueTypes, FaultTypes
<1>8. TaskKept(w) /\ Moves(w)
  BY <1>2, <1>4, <1>5, <1>6 DEF TaskKept, Moves
<1> QED BY <1>2, <1>4, <1>7, <1>8, HandlerMoves

\* Who loses the CAS is done.
LEMMA LoseCasInv ==
  ASSUME IInv, NEW w \in Workers, LoseCas(w)
  PROVE  IInv'
<1>1. WorkerTypes /\ GroupTypes /\ QueueTypes /\ FaultTypes
  BY TypeParts DEF IInv
<1>2. /\ UNCHANGED <<call, members, messages, supervisor, queue, faults>>
      /\ UNCHANGED <<published, callbacks, timeouts, verifies>>
      /\ Finish(w)
  BY DEF LoseCas, queue
<1>3. QueueTypes' /\ FaultTypes' /\ DueOfStarted
  BY <1>1, <1>2, Unmoved DEF QueueTypes, FaultTypes
<1>4. TaskKept(w) /\ Moves(w)
  BY <1>1, <1>2, FinishTyped DEF TaskKept, Moves, NoTask
<1> QED BY <1>1, <1>2, <1>3, <1>4, FinishTyped, HandlerMoves

\* What failed is due once more.
LEMMA ThrowsInv ==
  ASSUME IInv, NEW w \in Workers, Throws(w)
  PROVE  IInv'
<1>1. WorkerTypes /\ GroupTypes /\ QueueTypes /\ FaultTypes
  BY TypeParts DEF IInv
<1> DEFINE m == task[w].member
           o == task[w].outcome
           a == task[w].attempt
<1>2. /\ UNCHANGED <<call, members, messages, supervisor, published>>
      /\ Finish(w) /\ \E kind \in {"timeoutThrows", "throw"} : Fault(kind)
      /\ callbacks' = IF task[w].kind = "callback"
                      THEN [callbacks EXCEPT ![<<m, o>>] = @ + 1] ELSE callbacks
      /\ verifies' = IF task[w].kind = "verify"
                     THEN [verifies EXCEPT ![a] = @ + 1] ELSE verifies
      /\ timeouts' = IF task[w].kind = "timeout" THEN timeouts \cup {m} ELSE timeouts
  BY DEF Throws
<1>3. /\ task[w].kind = "callback" => m \in Members /\ o \in Outcomes
      /\ task[w].kind = "timeout" => m \in Members
      /\ task[w].kind = "verify" => a \in Attempts
  <2>1. task[w] \in Tasks \cup {NoTask}
    BY <1>1 DEF WorkerTypes
  <2> QED BY <2>1, TaskTypes
<1>4. task[w].kind \in {"callback", "timeout"} => Started(m)
  BY DEF IInv, MessagesInv
<1>5. Somebody
  BY Busy DEF Throws
<1> HIDE DEF m, o, a
<1>6. /\ callbacks' \in [Members \X Outcomes -> Nat]
      /\ \A n \in Members, p \in Outcomes :
           callbacks'[<<n, p>>] > 0 => callbacks[<<n, p>>] > 0 \/ Started(n)
  <2>1. CASE task[w].kind = "callback"
    <3>1. callbacks' = [callbacks EXCEPT ![<<m, o>>] = @ + 1]
      BY <1>2, <2>1
    <3> QED BY <1>1, <1>3, <1>4, <2>1, <3>1, MoreCallbacks
  <2>2. CASE task[w].kind # "callback"
    BY <1>1, <1>2, <2>2 DEF QueueTypes
  <2> QED BY <2>1, <2>2
<1>7. verifies' \in [Attempts -> Nat] /\ timeouts' \subseteq Members
  BY <1>1, <1>2, <1>3 DEF QueueTypes
<1>8. QueueTypes'
  BY <1>1, <1>2, <1>6, <1>7 DEF QueueTypes
<1>9. DueOfStarted
  <2>1. \A n \in Members : Started(n)' <=> Started(n)
    BY <1>2 DEF Started, call, members
  <2>2. \A n \in timeouts' : n \in timeouts \/ Started(n)'
    <3>1. called = called' /\ member' = member
      BY <1>2 DEF call, members
    <3> QED BY <1>2, <1>4, <3>1 DEF Started
  <2> QED BY <1>5, <1>6, <2>1, <2>2 DEF DueOfStarted
<1>10. FaultTypes'
  BY <1>1, <1>2, FaultTyped
<1>11. TaskKept(w) /\ Moves(w)
  BY <1>1, <1>2, FinishTyped DEF TaskKept, Moves, NoTask
<1> QED BY <1>1, <1>2, <1>8, <1>9, <1>10, <1>11, FinishTyped, HandlerMoves

-----------------------------------------------------------------------------
\* The steps of the supervisor, and of the handler that releases it.

\* What they leave to the members and their messages.
LEMMA MessagesStay ==
  ASSUME MessagesInv, UNCHANGED <<call, member, callbacks, timeouts>>,
         \A v \in Workers : task'[v] = task[v] \/ task'[v].kind \notin {"callback", "timeout"}
  PROVE  MessagesInv'
BY DEF MessagesInv, Started, call

\* The park makes the token: there was none while the turn ran.
LEMMA ParkInv ==
  ASSUME IInv, NEW w \in Workers, Park(w)
  PROVE  IInv'
<1>1. WorkerTypes /\ GroupTypes /\ QueueTypes /\ FaultTypes
  BY TypeParts DEF IInv
<1> DEFINE what == [kind |-> "step"]
<1>2. /\ UNCHANGED <<call, members, messages, row, queue, found, faults>>
      /\ UNCHANGED <<called, asked, member, hung, anchor, group, published, callbacks, timeouts,
                     verifies>>
      /\ parent = "running" /\ parent' = "waiting_for_async_tool"
      /\ Take(w, "row", what)
  BY DEF Park, queue, members, messages, call
<1>3. what \in Tasks /\ what.kind = "step" /\ "row" \in Stages
  BY TaskMade DEF Stages
<1> HIDE DEF what
<1>4. /\ WorkerTypes' /\ stage[w] = "idle" /\ stage'[w] = "row" /\ task'[w] = what
      /\ \A v \in Workers : v # w => stage'[v] = stage[v] /\ task'[v] = task[v]
  BY <1>1, <1>2, <1>3, TakeTyped
<1>5. Somebody
  <2>1. PICK m \in called : member[m] # "notStarted"
    BY DEF Park
  <2>2. m \in Members /\ member[m] # "none"
    BY <1>1, <2>1 DEF Park, GroupTypes
  <2> QED BY <2>1, <2>2 DEF Somebody, Started
<1>6. TypeInv'
  <2>1. GroupTypes' /\ QueueTypes' /\ FaultTypes'
    BY <1>1, <1>2 DEF GroupTypes, QueueTypes, FaultTypes, call, ParentStatus
  <2> QED BY <1>4, <2>1, TypeParts
<1>7. MessagesInv'
  BY <1>2, <1>3, <1>4, MessagesStay DEF IInv
<1>8. (Somebody' <=> Somebody) /\ (AllFilled' <=> AllFilled) /\ (Released' <=> Released)
  BY <1>2 DEF Somebody, Started, AllFilled, Filled, Released
<1>9. BusyInv'
  BY <1>5, <1>8 DEF BusyInv
<1>10. FilledInv'
  BY <1>2, <1>4, <1>8 DEF IInv, FilledInv
<1>11. OnceInv'
  <2>1. /\ row # "waiting_for_async_tool" /\ ~Released
        /\ \A v \in Workers : stage[v] \notin {"row", "publish"}
    BY <1>2 DEF IInv, OnceInv
  <2>2. ReleasedAsAsked'
    BY <1>2 DEF ReleasedAsAsked, IInv, OnceInv
  <2> QED BY <1>2, <1>4, <1>8, <2>1, <2>2 DEF IInv, OnceInv
<1> QED BY <1>6, <1>7, <1>9, <1>10, <1>11 DEF IInv

\* The row takes it over from the turn.
LEMMA WriteRowInv ==
  ASSUME IInv, NEW w \in Workers, WriteRow(w)
  PROVE  IInv'
<1>1. WorkerTypes /\ GroupTypes /\ QueueTypes /\ FaultTypes
  BY TypeParts DEF IInv
<1>2. /\ UNCHANGED <<call, members, messages, parent, queue, task, found, faults>>
      /\ UNCHANGED <<called, asked, member, hung, anchor, group, published, callbacks, timeouts,
                     verifies>>
      /\ stage[w] = "row" /\ row' = "waiting_for_async_tool"
      /\ Goto(w, "load")
  BY DEF WriteRow, queue, members, messages, call
<1>3. /\ WorkerTypes' /\ stage'[w] = "load"
      /\ \A v \in Workers : v # w => stage'[v] = stage[v]
  BY <1>1, <1>2, GotoTyped DEF Stages
<1>4. TypeInv'
  <2>1. GroupTypes' /\ QueueTypes' /\ FaultTypes'
    BY <1>1, <1>2 DEF GroupTypes, QueueTypes, FaultTypes, call, ParentStatus
  <2> QED BY <1>3, <2>1, TypeParts
<1>5. MessagesInv'
  BY <1>2, MessagesStay DEF IInv
<1>6. (Somebody' <=> Somebody) /\ (AllFilled' <=> AllFilled) /\ (Released' <=> Released)
  BY <1>2 DEF Somebody, Started, AllFilled, Filled, Released
<1>7. Somebody
  BY <1>2, Busy
<1>8. BusyInv' /\ FilledInv'
  BY <1>2, <1>3, <1>6, <1>7 DEF IInv, BusyInv, FilledInv
<1>9. OnceInv'
  <2>1. /\ parent = "waiting_for_async_tool" /\ ~Released
        /\ \A v \in Workers : v # w => stage[v] \notin {"row", "publish"}
    BY <1>2 DEF IInv, OnceInv
  <2>2. ReleasedAsAsked'
    BY <1>2 DEF ReleasedAsAsked, IInv, OnceInv
  <2> QED BY <1>2, <1>3, <1>6, <2>1, <2>2 DEF IInv, OnceInv
<1> QED BY <1>4, <1>5, <1>8, <1>9 DEF IInv

\* The placeholders are deleted when there is nobody to answer.
LEMMA TearDownInv ==
  ASSUME IInv, TearDown
  PROVE  IInv'
<1>1. WorkerTypes /\ GroupTypes /\ QueueTypes /\ FaultTypes
  BY TypeParts DEF IInv
<1>2. /\ UNCHANGED <<called, asked, isolated, member, hung, row, published, callbacks, timeouts,
                     verifies, stage, task, found, faults>>
      /\ parent' = "inline"
      /\ group' = [group EXCEPT !.status = "deleted"]
      /\ anchor' = [m \in Members |-> "none"]
  BY DEF TearDown, queue, members, call
<1>3. ~Somebody
  BY DEF TearDown, Somebody, Started
<1>4. group' = [status |-> "deleted", onComplete |-> group.onComplete]
  BY <1>1, <1>2 DEF GroupTypes
<1>5. TypeInv'
  <2>1. anchor' \in [Members -> Anchors] /\ parent' \in ParentStatus
    BY <1>2 DEF Anchors, ParentStatus
  <2>2. group' \in [status : Anchors \cup {"deleted"}, onComplete : Dispositions]
    BY <1>1, <1>4 DEF GroupTypes
  <2>3. WorkerTypes' /\ GroupTypes' /\ QueueTypes' /\ FaultTypes'
    BY <1>1, <1>2, <2>1, <2>2 DEF WorkerTypes, GroupTypes, QueueTypes, FaultTypes
  <2> QED BY <2>3, TypeParts
<1>6. MessagesInv'
  BY <1>2, MessagesStay DEF IInv, call
<1>7. /\ \A v \in Workers : stage[v] = "idle"
      /\ \A a \in Attempts : ~(verifies[a] > 0)
      /\ ~Released
  BY <1>3 DEF IInv, BusyInv
<1>8. ~Released' /\ group'.status \notin Outcomes
  BY <1>2, <1>4, <1>7 DEF Released, Outcomes
<1>9. BusyInv' /\ FilledInv'
  BY <1>2, <1>7, <1>8 DEF BusyInv, FilledInv
<1>10. OnceInv'
  <2>1. ReleasedAsAsked' /\ group'.onComplete = asked
    BY <1>2, <1>4 DEF ReleasedAsAsked, IInv, OnceInv
  <2>2. row # "waiting_for_async_tool"
    BY DEF TearDown, IInv, OnceInv
  <2> QED BY <1>2, <1>7, <1>8, <2>1, <2>2 DEF OnceInv
<1> QED BY <1>5, <1>6, <1>9, <1>10 DEF IInv

\* Filling the group call keeps what the call asked for.
LEMMA FillGroupInv ==
  ASSUME IInv, NEW w \in Workers, FillGroup(w)
  PROVE  IInv'
<1>1. WorkerTypes /\ GroupTypes /\ QueueTypes /\ FaultTypes
  BY TypeParts DEF IInv
<1>2. /\ UNCHANGED <<call, members, anchor, supervisor, queue, task, found, faults>>
      /\ UNCHANGED <<called, asked, member, hung, parent, row, published, callbacks, timeouts,
                     verifies>>
      /\ stage[w] = "group"
      /\ group' = [group EXCEPT !.status = "completed"]
      /\ Goto(w, "load")
  BY DEF FillGroup, queue, members, call, supervisor
<1>3. /\ WorkerTypes' /\ stage'[w] = "load"
      /\ \A v \in Workers : v # w => stage'[v] = stage[v]
  BY <1>1, <1>2, GotoTyped DEF Stages
<1>4. group' = [status |-> "completed", onComplete |-> group.onComplete]
  BY <1>1, <1>2 DEF GroupTypes
<1>5. TypeInv'
  <2>1. group' \in [status : Anchors \cup {"deleted"}, onComplete : Dispositions]
    BY <1>1, <1>4 DEF GroupTypes, Anchors, Outcomes
  <2>2. GroupTypes' /\ QueueTypes' /\ FaultTypes'
    BY <1>1, <1>2, <2>1 DEF GroupTypes, QueueTypes, FaultTypes, call
  <2> QED BY <1>3, <2>2, TypeParts
<1>6. MessagesInv'
  BY <1>2, MessagesStay DEF IInv
<1>7. (Somebody' <=> Somebody) /\ (AllFilled' <=> AllFilled) /\ (Released' <=> Released)
  BY <1>2 DEF Somebody, Started, AllFilled, Filled, Released
<1>8. Somebody /\ AllFilled
  BY <1>2, Busy DEF IInv, FilledInv
<1>9. BusyInv' /\ FilledInv'
  BY <1>7, <1>8 DEF BusyInv, FilledInv
<1>10. OnceInv'
  <2>1. ReleasedAsAsked' /\ group'.onComplete = asked
    BY <1>2, <1>4 DEF ReleasedAsAsked, IInv, OnceInv
  <2>2. \A v \in Workers : /\ stage'[v] \in {"row", "publish"} => stage[v] = stage'[v]
                           /\ stage'[v] \in {"cas", "publish"} => found'[v] = asked
    BY <1>2, <1>3 DEF IInv, OnceInv
  <2> QED BY <1>2, <1>7, <2>1, <2>2 DEF IInv, OnceInv
<1> QED BY <1>5, <1>6, <1>9, <1>10 DEF IInv

\* The handler that wins the CAS takes the token from the row.
LEMMA WinCasInv ==
  ASSUME IInv, NEW w \in Workers, WinCas(w)
  PROVE  IInv'
<1>1. WorkerTypes /\ GroupTypes /\ QueueTypes /\ FaultTypes
  BY TypeParts DEF IInv
<1>2. /\ UNCHANGED <<call, members, messages, parent, queue, task, found, faults>>
      /\ UNCHANGED <<called, asked, member, hung, anchor, group, published, callbacks, timeouts,
                     verifies>>
      /\ stage[w] = "cas" /\ row = "waiting_for_async_tool" /\ row' = "running"
      /\ Goto(w, "publish")
  BY DEF WinCas, queue, members, messages, call
<1>3. /\ WorkerTypes' /\ stage'[w] = "publish"
      /\ \A v \in Workers : v # w => stage'[v] = stage[v]
  BY <1>1, <1>2, GotoTyped DEF Stages
<1>4. TypeInv'
  <2>1. GroupTypes' /\ QueueTypes' /\ FaultTypes'
    BY <1>1, <1>2 DEF GroupTypes, QueueTypes, FaultTypes, call, ParentStatus
  <2> QED BY <1>3, <2>1, TypeParts
<1>5. MessagesInv'
  BY <1>2, MessagesStay DEF IInv
<1>6. (Somebody' <=> Somebody) /\ (AllFilled' <=> AllFilled) /\ (Released' <=> Released)
  BY <1>2 DEF Somebody, Started, AllFilled, Filled, Released
<1>7. Somebody /\ AllFilled
  BY <1>2, Busy DEF IInv, FilledInv
<1>8. BusyInv' /\ FilledInv'
  BY <1>6, <1>7 DEF BusyInv, FilledInv
<1>9. OnceInv'
  <2>1. /\ parent = "waiting_for_async_tool" /\ ~Released /\ found[w] = asked
        /\ \A v \in Workers : stage[v] \notin {"row", "publish"}
    BY <1>2 DEF IInv, OnceInv
  <2>2. ReleasedAsAsked'
    BY <1>2 DEF ReleasedAsAsked, IInv, OnceInv
  <2> QED BY <1>2, <1>3, <1>6, <2>1, <2>2 DEF IInv, OnceInv
<1> QED BY <1>4, <1>5, <1>8, <1>9 DEF IInv

\* The token is spent: one step is published, as the call asked.
LEMMA PublishNextInv ==
  ASSUME IInv, NEW w \in Workers, PublishNext(w)
  PROVE  IInv'
<1>1. WorkerTypes /\ GroupTypes /\ QueueTypes /\ FaultTypes
  BY TypeParts DEF IInv
<1>2. /\ UNCHANGED <<call, members, messages, supervisor, callbacks, timeouts, verifies, faults>>
      /\ UNCHANGED <<called, asked, member, hung, anchor, group, parent, row>>
      /\ stage[w] = "publish" /\ Finish(w)
      /\ published' = [published EXCEPT ![found[w]] = @ + 1]
  BY DEF PublishNext, members, messages, call, supervisor
<1>3. /\ WorkerTypes' /\ stage'[w] = "idle" /\ task'[w] = NoTask
      /\ \A v \in Workers : v # w => /\ stage'[v] = stage[v] /\ task'[v] = task[v]
                                     /\ found'[v] = found[v]
  BY <1>1, <1>2, FinishTyped
<1>4. /\ found[w] = asked /\ asked \in Dispositions
      /\ parent = "waiting_for_async_tool"
      /\ row # "waiting_for_async_tool" /\ ~Released
      /\ \A v \in Workers : v # w => stage[v] \notin {"row", "publish"}
  BY <1>1, <1>2 DEF IInv, OnceInv, GroupTypes
<1>5. /\ \A d \in Dispositions : published[d] = 0
      /\ published' \in [Dispositions -> Nat]
      /\ published'[asked] = 1 /\ \A d \in Dispositions \ {asked} : published'[d] = 0
  <2>1. \A d \in Dispositions : published[d] \in Nat /\ ~(published[d] > 0)
    BY <1>1, <1>4 DEF QueueTypes, Released
  <2>2. published' = [published EXCEPT ![asked] = @ + 1]
    BY <1>2, <1>4
  <2> QED BY <1>1, <1>4, <2>1, <2>2 DEF QueueTypes
<1>6. TypeInv'
  <2>1. GroupTypes' /\ QueueTypes' /\ FaultTypes'
    BY <1>1, <1>2, <1>5 DEF GroupTypes, QueueTypes, FaultTypes, call
  <2> QED BY <1>3, <2>1, TypeParts
<1>7. MessagesInv'
  <2>1. \A v \in Workers : task'[v] = task[v] \/ task'[v].kind \notin {"callback", "timeout"}
    BY <1>3 DEF NoTask
  <2> QED BY <1>2, <2>1, MessagesStay DEF IInv, members
<1>8. (Somebody' <=> Somebody) /\ (AllFilled' <=> AllFilled)
  BY <1>2 DEF Somebody, Started, AllFilled, Filled
<1>9. Somebody /\ AllFilled
  BY <1>2, Busy DEF IInv, FilledInv
<1>10. BusyInv' /\ FilledInv'
  BY <1>8, <1>9 DEF BusyInv, FilledInv
<1>11. OnceInv'
  <2>1. ReleasedAsAsked'
    BY <1>2, <1>5 DEF ReleasedAsAsked
  <2>2. \A v \in Workers : /\ stage'[v] \notin {"row", "publish"}
                           /\ stage'[v] = "cas" => found'[v] = asked
    BY <1>3, <1>4 DEF IInv, OnceInv
  <2>3. group.onComplete = asked
    BY DEF IInv, OnceInv
  <2> QED BY <1>2, <1>4, <2>1, <2>2, <2>3 DEF OnceInv
<1> QED BY <1>6, <1>7, <1>10, <1>11 DEF IInv

-----------------------------------------------------------------------------
\* Nothing happens.
LEMMA StutterInv ==
  ASSUME IInv, UNCHANGED vars
  PROVE  IInv'
<1>1. WorkerTypes /\ GroupTypes /\ QueueTypes /\ FaultTypes
  BY TypeParts DEF IInv
<1>2. WorkerTypes' /\ GroupTypes' /\ QueueTypes' /\ FaultTypes'
  BY <1>1 DEF WorkerTypes, GroupTypes, QueueTypes, FaultTypes, vars
<1>3. UNCHANGED <<call, supervisor, group, published, member, anchor, callbacks, timeouts,
                  verifies, stage, task, found>>
  BY DEF vars, call, supervisor
<1> QED BY <1>2, <1>3, TypeParts, Unmoved, Kept

\* Every step keeps the invariant.
LEMMA NextInv == IInv /\ [Next]_vars => IInv'
<1> SUFFICES ASSUME IInv, [Next]_vars PROVE IInv'
  OBVIOUS
<1>1. CASE Fork
  BY <1>1, MemberNotStartedInv, StartMemberInv, TearDownInv, ParkInv DEF Fork
<1>2. CASE TakeMessage
  BY <1>2, TakeTimeoutInv, TakeCallbackInv, TakeVerifyInv DEF TakeMessage
<1>3. ASSUME NEW w \in Workers, Handle(w) PROVE IInv'
  BY <1>3, WriteRowInv, TimeoutLoadsInv, TimeoutInterruptsInv, FillAnchorInv, CountAllInv,
     CountTooFewInv, FillGroupInv, BarrierOpensInv, BarrierHoldsInv, WinCasInv, LoseCasInv,
     PublishNextInv DEF Handle
<1>4. ASSUME NEW w \in Workers, Throws(w) PROVE IInv'
  BY <1>4, ThrowsInv
<1>5. ASSUME NEW m \in Members, NEW o \in Outcomes, MemberEnds(m, o) \/ DuplicateCallback(m, o)
      PROVE  IInv'
  BY <1>5, MemberEndsInv, DuplicateCallbackInv
<1>6. ASSUME NEW m \in Members, MemberEndsUnheard(m) PROVE IInv'
  BY <1>6, MemberEndsUnheardInv
<1>7. CASE UNCHANGED vars
  BY <1>7, StutterInv
<1> QED BY <1>1, <1>2, <1>3, <1>4, <1>5, <1>6, <1>7 DEF Next

\* The invariant that says why the group call's join holds.
THEOREM InvariantTheorem == Spec => []IInv
<1>1. Init => IInv
  BY InitInv
<1>2. IInv /\ [Next]_vars => IInv'
  BY NextInv
<1> QED BY <1>1, <1>2, PTL DEF Spec

\* The types hold for any members, workers, attempts and faults.
THEOREM TypeCorrect == Spec => []TypeOK
<1>1. IInv => TypeOK
  BY DEF IInv, TypeInv
<1> QED BY <1>1, InvariantTheorem, PTL

\* The supervisor goes on only when every member it called has its answer, whatever
\* number of members, callbacks, time-outs and faults race for it.
THEOREM ReleasedCompleteTheorem == Spec => []ReleasedComplete
<1>1. IInv => ReleasedComplete
  BY DEF IInv, FilledInv, ReleasedComplete, AllFilled
<1> QED BY <1>1, InvariantTheorem, PTL

\* It goes on at most once, and as its call asked: the park is one token, and the
\* stored disposition survives every merge of the group call's plugin state.
THEOREM ReleasedAsAskedTheorem == Spec => []ReleasedAsAsked
<1>1. IInv => ReleasedAsAsked
  BY DEF IInv, OnceInv
<1> QED BY <1>1, InvariantTheorem, PTL
-----------------------------------------------------------------------------
\* Nobody's answer is lost.

Counters == {"anchor", "count", "group"}
Checkers == Counters \cup {"load", "cas"}

\* A handler is where its message leads it, and a member that has not started does
\* not hang.
Placed(w) ==
  /\ stage[w] \in {"timeout", "interrupt"} => task[w].kind = "timeout"
  /\ stage[w] \in Counters => task[w].kind \in {"callback", "timeout"}
  /\ stage[w] \in Checkers \cup {"row"} => task[w].kind # "none"

HandlersInv ==
  /\ called # {}
  /\ \A w \in Workers : Placed(w)
  /\ \A m \in Members : member[m] = "none" => m \notin hung

VerifyDue == \E a \in Attempts : verifies[a] > 0

\* The parts of SupervisorHeld, parked or not.
AnswersHeld == \A m \in called : Filled(m) \/ WillAnswer(m) \/ Stranded(m)
CountHeld == AllFilled => GroupFilled \/ CallbackDue \/ AtWork(Counters)
CheckHeld ==
  GroupFilled /\ row = "waiting_for_async_tool" =>
    CallbackDue \/ VerifyDue \/ AtWork(Checkers)
ParkHeld ==
  parent = "waiting_for_async_tool" /\ ~Released =>
    row = "waiting_for_async_tool" \/ AtWork({"row", "publish"})

\* No member fails to start, but for a fault the property excepts.
AllStart == \A m \in Members : member[m] # "notStarted"

HeldInv ==
  ~WordLost => AnswersHeld /\ CountHeld /\ CheckHeld /\ ParkHeld /\ AllStart

\* The call names somebody, and nothing has gone wrong.
LEMMA InitHeld == Init => HandlersInv /\ HeldInv
<1> SUFFICES ASSUME Init PROVE HandlersInv /\ HeldInv
  OBVIOUS
<1>1. HandlersInv
  BY DEF Init, HandlersInv, Placed, Counters, Checkers
<1>2. called \subseteq Members /\ called # {}
  BY DEF Init
<1>3. AnswersHeld
  BY <1>2 DEF Init, AnswersHeld, WillAnswer
<1>4. ~AllFilled
  BY <1>2 DEF Init, AllFilled, Filled, Outcomes
<1>5. CountHeld /\ CheckHeld /\ ParkHeld /\ AllStart
  BY <1>4 DEF Init, CountHeld, CheckHeld, ParkHeld, AllStart
<1> QED BY <1>1, <1>3, <1>5 DEF HeldInv

\* Faults are not forgotten, and most of them are what the property excepts.
LEMMA LostStays ==
  /\ \A kind \in FaultKinds : Fault(kind) => (WordLost => WordLost')
  /\ \A kind \in FaultKinds \ {"throw", "duplicate", "arm"} : Fault(kind) => WordLost'
  /\ UNCHANGED faults => (WordLost <=> WordLost')
<1>1. ASSUME NEW kind, Fault(kind)
      PROVE  Happened(kind)' /\ \A k : Happened(k) => Happened(k)'
  <2>1. PICK f : f = <<kind, Cardinality(faults)>>
    OBVIOUS
  <2>2. f[1] = kind /\ faults' = faults \cup {f}
    BY <1>1, <2>1 DEF Fault
  <2> QED BY <2>2 DEF Happened
<1>2. UNCHANGED faults => \A k : Happened(k) <=> Happened(k)'
  BY DEF Happened
<1> QED BY <1>1, <1>2 DEF WordLost

\* A worker that brings a member its answer.
Answering(w, m) ==
  /\ task[w].kind \in {"callback", "timeout"} /\ task[w].member = m
  /\ stage[w] \in {"interrupt", "anchor"} \/ (stage[w] = "timeout" /\ member[m] = "running")

\* A member whose operation and messages are left alone will answer as before.
LEMMA AnswerKept ==
  ASSUME NEW m, UNCHANGED <<member, hung>>,
         \A o \in Outcomes : callbacks[<<m, o>>] > 0 => callbacks'[<<m, o>>] > 0,
         m \in timeouts => m \in timeouts',
         \A w \in Workers : Answering(w, m) => Answering(w, m)'
  PROVE  WillAnswer(m) => WillAnswer(m)'
BY DEF WillAnswer, Answering

\* A worker that brings an answer makes it come.
LEMMA AnswerComes ==
  \A w \in Workers, m \in Members :
    /\ Answering(w, m) => WillAnswer(m)
    /\ Answering(w, m)' => WillAnswer(m)'
BY DEF WillAnswer, Answering

\* Where the others are.
LEMMA AtWorkKept ==
  ASSUME NEW w \in Workers, \A v \in Workers : v # w => stage'[v] = stage[v], NEW stages
  PROVE  /\ stage'[w] \in stages => AtWork(stages)'
         /\ stage[w] \notin stages => (AtWork(stages) => AtWork(stages)')
BY DEF AtWork

\* A handler that goes on with the same message, and nothing else moves: it brings
\* the answers it brought, and is where it was needed.
OnlyMoves(w) ==
  /\ UNCHANGED <<call, members, messages, supervisor, callbacks, timeouts, verifies, published>>
  /\ \A v \in Workers : v # w => stage'[v] = stage[v] /\ task'[v] = task[v]

\* What the others bring is brought.
LEMMA OthersAnswer ==
  ASSUME NEW w \in Workers, UNCHANGED member,
         \A v \in Workers : v # w => stage'[v] = stage[v] /\ task'[v] = task[v],
         NEW m, Answering(w, m) => Answering(w, m)'
  PROVE  \A v \in Workers : Answering(v, m) => Answering(v, m)'
BY DEF Answering

\* What such a move leaves as it was.
LEMMA MovesHeld ==
  ASSUME NEW w \in Workers, OnlyMoves(w), IInv, HeldInv, WordLost => WordLost',
         \A m \in Members : Answering(w, m) => Answering(w, m)',
         ~WordLost' =>
           /\ stage[w] \in Counters => stage'[w] \in Counters \/ ~AllFilled \/ GroupFilled
           /\ stage[w] \in Checkers =>
                \/ stage'[w] \in Checkers \/ ~GroupFilled
                \/ row # "waiting_for_async_tool"
           /\ stage[w] \notin {"row", "publish"}
  PROVE  HeldInv'
<1> SUFFICES ASSUME ~WordLost'
             PROVE  AnswersHeld' /\ CountHeld' /\ CheckHeld' /\ ParkHeld' /\ AllStart'
  BY DEF HeldInv
<1>1. AnswersHeld /\ CountHeld /\ CheckHeld /\ ParkHeld /\ AllStart
  BY DEF HeldInv
<1>2. /\ UNCHANGED <<called, isolated, member, hung, anchor, group, parent, row, callbacks, timeouts,
                     verifies, published>>
      /\ \A v \in Workers : v # w => stage'[v] = stage[v] /\ task'[v] = task[v]
  BY DEF OnlyMoves, call, members, messages, supervisor
<1>3. AnswersHeld'
  <2> SUFFICES ASSUME NEW m \in called, WillAnswer(m) PROVE WillAnswer(m)'
    BY <1>1, <1>2 DEF AnswersHeld, Filled, Stranded
  <2>1. m \in Members
    BY DEF IInv, TypeInv, TypeOK
  <2>2. \A v \in Workers : Answering(v, m) => Answering(v, m)'
    BY <1>2, <2>1, OthersAnswer
  <2> QED BY <1>2, <2>2, AnswerKept
<1>4. /\ AllFilled' <=> AllFilled
      /\ GroupFilled' <=> GroupFilled
      /\ CallbackDue' <=> CallbackDue
      /\ VerifyDue' <=> VerifyDue
      /\ Released' <=> Released
  BY <1>2 DEF AllFilled, Filled, GroupFilled, Collapsed, CallbackDue, VerifyDue, Released
<1>5. \A stages : /\ stage'[w] \in stages => AtWork(stages)'
                  /\ stage[w] \notin stages => (AtWork(stages) => AtWork(stages)')
  BY <1>2, AtWorkKept
<1>6. CountHeld'
  BY <1>1, <1>4, <1>5 DEF CountHeld
<1>7. CheckHeld'
  BY <1>1, <1>2, <1>4, <1>5 DEF CheckHeld
<1>8. ParkHeld'
  BY <1>1, <1>2, <1>4, <1>5 DEF ParkHeld
<1>9. AllStart'
  BY <1>1, <1>2 DEF AllStart
<1> QED BY <1>3, <1>6, <1>7, <1>8, <1>9

-----------------------------------------------------------------------------
\* Handlers that move on, or drop what is not needed.

\* A dropped time-out is of a member that has ended.
LEMMA TimeoutLoadsHeld ==
  ASSUME IInv, HandlersInv, HeldInv, NEW w \in Workers, TimeoutLoads(w)
  PROVE  HeldInv'
<1>1. WorkerTypes /\ stage[w] = "timeout" /\ (WordLost => WordLost')
  BY TypeParts, LostStays DEF IInv, TimeoutLoads
<1>2. UNCHANGED <<call, members, messages, supervisor, callbacks, timeouts, verifies, published>>
  BY DEF TimeoutLoads, queue
<1>3. stage[w] \notin Counters /\ stage[w] \notin Checkers /\ stage[w] \notin {"row", "publish"}
  BY <1>1 DEF Counters, Checkers
<1>4. CASE member[task[w].member] = "running" /\ Goto(w, "interrupt") /\ UNCHANGED <<task, found>>
  <2>1. stage'[w] = "interrupt" /\ \A v \in Workers : v # w => stage'[v] = stage[v]
    BY <1>1, <1>4, GotoTyped DEF Stages
  <2>2. \A m \in Members : Answering(w, m) => Answering(w, m)'
    BY <1>2, <1>4, <2>1 DEF Answering, members
  <2> QED BY <1>1, <1>2, <1>3, <1>4, <2>1, <2>2, MovesHeld DEF OnlyMoves
<1>5. CASE member[task[w].member] # "running" /\ Finish(w)
  <2>1. \A v \in Workers : v # w => stage'[v] = stage[v] /\ task'[v] = task[v]
    BY <1>1, <1>5, FinishTyped
  <2>2. \A m \in Members : ~Answering(w, m)
    BY <1>1, <1>5 DEF Answering
  <2> QED BY <1>1, <1>2, <1>3, <2>1, <2>2, MovesHeld DEF OnlyMoves
<1> QED BY <1>4, <1>5 DEF TimeoutLoads

\* Who counts them all fills the group call.
LEMMA CountAllHeld ==
  ASSUME IInv, HeldInv, NEW w \in Workers, CountAll(w)
  PROVE  HeldInv'
<1>1. WorkerTypes /\ stage[w] = "count" /\ (WordLost => WordLost')
  BY TypeParts, LostStays DEF IInv, CountAll
<1>2. /\ UNCHANGED <<call, members, messages, supervisor, callbacks, timeouts, verifies, published>>
      /\ UNCHANGED <<task, found>> /\ Goto(w, "group")
  BY DEF CountAll, queue
<1>3. stage'[w] = "group" /\ \A v \in Workers : v # w => stage'[v] = stage[v]
  BY <1>1, <1>2, GotoTyped DEF Stages
<1>4. \A m \in Members : ~Answering(w, m)
  BY <1>1 DEF Answering
<1>5. stage'[w] \in Counters /\ stage'[w] \in Checkers /\ stage[w] \notin {"row", "publish"}
  BY <1>1, <1>3 DEF Counters, Checkers
<1> QED BY <1>1, <1>2, <1>3, <1>4, <1>5, MovesHeld DEF OnlyMoves

\* Who finds the barrier open claims the row.
LEMMA BarrierOpensHeld ==
  ASSUME IInv, HeldInv, NEW w \in Workers, BarrierOpens(w)
  PROVE  HeldInv'
<1>1. WorkerTypes /\ stage[w] = "load" /\ (WordLost => WordLost')
  BY TypeParts, LostStays DEF IInv, BarrierOpens
<1>2. /\ UNCHANGED <<call, members, messages, supervisor, callbacks, timeouts, verifies, published>>
      /\ UNCHANGED task /\ Goto(w, "cas")
  BY DEF BarrierOpens, queue
<1>3. stage'[w] = "cas" /\ \A v \in Workers : v # w => stage'[v] = stage[v]
  BY <1>1, <1>2 DEF WorkerTypes, Goto
<1>4. \A m \in Members : ~Answering(w, m)
  BY <1>1 DEF Answering
<1>5. stage[w] \notin Counters /\ stage'[w] \in Checkers /\ stage[w] \notin {"row", "publish"}
  BY <1>1, <1>3 DEF Counters, Checkers
<1> QED BY <1>1, <1>2, <1>3, <1>4, <1>5, MovesHeld DEF OnlyMoves

\* Who loses the CAS finds no row to claim.
LEMMA LoseCasHeld ==
  ASSUME IInv, HeldInv, NEW w \in Workers, LoseCas(w)
  PROVE  HeldInv'
<1>1. /\ WorkerTypes /\ stage[w] = "cas" /\ row # "waiting_for_async_tool"
      /\ WordLost => WordLost'
  BY TypeParts, LostStays DEF IInv, LoseCas
<1>2. /\ UNCHANGED <<call, members, messages, supervisor, callbacks, timeouts, verifies, published>>
      /\ Finish(w)
  BY DEF LoseCas, queue
<1>3. \A v \in Workers : v # w => stage'[v] = stage[v] /\ task'[v] = task[v]
  BY <1>1, <1>2, FinishTyped
<1>4. \A m \in Members : ~Answering(w, m)
  BY <1>1 DEF Answering
<1>5. stage[w] \notin Counters /\ stage[w] \notin {"row", "publish"}
  BY <1>1 DEF Counters
<1> QED BY <1>1, <1>2, <1>3, <1>4, <1>5, MovesHeld DEF OnlyMoves

\* Who finds something missing holds: the property excepts the reads that lag, and
\* otherwise the one that is missing is yet to come.
LEMMA HoldHeld ==
  ASSUME IInv, HeldInv, NEW w \in Workers, Hold(w) \/ HoldUnarmed(w),
         stage[w] = "count" \/ stage[w] = "load",
         NEW ready \in BOOLEAN,
         IF ready THEN Fault("lag") ELSE UNCHANGED faults \/ Fault("arm"),
         stage[w] = "count" => (AllFilled => ready),
         stage[w] = "load" => (parent = "waiting_for_async_tool" /\ GroupFilled => ready)
  PROVE  HeldInv'
<1>1. /\ WorkerTypes /\ QueueTypes
      /\ UNCHANGED <<call, members, messages, supervisor, callbacks, timeouts, published>>
      /\ Arm(w) \/ UNCHANGED verifies
      /\ Finish(w)
  BY TypeParts DEF IInv, Hold, HoldUnarmed, queue
<1>2. \A v \in Workers : v # w => stage'[v] = stage[v] /\ task'[v] = task[v]
  BY <1>1, FinishTyped
<1>3. \A m \in Members : ~Answering(w, m)
  BY DEF Answering
<1>4. "lag" \in FaultKinds \ {"throw", "duplicate", "arm"} /\ "arm" \in FaultKinds
  BY DEF FaultKinds
<1> SUFFICES ASSUME ~WordLost'
             PROVE  AnswersHeld' /\ CountHeld' /\ CheckHeld' /\ ParkHeld' /\ AllStart'
  BY DEF HeldInv
<1>5. /\ ~WordLost
      /\ stage[w] = "count" => ~AllFilled
      /\ stage[w] = "load" => ~(parent = "waiting_for_async_tool" /\ GroupFilled)
  BY <1>4, LostStays
<1>6. AnswersHeld /\ CountHeld /\ CheckHeld /\ ParkHeld /\ AllStart
  BY <1>5 DEF HeldInv
<1>7. UNCHANGED <<called, isolated, member, hung, anchor, group, parent, row>>
  BY <1>1 DEF call, members, messages, supervisor
<1>8. \A a \in Attempts : verifies[a] > 0 => verifies'[a] > 0
  BY <1>1 DEF Arm, QueueTypes
<1>9. /\ AllFilled' <=> AllFilled
      /\ GroupFilled' <=> GroupFilled
      /\ CallbackDue' <=> CallbackDue
      /\ VerifyDue => VerifyDue'
      /\ Released' <=> Released
  BY <1>1, <1>7, <1>8 DEF AllFilled, Filled, GroupFilled, Collapsed, CallbackDue, VerifyDue, Released
<1>10. GroupFilled /\ row = "waiting_for_async_tool" => stage[w] \notin Checkers
  <2>1. GroupFilled => AllFilled
    BY DEF GroupFilled, AllFilled, IInv, FilledInv
  <2>2. row = "waiting_for_async_tool" => parent = "waiting_for_async_tool"
    BY DEF IInv, OnceInv
  <2> QED BY <1>5, <2>1, <2>2
<1>11. AllFilled => stage[w] \notin Counters
  BY <1>5 DEF Counters
<1>12. \A stages : stage[w] \notin stages => (AtWork(stages) => AtWork(stages)')
  BY <1>2, AtWorkKept
<1>13. AnswersHeld'
  <2> SUFFICES ASSUME NEW m \in called, WillAnswer(m) PROVE WillAnswer(m)'
    BY <1>6, <1>7 DEF AnswersHeld, Filled, Stranded
  <2>1. m \in Members
    BY DEF IInv, TypeInv, TypeOK
  <2>2. \A v \in Workers : Answering(v, m) => Answering(v, m)'
    BY <1>2, <1>3, <1>7, <2>1, OthersAnswer
  <2> QED BY <1>1, <1>7, <2>2, AnswerKept
<1>14. CountHeld'
  BY <1>6, <1>9, <1>11, <1>12 DEF CountHeld
<1>15. CheckHeld'
  BY <1>6, <1>7, <1>9, <1>10, <1>12 DEF CheckHeld
<1>16. ParkHeld'
  BY <1>6, <1>7, <1>9, <1>12 DEF ParkHeld
<1>17. AllStart'
  BY <1>6, <1>7 DEF AllStart
<1> QED BY <1>13, <1>14, <1>15, <1>16, <1>17

\* At the count,
LEMMA CountTooFewHeld ==
  ASSUME IInv, HeldInv, NEW w \in Workers, CountTooFew(w)
  PROVE  HeldInv'
BY HoldHeld DEF CountTooFew, HoldsOn, AllFilled

\* or at the barrier.
LEMMA BarrierHoldsHeld ==
  ASSUME IInv, HeldInv, NEW w \in Workers, BarrierHolds(w)
  PROVE  HeldInv'
BY HoldHeld DEF BarrierHolds, HoldsOn

-----------------------------------------------------------------------------
\* Messages that are taken are in somebody's hands.

\* A worker that takes a message is not missed elsewhere.
LEMMA TakenHeld ==
  ASSUME IInv, HeldInv, NEW w \in Workers, NEW label \in Stages, NEW what \in Tasks,
         Take(w, label, what), UNCHANGED <<call, members, messages, supervisor, published,
                                           found, faults>>,
         \A m \in Members : WillAnswer(m) => WillAnswer(m)',
         CallbackDue => CallbackDue' \/ label \in Counters,
         VerifyDue => VerifyDue' \/ label \in Checkers
  PROVE  HeldInv'
<1>1. /\ WorkerTypes' /\ stage[w] = "idle" /\ stage'[w] = label
      /\ \A v \in Workers : v # w => stage'[v] = stage[v]
  BY TypeParts, TakeTyped DEF IInv
<1> SUFFICES ASSUME ~WordLost'
             PROVE  AnswersHeld' /\ CountHeld' /\ CheckHeld' /\ ParkHeld' /\ AllStart'
  BY DEF HeldInv
<1>2. AnswersHeld /\ CountHeld /\ CheckHeld /\ ParkHeld /\ AllStart
  BY LostStays DEF HeldInv
<1>3. UNCHANGED <<called, isolated, member, hung, anchor, group, parent, row, published>>
  BY DEF call, members, messages, supervisor
<1>4. /\ AllFilled' <=> AllFilled
      /\ GroupFilled' <=> GroupFilled
      /\ Released' <=> Released
  BY <1>3 DEF AllFilled, Filled, GroupFilled, Collapsed, Released
<1>5. \A stages : /\ label \in stages => AtWork(stages)'
                  /\ "idle" \notin stages => (AtWork(stages) => AtWork(stages)')
  BY <1>1, AtWorkKept
<1>6. "idle" \notin Counters /\ "idle" \notin Checkers /\ Counters \subseteq Checkers
  BY DEF Counters, Checkers
<1>7. AnswersHeld'
  BY <1>2, <1>3 DEF AnswersHeld, Filled, Stranded, IInv, TypeInv, TypeOK
<1>8. CountHeld'
  BY <1>2, <1>4, <1>5, <1>6 DEF CountHeld
<1>9. CheckHeld'
  BY <1>2, <1>3, <1>4, <1>5, <1>6 DEF CheckHeld
<1>10. ParkHeld'
  BY <1>2, <1>3, <1>4, <1>5 DEF ParkHeld
<1>11. AllStart'
  BY <1>2, <1>3 DEF AllStart
<1> QED BY <1>7, <1>8, <1>9, <1>10, <1>11

\* A worker that takes a message brings no answer before.
LEMMA TakerAnswers ==
  ASSUME WorkerTypes, NEW w \in Workers, NEW label \in Stages, NEW what \in Tasks,
         Take(w, label, what), UNCHANGED <<member, found>>, NEW m \in Members
  PROVE  /\ stage'[w] = label /\ task'[w] = what
         /\ \A v \in Workers : Answering(v, m) => Answering(v, m)'
<1>1. /\ stage[w] = "idle" /\ stage'[w] = label /\ task'[w] = what
      /\ \A v \in Workers : v # w => stage'[v] = stage[v] /\ task'[v] = task[v]
  BY TakeTyped
<1>2. ~Answering(w, m)
  BY <1>1 DEF Answering
<1>3. \A v \in Workers : Answering(v, m) => Answering(v, m)'
  BY <1>1, <1>2, OthersAnswer
<1> QED BY <1>1, <1>3

\* A callback is in hand.
LEMMA TakeCallbackHeld ==
  ASSUME IInv, HeldInv, NEW w \in Workers, NEW c \in Members, NEW outcome \in Outcomes,
         TakeCallback(w, c, outcome)
  PROVE  HeldInv'
<1> DEFINE what == [kind |-> "callback", member |-> c, outcome |-> outcome]
<1>1. /\ UNCHANGED <<call, members, messages, supervisor, timeouts, verifies, published,
                     found, faults>>
      /\ UNCHANGED <<member, hung>>
      /\ Take(w, "anchor", what)
      /\ callbacks' = [callbacks EXCEPT ![<<c, outcome>>] = @ - 1]
  BY DEF TakeCallback, members
<1>2. /\ what \in Tasks /\ what.kind = "callback" /\ what.member = c /\ "anchor" \in Stages
      /\ "anchor" \in Counters
  BY TaskMade DEF Stages, Counters
<1> HIDE DEF what
<1>3. PICK it \in Tasks : it = what
  BY <1>2
<1>4. WorkerTypes /\ QueueTypes
  BY TypeParts DEF IInv
<1>5. ASSUME NEW m \in Members
      PROVE  /\ stage'[w] = "anchor" /\ task'[w] = it
             /\ \A v \in Workers : Answering(v, m) => Answering(v, m)'
  BY <1>1, <1>2, <1>3, <1>4, TakerAnswers
<1>6. ASSUME NEW m \in Members, WillAnswer(m) PROVE WillAnswer(m)'
  <2>1. CASE m = c
    <3>1. Answering(w, m)'
      BY <1>2, <1>3, <1>5, <2>1 DEF Answering
    <3> QED BY <3>1, AnswerComes
  <2>2. CASE m # c
    <3>1. \A o \in Outcomes : callbacks'[<<m, o>>] = callbacks[<<m, o>>]
      BY <1>1, <1>4, <2>2 DEF QueueTypes
    <3> QED BY <1>1, <1>5, <1>6, <3>1, AnswerKept
  <2> QED BY <2>1, <2>2
<1>7. VerifyDue => VerifyDue'
  BY <1>1 DEF VerifyDue
<1> QED BY <1>1, <1>2, <1>3, <1>6, <1>7, TakenHeld

\* So is a time-out: if its member runs, it will be answered for.
LEMMA TakeTimeoutHeld ==
  ASSUME IInv, HeldInv, NEW w \in Workers, NEW c \in Members, TakeTimeout(w, c)
  PROVE  HeldInv'
<1> DEFINE what == [kind |-> "timeout", member |-> c]
<1>1. /\ UNCHANGED <<call, members, messages, supervisor, callbacks, verifies, published,
                     found, faults>>
      /\ UNCHANGED <<member, hung>>
      /\ Take(w, "timeout", what)
      /\ timeouts' = timeouts \ {c}
  BY DEF TakeTimeout, members
<1>2. what \in Tasks /\ what.kind = "timeout" /\ what.member = c /\ "timeout" \in Stages
  BY TaskMade DEF Stages
<1> HIDE DEF what
<1>3. PICK it \in Tasks : it = what
  BY <1>2
<1>4. WorkerTypes
  BY TypeParts DEF IInv
<1>5. ASSUME NEW m \in Members
      PROVE  /\ stage'[w] = "timeout" /\ task'[w] = it
             /\ \A v \in Workers : Answering(v, m) => Answering(v, m)'
  BY <1>1, <1>2, <1>3, <1>4, TakerAnswers
<1>6. ASSUME NEW m \in Members, WillAnswer(m) PROVE WillAnswer(m)'
  <2>1. CASE m = c /\ member[m] = "running"
    <3>1. Answering(w, m)'
      BY <1>1, <1>2, <1>3, <1>5, <2>1 DEF Answering
    <3> QED BY <3>1, AnswerComes
  <2>2. CASE member[m] # "running"
    BY <1>1, <1>5, <1>6, <2>2 DEF WillAnswer, Answering
  <2>3. CASE m # c
    BY <1>1, <1>5, <1>6, <2>3, AnswerKept
  <2> QED BY <2>1, <2>2, <2>3
<1>7. (VerifyDue => VerifyDue') /\ (CallbackDue => CallbackDue')
  BY <1>1 DEF VerifyDue, CallbackDue
<1> QED BY <1>1, <1>2, <1>3, <1>6, <1>7, TakenHeld

\* And a verify.
LEMMA TakeVerifyHeld ==
  ASSUME IInv, HeldInv, NEW w \in Workers, NEW a \in Attempts, TakeVerify(w, a)
  PROVE  HeldInv'
<1> DEFINE what == [kind |-> "verify", attempt |-> a]
<1>1. /\ UNCHANGED <<call, members, messages, supervisor, callbacks, timeouts, published,
                     found, faults>>
      /\ UNCHANGED <<member, hung>>
      /\ Take(w, "load", what)
  BY DEF TakeVerify, members
<1>2. what \in Tasks /\ "load" \in Stages /\ "load" \in Checkers
  BY TaskMade DEF Stages, Checkers
<1> HIDE DEF what
<1>3. PICK it \in Tasks : it = what
  BY <1>2
<1>4. WorkerTypes
  BY TypeParts DEF IInv
<1>5. \A m \in Members : \A v \in Workers : Answering(v, m) => Answering(v, m)'
  BY <1>1, <1>2, <1>3, <1>4, TakerAnswers
<1>6. \A m \in Members : WillAnswer(m) => WillAnswer(m)'
  BY <1>1, <1>5, AnswerKept
<1>7. CallbackDue => CallbackDue'
  BY <1>1 DEF CallbackDue
<1> QED BY <1>1, <1>2, <1>3, <1>6, <1>7, TakenHeld

-----------------------------------------------------------------------------
\* The turn forks its members, and they end.

\* One more callback is one more that is due.
LEMMA GrowCallbacks ==
  ASSUME QueueTypes, NEW m \in Members, NEW o \in Outcomes,
         callbacks' = [callbacks EXCEPT ![<<m, o>>] = @ + 1]
  PROVE  /\ callbacks'[<<m, o>>] > 0
         /\ \A n \in Members, p \in Outcomes : callbacks[<<n, p>>] > 0 => callbacks'[<<n, p>>] > 0
<1>1. callbacks \in [Members \X Outcomes -> Nat] /\ <<m, o>> \in Members \X Outcomes
  BY DEF QueueTypes
<1>2. callbacks[<<m, o>>] \in Nat
  BY <1>1
<1>3. callbacks'[<<m, o>>] = callbacks[<<m, o>>] + 1
  BY <1>1
<1>4. callbacks'[<<m, o>>] > 0
  BY <1>2, <1>3
<1>5. ASSUME NEW n \in Members, NEW p \in Outcomes, callbacks[<<n, p>>] > 0
      PROVE  callbacks'[<<n, p>>] > 0
  <2>1. <<n, p>> \in Members \X Outcomes
    OBVIOUS
  <2>2. CASE <<n, p>> = <<m, o>>
    BY <1>4, <2>2
  <2>3. CASE <<n, p>> # <<m, o>>
    BY <1>1, <1>5, <2>1, <2>3
  <2> QED BY <2>2, <2>3
<1> QED BY <1>4, <1>5

\* The join does not depend on what the members do.
LEMMA JoinHeld ==
  ASSUME HeldInv, ~WordLost,
         UNCHANGED <<called, anchor, group, parent, row, verifies, published, stage>>,
         \A m \in Members, o \in Outcomes : callbacks[<<m, o>>] > 0 => callbacks'[<<m, o>>] > 0
  PROVE  CountHeld' /\ CheckHeld' /\ ParkHeld'
<1>1. CountHeld /\ CheckHeld /\ ParkHeld
  BY DEF HeldInv
<1>2. /\ AllFilled' <=> AllFilled
      /\ GroupFilled' <=> GroupFilled
      /\ CallbackDue => CallbackDue'
      /\ VerifyDue' <=> VerifyDue
      /\ Released' <=> Released
  BY DEF AllFilled, Filled, GroupFilled, Collapsed, CallbackDue, VerifyDue, Released
<1>3. \A stages : AtWork(stages)' <=> AtWork(stages)
  BY DEF AtWork
<1> QED BY <1>1, <1>2, <1>3 DEF CountHeld, CheckHeld, ParkHeld

\* A member that starts ends by itself, has a time-out, or speaks in the group.
LEMMA StartMemberHeld ==
  ASSUME IInv, HandlersInv, HeldInv, NEW c \in Members, NEW hangs \in BOOLEAN,
         StartMember(c, hangs)
  PROVE  HeldInv'
<1>1. GroupTypes /\ member[c] = "none" /\ c \notin hung
  BY TypeParts DEF IInv, HandlersInv, StartMember
<1>2. /\ UNCHANGED <<called, isolated, anchor, group, parent, row, callbacks, verifies,
                     published, stage, task>>
      /\ member' = [member EXCEPT ![c] = "running"]
      /\ hung' = (IF hangs THEN hung \cup {c} ELSE hung)
  BY DEF StartMember, call, messages, supervisor
<1>3. "unscheduled" \in FaultKinds \ {"throw", "duplicate", "arm"}
  BY DEF FaultKinds
<1> SUFFICES ASSUME ~WordLost'
             PROVE  AnswersHeld' /\ CountHeld' /\ CheckHeld' /\ ParkHeld' /\ AllStart'
  BY DEF HeldInv
<1>4. timeouts' = (IF isolated THEN timeouts \cup {c} ELSE timeouts) /\ UNCHANGED faults
  BY <1>3, LostStays DEF StartMember
<1>5. ~WordLost
  BY <1>4, LostStays
<1>6. /\ member'[c] = "running"
      /\ \A n \in Members : n # c => member'[n] = member[n]
  BY <1>1, <1>2 DEF GroupTypes
<1>7. CountHeld' /\ CheckHeld' /\ ParkHeld'
  BY <1>2, <1>5, JoinHeld
<1>8. AllStart'
  BY <1>5, <1>6 DEF HeldInv, AllStart
<1>9. WillAnswer(c)' \/ Stranded(c)'
  <2>1. CASE hangs /\ isolated
    BY <1>2, <1>4, <1>6, <2>1 DEF WillAnswer
  <2>2. CASE ~hangs
    BY <1>1, <1>2, <1>6, <2>2 DEF WillAnswer
  <2>3. CASE hangs /\ ~isolated
    BY <1>2, <2>3 DEF Stranded
  <2> QED BY <2>1, <2>2, <2>3
<1>10. ASSUME NEW n \in Members, n # c, WillAnswer(n) PROVE WillAnswer(n)'
  <2>1. /\ member'[n] = member[n] /\ (n \in hung' <=> n \in hung)
        /\ n \in timeouts => n \in timeouts'
    BY <1>2, <1>4, <1>6, <1>10
  <2> QED BY <1>2, <1>10, <2>1 DEF WillAnswer
<1>11. AnswersHeld'
  <2> SUFFICES ASSUME NEW n \in called PROVE Filled(n)' \/ WillAnswer(n)' \/ Stranded(n)'
    BY <1>2 DEF AnswersHeld
  <2>1. n \in Members /\ (Filled(n) \/ WillAnswer(n) \/ Stranded(n))
    BY <1>1, <1>5 DEF HeldInv, AnswersHeld, GroupTypes
  <2>2. (Filled(n) => Filled(n)') /\ (Stranded(n) => Stranded(n)')
    BY <1>2 DEF Filled, Stranded
  <2> QED BY <1>9, <1>10, <2>1, <2>2
<1> QED BY <1>7, <1>8, <1>11

\* One that does not start is what the property excepts,
LEMMA MemberNotStartedHeld ==
  ASSUME NEW m \in Members, MemberNotStarted(m)
  PROVE  HeldInv'
<1>1. {"startFails", "unmarked"} \subseteq FaultKinds \ {"throw", "duplicate", "arm"}
  BY DEF FaultKinds
<1>2. Fault("startFails") \/ Fault("unmarked")
  BY DEF MemberNotStarted
<1>3. WordLost'
  BY <1>1, <1>2, LostStays
<1> QED BY <1>3 DEF HeldInv

\* and so is a call whose members all do not.
LEMMA TearDownHeld ==
  ASSUME IInv, HandlersInv, HeldInv, TearDown
  PROVE  HeldInv'
<1>1. PICK m \in Members : member[m] = "notStarted"
  BY DEF TearDown, HandlersInv, IInv, TypeInv, TypeOK
<1>2. WordLost
  BY <1>1 DEF HeldInv, AllStart
<1>3. WordLost'
  BY <1>2, LostStays DEF TearDown
<1> QED BY <1>3 DEF HeldInv

\* A member that ends calls back.
LEMMA MemberEndsHeld ==
  ASSUME IInv, HeldInv, NEW c \in Members, NEW outcome \in Outcomes, MemberEnds(c, outcome)
  PROVE  HeldInv'
<1>1. GroupTypes /\ QueueTypes
  BY TypeParts DEF IInv
<1>2. /\ UNCHANGED <<called, isolated, hung, anchor, group, parent, row, timeouts, verifies,
                     published, stage, task, faults>>
      /\ member' = [member EXCEPT ![c] = "ended"]
      /\ callbacks' = [callbacks EXCEPT ![<<c, outcome>>] = @ + 1]
  BY DEF MemberEnds, call, messages, supervisor
<1> SUFFICES ASSUME ~WordLost'
             PROVE  AnswersHeld' /\ CountHeld' /\ CheckHeld' /\ ParkHeld' /\ AllStart'
  BY DEF HeldInv
<1>3. ~WordLost
  BY <1>2, LostStays
<1>4. /\ callbacks'[<<c, outcome>>] > 0
      /\ \A n \in Members, p \in Outcomes : callbacks[<<n, p>>] > 0 => callbacks'[<<n, p>>] > 0
  BY <1>1, <1>2, GrowCallbacks
<1>5. member'[c] = "ended" /\ \A n \in Members : n # c => member'[n] = member[n]
  BY <1>1, <1>2 DEF GroupTypes
<1>6. CountHeld' /\ CheckHeld' /\ ParkHeld'
  BY <1>2, <1>3, <1>4, JoinHeld
<1>7. AllStart'
  BY <1>3, <1>5 DEF HeldInv, AllStart
<1>8. WillAnswer(c)'
  BY <1>4 DEF WillAnswer
<1>9. ASSUME NEW n \in Members, n # c, WillAnswer(n) PROVE WillAnswer(n)'
  BY <1>2, <1>4, <1>5, <1>9 DEF WillAnswer
<1>10. AnswersHeld'
  <2> SUFFICES ASSUME NEW n \in called PROVE Filled(n)' \/ WillAnswer(n)' \/ Stranded(n)'
    BY <1>2 DEF AnswersHeld
  <2>1. n \in Members /\ (Filled(n) \/ WillAnswer(n) \/ Stranded(n))
    BY <1>1, <1>3 DEF HeldInv, AnswersHeld, GroupTypes
  <2>2. (Filled(n) => Filled(n)') /\ (Stranded(n) => Stranded(n)')
    BY <1>2 DEF Filled, Stranded
  <2> QED BY <1>8, <1>9, <2>1, <2>2
<1> QED BY <1>6, <1>7, <1>10

\* One whose callback is not published is what the property excepts.
LEMMA MemberEndsUnheardHeld ==
  ASSUME NEW m \in Members, MemberEndsUnheard(m)
  PROVE  HeldInv'
<1>1. "webhook" \in FaultKinds \ {"throw", "duplicate", "arm"}
  BY DEF FaultKinds
<1>2. WordLost'
  BY <1>1, LostStays DEF MemberEndsUnheard
<1> QED BY <1>2 DEF HeldInv

\* What is delivered twice only adds to what is due.
LEMMA DuplicateCallbackHeld ==
  ASSUME IInv, HeldInv, NEW c \in Members, NEW outcome \in Outcomes,
         DuplicateCallback(c, outcome)
  PROVE  HeldInv'
<1>1. GroupTypes /\ QueueTypes /\ (WordLost => WordLost')
  BY TypeParts, LostStays DEF IInv, DuplicateCallback, FaultKinds
<1>2. /\ UNCHANGED <<called, isolated, member, hung, anchor, group, parent, row, timeouts, verifies,
                     published, stage, task>>
      /\ callbacks' = [callbacks EXCEPT ![<<c, outcome>>] = @ + 1]
  BY DEF DuplicateCallback, call, members, messages, supervisor
<1> SUFFICES ASSUME ~WordLost'
             PROVE  AnswersHeld' /\ CountHeld' /\ CheckHeld' /\ ParkHeld' /\ AllStart'
  BY DEF HeldInv
<1>3. \A n \in Members, p \in Outcomes : callbacks[<<n, p>>] > 0 => callbacks'[<<n, p>>] > 0
  BY <1>1, <1>2, GrowCallbacks
<1>4. CountHeld' /\ CheckHeld' /\ ParkHeld'
  BY <1>1, <1>2, <1>3, JoinHeld
<1>5. AllStart'
  BY <1>1, <1>2 DEF HeldInv, AllStart
<1>6. AnswersHeld'
  <2> SUFFICES ASSUME NEW m \in called, WillAnswer(m) PROVE WillAnswer(m)'
    BY <1>1, <1>2 DEF HeldInv, AnswersHeld, Filled, Stranded
  <2>1. m \in Members /\ \A v \in Workers : Answering(v, m) => Answering(v, m)'
    BY <1>1, <1>2 DEF GroupTypes, Answering
  <2> QED BY <1>2, <1>3, <2>1, AnswerKept
<1> QED BY <1>4, <1>5, <1>6

-----------------------------------------------------------------------------
\* The turn parks.

\* The turn that saved the park writes the row,
LEMMA ParkHeldStep ==
  ASSUME IInv, HeldInv, NEW w \in Workers, Park(w)
  PROVE  HeldInv'
<1> DEFINE what == [kind |-> "step"]
<1>1. /\ UNCHANGED <<called, isolated, member, hung, anchor, group, row, callbacks, timeouts, verifies,
                     published, found, faults>>
      /\ Take(w, "row", what)
  BY DEF Park, call, members, messages, queue
<1>2. what \in Tasks /\ "row" \in Stages
  BY TaskMade DEF Stages
<1> HIDE DEF what
<1>3. PICK it \in Tasks : it = what
  BY <1>2
<1>4. WorkerTypes
  BY TypeParts DEF IInv
<1> SUFFICES ASSUME ~WordLost'
             PROVE  AnswersHeld' /\ CountHeld' /\ CheckHeld' /\ ParkHeld' /\ AllStart'
  BY DEF HeldInv
<1>5. AnswersHeld /\ CountHeld /\ CheckHeld /\ ParkHeld /\ AllStart
  BY <1>1, LostStays DEF HeldInv
<1>6. /\ stage[w] = "idle" /\ stage'[w] = "row"
      /\ \A v \in Workers : v # w => stage'[v] = stage[v]
  BY <1>1, <1>2, <1>3, <1>4, TakeTyped
<1>7. \A stages : /\ "row" \in stages => AtWork(stages)'
                  /\ "idle" \notin stages => (AtWork(stages) => AtWork(stages)')
  BY <1>6, AtWorkKept
<1>8. /\ AllFilled' <=> AllFilled
      /\ GroupFilled' <=> GroupFilled
      /\ CallbackDue' <=> CallbackDue
      /\ VerifyDue' <=> VerifyDue
  BY <1>1 DEF AllFilled, Filled, GroupFilled, Collapsed, CallbackDue, VerifyDue
<1>9. "idle" \notin Counters /\ "idle" \notin Checkers
  BY DEF Counters, Checkers
<1>10. AnswersHeld'
  <2> SUFFICES ASSUME NEW m \in called, WillAnswer(m) PROVE WillAnswer(m)'
    BY <1>1, <1>5 DEF AnswersHeld, Filled, Stranded
  <2>1. m \in Members
    BY DEF IInv, TypeInv, TypeOK
  <2>2. \A v \in Workers : Answering(v, m) => Answering(v, m)'
    BY <1>1, <1>2, <1>3, <1>4, <2>1, TakerAnswers
  <2> QED BY <1>1, <2>2, AnswerKept
<1>11. CountHeld'
  BY <1>5, <1>7, <1>8, <1>9 DEF CountHeld
<1>12. CheckHeld'
  BY <1>1, <1>5, <1>7, <1>8, <1>9 DEF CheckHeld
<1>13. ParkHeld'
  BY <1>7 DEF ParkHeld
<1>14. AllStart'
  BY <1>1, <1>5 DEF AllStart
<1> QED BY <1>10, <1>11, <1>12, <1>13, <1>14

\* A handler that goes on to its next stage, and with it at most the group call, the
\* row and what is published move: what else the join needs to be held.
LEMMA StageHeld ==
  ASSUME IInv, HeldInv, NEW w \in Workers, NEW label, stage'[w] = label,
         \A v \in Workers : v # w => stage'[v] = stage[v] /\ task'[v] = task[v],
         UNCHANGED <<called, isolated, member, hung, anchor, parent, callbacks, timeouts, verifies, faults>>,
         stage[w] \notin {"timeout", "interrupt", "anchor"},
         ~WordLost =>
           /\ AllFilled => \/ GroupFilled' \/ label \in Counters
                           \/ ~GroupFilled /\ stage[w] \notin Counters
           /\ GroupFilled' /\ row' = "waiting_for_async_tool" =>
                \/ label \in Checkers
                \/ GroupFilled /\ row = "waiting_for_async_tool" /\ stage[w] \notin Checkers
           /\ \/ row' = "waiting_for_async_tool" \/ label \in {"row", "publish"} \/ Released'
              \/ UNCHANGED <<row, published>> /\ stage[w] \notin {"row", "publish"}
  PROVE  HeldInv'
<1> SUFFICES ASSUME ~WordLost'
             PROVE  AnswersHeld' /\ CountHeld' /\ CheckHeld' /\ ParkHeld' /\ AllStart'
  BY DEF HeldInv
<1>1. AnswersHeld /\ CountHeld /\ CheckHeld /\ ParkHeld /\ AllStart /\ ~WordLost
  BY LostStays DEF HeldInv
<1>2. /\ AllFilled' <=> AllFilled
      /\ CallbackDue' <=> CallbackDue
      /\ VerifyDue' <=> VerifyDue
  BY DEF AllFilled, Filled, CallbackDue, VerifyDue
<1>3. \A stages : /\ label \in stages => AtWork(stages)'
                  /\ stage[w] \notin stages => (AtWork(stages) => AtWork(stages)')
  BY AtWorkKept
<1>4. AnswersHeld'
  <2> SUFFICES ASSUME NEW m \in called, WillAnswer(m) PROVE WillAnswer(m)'
    BY <1>1 DEF AnswersHeld, Filled, Stranded
  <2>1. m \in Members /\ ~Answering(w, m)
    BY DEF IInv, TypeInv, TypeOK, Answering
  <2>2. \A v \in Workers : Answering(v, m) => Answering(v, m)'
    BY <2>1, OthersAnswer
  <2> QED BY <2>2, AnswerKept
<1>5. CountHeld'
  <2> SUFFICES ASSUME AllFilled', ~GroupFilled' PROVE CallbackDue' \/ AtWork(Counters)'
    BY DEF CountHeld
  <2>1. AllFilled
    BY <1>2
  <2>2. CASE label \in Counters
    BY <1>3, <2>2
  <2>3. CASE ~GroupFilled /\ stage[w] \notin Counters
    BY <1>1, <1>2, <1>3, <2>1, <2>3 DEF CountHeld
  <2> QED BY <1>1, <2>1, <2>2, <2>3
<1>6. CheckHeld'
  BY <1>1, <1>2, <1>3 DEF CheckHeld
<1>7. ParkHeld'
  <2>1. UNCHANGED <<row, published>> => (Released' <=> Released)
    BY DEF Released
  <2> HIDE DEF Released
  <2> QED BY <1>1, <1>3, <2>1 DEF ParkHeld
<1>8. AllStart'
  BY <1>1 DEF AllStart
<1> QED BY <1>4, <1>5, <1>6, <1>7, <1>8

\* and then checks the barrier itself.
LEMMA WriteRowHeld ==
  ASSUME IInv, HeldInv, NEW w \in Workers, WriteRow(w)
  PROVE  HeldInv'
<1>1. WorkerTypes /\ stage[w] = "row" /\ row' = "waiting_for_async_tool" /\ Goto(w, "load")
  BY TypeParts DEF IInv, WriteRow
<1>2. UNCHANGED <<called, isolated, member, hung, anchor, group, parent, callbacks, timeouts, verifies,
                  task, found, faults>>
  BY DEF WriteRow, call, members, messages, queue
<1>3. stage'[w] = "load" /\ \A v \in Workers : v # w => stage'[v] = stage[v]
  BY <1>1, <1>2, GotoTyped DEF Stages
<1>4. stage[w] \notin Counters /\ "load" \in Checkers
  BY <1>1 DEF Counters, Checkers
<1>5. GroupFilled' <=> GroupFilled
  BY <1>2 DEF GroupFilled, Collapsed, Filled
<1> QED BY <1>1, <1>2, <1>3, <1>4, <1>5, StageHeld

-----------------------------------------------------------------------------
\* The group call, the claim and the step.

\* The filled group call's barrier is checked.
LEMMA FillGroupHeld ==
  ASSUME IInv, HeldInv, NEW w \in Workers, FillGroup(w)
  PROVE  HeldInv'
<1>1. WorkerTypes /\ GroupTypes /\ stage[w] = "group" /\ Goto(w, "load")
  BY TypeParts DEF IInv, FillGroup
<1>2. /\ UNCHANGED <<called, isolated, member, hung, anchor, parent, row, callbacks, timeouts, verifies,
                     published, task, found, faults>>
      /\ group' = [group EXCEPT !.status = "completed"]
  BY DEF FillGroup, call, members, supervisor, queue
<1>3. stage'[w] = "load" /\ \A v \in Workers : v # w => stage'[v] = stage[v]
  BY <1>1, <1>2, GotoTyped DEF Stages
<1>4. "load" \in Checkers
  BY DEF Checkers
<1>5. AllFilled
  BY <1>1 DEF IInv, FilledInv
<1>6. GroupFilled'
  <2>1. group'.status \in Outcomes
    BY <1>1, <1>2 DEF GroupTypes, Outcomes
  <2>2. AllFilled'
    BY <1>2, <1>5 DEF AllFilled, Filled
  <2> QED BY <2>1, <2>2 DEF GroupFilled, AllFilled
<1> QED BY <1>1, <1>2, <1>3, <1>4, <1>6, StageHeld

\* Whoever wins the CAS publishes,
LEMMA WinCasHeld ==
  ASSUME IInv, HeldInv, NEW w \in Workers, WinCas(w)
  PROVE  HeldInv'
<1>1. WorkerTypes /\ stage[w] = "cas" /\ row' = "running" /\ Goto(w, "publish")
  BY TypeParts DEF IInv, WinCas
<1>2. UNCHANGED <<called, isolated, member, hung, anchor, group, parent, callbacks, timeouts, verifies,
                  task, found, faults>>
  BY DEF WinCas, call, members, messages, queue
<1>3. stage'[w] = "publish" /\ \A v \in Workers : v # w => stage'[v] = stage[v]
  BY <1>1, <1>2, GotoTyped DEF Stages
<1>4. stage[w] \notin Counters
  BY <1>1 DEF Counters
<1>5. GroupFilled' <=> GroupFilled
  BY <1>2 DEF GroupFilled, Collapsed, Filled
<1> QED BY <1>1, <1>2, <1>3, <1>4, <1>5, StageHeld

\* and the supervisor is released.
LEMMA PublishNextHeld ==
  ASSUME IInv, HeldInv, NEW w \in Workers, PublishNext(w)
  PROVE  HeldInv'
<1>1. WorkerTypes /\ QueueTypes /\ stage[w] = "publish" /\ Finish(w)
  BY TypeParts DEF IInv, PublishNext
<1>2. /\ UNCHANGED <<called, isolated, member, hung, anchor, group, parent, row, callbacks, timeouts,
                     verifies, faults>>
      /\ published' = [published EXCEPT ![found[w]] = @ + 1]
  BY DEF PublishNext, call, members, messages, supervisor
<1>3. stage'[w] = "idle" /\ \A v \in Workers : v # w => stage'[v] = stage[v] /\ task'[v] = task[v]
  BY <1>1, FinishTyped
<1>4. stage[w] \notin Counters /\ stage[w] \notin Checkers
  BY <1>1 DEF Counters, Checkers
<1>5. GroupFilled' <=> GroupFilled
  BY <1>2 DEF GroupFilled, Collapsed, Filled
<1>6. Released'
  <2>1. found[w] \in Dispositions /\ published[found[w]] \in Nat
    BY <1>1 DEF WorkerTypes, QueueTypes
  <2>2. published'[found[w]] = published[found[w]] + 1
    BY <1>1, <1>2, <2>1 DEF QueueTypes
  <2>3. published'[found[w]] > 0
    BY <2>1, <2>2
  <2> QED BY <2>1, <2>3 DEF Released
<1> QED BY <1>1, <1>2, <1>3, <1>4, <1>5, <1>6, StageHeld

-----------------------------------------------------------------------------
\* The answers.

\* A member that a time-out interrupts is answered for.
LEMMA TimeoutInterruptsHeld ==
  ASSUME IInv, HandlersInv, HeldInv, NEW w \in Workers, TimeoutInterrupts(w)
  PROVE  HeldInv'
<1> DEFINE c == task[w].member
<1>1. WorkerTypes /\ GroupTypes /\ stage[w] = "interrupt" /\ Goto(w, "anchor")
  BY TypeParts DEF IInv, TimeoutInterrupts
<1>2. /\ UNCHANGED <<called, isolated, hung, anchor, group, parent, row, callbacks, timeouts, verifies,
                     published, task, found, faults>>
      /\ member' = [member EXCEPT ![c] = IF @ = "running" THEN "interrupted" ELSE @]
  BY DEF TimeoutInterrupts, call, messages, supervisor, queue
<1>3. task[w].kind = "timeout"
  BY <1>1 DEF HandlersInv, Placed
<1>4. /\ stage'[w] = "anchor" /\ \A v \in Workers : v # w => stage'[v] = stage[v]
  BY <1>1, <1>2, GotoTyped DEF Stages
<1> HIDE DEF c
<1>5. \A n \in Members :
        /\ n # c => member'[n] = member[n]
        /\ member'[n] = "notStarted" => member[n] = "notStarted"
  BY <1>1, <1>2 DEF GroupTypes
<1> SUFFICES ASSUME ~WordLost'
             PROVE  AnswersHeld' /\ CountHeld' /\ CheckHeld' /\ ParkHeld' /\ AllStart'
  BY DEF HeldInv
<1>6. AnswersHeld /\ CountHeld /\ CheckHeld /\ ParkHeld /\ AllStart
  BY <1>2, LostStays DEF HeldInv
<1>7. AtWork(Counters)' /\ AtWork(Checkers)'
  BY <1>4 DEF AtWork, Counters, Checkers
<1>8. AtWork({"row", "publish"}) => AtWork({"row", "publish"})'
  BY <1>1, <1>4 DEF AtWork
<1>9. ASSUME NEW n \in Members, WillAnswer(n) PROVE WillAnswer(n)'
  <2>1. CASE n = c
    <3>1. Answering(w, n)'
      BY <1>2, <1>3, <1>4, <2>1 DEF Answering, c
    <3> QED BY <3>1, AnswerComes
  <2>2. CASE n # c
    <3>1. member'[n] = member[n]
      BY <1>5, <2>2
    <3>2. task[w].member # n
      BY <2>2 DEF c
    <3>3. \A v \in Workers : Answering(v, n) => Answering(v, n)'
      BY <1>2, <1>4, <3>1, <3>2 DEF Answering
    <3> QED BY <1>2, <1>9, <3>1, <3>3 DEF WillAnswer, Answering
  <2> QED BY <2>1, <2>2
<1>10. AnswersHeld'
  BY <1>1, <1>2, <1>6, <1>9 DEF AnswersHeld, Filled, Stranded, GroupTypes
<1>11. CountHeld' /\ CheckHeld'
  BY <1>7 DEF CountHeld, CheckHeld
<1>12. ParkHeld'
  BY <1>2, <1>6, <1>8 DEF ParkHeld, Released
<1>13. AllStart'
  BY <1>5, <1>6 DEF AllStart
<1> QED BY <1>10, <1>11, <1>12, <1>13

\* A filled anchor is counted, or, if it is the only one, checked.
LEMMA FillAnchorHeld ==
  ASSUME IInv, HandlersInv, HeldInv, NEW w \in Workers, FillAnchor(w)
  PROVE  HeldInv'
<1> DEFINE value == IF task[w].kind = "callback" THEN task[w].outcome ELSE "error"
           label == IF Collapsed THEN "load" ELSE "count"
<1>1. /\ WorkerTypes /\ GroupTypes /\ stage[w] = "anchor" /\ Goto(w, label)
      /\ task[w] \in Tasks \cup {NoTask}
  BY TypeParts DEF IInv, FillAnchor, WorkerTypes
<1>2. /\ UNCHANGED <<called, isolated, member, hung, group, parent, row, callbacks, timeouts, verifies,
                     published, task, found, faults>>
      /\ anchor' = [anchor EXCEPT ![task[w].member] = value]
  BY DEF FillAnchor, call, members, supervisor, queue
<1>3. task[w].kind \in {"callback", "timeout"}
  BY <1>1 DEF HandlersInv, Placed, Counters
<1>4. value \in Outcomes /\ task[w].member \in Members
  BY <1>1, <1>3, TaskTypes DEF Outcomes
<1> PICK c \in Members : c = task[w].member
  BY <1>4
<1>5. label \in Stages /\ label \in Checkers /\ (~Collapsed => label \in Counters)
  BY DEF Stages, Checkers, Counters
<1>6. label \notin {"row", "publish"}
  OBVIOUS
<1> HIDE DEF value, label
<1>7. stage'[w] = label /\ \A v \in Workers : v # w => stage'[v] = stage[v]
  BY <1>1, <1>2, <1>5, GotoTyped
<1>8. Filled(c)' /\ \A n \in Members : Filled(n) => Filled(n)'
  BY <1>1, <1>2, <1>4 DEF GroupTypes, Filled
<1> SUFFICES ASSUME ~WordLost'
             PROVE  AnswersHeld' /\ CountHeld' /\ CheckHeld' /\ ParkHeld' /\ AllStart'
  BY DEF HeldInv
<1>9. AnswersHeld /\ CountHeld /\ CheckHeld /\ ParkHeld /\ AllStart
  BY <1>2, LostStays DEF HeldInv
<1>10. \A stages : /\ label \in stages => AtWork(stages)'
                   /\ stage[w] \notin stages => (AtWork(stages) => AtWork(stages)')
  BY <1>7, AtWorkKept
<1>11. AnswersHeld'
  <2> SUFFICES ASSUME NEW n \in called, ~Filled(n)', ~Stranded(n) PROVE WillAnswer(n)'
    BY <1>2 DEF AnswersHeld, Stranded
  <2>1. n \in Members /\ n # c /\ WillAnswer(n)
    BY <1>1, <1>8, <1>9 DEF AnswersHeld, Filled, GroupTypes
  <2>2. ~Answering(w, n)
    BY <2>1 DEF Answering
  <2>3. \A v \in Workers : Answering(v, n) => Answering(v, n)'
    BY <1>2, <1>7, <2>2, OthersAnswer
  <2> QED BY <1>2, <2>1, <2>3, AnswerKept
<1>12. CountHeld'
  <2>1. CASE Collapsed
    <3>1. GroupFilled' <=> AllFilled'
      BY <1>2, <2>1 DEF GroupFilled, AllFilled, Collapsed
    <3> QED BY <3>1 DEF CountHeld
  <2>2. CASE ~Collapsed
    BY <1>5, <1>10, <2>2 DEF CountHeld
  <2> QED BY <2>1, <2>2
<1>13. CheckHeld'
  BY <1>5, <1>10 DEF CheckHeld
<1>14. ParkHeld'
  <2>1. Released' <=> Released
    BY <1>2 DEF Released
  <2> QED BY <1>1, <1>2, <1>9, <1>10, <2>1 DEF ParkHeld
<1>15. AllStart'
  BY <1>2, <1>9 DEF AllStart
<1> QED BY <1>11, <1>12, <1>13, <1>14, <1>15

\* A failed delivery is made again.
LEMMA ThrowsHeld ==
  ASSUME IInv, HandlersInv, HeldInv, NEW w \in Workers, Throws(w)
  PROVE  HeldInv'
<1>1. /\ WorkerTypes /\ QueueTypes /\ task[w] \in Tasks \cup {NoTask}
      /\ Fault(IF task[w].kind = "timeout" THEN "timeoutThrows" ELSE "throw") /\ Finish(w)
  BY TypeParts DEF IInv, Throws, WorkerTypes
<1>2. UNCHANGED <<called, isolated, member, hung, anchor, group, parent, row, published>>
  BY DEF Throws, call, members, messages, supervisor
<1>3. \A v \in Workers : v # w => stage'[v] = stage[v] /\ task'[v] = task[v]
  BY <1>1, FinishTyped
<1>4. /\ "throw" \in FaultKinds
      /\ "timeoutThrows" \in FaultKinds \ {"throw", "duplicate", "arm"}
  BY DEF FaultKinds
<1>5. /\ stage[w] \notin {"row", "publish"}
      /\ stage[w] \in {"timeout", "interrupt"} \cup Checkers
  BY DEF Throws, Checkers, Counters
<1> SUFFICES ASSUME ~WordLost'
             PROVE  AnswersHeld' /\ CountHeld' /\ CheckHeld' /\ ParkHeld' /\ AllStart'
  BY DEF HeldInv
<1>6. task[w].kind # "timeout"
  BY <1>1, <1>4, LostStays
<1>7. ~WordLost
  BY <1>1, <1>4, <1>6, LostStays
<1>8. AnswersHeld /\ CountHeld /\ CheckHeld /\ ParkHeld /\ AllStart
  BY <1>7 DEF HeldInv
<1>9. task[w].kind \in {"callback", "verify"} /\ UNCHANGED timeouts
  <2>1. stage[w] \in Checkers /\ task[w].kind # "none" /\ task[w].kind # "step"
    BY <1>5, <1>6 DEF HandlersInv, Placed, Throws
  <2> QED BY <1>1, <1>6, <2>1, TaskTypes DEF Throws
<1>10. \A stages : stage[w] \notin stages => (AtWork(stages) => AtWork(stages)')
  BY <1>3, AtWorkKept
<1>11. /\ AllFilled' <=> AllFilled
       /\ GroupFilled' <=> GroupFilled
       /\ Released' <=> Released
  BY <1>2 DEF AllFilled, Filled, GroupFilled, Collapsed, Released
<1>12. ParkHeld'
  BY <1>2, <1>5, <1>8, <1>10, <1>11 DEF ParkHeld
<1>13. AllStart'
  BY <1>2, <1>8 DEF AllStart
<1>14. CASE task[w].kind = "callback"
  <2>1. task[w].member \in Members /\ task[w].outcome \in Outcomes
    BY <1>1, <1>14, TaskTypes
  <2> PICK c \in Members, outcome \in Outcomes : c = task[w].member /\ outcome = task[w].outcome
    BY <2>1
  <2>2. UNCHANGED verifies /\ callbacks' = [callbacks EXCEPT ![<<c, outcome>>] = @ + 1]
    BY <1>14 DEF Throws
  <2>3. /\ callbacks'[<<c, outcome>>] > 0
        /\ \A n \in Members, p \in Outcomes : callbacks[<<n, p>>] > 0 => callbacks'[<<n, p>>] > 0
    BY <1>1, <2>2, GrowCallbacks
  <2>4. CallbackDue' /\ WillAnswer(c)'
    BY <2>3 DEF CallbackDue, WillAnswer
  <2>5. AnswersHeld'
    <3> SUFFICES ASSUME NEW n \in called, n # c, WillAnswer(n) PROVE WillAnswer(n)'
      BY <1>2, <1>8, <2>4 DEF AnswersHeld, Filled, Stranded
    <3>1. n \in Members /\ ~Answering(w, n)
      BY DEF IInv, TypeInv, TypeOK, Answering
    <3>2. \A v \in Workers : Answering(v, n) => Answering(v, n)'
      BY <1>2, <1>3, <3>1, OthersAnswer
    <3> QED BY <1>2, <1>9, <2>3, <3>1, <3>2, AnswerKept
  <2>6. CountHeld' /\ CheckHeld'
    BY <2>4 DEF CountHeld, CheckHeld
  <2> QED BY <1>12, <1>13, <2>5, <2>6
<1>15. CASE task[w].kind = "verify"
  <2> DEFINE a == task[w].attempt
  <2>1. a \in Attempts
    BY <1>1, <1>15, TaskTypes
  <2>2. UNCHANGED callbacks /\ verifies' = [verifies EXCEPT ![a] = @ + 1]
    BY <1>15 DEF Throws
  <2> HIDE DEF a
  <2>3. VerifyDue'
    BY <1>1, <2>1, <2>2 DEF VerifyDue, QueueTypes
  <2>4. stage[w] \notin Counters /\ \A n : ~Answering(w, n)
    BY <1>15 DEF HandlersInv, Placed, Answering
  <2>5. AnswersHeld'
    <3> SUFFICES ASSUME NEW n \in called, WillAnswer(n) PROVE WillAnswer(n)'
      BY <1>2, <1>8 DEF AnswersHeld, Filled, Stranded
    <3>1. n \in Members
      BY DEF IInv, TypeInv, TypeOK
    <3>2. \A v \in Workers : Answering(v, n) => Answering(v, n)'
      BY <1>2, <1>3, <2>4, <3>1, OthersAnswer
    <3> QED BY <1>2, <1>9, <2>2, <3>2, AnswerKept
  <2>6. CallbackDue' <=> CallbackDue
    BY <2>2 DEF CallbackDue
  <2>7. CountHeld'
    BY <1>8, <1>10, <1>11, <2>4, <2>6 DEF CountHeld
  <2>8. CheckHeld'
    BY <2>3 DEF CheckHeld
  <2> QED BY <1>12, <1>13, <2>5, <2>7, <2>8
<1> QED BY <1>9, <1>14, <1>15

\* Nothing happens.
LEMMA StutterHeld ==
  ASSUME IInv, HeldInv, UNCHANGED vars
  PROVE  HeldInv'
<1> SUFFICES ASSUME ~WordLost'
             PROVE  AnswersHeld' /\ CountHeld' /\ CheckHeld' /\ ParkHeld' /\ AllStart'
  BY DEF HeldInv
<1>1. ~WordLost
  BY LostStays DEF vars
<1>2. UNCHANGED <<called, isolated, member, hung, anchor, group, parent, row, callbacks, timeouts,
                  verifies, published, stage, task>>
  BY DEF vars
<1>3. CountHeld' /\ CheckHeld' /\ ParkHeld'
  BY <1>1, <1>2, JoinHeld
<1>4. AllStart'
  BY <1>1, <1>2 DEF HeldInv, AllStart
<1>5. AnswersHeld'
  <2> SUFFICES ASSUME NEW m \in called, WillAnswer(m) PROVE WillAnswer(m)'
    BY <1>1, <1>2 DEF HeldInv, AnswersHeld, Filled, Stranded
  <2>1. \A v \in Workers : Answering(v, m) => Answering(v, m)'
    BY <1>2 DEF Answering
  <2> QED BY <1>2, <2>1, AnswerKept
<1> QED BY <1>3, <1>4, <1>5

-----------------------------------------------------------------------------
\* Where the handlers are.

\* What a step must do to keep them there.
LEMMA PlacedStays ==
  ASSUME IInv, HandlersInv, UNCHANGED called,
         \A m \in Members :
           member'[m] = "none" => member[m] = "none" /\ (m \in hung' => m \in hung),
         \A v \in Workers : Placed(v)' \/ (stage'[v] = stage[v] /\ task'[v] = task[v])
  PROVE  HandlersInv'
<1>1. \A v \in Workers : stage'[v] = stage[v] /\ task'[v] = task[v] => (Placed(v) => Placed(v)')
  BY DEF Placed
<1> QED BY <1>1 DEF HandlersInv

\* A handler that goes on, or is done, with everything else but the members' anchors,
\* the supervisor and the queue left alone.
LEMMA StepPlaced ==
  ASSUME IInv, HandlersInv, NEW w \in Workers, NEW label \in Stages,
         UNCHANGED <<called, member, hung>>,
         \/ Finish(w)
         \/ /\ Goto(w, label) /\ UNCHANGED task
            /\ label \in {"timeout", "interrupt"} => task[w].kind = "timeout"
            /\ label \in Counters => task[w].kind \in {"callback", "timeout"}
            /\ label \in Checkers \cup {"row"} => task[w].kind # "none"
  PROVE  HandlersInv'
<1>1. WorkerTypes
  BY TypeParts DEF IInv
<1>2. CASE Finish(w)
  <2>1. /\ stage'[w] = "idle"
        /\ \A v \in Workers : v # w => stage'[v] = stage[v] /\ task'[v] = task[v]
    BY <1>1, <1>2, FinishTyped
  <2>2. Placed(w)'
    BY <2>1 DEF Placed, Counters, Checkers
  <2> QED BY <2>1, <2>2, PlacedStays
<1>3. CASE Goto(w, label) /\ UNCHANGED task
           /\ (label \in {"timeout", "interrupt"} => task[w].kind = "timeout")
           /\ (label \in Counters => task[w].kind \in {"callback", "timeout"})
           /\ (label \in Checkers \cup {"row"} => task[w].kind # "none")
  <2>1. stage'[w] = label /\ \A v \in Workers : v # w => stage'[v] = stage[v]
    BY <1>1, <1>3 DEF WorkerTypes, Goto
  <2>2. Placed(w)'
    BY <1>3, <2>1 DEF Placed
  <2> QED BY <1>3, <2>1, <2>2, PlacedStays
<1> QED BY <1>2, <1>3

\* A worker that takes a message.
LEMMA TakenPlaced ==
  ASSUME IInv, HandlersInv, NEW w \in Workers, NEW label \in Stages, NEW what \in Tasks,
         UNCHANGED <<called, member, hung, found>>, Take(w, label, what),
         label \in {"timeout", "interrupt"} => what.kind = "timeout",
         label \in Counters => what.kind \in {"callback", "timeout"},
         label \in Checkers \cup {"row"} => what.kind # "none"
  PROVE  HandlersInv'
<1>1. /\ stage'[w] = label /\ task'[w] = what
      /\ \A v \in Workers : v # w => stage'[v] = stage[v] /\ task'[v] = task[v]
  BY TypeParts, TakeTyped DEF IInv
<1>2. Placed(w)'
  BY <1>1 DEF Placed
<1> QED BY <1>1, <1>2, PlacedStays

\* A task's message leads its handler to its stage.
LEMMA TakesPlaced ==
  ASSUME IInv, HandlersInv, NEW w \in Workers,
         \/ Park(w)
         \/ \E m \in Members : TakeTimeout(w, m) \/ \E o \in Outcomes : TakeCallback(w, m, o)
         \/ \E a \in Attempts : TakeVerify(w, a)
  PROVE  HandlersInv'
<1>1. {"row", "timeout", "anchor", "load"} \subseteq Stages
  BY DEF Stages
<1>2. /\ "row" \notin Counters \cup {"timeout", "interrupt"}
      /\ "timeout" \notin Checkers
      /\ Counters \subseteq Checkers
      /\ "load" \notin Counters
  BY DEF Counters, Checkers
<1>3. CASE Park(w)
  <2>1. PICK it \in Tasks : it = [kind |-> "step"]
    BY TaskMade
  <2>2. Take(w, "row", it) /\ UNCHANGED <<called, member, hung, found>>
    BY <1>3, <2>1 DEF Park, call, members
  <2>3. it.kind = "step"
    BY <2>1
  <2> QED BY <1>1, <1>2, <2>2, <2>3, TakenPlaced
<1>4. ASSUME NEW m \in Members, TakeTimeout(w, m) PROVE HandlersInv'
  <2>1. PICK it \in Tasks : it = [kind |-> "timeout", member |-> m]
    BY TaskMade
  <2>2. Take(w, "timeout", it) /\ UNCHANGED <<called, member, hung, found>>
    BY <1>4, <2>1 DEF TakeTimeout, call, members
  <2>3. it.kind = "timeout"
    BY <2>1
  <2> QED BY <1>1, <1>2, <2>2, <2>3, TakenPlaced
<1>5. ASSUME NEW m \in Members, NEW o \in Outcomes, TakeCallback(w, m, o) PROVE HandlersInv'
  <2>1. PICK it \in Tasks : it = [kind |-> "callback", member |-> m, outcome |-> o]
    BY TaskMade
  <2>2. Take(w, "anchor", it) /\ UNCHANGED <<called, member, hung, found>>
    BY <1>5, <2>1 DEF TakeCallback, call, members
  <2>3. it.kind = "callback"
    BY <2>1
  <2> QED BY <1>1, <2>2, <2>3, TakenPlaced
<1>6. ASSUME NEW a \in Attempts, TakeVerify(w, a) PROVE HandlersInv'
  <2>1. PICK it \in Tasks : it = [kind |-> "verify", attempt |-> a]
    BY TaskMade
  <2>2. Take(w, "load", it) /\ UNCHANGED <<called, member, hung, found>>
    BY <1>6, <2>1 DEF TakeVerify, call, members
  <2>3. it.kind = "verify"
    BY <2>1
  <2> QED BY <1>1, <1>2, <2>2, <2>3, TakenPlaced
<1> QED BY <1>3, <1>4, <1>5, <1>6

\* A handler goes on from where its message led it.
LEMMA HandlePlaced ==
  ASSUME IInv, HandlersInv, NEW w \in Workers, Handle(w) \/ Throws(w)
  PROVE  HandlersInv'
<1>1. Placed(w) /\ WorkerTypes /\ GroupTypes
  BY TypeParts DEF HandlersInv, IInv
<1>2. {"interrupt", "anchor", "count", "group", "load", "cas", "publish"} \subseteq Stages
  BY DEF Stages
<1>3. /\ Checkers \cup {"row"} = {"anchor", "count", "group", "load", "cas", "row"}
      /\ Counters = {"anchor", "count", "group"}
  BY DEF Checkers, Counters
<1>4. CASE Finish(w) /\ UNCHANGED <<called, member, hung>>
  BY <1>2, <1>4, StepPlaced
<1>5. CASE TimeoutLoads(w)
  <2>1. UNCHANGED <<called, member, hung>> /\ task[w].kind = "timeout"
    BY <1>1, <1>5 DEF TimeoutLoads, call, members, Placed
  <2>2. Finish(w) \/ (Goto(w, "interrupt") /\ UNCHANGED task)
    BY <1>5 DEF TimeoutLoads
  <2> QED BY <1>2, <1>3, <2>1, <2>2, StepPlaced
<1>6. CASE TimeoutInterrupts(w)
  <2>1. UNCHANGED <<called, hung, task>> /\ task[w].kind = "timeout" /\ Goto(w, "anchor")
    BY <1>1, <1>6 DEF TimeoutInterrupts, call, Placed
  <2>2. stage'[w] = "anchor" /\ \A v \in Workers : v # w => stage'[v] = stage[v]
    BY <1>1, <2>1 DEF WorkerTypes, Goto
  <2>3. \A m \in Members : member'[m] = "none" => member[m] = "none"
    <3>1. member' = [member EXCEPT ![task[w].member] = IF @ = "running" THEN "interrupted" ELSE @]
      BY <1>6 DEF TimeoutInterrupts
    <3> QED BY <1>1, <3>1 DEF GroupTypes
  <2>4. Placed(w)'
    BY <1>3, <2>1, <2>2 DEF Placed
  <2> QED BY <2>1, <2>2, <2>3, <2>4, PlacedStays
<1>7. CASE FillAnchor(w)
  <2>1. /\ UNCHANGED <<called, member, hung, task>> /\ task[w].kind \in {"callback", "timeout"}
        /\ Goto(w, "load") \/ Goto(w, "count")
    BY <1>1, <1>3, <1>7 DEF FillAnchor, call, members, Placed
  <2> QED BY <1>2, <1>3, <2>1, StepPlaced
<1>8. CASE CountAll(w)
  <2>1. /\ UNCHANGED <<called, member, hung, task>> /\ task[w].kind \in {"callback", "timeout"}
        /\ Goto(w, "group")
    BY <1>1, <1>3, <1>8 DEF CountAll, call, members, Placed
  <2> QED BY <1>2, <1>3, <2>1, StepPlaced
<1>9. CASE FillGroup(w)
  <2>1. /\ UNCHANGED <<called, member, hung, task>> /\ task[w].kind \in {"callback", "timeout"}
        /\ Goto(w, "load")
    BY <1>1, <1>3, <1>9 DEF FillGroup, call, members, Placed
  <2> QED BY <1>2, <1>3, <2>1, StepPlaced
<1>10. CASE WriteRow(w)
  <2>1. UNCHANGED <<called, member, hung, task>> /\ task[w].kind # "none" /\ Goto(w, "load")
    BY <1>1, <1>3, <1>10 DEF WriteRow, call, members, Placed
  <2> QED BY <1>2, <1>3, <2>1, StepPlaced
<1>11. CASE BarrierOpens(w)
  <2>1. UNCHANGED <<called, member, hung, task>> /\ task[w].kind # "none" /\ Goto(w, "cas")
    BY <1>1, <1>3, <1>11 DEF BarrierOpens, call, members, Placed
  <2> QED BY <1>2, <1>3, <2>1, StepPlaced
<1>12. CASE WinCas(w)
  <2>1. UNCHANGED <<called, member, hung, task>> /\ Goto(w, "publish")
    BY <1>12 DEF WinCas, call, members
  <2> QED BY <1>2, <1>3, <2>1, StepPlaced
<1>13. CountTooFew(w) \/ BarrierHolds(w) \/ LoseCas(w) \/ PublishNext(w) \/ Throws(w) =>
         Finish(w) /\ UNCHANGED <<called, member, hung>>
  BY DEF CountTooFew, BarrierHolds, HoldsOn, Hold, HoldUnarmed, LoseCas, PublishNext, Throws, call, members
<1> QED BY <1>4, <1>5, <1>6, <1>7, <1>8, <1>9, <1>10, <1>11, <1>12, <1>13 DEF Handle

\* Every step keeps them where they are.
LEMMA NextPlaced == IInv /\ HandlersInv /\ [Next]_vars => HandlersInv'
<1> SUFFICES ASSUME IInv, HandlersInv, [Next]_vars PROVE HandlersInv'
  OBVIOUS
<1>1. GroupTypes
  BY TypeParts DEF IInv
<1>2. CASE Fork
  <2>1. ASSUME NEW m \in Members, NEW hangs \in BOOLEAN, StartMember(m, hangs) PROVE HandlersInv'
    <3>1. /\ UNCHANGED <<called, stage, task>> /\ member' = [member EXCEPT ![m] = "running"]
          /\ hung' = (IF hangs THEN hung \cup {m} ELSE hung)
      BY <2>1 DEF StartMember, call
    <3>2. member'[m] = "running" /\ \A n \in Members : n # m => member'[n] = member[n]
      BY <1>1, <3>1 DEF GroupTypes
    <3> QED BY <3>1, <3>2, PlacedStays
  <2>2. ASSUME NEW m \in Members, MemberNotStarted(m) PROVE HandlersInv'
    <3>1. /\ UNCHANGED <<called, hung, stage, task>>
          /\ member' = [member EXCEPT ![m] = "notStarted"]
      BY <2>2 DEF MemberNotStarted, call
    <3>2. \A n \in Members : member'[n] = "none" => member[n] = "none"
      BY <1>1, <3>1 DEF GroupTypes
    <3> QED BY <3>1, <3>2, PlacedStays
  <2>3. CASE TearDown
    BY <2>3, PlacedStays DEF TearDown, call, members
  <2> QED BY <1>2, <2>1, <2>2, <2>3, TakesPlaced DEF Fork
<1>3. CASE TakeMessage
  BY <1>3, TakesPlaced DEF TakeMessage
<1>4. ASSUME NEW w \in Workers, Handle(w) \/ Throws(w) PROVE HandlersInv'
  BY <1>4, HandlePlaced
<1>5. ASSUME NEW m \in Members, NEW o \in Outcomes, MemberEnds(m, o) PROVE HandlersInv'
  <2>1. UNCHANGED <<called, hung, stage, task>> /\ member' = [member EXCEPT ![m] = "ended"]
    BY <1>5 DEF MemberEnds, call
  <2>2. \A n \in Members : member'[n] = "none" => member[n] = "none"
    BY <1>1, <2>1 DEF GroupTypes
  <2> QED BY <2>1, <2>2, PlacedStays
<1>6. ASSUME NEW m \in Members, NEW o \in Outcomes, DuplicateCallback(m, o) PROVE HandlersInv'
  BY <1>6, PlacedStays DEF DuplicateCallback, call, members
<1>7. ASSUME NEW m \in Members, MemberEndsUnheard(m) PROVE HandlersInv'
  <2>1. UNCHANGED <<called, hung, stage, task>> /\ member' = [member EXCEPT ![m] = "ended"]
    BY <1>7 DEF MemberEndsUnheard, call
  <2>2. \A n \in Members : member'[n] = "none" => member[n] = "none"
    BY <1>1, <2>1 DEF GroupTypes
  <2> QED BY <2>1, <2>2, PlacedStays
<1>8. CASE UNCHANGED vars
  BY <1>8, PlacedStays DEF vars
<1> QED BY <1>2, <1>3, <1>4, <1>5, <1>6, <1>7, <1>8 DEF Next

-----------------------------------------------------------------------------
\* Every step leaves the join held.
LEMMA NextHeld == IInv /\ HandlersInv /\ HeldInv /\ [Next]_vars => HeldInv'
<1> SUFFICES ASSUME IInv, HandlersInv, HeldInv, [Next]_vars PROVE HeldInv'
  OBVIOUS
<1>1. CASE Fork
  BY <1>1, MemberNotStartedHeld, StartMemberHeld, TearDownHeld, ParkHeldStep DEF Fork
<1>2. CASE TakeMessage
  BY <1>2, TakeTimeoutHeld, TakeCallbackHeld, TakeVerifyHeld DEF TakeMessage
<1>3. ASSUME NEW w \in Workers, Handle(w) PROVE HeldInv'
  BY <1>3, WriteRowHeld, TimeoutLoadsHeld, TimeoutInterruptsHeld, FillAnchorHeld, CountAllHeld,
     CountTooFewHeld, FillGroupHeld, BarrierOpensHeld, BarrierHoldsHeld, WinCasHeld, LoseCasHeld,
     PublishNextHeld DEF Handle
<1>4. ASSUME NEW w \in Workers, Throws(w) PROVE HeldInv'
  BY <1>4, ThrowsHeld
<1>5. ASSUME NEW m \in Members, NEW o \in Outcomes, MemberEnds(m, o) \/ DuplicateCallback(m, o)
      PROVE  HeldInv'
  BY <1>5, MemberEndsHeld, DuplicateCallbackHeld
<1>6. ASSUME NEW m \in Members, MemberEndsUnheard(m) PROVE HeldInv'
  BY <1>6, MemberEndsUnheardHeld
<1>7. CASE UNCHANGED vars
  BY <1>7, StutterHeld
<1> QED BY <1>1, <1>2, <1>3, <1>4, <1>5, <1>6, <1>7 DEF Next

\* Of a parked supervisor, for any members, workers, attempts and faults, every member
\* has answered or will, all their answers are counted, the count is checked, and the
\* park is a row to claim.  Nobody's word is lost but by the faults the property names,
\* a swallowed publish of a callback among them, or when it hangs without a deadline.
THEOREM SupervisorHeldTheorem == Spec => []SupervisorHeld
<1>1. Init => IInv /\ HandlersInv /\ HeldInv
  BY InitInv, InitHeld
<1>2. IInv /\ HandlersInv /\ HeldInv /\ [Next]_vars => IInv' /\ HandlersInv' /\ HeldInv'
  BY NextInv, NextPlaced, NextHeld
<1>3. HeldInv => SupervisorHeld
  <2> SUFFICES ASSUME HeldInv, parent = "waiting_for_async_tool", ~Released, ~WordLost
               PROVE  SupervisorHeld
    BY DEF SupervisorHeld
  <2>1. AnswersHeld /\ CountHeld /\ CheckHeld /\ ParkHeld
    BY DEF HeldInv
  <2>2. \A m \in called : Filled(m) \/ WillAnswer(m) \/ Stranded(m)
    BY <2>1 DEF AnswersHeld
  <2>3. (\A m \in called : Filled(m)) =>
           GroupFilled \/ CallbackDue \/ AtWork({"anchor", "count", "group"})
    BY <2>1 DEF CountHeld, AllFilled, Counters
  <2>4. Checkers = {"anchor", "count", "group", "load", "cas"}
    BY DEF Checkers, Counters
  <2>5. GroupFilled /\ row = "waiting_for_async_tool" =>
           \/ CallbackDue \/ \E a \in Attempts : verifies[a] > 0
           \/ AtWork({"anchor", "count", "group", "load", "cas"})
    BY <2>1, <2>4 DEF CheckHeld, VerifyDue
  <2>6. row = "waiting_for_async_tool" \/ AtWork({"row", "publish"})
    BY <2>1 DEF ParkHeld
  <2> QED BY <2>2, <2>3, <2>5, <2>6 DEF SupervisorHeld
<1> QED BY <1>1, <1>2, <1>3, PTL DEF Spec
=============================================================================
