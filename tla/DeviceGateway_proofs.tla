------------------------ MODULE DeviceGateway_proofs ------------------------
(* Theorems about DeviceGateway, for any requests, keys, bounds and faults:   *)
(* a handler is never left waiting for nothing, no entry leaks, no answer in  *)
(* time is lost, what the hub lists is served, and a device that takes itself *)
(* for connected is listed.  The inductive invariant relates each request's   *)
(* timer to its entry and its channels, and each connection's timer to its    *)
(* read loop; that an entry's channel is empty is also what its type, room    *)
(* for one answer, rests on.  A second one relates both ends of a socket.     *)
EXTENDS DeviceGateway, FiniteSetTheorems, TLAPS

\* The types the argument needs: those of the requests and of the connections.
RequestTypes ==
  /\ at \in [Requests -> Points]
  /\ timer \in [Requests -> Timers]
  /\ pending \subseteq Requests
  /\ resultCh \in [Requests -> SUBSET Requests]
  /\ timeoutCh \subseteq Requests
  /\ outcome \in [Requests -> Outcomes]

ConnectionTypes ==
  /\ stage \in [Sockets -> Stages]
  /\ connections \in Sockets \cup {NoSocket}

\* A timer is armed by the dispatch and leaves its mark where it ended.
TimerMarks(r) ==
  /\ at[r] = "idle" => timer[r] = "off"
  /\ at[r] \in {"insert", "write", "select"} => timer[r] # "off"
  /\ timer[r] = "ran" <=> r \in timeoutCh
  /\ timer[r] = "stopped" => at[r] # "insert"
  /\ timer[r] = "stopped" =>
       resultCh[r] # {} \/ outcome[r] = "offline" \/ Cancelled(r)

\* An entry is inserted once, under a timer, and not removed too late.
EntryWaits(r) ==
  r \in pending =>
    /\ at[r] \notin {"idle", "insert"}
    /\ timer[r] \notin {"off", "stopped"}
    /\ resultCh[r] = {}
    /\ at[r] = "returned" => timer[r] = "ran"

\* An answer and an outcome come to a handler that has got so far.
AnswerMarks(r) ==
  /\ resultCh[r] # {} => at[r] \notin {"idle", "insert"}
  /\ resultCh[r] # {} => timer[r] \in {"stopped", "fired", "ran"}
  /\ outcome[r] # "none" => at[r] = "returned"
  /\ outcome[r] = "timeout" => r \in timeoutCh

RequestInv ==
  /\ RequestTypes
  /\ \A r \in Requests : TimerMarks(r) /\ EntryWaits(r) /\ AnswerMarks(r)

ConnectionInv ==
  /\ ConnectionTypes
  /\ connections # NoSocket => stage[connections] \in {"greeting", "serving"}
  /\ \A s \in authTimedOut : stage[s] \in {"new", "resolving", "gone"}

IInv == RequestInv /\ ConnectionInv

-----------------------------------------------------------------------------
\* Steps that leave one part alone.

\* Without a step of a request, its part of the invariant stays.
LEMMA RequestKept ==
  RequestInv /\ UNCHANGED reqVars => RequestInv'
BY DEF RequestInv, RequestTypes, TimerMarks, EntryWaits, AnswerMarks, Cancelled,
       reqVars

\* Without a step of a connection, its part of the invariant stays.
LEMMA ConnectionKept ==
  ConnectionInv /\ UNCHANGED connVars => ConnectionInv'
BY DEF ConnectionInv, ConnectionTypes, connVars

\* Nothing is dispatched and nothing is connected.
LEMMA InitInv == Init => IInv
<1>1. Init => RequestInv
  BY DEF Init, HubInit, RequestInv, RequestTypes, TimerMarks, EntryWaits,
         AnswerMarks, Points, Timers, Outcomes
<1>2. Init => ConnectionInv
  BY DEF Init, HubInit, ConnectionInv, ConnectionTypes, Stages
<1> QED BY <1>1, <1>2 DEF IInv

-----------------------------------------------------------------------------
\* A connection's steps: only its own read loop moves, it is listed by Register
\* alone, and whoever returns is removed.

\* Each step of a connection keeps who is listed and whose timer has fired apart.
LEMMA ConnectionSteps ==
  ASSUME ConnectionInv, NEW s \in Sockets,
         Accept(s) \/ ReadAuth(s) \/ AuthTimerFires(s) \/ Attach(s) \/ AttachTooLate(s)
         \/ Refuse(s) \/ Register(s) \/ Greet(s) \/ HeartbeatTimesOut(s) \/ ReadFails(s)
  PROVE  ConnectionInv'
<1> USE DEF ConnectionInv, ConnectionTypes, Stages, NoSocket, Remove
<1>0. s # NoSocket
  BY SocketAssumption DEF Sockets
<1>1. CASE Accept(s)
  BY <1>0, <1>1 DEF Accept
<1>2. CASE ReadAuth(s)
  BY <1>0, <1>2 DEF ReadAuth
<1>3. CASE AuthTimerFires(s)
  BY <1>0, <1>3 DEF AuthTimerFires
<1>4. CASE Attach(s)
  BY <1>0, <1>4 DEF Attach
<1>5. CASE AttachTooLate(s)
  BY <1>0, <1>5 DEF AttachTooLate
<1>6. CASE Refuse(s)
  BY <1>0, <1>6 DEF Refuse
<1>7. CASE Register(s)
  BY <1>0, <1>7 DEF Register
<1>8. CASE Greet(s)
  BY <1>0, <1>8 DEF Greet
<1>9. CASE HeartbeatTimesOut(s)
  BY <1>0, <1>9 DEF HeartbeatTimesOut
<1>10. CASE ReadFails(s)
  BY <1>0, <1>10 DEF ReadFails
<1> QED BY <1>1, <1>2, <1>3, <1>4, <1>5, <1>6, <1>7, <1>8, <1>9, <1>10

-----------------------------------------------------------------------------
\* A request's steps.  In each, every request keeps the marks of its timer,
\* its entry and its channels; another request of the same key can lose its
\* entry to it, and its timer only to a write that fails or to an answer.

\* What one request has done to another's timer stays done.
LEMMA CancelledStays ==
  ASSUME RequestInv, NEW r \in Requests, Cancelled(r),
         \A q \in Requests : outcome[q] = "offline" /\ timer[q] # "off" =>
                               outcome'[q] = "offline" /\ timer'[q] # "off"
  PROVE  Cancelled(r)'
BY DEF Cancelled

\* A request without a device returns before it has a timer.
LEMMA NoDeviceStep ==
  ASSUME RequestInv, NEW r \in Requests, NoDevice(r)
  PROVE  RequestInv'
<1> USE DEF Points, Timers, Outcomes
<1>1. RequestTypes'
  BY DEF RequestInv, RequestTypes, NoDevice
<1>2. \A q \in Requests : outcome[q] = "offline" /\ timer[q] # "off" =>
                            outcome'[q] = "offline" /\ timer'[q] # "off"
  BY DEF RequestInv, RequestTypes, AnswerMarks, TimerMarks, NoDevice
<1>3. ASSUME NEW p \in Requests PROVE TimerMarks(p)'
  <2>1. Cancelled(p) => Cancelled(p)'
    BY <1>2, CancelledStays
  <2> QED
    BY <2>1 DEF RequestInv, RequestTypes, TimerMarks, EntryWaits, AnswerMarks, NoDevice
<1>4. ASSUME NEW p \in Requests PROVE EntryWaits(p)'
  BY DEF RequestInv, RequestTypes, TimerMarks, EntryWaits, AnswerMarks, NoDevice
<1>5. ASSUME NEW p \in Requests PROVE AnswerMarks(p)'
  BY DEF RequestInv, RequestTypes, TimerMarks, EntryWaits, AnswerMarks, NoDevice
<1> QED BY <1>1, <1>3, <1>4, <1>5 DEF RequestInv

\* A dispatch arms the timer before the entry is in.
LEMMA DispatchStep ==
  ASSUME RequestInv, NEW r \in Requests, Dispatch(r)
  PROVE  RequestInv'
<1> USE DEF Points, Timers, Outcomes
<1>1. RequestTypes'
  BY DEF RequestInv, RequestTypes, Dispatch
<1>2. \A q \in Requests : outcome[q] = "offline" /\ timer[q] # "off" =>
                            outcome'[q] = "offline" /\ timer'[q] # "off"
  BY DEF RequestInv, RequestTypes, AnswerMarks, TimerMarks, Dispatch
<1>3. ASSUME NEW p \in Requests PROVE TimerMarks(p)'
  <2>1. Cancelled(p) => Cancelled(p)'
    BY <1>2, CancelledStays
  <2> QED
    BY <2>1 DEF RequestInv, RequestTypes, TimerMarks, EntryWaits, AnswerMarks, Dispatch
<1>4. ASSUME NEW p \in Requests PROVE EntryWaits(p)'
  BY DEF RequestInv, RequestTypes, TimerMarks, EntryWaits, AnswerMarks, Dispatch
<1>5. ASSUME NEW p \in Requests PROVE AnswerMarks(p)'
  BY DEF RequestInv, RequestTypes, TimerMarks, EntryWaits, AnswerMarks, Dispatch
<1> QED BY <1>1, <1>3, <1>4, <1>5 DEF RequestInv

\* The entry goes in under the timer, over another one of its key.
LEMMA InsertStep ==
  ASSUME RequestInv, NEW r \in Requests, Insert(r)
  PROVE  RequestInv'
<1> USE DEF Points, Timers, Outcomes
<1>1. RequestTypes'
  BY DEF RequestInv, RequestTypes, Insert, EntryOf
<1>2. \A q \in Requests : outcome[q] = "offline" /\ timer[q] # "off" =>
                            outcome'[q] = "offline" /\ timer'[q] # "off"
  BY DEF RequestInv, RequestTypes, AnswerMarks, TimerMarks, Insert, EntryOf
<1>3. ASSUME NEW p \in Requests PROVE TimerMarks(p)'
  <2>1. Cancelled(p) => Cancelled(p)'
    BY <1>2, CancelledStays
  <2> QED
    BY <2>1 DEF RequestInv, RequestTypes, TimerMarks, EntryWaits, AnswerMarks, Insert, EntryOf
<1>4. ASSUME NEW p \in Requests PROVE EntryWaits(p)'
  BY DEF RequestInv, RequestTypes, TimerMarks, EntryWaits, AnswerMarks, Insert, EntryOf
<1>5. ASSUME NEW p \in Requests PROVE AnswerMarks(p)'
  BY DEF RequestInv, RequestTypes, TimerMarks, EntryWaits, AnswerMarks, Insert, EntryOf
<1> QED BY <1>1, <1>3, <1>4, <1>5 DEF RequestInv

\* A request that is written leaves its handler in the select.
LEMMA WriteRequestStep ==
  ASSUME RequestInv, NEW r \in Requests, WriteRequest(r)
  PROVE  RequestInv'
<1> USE DEF Points, Timers, Outcomes
<1>1. RequestTypes'
  BY DEF RequestInv, RequestTypes, WriteRequest
<1>2. \A q \in Requests : outcome[q] = "offline" /\ timer[q] # "off" =>
                            outcome'[q] = "offline" /\ timer'[q] # "off"
  BY DEF RequestInv, RequestTypes, AnswerMarks, TimerMarks, WriteRequest
<1>3. ASSUME NEW p \in Requests PROVE TimerMarks(p)'
  <2>1. Cancelled(p) => Cancelled(p)'
    BY <1>2, CancelledStays
  <2> QED
    BY <2>1 DEF RequestInv, RequestTypes, TimerMarks, EntryWaits, AnswerMarks, WriteRequest
<1>4. ASSUME NEW p \in Requests PROVE EntryWaits(p)'
  BY DEF RequestInv, RequestTypes, TimerMarks, EntryWaits, AnswerMarks, WriteRequest
<1>5. ASSUME NEW p \in Requests PROVE AnswerMarks(p)'
  BY DEF RequestInv, RequestTypes, TimerMarks, EntryWaits, AnswerMarks, WriteRequest
<1> QED BY <1>1, <1>3, <1>4, <1>5 DEF RequestInv

\* A write that fails clears the key's entry and stops its timer.
LEMMA WriteFailsStep ==
  ASSUME RequestInv, NEW r \in Requests, WriteFails(r)
  PROVE  RequestInv'
<1> USE DEF Points, Timers, Outcomes
<1>1. RequestTypes'
  BY DEF RequestInv, RequestTypes, WriteFails, ClearPending, EntryOf, StopTimers
<1>2. \A q \in Requests : outcome[q] = "offline" /\ timer[q] # "off" =>
                            outcome'[q] = "offline" /\ timer'[q] # "off"
  BY DEF RequestInv, RequestTypes, AnswerMarks, TimerMarks, WriteFails, ClearPending, EntryOf, StopTimers
<1>3. ASSUME NEW p \in Requests PROVE TimerMarks(p)'
  <2>1. Cancelled(p) => Cancelled(p)'
    BY <1>2, CancelledStays
  <2>2. r \in Requests /\ outcome'[r] = "offline" /\ timer'[r] # "off"
    BY DEF RequestInv, RequestTypes, TimerMarks, EntryOf, StopTimers, ClearPending, WriteFails
  <2>3. p # r /\ timer'[p] # timer[p] => Key[p] = Key[r]
    BY DEF RequestInv, RequestTypes, EntryOf, StopTimers, ClearPending, WriteFails
  <2>4. p # r /\ timer'[p] # timer[p] => Cancelled(p)'
    BY <2>2, <2>3 DEF Cancelled
  <2> QED
    BY <2>1, <2>2, <2>4 DEF RequestInv, RequestTypes, TimerMarks, EntryWaits, AnswerMarks, WriteFails, ClearPending, EntryOf, StopTimers
<1>4. ASSUME NEW p \in Requests PROVE EntryWaits(p)'
  BY DEF RequestInv, RequestTypes, TimerMarks, EntryWaits, AnswerMarks, WriteFails, ClearPending, EntryOf, StopTimers
<1>5. ASSUME NEW p \in Requests PROVE AnswerMarks(p)'
  BY DEF RequestInv, RequestTypes, TimerMarks, EntryWaits, AnswerMarks, WriteFails, ClearPending, EntryOf, StopTimers
<1> QED BY <1>1, <1>3, <1>4, <1>5 DEF RequestInv

\* A timer that fires can be stopped no more.
LEMMA TimerFiresStep ==
  ASSUME RequestInv, NEW r \in Requests, TimerFires(r)
  PROVE  RequestInv'
<1> USE DEF Points, Timers, Outcomes
<1>1. RequestTypes'
  BY DEF RequestInv, RequestTypes, TimerFires
<1>2. \A q \in Requests : outcome[q] = "offline" /\ timer[q] # "off" =>
                            outcome'[q] = "offline" /\ timer'[q] # "off"
  BY DEF RequestInv, RequestTypes, AnswerMarks, TimerMarks, TimerFires
<1>3. ASSUME NEW p \in Requests PROVE TimerMarks(p)'
  <2>1. Cancelled(p) => Cancelled(p)'
    BY <1>2, CancelledStays
  <2> QED
    BY <2>1 DEF RequestInv, RequestTypes, TimerMarks, EntryWaits, AnswerMarks, TimerFires
<1>4. ASSUME NEW p \in Requests PROVE EntryWaits(p)'
  BY DEF RequestInv, RequestTypes, TimerMarks, EntryWaits, AnswerMarks, TimerFires
<1>5. ASSUME NEW p \in Requests PROVE AnswerMarks(p)'
  BY DEF RequestInv, RequestTypes, TimerMarks, EntryWaits, AnswerMarks, TimerFires
<1> QED BY <1>1, <1>3, <1>4, <1>5 DEF RequestInv

\* A timer that runs deletes the key's entry and leaves its time-out.
LEMMA TimerRunsStep ==
  ASSUME RequestInv, NEW r \in Requests, TimerRuns(r)
  PROVE  RequestInv'
<1> USE DEF Points, Timers, Outcomes
<1>1. RequestTypes'
  BY DEF RequestInv, RequestTypes, TimerRuns, EntryOf
<1>2. \A q \in Requests : outcome[q] = "offline" /\ timer[q] # "off" =>
                            outcome'[q] = "offline" /\ timer'[q] # "off"
  BY DEF RequestInv, RequestTypes, AnswerMarks, TimerMarks, TimerRuns, EntryOf
<1>3. ASSUME NEW p \in Requests PROVE TimerMarks(p)'
  <2>1. Cancelled(p) => Cancelled(p)'
    BY <1>2, CancelledStays
  <2> QED
    BY <2>1 DEF RequestInv, RequestTypes, TimerMarks, EntryWaits, AnswerMarks, TimerRuns, EntryOf
<1>4. ASSUME NEW p \in Requests PROVE EntryWaits(p)'
  BY DEF RequestInv, RequestTypes, TimerMarks, EntryWaits, AnswerMarks, TimerRuns, EntryOf
<1>5. ASSUME NEW p \in Requests PROVE AnswerMarks(p)'
  BY DEF RequestInv, RequestTypes, TimerMarks, EntryWaits, AnswerMarks, TimerRuns, EntryOf
<1> QED BY <1>1, <1>3, <1>4, <1>5 DEF RequestInv

\* A handler returns with what is in one of its channels.
LEMMA ReturnStep ==
  ASSUME RequestInv, NEW r \in Requests, Return(r)
  PROVE  RequestInv'
<1> USE DEF Points, Timers, Outcomes
<1>1. RequestTypes'
  BY DEF RequestInv, RequestTypes, Return
<1>2. \A q \in Requests : outcome[q] = "offline" /\ timer[q] # "off" =>
                            outcome'[q] = "offline" /\ timer'[q] # "off"
  BY DEF RequestInv, RequestTypes, AnswerMarks, TimerMarks, Return
<1>3. ASSUME NEW p \in Requests PROVE TimerMarks(p)'
  <2>1. Cancelled(p) => Cancelled(p)'
    BY <1>2, CancelledStays
  <2> QED
    BY <2>1 DEF RequestInv, RequestTypes, TimerMarks, EntryWaits, AnswerMarks, Return
<1>4. ASSUME NEW p \in Requests PROVE EntryWaits(p)'
  BY DEF RequestInv, RequestTypes, TimerMarks, EntryWaits, AnswerMarks, Return
<1>5. ASSUME NEW p \in Requests PROVE AnswerMarks(p)'
  BY DEF RequestInv, RequestTypes, TimerMarks, EntryWaits, AnswerMarks, Return
<1> QED BY <1>1, <1>3, <1>4, <1>5 DEF RequestInv

\* An answer takes the entry out, stops its timer and fills its channel.
LEMMA ReadAnswerStep ==
  ASSUME RequestInv, NEW s \in Sockets, ReadAnswer(s)
  PROVE  RequestInv'
<1> USE DEF Points, Timers, Outcomes
<1>1. RequestTypes'
  BY DEF RequestInv, RequestTypes, ReadAnswer, ResolvePending, EntryOf, StopTimers
<1>2. \A q \in Requests : outcome[q] = "offline" /\ timer[q] # "off" =>
                            outcome'[q] = "offline" /\ timer'[q] # "off"
  BY DEF RequestInv, RequestTypes, AnswerMarks, TimerMarks, ReadAnswer, ResolvePending, EntryOf, StopTimers
<1>3. ASSUME NEW p \in Requests PROVE TimerMarks(p)'
  <2>1. Cancelled(p) => Cancelled(p)'
    BY <1>2, CancelledStays
  <2> QED
    BY <2>1 DEF RequestInv, RequestTypes, TimerMarks, EntryWaits, AnswerMarks, ReadAnswer, ResolvePending, EntryOf, StopTimers
<1>4. ASSUME NEW p \in Requests PROVE EntryWaits(p)'
  BY DEF RequestInv, RequestTypes, TimerMarks, EntryWaits, AnswerMarks, ReadAnswer, ResolvePending, EntryOf, StopTimers
<1>5. ASSUME NEW p \in Requests PROVE AnswerMarks(p)'
  BY DEF RequestInv, RequestTypes, TimerMarks, EntryWaits, AnswerMarks, ReadAnswer, ResolvePending, EntryOf, StopTimers
<1> QED BY <1>1, <1>3, <1>4, <1>5 DEF RequestInv

-----------------------------------------------------------------------------
\* A step of the device changes neither part.
LEMMA ClientSteps ==
  Client \/ Refresh \/ Quit \/ (\E r \in Requests : Answer(r)) =>
    UNCHANGED <<reqVars, connVars>>
BY DEF Client, Connect, Retry, HandleOpen, HandleAuthSuccess, HandleAuthFailed,
       HandleRequest, HandleClose, HeartbeatMissed, ConnectTimesOut, Refresh, Quit,
       Answer

\* Every step keeps the invariant.
LEMMA NextInv == IInv /\ [Next]_vars => IInv'
<1> SUFFICES ASSUME IInv, [Next]_vars PROVE IInv'
  OBVIOUS
<1> USE DEF IInv
<1>1. CASE UNCHANGED <<reqVars, connVars>>
  BY <1>1, RequestKept, ConnectionKept
<1>2. CASE UNCHANGED vars
  BY <1>1, <1>2 DEF vars, hubVars
<1>3. CASE Client \/ Refresh \/ Quit \/ (\E r \in Requests : Answer(r))
  BY <1>1, <1>3, ClientSteps
<1>4. ASSUME NEW s \in Sockets, Connection(s) \/ LinkFails(s) PROVE IInv'
  <2>1. CASE LinkFails(s)
    BY <1>1, <2>1 DEF LinkFails
  <2>2. CASE ReadAnswer(s)
    <3>1. RequestInv'
      BY <2>2, ReadAnswerStep
    <3>2. ConnectionInv'
      BY <2>2, ConnectionKept DEF ReadAnswer
    <3> QED BY <3>1, <3>2
  <2>3. CASE Accept(s) \/ ReadAuth(s) \/ AuthTimerFires(s) \/ Attach(s)
             \/ AttachTooLate(s) \/ Refuse(s) \/ Register(s) \/ Greet(s)
             \/ HeartbeatTimesOut(s) \/ ReadFails(s)
    <3>1. ConnectionInv'
      BY <2>3, ConnectionSteps
    <3>2. UNCHANGED reqVars
      BY <2>3 DEF Accept, ReadAuth, AuthTimerFires, Attach, AttachTooLate, Refuse,
                  Register, Greet, HeartbeatTimesOut, ReadFails
    <3> QED BY <3>1, <3>2, RequestKept
  <2> QED BY <1>4, <2>1, <2>2, <2>3 DEF Connection
<1>5. ASSUME NEW r \in Requests, Request(r) PROVE IInv'
  <2>1. UNCHANGED connVars
    BY <1>5 DEF Request, NoDevice, Dispatch, Insert, WriteRequest, WriteFails,
                TimerFires, TimerRuns, Return
  <2>2. RequestInv'
    BY <1>5, NoDeviceStep, DispatchStep, InsertStep, WriteRequestStep,
       WriteFailsStep, TimerFiresStep, TimerRunsStep, ReturnStep DEF Request
  <2> QED BY <2>1, <2>2, ConnectionKept
<1> QED BY <1>2, <1>3, <1>4, <1>5 DEF Next, HubNext

\* The invariant holds in every reachable state, whatever connections, requests,
\* timers and faults there are (hub.go and connection.go as DeviceHub has them).
THEOREM InvariantTheorem == Spec => []IInv
<1>1. Init => IInv
  BY InitInv
<1>2. IInv /\ [Next]_vars => IInv'
  BY NextInv
<1> QED BY <1>1, <1>2, PTL DEF Spec

-----------------------------------------------------------------------------
\* No handler of the hub waits without an answer, a time-out or a live timer to
\* wake it (hub.go, setPending, clearPending, resolvePending and dispatch),
\* unless a run of the same operation has cancelled its timer.
THEOREM NeverStrandedTheorem == Spec => []NeverStranded
<1>1. IInv => NeverStranded
  BY DEF IInv, RequestInv, RequestTypes, TimerMarks, AnswerMarks, NeverStranded, Timers
<1> QED BY <1>1, InvariantTheorem, PTL

\* No entry of hub.pending outlives its handler, but one inserted after its
\* timer ran.
THEOREM PendingWaitsTheorem == Spec => []PendingWaits
<1>1. IInv => PendingWaits
  BY DEF IInv, RequestInv, RequestTypes, TimerMarks, EntryWaits, PendingWaits, Timers,
         Points
<1> QED BY <1>1, InvariantTheorem, PTL

\* The hub lists no connection that its authTimer has closed or whose read loop
\* has returned (connection.go, attachAuthenticated against startAuthTimer).
THEOREM ListedServesTheorem == Spec => []ListedServes
<1>1. IInv => ListedServes
  BY DEF IInv, ConnectionInv, ConnectionTypes, ListedServes
<1> QED BY <1>1, InvariantTheorem, PTL

\* Once an answer is in its channel in time, no time-out overtakes it.
THEOREM AnswersKeptTheorem == Spec => AnswersKept
<1>1. IInv /\ IInv' /\ [Next]_vars =>
        [\A r \in Requests :
           resultCh[r] # {} /\ timer[r] \notin {"fired", "ran"} =>
             timer'[r] \notin {"fired", "ran"} /\ outcome'[r] # "timeout"]_vars
  <2> SUFFICES ASSUME IInv, IInv', Next, NEW r \in Requests,
                      resultCh[r] # {}, timer[r] \notin {"fired", "ran"}
               PROVE  timer'[r] \notin {"fired", "ran"} /\ outcome'[r] # "timeout"
    OBVIOUS
  <2>1. timer[r] = "stopped"
    BY DEF IInv, RequestInv, AnswerMarks
  <2>2. timer'[r] = "stopped"
    <3>1. CASE UNCHANGED reqVars
      BY <2>1, <3>1 DEF reqVars
    <3>2. CASE \E q \in Requests : Request(q)
      BY <2>1, <3>2 DEF IInv, RequestInv, RequestTypes, TimerMarks, Request, NoDevice,
         Dispatch, Insert, WriteRequest, WriteFails, ClearPending, EntryOf, StopTimers,
         TimerFires, TimerRuns, Return
    <3>3. CASE \E s \in Sockets : ReadAnswer(s)
      BY <2>1, <3>3 DEF ReadAnswer, ResolvePending, StopTimers, EntryOf
    <3>4. CASE \E s \in Sockets : Connection(s) /\ ~ReadAnswer(s)
      BY <3>1, <3>4 DEF Connection, Accept, ReadAuth, AuthTimerFires, Attach,
         AttachTooLate, Refuse, Register, Greet, HeartbeatTimesOut, ReadFails
    <3>5. CASE \E s \in Sockets : LinkFails(s)
      BY <3>1, <3>5 DEF LinkFails
    <3>6. CASE Client \/ Refresh \/ Quit \/ (\E q \in Requests : Answer(q))
      BY <3>1, <3>6, ClientSteps
    <3> QED BY <3>2, <3>3, <3>4, <3>5, <3>6 DEF Next, HubNext
  <2>3. outcome'[r] # "timeout"
    BY <2>2 DEF IInv, RequestInv, TimerMarks, AnswerMarks
  <2> QED BY <2>2, <2>3
<1> QED BY <1>1, InvariantTheorem, PTL DEF Spec, AnswersKept
-----------------------------------------------------------------------------
\* The rest of the type invariant: the links, the device's client, and that a
\* result channel, which has room for one answer, is never sent a second.

UpMessages == {"auth"} \cup Requests
DownMessages == {"auth_success", "auth_failed"} \cup Requests

LinkTypes ==
  /\ link \in [Sockets -> {"none", "up", "reset", "dead"}]
  /\ shut \in [Sockets -> SUBSET {"device", "gateway"}]
  /\ up \in [Sockets -> Seq(UpMessages)]
  /\ down \in [Sockets -> Seq(DownMessages)]
  /\ faults \in 0 .. MaxFaults

HubTypes ==
  /\ authTimedOut \subseteq Sockets
  /\ old \in [Sockets -> Sockets \cup {NoSocket}]
  /\ target \in [Requests -> Sockets \cup {NoSocket}]
  /\ \A r \in Requests : Cardinality(resultCh[r]) <= 1

ClientTypes ==
  /\ status \in ClientStatus
  /\ ws \in Sockets \cup {NoSocket}
  /\ opened \in 0 .. MaxSockets
  /\ connectPromise \in BOOLEAN /\ reconnectTimer \in BOOLEAN
  /\ intentional \in BOOLEAN /\ refused \in BOOLEAN
  /\ working \subseteq Requests

\* The parts are the whole.
LEMMA TypesAreAll == TypeOK <=> RequestTypes /\ ConnectionTypes /\ LinkTypes /\ HubTypes
                                  /\ ClientTypes
BY DEF TypeOK, HubTypeOK, RequestTypes, ConnectionTypes, LinkTypes, HubTypes, ClientTypes,
       UpMessages, DownMessages

\* Nothing is opened, sent or dispatched.
LEMMA TypesInit == Init => LinkTypes /\ HubTypes /\ ClientTypes
<1> SUFFICES ASSUME Init PROVE LinkTypes /\ HubTypes /\ ClientTypes
  OBVIOUS
<1>1. LinkTypes
  BY SocketAssumption DEF Init, HubInit, LinkTypes
<1>2. HubTypes
  BY FS_EmptySet DEF Init, HubInit, HubTypes
<1>3. ClientTypes
  <2>1. opened \in 0 .. MaxSockets
    BY SocketAssumption DEF Init
  <2> QED BY <2>1, Zenon DEF Init, ClientTypes, ClientStatus
<1> QED BY <1>1, <1>2, <1>3

\* What happens to a socket's queue leaves queues.
LEMMA QueueTypes ==
  ASSUME NEW S, NEW queue \in [Sockets -> Seq(S)], NEW s \in Sockets
  PROVE  /\ \A msg \in S : Sent(queue, s, msg) \in [Sockets -> Seq(S)]
         /\ queue[s] # << >> => [queue EXCEPT ![s] = Tail(@)] \in [Sockets -> Seq(S)]
         /\ [queue EXCEPT ![s] = << >>] \in [Sockets -> Seq(S)]
BY DEF Sent

\* A fault is one of those there may be.
LEMMA FaultTypes ==
  ASSUME LinkTypes, NEW kind, CountFault(kind)
  PROVE  faults' \in 0 .. MaxFaults
BY SocketAssumption DEF LinkTypes, CountFault

\* The gateway closes an end.
LEMMA CloseTypes ==
  ASSUME LinkTypes, NEW s \in Sockets, NEW last \in {"", "auth_failed"}, Close(s, last)
  PROVE  /\ shut' \in [Sockets -> SUBSET {"device", "gateway"}]
         /\ up' \in [Sockets -> Seq(UpMessages)]
         /\ down' \in [Sockets -> Seq(DownMessages)]
BY QueueTypes DEF LinkTypes, Close, DownMessages

\* The device closes its end, if it has one.
LEMMA CloseSocketTypes ==
  ASSUME LinkTypes, ClientTypes, CloseSocket
  PROVE  /\ shut' \in [Sockets -> SUBSET {"device", "gateway"}]
         /\ down' \in [Sockets -> Seq(DownMessages)]
<1>1. CASE ws = NoSocket
  BY <1>1 DEF LinkTypes, CloseSocket
<1>2. CASE ws # NoSocket
  <2>1. ws \in Sockets
    BY <1>2 DEF ClientTypes
  <2>2. /\ shut' = [shut EXCEPT ![ws] = @ \cup {"device"}]
        /\ down' = [down EXCEPT ![ws] = << >>]
    BY <1>2 DEF CloseSocket
  <2>3. shut' \in [Sockets -> SUBSET {"device", "gateway"}]
    BY <2>1, <2>2 DEF LinkTypes
  <2> QED BY <2>1, <2>2, <2>3, QueueTypes DEF LinkTypes
<1> QED BY <1>1, <1>2

\* The device opens its next socket.
LEMMA OpenSocketTypes ==
  ASSUME LinkTypes, ClientTypes, OpenSocket
  PROVE  /\ link' \in [Sockets -> {"none", "up", "reset", "dead"}]
         /\ opened' \in 0 .. MaxSockets /\ ws' \in Sockets
         /\ status' \in ClientStatus /\ reconnectTimer' \in BOOLEAN
<1>1. opened \in 0 .. MaxSockets
  BY DEF ClientTypes
<1>2. opened' \in 0 .. MaxSockets /\ ws' \in Sockets
  BY <1>1, SocketAssumption DEF OpenSocket, Sockets
<1>3. link' \in [Sockets -> {"none", "up", "reset", "dead"}]
  BY DEF LinkTypes, OpenSocket
<1>4. status' \in ClientStatus /\ reconnectTimer' \in BOOLEAN
  BY Zenon DEF OpenSocket, ClientStatus
<1> QED BY <1>2, <1>3, <1>4

\* The steps of a connection but its answers.
LEMMA ConnectionTypeSteps ==
  ASSUME IInv, LinkTypes, HubTypes, NEW s \in Sockets, Connection(s), ~ReadAnswer(s)
  PROVE  LinkTypes' /\ HubTypes'
<1>1. CASE Accept(s) \/ Attach(s) \/ AttachTooLate(s) \/ ReadFails(s)
  BY <1>1 DEF Accept, Attach, AttachTooLate, ReadFails, LinkTypes, HubTypes, netVars,
              reqVars
<1>2. CASE Register(s)
  BY <1>2 DEF Register, LinkTypes, HubTypes, netVars, reqVars, IInv, ConnectionInv,
              ConnectionTypes
<1>3. CASE ReadAuth(s)
  <2>1. up' \in [Sockets -> Seq(UpMessages)]
    BY <1>3, QueueTypes DEF ReadAuth, Readable, LinkTypes
  <2> QED BY <1>3, <2>1 DEF ReadAuth, LinkTypes, HubTypes, reqVars
<1>4. CASE AuthTimerFires(s)
  <2>1. Close(s, "auth_failed") /\ faults' \in 0 .. MaxFaults
    BY <1>4, FaultTypes DEF AuthTimerFires, LinkTypes
  <2> QED BY <1>4, <2>1, CloseTypes DEF AuthTimerFires, LinkTypes, HubTypes, reqVars
<1>5. CASE Refuse(s)
  <2>1. Close(s, "auth_failed") /\ faults' \in 0 .. MaxFaults
    BY <1>5, FaultTypes DEF Refuse, LinkTypes
  <2> QED BY <1>5, <2>1, CloseTypes DEF Refuse, LinkTypes, HubTypes, reqVars
<1>6. CASE HeartbeatTimesOut(s)
  BY <1>6, CloseTypes DEF HeartbeatTimesOut, LinkTypes, HubTypes, reqVars
<1>7. CASE Greet(s)
  <2>1. old[s] = NoSocket \/ old[s] \in Sockets
    BY DEF HubTypes
  <2>2. shut' \in [Sockets -> SUBSET {"device", "gateway"}]
    BY <1>7, <2>1 DEF Greet, LinkTypes
  <2>3. up' \in [Sockets -> Seq(UpMessages)]
    BY <1>7, <2>1, QueueTypes DEF Greet, LinkTypes
  <2>4. down' \in [Sockets -> Seq(DownMessages)]
    BY <1>7, QueueTypes DEF Greet, LinkTypes, DownMessages
  <2>5. old' \in [Sockets -> Sockets \cup {NoSocket}]
    BY <1>7 DEF Greet, HubTypes
  <2> QED BY <1>7, <2>2, <2>3, <2>4, <2>5 DEF Greet, LinkTypes, HubTypes, reqVars
<1> QED BY <1>1, <1>2, <1>3, <1>4, <1>5, <1>6, <1>7 DEF Connection

\* An answer goes to a channel that is empty, for its entry was there.
LEMMA AnswerTypeStep ==
  ASSUME IInv, LinkTypes, HubTypes, NEW s \in Sockets, ReadAnswer(s)
  PROVE  LinkTypes' /\ HubTypes'
<1>1. up' \in [Sockets -> Seq(UpMessages)]
  BY QueueTypes DEF ReadAnswer, Readable, LinkTypes
<1>2. ASSUME NEW p \in Requests PROVE Cardinality(resultCh'[p]) <= 1
  <2>1. resultCh'[p] = resultCh[p] \/ \E r \in Requests : resultCh'[p] = {r}
    BY DEF ReadAnswer, ResolvePending, EntryOf, IInv, RequestInv, RequestTypes, EntryWaits
  <2>2. CASE resultCh'[p] = resultCh[p]
    BY <2>2 DEF HubTypes
  <2>3. ASSUME NEW r \in Requests, resultCh'[p] = {r} PROVE Cardinality(resultCh'[p]) <= 1
    <3>1. Cardinality({r}) = 1
      BY FS_Singleton
    <3> QED BY <2>3, <3>1
  <2> QED BY <2>1, <2>2, <2>3
<1> QED BY <1>1, <1>2 DEF ReadAnswer, LinkTypes, HubTypes, connVars

\* A link that fails loses what is on it.
LEMMA LinkTypeStep ==
  ASSUME LinkTypes, HubTypes, NEW s \in Sockets, LinkFails(s)
  PROVE  LinkTypes' /\ HubTypes'
<1>1. faults' \in 0 .. MaxFaults /\ link' \in [Sockets -> {"none", "up", "reset", "dead"}]
  BY FaultTypes DEF LinkFails, LinkTypes
<1>2. up' \in [Sockets -> Seq(UpMessages)] /\ down' \in [Sockets -> Seq(DownMessages)]
  BY QueueTypes DEF LinkFails, LinkTypes
<1> QED BY <1>1, <1>2 DEF LinkFails, LinkTypes, HubTypes, connVars, reqVars

\* The steps of a request, of which one writes to a socket.
LEMMA RequestTypeSteps ==
  ASSUME IInv, LinkTypes, HubTypes, NEW r \in Requests, Request(r)
  PROVE  LinkTypes' /\ HubTypes'
<1>1. CASE WriteRequest(r)
  <2>1. target[r] \in Sockets \cup {NoSocket}
    BY DEF HubTypes
  <2>2. down' \in [Sockets -> Seq(DownMessages)]
    <3>1. CASE target[r] \in Sockets
      BY <1>1, <3>1, QueueTypes DEF WriteRequest, LinkTypes, DownMessages
    <3>2. CASE target[r] \notin Sockets
      <4>1. Sent(down, target[r], r) = down
        BY <3>2 DEF Sent, LinkTypes
      <4> QED BY <1>1, <4>1 DEF WriteRequest, LinkTypes
    <3> QED BY <3>1, <3>2
  <2> QED BY <1>1, <2>2 DEF WriteRequest, LinkTypes, HubTypes, connVars
<1>2. CASE Dispatch(r)
  BY <1>2 DEF Dispatch, LinkTypes, HubTypes, connVars, netVars, IInv, ConnectionInv,
              ConnectionTypes
<1>3. CASE NoDevice(r) \/ Insert(r) \/ WriteFails(r) \/ TimerFires(r) \/ TimerRuns(r)
           \/ Return(r)
  BY <1>3 DEF NoDevice, Insert, WriteFails, TimerFires, TimerRuns, Return, LinkTypes,
              HubTypes, connVars, netVars
<1> QED BY <1>1, <1>2, <1>3 DEF Request

\* The device's steps that open no socket and close none.
LEMMA TalkTypeSteps ==
  ASSUME LinkTypes, HubTypes, ClientTypes,
         HandleOpen \/ HandleAuthSuccess \/ HandleRequest \/ \E r \in Requests : Answer(r)
  PROVE  LinkTypes' /\ HubTypes' /\ ClientTypes'
<1>1. CASE HandleOpen
  <2>1. up' \in [Sockets -> Seq(UpMessages)]
    BY <1>1, QueueTypes DEF HandleOpen, LinkTypes, ClientTypes, UpMessages
  <2> QED BY <1>1, <2>1 DEF HandleOpen, LinkTypes, HubTypes, ClientTypes, ClientStatus,
                            connVars, reqVars
<1>2. CASE HandleAuthSuccess
  <2>1. down' \in [Sockets -> Seq(DownMessages)]
    BY <1>2, QueueTypes DEF HandleAuthSuccess, Hears, Open, Read, LinkTypes, ClientTypes
  <2> QED BY <1>2, <2>1 DEF HandleAuthSuccess, LinkTypes, HubTypes, ClientTypes,
                            ClientStatus, connVars, reqVars
<1>3. CASE HandleRequest
  <2>1. down' \in [Sockets -> Seq(DownMessages)]
    BY <1>3, QueueTypes DEF HandleRequest, Hears, Open, Read, LinkTypes, ClientTypes
  <2> QED BY <1>3, <2>1 DEF HandleRequest, LinkTypes, HubTypes, ClientTypes,
                            connVars, reqVars
<1>4. ASSUME NEW r \in Requests, Answer(r) PROVE LinkTypes' /\ HubTypes' /\ ClientTypes'
  <2>1. up' \in [Sockets -> Seq(UpMessages)]
    BY <1>4, QueueTypes DEF Answer, Open, LinkTypes, ClientTypes, UpMessages
  <2> QED BY <1>4, <2>1 DEF Answer, LinkTypes, HubTypes, ClientTypes, connVars, reqVars
<1> QED BY <1>1, <1>2, <1>3, <1>4

\* The device's steps that do.
LEMMA SocketTypeSteps ==
  ASSUME LinkTypes, HubTypes, ClientTypes,
         \/ Connect \/ Retry \/ Refresh
         \/ HandleAuthFailed \/ Quit
         \/ HandleClose \/ HeartbeatMissed \/ ConnectTimesOut
  PROVE  LinkTypes' /\ HubTypes' /\ ClientTypes'
<1>1. CASE Connect \/ Retry \/ Refresh
  <2>1. OpenSocket
    BY <1>1 DEF Connect, Retry, Refresh
  <2> QED BY <1>1, <2>1, OpenSocketTypes DEF Connect, Retry, Refresh, LinkTypes, HubTypes,
                                             ClientTypes, connVars, reqVars
<1>2. CASE HandleAuthFailed \/ Quit
  <2>1. CloseSocket /\ faults' \in 0 .. MaxFaults
    BY <1>2, FaultTypes DEF HandleAuthFailed, Quit, Disconnects, LinkTypes
  <2> QED BY <1>2, <2>1, CloseSocketTypes
             DEF HandleAuthFailed, Quit, Disconnects, LinkTypes, HubTypes, ClientTypes,
                 ClientStatus, connVars, reqVars
<1>3. CASE HandleClose \/ HeartbeatMissed \/ ConnectTimesOut
  <2>1. CloseSocket /\ Lose
    BY <1>3 DEF HandleClose, HeartbeatMissed, ConnectTimesOut
  <2> QED BY <1>3, <2>1, CloseSocketTypes
             DEF HandleClose, HeartbeatMissed, ConnectTimesOut, Lose, LinkTypes, HubTypes,
                 ClientTypes, ClientStatus, connVars, reqVars
<1> QED BY <1>1, <1>2, <1>3

\* Every step keeps the types.
LEMMA TypesNext ==
  ASSUME IInv, LinkTypes, HubTypes, ClientTypes, [Next]_vars
  PROVE  LinkTypes' /\ HubTypes' /\ ClientTypes'
<1>1. CASE UNCHANGED vars
  BY <1>1 DEF vars, hubVars, netVars, connVars, reqVars, clientVars, LinkTypes, HubTypes,
              ClientTypes
<1>2. CASE HubNext /\ UNCHANGED clientVars
  <2>1. ClientTypes'
    BY <1>2 DEF clientVars, ClientTypes
  <2>2. LinkTypes' /\ HubTypes'
    BY <1>2, ConnectionTypeSteps, AnswerTypeStep, LinkTypeStep, RequestTypeSteps DEF HubNext
  <2> QED BY <2>1, <2>2
<1>3. CASE Client \/ Refresh \/ Quit \/ \E r \in Requests : Answer(r)
  BY <1>3, TalkTypeSteps, SocketTypeSteps DEF Client
<1> QED BY <1>1, <1>2, <1>3 DEF Next

\* Every reachable state of hub and device is well typed; above all, a second
\* answer never finds a result channel that is already full, on which hub.go's
\* resolvePending would block for ever.
THEOREM TypeCorrect == Spec => []TypeOK
<1> DEFINE Types == LinkTypes /\ HubTypes /\ ClientTypes
<1>1. Init => Types
  BY TypesInit
<1>2. IInv /\ Types /\ [Next]_vars => Types'
  BY TypesNext
<1>3. IInv /\ Types => TypeOK
  BY TypesAreAll DEF IInv, RequestInv, ConnectionInv
<1> HIDE DEF Types
<1> QED BY <1>1, <1>2, <1>3, InvariantTheorem, PTL DEF Spec
-----------------------------------------------------------------------------
\* Who takes itself for connected is listed.

\* An auth_success is on its way.
Tells(queue) == \E i \in 1 .. Len(queue) : queue[i] = "auth_success"

\* The device has been told that it is connected, or will be, by a gateway that
\* has registered it.
ToldTruly ==
  /\ status = "connected" => ws # NoSocket /\ stage[ws] \in {"serving", "gone"}
  /\ \A s \in Sockets : Tells(down[s]) => stage[s] \in {"serving", "gone"}

\* A read loop that has returned, or was timed out, leaves a trace on a socket
\* that was opened.
GoneSeen ==
  \A s \in Sockets :
    /\ stage[s] = "gone" => link[s] # "up" \/ shut[s] # {}
    /\ s \in authTimedOut => "gateway" \in shut[s]
    /\ s > opened => stage[s] = "none" /\ link[s] = "none"

\* Whoever has registered and is not closed is listed, or is "old" to another.
ListedOrOld ==
  \A s \in Sockets :
    /\ old[s] # NoSocket => stage[s] = "greeting"
    /\ stage[s] \in {"greeting", "serving"} /\ "gateway" \notin shut[s] =>
         connections = s \/ \E t \in Sockets : old[t] = s

\* The steps of the requests and the device leave the registration alone, but for
\* the ends that the device closes.
LEMMA ListedKept ==
  ASSUME ListedOrOld, UNCHANGED connVars,
         \A s \in Sockets : "gateway" \in shut[s] => "gateway" \in shut'[s]
  PROVE  ListedOrOld'
BY DEF ListedOrOld, connVars

\* What the argument about the registration needs of the invariants.
LEMMA ListedFacts ==
  ASSUME IInv, TypeOK
  PROVE  /\ stage \in [Sockets -> Stages] /\ old \in [Sockets -> Sockets \cup {NoSocket}]
         /\ shut \in [Sockets -> SUBSET {"device", "gateway"}]
         /\ connections \in Sockets \cup {NoSocket}
         /\ connections # NoSocket => stage[connections] \in {"greeting", "serving"}
         /\ \A s \in Sockets : s # NoSocket
BY SocketAssumption DEF IInv, ConnectionInv, TypeOK, HubTypeOK, Sockets, NoSocket

\* A connection's steps keep whoever is listed, or old.
LEMMA ListedStep ==
  ASSUME IInv, TypeOK, ListedOrOld, NEW s \in Sockets, Connection(s)
  PROVE  ListedOrOld'
<1> USE DEF Stages
<1>0. /\ stage \in [Sockets -> Stages] /\ old \in [Sockets -> Sockets \cup {NoSocket}]
      /\ shut \in [Sockets -> SUBSET {"device", "gateway"}]
      /\ connections \in Sockets \cup {NoSocket}
      /\ connections # NoSocket => stage[connections] \in {"greeting", "serving"}
      /\ \A t \in Sockets : t # NoSocket
  BY ListedFacts
<1>1. CASE Accept(s) \/ ReadAuth(s) \/ Attach(s)
  BY <1>0, <1>1 DEF Accept, ReadAuth, Attach, netVars, ListedOrOld
<1>2. CASE AuthTimerFires(s) \/ AttachTooLate(s) \/ Refuse(s)
  BY <1>0, <1>2 DEF AuthTimerFires, AttachTooLate, Refuse, Remove, Close, netVars, ListedOrOld
<1>3. CASE Register(s)
  <2> SUFFICES ASSUME NEW t \in Sockets
               PROVE /\ old'[t] # NoSocket => stage'[t] = "greeting"
                     /\ stage'[t] \in {"greeting", "serving"} /\ "gateway" \notin shut'[t] =>
                          connections' = t \/ \E u \in Sockets : old'[u] = t
    BY DEF ListedOrOld
  <2>1. /\ stage[s] = "attached" /\ connections' = s /\ shut' = shut
        /\ stage' = [stage EXCEPT ![s] = "greeting"]
        /\ old' = [old EXCEPT ![s] = connections]
    BY <1>0, <1>3 DEF Register, netVars
  <2>2. old[s] = NoSocket
    BY <1>0, <2>1 DEF ListedOrOld
  <2>3. old'[t] # NoSocket => stage'[t] = "greeting"
    BY <1>0, <2>1 DEF ListedOrOld
  <2>4. ASSUME t # s, stage[t] \in {"greeting", "serving"}, "gateway" \notin shut[t]
        PROVE  \E u \in Sockets : old'[u] = t
    <3>1. CASE connections = t
      BY <1>0, <2>1, <3>1
    <3>2. CASE \E u \in Sockets : old[u] = t
      BY <1>0, <2>1, <2>2, <3>2
    <3> QED BY <2>4, <3>1, <3>2 DEF ListedOrOld
  <2> QED BY <1>0, <2>1, <2>3, <2>4
<1>4. CASE Greet(s)
  <2> SUFFICES ASSUME NEW t \in Sockets
               PROVE /\ old'[t] # NoSocket => stage'[t] = "greeting"
                     /\ stage'[t] \in {"greeting", "serving"} /\ "gateway" \notin shut'[t] =>
                          connections' = t \/ \E u \in Sockets : old'[u] = t
    BY DEF ListedOrOld
  <2>1. /\ stage[s] = "greeting" /\ connections' = connections
        /\ shut' = IF old[s] = NoSocket THEN shut
                   ELSE [shut EXCEPT ![old[s]] = @ \cup {"gateway"}]
        /\ stage' = [stage EXCEPT ![s] = "serving"]
        /\ old' = [old EXCEPT ![s] = NoSocket]
    BY <1>0, <1>4 DEF Greet
  <2>2. old'[t] # NoSocket => stage'[t] = "greeting"
    BY <1>0, <2>1 DEF ListedOrOld
  <2>3. "gateway" \notin shut'[t] => "gateway" \notin shut[t] /\ old[s] # t
    BY <1>0, <2>1
  <2>4. ASSUME NEW u \in Sockets, old[u] = t, old[s] # t PROVE old'[u] = t
    BY <1>0, <2>1, <2>4
  <2> QED BY <1>0, <2>1, <2>2, <2>3, <2>4 DEF ListedOrOld
<1>5. CASE HeartbeatTimesOut(s)
  BY <1>0, <1>5 DEF HeartbeatTimesOut, Remove, Close, ListedOrOld
<1>6. CASE ReadFails(s)
  BY <1>0, <1>6 DEF ReadFails, Remove, netVars, ListedOrOld
<1>7. CASE ReadAnswer(s)
  BY <1>7, ListedKept DEF ReadAnswer, connVars
<1> QED BY <1>1, <1>2, <1>3, <1>4, <1>5, <1>6, <1>7 DEF Connection

\* What queues tell.
LEMMA QueueTells ==
  ASSUME NEW S, NEW q \in Seq(S)
  PROVE  /\ ~Tells(<< >>)
         /\ \A msg \in S : Tells(Append(q, msg)) => Tells(q) \/ msg = "auth_success"
         /\ q # << >> /\ Tells(Tail(q)) => Tells(q)
         /\ q # << >> /\ Head(q) = "auth_success" => Tells(q)
<1>1. ~Tells(<< >>)
  BY DEF Tells
<1>2. ASSUME NEW msg \in S, Tells(Append(q, msg)) PROVE Tells(q) \/ msg = "auth_success"
  BY <1>2 DEF Tells
<1>3. ASSUME q # << >>, Tells(Tail(q)) PROVE Tells(q)
  <2>1. PICK i \in 1 .. Len(Tail(q)) : Tail(q)[i] = "auth_success"
    BY <1>3 DEF Tells
  <2>2. i + 1 \in 1 .. Len(q) /\ q[i + 1] = "auth_success"
    BY <1>3, <2>1
  <2> QED BY <2>2 DEF Tells
<1>4. ASSUME q # << >>, Head(q) = "auth_success" PROVE Tells(q)
  <2>1. 1 \in 1 .. Len(q) /\ q[1] = "auth_success"
    BY <1>4
  <2> QED BY <2>1 DEF Tells
<1> QED BY <1>1, <1>2, <1>3, <1>4

\* What is sent over one socket tells nothing on another.
LEMMA SentTells ==
  ASSUME TypeOK, NEW s \in Sockets, NEW msg \in {"auth_success", "auth_failed"} \cup Requests,
         NEW t \in Sockets, Tells(Sent(down, s, msg)[t])
  PROVE  Tells(down[t]) \/ (t = s /\ msg = "auth_success")
<1> DEFINE Msgs == {"auth_success", "auth_failed"} \cup Requests
<1>1. down \in [Sockets -> Seq(Msgs)]
  BY DEF TypeOK, HubTypeOK
<1> HIDE DEF Msgs
<1>2. CASE Sent(down, s, msg)[t] = down[t]
  BY <1>2
<1>3. CASE t = s /\ Sent(down, s, msg)[t] = Append(down[t], msg)
  BY <1>1, <1>3, QueueTells DEF Msgs
<1>4. \/ Sent(down, s, msg)[t] = down[t]
      \/ t = s /\ Sent(down, s, msg)[t] = Append(down[t], msg)
  BY <1>1 DEF Sent
<1> QED BY <1>2, <1>3, <1>4

\* A connection leaves its traces, whatever it does.
LEMMA GoneStep ==
  ASSUME TypeOK, GoneSeen, NEW s \in Sockets, Connection(s), UNCHANGED opened
  PROVE  GoneSeen'
<1>0. /\ stage \in [Sockets -> Stages] /\ link \in [Sockets -> {"none", "up", "reset", "dead"}]
      /\ shut \in [Sockets -> SUBSET {"device", "gateway"}]
      /\ authTimedOut \subseteq Sockets
      /\ old \in [Sockets -> Sockets \cup {NoSocket}]
  BY DEF TypeOK, HubTypeOK
<1> USE <1>0 DEF GoneSeen
<1>1. CASE Accept(s) \/ ReadAuth(s) \/ Attach(s) \/ AttachTooLate(s)
  BY <1>1 DEF Accept, ReadAuth, Attach, AttachTooLate, netVars
<1>2. CASE AuthTimerFires(s) \/ Refuse(s)
  BY <1>2 DEF AuthTimerFires, Refuse, Close
<1>3. CASE Register(s)
  BY <1>3 DEF Register, netVars
<1>4. CASE Greet(s)
  <2>1. \A t \in Sockets : shut[t] \subseteq shut'[t]
    BY <1>4 DEF Greet
  <2>2. stage[s] = "greeting" /\ stage' = [stage EXCEPT ![s] = "serving"]
        /\ UNCHANGED <<link, authTimedOut>>
    BY <1>4 DEF Greet
  <2> QED BY <2>1, <2>2
<1>5. CASE HeartbeatTimesOut(s)
  BY <1>5 DEF HeartbeatTimesOut, Close
<1>6. CASE ReadFails(s)
  <2>1. link[s] # "up" \/ shut[s] # {}
    BY <1>6 DEF ReadFails, Writable
  <2>2. stage[s] # "none" /\ stage' = [stage EXCEPT ![s] = "gone"]
        /\ UNCHANGED <<link, shut, authTimedOut>>
    BY <1>6 DEF ReadFails, netVars
  <2> QED BY <2>1, <2>2
<1>7. CASE ReadAnswer(s)
  BY <1>7 DEF ReadAnswer, connVars
<1> QED BY <1>1, <1>2, <1>3, <1>4, <1>5, <1>6, <1>7 DEF Connection

\* A socket that the device opens is new to the gateway, too.
LEMMA GoneOpen ==
  ASSUME TypeOK, GoneSeen, OpenSocket, UNCHANGED <<connVars, shut>>
  PROVE  GoneSeen'
<1>1. /\ link \in [Sockets -> {"none", "up", "reset", "dead"}]
      /\ opened \in Nat
      /\ Sockets \subseteq Nat
  BY SocketAssumption DEF TypeOK, HubTypeOK, Sockets
<1> QED BY <1>1 DEF OpenSocket, GoneSeen, connVars

\* A device that closes its end leaves a trace more.
LEMMA GoneClose ==
  ASSUME TypeOK, GoneSeen, CloseSocket, UNCHANGED <<connVars, link, opened>>
  PROVE  GoneSeen'
<1>1. ws \in Sockets \cup {NoSocket} /\ shut \in [Sockets -> SUBSET {"device", "gateway"}]
  BY DEF TypeOK, HubTypeOK
<1>2. \A s \in Sockets : shut[s] \subseteq shut'[s]
  BY <1>1 DEF CloseSocket
<1> QED BY <1>1, <1>2 DEF GoneSeen, connVars

\* A connection tells the device of nothing but its registration.
LEMMA ToldStep ==
  ASSUME TypeOK, ToldTruly, NEW s \in Sockets, Connection(s), UNCHANGED <<status, ws>>
  PROVE  ToldTruly'
<1>0. /\ stage \in [Sockets -> Stages] /\ ws \in Sockets \cup {NoSocket}
      /\ \A t \in Sockets : t # NoSocket
  BY SocketAssumption DEF TypeOK, HubTypeOK, Sockets, NoSocket
<1>1. ASSUME NEW t \in Sockets, stage[t] \in {"serving", "gone"}
      PROVE  stage'[t] \in {"serving", "gone"}
  <2>1. CASE Accept(s) \/ ReadAuth(s) \/ Attach(s) \/ AttachTooLate(s) \/ Register(s)
    BY <1>0, <1>1, <2>1 DEF Accept, ReadAuth, Attach, AttachTooLate, Register
  <2>2. CASE AuthTimerFires(s) \/ Refuse(s) \/ Greet(s) \/ HeartbeatTimesOut(s)
    BY <1>0, <1>1, <2>2 DEF AuthTimerFires, Refuse, Greet, HeartbeatTimesOut
  <2>3. CASE ReadFails(s) \/ ReadAnswer(s)
    BY <1>0, <1>1, <2>3 DEF ReadFails, ReadAnswer, connVars
  <2> QED BY <2>1, <2>2, <2>3 DEF Connection
<1>2. ASSUME NEW t \in Sockets, Tells(down'[t]) PROVE stage'[t] \in {"serving", "gone"}
  <2>1. CASE Tells(down[t])
    BY <1>1, <2>1 DEF ToldTruly
  <2>2. CASE Greet(s)
    <3>1. down' = Sent(down, s, "auth_success") /\ stage' = [stage EXCEPT ![s] = "serving"]
      BY <2>2 DEF Greet
    <3>2. Tells(down[t]) \/ t = s
      BY <1>2, <3>1, SentTells
    <3> QED BY <1>0, <2>1, <3>1, <3>2
  <2>3. CASE AuthTimerFires(s) \/ Refuse(s)
    <3>1. down' = Sent(down, s, "auth_failed")
      BY <2>3 DEF AuthTimerFires, Refuse, Close
    <3> QED BY <1>2, <2>1, <3>1, SentTells
  <2>4. CASE Accept(s) \/ ReadAuth(s) \/ Attach(s) \/ AttachTooLate(s) \/ Register(s)
             \/ HeartbeatTimesOut(s) \/ ReadFails(s) \/ ReadAnswer(s)
    <3>1. down' = down
      BY <2>4 DEF Accept, ReadAuth, Attach, AttachTooLate, Register, HeartbeatTimesOut,
                  ReadFails, ReadAnswer, Close, netVars
    <3> QED BY <1>2, <2>1, <3>1
  <2> QED BY <2>2, <2>3, <2>4 DEF Connection
<1>3. status' = "connected" => ws' # NoSocket /\ stage'[ws'] \in {"serving", "gone"}
  BY <1>0, <1>1 DEF ToldTruly
<1> QED BY <1>2, <1>3 DEF ToldTruly

\* A request that is written, or a link that fails, tells nothing.
LEMMA ToldElsewhere ==
  ASSUME TypeOK, ToldTruly, UNCHANGED <<status, ws, stage>>,
         \/ \E r \in Requests : Request(r)
         \/ \E s \in Sockets : LinkFails(s)
  PROVE  ToldTruly'
<1> SUFFICES ASSUME NEW t \in Sockets, Tells(down'[t]) PROVE Tells(down[t])
  BY DEF ToldTruly
<1>1. ASSUME NEW r \in Requests, Request(r) PROVE Tells(down[t])
  <2>1. CASE WriteRequest(r)
    <3>1. down' = Sent(down, target[r], r) /\ target[r] \in Sockets \cup {NoSocket}
      BY <2>1 DEF WriteRequest, TypeOK, HubTypeOK
    <3>2. CASE target[r] \in Sockets
      BY <3>1, <3>2, SentTells, KeyAssumption
    <3>3. CASE target[r] \notin Sockets
      <4>1. Sent(down, target[r], r) = down
        BY <3>3 DEF Sent, TypeOK, HubTypeOK
      <4> QED BY <3>1, <4>1
    <3> QED BY <3>2, <3>3
  <2>2. CASE ~WriteRequest(r)
    BY <1>1, <2>2 DEF Request, NoDevice, Dispatch, Insert, WriteFails, TimerFires,
                      TimerRuns, Return, netVars
  <2> QED BY <2>1, <2>2
<1>2. ASSUME NEW s \in Sockets, LinkFails(s) PROVE Tells(down[t])
  <2>1. down'[t] = down[t] \/ down'[t] = << >>
    BY <1>2 DEF LinkFails, TypeOK, HubTypeOK
  <2> QED BY <2>1 DEF Tells
<1> QED BY <1>1, <1>2

\* A step of the device keeps what it was told: it learns that it is connected
\* only from an auth_success.
LEMMA ToldClient ==
  ASSUME TypeOK, ToldTruly,
         Client \/ Refresh \/ Quit \/ \E r \in Requests : Answer(r)
  PROVE  ToldTruly'
<1> DEFINE Msgs == {"auth_success", "auth_failed"} \cup Requests
<1>0. /\ ws \in Sockets \cup {NoSocket} /\ down \in [Sockets -> Seq(Msgs)]
      /\ \A t \in Sockets : t # NoSocket
  BY SocketAssumption DEF TypeOK, HubTypeOK, Sockets, NoSocket
<1> HIDE DEF Msgs
<1>1. stage' = stage
  BY ClientSteps DEF connVars
<1>2. ASSUME NEW t \in Sockets PROVE Tells(down'[t]) => Tells(down[t])
  <2>1. CASE CloseSocket
    <3>1. down'[t] = down[t] \/ down'[t] = << >>
      BY <1>0, <2>1 DEF CloseSocket
    <3> QED BY <3>1 DEF Tells
  <2>2. CASE HandleAuthSuccess \/ HandleRequest
    <3>1. ws \in Sockets /\ down[ws] # << >> /\ down' = [down EXCEPT ![ws] = Tail(@)]
      BY <1>0, <2>2 DEF HandleAuthSuccess, HandleRequest, Hears, Open, Read
    <3>2. down'[t] = down[t] \/ (down[t] # << >> /\ down'[t] = Tail(down[t]))
      BY <1>0, <3>1
    <3> QED BY <1>0, <3>2, QueueTells
  <2>3. CASE UNCHANGED down
    BY <2>3
  <2>4. \/ CloseSocket \/ HandleAuthSuccess \/ HandleRequest \/ UNCHANGED down
    BY DEF Client, Connect, Retry, HandleOpen, HandleAuthFailed, HandleClose,
           HeartbeatMissed, ConnectTimesOut, Refresh, Quit, Answer, Disconnects
  <2> QED BY <2>1, <2>2, <2>3, <2>4
<1>3. ASSUME status' = "connected" PROVE ws' # NoSocket /\ stage[ws'] \in {"serving", "gone"}
  <2>1. CASE HandleAuthSuccess
    <3>1. ws \in Sockets /\ down[ws] # << >> /\ Head(down[ws]) = "auth_success" /\ ws' = ws
      BY <1>0, <2>1 DEF HandleAuthSuccess, Hears, Open
    <3>2. Tells(down[ws])
      BY <1>0, <3>1, QueueTells
    <3> QED BY <1>0, <3>1, <3>2 DEF ToldTruly
  <2>2. CASE UNCHANGED <<status, ws>>
    BY <1>3, <2>2 DEF ToldTruly
  <2>3. CASE OpenSocket \/ Lose \/ Disconnects
    BY <1>3, <2>3 DEF OpenSocket, Lose, Disconnects
  <2>4. CASE HandleOpen
    BY <1>3, <2>4 DEF HandleOpen
  <2> QED
    BY <2>1, <2>2, <2>3, <2>4
       DEF Client, Connect, Retry, HandleAuthFailed, HandleRequest, HandleClose,
           HeartbeatMissed, ConnectTimesOut, Refresh, Quit, Answer
<1> QED BY <1>1, <1>2, <1>3 DEF ToldTruly

\* Before anything is opened there is nobody to list.
LEMMA ListedInit == Init => ToldTruly /\ GoneSeen /\ ListedOrOld
BY DEF Init, HubInit, ToldTruly, GoneSeen, ListedOrOld, Tells

\* Every step keeps all three.
LEMMA ListedNext ==
  ASSUME IInv, TypeOK, ToldTruly, GoneSeen, ListedOrOld, [Next]_vars
  PROVE  ToldTruly' /\ GoneSeen' /\ ListedOrOld'
<1>1. CASE UNCHANGED vars
  <2>1. ToldTruly'
    BY <1>1 DEF vars, hubVars, netVars, connVars, clientVars, ToldTruly
  <2>2. GoneSeen'
    BY <1>1 DEF vars, hubVars, netVars, connVars, clientVars, GoneSeen
  <2>3. ListedOrOld'
    BY <1>1, ListedKept DEF vars, hubVars, netVars
  <2> QED BY <2>1, <2>2, <2>3
<1>2. ASSUME NEW s \in Sockets, Connection(s), UNCHANGED clientVars
      PROVE  ToldTruly' /\ GoneSeen' /\ ListedOrOld'
  BY <1>2, ToldStep, GoneStep, ListedStep DEF clientVars
<1>3. ASSUME NEW s \in Sockets, LinkFails(s), UNCHANGED clientVars
      PROVE  ToldTruly' /\ GoneSeen' /\ ListedOrOld'
  <2>1. ToldTruly'
    BY <1>3, ToldElsewhere DEF LinkFails, clientVars, connVars
  <2>2. GoneSeen'
    BY <1>3 DEF LinkFails, clientVars, connVars, GoneSeen, TypeOK, HubTypeOK
  <2>3. ListedOrOld'
    BY <1>3, ListedKept DEF LinkFails
  <2> QED BY <2>1, <2>2, <2>3
<1>4. ASSUME NEW r \in Requests, Request(r), UNCHANGED clientVars
      PROVE  ToldTruly' /\ GoneSeen' /\ ListedOrOld'
  <2>1. UNCHANGED <<connVars, link, shut>>
    BY <1>4 DEF Request, NoDevice, Dispatch, Insert, WriteRequest, WriteFails,
                TimerFires, TimerRuns, Return, netVars
  <2>2. ToldTruly'
    BY <1>4, <2>1, ToldElsewhere DEF clientVars, connVars
  <2>3. GoneSeen'
    BY <1>4, <2>1 DEF clientVars, connVars, GoneSeen
  <2>4. ListedOrOld'
    BY <2>1, ListedKept
  <2> QED BY <2>2, <2>3, <2>4
<1>5. CASE Client \/ Refresh \/ Quit \/ \E r \in Requests : Answer(r)
  <2>1. UNCHANGED connVars
    BY <1>5, ClientSteps
  <2>2. ToldTruly'
    BY <1>5, ToldClient
  <2>3. \/ OpenSocket /\ UNCHANGED shut
        \/ CloseSocket /\ UNCHANGED <<link, opened>>
        \/ UNCHANGED <<shut, link, opened>>
    BY <1>5 DEF Client, Connect, Retry, HandleOpen, HandleAuthSuccess, HandleAuthFailed,
       HandleRequest, HandleClose, HeartbeatMissed, ConnectTimesOut, Refresh, Quit,
       Answer, Disconnects
  <2>4. GoneSeen'
    <3>1. UNCHANGED <<shut, link, opened>> => GoneSeen'
      BY <2>1 DEF GoneSeen, connVars
    <3> QED BY <2>1, <2>3, <3>1, GoneOpen, GoneClose
  <2>5. \A s \in Sockets : "gateway" \in shut[s] => "gateway" \in shut'[s]
    <3>1. ws \in Sockets \cup {NoSocket} /\ shut \in [Sockets -> SUBSET {"device", "gateway"}]
      BY DEF TypeOK, HubTypeOK
    <3> QED BY <2>3, <3>1 DEF CloseSocket
  <2> QED BY <2>1, <2>2, <2>4, <2>5, ListedKept
<1> QED BY <1>1, <1>2, <1>3, <1>4, <1>5 DEF Next, HubNext

\* No split brain (hub.go's register and remove, connection.go's close and the
\* client's status): a device that takes itself for connected over a socket that
\* still works is the one that requests are dispatched to, for any number of
\* sockets, slow authentications and lost links; or another connection has just
\* taken its place and is about to close it, which makes it reconnect.
THEOREM ConnectedIsListedTheorem == Spec => []ConnectedIsListed
<1> DEFINE Parts == ToldTruly /\ GoneSeen /\ ListedOrOld
<1>1. Init => Parts
  BY ListedInit
<1>2. IInv /\ TypeOK /\ Parts /\ [Next]_vars => Parts'
  BY ListedNext
<1>3. TypeOK /\ Parts => ConnectedIsListed
  BY DEF TypeOK, HubTypeOK, ToldTruly, GoneSeen, ListedOrOld, ConnectedIsListed
<1> HIDE DEF Parts
<1> QED BY <1>1, <1>2, <1>3, InvariantTheorem, TypeCorrect, PTL DEF Spec

=============================================================================
