------------------------------ MODULE DeviceHub ------------------------------
(* The device gateway's side of a user's device (apps/device-gateway, hub.go, *)
(* connection.go and server.go): a WebSocket connection is accepted,          *)
(* authenticated against a timer, registered in the hub under its             *)
(* connectionId in place of the one before it, watched by a heartbeat timer   *)
(* and removed; an HTTP request is dispatched to the registered connection    *)
(* and waits for its answer, its time-out or a write error.  Every handler,   *)
(* read loop and timer function is a goroutine: its steps between two lock    *)
(* sections are separate actions.                                             *)
(*                                                                            *)
(* One user and one connectionId; a connection is known by the number of its  *)
(* socket.  The links carry messages in order and may be reset (both ends see *)
(* it) or die silently (only timers do).  What the device does with its end   *)
(* is in DeviceGateway, which composes both.                                  *)
EXTENDS Naturals, Sequences, FiniteSets

CONSTANTS
  Requests,        \* the HTTP requests that are dispatched
  Key,             \* each request's key: random, or the operation of an agent run
  MaxSockets,      \* bound: sockets the device opens
  MaxFaults,       \* bound: faults in a behaviour
  Faults           \* the kinds of fault that may happen

FaultKinds == {"drop", "die", "refuse", "slow", "quit"}

ASSUME SocketAssumption == MaxSockets \in Nat /\ MaxFaults \in Nat
ASSUME FaultAssumption == Faults \subseteq FaultKinds
ASSUME KeyAssumption ==
  /\ DOMAIN Key = Requests
  /\ Requests \cap {"auth", "auth_success", "auth_failed"} = {}

Sockets == 1 .. MaxSockets
NoSocket == 0

\* The read loop of a connection: before and during the authentication,
\* inside attachAuthenticated and the greeting, in service, returned.
Stages == {"none", "new", "resolving", "attached", "greeting", "serving",
           "gone"}

\* A dispatch: before the entry is inserted, before the write, in the select.
Points == {"idle", "insert", "write", "select", "returned"}
Outcomes == {"none", "ok", "timeout", "offline"}
Timers == {"off", "armed", "fired", "ran", "stopped"}

VARIABLES
  link,            \* each socket's link: none, up, reset or dead
  shut,            \* the ends that have closed each socket
  up, down,        \* the messages on their way to and from the gateway
  stage,           \* each connection's read loop
  authTimedOut,    \* the connections whose authTimer won
  connections,     \* hub.connections: the registered socket, or NoSocket
  old,             \* register's "old": the connection it has to close
  at,              \* each dispatch's point
  target,          \* the connection it chose, until it has written to it
  timer,           \* its time.AfterFunc
  pending,         \* hub.pending: the requests that have an entry
  resultCh,        \* the answers each dispatch's channel holds, by request
  timeoutCh,       \* the dispatches whose time-out channel holds a value
  outcome,         \* what each dispatch returned
  faults           \* faults so far

netVars == <<link, shut, up, down>>
connVars == <<stage, authTimedOut, connections, old>>
reqVars == <<at, target, timer, pending, resultCh, timeoutCh, outcome>>
hubVars == <<netVars, connVars, reqVars, faults>>

HubTypeOK ==
  /\ link \in [Sockets -> {"none", "up", "reset", "dead"}]
  /\ shut \in [Sockets -> SUBSET {"device", "gateway"}]
  /\ up \in [Sockets -> Seq({"auth"} \cup Requests)]
  /\ down \in [Sockets -> Seq({"auth_success", "auth_failed"} \cup Requests)]
  /\ stage \in [Sockets -> Stages]
  /\ authTimedOut \subseteq Sockets
  /\ connections \in Sockets \cup {NoSocket}
  /\ old \in [Sockets -> Sockets \cup {NoSocket}]
  /\ at \in [Requests -> Points]
  /\ target \in [Requests -> Sockets \cup {NoSocket}]
  /\ timer \in [Requests -> Timers]
  /\ pending \subseteq Requests
  /\ resultCh \in [Requests -> SUBSET Requests]
  /\ \A r \in Requests : Cardinality(resultCh[r]) <= 1
  /\ timeoutCh \subseteq Requests
  /\ outcome \in [Requests -> Outcomes]
  /\ faults \in 0 .. MaxFaults

HubInit ==
  /\ link = [s \in Sockets |-> "none"]
  /\ shut = [s \in Sockets |-> {}]
  /\ up = [s \in Sockets |-> << >>]
  /\ down = [s \in Sockets |-> << >>]
  /\ stage = [s \in Sockets |-> "none"]
  /\ authTimedOut = {}
  /\ connections = NoSocket
  /\ old = [s \in Sockets |-> NoSocket]
  /\ at = [r \in Requests |-> "idle"]
  /\ target = [r \in Requests |-> NoSocket]
  /\ timer = [r \in Requests |-> "off"]
  /\ pending = {}
  /\ resultCh = [r \in Requests |-> {}]
  /\ timeoutCh = {}
  /\ outcome = [r \in Requests |-> "none"]
  /\ faults = 0

CountFault(kind) ==
  /\ kind \in Faults /\ faults < MaxFaults
  /\ faults' = faults + 1

-----------------------------------------------------------------------------
\* The link.

\* Can an end of the socket write?
Writable(s, end) == end \notin shut[s] /\ link[s] # "reset"

\* A message arrives over a live link that neither end has closed.
Sent(queue, s, msg) ==
  IF link[s] = "up" /\ shut[s] = {} THEN [queue EXCEPT ![s] = Append(@, msg)] ELSE queue

\* The gateway closes its end, after a last message: what the device still
\* sends is not read any more.
Close(s, last) ==
  /\ down' = IF last = "" THEN down ELSE Sent(down, s, last)
  /\ shut' = [shut EXCEPT ![s] = @ \cup {"gateway"}]
  /\ up' = [up EXCEPT ![s] = << >>]

\* The network resets a link (both ends are told), or loses it silently; a link
\* that fails after an end has closed it leaves what one that fails before does.
LinkFails(s) ==
  /\ link[s] = "up" /\ shut[s] = {}
  /\ \/ CountFault("drop") /\ link' = [link EXCEPT ![s] = "reset"]
     \/ CountFault("die") /\ link' = [link EXCEPT ![s] = "dead"]
  /\ up' = [up EXCEPT ![s] = << >>]
  /\ down' = [down EXCEPT ![s] = << >>]
  /\ UNCHANGED <<shut, connVars, reqVars>>

-----------------------------------------------------------------------------
\* A connection's read loop and its timers.

\* Mutant: whichever connection ends empties the connectionId's slot.
RemoveAny(s) == connections' = NoSocket

\* hub.remove: only the registered connection itself is deleted.
Remove(s) == connections' = IF connections = s THEN NoSocket ELSE connections

\* handleWebSocket: the upgrade; authTimer is armed and the read loop starts.
Accept(s) ==
  /\ stage[s] = "none" /\ link[s] = "up" /\ shut[s] = {}
  /\ stage' = [stage EXCEPT ![s] = "new"]
  /\ UNCHANGED <<netVars, authTimedOut, connections, old, reqVars, faults>>

Readable(s) == "gateway" \notin shut[s] /\ up[s] # << >>

ReadAuth(s) ==
  /\ stage[s] = "new" /\ Readable(s) /\ Head(up[s]) = "auth"
  /\ up' = [up EXCEPT ![s] = Tail(@)]
  /\ stage' = [stage EXCEPT ![s] = "resolving"]
  /\ UNCHANGED <<link, shut, down, authTimedOut, connections, old, reqVars, faults>>

\* The authTimer's function: it and attachAuthenticated exclude each other.  It
\* is due when the device is silent, and when authenticating takes too long.
AuthTimerFires(s) ==
  /\ stage[s] \in {"new", "resolving"} /\ s \notin authTimedOut
  /\ \/ link[s] # "up" /\ UNCHANGED faults
     \/ link[s] = "up" /\ CountFault("slow")
  /\ authTimedOut' = authTimedOut \cup {s}
  /\ Close(s, "auth_failed")
  /\ Remove(s)
  /\ UNCHANGED <<link, stage, old, reqVars>>

\* Mutant: a connection is attached even if its authTimer has fired.
AttachLate(s) ==
  /\ stage[s] = "resolving"
  /\ stage' = [stage EXCEPT ![s] = "attached"]
  /\ UNCHANGED <<netVars, authTimedOut, connections, old, reqVars, faults>>

\* attachAuthenticated's first half, under stateMu.
Attach(s) ==
  /\ stage[s] = "resolving" /\ s \notin authTimedOut
  /\ stage' = [stage EXCEPT ![s] = "attached"]
  /\ UNCHANGED <<netVars, authTimedOut, connections, old, reqVars, faults>>

\* ... which the timer has forestalled.
AttachTooLate(s) ==
  /\ stage[s] = "resolving" /\ s \in authTimedOut
  /\ stage' = [stage EXCEPT ![s] = "gone"]
  /\ Remove(s)
  /\ UNCHANGED <<netVars, authTimedOut, old, reqVars, faults>>

\* The token is refused, or cannot be checked.
Refuse(s) ==
  /\ stage[s] = "resolving" /\ CountFault("refuse")
  /\ Close(s, "auth_failed")
  /\ stage' = [stage EXCEPT ![s] = "gone"]
  /\ Remove(s)
  /\ UNCHANGED <<link, authTimedOut, old, reqVars>>

\* register takes the connectionId over, and closes the old holder afterwards.
Register(s) ==
  /\ stage[s] = "attached"
  /\ connections' = s
  /\ old' = [old EXCEPT ![s] = connections]
  /\ stage' = [stage EXCEPT ![s] = "greeting"]
  /\ UNCHANGED <<netVars, authTimedOut, reqVars, faults>>

\* Mutant: the connection that was replaced is not closed.
GreetAlone(s) ==
  /\ stage[s] = "greeting"
  /\ down' = Sent(down, s, "auth_success")
  /\ old' = [old EXCEPT ![s] = NoSocket]
  /\ stage' = [stage EXCEPT ![s] = "serving"]
  /\ UNCHANGED <<link, shut, up, authTimedOut, connections, reqVars, faults>>

\* ... then the device is told, and the heartbeat timer started.
Greet(s) ==
  /\ stage[s] = "greeting"
  /\ shut' = IF old[s] = NoSocket THEN shut
             ELSE [shut EXCEPT ![old[s]] = @ \cup {"gateway"}]
  /\ up' = IF old[s] = NoSocket THEN up ELSE [up EXCEPT ![old[s]] = << >>]
  /\ down' = Sent(down, s, "auth_success")
  /\ old' = [old EXCEPT ![s] = NoSocket]
  /\ stage' = [stage EXCEPT ![s] = "serving"]
  /\ UNCHANGED <<link, authTimedOut, connections, reqVars, faults>>

\* The heartbeat timer: no heartbeat comes over a dead link.
HeartbeatTimesOut(s) ==
  /\ stage[s] = "serving" /\ link[s] = "dead" /\ "gateway" \notin shut[s]
  /\ Close(s, "")
  /\ Remove(s)
  /\ UNCHANGED <<link, stage, authTimedOut, old, reqVars, faults>>

\* readMessage fails: the peer has closed, the link was reset, or this end was
\* closed by a timer or by the connection that replaced it.
ReadFails(s) ==
  /\ stage[s] \in {"new", "serving"}
  /\ \/ ~Writable(s, "gateway")
     \/ link[s] = "up" /\ "device" \in shut[s] /\ up[s] = << >>
  /\ stage' = [stage EXCEPT ![s] = "gone"]
  /\ Remove(s)
  /\ UNCHANGED <<netVars, authTimedOut, old, reqVars, faults>>

-----------------------------------------------------------------------------
\* Requests.

\* The entry a key has, if any: at most one, for setPending overwrites.
EntryOf(k) == {r \in pending : Key[r] = k}

\* Deleting an entry stops its timer, unless that has fired already.
StopTimers(rs) ==
  [r \in Requests |-> IF r \in rs /\ timer[r] = "armed" THEN "stopped" ELSE timer[r]]

\* The handler finds no authenticated connection.
NoDevice(r) ==
  /\ at[r] = "idle" /\ connections = NoSocket
  /\ at' = [at EXCEPT ![r] = "returned"]
  /\ outcome' = [outcome EXCEPT ![r] = "offline"]
  /\ UNCHANGED <<netVars, connVars, target, timer, pending, resultCh, timeoutCh,
                 faults>>

\* The handler picks its target; setPending arms the timer before it locks.
Dispatch(r) ==
  /\ at[r] = "idle" /\ connections # NoSocket
  /\ target' = [target EXCEPT ![r] = connections]
  /\ timer' = [timer EXCEPT ![r] = "armed"]
  /\ at' = [at EXCEPT ![r] = "insert"]
  /\ UNCHANGED <<netVars, connVars, pending, resultCh, timeoutCh, outcome, faults>>

Insert(r) ==
  /\ at[r] = "insert"
  /\ pending' = (pending \ EntryOf(Key[r])) \cup {r}
  /\ at' = [at EXCEPT ![r] = "write"]
  /\ UNCHANGED <<netVars, connVars, target, timer, resultCh, timeoutCh, outcome,
                 faults>>

\* A dead link takes the bytes; a reset one may.
WriteRequest(r) ==
  /\ at[r] = "write" /\ "gateway" \notin shut[target[r]]
  /\ down' = Sent(down, target[r], r)
  /\ at' = [at EXCEPT ![r] = "select"]
  /\ target' = [target EXCEPT ![r] = NoSocket]
  /\ UNCHANGED <<link, shut, up, connVars, timer, pending, resultCh, timeoutCh,
                 outcome, faults>>

\* Mutant: a failed write stops the timer and leaves the entry.
ClearNothing(r) ==
  /\ pending' = pending
  /\ timer' = StopTimers(EntryOf(Key[r]))

\* The write fails: clearPending deletes the key's entry.
ClearPending(r) ==
  /\ pending' = pending \ EntryOf(Key[r])
  /\ timer' = StopTimers(EntryOf(Key[r]))

WriteFails(r) ==
  /\ at[r] = "write" /\ ~Writable(target[r], "gateway")
  /\ ClearPending(r)
  /\ at' = [at EXCEPT ![r] = "returned"]
  /\ outcome' = [outcome EXCEPT ![r] = "offline"]
  /\ target' = [target EXCEPT ![r] = NoSocket]
  /\ UNCHANGED <<netVars, connVars, resultCh, timeoutCh, faults>>

TimerFires(r) ==
  /\ timer[r] = "armed"
  /\ timer' = [timer EXCEPT ![r] = "fired"]
  /\ UNCHANGED <<netVars, connVars, at, target, pending, resultCh, timeoutCh,
                 outcome, faults>>

\* Mutant: the timer signals only if it has found its entry.
TimerRunsIfListed(r) ==
  /\ timer[r] = "fired"
  /\ pending' = pending \ EntryOf(Key[r])
  /\ timeoutCh' = IF r \in pending THEN timeoutCh \cup {r} ELSE timeoutCh
  /\ timer' = [timer EXCEPT ![r] = "ran"]
  /\ UNCHANGED <<netVars, connVars, at, target, resultCh, outcome, faults>>

\* The timer's function deletes whatever entry has the key, then signals.
TimerRuns(r) ==
  /\ timer[r] = "fired"
  /\ pending' = pending \ EntryOf(Key[r])
  /\ timeoutCh' = timeoutCh \cup {r}
  /\ timer' = [timer EXCEPT ![r] = "ran"]
  /\ UNCHANGED <<netVars, connVars, at, target, resultCh, outcome, faults>>

\* Mutant: the entry stays in the map.
ResolveAndKeep(r) ==
  LET entry == EntryOf(Key[r]) IN
  /\ pending' = pending
  /\ timer' = StopTimers(entry)
  /\ resultCh' = [p \in Requests |->
                    IF p \in entry THEN resultCh[p] \cup {r} ELSE resultCh[p]]

\* Mutant: the timer runs on.
ResolveWithoutStop(r) ==
  LET entry == EntryOf(Key[r]) IN
  /\ pending' = pending \ entry
  /\ timer' = timer
  /\ resultCh' = [p \in Requests |->
                    IF p \in entry THEN resultCh[p] \cup {r} ELSE resultCh[p]]

\* resolvePending: the entry of the answer's key receives it.
ResolvePending(r) ==
  LET entry == EntryOf(Key[r]) IN
  /\ pending' = pending \ entry
  /\ timer' = StopTimers(entry)
  /\ resultCh' = [p \in Requests |->
                    IF p \in entry THEN resultCh[p] \cup {r} ELSE resultCh[p]]

\* An answer is read from the connection in service.
ReadAnswer(s) ==
  /\ stage[s] = "serving" /\ Readable(s) /\ Head(up[s]) \in Requests
  /\ up' = [up EXCEPT ![s] = Tail(@)]
  /\ ResolvePending(Head(up[s]))
  /\ UNCHANGED <<link, shut, down, connVars, at, target, timeoutCh, outcome, faults>>

\* Mutant: only the answer is awaited.
ReturnAnswer(r) ==
  /\ at[r] = "select"
  /\ resultCh[r] # {} /\ outcome' = [outcome EXCEPT ![r] = "ok"]
  /\ at' = [at EXCEPT ![r] = "returned"]
  /\ UNCHANGED <<netVars, connVars, target, timer, pending, resultCh, timeoutCh,
                 faults>>

\* The select: with both channels full, either.
Return(r) ==
  /\ at[r] = "select"
  /\ \/ resultCh[r] # {} /\ outcome' = [outcome EXCEPT ![r] = "ok"]
     \/ r \in timeoutCh /\ outcome' = [outcome EXCEPT ![r] = "timeout"]
  /\ at' = [at EXCEPT ![r] = "returned"]
  /\ UNCHANGED <<netVars, connVars, target, timer, pending, resultCh, timeoutCh,
                 faults>>

-----------------------------------------------------------------------------
Connection(s) ==
  \/ Accept(s) \/ ReadAuth(s) \/ AuthTimerFires(s) \/ Attach(s) \/ AttachTooLate(s)
  \/ Refuse(s) \/ Register(s) \/ Greet(s) \/ HeartbeatTimesOut(s)
  \/ ReadFails(s) \/ ReadAnswer(s)

Request(r) ==
  \/ NoDevice(r) \/ Dispatch(r) \/ Insert(r) \/ WriteRequest(r) \/ WriteFails(r)
  \/ TimerFires(r) \/ TimerRuns(r) \/ Return(r)

HubNext ==
  \/ \E s \in Sockets : Connection(s) \/ LinkFails(s)
  \/ \E r \in Requests : Request(r)
=============================================================================
