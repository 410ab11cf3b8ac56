---------------------------- MODULE DeviceGateway ----------------------------
(* The device's GatewayClient (packages/device-gateway-client, client.ts)     *)
(* composed with the hub it connects to: the application connects once, the   *)
(* client opens sockets, authenticates, answers the requests it is sent on    *)
(* whatever socket it has by then, notices a lost link by its heartbeats and  *)
(* reconnects on a timer.  An authentication that is refused stops the        *)
(* client, until the application has refreshed the token and calls            *)
(* reconnect (apps/cli, connect.ts).                                          *)
EXTENDS DeviceHub

VARIABLES
  status,          \* the client's status
  ws,              \* its WebSocket, or NoSocket
  opened,          \* sockets opened so far: the next is number opened + 1
  connectPromise,  \* does a connect() wait, with its CONNECT_TIMEOUT armed?
  reconnectTimer,  \* is a reconnection scheduled?
  intentional,     \* intentionalDisconnect
  refused,         \* auth_failed was emitted and the application has yet to act
  working          \* the requests whose tools are running on the device

clientVars == <<status, ws, opened, connectPromise, reconnectTimer, intentional,
                refused, working>>
vars == <<hubVars, clientVars>>

ClientStatus == {"disconnected", "connecting", "authenticating", "connected",
                 "reconnecting"}

TypeOK ==
  /\ HubTypeOK
  /\ status \in ClientStatus
  /\ ws \in Sockets \cup {NoSocket}
  /\ opened \in 0 .. MaxSockets
  /\ connectPromise \in BOOLEAN /\ reconnectTimer \in BOOLEAN
  /\ intentional \in BOOLEAN /\ refused \in BOOLEAN
  /\ working \subseteq Requests

Init ==
  /\ HubInit
  /\ status = "disconnected" /\ ws = NoSocket /\ opened = 0
  /\ connectPromise = FALSE /\ reconnectTimer = FALSE
  /\ intentional = FALSE /\ refused = FALSE
  /\ working = {}

-----------------------------------------------------------------------------
\* closeWebSocket: the listeners come off, so that nothing more is heard of it.
CloseSocket ==
  IF ws = NoSocket THEN UNCHANGED <<shut, down>>
  ELSE /\ shut' = [shut EXCEPT ![ws] = @ \cup {"device"}]
       /\ down' = [down EXCEPT ![ws] = << >>]

\* doConnect; the handshake fails at once when the link does.
OpenSocket ==
  /\ opened < MaxSockets
  /\ opened' = opened + 1
  /\ ws' = opened + 1
  /\ link' = [link EXCEPT ![opened + 1] = "up"]
  /\ status' = "connecting"
  /\ reconnectTimer' = FALSE

\* connect(), which the application calls once.
Connect ==
  /\ opened = 0 /\ ~intentional
  /\ OpenSocket
  /\ connectPromise' = TRUE
  /\ UNCHANGED <<shut, up, down, connVars, reqVars, faults, intentional, refused,
                 working>>

\* The reconnection timer.
Retry ==
  /\ reconnectTimer
  /\ OpenSocket
  /\ UNCHANGED <<shut, up, down, connVars, reqVars, faults, connectPromise,
                 intentional, refused, working>>

\* A lost connection: a reconnection is scheduled unless the client was stopped.
Lose ==
  /\ ws' = NoSocket
  /\ connectPromise' = FALSE
  /\ status' = IF intentional THEN "disconnected" ELSE "reconnecting"
  /\ reconnectTimer' = ~intentional

\* handleOpen: the auth message is the socket's first.
HandleOpen ==
  /\ ws # NoSocket /\ status = "connecting" /\ stage[ws] # "none" /\ link[ws] = "up"
  /\ status' = "authenticating"
  /\ up' = Sent(up, ws, "auth")
  /\ UNCHANGED <<link, shut, down, connVars, reqVars, faults, ws, opened,
                 connectPromise, reconnectTimer, intentional, refused, working>>

\* The client's next message, on its open socket.
Open == ws # NoSocket /\ status \in {"authenticating", "connected"}
Hears(msg) == Open /\ down[ws] # << >> /\ Head(down[ws]) = msg
Read == down' = [down EXCEPT ![ws] = Tail(@)]

HandleAuthSuccess ==
  /\ Hears("auth_success") /\ Read
  /\ status' = "connected"
  /\ connectPromise' = FALSE
  /\ UNCHANGED <<link, shut, up, connVars, reqVars, faults, ws, opened,
                 reconnectTimer, intentional, refused, working>>

\* disconnect().
Disconnects ==
  /\ intentional' = TRUE
  /\ CloseSocket
  /\ ws' = NoSocket
  /\ connectPromise' = FALSE /\ reconnectTimer' = FALSE
  /\ status' = "disconnected"

HandleAuthFailed ==
  /\ Hears("auth_failed")
  /\ Disconnects
  /\ refused' = TRUE
  /\ UNCHANGED <<link, up, connVars, reqVars, faults, opened, working>>

HandleRequest ==
  \E r \in Requests :
    /\ Hears(r) /\ Read
    /\ working' = working \cup {r}
    /\ UNCHANGED <<link, shut, up, connVars, reqVars, faults, status, ws, opened,
                   connectPromise, reconnectTimer, intentional, refused>>

\* A tool ends; its answer goes out on the socket there is by then, if it is
\* open, and is dropped otherwise.
Answer(r) ==
  /\ r \in working
  /\ working' = working \ {r}
  /\ up' = IF Open THEN Sent(up, ws, r) ELSE up
  /\ UNCHANGED <<link, shut, down, connVars, reqVars, faults, status, ws, opened,
                 connectPromise, reconnectTimer, intentional, refused>>

\* handleError and handleClose: the gateway has closed, after what it sent, or
\* the link was reset.
HandleClose ==
  /\ ws # NoSocket
  /\ \/ link[ws] = "reset"
     \/ link[ws] = "up" /\ "gateway" \in shut[ws] /\ down[ws] = << >>
  /\ Lose
  /\ CloseSocket
  /\ UNCHANGED <<link, up, connVars, reqVars, faults, opened, intentional,
                 refused, working>>

\* More than three heartbeats have gone without an answer.
HeartbeatMissed ==
  /\ ws # NoSocket /\ status = "connected" /\ link[ws] = "dead"
  /\ Lose
  /\ CloseSocket
  /\ UNCHANGED <<link, up, connVars, reqVars, faults, opened, intentional,
                 refused, working>>

\* CONNECT_TIMEOUT, which only a connect() arms.
ConnectTimesOut ==
  /\ ws # NoSocket /\ connectPromise /\ link[ws] = "dead"
  /\ Lose
  /\ CloseSocket
  /\ UNCHANGED <<link, up, connVars, reqVars, faults, opened, intentional,
                 refused, working>>

\* The application has refreshed the token that was refused: reconnect().
Refresh ==
  /\ refused
  /\ refused' = FALSE
  /\ intentional' = FALSE
  /\ OpenSocket
  /\ connectPromise' = TRUE
  /\ UNCHANGED <<shut, up, down, connVars, reqVars, faults, working>>

\* The application ends: disconnect().
Quit ==
  /\ ~intentional /\ CountFault("quit")
  /\ Disconnects
  /\ UNCHANGED <<link, up, connVars, reqVars, opened, refused, working>>

-----------------------------------------------------------------------------
Client ==
  \/ Connect \/ Retry \/ HandleOpen \/ HandleAuthSuccess \/ HandleAuthFailed
  \/ HandleRequest \/ HandleClose \/ HeartbeatMissed \/ ConnectTimesOut

Next ==
  \/ HubNext /\ UNCHANGED clientVars
  \/ Client
  \/ Refresh \/ Quit
  \/ \E r \in Requests : Answer(r)

Spec == Init /\ [][Next]_vars

\* Goroutines, timers, the network and the client's callbacks go on; a tool may
\* take for ever, and the application need neither refresh nor quit.  Fairness
\* of all of them together is enough, for each has finitely many steps to take.
Steady(s) ==
  \/ Accept(s) \/ ReadAuth(s) \/ Attach(s) \/ AttachTooLate(s) \/ Register(s)
  \/ Greet(s) \/ HeartbeatTimesOut(s) \/ ReadFails(s) \/ ReadAnswer(s)
  \/ link[s] # "up" /\ AuthTimerFires(s)

Waiting(r) ==
  \/ Insert(r) \/ WriteRequest(r) \/ WriteFails(r) \/ TimerFires(r) \/ TimerRuns(r)
  \/ Return(r)

Progress ==
  \/ /\ (\E s \in Sockets : Steady(s)) \/ (\E r \in Requests : Waiting(r))
     /\ UNCHANGED clientVars
  \/ Client

FairSpec == Spec /\ WF_vars(Progress)

-----------------------------------------------------------------------------
\* Another run of the same operation, which has the same key, could not be
\* written and cleared the key's entry, stopping whosever timer it found there.
Cancelled(r) ==
  \E q \in Requests \ {r} :
    Key[q] = Key[r] /\ outcome[q] = "offline" /\ timer[q] # "off"

\* No lost wake-up: a handler in its select has an answer or a time-out in a
\* channel, or a timer that will put one there, whatever answers, time-outs and
\* write errors of its own and of other requests came first.
NeverStranded ==
  \A r \in Requests :
    at[r] = "select" =>
      \/ resultCh[r] # {} \/ r \in timeoutCh \/ timer[r] \in {"armed", "fired"}
      \/ Cancelled(r)

\* No leak: an entry of the pending map belongs to a handler that still waits
\* under a timer, unless that timer ran before the entry was in.
PendingWaits ==
  \A r \in pending :
    timer[r] # "ran" => at[r] \in {"write", "select"} /\ timer[r] \in {"armed", "fired"}

\* An answer that the hub has read before the request's timer fired is what the
\* caller gets: no time-out overtakes it.
AnswersKept ==
  [][\A r \in Requests :
       resultCh[r] # {} /\ timer[r] \notin {"fired", "ran"} =>
         timer'[r] \notin {"fired", "ran"} /\ outcome'[r] # "timeout"]_vars

\* What the hub lists is served: no connection whose authentication timed out,
\* or whose read loop has returned, is ever a target.
ListedServes ==
  connections # NoSocket =>
    /\ stage[connections] \in {"greeting", "serving"}
    /\ connections \notin authTimedOut

\* No split brain: a device that takes itself for connected, over a live socket
\* that neither end has closed, is the one the hub dispatches to, or whoever took
\* its place has yet to close it.
ConnectedIsListed ==
  status = "connected" /\ link[ws] = "up" /\ shut[ws] = {} =>
    connections = ws \/ \E s \in Sockets : old[s] = ws

\* Every handler returns to its HTTP caller, unless another run of its operation
\* has cancelled its timer.
DispatchEnds ==
  \A r \in Requests : at[r] # "idle" ~> (at[r] = "returned" \/ Cancelled(r))

\* A handshake over a dead link that no CONNECT_TIMEOUT watches: it was opened
\* by the reconnection timer, and heartbeats start after it.
Hung == /\ ws # NoSocket /\ link[ws] = "dead" /\ ~connectPromise
        /\ status \in {"connecting", "authenticating"}

\* Whatever happens to links, timers and older connections, the device ends up
\* listed under the socket it holds, unless it was stopped or is hung.
Online == ws # NoSocket /\ status = "connected" /\ connections = ws
ComesBack == <>[](Online \/ intentional \/ Hung)
=============================================================================
