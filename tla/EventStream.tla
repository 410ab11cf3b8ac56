----------------------------- MODULE EventStream -----------------------------
(* The same-origin event stream of an operation: the task publishes events   *)
(* to a Redis stream of bounded length (StreamEventManager), the route       *)
(* /api/agent/events replays it from a cursor and then follows it, and the   *)
(* browser's SameOriginAgentStreamClient shows the events, reconnects from   *)
(* the last one it showed when a connection ends, and gives up after three   *)
(* connections in a row, or half a minute, that brought nothing.  There is   *)
(* one session, opened at any time; sessions share nothing but the stream.   *)
(*                                                                           *)
(* An event is the number of its place in the stream, which is its Redis id. *)
EXTENDS Integers, Sequences

CONSTANTS
  MaxEvents,     \* bound: with so many events published, the task is to end
  Capacity,      \* MAXLEN of the stream
  MaxConns,      \* bound: how many connections there are in all
  MaxFaults,     \* bound: how many faults there are in all
  Faults         \* the kinds of fault that happen

FaultKinds == {"cut", "silent", "offline", "forget", "refuse", "publish", "kill"}

ASSUME BoundsAssumption ==
  /\ MaxEvents \in Nat /\ Capacity \in Nat \ {0}
  /\ MaxConns \in Nat \ {0} /\ MaxFaults \in Nat
ASSUME FaultsAssumption == Faults \subseteq FaultKinds

Conns == 1 .. MaxConns

Events == {"chunk", "error", "end"}

\* The statuses a step can leave the operation in with no next step at once;
\* "over" is done or error.
Pauses == {"over", "interrupted", "waiting_for_human", "waiting_for_async_tool"}

\* Those that end the stream: an operation that waits for an asynchronous tool
\* goes on as the same operation.
STREAM_END_STATUSES == Pauses \ {"waiting_for_async_tool"}

VARIABLES
  published,   \* every event ever published, by its id
  dropped,     \* the ids 1 .. dropped are no longer in Redis
  owner,       \* does the stream's owner key exist?
  task,        \* where the operation's step is
  saved,       \* the operation's status, as saved last
  unheard,     \* has the end of the stream been missed by a publish that failed?
  link,        \* [Conns -> state of the connection between browser and server]
  sub,         \* [Conns -> state of the route's request]
  read,        \* [Conns -> currentLastId of the subscription]
  pipe,        \* [Conns -> events sent and not yet received]
  opened,      \* connections opened so far
  stage,       \* what the session's client does
  verdict,     \* how the session was told to be over
  current,     \* controller: the connection the client listens to
  cursor,      \* the client's cursor
  failed,      \* failedConnections
  recovering,  \* is recoveryStartedAt set?
  shown,       \* the last event shown in this session
  told,        \* how often the session was told that it is over
  online,      \* navigator.onLine
  faults       \* faults so far

streamVars == <<published, dropped, owner, task, saved, unheard>>
connVars == <<link, sub, read, pipe, opened>>
clientVars == <<stage, verdict, current, cursor, failed, recovering, shown, told>>
vars == <<streamVars, connVars, clientVars, online, faults>>

TypeOK ==
  /\ published \in Seq(Events)
  /\ dropped \in 0 .. Len(published)
  /\ owner \in BOOLEAN
  /\ task \in {"running", "overtaken", "failing", "ending", "idle"} \cup Pauses
  /\ saved \in {"running"} \cup Pauses
  /\ unheard \in BOOLEAN
  /\ link \in [Conns -> {"none", "up", "silent", "down"}]
  /\ sub \in [Conns -> {"none", "asked", "reading", "closed", "refused"}]
  /\ read \in [Conns -> 0 .. Len(published)]
  /\ pipe \in [Conns -> Seq(1 .. Len(published))]
  /\ opened \in 0 .. MaxConns
  /\ stage \in {"waiting", "opening", "open", "over", "gone"}
  /\ verdict \in {"none", "end", "error", "expired", "refused"}
  /\ current \in 0 .. opened
  /\ cursor \in 0 .. Len(published)
  /\ failed \in 0 .. 3
  /\ recovering \in BOOLEAN
  /\ shown \in 0 .. Len(published)
  /\ told \in 0 .. 1
  /\ online \in BOOLEAN
  /\ faults \in 0 .. MaxFaults

\* createOperation has published agent_runtime_init and recorded the owner
\* before the browser learns of the operation.
Init ==
  /\ published = <<"chunk">> /\ dropped = 0 /\ owner = TRUE
  /\ task = "running" /\ saved = "running" /\ unheard = FALSE
  /\ link = [c \in Conns |-> "none"] /\ sub = [c \in Conns |-> "none"]
  /\ read = [c \in Conns |-> 0] /\ pipe = [c \in Conns |-> << >>]
  /\ opened = 0
  /\ stage = "waiting" /\ verdict = "none" /\ current = 0 /\ cursor = 0
  /\ failed = 0 /\ recovering = FALSE
  /\ shown = 0 /\ told = 0
  /\ online = TRUE /\ faults = 0

Fault(kind) ==
  /\ kind \in Faults /\ faults < MaxFaults
  /\ faults' = faults + 1

Larger(a, b) == IF a > b THEN a ELSE b

-----------------------------------------------------------------------------
(* The task                                                                  *)

Silence == UNCHANGED <<published, dropped, owner>>

\* XADD with an approximate MAXLEN: older events may go, the Capacity newest stay.
Publish(event) ==
  /\ published' = Append(published, event)
  /\ dropped' \in dropped .. Larger(dropped, Len(published') - Capacity)
  /\ UNCHANGED owner

\* publishStreamEvent throws: at its XADD, or at the EXPIRE after it.
PublishThrows(event) ==
  /\ Fault("publish")
  /\ Publish(event) \/ Silence

Proceed(next) == task' = next /\ UNCHANGED <<connVars, clientVars, online>>

\* The bound: the operation goes on below it.
GoesOn == Len(published) < MaxEvents

\* Any event that ends nothing.
Chunk ==
  /\ task = "running" /\ GoesOn
  /\ Publish("chunk")
  /\ Proceed("running") /\ UNCHANGED <<saved, unheard, faults>>

\* A tool throws: the executor reports it and the step goes on.
ToolFails ==
  /\ task = "running" /\ GoesOn
  /\ Publish("error")
  /\ Proceed("running") /\ UNCHANGED <<saved, unheard, faults>>

\* A step throws, after the executor reported the error itself or not; one
\* that could not publish an event throws too.
StepFails ==
  /\ task = "running"
  /\ Publish("error") \/ Silence
  /\ Proceed("failing") /\ UNCHANGED <<saved, unheard, faults>>

\* executeStep's error path reports the error, or fails to and goes on.
ReportError ==
  /\ task = "failing"
  /\ \/ Publish("error") /\ UNCHANGED faults
     \/ PublishThrows("error")
  /\ Proceed("ending") /\ UNCHANGED <<saved, unheard>>

\* Mutant: only an operation that was running enters such a status.
EntersFromRunning(status) == status \in STREAM_END_STATUSES /\ saved = "running"

\* hasEnteredStreamEndState
Enters(status) == status \in STREAM_END_STATUSES /\ saved \notin STREAM_END_STATUSES

\* Statuses that a save of the task can carry.  An interrupt is noticed unless it
\* came after the step had looked for one; the error path looks for none.
Saves(status) ==
  \/ /\ task = "running" /\ (saved = "interrupted" => status = "interrupted")
     /\ status = "running" => GoesOn
  \/ task = "overtaken" /\ (status = "running" => GoesOn)
  \/ task = "ending" /\ status = "over"

\* What follows it: the next step, step_complete, or nothing.
AfterSave(status) ==
  IF task = "ending" THEN "idle" ELSE status

\* The coordinator saves a status, and publishes agent_runtime_end when the
\* operation enters one that ends the stream.
Save(status) ==
  /\ Saves(status)
  /\ IF Enters(status) THEN Publish("end") ELSE Silence
  /\ saved' = status
  /\ Proceed(AfterSave(status)) /\ UNCHANGED <<unheard, faults>>

\* The state is saved, and the end is not published after it, or the publish
\* throws all the same; or the worker is killed between the two.
SaveUnheard(status) ==
  /\ Saves(status) /\ Enters(status)
  /\ \/ /\ PublishThrows("end")
        /\ Proceed(IF task = "ending" THEN "idle" ELSE "failing")
     \/ /\ Fault("kill") /\ Silence
        /\ Proceed("idle")
  /\ saved' = status
  /\ unheard' = (unheard \/ published' = published)

\* After the save executeStep publishes step_complete, behind the end if there was
\* one, and saves the step's state once more; or it throws.
StepComplete ==
  /\ task \in Pauses
  /\ \/ /\ Publish("chunk") /\ saved' = task
        /\ Proceed("idle") /\ UNCHANGED faults
     \/ /\ PublishThrows("chunk") /\ UNCHANGED saved
        /\ Proceed("failing")
  /\ UNCHANGED unheard

\* interruptOperation, or a step that finds its budget spent: the end is published
\* while the step, if there is one, goes on; it may have looked for interrupts.
Interrupt ==
  /\ saved \notin {"over", "interrupted"}
  /\ \/ /\ IF Enters("interrupted") THEN Publish("end") ELSE Silence
        /\ UNCHANGED <<unheard, faults>>
     \/ /\ Enters("interrupted") /\ PublishThrows("end")
        /\ unheard' = (unheard \/ published' = published)
  /\ saved' = "interrupted"
  /\ \E next \in {task} \cup (IF task = "running" THEN {"overtaken"} ELSE {}) :
       Proceed(next)

\* A human's answer or a tool's result is worked into the paused operation, or
\* startExecution starts it again: under the same id, and on the same stream.
Resume ==
  /\ task = "idle" /\ GoesOn
  /\ \/ saved \in {"waiting_for_human", "waiting_for_async_tool"} /\ UNCHANGED saved
     \/ saved \notin {"over", "running"} /\ saved' = "running"
  /\ Silence
  /\ Proceed("running") /\ UNCHANGED <<unheard, faults>>

\* cleanupOperation of an abandoned operation, or two hours without an event.
Forget ==
  /\ Fault("forget")
  /\ owner' = FALSE /\ dropped' = Len(published)
  /\ UNCHANGED <<published, task, saved, unheard, connVars, clientVars, online>>

-----------------------------------------------------------------------------
(* The route                                                                 *)

\* The owner is looked up; a session that has expired is refused as well.
Authorize(c) ==
  /\ sub[c] = "asked" /\ link[c] = "up"
  /\ \/ /\ owner
        /\ sub' = [sub EXCEPT ![c] = "reading"]
        /\ UNCHANGED faults
     \/ /\ ~owner
        /\ sub' = [sub EXCEPT ![c] = "refused"]
        /\ UNCHANGED faults
     \/ /\ Fault("refuse")
        /\ sub' = [sub EXCEPT ![c] = "refused"]
  /\ UNCHANGED <<streamVars, link, read, pipe, opened, clientVars, online>>

\* What XREAD returns after an id, up to some event; the route sends nothing after
\* the first end among it.
Batch(id, last) ==
  LET first == Larger(id, dropped)
  IN  [k \in 1 .. last - first |-> first + k]

Ends(i) == published[i] = "end"

LastOfBatch(id, last) ==
  /\ last > Larger(id, dropped)
  /\ \A i \in Larger(id, dropped) + 1 .. last - 1 : ~Ends(i)
  /\ last = Len(published) \/ Ends(last)

\* subscribeStreamEvents: one XREAD that returned something, and its onEvents.
ReadStream(c) ==
  /\ sub[c] = "reading"
  /\ \E last \in 1 .. Len(published) :
       /\ LastOfBatch(read[c], last)
       /\ pipe' = [pipe EXCEPT ![c] = IF link[c] = "up" THEN @ \o Batch(read[c], last) ELSE @]
       /\ read' = [read EXCEPT ![c] = IF Ends(last) THEN 0 ELSE last]
       /\ sub' = [sub EXCEPT ![c] = IF Ends(last) THEN "closed" ELSE @]
  /\ UNCHANGED <<streamVars, link, opened, clientVars, online, faults>>

\* Mutant: only a request that has not begun to read notices the abort.
CleanupBeforeReading(c) ==
  /\ link[c] # "up" /\ sub[c] = "asked"
  /\ sub' = [sub EXCEPT ![c] = "closed"]
  /\ UNCHANGED <<streamVars, link, read, pipe, opened, clientVars, online, faults>>

\* request.signal, or a write that fails: the subscription is released.
Cleanup(c) ==
  /\ link[c] # "up" /\ sub[c] \in {"asked", "reading"}
  /\ sub' = [sub EXCEPT ![c] = "closed"]
  /\ read' = [read EXCEPT ![c] = 0]
  /\ UNCHANGED <<streamVars, link, pipe, opened, clientVars, online, faults>>

\* The connection is lost, with notice or without; so is what was under way.
LinkFails(c) ==
  /\ link[c] = "up"
  /\ \/ /\ Fault("cut") /\ online
        /\ link' = [link EXCEPT ![c] = "down"]
     \/ /\ ~online /\ UNCHANGED faults
        /\ link' = [link EXCEPT ![c] = "down"]
     \/ /\ Fault("silent")
        /\ link' = [link EXCEPT ![c] = "silent"]
  /\ pipe' = [pipe EXCEPT ![c] = << >>]
  /\ UNCHANGED <<streamVars, sub, read, opened, clientVars, online>>

GoOffline ==
  /\ online /\ Fault("offline")
  /\ online' = FALSE
  /\ UNCHANGED <<streamVars, connVars, clientVars>>

GoOnline ==
  /\ ~online /\ online' = TRUE
  /\ UNCHANGED <<streamVars, connVars, clientVars, faults>>

-----------------------------------------------------------------------------
(* The client                                                                *)

Live == stage \in {"waiting", "opening", "open"}

\* Mutant: the callbacks do not look at the terminal flag.
ListeningWhenOver(c) == current = c

\* The guard of every callback: not stopped, not terminal, and not of an
\* earlier connection.
Listening(c) == stage \in {"opening", "open"} /\ current = c

Abort == link' = [c \in Conns |-> IF c = current /\ link[c] = "up" THEN "down"
                                  ELSE link[c]]

Over(how) ==
  /\ stage' = "over" /\ verdict' = how /\ told' = told + 1

\* Mutant: a new request asks for the new events only.
LastEventIdNewest == Len(published)

\* The lastEventId of a new request.
LastEventId == cursor

\* connect(), and the retry timer when the browser is not known to be offline.
Open ==
  /\ stage = "waiting" /\ (recovering => online)
  /\ opened < MaxConns
  /\ opened' = opened + 1 /\ current' = opened + 1
  /\ stage' = "opening"
  /\ link' = [link EXCEPT ![opened + 1] = "up"]
  /\ sub' = [sub EXCEPT ![opened + 1] = "asked"]
  /\ read' = [read EXCEPT ![opened + 1] = LastEventId]
  /\ UNCHANGED <<streamVars, pipe, verdict, cursor, failed, recovering, shown,
                 told, online, faults>>

\* The retry timer while offline: half a minute has passed.
ExpireOffline ==
  /\ stage = "waiting" /\ recovering /\ ~online
  /\ Over("expired")
  /\ UNCHANGED <<streamVars, connVars, current, cursor, failed, recovering, shown,
                 online, faults>>

OnOpen(c) ==
  /\ Listening(c) /\ stage = "opening"
  /\ link[c] = "up"
  /\ \/ /\ sub[c] \in {"reading", "closed"}
        /\ stage' = "open"
        /\ UNCHANGED <<verdict, told, link>>
     \/ /\ sub[c] = "refused"
        /\ Over("refused")
        /\ Abort
  /\ UNCHANGED <<streamVars, sub, read, pipe, opened, current, cursor, failed,
                 recovering, shown, online, faults>>

\* An event that is not the cursor's own resets the recovery and is shown; an
\* end or an error ends the session.
OnMessage(c) ==
  /\ Listening(c) /\ stage = "open"
  /\ pipe[c] # << >>
  /\ pipe' = [pipe EXCEPT ![c] = Tail(@)]
  /\ LET event == Head(pipe[c])
     IN  IF event = cursor
         THEN UNCHANGED <<link, stage, verdict, cursor, failed, recovering, shown, told>>
         ELSE /\ recovering' = FALSE /\ failed' = 0
              /\ shown' = event
              /\ cursor' = event
              /\ IF published[event] \in {"end", "error"}
                 THEN Over(published[event]) /\ Abort
                 ELSE UNCHANGED <<link, stage, verdict, told>>
  /\ UNCHANGED <<streamVars, sub, read, opened, current, online, faults>>

\* Mutant: an error is not retried, only an end of file.
SettledAtEof(c) == link[c] = "up" /\ stage = "open" /\ pipe[c] = << >> /\ sub[c] = "closed"

\* fetchEventSource settles, by an error or an end of file.
Settled(c) ==
  /\ pipe[c] = << >>
  /\ link[c] = "down" \/ (link[c] = "up" /\ stage = "open" /\ sub[c] = "closed")

\* A connection that was open for ten seconds starts the count afresh; "late"
\* is half a minute since the recovery began.
ConnectionEnds(c) ==
  /\ Listening(c) /\ Settled(c)
  /\ recovering' = TRUE
  /\ \E healthy \in (IF stage = "open" THEN BOOLEAN ELSE {FALSE}), late \in BOOLEAN :
       /\ failed' = (IF healthy THEN 0 ELSE failed) + 1
       /\ IF failed' >= 3 \/ (late /\ recovering /\ ~healthy)
          THEN Over("expired")
          ELSE stage' = "waiting" /\ UNCHANGED <<verdict, told>>
  /\ UNCHANGED <<streamVars, connVars, current, cursor, shown, online,
                 faults>>

\* disconnect(), or the page is closed.
Leave ==
  /\ Live
  /\ stage' = "gone"
  /\ Abort
  /\ UNCHANGED <<streamVars, sub, read, pipe, opened, verdict, current, cursor,
                 failed, recovering, shown, told, online, faults>>

-----------------------------------------------------------------------------
Task == \/ Chunk \/ ToolFails \/ StepFails \/ ReportError \/ StepComplete
        \/ Interrupt \/ Resume \/ Forget
        \/ \E status \in {"running"} \cup Pauses : Save(status) \/ SaveUnheard(status)

Route == \E c \in Conns : Authorize(c) \/ ReadStream(c) \/ Cleanup(c)

Network == (\E c \in Conns : LinkFails(c)) \/ GoOffline \/ GoOnline

Client ==
  \/ Open \/ ExpireOffline
  \/ \E c \in Conns : OnOpen(c) \/ OnMessage(c) \/ ConnectionEnds(c)

Next == Task \/ Route \/ Network \/ Client \/ Leave

Spec == Init /\ [][Next]_vars

\* The server's and the browser's event loops and timers go on; nobody has to
\* publish, to fail, to leave or to be online.
Fairness == WF_vars(Route) /\ WF_vars(Client)
FairSpec == Spec /\ Fairness

-----------------------------------------------------------------------------
(* Properties                                                                *)

Feed == INSTANCE EventFeed WITH total <- Len(published), over <- told > 0

\* A session is shown the events in order, each once, without a gap that the
\* stream's bound does not explain, over all its connections.
ImplementsFeed == Feed!FeedSpec

\* Everything published reaches the session: time and again it has been shown
\* all there is, unless it is over or left, Redis dropped the rest, or its link
\* died without notice: the client has no time-out for a silent connection.
Deaf == current # 0 /\ link[current] = "silent"
CatchesUp ==
  []<>(~Live \/ Deaf \/ \A i \in shown + 1 .. Len(published) : i <= dropped)

\* An event is on its way to the session: it is in the connection's pipe, or still
\* to be read for it, or the next connection will ask for it; or the client is
\* about to find this connection ended or refused.
Coming(i) ==
  \/ stage = "waiting" /\ LastEventId < i
  \/ /\ stage # "waiting"
     /\ \/ \E k \in 1 .. Len(pipe[current]) : pipe[current][k] = i
        \/ sub[current] \in {"asked", "reading"} /\ read[current] < i
        \/ Settled(current)
        \/ stage = "opening" /\ sub[current] = "refused"

\* The route sends nothing that follows an end: step_complete does, what a running
\* step still publishes when it is interrupted, and what a human's answer brings.
BehindEnd(i) == \E e \in 1 .. i - 1 : Ends(e) /\ Coming(e)

\* No event falls between the replay and what follows it, between two connections,
\* or into a lost one: whatever has not been shown is on its way, unless Redis
\* dropped it or it comes behind an end that is on its way itself, while the
\* session goes on and its link has not died silently.
NothingMissed ==
  Live /\ ~Deaf => \A i \in shown + 1 .. Len(published) :
                       i <= dropped \/ Coming(i) \/ BehindEnd(i)

\* A connection nobody listens to does not keep its subscription, which holds a
\* Redis connection of its own.
SubscriptionsEnd ==
  []<>(\A c \in Conns : sub[c] = "reading" => Listening(c) /\ ~Deaf)

\* A session that goes on when its operation has ended, or waits for a human, has
\* an end still ahead of it, whatever interrupts, failures and answers came before:
\* no step takes it past an end without stopping it there.  Except that the end
\* was never published (a publish that failed, a worker killed before it), or that
\* Redis dropped it, as when an interrupted step went on for Capacity events more.
EndIsAhead ==
  Live /\ saved \in {"over", "interrupted", "waiting_for_human"} /\ ~unheard =>
    \E e \in 1 .. Len(published) : Ends(e) /\ (e > shown \/ e <= dropped)

\* A session that is told of an error belongs to a task that has failed.
ErrorMeansFailed == verdict = "error" => task \notin {"running", "overtaken"}
=============================================================================
