# Formal model of the agent runtime and its connections

The repository is a chat application whose server runs *agent operations*: an
operation is a sequence of steps (a call of the language model, a batch of tool
calls, ...), each executed by an HTTP request that a queue delivers.  The server
is stateless between steps.  What an operation is lives in Redis (the agent state
and the step locks), in PostgreSQL (the `agent_operations` row and the messages)
and in the queue (QStash).  Several instances, users who interrupt, sub-agents
that end and timers all write to it.  Around it are two connections: the event
stream over which the browser follows a run, and the gateway through which the
server reaches the tools on a user's device.  In these parts an order of events
that nobody wrote a test for decides whether a run finishes and whether its user
sees it, and they are what these modules are about.

Paths below are relative to the repository; `ARS` is
`apps/server/src/services/agentRuntime/AgentRuntimeService.ts`.

## Inventory

| Component | State | Operations | Hard because | Correct when |
|---|---|---|---|---|
| Step execution pipeline (`ARS` `executeStep`, `interruptOperation`; `modules/AgentRuntime/AgentRuntimeCoordinator.ts`, `AgentStateManager.ts`; `agent-hono/handlers/runStep.ts`) | Redis agent state (status, stepCount), step history, step lock per index, row status | deliver, claim, load, budget, skip, run, re-read, save, schedule, complete, catch, release, interrupt | at-least-once delivery, a lease without owner, read-then-save without compare, crashes between two saves | each step executes once and in order; an ended operation stays ended; its end is told once, and is told |
| Async-tool suspend and resume (`ARS` 1797-2113; `packages/database/src/models/agentOperation.ts`; `handlers/subAgentCallback.ts`) | parked status, pending calls, placeholder messages, row status, callbacks and verifies in the queue | park, self-check, callback, backfill, barrier, CAS, publish, verify | children end before, during and after the park; redelivery; replica lag; two stores | the next turn runs when every result is there, once, and does run |
| Completion lifecycle (`CompletionLifecycle.ts`, `hooks/`) | registered hooks, row | persist, dispatch, unregister | failures are swallowed; parks are not ends | every end is dispatched |
| Queue (`services/queue`) | scheduled messages | schedule, deliver, retry | at least once, or (local) at most once | - |
| Human intervention (`HumanInterventionHandler.ts`, `GeneralChatAgent.ts`) | pending calls of a batch, intervention status of their messages | approve, reject, reject and continue | two answers to one view of the batch race; consents and deferred calls in the same batch; a worker killed within an answer | a tool runs once, a rejected one never; every pending call is answered before the model continues |
| Group orchestration (`ARS` 2139-2359, `services/aiAgent`, `handlers/groupMemberCallback.ts`) | member operations and anchors, group call | start members, member ends, count, fill, member times out | K-of-N barrier above the parent's barrier; the time-out races the answer; members that cannot be started | the supervisor is released once, when all have answered, and as its call asked |
| Abandon, start, sync execution (`AbandonOperationService.ts`, `ARS` 1645, 2700) | as the pipeline | finalize and delete, start, loop | race with a live step | no step after the end |
| Agent loop (`packages/agent-runtime`) | agent state | step, instruction executors, budgets | pure, but the budgets interact | a run ends within its limits |
| Client tools (`ToolResultWaiter.ts`, `dispatchClientTool.ts`) | Redis lists | wait, deliver, cancel, time out | late answers | an answer reaches the call that waits for it |
| Event stream (`StreamEventManager.ts`, `app/(backend)/api/agent/events/route.ts`, `services/agentRuntime/SameOriginAgentStreamClient.ts`) | bounded Redis stream, owner key, subscriptions; cursor, recovery window | publish, subscribe, replay, abort; connect, show, reconnect, give up | replay and live events, trimmed and expired streams, links that die, callbacks of old connections | the user is shown every event once, in order, and told of the end; no subscription leaks |
| Agent gateway client (`packages/agent-gateway-client`) | last id, resume buffer | reconnect, replay, deduplicate | the other end is an external service | as the event stream |
| Device gateway (`apps/device-gateway`, `packages/device-gateway-client`) | connections, pending requests, timers; the client's socket and status | accept, authenticate, register, replace, dispatch, resolve, time out; connect, answer, reconnect | goroutines and timers between lock sections, replaced connections, late answers, one key twice | every handler returns, an answer in time is the answer, what is listed is served, the device comes back |
| Edit lock (`services/editLock`) | Redis lease | acquire, release, canWrite | read-then-set, fail open | two users do not both write |

Interactions: `runStep` calls `executeStep`; `executeStep` saves through the
coordinator, publishes through the queue and completes through the lifecycle; the
lifecycle of a sub-agent publishes a callback, whose handler calls back into the
parent's `tryResumeParentFromAsyncTool`, which publishes a step of the parent; a
group member's callback counts its siblings first.  A human's answer is published
as a step.  Every save of a status that ends the stream publishes the stream's last
event, which the route sends to the browser's client.  Tools on a device are an
HTTP request to the gateway, which waits for the device's answer on its socket.
The web and desktop applications, the command line, the bots, the model and
context packages, the CRUD services and the database models hold no state that
takes part in this; `PROJECT.json` lists them with the reason.

## Modules

| Module | What it is | Extends or instantiates |
|---|---|---|
| `StepLedger` | abstract: an operation is a ledger of steps, each executed once, in order, none after the end | |
| `StepExecution` | the pipeline: workers and requesters with a program counter | `StepLedger` as `Ledger` |
| `StepExecutionInvariant` | the inductive invariant `IInv` | `StepExecution` |
| `StepExecution_proofs` | the theorems | `StepExecutionInvariant`, `TLAPS` |
| `MCStepExecution` | instances for TLC | `StepExecutionInvariant` |
| `AsyncJoin` | abstract: a turn is released when every call of the turn before has its result | |
| `AsyncToolResume` | park, callbacks, barrier, CAS, watchdog | `AsyncJoin` as `Join` |
| `AsyncToolResume_proofs` | the theorems | `AsyncToolResume`, `TLAPS` |
| `GroupMembers` | members of a group call: start, callbacks, anchors, count, time-outs, release | |
| `GroupMembers_proofs` | the theorems | `GroupMembers`, `FiniteSetTheorems`, `TLAPS` |
| `HumanIntervention` | one batch of tool calls and the human's answers to it | |
| `HumanIntervention_proofs` | the theorems | `HumanIntervention`, `FiniteSetTheorems`, `TLAPS` |
| `EventFeed` | abstract: a session sees the events in order, once, without an unexplained gap | |
| `EventStream` | task, Redis stream, route, network and browser client | `EventFeed` as `Feed` |
| `EventStream_proofs` | the theorems | `EventStream`, `SequenceTheorems`, `TLAPS` |
| `DeviceHub` | the gateway's connections, timers and pending requests | |
| `DeviceGateway` | the hub composed with the device's client | `DeviceHub` |
| `DeviceGateway_proofs` | the theorems | `DeviceGateway`, `FiniteSetTheorems`, `TLAPS` |
| `MCStepExecution`, `MCAsyncToolResume`, `MCGroupMembers`, `MCHumanIntervention`, `MCEventStream`, `MCDeviceGateway` | instances for TLC | the module they are named after |

### StepExecution

`state` is the Redis agent state, `steps` the step history that
`saveStepResult` appends to, `lock` the step locks, `row` the status of the
`agent_operations` row, `ends` counts the terminal events sent to the client and
`completions` the reasons given to `onComplete`.  `scheduled`, `due`, `later` and
`attempts` are the queue.  Each worker (`Workers`) executes one delivery at a
time and stops at every await on shared state: `pc` names the await, `site` which
of the saves in `executeStep` it is in, `st` and `prev` the states it holds, `idx`
its step index.  Requesters are callers of `interruptOperation` and share the save
of the coordinator (`prev`, `save`, `end`), which is not atomic in the code and is
not atomic here.

`StepOutcome` is what `AgentRuntime.step` and the instruction executors may leave
behind: a status, and for one that goes on (`running`) whether there is a next
context, which is the choice between `ScheduleNext` and `StopHere`.  There is none
when a tool that is called alone throws: `call_tool`'s catch returns the state as it
is, so that nothing is scheduled and the completion is told as done, or as
interrupted at `maxSteps` (`Reason`, `StepLimit`), while the Redis state stays as it
was.  `HalfEnded` names that case.  What the model says and what tools do is not in
the model.  `running` stands for any state that neither ended nor parked: the
server's executors keep the `idle` that `createOperation` wrote until a resume writes
`running`, and no code tells the two apart.

Faults are counted by `MaxFaults` and chosen from `Faults`: a worker is killed
(`crash`), an await throws (`throw`), a swallowed failure (`swallow`), one
delivery more (`duplicate`), a lock that expires under a live worker (`lapse`), a
claim that fails open (`failOpen`).

Abstractions a reader should know:

- `ResumeParked` is atomic here (load, CAS and publish of a parked operation).
  `AsyncToolResume` takes it apart and shows that its pieces can publish a step
  twice; `ScheduledOnce` is therefore a statement about the pipeline around the
  resume, not about the resume.
- time is only in the order of events: a delivery put off by a 429 comes back when
  the lock that put it off is gone (`Retry-After` is 37s, the lock's TTL 35s).
- `executionBudget` is a budget that may be exceeded at any load.  Only `step_heals`
  carries one; that a late delivery over budget rewrites how a finished operation
  ended (`ARS:770`) is in the model and in no property.
- `costLimit`, which nothing on the server sets, is left out.

### AsyncToolResume

`parent` is the Redis state of the parked operation, `row` its row, `made` the
placeholder messages of the calls a turn has started, `children` the calls whose
sub-agent runs, `filled` the placeholders that have a result.  `callbacks`,
`verifies`, `published` and `due` are the queue.  A worker takes a step, a callback
or a verify (`task`), and `stage` says which await of
`tryResumeParentFromAsyncTool` comes next; `seen` is the state it loaded.  A *turn*
is the run of steps up to a park: what may happen inside is `StepExecution`'s.
`Interrupt` writes atomically; that it may be lost is shown there.

Two publishes fail without anybody noticing, and both are faults: the callback of a
child that ended (`webhook`: `HookDispatcher.dispatch` swallows it, and the call is
from then on in `unheard`) and the next verify of the watchdog (`arm`:
`maybeScheduleAsyncToolVerify` swallows it and the handler answers 200).  A check that
missed the last result and armed no verify makes the parent `blind`.

### GroupMembers

One supervisor that is parked on one group call.  `called`, `isolated` and `asked`
are the call: whom it names, whether they run as tasks with a deadline, and whether
the supervisor goes on or finishes when they have answered.  `member` is each
member's operation, `hung` those that never end by themselves, `anchor` the
placeholders, `group` the group call's own message with the disposition stored in
it.  A worker takes a callback, a time-out, a verify or the parking step, and stops
at every await: fill the anchor, count, fill the group call, load the parent, CAS,
publish.  The faults `webhook` and `arm` are those of `AsyncToolResume`: a member's
callback that is never published, a verify that is not armed.  Only isolated members
have a deadline; one that runs in the group may hang, and nobody answers for it
(`Stranded`).  A call of one member has no anchors below it (`Collapsed`).  The parent's
barrier is `AsyncToolResume`'s, for one call.

### HumanIntervention

One reply of the model with some calls.  `needs` says which calls ask the human
first, `nature` how each tool behaves; `state` is the Redis state, of whose messages
only the placeholders that say pending matter (`shown`); `intervention`, `result`
and `runs` are the calls' messages and how often their tools ran.  Steps and answers
are messages of the same queue (`due`), because `processHumanIntervention` publishes
its answer as a step.  A step is one action: that steps exclude each other is
`StepExecution`'s.  A tool may throw: in a batch (`RunCalls`) its call gets no message
and the step goes on with the others; called alone (`CallThrows`) or approved
(`ApprovedThrows`) it ends the step with no next context.  `mishaps` records six things
after which the model is called too early or nobody goes on:

| Mishap | What happened |
|---|---|
| `deferred`, `consent` | a call was deferred, or a path had to be consented to, beside calls for the human |
| `continued` | a call was rejected to continue while others were pending |
| `ignored` | an answer was not taken up |
| `threw` | a tool threw and left its call without an answer, but somebody goes on: the model, called with the others, or the human who is asked for them |
| `halted` | a tool that was called alone or approved threw and nobody is left to ask: the state neither ended nor parked, and nothing is scheduled |

A call counts as run when its tool is dispatched, also when it throws.
`executeToolWithRetry`, which within one dispatch calls a failing tool up to a few times
more, is not modelled: `RunsOnce` is about dispatches.  Nor is an error that fails the
whole step (`isPersistFatal`), which ends it as an exception in `StepExecution` does.

### EventStream

An event is the number of its place in the stream, `published` the kinds of all
events ever published, of which the oldest `dropped` are gone.  `owner` is the
owner key, `task` where the step that runs now is, `saved` the status Redis has:
what a step publishes goes on behind an end (the `step_complete` of the last step, the
chunks of a step that was interrupted, the steps after a human's answer).  `unheard`
says that an end was never published, because its publish failed or its worker was
killed.  A publish that throws may have written the event or not: the append may
succeed and the expiry after it fail.  Each connection has a `link`, a request
on the server (`sub`, `read`) and what is under way (`pipe`).  The session's client
has a `stage`, the connection it listens to (`current`), its `cursor` and the
recovery counters; `shown`, `told` and `verdict` are what its user sees.  Time is
nondeterminism: a connection was healthy for ten seconds or not, half a minute has
passed or not.

### DeviceHub and DeviceGateway

`DeviceHub` is one user's hub and one connectionId.  A connection is the number of
its socket; `stage` is where its read loop is, `connections` the registered one.
`at`, `timer`, `resultCh`, `timeoutCh` and `pending` are a dispatch: two dispatches
have one key when they are runs of one operation.  Every lock section is an action,
every goroutine and timer function goes on by itself.  `DeviceGateway` adds the
device's client and the application's reaction to a refused token; the client is a
single-threaded event loop, and each of its callbacks is an action.  Links deliver
in order; they are reset (both ends learn of it) or die (only timers notice).

## Runs

All runs together take about a quarter of an hour on two cores.

| Run | Shows | Distinct states |
|---|---|---|
| `step_execution` | one executor, each message published once, no published step dropped, ended stays ended, the ledger refinement and the inductive invariant, under any two faults and an interrupt, while leases hold | 3.0 million |
| `step_settles` | without crashes and interrupts the operation ends and its end is dispatched, whatever throws and is delivered twice, or half-ends | 0.1 million |
| `step_heals` | no step is lost before it is in the history, by a crash, a lapsed lease or a claim that failed open, with three retries and a budget that may run out | 1.6 million |
| `async_resume` | the join refinement with two parks, any two faults and interrupts | 1.7 million |
| `async_ends` | three handlers racing on one park resume it at most once; failed, repeated, lagging, unarmed or never called, they lose no wake-up but the two that the code swallows, and the park is held by its row or its next turn until the operation ends | 0.4 million |
| `group` | two members, two instances, any one fault: the supervisor is released once, when both have answered, as its call asked, and in the end; until then every answer, its count and its check are in somebody's hands, unless a word was lost or a member hangs in the group | 1.2 million |
| `human` | two calls of any nature, answers of every kind, twice and late, a killed worker, tools that throw: a tool runs once, a rejected one never, the model waits for its batch but for the mishaps, whatever is open can be moved by somebody, the batch ends, also beside a tool that threw | 4.2 million |
| `device` | two runs of one operation, three sockets, any fault: no handler waits for nothing, no entry leaks, no answer is overtaken by its time-out, what is listed is served, a device that takes itself for connected is listed, every dispatch ends, the device comes back | 0.8 million |
| `stream` | one session, three connections, any two faults: the feed refinement, what is not shown is on its way or behind an end that is, everything is shown in the end, no subscription is left behind, a session that goes on has the end of an ended operation ahead of it | 2.1 million |

Bounds.  The pipeline has two workers and, where interrupts matter, one requester;
`MaxStep` is 1, so that a step can follow a step, be parked and resumed, and be late
after the end; `StepLimit` is 2, so that a state that stops while it runs is told as
done after step 0 and as interrupted after step 1; one or two faults, so that where it matters a redelivery can fail
again; QStash's `retries = 3` is kept where the run is about healing.  The resume
has two tools (a first and a last child), two or three workers (the last two
callbacks and a verify or the parking step), two parks where a stale check has to
meet a later park, and two verify attempts instead of five (one that re-arms and one
that is the last).  The group has two members (a first and a last to count), one
verify and a call that asks to finish: `resume` is what a handler does that has
found nothing else, so that a lost disposition would show.  The batch has two calls
(one answered, one pending), two answers in the queue and one fault, beside which any
tool may throw.  The device has three sockets (the old one, its
successor and the one after a loss) and one fault; five sockets with two faults were
checked with no request and with one.  The stream has two events beside the last
ones, of which Redis may keep two, three connections (three that fail in a row end the
session) and two faults.

Each property of these runs has a mutant, defined beside the definition it replaces,
that breaks it the way a slip in the code would.

Some properties exempt a case by name, because there the code does not do what one
would wish and claims nothing; TLC reaches each of these cases, and without the
exemption the property fails:

| Exemption | In | What happens |
|---|---|---|
| `HalfEnded` | `Settles` | a tool that is called alone throws: consumers are told, nothing is scheduled, and the Redis state never ends |
| `unheard`, `blind` | `NoLostWakeup`, `JoinEnds` | a callback that was never published, or a stale check that armed no verify: the parent stays parked |
| `mishaps` | `ModelWaits` | the six of `HumanIntervention`: the model is called with an incomplete batch |
| `mishaps` but `threw` | `NeverStuck`, `BatchEnds` | the same without the tools that threw where somebody goes on |
| `Killed` | `NeverStuck`, `BatchEnds` | a worker killed within an answer leaves a message that no longer says pending, so that nobody answers again |
| `WordLost` | `SupervisorHeld`, `GroupEnds` | a member fails to start while another ends, a lagging count, a callback that was never published, a time-out that was not scheduled or failed half way: the supervisor waits for ever |
| `Stranded` | `SupervisorHeld`, `GroupEnds` | a member that runs in the group and never ends: it has no time-out |
| `Cancelled` | `NeverStranded`, `DispatchEnds` | a run that cannot be written clears the entry of another run of its operation and stops its timer |
| `timer # "ran"` | `PendingWaits` | a timer that runs before its entry is inserted leaves the entry |
| `Hung` | `ComesBack` | a handshake over a dead link that no connect time-out watches |
| `Deaf` | `NothingMissed`, `CatchesUp` | a link that died silently: the stream's client has no read time-out |
| `BehindEnd` | `NothingMissed` | the session stops at the first end it is shown, and the route closes the subscription there: what was published behind it does not arrive |
| `unheard`, `dropped` | `EndIsAhead` | an end that was never published, or that Redis has trimmed |

Three runs show the code doing something else than it says (a finding each, with
the quoted line, in `PROJECT.json`):

| Run | Shows |
|---|---|
| `step_interrupt_lost` | an interrupt saved between the re-read and the save of a step is overwritten, and the following steps run |
| `human_continue` | rejecting one of two pending calls to continue calls the model with the other one unresolved |
| `stream_tool_error` | a tool that throws publishes an `error` event, which ends the user's session while the task goes on |

What the models reach beyond that is listed with the hazards in `PROJECT.json`: two
executors of a step that outlives its lease, an operation that stalls when its worker
is killed between the save and the publish, an operation that its tool's exception stops
without an end, a parked operation whose interrupt
notifies nobody, a check of an earlier park that claims a later one, a claimed resume
whose publish failed, a parent parked for ever because a callback's publish failed, a
terminal event lost for good when its publish throws.  A session that is opened anew on
an operation that went on after an end (an interrupted step, an answered human) stops
at that first end.

Deadlock is not checked: an operation that has ended, a session that is over and a
device that has run out of sockets have no next step.

## Fairness

A worker that has begun keeps going (`WF` on its handler): Node resumes a handler
when its await settles.  The queue makes the deliveries it owes (`WF` per step,
callback and verify that was published), and a lock expires when its holder is dead (`WF` on
`Expire`): Redis enforces the TTL.  Children and members end, unless the model says
they hang: their steps are operations of the same pipeline.  A human answers a call
that is shown as pending (`HumanIntervention`, where the property is what happens
then).  The event loops of the route and of the browser go on, and so do the
gateway's goroutines, its timers and the device's callbacks; one weak fairness
condition over all of them is enough in `DeviceGateway`, because each has finitely
many steps to take within the bounds.  Nothing is assumed of requesters, faults,
duplicates, lapses, users who leave, the network or the application, and no strong
fairness is used.

## Proofs

Every invariant and every action property of the runs is also a theorem, for every
number of workers, requesters, steps, tools, members, calls, events, sockets,
retries and faults: what the runs show on the instances above holds of all of them,
but for the hypotheses in the last column.  None of the properties is inductive.  In
each module `IInv` is the strengthening that is; `InvariantTheorem` proves
`Spec => []IInv` with one lemma per action, and the other theorems follow from it
(that of `StepExecution` is checked by its run, too), those about work in progress
with a second invariant on top.  The assumptions are the named ones of the modules:
bounds are naturals, fault kinds are known ones, and a request is no other message.

| Module | Theorem | States | If |
|---|---|---|---|
| `StepExecution_proofs` | `TypeCorrect` | `Spec => []TypeOK` | `LeaseHolds` |
| | `OneExecutorTheorem`, `ScheduledOnceTheorem`, `EndedStaysEndedTheorem` | `Spec => []` of the property each is named after | `LeaseHolds` |
| | `NoStepDroppedTheorem` | `Spec => []NoStepDropped` | `LeaseHolds` |
| | `LedgerRefinement` | `Spec => ImplementsLedger` | `LeaseHolds` |
| `AsyncToolResume_proofs` | `TypeCorrect` | `Spec => []TypeOK` | |
| | `JoinRefinement` | `Spec => ImplementsJoin` | |
| | `NoLostWakeupTheorem` | `Spec => []NoLostWakeup` | `WatchdogAssumption` |
| | `SingleResumeTheorem` | `Spec => []SingleResume` | `MaxTurn = 1` |
| | `ParkIsHeldTheorem` | `Spec => []ParkIsHeld` | `MaxTurn = 1`, `NothingSwallowed` |
| `GroupMembers_proofs` | `TypeCorrect`, `ReleasedCompleteTheorem`, `ReleasedAsAskedTheorem`, `SupervisorHeldTheorem` | `Spec => []` of each | |
| `HumanIntervention_proofs` | `TypeCorrect`, `RunsOnceTheorem`, `NeverStuckTheorem` | `Spec => []` of each | |
| | `RejectedNeverRunsTheorem`, `ModelWaitsTheorem` | the action property each is named after | |
| `EventStream_proofs` | `TypeCorrect`, `EndIsAheadTheorem`, `NothingMissedTheorem` | `Spec => []` of each | |
| | `FeedRefinement` | `Spec => ImplementsFeed` | |
| `DeviceGateway_proofs` | `TypeCorrect`, `NeverStrandedTheorem`, `PendingWaitsTheorem`, `ListedServesTheorem`, `ConnectedIsListedTheorem` | `Spec => []` of each | |
| | `AnswersKeptTheorem` | `Spec => AnswersKept` | |

Each hypothesis is there because the code does otherwise without it, and each is what
the run that checks the property sets:

- `LeaseHolds`: no lock lapses under a live worker and no claim fails open.  After a
  lapse two workers may execute one step.
- `WatchdogAssumption`: the self-check of the parking step reads its own writes, and a
  verify has as many attempts as there are faults.  That self-check arms no verify, so
  that a stale read there loses a result which came between the save and the row; and
  five stale reads in a row use up the verifies.
- `MaxTurn = 1`: one park.  A check that has loaded an earlier park may win the CAS of a
  later one and publish the earlier turn once more.
- `NothingSwallowed`: the row is written and the claimed turn is published.  A row that
  is not written can never be claimed, and a claim whose publish fails is not undone.

The liveness properties of the runs stay with TLC, but what can go wrong in them for
every size is mostly that something is lost on the way, and that is now proved:
`NoStepDropped` for `StepsHeal`, `NoLostWakeup` and `ParkIsHeld` for `JoinEnds`,
`SupervisorHeld` for `GroupEnds`, `NeverStuck` for `BatchEnds`, `NothingMissed` for
`CatchesUp`, `ConnectedIsListed` for `ComesBack`.  Each says of every reachable state
that somebody still holds what has to go on; that they go on is the fairness.

**StepExecution.**  That two workers never execute at once does not follow from the lock,
because there is a lock per step index: it follows from the lock *and* from the fact
that the message of step i + 1 is published only after step i is in the history, and
once.  `IInv` says so: a worker past the claim holds the lock of its index; the
history's indices are 0, 1, 2, ... and `stepCount` never runs behind it; the messages
published, due, put off and in hand are all of steps up to the length of the history;
and the statuses of the history decide whether a next message may exist.  The
refinement maps every action but the write of a step result to a stutter, and that
write to `Execute`, because its worker, by the invariant, is at the end of the history
and the ledger is not closed.  That no step is dropped rests on which delivery is
acknowledged: its worker has seen the step executed or the operation ended, and holds
the step's lock until it answers, so that neither is taken back (`AnsweredInv`); one that
finds the lock taken is put off, and one that is killed or throws is QStash's to deliver
again.

**AsyncToolResume.**  Neither the barrier nor the CAS shows the join alone, because a
check may hold the state of an earlier park when it wins.  `IInv` says why that is
harmless for the join: a published turn is not ahead of `stepCount`; the turn that runs
is number `stepCount` and runs alone; a parked state names all calls of the turn that
saved it, which makes no more; and a handler past the barrier has all results of the
state it loaded, whichever park that was.  A backfill maps to an arrival, a publish to
the release of a turn.  For one park the right to publish is a token (`TokenInv`): the
message of turn 0 has it, then its worker, the row, the winner of the CAS and the
published message.  With a second park it is not: a stale check may win the CAS of the
later one and publish the earlier turn's step again.  That delivery is skipped, and the
later park has lost its row with nobody to resume it (a hazard in `PROJECT.json`).
For `NoLostWakeup` it does not do that somebody is going to look: a check that has read
its placeholders before the last result came will hold.  `WakeInv` counts the *good*
checks, which have read all results or have yet to read, and among the verifies those
whose attempt is not ahead of the faults so far; once the results are in there is a good
one, and one that meets a fault is delivered again or arms the next verify, or, if that
fails too, leaves the parent `blind`.  For
`ParkIsHeld` the single park goes from the step that writes its row to the row, to the
winner of the CAS, to the published turn, and to the worker of it, without a gap.

**GroupMembers.**  An anchor once filled stays filled only because the placeholders are
deleted when *no* member could be started, and then nobody is left to call back: `IInv`
ties all there is to do (callbacks, time-outs, verifies, handlers) to a member that has
started.  Past the count, the barrier or the group call's fill, all answers are in; and
the park is a token again, through row, CAS and message, with the disposition in it.
`SupervisorHeld` has four parts (`AnswersHeld`, `CountHeld`, `CheckHeld`, `ParkHeld`),
one for each thing that is handed on: a member's answer, the count of the answers, the
check of the barrier and the park.  Each is handed on in one step, from the anchor to the
count, from the count to the group call's fill, from the fill to the check, unless the
handler fails, and then its message is delivered again.

**HumanIntervention.**  Many answers may be under way. Only those level with the saved
state are taken up, taking one up outdates all others, and a call is answered again
only if its message says pending; so a tool runs at most once more than workers were
killed in an answer, and a call that has run, or was rejected, has no approval left
that counts. What a parked operation waits for is all that is missing, unless one of
the six mishaps has happened. `NeverStuck` is the converse, that whom it waits for
can move it: of an operation that waits for the human each pending call has a message
that says so (`AsksHuman`); of one that waits for agents some pending call has yet to
get its result, or the last result has published the resume (`AsksAgents`); any other
has its next step in the queue.  A tool that threw is consistent with all three as long
as its step leaves a next context or a call that the human is shown; where it leaves
neither, that is the mishap `halted`.

**EventStream.**  `IInv` follows the events from the session's cursor through the
current connection's pipe to the id that its subscription reads from: each follows the
one before, with no gap but what Redis has dropped.  An operation that has ended in
Redis has published an end, and a session that was shown one is over, so that a session
that goes on has it ahead, whatever was published behind it (`EndInv`).  `ServedInv` adds where the events come from
that are not shown yet: the subscription has been asked for with the session's cursor,
is reading from behind the pipe, or is over and the client about to find out.  That the
pipe holds *every* event between the cursor and what was read is stated with an index, as
one place for each event (`Covered`), so that no induction over the pipe is needed.

**DeviceGateway.**  `IInv` relates each request's timer to its point, its entry and its
channels: a dispatch arms the timer, and wherever the timer ended it left its mark (a
time-out, an answer, or a failed write, its own or that of a run with its key).  A
connection whose authentication timed out is never one that is attached.  That a result
channel, which has room for one answer, is never sent a second is part of `TypeOK` and
rests on the entry being gone.  `ConnectedIsListed` relates both ends of a socket: an
`auth_success` on its way, or heard, means that the gateway has registered the connection
(`ToldTruly`); a read loop that has returned has left a closed end or a failed link
behind (`GoneSeen`); and what has registered and is not closed is listed, or is the `old`
that another connection is about to close (`ListedOrOld`), because `remove` deletes
nobody else's entry and a time-out closes before it removes.

Only model-checked: every liveness property (`Settles`, `StepsHeal`, `JoinEnds`,
`GroupEnds`, `BatchEnds`, `DispatchEnds`, `ComesBack`, `CatchesUp`,
`SubscriptionsEnd`), because the prover does not reach fairness.  The claims of the
three finding runs are refuted by TLC.

## Not modelled

The rest of the same components, with what keeps it out:

- `startExecution` and `executeSync` (`ARS` 1645 and 2700).  The first is an API that
  saves `running` over any state but a running or ended one and publishes a step, parked
  operations included; nothing in the repository but its route calls it, so no code says
  when it may be called.  The second is a loop around `executeStep` in one process,
  without the queue and without another worker.
- `AbandonOperationService`.  It finalizes an operation and deletes its Redis state.  A
  worker that is still executing recreates that state with its next save, so that what
  the pipeline promises holds up to the abandon only.  `EventStream` has the part of it
  that the user sees: the last event.
- The web application's own approval path (`resumeApproval`), which starts another
  operation, and the group runtime that runs in the browser.
- `GroupMembers` and `AsyncToolResume` are not composed: the group has the parent's
  barrier for its one call.  A group call beside other deferred calls would be the
  conjunction of the two.
- The agent loop's budgets and the executors of `RuntimeExecutors.ts` beyond the status
  they leave behind; which tool calls a model makes.
- Several devices of one user, and which of them a dispatch prefers.
- The agent gateway client (`packages/agent-gateway-client`), whose other end is a
  service outside the repository; client tools (`ToolResultWaiter`, BLPOP with a
  time-out), the edit lock (a lease that is read and then set, and fails open) and the
  task scheduler, each of which is a module of its own.

Out of scope: the contents of messages, prompts, costs and tool results; provider
adapters; the user interfaces; CRUD services.
