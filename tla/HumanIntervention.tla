-------------------------- MODULE HumanIntervention --------------------------
(* A batch of tool calls some of which a human has to approve.  The model's  *)
(* reply is taken apart into calls that run at once and calls that wait; the *)
(* operation parks, answers are published like steps of the operation and    *)
(* executed by the same worker, and the model is called again at the end.    *)
(*                                                                           *)
(* A step is one action: StepExecution shows that the executions of an       *)
(* operation exclude each other.  One batch: what the model replies to its   *)
(* results ends the turn.                                                    *)
EXTENDS Naturals, FiniteSets

CONSTANTS
  Calls,         \* the tool calls of a reply
  Answers,       \* what the human may answer
  Natures,       \* how a tool may behave
  MaxAnswers,    \* bound: how many answers wait in the queue
  MaxAsked,      \* bound: how often the model is called
  MaxFaults,     \* bound: how many faults happen
  Faults         \* "duplicate" (a delivery made twice), "crash" (within an answer),
                 \* "throw" (a tool, or the message it makes: not counted)

\* "reject" halts the operation, "continue" rejects the call alone; a "bare" answer
\* does not name the message of its call, as old clients' do not.
AnswerKinds == {"approve", "reject", "continue", "bare"}

\* A tool returns its result, is deferred to a sub-agent, or first asks for the
\* human's consent to the path it works in.
ToolNatures == {"plain", "deferred", "consent"}

ASSUME AnswersAssumption == Answers \subseteq AnswerKinds
ASSUME NaturesAssumption == Natures \subseteq ToolNatures
ASSUME BoundsAssumption == {MaxAnswers, MaxAsked, MaxFaults} \subseteq Nat
ASSUME FaultsAssumption == Faults \subseteq {"duplicate", "crash", "throw"}

Status == {"running", "waiting_for_human", "waiting_for_async_tool", "interrupted", "done"}
Terminal == {"interrupted", "done"}
Phases == {"user_input", "llm_result", "tool_result", "resume"}

VARIABLES
  state,        \* Redis: status, stepCount, pendingToolsCalling, and the calls
                \* whose placeholder in state.messages says pending
  needs,        \* per call of the reply: does it run at once or ask first?
  nature,       \* per call: how its tool behaves
  intervention, \* per call: its message's intervention status
  result,       \* per call: its message's content
  runs,         \* per call: how often its tool ran
  asked,        \* how often the model was called
  due,          \* queue: the steps and answers to deliver
  mishaps,      \* what happened that the batch does not survive (see Properties)
  faults        \* the faults that happened, numbered

vars == <<state, needs, nature, intervention, result, runs, asked, due, mishaps, faults>>

batch == <<needs, nature>>
messages == <<intervention, result>>

Step(i, phase) == [index |-> i, phase |-> phase]
Answer(i, kind, c) == [index |-> i, answer |-> kind, call |-> c]
IsAnswer(m, kinds) == "answer" \in DOMAIN m /\ m.answer \in kinds
IsStep(m, phase) == "phase" \in DOMAIN m /\ m.phase = phase

Init ==
  /\ state = [status |-> "running", stepCount |-> 0, pending |-> {}, shown |-> {}]
  /\ needs = [c \in Calls |-> "none"]
  /\ nature \in [Calls -> Natures]
  /\ intervention = [c \in Calls |-> "none"]
  /\ result = [c \in Calls |-> "none"]
  /\ runs = [c \in Calls |-> 0]
  /\ asked = 0
  /\ due = {Step(0, "user_input")}
  /\ mishaps = {}
  /\ faults = {}

Fault(kind) ==
  /\ kind \in Faults /\ Cardinality(faults) < MaxFaults
  /\ faults' = faults \cup {<<kind, Cardinality(faults)>>}

-----------------------------------------------------------------------------
(* executeStep.                                                              *)

\* Mutant: a step that was overtaken is executed all the same.
LiveUnlessOver(m) == m \in due /\ state.status \notin Terminal

\* Mutant: so is the one before.
LiveOneBehind(m) ==
  m \in due /\ state.stepCount <= m.index + 1 /\ state.status \notin Terminal

\* Layer 2 and the early exit.
Live(m) ==
  /\ m \in due
  /\ state.stepCount <= m.index
  /\ state.status \notin Terminal

Skip(m) ==
  /\ m \in due /\ ~Live(m)
  /\ due' = due \ {m}
  /\ UNCHANGED <<state, batch, messages, runs, asked, mishaps, faults>>

\* The delivery is done with, or QStash makes it once more.
Done(m, published) ==
  \/ due' = (due \ {m}) \cup published /\ UNCHANGED faults
  \/ due' = due \cup published /\ Fault("duplicate")

\* Mutant: a parked operation's next context is not cleared.
SaveAndPublish(m, s, next) ==
  /\ state' = [s EXCEPT !.stepCount = @ + 1]
  /\ Done(m, {Step(m.index + 1, next)})

\* A step is saved; the next one is published unless the operation is parked.
Save(m, s, next) ==
  /\ state' = [s EXCEPT !.stepCount = @ + 1]
  /\ Done(m, IF s.status = "running" THEN {Step(m.index + 1, next)} ELSE {})

Finish(m, s) ==
  /\ state' = [s EXCEPT !.status = "done"]
  /\ Done(m, {})

Park(m, s, status, pending) ==
  Save(m, [s EXCEPT !.status = status, !.pending = pending], "none")

\* A step without a next context is saved, and nothing is published, even if the
\* status says running.
Halt(m, s) ==
  /\ state' = [s EXCEPT !.stepCount = @ + 1]
  /\ Done(m, {})

-----------------------------------------------------------------------------
(* The agent loop.                                                           *)

NeedsOf(kind) == {c \in Calls : needs[c] = kind}

\* The first reply makes the calls.
CallModel(m, s) ==
  /\ asked < MaxAsked /\ asked' = asked + 1
  /\ IF asked = 0
     THEN \E made \in (SUBSET Calls) \ {{}} : \E ask \in SUBSET made :
            needs' = [c \in Calls |-> IF c \in ask THEN "human"
                                      ELSE IF c \in made THEN "nobody" ELSE "none"]
     ELSE UNCHANGED needs
  /\ Save(m, s, "llm_result")

UserInput(m) ==
  /\ Live(m) /\ IsStep(m, "user_input")
  /\ CallModel(m, state)
  /\ UNCHANGED <<nature, messages, runs, mishaps>>

\* The calls that need nobody run first; if they park the operation, the others
\* are not asked for.  One of several that throws is left without an answer, though
\* its sub-agent may be under way; whether it ran is open, and it counts as run.
RunCallsBut(m, thrown, orphaned) ==
  LET atOnce == NeedsOf("nobody")
      ask == NeedsOf("human")
      Of(kind) == {c \in atOnce \ thrown : nature[c] = kind}
      parked == Of("consent") # {} \/ Of("deferred") # {}
      refreshed == [state EXCEPT !.shown = IF Cardinality(atOnce) > 1
                                           THEN Of("consent") ELSE @]
  IN /\ Live(m) /\ IsStep(m, "llm_result") /\ asked = 1
     /\ thrown # {} => "throw" \in Faults /\ Cardinality(atOnce) > 1
     /\ result' = [c \in Calls |->
          CASE c \in Of("plain") -> "result"
            [] c \in Of("deferred") \cup Of("consent") \cup orphaned -> nature[c]
            [] OTHER -> "none"]
     /\ intervention' = [c \in Calls |->
          IF c \in Of("consent") \/ (c \in ask /\ ~parked) THEN "pending" ELSE "none"]
     /\ runs' = [c \in Calls |-> IF c \in atOnce \ Of("consent") THEN 1 ELSE 0]
     /\ CASE Of("consent") # {} -> Park(m, refreshed, "waiting_for_human", Of("consent"))
          [] Of("consent") = {} /\ Of("deferred") # {} ->
               Park(m, refreshed, "waiting_for_async_tool", Of("deferred"))
          [] ~parked /\ ask # {} -> Park(m, refreshed, "waiting_for_human", ask)
          [] OTHER -> Save(m, refreshed, "tool_result")
     /\ mishaps' = mishaps
          \cup (IF thrown # {} THEN {"threw"} ELSE {})
          \cup (IF parked /\ (Of("deferred") # {}) /\ (ask # {} \/ Of("consent") # {})
                THEN {"deferred"} ELSE IF parked /\ ask # {} THEN {"consent"} ELSE {})
     /\ UNCHANGED <<batch, asked>>

RunCalls(m) ==
  \E thrown \in SUBSET NeedsOf("nobody") :
    \E orphaned \in SUBSET {c \in thrown : nature[c] = "deferred"} :
      RunCallsBut(m, thrown, orphaned)

\* The tool first asks for consent.
Consents(c) == nature[c] = "consent" /\ result[c] = "none"

\* A tool throws before its message says anything, or after: once it is deferred, or
\* has asked for consent, an event is still to be published.
Leaves(c) ==
  {result[c]} \cup (IF nature[c] = "deferred" \/ Consents(c) THEN {nature[c]} ELSE {})

\* The only call that needs nobody throws: its step has no next context, though the
\* others are asked for all the same.
CallThrows(m) ==
  LET ask == NeedsOf("human")
  IN /\ Live(m) /\ IsStep(m, "llm_result") /\ asked = 1 /\ "throw" \in Faults
     /\ \E c \in Calls : \E left \in Leaves(c) :
          /\ NeedsOf("nobody") = {c}
          /\ result' = [d \in Calls |-> IF d = c THEN left ELSE "none"]
          /\ intervention' = [d \in Calls |->
               IF d \in ask \/ (d = c /\ left = "consent") THEN "pending" ELSE "none"]
          /\ runs' = [d \in Calls |-> IF d = c /\ left # "consent" THEN 1 ELSE 0]
     /\ IF ask # {} THEN Park(m, state, "waiting_for_human", ask) ELSE Halt(m, state)
     /\ mishaps' = mishaps \cup {IF ask # {} THEN "threw" ELSE "halted"}
     /\ UNCHANGED <<batch, asked>>

\* Placeholders in state.messages that still say pending park it again.
ToolResult(m) ==
  /\ Live(m) /\ IsStep(m, "tool_result")
  /\ IF state.shown # {}
     THEN Park(m, state, "waiting_for_human", state.shown) /\ UNCHANGED <<needs, asked>>
     ELSE CallModel(m, state)
  /\ UNCHANGED <<nature, messages, runs, mishaps>>

\* A later reply has no calls.
EndTurn(m) ==
  /\ Live(m) /\ IsStep(m, "llm_result") /\ asked > 1
  /\ Finish(m, state)
  /\ UNCHANGED <<batch, messages, runs, asked, mishaps>>

\* The resume of AsyncToolResume: the messages are read again.
ResumeAsyncTool(m) ==
  /\ Live(m) /\ IsStep(m, "resume")
  /\ CallModel(m, [state EXCEPT !.status = "running", !.pending = {},
                                !.shown = {c \in Calls : intervention[c] = "pending"}])
  /\ UNCHANGED <<nature, messages, runs, mishaps>>

\* Mutant: the barrier is checked before the answer is written.
DeferredEndsChecksFirst(c) ==
  /\ result[c] = "deferred"
  /\ result' = [result EXCEPT ![c] = "result"]
  /\ due' = IF /\ state.status = "waiting_for_async_tool"
               /\ \A d \in state.pending : result[d] = "result"
            THEN due \cup {Step(state.stepCount, "resume")} ELSE due
  /\ UNCHANGED <<state, batch, intervention, runs, asked, mishaps, faults>>

\* A sub-agent answers, the barrier is checked and the resume published.
DeferredEnds(c) ==
  /\ result[c] = "deferred"
  /\ result' = [result EXCEPT ![c] = "result"]
  /\ due' = IF /\ state.status = "waiting_for_async_tool"
               /\ \A d \in state.pending : result'[d] = "result"
            THEN due \cup {Step(state.stepCount, "resume")} ELSE due
  /\ UNCHANGED <<state, batch, intervention, runs, asked, mishaps, faults>>

-----------------------------------------------------------------------------
(* processHumanIntervention and HumanInterventionHandler.                    *)

\* Whoever answers saw the call pending, at the step count of that moment.
UserAnswers(c, kind) ==
  /\ intervention[c] = "pending" /\ state.status \notin Terminal
  /\ Cardinality({m \in due : IsAnswer(m, AnswerKinds)}) < MaxAnswers
  /\ due' = due \cup {Answer(state.stepCount, kind, c)}
  /\ due' # due
  /\ UNCHANGED <<state, batch, messages, runs, asked, mishaps, faults>>

\* Mutant: the approval of one call releases the batch.
WithoutReleases(c) == [state EXCEPT !.pending = @ \ {c}, !.status = "running"]

\* Mutant: the approved call stays among the pending ones.
WithoutKeeps(c) == [state EXCEPT !.status = "waiting_for_human"]

\* The call is no longer pending; others may be.
Without(c) ==
  LET rest == state.pending \ {c}
  IN [state EXCEPT !.pending = rest,
                   !.status = IF rest = {} THEN "running" ELSE "waiting_for_human"]

\* An answer the handler takes up.
Taken(m, kinds) == Live(m) /\ state.status = "waiting_for_human" /\ IsAnswer(m, kinds)

\* The approved call runs at once, whatever the others wait for.
Approve(m) ==
  /\ Taken(m, {"approve"})
  /\ LET c == m.call
         s == Without(c)
         consents == Consents(c)
     IN /\ intervention' = [intervention EXCEPT ![c] = IF consents THEN "pending" ELSE "approved"]
        /\ result' = [result EXCEPT ![c] = CASE consents -> "consent"
                                             [] nature[c] = "deferred" -> "deferred"
                                             [] OTHER -> "result"]
        /\ runs' = IF consents THEN runs ELSE [runs EXCEPT ![c] = @ + 1]
        /\ CASE consents -> Park(m, s, "waiting_for_human", {c})
             [] nature[c] = "deferred" -> Park(m, s, "waiting_for_async_tool", {c})
             [] OTHER -> Save(m, [s EXCEPT !.shown = @ \ {c}], "tool_result")
        /\ mishaps' = IF s.pending = {} THEN mishaps
                      ELSE IF consents THEN mishaps \cup {"consent"}
                      ELSE IF nature[c] = "deferred" THEN mishaps \cup {"deferred"} ELSE mishaps
  /\ UNCHANGED <<batch, asked>>

\* The approved tool throws: the call has lost its question and gets no answer, and
\* its step has no next context.  A placeholder that is shown stays so.
ApprovedThrows(m) ==
  /\ Taken(m, {"approve"}) /\ "throw" \in Faults
  /\ LET c == m.call
         s == Without(c)
     IN /\ \E left \in Leaves(c) :
             LET asks == left = "consent" /\ Consents(c)
             IN /\ result' = [result EXCEPT ![c] = left]
                /\ intervention' = [intervention EXCEPT ![c] =
                                      IF asks THEN "pending" ELSE "approved"]
                /\ runs' = IF asks THEN runs ELSE [runs EXCEPT ![c] = @ + 1]
        /\ Halt(m, s)
        /\ mishaps' = mishaps \cup
             {IF s.pending = {} \/ c \in s.shown THEN "halted" ELSE "threw"}
  /\ UNCHANGED <<batch, asked>>

Reject(c) ==
  /\ intervention' = [intervention EXCEPT ![c] = "rejected"]
  /\ result' = [result EXCEPT ![c] = "rejection"]

\* Without a next context the step makes its own, which calls the model.
RejectAndContinue(m) ==
  /\ Taken(m, {"continue"})
  /\ Reject(m.call)
  /\ CallModel(m, Without(m.call))
  /\ mishaps' = IF state.pending \subseteq {m.call} THEN mishaps ELSE mishaps \cup {"continued"}
  /\ UNCHANGED <<nature, runs>>

\* The interrupted status it sets is what makes the step finish the operation.
RejectAndHalt(m) ==
  /\ Taken(m, {"reject"})
  /\ Reject(m.call)
  /\ Finish(m, [state EXCEPT !.pending = @ \ {m.call}])
  /\ UNCHANGED <<batch, runs, asked, mishaps>>

\* An answer the handler does not take up calls the model too.
AnswerIgnored(m) ==
  /\ Live(m) /\ IsAnswer(m, AnswerKinds)
  /\ state.status # "waiting_for_human" \/ IsAnswer(m, {"bare"})
  /\ CallModel(m, state)
  /\ mishaps' = mishaps \cup {"ignored"}
  /\ UNCHANGED <<nature, messages, runs>>

\* The worker is killed when the handler has written the messages, and before
\* the step is saved: the answer is delivered again.
KilledRejecting(m) ==
  /\ Taken(m, {"reject", "continue"})
  /\ Fault("crash")
  /\ Reject(m.call)
  /\ UNCHANGED <<state, batch, runs, asked, due, mishaps>>

\* Or when the approved tool has run.
KilledApproving(m) ==
  /\ Taken(m, {"approve"})
  /\ Fault("crash")
  /\ intervention' = [intervention EXCEPT ![m.call] = "approved"]
  /\ runs' \in {runs, [runs EXCEPT ![m.call] = @ + 1]}
  /\ UNCHANGED <<state, batch, result, asked, due, mishaps>>

Interrupt ==
  /\ state.status \notin Terminal
  /\ state' = [state EXCEPT !.status = "interrupted"]
  /\ UNCHANGED <<batch, messages, runs, asked, due, mishaps, faults>>

-----------------------------------------------------------------------------
Handle(m) ==
  \/ Skip(m)
  \/ UserInput(m) \/ RunCalls(m) \/ CallThrows(m) \/ ToolResult(m) \/ EndTurn(m)
  \/ ResumeAsyncTool(m)
  \/ Approve(m) \/ ApprovedThrows(m) \/ RejectAndContinue(m) \/ RejectAndHalt(m)
  \/ AnswerIgnored(m)

Next ==
  \/ \E m \in due : Handle(m) \/ KilledRejecting(m) \/ KilledApproving(m)
  \/ \E c \in Calls : DeferredEnds(c) \/ \E kind \in Answers : UserAnswers(c, kind)
  \/ Interrupt

Spec == Init /\ [][Next]_vars

\* The queue delivers, sub-agents end, and a call that is shown as pending gets an
\* answer, again if the last one had no effect.
Fairness ==
  /\ WF_vars(\E m \in due : Handle(m))
  /\ \A c \in Calls : WF_vars(DeferredEnds(c))
  /\ \A c \in Calls : WF_vars(\E kind \in Answers : UserAnswers(c, kind))

FairSpec == Spec /\ Fairness

-----------------------------------------------------------------------------
(* Properties.                                                               *)

TypeOK ==
  /\ state \in [status : Status, stepCount : Nat, pending : SUBSET Calls,
                shown : SUBSET Calls]
  /\ needs \in [Calls -> {"none", "nobody", "human"}]
  /\ nature \in [Calls -> Natures]
  /\ intervention \in [Calls -> {"none", "pending", "approved", "rejected"}]
  /\ result \in [Calls -> {"none", "consent", "deferred", "result", "rejection"}]
  /\ runs \in [Calls -> Nat] /\ asked \in Nat
  /\ faults \subseteq {"duplicate", "crash"} \X Nat
  /\ \A m \in due : m.index \in Nat /\ (IsAnswer(m, AnswerKinds) \/ m.phase \in Phases)
  /\ mishaps \subseteq {"deferred", "consent", "continued", "ignored", "threw", "halted"}

Answered(c) == needs[c] = "none" \/ result[c] \in {"result", "rejection"}

\* A tool runs once at most, however often its call is approved, by whomever and
\* from whatever view of the batch: of the answers to one view only one counts.
\* A worker killed while it runs one makes it run again.
RunsOnce == \A c \in Calls : runs[c] <= 1 + Cardinality({f \in faults : f[1] = "crash"})

\* A call for the human runs on an approval, and never once its rejection is saved:
\* a rejection whose worker was killed may still wait to be delivered again.
RejectedNeverRuns ==
  [][\A c \in Calls : runs'[c] > runs[c] /\ needs[c] = "human" =>
       \/ intervention[c] # "rejected"
       \/ \E m \in due : Live(m) /\ IsAnswer(m, {"reject", "continue"}) /\ m.call = c]_vars

\* The model is called when every call of its batch has an answer.  Except after:
\* a call was rejected to continue while others were pending ("continued"); an
\* answer was not taken up ("ignored"); a call was deferred, or a path had to be
\* consented to, beside calls for the human; a tool threw ("threw", "halted").
ModelWaits ==
  [][asked' > asked /\ asked > 0 /\ mishaps' = {} => \A c \in Calls : Answered(c)']_vars

Killed == \E f \in faults : f[1] = "crash"

\* A tool that threw, too, leaves its operation somebody to go on with: the model, or
\* the human whom the others wait for.  Unless it was called alone, or approved last.
Survived == mishaps \subseteq {"threw"} /\ ~Killed

\* A batch whose calls get their answers comes to an end, but for the other mishaps;
\* and but for a worker killed within an answer: its messages show an answer that is
\* not in the state, and another answer to the same view may overtake it.
BatchEnds == <>(state.status \in Terminal \/ ~Survived)

\* But for the same, whatever is under way is waited for by somebody who can move it:
\* an operation that is not over has a step or an answer to take up, or is parked on
\* a sub-agent that has not answered, or on a call whose message asks the human.
NeverStuck ==
  Survived /\ state.status \notin Terminal =>
    \/ \E m \in due : Live(m)
    \/ /\ state.status = "waiting_for_async_tool"
       /\ \E c \in state.pending : result[c] = "deferred"
    \/ /\ state.status = "waiting_for_human"
       /\ \E c \in state.pending : intervention[c] = "pending"

\* The handler's comment: the model is not resumed with an unresolved batch.
ModelSeesWholeBatch ==
  [][asked' > asked /\ asked > 0 => \A c \in Calls : Answered(c)']_vars
=============================================================================
