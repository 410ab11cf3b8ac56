----------------------- MODULE HumanIntervention_proofs -----------------------
(* Theorems about HumanIntervention, for any calls, answers, natures, bounds  *)
(* and faults: a tool runs once, a rejected one never, and the model waits    *)
(* for its batch.  An answer is a message of the queue, and many may be under *)
(* way, to one call or several: the inductive invariant says that only those  *)
(* to the last saved state are taken up, that taking one up outdates all the  *)
(* others, and that nobody answers a call again unless its message says       *)
(* pending.                                                                   *)
EXTENDS HumanIntervention, FiniteSetTheorems, TLAPS

Messages ==
  [index : Nat, phase : Phases] \cup [index : Nat, answer : AnswerKinds, call : Calls]

States ==
  [status : Status, stepCount : Nat, pending : SUBSET Calls, shown : SUBSET Calls]

\* No message is ahead of the state, so that the live ones are level with it.
DueInv == due \subseteq Messages /\ \A m \in due : m.index <= state.stepCount

\* Faults are numbered from 0.
FaultsInv ==
  /\ IsFiniteSet(faults) /\ faults \subseteq {"duplicate", "crash"} \X Nat
  /\ \A f \in faults : f[2] < Cardinality(faults)

MishapKinds == {"deferred", "consent", "continued", "ignored", "threw", "halted"}

TypeInv ==
  /\ state \in States
  /\ needs \in [Calls -> {"none", "nobody", "human"}]
  /\ nature \in [Calls -> Natures]
  /\ intervention \in [Calls -> {"none", "pending", "approved", "rejected"}]
  /\ result \in [Calls -> {"none", "consent", "deferred", "result", "rejection"}]
  /\ runs \in [Calls -> Nat] /\ asked \in Nat
  /\ mishaps \subseteq MishapKinds

\* The model is first called by the first step.
BeginInv ==
  /\ asked = 0 <=> state.stepCount = 0
  /\ \A m \in due : IsStep(m, "user_input") => m.index = 0
  /\ asked = 0 =>
       /\ state.status \in {"running", "interrupted"}
       /\ due \subseteq {Step(0, "user_input")}
       /\ \A c \in Calls : intervention[c] = "none" /\ result[c] = "none" /\ runs[c] = 0

Crashes == Cardinality({f \in faults : f[1] = "crash"})

LiveAnswer(m, kinds, c) == Live(m) /\ IsAnswer(m, kinds) /\ m.call = c

\* A call may yet run on an approval that is, or may be, under way.
Chance(c) == intervention[c] = "pending" \/ \E m \in due : LiveAnswer(m, AnswerKinds, c)

\* It has not run then, but for a worker that was killed.
RunsInv ==
  \A c \in Calls : /\ runs[c] <= 1 + Crashes
                   /\ Chance(c) => runs[c] <= Crashes

\* A rejected call whose answers still count has its rejection among them.
RejectedInv ==
  \A c \in Calls :
    intervention[c] = "rejected" /\ (\E m \in due : LiveAnswer(m, AnswerKinds, c)) =>
      \E m \in due : LiveAnswer(m, {"reject", "continue"}, c)

AllAnswered == \A c \in Calls : Answered(c)

\* What a parked operation waits for is all that is missing, and when it is
\* released nothing is.
WaitInv ==
  mishaps = {} =>
    /\ state.status \in {"waiting_for_human", "waiting_for_async_tool"} =>
         \A c \in Calls : Answered(c) \/ c \in state.pending
    /\ \A m \in due :
         Live(m) => /\ IsStep(m, "tool_result") => AllAnswered
                    /\ IsStep(m, "resume") => AllAnswered

IInv ==
  TypeInv /\ FaultsInv /\ DueInv /\ BeginInv /\ RunsInv /\ RejectedInv /\ WaitInv

-----------------------------------------------------------------------------
\* Messages.

\* What a message tells.
LEMMA MessageTypes ==
  ASSUME NEW m \in Messages
  PROVE  /\ m.index \in Nat
         /\ \/ IsAnswer(m, AnswerKinds) /\ m.call \in Calls
            \/ m.phase \in Phases
         /\ \A kinds : IsAnswer(m, kinds) => m.call \in Calls
         /\ \A phase : IsStep(m, phase) => m.phase = phase
BY DEF Messages, IsAnswer, IsStep

\* Steps are messages, and not answers.
LEMMA StepMade ==
  ASSUME NEW i \in Nat, NEW phase \in Phases
  PROVE  /\ Step(i, phase) \in Messages /\ Step(i, phase).index = i
         /\ \A kinds : ~IsAnswer(Step(i, phase), kinds)
         /\ \A other : IsStep(Step(i, phase), other) <=> phase = other
BY DEF Step, Messages, IsAnswer, IsStep

\* Answers are messages, and not steps.
LEMMA AnswerMade ==
  ASSUME NEW i \in Nat, NEW kind \in AnswerKinds, NEW c \in Calls
  PROVE  /\ Answer(i, kind, c) \in Messages /\ Answer(i, kind, c).index = i
         /\ \A kinds : IsAnswer(Answer(i, kind, c), kinds) => kind \in kinds
         /\ Answer(i, kind, c).call = c
         /\ \A phase : ~IsStep(Answer(i, kind, c), phase)
BY DEF Answer, Messages, IsAnswer, IsStep

\* A live message is level with the state.
LEMMA LiveLevel ==
  ASSUME IInv, NEW m, Live(m)
  PROVE  /\ m \in due /\ m \in Messages /\ m.index = state.stepCount /\ m.index \in Nat
         /\ state.status \notin Terminal
<1>1. m \in due /\ m \in Messages /\ m.index <= state.stepCount
  BY DEF Live, IInv, DueInv
<1>2. m.index \in Nat /\ state.stepCount \in Nat
  BY <1>1, MessageTypes DEF IInv, TypeInv, States
<1> QED BY <1>1, <1>2 DEF Live

-----------------------------------------------------------------------------
\* Faults.

CrashesOf(set) == {f \in set : f[1] = "crash"}

\* A fault is a new one.
LEMMA FaultKept ==
  ASSUME FaultsInv, NEW kind \in {"duplicate", "crash"}, Fault(kind)
  PROVE  /\ FaultsInv' /\ Crashes \in Nat
         /\ kind = "duplicate" => Crashes' = Crashes
         /\ kind = "crash" => Crashes' = Crashes + 1
<1> DEFINE n == Cardinality(faults)
           f == <<kind, n>>
           Old == CrashesOf(faults)
           New == CrashesOf(faults')
<1>1. n \in Nat /\ IsFiniteSet(faults)
  BY FS_CardinalityType DEF FaultsInv
<1>2. f \notin faults /\ f[1] = kind /\ f[2] = n
  BY <1>1 DEF FaultsInv
<1>3. faults' = faults \cup {f}
  BY DEF Fault
<1>4. IsFiniteSet(faults') /\ Cardinality(faults') = n + 1
  BY <1>1, <1>2, <1>3, FS_AddElement
<1>5. \A g \in faults' : g[2] < n + 1
  <2>1. \A g \in faults : g[2] \in Nat /\ g[2] < n
    BY DEF FaultsInv
  <2> QED BY <1>1, <1>2, <1>3, <2>1
<1>6. FaultsInv'
  <2>1. f \in {"duplicate", "crash"} \X Nat
    BY <1>1
  <2> QED BY <1>3, <1>4, <1>5, <2>1 DEF FaultsInv
<1>7. IsFiniteSet(Old) /\ Cardinality(Old) \in Nat
  BY <1>1, FS_Subset, FS_CardinalityType DEF CrashesOf
<1>8. kind = "duplicate" => New = Old
  BY <1>2, <1>3 DEF CrashesOf
<1>9. kind = "crash" => New = Old \cup {f}
  BY <1>2, <1>3 DEF CrashesOf
<1>10. kind = "crash" => Cardinality(New) = Cardinality(Old) + 1
  <2>1. f \notin Old
    BY <1>2 DEF CrashesOf
  <2> QED BY <1>7, <1>9, <2>1, FS_AddElement
<1>11. Crashes = Cardinality(Old) /\ Crashes' = Cardinality(New)
  BY DEF Crashes, CrashesOf
<1> QED BY <1>6, <1>7, <1>8, <1>10, <1>11

\* What happens without one.
LEMMA NoFault ==
  ASSUME FaultsInv, UNCHANGED faults
  PROVE  FaultsInv' /\ Crashes' = Crashes
BY DEF FaultsInv, Crashes

\* Crashes are counted.
LEMMA CrashesNat == FaultsInv => Crashes \in Nat
<1> SUFFICES ASSUME FaultsInv PROVE Crashes \in Nat
  OBVIOUS
<1>1. IsFiniteSet({f \in faults : f[1] = "crash"})
  BY FS_Subset DEF FaultsInv
<1> QED BY <1>1, FS_CardinalityType DEF Crashes

\* A delivery is done with, or made once more.
LEMMA DoneKept ==
  ASSUME FaultsInv, NEW m, NEW published, Done(m, published)
  PROVE  /\ FaultsInv' /\ Crashes' = Crashes
         /\ due' \subseteq due \cup published
BY FaultKept, NoFault DEF Done

-----------------------------------------------------------------------------
\* A step is saved: it outdates all that is due but the step it publishes.

Waits == {"waiting_for_human", "waiting_for_async_tool"}

Advances(m, next) ==
  /\ Live(m)
  /\ state' \in States /\ state'.stepCount = state.stepCount + 1
  /\ state'.status = "running" => next \in Phases \ {"user_input"}
  /\ Done(m, IF state'.status = "running" THEN {Step(m.index + 1, next)} ELSE {})

\* Saving is such a step.
LEMMA SaveAdvances ==
  ASSUME NEW m, Live(m), NEW s \in States, NEW next, s.stepCount = state.stepCount,
         s.status = "running" => next \in Phases \ {"user_input"}, Save(m, s, next)
  PROVE  /\ Advances(m, next)
         /\ state'.status = s.status /\ state'.pending = s.pending /\ state'.shown = s.shown
<1>1. state' = [s EXCEPT !.stepCount = @ + 1]
  BY DEF Save
<1>2. state' = [status |-> s.status, stepCount |-> s.stepCount + 1, pending |-> s.pending,
                shown |-> s.shown]
  BY <1>1 DEF States
<1>3. state' \in States
  BY <1>2 DEF States
<1>4. /\ state'.status = s.status /\ state'.pending = s.pending /\ state'.shown = s.shown
      /\ state'.stepCount = state.stepCount + 1
  BY <1>2
<1> QED BY <1>3, <1>4 DEF Save, Advances

\* Parking saves a step, and publishes none.
LEMMA ParkAdvances ==
  ASSUME NEW m, Live(m), NEW s \in States, s.stepCount = state.stepCount,
         NEW status \in Waits, NEW pending \in SUBSET Calls, Park(m, s, status, pending)
  PROVE  /\ Advances(m, "none")
         /\ state'.status = status /\ state'.pending = pending /\ state'.shown = s.shown
<1>1. PICK r : r = [s EXCEPT !.status = status, !.pending = pending]
  OBVIOUS
<1>2. /\ r \in States /\ r.stepCount = state.stepCount
      /\ r.status = status /\ r.pending = pending /\ r.shown = s.shown
  BY <1>1 DEF States, Waits, Status
<1>3. Save(m, r, "none") /\ r.status # "running"
  BY <1>1, <1>2 DEF Park, Waits
<1> QED BY <1>2, <1>3, SaveAdvances

\* What is due then, and of that what is live.
LEMMA Outdates ==
  ASSUME IInv, NEW m, NEW next, Advances(m, next)
  PROVE  /\ DueInv' /\ FaultsInv' /\ Crashes' = Crashes
         /\ state'.stepCount \in Nat \ {0}
         /\ \A n \in due' : IsStep(n, "user_input") => n.index = 0
         /\ \A n \in due' : Live(n)' => /\ state'.status = "running"
                                        /\ \A kinds : ~IsAnswer(n, kinds)
                                        /\ \A phase : IsStep(n, phase) => phase = next
<1> DEFINE i == m.index + 1
           published == IF state'.status = "running" THEN {Step(i, next)} ELSE {}
<1>1. FaultsInv' /\ Crashes' = Crashes /\ due' \subseteq due \cup published
  BY DoneKept DEF Advances, IInv
<1>2. i = state'.stepCount /\ i \in Nat /\ i > 0 /\ state.stepCount = i - 1
  BY LiveLevel DEF Advances
<1>3. \A n \in published :
        /\ n \in Messages /\ n.index = i /\ state'.status = "running"
        /\ \A kinds : ~IsAnswer(n, kinds)
        /\ \A phase : IsStep(n, phase) => phase = next
        /\ ~IsStep(n, "user_input")
  BY <1>2, StepMade DEF Advances
<1>4. \A n \in due : n \in Messages /\ n.index \in Nat /\ n.index < i
  BY <1>2, MessageTypes DEF IInv, DueInv
<1> HIDE DEF published, i
<1>5. DueInv'
  BY <1>1, <1>2, <1>3, <1>4 DEF DueInv
<1>6. \A n \in due' : IsStep(n, "user_input") => n.index = 0
  BY <1>1, <1>3 DEF IInv, BeginInv
<1>7. ASSUME NEW n \in due', Live(n)' PROVE n \in published
  BY <1>1, <1>2, <1>4, <1>7 DEF Live
<1> QED BY <1>1, <1>2, <1>3, <1>5, <1>6, <1>7

\* So that the invariant is about the calls alone.
LEMMA AdvanceKept ==
  ASSUME IInv, NEW m, NEW next, Advances(m, next), TypeInv', asked' > 0,
         \A c \in Calls : /\ runs'[c] <= 1 + Crashes
                          /\ intervention'[c] = "pending" => runs'[c] <= Crashes,
         mishaps' = {} =>
           /\ state'.status \in Waits => \A c \in Calls : Answered(c)' \/ c \in state'.pending
           /\ state'.status = "running" /\ next \in {"tool_result", "resume"} => AllAnswered'
  PROVE  IInv'
<1>1. /\ DueInv' /\ FaultsInv' /\ Crashes' = Crashes
      /\ state'.stepCount \in Nat \ {0}
      /\ \A n \in due' : IsStep(n, "user_input") => n.index = 0
      /\ \A n \in due' : Live(n)' => /\ state'.status = "running"
                                     /\ \A kinds : ~IsAnswer(n, kinds)
                                     /\ \A phase : IsStep(n, phase) => phase = next
  BY Outdates
<1>2. BeginInv'
  BY <1>1 DEF BeginInv, TypeInv
<1>3. \A c \in Calls : ~(\E n \in due' : LiveAnswer(n, AnswerKinds, c)')
  BY <1>1 DEF LiveAnswer
<1>4. RunsInv'
  BY <1>1, <1>3 DEF RunsInv, Chance
<1>5. RejectedInv'
  BY <1>3 DEF RejectedInv
<1>6. WaitInv'
  BY <1>1 DEF WaitInv, Waits
<1> QED BY <1>1, <1>2, <1>4, <1>5, <1>6 DEF IInv

\* A step without a next context, that publishes nothing: nothing counts after it.
Halts(m) ==
  /\ Live(m)
  /\ state' \in States /\ state'.stepCount = state.stepCount + 1
  /\ Done(m, {})

\* Halting is such a step.
LEMMA HaltHalts ==
  ASSUME NEW m, Live(m), NEW s \in States, s.stepCount = state.stepCount, Halt(m, s)
  PROVE  /\ Halts(m) /\ state'.status = s.status
         /\ state'.pending = s.pending /\ state'.shown = s.shown
<1>1. state' = [s EXCEPT !.stepCount = @ + 1] /\ Done(m, {})
  BY DEF Halt
<1>2. state' = [status |-> s.status, stepCount |-> s.stepCount + 1, pending |-> s.pending,
                shown |-> s.shown]
  BY <1>1 DEF States
<1>3. state' \in States
  BY <1>2 DEF States
<1> QED BY <1>1, <1>2, <1>3 DEF Halts

\* What was due is outdated.
LEMMA HaltOutdates ==
  ASSUME IInv, NEW m, Halts(m)
  PROVE  /\ FaultsInv' /\ Crashes' = Crashes /\ due' \subseteq due
         /\ state.stepCount \in Nat
         /\ \A n \in due' : ~Live(n)'
<1>1. FaultsInv' /\ Crashes' = Crashes /\ due' \subseteq due
  BY DoneKept DEF Halts, IInv
<1>2. state.stepCount \in Nat /\ state'.stepCount = state.stepCount + 1
  BY LiveLevel DEF Halts
<1>3. \A n \in due : n.index \in Nat /\ n.index <= state.stepCount
  BY MessageTypes DEF IInv, DueInv
<1>4. \A n \in due' : ~Live(n)'
  BY <1>1, <1>2, <1>3 DEF Live
<1> QED BY <1>1, <1>2, <1>4

\* So that the invariant, again, is about the calls alone.
LEMMA HaltKept ==
  ASSUME IInv, NEW m, Halts(m), TypeInv', asked' > 0, mishaps' # {},
         \A c \in Calls : /\ runs'[c] <= 1 + Crashes
                          /\ intervention'[c] = "pending" => runs'[c] <= Crashes
  PROVE  IInv'
<1>1. /\ FaultsInv' /\ Crashes' = Crashes /\ due' \subseteq due
      /\ state.stepCount \in Nat
      /\ \A n \in due' : ~Live(n)'
  BY HaltOutdates
<1>2. state'.stepCount = state.stepCount + 1
  BY DEF Halts
<1>3. DueInv'
  <2>1. \A n \in due' : n \in Messages /\ n.index \in Nat /\ n.index <= state.stepCount
    BY <1>1, MessageTypes DEF IInv, DueInv
  <2> QED BY <1>1, <1>2, <2>1 DEF DueInv
<1>4. BeginInv'
  <2>1. asked' # 0 /\ state'.stepCount # 0
    BY <1>1, <1>2 DEF TypeInv
  <2> QED BY <1>1, <2>1 DEF IInv, BeginInv
<1>5. RunsInv'
  BY <1>1 DEF RunsInv, Chance, LiveAnswer
<1>6. RejectedInv'
  BY <1>1 DEF RejectedInv, LiveAnswer
<1>7. WaitInv'
  BY DEF WaitInv
<1> QED BY <1>1, <1>3, <1>4, <1>5, <1>6, <1>7 DEF IInv

-----------------------------------------------------------------------------
\* The operation is created.
LEMMA InitInv == Init => IInv
<1> SUFFICES ASSUME Init PROVE IInv
  OBVIOUS
<1>1. TypeInv
  BY DEF Init, TypeInv, States, Status
<1>2. FaultsInv /\ Crashes = 0
  <2>1. faults = {} /\ {f \in faults : f[1] = "crash"} = {}
    BY DEF Init
  <2> QED BY <2>1, FS_EmptySet DEF FaultsInv, Crashes
<1>3. due = {Step(0, "user_input")} /\ "user_input" \in Phases /\ state.stepCount = 0
  BY DEF Init, Phases
<1>4. DueInv
  BY <1>3, StepMade DEF DueInv
<1>5. BeginInv
  BY <1>3, StepMade DEF Init, BeginInv
<1>6. \A c \in Calls : ~(\E m \in due : LiveAnswer(m, AnswerKinds, c))
  BY <1>3, StepMade DEF LiveAnswer
<1>7. RunsInv
  BY <1>2, <1>6 DEF Init, RunsInv, Chance
<1>8. RejectedInv
  BY <1>6 DEF RejectedInv
<1>9. WaitInv
  BY <1>3, StepMade DEF Init, WaitInv
<1> QED BY <1>1, <1>2, <1>4, <1>5, <1>7, <1>8, <1>9 DEF IInv

-----------------------------------------------------------------------------
\* The steps of the agent loop.

\* A step that is live after the first has seen the model called.
LEMMA Called ==
  ASSUME IInv, NEW m, Live(m), ~IsStep(m, "user_input")
  PROVE  asked > 0 /\ asked \in Nat
<1>1. asked \in Nat /\ m \in due
  BY LiveLevel DEF IInv, TypeInv
<1>2. IsStep(Step(0, "user_input"), "user_input")
  BY StepMade DEF Phases
<1>3. asked # 0
  BY <1>1, <1>2 DEF IInv, BeginInv
<1> QED BY <1>1, <1>3

\* Calling the model saves a step, and no other reply makes calls.
LEMMA CallSaves ==
  ASSUME IInv, NEW m, Live(m), NEW s \in States, s.stepCount = state.stepCount,
         CallModel(m, s)
  PROVE  /\ Advances(m, "llm_result")
         /\ state'.status = s.status /\ state'.pending = s.pending /\ state'.shown = s.shown
         /\ asked' \in Nat /\ asked' > 0
         /\ needs' \in [Calls -> {"none", "nobody", "human"}]
         /\ asked > 0 => needs' = needs
<1>1. asked \in Nat /\ asked' = asked + 1
  BY DEF CallModel, IInv, TypeInv
<1>2. Save(m, s, "llm_result")
  BY DEF CallModel
<1>3. "llm_result" \in Phases \ {"user_input"}
  BY DEF Phases
<1>4. /\ Advances(m, "llm_result")
      /\ state'.status = s.status /\ state'.pending = s.pending /\ state'.shown = s.shown
  BY <1>2, <1>3, SaveAdvances
<1>5. needs' \in [Calls -> {"none", "nobody", "human"}]
  BY DEF CallModel, IInv, TypeInv
<1>6. asked > 0 => needs' = needs
  BY DEF CallModel
<1> QED BY <1>1, <1>4, <1>5, <1>6

\* What has not run, by what is known of it.
LEMMA RunsKept ==
  ASSUME IInv, UNCHANGED runs,
         \A c \in Calls : intervention'[c] = "pending" => intervention[c] = "pending"
  PROVE  \A c \in Calls : /\ runs'[c] <= 1 + Crashes
                          /\ intervention'[c] = "pending" => runs'[c] <= Crashes
BY DEF IInv, RunsInv, Chance

\* The first call of the model: nothing is known of calls yet.
LEMMA UserInputInv ==
  ASSUME IInv, NEW m, UserInput(m)
  PROVE  IInv'
<1>1. Live(m) /\ CallModel(m, state) /\ UNCHANGED <<nature, messages, runs, mishaps>>
  BY DEF UserInput
<1>2. state \in States
  BY DEF IInv, TypeInv
<1>3. state.stepCount = 0 /\ asked = 0
  BY LiveLevel DEF UserInput, IInv, BeginInv
<1>4. state.status = "running"
  BY <1>1, <1>3 DEF Live, Terminal, IInv, BeginInv
<1>5. PICK s \in States : s = state
  BY <1>2
<1>6. /\ Advances(m, "llm_result") /\ state'.status = s.status
      /\ asked' \in Nat /\ asked' > 0
      /\ needs' \in [Calls -> {"none", "nobody", "human"}]
  BY <1>1, <1>5, CallSaves
<1>7. TypeInv'
  BY <1>1, <1>6 DEF TypeInv, IInv, Advances, messages
<1>8. state'.status \notin Waits
  BY <1>4, <1>5, <1>6 DEF Waits
<1>9. \A c \in Calls : /\ runs'[c] <= 1 + Crashes
                       /\ intervention'[c] = "pending" => runs'[c] <= Crashes
  BY <1>1, RunsKept DEF messages
<1> QED BY <1>6, <1>7, <1>8, <1>9, AdvanceKept

\* The model's first reply is taken apart.
LEMMA RunCallsInv ==
  ASSUME IInv, NEW m,
         NEW thrown \in SUBSET NeedsOf("nobody"),
         NEW orphaned \in SUBSET {c \in thrown : nature[c] = "deferred"},
         RunCallsBut(m, thrown, orphaned)
  PROVE  IInv'
<1> DEFINE atOnce == NeedsOf("nobody")
           ask == NeedsOf("human")
           consent == {c \in atOnce \ thrown : nature[c] = "consent"}
           deferred == {c \in atOnce \ thrown : nature[c] = "deferred"}
           plain == {c \in atOnce \ thrown : nature[c] = "plain"}
           parked == consent # {} \/ deferred # {}
           refreshed == [state EXCEPT !.shown = IF Cardinality(atOnce) > 1
                                                THEN consent ELSE @]
<1>1. /\ Live(m) /\ asked = 1
      /\ result' = [c \in Calls |-> CASE c \in plain -> "result"
                                      [] c \in deferred \cup consent \cup orphaned -> nature[c]
                                      [] OTHER -> "none"]
      /\ intervention' = [c \in Calls |->
           IF c \in consent \/ (c \in ask /\ ~parked) THEN "pending" ELSE "none"]
      /\ runs' = [c \in Calls |-> IF c \in atOnce \ consent THEN 1 ELSE 0]
      /\ CASE consent # {} -> Park(m, refreshed, "waiting_for_human", consent)
           [] consent = {} /\ deferred # {} ->
                Park(m, refreshed, "waiting_for_async_tool", deferred)
           [] ~parked /\ ask # {} -> Park(m, refreshed, "waiting_for_human", ask)
           [] OTHER -> Save(m, refreshed, "tool_result")
      /\ mishaps' = mishaps
           \cup (IF thrown # {} THEN {"threw"} ELSE {})
           \cup (IF parked /\ (deferred # {}) /\ (ask # {} \/ consent # {})
                 THEN {"deferred"} ELSE IF parked /\ ask # {} THEN {"consent"} ELSE {})
      /\ UNCHANGED <<batch, asked>>
  BY DEF RunCallsBut
<1>2. /\ state \in States /\ nature \in [Calls -> ToolNatures] /\ Crashes \in Nat
      /\ needs \in [Calls -> {"none", "nobody", "human"}]
      /\ mishaps \subseteq MishapKinds
  BY NaturesAssumption, CrashesNat DEF IInv, TypeInv
<1>3. /\ consent \subseteq Calls /\ deferred \subseteq Calls /\ ask \subseteq Calls
      /\ \A c \in Calls : /\ c \in atOnce <=> needs[c] = "nobody"
                          /\ c \in ask <=> needs[c] = "human"
                          /\ c \in atOnce \ thrown => c \in plain \/ c \in deferred \/ c \in consent
  BY <1>2 DEF NeedsOf, ToolNatures
<1>4. /\ refreshed \in States /\ refreshed.stepCount = state.stepCount
      /\ refreshed.status = state.status
  BY <1>2, <1>3 DEF States
<1>5. \A c \in Calls : /\ result'[c] \in {"none", "consent", "deferred", "result", "rejection"}
                       /\ c \in plain => result'[c] = "result"
  BY <1>1, <1>2
<1>6. \A c \in Calls : /\ runs'[c] <= 1 + Crashes
                       /\ intervention'[c] = "pending" => runs'[c] <= Crashes
  BY <1>1, <1>2, <1>3
<1> DEFINE Next4(status, pending, next) ==
             /\ Advances(m, next) /\ state'.status = status /\ state'.pending = pending
<1>7. \/ consent # {} /\ Next4("waiting_for_human", consent, "none")
      \/ consent = {} /\ deferred # {} /\ Next4("waiting_for_async_tool", deferred, "none")
      \/ ~parked /\ ask # {} /\ Next4("waiting_for_human", ask, "none")
      \/ ~parked /\ ask = {} /\ Advances(m, "tool_result")
  <2>1. ASSUME NEW status \in Waits, NEW pending \in SUBSET Calls,
               Park(m, refreshed, status, pending)
        PROVE  Next4(status, pending, "none")
    <3>1. PICK s : s = [refreshed EXCEPT !.status = status, !.pending = pending]
      OBVIOUS
    <3>2. /\ s \in States /\ s.stepCount = state.stepCount
          /\ s.status = status /\ s.pending = pending
      BY <1>4, <3>1 DEF States, Waits, Status
    <3>3. Save(m, s, "none")
      BY <2>1, <3>1 DEF Park
    <3>4. s.status # "running"
      BY <3>2 DEF Waits
    <3> HIDE DEF refreshed
    <3> QED BY <1>1, <3>2, <3>3, <3>4, SaveAdvances
  <2>2. ASSUME Save(m, refreshed, "tool_result") PROVE Advances(m, "tool_result")
    <3>1. PICK s \in States : s = refreshed
      BY <1>4
    <3>2. "tool_result" \in Phases \ {"user_input"}
      BY DEF Phases
    <3> HIDE DEF refreshed
    <3> QED BY <1>1, <1>4, <2>2, <3>1, <3>2, SaveAdvances
  <2>3. PICK c1 \in SUBSET Calls, c2 \in SUBSET Calls, c3 \in SUBSET Calls :
          c1 = consent /\ c2 = deferred /\ c3 = ask
    BY <1>3
  <2>4. "waiting_for_human" \in Waits /\ "waiting_for_async_tool" \in Waits
    BY DEF Waits
  <2> HIDE DEF refreshed, consent, deferred, ask, Next4
  <2>5. CASE consent # {}
    BY <1>1, <2>1, <2>3, <2>4, <2>5
  <2>6. CASE consent = {} /\ deferred # {}
    BY <1>1, <2>1, <2>3, <2>4, <2>6
  <2>7. CASE ~parked /\ ask # {}
    BY <1>1, <2>1, <2>3, <2>4, <2>7
  <2>8. CASE ~parked /\ ask = {}
    BY <1>1, <2>2, <2>8
  <2> QED BY <2>5, <2>6, <2>7, <2>8
<1>8. TypeInv'
  <2>1. state' \in States
    BY <1>7 DEF Advances
  <2>2. runs' \in [Calls -> Nat]
    BY <1>1
  <2>3. result' \in [Calls -> {"none", "consent", "deferred", "result", "rejection"}]
    BY <1>1, <1>5
  <2>4. intervention' \in [Calls -> {"none", "pending", "approved", "rejected"}]
    BY <1>1
  <2>5. mishaps' \subseteq MishapKinds
    BY <1>1, <1>2 DEF MishapKinds
  <2>6. UNCHANGED <<needs, nature, asked>>
    BY <1>1 DEF batch
  <2> QED BY <2>1, <2>2, <2>3, <2>4, <2>5, <2>6 DEF TypeInv, IInv
<1>9. needs' = needs /\ asked' = 1
  BY <1>1 DEF batch
<1>10. ASSUME mishaps' = {}
       PROVE  /\ state'.status \in Waits => \A c \in Calls : Answered(c)' \/ c \in state'.pending
              /\ ~parked /\ ask = {} => AllAnswered'
  <2>1. /\ thrown = {}
        /\ parked => ask = {} /\ (deferred = {} \/ consent = {})
    BY <1>1, <1>10
  <2>2. \A c \in Calls : \/ Answered(c)'
                         \/ c \in ask \/ c \in deferred \/ c \in consent
    BY <1>2, <1>3, <1>5, <1>9, <2>1 DEF Answered
  <2> HIDE DEF consent, deferred, ask
  <2>3. ~parked /\ ask = {} => AllAnswered'
    BY <2>2 DEF AllAnswered
  <2>4. state'.status \in Waits => \A c \in Calls : Answered(c)' \/ c \in state'.pending
    BY <1>7, <2>1, <2>2, <2>3 DEF AllAnswered
  <2> QED BY <2>3, <2>4
<1> HIDE DEF consent, deferred, ask, atOnce, plain, parked, refreshed
<1>11. CASE ~parked /\ ask = {} /\ Advances(m, "tool_result")
  BY <1>6, <1>8, <1>9, <1>10, <1>11, AdvanceKept
<1>12. CASE Advances(m, "none") /\ state'.status \in Waits
  <2>1. state'.status # "running"
    BY <1>12 DEF Waits
  <2> QED BY <1>6, <1>8, <1>9, <1>10, <1>12, <2>1, AdvanceKept
<1> QED BY <1>7, <1>11, <1>12 DEF Waits

\* The only call that needs nobody throws: only the others ask the human.
LEMMA CallThrowsInv ==
  ASSUME IInv, NEW m, CallThrows(m)
  PROVE  IInv'
<1> DEFINE ask == NeedsOf("human")
<1>0. PICK c \in Calls : \E left \in Leaves(c) :
        /\ result' = [d \in Calls |-> IF d = c THEN left ELSE "none"]
        /\ intervention' = [d \in Calls |->
             IF d \in ask \/ (d = c /\ left = "consent") THEN "pending" ELSE "none"]
        /\ runs' = [d \in Calls |-> IF d = c /\ left # "consent" THEN 1 ELSE 0]
        /\ NeedsOf("nobody") = {c}
  BY DEF CallThrows
<1>1. PICK left \in Leaves(c) :
        /\ result' = [d \in Calls |-> IF d = c THEN left ELSE "none"]
        /\ intervention' = [d \in Calls |->
             IF d \in ask \/ (d = c /\ left = "consent") THEN "pending" ELSE "none"]
        /\ runs' = [d \in Calls |-> IF d = c /\ left # "consent" THEN 1 ELSE 0]
        /\ NeedsOf("nobody") = {c}
  BY <1>0
<1>2. /\ Live(m) /\ asked = 1 /\ UNCHANGED <<needs, nature, asked>>
      /\ IF ask # {} THEN Park(m, state, "waiting_for_human", ask) ELSE Halt(m, state)
      /\ mishaps' = mishaps \cup {IF ask # {} THEN "threw" ELSE "halted"}
  BY DEF CallThrows, batch
<1>3. PICK pending \in SUBSET Calls : pending = ask
  BY DEF NeedsOf
<1>4. PICK s \in States : s = state
  BY DEF IInv, TypeInv
<1>5. Crashes \in Nat /\ c \notin ask
  BY <1>1, CrashesNat DEF IInv, NeedsOf
<1>6. \A d \in Calls : /\ runs'[d] <= 1 + Crashes
                       /\ intervention'[d] = "pending" => runs'[d] <= Crashes
  BY <1>1, <1>5
<1>7. /\ runs' \in [Calls -> Nat]
      /\ intervention' \in [Calls -> {"none", "pending", "approved", "rejected"}]
  BY <1>1
<1>8. result' \in [Calls -> {"none", "consent", "deferred", "result", "rejection"}]
  <2>1. left \in {"none", "consent", "deferred", "result", "rejection"}
    BY DEF Leaves, Consents, IInv, TypeInv
  <2> QED BY <1>1, <2>1
<1>9. mishaps' \subseteq MishapKinds /\ mishaps' # {} /\ asked' \in Nat /\ asked' > 0
  BY <1>2 DEF IInv, TypeInv, MishapKinds
<1>10. state' \in States => TypeInv'
  BY <1>2, <1>7, <1>8, <1>9 DEF IInv, TypeInv
<1> HIDE DEF ask
<1>11. CASE ask # {}
  <2>1. "waiting_for_human" \in Waits
    BY DEF Waits
  <2>2. Advances(m, "none") /\ state'.status = "waiting_for_human"
    BY <1>2, <1>3, <1>4, <1>11, <2>1, ParkAdvances
  <2>3. TypeInv'
    BY <1>10, <2>2 DEF Advances
  <2> QED BY <1>6, <1>9, <2>2, <2>3, AdvanceKept
<1>12. CASE ask = {}
  <2>1. Halts(m)
    BY <1>2, <1>4, <1>12, HaltHalts
  <2>2. TypeInv'
    BY <1>10, <2>1 DEF Halts
  <2> QED BY <1>6, <1>9, <2>1, <2>2, HaltKept
<1> QED BY <1>11, <1>12

\* A message of one kind is of no other.
LEMMA Kinds ==
  ASSUME NEW m \in Messages
  PROVE  /\ \A kinds, phase : IsAnswer(m, kinds) => ~IsStep(m, phase)
         /\ \A kinds : IsAnswer(m, kinds) => IsAnswer(m, AnswerKinds)
         /\ \A p, q : IsStep(m, p) /\ IsStep(m, q) => p = q
BY DEF Messages, IsAnswer, IsStep

\* Calling the model on complete results.
LEMMA ToolResultInv ==
  ASSUME IInv, NEW m, ToolResult(m)
  PROVE  IInv'
<1>1. Live(m) /\ IsStep(m, "tool_result") /\ UNCHANGED <<nature, messages, runs, mishaps>>
  BY DEF ToolResult
<1>2. asked > 0 /\ asked \in Nat
  <2>1. ~IsStep(m, "user_input")
    BY <1>1, LiveLevel, Kinds
  <2> QED BY <1>1, <2>1, Called
<1>3. state \in States
  BY DEF IInv, TypeInv
<1>4. mishaps = {} => AllAnswered
  BY <1>1, LiveLevel DEF IInv, WaitInv
<1>5. \A c \in Calls : /\ runs'[c] <= 1 + Crashes
                       /\ intervention'[c] = "pending" => runs'[c] <= Crashes
  BY <1>1, RunsKept DEF messages
<1>6. UNCHANGED needs => (mishaps' = {} => AllAnswered')
  BY <1>1, <1>4 DEF AllAnswered, Answered, messages
<1>7. CASE Park(m, state, "waiting_for_human", state.shown) /\ UNCHANGED <<needs, asked>>
  <2>1. PICK s : s = [state EXCEPT !.status = "waiting_for_human", !.pending = state.shown]
    OBVIOUS
  <2>2. /\ s \in States /\ s.stepCount = state.stepCount
        /\ s.status = "waiting_for_human"
    BY <1>3, <2>1 DEF States, Status
  <2>3. Save(m, s, "none")
    BY <1>7, <2>1 DEF Park
  <2>4. Advances(m, "none") /\ state'.status = "waiting_for_human"
    BY <1>1, <2>2, <2>3, SaveAdvances
  <2>5. TypeInv'
    BY <1>1, <1>7, <2>4 DEF TypeInv, IInv, Advances, messages
  <2> QED BY <1>2, <1>5, <1>6, <1>7, <2>4, <2>5, AdvanceKept DEF AllAnswered
<1>8. CASE CallModel(m, state)
  <2>1. PICK s \in States : s = state
    BY <1>3
  <2>2. /\ Advances(m, "llm_result") /\ asked' \in Nat /\ asked' > 0 /\ needs' = needs
    BY <1>1, <1>2, <1>8, <2>1, CallSaves
  <2>3. TypeInv'
    BY <1>1, <2>2 DEF TypeInv, IInv, Advances, messages
  <2> QED BY <1>5, <1>6, <2>2, <2>3, AdvanceKept DEF AllAnswered
<1> QED BY <1>7, <1>8 DEF ToolResult

\* The resume finds all results, too.
LEMMA ResumeAsyncToolInv ==
  ASSUME IInv, NEW m, ResumeAsyncTool(m)
  PROVE  IInv'
<1> DEFINE shown == {c \in Calls : intervention[c] = "pending"}
<1>1. /\ Live(m) /\ IsStep(m, "resume") /\ UNCHANGED <<nature, messages, runs, mishaps>>
      /\ CallModel(m, [state EXCEPT !.status = "running", !.pending = {}, !.shown = shown])
  BY DEF ResumeAsyncTool
<1>2. asked > 0 /\ asked \in Nat
  <2>1. ~IsStep(m, "user_input")
    BY <1>1, LiveLevel, Kinds
  <2> QED BY <1>1, <2>1, Called
<1>3. PICK s : s = [state EXCEPT !.status = "running", !.pending = {}, !.shown = shown]
  OBVIOUS
<1>4. s \in States /\ s.stepCount = state.stepCount /\ s.status = "running"
  BY <1>3 DEF States, Status, IInv, TypeInv
<1>5. /\ Advances(m, "llm_result") /\ asked' \in Nat /\ asked' > 0 /\ needs' = needs
      /\ state'.status = "running"
  BY <1>1, <1>2, <1>3, <1>4, CallSaves
<1>6. TypeInv'
  BY <1>1, <1>5 DEF TypeInv, IInv, Advances, messages
<1>7. \A c \in Calls : /\ runs'[c] <= 1 + Crashes
                       /\ intervention'[c] = "pending" => runs'[c] <= Crashes
  BY <1>1, RunsKept DEF messages
<1> QED BY <1>5, <1>6, <1>7, AdvanceKept DEF Waits

\* Taking up an answer.
LEMMA TakenFacts ==
  ASSUME IInv, NEW m, NEW kinds, Taken(m, kinds)
  PROVE  /\ Live(m) /\ m \in Messages /\ m.call \in Calls /\ IsAnswer(m, AnswerKinds)
         /\ LiveAnswer(m, AnswerKinds, m.call) /\ LiveAnswer(m, kinds, m.call)
         /\ m \in due /\ state.status = "waiting_for_human"
         /\ asked > 0 /\ asked \in Nat
         /\ mishaps = {} => \A c \in Calls : Answered(c) \/ c \in state.pending
<1>1. Live(m) /\ m \in Messages /\ IsAnswer(m, kinds) /\ state.status = "waiting_for_human"
      /\ m \in due
  BY LiveLevel DEF Taken
<1>2. m.call \in Calls /\ IsAnswer(m, AnswerKinds) /\ ~IsStep(m, "user_input")
  BY <1>1, MessageTypes, Kinds
<1>3. asked > 0 /\ asked \in Nat
  BY <1>1, <1>2, Called
<1>4. mishaps = {} => \A c \in Calls : Answered(c) \/ c \in state.pending
  BY <1>1 DEF IInv, WaitInv
<1> QED BY <1>1, <1>2, <1>3, <1>4 DEF LiveAnswer

\* The state without a call.
LEMMA WithoutTyped ==
  ASSUME TypeInv, NEW c \in Calls
  PROVE  /\ Without(c) \in States /\ Without(c).stepCount = state.stepCount
         /\ Without(c).pending = state.pending \ {c}
         /\ Without(c).status = IF state.pending \ {c} = {} THEN "running"
                                ELSE "waiting_for_human"
<1> DEFINE rest == state.pending \ {c}
           status == IF rest = {} THEN "running" ELSE "waiting_for_human"
<1>1. state \in States /\ rest \in SUBSET Calls /\ status \in Status
  BY DEF TypeInv, States, Status
<1>2. Without(c) = [state EXCEPT !.pending = rest, !.status = status]
  BY DEF Without
<1> HIDE DEF rest, status
<1>3. Without(c) = [status |-> status, stepCount |-> state.stepCount, pending |-> rest,
                    shown |-> state.shown]
  BY <1>1, <1>2 DEF States
<1>4. Without(c) \in States
  BY <1>1, <1>3 DEF States
<1> QED BY <1>3, <1>4 DEF rest, status

\* An approved call runs, is deferred, or asks for another consent.
LEMMA ApproveInv ==
  ASSUME IInv, NEW m, Approve(m)
  PROVE  IInv'
<1>1. PICK c \in Calls : c = m.call
  BY TakenFacts DEF Approve
<1>2. PICK s \in States : s = Without(c)
  BY WithoutTyped DEF IInv
<1>3. /\ s.stepCount = state.stepCount /\ s.pending = state.pending \ {c}
      /\ s.status = IF s.pending = {} THEN "running" ELSE "waiting_for_human"
      /\ s.shown \subseteq Calls
  BY <1>2, WithoutTyped DEF IInv, States
<1> DEFINE consents == Consents(c)
<1>4. /\ Live(m) /\ UNCHANGED <<batch, asked>>
      /\ intervention' = [intervention EXCEPT ![c] = IF consents THEN "pending" ELSE "approved"]
      /\ result' = [result EXCEPT ![c] = CASE consents -> "consent"
                                           [] nature[c] = "deferred" -> "deferred"
                                           [] OTHER -> "result"]
      /\ runs' = IF consents THEN runs ELSE [runs EXCEPT ![c] = @ + 1]
      /\ CASE consents -> Park(m, s, "waiting_for_human", {c})
           [] nature[c] = "deferred" -> Park(m, s, "waiting_for_async_tool", {c})
           [] OTHER -> Save(m, [s EXCEPT !.shown = @ \ {c}], "tool_result")
      /\ mishaps' = IF s.pending = {} THEN mishaps
                    ELSE IF consents THEN mishaps \cup {"consent"}
                    ELSE IF nature[c] = "deferred" THEN mishaps \cup {"deferred"} ELSE mishaps
  BY <1>1, <1>2, TakenFacts DEF Approve
<1>5. /\ asked > 0 /\ runs[c] <= Crashes /\ runs[c] \in Nat /\ Crashes \in Nat
      /\ mishaps = {} => \A d \in Calls : Answered(d) \/ d \in state.pending
  <2>1. Taken(m, {"approve"})
    BY DEF Approve
  <2>2. LiveAnswer(m, AnswerKinds, c) /\ m \in due /\ asked > 0
    BY <1>1, <2>1, TakenFacts
  <2>3. Chance(c)
    BY <2>2 DEF Chance
  <2> QED BY <2>1, <2>2, <2>3, TakenFacts, CrashesNat DEF IInv, RunsInv, TypeInv
<1> HIDE DEF consents
<1>6. \/ consents /\ Advances(m, "none") /\ state'.status = "waiting_for_human"
                  /\ state'.pending = {c}
      \/ /\ ~consents /\ nature[c] = "deferred" /\ Advances(m, "none")
         /\ state'.status = "waiting_for_async_tool" /\ state'.pending = {c}
      \/ /\ ~consents /\ nature[c] # "deferred" /\ Advances(m, "tool_result")
         /\ state'.status = s.status /\ state'.pending = s.pending
  <2>1. ASSUME NEW status \in Waits, Park(m, s, status, {c})
        PROVE  Advances(m, "none") /\ state'.status = status /\ state'.pending = {c}
    <3>1. PICK r : r = [s EXCEPT !.status = status, !.pending = {c}]
      OBVIOUS
    <3>2. /\ r \in States /\ r.stepCount = state.stepCount
          /\ r.status = status /\ r.pending = {c}
      BY <1>3, <3>1 DEF States, Waits, Status
    <3>3. Save(m, r, "none") /\ r.status # "running"
      BY <2>1, <3>1, <3>2 DEF Park, Waits
    <3> QED BY <1>4, <3>2, <3>3, SaveAdvances
  <2>2. ASSUME Save(m, [s EXCEPT !.shown = @ \ {c}], "tool_result")
        PROVE  /\ Advances(m, "tool_result")
               /\ state'.status = s.status /\ state'.pending = s.pending
    <3>1. PICK r : r = [s EXCEPT !.shown = @ \ {c}]
      OBVIOUS
    <3>2. /\ r \in States /\ r.stepCount = state.stepCount
          /\ r.status = s.status /\ r.pending = s.pending
      BY <1>3, <3>1 DEF States
    <3>3. "tool_result" \in Phases \ {"user_input"}
      BY DEF Phases
    <3> QED BY <1>4, <2>2, <3>1, <3>2, <3>3, SaveAdvances
  <2>3. "waiting_for_human" \in Waits /\ "waiting_for_async_tool" \in Waits
    BY DEF Waits
  <2>4. CASE consents
    <3>1. nature[c] # "deferred"
      BY <2>4 DEF consents, Consents
    <3> QED BY <1>4, <2>1, <2>3, <2>4, <3>1
  <2>5. CASE ~consents /\ nature[c] = "deferred"
    BY <1>4, <2>1, <2>3, <2>5
  <2>6. CASE ~consents /\ nature[c] # "deferred"
    BY <1>4, <2>2, <2>6
  <2> QED BY <2>4, <2>5, <2>6
<1>7. /\ needs' = needs /\ nature' = nature /\ asked' = asked
      /\ \A d \in Calls : d # c => result'[d] = result[d]
      /\ ~consents /\ nature[c] # "deferred" => result'[c] = "result"
  BY <1>4 DEF batch, IInv, TypeInv
<1>8. TypeInv'
  <2>1. state' \in States
    BY <1>6 DEF Advances
  <2>2. intervention' \in [Calls -> {"none", "pending", "approved", "rejected"}]
    BY <1>4 DEF IInv, TypeInv
  <2>3. result' \in [Calls -> {"none", "consent", "deferred", "result", "rejection"}]
    BY <1>4 DEF IInv, TypeInv
  <2>4. runs' \in [Calls -> Nat]
    BY <1>4 DEF IInv, TypeInv
  <2>5. mishaps' \subseteq MishapKinds
    BY <1>4 DEF IInv, TypeInv, MishapKinds
  <2> QED BY <1>7, <2>1, <2>2, <2>3, <2>4, <2>5 DEF IInv, TypeInv
<1>9. \A d \in Calls : /\ runs'[d] <= 1 + Crashes
                       /\ intervention'[d] = "pending" => runs'[d] <= Crashes
  <2>1. ASSUME NEW d \in Calls, d # c
        PROVE  runs'[d] = runs[d] /\ intervention'[d] = intervention[d]
    BY <1>4, <2>1 DEF IInv, TypeInv
  <2>2. /\ runs'[c] = runs[c] \/ runs'[c] = runs[c] + 1
        /\ intervention'[c] = "pending" => runs'[c] = runs[c]
    BY <1>4 DEF IInv, TypeInv
  <2>3. \A d \in Calls : d # c => /\ runs'[d] <= 1 + Crashes
                                  /\ intervention'[d] = "pending" => runs'[d] <= Crashes
    BY <2>1 DEF IInv, RunsInv, Chance
  <2>4. runs'[c] <= 1 + Crashes /\ (intervention'[c] = "pending" => runs'[c] <= Crashes)
    BY <1>5, <2>2
  <2> QED BY <2>3, <2>4
<1>10. ASSUME mishaps' = {}
       PROVE  /\ \A d \in Calls : Answered(d)' \/ d \in state'.pending
              /\ ~consents /\ nature[c] # "deferred" /\ s.pending = {} => AllAnswered'
  <2>1. mishaps = {} /\ (s.pending = {} \/ (~consents /\ nature[c] # "deferred"))
    BY <1>4, <1>10
  <2>2. \A d \in Calls : d # c => Answered(d)' \/ d \in s.pending
    BY <1>3, <1>5, <1>7, <2>1 DEF Answered
  <2>3. ~consents /\ nature[c] # "deferred" => Answered(c)'
    BY <1>7 DEF Answered
  <2> QED BY <1>6, <2>1, <2>2, <2>3 DEF AllAnswered
<1>11. CASE ~consents /\ nature[c] # "deferred"
  <2>1. state'.status = "running" <=> s.pending = {}
    BY <1>3, <1>6, <1>11
  <2> QED BY <1>5, <1>6, <1>7, <1>8, <1>9, <1>10, <1>11, <2>1, AdvanceKept
<1>12. CASE Advances(m, "none") /\ state'.status \in Waits
  <2>1. state'.status # "running"
    BY <1>12 DEF Waits
  <2> QED BY <1>5, <1>7, <1>8, <1>9, <1>10, <1>12, <2>1, AdvanceKept
<1> QED BY <1>6, <1>11, <1>12 DEF Waits

\* An approved tool throws: its call no longer asks for anything, or for consent.
LEMMA ApprovedThrowsInv ==
  ASSUME IInv, NEW m, ApprovedThrows(m)
  PROVE  IInv'
<1>1. PICK c \in Calls : c = m.call
  BY TakenFacts DEF ApprovedThrows
<1>2. PICK s \in States : s = Without(c)
  BY WithoutTyped DEF IInv
<1>3. s.stepCount = state.stepCount
  BY <1>2, WithoutTyped DEF IInv
<1>4. PICK left \in Leaves(c), asks \in BOOLEAN :
        /\ asks <=> left = "consent" /\ Consents(c)
        /\ result' = [result EXCEPT ![c] = left]
        /\ intervention' = [intervention EXCEPT ![c] = IF asks THEN "pending" ELSE "approved"]
        /\ runs' = IF asks THEN runs ELSE [runs EXCEPT ![c] = @ + 1]
  BY <1>1 DEF ApprovedThrows
<1>5. /\ Live(m) /\ Halt(m, s) /\ UNCHANGED <<needs, nature, asked>>
      /\ mishaps' = mishaps \cup
           {IF s.pending = {} \/ c \in s.shown THEN "halted" ELSE "threw"}
  BY <1>1, <1>2, TakenFacts DEF ApprovedThrows, batch
<1>6. Halts(m)
  BY <1>3, <1>5, HaltHalts
<1>7. asked > 0 /\ runs[c] <= Crashes /\ runs[c] \in Nat /\ Crashes \in Nat
  <2>1. Taken(m, {"approve"})
    BY DEF ApprovedThrows
  <2>2. LiveAnswer(m, AnswerKinds, c) /\ m \in due /\ asked > 0
    BY <1>1, <2>1, TakenFacts
  <2>3. Chance(c)
    BY <2>2 DEF Chance
  <2> QED BY <2>2, <2>3, CrashesNat DEF IInv, RunsInv, TypeInv
<1>8. TypeInv'
  <2>1. intervention' \in [Calls -> {"none", "pending", "approved", "rejected"}]
    BY <1>4 DEF IInv, TypeInv
  <2>2. left \in {"none", "consent", "deferred", "result", "rejection"}
    BY DEF Leaves, Consents, IInv, TypeInv
  <2>3. result' \in [Calls -> {"none", "consent", "deferred", "result", "rejection"}]
    BY <1>4, <2>2 DEF IInv, TypeInv
  <2>4. runs' \in [Calls -> Nat]
    BY <1>4 DEF IInv, TypeInv
  <2>5. mishaps' \subseteq MishapKinds
    BY <1>5 DEF IInv, TypeInv, MishapKinds
  <2> QED BY <1>5, <1>6, <2>1, <2>3, <2>4, <2>5 DEF IInv, TypeInv, Halts
<1>9. \A d \in Calls : /\ runs'[d] <= 1 + Crashes
                       /\ intervention'[d] = "pending" => runs'[d] <= Crashes
  <2>1. ASSUME NEW d \in Calls, d # c
        PROVE  runs'[d] = runs[d] /\ intervention'[d] = intervention[d]
    BY <1>4, <2>1 DEF IInv, TypeInv
  <2>2. /\ runs'[c] = runs[c] \/ runs'[c] = runs[c] + 1
        /\ intervention'[c] = "pending" => runs'[c] = runs[c]
    BY <1>4 DEF IInv, TypeInv
  <2>3. \A d \in Calls : d # c => /\ runs'[d] <= 1 + Crashes
                                  /\ intervention'[d] = "pending" => runs'[d] <= Crashes
    BY <2>1 DEF IInv, RunsInv, Chance
  <2>4. runs'[c] <= 1 + Crashes /\ (intervention'[c] = "pending" => runs'[c] <= Crashes)
    BY <1>7, <2>2
  <2> QED BY <2>3, <2>4
<1>10. mishaps' # {} /\ asked' > 0
  BY <1>5, <1>7
<1> QED BY <1>6, <1>8, <1>9, <1>10, HaltKept

\* A rejected call has its answer, and the model goes on.
LEMMA RejectAndContinueInv ==
  ASSUME IInv, NEW m, RejectAndContinue(m)
  PROVE  IInv'
<1>1. PICK c \in Calls : c = m.call
  BY TakenFacts DEF RejectAndContinue
<1>2. PICK s \in States : s = Without(c)
  BY WithoutTyped DEF IInv
<1>3. /\ s.stepCount = state.stepCount /\ s.pending = state.pending \ {c}
      /\ s.status = IF s.pending = {} THEN "running" ELSE "waiting_for_human"
  BY <1>2, WithoutTyped DEF IInv
<1>4. /\ Live(m) /\ CallModel(m, s) /\ UNCHANGED <<nature, runs>>
      /\ intervention' = [intervention EXCEPT ![c] = "rejected"]
      /\ result' = [result EXCEPT ![c] = "rejection"]
      /\ mishaps' = IF state.pending \subseteq {c} THEN mishaps ELSE mishaps \cup {"continued"}
  BY <1>1, <1>2, TakenFacts DEF RejectAndContinue, Reject
<1>5. asked > 0 /\ (mishaps = {} => \A d \in Calls : Answered(d) \/ d \in state.pending)
  BY TakenFacts DEF RejectAndContinue
<1>6. /\ Advances(m, "llm_result") /\ state'.status = s.status
      /\ asked' \in Nat /\ asked' > 0 /\ needs' = needs
  BY <1>3, <1>4, <1>5, CallSaves
<1>7. TypeInv'
  <2>1. intervention' \in [Calls -> {"none", "pending", "approved", "rejected"}]
    BY <1>4 DEF IInv, TypeInv
  <2>2. result' \in [Calls -> {"none", "consent", "deferred", "result", "rejection"}]
    BY <1>4 DEF IInv, TypeInv
  <2>3. mishaps' \subseteq MishapKinds
    BY <1>4 DEF IInv, TypeInv, MishapKinds
  <2> QED BY <1>4, <1>6, <2>1, <2>2, <2>3 DEF TypeInv, IInv, Advances
<1>8. \A d \in Calls : intervention'[d] = "pending" => intervention[d] = "pending"
  BY <1>4 DEF IInv, TypeInv
<1>9. \A d \in Calls : /\ runs'[d] <= 1 + Crashes
                       /\ intervention'[d] = "pending" => runs'[d] <= Crashes
  BY <1>4, <1>8, RunsKept
<1>10. mishaps' = {} => state'.status \notin Waits
  BY <1>3, <1>4, <1>6 DEF Waits
<1> QED BY <1>6, <1>7, <1>9, <1>10, AdvanceKept

\* An answer that is not taken up is a mishap.
LEMMA AnswerIgnoredInv ==
  ASSUME IInv, NEW m, AnswerIgnored(m)
  PROVE  IInv'
<1>1. /\ Live(m) /\ IsAnswer(m, AnswerKinds) /\ CallModel(m, state)
      /\ mishaps' = mishaps \cup {"ignored"} /\ UNCHANGED <<nature, messages, runs>>
  BY DEF AnswerIgnored
<1>2. PICK s \in States : s = state
  BY DEF IInv, TypeInv
<1>3. asked > 0
  <2>1. ~IsStep(m, "user_input")
    BY <1>1, LiveLevel, Kinds
  <2> QED BY <1>1, <2>1, Called
<1>4. Advances(m, "llm_result") /\ asked' \in Nat /\ asked' > 0 /\ needs' = needs
  BY <1>1, <1>2, <1>3, CallSaves
<1>5. TypeInv'
  BY <1>1, <1>4 DEF TypeInv, IInv, Advances, messages, MishapKinds
<1>6. \A c \in Calls : /\ runs'[c] <= 1 + Crashes
                       /\ intervention'[c] = "pending" => runs'[c] <= Crashes
  BY <1>1, RunsKept DEF messages
<1>7. mishaps' # {}
  BY <1>1
<1> QED BY <1>4, <1>5, <1>6, <1>7, AdvanceKept

-----------------------------------------------------------------------------
\* The operation ends: nothing is live any more.

\* An end keeps the invariant, because nothing is left that counts.
LEMMA EndKept ==
  ASSUME IInv, TypeInv', FaultsInv', Crashes' = Crashes, due' \subseteq due,
         state'.status \in Terminal, state'.stepCount = state.stepCount,
         UNCHANGED <<asked, runs>>,
         \A c \in Calls : intervention'[c] = "pending" => intervention[c] = "pending",
         asked = 0 => UNCHANGED <<intervention, result>> /\ state'.status = "interrupted"
  PROVE  IInv'
<1>1. \A n \in due' : ~Live(n)'
  BY DEF Live
<1>2. DueInv'
  BY DEF IInv, DueInv
<1>3. BeginInv'
  BY DEF IInv, BeginInv
<1>4. RunsInv'
  BY <1>1, RunsKept DEF RunsInv, Chance, LiveAnswer
<1>5. RejectedInv'
  BY <1>1 DEF RejectedInv, LiveAnswer
<1>6. WaitInv'
  BY <1>1 DEF WaitInv, Terminal
<1> QED BY <1>2, <1>3, <1>4, <1>5, <1>6 DEF IInv

\* Finishing is such an end.
LEMMA FinishEnds ==
  ASSUME IInv, NEW m, NEW s \in States, s.stepCount = state.stepCount, Finish(m, s)
  PROVE  /\ state' \in States /\ state'.stepCount = state.stepCount
         /\ state'.status \in Terminal
         /\ FaultsInv' /\ Crashes' = Crashes /\ due' \subseteq due
<1>1. Done(m, {}) /\ state' = [s EXCEPT !.status = "done"]
  BY DEF Finish
<1>2. state' = [status |-> "done", stepCount |-> s.stepCount, pending |-> s.pending,
                shown |-> s.shown]
  BY <1>1 DEF States
<1> QED BY <1>1, <1>2, DoneKept DEF States, Status, Terminal, IInv

\* The later reply ends the turn.
LEMMA EndTurnInv ==
  ASSUME IInv, NEW m, EndTurn(m)
  PROVE  IInv'
<1>1. Finish(m, state) /\ asked > 1 /\ UNCHANGED <<batch, messages, runs, asked, mishaps>>
  BY DEF EndTurn
<1>2. PICK s \in States : s = state
  BY DEF IInv, TypeInv
<1>3. /\ state' \in States /\ state'.stepCount = state.stepCount
      /\ state'.status \in Terminal
      /\ FaultsInv' /\ Crashes' = Crashes /\ due' \subseteq due
  BY <1>1, <1>2, FinishEnds
<1>4. TypeInv' /\ asked # 0
  BY <1>1, <1>3 DEF IInv, TypeInv, batch, messages
<1> QED BY <1>1, <1>3, <1>4, EndKept DEF messages

\* A rejection that halts the operation.
LEMMA RejectAndHaltInv ==
  ASSUME IInv, NEW m, RejectAndHalt(m)
  PROVE  IInv'
<1>1. PICK c \in Calls : c = m.call
  BY TakenFacts DEF RejectAndHalt
<1>2. /\ Finish(m, [state EXCEPT !.pending = @ \ {c}])
      /\ intervention' = [intervention EXCEPT ![c] = "rejected"]
      /\ result' = [result EXCEPT ![c] = "rejection"]
      /\ UNCHANGED <<needs, nature, runs, asked, mishaps>>
  BY <1>1 DEF RejectAndHalt, Reject, batch
<1>3. PICK s : s = [state EXCEPT !.pending = @ \ {c}]
  OBVIOUS
<1>4. s \in States /\ s.stepCount = state.stepCount
  BY <1>3 DEF IInv, TypeInv, States
<1>5. /\ state' \in States /\ state'.stepCount = state.stepCount
      /\ state'.status \in Terminal
      /\ FaultsInv' /\ Crashes' = Crashes /\ due' \subseteq due
  BY <1>2, <1>3, <1>4, FinishEnds
<1>6. asked > 0 /\ asked \in Nat
  BY TakenFacts DEF RejectAndHalt
<1>7. TypeInv'
  <2>1. intervention' \in [Calls -> {"none", "pending", "approved", "rejected"}]
    BY <1>2 DEF IInv, TypeInv
  <2>2. result' \in [Calls -> {"none", "consent", "deferred", "result", "rejection"}]
    BY <1>2 DEF IInv, TypeInv
  <2> QED BY <1>2, <1>5, <2>1, <2>2 DEF IInv, TypeInv
<1>8. \A d \in Calls : intervention'[d] = "pending" => intervention[d] = "pending"
  BY <1>2 DEF IInv, TypeInv
<1>9. asked # 0
  BY <1>6
<1> QED BY <1>2, <1>5, <1>7, <1>8, <1>9, EndKept

\* The user interrupts the operation.
LEMMA InterruptInv ==
  ASSUME IInv, Interrupt
  PROVE  IInv'
<1>1. /\ state' = [state EXCEPT !.status = "interrupted"]
      /\ UNCHANGED <<needs, nature, intervention, result, runs, asked, due, mishaps, faults>>
  BY DEF Interrupt, batch, messages
<1>2. state' = [status |-> "interrupted", stepCount |-> state.stepCount,
                pending |-> state.pending, shown |-> state.shown]
  BY <1>1 DEF IInv, TypeInv, States
<1>3. /\ state' \in States /\ state'.stepCount = state.stepCount
      /\ state'.status = "interrupted" /\ state'.status \in Terminal
  BY <1>2 DEF IInv, TypeInv, States, Status, Terminal
<1>4. TypeInv'
  BY <1>1, <1>3 DEF IInv, TypeInv
<1>5. FaultsInv' /\ Crashes' = Crashes
  BY <1>1, NoFault DEF IInv
<1> QED BY <1>1, <1>3, <1>4, <1>5, EndKept

-----------------------------------------------------------------------------
\* What happens beside the steps leaves the state alone.

\* A message may be added that is level with the state: an answer to a call that
\* is pending, or the resume of a batch that has all its answers.
Fresh(n) ==
  /\ n \in Messages /\ n.index = state.stepCount
  /\ ~IsStep(n, "user_input") /\ ~IsStep(n, "tool_result")
  /\ IsStep(n, "resume") /\ mishaps = {} => AllAnswered'
  /\ IsAnswer(n, AnswerKinds) => intervention[n.call] = "pending"

\* A worker killed within an answer leaves it there, and a trace in its message.
Struck(c) ==
  /\ \E m \in due : LiveAnswer(m, AnswerKinds, c)
  /\ runs'[c] <= runs[c] + 1 /\ Crashes' = Crashes + 1
  /\ intervention'[c] = "rejected" => \E m \in due : LiveAnswer(m, {"reject", "continue"}, c)

\* Such a step keeps the invariant.
LEMMA StateStays ==
  ASSUME IInv, TypeInv', FaultsInv', UNCHANGED <<state, asked, mishaps>>,
         \A n \in due' : n \in due \/ Fresh(n),
         \A n \in due : Live(n) => n \in due',
         \A c \in Calls : Answered(c) => Answered(c)',
         Crashes' \in {Crashes, Crashes + 1},
         \A c \in Calls :
           Struck(c) \/ (intervention'[c] = intervention[c] /\ runs'[c] = runs[c]),
         asked = 0 => UNCHANGED <<intervention, result, runs>> /\ due' \subseteq due
  PROVE  IInv'
<1>1. /\ state.stepCount \in Nat /\ state' = state /\ Crashes \in Nat
      /\ runs \in [Calls -> Nat] /\ runs' \in [Calls -> Nat]
  BY CrashesNat DEF IInv, TypeInv, States
<1>2. DueInv'
  BY <1>1 DEF IInv, DueInv, Fresh
<1>3. BeginInv'
  BY DEF IInv, BeginInv, Fresh
<1>4. \A n \in due' : n \in due => (Live(n)' <=> Live(n))
  BY DEF Live
<1>5. ASSUME NEW c \in Calls, NEW n \in due', LiveAnswer(n, AnswerKinds, c)' PROVE Chance(c)
  <2>1. CASE n \in due
    BY <1>4, <1>5, <2>1 DEF LiveAnswer, Chance
  <2>2. CASE Fresh(n)
    BY <1>5, <2>2 DEF LiveAnswer, Chance, Fresh
  <2> QED BY <2>1, <2>2
<1>6. RunsInv'
  <2> SUFFICES ASSUME NEW c \in Calls
               PROVE  runs'[c] <= 1 + Crashes' /\ (Chance(c)' => runs'[c] <= Crashes')
    BY DEF RunsInv
  <2>1. /\ runs[c] <= 1 + Crashes /\ (Chance(c) => runs[c] <= Crashes)
        /\ runs[c] \in Nat /\ runs'[c] \in Nat
    BY <1>1 DEF IInv, RunsInv
  <2>2. CASE Struck(c)
    <3>1. Chance(c)
      BY <2>2 DEF Struck, Chance
    <3> QED BY <1>1, <2>1, <2>2, <3>1 DEF Struck
  <2>3. CASE intervention'[c] = intervention[c] /\ runs'[c] = runs[c]
    <3>1. Chance(c)' => Chance(c)
      BY <1>5, <2>3 DEF Chance
    <3> QED BY <1>1, <2>1, <2>3, <3>1
  <2> QED BY <2>2, <2>3
<1>7. \A c \in Calls : \A kinds : \A n \in due :
        LiveAnswer(n, kinds, c) => n \in due' /\ LiveAnswer(n, kinds, c)'
  BY <1>4 DEF LiveAnswer
<1>8. RejectedInv'
  <2> SUFFICES ASSUME NEW c \in Calls, intervention'[c] = "rejected",
                      NEW n \in due', LiveAnswer(n, AnswerKinds, c)'
               PROVE  \E m \in due' : LiveAnswer(m, {"reject", "continue"}, c)'
    BY DEF RejectedInv
  <2>1. \E m \in due : LiveAnswer(m, {"reject", "continue"}, c)
    <3>1. CASE Struck(c)
      BY <3>1 DEF Struck
    <3>2. CASE intervention'[c] = intervention[c]
      <4>1. ~Fresh(n)
        BY <3>2 DEF LiveAnswer, Fresh
      <4>2. n \in due /\ LiveAnswer(n, AnswerKinds, c)
        BY <1>4, <4>1 DEF LiveAnswer
      <4> QED BY <3>2, <4>2 DEF IInv, RejectedInv
    <3> QED BY <3>1, <3>2
  <2> QED BY <1>7, <2>1
<1>9. WaitInv'
  <2> SUFFICES ASSUME mishaps = {}
               PROVE  /\ state.status \in {"waiting_for_human", "waiting_for_async_tool"} =>
                           \A c \in Calls : Answered(c)' \/ c \in state.pending
                      /\ \A n \in due' :
                           Live(n)' => /\ IsStep(n, "tool_result") => AllAnswered'
                                       /\ IsStep(n, "resume") => AllAnswered'
    BY DEF WaitInv
  <2>1. AllAnswered => AllAnswered'
    BY DEF AllAnswered
  <2> QED BY <1>4, <2>1 DEF IInv, WaitInv, Fresh
<1> QED BY <1>2, <1>3, <1>6, <1>8, <1>9 DEF IInv

\* What is not live is dropped, without a trace.
LEMMA SkipInv ==
  ASSUME IInv, NEW m, Skip(m)
  PROVE  IInv'
<1>1. /\ ~Live(m) /\ due' = due \ {m}
      /\ UNCHANGED <<state, needs, nature, intervention, result, runs, asked, mishaps, faults>>
  BY DEF Skip, batch, messages
<1>2. TypeInv' /\ FaultsInv' /\ Crashes' = Crashes
  BY <1>1, NoFault DEF IInv, TypeInv
<1>3. \A n \in due : Live(n) => n \in due'
  BY <1>1
<1>4. \A c \in Calls : Answered(c) => Answered(c)'
  BY <1>1 DEF Answered
<1> QED BY <1>1, <1>2, <1>3, <1>4, StateStays

\* A sub-agent's answer is an answer, and the last one of a batch resumes it.
LEMMA DeferredEndsInv ==
  ASSUME IInv, NEW c \in Calls, DeferredEnds(c)
  PROVE  IInv'
<1>1. /\ result[c] = "deferred" /\ result' = [result EXCEPT ![c] = "result"]
      /\ due' = IF /\ state.status = "waiting_for_async_tool"
                   /\ \A d \in state.pending : result'[d] = "result"
                THEN due \cup {Step(state.stepCount, "resume")} ELSE due
      /\ UNCHANGED <<state, needs, nature, intervention, runs, asked, mishaps, faults>>
  BY DEF DeferredEnds, batch
<1>2. asked # 0
  BY <1>1 DEF IInv, BeginInv
<1>3. \A d \in Calls : d # c => result'[d] = result[d]
  BY <1>1 DEF IInv, TypeInv
<1>4. result'[c] = "result"
  BY <1>1 DEF IInv, TypeInv
<1>5. \A d \in Calls : Answered(d) => Answered(d)'
  BY <1>1, <1>3, <1>4 DEF Answered
<1>6. TypeInv' /\ FaultsInv' /\ Crashes' = Crashes
  BY <1>1, NoFault DEF IInv, TypeInv
<1>7. ASSUME NEW n \in due' PROVE n \in due \/ Fresh(n)
  <2> SUFFICES ASSUME n \notin due PROVE Fresh(n)
    OBVIOUS
  <2>1. /\ n = Step(state.stepCount, "resume") /\ state.status = "waiting_for_async_tool"
        /\ \A d \in state.pending : result'[d] = "result"
    BY <1>1, <1>7
  <2>2. state.stepCount \in Nat /\ state.pending \subseteq Calls /\ "resume" \in Phases
    BY DEF IInv, TypeInv, States, Phases
  <2>3. PICK i \in Nat : i = state.stepCount
    BY <2>2
  <2>4. /\ n \in Messages /\ n.index = state.stepCount
        /\ ~IsStep(n, "user_input") /\ ~IsStep(n, "tool_result")
        /\ ~IsAnswer(n, AnswerKinds)
    BY <2>1, <2>2, <2>3, StepMade
  <2>5. mishaps = {} => AllAnswered'
    <3>1. mishaps = {} => \A d \in Calls : Answered(d) \/ d \in state.pending
      BY <2>1 DEF IInv, WaitInv
    <3>2. \A d \in Calls : d \in state.pending => Answered(d)'
      BY <2>1 DEF Answered
    <3> QED BY <1>5, <3>1, <3>2 DEF AllAnswered
  <2> QED BY <2>4, <2>5 DEF Fresh
<1>8. \A n \in due : n \in due'
  BY <1>1
<1> QED BY <1>1, <1>2, <1>5, <1>6, <1>7, <1>8, StateStays

\* The user answers a call that is pending.
LEMMA UserAnswersInv ==
  ASSUME IInv, NEW c \in Calls, NEW kind \in Answers, UserAnswers(c, kind)
  PROVE  IInv'
<1>1. /\ intervention[c] = "pending"
      /\ due' = due \cup {Answer(state.stepCount, kind, c)}
      /\ UNCHANGED <<state, needs, nature, intervention, result, runs, asked, mishaps, faults>>
  BY DEF UserAnswers, batch, messages
<1>2. asked # 0
  BY <1>1 DEF IInv, BeginInv
<1>3. TypeInv' /\ FaultsInv' /\ Crashes' = Crashes
  BY <1>1, NoFault DEF IInv, TypeInv
<1>4. PICK i \in Nat : i = state.stepCount
  BY DEF IInv, TypeInv, States
<1>5. kind \in AnswerKinds
  BY AnswersAssumption
<1>6. Fresh(Answer(state.stepCount, kind, c))
  <2> DEFINE a == Answer(i, kind, c)
  <2>1. /\ a \in Messages /\ a.index = i /\ a.call = c
        /\ \A phase : ~IsStep(a, phase)
    BY <1>5, AnswerMade
  <2> HIDE DEF a
  <2>2. Fresh(a)
    BY <1>1, <1>4, <2>1 DEF Fresh
  <2> QED BY <1>4, <2>2 DEF a
<1>7. \A n \in due' : n \in due \/ Fresh(n)
  BY <1>1, <1>6
<1>8. \A d \in Calls : Answered(d) => Answered(d)'
  BY <1>1 DEF Answered
<1>9. \A n \in due : n \in due'
  BY <1>1
<1> QED BY <1>1, <1>2, <1>3, <1>7, <1>8, <1>9, StateStays

\* The worker is killed when it has rejected a call.
LEMMA KilledRejectingInv ==
  ASSUME IInv, NEW m, KilledRejecting(m)
  PROVE  IInv'
<1>1. Taken(m, {"reject", "continue"}) /\ Fault("crash")
  BY DEF KilledRejecting
<1>2. PICK c \in Calls : c = m.call
  BY <1>1, TakenFacts
<1>3. /\ intervention' = [intervention EXCEPT ![c] = "rejected"]
      /\ result' = [result EXCEPT ![c] = "rejection"]
      /\ UNCHANGED <<state, needs, nature, runs, asked, due, mishaps>>
  BY <1>2 DEF KilledRejecting, Reject, batch
<1>4. /\ m \in due /\ asked > 0 /\ asked \in Nat
      /\ LiveAnswer(m, AnswerKinds, c) /\ LiveAnswer(m, {"reject", "continue"}, c)
  BY <1>1, <1>2, TakenFacts
<1>5. FaultsInv' /\ Crashes \in Nat /\ Crashes' = Crashes + 1
  BY <1>1, FaultKept DEF IInv
<1>6. TypeInv'
  <2>1. intervention' \in [Calls -> {"none", "pending", "approved", "rejected"}]
    BY <1>3 DEF IInv, TypeInv
  <2>2. result' \in [Calls -> {"none", "consent", "deferred", "result", "rejection"}]
    BY <1>3 DEF IInv, TypeInv
  <2> QED BY <1>3, <2>1, <2>2 DEF IInv, TypeInv
<1>7. \A d \in Calls : Answered(d) => Answered(d)'
  BY <1>3 DEF Answered, IInv, TypeInv
<1>8. Struck(c)
  BY <1>3, <1>4, <1>5 DEF Struck, IInv, TypeInv
<1>9. \A d \in Calls : d # c => intervention'[d] = intervention[d] /\ runs'[d] = runs[d]
  BY <1>3 DEF IInv, TypeInv
<1>10. asked # 0
  BY <1>4
<1> QED BY <1>3, <1>5, <1>6, <1>7, <1>8, <1>9, <1>10, StateStays

\* Or when the tool it was to run has, or has not, run.
LEMMA KilledApprovingInv ==
  ASSUME IInv, NEW m, KilledApproving(m)
  PROVE  IInv'
<1>1. Taken(m, {"approve"}) /\ Fault("crash")
  BY DEF KilledApproving
<1>2. PICK c \in Calls : c = m.call
  BY <1>1, TakenFacts
<1>3. /\ intervention' = [intervention EXCEPT ![c] = "approved"]
      /\ runs' = runs \/ runs' = [runs EXCEPT ![c] = @ + 1]
      /\ UNCHANGED <<state, needs, nature, result, asked, due, mishaps>>
  BY <1>2 DEF KilledApproving, batch
<1>4. m \in due /\ asked > 0 /\ asked \in Nat /\ LiveAnswer(m, AnswerKinds, c)
  BY <1>1, <1>2, TakenFacts
<1>5. FaultsInv' /\ Crashes \in Nat /\ Crashes' = Crashes + 1
  BY <1>1, FaultKept DEF IInv
<1>6. TypeInv'
  <2>1. intervention' \in [Calls -> {"none", "pending", "approved", "rejected"}]
    BY <1>3 DEF IInv, TypeInv
  <2>2. runs' \in [Calls -> Nat]
    BY <1>3 DEF IInv, TypeInv
  <2> QED BY <1>3, <2>1, <2>2 DEF IInv, TypeInv
<1>7. \A d \in Calls : Answered(d) => Answered(d)'
  BY <1>3 DEF Answered
<1>8. Struck(c)
  <2>1. intervention'[c] = "approved" /\ runs'[c] <= runs[c] + 1
    BY <1>3 DEF IInv, TypeInv
  <2> QED BY <1>4, <1>5, <2>1 DEF Struck
<1>9. \A d \in Calls : d # c => intervention'[d] = intervention[d] /\ runs'[d] = runs[d]
  BY <1>3 DEF IInv, TypeInv
<1>10. asked # 0
  BY <1>4
<1> QED BY <1>3, <1>5, <1>6, <1>7, <1>8, <1>9, <1>10, StateStays

\* Nothing happens.
LEMMA StutterInv ==
  ASSUME IInv, UNCHANGED vars
  PROVE  IInv'
<1>1. UNCHANGED <<state, needs, nature, intervention, result, runs, asked, due, mishaps, faults>>
  BY DEF vars
<1>2. TypeInv' /\ FaultsInv' /\ Crashes' = Crashes
  BY <1>1, NoFault DEF IInv, TypeInv
<1>3. \A c \in Calls : Answered(c) => Answered(c)'
  BY <1>1 DEF Answered
<1> QED BY <1>1, <1>2, <1>3, StateStays

\* Every step keeps the invariant.
LEMMA NextInv == IInv /\ [Next]_vars => IInv'
<1> SUFFICES ASSUME IInv, [Next]_vars PROVE IInv'
  OBVIOUS
<1>1. ASSUME NEW m \in due, Handle(m) PROVE IInv'
  <2>1. ASSUME RunCalls(m) PROVE IInv'
    BY <2>1, RunCallsInv DEF RunCalls
  <2> QED BY <1>1, <2>1, SkipInv, UserInputInv, CallThrowsInv, ToolResultInv, EndTurnInv,
             ResumeAsyncToolInv, ApproveInv, ApprovedThrowsInv, RejectAndContinueInv,
             RejectAndHaltInv, AnswerIgnoredInv DEF Handle
<1>2. ASSUME NEW m \in due, KilledRejecting(m) \/ KilledApproving(m) PROVE IInv'
  BY <1>2, KilledRejectingInv, KilledApprovingInv
<1>3. ASSUME NEW c \in Calls, DeferredEnds(c) \/ \E kind \in Answers : UserAnswers(c, kind)
      PROVE  IInv'
  BY <1>3, DeferredEndsInv, UserAnswersInv
<1>4. CASE Interrupt
  BY <1>4, InterruptInv
<1>5. CASE UNCHANGED vars
  BY <1>5, StutterInv
<1> QED BY <1>1, <1>2, <1>3, <1>4, <1>5 DEF Next

-----------------------------------------------------------------------------
\* Theorems.

\* The invariant that says which answers count.
THEOREM InvariantTheorem == Spec => []IInv
<1>1. Init => IInv
  BY InitInv
<1>2. IInv /\ [Next]_vars => IInv'
  BY NextInv
<1> QED BY <1>1, <1>2, PTL DEF Spec

\* The types hold for any calls, answers and faults.
THEOREM TypeCorrect == Spec => []TypeOK
<1> SUFFICES IInv => TypeOK
  BY InvariantTheorem, PTL
<1> SUFFICES ASSUME IInv PROVE TypeOK
  OBVIOUS
<1>1. \A m \in due : m.index \in Nat /\ (IsAnswer(m, AnswerKinds) \/ m.phase \in Phases)
  BY MessageTypes DEF IInv, DueInv
<1> QED BY <1>1 DEF IInv, TypeInv, FaultsInv, States, TypeOK, MishapKinds

\* A tool runs at most once, whatever answers are under way and however often they
\* are delivered; a worker killed while it runs one makes it run again.
THEOREM RunsOnceTheorem == Spec => []RunsOnce
<1>1. IInv => RunsOnce
  BY DEF IInv, RunsInv, RunsOnce, Crashes
<1> QED BY <1>1, InvariantTheorem, PTL

\* What runs is not rejected, or its rejection is still under way.
LEMMA RunStep ==
  IInv /\ [Next]_vars =>
    [\A c \in Calls : runs'[c] > runs[c] /\ needs[c] = "human" =>
       \/ intervention[c] # "rejected"
       \/ \E m \in due : Live(m) /\ IsAnswer(m, {"reject", "continue"}) /\ m.call = c]_vars
<1> SUFFICES ASSUME IInv, [Next]_vars, NEW c \in Calls, runs'[c] > runs[c],
                    needs[c] = "human", intervention[c] = "rejected"
             PROVE  \E m \in due : LiveAnswer(m, {"reject", "continue"}, c)
  BY DEF LiveAnswer
<1>1. runs' # runs /\ runs[c] \in Nat
  <2>1. runs[c] \in Nat
    BY DEF IInv, TypeInv
  <2> QED BY <2>1
<1>2. ASSUME NEW m \in due, NEW kinds, Taken(m, kinds), m.call = c
      PROVE  \E n \in due : LiveAnswer(n, {"reject", "continue"}, c)
  BY <1>2, TakenFacts DEF IInv, RejectedInv
<1>3. ASSUME NEW m \in due, RunCalls(m) PROVE FALSE
  <2>1. \A d \in Calls : d \notin NeedsOf("nobody") => runs'[d] = 0
    BY <1>3 DEF RunCalls, RunCallsBut
  <2>2. c \notin NeedsOf("nobody")
    BY DEF NeedsOf
  <2>3. runs'[c] = 0
    BY <2>1, <2>2
  <2> QED BY <1>1, <2>3
<1>4. ASSUME NEW m \in due, Approve(m) \/ ApprovedThrows(m)
      PROVE  Taken(m, {"approve"}) /\ m.call = c
  BY <1>4 DEF Approve, ApprovedThrows, IInv, TypeInv
<1>5. ASSUME NEW m \in due, KilledApproving(m) PROVE Taken(m, {"approve"}) /\ m.call = c
  BY <1>1, <1>5 DEF KilledApproving, IInv, TypeInv
<1>6. ASSUME NEW m \in due, CallThrows(m) PROVE FALSE
  <2>1. c \notin NeedsOf("nobody")
    BY DEF NeedsOf
  <2>2. runs'[c] = 0
    BY <1>6, <2>1 DEF CallThrows
  <2> QED BY <1>1, <2>2
<1>7. ASSUME NEW m \in due, Handle(m)
      PROVE  RunCalls(m) \/ Approve(m) \/ ApprovedThrows(m)
  BY <1>1, <1>6, <1>7 DEF Handle, Skip, UserInput, ToolResult, EndTurn, ResumeAsyncTool,
     RejectAndContinue, RejectAndHalt, AnswerIgnored
<1>8. \A m \in due : ~KilledRejecting(m)
  BY <1>1 DEF KilledRejecting
<1>9. /\ \A d \in Calls : ~DeferredEnds(d) /\ \A kind \in Answers : ~UserAnswers(d, kind)
      /\ ~Interrupt /\ ~(UNCHANGED vars)
  BY <1>1 DEF DeferredEnds, UserAnswers, Interrupt, vars
<1> QED BY <1>2, <1>3, <1>4, <1>5, <1>7, <1>8, <1>9 DEF Next

\* A call that waits for the human runs on an approval, and never once its rejection
\* is saved.
THEOREM RejectedNeverRunsTheorem == Spec => RejectedNeverRuns
BY InvariantTheorem, RunStep, PTL DEF Spec, RejectedNeverRuns

\* The model is called again when the batch is complete.
LEMMA CallStep ==
  IInv /\ [Next]_vars =>
    [asked' > asked /\ asked > 0 /\ mishaps' = {} => \A c \in Calls : Answered(c)']_vars
<1> SUFFICES ASSUME IInv, [Next]_vars, asked' > asked, asked > 0, mishaps' = {}
             PROVE  AllAnswered'
  BY DEF AllAnswered
<1>1. asked' # asked /\ asked \in Nat
  <2>1. asked \in Nat
    BY DEF IInv, TypeInv
  <2> QED BY <2>1
<1>2. ASSUME NEW m \in due, UserInput(m) PROVE FALSE
  <2>1. state.stepCount = 0
    BY <1>2, LiveLevel DEF UserInput, IInv, BeginInv
  <2> QED BY <2>1 DEF IInv, BeginInv
<1>3. ASSUME NEW m \in due, ToolResult(m) \/ ResumeAsyncTool(m) PROVE AllAnswered'
  <2>1. /\ mishaps = {} /\ needs' = needs /\ result' = result /\ Live(m)
        /\ IsStep(m, "tool_result") \/ IsStep(m, "resume")
    BY <1>3 DEF ToolResult, ResumeAsyncTool, CallModel, messages
  <2>2. AllAnswered
    BY <2>1 DEF IInv, WaitInv
  <2> QED BY <2>1, <2>2 DEF AllAnswered, Answered
<1>4. ASSUME NEW m \in due, RejectAndContinue(m) PROVE AllAnswered'
  <2>1. PICK c \in Calls : c = m.call
    BY <1>4, TakenFacts DEF RejectAndContinue
  <2>2. /\ needs' = needs /\ result' = [result EXCEPT ![c] = "rejection"]
        /\ mishaps = {} /\ state.pending \subseteq {c}
    BY <1>4, <2>1 DEF RejectAndContinue, CallModel, Reject
  <2>3. \A d \in Calls : Answered(d) \/ d \in state.pending
    BY <1>4, <2>2, TakenFacts DEF RejectAndContinue
  <2>4. result'[c] = "rejection" /\ \A d \in Calls : d # c => result'[d] = result[d]
    BY <2>2 DEF IInv, TypeInv
  <2> QED BY <2>2, <2>3, <2>4 DEF AllAnswered, Answered
<1>5. ASSUME NEW m \in due, AnswerIgnored(m) PROVE FALSE
  BY <1>5 DEF AnswerIgnored
<1>6. ASSUME NEW m \in due, Handle(m)
      PROVE  \/ UserInput(m) \/ ToolResult(m) \/ ResumeAsyncTool(m) \/ RejectAndContinue(m)
             \/ AnswerIgnored(m)
  BY <1>1, <1>6 DEF Handle, Skip, RunCalls, RunCallsBut, CallThrows, EndTurn, Approve,
     ApprovedThrows, RejectAndHalt
<1>7. \A m \in due : ~KilledRejecting(m) /\ ~KilledApproving(m)
  BY <1>1 DEF KilledRejecting, KilledApproving
<1>8. /\ \A d \in Calls : ~DeferredEnds(d) /\ \A kind \in Answers : ~UserAnswers(d, kind)
      /\ ~Interrupt /\ ~(UNCHANGED vars)
  BY <1>1 DEF DeferredEnds, UserAnswers, Interrupt, vars
<1> QED BY <1>2, <1>3, <1>4, <1>5, <1>6, <1>7, <1>8 DEF Next

\* The model is not called again before every call of its batch has its answer, but
\* for a mishap: a tool that throws is one.
THEOREM ModelWaitsTheorem == Spec => ModelWaits
BY InvariantTheorem, CallStep, PTL DEF Spec, ModelWaits
-----------------------------------------------------------------------------
\* Whatever is under way is waited for.

\* A live step belongs to a running operation, and a resume to one that is parked
\* on sub-agents.
StepsInv ==
  \A m \in due :
    Live(m) => /\ IsStep(m, "resume") => state.status = "waiting_for_async_tool"
               /\ \A phase \in Phases \ {"resume"} :
                    IsStep(m, phase) => state.status = "running"

\* Placeholders are shown once the first reply is taken apart, and not before.
ShownInv ==
  /\ asked = 0 => state.shown = {}
  /\ asked = 1 => \A m \in due : Live(m) /\ IsStep(m, "llm_result") => state.shown = {}

SomeLive == \E m \in due : Live(m)

\* What an operation parked on the human waits for: each of its calls asks him, and
\* no other call is shown as if it did.
AsksHuman ==
  /\ state.pending # {} /\ state.shown \subseteq state.pending
  /\ \A c \in state.pending : intervention[c] = "pending"

\* And one parked on sub-agents: an answer, or the resume that the last one made.
AsksAgents ==
  /\ \A c \in state.pending : result[c] \in {"deferred", "result"}
  /\ SomeLive \/ \E c \in state.pending : result[c] = "deferred"

Held ==
  /\ state.status = "running" => SomeLive
  /\ \A m \in due : Live(m) /\ IsStep(m, "tool_result") => state.shown = {}
  /\ state.status = "waiting_for_human" => AsksHuman
  /\ state.status = "waiting_for_async_tool" => AsksAgents

HeldInv == StepsInv /\ ShownInv /\ (Survived => Held)

\* A step that is saved holds what it leaves behind.
LEMMA AdvanceHeld ==
  ASSUME IInv, NEW m, NEW next, Advances(m, next), next # "resume", asked' # 0,
         next = "llm_result" /\ asked' = 1 => state'.shown = {},
         Survived' =>
           /\ next = "tool_result" /\ state'.status = "running" => state'.shown = {}
           /\ state'.status = "waiting_for_human" => AsksHuman'
           /\ state'.status = "waiting_for_async_tool" =>
                /\ \A c \in state'.pending : result'[c] \in {"deferred", "result"}
                /\ \E c \in state'.pending : result'[c] = "deferred"
  PROVE  HeldInv'
<1>1. \A n \in due' : Live(n)' => /\ state'.status = "running"
                                  /\ \A kinds : ~IsAnswer(n, kinds)
                                  /\ \A phase : IsStep(n, phase) => phase = next
  BY Outdates
<1>2. StepsInv'
  BY <1>1 DEF StepsInv
<1>3. ShownInv'
  BY <1>1 DEF ShownInv
<1>4. state'.status = "running" => SomeLive'
  <2> SUFFICES ASSUME state'.status = "running" PROVE SomeLive'
    OBVIOUS
  <2>1. PICK i : i = m.index + 1
    OBVIOUS
  <2>2. i \in Nat /\ state'.stepCount = i /\ next \in Phases
    BY <2>1, LiveLevel DEF Advances
  <2>3. Step(i, next) \in due'
    BY <2>1 DEF Advances, Done
  <2>4. Step(i, next).index = i
    BY DEF Step
  <2>5. Live(Step(i, next))'
    BY <2>2, <2>3, <2>4 DEF Live, Terminal
  <2> QED BY <2>3, <2>5 DEF SomeLive
<1>5. Survived' => Held'
  BY <1>1, <1>4 DEF Held, AsksAgents
<1> QED BY <1>2, <1>3, <1>5 DEF HeldInv

\* One that halts the operation leaves the human to go on with the others, or is what
\* the property excepts.
LEMMA HaltHeld ==
  ASSUME IInv, NEW m, Halts(m), asked' # 0,
         Survived' => state'.status = "waiting_for_human" /\ AsksHuman'
  PROVE  HeldInv'
<1>1. \A n \in due' : ~Live(n)'
  BY HaltOutdates
<1> QED BY <1>1 DEF HeldInv, StepsInv, ShownInv, Held

\* And so does what leaves the state alone.
LEMMA StaysHeld ==
  ASSUME HeldInv, UNCHANGED <<state, asked, mishaps>>,
         Killed => Killed',
         \A n \in due : Live(n) => n \in due',
         \A n \in due' : \A phase \in Phases :
           IsStep(n, phase) =>
             n \in due \/ (phase = "resume" /\ state.status = "waiting_for_async_tool"),
         ~Killed' => intervention' = intervention,
         ~Killed' /\ state.status = "waiting_for_async_tool" /\ AsksAgents => AsksAgents'
  PROVE  HeldInv'
<1>1. \A n \in due : n \in due' => (Live(n)' <=> Live(n))
  BY DEF Live
<1>2. {"resume", "llm_result", "tool_result"} \subseteq Phases
  BY DEF Phases
<1>3. ASSUME NEW n \in due', Live(n)', NEW phase \in Phases, IsStep(n, phase)
      PROVE  \/ n \in due /\ Live(n)
             \/ phase = "resume" /\ state.status = "waiting_for_async_tool"
  BY <1>1, <1>3
<1>4. StepsInv'
  BY <1>2, <1>3 DEF HeldInv, StepsInv
<1>5. ShownInv'
  BY <1>2, <1>3 DEF HeldInv, ShownInv
<1>6. SomeLive => SomeLive'
  BY <1>1 DEF SomeLive
<1>7. ASSUME Survived' PROVE Held'
  <2>1. Held /\ intervention' = intervention
    BY <1>7 DEF HeldInv, Survived
  <2>2. \A n \in due' : Live(n)' /\ IsStep(n, "tool_result") => state'.shown = {}
    BY <1>2, <1>3, <2>1 DEF Held
  <2>3. AsksHuman => AsksHuman'
    BY <2>1 DEF AsksHuman
  <2> QED BY <1>6, <1>7, <2>1, <2>2, <2>3 DEF Held, Survived
<1> QED BY <1>4, <1>5, <1>7 DEF HeldInv

\* An operation that is over waits for nobody.
LEMMA OverHeld ==
  ASSUME state'.status \in Terminal, asked' = 0 => state'.shown = {}
  PROVE  HeldInv'
<1>1. \A n \in due' : ~Live(n)'
  BY DEF Live
<1> QED BY <1>1 DEF HeldInv, StepsInv, ShownInv, Held, Terminal

\* The operation is created with a step.
LEMMA InitHeld == Init => HeldInv
<1> SUFFICES ASSUME Init PROVE HeldInv
  OBVIOUS
<1>1. PICK first : first = Step(0, "user_input")
  OBVIOUS
<1>2. /\ due = {first} /\ state.status = "running" /\ state.stepCount = 0
      /\ state.shown = {} /\ asked = 0
  BY <1>1 DEF Init
<1>3. first.index = 0 /\ \A phase \in Phases : IsStep(first, phase) => phase = "user_input"
  BY <1>1, StepMade DEF Phases
<1>4. Live(first)
  BY <1>2, <1>3 DEF Live, Terminal
<1>5. SomeLive
  BY <1>2, <1>4 DEF SomeLive
<1>6. StepsInv
  BY <1>2, <1>3 DEF StepsInv, Phases
<1> QED BY <1>2, <1>5, <1>6 DEF HeldInv, ShownInv, Held

\* What a done or repeated delivery does to the faults.
LEMMA DoneKilled ==
  ASSUME NEW m, NEW published, Done(m, published)
  PROVE  Killed => Killed'
BY DEF Done, Fault, Killed

\* A step that is saved does not undo a fault.
LEMMA AdvanceKilled ==
  ASSUME NEW m, NEW next, Advances(m, next)
  PROVE  Killed => Killed'
BY DoneKilled DEF Advances

\* The first call of the model shows nothing yet.
LEMMA UserInputHeld ==
  ASSUME IInv, HeldInv, NEW m, UserInput(m)
  PROVE  HeldInv'
<1>1. Live(m) /\ CallModel(m, state)
  BY DEF UserInput
<1>2. state.stepCount = 0 /\ asked = 0
  BY LiveLevel DEF UserInput, IInv, BeginInv
<1>3. PICK s \in States : s = state
  BY DEF IInv, TypeInv
<1>4. /\ Advances(m, "llm_result") /\ asked' # 0
      /\ state'.status = state.status /\ state'.shown = state.shown
  BY <1>1, <1>3, CallSaves
<1>5. state.status = "running"
  BY <1>1, <1>2 DEF Live, Terminal, IInv, BeginInv
<1>6. state.shown = {}
  BY <1>2 DEF HeldInv, ShownInv
<1> QED BY <1>4, <1>5, <1>6, AdvanceHeld

\* The first reply is taken apart: what it parks for is what it has just asked for.
LEMMA RunCallsHeld ==
  ASSUME IInv, HeldInv, NEW m,
         NEW thrown \in SUBSET NeedsOf("nobody"),
         NEW orphaned \in SUBSET {c \in thrown : nature[c] = "deferred"},
         RunCallsBut(m, thrown, orphaned)
  PROVE  HeldInv'
<1> DEFINE atOnce == NeedsOf("nobody")
           ask == NeedsOf("human")
           consent == {c \in atOnce \ thrown : nature[c] = "consent"}
           deferred == {c \in atOnce \ thrown : nature[c] = "deferred"}
           plain == {c \in atOnce \ thrown : nature[c] = "plain"}
           parked == consent # {} \/ deferred # {}
           refreshed == [state EXCEPT !.shown = IF Cardinality(atOnce) > 1
                                                THEN consent ELSE @]
<1>1. /\ Live(m) /\ IsStep(m, "llm_result") /\ asked = 1 /\ asked' = asked
      /\ result' = [c \in Calls |-> CASE c \in plain -> "result"
                                      [] c \in deferred \cup consent \cup orphaned -> nature[c]
                                      [] OTHER -> "none"]
      /\ intervention' = [c \in Calls |->
           IF c \in consent \/ (c \in ask /\ ~parked) THEN "pending" ELSE "none"]
      /\ CASE consent # {} -> Park(m, refreshed, "waiting_for_human", consent)
           [] consent = {} /\ deferred # {} ->
                Park(m, refreshed, "waiting_for_async_tool", deferred)
           [] ~parked /\ ask # {} -> Park(m, refreshed, "waiting_for_human", ask)
           [] OTHER -> Save(m, refreshed, "tool_result")
  BY DEF RunCallsBut
<1>2. m \in due /\ state \in States
  BY <1>1, LiveLevel DEF IInv, TypeInv
<1>3. state.shown = {} /\ state.status = "running"
  <2>1. "llm_result" \in Phases \ {"resume"}
    BY DEF Phases
  <2> QED BY <1>1, <1>2, <2>1 DEF HeldInv, ShownInv, StepsInv
<1>4. /\ consent \in SUBSET Calls /\ deferred \in SUBSET Calls /\ ask \in SUBSET Calls
      /\ \A c \in deferred : c \notin plain /\ nature[c] = "deferred"
  BY DEF NeedsOf
<1>5. /\ refreshed \in States /\ refreshed.stepCount = state.stepCount
      /\ refreshed.status = "running" /\ refreshed.shown \in {consent, {}}
  BY <1>2, <1>3, <1>4 DEF States
<1>6. PICK s \in States : s = refreshed
  BY <1>5
<1>7. \A c \in deferred : result'[c] = "deferred"
  BY <1>1, <1>4
<1>8. /\ \A c \in consent : intervention'[c] = "pending"
      /\ ~parked => \A c \in ask : intervention'[c] = "pending"
  BY <1>1, <1>4
<1>9. "waiting_for_human" \in Waits /\ "waiting_for_async_tool" \in Waits
  BY DEF Waits
<1>10. PICK c1 \in SUBSET Calls, c2 \in SUBSET Calls, c3 \in SUBSET Calls :
         c1 = consent /\ c2 = deferred /\ c3 = ask
  BY <1>4
<1> HIDE DEF refreshed, consent, deferred, ask, plain, atOnce
<1>11. CASE consent # {}
  <2>1. /\ Advances(m, "none") /\ state'.status = "waiting_for_human"
        /\ state'.pending = consent /\ state'.shown \in {consent, {}}
    BY <1>1, <1>5, <1>6, <1>9, <1>10, <1>11, ParkAdvances
  <2>2. AsksHuman'
    BY <1>8, <1>11, <2>1 DEF AsksHuman
  <2> QED BY <1>1, <2>1, <2>2, AdvanceHeld
<1>12. CASE consent = {} /\ deferred # {}
  <2>1. /\ Advances(m, "none") /\ state'.status = "waiting_for_async_tool"
        /\ state'.pending = deferred
    BY <1>1, <1>5, <1>6, <1>9, <1>10, <1>12, ParkAdvances
  <2> QED BY <1>1, <1>7, <1>12, <2>1, AdvanceHeld
<1>13. CASE ~parked /\ ask # {}
  <2>1. /\ Advances(m, "none") /\ state'.status = "waiting_for_human"
        /\ state'.pending = ask /\ state'.shown \in {consent, {}}
    BY <1>1, <1>5, <1>6, <1>9, <1>10, <1>13, ParkAdvances
  <2>2. AsksHuman'
    BY <1>8, <1>13, <2>1 DEF AsksHuman
  <2> QED BY <1>1, <2>1, <2>2, AdvanceHeld
<1>14. CASE ~parked /\ ask = {}
  <2>1. "tool_result" \in Phases \ {"user_input"}
    BY DEF Phases
  <2>2. Save(m, s, "tool_result")
    BY <1>1, <1>6, <1>14
  <2>3. /\ Advances(m, "tool_result") /\ state'.status = "running"
        /\ state'.shown \in {consent, {}}
    BY <1>1, <1>5, <1>6, <2>1, <2>2, SaveAdvances
  <2> QED BY <1>1, <1>14, <2>3, AdvanceHeld
<1> QED BY <1>11, <1>12, <1>13, <1>14

\* The only call that needs nobody throws: the others ask the human.
LEMMA CallThrowsHeld ==
  ASSUME IInv, HeldInv, NEW m, CallThrows(m)
  PROVE  HeldInv'
<1> DEFINE ask == NeedsOf("human")
<1>1. /\ Live(m) /\ IsStep(m, "llm_result") /\ asked = 1 /\ asked' = asked
      /\ \A c \in ask : intervention'[c] = "pending"
      /\ IF ask # {} THEN Park(m, state, "waiting_for_human", ask) ELSE Halt(m, state)
      /\ mishaps' = mishaps \cup {IF ask # {} THEN "threw" ELSE "halted"}
  BY DEF CallThrows, NeedsOf
<1>2. state.shown = {} /\ m \in due
  BY <1>1, LiveLevel DEF HeldInv, ShownInv
<1>3. PICK pending \in SUBSET Calls : pending = ask
  BY DEF NeedsOf
<1>4. PICK s \in States : s = state
  BY DEF IInv, TypeInv
<1> HIDE DEF ask
<1>5. CASE ask # {}
  <2>1. "waiting_for_human" \in Waits
    BY DEF Waits
  <2>2. /\ Advances(m, "none") /\ state'.status = "waiting_for_human"
        /\ state'.pending = ask /\ state'.shown = {}
    BY <1>1, <1>2, <1>3, <1>4, <1>5, <2>1, ParkAdvances
  <2>3. AsksHuman'
    BY <1>1, <1>5, <2>2 DEF AsksHuman
  <2> QED BY <1>1, <2>2, <2>3, AdvanceHeld
<1>6. CASE ask = {}
  <2>1. Halts(m)
    BY <1>1, <1>4, <1>6, HaltHalts
  <2>2. ~Survived'
    BY <1>1, <1>6 DEF Survived
  <2> QED BY <1>1, <2>1, <2>2, HaltHeld
<1> QED BY <1>5, <1>6

\* The results go to the model, since no placeholder is left that says pending.
LEMMA ToolResultHeld ==
  ASSUME IInv, HeldInv, NEW m, ToolResult(m)
  PROVE  HeldInv'
<1>1. /\ Live(m) /\ m \in due /\ m \in Messages /\ IsStep(m, "tool_result")
      /\ UNCHANGED mishaps
  BY LiveLevel DEF ToolResult
<1>2. asked > 0 /\ asked \in Nat
  <2>1. ~IsStep(m, "user_input")
    BY <1>1, Kinds
  <2> QED BY <1>1, <2>1, Called
<1>3. state.status = "running"
  <2>1. "tool_result" \in Phases \ {"resume"}
    BY DEF Phases
  <2> QED BY <1>1, <2>1 DEF HeldInv, StepsInv
<1>4. PICK s \in States : s = state
  BY DEF IInv, TypeInv
<1>5. CASE state.shown = {} /\ CallModel(m, state)
  <2>1. /\ Advances(m, "llm_result") /\ asked' # 0 /\ state'.status = "running"
        /\ state'.shown = {}
    BY <1>1, <1>3, <1>4, <1>5, CallSaves
  <2> QED BY <2>1, AdvanceHeld
<1>6. CASE /\ state.shown # {} /\ Park(m, state, "waiting_for_human", state.shown)
           /\ UNCHANGED asked
  <2>1. PICK shown \in SUBSET Calls : shown = state.shown
    BY <1>4 DEF States
  <2>2. "waiting_for_human" \in Waits
    BY DEF Waits
  <2>3. Advances(m, "none") /\ state'.status = "waiting_for_human"
    BY <1>1, <1>4, <1>6, <2>1, <2>2, ParkAdvances
  <2>4. ~Survived
    BY <1>1, <1>6 DEF HeldInv, Held
  <2>5. ~Survived'
    BY <1>1, <2>3, <2>4, AdvanceKilled DEF Survived
  <2> QED BY <1>1, <1>2, <1>6, <2>3, <2>4, <2>5, AdvanceHeld
<1> QED BY <1>5, <1>6 DEF ToolResult

\* A step that does not begin the operation leaves a called model.
LEMMA NotFirst ==
  ASSUME IInv, NEW m, Live(m), NEW phase, IsStep(m, phase), phase # "user_input"
  PROVE  asked > 0 /\ asked \in Nat
<1>1. ~IsStep(m, "user_input")
  BY LiveLevel, Kinds
<1> QED BY <1>1, Called

\* The later reply ends the turn.
LEMMA EndTurnHeld ==
  ASSUME IInv, NEW m, EndTurn(m)
  PROVE  HeldInv'
<1>1. Finish(m, state) /\ asked > 1 /\ UNCHANGED asked
  BY DEF EndTurn
<1>2. PICK s \in States : s = state
  BY DEF IInv, TypeInv
<1>3. state'.status \in Terminal
  BY <1>1, <1>2, FinishEnds
<1> QED BY <1>1, <1>3, OverHeld

\* The resume calls the model again.
LEMMA ResumeAsyncToolHeld ==
  ASSUME IInv, NEW m, ResumeAsyncTool(m)
  PROVE  HeldInv'
<1> DEFINE shown == {c \in Calls : intervention[c] = "pending"}
<1>1. /\ Live(m) /\ IsStep(m, "resume")
      /\ CallModel(m, [state EXCEPT !.status = "running", !.pending = {}, !.shown = shown])
  BY DEF ResumeAsyncTool
<1>2. asked > 0 /\ asked \in Nat /\ asked' = asked + 1
  BY <1>1, NotFirst DEF CallModel
<1>3. PICK s : s = [state EXCEPT !.status = "running", !.pending = {}, !.shown = shown]
  OBVIOUS
<1>4. s \in States /\ s.stepCount = state.stepCount /\ s.status = "running"
  BY <1>3 DEF States, Status, IInv, TypeInv
<1>5. Advances(m, "llm_result") /\ state'.status = "running"
  BY <1>1, <1>3, <1>4, CallSaves
<1>6. asked' # 0 /\ asked' # 1
  BY <1>2
<1> QED BY <1>5, <1>6, AdvanceHeld

\* The approved call is held by its result, by its sub-agent or by its new question,
\* and the others, still pending, by theirs.
LEMMA ApproveHeld ==
  ASSUME IInv, HeldInv, NEW m, Approve(m)
  PROVE  HeldInv'
<1>1. PICK c \in Calls : c = m.call
  BY TakenFacts DEF Approve
<1>2. PICK s \in States : s = Without(c)
  BY WithoutTyped DEF IInv
<1>3. /\ s.stepCount = state.stepCount /\ s.pending = state.pending \ {c}
      /\ s.status = IF s.pending = {} THEN "running" ELSE "waiting_for_human"
      /\ s.shown = state.shown /\ s.shown \subseteq Calls /\ s.pending \subseteq Calls
  BY <1>2, WithoutTyped DEF IInv, TypeInv, States, Without
<1> DEFINE consents == Consents(c)
<1>4. /\ Live(m) /\ state.status = "waiting_for_human" /\ asked > 0 /\ asked' = asked
      /\ intervention' = [intervention EXCEPT ![c] = IF consents THEN "pending" ELSE "approved"]
      /\ result' = [result EXCEPT ![c] = CASE consents -> "consent"
                                           [] nature[c] = "deferred" -> "deferred"
                                           [] OTHER -> "result"]
      /\ CASE consents -> Park(m, s, "waiting_for_human", {c})
           [] nature[c] = "deferred" -> Park(m, s, "waiting_for_async_tool", {c})
           [] OTHER -> Save(m, [s EXCEPT !.shown = @ \ {c}], "tool_result")
      /\ mishaps' = IF s.pending = {} THEN mishaps
                    ELSE IF consents THEN mishaps \cup {"consent"}
                    ELSE IF nature[c] = "deferred" THEN mishaps \cup {"deferred"} ELSE mishaps
  BY <1>1, <1>2, TakenFacts DEF Approve
<1>5. /\ consents => intervention'[c] = "pending"
      /\ ~consents /\ nature[c] = "deferred" => result'[c] = "deferred"
      /\ \A d \in Calls : d # c => intervention'[d] = intervention[d]
  BY <1>4 DEF IInv, TypeInv
<1>6. "waiting_for_human" \in Waits /\ "waiting_for_async_tool" \in Waits
  BY DEF Waits
<1>7. PICK alone \in SUBSET Calls : alone = {c}
  OBVIOUS
<1>8. ASSUME Survived', Killed => Killed'
      PROVE  AsksHuman
  <2>1. mishaps \subseteq mishaps'
    BY <1>4
  <2> QED BY <1>4, <1>8, <2>1 DEF HeldInv, Held, Survived
<1>9. asked' # 0 /\ asked \in Nat
  BY <1>4 DEF IInv, TypeInv
<1> HIDE DEF consents
<1>10. CASE consents
  <2>1. /\ Advances(m, "none") /\ state'.status = "waiting_for_human"
        /\ state'.pending = {c} /\ state'.shown = s.shown
    <3>0. nature[c] # "deferred"
      BY <1>10 DEF consents, Consents
    <3>1. Park(m, s, "waiting_for_human", alone) /\ Live(m)
      BY <1>4, <1>7, <1>10, <3>0
    <3> QED BY <1>3, <1>6, <1>7, <3>1, ParkAdvances
  <2>2. ASSUME Survived' PROVE AsksHuman'
    <3>1. AsksHuman
      BY <1>8, <2>1, <2>2, AdvanceKilled
    <3>2. s.pending = {}
      BY <1>4, <1>10, <2>2 DEF Survived
    <3> QED BY <1>3, <1>5, <1>10, <2>1, <3>1, <3>2 DEF AsksHuman
  <2> QED BY <1>9, <2>1, <2>2, AdvanceHeld
<1>11. CASE ~consents /\ nature[c] = "deferred"
  <2>1. /\ Advances(m, "none") /\ state'.status = "waiting_for_async_tool"
        /\ state'.pending = {c}
    <3>1. Park(m, s, "waiting_for_async_tool", alone) /\ Live(m)
      BY <1>4, <1>7, <1>11
    <3> QED BY <1>3, <1>6, <1>7, <3>1, ParkAdvances
  <2> QED BY <1>5, <1>9, <1>11, <2>1, AdvanceHeld
<1>12. CASE ~consents /\ nature[c] # "deferred"
  <2>1. PICK r : r = [s EXCEPT !.shown = @ \ {c}]
    OBVIOUS
  <2>2. /\ r \in States /\ r.stepCount = state.stepCount
        /\ r.status = s.status /\ r.pending = s.pending /\ r.shown = state.shown \ {c}
    BY <1>3, <2>1 DEF States
  <2>3. Save(m, r, "tool_result") /\ "tool_result" \in Phases \ {"user_input"}
    BY <1>4, <1>12, <2>1 DEF Phases
  <2>4. /\ Advances(m, "tool_result") /\ state'.status = s.status
        /\ state'.pending = s.pending /\ state'.shown = state.shown \ {c}
    BY <1>4, <2>2, <2>3, SaveAdvances
  <2>5. ASSUME Survived'
        PROVE  /\ state'.status = "running" => state'.shown = {}
               /\ state'.status = "waiting_for_human" => AsksHuman'
    <3>1. AsksHuman
      BY <1>8, <2>4, <2>5, AdvanceKilled
    <3>2. state'.shown \subseteq state'.pending
      BY <1>3, <2>4, <3>1 DEF AsksHuman
    <3>3. \A d \in state'.pending : intervention'[d] = "pending"
      BY <1>3, <1>5, <2>4, <3>1 DEF AsksHuman
    <3> QED BY <1>3, <2>4, <3>2, <3>3 DEF AsksHuman
  <2>6. state'.status # "waiting_for_async_tool"
    BY <1>3, <2>4
  <2> QED BY <1>9, <2>4, <2>5, <2>6, AdvanceHeld
<1> QED BY <1>10, <1>11, <1>12

\* An approved tool throws: the others, still pending, hold the operation.
LEMMA ApprovedThrowsHeld ==
  ASSUME IInv, HeldInv, NEW m, ApprovedThrows(m)
  PROVE  HeldInv'
<1>1. PICK c \in Calls : c = m.call
  BY TakenFacts DEF ApprovedThrows
<1>2. PICK s \in States : s = Without(c)
  BY WithoutTyped DEF IInv
<1>3. /\ s.stepCount = state.stepCount /\ s.pending = state.pending \ {c}
      /\ s.status = IF s.pending = {} THEN "running" ELSE "waiting_for_human"
      /\ s.shown = state.shown
  BY <1>2, WithoutTyped DEF IInv, TypeInv, States, Without
<1>4. /\ Live(m) /\ state.status = "waiting_for_human" /\ asked > 0 /\ asked' = asked
      /\ \A d \in Calls : d # c => intervention'[d] = intervention[d]
      /\ Halt(m, s)
      /\ mishaps' = mishaps \cup
           {IF s.pending = {} \/ c \in s.shown THEN "halted" ELSE "threw"}
  BY <1>1, <1>2, TakenFacts DEF ApprovedThrows, IInv, TypeInv
<1>5. /\ Halts(m) /\ state'.status = s.status
      /\ state'.pending = s.pending /\ state'.shown = s.shown
  BY <1>3, <1>4, HaltHalts
<1>6. Killed => Killed'
  BY <1>5, DoneKilled DEF Halts
<1>7. ASSUME Survived' PROVE state'.status = "waiting_for_human" /\ AsksHuman'
  <2>1. s.pending # {} /\ c \notin s.shown
    BY <1>4, <1>7 DEF Survived
  <2>2. AsksHuman
    <3>1. Survived
      BY <1>4, <1>6, <1>7 DEF Survived
    <3> QED BY <1>4, <3>1 DEF HeldInv, Held
  <2>3. state.pending \subseteq Calls
    BY DEF IInv, TypeInv, States
  <2> QED BY <1>3, <1>4, <1>5, <2>1, <2>2, <2>3 DEF AsksHuman
<1>8. asked' # 0
  BY <1>4 DEF IInv, TypeInv
<1> QED BY <1>5, <1>7, <1>8, HaltHeld

\* The last rejected call lets the model go on; with others pending it is a mishap.
LEMMA RejectAndContinueHeld ==
  ASSUME IInv, NEW m, RejectAndContinue(m)
  PROVE  HeldInv'
<1>1. PICK c \in Calls : c = m.call
  BY TakenFacts DEF RejectAndContinue
<1>2. PICK s \in States : s = Without(c)
  BY WithoutTyped DEF IInv
<1>3. /\ s.stepCount = state.stepCount /\ s.pending = state.pending \ {c}
      /\ s.status = IF s.pending = {} THEN "running" ELSE "waiting_for_human"
  BY <1>2, WithoutTyped DEF IInv
<1>4. /\ Live(m) /\ CallModel(m, s) /\ asked > 0 /\ asked \in Nat
      /\ mishaps' = IF state.pending \subseteq {c} THEN mishaps ELSE mishaps \cup {"continued"}
  BY <1>1, <1>2, TakenFacts DEF RejectAndContinue
<1>5. Advances(m, "llm_result") /\ state'.status = s.status
  BY <1>3, <1>4, CallSaves
<1>6. asked' # 0 /\ asked' # 1
  BY <1>4 DEF CallModel
<1>7. Survived' => state'.status = "running"
  BY <1>3, <1>4, <1>5 DEF Survived
<1> QED BY <1>5, <1>6, <1>7, AdvanceHeld

\* Or the rejection ends the operation.
LEMMA RejectAndHaltHeld ==
  ASSUME IInv, NEW m, RejectAndHalt(m)
  PROVE  HeldInv'
<1>1. /\ Finish(m, [state EXCEPT !.pending = @ \ {m.call}]) /\ UNCHANGED asked
      /\ asked > 0 /\ asked \in Nat
  BY TakenFacts DEF RejectAndHalt
<1>2. PICK s : s = [state EXCEPT !.pending = @ \ {m.call}]
  OBVIOUS
<1>3. s \in States /\ s.stepCount = state.stepCount
  BY <1>2 DEF IInv, TypeInv, States
<1>4. state'.status \in Terminal
  BY <1>1, <1>2, <1>3, FinishEnds
<1> QED BY <1>1, <1>4, OverHeld

\* An answer that is not taken up is a mishap.
LEMMA AnswerIgnoredHeld ==
  ASSUME IInv, NEW m, AnswerIgnored(m)
  PROVE  HeldInv'
<1>1. /\ Live(m) /\ IsAnswer(m, AnswerKinds) /\ CallModel(m, state) /\ ~Survived'
  BY DEF AnswerIgnored, Survived
<1>2. PICK s \in States : s = state
  BY DEF IInv, TypeInv
<1>3. asked > 0 /\ asked \in Nat
  <2>1. ~IsStep(m, "user_input")
    BY <1>1, LiveLevel, Kinds
  <2> QED BY <1>1, <2>1, Called
<1>4. Advances(m, "llm_result")
  BY <1>1, <1>2, CallSaves
<1>5. asked' # 0 /\ asked' # 1
  BY <1>1, <1>3 DEF CallModel
<1> QED BY <1>1, <1>4, <1>5, AdvanceHeld

\* The user's interrupt ends it.
LEMMA InterruptHeld ==
  ASSUME IInv, HeldInv, Interrupt
  PROVE  HeldInv'
<1>1. state' = [state EXCEPT !.status = "interrupted"] /\ UNCHANGED asked
  BY DEF Interrupt
<1>2. state'.status \in Terminal /\ state'.shown = state.shown
  BY <1>1 DEF IInv, TypeInv, States, Terminal
<1> QED BY <1>1, <1>2, OverHeld DEF HeldInv, ShownInv

\* What is not live holds nothing.
LEMMA SkipHeld ==
  ASSUME HeldInv, NEW m, Skip(m)
  PROVE  HeldInv'
<1>1. /\ ~Live(m) /\ due' = due \ {m}
      /\ UNCHANGED <<state, asked, mishaps, faults, intervention, result>>
  BY DEF Skip, messages
<1>2. Killed => Killed'
  BY <1>1 DEF Killed
<1>3. AsksAgents => AsksAgents'
  BY <1>1 DEF AsksAgents, SomeLive, Live
<1> QED BY <1>1, <1>2, <1>3, StaysHeld

\* A sub-agent's answer leaves another one to come, or makes the resume.
LEMMA DeferredEndsHeld ==
  ASSUME IInv, HeldInv, NEW c \in Calls, DeferredEnds(c)
  PROVE  HeldInv'
<1>1. PICK resume : resume = Step(state.stepCount, "resume")
  OBVIOUS
<1>2. /\ result' = [result EXCEPT ![c] = "result"]
      /\ due' = IF /\ state.status = "waiting_for_async_tool"
                   /\ \A d \in state.pending : result'[d] = "result"
                THEN due \cup {resume} ELSE due
      /\ UNCHANGED <<state, asked, mishaps, faults, intervention>>
  BY <1>1 DEF DeferredEnds
<1>3. /\ resume.index = state.stepCount /\ state.stepCount \in Nat
      /\ \A phase : IsStep(resume, phase) => phase = "resume"
  BY <1>1 DEF Step, IsStep, IInv, TypeInv, States
<1>4. Killed => Killed'
  BY <1>2 DEF Killed
<1>5. ASSUME state.status = "waiting_for_async_tool", AsksAgents PROVE AsksAgents'
  <2>1. \A d \in state.pending : result'[d] \in {"deferred", "result"}
    BY <1>2, <1>5 DEF AsksAgents, IInv, TypeInv, States
  <2>2. CASE \A d \in state.pending : result'[d] = "result"
    <3>1. resume \in due'
      BY <1>2, <1>5, <2>2
    <3>2. Live(resume)'
      BY <1>2, <1>3, <1>5, <3>1 DEF Live, Terminal
    <3> QED BY <1>2, <2>1, <3>1, <3>2 DEF AsksAgents, SomeLive
  <2>3. CASE ~\A d \in state.pending : result'[d] = "result"
    BY <1>2, <2>1, <2>3 DEF AsksAgents
  <2> QED BY <2>2, <2>3
<1>6. \A n \in due' : \A phase \in Phases :
        IsStep(n, phase) =>
          n \in due \/ (phase = "resume" /\ state.status = "waiting_for_async_tool")
  BY <1>2, <1>3
<1>7. \A n \in due : n \in due'
  BY <1>2
<1> QED BY <1>2, <1>4, <1>5, <1>6, <1>7, StaysHeld

\* The user's answer is one more message.
LEMMA UserAnswersHeld ==
  ASSUME HeldInv, NEW c \in Calls, NEW kind \in Answers, UserAnswers(c, kind)
  PROVE  HeldInv'
<1>1. /\ due' = due \cup {Answer(state.stepCount, kind, c)}
      /\ UNCHANGED <<state, asked, mishaps, faults, intervention, result>>
  BY DEF UserAnswers, messages
<1>2. Killed => Killed'
  BY <1>1 DEF Killed
<1>3. \A phase \in Phases : ~IsStep(Answer(state.stepCount, kind, c), phase)
  BY DEF Answer, IsStep
<1>4. AsksAgents => AsksAgents'
  BY <1>1 DEF AsksAgents, SomeLive, Live
<1>5. \A n \in due' : \A phase \in Phases : IsStep(n, phase) => n \in due
  BY <1>1, <1>3
<1> QED BY <1>1, <1>2, <1>4, <1>5, StaysHeld

\* A worker that is killed is what the property excepts.
LEMMA KilledHeld ==
  ASSUME IInv, HeldInv, NEW m, KilledRejecting(m) \/ KilledApproving(m)
  PROVE  HeldInv'
<1>1. Fault("crash") /\ UNCHANGED <<state, asked, due, mishaps>>
  BY DEF KilledRejecting, KilledApproving
<1>2. Killed'
  <2>1. <<"crash", Cardinality(faults)>> \in faults'
    BY <1>1 DEF Fault
  <2> QED BY <2>1 DEF Killed
<1> QED BY <1>1, <1>2, StaysHeld

\* Every step leaves the operation held.
LEMMA NextHeld == IInv /\ HeldInv /\ [Next]_vars => HeldInv'
<1> SUFFICES ASSUME IInv, HeldInv, [Next]_vars PROVE HeldInv'
  OBVIOUS
<1>1. ASSUME NEW m \in due, Handle(m) PROVE HeldInv'
  <2>1. ASSUME RunCalls(m) PROVE HeldInv'
    BY <2>1, RunCallsHeld DEF RunCalls
  <2> QED BY <1>1, <2>1, SkipHeld, UserInputHeld, CallThrowsHeld, ToolResultHeld, EndTurnHeld,
             ResumeAsyncToolHeld, ApproveHeld, ApprovedThrowsHeld, RejectAndContinueHeld,
             RejectAndHaltHeld, AnswerIgnoredHeld DEF Handle
<1>2. ASSUME NEW m \in due, KilledRejecting(m) \/ KilledApproving(m) PROVE HeldInv'
  BY <1>2, KilledHeld
<1>3. ASSUME NEW c \in Calls, DeferredEnds(c) \/ \E kind \in Answers : UserAnswers(c, kind)
      PROVE  HeldInv'
  BY <1>3, DeferredEndsHeld, UserAnswersHeld
<1>4. CASE Interrupt
  BY <1>4, InterruptHeld
<1>5. CASE UNCHANGED vars
  BY <1>5 DEF vars, HeldInv, StepsInv, ShownInv, Held, AsksHuman, AsksAgents, SomeLive,
     Live, Killed, Survived
<1> QED BY <1>1, <1>2, <1>3, <1>4, <1>5 DEF Next

\* Whatever the calls, the answers and the faults, an operation that is not over has
\* a step or an answer to take up, or somebody who is waited for and can move it,
\* but for a killed worker or a mishap: only of the tools that throw those that leave
\* others to go on with are none.
THEOREM NeverStuckTheorem == Spec => []NeverStuck
<1>1. IInv /\ HeldInv => NeverStuck
  <2> SUFFICES ASSUME IInv, HeldInv, Survived, state.status \notin Terminal
               PROVE  \/ SomeLive
                      \/ /\ state.status = "waiting_for_async_tool"
                         /\ \E c \in state.pending : result[c] = "deferred"
                      \/ /\ state.status = "waiting_for_human"
                         /\ \E c \in state.pending : intervention[c] = "pending"
    BY DEF NeverStuck, SomeLive
  <2>1. Held
    BY DEF HeldInv
  <2>2. state.status \in {"running", "waiting_for_human", "waiting_for_async_tool"}
    BY DEF IInv, TypeInv, States, Status, Terminal
  <2> QED BY <2>1, <2>2 DEF Held, AsksHuman, AsksAgents
<1> QED BY <1>1, InitHeld, NextHeld, InvariantTheorem, PTL DEF Spec
===============================================================================
