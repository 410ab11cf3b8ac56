-------------------------- MODULE EventStream_proofs --------------------------
(* Theorems about EventStream, for any bounds, capacity, connections and      *)
(* faults: a session is shown the events in order, each once, with no gap     *)
(* but what Redis dropped, and one that is ended has been shown everything.   *)
(* The inductive invariant follows the events from the cursor through the     *)
(* current connection's pipe to the id its subscription reads from.           *)
EXTENDS EventStream, SequenceTheorems, TLAPS

\* A status that ends the stream is saved with an end, or that one was not heard;
\* a step that is about to save one again has saved it before.
EndInv ==
  /\ saved \in STREAM_END_STATUSES /\ ~unheard => \E e \in 1 .. Len(published) : Ends(e)
  /\ task \in STREAM_END_STATUSES => saved \in STREAM_END_STATUSES

\* A session that goes on has been told nothing, has connections left to try,
\* and was taken past no end but a dropped one; its cursor is at what it was shown.
SessionInv ==
  /\ Live => verdict = "none" /\ told = 0 /\ failed <= 2
  /\ cursor = shown
  /\ Live => \A e \in 1 .. shown : Ends(e) => e <= dropped

\* Nothing is under way on a connection that is not open yet.
UnopenedInv == \A c \in Conns : c > opened => pipe[c] = << >> /\ sub[c] = "none"

\* One event can follow another that was shown: a gap is what was dropped.
Follows(a, b) == a < b /\ (b = a + 1 \/ b - 1 <= dropped)

\* The pipe's events follow one another, the first of them the cursor.
Chain(from, seq) ==
  \A i \in 1 .. Len(seq) : Follows(IF i = 1 THEN from ELSE seq[i - 1], seq[i])

LastOf(from, seq) == IF seq = << >> THEN from ELSE seq[Len(seq)]

\* The subscription reads on from the last event it sent.
PipeInv(c) ==
  Live /\ c = current =>
    /\ Chain(cursor, pipe[c])
    /\ link[c] = "up" /\ sub[c] \in {"asked", "reading"} =>
         read[c] = LastOf(cursor, pipe[c])

IInv == TypeOK /\ EndInv /\ SessionInv /\ UnopenedInv /\ \A c \in Conns : PipeInv(c)

-----------------------------------------------------------------------------
\* Sequences, where the provers need help.

\* What Batch returns: the events after the id, in order, up to the last.
LEMMA BatchProperties ==
  ASSUME TypeOK, NEW id \in 0 .. Len(published), NEW last \in 1 .. Len(published),
         LastOfBatch(id, last)
  PROVE  /\ Batch(id, last) \in Seq(1 .. Len(published))
         /\ Len(Batch(id, last)) \in Nat \ {0}
         /\ Chain(id, Batch(id, last))
         /\ Batch(id, last)[Len(Batch(id, last))] = last
         /\ id < last
         /\ \A i \in id + 1 .. last :
              i <= dropped \/ \E k \in 1 .. Len(Batch(id, last)) : Batch(id, last)[k] = i
<1> DEFINE n == Len(published)
           first == Larger(id, dropped)
           batch == Batch(id, last)
<1>1. n \in Nat /\ dropped \in 0 .. n /\ first \in 0 .. n /\ (first = id \/ first = dropped)
      /\ id <= first /\ first < last /\ last <= n
  BY DEF TypeOK, Larger, LastOfBatch
<1>2. batch = [k \in 1 .. last - first |-> first + k]
  BY DEF Batch
<1> HIDE DEF n, first, batch
<1>3. last - first \in Nat \ {0} /\ \A k \in 1 .. last - first : first + k \in 1 .. n
  BY <1>1
<1>4. batch \in Seq(1 .. n) /\ Len(batch) = last - first
      /\ \A k \in 1 .. last - first : batch[k] = first + k
  BY <1>1, <1>2, <1>3
<1>5. Chain(id, batch)
  <2>1. ASSUME NEW k \in 1 .. last - first
        PROVE  Follows(IF k = 1 THEN id ELSE batch[k - 1], batch[k])
    <3>1. CASE k = 1
      BY <1>1, <1>4, <3>1 DEF Follows
    <3>2. CASE k # 1
      BY <1>1, <1>4, <3>2 DEF Follows
    <3> QED BY <3>1, <3>2
  <2> QED BY <1>4, <2>1 DEF Chain
<1>6. batch[Len(batch)] = last
  BY <1>1, <1>3, <1>4
<1>7. ASSUME NEW i \in id + 1 .. last, i > dropped
      PROVE  \E k \in 1 .. Len(batch) : batch[k] = i
  <2>1. i - first \in 1 .. last - first /\ first + (i - first) = i
    BY <1>1, <1>7
  <2> QED BY <1>4, <2>1
<1>8. \A i \in id + 1 .. last : i <= dropped \/ i > dropped
  BY <1>1
<1> QED BY <1>1, <1>3, <1>4, <1>5, <1>6, <1>7, <1>8 DEF n, batch

\* A batch read on from the last event of the pipe continues its chain.
LEMMA ChainConcat ==
  ASSUME NEW S, S \subseteq Nat, dropped \in Nat, NEW from \in Nat,
         NEW p \in Seq(S), NEW q \in Seq(S), q # << >>,
         Chain(from, p), Chain(LastOf(from, p), q)
  PROVE  /\ Chain(from, p \o q)
         /\ LastOf(from, p \o q) = q[Len(q)]
<1>1. /\ p \o q \in Seq(S)
      /\ Len(p \o q) = Len(p) + Len(q)
      /\ \A i \in 1 .. Len(p) + Len(q) :
           (p \o q)[i] = IF i <= Len(p) THEN p[i] ELSE q[i - Len(p)]
  BY ConcatProperties
<1>2. Len(p) \in Nat /\ Len(q) \in Nat \ {0} /\ (p = << >> <=> Len(p) = 0)
  BY EmptySeq, LenProperties
<1> DEFINE r == p \o q
<1> HIDE DEF r
<1>3. ASSUME NEW i \in 1 .. Len(p) + Len(q)
      PROVE  Follows(IF i = 1 THEN from ELSE r[i - 1], r[i])
  <2>1. CASE i <= Len(p)
    BY <1>1, <1>2, <2>1 DEF Chain, r
  <2>2. CASE i = Len(p) + 1
    <3>1. r[i] = q[1] /\ Follows(LastOf(from, p), q[1])
      BY <1>1, <1>2, <2>2 DEF Chain, r
    <3>2. (IF i = 1 THEN from ELSE r[i - 1]) = LastOf(from, p)
      BY <1>1, <1>2, <2>2 DEF LastOf, r
    <3> QED BY <3>1, <3>2
  <2>3. CASE i > Len(p) + 1
    <3>1. r[i] = q[i - Len(p)] /\ r[i - 1] = q[(i - Len(p)) - 1]
      BY <1>1, <1>2, <2>3 DEF r
    <3>2. i - Len(p) \in 1 .. Len(q) /\ i - Len(p) # 1 /\ i # 1
      BY <1>2, <2>3
    <3> QED BY <3>1, <3>2 DEF Chain
  <2> QED BY <1>2, <2>1, <2>2, <2>3
<1>4. Chain(from, p \o q)
  BY <1>1, <1>3 DEF Chain, r
<1>5. p \o q # << >> /\ (p \o q)[Len(p \o q)] = q[Len(q)]
  BY <1>1, <1>2, EmptySeq
<1> QED BY <1>4, <1>5 DEF LastOf

\* Showing the head of a chain leaves a chain from it.
LEMMA ChainTail ==
  ASSUME NEW S, S \subseteq Nat, NEW from \in Nat, NEW p \in Seq(S), p # << >>,
         Chain(from, p)
  PROVE  /\ Follows(from, Head(p))
         /\ Chain(Head(p), Tail(p))
         /\ LastOf(Head(p), Tail(p)) = LastOf(from, p)
<1>1. /\ Tail(p) \in Seq(S) /\ Len(Tail(p)) = Len(p) - 1
      /\ \A i \in 1 .. Len(Tail(p)) : Tail(p)[i] = p[i + 1]
  BY HeadTailProperties
<1>2. Len(p) \in Nat \ {0} /\ (Tail(p) = << >> <=> Len(Tail(p)) = 0)
  BY <1>1, EmptySeq
<1>4. Head(p) = p[1]
  OBVIOUS
<1>3. Chain(Head(p), Tail(p))
  BY <1>1, <1>2, <1>4 DEF Chain
<1>5. Follows(from, Head(p))
  BY <1>2, <1>4 DEF Chain
<1> QED BY <1>1, <1>2, <1>3, <1>4, <1>5 DEF LastOf

\* A connection's part of the invariant survives what does not touch it.
LEMMA PipeKept ==
  ASSUME TypeOK, NEW c \in Conns, PipeInv(c), dropped' \in Nat, dropped <= dropped',
         UNCHANGED <<cursor, current>>, Live' => Live, pipe'[c] = pipe[c],
         link'[c] = "up" /\ sub'[c] \in {"asked", "reading"} =>
           link[c] = "up" /\ sub[c] \in {"asked", "reading"} /\ read'[c] = read[c]
  PROVE  PipeInv(c)'
<1> SUFFICES ASSUME Live', c = current
             PROVE  /\ Chain(cursor, pipe[c])'
                    /\ (link[c] = "up" /\ sub[c] \in {"asked", "reading"} =>
                          read[c] = LastOf(cursor, pipe[c]))'
  BY DEF PipeInv
<1>1. pipe[c] \in Seq(1 .. Len(published)) /\ Len(published) \in Nat /\ cursor \in Nat
      /\ dropped \in Nat
  BY DEF TypeOK
<1>2. Chain(cursor, pipe[c])
  BY DEF PipeInv
<1>3. ASSUME NEW i \in 1 .. Len(pipe[c])
      PROVE  Follows(IF i = 1 THEN cursor ELSE pipe[c][i - 1], pipe[c][i])'
  <2> DEFINE before == IF i = 1 THEN cursor ELSE pipe[c][i - 1]
  <2>1. pipe[c][i] \in Nat /\ before \in Nat
    <3>1. \A k \in 1 .. Len(pipe[c]) : pipe[c][k] \in 1 .. Len(published)
      BY <1>1, ElementOfSeq
    <3>2. i # 1 => i - 1 \in 1 .. Len(pipe[c])
      BY <1>1, LenProperties
    <3> QED BY <1>1, <3>1, <3>2
  <2>2. before < pipe[c][i] /\ (pipe[c][i] = before + 1 \/ pipe[c][i] - 1 <= dropped)
    BY <1>2 DEF Chain, Follows
  <2>3. before' = before
    OBVIOUS
  <2> HIDE DEF before
  <2>4. Follows(before, pipe[c][i])'
    BY <1>1, <2>1, <2>2, <2>3 DEF Follows
  <2> QED BY <2>4 DEF before
<1>4. Chain(cursor, pipe[c])'
  BY <1>3 DEF Chain
<1>5. (link[c] = "up" /\ sub[c] \in {"asked", "reading"} =>
         read[c] = LastOf(cursor, pipe[c]))'
  BY DEF PipeInv, LastOf
<1> QED BY <1>4, <1>5

\* So does the pipe that a failure empties.
LEMMA PipeEmptied ==
  ASSUME NEW c \in Conns, pipe'[c] = << >>, link'[c] # "up"
  PROVE  PipeInv(c)'
BY DEF PipeInv, Chain

\* The session has not begun: there is one event, and no connection.
LEMMA InitInv == Init => IInv
<1> SUFFICES ASSUME Init PROVE IInv
  OBVIOUS
<1>1. Len(published) = 1 /\ published \in Seq(Events) /\ published[1] = "chunk"
  BY DEF Init, Events
<1>2. TypeOK
  <2>1. pipe \in [Conns -> Seq(1 .. Len(published))]
    BY EmptySeq DEF Init
  <2>2. read \in [Conns -> 0 .. Len(published)]
    BY <1>1 DEF Init
  <2>3. opened \in 0 .. MaxConns /\ faults \in 0 .. MaxFaults
    BY BoundsAssumption DEF Init
  <2>4. link \in [Conns -> {"none", "up", "silent", "down"}]
        /\ sub \in [Conns -> {"none", "asked", "reading", "closed", "refused"}]
    BY DEF Init
  <2>5. /\ dropped \in 0 .. Len(published) /\ owner \in BOOLEAN
        /\ task \in {"running", "overtaken", "failing", "ending", "idle"} \cup Pauses
        /\ saved \in {"running"} \cup Pauses /\ unheard \in BOOLEAN
    <3>1. dropped = 0 /\ owner = TRUE /\ task = "running" /\ saved = "running"
          /\ unheard = FALSE
      BY DEF Init
    <3>2. dropped \in 0 .. Len(published)
      BY <1>1, <3>1
    <3> QED BY <3>1, <3>2
  <2>6. /\ stage \in {"waiting", "opening", "open", "over", "gone"}
        /\ verdict \in {"none", "end", "error", "expired", "refused"}
        /\ recovering \in BOOLEAN /\ online \in BOOLEAN
    BY DEF Init
  <2>7. /\ current \in 0 .. opened /\ cursor \in 0 .. Len(published)
        /\ failed \in 0 .. 3 /\ shown \in 0 .. Len(published) /\ told \in 0 .. 1
    BY <1>1 DEF Init
  <2> QED BY <1>1, <2>1, <2>2, <2>3, <2>4, <2>5, <2>6, <2>7 DEF TypeOK
<1>3. EndInv /\ SessionInv /\ UnopenedInv
  BY <1>1 DEF Init, EndInv, SessionInv, UnopenedInv, STREAM_END_STATUSES, Pauses
<1>4. \A c \in Conns : PipeInv(c)
  BY DEF Init, PipeInv, Conns
<1> QED BY <1>2, <1>3, <1>4 DEF IInv

-----------------------------------------------------------------------------
\* The task: it publishes one event or none, and the end with what ends the stream.

Grows(event) ==
  /\ published' = Append(published, event)
  /\ dropped' \in dropped .. Len(published')

Rests ==
  /\ published' = published
  /\ dropped' \in dropped .. Len(published)

Moves == (\E event \in Events : Grows(event)) \/ Rests

\* A newly saved end of the stream is heard.
EndHeard ==
  saved' \in STREAM_END_STATUSES /\ ~unheard' =>
    \/ saved \in STREAM_END_STATUSES /\ ~unheard
    \/ published' = Append(published, "end")

TaskLeaves ==
  /\ owner' \in BOOLEAN /\ faults' \in 0 .. MaxFaults
  /\ task' \in {"running", "overtaken", "failing", "ending", "idle"} \cup Pauses
  /\ saved' \in {"running"} \cup Pauses /\ unheard' \in BOOLEAN
  /\ EndHeard /\ (task' \in STREAM_END_STATUSES => saved' \in STREAM_END_STATUSES)
  /\ UNCHANGED <<connVars, clientVars, online>>

\* A fault counts up to its bound.
LEMMA FaultStep ==
  ASSUME TypeOK, NEW kind, Fault(kind)
  PROVE  faults' \in 0 .. MaxFaults
BY BoundsAssumption DEF TypeOK, Fault

\* XADD appends one event, and drops no more than there are.
LEMMA PublishStep ==
  ASSUME TypeOK, NEW event \in Events, Publish(event)
  PROVE  Grows(event) /\ owner' \in BOOLEAN
<1>1. Len(published') = Len(published) + 1 /\ Len(published) \in Nat
  BY AppendProperties DEF TypeOK, Publish
<1> QED BY <1>1, BoundsAssumption DEF TypeOK, Publish, Larger, Grows

\* A publish that is made, made in vain or not made at all moves the stream.
LEMMA PublishMoves ==
  ASSUME TypeOK, NEW event \in Events, Publish(event) \/ Silence
  PROVE  Moves /\ owner' \in BOOLEAN
<1>1. CASE Publish(event)
  BY <1>1, PublishStep DEF Moves
<1>2. CASE Silence
  BY <1>2 DEF Silence, Moves, Rests, TypeOK
<1> QED BY <1>1, <1>2

\* Every step of the task grows the stream by an event or rests.
LEMMA TaskSteps ==
  ASSUME TypeOK, EndInv, Task
  PROVE  Moves /\ TaskLeaves
<1> DEFINE Tasks == {"running", "overtaken", "failing", "ending", "idle"}
           Closing == task \in STREAM_END_STATUSES => saved \in STREAM_END_STATUSES
<1>0. /\ task \in Tasks \cup Pauses
      /\ saved \in {"running"} \cup Pauses /\ unheard \in BOOLEAN
      /\ faults \in 0 .. MaxFaults /\ owner \in BOOLEAN
      /\ "chunk" \in Events /\ "error" \in Events /\ "end" \in Events
      /\ Closing /\ Tasks \cap STREAM_END_STATUSES = {}
  BY DEF TypeOK, EndInv, Events, STREAM_END_STATUSES, Pauses
<1>1. ASSUME NEW kind, Fault(kind) PROVE faults' \in 0 .. MaxFaults
  BY <1>1, FaultStep
<1> DEFINE Rest ==
             /\ owner' \in BOOLEAN /\ faults' \in 0 .. MaxFaults
             /\ saved' \in {"running"} \cup Pauses /\ unheard' \in BOOLEAN
             /\ UNCHANGED <<connVars, clientVars, online>>
<1>2. ASSUME Rest, EndHeard, task' \in Tasks \cup Pauses, task' \in Tasks \/ Closing'
      PROVE  TaskLeaves
  BY <1>0, <1>2 DEF TaskLeaves
<1> HIDE DEF Tasks
<1>3. CASE Chunk \/ ToolFails \/ StepFails
  <2>1. Moves /\ owner' \in BOOLEAN
    <3>1. PICK event \in Events : Publish(event) \/ Silence
      BY <1>0, <1>3 DEF Chunk, ToolFails, StepFails
    <3> QED BY <3>1, PublishMoves
  <2>2. Rest /\ EndHeard /\ task' \in Tasks
    BY <1>0, <1>3, <2>1 DEF Chunk, ToolFails, StepFails, Proceed, EndHeard, Tasks
  <2> QED BY <1>2, <2>1, <2>2
<1>4. CASE ReportError
  <2>1. Moves /\ owner' \in BOOLEAN /\ faults' \in 0 .. MaxFaults
    BY <1>0, <1>1, <1>4, PublishMoves DEF ReportError, PublishThrows
  <2>2. Rest /\ EndHeard /\ task' \in Tasks
    BY <1>0, <1>4, <2>1 DEF ReportError, Proceed, EndHeard, Tasks
  <2> QED BY <1>2, <2>1, <2>2
<1>5. CASE StepComplete
  <2>1. Moves /\ owner' \in BOOLEAN /\ faults' \in 0 .. MaxFaults
    BY <1>0, <1>1, <1>5, PublishMoves DEF StepComplete, PublishThrows
  <2>2. saved' \in {task, saved} /\ unheard' = unheard /\ task' \in {"idle", "failing"}
        /\ UNCHANGED <<connVars, clientVars, online>> /\ task \in Pauses
    BY <1>5 DEF StepComplete, Proceed
  <2>3. EndHeard
    BY <1>0, <2>2 DEF EndHeard
  <2>4. Rest /\ task' \in Tasks
    BY <1>0, <2>1, <2>2 DEF Tasks
  <2> QED BY <1>2, <2>1, <2>3, <2>4
<1>6. CASE Interrupt
  <2>1. Moves /\ owner' \in BOOLEAN /\ faults' \in 0 .. MaxFaults
    BY <1>0, <1>1, <1>6, PublishMoves DEF Interrupt, PublishThrows
  <2>2. EndHeard
    BY <1>0, <1>6 DEF Interrupt, PublishThrows, Publish, Silence, Enters, EndHeard
  <2>3. "interrupted" \in Pauses /\ "interrupted" \in STREAM_END_STATUSES
    BY DEF Pauses, STREAM_END_STATUSES
  <2>4. /\ saved' = "interrupted" /\ task' \in {task, "overtaken"}
        /\ UNCHANGED <<connVars, clientVars, online>>
    BY <1>6 DEF Interrupt, Proceed
  <2>5. unheard' \in BOOLEAN
    BY <1>0, <1>6 DEF Interrupt
  <2>6. Rest /\ task' \in Tasks \cup Pauses /\ Closing'
    BY <1>0, <2>1, <2>3, <2>4, <2>5 DEF Tasks
  <2> QED BY <1>2, <2>1, <2>2, <2>6
<1>7. CASE Resume
  <2>1. Moves /\ owner' \in BOOLEAN
    BY <1>0, <1>7, PublishMoves DEF Resume
  <2>2. EndHeard
    BY <1>7 DEF Resume, EndHeard, STREAM_END_STATUSES, Pauses
  <2>3. Rest /\ task' \in Tasks
    BY <1>0, <1>7, <2>1 DEF Resume, Proceed, Tasks
  <2> QED BY <1>2, <2>1, <2>2, <2>3
<1>8. CASE Forget
  <2>1. faults' \in 0 .. MaxFaults
    BY <1>1, <1>8 DEF Forget
  <2>2. Moves
    BY <1>8 DEF Forget, Moves, Rests, TypeOK
  <2>3. Rest /\ EndHeard /\ task' = task /\ saved' = saved
    BY <1>0, <1>8, <2>1 DEF Forget, EndHeard
  <2> QED BY <1>0, <1>2, <2>2, <2>3
<1>9. ASSUME NEW status \in {"running"} \cup Pauses, Save(status)
      PROVE  Moves /\ TaskLeaves
  <2>1. Moves /\ owner' \in BOOLEAN
    BY <1>0, <1>9, PublishMoves DEF Save
  <2>2. EndHeard
    BY <1>9 DEF Save, Enters, Publish, EndHeard
  <2>3. Rest /\ task' \in Tasks \cup Pauses /\ (task' \in Tasks \/ task' = saved')
    BY <1>0, <1>9, <2>1 DEF Save, AfterSave, Proceed, Tasks
  <2> QED BY <1>2, <2>1, <2>2, <2>3
<1>10. ASSUME NEW status \in {"running"} \cup Pauses, SaveUnheard(status)
       PROVE  Moves /\ TaskLeaves
  <2>1. Moves /\ owner' \in BOOLEAN /\ faults' \in 0 .. MaxFaults
    BY <1>0, <1>1, <1>10, PublishMoves DEF SaveUnheard, PublishThrows
  <2>2. EndHeard
    BY <1>0, <1>10 DEF SaveUnheard, PublishThrows, Publish, Silence, EndHeard
  <2>3. unheard' \in BOOLEAN
    BY <1>0, <1>10 DEF SaveUnheard
  <2>4. Rest /\ task' \in Tasks
    BY <1>0, <1>10, <2>1, <2>3 DEF SaveUnheard, Proceed, Tasks
  <2> QED BY <1>2, <2>1, <2>2, <2>4
<1> QED BY <1>3, <1>4, <1>5, <1>6, <1>7, <1>8, <1>9, <1>10 DEF Task

\* What a stream that grows or rests keeps.
LEMMA MovesKeeps ==
  ASSUME TypeOK, Moves
  PROVE  /\ published' \in Seq(Events)
         /\ Len(published) \in Nat /\ Len(published') \in Nat
         /\ Len(published) <= Len(published')
         /\ dropped \in Nat /\ dropped' \in dropped .. Len(published')
         /\ \A i \in 1 .. Len(published) : published'[i] = published[i]
<1>0. Len(published) \in Nat /\ dropped \in 0 .. Len(published) /\ published \in Seq(Events)
  BY DEF TypeOK
<1>1. CASE Rests
  BY <1>0, <1>1 DEF Rests
<1>2. ASSUME NEW event \in Events, Grows(event)
      PROVE  /\ published' \in Seq(Events)
             /\ Len(published') = Len(published) + 1
             /\ dropped' \in dropped .. Len(published')
             /\ \A i \in 1 .. Len(published) : published'[i] = published[i]
  BY <1>0, <1>2, AppendProperties DEF Grows
<1> QED BY <1>0, <1>1, <1>2 DEF Moves

\* A stream that grows or rests disturbs no session.
LEMMA TaskKeepsInv ==
  ASSUME IInv, Moves, TaskLeaves
  PROVE  IInv'
<1> USE DEF IInv
<1> DEFINE n == Len(published)
<1>0. n \in Nat /\ dropped \in 0 .. n /\ published \in Seq(Events) /\ shown \in 0 .. n
  BY DEF TypeOK
<1>1. /\ published' \in Seq(Events) /\ Len(published') \in Nat /\ n <= Len(published')
      /\ dropped' \in dropped .. Len(published')
      /\ \A i \in 1 .. n : published'[i] = published[i]
  BY MovesKeeps
<1>2. TypeOK'
  <2>1. 0 .. n \subseteq 0 .. Len(published') /\ 1 .. n \subseteq 1 .. Len(published')
    BY <1>0, <1>1
  <2>2. pipe' \in [Conns -> Seq(1 .. Len(published'))]
    <3>1. ASSUME NEW c \in Conns PROVE pipe[c] \in Seq(1 .. Len(published'))
      <4>1. pipe[c] \in Seq(1 .. n)
        BY DEF TypeOK
      <4> QED BY <2>1, <4>1, SeqMonotonic
    <3>2. pipe' = pipe /\ pipe = [c \in Conns |-> pipe[c]]
      BY DEF TypeOK, TaskLeaves, connVars
    <3> QED BY <3>1, <3>2
  <2>3. read' \in [Conns -> 0 .. Len(published')]
    BY <2>1 DEF TypeOK, TaskLeaves, connVars
  <2> QED BY <1>0, <1>1, <2>1, <2>2, <2>3 DEF TypeOK, TaskLeaves, connVars, clientVars
<1>3. EndInv'
  <2> SUFFICES ASSUME saved' \in STREAM_END_STATUSES, ~unheard'
               PROVE  \E e \in 1 .. Len(published') : published'[e] = "end"
    BY DEF EndInv, Ends, TaskLeaves
  <2>1. CASE saved \in STREAM_END_STATUSES /\ ~unheard
    <3>1. PICK e \in 1 .. n : published[e] = "end"
      BY <2>1 DEF EndInv, Ends
    <3>2. e \in 1 .. Len(published')
      BY <1>0, <1>1
    <3> QED BY <1>1, <3>1, <3>2
  <2>2. CASE published' = Append(published, "end")
    <3>1. Len(published') = n + 1 /\ published'[n + 1] = "end"
      BY <1>0, <2>2, AppendProperties DEF Events
    <3>2. n + 1 \in 1 .. Len(published')
      BY <1>0, <3>1
    <3> QED BY <3>1, <3>2
  <2> QED BY <2>1, <2>2 DEF TaskLeaves, EndHeard
<1>4. SessionInv'
  <2>1. UNCHANGED <<stage, verdict, told, failed, cursor, shown>>
    BY DEF TaskLeaves, clientVars
  <2>2. ASSUME Live, NEW e \in 1 .. shown, published'[e] = "end"
        PROVE  e <= dropped'
    <3>1. e \in 1 .. n
      BY <1>0
    <3>2. e <= dropped
      BY <1>1, <2>2, <3>1 DEF SessionInv, Ends
    <3> QED BY <1>0, <1>1, <3>1, <3>2
  <2> QED BY <2>1, <2>2 DEF SessionInv, Live, Ends
<1>5. UnopenedInv'
  BY DEF UnopenedInv, TaskLeaves, connVars
<1>6. ASSUME NEW c \in Conns PROVE PipeInv(c)'
  BY <1>0, <1>1, PipeKept DEF TaskLeaves, connVars, clientVars, Live
<1> QED BY <1>2, <1>3, <1>4, <1>5, <1>6

-----------------------------------------------------------------------------
\* The route and the network: the stream and the client stay as they are.

\* Steps of the connections need only answer for the pipes.
LEMMA ConnectionsMove ==
  ASSUME IInv, UNCHANGED <<streamVars, opened, clientVars>>,
         link' \in [Conns -> {"none", "up", "silent", "down"}],
         sub' \in [Conns -> {"none", "asked", "reading", "closed", "refused"}],
         read' \in [Conns -> 0 .. Len(published)],
         pipe' \in [Conns -> Seq(1 .. Len(published))],
         online' \in BOOLEAN, faults' \in 0 .. MaxFaults,
         UnopenedInv', \A c \in Conns : PipeInv(c)'
  PROVE  IInv'
<1>1. TypeOK'
  BY DEF IInv, TypeOK, streamVars, clientVars
<1>2. EndInv' /\ SessionInv'
  BY DEF IInv, EndInv, Ends, SessionInv, Live, streamVars, clientVars
<1> QED BY <1>1, <1>2 DEF IInv

\* A connection whose pipe, link and subscription stay, or get past their use.
LEMMA ConnectionStill ==
  ASSUME IInv, UNCHANGED <<streamVars, clientVars>>, NEW c \in Conns,
         pipe'[c] = pipe[c],
         link'[c] = "up" /\ sub'[c] \in {"asked", "reading"} =>
           link[c] = "up" /\ sub[c] \in {"asked", "reading"} /\ read'[c] = read[c]
  PROVE  PipeInv(c)'
<1>1. dropped \in Nat /\ dropped' = dropped
  BY DEF IInv, TypeOK, streamVars
<1>2. UNCHANGED <<cursor, current>> /\ (Live' => Live)
  BY DEF clientVars, Live
<1> QED BY <1>1, <1>2, PipeKept DEF IInv

\* A request that is let in reads from where it asked to.
LEMMA AuthorizeStep ==
  ASSUME IInv, NEW c \in Conns, Authorize(c)
  PROVE  IInv'
<1> USE DEF IInv
<1>1. faults' \in 0 .. MaxFaults
  BY FaultStep DEF Authorize, TypeOK
<1>2. sub' \in [Conns -> {"none", "asked", "reading", "closed", "refused"}]
      /\ UnopenedInv'
  BY DEF Authorize, TypeOK, UnopenedInv
<1>3. ASSUME NEW d \in Conns PROVE PipeInv(d)'
  <2>1. /\ pipe'[d] = pipe[d] /\ link'[d] = link[d] /\ read'[d] = read[d]
        /\ sub'[d] \in {"asked", "reading"} => sub[d] \in {"asked", "reading"}
    BY DEF Authorize, TypeOK
  <2>2. UNCHANGED <<streamVars, clientVars>>
    BY DEF Authorize
  <2> QED BY <2>1, <2>2, ConnectionStill
<1> QED BY <1>1, <1>2, <1>3, ConnectionsMove DEF Authorize, TypeOK

\* What onEvents writes continues the pipe, or goes to a link that is lost.
LEMMA ReadStreamStep ==
  ASSUME IInv, NEW c \in Conns, ReadStream(c)
  PROVE  IInv'
<1> USE DEF IInv
<1> DEFINE n == Len(published)
<1> PICK last \in 1 .. n :
      /\ LastOfBatch(read[c], last)
      /\ pipe' = [pipe EXCEPT ![c] = IF link[c] = "up" THEN pipe[c] \o Batch(read[c], last)
                                     ELSE pipe[c]]
      /\ read' = [read EXCEPT ![c] = IF Ends(last) THEN 0 ELSE last]
      /\ sub' = [sub EXCEPT ![c] = IF Ends(last) THEN "closed" ELSE sub[c]]
  BY DEF ReadStream
<1> DEFINE new == Batch(read[c], last)
<1>0. n \in Nat /\ dropped \in 0 .. n /\ read[c] \in 0 .. n /\ cursor \in 0 .. n
      /\ pipe[c] \in Seq(1 .. n) /\ sub[c] = "reading"
  BY DEF TypeOK, ReadStream
<1>1. /\ new \in Seq(1 .. n) /\ Chain(read[c], new)
      /\ new[Len(new)] = last /\ new # << >>
  BY <1>0, BatchProperties, EmptySeq
<1> HIDE DEF new
<1>2. pipe[c] \o new \in Seq(1 .. n)
  BY <1>0, <1>1, ConcatProperties
<1>3. /\ pipe' = [pipe EXCEPT ![c] = IF link[c] = "up" THEN pipe[c] \o new ELSE pipe[c]]
      /\ read' = [read EXCEPT ![c] = IF Ends(last) THEN 0 ELSE last]
      /\ sub' = [sub EXCEPT ![c] = IF Ends(last) THEN "closed" ELSE sub[c]]
      /\ UNCHANGED <<streamVars, link, opened, clientVars, online, faults>>
  BY DEF ReadStream, new
<1>4. /\ pipe' \in [Conns -> Seq(1 .. n)]
      /\ read' \in [Conns -> 0 .. n]
      /\ sub' \in [Conns -> {"none", "asked", "reading", "closed", "refused"}]
  <2>1. pipe \in [Conns -> Seq(1 .. n)] /\ read \in [Conns -> 0 .. n]
        /\ sub \in [Conns -> {"none", "asked", "reading", "closed", "refused"}]
    BY DEF TypeOK
  <2>2. pipe' \in [Conns -> Seq(1 .. n)]
    BY <1>0, <1>2, <1>3, <2>1
  <2>3. read' \in [Conns -> 0 .. n]
    BY <1>0, <1>3, <2>1
  <2>4. sub' \in [Conns -> {"none", "asked", "reading", "closed", "refused"}]
    BY <1>3, <2>1
  <2> QED BY <2>2, <2>3, <2>4
<1>5. UnopenedInv'
  BY <1>0, <1>3 DEF TypeOK, UnopenedInv
<1>6. ASSUME NEW d \in Conns, d # c PROVE PipeInv(d)'
  BY <1>3, <1>6, ConnectionStill DEF TypeOK
<1>7. PipeInv(c)'
  <2>1. CASE link[c] # "up"
    BY <1>3, <2>1, ConnectionStill DEF TypeOK
  <2>2. CASE link[c] = "up"
    <3> SUFFICES ASSUME Live', c = current'
                 PROVE  /\ Chain(cursor, pipe[c])'
                        /\ (sub[c] \in {"asked", "reading"} =>
                              read[c] = LastOf(cursor, pipe[c]))'
      BY DEF PipeInv
    <3>1. Chain(cursor, pipe[c]) /\ read[c] = LastOf(cursor, pipe[c])
      BY <1>0, <1>3, <2>2 DEF PipeInv, clientVars, Live
    <3>2. /\ Chain(cursor, pipe[c] \o new)
          /\ LastOf(cursor, pipe[c] \o new) = new[Len(new)]
      <4>1. 1 .. n \subseteq Nat /\ dropped \in Nat /\ cursor \in Nat
        BY <1>0
      <4> QED BY <1>0, <1>1, <3>1, <4>1, ChainConcat
    <3>3. pipe'[c] = pipe[c] \o new /\ cursor' = cursor /\ dropped' = dropped
      BY <1>3, <2>2 DEF TypeOK, streamVars, clientVars
    <3>4. Chain(cursor, pipe[c])'
      BY <3>2, <3>3 DEF Chain, Follows
    <3>5. (sub[c] \in {"asked", "reading"} => read[c] = LastOf(cursor, pipe[c]))'
      BY <1>1, <1>3, <3>2, <3>3 DEF TypeOK, LastOf
    <3> QED BY <3>4, <3>5
  <2> QED BY <2>1, <2>2
<1> QED BY <1>3, <1>4, <1>5, <1>6, <1>7, ConnectionsMove DEF TypeOK

\* A subscription is released only on a link that is lost.
LEMMA CleanupStep ==
  ASSUME IInv, NEW c \in Conns, Cleanup(c)
  PROVE  IInv'
<1> USE DEF IInv
<1>1. /\ sub' \in [Conns -> {"none", "asked", "reading", "closed", "refused"}]
      /\ read' \in [Conns -> 0 .. Len(published)]
      /\ UnopenedInv'
  BY DEF Cleanup, TypeOK, UnopenedInv
<1>2. ASSUME NEW d \in Conns PROVE PipeInv(d)'
  BY ConnectionStill DEF Cleanup, TypeOK
<1> QED BY <1>1, <1>2, ConnectionsMove DEF Cleanup, TypeOK

\* A lost link takes what was under way with it.
LEMMA LinkFailsStep ==
  ASSUME IInv, NEW c \in Conns, LinkFails(c)
  PROVE  IInv'
<1> USE DEF IInv
<1>1. faults' \in 0 .. MaxFaults
  BY FaultStep DEF LinkFails, TypeOK
<1>2. /\ link' \in [Conns -> {"none", "up", "silent", "down"}]
      /\ pipe' \in [Conns -> Seq(1 .. Len(published))]
      /\ pipe'[c] = << >> /\ link'[c] # "up"
  BY EmptySeq DEF LinkFails, TypeOK
<1>3. UnopenedInv'
  BY DEF LinkFails, TypeOK, UnopenedInv
<1>4. ASSUME NEW d \in Conns, d # c PROVE PipeInv(d)'
  BY <1>4, ConnectionStill DEF LinkFails, TypeOK
<1>5. PipeInv(c)'
  BY <1>2, PipeEmptied
<1> QED BY <1>1, <1>2, <1>3, <1>4, <1>5, ConnectionsMove DEF LinkFails, TypeOK

\* The browser's being online touches nothing else.
LEMMA NetworkStep ==
  ASSUME IInv, GoOffline \/ GoOnline
  PROVE  IInv'
<1> USE DEF IInv
<1>1. faults' \in 0 .. MaxFaults /\ online' \in BOOLEAN
  BY FaultStep DEF GoOffline, GoOnline, TypeOK
<1>2. ASSUME NEW d \in Conns PROVE PipeInv(d)'
  BY ConnectionStill DEF GoOffline, GoOnline, connVars
<1> QED
  BY <1>1, <1>2, ConnectionsMove
     DEF GoOffline, GoOnline, TypeOK, UnopenedInv, connVars

-----------------------------------------------------------------------------
\* The client.

\* A session that does not go on asks nothing of its connection.
LEMMA SessionStops ==
  ASSUME IInv, ~Live', UNCHANGED <<streamVars, sub, read, opened, current>>,
         link' \in [Conns -> {"none", "up", "silent", "down"}],
         pipe' \in [Conns -> Seq(1 .. Len(published))],
         \A c \in Conns : c > opened => pipe'[c] = << >>,
         stage' \in {"waiting", "opening", "open", "over", "gone"},
         verdict' \in {"none", "end", "error", "expired", "refused"},
         cursor' \in 0 .. Len(published), failed' \in 0 .. 3, recovering' \in BOOLEAN,
         shown' \in 0 .. Len(published), told' \in 0 .. 1, UNCHANGED <<online, faults>>,
         cursor' = shown'
  PROVE  IInv'
<1>1. TypeOK'
  BY DEF IInv, TypeOK, streamVars
<1>2. EndInv' /\ SessionInv' /\ UnopenedInv'
  BY DEF IInv, EndInv, Ends, SessionInv, UnopenedInv, streamVars
<1>3. \A c \in Conns : PipeInv(c)'
  BY DEF PipeInv
<1> QED BY <1>1, <1>2, <1>3 DEF IInv

\* Aborting closes the current link at most.
LEMMA AbortStep ==
  ASSUME TypeOK, Abort
  PROVE  link' \in [Conns -> {"none", "up", "silent", "down"}]
BY DEF TypeOK, Abort

\* A new connection asks for what follows the cursor, and has an empty pipe.
LEMMA OpenStep ==
  ASSUME IInv, Open
  PROVE  IInv'
<1> USE DEF IInv
<1> DEFINE c == opened + 1
<1>1. c \in Conns /\ opened \in Nat /\ opened' = c /\ current' = c
  BY BoundsAssumption DEF Open, TypeOK, Conns
<1>2. /\ link' = [link EXCEPT ![c] = "up"] /\ sub' = [sub EXCEPT ![c] = "asked"]
      /\ read' = [read EXCEPT ![c] = cursor]
      /\ stage' = "opening" /\ stage = "waiting"
      /\ UNCHANGED <<streamVars, pipe, verdict, cursor, failed, recovering, shown, told,
                     online, faults>>
  BY DEF Open, LastEventId
<1>3. pipe[c] = << >>
  BY <1>1 DEF UnopenedInv
<1> HIDE DEF c
<1>4. opened' \in 0 .. MaxConns /\ current' \in 0 .. opened'
  BY <1>1, BoundsAssumption DEF Conns
<1>5. TypeOK'
  BY <1>1, <1>2, <1>4 DEF TypeOK, streamVars
<1>6. EndInv' /\ SessionInv'
  BY <1>2 DEF EndInv, Ends, SessionInv, Live, streamVars
<1>7. UnopenedInv'
  BY <1>1, <1>2 DEF UnopenedInv, TypeOK, Conns, c
<1>8. ASSUME NEW d \in Conns PROVE PipeInv(d)'
  <2> SUFFICES ASSUME d = c PROVE PipeInv(d)'
    BY <1>1 DEF PipeInv
  <2>1. pipe'[d] = << >> /\ read'[d] = cursor'
    BY <1>2, <1>3 DEF TypeOK
  <2> QED BY <2>1 DEF PipeInv, Chain, LastOf
<1> QED BY <1>5, <1>6, <1>7, <1>8

\* An expired session asks for nothing more.
LEMMA ExpireOfflineStep ==
  ASSUME IInv, ExpireOffline
  PROVE  IInv'
BY SessionStops DEF IInv, TypeOK, SessionInv, UnopenedInv, ExpireOffline, Over, Live,
   connVars

\* An opened or refused connection has shown nothing yet.
LEMMA OnOpenStep ==
  ASSUME IInv, NEW c \in Conns, OnOpen(c)
  PROVE  IInv'
<1> USE DEF IInv
<1>1. CASE sub[c] \in {"reading", "closed"}
  <2>1. /\ stage' = "open" /\ stage = "opening"
        /\ UNCHANGED <<streamVars, connVars, verdict, told, current, cursor, failed,
                       recovering, shown, online, faults>>
    BY <1>1 DEF OnOpen, connVars
  <2>2. TypeOK' /\ EndInv' /\ SessionInv' /\ UnopenedInv'
    BY <2>1 DEF TypeOK, EndInv, Ends, SessionInv, UnopenedInv, Live, streamVars, connVars
  <2>3. ASSUME NEW d \in Conns PROVE PipeInv(d)'
    BY <2>1, PipeKept DEF TypeOK, Live, streamVars, connVars
  <2> QED BY <2>2, <2>3
<1>2. CASE sub[c] = "refused"
  <2>1. Over("refused") /\ Abort
        /\ UNCHANGED <<streamVars, sub, read, pipe, opened, current, cursor, failed,
                       recovering, shown, online, faults>>
    BY <1>2 DEF OnOpen
  <2>2. Live
    BY DEF OnOpen, Listening, Live
  <2> QED
    BY <2>1, <2>2, AbortStep, SessionStops
       DEF TypeOK, SessionInv, UnopenedInv, Over, Live
<1> QED BY <1>1, <1>2 DEF OnOpen

\* What an event of the pipe is: the next one, or one after a gap.
LEMMA OnMessageEvent ==
  ASSUME IInv, NEW c \in Conns, OnMessage(c)
  PROVE  /\ c = current /\ Live
         /\ Head(pipe[c]) \in 1 .. Len(published)
         /\ Tail(pipe[c]) \in Seq(1 .. Len(published))
         /\ Follows(cursor, Head(pipe[c]))
         /\ Chain(Head(pipe[c]), Tail(pipe[c]))
         /\ LastOf(Head(pipe[c]), Tail(pipe[c])) = LastOf(cursor, pipe[c])
         /\ Head(pipe[c]) # cursor
<1>1. c = current /\ Live /\ pipe[c] # << >>
  BY DEF OnMessage, Listening, Live
<1>2. /\ Len(published) \in Nat /\ pipe[c] \in Seq(1 .. Len(published))
      /\ cursor \in Nat
  BY DEF IInv, TypeOK
<1>3. Chain(cursor, pipe[c])
  BY <1>1 DEF IInv, PipeInv
<1>4. 1 .. Len(published) \subseteq Nat
  BY <1>2
<1>5. /\ Head(pipe[c]) \in 1 .. Len(published)
      /\ Tail(pipe[c]) \in Seq(1 .. Len(published))
  BY <1>1, <1>2, HeadTailProperties
<1>6. /\ Follows(cursor, Head(pipe[c]))
      /\ Chain(Head(pipe[c]), Tail(pipe[c]))
      /\ LastOf(Head(pipe[c]), Tail(pipe[c])) = LastOf(cursor, pipe[c])
  BY <1>1, <1>2, <1>3, <1>4, ChainTail
<1>7. Head(pipe[c]) # cursor
  BY <1>2, <1>5, <1>6 DEF Follows
<1> QED BY <1>1, <1>5, <1>6, <1>7

\* Showing the head moves the cursor along the chain, or ends the session.
LEMMA OnMessageStep ==
  ASSUME IInv, NEW c \in Conns, OnMessage(c)
  PROVE  IInv'
<1> USE DEF IInv
<1> DEFINE event == Head(pipe[c])
<1>1. /\ c = current /\ Live /\ event \in 1 .. Len(published)
      /\ Tail(pipe[c]) \in Seq(1 .. Len(published))
      /\ Chain(event, Tail(pipe[c]))
      /\ LastOf(event, Tail(pipe[c])) = LastOf(cursor, pipe[c])
      /\ event # cursor /\ Follows(cursor, event)
  BY OnMessageEvent
<1>2. /\ pipe' = [pipe EXCEPT ![c] = Tail(pipe[c])]
      /\ recovering' = FALSE /\ failed' = 0 /\ shown' = event /\ cursor' = event
      /\ UNCHANGED <<streamVars, sub, read, opened, current, online, faults>>
      /\ IF published[event] \in {"end", "error"} THEN Over(published[event]) /\ Abort
         ELSE UNCHANGED <<link, stage, verdict, told>>
  BY <1>1 DEF OnMessage
<1> HIDE DEF event
<1>3. /\ pipe' \in [Conns -> Seq(1 .. Len(published))] /\ pipe'[c] = Tail(pipe[c])
      /\ cursor' \in 0 .. Len(published) /\ failed' \in 0 .. 3
      /\ \A d \in Conns : d > opened => pipe'[d] = << >>
  BY <1>1, <1>2 DEF TypeOK, UnopenedInv
<1>4. CASE published[event] \in {"end", "error"}
  <2>2. Over(published[event]) /\ Abort
    BY <1>2, <1>4
  <2>3. told' \in 0 .. 1 /\ stage' = "over" /\ verdict' = published[event]
    BY <1>1, <2>2 DEF SessionInv, Over
  <2>4. link' \in [Conns -> {"none", "up", "silent", "down"}]
    BY <2>2, AbortStep
  <2> QED
    BY <1>2, <1>3, <1>4, <2>3, <2>4, SessionStops DEF TypeOK, Live
<1>5. CASE published[event] \notin {"end", "error"}
  <2>1. UNCHANGED <<link, stage, verdict, told>>
    BY <1>2, <1>5
  <2>2. TypeOK'
    BY <1>2, <1>3, <2>1 DEF TypeOK, streamVars
  <2>3. EndInv' /\ UnopenedInv'
    BY <1>2, <1>3, <2>1 DEF EndInv, Ends, UnopenedInv, streamVars
  <2>4. SessionInv'
    <3>1. ASSUME NEW e \in 1 .. event, published[e] = "end"
          PROVE  e <= dropped
      <4>1. event \in Nat /\ cursor \in Nat /\ dropped \in Nat /\ e # event
            /\ Follows(cursor, event) /\ cursor = shown
        BY <1>1, <1>5, <3>1 DEF TypeOK, SessionInv
      <4>2. e \in 1 .. shown => e <= dropped
        BY <1>1, <3>1 DEF SessionInv, Ends
      <4> QED BY <3>1, <4>1, <4>2 DEF Follows
    <3> QED BY <1>1, <1>2, <2>1, <3>1 DEF SessionInv, Live, Ends, streamVars
  <2>5. ASSUME NEW d \in Conns PROVE PipeInv(d)'
    <3> SUFFICES ASSUME d = c PROVE PipeInv(d)'
      BY <1>1, <1>2 DEF PipeInv
    <3>1. Chain(cursor, pipe[c])'
      BY <1>1, <1>2, <1>3 DEF Chain, Follows, streamVars
    <3>2. (link[c] = "up" /\ sub[c] \in {"asked", "reading"} =>
             read[c] = LastOf(cursor, pipe[c]))'
      BY <1>1, <1>2, <1>3, <2>1 DEF PipeInv, LastOf
    <3> QED BY <3>1, <3>2 DEF PipeInv
  <2> QED BY <2>2, <2>3, <2>4, <2>5
<1> QED BY <1>4, <1>5

\* A connection that ended leaves an empty pipe, and two failures at most.
LEMMA ConnectionEndsStep ==
  ASSUME IInv, NEW c \in Conns, ConnectionEnds(c)
  PROVE  IInv'
<1> USE DEF IInv
<1>1. Live /\ failed \in 0 .. 2
  BY DEF ConnectionEnds, Listening, Live, SessionInv, TypeOK
<1>2. /\ recovering' = TRUE /\ failed' \in 1 .. 3
      /\ UNCHANGED <<streamVars, connVars, current, cursor, shown, online, faults>>
      /\ \/ Over("expired")
         \/ failed' < 3 /\ stage' = "waiting" /\ UNCHANGED <<verdict, told>>
  BY <1>1 DEF ConnectionEnds
<1>3. CASE Over("expired")
  BY <1>1, <1>2, <1>3, SessionStops
     DEF TypeOK, SessionInv, UnopenedInv, Over, Live, connVars
<1>4. CASE failed' < 3 /\ stage' = "waiting" /\ UNCHANGED <<verdict, told>>
  <2>1. TypeOK' /\ EndInv' /\ SessionInv' /\ UnopenedInv'
    BY <1>1, <1>2, <1>4
       DEF TypeOK, EndInv, Ends, SessionInv, UnopenedInv, Live, streamVars, connVars
  <2>2. ASSUME NEW d \in Conns PROVE PipeInv(d)'
    BY <1>1, <1>2, PipeKept DEF TypeOK, streamVars, connVars
  <2> QED BY <2>1, <2>2
<1> QED BY <1>2, <1>3, <1>4

\* A session that is left asks for nothing more.
LEMMA LeaveStep ==
  ASSUME IInv, Leave
  PROVE  IInv'
BY AbortStep, SessionStops DEF IInv, TypeOK, SessionInv, UnopenedInv, Leave, Live

\* The invariant is inductive.
LEMMA NextInv == IInv /\ [Next]_vars => IInv'
<1> SUFFICES ASSUME IInv, [Next]_vars PROVE IInv'
  OBVIOUS
<1>1. CASE UNCHANGED vars
  <2>1. TypeOK' /\ EndInv' /\ SessionInv' /\ UnopenedInv'
    BY <1>1 DEF IInv, TypeOK, EndInv, Ends, SessionInv, UnopenedInv, Live, vars, streamVars,
       connVars, clientVars
  <2>2. ASSUME NEW c \in Conns PROVE PipeInv(c)'
    BY <1>1, ConnectionStill DEF vars, connVars
  <2> QED BY <2>1, <2>2 DEF IInv
<1>2. CASE Task
  BY <1>2, TaskSteps, TaskKeepsInv DEF IInv
<1>3. CASE Route
  BY <1>3, AuthorizeStep, ReadStreamStep, CleanupStep DEF Route
<1>4. CASE Network
  BY <1>4, LinkFailsStep, NetworkStep DEF Network
<1>5. CASE Client
  BY <1>5, OpenStep, ExpireOfflineStep, OnOpenStep, OnMessageStep, ConnectionEndsStep
     DEF Client
<1>6. CASE Leave
  BY <1>6, LeaveStep
<1> QED BY <1>1, <1>2, <1>3, <1>4, <1>5, <1>6 DEF Next

-----------------------------------------------------------------------------
\* The invariant holds of every session, whatever bounds, capacity, connections
\* and faults there are (StreamEventManager, the events route and
\* SameOriginAgentStreamClient as EventStream has them).
THEOREM InvariantTheorem == Spec => []IInv
<1>1. Init => IInv
  BY InitInv
<1>2. IInv /\ [Next]_vars => IInv'
  BY NextInv
<1> QED BY <1>1, <1>2, PTL DEF Spec

\* The session is told that it is over at most once (terminal in
\* SameOriginAgentStreamClient), and every variable keeps its type.
THEOREM TypeCorrect == Spec => []TypeOK
<1>1. IInv => TypeOK
  BY DEF IInv
<1> QED BY <1>1, InvariantTheorem, PTL

\* A session that goes on when its operation has ended, or waits for a human, has
\* an end ahead of it that the coordinator published when that status was entered,
\* unless that failed or Redis dropped it: no event that is shown takes the session
\* past an end, whatever was published behind one.
THEOREM EndIsAheadTheorem == Spec => []EndIsAhead
<1>1. IInv => EndIsAhead
  <2> SUFFICES ASSUME IInv, Live, saved \in {"over", "interrupted", "waiting_for_human"},
                      ~unheard
               PROVE  \E e \in 1 .. Len(published) : Ends(e) /\ (e > shown \/ e <= dropped)
    BY DEF EndIsAhead
  <2>1. PICK e \in 1 .. Len(published) : Ends(e)
    BY DEF IInv, EndInv, STREAM_END_STATUSES, Pauses
  <2>2. e \in 1 .. shown => e <= dropped
    BY <2>1 DEF IInv, SessionInv
  <2> QED BY <2>1, <2>2 DEF IInv, TypeOK
<1> QED BY <1>1, InvariantTheorem, PTL

-----------------------------------------------------------------------------
\* The refinement: publishing appears, deleting vanishes, onmessage shows, a
\* refusal or a failed recovery dismisses, and the rest stutters.

feedVars == <<Len(published), dropped, shown, told > 0>>

\* The first event has been published and nothing shown.
LEMMA FeedInitial == Init => Feed!FeedInit
BY DEF Init, Feed!FeedInit

\* Publishing makes an event appear, trimming and deleting make some vanish.
LEMMA TaskFeed ==
  ASSUME IInv, Moves, TaskLeaves
  PROVE  Feed!FeedNext \/ UNCHANGED feedVars
<1>1. UNCHANGED <<shown, told>>
  BY DEF TaskLeaves, clientVars
<1>2. CASE Rests
  BY <1>1, <1>2 DEF Rests, Feed!FeedNext, Feed!Vanish
<1>3. ASSUME NEW event \in Events, Grows(event)
      PROVE  Feed!FeedNext
  <2>1. Len(published') = Len(published) + 1
    BY <1>3, AppendProperties DEF IInv, TypeOK, Grows
  <2> QED BY <1>1, <1>3, <2>1 DEF Grows, Feed!FeedNext, Feed!Appear
<1> QED BY <1>2, <1>3 DEF Moves

\* onmessage shows the next event, or one after a gap.
LEMMA OnMessageFeed ==
  ASSUME IInv, NEW c \in Conns, OnMessage(c)
  PROVE  Feed!FeedNext
<1> DEFINE event == Head(pipe[c])
<1>1. Live /\ event \in 1 .. Len(published) /\ Follows(cursor, event) /\ event # cursor
  BY OnMessageEvent
<1>2. /\ shown' = event
      /\ UNCHANGED streamVars
  BY <1>1 DEF OnMessage
<1> HIDE DEF event
<1>3. told = 0 /\ cursor = shown /\ Len(published) \in Nat
  BY <1>1 DEF IInv, SessionInv, TypeOK
<1>4. Feed!Show(event)
  BY <1>1, <1>2, <1>3 DEF Feed!Show, Follows, streamVars
<1> QED BY <1>1, <1>4 DEF Feed!FeedNext

\* Whatever else the client does dismisses the session or stutters.
LEMMA ClientFeed ==
  ASSUME IInv, UNCHANGED <<streamVars, shown>>,
         UNCHANGED told \/ (Live /\ told' = told + 1)
  PROVE  Feed!FeedNext \/ UNCHANGED feedVars
<1>1. CASE UNCHANGED told
  BY <1>1 DEF feedVars, streamVars
<1>2. CASE Live /\ told' = told + 1
  <2>1. told = 0 /\ told' = 1
    BY <1>2 DEF IInv, SessionInv
  <2> QED BY <2>1 DEF Feed!FeedNext, Feed!Dismiss, streamVars
<1> QED BY <1>1, <1>2

\* The stream, the route and the client implement the feed: events in order,
\* each once, no gap but what Redis dropped, and nothing once it is over.
THEOREM FeedRefinement == Spec => ImplementsFeed
<1>1. ASSUME IInv, [Next]_vars
      PROVE  Feed!FeedNext \/ UNCHANGED feedVars
  <2>1. CASE UNCHANGED vars
    BY <2>1 DEF vars, streamVars, clientVars, feedVars
  <2>2. CASE Task
    BY <1>1, <2>2, TaskSteps, TaskFeed DEF IInv
  <2>3. CASE Route \/ Network \/ Leave
    <3>1. UNCHANGED <<streamVars, shown, told>>
      BY <2>3 DEF Route, Authorize, ReadStream, Cleanup, Network, LinkFails, GoOffline,
         GoOnline, Leave, clientVars
    <3> QED BY <1>1, <3>1, ClientFeed
  <2>4. ASSUME NEW c \in Conns, OnMessage(c)
        PROVE  Feed!FeedNext
    BY <1>1, <2>4, OnMessageFeed
  <2>5. CASE Open \/ ExpireOffline \/ \E c \in Conns : OnOpen(c) \/ ConnectionEnds(c)
    <3>1. UNCHANGED <<streamVars, shown>> /\ (UNCHANGED told \/ (Live /\ told' = told + 1))
      BY <2>5 DEF Open, ExpireOffline, OnOpen, ConnectionEnds, Over, Listening, Live
    <3> QED BY <1>1, <3>1, ClientFeed
  <2> QED BY <1>1, <2>1, <2>2, <2>3, <2>4, <2>5 DEF Next, Client
<1>2. IInv /\ [Next]_vars => [Feed!FeedNext]_feedVars
  BY <1>1
<1>3. Init => Feed!FeedInit
  BY FeedInitial
<1> QED BY <1>2, <1>3, InvariantTheorem, PTL
        DEF Spec, ImplementsFeed, Feed!FeedSpec, feedVars

-----------------------------------------------------------------------------
\* Nothing that was published is forgotten on the way.

InPipe(c, i) == \E k \in 1 .. Len(pipe[c]) : pipe[c][k] = i

\* What follows the cursor, up to an event, is in the pipe or dropped.
Covered(c, upTo) == \A i \in cursor + 1 .. upTo : i <= dropped \/ InPipe(c, i)

EndInPipe(c) ==
  \E e \in 1 .. Len(published) : Ends(e) /\ InPipe(c, e) /\ Covered(c, e)

Connected == stage \in {"opening", "open"}

\* The current connection: one that is lost has an empty pipe; one that is not has a
\* subscription, and the pipe covers what that has read, up to an end in the pipe
\* when the subscription was closed at one.
ServedInv ==
  Connected =>
    /\ current \in Conns /\ link[current] # "none"
    /\ link[current] = "down" => pipe[current] = << >>
    /\ link[current] = "up" =>
         /\ sub[current] # "none"
         /\ stage = "open" => sub[current] \in {"reading", "closed"}
         /\ sub[current] \in {"asked", "reading"} => Covered(current, read[current])
         /\ sub[current] = "closed" => EndInPipe(current)

\* What is covered stays so, of a connection that moves on without its pipe.
LEMMA ServedKept ==
  ASSUME IInv, ServedInv, dropped' \in Nat, dropped <= dropped',
         UNCHANGED <<cursor, current>>, Connected' => Connected,
         stage' = "open" /\ stage # "open" => sub[current] \in {"reading", "closed"},
         Len(published') \in Nat, Len(published) <= Len(published'),
         \A i \in 1 .. Len(published) : published'[i] = published[i],
         current \in Conns =>
           /\ pipe'[current] = pipe[current] /\ link'[current] = link[current]
           /\ sub'[current] = sub[current] /\ read'[current] = read[current]
  PROVE  ServedInv'
<1> SUFFICES ASSUME Connected' PROVE ServedInv'
  BY DEF ServedInv
<1>1. Connected /\ current \in Conns /\ dropped \in Nat /\ Len(published) \in Nat /\ cursor \in Nat
      /\ read[current] \in Nat
  BY DEF ServedInv, IInv, TypeOK
<1>2. ASSUME NEW upTo \in Nat, Covered(current, upTo) PROVE Covered(current, upTo)'
  <2> SUFFICES ASSUME NEW i \in cursor + 1 .. upTo PROVE i <= dropped' \/ InPipe(current, i)'
    BY DEF Covered
  <2>1. i <= dropped \/ InPipe(current, i)
    BY <1>2 DEF Covered
  <2>2. InPipe(current, i) => InPipe(current, i)'
    BY <1>1 DEF InPipe
  <2>3. i \in Nat
    BY <1>1
  <2>4. i <= dropped => i <= dropped'
    BY <1>1, <2>3
  <2> QED BY <2>1, <2>2, <2>4
<1>3. Covered(current, read[current]) => Covered(current, read[current])'
  BY <1>1, <1>2 DEF Covered
<1>4. EndInPipe(current) => EndInPipe(current)'
  <2> SUFFICES ASSUME NEW e \in 1 .. Len(published), Ends(e), InPipe(current, e),
                      Covered(current, e)
               PROVE  EndInPipe(current)'
    BY DEF EndInPipe
  <2>1. e \in 1 .. Len(published') /\ e \in Nat
    BY <1>1
  <2>2. Ends(e)' /\ InPipe(current, e)'
    BY <1>1 DEF Ends, InPipe
  <2>3. Covered(current, e)'
    BY <1>2, <2>1
  <2> QED BY <2>1, <2>2, <2>3 DEF EndInPipe
<1>5. stage' = "open" /\ link[current] = "up" => sub[current] \in {"reading", "closed"}
  BY <1>1 DEF ServedInv
<1> QED BY <1>1, <1>3, <1>4, <1>5 DEF ServedInv

\* The task goes on: what has been read and sent stays where it is.
LEMMA TaskServed ==
  ASSUME IInv, ServedInv, Task
  PROVE  ServedInv'
<1>1. Moves /\ UNCHANGED <<connVars, clientVars>>
  BY TaskSteps DEF IInv, TaskLeaves
<1>2. /\ Len(published') \in Nat /\ Len(published) <= Len(published')
      /\ dropped' \in Nat /\ dropped <= dropped'
      /\ \A i \in 1 .. Len(published) : published'[i] = published[i]
  BY <1>1, MovesKeeps DEF IInv
<1> QED BY <1>1, <1>2, ServedKept DEF connVars, clientVars, Connected

\* A connection that is not the current one.
LEMMA OtherServed ==
  ASSUME IInv, ServedInv, UNCHANGED <<streamVars, clientVars>>,
         current \in Conns =>
           /\ pipe'[current] = pipe[current] /\ link'[current] = link[current]
           /\ sub'[current] = sub[current] /\ read'[current] = read[current]
  PROVE  ServedInv'
<1>1. dropped' \in Nat /\ dropped <= dropped'
  BY DEF IInv, TypeOK, streamVars
<1> QED BY <1>1, ServedKept DEF streamVars, clientVars, Connected

\* A request that is let in has read nothing yet; one that is refused is not open.
LEMMA AuthorizeServed ==
  ASSUME IInv, ServedInv, NEW c \in Conns, Authorize(c)
  PROVE  ServedInv'
<1>1. /\ UNCHANGED <<streamVars, clientVars, link, pipe, read>>
      /\ sub[c] = "asked" /\ sub \in [Conns -> {"none", "asked", "reading", "closed", "refused"}]
      /\ \E s \in {"reading", "refused"} : sub' = [sub EXCEPT ![c] = s]
  BY DEF Authorize, IInv, TypeOK
<1>2. CASE c # current
  BY <1>1, <1>2, OtherServed
<1>3. CASE c = current
  <2> SUFFICES ASSUME Connected' PROVE ServedInv'
    BY DEF ServedInv
  <2>1. Connected /\ UNCHANGED <<stage, current, cursor, dropped, published>>
    BY <1>1 DEF Connected, clientVars, streamVars
  <2>2. sub'[c] \in {"reading", "refused"}
    BY <1>1
  <2>3. Covered(c, read[c]) => Covered(c, read[c])'
    BY <1>1, <2>1 DEF Covered, InPipe
  <2>4. stage = "open" => link[c] # "up"
    BY <1>1, <1>3, <2>1 DEF ServedInv
  <2> QED BY <1>1, <1>3, <2>1, <2>2, <2>3, <2>4 DEF ServedInv
<1> QED BY <1>2, <1>3

\* A batch extends what the pipe covers.
LEMMA ReadStreamServed ==
  ASSUME IInv, ServedInv, NEW c \in Conns, ReadStream(c)
  PROVE  ServedInv'
<1> DEFINE n == Len(published)
<1> PICK last \in 1 .. n :
      /\ LastOfBatch(read[c], last)
      /\ pipe' = [pipe EXCEPT ![c] = IF link[c] = "up" THEN pipe[c] \o Batch(read[c], last)
                                     ELSE pipe[c]]
      /\ read' = [read EXCEPT ![c] = IF Ends(last) THEN 0 ELSE last]
      /\ sub' = [sub EXCEPT ![c] = IF Ends(last) THEN "closed" ELSE sub[c]]
  BY DEF ReadStream
<1> DEFINE new == Batch(read[c], last)
<1>0. /\ n \in Nat /\ dropped \in 0 .. n /\ read[c] \in 0 .. n /\ cursor \in 0 .. n
      /\ pipe[c] \in Seq(1 .. n) /\ sub[c] = "reading" /\ last \in Nat
  BY DEF IInv, TypeOK, ReadStream
<1>1. /\ new \in Seq(1 .. n) /\ Len(new) \in Nat \ {0} /\ new[Len(new)] = last
      /\ read[c] < last
      /\ \A i \in read[c] + 1 .. last : i <= dropped \/ \E k \in 1 .. Len(new) : new[k] = i
  BY <1>0, BatchProperties DEF IInv
<1>9. UNCHANGED <<streamVars, link, clientVars>>
  BY DEF ReadStream
<1> HIDE DEF new
<1>3. /\ pipe'[c] = (IF link[c] = "up" THEN pipe[c] \o new ELSE pipe[c])
      /\ read'[c] = (IF Ends(last) THEN 0 ELSE last)
      /\ sub'[c] = (IF Ends(last) THEN "closed" ELSE "reading")
      /\ \A d \in Conns : d # c => pipe'[d] = pipe[d] /\ read'[d] = read[d] /\ sub'[d] = sub[d]
  BY <1>0 DEF IInv, TypeOK, new
<1>2. UNCHANGED <<streamVars, link, clientVars>>
  BY <1>9
<1>4. CASE c # current
  BY <1>2, <1>3, <1>4, OtherServed
<1>5. CASE c = current
  <2> SUFFICES ASSUME Connected' PROVE ServedInv'
    BY DEF ServedInv
  <2>1. Connected /\ UNCHANGED <<stage, current, cursor, dropped, published, link>>
    BY <1>2 DEF Connected, clientVars, streamVars
  <2>2. CASE link[c] # "up"
    BY <1>3, <1>5, <2>1, <2>2 DEF ServedInv
  <2>3. CASE link[c] = "up"
    <3>1. Covered(c, read[c])
      BY <1>0, <1>5, <2>1, <2>3 DEF ServedInv
    <3>2. /\ Len(pipe[c] \o new) = Len(pipe[c]) + Len(new)
          /\ \A k \in 1 .. Len(pipe[c]) + Len(new) :
               (pipe[c] \o new)[k] = IF k <= Len(pipe[c]) THEN pipe[c][k] ELSE new[k - Len(pipe[c])]
      BY <1>0, <1>1, ConcatProperties
    <3>3. Len(pipe[c]) \in Nat /\ Len(new) \in Nat
      BY <1>0, <1>1, LenProperties
    <3>4. ASSUME NEW k \in 1 .. Len(pipe[c])
          PROVE  k \in 1 .. Len(pipe[c] \o new) /\ (pipe[c] \o new)[k] = pipe[c][k]
      BY <3>2, <3>3
    <3>5. ASSUME NEW k \in 1 .. Len(new)
          PROVE  /\ Len(pipe[c]) + k \in 1 .. Len(pipe[c] \o new)
                 /\ (pipe[c] \o new)[Len(pipe[c]) + k] = new[k]
      BY <3>2, <3>3
    <3>6. pipe'[c] = pipe[c] \o new
      BY <1>3, <2>3
    <3>7. Covered(c, last)'
      <4> SUFFICES ASSUME NEW i \in cursor + 1 .. last, ~(i <= dropped)
                   PROVE  \E k \in 1 .. Len(pipe[c] \o new) : (pipe[c] \o new)[k] = i
        BY <2>1, <3>6 DEF Covered, InPipe
      <4>1. CASE i <= read[c]
        <5>1. PICK k \in 1 .. Len(pipe[c]) : pipe[c][k] = i
          BY <1>0, <3>1, <4>1 DEF Covered, InPipe
        <5> QED BY <3>4, <5>1
      <4>2. CASE i > read[c]
        <5> HIDE DEF n
        <5>1. i \in read[c] + 1 .. last
          BY <1>0, <4>2
        <5>2. PICK k \in 1 .. Len(new) : new[k] = i
          BY <1>1, <5>1
        <5> QED BY <3>5, <5>2
      <4> QED BY <1>0, <4>1, <4>2
    <3>8. ~Ends(last) => Covered(c, read[c])'
      BY <1>3, <2>1, <3>7 DEF Covered
    <3>9. InPipe(c, last)'
      <4>1. PICK k \in 1 .. Len(pipe[c] \o new) : (pipe[c] \o new)[k] = last
        <5>1. Len(new) \in 1 .. Len(new)
          BY <1>1
        <5> QED BY <1>1, <3>5, <5>1
      <4> QED BY <3>6, <4>1 DEF InPipe
    <3>10. Ends(last) => EndInPipe(c)'
      <4>1. Ends(last) => Ends(last)'
        BY <1>2 DEF Ends, streamVars
      <4>2. Covered(c, last)' /\ last \in 1 .. Len(published')
        BY <1>2, <3>7 DEF streamVars
      <4> QED BY <3>9, <4>1, <4>2 DEF EndInPipe
    <3> HIDE DEF Covered
    <3> QED BY <1>3, <1>5, <2>1, <2>3, <3>8, <3>10 DEF ServedInv
  <2> QED BY <2>2, <2>3
<1> QED BY <1>4, <1>5

\* A subscription is released only on a link that is lost,
LEMMA CleanupServed ==
  ASSUME IInv, ServedInv, NEW c \in Conns, Cleanup(c)
  PROVE  ServedInv'
<1>1. /\ UNCHANGED <<streamVars, clientVars, link, pipe>> /\ link[c] # "up"
      /\ \A d \in Conns : d # c => sub'[d] = sub[d] /\ read'[d] = read[d]
  BY DEF Cleanup, IInv, TypeOK
<1>2. CASE c # current
  BY <1>1, <1>2, OtherServed
<1>3. CASE c = current
  BY <1>1, <1>3 DEF ServedInv, Connected, clientVars
<1> QED BY <1>2, <1>3

\* and one that is lost loses what was under way.
LEMMA LinkFailsServed ==
  ASSUME IInv, ServedInv, NEW c \in Conns, LinkFails(c)
  PROVE  ServedInv'
<1>1. /\ UNCHANGED <<streamVars, clientVars, sub, read>>
      /\ pipe'[c] = << >> /\ link'[c] \in {"down", "silent"}
      /\ \A d \in Conns : d # c => link'[d] = link[d] /\ pipe'[d] = pipe[d]
  BY DEF LinkFails, IInv, TypeOK
<1>2. CASE c # current
  BY <1>1, <1>2, OtherServed
<1>3. CASE c = current
  BY <1>1, <1>3 DEF ServedInv, Connected, clientVars
<1> QED BY <1>2, <1>3

\* A new connection asks for what follows the cursor.
LEMMA OpenServed ==
  ASSUME IInv, Open
  PROVE  ServedInv'
<1>1. opened + 1 \in Conns
  BY BoundsAssumption DEF Open, IInv, TypeOK, Conns
<1> PICK c \in Conns : c = opened + 1
  BY <1>1
<1>2. /\ link' = [link EXCEPT ![c] = "up"] /\ sub' = [sub EXCEPT ![c] = "asked"]
      /\ read' = [read EXCEPT ![c] = cursor]
      /\ stage' = "opening" /\ cursor' = cursor /\ current' = c
  BY DEF Open, LastEventId
<1>3. link'[c] = "up" /\ sub'[c] = "asked" /\ read'[c] = cursor /\ cursor \in Nat
  BY <1>2 DEF IInv, TypeOK
<1>4. Covered(c, read[c])'
  <2>1. \A i \in cursor + 1 .. cursor : FALSE
    BY <1>3
  <2> QED BY <1>2, <1>3, <2>1 DEF Covered
<1> QED BY <1>2, <1>3, <1>4 DEF ServedInv

\* One that opens is being read for.
LEMMA OnOpenServed ==
  ASSUME IInv, ServedInv, NEW c \in Conns, OnOpen(c)
  PROVE  ServedInv'
<1>1. CASE sub[c] \in {"reading", "closed"}
  <2>1. /\ stage = "opening" /\ c = current
        /\ UNCHANGED <<streamVars, connVars, current, cursor>>
    BY <1>1 DEF OnOpen, Listening, connVars
  <2>2. dropped' \in Nat /\ dropped <= dropped'
    BY <2>1 DEF IInv, TypeOK, streamVars
  <2> QED BY <1>1, <2>1, <2>2, ServedKept DEF streamVars, connVars, Connected
<1>2. CASE sub[c] = "refused"
  BY <1>2 DEF OnOpen, Over, ServedInv, Connected
<1> QED BY <1>1, <1>2 DEF OnOpen

\* What is shown needs to be covered no more.
LEMMA OnMessageServed ==
  ASSUME IInv, ServedInv, NEW c \in Conns, OnMessage(c)
  PROVE  ServedInv'
<1> DEFINE event == Head(pipe[c])
<1>1. /\ c = current /\ event \in 1 .. Len(published) /\ Follows(cursor, event)
      /\ event # cursor
  BY OnMessageEvent
<1>2. /\ pipe' = [pipe EXCEPT ![c] = Tail(pipe[c])]
      /\ cursor' = event
      /\ UNCHANGED <<streamVars, sub, read, current>>
      /\ (stage' = "over") \/ (UNCHANGED <<link, stage>> /\ published[event] # "end")
      /\ pipe[c] # << >> /\ stage = "open"
  BY <1>1 DEF OnMessage, Over
<1> SUFFICES ASSUME Connected' PROVE ServedInv'
  BY DEF ServedInv
<1>3. UNCHANGED <<link, stage, dropped, published>> /\ Connected /\ published[event] # "end"
  BY <1>2 DEF Connected, streamVars
<1>4. /\ pipe'[c] = Tail(pipe[c]) /\ pipe[c] \in Seq(1 .. Len(published))
      /\ cursor \in Nat /\ Len(published) \in Nat
  BY <1>2 DEF IInv, TypeOK
<1>5. /\ Len(Tail(pipe[c])) = Len(pipe[c]) - 1
      /\ \A k \in 1 .. Len(Tail(pipe[c])) : Tail(pipe[c])[k] = pipe[c][k + 1]
      /\ Len(pipe[c]) \in Nat \ {0} /\ event = pipe[c][1]
  BY <1>2, <1>4, HeadTailProperties, EmptySeq, LenProperties
<1>6. cursor < event /\ event \in Nat
  BY <1>1, <1>4 DEF Follows
<1> HIDE DEF event
<1>7. ASSUME NEW upTo, upTo \in Nat, Covered(c, upTo)
      PROVE  \A i \in event + 1 .. upTo : i <= dropped \/ InPipe(c, i)'
  <2> SUFFICES ASSUME NEW i \in event + 1 .. upTo, ~(i <= dropped)
               PROVE  \E k \in 1 .. Len(Tail(pipe[c])) : Tail(pipe[c])[k] = i
    BY <1>4 DEF InPipe
  <2>1. i \in cursor + 1 .. upTo /\ i # event
    BY <1>4, <1>6, <1>7
  <2>2. PICK k \in 1 .. Len(pipe[c]) : pipe[c][k] = i
    BY <1>7, <2>1 DEF Covered, InPipe
  <2>3. k # 1
    BY <1>5, <2>1, <2>2
  <2>4. k - 1 \in 1 .. Len(Tail(pipe[c])) /\ (k - 1) + 1 = k
    BY <1>5, <2>3
  <2> QED BY <1>5, <2>2, <2>4
<1>8. read[c] \in Nat /\ read'[c] = read[c]
  BY <1>2 DEF IInv, TypeOK
<1>9. Covered(c, read[c]) => Covered(c, read[c])'
  BY <1>2, <1>3, <1>7, <1>8 DEF Covered
<1>10. EndInPipe(c) => EndInPipe(c)'
  <2> SUFFICES ASSUME NEW e \in 1 .. Len(published), Ends(e), InPipe(c, e), Covered(c, e)
               PROVE  EndInPipe(c)'
    BY DEF EndInPipe
  <2>1. PICK k \in 1 .. Len(pipe[c]) : pipe[c][k] = e
    BY DEF InPipe
  <2>2. k # 1
    BY <1>3, <1>5, <2>1 DEF Ends
  <2>3. k - 1 \in 1 .. Len(Tail(pipe[c])) /\ (k - 1) + 1 = k
    BY <1>5, <2>2
  <2>4. InPipe(c, e)'
    BY <1>4, <1>5, <2>1, <2>3 DEF InPipe
  <2>5. \A i \in event + 1 .. e : i <= dropped \/ InPipe(c, i)'
    BY <1>4, <1>7
  <2>6. Covered(c, e)' /\ Ends(e)'
    BY <1>2, <1>3, <2>5 DEF Covered, Ends, streamVars
  <2> QED BY <1>3, <2>4, <2>6 DEF EndInPipe
<1>11. link[c] # "down"
  BY <1>1, <1>2, <1>3 DEF ServedInv
<1> HIDE DEF Covered, EndInPipe
<1> QED BY <1>1, <1>2, <1>3, <1>9, <1>10, <1>11 DEF ServedInv

\* The invariant is inductive.
LEMMA NextServed == IInv /\ ServedInv /\ [Next]_vars => ServedInv'
<1> SUFFICES ASSUME IInv, ServedInv, [Next]_vars PROVE ServedInv'
  OBVIOUS
<1>1. CASE UNCHANGED vars
  BY <1>1, OtherServed DEF vars, connVars
<1>2. CASE Task
  BY <1>2, TaskServed
<1>3. CASE Route
  BY <1>3, AuthorizeServed, ReadStreamServed, CleanupServed DEF Route
<1>4. CASE Network
  <2>1. CASE GoOffline \/ GoOnline
    BY <2>1, OtherServed DEF GoOffline, GoOnline, connVars
  <2> QED BY <1>4, <2>1, LinkFailsServed DEF Network
<1>5. CASE Open \/ \E c \in Conns : OnOpen(c) \/ OnMessage(c)
  BY <1>5, OpenServed, OnOpenServed, OnMessageServed
<1>6. CASE ExpireOffline \/ Leave \/ \E c \in Conns : ConnectionEnds(c)
  <2>1. ~Connected'
    BY <1>6 DEF ExpireOffline, Leave, ConnectionEnds, Over, Connected
  <2> QED BY <2>1 DEF ServedInv
<1> QED BY <1>1, <1>2, <1>3, <1>4, <1>5, <1>6 DEF Next, Client

\* Whatever a session has not been shown is on its way to it, over any number of
\* connections and faults: in the pipe, still to be read, asked for by the next
\* connection, behind an end that is on its way itself, or behind a connection that
\* the client is about to find ended; what Redis dropped and a link that died
\* silently are all the exceptions.
THEOREM NothingMissedTheorem == Spec => []NothingMissed
<1>1. Init => IInv /\ ServedInv
  BY InitInv DEF Init, ServedInv, Connected
<1>2. IInv /\ ServedInv /\ [Next]_vars => IInv' /\ ServedInv'
  BY NextInv, NextServed
<1>3. IInv /\ ServedInv => NothingMissed
  <2> SUFFICES ASSUME IInv, ServedInv, Live, ~Deaf, NEW i \in shown + 1 .. Len(published),
                      ~(i <= dropped)
               PROVE  Coming(i) \/ BehindEnd(i)
    BY DEF NothingMissed
  <2>1. cursor = shown /\ shown \in Nat /\ i \in Nat /\ Len(published) \in Nat
    BY DEF IInv, SessionInv, TypeOK
  <2>2. CASE stage = "waiting"
    BY <2>1, <2>2 DEF Coming, LastEventId
  <2>3. CASE Connected
    <3>1. /\ stage # "waiting" /\ current \in Conns
          /\ link[current] \in {"up", "down"}
          /\ sub[current] \in {"none", "asked", "reading", "closed", "refused"}
          /\ read[current] \in Nat
      BY <2>3 DEF ServedInv, Connected, Deaf, IInv, TypeOK, Conns
    <3>2. CASE link[current] = "down"
      BY <2>3, <3>1, <3>2 DEF ServedInv, Coming, Settled
    <3>3. CASE link[current] = "up" /\ sub[current] = "refused"
      BY <2>3, <3>1, <3>3 DEF ServedInv, Connected, Coming
    <3>4. CASE link[current] = "up" /\ sub[current] = "closed"
      <4>1. PICK e \in 1 .. Len(published) :
              Ends(e) /\ InPipe(current, e) /\ Covered(current, e)
        BY <2>3, <3>4 DEF ServedInv, EndInPipe
      <4>2. CASE i <= e
        BY <2>1, <3>1, <4>1, <4>2 DEF Covered, InPipe, Coming
      <4>3. CASE i > e
        <5>1. e \in 1 .. i - 1 /\ Coming(e)
          BY <2>1, <3>1, <4>1, <4>3 DEF InPipe, Coming
        <5> QED BY <4>1, <5>1 DEF BehindEnd
      <4> QED BY <2>1, <4>2, <4>3
    <3>5. CASE link[current] = "up" /\ sub[current] \in {"asked", "reading"}
      <4>1. Covered(current, read[current])
        BY <2>3, <3>5 DEF ServedInv
      <4>2. i <= read[current] => InPipe(current, i)
        BY <2>1, <3>1, <4>1 DEF Covered
      <4> QED BY <2>1, <3>1, <3>5, <4>2 DEF InPipe, Coming
    <3> QED BY <2>3, <3>1, <3>2, <3>3, <3>4, <3>5 DEF ServedInv
  <2> QED BY <2>2, <2>3 DEF Live, Connected
<1> QED BY <1>1, <1>2, <1>3, PTL DEF Spec
=============================================================================
