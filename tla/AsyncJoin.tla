------------------------------ MODULE AsyncJoin ------------------------------
(* What the async-tool suspend/resume promises, without workers, messages or *)
(* rows: a turn hands out calls while it runs, results arrive in any order,  *)
(* and the next turn is released when every call of the turn has its result. *)
EXTENDS Naturals

CONSTANTS Turns, Tools

VARIABLES
  made,      \* the calls handed out, pairs of a turn and a tool
  filled,    \* the calls that have their result
  released   \* the turns that may run

JoinInit == made = {} /\ filled = {} /\ released = {0}

\* A turn hands out calls only until the next turn is released.
Make(i, t) ==
  /\ i \in released /\ i + 1 \notin released
  /\ made' = made \cup {<<i, t>>}
  /\ UNCHANGED <<filled, released>>

Arrive(c) ==
  /\ c \in made
  /\ filled' = filled \cup {c}
  /\ UNCHANGED <<made, released>>

ReleaseNext(i) ==
  /\ i \in released
  /\ \A c \in made : c[1] = i => c \in filled
  /\ released' = released \cup {i + 1}
  /\ UNCHANGED <<made, filled>>

JoinNext ==
  \/ \E i \in Turns : ReleaseNext(i) \/ \E t \in Tools : Make(i, t)
  \/ \E c \in Turns \X Tools : Arrive(c)

JoinSpec == JoinInit /\ [][JoinNext]_<<made, filled, released>>
=============================================================================
