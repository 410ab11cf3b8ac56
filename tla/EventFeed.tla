------------------------------ MODULE EventFeed ------------------------------
(* What the same-origin event stream promises to one session of the user     *)
(* interface: the events of the operation in the order of their publication, *)
(* each at most once, and none left out except those that the bounded stream *)
(* had already dropped; nothing more once the session is over.               *)
EXTENDS Naturals

VARIABLES
  total,     \* how many events have been published: they are 1 .. total
  dropped,   \* the oldest of them, 1 .. dropped, are no longer kept
  shown,     \* the last event this session has been shown, or 0
  over       \* has the session been told that it is over?

FeedInit == total = 1 /\ dropped = 0 /\ shown = 0 /\ over = FALSE

Appear ==
  /\ total' = total + 1
  /\ dropped' \in dropped .. total'
  /\ UNCHANGED <<shown, over>>

Vanish ==
  /\ dropped' \in dropped .. total
  /\ UNCHANGED <<total, shown, over>>

\* The next event, or one after a gap of dropped ones.
Show(i) ==
  /\ ~over
  /\ shown < i /\ i <= total
  /\ i = shown + 1 \/ i - 1 <= dropped
  /\ shown' = i
  /\ over' \in BOOLEAN
  /\ UNCHANGED <<total, dropped>>

Dismiss == ~over /\ over' = TRUE /\ UNCHANGED <<total, dropped, shown>>

FeedNext ==
  \/ Appear \/ Vanish \/ Dismiss
  \/ \E i \in 1 .. total : Show(i)

FeedSpec == FeedInit /\ [][FeedNext]_<<total, dropped, shown, over>>
=============================================================================
