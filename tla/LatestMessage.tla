---------------------------- MODULE LatestMessage ----------------------------
(***************************************************************************)
(* What the worker promises a reader of ros2.messages, for one topic: the  *)
(* row shows messages of the topic's subscription in the order they came.  *)
(* Some are passed over, because a newer one that fits a row has come.     *)
(* The newest is dropped only without the extension; the end of a          *)
(* subscription takes the row with it, unless the worker itself starts     *)
(* anew.                                                                   *)
(***************************************************************************)
EXTENDS Naturals

VARIABLES
  installed,  \* the extension exists
  starts,     \* how often the worker has started anew
  open,       \* the topic has a subscription
  received,   \* messages it has received
  newest,     \* number of the newest one that fits and was not shown, or 0
  last,       \* ... of the last one that was shown
  shown       \* ... of the one in the row

vars == <<installed, starts, open, received, newest, last, shown>>

Init ==
  /\ ~installed
  /\ starts = 0
  /\ ~open
  /\ received = 0
  /\ newest = 0
  /\ last = 0
  /\ shown = 0

Create ==
  /\ ~installed
  /\ installed'
  /\ UNCHANGED <<starts, open, received, newest, last, shown>>

Drop ==
  /\ installed
  /\ ~installed'
  /\ shown' = 0
  /\ UNCHANGED <<starts, open, received, newest, last>>

Open ==
  /\ ~open
  /\ open'
  /\ received' = 0
  /\ newest' = 0
  /\ last' = 0
  /\ UNCHANGED <<installed, starts, shown>>

\* A message that does not fit a row has a number, too.
Accept ==
  /\ open
  /\ received' = received + 1
  /\ newest' \in {newest, received'}
  /\ UNCHANGED <<installed, starts, open, last, shown>>

Show ==
  /\ open /\ installed
  /\ newest > last
  /\ shown' = newest
  /\ last' = newest
  /\ newest' = 0
  /\ UNCHANGED <<installed, starts, open, received>>

Lose ==
  /\ open /\ ~installed
  /\ newest' = 0
  /\ UNCHANGED <<installed, starts, open, received, last, shown>>

Ended ==
  /\ ~open'
  /\ received' = 0
  /\ newest' = 0
  /\ last' = 0

\* A row of an earlier start may be removed without a subscription.
Close ==
  /\ Ended
  /\ shown' = 0
  /\ UNCHANGED <<installed, starts>>

StartAnew ==
  /\ Ended
  /\ starts' = starts + 1
  /\ UNCHANGED <<installed, shown>>

Next ==
  \/ Create \/ Drop
  \/ Open \/ Accept \/ Show \/ Lose \/ Close
  \/ StartAnew

Spec == Init /\ [][Next]_vars
=============================================================================
