---------------------------- MODULE LossyChannel ----------------------------
(***************************************************************************)
(* What CALL subscribe promises a listener: a channel of numbered messages *)
(* that keeps their order, sends none twice, holds at most Capacity of     *)
(* them, and loses one only because it finds the channel full or cannot be *)
(* encoded.  Every warning tells of all losses so far.                     *)
(***************************************************************************)
EXTENDS Naturals, FiniteSets

CONSTANT Capacity

VARIABLES
  open,     \* a call is running
  next,     \* number of the next message
  waiting,  \* numbers of the messages not yet sent
  unfit,    \* ... of those that cannot be encoded
  sent,
  lost,
  told      \* losses the caller was warned of

vars == <<open, next, waiting, unfit, sent, lost, told>>

Init ==
  /\ ~open
  /\ next = 0
  /\ waiting = {}
  /\ unfit = {}
  /\ sent = {}
  /\ lost = {}
  /\ told = 0

Open ==
  /\ ~open
  /\ open'
  /\ next' = 0
  /\ waiting' = {}
  /\ unfit' = {}
  /\ sent' = {}
  /\ lost' = {}
  /\ told' = 0

\* The end of a call takes what is waiting with it.
Close ==
  /\ open
  /\ ~open'
  /\ waiting' = {}
  /\ unfit' = {}
  /\ UNCHANGED <<next, sent, lost, told>>

Accept ==
  /\ open /\ open'
  /\ Cardinality(waiting) < Capacity
  /\ next' = next + 1
  /\ waiting' = waiting \cup {next}
  /\ unfit' \in {unfit, unfit \cup {next}}
  /\ UNCHANGED <<sent, lost, told>>

\* Only a full channel turns a message away, and then the newest.
Overflow ==
  /\ open /\ open'
  /\ Cardinality(waiting) = Capacity
  /\ next' = next + 1
  /\ lost' = lost \cup {next}
  /\ UNCHANGED <<waiting, unfit, sent, told>>

Spoil ==
  /\ open /\ open'
  /\ \E n \in unfit :
       /\ waiting' = waiting \ {n}
       /\ unfit' = unfit \ {n}
       /\ lost' = lost \cup {n}
  /\ UNCHANGED <<next, sent, told>>

\* Several messages are sent at once: none of them was overtaken, and none of
\* those that stay behind is older.
Send ==
  /\ open /\ open'
  /\ \E batch \in SUBSET (waiting \ unfit) :
       /\ batch # {}
       /\ \A n \in batch : /\ \A m \in sent : m < n
                           /\ \A m \in waiting \ batch : n < m
       /\ waiting' = waiting \ batch
       /\ sent' = sent \cup batch
  /\ UNCHANGED <<next, unfit, lost, told>>

Tell ==
  /\ open /\ open'
  /\ told' = Cardinality(lost)
  /\ UNCHANGED <<next, waiting, unfit, sent, lost>>

Next == Open \/ Close \/ Accept \/ Overflow \/ Spoil \/ Send \/ Tell

Spec == Init /\ [][Next]_vars
=============================================================================
