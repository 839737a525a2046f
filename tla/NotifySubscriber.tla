-------------------------- MODULE NotifySubscriber --------------------------
(***************************************************************************)
(* CALL ros2.subscribe(topic) (src/src/subscriptions.rs).                  *)
(*                                                                         *)
(* A backend runs a loop of its own: check for interrupts, spin, discover  *)
(* the topic's type and subscribe once, drain the queue into notifications *)
(* of one transaction, commit, report what was lost.  Callbacks run inside *)
(* the spin, on the same thread; they number the messages, encode them and *)
(* put them into a bounded queue.  Around the loop publishers come and go, *)
(* and the call is cancelled or fails.  A call that is made again starts   *)
(* from nothing.                                                           *)
(*                                                                         *)
(* The transaction is a set: PostgreSQL folds equal notifications of one   *)
(* transaction into one.                                                   *)
(***************************************************************************)
EXTENDS Naturals, Sequences, FiniteSets

CONSTANTS
  Types,        \* message types
  Loadable,     \* ... whose type support the server can load
  None,         \* Option::None of the subscription
  QUEUE,        \* capacity of the queue (256)
  BATCH,        \* payloads drained in one pass (256)
  MaxCalls,     \* bound: calls
  MaxMessages,  \* bound: messages received by one call
  MaxChanges    \* bound: changes of the advertised types

ASSUME NotifyAssumption ==
  /\ Loadable \subseteq Types
  /\ None \notin Types
  /\ QUEUE \in Nat /\ BATCH \in Nat
  /\ QUEUE <= BATCH
  /\ {MaxCalls, MaxMessages, MaxChanges} \subseteq Nat

VARIABLES
  advertised,       \* types the topic has on the graph
  pc,               \* place in the loop; "idle": no call is running
  \* The variables of receive and of its callback.
  subscription,     \* type subscribed to, or None
  sequence,         \* number of the next message
  queue,            \* the channel between callback and loop
  dropped,          \* messages that found it full, since the last report
  encoding_errors,  \* messages that could not be encoded, likewise
  discovery_due,    \* next_discovery has passed
  report_due,       \* next_report has passed
  taken,            \* payloads drained in this pass
  notified,         \* this pass has a notification to commit
  transaction,      \* notifications of the open transaction
  \* History, used by properties and bounds only.
  received,         \* messages received by this call
  committed,        \* numbers its listeners were sent
  lost,             \* numbers dropped or not encoded
  reported,         \* losses its warnings have told of
  tally

counters == <<dropped, encoding_errors>>
timers == <<discovery_due, report_due>>
history == <<received, committed, lost, reported>>
vars == <<advertised, pc, subscription, sequence, queue, counters, timers, taken,
          notified, transaction, history, tally>>

Item == [sequence : Nat, ok : BOOLEAN]
Running == pc # "idle"

Count(event, limit) ==
  /\ tally[event] < limit
  /\ tally' = [tally EXCEPT ![event] = @ + 1]

Init ==
  /\ advertised \in SUBSET Types
  /\ pc = "idle"
  /\ subscription = None
  /\ sequence = 0
  /\ queue = <<>>
  /\ dropped = 0
  /\ encoding_errors = 0
  /\ discovery_due = TRUE
  /\ report_due = TRUE
  /\ taken = 0
  /\ notified = FALSE
  /\ transaction = {}
  /\ received = 0
  /\ committed = {}
  /\ lost = {}
  /\ reported = 0
  /\ tally = [call |-> 0, change |-> 0]

-----------------------------------------------------------------------------
(* The environment                                                         *)

ChangeTypes ==
  /\ Count("change", MaxChanges)
  /\ \E types \in SUBSET Types \ {advertised} : advertised' = types
  /\ UNCHANGED <<pc, subscription, sequence, queue, counters, timers, taken,
                 notified, transaction, history>>

DiscoveryDue ==
  /\ Running
  /\ ~discovery_due
  /\ discovery_due' = TRUE
  /\ UNCHANGED <<advertised, pc, subscription, sequence, queue, counters, report_due,
                 taken, notified, transaction, history, tally>>

ReportDue ==
  /\ Running
  /\ ~report_due
  /\ report_due' = TRUE
  /\ UNCHANGED <<advertised, pc, subscription, sequence, queue, counters,
                 discovery_due, taken, notified, transaction, history, tally>>

-----------------------------------------------------------------------------
(* The call                                                                *)

\* The variables of receive before its loop, and after its end.
NoCall ==
  /\ subscription' = None
  /\ sequence' = 0
  /\ queue' = <<>>
  /\ dropped' = 0
  /\ encoding_errors' = 0
  /\ discovery_due' = TRUE
  /\ report_due' = TRUE
  /\ taken' = 0
  /\ notified' = FALSE
  /\ transaction' = {}

CallSubscribe ==
  /\ pc = "idle"
  /\ Count("call", MaxCalls)
  /\ pc' = "check"
  /\ NoCall
  /\ received' = 0
  /\ committed' = {}
  /\ lost' = {}
  /\ reported' = 0
  /\ UNCHANGED advertised

\* An error or a cancellation unwinds receive and aborts the transaction.
EndCall ==
  /\ pc' = "idle"
  /\ NoCall
  /\ UNCHANGED <<advertised, history, tally>>

\* The interrupt check, a spin, pg_notify and the commit may end the call.
Interrupted == pc \in {"check", "spin", "drain", "commit"} /\ EndCall

CheckInterrupts ==
  /\ pc = "check"
  /\ pc' = "spin"
  /\ UNCHANGED <<advertised, subscription, sequence, queue, counters, timers, taken,
                 notified, transaction, history, tally>>

\* Mutant: the number is used up only by a message that was encoded.
SequenceOfEncoded(ok) == IF ok THEN sequence + 1 ELSE sequence

\* fetch_add, before the message is encoded.
NextSequence(ok) == sequence + 1

\* Mutant: one message too many is taken.
EnqueueBeyond(ok) ==
  IF Len(queue) <= QUEUE
  THEN /\ queue' = Append(queue, [sequence |-> sequence, ok |-> ok])
       /\ UNCHANGED <<dropped, lost>>
  ELSE /\ queue' = queue
       /\ dropped' = dropped + 1
       /\ lost' = lost \cup {sequence}

\* Mutant: a message is dropped although there is room for one.
EnqueueShort(ok) ==
  IF Len(queue) < QUEUE - 1
  THEN /\ queue' = Append(queue, [sequence |-> sequence, ok |-> ok])
       /\ UNCHANGED <<dropped, lost>>
  ELSE /\ queue' = queue
       /\ dropped' = dropped + 1
       /\ lost' = lost \cup {sequence}

\* try_send: a full queue drops the newest message.
Enqueue(ok) ==
  IF Len(queue) < QUEUE
  THEN /\ queue' = Append(queue, [sequence |-> sequence, ok |-> ok])
       /\ UNCHANGED <<dropped, lost>>
  ELSE /\ queue' = queue
       /\ dropped' = dropped + 1
       /\ lost' = lost \cup {sequence}

\* The callback.  Whether the message can be encoded is its own affair.
Receive ==
  /\ pc = "spin"
  /\ subscription \in advertised
  /\ received < MaxMessages
  /\ received' = received + 1
  /\ \E ok \in BOOLEAN : Enqueue(ok) /\ sequence' = NextSequence(ok)
  /\ UNCHANGED <<advertised, pc, subscription, encoding_errors, timers, taken,
                 notified, transaction, committed, reported, tally>>

\* Mutant: the time of the next look-up is compared the wrong way round.
DiscoversEarly == subscription = None /\ ~discovery_due

Discovers == subscription = None /\ discovery_due

EndSpin ==
  /\ pc = "spin"
  /\ pc' = IF Discovers THEN "discover" ELSE "drain"
  /\ UNCHANGED <<advertised, subscription, sequence, queue, counters, timers, taken,
                 notified, transaction, history, tally>>

\* A topic that nobody advertises yet is looked up again a second later.
Discover ==
  /\ pc = "discover"
  /\ \/ /\ advertised = {}
        /\ subscription' = None
     \/ \E kind \in Loadable : advertised = {kind} /\ subscription' = kind
  /\ discovery_due' = FALSE
  /\ pc' = "drain"
  /\ UNCHANGED <<advertised, sequence, queue, counters, report_due, taken, notified,
                 transaction, history, tally>>

\* Two types, or one that cannot be loaded, end the call.
DiscoverFails ==
  /\ pc = "discover"
  /\ Cardinality(advertised) > 1 \/ (advertised # {} /\ ~(advertised \subseteq Loadable))
  /\ EndCall

\* Mutant: an error takes back the decision to commit.
NotifiedLast(item) == item.ok

Notified(item) == notified \/ item.ok

\* One payload of the pass: pg_notify, or a count of what it could not be.
DrainOne ==
  /\ pc = "drain"
  /\ queue # <<>>
  /\ taken < BATCH
  /\ taken' = taken + 1
  /\ queue' = Tail(queue)
  /\ notified' = Notified(Head(queue))
  /\ IF Head(queue).ok
     THEN /\ transaction' = transaction \cup {Head(queue).sequence}
          /\ UNCHANGED <<encoding_errors, lost>>
     ELSE /\ encoding_errors' = encoding_errors + 1
          /\ lost' = lost \cup {Head(queue).sequence}
          /\ UNCHANGED transaction
  /\ UNCHANGED <<advertised, pc, subscription, sequence, dropped, timers, received,
                 committed, reported, tally>>

EndDrain ==
  /\ pc = "drain"
  /\ queue = <<>> \/ taken = BATCH
  /\ taken' = 0
  /\ pc' = IF notified THEN "commit" ELSE "report"
  /\ UNCHANGED <<advertised, subscription, sequence, queue, counters, timers, notified,
                 transaction, history, tally>>

Commit ==
  /\ pc = "commit"
  /\ committed' = committed \cup transaction
  /\ transaction' = {}
  /\ notified' = FALSE
  /\ pc' = "report"
  /\ UNCHANGED <<advertised, subscription, sequence, queue, counters, timers, taken,
                 received, lost, reported, tally>>

\* Mutant: encoding errors alone are not worth a warning.
ReportedOfDrops ==
  IF dropped > 0 THEN reported + dropped + encoding_errors ELSE reported

Reported == reported + dropped + encoding_errors

\* Both counters start again at 0, whether or not there was a warning.
Report ==
  /\ pc = "report"
  /\ report_due
  /\ reported' = Reported
  /\ dropped' = 0
  /\ encoding_errors' = 0
  /\ report_due' = FALSE
  /\ pc' = "check"
  /\ UNCHANGED <<advertised, subscription, sequence, queue, discovery_due, taken,
                 notified, transaction, received, committed, lost, tally>>

SkipReport ==
  /\ pc = "report"
  /\ ~report_due
  /\ pc' = "check"
  /\ UNCHANGED <<advertised, subscription, sequence, queue, counters, timers, taken,
                 notified, transaction, history, tally>>

-----------------------------------------------------------------------------
Loop ==
  \/ CheckInterrupts \/ EndSpin \/ Discover \/ DiscoverFails
  \/ DrainOne \/ EndDrain \/ Commit \/ Report \/ SkipReport

Next ==
  \/ ChangeTypes \/ DiscoveryDue \/ ReportDue
  \/ CallSubscribe \/ Interrupted \/ Receive \/ Loop

Spec == Init /\ [][Next]_vars

\* The loop runs and its timers elapse.  Nobody has to call, publish or cancel.
Fairness ==
  /\ WF_vars(Loop)
  /\ WF_vars(DiscoveryDue)
  /\ WF_vars(ReportDue)

FairSpec == Spec /\ Fairness

-----------------------------------------------------------------------------
(* Properties                                                              *)

\* Every variable keeps its type, and the queue its bound.
TypeOK ==
  /\ advertised \subseteq Types
  /\ pc \in {"idle", "check", "spin", "discover", "drain", "commit", "report"}
  /\ subscription \in Loadable \cup {None}
  /\ sequence \in Nat
  /\ queue \in Seq(Item) /\ Len(queue) <= QUEUE
  /\ dropped \in Nat
  /\ encoding_errors \in Nat
  /\ discovery_due \in BOOLEAN
  /\ report_due \in BOOLEAN
  /\ taken \in Nat
  /\ notified \in BOOLEAN
  /\ transaction \subseteq Nat
  /\ received \in Nat
  /\ committed \subseteq Nat
  /\ lost \subseteq Nat
  /\ reported \in Nat
  /\ tally \in [{"call", "change"} -> Nat]

Queued == {queue[i].sequence : i \in 1..Len(queue)}

\* While a call runs, each message it received is in exactly one place: sent to
\* the listeners, in the open transaction, in the queue, or lost and counted,
\* in a warning or for the next one.  So the gaps a listener sees in the
\* sequence are the losses, and nothing is folded.
EveryMessageAccounted ==
  Running =>
    /\ committed \cup transaction \cup Queued \cup lost = 0..(received - 1)
    /\ committed \cap (transaction \cup Queued \cup lost) = {}
    /\ transaction \cap (Queued \cup lost) = {}
    /\ Queued \cap lost = {}
    /\ reported + dropped + encoding_errors = Cardinality(lost)

\* When a pass is over nothing is left in the queue or in the transaction: a
\* call cancelled where it checks for it, or while it reports, has sent all it
\* received.
NothingWaits == pc \in {"check", "report"} => queue = <<>> /\ transaction = {}

\* Every loss is told to the caller by a later warning, unless the call ends.
LossesAreReported ==
  reported < Cardinality(lost) ~> reported = Cardinality(lost) \/ ~Running

\* A call that was there first subscribes once its topic has one type that
\* loads: the look-up is repeated for as long as it takes.
SubscribesEventually ==
  \A kind \in Loadable :
    Running /\ advertised = {kind} ~>
      subscription # None \/ advertised # {kind} \/ ~Running

\* The payloads of the queue that could not be encoded.
Unencoded == {queue[i].sequence : i \in {j \in 1..Len(queue) : ~queue[j].ok}}

Channel == INSTANCE LossyChannel WITH
  Capacity <- QUEUE,
  open <- Running,
  next <- received,
  waiting <- transaction \cup Queued,
  unfit <- Unencoded,
  sent <- committed,
  told <- reported

\* The call is a lossy channel: its listeners see increasing numbers, each at
\* most once; a message is lost only if QUEUE others wait or it cannot be
\* encoded; a warning tells of every loss before it.
ImplementsChannel == Channel!Spec
=============================================================================
