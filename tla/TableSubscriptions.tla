------------------------ MODULE TableSubscriptions ------------------------
(***************************************************************************)
(* Table-backed subscriptions of the graph worker (src/src/messages.rs and *)
(* the slots of the loop in src/src/lib.rs that run them).                 *)
(*                                                                         *)
(* Users register topics as rows of ros2.subscriptions with ordinary DML.  *)
(* The worker loop spins ROS callbacks, which fill one mailbox per live    *)
(* subscription; flushes the mailboxes to ros2.messages in a transaction;  *)
(* and reconciles its subscriptions with the table, reading the rows in    *)
(* one transaction and writing the outcome in a second.  Users, publishers *)
(* and the graph act between any two of these steps.                       *)
(*                                                                         *)
(* Time is logical: the clock counts registrations, which is all that      *)
(* registered_at and received_at are compared for.                         *)
(***************************************************************************)
EXTENDS Naturals, FiniteSets

CONSTANTS
  Topics,
  Types,             \* message types
  Loadable,          \* types whose support the server can load
  None,              \* no row, no subscription, no type
  TtlEnabled,        \* pg_ros2.subscription_ttl is positive
  MaxRegistrations,  \* bound: INSERTs into ros2.subscriptions
  MaxMessages,       \* bound: messages received
  MaxFailures,       \* bound: failed reads of ros2.subscriptions
  MaxRestarts        \* bound: crashes and context rebuilds

Row == [requested_type : Types \cup {None}, message_type : Types \cup {None},
        failed : BOOLEAN,     \* last_error is not null
        lapsed : BOOLEAN,     \* keepalive_at is older than a positive TTL
        registered_at : Nat]
Message == [sequence : Nat \ {0}, received_at : Nat]
Desired == [requested_type : Types \cup {None}, lapsed : BOOLEAN]
\* A live subscription with its mailbox; pending 0 is Option::None.
Live == [message_type : Types, sequence : Nat, pending : Nat, error : BOOLEAN]

ASSUME SubscriptionAssumption ==
  /\ Loadable \subseteq Types
  /\ None \notin Types \cup Row \cup Message \cup Desired \cup Live
  /\ TtlEnabled \in BOOLEAN
  /\ {MaxRegistrations, MaxMessages, MaxFailures, MaxRestarts} \subseteq Nat

VARIABLES
  \* The database and the ROS graph.
  installed,     \* the extension exists
  subscriptions, \* ros2.subscriptions
  messages,      \* ros2.messages
  advertised,    \* the types each topic is advertised with
  clock,
  \* The worker.
  pc,
  live,          \* the map of live subscriptions
  desired,       \* the rows read by the reconcile in progress
  flush_due,     \* next_message_flush has passed
  poll_due,      \* next_subscription_poll has passed
  \* History, used by properties and bounds only.
  stored,        \* last sequence each live subscription has stored
  withdrawn,     \* topics whose row has gone since a read last saw it
  tally          \* how often each bounded event has happened

tables == <<installed, subscriptions, messages, clock>>
timers == <<flush_due, poll_due>>
vars == <<tables, advertised, pc, live, desired, timers, stored, withdrawn, tally>>

Nowhere == [t \in Topics |-> None]
IsLive(t) == live[t] # None
AnyLive == \E t \in Topics : IsLive(t)

Count(event, limit) ==
  /\ tally[event] < limit
  /\ tally' = [tally EXCEPT ![event] = @ + 1]

Init ==
  /\ installed = FALSE
  /\ subscriptions = Nowhere
  /\ messages = Nowhere
  /\ advertised \in [Topics -> SUBSET Types]
  /\ clock = 0
  /\ pc = "spin"
  /\ live = Nowhere
  /\ desired = Nowhere
  /\ flush_due = TRUE
  /\ poll_due = TRUE
  /\ stored = [t \in Topics |-> 0]
  /\ withdrawn = {}
  /\ tally = [message |-> 0, failure |-> 0, restart |-> 0]

-----------------------------------------------------------------------------
(* Users, administrators and publishers                                    *)

\* INSERT ... ON CONFLICT DO NOTHING; the other columns keep their defaults.
Register(t, kind) ==
  /\ installed
  /\ subscriptions[t] = None
  /\ clock < MaxRegistrations
  /\ clock' = clock + 1
  /\ subscriptions' = [subscriptions EXCEPT ![t] =
       [requested_type |-> kind, message_type |-> None, failed |-> FALSE,
        lapsed |-> FALSE, registered_at |-> clock']]
  /\ UNCHANGED <<installed, messages, advertised, pc, live, desired, timers,
                 stored, withdrawn, tally>>

\* DELETE of one row.
Unregister(t) ==
  /\ subscriptions[t] # None
  /\ subscriptions' = [subscriptions EXCEPT ![t] = None]
  /\ withdrawn' = withdrawn \cup {t}
  /\ UNCHANGED <<installed, messages, clock, advertised, pc, live, desired,
                 timers, stored, tally>>

SetLapsed(t, value) ==
  /\ subscriptions[t] # None
  /\ subscriptions[t].lapsed = ~value
  /\ subscriptions' = [subscriptions EXCEPT ![t].lapsed = value]
  /\ UNCHANGED <<installed, messages, clock, advertised, pc, live, desired,
                 timers, stored, withdrawn, tally>>

\* UPDATE ... SET keepalive_at, and the passing of the TTL without one.
Keepalive(t) == SetLapsed(t, FALSE)
Lapse(t) == TtlEnabled /\ SetLapsed(t, TRUE)

CreateExtension ==
  /\ ~installed
  /\ installed' = TRUE
  /\ UNCHANGED <<subscriptions, messages, clock, advertised, pc, live, desired,
                 timers, stored, withdrawn, tally>>

DropExtension ==
  /\ installed
  /\ installed' = FALSE
  /\ subscriptions' = Nowhere
  /\ messages' = Nowhere
  /\ withdrawn' = Topics
  /\ UNCHANGED <<clock, advertised, pc, live, desired, timers, stored, tally>>

Advertise(t) ==
  /\ \E kinds \in SUBSET Types \ {advertised[t]} :
       advertised' = [advertised EXCEPT ![t] = kinds]
  /\ UNCHANGED <<tables, pc, live, desired, timers, stored, withdrawn, tally>>

-----------------------------------------------------------------------------
(* The loop: spin, flush when due, reconcile when due, the rest            *)

FlushTimer ==
  /\ ~flush_due
  /\ flush_due' = TRUE
  /\ UNCHANGED <<tables, advertised, pc, live, desired, poll_due, stored,
                 withdrawn, tally>>

PollTimer ==
  /\ ~poll_due
  /\ poll_due' = TRUE
  /\ UNCHANGED <<tables, advertised, pc, live, desired, flush_due, stored,
                 withdrawn, tally>>

\* The callback of a live subscription, run by the executor's spin: a message
\* that can be encoded replaces the pending one, another leaves it and records
\* the error.  The sequence counts both.
Receive(t) ==
  /\ pc = "spin"
  /\ IsLive(t)
  /\ Count("message", MaxMessages)
  /\ LET n == live[t].sequence + 1 IN
       \/ live' = [live EXCEPT ![t] = [@ EXCEPT !.sequence = n, !.pending = n]]
       \/ live' = [live EXCEPT ![t] = [@ EXCEPT !.sequence = n, !.error = TRUE]]
  /\ UNCHANGED <<tables, advertised, pc, desired, timers, stored, withdrawn>>

AfterFlush == IF poll_due THEN "poll" ELSE "rest"

\* Mutant: a due reconcile displaces a due flush.
EndSpinPollFirst ==
  /\ pc = "spin"
  /\ pc' = IF poll_due THEN "poll" ELSE IF flush_due /\ AnyLive THEN "flush" ELSE "rest"
  /\ UNCHANGED <<tables, advertised, live, desired, timers, stored, withdrawn,
                 tally>>

EndSpin ==
  /\ pc = "spin"
  /\ pc' = IF flush_due /\ AnyLive THEN "flush" ELSE AfterFlush
  /\ UNCHANGED <<tables, advertised, live, desired, timers, stored, withdrawn,
                 tally>>

Pending == {t \in Topics : IsLive(t) /\ live[t].pending # 0}
Failing == {t \in Topics : IsLive(t) /\ live[t].error}

\* Mutant: the pending message is read but not taken.
EmptiedOfErrors(t) == IF IsLive(t) THEN [live[t] EXCEPT !.error = FALSE] ELSE None

Emptied(t) ==
  IF IsLive(t) THEN [live[t] EXCEPT !.pending = 0, !.error = FALSE] ELSE None

\* messages::flush.  The mailboxes are emptied first; without the extension
\* what they held is lost.  Errors are written after the messages.
Flush ==
  /\ pc = "flush"
  /\ live' = [t \in Topics |-> Emptied(t)]
  /\ IF installed
     THEN /\ messages' = [t \in Topics |->
               IF t \in Pending
               THEN [sequence |-> live[t].pending, received_at |-> clock]
               ELSE messages[t]]
          /\ subscriptions' = [t \in Topics |->
               IF t \in Pending \cup Failing /\ subscriptions[t] # None
               THEN [subscriptions[t] EXCEPT !.failed = (t \in Failing)]
               ELSE subscriptions[t]]
          /\ stored' = [t \in Topics |->
               IF t \in Pending THEN live[t].pending ELSE stored[t]]
     ELSE UNCHANGED <<messages, subscriptions, stored>>
  /\ flush_due' = FALSE
  /\ pc' = AfterFlush
  /\ UNCHANGED <<installed, clock, advertised, desired, poll_due, withdrawn, tally>>

\* reconcile's first transaction.  Without the extension nothing is desired.
ReadDesired ==
  /\ pc = "poll"
  /\ pc' = "apply"
  /\ desired' = [t \in Topics |->
       IF subscriptions[t] = None THEN None
       ELSE [requested_type |-> subscriptions[t].requested_type,
             lapsed |-> subscriptions[t].lapsed]]
  /\ withdrawn' = {t \in withdrawn : subscriptions[t] = None}
  /\ UNCHANGED <<tables, advertised, live, timers, stored, tally>>

\* Mutant: an unreadable table counts as an empty one.
ReadDesiredFailsAsEmpty ==
  /\ pc = "poll"
  /\ installed
  /\ Count("failure", MaxFailures)
  /\ pc' = "apply"
  /\ UNCHANGED <<tables, advertised, live, desired, timers, stored, withdrawn>>

\* An unreadable table changes nothing.
ReadDesiredFails ==
  /\ pc = "poll"
  /\ installed
  /\ Count("failure", MaxFailures)
  /\ pc' = "rest"
  /\ poll_due' = FALSE
  /\ UNCHANGED <<tables, advertised, live, desired, flush_due, stored, withdrawn>>

Expired == {t \in Topics : desired[t] # None /\ TtlEnabled /\ desired[t].lapsed}
Wanted == {t \in Topics : desired[t] # None} \ Expired

\* Mutant: a topic whose row shows an error is not retried.
MissingOnce ==
  {t \in Wanted : ~IsLive(t) /\ (subscriptions[t] = None \/ ~subscriptions[t].failed)}

Missing == {t \in Wanted : ~IsLive(t)}

\* Mutant: retain forgets to collect what it removes.
RemovedForgotten == {}

Removed == {t \in Topics \ (Wanted \cup Expired) : IsLive(t)}

\* The requested type, or the only advertised one, if its support loads.
Candidates(t) ==
  IF desired[t].requested_type # None THEN {desired[t].requested_type}
  ELSE advertised[t]
CanSubscribe(t) == Cardinality(Candidates(t)) = 1 /\ Candidates(t) \subseteq Loadable
Subscribed == {t \in Missing : CanSubscribe(t)}

\* Mutant: the requested type is kept although it may be absent.
RequestedType(t) == desired[t].requested_type

ResolvedType(t) == CHOOSE kind \in Candidates(t) : TRUE

\* Mutant: a subscription whose row disappeared is kept.
LiveAfterWithoutRetain(t) ==
  IF t \in Subscribed
  THEN [message_type |-> ResolvedType(t), sequence |-> 0, pending |-> 0, error |-> FALSE]
  ELSE IF t \notin Expired THEN live[t] ELSE None

LiveAfter(t) ==
  IF t \in Subscribed
  THEN [message_type |-> ResolvedType(t), sequence |-> 0, pending |-> 0, error |-> FALSE]
  ELSE IF t \in Wanted THEN live[t] ELSE None

\* Mutant: the type is written for topics that are already live, too.
RowAfterWithoutSkip(t) ==
  IF t \in Wanted /\ CanSubscribe(t)
  THEN [subscriptions[t] EXCEPT !.message_type = ResolvedType(t), !.failed = FALSE]
  ELSE IF t \in Missing THEN [subscriptions[t] EXCEPT !.failed = TRUE]
  ELSE subscriptions[t]

\* Mutant: an error to subscribe is not written to the row.
RowAfterWithoutError(t) ==
  IF t \in Subscribed
  THEN [subscriptions[t] EXCEPT !.message_type = ResolvedType(t), !.failed = FALSE]
  ELSE subscriptions[t]

\* A row that still exists when the outcome is written.
RowAfter(t) ==
  IF t \in Subscribed
  THEN [subscriptions[t] EXCEPT !.message_type = ResolvedType(t), !.failed = FALSE]
  ELSE IF t \in Missing THEN [subscriptions[t] EXCEPT !.failed = TRUE]
  ELSE subscriptions[t]

\* reconcile after the read: subscribe, retain, and the second transaction,
\* which finds the tables as they are now: absent rows, and without the
\* extension all of them, stay absent.
Reconcile ==
  /\ pc = "apply"
  /\ live' = [t \in Topics |-> LiveAfter(t)]
  /\ stored' = [t \in Topics |-> IF t \in Wanted \ Subscribed THEN stored[t] ELSE 0]
  /\ messages' = [t \in Topics |->
       IF t \in Removed \cup Expired THEN None ELSE messages[t]]
  /\ subscriptions' = [t \in Topics |->
       IF subscriptions[t] = None \/ t \in Expired THEN None ELSE RowAfter(t)]
  /\ desired' = Nowhere
  /\ poll_due' = FALSE
  /\ pc' = "rest"
  /\ UNCHANGED <<installed, clock, advertised, flush_due, withdrawn, tally>>

\* The rest of the iteration: parameters and the graph (other modules).
EndIteration ==
  /\ pc = "rest"
  /\ pc' = "spin"
  /\ UNCHANGED <<tables, advertised, live, desired, timers, stored, withdrawn,
                 tally>>

ForgetSubscriptions ==
  /\ live' = Nowhere
  /\ desired' = Nowhere
  /\ stored' = [t \in Topics |-> 0]
  /\ UNCHANGED <<tables, advertised, withdrawn>>

\* The graph stayed empty: a new session clears the map and starts its timers.
Rebuild ==
  /\ pc = "rest"
  /\ Count("restart", MaxRestarts)
  /\ ForgetSubscriptions
  /\ pc' = "spin"
  /\ flush_due' = TRUE
  /\ poll_due' = TRUE

\* A SQL error, a ROS error or a signal ends the process; a transaction in
\* progress aborts, the committed ones remain.
Crash ==
  /\ pc # "down"
  /\ Count("restart", MaxRestarts)
  /\ ForgetSubscriptions
  /\ pc' = "down"
  /\ UNCHANGED timers

Restart ==
  /\ pc = "down"
  /\ pc' = "spin"
  /\ flush_due' = TRUE
  /\ poll_due' = TRUE
  /\ UNCHANGED <<tables, advertised, live, desired, stored, withdrawn, tally>>

-----------------------------------------------------------------------------
User(t) ==
  \/ \E kind \in Types \cup {None} : Register(t, kind)
  \/ Unregister(t)
  \/ Keepalive(t)
  \/ Lapse(t)
  \/ Advertise(t)

Worker ==
  \/ EndSpin \/ Flush \/ ReadDesired \/ ReadDesiredFails \/ Reconcile
  \/ EndIteration

Next ==
  \/ \E t \in Topics : User(t) \/ Receive(t)
  \/ CreateExtension \/ DropExtension
  \/ Worker \/ FlushTimer \/ PollTimer
  \/ Rebuild \/ Crash \/ Restart

Spec == Init /\ [][Next]_vars

\* The loop runs, its timers elapse and the postmaster restarts a dead worker.
Fairness ==
  /\ WF_vars(Worker)
  /\ WF_vars(FlushTimer)
  /\ WF_vars(PollTimer)
  /\ WF_vars(Restart)

FairSpec == Spec /\ Fairness

-----------------------------------------------------------------------------
(* Properties                                                              *)

\* Every variable keeps its type.
TypeOK ==
  /\ installed \in BOOLEAN
  /\ subscriptions \in [Topics -> Row \cup {None}]
  /\ messages \in [Topics -> Message \cup {None}]
  /\ advertised \in [Topics -> SUBSET Types]
  /\ clock \in Nat
  /\ pc \in {"spin", "flush", "poll", "apply", "rest", "down"}
  /\ live \in [Topics -> Live \cup {None}]
  /\ desired \in [Topics -> Desired \cup {None}]
  /\ flush_due \in BOOLEAN
  /\ poll_due \in BOOLEAN
  /\ stored \in [Topics -> Nat]
  /\ withdrawn \subseteq Topics
  /\ tally \in [{"message", "failure", "restart"} -> Nat]

\* A cached message never outlives the subscription that produced it, so what
\* reconcile removes with a subscription (removed, expired) is all there is;
\* until a crash or a rebuild forgets the map but not the table.
CachedMessageHasSubscription ==
  tally["restart"] = 0 => \A t \in Topics : messages[t] # None => IsLive(t)

\* The type a row shows is the type its live subscription was created with,
\* even if the row was replaced or the advertised type changed meanwhile.
ShownTypeIsSubscribedType ==
  \A t \in Topics : subscriptions[t] # None /\ IsLive(t) =>
    subscriptions[t].message_type \in {None, live[t].message_type}

\* "An unreadable table must not be mistaken for no subscriptions wanted": a
\* running session stops a subscription only after its row was deleted or
\* lapsed, however reads, failures and users interleave.
StopsOnlyUnwanted ==
  [][\A t \in Topics : pc = "apply" /\ pc' = "rest" /\ IsLive(t) /\ live'[t] = None =>
       t \in withdrawn \/ t \in Expired]_vars

\* The inductive strengthening of the statements above, topic by topic.
InductiveFor(t) ==
  /\ ~installed => subscriptions[t] = None /\ messages[t] = None
  /\ tally["restart"] = 0 /\ messages[t] # None => IsLive(t)
  /\ subscriptions[t] # None /\ IsLive(t) =>
       subscriptions[t].message_type \in {None, live[t].message_type}
  \* The mailbox counts; what it has stored is what the table shows.
  /\ IsLive(t) => /\ stored[t] <= live[t].sequence
                  /\ live[t].pending <= live[t].sequence
                  /\ live[t].pending # 0 => stored[t] < live[t].pending
  /\ stored[t] > 0 => IsLive(t)
  /\ stored[t] > 0 /\ messages[t] # None => messages[t].sequence = stored[t]
  \* Rows that the worker knows of vanish only by being withdrawn.
  /\ pc # "apply" => desired[t] = None
  /\ subscriptions[t] = None /\ (IsLive(t) \/ desired[t] # None) => t \in withdrawn
  /\ pc = "apply" /\ IsLive(t) /\ desired[t] = None => t \in withdrawn

Inductive == \A t \in Topics : InductiveFor(t)

\* "A later registration cannot read a stale one": a cached message is never
\* older than the registration of its topic.
NoStaleMessage ==
  \A t \in Topics : subscriptions[t] # None /\ messages[t] # None =>
    messages[t].received_at >= subscriptions[t].registered_at

\* "Removes a subscription whose keepalive_at stops advancing": the worker
\* never deletes a row whose keepalive is fresh when it deletes it.
KeepaliveRespected ==
  [][\A t \in Topics : pc = "apply" /\ pc' = "rest" /\ subscriptions[t] # None
                         /\ subscriptions'[t] = None =>
       subscriptions[t].lapsed]_vars

Registered(t) == subscriptions[t] # None /\ ~subscriptions[t].lapsed

\* A topic that stays registered is served, or its row says why it is not.
ServedOrExplained ==
  \A t \in Topics : <>[]Registered(t) =>
    []<>(subscriptions[t] # None /\ (IsLive(t) \/ subscriptions[t].failed))

\* A topic that stays registered with a type that can be resolved is retried
\* until it is live.
EventuallyLive ==
  \A t \in Topics :
    <>[](Registered(t) /\ subscriptions[t].requested_type = None
           /\ \E kind \in Loadable : advertised[t] = {kind})
      => <>[]IsLive(t)

\* A topic without a row ends up without a subscription.
EventuallyStopped ==
  \A t \in Topics : <>[](subscriptions[t] = None) => <>[](~IsLive(t))

\* "Deleting a row stops its subscription and deletes its cached message."
EventuallyUncached ==
  \A t \in Topics : <>[](subscriptions[t] = None) => <>[](messages[t] = None)

\* The newest pending message, or a newer one, reaches the cache, unless the
\* subscription ends or the extension is dropped first.
NewestReachesCache ==
  \A t \in Topics : \A n \in 1..MaxMessages :
    (IsLive(t) /\ live[t].pending = n) ~> (~IsLive(t) \/ ~installed \/ stored[t] >= n)

-----------------------------------------------------------------------------
(* What a reader of the messages is promised                               *)

Latest(t) == INSTANCE LatestMessage WITH
  starts <- tally["restart"],
  open <- IsLive(t),
  received <- IF IsLive(t) THEN live[t].sequence ELSE 0,
  newest <- IF IsLive(t) THEN live[t].pending ELSE 0,
  last <- stored[t],
  shown <- IF messages[t] = None THEN 0 ELSE messages[t].sequence

\* "Use received_at and sequence to tell whether a message is new": for each
\* topic, the newest message that can be encoded is shown unless a newer one,
\* the end of the subscription or the absence of the extension comes first; one
\* subscription never goes back, and it takes its message with it.
ImplementsLatest ==
  /\ \A t \in Topics : Latest(t)!Init
  /\ [][\A t \in Topics : [Latest(t)!Next]_(Latest(t)!vars)]_vars
=============================================================================
