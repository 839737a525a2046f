---------------------------- MODULE GraphWorker ----------------------------
(***************************************************************************)
(* The graph observer of the pg_ros2 background worker (src/src/lib.rs).   *)
(*                                                                         *)
(* One process runs sessions.  A session owns one ROS participant and a    *)
(* loop that, when the graph listener has raised the dirty flag, reads the *)
(* graph with two queries, and saves a changed snapshot to ros2.nodes and  *)
(* ros2.topics in one transaction.  A session whose graph stays empty is   *)
(* replaced.  Around the worker: the ROS graph changes, the network comes  *)
(* up, an administrator drops and creates the extension or reloads the     *)
(* configuration, queries fail, transactions abort and processes die.      *)
(*                                                                         *)
(* Durations are whole seconds.  An absent interval (Option::None) is 0,   *)
(* and so is an absent extension or extension oid.                         *)
(***************************************************************************)
EXTENDS Naturals

CONSTANTS
  NodeLists,         \* sorted node lists a query may return
  Topics,            \* topic/type pairs
  NoNodes,           \* the empty node list
  OwnTopic,          \* the pair a row of ros2.subscriptions may ask for
  None,              \* Option::None of a snapshot
  Intervals,         \* values given to pg_ros2.ros_reinit_after; 0 disables
  MAX_REINIT_AFTER,  \* longest backoff (600 s in the code)
  MaxOid,            \* bound: CREATE EXTENSION statements
  MaxChanges,        \* bound: changes of the ROS graph
  MaxFailures,       \* bound: failed graph queries
  MaxCrashes,        \* bound: ends of a worker process
  MaxReloads,        \* bound: configuration reloads
  MaxRegistrations   \* bound: times the row is inserted

\* The sorted list of distinct pairs is a set; names of nodes may repeat.
TopicLists == SUBSET Topics
NoTopics == {}
Snapshot == [nodes : NodeLists, topics : TopicLists]
EmptySnapshot == [nodes |-> NoNodes, topics |-> NoTopics]

ASSUME GraphAssumption ==
  /\ NoNodes \in NodeLists
  /\ OwnTopic \in Topics
  /\ None \notin Snapshot
  /\ Intervals \subseteq Nat
  /\ MAX_REINIT_AFTER \in Nat \ {0}
  /\ {MaxOid, MaxChanges, MaxFailures, MaxCrashes, MaxReloads,
      MaxRegistrations} \subseteq Nat

VARIABLES
  \* The environment.
  graph,          \* the peers and topics on the ROS domain
  network,        \* the host network is usable by DDS
  interval,       \* current value of pg_ros2.ros_reinit_after
  \* The database.
  ext,            \* oid of the installed extension, 0 when absent
  oids,           \* last oid given out
  table,          \* contents of ros2.nodes and ros2.topics
  status,         \* the ros2.worker_status row
  registered,     \* ros2.subscriptions has a row that names OwnTopic's type
  \* The worker: variables of run_observer, then of run_session.
  pc,
  previous,       \* last snapshot read, None before the first
  extension_oid,  \* extension seen by the last check
  reinit_after,   \* rebuild interval of this session
  joined,         \* this session's participant takes part in discovery
  own,            \* this session subscribes to OwnTopic itself
  warm,           \* the one second warm-up has passed
  dirty,          \* raised by the graph listener
  empty_for,      \* 0: empty_since is None; k: Some, k - 1 seconds ago
  saw_graph,      \* this session discovered a peer
  read,           \* the snapshot being read
  \* History, used by properties and bounds only.
  writer,         \* oid of the installation this process last wrote
  tally           \* how often each bounded event has happened

memory == <<previous, extension_oid, reinit_after, writer>>
session == <<joined, own, warm, dirty, empty_for, saw_graph>>
database == <<ext, oids, table, status, registered>>
environment == <<graph, network, interval>>
vars == <<environment, database, pc, memory, session, read, tally>>

NoStatus == [checked |-> FALSE, refreshed |-> FALSE, failed |-> FALSE]
FailedRead == [ok |-> FALSE, nodes |-> NoNodes, topics |-> NoTopics]

Running == pc \in {"spin", "topics", "persist"}

Count(event, limit) ==
  /\ tally[event] < limit
  /\ tally' = [tally EXCEPT ![event] = @ + 1]

Init ==
  /\ graph \in Snapshot
  /\ network \in BOOLEAN
  /\ interval \in Intervals
  /\ ext = 0
  /\ oids = 0
  /\ table = EmptySnapshot
  /\ status = NoStatus
  /\ registered = FALSE
  /\ pc = "session"
  /\ previous = None
  /\ extension_oid = 0
  /\ reinit_after = interval
  /\ joined = FALSE
  /\ own = FALSE
  /\ warm = FALSE
  /\ dirty = FALSE
  /\ empty_for = 0
  /\ saw_graph = FALSE
  /\ read = FailedRead
  /\ writer = 0
  /\ tally = [change |-> 0, failure |-> 0, crash |-> 0, reload |-> 0,
             register |-> 0]

-----------------------------------------------------------------------------
(* The environment                                                         *)

ChangeGraph ==
  /\ Count("change", MaxChanges)
  /\ \E g \in Snapshot \ {graph} : graph' = g
  /\ UNCHANGED <<network, interval, database, pc, memory, session, read>>

NetworkUp ==
  /\ ~network
  /\ network' = TRUE
  /\ UNCHANGED <<graph, interval, database, pc, memory, session, read, tally>>

\* SIGHUP: the setting is a Sighup GUC, so a reload changes it at any time.
Reload ==
  /\ Count("reload", MaxReloads)
  /\ \E i \in Intervals \ {interval} : interval' = i
  /\ UNCHANGED <<graph, network, database, pc, memory, session, read>>

\* The installation script creates every table empty.
CreateExtension ==
  /\ ext = 0
  /\ oids < MaxOid
  /\ oids' = oids + 1
  /\ ext' = oids + 1
  /\ table' = EmptySnapshot
  /\ status' = NoStatus
  /\ UNCHANGED <<environment, registered, pc, memory, session, read, tally>>

DropExtension ==
  /\ ext # 0
  /\ ext' = 0
  /\ table' = EmptySnapshot
  /\ status' = NoStatus
  /\ registered' = FALSE
  /\ UNCHANGED <<environment, oids, pc, memory, session, read, tally>>

\* A user asks the worker to subscribe, naming a type it can load ...
Register ==
  /\ ext # 0
  /\ ~registered
  /\ Count("register", MaxRegistrations)
  /\ registered' = TRUE
  /\ UNCHANGED <<environment, ext, oids, table, status, pc, memory, session, read>>

\* ... and withdraws the row, or lets it expire.
Unregister ==
  /\ registered
  /\ registered' = FALSE
  /\ UNCHANGED <<environment, ext, oids, table, status, pc, memory, session, read,
                 tally>>

-----------------------------------------------------------------------------
(* Sessions                                                                *)

\* A new participant joins discovery only if the network is usable.  The
\* previous one's subscriptions are dropped first (subscriptions.clear).
StartSession ==
  /\ pc = "session"
  /\ pc' = "spin"
  /\ joined' = network
  /\ own' = FALSE
  /\ warm' = FALSE
  /\ dirty' = TRUE
  /\ empty_for' = 0
  /\ saw_graph' = FALSE
  /\ UNCHANGED <<environment, database, memory, read, tally>>

\* messages::reconcile, as far as the graph shows it: a row with a type is
\* subscribed to whether or not anybody publishes, a missing row is not.
Reconcile ==
  /\ pc = "spin"
  /\ own # registered
  /\ own' = registered
  /\ UNCHANGED <<environment, database, pc, memory, joined, warm, dirty, empty_for,
                 saw_graph, read, tally>>

\* The first pass of the loop reconciles, long before the second is over.
WarmUp ==
  /\ pc = "spin"
  /\ ~warm
  /\ warm' = TRUE
  /\ own' = registered
  /\ UNCHANGED <<environment, database, pc, memory, joined, dirty, empty_for,
                 saw_graph, read, tally>>

\* The listener runs on every graph change and once per second besides, and
\* the flag is atomic: it may be raised between any two steps of the loop.
NotifyDirty ==
  /\ Running
  /\ ~dirty
  /\ dirty' = TRUE
  /\ UNCHANGED <<environment, database, pc, memory, joined, own, warm, empty_for,
                 saw_graph, read, tally>>

\* One second of an empty graph.  The count stops once it exceeds the
\* interval it is compared with, and is not kept when there is none.
Tick ==
  /\ Running
  /\ 0 < empty_for
  /\ empty_for <= reinit_after
  /\ empty_for' = empty_for + 1
  /\ UNCHANGED <<environment, database, pc, memory, joined, own, warm, dirty,
                 saw_graph, read, tally>>

-----------------------------------------------------------------------------
(* GraphSnapshot::read: two queries, one after the other                   *)

\* An isolated participant's queries succeed and find nobody.  The topic query
\* lists the participant's own subscription; the node query leaves it out.
Visible ==
  [nodes |-> IF joined THEN graph.nodes ELSE NoNodes,
   topics |-> (IF joined THEN graph.topics ELSE NoTopics)
              \cup (IF own THEN {OwnTopic} ELSE {})]

QueryFails ==
  /\ Count("failure", MaxFailures)
  /\ read' = FailedRead
  /\ pc' = "persist"

\* The flag is swapped to FALSE before the read, never after it.
ReadNodes ==
  /\ pc = "spin"
  /\ warm
  /\ dirty
  /\ dirty' = FALSE
  /\ \/ /\ read' = [ok |-> TRUE, nodes |-> Visible.nodes, topics |-> NoTopics]
        /\ pc' = "topics"
        /\ UNCHANGED tally
     \/ QueryFails
  /\ UNCHANGED <<environment, database, memory, joined, own, warm, empty_for,
                 saw_graph>>

ReadTopics ==
  /\ pc = "topics"
  /\ \/ /\ read' = [read EXCEPT !.topics = Visible.topics]
        /\ pc' = "persist"
        /\ UNCHANGED tally
     \/ QueryFails
  /\ UNCHANGED <<environment, database, memory, session>>

-----------------------------------------------------------------------------
(* persist_snapshot and what the loop does with its result                 *)

\* Mutant: the two lists change places.
FoundSwapped == [nodes |-> read.topics, topics |-> read.nodes]

Found == [nodes |-> read.nodes, topics |-> read.topics]
FoundPeers == read.ok /\ Found # EmptySnapshot
FoundNobody == read.ok /\ Found = EmptySnapshot

\* Mutants: the comparison ignores the extension, ignores the nodes, or is
\* left out.
ChangedWithoutExtension == read.ok /\ previous # Found
ChangedWithoutNodes ==
  /\ read.ok
  /\ previous = None \/ previous.topics # Found.topics \/ extension_oid # ext
ChangedAlways == read.ok

Changed == read.ok /\ (previous # Found \/ extension_oid # ext)

\* Committed as one transaction: both tables and the status row.
PersistSnapshot ==
  /\ table' = IF Changed THEN Found ELSE table
  /\ status' = [checked |-> TRUE,
                refreshed |-> Changed \/ status.refreshed,
                failed |-> ~read.ok]

\* Mutant: the backoff starts over when it would exceed its bound.
NextReinitAfterWrapping(current, saw) ==
  IF interval = 0 THEN 0
  ELSE IF saw \/ current = 0 \/ current * 2 > MAX_REINIT_AFTER THEN interval
  ELSE current * 2

\* The interval of the next session.
NextReinitAfter(current, saw) ==
  IF interval = 0 THEN 0
  ELSE IF saw \/ current = 0 THEN interval
  ELSE IF current * 2 <= MAX_REINIT_AFTER THEN current * 2 ELSE MAX_REINIT_AFTER

\* Mutants: a failed read does not end the empty time; every empty read starts
\* it again.
EmptyForAcrossFailures ==
  IF FoundPeers THEN 0 ELSE IF empty_for = 0 /\ FoundNobody THEN 1 ELSE empty_for
EmptyForRestarted == IF FoundNobody THEN 1 ELSE 0

EmptyFor == IF ~FoundNobody THEN 0 ELSE IF empty_for = 0 THEN 1 ELSE empty_for
Blind == reinit_after > 0 /\ EmptyFor > reinit_after

\* The transaction found the extension.  A blind session ends here.
CheckInstalled ==
  /\ pc = "persist"
  /\ ext # 0
  /\ PersistSnapshot
  /\ empty_for' = EmptyFor
  /\ saw_graph' = (saw_graph \/ FoundPeers)
  /\ previous' = IF read.ok THEN Found ELSE previous
  /\ extension_oid' = ext
  /\ writer' = IF Changed THEN ext ELSE writer
  /\ \/ /\ Blind
        /\ pc' = "session"
        /\ reinit_after' = NextReinitAfter(reinit_after, saw_graph')
     \/ /\ ~Blind
        /\ pc' = "spin"
        /\ UNCHANGED reinit_after
  /\ read' = FailedRead
  /\ UNCHANGED <<environment, ext, oids, registered, joined, own, warm, dirty, tally>>

\* The extension is absent: forget what was saved, keep waiting.
CheckAbsent ==
  /\ pc = "persist"
  /\ ext = 0
  /\ pc' = "spin"
  /\ empty_for' = 0
  /\ previous' = None
  /\ extension_oid' = 0
  /\ read' = FailedRead
  /\ UNCHANGED <<environment, database, reinit_after, joined, own, warm, dirty,
                 saw_graph, writer, tally>>

-----------------------------------------------------------------------------
(* The end of a process and the start of the next                          *)

LoseMemory ==
  /\ pc' = "down"
  /\ previous' = None
  /\ extension_oid' = 0
  /\ reinit_after' = 0
  /\ joined' = FALSE
  /\ own' = FALSE
  /\ warm' = FALSE
  /\ dirty' = FALSE
  /\ empty_for' = 0
  /\ saw_graph' = FALSE
  /\ read' = FailedRead
  /\ writer' = 0

\* A SQL error aborts its transaction and exits the worker; so does a kill.
\* SIGTERM ends the loop without a transaction and has the same effect here.
Crash ==
  /\ pc # "down"
  /\ Count("crash", MaxCrashes)
  /\ LoseMemory
  /\ UNCHANGED <<environment, database>>

\* An rclrs error while a session starts or spins: graph_worker_main records
\* it in the status row and then exits with an error.
ObserverFails ==
  /\ pc \in {"session", "spin"}
  /\ Count("crash", MaxCrashes)
  /\ LoseMemory
  /\ status' = IF ext = 0 THEN status
               ELSE [checked |-> TRUE, refreshed |-> status.refreshed,
                     failed |-> TRUE]
  /\ UNCHANGED <<environment, ext, oids, table, registered>>

\* The postmaster starts the worker again after five seconds.
Restart ==
  /\ pc = "down"
  /\ pc' = "session"
  /\ reinit_after' = interval
  /\ UNCHANGED <<environment, database, previous, extension_oid, writer,
                 session, read, tally>>

-----------------------------------------------------------------------------
Administrator == CreateExtension \/ DropExtension \/ Reload
User == Register \/ Unregister
Worker ==
  \/ StartSession \/ WarmUp \/ ReadNodes \/ ReadTopics
  \/ CheckInstalled \/ CheckAbsent

Next ==
  \/ ChangeGraph \/ NetworkUp \/ Administrator \/ User
  \/ Worker \/ Reconcile \/ NotifyDirty \/ Tick
  \/ Crash \/ ObserverFails \/ Restart

Spec == Init /\ [][Next]_vars

\* The loop keeps running between failures and reconciles again and again (a
\* step of some passes only, hence strong fairness), the listener's period and
\* the clock elapse, and the postmaster restarts a dead worker.  Nothing is
\* assumed of the network, the graph, users or the administrator.
Fairness ==
  /\ WF_vars(Worker)
  /\ SF_vars(Reconcile)
  /\ WF_vars(NotifyDirty)
  /\ WF_vars(Tick)
  /\ WF_vars(Restart)

FairSpec == Spec /\ Fairness

-----------------------------------------------------------------------------
(* Properties                                                              *)

\* Every variable keeps its type.
TypeOK ==
  /\ graph \in Snapshot
  /\ network \in BOOLEAN
  /\ interval \in Intervals
  /\ ext \in Nat
  /\ oids \in Nat
  /\ table \in Snapshot
  /\ status \in [checked : BOOLEAN, refreshed : BOOLEAN, failed : BOOLEAN]
  /\ registered \in BOOLEAN
  /\ pc \in {"session", "spin", "topics", "persist", "down"}
  /\ previous \in Snapshot \cup {None}
  /\ extension_oid \in Nat
  /\ reinit_after \in Nat
  /\ joined \in BOOLEAN
  /\ own \in BOOLEAN
  /\ warm \in BOOLEAN
  /\ dirty \in BOOLEAN
  /\ empty_for \in Nat
  /\ saw_graph \in BOOLEAN
  /\ read \in [ok : BOOLEAN, nodes : NodeLists, topics : TopicLists]
  /\ writer \in Nat
  /\ tally \in [{"change", "failure", "crash", "reload", "register"} -> Nat]

\* What the worker believes it stored in the installation now present.
Believed == previous # None /\ extension_oid = ext

\* Once this installation's tables were ever filled, they hold exactly the
\* snapshot the worker compares the next one with, so skipping the write of
\* an unchanged snapshot (persist_snapshot) never leaves stale rows behind.
FilledTablesMatchMemory ==
  Believed /\ status.refreshed => table = previous

\* README: "Check that it is recent and last_error is null before relying on
\* a snapshot."  A clean status row says the tables hold the last read.
CleanStatusIsCurrent ==
  Believed /\ status.checked /\ ~status.failed => table = previous

\* The previous statement does hold as long as no discovery has failed, or
\* the extension was installed only once.
CleanStatusIsCurrentUnlessReinstalled ==
  tally["failure"] = 0 \/ oids <= 1 => CleanStatusIsCurrent

\* The inductive strengthening of the two statements above.
Inductive ==
  /\ ext <= oids /\ extension_oid <= oids /\ writer <= oids
  /\ previous # None => extension_oid # 0
  /\ ext # 0 /\ extension_oid = ext => status.checked
  /\ ~status.refreshed => table = EmptySnapshot
  \* What this process stored before the present installation is gone.
  /\ previous # None /\ extension_oid # ext => ~status.refreshed
  /\ writer # 0 /\ writer = ext =>
       previous # None /\ extension_oid = ext /\ status.refreshed
  \* How a process may believe in tables it never filled.
  /\ previous # None /\ extension_oid = ext /\ ~status.refreshed =>
       tally["failure"] > 0 /\ oids > 1
  /\ pc = "topics" => read.ok
  /\ pc = "persist" /\ ~read.ok => tally["failure"] > 0
  /\ FilledTablesMatchMemory

\* Snapshot state outlives a session (run_observer keeps it), so a process
\* that has written an installation's tables writes them again only when the
\* rows differ, rebuilds included.
NoRedundantWrite ==
  [][pc = "persist" /\ pc' \in {"spin", "session"} /\ ext # 0
       /\ Changed /\ writer = ext => table' # table]_vars

Rebuilding == pc = "persist" /\ pc' = "session"

\* A context is rebuilt only while the database shows, without an error, an
\* empty graph: never on a failed read and never without the extension.
RebuildsOnlyWhenEmpty ==
  [][Rebuilding => ext # 0 /\ table' = EmptySnapshot /\ ~status'.failed]_vars

\* "Grow the backoff while discovery keeps coming back empty": a session that
\* saw nobody is not followed by one with a shorter interval, unless
\* rebuilding was turned off.
BackoffNeverShrinks ==
  [][Rebuilding /\ ~saw_graph' /\ interval # 0 => reinit_after' >= reinit_after]_vars

\* Once the graph stops changing, the tables of an installed extension come to
\* equal what the participant sees of it, its own subscription included; but
\* for the exception of CleanStatusIsCurrentUnlessReinstalled.
Converges ==
  <>[](ext # 0 /\ Running /\ (tally["failure"] = 0 \/ oids <= 1) => table = Visible)

\* A participant created before the network was usable is replaced: an
\* installed worker whose session has an interval ends up in discovery, unless
\* it keeps a subscription of its own.
RecoversFromIsolation ==
  <>[](ext # 0 /\ network /\ reinit_after # 0 => joined \/ own)

\* README: "A DDS participant created before the host network was usable never
\* joins discovery, so the worker rebuilds its ROS context after
\* pg_ros2.ros_reinit_after seconds".  Without an exception.
AlwaysRecoversFromIsolation ==
  <>[](ext # 0 /\ network /\ reinit_after # 0 => joined)

-----------------------------------------------------------------------------
(* The abstract cache                                                      *)

Cache == INSTANCE SnapshotCache WITH
  Snapshots <- Snapshot, Empty <- EmptySnapshot,
  pending <- pc = "persist", ok <- read.ok, answer <- Found

\* Whatever the worker remembers and skips, and however it dies, the tables
\* behave like a cache that stores every answer.
ImplementsCache == Cache!Spec
=============================================================================
