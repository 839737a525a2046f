-------------------------- MODULE GraphWorkerProofs --------------------------
(***************************************************************************)
(* Safety of the graph observer, for every graph, every configuration and  *)
(* every bound: type correctness, the inductive invariant behind skipping  *)
(* an unchanged snapshot, and the action properties that follow.           *)
(***************************************************************************)
EXTENDS GraphWorker, TLAPS

ReadType == [ok : BOOLEAN, nodes : NodeLists, topics : TopicLists]
Events == {"change", "failure", "crash", "reload", "register"}

\* The empty lists are lists.
LEMMA EmptyLists == NoNodes \in NodeLists /\ NoTopics \in TopicLists
BY GraphAssumption DEF NoTopics, TopicLists

\* The values the worker computes from its variables have the right types.
LEMMA SnapshotFields ==
  ASSUME TypeOK
  PROVE  Found \in Snapshot /\ Visible \in Snapshot /\ EmptySnapshot \in Snapshot
<1>1. EmptySnapshot \in Snapshot
  BY EmptyLists DEF EmptySnapshot, Snapshot
<1>2. Visible \in Snapshot
  <2> DEFINE N == IF joined THEN graph.nodes ELSE NoNodes
             T == (IF joined THEN graph.topics ELSE NoTopics)
                  \cup (IF own THEN {OwnTopic} ELSE {})
  <2>1. graph.nodes \in NodeLists /\ graph.topics \in SUBSET Topics
    BY DEF TypeOK, Snapshot, TopicLists
  <2>2. N \in NodeLists
    BY <2>1, EmptyLists
  <2>3. T \in TopicLists
    BY <2>1, GraphAssumption DEF NoTopics, TopicLists
  <2>4. Visible = [nodes |-> N, topics |-> T]
    BY DEF Visible
  <2> HIDE DEF N, T
  <2> QED BY <2>2, <2>3, <2>4 DEF Snapshot
<1>3. read.nodes \in NodeLists /\ read.topics \in TopicLists
  BY DEF TypeOK
<1>4. Found \in Snapshot
  BY <1>3 DEF Found, Snapshot
<1> QED BY <1>1, <1>2, <1>4

\* What a failed query returns is a read.
LEMMA FailedReadType == FailedRead \in ReadType
BY EmptyLists DEF FailedRead, ReadType

\* Counting an event keeps the tally's type and never lowers another count.
LEMMA CountType ==
  ASSUME tally \in [Events -> Nat], NEW event \in Events, NEW limit,
         Count(event, limit)
  PROVE  /\ tally' \in [Events -> Nat]
         /\ tally'[event] > 0
         /\ \A e \in Events : tally'[e] >= tally[e]
<1>1. tally' = [tally EXCEPT ![event] = @ + 1]
  BY DEF Count
<1> QED BY <1>1

\* The initial state has the declared types.
LEMMA InitTypeOK == Init => TypeOK
<1> SUFFICES ASSUME Init PROVE TypeOK
  OBVIOUS
<1>1. tally \in [Events -> Nat]
  BY DEF Init, Events
<1>2. table \in Snapshot
  BY EmptyLists DEF Init, EmptySnapshot, Snapshot
<1>3. status \in [checked : BOOLEAN, refreshed : BOOLEAN, failed : BOOLEAN]
  BY DEF Init, NoStatus
<1>4. interval \in Nat /\ reinit_after \in Nat
  BY GraphAssumption DEF Init
<1> QED BY <1>1, <1>2, <1>3, <1>4, FailedReadType
    DEF Init, TypeOK, Events, ReadType

\* Every step keeps the declared types.
LEMMA StepTypeOK == TypeOK /\ [Next]_vars => TypeOK'
<1> SUFFICES ASSUME TypeOK, [Next]_vars PROVE TypeOK'
  OBVIOUS
<1> USE GraphAssumption
<1>1. CASE ChangeGraph
  BY <1>1 DEF TypeOK, ChangeGraph, Count, database, memory, session
<1>2. CASE NetworkUp
  BY <1>2 DEF TypeOK, NetworkUp, database, memory, session
<1>3. CASE Administrator
  <2>1. CASE CreateExtension
    BY <2>1, SnapshotFields
    DEF TypeOK, CreateExtension, NoStatus, environment, memory, session
  <2>2. CASE DropExtension
    BY <2>2, SnapshotFields, ZenonT(60)
    DEF TypeOK, DropExtension, NoStatus, environment, memory, session
  <2>3. CASE Reload
    BY <2>3 DEF TypeOK, Reload, Count, database, memory, session
  <2> QED BY <1>3, <2>1, <2>2, <2>3 DEF Administrator
<1>4. CASE Worker
  <2>1. CASE StartSession
    BY <2>1 DEF TypeOK, StartSession, environment, database, memory
  <2>2. CASE WarmUp
    BY <2>2 DEF TypeOK, WarmUp, environment, database, memory
  <2>3. CASE ReadNodes
    <3>1. tally' \in [Events -> Nat]
      BY <2>3, CountType DEF TypeOK, ReadNodes, QueryFails, Events
    <3>2. read' \in ReadType
      <4>1. CASE read' = FailedRead
        BY <4>1, FailedReadType
      <4>2. CASE read' = [ok |-> TRUE, nodes |-> Visible.nodes, topics |-> NoTopics]
        <5>1. Visible.nodes \in NodeLists
          BY SnapshotFields DEF Snapshot
        <5> QED BY <4>2, <5>1, EmptyLists DEF ReadType
      <4> QED BY <2>3, <4>1, <4>2 DEF ReadNodes, QueryFails
    <3> QED BY <2>3, <3>1, <3>2, ZenonT(60)
        DEF TypeOK, ReadNodes, QueryFails, Events, ReadType, environment, database,
            memory
  <2>4. CASE ReadTopics
    <3>1. tally' \in [Events -> Nat]
      BY <2>4, CountType DEF TypeOK, ReadTopics, QueryFails, Events
    <3>2. Visible.topics \in TopicLists
      BY SnapshotFields DEF Snapshot
    <3>3. read' \in ReadType
      <4>1. CASE read' = FailedRead
        BY <4>1, FailedReadType
      <4>2. CASE read' = [read EXCEPT !.topics = Visible.topics]
        <5> DEFINE T == Visible.topics
        <5>1. read' = [read EXCEPT !.topics = T]
          BY <4>2
        <5>2. T \in TopicLists
          BY <3>2
        <5> HIDE DEF T
        <5> QED BY <5>1, <5>2 DEF TypeOK, ReadType
      <4> QED BY <2>4, <4>1, <4>2 DEF ReadTopics, QueryFails
    <3> QED BY <2>4, <3>1, <3>3
        DEF TypeOK, ReadTopics, QueryFails, Events, ReadType, environment, database,
            memory, session
  <2>5. CASE CheckInstalled
    <3>1. table' \in Snapshot /\ previous' \in Snapshot \cup {None}
      BY <2>5, SnapshotFields DEF TypeOK, CheckInstalled, PersistSnapshot
    <3>2. status' \in [checked : BOOLEAN, refreshed : BOOLEAN, failed : BOOLEAN]
      BY <2>5 DEF TypeOK, CheckInstalled, PersistSnapshot, Changed
    <3>3. saw_graph' \in BOOLEAN
      BY <2>5 DEF TypeOK, CheckInstalled, FoundPeers
    <3>4. reinit_after' \in Nat
      BY <2>5 DEF TypeOK, CheckInstalled, NextReinitAfter
    <3>5. empty_for' \in Nat /\ writer' \in Nat
      BY <2>5 DEF TypeOK, CheckInstalled, EmptyFor
    <3>6. read' \in [ok : BOOLEAN, nodes : NodeLists, topics : TopicLists]
      BY <2>5, FailedReadType DEF CheckInstalled, ReadType
    <3> QED BY <2>5, <3>1, <3>2, <3>3, <3>4, <3>5, <3>6
        DEF TypeOK, CheckInstalled, environment
  <2>6. CASE CheckAbsent
    BY <2>6, FailedReadType DEF TypeOK, CheckAbsent, ReadType, environment, database
  <2> QED BY <1>4, <2>1, <2>2, <2>3, <2>4, <2>5, <2>6 DEF Worker
<1>5. CASE NotifyDirty
  BY <1>5 DEF TypeOK, NotifyDirty, environment, database, memory
<1>6. CASE Tick
  BY <1>6 DEF TypeOK, Tick, environment, database, memory
<1>7. CASE Crash
  <2>1. tally' \in [Events -> Nat]
    BY <1>7, CountType DEF TypeOK, Crash, Events
  <2> QED BY <1>7, <2>1, FailedReadType
      DEF TypeOK, Crash, LoseMemory, Events, ReadType, environment, database
<1>8. CASE ObserverFails
  <2>1. tally' \in [Events -> Nat]
    BY <1>8, CountType DEF TypeOK, ObserverFails, Events
  <2> QED BY <1>8, <2>1, FailedReadType
      DEF TypeOK, ObserverFails, LoseMemory, Events, ReadType, environment
<1>9. CASE Restart
  BY <1>9 DEF TypeOK, Restart, environment, database, session
<1>10. CASE UNCHANGED vars
  BY <1>10 DEF TypeOK, vars, environment, database, memory, session
<1>11. CASE User
  <2>1. CASE Register
    <3>1. tally' \in [Events -> Nat]
      BY <2>1, CountType DEF TypeOK, Register, Events
    <3> QED BY <2>1, <3>1 DEF TypeOK, Register, Events, environment, memory, session
  <2>2. CASE Unregister
    <3>1. registered' \in BOOLEAN
      BY <2>2 DEF Unregister
    <3>2. UNCHANGED <<environment, ext, oids, table, status, pc, memory, session,
                      read, tally>>
      BY <2>2 DEF Unregister
    <3> QED BY <3>1, <3>2 DEF TypeOK, environment, memory, session
  <2> QED BY <1>11, <2>1, <2>2 DEF User
<1>12. CASE Reconcile
  BY <1>12 DEF TypeOK, Reconcile, environment, database, memory
<1> QED BY <1>1, <1>2, <1>3, <1>4, <1>5, <1>6, <1>7, <1>8, <1>9, <1>10, <1>11, <1>12
    DEF Next

\* Every variable of every reachable state keeps its type.
THEOREM TypeCorrect == Spec => []TypeOK
BY InitTypeOK, StepTypeOK, PTL DEF Spec

-----------------------------------------------------------------------------
(* The tables and the worker's memory of them                              *)

\* The initial state satisfies the inductive invariant.
LEMMA InitInductive == Init => Inductive
BY DEF Init, Inductive, FilledTablesMatchMemory, Believed, NoStatus

\* A worker that dies forgets: the invariant then says only what it says of
\* the database, which keeps its tables.
LEMMA ForgettingIsSafe ==
  ASSUME TypeOK, Inductive, LoseMemory, ext' = ext, oids' = oids, table' = table,
         status'.refreshed = status.refreshed, status.checked => status'.checked
  PROVE  Inductive'
BY DEF TypeOK, Inductive, LoseMemory, FilledTablesMatchMemory, Believed

\* A check of an installed extension keeps the invariant.
LEMMA CheckInstalledInductive ==
  ASSUME TypeOK, Inductive, CheckInstalled
  PROVE  Inductive'
<1>1. ext \in Nat /\ ext # 0 /\ ext <= oids /\ extension_oid' = ext
      /\ ext' = ext /\ oids' = oids /\ tally' = tally /\ pc' \in {"session", "spin"}
  BY DEF TypeOK, Inductive, CheckInstalled
<1>2. status'.refreshed = (Changed \/ status.refreshed) /\ status'.checked
  BY DEF CheckInstalled, PersistSnapshot
<1>3. Found # None /\ Found \in Snapshot
  BY SnapshotFields, GraphAssumption
<1>4. CASE Changed
  <2>1. read.ok /\ table' = Found /\ previous' = Found /\ writer' = ext
    BY <1>4 DEF CheckInstalled, PersistSnapshot, Changed
  <2> QED BY <1>1, <1>2, <1>3, <1>4, <2>1
      DEF TypeOK, Inductive, FilledTablesMatchMemory, Believed
<1>5. CASE read.ok /\ ~Changed
  <2>1. previous = Found /\ extension_oid = ext
    BY <1>5 DEF Changed
  <2>2. table' = table /\ previous' = previous /\ writer' = writer
    BY <1>5, <2>1 DEF CheckInstalled, PersistSnapshot
  <2> QED BY <1>1, <1>2, <1>3, <1>5, <2>1, <2>2
      DEF TypeOK, Inductive, FilledTablesMatchMemory, Believed
<1>6. CASE ~read.ok
  <2>1. ~Changed
    BY <1>6 DEF Changed
  <2>2. table' = table /\ previous' = previous /\ writer' = writer
    BY <1>6, <2>1 DEF CheckInstalled, PersistSnapshot
  <2>3. tally["failure"] > 0
    BY <1>6 DEF Inductive, CheckInstalled
  \* Two different installations were seen: the previous one and this one.
  <2>4. previous # None /\ extension_oid # ext => oids > 1
    BY <1>1 DEF TypeOK, Inductive
  <2> QED BY <1>1, <1>2, <1>6, <2>1, <2>2, <2>3, <2>4
      DEF TypeOK, Inductive, FilledTablesMatchMemory, Believed
<1> QED BY <1>4, <1>5, <1>6 DEF Changed

\* Every step keeps the inductive invariant.
LEMMA StepInductive == TypeOK /\ Inductive /\ [Next]_vars => Inductive'
<1> SUFFICES ASSUME TypeOK, Inductive, [Next]_vars PROVE Inductive'
  OBVIOUS
<1> USE DEF TypeOK, Inductive, FilledTablesMatchMemory, Believed
<1>1. CASE ChangeGraph
  <2>1. tally'["failure"] >= tally["failure"]
    BY <1>1, CountType DEF ChangeGraph, Events
  <2> QED BY <1>1, <2>1, CountType DEF ChangeGraph, Events, database, memory
<1>2. CASE NetworkUp
  BY <1>2 DEF NetworkUp, database, memory
<1>3. CASE Administrator
  <2>1. CASE CreateExtension
    BY <2>1 DEF CreateExtension, NoStatus, memory
  <2>2. CASE DropExtension
    BY <2>2 DEF DropExtension, NoStatus, memory
  <2>3. CASE Reload
    <3>1. tally'["failure"] >= tally["failure"]
      BY <2>3, CountType DEF Reload, Events
    <3> QED BY <2>3, <3>1, CountType DEF Reload, Events, database, memory
  <2> QED BY <1>3, <2>1, <2>2, <2>3 DEF Administrator
<1>4. CASE Worker
  <2>1. CASE StartSession
    BY <2>1 DEF StartSession, database, memory
  <2>2. CASE WarmUp
    BY <2>2 DEF WarmUp, database, memory
  <2>3. CASE ReadNodes
    <3>1. CASE QueryFails
      <4>1. tally'["failure"] > 0
        BY <3>1, CountType DEF QueryFails, Events
      <4> QED BY <2>3, <3>1, <4>1 DEF ReadNodes, QueryFails, database, memory
    <3>2. CASE ~QueryFails
      BY <2>3, <3>2 DEF ReadNodes, database, memory
    <3> QED BY <3>1, <3>2
  <2>4. CASE ReadTopics
    <3>1. CASE QueryFails
      <4>1. tally'["failure"] > 0
        BY <3>1, CountType DEF QueryFails, Events
      <4> QED BY <2>4, <3>1, <4>1 DEF ReadTopics, QueryFails, database, memory
    <3>2. CASE ~QueryFails
      <4>1. read'.ok = read.ok
        <5> DEFINE T == Visible.topics
        <5>1. read' = [read EXCEPT !.topics = T]
          BY <2>4, <3>2 DEF ReadTopics
        <5> HIDE DEF T
        <5> QED BY <5>1
      <4> QED BY <2>4, <3>2, <4>1 DEF ReadTopics, database, memory
    <3> QED BY <3>1, <3>2
  <2>5. CASE CheckInstalled
    BY <2>5, CheckInstalledInductive
  <2>6. CASE CheckAbsent
    BY <2>6 DEF CheckAbsent, database
  <2> QED BY <1>4, <2>1, <2>2, <2>3, <2>4, <2>5, <2>6 DEF Worker
<1>5. CASE NotifyDirty
  BY <1>5 DEF NotifyDirty, database, memory
<1>6. CASE Tick
  BY <1>6 DEF Tick, database, memory
<1>7. CASE Crash
  BY <1>7, ForgettingIsSafe DEF Crash, database
<1>8. CASE ObserverFails
  <2>1. status'.refreshed = status.refreshed /\ (status.checked => status'.checked)
    BY <1>8 DEF ObserverFails
  <2> QED BY <1>8, <2>1, ForgettingIsSafe DEF ObserverFails
<1>9. CASE Restart
  BY <1>9 DEF Restart, database, session
<1>10. CASE UNCHANGED vars
  BY <1>10 DEF vars, database, memory
<1>11. CASE User
  <2>1. CASE Register
    <3>1. tally'["failure"] >= tally["failure"]
      BY <2>1, CountType DEF Register, Events
    <3> QED BY <2>1, <3>1, CountType DEF Register, Events, memory
  <2>2. CASE Unregister
    BY <2>2 DEF Unregister, memory
  <2> QED BY <1>11, <2>1, <2>2 DEF User
<1>12. CASE Reconcile
  BY <1>12 DEF Reconcile, database, memory
<1> QED BY <1>1, <1>2, <1>3, <1>4, <1>5, <1>6, <1>7, <1>8, <1>9, <1>10, <1>11, <1>12
    DEF Next

\* The inductive invariant holds throughout.
LEMMA InductiveHolds == Spec => []Inductive
<1>1. Init => Inductive
  BY InitInductive
<1>2. TypeOK /\ Inductive /\ [Next]_vars => Inductive'
  BY StepInductive
<1> QED BY <1>1, <1>2, TypeCorrect, PTL DEF Spec

\* Skipping the write of an unchanged snapshot never leaves stale rows: filled
\* tables equal the snapshot the worker compares with.
THEOREM FilledTablesMatch == Spec => []FilledTablesMatchMemory
<1>1. Inductive => FilledTablesMatchMemory
  BY DEF Inductive
<1> QED BY <1>1, InductiveHolds, PTL

\* A status row without error says the tables hold the worker's last read,
\* unless a discovery failed and the extension was installed again.
THEOREM CleanStatus == Spec => []CleanStatusIsCurrentUnlessReinstalled
<1>1. TypeOK /\ Inductive => CleanStatusIsCurrentUnlessReinstalled
  <2> SUFFICES ASSUME TypeOK, Inductive, tally["failure"] = 0 \/ oids <= 1, Believed
               PROVE  table = previous
    BY DEF CleanStatusIsCurrentUnlessReinstalled, CleanStatusIsCurrent
  <2>1. tally["failure"] \in Nat /\ oids \in Nat
    BY DEF TypeOK
  <2>2. status.refreshed
    BY <2>1 DEF Inductive, Believed, TypeOK
  <2> QED BY <2>2 DEF Inductive, FilledTablesMatchMemory
<1> QED BY <1>1, TypeCorrect, InductiveHolds, PTL

-----------------------------------------------------------------------------
(* What one step may do                                                    *)

\* Only a check of an installed extension changes its tables.
LEMMA TableWriters ==
  ASSUME TypeOK, [Next]_vars, table' # table, ext' = ext
  PROVE  CheckInstalled
<1>1. ~CreateExtension
  BY DEF TypeOK, CreateExtension
<1>2. ~DropExtension
  BY DEF DropExtension
<1>3. ~UNCHANGED vars
  BY DEF vars, database
<1>4. ~ObserverFails
  BY DEF ObserverFails
<1>5. ~(ChangeGraph \/ NetworkUp \/ Reload \/ NotifyDirty \/ Tick \/ Crash \/ Restart)
  BY DEF ChangeGraph, NetworkUp, Reload, NotifyDirty, Tick, Crash, Restart, database
<1>7. ~(Register \/ Unregister \/ Reconcile)
  BY DEF Register, Unregister, Reconcile, database
<1>6. ~(StartSession \/ WarmUp \/ ReadNodes \/ ReadTopics \/ CheckAbsent)
  BY DEF StartSession, WarmUp, ReadNodes, ReadTopics, CheckAbsent, database
<1> QED BY <1>1, <1>2, <1>3, <1>4, <1>5, <1>6, <1>7
    DEF Next, Administrator, User, Worker

\* A pass of the loop ends only by a check.
LEMMA CheckSteps ==
  ASSUME [Next]_vars, pc = "persist", pc' \in {"spin", "session"}
  PROVE  CheckInstalled \/ CheckAbsent
<1>1. ~UNCHANGED vars
  BY DEF vars
<1>2. ~(ChangeGraph \/ NetworkUp \/ Administrator \/ User \/ NotifyDirty \/ Tick)
  BY DEF ChangeGraph, NetworkUp, Administrator, CreateExtension, DropExtension,
         Reload, User, Register, Unregister, NotifyDirty, Tick
<1>3. ~(Crash \/ ObserverFails \/ Restart)
  BY DEF Crash, ObserverFails, Restart, LoseMemory
<1>4. ~(StartSession \/ Reconcile \/ WarmUp \/ ReadNodes \/ ReadTopics)
  BY DEF StartSession, Reconcile, WarmUp, ReadNodes, ReadTopics
<1> QED BY <1>1, <1>2, <1>3, <1>4 DEF Next, Worker

\* A process writes an installation's tables again only when the rows differ.
THEOREM NoRedundancy == Spec => NoRedundantWrite
<1>1. TypeOK /\ Inductive /\ [Next]_vars =>
        [pc = "persist" /\ pc' \in {"spin", "session"} /\ ext # 0
           /\ Changed /\ writer = ext => table' # table]_vars
  <2> SUFFICES ASSUME TypeOK, Inductive, [Next]_vars, pc = "persist",
                      pc' \in {"spin", "session"}, ext # 0, Changed, writer = ext
               PROVE  table' # table
    OBVIOUS
  <2>1. CheckInstalled
    BY CheckSteps DEF CheckAbsent
  <2>2. table' = Found
    BY <2>1 DEF CheckInstalled, PersistSnapshot
  <2>3. previous # None /\ extension_oid = ext /\ table = previous
    BY DEF Inductive, FilledTablesMatchMemory, Believed
  <2> QED BY <2>2, <2>3 DEF Changed
<1> QED BY <1>1, TypeCorrect, InductiveHolds, PTL DEF Spec, NoRedundantWrite

\* A context is rebuilt only while the database shows an empty graph.
THEOREM RebuildsWhenEmpty == Spec => RebuildsOnlyWhenEmpty
<1>1. TypeOK /\ Inductive /\ [Next]_vars =>
        [Rebuilding => ext # 0 /\ table' = EmptySnapshot /\ ~status'.failed]_vars
  <2> SUFFICES ASSUME TypeOK, Inductive, [Next]_vars, Rebuilding
               PROVE  ext # 0 /\ table' = EmptySnapshot /\ ~status'.failed
    OBVIOUS
  <2>1. CheckInstalled /\ Blind
    BY CheckSteps DEF Rebuilding, CheckAbsent, CheckInstalled
  <2>2. read.ok /\ Found = EmptySnapshot
    BY <2>1 DEF Blind, EmptyFor, FoundNobody, TypeOK
  <2>3. ext # 0 /\ ~status'.failed
    BY <2>1, <2>2 DEF CheckInstalled, PersistSnapshot
  <2>4. table' = EmptySnapshot
    <3>1. CASE Changed
      BY <2>1, <2>2, <3>1 DEF CheckInstalled, PersistSnapshot
    <3>2. CASE ~Changed
      <4>1. table' = table /\ previous = EmptySnapshot /\ extension_oid = ext
        BY <2>1, <2>2, <3>2 DEF CheckInstalled, PersistSnapshot, Changed
      <4>2. previous # None
        BY <4>1, SnapshotFields, GraphAssumption
      <4> QED BY <4>1, <4>2 DEF Inductive, FilledTablesMatchMemory, Believed
    <3> QED BY <3>1, <3>2
  <2> QED BY <2>3, <2>4
<1> QED BY <1>1, TypeCorrect, InductiveHolds, PTL DEF Spec, RebuildsOnlyWhenEmpty

-----------------------------------------------------------------------------
(* The backoff                                                             *)

IntervalsWithinBackoff == \A i \in Intervals : i <= MAX_REINIT_AFTER
WithinBackoff == reinit_after <= MAX_REINIT_AFTER

\* Doubling stays within the longest backoff and never shrinks an interval.
LEMMA NextReinitAfterBounds ==
  ASSUME IntervalsWithinBackoff, TypeOK, WithinBackoff, NEW saw \in BOOLEAN
  PROVE  /\ NextReinitAfter(reinit_after, saw) <= MAX_REINIT_AFTER
         /\ ~saw /\ interval # 0 /\ reinit_after # 0 =>
              NextReinitAfter(reinit_after, saw) >= reinit_after
<1>1. /\ interval \in Nat /\ interval <= MAX_REINIT_AFTER
      /\ reinit_after \in Nat /\ MAX_REINIT_AFTER \in Nat
  BY GraphAssumption DEF TypeOK, IntervalsWithinBackoff
<1> QED BY <1>1 DEF WithinBackoff, NextReinitAfter

\* A session's interval never exceeds the longest backoff.
LEMMA StepWithinBackoff ==
  IntervalsWithinBackoff /\ TypeOK /\ WithinBackoff /\ [Next]_vars => WithinBackoff'
<1> SUFFICES ASSUME IntervalsWithinBackoff, TypeOK, WithinBackoff, [Next]_vars
             PROVE  WithinBackoff'
  OBVIOUS
<1> USE GraphAssumption DEF WithinBackoff
<1>1. CASE CheckInstalled
  <2>1. saw_graph' \in BOOLEAN
    BY <1>1 DEF TypeOK, CheckInstalled, FoundPeers
  <2> QED BY <1>1, <2>1, NextReinitAfterBounds DEF CheckInstalled
<1>2. CASE Crash \/ ObserverFails
  BY <1>2 DEF Crash, ObserverFails, LoseMemory
<1>3. CASE Restart
  BY <1>3 DEF Restart, TypeOK, IntervalsWithinBackoff
<1>4. CASE ~(CheckInstalled \/ Crash \/ ObserverFails \/ Restart)
  <2>1. reinit_after' = reinit_after
    BY <1>4 DEF Next, Administrator, Worker, ChangeGraph, NetworkUp, CreateExtension,
                DropExtension, Reload, User, Register, Unregister, StartSession,
                Reconcile, WarmUp, ReadNodes, ReadTopics, CheckAbsent, NotifyDirty, Tick, memory, vars
  <2> QED BY <2>1
<1> QED BY <1>1, <1>2, <1>3, <1>4

\* The backoff grows from session to session that saw nobody, as long as the
\* configured interval is within the longest backoff.
THEOREM BackoffGrows == ASSUME IntervalsWithinBackoff PROVE Spec => BackoffNeverShrinks
<1>1. Init => WithinBackoff
  BY GraphAssumption DEF Init, WithinBackoff, IntervalsWithinBackoff
<1>2. TypeOK /\ WithinBackoff /\ [Next]_vars => WithinBackoff'
  BY StepWithinBackoff
<1>3. TypeOK /\ WithinBackoff /\ [Next]_vars =>
        [Rebuilding /\ ~saw_graph' /\ interval # 0 => reinit_after' >= reinit_after]_vars
  <2> SUFFICES ASSUME TypeOK, WithinBackoff, [Next]_vars, Rebuilding, ~saw_graph',
                      interval # 0
               PROVE  reinit_after' >= reinit_after
    OBVIOUS
  <2>1. CheckInstalled /\ Blind
    BY CheckSteps DEF Rebuilding, CheckAbsent, CheckInstalled
  <2>2. saw_graph' \in BOOLEAN
    BY <2>1 DEF TypeOK, CheckInstalled, FoundPeers
  <2>3. reinit_after' = NextReinitAfter(reinit_after, saw_graph')
    BY <2>1 DEF CheckInstalled
  <2>4. reinit_after # 0
    BY <2>1 DEF Blind, TypeOK
  <2> QED BY <2>2, <2>3, <2>4, NextReinitAfterBounds
<1> QED BY <1>1, <1>2, <1>3, TypeCorrect, PTL DEF Spec, BackoffNeverShrinks

-----------------------------------------------------------------------------
(* The abstract cache                                                      *)

\* Drop and create of the extension are those of the cache.
LEMMA AdministratorMapped ==
  ASSUME TypeOK, Administrator
  PROVE  [Cache!Next]_(Cache!vars)
<1>1. CASE CreateExtension
  <2>1. ext = 0 /\ ext' = oids + 1 /\ oids \in Nat
    BY <1>1 DEF TypeOK, CreateExtension
  <2>2. Cache!Create
    BY <1>1, <2>1 DEF CreateExtension, NoStatus, Cache!Create, Cache!NoStatus
  <2> QED BY <2>2 DEF Cache!Next
<1>2. CASE DropExtension
  <2>1. Cache!Drop
    BY <1>2 DEF DropExtension, NoStatus, Cache!Drop, Cache!NoStatus
  <2> QED BY <2>1 DEF Cache!Next
<1>3. CASE Reload
  BY <1>3 DEF Reload, database, Cache!Next, Cache!Observe
<1> QED BY <1>1, <1>2, <1>3 DEF Administrator

\* A check stores the answer, records the failure, or forgoes the answer in the
\* one case that allows it; an answer it skips is in the table already.
LEMMA CheckInstalledMapped ==
  ASSUME TypeOK, Inductive, CheckInstalled
  PROVE  Cache!Next
<1>1. pc = "persist" /\ pc' # "persist" /\ ext # 0 /\ ext' = ext
  BY DEF CheckInstalled
<1>2. CASE Changed
  <2>1. table' = Found /\ read.ok
    BY <1>2 DEF CheckInstalled, PersistSnapshot, Changed
  <2>2. status' = [checked |-> TRUE, refreshed |-> TRUE, failed |-> FALSE]
    BY <1>2, <2>1 DEF CheckInstalled, PersistSnapshot
  <2> QED BY <1>1, <2>1, <2>2 DEF Cache!Next, Cache!StoreAnswer
<1>3. CASE read.ok /\ ~Changed
  <2>1. previous = Found /\ extension_oid = ext /\ previous # None
    BY <1>3, SnapshotFields, GraphAssumption DEF Changed
  <2>2. table' = table /\ status.checked
    BY <1>1, <1>3, <2>1 DEF CheckInstalled, PersistSnapshot, Inductive
  <2>3. status' = [checked |-> TRUE, refreshed |-> status.refreshed, failed |-> FALSE]
    BY <1>3 DEF CheckInstalled, PersistSnapshot, TypeOK
  <2>4. CASE status.refreshed
    <3>1. table = Found
      BY <2>1, <2>4 DEF Inductive, FilledTablesMatchMemory, Believed
    <3>2. status' = [checked |-> TRUE, refreshed |-> TRUE, failed |-> FALSE]
      BY <2>3, <2>4 DEF TypeOK
    <3> QED BY <1>1, <1>3, <2>2, <3>1, <3>2 DEF Cache!Next, Cache!StoreAnswer
  <2>5. CASE ~status.refreshed
    <3>1. status' = [checked |-> TRUE, refreshed |-> FALSE, failed |-> FALSE]
      BY <2>3, <2>5 DEF TypeOK
    <3> QED BY <1>1, <1>3, <2>2, <2>5, <3>1 DEF Cache!Next, Cache!ForgoAnswer
  <2> QED BY <2>4, <2>5
<1>4. CASE ~read.ok
  <2>1. table' = table
    BY <1>4 DEF CheckInstalled, PersistSnapshot, Changed
  <2>2. status' = [checked |-> TRUE, refreshed |-> status.refreshed, failed |-> TRUE]
    BY <1>4 DEF CheckInstalled, PersistSnapshot, Changed, TypeOK
  <2> QED BY <1>1, <2>1, <2>2 DEF Cache!Next, Cache!RecordFailure
<1> QED BY <1>2, <1>3, <1>4 DEF Changed

\* Every step of the worker or its environment is a step of the cache or leaves
\* the cache unchanged.
LEMMA StepMapped ==
  TypeOK /\ Inductive /\ [Next]_vars => [Cache!Next]_(Cache!vars)
<1> SUFFICES ASSUME TypeOK, Inductive, [Next]_vars PROVE [Cache!Next]_(Cache!vars)
  OBVIOUS
<1>1. CASE UNCHANGED <<ext, table, status>>
  BY <1>1 DEF Cache!Next, Cache!Observe
<1>2. CASE Administrator
  BY <1>2, AdministratorMapped
<1>3. CASE CheckInstalled
  BY <1>3, CheckInstalledMapped
<1>4. CASE ObserverFails
  <2>1. CASE ext = 0
    BY <2>1, <1>4, <1>1 DEF ObserverFails
  <2>2. CASE ext # 0
    <3>1. pc' # "persist"
      BY <1>4 DEF ObserverFails, LoseMemory
    <3>2. Cache!RecordFailure
      BY <1>4, <2>2, <3>1 DEF ObserverFails, Cache!RecordFailure
    <3> QED BY <3>2 DEF Cache!Next
  <2> QED BY <2>1, <2>2
<1>5. CASE ~(Administrator \/ CheckInstalled \/ ObserverFails)
  <2>1. UNCHANGED <<ext, table, status>>
    BY <1>5 DEF Next, ChangeGraph, NetworkUp, User, Register, Unregister, Worker,
                StartSession, Reconcile, WarmUp, ReadNodes, ReadTopics, CheckAbsent,
                NotifyDirty, Tick, Crash, Restart, database, vars
  <2> QED BY <2>1, <1>1
<1> QED BY <1>2, <1>3, <1>4, <1>5

\* The graph tables and their status row are a write-through cache of the
\* answers of discovery, although the worker skips writes.
THEOREM CacheImplemented == Spec => ImplementsCache
<1>1. Init => Cache!Init
  BY DEF Init, NoStatus, Cache!Init, Cache!NoStatus
<1>2. TypeOK /\ Inductive /\ [Next]_vars => [Cache!Next]_(Cache!vars)
  BY StepMapped
<1> QED BY <1>1, <1>2, TypeCorrect, InductiveHolds, PTL
    DEF Spec, ImplementsCache, Cache!Spec
=============================================================================
