------------------------- MODULE ParameterPollProofs -------------------------
(***************************************************************************)
(* Safety of the parameter poll, for any nodes, names and values and every *)
(* bound: type correctness, the inductive invariant behind skipping an     *)
(* unchanged snapshot, and that only complete polls reach the table.       *)
(***************************************************************************)
EXTENDS ParameterPoll, TLAPS

Events == {"change", "failure", "slow", "restart"}
StatusType == [checked : BOOLEAN, refreshed : BOOLEAN, failed : BOOLEAN]

\* Counting an event keeps the tally's type.
LEMMA CountType ==
  ASSUME tally \in [Events -> Nat], NEW event \in Events, NEW limit,
         Count(event, limit)
  PROVE  tally' \in [Events -> Nat]
BY DEF Count

\* The state without a poll has the declared types.
LEMMA ForgetPollType ==
  ASSUME ForgetPoll
  PROVE  /\ stage' \in {"none", "ready", "listing", "getting"}
         /\ clients' \subseteq Peers
         /\ reply' \in [Peers -> Declared \cup {None}]
         /\ arrived' \subseteq Peers
         /\ listed' \in [Peers -> SUBSET Names]
         /\ overdue' \in BOOLEAN
         /\ answered' \subseteq Peers
BY DEF ForgetPoll, NoReplies

\* Saving a snapshot or a failure keeps the types of what it changes.
LEMMA SaveType ==
  ASSUME TypeOK, NEW rows \in SUBSET Parameter, SaveSnapshot(rows) \/ SaveFailure
  PROVE  /\ parameters' \subseteq Parameter
         /\ parameter_status' \in StatusType
         /\ parameter_extension' \in Nat
         /\ previous_parameters' \in {None} \cup SUBSET Parameter
         /\ flawless' \in BOOLEAN
         /\ poll_due' \in BOOLEAN
         /\ ext' \in Nat /\ oids' \in Nat
         /\ ForgetPoll
<1>1. CASE SaveSnapshot(rows)
  <2>1. parameters' \subseteq Parameter
    BY <1>1 DEF SaveSnapshot, TypeOK
  <2>2. parameter_status' \in StatusType
    <3>1. CASE ext = 0
      BY <1>1, <3>1 DEF SaveSnapshot, TypeOK, StatusType
    <3>2. CASE ext # 0
      <4>1. parameter_status' = [checked |-> TRUE, failed |-> FALSE,
              refreshed |-> Changed(rows) \/ parameter_status.refreshed]
        BY <1>1, <3>2 DEF SaveSnapshot
      <4> QED BY <4>1 DEF StatusType
    <3> QED BY <3>1, <3>2
  <2> QED BY <1>1, <2>1, <2>2 DEF SaveSnapshot, TypeOK
<1>2. CASE SaveFailure
  <2>1. parameter_status' \in StatusType
    BY <1>2 DEF SaveFailure, TypeOK, StatusType
  <2> QED BY <1>2, <2>1 DEF SaveFailure, TypeOK
<1> QED BY <1>1, <1>2

\* The rows of a poll are parameters.
LEMMA RowsType == Rows \in SUBSET Parameter
BY DEF Rows

\* A tick of the poll keeps the declared types.
LEMMA TickTypeOK == ASSUME TypeOK, Ticks PROVE TypeOK'
<1>0. /\ pc' \in {"spin", "tick", "graph", "check", "start", "end", "down"}
      /\ UNCHANGED <<peers, remote, check_due, nodes>>
  BY DEF Ticks, TimeOut, List, Get, Pending, Finish, LengthMismatch, TickFails, Tick,
         environment
<1>1. CASE TimeOut \/ LengthMismatch \/ Finish \/ TickFails
  <2>1. SaveFailure \/ SaveSnapshot(Rows)
    BY <1>1 DEF TimeOut, LengthMismatch, Finish, TickFails
  <2>2. tally' \in [Events -> Nat]
    BY <1>1, CountType DEF TimeOut, LengthMismatch, Finish, TickFails, TypeOK, Events
  <2> QED BY <1>0, <2>1, <2>2, RowsType, SaveType, ForgetPollType
      DEF TypeOK, StatusType, Events
<1>2. CASE List \/ Get
  <2>1. /\ reply' \in [Peers -> Declared \cup {None}]
        /\ arrived' \subseteq Peers /\ answered' \subseteq Peers /\ overdue' \in BOOLEAN
    BY <1>2 DEF List, Get, NewCall, NoReplies
  <2>2. listed' \in [Peers -> SUBSET Names]
    BY <1>2 DEF List, Get, TypeOK
  <2> QED BY <1>0, <1>2, <2>1, <2>2 DEF List, Get, TypeOK, database, memory
<1>3. CASE Pending
  BY <1>0, <1>3 DEF Pending, TypeOK, database, poll, memory
<1> QED BY <1>1, <1>2, <1>3 DEF Ticks

\* The initial state has the declared types.
LEMMA InitTypeOK == Init => TypeOK
<1> SUFFICES ASSUME Init PROVE TypeOK
  OBVIOUS
<1>1. tally \in [Events -> Nat]
  BY DEF Init, Events
<1>2. parameter_status \in StatusType
  BY DEF Init, NoStatus, StatusType
<1>3. reply \in [Peers -> Declared \cup {None}] /\ listed \in [Peers -> SUBSET Names]
  BY DEF Init, NoPoll, NoReplies
<1> QED BY <1>1, <1>2, <1>3 DEF Init, NoPoll, TypeOK, Events, StatusType

\* Every step keeps the declared types.
LEMMA StepTypeOK == TypeOK /\ [Next]_vars => TypeOK'
<1> SUFFICES ASSUME TypeOK, [Next]_vars PROVE TypeOK'
  OBVIOUS
<1> USE DEF TypeOK
<1>1. ASSUME NEW p \in Peers, ChangeNode(p) PROVE TypeOK'
  BY <1>1 DEF ChangeNode, Count, database, poll, memory
<1>2. ASSUME NEW p \in Peers, NEW n \in Names, SetParameter(p, n) PROVE TypeOK'
  <2>1. PICK v \in Values \cup {NotSet} : remote' = [remote EXCEPT ![p][n] = v]
    BY <1>2 DEF SetParameter
  <2>2. remote' \in [Peers -> Declared]
    BY <2>1 DEF Declared
  <2>3. tally' \in [Events -> Nat]
    BY <1>2, CountType DEF SetParameter, Events
  <2> QED BY <1>2, <2>2, <2>3 DEF SetParameter, Events, database, poll, memory
<1>3. ASSUME NEW p \in Peers, Answer(p) PROVE TypeOK'
  BY <1>3 DEF Answer, environment, database, memory
<1>4. ASSUME NEW p \in Peers, Deliver(p) PROVE TypeOK'
  BY <1>4 DEF Deliver, environment, database, memory
<1>5. CASE CreateExtension \/ DropExtension
  <2>1. parameter_status' \in StatusType /\ parameters' = {}
    <3>1. NoStatus \in StatusType
      BY DEF NoStatus, StatusType
    <3>2. parameter_status' = NoStatus /\ parameters' = {}
      BY <1>5 DEF CreateExtension, DropExtension
    <3> QED BY <3>1, <3>2
  <2>2. ext' \in Nat /\ oids' \in Nat
    BY <1>5 DEF CreateExtension, DropExtension
  <2>3. /\ UNCHANGED <<peers, remote, pc, check_due, poll_due, nodes, tally>>
        /\ UNCHANGED <<stage, clients, reply, arrived, listed, overdue, answered>>
        /\ UNCHANGED <<previous_parameters, parameter_extension, flawless>>
    BY <1>5 DEF CreateExtension, DropExtension, environment, poll, memory
  <2> QED BY <2>1, <2>2, <2>3 DEF StatusType
<1>6. CASE CheckDue \/ PollDue
  BY <1>6, ZenonT(60) DEF CheckDue, PollDue, environment, database, poll, memory
<1>7. CASE Deadline
  BY <1>7 DEF Deadline, Count, environment, database, memory
<1>8. CASE Worker
  <2>1. CASE Ticks
    BY <2>1, TickTypeOK
  <2>2. CASE EndSpin \/ SkipGraph \/ CheckInstalled \/ EndCheck
    BY <2>2 DEF EndSpin, SkipGraph, CheckInstalled, EndCheck, environment, database,
                poll, memory
  <2>3. CASE ReadGraph
    <3>1. tally' \in [Events -> Nat]
      BY <2>3, CountType DEF ReadGraph, Events
    <3> QED BY <2>3, <3>1, ZenonT(60)
        DEF ReadGraph, Events, environment, database, poll, memory
  <2>4. CASE CheckAbsent
    BY <2>4, ForgetPollType DEF CheckAbsent, environment, database
  <2>5. CASE Start
    BY <2>5 DEF Start, Services, environment, database, memory
  <2>6. CASE StartFails
    <3>1. tally' \in [Events -> Nat]
      BY <2>6, CountType DEF StartFails, Events
    <3> QED BY <2>6, <3>1, RowsType, SaveType, ForgetPollType
        DEF StartFails, Events, StatusType, environment
  <2> QED BY <1>8, <2>1, <2>2, <2>3, <2>4, <2>5, <2>6 DEF Worker
<1>9. CASE Rebuild \/ Crash
  <2>1. tally' \in [Events -> Nat]
    BY <1>9, CountType DEF Rebuild, Crash, Events
  <2>2. ForgetPoll
    BY <1>9 DEF Rebuild, Crash
  <2>3. /\ parameter_extension' \in Nat /\ flawless' \in BOOLEAN
        /\ previous_parameters' \in {None} \cup SUBSET Parameter
    BY <1>9 DEF Rebuild, Crash, memory
  <2>4. pc' \in {"spin", "down"} /\ nodes' = None /\ ~check_due' /\ ~poll_due'
    BY <1>9 DEF Rebuild, Crash
  <2>5. check_due' \in BOOLEAN /\ poll_due' \in BOOLEAN
    BY <1>9 DEF Rebuild, Crash
  <2>6. UNCHANGED <<environment, database>>
    BY <1>9 DEF Rebuild, Crash
  <2> QED BY <2>1, <2>2, <2>3, <2>4, <2>5, <2>6, ForgetPollType
      DEF Events, environment, database
<1>10. CASE Restart
  BY <1>10 DEF Restart, environment, database, poll, memory
<1>11. CASE UNCHANGED vars
  BY <1>11 DEF vars, environment, database, poll, memory
<1> QED BY <1>1, <1>2, <1>3, <1>4, <1>5, <1>6, <1>7, <1>8, <1>9, <1>10, <1>11 DEF Next

\* Every variable of every reachable state keeps its type.
THEOREM TypeCorrect == Spec => []TypeOK
BY InitTypeOK, StepTypeOK, PTL DEF Spec

-----------------------------------------------------------------------------
(* The table and the worker's memory of it                                 *)

\* The initial state satisfies the inductive invariant.
LEMMA InitInductive == Init => Inductive
BY DEF Init, NoPoll, NoReplies, NoStatus, Inductive, FilledTableMatchesMemory, Believed

\* Without a poll no reply can be late.
LEMMA ForgettingReplies ==
  ASSUME ForgetPoll
  PROVE  /\ arrived' \subseteq answered'
         /\ \A p \in Peers : reply'[p] # None => p \in answered'
         /\ stage' = "none"
BY DEF ForgetPoll, NoReplies

\* Saving a snapshot keeps the invariant: it is skipped only if the table
\* holds it already.
LEMMA SnapshotInductive ==
  ASSUME TypeOK, Inductive, NEW rows \in SUBSET Parameter, SaveSnapshot(rows),
         oids > 0, pc' # "start"
  PROVE  Inductive'
<1>1. /\ ext' = ext /\ oids' = oids /\ flawless' = flawless
      /\ parameter_extension' = ext /\ previous_parameters' = rows
  BY DEF SaveSnapshot
<1>2. rows # None
  BY ParameterAssumption
<1>3. ForgetPoll
  BY DEF SaveSnapshot
<1>4. CASE ext = 0
  <2>1. parameters' = parameters /\ parameter_status' = parameter_status
    BY <1>4 DEF SaveSnapshot
  <2> QED BY <1>1, <1>3, <1>4, <2>1, ForgettingReplies
      DEF TypeOK, Inductive, FilledTableMatchesMemory, Believed
<1>5. CASE ext # 0 /\ Changed(rows)
  <2>1. /\ parameters' = rows
        /\ parameter_status'.refreshed = (Changed(rows) \/ parameter_status.refreshed)
        /\ parameter_status'.checked
    BY <1>5 DEF SaveSnapshot
  <2> QED BY <1>1, <1>3, <1>5, <2>1, ForgettingReplies
      DEF TypeOK, Inductive, FilledTableMatchesMemory, Believed
<1>6. CASE ext # 0 /\ ~Changed(rows)
  <2>1. previous_parameters = rows /\ parameter_extension = ext
    BY <1>6 DEF Changed
  <2>2. /\ parameters' = parameters /\ parameter_status'.checked
        /\ parameter_status'.refreshed = parameter_status.refreshed
    BY <1>6 DEF SaveSnapshot, TypeOK
  <2> QED BY <1>1, <1>2, <1>3, <1>6, <2>1, <2>2, ForgettingReplies
      DEF TypeOK, Inductive, FilledTableMatchesMemory, Believed
<1> QED BY <1>4, <1>5, <1>6

\* Saving a failure keeps the invariant: it may make the worker believe in a
\* table it never filled, but only in a second installation.
LEMMA FailureInductive ==
  ASSUME TypeOK, Inductive, SaveFailure, pc' # "start"
  PROVE  Inductive'
<1>1. /\ ext' = ext /\ oids' = oids /\ ~flawless' /\ parameters' = parameters
      /\ parameter_extension' = ext /\ previous_parameters' = previous_parameters
  BY DEF SaveFailure
<1>2. /\ parameter_status'.refreshed = parameter_status.refreshed
      /\ ext # 0 => parameter_status'.checked
  BY DEF SaveFailure, TypeOK
<1>3. ForgetPoll
  BY DEF SaveFailure
<1> QED BY <1>1, <1>2, <1>3, ForgettingReplies
    DEF TypeOK, Inductive, FilledTableMatchesMemory, Believed

\* A tick of the poll keeps the invariant.
LEMMA TickInductive == ASSUME TypeOK, Inductive, Ticks PROVE Inductive'
<1>0. pc = "tick" /\ pc' = "graph"
  BY DEF Ticks, TimeOut, List, Get, Pending, Finish, LengthMismatch, TickFails, Tick
<1>1. CASE Finish
  <2>1. oids > 0
    BY <1>1 DEF Finish, Complete, Inductive
  <2> QED BY <1>0, <1>1, <2>1, RowsType, SnapshotInductive DEF Finish
<1>2. CASE TimeOut \/ LengthMismatch \/ TickFails
  BY <1>0, <1>2, FailureInductive DEF TimeOut, LengthMismatch, TickFails
<1>3. CASE List \/ Get
  <2>1. arrived' \subseteq answered' /\ \A p \in Peers : reply'[p] # None => p \in answered'
    BY <1>3 DEF List, Get, NewCall, NoReplies
  <2>2. stage # "none"
    BY <1>3 DEF List, Get
  <2> QED BY <1>0, <1>3, <2>1, <2>2
      DEF List, Get, database, memory, Inductive, FilledTableMatchesMemory, Believed
<1>4. CASE Pending
  BY <1>0, <1>4 DEF Pending, database, poll, memory, Inductive,
                    FilledTableMatchesMemory, Believed
<1> QED BY <1>1, <1>2, <1>3, <1>4 DEF Ticks

\* Every step keeps the inductive invariant.
LEMMA StepInductive == TypeOK /\ Inductive /\ [Next]_vars => Inductive'
<1> SUFFICES ASSUME TypeOK, Inductive, [Next]_vars PROVE Inductive'
  OBVIOUS
<1> USE DEF Inductive, FilledTableMatchesMemory, Believed
<1>1. ASSUME NEW p \in Peers, ChangeNode(p) PROVE Inductive'
  BY <1>1 DEF ChangeNode, database, poll, memory
<1>2. ASSUME NEW p \in Peers, NEW n \in Names, SetParameter(p, n) PROVE Inductive'
  BY <1>2 DEF SetParameter, database, poll, memory
<1>3. ASSUME NEW p \in Peers, Answer(p) PROVE Inductive'
  <2>1. arrived' \subseteq answered'
    BY <1>3 DEF Answer
  <2>2. \A r \in Peers : reply'[r] # None => r \in answered'
    BY <1>3 DEF Answer, TypeOK
  <2> QED BY <1>3, <2>1, <2>2 DEF Answer, database, memory
<1>4. ASSUME NEW p \in Peers, Deliver(p) PROVE Inductive'
  BY <1>4 DEF Deliver, database, memory
<1>5. CASE CreateExtension
  BY <1>5 DEF CreateExtension, NoStatus, poll, memory, TypeOK
<1>6. CASE DropExtension
  BY <1>6 DEF DropExtension, NoStatus, poll, memory, TypeOK
<1>7. CASE CheckDue \/ PollDue \/ Deadline
  BY <1>7 DEF CheckDue, PollDue, Deadline, database, poll, memory
<1>8. CASE Worker
  <2>1. CASE Ticks
    BY <2>1, TickInductive
  <2>2. CASE EndSpin \/ SkipGraph \/ ReadGraph \/ EndCheck
    BY <2>2 DEF EndSpin, SkipGraph, ReadGraph, EndCheck, database, poll, memory
  <2>3. CASE CheckInstalled
    <3>1. oids > 0
      BY <2>3 DEF CheckInstalled, TypeOK
    <3> QED BY <2>3, <3>1 DEF CheckInstalled, database, poll, memory
  <2>4. CASE CheckAbsent
    BY <2>4, ForgettingReplies DEF CheckAbsent, database, TypeOK
  <2>5. CASE Start
    BY <2>5 DEF Start, database, memory
  <2>6. CASE StartFails
    BY <2>6, FailureInductive DEF StartFails
  <2> QED BY <1>8, <2>1, <2>2, <2>3, <2>4, <2>5, <2>6 DEF Worker
<1>9. CASE Rebuild
  BY <1>9, ForgettingReplies DEF Rebuild, database, memory
<1>10. CASE Crash
  BY <1>10, ForgettingReplies DEF Crash, database, TypeOK
<1>11. CASE Restart
  BY <1>11 DEF Restart, database, poll, memory
<1>12. CASE UNCHANGED vars
  BY <1>12 DEF vars, database, poll, memory
<1> QED BY <1>1, <1>2, <1>3, <1>4, <1>5, <1>6, <1>7, <1>8, <1>9, <1>10, <1>11, <1>12
    DEF Next

\* The inductive invariant holds throughout.
LEMMA InductiveHolds == Spec => []Inductive
<1>1. Init => Inductive
  BY InitInductive
<1>2. TypeOK /\ Inductive /\ [Next]_vars => Inductive'
  BY StepInductive
<1> QED BY <1>1, <1>2, TypeCorrect, PTL DEF Spec

\* Skipping an unchanged snapshot never leaves stale rows behind.
THEOREM FilledTableMatches == Spec => []FilledTableMatchesMemory
<1>1. Inductive => FilledTableMatchesMemory
  BY DEF Inductive
<1> QED BY <1>1, InductiveHolds, PTL

\* A status row without error says that the table holds the last snapshot,
\* unless a poll failed and the extension was installed again.
THEOREM CleanStatus == Spec => []CleanStatusIsCurrentUnlessReinstalled
<1>1. TypeOK /\ Inductive => CleanStatusIsCurrentUnlessReinstalled
  <2> SUFFICES ASSUME TypeOK, Inductive, flawless \/ oids <= 1, Believed
               PROVE  parameters = previous_parameters
    BY DEF CleanStatusIsCurrentUnlessReinstalled
  <2>1. parameter_status.refreshed
    BY DEF Inductive, TypeOK
  <2> QED BY <2>1 DEF Inductive, FilledTableMatchesMemory
<1> QED BY <1>1, TypeCorrect, InductiveHolds, PTL

-----------------------------------------------------------------------------
(* What one step may do                                                    *)

\* Within one installation only a finished poll changes the table.
LEMMA TableWriters ==
  ASSUME TypeOK, [Next]_vars, parameters' # parameters, ext' = ext
  PROVE  Finish
<1>1. ~CreateExtension
  BY DEF TypeOK, CreateExtension
<1>2. ~DropExtension
  BY DEF DropExtension
<1>3. ~UNCHANGED vars
  BY DEF vars, database
<1>4. \A p \in Peers : ~(ChangeNode(p) \/ Answer(p) \/ Deliver(p)
                           \/ \E n \in Names : SetParameter(p, n))
  BY DEF ChangeNode, Answer, Deliver, SetParameter, database
<1>5. ~(CheckDue \/ PollDue \/ Deadline \/ Rebuild \/ Crash \/ Restart)
  BY DEF CheckDue, PollDue, Deadline, Rebuild, Crash, Restart, database
<1>6. ~(EndSpin \/ SkipGraph \/ ReadGraph \/ CheckInstalled \/ CheckAbsent \/ Start
          \/ EndCheck)
  BY DEF EndSpin, SkipGraph, ReadGraph, CheckInstalled, CheckAbsent, Start, EndCheck,
         database
<1>7. ~(List \/ Get \/ Pending)
  BY DEF List, Get, Pending, database
<1>8. ~(StartFails \/ TimeOut \/ LengthMismatch \/ TickFails)
  BY DEF StartFails, TimeOut, LengthMismatch, TickFails, SaveFailure
<1> QED BY <1>1, <1>2, <1>3, <1>4, <1>5, <1>6, <1>7, <1>8 DEF Next, Worker, Ticks

\* The table changes only when every peer has answered both calls of the poll:
\* failures, deadlines and late replies leave it alone.
THEOREM OnlyCompletePolls == Spec => OnlyCompletePollsReachTable
<1>1. TypeOK /\ Inductive /\ [Next]_vars =>
        [parameters' # parameters /\ ext' = ext =>
           stage = "getting" /\ clients \subseteq answered]_vars
  <2> SUFFICES ASSUME TypeOK, Inductive, [Next]_vars, parameters' # parameters,
                      ext' = ext
               PROVE  stage = "getting" /\ clients \subseteq answered
    OBVIOUS
  <2>1. Finish
    BY TableWriters
  <2> QED BY <2>1 DEF Finish, Complete, Inductive
<1> QED BY <1>1, TypeCorrect, InductiveHolds, PTL DEF Spec, OnlyCompletePollsReachTable

-----------------------------------------------------------------------------
(* The abstract cache                                                      *)

\* A complete poll is stored, skipped because the table holds its rows already,
\* or forgone in the one case that allows it.
LEMMA FinishMapped ==
  ASSUME TypeOK, Inductive, Finish
  PROVE  Cache!Next
<1>1. pc = "tick" /\ pc' = "graph" /\ Complete /\ SaveSnapshot(Rows) /\ ext' = ext
  BY DEF Finish, Tick, SaveSnapshot
<1>2. CASE ext = 0
  BY <1>1, <1>2 DEF SaveSnapshot, Cache!Next, Cache!Observe
<1>3. CASE ext # 0 /\ Changed(Rows)
  <2>1. /\ parameters' = Rows
        /\ parameter_status' = [checked |-> TRUE, refreshed |-> TRUE, failed |-> FALSE]
    BY <1>1, <1>3 DEF SaveSnapshot
  <2> QED BY <1>1, <1>3, <2>1 DEF Cache!Next, Cache!StoreAnswer
<1>4. CASE ext # 0 /\ ~Changed(Rows)
  <2>1. previous_parameters = Rows /\ parameter_extension = ext
    BY <1>4 DEF Changed
  <2>2. Rows # None
    BY RowsType, ParameterAssumption
  <2>3. parameters' = parameters /\ parameter_status.checked
    BY <1>1, <1>4, <2>1 DEF SaveSnapshot, Inductive
  <2>4. CASE parameter_status.refreshed
    <3>1. parameters = Rows
      BY <1>4, <2>1, <2>2, <2>4 DEF Inductive, FilledTableMatchesMemory, Believed
    <3>2. parameter_status' = [checked |-> TRUE, refreshed |-> TRUE, failed |-> FALSE]
      BY <1>1, <1>4, <2>4 DEF SaveSnapshot, TypeOK
    <3> QED BY <1>1, <1>4, <2>3, <3>1, <3>2 DEF Cache!Next, Cache!StoreAnswer
  <2>5. CASE ~parameter_status.refreshed
    <3>1. parameter_status' = [checked |-> TRUE, refreshed |-> FALSE, failed |-> FALSE]
      BY <1>1, <1>4, <2>5 DEF SaveSnapshot, TypeOK
    <3> QED BY <1>1, <1>4, <2>3, <2>5, <3>1 DEF Cache!Next, Cache!ForgoAnswer
  <2> QED BY <2>4, <2>5
<1> QED BY <1>2, <1>3, <1>4

\* A failure is recorded, or without the extension not.
LEMMA FailureMapped ==
  ASSUME TypeOK, SaveFailure, pc' # "tick"
  PROVE  Cache!Next
<1>1. CASE ext = 0
  BY <1>1 DEF SaveFailure, Cache!Next, Cache!Observe
<1>2. CASE ext # 0
  <2>1. parameter_status' =
          [checked |-> TRUE, refreshed |-> parameter_status.refreshed, failed |-> TRUE]
    BY <1>2 DEF SaveFailure, TypeOK
  <2> QED BY <1>2, <2>1 DEF SaveFailure, Cache!Next, Cache!RecordFailure
<1> QED BY <1>1, <1>2

\* Every step is a step of the cache or leaves it unchanged.
LEMMA StepMapped ==
  TypeOK /\ Inductive /\ [Next]_vars => [Cache!Next]_(Cache!vars)
<1> SUFFICES ASSUME TypeOK, Inductive, [Next]_vars PROVE Cache!Next
  OBVIOUS
<1>1. CASE UNCHANGED <<ext, parameters, parameter_status>>
  BY <1>1 DEF Cache!Next, Cache!Observe
<1>2. CASE CreateExtension
  <2>1. Cache!Create
    BY <1>2 DEF CreateExtension, NoStatus, TypeOK, Cache!Create, Cache!NoStatus
  <2> QED BY <2>1 DEF Cache!Next
<1>3. CASE DropExtension
  BY <1>3 DEF DropExtension, NoStatus, Cache!Next, Cache!Drop, Cache!NoStatus
<1>4. CASE Finish
  BY <1>4, FinishMapped
<1>5. CASE TimeOut \/ LengthMismatch \/ TickFails \/ StartFails
  BY <1>5, FailureMapped DEF TimeOut, LengthMismatch, TickFails, StartFails, Tick
<1>6. CASE ~(CreateExtension \/ DropExtension \/ Finish \/ TimeOut \/ LengthMismatch
              \/ TickFails \/ StartFails)
  <2>1. UNCHANGED <<ext, parameters, parameter_status>>
    BY <1>6 DEF Next, ChangeNode, Answer, Deliver, SetParameter, CheckDue, PollDue,
                Deadline, Worker, Ticks, EndSpin, List, Get, Pending, SkipGraph,
                ReadGraph, CheckInstalled, CheckAbsent, Start, EndCheck, Rebuild,
                Crash, Restart, database, vars
  <2> QED BY <2>1, <1>1
<1> QED BY <1>2, <1>3, <1>4, <1>5, <1>6

\* The parameter table and its status row are a write-through cache of the
\* answers of complete polls, although the worker skips writes.
THEOREM CacheImplemented == Spec => ImplementsCache
<1>1. Init => Cache!Init
  BY DEF Init, NoStatus, Cache!Init, Cache!NoStatus
<1>2. TypeOK /\ Inductive /\ [Next]_vars => [Cache!Next]_(Cache!vars)
  BY StepMapped
<1> QED BY <1>1, <1>2, TypeCorrect, InductiveHolds, PTL
    DEF Spec, ImplementsCache, Cache!Spec
=============================================================================
