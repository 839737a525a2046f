--------------------------- MODULE ParameterPoll ---------------------------
(***************************************************************************)
(* Snapshots of remote parameters (src/src/parameters.rs and its slots in  *)
(* the loop of src/src/lib.rs).                                            *)
(*                                                                         *)
(* A poll asks every node of one graph snapshot that offers parameter      *)
(* services for its parameter names and then for their values.  It never   *)
(* waits: each iteration of the loop ticks it once, between spins that     *)
(* deliver replies.  All peers answer both calls in time, or the poll is a *)
(* failure and the last snapshot stays.  Nodes come and go, parameters are *)
(* declared, set and undeclared, replies are late and the extension is     *)
(* dropped and created between any two steps.                              *)
(*                                                                         *)
(* A reply to either call is what its peer had declared when it answered:  *)
(* the list call takes the names of it, the get call the values.           *)
(***************************************************************************)
EXTENDS Naturals

CONSTANTS
  Peers,         \* nodes, by name and namespace
  Names,         \* parameter names
  Values,        \* parameter values other than not_set
  NotSet,        \* the value of an undeclared parameter
  None,          \* Option::None of a snapshot or a reply
  MaxOid,        \* bound: CREATE EXTENSION statements
  MaxChanges,    \* bound: changes of the remote nodes
  MaxFailures,   \* bound: failed graph reads, calls and conversions
  MaxSlow,       \* bound: deadlines missed although every peer answers
  MaxRestarts    \* bound: crashes and context rebuilds

Declared == [Names -> Values \cup {NotSet}]
Parameter == [peer : Peers, name : Names, value : Values \cup {NotSet}]

\* A node may be gone, offer no parameter services, answer them or be mute.
Kinds == {"absent", "plain", "serving", "mute"}

ASSUME ParameterAssumption ==
  /\ NotSet \notin Values
  /\ None \notin Declared
  /\ \A rows \in SUBSET Parameter : rows # None
  /\ \A group \in SUBSET Peers : group # None
  /\ {MaxOid, MaxChanges, MaxFailures, MaxSlow, MaxRestarts} \subseteq Nat

VARIABLES
  \* The environment: the nodes and what they have declared.
  peers, remote,
  \* The database; an absent extension is 0.
  ext, oids, parameters, parameter_status,
  \* The worker loop.
  pc,
  check_due,   \* the dirty flag is up (and the warm-up has passed)
  poll_due,    \* next_parameters has passed
  nodes,       \* nodes of the graph snapshot just read, None if that failed
  \* The poll in progress: stage, its peers, replies and deadline.
  stage, clients,
  reply,       \* what each peer answered to the current call
  arrived,     \* the peers whose reply a spin has delivered
  listed,      \* the names to get
  overdue,     \* the deadline has passed
  \* Variables of run_observer.
  previous_parameters, parameter_extension,
  \* History, used by properties and bounds only.
  answered,    \* peers that answered the current call
  flawless,    \* no poll has failed yet
  tally

environment == <<peers, remote>>
database == <<ext, oids, parameters, parameter_status>>
poll == <<stage, clients, reply, arrived, listed, overdue, answered>>
memory == <<previous_parameters, parameter_extension, flawless>>
vars == <<environment, database, pc, check_due, poll_due, nodes, poll, memory,
          tally>>

NoStatus == [checked |-> FALSE, refreshed |-> FALSE, failed |-> FALSE]
NoReplies == [p \in Peers |-> None]
Services == {p \in Peers : peers[p] \in {"serving", "mute"}}

Count(event, limit) ==
  /\ tally[event] < limit
  /\ tally' = [tally EXCEPT ![event] = @ + 1]

NoPoll ==
  /\ stage = "none"
  /\ clients = {}
  /\ reply = NoReplies
  /\ arrived = {}
  /\ listed = [p \in Peers |-> {}]
  /\ overdue = FALSE
  /\ answered = {}

Init ==
  /\ peers \in [Peers -> Kinds]
  /\ remote \in [Peers -> Declared]
  /\ ext = 0
  /\ oids = 0
  /\ parameters = {}
  /\ parameter_status = NoStatus
  /\ pc = "spin"
  /\ check_due = FALSE
  /\ poll_due = FALSE
  /\ nodes = None
  /\ NoPoll
  /\ previous_parameters = None
  /\ parameter_extension = 0
  /\ flawless = TRUE
  /\ tally = [change |-> 0, failure |-> 0, slow |-> 0, restart |-> 0]

-----------------------------------------------------------------------------
(* Remote nodes, administrators and the clock                              *)

ChangeNode(p) ==
  /\ Count("change", MaxChanges)
  /\ \E k \in Kinds \ {peers[p]} : peers' = [peers EXCEPT ![p] = k]
  /\ UNCHANGED <<remote, database, pc, check_due, poll_due, nodes, poll, memory>>

SetParameter(p, n) ==
  /\ peers[p] # "absent"
  /\ Count("change", MaxChanges)
  /\ \E v \in (Values \cup {NotSet}) \ {remote[p][n]} :
       remote' = [remote EXCEPT ![p][n] = v]
  /\ UNCHANGED <<peers, database, pc, check_due, poll_due, nodes, poll, memory>>

\* A serving peer answers the call that is open.
Answer(p) ==
  /\ stage \in {"listing", "getting"}
  /\ p \in clients
  /\ peers[p] = "serving"
  /\ reply[p] = None
  /\ reply' = [reply EXCEPT ![p] = remote[p]]
  /\ answered' = answered \cup {p}
  /\ UNCHANGED <<environment, database, pc, check_due, poll_due, nodes, stage,
                 clients, arrived, listed, overdue, memory, tally>>

CreateExtension ==
  /\ ext = 0
  /\ oids < MaxOid
  /\ oids' = oids + 1
  /\ ext' = oids + 1
  /\ parameters' = {}
  /\ parameter_status' = NoStatus
  /\ UNCHANGED <<environment, pc, check_due, poll_due, nodes, poll, memory, tally>>

DropExtension ==
  /\ ext # 0
  /\ ext' = 0
  /\ parameters' = {}
  /\ parameter_status' = NoStatus
  /\ UNCHANGED <<environment, oids, pc, check_due, poll_due, nodes, poll, memory,
                 tally>>

\* The graph listener runs at least once per second.
CheckDue ==
  /\ ~check_due
  /\ pc # "down"
  /\ check_due' = TRUE
  /\ UNCHANGED <<environment, database, pc, poll_due, nodes, poll, memory, tally>>

PollDue ==
  /\ ~poll_due
  /\ pc # "down"
  /\ poll_due' = TRUE
  /\ UNCHANGED <<environment, database, pc, check_due, nodes, poll, memory, tally>>

\* Three seconds in one stage.  Peers that all answer do so in time, but for
\* MaxSlow exceptions.
Deadline ==
  /\ stage # "none"
  /\ ~overdue
  /\ \/ \E p \in clients : peers[p] # "serving"
        /\ UNCHANGED tally
     \/ /\ \A p \in clients : peers[p] = "serving"
        /\ Count("slow", MaxSlow)
  /\ overdue' = TRUE
  /\ UNCHANGED <<environment, database, pc, check_due, poll_due, nodes, stage,
                 clients, reply, arrived, listed, memory, answered>>

-----------------------------------------------------------------------------
(* The loop: spin, tick the poll, check the graph                          *)

Deliver(p) ==
  /\ pc = "spin"
  /\ reply[p] # None
  /\ p \notin arrived
  /\ arrived' = arrived \cup {p}
  /\ UNCHANGED <<environment, database, pc, check_due, poll_due, nodes, stage,
                 clients, reply, listed, overdue, memory, answered, tally>>

EndSpin ==
  /\ pc = "spin"
  /\ pc' = IF stage = "none" THEN "graph" ELSE "tick"
  /\ UNCHANGED <<environment, database, check_due, poll_due, nodes, poll, memory,
                 tally>>

ForgetPoll ==
  /\ stage' = "none"
  /\ clients' = {}
  /\ reply' = NoReplies
  /\ arrived' = {}
  /\ listed' = [p \in Peers |-> {}]
  /\ overdue' = FALSE
  /\ answered' = {}

\* Mutants: the comparison ignores the extension, or removed rows.
ChangedWithoutExtension(rows) == previous_parameters # rows
ChangedWhenAdded(rows) ==
  \/ previous_parameters = None
  \/ ~(rows \subseteq previous_parameters)
  \/ parameter_extension # ext

Changed(rows) == previous_parameters # rows \/ parameter_extension # ext

\* persist(Ok(rows)): one transaction, which without the extension does
\* nothing; the snapshot is remembered in either case.
SaveSnapshot(rows) ==
  /\ IF ext = 0
     THEN UNCHANGED <<parameters, parameter_status>>
     ELSE /\ parameters' = IF Changed(rows) THEN rows ELSE parameters
          /\ parameter_status' =
               [checked |-> TRUE, failed |-> FALSE,
                refreshed |-> Changed(rows) \/ parameter_status.refreshed]
  /\ parameter_extension' = ext
  /\ previous_parameters' = rows
  /\ poll_due' = FALSE
  /\ ForgetPoll
  /\ UNCHANGED <<ext, oids, flawless>>

\* Mutant: the failure is logged only.
SaveFailureSilently ==
  /\ parameter_extension' = ext
  /\ flawless' = FALSE
  /\ poll_due' = FALSE
  /\ ForgetPoll
  /\ UNCHANGED <<database, previous_parameters>>

\* persist(Err): the rows stay, the extension seen is remembered.
SaveFailure ==
  /\ parameter_status' =
       IF ext = 0 THEN parameter_status
       ELSE [parameter_status EXCEPT !.checked = TRUE, !.failed = TRUE]
  /\ parameter_extension' = ext
  /\ flawless' = FALSE
  /\ poll_due' = FALSE
  /\ ForgetPoll
  /\ UNCHANGED <<ext, oids, parameters, previous_parameters>>

\* One tick per iteration; it never waits.
Tick ==
  /\ pc = "tick"
  /\ pc' = "graph"
  /\ UNCHANGED <<environment, check_due, nodes>>

\* Mutant: waiting for the services to become ready never ends.
TimedOutAfterReady == overdue /\ stage # "ready"

TimedOut == overdue

TimeOut ==
  /\ Tick
  /\ TimedOut
  /\ SaveFailure
  /\ UNCHANGED tally

\* Mutant: the results of the previous call stay.
NewCallKeepingReplies == answered' = {} /\ overdue' = FALSE /\ UNCHANGED <<reply, arrived>>

\* Every call has its own promises and three seconds.
NewCall ==
  /\ reply' = NoReplies
  /\ arrived' = {}
  /\ answered' = {}
  /\ overdue' = FALSE

\* Nothing is listed before all services of all peers are ready.
List ==
  /\ Tick
  /\ ~TimedOut
  /\ stage = "ready"
  /\ clients \subseteq Services
  /\ stage' = "listing"
  /\ NewCall
  /\ UNCHANGED <<database, poll_due, clients, listed, memory, tally>>

Get ==
  /\ Tick
  /\ ~TimedOut
  /\ stage = "listing"
  /\ clients \subseteq arrived
  /\ stage' = "getting"
  /\ listed' = [p \in Peers |->
       IF p \in clients THEN {n \in Names : reply[p][n] # NotSet} ELSE {}]
  /\ NewCall
  /\ UNCHANGED <<database, poll_due, clients, memory, tally>>

Pending ==
  /\ Tick
  /\ ~TimedOut
  /\ IF stage = "ready" THEN ~(clients \subseteq Services) ELSE ~(clients \subseteq arrived)
  /\ UNCHANGED <<database, poll_due, poll, memory, tally>>

\* Mutant: name and value change places.
RowsSwapped ==
  UNION {{[peer |-> p, name |-> reply[p][n], value |-> n] : n \in listed[p]} : p \in clients}

\* One row for every listed name; a name undeclared since is not_set.
Rows ==
  {r \in Parameter : /\ r.peer \in clients
                     /\ r.name \in listed[r.peer]
                     /\ r.value = reply[r.peer][r.name]}

Complete == stage = "getting" /\ clients \subseteq arrived

Finish ==
  /\ Tick
  /\ ~TimedOut
  /\ Complete
  /\ SaveSnapshot(Rows)
  /\ UNCHANGED tally

\* Some client libraries send no values at all if one name is unknown.
LengthMismatch ==
  /\ Tick
  /\ ~TimedOut
  /\ Complete
  /\ \E p \in clients : \E n \in listed[p] : reply[p][n] = NotSet
  /\ SaveFailure
  /\ UNCHANGED tally

\* A call, a promise or the conversion of a value fails.
TickFails ==
  /\ Tick
  /\ ~TimedOut
  /\ Count("failure", MaxFailures)
  /\ SaveFailure

SkipGraph ==
  /\ pc = "graph"
  /\ ~check_due
  /\ pc' = "spin"
  /\ UNCHANGED <<environment, database, check_due, poll_due, nodes, poll, memory,
                 tally>>

ReadGraph ==
  /\ pc = "graph"
  /\ check_due
  /\ check_due' = FALSE
  /\ pc' = "check"
  /\ \/ nodes' = {p \in Peers : peers[p] # "absent"} /\ UNCHANGED tally
     \/ nodes' = None /\ Count("failure", MaxFailures)
  /\ UNCHANGED <<environment, database, poll_due, poll, memory>>

\* The graph was persisted (GraphWorker).  A poll starts from a snapshot that
\* was read, if none is in progress and the last ended five seconds ago.
CheckInstalled ==
  /\ pc = "check"
  /\ ext # 0
  /\ pc' = IF nodes # None /\ stage = "none" /\ poll_due THEN "start" ELSE "end"
  /\ UNCHANGED <<environment, database, check_due, poll_due, nodes, poll, memory,
                 tally>>

CheckAbsent ==
  /\ pc = "check"
  /\ ext = 0
  /\ pc' = "spin"
  /\ nodes' = None
  /\ previous_parameters' = None
  /\ parameter_extension' = 0
  /\ ForgetPoll
  /\ UNCHANGED <<environment, database, check_due, poll_due, flawless, tally>>

\* Peers that offer the list service take part; the others are skipped.
Start ==
  /\ pc = "start"
  /\ pc' = "end"
  /\ \A p \in nodes : peers[p] # "absent"
  /\ stage' = "ready"
  /\ clients' = nodes \cap Services
  /\ UNCHANGED <<environment, database, check_due, poll_due, nodes, reply, arrived,
                 listed, overdue, answered, memory, tally>>

\* The services of a node that has just gone cannot be looked up.
StartFails ==
  /\ pc = "start"
  /\ pc' = "end"
  /\ \/ (\E p \in nodes : peers[p] = "absent") /\ UNCHANGED tally
     \/ Count("failure", MaxFailures)
  /\ SaveFailure
  /\ UNCHANGED <<environment, check_due, nodes>>

EndCheck ==
  /\ pc = "end"
  /\ pc' = "spin"
  /\ nodes' = None
  /\ UNCHANGED <<environment, database, check_due, poll_due, poll, memory, tally>>

\* The graph stayed empty: a new session drops the poll, not the snapshot.
Rebuild ==
  /\ pc = "end"
  /\ nodes = {}
  /\ Count("restart", MaxRestarts)
  /\ pc' = "spin"
  /\ nodes' = None
  /\ check_due' = FALSE
  /\ poll_due' = FALSE
  /\ ForgetPoll
  /\ UNCHANGED <<environment, database, memory>>

Crash ==
  /\ pc # "down"
  /\ Count("restart", MaxRestarts)
  /\ pc' = "down"
  /\ nodes' = None
  /\ check_due' = FALSE
  /\ poll_due' = FALSE
  /\ ForgetPoll
  /\ previous_parameters' = None
  /\ parameter_extension' = 0
  /\ UNCHANGED <<environment, database, flawless>>

Restart ==
  /\ pc = "down"
  /\ pc' = "spin"
  /\ UNCHANGED <<environment, database, check_due, poll_due, nodes, poll, memory,
                 tally>>

-----------------------------------------------------------------------------
Ticks == TimeOut \/ List \/ Get \/ Pending \/ Finish \/ LengthMismatch \/ TickFails
Worker ==
  \/ EndSpin \/ Ticks \/ SkipGraph \/ ReadGraph \/ CheckInstalled \/ CheckAbsent
  \/ Start \/ StartFails \/ EndCheck

Next ==
  \/ \E p \in Peers :
       \/ ChangeNode(p) \/ Answer(p) \/ Deliver(p)
       \/ \E n \in Names : SetParameter(p, n)
  \/ CreateExtension \/ DropExtension
  \/ CheckDue \/ PollDue \/ Deadline
  \/ Worker \/ Rebuild \/ Crash \/ Restart

Spec == Init /\ [][Next]_vars

\* The loop runs, its timers and deadlines elapse, serving peers answer, a
\* reply that has been sent is delivered by some spin (each spin runs what has
\* arrived, hence strong fairness) and the postmaster restarts the worker.
Fairness ==
  /\ WF_vars(Worker)
  /\ WF_vars(CheckDue)
  /\ WF_vars(PollDue)
  /\ WF_vars(Deadline)
  /\ WF_vars(Restart)
  /\ \A p \in Peers : WF_vars(Answer(p)) /\ SF_vars(Deliver(p))

FairSpec == Spec /\ Fairness

-----------------------------------------------------------------------------
(* Properties                                                              *)

\* Every variable keeps its type.
TypeOK ==
  /\ peers \in [Peers -> Kinds]
  /\ remote \in [Peers -> Declared]
  /\ ext \in Nat
  /\ oids \in Nat
  /\ parameters \subseteq Parameter
  /\ parameter_status \in [checked : BOOLEAN, refreshed : BOOLEAN, failed : BOOLEAN]
  /\ pc \in {"spin", "tick", "graph", "check", "start", "end", "down"}
  /\ check_due \in BOOLEAN
  /\ poll_due \in BOOLEAN
  /\ nodes \in {None} \cup SUBSET Peers
  /\ stage \in {"none", "ready", "listing", "getting"}
  /\ clients \subseteq Peers
  /\ reply \in [Peers -> Declared \cup {None}]
  /\ arrived \subseteq Peers
  /\ listed \in [Peers -> SUBSET Names]
  /\ overdue \in BOOLEAN
  /\ previous_parameters \in {None} \cup SUBSET Parameter
  /\ parameter_extension \in Nat
  /\ answered \subseteq Peers
  /\ flawless \in BOOLEAN
  /\ tally \in [{"change", "failure", "slow", "restart"} -> Nat]

\* What the worker believes it stored in the installation now present.
Believed == ext # 0 /\ previous_parameters # None /\ parameter_extension = ext

\* Once this installation's table was ever filled, it holds exactly the
\* snapshot the worker compares the next one with: skipping an unchanged one
\* never leaves stale rows behind, although a snapshot is remembered even if
\* no extension was there to hold it.
FilledTableMatchesMemory ==
  Believed /\ parameter_status.refreshed => parameters = previous_parameters

\* "Check its last_checked and last_error before relying on parameter values":
\* while no poll has failed, or the extension was installed only once, a clean
\* status row says that the table holds the last snapshot.
CleanStatusIsCurrentUnlessReinstalled ==
  flawless \/ oids <= 1 =>
    (Believed /\ parameter_status.checked /\ ~parameter_status.failed =>
       parameters = previous_parameters)

\* The inductive strengthening of the two statements above and of the next.
Inductive ==
  /\ ext <= oids /\ parameter_extension <= oids
  /\ ext = 0 => ~parameter_status.refreshed
  /\ ~parameter_status.refreshed => parameters = {}
  \* What this process stored before the present installation is gone.
  /\ previous_parameters # None /\ parameter_extension # ext =>
       ~parameter_status.refreshed
  \* A snapshot may be remembered without ever having been stored.
  /\ previous_parameters # None /\ parameter_extension # ext /\ ext # 0 => oids > 1
  /\ Believed /\ ~parameter_status.refreshed => ~flawless /\ oids > 1
  /\ ext # 0 /\ parameter_extension = ext => parameter_status.checked
  /\ previous_parameters # None \/ stage # "none" \/ pc = "start" => oids > 0
  /\ FilledTableMatchesMemory
  \* Only an answer to the current call is delivered.
  /\ arrived \subseteq answered
  /\ \A p \in Peers : reply[p] # None => p \in answered

\* "A failed poll preserves the entire last parameter snapshot": within one
\* installation the table changes only when every peer of a poll has answered
\* both calls of that poll; a late reply to an earlier call is not one.
OnlyCompletePollsReachTable ==
  [][parameters' # parameters /\ ext' = ext =>
       stage = "getting" /\ clients \subseteq answered]_vars

\* What the serving nodes have declared.
Reported ==
  {r \in Parameter : /\ peers[r.peer] = "serving"
                     /\ r.value = remote[r.peer][r.name]
                     /\ r.value # NotSet}
AnyMute == \E p \in Peers : peers[p] = "mute"

\* Once nodes and parameters stop changing and every service answers, the
\* table of an installed extension comes to be exactly what they declare.
Converges == <>[](ext # 0 /\ ~AnyMute) => <>[](parameters = Reported)

\* One mute service is enough: from some point on the status row shows the
\* failure, however many other peers answer.
SilenceIsReported == <>[](ext # 0 /\ AnyMute) => <>[](parameter_status.failed)

\* No poll lasts forever, whatever its peers do.
PollEnds == stage # "none" ~> stage = "none"

-----------------------------------------------------------------------------
(* The abstract cache                                                      *)

Cache == INSTANCE SnapshotCache WITH
  Snapshots <- SUBSET Parameter, Empty <- {},
  table <- parameters, status <- parameter_status,
  pending <- pc = "tick" /\ Complete, ok <- TRUE, answer <- Rows

\* Whatever the worker remembers and skips, and whatever becomes of a poll, the
\* table behaves like a cache that stores the answer of every complete poll.
ImplementsCache == Cache!Spec
=============================================================================
