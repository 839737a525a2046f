--------------------------- MODULE PublishSession ---------------------------
(***************************************************************************)
(* ros2.publish(topic, [type,] message) in one backend (src/src/publish.rs).*)
(*                                                                         *)
(* The first statement builds a ROS session that the backend keeps.  A     *)
(* statement resolves the message type (given, or looked up on the graph), *)
(* builds the message, takes the publisher from the session's cache or     *)
(* creates one, waits for a subscription to match, publishes, and spins    *)
(* for a moment.  Only then is a new publisher cached: a statement that    *)
(* ends in any other way drops it.  Every spin starts with a check for     *)
(* interrupts, so a cancelled statement ends before one.                   *)
(*                                                                         *)
(* There is one topic.  A subscription is a number, new ones get new       *)
(* numbers, so that a subscriber that restarted is another one.  What      *)
(* becomes of a JSON message is Build's affair: the set of the one message *)
(* it decodes to, or empty if the type cannot be loaded or does not fit.   *)
(***************************************************************************)
EXTENDS Naturals, FiniteSets

CONSTANTS
  Types,          \* message types
  Messages,       \* JSON messages
  Build(_, _),    \* what a type makes of a JSON message
  None,           \* Option::None of a type or message
  MaxStatements,  \* bound: statements
  MaxChanges,     \* bound: changes of the other participants
  MaxFailures,    \* bound: calls of rcl that fail
  MaxCancels      \* bound: statements cancelled

Samples == UNION {Build(kind, message) : kind \in Types, message \in Messages}

ASSUME PublishAssumption ==
  /\ None \notin Types
  /\ {MaxStatements, MaxChanges, MaxFailures, MaxCancels} \subseteq Nat

VARIABLES
  publishing,   \* types the topic's other publishers have
  subscribing,  \* the topic's subscription of each type; 0: none
  matched,      \* the one our publisher of that type has matched; 0: none
  session,      \* the backend has built its session
  publishers,   \* types of the session's cached publishers
  pc,           \* place in the statement; "idle": none is running
  request,      \* the statement's arguments
  resolved,     \* the type in use
  dynamic,      \* the message built
  fresh,        \* its publisher is one this statement created
  overdue,      \* the deadline of the present wait has passed
  \* History, used by properties and bounds only.
  outcome,      \* how the last statement ended
  ended,        \* and where
  disturbed,    \* ... a call failed or it was cancelled
  sent,         \* samples it has sent
  waited,       \* its wait lasted the full time
  counted,      \* the subscription its wait ended with; 0: none
  delivered,    \* the sample reached the subscription of its type
  proven,       \* types of the statements that succeeded
  tally

graph == <<publishing, subscribing, matched>>
statement == <<request, resolved, dynamic, fresh, overdue>>
history == <<outcome, ended, disturbed, sent, waited, counted, delivered,
             proven>>
vars == <<graph, session, publishers, pc, statement, history, tally>>

NoRequest == [kind |-> None, message |-> None]
Running == pc # "idle"

\* Our publishers: those cached and the one being tried.
Own == publishers \cup (IF fresh THEN {resolved} ELSE {})

Subscribed == {kind \in Types : subscribing[kind] # 0}

Count(event, limit) ==
  /\ tally[event] < limit
  /\ tally' = [tally EXCEPT ![event] = @ + 1]

Init ==
  /\ publishing \in SUBSET Types
  /\ subscribing \in [Types -> {0, 1}]
  /\ matched = [kind \in Types |-> 0]
  /\ session = FALSE
  /\ publishers = {}
  /\ pc = "idle"
  /\ request = NoRequest
  /\ resolved = None
  /\ dynamic = None
  /\ fresh = FALSE
  /\ overdue = FALSE
  /\ outcome = "none"
  /\ ended = "idle"
  /\ disturbed = FALSE
  /\ sent = 0
  /\ waited = FALSE
  /\ counted = 0
  /\ delivered = FALSE
  /\ proven = {}
  /\ tally = [statement |-> 0, change |-> 0, failure |-> 0, cancel |-> 0]

-----------------------------------------------------------------------------
(* The environment                                                         *)

ChangePublishers ==
  /\ Count("change", MaxChanges)
  /\ \E kinds \in (SUBSET Types) \ {publishing} : publishing' = kinds
  /\ UNCHANGED <<subscribing, matched, session, publishers, pc, statement, history>>

\* A subscription appears, goes, or restarts.
ChangeSubscription(kind) ==
  /\ Count("change", MaxChanges)
  /\ \/ subscribing' = [subscribing EXCEPT ![kind] = tally["change"] + 2]
     \/ /\ subscribing[kind] # 0
        /\ subscribing' = [subscribing EXCEPT ![kind] = 0]
  /\ UNCHANGED <<publishing, matched, session, publishers, pc, statement, history>>

\* DDS discovery tells our publisher, some time later.
Notice(kind) ==
  /\ kind \in Own
  /\ matched[kind] # subscribing[kind]
  /\ matched' = [matched EXCEPT ![kind] = subscribing[kind]]
  /\ UNCHANGED <<publishing, subscribing, session, publishers, pc, statement, history,
                 tally>>

\* Five seconds of look-ups, two of waiting, or the flush are over.
Deadline ==
  /\ pc \in {"discover", "wait", "flush"}
  /\ ~overdue
  /\ overdue' = TRUE
  /\ UNCHANGED <<graph, session, publishers, pc, request, resolved, dynamic, fresh,
                 history, tally>>

-----------------------------------------------------------------------------
(* The statement                                                           *)

Publish ==
  /\ pc = "idle"
  /\ Count("statement", MaxStatements)
  /\ \E kind \in Types \cup {None}, message \in Messages :
       request' = [kind |-> kind, message |-> message]
  /\ pc' = "session"
  /\ outcome' = "none"
  /\ ended' = "idle"
  /\ disturbed' = FALSE
  /\ sent' = 0
  /\ waited' = FALSE
  /\ counted' = 0
  /\ delivered' = FALSE
  /\ UNCHANGED <<graph, session, publishers, resolved, dynamic, fresh, overdue, proven>>

\* The end of run: its variables go, and with them a publisher it did not cache.
EndStatement ==
  /\ pc' = "idle"
  /\ request' = NoRequest
  /\ resolved' = None
  /\ dynamic' = None
  /\ fresh' = FALSE
  /\ overdue' = FALSE
  /\ ended' = pc

Fail(disturbance) ==
  /\ EndStatement
  /\ outcome' = "error"
  /\ disturbed' = disturbance
  /\ matched' = IF fresh THEN [matched EXCEPT ![resolved] = 0] ELSE matched
  /\ UNCHANGED <<publishing, subscribing, session, publishers, sent, waited, counted,
                 delivered, proven>>

\* An rcl call fails: the session's, a query, the publisher's, a spin.
CallFails ==
  /\ \/ pc \in {"discover", "create", "wait", "publish", "flush"}
     \/ pc = "session" /\ ~session
  /\ Count("failure", MaxFailures)
  /\ Fail(TRUE)

\* The check before a spin raises; the statement unwinds.
Cancelled ==
  /\ pc \in {"discover", "wait", "flush"}
  /\ Count("cancel", MaxCancels)
  /\ Fail(TRUE)

\* Mutant: a given type is looked up as well.
AfterSessionLookedUp == "discover"

AfterSession == IF request.kind = None THEN "discover" ELSE "build"

\* with_session, and the type if it was given.
EnterSession ==
  /\ pc = "session"
  /\ session' = TRUE
  /\ resolved' = request.kind
  /\ pc' = AfterSession
  /\ UNCHANGED <<graph, publishers, request, dynamic, fresh, overdue, history, tally>>

\* The types get_topic_names_and_types lists, ours among them.
Advertised == publishing \cup Subscribed \cup Own

\* Mutant: the look-up goes on for as long as it takes.
GivesUpNever == FALSE

GivesUp == overdue

Discover ==
  /\ pc = "discover"
  /\ \E kind \in Types : Advertised = {kind} /\ resolved' = kind
  /\ overdue' = FALSE
  /\ pc' = "build"
  /\ UNCHANGED <<graph, session, publishers, request, dynamic, fresh, history, tally>>

\* Several types, or none within five seconds.
DiscoverFails ==
  /\ pc = "discover"
  /\ Cardinality(Advertised) > 1 \/ (Advertised = {} /\ GivesUp)
  /\ Fail(FALSE)
  /\ UNCHANGED tally

BuildMessage ==
  /\ pc = "build"
  /\ dynamic' \in Build(resolved, request.message)
  /\ pc' = IF resolved \in publishers THEN "wait" ELSE "create"
  /\ UNCHANGED <<graph, session, publishers, request, resolved, fresh, overdue, history,
                 tally>>

BuildFails ==
  /\ pc = "build"
  /\ Build(resolved, request.message) = {}
  /\ Fail(FALSE)
  /\ UNCHANGED tally

\* Mutant: the sample is sent first, then a subscriber is waited for.
FollowingUnmatched ==
  [create |-> "publish", publish |-> "wait", wait |-> "flush"]

\* The order of the steps.
Following == [create |-> "wait", wait |-> "publish", publish |-> "flush"]

CreatePublisher ==
  /\ pc = "create"
  /\ fresh' = TRUE
  /\ pc' = Following.create
  /\ UNCHANGED <<graph, session, publishers, request, resolved, dynamic, overdue,
                 history, tally>>

\* Mutant: a cached publisher is not waited for.
WaitEndsWhenCached == matched[resolved] # 0 \/ overdue \/ ~fresh

WaitEnds == matched[resolved] # 0 \/ overdue

\* wait_for_subscriber: any matched subscription will do, and none has to come.
WaitForSubscriber ==
  /\ pc = "wait"
  /\ WaitEnds
  /\ counted' = matched[resolved]
  /\ waited' = overdue
  /\ pc' = Following.wait
  /\ UNCHANGED <<graph, session, publishers, statement, outcome, ended, disturbed, sent,
                 delivered, proven, tally>>

\* Mutant: the publisher is cached as soon as it has published.
CachedAtOnce(flushed) == publishers \cup {resolved}

\* Mutant: the cache is keyed by the type as it was given.
CachedAsGiven(flushed) ==
  IF flushed THEN publishers \cup {request.kind} ELSE publishers

\* A publisher is cached once its first sample has been flushed.
Cached(flushed) == IF flushed THEN publishers \cup {resolved} ELSE publishers

PublishSample ==
  /\ pc = "publish"
  /\ sent' = sent + 1
  /\ delivered' = (matched[resolved] # 0 /\ matched[resolved] = subscribing[resolved])
  /\ overdue' = FALSE
  /\ publishers' = Cached(FALSE)
  /\ pc' = Following.publish
  /\ UNCHANGED <<graph, session, request, resolved, dynamic, fresh, outcome, ended,
                 disturbed, waited, counted, proven, tally>>

\* The flush is over: a new publisher is cached, and the statement returns.
Return ==
  /\ pc = "flush"
  /\ overdue
  /\ publishers' = Cached(TRUE)
  /\ outcome' = "ok"
  /\ disturbed' = FALSE
  /\ proven' = proven \cup {resolved}
  /\ EndStatement
  /\ UNCHANGED <<graph, session, sent, waited, counted, delivered, tally>>

-----------------------------------------------------------------------------
Statement ==
  \/ EnterSession \/ Discover \/ DiscoverFails \/ BuildMessage \/ BuildFails
  \/ CreatePublisher \/ WaitForSubscriber \/ PublishSample \/ Return

Next ==
  \/ ChangePublishers
  \/ \E kind \in Types : ChangeSubscription(kind) \/ Notice(kind)
  \/ Deadline \/ Publish \/ CallFails \/ Cancelled \/ Statement

Spec == Init /\ [][Next]_vars

\* A statement goes on and its deadlines pass.  Nobody has to subscribe, and
\* discovery need not be in time.
Fairness == WF_vars(Statement) /\ WF_vars(Deadline)

FairSpec == Spec /\ Fairness

-----------------------------------------------------------------------------
(* Properties                                                              *)

\* Every variable keeps its type.
TypeOK ==
  /\ publishing \subseteq Types
  /\ subscribing \in [Types -> Nat]
  /\ matched \in [Types -> Nat]
  /\ session \in BOOLEAN
  /\ publishers \subseteq Types
  /\ pc \in {"idle", "session", "discover", "build", "create", "wait", "publish", "flush"}
  /\ request \in {NoRequest} \cup [kind : Types \cup {None}, message : Messages]
  /\ resolved \in Types \cup {None}
  /\ dynamic \in Samples \cup {None}
  /\ fresh \in BOOLEAN
  /\ overdue \in BOOLEAN
  /\ outcome \in {"none", "ok", "error"}
  /\ ended \in {"idle", "session", "discover", "build", "create", "wait", "publish",
                "flush"}
  /\ disturbed \in BOOLEAN
  /\ sent \in Nat
  /\ waited \in BOOLEAN
  /\ counted \in Nat
  /\ delivered \in BOOLEAN
  /\ proven \subseteq Types
  /\ tally \in [{"statement", "change", "failure", "cancel"} -> Nat]

\* The cache holds exactly the publishers of statements that succeeded: a
\* publisher whose first flush was cut short is never reused with the short
\* flush of a proven one, and no statement that succeeded is forgotten.
CacheHoldsProven == publishers = proven

\* A statement that did not wait its full time, with a new publisher or with a
\* cached one, sent its sample after a subscription had matched; if that one is
\* still there, it got the sample.
ReachesCounted ==
  pc = "flush" =>
    waited \/ (counted # 0 /\ (delivered \/ subscribing[resolved] # counted))

\* Success is one sample sent.  An error means that none was, unless it came
\* while the sample was being flushed: repeating that statement sends twice.
OutcomeTellsSamples ==
  /\ outcome = "ok" => sent = 1
  /\ outcome = "error" => sent = 0 \/ (sent = 1 /\ ended = "flush")

\* A statement that names a type its message fits fails only if it is cancelled
\* or a call of rcl fails: neither what the graph advertises nor how earlier
\* statements of the backend ended can make it fail.
TypedSucceeds ==
  [][outcome' = "error" /\ request.kind # None
       /\ Build(request.kind, request.message) # {} => disturbed']_vars

\* Every statement ends, whether or not its topic ever gets a type or a
\* subscription.
StatementEnds == Running ~> ~Running
=============================================================================
