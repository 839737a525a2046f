------------------------- MODULE PublishSessionProofs -------------------------
(***************************************************************************)
(* Safety of publish, for all types and messages, whatever Build makes of  *)
(* them, and any number of statements, failures and cancellations.         *)
(***************************************************************************)
EXTENDS PublishSession, TLAPS

Events == {"statement", "change", "failure", "cancel"}

\* The places of a statement before and after its type is known.
Unresolved == {"idle", "session", "discover"}
Resolved == {"build", "create", "wait", "publish", "flush"}

\* The type invariant with what the places say of types and arguments.
TypeInv ==
  /\ TypeOK
  /\ pc \in Resolved => resolved \in Types
  /\ Running => request \in [kind : Types \cup {None}, message : Messages]
  /\ fresh => pc \in Resolved

\* Counting an event keeps the tally's type.
LEMMA CountType ==
  ASSUME tally \in [Events -> Nat], NEW event \in Events, NEW limit,
         Count(event, limit)
  PROVE  tally' \in [Events -> Nat]
BY DEF Count

\* The initial state has the declared types.
LEMMA InitTypeInv == Init => TypeInv
<1> SUFFICES ASSUME Init PROVE TypeInv
  OBVIOUS
<1>1. tally \in [Events -> Nat]
  BY DEF Init, Events
<1>2. subscribing \in [Types -> Nat] /\ matched \in [Types -> Nat]
  BY DEF Init
<1> QED BY <1>1, <1>2 DEF Init, TypeInv, TypeOK, Events, Resolved, Running

\* A statement that fails leaves the types in order.
LEMMA FailType ==
  ASSUME TypeInv, NEW disturbance \in BOOLEAN, Fail(disturbance),
         tally' \in [Events -> Nat]
  PROVE  TypeInv'
<1>1. matched' \in [Types -> Nat]
  BY DEF Fail, TypeInv, TypeOK
<1>2. request' = NoRequest /\ resolved' = None /\ dynamic' = None /\ fresh' = FALSE
      /\ overdue' = FALSE /\ ended' = pc /\ pc' = "idle" /\ outcome' = "error"
      /\ disturbed' = disturbance
  BY DEF Fail, EndStatement
<1>3. UNCHANGED <<publishing, subscribing, session, publishers, sent, waited, counted,
                  delivered, proven>>
  BY DEF Fail
<1> QED BY <1>1, <1>2, <1>3 DEF TypeInv, TypeOK, Events, Resolved, Running

\* Every step keeps the declared types.
LEMMA StepTypeInv == TypeInv /\ [Next]_vars => TypeInv'
<1> SUFFICES ASSUME TypeInv, [Next]_vars PROVE TypeInv'
  OBVIOUS
<1>0. tally \in [Events -> Nat]
  BY DEF TypeInv, TypeOK, Events
<1>1. CASE ChangePublishers
  <2>1. tally' \in [Events -> Nat]
    BY <1>0, <1>1, CountType DEF ChangePublishers, Events
  <2>2. publishing' \subseteq Types
    BY <1>1 DEF ChangePublishers
  <2> QED BY <1>1, <2>1, <2>2
      DEF ChangePublishers, TypeInv, TypeOK, Events, Running, statement, history
<1>2. ASSUME NEW kind \in Types, ChangeSubscription(kind) PROVE TypeInv'
  <2>1. tally' \in [Events -> Nat]
    BY <1>0, <1>2, CountType DEF ChangeSubscription, Events
  <2>2. tally["change"] + 2 \in Nat
    BY <1>0 DEF Events
  <2>3. subscribing' \in [Types -> Nat]
    BY <1>2, <2>2 DEF ChangeSubscription, TypeInv, TypeOK
  <2> QED BY <1>2, <2>1, <2>3
      DEF ChangeSubscription, TypeInv, TypeOK, Events, Running, statement, history
<1>3. ASSUME NEW kind \in Types, Notice(kind) PROVE TypeInv'
  <2>1. matched' \in [Types -> Nat]
    BY <1>3 DEF Notice, TypeInv, TypeOK
  <2> QED BY <1>3, <2>1 DEF Notice, TypeInv, TypeOK, Running, statement, history
<1>4. CASE Deadline
  BY <1>4 DEF Deadline, TypeInv, TypeOK, Running, graph, history
<1>5. CASE Publish
  <2>1. tally' \in [Events -> Nat]
    BY <1>0, <1>5, CountType DEF Publish, Events
  <2>2. request' \in [kind : Types \cup {None}, message : Messages]
    BY <1>5 DEF Publish
  <2> QED BY <1>5, <2>1, <2>2
      DEF Publish, TypeInv, TypeOK, Events, Resolved, Running, graph
<1>6. CASE CallFails \/ Cancelled
  <2>1. tally' \in [Events -> Nat] /\ Fail(TRUE)
    BY <1>0, <1>6, CountType DEF CallFails, Cancelled, Events
  <2> QED BY <2>1, FailType
<1>7. CASE DiscoverFails \/ BuildFails
  <2>1. tally' \in [Events -> Nat] /\ Fail(FALSE)
    BY <1>0, <1>7 DEF DiscoverFails, BuildFails
  <2> QED BY <2>1, FailType
<1>8. CASE EnterSession
  <2>1. /\ session' = TRUE /\ resolved' = request.kind /\ pc = "session"
        /\ pc' = IF request.kind = None THEN "discover" ELSE "build"
        /\ UNCHANGED <<graph, publishers, request, dynamic, fresh, overdue, history, tally>>
    BY <1>8 DEF EnterSession, AfterSession
  <2>2. request \in [kind : Types \cup {None}, message : Messages]
    BY <2>1 DEF TypeInv, Running
  <2>3. ~fresh
    BY <2>1 DEF TypeInv, Resolved
  <2> QED BY <2>1, <2>2, <2>3 DEF TypeInv, TypeOK, Resolved, Running, graph, history
<1>9. CASE Discover
  <2>1. /\ resolved' \in Types /\ pc = "discover" /\ pc' = "build" /\ overdue' = FALSE
        /\ UNCHANGED <<graph, session, publishers, request, dynamic, fresh, history, tally>>
    BY <1>9 DEF Discover
  <2> QED BY <2>1, ZenonT(60) DEF TypeInv, TypeOK, Resolved, Running, graph, history
<1>10. CASE BuildMessage
  <2>1. /\ dynamic' \in Build(resolved, request.message) /\ pc = "build"
        /\ pc' \in {"wait", "create"}
        /\ UNCHANGED <<graph, session, publishers, request, resolved, fresh, overdue,
                       history, tally>>
    BY <1>10 DEF BuildMessage
  <2>2. resolved \in Types /\ request.message \in Messages
    BY <2>1 DEF TypeInv, Resolved, Running
  <2>3. dynamic' \in Samples
    BY <2>1, <2>2 DEF Samples
  <2> QED BY <2>1, <2>2, <2>3 DEF TypeInv, TypeOK, Resolved, Running, graph, history
<1>11. CASE CreatePublisher
  BY <1>11 DEF CreatePublisher, Following, TypeInv, TypeOK, Resolved, Running, graph,
    history
<1>12. CASE WaitForSubscriber
  <2>1. resolved \in Types
    BY <1>12 DEF WaitForSubscriber, TypeInv, Resolved
  <2>2. counted' \in Nat
    BY <1>12, <2>1 DEF WaitForSubscriber, TypeInv, TypeOK
  <2> QED BY <1>12, <2>2
      DEF WaitForSubscriber, Following, TypeInv, TypeOK, Resolved, Running, graph,
        statement
<1>13. CASE PublishSample
  <2>1. /\ sent' = sent + 1 /\ delivered' \in BOOLEAN /\ overdue' = FALSE
        /\ publishers' = publishers /\ pc = "publish" /\ pc' = "flush"
        /\ UNCHANGED <<graph, session, request, resolved, dynamic, fresh, outcome, ended,
                       disturbed, waited, counted, proven, tally>>
    BY <1>13 DEF PublishSample, Cached, Following
  <2>2. sent' \in Nat
    BY <2>1 DEF TypeInv, TypeOK
  <2>3. /\ request \in [kind : Types \cup {None}, message : Messages]
        /\ resolved \in Types
    BY <2>1 DEF TypeInv, Resolved, Running
  <2>4. UNCHANGED <<publishing, subscribing, matched, session, publishers, request,
                    resolved, dynamic, fresh, outcome, ended, disturbed, waited, counted,
                    proven, tally>>
    BY <2>1 DEF graph
  <2>5. delivered' \in BOOLEAN /\ overdue' \in BOOLEAN
    BY <2>1
  <2> QED BY <2>1, <2>2, <2>3, <2>4, <2>5 DEF TypeInv, TypeOK, Resolved, Running, graph
<1>14. CASE Return
  <2>1. resolved \in Types
    BY <1>14 DEF Return, TypeInv, Resolved
  <2> QED BY <1>14, <2>1
      DEF Return, EndStatement, Cached, TypeInv, TypeOK, Resolved, Running, graph
<1>15. CASE UNCHANGED vars
  BY <1>15 DEF vars, graph, statement, history, TypeInv, TypeOK, Running
<1> QED BY <1>1, <1>2, <1>3, <1>4, <1>5, <1>6, <1>7, <1>8, <1>9, <1>10, <1>11, <1>12,
           <1>13, <1>14, <1>15 DEF Next, Statement

\* Every variable of every reachable state keeps its type.
THEOREM TypeCorrect == Spec => []TypeOK
<1>1. TypeInv => TypeOK
  BY DEF TypeInv
<1> QED BY <1>1, InitTypeInv, StepTypeInv, PTL DEF Spec

-----------------------------------------------------------------------------
(* The cache                                                               *)

\* Only a statement that returns caches its publisher.
LEMMA StepCache == CacheHoldsProven /\ [Next]_vars => CacheHoldsProven'
<1> SUFFICES ASSUME CacheHoldsProven, [Next]_vars PROVE CacheHoldsProven'
  OBVIOUS
<1>1. CASE Return
  BY <1>1 DEF Return, Cached, CacheHoldsProven
<1>2. CASE PublishSample
  BY <1>2 DEF PublishSample, Cached, CacheHoldsProven
<1>3. CASE Publish
  BY <1>3 DEF Publish, CacheHoldsProven
<1>4. CASE CallFails \/ Cancelled \/ DiscoverFails \/ BuildFails
  BY <1>4 DEF CallFails, Cancelled, DiscoverFails, BuildFails, Fail, CacheHoldsProven
<1>5. CASE WaitForSubscriber
  BY <1>5 DEF WaitForSubscriber, CacheHoldsProven
<1>6. CASE ~(Return \/ PublishSample \/ Publish \/ WaitForSubscriber \/ CallFails
             \/ Cancelled \/ DiscoverFails \/ BuildFails)
  BY <1>6 DEF Next, Statement, ChangePublishers, ChangeSubscription, Notice, Deadline,
    EnterSession, Discover, BuildMessage, CreatePublisher, vars, history,
    CacheHoldsProven
<1> QED BY <1>1, <1>2, <1>3, <1>4, <1>5, <1>6

\* The cached publishers are those whose first sample was flushed in full.
THEOREM CacheProven == Spec => []CacheHoldsProven
<1>1. Init => CacheHoldsProven
  BY DEF Init, CacheHoldsProven
<1> QED BY <1>1, StepCache, PTL DEF Spec

-----------------------------------------------------------------------------
(* What a statement has sent                                               *)

\* No sample before its place, one after it, and no outcome before the end.
SampleInv ==
  /\ Running => outcome = "none"
  /\ pc \in {"session", "discover", "build", "create", "wait", "publish"} => sent = 0
  /\ pc = "flush" => sent = 1
  /\ OutcomeTellsSamples

\* An error says where it came, and before the flush nothing was sent.
LEMMA FailSample ==
  ASSUME TypeInv, SampleInv, NEW disturbance, Fail(disturbance), Running
  PROVE  SampleInv'
<1>1. /\ pc' = "idle" /\ outcome' = "error" /\ ended' = pc /\ sent' = sent
  BY DEF Fail, EndStatement
<1>2. sent = 0 \/ (sent = 1 /\ pc = "flush")
  BY DEF SampleInv, TypeInv, TypeOK, Running
<1> QED BY <1>1, <1>2 DEF SampleInv, OutcomeTellsSamples, Running

\* Every step sends at most the one sample.
LEMMA StepSample == TypeInv /\ SampleInv /\ [Next]_vars => SampleInv'
<1> SUFFICES ASSUME TypeInv, SampleInv, [Next]_vars PROVE SampleInv'
  OBVIOUS
<1>1. CASE \/ ChangePublishers \/ Deadline \/ UNCHANGED vars
           \/ \E kind \in Types : ChangeSubscription(kind) \/ Notice(kind)
  <2>1. UNCHANGED <<pc, history>>
    BY <1>1 DEF ChangePublishers, Deadline, ChangeSubscription, Notice, vars
  <2> QED BY <2>1 DEF SampleInv, OutcomeTellsSamples, Running, history
<1>2. CASE Publish
  BY <1>2 DEF Publish, SampleInv, OutcomeTellsSamples, Running
<1>3. CASE CallFails \/ Cancelled \/ DiscoverFails \/ BuildFails
  <2>1. Running /\ (Fail(TRUE) \/ Fail(FALSE))
    BY <1>3 DEF CallFails, Cancelled, DiscoverFails, BuildFails, Running
  <2> QED BY <2>1, FailSample
<1>4. CASE EnterSession \/ Discover \/ BuildMessage \/ CreatePublisher
  <2>1. /\ UNCHANGED history
        /\ pc \in {"session", "discover", "build", "create"}
        /\ pc' \in {"discover", "build", "create", "wait"}
    BY <1>4 DEF EnterSession, AfterSession, Discover, BuildMessage, CreatePublisher,
      Following
  <2> QED BY <2>1 DEF SampleInv, OutcomeTellsSamples, Running, history
<1>5. CASE WaitForSubscriber
  BY <1>5 DEF WaitForSubscriber, Following, SampleInv, OutcomeTellsSamples, Running
<1>6. CASE PublishSample
  <2>1. /\ sent = 0 /\ sent' = sent + 1 /\ pc' = "flush" /\ pc = "publish"
        /\ outcome = "none" /\ UNCHANGED <<outcome, ended>>
    BY <1>6 DEF PublishSample, Following, SampleInv, Running
  <2> QED BY <2>1 DEF SampleInv, OutcomeTellsSamples, Running
<1>7. CASE Return
  <2>1. sent = 1 /\ sent' = sent /\ pc' = "idle" /\ outcome' = "ok"
    BY <1>7 DEF Return, EndStatement, SampleInv
  <2> QED BY <2>1 DEF SampleInv, OutcomeTellsSamples, Running
<1> QED BY <1>1, <1>2, <1>3, <1>4, <1>5, <1>6, <1>7 DEF Next, Statement

\* Success is one sample sent, an error none unless the flush was cut short.
THEOREM OutcomeTrue == Spec => []OutcomeTellsSamples
<1>1. Init => SampleInv
  BY DEF Init, SampleInv, OutcomeTellsSamples, Running
<1>2. SampleInv => OutcomeTellsSamples
  BY DEF SampleInv
<1> QED BY <1>1, <1>2, InitTypeInv, StepTypeInv, StepSample, PTL DEF Spec

-----------------------------------------------------------------------------
(* Statements that name their type                                         *)

\* A type that was given is the type in use, and is not looked up.
TypedInv ==
  /\ pc = "discover" => request.kind = None
  /\ pc = "idle" => request = NoRequest
  /\ pc = "build" /\ request.kind # None => resolved = request.kind

\* Every step keeps to the type given.
LEMMA StepTyped == TypedInv /\ [Next]_vars => TypedInv'
<1> SUFFICES ASSUME TypedInv, [Next]_vars PROVE TypedInv'
  OBVIOUS
<1>1. CASE \/ ChangePublishers \/ Deadline \/ UNCHANGED vars
           \/ \E kind \in Types : ChangeSubscription(kind) \/ Notice(kind)
  BY <1>1 DEF ChangePublishers, Deadline, ChangeSubscription, Notice, vars, statement,
    TypedInv
<1>2. CASE Publish
  BY <1>2 DEF Publish, TypedInv
<1>3. CASE CallFails \/ Cancelled \/ DiscoverFails \/ BuildFails \/ Return
  BY <1>3 DEF CallFails, Cancelled, DiscoverFails, BuildFails, Return, Fail,
    EndStatement, TypedInv
<1>4. CASE EnterSession
  BY <1>4 DEF EnterSession, AfterSession, TypedInv
<1>5. CASE Discover
  BY <1>5 DEF Discover, TypedInv
<1>6. CASE BuildMessage \/ CreatePublisher \/ WaitForSubscriber \/ PublishSample
  BY <1>6 DEF BuildMessage, CreatePublisher, WaitForSubscriber, PublishSample,
    Following, TypedInv
<1> QED BY <1>1, <1>2, <1>3, <1>4, <1>5, <1>6 DEF Next, Statement

\* Neither the graph nor the backend's past makes a statement fail that names a
\* type its message fits.
THEOREM TypedStatements == Spec => TypedSucceeds
<1> DEFINE Step == outcome' = "error" /\ request.kind # None
                     /\ Build(request.kind, request.message) # {} => disturbed'
<1>1. Init => TypedInv
  BY DEF Init, TypedInv
<1>2. Init => SampleInv
  BY DEF Init, SampleInv, OutcomeTellsSamples, Running
<1>3. TypedInv /\ SampleInv /\ [Next]_vars => [Step]_vars
  <2> SUFFICES ASSUME TypedInv, SampleInv, Next, outcome' = "error",
                      request.kind # None, Build(request.kind, request.message) # {}
               PROVE  disturbed'
    OBVIOUS
  <2>1. pc # "idle" /\ outcome = "none"
    BY DEF TypedInv, NoRequest, SampleInv, Running
  <2>2. ~BuildFails
    BY DEF BuildFails, TypedInv
  <2>3. ~DiscoverFails
    BY DEF DiscoverFails, TypedInv
  <2>4. CallFails \/ Cancelled => disturbed' = TRUE
    BY DEF CallFails, Cancelled, Fail
  <2>5. CallFails \/ Cancelled
    BY <2>1, <2>2, <2>3 DEF Next, Statement, ChangePublishers, ChangeSubscription, Notice,
      Deadline, Publish, EnterSession, Discover, BuildMessage, CreatePublisher,
      WaitForSubscriber, PublishSample, Return, history
  <2> QED BY <2>4, <2>5
<1> QED BY <1>1, <1>2, <1>3, InitTypeInv, StepTypeInv, StepSample, StepTyped, PTL
    DEF Spec, TypedSucceeds

-----------------------------------------------------------------------------
(* Whom a sample reaches                                                   *)

\* Subscriptions are numbered in the order they appear.
Newest == tally["change"] + 1
NumbersInv ==
  /\ \A kind \in Types : subscribing[kind] <= Newest /\ matched[kind] <= Newest
  /\ counted <= Newest

\* The subscription that ended the wait, if it is still there, is still matched
\* when the sample is sent and has got it afterwards.
ReachInv ==
  /\ pc \in {"publish", "flush"} => waited \/ counted # 0
  /\ pc = "publish" /\ counted # 0 /\ subscribing[resolved] = counted =>
       matched[resolved] = counted
  /\ ReachesCounted

\* Every step keeps the numbers below the next one.
LEMMA StepNumbers == TypeInv /\ NumbersInv /\ [Next]_vars => NumbersInv'
<1> SUFFICES ASSUME TypeInv, NumbersInv, [Next]_vars PROVE NumbersInv'
  OBVIOUS
<1>0. /\ tally \in [Events -> Nat] /\ tally["change"] \in Nat /\ counted \in Nat
      /\ subscribing \in [Types -> Nat] /\ matched \in [Types -> Nat]
  BY DEF TypeInv, TypeOK, Events
<1>1. CASE ChangePublishers
  <2>1. tally'["change"] = tally["change"] + 1
    BY <1>0, <1>1 DEF ChangePublishers, Count, Events
  <2>2. UNCHANGED <<subscribing, matched, counted>>
    BY <1>1 DEF ChangePublishers, history
  <2> QED BY <1>0, <2>1, <2>2 DEF NumbersInv, Newest
<1>2. ASSUME NEW kind \in Types, ChangeSubscription(kind) PROVE NumbersInv'
  <2>1. tally'["change"] = tally["change"] + 1
    BY <1>0, <1>2 DEF ChangeSubscription, Count, Events
  <2>2. UNCHANGED <<matched, counted>>
    BY <1>2 DEF ChangeSubscription, history
  <2>3. \E new \in {0, tally["change"] + 2} :
          subscribing' = [subscribing EXCEPT ![kind] = new]
    BY <1>2 DEF ChangeSubscription
  <2> QED BY <1>0, <2>1, <2>2, <2>3 DEF NumbersInv, Newest
<1>3. ASSUME NEW kind \in Types, Notice(kind) PROVE NumbersInv'
  <2>1. /\ matched' = [matched EXCEPT ![kind] = subscribing[kind]]
        /\ UNCHANGED <<subscribing, counted, tally>>
    BY <1>3 DEF Notice, history
  <2> QED BY <1>0, <2>1 DEF NumbersInv, Newest
<1>4. CASE Publish
  <2>1. tally'["change"] = tally["change"]
    BY <1>0, <1>4 DEF Publish, Count, Events
  <2>2. counted' = 0 /\ UNCHANGED <<subscribing, matched>>
    BY <1>4 DEF Publish, graph
  <2> QED BY <1>0, <2>1, <2>2 DEF NumbersInv, Newest
<1>5. CASE CallFails \/ Cancelled \/ DiscoverFails \/ BuildFails
  <2>1. tally'["change"] = tally["change"]
    BY <1>0, <1>5 DEF CallFails, Cancelled, DiscoverFails, BuildFails, Count, Events
  <2>2. /\ UNCHANGED <<subscribing, counted>>
        /\ matched' = IF fresh THEN [matched EXCEPT ![resolved] = 0] ELSE matched
    BY <1>5 DEF CallFails, Cancelled, DiscoverFails, BuildFails, Fail
  <2>3. \A kind \in Types : matched'[kind] \in {0, matched[kind]}
    BY <1>0, <2>2
  <2> QED BY <1>0, <2>1, <2>2, <2>3 DEF NumbersInv, Newest
<1>6. CASE WaitForSubscriber
  <2>1. resolved \in Types
    BY <1>6 DEF WaitForSubscriber, TypeInv, Resolved
  <2> QED BY <1>6, <2>1 DEF WaitForSubscriber, NumbersInv, Newest, graph
<1>7. CASE \/ Deadline \/ EnterSession \/ Discover \/ BuildMessage \/ CreatePublisher
           \/ PublishSample \/ Return \/ UNCHANGED vars
  <2>1. UNCHANGED <<subscribing, matched, counted, tally>>
    BY <1>7 DEF Deadline, EnterSession, Discover, BuildMessage, CreatePublisher,
      PublishSample, Return, vars, graph, history
  <2> QED BY <2>1 DEF NumbersInv, Newest
<1> QED BY <1>1, <1>2, <1>3, <1>4, <1>5, <1>6, <1>7 DEF Next, Statement

\* Every step keeps what is said of the counted subscription.
LEMMA StepReach ==
  TypeInv /\ NumbersInv /\ ReachInv /\ [Next]_vars => ReachInv'
<1> SUFFICES ASSUME TypeInv, NumbersInv, ReachInv, [Next]_vars PROVE ReachInv'
  OBVIOUS
<1>0. /\ tally["change"] \in Nat /\ counted \in Nat
      /\ subscribing \in [Types -> Nat] /\ matched \in [Types -> Nat]
      /\ pc \in {"publish", "flush"} => resolved \in Types
  BY DEF TypeInv, TypeOK, Resolved
<1>1. CASE ChangePublishers \/ Deadline \/ UNCHANGED vars
  BY <1>1 DEF ChangePublishers, Deadline, vars, graph, history, statement, ReachInv,
    ReachesCounted
<1>2. ASSUME NEW kind \in Types, ChangeSubscription(kind) PROVE ReachInv'
  <2>1. UNCHANGED <<matched, pc, resolved, waited, counted, delivered>>
    BY <1>2 DEF ChangeSubscription, history, statement
  <2>2. subscribing'[kind] \in {0, tally["change"] + 2}
        /\ \A other \in Types \ {kind} : subscribing'[other] = subscribing[other]
    BY <1>0, <1>2 DEF ChangeSubscription
  <2>3. pc \in {"publish", "flush"} /\ counted # 0 /\ subscribing'[resolved] = counted =>
          subscribing[resolved] = counted
    BY <1>0, <2>2 DEF NumbersInv, Newest
  <2> QED BY <2>1, <2>3 DEF ReachInv, ReachesCounted
<1>3. ASSUME NEW kind \in Types, Notice(kind) PROVE ReachInv'
  <2>1. /\ matched' = [matched EXCEPT ![kind] = subscribing[kind]]
        /\ UNCHANGED <<subscribing, pc, resolved, waited, counted, delivered>>
    BY <1>3 DEF Notice, history, statement
  <2>2. pc = "publish" /\ counted # 0 /\ subscribing[resolved] = counted =>
          matched'[resolved] = counted
    BY <1>0, <2>1 DEF ReachInv
  <2> QED BY <2>1, <2>2 DEF ReachInv, ReachesCounted
<1>4. CASE \/ Publish \/ CallFails \/ Cancelled \/ EnterSession \/ Discover
           \/ DiscoverFails \/ BuildMessage \/ BuildFails \/ CreatePublisher \/ Return
  <2>1. pc' \notin {"publish", "flush"}
    BY <1>4 DEF Publish, CallFails, Cancelled, EnterSession, AfterSession, Discover,
      DiscoverFails, BuildMessage, BuildFails, CreatePublisher, Return, Fail,
      EndStatement, Following
  <2> QED BY <2>1 DEF ReachInv, ReachesCounted
<1>5. CASE WaitForSubscriber
  <2>1. /\ matched[resolved] # 0 \/ overdue
        /\ counted' = matched[resolved] /\ waited' = overdue /\ pc' = "publish"
        /\ UNCHANGED <<subscribing, matched, resolved>>
    BY <1>5 DEF WaitForSubscriber, WaitEnds, Following, graph, statement
  <2> QED BY <2>1 DEF ReachInv, ReachesCounted
<1>6. CASE PublishSample
  <2>1. /\ pc = "publish" /\ pc' = "flush"
        /\ delivered' = (matched[resolved] # 0 /\ matched[resolved] = subscribing[resolved])
        /\ UNCHANGED <<subscribing, matched, resolved, waited, counted>>
    BY <1>6 DEF PublishSample, Following, graph
  <2>2. waited \/ counted # 0
    BY <2>1 DEF ReachInv
  <2>3. counted # 0 /\ subscribing[resolved] = counted => delivered'
    BY <2>1 DEF ReachInv
  <2> QED BY <2>1, <2>2, <2>3 DEF ReachInv, ReachesCounted
<1> QED BY <1>1, <1>2, <1>3, <1>4, <1>5, <1>6 DEF Next, Statement

\* A sample sent before the wait was over reaches the subscription that ended
\* it, unless that one has left.
THEOREM CountedReached == Spec => []ReachesCounted
<1>1. Init => NumbersInv /\ ReachInv
  BY DEF Init, NumbersInv, Newest, ReachInv, ReachesCounted
<1>2. ReachInv => ReachesCounted
  BY DEF ReachInv
<1> QED BY <1>1, <1>2, InitTypeInv, StepTypeInv, StepNumbers, StepReach, PTL DEF Spec
=============================================================================
