------------------------ MODULE NotifySubscriberProofs ------------------------
(***************************************************************************)
(* Safety of CALL subscribe, for every queue, batch and number of messages *)
(* and calls: type correctness, that every message received is in exactly  *)
(* one place, that a pass leaves nothing behind, and that the call is a    *)
(* lossy channel (LossyChannel).                                           *)
(***************************************************************************)
EXTENDS NotifySubscriber, SequenceTheorems, FiniteSetTheorems, TLAPS

Events == {"call", "change"}

\* Counting an event keeps the tally's type.
LEMMA CountType ==
  ASSUME tally \in [Events -> Nat], NEW event \in Events, NEW limit,
         Count(event, limit)
  PROVE  tally' \in [Events -> Nat]
BY DEF Count

\* Without a call everything is as before the first one.
LEMMA NoCallType ==
  ASSUME NoCall
  PROVE  /\ subscription' \in Loadable \cup {None}
         /\ sequence' \in Nat
         /\ queue' \in Seq(Item) /\ Len(queue') <= QUEUE
         /\ dropped' \in Nat /\ encoding_errors' \in Nat
         /\ discovery_due' \in BOOLEAN /\ report_due' \in BOOLEAN
         /\ taken' \in Nat /\ notified' \in BOOLEAN
         /\ transaction' \subseteq Nat
<1>1. queue' = <<>> /\ <<>> \in Seq(Item) /\ Len(<<>>) = 0
  BY EmptySeq DEF NoCall
<1>2. queue' \in Seq(Item) /\ Len(queue') <= QUEUE
  BY <1>1, NotifyAssumption
<1> QED BY <1>2 DEF NoCall

\* The callback keeps the types of what it changes.
LEMMA EnqueueType ==
  ASSUME TypeOK, NEW ok \in BOOLEAN, Enqueue(ok)
  PROVE  /\ queue' \in Seq(Item) /\ Len(queue') <= QUEUE
         /\ dropped' \in Nat /\ lost' \subseteq Nat
<1> DEFINE item == [sequence |-> sequence, ok |-> ok]
<1>1. item \in Item
  BY DEF TypeOK, Item
<1>2. CASE Len(queue) < QUEUE
  <2>1. queue' = Append(queue, item) /\ UNCHANGED <<dropped, lost>>
    BY <1>2 DEF Enqueue
  <2>2. queue' \in Seq(Item) /\ Len(queue') = Len(queue) + 1
    BY <1>1, <2>1, AppendProperties DEF TypeOK
  <2> QED BY <1>2, <2>1, <2>2, NotifyAssumption, LenProperties DEF TypeOK
<1>3. CASE ~(Len(queue) < QUEUE)
  <2>1. queue' = queue /\ dropped' = dropped + 1 /\ lost' = lost \cup {sequence}
    BY <1>3 DEF Enqueue
  <2> QED BY <2>1 DEF TypeOK
<1> QED BY <1>2, <1>3

\* The head and the tail of a queue that is not empty.
LEMMA QueueParts ==
  ASSUME TypeOK, queue # <<>>
  PROVE  /\ Head(queue) \in Item
         /\ Tail(queue) \in Seq(Item)
         /\ Len(queue) \in Nat \ {0}
         /\ Len(Tail(queue)) = Len(queue) - 1
         /\ \A i \in 1..Len(Tail(queue)) : Tail(queue)[i] = queue[i + 1]
         /\ Head(queue) = queue[1]
<1>1. queue \in Seq(Item)
  BY DEF TypeOK
<1> QED BY <1>1, HeadTailProperties, EmptySeq, LenProperties

\* One payload of the pass is a notification or a counted loss.
LEMMA DrainOneType ==
  ASSUME TypeOK, DrainOne, Head(queue).sequence \in Nat
  PROVE  /\ transaction' \subseteq Nat /\ lost' \subseteq Nat
         /\ encoding_errors' \in Nat
<1> DEFINE number == Head(queue).sequence
<1>1. transaction \subseteq Nat /\ lost \subseteq Nat /\ encoding_errors \in Nat
  BY DEF TypeOK
<1>2. number \in Nat
  OBVIOUS
<1>3. \/ /\ transaction' = transaction \cup {number}
         /\ encoding_errors' = encoding_errors /\ lost' = lost
      \/ /\ encoding_errors' = encoding_errors + 1
         /\ lost' = lost \cup {number}
         /\ transaction' = transaction
  BY DEF DrainOne
<1> HIDE DEF number
<1>4. transaction' \subseteq Nat
  BY <1>1, <1>2, <1>3
<1>5. lost' \subseteq Nat
  BY <1>1, <1>2, <1>3
<1>6. encoding_errors' \in Nat
  BY <1>1, <1>3
<1> QED BY <1>4, <1>5, <1>6

\* The initial state has the declared types.
LEMMA InitTypeOK == Init => TypeOK
<1> SUFFICES ASSUME Init PROVE TypeOK
  OBVIOUS
<1>1. tally \in [Events -> Nat]
  BY DEF Init, Events
<1>2. queue \in Seq(Item) /\ Len(queue) <= QUEUE
  BY NotifyAssumption DEF Init
<1> QED BY <1>1, <1>2 DEF Init, TypeOK, Events

\* Every step keeps the declared types.
LEMMA StepTypeOK == TypeOK /\ [Next]_vars => TypeOK'
<1> SUFFICES ASSUME TypeOK, [Next]_vars PROVE TypeOK'
  OBVIOUS
<1> USE DEF TypeOK
<1>1. CASE ChangeTypes
  <2>1. tally' \in [Events -> Nat]
    BY <1>1, CountType DEF ChangeTypes, Events
  <2> QED BY <1>1, <2>1 DEF ChangeTypes, Events, counters, timers, history
<1>2. CASE DiscoveryDue \/ ReportDue
  BY <1>2 DEF DiscoveryDue, ReportDue, counters, history
<1>3. CASE CallSubscribe
  <2>1. tally' \in [Events -> Nat]
    BY <1>3, CountType DEF CallSubscribe, Events
  <2> QED BY <1>3, <2>1, NoCallType DEF CallSubscribe, Events
<1>4. CASE Interrupted \/ DiscoverFails
  BY <1>4, NoCallType DEF Interrupted, DiscoverFails, EndCall, history
<1>5. CASE Receive
  <2>1. PICK ok \in BOOLEAN : Enqueue(ok) /\ sequence' = NextSequence(ok)
    BY <1>5 DEF Receive
  <2> QED BY <1>5, <2>1, EnqueueType DEF Receive, NextSequence, timers
<1>6. CASE CheckInterrupts \/ EndSpin \/ SkipReport
  BY <1>6 DEF CheckInterrupts, EndSpin, SkipReport, counters, timers, history
<1>7. CASE Discover
  BY <1>7 DEF Discover, counters, history
<1>8. CASE DrainOne
  <2>1. Head(queue).sequence \in Nat /\ Head(queue).ok \in BOOLEAN
    BY <1>8, QueueParts DEF DrainOne, Item
  <2>2. queue' \in Seq(Item) /\ Len(queue') <= QUEUE
    BY <1>8, QueueParts, NotifyAssumption DEF DrainOne
  <2>3. /\ transaction' \subseteq Nat /\ lost' \subseteq Nat
        /\ encoding_errors' \in Nat
    BY <1>8, <2>1, DrainOneType
  <2>4. notified' \in BOOLEAN
    BY <1>8, <2>1 DEF DrainOne, Notified
  <2> QED BY <1>8, <2>2, <2>3, <2>4 DEF DrainOne, timers
<1>9. CASE EndDrain
  BY <1>9 DEF EndDrain, counters, timers, history
<1>10. CASE Commit
  BY <1>10 DEF Commit, counters, timers
<1>11. CASE Report
  <2>1. reported' \in Nat /\ dropped' = 0 /\ encoding_errors' = 0 /\ report_due' = FALSE
        /\ pc' = "check"
    BY <1>11 DEF Report, Reported
  <2>2. UNCHANGED <<advertised, subscription, sequence, queue, discovery_due, taken,
                    notified, transaction, received, committed, lost, tally>>
    BY <1>11 DEF Report
  <2> QED BY <2>1, <2>2
<1>12. CASE UNCHANGED vars
  BY <1>12 DEF vars, counters, timers, history
<1> QED BY <1>1, <1>2, <1>3, <1>4, <1>5, <1>6, <1>7, <1>8, <1>9, <1>10, <1>11, <1>12
    DEF Next, Loop

\* Every variable of every reachable state keeps its type, and the queue its
\* bound.
THEOREM TypeCorrect == Spec => []TypeOK
BY InitTypeOK, StepTypeOK, PTL DEF Spec

-----------------------------------------------------------------------------
(* Where the messages are                                                  *)

Numbers == 0..(received - 1)

\* The places of a message, and the counters of the losses.
Placed ==
  /\ committed \cup transaction \cup Queued \cup lost = Numbers
  /\ committed \cap (transaction \cup Queued \cup lost) = {}
  /\ transaction \cap (Queued \cup lost) = {}
  /\ Queued \cap lost = {}

\* What makes it inductive: the next number is one nobody has had, the queue
\* holds no number twice, and the lost are finitely many.
Accounted ==
  /\ sequence = received
  /\ Placed
  /\ \A i, j \in 1..Len(queue) : queue[i].sequence = queue[j].sequence => i = j
  /\ IsFiniteSet(lost)
  /\ reported + dropped + encoding_errors = Cardinality(lost)

AccountedInv == Running => Accounted

\* One more loss.
LEMMA OneMoreLost ==
  ASSUME NEW number \in Nat, IsFiniteSet(lost), number \notin lost,
         lost' = lost \cup {number}
  PROVE  IsFiniteSet(lost') /\ Cardinality(lost') = Cardinality(lost) + 1
BY FS_AddElement

\* A message that finds room is the last of the queue.
LEMMA EnqueueQueued ==
  ASSUME TypeOK, Accounted, NEW ok \in BOOLEAN, Enqueue(ok), Len(queue) < QUEUE
  PROVE  /\ Queued' = Queued \cup {sequence}
         /\ \A i, j \in 1..Len(queue') :
              queue'[i].sequence = queue'[j].sequence => i = j
<1> DEFINE item == [sequence |-> sequence, ok |-> ok]
<1>1. /\ queue' = Append(queue, item)
      /\ queue \in Seq(Item) /\ item \in Item /\ item.sequence = sequence
  BY DEF Enqueue, TypeOK, Item
<1> HIDE DEF item
<1>2. /\ Len(queue) \in Nat /\ Len(queue') = Len(queue) + 1
      /\ queue'[Len(queue) + 1] = item
      /\ \A i \in 1..Len(queue) : queue'[i] = queue[i]
  BY <1>1, AppendProperties, LenProperties
<1>3. \A i \in 1..Len(queue) : queue[i].sequence # sequence
  <2>1. Queued \subseteq Numbers
    BY DEF Accounted, Placed
  <2>2. sequence \notin Numbers
    BY DEF Numbers, Accounted, TypeOK
  <2>3. \A i \in 1..Len(queue) : queue[i].sequence \in Queued
    BY DEF Queued
  <2> QED BY <2>1, <2>2, <2>3, Zenon
<1>4. Queued' = Queued \cup {sequence}
  <2>1. Queued' = {queue'[i].sequence : i \in 1..Len(queue')}
    BY DEF Queued
  <2>2. 1..Len(queue') = (1..Len(queue)) \cup {Len(queue) + 1}
    BY <1>2
  <2> QED BY <1>1, <1>2, <2>1, <2>2 DEF Queued
<1>5. \A i, j \in 1..Len(queue') :
        queue'[i].sequence = queue'[j].sequence => i = j
  BY <1>1, <1>2, <1>3 DEF Accounted
<1> QED BY <1>4, <1>5

\* Taking the first payload leaves the others.
LEMMA TailQueued ==
  ASSUME TypeOK, Accounted, queue # <<>>, queue' = Tail(queue)
  PROVE  /\ Queued' = Queued \ {Head(queue).sequence}
         /\ Head(queue).sequence \in Queued
         /\ \A i, j \in 1..Len(queue') :
              queue'[i].sequence = queue'[j].sequence => i = j
<1>1. /\ Len(queue) \in Nat \ {0} /\ Len(queue') = Len(queue) - 1
      /\ \A i \in 1..Len(queue') : queue'[i] = queue[i + 1]
      /\ Head(queue) = queue[1]
  BY QueueParts
<1>2. \A i, j \in 1..Len(queue) : queue[i].sequence = queue[j].sequence => i = j
  BY DEF Accounted
<1>3. Queued' = {queue'[i].sequence : i \in 1..Len(queue')}
  BY DEF Queued
<1>4. Head(queue).sequence \in Queued
  BY <1>1 DEF Queued
<1>5. Queued' \subseteq Queued \ {Head(queue).sequence}
  <2> SUFFICES ASSUME NEW i \in 1..Len(queue')
               PROVE  /\ queue'[i].sequence \in Queued
                      /\ queue'[i].sequence # Head(queue).sequence
    BY <1>3
  <2>1. i + 1 \in 1..Len(queue) /\ 1 \in 1..Len(queue) /\ i + 1 # 1
    BY <1>1
  <2> QED BY <1>1, <1>2, <2>1 DEF Queued
<1>6. Queued \ {Head(queue).sequence} \subseteq Queued'
  <2> SUFFICES ASSUME NEW i \in 1..Len(queue),
                      queue[i].sequence # Head(queue).sequence
               PROVE  queue[i].sequence \in Queued'
    BY DEF Queued
  <2>1. i # 1 /\ i - 1 \in 1..Len(queue') /\ (i - 1) + 1 = i
    BY <1>1
  <2> QED BY <1>1, <1>3, <2>1
<1>7. \A i, j \in 1..Len(queue') :
        queue'[i].sequence = queue'[j].sequence => i = j
  <2> SUFFICES ASSUME NEW i \in 1..Len(queue'), NEW j \in 1..Len(queue'),
                      queue'[i].sequence = queue'[j].sequence
               PROVE  i = j
    OBVIOUS
  <2>1. i + 1 \in 1..Len(queue) /\ j + 1 \in 1..Len(queue)
    BY <1>1
  <2> QED BY <1>1, <1>2, <2>1
<1> QED BY <1>4, <1>5, <1>6, <1>7

\* Steps that move no message.
LEMMA AccountedKept ==
  ASSUME Accounted,
         UNCHANGED <<sequence, received, committed, transaction, queue, lost, reported,
                     dropped, encoding_errors>>
  PROVE  Accounted'
BY DEF Accounted, Placed, Numbers, Queued

\* A message that is received goes to the queue or is lost.
LEMMA ReceiveAccounted == TypeOK /\ Accounted /\ Receive => Accounted'
<1> SUFFICES ASSUME TypeOK, Accounted, Receive PROVE Accounted'
  OBVIOUS
<1>1. PICK ok \in BOOLEAN : Enqueue(ok) /\ sequence' = sequence + 1
  BY DEF Receive, NextSequence
<1>2. /\ received' = received + 1 /\ sequence = received /\ received \in Nat
      /\ committed' = committed /\ transaction' = transaction
      /\ encoding_errors' = encoding_errors /\ reported' = reported
  BY DEF Receive, Accounted, TypeOK
<1>3. Numbers' = Numbers \cup {sequence} /\ sequence \notin Numbers
  BY <1>2 DEF Numbers
<1>4. CASE Len(queue) < QUEUE
  <2>1. lost' = lost /\ dropped' = dropped
    BY <1>1, <1>4 DEF Enqueue
  <2>2. /\ Queued' = Queued \cup {sequence}
        /\ \A i, j \in 1..Len(queue') :
             queue'[i].sequence = queue'[j].sequence => i = j
    BY <1>1, <1>4, EnqueueQueued
  <2>3. Placed'
    BY <1>2, <1>3, <2>1, <2>2 DEF Accounted, Placed
  <2> QED BY <1>1, <1>2, <2>1, <2>2, <2>3 DEF Accounted
<1>5. CASE ~(Len(queue) < QUEUE)
  <2>1. lost' = lost \cup {sequence} /\ dropped' = dropped + 1 /\ queue' = queue
    BY <1>1, <1>5 DEF Enqueue
  <2>2. Queued' = Queued
    BY <2>1 DEF Queued
  <2>3. Placed'
    BY <1>2, <1>3, <2>1, <2>2 DEF Accounted, Placed
  <2>4. sequence \in Nat /\ sequence \notin lost /\ IsFiniteSet(lost)
    BY <1>2, <1>3 DEF Accounted, Placed
  <2>5. IsFiniteSet(lost') /\ Cardinality(lost') = Cardinality(lost) + 1
    BY <2>1, <2>4, OneMoreLost
  <2>6. reported' + dropped' + encoding_errors' = Cardinality(lost')
    BY <1>2, <2>1, <2>5 DEF Accounted, TypeOK
  <2> QED BY <1>1, <1>2, <2>1, <2>3, <2>5, <2>6 DEF Accounted
<1> QED BY <1>4, <1>5

\* A payload that is drained goes to the transaction or is lost.
LEMMA DrainOneAccounted == TypeOK /\ Accounted /\ DrainOne => Accounted'
<1> SUFFICES ASSUME TypeOK, Accounted, DrainOne PROVE Accounted'
  OBVIOUS
<1> DEFINE number == Head(queue).sequence
<1>1. /\ Queued' = Queued \ {number} /\ number \in Queued
      /\ \A i, j \in 1..Len(queue') :
           queue'[i].sequence = queue'[j].sequence => i = j
  BY TailQueued DEF DrainOne
<1>2. number \in Nat /\ number \notin lost /\ number \notin transaction
      /\ number \notin committed /\ IsFiniteSet(lost)
  BY <1>1, QueueParts DEF Accounted, Placed, DrainOne, Item
<1>3. UNCHANGED <<sequence, received, committed, dropped, reported>>
  BY DEF DrainOne
<1>4. CASE Head(queue).ok
  <2>1. transaction' = transaction \cup {number} /\ UNCHANGED <<encoding_errors, lost>>
    BY <1>4 DEF DrainOne
  <2> HIDE DEF number
  <2>2. Placed'
    BY <1>1, <1>2, <1>3, <2>1 DEF Accounted, Placed, Numbers
  <2> QED BY <1>1, <1>3, <2>1, <2>2 DEF Accounted
<1>5. CASE ~Head(queue).ok
  <2>1. /\ lost' = lost \cup {number} /\ encoding_errors' = encoding_errors + 1
        /\ transaction' = transaction
    BY <1>5 DEF DrainOne
  <2> HIDE DEF number
  <2>2. Placed'
    BY <1>1, <1>2, <1>3, <2>1 DEF Accounted, Placed, Numbers
  <2>3. IsFiniteSet(lost') /\ Cardinality(lost') = Cardinality(lost) + 1
    BY <1>2, <2>1, OneMoreLost
  <2>4. reported' + dropped' + encoding_errors' = Cardinality(lost')
    BY <1>3, <2>1, <2>3 DEF Accounted, TypeOK
  <2> QED BY <1>1, <1>3, <2>1, <2>2, <2>3, <2>4 DEF Accounted
<1> QED BY <1>4, <1>5

\* The initial state has no call.
LEMMA InitAccounted == Init => AccountedInv
BY DEF Init, AccountedInv, Running

\* Every step keeps the account.
LEMMA StepAccounted == TypeOK /\ AccountedInv /\ [Next]_vars => AccountedInv'
<1> SUFFICES ASSUME TypeOK, AccountedInv, [Next]_vars, Running'
             PROVE  Accounted'
  BY DEF AccountedInv
<1>1. CASE CallSubscribe
  <2>1. /\ sequence' = 0 /\ received' = 0 /\ committed' = {} /\ transaction' = {}
        /\ queue' = <<>> /\ lost' = {} /\ reported' = 0 /\ dropped' = 0
        /\ encoding_errors' = 0
    BY <1>1 DEF CallSubscribe, NoCall
  <2>2. Len(queue') = 0 /\ 1..Len(queue') = {} /\ Queued' = {} /\ Numbers' = {}
    BY <2>1, EmptySeq DEF Queued, Numbers
  <2>3. IsFiniteSet(lost') /\ Cardinality(lost') = 0
    BY <2>1, FS_EmptySet
  <2> QED BY <2>1, <2>2, <2>3 DEF Accounted, Placed
<1>2. CASE Interrupted \/ DiscoverFails
  BY <1>2 DEF Interrupted, DiscoverFails, EndCall, Running
<1>3. ASSUME ~CallSubscribe, ~(Interrupted \/ DiscoverFails)
      PROVE  Accounted
  BY <1>3 DEF AccountedInv, Running, vars, Next, Loop, ChangeTypes, DiscoveryDue,
    ReportDue, Receive, CheckInterrupts, EndSpin, Discover, DrainOne, EndDrain,
    Commit, Report, SkipReport
<1>4. CASE Receive
  BY <1>3, <1>4, <1>1, <1>2, ReceiveAccounted
<1>5. CASE DrainOne
  BY <1>3, <1>5, <1>1, <1>2, DrainOneAccounted
<1>6. CASE Commit /\ Accounted
  <2>1. /\ committed' = committed \cup transaction /\ transaction' = {}
        /\ UNCHANGED <<sequence, received, queue, lost, reported, dropped,
                       encoding_errors>>
    BY <1>6 DEF Commit, counters
  <2> QED BY <1>6, <2>1 DEF Accounted, Placed, Numbers, Queued
<1>7. CASE Report /\ Accounted
  <2>1. /\ reported' = reported + dropped + encoding_errors /\ dropped' = 0
        /\ encoding_errors' = 0
        /\ UNCHANGED <<sequence, received, committed, transaction, queue, lost>>
    BY <1>7 DEF Report, Reported
  <2>2. reported' + dropped' + encoding_errors' = Cardinality(lost')
    BY <1>7, <2>1 DEF Accounted, TypeOK
  <2> QED BY <1>7, <2>1, <2>2 DEF Accounted, Placed, Numbers, Queued
<1>8. CASE /\ \/ ChangeTypes \/ DiscoveryDue \/ ReportDue \/ CheckInterrupts
              \/ EndSpin \/ Discover \/ EndDrain \/ SkipReport \/ UNCHANGED vars
           /\ Accounted
  BY <1>8, AccountedKept DEF ChangeTypes, DiscoveryDue, ReportDue, CheckInterrupts,
    EndSpin, Discover, EndDrain, SkipReport, vars, counters, timers, history
<1> QED BY <1>1, <1>2, <1>3, <1>4, <1>5, <1>6, <1>7, <1>8 DEF Next, Loop

\* Each message received is sent, on its way or counted as lost, in exactly one
\* place, so the gaps a listener sees are the losses.
THEOREM MessagesAccounted == Spec => []EveryMessageAccounted
<1>1. AccountedInv => EveryMessageAccounted
  BY DEF AccountedInv, Accounted, Placed, Numbers, EveryMessageAccounted
<1> QED BY <1>1, InitTypeOK, StepTypeOK, InitAccounted, StepAccounted, PTL DEF Spec

-----------------------------------------------------------------------------
(* What a pass leaves behind                                               *)

\* Draining stops at an empty queue because a pass takes as many payloads as the
\* queue can hold; a transaction is open only while there is something to commit.
PassInv ==
  /\ pc # "drain" => taken = 0
  /\ taken + Len(queue) <= BATCH
  /\ pc \in {"check", "commit", "report"} => queue = <<>>
  /\ pc \notin {"drain", "commit"} => ~notified
  /\ ~notified => transaction = {}

\* Before the first call there is nothing to leave.
LEMMA InitPass == Init => PassInv
BY NotifyAssumption DEF Init, PassInv

\* Every step keeps the pass in order.
LEMMA StepPass == TypeOK /\ TypeOK' /\ PassInv /\ [Next]_vars => PassInv'
<1> SUFFICES ASSUME TypeOK, TypeOK', PassInv, [Next]_vars PROVE PassInv'
  OBVIOUS
<1>0. /\ Len(queue) \in Nat /\ Len(queue') \in Nat /\ taken \in Nat
      /\ Len(queue) <= QUEUE /\ Len(queue') <= QUEUE /\ QUEUE <= BATCH
      /\ QUEUE \in Nat /\ BATCH \in Nat /\ notified \in BOOLEAN
  BY NotifyAssumption, LenProperties DEF TypeOK
<1>1. CASE ChangeTypes \/ DiscoveryDue \/ ReportDue \/ UNCHANGED vars
  BY <1>1 DEF ChangeTypes, DiscoveryDue, ReportDue, PassInv, vars, timers
<1>2. CASE CallSubscribe \/ Interrupted \/ DiscoverFails
  <2>1. /\ queue' = <<>> /\ taken' = 0 /\ notified' = FALSE /\ transaction' = {}
        /\ pc' \in {"check", "idle"}
    BY <1>2 DEF CallSubscribe, Interrupted, DiscoverFails, EndCall, NoCall
  <2>2. taken' + Len(queue') <= BATCH
    BY <1>0, <2>1
  <2> QED BY <2>1, <2>2 DEF PassInv
<1>3. CASE Receive
  <2>1. pc = "spin" /\ UNCHANGED <<pc, taken, notified, transaction>>
    BY <1>3 DEF Receive
  <2>2. taken = 0 /\ ~notified /\ transaction = {}
    BY <2>1 DEF PassInv
  <2> QED BY <1>0, <2>1, <2>2 DEF PassInv
<1>4. CASE CheckInterrupts \/ EndSpin \/ Discover
  <2>1. /\ pc \in {"check", "spin", "discover"} /\ pc' \in {"spin", "discover", "drain"}
        /\ UNCHANGED <<queue, taken, notified, transaction>>
    BY <1>4 DEF CheckInterrupts, EndSpin, Discover
  <2> QED BY <1>0, <2>1 DEF PassInv
<1>5. CASE DrainOne
  <2>1. /\ pc = "drain" /\ pc' = "drain" /\ taken' = taken + 1
        /\ Len(queue') = Len(queue) - 1
    BY <1>5, QueueParts DEF DrainOne
  <2>2. ~notified' => transaction' = transaction /\ ~notified
    BY <1>5 DEF DrainOne, Notified
  <2> QED BY <1>0, <2>1, <2>2 DEF PassInv
<1>6. CASE EndDrain
  <2>1. /\ pc = "drain" /\ taken' = 0 /\ (queue = <<>> \/ taken = BATCH)
        /\ pc' = IF notified THEN "commit" ELSE "report"
        /\ UNCHANGED <<queue, notified, transaction>>
    BY <1>6 DEF EndDrain
  <2>2. queue = <<>>
    <3>1. CASE taken = BATCH
      <4>1. Len(queue) = 0
        BY <1>0, <3>1 DEF PassInv
      <4> QED BY <4>1, EmptySeq DEF TypeOK
    <3> QED BY <2>1, <3>1
  <2> QED BY <1>0, <2>1, <2>2 DEF PassInv
<1>7. CASE Commit
  BY <1>0, <1>7 DEF Commit, PassInv, timers, counters
<1>8. CASE Report \/ SkipReport
  <2>1. /\ pc = "report" /\ pc' = "check"
        /\ UNCHANGED <<queue, taken, notified, transaction>>
    BY <1>8 DEF Report, SkipReport
  <2> QED BY <1>0, <2>1 DEF PassInv
<1> QED BY <1>1, <1>2, <1>3, <1>4, <1>5, <1>6, <1>7, <1>8 DEF Next, Loop

\* A pass of the loop leaves neither payloads nor an open transaction behind,
\* whatever arrived during its spin.
THEOREM PassesLeaveNothing == Spec => []NothingWaits
<1>1. PassInv => NothingWaits
  BY DEF PassInv, NothingWaits
<1> QED BY <1>1, InitTypeOK, StepTypeOK, InitPass, StepPass, PTL DEF Spec

-----------------------------------------------------------------------------
(* The lossy channel                                                       *)

\* Messages are sent in the order of their numbers: nothing that is still to be
\* committed was overtaken by what is, and the queue is sorted.
Ordered ==
  /\ \A i, j \in 1..Len(queue) : i < j => queue[i].sequence < queue[j].sequence
  /\ \A n \in committed : \A m \in transaction \cup Queued : n < m
  /\ \A n \in transaction : \A m \in Queued : n < m

OrderedInv == Running => Ordered

\* A message that is received is the newest of all.
LEMMA ReceiveOrdered == TypeOK /\ Accounted /\ Ordered /\ Receive => Ordered'
<1> SUFFICES ASSUME TypeOK, Accounted, Ordered, Receive PROVE Ordered'
  OBVIOUS
<1>1. PICK ok \in BOOLEAN : Enqueue(ok)
  BY DEF Receive
<1>2. committed' = committed /\ transaction' = transaction
  BY DEF Receive
<1>3. CASE Len(queue) < QUEUE
  <2> DEFINE item == [sequence |-> sequence, ok |-> ok]
  <2>1. /\ queue' = Append(queue, item)
        /\ queue \in Seq(Item) /\ item \in Item /\ item.sequence = sequence
    BY <1>1, <1>3 DEF Enqueue, TypeOK, Item
  <2> HIDE DEF item
  <2>2. /\ Len(queue) \in Nat /\ Len(queue') = Len(queue) + 1
        /\ queue'[Len(queue) + 1].sequence = sequence
        /\ \A i \in 1..Len(queue) : queue'[i] = queue[i]
    BY <2>1, AppendProperties, LenProperties
  <2>3. committed \cup transaction \cup Queued \subseteq Numbers
    BY DEF Accounted, Placed
  <2>4. \A n \in committed \cup transaction \cup Queued : n < sequence
    BY <2>3 DEF Numbers, Accounted, TypeOK
  <2>5. Queued' = Queued \cup {sequence}
    BY <1>1, <1>3, EnqueueQueued
  <2>6. \A i \in 1..Len(queue) : queue[i].sequence < sequence
    BY <2>4 DEF Queued
  <2>7. \A i, j \in 1..Len(queue') : i < j => queue'[i].sequence < queue'[j].sequence
    <3> SUFFICES ASSUME NEW i \in 1..Len(queue'), NEW j \in 1..Len(queue'), i < j
                 PROVE  queue'[i].sequence < queue'[j].sequence
      OBVIOUS
    <3>1. i \in 1..Len(queue) /\ queue'[i] = queue[i]
      BY <2>2
    <3>2. CASE j = Len(queue) + 1
      BY <2>2, <2>6, <3>1, <3>2
    <3>3. CASE j \in 1..Len(queue)
      BY <2>2, <3>1, <3>3 DEF Ordered
    <3> QED BY <2>2, <3>2, <3>3
  <2> QED BY <1>2, <2>4, <2>5, <2>7 DEF Ordered
<1>4. CASE ~(Len(queue) < QUEUE)
  BY <1>1, <1>2, <1>4 DEF Enqueue, Ordered, Queued
<1> QED BY <1>3, <1>4

\* The payload that is drained is the oldest of the queue.
LEMMA DrainOneOrdered == TypeOK /\ Accounted /\ Ordered /\ DrainOne => Ordered'
<1> SUFFICES ASSUME TypeOK, Accounted, Ordered, DrainOne PROVE Ordered'
  OBVIOUS
<1> DEFINE number == Head(queue).sequence
<1>1. /\ Len(queue) \in Nat \ {0} /\ Len(queue') = Len(queue) - 1
      /\ \A i \in 1..Len(queue') : queue'[i] = queue[i + 1]
      /\ Head(queue) = queue[1]
  BY QueueParts DEF DrainOne
<1>2. Queued' = Queued \ {number} /\ number \in Queued
  BY TailQueued DEF DrainOne
<1>3. committed' = committed /\ transaction' \subseteq transaction \cup {number}
  BY DEF DrainOne
<1>4. \A m \in Queued' : number < m
  <2> SUFFICES ASSUME NEW i \in 1..Len(queue') PROVE number < queue'[i].sequence
    BY DEF Queued
  <2>1. i + 1 \in 1..Len(queue) /\ 1 \in 1..Len(queue) /\ 1 < i + 1
    BY <1>1
  <2> QED BY <1>1, <2>1 DEF Ordered
<1>5. \A i, j \in 1..Len(queue') : i < j => queue'[i].sequence < queue'[j].sequence
  <2> SUFFICES ASSUME NEW i \in 1..Len(queue'), NEW j \in 1..Len(queue'), i < j
               PROVE  queue'[i].sequence < queue'[j].sequence
    OBVIOUS
  <2>1. i + 1 \in 1..Len(queue) /\ j + 1 \in 1..Len(queue) /\ i + 1 < j + 1
    BY <1>1
  <2> QED BY <1>1, <2>1 DEF Ordered
<1> HIDE DEF number
<1> QED BY <1>2, <1>3, <1>4, <1>5 DEF Ordered

\* Every step keeps the order.
LEMMA StepOrdered ==
  TypeOK /\ AccountedInv /\ OrderedInv /\ [Next]_vars => OrderedInv'
<1> SUFFICES ASSUME TypeOK, AccountedInv, OrderedInv, [Next]_vars, Running'
             PROVE  Ordered'
  BY DEF OrderedInv
<1>1. CASE CallSubscribe
  <2>1. queue' = <<>> /\ committed' = {} /\ transaction' = {}
    BY <1>1 DEF CallSubscribe, NoCall
  <2>2. 1..Len(queue') = {}
    BY <2>1, EmptySeq
  <2> QED BY <2>1, <2>2 DEF Ordered
<1>2. CASE Interrupted \/ DiscoverFails
  BY <1>2 DEF Interrupted, DiscoverFails, EndCall, Running
<1>3. ASSUME ~CallSubscribe, ~(Interrupted \/ DiscoverFails)
      PROVE  Accounted /\ Ordered
  BY <1>3 DEF AccountedInv, OrderedInv, Running, vars, Next, Loop, ChangeTypes,
    DiscoveryDue, ReportDue, Receive, CheckInterrupts, EndSpin, Discover, DrainOne,
    EndDrain, Commit, Report, SkipReport
<1>4. CASE Receive
  BY <1>1, <1>2, <1>3, <1>4, ReceiveOrdered
<1>5. CASE DrainOne
  BY <1>1, <1>2, <1>3, <1>5, DrainOneOrdered
<1>6. CASE Commit /\ Ordered
  <2>1. /\ committed' = committed \cup transaction /\ transaction' = {}
        /\ queue' = queue
    BY <1>6 DEF Commit
  <2> QED BY <1>6, <2>1 DEF Ordered, Queued
<1>7. CASE /\ \/ ChangeTypes \/ DiscoveryDue \/ ReportDue \/ CheckInterrupts
              \/ EndSpin \/ Discover \/ EndDrain \/ Report \/ SkipReport
              \/ UNCHANGED vars
           /\ Ordered
  <2>1. UNCHANGED <<queue, committed, transaction>>
    BY <1>7 DEF ChangeTypes, DiscoveryDue, ReportDue, CheckInterrupts, EndSpin,
      Discover, EndDrain, Report, SkipReport, vars, history
  <2> QED BY <1>7, <2>1 DEF Ordered, Queued
<1> QED BY <1>1, <1>2, <1>3, <1>4, <1>5, <1>6, <1>7 DEF Next, Loop

\* Without a call nothing waits.
IdleInv == ~Running => queue = <<>> /\ transaction = {}

\* An empty queue holds no numbers.
LEMMA EmptyQueue ==
  ASSUME queue = <<>>
  PROVE  Queued = {} /\ Unencoded = {}
<1>1. 1..Len(queue) = {}
  BY EmptySeq
<1> QED BY <1>1 DEF Queued, Unencoded

\* The queue holds as many numbers as payloads.
LEMMA QueuedCount ==
  ASSUME TypeOK, Accounted
  PROVE  Cardinality(Queued) = Len(queue)
<1> DEFINE number == [i \in 1..Len(queue) |-> queue[i].sequence]
<1>1. number \in [1..Len(queue) -> Queued]
  BY DEF Queued
<1>2. \A i, j \in 1..Len(queue) : number[i] = number[j] => i = j
  BY DEF Accounted
<1>3. \A n \in Queued : \E i \in 1..Len(queue) : number[i] = n
  BY DEF Queued
<1> HIDE DEF number
<1>4. number \in Bijection(1..Len(queue), Queued)
  BY <1>1, <1>2, <1>3 DEF Bijection, Injection, Surjection, IsInjective
<1>5. Len(queue) \in Nat
  BY LenProperties DEF TypeOK
<1> QED BY <1>4, <1>5, FS_CountingElements DEF ExistsBijection

\* A payload that is still queued is not in the transaction.
LEMMA HeadIsNew ==
  ASSUME Accounted, queue # <<>>, TypeOK
  PROVE  Head(queue).sequence \notin transaction
<1>1. Head(queue).sequence \in Queued
  BY QueueParts DEF Queued
<1> QED BY <1>1 DEF Accounted, Placed

\* A message that finds room is one of those that cannot be encoded, or not.
LEMMA EnqueueUnencoded ==
  ASSUME TypeOK, NEW ok \in BOOLEAN, Enqueue(ok), Len(queue) < QUEUE
  PROVE  Unencoded' \in {Unencoded, Unencoded \cup {sequence}}
<1> DEFINE item == [sequence |-> sequence, ok |-> ok]
<1>1. /\ queue' = Append(queue, item)
      /\ queue \in Seq(Item) /\ item \in Item
      /\ item.sequence = sequence /\ item.ok = ok
  BY DEF Enqueue, TypeOK, Item
<1> HIDE DEF item
<1>2. /\ Len(queue) \in Nat /\ Len(queue') = Len(queue) + 1
      /\ queue'[Len(queue) + 1] = item
      /\ \A i \in 1..Len(queue) : queue'[i] = queue[i]
  BY <1>1, AppendProperties, LenProperties
<1> DEFINE bad == {j \in 1..Len(queue) : ~queue[j].ok}
           badNext == {j \in 1..Len(queue') : ~queue'[j].ok}
<1>3. /\ Unencoded = {queue[i].sequence : i \in bad}
      /\ Unencoded' = {queue'[i].sequence : i \in badNext}
  BY DEF Unencoded
<1>4. bad \subseteq 1..Len(queue)
  OBVIOUS
<1>0. 1..Len(queue') = (1..Len(queue)) \cup {Len(queue) + 1}
  BY <1>2
<1>5. CASE ok
  <2>0. queue'[Len(queue) + 1].ok
    BY <1>1, <1>2, <1>5
  <2>1. badNext = bad
    BY <1>0, <1>2, <2>0, Zenon
  <2> HIDE DEF bad, badNext
  <2> QED BY <1>2, <1>3, <1>4, <2>1
<1>6. CASE ~ok
  <2>1. badNext = bad \cup {Len(queue) + 1}
    BY <1>1, <1>2, <1>6
  <2>2. queue'[Len(queue) + 1].sequence = sequence
    BY <1>1, <1>2
  <2> HIDE DEF bad, badNext
  <2>3. Unencoded' = Unencoded \cup {sequence}
    BY <1>2, <1>3, <1>4, <2>1, <2>2
  <2> QED BY <2>3
<1> QED BY <1>5, <1>6

\* Taking the first payload takes its number from them, if it was one of them.
LEMMA TailUnencoded ==
  ASSUME TypeOK, Accounted, queue # <<>>, queue' = Tail(queue)
  PROVE  /\ Head(queue).ok => Unencoded' = Unencoded
         /\ ~Head(queue).ok =>
              /\ Head(queue).sequence \in Unencoded
              /\ Unencoded' = Unencoded \ {Head(queue).sequence}
<1>1. /\ Len(queue) \in Nat \ {0} /\ Len(queue') = Len(queue) - 1
      /\ \A i \in 1..Len(queue') : queue'[i] = queue[i + 1]
      /\ Head(queue) = queue[1]
  BY QueueParts
<1>2. \A i, j \in 1..Len(queue) : queue[i].sequence = queue[j].sequence => i = j
  BY DEF Accounted
<1>3. Unencoded = {queue[i].sequence : i \in {j \in 1..Len(queue) : ~queue[j].ok}}
  BY DEF Unencoded
<1>4. Unencoded' = {queue'[i].sequence : i \in {j \in 1..Len(queue') : ~queue'[j].ok}}
  BY DEF Unencoded
<1>5. Unencoded' \subseteq Unencoded \ {Head(queue).sequence}
  <2> SUFFICES ASSUME NEW i \in 1..Len(queue'), ~queue'[i].ok
               PROVE  /\ queue'[i].sequence \in Unencoded
                      /\ queue'[i].sequence # Head(queue).sequence
    BY <1>4
  <2>1. i + 1 \in 1..Len(queue) /\ 1 \in 1..Len(queue) /\ i + 1 # 1
    BY <1>1
  <2>2. queue'[i] = queue[i + 1] /\ Head(queue) = queue[1]
    BY <1>1
  <2> QED BY <1>2, <1>3, <2>1, <2>2
<1>6. ASSUME NEW i \in 1..Len(queue), ~queue[i].ok, i # 1
      PROVE  queue[i].sequence \in Unencoded'
  <2>1. i - 1 \in 1..Len(queue') /\ (i - 1) + 1 = i
    BY <1>1, <1>6
  <2>2. queue'[i - 1] = queue[i]
    BY <1>1, <2>1
  <2> QED BY <1>4, <1>6, <2>1, <2>2
<1>7. CASE Head(queue).ok
  <2>1. \A i \in 1..Len(queue) : ~queue[i].ok => i # 1
    BY <1>1, <1>7
  <2>2. Unencoded \subseteq Unencoded'
    BY <1>3, <1>6, <2>1
  <2> QED BY <1>5, <1>7, <2>2
<1>8. CASE ~Head(queue).ok
  <2>1. 1 \in 1..Len(queue) /\ Head(queue) = queue[1]
    BY <1>1
  <2>2. Head(queue).sequence \in Unencoded
    BY <1>3, <1>8, <2>1
  <2>3. Unencoded \ {Head(queue).sequence} \subseteq Unencoded'
    BY <1>3, <1>6, <2>1
  <2> QED BY <1>5, <1>8, <2>2, <2>3
<1> QED BY <1>7, <1>8

LEMMA InitIdle == Init => IdleInv
BY DEF Init, IdleInv

\* Every step that leaves no call leaves nothing waiting.
LEMMA StepIdle == IdleInv /\ [Next]_vars => IdleInv'
<1> SUFFICES ASSUME IdleInv, [Next]_vars, ~Running'
             PROVE  queue' = <<>> /\ transaction' = {}
  BY DEF IdleInv
<1>1. CASE ChangeTypes \/ UNCHANGED vars
  BY <1>1 DEF ChangeTypes, IdleInv, Running, vars
<1>2. CASE Interrupted \/ DiscoverFails
  BY <1>2 DEF Interrupted, DiscoverFails, EndCall, NoCall
<1>3. CASE ~(ChangeTypes \/ UNCHANGED vars \/ Interrupted \/ DiscoverFails)
  BY <1>3 DEF Next, Loop, Running, DiscoveryDue, ReportDue, CallSubscribe, Receive,
    CheckInterrupts, EndSpin, Discover, DrainOne, EndDrain, Commit, Report, SkipReport
<1> QED BY <1>1, <1>2, <1>3

\* The channel counts as its implementation does.
LEMMA SameCardinality == \A S : Channel!Cardinality(S) = Cardinality(S)
BY DEF Channel!Cardinality, Cardinality, Channel!IsFiniteSet, IsFiniteSet

\* A message finds room or a full channel; nothing else waits during a spin.
LEMMA ReceiveMapped ==
  ASSUME TypeOK, Accounted, PassInv, Receive
  PROVE  Channel!Next
<1>1. PICK ok \in BOOLEAN : Enqueue(ok)
  BY DEF Receive
<1>2. /\ Running /\ Running' /\ received' = received + 1
      /\ UNCHANGED <<transaction, committed, reported>>
      /\ sequence = received
  BY DEF Receive, Running, Accounted
<1>3. transaction = {}
  BY DEF Receive, PassInv
<1>4. Cardinality(transaction \cup Queued) = Len(queue)
  BY <1>3, QueuedCount
<1>5. CASE Len(queue) < QUEUE
  <2>1. Queued' = Queued \cup {received} /\ lost' = lost
    BY <1>1, <1>2, <1>5, EnqueueQueued DEF Enqueue
  <2>2. Unencoded' \in {Unencoded, Unencoded \cup {received}}
    BY <1>1, <1>2, <1>5, EnqueueUnencoded
  <2>3. (transaction \cup Queued)' = (transaction \cup Queued) \cup {received}
    BY <1>2, <2>1
  <2>4. Channel!Accept
    BY <1>2, <1>4, <1>5, <2>1, <2>2, <2>3, SameCardinality DEF Channel!Accept
  <2> QED BY <2>4 DEF Channel!Next
<1>6. CASE ~(Len(queue) < QUEUE)
  <2>1. queue' = queue /\ lost' = lost \cup {received}
    BY <1>1, <1>2, <1>6 DEF Enqueue
  <2>2. Queued' = Queued /\ Unencoded' = Unencoded
    BY <2>1 DEF Queued, Unencoded
  <2>3. Len(queue) = QUEUE
    BY <1>6, NotifyAssumption, LenProperties DEF TypeOK
  <2>4. Channel!Overflow
    BY <1>2, <1>4, <2>1, <2>2, <2>3, SameCardinality DEF Channel!Overflow
  <2> QED BY <2>4 DEF Channel!Next
<1> QED BY <1>5, <1>6

\* A payload that is drained is still unsent, or it is spoiled.
LEMMA DrainOneMapped ==
  ASSUME TypeOK, Accounted, DrainOne
  PROVE  [Channel!Next]_(Channel!vars)
<1> DEFINE number == Head(queue).sequence
<1>1. Queued' = Queued \ {number} /\ number \in Queued
  BY TailQueued DEF DrainOne
<1>2. number \notin transaction
  BY HeadIsNew DEF DrainOne
<1>3. /\ Head(queue).ok => Unencoded' = Unencoded
      /\ ~Head(queue).ok => /\ number \in Unencoded
                            /\ Unencoded' = Unencoded \ {number}
  BY TailUnencoded DEF DrainOne
<1>4. Running /\ Running' /\ UNCHANGED <<received, committed, reported>>
  BY DEF DrainOne, Running
<1>5. CASE Head(queue).ok
  <2>1. transaction' = transaction \cup {number} /\ lost' = lost
    BY <1>5 DEF DrainOne
  <2> HIDE DEF number
  <2>2. (transaction \cup Queued)' = transaction \cup Queued
    BY <1>1, <2>1
  <2> QED BY <1>3, <1>4, <1>5, <2>1, <2>2 DEF Channel!vars
<1>6. CASE ~Head(queue).ok
  <2>1. transaction' = transaction /\ lost' = lost \cup {number}
    BY <1>6 DEF DrainOne
  <2> HIDE DEF number
  <2>2. (transaction \cup Queued)' = (transaction \cup Queued) \ {number}
    BY <1>1, <1>2, <2>1
  <2>3. Channel!Spoil
    BY <1>3, <1>4, <1>6, <2>1, <2>2 DEF Channel!Spoil
  <2> QED BY <2>3 DEF Channel!Next
<1> QED BY <1>5, <1>6

\* A commit sends all that waits, in order.
LEMMA CommitMapped ==
  ASSUME TypeOK, Ordered, PassInv, Commit
  PROVE  [Channel!Next]_(Channel!vars)
<1>1. /\ Running /\ Running' /\ UNCHANGED <<received, queue, lost, reported>>
      /\ committed' = committed \cup transaction /\ transaction' = {}
  BY DEF Commit, Running
<1>2. Queued = {} /\ Unencoded = {} /\ Queued' = {} /\ Unencoded' = {}
  <2>1. queue = <<>>
    BY DEF Commit, PassInv
  <2>2. Queued' = Queued /\ Unencoded' = Unencoded
    BY <1>1 DEF Queued, Unencoded
  <2> QED BY <2>1, <2>2, EmptyQueue
<1>3. CASE transaction = {}
  BY <1>1, <1>2, <1>3 DEF Channel!vars
<1>4. CASE transaction # {}
  <2>1. \A n \in transaction : \A m \in committed : m < n
    BY DEF Ordered
  <2>2. transaction \in SUBSET ((transaction \cup Queued) \ Unencoded)
    BY <1>2
  <2>3. \A n \in transaction : \A m \in (transaction \cup Queued) \ transaction : n < m
    BY <1>2
  <2>4. (transaction \cup Queued)' = (transaction \cup Queued) \ transaction
    BY <1>1, <1>2
  <2>5. Channel!Send
    BY <1>1, <1>2, <1>4, <2>1, <2>2, <2>3, <2>4 DEF Channel!Send
  <2> QED BY <2>5 DEF Channel!Next
<1> QED BY <1>3, <1>4

\* Every step of the call or its environment is a step of the channel or leaves
\* the channel unchanged.
LEMMA StepMapped ==
  ASSUME TypeOK, IdleInv, AccountedInv, PassInv, OrderedInv, [Next]_vars
  PROVE  [Channel!Next]_(Channel!vars)
<1>1. CASE CallSubscribe
  <2>1. /\ ~Running /\ Running' /\ received' = 0 /\ committed' = {} /\ lost' = {}
        /\ reported' = 0 /\ queue' = <<>> /\ transaction' = {}
    BY <1>1 DEF CallSubscribe, NoCall, Running
  <2>2. Queued' = {} /\ Unencoded' = {}
    <3>1. 1..Len(queue') = {}
      BY <2>1, EmptySeq
    <3> QED BY <3>1 DEF Queued, Unencoded
  <2>3. Channel!Open
    BY <2>1, <2>2 DEF Channel!Open
  <2> QED BY <2>3 DEF Channel!Next
<1>2. CASE Interrupted \/ DiscoverFails
  <2>1. /\ Running /\ ~Running' /\ UNCHANGED <<received, committed, lost, reported>>
        /\ queue' = <<>> /\ transaction' = {}
    BY <1>2 DEF Interrupted, DiscoverFails, EndCall, NoCall, Running, history
  <2>2. Queued' = {} /\ Unencoded' = {}
    <3>1. 1..Len(queue') = {}
      BY <2>1, EmptySeq
    <3> QED BY <3>1 DEF Queued, Unencoded
  <2>3. Channel!Close
    BY <2>1, <2>2 DEF Channel!Close
  <2> QED BY <2>3 DEF Channel!Next
<1>3. CASE Receive
  <2>1. Running
    BY <1>3 DEF Receive, Running
  <2> QED BY <1>3, <2>1, ReceiveMapped DEF AccountedInv
<1>4. CASE DrainOne
  <2>1. Running
    BY <1>4 DEF DrainOne, Running
  <2> QED BY <1>4, <2>1, DrainOneMapped DEF AccountedInv
<1>5. CASE Commit
  <2>1. Running
    BY <1>5 DEF Commit, Running
  <2> QED BY <1>5, <2>1, CommitMapped DEF OrderedInv
<1>6. CASE Report
  <2>1. /\ Running /\ Running' /\ reported' = reported + dropped + encoding_errors
        /\ UNCHANGED <<received, queue, transaction, committed, lost>>
    BY <1>6 DEF Report, Reported, Running
  <2>2. reported' = Cardinality(lost)
    BY <2>1 DEF AccountedInv, Accounted
  <2>3. Queued' = Queued /\ Unencoded' = Unencoded
    BY <2>1 DEF Queued, Unencoded
  <2>4. Channel!Tell
    BY <2>1, <2>2, <2>3, SameCardinality DEF Channel!Tell
  <2> QED BY <2>4 DEF Channel!Next
<1>7. CASE \/ ChangeTypes \/ DiscoveryDue \/ ReportDue \/ CheckInterrupts \/ EndSpin
           \/ Discover \/ EndDrain \/ SkipReport \/ UNCHANGED vars
  <2>1. UNCHANGED <<Running, received, queue, transaction, committed, lost, reported>>
    BY <1>7 DEF ChangeTypes, DiscoveryDue, ReportDue, CheckInterrupts, EndSpin,
      Discover, EndDrain, SkipReport, vars, history, Running
  <2>2. Queued' = Queued /\ Unencoded' = Unencoded
    BY <2>1 DEF Queued, Unencoded
  <2> QED BY <2>1, <2>2 DEF Channel!vars
<1> QED BY <1>1, <1>2, <1>3, <1>4, <1>5, <1>6, <1>7 DEF Next, Loop

\* CALL subscribe implements LossyChannel: increasing numbers, none twice, no
\* loss but to a full queue or a message that cannot be encoded, and warnings
\* that tell of every loss.
THEOREM ChannelImplemented == Spec => ImplementsChannel
<1>1. Init => Channel!Init
  <2> SUFFICES ASSUME Init PROVE Channel!Init
    OBVIOUS
  <2>1. Queued = {} /\ Unencoded = {}
    BY EmptyQueue DEF Init
  <2> QED BY <2>1 DEF Init, Running, Channel!Init
<1>2. Init => TypeOK /\ IdleInv /\ AccountedInv /\ PassInv /\ OrderedInv
  BY InitTypeOK, InitIdle, InitAccounted, InitPass DEF Init, OrderedInv, Running
<1>3. TypeOK /\ IdleInv /\ AccountedInv /\ PassInv /\ OrderedInv /\ [Next]_vars
        => (TypeOK /\ IdleInv /\ AccountedInv /\ PassInv /\ OrderedInv)'
  BY StepTypeOK, StepIdle, StepAccounted, StepPass, StepOrdered
<1>4. TypeOK /\ IdleInv /\ AccountedInv /\ PassInv /\ OrderedInv /\ [Next]_vars
        => [Channel!Next]_(Channel!vars)
  BY StepMapped
<1> QED BY <1>1, <1>2, <1>3, <1>4, PTL DEF Spec, ImplementsChannel, Channel!Spec
=============================================================================
