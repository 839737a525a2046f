---------------------- MODULE TableSubscriptionsProofs ----------------------
(***************************************************************************)
(* Safety of the table-backed subscriptions for any topics, types and      *)
(* bounds: type correctness and, from one inductive invariant, what a      *)
(* reader of the tables and the owner of a row may rely on.                *)
(***************************************************************************)
EXTENDS TableSubscriptions, FiniteSetTheorems, TLAPS

Events == {"message", "failure", "restart"}

\* Counting an event keeps the tally's type and lowers no count.
LEMMA CountType ==
  ASSUME tally \in [Events -> Nat], NEW event \in Events, NEW limit,
         Count(event, limit)
  PROVE  /\ tally' \in [Events -> Nat]
         /\ tally'[event] > 0
         /\ \A e \in Events : tally'[e] >= tally[e]
<1>1. tally' = [tally EXCEPT ![event] = @ + 1]
  BY DEF Count
<1> QED BY <1>1

\* What the flush does to a mailbox.
LEMMA FlushedMailbox ==
  ASSUME NEW box \in Live, NEW after, after = [box EXCEPT !.pending = 0, !.error = FALSE]
  PROVE  /\ after \in Live
         /\ after.message_type = box.message_type
         /\ after.sequence = box.sequence
         /\ after.pending = 0
BY DEF Live

\* What users and the worker do to a row.
LEMMA RowUpdates ==
  ASSUME NEW row \in Row, NEW kind \in Types, NEW value \in BOOLEAN
  PROVE  /\ [row EXCEPT !.lapsed = value] \in Row
         /\ [row EXCEPT !.lapsed = value].message_type = row.message_type
         /\ [row EXCEPT !.failed = value] \in Row
         /\ [row EXCEPT !.failed = value].message_type = row.message_type
         /\ [row EXCEPT !.message_type = kind, !.failed = FALSE] \in Row
         /\ [row EXCEPT !.message_type = kind, !.failed = FALSE].message_type = kind
BY DEF Row

\* A resolved type is a type.
LEMMA ResolvedTypeIsType ==
  ASSUME TypeOK, NEW t \in Subscribed
  PROVE  ResolvedType(t) \in Types
<1>1. t \in Topics /\ desired[t] \in Desired
  BY DEF TypeOK, Subscribed, Missing, Wanted
<1>2. Candidates(t) \subseteq Types
  BY <1>1 DEF TypeOK, Candidates, Desired
<1>3. Cardinality(Candidates(t)) = 1 /\ Candidates(t) \subseteq Loadable
  BY DEF Subscribed, CanSubscribe
<1>4. Candidates(t) # {}
  BY <1>3, FS_EmptySet
<1> HIDE DEF Candidates
<1> QED BY <1>2, <1>4 DEF ResolvedType

\* A callback touches only the mailbox of its own topic.
LEMMA ReceivedMailbox ==
  ASSUME TypeOK, NEW t \in Topics, Receive(t)
  PROVE  /\ live' = [live EXCEPT ![t] = live'[t]]
         /\ live[t] \in Live /\ live'[t] \in Live
         /\ live'[t].message_type = live[t].message_type
         /\ live'[t].sequence = live[t].sequence + 1
         /\ live'[t].pending \in {live[t].pending, live[t].sequence + 1}
<1>1. live[t] \in Live
  BY DEF TypeOK, Receive, IsLive
<1> DEFINE n == live[t].sequence + 1
<1>2. n \in Nat /\ n = live[t].sequence + 1
  BY <1>1 DEF Live
<1>3. \/ live' = [live EXCEPT ![t] = [live[t] EXCEPT !.sequence = n, !.pending = n]]
      \/ live' = [live EXCEPT ![t] = [live[t] EXCEPT !.sequence = n, !.error = TRUE]]
  BY DEF TypeOK, Receive
<1> HIDE DEF n
<1>4. /\ live' = [live EXCEPT ![t] = live'[t]]
      /\ \/ live'[t] = [live[t] EXCEPT !.sequence = n, !.pending = n]
         \/ live'[t] = [live[t] EXCEPT !.sequence = n, !.error = TRUE]
  BY <1>3 DEF TypeOK
<1>5. /\ live'[t] \in Live
      /\ live'[t].message_type = live[t].message_type
      /\ live'[t].sequence = n
      /\ live'[t].pending \in {live[t].pending, n}
  <2> DEFINE box == live[t]
             after == live'[t]
  <2>1. box \in Live /\ n \in Nat /\ n = box.sequence + 1
    BY <1>1, <1>2
  <2>2. \/ after = [box EXCEPT !.sequence = n, !.pending = n]
        \/ after = [box EXCEPT !.sequence = n, !.error = TRUE]
    BY <1>4
  <2> HIDE DEF box, after
  <2>3. /\ after \in Live
        /\ after.message_type = box.message_type
        /\ after.sequence = n
        /\ after.pending \in {box.pending, n}
    BY <2>1, <2>2 DEF Live
  <2> QED BY <2>3 DEF box, after
<1> QED BY <1>1, <1>2, <1>4, <1>5

\* Every entry of the new map, of the emptied map and of the new rows is typed.
LEMMA EntryTypes ==
  ASSUME TypeOK, NEW t \in Topics
  PROVE  /\ LiveAfter(t) \in Live \cup {None}
         /\ Emptied(t) \in Live \cup {None}
         /\ subscriptions[t] # None => RowAfter(t) \in Row
<1>1. LiveAfter(t) \in Live \cup {None}
  <2>1. CASE t \in Subscribed
    <3>1. ResolvedType(t) \in Types
      BY <2>1, ResolvedTypeIsType
    <3> QED BY <2>1, <3>1 DEF LiveAfter, Live
  <2>2. CASE t \notin Subscribed
    BY <2>2 DEF LiveAfter, TypeOK
  <2> QED BY <2>1, <2>2
<1>2. Emptied(t) \in Live \cup {None}
  <2>1. CASE IsLive(t)
    <3>1. live[t] \in Live
      BY <2>1 DEF TypeOK, IsLive
    <3>2. Emptied(t) = [live[t] EXCEPT !.pending = 0, !.error = FALSE]
      BY <2>1 DEF Emptied
    <3> QED BY <3>1, <3>2, FlushedMailbox
  <2>2. CASE ~IsLive(t)
    BY <2>2 DEF Emptied
  <2> QED BY <2>1, <2>2
<1>3. ASSUME subscriptions[t] # None PROVE RowAfter(t) \in Row
  <2>1. subscriptions[t] \in Row
    BY <1>3 DEF TypeOK
  <2>2. CASE t \in Subscribed
    <3> DEFINE kind == ResolvedType(t)
    <3>1. kind \in Types
      BY <2>2, ResolvedTypeIsType
    <3>2. RowAfter(t) = [subscriptions[t] EXCEPT !.message_type = kind, !.failed = FALSE]
      BY <2>2 DEF RowAfter
    <3> HIDE DEF kind
    <3> QED BY <2>1, <3>1, <3>2 DEF Row
  <2>3. CASE t \notin Subscribed
    BY <2>1, <2>3 DEF RowAfter, Row
  <2> QED BY <2>2, <2>3
<1> QED BY <1>1, <1>2, <1>3

-----------------------------------------------------------------------------
(* Type correctness                                                        *)

\* The initial state has the declared types.
LEMMA InitTypeOK == Init => TypeOK
<1> SUFFICES ASSUME Init PROVE TypeOK
  OBVIOUS
<1>1. tally \in [Events -> Nat]
  BY DEF Init, Events
<1> QED BY <1>1 DEF Init, TypeOK, Nowhere, Events

\* Every step keeps the declared types.
LEMMA StepTypeOK == TypeOK /\ [Next]_vars => TypeOK'
<1> SUFFICES ASSUME TypeOK, [Next]_vars PROVE TypeOK'
  OBVIOUS
<1>1. ASSUME NEW t \in Topics, User(t) PROVE TypeOK'
  <2>1. ASSUME NEW kind \in Types \cup {None}, Register(t, kind) PROVE TypeOK'
    <3> DEFINE row == [requested_type |-> kind, message_type |-> None, failed |-> FALSE,
                       lapsed |-> FALSE, registered_at |-> clock']
    <3>1. clock' \in Nat
      BY <2>1 DEF TypeOK, Register
    <3>2. row \in Row
      BY <3>1 DEF Row
    <3>3. subscriptions' = [subscriptions EXCEPT ![t] = row]
      BY <2>1 DEF Register
    <3> HIDE DEF row
    <3> QED BY <2>1, <3>1, <3>2, <3>3, ZenonT(60) DEF TypeOK, Register, timers
  <2>2. CASE Unregister(t)
    BY <2>2 DEF TypeOK, Unregister, timers
  <2>3. ASSUME NEW value \in BOOLEAN, SetLapsed(t, value) PROVE TypeOK'
    <3>1. subscriptions[t] \in Row
      BY <2>3 DEF TypeOK, SetLapsed
    <3>2. [subscriptions[t] EXCEPT !.lapsed = value] \in Row
      BY <3>1 DEF Row
    <3>3. subscriptions' = [subscriptions EXCEPT ![t] =
                              [subscriptions[t] EXCEPT !.lapsed = value]]
      BY <2>3 DEF SetLapsed, TypeOK
    <3> QED BY <2>3, <3>2, <3>3 DEF TypeOK, SetLapsed, timers
  <2>4. CASE Advertise(t)
    BY <2>4 DEF TypeOK, Advertise, tables, timers
  <2> QED BY <1>1, <2>1, <2>2, <2>3, <2>4 DEF User, Keepalive, Lapse
<1>2. ASSUME NEW t \in Topics, Receive(t) PROVE TypeOK'
  <2>1. live[t] \in Live
    BY <1>2 DEF TypeOK, Receive, IsLive
  <2>2. tally' \in [Events -> Nat]
    BY <1>2, CountType DEF TypeOK, Receive, Events
  <2>3. live' \in [Topics -> Live \cup {None}]
    <3>1. live'[t] \in Live
      BY <1>2, ReceivedMailbox
    <3>2. live' = [live EXCEPT ![t] = live'[t]]
      BY <1>2, ReceivedMailbox
    <3> QED BY <3>1, <3>2 DEF TypeOK
  <2> QED BY <1>2, <2>2, <2>3 DEF TypeOK, Receive, Events, tables, timers
<1>3. CASE CreateExtension
  BY <1>3 DEF TypeOK, CreateExtension, timers
<1>4. CASE DropExtension
  BY <1>4 DEF TypeOK, DropExtension, Nowhere, timers
<1>5. CASE Worker
  <2>1. CASE EndSpin
    BY <2>1 DEF TypeOK, EndSpin, AfterFlush, tables, timers
  <2>2. CASE Flush
    <3>1. live' \in [Topics -> Live \cup {None}]
      BY <2>2, EntryTypes DEF Flush
    <3>2. messages' \in [Topics -> Message \cup {None}]
      <4>1. ASSUME NEW t \in Pending
            PROVE  [sequence |-> live[t].pending, received_at |-> clock] \in Message
        BY <4>1 DEF TypeOK, Pending, IsLive, Live, Message
      <4> QED BY <2>2, <4>1 DEF TypeOK, Flush
    <3>3. subscriptions' \in [Topics -> Row \cup {None}]
      <4>1. ASSUME NEW t \in Topics, subscriptions[t] # None
            PROVE  [subscriptions[t] EXCEPT !.failed = (t \in Failing)] \in Row
        <5>1. subscriptions[t] \in Row /\ (t \in Failing) \in BOOLEAN
          BY <4>1 DEF TypeOK
        <5> QED BY <5>1 DEF Row
      <4>2. ASSUME NEW t \in Topics
            PROVE  subscriptions'[t] \in Row \cup {None}
        <5>1. CASE subscriptions[t] = None
          BY <2>2, <5>1 DEF Flush
        <5>2. CASE subscriptions[t] # None
          BY <2>2, <4>1, <5>2 DEF TypeOK, Flush
        <5> QED BY <5>1, <5>2
      <4> QED BY <2>2, <4>2 DEF TypeOK, Flush
    <3>4. stored' \in [Topics -> Nat]
      BY <2>2 DEF TypeOK, Flush, Pending, IsLive, Live
    <3> QED BY <2>2, <3>1, <3>2, <3>3, <3>4 DEF TypeOK, Flush, AfterFlush
  <2>3. CASE ReadDesired
    <3>1. desired' \in [Topics -> Desired \cup {None}]
      BY <2>3 DEF TypeOK, ReadDesired, Row, Desired
    <3> QED BY <2>3, <3>1 DEF TypeOK, ReadDesired, tables, timers
  <2>4. CASE ReadDesiredFails
    <3>1. tally' \in [Events -> Nat]
      BY <2>4, CountType DEF TypeOK, ReadDesiredFails, Events
    <3> QED BY <2>4, <3>1 DEF TypeOK, ReadDesiredFails, Events, tables
  <2>5. CASE Reconcile
    <3>1. live' \in [Topics -> Live \cup {None}]
      BY <2>5, EntryTypes DEF Reconcile
    <3>2. subscriptions' \in [Topics -> Row \cup {None}]
      BY <2>5, EntryTypes DEF Reconcile
    <3>3. messages' \in [Topics -> Message \cup {None}] /\ stored' \in [Topics -> Nat]
      BY <2>5 DEF TypeOK, Reconcile
    <3> QED BY <2>5, <3>1, <3>2, <3>3 DEF TypeOK, Reconcile, Nowhere
  <2>6. CASE EndIteration
    BY <2>6 DEF TypeOK, EndIteration, tables, timers
  <2> QED BY <1>5, <2>1, <2>2, <2>3, <2>4, <2>5, <2>6 DEF Worker
<1>6. CASE FlushTimer \/ PollTimer
  BY <1>6 DEF TypeOK, FlushTimer, PollTimer, tables
<1>7. CASE Rebuild \/ Crash
  <2>1. tally' \in [Events -> Nat]
    BY <1>7, CountType DEF TypeOK, Rebuild, Crash, Events
  <2>2. /\ live' \in [Topics -> Live \cup {None}] /\ stored' \in [Topics -> Nat]
        /\ desired' \in [Topics -> Desired \cup {None}]
    BY <1>7 DEF Rebuild, Crash, ForgetSubscriptions, Nowhere
  <2>3. UNCHANGED <<tables, advertised, withdrawn>>
    BY <1>7 DEF Rebuild, Crash, ForgetSubscriptions
  <2>4. flush_due' \in BOOLEAN /\ poll_due' \in BOOLEAN /\ pc' \in {"spin", "down"}
    BY <1>7 DEF TypeOK, Rebuild, Crash, timers
  <2> QED BY <2>1, <2>2, <2>3, <2>4 DEF TypeOK, Events, tables
<1>8. CASE Restart
  BY <1>8 DEF TypeOK, Restart, tables
<1>9. CASE UNCHANGED vars
  BY <1>9 DEF TypeOK, vars, tables, timers
<1> QED BY <1>1, <1>2, <1>3, <1>4, <1>5, <1>6, <1>7, <1>8, <1>9 DEF Next

\* Every variable of every reachable state keeps its type.
THEOREM TypeCorrect == Spec => []TypeOK
BY InitTypeOK, StepTypeOK, PTL DEF Spec

-----------------------------------------------------------------------------
(* The inductive invariant                                                 *)

\* Nothing is live, cached or stored at the start.
LEMMA InitInductive == Init => Inductive
BY DEF Init, Inductive, InductiveFor, IsLive, Nowhere

\* A flush moves pending messages of live subscriptions into the table.
LEMMA FlushInductive ==
  ASSUME TypeOK, Inductive, Flush, NEW t \in Topics
  PROVE  InductiveFor(t)'
<1>1. /\ installed' = installed /\ desired' = desired /\ withdrawn' = withdrawn
      /\ tally' = tally /\ pc' # "apply" /\ pc # "apply" /\ live'[t] = Emptied(t)
  BY DEF Flush, AfterFlush
<1>2. InductiveFor(t)
  BY DEF Inductive
<1>3. IsLive(t) => live[t] \in Live
  BY DEF TypeOK, IsLive
<1>4. IsLive(t) => /\ live'[t] \in Live /\ live'[t] # None
                   /\ live'[t].message_type = live[t].message_type
                   /\ live'[t].sequence = live[t].sequence
                   /\ live'[t].pending = 0
  BY <1>1, <1>3, FlushedMailbox, SubscriptionAssumption DEF Emptied
<1>5. ~IsLive(t) => live'[t] = None
  BY <1>1 DEF Emptied
<1>6. subscriptions'[t] = None <=> subscriptions[t] = None
  <2>1. CASE subscriptions[t] = None
    BY <2>1 DEF Flush
  <2>2. CASE subscriptions[t] # None
    <3>1. subscriptions[t] \in Row /\ (t \in Failing) \in BOOLEAN
      BY <2>2 DEF TypeOK
    <3>2. [subscriptions[t] EXCEPT !.failed = (t \in Failing)] \in Row
      BY <3>1 DEF Row
    <3> QED BY <2>2, <3>1, <3>2, SubscriptionAssumption DEF Flush
  <2> QED BY <2>1, <2>2
<1>7. subscriptions[t] # None =>
        subscriptions'[t].message_type = subscriptions[t].message_type
  <2> SUFFICES ASSUME subscriptions[t] # None
               PROVE  subscriptions'[t].message_type = subscriptions[t].message_type
    OBVIOUS
  <2>1. subscriptions[t] \in Row
    BY DEF TypeOK
  <2>2. [subscriptions[t] EXCEPT !.failed = (t \in Failing)].message_type
          = subscriptions[t].message_type
    BY <2>1 DEF Row
  <2> QED BY <2>2 DEF Flush
<1>8. CASE installed /\ t \in Pending
  <2>1. IsLive(t) /\ live[t].pending # 0 /\ live[t].pending \in Nat
    BY <1>3, <1>8 DEF Pending, Live
  <2>2. stored'[t] = live[t].pending /\ messages'[t].sequence = live[t].pending
    BY <1>8 DEF Flush
  <2> QED BY <1>1, <1>2, <1>3, <1>4, <1>6, <1>7, <1>8, <2>1, <2>2
      DEF InductiveFor, IsLive, Live
<1>9. CASE ~(installed /\ t \in Pending)
  <2>1. stored'[t] = stored[t] /\ messages'[t] = messages[t]
    BY <1>9 DEF Flush
  <2>2. stored[t] \in Nat
    BY DEF TypeOK
  <2> QED BY <1>1, <1>2, <1>3, <1>4, <1>5, <1>6, <1>7, <2>1, <2>2
      DEF InductiveFor, IsLive, Live
<1> QED BY <1>8, <1>9

\* A reconcile starts, keeps or stops each topic's subscription.
LEMMA ReconcileInductive ==
  ASSUME TypeOK, Inductive, Reconcile, NEW t \in Topics
  PROVE  InductiveFor(t)'
<1>1. /\ installed' = installed /\ withdrawn' = withdrawn /\ tally' = tally
      /\ pc = "apply" /\ pc' = "rest" /\ desired'[t] = None
      /\ live'[t] = LiveAfter(t)
  BY DEF Reconcile, Nowhere
<1>2. InductiveFor(t)
  BY DEF Inductive
<1>3. subscriptions[t] = None => subscriptions'[t] = None
  BY DEF Reconcile
<1>4. CASE t \in Subscribed
  <2>1. ResolvedType(t) \in Types
    BY <1>4, ResolvedTypeIsType
  <2>2. desired[t] # None /\ t \notin Expired /\ t \notin Removed /\ ~IsLive(t)
    BY <1>4 DEF Subscribed, Missing, Wanted, Removed
  <2>3. stored'[t] = 0 /\ messages'[t] = messages[t]
    BY <1>4, <2>2 DEF Reconcile
  <2>4. /\ live'[t] \in Live /\ live'[t] # None
        /\ live'[t].message_type = ResolvedType(t)
        /\ live'[t].sequence = 0 /\ live'[t].pending = 0
    <3> DEFINE kind == ResolvedType(t)
               box == [message_type |-> kind, sequence |-> 0, pending |-> 0,
                       error |-> FALSE]
    <3>1. live'[t] = box
      BY <1>1, <1>4 DEF LiveAfter
    <3>2. kind \in Types
      BY <2>1
    <3> HIDE DEF kind
    <3>3. /\ box \in Live /\ box.message_type = kind
          /\ box.sequence = 0 /\ box.pending = 0
      BY <3>2 DEF Live
    <3> HIDE DEF box
    <3>4. box # None
      BY <3>3, SubscriptionAssumption
    <3> QED BY <3>1, <3>3, <3>4 DEF kind
  <2>5. subscriptions[t] # None =>
          subscriptions'[t] # None /\ subscriptions'[t].message_type = ResolvedType(t)
    <3> SUFFICES ASSUME subscriptions[t] # None
                 PROVE  /\ subscriptions'[t] # None
                        /\ subscriptions'[t].message_type = ResolvedType(t)
      OBVIOUS
    <3>1. subscriptions[t] \in Row
      BY DEF TypeOK
    <3> DEFINE kind == ResolvedType(t)
               row == [subscriptions[t] EXCEPT !.message_type = kind, !.failed = FALSE]
    <3>2. subscriptions'[t] = row
      BY <1>4, <2>2 DEF Reconcile, RowAfter
    <3>3. kind \in Types
      BY <2>1
    <3> HIDE DEF kind
    <3>4. row \in Row /\ row.message_type = kind
      BY <3>1, <3>3 DEF Row
    <3> QED BY <3>2, <3>4, SubscriptionAssumption DEF kind
  <2> QED BY <1>1, <1>2, <1>3, <2>2, <2>3, <2>4, <2>5 DEF InductiveFor, IsLive
<1>5. CASE t \in Wanted \ Subscribed
  <2>1. /\ live'[t] = live[t] /\ stored'[t] = stored[t] /\ messages'[t] = messages[t]
        /\ t \notin Expired
    BY <1>1, <1>5 DEF LiveAfter, Reconcile, Wanted, Removed
  <2>2. subscriptions[t] # None =>
          /\ subscriptions'[t] # None
          /\ subscriptions'[t].message_type = subscriptions[t].message_type
    <3> SUFFICES ASSUME subscriptions[t] # None
                 PROVE  /\ subscriptions'[t] # None
                        /\ subscriptions'[t].message_type = subscriptions[t].message_type
      OBVIOUS
    <3>1. subscriptions[t] \in Row
      BY DEF TypeOK
    <3>2. subscriptions'[t] \in
            {subscriptions[t], [subscriptions[t] EXCEPT !.failed = TRUE]}
      BY <1>5, <2>1 DEF Reconcile, RowAfter
    <3>3. /\ [subscriptions[t] EXCEPT !.failed = TRUE] \in Row
          /\ [subscriptions[t] EXCEPT !.failed = TRUE].message_type
               = subscriptions[t].message_type
      BY <3>1 DEF Row
    <3> QED BY <3>1, <3>2, <3>3, SubscriptionAssumption
  <2> QED BY <1>1, <1>2, <1>3, <2>1, <2>2 DEF InductiveFor, IsLive
<1>6. CASE t \notin Wanted
  <2>1. live'[t] = None /\ stored'[t] = 0
    BY <1>1, <1>6 DEF LiveAfter, Reconcile, Subscribed, Missing
  <2>2. messages'[t] # None => messages'[t] = messages[t] /\ ~IsLive(t)
    BY <1>6 DEF Reconcile, Removed
  <2> QED BY <1>1, <1>2, <1>3, <2>1, <2>2 DEF InductiveFor, IsLive
<1> QED BY <1>4, <1>5, <1>6

\* Every step keeps the inductive invariant.
LEMMA StepInductive == TypeOK /\ Inductive /\ [Next]_vars => Inductive'
<1> SUFFICES ASSUME TypeOK, Inductive, [Next]_vars, NEW t \in Topics
             PROVE  InductiveFor(t)'
  BY DEF Inductive
<1>0. InductiveFor(t)
  BY DEF Inductive
<1>1. ASSUME NEW u \in Topics, User(u) PROVE InductiveFor(t)'
  <2>1. ASSUME NEW kind \in Types \cup {None}, Register(u, kind) PROVE InductiveFor(t)'
    BY <1>0, <2>1 DEF TypeOK, InductiveFor, Register, IsLive, timers
  <2>2. CASE Unregister(u)
    BY <1>0, <2>2 DEF TypeOK, InductiveFor, Unregister, IsLive, timers
  <2>3. ASSUME NEW value \in BOOLEAN, SetLapsed(u, value) PROVE InductiveFor(t)'
    <3>1. UNCHANGED <<installed, messages, pc, live, desired, stored, withdrawn, tally>>
      BY <2>3 DEF SetLapsed
    <3>2. /\ subscriptions'[t] = None <=> subscriptions[t] = None
          /\ subscriptions[t] # None =>
               subscriptions'[t].message_type = subscriptions[t].message_type
      <4>1. CASE t = u
        <5>1. subscriptions[u] \in Row
          BY <2>3 DEF TypeOK, SetLapsed
        <5>2. subscriptions'[u] = [subscriptions[u] EXCEPT !.lapsed = value]
          BY <2>3 DEF TypeOK, SetLapsed
        <5>3. subscriptions'[u] \in Row
              /\ subscriptions'[u].message_type = subscriptions[u].message_type
          BY <5>1, <5>2 DEF Row
        <5> QED BY <4>1, <5>1, <5>3, SubscriptionAssumption
      <4>2. CASE t # u
        BY <2>3, <4>2 DEF TypeOK, SetLapsed
      <4> QED BY <4>1, <4>2
    <3> QED BY <1>0, <3>1, <3>2 DEF InductiveFor, IsLive
  <2>4. CASE Advertise(u)
    BY <1>0, <2>4 DEF InductiveFor, Advertise, IsLive, tables, timers
  <2> QED BY <1>1, <2>1, <2>2, <2>3, <2>4 DEF User, Keepalive, Lapse
<1>2. ASSUME NEW u \in Topics, Receive(u) PROVE InductiveFor(t)'
  <2>1. UNCHANGED <<installed, messages, subscriptions, pc, desired, stored, withdrawn>>
        /\ tally'["restart"] >= tally["restart"] /\ tally["restart"] \in Nat
        /\ tally'["restart"] \in Nat
    BY <1>2, CountType DEF TypeOK, Receive, Events, tables, timers
  <2>2. live'[t] = None <=> live[t] = None
    BY <1>2, ReceivedMailbox, SubscriptionAssumption DEF TypeOK
  <2>3. live[t] # None => /\ live[t] \in Live
                          /\ live'[t].message_type = live[t].message_type
                          /\ live'[t].sequence >= live[t].sequence
                          /\ live'[t].pending \in {live[t].pending, live'[t].sequence}
                          /\ live'[t].pending # live[t].pending =>
                               live'[t].sequence > live[t].sequence
    <3>1. CASE t = u
      BY <1>2, <3>1, ReceivedMailbox DEF Live
    <3>2. CASE t # u
      <4>1. live'[t] = live[t]
        BY <1>2, <3>2, ReceivedMailbox DEF TypeOK
      <4> QED BY <4>1 DEF TypeOK, Live
    <3> QED BY <3>1, <3>2
  <2>4. live[t] # None => live'[t].sequence \in Nat /\ live'[t].pending \in Nat
    BY <1>2, <2>2, StepTypeOK DEF TypeOK, Live
  <2> QED BY <1>0, <2>1, <2>2, <2>3, <2>4 DEF TypeOK, InductiveFor, IsLive, Live
<1>3. CASE CreateExtension
  BY <1>0, <1>3 DEF InductiveFor, CreateExtension, IsLive, timers
<1>4. CASE DropExtension
  BY <1>0, <1>4 DEF InductiveFor, DropExtension, Nowhere, IsLive, timers
<1>5. CASE Worker
  <2>1. CASE EndSpin
    BY <1>0, <2>1 DEF InductiveFor, EndSpin, AfterFlush, IsLive, tables
  <2>2. CASE Flush
    BY <2>2, FlushInductive
  <2>3. CASE ReadDesired
    <3>1. UNCHANGED <<installed, messages, subscriptions, live, stored, tally>>
      BY <2>3 DEF ReadDesired, tables
    <3>2. pc # "apply" /\ pc' = "apply"
      BY <2>3 DEF ReadDesired
    <3>3. subscriptions[t] = None => desired'[t] = None
      BY <2>3 DEF ReadDesired
    <3>4. subscriptions[t] # None => desired'[t] # None
      <4> SUFFICES ASSUME subscriptions[t] # None PROVE desired'[t] # None
        OBVIOUS
      <4>1. subscriptions[t] \in Row
        BY DEF TypeOK
      <4>2. desired'[t] = [requested_type |-> subscriptions[t].requested_type,
                           lapsed |-> subscriptions[t].lapsed]
        BY <2>3 DEF ReadDesired
      <4>3. desired'[t] \in Desired
        BY <4>1, <4>2 DEF Row, Desired
      <4> QED BY <4>3, SubscriptionAssumption
    <3>5. subscriptions[t] = None /\ t \in withdrawn => t \in withdrawn'
      BY <2>3 DEF ReadDesired
    <3> QED BY <1>0, <3>1, <3>2, <3>3, <3>4, <3>5 DEF InductiveFor, IsLive
  <2>4. CASE ReadDesiredFails
    <3>1. tally'["restart"] >= tally["restart"] /\ tally["restart"] \in Nat
          /\ tally'["restart"] \in Nat
      BY <2>4, CountType DEF TypeOK, ReadDesiredFails, Events
    <3> QED BY <1>0, <2>4, <3>1 DEF InductiveFor, ReadDesiredFails, IsLive, tables
  <2>5. CASE Reconcile
    BY <2>5, ReconcileInductive
  <2>6. CASE EndIteration
    BY <1>0, <2>6 DEF InductiveFor, EndIteration, IsLive, tables
  <2> QED BY <1>5, <2>1, <2>2, <2>3, <2>4, <2>5, <2>6 DEF Worker
<1>6. CASE FlushTimer \/ PollTimer
  BY <1>0, <1>6 DEF InductiveFor, FlushTimer, PollTimer, IsLive, tables
<1>7. CASE Rebuild \/ Crash
  <2>1. tally'["restart"] > 0 /\ tally'["restart"] \in Nat
    BY <1>7, CountType DEF TypeOK, Rebuild, Crash, Events
  <2>2. live'[t] = None /\ desired'[t] = None /\ stored'[t] = 0 /\ pc' # "apply"
        /\ UNCHANGED <<installed, subscriptions, messages>>
    BY <1>7 DEF Rebuild, Crash, ForgetSubscriptions, Nowhere, tables
  <2> QED BY <1>0, <2>1, <2>2 DEF InductiveFor, IsLive
<1>8. CASE Restart
  BY <1>0, <1>8 DEF InductiveFor, Restart, IsLive, tables
<1>9. CASE UNCHANGED vars
  BY <1>0, <1>9 DEF InductiveFor, vars, IsLive, tables
<1> QED BY <1>1, <1>2, <1>3, <1>4, <1>5, <1>6, <1>7, <1>8, <1>9 DEF Next

\* The inductive invariant holds throughout.
LEMMA InductiveHolds == Spec => []Inductive
<1>1. Init => Inductive
  BY InitInductive
<1>2. TypeOK /\ Inductive /\ [Next]_vars => Inductive'
  BY StepInductive
<1> QED BY <1>1, <1>2, TypeCorrect, PTL DEF Spec

\* Until a crash or a rebuild, every cached message has its subscription.
THEOREM CachedMessages == Spec => []CachedMessageHasSubscription
<1>1. Inductive => CachedMessageHasSubscription
  BY DEF Inductive, InductiveFor, CachedMessageHasSubscription
<1> QED BY <1>1, InductiveHolds, PTL

\* A row never shows another type than its live subscription has.
THEOREM ShownTypes == Spec => []ShownTypeIsSubscribedType
<1>1. Inductive => ShownTypeIsSubscribedType
  BY DEF Inductive, InductiveFor, ShownTypeIsSubscribedType
<1> QED BY <1>1, InductiveHolds, PTL

-----------------------------------------------------------------------------
(* What one step may do                                                    *)

\* A reconcile is the only step that ends the phase it runs in.
LEMMA ReconcileSteps ==
  ASSUME [Next]_vars, pc = "apply", pc' = "rest"
  PROVE  Reconcile
<1>1. ~UNCHANGED vars
  BY DEF vars
<1>2. ~(\E t \in Topics : User(t) \/ Receive(t))
  BY DEF User, Register, Unregister, Keepalive, Lapse, SetLapsed, Advertise, Receive
<1>3. ~(CreateExtension \/ DropExtension \/ FlushTimer \/ PollTimer)
  BY DEF CreateExtension, DropExtension, FlushTimer, PollTimer
<1>4. ~(Rebuild \/ Crash \/ Restart)
  BY DEF Rebuild, Crash, Restart
<1>5. ~(EndSpin \/ Flush \/ ReadDesired \/ ReadDesiredFails \/ EndIteration)
  BY DEF EndSpin, Flush, ReadDesired, ReadDesiredFails, EndIteration
<1> QED BY <1>1, <1>2, <1>3, <1>4, <1>5 DEF Next, Worker

\* A running session stops only what was withdrawn or has lapsed.
THEOREM StopsUnwanted == Spec => StopsOnlyUnwanted
<1>1. Inductive /\ [Next]_vars =>
        [\A t \in Topics : pc = "apply" /\ pc' = "rest" /\ IsLive(t) /\ live'[t] = None =>
           t \in withdrawn \/ t \in Expired]_vars
  <2> SUFFICES ASSUME Inductive, [Next]_vars, NEW t \in Topics, pc = "apply",
                      pc' = "rest", IsLive(t), live'[t] = None, t \notin Expired
               PROVE  t \in withdrawn
    OBVIOUS
  <2>1. live'[t] = LiveAfter(t)
    BY ReconcileSteps DEF Reconcile
  <2>2. t \notin Wanted
    <3> SUFFICES ASSUME t \in Wanted PROVE FALSE
      OBVIOUS
    <3>1. t \notin Subscribed
      BY DEF Subscribed, Missing
    <3> QED BY <2>1, <3>1 DEF LiveAfter, IsLive
  <2>3. desired[t] = None
    BY <2>2 DEF Wanted
  <2> QED BY <2>3 DEF Inductive, InductiveFor
<1> QED BY <1>1, InductiveHolds, PTL DEF Spec, StopsOnlyUnwanted

-----------------------------------------------------------------------------
(* The abstract view of one topic                                          *)

\* Counting another event leaves the number of restarts.
LEMMA RestartsKept ==
  ASSUME TypeOK, NEW limit,
         \/ tally' = tally
         \/ \E event \in {"message", "failure"} : Count(event, limit)
  PROVE  tally'["restart"] = tally["restart"]
<1>1. tally \in [Events -> Nat]
  BY DEF TypeOK, Events
<1>2. ASSUME NEW event \in {"message", "failure"}, Count(event, limit)
      PROVE  tally'["restart"] = tally["restart"]
  BY <1>1, <1>2 DEF Count, Events
<1> QED BY <1>2

\* What the abstract view of a topic is made of.
LEMMA LatestUnchanged ==
  ASSUME NEW t \in Topics, installed' = installed, live'[t] = live[t],
         stored'[t] = stored[t], messages'[t] = messages[t],
         tally'["restart"] = tally["restart"]
  PROVE  UNCHANGED Latest(t)!vars
BY DEF Latest!vars, IsLive

\* A callback accepts a message of its own topic.
LEMMA ReceiveAccepts ==
  ASSUME TypeOK, NEW u \in Topics, Receive(u), NEW t \in Topics
  PROVE  Latest(t)!Accept \/ UNCHANGED Latest(t)!vars
<1>1. UNCHANGED <<installed, messages, stored>>
  BY DEF Receive, tables
<1>2. tally'["restart"] = tally["restart"]
  BY RestartsKept DEF Receive
<1>3. CASE t = u
  <2>1. /\ live[t] # None /\ live'[t] # None
        /\ live'[t].sequence = live[t].sequence + 1
        /\ live'[t].pending \in {live[t].pending, live'[t].sequence}
    BY <1>3, ReceivedMailbox, SubscriptionAssumption
  <2> QED BY <1>1, <1>2, <2>1 DEF Latest!Accept, IsLive
<1>4. CASE t # u
  <2>1. live'[t] = live[t]
    BY <1>4, ReceivedMailbox DEF TypeOK
  <2> QED BY <1>1, <1>2, <2>1, LatestUnchanged
<1> QED BY <1>3, <1>4

\* A flush shows what is pending, or loses it without the extension.
LEMMA FlushShows ==
  ASSUME TypeOK, Inductive, Flush, NEW t \in Topics
  PROVE  Latest(t)!Show \/ Latest(t)!Lose \/ UNCHANGED Latest(t)!vars
<1>1. installed' = installed /\ tally' = tally /\ live'[t] = Emptied(t)
  BY DEF Flush
<1>2. InductiveFor(t)
  BY DEF Inductive
<1>3. CASE ~IsLive(t)
  <2>1. live'[t] = live[t] /\ t \notin Pending
    BY <1>1, <1>3 DEF Emptied, IsLive, Pending
  <2>2. stored'[t] = stored[t] /\ messages'[t] = messages[t]
    BY <2>1 DEF Flush
  <2> QED BY <1>1, <2>1, <2>2, LatestUnchanged
<1>4. CASE IsLive(t)
  <2>1. live[t] \in Live /\ live[t].pending \in Nat /\ stored[t] \in Nat
    BY <1>4 DEF TypeOK, IsLive, Live
  <2>2. /\ live'[t] # None /\ live'[t].sequence = live[t].sequence
        /\ live'[t].pending = 0
    BY <1>1, <1>4, <2>1, FlushedMailbox, SubscriptionAssumption DEF Emptied
  <2>3. CASE t \notin Pending
    <3>1. live[t].pending = 0
      BY <1>4, <2>3 DEF Pending
    <3>2. stored'[t] = stored[t] /\ messages'[t] = messages[t]
      BY <2>3 DEF Flush
    <3> QED BY <1>1, <1>4, <2>2, <3>1, <3>2 DEF Latest!vars, IsLive
  <2>4. CASE t \in Pending /\ installed
    <3>1. live[t].pending # 0 /\ stored[t] < live[t].pending
      BY <1>2, <2>4 DEF Pending, InductiveFor
    <3>2. /\ messages'[t] = [sequence |-> live[t].pending, received_at |-> clock]
          /\ stored'[t] = live[t].pending
      BY <2>4 DEF Flush
    <3>3. messages'[t].sequence = live[t].pending /\ messages'[t] # None
      <4>1. messages'[t] \in Message
        BY <2>1, <3>1, <3>2 DEF TypeOK, Message
      <4> QED BY <3>2, <4>1, SubscriptionAssumption
    <3> QED BY <1>1, <1>4, <2>1, <2>2, <2>4, <3>1, <3>2, <3>3 DEF Latest!Show, IsLive
  <2>5. CASE t \in Pending /\ ~installed
    <3>1. stored' = stored /\ messages' = messages
      BY <2>5 DEF Flush
    <3> QED BY <1>1, <1>4, <2>2, <2>5, <3>1 DEF Latest!Lose, IsLive
  <2> QED BY <2>3, <2>4, <2>5
<1> QED BY <1>3, <1>4

\* A reconcile opens, keeps or closes a subscription.
LEMMA ReconcileOpens ==
  ASSUME TypeOK, Inductive, Reconcile, NEW t \in Topics
  PROVE  Latest(t)!Open \/ Latest(t)!Close \/ UNCHANGED Latest(t)!vars
<1>1. installed' = installed /\ tally' = tally /\ live'[t] = LiveAfter(t)
  BY DEF Reconcile
<1>2. InductiveFor(t)
  BY DEF Inductive
<1>3. CASE t \in Subscribed
  <2>1. ~IsLive(t) /\ t \notin Expired /\ t \notin Removed
    BY <1>3 DEF Subscribed, Missing, Wanted, Removed
  <2>2. stored'[t] = 0 /\ messages'[t] = messages[t]
    BY <1>3, <2>1 DEF Reconcile
  <2>3. live'[t] # None /\ live'[t].sequence = 0 /\ live'[t].pending = 0
    <3> DEFINE kind == ResolvedType(t)
               box == [message_type |-> kind, sequence |-> 0, pending |-> 0,
                       error |-> FALSE]
    <3>1. live'[t] = box
      BY <1>1, <1>3 DEF LiveAfter
    <3>2. kind \in Types
      BY <1>3, ResolvedTypeIsType
    <3> HIDE DEF kind
    <3>3. box \in Live /\ box.sequence = 0 /\ box.pending = 0
      BY <3>2 DEF Live
    <3> HIDE DEF box
    <3> QED BY <3>1, <3>3, SubscriptionAssumption
  <2> QED BY <1>1, <2>1, <2>2, <2>3 DEF Latest!Open, IsLive
<1>4. CASE t \in Wanted \ Subscribed
  <2>1. /\ live'[t] = live[t] /\ stored'[t] = stored[t] /\ messages'[t] = messages[t]
    BY <1>1, <1>4 DEF LiveAfter, Reconcile, Wanted, Removed
  <2> QED BY <1>1, <2>1, LatestUnchanged
<1>5. CASE t \notin Wanted
  <2>1. live'[t] = None /\ stored'[t] = 0
    BY <1>1, <1>5 DEF LiveAfter, Reconcile, Subscribed, Missing
  <2>2. CASE IsLive(t) \/ t \in Expired
    <3>1. messages'[t] = None
      BY <1>5, <2>2 DEF Reconcile, Removed
    <3> QED BY <1>1, <2>1, <3>1 DEF Latest!Close, Latest!Ended, IsLive
  <2>3. CASE ~IsLive(t) /\ t \notin Expired
    <3>1. messages'[t] = messages[t] /\ live'[t] = live[t]
      BY <2>1, <2>3 DEF Reconcile, Removed, IsLive
    <3>2. stored[t] = 0
      BY <1>2, <2>3 DEF TypeOK, InductiveFor
    <3> QED BY <1>1, <2>1, <3>1, <3>2, LatestUnchanged
  <2> QED BY <2>2, <2>3
<1> QED BY <1>3, <1>4, <1>5

\* Every step is a step of the abstract view of a topic, or none.
LEMMA StepLatest ==
  ASSUME TypeOK, Inductive, [Next]_vars, NEW t \in Topics
  PROVE  Latest(t)!Next \/ UNCHANGED Latest(t)!vars
<1>1. CASE \/ \E u \in Topics : User(u)
           \/ EndSpin \/ ReadDesired \/ EndIteration
           \/ FlushTimer \/ PollTimer \/ Restart \/ UNCHANGED vars
  <2>1. UNCHANGED <<installed, live, stored, messages, tally>>
    BY <1>1 DEF User, Register, Unregister, Keepalive, Lapse, SetLapsed, Advertise,
      EndSpin, ReadDesired, EndIteration, FlushTimer, PollTimer, Restart, vars, tables
  <2> QED BY <2>1, LatestUnchanged
<1>2. CASE ReadDesiredFails
  <2>1. UNCHANGED <<installed, live, stored, messages>>
    BY <1>2 DEF ReadDesiredFails, tables
  <2>2. tally'["restart"] = tally["restart"]
    BY <1>2, RestartsKept DEF ReadDesiredFails
  <2> QED BY <2>1, <2>2, LatestUnchanged
<1>3. CASE CreateExtension
  BY <1>3 DEF CreateExtension, Latest!Next, Latest!Create, IsLive
<1>4. CASE DropExtension
  BY <1>4 DEF DropExtension, Nowhere, Latest!Next, Latest!Drop, IsLive
<1>5. CASE Rebuild \/ Crash
  <2>1. Count("restart", MaxRestarts) /\ ForgetSubscriptions
    BY <1>5 DEF Rebuild, Crash
  <2>2. tally'["restart"] = tally["restart"] + 1
    BY <2>1 DEF Count, TypeOK
  <2>3. live'[t] = None /\ stored'[t] = 0 /\ UNCHANGED <<installed, messages>>
    BY <2>1 DEF ForgetSubscriptions, Nowhere, tables
  <2> QED BY <2>2, <2>3 DEF Latest!Next, Latest!StartAnew, Latest!Ended, IsLive
<1>6. CASE \E u \in Topics : Receive(u)
  BY <1>6, ReceiveAccepts DEF Latest!Next
<1>7. CASE Flush
  BY <1>7, FlushShows DEF Latest!Next
<1>8. CASE Reconcile
  BY <1>8, ReconcileOpens DEF Latest!Next
<1> QED BY <1>1, <1>2, <1>3, <1>4, <1>5, <1>6, <1>7, <1>8 DEF Next, Worker

\* The cached message of every topic is the latest, as LatestMessage says.
THEOREM LatestImplemented == Spec => ImplementsLatest
<1>1. Init => \A t \in Topics : Latest(t)!Init
  BY DEF Init, Nowhere, IsLive, Latest!Init
<1>2. TypeOK /\ Inductive /\ [Next]_vars =>
        [\A t \in Topics : [Latest(t)!Next]_(Latest(t)!vars)]_vars
  BY StepLatest
<1> QED BY <1>1, <1>2, TypeCorrect, InductiveHolds, PTL DEF Spec, ImplementsLatest
=============================================================================
