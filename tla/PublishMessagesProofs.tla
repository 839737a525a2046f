------------------------ MODULE PublishMessagesProofs ------------------------
(***************************************************************************)
(* What a statement sends is what its JSON message means, for all types    *)
(* and messages: PublishSessionProofs say when a sample is sent, and       *)
(* MessageJsonProofs what the decoder makes of the message.                *)
(***************************************************************************)
EXTENDS PublishMessages, PublishSessionProofs, MessageJsonProofs

\* The session builds its messages with the decoder.
BuildClosed ==
  \A kind \in Types, message \in Messages :
    Build(kind, message) = BuildFromJson(kind, message)

\* From where it is built to the end of the statement, the message is one that
\* the type in use makes of the statement's JSON.
BuiltInv ==
  pc \in {"create", "wait", "publish", "flush"} =>
    dynamic \in Build(resolved, request.message)

\* Every step keeps the message built.
LEMMA StepBuilt == BuiltInv /\ [Next]_vars => BuiltInv'
<1> SUFFICES ASSUME BuiltInv, [Next]_vars PROVE BuiltInv'
  OBVIOUS
<1>1. CASE \/ ChangePublishers \/ Deadline \/ UNCHANGED vars
           \/ \E kind \in Types : ChangeSubscription(kind) \/ Notice(kind)
  <2>1. UNCHANGED <<pc, dynamic, resolved, request>>
    BY <1>1 DEF ChangePublishers, Deadline, ChangeSubscription, Notice, vars, statement
  <2> QED BY <2>1 DEF BuiltInv
<1>2. CASE \/ Publish \/ CallFails \/ Cancelled \/ EnterSession \/ Discover
           \/ DiscoverFails \/ BuildFails \/ Return
  <2>1. pc' \in {"idle", "session", "discover", "build"}
    BY <1>2 DEF Publish, CallFails, Cancelled, EnterSession, AfterSession, Discover,
      DiscoverFails, BuildFails, Return, Fail, EndStatement
  <2> QED BY <2>1 DEF BuiltInv
<1>3. CASE BuildMessage
  BY <1>3 DEF BuildMessage, BuiltInv
<1>4. CASE CreatePublisher \/ WaitForSubscriber \/ PublishSample
  <2>1. /\ UNCHANGED <<dynamic, resolved, request>>
        /\ pc \in {"create", "wait", "publish"}
    BY <1>4 DEF CreatePublisher, WaitForSubscriber, PublishSample, statement
  <2> QED BY <2>1 DEF BuiltInv
<1> QED BY <1>1, <1>2, <1>3, <1>4 DEF Next, Statement

\* The sample of a statement that has sent one, in its type.
LEMMA SampleBuilt ==
  ASSUME BuildClosed, TypeInv, SampleInv, BuiltInv, sent = 1, Running
  PROVE  /\ Sample.kind \in Kinds /\ Valid(request.message)
         /\ Sample.message \in Decode(Sample.kind, request.message)
<1>1. pc = "flush"
  BY DEF SampleInv, TypeInv, TypeOK, Running
<1>2. resolved \in Types /\ request.message \in Messages
  BY <1>1 DEF TypeInv, Resolved, Running
<1>3. Layout[resolved] \in Kinds /\ Valid(request.message)
  BY <1>2, LayoutAssumption
<1>4. dynamic \in Decode(Layout[resolved], request.message)
  BY <1>1, <1>2 DEF BuiltInv, BuildClosed, BuildFromJson
<1>5. Sample.kind = Layout[resolved] /\ Sample.message = dynamic
  BY DEF Sample
<1> QED BY <1>3, <1>4, <1>5

\* Every sample that is sent is what the statement's JSON says, to the precision
\* of its floats; the fields it leaves out have the type's defaults.
THEOREM SampleMeant ==
  ASSUME BuildClosed, DecodingClosed
  PROVE  Spec => []SampleMeansMessage
<1>1. Init => SampleInv /\ BuiltInv
  BY DEF Init, SampleInv, OutcomeTellsSamples, Running, BuiltInv
<1>2. ASSUME TypeInv, SampleInv, BuiltInv, sent = 1, Running
      PROVE  Means(Sample.kind, Sample.kind.default, request.message, Sample.message)
  <2>1. /\ Sample.kind \in Kinds /\ Valid(request.message)
        /\ Sample.message \in Assign(Sample.kind, Sample.kind.default, request.message)
    BY <1>2, SampleBuilt DEF Decode
  <2>2. Typed(Sample.kind, Sample.kind.default)
    BY <2>1, KindAssumption
  <2> QED BY <2>1, <2>2, DecodeFaithful DEF Faithful
<1>3. TypeInv /\ SampleInv /\ BuiltInv => SampleMeansMessage
  BY <1>2 DEF SampleMeansMessage
<1> QED BY <1>1, <1>3, InitTypeInv, StepTypeInv, StepSample, StepBuilt, PTL DEF Spec

\* Every sample that is sent fits a payload if and only if its whole JSON text
\* does, and that payload, published again, sends the same sample but for
\* infinities.
THEOREM PayloadsRoundTrip ==
  ASSUME BuildClosed, DecodingClosed, EncodingClosed
  PROVE  Spec => []PayloadRoundTrips
<1>1. Init => SampleInv /\ BuiltInv
  BY DEF Init, SampleInv, OutcomeTellsSamples, Running, BuiltInv
<1>2. ASSUME TypeInv, SampleInv, BuiltInv, sent = 1, Running
      PROVE  LET json == Json(Sample.kind, Sample.message)
                 size == ENVELOPE + Bytes(Sample.kind, Sample.message) + 1
             IN  IF size <= LIMIT /\ Encodable(Sample.kind, Sample.message, NESTING + 1)
                 THEN /\ Payload(Sample.kind, Sample.message) = {size}
                      /\ Decode(Sample.kind, json) = {Printed(Sample.kind, Sample.message)}
                 ELSE Payload(Sample.kind, Sample.message) = {}
  <2> DEFINE kind == Sample.kind
             value == Sample.message
  <2>1. /\ kind \in Kinds /\ Valid(request.message)
        /\ value \in Assign(kind, kind.default, request.message)
    BY <1>2, SampleBuilt DEF Decode
  <2> HIDE DEF kind, value
  <2>2. Typed(kind, kind.default)
    BY <2>1, KindAssumption
  <2>3. Typed(kind, value)
    BY <2>1, <2>2, DecodeFaithful DEF Faithful
  <2>4. Payload(kind, value) =
          IF /\ ENVELOPE + Bytes(kind, value) + 1 <= LIMIT
             /\ Encodable(kind, value, NESTING + 1)
          THEN {ENVELOPE + Bytes(kind, value) + 1} ELSE {}
    BY <2>1, <2>3, PayloadSize
  <2>5. Encodable(kind, value, NESTING + 1) =>
          Decode(kind, Json(kind, value)) = {Printed(kind, value)}
    BY <2>1, <2>2, <2>3, EveryValueRoundTrips DEF RoundTrips, Decode
  <2> QED BY <2>4, <2>5 DEF kind, value
<1>3. TypeInv /\ SampleInv /\ BuiltInv => PayloadRoundTrips
  BY <1>2 DEF PayloadRoundTrips
<1> QED BY <1>1, <1>3, InitTypeInv, StepTypeInv, StepSample, StepBuilt, PTL DEF Spec
=============================================================================
