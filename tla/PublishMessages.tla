--------------------------- MODULE PublishMessages ---------------------------
(***************************************************************************)
(* The messages a publish session sends: PublishSession with the decoder   *)
(* of MessageJson.  What it sends may come back through a subscription as  *)
(* the payload its encoder makes of it.                                    *)
(***************************************************************************)
EXTENDS PublishSession, MessageJson

CONSTANT Layout  \* the ROS type behind the name

ASSUME LayoutAssumption ==
  /\ Layout \in [Types -> Kinds]
  /\ \A message \in Messages : Valid(message)

\* build_message: default values, then the JSON object.
BuildFromJson(kind, message) == Decode(Layout[kind], message)

Sample == [kind |-> Layout[resolved], message |-> dynamic]

-----------------------------------------------------------------------------
(* Properties                                                              *)

\* "Only the fields present are written; absent fields keep the message type's
\* defaults, and unknown fields are rejected": the sample sent is what the
\* statement's JSON says, to the precision of its floats.
SampleMeansMessage ==
  sent = 1 /\ Running =>
    Means(Sample.kind, Sample.kind.default, request.message, Sample.message)

\* A sample can be encoded if and only if its whole JSON text fits the limit, it
\* is not nested too deeply and holds no long double; the text is then as long
\* as that JSON, and publishing it again sends the same sample, but for
\* infinities, which become NaN.
PayloadRoundTrips ==
  sent = 1 /\ Running =>
    LET json == Json(Sample.kind, Sample.message)
        size == ENVELOPE + Bytes(Sample.kind, Sample.message) + 1
    IN  IF size <= LIMIT /\ Encodable(Sample.kind, Sample.message, NESTING + 1)
        THEN /\ Payload(Sample.kind, Sample.message) = {size}
             /\ Decode(Sample.kind, json) = {Printed(Sample.kind, Sample.message)}
        ELSE Payload(Sample.kind, Sample.message) = {}

\* "Values that do not fit a field's type or array length fail the statement
\* and publish nothing": no number of the JSON message has become infinite.
FloatsFit ==
  sent = 1 /\ Running => Printed(Sample.kind, Sample.message) = Sample.message
=============================================================================
