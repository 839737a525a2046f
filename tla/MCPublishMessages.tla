-------------------------- MODULE MCPublishMessages --------------------------
(* A small instance of PublishMessages for TLC: two message types and JSON *)
(* messages that differ from what fits them in one way each.               *)
EXTENDS PublishMessages, TLC, SequencesExt

CONSTANTS mixed, deep

Boolean == [shape |-> "boolean", default |-> FALSE]
Int2 == [shape |-> "integer", low |-> -2, high |-> 1, default |-> 1]
Double == [shape |-> "double", default |-> Finite(0)]
Single == [shape |-> "float", default |-> Finite(0)]
LongDouble == [shape |-> "long double", default |-> 0]
String2 == [shape |-> "string", bound |-> 2, default |-> <<>>]
SequenceOf(kind) == [shape |-> "sequence", of |-> kind, default |-> <<>>]
Pair == [shape |-> "array", of |-> Int2, default |-> <<1, 0>>]
AtMostOne == [shape |-> "bounded sequence", of |-> Double, bound |-> 1, default |-> <<>>]
Record(fields) ==
  [shape |-> "message", fields |-> fields, names |-> SetToSeq(DOMAIN fields),
   default |-> [name \in DOMAIN fields |-> fields[name].default]]
Flag == Record([g |-> Boolean])
Long == Record([k |-> LongDouble])
Flags == Record([i |-> SequenceOf(Flag)])
Mixed == Record([a |-> Int2, b |-> Single, c |-> String2, d |-> Pair, e |-> AtMostOne,
                 f |-> Flag])
Deep == Record([h |-> Flags, j |-> SequenceOf(Long)])

MCKinds == {Boolean, Int2, Double, Single, LongDouble, String2, Pair, AtMostOne, Flag,
            Long, SequenceOf(Flag), Flags, SequenceOf(Long), Mixed, Deep}

MCLayout == mixed :> Mixed @@ deep :> Deep

MCNumberSize(n) == Len(ToString(n))

\* The operators of parts are the operators.  Each goes through a LET, where
\* TLC's count of how often an expression is evaluated stops to follow it.
MCAssign(kind, slot, item) == LET result == Assign(kind, slot, item) IN result
MCWrite(out, kind, value, depth) == LET result == Write(out, kind, value, depth) IN result
MCJson(kind, value) == LET result == Json(kind, value) IN result
MCValid(item) == LET result == Valid(item) IN result
MCTyped(kind, value) == LET result == Typed(kind, value) IN result
MCMeans(kind, before, item, value) == LET result == Means(kind, before, item, value) IN result
MCPrinted(kind, value) == LET result == Printed(kind, value) IN result
MCBytes(kind, value) == LET result == Bytes(kind, value) IN result
MCEncodable(kind, value, levels) == LET result == Encodable(kind, value, levels) IN result

Integer(n) == [json |-> "number", integral |-> TRUE, value |-> n]
Real(n) == [json |-> "number", integral |-> FALSE, value |-> n]
True == [json |-> "boolean", flag |-> TRUE]
Text(chars) == [json |-> "string", text |-> chars]
List(items) == [json |-> "array", items |-> items]
Object(members) == [json |-> "object", members |-> members]
Empty == Object(<<>>)

MCMessages ==
  {Empty, Null, List(<<>>), Object([z |-> Null])}
  \cup {Object([a |-> item]) : item \in {Integer(-3), Integer(-2), Integer(2), Real(1), Null}}
  \cup {Object([b |-> item]) : item \in {Null, Integer(5), Integer(21), Real(-40), True}}
  \cup {Object([c |-> item]) :
          item \in {Text(<<"a", "q">>), Text(<<"q", "q">>), Text(<<"a", "a", "a">>), Integer(1)}}
  \cup {Object([d |-> List(items)]) : items \in {<<Integer(0)>>, <<Integer(0), Integer(1)>>, <<Integer(0), Integer(2)>>}}
  \cup {Object([e |-> List(items)]) : items \in {<<>>, <<Real(17)>>, <<Null>>, <<Null, Null>>}}
  \cup {Object([f |-> item]) : item \in {Empty, Object([g |-> True]), Object([z |-> True])}}
  \cup {Object([a |-> Integer(0), b |-> Real(12), e |-> List(<<Null>>)])}
  \cup {Object([h |-> Object([i |-> List(<<Object([g |-> True])>>)])])}
  \cup {Object([j |-> List(<<item>>)]) : item \in {Empty, Object([k |-> Integer(1)])}}
=============================================================================
