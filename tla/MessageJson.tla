----------------------------- MODULE MessageJson -----------------------------
(***************************************************************************)
(* JSON and ROS messages: decode of src/src/publish/json.rs, and the       *)
(* bounded writer of src/src/subscriptions/json.rs.                        *)
(*                                                                         *)
(* A JSON value is a tagged record: null, boolean, string, number (whether *)
(* it is an integer of 64 bits, and its value), array, object.  A ROS type *)
(* is a record as well: its shape, what that shape is of, and the value it *)
(* starts with.  Characters are "a", one byte, or "q", one that JSON       *)
(* escapes.  Floats are integers with few significant bits, so that they   *)
(* round and overflow as floats do; what is said of the widths holds in    *)
(* proportion.                                                             *)
(*                                                                         *)
(* A step that may fail returns a set: of its one result, or empty.        *)
(*                                                                         *)
(* Types nest, and so do the operators.  What one does with a part of a    *)
(* value is a constant operator, ...Part, that a configuration sets to the *)
(* operator itself: the recursion is closed there, and what a proof needs  *)
(* of it is that equation.                                                 *)
(***************************************************************************)
EXTENDS Integers, Sequences, FiniteSets

CONSTANTS
  Kinds,         \* ROS types: of messages, and of their parts
  FLOAT_EXACT,   \* all integers below are f32 (2^24)
  DOUBLE_EXACT,  \* ... and f64 (2^53)
  FLOAT_MAX,     \* the greatest f32
  INT64_MAGNITUDE, \* of the least i64 (2^63)
  UINT64_MAX,      \* the greatest u64
  NAME_SIZE,     \* bytes of a field's name in quotes
  ENVELOPE,      \* bytes of a payload around its message
  LIMIT,         \* bytes of a payload (NOTIFY_LIMIT, or the table's)
  NESTING,       \* deepest message (64)
  NumberSize(_), \* bytes of a number in decimal
  \* The operators below, of the parts of a value.
  AssignPart(_, _, _), WritePart(_, _, _, _), JsonPart(_, _),
  ValidPart(_), TypedPart(_, _), MeansPart(_, _, _, _), PrintedPart(_, _),
  BytesPart(_, _), EncodablePart(_, _, _)

Lists == {"array", "sequence", "bounded sequence"}
Shapes ==
  Lists \cup {"integer", "float", "double", "long double", "boolean", "string", "message"}
Characters == {"a", "q"}

\* The types of a type's parts.
PartKinds(kind) ==
  CASE kind.shape \in Lists -> {kind.of}
    [] kind.shape = "message" -> {kind.fields[name] : name \in DOMAIN kind.fields}
    [] OTHER -> {}

Null == [json |-> "null"]

-----------------------------------------------------------------------------
(* Floating point                                                          *)

Finite(n) == [finite |-> TRUE, value |-> n]
NaN == [finite |-> FALSE, value |-> 0]
Infinite(sign) == [finite |-> FALSE, value |-> sign]

Magnitude(n) == IF n < 0 THEN -n ELSE n
Sign(n) == IF n < 0 THEN -1 ELSE 1

\* The greatest float up to a number, and how far the next one is from it.
Below(exact) ==
  LET below[n \in Nat] == IF n < exact THEN n ELSE 2 * below[n \div 2] IN below
Unit(exact) ==
  LET unit[n \in Nat] == IF n < exact THEN 1 ELSE 2 * unit[n \div 2] IN unit

\* Round to nearest, ties to even.
Rounded(exact, n) ==
  LET below == Below(exact)[Magnitude(n)]
      unit == Unit(exact)[Magnitude(n)]
      rest == 2 * (Magnitude(n) - below)
      up == rest > unit \/ (rest = unit /\ (below \div unit) % 2 = 1)
  IN  Sign(n) * (IF up THEN below + unit ELSE below)

\* `as f32`: what is too large becomes infinite.
Narrow(x) ==
  IF ~x.finite THEN x
  ELSE LET n == Rounded(FLOAT_EXACT, x.value)
       IN  IF Magnitude(n) > FLOAT_MAX THEN Infinite(Sign(n)) ELSE Finite(n)

-----------------------------------------------------------------------------
(* Decoding                                                                *)

\* The results of the parts of a whole: all, or none.
Whole(results) ==
  IF \E x \in DOMAIN results : results[x] = {} THEN {}
  ELSE {[x \in DOMAIN results |-> CHOOSE value \in results[x] : TRUE]}

\* integer: as_i64 or as_u64, then the field's own width.
Integers(kind, item) ==
  IF item.json = "number" /\ item.integral /\ item.value \in kind.low..kind.high
  THEN {item.value} ELSE {}

\* float64: null is NaN, an integer is rounded as as_f64 does.
Doubles(item) ==
  CASE item.json = "null" -> {NaN}
    [] item.json = "number" -> {Finite(Rounded(DOUBLE_EXACT, item.value))}
    [] OTHER -> {}

\* Mutant: a message starts from nothing, so fields it does not know pass.
KnownAnyway(kind, members) == TRUE

\* No member of the object is unknown to the message.
Known(kind, members) == DOMAIN members \subseteq DOMAIN kind.fields

\* The elements of a JSON array, each written to the slot it finds.
Elements(kind, item, slots) ==
  IF kind.shape = "long double" THEN {}
  ELSE Whole([i \in DOMAIN item.items |-> AssignPart(kind, slots[i], item.items[i])])

\* What elements of a sequence are reset to.
Reset(kind, item) == [i \in DOMAIN item.items |-> kind.default]

\* array: as many items as elements, which keep what an item does not say.
Array(kind, slot, item) ==
  IF item.json = "array" /\ Len(item.items) = Len(slot)
  THEN Elements(kind.of, item, slot) ELSE {}

\* sequence: it is reset to as many elements as there are items.
Sequence(kind, item) ==
  IF item.json = "array" THEN Elements(kind.of, item, Reset(kind.of, item)) ELSE {}

\* bounded_sequence: likewise, up to the bound.
BoundedSequence(kind, item) ==
  IF item.json = "array" /\ Len(item.items) <= kind.bound
  THEN Elements(kind.of, item, Reset(kind.of, item)) ELSE {}

\* message_view: the fields the object has are written, the others stay.
Message(kind, slot, item) ==
  IF item.json = "object" /\ Known(kind, item.members)
  THEN Whole([name \in DOMAIN kind.fields |->
                IF name \in DOMAIN item.members
                THEN AssignPart(kind.fields[name], slot[name], item.members[name])
                ELSE {slot[name]}])
  ELSE {}

\* simple: one value of the field's type.
Simple(kind, slot, item) ==
  CASE kind.shape = "integer" -> Integers(kind, item)
    [] kind.shape = "float" -> {Narrow(x) : x \in Doubles(item)}
    [] kind.shape = "double" -> Doubles(item)
    [] kind.shape = "boolean" -> IF item.json = "boolean" THEN {item.flag} ELSE {}
    [] kind.shape = "string" ->
         IF item.json = "string" /\ Len(item.text) <= kind.bound
         THEN {item.text} ELSE {}
    [] kind.shape = "message" -> Message(kind, slot, item)
    [] kind.shape = "long double" -> {}

\* value_mut: what a slot that holds `slot` holds once `item` is written to it.
Assign(kind, slot, item) ==
  CASE kind.shape = "array" -> Array(kind, slot, item)
    [] kind.shape = "sequence" -> Sequence(kind, item)
    [] kind.shape = "bounded sequence" -> BoundedSequence(kind, item)
    [] OTHER -> Simple(kind, slot, item)

Decode(kind, item) == Assign(kind, kind.default, item)

-----------------------------------------------------------------------------
(* Encoding                                                                *)

Number(n) ==
  [json |-> "number", integral |-> n \in -INT64_MAGNITUDE..UINT64_MAX, value |-> n]

\* A float prints all its digits; what is not finite prints as null.
Float(x) == IF x.finite THEN Number(x.value) ELSE Null

\* What a payload says of a message, read back.
Json(kind, value) ==
  CASE kind.shape = "integer" -> Number(value)
    [] kind.shape \in {"float", "double"} -> Float(value)
    [] kind.shape = "boolean" -> [json |-> "boolean", flag |-> value]
    [] kind.shape = "string" -> [json |-> "string", text |-> value]
    [] kind.shape \in Lists ->
         [json |-> "array", items |-> [i \in DOMAIN value |-> JsonPart(kind.of, value[i])]]
    [] kind.shape = "message" ->
         [json |-> "object",
          members |-> [name \in DOMAIN value |-> JsonPart(kind.fields[name], value[name])]]
    [] OTHER -> Null

FloatSize(x) == IF x.finite THEN NumberSize(x.value) ELSE 4
BooleanSize(flag) == IF flag THEN 4 ELSE 5
StringSize(text) == Len(text) + Cardinality({i \in DOMAIN text : text[i] = "q"}) + 2

\* Mutant: only the limit of the raw text of strings is kept.
PushAnyway(out, size) == {used + size : used \in out}

\* An output is the number of bytes it holds.
Push(out, size) == {used + size : used \in {u \in out : u + size <= LIMIT}}

\* A string must fit twice: as it is into an output of its own, then escaped.
PushString(out, text) ==
  IF Len(text) <= LIMIT THEN Push(out, StringSize(text)) ELSE {}

Comma(out, i) == IF i > 1 THEN Push(out, 1) ELSE out

\* What a whole is written as: its parts, each after so many bytes of its label.
Items(kind, values) ==
  [i \in DOMAIN values |-> [label |-> 0, kind |-> kind, value |-> values[i]]]
Fields(kind, value) ==
  [i \in DOMAIN kind.names |->
     [label |-> NAME_SIZE + 1, kind |-> kind.fields[kind.names[i]],
      value |-> value[kind.names[i]]]]

\* Output.array, and message alike: brackets, and commas between the pieces.
WriteAll(out, pieces, depth) ==
  LET written[i \in 0..Len(pieces)] ==
        IF i = 0 THEN Push(out, 1)
        ELSE WritePart(Push(Comma(written[i - 1], i), pieces[i].label),
                       pieces[i].kind, pieces[i].value, depth)
  IN  Push(written[Len(pieces)], 1)

\* Output.message: each level of messages is one deeper.
WriteMessage(out, kind, value, depth) ==
  IF depth > NESTING THEN {} ELSE WriteAll(out, Fields(kind, value), depth + 1)

\* Output.value: the bytes written, or none if the limit or the nesting is
\* exceeded or a long double found.
Write(out, kind, value, depth) ==
  CASE kind.shape = "integer" -> Push(out, NumberSize(value))
    [] kind.shape \in {"float", "double"} -> Push(out, FloatSize(value))
    [] kind.shape = "boolean" -> Push(out, BooleanSize(value))
    [] kind.shape = "string" -> PushString(out, value)
    [] kind.shape = "message" -> WriteMessage(out, kind, value, depth)
    [] kind.shape = "long double" -> {}
    [] kind.shape \in Lists ->
         IF kind.of.shape = "long double" THEN {}
         ELSE WriteAll(out, Items(kind.of, value), depth)

Payload(kind, value) == Push(Write(Push({0}, ENVELOPE), kind, value, 0), 1)

-----------------------------------------------------------------------------
(* References, by what they mean rather than how they are computed         *)

\* Halving it while it is even leaves few enough bits.
Representable(exact) ==
  LET representable[n \in Nat] ==
        n < exact \/ (n % 2 = 0 /\ representable[n \div 2])
  IN  representable

Between(x, y) == IF x < y THEN (x + 1)..(y - 1) ELSE (y + 1)..(x - 1)

Exact(kind) == IF kind.shape = "float" THEN FLOAT_EXACT ELSE DOUBLE_EXACT

\* A float stands for a number if no other one is nearer on its side; too large
\* a number may have become infinite.
StandsFor(kind, x, n) ==
  IF x.finite
  THEN /\ Representable(Exact(kind))[Magnitude(x.value)]
       /\ \A m \in Between(x.value, n) : ~Representable(Exact(kind))[Magnitude(m)]
  ELSE kind.shape = "float" /\ x.value = Sign(n) /\ Magnitude(n) > FLOAT_MAX

\* The message a JSON value describes, where it says nothing as before.
Means(kind, before, item, value) ==
  CASE kind.shape = "integer" ->
         item.json = "number" /\ value = item.value /\ value \in kind.low..kind.high
    [] kind.shape \in {"float", "double"} ->
         \/ item.json = "null" /\ value = NaN
         \/ item.json = "number" /\ StandsFor(kind, value, item.value)
    [] kind.shape = "boolean" -> item.json = "boolean" /\ value = item.flag
    [] kind.shape = "string" ->
         item.json = "string" /\ value = item.text /\ Len(value) <= kind.bound
    [] kind.shape = "array" ->
         /\ item.json = "array"
         /\ DOMAIN item.items = DOMAIN before
         /\ DOMAIN value = DOMAIN before
         /\ \A i \in DOMAIN value : MeansPart(kind.of, before[i], item.items[i], value[i])
    [] kind.shape \in {"sequence", "bounded sequence"} ->
         /\ item.json = "array"
         /\ DOMAIN value = DOMAIN item.items
         /\ kind.shape = "bounded sequence" => Len(value) <= kind.bound
         /\ \A i \in DOMAIN value :
              MeansPart(kind.of, kind.of.default, item.items[i], value[i])
    [] kind.shape = "message" ->
         /\ item.json = "object"
         /\ DOMAIN value = DOMAIN kind.fields
         /\ DOMAIN item.members \subseteq DOMAIN value
         /\ \A name \in DOMAIN value :
              IF name \in DOMAIN item.members
              THEN MeansPart(kind.fields[name], before[name], item.members[name],
                             value[name])
              ELSE value[name] = before[name]
    [] OTHER -> FALSE

\* The message without what JSON cannot say of it.
Printed(kind, value) ==
  CASE kind.shape \in {"float", "double"} -> IF value.finite THEN value ELSE NaN
    [] kind.shape \in Lists ->
         [i \in DOMAIN value |-> PrintedPart(kind.of, value[i])]
    [] kind.shape = "message" ->
         [name \in DOMAIN value |-> PrintedPart(kind.fields[name], value[name])]
    [] OTHER -> value

\* The bytes of a whole text: pieces and brackets, and commas between.
BytesOfAll(pieces) ==
  LET total[i \in 0..Len(pieces)] ==
        IF i = 0 THEN 2
        ELSE total[i - 1] + (IF i > 1 THEN 1 ELSE 0) + pieces[i].label
               + BytesPart(pieces[i].kind, pieces[i].value)
  IN  total[Len(pieces)]

Bytes(kind, value) ==
  CASE kind.shape = "integer" -> NumberSize(value)
    [] kind.shape \in {"float", "double"} -> FloatSize(value)
    [] kind.shape = "boolean" -> BooleanSize(value)
    [] kind.shape = "string" -> StringSize(value)
    [] kind.shape \in Lists -> BytesOfAll(Items(kind.of, value))
    [] kind.shape = "message" -> BytesOfAll(Fields(kind, value))
    [] OTHER -> 0

\* Whether messages are nested at most so deep, and no part is a long double.
Encodable(kind, value, levels) ==
  CASE kind.shape = "long double" -> FALSE
    [] kind.shape \in Lists ->
         /\ kind.of.shape # "long double"
         /\ \A i \in DOMAIN value : EncodablePart(kind.of, value[i], levels)
    [] kind.shape = "message" ->
         /\ levels > 0
         /\ \A name \in DOMAIN value :
              EncodablePart(kind.fields[name], value[name], levels - 1)
    [] OTHER -> TRUE

-----------------------------------------------------------------------------
(* Well-formed values                                                      *)

IsSequence(s) == s \in Seq({s[i] : i \in DOMAIN s})

\* A JSON value.
Valid(item) ==
  CASE item.json = "number" -> item.value \in Int
    [] item.json = "boolean" -> item.flag \in BOOLEAN
    [] item.json = "string" -> item.text \in Seq(Characters)
    [] item.json = "array" ->
         IsSequence(item.items) /\ \A i \in DOMAIN item.items : ValidPart(item.items[i])
    [] item.json = "object" ->
         \A name \in DOMAIN item.members : ValidPart(item.members[name])
    [] OTHER -> item = Null

IsFloat(exact, x) ==
  \/ x \in {NaN, Infinite(1), Infinite(-1)}
  \/ x = Finite(x.value) /\ x.value \in Int /\ Representable(exact)[Magnitude(x.value)]

\* A value of a type.
Typed(kind, value) ==
  CASE kind.shape = "integer" -> value \in kind.low..kind.high
    [] kind.shape = "float" ->
         IsFloat(FLOAT_EXACT, value) /\ (value.finite => Magnitude(value.value) <= FLOAT_MAX)
    [] kind.shape = "double" -> IsFloat(DOUBLE_EXACT, value)
    [] kind.shape = "boolean" -> value \in BOOLEAN
    [] kind.shape = "string" -> value \in Seq(Characters) /\ Len(value) <= kind.bound
    [] kind.shape \in Lists ->
         /\ IsSequence(value)
         /\ kind.shape = "array" => Len(value) = Len(kind.default)
         /\ kind.shape = "bounded sequence" => Len(value) <= kind.bound
         /\ \A i \in DOMAIN value : TypedPart(kind.of, value[i])
    [] kind.shape = "message" ->
         /\ value = [name \in DOMAIN kind.fields |-> value[name]]
         /\ \A name \in DOMAIN value : TypedPart(kind.fields[name], value[name])
    [] OTHER -> TRUE

ASSUME FloatAssumption ==
  /\ {FLOAT_EXACT, DOUBLE_EXACT, FLOAT_MAX} \subseteq Nat \ {0}
  /\ FLOAT_EXACT % 2 = 0 /\ DOUBLE_EXACT % 2 = 0 /\ FLOAT_EXACT <= DOUBLE_EXACT
  /\ Representable(FLOAT_EXACT)[FLOAT_MAX]

ASSUME SizeAssumption ==
  {INT64_MAGNITUDE, UINT64_MAX, NAME_SIZE, ENVELOPE, LIMIT, NESTING} \subseteq Nat

\* Types are well formed and do not contain themselves.
ASSUME KindAssumption ==
  /\ \A kinds \in (SUBSET Kinds) \ {{}} : \E kind \in kinds : PartKinds(kind) \cap kinds = {}
  /\ \A kind \in Kinds :
       /\ kind.shape \in Shapes /\ PartKinds(kind) \subseteq Kinds
       /\ Typed(kind, kind.default)
       /\ kind.shape = "integer" =>
            kind.low \in Int /\ kind.high \in Int
              /\ kind.low..kind.high \subseteq -INT64_MAGNITUDE..UINT64_MAX
       /\ kind.shape \in {"string", "bounded sequence"} => kind.bound \in Nat
       /\ kind.shape = "message" =>
            /\ kind.names \in Seq(DOMAIN kind.fields)
            /\ \A name \in DOMAIN kind.fields :
                 \E i \in DOMAIN kind.names : kind.names[i] = name
=============================================================================
