\* One statement; a number that no f32 can hold.
SPECIFICATION Spec
CONSTANTS
  mixed = mixed
  deep = deep
  None = None
  Types = {mixed, deep}
  Messages <- MCMessages
  Layout <- MCLayout
  Build <- BuildFromJson
  MaxStatements = 1
  MaxChanges = 1
  MaxFailures = 1
  MaxCancels = 1
  Kinds <- MCKinds
  FLOAT_EXACT = 4
  DOUBLE_EXACT = 16
  FLOAT_MAX = 24
  INT64_MAGNITUDE = 8
  UINT64_MAX = 16
  NAME_SIZE = 3
  ENVELOPE = 10
  LIMIT = 67
  NESTING = 1
  NumberSize <- MCNumberSize
  AssignPart <- MCAssign
  WritePart <- MCWrite
  JsonPart <- MCJson
  ValidPart <- MCValid
  TypedPart <- MCTyped
  MeansPart <- MCMeans
  PrintedPart <- MCPrinted
  BytesPart <- MCBytes
  EncodablePart <- MCEncodable
INVARIANTS
  FloatsFit
CHECK_DEADLOCK FALSE
