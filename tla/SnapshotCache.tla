--------------------------- MODULE SnapshotCache ---------------------------
(***************************************************************************)
(* What the worker promises of ros2.nodes with ros2.topics, and of         *)
(* ros2.parameters: a write-through cache without a memory.                *)
(*                                                                         *)
(* The source gives answers.  A check of an installed cache either stores  *)
(* the answer or records a failure and leaves the table alone.  The worker *)
(* implements this while skipping writes it believes to be redundant.  One *)
(* deviation is part of the promise (ForgoAnswer), because the code has    *)
(* it.                                                                     *)
(***************************************************************************)
EXTENDS Naturals

CONSTANTS
  Snapshots,  \* contents the table may have
  Empty       \* the contents of a new table

VARIABLES
  ext,      \* oid of the installed extension, 0 when absent
  table,
  status,   \* the status row of the table
  pending,  \* the source has answered and the answer was not processed
  ok,       \* ... and did not fail
  answer    \* ... with this snapshot

vars == <<ext, table, status, pending, ok, answer>>

NoStatus == [checked |-> FALSE, refreshed |-> FALSE, failed |-> FALSE]

Init ==
  /\ ext = 0
  /\ table = Empty
  /\ status = NoStatus
  /\ pending = FALSE

\* The source answers, and an answer may be lost before it is processed.
Observe == UNCHANGED <<ext, table, status>>

Create ==
  /\ ext = 0
  /\ ext' # 0
  /\ table' = Empty
  /\ status' = NoStatus

Drop ==
  /\ ext' = 0
  /\ table' = Empty
  /\ status' = NoStatus

StoreAnswer ==
  /\ pending /\ ok /\ ~pending'
  /\ ext # 0
  /\ table' = answer
  /\ status' = [checked |-> TRUE, refreshed |-> TRUE, failed |-> FALSE]
  /\ UNCHANGED ext

RecordFailure ==
  /\ ~pending'
  /\ ext # 0
  /\ status' = [checked |-> TRUE, refreshed |-> status.refreshed, failed |-> TRUE]
  /\ UNCHANGED <<ext, table>>

\* A cache that was checked but never filled may go on being empty, and say
\* that all is well: its first check failed (see the run
\* graph_reinstall_failed_read).
ForgoAnswer ==
  /\ pending /\ ok /\ ~pending'
  /\ ext # 0
  /\ status.checked /\ ~status.refreshed
  /\ status' = [checked |-> TRUE, refreshed |-> FALSE, failed |-> FALSE]
  /\ UNCHANGED <<ext, table>>

Next ==
  \/ Observe \/ Create \/ Drop
  \/ StoreAnswer \/ RecordFailure \/ ForgoAnswer

Spec == Init /\ [][Next]_vars
=============================================================================
