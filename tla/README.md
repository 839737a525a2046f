# Specifications of pg_ros2

pg_ros2 is a PostgreSQL extension that shows the ROS 2 graph, the parameters of
its nodes and the newest message of chosen topics as ordinary tables, and lets a
backend subscribe and publish. This directory holds TLA+ models of its worker, the
TLC configurations that check them and the proofs that TLAPS checks. The source is
the reference: every definition is translated from the Rust code under
`src/src/`, and `PROJECT.json` names the lines of each.

## The system

| Component | State it keeps | Operations | Module |
| --- | --- | --- | --- |
| Graph observer (`lib.rs`) | last snapshot, extension oid, rebuild interval; per session: dirty flag, `empty_since`, `saw_graph` | start a session, read the graph, persist, rebuild, report an error | `GraphWorker`, `SnapshotCache` |
| Table-backed subscriptions (`messages.rs`) | map of live subscriptions, one mailbox each, two timers | reconcile, subscribe, callback, flush | `TableSubscriptions`, `LatestMessage` |
| Parameter poll (`parameters.rs`) | stage, promises, deadline; last parameters and their extension oid | start, tick, persist | `ParameterPoll`, `SnapshotCache` |
| `CALL subscribe` (`subscriptions.rs`) | a node and a queue of 256 payloads in the calling backend | discover, callback, drain and notify, commit, report drops | `NotifySubscriber`, `LossyChannel` |
| `publish` (`publish.rs`) | a session and publishers cached by topic and type in the backend | discover, create, wait for a match, publish, flush | `PublishSession` |
| JSON encoding and decoding (`subscriptions/json.rs`, `publish/json.rs`) | none | message to JSON within a byte bound; JSON into a message | `MessageJson`, `PublishMessages` |
| Topic names (`naming.rs`) | none | validate | not modelled |
| Settings and registration (`lib.rs`) | GUCs | reload | in the modules that read them |

How they interact. One background worker runs one thread. Each iteration of its
loop spins the executor (which runs every ROS callback: the graph listener, the
messages of live subscriptions, replies of parameter services), flushes mailboxes
if due, reconciles subscriptions if due, ticks the parameter poll, and checks the
graph if the dirty flag is up. Between those steps the worker shares state with
others only through the database (users' DML, `DROP` and `CREATE EXTENSION`) and
through ROS (nodes, topics and services come and go). Every SQL error ends the
process; the postmaster starts it again after five seconds. When the graph stays
empty, the session and its participant are replaced inside the process, keeping
the memory of what was saved. `subscribe` and `publish` run in backends and share
nothing with the worker but the ROS domain.

What is hard about it, and what makes each part correct:

* The worker does not rewrite an unchanged snapshot. Whether the tables still
  hold it is inferred from memory: the last snapshot and the oid of the extension
  it was saved in. Memory and tables part ways at a drop, a crash, a rebuild or a
  failed read. Correct means that a skipped write never leaves stale rows.
* A participant created before the network was up never discovers anybody. Correct
  means that it is replaced, that nothing else triggers a replacement (a failed
  read, an absent extension) and that repeated replacements back off.
* A reconcile reads in one transaction and writes in another; users act between
  them. Correct means that no subscription is stopped or kept by mistake, that a
  row tells the truth about its subscription, and that cached messages have an
  owner and only get newer.
* A poll asks all nodes, in two calls, with a deadline per stage and without ever
  waiting. Correct means that the table only ever changes to a complete answer, and
  that a silent node is reported and does not keep the poll open.
* A call of `subscribe` receives on the thread that sends. Its queue overflows, an
  encoding fails, a cancellation aborts the open batch. Correct means that every
  message is sent, waiting or counted, and that the sequence numbers show a listener
  each loss.
* A backend keeps its publishers, and a statement may end at any spin. Correct means
  that no statement spoils the next one, that an error tells whether something was
  sent, and that a subscriber who was waited for gets the sample.
* JSON is translated twice, within widths, bounds and a byte limit. Correct means that
  what is sent is what the statement said, and that what is received reads back the
  same or is refused.
* Settings change by reload at any time.

`PROJECT.json` lists the hazards at their lines, with the properties that watch
each of them.

## Modules

### GraphWorker

Translates `run_observer`, `run_session` (graph part), `GraphSnapshot::read`,
`persist_snapshot`, `next_reinit_after` and `graph_worker_main`. The variable `pc`
is the place in the loop: `session` (a participant is about to be built), `spin`,
`topics` (between the two queries), `persist` (before the transaction) and `down`.
`previous`, `extension_oid` and `reinit_after` are the variables of the same names;
`dirty`, `empty_for` (how long ago `empty_since` was, plus one) and `saw_graph`
those of the session. `CheckInstalled` is the transaction and everything the loop
does with its result up to and including the rebuild; `CheckAbsent` is the branch
without the extension. The environment changes the graph between any two steps, so
the two queries of a read may see different graphs, and the listener may raise the
flag between the swap and the queries.

The worker's subscriptions are seen by its own graph query (`messages.rs:245` and
`lib.rs:246` ask the same function), so the module carries one bit of
`ros2.subscriptions`: whether it has a row that names the type of `OwnTopic`
(`registered`), and whether this session has subscribed to it (`own`). `Reconcile` is
`messages::reconcile` reduced to that bit; the first pass of a session's loop
reconciles as well (`WarmUp`). A row without a type is no case here: it is subscribed
to only while somebody else advertises the topic.

Abstractions: a list of nodes is a model value, the list of topics a set; the oids of
successive installations are 1, 2, ...; time passes only while an empty graph is being
timed. An administrator who creates and drops the extension, a SQL error, a kill and a
SIGTERM are all the database left as committed and the memory gone.

### SnapshotCache

What the worker promises of the tables it maintains: a cache without a memory. A check
stores the answer or records a failure; an installation starts empty. `GraphWorker`
and `ParameterPoll` each instantiate it with their own table, status row and pending
answer, and `ImplementsCache` says that they implement it. The one deviation the code
has, an answer that is not stored because a failed check came first (see the findings),
is an action of the abstract cache (`ForgoAnswer`), limited to installations that were
checked and never filled, so that the refinement shows there is no other.

### TableSubscriptions

Translates `messages.rs` and the two slots of the loop. Rows, live subscriptions,
mailboxes and messages are functions of the topic. `ReadDesired` is the first
transaction of `reconcile`, `Reconcile` the rest: it subscribes, retains, and
writes the outcome to the rows and messages that exist by then. `Flush` takes the
mailboxes and writes them, or loses them if the extension is absent. A message is
the number it has in its subscription; whether it can be encoded is a free choice.
The clock counts registrations, because `registered_at` and `received_at` are only
compared with each other.

### LatestMessage

What the worker promises a reader of `ros2.messages`, for one topic: its subscription
numbers what it receives, the newest number that fits a row waits, and what is shown is
what waits, if its number is above the last one shown. What waits is given up only for a
newer one, for the end of the subscription, or because the extension is absent when it
would be written; the end of a subscription takes the row with it unless the
worker starts anew. `TableSubscriptions` instantiates it with each topic's mailbox
and row, and `ImplementsLatest` says that every step is, for every topic, a step or a
stutter of its instance. (It is written as initial states and steps because TLC does not
take a specification under a quantifier as a property; the two mean the same.)

### ParameterPoll

Translates `Poll` and `persist` of `parameters.rs` and the three places of the loop
that use them. A node is absent, plain (no parameter services), serving or mute
(services that never answer), and changes between these at any time, as do its
parameters. A reply is what the node had declared when it answered, delivered by a
later spin; the list call uses its names, the get call its values, so a name
undeclared in between is `not_set` or, with client libraries that then send no
values, a length mismatch. `SaveSnapshot` and `SaveFailure` are `persist(Ok)` and
`persist(Err)` with the bookkeeping around them. The graph check is reduced to what
the poll sees of it: the nodes read, a failure, an absent extension, a rebuild after
an empty read.

### NotifySubscriber

Translates `receive` of `subscriptions.rs`: one action per place of the loop, `Receive`
for the callback, which runs within the spin on the same thread. `Enqueue` is
`try_send` on a queue of `QUEUE`, `NextSequence` the `fetch_add` before the encoding,
`DrainOne` one round of the `for` with its `pg_notify`, `Commit` the `SPI_commit`.
`Interrupted` ends the call at the interrupt check and at every step that can raise an
error; it aborts the open transaction and drops everything, as unwinding does. A
payload is its sequence number and whether it could be encoded. The transaction is a
*set* of payloads because PostgreSQL folds equal notifications of one transaction;
that nothing is folded is part of what is checked.

### LossyChannel

What a call promises a listener, without saying how: messages are numbered as they
arrive, up to a capacity wait, and what is delivered is delivered in the order of its
numbers, none twice. A message is lost only if it arrives when the channel is full or
cannot be encoded; a warning tells how many were lost so far. Waiting messages can be
dropped only by closing the channel. `NotifySubscriber` instantiates it with the
notifications committed for what is delivered, the queue and the open transaction for
what waits, and `ImplementsChannel` says that it implements it.

### PublishSession

Translates `publish.rs` for one topic: `with_session`, the type (given or `discover`),
`build_message`, the cached or new publisher, `wait_for_subscriber`, the sample, the
flush, the cache. Every place with a spin can end by cancellation, every rcl call can
fail; both unwind the statement and leave the session as it is. `Notice` is DDS
matching, which trails the subscriptions. `Build` is a parameter, the set of the one
message a type makes of a JSON value, or the empty set.

### MessageJson and PublishMessages

`MessageJson` holds the two translations as operators, one per function of the code:
`Simple`, `Array`, `Sequence`, `BoundedSequence` and `Message` write a JSON value into
a slot (`publish/json.rs`), `Push`, `WriteAll`, `WriteMessage` and `Write` count the
bytes of the text (`subscriptions/json.rs`). The code's forty cases of element types
are one case per kind: integers with a range, floats, doubles, booleans, strings with
a bound, messages, long doubles. Floats are integers of which only those below
`FLOAT_EXACT` or `DOUBLE_EXACT` are all representable, and above it every second, every
fourth and so on, so that rounding, ties and overflow happen at small numbers; an f32
is at most `FLOAT_MAX`. Beside them stand definitions of what is *meant*, computed
differently: `Means` (with `StandsFor`: no representable
number lies between), `Bytes`
(the length of the whole text), `Encodable`.

Types nest, so the operators call themselves on the parts of a value. They do so
through constant operators, `AssignPart` for `Assign` and so on, which both
configurations set to that operator (`AssignPart <- MCAssign`, which is `Assign`): TLC evaluates
the recursion, and a proof uses its equation. `KindAssumption` says that types are
well formed and that none contains itself, however indirectly: every set of types has
one that has no part in the set.

`PublishMessages` gives `PublishSession` this `Build`, so that every message is checked
in the statement that sends it.

All modules but the last follow one pattern: one action per step of the loop or per
operation of the environment, bounds named `Max...` that only limit the
environment and failures, and history variables (`tally` and the others declared
under that heading) that no action of the code reads. Definitions that begin with
"Mutant" in their comment are plausible bugs, used to show that each property can
fail.

## Runs

The `MC...` modules only declare model values, and close the recursion of `MessageJson`.

| Run | Bounds | What it shows |
| --- | --- | --- |
| `graph` | 2 node lists, 1 topic (also the worker's own), intervals 0 and 1, longest backoff 2, 2 installations, 1 change, 1 failed query, 1 crash, 1 reload, 1 registration | Skipping an unchanged snapshot is safe and implements the cache; one read at a time reaches the tables; nothing is written twice; only empty graphs lead to rebuilds and the backoff grows; tables converge and isolation ends unless the worker sees itself |
| `subscription` | 1 topic, 2 types, 2 registrations, 2 messages, 1 failed read, 1 restart, expiry on | Rows, subscriptions and messages stay consistent; the row implements the promise for the latest message; registered topics are served or explained, removed ones stop, the newest message is stored |
| `parameter_safety` | 2 nodes, 1 name, 2 installations, 1 change, 1 failure, 1 restart | Only complete answers reach the table; skipping is safe and implements the cache |
| `parameter_liveness` | 2 nodes, 1 name, 1 installation, 1 change, 1 late answer | Polls end, silence is reported, the table converges |
| `notify` | queue and batch of 2, 4 messages a call, 2 calls, 2 changes of the types, one of which cannot be loaded | Every message is in one place and every loss is counted and told; passes leave nothing; a topic that appears is found; the call implements the channel |
| `publish` | 2 statements, 2 types, 32 JSON messages, 1 change, 1 failed call, 1 cancellation; all integers below 4 are f32, all below 16 f64, f32 up to 24, limit of 67 bytes, 1 level of nesting | The cache, the outcome, the samples and whom they reach; what is sent is what was said and survives the encoder; every statement ends |

Why the bounds are enough. Two installations, one failure and one crash are the
fewest that separate what the process remembers from what the tables hold, and every
further one starts from memory and tables in a relation that these already produce;
the invariants proved below hold for all bounds. Two lists of nodes and two of topics
tell empty from occupied and one part of a snapshot from the other. One topic is enough
for the subscriptions because no step of `reconcile` or `flush` for one topic reads the
state of another, and the proofs treat every topic. Two registrations let a row be
replaced while it is live; two messages let one overtake another. Two nodes let one
answer while the other does not. Nodes start in every kind with every declaration,
so that a single change suffices to change an answer between two calls, lose a peer
in every stage or silence one. Four messages overflow a queue of two while two more
fit after a drain; a second call shows what the first one left. Two statements are
one that leaves something behind and one that meets it. The JSON messages differ from
what fits in one way each, so that each check decides some case: an integer one below,
at and one above a range, a float that rounds down, ties, and overflows, arrays and
strings one too short and one too long, an unknown field at each level, a payload of
exactly the limit and one above, nesting at the limit and beyond it.

Each property of a passing run has a mutant of the code's translation for which TLC
finds it violated.

Six runs show where the program does something else than its documentation says;
each checks only the statement it refutes.

* `graph_reinstall_failed_read`: the extension is dropped and created again between
  two checks, and the next query fails. The failed check records the new oid, so
  later unchanged snapshots are skipped: the tables stay empty with a recent
  `last_checked` and no error. The parameter tables have the same fault
  (`parameter_extension` is updated on errors, too). `...UnlessReinstalled` is the
  exact statement that does hold.
* `graph_own_subscription`: a participant that is isolated but subscribes to a topic
  with a requested type lists that topic itself, so its graph never looks empty and it
  is never replaced. `RecoversFromIsolation` states what does hold: recovery unless the
  session has a subscription of its own.
* `stale_registration`: a topic deleted and inserted again between two reconciles
  keeps the cached message from before.
* `orphaned_message`: a row deleted around a restart or a rebuild leaves its message
  behind forever.
* `keepalive_race`: a keepalive committed between the two transactions of a
  reconcile does not keep the row from being deleted.
* `publish_float`: a number beyond the range of a float32 field is sent as an infinity
  and the statement succeeds. `SampleMeansMessage` allows for it and shows that nothing
  else is sent that was not said.

Smaller differences, without a run. A configured interval above ten minutes is
*shortened* to the cap by the first rebuild that finds nobody (`lib.rs:352`); the proof
of `BackoffGrows` therefore assumes intervals within the cap. A setting changed from 0
to a positive interval takes effect only in a new process, because it is read at
rebuilds alone (`lib.rs:381`). `src/README.md:327` speaks of a fresh context for each
publish and `src/docs/README.md:142` of resources released by errors; the code keeps
the session for the life of the backend, errors included. A statement cancelled in its
last milliseconds has sent its message (`OutcomeTellsSamples` says when), where
`src/README.md:329` calls it lost. A backend's own cached publishers count as
advertised types: having published a topic with one type, it can find the topic
ambiguous, or settled, in a later statement that names none.

## Fairness

Liveness is checked under weak fairness of the worker's own steps (the loop runs
while the process lives; every crash is counted), of its timers and deadlines
(clocks advance), of the graph listener (it runs once per second whatever happens)
and of the restart (the postmaster's `restart_time`). Nothing is assumed of users,
administrators, nodes or the network: properties say "if the row stays", "if the
service answers from some point on". `Reconcile` in `GraphWorker` is strongly fair
because it is a slot of some passes of the loop only. `NotifySubscriber` has weak
fairness of the loop and of its two one-second timers, `PublishSession` of the
statement's steps and of its deadlines; whether anybody calls, cancels, subscribes,
matches or advertises is open. `ParameterPoll` also assumes that a serving
node answers (weak) and that a reply is delivered by some later spin (strong,
because a spin is not enabled continuously: the executor runs everything that has
arrived). Answering nodes miss a deadline at most `MaxSlow` times. Failures are
bounded by `MaxFailures`: a query or a call that fails forever is
visible in the status row, and no convergence is claimed of it.

## Proofs

`GraphWorkerProofs`, `TableSubscriptionsProofs`, `ParameterPollProofs`,
`NotifySubscriberProofs`, `PublishSessionProofs` and `PublishMessagesProofs` (with
`MessageJsonProofs` and `NatRecursion`) prove, for all values of the constants (any
graph, any number of topics, nodes, values, queue lengths and message types, any
bounds): type correctness, every safety invariant and every action property of the
passing runs, the two refinements of `SnapshotCache`, that of `LatestMessage` for every
topic and that of `LossyChannel`. The
assumptions are the named `ASSUME`s of the modules, which only say that `None` is none
of the values it stands beside, that bounds, intervals and sizes are numbers, that a
queue is not longer than a batch (both are 256 in the code), that the widths of floats
are even and that of f64 the greater, and that types are well formed. `BackoffGrows`
has one more assumption, that configured intervals are within the cap; the theorems
about JSON have that the recursion is closed (see there).

The argument for the two caches is the same. The statement of interest, "filled
tables equal the snapshot remembered", is not inductive, because a step from a
state in which the worker remembers an older installation could make it believe in
the present one. `Inductive` adds: oids only grow, so an installation that is
created is not one the worker has seen; tables that were never filled are empty;
what was stored before the present installation is gone with its `last_refreshed`;
and the only way to believe in tables that were never filled is a failed read (or
poll) in a second installation. The last part is what the first of the violation
runs shows to be reachable, and from it follows the exact statement about clean
status rows. Each action then disturbs few conjuncts; the transaction is split by
whether the snapshot was written, skipped or not read.

For the subscriptions `InductiveFor(t)` adds that counters in a mailbox never lag
behind what was stored (which makes sequences grow), that a message in the table
carries the last sequence stored, and that a row that a live subscription or a read
knows of can only have vanished by being withdrawn (which is why `StopsOnlyUnwanted`
holds although the read is old when it is acted upon). `LatestImplemented` rests on the
first of these: a number that waits is above the last one shown, so that a flush is
`Show`, or `Lose` without the extension. A reconcile either keeps a subscription and
leaves its row alone, ends it, or opens one; that a fresh one starts above nothing is
why numbers begin again at 1. A rebuild or a crash is `StartAnew`, counted so that no
other step can leave a row behind in its name.

For the poll it adds that only an answer to the current call can be delivered,
because each call has promises of its own.

The refinements (`CacheImplemented`) follow from these invariants: a step that skips a
write because the snapshot is unchanged is `StoreAnswer` of the cache, since the table
already holds the answer, or `ForgoAnswer`, if it was never filled; every other step
maps to an action of its name or stutters.

For `CALL subscribe`, `Accounted` adds to the property that the next number is one no
message has had, that no number is in the queue twice and that the lost are finitely
many (their number is a cardinality); a drain then moves one number from one set to
another. `NothingWaits` needs that the queue is at most as long as what is still to be
drained, which is where the assumption on the batch enters.

For `publish`, `SampleInv` says where in a statement how many samples were sent,
`TypedInv` that a given type is neither looked up nor replaced, and `ReachInv` that the
subscription that ended the wait is, if it still exists, still the matched one; the
last needs that subscriptions are numbered in the order they appear (`NumbersInv`).

`ChannelImplemented` needs one more invariant, `Ordered`: the numbers committed are
below those in the transaction, these below those in the queue, and the queue is sorted.
Deliveries then come in order. At the place where a callback runs the transaction is
empty, so that the number waiting in the channel is the length of the queue, and the
channel is full exactly when `try_send` fails.

The JSON theorems are about every type of `Kinds`, every JSON value and every slot, not
only the messages of a run. `DecodeFaithful`: what decoding gives is a value of the type
and what the JSON means. `WrittenWhenFits`: the bounded writer, whose limit is compared
before every piece, ends with the length of the whole text or fails, and fails exactly
if the text exceeds the limit, is nested too deeply or holds a long double.
`EveryValueRoundTrips`: what was written decodes to the value it was. `SampleMeant` and
`PayloadsRoundTrip` carry them to the samples a publish session sends.

They assume `DecodingClosed` and `EncodingClosed`, which say of every part operator what
the configurations make true by setting it to its operator, and `BuildClosed`, that
`Build` is `BuildFromJson`, which they set likewise. `EncodingClosed` also says that a number has a length. Nothing else is
assumed; since no type contains itself, the equations
have a solution for every `Kinds`.

The induction is over types. `KindInduction` takes the set of types a statement fails
for and picks one that has no part in it; then each theorem has one lemma for values
without parts, one for lists and one for messages, each from the same statement about
the parts. Two recursions remain, over numbers. The loops of the writer
(`WriteAllEquation`, `BytesOfAllEquation`) are folds along a list, and the floats
(`BelowEquation`, `UnitEquation`, `RepresentableEquation`) halve a number until it is
exact. `NatRecursion` proves that both define functions, and induction to go with them,
from the well-foundedness of inclusion on finite sets. `RoundedNearest` rests on three
facts: the greatest float up to a number and the next one enclose it, both are
representable, and nothing between them is. That rounding twice, to f64 and
then to f32, still leaves no f32 between the result and the number (`FloatStandsFor`)
is what lets `Means` speak of one rounding; the result need not be the nearest f32, and
`Means` does not say so.

Only model-checked: all liveness properties, and the six statements of documentation
that the code does not keep, of which TLC shows a violation.

## Not modelled

Left out: the SQL text, logging, permissions, ROS context creation, shared library
loading, the release and container tooling, and the check of topic names (a pure
function of a string). The check that `subscribe` runs outside a transaction keeps no
state. Durations are not compared with each other: a slow transaction that delays a
10 ms flush is possible in the models but not measured.

The worker's components are modelled one by one, with what each sees of the others:
rebuilds empty the subscriptions and end polls, a poll sees the nodes of the graph
check, the graph check sees the worker's subscriptions. A single module of the whole
loop would add only their order within a pass, on which none of the properties
depends, at the price of the product of their states.

In the runs of the JSON modules the field's values are scaled, not enumerated at their
real widths, which the proofs include;
integers keep the order of widths among each other (a field's range, i64, u64).
Non-ASCII text is left out: a character is one byte, or two if JSON escapes it. A string
bound is compared with a number of characters; how the client library counts them is
its affair. The numbers JSON can hold but no f64 can (PostgreSQL's `jsonb` is exact)
are rejected or rounded before the code sees them.
