# TC35 in TLA+

This directory models the stream-processing core of TC35: the services that
take NFStream snapshots from Kafka through inference and detection to
InfluxDB. The modules are translated from the code in `../src`; TLC checks them
on small instances and TLAPS proves the main results for every value of the
constants.

## The system

```
 nfstream ──inference_data──▶ ai-inference ──inference_probs──▶ ai-detector ──predicted_labels──▶ intelligent-telemetry
 (meters)     (8 partitions)   (8 replicas)                      (4 replicas)                      │            │
                                    ▲                              │ audit CSV                   InfluxDB   interval/latency CSV
 model-upload ─┐                    │ model at start               ▼
 ai-training ──┴─▶ Elasticsearch ───┘                           files
```

Every consuming stage has `enable_auto_commit=False` and commits explicitly; the
containers restart unless they were told to stop.

| Component | State | Operations | Interaction | What is hard | What makes it correct |
| --- | --- | --- | --- | --- | --- |
| **ai-inference** (`ai_inference.py`) | per-partition queues of observed records, a batch of at most 900 rows with the contribution of each record, fetch positions | poll, observe, reject, enqueue (split), flush, mark completed, drain on stop | polls `inference_data`, publishes `inference_probs`, commits prefixes | records split over batches; rejected records between buffered ones; rebalances while the batch keeps old records; crashes between publish and commit | an offset is committed only above handled records; the row counts agree; nothing is left owed |
| **ai-detector** (`ai_detector.py`) | audit file; one record at a time | classify, reject, write audit rows, publish, commit | polls `inference_probs`, publishes `predicted_labels` | three outputs in an order; evicted replicas that go on; errors of the audit file | labels are never without audit rows; offsets never move back; no duplicates without a failure |
| **event windows** (`EventWindowAggregator`, `FlowDeltaTracker`) | current window, snapshots that are ahead, counters of flows, two time axes | add_event, watermark, heartbeat, flush | called by the service | out-of-order and duplicate snapshots; three ways to close a window | each snapshot is kept once, in memory or in a report; packets add up |
| **intelligent-telemetry** (`Telemetry`) | the aggregator, the record in work | poll, write, commit, idle flush, final flush | polls `predicted_labels`, writes InfluxDB and CSV | windows in memory while records are committed; failed writes; restarts | prediction points before commits; no snapshot lost by stops |
| **snapshot plugin** (`nfstream_kafka.py`) | per-flow interval and counters, pending sends | on_init, on_update, on_expire, reap, pace | called by a meter, sends to Kafka | bound on pending sends, surfacing failed deliveries, interval edges | a meter that reports success has no undelivered snapshot |
| **meter** (`nfmod/meter.py`, `flow.py`) | flow cache in LRU order, ticks | consume, scan, cleanup, flush, close | packets in, flows to the channel | scan order, cut flows, exceptions in the middle | every flow leaves exactly once; the idle scan misses none |
| **streamer** (`nfmod/streamer.py`) | barrier lock, channel, count of ended meters | start meters, receive, terminate, join | processes and a bounded queue | a meter dies before, at or after the barrier; error against end markers | no silent loss; always terminates when the meters do |
| **model catalog** (`model-upload`, `ai-training`, `ai-inference` start-up) | Elasticsearch documents, files | upload with retry, train, retrain, publish, discover, download, verify, load | HTTP | two writers of one file name, newest-by-name against the pinned checksum; what one program publishes another one refuses | only verified artifacts are loaded; uploads are idempotent; an answered training can be loaded |
| **the pipeline** | the two topics in between, the metadata of a snapshot | the three stages in a row | each stage adds fields that the next ones insist on | a stage may fail by itself; one bad snapshot takes its batchmates with it | a committed snapshot is never between two stages, and is settled in the end |
| **contract** (`tc35_contract`) | none | parse, validate, commit helper | used by all | – | pure functions |
| listeners, engine, plugins, anonymizer (`nfmod`) | host caches | – | not started by the pipeline | – | – |
| Grafana, topic creation, compose files | configuration | – | – | – | – |

## Modules

| Module | What it is |
| --- | --- |
| `AtLeastOnce` | The promise of a consuming stage (README of the repository: "offsets are committed only after the next pipeline stage succeeds; … invalid … records are … skipped"): records become handled, and an offset moves only to a place below which all are handled. |
| `Inference` | The group of ai-inference replicas with the broker's part of the group protocol. |
| `InferenceProofs` | Theorems about `Inference`. |
| `Detector` | The group of ai-detector replicas. |
| `DetectorProofs` | Theorems about `Detector`. |
| `EventWindows` | The aggregator: `add_event`, `flush_idle`, `flush`, step by step. |
| `EventWindowsProofs` | Theorems about `EventWindows`. |
| `Telemetry` | The service around the aggregator: extends `EventWindows` with Kafka, InfluxDB, the CSV files, and the life of the process. |
| `TelemetryProofs` | Theorems about `Telemetry`. |
| `Pipeline` | Composes `Inference` with the two later services over the topics between them. |
| `PipelineProofs` | Theorems about `Pipeline`, on top of those about `Inference`. |
| `FlowSource` | What the streamer relies on in a meter: the flows that it holds come into the channel one at a time and once, none after an error, and a meter that ends without an error holds none. |
| `Meter` | A meter process of `nfmod` with the snapshot plugin. |
| `MeterProofs` | Theorems about `Meter`. |
| `Streamer` | `NFStreamer.__iter__`, the meters as processes, and their queue. |
| `StreamerProofs` | Theorems about `Streamer`. |
| `ModelCatalog` | From a dataset or a model file to a running replica: `ai-training`, `model-upload`, the start of `ai-inference`. |
| `ModelCatalogProofs` | Theorems about `ModelCatalog`. |
| `MC…` | Values of the constants for TLC. |

A definition whose comment says *mutated form* or *a mistake* is not part of the
model: it is the definition next to it with one plausible bug, and shows that a
property would notice it.

### Inference

A record is `<<partition, offset>>`; `Rows[x]` says how many snapshots it has, 0
for one that `extract_snapshot_batch` refuses. `published[x]` is the set of rows
of `x` in the output topic, so a row published twice is visible only as an
attempt (`DuplicatesNeedACause`). For each replica

- `pending`, `complete` are `_ContiguousOffsetTracker._pending` and the `complete` flags;
- `enqueued`, `contribution`, `remaining`, `size` are the position in
  `_enqueue_input`, `_batch_contributions`, `remaining_snapshots` and
  `len(_batch_rows)`;
- `pc` and `then` are the place in `run()` and the place a flush or commit returns
  to: `_flush_batch` is called from an empty poll, from the middle of
  `_enqueue_input` and from the `finally` clause;
- `position`, `next`, `turn` are the fetch positions and the place of the for loop,
  which finishes the records of one partition before it goes to another.

The steps are cut where another process or a failure can come in between: the
broker's answer to a send (`PublishAcked`, `PublishFails`: appended or not), the
broker's answer to a commit (`CommitAcked`, `CommitFails`: stored or not). Code
between two such points is one action.

The broker is modelled as the code uses it: a member polls the records after its
positions; a replica that is no longer a member has its commit refused;
a rebalance happens when all members poll, and sets the positions of every
member to the committed offsets while the process keeps its own queues.
Only schema version `v1` is accepted, so `_flush_batch` on a version change
(566-567) is never reached and is left out.

### Detector

The same broker; a record is committed before the next one is taken. `audited`
and `published` count copies up to `Many`. Three kinds of records: *valid*;
*malformed*, which `classify_payload` refuses; *incomplete*, which can be
classified but has no five-tuple or no features (the contract lets
`connection_id` default to an empty object), so that `write_batch` raises.

### EventWindows and Telemetry

Time is an integer (floats in the code). A window keeps how often it counted and
rejected each snapshot and the packets per flow; the bytes of a flow follow its
packets and are left out, as are labels, confidences and the sets of addresses,
which are functions of the same snapshots. `call` says which method is running,
because the methods loop over closing a window and draining `_future_events`.
The update of `_last_observed_at` while draining never changes it, since the
clock does not go back. `rebase` is chosen at the start: both time axes are
checked in `event_windows`.

`Telemetry` adds the loop. The group has one member and everything polled is
committed before the next poll, so a rejoin changes no position and the for loop
is always at the committed offset. A prediction point has the timestamp of its
detection, hence writing it again changes nothing; windows are kept as the totals
they add, because two processes anchor their windows at different times
(`REBASE_EVENT_TIME`, the default).

The CSV files count rows per snapshot: `intervals` is what the interval file says
was accepted, `latencies` the latency rows that are on disk and `unflushed` those in the
buffer of the file object. A latency row is written by `WriteLatency` as soon as `add_event` accepted
its snapshot; interval rows and the flush come with a successful InfluxDB write, and `close()`
flushes too. A crash loses the buffer, or part of it has been written already.

### Pipeline

`Inference` as it is, extended with two logs: `probs` (`inference_probs`) and `labels`
(`predicted_labels`), sequences of batches of snapshots. Whenever a step of
`Inference` appends the rows of a batch (`AppendBatch`), `Extend` appends that
batch to `probs`; no other step of `Inference` is changed, and the theorem
`InferenceIsItself` says so. The two later services take one record at a
time, with a commit of its own, and may fail before and after each of their calls
(`DetectorFails`, `TelemetryFails`); how a group of them, the audit file and the windows
work is in `Detector` and `Telemetry`, and is not repeated.

What travels with a snapshot is the set of fields of its metadata. `lacks[s]` are those
that it does not have when nfstream sends it; `Prepared` and
`Classified` are what `prepare_metadata` and `classify_payload` make of the rest, and
`AuditNeeds` and `EventNeeds` what `write_batch` and `validated_events` insist on. The
contract does not: `extract_snapshot_batch` looks at the features, and
`connection_id` may be empty. So a defect decides nothing at the
first stage, stops the second for good (with audit files), and makes the third reject
the whole batch, with the snapshots that only happened to be in it.

### Meter

A flow keeps its key, the times of its first and last packet, its number of
packets, and of the plugin the interval and the number of packets with data. The first
number is the engine's, which sees every packet; the plugin counts only packets with a payload
(`payload_size > 0`, `PacketsWithData`), and it is these counters that a snapshot carries, so that two snapshots of a flow
may be equal in them. A packet has data or has none; the bytes follow the packets with data, and the two directions are taken together. `cache` is
`NFCache` as the sequence from the least to the most recently used flow. `pc` is
the place in `meter_workflow()`, `consume()`, `meter_scan()` or
`meter_cleanup()`, and `then` the place that `_reap_pending_sends` or
`flush_meter_producer` returns to: both are called from several places, and both
can raise in the middle. `sends`, `answer` and `reaped` are the snapshots passed
to the producer, what the broker did with each, and how many futures have left
`_pending_sends`. The engine decides with the flow's times whether a packet
cuts it (`IsCut`); it is external and modelled from the return values that
`flow.py` expects. Captures may go back in time, the meter's tick does not.

Left out: the branch for a custom expiration (`-1`), which this plugin never
asks for; `active_flows` and the other performance counters; pacing, which only
sleeps; signals in a meter, which ignores them; a `KeyError` raised inside `update()`,
which the handler of a missing flow would take for one (the plugin's own code has no
lookup that can raise it). That `channel.put` may block is part of `Streamer`.

`Meter` and `Streamer` meet in `FlowSource`. `Meter` implements it with the flows in its cache and in its channel, a flow being named by
its key and the time of its first packet; each meter of `Streamer` implements it with the numbers
`put[m] + 1 .. Flows[m]` and `1 .. put[m]`. A meter in `FlowSource` may begin flows as it goes, and the ones of `Streamer` have begun all of
theirs at the start, because the streamer knows only the flows that it gets. Death is a failure in
`FlowSource`, and may come after the end as well.

### Streamer

`multiprocessing.Queue` is modelled as it works: a semaphore of `Capacity` slots,
a buffer per process, a feeder thread that writes to a pipe under a lock. A killed
process loses its buffer with its slots, and its locks stay locked. The
barrier is a lock that the streamer acquires, the last meter releases, and each
other meter acquires and releases in turn. The comment in `meter.py:268` ("all meter processes start
consuming at the same time") is only half true, since the last meter releases
the lock and goes on; the others wait for it. The export to CSV and
pandas only consumes the iterator; the listeners are never started.

### ModelCatalog

A content is its own digest. The catalog maps an id to a document
`[id, name, content, labels, time]`; the recorded checksum equals the id in both programs that
write, and is not kept apart. A PUT that got no answer may have been applied or
not, and may also be applied later (`late`). A document is searchable as soon as it is
stored (`refresh=wait_for`; a search that is behind for a moment is one that came earlier).

`model-upload` is given one of `Files`: a name, an artifact and the labels its metadata
declares; a digest or a file name that the metadata declares as well has to agree. A training starts from its dataset, a retraining also from a
`Base` in the catalog, of which only the metadata is read. `Fits[t]` are the
forests that `fit()` may return for what is in the dataset; `Fit` has the check
`validate_training_classes`, and `FitFails` every way in which a request is refused: bad
identifiers and numbers, missing files, other columns than the schema, unknown categories, a base that is not there.
The trainings are threads of the Flask server; their file name has the dataset, the number of estimators and the time in seconds, so two may
get the same one (`filename`, one of `Name[t]`) and share a file, and `dump`, the two reads and the PUT interleave. A file that two write
at the same time may hold their mixture (`Garbage`).

A search sees the `SearchSize` newest documents of the whole catalog (`Listed`; 1000 in `list_models()`), and the name or id is compared
with those (`Matching`), of which the newest is taken (`IsNewest`).

A replica is in `wait_for_model`, `download_model` (checks, then `os.replace`), `joblib.load` and
the checks of the loaded forest (`Loads`: its classes are the labels of the document and count from 0), or
runs; what follows is `Inference`. The volume `/app/models` is shared by all replicas, so a replica may load a file
that another one replaced after the check.

## Runs

| Run | Question | Bounds |
| --- | --- | --- |
| `inference_group` | Is the promise kept with two replicas, and what do duplicates and rewound offsets come from? | 2 replicas (symmetric), 2 partitions × 2 records: sizes 1, 0 (rejected) and 2, 1; batch of 2; one disturbance, two rebalances |
| `pipeline` | Is a committed snapshot ever between two stages, is it settled in the end, and who is rejected for what? | 1 replica, 3 records (1 row, rejected, 2 rows over two batches), batch of 2; whole snapshots, or one that lacks its addresses or its counters; 1 disturbance with up to 3 rebalances in ai-inference, 1 failure in the later services; with audit files |
| `inference_order` | Can `observe()` rely on its assertion? (no) | 2 replicas, 1 partition, no disturbance, 2 rebalances |
| `detector_group` | Order of audit, publish and commit under every failure; is each partition committed up to a record that raises? | 2 replicas, 2 × 2 records: valid, two malformed, incomplete; 2 disturbances; with audit files (the theorems hold without them as well) |
| `detector_poison` | Are incomplete records skipped? (no) | 1 replica, no disturbance |
| `event_windows` | Is every snapshot kept exactly once, and do windows close in time and add up? | 4 snapshots of 2 flows, width 2, lateness 1, each at most twice, clock to 6 |
| `telemetry` | Prediction points, commits, windows and CSV files across stops and failures; is everything reported? | 2 × 2 records with 3 snapshots, one of them twice and one record invalid; 1 signal, 1 failure, clock to 7 |
| `telemetry_lost` | Are the snapshots of committed records always somewhere? (no) | one failed write, nothing else |
| `telemetry_double` | Do redelivered snapshots count once? (no) | one failed commit, nothing else |
| `meter` | Packets, flows, snapshots and sends of one meter: none lost, doubled, out of order or unchecked; is it what the streamer takes it for; does it end? | 2 keys, 4 packets, with or without data, at any of 5 times (0 to 6, with gaps below, at and above the interval and the timeouts), 2 captures; idle timeout 3, active 5; 2 pending sends, a scan of 1 flow, flushes every 4 packets and 2 cleaned flows |
| `streamer` | Does every stream end, and does the way it ends tell the truth? | 3 meters with 2, 1 and 1 flows, 2 slots; one may be killed, one may fail; `max_nflows` none or 2; interruption |
| `model_catalog` | What do replicas run, what do documents hold, can a trained model be loaded, and do replicas get running? | 1 upload of one of two files, a training and a retraining that share a file or use two, 3 artifacts, one of them without a class; 2 replicas that select by name with a pin, as in `docker-compose.yml`; a search lists 2 documents; 2 faults, 2 retries |

The instances are small, but each has the cases that matter: a record with more
rows than the batch has room for, a rejected record in front of and behind
buffered ones, a partition that changes hands with a batch in progress, a
snapshot ahead of its window and one behind it, one that arrives twice. Every
bound is a constant of the module and only limits how often the environment
disturbs (`MaxDisturbances`, `MaxGeneration`, `MaxFailures`, `MaxSignals`), how
often the later services of the pipeline fail (`MaxMishaps`), how
often a snapshot arrives (`MaxCopies`), and how far the clock goes
(`LastArrival`, `MaxClock`). In `Telemetry` time waits at `LastArrival` until the
log is read, so that the clock does not run out before the last window is due.
`MaxPackets`, `MaxKills` and `MaxFaults` bound the packets, the killed meters, and the failed
requests and crashes in the same way. `SearchSize` is no such bound but a number of the code: `list_models()`
asks for 1000 documents, and here for 2, so that other documents can fill a search.
The aggregator stops after its final flush, a meter and a streamer after their
last line, and the catalog is at rest when all is published and loaded, hence
`CHECK_DEADLOCK FALSE` in `event_windows`, `meter`, `streamer` and `model_catalog`; everywhere else
deadlock is checked, and in these a liveness or completeness property says that they stop
in the right place. Symmetry of the replicas is used in `inference_group` only, which has no liveness property.

### Fairness

`EventuallyCommitted`, `AnsweredIsSettled` and `EventuallyCounted` assume weak fairness of: the next
step of a running process (Python runs on); `poll()` returning records that are
there, and returning empty when there is a partial batch or a due heartbeat
(the loop polls again and again); the coordinator completing a rebalance; the
clock; and the restart of a process that *failed* (`restart: unless-stopped` in
`docker-compose.yml`). Nothing is assumed about signals, crashes, failed calls or
the restart of a stopped service. In `Pipeline` each kind of step of a replica is fair by itself, as in `Inference`; a
later service that failed is restarted, also the one that will fail again.

`meter` assumes that a meter takes its next step: a capture ends (a replay does; a live
one is ended by a signal), and every wait for the broker has a timeout, so nothing is
assumed about answers. `streamer` assumes the same of each meter, of each feeder thread
and of the streamer. A killed meter is noticed only when the queue is empty for a second;
that `EventuallyEnds` holds rests on the number of flows being finite, since meters that never
pause would hide it for ever. `model_catalog` assumes that a replica goes on and
is restarted; uploads and trainings may be made or not, because `EventuallyRunning` speaks only of
behaviours in which from some point on the newest document of the selected name, among those that a search lists, is an acceptable one.

### What the passing runs show beyond their properties

- `detector_group`: `EventuallyCommitted` speaks of each partition by itself. In the partition without an incomplete
  record all is committed, in the other one all that is in front of it (`Stuck`). The exception is needed: a replica
  takes the partitions that it owns in the order of the answer to its poll, so one that owns a `Stuck` partition
  may meet the raising record first after every restart, fail, and never come to the others, and a coordinator that
  moves partitions for ever may bring this about again and again. So the promise is for a partition that some replica,
  from some point on, keeps apart from those that are stuck (`KeepsApart`). `AnsweredIsSettled` of the
  pipeline has `Poison` for the same reason.
- `inference_group`: `RewindsNeedARebalance` is the exact form of what the group does *not* promise: an
  offset may move back, but only by a replica that still queues records of an assignment
  before the last rebalance. The cost is duplicates, which `AtLeastOnce` allows.
- `event_windows`: `OnTimeIsNotLate` holds for both ways to close a window. A snapshot that arrives in time by
  the watermark is late only when a heartbeat has moved on since the newest
  snapshot, and a heartbeat does not close a window whose end it has not reached.
- `pipeline`: `RefusalNeedsADefect` does not say that the rejected snapshot is the one with the defect. It
  may be a batchmate; the batch is what ai-inference happened to collect.
- `telemetry`: `FilesAgree` is for whole runs of the service. While it runs, latency rows are ahead of the
  interval rows, and a failure may leave either file with more rows than the other.
- `model_catalog`: `AnsweredIsLoadable` holds with the labels that a *training* publishes. `model-upload` publishes
  the labels that it is given, without opening the artifact, and the replica is the first to
  compare them.
- `model_catalog`: `CorruptNeedsACollision` is as much as can be said. Two trainings of one
  dataset, number of estimators and second do write the same file, and `publish_models()`
  reads it once for the content and once for the digest; then a document may hold
  something else than its id says. The replicas refuse it (`LoadedIsVerified`).
- `model_catalog`: the premise of `EventuallyRunning` is needed. A newer document of the same
  file name and another checksum makes every starting replica fail and restart, although
  the pinned artifact is still in the catalog under its own id, until a newer document of the pinned one is put. And when `SearchSize`
  newer documents of any name are there, a replica does not find the pinned one and waits: here
  the upload and the retraining may both use the other name and hide the artifact of the first training. No
  document of the repository promises a start in these cases.
- `ConfigAssumption` is needed: without a pin, and with a selection by name, two replicas that
  discover different documents can exchange their files between check and load.

### What the failing runs show

- `inference_order`: when a second replica joins, the first one gets its fetch
  position reset to the committed offset while it still queues the records of
  its partial batch. The next poll delivers them again and `observe()` raises
  outside of any handler. The replica restarts; records are repeated, not
  lost (`ImplementsAtLeastOnce` holds). With two replicas the same staleness lets
  a commit move the group's offset *back* (`RewindsNeedARebalance`), which the promise allows and
  `Detector` excludes (`NeverRewinds`).
- `detector_poison`: `AuditCsvError` is a `RuntimeError`, and the handler that
  rejects records does not list it. One incomplete record makes the replica
  fail, restart and meet the same record again, for ever.
- `telemetry_lost`: a finished window leaves the aggregator before it is written.
  One failed write loses it, although its records are committed.
- `telemetry_double`: a failed commit after a successful write: the final flush
  stores the window, the restarted process has no flow counters, and the
  redelivered snapshot adds the flow's whole count again.

## Proofs

`InferenceProofs` (any replicas, partitions, records, rows and batch size) proves
that `IInv` is inductive and draws from it type correctness, that everything below a committed
offset is handled (`CommittedIsHandled`), that the over-completion error of
`_flush_batch` is unreachable (`NeverOverCompletes`), `IdleOwesNothing`, and that every step of `Inference` is a
step or a stutter of `AtLeastOnce`. The promise itself is not inductive: that a
completed prefix may be committed depends on every completed record being
handled (`CompleteIsHandled`), on nothing being missing in front of a queued
record (`NoGaps`: what is below is queued or handled, possibly by another
replica), and on the counts of an open record (`RowsAddUp`: rows to go = rows not
enqueued + rows in the batch, all earlier rows are published). `NothingOwed`
needs in addition that every open record has its last rows in the current batch
(`OthersAreBuffered`, `CurrentIsOpen`) and that between two commits no queue
starts with a complete record (`FrontsAreOpen`). The proof has a lemma per
action, and lemmas about `CompletedPrefix` and `Offsets`.

A second invariant, `AInv`, is about the first generation, and from it follow
`RewindsNeedARebalance` and `DuplicatesNeedACause`. In the first generation a member has queued only records of
its own partitions, none of them behind the group's offset (`MembersAreFresh`), so that the prefix it commits
starts where the group is. While nothing is disturbed, the published rows of an open record are
exactly those that were enqueued and have left the batch (`NothingTwice`), so that none of the
rows in the batch is among them.

`DetectorProofs` does the same with `DInv`: what the loop has passed is handled
(`LoopIsHandled`), a record in work was polled and can be classified
(`RecordInHand`), and a *member* has unprocessed records of its own partitions
only and stands at the committed offset (`MembersAreFresh`). The last one is what
makes offsets monotone: an evicted replica may be anywhere, but its commit fails.
`PublishedIsAudited` counts copies over all replicas: `RowsAreAhead` says that the copies published,
together with one for each replica that is about to publish (`AboutToPublish`), are no more than
the copies audited. For `DuplicatesNeedAFailure`, `NoFailureYet` says that until something fails only members work, and that a
published record is below the offset or about to be committed.

`EventWindowsProofs` (any snapshots, flows, widths, lateness and arrivals, both settings of
the time axis) proves `EInv`, and from it type correctness, `DrainedIntoItsTarget` and `OnTimeIsNotLate`. Windows
start a multiple of the width after the anchor (`WindowsAreAligned`), a waiting snapshot is never behind the
open window (`WaitingIsAhead`), and a window that is not the first was opened because the watermark or the clock had
reached its start, or in the final flush (`ClosedForAReason`). What is left is arithmetic: in which
window a time lies, in the division lemmas at the start.

`EverySnapshotOnce` and `WindowsAddUp` are inductive beside `EInv`. Both have a sum over the reports (`Total`, a sum over the
domain of a sequence); the lemmas about it show that it exists and that one more report adds its number. Then every step either adds
one copy to the memory (`AddedToMemory`) or moves copies between the waiting list, the open window and the
reports (`KeptInMemory`). For the packets, `CountersAddUp` says that `FlowDeltaTracker`'s counter is what the windows together report
and `CounterIsLargest` that it is the largest counted snapshot; only `apply()` changes it, by the amount
that it adds to the open window (`AppliedPackets`).

`TelemetryProofs` (any records, faults, stops and restarts, any windows) proves `TInv`: every record below the offset is
stored or was refused (`CommittedIsStored`), the record in hand was polled at the offset and
is stored or refused before its commit is sent. From it follows that the service implements `AtLeastOnce`; the windows
do not matter for this, and the service promises nothing about them (`telemetry_lost`).

`ServiceInv` adds what is in memory where. The aggregator is empty before its first window, when a window is not dirty and at the end of a flush
(`MemoryInv`); a method returns before the loop goes on, and a service that is down has nothing left (`MethodsReturn`); the
windows that a method returns are written before the next call (`WindowsAreWritten`); and the record in hand is added
snapshot by snapshot, all of it before its commit (`RecordInHand`). With it two sums are kept until something fails:
`EverySeenOnce` for `EveryCommittedOnce`, where `Seen` are the rows of the committed records and those of the record in
hand that were added, and `RowsAddUp` for `FilesAgree`, where the latency rows are ahead of the interval rows by what the aggregator has accepted
and not yet returned. The counts of rows are cardinalities, which is why `TelemetryAssumption` asks for finitely many partitions.

`StreamerProofs` (any number of meters and flows, any capacity, limits, deaths and failures) proves `SInv`, and from
it `OutcomeIsTrue` and `YieldedInOrder`. An item is followed from the buffer of its meter through the pipe to the caller:
each of the three continues the one in front of it (`LineInOrder`), a meter that is alive has lost nothing
of what it put (`NothingIsLost`), and no item is ahead of what its meter did (`ItemsAreKnown`). Then an end marker that is received stands for a whole
meter that did not fail; `EndedAreOver` counts those, and `ended = Meters` leaves none out.
`TypeOK` takes another invariant, `SlotsInv`: while the streamer receives, the free slots and the items on their way are together
at most `Capacity` (`SlotsAreCounted`). It is an inequality because the items of a killed meter keep their
slots, and it counts a set because no item is twice on its way, which `LineInOrder` says. So the semaphore
is never released beyond its bound.

`MeterProofs` (any keys, times, timeouts, bounds and number of captures) proves `MInv`, and from it
type correctness, `ScanMissesNothing` and `SendsAreChecked`, and `HInv`, and from that `SnapshotsAdvance`. The scan property needs
`CacheInOrder`: the flows are in the order of their last packets and none is later than the
tick, although looking a flow up moves it before it is updated, and a cut flow sits
at the end until it is replaced (the exception in `CacheInOrder`). The bound and the delivery need `SendsInv`
(what has left the queue was stored, and it is full only while it is being reaped) and `ControlInv` (where
reaps and flushes return to, and that an exception leaves only the close to be done). `FlowInv`
says that the places which work on a flow have one. The sequence lemmas stand at its
start.

`SnapshotsAdvance` has an invariant of its own, `HInv`, which holds until an exception leaves the loop.
Flows in the cache have different keys (`DistinctKeys`), and every snapshot that was sent of a key is behind the flow that
has the key now (`SentIsBehind`): it is of a flow with an earlier first packet, or of this one before its
current interval. What makes that hold across the end of a flow is `GoneIsPast`: a key whose flow has left was cut or was idle,
so the next flow of the key starts later, because packets take the meter's time. Only the cleanup takes
flows that are neither, and after it no packet comes. `FlowInWork` carries the conditions under which a flow is being replaced,
published or expired across the reap in between.

`EveryPacketInOneFlow` has the third one, `DInv`. Its sum over the flows is of the community modules' `MapThenSumSet`, which chooses an order
of adding; an induction on the number of flows shows that the order does not matter (`SumsAgree`) and that a flow more adds its packets
(`OneFlowMore`). Every step then leaves the set of flows, adds a flow of one packet, or replaces a flow by itself with a packet more
(`SameFlows`, `OneFlowStarts`, `OneFlowGoesOn`). That a key and a first time name *one* flow is the hard part: `Delivery` says that a flow in the
cache began at another time than those of its key in the channel (`HeldOrPut`), which holds for a new flow because all that were put began
before the meter's time (`PutIsPast`); that in turn is what the cut and the idle test guarantee. During the cleanup a flow is in the
channel and still in the cache (`Held`), and no packet comes any more. `CountedInFlow` says where the packet in work is not yet counted.

That the meter implements `FlowSource` (`MeterIsAFlowSource`) then needs no new invariant, only three facts beside `DInv`. The flows held and put
have different names (`Apart`, from `HeldOrPut`); after an exception the channel does not change and the meter does not
recover (`ErrorsAreFinal`); and a step that changes the flows puts one that was held, or replaces flows by others of the same names, or begins some
(`Moves`, next to the lemmas about the sum). That it ends with no flow in hand is the last clause of `EveryPacketInOneFlow`.
`MetersAreFlowSources` of `StreamerProofs` is the other side: the processes that the streamer is proved about do not do more than
`FlowSource` allows, also when they are killed or terminated. This ties the two models to one statement of the
interface; it is not a refinement of `Streamer` by a composition with `Meter`.

`PipelineProofs` (any batches, replicas, partitions, defects and failures, audit files or not) first shows that every step of the pipeline
is a step of `Inference` or leaves it alone, which brings `IInv` over. `PInv` adds three
links: what ai-inference counts as published is in the first log (`PublishedIsSent`), what is
below ai-detector's offset is in the second (`ClassifiedIsLabelled`), and what is below
intelligent-telemetry's offset is stored or rejected (`RecordedIsSettled`).
`NothingInBetween` is the chain of the three, from `CommittedIsHandled`; `RefusalNeedsADefect`
follows from the fields alone.

`ModelCatalogProofs` (any publishers, artifacts, names, replicas; any configuration
that names the digest) proves `CInv`, and from it type correctness, `LoadedIsVerified`,
`CorruptNeedsACollision` and `AnsweredIsLoadable`. `FilesAreKnown` and `RecordIsKnown` say that only the configured
artifact ever gets to the volume, which makes the exchange of files between check and load
harmless. `ReadsItsOwn` and `AllGenuine` say that an undisturbed training reads what it wrote, and that
without a disturbed one all documents, also those on their way, are what their ids say. `FitsAreWhole`,
`PutsItsOwn` and `StoredUnderId` follow a fitted forest into the catalog, where no other
document can take its place.

The assumptions are those of the modules: finite offsets (`LogEnd \in Nat`), rows
and kinds given for each record, positive batch sizes and bounds, a value `NoOne` that
is no replica, finitely many replicas of ai-detector, finitely many partitions for intelligent-telemetry,
and in `ModelCatalog` that a digest is not a file name, that a search asks for at least one document, and that the
replicas are configured with a digest.

The library's induction theorems take an operator as a parameter, which the provers cannot instantiate. Where a sum or a count has to be
followed, the induction is on a set instead: the sizes for which a fact does not hold have no least element (`NatSet`, by
`WFMin` of `WellFoundedInduction`). No module that is proved about has a recursive operator.

Only model-checked: the liveness properties (`EventuallyCommitted`, `EventuallyCounted`, `EventuallyEnds`, `EventuallyRunning`,
`AnsweredIsSettled`), because temporal reasoning under fairness needs `ENABLED`, which the prover does not support; and the
failing runs, which are counterexamples. All invariants and all safety properties of the passing runs are proved.

## Not modelled

- What pandas and scikit-learn compute: a training gets one of the forests in `Fits`, and metrics are left out.
- The capture engine, its plugins and the anonymizer; the listeners, which the pipeline
  does not start; CSV and pandas export of flows.
- Field-level validation and the classification of a row, which are pure and
  enter the modules as the kinds of records.
- The handler of rejected records in `telemetry.py` is around `add_event()` and the writes too. A validated snapshot has finite
  numbers and strings, of which these raise no `TypeError` or `ValueError`; a write error of these types, which would commit a
  record that is partly added, is not modelled. All others are `WriteFails`.
- A process that is killed in the middle of one write to the pipe of the queue. `EndWrite` is one step, which it is for
  items up to `PIPE_BUF`; half of a larger one would leave the streamer waiting for the rest.
- Headers and columns of the CSV files. With `REBASE_EVENT_TIME` off only `EventWindows` is checked, not the service.
- Groups of the later services in `Pipeline`: `Detector` has them, and telemetry has one replica.
- Grafana, topic creation and configuration.

## Plan

Done, in this order: `AtLeastOnce`, `Inference`, `Detector`, `EventWindows`, `Telemetry`, `Meter`,
`Streamer`, `ModelCatalog`, the CSV files of telemetry (within `Telemetry`), the training service (within
`ModelCatalog`), and the composition of the three services in `Pipeline`; proofs for each of them; and `FlowSource`, which `Meter` and the meters of
`Streamer` implement. Left:

1. Groups of ai-detector replicas inside `Pipeline`, for which a refinement of its one-record service by
   `Detector` would be enough.
2. The streamer with its meters as they are: a module that composes `Streamer` with several `Meter`s, so that the second half of
   `OutcomeIsTrue` speaks of packets instead of flows.
