------------------------------ MODULE Telemetry ------------------------------
(***************************************************************************)
(* The intelligent-telemetry service: one consumer of predicted_labels     *)
(* that feeds each snapshot to the EventWindowAggregator (EventWindows),   *)
(* writes a prediction point per snapshot together with the windows that   *)
(* were completed on the way, and then commits the record.  The windows in *)
(* progress and the counters of the flows live in memory only.             *)
(*                                                                         *)
(* InfluxDB is external.  A prediction point has the timestamp of its      *)
(* detection, so writing it again changes nothing; a window is anchored at *)
(* the time of the process that counted it, so two processes never write   *)
(* the same point, and a window is kept as what it adds to the totals.     *)
(* This needs REBASE_EVENT_TIME, which is on by default.                   *)
(*                                                                         *)
(* The two CSV files are opened for appending by each process.  A row that *)
(* is written sits in a buffer until CsvExports is flushed or closed; of a *)
(* row only the snapshots that it is about are kept.                       *)
(*                                                                         *)
(* The group has one member.  All it has polled is committed before it     *)
(* polls again, so a rejoin, which happens in poll(), changes no position. *)
(***************************************************************************)
EXTENDS EventWindows, FiniteSets

CONSTANTS Partitions,   \* partitions of predicted_labels
          LogEnd,       \* records per partition
          Batch,        \* the snapshots of each record
          Invalid,      \* the records that validated_events() refuses
          MayFail,      \* what can go wrong: "crash", "write", "commit"
          MaxFailures,  \* bound on how often it does
          MaxSignals    \* bound on SIGTERM and SIGINT

Records == Partitions \X (0 .. LogEnd - 1)

ASSUME TelemetryAssumption ==
  /\ IsFiniteSet(Partitions)
  /\ LogEnd \in Nat
  /\ Batch \in [Records -> Seq(Events)]
  /\ Invalid \subseteq Records
  /\ MayFail \subseteq {"crash", "write", "commit"}
  /\ MaxFailures \in Nat
  /\ MaxSignals \in Nat

VARIABLES
  predicted,    \* records whose prediction points are in InfluxDB
  skipped,      \* records that were logged as rejected
  inWindows,    \* how often the stored windows count or reject each snapshot
  inPackets,    \* the packets they report for each flow
  intervals,    \* how often the interval rows in the file count each snapshot
  latencies,    \* the latency rows of each snapshot in the file
  unflushed,    \* and in the buffer
  committed,    \* the group's committed offsets; the for loop is there, too
  position,     \* fetch position: the polled records end here
  turn,         \* the partition whose records the for loop is in
  at,           \* the snapshot of the record that is added next
  pc,           \* where the service is in run()
  stopping,     \* self._stopping
  failed,       \* run() is unwinding, or the process ended, because of an error
  failures,     \* number of crashes and failed calls so far
  signals       \* number of signals so far

aggregatorVars == vars
csvVars     == <<intervals, latencies, unflushed>>
storeVars   == <<predicted, skipped, inWindows, inPackets, csvVars>>
fetchVars   == <<position, turn, at>>
processVars == <<pc, stopping, failed>>
serviceVars == <<storeVars, committed, fetchVars, processVars, failures, signals>>
telemetryVars == <<aggregatorVars, serviceVars>>

-----------------------------------------------------------------------------
Current == <<turn, committed[turn]>>
HasPolled(p) == committed[p] < position[p]
AllCommitted == \A p \in Partitions : committed[p] = LogEnd

\* What a finished list of windows adds to the totals.
Written ==
  /\ inWindows' = [e \in Events |-> inWindows[e] + ReportedEvents(e)]
  /\ inPackets' = [f \in Flows |-> inPackets[f] + ReportedPackets(f)]

\* The snapshots that the windows of this list count as accepted.
AcceptedIn(windows, e) == Total([n \in 1 .. Len(windows) |-> windows[n].counted[e]])

\* write_intervals(): one row for each window; it is flushed at once.
WriteIntervals == intervals' = [e \in Events |-> intervals[e] + AcceptedIn(output, e)]

\* CsvExports.flush() and close().
FlushRows ==
  /\ latencies' = [e \in Events |-> latencies[e] + unflushed[e]]
  /\ unflushed' = NoEvents

\* Mutated form: a row for every snapshot.
LatencyOfAll(e) == unflushed' = [unflushed EXCEPT ![e] = @ + 1]

\* write_latency(): a row for a snapshot that add_event() accepts; it is not
\* flushed.  One that waits for its window is always accepted.
WriteLatency(e) ==
  unflushed' = IF rejected' = rejected THEN [unflushed EXCEPT ![e] = @ + 1] ELSE unflushed

Fails(kind) ==
  /\ kind \in MayFail /\ failures < MaxFailures
  /\ failures' = failures + 1

TelemetryInit ==
  /\ Init /\ rebase = TRUE
  /\ predicted = {} /\ skipped = {}
  /\ inWindows = NoEvents /\ inPackets = NoPackets
  /\ intervals = NoEvents /\ latencies = NoEvents /\ unflushed = NoEvents
  /\ committed = [p \in Partitions |-> 0]
  /\ position = [p \in Partitions |-> 0]
  /\ turn \in Partitions /\ at = 1
  /\ pc = "poll" /\ stopping = FALSE /\ failed = FALSE
  /\ failures = 0 /\ signals = 0

(***************************************************************************)
(* The polling loop.  Time is read once per record and once per empty      *)
(* poll, so it passes between them.                                        *)
(***************************************************************************)
TimePasses ==
  /\ pc \in {"poll", "records", "down"}
  /\ clock < LastArrival \/ AllCommitted
  /\ Tick
  /\ UNCHANGED serviceVars

Poll ==
  /\ pc = "poll" /\ ~stopping
  /\ \E end \in [Partitions -> 0 .. LogEnd] :
        /\ \A p \in Partitions : end[p] >= position[p]
        /\ end # position
        /\ position' = end
  /\ pc' = "records"
  /\ UNCHANGED <<aggregatorVars, storeVars, committed, turn, at, stopping, failed, failures,
                 signals>>

\* Mutated form: an empty poll does nothing.
OnlyPolls == pc = "poll" /\ ~stopping /\ UNCHANGED telemetryVars

\* Nothing was polled: the windows that are due are closed, and written if
\* there are any.
IdlePoll ==
  /\ pc = "poll" /\ ~stopping
  /\ FlushIdle
  /\ pc' = "idle"
  /\ UNCHANGED <<storeVars, committed, fetchVars, stopping, failed, failures, signals>>

\* The rest of flush_idle(), add_event() or flush().
Aggregate ==
  /\ pc \in {"idle", "events", "flush"}
  /\ Inside
  /\ UNCHANGED serviceVars

\* Nothing was polled and no window is due: the loop turns.
EmptyPoll == pc = "poll" /\ ~stopping /\ UNCHANGED telemetryVars

IdleWindows ==
  /\ pc = "idle" /\ call = "none"
  /\ pc' = IF output = <<>> THEN "poll" ELSE "writeIdle"
  /\ UNCHANGED <<aggregatorVars, storeVars, committed, fetchVars, stopping, failed, failures,
                 signals>>

Stop ==
  /\ pc = "poll" /\ stopping
  /\ pc' = "flush"
  /\ UNCHANGED <<aggregatorVars, storeVars, committed, fetchVars, stopping, failed, failures,
                 signals>>

\* The for loop finishes one partition before it goes to another.
Take(p) ==
  /\ pc = "records" /\ HasPolled(p)
  /\ p = turn \/ ~HasPolled(turn)
  /\ turn' = p
  /\ UNCHANGED <<aggregatorVars, predicted, inWindows, inPackets, csvVars, committed, position,
                 stopping, failed, failures, signals>>

\* validated_events() raises before the first snapshot is added.  The handler
\* is around add_event() and the writes as well; what is validated makes them
\* raise no TypeError or ValueError, and other errors are in WriteFails.
Reject(p) ==
  /\ <<p, committed[p]>> \in Invalid
  /\ skipped' = skipped \union {<<p, committed[p]>>}
  /\ pc' = "commit"
  /\ UNCHANGED at
  /\ Take(p)

Accept(p) ==
  /\ <<p, committed[p]>> \notin Invalid
  /\ at' = 1
  /\ pc' = "events"
  /\ UNCHANGED skipped
  /\ Take(p)

EndOfRecords ==
  /\ pc = "records" /\ \A p \in Partitions : ~HasPolled(p)
  /\ pc' = "poll"
  /\ UNCHANGED <<aggregatorVars, storeVars, committed, fetchVars, stopping, failed, failures,
                 signals>>

AddNext ==
  /\ pc = "events" /\ call = "none" /\ at <= Len(Batch[Current])
  /\ AddEvent(Batch[Current][at])
  /\ WriteLatency(Batch[Current][at])
  /\ at' = at + 1
  /\ UNCHANGED <<predicted, skipped, inWindows, inPackets, intervals, latencies, committed,
                 position, turn, processVars, failures, signals>>

AllAdded ==
  /\ pc = "events" /\ call = "none" /\ at > Len(Batch[Current])
  /\ pc' = "write"
  /\ UNCHANGED <<aggregatorVars, storeVars, committed, fetchVars, stopping, failed, failures,
                 signals>>

(***************************************************************************)
(* Writing to InfluxDB.  A write has the prediction points of a record and *)
(* the windows in it; the windows have left the aggregator by then.        *)
(***************************************************************************)
StorePredictions ==
  predicted' = IF pc = "write" THEN predicted \union {Current} ELSE predicted

Forget ==
  /\ output' = <<>>
  /\ UNCHANGED <<timeVars, anchorVars, windowVars, seenVars, future, counter, call, added, idled>>

\* A record without snapshots has no points: _write_records() returns.
NothingToWrite == pc = "write" /\ Batch[Current] = <<>>

WriteAcked ==
  /\ pc \in {"write", "writeIdle", "writeFinal"}
  /\ StorePredictions /\ Written
  /\ IF NothingToWrite THEN UNCHANGED csvVars ELSE WriteIntervals /\ FlushRows
  /\ Forget
  /\ pc' = CASE pc = "write" -> "commit" [] pc = "writeIdle" -> "poll"
             [] pc = "writeFinal" -> "close"
  /\ UNCHANGED <<skipped, committed, fetchVars, stopping, failed, failures, signals>>

\* The exception goes through the finally clause, which flushes the rest.
Unwind ==
  /\ pc' = IF pc = "writeFinal" THEN "close" ELSE "flush"
  /\ failed' = TRUE
  /\ UNCHANGED stopping

\* InfluxDB refuses the points or does not answer in time, or the CSV file
\* cannot be written after InfluxDB has taken them.
WriteFails ==
  /\ pc \in {"write", "writeIdle", "writeFinal"}
  /\ ~NothingToWrite
  /\ Fails("write")
  /\ \/ StorePredictions /\ Written /\ UNCHANGED csvVars
     \/ StorePredictions /\ Written /\ WriteIntervals /\ UNCHANGED <<latencies, unflushed>>
     \/ UNCHANGED <<predicted, inWindows, inPackets, csvVars>>
  /\ Forget /\ Unwind
  /\ UNCHANGED <<skipped, committed, fetchVars, signals>>

\* Mutated forms: commit() without arguments stores the fetch positions; one too far.
CommitsPositions == committed' = position
CommitsBeyond == committed' = [committed EXCEPT ![turn] = @ + 2]

\* commit_processed_record(): the offset after this one record.
StoreOffset == committed' = [committed EXCEPT ![turn] = @ + 1]

CommitAcked ==
  /\ pc = "commit"
  /\ StoreOffset
  /\ pc' = "records"
  /\ UNCHANGED <<aggregatorVars, storeVars, fetchVars, stopping, failed, failures, signals>>

CommitFails ==
  /\ pc = "commit"
  /\ Fails("commit")
  /\ StoreOffset \/ UNCHANGED committed
  /\ Unwind
  /\ UNCHANGED <<aggregatorVars, storeVars, fetchVars, signals>>

(***************************************************************************)
(* The finally clause, and the process.                                    *)
(***************************************************************************)

\* Mutated form: the windows in progress are not flushed.
ClosesWithoutFlush ==
  /\ pc = "flush"
  /\ pc' = "close"
  /\ UNCHANGED <<aggregatorVars, storeVars, committed, fetchVars, stopping, failed, failures,
                 signals>>

FlushAll ==
  /\ pc = "flush"
  /\ \/ Flush /\ UNCHANGED pc
     \/ start = NoTime /\ pc' = "close" /\ UNCHANGED aggregatorVars
     \/ call = "flushed" /\ UNCHANGED aggregatorVars
        /\ pc' = IF output = <<>> THEN "close" ELSE "writeFinal"
  /\ UNCHANGED <<storeVars, committed, fetchVars, stopping, failed, failures, signals>>

HandleSignal ==
  /\ pc \notin {"close", "down"} /\ ~stopping
  /\ signals < MaxSignals
  /\ signals' = signals + 1
  /\ stopping' = TRUE
  /\ UNCHANGED <<aggregatorVars, storeVars, committed, fetchVars, pc, failed, failures>>

\* The process ends, and the aggregator with it.
Ends ==
  /\ pc' = "down"
  /\ anchor' = NoTime /\ plotAnchor' = NoTime
  /\ start' = NoTime /\ dirty' = FALSE
  /\ counted' = NoEvents /\ rejected' = NoEvents /\ packets' = NoPackets
  /\ newest' = NoTime /\ lastSeen' = NoTime
  /\ future' = NoEvents
  /\ counter' = NoPackets
  /\ call' = "none" /\ output' = <<>>
  /\ added' = NoEvents /\ idled' = FALSE
  /\ at' = 1
  /\ unflushed' = NoEvents
  /\ UNCHANGED <<timeVars, predicted, skipped, inWindows, inPackets, intervals, committed,
                 position, turn, stopping, signals>>

Close ==
  /\ pc = "close"
  /\ FlushRows /\ Ends
  /\ UNCHANGED <<failed, failures>>

\* Rows in the buffer are lost, but for those that the buffer had no room for.
Crash ==
  /\ pc # "down"
  /\ Fails("crash") /\ Ends
  /\ FlushRows \/ UNCHANGED latencies
  /\ failed' = TRUE

\* A new process fetches from the committed offsets.
Restart ==
  /\ pc = "down"
  /\ pc' = "poll"
  /\ position' = committed
  /\ stopping' = FALSE /\ failed' = FALSE
  /\ UNCHANGED <<aggregatorVars, storeVars, committed, turn, at, failures, signals>>

-----------------------------------------------------------------------------
Step ==
  \/ Aggregate \/ IdleWindows \/ Stop \/ EndOfRecords \/ AddNext \/ AllAdded
  \/ WriteAcked \/ CommitAcked \/ FlushAll \/ Close
  \/ \E p \in Partitions : Reject(p) \/ Accept(p)

TelemetryNext ==
  \/ Step \/ TimePasses \/ Poll \/ IdlePoll \/ EmptyPoll
  \/ WriteFails \/ CommitFails \/ HandleSignal \/ Crash \/ Restart

TelemetrySpec == TelemetryInit /\ [][TelemetryNext]_telemetryVars

\* Time passes, a running process takes its next step, poll() returns records
\* that are there and else the heartbeat that is due, and "restart:
\* unless-stopped" restarts a process that failed.
TelemetryLiveSpec ==
  /\ TelemetrySpec
  /\ WF_telemetryVars(TimePasses) /\ WF_telemetryVars(Step)
  /\ WF_telemetryVars(Poll) /\ WF_telemetryVars(IdlePoll)
  /\ WF_telemetryVars(failed /\ Restart)
-----------------------------------------------------------------------------
ReadingTypeOK ==
  /\ predicted \subseteq Records
  /\ skipped \subseteq Records
  /\ {committed, position} \subseteq [Partitions -> 0 .. LogEnd]
  /\ turn \in Partitions
  /\ pc \in {"poll", "idle", "records", "events", "write", "writeIdle", "commit", "flush",
             "writeFinal", "close", "down"}

TelemetryTypeOK ==
  /\ TypeOK
  /\ ReadingTypeOK
  /\ inWindows \in [Events -> Nat]
  /\ inPackets \in [Flows -> Nat]
  /\ {intervals, latencies, unflushed} \subseteq [Events -> Nat]
  /\ \A p \in Partitions : committed[p] <= position[p]
  /\ at \in Nat \ {0}
  /\ stopping \in BOOLEAN
  /\ failed \in BOOLEAN
  /\ failures \in 0 .. MaxFailures
  /\ signals \in 0 .. MaxSignals

\* The snapshots of a set of records that are valid, by record and place, and
\* how often one of them occurs.
Rows(records) == UNION {{x} \X DOMAIN Batch[x] : x \in records \ Invalid}
Copies(e, rows) == Cardinality({row \in rows : Batch[row[1]][row[2]] = e})
Occurrences(e, records) == Copies(e, Rows(records))

CommittedRecords == {x \in Records : x[2] < committed[x[1]]}

\* The service implements the promise of a consuming stage for the
\* prediction points: a record is committed once its points are stored.
Promise == INSTANCE AtLeastOnce WITH handled <- predicted \union skipped
ImplementsAtLeastOnce == Promise!Spec

\* As long as no call fails and nothing crashes, each snapshot of a committed
\* record is in exactly one stored window or still in memory, also across
\* stops and starts: the final flush leaves nothing behind.
EveryCommittedOnce ==
  failures = 0 /\ pc \in {"poll", "records", "down"} =>
     \A e \in Events : Occurrences(e, CommittedRecords) = inWindows[e] + InMemory(e)

\* The files of an experiment agree.  The interval file has no window that
\* InfluxDB lacks, whatever fails; and as long as nothing fails, each run of
\* the service leaves as many latency rows of a snapshot as its interval rows
\* accept, although the first are written when the snapshot arrives and the
\* others when its window is closed, perhaps by the final flush.
FilesAgree ==
  /\ \A e \in Events : intervals[e] <= inWindows[e]
  /\ failures = 0 /\ pc = "down" => intervals = latencies

\* Unless something fails or the service is stopped, every snapshot gets into
\* a stored window, without any traffic after the last one.
EventuallyCounted ==
  <>(\/ \A e \in Events : inWindows[e] >= Occurrences(e, Records)
     \/ failures > 0 \/ stopping)

\* "Offsets are committed only after the next pipeline stage succeeds": no
\* snapshot of a committed record is missing from the windows.
CommittedIsCounted ==
  \A e \in Events : Occurrences(e, CommittedRecords) > 0 => inWindows[e] + InMemory(e) > 0

\* "Duplicated or out-of-order cumulative snapshots must not double count":
\* the stored windows report no more packets of a flow than it had.
FlowsAddUp ==
  \A f \in Flows : \E e \in Events : Flow[e] = f /\ inPackets[f] <= Packets[e]

-----------------------------------------------------------------------------
(***************************************************************************)
(* The inductive invariant behind the theorems of TelemetryProofs.         *)
(***************************************************************************)
CommittedIsStored ==
  \A p \in Partitions : \A o \in 0 .. committed[p] - 1 : <<p, o>> \in predicted \union skipped

\* The record in hand was polled, and it is stored or skipped when its offset
\* is about to be committed.
CurrentIsPolled == pc \in {"events", "write", "commit"} => HasPolled(turn)
CommitsWhatIsStored == pc = "commit" => Current \in predicted \union skipped

TInv ==
  /\ ReadingTypeOK
  /\ CommittedIsStored
  /\ CurrentIsPolled
  /\ CommitsWhatIsStored

(***************************************************************************)
(* And the one behind the totals: what the aggregator has in memory.       *)
(***************************************************************************)

\* A window that is not dirty is empty, and so is the aggregator before its
\* first window and at the end of a flush.
CleanIsEmpty == ~dirty => counted = NoEvents /\ rejected = NoEvents
NothingBeforeAWindow == start = NoTime => ~dirty /\ output = <<>>
FlushedIsEmpty == call = "flushed" => ~dirty /\ future = NoEvents

\* The windows a method returns are written before the next one is called.
WindowsAreWritten ==
  /\ pc \in {"poll", "records", "commit", "close", "down"} => output = <<>>
  /\ pc \in {"events", "write"} /\ at = 1 => output = <<>>

\* The methods return before the service goes on, and a service that stops
\* or is down has nothing in memory.
MethodsReturn ==
  /\ pc \in {"poll", "records", "write", "writeIdle", "commit"} => call = "none"
  /\ pc = "events" /\ at = 1 => call = "none"
  /\ pc = "writeFinal" => call = "flushed"
  /\ pc = "close" => call = "flushed" \/ start = NoTime
  /\ pc = "down" => call = "none" /\ start = NoTime /\ unflushed = NoEvents

\* The snapshots of the record in hand are added one after the other, and
\* all of them before it is written and committed.
RecordInHand ==
  /\ pc \in {"events", "write"} => Current \notin Invalid
  /\ pc = "events" => at <= Len(Batch[Current]) + 1
  /\ pc \in {"write", "commit"} /\ Current \notin Invalid => at = Len(Batch[Current]) + 1

Added == IF pc \in {"events", "write", "commit"} /\ Current \notin Invalid
         THEN {Current} \X (1 .. at - 1) ELSE {}
Seen == Rows(CommittedRecords) \union Added

EverySeenOnce ==
  failures = 0 => \A e \in Events : Copies(e, Seen) = inWindows[e] + InMemory(e)

IntervalsAreStored == \A e \in Events : intervals[e] <= inWindows[e]

AcceptedInMemory(e) == AcceptedIn(output, e) + counted[e] + future[e]
RowsAddUp ==
  failures = 0 =>
     \A e \in Events : latencies[e] + unflushed[e] = intervals[e] + AcceptedInMemory(e)

MemoryInv ==
  /\ CleanIsEmpty
  /\ NothingBeforeAWindow
  /\ FlushedIsEmpty

ServiceInv ==
  /\ TInv
  /\ EInv
  /\ TelemetryTypeOK
  /\ MemoryInv
  /\ WindowsAreWritten
  /\ MethodsReturn
  /\ RecordInHand
=============================================================================
