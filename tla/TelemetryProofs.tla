--------------------------- MODULE TelemetryProofs ---------------------------
(***************************************************************************)
(* Proofs about Telemetry, for any snapshots and windows, partitions and   *)
(* records, and any bounds on time and failures.                           *)
(***************************************************************************)
EXTENDS Telemetry, EventWindowsProofs, FiniteSetTheorems

-----------------------------------------------------------------------------
LEMMA CurrentType ==
  ASSUME TInv, pc \in {"events", "write", "commit"}
  PROVE  /\ Current \in Records
         /\ committed[turn] \in 0 .. LogEnd - 1
         /\ committed[turn] + 1 \in 0 .. LogEnd
<1>1. /\ committed[turn] \in 0 .. LogEnd /\ position[turn] \in 0 .. LogEnd
      /\ committed[turn] < position[turn]
  BY DEF TInv, ReadingTypeOK, CurrentIsPolled, HasPolled
<1>2. QED  BY <1>1, TelemetryAssumption DEF TInv, ReadingTypeOK, Current, Records

\* What one step does to the stored records and the offsets: records are only
\* added, the offset of a partition moves one record, and that one is stored.
Stores == /\ predicted \subseteq predicted' /\ predicted' \subseteq Records
          /\ skipped \subseteq skipped' /\ skipped' \subseteq Records

LEMMA StoresStep ==
  ASSUME TInv, [TelemetryNext]_telemetryVars
  PROVE  Stores
<1> USE DEF Stores, TInv, ReadingTypeOK
<1>1. CASE UNCHANGED <<predicted, skipped>>
  BY <1>1
<1>2. CASE WriteAcked \/ WriteFails
  <2>1. (StorePredictions \/ UNCHANGED predicted) /\ UNCHANGED skipped
    BY <1>2 DEF WriteAcked, WriteFails
  <2>2. pc = "write" => Current \in Records
    BY CurrentType
  <2>3. QED  BY <2>1, <2>2 DEF StorePredictions
<1>3. ASSUME NEW p \in Partitions, Reject(p) PROVE Stores
  <2>1. committed[p] \in 0 .. LogEnd /\ position[p] \in 0 .. LogEnd /\ committed[p] < position[p]
    BY <1>3 DEF Reject, Take, HasPolled
  <2>2. <<p, committed[p]>> \in Records
    BY <2>1, TelemetryAssumption DEF Records
  <2>3. QED  BY <1>3, <2>2 DEF Reject, Take
<1>4. ASSUME NEW p \in Partitions, Accept(p) PROVE Stores
  BY <1>4 DEF Accept, Take
<1>5. QED
  BY <1>1, <1>2, <1>3, <1>4
  DEF TelemetryNext, Step, telemetryVars, serviceVars, storeVars,
      Aggregate, IdleWindows, Stop, EndOfRecords, AddNext, AllAdded, CommitAcked, FlushAll,
      Close, Crash, Ends, TimePasses, Poll, IdlePoll, EmptyPoll, CommitFails, HandleSignal, Restart

LEMMA OffsetsStep ==
  ASSUME TInv, [TelemetryNext]_telemetryVars
  PROVE  \/ UNCHANGED committed
         \/ pc = "commit" /\ StoreOffset /\ UNCHANGED <<predicted, skipped>>
BY DEF TelemetryNext, Step, telemetryVars, serviceVars, storeVars,
      Aggregate, IdleWindows, Stop, EndOfRecords, AddNext, AllAdded, CommitAcked, FlushAll,
      Close, Crash, Ends, TimePasses, Poll, IdlePoll, EmptyPoll, CommitFails, HandleSignal, Restart,
      WriteAcked, WriteFails, Reject, Accept, Take

LEMMA CommittedStep ==
  ASSUME TInv, [TelemetryNext]_telemetryVars
  PROVE  CommittedIsStored' /\ committed' \in [Partitions -> 0 .. LogEnd]
<1>1. CASE UNCHANGED committed
  BY <1>1, StoresStep DEF Stores, TInv, ReadingTypeOK, CommittedIsStored
<1>2. CASE pc = "commit" /\ StoreOffset /\ UNCHANGED <<predicted, skipped>>
  <2>1. committed' \in [Partitions -> 0 .. LogEnd]
    BY <1>2, CurrentType DEF StoreOffset, TInv, ReadingTypeOK
  <2>2. ASSUME NEW p \in Partitions, NEW o \in 0 .. committed'[p] - 1
        PROVE  <<p, o>> \in predicted' \union skipped'
    <3>1. CASE p = turn /\ o = committed[turn]
      BY <1>2, <3>1 DEF TInv, CommitsWhatIsStored, Current
    <3>2. CASE ~(p = turn /\ o = committed[turn])
      <4>1. o \in 0 .. committed[p] - 1
        BY <1>2, <2>2, <3>2 DEF StoreOffset, TInv, ReadingTypeOK
      <4>2. QED  BY <1>2, <4>1 DEF TInv, CommittedIsStored
    <3>3. QED  BY <3>1, <3>2
  <2>3. QED  BY <2>1, <2>2 DEF CommittedIsStored
<1>3. QED  BY <1>1, <1>2, OffsetsStep

LEMMA ReadingStep ==
  ASSUME TInv, [TelemetryNext]_telemetryVars
  PROVE  ReadingTypeOK'
<1>1. /\ predicted' \subseteq Records /\ skipped' \subseteq Records
      /\ committed' \in [Partitions -> 0 .. LogEnd]
  BY StoresStep, CommittedStep DEF Stores
<1>2. /\ position' \in [Partitions -> 0 .. LogEnd]
      /\ turn' \in Partitions
      /\ pc' \in {"poll", "idle", "records", "events", "write", "writeIdle", "commit", "flush",
                  "writeFinal", "close", "down"}
  BY DEF TInv, ReadingTypeOK, TelemetryNext, Step, telemetryVars, serviceVars, fetchVars,
      processVars, Aggregate, IdleWindows, Stop, EndOfRecords, AddNext, AllAdded, CommitAcked,
      FlushAll, Close, Crash, Ends, TimePasses, Poll, IdlePoll, EmptyPoll, CommitFails, Unwind,
      HandleSignal, Restart, WriteAcked, WriteFails, Reject, Accept, Take
<1>3. QED  BY <1>1, <1>2 DEF ReadingTypeOK

\* Where the service goes, and what it has in hand there.
LEMMA InHandStep ==
  ASSUME TInv, [TelemetryNext]_telemetryVars
  PROVE  CurrentIsPolled' /\ CommitsWhatIsStored'
<1> USE DEF CurrentIsPolled, CommitsWhatIsStored, HasPolled, Current
<1>1. CASE /\ UNCHANGED <<committed, position, turn, predicted, skipped>>
           /\ pc' \in {"events", "write", "commit"} => pc' = pc
  BY <1>1 DEF TInv
<1>2. CASE pc' \notin {"events", "write", "commit"}
  BY <1>2
<1>3. CASE AllAdded
  BY <1>3 DEF AllAdded, fetchVars, storeVars, TInv
<1>4. CASE WriteAcked /\ pc = "write"
  <2>1. pc' = "commit" /\ UNCHANGED <<committed, position, turn, skipped>>
    BY <1>4 DEF WriteAcked, fetchVars
  <2>2. Current \in predicted'
    BY <1>4 DEF WriteAcked, StorePredictions
  <2>3. QED  BY <1>4, <2>1, <2>2 DEF TInv
<1>5. ASSUME NEW p \in Partitions, Reject(p) \/ Accept(p)
      PROVE  CurrentIsPolled' /\ CommitsWhatIsStored'
  BY <1>5 DEF Reject, Accept, Take
<1>6. QED
  <2>1. CASE WriteAcked
    BY <2>1, <1>2, <1>4 DEF WriteAcked
  <2>2. CASE WriteFails \/ CommitFails
    BY <2>2, <1>2 DEF WriteFails, CommitFails, Unwind
  <2>3. CASE CommitAcked \/ Close \/ Crash \/ Restart \/ Poll \/ IdlePoll \/ IdleWindows \/ Stop
             \/ EndOfRecords \/ FlushAll
    BY <2>3, <1>2 DEF CommitAcked, Close, Crash, Ends, Restart, Poll, IdlePoll, IdleWindows, Stop,
       EndOfRecords, FlushAll
  <2>4. CASE Aggregate \/ TimePasses \/ EmptyPoll \/ HandleSignal \/ AddNext \/ UNCHANGED telemetryVars
    BY <2>4, <1>1 DEF Aggregate, TimePasses, EmptyPoll, HandleSignal, AddNext, telemetryVars,
       serviceVars, storeVars, fetchVars, processVars
  <2>5. QED
    BY <1>3, <1>5, <2>1, <2>2, <2>3, <2>4 DEF TelemetryNext, Step

LEMMA TInvStep ==
  ASSUME TInv, [TelemetryNext]_telemetryVars
  PROVE  TInv'
BY ReadingStep, CommittedStep, InHandStep DEF TInv

-----------------------------------------------------------------------------
\* The inductive invariant.
THEOREM ServiceInductive == TelemetrySpec => []TInv
<1>1. TelemetryInit => TInv
  BY TelemetryAssumption
  DEF TelemetryInit, TInv, ReadingTypeOK, CommittedIsStored, CurrentIsPolled, CommitsWhatIsStored
<1>2. TInv /\ [TelemetryNext]_telemetryVars => TInv'
  BY TInvStep
<1>3. QED  BY <1>1, <1>2, PTL DEF TelemetrySpec

\* intelligent-telemetry implements the promise of a consuming stage for the
\* prediction points, whatever the aggregator does with the snapshots: an
\* offset is committed only behind records that are stored or rejected.
THEOREM Refinement == TelemetrySpec => ImplementsAtLeastOnce
<1>1. TelemetryInit => Promise!Init
  BY DEF TelemetryInit, Promise!Init
<1>2. ASSUME TInv, [TelemetryNext]_telemetryVars
      PROVE  [Promise!Next]_<<predicted \union skipped, committed>>
  <2>1. CASE UNCHANGED committed
    BY <1>2, <2>1, StoresStep
    DEF Stores, Promise!Next, Promise!Handle, Promise!Records, Records
  <2>2. CASE pc = "commit" /\ StoreOffset /\ UNCHANGED <<predicted, skipped>>
    BY <1>2, <2>2, CommittedStep DEF CommittedIsStored, Promise!Next, Promise!Commit
  <2>3. QED  BY <1>2, <2>1, <2>2, OffsetsStep
<1>3. QED  BY ServiceInductive, <1>1, <1>2, PTL DEF TelemetrySpec, ImplementsAtLeastOnce, Promise!Spec

-----------------------------------------------------------------------------
(* The aggregator in the service.                                          *)

\* The service lets the aggregator go on, which adds a snapshot only for
\* AddNext, takes the windows it reported, or ends with it.
LEMMA ServiceSteps ==
  ASSUME [TelemetryNext]_telemetryVars
  PROVE  \/ AddNext
         \/ /\ [Next]_vars /\ \A e \in Events : ~AddEvent(e)
            /\ UNCHANGED <<inWindows, inPackets, csvVars>>
         \/ Forget /\ (WriteAcked \/ WriteFails)
         \/ Ends /\ (Close \/ Crash)
<1> DEFINE Rests == [Next]_vars /\ \A e \in Events : ~AddEvent(e)
<1>1. UNCHANGED aggregatorVars => Rests
  BY DEF aggregatorVars, vars, AddEvent, AddFirst, AddAhead, AddNow, Arrives
<1>2. CASE TimePasses
  <2>1. Rests
    BY <1>2 DEF TimePasses, Tick, Next, AddEvent, AddFirst, AddAhead, AddNow, Arrives
  <2>2. QED  BY <1>2, <2>1 DEF TimePasses, serviceVars, storeVars
<1>3. CASE IdlePoll
  <2>1. Rests
    BY <1>3 DEF IdlePoll, FlushIdle, Next, AddEvent, AddFirst, AddAhead, AddNow, Arrives
  <2>2. QED  BY <1>3, <2>1 DEF IdlePoll, storeVars
<1>4. CASE FlushAll
  <2>1. Flush => Rests
    BY DEF Flush, Next, AddEvent, AddFirst, AddAhead, AddNow, Arrives
  <2>2. QED  BY <1>1, <1>4, <2>1 DEF FlushAll, storeVars
<1>5. CASE Aggregate
  <2>1. Inside /\ call # "none"
    BY <1>5 DEF Aggregate, Inside, Drain, CloseByWatermark, WatermarkDone, CloseByHeartbeat,
       NextBeat, HeartbeatDone, CloseByFlush, FlushDone
  <2>2. Rests
    BY <2>1 DEF Next, AddEvent, AddFirst, AddAhead, AddNow, Arrives
  <2>3. QED  BY <1>5, <2>2 DEF Aggregate, serviceVars, storeVars
<1>6. CASE AddNext \/ WriteAcked \/ WriteFails \/ Close \/ Crash
  BY <1>6 DEF WriteAcked, WriteFails, Close, Crash
<1>7. CASE UNCHANGED telemetryVars
  BY <1>1, <1>7 DEF telemetryVars, serviceVars, storeVars
<1>8. CASE \/ IdleWindows \/ Stop \/ EndOfRecords \/ AllAdded \/ CommitAcked \/ Poll \/ EmptyPoll
           \/ CommitFails \/ HandleSignal \/ Restart
           \/ \E p \in Partitions : Reject(p) \/ Accept(p)
  <2>1. UNCHANGED aggregatorVars /\ UNCHANGED <<inWindows, inPackets, csvVars>>
    BY <1>8 DEF IdleWindows, Stop, EndOfRecords, AllAdded, CommitAcked, Poll, EmptyPoll,
       CommitFails, HandleSignal, Restart, Reject, Accept, Take, telemetryVars, serviceVars, storeVars
  <2>2. QED  BY <1>1, <2>1
<1> HIDE DEF Rests
<1>9. QED
  BY <1>2, <1>3, <1>4, <1>5, <1>6, <1>7, <1>8 DEF TelemetryNext, Step

\* The snapshot that AddNext adds.
NextEvent == Batch[Current][at]

LEMMA NextEventType ==
  ASSUME TInv, at \in Nat \ {0}, AddNext
  PROVE  /\ NextEvent \in Events /\ AddEvent(NextEvent) /\ [Next]_vars
         /\ Current \in Records /\ Len(Batch[Current]) \in Nat /\ at \in 1 .. Len(Batch[Current])
         /\ DOMAIN Batch[Current] = 1 .. Len(Batch[Current])
<1>1. Current \in Records
  BY CurrentType DEF AddNext
<1>2. Batch[Current] \in Seq(Events)
  BY <1>1, TelemetryAssumption
<1>3. at \in 1 .. Len(Batch[Current])
  BY <1>2 DEF AddNext
<1>4. NextEvent \in Events
  BY <1>2, <1>3, ElementOfSeq DEF NextEvent
<1>5. QED  BY <1>1, <1>2, <1>3, <1>4 DEF AddNext, Next, NextEvent

LEMMA ForgetStep ==
  ASSUME EInv, Forget
  PROVE  EInv'
<1>1. UNCHANGED <<clock, rebase, anchor, plotAnchor, start, dirty, counted, rejected, packets,
                  newest, lastSeen, future, counter, call, added, idled>>
  BY DEF Forget, timeVars, anchorVars, windowVars, seenVars
<1>2. output' \in Seq(Windows)
  BY DEF Forget
<1>3. TypeOK'
  BY <1>1, <1>2 DEF EInv, TypeOK
<1>4. (CopiesAddUp /\ WindowsAreAligned /\ StartsWithAWindow)'
  BY <1>1 DEF EInv, CopiesAddUp, WindowsAreAligned, StartsWithAWindow
<1>5. (WaitingIsAhead /\ ClosedForAReason)'
  BY <1>1 DEF EInv, WaitingIsAhead, ClosedForAReason, Watermark, PlotTime
<1>6. QED  BY <1>3, <1>4, <1>5 DEF EInv

LEMMA EndsStep ==
  ASSUME EInv, Ends
  PROVE  EInv'
<1>1. NoEvents \in [Events -> 0 .. MaxCopies] /\ NoPackets \in [Flows -> Nat]
  BY EventWindowsAssumption DEF NoEvents, NoPackets
<1>2. TypeOK'
  <2>1. {anchor', plotAnchor', start', newest', lastSeen'} = {NoTime}
    BY DEF Ends
  <2>2. /\ {counted', rejected', future', added'} \subseteq [Events -> 0 .. MaxCopies]
        /\ {counter', packets'} \subseteq [Flows -> Nat]
    BY <1>1 DEF Ends
  <2>3. UNCHANGED <<clock, rebase>> /\ dirty' \in BOOLEAN /\ idled' \in BOOLEAN
    BY DEF Ends, timeVars
  <2>4. call' = "none" /\ output' \in Seq(Windows)
    BY DEF Ends
  <2>5. QED  BY <2>1, <2>2, <2>3, <2>4 DEF EInv, TypeOK
<1>3. \A e \in Events : future'[e] = 0 /\ counted'[e] = 0 /\ rejected'[e] = 0 /\ added'[e] = 0
  BY DEF Ends, NoEvents
<1>4. start' = NoTime /\ call' = "none"
  BY DEF Ends
<1>5. CopiesAddUp' /\ WaitingIsAhead'
  BY <1>3 DEF CopiesAddUp, WaitingIsAhead
<1>6. (WindowsAreAligned /\ StartsWithAWindow /\ ClosedForAReason)'
  BY <1>4 DEF WindowsAreAligned, StartsWithAWindow, ClosedForAReason
<1>7. QED  BY <1>2, <1>5, <1>6 DEF EInv

LEMMA AggregatorStep ==
  ASSUME TInv, at \in Nat \ {0}, EInv, [TelemetryNext]_telemetryVars
  PROVE  EInv'
BY ServiceSteps, NextEventType, InvariantStep, ForgetStep, EndsStep

LEMMA MemoryInvStep ==
  ASSUME TInv, at \in Nat \ {0}, EInv, MemoryInv, [TelemetryNext]_telemetryVars
  PROVE  MemoryInv'
<1> USE DEF MemoryInv
<1>1. CASE Forget
  BY <1>1 DEF Forget, windowVars, CleanIsEmpty, NothingBeforeAWindow, FlushedIsEmpty
<1>2. CASE Ends
  BY <1>2 DEF Ends, CleanIsEmpty, NothingBeforeAWindow, FlushedIsEmpty
<1>3. CASE [Next]_vars
  <2>1. CleanIsEmpty' /\ NothingBeforeAWindow'
    <3>1. ASSUME NEW e \in Events, AddEvent(e) PROVE CleanIsEmpty' /\ NothingBeforeAWindow'
      <4>1. At[e] # NoTime
        BY Values DEF EInv, NoTime
      <4>2. CASE AddFirst(e)
        BY <4>1, <4>2 DEF AddFirst, Apply, CleanIsEmpty, NothingBeforeAWindow
      <4>3. CASE AddAhead(e)
        BY <4>3 DEF AddAhead, windowVars, CleanIsEmpty, NothingBeforeAWindow
      <4>4. CASE AddNow(e)
        BY <4>4 DEF AddNow, Apply, CleanIsEmpty, NothingBeforeAWindow
      <4>5. QED  BY <3>1, <4>2, <4>3, <4>4 DEF AddEvent
    <3>2. ASSUME NEW e \in Events, Drain(e) PROVE CleanIsEmpty' /\ NothingBeforeAWindow'
      BY <3>2 DEF Drain, Apply, CleanIsEmpty, NothingBeforeAWindow, EInv, StartsWithAWindow
    <3>3. CASE Closes
      <4>1. End # NoTime
        BY <3>3, Values, EventWindowsAssumption DEF EInv, NoTime, Closes, StartsWithAWindow, End
      <4>2. QED  BY <3>3, <4>1 DEF Closes, FinishWindow, CleanIsEmpty, NothingBeforeAWindow
    <3>4. CASE Moves
      BY <3>4 DEF Moves, windowVars, CleanIsEmpty, NothingBeforeAWindow
    <3>5. QED  BY <1>3, <3>1, <3>2, <3>3, <3>4, StepKinds DEF EInv
  <2>2. FlushedIsEmpty'
    <3>1. CASE UNCHANGED vars \/ Tick
      BY <3>1 DEF vars, windowVars, Tick, FlushedIsEmpty
    <3>2. ASSUME NEW e \in Events, AddEvent(e) PROVE FlushedIsEmpty'
      BY <3>2 DEF AddEvent, AddFirst, AddAhead, AddNow, Arrives, FlushedIsEmpty
    <3>3. ASSUME NEW e \in Events, Drain(e) PROVE FlushedIsEmpty'
      BY <3>3 DEF Drain, Drainable, NoEvents, FlushedIsEmpty
    <3>4. CASE FlushIdle \/ Flush \/ WatermarkDone \/ NextBeat \/ HeartbeatDone
      BY <3>4 DEF FlushIdle, Flush, WatermarkDone, NextBeat, HeartbeatDone, Return, FlushedIsEmpty
    <3>5. CASE CloseByWatermark \/ CloseByHeartbeat \/ CloseByFlush
      BY <3>5 DEF CloseByWatermark, CloseByHeartbeat, CloseByFlush, FlushedIsEmpty
    <3>6. CASE FlushDone
      BY <3>6 DEF FlushDone, windowVars, FlushedIsEmpty
    <3>7. QED  BY <1>3, <3>1, <3>2, <3>3, <3>4, <3>5, <3>6 DEF Next, Inside
  <2>3. QED  BY <2>1, <2>2
<1>4. QED  BY <1>1, <1>2, <1>3, ServiceSteps, NextEventType

-----------------------------------------------------------------------------
(* The service between the methods of the aggregator.                      *)

\* Steps that leave the place, and those that leave the aggregator alone.
LEMMA WrittenStep ==
  ASSUME ServiceInv, [TelemetryNext]_telemetryVars
  PROVE  WindowsAreWritten'
<1> USE DEF ServiceInv
<1>1. CASE UNCHANGED <<output, pc, at>>
  BY <1>1 DEF WindowsAreWritten
<1>2. CASE Poll \/ EmptyPoll \/ HandleSignal \/ Stop \/ IdlePoll \/ IdleWindows \/ EndOfRecords
           \/ CommitAcked \/ CommitFails \/ Restart
  BY <1>2 DEF Poll, EmptyPoll, HandleSignal, Stop, IdlePoll, IdleWindows, EndOfRecords, CommitAcked,
     CommitFails, Unwind, Restart, aggregatorVars, vars, telemetryVars, serviceVars, processVars,
     fetchVars, WindowsAreWritten
<1>3. CASE TimePasses
  BY <1>1, <1>3 DEF TimePasses, Tick, serviceVars, processVars, fetchVars
<1>4. CASE Aggregate
  <2>1. call # "none" /\ pc \in {"idle", "events", "flush"} /\ UNCHANGED <<pc, at>>
    BY <1>4 DEF Aggregate, Inside, Drain, CloseByWatermark, WatermarkDone, CloseByHeartbeat,
       NextBeat, HeartbeatDone, CloseByFlush, FlushDone, serviceVars, processVars, fetchVars
  <2>2. QED  BY <2>1 DEF WindowsAreWritten, MethodsReturn
<1>5. ASSUME NEW p \in Partitions, Reject(p) \/ Accept(p) PROVE WindowsAreWritten'
  BY <1>5 DEF Reject, Accept, Take, aggregatorVars, vars, WindowsAreWritten
<1>6. CASE AddNext
  <2>1. pc = "events" /\ pc' = pc /\ at' = at + 1 /\ at \in Nat \ {0}
    BY <1>6 DEF AddNext, processVars, TelemetryTypeOK
  <2>2. QED  BY <2>1 DEF WindowsAreWritten
<1>7. CASE AllAdded
  BY <1>7 DEF AllAdded, aggregatorVars, vars, fetchVars, WindowsAreWritten
<1>8. CASE WriteAcked \/ WriteFails \/ Close \/ Crash
  BY <1>8 DEF WriteAcked, WriteFails, Forget, Close, Crash, Ends, WindowsAreWritten
<1>9. CASE FlushAll
  <2>1. CASE Flush /\ UNCHANGED pc
    BY <1>9, <2>1 DEF FlushAll, WindowsAreWritten
  <2>2. CASE start = NoTime /\ pc' = "close" /\ UNCHANGED aggregatorVars
    BY <1>9, <2>2 DEF aggregatorVars, vars, MemoryInv, NothingBeforeAWindow, WindowsAreWritten
  <2>3. CASE UNCHANGED aggregatorVars /\ pc' = IF output = <<>> THEN "close" ELSE "writeFinal"
    BY <2>3 DEF aggregatorVars, vars, WindowsAreWritten
  <2>4. QED  BY <1>9, <2>1, <2>2, <2>3 DEF FlushAll
<1>10. CASE UNCHANGED telemetryVars
  BY <1>1, <1>10 DEF telemetryVars, aggregatorVars, vars, serviceVars, processVars, fetchVars
<1>11. QED
  BY <1>2, <1>3, <1>4, <1>5, <1>6, <1>7, <1>8, <1>9, <1>10 DEF TelemetryNext, Step

LEMMA ReturnsStep ==
  ASSUME ServiceInv, [TelemetryNext]_telemetryVars
  PROVE  MethodsReturn'
<1> USE DEF ServiceInv
<1>1. CASE UNCHANGED <<call, start, unflushed, pc, at>>
  BY <1>1 DEF MethodsReturn
<1>2. CASE Poll \/ EmptyPoll \/ HandleSignal \/ Stop \/ IdlePoll \/ IdleWindows \/ EndOfRecords
  BY <1>2 DEF Poll, EmptyPoll, HandleSignal, Stop, IdlePoll, IdleWindows, EndOfRecords,
     aggregatorVars, vars, windowVars, telemetryVars, serviceVars, processVars,
     fetchVars, storeVars, csvVars, MethodsReturn
<1>3. CASE CommitAcked \/ CommitFails \/ Restart
  BY <1>3 DEF CommitAcked, CommitFails, Unwind, Restart,
     aggregatorVars, vars, windowVars, MethodsReturn
<1>4. CASE TimePasses
  BY <1>1, <1>4 DEF TimePasses, Tick, windowVars, serviceVars, storeVars, csvVars, processVars, fetchVars
<1>5. CASE Aggregate
  <2>1. call # "none" /\ pc \in {"idle", "events", "flush"} /\ UNCHANGED <<pc, at>>
    BY <1>5 DEF Aggregate, Inside, Drain, CloseByWatermark, WatermarkDone, CloseByHeartbeat,
       NextBeat, HeartbeatDone, CloseByFlush, FlushDone, serviceVars, processVars, fetchVars
  <2>2. QED  BY <2>1 DEF MethodsReturn
<1>6. ASSUME NEW p \in Partitions, Reject(p) \/ Accept(p) PROVE MethodsReturn'
  BY <1>6 DEF Reject, Accept, Take, aggregatorVars, vars, MethodsReturn
<1>7. CASE AddNext
  <2>1. pc = "events" /\ pc' = pc /\ at' = at + 1 /\ at \in Nat \ {0}
    BY <1>7 DEF AddNext, processVars, TelemetryTypeOK
  <2>2. QED  BY <2>1 DEF MethodsReturn
<1>8. CASE AllAdded
  BY <1>8 DEF AllAdded, aggregatorVars, vars, MethodsReturn
<1>9. CASE WriteAcked
  <2>1. UNCHANGED <<call, start>>
    BY <1>9 DEF WriteAcked, Forget, windowVars
  <2>2. QED  BY <1>9, <2>1 DEF WriteAcked, MethodsReturn
<1>10. CASE WriteFails
  <2>1. UNCHANGED <<call, start>>
    BY <1>10 DEF WriteFails, Forget, windowVars
  <2>2. QED  BY <1>10, <2>1 DEF WriteFails, Unwind, MethodsReturn
<1>11. CASE Close \/ Crash
  BY <1>11 DEF Close, Crash, Ends, MethodsReturn
<1>12. CASE FlushAll
  <2>1. CASE Flush /\ UNCHANGED pc
    BY <1>12, <2>1 DEF FlushAll, MethodsReturn
  <2>2. CASE start = NoTime /\ pc' = "close" /\ UNCHANGED aggregatorVars
    BY <1>12, <2>2 DEF aggregatorVars, vars, windowVars, MethodsReturn
  <2>3. CASE call = "flushed" /\ UNCHANGED aggregatorVars /\ pc' \in {"close", "writeFinal"}
    BY <2>3 DEF aggregatorVars, vars, MethodsReturn
  <2>4. QED  BY <1>12, <2>1, <2>2, <2>3 DEF FlushAll
<1>13. CASE UNCHANGED telemetryVars
  BY <1>1, <1>13 DEF telemetryVars, aggregatorVars, vars, windowVars, serviceVars, storeVars, csvVars,
     processVars, fetchVars
<1>14. QED
  BY <1>2, <1>3, <1>4, <1>5, <1>6, <1>7, <1>8, <1>9, <1>10, <1>11, <1>12, <1>13 DEF TelemetryNext, Step

LEMMA RecordStep ==
  ASSUME ServiceInv, [TelemetryNext]_telemetryVars
  PROVE  RecordInHand'
<1> USE DEF ServiceInv
<1>1. CASE UNCHANGED <<pc, at, turn, committed>>
  BY <1>1 DEF RecordInHand, Current
<1>2. CASE pc' \notin {"events", "write", "commit"}
  BY <1>2 DEF RecordInHand
<1>3. ASSUME NEW p \in Partitions, Reject(p) PROVE RecordInHand'
  BY <1>3 DEF Reject, Take, RecordInHand, Current
<1>4. ASSUME NEW p \in Partitions, Accept(p) PROVE RecordInHand'
  <2>1. /\ committed[p] \in 0 .. LogEnd /\ position[p] \in 0 .. LogEnd /\ committed[p] < position[p]
    BY <1>4 DEF Accept, Take, HasPolled, TInv, ReadingTypeOK
  <2>2. <<p, committed[p]>> \in Records
    BY <2>1, TelemetryAssumption DEF Records
  <2>3. Len(Batch[<<p, committed[p]>>]) \in Nat
    BY <2>2, TelemetryAssumption
  <2>4. Current' = <<p, committed[p]>> /\ at' = 1 /\ pc' = "events" /\ Current' \notin Invalid
    BY <1>4 DEF Accept, Take, Current
  <2>5. QED  BY <2>3, <2>4 DEF RecordInHand
<1>5. CASE AddNext
  <2>1. /\ pc = "events" /\ pc' = pc /\ at' = at + 1 /\ Current' = Current
        /\ at \in 1 .. Len(Batch[Current]) /\ Len(Batch[Current]) \in Nat
    BY <1>5, NextEventType DEF AddNext, processVars, TelemetryTypeOK, Current
  <2>2. QED  BY <2>1 DEF RecordInHand
<1>6. CASE AllAdded
  <2>1. /\ pc = "events" /\ pc' = "write" /\ UNCHANGED at /\ Current' = Current /\ Current \in Records
    BY <1>6, CurrentType DEF AllAdded, fetchVars, Current
  <2>2. Len(Batch[Current]) \in Nat /\ at > Len(Batch[Current]) /\ at \in Nat
    BY <1>6, <2>1, TelemetryAssumption DEF AllAdded, TelemetryTypeOK
  <2>3. QED  BY <2>1, <2>2 DEF RecordInHand
<1>7. CASE WriteAcked
  <2>1. pc' = "commit" => pc = "write"
    BY <1>7 DEF WriteAcked
  <2>2. pc' \notin {"events", "write"} /\ UNCHANGED at /\ Current' = Current
    BY <1>7 DEF WriteAcked, fetchVars, Current
  <2>3. QED  BY <2>1, <2>2 DEF RecordInHand
<1>8. CASE WriteFails \/ CommitFails \/ CommitAcked \/ Close \/ Crash \/ Restart \/ Poll \/ IdlePoll
           \/ IdleWindows \/ Stop \/ EndOfRecords \/ FlushAll
  BY <1>2, <1>8 DEF WriteFails, CommitFails, Unwind, CommitAcked, Close, Crash, Ends, Restart, Poll,
     IdlePoll, IdleWindows, Stop, EndOfRecords, FlushAll
<1>9. CASE Aggregate \/ TimePasses \/ EmptyPoll \/ HandleSignal \/ UNCHANGED telemetryVars
  BY <1>1, <1>9 DEF Aggregate, TimePasses, EmptyPoll, HandleSignal, telemetryVars,
     serviceVars, fetchVars, processVars
<1>10. QED
  BY <1>3, <1>4, <1>5, <1>6, <1>7, <1>8, <1>9 DEF TelemetryNext, Step

-----------------------------------------------------------------------------
(* Types, and what is written.                                             *)

LEMMA AcceptedType ==
  ASSUME output \in Seq(Windows), NEW e \in Events
  PROVE  AcceptedIn(output, e) \in Nat /\ AcceptedIn(output, e) <= ReportedEvents(e)
<1>1. PICK a \in Seq(Nat) : a = [n \in 1 .. Len(output) |-> output[n].counted[e]]
  BY NumbersOfWindows
<1>2. PICK b \in Seq(Nat) :
         b = [n \in 1 .. Len(output) |-> output[n].counted[e] + output[n].rejected[e]]
  BY NumbersOfWindows
<1>3. Len(a) = Len(output) /\ Len(b) = Len(a)
  BY <1>1, <1>2
<1>4. ASSUME NEW n \in 1 .. Len(a) PROVE a[n] <= b[n]
  <2>1. output[n] \in Windows
    BY <1>3, ElementOfSeq
  <2>2. /\ output[n].counted \in [Events -> 0 .. MaxCopies]
        /\ output[n].rejected \in [Events -> 0 .. MaxCopies]
    BY <2>1 DEF Windows
  <2>3. output[n].counted[e] \in Nat /\ output[n].rejected[e] \in Nat
    BY <2>2, EventWindowsAssumption
  <2>4. QED  BY <1>1, <1>2, <1>3, <2>3
<1>5. Total(a) \in Nat /\ Total(a) <= Total(b)
  BY <1>3, <1>4, TotalMonotone, TotalType
<1>6. QED  BY <1>1, <1>2, <1>5 DEF AcceptedIn, ReportedEvents

LEMMA NumbersAreTyped ==
  ASSUME EInv, TelemetryTypeOK
  PROVE  /\ \A e \in Events : /\ ReportedEvents(e) \in Nat /\ AcceptedIn(output, e) \in Nat
                              /\ AcceptedIn(output, e) <= ReportedEvents(e)
                              /\ counted[e] \in Nat /\ rejected[e] \in Nat /\ future[e] \in Nat
                              /\ inWindows[e] \in Nat /\ intervals[e] \in Nat
                              /\ latencies[e] \in Nat /\ unflushed[e] \in Nat
         /\ \A f \in Flows : ReportedPackets(f) \in Nat /\ inPackets[f] \in Nat
<1>1. output \in Seq(Windows) /\ TypeOK
  BY DEF EInv, TypeOK
<1>2. \A e \in Events : AcceptedIn(output, e) \in Nat /\ AcceptedIn(output, e) <= ReportedEvents(e)
  BY <1>1, AcceptedType
<1>3. /\ \A e \in Events : ReportedEvents(e) \in Nat
      /\ \A f \in Flows : ReportedPackets(f) \in Nat
  BY <1>1, ReportedTypes
<1>4. \A e \in Events : counted[e] \in Nat /\ rejected[e] \in Nat /\ future[e] \in Nat
  BY <1>1, Values
<1>5. /\ inWindows \in [Events -> Nat] /\ inPackets \in [Flows -> Nat]
      /\ intervals \in [Events -> Nat] /\ latencies \in [Events -> Nat]
      /\ unflushed \in [Events -> Nat]
  BY DEF TelemetryTypeOK
<1>6. QED  BY <1>2, <1>3, <1>4, <1>5

\* Written and the rows keep their types.
LEMMA StoreTypesStep ==
  ASSUME TInv, EInv, TelemetryTypeOK, [TelemetryNext]_telemetryVars
  PROVE  /\ inWindows' \in [Events -> Nat] /\ inPackets' \in [Flows -> Nat]
         /\ {intervals', latencies', unflushed'} \subseteq [Events -> Nat]
<1>1. /\ inWindows \in [Events -> Nat] /\ inPackets \in [Flows -> Nat]
      /\ intervals \in [Events -> Nat] /\ latencies \in [Events -> Nat]
      /\ unflushed \in [Events -> Nat] /\ NoEvents \in [Events -> Nat]
  BY DEF TelemetryTypeOK, NoEvents
<1>2. Written => inWindows' \in [Events -> Nat] /\ inPackets' \in [Flows -> Nat]
  <2>1. /\ \A e \in Events : inWindows[e] + ReportedEvents(e) \in Nat
        /\ \A f \in Flows : inPackets[f] + ReportedPackets(f) \in Nat
    BY NumbersAreTyped
  <2>2. QED  BY <2>1 DEF Written
<1>3. WriteIntervals => intervals' \in [Events -> Nat]
  <2>1. \A e \in Events : intervals[e] + AcceptedIn(output, e) \in Nat
    BY NumbersAreTyped
  <2>2. QED  BY <2>1 DEF WriteIntervals
<1>4. FlushRows => latencies' \in [Events -> Nat] /\ unflushed' \in [Events -> Nat]
  BY <1>1 DEF FlushRows
<1>5. CASE WriteAcked
  <2>1. Written /\ (UNCHANGED csvVars \/ (WriteIntervals /\ FlushRows))
    BY <1>5 DEF WriteAcked
  <2>2. QED  BY <1>1, <1>2, <1>3, <1>4, <2>1 DEF csvVars
<1>6. CASE WriteFails
  <2>1. \/ Written /\ UNCHANGED csvVars
        \/ Written /\ WriteIntervals /\ UNCHANGED <<latencies, unflushed>>
        \/ UNCHANGED <<inWindows, inPackets, csvVars>>
    BY <1>6 DEF WriteFails
  <2>2. QED  BY <1>1, <1>2, <1>3, <2>1 DEF csvVars
<1>7. CASE Close \/ Crash
  <2>1. UNCHANGED <<inWindows, inPackets, intervals>> /\ unflushed' = NoEvents
    BY <1>7 DEF Close, Crash, Ends
  <2>2. FlushRows \/ UNCHANGED latencies
    BY <1>7 DEF Close, Crash
  <2>3. QED  BY <1>1, <1>4, <2>1, <2>2
<1>8. CASE AddNext
  <2>1. UNCHANGED <<inWindows, inPackets, intervals, latencies>> /\ WriteLatency(NextEvent)
    BY <1>8 DEF AddNext, NextEvent
  <2>2. NextEvent \in Events
    BY <1>8, NextEventType DEF TelemetryTypeOK
  <2>3. unflushed' \in [Events -> Nat]
    BY <1>1, <2>1, <2>2 DEF WriteLatency
  <2>4. QED  BY <1>1, <2>1, <2>3
<1>9. UNCHANGED <<inWindows, inPackets, csvVars>> \/ AddNext \/ WriteAcked \/ WriteFails \/ Close \/ Crash
  BY DEF TelemetryNext, Step, telemetryVars, serviceVars, storeVars, Aggregate, IdleWindows, Stop,
     EndOfRecords, AllAdded, CommitAcked, FlushAll, TimePasses, Poll, IdlePoll, EmptyPoll,
     CommitFails, HandleSignal, Restart, Reject, Accept, Take
<1>10. QED  BY <1>1, <1>5, <1>6, <1>7, <1>8, <1>9 DEF csvVars

LEMMA PositionsStep ==
  ASSUME TInv, TelemetryTypeOK, [TelemetryNext]_telemetryVars
  PROVE  \A p \in Partitions : committed'[p] <= position'[p]
<1>1. /\ committed \in [Partitions -> 0 .. LogEnd] /\ position \in [Partitions -> 0 .. LogEnd]
      /\ \A p \in Partitions : committed[p] <= position[p]
  BY DEF TelemetryTypeOK, ReadingTypeOK
<1>2. CASE UNCHANGED <<committed, position>>
  BY <1>1, <1>2
<1>3. CASE Poll
  <2>1. UNCHANGED committed /\ \A p \in Partitions : position[p] <= position'[p]
    BY <1>3 DEF Poll
  <2>2. position' \in [Partitions -> 0 .. LogEnd]
    BY ReadingStep DEF ReadingTypeOK
  <2>3. ASSUME NEW p \in Partitions PROVE committed'[p] <= position'[p]
    <3>1. committed[p] \in 0 .. LogEnd /\ position[p] \in 0 .. LogEnd /\ position'[p] \in 0 .. LogEnd
      BY <1>1, <2>2
    <3>2. committed[p] <= position[p] /\ position[p] <= position'[p] /\ committed'[p] = committed[p]
      BY <1>1, <2>1
    <3>3. QED  BY <3>1, <3>2
  <2>4. QED  BY <2>3
<1>4. CASE Restart
  <2>1. position' = committed /\ committed' = committed
    BY <1>4 DEF Restart
  <2>2. \A p \in Partitions : committed[p] \in Int
    BY <1>1
  <2>3. QED  BY <2>1, <2>2
<1>5. CASE pc = "commit" /\ StoreOffset /\ UNCHANGED position
  <2>1. committed[turn] < position[turn] /\ turn \in Partitions
    BY <1>5 DEF TInv, CurrentIsPolled, HasPolled, ReadingTypeOK
  <2>2. QED  BY <1>1, <1>5, <2>1 DEF StoreOffset
<1>6. UNCHANGED position \/ Poll \/ Restart
  BY DEF TelemetryNext, Step, telemetryVars, serviceVars, fetchVars, Aggregate, IdleWindows, Stop,
     EndOfRecords, AddNext, AllAdded, CommitAcked, FlushAll, Close, Crash, Ends, TimePasses, IdlePoll,
     EmptyPoll, CommitFails, HandleSignal, WriteAcked, WriteFails, Reject, Accept, Take
<1>7. QED  BY <1>2, <1>3, <1>4, <1>5, <1>6, OffsetsStep

LEMMA CountersOfServiceStep ==
  ASSUME TInv, TelemetryTypeOK, [TelemetryNext]_telemetryVars
  PROVE  /\ at' \in Nat \ {0} /\ stopping' \in BOOLEAN /\ failed' \in BOOLEAN
         /\ failures' \in 0 .. MaxFailures /\ signals' \in 0 .. MaxSignals
<1>1. /\ at \in Nat \ {0} /\ stopping \in BOOLEAN /\ failed \in BOOLEAN
      /\ failures \in 0 .. MaxFailures /\ signals \in 0 .. MaxSignals
      /\ MaxFailures \in Nat /\ MaxSignals \in Nat
  BY TelemetryAssumption DEF TelemetryTypeOK
<1>2. at' \in {at, at + 1, 1}
  BY DEF TelemetryNext, Step, telemetryVars, serviceVars, fetchVars, Aggregate, IdleWindows, Stop,
     EndOfRecords, AddNext, AllAdded, CommitAcked, FlushAll, Close, Crash, Ends, TimePasses, Poll,
     IdlePoll, EmptyPoll, CommitFails, HandleSignal, WriteAcked, WriteFails, Reject, Accept, Take,
     Restart
<1>3. UNCHANGED failures \/ (failures < MaxFailures /\ failures' = failures + 1)
  BY DEF TelemetryNext, Step, telemetryVars, serviceVars, Aggregate, IdleWindows, Stop,
     EndOfRecords, AddNext, AllAdded, CommitAcked, FlushAll, Close, Crash, TimePasses, Poll,
     IdlePoll, EmptyPoll, CommitFails, HandleSignal, WriteAcked, WriteFails, Reject, Accept, Take,
     Restart, Fails
<1>4. UNCHANGED signals \/ (signals < MaxSignals /\ signals' = signals + 1)
  BY DEF TelemetryNext, Step, telemetryVars, serviceVars, Aggregate, IdleWindows, Stop,
     EndOfRecords, AddNext, AllAdded, CommitAcked, FlushAll, Close, Crash, Ends, TimePasses, Poll,
     IdlePoll, EmptyPoll, CommitFails, HandleSignal, WriteAcked, WriteFails, Reject, Accept, Take,
     Restart
<1>5. stopping' \in {stopping, TRUE, FALSE}
  BY Zenon DEF TelemetryNext, Step, telemetryVars, serviceVars, processVars, Aggregate, IdleWindows, Stop,
     EndOfRecords, AddNext, AllAdded, CommitAcked, FlushAll, Close, Crash, Ends, TimePasses, Poll,
     IdlePoll, EmptyPoll, CommitFails, HandleSignal, WriteAcked, WriteFails, Unwind, Reject, Accept,
     Take, Restart
<1>6. failed' \in {failed, TRUE, FALSE}
  BY Zenon DEF TelemetryNext, Step, telemetryVars, serviceVars, processVars, Aggregate, IdleWindows, Stop,
     EndOfRecords, AddNext, AllAdded, CommitAcked, FlushAll, Close, Crash, Ends, TimePasses, Poll,
     IdlePoll, EmptyPoll, CommitFails, HandleSignal, WriteAcked, WriteFails, Unwind, Reject, Accept,
     Take, Restart
<1>7. at' \in Nat \ {0}
  BY <1>1, <1>2
<1>8. failures' \in 0 .. MaxFailures /\ signals' \in 0 .. MaxSignals
  BY <1>1, <1>3, <1>4
<1>9. stopping' \in BOOLEAN /\ failed' \in BOOLEAN
  BY <1>1, <1>5, <1>6, Zenon
<1>10. QED  BY <1>7, <1>8, <1>9

LEMMA TelemetryTypeStep ==
  ASSUME ServiceInv, [TelemetryNext]_telemetryVars
  PROVE  TelemetryTypeOK'
<1>1. TInv /\ EInv /\ TelemetryTypeOK /\ at \in Nat \ {0}
  BY DEF ServiceInv, TelemetryTypeOK
<1>2. TypeOK'
  BY <1>1, AggregatorStep DEF EInv
<1>3. ReadingTypeOK'
  BY <1>1, ReadingStep
<1>4. /\ inWindows' \in [Events -> Nat] /\ inPackets' \in [Flows -> Nat]
      /\ {intervals', latencies', unflushed'} \subseteq [Events -> Nat]
  BY <1>1, StoreTypesStep
<1>5. \A p \in Partitions : committed'[p] <= position'[p]
  BY <1>1, PositionsStep
<1>6. /\ at' \in Nat \ {0} /\ stopping' \in BOOLEAN /\ failed' \in BOOLEAN
      /\ failures' \in 0 .. MaxFailures /\ signals' \in 0 .. MaxSignals
  BY <1>1, CountersOfServiceStep
<1>7. QED  BY <1>2, <1>3, <1>4, <1>5, <1>6, Zenon DEF TelemetryTypeOK

\* The inductive invariant of the service with its aggregator.
THEOREM MemoryInductive == TelemetrySpec => []ServiceInv
<1>1. TelemetryInit => ServiceInv
  <2>1. SUFFICES ASSUME TelemetryInit PROVE ServiceInv
    OBVIOUS
  <2>2. TInv
    BY <2>1, TelemetryAssumption
    DEF TelemetryInit, TInv, ReadingTypeOK, CommittedIsStored, CurrentIsPolled, CommitsWhatIsStored
  <2>3. EInv
    BY <2>1, InitialInvariant DEF TelemetryInit
  <2>4. TelemetryTypeOK
    <3>1. /\ NoEvents \in [Events -> Nat] /\ NoPackets \in [Flows -> Nat]
      BY DEF NoEvents, NoPackets
    <3>2. /\ inWindows \in [Events -> Nat] /\ inPackets \in [Flows -> Nat]
          /\ {intervals, latencies, unflushed} \subseteq [Events -> Nat]
      BY <2>1, <3>1 DEF TelemetryInit
    <3>3. /\ \A p \in Partitions : committed[p] <= position[p]
          /\ at \in Nat \ {0} /\ failures \in 0 .. MaxFailures /\ signals \in 0 .. MaxSignals
      BY <2>1, TelemetryAssumption DEF TelemetryInit
    <3>4. stopping \in BOOLEAN /\ failed \in BOOLEAN
      BY <2>1, Zenon DEF TelemetryInit
    <3>5. TypeOK /\ ReadingTypeOK
      BY <2>2, <2>3 DEF EInv, TInv
    <3>6. QED  BY <3>2, <3>3, <3>4, <3>5, Zenon DEF TelemetryTypeOK
  <2>5. MemoryInv /\ WindowsAreWritten /\ MethodsReturn /\ RecordInHand
    BY <2>1 DEF TelemetryInit, Init, MemoryInv, CleanIsEmpty, NothingBeforeAWindow, FlushedIsEmpty,
       WindowsAreWritten, MethodsReturn, RecordInHand
  <2>6. QED  BY <2>2, <2>3, <2>4, <2>5 DEF ServiceInv
<1>2. ServiceInv /\ [TelemetryNext]_telemetryVars => ServiceInv'
  <2>1. SUFFICES ASSUME ServiceInv, [TelemetryNext]_telemetryVars PROVE ServiceInv'
    OBVIOUS
  <2>2. TInv /\ EInv /\ MemoryInv /\ at \in Nat \ {0}
    BY <2>1 DEF ServiceInv, TelemetryTypeOK
  <2>3. TInv' /\ EInv' /\ MemoryInv'
    BY <2>1, <2>2, TInvStep, AggregatorStep, MemoryInvStep
  <2>4. TelemetryTypeOK' /\ WindowsAreWritten' /\ MethodsReturn' /\ RecordInHand'
    BY <2>1, TelemetryTypeStep, WrittenStep, ReturnsStep, RecordStep
  <2>5. QED  BY <2>3, <2>4 DEF ServiceInv
<1>3. QED  BY <1>1, <1>2, PTL DEF TelemetrySpec

\* The service keeps its types: offsets within the log and behind the fetch
\* positions, totals that are numbers.
THEOREM TelemetryTypeCorrect == TelemetrySpec => []TelemetryTypeOK
<1>1. ServiceInv => TelemetryTypeOK
  BY DEF ServiceInv
<1>2. QED  BY MemoryInductive, <1>1, PTL

-----------------------------------------------------------------------------
(* The files of an experiment.                                             *)

\* As long as nothing fails, nothing has failed.
LEMMA NoFailureBefore ==
  ASSUME TInv, TelemetryTypeOK, [TelemetryNext]_telemetryVars, failures' = 0
  PROVE  failures = 0 /\ ~WriteFails /\ ~Crash /\ ~CommitFails
<1>1. failures \in Nat
  BY TelemetryAssumption DEF TelemetryTypeOK
<1>2. UNCHANGED failures \/ failures' = failures + 1
  BY DEF TelemetryNext, Step, telemetryVars, serviceVars, Aggregate, IdleWindows, Stop,
     EndOfRecords, AddNext, AllAdded, CommitAcked, FlushAll, Close, Crash, TimePasses, Poll,
     IdlePoll, EmptyPoll, CommitFails, HandleSignal, WriteAcked, WriteFails, Reject, Accept, Take,
     Restart, Fails
<1>3. WriteFails \/ Crash \/ CommitFails => failures' = failures + 1
  BY DEF WriteFails, Crash, CommitFails, Fails
<1>4. QED  BY <1>1, <1>2, <1>3

LEMMA NothingAccepted ==
  ASSUME NEW e \in Events
  PROVE  AcceptedIn(<<>>, e) = 0
<1>1. PICK windows \in Seq(Windows) : windows = <<>> /\ Len(windows) = 0
  BY EmptySeq
<1>2. PICK a \in Seq(Nat) : a = [n \in 1 .. Len(windows) |-> windows[n].counted[e]]
  BY NumbersOfWindows
<1>3. Len(a) = 0
  BY <1>1, <1>2
<1>4. Total(a) = 0
  BY <1>3, TotalOfNone
<1>5. QED  BY <1>1, <1>2, <1>4 DEF AcceptedIn

\* Whether a snapshot is accepted.
LEMMA AppliedAccepted ==
  ASSUME TypeOK, NEW e \in Events, NEW s \in Nat, Apply(e, s)
  PROVE  \A d \in Events :
            counted'[d] = IF d = e /\ rejected' = rejected THEN counted[d] + 1 ELSE counted[d]
<1>1. /\ counted \in [Events -> Nat] /\ rejected \in [Events -> Nat]
  BY Values DEF TypeOK
<1>2. CASE TooLate(e, s)
  <2>1. rejected'[e] = rejected[e] + 1 /\ rejected[e] \in Nat /\ UNCHANGED counted
    BY <1>1, <1>2 DEF Apply
  <2>2. rejected' # rejected
    BY <2>1
  <2>3. QED  BY <2>1, <2>2
<1>3. CASE ~TooLate(e, s)
  BY <1>1, <1>3 DEF Apply
<1>4. QED  BY <1>2, <1>3

LEMMA AddedAccepted ==
  ASSUME EInv, NEW e \in Events, AddEvent(e)
  PROVE  \A d \in Events :
            AcceptedInMemory(d)' =
              IF d = e /\ rejected' = rejected THEN AcceptedInMemory(d) + 1 ELSE AcceptedInMemory(d)
<1> USE DEF EInv
<1>1. /\ \A d \in Events : counted[d] \in Nat /\ future[d] \in Nat
      /\ future \in [Events -> Nat]
      /\ \A d \in Events : AcceptedIn(output, d) \in Nat
  BY Values, AcceptedType DEF TypeOK
<1>2. UNCHANGED output
  BY DEF AddEvent, AddFirst, AddAhead, AddNow, Arrives
<1>3. CASE AddAhead(e)
  <2>1. /\ UNCHANGED <<counted, rejected>>
        /\ \A d \in Events : future'[d] = IF d = e THEN future[d] + 1 ELSE future[d]
    BY <1>3, <1>1 DEF AddAhead, Wait, windowVars
  <2>2. QED  BY <1>1, <1>2, <2>1 DEF AcceptedInMemory
<1>4. CASE AddFirst(e) \/ AddNow(e)
  <2>1. PICK s \in Nat : Apply(e, s)
    BY <1>4, Values DEF AddFirst, AddNow
  <2>2. UNCHANGED future
    BY <1>4 DEF AddFirst, AddNow
  <2>3. \A d \in Events :
            counted'[d] = IF d = e /\ rejected' = rejected THEN counted[d] + 1 ELSE counted[d]
    BY <2>1, AppliedAccepted
  <2>4. QED  BY <1>1, <1>2, <2>2, <2>3 DEF AcceptedInMemory
<1>5. QED  BY <1>3, <1>4 DEF AddEvent

\* A snapshot that waits is not too late when it is drained.
LEMMA KeptAccepted ==
  ASSUME EInv, [Next]_vars, \A e \in Events : ~AddEvent(e)
  PROVE  \A d \in Events : AcceptedInMemory(d)' = AcceptedInMemory(d)
<1> USE DEF EInv
<1>1. /\ \A d \in Events : counted[d] \in Nat /\ future[d] \in Nat
      /\ future \in [Events -> Nat]
      /\ \A d \in Events : AcceptedIn(output, d) \in Nat
  BY Values, AcceptedType DEF TypeOK
<1>2. ASSUME NEW e \in Events, Drain(e)
      PROVE  \A d \in Events : AcceptedInMemory(d)' = AcceptedInMemory(d)
  <2>1. /\ Apply(e, start) /\ start \in Nat /\ UNCHANGED output /\ start <= At[e]
        /\ \A d \in Events : future'[d] = IF d = e THEN future[d] - 1 ELSE future[d]
    BY <1>1, <1>2, Values DEF Drain, Drainable, StartsWithAWindow, WaitingIsAhead
  <2>2. ~TooLate(e, start)
    BY <2>1, EventWindowsAssumption DEF TooLate
  <2>3. rejected' = rejected
    BY <2>1, <2>2 DEF Apply
  <2>4. \A d \in Events : counted'[d] = IF d = e THEN counted[d] + 1 ELSE counted[d]
    BY <2>1, <2>3, AppliedAccepted
  <2>5. ASSUME NEW d \in Events PROVE AcceptedInMemory(d)' = AcceptedInMemory(d)
    <3>1. AcceptedIn(output, d)' = AcceptedIn(output, d)
      BY <2>1
    <3>2. counted'[d] + future'[d] = counted[d] + future[d]
      BY <1>1, <2>1, <2>4
    <3>3. counted'[d] \in Int /\ future'[d] \in Int
      BY <1>1, <2>1, <2>4
    <3>4. QED  BY <1>1, <3>1, <3>2, <3>3 DEF AcceptedInMemory
  <2>6. QED  BY <2>5
<1>3. CASE Closes
  <2>1. /\ Report /\ start # NoTime /\ UNCHANGED future
        /\ \A d \in Events : counted'[d] = 0
    BY <1>3 DEF Closes, FinishWindow, StartsWithAWindow, NoEvents
  <2>2. PICK w \in Windows : w = [start |-> start, counted |-> counted, rejected |-> rejected,
                                  packets |-> packets]
    BY <2>1, CurrentWindow
  <2>3. output \in Seq(Windows) /\ output' = Append(output, w) /\ w.counted = counted
    BY <2>1, <2>2 DEF Report, TypeOK
  <2>4. ASSUME NEW d \in Events
        PROVE  AcceptedIn(output, d)' = AcceptedIn(output, d) + counted[d]
    <3>1. PICK more : more = Append(output, w)
      OBVIOUS
    <3>2. Total([n \in 1 .. Len(more) |-> more[n].counted[d]])
            = Total([n \in 1 .. Len(output) |-> output[n].counted[d]]) + w.counted[d]
      BY <2>3, <3>1, OneMoreWindowOfAccepted
    <3>3. QED  BY <2>3, <3>1, <3>2 DEF AcceptedIn
  <2>5. QED  BY <1>1, <2>1, <2>4 DEF AcceptedInMemory
<1>4. CASE Moves
  BY <1>4 DEF Moves, windowVars, AcceptedInMemory
<1>5. QED  BY <1>2, <1>3, <1>4, StepKinds

LEMMA IntervalsStep ==
  ASSUME ServiceInv, IntervalsAreStored, [TelemetryNext]_telemetryVars
  PROVE  IntervalsAreStored'
<1>1. \A e \in Events : /\ intervals[e] \in Nat /\ inWindows[e] \in Nat /\ ReportedEvents(e) \in Nat
                        /\ AcceptedIn(output, e) \in Nat /\ AcceptedIn(output, e) <= ReportedEvents(e)
                        /\ intervals[e] <= inWindows[e]
  BY NumbersAreTyped DEF ServiceInv, IntervalsAreStored
<1>2. Written => \A e \in Events : inWindows'[e] = inWindows[e] + ReportedEvents(e)
  BY DEF Written
<1>3. WriteIntervals => \A e \in Events : intervals'[e] = intervals[e] + AcceptedIn(output, e)
  BY DEF WriteIntervals
<1>4. CASE UNCHANGED <<inWindows, csvVars>>
  BY <1>1, <1>4 DEF csvVars, IntervalsAreStored
<1>5. CASE Written /\ (UNCHANGED intervals \/ WriteIntervals)
  <2>1. ASSUME NEW e \in Events PROVE intervals'[e] <= inWindows'[e]
    BY <1>1, <1>2, <1>3, <1>5
  <2>2. QED  BY <2>1 DEF IntervalsAreStored
<1>6. CASE UNCHANGED <<inWindows, intervals>>
  BY <1>6, <1>1 DEF IntervalsAreStored
<1>7. WriteAcked \/ WriteFails
        => UNCHANGED <<inWindows, csvVars>> \/ (Written /\ (UNCHANGED intervals \/ WriteIntervals))
  BY DEF WriteAcked, WriteFails, csvVars
<1>8. AddNext \/ Ends => UNCHANGED <<inWindows, intervals>>
  BY DEF AddNext, Ends
<1>9. QED  BY <1>4, <1>5, <1>6, <1>7, <1>8, ServiceSteps

LEMMA NothingWaits ==
  ASSUME EInv, start = NoTime, NEW e \in Events
  PROVE  future[e] = 0
<1>1. ~(future[e] > 0)
  BY DEF EInv, WaitingIsAhead
<1>2. future[e] \in Nat
  BY Values DEF EInv
<1>3. QED  BY <1>1, <1>2

\* Nothing is in memory when the service closes.
LEMMA NothingLeft ==
  ASSUME ServiceInv, pc = "close"
  PROVE  output = <<>> /\ \A e \in Events : counted[e] = 0 /\ rejected[e] = 0 /\ future[e] = 0
<1>1. output = <<>> /\ (call = "flushed" \/ start = NoTime)
  BY DEF ServiceInv, WindowsAreWritten, MethodsReturn
<1>2. ~dirty
  BY <1>1 DEF ServiceInv, MemoryInv, NothingBeforeAWindow, FlushedIsEmpty
<1>3. \A e \in Events : counted[e] = 0 /\ rejected[e] = 0
  BY <1>2 DEF ServiceInv, MemoryInv, CleanIsEmpty, NoEvents
<1>4. \A e \in Events : future[e] \in Nat
  BY Values DEF ServiceInv, EInv
<1>5. \A e \in Events : future[e] = 0
  <2>1. CASE call = "flushed"
    BY <2>1 DEF ServiceInv, MemoryInv, FlushedIsEmpty, NoEvents
  <2>2. CASE start = NoTime
    BY <2>2, <1>4, NothingWaits DEF ServiceInv
  <2>3. QED  BY <1>1, <2>1, <2>2
<1>6. QED  BY <1>1, <1>3, <1>5

\* A record without snapshots has closed no window.
LEMMA NothingLost ==
  ASSUME ServiceInv, NothingToWrite
  PROVE  output = <<>>
<1>1. Current \notin Invalid /\ at = Len(Batch[Current]) + 1
  BY DEF ServiceInv, RecordInHand, NothingToWrite
<1>2. at = 1
  BY <1>1 DEF NothingToWrite
<1>3. QED  BY <1>2 DEF ServiceInv, WindowsAreWritten, NothingToWrite

LEMMA RowsStep ==
  ASSUME ServiceInv, RowsAddUp, [TelemetryNext]_telemetryVars
  PROVE  RowsAddUp'
<1> SUFFICES ASSUME failures' = 0, NEW d \in Events
             PROVE  latencies'[d] + unflushed'[d] = intervals'[d] + AcceptedInMemory(d)'
  BY DEF RowsAddUp
<1>1. TInv /\ EInv /\ TelemetryTypeOK /\ at \in Nat \ {0}
  BY DEF ServiceInv, TelemetryTypeOK
<1>2. failures = 0 /\ ~WriteFails /\ ~Crash /\ ~CommitFails
  BY <1>1, NoFailureBefore
<1>3. latencies[d] + unflushed[d] = intervals[d] + AcceptedInMemory(d)
  BY <1>2 DEF RowsAddUp
<1>4. /\ latencies[d] \in Nat /\ unflushed[d] \in Nat /\ intervals[d] \in Nat
      /\ AcceptedIn(output, d) \in Nat /\ counted[d] \in Nat /\ future[d] \in Nat
      /\ unflushed \in [Events -> Nat]
  BY <1>1, NumbersAreTyped DEF TelemetryTypeOK
<1>5. AcceptedInMemory(d) \in Nat
  BY <1>4 DEF AcceptedInMemory
<1>6. CASE AddNext
  <2>1. NextEvent \in Events /\ AddEvent(NextEvent)
    BY <1>1, <1>6, NextEventType
  <2>2. UNCHANGED <<latencies, intervals>> /\ WriteLatency(NextEvent)
    BY <1>6 DEF AddNext, NextEvent
  <2>3. unflushed'[d] = IF d = NextEvent /\ rejected' = rejected THEN unflushed[d] + 1 ELSE unflushed[d]
    BY <1>4, <2>1, <2>2 DEF WriteLatency
  <2>4. AcceptedInMemory(d)' = IF d = NextEvent /\ rejected' = rejected
                               THEN AcceptedInMemory(d) + 1 ELSE AcceptedInMemory(d)
    BY <1>1, <2>1, AddedAccepted
  <2>5. QED  BY <1>3, <1>4, <1>5, <2>2, <2>3, <2>4
<1>7. CASE [Next]_vars /\ (\A e \in Events : ~AddEvent(e)) /\ UNCHANGED <<inWindows, inPackets, csvVars>>
  <2>1. AcceptedInMemory(d)' = AcceptedInMemory(d)
    BY <1>1, <1>7, KeptAccepted
  <2>2. QED  BY <1>3, <1>7, <2>1 DEF csvVars
<1>8. CASE Forget /\ WriteAcked
  <2>1. UNCHANGED <<counted, future>> /\ output' = <<>>
    BY <1>8 DEF Forget, windowVars
  <2>2. AcceptedIn(output, d)' = 0
    BY <2>1, NothingAccepted
  <2>3. AcceptedInMemory(d)' = counted[d] + future[d]
    BY <1>4, <2>1, <2>2 DEF AcceptedInMemory
  <2>4. CASE NothingToWrite
    <3>1. AcceptedIn(output, d) = 0
      BY <2>4, NothingLost, NothingAccepted
    <3>2. UNCHANGED csvVars
      BY <1>8, <2>4 DEF WriteAcked
    <3>3. QED  BY <1>3, <1>4, <2>3, <3>1, <3>2 DEF csvVars, AcceptedInMemory
  <2>5. CASE ~NothingToWrite
    <3>1. WriteIntervals /\ FlushRows
      BY <1>8, <2>5 DEF WriteAcked
    <3>2. /\ intervals'[d] = intervals[d] + AcceptedIn(output, d)
          /\ latencies'[d] = latencies[d] + unflushed[d] /\ unflushed'[d] = 0
      BY <3>1 DEF WriteIntervals, FlushRows, NoEvents
    <3>3. QED  BY <1>3, <1>4, <2>3, <3>2 DEF AcceptedInMemory
  <2>6. QED  BY <2>4, <2>5
<1>9. CASE Ends /\ Close
  <2>1. /\ latencies'[d] = latencies[d] + unflushed[d] /\ unflushed'[d] = 0 /\ UNCHANGED intervals
        /\ counted'[d] = 0 /\ future'[d] = 0 /\ output' = <<>>
    BY <1>9 DEF Close, Ends, FlushRows, NoEvents
  <2>2. AcceptedIn(output, d)' = 0
    BY <2>1, NothingAccepted
  <2>3. AcceptedInMemory(d)' = 0
    BY <2>1, <2>2 DEF AcceptedInMemory
  <2>4. output = <<>> /\ counted[d] = 0 /\ future[d] = 0
    BY <1>9, NothingLeft DEF Close
  <2>5. AcceptedInMemory(d) = 0
    BY <2>4, NothingAccepted DEF AcceptedInMemory
  <2>6. QED  BY <1>3, <1>4, <2>1, <2>3, <2>5
<1>10. QED  BY <1>2, <1>6, <1>7, <1>8, <1>9, ServiceSteps

\* The interval rows never say more than the stored windows; and while nothing
\* fails, a service that is down has left as many latency rows of a snapshot
\* as its interval rows accept.
THEOREM TheFilesAgree == TelemetrySpec => []FilesAgree
<1>1. TelemetryInit => IntervalsAreStored /\ RowsAddUp
  <2>1. SUFFICES ASSUME TelemetryInit PROVE IntervalsAreStored /\ RowsAddUp
    OBVIOUS
  <2>2. \A e \in Events : /\ intervals[e] = 0 /\ inWindows[e] = 0 /\ latencies[e] = 0 /\ unflushed[e] = 0
                          /\ counted[e] = 0 /\ future[e] = 0
    BY <2>1 DEF TelemetryInit, Init, NoEvents
  <2>3. \A e \in Events : AcceptedIn(output, e) = 0
    BY <2>1, NothingAccepted DEF TelemetryInit, Init
  <2>4. ASSUME NEW e \in Events
        PROVE  /\ intervals[e] <= inWindows[e]
               /\ latencies[e] + unflushed[e] = intervals[e] + AcceptedInMemory(e)
    BY <2>2, <2>3 DEF AcceptedInMemory
  <2>5. QED  BY <2>4 DEF IntervalsAreStored, RowsAddUp
<1>2. ServiceInv /\ (IntervalsAreStored /\ RowsAddUp) /\ [TelemetryNext]_telemetryVars
        => (IntervalsAreStored /\ RowsAddUp)'
  BY IntervalsStep, RowsStep
<1>3. ServiceInv /\ (IntervalsAreStored /\ RowsAddUp) => FilesAgree
  <2>1. SUFFICES ASSUME ServiceInv, IntervalsAreStored, RowsAddUp, failures = 0, pc = "down"
                 PROVE  intervals = latencies
    BY DEF FilesAgree, IntervalsAreStored
  <2>2. start = NoTime /\ unflushed = NoEvents /\ output = <<>>
    BY <2>1 DEF ServiceInv, MethodsReturn, WindowsAreWritten
  <2>3. \A e \in Events : counted[e] = 0
    BY <2>1, <2>2 DEF ServiceInv, MemoryInv, NothingBeforeAWindow, CleanIsEmpty, NoEvents
  <2>4. \A e \in Events : future[e] = 0
    BY <2>1, <2>2, NothingWaits DEF ServiceInv
  <2>5. \A e \in Events : AcceptedInMemory(e) = 0
    <3>1. SUFFICES ASSUME NEW e \in Events PROVE AcceptedInMemory(e) = 0
      OBVIOUS
    <3>2. AcceptedIn(output, e) = 0 /\ counted[e] = 0 /\ future[e] = 0
      BY <2>2, <2>3, <2>4, NothingAccepted
    <3>3. QED  BY <3>2 DEF AcceptedInMemory
  <2>6. intervals \in [Events -> Nat] /\ latencies \in [Events -> Nat]
    BY <2>1 DEF ServiceInv, TelemetryTypeOK
  <2>7. ASSUME NEW e \in Events PROVE intervals[e] = latencies[e]
    <3>1. latencies[e] + unflushed[e] = intervals[e] + AcceptedInMemory(e)
      BY <2>1 DEF RowsAddUp
    <3>2. unflushed[e] = 0 /\ latencies[e] \in Nat /\ intervals[e] \in Nat
      BY <2>2, <2>6 DEF NoEvents
    <3>3. QED  BY <2>5, <3>1, <3>2
  <2>8. QED  BY <2>6, <2>7
<1>4. QED  BY MemoryInductive, <1>1, <1>2, <1>3, PTL DEF TelemetrySpec

-----------------------------------------------------------------------------
(* Committed snapshots are counted once.                                   *)

LEMMA RowsAreFinite ==
  ASSUME NEW records \in SUBSET Records
  PROVE  IsFiniteSet(Rows(records))
<1>1. IsFiniteSet(Records)
  <2>1. IsFiniteSet(0 .. LogEnd - 1)
    BY FS_Interval, TelemetryAssumption
  <2>2. QED  BY <2>1, FS_Product, TelemetryAssumption DEF Records
<1>2. \A x \in Records : IsFiniteSet({x} \X DOMAIN Batch[x])
  <2>1. ASSUME NEW x \in Records PROVE IsFiniteSet({x} \X DOMAIN Batch[x])
    <3>1. Len(Batch[x]) \in Nat /\ DOMAIN Batch[x] = 1 .. Len(Batch[x])
      BY TelemetryAssumption
    <3>2. IsFiniteSet(1 .. Len(Batch[x]))
      BY <3>1, FS_Interval
    <3>3. IsFiniteSet({x})
      BY FS_Singleton
    <3>4. QED  BY <3>1, <3>2, <3>3, FS_Product
  <2>2. QED  BY <2>1
<1> DEFINE Parts == {{x} \X DOMAIN Batch[x] : x \in records \ Invalid}
<1>3. IsFiniteSet(records \ Invalid)
  BY <1>1, FS_Subset
<1>4. IsFiniteSet(Parts)
  <2> DEFINE part == [x \in records \ Invalid |-> {x} \X DOMAIN Batch[x]]
  <2>1. part \in Surjection(records \ Invalid, Parts)
    BY DEF Surjection
  <2>2. QED  BY <1>3, <2>1, FS_Surjection
<1>5. \A T \in Parts : IsFiniteSet(T)
  BY <1>2
<1> HIDE DEF Parts
<1>6. IsFiniteSet(UNION Parts)
  BY <1>4, <1>5, FS_UNION
<1>7. QED  BY <1>6 DEF Parts, Rows

LEMMA CopiesOfOneMore ==
  ASSUME NEW rows, IsFiniteSet(rows), NEW row, row \notin rows, NEW e
  PROVE  Copies(e, rows \union {row}) =
           IF Batch[row[1]][row[2]] = e THEN Copies(e, rows) + 1 ELSE Copies(e, rows)
<1> DEFINE Of(set) == {r \in set : Batch[r[1]][r[2]] = e}
<1>1. Copies(e, rows) = Cardinality(Of(rows))
      /\ Copies(e, rows \union {row}) = Cardinality(Of(rows \union {row}))
  BY DEF Copies
<1>2. IsFiniteSet(Of(rows)) /\ row \notin Of(rows)
  BY FS_Subset
<1>3. CASE Batch[row[1]][row[2]] = e
  <2>1. Of(rows \union {row}) = Of(rows) \union {row}
    BY <1>3
  <2> HIDE DEF Of
  <2>2. Cardinality(Of(rows) \union {row}) = Cardinality(Of(rows)) + 1
    BY <1>2, FS_AddElement
  <2>3. QED  BY <1>1, <1>3, <2>1, <2>2
<1>4. CASE Batch[row[1]][row[2]] # e
  <2>1. Of(rows \union {row}) = Of(rows)
    BY <1>4
  <2>2. QED  BY <1>1, <1>4, <2>1
<1>5. QED  BY <1>3, <1>4

\* Committing the record in hand moves its rows to those of the others.
LEMMA CommittedRows ==
  ASSUME ServiceInv, CommitAcked
  PROVE  Seen' = Seen
<1>1. /\ pc = "commit" /\ pc' = "records" /\ Current \in Records /\ turn \in Partitions
      /\ committed \in [Partitions -> 0 .. LogEnd]
      /\ committed' = [committed EXCEPT ![turn] = @ + 1]
  BY CurrentType DEF ServiceInv, TInv, ReadingTypeOK, CommitAcked, StoreOffset
<1>2. CommittedRecords' = CommittedRecords \union {Current}
  <2>1. ASSUME NEW x \in Records
        PROVE  x[2] < committed'[x[1]] <=> x[2] < committed[x[1]] \/ x = Current
    <3>1. x = <<x[1], x[2]>> /\ x[1] \in Partitions /\ x[2] \in Int
      BY TelemetryAssumption DEF Records
    <3>2. committed[x[1]] \in Int
      BY <1>1, <3>1
    <3>3. CASE x[1] = turn
      <4>1. committed'[x[1]] = committed[x[1]] + 1
        BY <1>1, <3>3
      <4>2. x = Current <=> x[2] = committed[x[1]]
        BY <3>1, <3>3 DEF Current
      <4>3. QED  BY <3>1, <3>2, <4>1, <4>2
    <3>4. CASE x[1] # turn
      <4>1. committed'[x[1]] = committed[x[1]] /\ x # Current
        BY <1>1, <3>1, <3>4 DEF Current
      <4>2. QED  BY <4>1
    <3>5. QED  BY <3>3, <3>4
  <2>2. QED  BY <1>1, <2>1 DEF CommittedRecords
<1>3. Added' = {}
  BY <1>1 DEF Added
<1>4. Rows(CommittedRecords \union {Current})
        = Rows(CommittedRecords)
            \union (IF Current \in Invalid THEN {} ELSE {Current} \X DOMAIN Batch[Current])
  BY DEF Rows
<1>5. Added = IF Current \in Invalid THEN {} ELSE {Current} \X DOMAIN Batch[Current]
  <2>1. CASE Current \in Invalid
    BY <2>1 DEF Added
  <2>2. CASE Current \notin Invalid
    <3>1. at = Len(Batch[Current]) + 1
      BY <1>1, <2>2 DEF ServiceInv, RecordInHand
    <3>2. Len(Batch[Current]) \in Nat /\ DOMAIN Batch[Current] = 1 .. Len(Batch[Current])
      BY <1>1, TelemetryAssumption
    <3>3. at - 1 = Len(Batch[Current])
      BY <3>1, <3>2
    <3>4. QED  BY <1>1, <2>2, <3>2, <3>3 DEF Added
  <2>3. QED  BY <2>1, <2>2
<1>6. Rows(CommittedRecords)' = Rows(CommittedRecords \union {Current})
  BY <1>2 DEF Rows
<1>7. QED  BY <1>3, <1>4, <1>5, <1>6 DEF Seen

LEMMA SeenStep ==
  ASSUME ServiceInv, [TelemetryNext]_telemetryVars, failures' = 0, ~AddNext
  PROVE  Seen' = Seen
<1>1. ~WriteFails /\ ~Crash /\ ~CommitFails
  BY NoFailureBefore DEF ServiceInv
<1>2. CASE UNCHANGED <<committed, pc, turn, at>>
  BY <1>2 DEF Seen, CommittedRecords, Rows, Added, Current
<1>3. CASE /\ UNCHANGED committed
           /\ pc \notin {"events", "write", "commit"} /\ pc' \notin {"events", "write", "commit"}
  BY <1>3 DEF Seen, CommittedRecords, Rows, Added
<1>4. CASE UNCHANGED <<committed, turn, at>> /\ pc \in {"events", "write"} /\ pc' \in {"write", "commit"}
  BY <1>4 DEF Seen, CommittedRecords, Rows, Added, Current
<1>5. ASSUME NEW p \in Partitions, Reject(p) \/ Accept(p) PROVE Seen' = Seen
  <2>1. UNCHANGED committed /\ pc = "records"
    BY <1>5 DEF Reject, Accept, Take
  <2>2. Added = {}
    BY <2>1 DEF Added
  <2>3. Added' = {}
    <3>1. CASE Reject(p)
      BY <3>1 DEF Reject, Take, Added, Current
    <3>2. CASE Accept(p)
      <4>1. at' = 1 /\ 1 .. at' - 1 = {}
        BY <3>2 DEF Accept
      <4>2. QED  BY <4>1 DEF Added
    <3>3. QED  BY <1>5, <3>1, <3>2
  <2>4. QED  BY <2>1, <2>2, <2>3 DEF Seen, CommittedRecords, Rows
<1>6. CASE AllAdded
  BY <1>4, <1>6 DEF AllAdded, fetchVars
<1>7. CASE WriteAcked
  <2>1. UNCHANGED <<committed, turn, at>>
    BY <1>7 DEF WriteAcked, fetchVars
  <2>2. CASE pc = "write"
    BY <1>4, <1>7, <2>1, <2>2 DEF WriteAcked
  <2>3. CASE pc \in {"writeIdle", "writeFinal"}
    BY <1>3, <1>7, <2>1, <2>3 DEF WriteAcked
  <2>4. QED  BY <1>7, <2>2, <2>3 DEF WriteAcked
<1>8. CASE CommitAcked
  BY <1>8, CommittedRows
<1>9. CASE Close \/ Restart \/ Poll \/ IdlePoll \/ IdleWindows \/ Stop \/ EndOfRecords \/ FlushAll
  BY <1>3, <1>9 DEF Close, Ends, Restart, Poll, IdlePoll, IdleWindows, Stop, EndOfRecords, FlushAll
<1>10. CASE Aggregate \/ TimePasses \/ EmptyPoll \/ HandleSignal \/ UNCHANGED telemetryVars
  BY <1>2, <1>10 DEF Aggregate, TimePasses, EmptyPoll, HandleSignal, telemetryVars, serviceVars,
     fetchVars, processVars
<1>11. QED
  BY <1>1, <1>5, <1>6, <1>7, <1>8, <1>9, <1>10 DEF TelemetryNext, Step

\* AddNext adds a row that was not there.
LEMMA SeenMore ==
  ASSUME ServiceInv, AddNext, NEW d \in Events
  PROVE  Copies(d, Seen)' = IF d = NextEvent THEN Copies(d, Seen) + 1 ELSE Copies(d, Seen)
<1>1. TInv /\ at \in Nat \ {0}
  BY DEF ServiceInv, TelemetryTypeOK
<1>2. /\ Current \in Records /\ at \in 1 .. Len(Batch[Current]) /\ Len(Batch[Current]) \in Nat
  BY <1>1, NextEventType
<1>3. /\ pc = "events" /\ UNCHANGED <<pc, turn, committed>> /\ at' = at + 1 /\ Current' = Current
      /\ Current \notin Invalid
  BY DEF AddNext, processVars, Current, ServiceInv, RecordInHand
<1>4. PICK row : row = <<Current, at>>
  OBVIOUS
<1>5. Added = {Current} \X (1 .. at - 1) /\ Added' = {Current} \X (1 .. at)
  <2>1. at' - 1 = at
    BY <1>1, <1>3
  <2>2. QED  BY <1>3, <2>1 DEF Added
<1>6. Added' = Added \union {row} /\ row \notin Added
  <2>1. 1 .. at = (1 .. at - 1) \union {at} /\ at \notin 1 .. at - 1
    BY <1>1
  <2>2. QED  BY <1>4, <1>5, <2>1
<1>7. row \notin Rows(CommittedRecords)
  <2>1. Current \notin CommittedRecords
    <3>1. Current[1] = turn /\ Current[2] = committed[turn] /\ committed[turn] \in Int
      BY <1>1, <1>3, CurrentType DEF Current
    <3>2. QED  BY <3>1 DEF CommittedRecords
  <2>2. QED  BY <1>4, <2>1 DEF Rows
<1>8. Seen' = Seen \union {row} /\ row \notin Seen
  <2>1. Rows(CommittedRecords)' = Rows(CommittedRecords)
    BY <1>3 DEF Rows, CommittedRecords
  <2>2. QED  BY <1>6, <1>7, <2>1 DEF Seen
<1>9. IsFiniteSet(Seen)
  <2>1. IsFiniteSet(Rows(CommittedRecords))
    BY RowsAreFinite DEF CommittedRecords
  <2>2. IsFiniteSet(1 .. at - 1)
    BY <1>1, FS_Interval
  <2>3. IsFiniteSet({Current})
    BY FS_Singleton
  <2>4. IsFiniteSet(Added)
    BY <1>5, <2>2, <2>3, FS_Product
  <2>5. QED  BY <2>1, <2>4, FS_Union DEF Seen
<1>10. Batch[row[1]][row[2]] = NextEvent
  BY <1>4 DEF NextEvent
<1>11. PICK rows, more : rows = Seen /\ more = Seen'
  OBVIOUS
<1>12. Copies(d, more) = IF NextEvent = d THEN Copies(d, rows) + 1 ELSE Copies(d, rows)
  BY <1>8, <1>9, <1>10, <1>11, CopiesOfOneMore
<1>13. Copies(d, Seen)' = Copies(d, more)
  BY <1>11 DEF Copies
<1>14. QED  BY <1>11, <1>12, <1>13

LEMMA NoReportsAfter ==
  ASSUME output' = <<>>, NEW e \in Events
  PROVE  ReportedEvents(e)' = 0
<1>1. PICK windows \in Seq(Windows) : windows = <<>> /\ Len(windows) = 0
  BY EmptySeq
<1>2. PICK a \in Seq(Nat) :
         a = [n \in 1 .. Len(windows) |-> windows[n].counted[e] + windows[n].rejected[e]]
  BY NumbersOfWindows
<1>3. Len(a) = 0
  BY <1>1, <1>2
<1>4. Total(a) = 0
  BY <1>3, TotalOfNone
<1>5. output' = windows
  BY <1>1
<1>6. QED  BY <1>2, <1>4, <1>5 DEF ReportedEvents

LEMMA SeenOnceStep ==
  ASSUME ServiceInv, EverySeenOnce, [TelemetryNext]_telemetryVars
  PROVE  EverySeenOnce'
<1> SUFFICES ASSUME failures' = 0, NEW d \in Events
             PROVE  Copies(d, Seen)' = inWindows'[d] + InMemory(d)'
  BY DEF EverySeenOnce
<1>1. TInv /\ EInv /\ TelemetryTypeOK /\ at \in Nat \ {0}
  BY DEF ServiceInv, TelemetryTypeOK
<1>2. failures = 0 /\ ~WriteFails /\ ~Crash
  BY <1>1, NoFailureBefore
<1>3. Copies(d, Seen) = inWindows[d] + InMemory(d)
  BY <1>2 DEF EverySeenOnce
<1>4. /\ inWindows[d] \in Nat /\ ReportedEvents(d) \in Nat
      /\ counted[d] \in Nat /\ rejected[d] \in Nat /\ future[d] \in Nat
  BY <1>1, NumbersAreTyped
<1>5. InMemory(d) \in Nat
  BY <1>4 DEF InMemory
<1>6. ~AddNext => Copies(d, Seen)' = Copies(d, Seen)
  BY SeenStep DEF Copies
<1>7. CASE AddNext
  <2>1. NextEvent \in Events /\ AddEvent(NextEvent) /\ UNCHANGED inWindows
    BY <1>1, <1>7, NextEventType DEF AddNext
  <2>2. InMemory(d)' = IF d = NextEvent THEN InMemory(d) + 1 ELSE InMemory(d)
    BY <1>1, <2>1, AddedToMemory
  <2>3. Copies(d, Seen)' = IF d = NextEvent THEN Copies(d, Seen) + 1 ELSE Copies(d, Seen)
    BY <1>7, SeenMore
  <2>4. QED  BY <1>3, <1>4, <1>5, <2>1, <2>2, <2>3
<1>8. CASE /\ ~AddNext /\ [Next]_vars /\ (\A e \in Events : ~AddEvent(e))
           /\ UNCHANGED <<inWindows, inPackets, csvVars>>
  <2>1. InMemory(d)' = InMemory(d)
    BY <1>1, <1>8, KeptInMemory
  <2>2. QED  BY <1>3, <1>6, <1>8, <2>1
<1>9. CASE ~AddNext /\ Forget /\ WriteAcked
  <2>1. UNCHANGED <<counted, rejected, future>> /\ ReportedEvents(d)' = 0
    BY <1>9, NoReportsAfter DEF Forget, windowVars
  <2>2. inWindows'[d] = inWindows[d] + ReportedEvents(d)
    BY <1>9 DEF WriteAcked, Written
  <2>3. InMemory(d)' = counted[d] + rejected[d] + future[d]
    BY <1>4, <2>1 DEF InMemory
  <2>4. QED  BY <1>3, <1>4, <1>6, <1>9, <2>2, <2>3 DEF InMemory
<1>10. CASE ~AddNext /\ Ends /\ Close
  <2>1. /\ UNCHANGED inWindows /\ ReportedEvents(d)' = 0
        /\ counted'[d] = 0 /\ rejected'[d] = 0 /\ future'[d] = 0
    BY <1>10, NoReportsAfter DEF Ends, NoEvents
  <2>2. InMemory(d)' = 0
    BY <2>1 DEF InMemory
  <2>3. output = <<>> /\ counted[d] = 0 /\ rejected[d] = 0 /\ future[d] = 0
    BY <1>10, NothingLeft DEF Close
  <2>4. ReportedEvents(d) = 0
    BY <1>1, <2>3, NothingReported DEF EInv
  <2>5. InMemory(d) = 0
    BY <2>3, <2>4 DEF InMemory
  <2>6. QED  BY <1>3, <1>6, <1>10, <2>1, <2>2, <2>5
<1>11. QED  BY <1>2, <1>7, <1>8, <1>9, <1>10, ServiceSteps

\* Without failures each snapshot of a committed record is in exactly one
\* stored window or still in memory, also across stops and starts.
THEOREM CommittedIsCountedOnce == TelemetrySpec => []EveryCommittedOnce
<1>1. TelemetryInit => EverySeenOnce
  <2>1. SUFFICES ASSUME TelemetryInit, NEW e \in Events
                 PROVE  Copies(e, Seen) = inWindows[e] + InMemory(e)
    BY DEF EverySeenOnce
  <2>2. CommittedRecords = {}
    BY <2>1, TelemetryAssumption DEF TelemetryInit, CommittedRecords, Records
  <2>3. Seen = {}
    BY <2>1, <2>2 DEF TelemetryInit, Seen, Rows, Added
  <2>4. Copies(e, Seen) = 0
    BY <2>3, FS_EmptySet DEF Copies
  <2>5. inWindows[e] = 0 /\ future[e] = 0 /\ counted[e] = 0 /\ rejected[e] = 0
    BY <2>1 DEF TelemetryInit, Init, NoEvents
  <2>6. ReportedEvents(e) = 0
    BY <2>1, InitialTypes, NothingReported DEF TelemetryInit, Init
  <2>7. InMemory(e) = 0
    BY <2>5, <2>6 DEF InMemory
  <2>8. QED  BY <2>4, <2>5, <2>7
<1>2. ServiceInv /\ EverySeenOnce /\ [TelemetryNext]_telemetryVars => EverySeenOnce'
  BY SeenOnceStep
<1>3. EverySeenOnce => EveryCommittedOnce
  <2>1. SUFFICES ASSUME EverySeenOnce, failures = 0, pc \in {"poll", "records", "down"}, NEW e \in Events
                 PROVE  Occurrences(e, CommittedRecords) = inWindows[e] + InMemory(e)
    BY DEF EveryCommittedOnce
  <2>2. Seen = Rows(CommittedRecords)
    BY <2>1 DEF Seen, Added
  <2>3. QED  BY <2>1, <2>2 DEF EverySeenOnce, Occurrences
<1>4. QED  BY MemoryInductive, <1>1, <1>2, <1>3, PTL DEF TelemetrySpec
=============================================================================
