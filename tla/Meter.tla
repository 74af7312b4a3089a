------------------------------- MODULE Meter -------------------------------
(***************************************************************************)
(* One meter process of nfmod with the KafkaSnapshotPlugin, the plugin     *)
(* that the nfstream service runs.  The meter assigns packets to flows,    *)
(* keeps the flows in a cache in the order of their last packet, cuts the  *)
(* ones that are idle or too long, and puts the flows that end into the    *)
(* channel of the streamer.  The plugin sends a cumulative snapshot of a   *)
(* flow whenever a packet comes after the end of the flow's interval, and  *)
(* keeps a bounded queue of the sends that it has not checked yet.         *)
(*                                                                         *)
(* The engine (capture, update of the C counters) and the Kafka producer   *)
(* are external.  Of the engine's counters the packets of a flow are kept, *)
(* and of the plugin's, which a snapshot carries, the packets with data in *)
(* either direction; a packet brings 1 of them, or 0 if its payload is     *)
(* empty.                                                                  *)
(***************************************************************************)
EXTENDS Integers, SequencesExt

CONSTANTS Keys,           \* the flow keys of this meter's packets
          Times,          \* the times of packets, in milliseconds
          IdleTimeout, ActiveTimeout,
          Interval,       \* interval_seconds of the plugin
          ScanInterval,   \* meter_scan_interval
          ScanBudget,     \* flows that one scan may expire
          FlushRate,      \* flush_packet_interval()
          CleanupFlush,   \* cleanup_flush_flow_interval()
          MaxPending,     \* max_pending_sends
          Sources,        \* the number of captures that are read
          MaxPackets      \* bound on the number of packets

ASSUME MeterAssumption ==
  /\ Times \subseteq Nat
  /\ {IdleTimeout, ActiveTimeout} \subseteq Nat \ {0}
  /\ {Interval, ScanInterval, MaxPackets} \subseteq Nat
  /\ {ScanBudget, FlushRate, CleanupFlush, MaxPending, Sources} \subseteq Nat \ {0}

VARIABLES
  pc, then,    \* the place in the code, and where reap or flush returns to
  drain,       \* the drain argument of _reap_pending_sends()
  failure,     \* failure is not None
  files,       \* captures that are still to be read
  tick,        \* meter_tick
  scanTick,    \* meter_scan_tick
  goScan,      \* go_scan
  packet,      \* the packet in work
  processed,   \* processed_packets
  counted,     \* the packet in work is part of a flow, or was given up
  lost,        \* packets given up because there was no memory for a flow
  cache,       \* the NFCache: flows, least recently used first
  scanned,     \* flows expired by the scan
  cleaned,     \* counter of meter_cleanup()
  channel,     \* the flows put into the channel
  sends,       \* the snapshots passed to producer.send()
  answer,      \* what became of each: "none" so far, "stored" or "refused"
  reaped       \* how many sends have left _pending_sends

controlVars == <<pc, then, drain, failure, files>>
timeVars    == <<tick, scanTick>>
packetVars  == <<packet, processed, counted, lost>>
flowVars    == <<cache, channel>>
loopVars    == <<goScan, scanned, cleaned>>
sendVars    == <<sends, answer, reaped>>
vars == <<controlVars, timeVars, packetVars, flowVars, loopVars, sendVars>>

-----------------------------------------------------------------------------
Larger(a, b) == IF a < b THEN b ELSE a

NoPacket == [key |-> "none", time |-> 0, data |-> 0]

\* on_init(): the interval of a flow starts with its first packet.
OnInit(f) == [f EXCEPT !.start = packet.time, !.end = packet.time + Interval,
                       !.data = packet.data]

\* The flow that starts with the packet in work.
NewFlow == OnInit([key     |-> packet.key, first |-> packet.time, last |-> packet.time,
                   packets |-> 1,          start |-> 0,           end  |-> 0,
                   data    |-> 0])

\* is_idle()
IsIdle(f) == tick - IdleTimeout >= f.last

\* meter_update_flow() refuses the packet: the flow is to be cut.
IsCut(f) == \/ packet.time - f.last >= IdleTimeout
            \/ packet.time - f.first >= ActiveTimeout

HasFlow(i) == cache[i].key = packet.key
Miss == \A i \in DOMAIN cache : ~HasFlow(i)

\* Reading the cache makes a flow the most recently used one.
MovedToEnd(i, f) == Append(RemoveAt(cache, i), f)

Pending == Len(sends) - reaped
MustWait == drain \/ Pending >= MaxPending
Oldest == answer[reaped + 1]

\* Call _reap_pending_sends() or flush_meter_producer(), then go on.
Reap(next) == pc' = "reap" /\ then' = next /\ drain' = FALSE
Flush(next) == pc' = "flush" /\ then' = next /\ UNCHANGED drain
Goto(next) == pc' = next /\ UNCHANGED <<then, drain>>

\* An exception leaves meter_workflow() through its finally clause, which
\* flushes once more.
Fail ==
  /\ failure' = TRUE
  /\ IF then = "closed" THEN Goto("closed") ELSE Flush("closed")
  /\ UNCHANGED <<files, timeVars, packetVars, flowVars, loopVars, sendVars>>

Init ==
  /\ pc = "open" /\ then = "open" /\ drain = FALSE /\ failure = FALSE /\ files = Sources
  /\ tick = 0 /\ scanTick = 0 /\ goScan = FALSE
  /\ packet = NoPacket /\ processed = 0 /\ counted = TRUE /\ lost = 0
  /\ cache = <<>> /\ scanned = 0 /\ cleaned = 0 /\ channel = <<>>
  /\ sends = <<>> /\ answer = <<>> /\ reaped = 0

(***************************************************************************)
(* The captures.                                                           *)
(***************************************************************************)
Open ==
  /\ pc = "open" /\ Goto("capture")
  /\ UNCHANGED <<failure, files, timeVars, packetVars, flowVars, loopVars, sendVars>>

OpenFails == pc = "open" /\ Fail

\* Mutated form: one capture too many.
OneMoreCapture ==
  /\ pc = "capture"
  /\ files' = files - 1
  /\ Goto(IF files = 0 THEN "cleanup" ELSE "open")
  /\ UNCHANGED <<failure, timeVars, packetVars, flowVars, loopVars, sendVars>>

EndOfCapture ==
  /\ pc = "capture"
  /\ files' = files - 1
  /\ Goto(IF files = 1 THEN "cleanup" ELSE "open")
  /\ UNCHANGED <<failure, timeVars, packetVars, flowVars, loopVars, sendVars>>

ScanDue(t) == t - scanTick >= ScanInterval

\* Mutated form: the packet keeps its own time.
PacketKeepsItsTime(k, t, d) ==
  /\ pc = "capture" /\ processed < MaxPackets
  /\ tick' = Larger(tick, t)
  /\ packet' = [key |-> k, time |-> t, data |-> d]
  /\ processed' = processed + 1
  /\ counted' = FALSE
  /\ goScan' = ScanDue(tick')
  /\ scanTick' = IF goScan' THEN tick' ELSE scanTick
  /\ Goto("consume")
  /\ UNCHANGED <<failure, files, lost, flowVars, scanned, cleaned, sendVars>>

\* A packet of this meter.  Its time is never before the one of a packet
\* that came earlier, whatever the capture says.
Packet(k, t, d) ==
  /\ pc = "capture" /\ processed < MaxPackets
  /\ tick' = Larger(tick, t)
  /\ packet' = [key |-> k, time |-> tick', data |-> d]
  /\ processed' = processed + 1
  /\ counted' = FALSE
  /\ goScan' = ScanDue(tick')
  /\ scanTick' = IF goScan' THEN tick' ELSE scanTick
  /\ Goto("consume")
  /\ UNCHANGED <<failure, files, lost, flowVars, scanned, cleaned, sendVars>>

\* Only the time of a packet, which belongs to another meter.
Ticker(t) ==
  /\ pc = "capture" /\ t > tick
  /\ tick' = t
  /\ goScan' = ScanDue(t)
  /\ scanTick' = IF goScan' THEN t ELSE scanTick
  /\ Goto("scan")
  /\ UNCHANGED <<failure, files, packetVars, flowVars, scanned, cleaned, sendVars>>

(***************************************************************************)
(* consume(): the packet goes to its flow.                                 *)
(***************************************************************************)
Counted == counted' = TRUE /\ UNCHANGED <<packet, processed>>

Create ==
  /\ pc = "consume" /\ Miss
  /\ cache' = Append(cache, NewFlow)
  /\ Counted /\ UNCHANGED lost
  /\ Goto("consumed")
  /\ UNCHANGED <<failure, files, timeVars, channel, loopVars, sendVars>>

\* The C structure of a flow cannot be allocated: OSError, and a warning.
CreateFails ==
  /\ pc = "consume" /\ Miss
  /\ lost' = lost + 1 /\ Counted
  /\ Goto("consumed")
  /\ UNCHANGED <<failure, files, timeVars, flowVars, loopVars, sendVars>>

\* The packet does not fit: its flow expires.
Cut(i) ==
  /\ pc = "consume" /\ HasFlow(i) /\ IsCut(cache[i])
  /\ cache' = MovedToEnd(i, cache[i])
  /\ Reap("replace")
  /\ UNCHANGED <<failure, files, timeVars, packetVars, channel, loopVars, sendVars>>

\* Mutated form: the packet that cut the flow is dropped with it.
ReplaceDropsThePacket ==
  /\ pc = "replace"
  /\ channel' = Append(channel, Last(cache))
  /\ cache' = Front(cache)
  /\ Counted /\ UNCHANGED lost
  /\ Goto("consumed")
  /\ UNCHANGED <<failure, files, timeVars, loopVars, sendVars>>

\* ... it leaves, and the packet starts another one.
Replace ==
  /\ pc = "replace"
  /\ channel' = Append(channel, Last(cache))
  /\ cache' = Append(Front(cache), NewFlow)
  /\ Counted /\ UNCHANGED lost
  /\ Goto("consumed")
  /\ UNCHANGED <<failure, files, timeVars, loopVars, sendVars>>

ReplaceFails ==
  /\ pc = "replace"
  /\ channel' = Append(channel, Last(cache))
  /\ cache' = Front(cache)
  /\ lost' = lost + 1 /\ Counted
  /\ Goto("consumed")
  /\ UNCHANGED <<failure, files, timeVars, loopVars, sendVars>>

\* on_update() counts the packets with data, whatever the interval.
PacketsWithData(f) == f.data + packet.data

\* The counters of the C structure, which sync() copies, and the plugin's.
Updated(f) == [f EXCEPT !.last = packet.time, !.packets = @ + 1, !.data = PacketsWithData(f)]

\* on_update() only reaps before the end of the interval.
OnUpdate(f) == IF packet.time <= f.end THEN Reap("consumed") ELSE Goto("snapshot")

\* The packet fits.
Update(i) ==
  /\ pc = "consume" /\ HasFlow(i) /\ ~IsCut(cache[i])
  /\ cache' = MovedToEnd(i, Updated(cache[i]))
  /\ Counted /\ UNCHANGED lost
  /\ OnUpdate(cache[i])
  /\ UNCHANGED <<failure, files, timeVars, channel, loopVars, sendVars>>

Consumed ==
  /\ pc = "consumed"
  /\ packet' = NoPacket
  /\ IF processed % FlushRate = 0 THEN Flush("scan") ELSE Goto("scan")
  /\ UNCHANGED <<failure, files, timeVars, processed, counted, lost, flowVars, loopVars,
                 sendVars>>

(***************************************************************************)
(* on_update() after the end of the interval.                              *)
(***************************************************************************)
Snapshot(f) == [key |-> f.key, first |-> f.first, data |-> f.data,
                start |-> f.start, end |-> f.end]

\* The queue is also reaped right after the send.
SendSnapshot ==
  /\ pc = "snapshot"
  /\ sends' = Append(sends, Snapshot(Last(cache)))
  /\ answer' = Append(answer, "none")
  /\ Reap("interval")
  /\ UNCHANGED <<failure, files, timeVars, packetVars, flowVars, loopVars, reaped>>

\* The sample is not taken.
SkipSnapshot ==
  /\ pc = "snapshot" /\ Goto("interval")
  /\ UNCHANGED <<failure, files, timeVars, packetVars, flowVars, loopVars, sendVars>>

SendFails == pc = "snapshot" /\ Fail

\* Mutated form: the interval keeps its start.
EndOnly ==
  /\ pc = "interval"
  /\ cache' = Append(Front(cache), [Last(cache) EXCEPT !.end = packet.time + Interval])
  /\ Reap("consumed")
  /\ UNCHANGED <<failure, files, timeVars, packetVars, channel, loopVars, sendVars>>

NextInterval ==
  /\ pc = "interval"
  /\ cache' = Append(Front(cache), [Last(cache) EXCEPT !.start = packet.time,
                                                       !.end = packet.time + Interval])
  /\ Reap("consumed")
  /\ UNCHANGED <<failure, files, timeVars, packetVars, channel, loopVars, sendVars>>

(***************************************************************************)
(* _reap_pending_sends() and flush_meter_producer().  Answers of the       *)
(* broker arrive at any time.                                              *)
(***************************************************************************)
ReapNext ==
  /\ pc = "reap" /\ Pending > 0 /\ Oldest = "stored"
  /\ reaped' = reaped + 1
  /\ UNCHANGED <<controlVars, timeVars, packetVars, flowVars, loopVars, sends, answer>>

\* Mutated form: a refused send is only remembered, and the meter goes on.
RemembersTheRefusal ==
  /\ pc = "reap" /\ Pending > 0 /\ Oldest = "refused"
  /\ failure' = TRUE /\ reaped' = reaped + 1
  /\ UNCHANGED <<pc, then, drain, files, timeVars, packetVars, flowVars, loopVars, sends, answer>>

ReapRaises == pc = "reap" /\ Pending > 0 /\ Oldest = "refused" /\ Fail

\* Mutated form: only a draining call has a timeout.
OnlyDrainTimesOut == pc = "reap" /\ Pending > 0 /\ Oldest = "none" /\ drain /\ Fail

ReapTimesOut == pc = "reap" /\ Pending > 0 /\ Oldest = "none" /\ MustWait /\ Fail

ReapEnds ==
  /\ pc = "reap"
  /\ Pending > 0 => Oldest = "none" /\ ~MustWait
  /\ Goto(then)
  /\ UNCHANGED <<failure, files, timeVars, packetVars, flowVars, loopVars, sendVars>>

\* producer.flush() returns when nothing is in flight; on_meter_flush()
\* then drains the queue.
FlushReturns ==
  /\ pc = "flush" /\ \A i \in DOMAIN answer : answer[i] # "none"
  /\ pc' = "reap" /\ drain' = TRUE /\ UNCHANGED then
  /\ UNCHANGED <<failure, files, timeVars, packetVars, flowVars, loopVars, sendVars>>

FlushTimesOut == pc = "flush" /\ (\E i \in DOMAIN answer : answer[i] = "none") /\ Fail

Answer(i, a) ==
  /\ pc # "ended" /\ answer[i] = "none"
  /\ answer' = [answer EXCEPT ![i] = a]
  /\ UNCHANGED <<controlVars, timeVars, packetVars, flowVars, loopVars, sends, reaped>>

(***************************************************************************)
(* meter_scan(): idle flows leave, from the least recently used one on.    *)
(***************************************************************************)
HeadIsIdle == cache # <<>> /\ IsIdle(Head(cache))

ScanIdle ==
  /\ pc = "scan" /\ goScan /\ scanned < ScanBudget /\ HeadIsIdle
  /\ Reap("scanPut")
  /\ UNCHANGED <<failure, files, timeVars, packetVars, flowVars, loopVars, sendVars>>

ScanPut ==
  /\ pc = "scanPut"
  /\ channel' = Append(channel, Head(cache))
  /\ cache' = Tail(cache)
  /\ scanned' = scanned + 1
  /\ Goto("scan")
  /\ UNCHANGED <<failure, files, timeVars, packetVars, goScan, cleaned, sendVars>>

ScanEnds ==
  /\ pc = "scan" /\ ~(goScan /\ scanned < ScanBudget /\ HeadIsIdle)
  /\ goScan' = FALSE /\ scanned' = 0
  /\ Goto("capture")
  /\ UNCHANGED <<failure, files, timeVars, packetVars, flowVars, cleaned, sendVars>>

(***************************************************************************)
(* meter_cleanup() at the end of the last capture, and the end.            *)
(***************************************************************************)
CleanupNext ==
  /\ pc = "cleanup" /\ cache # <<>>
  /\ cache' = Append(Tail(cache), Head(cache))
  /\ cleaned' = cleaned + 1
  /\ Reap("cleanPut")
  /\ UNCHANGED <<failure, files, timeVars, packetVars, channel, goScan, scanned, sendVars>>

CleanPut ==
  /\ pc = "cleanPut"
  /\ channel' = Append(channel, Last(cache))
  /\ IF cleaned % CleanupFlush = 0 \/ Len(cache) = 1 THEN Flush("delete") ELSE Goto("delete")
  /\ UNCHANGED <<failure, files, timeVars, packetVars, cache, loopVars, sendVars>>

Delete ==
  /\ pc = "delete"
  /\ cache' = Front(cache)
  /\ Goto("cleanup")
  /\ UNCHANGED <<failure, files, timeVars, packetVars, channel, loopVars, sendVars>>

\* Mutated form: the meter ends without close_meter_producer().
EndsWithoutClose ==
  /\ pc = "cleanup" /\ cache = <<>>
  /\ Goto("closed")
  /\ UNCHANGED <<failure, files, timeVars, packetVars, flowVars, loopVars, sendVars>>

CleanupEnds ==
  /\ pc = "cleanup" /\ cache = <<>>
  /\ Flush("closed")
  /\ UNCHANGED <<failure, files, timeVars, packetVars, flowVars, loopVars, sendVars>>

\* The producer is closed; the error, if any, and None go to the channel.
End ==
  /\ pc = "closed" /\ Goto("ended")
  /\ UNCHANGED <<failure, files, timeVars, packetVars, flowVars, loopVars, sendVars>>

Consume ==
  \/ Create \/ CreateFails \/ Replace \/ ReplaceFails \/ Consumed
  \/ \E i \in DOMAIN cache : Cut(i) \/ Update(i)

Publish == SendSnapshot \/ SkipSnapshot \/ SendFails \/ NextInterval

Check == \/ ReapNext \/ ReapRaises \/ ReapTimesOut \/ ReapEnds
         \/ FlushReturns \/ FlushTimesOut

Expire == \/ ScanIdle \/ ScanPut \/ ScanEnds
          \/ CleanupNext \/ CleanPut \/ Delete \/ CleanupEnds

Step == Open \/ OpenFails \/ EndOfCapture \/ Consume \/ Publish \/ Check \/ Expire \/ End

Next ==
  \/ Step
  \/ \E k \in Keys, t \in Times, d \in {0, 1} : Packet(k, t, d)
  \/ \E t \in Times : Ticker(t)
  \/ \E i \in DOMAIN answer, a \in {"stored", "refused"} : Answer(i, a)

Spec == Init /\ [][Next]_vars

\* The process runs, every wait has a timeout, and a capture ends.
LiveSpec == Spec /\ WF_vars(Step)

-----------------------------------------------------------------------------
Places == {"open", "capture", "consume", "replace", "consumed", "snapshot", "interval",
           "reap", "flush", "scan", "scanPut", "cleanup", "cleanPut", "delete", "closed",
           "ended"}

FlowType == [key: Keys, first: Nat, last: Nat, packets: Nat, data: Nat, start: Nat, end: Nat]

\* Every variable has its type.
TypeOK ==
  /\ pc \in Places /\ then \in Places
  /\ {drain, failure, goScan, counted} \subseteq BOOLEAN
  /\ files \in 0 .. Sources
  /\ {tick, scanTick, processed, lost, scanned, cleaned, reaped} \subseteq Nat
  /\ packet \in [key: Keys \union {NoPacket.key}, time: Nat, data: {0, 1}]
  /\ cache \in Seq(FlowType) /\ channel \in Seq(FlowType)
  /\ sends \in Seq([key: Keys, first: Nat, data: Nat, start: Nat, end: Nat])
  /\ answer \in Seq({"none", "stored", "refused"})
  /\ Len(answer) = Len(sends) /\ reaped <= Len(sends)

AllFlows == ToSet(cache) \union ToSet(channel)

PacketsIn(flows) == MapThenSumSet(LAMBDA f : f.packets, flows)

\* Every packet that was processed is in exactly one flow, in the cache or in
\* the channel, unless there was no memory for it: cutting, expiring and
\* cleaning up neither drop a packet nor count it twice.  Flows are told
\* apart by their key and the time of their first packet, which is how the
\* consumers of the snapshots identify a connection.  No flow is put into the
\* channel twice, and a meter that ends without an error has put all there.
EveryPacketInOneFlow ==
  /\ processed = PacketsIn(AllFlows) + lost + (IF counted THEN 0 ELSE 1)
  /\ \A f, g \in AllFlows : f.key = g.key /\ f.first = g.first => f = g
  /\ IsInjective(channel)
  /\ pc = "ended" /\ ~failure => cache = <<>>

\* The scan stops at the first flow that is not idle and misses none
\* behind it.
ScanMissesNothing ==
  pc = "scan" /\ ~HeadIsIdle => \A i \in DOMAIN cache : ~IsIdle(cache[i])

\* No send escapes the reaps: at most max_pending_sends of them are unchecked
\* at a time, fewer whenever the meter is back at the capture, and a meter that
\* ends without an error has had all its snapshots stored.
SendsAreChecked ==
  /\ Pending <= MaxPending
  /\ pc = "capture" => Pending < MaxPending
  /\ pc = "ended" /\ ~failure => \A i \in DOMAIN answer : answer[i] = "stored"

\* Snapshots of a flow are sent in order: the packets with data that they
\* count do not become fewer, and their intervals do not overlap.  Flows are
\* told apart by key and first time, so two flows must not pass for one.
SnapshotsAdvance ==
  \A i, j \in DOMAIN sends :
     i < j /\ sends[i].key = sends[j].key /\ sends[i].first = sends[j].first =>
        /\ sends[i].data <= sends[j].data
        /\ sends[i].end < sends[j].start

\* The meter is at p, or returns there from a reap or a flush.
Headed(p) == pc = p \/ (pc \in {"reap", "flush"} /\ then = p)

\* The flows that are not in the channel: a flow that is being deleted is.
Held == IF Headed("delete") THEN Front(cache) ELSE cache

\* The meter is what the streamer takes it for.  A flow is named by its key
\* and the time of its first packet.
NameOf(f) == <<f.key, f.first>>
HeldNames == {NameOf(f) : f \in ToSet(Held)}
PutNames == [n \in DOMAIN channel |-> NameOf(channel[n])]
Outcome == IF failure THEN "failed" ELSE IF pc = "ended" THEN "done" ELSE "runs"
Source == INSTANCE FlowSource WITH
  Names <- Keys \X Nat,
  state <- Outcome,
  held  <- IF failure THEN {} ELSE HeldNames,
  put   <- PutNames
ImplementsFlowSource == Source!Spec

\* A meter whose capture ends comes to its end, whatever the broker does.
EventuallyEnds == <>(pc = "ended")

-----------------------------------------------------------------------------
(***************************************************************************)
(* The inductive invariant behind the theorems of MeterProofs.             *)
(***************************************************************************)

Returns == {"replace", "consumed", "interval", "scan", "scanPut", "cleanPut", "delete", "closed"}

\* Reaps and flushes return to their callers; after an exception there is
\* only the close; the cleanup comes after the last capture, and the error
\* path apart, the close after the cleanup.
ControlInv ==
  /\ pc \in {"reap", "flush"} => then \in Returns
  /\ failure => Headed("closed") \/ pc = "ended"
  /\ Headed("cleanup") \/ Headed("cleanPut") \/ Headed("delete") => files = 0
  /\ files = 0 => \/ pc = "ended"
                  \/ \E p \in {"cleanup", "cleanPut", "delete", "closed"} : Headed(p)
  /\ Headed("closed") \/ pc = "ended" => failure \/ files = 0
  /\ pc = "reap" /\ then \in {"closed", "delete"} => drain

\* The queue is full only while it is being reaped; what has left it was
\* stored; it is empty at the end unless there was an error.
SendsInv ==
  /\ Pending <= MaxPending
  /\ Pending = MaxPending => pc = "reap" \/ failure
  /\ \A i \in 1 .. reaped : answer[i] = "stored"
  /\ pc \in {"closed", "ended"} => failure \/ Pending = 0

\* The places that work on a flow have one, and the packet in work has the
\* meter's time.
FlowInv ==
  /\ \A p \in {"replace", "snapshot", "interval", "scanPut", "cleanPut", "delete"} :
        Headed(p) => cache # <<>>
  /\ \A p \in {"consume", "replace"} :
        Headed(p) => packet.time = tick /\ packet.key \in Keys

InOrder(s) == \A i, j \in DOMAIN s : i < j => s[i].last <= s[j].last

\* Until the cleanup, the cache is in the order of the last packets; a flow
\* that is being replaced is the exception, at its end.
CacheInOrder ==
  /\ \A i \in DOMAIN cache : cache[i].last <= tick
  /\ files > 0 /\ ~failure => InOrder(IF Headed("replace") THEN Front(cache) ELSE cache)

MInv == TypeOK /\ ControlInv /\ SendsInv /\ FlowInv /\ CacheInOrder

-----------------------------------------------------------------------------
(***************************************************************************)
(* The same for SnapshotsAdvance.                                          *)
(***************************************************************************)
DistinctKeys(s) == \A i, j \in DOMAIN s : s[i].key = s[j].key => i = j

FlowsGrow == \A f \in ToSet(cache) : f.first <= f.last /\ f.start <= f.end

\* A snapshot was sent of an earlier flow, or before the interval of this one.
Behind(s, f) == s.key = f.key => /\ s.first <= f.first
                                 /\ s.first = f.first => s.data <= f.data /\ s.end < f.start

\* The flow that gets its next interval is at the end of the cache.
Renewed == [Last(cache) EXCEPT !.start = packet.time]

SentIsBehind ==
  \A s \in ToSet(sends) :
     \A f \in ToSet(IF Headed("interval") THEN Append(Front(cache), Renewed) ELSE cache) :
        Behind(s, f)

\* A key without a flow may only get one that is newer.
GoneIsPast ==
  files > 0 => \A s \in ToSet(sends) : s.first < tick \/ \E f \in ToSet(cache) : f.key = s.key

\* The flow in work: its interval is over when it is sent, the packet that
\* cuts it is newer than its first, and the scan takes an idle one.
FlowInWork ==
  /\ pc = "snapshot" => Last(cache).end < packet.time
  /\ Headed("replace") => Last(cache).key = packet.key /\ Last(cache).first < packet.time
  /\ Headed("scanPut") => IsIdle(Head(cache))

History == DistinctKeys(cache) /\ FlowsGrow /\ SentIsBehind /\ GoneIsPast /\ FlowInWork

HInv == MInv /\ SnapshotsAdvance /\ (failure \/ History)
-----------------------------------------------------------------------------
(***************************************************************************)
(* The same for EveryPacketInOneFlow.                                      *)
(***************************************************************************)

\* The packet in work is counted once it has a flow.
CountedInFlow == counted <=> ~(Headed("consume") \/ Headed("replace"))

HeldOrPut ==
  /\ \A f \in ToSet(Held), g \in ToSet(channel) : f.key = g.key => f.first # g.first
  /\ Headed("delete") => Last(cache) \in ToSet(channel)
  /\ Headed("closed") \/ pc = "ended" => cache = <<>>

\* A flow that was put into the channel began before the packets to come.
PutIsPast == files > 0 => \A g \in ToSet(channel) : g.first < tick

Delivery == CountedInFlow /\ HeldOrPut /\ PutIsPast

DInv == HInv /\ EveryPacketInOneFlow /\ (failure \/ Delivery)
=============================================================================
