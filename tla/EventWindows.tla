---------------------------- MODULE EventWindows ----------------------------
(***************************************************************************)
(* EventWindowAggregator of intelligent-telemetry: counts the snapshots of *)
(* predicted_labels in consecutive windows of event time.  A snapshot that *)
(* is ahead of the current window waits in _future_events; the current     *)
(* window is closed by the watermark, by the idle heartbeat or by the      *)
(* final flush, and then takes what was waiting for the next one.          *)
(*                                                                         *)
(* Times are integers (the code uses floats), and of the cumulative        *)
(* counters of a flow only the packets are kept: the bytes follow them.    *)
(***************************************************************************)
EXTENDS Integers, Sequences

CONSTANTS Events,         \* the snapshots that may arrive
          At,             \* event_at of each
          Flow, Packets,  \* its flow, and the packets the flow has seen by then
          Width,          \* MONITORING_WINDOW_SECONDS
          Lateness,       \* ALLOWED_LATENESS_SECONDS
          IdleFlush,      \* IDLE_FLUSH_SECONDS
          MaxCopies,      \* bound on the times one snapshot arrives
          LastArrival,    \* bound on the clock while snapshots arrive
          MaxClock        \* bound on the clock

Flows == {Flow[e] : e \in Events}

ASSUME EventWindowsAssumption ==
  /\ At \in [Events -> Nat]
  /\ Packets \in [Events -> Nat]
  /\ DOMAIN Flow = Events
  /\ Width \in Nat \ {0}
  /\ Lateness \in Nat
  /\ IdleFlush \in Nat
  /\ MaxCopies \in Nat
  /\ LastArrival \in Nat
  /\ MaxClock \in Nat

VARIABLES
  clock,       \* time.time()
  rebase,      \* rebase_event_time, fixed when the aggregator is made
  anchor,      \* _event_anchor, and the start of the first window
  plotAnchor,  \* _plot_anchor
  start,       \* _window.start
  newest,      \* _max_event_at
  lastSeen,    \* _last_observed_at
  dirty,       \* _dirty
  counted,     \* how often the current window counted each snapshot
  rejected,    \* how often it rejected each snapshot
  packets,     \* the packets it counted for each flow
  future,      \* _future_events, as a bag
  counter,     \* _counters of the FlowDeltaTracker; 0 when there is none
  call,        \* the method that is running, and where in its loop it is
  output,      \* the windows reported so far
  added,       \* how often each snapshot was passed to add_event()
  idled        \* a heartbeat has closed a window

timeVars   == <<clock, rebase>>
anchorVars == <<anchor, plotAnchor>>
windowVars == <<start, dirty, counted, rejected, packets>>
seenVars   == <<newest, lastSeen>>
vars == <<timeVars, anchorVars, windowVars, seenVars, future, counter, call, output, added, idled>>

-----------------------------------------------------------------------------
NoTime == -1
NoEvents == [e \in Events |-> 0]
NoPackets == [f \in Flows |-> 0]
Larger(a, b) == IF a < b THEN b ELSE a

End == start + Width
PlotTime(t) == IF rebase THEN plotAnchor + (t - anchor) ELSE t

\* _target_window(): the aligned window of e, never before the first one.
Target(e) == anchor + Larger(0, (At[e] - anchor) \div Width) * Width

\* Mutated form: a snapshot at the end of the window is in it.
DrainableToTheEnd == {e \in Events : future[e] > 0 /\ At[e] <= End}

\* The waiting snapshots that belong to the current window.
Drainable == {e \in Events : future[e] > 0 /\ At[e] < End}

TooLate(e, s) == At[e] < s - Lateness

\* Mutated form: a counter that falls is taken over.
LatestCounter(e) == Packets[e]

\* FlowDeltaTracker.observe() keeps the largest counter of a flow.
NextCounter(e) == Larger(counter[Flow[e]], Packets[e])

Delta(e) == Larger(0, Packets[e] - counter[Flow[e]])

\* _apply_to_current() on a window that starts at s.
Apply(e, s) ==
  /\ dirty' = TRUE
  /\ IF TooLate(e, s)
     THEN /\ rejected' = [rejected EXCEPT ![e] = @ + 1]
          /\ UNCHANGED <<counted, counter, packets>>
     ELSE /\ counted' = [counted EXCEPT ![e] = @ + 1]
          /\ counter' = [counter EXCEPT ![Flow[e]] = NextCounter(e)]
          /\ packets' = [packets EXCEPT ![Flow[e]] = @ + Delta(e)]
          /\ UNCHANGED rejected

Init ==
  /\ clock = 0
  /\ rebase \in BOOLEAN
  /\ anchor = NoTime /\ plotAnchor = NoTime
  /\ start = NoTime
  /\ newest = NoTime /\ lastSeen = NoTime
  /\ dirty = FALSE
  /\ counted = NoEvents /\ rejected = NoEvents /\ packets = NoPackets
  /\ future = NoEvents
  /\ counter = NoPackets
  /\ call = "none"
  /\ output = <<>>
  /\ added = NoEvents
  /\ idled = FALSE

Tick ==
  /\ call = "none" /\ clock < MaxClock
  /\ clock' = clock + 1
  /\ UNCHANGED <<rebase, anchorVars, windowVars, seenVars, future, counter, call, output,
                 added, idled>>

(***************************************************************************)
(* add_event().                                                            *)
(***************************************************************************)
Arrives(e) ==
  /\ call = "none" /\ clock <= LastArrival /\ added[e] < MaxCopies
  /\ added' = [added EXCEPT ![e] = @ + 1]
  /\ newest' = Larger(newest, At[e])
  /\ lastSeen' = clock
  /\ call' = "watermark"
  /\ UNCHANGED <<timeVars, output, idled>>

\* The first snapshot opens the first window and anchors both time axes.
AddFirst(e) ==
  /\ Arrives(e) /\ start = NoTime
  /\ anchor' = At[e] /\ plotAnchor' = clock /\ start' = At[e]
  /\ Apply(e, At[e])
  /\ UNCHANGED future

\* Mutated form: a redelivered copy replaces the one that waits.
WaitOnce(e) == future' = [future EXCEPT ![e] = 1]

Wait(e) == future' = [future EXCEPT ![e] = @ + 1]

AddAhead(e) ==
  /\ Arrives(e) /\ start # NoTime /\ At[e] >= End
  /\ Wait(e)
  /\ UNCHANGED <<anchorVars, windowVars, counter>>

AddNow(e) ==
  /\ Arrives(e) /\ start # NoTime /\ At[e] < End
  /\ Apply(e, start)
  /\ UNCHANGED <<anchorVars, start, future>>

(***************************************************************************)
(* Closing windows.                                                        *)
(***************************************************************************)

\* _drain_future_into_current() takes the waiting snapshots in event order.
Drain(e) ==
  /\ call # "none" /\ e \in Drainable
  /\ \A d \in Drainable : At[e] <= At[d]
  /\ future' = [future EXCEPT ![e] = @ - 1]
  /\ Apply(e, start)
  /\ UNCHANGED <<timeVars, anchorVars, start, seenVars, call, output, added, idled>>

Report == output' = Append(output, [start |-> start, counted |-> counted,
                                    rejected |-> rejected, packets |-> packets])

\* _finish_window(): the window is reported and the next one starts empty.
FinishWindow ==
  /\ Drainable = {}
  /\ Report
  /\ start' = End /\ dirty' = FALSE
  /\ counted' = NoEvents /\ rejected' = NoEvents /\ packets' = NoPackets
  /\ UNCHANGED <<timeVars, anchorVars, seenVars, future, counter, added>>

Return ==
  /\ Drainable = {}
  /\ call' = "none"
  /\ UNCHANGED <<timeVars, anchorVars, windowVars, seenVars, future, counter, output, added, idled>>

\* _drain_watermark(): every window that ended Lateness before the newest snapshot.
Watermark == newest - Lateness

CloseByWatermark ==
  /\ call = "watermark" /\ Watermark >= End
  /\ FinishWindow
  /\ UNCHANGED <<call, idled>>

WatermarkDone == call = "watermark" /\ Watermark < End /\ Return

\* flush_idle(): nothing arrived for a while, so windows close as they end on
\* the plotted time axis; without rebasing a window without snapshots ends it.
FlushIdle ==
  /\ call = "none" /\ start # NoTime /\ clock - lastSeen >= IdleFlush
  /\ clock >= PlotTime(End)
  /\ call' = "heartbeat"
  /\ UNCHANGED <<timeVars, anchorVars, windowVars, seenVars, future, counter, output, added, idled>>

\* Mutated form: the idle gap is counted from the start of the window.
ClosesAtTheStart ==
  /\ call = "heartbeat" /\ clock >= PlotTime(start)
  /\ FinishWindow
  /\ idled' = TRUE
  /\ call' = "beat"

CloseByHeartbeat ==
  /\ call = "heartbeat" /\ clock >= PlotTime(End)
  /\ FinishWindow
  /\ idled' = TRUE
  /\ call' = "beat"

NextBeat ==
  /\ call = "beat" /\ Drainable = {} /\ (rebase \/ dirty)
  /\ call' = "heartbeat"
  /\ UNCHANGED <<timeVars, anchorVars, windowVars, seenVars, future, counter, output, added, idled>>

HeartbeatDone ==
  /\ \/ call = "heartbeat" /\ clock < PlotTime(End)
     \/ call = "beat" /\ ~rebase /\ ~dirty
  /\ Return

\* flush(), when the service stops: windows up to the last waiting snapshot,
\* and the current one if there is something in it.
Flush ==
  /\ call = "none" /\ start # NoTime
  /\ call' = "flush"
  /\ UNCHANGED <<timeVars, anchorVars, windowVars, seenVars, future, counter, output, added, idled>>

CloseByFlush ==
  /\ call = "flush" /\ (future # NoEvents \/ dirty)
  /\ FinishWindow
  /\ UNCHANGED <<call, idled>>

FlushDone ==
  /\ call = "flush" /\ future = NoEvents /\ ~dirty
  /\ call' = "flushed"
  /\ UNCHANGED <<timeVars, anchorVars, windowVars, seenVars, future, counter, output, added, idled>>

-----------------------------------------------------------------------------
\* The rest of a method that was called.
Inside == \/ \E e \in Events : Drain(e)
          \/ CloseByWatermark \/ WatermarkDone
          \/ CloseByHeartbeat \/ NextBeat \/ HeartbeatDone
          \/ CloseByFlush \/ FlushDone

AddEvent(e) == AddFirst(e) \/ AddAhead(e) \/ AddNow(e)

Next == \/ \E e \in Events : AddEvent(e)
        \/ FlushIdle \/ Flush \/ Inside \/ Tick

Spec == Init /\ [][Next]_vars
-----------------------------------------------------------------------------
Windows == [start : Nat, counted : [Events -> 0 .. MaxCopies], rejected : [Events -> 0 .. MaxCopies],
            packets : [Flows -> Nat]]

TypeOK ==
  /\ clock \in 0 .. MaxClock
  /\ rebase \in BOOLEAN
  /\ {anchor, plotAnchor, start, newest, lastSeen} \subseteq Nat \union {NoTime}
  /\ dirty \in BOOLEAN
  /\ {counted, rejected, future, added} \subseteq [Events -> 0 .. MaxCopies]
  /\ {counter, packets} \subseteq [Flows -> Nat]
  /\ call \in {"none", "watermark", "heartbeat", "beat", "flush", "flushed"}
  /\ output \in Seq(Windows)
  /\ idled \in BOOLEAN

\* The sum of the numbers in a sequence.
Total(numbers) ==
  LET sum[n \in 0 .. Len(numbers)] == IF n = 0 THEN 0 ELSE sum[n - 1] + numbers[n]
  IN  sum[Len(numbers)]

\* What the reported windows say of a snapshot and of a flow.
ReportedEvents(e) == Total([n \in 1 .. Len(output) |-> output[n].counted[e] + output[n].rejected[e]])
ReportedPackets(f) == Total([n \in 1 .. Len(output) |-> output[n].packets[f]])

\* The snapshots of a flow that a window has counted.
Accepted(f) ==
  {e \in Events :
     /\ Flow[e] = f
     /\ counted[e] > 0 \/ \E n \in 1 .. Len(output) : output[n].counted[e] > 0}

\* No snapshot is lost or counted twice between add_event(), the waiting list,
\* the current window and the reports, whatever order the watermark, the
\* heartbeat and the flush close windows in.
InMemory(e) == future[e] + counted[e] + rejected[e] + ReportedEvents(e)
EverySnapshotOnce == \A e \in Events : added[e] = InMemory(e)

\* "Duplicated or out-of-order cumulative snapshots must not double count":
\* the windows together report as many packets for a flow as its largest
\* counted snapshot says.
WindowsAddUp ==
  \A f \in Flows :
     LET total == packets[f] + ReportedPackets(f)
     IN  IF Accepted(f) = {} THEN total = 0
         ELSE /\ \A e \in Accepted(f) : Packets[e] <= total
              /\ \E e \in Accepted(f) : Packets[e] = total

\* A snapshot that waits is counted in the window that its disposition named
\* when it arrived: no close skips over it.
DrainedIntoItsTarget ==
  [][\A e \in Events : future'[e] < future[e] => start = Target(e)]_vars

\* A snapshot at most Lateness behind the newest one is not late, also after
\* a pause: the heartbeat closes a window only once the clock has passed the
\* end of it, so whoever arrives before that, or before any heartbeat, is
\* counted in a window that covers it, or in the first one.
OnTimeIsNotLate ==
  [][\A e \in Events :
        counted'[e] + rejected'[e] > counted[e] + rejected[e]
          /\ (idled => clock < PlotTime(Target(e) + Width)) /\ newest' - At[e] <= Lateness
        => start' <= At[e] \/ (start' = anchor' /\ rejected' = rejected)]_vars

-----------------------------------------------------------------------------
(***************************************************************************)
(* The inductive invariant behind the theorems of EventWindowsProofs.      *)
(***************************************************************************)

\* What waits or is in the current window has arrived.
CopiesAddUp == \A e \in Events : future[e] + counted[e] + rejected[e] <= added[e]

\* Windows start a multiple of their width after the first snapshot.
WindowsAreAligned ==
  start # NoTime => /\ anchor # NoTime /\ anchor <= newest
                    /\ \E k \in 0 .. start : start = anchor + k * Width

\* Nothing is in progress before there is a window.
StartsWithAWindow == call # "none" => start # NoTime

\* A waiting snapshot is not behind the current window.
WaitingIsAhead == \A e \in Events : future[e] > 0 => start # NoTime /\ start <= At[e]

\* The current window is the first one, or there was a reason to close the
\* one before it: the watermark, the clock, or the end of the service.
ClosedForAReason ==
  start # NoTime => \/ start = anchor
                    \/ start <= Watermark
                    \/ idled /\ PlotTime(start) <= clock
                    \/ call \in {"flush", "flushed"}

EInv ==
  /\ TypeOK
  /\ CopiesAddUp
  /\ WindowsAreAligned
  /\ StartsWithAWindow
  /\ WaitingIsAhead
  /\ ClosedForAReason

\* The counter of a flow is what the windows report for it, and the largest
\* counter among the snapshots that were counted.
CountersAddUp == \A f \in Flows : packets[f] + ReportedPackets(f) = counter[f]
CounterIsLargest ==
  \A f \in Flows :
     /\ \A e \in Accepted(f) : Packets[e] <= counter[f]
     /\ counter[f] = 0 \/ \E e \in Accepted(f) : Packets[e] = counter[f]
=============================================================================
