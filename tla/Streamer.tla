------------------------------ MODULE Streamer ------------------------------
(***************************************************************************)
(* NFStreamer.__iter__(): starts the meter processes, holds them at a      *)
(* barrier until the last one is ready, and yields the flows they put into *)
(* a shared queue until each has put its end marker, one reports an error, *)
(* one is found dead, the limit is reached or the user interrupts.         *)
(*                                                                         *)
(* A meter is what module Meter shows of it: it puts its flows, then an    *)
(* error if it failed, then None.  The queue is multiprocessing.Queue: a   *)
(* bounded semaphore counts the items, every process has a buffer of its   *)
(* own, and a feeder thread writes it to the common pipe under a lock.  A  *)
(* process that is killed loses its buffer, the slots of what was in it,   *)
(* and leaves every lock it holds locked.                                  *)
(***************************************************************************)
EXTENDS Integers, FiniteSets, SequencesExt

CONSTANTS Meters,      \* n_meters
          Flows,       \* how many flows each meter has
          Capacity,    \* maxsize of the queue
          Limits,      \* the values of the argument max_nflows; 0 is none
          MaxKills,    \* bound on the meters that die
          MaxFailures  \* bound on the meters that fail

Procs == 0 .. Meters - 1
LastMeter == Meters - 1

ASSUME StreamerAssumption ==
  /\ Meters \in Nat \ {0}
  /\ Flows \in [Procs -> Nat]
  /\ Capacity \in Nat \ {0}
  /\ Limits \subseteq Nat
  /\ MaxKills \in Nat
  /\ MaxFailures \in Nat

VARIABLES
  pc,          \* the place of each meter in meter_workflow()
  failed,      \* the meters with failure is not None
  put,         \* how many flows each has put
  barrier,     \* the meter that holds the barrier lock, Main or Nobody
  buffer,      \* the items of each process that wait for its feeder thread
  writer,      \* the meter whose feeder holds the write lock, or Nobody
  pipe,        \* the items in the pipe
  slots,       \* value of the semaphore of the queue
  main,        \* the place in __iter__()
  limit,       \* the argument max_nflows
  ended,       \* n_terminated
  yielded,     \* the flows yielded so far; the next one gets id Len(yielded)
  outcome,     \* how the loop was left
  kills        \* meters that were killed by others than the streamer

meterVars == <<pc, failed, put, barrier>>
queueVars == <<buffer, writer, pipe, slots>>
mainVars  == <<main, limit, ended, yielded, outcome>>
vars == <<meterVars, queueVars, mainVars, kills>>

-----------------------------------------------------------------------------
Main == -1
Nobody == -2

FlowItem(m, n) == [kind |-> "flow", from |-> m, n |-> n]
ErrorItem(m) == [kind |-> "error", from |-> m, n |-> 0]
NoneItem(m) == [kind |-> "none", from |-> m, n |-> 0]

Dead == {m \in Procs : pc[m] \in {"ended", "killed"}}

\* The setter keeps max_nflows less one, the id of the last flow.
LastId == limit - 1

\* process.exitcode not in (None, 0)
FailedMeters == {m \in Dead : pc[m] = "killed" \/ m \in failed}

Init ==
  /\ pc = [m \in Procs |-> "start"] /\ failed = {} /\ put = [m \in Procs |-> 0]
  /\ barrier = Main
  /\ buffer = [m \in Procs |-> <<>>] /\ writer = Nobody /\ pipe = <<>> /\ slots = Capacity
  /\ main = "receive" /\ limit \in Limits /\ ended = 0 /\ yielded = <<>> /\ outcome = "none"
  /\ kills = 0

(***************************************************************************)
(* A meter.                                                                *)
(***************************************************************************)
Goes(m, from, to) == pc[m] = from /\ pc' = [pc EXCEPT ![m] = to]

\* The last meter opens the barrier as soon as it is ready itself.
Ready(m) ==
  /\ IF m = LastMeter THEN Goes(m, "start", "run") /\ barrier' = Nobody
                      ELSE Goes(m, "start", "barrier") /\ UNCHANGED barrier
  /\ UNCHANGED <<failed, put, queueVars, mainVars, kills>>

Acquire(m) ==
  /\ Goes(m, "barrier", "release")
  /\ barrier = Nobody /\ barrier' = m
  /\ UNCHANGED <<failed, put, queueVars, mainVars, kills>>

Release(m) ==
  /\ Goes(m, "release", "run")
  /\ barrier' = Nobody
  /\ UNCHANGED <<failed, put, queueVars, mainVars, kills>>

\* An exception.  In front of the barrier, the last meter opens it on its
\* way out.
Fails(m) ==
  /\ Cardinality(failed) < MaxFailures
  /\ failed' = failed \union {m}
  /\ \/ /\ Goes(m, "start", "error")
        /\ barrier' = IF m = LastMeter THEN Nobody ELSE barrier
     \/ Goes(m, "run", "error") /\ UNCHANGED barrier
  /\ UNCHANGED <<put, queueVars, mainVars, kills>>

\* channel.put() waits for a slot.
Put(m, item) ==
  /\ slots > 0 /\ slots' = slots - 1
  /\ buffer' = [buffer EXCEPT ![m] = Append(@, item)]
  /\ UNCHANGED <<writer, pipe>>

\* Mutated form: one flow too many.
PutOneMore(m) ==
  /\ Goes(m, "run", "run") /\ put[m] <= Flows[m]
  /\ Put(m, FlowItem(m, put[m] + 1))
  /\ put' = [put EXCEPT ![m] = @ + 1]
  /\ UNCHANGED <<failed, barrier, mainVars, kills>>

\* Mutated form: a flow may stay in the cache and be put again.
PutAndKeep(m) ==
  /\ Goes(m, "run", "run") /\ put[m] < Flows[m]
  /\ Put(m, FlowItem(m, put[m] + 1))
  /\ \E kept \in {0, 1} : put' = [put EXCEPT ![m] = @ + 1 - kept]
  /\ UNCHANGED <<failed, barrier, mainVars, kills>>

PutFlow(m) ==
  /\ Goes(m, "run", "run") /\ put[m] < Flows[m]
  /\ Put(m, FlowItem(m, put[m] + 1))
  /\ put' = [put EXCEPT ![m] = @ + 1]
  /\ UNCHANGED <<failed, barrier, mainVars, kills>>

AllPut(m) ==
  /\ Goes(m, "run", "none") /\ put[m] = Flows[m]
  /\ UNCHANGED <<failed, put, barrier, queueVars, mainVars, kills>>

\* Mutated form: a meter that fails only says that it ended.
SendNoError(m) ==
  /\ Goes(m, "error", "none")
  /\ UNCHANGED <<failed, put, barrier, queueVars, mainVars, kills>>

SendError(m) ==
  /\ Goes(m, "error", "none")
  /\ Put(m, ErrorItem(m))
  /\ UNCHANGED <<failed, put, barrier, mainVars, kills>>

PutNone(m) ==
  /\ Goes(m, "none", "exit")
  /\ Put(m, NoneItem(m))
  /\ UNCHANGED <<failed, put, barrier, mainVars, kills>>

\* The process waits for its feeder thread before it exits.
Exit(m) ==
  /\ Goes(m, "exit", "ended") /\ buffer[m] = <<>>
  /\ UNCHANGED <<failed, put, barrier, queueVars, mainVars, kills>>

(***************************************************************************)
(* The feeder thread of a meter.                                           *)
(***************************************************************************)
BeginWrite(m) ==
  /\ m \notin Dead /\ buffer[m] # <<>>
  /\ writer = Nobody /\ writer' = m
  /\ UNCHANGED <<buffer, pipe, slots, meterVars, mainVars, kills>>

EndWrite(m) ==
  /\ m \notin Dead /\ writer = m
  /\ pipe' = Append(pipe, Head(buffer[m]))
  /\ buffer' = [buffer EXCEPT ![m] = Tail(@)]
  /\ writer' = Nobody
  /\ UNCHANGED <<slots, meterVars, mainVars, kills>>

\* Processes are killed: by the kernel, or by terminate().
KillAll(victims) ==
  /\ pc' = [m \in Procs |-> IF m \in victims \ Dead THEN "killed" ELSE pc[m]]
  /\ buffer' = [m \in Procs |-> IF m \in victims THEN <<>> ELSE buffer[m]]

Killed(m) ==
  /\ m \notin Dead /\ kills < MaxKills
  /\ kills' = kills + 1
  /\ KillAll({m})
  /\ UNCHANGED <<failed, put, barrier, writer, pipe, slots, mainVars>>

(***************************************************************************)
(* The streamer.                                                           *)
(***************************************************************************)
Leave(how) == main' = "join" /\ outcome' = how

Get(kind) ==
  /\ main = "receive" /\ pipe # <<>> /\ Head(pipe).kind = kind
  /\ pipe' = Tail(pipe)
  /\ slots' = slots + 1
  /\ UNCHANGED <<writer, failed, put, barrier, limit, kills>>

GetNone ==
  /\ Get("none")
  /\ ended' = ended + 1
  /\ IF ended' = Meters THEN Leave("finished") ELSE UNCHANGED <<main, outcome>>
  /\ UNCHANGED <<pc, buffer, yielded>>

GetError ==
  /\ Get("error")
  /\ KillAll(Procs)
  /\ Leave("error")
  /\ UNCHANGED <<ended, yielded>>

\* The id of a flow is its place in the stream.
GetFlow ==
  /\ Get("flow")
  /\ yielded' = Append(yielded, Head(pipe))
  /\ IF Len(yielded) = LastId
     THEN KillAll(Procs) /\ Leave("limit")
     ELSE UNCHANGED <<pc, buffer, main, outcome>>
  /\ UNCHANGED ended

\* A second without anything to read.
Empty ==
  /\ main = "receive" /\ pipe = <<>>
  /\ main' = "check"
  /\ UNCHANGED <<meterVars, queueVars, limit, ended, yielded, outcome, kills>>

\* Mutated form: exitcode > 0, which is not the one of a killed process.
CheckForFailures ==
  /\ main = "check"
  /\ IF \E m \in FailedMeters : pc[m] # "killed"
     THEN KillAll(Procs) /\ Leave("error")
     ELSE main' = "receive" /\ UNCHANGED <<pc, buffer, outcome>>
  /\ UNCHANGED <<failed, put, barrier, writer, pipe, slots, limit, ended, yielded, kills>>

Check ==
  /\ main = "check"
  /\ IF FailedMeters # {} THEN KillAll(Procs) /\ Leave("error")
                          ELSE main' = "receive" /\ UNCHANGED <<pc, buffer, outcome>>
  /\ UNCHANGED <<failed, put, barrier, writer, pipe, slots, limit, ended, yielded, kills>>

\* KeyboardInterrupt
Interrupt ==
  /\ main \in {"receive", "check"}
  /\ KillAll(Procs)
  /\ Leave("interrupted")
  /\ UNCHANGED <<failed, put, barrier, writer, pipe, slots, limit, ended, yielded, kills>>

Join ==
  /\ main = "join" /\ Dead = Procs
  /\ main' = "ended"
  /\ UNCHANGED <<meterVars, queueVars, limit, ended, yielded, outcome, kills>>

MeterStep(m) == \/ Ready(m) \/ Acquire(m) \/ Release(m) \/ PutFlow(m) \/ AllPut(m)
                \/ SendError(m) \/ PutNone(m) \/ Exit(m)

FeederStep(m) == BeginWrite(m) \/ EndWrite(m)

MainStep == GetNone \/ GetError \/ GetFlow \/ Empty \/ Check \/ Join

Next ==
  \/ \E m \in Procs : MeterStep(m) \/ FeederStep(m) \/ Fails(m) \/ Killed(m)
  \/ MainStep \/ Interrupt

Spec == Init /\ [][Next]_vars

\* Processes and threads that can run do run.
Fairness == /\ WF_vars(MainStep)
            /\ \A m \in Procs : WF_vars(MeterStep(m)) /\ WF_vars(FeederStep(m))

LiveSpec == Spec /\ Fairness

-----------------------------------------------------------------------------
ItemType == [kind: {"flow", "error", "none"}, from: Procs, n: Nat]

ItemsTypeOK ==
  /\ pc \in [Procs -> {"start", "barrier", "release", "run", "error", "none", "exit",
                       "ended", "killed"}]
  /\ failed \subseteq Procs
  /\ put \in [Procs -> Nat] /\ \A m \in Procs : put[m] <= Flows[m]
  /\ buffer \in [Procs -> Seq(ItemType)]
  /\ pipe \in Seq(ItemType)
  /\ main \in {"receive", "check", "join", "ended"}
  /\ limit \in Limits
  /\ yielded \in Seq(ItemType)

\* Every variable has its type.
TypeOK ==
  /\ ItemsTypeOK
  /\ barrier \in Procs \union {Main, Nobody}
  /\ writer \in Procs \union {Nobody}
  /\ slots \in 0 .. Capacity
  /\ ended \in 0 .. Meters
  /\ outcome \in {"none", "finished", "error", "limit", "interrupted"}
  /\ kills \in 0 .. MaxKills

\* A stream that finishes normally has yielded every flow of every meter,
\* and none of them failed: neither an exception nor the death of a meter
\* goes unnoticed.  One that max_nflows ends has yielded that many, and none
\* yields more.
OutcomeIsTrue ==
  /\ outcome = "finished" =>
       /\ failed = {}
       /\ \A m \in Procs : \A n \in 1 .. Flows[m] : FlowItem(m, n) \in ToSet(yielded)
  /\ outcome = "limit" => Len(yielded) = limit
  /\ limit > 0 => Len(yielded) <= limit

FirstFlows(m, n) == {FlowItem(m, k) : k \in 1 .. n}

\* What a meter puts in front of an item: the flows before this one, and in
\* front of the end marker all its flows, or an error if it is one of the bad.
Before(item, bad) ==
  {z \in FirstFlows(item.from, Flows[item.from]) \union {ErrorItem(item.from)} :
      \/ item.kind = "flow" /\ z.kind = "flow" /\ z.n < item.n
      \/ item.kind = "none" /\ (z.kind = "error" <=> item.from \in bad)}

Upto(seq, i) == {seq[j] : j \in 1 .. i - 1}

\* The items of a sequence that comes after those in got: what is put in front
\* of an item is in front of it, and no item comes again.
InOrder(seq, got, bad) ==
  \A i \in 1 .. Len(seq) : /\ Before(seq[i], bad) \subseteq got \union Upto(seq, i)
                           /\ seq[i] \notin got \union Upto(seq, i)

\* The flows of a meter are yielded in its order, without gaps or repetition.
YieldedInOrder == InOrder(yielded, {}, failed)

\* A meter here is as Meter shows it: a source of the flows 1 .. Flows[m].
OutcomeOf(m) == IF m \in failed \/ pc[m] = "killed" THEN "failed"
                ELSE IF pc[m] \in {"none", "exit", "ended"} THEN "done" ELSE "runs"
NotPut(m) == IF OutcomeOf(m) = "failed" THEN {} ELSE (put[m] + 1) .. Flows[m]
HasPut(m) == [n \in 1 .. put[m] |-> n]
Source(m) == INSTANCE FlowSource WITH
  Names <- Nat, state <- OutcomeOf(m), held <- NotPut(m), put <- HasPut(m)

\* Whoever dies or fails, at the barrier or with a lock in its hand, the
\* stream comes to its end.
EventuallyEnds == <>(main = "ended")

-----------------------------------------------------------------------------
(***************************************************************************)
(* The inductive invariant behind the theorems of StreamerProofs.          *)
(***************************************************************************)
Receiving == main \in {"receive", "check"}

\* An item of a meter says how far it has come.
Known(item) ==
  LET m == item.from
  IN  \/ item \in FirstFlows(m, put[m])
      \/ item = ErrorItem(m) /\ m \in failed /\ pc[m] \in {"none", "exit", "ended", "killed"}
      \/ item = NoneItem(m) /\ pc[m] \in {"exit", "ended", "killed"}

ItemsAreKnown ==
  /\ \A item \in ToSet(yielded) : item.kind = "flow" /\ Known(item)
  /\ \A item \in ToSet(pipe) : Known(item)
  /\ \A m \in Procs : \A item \in ToSet(buffer[m]) : item.from = m /\ Known(item)

\* A feeder thread that has the write lock has something to write.
WriterHasAnItem == writer \in Procs \ Dead => buffer[writer] # <<>>

\* While the streamer receives, what was yielded, what is in the pipe and what
\* is in the buffer of a meter continue each other.
LineInOrder ==
  Receiving => /\ InOrder(pipe, ToSet(yielded), failed)
               /\ \A m \in Procs : InOrder(buffer[m], ToSet(yielded) \union ToSet(pipe), failed)

\* A meter that is alive has lost nothing, and puts its end marker after all
\* its flows or its error.
NothingIsLost ==
  /\ \A m \in failed : pc[m] \in {"error", "none", "exit", "ended", "killed"}
  /\ \A m \in Procs : pc[m] = "error" => m \in failed
  /\ \A m \in Procs : pc[m] = "none" /\ m \notin failed => put[m] = Flows[m]
  /\ Receiving => \A m \in Procs \ Dead :
        LET line == ToSet(pipe) \union ToSet(buffer[m])
        IN  /\ FirstFlows(m, put[m]) \subseteq ToSet(yielded) \union line
            /\ pc[m] = "none" /\ m \in failed => ErrorItem(m) \in line

\* The meters whose end marker was received.
EndedAreOver ==
  \E over \in SUBSET Procs :
     /\ Cardinality(over) = ended
     /\ \A m \in over : /\ m \notin failed /\ pc[m] \in {"exit", "ended", "killed"}
                        /\ FirstFlows(m, Flows[m]) \subseteq ToSet(yielded)
                        /\ NoneItem(m) \notin ToSet(pipe) \union ToSet(buffer[m])

OutcomeIsKept ==
  /\ Receiving => outcome = "none" /\ (limit > 0 => Len(yielded) < limit)
  /\ outcome = "finished" => ended = Meters
  /\ outcome = "limit" => Len(yielded) = limit
  /\ limit > 0 => Len(yielded) <= limit

SInv ==
  /\ ItemsTypeOK
  /\ ItemsAreKnown
  /\ WriterHasAnItem
  /\ LineInOrder
  /\ YieldedInOrder
  /\ NothingIsLost
  /\ EndedAreOver
  /\ OutcomeIsKept

(***************************************************************************)
(* The slots of the queue.                                                 *)
(***************************************************************************)
Line == ToSet(pipe) \union UNION {ToSet(buffer[m]) : m \in Procs}

\* While the streamer receives, no item on its way is without a slot.  Those
\* that a death takes away keep theirs, so there may be fewer.
SlotsAreCounted ==
  /\ slots \in 0 .. Capacity
  /\ IsFiniteSet(Line)
  /\ Receiving => slots + Cardinality(Line) <= Capacity

\* The places of the variables that no step computes with.
PlacesTypeOK ==
  /\ barrier \in Procs \union {Main, Nobody}
  /\ writer \in Procs \union {Nobody}
  /\ outcome \in {"none", "finished", "error", "limit", "interrupted"}
  /\ kills \in 0 .. MaxKills

SlotsInv == SInv /\ SlotsAreCounted /\ PlacesTypeOK
=============================================================================
