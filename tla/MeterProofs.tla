---------------------------- MODULE MeterProofs ----------------------------
(***************************************************************************)
(* Proofs about Meter, for any flow keys, times, timeouts and bounds.      *)
(***************************************************************************)
EXTENDS Meter, SequenceTheorems, FiniteSetTheorems, WellFoundedInduction, TLAPS

-----------------------------------------------------------------------------
(* Sequences.                                                              *)

LEMMA FrontAndLast ==
  ASSUME NEW S, NEW s \in Seq(S), s # <<>>
  PROVE  /\ Front(s) \in Seq(S) /\ Len(Front(s)) = Len(s) - 1
         /\ \A j \in 1 .. Len(s) - 1 : Front(s)[j] = s[j]
         /\ Last(s) \in S
<1>1. Len(s) \in Nat \ {0}
  BY EmptySeq, LenProperties
<1>2. \A j \in 1 .. Len(s) : s[j] \in S
  BY ElementOfSeq
<1> DEFINE n == Len(s) - 1
<1>3. n \in Nat /\ \A j \in 1 .. n : s[j] \in S
  BY <1>1, <1>2
<1> HIDE DEF n
<1>4. /\ SubSeq(s, 1, n) \in Seq(S)
      /\ Len(SubSeq(s, 1, n)) = n
      /\ \A j \in 1 .. n : SubSeq(s, 1, n)[j] = s[j]
  <2>1. /\ SubSeq(s, 1, n) \in Seq(S)
        /\ Len(SubSeq(s, 1, n)) = IF 1 <= n THEN n - 1 + 1 ELSE 0
        /\ \A j \in 1 .. n - 1 + 1 : SubSeq(s, 1, n)[j] = s[1 + j - 1]
    BY <1>3, SubSeqProperties
  <2>2. QED  BY <1>3, <2>1
<1>5. QED  BY <1>1, <1>2, <1>4 DEF Front, Last, n

LEMMA HeadAndTail ==
  ASSUME NEW S, NEW s \in Seq(S), s # <<>>
  PROVE  /\ Tail(s) \in Seq(S) /\ Len(Tail(s)) = Len(s) - 1
         /\ \A j \in 1 .. Len(s) - 1 : Tail(s)[j] = s[j + 1]
         /\ Head(s) \in S /\ Head(s) = s[1] /\ Len(s) \in Nat \ {0}
BY HeadTailProperties, EmptySeq

LEMMA Appended ==
  ASSUME NEW S, NEW s \in Seq(S), NEW f \in S
  PROVE  LET t == Append(s, f)
         IN  /\ t \in Seq(S) /\ Len(t) = Len(s) + 1 /\ t # <<>>
             /\ \A j \in 1 .. Len(s) : t[j] = s[j]
             /\ t[Len(t)] = f
BY AppendProperties, LenProperties

LEMMA Removed ==
  ASSUME NEW S, NEW s \in Seq(S), NEW i \in DOMAIN s
  PROVE  LET t == RemoveAt(s, i)
         IN  /\ t \in Seq(S) /\ Len(t) = Len(s) - 1
             /\ \A j \in 1 .. Len(t) : t[j] = IF j < i THEN s[j] ELSE s[j + 1]
<1> DEFINE a == SubSeq(s, 1, i - 1)
           b == SubSeq(s, i + 1, Len(s))
<1>1. Len(s) \in Nat /\ i \in 1 .. Len(s)
  BY LenProperties
<1>2. a \in Seq(S) /\ Len(a) = i - 1 /\ \A j \in 1 .. i - 1 : a[j] = s[j]
  <2>1. \A j \in 1 .. i - 1 : s[j] \in S
    BY <1>1, ElementOfSeq
  <2>2. QED  BY <1>1, <2>1, SubSeqProperties
<1>3. b \in Seq(S) /\ Len(b) = Len(s) - i /\ \A j \in 1 .. Len(s) - i : b[j] = s[i + j]
  <2>1. \A j \in i + 1 .. Len(s) : s[j] \in S
    BY <1>1, ElementOfSeq
  <2>2. QED  BY <1>1, <2>1, SubSeqProperties
<1>4. RemoveAt(s, i) = a \o b
  BY DEF RemoveAt
<1> HIDE DEF a, b
<1>5. /\ a \o b \in Seq(S) /\ Len(a \o b) = Len(s) - 1
      /\ \A j \in 1 .. Len(s) - 1 : (a \o b)[j] = IF j <= i - 1 THEN a[j] ELSE b[j - (i - 1)]
  <2>1. /\ a \o b \in Seq(S) /\ Len(a \o b) = Len(a) + Len(b)
        /\ \A j \in 1 .. Len(a) + Len(b) :
              (a \o b)[j] = IF j <= Len(a) THEN a[j] ELSE b[j - Len(a)]
    BY <1>2, <1>3, ConcatProperties
  <2>2. Len(a) = i - 1 /\ Len(a) + Len(b) = Len(s) - 1
    BY <1>1, <1>2, <1>3
  <2>3. QED  BY <2>1, <2>2
<1>6. ASSUME NEW j \in 1 .. Len(s) - 1
      PROVE  (a \o b)[j] = IF j < i THEN s[j] ELSE s[j + 1]
  <2>1. CASE j < i
    <3>1. j <= i - 1 /\ j \in 1 .. i - 1
      BY <1>1, <2>1
    <3>2. QED  BY <1>2, <1>5, <2>1, <3>1
  <2>2. CASE ~(j < i)
    <3>1. /\ ~(j <= i - 1) /\ j - (i - 1) \in 1 .. Len(s) - i
          /\ i + (j - (i - 1)) = j + 1
      BY <1>1, <2>2
    <3>2. b[j - (i - 1)] = s[j + 1]
      BY <1>3, <3>1
    <3>3. QED  BY <1>5, <2>2, <3>1, <3>2
  <2>3. QED  BY <2>1, <2>2
<1>7. QED
  BY <1>4, <1>5, <1>6

LEMMA FrontOfAppend ==
  ASSUME NEW S, NEW s \in Seq(S), NEW f \in S
  PROVE  Front(Append(s, f)) = s
<1> DEFINE t == Append(s, f)
<1>1. /\ t \in Seq(S) /\ t # <<>> /\ Len(t) = Len(s) + 1 /\ Len(s) \in Nat
      /\ \A j \in 1 .. Len(s) : t[j] = s[j]
  BY Appended, LenProperties
<1> HIDE DEF t
<1>2. /\ Front(t) \in Seq(S) /\ Len(Front(t)) = Len(s)
      /\ \A j \in 1 .. Len(s) : Front(t)[j] = s[j]
  BY <1>1, FrontAndLast
<1>3. Front(t) = s
  BY <1>2, SeqEqual
<1>4. QED  BY <1>3 DEF t

-----------------------------------------------------------------------------
(* The places in the code.                                                 *)

LEMMA ControlStep ==
  ASSUME MInv, [Next]_vars
  PROVE  ControlInv'
<1>0. ControlInv /\ files \in Nat /\ failure \in BOOLEAN /\ drain \in BOOLEAN
  BY MeterAssumption DEF MInv, TypeOK
<1> USE <1>0 DEF ControlInv, Headed, Returns, OnUpdate, Goto, Reap, Flush, Fail,
                controlVars, timeVars, packetVars, flowVars, loopVars, sendVars
<1>1. CASE UNCHANGED vars
  BY <1>1 DEF vars
<1>2. CASE Open \/ OpenFails \/ EndOfCapture \/ End
  BY <1>2 DEF Open, OpenFails, EndOfCapture, End
<1>3. ASSUME NEW t \in Times, Ticker(t) \/ \E k \in Keys, d \in {0, 1} : Packet(k, t, d)
      PROVE  ControlInv'
  BY <1>3 DEF Packet, Ticker
<1>4. CASE Create \/ CreateFails \/ Replace \/ ReplaceFails \/ Consumed
  BY <1>4 DEF Create, CreateFails, Replace, ReplaceFails, Consumed
<1>5. ASSUME NEW i \in DOMAIN cache, Cut(i) \/ Update(i)
      PROVE  ControlInv'
  BY <1>5 DEF Cut, Update
<1>6. CASE Publish
  BY <1>6 DEF Publish, SendSnapshot, SkipSnapshot, SendFails, NextInterval
<1>7. CASE Check
  <2>1. CASE ReapNext
    BY <2>1 DEF ReapNext
  <2>2. CASE ReapRaises \/ ReapTimesOut \/ FlushTimesOut
    BY <2>2 DEF ReapRaises, ReapTimesOut, FlushTimesOut
  <2>3. CASE ReapEnds \/ FlushReturns
    BY <2>3 DEF ReapEnds, FlushReturns
  <2>4. QED  BY <1>7, <2>1, <2>2, <2>3 DEF Check
<1>8. ASSUME NEW i \in DOMAIN answer, NEW a, Answer(i, a)
      PROVE  ControlInv'
  BY <1>8 DEF Answer
<1>9. CASE ScanIdle \/ ScanPut \/ ScanEnds
  BY <1>9 DEF ScanIdle, ScanPut, ScanEnds
<1>10. CASE CleanupNext \/ CleanPut \/ Delete \/ CleanupEnds
  BY <1>10 DEF CleanupNext, CleanPut, Delete, CleanupEnds
<1> HIDE DEF ControlInv
<1>11. QED
  BY <1>1, <1>2, <1>3, <1>4, <1>5, <1>6, <1>7, <1>8, <1>9, <1>10
  DEF Next, Step, Consume, Expire
-----------------------------------------------------------------------------
(* The queue of sends.                                                     *)

Answers == {"none", "stored", "refused"}

LEMMA SendsFacts ==
  ASSUME TypeOK
  PROVE  /\ reaped \in Nat /\ Len(sends) \in Nat /\ reaped <= Len(sends)
         /\ answer \in Seq(Answers) /\ DOMAIN answer = 1 .. Len(sends)
         /\ \A a \in Answers : /\ Len(Append(answer, a)) = Len(sends) + 1
                               /\ \A i \in DOMAIN answer : Append(answer, a)[i] = answer[i]
         /\ Pending \in Nat /\ MaxPending \in Nat \ {0}
         /\ failure \in BOOLEAN /\ drain \in BOOLEAN
<1>1. sends \in Seq([key: Keys, first: Nat, data: Nat, start: Nat, end: Nat])
  BY DEF TypeOK
<1>2. Len(sends) \in Nat
  BY <1>1, LenProperties
<1>3. answer \in Seq(Answers) /\ Len(answer) = Len(sends) /\ reaped \in Nat /\ reaped <= Len(sends)
  BY DEF TypeOK, Answers
<1>4. DOMAIN answer = 1 .. Len(sends)
  BY <1>3, LenProperties
<1>5. \A a \in Answers : /\ Len(Append(answer, a)) = Len(sends) + 1
                         /\ \A i \in DOMAIN answer : Append(answer, a)[i] = answer[i]
  BY <1>3, <1>4, Appended
<1>6. Pending \in Nat
  BY <1>2, <1>3 DEF Pending
<1>7. MaxPending \in Nat \ {0} /\ failure \in BOOLEAN /\ drain \in BOOLEAN
  BY MeterAssumption DEF TypeOK
<1>8. QED  BY <1>2, <1>3, <1>4, <1>5, <1>6, <1>7

LEMMA SendsStep ==
  ASSUME MInv, [Next]_vars
  PROVE  SendsInv'
<1>0. /\ reaped \in Nat /\ Len(sends) \in Nat /\ reaped <= Len(sends)
      /\ DOMAIN answer = 1 .. Len(sends)
      /\ Pending \in Nat /\ MaxPending \in Nat \ {0}
      /\ failure \in BOOLEAN /\ drain \in BOOLEAN
      /\ SendsInv /\ ControlInv
  BY SendsFacts DEF MInv
<1> USE <1>0 DEF SendsInv, Pending, OnUpdate, Goto, Reap, Flush, Fail,
                controlVars, timeVars, packetVars, flowVars, loopVars, sendVars
<1>1. CASE UNCHANGED vars
  BY <1>1 DEF vars
<1>2. CASE Open \/ OpenFails \/ EndOfCapture \/ End
  BY <1>2 DEF Open, OpenFails, EndOfCapture, End
<1>3. ASSUME NEW t \in Times, Ticker(t) \/ \E k \in Keys, d \in {0, 1} : Packet(k, t, d)
      PROVE  SendsInv'
  BY <1>3 DEF Packet, Ticker
<1>4. CASE Create \/ CreateFails \/ Replace \/ ReplaceFails \/ Consumed
  BY <1>4 DEF Create, CreateFails, Replace, ReplaceFails, Consumed
<1>5. ASSUME NEW i \in DOMAIN cache, Cut(i) \/ Update(i)
      PROVE  SendsInv'
  BY <1>5 DEF Cut, Update
<1>6. CASE Publish
  <2>1. CASE SendSnapshot
    <3>1. Pending < MaxPending
      BY <2>1 DEF SendSnapshot, ControlInv, Headed
    <3>2. Len(sends') = Len(sends) + 1
      <4>1. sends \in Seq([key: Keys, first: Nat, data: Nat, start: Nat, end: Nat])
        BY DEF MInv, TypeOK
      <4>2. QED  BY <2>1, <4>1, LenProperties DEF SendSnapshot
    <3>3. \A i \in DOMAIN answer : answer'[i] = answer[i]
      BY <2>1, SendsFacts DEF SendSnapshot, Answers, MInv
    <3>4. QED  BY <2>1, <3>1, <3>2, <3>3 DEF SendSnapshot
  <2>2. CASE SkipSnapshot \/ SendFails \/ NextInterval
    BY <2>2 DEF SkipSnapshot, SendFails, NextInterval
  <2>3. QED  BY <1>6, <2>1, <2>2 DEF Publish
<1>7. CASE Check
  <2>1. CASE ReapNext
    BY <2>1 DEF ReapNext, Oldest
  <2>2. CASE ReapRaises \/ ReapTimesOut \/ FlushTimesOut
    BY <2>2 DEF ReapRaises, ReapTimesOut, FlushTimesOut
  <2>3. CASE ReapEnds
    <3>1. Pending < MaxPending /\ (drain => Pending = 0)
      BY <2>3 DEF ReapEnds, MustWait
    <3>2. then \in Returns /\ (then = "closed" => drain)
      BY <2>3 DEF ReapEnds, ControlInv
    <3>3. QED  BY <2>3, <3>1, <3>2 DEF ReapEnds, Returns
  <2>4. CASE FlushReturns
    BY <2>4 DEF FlushReturns
  <2>5. QED  BY <1>7, <2>1, <2>2, <2>3, <2>4 DEF Check
<1>8. ASSUME NEW i \in DOMAIN answer, NEW a, Answer(i, a)
      PROVE  SendsInv'
  BY <1>8 DEF Answer
<1>9. CASE ScanIdle \/ ScanPut \/ ScanEnds
  BY <1>9 DEF ScanIdle, ScanPut, ScanEnds
<1>10. CASE CleanupNext \/ CleanPut \/ Delete \/ CleanupEnds
  BY <1>10 DEF CleanupNext, CleanPut, Delete, CleanupEnds
<1> HIDE DEF SendsInv
<1>11. QED
  BY <1>1, <1>2, <1>3, <1>4, <1>5, <1>6, <1>7, <1>8, <1>9, <1>10
  DEF Next, Step, Consume, Expire
-----------------------------------------------------------------------------
(* Types.                                                                  *)

LEMMA FlowFacts ==
  ASSUME MInv
  PROVE  /\ cache \in Seq(FlowType) /\ channel \in Seq(FlowType)
         /\ Headed("consume") \/ Headed("replace") => NewFlow \in FlowType
         /\ \A f \in FlowType : /\ Updated(f) \in FlowType
                                /\ [f EXCEPT !.start = packet.time,
                                             !.end = packet.time + Interval] \in FlowType
<1>1. /\ cache \in Seq(FlowType) /\ channel \in Seq(FlowType)
      /\ packet.time \in Nat /\ packet.data \in {0, 1} /\ Interval \in Nat
  BY MeterAssumption DEF MInv, TypeOK
<1>2. Headed("consume") \/ Headed("replace") => packet.key \in Keys
  BY DEF MInv, FlowInv
<1>3. ASSUME NEW f \in FlowType
      PROVE  /\ Updated(f) \in FlowType
             /\ [f EXCEPT !.start = packet.time,
                          !.end = packet.time + Interval] \in FlowType
  <2>1. f.packets + 1 \in Nat /\ f.data + packet.data \in Nat /\ packet.time + Interval \in Nat
    BY <1>1, <1>3 DEF FlowType
  <2>2. QED  BY <1>1, <1>3, <2>1 DEF Updated, PacketsWithData, FlowType
<1>4. ASSUME packet.key \in Keys
      PROVE  NewFlow \in FlowType
  <2>1. packet.time + Interval \in Nat /\ packet.data \in Nat
    BY <1>1
  <2> DEFINE f == [key     |-> packet.key, first |-> packet.time, last |-> packet.time,
                   packets |-> 1,          start |-> 0,           end  |-> 0,
                   data    |-> 0]
  <2>2. f \in FlowType
    BY <1>1, <1>4 DEF FlowType
  <2>3. NewFlow = OnInit(f)
    BY DEF NewFlow
  <2> HIDE DEF f
  <2>4. OnInit(f) \in FlowType
    BY <1>1, <2>1, <2>2 DEF OnInit, FlowType
  <2>5. QED  BY <2>3, <2>4
<1>5. QED  BY <1>1, <1>2, <1>3, <1>4

\* What an action may make of the cache.
LEMMA FlowsStep ==
  ASSUME MInv, [Next]_vars
  PROVE  cache' \in Seq(FlowType) /\ channel' \in Seq(FlowType)
<1>0. FlowInv /\ cache \in Seq(FlowType) /\ channel \in Seq(FlowType)
  BY FlowFacts DEF MInv
<1> USE <1>0 DEF OnUpdate, Goto, Reap, Flush, Fail,
                controlVars, timeVars, packetVars, flowVars, loopVars, sendVars
<1>1. CASE UNCHANGED <<cache, channel>>
  BY <1>1
<1>2. CASE Create
  <2>1. NewFlow \in FlowType
    BY <1>2, FlowFacts DEF Create, Headed
  <2>2. QED  BY <1>2, <2>1, Appended DEF Create
<1>3. CASE Replace \/ ReplaceFails
  <2>1. cache # <<>> /\ NewFlow \in FlowType
    BY <1>3, FlowFacts DEF Replace, ReplaceFails, FlowInv, Headed
  <2>2. Front(cache) \in Seq(FlowType) /\ Last(cache) \in FlowType
    BY <2>1, FrontAndLast
  <2>3. Append(Front(cache), NewFlow) \in Seq(FlowType)
    BY <2>1, <2>2, Appended
  <2>4. Append(channel, Last(cache)) \in Seq(FlowType)
    BY <2>2, Appended
  <2>5. QED  BY <1>3, <2>2, <2>3, <2>4 DEF Replace, ReplaceFails
<1>4. ASSUME NEW i \in DOMAIN cache, Cut(i) \/ Update(i)
      PROVE  cache' \in Seq(FlowType) /\ channel' \in Seq(FlowType)
  <2>1. cache[i] \in FlowType /\ Updated(cache[i]) \in FlowType
    BY FlowFacts, LenProperties, ElementOfSeq
  <2>2. RemoveAt(cache, i) \in Seq(FlowType)
    BY Removed
  <2>3. \A f \in FlowType : MovedToEnd(i, f) \in Seq(FlowType)
    BY <2>2, Appended DEF MovedToEnd
  <2>4. QED  BY <1>4, <2>1, <2>3 DEF Cut, Update
<1>5. CASE NextInterval
  <2>1. cache # <<>>
    BY <1>5 DEF NextInterval, FlowInv, Headed
  <2>2. Front(cache) \in Seq(FlowType) /\ Last(cache) \in FlowType
    BY <2>1, FrontAndLast
  <2>3. QED  BY <1>5, <2>2, FlowFacts, Appended DEF NextInterval
<1>6. CASE ScanPut
  <2>1. cache # <<>>
    BY <1>6 DEF ScanPut, FlowInv, Headed
  <2>2. QED  BY <1>6, <2>1, HeadAndTail, Appended DEF ScanPut
<1>7. CASE CleanupNext
  BY <1>7, HeadAndTail, Appended DEF CleanupNext
<1>8. CASE CleanPut \/ Delete
  <2>1. cache # <<>>
    BY <1>8 DEF CleanPut, Delete, FlowInv, Headed
  <2>2. Front(cache) \in Seq(FlowType) /\ Last(cache) \in FlowType
    BY <2>1, FrontAndLast
  <2>3. QED  BY <1>8, <2>2, Appended DEF CleanPut, Delete
<1>9. CASE \/ Open \/ OpenFails \/ EndOfCapture \/ End \/ CreateFails \/ Consumed
           \/ ScanIdle \/ ScanEnds \/ CleanupEnds
  BY <1>1, <1>9
  DEF Open, OpenFails, EndOfCapture, End, CreateFails, Consumed, ScanIdle, ScanEnds, CleanupEnds
<1>10. CASE SendSnapshot \/ SkipSnapshot \/ SendFails
  BY <1>1, <1>10 DEF SendSnapshot, SkipSnapshot, SendFails
<1>11. CASE Check
  BY <1>1, <1>11
  DEF Check, ReapNext, ReapRaises, ReapTimesOut, ReapEnds, FlushReturns, FlushTimesOut
<1>12. ASSUME NEW t \in Times, Ticker(t) \/ \E k \in Keys, d \in {0, 1} : Packet(k, t, d)
       PROVE  cache' \in Seq(FlowType) /\ channel' \in Seq(FlowType)
  BY <1>1, <1>12 DEF Packet, Ticker
<1>13. ASSUME NEW i \in DOMAIN answer, NEW a, Answer(i, a)
       PROVE  cache' \in Seq(FlowType) /\ channel' \in Seq(FlowType)
  BY <1>1, <1>13 DEF Answer
<1>14. CASE UNCHANGED vars
  BY <1>1, <1>14 DEF vars
<1>15. QED
  BY <1>2, <1>3, <1>4, <1>5, <1>6, <1>7, <1>8, <1>9, <1>10, <1>11, <1>12, <1>13, <1>14
  DEF Next, Step, Consume, Publish, Expire

SnapshotType == [key: Keys, first: Nat, data: Nat, start: Nat, end: Nat]

LEMMA SendsTypeStep ==
  ASSUME MInv, [Next]_vars
  PROVE  /\ sends' \in Seq(SnapshotType) /\ answer' \in Seq(Answers)
         /\ Len(answer') = Len(sends')
<1>0. /\ sends \in Seq(SnapshotType) /\ answer \in Seq(Answers) /\ Len(answer) = Len(sends)
      /\ FlowInv
  BY DEF MInv, TypeOK, SnapshotType, Answers
<1> USE <1>0 DEF OnUpdate, Goto, Reap, Flush, Fail,
                controlVars, timeVars, packetVars, flowVars, loopVars, sendVars
<1>1. CASE UNCHANGED <<sends, answer>>
  BY <1>1
<1>2. CASE SendSnapshot
  <2>1. cache # <<>> /\ cache \in Seq(FlowType)
    BY <1>2, FlowFacts DEF SendSnapshot, FlowInv, Headed
  <2>2. Last(cache) \in FlowType
    BY <2>1, FrontAndLast
  <2>3. Snapshot(Last(cache)) \in SnapshotType
    BY <2>2 DEF Snapshot, SnapshotType, FlowType
  <2>4. "none" \in Answers
    BY DEF Answers
  <2>5. QED  BY <1>2, <2>3, <2>4, Appended DEF SendSnapshot
<1>3. ASSUME NEW i \in DOMAIN answer, NEW a \in {"stored", "refused"}, Answer(i, a)
      PROVE  /\ sends' \in Seq(SnapshotType) /\ answer' \in Seq(Answers)
             /\ Len(answer') = Len(sends')
  BY <1>3, ExceptSeq, LenProperties DEF Answer, Answers
<1>4. CASE \/ Open \/ OpenFails \/ EndOfCapture \/ End
           \/ Create \/ CreateFails \/ Replace \/ ReplaceFails \/ Consumed
  BY <1>1, <1>4
  DEF Open, OpenFails, EndOfCapture, End, Create, CreateFails, Replace, ReplaceFails, Consumed
<1>5. CASE SkipSnapshot \/ SendFails \/ NextInterval
  BY <1>1, <1>5 DEF SkipSnapshot, SendFails, NextInterval
<1>6. ASSUME NEW i \in DOMAIN cache, Cut(i) \/ Update(i)
      PROVE  UNCHANGED <<sends, answer>>
  BY <1>6 DEF Cut, Update
<1>7. ASSUME NEW t \in Times, Ticker(t) \/ \E k \in Keys, d \in {0, 1} : Packet(k, t, d)
      PROVE  UNCHANGED <<sends, answer>>
  BY <1>7 DEF Packet, Ticker
<1>8. CASE Check
  BY <1>1, <1>8
  DEF Check, ReapNext, ReapRaises, ReapTimesOut, ReapEnds, FlushReturns, FlushTimesOut
<1>9. CASE Expire
  BY <1>1, <1>9
  DEF Expire, ScanIdle, ScanPut, ScanEnds, CleanupNext, CleanPut, Delete, CleanupEnds
<1>10. CASE UNCHANGED vars
  BY <1>1, <1>10 DEF vars
<1>11. QED
  BY <1>1, <1>2, <1>3, <1>4, <1>5, <1>6, <1>7, <1>8, <1>9, <1>10
  DEF Next, Step, Consume, Publish

\* Everything but the sequences.
ScalarsOK ==
  /\ pc \in Places /\ then \in Places
  /\ drain \in BOOLEAN /\ failure \in BOOLEAN /\ goScan \in BOOLEAN /\ counted \in BOOLEAN
  /\ files \in 0 .. Sources
  /\ tick \in Nat /\ scanTick \in Nat /\ processed \in Nat /\ lost \in Nat
  /\ scanned \in Nat /\ cleaned \in Nat
  /\ packet \in [key: Keys \union {NoPacket.key}, time: Nat, data: {0, 1}]

LEMMA ScalarsStep ==
  ASSUME MInv, [Next]_vars
  PROVE  ScalarsOK'
<1>0. /\ ScalarsOK /\ Times \subseteq Nat /\ Sources \in Nat /\ ScanInterval \in Nat
      /\ pc = "capture" => files > 0
  <2>1. ScalarsOK /\ Times \subseteq Nat /\ Sources \in Nat /\ ScanInterval \in Nat
    BY MeterAssumption DEF ScalarsOK, MInv, TypeOK
  <2>2. pc = "capture" => files > 0
    BY <2>1 DEF ScalarsOK, MInv, ControlInv, Headed
  <2>3. QED  BY <2>1, <2>2
<1> USE <1>0 DEF ScalarsOK, Places, OnUpdate, Goto, Reap, Flush, Fail,
                controlVars, timeVars, packetVars, flowVars, loopVars, sendVars
<1>1. CASE UNCHANGED vars
  BY <1>1 DEF vars
<1>2. CASE Open \/ OpenFails \/ EndOfCapture \/ End
  <2>1. files' \in 0 .. Sources
    BY <1>2 DEF Open, OpenFails, EndOfCapture, End
  <2>2. QED  BY <1>2, <2>1 DEF Open, OpenFails, EndOfCapture, End
<1>3. ASSUME NEW t \in Times, Ticker(t)
      PROVE  ScalarsOK'
  <2>1. t \in Nat /\ tick' = t /\ goScan' = (t - scanTick >= ScanInterval)
    BY <1>3 DEF Ticker, ScanDue
  <2>2. goScan' \in BOOLEAN
    BY <2>1
  <2>3. scanTick' \in {t, scanTick}
    BY <1>3 DEF Ticker
  <2>4. QED  BY <1>3, <2>1, <2>2, <2>3 DEF Ticker
<1>4. ASSUME NEW t \in Times, NEW k \in Keys, NEW d \in {0, 1}, Packet(k, t, d)
      PROVE  ScalarsOK'
  <2>1. t \in Nat /\ tick' \in Nat
    BY <1>4 DEF Packet, Larger
  <2>2. goScan' = (tick' - scanTick >= ScanInterval)
    BY <1>4 DEF Packet, ScanDue
  <2>3. goScan' \in BOOLEAN
    BY <2>2
  <2>4. scanTick' \in {tick', scanTick}
    BY <1>4 DEF Packet
  <2>5. packet' \in [key: Keys \union {NoPacket.key}, time: Nat, data: {0, 1}]
    BY <1>4, <2>1 DEF Packet
  <2>6. /\ pc' = "consume" /\ counted' = FALSE /\ processed' \in Nat
        /\ UNCHANGED <<then, drain, failure, files, lost, scanned, cleaned>>
    BY <1>4 DEF Packet
  <2>7. QED  BY <2>1, <2>3, <2>4, <2>5, <2>6
<1>5. CASE Create \/ CreateFails \/ Replace \/ ReplaceFails
  <2>1. counted' = TRUE /\ UNCHANGED <<packet, processed>>
    BY <1>5 DEF Create, CreateFails, Replace, ReplaceFails, Counted
  <2>2. lost' \in Nat
    BY <1>5 DEF Create, CreateFails, Replace, ReplaceFails
  <2>3. QED  BY <1>5, <2>1, <2>2 DEF Create, CreateFails, Replace, ReplaceFails
<1>6. CASE Consumed
  <2>1. packet' \in [key: Keys \union {NoPacket.key}, time: Nat, data: {0, 1}]
    BY <1>6 DEF Consumed, NoPacket
  <2>2. QED  BY <1>6, <2>1 DEF Consumed
<1>7. ASSUME NEW i \in DOMAIN cache, Cut(i) \/ Update(i)
      PROVE  ScalarsOK'
  <2>1. counted' \in BOOLEAN /\ UNCHANGED <<packet, processed, lost>>
    BY <1>7 DEF Cut, Update, Counted
  <2>2. QED  BY <1>7, <2>1 DEF Cut, Update
<1>8. CASE Publish
  BY <1>8 DEF Publish, SendSnapshot, SkipSnapshot, SendFails, NextInterval
<1>9. CASE Check
  BY <1>9
  DEF Check, ReapNext, ReapRaises, ReapTimesOut, ReapEnds, FlushReturns, FlushTimesOut
<1>10. ASSUME NEW i \in DOMAIN answer, NEW a, Answer(i, a)
       PROVE  ScalarsOK'
  BY <1>10 DEF Answer
<1>11. CASE Expire
  <2>1. goScan' \in {goScan, FALSE}
    BY <1>11
    DEF Expire, ScanIdle, ScanPut, ScanEnds, CleanupNext, CleanPut, Delete, CleanupEnds
  <2>2. scanned' \in {0, scanned, scanned + 1} /\ cleaned' \in {cleaned, cleaned + 1}
    BY <1>11
    DEF Expire, ScanIdle, ScanPut, ScanEnds, CleanupNext, CleanPut, Delete, CleanupEnds
  <2>3. UNCHANGED <<failure, files, timeVars, packetVars>>
    BY <1>11
    DEF Expire, ScanIdle, ScanPut, ScanEnds, CleanupNext, CleanPut, Delete, CleanupEnds
  <2>4. pc' \in Places /\ then' \in Places /\ drain' \in BOOLEAN
    BY <1>11
    DEF Expire, ScanIdle, ScanPut, ScanEnds, CleanupNext, CleanPut, Delete, CleanupEnds
  <2>5. scanned' \in Nat /\ cleaned' \in Nat
    BY <2>2
  <2>6. QED  BY <2>1, <2>3, <2>4, <2>5
<1> HIDE DEF ScalarsOK
<1>12. QED
  BY <1>1, <1>2, <1>3, <1>4, <1>5, <1>6, <1>7, <1>8, <1>9, <1>10, <1>11
  DEF Next, Step, Consume

LEMMA ReapedStep ==
  ASSUME MInv, [Next]_vars
  PROVE  reaped' \in Nat /\ reaped' <= Len(sends')
<1>0. reaped \in Nat /\ Len(sends) \in Nat /\ reaped <= Len(sends)
  BY SendsFacts DEF MInv
<1> USE DEF OnUpdate, Goto, Reap, Flush, Fail,
            controlVars, timeVars, packetVars, flowVars, loopVars, sendVars
<1>1. CASE ReapNext
  BY <1>0, <1>1 DEF ReapNext, Pending
<1>2. CASE SendSnapshot
  <2>1. Len(sends') = Len(sends) + 1
    <3>1. sends \in Seq(SnapshotType)
      BY DEF MInv, TypeOK, SnapshotType
    <3>2. QED  BY <1>2, <3>1, LenProperties DEF SendSnapshot
  <2>2. QED  BY <1>0, <1>2, <2>1 DEF SendSnapshot
<1>3. CASE UNCHANGED <<sends, reaped>>
  BY <1>0, <1>3
<1>4. CASE \/ Open \/ OpenFails \/ EndOfCapture \/ End
           \/ Create \/ CreateFails \/ Replace \/ ReplaceFails \/ Consumed
  BY <1>3, <1>4
  DEF Open, OpenFails, EndOfCapture, End, Create, CreateFails, Replace, ReplaceFails, Consumed
<1>5. CASE SkipSnapshot \/ SendFails \/ NextInterval
  BY <1>3, <1>5 DEF SkipSnapshot, SendFails, NextInterval
<1>6. ASSUME NEW i \in DOMAIN cache, Cut(i) \/ Update(i)
      PROVE  UNCHANGED <<sends, reaped>>
  BY <1>6 DEF Cut, Update
<1>7. ASSUME NEW t \in Times, Ticker(t) \/ \E k \in Keys, d \in {0, 1} : Packet(k, t, d)
      PROVE  UNCHANGED <<sends, reaped>>
  BY <1>7 DEF Packet, Ticker
<1>8. CASE ReapRaises \/ ReapTimesOut \/ ReapEnds \/ FlushReturns \/ FlushTimesOut
  BY <1>3, <1>8 DEF ReapRaises, ReapTimesOut, ReapEnds, FlushReturns, FlushTimesOut
<1>9. CASE Expire
  BY <1>3, <1>9
  DEF Expire, ScanIdle, ScanPut, ScanEnds, CleanupNext, CleanPut, Delete, CleanupEnds
<1>10. ASSUME NEW i \in DOMAIN answer, NEW a, Answer(i, a)
       PROVE  UNCHANGED <<sends, reaped>>
  BY <1>10 DEF Answer
<1>11. CASE UNCHANGED vars
  BY <1>3, <1>11 DEF vars
<1>12. QED
  BY <1>1, <1>2, <1>3, <1>4, <1>5, <1>6, <1>7, <1>8, <1>9, <1>10, <1>11
  DEF Next, Step, Consume, Publish, Check

LEMMA TypeStep ==
  ASSUME MInv, [Next]_vars
  PROVE  TypeOK'
<1>1. cache' \in Seq(FlowType) /\ channel' \in Seq(FlowType)
  BY FlowsStep
<1>2. /\ sends' \in Seq(SnapshotType) /\ answer' \in Seq(Answers)
      /\ Len(answer') = Len(sends')
  BY SendsTypeStep
<1>3. ScalarsOK'
  BY ScalarsStep
<1>4. reaped' \in Nat /\ reaped' <= Len(sends')
  BY ReapedStep
<1>5. QED
  BY <1>1, <1>2, <1>3, <1>4 DEF TypeOK, ScalarsOK, SnapshotType, Answers

-----------------------------------------------------------------------------
(* The packet in work and the flow in work.                                *)

LEMMA FlowStep ==
  ASSUME MInv, [Next]_vars
  PROVE  FlowInv'
<1>0. FlowInv /\ ControlInv /\ cache \in Seq(FlowType)
  BY FlowFacts DEF MInv
<1>1. \A s \in Seq(FlowType), f \in FlowType : Append(s, f) # <<>>
  BY Appended
<1> USE <1>0 DEF FlowInv, Headed, OnUpdate, Goto, Reap, Flush, Fail,
                controlVars, timeVars, packetVars, flowVars, loopVars, sendVars
<1>2. CASE UNCHANGED vars
  BY <1>2 DEF vars
<1>3. CASE Open \/ OpenFails \/ EndOfCapture \/ End
  BY <1>3 DEF Open, OpenFails, EndOfCapture, End
<1>4. ASSUME NEW t \in Times, Ticker(t)
      PROVE  FlowInv'
  BY <1>4 DEF Ticker
<1>5. ASSUME NEW t \in Times, NEW k \in Keys, NEW d \in {0, 1}, Packet(k, t, d)
      PROVE  FlowInv'
  <2>1. packet'.time = tick' /\ packet'.key \in Keys
    BY <1>5 DEF Packet
  <2>2. pc' = "consume"
    BY <1>5 DEF Packet
  <2>3. QED  BY <2>1, <2>2
<1>6. CASE Create \/ CreateFails \/ Replace \/ ReplaceFails \/ Consumed
  BY <1>6 DEF Create, CreateFails, Replace, ReplaceFails, Consumed
<1>7. ASSUME NEW i \in DOMAIN cache, Cut(i) \/ Update(i)
      PROVE  FlowInv'
  <2>1. cache[i] \in FlowType /\ Updated(cache[i]) \in FlowType
    BY FlowFacts, LenProperties, ElementOfSeq
  <2>2. RemoveAt(cache, i) \in Seq(FlowType)
    BY Removed
  <2>3. cache' # <<>>
    BY <1>1, <1>7, <2>1, <2>2 DEF Cut, Update, MovedToEnd
  <2>4. UNCHANGED <<tick, packet>> /\ pc = "consume" /\ pc' \in {"reap", "snapshot"}
    BY <1>7 DEF Cut, Update, Counted
  <2>5. pc' = "reap" => then' \in {"replace", "consumed"}
    BY <1>7 DEF Cut, Update
  <2>6. QED  BY <2>3, <2>4, <2>5
<1>8. CASE Publish
  BY <1>8 DEF Publish, SendSnapshot, SkipSnapshot, SendFails, NextInterval
<1>9. CASE Check
  <2>1. CASE ReapNext
    BY <2>1 DEF ReapNext
  <2>2. CASE ReapRaises \/ ReapTimesOut \/ FlushTimesOut
    BY <2>2 DEF ReapRaises, ReapTimesOut, FlushTimesOut
  <2>3. CASE ReapEnds \/ FlushReturns
    BY <2>3 DEF ReapEnds, FlushReturns
  <2>4. QED  BY <1>9, <2>1, <2>2, <2>3 DEF Check
<1>10. ASSUME NEW i \in DOMAIN answer, NEW a, Answer(i, a)
       PROVE  FlowInv'
  BY <1>10 DEF Answer
<1>11. CASE ScanIdle \/ ScanPut \/ ScanEnds
  BY <1>11 DEF ScanIdle, ScanPut, ScanEnds, HeadIsIdle
<1>12. CASE CleanupNext
  <2>1. cache' # <<>>
    BY <1>1, <1>12, HeadAndTail DEF CleanupNext
  <2>2. QED  BY <1>12, <2>1 DEF CleanupNext
<1>13. CASE CleanPut \/ Delete \/ CleanupEnds
  BY <1>13 DEF CleanPut, Delete, CleanupEnds
<1> HIDE DEF FlowInv
<1>14. QED
  BY <1>2, <1>3, <1>4, <1>5, <1>6, <1>7, <1>8, <1>9, <1>10, <1>11, <1>12, <1>13
  DEF Next, Step, Consume, Expire

-----------------------------------------------------------------------------
(* The order of the cache.                                                 *)

NotAfter(s, t) == \A i \in DOMAIN s : s[i].last <= t

LEMMA FlowTimes ==
  ASSUME NEW s \in Seq(FlowType)
  PROVE  /\ Len(s) \in Nat /\ DOMAIN s = 1 .. Len(s)
         /\ \A i \in DOMAIN s : s[i] \in FlowType /\ s[i].last \in Nat
<1>1. Len(s) \in Nat /\ DOMAIN s = 1 .. Len(s)
  BY LenProperties
<1>2. \A i \in DOMAIN s : s[i] \in FlowType
  BY <1>1, ElementOfSeq
<1>3. \A f \in FlowType : f.last \in Nat
  BY DEF FlowType
<1>4. QED  BY <1>1, <1>2, <1>3

LEMMA AppendOrder ==
  ASSUME NEW s \in Seq(FlowType), NEW f \in FlowType, NEW t \in Nat,
         NotAfter(s, t), f.last <= t
  PROVE  /\ NotAfter(Append(s, f), t)
         /\ InOrder(s) /\ NotAfter(s, f.last) => InOrder(Append(s, f))
<1> DEFINE u == Append(s, f)
<1>1. /\ Len(s) \in Nat /\ DOMAIN s = 1 .. Len(s)
      /\ \A i \in DOMAIN s : s[i].last \in Nat
      /\ f.last \in Nat
  BY FlowTimes DEF FlowType
<1>2. /\ u \in Seq(FlowType) /\ Len(u) = Len(s) + 1
      /\ \A j \in 1 .. Len(s) : u[j] = s[j]
      /\ u[Len(u)] = f
  BY Appended
<1>3. DOMAIN u = 1 .. Len(s) + 1
  BY <1>2, FlowTimes
<1> HIDE DEF u
<1>4. \A i \in DOMAIN u : u[i] = f \/ (i \in DOMAIN s /\ u[i] = s[i])
  BY <1>1, <1>2, <1>3
<1>5. NotAfter(u, t)
  BY <1>4 DEF NotAfter
<1>6. ASSUME InOrder(s), NotAfter(s, f.last)
      PROVE  InOrder(u)
  <2>1. SUFFICES ASSUME NEW i \in DOMAIN u, NEW j \in DOMAIN u, i < j
                 PROVE  u[i].last <= u[j].last
    BY DEF InOrder
  <2>2. i \in DOMAIN s /\ u[i] = s[i]
    BY <1>1, <1>2, <1>3, <2>1
  <2>3. CASE j \in DOMAIN s
    BY <1>1, <1>2, <1>6, <2>1, <2>2, <2>3 DEF InOrder
  <2>4. CASE j \notin DOMAIN s
    <3>1. u[j] = f
      BY <1>1, <1>2, <1>3, <2>1, <2>4
    <3>2. QED  BY <1>6, <2>2, <3>1 DEF NotAfter
  <2>5. QED  BY <2>3, <2>4
<1>7. QED  BY <1>5, <1>6 DEF u

LEMMA RemoveOrder ==
  ASSUME NEW s \in Seq(FlowType), NEW i \in DOMAIN s, NEW t \in Nat
  PROVE  /\ NotAfter(s, t) => NotAfter(RemoveAt(s, i), t)
         /\ InOrder(s) => InOrder(RemoveAt(s, i))
<1> DEFINE u == RemoveAt(s, i)
<1>1. Len(s) \in Nat /\ DOMAIN s = 1 .. Len(s)
  BY FlowTimes
<1>2. /\ u \in Seq(FlowType) /\ Len(u) = Len(s) - 1
      /\ \A j \in 1 .. Len(u) : u[j] = IF j < i THEN s[j] ELSE s[j + 1]
  BY Removed
<1>3. DOMAIN u = 1 .. Len(s) - 1
  BY <1>2, FlowTimes
<1> HIDE DEF u
<1> DEFINE old(j) == IF j < i THEN j ELSE j + 1
<1>4. \A j \in DOMAIN u : old(j) \in DOMAIN s /\ u[j] = s[old(j)]
  BY <1>1, <1>2, <1>3
<1>5. \A j, k \in DOMAIN u : j < k => old(j) < old(k)
  BY <1>1, <1>3
<1> HIDE DEF old
<1>6. NotAfter(s, t) => NotAfter(u, t)
  BY <1>4 DEF NotAfter
<1>7. InOrder(s) => InOrder(u)
  BY <1>4, <1>5 DEF InOrder
<1>8. QED  BY <1>6, <1>7 DEF u

LEMMA EndsOrder ==
  ASSUME NEW s \in Seq(FlowType), s # <<>>, NEW t \in Nat, NotAfter(s, t)
  PROVE  /\ NotAfter(Front(s), t) /\ NotAfter(Tail(s), t)
         /\ Head(s).last <= t /\ Last(s).last <= t
         /\ InOrder(s) => /\ InOrder(Front(s)) /\ InOrder(Tail(s))
                          /\ NotAfter(Front(s), Last(s).last)
<1>1. /\ Len(s) \in Nat \ {0} /\ DOMAIN s = 1 .. Len(s)
      /\ \A i \in DOMAIN s : s[i].last \in Nat
  BY HeadAndTail, FlowTimes
<1>2. /\ DOMAIN Front(s) = 1 .. Len(s) - 1
      /\ \A j \in 1 .. Len(s) - 1 : Front(s)[j] = s[j]
  BY FrontAndLast, FlowTimes
<1>3. /\ DOMAIN Tail(s) = 1 .. Len(s) - 1
      /\ \A j \in 1 .. Len(s) - 1 : Tail(s)[j] = s[j + 1]
      /\ Head(s) = s[1]
  BY HeadAndTail, FlowTimes
<1>4. Last(s) = s[Len(s)]
  BY DEF Last
<1>5. NotAfter(Front(s), t) /\ NotAfter(Tail(s), t)
  BY <1>1, <1>2, <1>3 DEF NotAfter
<1>6. Head(s).last <= t /\ Last(s).last <= t
  BY <1>1, <1>3, <1>4 DEF NotAfter
<1>7. ASSUME InOrder(s)
      PROVE  /\ InOrder(Front(s)) /\ InOrder(Tail(s))
             /\ NotAfter(Front(s), Last(s).last)
  <2>1. InOrder(Front(s))
    <3>1. ASSUME NEW i \in DOMAIN Front(s), NEW j \in DOMAIN Front(s), i < j
          PROVE  Front(s)[i].last <= Front(s)[j].last
      <4>1. i \in DOMAIN s /\ j \in DOMAIN s
        BY <1>1, <1>2
      <4>2. s[i].last <= s[j].last
        BY <1>7, <3>1, <4>1 DEF InOrder
      <4>3. QED  BY <1>2, <4>2
    <3>2. QED  BY <3>1 DEF InOrder
  <2>2. InOrder(Tail(s))
    <3>1. ASSUME NEW i \in DOMAIN Tail(s), NEW j \in DOMAIN Tail(s), i < j
          PROVE  Tail(s)[i].last <= Tail(s)[j].last
      <4>1. i + 1 \in DOMAIN s /\ j + 1 \in DOMAIN s /\ i + 1 < j + 1
        BY <1>1, <1>3, <3>1
      <4>2. s[i + 1].last <= s[j + 1].last
        BY <1>7, <4>1 DEF InOrder
      <4>3. QED  BY <1>3, <4>2
    <3>2. QED  BY <3>1 DEF InOrder
  <2>3. NotAfter(Front(s), Last(s).last)
    <3>1. ASSUME NEW i \in DOMAIN Front(s)
          PROVE  Front(s)[i].last <= Last(s).last
      <4>1. i \in DOMAIN s /\ Len(s) \in DOMAIN s /\ i < Len(s) /\ Front(s)[i] = s[i]
        BY <1>1, <1>2
      <4>2. s[i].last <= s[Len(s)].last
        BY <1>7, <4>1 DEF InOrder
      <4>3. QED  BY <1>4, <4>1, <4>2
    <3>2. QED  BY <3>1 DEF NotAfter
  <2>4. QED  BY <2>1, <2>2, <2>3
<1>8. QED  BY <1>5, <1>6, <1>7

\* A step that leaves the cache alone, or a cache that is not in work.
LEMMA OrderKept ==
  ASSUME MInv, UNCHANGED cache, tick' \in Nat, tick <= tick',
         files' > 0 /\ ~failure' =>
            files > 0 /\ ~failure /\ (Headed("replace") <=> Headed("replace")')
  PROVE  CacheInOrder'
<1>1. /\ cache \in Seq(FlowType) /\ tick \in Nat /\ CacheInOrder
  BY FlowFacts DEF MInv, TypeOK
<1>2. \A i \in DOMAIN cache : cache[i].last \in Nat
  BY <1>1, FlowTimes
<1>3. \A i \in DOMAIN cache' : cache'[i].last <= tick'
  BY <1>1, <1>2 DEF CacheInOrder
<1>4. files' > 0 /\ ~failure' =>
        InOrder(IF Headed("replace")' THEN Front(cache') ELSE cache')
  BY <1>1 DEF CacheInOrder
<1>5. QED  BY <1>3, <1>4 DEF CacheInOrder

LEMMA OrderStep ==
  ASSUME MInv, [Next]_vars
  PROVE  CacheInOrder'
<1>0. /\ cache \in Seq(FlowType) /\ tick \in Nat /\ files \in Nat /\ failure \in BOOLEAN
      /\ FlowInv /\ CacheInOrder /\ NotAfter(cache, tick)
      /\ pc = "replace" => Headed("replace")
  <2>1. tick \in Nat /\ files \in Nat /\ failure \in BOOLEAN
    BY MeterAssumption DEF MInv, TypeOK
  <2>2. FlowInv /\ CacheInOrder /\ NotAfter(cache, tick)
    BY DEF MInv, CacheInOrder, NotAfter
  <2>3. QED  BY <2>1, <2>2, FlowFacts DEF Headed
<1>A. ASSUME UNCHANGED <<cache, tick, files>>, failure' \/ (failure' = failure),
             failure' \/ (Headed("replace") <=> Headed("replace")')
      PROVE  CacheInOrder'
  BY <1>0, <1>A, OrderKept
<1> USE DEF OnUpdate, Goto, Reap, Flush, Fail,
            controlVars, timeVars, packetVars, flowVars, loopVars, sendVars
<1>1. CASE UNCHANGED vars
  BY <1>A, <1>1 DEF vars, Headed
<1>2. CASE Open \/ OpenFails \/ End
  <2>1. UNCHANGED <<cache, tick, files>> /\ (failure' \/ UNCHANGED failure)
    BY <1>2 DEF Open, OpenFails, End
  <2>2. ~Headed("replace") /\ ~Headed("replace")'
    BY <1>2 DEF Open, OpenFails, End, Headed
  <2>3. QED  BY <1>A, <2>1, <2>2
<1>3. CASE EndOfCapture
  <2>1. files' > 0 => files > 0
    BY <1>0, <1>3 DEF EndOfCapture
  <2>2. QED  BY <1>0, <1>3, <2>1, OrderKept DEF EndOfCapture, Headed
<1>4. ASSUME NEW t \in Times, Ticker(t)
      PROVE  CacheInOrder'
  <2>1. tick' \in Nat /\ tick <= tick'
    BY <1>0, <1>4, MeterAssumption DEF Ticker
  <2>2. QED  BY <1>0, <1>4, <2>1, OrderKept DEF Ticker, Headed
<1>5. ASSUME NEW t \in Times, NEW k \in Keys, NEW d \in {0, 1}, Packet(k, t, d)
      PROVE  CacheInOrder'
  <2>1. tick' \in Nat /\ tick <= tick'
    BY <1>0, <1>5, MeterAssumption DEF Packet, Larger
  <2>2. /\ UNCHANGED <<cache, files, failure>>
        /\ ~Headed("replace") /\ ~Headed("replace")'
    BY <1>5 DEF Packet, Headed
  <2>3. QED  BY <2>1, <2>2, OrderKept
<1>6. CASE CreateFails \/ Consumed
  BY <1>A, <1>6 DEF CreateFails, Consumed, Headed
<1>7. CASE SendSnapshot \/ SkipSnapshot \/ SendFails
  BY <1>A, <1>7 DEF SendSnapshot, SkipSnapshot, SendFails, Headed
<1>8. CASE Check
  <2>1. CASE ReapNext \/ ReapEnds \/ FlushReturns
    BY <1>A, <2>1 DEF ReapNext, ReapEnds, FlushReturns, Headed
  <2>2. CASE ReapRaises \/ ReapTimesOut \/ FlushTimesOut
    BY <1>A, <2>2 DEF ReapRaises, ReapTimesOut, FlushTimesOut, Headed
  <2>3. QED  BY <1>8, <2>1, <2>2 DEF Check
<1>9. ASSUME NEW i \in DOMAIN answer, NEW a, Answer(i, a)
      PROVE  CacheInOrder'
  BY <1>A, <1>9 DEF Answer, Headed
<1>10. CASE ScanIdle \/ ScanEnds \/ CleanPut \/ CleanupEnds
  BY <1>A, <1>10 DEF ScanIdle, ScanEnds, CleanPut, CleanupEnds, Headed
<1>11. CASE Create
  <2>1. NewFlow \in FlowType /\ packet.time = tick
    BY <1>0, <1>11, FlowFacts DEF Create, Headed, FlowInv
  <2>2. NewFlow.last = tick
    BY <2>1 DEF NewFlow, OnInit
  <2>3. ~Headed("replace") /\ ~Headed("replace")'
    BY <1>11 DEF Create, Headed
  <2>4. UNCHANGED <<tick, files, failure>> /\ cache' = Append(cache, NewFlow)
    BY <1>11 DEF Create
  <2>5. NotAfter(cache', tick) /\ (InOrder(cache) => InOrder(cache'))
    BY <1>0, <2>1, <2>2, <2>4, AppendOrder
  <2>6. QED  BY <1>0, <2>3, <2>4, <2>5 DEF CacheInOrder, NotAfter
<1>12. ASSUME NEW i \in DOMAIN cache, Cut(i)
       PROVE  CacheInOrder'
  <2>1. cache[i] \in FlowType /\ cache[i].last <= tick
    BY <1>0, FlowTimes DEF NotAfter
  <2>2. RemoveAt(cache, i) \in Seq(FlowType) /\ NotAfter(RemoveAt(cache, i), tick)
    BY <1>0, Removed, RemoveOrder
  <2>3. NotAfter(cache', tick)
    BY <1>0, <1>12, <2>1, <2>2, AppendOrder DEF Cut, MovedToEnd
  <2>4. Front(cache') = RemoveAt(cache, i)
    BY <1>12, <2>1, <2>2, FrontOfAppend DEF Cut, MovedToEnd
  <2>5. ~Headed("replace") /\ Headed("replace")' /\ UNCHANGED <<tick, files, failure>>
    BY <1>12 DEF Cut, Headed
  <2>6. InOrder(cache) => InOrder(RemoveAt(cache, i))
    BY <1>0, RemoveOrder
  <2>7. QED  BY <1>0, <2>3, <2>4, <2>5, <2>6 DEF CacheInOrder, NotAfter
<1>13. ASSUME NEW i \in DOMAIN cache, Update(i)
       PROVE  CacheInOrder'
  <2>1. /\ cache[i] \in FlowType /\ Updated(cache[i]) \in FlowType
        /\ packet.time = tick
    BY <1>0, <1>13, FlowFacts, FlowTimes DEF Update, Headed, FlowInv
  <2>2. Updated(cache[i]).last = tick
    BY <2>1 DEF Updated, PacketsWithData, FlowType
  <2>3. RemoveAt(cache, i) \in Seq(FlowType) /\ NotAfter(RemoveAt(cache, i), tick)
    BY <1>0, Removed, RemoveOrder
  <2>4. InOrder(cache) => InOrder(RemoveAt(cache, i))
    BY <1>0, RemoveOrder
  <2>5. ~Headed("replace") /\ ~Headed("replace")' /\ UNCHANGED <<tick, files, failure>>
    BY <1>13 DEF Update, Headed
  <2>6. cache' = Append(RemoveAt(cache, i), Updated(cache[i]))
    BY <1>13 DEF Update, MovedToEnd
  <2>7. NotAfter(cache', tick) /\ (InOrder(cache) => InOrder(cache'))
    BY <1>0, <2>1, <2>2, <2>3, <2>4, <2>6, AppendOrder
  <2>8. QED  BY <1>0, <2>5, <2>7 DEF CacheInOrder, NotAfter
<1>14. CASE Replace \/ ReplaceFails
  <2>1. /\ cache # <<>> /\ NewFlow \in FlowType /\ packet.time = tick
        /\ UNCHANGED <<tick, files, failure>>
        /\ Headed("replace") /\ ~Headed("replace")'
    BY <1>0, <1>14, FlowFacts DEF Replace, ReplaceFails, FlowInv, Headed
  <2>2. NewFlow.last = tick
    BY <2>1 DEF NewFlow, OnInit
  <2>3. Front(cache) \in Seq(FlowType) /\ NotAfter(Front(cache), tick)
    BY <1>0, <2>1, FrontAndLast, EndsOrder
  <2>4. /\ NotAfter(Append(Front(cache), NewFlow), tick)
        /\ InOrder(Front(cache)) => InOrder(Append(Front(cache), NewFlow))
    BY <1>0, <2>1, <2>2, <2>3, AppendOrder
  <2>5. cache' \in {Front(cache), Append(Front(cache), NewFlow)}
    BY <1>14 DEF Replace, ReplaceFails
  <2>6. QED  BY <1>0, <2>1, <2>3, <2>4, <2>5 DEF CacheInOrder, NotAfter
<1>15. CASE NextInterval
  <2>1. /\ cache # <<>> /\ UNCHANGED <<tick, files, failure>>
        /\ ~Headed("replace") /\ ~Headed("replace")'
    BY <1>0, <1>15 DEF NextInterval, FlowInv, Headed
  <2>2. PICK f \in FlowType : f.last = Last(cache).last /\ cache' = Append(Front(cache), f)
    <3>1. Last(cache) \in FlowType
      BY <1>0, <2>1, FrontAndLast
    <3>2. QED  BY <1>15, <3>1, FlowFacts DEF NextInterval, FlowType
  <2>3. /\ Front(cache) \in Seq(FlowType) /\ NotAfter(Front(cache), tick) /\ f.last <= tick
        /\ InOrder(cache) => InOrder(Front(cache)) /\ NotAfter(Front(cache), f.last)
    BY <1>0, <2>1, <2>2, FrontAndLast, EndsOrder
  <2>4. NotAfter(cache', tick) /\ (InOrder(cache) => InOrder(cache'))
    BY <1>0, <2>2, <2>3, AppendOrder
  <2>5. QED  BY <1>0, <2>1, <2>4 DEF CacheInOrder, NotAfter
<1>16. CASE ScanPut
  <2>1. /\ cache # <<>> /\ UNCHANGED <<tick, files, failure>> /\ cache' = Tail(cache)
        /\ ~Headed("replace") /\ ~Headed("replace")'
    BY <1>0, <1>16 DEF ScanPut, FlowInv, Headed
  <2>2. NotAfter(cache', tick) /\ (InOrder(cache) => InOrder(cache'))
    BY <1>0, <2>1, EndsOrder
  <2>3. QED  BY <1>0, <2>1, <2>2 DEF CacheInOrder, NotAfter
<1>17. CASE CleanupNext \/ Delete
  <2>1. cache # <<>> /\ files = 0 /\ UNCHANGED <<tick, files>>
    BY <1>0, <1>17 DEF CleanupNext, Delete, FlowInv, Headed, MInv, ControlInv
  <2>2. /\ Front(cache) \in Seq(FlowType) /\ NotAfter(Front(cache), tick)
        /\ Tail(cache) \in Seq(FlowType) /\ NotAfter(Tail(cache), tick)
        /\ Head(cache) \in FlowType /\ Head(cache).last <= tick
    BY <1>0, <2>1, FrontAndLast, HeadAndTail, EndsOrder
  <2>3. NotAfter(Append(Tail(cache), Head(cache)), tick)
    BY <1>0, <2>2, AppendOrder
  <2>4. NotAfter(cache', tick)
    BY <1>17, <2>2, <2>3 DEF CleanupNext, Delete
  <2>5. QED  BY <2>1, <2>4 DEF CacheInOrder, NotAfter
<1>18. QED
  BY <1>1, <1>2, <1>3, <1>4, <1>5, <1>6, <1>7, <1>8, <1>9, <1>10, <1>11, <1>12, <1>13,
     <1>14, <1>15, <1>16, <1>17
  DEF Next, Step, Consume, Publish, Expire

-----------------------------------------------------------------------------
(* The theorems.                                                           *)

LEMMA MInit == Init => MInv
<1> SUFFICES ASSUME Init
             PROVE  MInv
  OBVIOUS
<1>1. /\ \A S : <<>> \in Seq(S)
      /\ Len(<<>>) = 0
      /\ Sources \in Nat \ {0} /\ MaxPending \in Nat \ {0}
  BY MeterAssumption, EmptySeq
<1>2. TypeOK
  <2>1. ScalarsOK
    <3>1. /\ pc \in Places /\ then \in Places /\ files \in 0 .. Sources
          /\ tick \in Nat /\ scanTick \in Nat /\ processed \in Nat /\ lost \in Nat
          /\ scanned \in Nat /\ cleaned \in Nat
      BY <1>1 DEF Init, Places
    <3>2. packet \in [key: Keys \union {NoPacket.key}, time: Nat, data: {0, 1}]
      BY DEF Init, NoPacket
    <3>3. /\ drain \in BOOLEAN /\ failure \in BOOLEAN
          /\ goScan \in BOOLEAN /\ counted \in BOOLEAN
      BY DEF Init
    <3>4. QED  BY <3>1, <3>2, <3>3 DEF ScalarsOK
  <2>2. /\ cache \in Seq(FlowType) /\ channel \in Seq(FlowType)
        /\ sends \in Seq(SnapshotType) /\ answer \in Seq(Answers)
        /\ Len(answer) = Len(sends) /\ reaped \in Nat /\ reaped <= Len(sends)
    BY <1>1 DEF Init
  <2>3. QED  BY <2>1, <2>2 DEF TypeOK, ScalarsOK, SnapshotType, Answers
<1>3. ControlInv /\ FlowInv
  BY <1>1 DEF Init, ControlInv, FlowInv, Headed
<1>4. SendsInv
  BY <1>1 DEF Init, SendsInv, Pending
<1>5. CacheInOrder
  BY <1>1 DEF Init, CacheInOrder, InOrder, Headed
<1>6. QED  BY <1>2, <1>3, <1>4, <1>5 DEF MInv

\* Every reachable state of a meter satisfies the inductive invariant: no
\* order of packets, answers of the broker and failures of the engine leads
\* meter_workflow() out of it.
THEOREM Inductive == Spec => []MInv
<1>1. MInv /\ [Next]_vars => MInv'
  BY TypeStep, ControlStep, SendsStep, FlowStep, OrderStep DEF MInv
<1>2. QED  BY <1>1, MInit, PTL DEF Spec

\* The variables keep their types.
THEOREM TypeCorrect == Spec => []TypeOK
<1>1. MInv => TypeOK
  BY DEF MInv
<1>2. QED  BY <1>1, Inductive, PTL

\* meter_scan() may stop at the first flow that is not idle: the cache is in
\* the order of the last packets whenever it runs, so that no idle flow is
\* behind that one, whatever the times of the packets in the capture are.
THEOREM ScanIsComplete == Spec => []ScanMissesNothing
<1>1. ASSUME MInv
      PROVE  ScanMissesNothing
  <2>1. SUFFICES ASSUME pc = "scan", ~HeadIsIdle, NEW i \in DOMAIN cache
                 PROVE  ~IsIdle(cache[i])
    BY DEF ScanMissesNothing
  <2>2. /\ cache \in Seq(FlowType) /\ tick \in Nat /\ IdleTimeout \in Nat
        /\ files \in Nat /\ ControlInv /\ CacheInOrder
    <3>1. tick \in Nat /\ IdleTimeout \in Nat /\ files \in Nat
      BY <1>1, MeterAssumption DEF MInv, TypeOK
    <3>2. cache \in Seq(FlowType) /\ ControlInv /\ CacheInOrder
      BY <1>1, FlowFacts DEF MInv
    <3>3. QED  BY <3>1, <3>2
  <2>3. /\ Len(cache) \in Nat /\ i \in 1 .. Len(cache) /\ DOMAIN cache = 1 .. Len(cache)
        /\ \A j \in DOMAIN cache : cache[j].last \in Nat
    BY <2>1, <2>2, FlowTimes
  <2>4. cache # <<>> /\ Head(cache) = cache[1] /\ 1 \in DOMAIN cache
    <3>1. 1 \in DOMAIN cache /\ Len(cache) # 0
      BY <2>3
    <3>2. cache # <<>>
      BY <3>1, EmptySeq
    <3>3. QED  BY <2>2, <3>1, <3>2, HeadAndTail
  <2>5. InOrder(cache)
    <3>1. files > 0 /\ ~failure /\ ~Headed("replace")
      BY <2>1, <2>2 DEF ControlInv, Headed
    <3>2. QED  BY <2>2, <3>1 DEF CacheInOrder
  <2>6. cache[1].last <= cache[i].last
    BY <2>3, <2>4, <2>5 DEF InOrder
  <2>7. ~(tick - IdleTimeout >= cache[1].last)
    BY <2>1, <2>4 DEF HeadIsIdle, IsIdle
  <2>8. QED  BY <2>2, <2>3, <2>4, <2>6, <2>7 DEF IsIdle
<1>2. QED  BY <1>1, Inductive, PTL

\* _pending_sends holds at most max_pending_sends sends, and fewer whenever
\* the meter reads the next packet, however slow the broker answers; and
\* close_meter_producer() leaves none unchecked: a meter that ends without an
\* error has seen the broker store every one of its snapshots.
THEOREM NoSendEscapes == Spec => []SendsAreChecked
<1>1. ASSUME MInv
      PROVE  SendsAreChecked
  <2>1. /\ Pending \in Nat /\ MaxPending \in Nat /\ SendsInv /\ ControlInv
        /\ reaped \in Nat /\ Len(sends) \in Nat /\ DOMAIN answer = 1 .. Len(sends)
    BY <1>1, SendsFacts DEF MInv
  <2>2. pc = "capture" => ~failure
    BY <2>1 DEF ControlInv, Headed
  <2>3. Pending <= MaxPending /\ (pc = "capture" => Pending < MaxPending)
    BY <2>1, <2>2 DEF SendsInv
  <2>4. ASSUME pc = "ended", ~failure, NEW i \in DOMAIN answer
        PROVE  answer[i] = "stored"
    <3>1. reaped = Len(sends)
      BY <2>1, <2>4 DEF SendsInv, Pending
    <3>2. QED  BY <2>1, <2>4, <3>1 DEF SendsInv
  <2>5. QED  BY <2>3, <2>4 DEF SendsAreChecked
<1>2. QED  BY <1>1, Inductive, PTL

-----------------------------------------------------------------------------
(* The flows in a sequence, and their keys.                                *)

LEMMA SetOfAppend ==
  ASSUME NEW S, NEW s \in Seq(S), NEW f \in S
  PROVE  /\ ToSet(s) \subseteq S
         /\ ToSet(Append(s, f)) = ToSet(s) \union {f}
<1> DEFINE t == Append(s, f)
<1>1. /\ Len(s) \in Nat /\ DOMAIN s = 1 .. Len(s) /\ DOMAIN t = 1 .. Len(s) + 1
      /\ \A j \in 1 .. Len(s) : t[j] = s[j] /\ s[j] \in S
      /\ t[Len(s) + 1] = f
  BY AppendProperties, LenProperties, ElementOfSeq
<1> HIDE DEF t
<1>2. ToSet(s) \subseteq S
  BY <1>1 DEF ToSet
<1>3. \A j \in DOMAIN t : t[j] \in ToSet(s) \union {f}
  BY <1>1 DEF ToSet
<1>4. \A j \in DOMAIN s : s[j] \in ToSet(t)
  BY <1>1 DEF ToSet
<1>5. f \in ToSet(t)
  BY <1>1 DEF ToSet
<1>6. ToSet(t) = ToSet(s) \union {f}
  BY <1>3, <1>4, <1>5 DEF ToSet
<1>7. QED  BY <1>2, <1>6 DEF t

LEMMA SetOfRemove ==
  ASSUME NEW S, NEW s \in Seq(S), NEW i \in DOMAIN s
  PROVE  ToSet(s) = ToSet(RemoveAt(s, i)) \union {s[i]} /\ s[i] \in S
<1> DEFINE t == RemoveAt(s, i)
<1>1. Len(s) \in Nat /\ DOMAIN s = 1 .. Len(s) /\ s[i] \in S
  BY LenProperties, ElementOfSeq
<1>2. /\ t \in Seq(S) /\ Len(t) = Len(s) - 1
      /\ \A j \in 1 .. Len(t) : t[j] = IF j < i THEN s[j] ELSE s[j + 1]
  BY Removed
<1>3. DOMAIN t = 1 .. Len(s) - 1
  BY <1>2, LenProperties
<1> HIDE DEF t
<1>4. \A j \in DOMAIN t : t[j] \in ToSet(s)
  <2>1. ASSUME NEW j \in DOMAIN t
        PROVE  j \in DOMAIN s /\ j + 1 \in DOMAIN s /\ (t[j] = s[j] \/ t[j] = s[j + 1])
    BY <1>1, <1>2, <1>3
  <2>2. QED  BY <2>1 DEF ToSet
<1>5. \A j \in DOMAIN s : s[j] \in ToSet(t) \union {s[i]}
  <2>1. ASSUME NEW j \in DOMAIN s, j < i
        PROVE  s[j] \in ToSet(t)
    <3>1. j \in DOMAIN t /\ t[j] = s[j]
      BY <1>1, <1>2, <1>3, <2>1
    <3>2. QED  BY <3>1 DEF ToSet
  <2>2. ASSUME NEW j \in DOMAIN s, j > i
        PROVE  s[j] \in ToSet(t)
    <3>1. j - 1 \in DOMAIN t /\ ~(j - 1 < i) /\ j - 1 + 1 = j
      BY <1>1, <1>3, <2>2
    <3>2. t[j - 1] = s[j]
      BY <1>2, <1>3, <3>1
    <3>3. QED  BY <3>1, <3>2 DEF ToSet
  <2>3. QED  BY <1>1, <2>1, <2>2
<1>6. s[i] \in ToSet(s)
  BY DEF ToSet
<1>7. ToSet(s) = ToSet(t) \union {s[i]}
  BY <1>4, <1>5, <1>6 DEF ToSet
<1>8. QED  BY <1>1, <1>7 DEF t

LEMMA SetOfEnds ==
  ASSUME NEW S, NEW s \in Seq(S), s # <<>>
  PROVE  /\ ToSet(s) = ToSet(Front(s)) \union {Last(s)}
         /\ ToSet(s) = ToSet(Tail(s)) \union {Head(s)}
<1>1. /\ Len(s) \in Nat \ {0} /\ DOMAIN s = 1 .. Len(s)
      /\ Head(s) = s[1] /\ Last(s) = s[Len(s)]
  BY HeadAndTail, LenProperties DEF Last
<1>2. /\ DOMAIN Front(s) = 1 .. Len(s) - 1
      /\ \A j \in 1 .. Len(s) - 1 : Front(s)[j] = s[j]
  BY FrontAndLast, LenProperties
<1>3. /\ DOMAIN Tail(s) = 1 .. Len(s) - 1
      /\ \A j \in 1 .. Len(s) - 1 : Tail(s)[j] = s[j + 1]
  BY HeadAndTail, LenProperties
<1>4. ToSet(s) = ToSet(Front(s)) \union {Last(s)}
  <2>1. \A j \in DOMAIN s : j \in DOMAIN Front(s) \/ j = Len(s)
    BY <1>1, <1>2
  <2>2. \A j \in DOMAIN Front(s) : j \in DOMAIN s /\ Front(s)[j] = s[j]
    BY <1>1, <1>2
  <2>3. Len(s) \in DOMAIN s
    BY <1>1
  <2>4. \A j \in DOMAIN s : s[j] \in ToSet(Front(s)) \union {Last(s)}
    BY <1>1, <2>1, <2>2 DEF ToSet
  <2>5. \A j \in DOMAIN Front(s) : Front(s)[j] \in ToSet(s)
    BY <2>2 DEF ToSet
  <2>6. Last(s) \in ToSet(s)
    BY <1>1, <2>3 DEF ToSet
  <2>7. QED  BY <2>4, <2>5, <2>6 DEF ToSet
<1>5. ToSet(s) = ToSet(Tail(s)) \union {Head(s)}
  <2>1. ASSUME NEW j \in DOMAIN s, j # 1
        PROVE  s[j] \in ToSet(Tail(s))
    <3>1. j - 1 \in DOMAIN Tail(s) /\ j - 1 + 1 = j
      BY <1>1, <1>3, <2>1
    <3>2. Tail(s)[j - 1] = s[j]
      BY <1>3, <3>1
    <3>3. QED  BY <3>1, <3>2 DEF ToSet
  <2>2. \A j \in DOMAIN s : s[j] \in ToSet(Tail(s)) \union {Head(s)}
    BY <1>1, <2>1
  <2>3. ASSUME NEW j \in DOMAIN Tail(s)
        PROVE  Tail(s)[j] \in ToSet(s)
    <3>1. j + 1 \in DOMAIN s /\ Tail(s)[j] = s[j + 1]
      BY <1>1, <1>3
    <3>2. QED  BY <3>1 DEF ToSet
  <2>4. Head(s) \in ToSet(s)
    BY <1>1 DEF ToSet
  <2>5. QED  BY <2>2, <2>3, <2>4 DEF ToSet
<1>6. QED  BY <1>4, <1>5

LEMMA KeysOfAppend ==
  ASSUME NEW s \in Seq(FlowType), NEW f \in FlowType, DistinctKeys(s),
         \A g \in ToSet(s) : g.key # f.key
  PROVE  DistinctKeys(Append(s, f))
<1> DEFINE t == Append(s, f)
<1>1. /\ Len(s) \in Nat /\ DOMAIN s = 1 .. Len(s) /\ DOMAIN t = 1 .. Len(s) + 1
      /\ \A j \in 1 .. Len(s) : t[j] = s[j]
      /\ t[Len(s) + 1] = f
  BY AppendProperties, LenProperties
<1> HIDE DEF t
<1>2. \A j \in DOMAIN t : j = Len(s) + 1 \/ (j \in DOMAIN s /\ t[j] = s[j] /\ s[j].key # f.key)
  BY <1>1 DEF ToSet
<1>3. DistinctKeys(t)
  BY <1>1, <1>2 DEF DistinctKeys
<1>4. QED  BY <1>3 DEF t

LEMMA KeysOfRemove ==
  ASSUME NEW s \in Seq(FlowType), NEW i \in DOMAIN s, DistinctKeys(s)
  PROVE  /\ DistinctKeys(RemoveAt(s, i))
         /\ \A g \in ToSet(RemoveAt(s, i)) : g.key # s[i].key
<1> DEFINE t == RemoveAt(s, i)
           old(j) == IF j < i THEN j ELSE j + 1
<1>1. Len(s) \in Nat /\ DOMAIN s = 1 .. Len(s)
  BY LenProperties
<1>2. /\ t \in Seq(FlowType) /\ Len(t) = Len(s) - 1
      /\ \A j \in 1 .. Len(t) : t[j] = IF j < i THEN s[j] ELSE s[j + 1]
  BY Removed
<1>3. DOMAIN t = 1 .. Len(s) - 1
  BY <1>2, LenProperties
<1> HIDE DEF t
<1>4. \A j \in DOMAIN t : old(j) \in DOMAIN s /\ t[j] = s[old(j)] /\ old(j) # i
  BY <1>1, <1>2, <1>3
<1>5. \A j, k \in DOMAIN t : old(j) = old(k) => j = k
  BY <1>1, <1>3
<1> HIDE DEF old
<1>6. DistinctKeys(t)
  BY <1>4, <1>5 DEF DistinctKeys
<1>7. \A j \in DOMAIN t : t[j].key # s[i].key
  BY <1>4 DEF DistinctKeys
<1>8. QED  BY <1>6, <1>7 DEF ToSet, t

LEMMA KeysOfEnds ==
  ASSUME NEW s \in Seq(FlowType), s # <<>>, DistinctKeys(s)
  PROVE  /\ DistinctKeys(Front(s)) /\ \A g \in ToSet(Front(s)) : g.key # Last(s).key
         /\ DistinctKeys(Tail(s)) /\ \A g \in ToSet(Tail(s)) : g.key # Head(s).key
<1>1. /\ Len(s) \in Nat \ {0} /\ DOMAIN s = 1 .. Len(s)
      /\ Head(s) = s[1] /\ Last(s) = s[Len(s)]
  BY HeadAndTail, LenProperties DEF Last
<1>2. /\ DOMAIN Front(s) = 1 .. Len(s) - 1
      /\ \A j \in 1 .. Len(s) - 1 : Front(s)[j] = s[j]
  BY FrontAndLast, LenProperties
<1>3. /\ DOMAIN Tail(s) = 1 .. Len(s) - 1
      /\ \A j \in 1 .. Len(s) - 1 : Tail(s)[j] = s[j + 1]
  BY HeadAndTail, LenProperties
<1>4. \A j \in DOMAIN Front(s) : j \in DOMAIN s /\ Front(s)[j] = s[j] /\ j # Len(s)
  BY <1>1, <1>2
<1>5. \A j \in DOMAIN Tail(s) : j + 1 \in DOMAIN s /\ Tail(s)[j] = s[j + 1] /\ j + 1 # 1
  BY <1>1, <1>3
<1>6. DistinctKeys(Front(s))
  BY <1>4 DEF DistinctKeys
<1>7. DistinctKeys(Tail(s))
  <2>1. \A j, k \in DOMAIN Tail(s) : j + 1 = k + 1 => j = k
    BY <1>1, <1>3
  <2>2. QED  BY <1>5, <2>1 DEF DistinctKeys
<1>8. Len(s) \in DOMAIN s /\ 1 \in DOMAIN s
  BY <1>1
<1>9. \A j \in DOMAIN Front(s) : Front(s)[j].key # Last(s).key
  BY <1>1, <1>4, <1>8 DEF DistinctKeys
<1>10. \A j \in DOMAIN Tail(s) : Tail(s)[j].key # Head(s).key
  BY <1>1, <1>5, <1>8 DEF DistinctKeys
<1>11. QED  BY <1>6, <1>7, <1>9, <1>10 DEF ToSet

-----------------------------------------------------------------------------
(* The snapshots of a flow.                                                *)

LEMMA HistoryFacts ==
  ASSUME HInv
  PROVE  /\ cache \in Seq(FlowType) /\ ToSet(cache) \subseteq FlowType
         /\ \A f \in FlowType : {f.first, f.last, f.data, f.start, f.end} \subseteq Nat
         /\ \A f \in ToSet(cache) : f.last <= tick
         /\ \A s \in ToSet(sends) : {s.first, s.data, s.start, s.end} \subseteq Nat
         /\ tick \in Nat /\ packet.time \in Nat /\ packet.data \in {0, 1} /\ Interval \in Nat
         /\ {IdleTimeout, ActiveTimeout} \subseteq Nat \ {0}
         /\ \A p \in {"open", "capture", "consume", "replace", "snapshot", "interval", "scan", "scanPut",
                      "cleanup", "cleanPut", "delete"} : pc = p => ~failure
<1> USE DEF HInv
<1>1. /\ cache \in Seq(FlowType) /\ tick \in Nat /\ packet.time \in Nat /\ packet.data \in {0, 1}
      /\ Interval \in Nat /\ {IdleTimeout, ActiveTimeout} \subseteq Nat \ {0}
  BY MeterAssumption DEF MInv, TypeOK
<1>2. ToSet(cache) \subseteq FlowType
  BY <1>1, ElementOfSeq, LenProperties DEF ToSet
<1>3. \A f \in FlowType : {f.first, f.last, f.data, f.start, f.end} \subseteq Nat
  BY DEF FlowType
<1>4. \A f \in ToSet(cache) : f.last <= tick
  BY DEF MInv, CacheInOrder, ToSet
<1>5. ASSUME NEW s \in ToSet(sends)
      PROVE  {s.first, s.data, s.start, s.end} \subseteq Nat
  <2>1. sends \in Seq(SnapshotType)
    BY DEF MInv, TypeOK, SnapshotType
  <2>2. \A i \in DOMAIN sends : sends[i] \in SnapshotType
    BY <2>1, ElementOfSeq, LenProperties
  <2>3. s \in SnapshotType
    BY <2>2 DEF ToSet
  <2>4. QED  BY <2>3 DEF SnapshotType
<1>6. \A p \in {"open", "capture", "consume", "replace", "snapshot", "interval", "scan", "scanPut",
                "cleanup", "cleanPut", "delete"} : pc = p => ~failure
  BY DEF MInv, ControlInv, Headed
<1>7. QED  BY <1>1, <1>2, <1>3, <1>4, <1>5, <1>6

\* A step that leaves the flows and the sends alone.
LEMMA QuietHistory ==
  ASSUME HInv, UNCHANGED <<cache, sends>>, tick' \in Nat, tick <= tick',
         \/ failure'
         \/ /\ ~failure /\ (files' > 0 => files > 0) /\ pc' # "snapshot"
            /\ Headed("interval")' <=> Headed("interval")
            /\ Headed("interval") => packet' = packet
            /\ Headed("replace")' => Headed("replace") /\ packet' = packet
            /\ Headed("scanPut")' => tick' = tick /\ IsIdle(Head(cache))
  PROVE  SnapshotsAdvance' /\ (failure' \/ History')
<1>1. SnapshotsAdvance'
  BY DEF HInv, SnapshotsAdvance
<1>2. ASSUME ~failure'
      PROVE  History'
  <2>1. /\ History /\ (files' > 0 => files > 0) /\ pc' # "snapshot"
        /\ Headed("interval")' <=> Headed("interval")
        /\ Headed("interval") => packet' = packet
        /\ Headed("replace")' => Headed("replace") /\ packet' = packet
        /\ Headed("scanPut")' => tick' = tick /\ IsIdle(Head(cache))
    BY <1>2 DEF HInv
  <2>2. DistinctKeys(cache') /\ FlowsGrow'
    BY <2>1 DEF History, FlowsGrow
  <2>3. SentIsBehind'
    <3>1. CASE Headed("interval")
      <4>1. Renewed' = Renewed
        BY <2>1, <3>1 DEF Renewed
      <4>2. QED  BY <2>1, <3>1, <4>1 DEF History, SentIsBehind
    <3>2. CASE ~Headed("interval")
      BY <2>1, <3>2 DEF History, SentIsBehind
    <3>3. QED  BY <3>1, <3>2
  <2>4. GoneIsPast'
    <3>1. \A s \in ToSet(sends) : s.first < tick => s.first < tick'
      BY HistoryFacts
    <3>2. QED  BY <2>1, <3>1 DEF History, GoneIsPast
  <2>5. FlowInWork'
    <3>1. Headed("replace")' => Last(cache).key = packet'.key /\ Last(cache).first < packet'.time
      BY <2>1 DEF History, FlowInWork
    <3>2. Headed("scanPut")' => IsIdle(Head(cache))'
      BY <2>1 DEF IsIdle
    <3>3. QED  BY <2>1, <3>1, <3>2 DEF FlowInWork
  <2>6. QED  BY <2>2, <2>3, <2>4, <2>5 DEF History
<1>3. QED  BY <1>1, <1>2

\* A step that changes the flows, when none of them is in work afterwards but
\* by Cut and Update.
LEMMA ChangedHistory ==
  ASSUME HInv, sends' = sends, ~Headed("interval")', ~Headed("scanPut")',
         DistinctKeys(cache'), FlowsGrow',
         \A s \in ToSet(sends) : \A f \in ToSet(cache') : Behind(s, f),
         GoneIsPast',
         pc' = "snapshot" => Last(cache').end < packet'.time,
         Headed("replace")' => Last(cache').key = packet'.key /\ Last(cache').first < packet'.time
  PROVE  SnapshotsAdvance' /\ History'
<1>1. SnapshotsAdvance'
  BY DEF HInv, SnapshotsAdvance
<1>2. SentIsBehind'
  BY DEF SentIsBehind
<1>3. FlowInWork'
  BY DEF FlowInWork
<1>4. QED  BY <1>1, <1>2, <1>3 DEF History

LEMMA NewFlowFacts ==
  /\ NewFlow.key = packet.key /\ NewFlow.first = packet.time /\ NewFlow.last = packet.time
  /\ NewFlow.start = packet.time /\ NewFlow.end = packet.time + Interval /\ NewFlow.packets = 1
BY DEF NewFlow, OnInit

LEMMA CreateHistory ==
  ASSUME HInv, Create
  PROVE  SnapshotsAdvance' /\ History'
<1>1. /\ pc = "consume" /\ Miss /\ cache' = Append(cache, NewFlow) /\ pc' = "consumed"
      /\ UNCHANGED <<failure, files, tick, sends>>
  BY DEF Create, Goto, timeVars, sendVars
<1>2. History /\ packet.time = tick /\ NewFlow \in FlowType
  BY <1>1, HistoryFacts, FlowFacts DEF HInv, MInv, FlowInv, Headed
<1>3. ToSet(cache') = ToSet(cache) \union {NewFlow}
  BY <1>1, <1>2, HistoryFacts, SetOfAppend
<1>4. \A g \in ToSet(cache) : g.key # packet.key
  BY <1>1 DEF Miss, HasFlow, ToSet
<1>5. DistinctKeys(cache')
  BY <1>1, <1>2, <1>4, HistoryFacts, KeysOfAppend, NewFlowFacts DEF History
<1>6. FlowsGrow'
  <2>1. NewFlow.first <= NewFlow.last /\ NewFlow.start <= NewFlow.end
    BY HistoryFacts, NewFlowFacts
  <2>2. QED  BY <1>2, <1>3, <2>1 DEF History, FlowsGrow
<1>7. ~Headed("interval")
  BY <1>1 DEF Headed
<1>8. ASSUME NEW s \in ToSet(sends), NEW f \in ToSet(cache')
      PROVE  Behind(s, f)
  <2>1. CASE f \in ToSet(cache)
    BY <1>2, <1>7, <2>1 DEF History, SentIsBehind
  <2>2. CASE f = NewFlow /\ s.key = packet.key
    <3>1. files > 0
      BY <1>1, MeterAssumption DEF HInv, MInv, TypeOK, ControlInv, Headed
    <3>2. s.first < tick
      BY <1>2, <1>4, <2>2, <3>1 DEF History, GoneIsPast
    <3>3. QED  BY <1>2, <2>2, <3>2, HistoryFacts, NewFlowFacts DEF Behind
  <2>3. CASE f = NewFlow /\ s.key # packet.key
    BY <2>3, NewFlowFacts DEF Behind
  <2>4. QED  BY <1>3, <2>1, <2>2, <2>3
<1>9. GoneIsPast'
  BY <1>1, <1>2, <1>3 DEF History, GoneIsPast
<1>10. ~Headed("interval")' /\ ~Headed("scanPut")' /\ ~Headed("replace")' /\ pc' # "snapshot"
  BY <1>1 DEF Headed
<1>11. QED  BY <1>1, <1>5, <1>6, <1>8, <1>9, <1>10, ChangedHistory

LEMMA ReplaceHistory ==
  ASSUME HInv, Replace \/ ReplaceFails
  PROVE  SnapshotsAdvance' /\ History'
<1>1. /\ pc = "replace" /\ pc' = "consumed"
      /\ cache' = Append(Front(cache), NewFlow) \/ cache' = Front(cache)
      /\ UNCHANGED <<failure, files, tick, sends>>
  BY DEF Replace, ReplaceFails, Goto, timeVars, sendVars
<1>2. /\ History /\ packet.time = tick /\ NewFlow \in FlowType /\ cache # <<>>
      /\ Last(cache).key = packet.key /\ Last(cache).first < packet.time
  <2>1. Headed("replace") /\ ~failure
    BY <1>1, HistoryFacts DEF Headed
  <2>2. History
    BY <2>1 DEF HInv
  <2>3. QED  BY <2>1, <2>2, FlowFacts DEF HInv, MInv, FlowInv, History, FlowInWork
<1>3. /\ Front(cache) \in Seq(FlowType)
      /\ ToSet(cache) = ToSet(Front(cache)) \union {Last(cache)}
      /\ DistinctKeys(Front(cache)) /\ \A g \in ToSet(Front(cache)) : g.key # packet.key
  BY <1>2, HistoryFacts, FrontAndLast, SetOfEnds, KeysOfEnds DEF History
<1>4. DistinctKeys(Append(Front(cache), NewFlow))
  BY <1>2, <1>3, KeysOfAppend, NewFlowFacts
<1>5. ToSet(Append(Front(cache), NewFlow)) = ToSet(Front(cache)) \union {NewFlow}
  BY <1>2, <1>3, SetOfAppend
<1>6. /\ ToSet(cache') \subseteq ToSet(cache) \union {NewFlow}
      /\ ToSet(Front(cache)) \subseteq ToSet(cache') /\ DistinctKeys(cache')
  BY <1>1, <1>3, <1>4, <1>5
<1>7. FlowsGrow'
  <2>1. NewFlow.first <= NewFlow.last /\ NewFlow.start <= NewFlow.end
    BY HistoryFacts, NewFlowFacts
  <2>2. QED  BY <1>2, <1>6, <2>1 DEF History, FlowsGrow
<1>8. \A s \in ToSet(sends) : \A f \in ToSet(cache) : Behind(s, f)
  BY <1>1, <1>2 DEF History, SentIsBehind, Headed
<1>9. ASSUME NEW s \in ToSet(sends), s.key = packet.key
      PROVE  s.first < tick
  <2>1. Last(cache) \in ToSet(cache) /\ Last(cache) \in FlowType
    BY <1>3, HistoryFacts
  <2>2. s.first <= Last(cache).first
    BY <1>2, <1>8, <1>9, <2>1 DEF Behind
  <2>3. QED  BY <1>2, <2>1, <2>2, HistoryFacts
<1>10. ASSUME NEW s \in ToSet(sends), NEW f \in ToSet(cache')
      PROVE  Behind(s, f)
  <2>1. CASE f \in ToSet(cache)
    BY <1>8, <2>1
  <2>2. CASE f = NewFlow /\ s.key = packet.key
    <3>1. s.first < tick
      BY <1>9, <2>2
    <3>2. QED  BY <1>2, <2>2, <3>1, HistoryFacts, NewFlowFacts DEF Behind
  <2>3. CASE f = NewFlow /\ s.key # packet.key
    BY <2>3, NewFlowFacts DEF Behind
  <2>4. QED  BY <1>6, <2>1, <2>2, <2>3
<1>11. GoneIsPast'
  <2>1. ASSUME files > 0, NEW s \in ToSet(sends)
        PROVE  s.first < tick \/ \E f \in ToSet(cache') : f.key = s.key
    <3>1. CASE s.key = packet.key
      BY <1>9, <3>1
    <3>2. CASE s.key # packet.key
      BY <1>2, <1>3, <1>6, <2>1, <3>2 DEF History, GoneIsPast
    <3>3. QED  BY <3>1, <3>2
  <2>2. QED  BY <1>1, <2>1 DEF GoneIsPast
<1>12. ~Headed("interval")' /\ ~Headed("scanPut")' /\ ~Headed("replace")' /\ pc' # "snapshot"
  BY <1>1 DEF Headed
<1>13. QED  BY <1>1, <1>6, <1>7, <1>10, <1>11, <1>12, ChangedHistory

LEMMA MoveHistory ==
  ASSUME HInv, NEW i \in DOMAIN cache, Cut(i) \/ Update(i)
  PROVE  SnapshotsAdvance' /\ History'
<1> DEFINE rest == RemoveAt(cache, i)
<1>1. PICK f : f = IF IsCut(cache[i]) THEN cache[i] ELSE Updated(cache[i])
  OBVIOUS
<1>2. /\ pc = "consume" /\ HasFlow(i) /\ cache' = Append(rest, f)
      /\ UNCHANGED <<failure, files, tick, packet, sends>>
  BY <1>1 DEF Cut, Update, MovedToEnd, Counted, timeVars, packetVars, sendVars
<1>3. /\ History /\ packet.time = tick
      /\ cache[i] \in FlowType /\ cache[i] \in ToSet(cache) /\ Updated(cache[i]) \in FlowType
  <2>1. Headed("consume") /\ ~failure
    BY <1>2, HistoryFacts DEF Headed
  <2>2. History
    BY <2>1 DEF HInv
  <2>3. cache[i] \in ToSet(cache)
    BY DEF ToSet
  <2>4. QED  BY <2>1, <2>2, <2>3, HistoryFacts, FlowFacts DEF HInv, MInv, FlowInv
<1>4. /\ f \in FlowType /\ f.key = cache[i].key /\ f.key = packet.key /\ f.first = cache[i].first
      /\ f.start = cache[i].start /\ f.end = cache[i].end
      /\ f.data >= cache[i].data /\ f.first <= f.last
  <2>1. cache[i].first <= cache[i].last /\ cache[i].last <= tick
    BY <1>3, HistoryFacts DEF History, FlowsGrow
  <2>2. CASE IsCut(cache[i])
    BY <1>1, <1>2, <1>3, <2>1, <2>2, HistoryFacts DEF HasFlow
  <2>3. CASE ~IsCut(cache[i])
    <3>1. f \in FlowType /\ f = Updated(cache[i])
      BY <1>1, <1>3, <2>3
    <3>2. /\ f.key = cache[i].key /\ f.first = cache[i].first /\ f.start = cache[i].start
          /\ f.end = cache[i].end /\ f.data = cache[i].data + packet.data /\ f.last = packet.time
      BY <1>3, <3>1 DEF Updated, PacketsWithData, FlowType
    <3>3. QED  BY <1>2, <1>3, <2>1, <3>1, <3>2, HistoryFacts DEF HasFlow
  <2>4. QED  BY <2>2, <2>3
<1>5. /\ rest \in Seq(FlowType) /\ DistinctKeys(rest)
      /\ \A g \in ToSet(rest) : g.key # cache[i].key
      /\ ToSet(cache) = ToSet(rest) \union {cache[i]}
  BY <1>3, HistoryFacts, Removed, SetOfRemove, KeysOfRemove DEF History
<1> HIDE DEF rest
<1>6. /\ ToSet(cache') = ToSet(rest) \union {f} /\ DistinctKeys(cache') /\ Last(cache') = f
  <2>1. ToSet(cache') = ToSet(rest) \union {f} /\ DistinctKeys(cache')
    BY <1>2, <1>4, <1>5, SetOfAppend, KeysOfAppend
  <2>2. Last(cache') = f
    BY <1>2, <1>4, <1>5, Appended DEF Last
  <2>3. QED  BY <2>1, <2>2
<1>7. FlowsGrow'
  <2>1. f.start <= f.end
    BY <1>3, <1>4 DEF History, FlowsGrow
  <2>2. QED  BY <1>3, <1>4, <1>5, <1>6, <2>1 DEF History, FlowsGrow
<1>8. \A s \in ToSet(sends) : \A g \in ToSet(cache) : Behind(s, g)
  BY <1>2, <1>3 DEF History, SentIsBehind, Headed
<1>9. ASSUME NEW s \in ToSet(sends), NEW g \in ToSet(cache')
      PROVE  Behind(s, g)
  <2>1. CASE g \in ToSet(rest)
    BY <1>5, <1>8, <2>1
  <2>2. CASE g = f
    <3>1. Behind(s, cache[i])
      BY <1>3, <1>8
    <3>2. QED  BY <1>3, <1>4, <2>2, <3>1, HistoryFacts DEF Behind
  <2>3. QED  BY <1>6, <2>1, <2>2
<1>10. GoneIsPast'
  <2>1. ASSUME files > 0, NEW s \in ToSet(sends)
        PROVE  s.first < tick \/ \E g \in ToSet(cache') : g.key = s.key
    BY <1>3, <1>4, <1>5, <1>6, <2>1 DEF History, GoneIsPast
  <2>2. QED  BY <1>2, <2>1 DEF GoneIsPast
<1>11. ~Headed("interval")' /\ ~Headed("scanPut")'
  BY <1>2 DEF Headed, Cut, Update, Reap, OnUpdate, Goto
<1>12. ASSUME pc' = "snapshot"
       PROVE  Last(cache').end < packet'.time
  <2>1. ~IsCut(cache[i]) /\ ~(packet.time <= cache[i].end)
    BY <1>12 DEF Cut, Update, Reap, OnUpdate, Goto
  <2>2. f.end < packet.time
    BY <1>3, <1>4, <2>1, HistoryFacts
  <2>3. QED  BY <1>2, <1>6, <2>2
<1>13. ASSUME Headed("replace")'
       PROVE  Last(cache').key = packet'.key /\ Last(cache').first < packet'.time
  <2>1. IsCut(cache[i])
    BY <1>13 DEF Headed, Cut, Update, Reap, OnUpdate, Goto
  <2>2. cache[i].first <= cache[i].last
    BY <1>3 DEF History, FlowsGrow
  <2>3. cache[i].first < packet.time
    BY <1>3, <2>1, <2>2, HistoryFacts DEF IsCut
  <2>4. QED  BY <1>2, <1>4, <1>6, <2>3
<1>14. QED  BY <1>2, <1>6, <1>7, <1>9, <1>10, <1>11, <1>12, <1>13, ChangedHistory

LEMMA PublishFacts ==
  ASSUME HInv, pc = "snapshot"
  PROVE  /\ History /\ Last(cache) \in FlowType /\ Last(cache) \in ToSet(cache)
         /\ Last(cache).start <= Last(cache).end /\ Last(cache).end < packet.time
         /\ Front(cache) \in Seq(FlowType) /\ Renewed \in FlowType
         /\ Renewed.key = Last(cache).key /\ Renewed.first = Last(cache).first
         /\ Renewed.data = Last(cache).data /\ Renewed.start = packet.time
         /\ ToSet(Append(Front(cache), Renewed)) = ToSet(Front(cache)) \union {Renewed}
         /\ ToSet(Front(cache)) \subseteq ToSet(cache)
         /\ \A g \in ToSet(Front(cache)) : g.key # Last(cache).key
         /\ \A s \in ToSet(sends) : \A f \in ToSet(cache) : Behind(s, f)
<1>1. History /\ cache # <<>>
  <2>1. ~failure /\ Headed("snapshot")
    BY HistoryFacts DEF Headed
  <2>2. QED  BY <2>1 DEF HInv, MInv, FlowInv
<1>2. /\ Last(cache) \in FlowType /\ Front(cache) \in Seq(FlowType)
      /\ ToSet(cache) = ToSet(Front(cache)) \union {Last(cache)}
      /\ \A g \in ToSet(Front(cache)) : g.key # Last(cache).key
  BY <1>1, HistoryFacts, FrontAndLast, SetOfEnds, KeysOfEnds DEF History
<1>3. /\ Renewed \in FlowType
      /\ Renewed.key = Last(cache).key /\ Renewed.first = Last(cache).first
      /\ Renewed.data = Last(cache).data /\ Renewed.start = packet.time
  BY <1>2, HistoryFacts DEF Renewed, FlowType
<1>4. ToSet(Append(Front(cache), Renewed)) = ToSet(Front(cache)) \union {Renewed}
  BY <1>2, <1>3, SetOfAppend
<1>5. Last(cache).start <= Last(cache).end /\ Last(cache).end < packet.time
  BY <1>1, <1>2 DEF History, FlowsGrow, FlowInWork
<1>6. \A s \in ToSet(sends) : \A f \in ToSet(cache) : Behind(s, f)
  BY <1>1 DEF History, SentIsBehind, Headed
<1>7. QED  BY <1>1, <1>2, <1>3, <1>4, <1>5, <1>6

\* The snapshots sent before are behind the next interval, too.
LEMMA OldIsBehind ==
  ASSUME HInv, pc = "snapshot", NEW s \in ToSet(sends),
         NEW f \in ToSet(Append(Front(cache), Renewed))
  PROVE  Behind(s, f)
<1>1. CASE f \in ToSet(Front(cache))
  BY <1>1, PublishFacts
<1>2. CASE f = Renewed /\ s.key = f.key
  <2>1. Behind(s, Last(cache)) /\ s.key = Last(cache).key
    BY <1>2, PublishFacts
  <2>2. s.end < Last(cache).start => s.end < packet.time
    <3>1. /\ s.end \in Nat /\ packet.time \in Nat
          /\ Last(cache).start \in Nat /\ Last(cache).end \in Nat
      BY HistoryFacts, PublishFacts
    <3>2. Last(cache).start <= Last(cache).end /\ Last(cache).end < packet.time
      BY PublishFacts
    <3>3. QED  BY <3>1, <3>2
  <2>3. /\ f.first = Last(cache).first /\ f.data = Last(cache).data
        /\ f.start = packet.time
    BY <1>2, PublishFacts
  <2>4. QED  BY <2>1, <2>2, <2>3 DEF Behind
<1>3. CASE f = Renewed /\ s.key # f.key
  BY <1>3 DEF Behind
<1>4. QED  BY <1>1, <1>2, <1>3, PublishFacts

LEMMA SkipHistory ==
  ASSUME HInv, SkipSnapshot
  PROVE  SnapshotsAdvance' /\ History'
<1>1. /\ pc = "snapshot" /\ pc' = "interval"
      /\ UNCHANGED <<failure, files, tick, packet, cache, sends>>
  BY DEF SkipSnapshot, Goto, timeVars, packetVars, flowVars, sendVars
<1>2. SnapshotsAdvance' /\ Renewed' = Renewed
  BY <1>1 DEF HInv, SnapshotsAdvance, Renewed
<1>3. DistinctKeys(cache') /\ FlowsGrow' /\ GoneIsPast'
  BY <1>1, PublishFacts DEF History, FlowsGrow, GoneIsPast
<1>4. SentIsBehind'
  <2>1. Headed("interval")'
    BY <1>1 DEF Headed
  <2>2. QED  BY <1>1, <1>2, <2>1, OldIsBehind DEF SentIsBehind
<1>5. FlowInWork'
  BY <1>1 DEF FlowInWork, Headed
<1>6. QED  BY <1>2, <1>3, <1>4, <1>5 DEF History

LEMMA SendHistory ==
  ASSUME HInv, SendSnapshot
  PROVE  SnapshotsAdvance' /\ History'
<1>1. PICK n : n = Snapshot(Last(cache))
  OBVIOUS
<1>2. /\ pc = "snapshot" /\ pc' = "reap" /\ then' = "interval" /\ sends' = Append(sends, n)
      /\ UNCHANGED <<failure, files, tick, packet, cache>>
  BY <1>1 DEF SendSnapshot, Reap, timeVars, packetVars, flowVars
<1>3. /\ n.key = Last(cache).key /\ n.first = Last(cache).first
      /\ n.data = Last(cache).data /\ n.start = Last(cache).start
      /\ n.end = Last(cache).end /\ n \in SnapshotType
  BY <1>1, <1>2, PublishFacts DEF Snapshot, SnapshotType, FlowType
<1>4. /\ sends \in Seq(SnapshotType) /\ Len(sends) \in Nat /\ DOMAIN sends = 1 .. Len(sends)
      /\ DOMAIN sends' = 1 .. Len(sends) + 1 /\ sends'[Len(sends) + 1] = n
      /\ \A j \in 1 .. Len(sends) : sends'[j] = sends[j]
  <2>1. sends \in Seq(SnapshotType)
    BY DEF HInv, MInv, TypeOK, SnapshotType
  <2>2. QED  BY <1>2, <1>3, <2>1, AppendProperties, LenProperties
<1>5. ToSet(sends') = ToSet(sends) \union {n}
  BY <1>2, <1>3, <1>4, SetOfAppend
<1>6. Renewed' = Renewed
  BY <1>2 DEF Renewed
<1>7. SnapshotsAdvance'
  <2>1. SUFFICES ASSUME NEW i \in DOMAIN sends', NEW j \in DOMAIN sends', i < j,
                        sends'[i].key = sends'[j].key, sends'[i].first = sends'[j].first
                 PROVE  /\ sends'[i].data <= sends'[j].data
                        /\ sends'[i].end < sends'[j].start
    BY DEF SnapshotsAdvance
  <2>2. i \in DOMAIN sends /\ sends'[i] = sends[i] /\ sends[i] \in ToSet(sends)
    <3>1. i \in DOMAIN sends /\ sends'[i] = sends[i]
      BY <1>4, <2>1
    <3>2. QED  BY <3>1 DEF ToSet
  <2>3. CASE j \in DOMAIN sends
    <3>1. sends'[j] = sends[j]
      BY <1>4, <2>3
    <3>2. QED  BY <2>1, <2>2, <2>3, <3>1 DEF HInv, SnapshotsAdvance
  <2>4. CASE j \notin DOMAIN sends
    <3>1. sends'[j] = n
      BY <1>4, <2>4
    <3>2. sends[i].key = Last(cache).key /\ sends[i].first = Last(cache).first
      BY <1>3, <2>1, <2>2, <3>1
    <3>3. Behind(sends[i], Last(cache))
      BY <1>2, <2>2, PublishFacts
    <3>4. sends[i].data <= Last(cache).data /\ sends[i].end < Last(cache).start
      BY <3>2, <3>3 DEF Behind
    <3>5. QED  BY <1>3, <2>2, <3>1, <3>4
  <2>5. QED  BY <2>3, <2>4
<1>8. DistinctKeys(cache') /\ FlowsGrow'
  BY <1>2, PublishFacts DEF History, FlowsGrow
<1>9. ASSUME NEW f \in ToSet(Append(Front(cache), Renewed))
      PROVE  Behind(n, f)
  <2>1. CASE f \in ToSet(Front(cache))
    BY <1>2, <1>3, <2>1, PublishFacts DEF Behind
  <2>2. CASE f = Renewed
    <3>1. n.end < f.start /\ n.first = f.first /\ n.data = f.data
      BY <1>2, <1>3, <2>2, PublishFacts
    <3>2. n.first \in Nat /\ n.data \in Nat
      BY <1>3 DEF SnapshotType
    <3>3. QED  BY <3>1, <3>2 DEF Behind
  <2>3. QED  BY <1>2, <2>1, <2>2, PublishFacts
<1>10. SentIsBehind'
  <2>1. Headed("interval")'
    BY <1>2 DEF Headed
  <2>2. \A s \in ToSet(sends') : \A f \in ToSet(Append(Front(cache), Renewed)) : Behind(s, f)
    BY <1>2, <1>5, <1>9, OldIsBehind
  <2>3. QED  BY <1>2, <1>6, <2>1, <2>2 DEF SentIsBehind
<1>11. GoneIsPast'
  <2>1. \E f \in ToSet(cache) : f.key = n.key
    BY <1>2, <1>3, PublishFacts
  <2>2. QED  BY <1>2, <1>5, <2>1, PublishFacts DEF History, GoneIsPast
<1>12. FlowInWork'
  BY <1>2 DEF FlowInWork, Headed
<1>13. QED  BY <1>7, <1>8, <1>10, <1>11, <1>12 DEF History

LEMMA IntervalHistory ==
  ASSUME HInv, NextInterval
  PROVE  SnapshotsAdvance' /\ History'
<1>1. PICK f : f = [Last(cache) EXCEPT !.start = packet.time, !.end = packet.time + Interval]
  OBVIOUS
<1>2. /\ pc = "interval" /\ pc' = "reap" /\ then' = "consumed"
      /\ cache' = Append(Front(cache), f) /\ UNCHANGED <<failure, files, tick, packet, sends>>
  BY <1>1 DEF NextInterval, Reap, timeVars, packetVars, sendVars
<1>3. /\ History /\ cache # <<>>
  <2>1. ~failure /\ Headed("interval")
    BY <1>2, HistoryFacts DEF Headed
  <2>2. QED  BY <2>1 DEF HInv, MInv, FlowInv
<1>4. /\ Last(cache) \in FlowType /\ Front(cache) \in Seq(FlowType)
      /\ ToSet(cache) = ToSet(Front(cache)) \union {Last(cache)}
      /\ DistinctKeys(Front(cache))
      /\ \A g \in ToSet(Front(cache)) : g.key # Last(cache).key
  BY <1>3, HistoryFacts, FrontAndLast, SetOfEnds, KeysOfEnds DEF History
<1>5. /\ f \in FlowType /\ f.key = Last(cache).key /\ f.first = Last(cache).first
      /\ f.last = Last(cache).last /\ f.data = Last(cache).data
      /\ f.start = packet.time /\ f.end = packet.time + Interval
  <2>1. f \in FlowType
    BY <1>1, <1>4, FlowFacts DEF HInv
  <2>2. QED  BY <1>1, <1>4, <2>1 DEF FlowType
<1>6. ToSet(cache') = ToSet(Front(cache)) \union {f} /\ DistinctKeys(cache')
  BY <1>2, <1>4, <1>5, SetOfAppend, KeysOfAppend
<1>7. FlowsGrow'
  <2>1. f.first <= f.last
    BY <1>3, <1>4, <1>5 DEF History, FlowsGrow
  <2>2. f.start <= f.end
    BY <1>5, HistoryFacts
  <2>3. QED  BY <1>3, <1>4, <1>6, <2>1, <2>2 DEF History, FlowsGrow
<1>8. /\ Renewed \in FlowType /\ Renewed.key = f.key /\ Renewed.first = f.first
      /\ Renewed.data = f.data /\ Renewed.start = f.start
  BY <1>4, <1>5, HistoryFacts DEF Renewed, FlowType
<1>9. ToSet(Append(Front(cache), Renewed)) = ToSet(Front(cache)) \union {Renewed}
  BY <1>4, <1>8, SetOfAppend
<1>10. \A s \in ToSet(sends) : \A g \in ToSet(Front(cache)) \union {Renewed} : Behind(s, g)
  BY <1>2, <1>3, <1>9 DEF History, SentIsBehind, Headed
<1>11. ASSUME NEW s \in ToSet(sends), NEW g \in ToSet(cache')
       PROVE  Behind(s, g)
  <2>1. CASE g \in ToSet(Front(cache))
    BY <1>10, <2>1
  <2>2. CASE g = f
    BY <1>8, <1>10, <2>2 DEF Behind
  <2>3. QED  BY <1>6, <2>1, <2>2
<1>12. GoneIsPast'
  BY <1>2, <1>3, <1>4, <1>5, <1>6 DEF History, GoneIsPast
<1>13. ~Headed("interval")' /\ ~Headed("scanPut")' /\ ~Headed("replace")' /\ pc' # "snapshot"
  BY <1>2 DEF Headed
<1>14. QED  BY <1>2, <1>6, <1>7, <1>11, <1>12, <1>13, ChangedHistory

LEMMA LeaveHistory ==
  ASSUME HInv, ScanPut \/ CleanupNext \/ Delete
  PROVE  SnapshotsAdvance' /\ History'
<1>1. /\ pc \in {"scanPut", "cleanup", "delete"} /\ pc' \in {"scan", "reap", "cleanup"}
      /\ pc' = "reap" => then' = "cleanPut"
      /\ UNCHANGED <<failure, files, tick, packet, sends>>
  BY DEF ScanPut, CleanupNext, Delete, Reap, Goto, timeVars, packetVars, sendVars
<1>2. History /\ cache # <<>>
  <2>1. ~failure /\ Headed(pc)
    BY <1>1, HistoryFacts DEF Headed
  <2>2. QED  BY <1>1, <2>1 DEF HInv, MInv, FlowInv, ScanPut, CleanupNext, Delete
<1>3. /\ DistinctKeys(Front(cache)) /\ DistinctKeys(Tail(cache))
      /\ \A g \in ToSet(Tail(cache)) : g.key # Head(cache).key
  BY <1>2, HistoryFacts, KeysOfEnds DEF History
<1>4. /\ ToSet(cache) = ToSet(Front(cache)) \union {Last(cache)}
      /\ ToSet(cache) = ToSet(Tail(cache)) \union {Head(cache)}
      /\ Head(cache) \in FlowType /\ Tail(cache) \in Seq(FlowType)
  BY <1>2, HistoryFacts, SetOfEnds, HeadAndTail
<1>5. /\ DistinctKeys(Append(Tail(cache), Head(cache)))
      /\ ToSet(Append(Tail(cache), Head(cache))) = ToSet(cache)
  <2>1. PICK t, h : t = Tail(cache) /\ h = Head(cache)
    OBVIOUS
  <2>2. /\ t \in Seq(FlowType) /\ h \in FlowType /\ DistinctKeys(t)
        /\ \A g \in ToSet(t) : g.key # h.key
        /\ ToSet(cache) = ToSet(t) \union {h}
    BY <1>3, <1>4, <2>1
  <2>3. DistinctKeys(Append(t, h))
    BY <2>2, KeysOfAppend
  <2>4. ToSet(Append(t, h)) = ToSet(t) \union {h}
    BY <2>2, SetOfAppend
  <2>5. QED  BY <2>1, <2>2, <2>3, <2>4
<1>6. cache' \in {Front(cache), Tail(cache), Append(Tail(cache), Head(cache))}
  BY DEF ScanPut, CleanupNext, Delete
<1>7. DistinctKeys(cache') /\ ToSet(cache') \subseteq ToSet(cache)
  BY <1>3, <1>4, <1>5, <1>6
<1>8. FlowsGrow'
  BY <1>2, <1>7 DEF History, FlowsGrow
<1>9. \A s \in ToSet(sends) : \A f \in ToSet(cache) : Behind(s, f)
  BY <1>1, <1>2 DEF History, SentIsBehind, Headed
<1>10. GoneIsPast'
  <2>1. CASE CleanupNext \/ Delete
    <3>1. files = 0
      BY <2>1 DEF CleanupNext, Delete, HInv, MInv, ControlInv, Headed
    <3>2. QED  BY <1>1, <3>1 DEF GoneIsPast
  <2>2. CASE ScanPut
    <3>1. cache' = Tail(cache) /\ IsIdle(Head(cache))
      BY <1>2, <2>2 DEF ScanPut, History, FlowInWork, Headed
    <3>2. Head(cache).first < tick
      <4>1. Head(cache).first <= Head(cache).last
        BY <1>2, <1>4 DEF History, FlowsGrow
      <4>2. QED  BY <1>4, <3>1, <4>1, HistoryFacts DEF IsIdle
    <3>3. ASSUME files > 0, NEW s \in ToSet(sends)
          PROVE  s.first < tick \/ \E f \in ToSet(cache') : f.key = s.key
      <4>1. CASE s.key = Head(cache).key
        <5>1. s.first <= Head(cache).first
          BY <1>4, <1>9, <4>1 DEF Behind
        <5>2. QED  BY <1>4, <3>2, <5>1, HistoryFacts
      <4>2. CASE s.key # Head(cache).key
        BY <1>2, <1>4, <3>1, <3>3, <4>2 DEF History, GoneIsPast
      <4>3. QED  BY <4>1, <4>2
    <3>4. QED  BY <1>1, <3>3 DEF GoneIsPast
  <2>3. QED  BY <2>1, <2>2
<1>11. ~Headed("interval")' /\ ~Headed("scanPut")' /\ ~Headed("replace")' /\ pc' # "snapshot"
  BY <1>1 DEF Headed
<1>12. QED  BY <1>1, <1>7, <1>8, <1>9, <1>10, <1>11, ChangedHistory

LEMMA HistoryStep ==
  ASSUME HInv, [Next]_vars
  PROVE  SnapshotsAdvance' /\ (failure' \/ History')
<1> DEFINE Goal == SnapshotsAdvance' /\ (failure' \/ History')
<1> SUFFICES Goal
  OBVIOUS
<1>0. /\ tick \in Nat /\ files \in Nat /\ failure \in BOOLEAN /\ goScan \in BOOLEAN
      /\ Times \subseteq Nat /\ (failure \/ History)
      /\ pc \in {"reap", "flush"} => then \in Returns
  <2>1. tick \in Nat /\ files \in Nat /\ failure \in BOOLEAN /\ goScan \in BOOLEAN
    BY MeterAssumption DEF HInv, MInv, TypeOK
  <2>2. QED  BY <2>1, MeterAssumption DEF HInv, MInv, ControlInv
<1>A. ASSUME UNCHANGED <<pc, then, failure, files, tick, packet, cache, sends>>
      PROVE  Goal
  BY <1>A
  DEF HInv, History, SnapshotsAdvance, DistinctKeys, FlowsGrow, SentIsBehind, Renewed, GoneIsPast,
      FlowInWork, Headed, IsIdle
<1>B. ASSUME UNCHANGED <<cache, sends, tick>>, failure'
      PROVE  Goal
  BY <1>0, <1>B, QuietHistory
<1>C. ASSUME UNCHANGED <<cache, sends, failure>>, files' > 0 => files > 0, tick' \in Nat, tick <= tick',
             pc' # "snapshot", ~Headed("interval"), ~Headed("interval")',
             ~Headed("replace")', ~Headed("scanPut")'
      PROVE  Goal
  BY <1>0, <1>C, QuietHistory
<1> HIDE DEF Goal
<1> USE DEF Goto, Reap, Flush, Fail,
            controlVars, timeVars, packetVars, flowVars, loopVars, sendVars
<1>1. CASE UNCHANGED vars
  BY <1>A, <1>1 DEF vars
<1>2. ASSUME NEW i \in DOMAIN answer, NEW a, Answer(i, a)
      PROVE  Goal
  BY <1>A, <1>2 DEF Answer
<1>3. CASE OpenFails \/ SendFails \/ ReapRaises \/ ReapTimesOut \/ FlushTimesOut
  BY <1>B, <1>3 DEF OpenFails, SendFails, ReapRaises, ReapTimesOut, FlushTimesOut
<1>4. CASE Open \/ EndOfCapture \/ End
  <2>1. files' > 0 => files > 0
    BY <1>0, <1>4 DEF Open, EndOfCapture, End
  <2>2. UNCHANGED <<cache, sends, failure, tick>>
    BY <1>4 DEF Open, EndOfCapture, End
  <2>3. /\ pc \in {"open", "capture", "closed"}
        /\ pc' \in {"open", "capture", "cleanup", "ended"}
    BY <1>4 DEF Open, EndOfCapture, End
  <2>4. QED  BY <1>0, <1>C, <2>1, <2>2, <2>3 DEF Headed
<1>5. ASSUME NEW t \in Times, NEW k \in Keys, NEW d \in {0, 1}, Packet(k, t, d) \/ Ticker(t)
      PROVE  Goal
  <2>1. tick' \in Nat /\ tick <= tick'
    BY <1>0, <1>5 DEF Packet, Ticker, Larger
  <2>2. UNCHANGED <<cache, sends, failure, files>>
    BY <1>5 DEF Packet, Ticker
  <2>3. pc = "capture" /\ pc' \in {"consume", "scan"}
    BY <1>5 DEF Packet, Ticker
  <2>4. QED  BY <1>0, <1>C, <2>1, <2>2, <2>3 DEF Headed
<1>6. CASE Create
  BY <1>6, CreateHistory DEF Goal
<1>7. CASE Replace \/ ReplaceFails
  BY <1>7, ReplaceHistory DEF Goal
<1>8. ASSUME NEW i \in DOMAIN cache, Cut(i) \/ Update(i)
      PROVE  Goal
  BY <1>8, MoveHistory DEF Goal
<1>9. CASE CreateFails \/ Consumed
  <2>1. UNCHANGED <<cache, sends, failure, files, tick>>
    BY <1>9 DEF CreateFails, Consumed
  <2>2. /\ pc \in {"consume", "consumed"} /\ pc' \in {"consumed", "flush", "scan"}
        /\ pc' = "flush" => then' = "scan"
    BY <1>9 DEF CreateFails, Consumed
  <2>3. QED  BY <1>0, <1>C, <2>1, <2>2 DEF Headed
<1>10. CASE SendSnapshot
  BY <1>10, SendHistory DEF Goal
<1>11. CASE SkipSnapshot
  BY <1>11, SkipHistory DEF Goal
<1>12. CASE NextInterval
  BY <1>12, IntervalHistory DEF Goal
<1>13. CASE ReapNext
  BY <1>A, <1>13 DEF ReapNext
<1>14. CASE ReapEnds \/ FlushReturns
  <2>1. UNCHANGED <<cache, sends, failure, files, tick, packet, then>>
    BY <1>14 DEF ReapEnds, FlushReturns
  <2>2. pc \in {"reap", "flush"} /\ pc' \in {then, "reap"} /\ then \in Returns
    BY <1>0, <1>14 DEF ReapEnds, FlushReturns
  <2>3. pc' # "snapshot" /\ \A p \in Returns : Headed(p) <=> Headed(p)'
    BY <2>1, <2>2 DEF Headed, Returns
  <2>4. CASE failure
    BY <1>B, <2>1, <2>4
  <2>5. CASE ~failure
    <3>1. Headed("scanPut") => IsIdle(Head(cache))
      BY <1>0, <2>5 DEF History, FlowInWork
    <3>2. /\ Headed("interval")' <=> Headed("interval")
          /\ Headed("replace")' => Headed("replace")
          /\ Headed("scanPut")' => Headed("scanPut")
      BY <2>3 DEF Returns
    <3>3. QED  BY <1>0, <2>1, <2>3, <2>5, <3>1, <3>2, QuietHistory DEF Goal
  <2>6. QED  BY <2>4, <2>5
<1>15. CASE ScanIdle
  <2>1. /\ UNCHANGED <<cache, sends, failure, files, tick, packet>>
        /\ pc = "scan" /\ pc' = "reap" /\ then' = "scanPut" /\ IsIdle(Head(cache))
    BY <1>15 DEF ScanIdle, HeadIsIdle
  <2>2. /\ ~failure /\ ~Headed("interval") /\ ~Headed("interval")' /\ ~Headed("replace")'
    BY <2>1, HistoryFacts DEF Headed
  <2>3. QED  BY <1>0, <2>1, <2>2, QuietHistory DEF Goal
<1>16. CASE ScanEnds \/ CleanPut \/ CleanupEnds
  <2>1. UNCHANGED <<cache, sends, failure, files, tick>>
    BY <1>16 DEF ScanEnds, CleanPut, CleanupEnds
  <2>2. /\ pc \in {"scan", "cleanPut", "cleanup"} /\ pc' \in {"capture", "flush", "delete"}
        /\ pc' = "flush" => then' \in {"delete", "closed"}
    BY <1>16 DEF ScanEnds, CleanPut, CleanupEnds
  <2>3. QED  BY <1>0, <1>C, <2>1, <2>2 DEF Headed
<1>17. CASE ScanPut \/ CleanupNext \/ Delete
  BY <1>17, LeaveHistory DEF Goal
<1>18. ASSUME NEW t \in Times, Ticker(t)
       PROVE  Goal
  <2>1. tick' \in Nat /\ tick <= tick'
    BY <1>0, <1>18 DEF Ticker
  <2>2. UNCHANGED <<cache, sends, failure, files>> /\ pc = "capture" /\ pc' = "scan"
    BY <1>18 DEF Ticker
  <2>3. QED  BY <1>0, <1>C, <2>1, <2>2 DEF Headed
<1>19. QED
  BY <1>1, <1>2, <1>3, <1>4, <1>5, <1>6, <1>7, <1>8, <1>9, <1>10, <1>11, <1>12, <1>13,
     <1>14, <1>15, <1>16, <1>17, <1>18
  DEF Next, Step, Consume, Publish, Check, Expire

LEMMA HInit == Init => HInv
<1> SUFFICES ASSUME Init
             PROVE  HInv
  OBVIOUS
<1>1. /\ ~failure /\ pc = "open" /\ DOMAIN sends = {} /\ DOMAIN cache = {}
      /\ ~Headed("interval") /\ ~Headed("replace") /\ ~Headed("scanPut")
  BY EmptySeq, LenProperties DEF Init, Headed
<1>2. ToSet(cache) = {} /\ ToSet(sends) = {}
  BY <1>1 DEF ToSet
<1>3. SnapshotsAdvance /\ DistinctKeys(cache)
  BY <1>1 DEF SnapshotsAdvance, DistinctKeys
<1>4. FlowsGrow /\ SentIsBehind /\ GoneIsPast /\ FlowInWork
  BY <1>1, <1>2 DEF FlowsGrow, SentIsBehind, GoneIsPast, FlowInWork
<1>5. QED  BY <1>3, <1>4, MInit DEF HInv, History

\* The consumers of the snapshots see no flow go back: a snapshot counts no
\* fewer packets with data than the one before it of the same key and start,
\* and its interval begins after that one's end.  A packet whose time lies in the past
\* cannot bring a flow back: it takes the meter's time.
THEOREM SnapshotsInOrder == Spec => []SnapshotsAdvance
<1>1. HInv /\ [Next]_vars => HInv'
  BY HistoryStep, TypeStep, ControlStep, SendsStep, FlowStep, OrderStep DEF HInv, MInv
<1>2. HInv => SnapshotsAdvance
  BY DEF HInv
<1>3. QED  BY <1>1, <1>2, HInit, PTL DEF Spec
-----------------------------------------------------------------------------
(***************************************************************************)
(* The packets in a set of flows.  PacketsIn adds them in an order that it *)
(* does not tell; what follows shows that the order does not matter.  An   *)
(* induction is on the set of the cardinalities for which a fact holds.    *)
(***************************************************************************)

LEMMA NatSet ==
  ASSUME NEW T \in SUBSET Nat, 0 \in T, \A n \in T : n + 1 \in T
  PROVE  T = Nat
<1> DEFINE R == OpToRel(<, Nat)
           U == Nat \ T
<1>1. SUFFICES ASSUME U # {}
               PROVE  FALSE
  OBVIOUS
<1>2. PICK x \in U : \A y \in U : <<y, x>> \notin R
  <2>1. IsWellFoundedOn(R, Nat)
    BY NatLessThanWellFounded
  <2> HIDE DEF R
  <2>2. QED  BY <1>1, <2>1, WFMin
<1>3. x \in Nat /\ x # 0 /\ x - 1 \in Nat /\ x - 1 + 1 = x
  OBVIOUS
<1>4. <<x - 1, x>> \in R
  BY <1>3 DEF OpToRel
<1>5. x - 1 \in T
  BY <1>2, <1>3, <1>4
<1>6. QED  BY <1>3, <1>5

\* The flow that the sum takes next.
Pick(s) == CHOOSE f \in s : TRUE

SumOf(g, s) == IF s = {} THEN 0 ELSE Pick(s).packets + g[s \ {Pick(s)}]

\* g has the sums of the sets in D.
Sums(g, D) == g \in [D -> Nat] /\ \A s \in D : g[s] = SumOf(g, s)

\* A finite set of flows.
FewFlows(U) == IsFiniteSet(U) /\ \A f \in U : f.packets \in Nat

\* The subsets of U with no more than n flows.
UpTo(n, U) == {s \in SUBSET U : Cardinality(s) <= n}

LEMMA Picked ==
  ASSUME NEW U, FewFlows(U), NEW s \in SUBSET U
  PROVE  /\ IsFiniteSet(s) /\ Cardinality(s) \in Nat /\ Cardinality(s) <= Cardinality(U)
         /\ Cardinality(U) \in Nat
         /\ Cardinality(s) = 0 <=> s = {}
         /\ s # {} => /\ Pick(s) \in s /\ Pick(s).packets \in Nat
         /\ \A x \in s : /\ s \ {x} \in SUBSET U
                         /\ Cardinality(s \ {x}) = Cardinality(s) - 1
<1>1. IsFiniteSet(s) /\ Cardinality(s) <= Cardinality(U)
  BY FS_Subset DEF FewFlows
<1>2. Cardinality(s) \in Nat /\ Cardinality(U) \in Nat
  BY <1>1, FS_CardinalityType DEF FewFlows
<1>3. Cardinality(s) = 0 <=> s = {}
  BY <1>1, FS_EmptySet
<1>4. s # {} => Pick(s) \in s
  BY DEF Pick
<1>5. \A x \in s : s \ {x} \in SUBSET U /\ Cardinality(s \ {x}) = Cardinality(s) - 1
  BY <1>1, FS_RemoveElement
<1>6. QED  BY <1>1, <1>2, <1>3, <1>4, <1>5 DEF FewFlows

LEMMA SumsExist ==
  ASSUME NEW U, FewFlows(U)
  PROVE  \E g : Sums(g, SUBSET U)
<1> DEFINE T == {n \in Nat : \E g : Sums(g, UpTo(n, U))}
<1>1. 0 \in T
  <2>1. \A s \in UpTo(0, U) : s = {}
    BY Picked DEF UpTo
  <2>2. Sums([s \in UpTo(0, U) |-> 0], UpTo(0, U))
    BY <2>1 DEF Sums, SumOf
  <2>3. QED  BY <2>2
<1>2. ASSUME NEW n \in T PROVE n + 1 \in T
  <2>1. PICK g : Sums(g, UpTo(n, U))
    OBVIOUS
  <2>2. PICK h : h = [s \in UpTo(n + 1, U) |-> IF s \in UpTo(n, U) THEN g[s] ELSE SumOf(g, s)]
    OBVIOUS
  <2>3. UpTo(n, U) \subseteq UpTo(n + 1, U)
    BY Picked DEF UpTo
  <2>4. ASSUME NEW s \in UpTo(n + 1, U), s # {}
        PROVE  s \ {Pick(s)} \in UpTo(n, U) /\ Pick(s).packets \in Nat
    <3>1. s \in SUBSET U /\ Cardinality(s) <= n + 1
      BY DEF UpTo
    <3>2. /\ Pick(s) \in s /\ Pick(s).packets \in Nat
          /\ s \ {Pick(s)} \in SUBSET U /\ Cardinality(s \ {Pick(s)}) = Cardinality(s) - 1
          /\ Cardinality(s) \in Nat
      BY <2>4, <3>1, Picked
    <3>3. QED  BY <3>1, <3>2 DEF UpTo
  <2>5. \A s \in UpTo(n, U) : g[s] \in Nat /\ g[s] = SumOf(g, s) /\ h[s] = g[s]
    BY <2>1, <2>2, <2>3 DEF Sums
  <2>6. ASSUME NEW s \in UpTo(n + 1, U)
        PROVE  h[s] = SumOf(g, s) /\ h[s] \in Nat
    <3>1. h[s] = IF s \in UpTo(n, U) THEN g[s] ELSE SumOf(g, s)
      BY <2>2
    <3>2. SumOf(g, s) \in Nat
      <4>1. s # {} => g[s \ {Pick(s)}] \in Nat /\ Pick(s).packets \in Nat
        BY <2>4, <2>5
      <4>2. QED  BY <4>1 DEF SumOf
    <3>3. QED  BY <2>5, <3>1, <3>2
  <2>7. ASSUME NEW s \in UpTo(n + 1, U)
        PROVE  SumOf(h, s) = SumOf(g, s)
    <3>1. s # {} => h[s \ {Pick(s)}] = g[s \ {Pick(s)}]
      BY <2>4, <2>5
    <3>2. QED  BY <3>1 DEF SumOf
  <2>8. h \in [UpTo(n + 1, U) -> Nat]
    BY <2>2, <2>6
  <2>9. Sums(h, UpTo(n + 1, U))
    BY <2>6, <2>7, <2>8 DEF Sums
  <2>10. QED  BY <2>9
<1> HIDE DEF T
<1>3. T = Nat
  <2>1. T \in SUBSET Nat
    BY DEF T
  <2>2. QED  BY <1>1, <1>2, <2>1, NatSet
<1>4. UpTo(Cardinality(U), U) = SUBSET U
  BY Picked DEF UpTo
<1>5. Cardinality(U) \in T
  BY <1>3, FS_CardinalityType DEF FewFlows
<1>6. QED  BY <1>4, <1>5 DEF T

\* Two of them agree.
LEMMA SumsAgree ==
  ASSUME NEW U, FewFlows(U), NEW V \in SUBSET U, NEW g, NEW h,
         Sums(g, SUBSET U), Sums(h, SUBSET V)
  PROVE  \A s \in SUBSET V : g[s] = h[s]
<1> DEFINE T == {n \in Nat : \A s \in SUBSET V : Cardinality(s) = n => g[s] = h[s]}
<1>1. 0 \in T
  <2>1. \A s \in SUBSET V : Cardinality(s) = 0 => s = {}
    BY Picked
  <2>2. g[{}] = 0 /\ h[{}] = 0
    BY DEF Sums, SumOf
  <2>3. QED  BY <2>1, <2>2
<1>2. ASSUME NEW n \in T PROVE n + 1 \in T
  <2>1. ASSUME NEW s \in SUBSET V, Cardinality(s) = n + 1
        PROVE  g[s] = h[s]
    <3>1. /\ s # {} /\ Pick(s) \in s /\ s \ {Pick(s)} \in SUBSET V
          /\ Cardinality(s \ {Pick(s)}) = n
      BY <2>1, Picked
    <3>2. g[s \ {Pick(s)}] = h[s \ {Pick(s)}]
      BY <3>1
    <3>3. g[s] = SumOf(g, s) /\ h[s] = SumOf(h, s)
      BY DEF Sums
    <3>4. QED  BY <3>1, <3>2, <3>3 DEF SumOf
  <2>2. QED  BY <2>1
<1> HIDE DEF T
<1>3. T = Nat
  <2>1. T \in SUBSET Nat
    BY DEF T
  <2>2. QED  BY <1>1, <1>2, <2>1, NatSet
<1>4. ASSUME NEW s \in SUBSET V
      PROVE  g[s] = h[s]
  <2>1. Cardinality(s) \in T
    BY <1>3, Picked
  <2>2. QED  BY <2>1 DEF T
<1>5. QED  BY <1>4

\* The sum of one flow more, whichever is picked first.
LEMMA SumOfOneMore ==
  ASSUME NEW U, FewFlows(U), NEW g, Sums(g, SUBSET U)
  PROVE  \A s \in SUBSET U : \A x \in U \ s : g[s \union {x}] = g[s] + x.packets
<1> DEFINE Holds(s) == \A x \in U \ s : g[s \union {x}] = g[s] + x.packets
           T == {n \in Nat : \A s \in SUBSET U : Cardinality(s) = n => Holds(s)}
<1>0. \A s \in SUBSET U : g[s] \in Nat /\ g[s] = SumOf(g, s)
  BY DEF Sums
<1>1. 0 \in T
  <2>1. ASSUME NEW s \in SUBSET U, Cardinality(s) = 0, NEW x \in U \ s
        PROVE  g[s \union {x}] = g[s] + x.packets
    <3>1. s = {} /\ x.packets \in Nat
      BY <2>1, Picked DEF FewFlows
    <3>2. s \union {x} = {x} /\ {x} \in SUBSET U /\ Pick({x}) = x /\ {x} \ {x} = {}
      BY <3>1 DEF Pick
    <3>3. g[{x}] = x.packets + g[{}]
      BY <1>0, <3>2 DEF SumOf
    <3>4. g[{}] \in Nat
      BY <1>0
    <3>5. QED  BY <3>1, <3>2, <3>3, <3>4
  <2>2. QED  BY <2>1
<1>2. ASSUME NEW n \in T PROVE n + 1 \in T
  <2>1. ASSUME NEW s \in SUBSET U, Cardinality(s) = n + 1, NEW x \in U \ s
        PROVE  g[s \union {x}] = g[s] + x.packets
    <3>1. PICK t : t = s \union {x}
      OBVIOUS
    <3>2. PICK y : y = Pick(t)
      OBVIOUS
    <3>3. t \in SUBSET U /\ t # {} /\ y \in t /\ y.packets \in Nat /\ x.packets \in Nat
      BY <3>1, <3>2, Picked DEF FewFlows
    <3>4. g[t] = y.packets + g[t \ {y}]
      BY <1>0, <3>2, <3>3 DEF SumOf
    <3>5. CASE y = x
      <4>1. t \ {y} = s
        BY <3>1, <3>5
      <4>2. g[s] \in Nat
        BY <1>0
      <4>3. g[t] = x.packets + g[s]
        BY <3>4, <3>5, <4>1
      <4>4. g[s \union {x}] = x.packets + g[s]
        BY <3>1, <4>3
      <4>5. QED  BY <3>3, <4>2, <4>4
    <3>6. CASE y # x
      <4>1. PICK r : r = s \ {y}
        OBVIOUS
      <4>2. y \in s /\ r \in SUBSET U /\ Cardinality(r) = n
        BY <2>1, <3>1, <3>3, <3>6, <4>1, Picked
      <4>3. Holds(r)
        BY <4>2
      <4>4. x \in U \ r /\ y \in U \ r /\ r \union {y} = s /\ t \ {y} = r \union {x}
        BY <3>1, <3>3, <3>6, <4>1, <4>2
      <4>5. g[r \union {x}] = g[r] + x.packets /\ g[s] = g[r] + y.packets
        BY <4>3, <4>4
      <4>6. g[r] \in Nat
        BY <1>0, <4>2
      <4>7. g[t] = y.packets + g[r \union {x}]
        BY <3>4, <4>4
      <4>8. g[s \union {x}] = y.packets + g[r \union {x}]
        BY <3>1, <4>7
      <4>9. QED  BY <3>3, <4>5, <4>6, <4>8
    <3>7. QED  BY <3>5, <3>6
  <2>2. QED  BY <2>1
<1> HIDE DEF T
<1>3. T = Nat
  <2>1. T \in SUBSET Nat
    BY DEF T
  <2>2. QED  BY <1>1, <1>2, <2>1, NatSet
<1>4. ASSUME NEW s \in SUBSET U
      PROVE  Holds(s)
  <2>1. Cardinality(s) \in T
    BY <1>3, Picked
  <2>2. QED  BY <2>1 DEF T
<1>5. QED  BY <1>4

LEMMA PacketsAreASum ==
  ASSUME NEW U, FewFlows(U)
  PROVE  \E g : Sums(g, SUBSET U) /\ PacketsIn(U) = g[U]
<1> DEFINE Def(g) == [s \in SUBSET U |-> SumOf(g, s)]
           h == CHOOSE g : g = Def(g)
<1>1. PICK g : Sums(g, SUBSET U)
  BY SumsExist
<1>2. g = Def(g)
  BY <1>1 DEF Sums
<1> HIDE DEF Def
<1>3. h = Def(h)
  BY <1>2
<1>4. PacketsIn(U) = h[U]
  BY DEF PacketsIn, MapThenSumSet, MapThenFoldSet, Pick, SumOf, Def, h
<1> HIDE DEF h
<1>5. /\ \A s \in SUBSET U : h[s] = SumOf(h, s)
      /\ h = [s \in SUBSET U |-> SumOf(h, s)]
  BY <1>3 DEF Def
<1> DEFINE T == {n \in Nat : \A s \in SUBSET U : Cardinality(s) = n => h[s] \in Nat}
<1>6. 0 \in T
  <2>1. \A s \in SUBSET U : Cardinality(s) = 0 => s = {}
    BY Picked
  <2>2. h[{}] = 0
    BY <1>5 DEF SumOf
  <2>3. QED  BY <2>1, <2>2
<1>7. ASSUME NEW n \in T PROVE n + 1 \in T
  <2>1. ASSUME NEW s \in SUBSET U, Cardinality(s) = n + 1
        PROVE  h[s] \in Nat
    <3>1. /\ s # {} /\ Pick(s) \in s /\ s \ {Pick(s)} \in SUBSET U
          /\ Cardinality(s \ {Pick(s)}) = n /\ Pick(s).packets \in Nat
      BY <2>1, Picked
    <3>2. h[s \ {Pick(s)}] \in Nat
      BY <3>1
    <3>3. h[s] = Pick(s).packets + h[s \ {Pick(s)}]
      BY <1>5, <3>1 DEF SumOf
    <3>4. QED  BY <3>1, <3>2, <3>3
  <2>2. QED  BY <2>1
<1> HIDE DEF T
<1>8. T = Nat
  <2>1. T \in SUBSET Nat
    BY DEF T
  <2>2. QED  BY <1>6, <1>7, <2>1, NatSet
<1>9. ASSUME NEW s \in SUBSET U
      PROVE  h[s] \in Nat
  <2>1. Cardinality(s) \in T
    BY <1>8, Picked
  <2>2. QED  BY <2>1 DEF T
<1>10. h \in [SUBSET U -> Nat]
  BY <1>5, <1>9
<1>11. Sums(h, SUBSET U)
  BY <1>5, <1>10 DEF Sums
<1>12. QED  BY <1>4, <1>11

\* What the theorem below needs to know of PacketsIn.
LEMMA OneFlowMore ==
  ASSUME NEW S, FewFlows(S), NEW f, f \notin S, f.packets \in Nat
  PROVE  /\ PacketsIn(S) \in Nat /\ FewFlows(S \union {f})
         /\ PacketsIn(S \union {f}) = PacketsIn(S) + f.packets
<1>1. PICK U : U = S \union {f}
  OBVIOUS
<1>2. FewFlows(U)
  BY <1>1, FS_AddElement DEF FewFlows
<1>3. PICK g : Sums(g, SUBSET U) /\ PacketsIn(U) = g[U]
  BY <1>2, PacketsAreASum
<1>4. PICK h : Sums(h, SUBSET S) /\ PacketsIn(S) = h[S]
  BY PacketsAreASum
<1>5. S \in SUBSET U /\ f \in U \ S
  BY <1>1
<1>6. g[S] = h[S]
  BY <1>2, <1>3, <1>4, <1>5, SumsAgree
<1>7. g[S \union {f}] = g[S] + f.packets
  BY <1>2, <1>3, <1>5, SumOfOneMore
<1>8. PacketsIn(S) \in Nat
  BY <1>4 DEF Sums
<1>9. QED  BY <1>1, <1>2, <1>3, <1>4, <1>6, <1>7, <1>8

LEMMA NoFlows == PacketsIn({}) = 0
<1>1. FewFlows({})
  BY FS_EmptySet DEF FewFlows
<1>2. PICK g : Sums(g, SUBSET {}) /\ PacketsIn({}) = g[{}]
  BY <1>1, PacketsAreASum
<1>3. QED  BY <1>2 DEF Sums, SumOf

-----------------------------------------------------------------------------
(* Every packet in one flow.                                               *)

Accounted == processed = PacketsIn(AllFlows) + lost + (IF counted THEN 0 ELSE 1)
Told(flows) == \A f, g \in flows : f.key = g.key /\ f.first = g.first => f = g

LEMMA FlowsOfSequence ==
  ASSUME NEW S, NEW s \in Seq(S)
  PROVE  ToSet(s) \subseteq S /\ IsFiniteSet(ToSet(s))
<1>1. Len(s) \in Nat /\ DOMAIN s = 1 .. Len(s) /\ \A j \in 1 .. Len(s) : s[j] \in S
  BY LenProperties, ElementOfSeq
<1>2. s \in Surjection(1 .. Len(s), ToSet(s))
  <2>1. s \in [1 .. Len(s) -> S]
    BY <1>1
  <2>2. \A j \in 1 .. Len(s) : s[j] \in ToSet(s)
    BY <1>1 DEF ToSet
  <2>3. s \in [1 .. Len(s) -> ToSet(s)]
    BY <2>1, <2>2
  <2>4. \A x \in ToSet(s) : \E j \in 1 .. Len(s) : s[j] = x
    BY <1>1 DEF ToSet
  <2>5. QED  BY <2>3, <2>4 DEF Surjection
<1>3. IsFiniteSet(1 .. Len(s))
  BY <1>1, FS_Interval
<1>4. QED  BY <1>1, <1>2, <1>3, FS_Surjection DEF ToSet

LEMMA FlowSets ==
  ASSUME DInv
  PROVE  /\ cache \in Seq(FlowType) /\ channel \in Seq(FlowType)
         /\ ToSet(cache) \subseteq FlowType /\ ToSet(channel) \subseteq FlowType
         /\ AllFlows \subseteq FlowType /\ FewFlows(AllFlows)
         /\ PacketsIn(AllFlows) \in Nat
         /\ \A f \in FlowType : {f.first, f.last, f.packets} \subseteq Nat
         /\ processed \in Nat /\ lost \in Nat /\ tick \in Nat
         /\ counted \in BOOLEAN /\ files \in Nat
<1>1. /\ cache \in Seq(FlowType) /\ channel \in Seq(FlowType)
      /\ processed \in Nat /\ lost \in Nat /\ tick \in Nat /\ counted \in BOOLEAN /\ files \in Nat
  BY MeterAssumption DEF DInv, HInv, MInv, TypeOK
<1>2. /\ ToSet(cache) \subseteq FlowType /\ IsFiniteSet(ToSet(cache))
      /\ ToSet(channel) \subseteq FlowType /\ IsFiniteSet(ToSet(channel))
  BY <1>1, FlowsOfSequence
<1>3. AllFlows \subseteq FlowType /\ IsFiniteSet(AllFlows)
  BY <1>2, FS_Union DEF AllFlows
<1>4. \A f \in FlowType : {f.first, f.last, f.packets} \subseteq Nat
  BY DEF FlowType
<1>5. FewFlows(AllFlows)
  BY <1>3, <1>4 DEF FewFlows
<1>6. PICK g : Sums(g, SUBSET AllFlows) /\ PacketsIn(AllFlows) = g[AllFlows]
  BY <1>5, PacketsAreASum
<1>7. PacketsIn(AllFlows) \in Nat
  BY <1>6 DEF Sums
<1>8. QED  BY <1>1, <1>2, <1>3, <1>4, <1>5, <1>7

LEMMA OnceInChannel ==
  ASSUME NEW S, NEW s \in Seq(S), IsInjective(s), NEW f \in S, f \notin ToSet(s)
  PROVE  IsInjective(Append(s, f)) /\ ToSet(Append(s, f)) = ToSet(s) \union {f}
<1> DEFINE t == Append(s, f)
<1>1. /\ Len(s) \in Nat /\ DOMAIN s = 1 .. Len(s) /\ DOMAIN t = 1 .. Len(s) + 1
      /\ \A j \in 1 .. Len(s) : t[j] = s[j]
      /\ t[Len(s) + 1] = f
  BY AppendProperties, LenProperties
<1> HIDE DEF t
<1>2. \A j \in DOMAIN t : j = Len(s) + 1 \/ (j \in DOMAIN s /\ t[j] = s[j] /\ s[j] # f)
  BY <1>1 DEF ToSet
<1>3. IsInjective(t)
  BY <1>1, <1>2 DEF IsInjective
<1>4. QED  BY <1>3, SetOfAppend DEF t

\* The flows stay the same, each with its packets.
LEMMA SameFlows ==
  ASSUME DInv, AllFlows' = AllFlows, processed' \in Nat, lost' \in Nat,
         processed' + lost + (IF counted THEN 0 ELSE 1) = processed + lost' + (IF counted' THEN 0 ELSE 1)
  PROVE  Accounted' /\ Told(AllFlows')
<1>1. Accounted /\ Told(AllFlows)
  BY DEF DInv, EveryPacketInOneFlow, Accounted, Told
<1>2. PICK n : n = PacketsIn(AllFlows)
  OBVIOUS
<1>3. n \in Nat /\ processed \in Nat /\ lost \in Nat
  BY <1>2, FlowSets
<1>4. PacketsIn(AllFlows') = n
  BY <1>2
<1>5. processed = n + lost + (IF counted THEN 0 ELSE 1)
  BY <1>1, <1>2 DEF Accounted
<1>6. processed' = n + lost' + (IF counted' THEN 0 ELSE 1)
  <2>1. PICK a \in {0, 1} : a = IF counted THEN 0 ELSE 1
    OBVIOUS
  <2>2. PICK b \in {0, 1} : b = IF counted' THEN 0 ELSE 1
    OBVIOUS
  <2>3. processed = n + lost + a /\ processed' + lost + a = processed + lost' + b
    BY <1>5, <2>1, <2>2
  <2>4. PICK p, l : p = processed' /\ l = lost'
    OBVIOUS
  <2>5. /\ p \in Nat /\ l \in Nat /\ n \in Nat /\ processed \in Nat /\ lost \in Nat
        /\ processed = n + lost + a /\ p + lost + a = processed + l + b
    BY <1>3, <2>3, <2>4
  <2>6. p = n + l + b
    BY <2>1, <2>2, <2>5
  <2>7. QED  BY <2>2, <2>4, <2>6
<1>7. Accounted'
  BY <1>4, <1>6 DEF Accounted
<1>8. QED  BY <1>1, <1>7

\* The packet in work starts a flow.
LEMMA OneFlowStarts ==
  ASSUME DInv, NEW f \in FlowType, f.packets = 1, AllFlows' = AllFlows \union {f},
         \A g \in AllFlows : g.key = f.key => g.first # f.first,
         processed' = processed, lost' = lost, ~counted, counted'
  PROVE  Accounted' /\ Told(AllFlows')
<1>1. Accounted /\ Told(AllFlows)
  BY DEF DInv, EveryPacketInOneFlow, Accounted, Told
<1>2. FewFlows(AllFlows) /\ f \notin AllFlows
  BY FlowSets
<1>3. PICK n : n = PacketsIn(AllFlows)
  OBVIOUS
<1>4. n \in Nat /\ lost \in Nat
  BY <1>3, FlowSets
<1>5. PacketsIn(AllFlows') = n + 1
  BY <1>2, <1>3, OneFlowMore
<1>6. processed = n + lost + 1
  BY <1>1, <1>3 DEF Accounted
<1>7. processed' = (n + 1) + lost' + 0
  BY <1>4, <1>6
<1>8. Accounted'
  BY <1>5, <1>7 DEF Accounted
<1>9. Told(AllFlows')
  BY <1>1 DEF Told
<1>10. QED  BY <1>8, <1>9

\* A flow goes on, with the packet in work or without.
LEMMA OneFlowGoesOn ==
  ASSUME DInv, NEW rest, NEW f \in FlowType, NEW n \in FlowType, n.key = f.key, n.first = f.first,
         AllFlows = rest \union {f}, AllFlows' = rest \union {n},
         \A g \in rest : g.key = f.key => g.first # f.first,
         processed' = processed, lost' = lost,
         \/ n.packets = f.packets /\ counted' = counted
         \/ n.packets = f.packets + 1 /\ ~counted /\ counted'
  PROVE  Accounted' /\ Told(AllFlows')
<1>1. Accounted /\ Told(AllFlows)
  BY DEF DInv, EveryPacketInOneFlow, Accounted, Told
<1>2. f \notin rest /\ n \notin rest
  OBVIOUS
<1>3. FewFlows(rest)
  <2>1. FewFlows(AllFlows) /\ rest \in SUBSET AllFlows
    BY FlowSets
  <2>2. QED  BY <2>1, FS_Subset DEF FewFlows
<1>4. f.packets \in Nat /\ n.packets \in Nat
  BY FlowSets
<1>5. PICK k : k = PacketsIn(rest)
  OBVIOUS
<1>6. /\ k \in Nat /\ PacketsIn(AllFlows) = k + f.packets /\ PacketsIn(AllFlows') = k + n.packets
  <2>1. k \in Nat /\ PacketsIn(rest \union {f}) = k + f.packets
    BY <1>2, <1>3, <1>4, <1>5, OneFlowMore
  <2>2. PacketsIn(rest \union {n}) = k + n.packets
    BY <1>2, <1>3, <1>4, <1>5, OneFlowMore
  <2>3. QED  BY <2>1, <2>2
<1>7. lost \in Nat /\ processed = k + f.packets + lost + (IF counted THEN 0 ELSE 1)
  BY <1>1, <1>6, FlowSets DEF Accounted
<1>8. processed' = k + n.packets + lost' + (IF counted' THEN 0 ELSE 1)
  BY <1>4, <1>6, <1>7
<1>9. Accounted'
  BY <1>6, <1>8 DEF Accounted
<1>10. Told(AllFlows')
  BY <1>1 DEF Told
<1>11. QED  BY <1>9, <1>10
LEMMA DeliveryFacts ==
  ASSUME DInv
  PROVE  /\ IsInjective(channel) /\ Accounted /\ Told(AllFlows)
         /\ ~failure => Delivery /\ History
         /\ \A p \in {"open", "capture", "consume", "replace", "snapshot", "interval", "scan", "scanPut",
                      "cleanup", "cleanPut", "delete"} : pc = p => ~failure /\ Headed(p)
         /\ pc \in {"consume", "replace", "capture", "scan"} => files > 0
         /\ pc \in {"cleanup", "cleanPut", "delete"} => files = 0
         /\ pc \in {"replace", "interval", "scanPut", "cleanPut", "delete"} => cache # <<>>
         /\ pc \in {"consume", "replace"} => packet.time = tick
<1>1. IsInjective(channel) /\ Accounted /\ Told(AllFlows)
  BY DEF DInv, EveryPacketInOneFlow, Accounted, Told
<1>2. ~failure => Delivery /\ History
  BY DEF DInv, HInv
<1>3. \A p \in {"open", "capture", "consume", "replace", "snapshot", "interval", "scan", "scanPut",
                "cleanup", "cleanPut", "delete"} : pc = p => ~failure /\ Headed(p)
  BY HistoryFacts DEF DInv, Headed
<1>4. /\ pc \in {"consume", "replace", "capture", "scan"} => files > 0
      /\ pc \in {"cleanup", "cleanPut", "delete"} => files = 0
  <2>1. files \in Nat /\ ControlInv
    BY FlowSets DEF DInv, HInv, MInv
  <2>2. QED  BY <2>1 DEF ControlInv, Headed
<1>5. /\ pc \in {"replace", "interval", "scanPut", "cleanPut", "delete"} => cache # <<>>
      /\ pc \in {"consume", "replace"} => packet.time = tick
  BY DEF DInv, HInv, MInv, FlowInv, Headed
<1>6. QED  BY <1>1, <1>2, <1>3, <1>4, <1>5

\* What a step may do with the flows that are held: a flow is put, or none.
Puts(f) == channel' = Append(channel, f) /\ HeldNames \ {NameOf(f)} \subseteq HeldNames'
Moves == \/ channel' = channel /\ HeldNames \subseteq HeldNames'
         \/ \E f \in ToSet(Held) : Puts(f)

\* A step that leaves the flows where they are.
LEMMA QuietDelivery ==
  ASSUME DInv, UNCHANGED <<cache, channel>>, tick' \in Nat, tick <= tick',
         processed' \in Nat, lost' \in Nat,
         processed' + lost + (IF counted THEN 0 ELSE 1) = processed + lost' + (IF counted' THEN 0 ELSE 1),
         \/ failure'
         \/ /\ ~failure /\ CountedInFlow' /\ (files' > 0 => files > 0)
            /\ Headed("delete")' <=> Headed("delete")
            /\ Headed("closed")' \/ pc' = "ended" => cache = <<>>
  PROVE  EveryPacketInOneFlow' /\ (failure' \/ (Delivery' /\ Moves))
<1>1. AllFlows' = AllFlows
  BY DEF AllFlows
<1>2. Accounted' /\ Told(AllFlows') /\ IsInjective(channel)'
  BY <1>1, SameFlows, DeliveryFacts
<1>3. ASSUME ~failure'
      PROVE  Delivery' /\ Moves /\ (pc' = "ended" => cache' = <<>>)
  <2>1. /\ Delivery /\ CountedInFlow' /\ (files' > 0 => files > 0)
        /\ Headed("delete")' <=> Headed("delete")
        /\ Headed("closed")' \/ pc' = "ended" => cache = <<>>
    BY <1>3, DeliveryFacts
  <2>2. Held' = Held
    BY <2>1 DEF Held
  <2>3. HeldOrPut'
    BY <2>1, <2>2 DEF Delivery, HeldOrPut
  <2>4. PutIsPast'
    <3>1. \A g \in ToSet(channel) : g.first < tick => g.first < tick'
      <4>1. \A g \in ToSet(channel) : g.first \in Nat
        BY FlowSets
      <4>2. tick \in Nat
        BY FlowSets
      <4>3. QED  BY <4>1, <4>2
    <3>2. QED  BY <2>1, <3>1 DEF Delivery, PutIsPast
  <2>5. Moves
    BY <2>2 DEF Moves, HeldNames
  <2>6. QED  BY <2>1, <2>3, <2>4, <2>5 DEF Delivery
<1>4. QED  BY <1>2, <1>3 DEF EveryPacketInOneFlow, Accounted, Told

\* A step that moves flows.
LEMMA MovingDelivery ==
  ASSUME Accounted', Told(AllFlows'), IsInjective(channel)', ~Headed("closed")', pc' # "ended",
         CountedInFlow', PutIsPast',
         \A f \in ToSet(Held') : \A g \in ToSet(channel') : f.key = g.key => f.first # g.first,
         Headed("delete")' => Last(cache)' \in ToSet(channel')
  PROVE  EveryPacketInOneFlow' /\ Delivery'
BY DEF EveryPacketInOneFlow, Delivery, HeldOrPut, Accounted, Told

LEMMA CreateDelivery ==
  ASSUME DInv, Create
  PROVE  EveryPacketInOneFlow' /\ Delivery' /\ Moves
<1>1. /\ pc = "consume" /\ Miss /\ cache' = Append(cache, NewFlow) /\ channel' = channel
      /\ pc' = "consumed" /\ counted' = TRUE
      /\ UNCHANGED <<files, tick, processed, lost>>
  BY DEF Create, Goto, Counted, timeVars
<1>2. /\ Delivery /\ packet.time = tick /\ files > 0 /\ NewFlow \in FlowType
      /\ ~counted /\ ~Headed("delete")
  <2>1. Delivery /\ packet.time = tick /\ files > 0
    BY <1>1, DeliveryFacts
  <2>2. NewFlow \in FlowType
    BY <1>1, FlowFacts DEF DInv, HInv, Headed
  <2>3. QED  BY <1>1, <2>1, <2>2 DEF Delivery, CountedInFlow, Headed
<1>3. ToSet(cache') = ToSet(cache) \union {NewFlow}
  BY <1>1, <1>2, FlowSets, SetOfAppend
<1>4. AllFlows' = AllFlows \union {NewFlow}
  BY <1>1, <1>3 DEF AllFlows
<1>5. \A g \in ToSet(channel) : g.first < tick
  BY <1>2 DEF Delivery, PutIsPast
<1>6. \A g \in ToSet(channel) : NewFlow.first # g.first
  BY <1>2, <1>5, FlowSets, NewFlowFacts
<1>7. \A g \in ToSet(cache) : g.key # NewFlow.key
  BY <1>1, NewFlowFacts DEF Miss, HasFlow, ToSet
<1>8. \A g \in AllFlows : g.key = NewFlow.key => g.first # NewFlow.first
  BY <1>6, <1>7 DEF AllFlows
<1>9. Accounted' /\ Told(AllFlows')
  BY <1>1, <1>2, <1>4, <1>8, NewFlowFacts, OneFlowStarts
<1>10. /\ ~Headed("closed")' /\ ~Headed("delete")' /\ ~Headed("consume")' /\ ~Headed("replace")'
       /\ Held' = cache'
  BY <1>1 DEF Headed, Held
<1>11. \A f \in ToSet(Held') : \A g \in ToSet(channel') : f.key = g.key => f.first # g.first
  <2>1. \A f \in ToSet(cache) : \A g \in ToSet(channel) : f.key = g.key => f.first # g.first
    BY <1>2 DEF Delivery, HeldOrPut, Held
  <2>2. QED  BY <1>1, <1>3, <1>6, <1>10, <2>1
<1>12. PutIsPast' /\ CountedInFlow' /\ IsInjective(channel)'
  BY <1>1, <1>5, <1>10, DeliveryFacts DEF PutIsPast, CountedInFlow
<1>13. Moves
  <2>1. Held = cache
    BY <1>2 DEF Held
  <2>2. QED  BY <1>1, <1>3, <1>10, <2>1 DEF Moves, HeldNames
<1>14. QED  BY <1>1, <1>9, <1>10, <1>11, <1>12, <1>13, MovingDelivery

\* A flow that leaves was not in the channel before.
LEMMA OneFlowLeaves ==
  ASSUME DInv, NEW f \in ToSet(Held), f \in FlowType, channel' = Append(channel, f), ~failure
  PROVE  /\ f \notin ToSet(channel) /\ IsInjective(channel')
         /\ ToSet(channel') = ToSet(channel) \union {f}
<1>1. f \notin ToSet(channel)
  BY DeliveryFacts DEF Delivery, HeldOrPut
<1>2. QED  BY <1>1, FlowSets, DeliveryFacts, OnceInChannel

LEMMA ReplaceDelivery ==
  ASSUME DInv, Replace \/ ReplaceFails
  PROVE  EveryPacketInOneFlow' /\ Delivery' /\ Moves
<1>1. PICK old : old = Last(cache)
  OBVIOUS
<1>2. PICK rest : rest = Front(cache)
  OBVIOUS
<1>3. /\ pc = "replace" /\ pc' = "consumed" /\ channel' = Append(channel, old)
      /\ counted' = TRUE /\ UNCHANGED <<files, tick, processed>>
      /\ \/ cache' = Append(rest, NewFlow) /\ lost' = lost
         \/ cache' = rest /\ lost' = lost + 1
  BY <1>1, <1>2 DEF Replace, ReplaceFails, Goto, Counted, timeVars
<1>4. /\ Delivery /\ History /\ ~failure /\ cache # <<>> /\ packet.time = tick /\ files > 0
      /\ Headed("replace") /\ ~Headed("delete")
  BY <1>3, DeliveryFacts DEF Headed
<1>5. /\ old.key = packet.key /\ old.first < tick
  BY <1>1, <1>4 DEF History, FlowInWork
<1>6. /\ rest \in Seq(FlowType) /\ ToSet(cache) = ToSet(rest) \union {old} /\ old \in FlowType
      /\ \A g \in ToSet(rest) : g.key # packet.key
  <2>1. rest \in Seq(FlowType) /\ old \in FlowType
    BY <1>1, <1>2, <1>4, FlowSets, FrontAndLast
  <2>2. ToSet(cache) = ToSet(rest) \union {old}
    BY <1>1, <1>2, <1>4, FlowSets, SetOfEnds
  <2>3. \A g \in ToSet(rest) : g.key # old.key
    BY <1>1, <1>2, <1>4, FlowSets, KeysOfEnds DEF History
  <2>4. QED  BY <1>5, <2>1, <2>2, <2>3
<1>7. /\ NewFlow \in FlowType /\ NewFlow.key = packet.key /\ NewFlow.first = tick /\ NewFlow.packets = 1
      /\ ~counted
  <2>1. NewFlow \in FlowType
    BY <1>4, FlowFacts DEF DInv, HInv
  <2>2. QED  BY <1>4, <2>1, NewFlowFacts DEF Delivery, CountedInFlow
<1>8. Held = cache
  BY <1>4 DEF Held
<1>9. /\ IsInjective(channel') /\ ToSet(channel') = ToSet(channel) \union {old}
  BY <1>3, <1>4, <1>6, <1>8, OneFlowLeaves
<1>10. \A g \in ToSet(channel') : g.first < tick /\ g.first \in Nat
  <2>1. \A g \in ToSet(channel) : g.first < tick
    BY <1>4 DEF Delivery, PutIsPast
  <2>2. QED  BY <1>5, <1>6, <1>9, <2>1, FlowSets
<1>11. ToSet(Append(rest, NewFlow)) = ToSet(rest) \union {NewFlow}
  BY <1>6, <1>7, SetOfAppend
<1>12. \A g \in ToSet(rest) \union ToSet(channel') : g.key = NewFlow.key => g.first # NewFlow.first
  BY <1>6, <1>7, <1>10, FlowSets
<1>13. AllFlows = ToSet(rest) \union ToSet(channel')
  BY <1>6, <1>9 DEF AllFlows
<1>14. Accounted' /\ Told(AllFlows')
  <2>1. CASE cache' = Append(rest, NewFlow) /\ lost' = lost
    <3>1. AllFlows' = AllFlows \union {NewFlow}
      BY <1>11, <1>13, <2>1 DEF AllFlows
    <3>2. \A g \in AllFlows : g.key = NewFlow.key => g.first # NewFlow.first
      BY <1>12, <1>13
    <3>3. QED  BY <1>3, <1>7, <2>1, <3>1, <3>2, OneFlowStarts
  <2>2. CASE cache' = rest /\ lost' = lost + 1
    <3>1. AllFlows' = AllFlows
      BY <1>13, <2>2 DEF AllFlows
    <3>2. processed \in Nat /\ lost \in Nat
      BY FlowSets
    <3>3. processed' + lost + (IF counted THEN 0 ELSE 1)
            = processed + lost' + (IF counted' THEN 0 ELSE 1)
      BY <1>3, <1>7, <2>2, <3>2
    <3>4. processed' \in Nat /\ lost' \in Nat
      BY <1>3, <2>2, <3>2
    <3>5. QED  BY <3>1, <3>3, <3>4, SameFlows
  <2>3. QED  BY <1>3, <2>1, <2>2
<1>15. /\ ~Headed("closed")' /\ ~Headed("delete")' /\ ~Headed("consume")' /\ ~Headed("replace")'
       /\ Held' = cache'
  BY <1>3 DEF Headed, Held
<1>16. \A f \in ToSet(Held') : \A g \in ToSet(channel') : f.key = g.key => f.first # g.first
  <2>1. ASSUME NEW f \in ToSet(rest), NEW g \in ToSet(channel'), f.key = g.key
        PROVE  f.first # g.first
    <3>1. g # old
      BY <1>5, <1>6, <2>1
    <3>2. g \in ToSet(channel) /\ f \in ToSet(Held)
      BY <1>6, <1>8, <1>9, <3>1
    <3>3. QED  BY <1>4, <2>1, <3>2 DEF Delivery, HeldOrPut
  <2>2. ASSUME NEW g \in ToSet(channel'), NewFlow.key = g.key
        PROVE  NewFlow.first # g.first
    BY <1>12, <2>2
  <2>3. ToSet(Held') \subseteq ToSet(rest) \union {NewFlow}
    BY <1>3, <1>11, <1>15
  <2>4. QED  BY <2>1, <2>2, <2>3
<1>17. PutIsPast' /\ CountedInFlow'
  BY <1>3, <1>10, <1>15 DEF PutIsPast, CountedInFlow
<1>18. Moves
  <2>1. ToSet(rest) \subseteq ToSet(Held')
    BY <1>3, <1>11, <1>15
  <2>2. ToSet(Held) = ToSet(rest) \union {old}
    BY <1>6, <1>8
  <2>3. Puts(old)
    BY <1>3, <2>1, <2>2 DEF Puts, HeldNames
  <2>4. QED  BY <2>2, <2>3 DEF Moves
<1>19. QED  BY <1>3, <1>9, <1>14, <1>15, <1>16, <1>17, <1>18, MovingDelivery

\* A flow gets a packet, a new interval or the last place.
LEMMA FlowGoesOnDelivery ==
  ASSUME DInv, NEW rest \in Seq(FlowType), NEW f \in FlowType, NEW n \in FlowType,
         n.key = f.key, n.first = f.first,
         ToSet(cache) = ToSet(rest) \union {f}, \A g \in ToSet(rest) : g.key # f.key,
         cache' = Append(rest, n), channel' = channel, ~failure, ~Headed("delete"),
         UNCHANGED <<files, tick, processed, lost>>,
         \/ n.packets = f.packets /\ counted' = counted
         \/ n.packets = f.packets + 1 /\ ~counted /\ counted',
         ~Headed("closed")', ~Headed("delete")', pc' # "ended", CountedInFlow'
  PROVE  EveryPacketInOneFlow' /\ Delivery' /\ Moves
<1>1. ToSet(cache') = ToSet(rest) \union {n}
  BY SetOfAppend
<1>2. \A x \in ToSet(cache) : \A g \in ToSet(channel) : x.key = g.key => x.first # g.first
  BY DeliveryFacts DEF Delivery, HeldOrPut, Held
<1>3. PICK others : others = ToSet(rest) \union ToSet(channel)
  OBVIOUS
<1>4. AllFlows = others \union {f} /\ AllFlows' = others \union {n}
  BY <1>1, <1>3 DEF AllFlows
<1>5. \A g \in others : g.key = f.key => g.first # f.first
  BY <1>2, <1>3
<1>6. Accounted' /\ Told(AllFlows')
  BY <1>4, <1>5, OneFlowGoesOn
<1>7. \A x \in ToSet(Held') : \A g \in ToSet(channel') : x.key = g.key => x.first # g.first
  <2>1. Held' = cache'
    BY DEF Held
  <2>2. QED  BY <1>1, <1>2, <2>1
<1>8. PutIsPast' /\ IsInjective(channel)'
  BY DeliveryFacts DEF Delivery, PutIsPast
<1>9. Moves
  <2>1. Held = cache /\ Held' = cache'
    BY DEF Held
  <2>2. NameOf(n) = NameOf(f)
    BY DEF NameOf
  <2>3. QED  BY <1>1, <2>1, <2>2 DEF Moves, HeldNames
<1>10. QED  BY <1>6, <1>7, <1>8, <1>9, MovingDelivery

LEMMA MoveDelivery ==
  ASSUME DInv, NEW i \in DOMAIN cache, Cut(i) \/ Update(i)
  PROVE  EveryPacketInOneFlow' /\ Delivery' /\ Moves
<1>1. PICK n : n = IF IsCut(cache[i]) THEN cache[i] ELSE Updated(cache[i])
  OBVIOUS
<1>2. PICK rest : rest = RemoveAt(cache, i)
  OBVIOUS
<1>3. PICK f : f = cache[i]
  OBVIOUS
<1>4. /\ pc = "consume" /\ HasFlow(i) /\ cache' = Append(rest, n)
      /\ UNCHANGED <<channel, files, tick, processed, lost>>
      /\ \/ IsCut(f) /\ pc' = "reap" /\ then' = "replace" /\ counted' = counted
         \/ /\ ~IsCut(f) /\ counted' = TRUE
            /\ (pc' = "reap" /\ then' = "consumed") \/ pc' = "snapshot"
  BY <1>1, <1>2, <1>3
  DEF Cut, Update, MovedToEnd, Counted, Reap, OnUpdate, Goto, timeVars, packetVars
<1>5. /\ Delivery /\ History /\ ~failure /\ ~counted /\ ~Headed("delete")
  <2>1. Delivery /\ History /\ ~failure
    BY <1>4, DeliveryFacts
  <2>2. QED  BY <1>4, <2>1 DEF Delivery, CountedInFlow, Headed
<1>6. f \in FlowType /\ Updated(f) \in FlowType
  BY <1>3, FlowSets, FlowFacts, LenProperties, ElementOfSeq DEF DInv, HInv
<1>7. /\ n \in FlowType /\ n.key = f.key /\ n.first = f.first
      /\ IsCut(f) => n.packets = f.packets
      /\ ~IsCut(f) => n.packets = f.packets + 1
  BY <1>1, <1>3, <1>6 DEF Updated, PacketsWithData, FlowType
<1>8. /\ rest \in Seq(FlowType) /\ ToSet(cache) = ToSet(rest) \union {f}
      /\ \A g \in ToSet(rest) : g.key # f.key
  <2>1. rest \in Seq(FlowType)
    BY <1>2, FlowSets, Removed
  <2>2. ToSet(cache) = ToSet(rest) \union {f}
    BY <1>2, <1>3, FlowSets, SetOfRemove
  <2>3. \A g \in ToSet(rest) : g.key # f.key
    BY <1>2, <1>3, <1>5, FlowSets, KeysOfRemove DEF History
  <2>4. QED  BY <2>1, <2>2, <2>3
<1>9. /\ ~Headed("closed")' /\ ~Headed("delete")' /\ pc' # "ended"
      /\ CountedInFlow'
  BY <1>4, <1>5 DEF Headed, CountedInFlow
<1>10. \/ n.packets = f.packets /\ counted' = counted
       \/ n.packets = f.packets + 1 /\ ~counted /\ counted'
  BY <1>4, <1>5, <1>7
<1>11. QED  BY <1>4, <1>5, <1>6, <1>7, <1>8, <1>9, <1>10, FlowGoesOnDelivery

LEMMA IntervalDelivery ==
  ASSUME DInv, NextInterval
  PROVE  EveryPacketInOneFlow' /\ Delivery' /\ Moves
<1>1. PICK n : n = [Last(cache) EXCEPT !.start = packet.time, !.end = packet.time + Interval]
  OBVIOUS
<1>2. PICK rest, f : rest = Front(cache) /\ f = Last(cache)
  OBVIOUS
<1>3. /\ pc = "interval" /\ pc' = "reap" /\ then' = "consumed" /\ cache' = Append(rest, n)
      /\ UNCHANGED <<channel, files, tick, processed, lost, counted>>
  BY <1>1, <1>2 DEF NextInterval, Reap, timeVars, packetVars
<1>4. Delivery /\ History /\ ~failure /\ cache # <<>> /\ counted /\ ~Headed("delete")
  <2>1. Delivery /\ History /\ ~failure /\ cache # <<>>
    BY <1>3, DeliveryFacts
  <2>2. counted = TRUE
    BY <1>3, <2>1, FlowSets DEF Delivery, CountedInFlow, Headed
  <2>3. QED  BY <1>3, <2>1, <2>2 DEF Headed
<1>5. /\ rest \in Seq(FlowType) /\ f \in FlowType /\ ToSet(cache) = ToSet(rest) \union {f}
      /\ \A g \in ToSet(rest) : g.key # f.key
  <2>1. rest \in Seq(FlowType) /\ f \in FlowType
    BY <1>2, <1>4, FlowSets, FrontAndLast
  <2>2. ToSet(cache) = ToSet(rest) \union {f}
    BY <1>2, <1>4, FlowSets, SetOfEnds
  <2>3. \A g \in ToSet(rest) : g.key # f.key
    BY <1>2, <1>4, FlowSets, KeysOfEnds DEF History
  <2>4. QED  BY <2>1, <2>2, <2>3
<1>6. n \in FlowType /\ n.key = f.key /\ n.first = f.first /\ n.packets = f.packets
  <2>1. n \in FlowType
    BY <1>1, <1>2, <1>5, FlowFacts DEF DInv, HInv
  <2>2. QED  BY <1>1, <1>2, <1>5, <2>1 DEF FlowType
<1>7. /\ ~Headed("closed")' /\ ~Headed("delete")' /\ pc' # "ended" /\ CountedInFlow'
  BY <1>3, <1>4 DEF Headed, CountedInFlow
<1>8. QED  BY <1>3, <1>4, <1>5, <1>6, <1>7, FlowGoesOnDelivery

\* The places of meter_scan() and meter_cleanup() have a counted packet.
LEMMA LeaveFacts ==
  ASSUME DInv, ScanPut \/ CleanupNext \/ CleanPut \/ Delete
  PROVE  /\ UNCHANGED <<failure, files, tick, processed, lost, counted>>
         /\ Delivery /\ History /\ ~failure /\ counted /\ cache # <<>>
         /\ ~Headed("closed")' /\ pc' # "ended" /\ CountedInFlow'
         /\ processed' \in Nat /\ lost' \in Nat
         /\ processed' + lost + (IF counted THEN 0 ELSE 1)
              = processed + lost' + (IF counted' THEN 0 ELSE 1)
<1>1. /\ pc \in {"scanPut", "cleanup", "cleanPut", "delete"}
      /\ pc' \in {"scan", "reap", "flush", "delete", "cleanup"}
      /\ pc' \in {"reap", "flush"} => then' \in {"cleanPut", "delete"}
      /\ UNCHANGED <<failure, files, tick, processed, lost, counted>>
  BY DEF ScanPut, CleanupNext, CleanPut, Delete, Reap, Flush, Goto, timeVars, packetVars
<1>2. Delivery /\ History /\ ~failure
  BY <1>1, DeliveryFacts
<1>3. cache # <<>>
  BY <1>1, DeliveryFacts DEF CleanupNext, ScanPut, CleanPut, Delete
<1>4. counted = TRUE
  BY <1>1, <1>2, FlowSets DEF Delivery, CountedInFlow, Headed
<1>5. ~Headed("closed")' /\ pc' # "ended" /\ CountedInFlow'
  BY <1>1, <1>4 DEF Headed, CountedInFlow
<1>6. QED  BY <1>1, <1>2, <1>3, <1>4, <1>5, FlowSets

LEMMA ScanPutDelivery ==
  ASSUME DInv, ScanPut
  PROVE  EveryPacketInOneFlow' /\ Delivery' /\ Moves
<1>1. PICK old, rest : old = Head(cache) /\ rest = Tail(cache)
  OBVIOUS
<1>2. /\ pc = "scanPut" /\ pc' = "scan" /\ channel' = Append(channel, old) /\ cache' = rest
      /\ UNCHANGED <<files, tick>>
  BY <1>1 DEF ScanPut, Goto, timeVars
<1>3. /\ Delivery /\ History /\ ~failure /\ cache # <<>> /\ Held = cache
  BY <1>2, LeaveFacts DEF Held, Headed
<1>4. /\ ToSet(cache) = ToSet(rest) \union {old} /\ old \in FlowType
      /\ \A g \in ToSet(rest) : g.key # old.key
  <2>1. old \in FlowType
    BY <1>1, <1>3, FlowSets, HeadAndTail
  <2>2. ToSet(cache) = ToSet(rest) \union {old}
    BY <1>1, <1>3, FlowSets, SetOfEnds
  <2>3. \A g \in ToSet(rest) : g.key # old.key
    BY <1>1, <1>3, FlowSets, KeysOfEnds DEF History
  <2>4. QED  BY <2>1, <2>2, <2>3
<1>5. /\ IsInjective(channel') /\ ToSet(channel') = ToSet(channel) \union {old}
  BY <1>2, <1>3, <1>4, OneFlowLeaves
<1>6. old.first < tick
  <2>1. old.first <= old.last
    BY <1>3, <1>4 DEF History, FlowsGrow
  <2>2. IsIdle(old)
    BY <1>1, <1>2, <1>3 DEF History, FlowInWork, Headed
  <2>3. IdleTimeout \in Nat \ {0}
    BY MeterAssumption
  <2>4. old.first \in Nat /\ old.last \in Nat /\ tick \in Nat
    BY <1>4, FlowSets
  <2>5. QED  BY <2>1, <2>2, <2>3, <2>4 DEF IsIdle
<1>7. PutIsPast'
  BY <1>2, <1>3, <1>5, <1>6 DEF Delivery, PutIsPast
<1>8. AllFlows' = AllFlows
  BY <1>2, <1>4, <1>5 DEF AllFlows
<1>9. Accounted' /\ Told(AllFlows')
  BY <1>8, LeaveFacts, SameFlows
<1>10. ~Headed("delete")' /\ Held' = rest
  BY <1>2 DEF Headed, Held
<1>11. \A f \in ToSet(Held') : \A g \in ToSet(channel') : f.key = g.key => f.first # g.first
  <2>1. \A f \in ToSet(cache) : \A g \in ToSet(channel) : f.key = g.key => f.first # g.first
    BY <1>3 DEF Delivery, HeldOrPut
  <2>2. QED  BY <1>4, <1>5, <1>10, <2>1
<1>12. Moves
  <2>1. Puts(old)
    BY <1>2, <1>3, <1>4, <1>10 DEF Puts, HeldNames
  <2>2. QED  BY <1>3, <1>4, <2>1 DEF Moves
<1>13. QED  BY <1>5, <1>7, <1>9, <1>10, <1>11, <1>12, LeaveFacts, MovingDelivery

LEMMA CleanPutDelivery ==
  ASSUME DInv, CleanPut
  PROVE  EveryPacketInOneFlow' /\ Delivery' /\ Moves
<1>1. PICK old, rest : old = Last(cache) /\ rest = Front(cache)
  OBVIOUS
<1>2. /\ pc = "cleanPut" /\ channel' = Append(channel, old) /\ cache' = cache
      /\ pc' = "delete" \/ (pc' = "flush" /\ then' = "delete")
      /\ UNCHANGED files
  BY <1>1 DEF CleanPut, Flush, Goto
<1>3. /\ Delivery /\ History /\ ~failure /\ cache # <<>> /\ Held = cache
  BY <1>2, LeaveFacts DEF Held, Headed
<1>4. /\ ToSet(cache) = ToSet(rest) \union {old} /\ old \in FlowType
      /\ \A g \in ToSet(rest) : g.key # old.key
  <2>1. old \in FlowType
    BY <1>1, <1>3, FlowSets, FrontAndLast
  <2>2. ToSet(cache) = ToSet(rest) \union {old}
    BY <1>1, <1>3, FlowSets, SetOfEnds
  <2>3. \A g \in ToSet(rest) : g.key # old.key
    BY <1>1, <1>3, FlowSets, KeysOfEnds DEF History
  <2>4. QED  BY <2>1, <2>2, <2>3
<1>5. /\ IsInjective(channel') /\ ToSet(channel') = ToSet(channel) \union {old}
  BY <1>2, <1>3, <1>4, OneFlowLeaves
<1>6. PutIsPast'
  BY <1>2, DeliveryFacts DEF PutIsPast
<1>7. AllFlows' = AllFlows
  BY <1>2, <1>4, <1>5 DEF AllFlows
<1>8. Accounted' /\ Told(AllFlows')
  BY <1>7, LeaveFacts, SameFlows
<1>9. Held' = rest /\ Last(cache)' = old
  BY <1>1, <1>2 DEF Headed, Held
<1>10. \A f \in ToSet(Held') : \A g \in ToSet(channel') : f.key = g.key => f.first # g.first
  <2>1. \A f \in ToSet(cache) : \A g \in ToSet(channel) : f.key = g.key => f.first # g.first
    BY <1>3 DEF Delivery, HeldOrPut
  <2>2. QED  BY <1>4, <1>5, <1>9, <2>1
<1>11. Moves
  <2>1. Puts(old)
    BY <1>2, <1>3, <1>4, <1>9 DEF Puts, HeldNames
  <2>2. QED  BY <1>3, <1>4, <2>1 DEF Moves
<1>12. QED  BY <1>5, <1>6, <1>8, <1>9, <1>10, <1>11, LeaveFacts, MovingDelivery

LEMMA CleanupDelivery ==
  ASSUME DInv, CleanupNext \/ Delete
  PROVE  EveryPacketInOneFlow' /\ Delivery' /\ Moves
<1>1. /\ pc \in {"cleanup", "delete"} /\ channel' = channel /\ UNCHANGED files
      /\ \/ pc = "cleanup" /\ cache' = Append(Tail(cache), Head(cache))
         \/ pc = "delete" /\ cache' = Front(cache)
      /\ ~Headed("delete")'
  BY DEF CleanupNext, Delete, Reap, Goto, Headed
<1>2. /\ Delivery /\ History /\ ~failure /\ cache # <<>>
  BY LeaveFacts
<1>3. Held' = cache'
  BY <1>1 DEF Held
<1>4. ToSet(cache') = ToSet(Held) /\ AllFlows' = AllFlows
  <2>1. CASE pc = "cleanup" /\ cache' = Append(Tail(cache), Head(cache))
    <3>1. Tail(cache) \in Seq(FlowType) /\ Head(cache) \in FlowType
      BY <1>2, FlowSets, HeadAndTail
    <3>2. ToSet(cache') = ToSet(Tail(cache)) \union {Head(cache)}
      <4>1. PICK t, h : t = Tail(cache) /\ h = Head(cache)
        OBVIOUS
      <4>2. ToSet(Append(t, h)) = ToSet(t) \union {h}
        <5>1. t \in Seq(FlowType) /\ h \in FlowType
          BY <3>1, <4>1
        <5>2. QED  BY <5>1, SetOfAppend
      <4>3. QED  BY <2>1, <4>1, <4>2
    <3>3. ToSet(cache') = ToSet(cache)
      BY <1>2, <3>2, FlowSets, SetOfEnds
    <3>4. QED  BY <1>1, <2>1, <3>3 DEF Held, Headed, AllFlows
  <2>2. CASE pc = "delete" /\ cache' = Front(cache)
    <3>1. Last(cache) \in ToSet(channel) /\ Held = Front(cache)
      BY <1>2, <2>2 DEF Delivery, HeldOrPut, Held, Headed
    <3>2. ToSet(cache) = ToSet(Front(cache)) \union {Last(cache)}
      BY <1>2, FlowSets, SetOfEnds
    <3>3. QED  BY <1>1, <2>2, <3>1, <3>2 DEF AllFlows
  <2>3. QED  BY <1>1, <2>1, <2>2
<1>5. Accounted' /\ Told(AllFlows')
  BY <1>4, LeaveFacts, SameFlows
<1>6. PutIsPast' /\ IsInjective(channel)'
  BY <1>1, DeliveryFacts DEF PutIsPast
<1>7. \A f \in ToSet(Held') : \A g \in ToSet(channel') : f.key = g.key => f.first # g.first
  BY <1>1, <1>2, <1>3, <1>4 DEF Delivery, HeldOrPut
<1>8. Moves
  BY <1>1, <1>3, <1>4 DEF Moves, HeldNames
<1>9. QED  BY <1>1, <1>5, <1>6, <1>7, <1>8, LeaveFacts, MovingDelivery

LEMMA DeliveryStep ==
  ASSUME DInv, [Next]_vars
  PROVE  EveryPacketInOneFlow' /\ (failure' \/ (Delivery' /\ Moves))
<1> DEFINE Goal == EveryPacketInOneFlow' /\ (failure' \/ (Delivery' /\ Moves))
<1> SUFFICES Goal
  OBVIOUS
<1>0. /\ tick \in Nat /\ files \in Nat /\ failure \in BOOLEAN /\ counted \in BOOLEAN
      /\ processed \in Nat /\ lost \in Nat
      /\ Times \subseteq Nat
      /\ pc \in {"reap", "flush"} => then \in Returns
      /\ ~failure => Delivery
  <2>1. failure \in BOOLEAN /\ ControlInv
    BY DEF DInv, HInv, MInv, TypeOK
  <2>2. QED  BY <2>1, FlowSets, DeliveryFacts, MeterAssumption DEF ControlInv
<1>A. ASSUME UNCHANGED <<cache, channel, tick, processed, lost, counted, failure>>,
             \/ failure
             \/ /\ (files' > 0 => files > 0)
                /\ Headed("consume")' \/ Headed("replace")' <=> Headed("consume") \/ Headed("replace")
                /\ Headed("delete")' <=> Headed("delete")
                /\ Headed("closed")' \/ pc' = "ended" => cache = <<>>
      PROVE  Goal
  <2>1. CASE failure
    BY <1>0, <1>A, <2>1, QuietDelivery
  <2>2. CASE ~failure
    <3>1. CountedInFlow'
      BY <1>0, <1>A, <2>2 DEF Delivery, CountedInFlow
    <3>2. QED  BY <1>0, <1>A, <2>2, <3>1, QuietDelivery
  <2>3. QED  BY <1>0, <2>1, <2>2
<1>B. ASSUME UNCHANGED <<cache, channel, tick, processed, lost, counted>>, failure'
      PROVE  Goal
  BY <1>0, <1>B, QuietDelivery
<1> HIDE DEF Goal
<1> USE DEF Goto, Reap, Flush, Fail,
            controlVars, timeVars, packetVars, flowVars, loopVars, sendVars
<1>1. CASE UNCHANGED vars
  <2>1. CASE failure
    BY <1>A, <1>1, <2>1 DEF vars
  <2>2. CASE ~failure
    <3>1. Headed("closed") \/ pc = "ended" => cache = <<>>
      BY <1>0, <2>2 DEF Delivery, HeldOrPut
    <3>2. QED  BY <1>A, <1>1, <3>1 DEF vars, Headed
  <2>3. QED  BY <2>1, <2>2
<1>2. ASSUME UNCHANGED <<pc, then, cache, channel, tick, processed, lost, counted, failure, files>>
      PROVE  Goal
  <2>1. CASE failure
    BY <1>A, <1>2, <2>1
  <2>2. CASE ~failure
    <3>1. Headed("closed") \/ pc = "ended" => cache = <<>>
      BY <1>0, <2>2 DEF Delivery, HeldOrPut
    <3>2. QED  BY <1>A, <1>2, <3>1 DEF Headed
  <2>3. QED  BY <2>1, <2>2
<1>3. ASSUME NEW i \in DOMAIN answer, NEW a, Answer(i, a)
      PROVE  Goal
  BY <1>2, <1>3 DEF Answer
<1>4. CASE OpenFails \/ SendFails \/ ReapRaises \/ ReapTimesOut \/ FlushTimesOut
  BY <1>B, <1>4 DEF OpenFails, SendFails, ReapRaises, ReapTimesOut, FlushTimesOut
<1>5. CASE Open \/ EndOfCapture \/ End
  <2>1. files' > 0 => files > 0
    BY <1>0, <1>5 DEF Open, EndOfCapture, End
  <2>2. UNCHANGED <<cache, channel, tick, processed, lost, counted, failure>>
    BY <1>5 DEF Open, EndOfCapture, End
  <2>3. /\ pc \in {"open", "capture", "closed"}
        /\ pc' \in {"open", "capture", "cleanup", "ended"}
        /\ pc' = "ended" => pc = "closed"
    BY <1>5 DEF Open, EndOfCapture, End
  <2>4. ~failure => (pc = "closed" => cache = <<>>)
    BY <1>0 DEF Delivery, HeldOrPut, Headed
  <2>5. QED  BY <1>0, <1>A, <2>1, <2>2, <2>3, <2>4 DEF Headed
<1>6. ASSUME NEW t \in Times, Ticker(t)
      PROVE  Goal
  <2>1. tick' \in Nat /\ tick <= tick'
    BY <1>0, <1>6 DEF Ticker
  <2>2. /\ UNCHANGED <<cache, channel, processed, lost, counted, failure, files>>
        /\ pc = "capture" /\ pc' = "scan"
    BY <1>6 DEF Ticker
  <2>3. /\ ~failure /\ CountedInFlow' /\ ~Headed("delete") /\ ~Headed("delete")'
        /\ ~Headed("closed")' /\ pc' # "ended"
    BY <2>2, DeliveryFacts DEF Delivery, CountedInFlow, Headed
  <2>4. QED  BY <1>0, <2>1, <2>2, <2>3, QuietDelivery DEF Goal
<1>7. ASSUME NEW t \in Times, NEW k \in Keys, NEW d \in {0, 1}, Packet(k, t, d)
      PROVE  Goal
  <2>1. tick' \in Nat /\ tick <= tick'
    BY <1>0, <1>7 DEF Packet, Larger
  <2>2. /\ UNCHANGED <<cache, channel, lost, failure, files>>
        /\ pc = "capture" /\ pc' = "consume"
        /\ processed' = processed + 1 /\ counted' = FALSE
    BY <1>7 DEF Packet
  <2>3. ~failure /\ counted
    BY <1>0, <2>2, DeliveryFacts DEF Delivery, CountedInFlow, Headed
  <2>4. /\ CountedInFlow' /\ ~Headed("delete") /\ ~Headed("delete")'
        /\ ~Headed("closed")' /\ pc' # "ended"
    BY <2>2 DEF CountedInFlow, Headed
  <2>5. /\ processed' \in Nat /\ lost' \in Nat
        /\ processed' + lost + (IF counted THEN 0 ELSE 1)
             = processed + lost' + (IF counted' THEN 0 ELSE 1)
    BY <1>0, <2>2, <2>3
  <2>6. QED  BY <2>1, <2>2, <2>3, <2>4, <2>5, QuietDelivery DEF Goal
<1>8. CASE Create
  BY <1>8, CreateDelivery DEF Goal
<1>9. CASE CreateFails
  <2>1. /\ UNCHANGED <<cache, channel, processed, failure, files, tick>>
        /\ pc = "consume" /\ pc' = "consumed" /\ lost' = lost + 1 /\ counted' = TRUE
    BY <1>9 DEF CreateFails, Counted
  <2>2. ~failure /\ ~counted
    BY <1>0, <2>1, DeliveryFacts DEF Delivery, CountedInFlow, Headed
  <2>3. /\ CountedInFlow' /\ ~Headed("delete") /\ ~Headed("delete")'
        /\ ~Headed("closed")' /\ pc' # "ended"
    BY <2>1 DEF CountedInFlow, Headed
  <2>4. /\ processed' \in Nat /\ lost' \in Nat
        /\ processed' + lost + (IF counted THEN 0 ELSE 1)
             = processed + lost' + (IF counted' THEN 0 ELSE 1)
    BY <1>0, <2>1, <2>2
  <2>5. QED  BY <1>0, <2>1, <2>2, <2>3, <2>4, QuietDelivery DEF Goal
<1>10. CASE Replace \/ ReplaceFails
  BY <1>10, ReplaceDelivery DEF Goal
<1>11. ASSUME NEW i \in DOMAIN cache, Cut(i) \/ Update(i)
       PROVE  Goal
  BY <1>11, MoveDelivery DEF Goal
<1>12. CASE Consumed \/ SendSnapshot \/ SkipSnapshot \/ ScanIdle \/ ScanEnds \/ CleanupEnds
  <2>1. /\ UNCHANGED <<cache, channel, tick, processed, lost, counted, failure, files>>
        /\ pc \in {"consumed", "snapshot", "scan", "cleanup"}
        /\ pc' \in {"flush", "scan", "reap", "interval", "capture"}
        /\ pc' \in {"flush", "reap"} => then' \in {"scan", "interval", "scanPut", "closed"}
        /\ pc' \in {"flush", "reap"} /\ then' = "closed" => cache = <<>>
    BY <1>12 DEF Consumed, SendSnapshot, SkipSnapshot, ScanIdle, ScanEnds, CleanupEnds
  <2>2. QED  BY <1>A, <2>1 DEF Headed
<1>13. CASE NextInterval
  BY <1>13, IntervalDelivery DEF Goal
<1>14. CASE ReapNext
  BY <1>2, <1>14 DEF ReapNext
<1>15. CASE ReapEnds \/ FlushReturns
  <2>1. UNCHANGED <<cache, channel, tick, processed, lost, counted, failure, files, then>>
    BY <1>15 DEF ReapEnds, FlushReturns
  <2>2. pc \in {"reap", "flush"} /\ pc' \in {then, "reap"} /\ then \in Returns
    BY <1>0, <1>15 DEF ReapEnds, FlushReturns
  <2>3. /\ Headed("consume")' \/ Headed("replace")' <=> Headed("consume") \/ Headed("replace")
        /\ Headed("delete")' <=> Headed("delete")
        /\ Headed("closed")' \/ pc' = "ended" => Headed("closed")
    BY <2>1, <2>2 DEF Headed, Returns
  <2>4. ~failure => (Headed("closed") => cache = <<>>)
    BY <1>0 DEF Delivery, HeldOrPut
  <2>5. QED  BY <1>0, <1>A, <2>1, <2>3, <2>4
<1>16. CASE ScanPut
  BY <1>16, ScanPutDelivery DEF Goal
<1>17. CASE CleanPut
  BY <1>17, CleanPutDelivery DEF Goal
<1>18. CASE CleanupNext \/ Delete
  BY <1>18, CleanupDelivery DEF Goal
<1>19. QED
  BY <1>1, <1>3, <1>4, <1>5, <1>6, <1>7, <1>8, <1>9, <1>10, <1>11, <1>12, <1>13,
     <1>14, <1>15, <1>16, <1>17, <1>18
  DEF Next, Step, Consume, Publish, Check, Expire

LEMMA DInit == Init => DInv
<1> SUFFICES ASSUME Init
             PROVE  DInv
  OBVIOUS
<1>1. HInv
  BY HInit
<1>2. /\ cache = <<>> /\ channel = <<>> /\ processed = 0 /\ lost = 0 /\ counted = TRUE
      /\ pc = "open"
  BY DEF Init
<1>3. /\ DOMAIN channel = {} /\ ToSet(cache) = {} /\ ToSet(channel) = {}
  BY <1>2, EmptySeq, LenProperties DEF ToSet
<1>4. AllFlows = {} /\ PacketsIn(AllFlows) = 0
  BY <1>3, NoFlows DEF AllFlows
<1>5. IsInjective(channel)
  BY <1>3 DEF IsInjective
<1>6. EveryPacketInOneFlow
  BY <1>2, <1>4, <1>5 DEF EveryPacketInOneFlow
<1>7. Held = cache /\ ~Headed("delete") /\ ~Headed("closed") /\ ~Headed("consume") /\ ~Headed("replace")
  BY <1>2 DEF Held, Headed
<1>8. CountedInFlow /\ HeldOrPut /\ PutIsPast
  BY <1>2, <1>3, <1>7 DEF CountedInFlow, HeldOrPut, PutIsPast
<1>9. QED  BY <1>1, <1>6, <1>8 DEF DInv, Delivery

\* The invariant behind the next theorem: a packet in work is counted when
\* it has left consume() for its flow, flows of the cache that have the key
\* of a flow in the channel began at another time, and until the cleanup the
\* flows in the channel began before the meter's time.
THEOREM DeliveryInductive == Spec => []DInv
<1>1. HInv /\ [Next]_vars => HInv'
  BY HistoryStep, TypeStep, ControlStep, SendsStep, FlowStep, OrderStep DEF HInv, MInv
<1>2. DInv /\ [Next]_vars => DInv'
  BY <1>1, DeliveryStep DEF DInv
<1>3. QED  BY <1>2, DInit, PTL DEF Spec

\* The counters of the meter and of its flows agree: every processed packet
\* is in exactly one flow of the cache or the channel, unless it is in work
\* or there was no memory, whatever is cut, expired, cleaned up or fails; a
\* key and a start name one flow; the channel gets no flow twice; and a meter
\* that ends without an error leaves none behind.
THEOREM NoPacketIsLost == Spec => []EveryPacketInOneFlow
<1>1. DInv => EveryPacketInOneFlow
  BY DEF DInv
<1>2. QED  BY <1>1, DeliveryInductive, PTL

-----------------------------------------------------------------------------
(* The meter as a source of flows.                                         *)

Apart == /\ HeldNames \subseteq Keys \X Nat
         /\ ~failure => \A n \in DOMAIN channel : NameOf(channel[n]) \notin HeldNames

LEMMA HeldInCache ==
  ASSUME DInv
  PROVE  ToSet(Held) \subseteq ToSet(cache)
<1>1. CASE Headed("delete")
  <2>1. cache # <<>>
    BY <1>1 DEF DInv, HInv, MInv, FlowInv
  <2>2. QED  BY <1>1, <2>1, FlowSets, SetOfEnds DEF Held
<1>2. CASE ~Headed("delete")
  BY <1>2 DEF Held
<1>3. QED  BY <1>1, <1>2

LEMMA HeldIsApart == DInv => Apart
<1> SUFFICES ASSUME DInv
             PROVE  Apart
  OBVIOUS
<1>1. ToSet(Held) \subseteq ToSet(cache)
  BY HeldInCache
<1>2. HeldNames \subseteq Keys \X Nat
  <2>1. ASSUME NEW f \in ToSet(Held) PROVE NameOf(f) \in Keys \X Nat
    <3>1. f \in FlowType
      BY <1>1, <2>1, FlowSets
    <3>2. QED  BY <3>1 DEF FlowType, NameOf
  <2>2. QED  BY <2>1 DEF HeldNames
<1>3. ASSUME ~failure, NEW n \in DOMAIN channel
      PROVE  NameOf(channel[n]) \notin HeldNames
  <2>1. channel[n] \in ToSet(channel)
    BY <1>3 DEF ToSet
  <2>2. \A f \in ToSet(Held) : f.key = channel[n].key => f.first # channel[n].first
    BY <1>3, <2>1, DeliveryFacts DEF Delivery, HeldOrPut
  <2>3. QED  BY <2>2 DEF HeldNames, NameOf
<1>4. QED  BY <1>2, <1>3 DEF Apart

\* An error is for good, and no flow is put after it.
LEMMA ErrorsAreFinal ==
  ASSUME DInv, [Next]_vars
  PROVE  /\ failure => failure'
         /\ failure' => channel' = channel
         /\ pc' = "ended" => pc \in {"closed", "ended"} /\ channel' = channel
         /\ pc = "ended" => pc' = "ended" /\ failure' = failure /\ UNCHANGED <<cache, channel, then>>
<1>0. pc \in {"reap", "flush"} => then \in Returns
  BY DEF DInv, HInv, MInv, ControlInv
<1> USE DEF Goto, Reap, Flush, Fail,
            controlVars, timeVars, packetVars, flowVars, loopVars, sendVars
<1>1. CASE ScanPut \/ CleanPut \/ Replace \/ ReplaceFails
  <2>1. /\ pc \in {"scanPut", "cleanPut", "replace"} /\ failure' = failure
        /\ pc' \in {"scan", "flush", "delete", "consumed"}
    BY <1>1 DEF ScanPut, CleanPut, Replace, ReplaceFails
  <2>2. ~failure
    BY <2>1, DeliveryFacts
  <2>3. QED  BY <2>1, <2>2
<1>2. ASSUME channel' = channel, failure => failure', pc # "ended",
             pc' = "ended" => pc = "closed"
      PROVE  /\ failure => failure'
             /\ failure' => channel' = channel
             /\ pc' = "ended" => pc \in {"closed", "ended"} /\ channel' = channel
             /\ pc = "ended" => pc' = "ended" /\ failure' = failure /\ UNCHANGED <<cache, channel, then>>
  BY <1>2
<1>3. CASE UNCHANGED vars
  BY <1>3 DEF vars
<1>4. CASE \E i \in DOMAIN answer, a \in {"stored", "refused"} : Answer(i, a)
  BY <1>2, <1>4 DEF Answer
<1>5. CASE \E k \in Keys, t \in Times, d \in {0, 1} : Packet(k, t, d)
  BY <1>2, <1>5 DEF Packet
<1>6. CASE \E t \in Times : Ticker(t)
  BY <1>2, <1>6 DEF Ticker
<1>7. CASE Open \/ OpenFails \/ EndOfCapture \/ End
  BY <1>2, <1>7 DEF Open, OpenFails, EndOfCapture, End
<1>8. CASE Create \/ CreateFails \/ Consumed \/ \E i \in DOMAIN cache : Cut(i) \/ Update(i)
  BY <1>2, <1>8 DEF Create, CreateFails, Consumed, Cut, Update, OnUpdate
<1>9. CASE Publish
  BY <1>2, <1>9 DEF Publish, SendSnapshot, SkipSnapshot, SendFails, NextInterval
<1>10. CASE Check
  BY <1>0, <1>2, <1>10
  DEF Check, ReapNext, ReapRaises, ReapTimesOut, ReapEnds, FlushReturns, FlushTimesOut, Returns
<1>11. CASE ScanIdle \/ ScanEnds \/ CleanupNext \/ Delete \/ CleanupEnds
  BY <1>2, <1>11 DEF ScanIdle, ScanEnds, CleanupNext, Delete, CleanupEnds
<1>12. QED
  BY <1>1, <1>3, <1>4, <1>5, <1>6, <1>7, <1>8, <1>9, <1>10, <1>11
  DEF Next, Step, Consume, Expire

LEMMA OneMoreName ==
  ASSUME NEW s \in Seq(FlowType), NEW f \in FlowType
  PROVE  [n \in DOMAIN Append(s, f) |-> NameOf(Append(s, f)[n])]
           = Append([n \in DOMAIN s |-> NameOf(s[n])], NameOf(f))
<1>1. /\ Len(s) \in Nat /\ DOMAIN s = 1 .. Len(s) /\ DOMAIN Append(s, f) = 1 .. Len(s) + 1
      /\ \A j \in 1 .. Len(s) : Append(s, f)[j] = s[j] /\ s[j] \in FlowType
      /\ Append(s, f)[Len(s) + 1] = f
  BY AppendProperties, LenProperties, ElementOfSeq
<1> DEFINE t == Append(s, f)
           a == [n \in 1 .. Len(s) |-> NameOf(s[n])]
           b == [n \in 1 .. Len(s) + 1 |-> NameOf(t[n])]
<1>2. \A g \in FlowType : NameOf(g) \in Keys \X Nat
  BY DEF NameOf, FlowType
<1>3. a \in Seq(Keys \X Nat) /\ Len(a) = Len(s)
  <2>1. a \in [1 .. Len(s) -> Keys \X Nat]
    BY <1>1, <1>2
  <2> HIDE DEF a
  <2>2. a \in Seq(Keys \X Nat)
    BY <1>1, <2>1, IsASeq
  <2>3. DOMAIN a = 1 .. Len(s)
    BY <2>1
  <2>4. QED  BY <1>1, <2>2, <2>3, LenProperties
<1>4. /\ DOMAIN Append(a, NameOf(f)) = 1 .. Len(s) + 1
      /\ \A j \in 1 .. Len(s) : Append(a, NameOf(f))[j] = a[j]
      /\ Append(a, NameOf(f))[Len(s) + 1] = NameOf(f)
      /\ Append(a, NameOf(f)) \in Seq(Keys \X Nat)
  <2>1. NameOf(f) \in Keys \X Nat
    BY <1>2
  <2> HIDE DEF a
  <2>2. QED  BY <1>3, <2>1, AppendProperties, LenProperties
<1>5. \A j \in 1 .. Len(s) : a[j] = NameOf(s[j])
  OBVIOUS
<1>6. \A j \in 1 .. Len(s) + 1 : Append(a, NameOf(f))[j] = NameOf(t[j])
  <2>1. \A j \in 1 .. Len(s) + 1 : j \in 1 .. Len(s) \/ j = Len(s) + 1
    BY <1>1
  <2> HIDE DEF a, t
  <2>2. QED  BY <1>1, <1>4, <1>5, <2>1 DEF t
<1>7. Append(a, NameOf(f)) = b
  <2>1. Append(a, NameOf(f)) = [n \in 1 .. Len(s) + 1 |-> Append(a, NameOf(f))[n]]
    <3>1. \A c \in Seq(Keys \X Nat) : c = [n \in DOMAIN c |-> c[n]]
      BY LenProperties
    <3>2. QED  BY <1>4, <3>1
  <2>2. QED  BY <1>6, <2>1
<1>8. QED  BY <1>1, <1>7

LEMMA SourceStep ==
  ASSUME DInv, Apart, Apart', failure' \in BOOLEAN, [Next]_vars
  PROVE  [Source!Next]_<<Outcome, IF failure THEN {} ELSE HeldNames, PutNames>>
<1>1. failure \in BOOLEAN /\ channel \in Seq(FlowType)
  BY FlowSets DEF DInv, HInv, MInv, TypeOK
<1>2. /\ failure => failure'
      /\ failure' => channel' = channel
      /\ pc' = "ended" => pc \in {"closed", "ended"} /\ channel' = channel
      /\ pc = "ended" => pc' = "ended" /\ failure' = failure /\ UNCHANGED <<cache, channel, then>>
  BY ErrorsAreFinal
<1>3. CASE failure'
  <2>1. PutNames' = PutNames
    BY <1>2, <1>3 DEF PutNames
  <2>2. Outcome' = "failed"
    BY <1>3 DEF Outcome
  <2>3. QED  BY <1>3, <2>1, <2>2 DEF Source!Next, Source!Fail
<1>4. CASE ~failure' /\ pc = "ended"
  <2>1. UNCHANGED <<failure, pc, then, cache, channel>>
    BY <1>2, <1>4
  <2>2. Outcome' = Outcome /\ PutNames' = PutNames /\ HeldNames' = HeldNames
    BY <2>1 DEF Outcome, PutNames, HeldNames, Held, Headed
  <2>3. QED  BY <2>1, <2>2
<1>5. CASE ~failure' /\ pc # "ended" /\ pc' = "ended"
  <2>1. ~failure /\ pc = "closed" /\ channel' = channel
    BY <1>1, <1>2, <1>5
  <2>2. PutNames' = PutNames /\ Outcome = "runs" /\ Outcome' = "done"
    BY <1>5, <2>1 DEF PutNames, Outcome
  <2>3. cache = <<>> /\ Held = cache /\ Held' = cache'
    BY <1>5, <2>1, DeliveryFacts DEF Delivery, HeldOrPut, Held, Headed
  <2>4. cache' = <<>>
    BY <1>5, DeliveryStep DEF EveryPacketInOneFlow
  <2>5. ToSet(<<>>) = {}
    BY EmptySeq, LenProperties DEF ToSet
  <2>6. HeldNames = {} /\ HeldNames' = {}
    BY <2>3, <2>4, <2>5 DEF HeldNames
  <2>7. QED  BY <1>5, <2>1, <2>2, <2>6 DEF Source!Next, Source!Finish
<1>6. CASE ~failure' /\ pc # "ended" /\ pc' # "ended"
  <2>1. ~failure /\ Outcome = "runs" /\ Outcome' = "runs" /\ Moves
    BY <1>1, <1>2, <1>6, DeliveryStep DEF Outcome
  <2>2. Source!NewFlows
    <3>1. HeldNames' \subseteq Keys \X Nat
      BY DEF Apart
    <3>2. \A n \in DOMAIN PutNames' : PutNames'[n] \notin HeldNames'
      BY <1>6 DEF Apart, PutNames
    <3>3. QED  BY <1>6, <3>1, <3>2 DEF Source!NewFlows
  <2>3. CASE channel' = channel /\ HeldNames \subseteq HeldNames'
    <3>1. PutNames' = PutNames
      BY <2>3 DEF PutNames
    <3>2. QED  BY <1>6, <2>1, <2>2, <2>3, <3>1 DEF Source!Next, Source!Begin
  <2>4. ASSUME NEW f \in ToSet(Held), Puts(f)
        PROVE  Source!Next
    <3>1. f \in FlowType
      BY HeldInCache, FlowSets
    <3>2. PutNames' = Append(PutNames, NameOf(f))
      BY <1>1, <2>4, <3>1, OneMoreName DEF Puts, PutNames
    <3>3. NameOf(f) \in HeldNames /\ HeldNames \ {NameOf(f)} \subseteq HeldNames'
      BY <2>4 DEF Puts, HeldNames
    <3>4. QED  BY <1>6, <2>1, <2>2, <3>2, <3>3 DEF Source!Next, Source!Put
  <2>5. QED  BY <2>1, <2>3, <2>4 DEF Moves
<1>7. QED  BY <1>3, <1>4, <1>5, <1>6

\* To the streamer a meter is a source of flows: whatever is cut, expired,
\* cleaned up or fails, the flows that it holds come into the channel one at
\* a time, none comes twice or after an error, and a meter that ends without
\* an error holds none.
THEOREM MeterIsAFlowSource == Spec => ImplementsFlowSource
<1>1. Init => Source!Init
  <2> SUFFICES ASSUME Init
               PROVE  Source!Init
    OBVIOUS
  <2>1. cache = <<>> /\ channel = <<>> /\ ~failure /\ pc = "open"
    BY DEF Init
  <2>2. DOMAIN channel = {} /\ ToSet(<<>>) = {}
    BY <2>1, EmptySeq, LenProperties DEF ToSet
  <2>3. PutNames = <<>>
    BY <2>2 DEF PutNames
  <2>4. HeldNames = {}
    BY <2>1, <2>2 DEF HeldNames, Held, Headed
  <2>5. QED  BY <2>1, <2>3, <2>4 DEF Source!Init, Outcome
<1>2. DInv => Apart /\ failure \in BOOLEAN
  BY HeldIsApart DEF DInv, HInv, MInv, TypeOK
<1>3. DInv /\ Apart /\ (Apart /\ failure \in BOOLEAN)' /\ [Next]_vars
        => [Source!Next]_<<Outcome, IF failure THEN {} ELSE HeldNames, PutNames>>
  BY SourceStep
<1>4. QED  BY <1>1, <1>2, <1>3, DeliveryInductive, PTL DEF Spec, ImplementsFlowSource, Source!Spec
=============================================================================
