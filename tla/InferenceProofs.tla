-------------------------- MODULE InferenceProofs --------------------------
(***************************************************************************)
(* Proofs about Inference, for any number of replicas, partitions and      *)
(* records, any batch size and any bounds.                                 *)
(***************************************************************************)
EXTENDS Inference, TLAPS

-----------------------------------------------------------------------------
(* Type correctness of each step.  The counts of a record stay natural     *)
(* numbers only because they add up, so the step starts from IInv.         *)

LEMMA ChunkType ==
  ASSUME TypeOK, CurrentIsOpen, NEW r \in Replicas, pc[r] = "enqueue"
  PROVE  /\ Current(r) \in Records
         /\ Chunk(r) \in Nat
         /\ Chunk(r) <= BatchSize - size[r]
         /\ Chunk(r) <= Rows[Current(r)] - enqueued[r][Current(r)]
<1>1. Current(r) \in Records /\ enqueued[r][Current(r)] < Rows[Current(r)]
  BY DEF CurrentIsOpen, InHand, Open, TypeOK
<1>2. size[r] \in 0 .. BatchSize /\ enqueued[r][Current(r)] \in Nat /\ Rows[Current(r)] \in Nat
  BY <1>1, InferenceAssumption DEF TypeOK
<1>3. QED  BY <1>1, <1>2, InferenceAssumption DEF Chunk, Lesser

LEMMA AppendType ==
  ASSUME TypeOK, RowsAddUp, NEW r \in Replicas, AppendBatch(r)
  PROVE  published' \in [Records -> SUBSET Nat]
<1>1. ASSUME NEW x \in Records
      PROVE  InBatch(r, x) \subseteq Nat
  <2>1. enqueued[r][x] \in Nat /\ contribution[r][x] \in Nat
    BY <1>1 DEF TypeOK
  <2>2. contribution[r][x] <= enqueued[r][x]
    BY <1>1, <2>1 DEF RowsAddUp
  <2>3. QED  BY <2>1, <2>2 DEF InBatch
<1>2. QED  BY <1>1 DEF AppendBatch, TypeOK

LEMMA RemainingType ==
  ASSUME TypeOK, RowsAddUp, NEW r \in Replicas, NEW x \in Records
  PROVE  /\ contribution[r][x] <= remaining[r][x]
         /\ remaining[r][x] - contribution[r][x] \in Nat
<1>1. /\ enqueued[r][x] \in Nat /\ contribution[r][x] \in Nat /\ remaining[r][x] \in Nat
      /\ Rows[x] \in Nat
  BY InferenceAssumption DEF TypeOK
<1>2. CASE x \in Open(r)
  BY <1>1, <1>2 DEF RowsAddUp
<1>3. CASE x \notin Open(r)
  BY <1>1, <1>3 DEF RowsAddUp
<1>4. QED  BY <1>2, <1>3

LEMMA TakenType ==
  ASSUME TypeOK, NEW r \in Replicas, NEW p \in Partitions, Takes(r, p)
  PROVE  /\ <<p, next[r][p]>> \in Records
         /\ next[r][p] \in 0 .. LogEnd - 1
<1>1. next[r][p] \in 0 .. LogEnd /\ position[r][p] \in 0 .. LogEnd
  BY DEF TypeOK
<1>2. next[r][p] < position[r][p]
  BY DEF Takes, HasPolled
<1>3. QED  BY <1>1, <1>2, InferenceAssumption DEF Records

LEMMA ObserveType ==
  ASSUME TypeOK, NEW r \in Replicas, NEW p \in Partitions, Observe(r, p)
  PROVE  /\ turn' \in [Replicas -> Partitions]
         /\ next' \in [Replicas -> [Partitions -> 0 .. LogEnd]]
         /\ pending' \in [Replicas -> SUBSET Records]
         /\ <<p, next[r][p]>> \in Records
<1>1. <<p, next[r][p]>> \in Records /\ next[r][p] + 1 \in 0 .. LogEnd
  BY TakenType, InferenceAssumption DEF Observe
<1>2. next' \in [Replicas -> [Partitions -> 0 .. LogEnd]]
  BY <1>1 DEF Observe, TypeOK
<1>3. turn' \in [Replicas -> Partitions]
  BY DEF Observe, TypeOK
<1>4. pending[r] \union {<<p, next[r][p]>>} \in SUBSET Records
  BY <1>1 DEF TypeOK
<1>5. pending' \in [Replicas -> SUBSET Records]
  BY <1>4 DEF Observe, TypeOK
<1>6. QED  BY <1>1, <1>2, <1>3, <1>5

LEMMA TypeStep ==
  ASSUME IInv, [Next]_vars
  PROVE  TypeOK'
<1> USE InferenceAssumption DEF IInv, TypeOK, PCs, outputVars, groupVars, controlVars,
        fetchVars, trackerVars, batchVars
<1>1. CASE UNCHANGED vars
  BY <1>1 DEF vars
<1>2. CASE Rebalance
  BY <1>2 DEF Rebalance
<1>3. ASSUME NEW r \in Replicas, Poll(r) PROVE TypeOK'
  BY <1>3 DEF Poll
<1>4. ASSUME NEW r \in Replicas, EmptyPoll(r) PROVE TypeOK'
  BY <1>4 DEF EmptyPoll, Flush
<1>5. ASSUME NEW r \in Replicas, Drain(r) PROVE TypeOK'
  BY <1>5 DEF Drain, Flush
<1>6. ASSUME NEW r \in Replicas, EndOfRecords(r) PROVE TypeOK'
  BY <1>6 DEF EndOfRecords
<1>7. ASSUME NEW r \in Replicas, Enqueue(r) PROVE TypeOK'
  BY <1>7, ChunkType DEF Enqueue
<1>8. ASSUME NEW r \in Replicas, PublishAcked(r) PROVE TypeOK'
  BY <1>8, AppendType, RemainingType DEF PublishAcked, ResetBatch, MarkCompleted, Zeros
<1>9. ASSUME NEW r \in Replicas, PublishFails(r) PROVE TypeOK'
  BY <1>9, AppendType DEF PublishFails, Disturb, Fail
<1>10. ASSUME NEW r \in Replicas, CommitAcked(r) PROVE TypeOK'
  BY <1>10 DEF CommitAcked, Offsets
<1>11. ASSUME NEW r \in Replicas, CommitFails(r) PROVE TypeOK'
  BY <1>11 DEF CommitFails, Offsets, Disturb, Fail
<1>12. ASSUME NEW r \in Replicas, HandleSignal(r) PROVE TypeOK'
  BY <1>12 DEF HandleSignal, Disturb
<1>13. ASSUME NEW r \in Replicas, Close(r) PROVE TypeOK'
  BY <1>13 DEF Close, End, LeaveGroup, Zeros
<1>14. ASSUME NEW r \in Replicas, Crash(r) PROVE TypeOK'
  BY <1>14 DEF Crash, Disturb, End, LeaveGroup, Zeros
<1>15. ASSUME NEW r \in Replicas, Restart(r) PROVE TypeOK'
  BY <1>15 DEF Restart
<1>16. ASSUME NEW r \in Replicas, Evict(r) PROVE TypeOK'
  BY <1>16 DEF Evict, Disturb, LeaveGroup
<1>17. ASSUME NEW r \in Replicas, NEW p \in Partitions, Accept(r, p) PROVE TypeOK'
  <2>1. Rows[<<p, next[r][p]>>] \in Nat
    BY <1>17, ObserveType DEF Accept
  <2>2. /\ remaining' \in [Replicas -> [Records -> Nat]]
        /\ enqueued' \in [Replicas -> [Records -> Nat]]
    BY <1>17, <2>1, ObserveType DEF Accept
  <2>3. QED  BY <1>17, <2>2, ObserveType DEF Accept
<1>18. ASSUME NEW r \in Replicas, NEW p \in Partitions, Reject(r, p) PROVE TypeOK'
  <2>1. /\ skipped' \subseteq Records
        /\ complete' \in [Replicas -> SUBSET Records]
    BY <1>18, ObserveType DEF Reject, MarkCompleted
  <2>2. QED  BY <1>18, <2>1, ObserveType DEF Reject, MarkCompleted
<1>19. ASSUME NEW r \in Replicas, NEW p \in Partitions, ObserveRaises(r, p) PROVE TypeOK'
  BY <1>19 DEF ObserveRaises, Fail
<1>20. QED
  BY <1>1, <1>2, <1>3, <1>4, <1>5, <1>6, <1>7, <1>8, <1>9, <1>10, <1>11, <1>12, <1>13, <1>14,
     <1>15, <1>16, <1>17, <1>18, <1>19 DEF Next, Step

-----------------------------------------------------------------------------
(* What is handled stays handled, and offsets only move over handled       *)
(* records.                                                                *)

LEMMA RecordParts ==
  ASSUME NEW x \in Records
  PROVE  x[1] \in Partitions /\ x[2] \in Nat /\ x[2] < LogEnd /\ x = <<x[1], x[2]>>
BY InferenceAssumption DEF Records

\* Only these actions touch the output topics or the offsets.
LEMMA Effects ==
  ASSUME [Next]_vars
  PROVE  \/ UNCHANGED <<outputVars, committed>>
         \/ \E r \in Replicas : AppendBatch(r) /\ UNCHANGED <<skipped, committed>>
         \/ skipped \subseteq skipped' /\ UNCHANGED <<published, committed>>
         \/ \E r \in Replicas : committed' \in Offsets(r) /\ UNCHANGED outputVars
<1> USE DEF outputVars
<1>1. CASE UNCHANGED vars
  BY <1>1 DEF vars
<1>2. CASE Rebalance
  BY <1>2 DEF Rebalance
<1>3. ASSUME NEW r \in Replicas, Poll(r) \/ EmptyPoll(r) \/ Drain(r) \/ EndOfRecords(r)
      PROVE  UNCHANGED <<outputVars, committed>>
  BY <1>3 DEF Poll, EmptyPoll, Drain, Flush, EndOfRecords
<1>4. ASSUME NEW r \in Replicas, Enqueue(r)
      PROVE  UNCHANGED <<outputVars, committed>>
  BY <1>4 DEF Enqueue
<1>5. ASSUME NEW r \in Replicas, HandleSignal(r) \/ Restart(r) \/ Evict(r)
      PROVE  UNCHANGED <<outputVars, committed>>
  BY <1>5 DEF HandleSignal, Restart, Evict
<1>6. ASSUME NEW r \in Replicas, Close(r) \/ Crash(r)
      PROVE  UNCHANGED <<outputVars, committed>>
  BY <1>6 DEF Close, Crash, End
<1>7. ASSUME NEW r \in Replicas, NEW p \in Partitions, Accept(r, p) \/ ObserveRaises(r, p)
      PROVE  UNCHANGED <<outputVars, committed>>
  BY <1>7 DEF Accept, ObserveRaises
<1>8. ASSUME NEW r \in Replicas, NEW p \in Partitions, Reject(r, p)
      PROVE  skipped \subseteq skipped' /\ UNCHANGED <<published, committed>>
  BY <1>8 DEF Reject
<1>9. ASSUME NEW r \in Replicas, PublishAcked(r)
      PROVE  AppendBatch(r) /\ UNCHANGED <<skipped, committed>>
  BY <1>9 DEF PublishAcked, ResetBatch
<1>10. ASSUME NEW r \in Replicas, PublishFails(r)
       PROVE  (AppendBatch(r) \/ UNCHANGED published) /\ UNCHANGED <<skipped, committed>>
  BY <1>10 DEF PublishFails
<1>11. ASSUME NEW r \in Replicas, CommitAcked(r)
       PROVE  committed' \in Offsets(r) /\ UNCHANGED outputVars
  BY <1>11 DEF CommitAcked
<1>12. ASSUME NEW r \in Replicas, CommitFails(r)
       PROVE  (committed' \in Offsets(r) \/ UNCHANGED committed) /\ UNCHANGED outputVars
  BY <1>12 DEF CommitFails
<1>13. QED
  BY <1>1, <1>2, <1>3, <1>4, <1>5, <1>6, <1>7, <1>8, <1>9, <1>10, <1>11, <1>12, Zenon
     DEF Next, Step

LEMMA OutputGrows ==
  ASSUME TypeOK, [Next]_vars
  PROVE  /\ skipped \subseteq skipped'
         /\ \A x \in Records : published[x] \subseteq published'[x]
BY Effects DEF outputVars, AppendBatch, TypeOK

LEMMA HandledGrows ==
  ASSUME TypeOK, [Next]_vars
  PROVE  Handled \subseteq Handled'
BY OutputGrows DEF Handled

\* An offset that is offered lies one past a completed record whose
\* predecessors in the queue are complete; those outside of it are handled.
LEMMA OffsetsAreCovered ==
  ASSUME TypeOK, CompleteIsHandled, NoGaps, NEW r \in Replicas, NEW c \in Offsets(r),
         NEW p \in Partitions, c[p] # committed[p], NEW o \in 0 .. c[p] - 1
  PROVE  <<p, o>> \in Handled
<1> DEFINE x == <<p, c[p] - 1>>
<1>1. x \in CompletedPrefix(pending[r], complete[r]) /\ c[p] \in 0 .. LogEnd
  BY DEF Offsets
<1>2. x \in pending[r] /\ \A y \in pending[r] : y[1] = p /\ y[2] <= c[p] - 1 => y \in complete[r]
  BY <1>1 DEF CompletedPrefix
<1>3. CASE o = c[p] - 1
  <2>1. x \in complete[r]
    BY <1>1, <1>2, InferenceAssumption
  <2>2. QED  BY <2>1, <1>3 DEF CompleteIsHandled
<1>4. CASE o < c[p] - 1
  <2>1. o \in 0 .. x[2] - 1
    BY <1>1, <1>4, InferenceAssumption
  <2>2. <<p, o>> \in pending[r] \union Handled
    BY <1>2, <2>1 DEF NoGaps
  <2>3. <<p, o>> \in pending[r] => <<p, o>> \in complete[r]
    BY <1>1, <1>2, <1>4, InferenceAssumption
  <2>4. QED  BY <2>2, <2>3 DEF CompleteIsHandled
<1>5. QED  BY <1>1, <1>3, <1>4, InferenceAssumption

LEMMA CommittedStep ==
  ASSUME IInv, [Next]_vars
  PROVE  CommittedIsHandled'
<1> USE DEF IInv
<1>1. Handled \subseteq Handled'
  BY HandledGrows
<1>2. CASE UNCHANGED committed
  BY <1>1, <1>2 DEF CommittedIsHandled
<1>3. ASSUME NEW r \in Replicas, committed' \in Offsets(r)
      PROVE  CommittedIsHandled'
  <2> SUFFICES ASSUME NEW p \in Partitions, NEW o \in 0 .. committed'[p] - 1
               PROVE  <<p, o>> \in Handled
    BY <1>1 DEF CommittedIsHandled
  <2>1. CASE committed'[p] = committed[p]
    BY <2>1 DEF CommittedIsHandled
  <2>2. CASE committed'[p] # committed[p]
    BY <2>2, <1>3, OffsetsAreCovered
  <2>3. QED  BY <2>1, <2>2
<1>4. QED  BY <1>2, <1>3, Effects

-----------------------------------------------------------------------------
(* The steps that leave the queues, the batch and the for loop alone, and  *)
(* how they may move a replica.                                            *)

Moves(r) ==
  \/ pc'[r] = pc[r] /\ then'[r] = then[r] /\ failed'[r] = failed[r] /\ turn'[r] = turn[r]
  \/ pc[r] \in {"poll", "records"} /\ pc'[r] \in {"poll", "records", "close"}
  \/ pc[r] = "poll" /\ pc'[r] = "publish" /\ then'[r] # "enqueue"
  \/ pc'[r] = "close" /\ failed'[r]
  \/ pc[r] = "down" /\ pc'[r] = "poll"

Quiet == UNCHANGED <<trackerVars, batchVars, next>> /\ \A r \in Replicas : Moves(r)

Ends(r) == End(r) /\ \A q \in Replicas : q # r => failed'[q] = failed[q]

LEMMA StepKinds ==
  ASSUME TypeOK, [Next]_vars
  PROVE  \/ Quiet
         \/ Rebalance
         \/ \E r \in Replicas : Enqueue(r) \/ PublishAcked(r) \/ CommitAcked(r) \/ Ends(r)
         \/ \E r \in Replicas, p \in Partitions : Accept(r, p) \/ Reject(r, p)
<1> USE DEF Quiet, Moves, TypeOK, controlVars, fetchVars, trackerVars, batchVars
<1>1. CASE UNCHANGED vars
  BY <1>1 DEF vars
<1>2. ASSUME NEW r \in Replicas, Poll(r) PROVE Quiet
  BY <1>2 DEF Poll
<1>3. ASSUME NEW r \in Replicas, EmptyPoll(r) PROVE Quiet
  BY <1>3 DEF EmptyPoll, Flush
<1>4. ASSUME NEW r \in Replicas, Drain(r) PROVE Quiet
  BY <1>4 DEF Drain, Flush
<1>5. ASSUME NEW r \in Replicas, EndOfRecords(r) PROVE Quiet
  BY <1>5 DEF EndOfRecords
<1>6. ASSUME NEW r \in Replicas, PublishFails(r) PROVE Quiet
  BY <1>6 DEF PublishFails, Fail
<1>7. ASSUME NEW r \in Replicas, CommitFails(r) PROVE Quiet
  BY <1>7 DEF CommitFails, Fail
<1>8. ASSUME NEW r \in Replicas, HandleSignal(r) PROVE Quiet
  BY <1>8 DEF HandleSignal
<1>9. ASSUME NEW r \in Replicas, Restart(r) PROVE Quiet
  BY <1>9 DEF Restart
<1>10. ASSUME NEW r \in Replicas, Evict(r) PROVE Quiet
  BY <1>10 DEF Evict
<1>11. ASSUME NEW r \in Replicas, NEW p \in Partitions, ObserveRaises(r, p) PROVE Quiet
  BY <1>11 DEF ObserveRaises, Fail
<1>12. ASSUME NEW r \in Replicas, Close(r) \/ Crash(r) PROVE Ends(r)
  BY <1>12 DEF Close, Crash, Ends
<1> HIDE DEF Quiet
<1>13. QED
  BY <1>1, <1>2, <1>3, <1>4, <1>5, <1>6, <1>7, <1>8, <1>9, <1>10, <1>11, <1>12, Zenon
     DEF Next, Step

\* A record that is observed is new in its queue, and the last one there.
LEMMA ObservedIsLast ==
  ASSUME TypeOK, NEW r \in Replicas, NEW p \in Partitions, Observe(r, p)
  PROVE  /\ <<p, next[r][p]>> \in Records
         /\ <<p, next[r][p]>> \notin pending[r]
         /\ \A x \in pending[r] : x[1] = p => x[2] < next[r][p]
<1>1. <<p, next[r][p]>> \in Records /\ next[r][p] \in Nat
  BY ObserveType, TakenType, InferenceAssumption DEF Observe
<1>2. ASSUME NEW x \in pending[r], x[1] = p
      PROVE  x[2] < next[r][p]
  BY <1>1, <1>2, RecordParts DEF Observe, OutOfOrder, TypeOK
<1>3. QED  BY <1>1, <1>2

\* A batch that is acknowledged puts every row that was enqueued in the output
\* topic, and completes exactly the records that have no row left.
LEMMA PublishedRows ==
  ASSUME IInv, NEW r \in Replicas, PublishAcked(r), NEW x \in Open(r)
  PROVE  /\ x \in Records
         /\ remaining'[r][x] = Rows[x] - enqueued[r][x]
         /\ 1 .. enqueued[r][x] \subseteq published'[x]
         /\ enqueued[r][x] = Rows[x] => x \in Handled'
<1>1. x \in Records
  BY DEF IInv, TypeOK, Open
<1>2. /\ enqueued[r][x] \in Nat /\ contribution[r][x] \in Nat /\ remaining[r][x] \in Nat
      /\ Rows[x] \in Nat /\ Rows[x] > 0
      /\ contribution[r][x] <= enqueued[r][x]
      /\ remaining[r][x] = Rows[x] - enqueued[r][x] + contribution[r][x]
      /\ 1 .. (enqueued[r][x] - contribution[r][x]) \subseteq published[x]
  BY <1>1, InferenceAssumption DEF IInv, TypeOK, RowsAddUp
<1>3. remaining'[r][x] = Rows[x] - enqueued[r][x]
  BY <1>1, <1>2 DEF PublishAcked, ResetBatch, IInv, TypeOK
<1>4. published'[x] = published[x] \union InBatch(r, x)
  BY <1>1 DEF PublishAcked, ResetBatch, AppendBatch
<1>5. 1 .. enqueued[r][x] \subseteq published'[x]
  BY <1>2, <1>4 DEF InBatch
<1>6. QED  BY <1>1, <1>2, <1>3, <1>5 DEF Handled, BreaksContract

-----------------------------------------------------------------------------
(* The other parts of the inductive invariant, one lemma each.             *)

LEMMA FrontIsComplete ==
  ASSUME TypeOK, NEW r \in Replicas
  PROVE  CompletedPrefix(pending[r], complete[r]) \subseteq pending[r] \intersect complete[r]
<1> SUFFICES ASSUME NEW x \in CompletedPrefix(pending[r], complete[r])
             PROVE  x \in pending[r] /\ x \in complete[r]
  OBVIOUS
<1>1. x \in pending[r] /\ \A y \in pending[r] : y[1] = x[1] /\ y[2] <= x[2] => y \in complete[r]
  BY DEF CompletedPrefix
<1>2. x[2] \in Nat
  BY <1>1, RecordParts DEF TypeOK
<1>3. QED  BY <1>1, <1>2

LEMMA CompleteStep ==
  ASSUME IInv, [Next]_vars
  PROVE  CompleteIsHandled'
<1> USE DEF IInv, TypeOK, trackerVars
<1>1. Handled \subseteq Handled'
  BY HandledGrows
<1> SUFFICES ASSUME NEW q \in Replicas, NEW x \in complete'[q]
             PROVE  x \in pending'[q] /\ x \in Handled'
  BY DEF CompleteIsHandled
<1>2. CASE UNCHANGED trackerVars
  BY <1>1, <1>2 DEF CompleteIsHandled
<1>3. ASSUME NEW r \in Replicas, PublishAcked(r) PROVE x \in pending'[q] /\ x \in Handled'
  <2>1. CASE x \in complete[q]
    BY <1>1, <1>3, <2>1 DEF CompleteIsHandled, PublishAcked, ResetBatch
  <2>2. CASE x \notin complete[q]
    <3>1. q = r /\ x \in Open(r) /\ contribution[r][x] > 0 /\ remaining'[r][x] = 0
      BY <1>3, <2>2 DEF PublishAcked, ResetBatch, MarkCompleted, Open
    <3>2. x \in Records /\ Rows[x] \in Nat /\ enqueued[r][x] \in Nat
      BY <3>1, InferenceAssumption DEF Open
    <3> HIDE DEF IInv
    <3>3. /\ remaining'[r][x] = Rows[x] - enqueued[r][x]
          /\ enqueued[r][x] = Rows[x] => x \in Handled'
      BY <1>3, <3>1, PublishedRows
    <3>5. x \in Handled'
      BY <3>1, <3>2, <3>3
    <3>4. QED  BY <1>3, <3>1, <3>5 DEF PublishAcked, ResetBatch, Open
  <2>3. QED  BY <2>1, <2>2
<1>4. ASSUME NEW r \in Replicas, CommitAcked(r) PROVE x \in pending'[q] /\ x \in Handled'
  BY <1>1, <1>4 DEF CompleteIsHandled, CommitAcked
<1>5. ASSUME NEW r \in Replicas, End(r) PROVE x \in pending'[q] /\ x \in Handled'
  BY <1>1, <1>5 DEF CompleteIsHandled, End
<1>6. ASSUME NEW r \in Replicas, NEW p \in Partitions, Accept(r, p)
      PROVE  x \in pending'[q] /\ x \in Handled'
  BY <1>1, <1>6 DEF CompleteIsHandled, Accept, Observe
<1>7. ASSUME NEW r \in Replicas, NEW p \in Partitions, Reject(r, p)
      PROVE  x \in pending'[q] /\ x \in Handled'
  <2> DEFINE y == <<p, next[r][p]>>
  <2>1. y \in Handled'
    BY <1>7, ObserveType DEF Reject, Handled
  <2>2. y \in pending'[r] /\ pending[q] \subseteq pending'[q]
    BY <1>7 DEF Reject, Observe
  <2>3. x \in complete[q] \/ (q = r /\ x = y)
    BY <1>7 DEF Reject, MarkCompleted
  <2>4. QED  BY <1>1, <2>1, <2>2, <2>3 DEF CompleteIsHandled
<1>8. QED
  BY <1>2, <1>3, <1>4, <1>5, <1>6, <1>7, StepKinds DEF Quiet, Rebalance, Enqueue, Ends

LEMMA NoGapsStep ==
  ASSUME IInv, [Next]_vars
  PROVE  NoGaps'
<1> USE DEF IInv, TypeOK, trackerVars
<1>1. Handled \subseteq Handled'
  BY HandledGrows
<1> SUFFICES ASSUME NEW q \in Replicas
             PROVE  /\ \A x \in pending'[q] : \A o \in 0 .. x[2] - 1 :
                          <<x[1], o>> \in pending'[q] \union Handled'
                    /\ \A p \in Partitions : \A o \in 0 .. next'[q][p] - 1 :
                          <<p, o>> \in pending'[q] \union Handled'
  BY DEF NoGaps
<1> DEFINE Goal == /\ \A x \in pending'[q] : \A o \in 0 .. x[2] - 1 :
                          <<x[1], o>> \in pending'[q] \union Handled'
                   /\ \A p \in Partitions : \A o \in 0 .. next'[q][p] - 1 :
                          <<p, o>> \in pending'[q] \union Handled'
<1>2. ASSUME pending'[q] = pending[q], next'[q] = next[q] PROVE Goal
  BY <1>1, <1>2 DEF NoGaps
<1>3. CASE Rebalance
  <2>1. pending'[q] = pending[q] /\ (next'[q] = next[q] \/ next'[q] = committed)
    BY <1>3 DEF Rebalance
  <2>2. CASE next'[q] = committed
    BY <1>1, <2>1, <2>2 DEF NoGaps, CommittedIsHandled
  <2>3. QED  BY <1>2, <2>1, <2>2
<1>4. ASSUME NEW r \in Replicas, CommitAcked(r) PROVE Goal
  <2>1. next' = next /\ pending'[q] \subseteq pending[q]
    BY <1>4 DEF CommitAcked, fetchVars
  <2>2. pending[q] \subseteq pending'[q] \union complete[q]
    BY <1>4, FrontIsComplete DEF CommitAcked
  <2>3. pending[q] \union Handled \subseteq pending'[q] \union Handled'
    BY <1>1, <2>2 DEF CompleteIsHandled
  <2>4. QED  BY <2>1, <2>3 DEF NoGaps
<1>5. ASSUME NEW r \in Replicas, End(r) PROVE Goal
  <2>1. CASE q = r
    BY <1>5, <2>1 DEF End
  <2>2. CASE q # r
    BY <1>2, <1>5, <2>2 DEF End
  <2>3. QED  BY <2>1, <2>2
<1>6. ASSUME NEW r \in Replicas, NEW p \in Partitions, Observe(r, p) PROVE Goal
  <2> DEFINE y == <<p, next[r][p]>>
  <2>1. CASE q # r
    BY <1>2, <1>6, <2>1 DEF Observe
  <2>2. CASE q = r
    <3>1. pending'[q] = pending[q] \union {y} /\ next[q][p] \in Nat
      BY <1>6, <2>2, ObserveType, TakenType, InferenceAssumption DEF Observe
    <3>2. next'[q] = [next[q] EXCEPT ![p] = next[q][p] + 1]
      BY <1>6, <2>2 DEF Observe
    <3>3. pending[q] \union Handled \subseteq pending'[q] \union Handled'
      BY <1>1, <3>1
    <3>4. ASSUME NEW x \in pending'[q], NEW o \in 0 .. x[2] - 1
          PROVE  <<x[1], o>> \in pending'[q] \union Handled'
      BY <2>2, <3>1, <3>3 DEF NoGaps
    <3>5. ASSUME NEW s \in Partitions, NEW o \in 0 .. next'[q][s] - 1
          PROVE  <<s, o>> \in pending'[q] \union Handled'
      <4>1. CASE s = p /\ o = next[q][p]
        BY <2>2, <3>1, <4>1
      <4>2. CASE ~(s = p /\ o = next[q][p])
        <5>0. next[q][s] \in Nat
          BY InferenceAssumption
        <5>1. o \in 0 .. next[q][s] - 1
          <6>1. CASE s = p
            <7>1. next'[q][s] = next[q][s] + 1
              BY <3>2, <6>1
            <7>2. o \in Nat /\ o < next[q][s] + 1 /\ o # next[q][s]
              BY <4>2, <6>1, <7>1
            <7> HIDE DEF TypeOK
            <7>3. QED  BY <5>0, <7>2
          <6>2. CASE s # p
            BY <3>2, <5>0, <6>2
          <6>3. QED  BY <6>1, <6>2
        <5>2. QED  BY <3>3, <5>1 DEF NoGaps
      <4>3. QED  BY <4>1, <4>2
    <3>6. QED  BY <3>4, <3>5
  <2>3. QED  BY <2>1, <2>2
<1>7. ASSUME NEW r \in Replicas, Enqueue(r) \/ PublishAcked(r) PROVE Goal
  BY <1>2, <1>7 DEF Enqueue, PublishAcked, ResetBatch, fetchVars
<1>8. QED
  BY <1>2, <1>3, <1>4, <1>5, <1>6, <1>7, StepKinds DEF Quiet, Accept, Reject, Ends

LEMMA RowsStep ==
  ASSUME IInv, [Next]_vars
  PROVE  RowsAddUp'
<1> USE DEF IInv, TypeOK, trackerVars, batchVars, Open
<1> SUFFICES ASSUME NEW q \in Replicas, NEW x \in Records
             PROVE  /\ x \in Open(q)' =>
                         /\ Rows[x] > 0
                         /\ enqueued'[q][x] <= Rows[x]
                         /\ contribution'[q][x] <= enqueued'[q][x]
                         /\ remaining'[q][x]
                              = Rows[x] - enqueued'[q][x] + contribution'[q][x]
                         /\ 1 .. (enqueued'[q][x] - contribution'[q][x]) \subseteq published'[x]
                    /\ x \notin Open(q)' \/ size'[q] = 0 => contribution'[q][x] = 0
  BY DEF RowsAddUp
<1> DEFINE Goal == /\ x \in Open(q)' =>
                         /\ Rows[x] > 0
                         /\ enqueued'[q][x] <= Rows[x]
                         /\ contribution'[q][x] <= enqueued'[q][x]
                         /\ remaining'[q][x]
                              = Rows[x] - enqueued'[q][x] + contribution'[q][x]
                         /\ 1 .. (enqueued'[q][x] - contribution'[q][x]) \subseteq published'[x]
                   /\ x \notin Open(q)' \/ size'[q] = 0 => contribution'[q][x] = 0
<1>1. published[x] \subseteq published'[x]
  BY OutputGrows
<1>2. ASSUME x \in Open(q)' <=> x \in Open(q),
             enqueued'[q][x] = enqueued[q][x], contribution'[q][x] = contribution[q][x],
             remaining'[q][x] = remaining[q][x], size'[q] = size[q]
      PROVE  Goal
  BY <1>1, <1>2 DEF RowsAddUp
<1> HIDE DEF Open
<1>3. CASE Quiet \/ Rebalance
  BY <1>2, <1>3 DEF Quiet, Rebalance, Open
<1>4. ASSUME NEW r \in Replicas, Enqueue(r) PROVE Goal
  <2> DEFINE y == Current(r)
  <2>1. pc[r] = "enqueue" /\ Open(q)' = Open(q)
    BY <1>4 DEF Enqueue, Open
  <2>2. CASE q # r
    BY <1>2, <1>4, <2>1, <2>2 DEF Enqueue
  <2>3. CASE q = r
    <3>1. /\ y \in Open(r) /\ y \in Records
          /\ Chunk(r) \in Nat /\ Chunk(r) <= Rows[y] - enqueued[r][y]
      BY <2>1, ChunkType DEF CurrentIsOpen, InHand
    <3>2. /\ size'[r] = size[r] + Chunk(r) /\ size[r] \in Nat /\ remaining' = remaining
          /\ Rows[x] \in Nat /\ enqueued[r][x] \in Nat /\ contribution[r][x] \in Nat
      BY <1>4, InferenceAssumption DEF Enqueue
    <3>3. CASE x = y
      <4>1. /\ enqueued'[r][x] = enqueued[r][x] + Chunk(r)
            /\ contribution'[r][x] = contribution[r][x] + Chunk(r)
        BY <1>4, <3>1, <3>3 DEF Enqueue
      <4>2. enqueued'[r][x] - contribution'[r][x] = enqueued[r][x] - contribution[r][x]
        BY <3>1, <3>2, <4>1
      <4>3. 1 .. (enqueued[r][x] - contribution[r][x]) \subseteq published[x]
        BY <3>1, <3>3 DEF RowsAddUp
      <4>4. 1 .. (enqueued'[r][x] - contribution'[r][x]) \subseteq published'[x]
        BY <1>1, <4>2, <4>3
      <4>5. /\ Rows[x] > 0 /\ enqueued'[r][x] <= Rows[x]
            /\ contribution'[r][x] <= enqueued'[r][x]
            /\ remaining'[r][x] = Rows[x] - enqueued'[r][x] + contribution'[r][x]
        BY <3>1, <3>2, <3>3, <4>1 DEF RowsAddUp
      <4>6. size'[r] = 0 => contribution'[r][x] = 0
        BY <3>1, <3>2, <4>1 DEF RowsAddUp
      <4>7. QED  BY <2>1, <2>3, <3>1, <3>3, <4>4, <4>5, <4>6
    <3>4. CASE x # y
      <4>1. enqueued'[r][x] = enqueued[r][x] /\ contribution'[r][x] = contribution[r][x]
        BY <1>4, <3>1, <3>4 DEF Enqueue
      <4>2. size'[r] = 0 => size[r] = 0
        BY <3>1, <3>2
      <4>3. QED  BY <1>1, <2>1, <2>3, <3>2, <4>1, <4>2 DEF RowsAddUp
    <3>5. QED  BY <3>3, <3>4
  <2>4. QED  BY <2>2, <2>3
<1>5. ASSUME NEW r \in Replicas, PublishAcked(r) PROVE Goal
  <2>1. CASE q # r
    BY <1>2, <1>5, <2>1 DEF PublishAcked, ResetBatch, MarkCompleted, Open
  <2>2. CASE q = r
    <3>1. contribution'[r][x] = 0 /\ enqueued' = enqueued
      BY <1>5 DEF PublishAcked, ResetBatch, Zeros
    <3>2. x \in Open(r)' => x \in Open(r)
      BY <1>5 DEF PublishAcked, ResetBatch, MarkCompleted, Open
    <3>3. ASSUME x \in Open(r)
          PROVE  /\ Rows[x] > 0 /\ enqueued[r][x] <= Rows[x] /\ enqueued[r][x] \in Nat
                 /\ remaining'[r][x] = Rows[x] - enqueued[r][x] /\ Rows[x] \in Nat
                 /\ 1 .. enqueued[r][x] \subseteq published'[x]
      BY <1>5, <3>3, PublishedRows, InferenceAssumption DEF RowsAddUp
    <3>4. QED  BY <2>2, <3>1, <3>2, <3>3
  <2>3. QED  BY <2>1, <2>2
<1>6. ASSUME NEW r \in Replicas, CommitAcked(r) PROVE Goal
  <2>1. Open(q)' = Open(q)
    BY <1>6, FrontIsComplete DEF CommitAcked, Open
  <2>2. QED  BY <1>2, <1>6, <2>1 DEF CommitAcked
<1>7. ASSUME NEW r \in Replicas, End(r) PROVE Goal
  <2>1. CASE q # r
    BY <1>2, <1>7, <2>1 DEF End, Open
  <2>2. CASE q = r
    BY <1>7, <2>2 DEF End, Open, Zeros
  <2>3. QED  BY <2>1, <2>2
<1>8. ASSUME NEW r \in Replicas, NEW p \in Partitions, Accept(r, p) PROVE Goal
  <2> DEFINE y == <<p, next[r][p]>>
  <2>1. CASE q # r
    BY <1>2, <1>8, <2>1 DEF Accept, Observe, Open
  <2>2. CASE q = r
    <3>1. y \in Records /\ y \notin pending[r] /\ y \notin Open(r)
      BY <1>8, ObservedIsLast DEF Accept, Open
    <3>2. CASE x = y
      <4>1. /\ enqueued'[r][x] = 0 /\ remaining'[r][x] = Rows[x] /\ Rows[x] > 0
            /\ contribution' = contribution /\ contribution[r][x] = 0 /\ Rows[x] \in Nat
        BY <1>8, <3>1, <3>2, InferenceAssumption DEF Accept, RowsAddUp, BreaksContract
      <4>2. QED  BY <2>2, <4>1
    <3>3. CASE x # y
      <4>1. /\ enqueued'[r][x] = enqueued[r][x] /\ remaining'[r][x] = remaining[r][x]
            /\ contribution' = contribution /\ size' = size
        BY <1>8, <3>1, <3>3 DEF Accept
      <4>2. x \in Open(r)' <=> x \in Open(r)
        BY <1>8, <3>3 DEF Accept, Observe, Open
      <4>3. QED  BY <1>2, <2>2, <4>1, <4>2
    <3>4. QED  BY <3>2, <3>3
  <2>3. QED  BY <2>1, <2>2
<1>9. ASSUME NEW r \in Replicas, NEW p \in Partitions, Reject(r, p) PROVE Goal
  <2>1. Open(q)' = Open(q)
    <3>1. <<p, next[r][p]>> \notin pending[r]
      BY <1>9, ObservedIsLast DEF Reject
    <3>2. QED  BY <1>9, <3>1 DEF Reject, MarkCompleted, Observe, Open
  <2>2. QED  BY <1>2, <1>9, <2>1 DEF Reject
<1>10. QED
  BY <1>3, <1>4, <1>5, <1>6, <1>7, <1>8, <1>9, StepKinds DEF Ends

LEMMA DownStep ==
  ASSUME IInv, [Next]_vars
  PROVE  DownIsEmpty'
<1> USE DEF IInv, TypeOK, DownIsEmpty, trackerVars
<1>1. CASE Quiet
  BY <1>1 DEF Quiet, Moves
<1>2. CASE Rebalance
  BY <1>2 DEF Rebalance, controlVars
<1>3. ASSUME NEW r \in Replicas, Enqueue(r) PROVE DownIsEmpty'
  BY <1>3 DEF Enqueue
<1>4. ASSUME NEW r \in Replicas, PublishAcked(r) PROVE DownIsEmpty'
  BY <1>4 DEF PublishAcked, ResetBatch, MarkCompleted
<1>5. ASSUME NEW r \in Replicas, CommitAcked(r) PROVE DownIsEmpty'
  BY <1>5 DEF CommitAcked
<1>6. ASSUME NEW r \in Replicas, End(r) PROVE DownIsEmpty'
  BY <1>6 DEF End
<1>7. ASSUME NEW r \in Replicas, NEW p \in Partitions, Accept(r, p) PROVE DownIsEmpty'
  BY <1>7 DEF Accept, Observe, Takes
<1>8. ASSUME NEW r \in Replicas, NEW p \in Partitions, Reject(r, p) PROVE DownIsEmpty'
  BY <1>8 DEF Reject, Observe, Takes, MarkCompleted
<1>9. QED
  BY <1>1, <1>2, <1>3, <1>4, <1>5, <1>6, <1>7, <1>8, StepKinds DEF Ends

LEMMA CurrentStep ==
  ASSUME IInv, [Next]_vars
  PROVE  CurrentIsOpen'
<1> USE DEF IInv, TypeOK, trackerVars, batchVars
<1> SUFFICES ASSUME NEW q \in Replicas, InHand(q)'
             PROVE  /\ Current(q)' \in Open(q)'
                    /\ enqueued'[q][Current(q)'] < Rows[Current(q)']
  BY DEF CurrentIsOpen
<1> DEFINE Goal == /\ Current(q)' \in Open(q)'
                   /\ enqueued'[q][Current(q)'] < Rows[Current(q)']
<1>1. ASSUME InHand(q), Current(q)' = Current(q), Open(q)' = Open(q),
             enqueued'[q] = enqueued[q]
      PROVE  Goal
  BY <1>1 DEF CurrentIsOpen
<1>2. CASE Quiet
  <2>1. InHand(q) /\ turn'[q] = turn[q]
    BY <1>2 DEF Quiet, Moves, InHand
  <2>2. QED  BY <1>1, <1>2, <2>1 DEF Quiet, Current, Open
<1>3. CASE Rebalance
  <2>1. InHand(q) /\ turn' = turn
    BY <1>3 DEF Rebalance, controlVars, InHand
  <2>2. next'[q] = next[q]
    BY <1>3, <2>1 DEF Rebalance, InHand
  <2>3. QED  BY <1>1, <1>3, <2>1, <2>2 DEF Rebalance, Current, Open
<1>4. ASSUME NEW r \in Replicas, Enqueue(r) PROVE Goal
  <2>1. Current(q)' = Current(q) /\ Open(q)' = Open(q)
    BY <1>4 DEF Enqueue, fetchVars, Current, Open
  <2>2. CASE q # r
    BY <1>1, <1>4, <2>1, <2>2 DEF Enqueue, InHand
  <2>3. CASE q = r
    <3> DEFINE y == Current(r)
    <3>1. /\ y \in Open(r) /\ y \in Records
          /\ Chunk(r) \in Nat /\ Chunk(r) <= Rows[y] - enqueued[r][y]
      BY <1>4, ChunkType DEF Enqueue, CurrentIsOpen, InHand
    <3>2. enqueued'[r][y] = enqueued[r][y] + Chunk(r) /\ enqueued'[r][y] # Rows[y]
      BY <1>4, <2>3, <3>1 DEF Enqueue, InHand
    <3>3. enqueued[r][y] \in Nat /\ Rows[y] \in Nat
      BY <3>1, InferenceAssumption
    <3>4. enqueued'[r][y] < Rows[y]
      <4> HIDE DEF IInv, TypeOK, y
      <4>1. QED  BY <3>1, <3>2, <3>3
    <3>5. Current(q)' = y /\ Open(q)' = Open(r)
      BY <2>1, <2>3
    <3> HIDE DEF y
    <3>6. QED  BY <2>3, <3>1, <3>4, <3>5
  <2>4. QED  BY <2>2, <2>3
<1>5. ASSUME NEW r \in Replicas, PublishAcked(r) PROVE Goal
  <2>1. Current(q)' = Current(q) /\ enqueued' = enqueued
    BY <1>5 DEF PublishAcked, ResetBatch, fetchVars, Current
  <2>2. CASE q # r
    BY <1>1, <1>5, <2>1, <2>2 DEF PublishAcked, ResetBatch, MarkCompleted, InHand, Open
  <2>3. CASE q = r
    <3> DEFINE y == Current(r)
    <3>1. InHand(r)
      BY <1>5, <2>3 DEF PublishAcked, ResetBatch, MarkCompleted, InHand
    <3>2. y \in Open(r) /\ y \in Records /\ enqueued[r][y] < Rows[y]
      BY <3>1 DEF CurrentIsOpen, Open
    <3>3. remaining'[r][y] = Rows[y] - enqueued[r][y]
      BY <1>5, <3>2, PublishedRows
    <3>4. enqueued[r][y] \in Nat /\ Rows[y] \in Nat
      BY <3>2, InferenceAssumption
    <3>5. remaining'[r][y] # 0
      BY <3>2, <3>3, <3>4
    <3>6. y \in Open(r)'
      BY <1>5, <3>2, <3>5 DEF PublishAcked, ResetBatch, MarkCompleted, Open
    <3>7. QED  BY <2>1, <2>3, <3>2, <3>6
  <2>4. QED  BY <2>2, <2>3
<1>6. ASSUME NEW r \in Replicas, CommitAcked(r) PROVE Goal
  <2>1. Open(q)' = Open(q)
    BY <1>6, FrontIsComplete DEF CommitAcked, Open
  <2>2. Current(q)' = Current(q) /\ enqueued' = enqueued
    BY <1>6 DEF CommitAcked, fetchVars, Current
  <2>3. InHand(q)
    BY <1>6 DEF CommitAcked, InHand
  <2>4. QED  BY <1>1, <2>1, <2>2, <2>3
<1>7. ASSUME NEW r \in Replicas, End(r) PROVE Goal
  <2>1. q # r
    BY <1>7 DEF End, InHand
  <2>2. QED  BY <1>1, <1>7, <2>1 DEF End, InHand, Current, Open
<1>8. ASSUME NEW r \in Replicas, NEW p \in Partitions, Accept(r, p) PROVE Goal
  <2>1. CASE q # r
    BY <1>1, <1>8, <2>1 DEF Accept, Observe, InHand, Current, Open
  <2>2. CASE q = r
    <3> DEFINE y == <<p, next[r][p]>>
    <3>1. y \in Records /\ y \notin pending[r]
      BY <1>8, ObservedIsLast DEF Accept
    <3>2. turn'[r] = p /\ next'[r][p] = next[r][p] + 1 /\ next[r][p] \in Nat
      BY <1>8, InferenceAssumption DEF Accept, Observe
    <3>3. Current(r)' = y
      BY <3>2 DEF Current
    <3>4. y \in Open(r)'
      BY <1>8, <3>1 DEF Accept, Observe, Open, CompleteIsHandled
    <3>5. enqueued'[r][y] = 0 /\ Rows[y] > 0
      BY <1>8, <3>1, InferenceAssumption DEF Accept, BreaksContract
    <3>6. QED  BY <2>2, <3>3, <3>4, <3>5
  <2>3. QED  BY <2>1, <2>2
<1>9. ASSUME NEW r \in Replicas, NEW p \in Partitions, Reject(r, p) PROVE Goal
  <2>1. q # r
    BY <1>9 DEF Reject, MarkCompleted, InHand
  <2>2. InHand(q) /\ Current(q)' = Current(q)
    BY <1>9, <2>1 DEF Reject, MarkCompleted, Observe, InHand, Current
  <2>3. Open(q)' = Open(q) /\ enqueued' = enqueued
    BY <1>9, <2>1 DEF Reject, MarkCompleted, Observe, Open
  <2>4. QED  BY <1>1, <2>2, <2>3
<1>10. QED
  BY <1>2, <1>3, <1>4, <1>5, <1>6, <1>7, <1>8, <1>9, StepKinds DEF Ends

LEMMA OthersStep ==
  ASSUME IInv, [Next]_vars
  PROVE  OthersAreBuffered'
<1> USE DEF IInv, TypeOK, trackerVars, batchVars
<1> SUFFICES ASSUME NEW q \in Replicas, ~(pc'[q] = "close" /\ failed'[q]), NEW x \in Open(q)'
             PROVE  \/ enqueued'[q][x] = Rows[x] /\ contribution'[q][x] > 0
                    \/ InHand(q)' /\ x = Current(q)'
  BY DEF OthersAreBuffered
<1> DEFINE Goal == \/ enqueued'[q][x] = Rows[x] /\ contribution'[q][x] > 0
                   \/ InHand(q)' /\ x = Current(q)'
<1>1. ASSUME ~(pc[q] = "close" /\ failed[q]), x \in Open(q),
             InHand(q) /\ x = Current(q) => InHand(q)' /\ x = Current(q)',
             enqueued'[q] = enqueued[q], contribution'[q] = contribution[q]
      PROVE  Goal
  BY <1>1 DEF OthersAreBuffered
<1>2. CASE Quiet
  <2>1. x \in Open(q) /\ enqueued'[q] = enqueued[q] /\ contribution'[q] = contribution[q]
    BY <1>2 DEF Quiet, Open
  <2>2. pc[q] # "down"
    BY <2>1 DEF DownIsEmpty, Open
  <2>3. /\ ~(pc[q] = "close" /\ failed[q])
        /\ InHand(q) /\ x = Current(q) => InHand(q)' /\ x = Current(q)'
    BY <1>2, <2>2 DEF Quiet, Moves, InHand, Current
  <2>4. QED  BY <1>1, <2>1, <2>3
<1>3. CASE Rebalance
  <2>1. /\ x \in Open(q) /\ enqueued' = enqueued /\ contribution' = contribution
        /\ pc' = pc /\ then' = then /\ failed' = failed /\ turn' = turn
    BY <1>3 DEF Rebalance, Open, controlVars
  <2>2. InHand(q) => next'[q] = next[q]
    BY <1>3 DEF Rebalance, InHand
  <2>3. QED  BY <1>1, <2>1, <2>2 DEF InHand, Current
<1>4. ASSUME NEW r \in Replicas, Enqueue(r) PROVE Goal
  <2>1. /\ x \in Open(q) /\ Current(q)' = Current(q) /\ failed' = failed
        /\ pc[r] = "enqueue" /\ InHand(r)
    BY <1>4 DEF Enqueue, fetchVars, Current, Open, InHand
  <2>2. CASE q # r
    BY <1>1, <1>4, <2>1, <2>2 DEF Enqueue, InHand
  <2>3. CASE q = r
    <3> DEFINE y == Current(r)
    <3>1. y \in Records /\ enqueued[r][y] < Rows[y] /\ Chunk(r) \in Nat
      BY <2>1, ChunkType DEF CurrentIsOpen
    <3>2. CASE x # y
      <4>1. enqueued[r][x] = Rows[x] /\ contribution[r][x] > 0
        BY <2>1, <2>3, <3>2 DEF OthersAreBuffered
      <4>2. enqueued'[r][x] = enqueued[r][x] /\ contribution'[r][x] = contribution[r][x]
        BY <1>4, <2>1, <2>3, <3>1, <3>2 DEF Enqueue, Open
      <4>3. QED  BY <2>3, <4>1, <4>2
    <3>3. CASE x = y
      <4>1. /\ enqueued'[r][y] = enqueued[r][y] + Chunk(r)
            /\ contribution'[r][y] = contribution[r][y] + Chunk(r)
            /\ size'[r] = size[r] + Chunk(r)
        BY <1>4, <3>1 DEF Enqueue
      <4>2. /\ enqueued[r][y] \in Nat /\ Rows[y] \in Nat /\ contribution[r][y] \in Nat
            /\ size[r] \in Nat /\ BatchSize \in Nat
        BY <3>1, InferenceAssumption
      <4>3. CASE enqueued'[r][y] = Rows[y]
        <5>1. Chunk(r) > 0
          BY <3>1, <4>1, <4>2, <4>3
        <5>2. QED  BY <2>3, <3>1, <3>3, <4>1, <4>2, <4>3, <5>1
      <4>4. CASE enqueued'[r][y] # Rows[y]
        <5>1. Chunk(r) = BatchSize - size[r]
          BY <3>1, <4>1, <4>2, <4>4 DEF Chunk, Lesser
        <5>2. size'[r] = BatchSize
          BY <4>1, <4>2, <5>1
        <5>3. then'[r] = "enqueue"
          BY <1>4, <4>1, <4>4 DEF Enqueue
        <5>4. pc'[r] = "publish"
          BY <1>4, <5>2 DEF Enqueue
        <5>5. QED  BY <2>1, <2>3, <3>3, <5>3, <5>4 DEF InHand
      <4>5. QED  BY <4>3, <4>4
    <3>4. QED  BY <3>2, <3>3
  <2>4. QED  BY <2>2, <2>3
<1>5. ASSUME NEW r \in Replicas, PublishAcked(r) PROVE Goal
  <2>1. Current(q)' = Current(q) /\ failed' = failed /\ x \in Open(q) /\ pc[r] = "publish"
    BY <1>5 DEF PublishAcked, ResetBatch, MarkCompleted, fetchVars, Current, Open
  <2>2. CASE q # r
    BY <1>1, <1>5, <2>1, <2>2 DEF PublishAcked, ResetBatch, MarkCompleted, InHand
  <2>3. CASE q = r
    <3>1. ~(enqueued[r][x] = Rows[x] /\ contribution[r][x] > 0)
      <4>1. x \in Records /\ remaining'[r][x] = Rows[x] - enqueued[r][x]
        BY <1>5, <2>1, <2>3, PublishedRows
      <4>2. Rows[x] \in Nat
        BY <4>1, InferenceAssumption
      <4>3. enqueued[r][x] = Rows[x] => remaining'[r][x] = 0
        BY <4>1, <4>2
      <4>4. ~(contribution[r][x] > 0 /\ remaining'[r][x] = 0)
        BY <1>5, <2>1, <2>3 DEF PublishAcked, ResetBatch, MarkCompleted, Open
      <4>5. QED  BY <4>3, <4>4
    <3>2. InHand(r) /\ x = Current(r)
      BY <2>1, <2>3, <3>1 DEF OthersAreBuffered
    <3>3. InHand(r)'
      BY <1>5, <3>2 DEF PublishAcked, ResetBatch, MarkCompleted, InHand
    <3>4. QED  BY <2>1, <2>3, <3>2, <3>3
  <2>4. QED  BY <2>2, <2>3
<1>6. ASSUME NEW r \in Replicas, CommitAcked(r) PROVE Goal
  <2>1. x \in Open(q)
    BY <1>6, FrontIsComplete DEF CommitAcked, Open
  <2>2. /\ Current(q)' = Current(q) /\ enqueued' = enqueued /\ contribution' = contribution
        /\ failed' = failed
    BY <1>6 DEF CommitAcked, fetchVars, Current
  <2>3. pc[q] # "close" \/ pc'[q] = pc[q]
    BY <1>6 DEF CommitAcked
  <2>4. InHand(q) => InHand(q)'
    BY <1>6 DEF CommitAcked, InHand
  <2>5. QED  BY <1>1, <2>1, <2>2, <2>3, <2>4
<1>7. ASSUME NEW r \in Replicas, Ends(r) PROVE Goal
  <2>1. q # r
    BY <1>7 DEF Ends, End, Open
  <2>2. x \in Open(q) /\ enqueued'[q] = enqueued[q] /\ contribution'[q] = contribution[q]
    BY <1>7, <2>1 DEF Ends, End, Open
  <2>3. /\ pc'[q] = pc[q] /\ then'[q] = then[q] /\ next'[q] = next[q] /\ turn' = turn
        /\ failed'[q] = failed[q]
    BY <1>7, <2>1 DEF Ends, End
  <2>4. CASE pc[q] = "close" /\ failed[q]
    BY <2>2, <2>3, <2>4
  <2>5. QED  BY <1>1, <2>2, <2>3, <2>4 DEF InHand, Current
<1>8. ASSUME NEW r \in Replicas, NEW p \in Partitions, Accept(r, p) PROVE Goal
  <2>1. CASE q # r
    BY <1>1, <1>8, <2>1 DEF Accept, Observe, InHand, Current, Open
  <2>2. CASE q = r
    <3> DEFINE y == <<p, next[r][p]>>
    <3>1. y \in Records
      BY <1>8, ObservedIsLast DEF Accept
    <3>2. turn'[r] = p /\ next'[r][p] = next[r][p] + 1 /\ next[r][p] \in Nat
      BY <1>8, InferenceAssumption DEF Accept, Observe
    <3>3. InHand(r)' /\ Current(r)' = y
      BY <1>8, <3>2 DEF Accept, InHand, Current
    <3>4. CASE x # y
      <4>1. x \in Open(r) /\ pc[r] = "records"
        BY <1>8, <2>2, <3>4 DEF Accept, Observe, Takes, Open
      <4>2. enqueued[r][x] = Rows[x] /\ contribution[r][x] > 0
        BY <4>1 DEF OthersAreBuffered, InHand
      <4>3. enqueued'[r][x] = enqueued[r][x] /\ contribution'[r][x] = contribution[r][x]
        BY <1>8, <3>1, <3>4, <4>1 DEF Accept, Open
      <4>4. QED  BY <2>2, <4>2, <4>3
    <3>5. QED  BY <2>2, <3>3, <3>4
  <2>3. QED  BY <2>1, <2>2
<1>9. ASSUME NEW r \in Replicas, NEW p \in Partitions, Reject(r, p) PROVE Goal
  <2>1. x \in Open(q) /\ enqueued' = enqueued /\ contribution' = contribution /\ failed' = failed
    BY <1>9 DEF Reject, MarkCompleted, Observe, Open
  <2>2. CASE q = r
    BY <1>9, <2>1, <2>2 DEF Reject, Observe, Takes, OthersAreBuffered, InHand
  <2>3. CASE q # r
    BY <1>1, <1>9, <2>1, <2>3 DEF Reject, MarkCompleted, Observe, InHand, Current
  <2>4. QED  BY <2>2, <2>3
<1>10. QED
  BY <1>2, <1>3, <1>4, <1>5, <1>6, <1>7, <1>8, <1>9, StepKinds

\* A commit takes every completed front out of the queues.
LEMMA NoFrontIsLeft ==
  ASSUME TypeOK, NEW r \in Replicas, NEW front,
         front = CompletedPrefix(pending[r], complete[r])
  PROVE  CompletedPrefix(pending[r] \ front, complete[r] \ front) = {}
<1> SUFFICES ASSUME NEW x \in CompletedPrefix(pending[r] \ front, complete[r] \ front)
             PROVE  FALSE
  OBVIOUS
<1>1. /\ x \in pending[r] /\ x \notin front
      /\ \A y \in pending[r] \ front : y[1] = x[1] /\ y[2] <= x[2] => y \in complete[r]
  BY DEF CompletedPrefix
<1>2. front \subseteq complete[r]
  BY FrontIsComplete
<1>3. \A y \in pending[r] : y[1] = x[1] /\ y[2] <= x[2] => y \in complete[r]
  BY <1>1, <1>2
<1>4. QED  BY <1>1, <1>3 DEF CompletedPrefix

\* A record that was just queued, and is not complete, completes no front.
LEMMA NewRecordIsNoFront ==
  ASSUME TypeOK, CompleteIsHandled, NEW r \in Replicas, NEW y \in Records, y \notin pending[r],
         CompletedPrefix(pending[r], complete[r]) = {}
  PROVE  CompletedPrefix(pending[r] \union {y}, complete[r]) = {}
<1> SUFFICES ASSUME NEW x \in CompletedPrefix(pending[r] \union {y}, complete[r])
             PROVE  FALSE
  OBVIOUS
<1>1. /\ x \in pending[r] \union {y}
      /\ \A z \in pending[r] \union {y} : z[1] = x[1] /\ z[2] <= x[2] => z \in complete[r]
  BY DEF CompletedPrefix
<1>2. x \in Records
  BY <1>1 DEF TypeOK
<1>3. x \in complete[r]
  <2>1. x[2] <= x[2]
    BY <1>2, RecordParts
  <2>2. QED  BY <1>1, <2>1
<1>4. x \in pending[r]
  BY <1>3 DEF CompleteIsHandled
<1>5. QED  BY <1>1, <1>4 DEF CompletedPrefix

\* The places where FrontsAreOpen speaks of the queues of r.
Settled(r) == pc[r] \in {"poll", "records", "enqueue", "publish"} \/ (pc[r] = "close" /\ ~failed[r])

LEMMA FrontsStep ==
  ASSUME IInv, [Next]_vars
  PROVE  FrontsAreOpen'
<1> USE DEF IInv, TypeOK, trackerVars, batchVars
<1> SUFFICES ASSUME NEW q \in Replicas, Settled(q)'
             PROVE  CompletedPrefix(pending'[q], complete'[q]) = {}
  BY DEF FrontsAreOpen, Settled
<1> DEFINE Goal == CompletedPrefix(pending'[q], complete'[q]) = {}
<1>1. ASSUME Settled(q), pending'[q] = pending[q], complete'[q] = complete[q]
      PROVE  Goal
  BY <1>1 DEF FrontsAreOpen, Settled
<1>2. CASE Quiet
  <2>1. pending' = pending /\ complete' = complete
    BY <1>2 DEF Quiet
  <2>2. CASE pc[q] = "down"
    BY <2>1, <2>2 DEF DownIsEmpty, CompletedPrefix
  <2>3. CASE pc[q] # "down"
    <3>1. Settled(q)
      BY <1>2, <2>3 DEF Quiet, Moves, Settled
    <3>2. QED  BY <1>1, <2>1, <3>1
  <2>4. QED  BY <2>2, <2>3
<1>3. CASE Rebalance
  BY <1>1, <1>3 DEF Rebalance, controlVars, Settled
<1>4. ASSUME NEW r \in Replicas, Enqueue(r) PROVE Goal
  BY <1>1, <1>4 DEF Enqueue, Settled
<1>5. ASSUME NEW r \in Replicas, PublishAcked(r) PROVE Goal
  <2>1. CASE q # r
    BY <1>1, <1>5, <2>1 DEF PublishAcked, ResetBatch, MarkCompleted, Settled
  <2>2. CASE q = r
    <3>1. pc'[r] # "commit"
      BY <2>2 DEF Settled
    <3>2. pending' = pending
      BY <1>5 DEF PublishAcked, ResetBatch
    <3>3. QED  BY <1>5, <2>2, <3>1, <3>2 DEF PublishAcked, ResetBatch, MarkCompleted
  <2>3. QED  BY <2>1, <2>2
<1>6. ASSUME NEW r \in Replicas, CommitAcked(r) PROVE Goal
  <2>1. CASE q # r
    BY <1>1, <1>6, <2>1 DEF CommitAcked, Settled
  <2>2. CASE q = r
    BY <1>6, <2>2, NoFrontIsLeft DEF CommitAcked
  <2>3. QED  BY <2>1, <2>2
<1>7. ASSUME NEW r \in Replicas, Ends(r) PROVE Goal
  <2>1. q # r
    BY <1>7 DEF Ends, End, Settled
  <2>2. QED  BY <1>1, <1>7, <2>1 DEF Ends, End, Settled
<1>8. ASSUME NEW r \in Replicas, NEW p \in Partitions, Accept(r, p) PROVE Goal
  <2>1. CASE q # r
    BY <1>1, <1>8, <2>1 DEF Accept, Observe, Settled
  <2>2. CASE q = r
    <3>1. <<p, next[r][p]>> \in Records /\ <<p, next[r][p]>> \notin pending[r]
      BY <1>8, ObservedIsLast DEF Accept
    <3>2. CompletedPrefix(pending[r], complete[r]) = {}
      BY <1>8 DEF Accept, Observe, Takes, FrontsAreOpen
    <3>3. /\ pending'[r] = pending[r] \union {<<p, next[r][p]>>}
          /\ complete'[r] = complete[r]
      BY <1>8 DEF Accept, Observe
    <3>4. QED  BY <2>2, <3>1, <3>2, <3>3, NewRecordIsNoFront
  <2>3. QED  BY <2>1, <2>2
<1>9. ASSUME NEW r \in Replicas, NEW p \in Partitions, Reject(r, p) PROVE Goal
  <2>1. CASE q # r
    BY <1>1, <1>9, <2>1 DEF Reject, Observe, MarkCompleted, Settled
  <2>2. CASE q = r
    <3>1. pc'[r] # "commit"
      BY <2>2 DEF Settled
    <3>2. /\ pending'[r] = pending[r] \union {<<p, next[r][p]>>}
          /\ complete'[r] = complete[r] \union {<<p, next[r][p]>>}
      BY <1>9 DEF Reject, Observe, MarkCompleted
    <3>3. QED  BY <1>9, <2>2, <3>1, <3>2 DEF Reject, MarkCompleted
  <2>3. QED  BY <2>1, <2>2
<1>10. QED
  BY <1>2, <1>3, <1>4, <1>5, <1>6, <1>7, <1>8, <1>9, StepKinds

-----------------------------------------------------------------------------
(* The theorems.                                                           *)

LEMMA InitIInv == Init => IInv
<1> SUFFICES ASSUME Init
             PROVE  IInv
  OBVIOUS
<1> USE InferenceAssumption DEF Init, Zeros
<1>1. TypeOK
  BY DEF TypeOK, PCs
<1>2. DownIsEmpty /\ CommittedIsHandled
  BY DEF DownIsEmpty, CommittedIsHandled
<1>3. CompleteIsHandled /\ NoGaps
  BY DEF CompleteIsHandled, NoGaps
<1>4. RowsAddUp
  BY DEF RowsAddUp, Open
<1>5. CurrentIsOpen /\ OthersAreBuffered
  BY DEF CurrentIsOpen, OthersAreBuffered, InHand, Open
<1>6. FrontsAreOpen
  BY DEF FrontsAreOpen, CompletedPrefix
<1>7. QED  BY <1>1, <1>2, <1>3, <1>4, <1>5, <1>6 DEF IInv

\* Every reachable state satisfies the inductive invariant: the offsets, the
\* tracker's queues, the batch and the output topic agree at every step of
\* run(), _enqueue_input(), _flush_batch() and mark_completed().
THEOREM Inductive == Spec => []IInv
<1>1. IInv /\ [Next]_vars => IInv'
  BY TypeStep, DownStep, CommittedStep, CompleteStep, NoGapsStep, RowsStep, CurrentStep,
     OthersStep, FrontsStep DEF IInv
<1>2. QED  BY InitIInv, <1>1, PTL DEF Spec

\* Type correctness; the counts of rows never become negative.
THEOREM TypeCorrect == Spec => []TypeOK
<1>1. IInv => TypeOK
  BY DEF IInv
<1>2. QED  BY Inductive, <1>1, PTL

\* No offset is committed over a record that is neither rejected nor wholly
\* in the output topic (mark_completed() against run() and the broker).
THEOREM Safety == Spec => []CommittedIsHandled
<1>1. IInv => CommittedIsHandled
  BY DEF IInv
<1>2. QED  BY Inductive, <1>1, PTL

\* _flush_batch() never raises "inference batch over-completed an input record".
THEOREM NoOverCompletion == Spec => []NeverOverCompletes
<1>1. IInv => NeverOverCompletes
  BY RemainingType DEF IInv, NeverOverCompletes
<1>2. QED  BY Inductive, <1>1, PTL

\* An idle or normally closing replica with an empty batch has committed all
\* it has observed: no pending record is forgotten in a queue.
THEOREM NothingOwed == Spec => []IdleOwesNothing
<1>1. ASSUME IInv PROVE IdleOwesNothing
  <2> USE <1>1 DEF IInv
  <2> SUFFICES ASSUME NEW r \in Replicas, pc[r] \in {"poll", "close"}, ~failed[r], size[r] = 0
               PROVE  pending[r] = {}
    BY DEF IdleOwesNothing
  <2>1. CompletedPrefix(pending[r], complete[r]) = {}
    BY DEF FrontsAreOpen
  <2>2. Open(r) = {}
    <3> SUFFICES ASSUME NEW x \in Open(r)
                 PROVE  FALSE
      OBVIOUS
    <3>1. contribution[r][x] > 0
      BY DEF OthersAreBuffered, InHand
    <3>2. contribution[r][x] = 0
      BY DEF RowsAddUp, Open, TypeOK
    <3>3. QED  BY <3>1, <3>2
  <2>3. pending[r] \subseteq complete[r]
    BY <2>2 DEF Open
  <2>4. QED  BY <2>1, <2>3 DEF CompletedPrefix
<1>2. QED  BY Inductive, <1>1, PTL

\* The replicas of ai-inference together keep the promise of a consuming
\* stage (README.md 374-377), whatever crashes, rebalances and failed calls do.
THEOREM Refinement == Spec => ImplementsAtLeastOnce
<1>1. Init => Promise!Init
  <2> SUFFICES ASSUME Init PROVE Promise!Init
    OBVIOUS
  <2>1. ASSUME NEW x \in Handled PROVE FALSE
    <3>1. x \in Records /\ Rows[x] # 0 /\ 1 .. Rows[x] \subseteq {}
      BY <2>1 DEF Handled, Init, BreaksContract
    <3>2. Rows[x] \in Nat
      BY <3>1, InferenceAssumption
    <3>3. 1 \in 1 .. Rows[x]
      BY <3>1, <3>2
    <3>4. QED  BY <3>1, <3>3
  <2>2. QED  BY <2>1 DEF Init, Promise!Init
<1>2. ASSUME IInv, [Next]_vars
      PROVE  [Promise!Next]_<<Handled, committed>>
  <2>1. Handled \subseteq Handled' /\ Handled' \subseteq Records
    BY <1>2, HandledGrows DEF IInv, Handled
  <2>2. CASE UNCHANGED committed
    BY <2>1, <2>2 DEF Promise!Next, Promise!Handle, Promise!Records, Records
  <2>3. ASSUME NEW r \in Replicas, committed' \in Offsets(r), UNCHANGED outputVars
        PROVE  Promise!Commit
    <3>1. Handled' = Handled
      BY <2>3 DEF outputVars, Handled
    <3>2. committed' \in [Partitions -> 0 .. LogEnd]
      BY <2>3 DEF Offsets
    <3>3. ASSUME NEW p \in Partitions, committed'[p] # committed[p],
                 NEW o \in 0 .. committed'[p] - 1
          PROVE  <<p, o>> \in Handled
      BY <1>2, <2>3, <3>3, OffsetsAreCovered DEF IInv
    <3>4. QED  BY <3>1, <3>2, <3>3 DEF Promise!Commit
  <2>4. QED  BY <1>2, <2>2, <2>3, Effects DEF Promise!Next
<1>3. QED  BY Inductive, <1>1, <1>2, PTL DEF Spec, ImplementsAtLeastOnce, Promise!Spec

-----------------------------------------------------------------------------
(* The first generation of the group: who has which records.               *)

\* A step that leaves the group, the offsets, the queues and the for loop
\* alone, and no replica that is about to leave.
Elsewhere == /\ UNCHANGED <<committed, groupVars, position, next, pending>>
             /\ \A r \in Replicas : pc[r] = "close" => pc'[r] = "close"

LEMMA GroupKinds ==
  ASSUME TypeOK, [Next]_vars
  PROVE  \/ Elsewhere
         \/ Rebalance
         \/ \E r \in Replicas : Poll(r) \/ CommitAcked(r) \/ CommitFails(r) \/ Close(r) \/ Crash(r)
                                \/ Evict(r)
         \/ \E r \in Replicas, p \in Partitions : Accept(r, p) \/ Reject(r, p)
<1> USE DEF Elsewhere, TypeOK, groupVars, controlVars, fetchVars, trackerVars
<1>1. CASE UNCHANGED vars
  BY <1>1 DEF vars
<1>2. ASSUME NEW r \in Replicas, EmptyPoll(r) \/ Drain(r) PROVE Elsewhere
  BY <1>2 DEF EmptyPoll, Drain, Flush
<1>3. ASSUME NEW r \in Replicas, EndOfRecords(r) PROVE Elsewhere
  BY <1>3 DEF EndOfRecords
<1>4. ASSUME NEW r \in Replicas, Enqueue(r) PROVE Elsewhere
  BY <1>4 DEF Enqueue
<1>5. ASSUME NEW r \in Replicas, PublishAcked(r) PROVE Elsewhere
  BY <1>5 DEF PublishAcked, MarkCompleted, ResetBatch
<1>6. ASSUME NEW r \in Replicas, PublishFails(r) PROVE Elsewhere
  BY <1>6 DEF PublishFails, Fail
<1>7. ASSUME NEW r \in Replicas, HandleSignal(r) PROVE Elsewhere
  BY <1>7 DEF HandleSignal
<1>8. ASSUME NEW r \in Replicas, Restart(r) PROVE Elsewhere
  BY <1>8 DEF Restart
<1>9. ASSUME NEW r \in Replicas, NEW p \in Partitions, ObserveRaises(r, p) PROVE Elsewhere
  BY <1>9 DEF ObserveRaises, Fail
<1> HIDE DEF Elsewhere
<1>10. QED
  BY <1>1, <1>2, <1>3, <1>4, <1>5, <1>6, <1>7, <1>8, <1>9, Zenon DEF Next, Step

\* A batch without a record in it adds nothing to the output topic.
LEMMA EmptyBatch ==
  ASSUME IInv, NEW r \in Replicas, NEW x \in Records, x \notin Open(r)
  PROVE  InBatch(r, x) = {}
<1>1. contribution[r][x] = 0 /\ enqueued[r][x] \in Nat
  BY DEF IInv, RowsAddUp, TypeOK
<1>2. QED  BY <1>1 DEF InBatch

\* Offsets that are offered lie behind a record of the replica.
LEMMA OffersItsOwn ==
  ASSUME TypeOK, NEW r \in Replicas, NEW c \in Offsets(r), NEW p \in Partitions,
         c[p] # committed[p]
  PROVE  /\ <<p, c[p] - 1>> \in CompletedPrefix(pending[r], complete[r])
         /\ <<p, c[p] - 1>> \in pending[r]
         /\ c[p] \in 0 .. LogEnd
BY DEF Offsets, CompletedPrefix

LEMMA FirstStep ==
  ASSUME IInv, NothingBeforeTheFirst, [Next]_vars
  PROVE  NothingBeforeTheFirst'
<1> USE DEF IInv, NothingBeforeTheFirst
<1>1. TypeOK /\ generation \in Nat
  BY InferenceAssumption DEF TypeOK
<1>2. UNCHANGED generation \/ Rebalance
  BY <1>1, GroupKinds DEF Elsewhere, Poll, CommitAcked, CommitFails, Close, Crash, End, LeaveGroup,
     Evict, Accept, Reject, groupVars
<1> SUFFICES ASSUME generation' = 0
             PROVE  /\ members' = {}
                    /\ \A r \in Replicas :
                          pending'[r] = {} /\ \A p \in Partitions : ~(next'[r][p] < position'[r][p])
                    /\ \A x \in Records : published'[x] = {}
  BY DEF HasPolled
<1>3. generation = 0
  BY <1>1, <1>2 DEF Rebalance
<1>4. /\ members = {}
      /\ \A r \in Replicas : pending[r] = {} /\ \A p \in Partitions : ~(next[r][p] < position[r][p])
      /\ \A x \in Records : published[x] = {}
  BY <1>3 DEF HasPolled
<1>5. \A x \in Records : published'[x] = {}
  <2>1. ASSUME NEW r \in Replicas, AppendBatch(r), NEW x \in Records
        PROVE  published'[x] = {}
    <3>1. InBatch(r, x) = {}
      BY <1>4, EmptyBatch DEF Open
    <3>2. QED  BY <1>4, <2>1, <3>1 DEF AppendBatch
  <2>2. QED  BY <1>4, <2>1, Effects DEF outputVars
<1>6. CASE Elsewhere
  BY <1>4, <1>5, <1>6 DEF Elsewhere, groupVars
<1>7. ASSUME NEW r \in Replicas, Close(r) \/ Crash(r)
      PROVE  /\ members' = {}
             /\ \A q \in Replicas :
                   pending'[q] = {} /\ \A p \in Partitions : ~(next'[q][p] < position'[q][p])
  <2>1. End(r)
    BY <1>7 DEF Close, Crash
  <2>2. QED  BY <1>1, <1>4, <2>1 DEF End, LeaveGroup, TypeOK
<1>8. ASSUME NEW r \in Replicas, CommitFails(r)
      PROVE  UNCHANGED <<members, pending, next, position>>
  BY <1>8 DEF CommitFails, groupVars, fetchVars, trackerVars
<1>9. ~Rebalance
  BY <1>1, <1>3 DEF Rebalance
<1>10. \A r \in Replicas : ~Poll(r) /\ ~CommitAcked(r) /\ ~Evict(r)
  BY <1>4 DEF Poll, CommitAcked, Evict
<1>11. \A r \in Replicas, p \in Partitions : ~Accept(r, p) /\ ~Reject(r, p)
  BY <1>4 DEF Accept, Reject, Observe, Takes, HasPolled
<1>12. QED
  BY <1>1, <1>4, <1>5, <1>6, <1>7, <1>8, <1>9, <1>10, <1>11, GroupKinds

\* In the first generation a commit of a member only moves its own offsets on.
LEMMA OwnOffsetsMoveOn ==
  ASSUME IInv, MembersAreFresh, generation <= 1, NEW r \in members, pc[r] = "commit",
         NEW c \in Offsets(r), NEW p \in Partitions, c[p] # committed[p]
  PROVE  /\ owner[p] = r
         /\ committed[p] < c[p]
         /\ c[p] <= next[r][p]
         /\ \A x \in pending[r] : x[1] = p /\ x[2] < c[p] =>
               x \in CompletedPrefix(pending[r], complete[r])
<1> DEFINE last == <<p, c[p] - 1>>
<1>1. TypeOK /\ r \in Replicas
  BY DEF IInv, TypeOK
<1>2. last \in CompletedPrefix(pending[r], complete[r]) /\ last \in pending[r] /\ c[p] \in 0 .. LogEnd
  BY <1>1, OffersItsOwn
<1>3. /\ owner[last[1]] = r /\ last[2] < next[r][last[1]] /\ committed[last[1]] <= last[2]
  BY <1>2 DEF MembersAreFresh
<1>4. /\ owner[p] = r /\ c[p] - 1 < next[r][p] /\ committed[p] <= c[p] - 1
  BY <1>3
<1>5. committed[p] \in Nat /\ next[r][p] \in Nat /\ c[p] \in Int
  BY <1>1, <1>2, InferenceAssumption DEF TypeOK
<1>6. ASSUME NEW x \in pending[r], x[1] = p, x[2] < c[p]
      PROVE  x \in CompletedPrefix(pending[r], complete[r])
  <2>1. x[2] \in Nat /\ x[2] <= c[p] - 1
    BY <1>1, <1>5, <1>6, RecordParts DEF TypeOK
  <2>2. ASSUME NEW y \in pending[r], y[1] = x[1], y[2] <= x[2]
        PROVE  y \in complete[r]
    <3>1. y[2] \in Nat
      BY <1>1, RecordParts DEF TypeOK
    <3>2. y[1] = last[1] /\ y[2] <= last[2]
      BY <1>5, <1>6, <2>1, <2>2, <3>1
    <3>3. QED  BY <1>2, <3>2 DEF CompletedPrefix
  <2>3. QED  BY <2>2 DEF CompletedPrefix
<1>7. QED  BY <1>4, <1>5, <1>6

LEMMA FreshStep ==
  ASSUME IInv, NothingBeforeTheFirst, MembersAreFresh, [Next]_vars
  PROVE  MembersAreFresh'
<1> USE DEF IInv
<1>1. TypeOK /\ generation \in Nat /\ TypeOK'
  BY TypeStep, InferenceAssumption DEF TypeOK
<1> DEFINE Fresh(r) ==
      /\ \A p \in Partitions : /\ next[r][p] < position[r][p] => owner[p] = r
                               /\ owner[p] = r => committed[p] <= next[r][p]
      /\ \A x \in pending[r] : /\ owner[x[1]] = r /\ x[2] < next[r][x[1]]
                               /\ pc[r] # "close" => committed[x[1]] <= x[2]
<1> SUFFICES ASSUME generation' <= 1, NEW r \in members'
             PROVE  Fresh(r)'
  BY DEF MembersAreFresh, HasPolled
<1>2. r \in Replicas
  BY <1>1 DEF TypeOK
<1>3. CASE Rebalance
  <2>1. generation = 0
    BY <1>1, <1>3 DEF Rebalance
  <2>2. pending[r] = {} /\ UNCHANGED <<pending, committed>>
    BY <1>2, <1>3, <2>1 DEF Rebalance, NothingBeforeTheFirst, trackerVars
  <2>3. position'[r] = committed /\ next'[r] = committed
    BY <1>2, <1>3 DEF Rebalance
  <2>4. \A p \in Partitions : committed[p] \in Nat
    BY <1>1, InferenceAssumption DEF TypeOK
  <2>5. QED  BY <2>2, <2>3, <2>4
<1> SUFFICES ASSUME ~Rebalance
             PROVE  Fresh(r)'
  BY <1>3
<1>4. generation <= 1 /\ r \in members
  BY <1>1, GroupKinds DEF Elsewhere, Poll, CommitAcked, CommitFails, Close, Crash, End, LeaveGroup,
     Evict, Accept, Reject, groupVars
<1>5. Fresh(r)
  BY <1>4 DEF MembersAreFresh, HasPolled
<1>6. CASE Elsewhere
  BY <1>2, <1>5, <1>6 DEF Elsewhere, groupVars
<1>7. ASSUME NEW q \in Replicas, Poll(q) PROVE Fresh(r)'
  <2>1. UNCHANGED <<owner, committed, next, pending>> /\ (pc[r] = "close" => pc'[r] = "close")
    BY <1>1, <1>2, <1>7 DEF Poll, groupVars, trackerVars, TypeOK
  <2>2. \A p \in Partitions : position'[r][p] = position[r][p] \/ owner[p] = r
    BY <1>1, <1>2, <1>7 DEF Poll, TypeOK
  <2>3. QED  BY <1>5, <2>1, <2>2
<1>8. ASSUME NEW q \in Replicas, NEW p \in Partitions, Accept(q, p) \/ Reject(q, p)
      PROVE  Fresh(r)'
  <2>1. /\ UNCHANGED <<owner, committed, position>> /\ Takes(q, p)
        /\ next' = [next EXCEPT ![q][p] = @ + 1]
        /\ pending' = [pending EXCEPT ![q] = @ \union {<<p, next[q][p]>>}]
        /\ pc[r] = "close" => pc'[r] = "close"
    BY <1>1, <1>2, <1>8 DEF Accept, Reject, Observe, MarkCompleted, Takes, groupVars, TypeOK
  <2>2. next[q][p] \in Nat /\ committed[p] \in Nat /\ \A o \in Partitions : next[r][o] \in Nat
    BY <1>1, <1>2, InferenceAssumption DEF TypeOK
  <2>3. CASE q = r
    <3>1. next[r][p] < position[r][p]
      BY <2>1, <2>3 DEF Takes, HasPolled
    <3>2. owner[p] = r /\ committed[p] <= next[r][p]
      BY <1>5, <3>1
    <3>3. \A o \in Partitions : next'[r][o] = IF o = p THEN next[r][o] + 1 ELSE next[r][o]
      BY <1>1, <1>2, <2>1, <2>3 DEF TypeOK
    <3>4. \A o \in Partitions : /\ next'[r][o] < position[r][o] => owner[o] = r
                                /\ owner[o] = r => committed[o] <= next'[r][o]
      <4>1. \A o \in Partitions : next[r][o] < position[r][o] => owner[o] = r
        BY <1>5
      <4>2. \A o \in Partitions : position[r][o] \in Nat /\ committed[o] \in Nat
        BY <1>1, <1>2, InferenceAssumption DEF TypeOK
      <4>3. QED  BY <1>5, <2>2, <3>2, <3>3, <4>1, <4>2
    <3>5. ASSUME NEW x \in pending'[r]
          PROVE  /\ owner[x[1]] = r /\ x[2] < next'[r][x[1]]
                 /\ pc'[r] # "close" => committed[x[1]] <= x[2]
      <4>1. CASE x = <<p, next[r][p]>>
        BY <2>2, <3>2, <3>3, <4>1
      <4>2. CASE x \in pending[r]
        <5>1. x[1] \in Partitions /\ x[2] \in Nat
          BY <1>1, <1>2, <4>2, RecordParts DEF TypeOK
        <5>2. /\ owner[x[1]] = r /\ x[2] < next[r][x[1]]
              /\ pc[r] # "close" => committed[x[1]] <= x[2]
          BY <1>5, <4>2
        <5>3. next'[r][x[1]] \in Nat /\ next[r][x[1]] \in Nat /\ next[r][x[1]] <= next'[r][x[1]]
          BY <2>2, <3>3, <5>1
        <5>4. QED  BY <2>1, <5>1, <5>2, <5>3
      <4>3. QED  BY <1>1, <1>2, <2>1, <2>3, <3>5, <4>1, <4>2 DEF TypeOK
    <3>6. QED  BY <2>1, <3>4, <3>5
  <2>4. CASE q # r
    <3>1. next'[r] = next[r] /\ pending'[r] = pending[r]
      BY <2>1, <2>4
    <3>2. QED  BY <1>5, <2>1, <3>1
  <2>5. QED  BY <2>3, <2>4
<1>9. ASSUME NEW q \in members, pc[q] = "commit", committed' \in Offsets(q),
             UNCHANGED <<owner, next, position>>, pending'[r] \subseteq pending[r],
             pc[r] = "close" => pc'[r] = "close",
             \/ q = r /\ pc'[r] = "close"
             \/ q = r /\ pending'[r] = pending[r] \ CompletedPrefix(pending[r], complete[r])
             \/ q # r
      PROVE  Fresh(r)'
  <2>1. \A p \in Partitions : committed'[p] # committed[p] =>
           /\ owner[p] = q
           /\ committed'[p] <= next[q][p]
           /\ \A x \in pending[q] : x[1] = p /\ x[2] < committed'[p] =>
                 x \in CompletedPrefix(pending[q], complete[q])
    BY <1>4, <1>9, OwnOffsetsMoveOn
  <2>2. \A p \in Partitions : owner[p] = r => committed'[p] <= next[r][p]
    BY <1>5, <2>1
  <2>3. ASSUME NEW x \in pending'[r], pc'[r] # "close"
        PROVE  committed'[x[1]] <= x[2]
    <3>1. x \in pending[r] /\ x[1] \in Partitions /\ x[2] \in Nat
      BY <1>1, <1>2, <1>9, <2>3, RecordParts DEF TypeOK
    <3>2. owner[x[1]] = r /\ committed[x[1]] <= x[2]
      BY <1>5, <1>9, <2>3, <3>1
    <3>3. CASE committed'[x[1]] = committed[x[1]]
      BY <3>2, <3>3
    <3>4. CASE committed'[x[1]] # committed[x[1]]
      <4>1. q = r /\ pending'[r] = pending[r] \ CompletedPrefix(pending[r], complete[r])
        BY <1>9, <2>1, <2>3, <3>1, <3>2, <3>4
      <4>2. ~(x[2] < committed'[x[1]])
        BY <2>1, <2>3, <3>1, <3>4, <4>1
      <4>3. committed'[x[1]] \in Nat
        BY <1>1, <3>1, InferenceAssumption DEF TypeOK
      <4>4. QED  BY <3>1, <4>2, <4>3
    <3>5. QED  BY <3>3, <3>4
  <2>4. QED  BY <1>5, <1>9, <2>2, <2>3
<1>10. ASSUME NEW q \in Replicas, CommitAcked(q) PROVE Fresh(r)'
  <2>1. /\ q \in members /\ pc[q] = "commit" /\ committed' \in Offsets(q)
        /\ UNCHANGED <<owner, next, position>>
        /\ pending' = [pending EXCEPT ![q] = @ \ CompletedPrefix(pending[q], complete[q])]
        /\ pc[r] = "close" => pc'[r] = "close"
    BY <1>1, <1>2, <1>10 DEF CommitAcked, groupVars, fetchVars, TypeOK
  <2>2. /\ q = r => pending'[r] = pending[r] \ CompletedPrefix(pending[r], complete[r])
        /\ q # r => pending'[r] = pending[r]
    BY <1>1, <1>2, <2>1 DEF TypeOK
  <2>3. QED  BY <1>9, <2>1, <2>2
<1>11. ASSUME NEW q \in Replicas, CommitFails(q) PROVE Fresh(r)'
  <2>1. /\ UNCHANGED <<owner, next, position, pending>> /\ pc[q] = "commit" /\ pc'[q] = "close"
        /\ pc[r] = "close" => pc'[r] = "close"
        /\ UNCHANGED committed \/ (q \in members /\ committed' \in Offsets(q))
    BY <1>1, <1>2, <1>11 DEF CommitFails, Fail, groupVars, fetchVars, trackerVars, TypeOK
  <2>2. CASE UNCHANGED committed
    BY <1>5, <2>1, <2>2
  <2>3. CASE q \in members /\ committed' \in Offsets(q)
    BY <1>9, <2>1, <2>3
  <2>4. QED  BY <2>1, <2>2, <2>3
<1>12. ASSUME NEW q \in Replicas, Close(q) \/ Crash(q) \/ Evict(q) PROVE Fresh(r)'
  <2>1. LeaveGroup(q) /\ UNCHANGED committed
    BY <1>12 DEF Close, Crash, End, Evict
  <2>2. q # r
    BY <2>1 DEF LeaveGroup
  <2>3. /\ next'[r] = next[r] /\ position'[r] = position[r] /\ pending'[r] = pending[r]
        /\ pc'[r] = pc[r]
    BY <1>1, <1>2, <1>12, <2>2
    DEF Close, Crash, End, Evict, controlVars, fetchVars, trackerVars, TypeOK
  <2>4. \A p \in Partitions : owner[p] = r => owner'[p] = r
    BY <2>1, <2>2 DEF LeaveGroup
  <2>5. \A p \in Partitions : owner'[p] = r => owner[p] = r
    BY <1>2, <2>1, NoOneAssumption DEF LeaveGroup
  <2>6. \A x \in pending[r] : x[1] \in Partitions
    BY <1>1, <1>2, RecordParts DEF TypeOK
  <2>7. QED  BY <1>5, <2>1, <2>3, <2>4, <2>5, <2>6
<1>13. QED  BY <1>6, <1>7, <1>8, <1>10, <1>11, <1>12, GroupKinds

\* In the first generation every record in a batch is of the partitions of
\* the replica, and no other replica has it.
LEMMA OneHasIt ==
  ASSUME IInv, MembersAreFresh, NothingTwice, disturbances = 0, generation <= 1,
         NEW r \in Replicas, NEW x \in Open(r)
  PROVE  /\ x \in Records /\ r \in members /\ owner[x[1]] = r
         /\ x[2] < next[r][x[1]]
<1>1. x \in pending[r] /\ x \in Records
  BY DEF IInv, TypeOK, Open
<1>2. r \in members
  BY <1>1 DEF NothingTwice
<1>3. QED  BY <1>1, <1>2 DEF MembersAreFresh

\* Nobody leaves or stops without a disturbance.
LEMMA NobodyLeaves ==
  ASSUME IInv, MembersAreFresh, NothingTwice, disturbances = 0, generation <= 1, [Next]_vars,
         UNCHANGED disturbances, NEW r \in Replicas
  PROVE  /\ pc'[r] \notin {"close", "down"} /\ then'[r] # "close" /\ ~stopping'[r]
         /\ \A q \in Replicas : ~Close(q) /\ ~Crash(q) /\ ~Evict(q) /\ ~CommitFails(q)
<1> USE DEF IInv
<1>1. TypeOK /\ disturbances \in Nat
  BY InferenceAssumption DEF TypeOK
<1>2. \A q \in Replicas : pc[q] \notin {"close", "down"} /\ then[q] # "close" /\ ~stopping[q]
  BY DEF NothingTwice
<1>3. ~Disturb
  BY <1>1 DEF Disturb
<1>4. ASSUME NEW q \in Replicas
      PROVE  ~Close(q) /\ ~Crash(q) /\ ~Evict(q) /\ ~Restart(q) /\ ~Drain(q) /\ ~PublishFails(q)
             /\ ~HandleSignal(q)
  BY <1>2, <1>3 DEF Close, Crash, Evict, Restart, Drain, PublishFails, HandleSignal
<1>5. ASSUME NEW q \in Replicas
      PROVE  ~CommitFails(q)
  <2>1. pc[q] = "commit" => q \in members
    BY DEF NothingTwice
  <2>2. QED  BY <1>3, <2>1 DEF CommitFails
<1>6. ASSUME NEW q \in Replicas, NEW p \in Partitions
      PROVE  ~ObserveRaises(q, p)
  <2>1. SUFFICES ASSUME HasPolled(q, p) PROVE ~OutOfOrder(q, p)
    BY DEF ObserveRaises, Takes
  <2>2. q \in members
    BY <2>1 DEF NothingTwice
  <2>3. \A x \in pending[q] : x[2] < next[q][x[1]] /\ x[2] \in Nat
    BY <1>1, <2>2, RecordParts DEF MembersAreFresh, TypeOK
  <2>4. next[q][p] \in Nat
    BY <1>1, InferenceAssumption DEF TypeOK
  <2>5. QED  BY <2>3, <2>4 DEF OutOfOrder
<1> DEFINE Stays == pc'[r] \notin {"close", "down"} /\ then'[r] # "close" /\ ~stopping'[r]
<1>7. pc[r] \notin {"close", "down"} /\ then[r] \notin {"close", "down"} /\ ~stopping[r]
  BY <1>1, <1>2 DEF TypeOK
<1>8. ASSUME NEW q \in Replicas,
             Poll(q) \/ EmptyPoll(q) \/ EndOfRecords(q) \/ Enqueue(q)
      PROVE  Stays
  BY <1>1, <1>7, <1>8 DEF Poll, EmptyPoll, Flush, EndOfRecords, Enqueue, TypeOK
<1>9. ASSUME NEW q \in Replicas, PublishAcked(q) \/ CommitAcked(q)
      PROVE  Stays
  BY <1>1, <1>7, <1>9 DEF PublishAcked, MarkCompleted, ResetBatch, CommitAcked, TypeOK
<1>10. ASSUME NEW q \in Replicas, NEW p \in Partitions, Accept(q, p) \/ Reject(q, p)
       PROVE  Stays
  BY <1>1, <1>7, <1>10 DEF Accept, Reject, MarkCompleted, TypeOK
<1>11. ASSUME Rebalance \/ UNCHANGED vars PROVE Stays
  <2>1. UNCHANGED <<pc, then, stopping>>
    BY <1>11 DEF Rebalance, controlVars, vars
  <2>2. QED  BY <1>7, <2>1, Zenon
<1>12. Stays
  BY <1>4, <1>5, <1>6, <1>8, <1>9, <1>10, <1>11, Zenon DEF Next, Step
<1>13. QED  BY <1>4, <1>5, <1>12

LEMMA TwiceStep ==
  ASSUME IInv, NothingBeforeTheFirst, MembersAreFresh, NothingTwice, [Next]_vars
  PROVE  NothingTwice'
<1> USE DEF IInv
<1>1. /\ TypeOK /\ TypeOK' /\ generation \in Nat /\ disturbances \in Nat
      /\ generation' \in Nat /\ disturbances' \in Nat
  BY TypeStep, InferenceAssumption DEF TypeOK
<1>2. disturbances' = disturbances \/ disturbances' = disturbances + 1
  <2> DEFINE Counts == UNCHANGED disturbances \/ Disturb
  <2>1. ASSUME NEW r \in Replicas,
               \/ Poll(r) \/ EmptyPoll(r) \/ Drain(r) \/ EndOfRecords(r) \/ Enqueue(r)
               \/ PublishAcked(r) \/ CommitAcked(r) \/ Close(r) \/ Restart(r)
        PROVE  Counts
    BY <2>1 DEF Poll, EmptyPoll, Flush, Drain, EndOfRecords, Enqueue, PublishAcked, CommitAcked,
       Close, Restart
  <2>2. ASSUME NEW r \in Replicas,
               PublishFails(r) \/ CommitFails(r) \/ HandleSignal(r) \/ Crash(r) \/ Evict(r)
        PROVE  Counts
    BY <2>2 DEF PublishFails, CommitFails, HandleSignal, Crash, Evict
  <2>3. ASSUME NEW r \in Replicas, NEW p \in Partitions,
               Accept(r, p) \/ Reject(r, p) \/ ObserveRaises(r, p)
        PROVE  Counts
    BY <2>3 DEF Accept, Reject, ObserveRaises
  <2>4. ASSUME Rebalance \/ UNCHANGED vars PROVE Counts
    BY <2>4 DEF Rebalance, vars
  <2> HIDE DEF Counts
  <2>5. Counts
    BY <2>1, <2>2, <2>3, <2>4, Zenon DEF Next, Step
  <2>6. QED  BY <2>5 DEF Counts, Disturb
<1>3. UNCHANGED generation \/ Rebalance
  BY <1>1, GroupKinds DEF Elsewhere, Poll, CommitAcked, CommitFails, Close, Crash, End, LeaveGroup,
     Evict, Accept, Reject, groupVars
<1> SUFFICES ASSUME disturbances' = 0, generation' <= 1
             PROVE  NothingTwice'
  BY DEF NothingTwice
<1>4. disturbances = 0 /\ UNCHANGED disturbances /\ generation <= 1
  BY <1>1, <1>2, <1>3 DEF Rebalance
<1>5. ASSUME NEW r \in Replicas
      PROVE  /\ pc'[r] \notin {"close", "down"} /\ then'[r] # "close" /\ ~stopping'[r]
             /\ ~Close(r) /\ ~Crash(r) /\ ~Evict(r) /\ ~CommitFails(r)
  BY <1>4, NobodyLeaves
<1>6. ASSUME NEW r \in Replicas
      PROVE  r \notin members' =>
               pending'[r] = {} /\ pc'[r] # "commit" /\ \A p \in Partitions : ~HasPolled(r, p)'
  <2>1. members \subseteq members'
    BY <1>1, <1>5, GroupKinds DEF Elsewhere, Poll, CommitAcked, Accept, Reject, Rebalance, groupVars
  <2> SUFFICES ASSUME r \notin members'
               PROVE  /\ pending'[r] = {} /\ pc'[r] # "commit"
                      /\ \A p \in Partitions : ~(next'[r][p] < position'[r][p])
    BY DEF HasPolled
  <2>2. /\ pending[r] = {} /\ pc[r] # "commit"
        /\ \A p \in Partitions : ~(next[r][p] < position[r][p])
    BY <1>4, <2>1 DEF NothingTwice, HasPolled
  <2>3. pc'[r] # "commit"
    <3>1. ASSUME NEW done PROVE CompletedPrefix(pending[r], done) = {}
      BY <2>2 DEF CompletedPrefix
    <3>2. ASSUME NEW q \in Replicas, PublishAcked(q) PROVE pc'[r] # "commit"
      <4>1. PICK done : pc' = [pc EXCEPT ![q] = IF CompletedPrefix(pending[q], done) # {}
                                               THEN "commit" ELSE then[q]]
        BY <3>2 DEF PublishAcked, MarkCompleted
      <4>2. CASE q = r
        BY <1>1, <3>1, <4>1, <4>2 DEF TypeOK
      <4>3. CASE q # r
        BY <1>1, <2>2, <4>1, <4>3 DEF TypeOK
      <4>4. QED  BY <4>2, <4>3
    <3>3. ASSUME NEW q \in Replicas, NEW p \in Partitions, Accept(q, p) \/ Reject(q, p)
          PROVE  pc'[r] # "commit"
      <4>1. q # r
        BY <2>2, <3>3 DEF Accept, Reject, Observe, Takes, HasPolled
      <4>2. QED  BY <1>1, <2>2, <3>3, <4>1 DEF Accept, Reject, MarkCompleted, TypeOK
    <3>4. ASSUME NEW q \in Replicas, CommitAcked(q) PROVE pc'[r] # "commit"
      <4>1. q # r
        BY <2>2, <3>4 DEF CommitAcked
      <4>2. QED  BY <1>1, <2>2, <3>4, <4>1 DEF CommitAcked, TypeOK
    <3>5. ASSUME NEW q \in Replicas,
                 \/ Poll(q) \/ EmptyPoll(q) \/ Drain(q) \/ EndOfRecords(q) \/ Enqueue(q)
                 \/ PublishFails(q) \/ HandleSignal(q) \/ Restart(q)
                 \/ \E p \in Partitions : ObserveRaises(q, p)
          PROVE  pc'[r] # "commit"
      BY <1>1, <2>2, <3>5
      DEF Poll, EmptyPoll, Drain, Flush, EndOfRecords, Enqueue, PublishFails, Fail, HandleSignal,
          Restart, ObserveRaises, TypeOK
    <3>6. CASE Rebalance \/ UNCHANGED vars
      BY <2>2, <3>6 DEF Rebalance, controlVars, vars
    <3>7. QED  BY <1>5, <3>2, <3>3, <3>4, <3>5, <3>6, Zenon DEF Next, Step
  <2>4. pending'[r] = pending[r] /\ next'[r] = next[r] /\ position'[r] = position[r]
    <3>1. ASSUME NEW q \in Replicas, Poll(q) \/ CommitAcked(q)
          PROVE  pending'[r] = pending[r] /\ next'[r] = next[r] /\ position'[r] = position[r]
      <4>1. q # r
        BY <2>1, <3>1 DEF Poll, CommitAcked
      <4>2. QED  BY <1>1, <3>1, <4>1 DEF Poll, CommitAcked, fetchVars, trackerVars, TypeOK
    <3>2. ASSUME NEW q \in Replicas, NEW p \in Partitions, Accept(q, p) \/ Reject(q, p)
          PROVE  pending'[r] = pending[r] /\ next'[r] = next[r] /\ position'[r] = position[r]
      <4>1. q # r
        BY <2>2, <3>2 DEF Accept, Reject, Observe, Takes, HasPolled
      <4>2. QED  BY <1>1, <3>2, <4>1 DEF Accept, Reject, Observe, TypeOK
    <3>3. CASE Rebalance
      BY <3>3 DEF Rebalance, trackerVars
    <3>4. CASE Elsewhere
      BY <3>4 DEF Elsewhere
    <3>5. QED  BY <1>1, <1>5, <3>1, <3>2, <3>3, <3>4, GroupKinds
  <2>5. QED  BY <2>2, <2>3, <2>4
<1>7. UNCHANGED published \/ \E q \in Replicas : PublishAcked(q)
  <2>1. \A q \in Replicas : ~PublishFails(q)
    BY <1>1, <1>4 DEF PublishFails, Disturb
  <2>2. ASSUME NEW q \in Replicas, NEW p \in Partitions,
               Accept(q, p) \/ Reject(q, p) \/ ObserveRaises(q, p)
        PROVE  UNCHANGED published
    BY <2>2 DEF Accept, Reject, ObserveRaises, outputVars
  <2>3. ASSUME NEW q \in Replicas,
               \/ Poll(q) \/ EmptyPoll(q) \/ Drain(q) \/ EndOfRecords(q) \/ Enqueue(q)
               \/ HandleSignal(q) \/ Restart(q) \/ CommitAcked(q)
        PROVE  UNCHANGED published
    BY <2>3
    DEF Poll, EmptyPoll, Drain, Flush, EndOfRecords, Enqueue, HandleSignal, Restart, CommitAcked,
        outputVars
  <2>4. CASE Rebalance \/ UNCHANGED vars
    BY <2>4 DEF Rebalance, outputVars, vars
  <2>5. QED  BY <1>5, <2>1, <2>2, <2>3, <2>4, Zenon DEF Next, Step
<1>8. ASSUME NEW r \in Replicas, NEW x \in Open(r)'
      PROVE  published'[x] \subseteq 1 .. (enqueued'[r][x] - contribution'[r][x])
  <2> DEFINE Fits == published'[x] \subseteq 1 .. (enqueued'[r][x] - contribution'[r][x])
  <2>1. x \in Records
    BY <1>1 DEF Open, TypeOK
  <2>2. /\ enqueued[r][x] \in Nat /\ contribution[r][x] \in Nat
    BY <1>1, <2>1 DEF TypeOK
  <2>3. x \in Open(r) => /\ published[x] \subseteq 1 .. (enqueued[r][x] - contribution[r][x])
                         /\ contribution[r][x] <= enqueued[r][x]
    BY <1>4, <2>1 DEF NothingTwice, RowsAddUp
  <2>4. ASSUME NEW q \in Replicas, PublishAcked(q) PROVE Fits
    <3>1. /\ published'[x] = published[x] \union InBatch(q, x)
          /\ x \in Open(r) /\ UNCHANGED enqueued
          /\ contribution' = [contribution EXCEPT ![q] = Zeros]
      BY <1>1, <2>1, <2>4 DEF PublishAcked, AppendBatch, ResetBatch, MarkCompleted, Open, TypeOK
    <3>2. CASE q = r
      <4>1. contribution'[r][x] = 0
        BY <1>1, <2>1, <3>1, <3>2 DEF TypeOK, Zeros
      <4>2. QED  BY <2>2, <2>3, <3>1, <3>2, <4>1 DEF InBatch
    <3>3. CASE q # r
      <4>1. x \notin Open(q)
        BY <1>4, <3>1, <3>3, OneHasIt
      <4>2. InBatch(q, x) = {}
        BY <2>1, <4>1, EmptyBatch
      <4>3. QED  BY <2>3, <3>1, <3>3, <4>2
    <3>4. QED  BY <3>2, <3>3
  <2> SUFFICES ASSUME UNCHANGED published PROVE Fits
    BY <1>7, <2>4
  <2>5. CASE Quiet \/ Rebalance
    BY <2>3, <2>5 DEF Quiet, Rebalance, trackerVars, batchVars, Open
  <2>6. ASSUME NEW q \in Replicas, Enqueue(q) PROVE Fits
    <3>1. x \in Open(r)
      BY <2>6 DEF Enqueue, Open, trackerVars
    <3>2. /\ enqueued' = [enqueued EXCEPT ![q][Current(q)] = @ + Chunk(q)]
          /\ contribution' = [contribution EXCEPT ![q][Current(q)] = @ + Chunk(q)]
      BY <2>6 DEF Enqueue
    <3>3. Chunk(q) \in Nat /\ Current(q) \in Records
      BY <2>6, ChunkType DEF Enqueue
    <3>4. enqueued'[r][x] - contribution'[r][x] = enqueued[r][x] - contribution[r][x]
      <4>1. CASE q = r /\ x = Current(q)
        <5>1. /\ enqueued'[r][x] = enqueued[r][x] + Chunk(q)
              /\ contribution'[r][x] = contribution[r][x] + Chunk(q)
          BY <1>1, <2>1, <3>2, <4>1 DEF TypeOK
        <5>2. QED  BY <2>2, <3>3, <5>1
      <4>2. CASE ~(q = r /\ x = Current(q))
        <5>1. enqueued'[r][x] = enqueued[r][x] /\ contribution'[r][x] = contribution[r][x]
          BY <1>1, <2>1, <3>2, <4>2 DEF TypeOK
        <5>2. QED  BY <5>1
      <4>3. QED  BY <4>1, <4>2
    <3>5. QED  BY <2>3, <3>1, <3>4
  <2>7. ASSUME NEW q \in Replicas, CommitAcked(q) PROVE Fits
    <3>1. x \in Open(r) /\ UNCHANGED <<enqueued, contribution>>
      BY <1>1, <2>7 DEF CommitAcked, Open, batchVars, TypeOK
    <3>2. QED  BY <2>3, <3>1
  <2>8. ASSUME NEW q \in Replicas PROVE ~Ends(q)
    BY <1>1, <1>5 DEF Ends, End, TypeOK
  <2>9. ASSUME NEW q \in Replicas, NEW p \in Partitions, Accept(q, p) PROVE Fits
    <3> DEFINE y == <<p, next[q][p]>>
    <3>1. CASE r = q /\ x = y
      <4>1. y \in Records /\ y \notin pending[q] /\ HasPolled(q, p)
        BY <1>1, <2>9, ObservedIsLast DEF Accept, Observe, Takes
      <4>2. contribution[q][y] = 0
        BY <4>1 DEF RowsAddUp, Open
      <4>3. enqueued'[q][y] = 0 /\ UNCHANGED contribution
        BY <1>1, <2>9, <4>1 DEF Accept, TypeOK
      <4>4. q \in members
        BY <1>4, <4>1 DEF NothingTwice
      <4>5. owner[p] = q /\ next[q][p] \in Nat
        BY <1>1, <1>4, <4>1, <4>4, InferenceAssumption DEF MembersAreFresh, TypeOK
      <4>6. published[y] = {}
        BY <1>4, <4>1, <4>4, <4>5 DEF NothingTwice
      <4>7. QED  BY <3>1, <4>2, <4>3, <4>6
    <3>2. CASE ~(r = q /\ x = y)
      <4>1. x \in Open(r) /\ enqueued'[r][x] = enqueued[r][x] /\ UNCHANGED contribution
        BY <1>1, <2>1, <2>9, <3>2 DEF Accept, Observe, Open, TypeOK
      <4>2. QED  BY <2>3, <4>1
    <3>3. QED  BY <3>1, <3>2
  <2>10. ASSUME NEW q \in Replicas, NEW p \in Partitions, Reject(q, p) PROVE Fits
    <3>1. x \in Open(r) /\ UNCHANGED <<enqueued, contribution>>
      BY <1>1, <2>10 DEF Reject, Observe, MarkCompleted, Open, batchVars, TypeOK
    <3>2. QED  BY <2>3, <3>1
  <2>11. ASSUME NEW q \in Replicas, PublishAcked(q) PROVE Fits
    BY <2>4, <2>11
  <2>12. QED
    BY <1>1, <2>5, <2>6, <2>7, <2>8, <2>9, <2>10, <2>11, StepKinds
<1>9. ASSUME NEW r \in members', NEW x \in Records, owner'[x[1]] = r, next'[r][x[1]] <= x[2]
      PROVE  published'[x] = {}
  <2>1. CASE Rebalance
    <3>1. generation = 0
      BY <1>1, <2>1 DEF Rebalance
    <3>2. QED  BY <2>1, <3>1 DEF Rebalance, NothingBeforeTheFirst, outputVars
  <2>2. CASE ~Rebalance
    <3>1. UNCHANGED <<members, owner>>
      BY <1>1, <1>5, <2>2, GroupKinds DEF Elsewhere, Poll, CommitAcked, Accept, Reject, groupVars
    <3>2. r \in Replicas /\ x[1] \in Partitions /\ x[2] \in Nat
      BY <1>1, RecordParts DEF TypeOK
    <3>3. /\ next'[r][x[1]] \in Nat /\ next[r][x[1]] \in Nat /\ next[r][x[1]] <= next'[r][x[1]]
      <4>1. \/ next' = next
            \/ \E q \in Replicas, p \in Partitions : next' = [next EXCEPT ![q][p] = @ + 1]
        BY <1>1, <1>5, <2>2, GroupKinds
        DEF Elsewhere, Poll, CommitAcked, Accept, Reject, Observe, fetchVars
      <4>2. next[r][x[1]] \in Nat
        BY <1>1, <3>2, InferenceAssumption DEF TypeOK
      <4>3. CASE next' = next
        BY <4>2, <4>3
      <4>4. ASSUME NEW q \in Replicas, NEW p \in Partitions, next' = [next EXCEPT ![q][p] = @ + 1]
            PROVE  next'[r][x[1]] = next[r][x[1]] \/ next'[r][x[1]] = next[r][x[1]] + 1
        <5>1. next \in [Replicas -> [Partitions -> 0 .. LogEnd]]
          BY <1>1 DEF TypeOK
        <5>2. QED  BY <3>2, <4>4, <5>1
      <4>5. QED  BY <4>1, <4>2, <4>3, <4>4
    <3>4. published[x] = {}
      BY <1>4, <1>9, <3>1, <3>2, <3>3 DEF NothingTwice
    <3>5. ASSUME NEW q \in Replicas, PublishAcked(q)
          PROVE  published'[x] = {}
      <4>1. x \notin Open(q)
        <5>1. UNCHANGED next
          BY <3>5 DEF PublishAcked, fetchVars
        <5>2. x \in Open(q) => owner[x[1]] = q /\ x[2] < next[q][x[1]]
          BY <1>4, OneHasIt
        <5>3. QED  BY <1>9, <3>1, <3>2, <3>3, <5>1, <5>2
      <4>2. InBatch(q, x) = {}
        BY <4>1, EmptyBatch
      <4>3. QED  BY <3>4, <3>5, <4>2 DEF PublishAcked, AppendBatch
    <3>6. QED  BY <1>7, <3>4, <3>5
  <2>3. QED  BY <2>1, <2>2
<1>10. QED  BY <1>5, <1>6, <1>8, <1>9 DEF NothingTwice

\* The invariant of the first generation.
THEOREM FirstGeneration == Spec => []AInv
<1>1. Init => AInv
  <2>1. SUFFICES ASSUME Init PROVE AInv
    OBVIOUS
  <2>2. IInv
    BY <2>1, InitIInv
  <2>3. NothingBeforeTheFirst /\ MembersAreFresh
    BY <2>1 DEF Init, NothingBeforeTheFirst, MembersAreFresh, HasPolled
  <2>4. NothingTwice
    <3>1. ASSUME NEW r \in Replicas
          PROVE  /\ pc[r] = "poll" /\ then[r] = "poll" /\ ~stopping[r] /\ pending[r] = {}
                 /\ \A p \in Partitions : ~HasPolled(r, p)
                 /\ Open(r) = {} /\ r \notin members
      BY <2>1 DEF Init, HasPolled, Open
    <3>2. QED  BY <3>1 DEF NothingTwice
  <2>5. QED  BY <2>2, <2>3, <2>4 DEF AInv
<1>2. IInv /\ [Next]_vars => IInv'
  BY TypeStep, DownStep, CommittedStep, CompleteStep, NoGapsStep, RowsStep, CurrentStep,
     OthersStep, FrontsStep DEF IInv
<1>3. AInv /\ [Next]_vars => AInv'
  BY <1>2, FirstStep, FreshStep, TwiceStep DEF AInv
<1>4. QED  BY <1>1, <1>3, PTL DEF Spec

\* An offset of the group moves back only after a second rebalance: within one
\* assignment a commit of mark_completed() only moves offsets on.
THEOREM OnlyRebalancesRewind == Spec => RewindsNeedARebalance
<1>1. ASSUME AInv, [Next]_vars
      PROVE  [\A p \in Partitions : committed'[p] < committed[p] => generation > 1]_vars
  <2> SUFFICES ASSUME NEW p \in Partitions, committed'[p] < committed[p], ~(generation > 1)
               PROVE  FALSE
    OBVIOUS
  <2>1. IInv /\ TypeOK /\ NothingBeforeTheFirst /\ MembersAreFresh
    BY <1>1 DEF AInv, IInv
  <2>2. generation \in Nat /\ generation <= 1 /\ committed[p] \in Nat
    BY <2>1, InferenceAssumption DEF TypeOK
  <2>3. committed'[p] # committed[p]
    BY <2>2
  <2>4. PICK r \in Replicas : /\ r \in members /\ pc[r] = "commit" /\ committed' \in Offsets(r)
    BY <1>1, <2>1, <2>3, GroupKinds
    DEF Elsewhere, Rebalance, Poll, CommitAcked, CommitFails, Close, Crash, End, Evict, Accept, Reject
  <2>5. committed[p] < committed'[p]
    BY <2>1, <2>2, <2>3, <2>4, OwnOffsetsMoveOn
  <2>6. committed'[p] \in Nat
    BY <2>4, InferenceAssumption DEF Offsets
  <2>7. QED  BY <2>2, <2>5, <2>6
<1>2. QED  BY FirstGeneration, <1>1, PTL DEF Spec, RewindsNeedARebalance

\* No row is about to be published twice until something is disturbed or the
\* group is rebalanced a second time.
THEOREM NoDuplicates == Spec => []DuplicatesNeedACause
<1>1. ASSUME AInv PROVE DuplicatesNeedACause
  <2> SUFFICES ASSUME disturbances = 0, generation <= 1, NEW r \in Replicas, NEW x \in Records
               PROVE  InBatch(r, x) \intersect published[x] = {}
    BY DEF DuplicatesNeedACause
  <2>1. IInv /\ TypeOK /\ NothingTwice
    BY <1>1 DEF AInv, IInv
  <2>2. CASE x \notin Open(r)
    BY <2>1, <2>2, EmptyBatch
  <2>3. CASE x \in Open(r)
    <3>1. published[x] \subseteq 1 .. (enqueued[r][x] - contribution[r][x])
      BY <2>1, <2>3 DEF NothingTwice
    <3>2. enqueued[r][x] \in Nat /\ contribution[r][x] \in Nat
      BY <2>1 DEF TypeOK
    <3>3. QED  BY <3>1, <3>2 DEF InBatch
  <2>4. QED  BY <2>2, <2>3
<1>2. QED  BY FirstGeneration, <1>1, PTL
=============================================================================
