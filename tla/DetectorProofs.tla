--------------------------- MODULE DetectorProofs ---------------------------
(***************************************************************************)
(* Proofs about Detector, for any number of replicas, partitions and       *)
(* records of any kind, with and without audit files.                      *)
(***************************************************************************)
EXTENDS Detector, FiniteSetTheorems, TLAPS

-----------------------------------------------------------------------------
(* Records and types.                                                      *)

LEMMA PolledType ==
  ASSUME TypeOK, NEW r \in Replicas, NEW p \in Partitions, HasPolled(r, p)
  PROVE  /\ <<p, next[r][p]>> \in Records
         /\ next[r][p] \in Nat
         /\ next[r][p] + 1 \in 0 .. LogEnd
<1>1. next[r][p] \in 0 .. LogEnd /\ position[r][p] \in 0 .. LogEnd
  BY DEF TypeOK
<1>2. QED  BY <1>1, DetectorAssumption DEF HasPolled, Records

LEMMA CurrentType ==
  ASSUME DInv, NEW r \in Replicas, pc[r] \in {"audit", "publish", "commit"}
  PROVE  /\ turn[r] \in Partitions
         /\ HasPolled(r, turn[r])
         /\ Current(r) \in Records
         /\ next[r][turn[r]] + 1 \in 0 .. LogEnd
<1>1. turn[r] \in Partitions /\ HasPolled(r, turn[r])
  BY DEF DInv, TypeOK, RecordInHand
<1>2. QED  BY <1>1, PolledType DEF DInv, Current

LEMMA OneMoreType ==
  ASSUME NEW n \in 0 .. Many
  PROVE  OneMore(n) \in 0 .. Many /\ OneMore(n) > 0
BY DetectorAssumption DEF OneMore

LEMMA StoreType ==
  ASSUME DInv, NEW r \in Replicas, pc[r] = "commit", StoreOffset(r)
  PROVE  committed' \in [Partitions -> 0 .. LogEnd]
BY CurrentType DEF StoreOffset, DInv, TypeOK

LEMMA TypeStep ==
  ASSUME DInv, [Next]_vars
  PROVE  TypeOK'
<1> USE DetectorAssumption DEF DInv, TypeOK, PCs, Goes, outputVars, groupVars, fetchVars
<1>1. CASE UNCHANGED vars
  BY <1>1 DEF vars
<1>2. CASE Rebalance
  BY <1>2 DEF Rebalance
<1>3. ASSUME NEW r \in Replicas, Poll(r) PROVE TypeOK'
  BY <1>3 DEF Poll
<1>4. ASSUME NEW r \in Replicas, EmptyPoll(r) \/ Stop(r) \/ EndOfRecords(r) PROVE TypeOK'
  BY <1>4 DEF EmptyPoll, Stop, EndOfRecords, vars
<1>5. ASSUME NEW r \in Replicas, NEW p \in Partitions, Reject(r, p) PROVE TypeOK'
  <2>1. <<p, next[r][p]>> \in Records
    BY <1>5, PolledType DEF Reject, Take
  <2>2. QED  BY <1>5, <2>1 DEF Reject, Take
<1>6. ASSUME NEW r \in Replicas, NEW p \in Partitions, Classify(r, p) PROVE TypeOK'
  BY <1>6 DEF Classify, Take
<1>7. ASSUME NEW r \in Replicas, WriteAudit(r) \/ AuditFails(r) PROVE TypeOK'
  <2>1. WriteRows(r) => audited' \in [Records -> 0 .. Many]
    BY <1>7, CurrentType, OneMoreType DEF WriteAudit, AuditFails, WriteRows
  <2>2. CASE WriteAudit(r)
    BY <2>1, <2>2 DEF WriteAudit
  <2>3. CASE AuditFails(r)
    BY <2>1, <2>3 DEF AuditFails, Fail, Disturb
  <2>4. QED  BY <1>7, <2>2, <2>3
<1>8. ASSUME NEW r \in Replicas, AuditRaises(r) PROVE TypeOK'
  BY <1>8 DEF AuditRaises, Fail
<1>9. ASSUME NEW r \in Replicas, PublishAcked(r) \/ PublishFails(r) PROVE TypeOK'
  <2>1. Append(r) => published' \in [Records -> 0 .. Many]
    BY <1>9, CurrentType, OneMoreType DEF PublishAcked, PublishFails, Append
  <2>2. CASE PublishAcked(r)
    BY <2>1, <2>2 DEF PublishAcked
  <2>3. CASE PublishFails(r)
    BY <2>1, <2>3 DEF PublishFails, Fail, Disturb
  <2>4. QED  BY <1>9, <2>2, <2>3
<1>10. ASSUME NEW r \in Replicas, CommitAcked(r) PROVE TypeOK'
  <2>1. next[r][turn[r]] + 1 \in 0 .. LogEnd
    BY <1>10, CurrentType DEF CommitAcked
  <2>2. QED  BY <1>10, <2>1, StoreType DEF CommitAcked
<1>11. ASSUME NEW r \in Replicas, CommitFails(r) PROVE TypeOK'
  BY <1>11, StoreType DEF CommitFails, Fail, Disturb
<1>12. ASSUME NEW r \in Replicas, HandleSignal(r) PROVE TypeOK'
  BY <1>12 DEF HandleSignal, Disturb
<1>13. ASSUME NEW r \in Replicas, Close(r) \/ Crash(r) PROVE TypeOK'
  <2>1. End(r) /\ failed' \in [Replicas -> BOOLEAN]
    BY <1>13 DEF Close, Crash
  <2>2. disturbances' \in 0 .. MaxDisturbances
    <3>1. CASE Close(r)
      BY <2>1, <3>1 DEF Close
    <3>2. CASE Crash(r)
      BY <2>1, <3>2 DEF Crash, Disturb
    <3>3. QED  BY <1>13, <3>1, <3>2
  <2>3. /\ members' \subseteq Replicas
        /\ owner' \in [Partitions -> Replicas \union {NoOne}]
    BY <2>1 DEF End, LeaveGroup
  <2>4. /\ position' \in [Replicas -> [Partitions -> 0 .. LogEnd]]
        /\ next' \in [Replicas -> [Partitions -> 0 .. LogEnd]]
        /\ pc' \in [Replicas -> PCs]
    BY <2>1 DEF End
  <2>5. QED  BY <2>1, <2>2, <2>3, <2>4 DEF End
<1>14. ASSUME NEW r \in Replicas, Restart(r) PROVE TypeOK'
  BY <1>14 DEF Restart
<1>15. ASSUME NEW r \in Replicas, Evict(r) PROVE TypeOK'
  BY <1>15 DEF Evict, LeaveGroup, Disturb
<1> HIDE DEF DInv, TypeOK
<1>16. QED
  BY <1>1, <1>2, <1>3, <1>4, <1>5, <1>6, <1>7, <1>8, <1>9, <1>10, <1>11, <1>12, <1>13, <1>14,
     <1>15 DEF Next, Step

-----------------------------------------------------------------------------
(* What is handled stays handled.                                          *)

\* Only these actions touch the output or the offsets.
LEMMA Effects ==
  ASSUME [Next]_vars
  PROVE  \/ UNCHANGED <<published, skipped, committed>>
         \/ \E r \in Replicas : pc[r] = "publish" /\ Append(r) /\ UNCHANGED <<skipped, committed>>
         \/ skipped \subseteq skipped' /\ UNCHANGED <<published, committed>>
         \/ \E r \in Replicas :
               /\ pc[r] = "commit" /\ r \in members /\ StoreOffset(r)
               /\ UNCHANGED <<published, skipped>>
<1> USE DEF outputVars
<1>1. CASE UNCHANGED vars
  BY <1>1 DEF vars
<1>2. CASE Rebalance
  BY <1>2 DEF Rebalance
<1>3. ASSUME NEW r \in Replicas, Poll(r) \/ EmptyPoll(r) \/ Stop(r) \/ EndOfRecords(r)
      PROVE  UNCHANGED <<published, skipped, committed>>
  BY <1>3 DEF Poll, EmptyPoll, Stop, EndOfRecords, vars
<1>4. ASSUME NEW r \in Replicas, WriteAudit(r) \/ AuditRaises(r) \/ AuditFails(r)
      PROVE  UNCHANGED <<published, skipped, committed>>
  BY <1>4 DEF WriteAudit, AuditRaises, AuditFails
<1>5. ASSUME NEW r \in Replicas, HandleSignal(r) \/ Restart(r) \/ Evict(r)
      PROVE  UNCHANGED <<published, skipped, committed>>
  BY <1>5 DEF HandleSignal, Restart, Evict
<1>6. ASSUME NEW r \in Replicas, Close(r) \/ Crash(r)
      PROVE  UNCHANGED <<published, skipped, committed>>
  BY <1>6 DEF Close, Crash, End
<1>7. ASSUME NEW r \in Replicas, NEW p \in Partitions, Classify(r, p)
      PROVE  UNCHANGED <<published, skipped, committed>>
  BY <1>7 DEF Classify
<1>8. ASSUME NEW r \in Replicas, NEW p \in Partitions, Reject(r, p)
      PROVE  skipped \subseteq skipped' /\ UNCHANGED <<published, committed>>
  BY <1>8 DEF Reject
<1>9. ASSUME NEW r \in Replicas, PublishAcked(r) \/ PublishFails(r)
      PROVE  /\ pc[r] = "publish" /\ UNCHANGED <<skipped, committed>>
             /\ Append(r) \/ UNCHANGED published
  BY <1>9 DEF PublishAcked, PublishFails
<1>10. ASSUME NEW r \in Replicas, CommitAcked(r) \/ CommitFails(r)
       PROVE  /\ pc[r] = "commit" /\ UNCHANGED <<published, skipped>>
              /\ UNCHANGED committed \/ (r \in members /\ StoreOffset(r))
  BY <1>10 DEF CommitAcked, CommitFails
<1>11. QED
  BY <1>1, <1>2, <1>3, <1>4, <1>5, <1>6, <1>7, <1>8, <1>9, <1>10, Zenon DEF Next, Step

LEMMA HandledGrows ==
  ASSUME TypeOK, [Next]_vars
  PROVE  Handled \subseteq Handled'
<1>1. ASSUME NEW r \in Replicas, Append(r), NEW x \in Records, published[x] > 0
      PROVE  published'[x] > 0
  BY <1>1, OneMoreType DEF Append, TypeOK
<1>2. QED  BY <1>1, Effects DEF Handled

LEMMA CommittedStep ==
  ASSUME DInv, [Next]_vars
  PROVE  CommittedIsHandled'
<1> USE DEF DInv
<1>1. Handled \subseteq Handled'
  BY HandledGrows
<1>2. CASE UNCHANGED committed
  BY <1>1, <1>2 DEF CommittedIsHandled
<1>3. ASSUME NEW r \in Replicas, pc[r] = "commit", StoreOffset(r)
      PROVE  CommittedIsHandled'
  <2> SUFFICES ASSUME NEW p \in Partitions, NEW o \in 0 .. committed'[p] - 1
               PROVE  <<p, o>> \in Handled
    BY <1>1 DEF CommittedIsHandled
  <2>1. CASE p # turn[r]
    BY <1>3, <2>1 DEF StoreOffset, CommittedIsHandled, TypeOK
  <2>2. CASE p = turn[r]
    <3>1. committed'[p] = next[r][p] + 1 /\ next[r][p] \in Nat
      BY <1>3, <2>2, CurrentType, PolledType DEF StoreOffset, TypeOK
    <3>2. o = next[r][p] \/ o \in 0 .. next[r][p] - 1
      BY <3>1
    <3>3. <<p, next[r][p]>> \in Handled
      BY <1>3, <2>2 DEF LoopIsHandled, Current
    <3>4. QED  BY <3>2, <3>3 DEF LoopIsHandled
  <2>3. QED  BY <2>1, <2>2
<1>4. QED  BY <1>2, <1>3, Effects

-----------------------------------------------------------------------------
(* The for loop.                                                           *)

\* The steps that leave the fetch positions and the group alone, and how they
\* may move a replica.
Moves(r) ==
  \/ pc'[r] = pc[r]
  \/ pc'[r] \in {"poll", "records", "close"} /\ pc[r] # "close"
  \/ pc[r] = "audit" /\ pc'[r] = "publish"

Quiet == UNCHANGED <<fetchVars, groupVars, committed>> /\ \A r \in Replicas : Moves(r)

LEMMA StepKinds ==
  ASSUME TypeOK, [Next]_vars
  PROVE  \/ Quiet
         \/ Rebalance
         \/ \E r \in Replicas : \/ Poll(r) \/ PublishAcked(r) \/ CommitAcked(r) \/ CommitFails(r)
                                \/ End(r) \/ Evict(r)
         \/ \E r \in Replicas, p \in Partitions : Reject(r, p) \/ Classify(r, p)
<1> USE DEF Quiet, Moves, TypeOK, Goes, fetchVars, groupVars
<1>1. CASE UNCHANGED vars
  BY <1>1 DEF vars
<1>2. ASSUME NEW r \in Replicas, EmptyPoll(r) \/ Stop(r) \/ EndOfRecords(r) PROVE Quiet
  BY <1>2 DEF EmptyPoll, Stop, EndOfRecords, vars
<1>3. ASSUME NEW r \in Replicas, WriteAudit(r) \/ AuditRaises(r) \/ AuditFails(r) PROVE Quiet
  BY <1>3 DEF WriteAudit, AuditRaises, AuditFails, Fail
<1>4. ASSUME NEW r \in Replicas, PublishFails(r) PROVE Quiet
  BY <1>4 DEF PublishFails, Fail
<1>5. ASSUME NEW r \in Replicas, HandleSignal(r) \/ Restart(r) PROVE Quiet
  BY <1>5 DEF HandleSignal, Restart
<1>6. ASSUME NEW r \in Replicas, Close(r) \/ Crash(r) PROVE End(r)
  BY <1>6 DEF Close, Crash
<1> HIDE DEF Quiet
<1>7. QED
  BY <1>1, <1>2, <1>3, <1>4, <1>5, <1>6, Zenon DEF Next, Step

LEMMA LoopStep ==
  ASSUME DInv, [Next]_vars
  PROVE  LoopIsHandled'
<1> USE DEF DInv, TypeOK, Goes, fetchVars, outputVars
<1> DEFINE Below(r) == \A p \in Partitions : \A o \in 0 .. next[r][p] - 1 : <<p, o>> \in Handled
<1>1. Handled \subseteq Handled'
  BY HandledGrows
<1> SUFFICES ASSUME NEW q \in Replicas
             PROVE  Below(q)' /\ (pc'[q] = "commit" => Current(q)' \in Handled')
  BY DEF LoopIsHandled
<1> DEFINE Goal == Below(q)' /\ (pc'[q] = "commit" => Current(q)' \in Handled')
<1>2. ASSUME next'[q] = next[q], pc'[q] = "commit" => pc[q] = "commit" /\ turn'[q] = turn[q]
      PROVE  Goal
  BY <1>1, <1>2 DEF LoopIsHandled, Current
<1>3. CASE Quiet
  BY <1>2, <1>3 DEF Quiet, Moves
<1>4. CASE Rebalance
  <2>1. CASE next'[q] = next[q]
    BY <1>2, <1>4, <2>1 DEF Rebalance
  <2>2. CASE next'[q] # next[q]
    <3>1. next'[q] = committed /\ pc'[q] = "poll"
      BY <1>4, <2>2 DEF Rebalance
    <3>2. QED  BY <1>1, <3>1 DEF CommittedIsHandled
  <2>3. QED  BY <2>1, <2>2
<1>5. ASSUME NEW r \in Replicas, Poll(r) \/ Evict(r) \/ CommitFails(r) PROVE Goal
  <2>1. next' = next /\ turn' = turn
    BY <1>5 DEF Poll, Evict, CommitFails
  <2>2. pc'[q] = "commit" => pc[q] = "commit"
    BY <1>5 DEF Poll, Evict, CommitFails, Fail
  <2>3. QED  BY <1>2, <2>1, <2>2
<1>6. ASSUME NEW r \in Replicas, PublishAcked(r) PROVE Goal
  <2>1. CASE q # r
    BY <1>2, <1>6, <2>1 DEF PublishAcked
  <2>2. CASE q = r
    <3>1. Current(r)' = Current(r) /\ next' = next
      BY <1>6 DEF PublishAcked, Current
    <3>2. Current(r) \in Records /\ Kind[Current(r)] # "malformed"
      BY <1>6, CurrentType DEF PublishAcked, RecordInHand
    <3>3. published'[Current(r)] > 0
      <4>1. published'[Current(r)] = OneMore(published[Current(r)])
        BY <1>6, <3>2 DEF PublishAcked, Append
      <4>2. published[Current(r)] \in 0 .. Many
        BY <3>2
      <4>3. QED  BY <4>1, <4>2, OneMoreType
    <3>4. Current(r) \in Handled'
      BY <3>2, <3>3 DEF Handled
    <3>5. QED  BY <1>1, <2>2, <3>1, <3>4 DEF LoopIsHandled
  <2>3. QED  BY <2>1, <2>2
<1>7. ASSUME NEW r \in Replicas, CommitAcked(r) PROVE Goal
  <2>1. CASE q # r
    BY <1>2, <1>7, <2>1 DEF CommitAcked
  <2>2. CASE q = r
    <3>1. pc'[q] = "records"
      BY <1>7, <2>2 DEF CommitAcked
    <3>2. ASSUME NEW p \in Partitions, NEW o \in 0 .. next'[r][p] - 1
          PROVE  <<p, o>> \in Handled
      <4>1. CASE p # turn[r]
        <5>1. next'[r][p] = next[r][p]
          BY <1>7, <4>1 DEF CommitAcked
        <5>2. o \in 0 .. next[r][p] - 1
          BY <5>1
        <5>3. QED  BY <5>2 DEF LoopIsHandled
      <4>2. CASE p = turn[r]
        <5>1. next'[r][p] = next[r][p] + 1 /\ next[r][p] \in Nat
          BY <1>7, <4>2, CurrentType, PolledType DEF CommitAcked
        <5>2. o = next[r][p] \/ o \in 0 .. next[r][p] - 1
          <6> HIDE DEF DInv, TypeOK
          <6>1. QED  BY <5>1
        <5>3. <<p, next[r][p]>> \in Handled
          BY <1>7, <4>2 DEF CommitAcked, LoopIsHandled, Current
        <5>4. QED  BY <5>2, <5>3 DEF LoopIsHandled
      <4>3. QED  BY <4>1, <4>2
    <3>3. QED  BY <1>1, <2>2, <3>1, <3>2
  <2>3. QED  BY <2>1, <2>2
<1>8. ASSUME NEW r \in Replicas, End(r) PROVE Goal
  <2>1. CASE q # r
    BY <1>2, <1>8, <2>1 DEF End
  <2>2. CASE q = r
    BY <1>8, <2>2 DEF End
  <2>3. QED  BY <2>1, <2>2
<1>9. ASSUME NEW r \in Replicas, NEW p \in Partitions, Classify(r, p) PROVE Goal
  <2>1. next' = next /\ (q # r => turn'[q] = turn[q])
    BY <1>9 DEF Classify, Take
  <2>2. pc'[q] = "commit" => q # r /\ pc[q] = "commit"
    BY <1>9 DEF Classify
  <2>3. QED  BY <1>2, <2>1, <2>2
<1>10. ASSUME NEW r \in Replicas, NEW p \in Partitions, Reject(r, p) PROVE Goal
  <2>1. CASE q # r
    BY <1>2, <1>10, <2>1 DEF Reject, Take
  <2>2. CASE q = r
    <3>1. /\ <<p, next[r][p]>> \in Records /\ <<p, next[r][p]>> \in skipped'
          /\ Kind[<<p, next[r][p]>>] = "malformed" /\ next' = next /\ turn'[r] = p
      BY <1>10, PolledType DEF Reject, Take
    <3>2. Current(r)' \in Handled'
      BY <3>1 DEF Current, Handled
    <3>3. QED  BY <1>1, <2>2, <3>1, <3>2 DEF LoopIsHandled
  <2>3. QED  BY <2>1, <2>2
<1>11. QED
  BY <1>3, <1>4, <1>5, <1>6, <1>7, <1>8, <1>9, <1>10, StepKinds

LEMMA RecordStep ==
  ASSUME DInv, [Next]_vars
  PROVE  RecordInHand'
<1> USE DEF DInv, TypeOK, Goes, fetchVars
<1> DEFINE Good(r) ==
      /\ pc[r] \in {"audit", "publish", "commit"} => HasPolled(r, turn[r])
      /\ pc[r] \in {"audit", "publish"} => Kind[Current(r)] # "malformed"
<1> SUFFICES ASSUME NEW q \in Replicas
             PROVE  Good(q)'
  BY DEF RecordInHand
<1>1. ASSUME next'[q] = next[q], position'[q] = position[q], turn'[q] = turn[q],
             \/ pc'[q] = pc[q] \/ pc'[q] \notin {"audit", "publish", "commit"}
             \/ pc[q] = "audit" /\ pc'[q] = "publish"
             \/ pc[q] = "publish" /\ pc'[q] = "commit"
      PROVE  Good(q)'
  BY <1>1 DEF RecordInHand, HasPolled, Current
<1>2. CASE Quiet
  BY <1>1, <1>2 DEF Quiet, Moves
<1>3. CASE Rebalance
  <2>1. CASE pc[q] = "poll"
    BY <1>3, <2>1 DEF Rebalance
  <2>2. CASE pc[q] # "poll"
    BY <1>1, <1>3, <2>2 DEF Rebalance
  <2>3. QED  BY <2>1, <2>2
<1>4. ASSUME NEW r \in Replicas, Poll(r) PROVE Good(q)'
  <2>1. CASE q # r
    BY <1>1, <1>4, <2>1 DEF Poll
  <2>2. CASE q = r
    BY <1>4, <2>2 DEF Poll
  <2>3. QED  BY <2>1, <2>2
<1>5. ASSUME NEW r \in Replicas, PublishAcked(r) PROVE Good(q)'
  BY <1>1, <1>5 DEF PublishAcked
<1>6. ASSUME NEW r \in Replicas, CommitAcked(r) PROVE Good(q)'
  <2>1. CASE q # r
    BY <1>1, <1>6, <2>1 DEF CommitAcked
  <2>2. CASE q = r
    BY <1>6, <2>2 DEF CommitAcked
  <2>3. QED  BY <2>1, <2>2
<1>7. ASSUME NEW r \in Replicas, CommitFails(r) PROVE Good(q)'
  BY <1>1, <1>7 DEF CommitFails, Fail
<1>8. ASSUME NEW r \in Replicas, End(r) PROVE Good(q)'
  <2>1. CASE q # r
    BY <1>1, <1>8, <2>1 DEF End
  <2>2. CASE q = r
    BY <1>8, <2>2 DEF End
  <2>3. QED  BY <2>1, <2>2
<1>9. ASSUME NEW r \in Replicas, Evict(r) PROVE Good(q)'
  BY <1>1, <1>9 DEF Evict
<1>10. ASSUME NEW r \in Replicas, NEW p \in Partitions, Reject(r, p) \/ Classify(r, p)
       PROVE  Good(q)'
  <2>1. /\ Take(r, p) /\ next' = next /\ position' = position
        /\ pc'[r] # "commit" => Kind[<<p, next[r][p]>>] # "malformed"
        /\ q # r => pc'[q] = pc[q]
    BY <1>10 DEF Reject, Classify
  <2>2. CASE q # r
    BY <1>1, <2>1, <2>2 DEF Take
  <2>3. CASE q = r
    BY <2>1, <2>3 DEF Take, HasPolled, Current
  <2>4. QED  BY <2>2, <2>3
<1>11. QED
  BY <1>2, <1>3, <1>4, <1>5, <1>6, <1>7, <1>8, <1>9, <1>10, StepKinds

LEMMA MembersStep ==
  ASSUME DInv, [Next]_vars
  PROVE  MembersAreFresh'
<1> USE DEF DInv, TypeOK, Goes, fetchVars, groupVars
<1>1. CASE Quiet
  BY <1>1 DEF Quiet, Moves, MembersAreFresh, HasPolled
<1>2. CASE Rebalance
  BY <1>2 DEF Rebalance, MembersAreFresh, HasPolled
<1>3. ASSUME NEW r \in Replicas, Poll(r) PROVE MembersAreFresh'
  BY <1>3 DEF Poll, MembersAreFresh, HasPolled
<1>4. ASSUME NEW r \in Replicas, PublishAcked(r) PROVE MembersAreFresh'
  BY <1>4 DEF PublishAcked, MembersAreFresh, HasPolled
<1>5. ASSUME NEW r \in Replicas, CommitAcked(r) PROVE MembersAreFresh'
  <2>1. owner[turn[r]] = r /\ turn[r] \in Partitions /\ HasPolled(r, turn[r])
    BY <1>5, CurrentType DEF CommitAcked, MembersAreFresh
  <2>2. QED  BY <1>5, <2>1 DEF CommitAcked, StoreOffset, MembersAreFresh, HasPolled
<1>6. ASSUME NEW r \in Replicas, CommitFails(r) PROVE MembersAreFresh'
  <2>1. r \in members => owner[turn[r]] = r /\ turn[r] \in Partitions
    BY <1>6, CurrentType DEF CommitFails, MembersAreFresh
  <2>2. \A p \in Partitions : owner[p] # r /\ r \in members => committed'[p] = committed[p]
    BY <1>6, <2>1 DEF CommitFails, StoreOffset
  <2>3. r \notin members => committed' = committed
    BY <1>6 DEF CommitFails
  <2>4. /\ members' = members /\ owner' = owner /\ next' = next /\ position' = position
        /\ pc' = [pc EXCEPT ![r] = "close"]
    BY <1>6 DEF CommitFails, Fail
  <2>5. QED  BY <2>2, <2>3, <2>4 DEF MembersAreFresh, HasPolled
<1>7. ASSUME NEW r \in Replicas, End(r) PROVE MembersAreFresh'
  BY <1>7, NoOneAssumption DEF End, LeaveGroup, MembersAreFresh, HasPolled
<1>8. ASSUME NEW r \in Replicas, Evict(r) PROVE MembersAreFresh'
  BY <1>8, NoOneAssumption DEF Evict, LeaveGroup, MembersAreFresh, HasPolled
<1>9. ASSUME NEW r \in Replicas, NEW p \in Partitions, Reject(r, p) \/ Classify(r, p)
      PROVE  MembersAreFresh'
  BY <1>9 DEF Reject, Classify, Take, MembersAreFresh, HasPolled
<1>10. QED
  BY <1>1, <1>2, <1>3, <1>4, <1>5, <1>6, <1>7, <1>8, <1>9, StepKinds

-----------------------------------------------------------------------------
(* Audit rows and copies.                                                  *)

\* A replica gets to the publish from the audit only, if there are audit files.
LEMMA PublishSteps ==
  ASSUME TypeOK, [Next]_vars
  PROVE  \/ \E r \in Replicas : WriteAudit(r)
         \/ \E r \in Replicas : PublishAcked(r) \/ PublishFails(r)
         \/ /\ UNCHANGED published
            /\ \A x \in Records : audited'[x] >= audited[x]
            /\ Auditing => \A q \in Replicas : pc'[q] = "publish" =>
                             pc[q] = "publish" /\ next'[q] = next[q] /\ turn'[q] = turn[q]
<1> DEFINE Rest ==
      /\ UNCHANGED published
      /\ \A x \in Records : audited'[x] >= audited[x]
      /\ Auditing => \A q \in Replicas : pc'[q] = "publish" =>
                       pc[q] = "publish" /\ next'[q] = next[q] /\ turn'[q] = turn[q]
<1> USE DEF TypeOK, Goes, outputVars, fetchVars
<1>0. \A x \in Records : audited[x] \in 0 .. Many
  OBVIOUS
<1>1. UNCHANGED audited => \A x \in Records : audited'[x] >= audited[x]
  BY <1>0, DetectorAssumption
<1>2. CASE UNCHANGED vars
  BY <1>1, <1>2 DEF vars
<1>3. CASE Rebalance
  BY <1>1, <1>3 DEF Rebalance
<1>4. ASSUME NEW r \in Replicas, Poll(r) \/ EmptyPoll(r) \/ Stop(r) \/ EndOfRecords(r)
      PROVE  Rest
  BY <1>1, <1>4 DEF Poll, EmptyPoll, Stop, EndOfRecords, vars
<1>5. ASSUME NEW r \in Replicas, AuditRaises(r) \/ AuditFails(r)
      PROVE  Rest
  <2>1. WriteRows(r) => \A x \in Records : audited'[x] >= audited[x]
    BY <1>0, DetectorAssumption DEF WriteRows, OneMore
  <2>2. QED  BY <1>1, <1>5, <2>1 DEF AuditRaises, AuditFails, Fail
<1>6. ASSUME NEW r \in Replicas, HandleSignal(r) \/ Restart(r) \/ Evict(r)
      PROVE  Rest
  BY <1>1, <1>6 DEF HandleSignal, Restart, Evict
<1>7. ASSUME NEW r \in Replicas, Close(r) \/ Crash(r)
      PROVE  Rest
  BY <1>1, <1>7 DEF Close, Crash, End
<1>8. ASSUME NEW r \in Replicas, NEW p \in Partitions, Reject(r, p) \/ Classify(r, p)
      PROVE  Rest
  BY <1>1, <1>8 DEF Reject, Classify, Take
<1>9. ASSUME NEW r \in Replicas, CommitAcked(r) \/ CommitFails(r)
      PROVE  Rest
  BY <1>1, <1>9 DEF CommitAcked, CommitFails, Fail
<1> HIDE DEF Rest, TypeOK
<1>10. QED
  BY <1>2, <1>3, <1>4, <1>5, <1>6, <1>7, <1>8, <1>9 DEF Next, Step, Rest

LEMMA AboutToPublishIsFinite ==
  ASSUME NEW x
  PROVE  IsFiniteSet(AboutToPublish(x)) /\ Cardinality(AboutToPublish(x)) \in Nat
<1>1. AboutToPublish(x) \subseteq Replicas
  BY DEF AboutToPublish
<1>2. QED  BY <1>1, FS_Subset, FS_CardinalityType, DetectorAssumption

LEMMA RowsStep ==
  ASSUME DInv, [Next]_vars
  PROVE  RowsAreAhead'
<1> SUFFICES ASSUME Auditing, NEW x \in Records, audited'[x] # Many
             PROVE  published'[x] + Cardinality(AboutToPublish(x)') <= audited'[x]
  BY DEF RowsAreAhead
<1> DEFINE A == AboutToPublish(x)
           B == AboutToPublish(x)'
<1>1. /\ audited[x] \in 0 .. Many /\ published[x] \in 0 .. Many
      /\ audited'[x] \in 0 .. Many /\ published'[x] \in 0 .. Many
  BY TypeStep DEF DInv, TypeOK
<1>2. Many \in Nat /\ Many > 0
  BY DetectorAssumption
<1>3. audited[x] = Many \/ published[x] + Cardinality(A) <= audited[x]
  BY DEF DInv, RowsAreAhead
<1>4. IsFiniteSet(A) /\ Cardinality(A) \in Nat
  BY AboutToPublishIsFinite
<1>5. ASSUME NEW r \in Replicas, WriteAudit(r)
      PROVE  published'[x] + Cardinality(B) <= audited'[x]
  <2>1. /\ published' = published /\ next' = next /\ turn' = turn
        /\ pc' = [pc EXCEPT ![r] = "publish"]
        /\ audited' = [audited EXCEPT ![Current(r)] = OneMore(@)]
        /\ pc[r] = "audit"
    BY <1>5 DEF WriteAudit, WriteRows, Goes, fetchVars
  <2>2. CASE Current(r) # x
    <3>1. B = A
      BY <2>1, <2>2 DEF AboutToPublish, Current, DInv, TypeOK
    <3>2. audited'[x] = audited[x]
      BY <2>1, <2>2 DEF DInv, TypeOK
    <3>3. QED  BY <1>3, <2>1, <3>1, <3>2
  <2>3. CASE Current(r) = x
    <3>1. B = A \union {r} /\ r \notin A
      BY <2>1, <2>3 DEF AboutToPublish, Current, DInv, TypeOK
    <3>2. Cardinality(B) = Cardinality(A) + 1
      BY <1>4, <3>1, FS_AddElement
    <3>3. audited'[x] = OneMore(audited[x])
      BY <2>1, <2>3 DEF DInv, TypeOK
    <3>4. audited[x] # Many /\ audited'[x] = audited[x] + 1
      BY <1>1, <1>2, <3>3 DEF OneMore
    <3>5. QED  BY <1>1, <1>3, <1>4, <2>1, <3>2, <3>4
  <2>4. QED  BY <2>2, <2>3
<1>6. ASSUME NEW r \in Replicas, PublishAcked(r) \/ PublishFails(r)
      PROVE  published'[x] + Cardinality(B) <= audited'[x]
  <2>1. /\ audited' = audited /\ next' = next /\ turn' = turn
        /\ Append(r) \/ UNCHANGED published
        /\ pc[r] = "publish"
        /\ pc' = [pc EXCEPT ![r] = "commit"] \/ pc' = [pc EXCEPT ![r] = "close"]
    BY <1>6 DEF PublishAcked, PublishFails, Fail, Goes, fetchVars
  <2>2. B = A \ {r}
    BY <2>1 DEF AboutToPublish, Current, DInv, TypeOK
  <2>3. CASE Current(r) # x
    <3>1. published'[x] = published[x]
      BY <2>1, <2>3 DEF Append, DInv, TypeOK
    <3>2. r \notin A
      BY <2>3 DEF AboutToPublish
    <3>3. QED  BY <1>3, <2>1, <2>2, <3>1, <3>2
  <2>4. CASE Current(r) = x
    <3>1. r \in A
      BY <2>1, <2>4 DEF AboutToPublish
    <3>2. Cardinality(B) = Cardinality(A) - 1
      BY <1>4, <2>2, <3>1, FS_RemoveElement
    <3>3. published'[x] = published[x] \/ published'[x] = OneMore(published[x])
      BY <2>1, <2>4 DEF Append, DInv, TypeOK
    <3>4. published'[x] <= published[x] + 1
      BY <1>1, <1>2, <3>3 DEF OneMore
    <3>5. QED  BY <1>1, <1>3, <1>4, <2>1, <3>2, <3>4
  <2>5. QED  BY <2>3, <2>4
<1>7. ASSUME UNCHANGED published, audited'[x] >= audited[x],
             \A q \in Replicas : pc'[q] = "publish" =>
                pc[q] = "publish" /\ next'[q] = next[q] /\ turn'[q] = turn[q]
      PROVE  published'[x] + Cardinality(B) <= audited'[x]
  <2>1. B \subseteq A
    BY <1>7 DEF AboutToPublish, Current
  <2>2. Cardinality(B) <= Cardinality(A) /\ Cardinality(B) \in Nat
    BY <1>4, <2>1, FS_Subset, FS_CardinalityType
  <2>3. QED  BY <1>1, <1>2, <1>3, <1>4, <1>7, <2>2
<1>8. QED  BY <1>5, <1>6, <1>7, PublishSteps DEF DInv

-----------------------------------------------------------------------------
(* As long as nothing fails.                                               *)

\* A member commits to its own partitions, where it is at the offset.
LEMMA MemberCommits ==
  ASSUME DInv, NEW r \in members, pc[r] \in {"audit", "publish", "commit"}
  PROVE  /\ turn[r] \in Partitions
         /\ owner[turn[r]] = r
         /\ next[r][turn[r]] = committed[turn[r]]
         /\ committed[turn[r]] \in Nat
<1>1. r \in Replicas /\ turn[r] \in Partitions /\ HasPolled(r, turn[r])
  BY CurrentType DEF DInv, TypeOK
<1>2. committed[turn[r]] \in Nat
  BY <1>1, DetectorAssumption DEF DInv, TypeOK
<1>3. QED  BY <1>1, <1>2 DEF DInv, MembersAreFresh

LEMMA CommitMovesOn ==
  ASSUME DInv, [Next]_vars
  PROVE  \A p \in Partitions : committed'[p] >= committed[p]
<1> SUFFICES ASSUME NEW p \in Partitions
             PROVE  committed'[p] >= committed[p]
  OBVIOUS
<1>1. committed[p] \in Nat
  BY DetectorAssumption DEF DInv, TypeOK
<1>2. ASSUME NEW r \in Replicas, pc[r] = "commit", r \in members, StoreOffset(r)
      PROVE  committed'[p] >= committed[p]
  BY <1>1, <1>2, MemberCommits DEF StoreOffset, DInv, TypeOK
<1>3. QED  BY <1>1, <1>2, Effects

LEMMA DisturbancesStay ==
  ASSUME DInv, [Next]_vars, disturbances' = 0
  PROVE  /\ disturbances = 0
         /\ ~Disturb
<1>1. disturbances \in Nat /\ disturbances' = disturbances + 1 => disturbances' # 0
  OBVIOUS
<1>2. disturbances \in Nat
  BY DetectorAssumption DEF DInv, TypeOK
<1>3. ~Disturb
  BY <1>1, <1>2 DEF Disturb
<1>4. disturbances' = disturbances \/ Disturb
  BY DEF Next, Step, vars, Rebalance, Poll, EmptyPoll, Stop, EndOfRecords, WriteAudit, AuditRaises,
         AuditFails, PublishAcked, PublishFails, HandleSignal, Restart, Evict, Close, Crash, Reject,
         Classify, CommitAcked, CommitFails
<1>5. QED  BY <1>3, <1>4

LEMMA NoFailureStep ==
  ASSUME DInv, [Next]_vars
  PROVE  NoFailureYet'
<1> DEFINE Busy == {"records", "audit", "publish", "commit"}
           Once(x) ==
             /\ published[x] <= 1
             /\ published[x] > 0 => \/ x[2] < committed[x[1]]
                                    \/ \E r \in Replicas : pc[r] = "commit" /\ Current(r) = x
<1> SUFFICES ASSUME disturbances' = 0
             PROVE  /\ \A q \in Replicas : pc'[q] \in Busy => q \in members'
                    /\ \A x \in Records : Once(x)'
  BY DEF NoFailureYet
<1>1. ~Disturb /\ disturbances = 0
  BY DisturbancesStay
<1>2. \A q \in Replicas : pc[q] \in Busy => q \in members
  BY <1>1 DEF DInv, NoFailureYet
<1>3. \A x \in Records : Once(x)
  BY <1>1 DEF DInv, NoFailureYet
<1>4. TypeOK
  BY DEF DInv
<1>5. ASSUME \A q \in Replicas : pc'[q] \in Busy => pc[q] \in Busy \/ q \in members',
             \A q \in members : pc'[q] \in Busy => q \in members',
             UNCHANGED <<published, committed>>,
             \A q \in Replicas : pc[q] = "commit" =>
                pc'[q] = "commit" /\ next'[q] = next[q] /\ turn'[q] = turn[q]
      PROVE  /\ \A q \in Replicas : pc'[q] \in Busy => q \in members'
             /\ \A x \in Records : Once(x)'
  BY <1>2, <1>3, <1>5 DEF Current
<1>6. CASE UNCHANGED vars
  BY <1>5, <1>6 DEF vars, outputVars, groupVars, fetchVars
<1>7. CASE Rebalance
  BY <1>5, <1>7 DEF Rebalance, outputVars
<1> USE DEF Goes, outputVars, groupVars, fetchVars
<1>8. ASSUME NEW r \in Replicas, Poll(r) \/ EmptyPoll(r) \/ Stop(r) \/ EndOfRecords(r) \/ Restart(r)
      PROVE  /\ \A q \in Replicas : pc'[q] \in Busy => q \in members'
             /\ \A x \in Records : Once(x)'
  BY <1>4, <1>5, <1>8 DEF Poll, EmptyPoll, Stop, EndOfRecords, Restart, TypeOK, vars
<1>9. ASSUME NEW r \in Replicas, WriteAudit(r) \/ AuditRaises(r)
      PROVE  /\ \A q \in Replicas : pc'[q] \in Busy => q \in members'
             /\ \A x \in Records : Once(x)'
  BY <1>4, <1>5, <1>9 DEF WriteAudit, AuditRaises, Fail, TypeOK
<1>10. ASSUME NEW r \in Replicas, Close(r)
       PROVE  /\ \A q \in Replicas : pc'[q] \in Busy => q \in members'
              /\ \A x \in Records : Once(x)'
  BY <1>4, <1>5, <1>10 DEF Close, End, LeaveGroup, TypeOK
<1>11. ASSUME NEW r \in Replicas, NEW p \in Partitions, Reject(r, p) \/ Classify(r, p)
       PROVE  /\ \A q \in Replicas : pc'[q] \in Busy => q \in members'
              /\ \A x \in Records : Once(x)'
  BY <1>4, <1>5, <1>11 DEF Reject, Classify, Take, TypeOK
<1>12. ASSUME NEW r \in Replicas, PublishAcked(r)
       PROVE  /\ \A q \in Replicas : pc'[q] \in Busy => q \in members'
              /\ \A x \in Records : Once(x)'
  <2>1. /\ pc[r] = "publish" /\ pc' = [pc EXCEPT ![r] = "commit"]
        /\ published' = [published EXCEPT ![Current(r)] = OneMore(@)]
        /\ UNCHANGED <<committed, members, next, turn>>
    BY <1>12 DEF PublishAcked, Append
  <2>2. \A q \in Replicas : pc'[q] \in Busy => q \in members'
    BY <1>2, <1>4, <2>1 DEF TypeOK
  <2>3. r \in members
    BY <1>2, <2>1
  <2>4. Current(r) \in Records /\ published[Current(r)] = 0
    <3>1. Current(r) \in Records
      BY <2>1, CurrentType
    <3>2. ~(Current(r)[2] < committed[Current(r)[1]])
      BY <2>1, <2>3, MemberCommits DEF Current
    <3>3. ASSUME NEW q \in Replicas, pc[q] = "commit", Current(q) = Current(r)
          PROVE  FALSE
      <4>1. q \in members
        BY <1>2, <3>3
      <4>2. owner[turn[q]] = q /\ owner[turn[r]] = r
        BY <2>1, <2>3, <3>3, <4>1, MemberCommits
      <4>3. turn[q] = turn[r]
        BY <3>3 DEF Current
      <4>4. QED  BY <2>1, <3>3, <4>2, <4>3
    <3>4. published[Current(r)] \in Nat
      BY <1>4, <3>1, DetectorAssumption DEF TypeOK
    <3>5. QED  BY <1>3, <3>1, <3>2, <3>3, <3>4
  <2>5. ASSUME NEW x \in Records
        PROVE  Once(x)'
    <3>1. CASE x = Current(r)
      <4>1. published'[x] = 1
        BY <1>4, <2>1, <2>4, <3>1, DetectorAssumption DEF OneMore, TypeOK
      <4>2. pc'[r] = "commit" /\ Current(r)' = x
        BY <1>4, <2>1, <3>1 DEF Current, TypeOK
      <4>3. QED  BY <4>1, <4>2
    <3>2. CASE x # Current(r)
      <4>1. published'[x] = published[x]
        BY <1>4, <2>1, <3>2 DEF TypeOK
      <4>2. \A q \in Replicas : pc[q] = "commit" => pc'[q] = "commit" /\ Current(q)' = Current(q)
        BY <1>4, <2>1 DEF Current, TypeOK
      <4>3. QED  BY <1>3, <2>1, <4>1, <4>2
    <3>3. QED  BY <3>1, <3>2
  <2>6. QED  BY <2>2, <2>5
<1>13. ASSUME NEW r \in Replicas, CommitAcked(r)
       PROVE  /\ \A q \in Replicas : pc'[q] \in Busy => q \in members'
              /\ \A x \in Records : Once(x)'
  <2>1. /\ pc[r] = "commit" /\ pc' = [pc EXCEPT ![r] = "records"] /\ r \in members
        /\ StoreOffset(r)
        /\ next' = [next EXCEPT ![r][turn[r]] = @ + 1]
        /\ UNCHANGED <<published, members, turn>>
    BY <1>13 DEF CommitAcked
  <2>2. \A q \in Replicas : pc'[q] \in Busy => q \in members'
    BY <1>2, <1>4, <2>1 DEF TypeOK
  <2>3. ASSUME NEW x \in Records
        PROVE  Once(x)'
    <3>1. x[1] \in Partitions /\ x[2] \in Nat /\ committed[x[1]] \in Nat /\ committed'[x[1]] \in Nat
      BY <1>4, TypeStep, DetectorAssumption DEF Records, TypeOK
    <3>2. x[2] < committed[x[1]] => x[2] < committed'[x[1]]
      BY <3>1, CommitMovesOn
    <3>3. ASSUME NEW q \in Replicas, pc[q] = "commit", Current(q) = x
          PROVE  \/ x[2] < committed'[x[1]]
                 \/ pc'[q] = "commit" /\ Current(q)' = x
      <4>1. CASE q = r
        BY <1>4, <2>1, <3>1, <3>3, <4>1, MemberCommits DEF StoreOffset, Current, TypeOK
      <4>2. CASE q # r
        BY <1>4, <2>1, <3>3, <4>2 DEF Current, TypeOK
      <4>3. QED  BY <4>1, <4>2
    <3>4. QED  BY <1>3, <2>1, <3>2, <3>3
  <2>4. QED  BY <2>2, <2>3
<1>14. ASSUME NEW r \in Replicas
       PROVE  /\ ~CommitFails(r) /\ ~Crash(r) /\ ~Evict(r) /\ ~HandleSignal(r) /\ ~AuditFails(r)
              /\ ~PublishFails(r)
  BY <1>1, <1>2 DEF CommitFails, Crash, Evict, HandleSignal, AuditFails, PublishFails
<1>15. QED
  BY <1>6, <1>7, <1>8, <1>9, <1>10, <1>11, <1>12, <1>13, <1>14 DEF Next, Step

-----------------------------------------------------------------------------
(* The theorems.                                                           *)

LEMMA InitDInv == Init => DInv
<1> SUFFICES ASSUME Init
             PROVE  DInv
  OBVIOUS
<1> USE DetectorAssumption DEF Init
<1>1. TypeOK
  BY DEF TypeOK, PCs
<1>2. CommittedIsHandled /\ LoopIsHandled
  BY DEF CommittedIsHandled, LoopIsHandled
<1>3. RecordInHand /\ MembersAreFresh
  BY DEF RecordInHand, MembersAreFresh
<1>4. RowsAreAhead
  <2> SUFFICES ASSUME NEW x \in Records
               PROVE  published[x] + Cardinality(AboutToPublish(x)) <= audited[x]
    BY DEF RowsAreAhead
  <2>1. AboutToPublish(x) = {}
    BY DEF AboutToPublish
  <2>2. Cardinality(AboutToPublish(x)) = 0
    BY <2>1, FS_EmptySet
  <2>3. QED  BY <2>2
<1>5. NoFailureYet
  BY DEF NoFailureYet
<1>6. QED  BY <1>1, <1>2, <1>3, <1>4, <1>5 DEF DInv

\* Every reachable state satisfies the inductive invariant: offsets, fetch
\* positions, group membership and output agree at every step of run().
THEOREM Inductive == Spec => []DInv
<1>1. DInv /\ [Next]_vars => DInv'
  BY TypeStep, CommittedStep, LoopStep, RecordStep, MembersStep, RowsStep, NoFailureStep DEF DInv
<1>2. QED  BY InitDInv, <1>1, PTL DEF Spec

\* Type correctness.
THEOREM TypeCorrect == Spec => []TypeOK
<1>1. DInv => TypeOK
  BY DEF DInv
<1>2. QED  BY Inductive, <1>1, PTL

\* commit_processed_record() never moves an offset back, in any interleaving
\* of replicas that crash, are evicted and rejoin.
THEOREM OffsetsNeverRewind == Spec => NeverRewinds
<1>1. ASSUME DInv, [Next]_vars
      PROVE  [\A p \in Partitions : committed'[p] >= committed[p]]_vars
  BY <1>1, CommitMovesOn
<1>2. QED  BY Inductive, <1>1, PTL DEF Spec, NeverRewinds

\* Labels without audit rows never get to predicted_labels, however many
\* replicas publish one record, and whatever fails in between.
THEOREM RowsBeforeLabels == Spec => []PublishedIsAudited
<1>1. ASSUME DInv
      PROVE  PublishedIsAudited
  <2> SUFFICES ASSUME Auditing, NEW x \in Records
               PROVE  published[x] <= audited[x]
    BY DEF PublishedIsAudited
  <2>1. /\ audited[x] \in 0 .. Many /\ published[x] \in 0 .. Many
        /\ audited[x] = Many \/ published[x] + Cardinality(AboutToPublish(x)) <= audited[x]
    BY <1>1 DEF DInv, TypeOK, RowsAreAhead
  <2>2. QED  BY <2>1, AboutToPublishIsFinite, DetectorAssumption
<1>2. QED  BY Inductive, <1>1, PTL

\* As long as nothing fails, each record is published at most once, although
\* replicas join and the partitions change hands.
THEOREM NoDuplicates == Spec => []DuplicatesNeedAFailure
<1>1. DInv => DuplicatesNeedAFailure
  BY DEF DInv, NoFailureYet, DuplicatesNeedAFailure
<1>2. QED  BY Inductive, <1>1, PTL

\* The replicas of ai-detector together keep the promise of a consuming
\* stage, for records of any kind.
THEOREM Refinement == Spec => ImplementsAtLeastOnce
<1>1. Init => Promise!Init
  BY DEF Init, Promise!Init, Handled
<1>2. ASSUME DInv, [Next]_vars
      PROVE  [Promise!Next]_<<Handled, committed>>
  <2>1. Handled \subseteq Handled' /\ Handled' \subseteq Records
    BY <1>2, HandledGrows DEF DInv, Handled
  <2>2. CASE UNCHANGED committed
    BY <2>1, <2>2 DEF Promise!Next, Promise!Handle, Promise!Records, Records
  <2>3. ASSUME UNCHANGED <<published, skipped>>, committed' \in [Partitions -> 0 .. LogEnd],
               CommittedIsHandled'
        PROVE  Promise!Commit
    BY <2>3 DEF Promise!Commit, CommittedIsHandled, Handled
  <2>4. CommittedIsHandled' /\ committed' \in [Partitions -> 0 .. LogEnd]
    BY <1>2, CommittedStep, TypeStep DEF TypeOK
  <2>5. QED  BY <1>2, <2>2, <2>3, <2>4, Effects DEF Promise!Next
<1>3. QED  BY Inductive, <1>1, <1>2, PTL DEF Spec, ImplementsAtLeastOnce, Promise!Spec
=============================================================================
