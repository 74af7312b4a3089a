-------------------------- MODULE PipelineProofs --------------------------
(***************************************************************************)
(* Proofs about Pipeline, for any number of ai-inference replicas, any     *)
(* log, batch size, defects and bounds.  They rest on the invariant of     *)
(* Inference, whose steps the composition leaves as they are.              *)
(***************************************************************************)
EXTENDS Pipeline, InferenceProofs

-----------------------------------------------------------------------------
(* Snapshots and topics.                                                   *)

LEMMA SnapshotParts ==
  ASSUME NEW s \in Snapshots
  PROVE  s[1] \in Records /\ s[2] \in 1 .. Rows[s[1]] /\ s = <<s[1], s[2]>>
BY DEF Snapshots

LEMMA FromMembers ==
  ASSUME NEW topic \in Batches, NEW k \in Nat, NEW s
  PROVE  s \in From(topic, k) <=> \E n \in (k + 1) .. Len(topic) : s \in topic[n]
BY DEF From

\* A longer topic holds what a shorter one did, and its new batch.
LEMMA FromExtended ==
  ASSUME NEW topic \in Batches, NEW batch \in SUBSET Snapshots
  PROVE  /\ Append(topic, batch) \in Batches
         /\ From(topic, 0) \subseteq From(Append(topic, batch), 0)
         /\ batch \subseteq From(Append(topic, batch), 0)
         /\ Len(Append(topic, batch)) = Len(topic) + 1
         /\ \A n \in 1 .. Len(topic) : Append(topic, batch)[n] = topic[n]
<1> DEFINE longer == Append(topic, batch)
<1>1. /\ longer \in Batches /\ Len(longer) = Len(topic) + 1 /\ Len(topic) \in Nat
      /\ \A n \in 1 .. Len(topic) : longer[n] = topic[n]
      /\ longer[Len(topic) + 1] = batch
  BY DEF Batches
<1> HIDE DEF longer
<1>2. ASSUME NEW s \in From(topic, 0) PROVE s \in From(longer, 0)
  <2>1. PICK n \in 1 .. Len(topic) : s \in topic[n]
    BY FromMembers
  <2>2. n \in (0 + 1) .. Len(longer) /\ s \in longer[n]
    BY <1>1, <2>1
  <2>3. QED  BY <1>1, <2>2, FromMembers
<1>3. ASSUME NEW s \in batch PROVE s \in From(longer, 0)
  <2>1. Len(topic) + 1 \in (0 + 1) .. Len(longer) /\ s \in longer[Len(topic) + 1]
    BY <1>1, <1>3
  <2>2. QED  BY <1>1, <2>1, FromMembers
<1>4. QED  BY <1>1, <1>2, <1>3 DEF longer

-----------------------------------------------------------------------------
(* The steps of the composition.                                           *)

\* A step of ai-inference appends to the log what it counts as published.
InferenceMoves ==
  /\ Next
  /\ \/ \E r \in Replicas : AppendBatch(r) /\ Extend(r)
     \/ UNCHANGED <<published, probs>>
  /\ UNCHANGED <<lacks, detectorVars, telemetryVars, mishaps>>

LEMMA InfersMoves ==
  ASSUME NEW r \in Replicas, Infers(r)
  PROVE  InferenceMoves
<1> USE DEF Infers
<1>1. Next /\ UNCHANGED <<lacks, detectorVars, telemetryVars, mishaps>>
  BY DEF Next
<1>2. CASE PublishAcked(r)
  BY <1>1, <1>2 DEF PublishAcked, InferenceMoves
<1>3. CASE Drain(r) \/ EndOfRecords(r) \/ Enqueue(r) \/ CommitAcked(r) \/ CommitFails(r) \/ Close(r)
  <2>1. pc[r] # "publish" /\ UNCHANGED published
    BY <1>3 DEF Drain, Flush, EndOfRecords, Enqueue, CommitAcked, CommitFails, Close, End, outputVars
  <2>2. QED  BY <1>1, <2>1 DEF InferenceMoves
<1>4. CASE \E p \in Partitions : Accept(r, p) \/ Reject(r, p) \/ ObserveRaises(r, p)
  <2>1. pc[r] # "publish" /\ UNCHANGED published
    BY <1>4 DEF Accept, Reject, ObserveRaises, Observe, Takes, outputVars
  <2>2. QED  BY <1>1, <2>1 DEF InferenceMoves
<1>5. QED  BY <1>2, <1>3, <1>4 DEF Step

LEMMA OthersMove ==
  ASSUME NEW r \in Replicas,
         SendRaises(r) \/ Polls(r) \/ IdlePolls(r) \/ Restarts(r) \/ Disturbs(r) \/ Rebalances
  PROVE  InferenceMoves
<1> USE DEF InferenceMoves, Next
<1>1. CASE SendRaises(r)
  BY <1>1 DEF SendRaises
<1>2. CASE Polls(r) \/ IdlePolls(r)
  BY <1>2 DEF Polls, IdlePolls, Poll, EmptyPoll, Flush, outputVars
<1>3. CASE Restarts(r)
  BY <1>3 DEF Restarts, Restart, outputVars
<1>4. CASE Disturbs(r)
  BY <1>4 DEF Disturbs, HandleSignal, Crash, End, Evict, outputVars
<1>5. CASE Rebalances
  BY <1>5 DEF Rebalances, Rebalance, outputVars
<1>6. QED  BY <1>1, <1>2, <1>3, <1>4, <1>5

\* ai-detector or intelligent-telemetry moves, and nothing in ai-inference does.
Downstream == DetectorStep \/ DetectorFails \/ TelemetryStep \/ TelemetryFails

LEMMA PipelineKinds ==
  ASSUME PipelineNext
  PROVE  InferenceMoves \/ Downstream
<1>1. CASE Rebalances
  <2>1. InferenceMoves
    BY <1>1 DEF Rebalances, Rebalance, InferenceMoves, Next, outputVars
  <2>2. QED  BY <2>1
<1>2. QED  BY <1>1, InfersMoves, OthersMove DEF PipelineNext, Downstream

LEMMA DownstreamKeeps ==
  ASSUME Downstream
  PROVE  UNCHANGED <<inferenceVars, lacks, probs>>
BY DEF Downstream, DetectorStep, DetectorFails, TelemetryStep, TelemetryFails, Classify,
       AuditRaises, ProbsCommitted, DetectorRestarts, Refuse, Store, LabelsCommitted,
       TelemetryRestarts

\* What ai-inference does here, it does by itself.
LEMMA InferenceInside ==
  ASSUME [PipelineNext]_pipelineVars
  PROVE  [Next]_vars
BY PipelineKinds, DownstreamKeeps DEF InferenceMoves, pipelineVars, inferenceVars

-----------------------------------------------------------------------------
(* Steps of ai-inference.                                                  *)

LEMMA InferenceKeepsTheRest ==
  ASSUME PInv, InferenceMoves
  PROVE  /\ probs' \in Batches
         /\ Len(probs') >= Len(probs)
         /\ \A n \in 1 .. Len(probs) : probs'[n] = probs[n]
         /\ PublishedIsSent'
<1> USE DEF PInv, PipelineTypeOK
<1>1. CASE UNCHANGED <<published, probs>>
  BY <1>1 DEF PublishedIsSent, Batches
<1>2. ASSUME NEW r \in Replicas, AppendBatch(r), Extend(r)
      PROVE  /\ probs' \in Batches
             /\ Len(probs') >= Len(probs)
             /\ \A n \in 1 .. Len(probs) : probs'[n] = probs[n]
             /\ PublishedIsSent'
  <2>1. BatchOf(r) \in SUBSET Snapshots
    BY DEF BatchOf
  <2>2. probs' = Append(probs, BatchOf(r)) /\ Len(probs) \in Nat
    BY <1>2 DEF Extend, Batches
  <2>3. ASSUME NEW s \in Snapshots, s[2] \in published'[s[1]]
        PROVE  s \in From(probs', 0)
    <3>1. s[2] \in published[s[1]] \/ s[2] \in InBatch(r, s[1])
      BY <1>2, <2>3, SnapshotParts DEF AppendBatch
    <3>2. CASE s[2] \in published[s[1]]
      BY <2>1, <2>2, <3>2, FromExtended DEF PublishedIsSent
    <3>3. CASE s[2] \in InBatch(r, s[1])
      <4>1. s \in BatchOf(r)
        BY <3>3 DEF BatchOf
      <4>2. QED  BY <2>1, <2>2, <4>1, FromExtended
    <3>4. QED  BY <3>1, <3>2, <3>3
  <2>4. QED  BY <2>1, <2>2, <2>3, FromExtended DEF PublishedIsSent
<1>3. QED  BY <1>1, <1>2 DEF InferenceMoves

LEMMA InferenceStep ==
  ASSUME PInv, InferenceMoves
  PROVE  PInv'
<1> USE DEF PInv, PipelineTypeOK, detectorVars, telemetryVars
<1>1. IInv'
  BY TypeStep, DownStep, CommittedStep, CompleteStep, NoGapsStep, RowsStep, CurrentStep,
     OthersStep, FrontsStep DEF IInv, InferenceMoves
<1>2. /\ probs' \in Batches /\ Len(probs') >= Len(probs)
      /\ \A n \in 1 .. Len(probs) : probs'[n] = probs[n]
      /\ PublishedIsSent'
  BY InferenceKeepsTheRest
<1>3. UNCHANGED <<lacks, classified, detector, labels, recorded, telemetry, stored, refused, mishaps>>
  BY DEF InferenceMoves
<1>4. Len(probs) \in Nat /\ Len(probs') \in Nat
  BY <1>2 DEF Batches
<1>5. PipelineTypeOK'
  BY <1>1, <1>2, <1>3, <1>4 DEF IInv
<1>6. ClassifiedIsLabelled'
  BY <1>2, <1>3, <1>4 DEF ClassifiedIsLabelled, NextBatch, From
<1>7. RecordedIsSettled' /\ RefusalNeedsADefect'
  BY <1>3 DEF RecordedIsSettled, RefusalNeedsADefect, NextLabels
<1>8. QED  BY <1>1, <1>2, <1>5, <1>6, <1>7

-----------------------------------------------------------------------------
(* Steps of the two later services.                                        *)

\* Whatever they do leaves ai-inference and its topic as they were.
LEMMA DownstreamFrame ==
  ASSUME PInv, Downstream
  PROVE  IInv' /\ PublishedIsSent'
<1>1. UNCHANGED <<vars, probs>>
  BY DownstreamKeeps DEF inferenceVars
<1>2. IInv'
  BY <1>1, TypeStep, DownStep, CommittedStep, CompleteStep, NoGapsStep, RowsStep, CurrentStep,
     OthersStep, FrontsStep DEF PInv, IInv
<1>3. UNCHANGED published
  BY <1>1 DEF vars, outputVars
<1>4. QED  BY <1>1, <1>2, <1>3 DEF PInv, PublishedIsSent, From

\* Publishing labels.
LEMMA LabelsStep ==
  ASSUME PInv, detector = "poll", classified < Len(probs), PublishLabels, Downstream,
         UNCHANGED <<classified, telemetryVars>>, detector' \in {"commit", "down"},
         mishaps' \in 0 .. MaxMishaps
  PROVE  PInv'
<1> USE DEF PInv, PipelineTypeOK, telemetryVars
<1>1. UNCHANGED <<inferenceVars, lacks, probs>>
  BY DownstreamKeeps
<1>2. /\ classified \in Nat /\ Len(probs) \in Nat /\ Len(labels) \in Nat
      /\ NextBatch \in SUBSET Snapshots
  BY DEF Batches, NextBatch
<1>3. /\ labels' \in Batches /\ Len(labels') = Len(labels) + 1
      /\ From(labels, 0) \subseteq From(labels', 0) /\ NextBatch \subseteq From(labels', 0)
      /\ \A n \in 1 .. Len(labels) : labels'[n] = labels[n]
  BY <1>2, FromExtended DEF PublishLabels
<1>4. PipelineTypeOK'
  BY <1>1, <1>2, <1>3, DownstreamFrame DEF IInv
<1>5. ClassifiedIsLabelled'
  BY <1>1, <1>2, <1>3 DEF ClassifiedIsLabelled, NextBatch
<1>6. RecordedIsSettled'
  BY <1>2, <1>3 DEF RecordedIsSettled, NextLabels
<1>7. RefusalNeedsADefect'
  BY <1>1, <1>2, <1>3 DEF RefusalNeedsADefect, Batches
<1>8. QED  BY <1>4, <1>5, <1>6, <1>7, DownstreamFrame

\* Storing the offset in inference_probs.
LEMMA ProbsOffsetStep ==
  ASSUME PInv, detector = "commit", StoreProbsOffset, Downstream,
         UNCHANGED <<labels, telemetryVars>>, detector' \in {"poll", "down"},
         mishaps' \in 0 .. MaxMishaps
  PROVE  PInv'
<1> USE DEF PInv, PipelineTypeOK, telemetryVars
<1>1. UNCHANGED <<inferenceVars, lacks, probs>>
  BY DownstreamKeeps
<1>2. /\ classified \in Nat /\ Len(probs) \in Nat /\ classified < Len(probs)
      /\ classified' = classified + 1
  BY DEF Batches, ClassifiedIsLabelled, StoreProbsOffset
<1>3. PipelineTypeOK'
  BY <1>1, <1>2, DownstreamFrame DEF IInv
<1>4. ClassifiedIsLabelled'
  BY <1>1, <1>2 DEF ClassifiedIsLabelled, NextBatch, From
<1>5. RecordedIsSettled' /\ RefusalNeedsADefect'
  BY <1>1 DEF RecordedIsSettled, NextLabels, RefusalNeedsADefect
<1>6. QED  BY <1>3, <1>4, <1>5, DownstreamFrame

\* Neither labels nor the offset: a failure or a restart.
LEMMA DetectorIdles ==
  ASSUME PInv, Downstream, UNCHANGED <<classified, labels, telemetryVars>>,
         detector' \in {"poll", "down"}, mishaps' \in 0 .. MaxMishaps
  PROVE  PInv'
<1> USE DEF PInv, PipelineTypeOK, telemetryVars
<1>1. UNCHANGED <<inferenceVars, lacks, probs>>
  BY DownstreamKeeps
<1>2. PipelineTypeOK'
  BY <1>1, DownstreamFrame DEF IInv
<1>3. ClassifiedIsLabelled' /\ RecordedIsSettled' /\ RefusalNeedsADefect'
  BY <1>1 DEF ClassifiedIsLabelled, NextBatch, RecordedIsSettled, NextLabels,
              RefusalNeedsADefect, From
<1>4. QED  BY <1>2, <1>3, DownstreamFrame

\* A record of predicted_labels is stored or refused.
LEMMA SettledStep ==
  ASSUME PInv, telemetry = "poll", recorded < Len(labels), Downstream,
         UNCHANGED <<recorded, detectorVars>>, telemetry' \in {"commit", "down"},
         mishaps' \in 0 .. MaxMishaps,
         \/ StorePoints /\ UNCHANGED refused
         \/ refused' = refused \union NextLabels /\ UNCHANGED stored /\ ~Valid(NextLabels)
  PROVE  PInv'
<1> USE DEF PInv, PipelineTypeOK, detectorVars
<1>1. UNCHANGED <<inferenceVars, lacks, probs>>
  BY DownstreamKeeps
<1>2. /\ recorded \in Nat /\ Len(labels) \in Nat /\ recorded + 1 \in DOMAIN labels
      /\ NextLabels \in SUBSET Snapshots
  BY DEF Batches, NextLabels
<1>3. /\ stored' \union refused' = (stored \union refused) \union NextLabels
      /\ stored' \subseteq Snapshots /\ refused' \subseteq Snapshots
  BY <1>2 DEF StorePoints
<1>4. PipelineTypeOK'
  BY <1>1, <1>2, <1>3, DownstreamFrame DEF IInv
<1>5. ClassifiedIsLabelled'
  BY <1>1 DEF ClassifiedIsLabelled, NextBatch, From
<1>6. RecordedIsSettled'
  BY <1>2, <1>3 DEF RecordedIsSettled, NextLabels
<1>7. RefusalNeedsADefect'
  <2>1. CASE UNCHANGED refused
    BY <1>1, <2>1 DEF RefusalNeedsADefect
  <2>2. CASE refused' = refused \union NextLabels /\ ~Valid(NextLabels)
    <3>1. PICK t \in NextLabels : ~(EventNeeds \subseteq Classified(t))
      BY <2>2 DEF Valid
    <3>2. lacks[t] # {}
      BY <3>1 DEF Classified, Prepared, Extracted, EventNeeds, Captured
    <3>3. QED  BY <1>1, <1>2, <2>2, <3>1, <3>2 DEF RefusalNeedsADefect, NextLabels
  <2>3. QED  BY <2>1, <2>2
<1>8. QED  BY <1>4, <1>5, <1>6, <1>7, DownstreamFrame

LEMMA LabelsOffsetStep ==
  ASSUME PInv, telemetry = "commit", StoreLabelsOffset, Downstream,
         UNCHANGED <<detectorVars, stored, refused>>, telemetry' \in {"poll", "down"},
         mishaps' \in 0 .. MaxMishaps
  PROVE  PInv'
<1> USE DEF PInv, PipelineTypeOK, detectorVars
<1>1. UNCHANGED <<inferenceVars, lacks, probs>>
  BY DownstreamKeeps
<1>2. /\ recorded \in Nat /\ Len(labels) \in Nat /\ recorded < Len(labels)
      /\ recorded' = recorded + 1
  BY DEF Batches, RecordedIsSettled, StoreLabelsOffset
<1>3. PipelineTypeOK'
  BY <1>1, <1>2, DownstreamFrame DEF IInv
<1>4. ClassifiedIsLabelled' /\ RefusalNeedsADefect'
  BY <1>1 DEF ClassifiedIsLabelled, NextBatch, From, RefusalNeedsADefect
<1>5. RecordedIsSettled'
  BY <1>2 DEF RecordedIsSettled, NextLabels
<1>6. QED  BY <1>3, <1>4, <1>5, DownstreamFrame

LEMMA TelemetryIdles ==
  ASSUME PInv, Downstream, UNCHANGED <<detectorVars, recorded, stored, refused>>,
         telemetry' \in {"poll", "down"}, mishaps' \in 0 .. MaxMishaps
  PROVE  PInv'
<1> USE DEF PInv, PipelineTypeOK, detectorVars
<1>1. UNCHANGED <<inferenceVars, lacks, probs>>
  BY DownstreamKeeps
<1>2. PipelineTypeOK'
  BY <1>1, DownstreamFrame DEF IInv
<1>3. ClassifiedIsLabelled' /\ RecordedIsSettled' /\ RefusalNeedsADefect'
  BY <1>1 DEF ClassifiedIsLabelled, NextBatch, RecordedIsSettled, NextLabels,
              RefusalNeedsADefect, From
<1>4. QED  BY <1>2, <1>3, DownstreamFrame

LEMMA DownstreamStep ==
  ASSUME PInv, Downstream
  PROVE  PInv'
<1>0. mishaps \in 0 .. MaxMishaps
  BY DEF PInv, PipelineTypeOK
<1>1. CASE Classify
  BY <1>0, <1>1, LabelsStep DEF Classify
<1>2. CASE AuditRaises \/ DetectorRestarts
  BY <1>0, <1>2, DetectorIdles DEF AuditRaises, DetectorRestarts
<1>3. CASE ProbsCommitted
  BY <1>0, <1>3, ProbsOffsetStep DEF ProbsCommitted
<1>4. CASE DetectorFails
  <2>1. mishaps' \in 0 .. MaxMishaps /\ detector' = "down" /\ UNCHANGED telemetryVars
    BY <1>0, <1>4, PipelineAssumption DEF DetectorFails, Mishap
  <2>2. QED  BY <1>4, <2>1, LabelsStep, ProbsOffsetStep, DetectorIdles DEF DetectorFails
<1>5. CASE Refuse
  BY <1>0, <1>5, SettledStep DEF Refuse
<1>6. CASE Store
  BY <1>0, <1>6, SettledStep DEF Store
<1>7. CASE LabelsCommitted
  BY <1>0, <1>7, LabelsOffsetStep DEF LabelsCommitted
<1>8. CASE TelemetryRestarts
  BY <1>0, <1>8, TelemetryIdles DEF TelemetryRestarts
<1>9. CASE TelemetryFails
  <2>1. mishaps' \in 0 .. MaxMishaps /\ telemetry' = "down" /\ UNCHANGED <<detectorVars, refused>>
    BY <1>0, <1>9, PipelineAssumption DEF TelemetryFails, Mishap
  <2>2. QED  BY <1>9, <2>1, SettledStep, LabelsOffsetStep, TelemetryIdles DEF TelemetryFails
<1>10. QED
  BY <1>1, <1>2, <1>3, <1>4, <1>5, <1>6, <1>7, <1>8, <1>9
     DEF Downstream, DetectorStep, TelemetryStep

-----------------------------------------------------------------------------
(* The theorems.                                                           *)

LEMMA InitPInv == PipelineInit => PInv
<1> SUFFICES ASSUME PipelineInit PROVE PInv
  OBVIOUS
<1>1. IInv
  BY InitIInv DEF PipelineInit
<1>2. PipelineTypeOK
  BY <1>1, PipelineAssumption DEF IInv, PipelineInit, PipelineTypeOK, Batches
<1>3. PublishedIsSent
  BY SnapshotParts DEF PipelineInit, Init, PublishedIsSent
<1>4. ClassifiedIsLabelled /\ RecordedIsSettled /\ RefusalNeedsADefect
  BY DEF PipelineInit, ClassifiedIsLabelled, RecordedIsSettled, RefusalNeedsADefect
<1>5. QED  BY <1>1, <1>2, <1>3, <1>4 DEF PInv

\* In the composed system ai-inference behaves as its own specification says,
\* so all that InferenceProofs shows of it holds here, too.
THEOREM InferenceIsItself == PipelineSpec => Spec
<1>1. PipelineInit => Init
  BY DEF PipelineInit
<1>2. QED  BY <1>1, InferenceInside, PTL DEF PipelineSpec, Spec

\* The logs, the offsets of the three services and the fate of the snapshots
\* agree in every reachable state.
THEOREM PipelineInductive == PipelineSpec => []PInv
<1>1. ASSUME PInv, [PipelineNext]_pipelineVars
      PROVE  PInv'
  <2>1. CASE PipelineNext
    BY <1>1, <2>1, PipelineKinds, InferenceStep, DownstreamStep
  <2>2. CASE UNCHANGED pipelineVars
    <3>1. UNCHANGED <<vars, lacks, probs, classified, detector, labels, recorded, telemetry,
                      stored, refused, mishaps>>
      BY <2>2 DEF pipelineVars, inferenceVars, detectorVars, telemetryVars
    <3>2. IInv'
      BY <1>1, <3>1, TypeStep, DownStep, CommittedStep, CompleteStep, NoGapsStep, RowsStep,
         CurrentStep, OthersStep, FrontsStep DEF PInv, IInv
    <3>3. UNCHANGED published
      BY <3>1 DEF vars, outputVars
    <3>4. PipelineTypeOK'
      BY <1>1, <3>1, <3>2 DEF PInv, IInv, PipelineTypeOK
    <3>5. QED
      BY <1>1, <3>1, <3>2, <3>3, <3>4
         DEF PInv, PublishedIsSent, ClassifiedIsLabelled, NextBatch, RecordedIsSettled,
             NextLabels, RefusalNeedsADefect, From
  <2>3. QED  BY <1>1, <2>1, <2>2
<1>2. QED  BY InitPInv, <1>1, PTL DEF PipelineSpec

\* Type correctness of the composition; no service commits beyond its topic.
THEOREM PipelineTypeCorrect == PipelineSpec => []PipelineTypeOK
<1>1. PInv => PipelineTypeOK
  BY DEF PInv
<1>2. QED  BY PipelineInductive, <1>1, PTL

\* A snapshot whose input record ai-inference has committed (mark_completed)
\* is still to be read by ai-detector or by intelligent-telemetry, or it is
\* stored or refused: no crash, redelivery or rebalance loses it in between.
THEOREM EndToEnd == PipelineSpec => []NothingInBetween
<1>1. ASSUME PInv PROVE NothingInBetween
  <2> USE <1>1 DEF PInv
  <2> SUFFICES ASSUME NEW s \in Answered
               PROVE  s \in From(probs, classified) \union From(labels, recorded)
                              \union stored \union refused
    BY DEF NothingInBetween
  <2>1. /\ s \in Snapshots /\ s[1] \in Records /\ s[2] \in 1 .. Rows[s[1]]
        /\ Rows[s[1]] \in Nat
    BY SnapshotParts, InferenceAssumption DEF Answered
  <2>2. s[1] \in Handled
    <3>1. s[1][1] \in Partitions /\ s[1][2] \in Nat /\ s[1] = <<s[1][1], s[1][2]>>
      BY <2>1, RecordParts
    <3>2. committed[s[1][1]] \in Nat /\ s[1][2] < committed[s[1][1]]
      BY <3>1, InferenceAssumption DEF Answered, IInv, TypeOK
    <3>3. QED  BY <3>1, <3>2 DEF IInv, CommittedIsHandled
  <2>3. s[2] \in published[s[1]]
    BY <2>1, <2>2 DEF Handled, BreaksContract
  <2>4. /\ probs \in Batches /\ labels \in Batches
        /\ classified \in Nat /\ recorded \in Nat /\ Len(probs) \in Nat /\ Len(labels) \in Nat
    BY DEF PipelineTypeOK, Batches
  <2>5. PICK n \in 1 .. Len(probs) : s \in probs[n]
    BY <2>1, <2>3, <2>4, FromMembers DEF PublishedIsSent
  <2>6. CASE n > classified
    <3>1. n \in (classified + 1) .. Len(probs)
      BY <2>4, <2>6
    <3>2. QED  BY <2>4, <2>5, <3>1, FromMembers
  <2>7. CASE n <= classified
    <3>1. s \in From(labels, 0)
      BY <2>4, <2>5, <2>7 DEF ClassifiedIsLabelled
    <3>2. PICK m \in 1 .. Len(labels) : s \in labels[m]
      BY <2>4, <3>1, FromMembers
    <3>3. CASE m > recorded
      <4>1. m \in (recorded + 1) .. Len(labels)
        BY <2>4, <3>3
      <4>2. QED  BY <2>4, <3>2, <4>1, FromMembers
    <3>4. CASE m <= recorded
      BY <2>4, <3>2, <3>4 DEF RecordedIsSettled
    <3>5. QED  BY <2>4, <3>3, <3>4
  <2>8. QED  BY <2>4, <2>6, <2>7
<1>2. QED  BY PipelineInductive, <1>1, PTL

\* The contract chain of prepare_metadata(), classify_payload() and
\* validated_events(): intelligent-telemetry refuses a record only for a field
\* that one of its snapshots did not have when nfstream sent it.
THEOREM ContractChain == PipelineSpec => []RefusalNeedsADefect
<1>1. PInv => RefusalNeedsADefect
  BY DEF PInv
<1>2. QED  BY PipelineInductive, <1>1, PTL
=============================================================================
