------------------------------ MODULE Pipeline ------------------------------
(***************************************************************************)
(* The three services in a row: the replicas of ai-inference (Inference)   *)
(* append batches of snapshots to inference_probs, ai-detector turns each  *)
(* batch into one record of predicted_labels, and intelligent-telemetry    *)
(* stores one prediction point per snapshot.  A snapshot travels with its  *)
(* metadata, and each service insists on fields that an earlier one must   *)
(* have put there or passed on.                                            *)
(*                                                                         *)
(* Each of the two later topics has one partition here, and each of the    *)
(* two later services one replica that takes one record at a time from the *)
(* committed offset; Detector and Telemetry have their groups, audit files *)
(* and windows.                                                            *)
(***************************************************************************)
EXTENDS Inference, Sequences

CONSTANTS Defects,     \* what snapshots may lack: a set of functions from snapshots to fields
          Auditing,    \* DETECTOR_CSV_DIR is set
          MaxMishaps   \* bound on the crashes and failed calls of the two later services

Snapshots == UNION {{x} \X (1 .. Rows[x]) : x \in Records}

\* "addresses" are the five fields of the flow's identity, "counters" its
\* bytes and packets.
Captured == {"timestamp", "addresses", "timestamp_nfstream", "counters"}

ASSUME PipelineAssumption ==
  /\ Defects \subseteq [Snapshots -> SUBSET Captured]
  /\ Auditing \in BOOLEAN
  /\ MaxMishaps \in Nat

VARIABLES
  lacks,       \* the fields that each snapshot lacks when nfstream sends it
  probs,       \* inference_probs: a sequence of batches of snapshots
  labels,      \* predicted_labels: the same
  classified,  \* ai-detector's committed offset in inference_probs
  recorded,    \* intelligent-telemetry's committed offset in predicted_labels
  detector,    \* where ai-detector is in run()
  telemetry,   \* where intelligent-telemetry is in run()
  stored,      \* snapshots whose prediction points are in InfluxDB
  refused,     \* snapshots in records that intelligent-telemetry rejected
  mishaps      \* number of crashes and failed calls of these two so far

inferenceVars == vars
detectorVars  == <<classified, detector, labels>>
telemetryVars == <<recorded, telemetry, stored, refused>>
pipelineVars  == <<inferenceVars, lacks, probs, detectorVars, telemetryVars, mishaps>>

-----------------------------------------------------------------------------
(***************************************************************************)
(* The metadata of a snapshot, stage by stage.                             *)
(***************************************************************************)

\* extract_snapshot_batch() looks at the features and the interval of a
\* snapshot and passes its metadata on as they are.
Extracted(s) == Captured \ lacks[s]

\* Mutated form: the time of the inference is not stamped.
PreparedWithoutTime(s) == Extracted(s) \union {"features"}

\* prepare_metadata()
Prepared(s) == Extracted(s) \union {"features", "timestamp_inference"}

\* classify_payload()
Classified(s) == Prepared(s) \union {"label", "ml_confidence", "timestamp_detector"}

\* The fields without which write_batch() raises AuditCsvError.
AuditNeeds == {"timestamp", "addresses", "features"}

\* The fields without which validated_events() raises TelemetryError.
EventNeeds == {"timestamp_detector", "timestamp_inference", "timestamp_nfstream", "timestamp",
               "ml_confidence", "counters"}

Auditable(batch) == \A s \in batch : AuditNeeds \subseteq Classified(s)
Valid(batch) == \A s \in batch : EventNeeds \subseteq Classified(s)

\* The snapshots that the batch of replica r holds.
BatchOf(r) == {s \in Snapshots : s[2] \in InBatch(r, s[1])}

-----------------------------------------------------------------------------
PipelineInit ==
  /\ Init
  /\ lacks \in Defects
  /\ probs = <<>> /\ labels = <<>>
  /\ classified = 0 /\ recorded = 0
  /\ detector = "poll" /\ telemetry = "poll"
  /\ stored = {} /\ refused = {}
  /\ mishaps = 0

(***************************************************************************)
(* ai-inference.                                                           *)
(***************************************************************************)
Extend(r) == probs' = Append(probs, BatchOf(r))

\* The only one of these steps that starts at "publish" is PublishAcked.
Infers(r) ==
  /\ Step(r)
  /\ IF pc[r] = "publish" THEN Extend(r) ELSE UNCHANGED probs
  /\ UNCHANGED <<lacks, detectorVars, telemetryVars, mishaps>>

SendRaises(r) ==
  /\ PublishFails(r)
  /\ \/ AppendBatch(r) /\ Extend(r)
     \/ UNCHANGED <<published, probs>>
  /\ UNCHANGED <<lacks, detectorVars, telemetryVars, mishaps>>

Polls(r) == Poll(r) /\ UNCHANGED <<lacks, probs, detectorVars, telemetryVars, mishaps>>
IdlePolls(r) == EmptyPoll(r) /\ UNCHANGED <<lacks, probs, detectorVars, telemetryVars, mishaps>>
Restarts(r) == Restart(r) /\ UNCHANGED <<lacks, probs, detectorVars, telemetryVars, mishaps>>
Rebalances == Rebalance /\ UNCHANGED <<lacks, probs, detectorVars, telemetryVars, mishaps>>

Disturbs(r) ==
  /\ HandleSignal(r) \/ Crash(r) \/ Evict(r)
  /\ UNCHANGED <<lacks, probs, detectorVars, telemetryVars, mishaps>>

Mishap == /\ mishaps < MaxMishaps
          /\ mishaps' = mishaps + 1

(***************************************************************************)
(* ai-detector.  Whatever ai-inference publishes can be classified: it has *)
(* the version, a probability for each class and a label for each class.   *)
(***************************************************************************)
NextBatch == probs[classified + 1]

\* The service ends and starts again for ever.
AuditRaises ==
  /\ detector = "poll" /\ classified < Len(probs)
  /\ Auditing /\ ~Auditable(NextBatch)
  /\ detector' = "down"
  /\ UNCHANGED <<inferenceVars, lacks, probs, classified, labels, telemetryVars, mishaps>>

\* Mutated form: send() without get() on its future.
LabelsMayBeLost == labels' = Append(labels, NextBatch) \/ UNCHANGED labels

PublishLabels == labels' = Append(labels, NextBatch)

\* The record is classified and audited, and its labels are acknowledged.
Classify ==
  /\ detector = "poll" /\ classified < Len(probs)
  /\ Auditing => Auditable(NextBatch)
  /\ PublishLabels
  /\ detector' = "commit"
  /\ UNCHANGED <<inferenceVars, lacks, probs, classified, telemetryVars, mishaps>>

StoreProbsOffset == classified' = classified + 1

ProbsCommitted ==
  /\ detector = "commit"
  /\ StoreProbsOffset
  /\ detector' = "poll"
  /\ UNCHANGED <<inferenceVars, lacks, probs, labels, telemetryVars, mishaps>>

\* A crash, or a send or a commit that raises before or after it took effect.
DetectorFails ==
  /\ detector # "down"
  /\ Mishap
  /\ \/ UNCHANGED <<classified, labels>>
     \/ /\ detector = "poll" /\ classified < Len(probs)
        /\ Auditing => Auditable(NextBatch)
        /\ PublishLabels /\ UNCHANGED classified
     \/ detector = "commit" /\ StoreProbsOffset /\ UNCHANGED labels
  /\ detector' = "down"
  /\ UNCHANGED <<inferenceVars, lacks, probs, telemetryVars>>

DetectorRestarts ==
  /\ detector = "down"
  /\ detector' = "poll"
  /\ UNCHANGED <<inferenceVars, lacks, probs, classified, labels, telemetryVars, mishaps>>

(***************************************************************************)
(* intelligent-telemetry.                                                  *)
(***************************************************************************)
NextLabels == labels[recorded + 1]

\* Mutated form: one defect stops the service, as in ai-detector.
RaisesOnDefects ==
  /\ telemetry = "poll" /\ recorded < Len(labels)
  /\ ~Valid(NextLabels)
  /\ telemetry' = "down"
  /\ UNCHANGED <<inferenceVars, lacks, probs, detectorVars, recorded, stored, refused, mishaps>>

\* validated_events() raises: the whole record is logged and skipped.
Refuse ==
  /\ telemetry = "poll" /\ recorded < Len(labels)
  /\ ~Valid(NextLabels)
  /\ refused' = refused \union NextLabels
  /\ telemetry' = "commit"
  /\ UNCHANGED <<inferenceVars, lacks, probs, detectorVars, recorded, stored, mishaps>>

StorePoints == stored' = stored \union NextLabels

\* The points of the whole record are written in one call.
Store ==
  /\ telemetry = "poll" /\ recorded < Len(labels)
  /\ Valid(NextLabels)
  /\ StorePoints
  /\ telemetry' = "commit"
  /\ UNCHANGED <<inferenceVars, lacks, probs, detectorVars, recorded, refused, mishaps>>

StoreLabelsOffset == recorded' = recorded + 1

LabelsCommitted ==
  /\ telemetry = "commit"
  /\ StoreLabelsOffset
  /\ telemetry' = "poll"
  /\ UNCHANGED <<inferenceVars, lacks, probs, detectorVars, stored, refused, mishaps>>

TelemetryFails ==
  /\ telemetry # "down"
  /\ Mishap
  /\ \/ UNCHANGED <<recorded, stored>>
     \/ /\ telemetry = "poll" /\ recorded < Len(labels)
        /\ Valid(NextLabels)
        /\ StorePoints /\ UNCHANGED recorded
     \/ telemetry = "commit" /\ StoreLabelsOffset /\ UNCHANGED stored
  /\ telemetry' = "down"
  /\ UNCHANGED <<inferenceVars, lacks, probs, detectorVars, refused>>

TelemetryRestarts ==
  /\ telemetry = "down"
  /\ telemetry' = "poll"
  /\ UNCHANGED <<inferenceVars, lacks, probs, detectorVars, recorded, stored, refused, mishaps>>

-----------------------------------------------------------------------------
DetectorStep == Classify \/ AuditRaises \/ ProbsCommitted \/ DetectorRestarts
TelemetryStep == Refuse \/ Store \/ LabelsCommitted \/ TelemetryRestarts

PipelineNext ==
  \/ \E r \in Replicas :
        Infers(r) \/ SendRaises(r) \/ Polls(r) \/ IdlePolls(r) \/ Restarts(r) \/ Disturbs(r)
  \/ Rebalances
  \/ DetectorStep \/ DetectorFails
  \/ TelemetryStep \/ TelemetryFails

PipelineSpec == PipelineInit /\ [][PipelineNext]_pipelineVars

\* The fairness of Inference; the two later services take their next step,
\* which is the restart where they failed ("restart: unless-stopped").
PipelineFairness ==
  /\ \A r \in Replicas : /\ WF_pipelineVars(Infers(r)) /\ WF_pipelineVars(Polls(r))
                         /\ WF_pipelineVars(IdlePolls(r))
                         /\ WF_pipelineVars(failed[r] /\ Restarts(r))
  /\ WF_pipelineVars(Rebalances)
  /\ WF_pipelineVars(DetectorStep) /\ WF_pipelineVars(TelemetryStep)

PipelineLiveSpec == PipelineSpec /\ PipelineFairness
-----------------------------------------------------------------------------
Batches == Seq(SUBSET Snapshots)

PipelineTypeOK ==
  /\ TypeOK
  /\ lacks \in Defects
  /\ probs \in Batches /\ labels \in Batches
  /\ classified \in 0 .. Len(probs)
  /\ recorded \in 0 .. Len(labels)
  /\ detector \in {"poll", "commit", "down"}
  /\ telemetry \in {"poll", "commit", "down"}
  /\ stored \subseteq Snapshots
  /\ refused \subseteq Snapshots
  /\ mishaps \in 0 .. MaxMishaps

\* The snapshots in a topic from an offset on.
From(topic, offset) == UNION {topic[n] : n \in (offset + 1) .. Len(topic)}

\* The snapshots that ai-inference has answered for with its offsets.
Answered == {s \in Snapshots : s[1][2] < committed[s[1][1]]}

\* "Offsets are committed only after the next pipeline stage succeeds"
\* (README.md 375-376), for the three stages together: a snapshot whose input
\* record is committed is in a record that ai-detector has still to commit,
\* in one that intelligent-telemetry has still to commit, in InfluxDB, or in
\* a record that was rejected.  It is never between two stages.
NothingInBetween ==
  Answered \subseteq From(probs, classified) \union From(labels, recorded)
                       \union stored \union refused

\* What ai-inference accepts and stamps, and what ai-detector adds, is what
\* intelligent-telemetry asks for: a snapshot is rejected there only together
\* with one that lacked a field when nfstream sent it.
RefusalNeedsADefect ==
  \A s \in refused : \E n \in DOMAIN labels :
     s \in labels[n] /\ \E t \in labels[n] : lacks[t] # {}

\* A snapshot that stops ai-detector for good.
Poison == Auditing /\ \E s \in Snapshots : ~Auditable({s})

\* End to end: a snapshot whose input record is committed is in the end
\* stored or rejected, whatever fails on the way and also after ai-inference
\* was told to stop, unless a snapshot that cannot be audited is in front.
AnsweredIsSettled == []<>(Poison \/ Answered \subseteq stored \union refused)

-----------------------------------------------------------------------------
(***************************************************************************)
(* The inductive invariant behind the theorems of PipelineProofs.          *)
(***************************************************************************)

\* What ai-inference counts as published is in the log.
PublishedIsSent ==
  \A s \in Snapshots : s[2] \in published[s[1]] => s \in From(probs, 0)

ClassifiedIsLabelled ==
  /\ \A n \in 1 .. classified : probs[n] \subseteq From(labels, 0)
  /\ detector = "commit" => classified < Len(probs) /\ NextBatch \subseteq From(labels, 0)

RecordedIsSettled ==
  /\ \A n \in 1 .. recorded : labels[n] \subseteq stored \union refused
  /\ telemetry = "commit" =>
       recorded < Len(labels) /\ NextLabels \subseteq stored \union refused

PInv ==
  /\ IInv
  /\ PipelineTypeOK
  /\ PublishedIsSent
  /\ ClassifiedIsLabelled
  /\ RecordedIsSettled
  /\ RefusalNeedsADefect
=============================================================================
