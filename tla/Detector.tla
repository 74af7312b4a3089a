------------------------------ MODULE Detector ------------------------------
(***************************************************************************)
(* The ai-detector service: a consumer group of replicas that classify the *)
(* probability records of inference_probs one at a time.  A record is      *)
(* written to the replica's audit CSV, then published to predicted_labels, *)
(* then committed; nothing is buffered between two records.                *)
(*                                                                         *)
(* The broker is external, as in Inference: it keeps the offsets, fences   *)
(* the commits of replicas that are no longer members, and deals out the   *)
(* partitions again when every member polls.                               *)
(***************************************************************************)
EXTENDS Naturals, FiniteSets

CONSTANTS Replicas,         \* the ai-detector containers
          Partitions,       \* partitions of inference_probs
          LogEnd,           \* records per partition
          Kind,             \* what each record is, see Kinds
          Auditing,         \* DETECTOR_CSV_DIR is set
          MaxDisturbances,  \* bound on signals, crashes, evictions and failed calls
          Many              \* copies are counted up to this number

Records == Partitions \X (0 .. LogEnd - 1)

\* Malformed: classify_payload() raises.  Incomplete: it can be classified,
\* but write_batch() finds no source address or no features in its metadata.
Kinds == {"valid", "malformed", "incomplete"}

ASSUME DetectorAssumption ==
  /\ IsFiniteSet(Replicas)
  /\ LogEnd \in Nat
  /\ Kind \in [Records -> Kinds]
  /\ Auditing \in BOOLEAN
  /\ MaxDisturbances \in Nat
  /\ Many \in Nat \ {0}

NoOne == "no one"
ASSUME NoOneAssumption == NoOne \notin Replicas

VARIABLES
  audited,       \* copies of each record in the audit files
  published,     \* copies of each record in predicted_labels
  skipped,       \* records that were logged as rejected
  committed,     \* the group's committed offsets
  members,       \* replicas in the current generation of the group
  owner,         \* who each partition is assigned to
  disturbances,  \* number of signals, crashes, evictions and failed calls so far
  pc,            \* where each replica is in run()
  stopping,      \* self._stopping
  failed,        \* run() is unwinding, or the process ended, because of an error
  position,      \* fetch position: the polled records end here
  next,          \* the polled record the for loop is at
  turn           \* the partition whose records the for loop is in

outputVars == <<audited, published, skipped>>
groupVars  == <<members, owner>>
fetchVars  == <<position, next, turn>>
vars == <<outputVars, committed, groupVars, disturbances, pc, stopping, failed, fetchVars>>

-----------------------------------------------------------------------------
\* A malformed record is handled by skipping it, any other by publishing its labels.
Handled == {x \in Records : IF Kind[x] = "malformed" THEN x \in skipped ELSE published[x] > 0}

Current(r) == <<turn[r], next[r][turn[r]]>>
HasPolled(r, p) == next[r][p] < position[r][p]
OneMore(n) == IF n < Many THEN n + 1 ELSE n
Goes(r, place) == pc' = [pc EXCEPT ![r] = place]

\* An exception that leaves the for loop ends in the finally clause.
Fail(r) == Goes(r, "close") /\ failed' = [failed EXCEPT ![r] = TRUE] /\ UNCHANGED stopping

Disturb == /\ disturbances < MaxDisturbances
           /\ disturbances' = disturbances + 1

Init ==
  /\ audited = [x \in Records |-> 0]
  /\ published = [x \in Records |-> 0]
  /\ skipped = {}
  /\ committed = [p \in Partitions |-> 0]
  /\ members = {}
  /\ owner = [p \in Partitions |-> NoOne]
  /\ disturbances = 0
  /\ pc = [r \in Replicas |-> "poll"]
  /\ stopping = [r \in Replicas |-> FALSE]
  /\ failed = [r \in Replicas |-> FALSE]
  /\ position = [r \in Replicas |-> [p \in Partitions |-> 0]]
  /\ next = [r \in Replicas |-> [p \in Partitions |-> 0]]
  /\ turn \in [Replicas -> Partitions]

(***************************************************************************)
(* The polling loop.                                                       *)
(***************************************************************************)

\* poll() returns some of the records that follow the fetch positions.
Poll(r) ==
  /\ pc[r] = "poll" /\ ~stopping[r] /\ r \in members
  /\ \E end \in [Partitions -> 0 .. LogEnd] :
        /\ \A p \in Partitions : IF owner[p] = r THEN end[p] >= position[r][p]
                                 ELSE end[p] = position[r][p]
        /\ end # position[r]
        /\ position' = [position EXCEPT ![r] = end]
  /\ Goes(r, "records")
  /\ UNCHANGED <<outputVars, committed, groupVars, disturbances, stopping, failed, next, turn>>

\* poll() times out, and the loop turns.
EmptyPoll(r) == pc[r] = "poll" /\ ~stopping[r] /\ UNCHANGED vars

Stop(r) ==
  /\ pc[r] = "poll" /\ stopping[r]
  /\ Goes(r, "close")
  /\ UNCHANGED <<outputVars, committed, groupVars, disturbances, stopping, failed, fetchVars>>

\* The for loop takes the next record of the partition it is in, or goes to
\* another one when that is finished.
Take(r, p) ==
  /\ pc[r] = "records" /\ HasPolled(r, p)
  /\ p = turn[r] \/ ~HasPolled(r, turn[r])
  /\ turn' = [turn EXCEPT ![r] = p]

\* Mutated form: "continue" where the record is rejected.
RejectWithoutCommit(r, p) ==
  /\ Take(r, p) /\ Kind[<<p, next[r][p]>>] = "malformed"
  /\ skipped' = skipped \union {<<p, next[r][p]>>}
  /\ next' = [next EXCEPT ![r][p] = @ + 1]
  /\ UNCHANGED <<audited, published, committed, groupVars, disturbances, pc, stopping, failed,
                 position>>

\* DetectionError and its like: the record is logged, and then committed.
Reject(r, p) ==
  /\ Take(r, p) /\ Kind[<<p, next[r][p]>>] = "malformed"
  /\ skipped' = skipped \union {<<p, next[r][p]>>}
  /\ Goes(r, "commit")
  /\ UNCHANGED <<audited, published, committed, groupVars, disturbances, stopping, failed,
                 position, next>>

Classify(r, p) ==
  /\ Take(r, p) /\ Kind[<<p, next[r][p]>>] # "malformed"
  /\ Goes(r, IF Auditing THEN "audit" ELSE "publish")
  /\ UNCHANGED <<outputVars, committed, groupVars, disturbances, stopping, failed,
                 position, next>>

EndOfRecords(r) ==
  /\ pc[r] = "records" /\ \A p \in Partitions : ~HasPolled(r, p)
  /\ Goes(r, "poll")
  /\ UNCHANGED <<outputVars, committed, groupVars, disturbances, stopping, failed, fetchVars>>

(***************************************************************************)
(* One record: audit rows, labels, offset.                                 *)
(***************************************************************************)

\* Mutated form: the rows stay in the file buffer, where a crash may lose them.
BuffersRows(r) == audited' = [audited EXCEPT ![Current(r)] = OneMore(@)] \/ UNCHANGED audited

WriteRows(r) == audited' = [audited EXCEPT ![Current(r)] = OneMore(@)]

\* write_batch() checks every row before it writes the first one.
WriteAudit(r) ==
  /\ pc[r] = "audit" /\ Kind[Current(r)] = "valid"
  /\ WriteRows(r)
  /\ Goes(r, "publish")
  /\ UNCHANGED <<published, skipped, committed, groupVars, disturbances, stopping, failed,
                 fetchVars>>

\* AuditCsvError is a RuntimeError: it is not one of the rejected errors.
AuditRaises(r) ==
  /\ pc[r] = "audit" /\ Kind[Current(r)] = "incomplete"
  /\ Fail(r)
  /\ UNCHANGED <<outputVars, committed, groupVars, disturbances, fetchVars>>

\* The disk refuses the rows, or they are in the file and the flush raises.
AuditFails(r) ==
  /\ pc[r] = "audit" /\ Kind[Current(r)] = "valid"
  /\ Disturb
  /\ WriteRows(r) \/ UNCHANGED audited
  /\ Fail(r)
  /\ UNCHANGED <<published, skipped, committed, groupVars, fetchVars>>

Append(r) == published' = [published EXCEPT ![Current(r)] = OneMore(@)]

PublishAcked(r) ==
  /\ pc[r] = "publish"
  /\ Append(r)
  /\ Goes(r, "commit")
  /\ UNCHANGED <<audited, skipped, committed, groupVars, disturbances, stopping, failed,
                 fetchVars>>

\* send().get() raises, whether or not the record was appended.
PublishFails(r) ==
  /\ pc[r] = "publish"
  /\ Disturb
  /\ Append(r) \/ UNCHANGED published
  /\ Fail(r)
  /\ UNCHANGED <<audited, skipped, committed, groupVars, fetchVars>>

\* Mutated forms of the offsets: one too far; those of the record itself; the
\* fetch positions, as commit() does without arguments; every partition seen.
CommitsBeyond(r) == committed' = [committed EXCEPT ![turn[r]] = next[r][turn[r]] + 2]
CommitsTheRecord(r) == committed' = [committed EXCEPT ![turn[r]] = next[r][turn[r]]]
CommitsPositions(r) ==
  committed' = [p \in Partitions |-> IF owner[p] = r THEN position[r][p] ELSE committed[p]]
CommitsEveryPartition(r) == committed' = [next[r] EXCEPT ![turn[r]] = @ + 1]

\* commit_processed_record(): the offset after this one record.
StoreOffset(r) == committed' = [committed EXCEPT ![turn[r]] = next[r][turn[r]] + 1]

CommitAcked(r) ==
  /\ pc[r] = "commit" /\ r \in members
  /\ StoreOffset(r)
  /\ next' = [next EXCEPT ![r][turn[r]] = @ + 1]
  /\ Goes(r, "records")
  /\ UNCHANGED <<outputVars, groupVars, disturbances, stopping, failed, position, turn>>

\* commit() is outside of the try statement: whatever it raises ends run().
CommitFails(r) ==
  /\ pc[r] = "commit"
  /\ \/ r \notin members /\ UNCHANGED <<committed, disturbances>>
     \/ r \in members /\ Disturb /\ UNCHANGED committed
     \/ r \in members /\ Disturb /\ StoreOffset(r)
  /\ Fail(r)
  /\ UNCHANGED <<outputVars, groupVars, fetchVars>>

(***************************************************************************)
(* The process and its environment.                                        *)
(***************************************************************************)
HandleSignal(r) ==
  /\ pc[r] \notin {"close", "down"} /\ ~stopping[r]
  /\ Disturb
  /\ stopping' = [stopping EXCEPT ![r] = TRUE]
  /\ UNCHANGED <<outputVars, committed, groupVars, pc, failed, fetchVars>>

LeaveGroup(r) ==
  /\ members' = members \ {r}
  /\ owner' = [p \in Partitions |-> IF owner[p] = r THEN NoOne ELSE owner[p]]

\* The process ends; what it had in memory is gone, the audit file stays.
End(r) ==
  /\ LeaveGroup(r)
  /\ Goes(r, "down")
  /\ position' = [position EXCEPT ![r] = [p \in Partitions |-> 0]]
  /\ next' = [next EXCEPT ![r] = [p \in Partitions |-> 0]]
  /\ UNCHANGED <<outputVars, committed, stopping, turn>>

Close(r) == pc[r] = "close" /\ End(r) /\ UNCHANGED <<failed, disturbances>>

Crash(r) == pc[r] # "down" /\ Disturb /\ End(r) /\ failed' = [failed EXCEPT ![r] = TRUE]

Restart(r) ==
  /\ pc[r] = "down"
  /\ Goes(r, "poll")
  /\ stopping' = [stopping EXCEPT ![r] = FALSE]
  /\ failed' = [failed EXCEPT ![r] = FALSE]
  /\ UNCHANGED <<outputVars, committed, groupVars, disturbances, fetchVars>>

\* A member that does not poll for too long is put out of the group.
Evict(r) ==
  /\ r \in members /\ pc[r] # "poll"
  /\ Disturb
  /\ LeaveGroup(r)
  /\ UNCHANGED <<outputVars, committed, pc, stopping, failed, fetchVars>>

\* All members and some newcomers poll, and so rejoin; each starts over from
\* the committed offsets.
Rebalance ==
  /\ \E joined \in SUBSET {r \in Replicas : pc[r] = "poll" /\ ~stopping[r]} :
        /\ members \subseteq joined /\ joined # {}
        /\ joined # members \/ \E p \in Partitions : owner[p] = NoOne
        /\ members' = joined
        /\ owner' \in [Partitions -> joined]
        /\ position' = [r \in Replicas |-> IF r \in joined THEN committed ELSE position[r]]
        /\ next' = [r \in Replicas |-> IF r \in joined THEN committed ELSE next[r]]
  /\ UNCHANGED <<outputVars, committed, disturbances, pc, stopping, failed, turn>>

-----------------------------------------------------------------------------
Step(r) ==
  \/ Stop(r) \/ EndOfRecords(r) \/ WriteAudit(r) \/ AuditRaises(r) \/ PublishAcked(r)
  \/ CommitAcked(r) \/ CommitFails(r) \/ Close(r)
  \/ \E p \in Partitions : Reject(r, p) \/ Classify(r, p)

Next ==
  \/ \E r \in Replicas :
        Step(r) \/ Poll(r) \/ EmptyPoll(r) \/ AuditFails(r) \/ PublishFails(r) \/ HandleSignal(r)
        \/ Crash(r) \/ Restart(r) \/ Evict(r)
  \/ Rebalance

Spec == Init /\ [][Next]_vars

(***************************************************************************)
(* Fairness as in Inference: a running process takes its next step, a poll *)
(* returns records that are there, the coordinator completes a rebalance,  *)
(* and a replica that failed is restarted.                                 *)
(***************************************************************************)
Fairness ==
  /\ \A r \in Replicas : /\ WF_vars(Step(r)) /\ WF_vars(Poll(r))
                         /\ WF_vars(failed[r] /\ Restart(r))
  /\ WF_vars(Rebalance)

LiveSpec == Spec /\ Fairness
-----------------------------------------------------------------------------
PCs == {"down", "poll", "records", "audit", "publish", "commit", "close"}

TypeOK ==
  /\ audited \in [Records -> 0 .. Many]
  /\ published \in [Records -> 0 .. Many]
  /\ skipped \subseteq Records
  /\ committed \in [Partitions -> 0 .. LogEnd]
  /\ members \subseteq Replicas
  /\ owner \in [Partitions -> Replicas \union {NoOne}]
  /\ disturbances \in 0 .. MaxDisturbances
  /\ pc \in [Replicas -> PCs]
  /\ stopping \in [Replicas -> BOOLEAN]
  /\ failed \in [Replicas -> BOOLEAN]
  /\ position \in [Replicas -> [Partitions -> 0 .. LogEnd]]
  /\ next \in [Replicas -> [Partitions -> 0 .. LogEnd]]
  /\ turn \in [Replicas -> Partitions]

\* The audit files miss nothing (README.md 241-243): however often a record
\* is published across crashes, failed sends and rebalances, it was audited
\* at least as often before.
PublishedIsAudited == Auditing => \A x \in Records : published[x] <= audited[x]

\* Rebalances, and even the crashes that an incomplete record causes, produce
\* no duplicate labels: every record is committed before the next one is
\* taken, so only a failure between the publish and the commit repeats one.
DuplicatesNeedAFailure == disturbances = 0 => \A x \in Records : published[x] <= 1

\* An offset never moves back: a replica that lost its partitions holds
\* records of an old assignment, and none of them is committed late.
NeverRewinds == [][\A p \in Partitions : committed'[p] >= committed[p]]_vars

\* The replicas together implement the promise of a consuming stage.
Promise == INSTANCE AtLeastOnce WITH handled <- Handled
ImplementsAtLeastOnce == Promise!Spec

\* The next record of p makes write_batch() raise whenever it is taken.
Stuck(p) == Auditing /\ committed[p] < LogEnd /\ Kind[<<p, committed[p]>>] = "incomplete"

\* r owns p, and no other partition that is stuck.
KeepsApart(r, p) == owner[p] = r /\ \A q \in Partitions \ {p} : Stuck(q) => owner[q] # r

\* Every record up to one that raises is committed in the end, rejected ones
\* and those behind them included, whichever replica crashes, loses its
\* partitions or fails on the way, unless all replicas are told to stop.  A
\* record that raises harms other partitions only while the group goes on to
\* move them, or leaves them to the replica that raises: that one may meet
\* the record first after each restart, and never come to them.
EventuallyCommitted ==
  \A p \in Partitions :
     \/ <>(committed[p] = LogEnd \/ Stuck(p) \/ \A r \in Replicas : stopping[r])
     \/ /\ []<>(\E q \in Partitions \ {p} : Stuck(q))
        /\ \A r \in Replicas : []<>~KeepsApart(r, p)

\* "Invalid JSON or contract records are logged and deliberately skipped":
\* a record that cannot be processed does not stay in front of its partition.
InvalidIsSkipped ==
  \A x \in Records : Kind[x] # "valid" =>
     <>(\/ committed[x[1]] > x[2]
        \/ \A r \in Replicas : stopping[r])

-----------------------------------------------------------------------------
(***************************************************************************)
(* The inductive invariant behind the theorems of DetectorProofs.          *)
(***************************************************************************)
CommittedIsHandled ==
  \A p \in Partitions : \A o \in 0 .. committed[p] - 1 : <<p, o>> \in Handled

\* Everything before the for loop's place is handled, and so is the record
\* whose offset is about to be stored.
LoopIsHandled ==
  \A r \in Replicas :
     /\ \A p \in Partitions : \A o \in 0 .. next[r][p] - 1 : <<p, o>> \in Handled
     /\ pc[r] = "commit" => Current(r) \in Handled

\* A record that is being processed was polled, and can be classified until
\* it is published.
RecordInHand ==
  \A r \in Replicas :
     /\ pc[r] \in {"audit", "publish", "commit"} => HasPolled(r, turn[r])
     /\ pc[r] \in {"audit", "publish"} => Kind[Current(r)] # "malformed"

\* A member has unprocessed records of its own partitions only, and is at
\* the committed offset in each of them.
MembersAreFresh ==
  /\ \A r \in Replicas : pc[r] = "down" => r \notin members
  /\ \A r \in members, p \in Partitions :
        /\ HasPolled(r, p) => owner[p] = r
        /\ owner[p] = r /\ pc[r] # "close" => next[r][p] = committed[p]

\* Evicted replicas may be about to publish a record while others are, too.
\* Each of them has written its rows.
AboutToPublish(x) == {r \in Replicas : pc[r] = "publish" /\ Current(r) = x}

RowsAreAhead ==
  Auditing => \A x \in Records :
     audited[x] = Many \/ published[x] + Cardinality(AboutToPublish(x)) <= audited[x]

\* Until something fails, only members work on records, and one that is
\* published is committed or about to be.
NoFailureYet ==
  disturbances = 0 =>
     /\ \A r \in Replicas : pc[r] \in {"records", "audit", "publish", "commit"} => r \in members
     /\ \A x \in Records :
           /\ published[x] <= 1
           /\ published[x] > 0 => \/ x[2] < committed[x[1]]
                                 \/ \E r \in Replicas : pc[r] = "commit" /\ Current(r) = x

DInv ==
  /\ TypeOK
  /\ CommittedIsHandled
  /\ LoopIsHandled
  /\ RecordInHand
  /\ MembersAreFresh
  /\ RowsAreAhead
  /\ NoFailureYet
=============================================================================
