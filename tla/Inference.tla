----------------------------- MODULE Inference -----------------------------
(***************************************************************************)
(* The ai-inference service: a consumer group of replicas that read NFStream *)
(* records from inference_data, cut their snapshots into batches of at     *)
(* most BatchSize rows, publish one probability record per batch, and      *)
(* commit the completed prefix of what they have read.                     *)
(*                                                                         *)
(* The broker is external: it keeps the group's offsets, hands partitions  *)
(* to the members that poll while the group is rebalancing, and resets     *)
(* each of them to the committed offsets (kafka-python reinitialises the   *)
(* position of every partition it is given).                               *)
(***************************************************************************)
EXTENDS Integers

CONSTANTS Replicas,         \* the ai-inference containers
          Partitions,       \* partitions of inference_data
          LogEnd,           \* records per partition
          Rows,             \* snapshots in each record; 0: the record breaks the contract
          BatchSize,        \* INFERENCE_BATCH_SIZE
          MaxDisturbances,  \* bound on signals, crashes, evictions and failed calls
          MaxGeneration     \* bound on group rebalances

Records == Partitions \X (0 .. LogEnd - 1)

ASSUME InferenceAssumption ==
  /\ LogEnd \in Nat
  /\ Rows \in [Records -> Nat]
  /\ BatchSize \in Nat \ {0}
  /\ MaxDisturbances \in Nat
  /\ MaxGeneration \in Nat

NoOne == "no one"
ASSUME NoOneAssumption == NoOne \notin Replicas

VARIABLES
  published,     \* rows of each record that are in the inference_probs log
  skipped,       \* records that were logged as rejected
  committed,     \* the group's committed offsets
  members,       \* replicas in the current generation of the group
  owner,         \* who each partition is assigned to
  generation,    \* number of rebalances so far
  disturbances,  \* number of signals, crashes, evictions and failed calls so far
  pc,            \* where each replica is in run()
  then,          \* where it goes on when the flush or commit it is in returns
  stopping,      \* self._stopping
  failed,        \* run() is unwinding, or the process ended, because of an error
  position,      \* fetch position: the polled records end here
  next,          \* the polled record the for loop observes next
  turn,          \* the partition whose records the for loop is in
  pending,       \* records in the offset tracker's queues
  complete,      \* those of them marked complete
  enqueued,      \* rows of a pending record put in a batch so far
  contribution,  \* rows of a pending record that are in the current batch
  remaining,     \* remaining_snapshots of a pending record
  size           \* len(self._batch_rows)

outputVars  == <<published, skipped>>
groupVars   == <<members, owner, generation>>
controlVars == <<pc, then, stopping, failed>>
fetchVars   == <<position, next, turn>>
trackerVars == <<pending, complete>>
batchVars   == <<enqueued, contribution, remaining, size>>
vars == <<outputVars, committed, groupVars, disturbances, controlVars, fetchVars,
          trackerVars, batchVars>>

-----------------------------------------------------------------------------
Zeros == [x \in Records |-> 0]
Lesser(a, b) == IF a < b THEN a ELSE b

\* extract_snapshot_batch() raises ContractError.
BreaksContract(x) == Rows[x] = 0

\* A rejected record is handled by skipping it, an accepted one when all its
\* rows are in the output topic.
Handled == {x \in Records : IF BreaksContract(x) THEN x \in skipped
                            ELSE 1 .. Rows[x] \subseteq published[x]}

\* The record the for loop is at.
Current(r) == <<turn[r], next[r][turn[r]] - 1>>

\* The records that were polled from p and not looked at yet.
HasPolled(r, p) == next[r][p] < position[r][p]

\* The rows of x that sit in the batch of r: the last ones that were enqueued.
InBatch(r, x) == (enqueued[r][x] - contribution[r][x] + 1) .. enqueued[r][x]

\* The test at the top of observe().
OutOfOrder(r, p) == \E x \in pending[r] : x[1] = p /\ next[r][p] <= x[2]

\* Mutated forms: completed records are popped past open ones; the loop over a
\* queue ends after one record.
PrefixSkipsGaps(queue, done) == done
OneOfEachQueue(queue, done) == {x \in done : \A y \in queue : y[1] = x[1] => x[2] <= y[2]}

\* The records at the front of each queue that are complete.
CompletedPrefix(queue, done) ==
  {x \in queue : \A y \in queue : y[1] = x[1] /\ y[2] <= x[2] => y \in done}

\* offsets: one past the last record of the completed prefix, where there is one.
Offsets(r) ==
  {c \in [Partitions -> 0 .. LogEnd] : \A p \in Partitions :
     LET front == {x \in CompletedPrefix(pending[r], complete[r]) : x[1] = p}
     IN  IF front = {} THEN c[p] = committed[p]
         ELSE <<p, c[p] - 1>> \in front /\ \A x \in front : x[2] < c[p]}

\* mark_completed() calls commit() only when some queue has a completed front;
\* otherwise it returns at once to where it was called from.
MarkCompleted(r, queue, done, back) ==
  /\ complete' = [complete EXCEPT ![r] = done]
  /\ pc' = [pc EXCEPT ![r] = IF CompletedPrefix(queue, done) # {}
                             THEN "commit" ELSE back]

\* An exception leaves run() through its finally clauses without a flush.
Fail(r) ==
  /\ pc' = [pc EXCEPT ![r] = "close"]
  /\ failed' = [failed EXCEPT ![r] = TRUE]
  /\ UNCHANGED <<then, stopping>>

Disturb == /\ disturbances < MaxDisturbances
           /\ disturbances' = disturbances + 1

-----------------------------------------------------------------------------
Init ==
  /\ published = [x \in Records |-> {}]
  /\ skipped = {}
  /\ committed = [p \in Partitions |-> 0]
  /\ members = {}
  /\ owner = [p \in Partitions |-> NoOne]
  /\ generation = 0
  /\ disturbances = 0
  /\ pc = [r \in Replicas |-> "poll"]
  /\ then = [r \in Replicas |-> "poll"]
  /\ stopping = [r \in Replicas |-> FALSE]
  /\ failed = [r \in Replicas |-> FALSE]
  /\ position = [r \in Replicas |-> [p \in Partitions |-> 0]]
  /\ next = [r \in Replicas |-> [p \in Partitions |-> 0]]
  /\ turn \in [Replicas -> Partitions]
  /\ pending = [r \in Replicas |-> {}]
  /\ complete = [r \in Replicas |-> {}]
  /\ enqueued = [r \in Replicas |-> Zeros]
  /\ contribution = [r \in Replicas |-> Zeros]
  /\ remaining = [r \in Replicas |-> Zeros]
  /\ size = [r \in Replicas |-> 0]

(***************************************************************************)
(* The polling loop.                                                       *)
(***************************************************************************)

\* poll() returns some of the records that follow the fetch positions.
Poll(r) ==
  /\ pc[r] = "poll" /\ ~stopping[r] /\ r \in members
  /\ \E end \in [Partitions -> 0 .. LogEnd] :
        /\ \A p \in Partitions : IF owner[p] = r THEN end[p] >= position[r][p]
                                 ELSE end[p] = position[r][p]
        /\ end # position[r]
        /\ position' = [position EXCEPT ![r] = end]
  /\ \E p \in Partitions : turn' = [turn EXCEPT ![r] = p]
  /\ pc' = [pc EXCEPT ![r] = "records"]
  /\ UNCHANGED <<outputVars, committed, groupVars, disturbances, then, stopping, failed,
                 next, trackerVars, batchVars>>

\* _flush_batch(): nothing to do for an empty batch, else publish it first.
Flush(r, back) ==
  /\ pc' = [pc EXCEPT ![r] = IF size[r] = 0 THEN back ELSE "publish"]
  /\ then' = [then EXCEPT ![r] = IF size[r] = 0 THEN @ ELSE back]
  /\ UNCHANGED <<outputVars, committed, groupVars, disturbances, stopping, failed,
                 fetchVars, trackerVars, batchVars>>

\* Mutated form: a partial batch waits for more records.
WaitsForAFullBatch(r) == pc[r] = "poll" /\ ~stopping[r] /\ UNCHANGED vars

\* poll() returns nothing: the records have not arrived, or the replica is
\* still rejoining the group.  A partial batch is flushed.
EmptyPoll(r) == pc[r] = "poll" /\ ~stopping[r] /\ Flush(r, "poll")

\* The loop condition is false: the finally clause drains the batch.
Drain(r) == pc[r] = "poll" /\ stopping[r] /\ Flush(r, "close")

\* The for loop finishes one partition before it goes to another.
Takes(r, p) ==
  /\ pc[r] = "records" /\ HasPolled(r, p)
  /\ p = turn[r] \/ ~HasPolled(r, turn[r])

\* observe() raises, outside of any handler.
ObserveRaises(r, p) ==
  /\ Takes(r, p) /\ OutOfOrder(r, p)
  /\ Fail(r)
  /\ UNCHANGED <<outputVars, committed, groupVars, disturbances, fetchVars, trackerVars,
                 batchVars>>

Observe(r, p) ==
  /\ Takes(r, p) /\ ~OutOfOrder(r, p)
  /\ turn' = [turn EXCEPT ![r] = p]
  /\ next' = [next EXCEPT ![r][p] = @ + 1]
  /\ pending' = [pending EXCEPT ![r] = @ \union {<<p, next[r][p]>>}]

\* The record breaks the contract: it is logged and completed on the spot.
Reject(r, p) ==
  /\ Observe(r, p)
  /\ BreaksContract(<<p, next[r][p]>>)
  /\ skipped' = skipped \union {<<p, next[r][p]>>}
  /\ MarkCompleted(r, pending[r] \union {<<p, next[r][p]>>},
                      complete[r] \union {<<p, next[r][p]>>}, "records")
  /\ then' = [then EXCEPT ![r] = "records"]
  /\ UNCHANGED <<published, committed, groupVars, disturbances, stopping, failed,
                 position, batchVars>>

\* A valid record becomes a pending input with all its snapshots to go.
Accept(r, p) ==
  /\ Observe(r, p)
  /\ ~BreaksContract(<<p, next[r][p]>>)
  /\ LET x == <<p, next[r][p]>>
     IN  /\ remaining' = [remaining EXCEPT ![r][x] = Rows[x]]
         /\ enqueued' = [enqueued EXCEPT ![r][x] = 0]
  /\ pc' = [pc EXCEPT ![r] = "enqueue"]
  /\ UNCHANGED <<outputVars, committed, groupVars, disturbances, then, stopping, failed,
                 position, complete, contribution, size>>

\* Mutated form: a record is put in the batch whole.
UncappedChunk(r) == Rows[Current(r)] - enqueued[r][Current(r)]

\* As many rows of the record as the batch has room for.
Chunk(r) == Lesser(BatchSize - size[r], Rows[Current(r)] - enqueued[r][Current(r)])

\* One turn of the loop in _enqueue_input(); a full batch is flushed.
Enqueue(r) ==
  /\ pc[r] = "enqueue"
  /\ LET x == Current(r)
     IN  /\ enqueued' = [enqueued EXCEPT ![r][x] = @ + Chunk(r)]
         /\ contribution' = [contribution EXCEPT ![r][x] = @ + Chunk(r)]
         /\ then' = [then EXCEPT ![r] =
                       IF enqueued[r][x] + Chunk(r) = Rows[x] THEN "records" ELSE "enqueue"]
  /\ size' = [size EXCEPT ![r] = @ + Chunk(r)]
  /\ pc' = [pc EXCEPT ![r] = IF size'[r] = BatchSize THEN "publish" ELSE "records"]
  /\ UNCHANGED <<outputVars, committed, groupVars, disturbances, stopping, failed,
                 fetchVars, trackerVars, remaining>>

EndOfRecords(r) ==
  /\ pc[r] = "records" /\ \A p \in Partitions : ~HasPolled(r, p)
  /\ pc' = [pc EXCEPT ![r] = "poll"]
  /\ UNCHANGED <<outputVars, committed, groupVars, disturbances, then, stopping, failed,
                 fetchVars, trackerVars, batchVars>>

(***************************************************************************)
(* Publishing and committing.                                              *)
(***************************************************************************)
\* Mutated form: send() without get() on its future.
MayBeLost(r) ==
  \/ published' = [x \in Records |-> published[x] \union InBatch(r, x)]
  \/ UNCHANGED published

AppendBatch(r) == published' = [x \in Records |-> published[x] \union InBatch(r, x)]

\* Mutated form: _batch_contributions is not cleared.
KeepsContributions(r) == size' = [size EXCEPT ![r] = 0] /\ UNCHANGED contribution

ResetBatch(r) == /\ contribution' = [contribution EXCEPT ![r] = Zeros]
                 /\ size' = [size EXCEPT ![r] = 0]

\* The broker acknowledges the batch: the buffers are reset and every input
\* that has no snapshot left is completed.
PublishAcked(r) ==
  /\ pc[r] = "publish"
  /\ AppendBatch(r)
  /\ remaining' = [remaining EXCEPT ![r] = [x \in Records |-> @[x] - contribution[r][x]]]
  /\ MarkCompleted(r, pending[r], complete[r] \union
                      {x \in pending[r] : contribution[r][x] > 0 /\ remaining'[r][x] = 0},
                   then[r])
  /\ ResetBatch(r)
  /\ UNCHANGED <<skipped, committed, groupVars, disturbances, then, stopping, failed,
                 fetchVars, pending, enqueued>>

\* send().get() raises: the batch was not appended, or it was and the
\* acknowledgement did not arrive in time.
PublishFails(r) ==
  /\ pc[r] = "publish"
  /\ Disturb
  /\ AppendBatch(r) \/ UNCHANGED published
  /\ Fail(r)
  /\ UNCHANGED <<skipped, committed, groupVars, fetchVars, trackerVars, batchVars>>

\* The queues are popped only once the broker has acknowledged the commit.
CommitAcked(r) ==
  /\ pc[r] = "commit" /\ r \in members
  /\ committed' \in Offsets(r)
  /\ LET front == CompletedPrefix(pending[r], complete[r])
     IN  /\ pending' = [pending EXCEPT ![r] = @ \ front]
         /\ complete' = [complete EXCEPT ![r] = @ \ front]
  /\ pc' = [pc EXCEPT ![r] = then[r]]
  /\ UNCHANGED <<outputVars, groupVars, disturbances, then, stopping, failed, fetchVars,
                 batchVars>>

\* commit() raises: the replica was put out of the group, or the call failed
\* before or after the broker had stored the offsets.
CommitFails(r) ==
  /\ pc[r] = "commit"
  /\ \/ r \notin members /\ UNCHANGED <<committed, disturbances>>
     \/ r \in members /\ Disturb /\ UNCHANGED committed
     \/ r \in members /\ Disturb /\ committed' \in Offsets(r)
  /\ Fail(r)
  /\ UNCHANGED <<outputVars, groupVars, fetchVars, trackerVars, batchVars>>

(***************************************************************************)
(* The process and its environment.                                        *)
(***************************************************************************)

\* SIGTERM or SIGINT only sets a flag.
HandleSignal(r) ==
  /\ pc[r] \notin {"close", "down"} /\ ~stopping[r]
  /\ Disturb
  /\ stopping' = [stopping EXCEPT ![r] = TRUE]
  /\ UNCHANGED <<outputVars, committed, groupVars, pc, then, failed, fetchVars,
                 trackerVars, batchVars>>

LeaveGroup(r) ==
  /\ members' = members \ {r}
  /\ owner' = [p \in Partitions |-> IF owner[p] = r THEN NoOne ELSE owner[p]]
  /\ UNCHANGED generation

\* The process ends; what it had in memory is gone.
End(r) ==
  /\ LeaveGroup(r)
  /\ pc' = [pc EXCEPT ![r] = "down"]
  /\ pending' = [pending EXCEPT ![r] = {}]
  /\ complete' = [complete EXCEPT ![r] = {}]
  /\ enqueued' = [enqueued EXCEPT ![r] = Zeros]
  /\ contribution' = [contribution EXCEPT ![r] = Zeros]
  /\ remaining' = [remaining EXCEPT ![r] = Zeros]
  /\ size' = [size EXCEPT ![r] = 0]
  /\ position' = [position EXCEPT ![r] = [p \in Partitions |-> 0]]
  /\ next' = [next EXCEPT ![r] = [p \in Partitions |-> 0]]
  /\ then' = [then EXCEPT ![r] = "poll"]
  /\ UNCHANGED <<outputVars, committed, stopping, turn>>

\* consumer.close() and producer.close().
Close(r) == pc[r] = "close" /\ End(r) /\ UNCHANGED <<failed, disturbances>>

Crash(r) ==
  /\ pc[r] # "down"
  /\ Disturb
  /\ End(r)
  /\ failed' = [failed EXCEPT ![r] = TRUE]

\* A new process with empty buffers, not yet in the group.
Restart(r) ==
  /\ pc[r] = "down"
  /\ pc' = [pc EXCEPT ![r] = "poll"]
  /\ stopping' = [stopping EXCEPT ![r] = FALSE]
  /\ failed' = [failed EXCEPT ![r] = FALSE]
  /\ UNCHANGED <<outputVars, committed, groupVars, disturbances, then, fetchVars,
                 trackerVars, batchVars>>

\* A member that does not poll for too long is put out of the group.
Evict(r) ==
  /\ r \in members /\ pc[r] # "poll"
  /\ Disturb
  /\ LeaveGroup(r)
  /\ UNCHANGED <<outputVars, committed, controlVars, fetchVars, trackerVars, batchVars>>

\* All members and some newcomers poll, and so rejoin; the partitions are
\* dealt out again, and each of these replicas starts over from the
\* committed offsets while it keeps its queues and its batch.
Rebalance ==
  /\ generation < MaxGeneration
  /\ \E joined \in SUBSET {r \in Replicas : pc[r] = "poll" /\ ~stopping[r]} :
        /\ members \subseteq joined /\ joined # {}
        /\ joined # members \/ \E p \in Partitions : owner[p] = NoOne
        /\ members' = joined
        /\ owner' \in [Partitions -> joined]
        /\ position' = [r \in Replicas |-> IF r \in joined THEN committed ELSE position[r]]
        /\ next' = [r \in Replicas |-> IF r \in joined THEN committed ELSE next[r]]
  /\ generation' = generation + 1
  /\ UNCHANGED <<outputVars, committed, disturbances, controlVars, turn, trackerVars,
                 batchVars>>

-----------------------------------------------------------------------------
Step(r) ==
  \/ Drain(r) \/ EndOfRecords(r) \/ Enqueue(r) \/ PublishAcked(r) \/ CommitAcked(r)
  \/ CommitFails(r) \/ Close(r)
  \/ \E p \in Partitions : Accept(r, p) \/ Reject(r, p) \/ ObserveRaises(r, p)

Next ==
  \/ \E r \in Replicas :
        Step(r) \/ Poll(r) \/ EmptyPoll(r) \/ PublishFails(r) \/ HandleSignal(r)
        \/ Crash(r) \/ Restart(r) \/ Evict(r)
  \/ Rebalance

Spec == Init /\ [][Next]_vars

(***************************************************************************)
(* Fairness.  A running process makes its next step; a poll that can       *)
(* return records does so in the end; the group coordinator completes a    *)
(* rebalance; "restart: unless-stopped" restarts a replica that failed,    *)
(* and nothing restarts one that was told to stop.                         *)
(***************************************************************************)
Fairness ==
  /\ \A r \in Replicas : /\ WF_vars(Step(r)) /\ WF_vars(Poll(r)) /\ WF_vars(EmptyPoll(r))
                         /\ WF_vars(failed[r] /\ Restart(r))
  /\ WF_vars(Rebalance)

LiveSpec == Spec /\ Fairness
-----------------------------------------------------------------------------
PCs == {"down", "poll", "records", "enqueue", "publish", "commit", "close"}

TypeOK ==
  /\ published \in [Records -> SUBSET Nat]
  /\ skipped \subseteq Records
  /\ committed \in [Partitions -> 0 .. LogEnd]
  /\ members \subseteq Replicas
  /\ owner \in [Partitions -> Replicas \union {NoOne}]
  /\ generation \in 0 .. MaxGeneration
  /\ disturbances \in 0 .. MaxDisturbances
  /\ pc \in [Replicas -> PCs]
  /\ then \in [Replicas -> {"poll", "records", "enqueue", "close"}]
  /\ stopping \in [Replicas -> BOOLEAN]
  /\ failed \in [Replicas -> BOOLEAN]
  /\ position \in [Replicas -> [Partitions -> 0 .. LogEnd]]
  /\ next \in [Replicas -> [Partitions -> 0 .. LogEnd]]
  /\ turn \in [Replicas -> Partitions]
  /\ pending \in [Replicas -> SUBSET Records]
  /\ complete \in [Replicas -> SUBSET Records]
  /\ enqueued \in [Replicas -> [Records -> Nat]]
  /\ contribution \in [Replicas -> [Records -> Nat]]
  /\ remaining \in [Replicas -> [Records -> Nat]]
  /\ size \in [Replicas -> 0 .. BatchSize]

\* The promise of README.md 374-377: whatever lies below a committed offset
\* was rejected, or every one of its snapshots is in the output topic, also
\* when records are split over batches, replicas crash between a publish and
\* its commit, and a partition changes hands with records still buffered.
CommittedIsHandled ==
  \A p \in Partitions : \A o \in 0 .. committed[p] - 1 : <<p, o>> \in Handled

\* "inference batch over-completed an input record" (_flush_batch) is never
\* raised: no batch holds more rows of a record than the record still waits
\* for, although the two counts are kept in different objects.
NeverOverCompletes ==
  \A r \in Replicas : pc[r] = "publish" =>
     \A x \in Records : contribution[r][x] <= remaining[r][x]

\* A replica that waits for work, or that leaves without an error, with an
\* empty batch owes nothing: all it has observed is committed.  (A rejected
\* record waits behind a buffered one, and is not forgotten there; a normal
\* shutdown drains the batch before it closes the consumer.)
IdleOwesNothing ==
  \A r \in Replicas :
     (pc[r] \in {"poll", "close"} /\ ~failed[r] /\ size[r] = 0) => pending[r] = {}

\* Until something fails or the group is rebalanced a second time, no row is
\* about to be published twice.
DuplicatesNeedACause ==
  disturbances = 0 /\ generation <= 1 =>
     \A r \in Replicas, x \in Records : InBatch(r, x) \intersect published[x] = {}

\* An offset moves back only across a rebalance: a replica that rejoins with
\* records of its old assignment still buffered commits them behind what
\* others have committed.  Within one assignment the rows of a record that is
\* completed late never drag the offset back.
RewindsNeedARebalance ==
  [][\A p \in Partitions : committed'[p] < committed[p] => generation > 1]_vars

\* The replicas together implement the promise of a consuming stage.
Promise == INSTANCE AtLeastOnce WITH handled <- Handled
ImplementsAtLeastOnce == Promise!Spec

\* The group's offsets settle at the end of the log, unless the replica is
\* told to stop: a partial batch does not wait forever, and each crash and
\* eviction is recovered from.  (Offsets may move back on the way: a replica
\* that rejoins with records still buffered commits them, and then commits
\* the first of their redelivered copies.)
EventuallyCommitted ==
  <>(\/ [](\A p \in Partitions : committed[p] = LogEnd)
     \/ \E r \in Replicas : stopping[r])

\* observe()'s own assertion: "Kafka records must be observed in increasing
\* offset order per partition".
ObservedInOrder ==
  \A r \in Replicas, p \in Partitions :
     pc[r] = "records" /\ HasPolled(r, p) => ~OutOfOrder(r, p)

-----------------------------------------------------------------------------
(***************************************************************************)
(* The inductive invariant behind the theorems of InferenceProofs.         *)
(***************************************************************************)

\* The replica is inside _enqueue_input() for its current record.
InHand(r) == \/ pc[r] = "enqueue"
             \/ pc[r] \in {"publish", "commit"} /\ then[r] = "enqueue"

Open(r) == pending[r] \ complete[r]

CompleteIsHandled == \A r \in Replicas : complete[r] \subseteq pending[r] \intersect Handled

\* Everything before a queued record, and before the for loop's place, is
\* queued or handled: by this replica or by another that had the partition.
NoGaps ==
  \A r \in Replicas :
     /\ \A x \in pending[r] : \A o \in 0 .. x[2] - 1 : <<x[1], o>> \in pending[r] \union Handled
     /\ \A p \in Partitions : \A o \in 0 .. next[r][p] - 1 :
           <<p, o>> \in pending[r] \union Handled

\* The three counts of an open record agree with each other and with the
\* output topic.
RowsAddUp ==
  \A r \in Replicas, x \in Records :
     /\ x \in Open(r) =>
          /\ Rows[x] > 0
          /\ enqueued[r][x] <= Rows[x]
          /\ contribution[r][x] <= enqueued[r][x]
          /\ remaining[r][x] = Rows[x] - enqueued[r][x] + contribution[r][x]
          /\ 1 .. (enqueued[r][x] - contribution[r][x]) \subseteq published[x]
     /\ x \notin Open(r) \/ size[r] = 0 => contribution[r][x] = 0

CurrentIsOpen ==
  \A r \in Replicas : InHand(r) =>
     /\ Current(r) \in Open(r)
     /\ enqueued[r][Current(r)] < Rows[Current(r)]

\* Every other open record is entirely in batches, its last rows in this one.
OthersAreBuffered ==
  \A r \in Replicas : ~(pc[r] = "close" /\ failed[r]) => \A x \in Open(r) :
     \/ enqueued[r][x] = Rows[x] /\ contribution[r][x] > 0
     \/ InHand(r) /\ x = Current(r)

\* Between commits no queue has a completed front.
FrontsAreOpen ==
  \A r \in Replicas :
     pc[r] \in {"poll", "records", "enqueue", "publish"} \/ (pc[r] = "close" /\ ~failed[r])
        => CompletedPrefix(pending[r], complete[r]) = {}

DownIsEmpty == \A r \in Replicas : pc[r] = "down" => pending[r] = {}

IInv ==
  /\ TypeOK
  /\ DownIsEmpty
  /\ CommittedIsHandled
  /\ CompleteIsHandled
  /\ NoGaps
  /\ RowsAddUp
  /\ CurrentIsOpen
  /\ OthersAreBuffered
  /\ FrontsAreOpen

\* What a replica can have done before and in the first generation.  Nothing
\* before it; in it, a member has records of its own partitions, none of them
\* behind the group's offset, unless it is about to leave.
NothingBeforeTheFirst ==
  generation = 0 =>
     /\ members = {}
     /\ \A r \in Replicas : pending[r] = {} /\ \A p \in Partitions : ~HasPolled(r, p)
     /\ \A x \in Records : published[x] = {}

MembersAreFresh ==
  generation <= 1 => \A r \in members :
     /\ \A p \in Partitions : /\ HasPolled(r, p) => owner[p] = r
                              /\ owner[p] = r => committed[p] <= next[r][p]
     /\ \A x \in pending[r] :
           owner[x[1]] = r /\ x[2] < next[r][x[1]] /\ (pc[r] # "close" => committed[x[1]] <= x[2])

\* While nothing is disturbed, nobody leaves, and the published rows are those
\* that the owner of the partition has enqueued and taken from its batch.
NothingTwice ==
  disturbances = 0 /\ generation <= 1 => \A r \in Replicas :
     /\ pc[r] \notin {"close", "down"} /\ then[r] # "close" /\ ~stopping[r]
     /\ r \notin members =>
          pending[r] = {} /\ pc[r] # "commit" /\ \A p \in Partitions : ~HasPolled(r, p)
     /\ \A x \in Open(r) : published[x] \subseteq 1 .. (enqueued[r][x] - contribution[r][x])
     /\ r \in members => \A x \in Records :
           owner[x[1]] = r /\ next[r][x[1]] <= x[2] => published[x] = {}

AInv ==
  /\ IInv
  /\ NothingBeforeTheFirst
  /\ MembersAreFresh
  /\ NothingTwice
=============================================================================
