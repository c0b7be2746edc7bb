---------------------------- MODULE MergeStreams ----------------------------
(***************************************************************************)
(* The Flink job of stream_processing/merge/merge_streams_avro.py: it joins *)
(* the raw review and metadata topics on parent_asin and writes the merged *)
(* records to the topic merge_metadata_reviews.                            *)
(*                                                                         *)
(* The handlers process_element1 and process_element2 are one action each, *)
(* with the map, the filter and the sink chained behind them.  Around them *)
(* stand the parts of Flink and Kafka the job relies on: checkpoints, the  *)
(* sink's asynchronous sends, restarts of the tasks from the last          *)
(* checkpoint, restarts of the job manager without one, and a schema       *)
(* registry that comes and goes.                                           *)
(***************************************************************************)
EXTENDS Integers, Sequences, Functions

CONSTANTS Reviews,             \* records of the topic test.public.raw_reviews
          Metadata,            \* records of the topic test.public.raw_item_metadata
          Products,            \* the values of parent_asin
          ParentAsin,          \* the parent_asin of each record
          Malformed,           \* reviews whose timestamp int() cannot read
          Nonconforming,       \* records with a null the merge schema forbids
          ReviewPartitions,    \* partitions of the review topic
          MetadataPartitions,  \* partitions of the metadata topic
          Subtasks,            \* parallel instances of the join operator
          Subtask,             \* the instance that owns each key
          MaxFaults,           \* bound: faults of each kind in a behaviour
          MaxAttempts,         \* bound: value at which attempt saturates
          NoMetadata           \* the empty ValueState

Records == Reviews \cup Metadata
Partitions == ReviewPartitions \cup MetadataPartitions
FaultKinds == {"task", "job_manager", "registry"}
Offsets == [Partitions -> Nat]

ASSUME ConstantsAssumption ==
  /\ Reviews \cap Metadata = {}
  /\ ReviewPartitions \cap MetadataPartitions = {}
  /\ NoMetadata \notin Metadata
  /\ ParentAsin \in [Records -> Products]
  /\ Subtask \in [Products -> Subtasks]
  /\ Malformed \subseteq Reviews
  /\ Nonconforming \subseteq Records
  /\ MaxFaults \in [FaultKinds -> Nat]
  /\ MaxAttempts \in Nat

VARIABLES
  (* Kafka *)
  log,             \* log[p]: the records of partition p of a raw topic, in order
  committed,       \* committed[p]: offset committed by flink-consumer-group
  merge_topic,     \* the records of merge_metadata_reviews
  (* the running job *)
  status,          \* "submitted", "running" or "failed"
  offset,          \* offset[p]: how many records of p the job has consumed
  metadata_state,  \* the ValueState of each key
  reviews_state,   \* the ListState of each key
  serializer,      \* the subtasks whose worker holds a ready _serializer
  pending,         \* records given to the producer and not yet acknowledged
  checkpoint,      \* the last completed checkpoint
  (* environment *)
  registry_up,     \* the schema registry answers
  faults,          \* faults[k]: how many faults of kind k have happened
  (* history *)
  attempt,         \* how often the job has been (re)started
  origin,          \* the offsets the job started from with empty state
  lost             \* reviews given up, with the cause

kafka == <<log, committed, merge_topic>>
keyed_state == <<metadata_state, reviews_state>>
job == <<status, offset, keyed_state, serializer, pending, checkpoint>>
vars == <<kafka, job, registry_up, faults, attempt, origin, lost>>

MergedRecords == [review : Reviews, metadata : Metadata, attempt : 0..MaxAttempts]
Losses == [review : Reviews, cause : {"schema", "outage", "restart"}]
MetadataStates == [Products -> Metadata \cup {NoMetadata}]
ReviewsStates == [Products -> Seq(Reviews)]
Checkpoints == [offset : Offsets, metadata_state : MetadataStates,
                reviews_state : ReviewsStates]

Published == UNION {Range(log[p]) : p \in Partitions}
NextRecord(p) == log[p][offset[p] + 1]
Advance(p) == offset' = [offset EXCEPT ![p] = @ + 1]
Fault(kind) ==
  /\ faults[kind] < MaxFaults[kind]
  /\ faults' = [faults EXCEPT ![kind] = @ + 1]

(* The records of the raw topics from one set of offsets up to another. *)
Between(from, upto) == UNION {{log[p][i] : i \in (from[p] + 1)..upto[p]} : p \in Partitions}
Earliest == [p \in Partitions |-> 0]
EmptyMetadata == [k \in Products |-> NoMetadata]
EmptyReviews == [k \in Products |-> <<>>]
Buffered(state) == UNION {Range(state[k]) : k \in Products}

-----------------------------------------------------------------------------
(* process_features converts one merged record at a time and raises at the *)
(* first malformed timestamp: only the records before it reach serialize.  *)
Converted(reviews) ==
  {reviews[i] : i \in {j \in DOMAIN reviews : \A h \in 1..j : reviews[h] \notin Malformed}}
Raises(reviews) == Range(reviews) \cap Malformed # {}

(* get_serializer needs the registry once; afterwards it is cached.        *)
CanSerialize(key) == registry_up \/ Subtask[key] \in serializer

(* The Avro schema of merged records forbids null in most fields.          *)
Conforms(r, m) == r \notin Nonconforming /\ m \notin Nonconforming

(* serialize: any exception becomes None, which the filter drops.          *)
Serialized(key, r, m) == CanSerialize(key) /\ Conforms(r, m)

(* Mutant of Emit: an exception of process_features is swallowed and the   *)
(* remaining records of the call are skipped.                              *)
EmitSwallowingErrors(key, metadata, reviews) ==
  LET tried    == Converted(reviews)
      accepted == {r \in tried : Serialized(key, r, metadata)}
      cause    == IF CanSerialize(key) THEN "schema" ELSE "outage"
  IN /\ pending' = pending \cup
           {[review |-> r, metadata |-> metadata, attempt |-> attempt] : r \in accepted}
     /\ lost' = lost \cup {[review |-> r, cause |-> cause] : r \in tried \ accepted}
     /\ UNCHANGED <<serializer, status>>

(* What follows each yield: process_features, serialize, the filter on     *)
(* None and the hand-over to the producer.  An exception of                *)
(* process_features fails the job.                                         *)
Emit(key, metadata, reviews) ==
  LET tried    == Converted(reviews)
      accepted == {r \in tried : Serialized(key, r, metadata)}
      cause    == IF CanSerialize(key) THEN "schema" ELSE "outage"
  IN /\ pending' = pending \cup
           {[review |-> r, metadata |-> metadata, attempt |-> attempt] : r \in accepted}
     /\ lost' = lost \cup {[review |-> r, cause |-> cause] : r \in tried \ accepted}
     /\ serializer' = IF registry_up /\ tried # {}
                        THEN serializer \cup {Subtask[key]} ELSE serializer
     /\ status' = IF Raises(reviews) THEN "failed" ELSE status

-----------------------------------------------------------------------------
Init ==
  /\ log = [p \in Partitions |-> <<>>]
  /\ committed = Earliest
  /\ merge_topic = {}
  /\ status = "submitted"
  /\ offset = Earliest
  /\ metadata_state = EmptyMetadata
  /\ reviews_state = EmptyReviews
  /\ serializer = {}
  /\ pending = {}
  /\ checkpoint = [offset |-> Earliest, metadata_state |-> EmptyMetadata,
                   reviews_state |-> EmptyReviews]
  /\ registry_up = TRUE
  /\ faults = [kind \in FaultKinds |-> 0]
  /\ attempt = 0
  /\ origin = Earliest
  /\ lost = {}

(* The Debezium connector publishes a row of raw_reviews or                *)
(* raw_item_metadata.  The tables have no key, so any partition may get it. *)
Publish(p, x) ==
  /\ x \notin Published
  /\ (p \in ReviewPartitions) <=> (x \in Reviews)
  /\ log' = [log EXCEPT ![p] = Append(@, x)]
  /\ UNCHANGED <<committed, merge_topic, job, registry_up, faults, attempt, origin, lost>>

-----------------------------------------------------------------------------
(* process_element1: a review meets the metadata of its product, or waits. *)
BufferReview(p) ==
  /\ status = "running"
  /\ offset[p] < Len(log[p])
  /\ metadata_state[ParentAsin[NextRecord(p)]] = NoMetadata
  /\ reviews_state' = [reviews_state EXCEPT ![ParentAsin[NextRecord(p)]] = Append(@, NextRecord(p))]
  /\ Advance(p)
  /\ UNCHANGED <<kafka, status, metadata_state, serializer, pending, checkpoint,
                 registry_up, faults, attempt, origin, lost>>

(* Mutant of MergeReview: the review is yielded and buffered as well.      *)
MergeAndBufferReview(p) ==
  LET key == ParentAsin[NextRecord(p)] IN
  /\ status = "running"
  /\ offset[p] < Len(log[p])
  /\ metadata_state[key] # NoMetadata
  /\ Emit(key, metadata_state[key], <<NextRecord(p)>>)
  /\ reviews_state' = [reviews_state EXCEPT ![key] = Append(@, NextRecord(p))]
  /\ Advance(p)
  /\ UNCHANGED <<kafka, metadata_state, checkpoint, registry_up, faults, attempt, origin>>

MergeReview(p) ==
  LET key == ParentAsin[NextRecord(p)] IN
  /\ status = "running"
  /\ offset[p] < Len(log[p])
  /\ metadata_state[key] # NoMetadata
  /\ Emit(key, metadata_state[key], <<NextRecord(p)>>)
  /\ Advance(p)
  /\ UNCHANGED <<kafka, keyed_state, checkpoint, registry_up, faults, attempt, origin>>

ProcessReview(p) == BufferReview(p) \/ MergeReview(p)

(* Mutant of ProcessMetadata: reviews_state.clear() is missing.            *)
ProcessMetadataWithoutClear(p) ==
  LET metadata == NextRecord(p)
      key      == ParentAsin[metadata]
  IN /\ status = "running"
     /\ offset[p] < Len(log[p])
     /\ metadata_state' = [metadata_state EXCEPT ![key] = metadata]
     /\ Emit(key, metadata, reviews_state[key])
     /\ Advance(p)
     /\ UNCHANGED <<kafka, reviews_state, checkpoint, registry_up, faults, attempt, origin>>

(* process_element2: the metadata replaces the previous one, is merged with *)
(* every buffered review, and the buffer is cleared after the last yield;  *)
(* an exception behind a yield leaves the buffer as it was.                *)
ProcessMetadata(p) ==
  LET metadata == NextRecord(p)
      key      == ParentAsin[metadata]
      reviews  == reviews_state[key]
  IN /\ status = "running"
     /\ offset[p] < Len(log[p])
     /\ metadata_state' = [metadata_state EXCEPT ![key] = metadata]
     /\ Emit(key, metadata, reviews)
     /\ reviews_state' = IF Raises(reviews) THEN reviews_state
                         ELSE [reviews_state EXCEPT ![key] = <<>>]
     /\ Advance(p)
     /\ UNCHANGED <<kafka, checkpoint, registry_up, faults, attempt, origin>>

(* Kafka acknowledges a record of the producer; sends are asynchronous and *)
(* those in flight when the job fails may still arrive.                    *)
ProducerSend(x) ==
  /\ x \in pending
  /\ pending' = pending \ {x}
  /\ merge_topic' = merge_topic \cup {x}
  /\ UNCHANGED <<log, committed, status, offset, keyed_state, serializer, checkpoint,
                 registry_up, faults, attempt, origin, lost>>

-----------------------------------------------------------------------------
(* Mutant of Checkpoint: the sink does not flush (setFlushOnCheckpoint).   *)
CheckpointWithoutFlush ==
  /\ status = "running"
  /\ checkpoint' = [offset |-> offset, metadata_state |-> metadata_state,
                    reviews_state |-> reviews_state]
  /\ UNCHANGED <<kafka, status, offset, keyed_state, serializer, pending,
                 registry_up, faults, attempt, origin, lost>>

(* A checkpoint: the sink flushes, then offsets and keyed state are saved  *)
(* as of one barrier.                                                      *)
Checkpoint ==
  /\ status = "running"
  /\ pending = {}
  /\ checkpoint' = [offset |-> offset, metadata_state |-> metadata_state,
                    reviews_state |-> reviews_state]
  /\ UNCHANGED <<kafka, status, offset, keyed_state, serializer, pending,
                 registry_up, faults, attempt, origin, lost>>

(* The consumers commit the offsets of a completed checkpoint to Kafka.    *)
CommitOffsets ==
  /\ status = "running"
  /\ committed' = checkpoint.offset
  /\ UNCHANGED <<log, merge_topic, job, registry_up, faults, attempt, origin, lost>>

(* Mutant of Start: the reviews wait in a field of the operator instead of *)
(* Flink's ListState, so no snapshot brings them back.                     *)
StartWithoutListState(snapshot) ==
  /\ registry_up
  /\ status' = "running"
  /\ offset' = snapshot.offset
  /\ metadata_state' = snapshot.metadata_state
  /\ reviews_state' = EmptyReviews
  /\ serializer' = {}
  /\ pending' = {}
  /\ attempt' = IF attempt < MaxAttempts THEN attempt + 1 ELSE attempt

(* Mutant of Start: consumption resumes one record after the saved offset. *)
StartOneTooFar(snapshot) ==
  /\ registry_up
  /\ status' = "running"
  /\ offset' = [p \in Partitions |-> snapshot.offset[p] + 1]
  /\ metadata_state' = snapshot.metadata_state
  /\ reviews_state' = snapshot.reviews_state
  /\ serializer' = {}
  /\ pending' = {}
  /\ attempt' = IF attempt < MaxAttempts THEN attempt + 1 ELSE attempt

(* The tasks start: open asserts that the registry knows the schemas, the  *)
(* Python workers are new and nothing is in flight.  The state is the one  *)
(* saved in the snapshot.                                                  *)
Start(snapshot) ==
  /\ registry_up
  /\ status' = "running"
  /\ offset' = snapshot.offset
  /\ metadata_state' = snapshot.metadata_state
  /\ reviews_state' = snapshot.reviews_state
  /\ serializer' = {}
  /\ pending' = {}
  /\ attempt' = IF attempt < MaxAttempts THEN attempt + 1 ELSE attempt

(* Mutant of Submit: setStartFromEarliest instead of the group's offsets.  *)
SubmitFromEarliest ==
  LET fresh == [offset |-> Earliest, metadata_state |-> EmptyMetadata,
                reviews_state |-> EmptyReviews]
  IN /\ status = "submitted"
     /\ Start(fresh)
     /\ checkpoint' = fresh
     /\ origin' = Earliest
     /\ UNCHANGED <<kafka, registry_up, faults, lost>>

(* __main__ runs: on the first deployment, and again whenever the job      *)
(* manager has restarted.  The job has no savepoint to start from, so it   *)
(* continues at the committed offsets with empty state.                    *)
Submit ==
  LET fresh == [offset |-> committed, metadata_state |-> EmptyMetadata,
                reviews_state |-> EmptyReviews]
  IN /\ status = "submitted"
     /\ Start(fresh)
     /\ checkpoint' = fresh
     /\ origin' = committed
     /\ lost' = lost \cup {[review |-> r, cause |-> "restart"] :
                            r \in Buffered(checkpoint.reviews_state) \cap Between(Earliest, committed)}
     /\ UNCHANGED <<kafka, registry_up, faults>>

(* Flink restarts a failed job from the last completed checkpoint.         *)
Restart ==
  /\ status = "failed"
  /\ Start(checkpoint)
  /\ UNCHANGED <<kafka, checkpoint, registry_up, faults, origin, lost>>

-----------------------------------------------------------------------------
TaskFails ==
  /\ status = "running"
  /\ Fault("task")
  /\ status' = "failed"
  /\ UNCHANGED <<kafka, offset, keyed_state, serializer, pending, checkpoint,
                 registry_up, attempt, origin, lost>>

JobManagerFails ==
  /\ status # "submitted"
  /\ Fault("job_manager")
  /\ status' = "submitted"
  /\ UNCHANGED <<kafka, offset, keyed_state, serializer, pending, checkpoint,
                 registry_up, attempt, origin, lost>>

RegistryFails ==
  /\ registry_up
  /\ Fault("registry")
  /\ registry_up' = FALSE
  /\ UNCHANGED <<kafka, job, attempt, origin, lost>>

RegistryRecovers ==
  /\ ~registry_up
  /\ registry_up' = TRUE
  /\ UNCHANGED <<kafka, job, faults, attempt, origin, lost>>

Work ==
  \/ \E p \in ReviewPartitions : ProcessReview(p)
  \/ \E p \in MetadataPartitions : ProcessMetadata(p)
  \/ \E x \in pending : ProducerSend(x)
  \/ Checkpoint
  \/ CommitOffsets
  \/ Submit
  \/ Restart

Environment ==
  \/ \E p \in Partitions, x \in Records : Publish(p, x)
  \/ TaskFails
  \/ JobManagerFails
  \/ RegistryFails
  \/ RegistryRecovers

Next == Work \/ Environment

Spec == Init /\ [][Next]_vars

(* Flink keeps reading every partition, keeps sending and keeps restarting *)
(* the job; the registry comes back.  Nothing is assumed of the faults, of *)
(* the publication of records or of checkpoints.                           *)
Fairness ==
  /\ \A p \in ReviewPartitions : WF_vars(ProcessReview(p))
  /\ \A p \in MetadataPartitions : WF_vars(ProcessMetadata(p))
  /\ \A x \in MergedRecords : WF_vars(ProducerSend(x))
  /\ WF_vars(Submit)
  /\ WF_vars(Restart)
  /\ WF_vars(RegistryRecovers)

FairSpec == Spec /\ Fairness

-----------------------------------------------------------------------------
(* Every variable has its type; the records of a raw topic are of its kind *)
(* and no partition has been consumed past its end.                        *)
TypeOK ==
  /\ log \in [Partitions -> Seq(Records)]
  /\ \A p \in ReviewPartitions : Range(log[p]) \subseteq Reviews
  /\ \A p \in MetadataPartitions : Range(log[p]) \subseteq Metadata
  /\ committed \in Offsets
  /\ merge_topic \subseteq MergedRecords
  /\ status \in {"submitted", "running", "failed"}
  /\ offset \in Offsets
  /\ metadata_state \in MetadataStates
  /\ reviews_state \in ReviewsStates
  /\ serializer \subseteq Subtasks
  /\ pending \subseteq MergedRecords
  /\ checkpoint \in Checkpoints
  /\ registry_up \in BOOLEAN
  /\ faults \in [FaultKinds -> Nat]
  /\ attempt \in 0..MaxAttempts
  /\ origin \in Offsets
  /\ lost \subseteq Losses
  /\ \A p \in Partitions : offset[p] <= Len(log[p]) /\ checkpoint.offset[p] <= Len(log[p])

(* The keyed state ms, rs is what consuming the records in read leaves, in *)
(* whatever order the partitions were read: a key holds one of its         *)
(* metadata records once some was read, and exactly its reviews before.    *)
Replays(read, ms, rs) ==
  \A k \in Products :
    LET own  == {x \in read : ParentAsin[x] = k}
        none == own \cap Metadata = {}
    IN /\ ms[k] = NoMetadata <=> none
       /\ ms[k] \in own \cup {NoMetadata}
       /\ Range(rs[k]) = IF none THEN own \cap Reviews ELSE {}

(* Keyed state and offsets never drift apart, neither in the running job   *)
(* nor in the checkpoint it restarts from; so no review waits in           *)
(* reviews_state beside metadata of its product (process_element1 and      *)
(* process_element2, merge_streams_avro.py:201-287).                       *)
StateIsReplay ==
  /\ status = "running" => Replays(Between(origin, offset), metadata_state, reviews_state)
  /\ Replays(Between(origin, checkpoint.offset),
             checkpoint.metadata_state, checkpoint.reviews_state)

Delivered(r) == \E x \in merge_topic : x.review = r
GivenUp(r) == \E x \in lost : x.review = r

(* A review the job will not read again after a failure is buffered in the *)
(* checkpoint, in the merge topic, or given up.                            *)
SavedAccounted ==
  \A p \in ReviewPartitions : \A i \in 1..checkpoint.offset[p] :
    LET r == log[p][i] IN
    r \in Buffered(checkpoint.reviews_state) \/ Delivered(r) \/ GivenUp(r)

(* A review is given up only for a cause that really occurred: the schema  *)
(* rejects it together with a metadata record of its product, the registry *)
(* was unreachable behind serialize's bare except, or the job manager      *)
(* forgot the keyed state.                                                 *)
LossesExplained ==
  \A x \in lost :
    /\ x.cause = "schema" =>
         \E m \in Metadata \cap Published :
           ParentAsin[m] = ParentAsin[x.review] /\ ~Conforms(x.review, m)
    /\ x.cause = "outage" => faults["registry"] > 0
    /\ x.cause = "restart" => faults["job_manager"] > 0

(* No review disappears without one of the three causes, whatever fails    *)
(* and whenever (serialize, merge_streams_avro.py:56-61, and the restarts  *)
(* around it).                                                             *)
NoSilentLoss == SavedAccounted /\ LossesExplained

(* Between two starts of the job a review is handed to the sink at most    *)
(* once, whatever metadata updates follow and wherever it waited: the      *)
(* merge topic holds no more copies of it than the job was started.        *)
OncePerAttempt ==
  \A x, y \in merge_topic \cup pending :
    x.review = y.review /\ x.attempt = y.attempt /\ x.attempt < MaxAttempts => x = y

(* Restarting the job manager, which restarts at the committed offsets,    *)
(* never makes the consumer group go back.                                 *)
CommittedNeverRewinds ==
  [][\A p \in Partitions : committed[p] <= committed'[p]]_vars

(* The offsets follow one another: where the state began, what the group   *)
(* committed, what a restart returns to, what the job has consumed.        *)
OffsetsOrdered ==
  \A p \in Partitions : /\ origin[p] <= committed[p]
                        /\ committed[p] <= checkpoint.offset[p]
                        /\ checkpoint.offset[p] <= offset[p]

-----------------------------------------------------------------------------
(* README.md:76: "Flink can restart without loss or duplication in cases   *)
(* Flink jobs failed."  Without duplication: the merge topic holds no two  *)
(* records of one review.                                                  *)
RestartWithoutDuplication ==
  \A x, y \in merge_topic : x.review = y.review => x = y

(* The same sentence, without loss: a review the job will not read again   *)
(* is waiting in the checkpoint, delivered, or rejected by the schema.     *)
RestartWithoutLoss ==
  \A p \in ReviewPartitions : \A i \in 1..checkpoint.offset[p] :
    LET r == log[p][i] IN
    \/ r \in Buffered(checkpoint.reviews_state)
    \/ Delivered(r)
    \/ [review |-> r, cause |-> "schema"] \in lost

(* The pipeline's promise, with the output topic as what is delivered.     *)
Join == INSTANCE StreamJoin WITH
          arrived   <- Published,
          delivered <- {<<x.review, x.metadata>> : x \in merge_topic},
          discarded <- {x.review : x \in {y \in lost : y.cause = "schema"}}

(* While the registry answers, the job manager survives and timestamps are *)
(* readable, the job implements the at-least-once join: tasks may fail at  *)
(* any point, yet every review with metadata is delivered or rejected.     *)
AtLeastOnceJoin == Join!FairSpec
=============================================================================
