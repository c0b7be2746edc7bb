----------------------------- MODULE Lakehouse -----------------------------
(***************************************************************************)
(* Two writers of the refined Delta folder: the Spark streaming query of   *)
(* batch_processing/read_streaming_data.py, which copies the merge topic   *)
(* into the streaming folder and into the refined folder, and the batch    *)
(* job adding_uuidv7.py, which copies the historical merge folder into the *)
(* refined folder.                                                         *)
(*                                                                         *)
(* A Delta append is atomic.  Between the two appends of a micro-batch the *)
(* driver may die, the second append may fail behind its bare except, and  *)
(* the folder enforces the columns of whoever wrote to it first.           *)
(***************************************************************************)
EXTENDS Integers, Sequences, FiniteSets, Functions

CONSTANTS Merged,       \* records of the topic merge_metadata_reviews
          Undecodable,  \* those of them that process_raw raises an exception for
          Historical,   \* rows of the historical merge folder
          MaxFaults,    \* bound: faults of each kind in a behaviour
          MaxRuns       \* bound: runs of adding_uuidv7

FaultKinds == {"driver", "storage"}

ASSUME LakehouseAssumption ==
  /\ Merged \cap Historical = {}
  /\ Undecodable \subseteq Merged
  /\ MaxFaults \in [FaultKinds -> Nat]
  /\ MaxRuns \in Nat

(* The columns each writer adds to those of a merged record, and those of  *)
(* a folder nobody has written to.                                         *)
NoTable == {}
StreamingColumns == {"review_id", "time_id"}
HistoricalColumns == {"review_id", "store_id", "category_id"}

VARIABLES
  topic,        \* the merge topic, in order
  planned,      \* end of the last batch in the offset log of the query
  committed,    \* end of the last batch in its commit log
  query,        \* "idle", "first_append", "second_append", "commit", "failed"
  streaming,    \* rows of the streaming folder
  refined,      \* rows of the refined folder
  columns,      \* the columns the refined folder enforces
  appends,      \* how many appends there were: their rows get new review_ids
  runs,         \* how often adding_uuidv7 has run
  faults        \* faults[k]: how many faults of kind k have happened

checkpoint == <<planned, committed>>
folders == <<streaming, refined, columns, appends>>
vars == <<topic, checkpoint, query, folders, runs, faults>>

Rows == [record : Merged \cup Historical, review_id : Nat]

(* Mutant of Batch: the start of a batch is the last record of the one     *)
(* before.                                                                 *)
BatchFromLastRecord == {topic[i] : i \in (committed..planned) \ {0}}

(* The micro-batch process is called with. *)
Batch == {topic[i] : i \in (committed + 1)..planned}
Stuck == Batch \cap Undecodable # {}
Stored(folder) == {row.record : row \in folder}
Copies(folder, r) == Cardinality({row \in folder : row.record = r})

Fault(kind) ==
  /\ faults[kind] < MaxFaults[kind]
  /\ faults' = [faults EXCEPT ![kind] = @ + 1]

(* Delta fills missing columns with null, but refuses unknown ones. *)
Accepts(table, added) == table = NoTable \/ added \subseteq table

(* uuidv7_udf is evaluated anew by every write. *)
NewRows(records) == {[record |-> r, review_id |-> appends] : r \in records}

AppendToRefined(records, added) ==
  /\ Accepts(columns, added)
  /\ refined' = refined \cup NewRows(records)
  /\ columns' = IF columns = NoTable THEN added ELSE columns
  /\ appends' = appends + 1

-----------------------------------------------------------------------------
Init ==
  /\ topic = <<>>
  /\ planned = 0
  /\ committed = 0
  /\ query = "idle"
  /\ streaming = {}
  /\ refined = {}
  /\ columns = NoTable
  /\ appends = 0
  /\ runs = 0
  /\ faults = [kind \in FaultKinds |-> 0]

(* The Flink join writes a record to the merge topic. *)
Arrive(r) ==
  /\ r \notin Range(topic)
  /\ topic' = Append(topic, r)
  /\ UNCHANGED <<checkpoint, query, folders, runs, faults>>

-----------------------------------------------------------------------------
(* Mutant of PlanBatch: the offsets are committed when the batch is planned. *)
PlanBatchCommitting ==
  /\ query = "idle"
  /\ committed < Len(topic)
  /\ planned' = Len(topic)
  /\ committed' = Len(topic)
  /\ query' = "first_append"
  /\ UNCHANGED <<topic, folders, runs, faults>>

(* Mutant of PlanBatch: a batch needs two records. *)
PlanBatchOfTwo ==
  /\ query = "idle"
  /\ committed + 1 < Len(topic)
  /\ planned' = Len(topic)
  /\ query' = "first_append"
  /\ UNCHANGED <<topic, committed, folders, runs, faults>>

(* The trigger finds new records and writes their offsets to the offset log. *)
PlanBatch ==
  /\ query = "idle"
  /\ committed < Len(topic)
  /\ planned' = Len(topic)
  /\ query' = "first_append"
  /\ UNCHANGED <<topic, committed, folders, runs, faults>>

(* Mutant of AppendStreaming: its errors are swallowed like those of the   *)
(* second append.                                                          *)
AppendStreamingSwallowingErrors ==
  /\ query = "first_append"
  /\ query' = "second_append"
  /\ \/ /\ ~Stuck
        /\ streaming' = streaming \cup NewRows(Batch)
        /\ appends' = appends + 1
        /\ UNCHANGED faults
     \/ /\ Fault("storage") \/ (Stuck /\ UNCHANGED faults)
        /\ UNCHANGED <<streaming, appends>>
  /\ UNCHANGED <<topic, checkpoint, refined, columns, runs>>

(* Mutant of AppendStreaming: process_raw returns None where it now raises *)
(* an exception, and the filter behind it drops the record.                *)
AppendStreamingDroppingUndecodable ==
  /\ query = "first_append"
  /\ \/ /\ query' = "second_append"
        /\ streaming' = streaming \cup NewRows(Batch \ Undecodable)
        /\ appends' = appends + 1
        /\ UNCHANGED faults
     \/ /\ query' = "failed"
        /\ Fault("storage")
        /\ UNCHANGED <<streaming, appends>>
  /\ UNCHANGED <<topic, checkpoint, refined, columns, runs>>

(* process, first half: the batch is decoded and goes to the streaming     *)
(* folder; an error ends the query.  The storage may work the next time, a *)
(* record that cannot be decoded fails its batch in every replay.          *)
AppendStreaming ==
  /\ query = "first_append"
  /\ \/ /\ ~Stuck
        /\ query' = "second_append"
        /\ streaming' = streaming \cup NewRows(Batch)
        /\ appends' = appends + 1
        /\ UNCHANGED faults
     \/ /\ query' = "failed"
        /\ Fault("storage") \/ (Stuck /\ UNCHANGED faults)
        /\ UNCHANGED <<streaming, appends>>
  /\ UNCHANGED <<topic, checkpoint, refined, columns, runs>>

(* process, second half: the batch goes to the refined folder; an error is *)
(* swallowed.                                                              *)
AppendRefined ==
  /\ query = "second_append"
  /\ query' = "commit"
  /\ \/ /\ AppendToRefined(Batch, StreamingColumns)
        /\ UNCHANGED faults
     \/ /\ ~Accepts(columns, StreamingColumns)
        /\ UNCHANGED <<refined, columns, appends, faults>>
     \/ /\ Fault("storage")
        /\ UNCHANGED <<refined, columns, appends>>
  /\ UNCHANGED <<topic, checkpoint, streaming, runs>>

(* process has returned: the batch enters the commit log. *)
CommitBatch ==
  /\ query = "commit"
  /\ committed' = planned
  /\ query' = "idle"
  /\ UNCHANGED <<topic, planned, folders, runs, faults>>

DriverFails ==
  /\ query # "failed"
  /\ Fault("driver")
  /\ query' = "failed"
  /\ UNCHANGED <<topic, checkpoint, folders, runs>>

(* Mutant of RestartQuery: there is no checkpointLocation.                 *)
RestartQueryFromEarliest ==
  /\ query = "failed"
  /\ query' = "idle"
  /\ planned' = 0
  /\ committed' = 0
  /\ UNCHANGED <<topic, folders, runs, faults>>

(* Mutant of RestartQuery: the planned batch counts as processed.          *)
RestartQueryAfterBatch ==
  /\ query = "failed"
  /\ query' = IF committed < planned THEN "commit" ELSE "idle"
  /\ UNCHANGED <<topic, checkpoint, folders, runs, faults>>

(* Mutant of RestartQuery: the planned batch is forgotten.                 *)
RestartQueryReplanning ==
  /\ query = "failed"
  /\ query' = "idle"
  /\ UNCHANGED <<topic, checkpoint, folders, runs, faults>>

(* The query starts from its checkpoint and runs a batch that was planned  *)
(* and not committed once more, with the same offsets.                     *)
RestartQuery ==
  /\ query = "failed"
  /\ query' = IF committed < planned THEN "first_append" ELSE "idle"
  /\ UNCHANGED <<topic, checkpoint, folders, runs, faults>>

-----------------------------------------------------------------------------
(* A run of adding_uuidv7: all of the history is appended, or the run      *)
(* fails, over the columns or for any other reason, and nothing is.        *)
AddUuids ==
  /\ runs < MaxRuns
  /\ runs' = runs + 1
  /\ \/ AppendToRefined(Historical, HistoricalColumns)
     \/ UNCHANGED <<refined, columns, appends>>
  /\ UNCHANGED <<topic, checkpoint, query, streaming, faults>>

-----------------------------------------------------------------------------
Query == PlanBatch \/ AppendStreaming \/ AppendRefined \/ CommitBatch

Next ==
  \/ \E r \in Merged : Arrive(r)
  \/ Query
  \/ DriverFails
  \/ RestartQuery
  \/ AddUuids

Spec == Init /\ [][Next]_vars

(* A running query keeps processing.  Nobody restarts a failed one: the    *)
(* application has no restartPolicy, so RestartQuery is somebody's choice. *)
FairSpec == Spec /\ WF_vars(Query)

-----------------------------------------------------------------------------
(* Every variable has its type, and the checkpoint follows the topic.      *)
TypeOK ==
  /\ topic \in Seq(Merged)
  /\ planned \in Nat /\ committed \in Nat
  /\ query \in {"idle", "first_append", "second_append", "commit", "failed"}
  /\ streaming \subseteq Rows
  /\ refined \subseteq Rows
  /\ columns \in {NoTable, StreamingColumns, HistoricalColumns}
  /\ appends \in Nat
  /\ runs \in 0..MaxRuns
  /\ faults \in [FaultKinds -> Nat]
  /\ committed <= planned /\ planned <= Len(topic)
  /\ query = "idle" => planned = committed

(* A record of a committed batch is in the streaming folder, whenever the  *)
(* driver died (read_streaming_data.py:161-173).                           *)
StreamingComplete == \A i \in 1..committed : topic[i] \in Stored(streaming)

(* A record is stored in the streaming folder once, plus at most once for  *)
(* every time the driver failed: only a failure between the append and the *)
(* commit doubles a batch.                                                 *)
CopiesNeedFailures ==
  \A r \in Merged : Copies(streaming, r) <= 1 + faults["driver"]

(* A committed record is never appended again, neither by a later batch    *)
(* nor by a restart.                                                       *)
CommittedIsFinal ==
  [][\A i \in 1..committed :
       /\ Copies(streaming, topic[i])' = Copies(streaming, topic[i])
       /\ Copies(refined, topic[i])' = Copies(refined, topic[i])]_vars

(* The refined folder never holds more copies of a streamed record than    *)
(* the streaming folder does, although the two appends are not atomic.     *)
RefinedFollowsStreaming ==
  \A r \in Merged : Copies(refined, r) <= Copies(streaming, r)

(* A committed record misses in the refined folder only if storage failed  *)
(* behind the bare except, or the historical job had fixed the columns: no *)
(* restart skips the second append.                                        *)
RefinedGapsExplained ==
  \A i \in 1..committed :
    \/ topic[i] \in Stored(refined)
    \/ faults["storage"] > 0
    \/ columns = HistoricalColumns

(* Whenever the driver died and whatever batch it was in: unless the query *)
(* stays failed, or is stuck in a batch it cannot decode, every record of  *)
(* the merge topic reaches the streaming folder                            *)
(* (read_streaming_data.py:133-173).                                       *)
EveryRecordStored ==
  []<>(query # "failed") =>
    \A r \in Merged : r \in Range(topic) ~> r \in Stored(streaming) \/ Stuck

(* A record that cannot be decoded closes both folders to itself and to    *)
(* all that follow it in the topic: no replay, no restart and no swallowed *)
(* error leads past it (read_streaming_data.py:136-153).                   *)
NothingPastUndecodable ==
  \A i, j \in DOMAIN topic :
    topic[i] \in Undecodable /\ i <= j => topic[j] \notin Stored(streaming) \cup Stored(refined)

Copy == INSTANCE DeltaCopy
          WITH Records <- Merged, source <- topic, table <- Stored(streaming)

(* Batches, replays and failures together do what a plain copy does: at    *)
(* any time the streaming folder holds the records up to some place of the *)
(* topic, none beyond it and none missing before it                        *)
(* (read_streaming_data.py:148-177).                                       *)
StreamingCopiesTopic == Copy!Spec

(* README.md:9: the job "stores clean data in Minio alongside historical   *)
(* records": what is committed is in the folder of the historical records. *)
StoredAlongside == \A i \in 1..committed : topic[i] \in Stored(refined)
=============================================================================
