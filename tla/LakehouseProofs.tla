-------------------------- MODULE LakehouseProofs --------------------------
(***************************************************************************)
(* Theorems about the writers of the refined Delta folder, for every set   *)
(* of records and any number of failures and runs.                         *)
(***************************************************************************)
EXTENDS Lakehouse, FiniteSetTheorems, TLAPS

(* The records up to place n of the topic. *)
Prefix(n) == {topic[i] : i \in 1..n}

(* A merged record is once in the topic. *)
TopicDistinct == \A i, j \in 1..Len(topic) : topic[i] = topic[j] => i = j

(* What the position of the query says about its checkpoint and about the  *)
(* streaming folder: between the commits the folder holds everything up to *)
(* the last commit, nothing beyond the planned batch, and the whole batch  *)
(* once its first append has succeeded.                                    *)
BatchInProgress ==
  /\ query \in {"first_append", "second_append", "commit"} => committed < planned
  /\ Prefix(committed) \subseteq Stored(streaming)
  /\ Stored(streaming) \subseteq Prefix(planned)
  /\ query \in {"second_append", "commit"} => Prefix(planned) \subseteq Stored(streaming)

(* A batch has reached the commit with a gap in the refined folder only    *)
(* for one of the two reasons RefinedGapsExplained names.                  *)
CommitExplained ==
  query = "commit" =>
    \/ Batch \subseteq Stored(refined)
    \/ faults["storage"] > 0
    \/ columns = HistoricalColumns

(* A record has finitely many copies, and no append reuses the identifiers *)
(* of another one.                                                         *)
CopiesOf(folder, r) == {row \in folder : row.record = r}

CopiesFinite ==
  /\ \A r \in Merged : IsFiniteSet(CopiesOf(streaming, r)) /\ IsFiniteSet(CopiesOf(refined, r))
  /\ \A row \in streaming \cup refined : row.review_id < appends

(* The streaming folder is one copy ahead of the refined folder while the  *)
(* second append is due.                                                   *)
OneCopyAhead ==
  \A r \in Merged :
    Copies(refined, r) + (IF query = "second_append" /\ r \in Batch THEN 1 ELSE 0)
      <= Copies(streaming, r)

(* A batch that is not in the streaming folder yet is there only as often  *)
(* as the driver failed.                                                   *)
CopiesCounted ==
  /\ CopiesNeedFailures
  /\ query \in {"first_append", "failed"} =>
       \A r \in Batch : Copies(streaming, r) <= faults["driver"]

-----------------------------------------------------------------------------
(* What Append does to the topic.                                          *)
LEMMA ArriveProperties ==
  ASSUME TypeOK, NEW r \in Merged, Arrive(r)
  PROVE  /\ topic' \in Seq(Merged)
         /\ Len(topic') = Len(topic) + 1
         /\ \A i \in 1..Len(topic) : topic'[i] = topic[i]
         /\ topic'[Len(topic) + 1] = r
<1>1. topic \in Seq(Merged) /\ topic' = Append(topic, r)
  BY DEF TypeOK, Arrive
<1>. QED
  BY <1>1

(* The places of a batch are places of the topic.                          *)
LEMMA PlacesOfBatch ==
  ASSUME NEW a \in Nat, NEW b \in Nat, NEW n \in Nat, b <= n
  PROVE  \A i \in (a + 1)..b : i \in 1..n
OBVIOUS

(* The batch consists of merged records.                                   *)
LEMMA BatchMerged ==
  ASSUME TypeOK
  PROVE  Batch \subseteq Merged
<1>1. /\ topic \in Seq(Merged)
      /\ planned \in Nat /\ committed \in Nat
      /\ planned <= Len(topic)
  BY DEF TypeOK
<1>2. Len(topic) \in Nat /\ \A i \in 1..Len(topic) : topic[i] \in Merged
  BY <1>1
<1>3. \A i \in (committed + 1)..planned : i \in 1..Len(topic)
  BY <1>1, <1>2, PlacesOfBatch
<1>. QED
  BY <1>2, <1>3 DEF Batch

LEMMA NextBatchMerged ==
  ASSUME TypeOK'
  PROVE  Batch' \subseteq Merged
<1>1. /\ topic' \in Seq(Merged)
      /\ planned' \in Nat /\ committed' \in Nat
      /\ planned' <= Len(topic')
  BY DEF TypeOK
<1>2. Len(topic') \in Nat /\ \A i \in 1..Len(topic') : topic'[i] \in Merged
  BY <1>1
<1>3. \A i \in (committed' + 1)..planned' : i \in 1..Len(topic')
  BY <1>1, <1>2, PlacesOfBatch
<1>. QED
  BY <1>2, <1>3 DEF Batch

(* A row of an append has its record.                                      *)
LEMMA NewRowsType ==
  ASSUME TypeOK, NEW records \in SUBSET (Merged \cup Historical)
  PROVE  NewRows(records) \subseteq Rows
<1>1. appends \in Nat
  BY DEF TypeOK
<1>. QED
  BY <1>1 DEF NewRows, Rows

(* An append to the refined folder keeps the types.                        *)
LEMMA AppendToRefinedType ==
  ASSUME TypeOK, NEW records \in SUBSET (Merged \cup Historical),
         NEW added \in {StreamingColumns, HistoricalColumns},
         AppendToRefined(records, added)
  PROVE  /\ refined' \subseteq Rows
         /\ columns' \in {NoTable, StreamingColumns, HistoricalColumns}
         /\ appends' \in Nat
<1>1. NewRows(records) \subseteq Rows
  BY NewRowsType
<1>2. /\ refined \subseteq Rows
      /\ columns \in {NoTable, StreamingColumns, HistoricalColumns}
      /\ appends \in Nat
  BY DEF TypeOK
<1>. QED
  BY <1>1, <1>2 DEF AppendToRefined

(* Every action keeps the types, one step per action of Next.              *)
LEMMA TypeStep == TypeOK /\ [Next]_vars => TypeOK'
<1> SUFFICES ASSUME TypeOK, [Next]_vars PROVE TypeOK'
  OBVIOUS
<1> USE DEF checkpoint, folders
<1>1. ASSUME NEW r \in Merged, Arrive(r) PROVE TypeOK'
  BY <1>1, ArriveProperties DEF TypeOK, Arrive
<1>2. CASE PlanBatch
  <2>1. topic \in Seq(Merged)
    BY DEF TypeOK
  <2>2. Len(topic) \in Nat
    BY <2>1
  <2>. QED
    BY <1>2, <2>2 DEF TypeOK, PlanBatch
<1>3. CASE AppendStreaming
  <2>1. NewRows(Batch) \subseteq Rows
    BY BatchMerged, NewRowsType
  <2>. QED
    BY <1>3, <2>1 DEF TypeOK, AppendStreaming, Fault, FaultKinds
<1>4. CASE AppendRefined
  <2>1. /\ refined' \subseteq Rows
        /\ columns' \in {NoTable, StreamingColumns, HistoricalColumns}
        /\ appends' \in Nat
    <3>1. CASE AppendToRefined(Batch, StreamingColumns)
      BY <3>1, BatchMerged, AppendToRefinedType
    <3>2. CASE UNCHANGED <<refined, columns, appends>>
      BY <3>2 DEF TypeOK
    <3>. QED
      BY <1>4, <3>1, <3>2 DEF AppendRefined
  <2>2. faults' \in [FaultKinds -> Nat]
    BY <1>4 DEF TypeOK, AppendRefined, Fault, FaultKinds
  <2>. QED
    BY <1>4, <2>1, <2>2 DEF TypeOK, AppendRefined
<1>5. CASE CommitBatch
  BY <1>5 DEF TypeOK, CommitBatch
<1>6. CASE DriverFails
  BY <1>6 DEF TypeOK, DriverFails, Fault, FaultKinds
<1>7. CASE RestartQuery
  BY <1>7 DEF TypeOK, RestartQuery
<1>8. CASE AddUuids
  <2>1. /\ refined' \subseteq Rows
        /\ columns' \in {NoTable, StreamingColumns, HistoricalColumns}
        /\ appends' \in Nat
    <3>1. CASE AppendToRefined(Historical, HistoricalColumns)
      BY <3>1, AppendToRefinedType
    <3>2. CASE UNCHANGED <<refined, columns, appends>>
      BY <3>2 DEF TypeOK
    <3>. QED
      BY <1>8, <3>1, <3>2 DEF AddUuids
  <2>. QED
    BY <1>8, <2>1, LakehouseAssumption DEF TypeOK, AddUuids
<1>9. CASE UNCHANGED vars
  BY <1>9 DEF TypeOK, vars
<1>. QED
  BY <1>1, <1>2, <1>3, <1>4, <1>5, <1>6, <1>7, <1>8, <1>9 DEF Next, Query

(* Types, and the order of the commit log, the offset log and the topic,   *)
(* whatever fails in the middle of a batch.                                *)
THEOREM LakehouseTypeCorrect == Spec => []TypeOK
<1>1. Init => TypeOK
  BY LakehouseAssumption DEF Init, TypeOK, NoTable
<1>. QED
  BY <1>1, TypeStep, PTL DEF Spec

-----------------------------------------------------------------------------
(* The offsets are places of the topic.                                    *)
LEMMA OffsetsInTopic ==
  ASSUME TypeOK
  PROVE  /\ Len(topic) \in Nat /\ planned \in Nat /\ committed \in Nat
         /\ committed <= planned /\ planned <= Len(topic)
<1>1. topic \in Seq(Merged)
  BY DEF TypeOK
<1>2. Len(topic) \in Nat
  BY <1>1
<1>. QED
  BY <1>2 DEF TypeOK

(* The planned batch is what lies between the two logs.                    *)
LEMMA BatchSplitsPrefix ==
  ASSUME TypeOK
  PROVE  Prefix(planned) = Prefix(committed) \cup Batch
<1>1. 1..planned = (1..committed) \cup ((committed + 1)..planned)
  BY OffsetsInTopic
<1>. QED
  BY <1>1 DEF Prefix, Batch

(* A longer topic changes nothing up to the planned offset.                *)
LEMMA ArriveBehindBatch ==
  ASSUME TypeOK, NEW r \in Merged, Arrive(r)
  PROVE  /\ Prefix(planned)' = Prefix(planned)
         /\ Prefix(committed)' = Prefix(committed)
         /\ Batch' = Batch
<1>1. planned' = planned /\ committed' = committed
  BY DEF Arrive, checkpoint
<1>2. \A i \in 1..planned : topic'[i] = topic[i]
  BY ArriveProperties, OffsetsInTopic
<1>3. /\ \A i \in 1..committed : i \in 1..planned
      /\ \A i \in (committed + 1)..planned : i \in 1..planned
  BY OffsetsInTopic
<1>. QED
  BY <1>1, <1>2, <1>3 DEF Prefix, Batch

(* An append adds its records to those a folder stores.                    *)
LEMMA StoredAppend ==
  ASSUME NEW folder, NEW records
  PROVE  Stored(folder \cup NewRows(records)) = Stored(folder) \cup records
<1>1. \A row \in NewRows(records) : row.record \in records
  BY DEF NewRows
<1>2. \A r \in records : \E row \in NewRows(records) : row.record = r
  <2>. TAKE r \in records
  <2>. DEFINE row == [record |-> r, review_id |-> appends]
  <2>1. row \in NewRows(records)
    BY DEF NewRows
  <2>2. row.record = r
    OBVIOUS
  <2>. QED
    BY <2>1, <2>2
<1>. QED
  BY <1>1, <1>2 DEF Stored

(* The position of the query and the streaming folder stay together, also  *)
(* when a batch is replayed.                                               *)
LEMMA BatchStep == TypeOK /\ BatchInProgress /\ [Next]_vars => BatchInProgress'
<1> SUFFICES ASSUME TypeOK, BatchInProgress, [Next]_vars PROVE BatchInProgress'
  OBVIOUS
<1> USE DEF checkpoint, folders
<1>1. ASSUME NEW r \in Merged, Arrive(r) PROVE BatchInProgress'
  <2>1. /\ query' = query /\ committed' = committed /\ planned' = planned
        /\ Stored(streaming)' = Stored(streaming)
    BY <1>1 DEF Arrive, Stored
  <2>. QED
    BY <1>1, <2>1, ArriveBehindBatch DEF BatchInProgress
<1>2. CASE PlanBatch
  <2>1. Prefix(committed)' = Prefix(committed) /\ Stored(streaming)' = Stored(streaming)
    BY <1>2 DEF PlanBatch, Prefix, Stored
  <2>2. 1..planned \subseteq 1..Len(topic)
    BY OffsetsInTopic
  <2>3. Prefix(planned) \subseteq Prefix(planned)'
    BY <1>2, <2>2 DEF PlanBatch, Prefix
  <2>. QED
    BY <1>2, <2>1, <2>3 DEF PlanBatch, BatchInProgress
<1>3. CASE AppendStreaming
  <2>1. /\ Prefix(committed)' = Prefix(committed) /\ Prefix(planned)' = Prefix(planned)
        /\ committed' = committed /\ planned' = planned /\ query = "first_append"
    BY <1>3 DEF AppendStreaming, Prefix
  <2>2. CASE query' = "second_append" /\ streaming' = streaming \cup NewRows(Batch)
    <3>1. Stored(streaming)' = Stored(streaming) \cup Batch
      BY <2>2, StoredAppend DEF Stored
    <3>. QED
      BY <2>1, <2>2, <3>1, BatchSplitsPrefix DEF BatchInProgress
  <2>3. CASE query' = "failed" /\ streaming' = streaming
    <3>1. Stored(streaming)' = Stored(streaming)
      BY <2>3 DEF Stored
    <3>. QED
      BY <2>1, <2>3, <3>1 DEF BatchInProgress
  <2>. QED
    BY <1>3, <2>2, <2>3 DEF AppendStreaming
<1>4. CASE AppendRefined
  <2>1. /\ Prefix(committed)' = Prefix(committed) /\ Prefix(planned)' = Prefix(planned)
        /\ Stored(streaming)' = Stored(streaming)
        /\ committed' = committed /\ planned' = planned
        /\ query = "second_append" /\ query' = "commit"
    BY <1>4 DEF AppendRefined, Prefix, Stored
  <2>. QED
    BY <2>1 DEF BatchInProgress
<1>5. CASE CommitBatch
  <2>1. /\ Prefix(committed)' = Prefix(planned) /\ Prefix(planned)' = Prefix(planned)
        /\ Stored(streaming)' = Stored(streaming)
        /\ query = "commit" /\ query' = "idle"
    BY <1>5 DEF CommitBatch, Prefix, Stored
  <2>. QED
    BY <2>1 DEF BatchInProgress
<1>6. CASE DriverFails
  BY <1>6 DEF DriverFails, BatchInProgress, Prefix, Stored
<1>7. CASE RestartQuery
  BY <1>7 DEF RestartQuery, BatchInProgress, Prefix, Stored
<1>8. CASE AddUuids
  BY <1>8 DEF AddUuids, BatchInProgress, Prefix, Stored
<1>9. CASE UNCHANGED vars
  BY <1>9 DEF vars, BatchInProgress, Prefix, Stored
<1>. QED
  BY <1>1, <1>2, <1>3, <1>4, <1>5, <1>6, <1>7, <1>8, <1>9 DEF Next, Query

LEMMA BatchAlways == Spec => []BatchInProgress
<1>1. Init => BatchInProgress
  BY DEF Init, BatchInProgress, Prefix, Stored
<1>. QED
  BY <1>1, BatchStep, LakehouseTypeCorrect, PTL DEF Spec

(* Whatever fails, and whenever, a record of a committed batch is in the   *)
(* streaming folder.                                                       *)
THEOREM CommittedIsStored == Spec => []StreamingComplete
<1>1. BatchInProgress => StreamingComplete
  BY DEF BatchInProgress, StreamingComplete, Prefix
<1>. QED
  BY <1>1, BatchAlways, PTL

(* The streaming query implements a plain copy: its streaming folder grows *)
(* by whole stretches of the topic, in order and without a gap, and        *)
(* batches, replays and failures cannot be seen in it.                     *)
THEOREM LakehouseImplementsCopy == Spec => StreamingCopiesTopic
<1>1. Init => Copy!Init
  BY DEF Init, Copy!Init, Stored
<1>2. TypeOK /\ BatchInProgress /\ [Next]_vars => [Copy!Next]_<<topic, Stored(streaming)>>
  <2> SUFFICES ASSUME TypeOK, BatchInProgress, [Next]_vars
               PROVE  [Copy!Next]_<<topic, Stored(streaming)>>
    OBVIOUS
  <2> USE DEF checkpoint, folders
  <2>1. ASSUME NEW r \in Merged, Arrive(r) PROVE Copy!Next
    BY <2>1 DEF Arrive, Copy!Next, Copy!Arrive, Stored
  <2>2. CASE AppendStreaming
    <3>1. CASE streaming' = streaming
      BY <2>2, <3>1 DEF AppendStreaming, Stored
    <3>2. CASE streaming' = streaming \cup NewRows(Batch)
      <4>1. Stored(streaming)' = Stored(streaming) \cup Batch
        BY <3>2, StoredAppend DEF Stored
      <4>2. Stored(streaming)' = Prefix(planned) /\ Stored(streaming) \subseteq Prefix(planned)
        BY <4>1, BatchSplitsPrefix DEF BatchInProgress
      <4>3. planned \in 1..Len(topic)
        BY <2>2, OffsetsInTopic DEF AppendStreaming, BatchInProgress
      <4>4. topic' = topic
        BY <2>2 DEF AppendStreaming
      <4>5. Copy!Copy(planned)
        BY <4>2, <4>4 DEF Copy!Copy, Copy!Prefix, Prefix
      <4>. QED
        BY <4>3, <4>5 DEF Copy!Next
    <3>. QED
      BY <2>2, <3>1, <3>2 DEF AppendStreaming
  <2>3. CASE topic' = topic /\ streaming' = streaming
    BY <2>3 DEF Stored
  <2>. QED
    BY <2>1, <2>2, <2>3
       DEF Next, Query, PlanBatch, AppendRefined, CommitBatch, DriverFails, RestartQuery,
           AddUuids, vars
<1>. QED
  BY <1>1, <1>2, LakehouseTypeCorrect, BatchAlways, PTL
     DEF Spec, StreamingCopiesTopic, Copy!Spec

-----------------------------------------------------------------------------
(* No record arrives twice.                                                *)
LEMMA DistinctStep == TypeOK /\ TopicDistinct /\ [Next]_vars => TopicDistinct'
<1> SUFFICES ASSUME TypeOK, TopicDistinct, [Next]_vars PROVE TopicDistinct'
  OBVIOUS
<1>1. ASSUME NEW r \in Merged, Arrive(r) PROVE TopicDistinct'
  <2>1. topic \in Seq(Merged) /\ r \notin Range(topic)
    BY <1>1 DEF TypeOK, Arrive
  <2>2. \A i \in 1..Len(topic) : topic[i] # r
    BY <2>1 DEF Range
  <2>3. Len(topic) \in Nat
    BY <2>1
  <2>4. 1..Len(topic') = 1..Len(topic) \cup {Len(topic) + 1}
    BY <1>1, <2>3, ArriveProperties
  <2>. QED
    BY <1>1, <2>2, <2>4, ArriveProperties DEF TopicDistinct
<1>2. CASE topic' = topic
  BY <1>2 DEF TopicDistinct
<1>. QED
  BY <1>1, <1>2
     DEF Next, Query, PlanBatch, AppendStreaming, AppendRefined, CommitBatch, DriverFails,
         RestartQuery, AddUuids, vars

LEMMA DistinctAlways == Spec => []TopicDistinct
<1>1. Init => TopicDistinct
  BY DEF Init, TopicDistinct
<1>. QED
  BY <1>1, DistinctStep, LakehouseTypeCorrect, PTL DEF Spec

(* An append leaves the copies of other records alone.                     *)
LEMMA OtherCopies ==
  ASSUME NEW folder, NEW records, NEW r, r \notin records
  PROVE  CopiesOf(folder \cup NewRows(records), r) = CopiesOf(folder, r)
<1>1. \A row \in NewRows(records) : row.record \in records
  BY DEF NewRows
<1>. QED
  BY <1>1 DEF CopiesOf

(* What a step does to the two folders: it appends the batch to one of     *)
(* them, or the history to the refined one, or it leaves them alone.       *)
LEMMA FolderSteps ==
  ASSUME [Next]_vars
  PROVE  \/ streaming' = streaming /\ refined' = refined /\ appends' = appends
         \/ /\ appends' = appends + 1
            /\ \/ streaming' = streaming \cup NewRows(Batch) /\ refined' = refined
               \/ streaming' = streaming /\ refined' = refined \cup NewRows(Batch)
               \/ streaming' = streaming /\ refined' = refined \cup NewRows(Historical)
<1> USE DEF folders
<1>1. CASE AppendStreaming
  BY <1>1 DEF AppendStreaming
<1>2. CASE AppendRefined
  BY <1>2 DEF AppendRefined, AppendToRefined
<1>3. CASE AddUuids
  BY <1>3 DEF AddUuids, AppendToRefined
<1>4. ASSUME NEW r \in Merged, Arrive(r)
      PROVE  streaming' = streaming /\ refined' = refined /\ appends' = appends
  BY <1>4 DEF Arrive
<1>5. CASE PlanBatch \/ CommitBatch \/ DriverFails \/ RestartQuery \/ UNCHANGED vars
  BY <1>5 DEF PlanBatch, CommitBatch, DriverFails, RestartQuery, vars
<1>. QED
  BY <1>1, <1>2, <1>3, <1>4, <1>5 DEF Next, Query

(* Neither a later batch nor a replay nor a run of the historical job      *)
(* appends a record again whose batch was committed.                       *)
THEOREM CommittedNeverAppendedAgain == Spec => CommittedIsFinal
<1>1. TypeOK /\ TopicDistinct /\ [Next]_vars =>
        [\A i \in 1..committed :
           /\ Copies(streaming, topic[i])' = Copies(streaming, topic[i])
           /\ Copies(refined, topic[i])' = Copies(refined, topic[i])]_vars
  <2> SUFFICES ASSUME TypeOK, TopicDistinct, [Next]_vars, NEW i \in 1..committed
               PROVE  /\ Copies(streaming, topic[i])' = Copies(streaming, topic[i])
                      /\ Copies(refined, topic[i])' = Copies(refined, topic[i])
    OBVIOUS
  <2>1. i \in 1..Len(topic)
    BY OffsetsInTopic
  <2>2. topic[i] \in Merged
    BY <2>1 DEF TypeOK
  <2>3. topic[i] \notin Historical
    BY <2>2, LakehouseAssumption
  <2>4. topic[i] \notin Batch
    <3>1. \A j \in (committed + 1)..planned : j \in 1..Len(topic) /\ j # i
      BY OffsetsInTopic
    <3>. QED
      BY <2>1, <3>1 DEF Batch, TopicDistinct
  <2>5. topic'[i] = topic[i]
    <3>1. ASSUME NEW r \in Merged, Arrive(r) PROVE topic'[i] = topic[i]
      BY <2>1, <3>1, ArriveProperties
    <3>2. CASE topic' = topic
      BY <3>2
    <3>. QED
      BY <3>1, <3>2
         DEF Next, Query, PlanBatch, AppendStreaming, AppendRefined, CommitBatch,
             DriverFails, RestartQuery, AddUuids, vars
  <2>6. /\ CopiesOf(streaming', topic[i]) = CopiesOf(streaming, topic[i])
        /\ CopiesOf(refined', topic[i]) = CopiesOf(refined, topic[i])
    BY <2>3, <2>4, FolderSteps, OtherCopies
  <2>. QED
    BY <2>5, <2>6 DEF Copies, CopiesOf
<1>. QED
  BY <1>1, LakehouseTypeCorrect, DistinctAlways, PTL DEF Spec, CommittedIsFinal

-----------------------------------------------------------------------------
(* A folder only grows, and a fault is never forgotten; once the           *)
(* historical job has fixed the columns they stay.                         *)
LEMMA CausesStay ==
  ASSUME TypeOK, [Next]_vars
  PROVE  /\ Stored(refined) \subseteq Stored(refined)'
         /\ faults["storage"] > 0 => faults'["storage"] > 0
         /\ columns = HistoricalColumns => columns' = HistoricalColumns
<1>1. Stored(refined) \subseteq Stored(refined)'
  BY FolderSteps DEF Stored
<1>2. faults \in [FaultKinds -> Nat]
  BY DEF TypeOK
<1>3. faults' = faults \/ \E kind \in FaultKinds : faults' = [faults EXCEPT ![kind] = @ + 1]
  BY DEF Next, Query, Arrive, PlanBatch, AppendStreaming, AppendRefined, CommitBatch,
         DriverFails, RestartQuery, AddUuids, Fault, FaultKinds, vars
<1>4. faults["storage"] > 0 => faults'["storage"] > 0
  BY <1>2, <1>3 DEF FaultKinds
<1>5. HistoricalColumns # NoTable
  BY DEF HistoricalColumns, NoTable
<1>6. columns = HistoricalColumns => columns' = HistoricalColumns
  BY <1>5 DEF Next, Query, Arrive, PlanBatch, AppendStreaming, AppendRefined, CommitBatch,
              DriverFails, RestartQuery, AddUuids, AppendToRefined, folders, vars
<1>. QED
  BY <1>1, <1>4, <1>6

(* The second append is skipped for no other reason than the two.          *)
LEMMA GapStep ==
  TypeOK /\ RefinedGapsExplained /\ CommitExplained /\ [Next]_vars
    => RefinedGapsExplained' /\ CommitExplained'
<1> SUFFICES ASSUME TypeOK, RefinedGapsExplained, CommitExplained, [Next]_vars
             PROVE  RefinedGapsExplained' /\ CommitExplained'
  OBVIOUS
<1> USE DEF checkpoint, folders
<1>1. CASE CommitBatch
  <2>1. /\ query' = "idle" /\ query = "commit" /\ committed' = planned /\ topic' = topic
    BY <1>1 DEF CommitBatch
  <2>2. \A i \in 1..planned : topic[i] \in Batch \/ i \in 1..committed
    <3>1. \A i \in 1..planned : i \in 1..committed \/ i \in (committed + 1)..planned
      BY OffsetsInTopic
    <3>. QED
      BY <3>1 DEF Batch
  <2>3. \A i \in 1..planned : \/ topic[i] \in Stored(refined)
                             \/ faults["storage"] > 0
                             \/ columns = HistoricalColumns
    BY <2>1, <2>2 DEF RefinedGapsExplained, CommitExplained
  <2>4. RefinedGapsExplained'
    BY <2>1, <2>3, CausesStay DEF RefinedGapsExplained
  <2>5. CommitExplained'
    BY <2>1 DEF CommitExplained
  <2>. QED
    BY <2>4, <2>5
<1>2. ASSUME committed' = committed, \A i \in 1..committed : topic'[i] = topic[i]
      PROVE  RefinedGapsExplained'
  BY <1>2, CausesStay DEF RefinedGapsExplained
<1>3. ASSUME query' = "commit" => query = "commit" /\ Batch' = Batch
      PROVE  CommitExplained'
  BY <1>3, CausesStay DEF CommitExplained
<1>4. ASSUME NEW r \in Merged, Arrive(r) PROVE RefinedGapsExplained' /\ CommitExplained'
  <2>1. \A i \in 1..committed : topic'[i] = topic[i]
    BY <1>4, ArriveProperties, OffsetsInTopic
  <2>2. Batch' = Batch
    BY <1>4, ArriveBehindBatch
  <2>. QED
    BY <1>2, <1>3, <1>4, <2>1, <2>2 DEF Arrive
<1>5. CASE AppendRefined
  <2>1. /\ committed' = committed /\ planned' = planned /\ topic' = topic
        /\ Batch' = Batch
    BY <1>5 DEF AppendRefined, Batch
  <2>2. CASE AppendToRefined(Batch, StreamingColumns)
    <3>1. refined' = refined \cup NewRows(Batch)
      BY <2>2 DEF AppendToRefined
    <3>2. Batch \subseteq Stored(refined)'
      BY <3>1, StoredAppend DEF Stored
    <3>. QED
      BY <1>2, <2>1, <3>2 DEF CommitExplained
  <2>3. CASE ~Accepts(columns, StreamingColumns) /\ columns' = columns
    <3>1. columns = HistoricalColumns
      BY <2>3 DEF TypeOK, Accepts
    <3>. QED
      BY <1>2, <2>1, <2>3, <3>1 DEF CommitExplained
  <2>4. CASE Fault("storage")
    <3>1. faults'["storage"] > 0
      BY <2>4 DEF Fault, TypeOK, FaultKinds
    <3>. QED
      BY <1>2, <2>1, <3>1 DEF CommitExplained
  <2>. QED
    BY <1>5, <2>2, <2>3, <2>4 DEF AppendRefined
<1>6. CASE PlanBatch \/ AppendStreaming \/ DriverFails \/ RestartQuery
  <2>1. query' # "commit" /\ committed' = committed /\ topic' = topic
    BY <1>6 DEF PlanBatch, AppendStreaming, DriverFails, RestartQuery
  <2>. QED
    BY <1>2, <1>3, <2>1
<1>7. CASE AddUuids \/ UNCHANGED vars
  <2>1. query' = query /\ committed' = committed /\ planned' = planned /\ topic' = topic
    BY <1>7 DEF AddUuids, vars
  <2>. QED
    BY <1>2, <1>3, <2>1 DEF Batch
<1>. QED
  BY <1>1, <1>4, <1>5, <1>6, <1>7 DEF Next, Query

(* A committed record misses in the refined folder only behind a storage   *)
(* failure, or behind the columns of the historical job: no crash and no   *)
(* restart skips the second append of a batch.                             *)
THEOREM GapsHaveCauses == Spec => []RefinedGapsExplained
<1>1. Init => RefinedGapsExplained /\ CommitExplained
  BY DEF Init, RefinedGapsExplained, CommitExplained
<1>. QED
  BY <1>1, GapStep, LakehouseTypeCorrect, PTL DEF Spec

-----------------------------------------------------------------------------
(* An append adds one copy of each of its records, since its rows are new. *)
LEMMA OneMoreCopy ==
  ASSUME TypeOK, CopiesFinite, NEW folder \in {streaming, refined}, NEW records,
         NEW r \in Merged
  PROVE  /\ Copies(folder, r) \in Nat
         /\ IsFiniteSet(CopiesOf(folder \cup NewRows(records), r))
         /\ Copies(folder \cup NewRows(records), r) =
              Copies(folder, r) + (IF r \in records THEN 1 ELSE 0)
<1>1. IsFiniteSet(CopiesOf(folder, r))
  BY DEF CopiesFinite
<1>2. Cardinality(CopiesOf(folder, r)) \in Nat
  BY <1>1, FS_CardinalityType
<1>3. /\ Copies(folder, r) = Cardinality(CopiesOf(folder, r))
      /\ Copies(folder \cup NewRows(records), r) =
           Cardinality(CopiesOf(folder \cup NewRows(records), r))
  BY DEF Copies, CopiesOf
<1>4. CASE r \notin records
  BY <1>1, <1>2, <1>3, <1>4, OtherCopies
<1>5. CASE r \in records
  <2>. DEFINE row == [record |-> r, review_id |-> appends]
  <2>1. appends \in Nat /\ row.review_id = appends /\ row.record = r
    BY DEF TypeOK
  <2>2. row \notin CopiesOf(folder, r)
    <3>1. \A x \in CopiesOf(folder, r) : x.review_id < appends
      BY DEF CopiesFinite, CopiesOf
    <3>2. ~(appends < appends)
      BY <2>1
    <3>. QED
      BY <2>1, <3>1, <3>2
  <2>3. CopiesOf(folder \cup NewRows(records), r) = CopiesOf(folder, r) \cup {row}
    <3>1. row \in NewRows(records)
      BY <1>5 DEF NewRows
    <3>2. \A x \in NewRows(records) : x.record = r => x = row
      BY DEF NewRows
    <3>. QED
      BY <2>1, <3>1, <3>2 DEF CopiesOf
  <2>. HIDE DEF row
  <2>4. /\ IsFiniteSet(CopiesOf(folder, r) \cup {row})
        /\ Cardinality(CopiesOf(folder, r) \cup {row}) = Cardinality(CopiesOf(folder, r)) + 1
    BY <1>1, <2>2, FS_AddElement
  <2>. QED
    BY <1>2, <1>3, <1>5, <2>3, <2>4
<1>. QED
  BY <1>4, <1>5

LEMMA FiniteStep == TypeOK /\ CopiesFinite /\ [Next]_vars => CopiesFinite'
<1> SUFFICES ASSUME TypeOK, CopiesFinite, [Next]_vars PROVE CopiesFinite'
  OBVIOUS
<1>1. \A r \in Merged : IsFiniteSet(CopiesOf(streaming', r)) /\ IsFiniteSet(CopiesOf(refined', r))
  <2>. TAKE r \in Merged
  <2>1. IsFiniteSet(CopiesOf(streaming, r)) /\ IsFiniteSet(CopiesOf(refined, r))
    BY DEF CopiesFinite
  <2>. QED
    BY <2>1, FolderSteps, OneMoreCopy
<1>2. \A row \in streaming' \cup refined' : row.review_id < appends'
  <2>1. appends \in Nat /\ \A row \in streaming \cup refined : row.review_id \in Nat
    BY DEF TypeOK, Rows
  <2>2. \A records : \A row \in NewRows(records) : row.review_id = appends
    BY DEF NewRows
  <2>. QED
    BY <2>1, <2>2, FolderSteps DEF CopiesFinite
<1>. QED
  BY <1>1, <1>2 DEF CopiesFinite, CopiesOf

LEMMA FiniteAlways == Spec => []CopiesFinite
<1>1. Init => CopiesFinite
  <2> SUFFICES ASSUME Init PROVE CopiesFinite
    OBVIOUS
  <2>1. streaming = {} /\ refined = {}
    BY DEF Init
  <2>2. \A r \in Merged : CopiesOf(streaming, r) = {} /\ CopiesOf(refined, r) = {}
    BY <2>1 DEF CopiesOf
  <2>. QED
    BY <2>1, <2>2, FS_EmptySet DEF CopiesFinite
<1>. QED
  BY <1>1, FiniteStep, LakehouseTypeCorrect, PTL DEF Spec

(* The streaming folder gets its copy of a batch before the refined folder *)
(* does, in every attempt.                                                 *)
LEMMA AheadStep == TypeOK /\ CopiesFinite /\ OneCopyAhead /\ [Next]_vars => OneCopyAhead'
<1> SUFFICES ASSUME TypeOK, CopiesFinite, OneCopyAhead, [Next]_vars, NEW r \in Merged
             PROVE  (Copies(refined, r) + (IF query = "second_append" /\ r \in Batch THEN 1 ELSE 0)
                       <= Copies(streaming, r))'
  BY DEF OneCopyAhead
<1> USE DEF folders, checkpoint
<1> DEFINE due == IF query = "second_append" /\ r \in Batch THEN 1 ELSE 0
<1>1. /\ Copies(streaming, r) \in Nat /\ Copies(refined, r) \in Nat
      /\ Copies(refined, r) + due <= Copies(streaming, r)
  BY OneMoreCopy DEF OneCopyAhead
<1>2. ASSUME streaming' = streaming, refined' = refined,
             query' = "second_append" => query = "second_append" /\ Batch' = Batch
      PROVE  (Copies(refined, r) + due <= Copies(streaming, r))'
  <2>1. Copies(refined, r)' = Copies(refined, r) /\ Copies(streaming, r)' = Copies(streaming, r)
    BY <1>2 DEF Copies
  <2>. QED
    BY <1>1, <1>2, <2>1
<1>3. ASSUME NEW x \in Merged, Arrive(x) PROVE (Copies(refined, r) + due <= Copies(streaming, r))'
  BY <1>2, <1>3, ArriveBehindBatch DEF Arrive
<1>4. CASE AppendStreaming
  <2>1. query = "first_append" /\ refined' = refined /\ Batch' = Batch
    BY <1>4 DEF AppendStreaming, Batch
  <2>2. CASE streaming' = streaming /\ query' = "failed"
    BY <1>2, <2>1, <2>2
  <2>3. CASE streaming' = streaming \cup NewRows(Batch) /\ query' = "second_append"
    <3>1. Copies(refined, r)' = Copies(refined, r)
      BY <2>1 DEF Copies
    <3>2. Copies(streaming, r)' = Copies(streaming, r) + (IF r \in Batch THEN 1 ELSE 0)
      <4>1. Copies(streaming, r)' = Copies(streaming \cup NewRows(Batch), r)
        BY <2>3 DEF Copies
      <4>. QED
        BY <4>1, OneMoreCopy
    <3>. QED
      BY <1>1, <2>1, <2>3, <3>1, <3>2
  <2>. QED
    BY <1>4, <2>2, <2>3 DEF AppendStreaming
<1>5. CASE AppendRefined
  <2>1. query = "second_append" /\ query' = "commit" /\ streaming' = streaming
    BY <1>5 DEF AppendRefined
  <2>2. CASE refined' = refined
    BY <1>2, <2>1, <2>2
  <2>3. CASE refined' = refined \cup NewRows(Batch)
    <3>1. Copies(streaming, r)' = Copies(streaming, r)
      BY <2>1 DEF Copies
    <3>2. Copies(refined, r)' = Copies(refined, r) + (IF r \in Batch THEN 1 ELSE 0)
      <4>1. Copies(refined, r)' = Copies(refined \cup NewRows(Batch), r)
        BY <2>3 DEF Copies
      <4>. QED
        BY <4>1, OneMoreCopy
    <3>3. due = (IF r \in Batch THEN 1 ELSE 0) /\ due' = 0
      BY <2>1
    <3>. HIDE DEF due
    <3>4. Copies(refined, r)' + due' <= Copies(streaming, r)'
      BY <1>1, <3>1, <3>2, <3>3
    <3>. QED
      BY <3>4 DEF due
  <2>. QED
    BY <1>5, <2>2, <2>3 DEF AppendRefined, AppendToRefined
<1>6. CASE AddUuids
  <2>1. /\ query' = query /\ streaming' = streaming /\ Batch' = Batch
    BY <1>6 DEF AddUuids, Batch
  <2>2. CASE refined' = refined
    BY <1>2, <2>1, <2>2
  <2>3. CASE refined' = refined \cup NewRows(Historical)
    <3>1. r \notin Historical
      BY LakehouseAssumption
    <3>2. Copies(refined, r)' = Copies(refined, r)
      <4>1. Copies(refined, r)' = Copies(refined \cup NewRows(Historical), r)
        BY <2>3 DEF Copies
      <4>. QED
        BY <1>1, <3>1, <4>1, OneMoreCopy
    <3>3. Copies(streaming, r)' = Copies(streaming, r)
      BY <2>1 DEF Copies
    <3>. QED
      BY <1>1, <2>1, <3>2, <3>3
  <2>. QED
    BY <1>6, <2>2, <2>3 DEF AddUuids, AppendToRefined
<1>7. CASE PlanBatch \/ CommitBatch \/ DriverFails \/ RestartQuery
  <2>1. query' # "second_append" /\ streaming' = streaming /\ refined' = refined
    BY <1>7 DEF PlanBatch, CommitBatch, DriverFails, RestartQuery
  <2>. QED
    BY <1>2, <2>1
<1>8. CASE UNCHANGED vars
  BY <1>2, <1>8 DEF vars, Batch
<1>. QED
  BY <1>3, <1>4, <1>5, <1>6, <1>7, <1>8 DEF Next, Query

(* At no moment has the refined folder more copies of a streamed record    *)
(* than the streaming folder, although the two appends are separate and    *)
(* either of them may fail.                                                *)
THEOREM RefinedNeverAhead == Spec => []RefinedFollowsStreaming
<1>1. Init => OneCopyAhead
  <2> SUFFICES ASSUME Init, NEW r \in Merged
               PROVE  Copies(refined, r) + (IF query = "second_append" /\ r \in Batch THEN 1 ELSE 0)
                        <= Copies(streaming, r)
    BY DEF OneCopyAhead
  <2>1. streaming = {} /\ refined = {} /\ query = "idle"
    BY DEF Init
  <2>2. Copies(streaming, r) = 0 /\ Copies(refined, r) = 0
    BY <2>1, FS_EmptySet DEF Copies
  <2>. QED
    BY <2>1, <2>2
<1>2. TypeOK /\ CopiesFinite /\ OneCopyAhead => RefinedFollowsStreaming
  <2> SUFFICES ASSUME TypeOK, CopiesFinite, OneCopyAhead, NEW r \in Merged
               PROVE  Copies(refined, r) <= Copies(streaming, r)
    BY DEF RefinedFollowsStreaming
  <2>1. Copies(streaming, r) \in Nat /\ Copies(refined, r) \in Nat
    BY OneMoreCopy
  <2>. QED
    BY <2>1 DEF OneCopyAhead
<1>. QED
  BY <1>1, <1>2, AheadStep, LakehouseTypeCorrect, FiniteAlways, PTL DEF Spec

-----------------------------------------------------------------------------
(* A batch is appended again only after the driver has failed behind its   *)
(* first append.                                                           *)
LEMMA CountedStep ==
  TypeOK /\ BatchInProgress /\ TopicDistinct /\ CopiesFinite /\ CopiesCounted /\ [Next]_vars
    => CopiesCounted'
<1> SUFFICES ASSUME TypeOK, BatchInProgress, TopicDistinct, CopiesFinite, CopiesCounted,
                    [Next]_vars
             PROVE  CopiesCounted'
  OBVIOUS
<1> USE DEF folders, checkpoint
<1> DEFINE driver == faults["driver"]
           due == query \in {"first_append", "failed"}
<1>1. driver \in Nat /\ driver' \in Nat /\ driver <= driver'
  <2>1. faults \in [FaultKinds -> Nat]
    BY DEF TypeOK
  <2>2. faults' = faults \/ \E kind \in FaultKinds : faults' = [faults EXCEPT ![kind] = @ + 1]
    BY DEF Next, Query, Arrive, PlanBatch, AppendStreaming, AppendRefined, CommitBatch,
           DriverFails, RestartQuery, AddUuids, Fault, FaultKinds, vars
  <2>. QED
    BY <2>1, <2>2 DEF FaultKinds
<1>2. \A r \in Merged : /\ Copies(streaming, r) \in Nat
                        /\ Copies(streaming, r) <= 1 + driver
                        /\ due /\ r \in Batch => Copies(streaming, r) <= driver
  BY OneMoreCopy DEF CopiesCounted, CopiesNeedFailures
<1>3. SUFFICES \A r \in Merged :
                 /\ Copies(streaming', r) <= 1 + driver'
                 /\ due' /\ r \in Batch' => Copies(streaming', r) <= driver'
  <2>1. Batch' \subseteq Merged
    <3>1. TypeOK'
      BY TypeStep
    <3>. QED
      BY <3>1, NextBatchMerged
  <2>. QED
    BY <2>1 DEF CopiesCounted, CopiesNeedFailures, Copies
<1>. HIDE DEF driver
<1>4. ASSUME streaming' = streaming, due' => due /\ Batch' = Batch
      PROVE  \A r \in Merged :
               /\ Copies(streaming', r) <= 1 + driver'
               /\ due' /\ r \in Batch' => Copies(streaming', r) <= driver'
  <2>. HIDE DEF due
  <2>. TAKE r \in Merged
  <2>1. Copies(streaming', r) = Copies(streaming, r)
    BY <1>4
  <2>. QED
    BY <1>1, <1>2, <1>4, <2>1
<1>5. ASSUME NEW x \in Merged, Arrive(x) PROVE streaming' = streaming /\ (due' => due /\ Batch' = Batch)
  BY <1>5, ArriveBehindBatch DEF Arrive
<1>6. CASE PlanBatch
  <2>1. /\ query = "idle" /\ planned' = Len(topic) /\ committed' = committed
        /\ topic' = topic /\ streaming' = streaming
    BY <1>6 DEF PlanBatch
  <2>2. planned = committed
    BY <2>1 DEF TypeOK
  <2>3. Batch' \cap Prefix(planned) = {}
    <3>1. /\ \A i \in 1..planned : i \in 1..Len(topic)
          /\ \A j \in (committed + 1)..Len(topic) : j \in 1..Len(topic) /\ j \notin 1..planned
      BY <2>2, OffsetsInTopic
    <3>2. Batch' = {topic[j] : j \in (committed + 1)..Len(topic)}
      BY <2>1 DEF Batch
    <3>. QED
      BY <3>1, <3>2 DEF Prefix, TopicDistinct
  <2>4. \A r \in Batch' : Copies(streaming, r) = 0
    <3>. TAKE r \in Batch'
    <3>1. r \notin Stored(streaming)
      BY <2>3 DEF BatchInProgress
    <3>2. {row \in streaming : row.record = r} = {}
      BY <3>1 DEF Stored
    <3>. QED
      BY <3>2, FS_EmptySet DEF Copies
  <2>. HIDE DEF due
  <2>. QED
    BY <1>1, <1>2, <2>1, <2>4
<1>7. CASE AppendStreaming
  <2>1. query = "first_append" /\ Batch' = Batch
    BY <1>7 DEF AppendStreaming, Batch
  <2>2. CASE streaming' = streaming
    BY <1>4, <2>1, <2>2
  <2>3. CASE streaming' = streaming \cup NewRows(Batch) /\ query' = "second_append"
    <3>. TAKE r \in Merged
    <3>1. Copies(streaming', r) = Copies(streaming, r) + (IF r \in Batch THEN 1 ELSE 0)
      BY <2>3, OneMoreCopy
    <3>2. due /\ ~due'
      BY <2>1, <2>3
    <3>. HIDE DEF due
    <3>. QED
      BY <1>1, <1>2, <3>1, <3>2
  <2>. QED
    BY <1>7, <2>2, <2>3 DEF AppendStreaming
<1>8. CASE DriverFails
  <2>1. streaming' = streaming /\ driver' = driver + 1
    BY <1>8 DEF DriverFails, Fault, TypeOK, FaultKinds, driver
  <2>. HIDE DEF due
  <2>. QED
    BY <1>1, <1>2, <2>1
<1>9. CASE AppendRefined \/ CommitBatch
  <2>1. streaming' = streaming /\ ~due'
    BY <1>9 DEF AppendRefined, CommitBatch
  <2>. QED
    BY <1>4, <2>1
<1>10. CASE RestartQuery \/ AddUuids \/ UNCHANGED vars
  <2>1. streaming' = streaming /\ Batch' = Batch /\ (due' => due)
    BY <1>10 DEF RestartQuery, AddUuids, vars, Batch
  <2>. QED
    BY <1>4, <2>1
<1>. QED
  BY <1>4, <1>5, <1>6, <1>7, <1>8, <1>9, <1>10 DEF Next, Query

(* A record has at most one copy in the streaming folder for every failure *)
(* of the driver, and one more.                                            *)
THEOREM RepeatedCopiesNeedFailures == Spec => []CopiesNeedFailures
<1>1. Init => CopiesCounted
  <2> SUFFICES ASSUME Init PROVE CopiesCounted
    OBVIOUS
  <2>1. streaming = {} /\ query = "idle" /\ faults["driver"] = 0
    BY DEF Init, FaultKinds
  <2>2. \A r \in Merged : Copies(streaming, r) = 0
    BY <2>1, FS_EmptySet DEF Copies
  <2>. QED
    BY <2>1, <2>2 DEF CopiesCounted, CopiesNeedFailures
<1>2. CopiesCounted => CopiesNeedFailures
  BY DEF CopiesCounted
<1>. QED
  BY <1>1, <1>2, CountedStep, LakehouseTypeCorrect, BatchAlways, DistinctAlways, FiniteAlways,
     PTL DEF Spec

-----------------------------------------------------------------------------
(* What was decoded: the batches that are committed, and the one whose     *)
(* first append has succeeded in this attempt or in an earlier one.        *)
Decoded ==
  /\ Prefix(committed) \cap Undecodable = {}
  /\ Stuck => Stored(streaming) \subseteq Prefix(committed)
  /\ query \in {"second_append", "commit"} => ~Stuck
  /\ Stored(refined) \subseteq Stored(streaming) \cup Historical

LEMMA DecodedStep ==
  TypeOK /\ BatchInProgress /\ Decoded /\ [Next]_vars => Decoded'
<1> SUFFICES ASSUME TypeOK, BatchInProgress, Decoded, [Next]_vars PROVE Decoded'
  OBVIOUS
<1> USE DEF checkpoint, folders
<1>1. ASSUME UNCHANGED folders, Prefix(committed)' = Prefix(committed), Batch' = Batch,
             query' \in {"second_append", "commit"} => query \in {"second_append", "commit"}
      PROVE  Decoded'
  BY <1>1 DEF Decoded, Stuck, Stored
<1>2. ASSUME NEW r \in Merged, Arrive(r) PROVE Decoded'
  <2>1. UNCHANGED <<folders, query>>
    BY <1>2 DEF Arrive
  <2>. QED
    BY <1>1, <1>2, <2>1, ArriveBehindBatch
<1>3. CASE PlanBatch
  <2>1. /\ query = "idle" /\ query' = "first_append" /\ planned = committed
        /\ UNCHANGED folders /\ Prefix(committed)' = Prefix(committed)
    BY <1>3 DEF PlanBatch, Prefix, TypeOK
  <2>2. Stored(streaming) \subseteq Prefix(committed)
    BY <2>1 DEF BatchInProgress
  <2>. QED
    BY <2>1, <2>2 DEF Decoded, Stored
<1>4. CASE AppendStreaming
  <2>1. /\ Prefix(committed)' = Prefix(committed) /\ Batch' = Batch /\ refined' = refined
    BY <1>4 DEF AppendStreaming, Prefix, Batch
  <2>2. CASE ~Stuck /\ streaming' = streaming \cup NewRows(Batch)
    <3>1. Stored(streaming)' = Stored(streaming) \cup Batch
      BY <2>2, StoredAppend DEF Stored
    <3>. QED
      BY <2>1, <2>2, <3>1 DEF Decoded, Stuck, Stored
  <2>3. CASE query' = "failed" /\ streaming' = streaming
    BY <2>1, <2>3 DEF Decoded, Stuck, Stored
  <2>. QED
    BY <1>4, <2>2, <2>3 DEF AppendStreaming
<1>5. CASE AppendRefined
  <2>1. /\ query = "second_append" /\ streaming' = streaming /\ Batch' = Batch
        /\ Prefix(committed)' = Prefix(committed)
    BY <1>5 DEF AppendRefined, Prefix, Batch
  <2>2. Stored(refined)' \subseteq Stored(refined) \cup Batch
    <3>1. CASE refined' = refined
      BY <3>1 DEF Stored
    <3>2. CASE refined' = refined \cup NewRows(Batch)
      BY <3>2, StoredAppend DEF Stored
    <3>. QED
      BY <1>5, <3>1, <3>2 DEF AppendRefined, AppendToRefined
  <2>3. Batch \subseteq Stored(streaming)
    BY <2>1, BatchSplitsPrefix DEF BatchInProgress
  <2>. QED
    BY <2>1, <2>2, <2>3 DEF Decoded, Stuck, Stored
<1>6. CASE CommitBatch
  <2>1. /\ query = "commit" /\ query' = "idle" /\ UNCHANGED folders
        /\ committed' = planned /\ planned' = planned /\ topic' = topic
    BY <1>6 DEF CommitBatch
  <2>2. Prefix(committed)' = Prefix(planned) /\ Prefix(planned) \cap Undecodable = {}
    BY <2>1, BatchSplitsPrefix DEF Decoded, Stuck, Prefix
  <2>3. Stored(streaming)' \subseteq Prefix(committed)'
    BY <2>1, <2>2 DEF BatchInProgress, Stored
  <2>. QED
    BY <2>1, <2>2, <2>3 DEF Decoded, Stored
<1>7. CASE DriverFails \/ RestartQuery \/ UNCHANGED vars
  <2>1. UNCHANGED <<folders, checkpoint, topic>>
    BY <1>7 DEF DriverFails, RestartQuery, vars
  <2>2. query' \in {"second_append", "commit"} => query \in {"second_append", "commit"}
    BY <1>7 DEF DriverFails, RestartQuery, vars
  <2>. QED
    BY <1>1, <2>1, <2>2 DEF Prefix, Batch
<1>8. CASE AddUuids
  <2>1. /\ UNCHANGED <<topic, checkpoint, query, streaming>>
    BY <1>8 DEF AddUuids
  <2>2. Stored(refined)' \subseteq Stored(refined) \cup Historical
    <3>1. CASE refined' = refined
      BY <3>1 DEF Stored
    <3>2. CASE refined' = refined \cup NewRows(Historical)
      BY <3>2, StoredAppend DEF Stored
    <3>. QED
      BY <1>8, <3>1, <3>2 DEF AddUuids, AppendToRefined
  <2>. QED
    BY <2>1, <2>2 DEF Decoded, Stuck, Stored, Prefix, Batch
<1>. QED
  BY <1>2, <1>3, <1>4, <1>5, <1>6, <1>7, <1>8 DEF Next, Query

(* However often the query is restarted, no record that cannot be decoded  *)
(* and none behind it in the topic reaches either folder: the batch it is  *)
(* in fails in every replay, and the query never plans another one.        *)
THEOREM UndecodableBlocks == Spec => []NothingPastUndecodable
<1>1. Init => Decoded
  BY DEF Init, Decoded, Prefix, Stored, Stuck, Batch
<1>2. TypeOK /\ BatchInProgress /\ TopicDistinct /\ Decoded => NothingPastUndecodable
  <2> SUFFICES ASSUME TypeOK, BatchInProgress, TopicDistinct, Decoded,
                      NEW i \in DOMAIN topic, NEW j \in DOMAIN topic,
                      topic[i] \in Undecodable, i <= j,
                      topic[j] \in Stored(streaming) \cup Stored(refined)
               PROVE  FALSE
    BY DEF NothingPastUndecodable
  <2>1. i \in 1..Len(topic) /\ j \in 1..Len(topic) /\ topic[j] \in Merged
    BY DEF TypeOK
  <2>2. topic[j] \in Stored(streaming)
    BY <2>1, LakehouseAssumption DEF Decoded
  <2>3. committed < i
    <3>1. i \notin 1..committed
      BY DEF Decoded, Prefix
    <3>. QED
      BY <2>1, <3>1, OffsetsInTopic
  <2>4. ASSUME NEW n \in {committed, planned}, topic[j] \in Prefix(n) PROVE j <= n
    <3>1. PICK k \in 1..n : topic[k] = topic[j]
      BY <2>4 DEF Prefix
    <3>2. k \in 1..Len(topic)
      BY <3>1, OffsetsInTopic
    <3>3. k = j
      BY <2>1, <3>1, <3>2 DEF TopicDistinct
    <3>. QED
      BY <3>1, <3>3, OffsetsInTopic
  <2>5. j <= planned
    BY <2>2, <2>4 DEF BatchInProgress
  <2>6. Stuck
    <3>1. i \in (committed + 1)..planned
      BY <2>1, <2>3, <2>5, OffsetsInTopic
    <3>. QED
      BY <3>1 DEF Stuck, Batch
  <2>7. j <= committed
    BY <2>2, <2>4, <2>6 DEF Decoded
  <2>. QED
    BY <2>1, <2>3, <2>7, OffsetsInTopic
<1>. QED
  BY <1>1, <1>2, DecodedStep, LakehouseTypeCorrect, BatchAlways, DistinctAlways, PTL DEF Spec
=============================================================================
