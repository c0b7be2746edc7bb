------------------------- MODULE MergeStreamsProofs -------------------------
(***************************************************************************)
(* Theorems about the Flink join, for every set of records, partitions and *)
(* products, and any number of faults.                                     *)
(***************************************************************************)
EXTENDS MergeStreams, TLAPS

-----------------------------------------------------------------------------
(* Sequences: what Append adds to the range and to the positions.          *)
LEMMA AppendProperties ==
  ASSUME NEW S, NEW s \in Seq(S), NEW e \in S
  PROVE  /\ Append(s, e) \in Seq(S)
         /\ Len(Append(s, e)) = Len(s) + 1
         /\ Range(Append(s, e)) = Range(s) \cup {e}
         /\ \A i \in 1..Len(s) : Append(s, e)[i] = s[i]
         /\ Append(s, e)[Len(s) + 1] = e
<1>1. /\ Append(s, e) \in Seq(S)
      /\ Len(Append(s, e)) = Len(s) + 1
      /\ DOMAIN Append(s, e) = 1..(Len(s) + 1)
      /\ DOMAIN s = 1..Len(s)
      /\ \A i \in 1..Len(s) : Append(s, e)[i] = s[i]
      /\ Append(s, e)[Len(s) + 1] = e
  OBVIOUS
<1>2. Range(Append(s, e)) = Range(s) \cup {e}
  <2>1. Len(s) \in Nat
    OBVIOUS
  <2>2. 1..(Len(s) + 1) = 1..Len(s) \cup {Len(s) + 1}
    BY <2>1
  <2>. QED
    BY <1>1, <2>2 DEF Range
<1>. QED
  BY <1>1, <1>2

(* The record a partition hands out next is one it holds.                  *)
LEMMA NextRecordPublished ==
  ASSUME TypeOK, NEW p \in Partitions, offset[p] < Len(log[p])
  PROVE  /\ NextRecord(p) \in Records
         /\ p \in ReviewPartitions => NextRecord(p) \in Reviews
         /\ p \in MetadataPartitions => NextRecord(p) \in Metadata
         /\ ParentAsin[NextRecord(p)] \in Products
         /\ NextRecord(p) \in Published
<1>1. /\ log[p] \in Seq(Records)
      /\ offset[p] \in Nat
      /\ Len(log[p]) \in Nat
  BY DEF TypeOK, Offsets
<1>2. offset[p] + 1 \in 1..Len(log[p])
  BY <1>1
<1>3. DOMAIN log[p] = 1..Len(log[p])
  BY <1>1
<1>4. NextRecord(p) \in Range(log[p])
  BY <1>2, <1>3 DEF NextRecord, Range
<1>5. NextRecord(p) \in Records
  BY <1>1, <1>2 DEF NextRecord
<1>. QED
  BY <1>4, <1>5, ConstantsAssumption DEF TypeOK, Published

(* Advancing one partition keeps the offsets offsets. *)
LEMMA AdvanceType ==
  ASSUME TypeOK, NEW p \in Partitions, offset[p] < Len(log[p]), Advance(p)
  PROVE  /\ offset' \in Offsets
         /\ offset'[p] = offset[p] + 1
         /\ \A q \in Partitions : q # p => offset'[q] = offset[q]
         /\ \A q \in Partitions : offset'[q] <= Len(log[q])
<1>1. /\ offset \in [Partitions -> Nat]
      /\ \A q \in Partitions : log[q] \in Seq(Records) /\ offset[q] <= Len(log[q])
  BY DEF TypeOK, Offsets
<1>2. offset' = [offset EXCEPT ![p] = offset[p] + 1]
  BY DEF Advance
<1>3. \A q \in Partitions : Len(log[q]) \in Nat
  BY <1>1
<1>. QED
  BY <1>1, <1>2, <1>3 DEF Offsets

(* Emit keeps the types of what it changes. *)
LEMMA EmitType ==
  ASSUME TypeOK, NEW k \in Products, NEW m \in Metadata, NEW rs \in Seq(Reviews),
         Emit(k, m, rs), status = "running"
  PROVE  /\ pending' \subseteq MergedRecords
         /\ lost' \subseteq Losses
         /\ serializer' \subseteq Subtasks
         /\ status' \in {"running", "failed"}
<1>1. Converted(rs) \subseteq Reviews
  BY DEF Converted
<1>2. Subtask[k] \in Subtasks
  BY ConstantsAssumption
<1>. QED
  BY <1>1, <1>2 DEF Emit, TypeOK, MergedRecords, Losses

(* Restarting the tasks keeps the types. *)
LEMMA StartType ==
  ASSUME TypeOK, NEW s \in Checkpoints, Start(s),
         \A p \in Partitions : s.offset[p] <= Len(log[p])
  PROVE  /\ status' \in {"submitted", "running", "failed"}
         /\ offset' \in Offsets
         /\ metadata_state' \in MetadataStates
         /\ reviews_state' \in ReviewsStates
         /\ serializer' \subseteq Subtasks
         /\ pending' \subseteq MergedRecords
         /\ attempt' \in 0..MaxAttempts
         /\ \A p \in Partitions : offset'[p] <= Len(log[p])
BY ConstantsAssumption DEF TypeOK, Start, Checkpoints

LEMMA EmptyStates == EmptyMetadata \in MetadataStates /\ EmptyReviews \in ReviewsStates
BY DEF EmptyMetadata, EmptyReviews, MetadataStates, ReviewsStates

(* Counting a fault keeps the counters numbers. *)
LEMMA FaultType ==
  ASSUME TypeOK, NEW kind \in FaultKinds, Fault(kind)
  PROVE  faults' \in [FaultKinds -> Nat]
BY DEF TypeOK, Fault

(* Every action keeps the types, one step per action of Next.              *)
LEMMA TypeStep == TypeOK /\ OffsetsOrdered /\ [Next]_vars => TypeOK'
<1> SUFFICES ASSUME TypeOK, OffsetsOrdered, [Next]_vars PROVE TypeOK'
  OBVIOUS
<1> USE DEF kafka, job, keyed_state
<1>1. ASSUME NEW p \in Partitions, NEW x \in Records, Publish(p, x) PROVE TypeOK'
  <2>1. log[p] \in Seq(Records)
    BY DEF TypeOK
  <2>2. /\ Append(log[p], x) \in Seq(Records)
        /\ Len(Append(log[p], x)) = Len(log[p]) + 1
        /\ Range(Append(log[p], x)) = Range(log[p]) \cup {x}
    BY <2>1, AppendProperties
  <2>3. /\ log' \in [Partitions -> Seq(Records)]
        /\ log'[p] = Append(log[p], x)
        /\ \A q \in Partitions : q # p => log'[q] = log[q]
    BY <1>1, <2>2 DEF Publish, TypeOK
  <2>4. /\ \A q \in ReviewPartitions : Range(log'[q]) \subseteq Reviews
        /\ \A q \in MetadataPartitions : Range(log'[q]) \subseteq Metadata
    BY <1>1, <2>2, <2>3, ConstantsAssumption DEF Publish, TypeOK, Partitions, Records
  <2>5. \A q \in Partitions : Len(log[q]) \in Nat /\ Len(log[q]) <= Len(log'[q])
    <3>1. \A q \in Partitions : log[q] \in Seq(Records)
      BY DEF TypeOK
    <3>2. \A q \in Partitions : Len(log[q]) \in Nat
      BY <3>1
    <3>. QED
      BY <2>2, <2>3, <3>2
  <2>6. \A q \in Partitions :
          offset'[q] <= Len(log'[q]) /\ checkpoint'.offset[q] <= Len(log'[q])
    BY <1>1, <2>5 DEF Publish, TypeOK, Offsets, Checkpoints
  <2>. QED
    BY <1>1, <2>3, <2>4, <2>6 DEF Publish, TypeOK
<1>2. ASSUME NEW p \in ReviewPartitions, BufferReview(p) PROVE TypeOK'
  <2>1. p \in Partitions
    BY DEF Partitions
  <2>2. NextRecord(p) \in Reviews /\ ParentAsin[NextRecord(p)] \in Products
    BY <1>2, <2>1, NextRecordPublished DEF BufferReview
  <2>3. reviews_state' \in ReviewsStates
    BY <1>2, <2>2, AppendProperties DEF BufferReview, ReviewsStates, TypeOK
  <2>4. /\ offset' \in Offsets
        /\ \A q \in Partitions : offset'[q] <= Len(log[q])
    BY <1>2, <2>1, AdvanceType DEF BufferReview
  <2>. QED
    BY <1>2, <2>3, <2>4 DEF BufferReview, TypeOK
<1>3. ASSUME NEW p \in ReviewPartitions, MergeReview(p) PROVE TypeOK'
  <2> DEFINE key == ParentAsin[NextRecord(p)]
  <2>1. p \in Partitions
    BY DEF Partitions
  <2>2. NextRecord(p) \in Reviews /\ key \in Products
    BY <1>3, <2>1, NextRecordPublished DEF MergeReview
  <2>3. metadata_state[key] \in Metadata
    BY <1>3, <2>2 DEF MergeReview, TypeOK, MetadataStates
  <2>4. Emit(key, metadata_state[key], <<NextRecord(p)>>) /\ status = "running"
    BY <1>3 DEF MergeReview
  <2>5. /\ pending' \subseteq MergedRecords
        /\ lost' \subseteq Losses
        /\ serializer' \subseteq Subtasks
        /\ status' \in {"running", "failed"}
    <3>1. <<NextRecord(p)>> \in Seq(Reviews)
      BY <2>2
    <3>. QED
      BY <2>2, <2>3, <2>4, <3>1, EmitType
  <2>6. /\ offset' \in Offsets
        /\ \A q \in Partitions : offset'[q] <= Len(log[q])
    BY <1>3, <2>1, AdvanceType DEF MergeReview
  <2>. QED
    BY <1>3, <2>5, <2>6 DEF MergeReview, TypeOK
<1>4. ASSUME NEW p \in MetadataPartitions, ProcessMetadata(p) PROVE TypeOK'
  <2> DEFINE key == ParentAsin[NextRecord(p)]
  <2>1. p \in Partitions
    BY DEF Partitions
  <2>2. NextRecord(p) \in Metadata /\ key \in Products
    BY <1>4, <2>1, NextRecordPublished DEF ProcessMetadata
  <2>3. reviews_state[key] \in Seq(Reviews)
    BY <2>2 DEF TypeOK, ReviewsStates
  <2>4. Emit(key, NextRecord(p), reviews_state[key]) /\ status = "running"
    BY <1>4 DEF ProcessMetadata
  <2>5. /\ pending' \subseteq MergedRecords
        /\ lost' \subseteq Losses
        /\ serializer' \subseteq Subtasks
        /\ status' \in {"running", "failed"}
    BY <2>2, <2>3, <2>4, EmitType
  <2>6. /\ offset' \in Offsets
        /\ \A q \in Partitions : offset'[q] <= Len(log[q])
    BY <1>4, <2>1, AdvanceType DEF ProcessMetadata
  <2>7. metadata_state' \in MetadataStates
    BY <1>4, <2>2 DEF ProcessMetadata, TypeOK, MetadataStates
  <2>8. reviews_state' \in ReviewsStates
    BY <1>4, <2>2 DEF ProcessMetadata, TypeOK, ReviewsStates
  <2>. QED
    BY <1>4, <2>5, <2>6, <2>7, <2>8 DEF ProcessMetadata, TypeOK
<1>5. ASSUME NEW x \in pending, ProducerSend(x) PROVE TypeOK'
  BY <1>5 DEF ProducerSend, TypeOK
<1>6. CASE Checkpoint
  BY <1>6 DEF Checkpoint, TypeOK, Checkpoints
<1>7. CASE CommitOffsets
  BY <1>7 DEF CommitOffsets, TypeOK, Checkpoints
<1>8. CASE Submit
  <2> DEFINE fresh == [offset |-> committed, metadata_state |-> EmptyMetadata,
                       reviews_state |-> EmptyReviews]
  <2>1. fresh \in Checkpoints
    BY EmptyStates DEF Checkpoints, TypeOK
  <2>2. Start(fresh)
    BY <1>8 DEF Submit
  <2>3. \A p \in Partitions : fresh.offset[p] <= Len(log[p])
    <3>1. \A p \in Partitions : /\ committed[p] \in Nat /\ checkpoint.offset[p] \in Nat
                                /\ Len(log[p]) \in Nat
      BY DEF TypeOK, Offsets, Checkpoints
    <3>. QED
      BY <3>1 DEF OffsetsOrdered, TypeOK
  <2>4. lost' \subseteq Losses
    BY <1>8 DEF Submit, TypeOK, Losses, Buffered, Checkpoints, ReviewsStates, Range
  <2>. HIDE DEF fresh
  <2>5. /\ status' \in {"submitted", "running", "failed"}
        /\ offset' \in Offsets
        /\ metadata_state' \in MetadataStates
        /\ reviews_state' \in ReviewsStates
        /\ serializer' \subseteq Subtasks
        /\ pending' \subseteq MergedRecords
        /\ attempt' \in 0..MaxAttempts
        /\ \A p \in Partitions : offset'[p] <= Len(log[p])
    BY <2>1, <2>2, <2>3, StartType
  <2>6. checkpoint' = fresh /\ origin' = committed
        /\ UNCHANGED <<log, committed, merge_topic, registry_up, faults>>
    BY <1>8 DEF Submit, fresh
  <2>. QED
    BY <2>1, <2>3, <2>4, <2>5, <2>6 DEF TypeOK
<1>9. CASE Restart
  <2>1. Start(checkpoint) /\ checkpoint \in Checkpoints
        /\ \A p \in Partitions : checkpoint.offset[p] <= Len(log[p])
    BY <1>9 DEF Restart, TypeOK
  <2>2. /\ status' \in {"submitted", "running", "failed"}
        /\ offset' \in Offsets
        /\ metadata_state' \in MetadataStates
        /\ reviews_state' \in ReviewsStates
        /\ serializer' \subseteq Subtasks
        /\ pending' \subseteq MergedRecords
        /\ attempt' \in 0..MaxAttempts
        /\ \A p \in Partitions : offset'[p] <= Len(log[p])
    BY <2>1, StartType
  <2>. QED
    BY <1>9, <2>2 DEF Restart, TypeOK
<1>10. CASE TaskFails
  <2>1. faults' \in [FaultKinds -> Nat]
    BY <1>10, FaultType DEF TaskFails, FaultKinds
  <2>. QED
    BY <1>10, <2>1 DEF TaskFails, TypeOK
<1>11. CASE JobManagerFails
  <2>1. faults' \in [FaultKinds -> Nat]
    BY <1>11, FaultType DEF JobManagerFails, FaultKinds
  <2>. QED
    BY <1>11, <2>1 DEF JobManagerFails, TypeOK
<1>12. CASE RegistryFails
  <2>1. faults' \in [FaultKinds -> Nat]
    BY <1>12, FaultType DEF RegistryFails, FaultKinds
  <2>. QED
    BY <1>12, <2>1 DEF RegistryFails, TypeOK
<1>13. CASE RegistryRecovers
  BY <1>13 DEF RegistryRecovers, TypeOK
<1>14. CASE UNCHANGED vars
  BY <1>14 DEF vars, TypeOK
<1>. QED
  BY <1>1, <1>2, <1>3, <1>4, <1>5, <1>6, <1>7, <1>8, <1>9, <1>10, <1>11, <1>12,
     <1>13, <1>14 DEF Next, Work, Environment, ProcessReview

(* No action moves one of the offsets past the next.                       *)
LEMMA OffsetsStep == TypeOK /\ OffsetsOrdered /\ [Next]_vars => OffsetsOrdered'
<1> SUFFICES ASSUME TypeOK, OffsetsOrdered, [Next]_vars PROVE OffsetsOrdered'
  OBVIOUS
<1> USE DEF kafka, job, keyed_state, OffsetsOrdered
<1>0. \A q \in Partitions : /\ origin[q] \in Nat
                            /\ committed[q] \in Nat
                            /\ checkpoint.offset[q] \in Nat
                            /\ offset[q] \in Nat
  BY DEF TypeOK, Offsets, Checkpoints
<1>1. ASSUME NEW p \in Partitions, offset[p] < Len(log[p]), Advance(p),
             UNCHANGED <<origin, committed, checkpoint>>
      PROVE  OffsetsOrdered'
  <2>1. \A q \in Partitions : offset'[q] \in Nat /\ offset[q] <= offset'[q]
    BY <1>0, <1>1, AdvanceType DEF Offsets
  <2>. QED
    BY <1>0, <1>1, <2>1
<1>2. ASSUME NEW p \in Partitions, NEW x \in Records, Publish(p, x) PROVE OffsetsOrdered'
  BY <1>2 DEF Publish
<1>3. ASSUME NEW p \in ReviewPartitions, BufferReview(p) PROVE OffsetsOrdered'
  BY <1>1, <1>3 DEF BufferReview, Partitions
<1>4. ASSUME NEW p \in ReviewPartitions, MergeReview(p) PROVE OffsetsOrdered'
  BY <1>1, <1>4 DEF MergeReview, Partitions
<1>5. ASSUME NEW p \in MetadataPartitions, ProcessMetadata(p) PROVE OffsetsOrdered'
  BY <1>1, <1>5 DEF ProcessMetadata, Partitions
<1>6. ASSUME NEW x \in pending, ProducerSend(x) PROVE OffsetsOrdered'
  BY <1>6 DEF ProducerSend
<1>7. CASE Checkpoint
  <2>1. /\ origin' = origin /\ committed' = committed
        /\ offset' = offset /\ checkpoint'.offset = offset
    BY <1>7 DEF Checkpoint
  <2>2. \A q \in Partitions : origin[q] <= committed[q] /\ committed[q] <= offset[q]
    BY <1>0
  <2>. QED
    BY <1>0, <2>1, <2>2
<1>8. CASE CommitOffsets
  BY <1>0, <1>8 DEF CommitOffsets
<1>9. CASE Submit
  <2>1. /\ origin' = committed /\ committed' = committed
        /\ offset' = committed /\ checkpoint'.offset = committed
    BY <1>9 DEF Submit, Start
  <2>. QED
    BY <1>0, <2>1
<1>10. CASE Restart
  <2>1. /\ origin' = origin /\ committed' = committed
        /\ offset' = checkpoint.offset /\ checkpoint' = checkpoint
    BY <1>10 DEF Restart, Start
  <2>. QED
    BY <1>0, <2>1
<1>11. CASE TaskFails \/ JobManagerFails \/ RegistryFails \/ RegistryRecovers \/ UNCHANGED vars
  BY <1>11 DEF TaskFails, JobManagerFails, RegistryFails, RegistryRecovers, vars
<1>. QED
  BY <1>2, <1>3, <1>4, <1>5, <1>6, <1>7, <1>8, <1>9, <1>10, <1>11
     DEF Next, Work, Environment, ProcessReview

LEMMA InitialTypes == Init => TypeOK /\ OffsetsOrdered
<1> SUFFICES ASSUME Init PROVE TypeOK /\ OffsetsOrdered
  OBVIOUS
<1>1. Earliest \in Offsets
  BY DEF Earliest, Offsets
<1>2. [offset |-> Earliest, metadata_state |-> EmptyMetadata, reviews_state |-> EmptyReviews]
        \in Checkpoints
  BY <1>1, EmptyStates DEF Checkpoints
<1>3. \A p \in Partitions : Range(log[p]) = {} /\ Len(log[p]) = 0
  BY DEF Init, Range
<1>4. log \in [Partitions -> Seq(Records)] /\ faults \in [FaultKinds -> Nat]
  BY DEF Init
<1>5. \A p \in Partitions : Earliest[p] = 0
  BY DEF Earliest
<1>6. TypeOK
  <2>1. /\ \A p \in ReviewPartitions : Range(log[p]) \subseteq Reviews
        /\ \A p \in MetadataPartitions : Range(log[p]) \subseteq Metadata
    BY <1>3 DEF Partitions
  <2>2. attempt \in 0..MaxAttempts
    BY ConstantsAssumption DEF Init
  <2>3. offset = Earliest /\ checkpoint.offset = Earliest
    BY DEF Init
  <2>4. \A p \in Partitions : offset[p] <= Len(log[p]) /\ checkpoint.offset[p] <= Len(log[p])
    BY <1>3, <1>5, <2>3
  <2>5. checkpoint \in Checkpoints
    BY <1>2 DEF Init
  <2>. QED
    BY <1>1, <1>4, <2>1, <2>2, <2>4, <2>5, EmptyStates DEF Init, TypeOK
<1>. QED
  BY <1>5, <1>6 DEF Init, OffsetsOrdered

(* Every variable keeps its type, records stay in the topics of their kind *)
(* and no offset passes the end of its partition, whatever fails.          *)
THEOREM TypeCorrect == Spec => [](TypeOK /\ OffsetsOrdered)
<1>1. Init => TypeOK /\ OffsetsOrdered
  BY InitialTypes
<1>2. TypeOK /\ OffsetsOrdered /\ [Next]_vars => (TypeOK /\ OffsetsOrdered)'
  BY TypeStep, OffsetsStep
<1>. QED
  BY <1>1, <1>2, PTL DEF Spec

(* The consumer group never goes back, not even when the job manager       *)
(* restarts the job at the committed offsets (merge_streams_avro.py:300).  *)
THEOREM CommittedMonotonic == Spec => CommittedNeverRewinds
<1>1. TypeOK /\ OffsetsOrdered /\ [Next]_vars
        => [\A p \in Partitions : committed[p] <= committed'[p]]_vars
  <2> SUFFICES ASSUME TypeOK, OffsetsOrdered, [Next]_vars
               PROVE  [\A p \in Partitions : committed[p] <= committed'[p]]_vars
    OBVIOUS
  <2>1. \A p \in Partitions : committed[p] \in Nat /\ checkpoint.offset[p] \in Nat
    BY DEF TypeOK, Offsets, Checkpoints
  <2>2. CASE CommitOffsets
    BY <2>1, <2>2 DEF CommitOffsets, OffsetsOrdered
  <2>3. CASE ~CommitOffsets /\ Next
    <3>1. UNCHANGED committed
      BY <2>3 DEF Next, Work, Environment, ProcessReview, Publish, BufferReview, MergeReview,
         ProcessMetadata, ProducerSend, Checkpoint, Submit, Restart, TaskFails,
         JobManagerFails, RegistryFails, RegistryRecovers, kafka
    <3>. QED
      BY <2>1, <3>1
  <2>. QED
    BY <2>2, <2>3
<1>. QED
  BY <1>1, TypeCorrect, PTL DEF Spec, CommittedNeverRewinds

-----------------------------------------------------------------------------
(* How each handler extends a replay, as facts about constants: rd is what *)
(* was consumed before, ms and rs the keyed state.                         *)
LEMMA ReplayNothing == Replays({}, EmptyMetadata, EmptyReviews)
BY DEF Replays, EmptyMetadata, EmptyReviews, Range

LEMMA ReplayMetadata ==
  ASSUME NEW rd, NEW ms \in MetadataStates, NEW rs \in ReviewsStates,
         NEW m \in Metadata, Replays(rd, ms, rs)
  PROVE  Replays(rd \cup {m}, [ms EXCEPT ![ParentAsin[m]] = m],
                 [rs EXCEPT ![ParentAsin[m]] = <<>>])
<1> DEFINE k0  == ParentAsin[m]
           ms1 == [ms EXCEPT ![k0] = m]
           rs1 == [rs EXCEPT ![k0] = <<>>]
<1>1. k0 \in Products /\ m # NoMetadata
  BY ConstantsAssumption DEF Records
<1>2. /\ ms1[k0] = m /\ rs1[k0] = <<>> /\ Range(<<>>) = {}
      /\ \A k \in Products : k # k0 => ms1[k] = ms[k] /\ rs1[k] = rs[k]
  BY <1>1 DEF MetadataStates, ReviewsStates, Range
<1>3. ASSUME NEW k \in Products, k # k0
      PROVE  {x \in rd \cup {m} : ParentAsin[x] = k} = {x \in rd : ParentAsin[x] = k}
  BY <1>3
<1>4. m \in {x \in rd \cup {m} : ParentAsin[x] = k0} \cap Metadata
  OBVIOUS
<1>. QED
  BY <1>1, <1>2, <1>3, <1>4 DEF Replays

LEMMA ReplayBufferedReview ==
  ASSUME NEW rd, NEW ms \in MetadataStates, NEW rs \in ReviewsStates,
         NEW r \in Reviews, Replays(rd, ms, rs), ms[ParentAsin[r]] = NoMetadata
  PROVE  Replays(rd \cup {r}, ms, [rs EXCEPT ![ParentAsin[r]] = Append(@, r)])
<1> DEFINE k0  == ParentAsin[r]
           rs1 == [rs EXCEPT ![k0] = Append(@, r)]
<1>1. k0 \in Products /\ r \notin Metadata
  BY ConstantsAssumption DEF Records
<1>2. /\ Range(rs1[k0]) = Range(rs[k0]) \cup {r}
      /\ \A k \in Products : k # k0 => rs1[k] = rs[k]
  BY <1>1, AppendProperties DEF ReviewsStates
<1>3. ASSUME NEW k \in Products, k # k0
      PROVE  {x \in rd \cup {r} : ParentAsin[x] = k} = {x \in rd : ParentAsin[x] = k}
  BY <1>3
<1>4. {x \in rd \cup {r} : ParentAsin[x] = k0} = {x \in rd : ParentAsin[x] = k0} \cup {r}
  OBVIOUS
<1>5. ASSUME NEW k \in Products
      PROVE  LET own  == {x \in rd \cup {r} : ParentAsin[x] = k}
                 none == own \cap Metadata = {}
             IN /\ ms[k] = NoMetadata <=> none
                /\ ms[k] \in own \cup {NoMetadata}
                /\ Range(rs1[k]) = IF none THEN own \cap Reviews ELSE {}
  <2>1. CASE k # k0
    BY <1>2, <1>3, <2>1 DEF Replays
  <2>2. CASE k = k0
    <3>1. {x \in rd : ParentAsin[x] = k0} \cap Metadata = {}
      BY <1>1 DEF Replays
    <3>2. Range(rs[k0]) = {x \in rd : ParentAsin[x] = k0} \cap Reviews
      BY <1>1, <3>1 DEF Replays
    <3>. QED
      BY <1>1, <1>2, <1>4, <2>2, <3>1, <3>2
  <2>. QED
    BY <2>1, <2>2
<1>. QED
  BY <1>5 DEF Replays

LEMMA ReplayMergedReview ==
  ASSUME NEW rd, NEW ms \in MetadataStates, NEW rs \in ReviewsStates,
         NEW r \in Reviews, Replays(rd, ms, rs), ms[ParentAsin[r]] # NoMetadata
  PROVE  Replays(rd \cup {r}, ms, rs)
<1> DEFINE k0 == ParentAsin[r]
<1>1. k0 \in Products /\ r \notin Metadata
  BY ConstantsAssumption DEF Records
<1>2. ASSUME NEW k \in Products, k # k0
      PROVE  {x \in rd \cup {r} : ParentAsin[x] = k} = {x \in rd : ParentAsin[x] = k}
  BY <1>2
<1>3. {x \in rd \cup {r} : ParentAsin[x] = k0} = {x \in rd : ParentAsin[x] = k0} \cup {r}
  OBVIOUS
<1>4. /\ {x \in rd : ParentAsin[x] = k0} \cap Metadata # {}
      /\ Range(rs[k0]) = {}
      /\ ms[k0] \in {x \in rd : ParentAsin[x] = k0}
  BY <1>1 DEF Replays
<1>. QED
  BY <1>1, <1>2, <1>3, <1>4 DEF Replays

(* What the topics hold between two sets of offsets, with the log named.   *)
Reads(l, from, upto) == UNION {{l[p][i] : i \in (from[p] + 1)..upto[p]} : p \in Partitions}

LEMMA ReadsAdvance ==
  ASSUME NEW l, NEW from \in Offsets, NEW upto \in Offsets, NEW next \in Offsets,
         NEW p \in Partitions, from[p] <= upto[p], next[p] = upto[p] + 1,
         \A q \in Partitions : q # p => next[q] = upto[q]
  PROVE  Reads(l, from, next) = Reads(l, from, upto) \cup {l[p][next[p]]}
<1>1. from[p] \in Nat /\ upto[p] \in Nat
  BY DEF Offsets
<1>2. (from[p] + 1)..next[p] = ((from[p] + 1)..upto[p]) \cup {next[p]}
  BY <1>1
<1>. QED
  BY <1>2 DEF Reads

LEMMA ReadsAppend ==
  ASSUME NEW l, NEW m, NEW from \in Offsets, NEW upto \in Offsets,
         \A q \in Partitions : \A i \in 1..upto[q] : m[q][i] = l[q][i]
  PROVE  Reads(m, from, upto) = Reads(l, from, upto)
<1>1. \A q \in Partitions : \A i \in (from[q] + 1)..upto[q] : i \in 1..upto[q]
  BY DEF Offsets
<1>2. ASSUME NEW x
      PROVE  x \in Reads(m, from, upto) <=> x \in Reads(l, from, upto)
  <2>1. x \in Reads(m, from, upto) <=>
          \E q \in Partitions : \E i \in (from[q] + 1)..upto[q] : x = m[q][i]
    BY DEF Reads
  <2>2. x \in Reads(l, from, upto) <=>
          \E q \in Partitions : \E i \in (from[q] + 1)..upto[q] : x = l[q][i]
    BY DEF Reads
  <2>. QED
    BY <1>1, <2>1, <2>2
<1>. QED
  BY <1>2

(* Consuming the next record of a partition adds it to what was read.      *)
LEMMA ReadNext ==
  ASSUME TypeOK, OffsetsOrdered, NEW p \in Partitions, offset[p] < Len(log[p]),
         Advance(p), UNCHANGED <<log, origin>>
  PROVE  Between(origin, offset)' = Between(origin, offset) \cup {NextRecord(p)}
<1>1. /\ offset' \in Offsets
      /\ offset'[p] = offset[p] + 1
      /\ \A q \in Partitions : q # p => offset'[q] = offset[q]
  BY AdvanceType
<1>2. /\ origin \in Offsets /\ offset \in Offsets
      /\ \A q \in Partitions : origin[q] <= offset[q]
  <2>1. \A q \in Partitions : /\ origin[q] \in Nat /\ committed[q] \in Nat
                              /\ checkpoint.offset[q] \in Nat /\ offset[q] \in Nat
    BY DEF TypeOK, Offsets, Checkpoints
  <2>. QED
    BY <2>1 DEF TypeOK, OffsetsOrdered
<1>3. Reads(log, origin, offset') = Reads(log, origin, offset) \cup {log[p][offset'[p]]}
  BY <1>1, <1>2, ReadsAdvance
<1>. QED
  BY <1>1, <1>3 DEF Between, Reads, NextRecord

(* The keyed state stays a replay, one step per action of Next.            *)
LEMMA ReplayStep ==
  TypeOK /\ OffsetsOrdered /\ StateIsReplay /\ [Next]_vars => StateIsReplay'
<1> SUFFICES ASSUME TypeOK, OffsetsOrdered, StateIsReplay, [Next]_vars
             PROVE  StateIsReplay'
  OBVIOUS
<1> USE DEF kafka, job, keyed_state
<1> DEFINE saved == Replays(Between(origin, checkpoint.offset),
                            checkpoint.metadata_state, checkpoint.reviews_state)
           live  == Replays(Between(origin, offset), metadata_state, reviews_state)
<1>1. metadata_state \in MetadataStates /\ reviews_state \in ReviewsStates
  BY DEF TypeOK
<1>2. ASSUME UNCHANGED <<log, origin, checkpoint>> PROVE saved'
  <2>1. Between(origin, checkpoint.offset)' = Between(origin, checkpoint.offset)
    BY <1>2 DEF Between
  <2>. QED
    BY <1>2, <2>1 DEF StateIsReplay, Replays
<1>3. ASSUME UNCHANGED <<log, origin, offset, metadata_state, reviews_state>>, status = "running"
      PROVE  live'
  <2>1. Between(origin, offset)' = Between(origin, offset)
    BY <1>3 DEF Between
  <2>. QED
    BY <1>3, <2>1 DEF StateIsReplay, Replays
<1>4. ASSUME NEW p \in Partitions, NEW x \in Records, Publish(p, x) PROVE StateIsReplay'
  <2>1. /\ log \in [Partitions -> Seq(Records)]
        /\ log' = [log EXCEPT ![p] = Append(@, x)]
        /\ UNCHANGED <<status, origin, offset, metadata_state, reviews_state, checkpoint>>
    BY <1>4 DEF Publish, TypeOK
  <2>2. \A q \in Partitions : \A i \in 1..Len(log[q]) : log'[q][i] = log[q][i]
    BY <2>1, AppendProperties
  <2>3. ASSUME NEW upto \in Offsets, \A q \in Partitions : upto[q] <= Len(log[q])
        PROVE  Reads(log', origin, upto) = Reads(log, origin, upto)
    <3>1. \A q \in Partitions : upto[q] \in Nat /\ Len(log[q]) \in Nat
      BY <2>1 DEF Offsets
    <3>2. \A q \in Partitions : \A i \in 1..upto[q] : i \in 1..Len(log[q])
      BY <2>3, <3>1
    <3>3. origin \in Offsets
      BY DEF TypeOK
    <3>. QED
      BY <2>2, <3>2, <3>3, ReadsAppend
  <2>4. /\ Between(origin, offset)' = Between(origin, offset)
        /\ Between(origin, checkpoint.offset)' = Between(origin, checkpoint.offset)
    <3>1. /\ offset \in Offsets /\ checkpoint.offset \in Offsets
          /\ \A q \in Partitions :
               offset[q] <= Len(log[q]) /\ checkpoint.offset[q] <= Len(log[q])
      BY DEF TypeOK, Checkpoints
    <3>2. Reads(log', origin, offset) = Reads(log, origin, offset)
      BY <2>3, <3>1
    <3>3. Reads(log', origin, checkpoint.offset) = Reads(log, origin, checkpoint.offset)
      BY <2>3, <3>1
    <3>4. /\ Between(origin, offset) = Reads(log, origin, offset)
          /\ Between(origin, checkpoint.offset) = Reads(log, origin, checkpoint.offset)
      BY DEF Between, Reads
    <3>5. /\ Between(origin, offset)' = Reads(log', origin, offset)
          /\ Between(origin, checkpoint.offset)' = Reads(log', origin, checkpoint.offset)
      BY <2>1 DEF Between, Reads
    <3>. QED
      BY <3>2, <3>3, <3>4, <3>5
  <2>. QED
    BY <2>1, <2>4 DEF StateIsReplay, Replays
<1>5. ASSUME NEW p \in ReviewPartitions, BufferReview(p) PROVE StateIsReplay'
  <2>1. p \in Partitions
    BY DEF Partitions
  <2>2. NextRecord(p) \in Reviews
    BY <1>5, <2>1, NextRecordPublished DEF BufferReview
  <2>3. Between(origin, offset)' = Between(origin, offset) \cup {NextRecord(p)}
    BY <1>5, <2>1, ReadNext DEF BufferReview
  <2>4. Replays(Between(origin, offset) \cup {NextRecord(p)}, metadata_state,
                [reviews_state EXCEPT ![ParentAsin[NextRecord(p)]] = Append(@, NextRecord(p))])
    BY <1>1, <1>5, <2>2, ReplayBufferedReview DEF BufferReview, StateIsReplay
  <2>5. live'
    BY <1>5, <2>3, <2>4 DEF BufferReview, Replays
  <2>. QED
    BY <1>2, <1>5, <2>5 DEF BufferReview, StateIsReplay
<1>6. ASSUME NEW p \in ReviewPartitions, MergeReview(p) PROVE StateIsReplay'
  <2>1. p \in Partitions
    BY DEF Partitions
  <2>2. NextRecord(p) \in Reviews
    BY <1>6, <2>1, NextRecordPublished DEF MergeReview
  <2>3. Between(origin, offset)' = Between(origin, offset) \cup {NextRecord(p)}
    BY <1>6, <2>1, ReadNext DEF MergeReview
  <2>4. Replays(Between(origin, offset) \cup {NextRecord(p)}, metadata_state, reviews_state)
    BY <1>1, <1>6, <2>2, ReplayMergedReview DEF MergeReview, StateIsReplay
  <2>5. live'
    BY <1>6, <2>3, <2>4 DEF MergeReview, Replays
  <2>. QED
    BY <1>2, <1>6, <2>5 DEF MergeReview, StateIsReplay
<1>7. ASSUME NEW p \in MetadataPartitions, ProcessMetadata(p) PROVE StateIsReplay'
  <2> DEFINE key == ParentAsin[NextRecord(p)]
  <2>1. p \in Partitions
    BY DEF Partitions
  <2>2. NextRecord(p) \in Metadata
    BY <1>7, <2>1, NextRecordPublished DEF ProcessMetadata
  <2>3. Between(origin, offset)' = Between(origin, offset) \cup {NextRecord(p)}
    BY <1>7, <2>1, ReadNext DEF ProcessMetadata
  <2>4. Replays(Between(origin, offset) \cup {NextRecord(p)},
                [metadata_state EXCEPT ![key] = NextRecord(p)],
                [reviews_state EXCEPT ![key] = <<>>])
    BY <1>1, <1>7, <2>2, ReplayMetadata DEF ProcessMetadata, StateIsReplay
  <2>5. CASE Raises(reviews_state[key])
    <3>1. status' = "failed"
      BY <1>7, <2>5 DEF ProcessMetadata, Emit
    <3>. QED
      BY <1>2, <1>7, <3>1 DEF ProcessMetadata, StateIsReplay
  <2>6. CASE ~Raises(reviews_state[key])
    <3>1. /\ metadata_state' = [metadata_state EXCEPT ![key] = NextRecord(p)]
          /\ reviews_state' = [reviews_state EXCEPT ![key] = <<>>]
      BY <1>7, <2>6 DEF ProcessMetadata
    <3>2. live'
      BY <2>3, <2>4, <3>1 DEF Replays
    <3>. QED
      BY <1>2, <1>7, <3>2 DEF ProcessMetadata, StateIsReplay
  <2>. QED
    BY <2>5, <2>6
<1>8. ASSUME NEW x \in pending, ProducerSend(x) PROVE StateIsReplay'
  BY <1>2, <1>3, <1>8 DEF ProducerSend, StateIsReplay
<1>9. CASE Checkpoint
  <2>1. live'
    BY <1>3, <1>9 DEF Checkpoint
  <2>2. /\ UNCHANGED <<offset, metadata_state, reviews_state>>
        /\ checkpoint'.offset = offset
        /\ checkpoint'.metadata_state = metadata_state
        /\ checkpoint'.reviews_state = reviews_state
    BY <1>9 DEF Checkpoint
  <2>3. Between(origin, checkpoint.offset)' = Between(origin, offset)'
    BY <2>2 DEF Between
  <2>4. saved'
    BY <2>1, <2>2, <2>3 DEF Replays
  <2>. QED
    BY <2>1, <2>4 DEF StateIsReplay
<1>10. CASE CommitOffsets
  BY <1>2, <1>3, <1>10 DEF CommitOffsets, StateIsReplay
<1>11. CASE Submit
  <2>1. /\ origin' = committed /\ offset' = committed
        /\ metadata_state' = EmptyMetadata /\ reviews_state' = EmptyReviews
        /\ checkpoint'.offset = committed
        /\ checkpoint'.metadata_state = EmptyMetadata
        /\ checkpoint'.reviews_state = EmptyReviews
        /\ log' = log /\ committed' = committed
    BY <1>11 DEF Submit, Start
  <2>2. Between(committed, committed) = {}
    <3>1. \A q \in Partitions : (committed[q] + 1)..committed[q] = {}
      BY DEF TypeOK, Offsets
    <3>. QED
      BY <3>1 DEF Between
  <2>3. Between(origin, offset)' = {} /\ Between(origin, checkpoint.offset)' = {}
    BY <2>1, <2>2 DEF Between
  <2>4. live' /\ saved'
    BY <2>1, <2>3, ReplayNothing
  <2>. QED
    BY <2>4 DEF StateIsReplay
<1>12. CASE Restart
  <2>1. /\ UNCHANGED <<log, origin, checkpoint>>
        /\ offset' = checkpoint.offset
        /\ metadata_state' = checkpoint.metadata_state
        /\ reviews_state' = checkpoint.reviews_state
    BY <1>12 DEF Restart, Start
  <2>2. saved'
    BY <1>2, <2>1
  <2>3. Between(origin, offset)' = Between(origin, checkpoint.offset)'
    BY <2>1 DEF Between
  <2>4. live'
    BY <2>1, <2>2, <2>3 DEF Replays
  <2>. QED
    BY <2>2, <2>4 DEF StateIsReplay
<1>13. CASE TaskFails
  BY <1>2, <1>13 DEF TaskFails, StateIsReplay
<1>14. CASE JobManagerFails
  BY <1>2, <1>14 DEF JobManagerFails, StateIsReplay
<1>15. CASE RegistryFails \/ RegistryRecovers \/ UNCHANGED vars
  BY <1>2, <1>3, <1>15 DEF RegistryFails, RegistryRecovers, vars, StateIsReplay
<1>. QED
  BY <1>4, <1>5, <1>6, <1>7, <1>8, <1>9, <1>10, <1>11, <1>12, <1>13, <1>14, <1>15
     DEF Next, Work, Environment, ProcessReview

(* In every reachable state the keyed state of the running job, and that   *)
(* of the checkpoint, is what reading the consumed records leaves: a       *)
(* review is buffered exactly while no metadata of its product was read.   *)
THEOREM StateReplaysLog == Spec => []StateIsReplay
<1>1. Init => StateIsReplay
  <2> SUFFICES ASSUME Init PROVE StateIsReplay
    OBVIOUS
  <2>1. Between(Earliest, Earliest) = {}
    <3>1. \A q \in Partitions : (Earliest[q] + 1)..Earliest[q] = {}
      BY DEF Earliest
    <3>. QED
      BY <3>1 DEF Between
  <2>. QED
    BY <2>1, ReplayNothing DEF Init, StateIsReplay
<1>2. TypeOK /\ OffsetsOrdered /\ StateIsReplay /\ [Next]_vars => StateIsReplay'
  BY ReplayStep
<1>. QED
  BY <1>1, <1>2, TypeCorrect, PTL DEF Spec

-----------------------------------------------------------------------------
(* What the running job owes for the reviews it has consumed: each waits   *)
(* in the keyed state, is in flight, in the merge topic, or given up.      *)
Held(r) ==
  \/ r \in Buffered(reviews_state)
  \/ \E x \in pending : x.review = r
  \/ Delivered(r)
  \/ GivenUp(r)

LiveAccounted ==
  status = "running" => \A p \in ReviewPartitions : \A i \in 1..offset[p] : Held(log[p][i])

(* The registry is down only after it failed, and only a failure of the    *)
(* job manager leaves reviews behind in a checkpoint nobody will restore.  *)
FaultsCounted ==
  /\ registry_up \/ faults["registry"] > 0
  /\ status = "submitted" => \/ checkpoint.reviews_state = EmptyReviews
                             \/ faults["job_manager"] > 0

Accounted == LiveAccounted /\ SavedAccounted /\ LossesExplained /\ FaultsCounted

(* Publishing only appends: no record read so far changes or disappears.   *)
LEMMA PublishAppends ==
  ASSUME TypeOK, NEW p \in Partitions, NEW x \in Records, Publish(p, x)
  PROVE  /\ \A q \in Partitions : \A i \in 1..Len(log[q]) : log'[q][i] = log[q][i]
         /\ Published \subseteq Published'
<1>1. log \in [Partitions -> Seq(Records)] /\ log' = [log EXCEPT ![p] = Append(@, x)]
  BY DEF Publish, TypeOK
<1>2. \A q \in Partitions : log'[q] = IF q = p THEN Append(log[p], x) ELSE log[q]
  BY <1>1
<1>3. /\ \A i \in 1..Len(log[p]) : Append(log[p], x)[i] = log[p][i]
      /\ Range(Append(log[p], x)) = Range(log[p]) \cup {x}
  BY <1>1, AppendProperties
<1>. QED
  BY <1>2, <1>3 DEF Published

(* What Emit does with each review it is given, and why it gives one up.   *)
LEMMA EmitAccounts ==
  ASSUME NEW k, NEW m, NEW rs \in Seq(Reviews), Emit(k, m, rs)
  PROVE  /\ pending \subseteq pending' /\ lost \subseteq lost'
         /\ ~Raises(rs) => \A r \in Range(rs) : \/ \E x \in pending' : x.review = r
                                                \/ \E x \in lost' : x.review = r
         /\ \A x \in lost' \ lost :
              /\ x.review \in Range(rs)
              /\ \/ x.cause = "schema" /\ ~Conforms(x.review, m)
                 \/ x.cause = "outage" /\ ~registry_up
<1> DEFINE tried    == Converted(rs)
           accepted == {r \in tried : Serialized(k, r, m)}
           cause    == IF CanSerialize(k) THEN "schema" ELSE "outage"
<1>1. /\ pending' = pending \cup {[review |-> r, metadata |-> m, attempt |-> attempt] : r \in accepted}
      /\ lost' = lost \cup {[review |-> r, cause |-> cause] : r \in tried \ accepted}
  BY DEF Emit
<1>2. tried \subseteq Range(rs)
  BY DEF Converted, Range
<1>3. ~Raises(rs) => tried = Range(rs)
  BY DEF Raises, Converted, Range
<1>4. \A r \in tried \ accepted : \/ cause = "schema" /\ ~Conforms(r, m)
                                  \/ cause = "outage" /\ ~registry_up
  BY DEF Serialized, CanSerialize
<1>. HIDE DEF tried, cause
<1>5. \A r \in tried : \/ \E x \in pending' : x.review = r
                       \/ \E x \in lost' : x.review = r
  <2> SUFFICES ASSUME NEW r \in tried
               PROVE  (\E x \in pending' : x.review = r) \/ (\E x \in lost' : x.review = r)
    OBVIOUS
  <2>1. CASE r \in accepted
    <3>1. [review |-> r, metadata |-> m, attempt |-> attempt] \in pending'
      BY <1>1, <2>1
    <3>. QED
      BY <3>1
  <2>2. CASE r \notin accepted
    <3>1. [review |-> r, cause |-> cause] \in lost'
      BY <1>1, <2>2
    <3>. QED
      BY <3>1
  <2>. QED
    BY <2>1, <2>2
<1>6. \A x \in lost' \ lost : \E r \in tried \ accepted : x = [review |-> r, cause |-> cause]
  BY <1>1
<1>. QED
  BY <1>1, <1>2, <1>3, <1>4, <1>5, <1>6

(* A review held stays held while everything that can hold it grows.       *)
LEMMA HeldGrows ==
  ASSUME Buffered(reviews_state) \subseteq Buffered(reviews_state'),
         pending \subseteq pending', merge_topic \subseteq merge_topic', lost \subseteq lost',
         NEW r, Held(r)
  PROVE  Held(r)'
BY DEF Held, Delivered, GivenUp, Buffered

(* Consuming a record keeps the account if the record itself is held.      *)
LEMMA ConsumeAccounts ==
  ASSUME TypeOK, LiveAccounted, status = "running", NEW p \in Partitions,
         offset[p] < Len(log[p]), Advance(p), UNCHANGED log,
         \A r \in Reviews : Held(r) => Held(r)',
         p \in ReviewPartitions => \A r : r = NextRecord(p) => Held(r)'
  PROVE  LiveAccounted'
<1> SUFFICES ASSUME NEW q \in ReviewPartitions, NEW i \in 1..offset'[q],
                    NEW r, r = log[q][i]
             PROVE  Held(r)'
  BY DEF LiveAccounted
<1>1. q \in Partitions
  BY DEF Partitions
<1>2. /\ offset'[p] = offset[p] + 1
      /\ q # p => offset'[q] = offset[q]
  BY <1>1, AdvanceType
<1>3. /\ offset[q] \in Nat /\ offset[q] <= Len(log[q])
      /\ log[q] \in Seq(Records)
  BY <1>1 DEF TypeOK, Offsets
<1>4. CASE i \in 1..offset[q]
  <2>1. Len(log[q]) \in Nat
    BY <1>3
  <2>2. i \in 1..Len(log[q])
    BY <1>3, <1>4, <2>1
  <2>3. log[q][i] \in Reviews
    <3>1. log[q][i] \in Range(log[q])
      BY <1>3, <2>2 DEF Range
    <3>. QED
      BY <3>1 DEF TypeOK
  <2>. QED
    BY <1>4, <2>3 DEF LiveAccounted
<1>5. CASE i \notin 1..offset[q]
  <2>1. q = p /\ i = offset[p] + 1
    BY <1>2, <1>3, <1>5
  <2>. QED
    BY <2>1 DEF NextRecord
<1>. QED
  BY <1>4, <1>5

(* The account of the running job, one step per action of Next.            *)
LEMMA LiveStep ==
  TypeOK /\ OffsetsOrdered /\ Accounted /\ [Next]_vars => LiveAccounted'
<1> SUFFICES ASSUME TypeOK, OffsetsOrdered, Accounted, [Next]_vars
             PROVE  LiveAccounted'
  OBVIOUS
<1> USE DEF kafka, job, keyed_state
<1>1. ASSUME UNCHANGED <<log, offset, reviews_state, lost, status>>,
             \A r : (\E x \in pending : x.review = r) \/ Delivered(r)
                      => (\E x \in pending' : x.review = r) \/ Delivered(r)'
      PROVE  LiveAccounted'
  BY <1>1 DEF Accounted, LiveAccounted, Held, Buffered, GivenUp
<1>2. ASSUME NEW p \in Partitions, NEW x \in Records, Publish(p, x) PROVE LiveAccounted'
  <2>1. \A q \in Partitions : \A i \in 1..Len(log[q]) : log'[q][i] = log[q][i]
    BY <1>2, PublishAppends
  <2>2. \A q \in Partitions : \A i \in 1..offset[q] : i \in 1..Len(log[q])
    <3>1. \A q \in Partitions : /\ offset[q] \in Nat /\ log[q] \in Seq(Records)
                                /\ offset[q] <= Len(log[q])
      BY DEF TypeOK, Offsets
    <3>2. \A q \in Partitions : Len(log[q]) \in Nat
      BY <3>1
    <3>. QED
      BY <3>1, <3>2
  <2>3. UNCHANGED <<offset, status, reviews_state, pending, merge_topic, lost>>
    BY <1>2 DEF Publish
  <2>4. \A r : Held(r)' <=> Held(r)
    BY <2>3 DEF Held, Buffered, Delivered, GivenUp
  <2>5. \A q \in ReviewPartitions : \A i \in 1..offset[q] : log'[q][i] = log[q][i]
    BY <2>1, <2>2 DEF Partitions
  <2>. QED
    BY <2>3, <2>4, <2>5 DEF Accounted, LiveAccounted
<1>3. ASSUME NEW p \in ReviewPartitions, BufferReview(p) PROVE LiveAccounted'
  <2> DEFINE key == ParentAsin[NextRecord(p)]
  <2>1. p \in Partitions /\ NextRecord(p) \in Reviews /\ key \in Products
    BY <1>3, NextRecordPublished DEF BufferReview, Partitions
  <2>2. /\ Range(reviews_state'[key]) = Range(reviews_state[key]) \cup {NextRecord(p)}
        /\ \A k \in Products : k # key => reviews_state'[k] = reviews_state[k]
    BY <1>3, <2>1, AppendProperties DEF BufferReview, TypeOK, ReviewsStates
  <2>3. Buffered(reviews_state') = Buffered(reviews_state) \cup {NextRecord(p)}
    BY <2>1, <2>2 DEF Buffered
  <2>4. UNCHANGED <<pending, merge_topic, lost>>
    BY <1>3 DEF BufferReview
  <2>5. \A r : r = NextRecord(p) => Held(r)'
    BY <2>3 DEF Held, Buffered
  <2>6. \A r \in Reviews : Held(r) => Held(r)'
    BY <2>3, <2>4, HeldGrows
  <2>. QED
    BY <1>3, <2>1, <2>5, <2>6, ConsumeAccounts DEF BufferReview, Accounted
<1>4. ASSUME NEW p \in ReviewPartitions, MergeReview(p) PROVE LiveAccounted'
  <2> DEFINE key == ParentAsin[NextRecord(p)]
             one == <<NextRecord(p)>>
  <2>1. p \in Partitions /\ NextRecord(p) \in Reviews
    BY <1>4, NextRecordPublished DEF MergeReview, Partitions
  <2>2. one \in Seq(Reviews) /\ NextRecord(p) \in Range(one)
    BY <2>1 DEF Range
  <2>3. Emit(key, metadata_state[key], one)
    BY <1>4 DEF MergeReview
  <2>4. CASE Raises(one)
    BY <2>3, <2>4 DEF Emit, LiveAccounted
  <2>5. CASE ~Raises(one)
    <3>1. /\ pending \subseteq pending' /\ lost \subseteq lost'
          /\ \/ \E x \in pending' : x.review = NextRecord(p)
             \/ \E x \in lost' : x.review = NextRecord(p)
      BY <2>2, <2>3, <2>5, EmitAccounts
    <3>2. \A r : r = NextRecord(p) => Held(r)'
      BY <3>1 DEF Held, GivenUp
    <3>3. \A r \in Reviews : Held(r) => Held(r)'
      <4>1. UNCHANGED <<merge_topic, reviews_state>>
        BY <1>4 DEF MergeReview
      <4>. QED
        BY <3>1, <4>1, HeldGrows
    <3>. QED
      BY <1>4, <2>1, <3>2, <3>3, ConsumeAccounts DEF MergeReview, Accounted
  <2>. QED
    BY <2>4, <2>5
<1>5. ASSUME NEW p \in MetadataPartitions, ProcessMetadata(p) PROVE LiveAccounted'
  <2> DEFINE key == ParentAsin[NextRecord(p)]
             waiting == reviews_state[key]
  <2>1. /\ p \in Partitions /\ p \notin ReviewPartitions
        /\ NextRecord(p) \in Metadata /\ key \in Products
    BY <1>5, NextRecordPublished, ConstantsAssumption DEF ProcessMetadata, Partitions
  <2>2. waiting \in Seq(Reviews)
    BY <2>1 DEF TypeOK, ReviewsStates
  <2>3. Emit(key, NextRecord(p), waiting)
    BY <1>5 DEF ProcessMetadata
  <2>4. CASE Raises(waiting)
    BY <2>3, <2>4 DEF Emit, LiveAccounted
  <2>5. CASE ~Raises(waiting)
    <3>1. /\ pending \subseteq pending' /\ lost \subseteq lost'
          /\ \A r \in Range(waiting) : \/ \E x \in pending' : x.review = r
                                       \/ \E x \in lost' : x.review = r
      BY <2>2, <2>3, <2>5, EmitAccounts
    <3>2. reviews_state' = [reviews_state EXCEPT ![key] = <<>>]
      BY <1>5, <2>5 DEF ProcessMetadata
    <3>3. \A k \in Products : k # key => reviews_state'[k] = reviews_state[k]
      BY <3>2 DEF TypeOK, ReviewsStates
    <3>4. merge_topic' = merge_topic
      BY <1>5 DEF ProcessMetadata
    <3>5. ASSUME NEW r \in Reviews, Held(r) PROVE Held(r)'
      <4>1. CASE r \in Buffered(reviews_state)
        <5>1. PICK k \in Products : r \in Range(reviews_state[k])
          BY <4>1 DEF Buffered
        <5>2. CASE k = key
          BY <3>1, <5>1, <5>2 DEF Held, GivenUp
        <5>3. CASE k # key
          BY <3>3, <5>1, <5>3 DEF Held, Buffered
        <5>. QED
          BY <5>2, <5>3
      <4>2. CASE \E x \in pending : x.review = r
        BY <3>1, <4>2 DEF Held
      <4>3. CASE Delivered(r)
        BY <3>4, <4>3 DEF Held, Delivered
      <4>4. CASE GivenUp(r)
        BY <3>1, <4>4 DEF Held, GivenUp
      <4>. QED
        BY <3>5, <4>1, <4>2, <4>3, <4>4 DEF Held
    <3>. QED
      BY <1>5, <2>1, <3>5, ConsumeAccounts DEF ProcessMetadata, Accounted
  <2>. QED
    BY <2>4, <2>5
<1>6. ASSUME NEW x \in pending, ProducerSend(x) PROVE LiveAccounted'
  BY <1>1, <1>6 DEF ProducerSend, Delivered
<1>7. CASE Submit
  <2>1. /\ offset' = committed /\ committed' = committed
        /\ log' = log /\ merge_topic' = merge_topic
        /\ lost' = lost \cup {[review |-> r, cause |-> "restart"] :
                     r \in Buffered(checkpoint.reviews_state) \cap Between(Earliest, committed)}
    BY <1>7 DEF Submit, Start
  <2>2. ASSUME NEW q \in ReviewPartitions, NEW i \in 1..committed[q]
        PROVE  Held(log[q][i])'
    <3>1. q \in Partitions
      BY DEF Partitions
    <3>2. i \in 1..checkpoint.offset[q] /\ i \in (Earliest[q] + 1)..committed[q]
      <4>1. committed[q] \in Nat /\ checkpoint.offset[q] \in Nat
            /\ committed[q] <= checkpoint.offset[q]
        BY <3>1 DEF TypeOK, Offsets, Checkpoints, OffsetsOrdered
      <4>2. Earliest[q] = 0
        BY <3>1 DEF Earliest
      <4>. QED
        BY <4>1, <4>2
    <3>3. log[q][i] \in Between(Earliest, committed)
      BY <3>1, <3>2 DEF Between
    <3> DEFINE r == log[q][i]
    <3>4. CASE r \in Buffered(checkpoint.reviews_state)
      <4>1. [review |-> r, cause |-> "restart"] \in lost'
        BY <2>1, <3>3, <3>4
      <4>2. \E y \in lost' : y.review = r
        BY <4>1
      <4>. QED
        BY <2>1, <4>2 DEF Held, GivenUp
    <3>5. CASE Delivered(r)
      BY <2>1, <3>5 DEF Held, Delivered
    <3>6. CASE GivenUp(r)
      BY <2>1, <3>6 DEF Held, GivenUp
    <3>. QED
      BY <3>2, <3>4, <3>5, <3>6 DEF Accounted, SavedAccounted
  <2>. QED
    BY <2>1, <2>2 DEF LiveAccounted
<1>8. CASE Restart
  <2>1. /\ offset' = checkpoint.offset /\ reviews_state' = checkpoint.reviews_state
        /\ UNCHANGED <<log, merge_topic, lost>>
    BY <1>8 DEF Restart, Start
  <2>. QED
    BY <2>1 DEF Accounted, SavedAccounted, LiveAccounted, Held, Delivered, GivenUp, Buffered
<1>9. CASE Checkpoint
  BY <1>1, <1>9 DEF Checkpoint, Delivered
<1>10. CASE CommitOffsets
  BY <1>1, <1>10 DEF CommitOffsets, Delivered
<1>11. CASE RegistryFails \/ RegistryRecovers \/ UNCHANGED vars
  BY <1>1, <1>11 DEF RegistryFails, RegistryRecovers, vars, Delivered
<1>12. CASE TaskFails \/ JobManagerFails
  BY <1>12 DEF TaskFails, JobManagerFails, LiveAccounted
<1>. QED
  BY <1>2, <1>3, <1>4, <1>5, <1>6, <1>7, <1>8, <1>9, <1>10, <1>11, <1>12
     DEF Next, Work, Environment, ProcessReview

(* The account of the checkpoint: only Checkpoint, which finds nothing in  *)
(* flight, and Submit change what is saved.                                *)
LEMMA SavedStep ==
  TypeOK /\ OffsetsOrdered /\ Accounted /\ [Next]_vars => SavedAccounted'
<1> SUFFICES ASSUME TypeOK, OffsetsOrdered, Accounted, [Next]_vars
             PROVE  SavedAccounted'
  OBVIOUS
<1> USE DEF kafka, job, keyed_state
<1>1. /\ SavedAccounted /\ LiveAccounted
      /\ \A p \in ReviewPartitions : /\ p \in Partitions /\ log[p] \in Seq(Records)
                                     /\ checkpoint.offset[p] \in Nat
                                     /\ checkpoint.offset[p] <= Len(log[p])
  BY DEF Accounted, TypeOK, Checkpoints, Offsets, Partitions
<1>2. ASSUME UNCHANGED <<log, checkpoint>>, merge_topic \subseteq merge_topic', lost \subseteq lost'
      PROVE  SavedAccounted'
  BY <1>1, <1>2 DEF SavedAccounted, Delivered, GivenUp, Buffered
<1>3. ASSUME NEW p \in Partitions, NEW x \in Records, Publish(p, x) PROVE SavedAccounted'
  <2>1. UNCHANGED <<checkpoint, merge_topic, lost>>
    BY <1>3 DEF Publish
  <2>2. \A q \in ReviewPartitions : \A i \in 1..checkpoint.offset[q] : log'[q][i] = log[q][i]
    <3>1. \A q \in ReviewPartitions : Len(log[q]) \in Nat
      BY <1>1
    <3>2. \A q \in ReviewPartitions : \A i \in 1..checkpoint.offset[q] : i \in 1..Len(log[q])
      BY <1>1, <3>1
    <3>. QED
      BY <1>1, <1>3, <3>2, PublishAppends
  <2>. QED
    BY <1>1, <2>1, <2>2 DEF SavedAccounted, Delivered, GivenUp, Buffered
<1>4. ASSUME NEW p \in ReviewPartitions, BufferReview(p) PROVE SavedAccounted'
  BY <1>2, <1>4 DEF BufferReview
<1>5. ASSUME NEW p \in ReviewPartitions, MergeReview(p) PROVE SavedAccounted'
  BY <1>2, <1>5 DEF MergeReview, Emit
<1>6. ASSUME NEW p \in MetadataPartitions, ProcessMetadata(p) PROVE SavedAccounted'
  BY <1>2, <1>6 DEF ProcessMetadata, Emit
<1>7. ASSUME NEW x \in pending, ProducerSend(x) PROVE SavedAccounted'
  BY <1>2, <1>7 DEF ProducerSend
<1>8. CASE Checkpoint
  <2>1. /\ checkpoint'.offset = offset /\ checkpoint'.reviews_state = reviews_state
        /\ UNCHANGED <<log, merge_topic, lost>>
        /\ status = "running" /\ pending = {}
    BY <1>8 DEF Checkpoint
  <2>2. \A p \in ReviewPartitions : \A i \in 1..offset[p] :
          LET r == log[p][i] IN r \in Buffered(reviews_state) \/ Delivered(r) \/ GivenUp(r)
    BY <1>1, <2>1 DEF LiveAccounted, Held
  <2>. QED
    BY <2>1, <2>2 DEF SavedAccounted, Buffered, Delivered, GivenUp
<1>9. CASE CommitOffsets
  BY <1>2, <1>9 DEF CommitOffsets
<1>10. CASE Submit
  <2>1. /\ checkpoint'.offset = committed
        /\ log' = log /\ merge_topic' = merge_topic
        /\ lost' = lost \cup {[review |-> r, cause |-> "restart"] :
                     r \in Buffered(checkpoint.reviews_state) \cap Between(Earliest, committed)}
    BY <1>10 DEF Submit
  <2>2. ASSUME NEW q \in ReviewPartitions, NEW i \in 1..committed[q], NEW r, r = log[q][i]
        PROVE  Delivered(r)' \/ GivenUp(r)'
    <3>1. i \in 1..checkpoint.offset[q] /\ i \in (Earliest[q] + 1)..committed[q]
      <4>1. /\ committed[q] \in Nat /\ committed[q] <= checkpoint.offset[q]
            /\ Earliest[q] = 0
        BY <1>1 DEF TypeOK, Offsets, OffsetsOrdered, Earliest
      <4>. QED
        BY <1>1, <4>1
    <3>2. r \in Between(Earliest, committed)
      BY <1>1, <2>2, <3>1 DEF Between
    <3>3. r \in Buffered(checkpoint.reviews_state) \/ Delivered(r) \/ GivenUp(r)
      BY <1>1, <2>2, <3>1 DEF SavedAccounted
    <3>4. CASE r \in Buffered(checkpoint.reviews_state)
      <4>1. [review |-> r, cause |-> "restart"] \in lost'
        BY <2>1, <3>2, <3>4
      <4>2. \E y \in lost' : y.review = r
        BY <4>1
      <4>. QED
        BY <4>2 DEF GivenUp
    <3>5. CASE Delivered(r) \/ GivenUp(r)
      BY <2>1, <3>5 DEF Delivered, GivenUp
    <3>. QED
      BY <3>3, <3>4, <3>5
  <2>. QED
    BY <2>1, <2>2 DEF SavedAccounted
<1>11. CASE Restart
  BY <1>2, <1>11 DEF Restart
<1>12. CASE TaskFails \/ JobManagerFails \/ RegistryFails \/ RegistryRecovers \/ UNCHANGED vars
  BY <1>2, <1>12 DEF TaskFails, JobManagerFails, RegistryFails, RegistryRecovers, vars
<1>. QED
  BY <1>3, <1>4, <1>5, <1>6, <1>7, <1>8, <1>9, <1>10, <1>11, <1>12
     DEF Next, Work, Environment, ProcessReview

(* Faults only add up. *)
LEMMA FaultsGrow ==
  TypeOK /\ [Next]_vars => \A kind \in FaultKinds : faults[kind] > 0 => faults'[kind] > 0
<1> SUFFICES ASSUME TypeOK, [Next]_vars, NEW kind \in FaultKinds, faults[kind] > 0
             PROVE  faults'[kind] > 0
  OBVIOUS
<1>1. ASSUME NEW other \in FaultKinds, Fault(other) PROVE faults'[kind] > 0
  BY <1>1 DEF TypeOK, Fault
<1>2. CASE TaskFails \/ JobManagerFails \/ RegistryFails
  BY <1>1, <1>2 DEF TaskFails, JobManagerFails, RegistryFails, FaultKinds
<1>3. CASE UNCHANGED faults
  BY <1>3
<1>4. CASE Next /\ ~(TaskFails \/ JobManagerFails \/ RegistryFails)
  <2>1. UNCHANGED faults
    BY <1>4 DEF Next, Work, Environment, ProcessReview, Publish, BufferReview, MergeReview,
       ProcessMetadata, ProducerSend, Checkpoint, CommitOffsets, Submit, Restart, RegistryRecovers
  <2>. QED
    BY <1>3, <2>1
<1>. QED
  BY <1>2, <1>3, <1>4 DEF vars

LEMMA FaultsStep == TypeOK /\ Accounted /\ [Next]_vars => FaultsCounted'
<1> SUFFICES ASSUME TypeOK, Accounted, [Next]_vars PROVE FaultsCounted'
  OBVIOUS
<1> USE DEF kafka, job, keyed_state, FaultsCounted
<1>1. /\ FaultsCounted
      /\ faults["registry"] > 0 => faults'["registry"] > 0
      /\ faults["job_manager"] > 0 => faults'["job_manager"] > 0
  BY FaultsGrow DEF Accounted, FaultKinds
<1>2. CASE RegistryFails
  <2>1. faults'["registry"] > 0
    BY <1>2 DEF RegistryFails, Fault, TypeOK, FaultKinds
  <2>. QED
    BY <1>1, <1>2, <2>1 DEF RegistryFails
<1>3. CASE JobManagerFails
  <2>1. faults'["job_manager"] > 0
    BY <1>3 DEF JobManagerFails, Fault, TypeOK, FaultKinds
  <2>. QED
    BY <1>1, <1>3, <2>1 DEF JobManagerFails
<1>4. CASE RegistryRecovers
  BY <1>1, <1>4 DEF RegistryRecovers
<1>5. CASE TaskFails \/ Submit \/ Restart
  <2>1. status' # "submitted" /\ registry_up' = registry_up
    BY <1>5 DEF TaskFails, Submit, Restart, Start
  <2>. QED
    BY <1>1, <2>1
<1>6. ASSUME UNCHANGED <<registry_up, status, checkpoint>> PROVE FaultsCounted'
  BY <1>1, <1>6
<1>7. ASSUME registry_up' = registry_up, status' # "submitted" PROVE FaultsCounted'
  BY <1>1, <1>7
<1>8. CASE \E p \in Partitions, x \in Records : Publish(p, x)
  BY <1>6, <1>8 DEF Publish
<1>9. ASSUME NEW p \in ReviewPartitions, ProcessReview(p) PROVE FaultsCounted'
  BY <1>7, <1>9 DEF ProcessReview, BufferReview, MergeReview, Emit
<1>10. ASSUME NEW p \in MetadataPartitions, ProcessMetadata(p) PROVE FaultsCounted'
  BY <1>7, <1>10 DEF ProcessMetadata, Emit
<1>11. ASSUME NEW x \in pending, ProducerSend(x) PROVE FaultsCounted'
  BY <1>6, <1>11 DEF ProducerSend
<1>12. CASE Checkpoint \/ CommitOffsets
  BY <1>7, <1>12 DEF Checkpoint, CommitOffsets
<1>13. CASE UNCHANGED vars
  BY <1>6, <1>13 DEF vars
<1>. QED
  BY <1>2, <1>3, <1>4, <1>5, <1>8, <1>9, <1>10, <1>11, <1>12, <1>13
     DEF Next, Work, Environment

(* What the job has read was published.                                    *)
LEMMA ReadPublished == TypeOK => Between(origin, offset) \subseteq Published
<1> SUFFICES ASSUME TypeOK, NEW p \in Partitions, NEW i \in (origin[p] + 1)..offset[p]
             PROVE  log[p][i] \in Published
  BY DEF Between
<1>1. /\ log[p] \in Seq(Records) /\ origin[p] \in Nat /\ offset[p] \in Nat
      /\ offset[p] <= Len(log[p])
  BY DEF TypeOK, Offsets
<1>2. Len(log[p]) \in Nat
  BY <1>1
<1>3. i \in 1..Len(log[p])
  BY <1>1, <1>2
<1>4. log[p][i] \in Range(log[p])
  BY <1>1, <1>3 DEF Range
<1>. QED
  BY <1>4 DEF Published

(* A review is given up for a real cause, one step per action of Next.     *)
LEMMA LossesStep ==
  TypeOK /\ StateIsReplay /\ Accounted /\ [Next]_vars => LossesExplained'
<1> SUFFICES ASSUME TypeOK, StateIsReplay, Accounted, [Next]_vars
             PROVE  LossesExplained'
  OBVIOUS
<1> USE DEF kafka, job, keyed_state
<1> DEFINE Rejected(r, all) ==
             \E m \in Metadata \cap all : ParentAsin[m] = ParentAsin[r] /\ ~Conforms(r, m)
           Explained(x, all, count) ==
             /\ x.cause = "schema" => Rejected(x.review, all)
             /\ x.cause = "outage" => count["registry"] > 0
             /\ x.cause = "restart" => count["job_manager"] > 0
<1>1. /\ \A x \in lost : Explained(x, Published, faults)
      /\ faults["registry"] > 0 => faults'["registry"] > 0
      /\ faults["job_manager"] > 0 => faults'["job_manager"] > 0
  BY FaultsGrow DEF Accounted, LossesExplained, FaultKinds
<1>2. ASSUME \A x \in lost' : Explained(x, Published, faults'), Published \subseteq Published'
      PROVE  LossesExplained'
  BY <1>2 DEF LossesExplained
<1>3. \A x \in lost : Explained(x, Published, faults')
  BY <1>1
<1>4. ASSUME UNCHANGED <<lost, log>> PROVE LossesExplained'
  BY <1>2, <1>3, <1>4 DEF Published
<1>5. ASSUME NEW p \in Partitions, NEW x \in Records, Publish(p, x) PROVE LossesExplained'
  BY <1>2, <1>3, <1>5, PublishAppends DEF Publish
<1>6. ASSUME NEW k \in Products, NEW m \in Metadata \cap Published, ParentAsin[m] = k,
             NEW rs \in Seq(Reviews), \A r \in Range(rs) : ParentAsin[r] = k,
             Emit(k, m, rs), UNCHANGED <<log, faults>>
      PROVE  LossesExplained'
  <2>1. \A x \in lost' \ lost :
          /\ x.review \in Range(rs)
          /\ \/ x.cause = "schema" /\ ~Conforms(x.review, m)
             \/ x.cause = "outage" /\ ~registry_up
    BY <1>6, EmitAccounts
  <2>2. ~registry_up => faults'["registry"] > 0
    BY <1>6 DEF Accounted, FaultsCounted
  <2>3. ASSUME NEW x \in lost' \ lost PROVE Explained(x, Published, faults')
    <3>1. ParentAsin[m] = ParentAsin[x.review]
      BY <1>6, <2>1
    <3>. QED
      BY <2>1, <2>2, <3>1
  <2>4. Published' = Published
    BY <1>6 DEF Published
  <2>. HIDE DEF Explained
  <2>. QED
    BY <1>2, <1>3, <2>3, <2>4
<1>7. ASSUME NEW p \in ReviewPartitions, BufferReview(p) PROVE LossesExplained'
  BY <1>4, <1>7 DEF BufferReview
<1>8. ASSUME NEW p \in ReviewPartitions, MergeReview(p) PROVE LossesExplained'
  <2> DEFINE key == ParentAsin[NextRecord(p)]
             m   == metadata_state[key]
             one == <<NextRecord(p)>>
  <2>1. p \in Partitions /\ NextRecord(p) \in Reviews /\ key \in Products
    BY <1>8, NextRecordPublished DEF MergeReview, Partitions
  <2>2. status = "running" /\ m # NoMetadata /\ m \in Metadata
    BY <1>8, <2>1 DEF MergeReview, TypeOK, MetadataStates
  <2>3. m \in {x \in Between(origin, offset) : ParentAsin[x] = key}
    BY <2>1, <2>2 DEF StateIsReplay, Replays
  <2>4. m \in Metadata \cap Published /\ ParentAsin[m] = key
    BY <2>2, <2>3, ReadPublished
  <2>5. one \in Seq(Reviews) /\ \A r \in Range(one) : ParentAsin[r] = key
    BY <2>1 DEF Range
  <2>6. Emit(key, m, one) /\ UNCHANGED <<log, faults>>
    BY <1>8 DEF MergeReview
  <2>. HIDE DEF m, one
  <2>. QED
    BY <1>6, <2>1, <2>4, <2>5, <2>6
<1>9. ASSUME NEW p \in MetadataPartitions, ProcessMetadata(p) PROVE LossesExplained'
  <2> DEFINE m   == NextRecord(p)
             key == ParentAsin[m]
             waiting == reviews_state[key]
  <2>1. p \in Partitions /\ m \in Metadata \cap Published /\ key \in Products
    BY <1>9, NextRecordPublished DEF ProcessMetadata, Partitions
  <2>2. status = "running"
    BY <1>9 DEF ProcessMetadata
  <2>3. waiting \in Seq(Reviews) /\ \A r \in Range(waiting) : ParentAsin[r] = key
    <3>1. Range(waiting) \subseteq {x \in Between(origin, offset) : ParentAsin[x] = key}
      BY <2>1, <2>2 DEF StateIsReplay, Replays
    <3>. QED
      BY <2>1, <3>1 DEF TypeOK, ReviewsStates
  <2>4. Emit(key, m, waiting) /\ UNCHANGED <<log, faults>>
    BY <1>9 DEF ProcessMetadata
  <2>. HIDE DEF m, waiting
  <2>5. ParentAsin[m] = key
    OBVIOUS
  <2>. QED
    BY <1>6, <2>1, <2>3, <2>4, <2>5
<1>10. CASE Submit
  <2>1. /\ UNCHANGED <<log, faults>>
        /\ status = "submitted"
        /\ lost' = lost \cup {[review |-> r, cause |-> "restart"] :
                     r \in Buffered(checkpoint.reviews_state) \cap Between(Earliest, committed)}
    BY <1>10 DEF Submit
  <2>2. Buffered(checkpoint.reviews_state) # {} => faults["job_manager"] > 0
    <3>1. Buffered(EmptyReviews) = {}
      BY DEF Buffered, EmptyReviews, Range
    <3>. QED
      BY <2>1, <3>1 DEF Accounted, FaultsCounted
  <2>3. ASSUME NEW x \in lost' \ lost PROVE Explained(x, Published, faults')
    <3>1. x.cause = "restart" /\ Buffered(checkpoint.reviews_state) # {}
      BY <2>1, <2>3
    <3>. QED
      BY <1>1, <2>2, <3>1
  <2>4. Published' = Published
    BY <2>1 DEF Published
  <2>. HIDE DEF Explained
  <2>. QED
    BY <1>2, <1>3, <2>3, <2>4
<1>11. ASSUME NEW x \in pending, ProducerSend(x) PROVE LossesExplained'
  BY <1>4, <1>11 DEF ProducerSend
<1>12. CASE Checkpoint \/ CommitOffsets \/ Restart
  BY <1>4, <1>12 DEF Checkpoint, CommitOffsets, Restart
<1>13. CASE TaskFails \/ JobManagerFails \/ RegistryFails \/ RegistryRecovers \/ UNCHANGED vars
  BY <1>4, <1>13 DEF TaskFails, JobManagerFails, RegistryFails, RegistryRecovers, vars
<1>. QED
  BY <1>5, <1>7, <1>8, <1>9, <1>10, <1>11, <1>12, <1>13
     DEF Next, Work, Environment, ProcessReview

(* Whatever fails and whenever, a review the job will not read again is    *)
(* saved in the checkpoint, delivered, or given up for a cause that really *)
(* occurred: no other path through the code drops a review.                *)
THEOREM NoReviewSlipsAway == Spec => []NoSilentLoss
<1>1. Init => Accounted
  <2> SUFFICES ASSUME Init PROVE Accounted
    OBVIOUS
  <2>1. \A p \in ReviewPartitions : p \in Partitions /\ Earliest[p] = 0
    BY DEF Partitions, Earliest
  <2>2. \A p \in ReviewPartitions : 1..checkpoint.offset[p] = {}
    BY <2>1 DEF Init
  <2>. QED
    BY <2>2 DEF Init, Accounted, LiveAccounted, SavedAccounted, LossesExplained, FaultsCounted
<1>2. TypeOK /\ OffsetsOrdered /\ StateIsReplay /\ Accounted /\ [Next]_vars => Accounted'
  BY LiveStep, SavedStep, LossesStep, FaultsStep DEF Accounted
<1>3. Accounted => NoSilentLoss
  BY DEF Accounted, NoSilentLoss
<1>. QED
  BY <1>1, <1>2, <1>3, TypeCorrect, StateReplaysLog, PTL DEF Spec

-----------------------------------------------------------------------------
(* Each record is published once, at one position of one partition.        *)
LogDistinct ==
  \A p, q \in Partitions : \A i \in 1..Len(log[p]), j \in 1..Len(log[q]) :
    log[p][i] = log[q][j] => p = q /\ i = j

Sent == merge_topic \cup pending

(* No output is from a later attempt than the current one.                 *)
AttemptsBounded == \A x \in Sent : x.attempt <= attempt

(* What the running attempt has sent, it has read and does not hold back.  *)
SentIsSettled ==
  status = "running" /\ attempt < MaxAttempts =>
    \A x \in Sent : x.attempt = attempt =>
      x.review \in Between(origin, offset) \ Buffered(reviews_state)

Once == LogDistinct /\ AttemptsBounded /\ SentIsSettled /\ OncePerAttempt

LEMMA LogDistinctStep == TypeOK /\ LogDistinct /\ [Next]_vars => LogDistinct'
<1> SUFFICES ASSUME TypeOK, LogDistinct, [Next]_vars PROVE LogDistinct'
  OBVIOUS
<1>1. ASSUME UNCHANGED log PROVE LogDistinct'
  BY <1>1 DEF LogDistinct
<1>2. ASSUME NEW p \in Partitions, NEW x \in Records, Publish(p, x) PROVE LogDistinct'
  <2>1. /\ \A q \in Partitions : log[q] \in Seq(Records)
        /\ log' = [log EXCEPT ![p] = Append(@, x)]
        /\ x \notin Published /\ log \in [Partitions -> Seq(Records)]
    BY <1>2 DEF Publish, TypeOK
  <2>2. /\ log'[p] = Append(log[p], x)
        /\ \A q \in Partitions : q # p => log'[q] = log[q]
    BY <2>1
  <2>3. /\ Len(log'[p]) = Len(log[p]) + 1
        /\ log'[p][Len(log[p]) + 1] = x
        /\ \A q \in Partitions : Len(log[q]) \in Nat
    BY <2>1, <2>2, AppendProperties
  <2>4. \A q \in Partitions : \A i \in 1..Len(log[q]) : log'[q][i] = log[q][i] /\ log[q][i] # x
    <3>1. \A q \in Partitions : \A i \in 1..Len(log[q]) : log[q][i] \in Published
      BY <2>1 DEF Published, Range
    <3>. QED
      BY <1>2, <2>1, <3>1, PublishAppends
  <2>5. \A q \in Partitions : \A i \in 1..Len(log'[q]) :
          i \in 1..Len(log[q]) \/ (q = p /\ i = Len(log[p]) + 1)
    BY <2>2, <2>3
  <2>6. SUFFICES ASSUME NEW q \in Partitions, NEW s \in Partitions,
                        NEW i \in 1..Len(log'[q]), NEW j \in 1..Len(log'[s]),
                        log'[q][i] = log'[s][j]
                 PROVE  q = s /\ i = j
    BY DEF LogDistinct
  <2>7. CASE i \in 1..Len(log[q]) /\ j \in 1..Len(log[s])
    BY <2>4, <2>6, <2>7 DEF LogDistinct
  <2>8. CASE i \notin 1..Len(log[q])
    <3>1. q = p /\ i = Len(log[p]) + 1 /\ log'[q][i] = x
      BY <2>3, <2>5, <2>8
    <3>2. j \notin 1..Len(log[s])
      BY <2>4, <2>6, <3>1
    <3>. QED
      BY <2>5, <3>1, <3>2
  <2>9. CASE j \notin 1..Len(log[s])
    <3>1. s = p /\ j = Len(log[p]) + 1 /\ log'[s][j] = x
      BY <2>3, <2>5, <2>9
    <3>2. i \notin 1..Len(log[q])
      BY <2>4, <2>6, <3>1
    <3>. QED
      BY <2>5, <3>1, <3>2
  <2>. QED
    BY <2>7, <2>8, <2>9
<1>3. CASE ~(\E p \in Partitions, x \in Records : Publish(p, x))
  <2>1. UNCHANGED log
    BY <1>3 DEF vars, kafka, job, Next, Work, Environment, ProcessReview, BufferReview, MergeReview,
       ProcessMetadata, ProducerSend, Checkpoint, CommitOffsets, Submit, Restart, TaskFails,
       JobManagerFails, RegistryFails, RegistryRecovers
  <2>. QED
    BY <1>1, <2>1
<1>. QED
  BY <1>2, <1>3

(* The next record of a partition has not been read before.                *)
LEMMA NextUnread ==
  ASSUME TypeOK, LogDistinct, NEW p \in Partitions, offset[p] < Len(log[p])
  PROVE  NextRecord(p) \notin Between(origin, offset)
<1> SUFFICES ASSUME NEW q \in Partitions, NEW i \in (origin[q] + 1)..offset[q],
                    log[q][i] = log[p][offset[p] + 1]
             PROVE  FALSE
  BY DEF Between, NextRecord
<1>1. \A s \in Partitions : /\ log[s] \in Seq(Records) /\ origin[s] \in Nat
                            /\ offset[s] \in Nat /\ offset[s] <= Len(log[s])
  BY DEF TypeOK, Offsets
<1>2. Len(log[p]) \in Nat /\ Len(log[q]) \in Nat
  BY <1>1
<1>3. i \in 1..Len(log[q]) /\ offset[p] + 1 \in 1..Len(log[p])
  BY <1>1, <1>2
<1>4. p = q /\ i = offset[p] + 1
  BY <1>3 DEF LogDistinct
<1>. QED
  BY <1>1, <1>4

(* What waits in the keyed state was read, under the key of its product.   *)
LEMMA BufferedRead ==
  ASSUME StateIsReplay, status = "running", NEW k \in Products
  PROVE  Range(reviews_state[k]) \subseteq {x \in Between(origin, offset) : ParentAsin[x] = k}
BY DEF StateIsReplay, Replays

(* Emit hands on only the reviews it is given, once each, in this attempt. *)
LEMMA EmitSends ==
  ASSUME NEW k, NEW m, NEW rs \in Seq(Reviews), Emit(k, m, rs)
  PROVE  /\ pending \subseteq pending'
         /\ \A x \in pending' \ pending :
              \E r \in Range(rs) : x = [review |-> r, metadata |-> m, attempt |-> attempt]
<1>1. Converted(rs) \subseteq Range(rs)
  BY DEF Converted, Range
<1>. QED
  BY <1>1 DEF Emit

LEMMA EmitOnce ==
  ASSUME TypeOK, Once, status = "running",
         NEW k, NEW m, NEW rs \in Seq(Reviews), Emit(k, m, rs),
         UNCHANGED <<merge_topic, attempt>>,
         \A r \in Range(rs) : \/ r \notin Between(origin, offset)
                              \/ r \in Buffered(reviews_state)
  PROVE  AttemptsBounded' /\ OncePerAttempt'
<1> DEFINE fresh(r) == [review |-> r, metadata |-> m, attempt |-> attempt]
<1>1. /\ Sent \subseteq Sent'
      /\ \A x \in Sent' \ Sent : \E r \in Range(rs) : x = fresh(r)
  BY EmitSends DEF Sent
<1>2. attempt \in Nat /\ MaxAttempts \in Nat
  BY ConstantsAssumption DEF TypeOK
<1>3. AttemptsBounded'
  <2>1. \A x \in Sent' \ Sent : x.attempt = attempt
    BY <1>1
  <2>. QED
    BY <1>2, <2>1 DEF Once, AttemptsBounded
<1>4. ASSUME NEW x \in Sent' \ Sent, NEW y \in Sent', x.review = y.review,
             x.attempt = y.attempt, x.attempt < MaxAttempts
      PROVE  x = y
  <2>1. PICK r \in Range(rs) : x = fresh(r)
    BY <1>1
  <2>2. x.review = r /\ x.attempt = attempt
    BY <2>1
  <2>3. CASE y \in Sent
    <3>1. r \in Between(origin, offset) \ Buffered(reviews_state)
      BY <1>4, <2>2, <2>3 DEF Once, SentIsSettled
    <3>. QED
      BY <3>1
  <2>4. CASE y \notin Sent
    <3>1. PICK t \in Range(rs) : y = fresh(t)
      BY <1>1, <2>4
    <3>2. y.review = t
      BY <3>1
    <3>. QED
      BY <1>4, <2>1, <2>2, <3>1, <3>2
  <2>. QED
    BY <2>3, <2>4
<1>5. OncePerAttempt'
  <2> SUFFICES ASSUME NEW x \in Sent', NEW y \in Sent', x.review = y.review,
                      x.attempt = y.attempt, x.attempt < MaxAttempts
               PROVE  x = y
    BY DEF OncePerAttempt, Sent
  <2>1. CASE x \in Sent /\ y \in Sent
    BY <2>1 DEF Once, OncePerAttempt, Sent
  <2>2. CASE x \notin Sent
    BY <1>4, <2>2
  <2>3. CASE y \notin Sent
    BY <1>4, <2>3
  <2>. QED
    BY <2>1, <2>2, <2>3
<1>. QED
  BY <1>3, <1>5

(* No review is sent twice in one attempt, one step per action of Next.    *)
LEMMA OnceStep ==
  TypeOK /\ OffsetsOrdered /\ StateIsReplay /\ Once /\ [Next]_vars => Once'
<1> SUFFICES ASSUME TypeOK, OffsetsOrdered, StateIsReplay, Once, [Next]_vars
             PROVE  AttemptsBounded' /\ SentIsSettled' /\ OncePerAttempt'
  BY LogDistinctStep DEF Once
<1> USE DEF kafka, job, keyed_state
<1>1. /\ LogDistinct /\ AttemptsBounded /\ SentIsSettled /\ OncePerAttempt
      /\ attempt \in Nat /\ MaxAttempts \in Nat /\ attempt <= MaxAttempts
      /\ merge_topic \subseteq MergedRecords /\ pending \subseteq MergedRecords
  BY ConstantsAssumption DEF Once, TypeOK
<1>2. ASSUME Sent' \subseteq Sent, attempt' = attempt
      PROVE  AttemptsBounded' /\ OncePerAttempt'
  BY <1>1, <1>2 DEF AttemptsBounded, OncePerAttempt, Sent
<1>3. ASSUME Sent' \subseteq Sent, UNCHANGED <<log, origin, offset, reviews_state, attempt, status>>
      PROVE  AttemptsBounded' /\ SentIsSettled' /\ OncePerAttempt'
  <2>1. Between(origin, offset)' = Between(origin, offset)
    BY <1>3 DEF Between
  <2>2. Buffered(reviews_state)' = Buffered(reviews_state)
    BY <1>3 DEF Buffered
  <2>. QED
    BY <1>1, <1>2, <1>3, <2>1, <2>2 DEF SentIsSettled
<1>4. ASSUME Sent' \subseteq Sent, status' # "running", attempt' = attempt
      PROVE  AttemptsBounded' /\ SentIsSettled' /\ OncePerAttempt'
  BY <1>2, <1>4 DEF SentIsSettled
<1>5. Buffered(reviews_state) \subseteq Between(origin, offset) \/ status # "running"
  BY BufferedRead DEF Buffered
<1>6. ASSUME NEW p \in Partitions, NEW x \in Records, Publish(p, x)
      PROVE  AttemptsBounded' /\ SentIsSettled' /\ OncePerAttempt'
  <2>1. UNCHANGED <<origin, offset, reviews_state, attempt, status, merge_topic, pending>>
    BY <1>6 DEF Publish
  <2>2. Between(origin, offset)' = Between(origin, offset)
    <3>1. \A q \in Partitions : /\ offset[q] \in Nat /\ log[q] \in Seq(Records)
                                /\ offset[q] <= Len(log[q])
      BY DEF TypeOK, Offsets
    <3>2. \A q \in Partitions : Len(log[q]) \in Nat
      BY <3>1
    <3>3. \A q \in Partitions : \A i \in 1..offset[q] : i \in 1..Len(log[q])
      BY <3>1, <3>2
    <3>4. \A q \in Partitions : \A i \in 1..offset[q] : log'[q][i] = log[q][i]
      BY <1>6, <3>3, PublishAppends
    <3>5. origin \in Offsets /\ offset \in Offsets
      BY DEF TypeOK
    <3>6. Reads(log', origin, offset) = Reads(log, origin, offset)
      BY <3>4, <3>5, ReadsAppend
    <3>7. Between(origin, offset)' = Reads(log', origin, offset)
      BY <2>1 DEF Between, Reads
    <3>8. Between(origin, offset) = Reads(log, origin, offset)
      BY DEF Between, Reads
    <3>. QED
      BY <3>6, <3>7, <3>8
  <2>3. Buffered(reviews_state)' = Buffered(reviews_state) /\ Sent' = Sent
    BY <2>1 DEF Buffered, Sent
  <2>. QED
    BY <1>1, <1>2, <2>1, <2>2, <2>3 DEF SentIsSettled
<1>7. ASSUME NEW p \in ReviewPartitions, BufferReview(p)
      PROVE  AttemptsBounded' /\ SentIsSettled' /\ OncePerAttempt'
  <2> DEFINE key == ParentAsin[NextRecord(p)]
  <2>1. /\ p \in Partitions /\ NextRecord(p) \in Reviews /\ key \in Products
        /\ status = "running" /\ offset[p] < Len(log[p])
    BY <1>7, NextRecordPublished DEF BufferReview, Partitions
  <2>2. /\ NextRecord(p) \notin Between(origin, offset)
        /\ Between(origin, offset)' = Between(origin, offset) \cup {NextRecord(p)}
    BY <1>1, <1>7, <2>1, NextUnread, ReadNext DEF BufferReview
  <2>3. Buffered(reviews_state)' \subseteq Buffered(reviews_state) \cup {NextRecord(p)}
    <3>1. /\ Range(reviews_state'[key]) = Range(reviews_state[key]) \cup {NextRecord(p)}
          /\ \A k \in Products : k # key => reviews_state'[k] = reviews_state[k]
      BY <1>7, <2>1, AppendProperties DEF BufferReview, TypeOK, ReviewsStates
    <3>. QED
      BY <3>1 DEF Buffered
  <2>4. Sent' = Sent /\ attempt' = attempt
    BY <1>7 DEF BufferReview, Sent
  <2>5. SentIsSettled'
    BY <1>1, <2>1, <2>2, <2>3, <2>4 DEF SentIsSettled
  <2>. QED
    BY <1>2, <2>4, <2>5
<1>8. ASSUME NEW p \in ReviewPartitions, MergeReview(p)
      PROVE  AttemptsBounded' /\ SentIsSettled' /\ OncePerAttempt'
  <2> DEFINE key == ParentAsin[NextRecord(p)]
             one == <<NextRecord(p)>>
  <2>1. /\ p \in Partitions /\ NextRecord(p) \in Reviews /\ key \in Products
        /\ status = "running" /\ offset[p] < Len(log[p])
    BY <1>8, NextRecordPublished DEF MergeReview, Partitions
  <2>2. /\ NextRecord(p) \notin Between(origin, offset)
        /\ Between(origin, offset)' = Between(origin, offset) \cup {NextRecord(p)}
    BY <1>1, <1>8, <2>1, NextUnread, ReadNext DEF MergeReview
  <2>3. one \in Seq(Reviews) /\ \A r \in Range(one) : r = NextRecord(p)
    BY <2>1 DEF Range
  <2>4. /\ Emit(key, metadata_state[key], one)
        /\ UNCHANGED <<merge_topic, attempt, reviews_state>>
    BY <1>8 DEF MergeReview
  <2>. HIDE DEF one
  <2>5. AttemptsBounded' /\ OncePerAttempt'
    BY <2>1, <2>2, <2>3, <2>4, EmitOnce
  <2>6. SentIsSettled'
    <3>1. \A x \in Sent' \ Sent : x.review = NextRecord(p)
      <4>1. \A x \in pending' \ pending : x.review = NextRecord(p)
        BY <2>3, <2>4, EmitSends
      <4>. QED
        BY <2>4, <4>1 DEF Sent
    <3>2. NextRecord(p) \notin Buffered(reviews_state)
      BY <1>5, <2>1, <2>2
    <3>3. Buffered(reviews_state)' = Buffered(reviews_state)
      BY <2>4 DEF Buffered
    <3>4. ASSUME attempt < MaxAttempts, NEW x \in Sent', x.attempt = attempt
          PROVE  x.review \in Between(origin, offset)' \ Buffered(reviews_state)'
      BY <1>1, <2>1, <2>2, <3>1, <3>2, <3>3, <3>4 DEF SentIsSettled
    <3>. QED
      BY <2>4, <3>4 DEF SentIsSettled
  <2>. QED
    BY <2>5, <2>6
<1>9. ASSUME NEW p \in MetadataPartitions, ProcessMetadata(p)
      PROVE  AttemptsBounded' /\ SentIsSettled' /\ OncePerAttempt'
  <2> DEFINE key == ParentAsin[NextRecord(p)]
             waiting == reviews_state[key]
  <2>1. /\ p \in Partitions /\ NextRecord(p) \in Metadata /\ key \in Products
        /\ status = "running" /\ offset[p] < Len(log[p])
    BY <1>9, NextRecordPublished DEF ProcessMetadata, Partitions
  <2>2. Between(origin, offset)' = Between(origin, offset) \cup {NextRecord(p)}
    BY <1>9, <2>1, ReadNext DEF ProcessMetadata
  <2>3. waiting \in Seq(Reviews) /\ \A r \in Range(waiting) : r \in Buffered(reviews_state)
    BY <2>1 DEF TypeOK, ReviewsStates, Buffered
  <2>4. /\ Emit(key, NextRecord(p), waiting)
        /\ UNCHANGED <<merge_topic, attempt>>
    BY <1>9 DEF ProcessMetadata
  <2>. HIDE DEF waiting
  <2>5. AttemptsBounded' /\ OncePerAttempt'
    BY <2>1, <2>3, <2>4, EmitOnce
  <2>6. CASE Raises(waiting)
    <3>1. status' = "failed"
      BY <2>4, <2>6 DEF Emit
    <3>. QED
      BY <2>5, <3>1 DEF SentIsSettled
  <2>7. CASE ~Raises(waiting)
    <3>1. /\ reviews_state'[key] = <<>>
          /\ \A k \in Products : k # key => reviews_state'[k] = reviews_state[k]
      BY <1>9, <2>1, <2>7 DEF ProcessMetadata, TypeOK, ReviewsStates, waiting
    <3>2. Range(reviews_state'[key]) = {}
      BY <3>1 DEF Range
    <3>3. Buffered(reviews_state)' \subseteq Buffered(reviews_state)
      BY <3>1, <3>2 DEF Buffered
    <3>4. ASSUME NEW r \in Range(waiting)
          PROVE  r \in Between(origin, offset) /\ r \notin Buffered(reviews_state)'
      <4>1. r \in Between(origin, offset) /\ ParentAsin[r] = key
        BY <2>1, <3>4, BufferedRead DEF waiting
      <4>2. \A k \in Products : k # key => r \notin Range(reviews_state[k])
        BY <2>1, <4>1, BufferedRead
      <4>. QED
        BY <3>1, <3>2, <4>1, <4>2 DEF Buffered
    <3>5. \A x \in Sent' \ Sent : x.review \in Range(waiting)
      <4>1. \A x \in pending' \ pending : x.review \in Range(waiting)
        BY <2>3, <2>4, EmitSends
      <4>. QED
        BY <2>4, <4>1 DEF Sent
    <3>6. ASSUME attempt < MaxAttempts, NEW x \in Sent', x.attempt = attempt
          PROVE  x.review \in Between(origin, offset)' \ Buffered(reviews_state)'
      BY <1>1, <2>1, <2>2, <3>3, <3>4, <3>5, <3>6 DEF SentIsSettled
    <3>. QED
      BY <2>4, <2>5, <3>6 DEF SentIsSettled
  <2>. QED
    BY <2>6, <2>7
<1>10. ASSUME NEW x \in pending, ProducerSend(x)
       PROVE  AttemptsBounded' /\ SentIsSettled' /\ OncePerAttempt'
  <2>1. Sent' \subseteq Sent
    BY <1>10 DEF ProducerSend, Sent
  <2>. QED
    BY <1>3, <1>10, <2>1 DEF ProducerSend
<1>11. ASSUME NEW s, Start(s), UNCHANGED merge_topic
       PROVE  AttemptsBounded' /\ SentIsSettled' /\ OncePerAttempt'
  <2>1. Sent' \subseteq Sent
    BY <1>11 DEF Start, Sent
  <2>2. \A x \in Sent : x.attempt \in Nat
    BY <1>1 DEF Sent, MergedRecords
  <2>3. attempt' = IF attempt < MaxAttempts THEN attempt + 1 ELSE attempt
    BY <1>11 DEF Start
  <2>4. AttemptsBounded'
    BY <1>1, <2>1, <2>2, <2>3 DEF AttemptsBounded
  <2>5. attempt' < MaxAttempts => \A x \in Sent' : x.attempt # attempt'
    BY <1>1, <2>1, <2>2, <2>3 DEF AttemptsBounded
  <2>6. OncePerAttempt'
    BY <1>1, <2>1 DEF OncePerAttempt, Sent
  <2>. QED
    BY <2>4, <2>5, <2>6 DEF SentIsSettled
<1>12. CASE Submit
  BY <1>11, <1>12 DEF Submit
<1>13. CASE Restart
  BY <1>11, <1>13 DEF Restart
<1>14. CASE Checkpoint \/ CommitOffsets
  BY <1>3, <1>14 DEF Checkpoint, CommitOffsets, Sent
<1>15. CASE TaskFails \/ JobManagerFails
  BY <1>4, <1>15 DEF TaskFails, JobManagerFails, Sent
<1>16. CASE RegistryFails \/ RegistryRecovers \/ UNCHANGED vars
  BY <1>3, <1>16 DEF RegistryFails, RegistryRecovers, vars, Sent
<1>. QED
  BY <1>6, <1>7, <1>8, <1>9, <1>10, <1>12, <1>13, <1>14, <1>15, <1>16
     DEF Next, Work, Environment, ProcessReview

(* Between two starts of the job no review is handed to the sink twice:    *)
(* a duplicate in the merge topic always needs a restart in between.       *)
THEOREM DuplicatesNeedRestarts == Spec => []OncePerAttempt
<1>1. Init => Once
  <2> SUFFICES ASSUME Init PROVE Once
    OBVIOUS
  <2>1. Sent = {} /\ \A p \in Partitions : Len(log[p]) = 0
    BY DEF Init, Sent
  <2>. QED
    BY <2>1 DEF Once, LogDistinct, AttemptsBounded, SentIsSettled, OncePerAttempt, Sent
<1>2. TypeOK /\ OffsetsOrdered /\ StateIsReplay /\ Once /\ [Next]_vars => Once'
  BY OnceStep
<1>3. Once => OncePerAttempt
  BY DEF Once
<1>. QED
  BY <1>1, <1>2, <1>3, TypeCorrect, StateReplaysLog, PTL DEF Spec
=============================================================================
