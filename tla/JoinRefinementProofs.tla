------------------------ MODULE JoinRefinementProofs ------------------------
(***************************************************************************)
(* The Flink join implements the at-least-once join of StreamJoin: the     *)
(* step simulation, for every set of records, partitions and products, and *)
(* any number of failures.                                                 *)
(***************************************************************************)
EXTENDS MergeStreamsProofs

(* A review and a metadata record the join may put together. *)
Joinable(r, m) ==
  /\ r \in Reviews \cap Published
  /\ m \in Metadata \cap Published
  /\ ParentAsin[m] = ParentAsin[r]

(* What the producer holds is a join the abstract specification allows.    *)
(* Not an invariant of the topic alone: an acknowledgement may come after  *)
(* the failure of the job that sent the record.                            *)
PendingJoined ==
  \A x \in pending : Joinable(x.review, x.metadata) /\ Conforms(x.review, x.metadata)

-----------------------------------------------------------------------------
(* Nothing published is unpublished, so joinable pairs stay joinable.      *)
LEMMA JoinableStays ==
  ASSUME Published \subseteq Published', NEW r, NEW m, Joinable(r, m)
  PROVE  Joinable(r, m)'
BY DEF Joinable

(* Publishing adds exactly the record to what arrived.                     *)
LEMMA PublishArrives ==
  ASSUME TypeOK, NEW p \in Partitions, NEW x \in Records, Publish(p, x)
  PROVE  Published' = Published \cup {x}
<1>1. log \in [Partitions -> Seq(Records)] /\ log' = [log EXCEPT ![p] = Append(@, x)]
  BY DEF Publish, TypeOK
<1>2. \A q \in Partitions : log'[q] = IF q = p THEN Append(log[p], x) ELSE log[q]
  BY <1>1
<1>3. Range(Append(log[p], x)) = Range(log[p]) \cup {x}
  BY <1>1, AppendProperties
<1>. QED
  BY <1>2, <1>3 DEF Published

(* A call of Emit with a metadata record and reviews of its product, all   *)
(* of them published.                                                      *)
EmitsJoin ==
  \E m \in Metadata, rs \in Seq(Reviews) :
    /\ \A r \in Range(rs) : Joinable(r, m)
    /\ Emit(ParentAsin[m], m, rs)
    /\ UNCHANGED <<log, merge_topic>>

(* The handlers call Emit in no other way: the keyed state of the running  *)
(* job is a replay of published records, key by key.                       *)
LEMMA HandlersEmitJoins ==
  ASSUME TypeOK, StateIsReplay,
         \/ \E p \in ReviewPartitions : MergeReview(p)
         \/ \E p \in MetadataPartitions : ProcessMetadata(p)
  PROVE  EmitsJoin
<1> USE DEF kafka
<1>1. ASSUME NEW p \in ReviewPartitions, MergeReview(p) PROVE EmitsJoin
  <2> DEFINE r   == NextRecord(p)
             key == ParentAsin[r]
             m   == metadata_state[key]
             one == <<r>>
  <2>1. p \in Partitions /\ r \in Reviews \cap Published /\ key \in Products
    BY <1>1, NextRecordPublished DEF MergeReview, Partitions
  <2>2. status = "running" /\ m # NoMetadata /\ m \in Metadata
    BY <1>1, <2>1 DEF MergeReview, TypeOK, MetadataStates
  <2>3. m \in {x \in Between(origin, offset) : ParentAsin[x] = key}
    BY <2>1, <2>2 DEF StateIsReplay, Replays
  <2>4. m \in Published /\ ParentAsin[m] = key
    BY <2>3, ReadPublished
  <2>5. one \in Seq(Reviews) /\ Range(one) = {r}
    BY <2>1 DEF Range
  <2>6. Emit(key, m, one) /\ UNCHANGED <<log, merge_topic>>
    BY <1>1 DEF MergeReview
  <2>. HIDE DEF m, one, r
  <2>. QED
    BY <2>1, <2>2, <2>4, <2>5, <2>6 DEF EmitsJoin, Joinable
<1>2. ASSUME NEW p \in MetadataPartitions, ProcessMetadata(p) PROVE EmitsJoin
  <2> DEFINE m       == NextRecord(p)
             key     == ParentAsin[m]
             waiting == reviews_state[key]
  <2>1. p \in Partitions /\ m \in Metadata \cap Published /\ key \in Products
    BY <1>2, NextRecordPublished DEF ProcessMetadata, Partitions
  <2>2. status = "running"
    BY <1>2 DEF ProcessMetadata
  <2>3. Range(waiting) \subseteq {x \in Between(origin, offset) : ParentAsin[x] = key}
    BY <2>1, <2>2 DEF StateIsReplay, Replays
  <2>4. waiting \in Seq(Reviews)
    BY <2>1 DEF TypeOK, ReviewsStates
  <2>5. Range(waiting) \subseteq Reviews
    BY <2>4 DEF Range
  <2>6. Emit(key, m, waiting) /\ UNCHANGED <<log, merge_topic>>
    BY <1>2 DEF ProcessMetadata
  <2>7. \A r \in Range(waiting) : Joinable(r, m)
    BY <2>1, <2>3, <2>5, ReadPublished DEF Joinable
  <2>. HIDE DEF m, waiting
  <2>. QED
    BY <2>1, <2>4, <2>6, <2>7 DEF EmitsJoin
<1>. QED
  BY <1>1, <1>2

(* What such a call hands to the producer conforms, and what it gives up   *)
(* for the schema's sake does not.                                         *)
LEMMA EmitSorts ==
  ASSUME NEW m \in Metadata, NEW rs \in Seq(Reviews), Emit(ParentAsin[m], m, rs)
  PROVE  /\ \A x \in pending' \ pending :
              x.review \in Range(rs) /\ x.metadata = m /\ Conforms(x.review, m)
         /\ lost \subseteq lost'
         /\ \A x \in lost' \ lost :
              x.cause = "schema" => x.review \in Range(rs) /\ ~Conforms(x.review, m)
<1> DEFINE tried    == Converted(rs)
           accepted == {r \in tried : Serialized(ParentAsin[m], r, m)}
<1>1. pending' = pending \cup {[review |-> r, metadata |-> m, attempt |-> attempt] : r \in accepted}
  BY DEF Emit
<1>2. accepted \subseteq Range(rs) /\ \A r \in accepted : Conforms(r, m)
  BY DEF Converted, Range, Serialized
<1>. HIDE DEF accepted
<1>3. \A x \in pending' \ pending :
        x.review \in Range(rs) /\ x.metadata = m /\ Conforms(x.review, m)
  BY <1>1, <1>2
<1>. QED
  BY <1>3, EmitAccounts

-----------------------------------------------------------------------------
(* The producer only ever holds joins: one step per kind of action.        *)
LEMMA PendingStep == TypeOK /\ StateIsReplay /\ PendingJoined /\ [Next]_vars => PendingJoined'
<1> SUFFICES ASSUME TypeOK, StateIsReplay, PendingJoined, [Next]_vars
             PROVE  PendingJoined'
  OBVIOUS
<1> USE DEF kafka, job, keyed_state
<1>1. ASSUME pending' \subseteq pending, Published \subseteq Published' PROVE PendingJoined'
  BY <1>1, JoinableStays DEF PendingJoined, Conforms
<1>2. ASSUME pending' \subseteq pending, UNCHANGED log PROVE PendingJoined'
  BY <1>1, <1>2 DEF Published
<1>3. ASSUME NEW p \in Partitions, NEW x \in Records, Publish(p, x) PROVE PendingJoined'
  BY <1>1, <1>3, PublishArrives DEF Publish
<1>4. CASE EmitsJoin
  <2>1. PICK m \in Metadata, rs \in Seq(Reviews) :
          /\ \A r \in Range(rs) : Joinable(r, m)
          /\ Emit(ParentAsin[m], m, rs)
          /\ UNCHANGED <<log, merge_topic>>
    BY <1>4 DEF EmitsJoin
  <2>2. Published' = Published
    BY <2>1 DEF Published
  <2>3. \A x \in pending' : Joinable(x.review, x.metadata) /\ Conforms(x.review, x.metadata)
    BY <2>1, EmitSorts DEF PendingJoined
  <2>. QED
    BY <2>2, <2>3, JoinableStays DEF PendingJoined, Conforms
<1>5. ASSUME NEW p \in ReviewPartitions, ProcessReview(p) PROVE PendingJoined'
  BY <1>2, <1>4, <1>5, HandlersEmitJoins DEF ProcessReview, BufferReview
<1>6. ASSUME NEW p \in MetadataPartitions, ProcessMetadata(p) PROVE PendingJoined'
  BY <1>4, <1>6, HandlersEmitJoins
<1>7. CASE \/ \E x \in pending : ProducerSend(x)
           \/ Checkpoint \/ CommitOffsets
           \/ TaskFails \/ JobManagerFails \/ RegistryFails \/ RegistryRecovers
           \/ UNCHANGED vars
  BY <1>2, <1>7
     DEF ProducerSend, Checkpoint, CommitOffsets, TaskFails, JobManagerFails, RegistryFails,
         RegistryRecovers, vars
<1>8. CASE Submit \/ Restart
  BY <1>2, <1>8 DEF Submit, Restart, Start
<1>. QED
  BY <1>3, <1>5, <1>6, <1>7, <1>8 DEF Next, Work, Environment

LEMMA PendingAlways == Spec => []PendingJoined
<1>1. Init => PendingJoined
  BY DEF Init, PendingJoined
<1>. QED
  BY <1>1, PendingStep, TypeCorrect, StateReplaysLog, PTL DEF Spec

-----------------------------------------------------------------------------
(* The refinement mapping of Join, by name.                                *)
Deliveries == {<<x.review, x.metadata>> : x \in merge_topic}
Discards == {x.review : x \in {y \in lost : y.cause = "schema"}}

(* A call of Emit discards reviews together, and only because the schema   *)
(* rejects each of them with the metadata at hand.                         *)
LEMMA EmitDiscards ==
  ASSUME TypeOK, EmitsJoin
  PROVE  \E D \in SUBSET Reviews : Join!Discard(D)
<1>1. PICK m \in Metadata, rs \in Seq(Reviews) :
        /\ \A r \in Range(rs) : Joinable(r, m)
        /\ Emit(ParentAsin[m], m, rs)
        /\ UNCHANGED <<log, merge_topic>>
  BY DEF EmitsJoin
<1> DEFINE new == {x \in lost' \ lost : x.cause = "schema"}
           D   == {x.review : x \in new}
<1>2. \A r \in D : Joinable(r, m) /\ ~Conforms(r, m)
  BY <1>1, EmitSorts
<1>3. D \in SUBSET Reviews
  BY <1>2 DEF Joinable
<1>4. \A r \in D : /\ r \in Published
                   /\ m \in Join!Matches(r)
                   /\ {r, m} \cap Nonconforming # {}
  BY <1>2 DEF Joinable, Conforms, Join!Matches
<1>5. lost \subseteq lost'
  BY <1>1, EmitSorts
<1>6. Discards' = Discards \cup D
  BY <1>5 DEF Discards
<1>7. Published' = Published /\ Deliveries' = Deliveries
  BY <1>1 DEF Published, Deliveries
<1>. HIDE DEF D
<1>. QED
  BY <1>3, <1>4, <1>6, <1>7 DEF Join!Discard, Discards, Deliveries

(* An acknowledged record is one delivery of the abstract join.            *)
LEMMA SendDelivers ==
  ASSUME TypeOK, PendingJoined, NEW x \in pending, ProducerSend(x)
  PROVE  \E r \in Reviews, m \in Metadata : Join!Deliver(r, m)
<1>1. Joinable(x.review, x.metadata) /\ Conforms(x.review, x.metadata)
  BY DEF PendingJoined
<1>2. merge_topic' = merge_topic \cup {x} /\ log' = log /\ lost' = lost
  BY DEF ProducerSend
<1>3. Deliveries' = Deliveries \cup {<<x.review, x.metadata>>}
  BY <1>2 DEF Deliveries
<1>4. Published' = Published /\ Discards' = Discards
  BY <1>2 DEF Published, Discards
<1>5. /\ x.review \in Published
      /\ x.metadata \in Join!Matches(x.review)
      /\ {x.review, x.metadata} \cap Nonconforming = {}
  BY <1>1 DEF Joinable, Conforms, Join!Matches
<1>6. Join!Deliver(x.review, x.metadata)
  BY <1>3, <1>4, <1>5 DEF Join!Deliver, Deliveries, Discards
<1>. QED
  BY <1>1, <1>6 DEF Joinable

(* Every step of the job is a step of the abstract join or invisible in it. *)
LEMMA JoinStep ==
  TypeOK /\ StateIsReplay /\ PendingJoined /\ [Next]_vars
    => [Join!Next]_<<Published, Deliveries, Discards>>
<1> SUFFICES ASSUME TypeOK, StateIsReplay, PendingJoined, [Next]_vars
             PROVE  Join!Next \/ UNCHANGED <<Published, Deliveries, Discards>>
  OBVIOUS
<1> USE DEF kafka, job, keyed_state
<1>1. ASSUME NEW p \in Partitions, NEW x \in Records, Publish(p, x) PROVE Join!Next
  <2>1. Published' = Published \cup {x}
    BY <1>1, PublishArrives
  <2>2. merge_topic' = merge_topic /\ lost' = lost
    BY <1>1 DEF Publish
  <2>3. Deliveries' = Deliveries /\ Discards' = Discards
    BY <2>2 DEF Deliveries, Discards
  <2>4. Join!Arrive(x)
    BY <2>1, <2>3 DEF Join!Arrive, Deliveries, Discards
  <2>. QED
    BY <2>4 DEF Join!Next, Records
<1>2. ASSUME NEW x \in pending, ProducerSend(x) PROVE Join!Next
  BY <1>2, SendDelivers DEF Join!Next
<1>3. CASE \/ \E p \in ReviewPartitions : MergeReview(p)
           \/ \E p \in MetadataPartitions : ProcessMetadata(p)
  BY <1>3, HandlersEmitJoins, EmitDiscards DEF Join!Next
<1>4. CASE UNCHANGED <<log, merge_topic, lost>>
  BY <1>4 DEF Published, Deliveries, Discards
<1>5. CASE Submit
  <2>1. UNCHANGED <<log, merge_topic>>
    BY <1>5 DEF Submit
  <2>2. \E S : lost' = lost \cup {[review |-> r, cause |-> "restart"] : r \in S}
    BY <1>5 DEF Submit
  <2>3. Discards' = Discards
    BY <2>2 DEF Discards
  <2>. QED
    BY <2>1, <2>3 DEF Published, Deliveries
<1>6. CASE \/ \E p \in ReviewPartitions : BufferReview(p)
           \/ Checkpoint \/ CommitOffsets \/ Restart
           \/ TaskFails \/ JobManagerFails \/ RegistryFails \/ RegistryRecovers
           \/ UNCHANGED vars
  BY <1>4, <1>6
     DEF BufferReview, Checkpoint, CommitOffsets, Restart, TaskFails, JobManagerFails,
         RegistryFails, RegistryRecovers, vars
<1>. QED
  BY <1>1, <1>2, <1>3, <1>5, <1>6 DEF Next, Work, Environment, ProcessReview

(* Under every failure the model has - tasks, job manager, registry - the  *)
(* output stays one the abstract join could have produced: only published  *)
(* reviews with published metadata of their product are delivered, and     *)
(* only what the merge schema rejects is discarded.                        *)
THEOREM JobImplementsJoin == Spec => Join!Spec
<1>1. Init => Join!Init
  <2> SUFFICES ASSUME Init PROVE Join!Init
    OBVIOUS
  <2>1. \A p \in Partitions : Range(log[p]) = {}
    BY DEF Init, Range
  <2>. QED
    BY <2>1 DEF Init, Join!Init, Published
<1>2. TypeOK /\ StateIsReplay /\ PendingJoined /\ [Next]_vars => [Join!Next]_(Join!vars)
  BY JoinStep DEF Join!vars, Deliveries, Discards
<1>. QED
  BY <1>1, <1>2, TypeCorrect, StateReplaysLog, PendingAlways, PTL DEF Spec, Join!Spec
=============================================================================
