# TLA+ verification of the Amazon reviews pipeline

This directory holds TLA+ modules of the pipeline in `src/`, the TLC
configurations that check them on small instances, and theorems about them
checked by TLAPS. It is built around one question: *which review reaches the
next stage, how often, and what happens to it when a step fails?*

## 1. Inventory

### Stream side

| Component | State | Operations | Interaction |
|---|---|---|---|
| Inserters (`stream_processing/jobs/`) | tables `raw_reviews`, `raw_item_metadata`; position in the JSON file (memory only) | `CREATE TABLE IF NOT EXISTS`, then one autocommitted `INSERT` per line | Kubernetes jobs with `restartPolicy: OnFailure`; the tables have no key |
| Debezium connector (external) | replication position | publishes each row to `test.public.raw_reviews` / `raw_item_metadata` | null keys, so a row may land on any partition |
| **Flink join** (`merge/merge_streams_avro.py`) | per key `metadata_state` and `reviews_state`; source offsets; per worker `_serializer`; records of the producer in flight; last checkpoint; committed group offsets | `process_element1`, `process_element2`, `process_features`, `serialize`, start (`open`, `__main__`), checkpoint, commit, restart | reads two topics, writes `merge_metadata_reviews`; asks the schema registry at start and at the first serialization |
| Schema registry helpers (`merge/utils.py`, `batch_processing/utils.py`) | subjects | register if absent, get latest, delete | registered only by the stream side, asserted by the batch side |
| Spark streaming (`read_streaming_data.py`) | Spark checkpoint; two Delta folders | `process(batch_df, batch_id)`: decode, add UUIDs, append twice | reads the merge topic; shares the refined folder with `adding_uuidv7` and the warehouse job |

### Batch side

| Component | State | Operations | Interaction |
|---|---|---|---|
| Raw to Delta (`convert_raw2delta_avro_v2.py`) | Delta folders reviews, metadata | filter and overwrite, one after the other | asserts the subjects of the stream pipeline |
| Merge (`convert_merge2delta_v2.py`) | merge folders reviews, metadata | aggregate, join on `parent_product_id`, two overwrites | read by the data marts |
| UUIDs (`adding_uuidv7.py`) | refined folder | append everything with new identifiers | shares the refined folder with the streaming job |
| Silver schema (`generate_silver_schema.py`, `create_silver_schema_tables.py`) | Postgres `dim_*`, `fact_reviews` | drop all, create all, four appends under foreign keys | reads the refined folder while it grows |
| Data marts (`generate_data_mart_v2.py`) | five Delta folders | aggregate and overwrite | reads the merge folders |
| Airflow DAGs (`k8s/airflow/dags/`) | task instances, SparkApplication objects | `kubectl apply`, poll the state, retry once | one DAG per side, no order between them |

Configuration without logic of its own (Helm, Terraform, Ansible, Prometheus,
Grafana, Hive, Trino) is not modelled. Of Jenkins only the stage that deploys the
Flink job is: it applies the repository's copy of the manifest, beside the DAG,
which applies the copy in a configmap.

### Hard behaviour, and what makes each component correct

* **Flink join.** Reviews and metadata race; metadata may be updated; the sink
  is asynchronous; tasks, job manager and registry fail. Correct means: keyed
  state is a function of what was consumed; a review is handed to the sink at
  most once per start and, until a loss with a known cause, delivered at least
  once; offsets never run ahead of what is durable.
* **Spark streaming and UUID job.** Micro-batches are replayed after a crash;
  the second append may fail silently; two writers with different columns share
  a folder. Correct means: a merged record reaches both folders, and identifiers
  are unique.
* **Warehouse.** Correct means: foreign keys hold at every append although the
  source folder grows; a failure does not leave a half-filled schema behind for
  ever.
* **DAGs.** Correct means: a task that reports success means that the work of
  *this* run was done, in the order of the chain.
* **Transformations and codec.** Pure: joins neither multiply nor lose keys;
  decode inverts encode.

`PROJECT.json` lists the hazards one by one, each at its line.

## 2. Plan

Done, in this order:

1. `MergeStreams`: the Flink join, its abstract specification `StreamJoin`, and
   `MergeStreamsProofs`.
2. `Lakehouse`: Spark streaming and `adding_uuidv7` over Delta folders with
   schema enforcement, crash between the appends, replay; `DeltaCopy`, the
   abstract specification its streaming half implements.
3. `Warehouse`, which extends `Lakehouse`: drops, creates and appends of the
   silver schema against the growing folder.
4. `PipelineJobs` and `Orchestration`: the programs of the applications as the
   steps others can see, and the two DAGs that submit them and wait for them.
5. `Transforms` and `Codec`: what the batch jobs compute, and the bytes of the
   merge topic.
6. `LakehouseProofs`, `WarehouseProofs`, `OrchestrationProofs`: the safety
   properties of these modules, for every instance; `JoinRefinementProofs`: the
   safety half of the refinement from `MergeStreams` to `StreamJoin`.

7. `SumTheorems`, `TransformsProofs`, `CodecProofs`: what the batch jobs compute and
   the bytes of the merge topic, for files and records of any size.

Left: the columns that a line of a file fills in the inserters, if a property of
them is found that the code does not state by itself.

## 3. Modules

| Module | Role |
|---|---|
| `StreamJoin` | what the stream side promises: arrivals, deliveries, rejections; no topics, offsets, state or restarts |
| `MergeStreams` | the Flink join with its environment; properties; mutants of single definitions |
| `MCMergeStreams` | values of the constants for TLC |
| `MergeStreamsProofs` | theorems about `MergeStreams`, checked by TLAPS |
| `JoinRefinementProofs` | `MergeStreams` implements `StreamJoin`, but for liveness |
| `DeltaCopy` | what a micro-batch copy of a topic into a Delta table promises; no batches, logs or failures |
| `Lakehouse` | the two writers of the refined Delta folder; properties; mutants |
| `LakehouseProofs` | theorems about `Lakehouse`, checked by TLAPS |
| `Warehouse` | the silver job in Postgres, composed with `Lakehouse`; properties; mutants |
| `WarehouseProofs` | theorems about `Warehouse` composed with `Lakehouse` |
| `PipelineJobs` | each application of the DAGs as a sequence of loads, overwrites, schema lookups and inserts; failures and restarts of containers |
| `Orchestration` | the two DAGs over `PipelineJobs`: submit and wait tasks, manifests, operators; properties; mutants |
| `OrchestrationProofs` | theorems about `Orchestration` and `PipelineJobs` |
| `Transforms` | what raw2delta, merge2delta and the data marts compute; properties; mutants |
| `SumTheorems` | sums over finite sets: adding an element, splitting by a key, renaming; induction on finite sets |
| `TransformsProofs` | theorems about `Transforms`, checked by TLAPS |
| `Codec` | the latin1 and utf-8 steps around the Avro bytes; property; mutant |
| `CodecProofs` | the theorem about `Codec` |
| `MCLakehouse`, `MCWarehouse`, `MCOrchestration`, `MCTransforms` | values of the constants for TLC; `MCTransforms` puts `Transforms` and `Codec`, which share nothing, side by side |

### `MergeStreams` and the code

| Model | Code |
|---|---|
| `log[p]`, `Publish` | the topics `test.public.raw_reviews` and `raw_item_metadata`, written by Debezium; the key of a message is null, so `p` is free |
| `metadata_state`, `reviews_state` | the `ValueState` and `ListState` of `MergeReviewsWithMetadata.open`, one of each per `parent_asin` |
| `BufferReview`, `MergeReview` | the two branches of `process_element1` |
| `ProcessMetadata` | `process_element2` |
| `Emit`, `Converted`, `Raises`, `Serialized` | the chain behind each `yield`: `process_features` (where `int(value)` may raise), `serialize` (whose bare `except` turns every error into `None`), the filter on `None`, the hand-over to the producer |
| `serializer`, `CanSerialize` | `_serializer` of the wrapper: a Python worker asks the registry once and keeps the answer until it is restarted |
| `pending`, `ProducerSend`, `merge_topic` | the records the Kafka producer has accepted, their acknowledgement, and the topic `merge_metadata_reviews` |
| `Start` | the start of the tasks; `open` asserts that the registry has the schemas |
| `Submit` | `__main__`, run by the operator at deployment and when the job manager comes back: consumption starts from the offsets of `flink-consumer-group` |
| `Checkpoint`, `CommitOffsets`, `Restart` | the checkpointing of `flink-merge-streams.yaml` in mode `EXACTLY_ONCE`, the commit to Kafka that follows, and the restart of failed tasks from the last checkpoint |
| `TaskFails`, `JobManagerFails`, `RegistryFails`, `RegistryRecovers` | the environment |
| `origin`, `attempt`, `lost`, `faults` | history: where the state began, how often the job was started, which reviews were given up and why, how many faults happened |

Abstractions, and why they lose nothing the properties speak of:

* **One action per handler.** Flink calls a handler for one record of a key at
  a time, and no other handler of that key runs in between. The records
  behind a `yield` pass the chained operators before the generator resumes, so
  an exception there ends the handler in the middle: `ProcessMetadata` then
  keeps the buffer (`clear()` comes after the loop) and `Emit` hands over only
  the reviews before the malformed one.
* **Reading a record is part of the handler.** Records between source and
  handler are neither state nor output; a barrier never overtakes them, and a
  failure forgets them as if they had not been read.
* **A checkpoint is one step.** Barriers are aligned in mode `EXACTLY_ONCE`, so
  offsets and keyed state belong to one point of every partition. A failure
  while a checkpoint is being taken equals a failure without it. The sink
  flushes first (`setFlushOnCheckpoint`, the default).
* **Sets for the topic and the records in flight.** No property speaks of the
  order of the output. Two copies of one review from different starts differ in
  `attempt`; two copies from one start with the same metadata are one element,
  and `MergeAndBufferReview` shows that a double emission is still seen, by the
  metadata update that follows.
* **The registry keeps its state during one handler call.**
* **Records are model values** with a product, and two defects: a timestamp
  `int()` cannot read (`Malformed`), and a null the merge schema forbids
  (`Nonconforming`).

### `Lakehouse` and the code

| Model | Code |
|---|---|
| `topic`, `Arrive` | the topic `merge_metadata_reviews` as the streaming query sees it |
| `planned`, `committed` | the offset log and the commit log under `checkpointLocation` |
| `PlanBatch`, `CommitBatch`, `RestartQuery` | the trigger of `writeStream`, the return of `process`, a start from the checkpoint |
| `AppendStreaming`, `AppendRefined` | the two writes of `process`: an error of the first one ends the query, an error of the second one is swallowed by `except: pass` |
| `AddUuids` | `main` of `adding_uuidv7.py` |
| `columns`, `Accepts` | the columns of the refined folder that tell its writers apart, and Delta's enforcement of them (neither writer sets `mergeSchema`) |
| `appends`, `NewRows` | each write evaluates `uuidv7_udf` anew, so a row is a record and the append that wrote it |
| `Undecodable`, `Stuck` | the records on which `process_raw` raises, on every replay; a batch that holds one fails at `AppendStreaming` and is never committed |

A Delta append is one atomic step. A storage fault stands for any passing failure
of an append other than refused columns; in `AppendStreaming` it also stands for a
registry that does not answer. An undecodable record does not pass: the query fails
at its batch whenever it is restarted, before anything of the batch is appended.
`topic` holds each record once: what
`MergeStreams` says about copies is not repeated here. `Codec` models the
decoding in `process_raw`.

`StreamingCopiesTopic` maps `DeltaCopy` onto this state: `source` is `topic`,
`table` is the set of records in the streaming folder. `AppendStreaming` is its
`Copy`, also when a replay copies nothing new; every other step leaves both alone
or is an `Arrive`.

### `Warehouse` and the code

| Model | Code |
|---|---|
| `step` | the position in `create_tables` and in `main` of `generate_silver_schema.py`; each statement has a connection and a commit of its own |
| `DropTable`, `CreateTable` | the queries of `create_tables`, in its order (`Dropped`, `Created`) |
| `FillTable`, `FillTableFails`, `Filled` | the four queries and their JDBC appends |
| `Selected`, `Readable` | what a query selects, and whether it names only columns the folder has |
| `Permitted` | the primary keys and the foreign keys of `fact_reviews` |
| `SubmitJob`, `Ordered`, `UuidsAdded` | the task of the DAG, after `wait_for_adding_uuidv7`; without `Ordered` somebody submits the job at any time |

Spark resolves the latest version of a Delta folder for each query, so each
`FillTable` reads `refined` as it is at that moment. A JDBC append commits each
partition on its own, so a refused or interrupted one leaves any part of its
rows that the keys permit. A row stands for its `review_id` and its `time_id`,
which every append generates together. The four tables that are dropped and
never created are left out. The refined folder is one symbolic folder here, as if
the folder names of the jobs agreed; the run `orchestration_folders` shows what
the names that are deployed lead to.

### `PipelineJobs`, `Orchestration` and the code

| Model | Code |
|---|---|
| `Program(a)` | the job behind application `a`: `spark.read` of its folders (`Load`), each overwrite with the folders it is computed from (`Write`), `get_schema` (`Need`), `register_schema` (`Register`), one line of a file (`Insert`) |
| `DeltaWritten`, `DeltaRead`, `Merge`, `Historical`, `RefinedWritten`, `RefinedRead` | the folder names as each job sees them: from the `env` of its manifest, from the default in `config_k8s.py`, or fixed in the script |
| `content[f]`, `seen` | which execution wrote a folder last, and which ones the current execution has read: Spark is lazy, so a folder is read again for each write |
| `Crash`, `Fail` | `restartPolicy: OnFailure` of the inserter jobs, the restart of the Flink job, and the Spark applications, which have none |
| `BatchTasks`, `StreamTasks`, `Upstream`, `BatchUpstream`, `StreamUpstream` | the tasks of the two DAG files and the arrows at their ends |
| `RunSubmit`, `ReadManifest`, `Apply`, `Applicable` | the `KubernetesPodOperator` that runs `kubectl apply -f` on a manifest mounted from a configmap; an unchanged manifest changes nothing, and the template of a Job is immutable |
| `StartWait`, `Poll`, `Timeout` | the shell loop of a wait task: `COMPLETED` or `RUNNING` succeeds, `FAILED` exits 1, anything else sleeps and polls again |
| `TryFails`, `Retries` | `retries: 1` of `default_args` |
| `StartDagRun`, `Ended` | `schedule_interval`; `max_active_runs` and `depends_on_past` have their defaults |
| `OperatorReacts` | the Spark and Flink operators and the Job controller, some time after the object changed |
| `manifest[a]`, `repository` | the copies of a manifest: the configmap somebody made of it by hand (README.md:304), which the DAG mounts, and for the FlinkDeployment also the file in the repository |
| `JenkinsDeploys` | the stage of the `Jenkinsfile` that applies the FlinkDeployment of the repository (line 52), at any time and in a version of its own |

Abstractions:

* **One behaviour runs one DAG.** `dag` is chosen at the beginning: the two DAGs
  share no application, folder or task, and the subjects of the registry, which
  the stream side registers, are a `Need` of the batch side in either case.
* **A submit task is one step.** Before its one command it does nothing; its pod
  may die before or after that command (`TaskDies`). The states `scheduled`,
  `queued` and `upstream_failed` of a task follow from the others (`Ready`,
  `Ended`) and are not variables.
* **An edit of a manifest is merged with the `kubectl apply` that reads it**: an
  edit nobody applies has no effect.
* **The subjects a job registers or needs are one step**: each lookup is an
  assertion, and nobody but the Flink job registers any.
* **Polls that learn nothing are counted, not timed.**
* **Either copy of a manifest is edited at most once, and by itself.** Jenkins and
  the DAG may therefore deploy different versions of the Flink job in turn, so that
  its object goes back to an older one.
* `raced` is history: a DAG run started before the work of the one before had
  ended, or a wait task took the status of the previous execution for this one.

### `Transforms`, `Codec` and the code

| Model | Code |
|---|---|
| `CleanReviews`, `CleanMetadata` | the filters of `convert_raw2delta_avro_v2.py`; the flattened JSON is a row |
| `BrandedProducts`, `Deduplicated` | `coalesce(brand, store)`, `initcap`, `dropDuplicates`, which may keep any row of a product |
| `ProductKeys`, `ReviewsAgg`, `SubProducts`, `ProductMetadata` | the union of the keys, the two aggregates and the three left joins of `convert_merge2delta_v2.py` |
| `Without`, `GroupedMart`, `ProductsMart`, `TopOf`, `UsersMart` | the marts of `generate_data_mart_v2.py`; `max(struct(...))` compares the number of purchases first |
| `Group`, `Select`, `SumOf`, `Values`, `LeftJoin` | SQL: a condition on null is not true, `SUM` ignores nulls and is null over nothing but nulls, an unmatched row of a left join is extended with nulls |
| `Latin1Decode`, `Utf8Encode` | `serialize` of the Flink job and the `SimpleStringSchema` of its sink |
| `Utf8Decode`, `Latin1Encode`, `Utf8Decodable`, `Latin1Encodable` | `.decode("utf-8").encode("latin1")` of `process_raw` |

Files and row tables are bags, since rows repeat; the result of a grouping, or
of a join on a key the right side has once, is a set, and `ProductsOnce` would
see a key that came twice. `TransformsAssumption` gives the columns the types of the
two Avro schemas, `NULL` being none of their values; a product id is the number of
its place in the order of strings, which is all that `max(struct(...))` asks of it. Columns that are only copied (titles, texts, prices,
timestamps) are left out but for one required one of each file; averages are the
quotient of a sum and a count the model has, and are left out too. Characters
above U+07FF never occur in a latin1 string, so the longer forms of utf-8 are
refused by the model's decoder.

## 4. What the runs check

| Run | Instance | Shows |
|---|---|---|
| `merge_safety` | 2 reviews, 2 metadata records of one product in 1 + 2 partitions; one of the reviews malformed; one task failure, one job manager failure, one registry outage (3.9 million states up to symmetry) | `TypeOK`, `StateIsReplay`, `NoSilentLoss`, `OncePerAttempt`, `CommittedNeverRewinds` |
| `merge_join` | 2 reviews, 2 metadata records (one of them rejected by the schema), two task failures, fairness (199 thousand states) | `NoSilentLoss` with rejected reviews, and the refinement to `StreamJoin`, liveness included |
| `merge_duplication` | one task failure | violated: `RestartWithoutDuplication` |
| `merge_loss` | one job manager failure | violated: `RestartWithoutLoss` |
| `lakehouse_safety` | 4 merged records, one of them undecodable, 2 historical rows, two driver failures, two storage failures, two runs of `adding_uuidv7`, fairness (687 thousand states) | `TypeOK`, `StreamingComplete`, `CopiesNeedFailures`, `RefinedFollowsStreaming`, `RefinedGapsExplained`, `NothingPastUndecodable`, `CommittedIsFinal`, `EveryRecordStored`, the refinement `StreamingCopiesTopic` |
| `lakehouse_alongside` | 3 merged records, all of them decodable, without failures, one run of `adding_uuidv7` | violated: `StoredAlongside` |
| `warehouse_safety` | 3 merged records of two products, 1 historical row, two jobs at any time, one driver failure (288 thousand states) | `WarehouseTypeOK`, `FactsHaveDimensions`, `CompletedIsSnapshot` |
| `warehouse_columns` | 2 merged records, one job after `adding_uuidv7`, no failure | violated: `SilverJobSucceeds` |
| `orchestration_safety` | either DAG; two runs or one run and a death in the batch DAG, three such events in the stream DAG; the configmaps of `merge2delta`, `generate_data_mart` and `insert_reviews` and the FlinkDeployment of the repository edited; files of 2 lines; folder names that agree; fairness (1.3 million states) | `OrchestrationTypeOK`, `InputsWritten`, `StreamingFindsSchema`, `OneVersionRead`, `IngestedInOrder`, `EveryDagRunEnds` |
| `orchestration_folders` | one run of either DAG, no deaths, no edits, the folder names as deployed | violated: `InputsExist` |
| `orchestration_daily` | two runs of the batch DAG, no deaths, no edits, folder names that agree | violated: `EveryRunExecutes` |
| `transforms` | all files of up to 4 reviews and 3 metadata rows, over 9 and 8 kinds of row; all records of up to 4 bytes out of 8 (501 thousand states) | `TransformsTypeOK`, `ProductsOnce`, `ReviewsConserved`, `BrandsMatchCategories`, `BuyersOnce`, `TopBrandIsMostBought`, `ChoiceOnlyNames`, `RecordSurvives` |

The properties, in words:

* `StateIsReplay`: keyed state is what the consumed records leave, in the
  running job and in the checkpoint. A review never waits beside metadata of its
  product, metadata is never forgotten, and neither drifts from the offsets.
* `NoSilentLoss`: a review behind the checkpoint's offset is saved in it,
  delivered, or given up, and the cause of giving it up really occurred.
* `OncePerAttempt`: between two starts of the job, at most one copy per review,
  however often metadata is updated.
* `CommittedNeverRewinds`: not even a new job manager moves the group back.
* `AtLeastOnceJoin`: every review whose product has metadata is eventually
  delivered with metadata of the same product, or rejected by the schema.

* `StreamingComplete`, `CommittedIsFinal`, `CopiesNeedFailures`: a committed
  record is in the streaming folder and is never appended again; more than one
  copy needs as many driver failures.
* `RefinedFollowsStreaming`, `RefinedGapsExplained`: the refined folder never
  runs ahead of the streaming folder, and a committed record misses there only
  if storage failed or the historical job had fixed the columns.
* `NothingPastUndecodable`: a record that cannot be decoded, and every record behind it,
  is in neither folder, whatever is restarted and replayed.
* `EveryRecordStored`: unless the query stays failed or is stuck in a batch it cannot
  decode, every record reaches the streaming folder.
* `StreamingCopiesTopic`: at any time the streaming folder holds the records up to
  some place of the topic, none beyond it and none missing before it.
* `FactsHaveDimensions`: at no point of a rebuild, of a refused append or after
  a failure does a fact refer to a missing row.
* `CompletedIsSnapshot`: if the job completes, the four tables come from one
  version of the folder, although nothing locks it: a fact that arrived after
  its dimension was copied would have been refused.

* `InputsWritten`: whatever is retried, restarted, edited or left over, a batch job
  finds each folder that a job before it in the chain writes under that name. Only the
  wait tasks make it so. `InputsExist` asks the same of every folder it loads, and
  fails with the names that are deployed.
* `StreamingFindsSchema`: the streaming job never starts before the subject it
  asserts is registered, although Flink may be restarted, and deployed by Jenkins,
  at any time.
* `OneVersionRead`: a completed `merge2delta` or `generate_data_mart` has computed
  all its outputs from one execution of the job before, unless DAG runs or
  executions raced.
* `IngestedInOrder`: no line of a file has fewer copies than a later one, none has
  more copies than the inserter had starts, and none is missing when it completes.
* `EveryDagRunEnds`: every run of a DAG ends, even if its applications hang.

* `ProductsOnce`: the merged metadata has one row for each product with a review or
  a brand; the three joins lose and multiply none.
* `ReviewsConserved`: every cleaned review is counted once by product and once by
  parent product; the two ways in which purchases are counted agree.
* `BrandsMatchCategories`: `mart_brands` and `mart_categories` count the same
  reviews.
* `BuyersOnce`, `TopBrandIsMostBought`: every buyer is in `mart_users` once, with the
  brand and category of a product they bought most often.
* `ChoiceOnlyNames`: `dropDuplicates` has no order, so each evaluation may keep
  another row of a product. Whichever it keeps, the marts list the same products and
  users with the same numbers, and the brands add up to the same totals; only names
  of brands and categories change.
* `RecordSurvives`: whatever its bytes, a record can be decoded, and the
  deserializer gets the bytes the serializer gave.

**Findings.** README.md:76 of the repository says that "Flink can restart
without loss or duplication in cases Flink jobs failed." The model of what is
deployed does neither. Duplication: the producer runs with the default
at-least-once semantic, so what was sent after the last checkpoint is sent again
by a task restart. Loss: without high availability a new job manager starts
from the committed offsets with empty state, so reviews that waited for
metadata are forgotten (`cause = "restart"`).

README.md:9 says that the streaming job stores its data "alongside historical
records". Once `adding_uuidv7` has created the refined folder, without
`time_id`, every append of the streaming job is refused and the refusal is
swallowed: `lakehouse_alongside`. README.md:10 says that the silver job merges
batch and stream data into Postgres. In the same state its first query names a
column the folder does not have: `warehouse_columns` ends with four empty
tables. In the opposite order the folder has `time_id`, the silver job can
complete, and `adding_uuidv7` is refused.

README.md:5 says that the jobs of the batch workflow are orchestrated by Airflow,
and README.md:7 that merging follows. `raw2delta-avro.yaml:51-52` makes the
conversion write below `historical-delta-format-data`, but
`convert_merge2delta_v2.py:6` loads `silver/historical-delta-format-data`, which
no deployed job writes: `orchestration_folders` finds the merge job submitted with
nothing to load. The same holds one job further: `adding-uuidv7.yaml:42-43` names
`merge-data`, which nobody writes, and `generate-silver-schema.yaml:50-51` names
`refined-merge-data`, while the writers take the default of `config_k8s.py`.
`orchestration_safety` therefore runs with the defaults (`Deployed = FALSE`), and
with the folder `silver/historical-merge-data` that a former version of the merge
job has left (`Leftover`): with the defaults, too, the present one writes
elsewhere. `InputsWritten` needs neither.

`batch_dag_pipeline.py:18-19` calls the batch DAG "A DAG to schedule Spark jobs", once a
day. Its submit tasks apply the same SparkApplication objects every day, and applying
an unchanged object starts nothing: `orchestration_daily` finds two runs, one
after the other, of which every task succeeds and only the first executes a job.
The wait tasks of the second take the `COMPLETED` of the day before.

**Bounds.** `MaxFaults` limits the faults of each kind. One of each is enough
for the known causes to meet in one behaviour and for a restart to happen in
the middle of every other; `merge_join` uses two task failures so that a replay
fails again. `MaxAttempts` caps `attempt` at 5, more starts than those faults can
cause. In `merge_safety` the malformed review also makes the job fail, over and over,
and the cap merges the later starts, about which `OncePerAttempt` says nothing and
which the other properties do not tell apart. Reviews that are all well-formed are
left to `merge_join`, with task failures, and to the theorems. Two metadata records on
two partitions give an update, also out of order; two reviews give a buffer with an
order. The keys are separated by definition (each handler touches the state of its
product only), so one product is enough.

`merge_safety` is checked up to `Swaps`: the two metadata records have the same
product and no defect, and the two metadata partitions the same subtask, so
exchanging them maps behaviours to behaviours and properties to themselves. The run
has no liveness property, and no definition it evaluates chooses among them.

`Lakehouse` and `Warehouse` bound the same way: two failures of a kind make a
replay fail again, two runs of `adding_uuidv7` (`MaxRuns`) give a first and a
repeated append, two jobs (`MaxJobs`) give a rebuild over what the first one
left; three records give batches of one, two and three, and a product with two
reviews beside one with a single review; the fourth, undecodable one may arrive before,
between and behind them.

`Orchestration`: `MaxDagRuns = 2` gives a run over what the first one left, and
two runs at once; `MaxEvents` bounds runs, deaths and the edit of the
repository together, 2 for the batch DAG
(a repeated run, or one run with a death) and 3 for the stream DAG, whose
programs are shorter. `MaxPolls = 1` stands for 12000 and 180: a wait task times
out after a poll that learned nothing, at any speed of the applications. `Editable`
names the manifests that may be edited, each once: a job in the middle of the
chain, one at its end, and one whose template is immutable. `Lines = 2` tells the
first line from a later one; `BackoffLimit = 1` gives a restart and a failure.

`Transforms`: three metadata rows give duplicates of a product with a different
brand and category; four reviews give two variants, two users, unknown flags and
votes, and a tie between the products a user bought most. `Codec`: `MCBytes` holds
every border between lengths of a character and kinds of a byte, and four of them
any neighbourhood a decoder looks at.

**Deadlock** is checked in every run of `MergeStreams`: a running job can always
checkpoint. The runs of `Lakehouse` and `Warehouse` stop when the records have
arrived and the runs, jobs and faults are used up, those of `Orchestration` when
the runs of the DAG are, those of `Transforms` when the marts are written, so it is
not checked there.

**Fairness.** `Fairness` assumes that Flink keeps reading each partition, that
the producer keeps retrying each record, that `Submit` and `Restart` happen
(the operator and the default restart strategy retry without limit), and that
the registry comes back. Weak fairness is enough: these steps stay enabled until
taken or until a fault stops them, and faults are finitely many. Nothing is
assumed of publication, faults, checkpoints or commits. The liveness part of
`AtLeastOnceJoin` is claimed only where the code can deliver it: no outage, no
job manager failure, no malformed timestamp; `merge_safety` shows what happens
otherwise.

`FairSpec` of `Lakehouse` assumes only that a running query keeps processing
(the trigger fires for ever). It assumes no restart: the application has no
`restartPolicy`, so a failed query stays failed until somebody resubmits it.
`EveryRecordStored` has that as its premise: it speaks of the behaviours in which
the query is not failed for ever, whatever failed before. A query that an undecodable
record blocks fails for ever however often it is restarted, which is the second
exception.

`FairSpec` of `Orchestration` assumes that the scheduler and the pods of its tasks
run on: weak fairness of `Airflow`. Nothing is assumed of operators and
applications, which is the point of `EveryDagRunEnds`: every loop is bounded and
every retry is counted.

**Mutants.** Each checked property is violated by a plausible slip: no flush at
a checkpoint, a missing `clear()`, a review both yielded and buffered, a
swallowed exception, a Python list for the `ListState`, a resume one record too
far, `setStartFromEarliest`; offsets committed before the batch is processed, a
batch that starts at the last record of the one before, a missing
`checkpointLocation`, undecodable records filtered out; a missing `GROUP BY`,
dimensions dropped before facts, no foreign keys; wait tasks left out of the chain, an apply that creates the object
anew, an endless retry, an inserter that resumes at the next line; a missing
filter, a missing `dropDuplicates`, keys of the metadata alone, a flag compared
the wrong way round, a struct with its columns swapped, duplicates dropped by
category; a sink that writes a byte
per character.

## 5. What is proved

The theorems of `MergeStreamsProofs` hold for every set of records, products
and partitions, any number of faults and any `MaxAttempts`, from
`ConstantsAssumption` alone: the records and partitions of the two kinds are
disjoint, every record has a product and every product a subtask.

| Theorem | Statement |
|---|---|
| `TypeCorrect` | `Spec => [](TypeOK /\ OffsetsOrdered)` |
| `CommittedMonotonic` | `Spec => CommittedNeverRewinds` |
| `StateReplaysLog` | `Spec => []StateIsReplay` |
| `NoReviewSlipsAway` | `Spec => []NoSilentLoss` |
| `DuplicatesNeedRestarts` | `Spec => []OncePerAttempt` |

The argument, from the bottom up:

1. `TypeOK` is not inductive: `Submit` sets `offset` to `committed`, which says
   nothing about the end of the log. `OffsetsOrdered` (origin, committed,
   checkpoint and job offsets follow one another) supplies the bound, and also
   gives `CommittedMonotonic`: the only action that changes `committed` moves it
   to the checkpoint's offset.
2. `StateIsReplay` is inductive on top of these. The lemmas `ReplayMetadata`,
   `ReplayBufferedReview` and `ReplayMergedReview` say how one more record
   extends a replay, `ReadsAdvance` and `ReadsAppend` how reading and publishing
   change what was read.
3. `NoSilentLoss` speaks of the checkpoint; the step `Checkpoint` needs the same
   account of the running job (`LiveAccounted`, where a review may also be in
   flight), the schema cause needs `StateIsReplay` (the metadata a review met
   was published and is of its product), and the other two causes need
   `FaultsCounted` (the registry is down only after it failed; only a job
   manager failure leaves reviews behind in a checkpoint).
4. `OncePerAttempt` needs that the log holds each record once (`LogDistinct`),
   that no output is from a later attempt (`AttemptsBounded`), and that what the
   running attempt has sent it has read and no longer buffers (`SentIsSettled`):
   the next record is unread, and the buffered ones are unsent.

`JoinRefinementProofs` adds `JobImplementsJoin`, `Spec => Join!Spec`, from the
same assumption: each step of the job is an arrival, a delivery, a rejection or
nothing to `StreamJoin`. It needs `PendingJoined`: what the producer holds is a
join of two published records of one product, and the schema accepts it, so that
its acknowledgement is a `Deliver` of the abstract specification whenever it comes,
also after a restart of the job.

The theorems about the other modules, and what they rest on:

| Module | Theorem | Statement | Assumptions |
|---|---|---|---|
| `LakehouseProofs` | `LakehouseTypeCorrect` | `Spec => []TypeOK` | `LakehouseAssumption` |
| | `CommittedIsStored` | `Spec => []StreamingComplete` | |
| | `LakehouseImplementsCopy` | `Spec => StreamingCopiesTopic` | |
| | `CommittedNeverAppendedAgain` | `Spec => CommittedIsFinal` | |
| | `GapsHaveCauses` | `Spec => []RefinedGapsExplained` | |
| | `RefinedNeverAhead` | `Spec => []RefinedFollowsStreaming` | |
| | `RepeatedCopiesNeedFailures` | `Spec => []CopiesNeedFailures` | |
| | `UndecodableBlocks` | `Spec => []NothingPastUndecodable` | |
| `WarehouseProofs` | `WarehouseTypeCorrect` | `WarehouseSpec => []WarehouseTypeOK` | `LakehouseAssumption`, `WarehouseAssumption` |
| | `FactsAlwaysHaveDimensions` | `WarehouseSpec => []FactsHaveDimensions` | |
| | `CompletionIsSnapshot` | `WarehouseSpec => []CompletedIsSnapshot` | |
| `OrchestrationProofs` | `OrchestrationTypeCorrect` | `Spec => []OrchestrationTypeOK` | `JobsAssumption`, `OrchestrationAssumption` |
| | `InsertersKeepOrder` | `Spec => []IngestedInOrder` | |
| | `SchemaBeforeStreaming` | `Spec => []StreamingFindsSchema` | |
| | `LoadsFindFolders` | `Spec => []InputsWritten` | with either set of folder names, whatever is left over |
| | `ReadersSeeOneVersion` | `Spec => []OneVersionRead` | with either set of folder names |
| `TransformsProofs` | `TransformsComputed` | `TransformsSpec => []Computed` | `TransformsAssumption` |
| | `TransformsTyped` | `TransformsSpec => []TransformsTypeOK` | |
| | `ProductsAreOnce` | `TransformsSpec => []ProductsOnce` | |
| | `ReviewsAreConserved` | `TransformsSpec => []ReviewsConserved` | |
| | `BrandsAndCategoriesMatch` | `TransformsSpec => []BrandsMatchCategories` | |
| | `BuyersAreOnce` | `TransformsSpec => []BuyersOnce` | |
| | `TopBrandsAreMostBought` | `TransformsSpec => []TopBrandIsMostBought` | |
| | `ChoicesOnlyName` | `TransformsSpec => []ChoiceOnlyNames` | |
| `CodecProofs` | `RecordsSurvive` | `CodecSpec => []RecordSurvives` | `CodecAssumption` |

`Lakehouse`. `BatchInProgress` says what a batch has appended at each step of
`process`, which gives `StreamingComplete` and the refinement: the streaming
folder holds the records up to the planned place or up to the committed one.
`TopicDistinct` makes a committed record differ from every later one, hence
`CommittedIsFinal`. `CommitExplained` gives each gap its cause when its batch is
committed. `CopiesFinite` makes the copies countable, and a replay, which needs a
driver failure, adds one at most. `Decoded` says that no
committed batch held an undecodable record, and that while one holds up the batch at
hand nothing beyond the committed batches is stored, which gives `UndecodableBlocks`.

`Warehouse`. `FactsHaveDimensions` and `CompletedIsSnapshot` are inductive
together with `JobProgress`: which tables a running job has dropped, created and
filled, each from an earlier or the present version of a folder that only grows.
The last append can only be accepted as a whole if its keys are in the
dimensions, and a newer version has rows whose keys are not, so the versions
were one.

`Orchestration`. The invariants, from the bottom up:

1. `JobsInv`: what a past step of a program has left (a folder that exists, a
   registered subject) is still there, whoever moves. `Versions`: no object has
   a version that no copy of its manifest holds (`Newest`), and the operator has acted
   on no other; only the FlinkDeployment, which two copies feed, goes back to an older
   version, and the object of a Job never sees a second one. `TasksTyped` bounds the
   tries of each task.
2. `Inserted` counts the copies of each line against the starts and the place of
   the inserter.
3. `ChainDone`: a wait task has succeeded only over work that is done, and nothing
   was submitted before the work it rests on. It survives late operators and stale
   states because what is done once stays done. `StreamingFindsSchema` follows, and so
   does `InputsWritten`: a job that is done has written all its folders, and what was
   there at the start stays (`LeftBehind`).
4. Existence is not enough for `OneVersionRead`. `UpstreamDone` orders the tasks of
   each run. `Alone` says what the absence of a race buys: only the last run has
   work under way, and where its wait task has succeeded that work is over, so
   `FeederCompleted`: while a job reads, the one that writes its input does not run.
   `Written` says that no folder has two writers, so that a completed writer's
   folders all carry its last execution (`InputsAgree`); with the deployed names
   nobody writes what `merge2delta` reads. Then `ReadsOne` is inductive.

`Transforms`. The invariants say nothing of the tables before the last one, so none
of them is inductive. `Computed` is: each table that has been written is what its job
makes of the tables before it, for some choice of `dropDuplicates`, and the files are
finite bags. What is left is about operators, for tables of any size:

1. `SumTheorems`: a sum over a finite set does not depend on the order in which
   `FoldSet` takes its elements, so that rows can be added up group by group
   (`SumByKey`). The library's induction theorems cannot be used, so induction on a
   finite set is the existence of a smallest bad subset, which
   `WellFoundedInduction` gives without an operator as a parameter.
2. `SumOfValue` and `Aggregates` reduce each way of counting (`Count`, `SUM` of a
   column with nulls, `SUM` of a flag, a filter on it) to a sum of the same shares of
   the rows (`Share`). `SelectCounts` takes them through the selection of columns,
   which may make rows equal.
3. `JoinRows`: a left join on a key that the right side has once keeps the keys of the
   left side and adds one row of the right side, or nulls. Three of them give
   `MetadataRows`: one row for each product, with the shares of its reviews.
4. `GroupedMartTotal`, `ParentMartTotal`, `ProductsMartTotal`, `UsersMartTotal`: each
   mart adds up to the shares of the reviews it is about. `ReviewsConserved` and
   `BrandsMatchCategories` compare two of them; for the brands and categories it is
   essential that a cleaned product row has a category, so that a row of the metadata
   has a brand exactly when it has a category.
5. `TopIsMostBought`: the maximum over a finite, nonempty set of products exists. The
   inner joins of `mart_users` therefore find exactly one row for each buyer
   (`TopRowOfBuyer`).
6. `DeduplicatedProducts`: every choice has the same products, once each.
   `NamedRows`, `NamelessUsers` and `BrandsTotal` say of each part of the marts that it
   depends on the choice by nothing but those.

`Codec`. `RecordSurvives` does not say how a value came about. `Encoded` does: the value
is the encoded record, and decodes to the record. One byte more appends the one or two
bytes of its character to the value; the decoder takes them for a character of their
own, whatever precedes them (`DecodedByte`, `DecodedPair`), because flattening can be
done piece by piece (`FlattenAppend`).

The strengthenings of `MergeStreams`, `Lakehouse` and `Warehouse`, and `Computed` of
`Transforms`, were model-checked before they were proved; of `Orchestration` the
properties themselves were.

Only model-checked: `EveryRecordStored`, `EveryDagRunEnds` and the liveness half of
`AtLeastOnceJoin`, because liveness under fairness is outside the prover's reach. Every
invariant and every action property that a passing run checks is also a theorem. The
proofs do not depend on the runs, nor the runs on the proofs.

## 6. Not modelled

* The first versions of the batch jobs, which no manifest deploys:
  `convert_raw2delta_avro.py`, `convert_merge2delta.py`, and the marts over JDBC in
  `generate_data_mart.py` with `create_data_mart_tables.py`.
* `upload_s3.py`: one copy per file, before everything else.
* Which columns an inserter fills from a line: a name per column, no decision.
* Averages, and the conversion of timestamps and time zones: the properties tell
  counts and keys apart, not values.
* `delete_schema`: called by hand only.
* Hazards without a property, because the code promises nothing there: buffered
  reviews that wait for ever, the two identifiers a record gets in two folders, the
  batch jobs that start before the stream side has registered their subjects, and the
  applications at the end of the chain for which nobody waits. Wait tasks that take
  the state of the previous execution are an exception of `OneVersionRead` (`raced`).
* `upgradeMode: savepoint` (`flink-merge-streams.yaml:23,92`): an upgrade of the running
  job from a savepoint. To the state of `MergeStreams` it is a `Checkpoint` followed by
  a `TaskFails` and a `Restart` from it, which the model has.
* Two silver jobs at the same time: the application has one name, and a second
  one starts only after the first has ended.
* Parsing of messages whose JSON lacks `after` (deletes): the inserters never
  delete.
* `create_table`: it creates a Postgres table nobody uses.
* Expiry of state: the code has none; a review without metadata waits for ever.
* Configuration of infrastructure and third-party services.
