--------------------------- MODULE Orchestration ---------------------------
(***************************************************************************)
(* The two Airflow DAGs of k8s/airflow/dags over Kubernetes.  A submit     *)
(* task applies the manifest of an application, a wait task polls the      *)
(* status the operator has last written into the object; every task is     *)
(* tried twice.  Applying an unchanged manifest changes nothing, and after *)
(* a changed one the status stays that of the previous execution until     *)
(* the operator has reacted.                                               *)
(***************************************************************************)
EXTENDS PipelineJobs

CONSTANTS MaxDagRuns,   \* bound: runs of the DAG
          MaxEvents,    \* bound: runs of the DAG, deaths and edits of the repository
          MaxPolls,     \* polls of a wait task: 12000 and 180 in the DAGs
          Editable      \* bound: the configmaps that are edited, each once

Retries == 1

ASSUME OrchestrationAssumption ==
  /\ MaxDagRuns \in Nat
  /\ MaxEvents \in [{"batch", "stream"} -> Nat]
  /\ MaxPolls \in Nat
  /\ Editable \subseteq Apps

VARIABLES
  dag,        \* the DAG of this behaviour, "batch" or "stream"
  started,    \* how many runs of it have started
  task,       \* task[r][t]: the state of task t in run r
  tries,      \* tries[r][t]: its failed tries
  polls,      \* polls[r]: polls without an answer of the last wait task of run r
  manifest,   \* manifest[a]: the version of the manifest of a in its configmap
  repository, \* the version of the FlinkDeployment's manifest in the repository
  spec,       \* spec[a]: the version in the object of a, 0 if there is none
  observed,   \* observed[a]: the version the operator has acted on
  raced,      \* history: a race of the DAG with itself has happened
  events      \* how many runs, deaths of containers and pods, and edits of the
              \* repository there were

copies == <<manifest, repository>>
objects == <<spec, observed>>
airflow == <<started, task, tries, polls>>
vars == <<jobs, dag, airflow, copies, objects, raced, events>>

DagRuns == 1..MaxDagRuns

-----------------------------------------------------------------------------
Submit(a) == <<"submit", a>>
Wait(a) == <<"wait", a>>

BatchTasks ==
  {Submit(a) : a \in BatchApps}
    \cup {Wait(a) : a \in {"raw2delta_avro", "merge2delta", "adding_uuidv7"}}
StreamTasks == {Submit(a) : a \in StreamApps} \cup {Wait("flink_merge_streams")}
Tasks == IF dag = "batch" THEN BatchTasks ELSE StreamTasks

DagApps == IF dag = "batch" THEN BatchApps ELSE StreamApps
WaitedFor == {a \in DagApps : Wait(a) \in Tasks}

(* Mutant of Upstream: nothing waits for merge2delta and for Flink.        *)
UpstreamWithoutWaits(t) ==
  CASE t = Submit("merge2delta") -> {Wait("raw2delta_avro")}
    [] t = Submit("adding_uuidv7") -> {Submit("merge2delta")}
    [] t = Submit("streaming_data") -> {Submit("flink_merge_streams")}
    [] t \in {Submit("generate_silver_schema"), Submit("generate_data_mart")} ->
         {Wait("adding_uuidv7")}
    [] t[1] = "wait" -> {Submit(t[2])}
    [] t = Submit("flink_merge_streams") -> {Submit(a) : a \in Inserters}
    [] OTHER -> {}

(* The arrows at the end of the two files. *)
BatchUpstream(t) ==
  CASE t = Submit("merge2delta") -> {Wait("raw2delta_avro")}
    [] t = Submit("adding_uuidv7") -> {Wait("merge2delta")}
    [] t \in {Submit("generate_silver_schema"), Submit("generate_data_mart")} ->
         {Wait("adding_uuidv7")}
    [] OTHER -> {}

StreamUpstream(t) ==
  CASE t = Submit("flink_merge_streams") -> {Submit(a) : a \in Inserters}
    [] t = Submit("streaming_data") -> {Wait("flink_merge_streams")}
    [] OTHER -> {}

Upstream(t) ==
  IF t[1] = "wait" THEN {Submit(t[2])} ELSE BatchUpstream(t) \cup StreamUpstream(t)

(* The default trigger rule: all upstream tasks have succeeded.            *)
Ready(r, t) ==
  /\ task[r][t] \in {"none", "up_for_retry"}
  /\ \A u \in Upstream(t) : task[r][u] = "success"

(* Nothing is left to do for run r: a task that has not run waits for one  *)
(* that has failed or will not run either (upstream_failed).               *)
Ended(r) ==
  /\ r <= started
  /\ \A t \in Tasks : task[r][t] # "running" /\ ~Ready(r, t)

(* What a poll sees: the state of the last execution the operator knows.   *)
Succeeded(a) ==
  IF a = "flink_merge_streams" THEN Serving(a) ELSE app[a].status = "completed"
Failed(a) == a # "flink_merge_streams" /\ app[a].status = "failed"
Stale(a) == spec[a] # observed[a]

Event ==
  /\ events < MaxEvents[dag]
  /\ events' = events + 1

-----------------------------------------------------------------------------
Init ==
  /\ JobsInit
  /\ dag \in {"batch", "stream"}
  /\ started = 0
  /\ task = [r \in DagRuns |-> [t \in Tasks |-> "none"]]
  /\ tries = [r \in DagRuns |-> [t \in Tasks |-> 0]]
  /\ polls = [r \in DagRuns |-> 0]
  /\ manifest = [a \in Apps |-> 1]
  /\ repository = 1
  /\ spec = [a \in Apps |-> 0]
  /\ observed = [a \in Apps |-> 0]
  /\ raced = FALSE
  /\ events = 0

(* A day has passed.  Neither the tasks nor the applications of the run    *)
(* before need to have ended: max_active_runs and depends_on_past have     *)
(* their defaults.                                                         *)
StartDagRun ==
  /\ started < MaxDagRuns
  /\ Event
  /\ started' = started + 1
  /\ raced' = \/ raced
              \/ \E r \in 1..started : ~Ended(r)
              \/ \E a \in BatchApps : Stale(a) \/ app[a].status = "running"
  /\ UNCHANGED <<jobs, dag, task, tries, polls, copies, objects>>

SetTask(r, t, state) == task' = [task EXCEPT ![r][t] = state]

(* A wait task starts to poll. *)
StartWait(r, a) ==
  /\ Ready(r, Wait(a))
  /\ SetTask(r, Wait(a), "running")
  /\ polls' = [polls EXCEPT ![r] = 0]
  /\ UNCHANGED <<jobs, dag, started, tries, copies, objects, raced, events>>

(* Mutant of TryFails: a task is retried for ever.                         *)
TryFailsForever(r, t) == SetTask(r, t, "up_for_retry") /\ UNCHANGED tries

TryFails(r, t) ==
  /\ SetTask(r, t, IF tries[r][t] < Retries THEN "up_for_retry" ELSE "failed")
  /\ tries' = [tries EXCEPT ![r][t] = @ + 1]

(* What the configmap of an application holds when it is read: somebody    *)
(* may have edited the manifest since it was read last.                    *)
ReadManifest(a) ==
  \/ UNCHANGED manifest
  \/ /\ a \in Editable /\ manifest[a] = 1 /\ spec[a] # 0
     /\ manifest' = [manifest EXCEPT ![a] = 2]

(* Mutant of Apply: every apply creates the object anew.                   *)
ApplyAnew(a) == spec' = [spec EXCEPT ![a] = observed[a] + 1]

(* kubectl apply.  The template of a Job cannot be changed.                *)
Apply(a) == spec' = [spec EXCEPT ![a] = manifest'[a]]
Applicable(a) == a \in Inserters => spec[a] \in {0, manifest'[a]}

(* A submit task runs: before its one command it does nothing.             *)
RunSubmit(r, a) ==
  /\ Ready(r, Submit(a))
  /\ ReadManifest(a)
  /\ \/ /\ Applicable(a)
        /\ Apply(a)
        /\ SetTask(r, Submit(a), "success")
        /\ UNCHANGED tries
     \/ /\ ~Applicable(a)
        /\ TryFails(r, Submit(a))
        /\ UNCHANGED spec
  /\ UNCHANGED <<jobs, dag, started, polls, repository, observed, raced, events>>

(* One turn of the loop of a wait task. *)
Poll(r, a) ==
  /\ task[r][Wait(a)] = "running"
  /\ polls[r] < MaxPolls
  /\ \/ /\ Succeeded(a)
        /\ SetTask(r, Wait(a), "success")
        /\ UNCHANGED <<tries, polls>>
     \/ /\ Failed(a)
        /\ TryFails(r, Wait(a))
        /\ UNCHANGED polls
     \/ /\ ~Succeeded(a) /\ ~Failed(a)
        /\ polls' = [polls EXCEPT ![r] = @ + 1]
        /\ UNCHANGED <<task, tries>>
  /\ raced' = (raced \/ (Stale(a) /\ Succeeded(a)))
  /\ UNCHANGED <<jobs, dag, started, copies, objects, events>>

(* The loop has ended without an answer. *)
Timeout(r, a) ==
  /\ task[r][Wait(a)] = "running"
  /\ polls[r] = MaxPolls
  /\ TryFails(r, Wait(a))
  /\ UNCHANGED <<jobs, dag, started, polls, copies, objects, raced, events>>

(* The pod of a task dies, that of a submit task before or after the apply. *)
TaskDies(r, t) ==
  /\ task[r][t] = "running" \/ (t[1] = "submit" /\ Ready(r, t))
  /\ Event
  /\ TryFails(r, t)
  /\ UNCHANGED copies
  /\ \/ UNCHANGED spec
     \/ /\ t[1] = "submit"
        /\ Applicable(t[2])
        /\ Apply(t[2])
  /\ UNCHANGED <<jobs, dag, started, polls, observed, raced>>

-----------------------------------------------------------------------------
(* An operator sees a new or changed object and (re)starts its application. *)
OperatorReacts(a) ==
  /\ Stale(a)
  /\ observed' = [observed EXCEPT ![a] = spec[a]]
  /\ Execute(a)
  /\ UNCHANGED <<dag, airflow, copies, spec, raced, events>>

RunJob(a) ==
  /\ JobStep(a)
  /\ UNCHANGED <<dag, airflow, copies, objects, raced, events>>

ContainerDies(a) ==
  /\ Event
  /\ JobDies(a)
  /\ UNCHANGED <<dag, airflow, copies, objects, raced>>

(* The Jenkins pipeline applies the FlinkDeployment of the repository,     *)
(* whatever the DAGs do.  The configmap was once made from that file, and  *)
(* either copy may have been edited since.                                 *)
JenkinsDeploys ==
  /\ \/ UNCHANGED <<repository, events>>
     \/ /\ repository = 1
        /\ repository' = 2
        /\ Event
  /\ spec' = [spec EXCEPT !["flink_merge_streams"] = repository']
  /\ UNCHANGED <<jobs, dag, airflow, manifest, observed, raced>>

-----------------------------------------------------------------------------
Airflow ==
  \E r \in 1..started :
    \/ \E a \in DagApps : RunSubmit(r, a)
    \/ \E a \in WaitedFor : StartWait(r, a) \/ Poll(r, a) \/ Timeout(r, a)

Next ==
  \/ StartDagRun
  \/ Airflow
  \/ \E r \in 1..started : \E t \in Tasks : TaskDies(r, t)
  \/ \E a \in Apps : OperatorReacts(a) \/ RunJob(a) \/ ContainerDies(a)
  \/ JenkinsDeploys

Spec == Init /\ [][Next]_vars

(* The Airflow scheduler and the pods of its tasks keep running; nothing   *)
(* is assumed of operators and applications.                               *)
FairSpec == Spec /\ WF_vars(Airflow)

-----------------------------------------------------------------------------
(* The newest version of the manifest of a in any copy. *)
Newest(a) ==
  IF a = "flink_merge_streams" /\ repository > manifest[a] THEN repository ELSE manifest[a]

(* Every variable has its type.  A version travels from a copy of the      *)
(* manifest to the object and from there to the operator; only that of the *)
(* FlinkDeployment, which has two copies, may go back.                     *)
OrchestrationTypeOK ==
  /\ JobsTypeOK
  /\ dag \in {"batch", "stream"}
  /\ started \in 0..MaxDagRuns
  /\ task \in [DagRuns -> [Tasks -> {"none", "running", "up_for_retry", "success", "failed"}]]
  /\ tries \in [DagRuns -> [Tasks -> 0..(Retries + 1)]]
  /\ polls \in [DagRuns -> 0..MaxPolls]
  /\ manifest \in [Apps -> {1, 2}] /\ repository \in {1, 2}
  /\ \A a \in Apps :
       /\ spec[a] \in 0..Newest(a) /\ observed[a] \in 0..Newest(a)
       /\ spec[a] = 0 => observed[a] = 0
       /\ a # "flink_merge_streams" => observed[a] <= spec[a]
  /\ raced \in BOOLEAN

(* The jobs whose work job a rests on, as README.md:6-11 lists them. *)
Before(a) ==
  CASE a = "merge2delta" -> {"raw2delta_avro"}
    [] a = "adding_uuidv7" -> {"raw2delta_avro", "merge2delta"}
    [] a \in {"generate_silver_schema", "generate_data_mart"} ->
         {"raw2delta_avro", "merge2delta", "adding_uuidv7"}
    [] a = "streaming_data" -> {"flink_merge_streams"}
    [] OTHER -> {}

Writes(a) == {i \in DOMAIN Program(a) : Program(a)[i].op = "write"}
Outputs(a) == {Program(a)[i].on : i \in Writes(a)}

(* Whatever is retried, restarted, edited or left over, and under whatever *)
(* names: a job of the batch chain finds every folder that a job before it *)
(* writes, for each is submitted only after the one before has written     *)
(* (batch_dag_pipeline.py:282).  A folder that misses is one that no       *)
(* earlier job writes under that name.                                     *)
InputsWritten ==
  \A a \in BatchApps :
    AtStep(a, "load") =>
      \A f \in Program(a)[app[a].pc].from :
        f \in Leftover \/ (\E b \in Before(a) : f \in Outputs(b)) => Exists(f)

(* The streaming job finds the schema of its topic, whenever the Flink job *)
(* is restarted: it is submitted only after that job was seen RUNNING      *)
(* (stream_dag_pipeline.py:101, utils.py:31).                              *)
StreamingFindsSchema ==
  app["streaming_data"].status # "new" => "merge_metadata_reviews" \in subjects

(* A completed job has read one version of its input, although it reads    *)
(* the folders write by write and nothing locks them: only a DAG run that  *)
(* starts before the work of the one before has ended, or a wait task that *)
(* takes the status of the previous execution for this one, can mix two    *)
(* (convert_merge2delta_v2.py:98-103, generate_data_mart_v2.py:50-161).    *)
OneVersionRead ==
  \A a \in {"merge2delta", "generate_data_mart"} :
    app[a].status = "completed" =>
      \/ Cardinality(app[a].seen) = 1
      \/ raced

(* A file is inserted from its first line after every restart: no line     *)
(* has fewer copies than a later one, none more than there were starts,    *)
(* and none is missing when the Job has completed (insert_reviews.py:48).  *)
IngestedInOrder ==
  \A a \in Inserters :
    /\ \A k, l \in 1..Lines : k < l => rows[a][k] >= rows[a][l]
    /\ \A l \in 1..Lines : rows[a][l] <= app[a].restarts + 1
    /\ app[a].status = "completed" => rows[a][Lines] > 0

(* Every run of a DAG ends, even if the applications it waits for hang.    *)
EveryDagRunEnds == <>[](\A r \in 1..started : Ended(r))

-----------------------------------------------------------------------------
(* README.md:5 lists the jobs of the batch workflow as "orchestrated by    *)
(* Apache Airflow", each resting on the one before: what a job loads is    *)
(* there when it is submitted.                                             *)
InputsExist ==
  \A a \in BatchApps :
    AtStep(a, "load") => \A f \in Program(a)[app[a].pc].from : Exists(f)

(* batch_dag_pipeline.py:18: "A DAG to schedule Spark jobs", every day     *)
(* (line 19).  Unless the DAG races with itself, each of its runs that has *)
(* succeeded has had its jobs executed.                                    *)
RunSucceeded(r) == \A t \in Tasks : task[r][t] = "success"
EveryRunExecutes ==
  \A a \in WaitedFor \cap BatchApps :
    raced \/ app[a].execution >= Cardinality({r \in DagRuns : RunSucceeded(r)})
=============================================================================
