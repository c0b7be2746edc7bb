---------------------------- MODULE PipelineJobs ----------------------------
(***************************************************************************)
(* The programs of the applications the two DAGs submit, as the steps that *)
(* other applications can see: folders they load and overwrite, subjects   *)
(* of the schema registry they register and need, rows they insert.  Every *)
(* write is a transaction of its own and reads the latest version of its   *)
(* input folders; an application may fail between any two steps.           *)
(***************************************************************************)
EXTENDS Integers, Sequences, FiniteSets

CONSTANTS Deployed,      \* TRUE: folder names of the manifests, FALSE: the defaults
          Leftover,      \* folders that exist before the first run
          Lines,         \* how many lines the file of an inserter has
          BackoffLimit   \* how often Kubernetes restarts the container of a Job

BatchApps == {"raw2delta_avro", "merge2delta", "adding_uuidv7",
              "generate_silver_schema", "generate_data_mart"}
Inserters == {"insert_reviews", "insert_metadata"}
Services == {"flink_merge_streams", "streaming_data"}
StreamApps == Inserters \cup Services
Apps == BatchApps \cup StreamApps

Subjects == {"review", "metadata", "merge_metadata_reviews"}

(* DELTA_DATA_FOLDER, MERGE_DATA_FOLDER and REFINED_MERGE_DATA_FOLDER as   *)
(* each job sees them: from its manifest, from config_k8s, or fixed in it. *)
DeltaWritten ==
  IF Deployed THEN "historical-delta-format-data" ELSE "silver/historical-delta-format-data"
DeltaRead == "silver/historical-delta-format-data"
Merge == "silver/merge-data"
Historical == IF Deployed THEN "merge-data" ELSE "silver/historical-merge-data"
RefinedWritten == "gold/merge-data"
RefinedRead == IF Deployed THEN "refined-merge-data" ELSE "gold/merge-data"

(* The Delta tables that some job reads; what lies below a mart or in the  *)
(* warehouse is read by none.                                              *)
Folders == {DeltaWritten, DeltaRead, Merge} \X {"reviews", "metadata"}
           \cup {Historical, RefinedWritten, RefinedRead} \X {""}

ASSUME JobsAssumption ==
  /\ Deployed \in BOOLEAN
  /\ Leftover \subseteq Folders
  /\ Lines \in Nat \ {0}
  /\ BackoffLimit \in Nat

VARIABLES
  app,         \* app[a]: the latest execution of application a
  content,     \* content[f]: 0 if folder f is missing, 1 if a former job has left it,
               \* n + 1 if the n-th execution of its writer was the last to write it
  subjects,    \* the subjects of the schema registry
  rows         \* rows[a][l]: how often inserter a has inserted line l

data == <<content, subjects, rows>>
jobs == <<app, data>>

-----------------------------------------------------------------------------
Load(folders) == [op |-> "load", on |-> "", from |-> folders]
Write(folder, from) == [op |-> "write", on |-> folder, from |-> from]
Need(names) == [op |-> "need", on |-> "", from |-> names]
Register(names) == [op |-> "register", on |-> "", from |-> names]
Insert == [op |-> "insert", on |-> "", from |-> {}]
Elsewhere == <<"elsewhere", "">>

RawToDelta ==
  << Need({"review", "metadata"}),
     Write(<<DeltaWritten, "reviews">>, {}), Write(<<DeltaWritten, "metadata">>, {}) >>

MergeToDelta ==
  LET reviews == <<DeltaRead, "reviews">>  metadata == <<DeltaRead, "metadata">>
  IN << Load({reviews, metadata}),
        Write(<<Merge, "reviews">>, {reviews}),
        Write(<<Merge, "metadata">>, {reviews, metadata}) >>

AddingUuids == << Load({<<Historical, "">>}), Write(<<RefinedWritten, "">>, {<<Historical, "">>}) >>

(* What it does to the tables of the warehouse is in Warehouse. *)
SilverSchema == << Load({<<RefinedRead, "">>}), Write(Elsewhere, {<<RefinedRead, "">>}) >>

(* mart_parent_products, mart_brands, mart_products, mart_categories, mart_users *)
DataMarts ==
  LET reviews == <<Merge, "reviews">>  metadata == <<Merge, "metadata">>
  IN << Load({reviews, metadata}), Write(Elsewhere, {metadata}), Write(Elsewhere, {metadata}),
        Write(Elsewhere, {reviews}), Write(Elsewhere, {metadata}),
        Write(Elsewhere, {reviews, metadata}) >>

Program(a) ==
  CASE a = "raw2delta_avro" -> RawToDelta
    [] a = "merge2delta" -> MergeToDelta
    [] a = "adding_uuidv7" -> AddingUuids
    [] a = "generate_silver_schema" -> SilverSchema
    [] a = "generate_data_mart" -> DataMarts
    [] a \in Inserters -> [l \in 1..Lines |-> Insert]
    [] a = "flink_merge_streams" ->
         << Register(Subjects) >>
    [] a = "streaming_data" -> << Need({"merge_metadata_reviews"}) >>

-----------------------------------------------------------------------------
NotRun == [status |-> "new", pc |-> 1, execution |-> 0, seen |-> {}, restarts |-> 0]

JobsInit ==
  /\ app = [a \in Apps |-> NotRun]
  /\ content = [f \in Folders |-> IF f \in Leftover THEN 1 ELSE 0]
  /\ subjects = {}
  /\ rows = [a \in Inserters |-> [l \in 1..Lines |-> 0]]

Exists(f) == content[f] # 0

(* A service has reached its endless loop. *)
Serving(a) == app[a].status = "running" /\ app[a].pc > Len(Program(a))

AtStep(a, op) ==
  /\ app[a].status = "running"
  /\ app[a].pc <= Len(Program(a))
  /\ Program(a)[app[a].pc].op = op

Advance(a) ==
  LET last == app[a].pc = Len(Program(a))
      step == Program(a)[app[a].pc]
  IN app' = [app EXCEPT ![a].pc = @ + 1,
                        ![a].seen = @ \cup
                           (IF step.op = "write" THEN {content[f] : f \in step.from} ELSE {}),
                        ![a].status = IF last /\ a \notin Services THEN "completed" ELSE @]

(* Mutant of Crash: a restarted inserter goes on at the next line.         *)
CrashAndSkip(a) ==
  app' = [app EXCEPT ![a].restarts = @ + 1,
               ![a].pc = IF a \in Inserters /\ @ < Lines THEN @ + 1 ELSE 1,
               ![a].status = IF a \in Inserters \cup {"flink_merge_streams"} THEN @ ELSE "failed"]

(* An uncaught exception ends a Spark application: it has no restartPolicy. *)
Fail(a) == app' = [app EXCEPT ![a].status = "failed", ![a].pc = 1, ![a].seen = {}]

(* A container is killed.  An inserter is restarted (restartPolicy         *)
(* OnFailure), the Flink job too, a Spark application is not.              *)
Crash(a) ==
  \/ /\ a \in Inserters /\ app[a].restarts < BackoffLimit
     /\ app' = [app EXCEPT ![a].pc = 1, ![a].restarts = @ + 1]
  \/ /\ a = "flink_merge_streams"
     /\ app' = [app EXCEPT ![a].pc = 1]
  \/ /\ a \in Inserters => app[a].restarts = BackoffLimit
     /\ a # "flink_merge_streams"
     /\ Fail(a)

-----------------------------------------------------------------------------
(* spark.read of folders that must exist. *)
LoadFolders(a) ==
  /\ AtStep(a, "load")
  /\ IF \A f \in Program(a)[app[a].pc].from : Exists(f) THEN Advance(a) ELSE Fail(a)
  /\ UNCHANGED data

(* An overwrite, atomic, from the latest versions of its inputs. *)
WriteFolder(a) ==
  /\ AtStep(a, "write")
  /\ Advance(a)
  /\ LET folder == Program(a)[app[a].pc].on
     IN content' = IF folder = Elsewhere THEN content
                   ELSE [content EXCEPT ![folder] = app[a].execution + 1]
  /\ UNCHANGED <<subjects, rows>>

(* get_schema, once per subject, asserts that it is registered. *)
NeedSubject(a) ==
  /\ AtStep(a, "need")
  /\ IF Program(a)[app[a].pc].from \subseteq subjects THEN Advance(a) ELSE Fail(a)
  /\ UNCHANGED data

(* register_schema, once per subject, leaves a subject alone that is there. *)
RegisterSubject(a) ==
  /\ AtStep(a, "register")
  /\ Advance(a)
  /\ subjects' = subjects \cup Program(a)[app[a].pc].from
  /\ UNCHANGED <<content, rows>>

(* One line of the file, inserted and committed. *)
InsertLine(a) ==
  /\ AtStep(a, "insert")
  /\ Advance(a)
  /\ rows' = [rows EXCEPT ![a][app[a].pc] = @ + 1]
  /\ UNCHANGED <<content, subjects>>

JobStep(a) ==
  LoadFolders(a) \/ WriteFolder(a) \/ NeedSubject(a) \/ RegisterSubject(a) \/ InsertLine(a)

JobDies(a) ==
  /\ app[a].status = "running"
  /\ Crash(a)
  /\ UNCHANGED data

(* A new execution of an application, in place of a running one.           *)
Execute(a) ==
  /\ app' = [app EXCEPT ![a] =
       [NotRun EXCEPT !.status = "running", !.execution = app[a].execution + 1]]
  /\ UNCHANGED data

JobsTypeOK ==
  /\ \A a \in Apps :
       /\ app[a].status \in {"new", "running", "completed", "failed"}
       /\ app[a].pc \in 1..(Len(Program(a)) + 1)
       /\ app[a].execution \in Nat
       /\ app[a].seen \subseteq Nat \ {0}
       /\ app[a].restarts \in 0..BackoffLimit
  /\ content \in [Folders -> Nat]
  /\ subjects \subseteq Subjects
  /\ rows \in [Inserters -> [1..Lines -> Nat]]
=============================================================================
