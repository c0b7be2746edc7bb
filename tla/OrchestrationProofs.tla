------------------------ MODULE OrchestrationProofs ------------------------
(***************************************************************************)
(* Theorems about the two DAGs and the applications they submit, for any   *)
(* number of runs, polls, edits, deaths, lines and restarts.               *)
(***************************************************************************)
EXTENDS Orchestration, FiniteSetTheorems, TLAPS

Ops == {"load", "write", "need", "register", "insert"}
Statuses == {"new", "running", "completed", "failed"}
TaskStates == {"none", "running", "up_for_retry", "success", "failed"}

(* An execution of an application, as JobsTypeOK describes it. *)
Executions == [status : Statuses, pc : Nat \ {0}, execution : Nat,
               seen : SUBSET Nat, restarts : 0..BackoffLimit]

AppsTyped ==
  /\ app \in [Apps -> Executions]
  /\ \A a \in Apps : app[a].pc <= Len(Program(a)) + 1

-----------------------------------------------------------------------------
(* What the programs are made of, step by step.                            *)
LEMMA Programs ==
  /\ Program("raw2delta_avro") = RawToDelta
  /\ Program("merge2delta") = MergeToDelta
  /\ Program("adding_uuidv7") = AddingUuids
  /\ Program("generate_silver_schema") = SilverSchema
  /\ Program("generate_data_mart") = DataMarts
  /\ \A a \in Inserters : Program(a) = [l \in 1..Lines |-> Insert]
  /\ Program("flink_merge_streams") = << Register(Subjects) >>
  /\ Program("streaming_data") = << Need({"merge_metadata_reviews"}) >>
BY DEF Program, Inserters

LEMMA Lengths ==
  /\ Len(Program("raw2delta_avro")) = 3
  /\ Len(Program("merge2delta")) = 3
  /\ Len(Program("adding_uuidv7")) = 2
  /\ Len(Program("generate_silver_schema")) = 2
  /\ Len(Program("generate_data_mart")) = 6
  /\ \A a \in Inserters : Len(Program(a)) = Lines
  /\ Len(Program("flink_merge_streams")) = 1
  /\ Len(Program("streaming_data")) = 1
<1>1. Len(RawToDelta) = 3 /\ Len(MergeToDelta) = 3
  BY DEF RawToDelta, MergeToDelta
<1>2. Len(AddingUuids) = 2 /\ Len(SilverSchema) = 2
  BY DEF AddingUuids, SilverSchema
<1>3. Len(DataMarts) = 6
  BY DEF DataMarts
<1>4. Len([l \in 1..Lines |-> Insert]) = Lines
  BY JobsAssumption
<1>5. Len(<< Register(Subjects) >>) = 1 /\ Len(<< Need({"merge_metadata_reviews"}) >>) = 1
  OBVIOUS
<1>. QED
  BY <1>1, <1>2, <1>3, <1>4, <1>5, Programs

LEMMA ProgramLength == \A a \in Apps : Len(Program(a)) \in Nat \ {0}
BY Lengths, JobsAssumption DEF Apps, BatchApps, StreamApps, Services

LEMMA ProgramDomain == \A a \in Apps : DOMAIN Program(a) = 1..Len(Program(a))
<1>1. DOMAIN RawToDelta = 1..3 /\ DOMAIN MergeToDelta = 1..3
  BY DEF RawToDelta, MergeToDelta
<1>2. DOMAIN AddingUuids = 1..2 /\ DOMAIN SilverSchema = 1..2
  BY DEF AddingUuids, SilverSchema
<1>3. DOMAIN DataMarts = 1..6
  BY DEF DataMarts
<1>4. DOMAIN [l \in 1..Lines |-> Insert] = 1..Lines
  OBVIOUS
<1>5. DOMAIN << Register(Subjects) >> = 1..1 /\ DOMAIN << Need({"merge_metadata_reviews"}) >> = 1..1
  OBVIOUS
<1>. QED
  BY <1>1, <1>2, <1>3, <1>4, <1>5, Programs, Lengths
     DEF Apps, BatchApps, StreamApps, Services

-----------------------------------------------------------------------------
(* What the ways an application moves on leave in app[a], field by field.  *)
LEMMA AdvanceEffect ==
  ASSUME AppsTyped, NEW a \in Apps, app[a].status = "running",
         app[a].pc <= Len(Program(a)), Advance(a),
         content \in [Folders -> Nat],
         Program(a)[app[a].pc].op = "write" =>
           Program(a)[app[a].pc].from \subseteq Folders
  PROVE  /\ app' \in [Apps -> Executions]
         /\ \A b \in Apps \ {a} : app'[b] = app[b]
         /\ app'[a].pc = app[a].pc + 1
         /\ app'[a].execution = app[a].execution
         /\ app'[a].restarts = app[a].restarts
         /\ app'[a].status \in {"running", "completed"}
         /\ app'[a].status = "completed" <=>
              app[a].pc = Len(Program(a)) /\ a \notin Services
         /\ app'[a].seen = app[a].seen \cup
              (IF Program(a)[app[a].pc].op = "write"
                 THEN {content[f] : f \in Program(a)[app[a].pc].from} ELSE {})
<1> DEFINE step == Program(a)[app[a].pc]
           seen == app[a].seen \cup
                     (IF step.op = "write" THEN {content[f] : f \in step.from} ELSE {})
           last == app[a].pc = Len(Program(a))
           status == IF last /\ a \notin Services THEN "completed" ELSE "running"
<1>1. app[a] \in Executions
  BY DEF AppsTyped
<1>2. seen \in SUBSET Nat
  BY <1>1 DEF Executions
<1>3. app' = [app EXCEPT ![a].pc = @ + 1, ![a].seen = seen, ![a].status = status]
  BY DEF Advance
<1>4. status \in {"running", "completed"} /\ (status = "completed" <=> last /\ a \notin Services)
  OBVIOUS
<1>. HIDE DEF seen, status, last
<1>5. app' = [app EXCEPT ![a] = [app[a] EXCEPT !.pc = @ + 1, !.seen = seen, !.status = status]]
  BY <1>1, <1>3 DEF Executions, AppsTyped
<1>6. app'[a] = [app[a] EXCEPT !.pc = @ + 1, !.seen = seen, !.status = status]
  BY <1>5 DEF AppsTyped
<1>7. app'[a] \in Executions
  <2>1. app'[a] = [status |-> status, pc |-> app[a].pc + 1, execution |-> app[a].execution,
                   seen |-> seen, restarts |-> app[a].restarts]
    BY <1>1, <1>6 DEF Executions
  <2>2. status \in Statuses
    BY <1>4 DEF Statuses
  <2>3. app[a].pc + 1 \in Nat \ {0}
    BY <1>1 DEF Executions
  <2>. QED
    BY <1>1, <1>2, <2>1, <2>2, <2>3 DEF Executions
<1>8. app' \in [Apps -> Executions] /\ \A b \in Apps \ {a} : app'[b] = app[b]
  BY <1>5, <1>6, <1>7 DEF AppsTyped
<1>9. app'[a].pc = app[a].pc + 1 /\ app'[a].execution = app[a].execution
      /\ app'[a].restarts = app[a].restarts /\ app'[a].status = status /\ app'[a].seen = seen
  BY <1>1, <1>6 DEF Executions
<1>. QED
  BY <1>4, <1>8, <1>9 DEF seen, last

LEMMA FailEffect ==
  ASSUME AppsTyped, NEW a \in Apps, Fail(a)
  PROVE  /\ app' \in [Apps -> Executions]
         /\ \A b \in Apps \ {a} : app'[b] = app[b]
         /\ app'[a].pc = 1 /\ app'[a].status = "failed" /\ app'[a].seen = {}
         /\ app'[a].execution = app[a].execution
         /\ app'[a].restarts = app[a].restarts
<1>1. app[a] \in Executions
  BY DEF AppsTyped
<1>2. app' = [app EXCEPT ![a] = [app[a] EXCEPT !.status = "failed", !.pc = 1, !.seen = {}]]
  BY <1>1 DEF Fail, Executions, AppsTyped
<1>3. app'[a] = [app[a] EXCEPT !.status = "failed", !.pc = 1, !.seen = {}]
  BY <1>2 DEF AppsTyped
<1>4. app'[a] \in Executions
  <2>1. app'[a] = [status |-> "failed", pc |-> 1, execution |-> app[a].execution,
                   seen |-> {}, restarts |-> app[a].restarts]
    BY <1>1, <1>3 DEF Executions
  <2>. QED
    BY <1>1, <2>1 DEF Executions, Statuses
<1>. QED
  BY <1>1, <1>2, <1>3, <1>4 DEF AppsTyped, Executions

LEMMA RestartEffect ==
  ASSUME AppsTyped, NEW a \in Apps,
         \/ a \in Inserters /\ app[a].restarts < BackoffLimit
            /\ app' = [app EXCEPT ![a].pc = 1, ![a].restarts = @ + 1]
         \/ a = "flink_merge_streams" /\ app' = [app EXCEPT ![a].pc = 1]
  PROVE  /\ app' \in [Apps -> Executions]
         /\ \A b \in Apps \ {a} : app'[b] = app[b]
         /\ app'[a].pc = 1 /\ app'[a].status = app[a].status
         /\ app'[a].seen = app[a].seen
         /\ app'[a].execution = app[a].execution
         /\ a \in Inserters => app'[a].restarts = app[a].restarts + 1
<1>0. "flink_merge_streams" \notin Inserters
  BY DEF Inserters
<1>1. app[a] \in Executions
  BY DEF AppsTyped
<1>2. CASE app' = [app EXCEPT ![a].pc = 1] /\ a \notin Inserters
  <2>1. app'[a] = [app[a] EXCEPT !.pc = 1] /\ \A b \in Apps \ {a} : app'[b] = app[b]
    BY <1>1, <1>2 DEF AppsTyped, Executions
  <2>2. app'[a] \in Executions
    BY <1>1, <2>1 DEF Executions
  <2>3. app' \in [Apps -> Executions]
    BY <1>2, <2>1, <2>2 DEF AppsTyped
  <2>. QED
    BY <1>1, <1>2, <2>1, <2>3 DEF Executions
<1>3. CASE app[a].restarts < BackoffLimit
           /\ app' = [app EXCEPT ![a].pc = 1, ![a].restarts = @ + 1]
  <2>1. app'[a] = [app[a] EXCEPT !.pc = 1, !.restarts = @ + 1]
        /\ \A b \in Apps \ {a} : app'[b] = app[b]
    BY <1>1, <1>3 DEF AppsTyped, Executions
  <2>2. app[a].restarts + 1 \in 0..BackoffLimit
    BY <1>1, <1>3, JobsAssumption DEF Executions
  <2>3. app'[a] \in Executions
    <3>1. app'[a] = [status |-> app[a].status, pc |-> 1, execution |-> app[a].execution,
                     seen |-> app[a].seen, restarts |-> app[a].restarts + 1]
      BY <1>1, <2>1 DEF Executions
    <3>. QED
      BY <1>1, <2>2, <3>1 DEF Executions
  <2>4. app' \in [Apps -> Executions]
    BY <1>3, <2>1, <2>3 DEF AppsTyped
  <2>. QED
    BY <1>1, <2>1, <2>4 DEF Executions
<1>. QED
  BY <1>0, <1>2, <1>3

LEMMA ExecuteEffect ==
  ASSUME AppsTyped, NEW a \in Apps, Execute(a)
  PROVE  /\ app' \in [Apps -> Executions]
         /\ \A b \in Apps \ {a} : app'[b] = app[b]
         /\ app'[a].pc = 1 /\ app'[a].status = "running" /\ app'[a].seen = {}
         /\ app'[a].execution = app[a].execution + 1
         /\ app'[a].restarts = 0
<1>1. app[a].execution \in Nat
  BY DEF AppsTyped, Executions
<1>2. app'[a] = [NotRun EXCEPT !.status = "running", !.execution = app[a].execution + 1]
      /\ \A b \in Apps \ {a} : app'[b] = app[b]
  BY DEF Execute, AppsTyped
<1>3. app'[a] = [status |-> "running", pc |-> 1, execution |-> app[a].execution + 1,
                 seen |-> {}, restarts |-> 0]
  BY <1>2 DEF NotRun
<1>4. app'[a] \in Executions
  BY <1>1, <1>3, JobsAssumption DEF Executions, Statuses
<1>5. app' \in [Apps -> Executions]
  BY <1>2, <1>4 DEF Execute, AppsTyped
<1>6. app'[a].pc = 1 /\ app'[a].status = "running" /\ app'[a].restarts = 0
      /\ app'[a].execution = app[a].execution + 1
  BY <1>3
<1>7. app'[a].seen = {}
  BY <1>3
<1>. QED
  BY <1>2, <1>5, <1>6, <1>7
-----------------------------------------------------------------------------
(* What a step says: what it reads was loaded in the first step, what it   *)
(* writes is a folder of the model or none that a job reads.               *)
WellFormed(program, i) ==
  LET s == program[i] IN
  /\ s.op \in Ops
  /\ s.op = "load" => i = 1 /\ s.from \subseteq Folders
  /\ s.op = "write" =>
       /\ s.on \in Folders \cup {Elsewhere}
       /\ s.from # {} => i > 1 /\ program[1].op = "load" /\ s.from \subseteq program[1].from
  /\ s.op \in {"need", "register"} => s.from \subseteq Subjects

LEMMA StepFields ==
  /\ \A from : Load(from).op = "load" /\ Load(from).from = from
  /\ \A on, from : /\ Write(on, from).op = "write"
                   /\ Write(on, from).on = on /\ Write(on, from).from = from
  /\ \A from : Need(from).op = "need" /\ Need(from).from = from
  /\ \A from : Register(from).op = "register" /\ Register(from).from = from
  /\ Insert.op = "insert"
BY DEF Load, Write, Need, Register, Insert

LEMMA FolderNames ==
  /\ \A k \in {"reviews", "metadata"} : /\ <<DeltaWritten, k>> \in Folders
                                        /\ <<DeltaRead, k>> \in Folders
                                        /\ <<Merge, k>> \in Folders
  /\ \A d \in {Historical, RefinedWritten, RefinedRead} : <<d, "">> \in Folders
  /\ Elsewhere \notin Folders
BY DEF Folders, Elsewhere, DeltaWritten, DeltaRead, Merge, Historical, RefinedWritten, RefinedRead

LEMMA RawToDeltaSteps ==
  /\ RawToDelta[1].op = "need" /\ RawToDelta[1].from = {"review", "metadata"}
  /\ RawToDelta[2].op = "write" /\ RawToDelta[2].from = {}
  /\ RawToDelta[2].on = <<DeltaWritten, "reviews">>
  /\ RawToDelta[3].op = "write" /\ RawToDelta[3].from = {}
  /\ RawToDelta[3].on = <<DeltaWritten, "metadata">>
<1>1. RawToDelta[1] = Need({"review", "metadata"})
  BY DEF RawToDelta
<1>2. RawToDelta[2] = Write(<<DeltaWritten, "reviews">>, {})
  BY DEF RawToDelta
<1>3. RawToDelta[3] = Write(<<DeltaWritten, "metadata">>, {})
  BY DEF RawToDelta
<1>. QED
  BY <1>1, <1>2, <1>3, StepFields

LEMMA MergeToDeltaSteps ==
  /\ MergeToDelta[1].op = "load" /\ MergeToDelta[1].from = {<<DeltaRead, "reviews">>, <<DeltaRead, "metadata">>}
  /\ MergeToDelta[2].op = "write" /\ MergeToDelta[2].from = {<<DeltaRead, "reviews">>}
  /\ MergeToDelta[2].on = <<Merge, "reviews">>
  /\ MergeToDelta[3].op = "write" /\ MergeToDelta[3].from = {<<DeltaRead, "reviews">>, <<DeltaRead, "metadata">>}
  /\ MergeToDelta[3].on = <<Merge, "metadata">>
<1>1. MergeToDelta[1] = Load({<<DeltaRead, "reviews">>, <<DeltaRead, "metadata">>})
  BY DEF MergeToDelta
<1>2. MergeToDelta[2] = Write(<<Merge, "reviews">>, {<<DeltaRead, "reviews">>})
  BY DEF MergeToDelta
<1>3. MergeToDelta[3] = Write(<<Merge, "metadata">>, {<<DeltaRead, "reviews">>, <<DeltaRead, "metadata">>})
  BY DEF MergeToDelta
<1>. QED
  BY <1>1, <1>2, <1>3, StepFields

LEMMA AddingUuidsSteps ==
  /\ AddingUuids[1].op = "load" /\ AddingUuids[1].from = {<<Historical, "">>}
  /\ AddingUuids[2].op = "write" /\ AddingUuids[2].from = {<<Historical, "">>}
  /\ AddingUuids[2].on = <<RefinedWritten, "">>
<1>1. AddingUuids[1] = Load({<<Historical, "">>})
  BY DEF AddingUuids
<1>2. AddingUuids[2] = Write(<<RefinedWritten, "">>, {<<Historical, "">>})
  BY DEF AddingUuids
<1>3. AddingUuids[1].op = "load" /\ AddingUuids[1].from = {<<Historical, "">>}
  BY <1>1, StepFields
<1>4. /\ AddingUuids[2].op = "write" /\ AddingUuids[2].from = {<<Historical, "">>}
      /\ AddingUuids[2].on = <<RefinedWritten, "">>
  <2>1. \A on, from : AddingUuids[2] = Write(on, from) =>
          /\ AddingUuids[2].op = "write" /\ AddingUuids[2].from = from /\ AddingUuids[2].on = on
    BY StepFields
  <2>. QED
    BY <1>2, <2>1
<1>. QED
  BY <1>3, <1>4

LEMMA SilverSchemaSteps ==
  /\ SilverSchema[1].op = "load" /\ SilverSchema[1].from = {<<RefinedRead, "">>}
  /\ SilverSchema[2].op = "write" /\ SilverSchema[2].from = {<<RefinedRead, "">>}
  /\ SilverSchema[2].on = Elsewhere
<1>1. SilverSchema[1] = Load({<<RefinedRead, "">>})
  BY DEF SilverSchema
<1>2. SilverSchema[2] = Write(Elsewhere, {<<RefinedRead, "">>})
  BY DEF SilverSchema
<1>3. SilverSchema[1].op = "load" /\ SilverSchema[1].from = {<<RefinedRead, "">>}
  BY <1>1, StepFields
<1>4. /\ SilverSchema[2].op = "write" /\ SilverSchema[2].from = {<<RefinedRead, "">>}
      /\ SilverSchema[2].on = Elsewhere
  <2>1. \A on, from : SilverSchema[2] = Write(on, from) =>
          /\ SilverSchema[2].op = "write" /\ SilverSchema[2].from = from /\ SilverSchema[2].on = on
    BY StepFields
  <2>. QED
    BY <1>2, <2>1
<1>. QED
  BY <1>3, <1>4

LEMMA DataMartsSteps ==
  /\ DataMarts[1].op = "load" /\ DataMarts[1].from = {<<Merge, "reviews">>, <<Merge, "metadata">>}
  /\ DataMarts[2].op = "write" /\ DataMarts[2].from = {<<Merge, "metadata">>}
  /\ DataMarts[2].on = Elsewhere
  /\ DataMarts[3].op = "write" /\ DataMarts[3].from = {<<Merge, "metadata">>}
  /\ DataMarts[3].on = Elsewhere
  /\ DataMarts[4].op = "write" /\ DataMarts[4].from = {<<Merge, "reviews">>}
  /\ DataMarts[4].on = Elsewhere
  /\ DataMarts[5].op = "write" /\ DataMarts[5].from = {<<Merge, "metadata">>}
  /\ DataMarts[5].on = Elsewhere
  /\ DataMarts[6].op = "write" /\ DataMarts[6].from = {<<Merge, "reviews">>, <<Merge, "metadata">>}
  /\ DataMarts[6].on = Elsewhere
<1>1. DataMarts[1] = Load({<<Merge, "reviews">>, <<Merge, "metadata">>})
  BY DEF DataMarts
<1>2. DataMarts[2] = Write(Elsewhere, {<<Merge, "metadata">>})
  BY DEF DataMarts
<1>3. DataMarts[3] = Write(Elsewhere, {<<Merge, "metadata">>})
  BY DEF DataMarts
<1>4. DataMarts[4] = Write(Elsewhere, {<<Merge, "reviews">>})
  BY DEF DataMarts
<1>5. DataMarts[5] = Write(Elsewhere, {<<Merge, "metadata">>})
  BY DEF DataMarts
<1>6. DataMarts[6] = Write(Elsewhere, {<<Merge, "reviews">>, <<Merge, "metadata">>})
  BY DEF DataMarts
<1>. QED
  BY <1>1, <1>2, <1>3, <1>4, <1>5, <1>6, StepFields

LEMMA LoadFirst ==
  ASSUME NEW program, program[1].op = "load", program[1].from \subseteq Folders
  PROVE  WellFormed(program, 1)
BY DEF WellFormed, Ops

LEMMA WriteLater ==
  ASSUME NEW program, program[1].op = "load",
         NEW i \in Nat, i > 1, program[i].op = "write",
         program[i].on \in Folders \cup {Elsewhere},
         program[i].from \subseteq program[1].from
  PROVE  WellFormed(program, i)
BY DEF WellFormed, Ops

LEMMA StepsWellFormed ==
  \A a \in Apps : \A i \in 1..Len(Program(a)) : WellFormed(Program(a), i)
<1>1. \A i \in 1..3 : i = 1 \/ i = 2 \/ i = 3
  OBVIOUS
<1>2. \A i \in 1..2 : i = 1 \/ i = 2
  OBVIOUS
<1>3. \A i \in 1..6 : i = 1 \/ i = 2 \/ i = 3 \/ i = 4 \/ i = 5 \/ i = 6
  OBVIOUS
<1>4. \A i \in 1..3 : WellFormed(RawToDelta, i)
  <2>1. WellFormed(RawToDelta, 1)
    BY RawToDeltaSteps DEF WellFormed, Ops, Subjects
  <2>2. /\ RawToDelta[2].on \in Folders /\ RawToDelta[2].from = {}
        /\ RawToDelta[3].on \in Folders /\ RawToDelta[3].from = {}
    BY RawToDeltaSteps, FolderNames
  <2>3. WellFormed(RawToDelta, 2)
    BY <2>2, RawToDeltaSteps DEF WellFormed, Ops
  <2>4. WellFormed(RawToDelta, 3)
    BY <2>2, RawToDeltaSteps DEF WellFormed, Ops
  <2>. QED
    BY <1>1, <2>1, <2>3, <2>4
<1>5. \A i \in 1..3 : WellFormed(MergeToDelta, i)
  <2>1. MergeToDelta[1].op = "load" /\ MergeToDelta[1].from \subseteq Folders
    BY MergeToDeltaSteps, FolderNames
  <2>2. WellFormed(MergeToDelta, 1)
    BY <2>1, LoadFirst
  <2>3. WellFormed(MergeToDelta, 2)
    <3>1. /\ MergeToDelta[2].op = "write" /\ MergeToDelta[2].on \in Folders \cup {Elsewhere}
          /\ MergeToDelta[2].from \subseteq MergeToDelta[1].from
      BY MergeToDeltaSteps, FolderNames
    <3>. QED
      BY <2>1, <3>1, WriteLater
  <2>4. WellFormed(MergeToDelta, 3)
    <3>1. /\ MergeToDelta[3].op = "write" /\ MergeToDelta[3].on \in Folders \cup {Elsewhere}
          /\ MergeToDelta[3].from \subseteq MergeToDelta[1].from
      BY MergeToDeltaSteps, FolderNames
    <3>. QED
      BY <2>1, <3>1, WriteLater
  <2>. QED
    BY <1>1, <2>2, <2>3, <2>4
<1>6. \A i \in 1..2 : WellFormed(AddingUuids, i)
  <2>1. AddingUuids[1].op = "load" /\ AddingUuids[1].from \subseteq Folders
    BY AddingUuidsSteps, FolderNames
  <2>2. WellFormed(AddingUuids, 1)
    BY <2>1, LoadFirst
  <2>3. WellFormed(AddingUuids, 2)
    <3>1. /\ AddingUuids[2].op = "write" /\ AddingUuids[2].on \in Folders \cup {Elsewhere}
          /\ AddingUuids[2].from \subseteq AddingUuids[1].from
      BY AddingUuidsSteps, FolderNames
    <3>. QED
      BY <2>1, <3>1, WriteLater
  <2>. QED
    BY <1>2, <2>2, <2>3
<1>7. \A i \in 1..2 : WellFormed(SilverSchema, i)
  <2>1. SilverSchema[1].op = "load" /\ SilverSchema[1].from \subseteq Folders
    BY SilverSchemaSteps, FolderNames
  <2>2. WellFormed(SilverSchema, 1)
    BY <2>1, LoadFirst
  <2>3. WellFormed(SilverSchema, 2)
    <3>1. /\ SilverSchema[2].op = "write" /\ SilverSchema[2].on \in Folders \cup {Elsewhere}
          /\ SilverSchema[2].from \subseteq SilverSchema[1].from
      BY SilverSchemaSteps, FolderNames
    <3>. QED
      BY <2>1, <3>1, WriteLater
  <2>. QED
    BY <1>2, <2>2, <2>3
<1>8. \A i \in 1..6 : WellFormed(DataMarts, i)
  <2>1. DataMarts[1].op = "load" /\ DataMarts[1].from \subseteq Folders
    BY DataMartsSteps, FolderNames
  <2>2. WellFormed(DataMarts, 1)
    BY <2>1, LoadFirst
  <2>3. WellFormed(DataMarts, 2)
    <3>1. /\ DataMarts[2].op = "write" /\ DataMarts[2].on \in Folders \cup {Elsewhere}
          /\ DataMarts[2].from \subseteq DataMarts[1].from
      BY DataMartsSteps, FolderNames
    <3>. QED
      BY <2>1, <3>1, WriteLater
  <2>4. WellFormed(DataMarts, 3)
    <3>1. /\ DataMarts[3].op = "write" /\ DataMarts[3].on \in Folders \cup {Elsewhere}
          /\ DataMarts[3].from \subseteq DataMarts[1].from
      BY DataMartsSteps, FolderNames
    <3>. QED
      BY <2>1, <3>1, WriteLater
  <2>5. WellFormed(DataMarts, 4)
    <3>1. /\ DataMarts[4].op = "write" /\ DataMarts[4].on \in Folders \cup {Elsewhere}
          /\ DataMarts[4].from \subseteq DataMarts[1].from
      BY DataMartsSteps, FolderNames
    <3>. QED
      BY <2>1, <3>1, WriteLater
  <2>6. WellFormed(DataMarts, 5)
    <3>1. /\ DataMarts[5].op = "write" /\ DataMarts[5].on \in Folders \cup {Elsewhere}
          /\ DataMarts[5].from \subseteq DataMarts[1].from
      BY DataMartsSteps, FolderNames
    <3>. QED
      BY <2>1, <3>1, WriteLater
  <2>7. WellFormed(DataMarts, 6)
    <3>1. /\ DataMarts[6].op = "write" /\ DataMarts[6].on \in Folders \cup {Elsewhere}
          /\ DataMarts[6].from \subseteq DataMarts[1].from
      BY DataMartsSteps, FolderNames
    <3>. QED
      BY <2>1, <3>1, WriteLater
  <2>. QED
    BY <1>3, <2>2, <2>3, <2>4, <2>5, <2>6, <2>7
<1>9. \A i \in 1..Lines : WellFormed([l \in 1..Lines |-> Insert], i)
  BY DEF WellFormed, Insert, Ops
<1>10. /\ WellFormed(<< Register(Subjects) >>, 1)
       /\ WellFormed(<< Need({"merge_metadata_reviews"}) >>, 1)
  BY DEF WellFormed, Register, Need, Ops, Subjects
<1>11. \A i \in 1..1 : i = 1
  OBVIOUS
<1>12. \A i \in 1..Len(Program("flink_merge_streams")) :
         WellFormed(Program("flink_merge_streams"), i)
  BY <1>10, <1>11, Programs, Lengths
<1>13. \A i \in 1..Len(Program("streaming_data")) : WellFormed(Program("streaming_data"), i)
  BY <1>10, <1>11, Programs, Lengths
<1>14. \A a \in Inserters : \A i \in 1..Len(Program(a)) : WellFormed(Program(a), i)
  BY <1>9, Programs, Lengths
<1>15. \A a \in BatchApps : \A i \in 1..Len(Program(a)) : WellFormed(Program(a), i)
  BY <1>4, <1>5, <1>6, <1>7, <1>8, Programs, Lengths DEF BatchApps
<1>. QED
  BY <1>12, <1>13, <1>14, <1>15 DEF Apps, StreamApps, Services

(* Only the inserters insert, and they do nothing else. *)
LEMMA InsertersInsert ==
  \A a \in Apps : \A i \in 1..Len(Program(a)) : Program(a)[i].op = "insert" <=> a \in Inserters
<1>1. \A i \in 1..3 : i = 1 \/ i = 2 \/ i = 3
  OBVIOUS
<1>2. \A i \in 1..2 : i = 1 \/ i = 2
  OBVIOUS
<1>3. \A i \in 1..6 : i = 1 \/ i = 2 \/ i = 3 \/ i = 4 \/ i = 5 \/ i = 6
  OBVIOUS
<1>4. \A i \in 1..3 : RawToDelta[i].op # "insert" /\ MergeToDelta[i].op # "insert"
  BY <1>1, RawToDeltaSteps, MergeToDeltaSteps
<1>5. \A i \in 1..2 : AddingUuids[i].op # "insert" /\ SilverSchema[i].op # "insert"
  BY <1>2, AddingUuidsSteps, SilverSchemaSteps
<1>6. \A i \in 1..6 : DataMarts[i].op # "insert"
  BY <1>3, DataMartsSteps
<1>7. \A a \in BatchApps : \A i \in 1..Len(Program(a)) : Program(a)[i].op # "insert"
  BY <1>4, <1>5, <1>6, Programs, Lengths DEF BatchApps
<1>8. /\ << Register(Subjects) >>[1].op # "insert"
      /\ << Need({"merge_metadata_reviews"}) >>[1].op # "insert"
  BY DEF Register, Need
<1>9. \A i \in 1..1 : i = 1
  OBVIOUS
<1>10. \A a \in Services : \A i \in 1..Len(Program(a)) : Program(a)[i].op # "insert"
  BY <1>8, <1>9, Programs, Lengths DEF Services
<1>11. \A a \in Inserters : \A i \in 1..Len(Program(a)) : Program(a)[i].op = "insert"
  <2> SUFFICES ASSUME NEW a \in Inserters, NEW i \in 1..Len(Program(a))
               PROVE  Program(a)[i].op = "insert"
    OBVIOUS
  <2>1. Program(a) = [l \in 1..Lines |-> Insert] /\ i \in 1..Lines
    BY Programs, Lengths
  <2>2. Program(a)[i] = Insert
    BY <2>1
  <2>. QED
    BY <2>2, StepFields
<1>12. Inserters \cap (BatchApps \cup Services) = {}
  BY DEF Inserters, BatchApps, Services
<1>. QED
  BY <1>7, <1>10, <1>11, <1>12 DEF Apps, StreamApps

-----------------------------------------------------------------------------
(* The applications themselves, whoever starts them and whenever.          *)
DataTyped ==
  /\ content \in [Folders -> Nat]
  /\ subjects \subseteq Subjects
  /\ rows \in [Inserters -> [1..Lines -> Nat]]

(* What step i of a has left for good: folders that exist and subjects     *)
(* that are registered stay so.                                            *)
LeftBehind(a, i) ==
  LET s == Program(a)[i] IN
  /\ s.op = "load" => \A f \in s.from : Exists(f)
  /\ s.op = "write" /\ s.on \in Folders => Exists(s.on)
  /\ s.op = "register" => s.from \subseteq subjects

PastSteps == \A a \in Apps : \A i \in 1..Len(Program(a)) : i < app[a].pc => LeftBehind(a, i)

JobsInv ==
  /\ AppsTyped
  /\ DataTyped
  /\ PastSteps
  /\ \A a \in Apps : /\ 0 \notin app[a].seen
                     /\ app[a].status = "completed" => app[a].pc = Len(Program(a)) + 1

DataGrows ==
  /\ \A f \in Folders : Exists(f) => Exists(f)'
  /\ subjects \subseteq subjects'

LEMMA LeftBehindStays ==
  ASSUME DataGrows, NEW a \in Apps, NEW i \in 1..Len(Program(a)), LeftBehind(a, i)
  PROVE  LeftBehind(a, i)'
<1>1. WellFormed(Program(a), i)
  BY StepsWellFormed
<1>. QED
  BY <1>1 DEF LeftBehind, WellFormed, DataGrows

LEMMA AdvanceKeeps ==
  ASSUME JobsInv, DataTyped', DataGrows, NEW a \in Apps,
         app[a].status = "running", app[a].pc <= Len(Program(a)), Advance(a),
         NEW now, now = app[a].pc, LeftBehind(a, now)'
  PROVE  JobsInv'
<1>1. AppsTyped /\ DataTyped /\ PastSteps
  BY DEF JobsInv
<1>2. now \in 1..Len(Program(a)) /\ Len(Program(a)) \in Nat
  BY <1>1, ProgramLength DEF AppsTyped, Executions
<1>3. WellFormed(Program(a), now)
  BY <1>2, StepsWellFormed
<1>4. Program(a)[now].op = "write" => Program(a)[now].from \subseteq Folders
  <2> SUFFICES ASSUME Program(a)[now].op = "write", Program(a)[now].from # {}
               PROVE  Program(a)[now].from \subseteq Folders
    OBVIOUS
  <2>1. Program(a)[1].op = "load" /\ Program(a)[now].from \subseteq Program(a)[1].from
    BY <1>3 DEF WellFormed
  <2>2. WellFormed(Program(a), 1)
    BY <1>2, StepsWellFormed
  <2>. QED
    BY <2>1, <2>2 DEF WellFormed
<1>5. /\ app' \in [Apps -> Executions]
      /\ \A b \in Apps \ {a} : app'[b] = app[b]
      /\ app'[a].pc = now + 1
      /\ app'[a].status = "completed" => now = Len(Program(a))
      /\ app'[a].seen = app[a].seen \cup
           (IF Program(a)[now].op = "write"
              THEN {content[f] : f \in Program(a)[now].from} ELSE {})
  BY <1>1, <1>4, AdvanceEffect DEF DataTyped
<1>6. AppsTyped'
  BY <1>1, <1>2, <1>5 DEF AppsTyped
<1>7. PastSteps'
  <2> SUFFICES ASSUME NEW b \in Apps, NEW i \in 1..Len(Program(b)), i < app'[b].pc
               PROVE  LeftBehind(b, i)'
    BY DEF PastSteps
  <2>1. CASE b = a /\ i = now
    BY <2>1
  <2>2. CASE ~(b = a /\ i = now)
    <3>1. i < app[b].pc
      BY <1>2, <1>5, <2>2
    <3>. QED
      BY <1>1, <3>1, LeftBehindStays DEF PastSteps
  <2>. QED
    BY <2>1, <2>2
<1>8. 0 \notin app'[a].seen
  <2>1. 0 \notin app[a].seen
    BY DEF JobsInv
  <2>2. ASSUME Program(a)[now].op = "write", NEW f \in Program(a)[now].from
        PROVE  content[f] # 0
    <3>1. now > 1 /\ Program(a)[1].op = "load" /\ f \in Program(a)[1].from
      BY <1>3, <2>2 DEF WellFormed
    <3>2. LeftBehind(a, 1)
      BY <1>1, <1>2, <3>1 DEF PastSteps
    <3>. QED
      BY <3>1, <3>2 DEF LeftBehind, Exists
  <2>. QED
    BY <1>5, <2>1, <2>2
<1>9. \A b \in Apps : /\ 0 \notin app'[b].seen
                      /\ app'[b].status = "completed" => app'[b].pc = Len(Program(b)) + 1
  BY <1>5, <1>8 DEF JobsInv
<1>. QED
  BY <1>6, <1>7, <1>9 DEF JobsInv

(* Going back to the first step: a failure, a restart, a new execution.    *)
LEMMA ResetKeeps ==
  ASSUME JobsInv, DataTyped', DataGrows, NEW a \in Apps,
         app' \in [Apps -> Executions], \A b \in Apps \ {a} : app'[b] = app[b],
         app'[a].pc = 1, app'[a].status # "completed", app'[a].seen \subseteq app[a].seen
  PROVE  JobsInv'
<1>1. AppsTyped'
  BY ProgramLength DEF JobsInv, AppsTyped
<1>2. PastSteps'
  <2> SUFFICES ASSUME NEW b \in Apps, NEW i \in 1..Len(Program(b)), i < app'[b].pc
               PROVE  LeftBehind(b, i)'
    BY DEF PastSteps
  <2>1. b # a
    <3>1. ~(i < 1)
      BY ProgramLength
    <3>. QED
      BY <3>1
  <2>2. i < app[b].pc
    BY <2>1
  <2>3. LeftBehind(b, i)
    BY <2>2 DEF JobsInv, PastSteps
  <2>. QED
    BY <2>3, LeftBehindStays
<1>. QED
  BY <1>1, <1>2 DEF JobsInv

LEMMA DataStays == ASSUME DataTyped, UNCHANGED data PROVE DataTyped' /\ DataGrows
BY DEF data, DataTyped, DataGrows, Exists

(* What a step of an application leaves alone in the others and in itself. *)
Runs(a) ==
  /\ app[a].status = "running"
  /\ \A b \in Apps \ {a} : app'[b] = app[b]
  /\ app'[a].status # "new"
  /\ app'[a].execution = app[a].execution
LEMMA FailKeeps ==
  ASSUME JobsInv, NEW a \in Apps, app[a].status = "running", Fail(a), UNCHANGED data
  PROVE  JobsInv' /\ DataGrows /\ Runs(a)
<1>1. DataTyped' /\ DataGrows
  BY DataStays DEF JobsInv
<1>2. /\ app' \in [Apps -> Executions]
      /\ \A b \in Apps \ {a} : app'[b] = app[b]
      /\ app'[a].pc = 1 /\ app'[a].status = "failed"
      /\ app'[a].execution = app[a].execution
  BY FailEffect DEF JobsInv
<1>3. app'[a].seen \subseteq app[a].seen
  BY FailEffect DEF JobsInv
<1>. QED
  BY <1>1, <1>2, <1>3, ResetKeeps DEF Runs

(* One step of an application, one case per kind of step.                  *)
LEMMA JobStepKeeps ==
  ASSUME JobsInv, NEW a \in Apps, JobStep(a)
  PROVE  JobsInv' /\ DataGrows /\ Runs(a)
<1>0. PICK now : now = app[a].pc
  OBVIOUS
<1> DEFINE s == Program(a)[now]
<1>1. /\ app[a].status = "running"
      /\ now \in 1..Len(Program(a))
  BY <1>0, ProgramLength
     DEF JobStep, LoadFolders, WriteFolder, NeedSubject, RegisterSubject, InsertLine, AtStep,
         JobsInv, AppsTyped, Executions
<1>2. WellFormed(Program(a), now)
  BY <1>1, StepsWellFormed
<1>3. now <= Len(Program(a))
  BY <1>1, ProgramLength
<1>4. s.op = "write" => s.from \subseteq Folders
  <2>1. WellFormed(Program(a), 1)
    BY <1>1, ProgramLength, StepsWellFormed
  <2>. QED
    BY <1>2, <2>1 DEF WellFormed
<1>5. ASSUME Advance(a), DataTyped', DataGrows, LeftBehind(a, now)'
      PROVE  JobsInv' /\ DataGrows /\ Runs(a)
  <2>1. JobsInv'
    BY <1>0, <1>1, <1>3, <1>5, AdvanceKeeps
  <2>2. /\ \A b \in Apps \ {a} : app'[b] = app[b]
        /\ app'[a].execution = app[a].execution
        /\ app'[a].status \in {"running", "completed"}
    BY <1>0, <1>1, <1>3, <1>4, <1>5, AdvanceEffect DEF JobsInv, DataTyped
  <2>. QED
    BY <1>1, <1>5, <2>1, <2>2 DEF Runs
<1>6. CASE LoadFolders(a)
  <2>1. s.op = "load" /\ UNCHANGED data
    BY <1>0, <1>6 DEF LoadFolders, AtStep
  <2>2. DataTyped' /\ DataGrows
    BY <2>1, DataStays DEF JobsInv
  <2>3. CASE (\A f \in s.from : Exists(f)) /\ Advance(a)
    <3>1. LeftBehind(a, now)'
      BY <2>1, <2>3 DEF LeftBehind, Exists, data
    <3>. QED
      BY <1>5, <2>2, <2>3, <3>1
  <2>4. CASE Fail(a)
    BY <1>1, <2>1, <2>4, FailKeeps
  <2>. QED
    BY <1>0, <1>6, <2>3, <2>4 DEF LoadFolders
<1>7. CASE WriteFolder(a)
  <2>1. s.op = "write" /\ Advance(a) /\ UNCHANGED <<subjects, rows>>
    BY <1>0, <1>7 DEF WriteFolder, AtStep
  <2>2. app[a].execution + 1 \in Nat /\ app[a].execution + 1 # 0
    BY DEF JobsInv, AppsTyped, Executions
  <2>3. content \in [Folders -> Nat]
    BY DEF JobsInv, DataTyped
  <2>4. content' = IF s.on = Elsewhere THEN content
                   ELSE [content EXCEPT ![s.on] = app[a].execution + 1]
    BY <1>0, <1>7 DEF WriteFolder
  <2>5. /\ content' \in [Folders -> Nat]
        /\ \A f \in Folders : content[f] # 0 => content'[f] # 0
        /\ s.on \in Folders => content'[s.on] # 0
    BY <2>2, <2>3, <2>4, FolderNames
  <2>6. DataTyped' /\ DataGrows
    BY <2>1, <2>5 DEF JobsInv, DataTyped, DataGrows, Exists
  <2>7. LeftBehind(a, now)'
    BY <2>1, <2>5 DEF LeftBehind, Exists
  <2>. QED
    BY <1>5, <2>1, <2>6, <2>7
<1>8. CASE NeedSubject(a)
  <2>1. s.op = "need" /\ UNCHANGED data
    BY <1>0, <1>8 DEF NeedSubject, AtStep
  <2>2. DataTyped' /\ DataGrows
    BY <2>1, DataStays DEF JobsInv
  <2>3. LeftBehind(a, now)'
    BY <2>1 DEF LeftBehind
  <2>4. Advance(a) \/ Fail(a)
    BY <1>0, <1>8 DEF NeedSubject
  <2>. QED
    BY <1>1, <1>5, <2>1, <2>2, <2>3, <2>4, FailKeeps
<1>9. CASE RegisterSubject(a)
  <2>1. s.op = "register" /\ Advance(a) /\ UNCHANGED <<content, rows>>
        /\ subjects' = subjects \cup s.from
    BY <1>0, <1>9 DEF RegisterSubject, AtStep
  <2>2. DataTyped' /\ DataGrows
    BY <1>2, <2>1 DEF JobsInv, DataTyped, DataGrows, Exists, WellFormed
  <2>3. LeftBehind(a, now)'
    BY <2>1 DEF LeftBehind
  <2>. QED
    BY <1>5, <2>1, <2>2, <2>3
<1>10. CASE InsertLine(a)
  <2>1. s.op = "insert" /\ Advance(a) /\ UNCHANGED <<content, subjects>>
        /\ rows' = [rows EXCEPT ![a][now] = @ + 1]
    BY <1>0, <1>10 DEF InsertLine, AtStep
  <2>2. rows' \in [Inserters -> [1..Lines -> Nat]]
    <3>1. a \in Inserters /\ now \in 1..Lines
      BY <1>1, <2>1, InsertersInsert, Lengths
    <3>2. rows \in [Inserters -> [1..Lines -> Nat]]
      BY DEF JobsInv, DataTyped
    <3>3. rows' = [rows EXCEPT ![a] = [rows[a] EXCEPT ![now] = rows[a][now] + 1]]
      BY <2>1
    <3>4. rows[a][now] + 1 \in Nat
      <4>1. rows[a] \in [1..Lines -> Nat]
        BY <3>1, <3>2
      <4>2. rows[a][now] \in Nat
        BY <3>1, <4>1
      <4>. QED
        BY <4>2
    <3>5. [rows[a] EXCEPT ![now] = rows[a][now] + 1] \in [1..Lines -> Nat]
      BY <3>1, <3>2, <3>4
    <3>. QED
      BY <3>1, <3>2, <3>3, <3>5
  <2>3. DataTyped' /\ DataGrows
    BY <2>1, <2>2 DEF JobsInv, DataTyped, DataGrows, Exists
  <2>4. LeftBehind(a, now)'
    BY <2>1 DEF LeftBehind
  <2>. QED
    BY <1>5, <2>1, <2>3, <2>4
<1>. QED
  BY <1>6, <1>7, <1>8, <1>9, <1>10 DEF JobStep

LEMMA JobDiesKeeps ==
  ASSUME JobsInv, NEW a \in Apps, JobDies(a)
  PROVE  JobsInv' /\ DataGrows /\ Runs(a)
<1>1. app[a].status = "running" /\ UNCHANGED data
  BY DEF JobDies
<1>2. DataTyped' /\ DataGrows
  BY <1>1, DataStays DEF JobsInv
<1>3. CASE \/ a \in Inserters /\ app[a].restarts < BackoffLimit
              /\ app' = [app EXCEPT ![a].pc = 1, ![a].restarts = @ + 1]
           \/ a = "flink_merge_streams" /\ app' = [app EXCEPT ![a].pc = 1]
  <2>1. /\ app' \in [Apps -> Executions]
        /\ \A b \in Apps \ {a} : app'[b] = app[b]
        /\ app'[a].pc = 1 /\ app'[a].status = app[a].status
        /\ app'[a].seen = app[a].seen
        /\ app'[a].execution = app[a].execution
    BY <1>3, RestartEffect DEF JobsInv
  <2>2. JobsInv'
    BY <1>1, <1>2, <2>1, ResetKeeps
  <2>. QED
    BY <1>1, <1>2, <2>1, <2>2 DEF Runs
<1>4. CASE Fail(a)
  BY <1>1, <1>4, FailKeeps
<1>. QED
  BY <1>3, <1>4 DEF JobDies, Crash

LEMMA ExecuteKeeps ==
  ASSUME JobsInv, NEW a \in Apps, Execute(a)
  PROVE  JobsInv' /\ DataGrows
<1>1. DataTyped' /\ DataGrows
  BY DataStays DEF JobsInv, Execute
<1>2. /\ app' \in [Apps -> Executions]
      /\ \A b \in Apps \ {a} : app'[b] = app[b]
      /\ app'[a].pc = 1 /\ app'[a].status = "running"
  BY ExecuteEffect DEF JobsInv
<1>3. app'[a].seen \subseteq app[a].seen
  BY ExecuteEffect DEF JobsInv
<1>. QED
  BY <1>1, <1>2, <1>3, ResetKeeps

LEMMA JobsStay == JobsInv /\ UNCHANGED jobs => JobsInv' /\ DataGrows
<1> SUFFICES ASSUME JobsInv, UNCHANGED jobs PROVE JobsInv' /\ DataGrows
  OBVIOUS
<1>1. app' = app /\ content' = content /\ subjects' = subjects /\ rows' = rows
  BY DEF jobs, data
<1>2. DataTyped' /\ DataGrows
  BY <1>1 DEF JobsInv, DataTyped, DataGrows, Exists
<1>. QED
  BY <1>1, <1>2 DEF JobsInv, AppsTyped, PastSteps, LeftBehind, Exists
-----------------------------------------------------------------------------
(* Airflow and the objects of the cluster.                                 *)
TasksTyped ==
  /\ dag \in {"batch", "stream"}
  /\ started \in 0..MaxDagRuns
  /\ task \in [DagRuns -> [Tasks -> TaskStates]]
  /\ tries \in [DagRuns -> [Tasks -> Nat]]
  /\ polls \in [DagRuns -> 0..MaxPolls]
  /\ raced \in BOOLEAN
  /\ \A a \in DagApps : \A r \in DagRuns : task[r][Submit(a)] # "running"
  /\ \A r \in DagRuns : \A t \in Tasks :
       \/ tries[r][t] <= Retries
       \/ task[r][t] = "failed" /\ tries[r][t] = Retries + 1

(* A version travels from a copy of the manifest to the object and from    *)
(* there to the operator, and never goes back where there is one copy.     *)
(* The object of a Job never sees a second one.                            *)
Versions ==
  /\ manifest \in [Apps -> {1, 2}] /\ repository \in {1, 2}
  /\ spec \in [Apps -> Nat]
  /\ observed \in [Apps -> Nat]
  /\ \A a \in Apps :
       /\ spec[a] <= Newest(a) /\ observed[a] <= Newest(a)
       /\ spec[a] = 0 => manifest[a] = 1 /\ observed[a] = 0
       /\ a # "flink_merge_streams" => observed[a] <= spec[a]
  /\ \A a \in Inserters : spec[a] <= 1

LEMMA DagAppsAreApps == DagApps \subseteq Apps /\ WaitedFor \subseteq DagApps
BY DEF DagApps, WaitedFor, Apps

LEMMA TasksOf ==
  ASSUME TasksTyped
  PROVE  /\ \A a \in DagApps : Submit(a) \in Tasks
         /\ \A a \in WaitedFor : Wait(a) \in Tasks
         /\ \A t \in Tasks : \E a \in DagApps : t = Submit(a) \/ (t = Wait(a) /\ a \in WaitedFor)
         /\ \A a, b : Submit(a) # Wait(b) /\ Submit(a)[1] = "submit" /\ Submit(a)[2] = a
                      /\ Wait(a)[1] = "wait" /\ Wait(a)[2] = a
<1>1. \A a, b : Submit(a) # Wait(b) /\ Submit(a)[1] = "submit" /\ Submit(a)[2] = a
                /\ Wait(a)[1] = "wait" /\ Wait(a)[2] = a
  BY DEF Submit, Wait
<1>2. \A a \in DagApps : Submit(a) \in Tasks
  BY DEF DagApps, Tasks, BatchTasks, StreamTasks, TasksTyped
<1>3. \A a \in WaitedFor : Wait(a) \in Tasks
  BY DEF WaitedFor
<1>4. ASSUME NEW t \in Tasks
      PROVE  \E a \in DagApps : t = Submit(a) \/ (t = Wait(a) /\ a \in WaitedFor)
  <2>1. CASE \E a \in DagApps : t = Submit(a)
    BY <2>1
  <2>2. CASE dag = "batch" /\ \E a \in {"raw2delta_avro", "merge2delta", "adding_uuidv7"} : t = Wait(a)
    BY <2>2 DEF DagApps, BatchApps, WaitedFor
  <2>3. CASE dag # "batch" /\ t = Wait("flink_merge_streams")
    BY <2>3 DEF DagApps, StreamApps, Services, WaitedFor
  <2>. QED
    BY <2>1, <2>2, <2>3 DEF Tasks, BatchTasks, StreamTasks, DagApps
<1>. QED
  BY <1>1, <1>2, <1>3, <1>4

LEMMA SetTaskEffect ==
  ASSUME TasksTyped, NEW r \in DagRuns, NEW t \in Tasks, NEW state \in TaskStates,
         SetTask(r, t, state)
  PROVE  /\ task' \in [DagRuns -> [Tasks -> TaskStates]]
         /\ task'[r][t] = state
         /\ \A q \in DagRuns : \A u \in Tasks : q # r \/ u # t => task'[q][u] = task[q][u]
<1>1. task \in [DagRuns -> [Tasks -> TaskStates]]
  BY DEF TasksTyped
<1>2. task' = [task EXCEPT ![r] = [task[r] EXCEPT ![t] = state]]
  BY DEF SetTask
<1>3. task[r] \in [Tasks -> TaskStates]
  BY <1>1
<1>4. [task[r] EXCEPT ![t] = state] \in [Tasks -> TaskStates]
  BY <1>3
<1>. QED
  BY <1>1, <1>2, <1>3, <1>4

(* A task that goes on: its types, if its tries stay within bounds.        *)
LEMMA TaskMoves ==
  ASSUME TasksTyped, NEW r \in DagRuns, NEW t \in Tasks, NEW state \in TaskStates,
         SetTask(r, t, state), task[r][t] # "failed",
         \/ UNCHANGED tries /\ (t[1] = "submit" => state # "running")
         \/ TryFails(r, t),
         UNCHANGED <<dag, started>>, polls' \in [DagRuns -> 0..MaxPolls], raced' \in BOOLEAN
  PROVE  TasksTyped'
<1>1. /\ task' \in [DagRuns -> [Tasks -> TaskStates]]
      /\ task'[r][t] = state
      /\ \A q \in DagRuns : \A u \in Tasks : q # r \/ u # t => task'[q][u] = task[q][u]
  BY SetTaskEffect
<1>2. Tasks' = Tasks /\ DagApps' = DagApps
  BY DEF Tasks, DagApps
<1>3. tries \in [DagRuns -> [Tasks -> Nat]] /\ tries[r] \in [Tasks -> Nat]
      /\ tries[r][t] \in Nat
  BY DEF TasksTyped
<1>4. tries[r][t] <= Retries
  BY DEF TasksTyped
<1>5. CASE UNCHANGED tries /\ (t[1] = "submit" => state # "running")
  <2>1. \A a \in DagApps : \A q \in DagRuns : task'[q][Submit(a)] # "running"
    <3> SUFFICES ASSUME NEW a \in DagApps, NEW q \in DagRuns
                 PROVE  task'[q][Submit(a)] # "running"
      OBVIOUS
    <3>1. Submit(a) \in Tasks /\ Submit(a)[1] = "submit"
      BY TasksOf
    <3>. QED
      BY <1>1, <1>5, <3>1 DEF TasksTyped
  <2>2. \A q \in DagRuns : \A u \in Tasks :
          \/ tries'[q][u] <= Retries
          \/ task'[q][u] = "failed" /\ tries'[q][u] = Retries + 1
    BY <1>1, <1>4, <1>5 DEF TasksTyped
  <2>. QED
    BY <1>1, <1>2, <1>5, <2>1, <2>2 DEF TasksTyped
<1>6. CASE TryFails(r, t)
  <2>1. tries' = [tries EXCEPT ![r] = [tries[r] EXCEPT ![t] = tries[r][t] + 1]]
    BY <1>6 DEF TryFails
  <2>2. [tries[r] EXCEPT ![t] = tries[r][t] + 1] \in [Tasks -> Nat]
    BY <1>3
  <2>3. /\ tries' \in [DagRuns -> [Tasks -> Nat]]
        /\ tries'[r][t] = tries[r][t] + 1
        /\ \A q \in DagRuns : \A u \in Tasks : q # r \/ u # t => tries'[q][u] = tries[q][u]
    BY <1>3, <2>1, <2>2
  <2>4. task'[r][t] = IF tries[r][t] < Retries THEN "up_for_retry" ELSE "failed"
    <3>1. SetTask(r, t, IF tries[r][t] < Retries THEN "up_for_retry" ELSE "failed")
      BY <1>6 DEF TryFails
    <3>2. (IF tries[r][t] < Retries THEN "up_for_retry" ELSE "failed") \in TaskStates
      BY DEF TaskStates
    <3>. QED
      BY <3>1, <3>2, SetTaskEffect
  <2>5. \A q \in DagRuns : \A u \in Tasks :
          \/ tries'[q][u] <= Retries
          \/ task'[q][u] = "failed" /\ tries'[q][u] = Retries + 1
    <3>1. \/ tries'[r][t] <= Retries
          \/ task'[r][t] = "failed" /\ tries'[r][t] = Retries + 1
      BY <1>3, <1>4, <2>3, <2>4 DEF Retries
    <3>. QED
      BY <1>1, <2>3, <3>1 DEF TasksTyped
  <2>6. \A a \in DagApps : \A q \in DagRuns : task'[q][Submit(a)] # "running"
    <3>1. task'[r][t] # "running"
      BY <2>4
    <3>. QED
      BY <1>1, <3>1, TasksOf DEF TasksTyped
  <2>. QED
    BY <1>1, <1>2, <2>3, <2>5, <2>6 DEF TasksTyped
<1>. QED
  BY <1>5, <1>6
LEMMA TasksStep == TasksTyped /\ [Next]_vars => TasksTyped'
<1> SUFFICES ASSUME TasksTyped, [Next]_vars PROVE TasksTyped'
  OBVIOUS
<1> USE DEF airflow, objects, copies
<1>1. ASSUME UNCHANGED <<dag, task, tries, polls>>, raced' \in BOOLEAN,
             started' \in 0..MaxDagRuns
      PROVE  TasksTyped'
  BY <1>1 DEF TasksTyped, Tasks, DagApps
<1>2. ASSUME UNCHANGED <<dag, airflow, raced>> PROVE TasksTyped'
  BY <1>1, <1>2 DEF TasksTyped
<1>3. CASE StartDagRun
  <2>1. started' \in 0..MaxDagRuns
    BY <1>3, OrchestrationAssumption DEF StartDagRun, TasksTyped
  <2>2. raced' \in BOOLEAN
    BY <1>3 DEF StartDagRun, TasksTyped
  <2>. QED
    BY <1>1, <1>3, <2>1, <2>2 DEF StartDagRun
<1>4. ASSUME NEW r \in 1..started PROVE r \in DagRuns
  BY OrchestrationAssumption DEF TasksTyped, DagRuns
<1>5. {"running", "success", "failed", "up_for_retry"} \subseteq TaskStates
  BY DEF TaskStates
<1>6. ASSUME NEW r \in DagRuns, NEW t \in Tasks, TryFails(r, t), task[r][t] # "failed",
             UNCHANGED <<dag, started, polls, raced>>
      PROVE  TasksTyped'
  <2> DEFINE state == IF tries[r][t] < Retries THEN "up_for_retry" ELSE "failed"
  <2>1. state \in TaskStates /\ SetTask(r, t, state)
    BY <1>5, <1>6 DEF TryFails
  <2>. HIDE DEF state
  <2>. QED
    BY <1>6, <2>1, TaskMoves DEF TasksTyped
<1>7. ASSUME NEW r \in DagRuns, NEW a \in DagApps, RunSubmit(r, a) PROVE TasksTyped'
  <2>1. Submit(a) \in Tasks /\ task[r][Submit(a)] # "failed"
    BY <1>7, TasksOf DEF RunSubmit, Ready
  <2>2. CASE SetTask(r, Submit(a), "success") /\ UNCHANGED tries
    BY <1>5, <1>7, <2>1, <2>2, TaskMoves DEF RunSubmit, TasksTyped
  <2>3. CASE TryFails(r, Submit(a))
    BY <1>6, <1>7, <2>1, <2>3 DEF RunSubmit
  <2>. QED
    BY <1>7, <2>2, <2>3 DEF RunSubmit
<1>8. ASSUME NEW r \in DagRuns, NEW a \in WaitedFor, StartWait(r, a) PROVE TasksTyped'
  <2>1. Wait(a) \in Tasks /\ task[r][Wait(a)] # "failed" /\ Wait(a)[1] = "wait"
    BY <1>8, TasksOf DEF StartWait, Ready
  <2>2. polls' \in [DagRuns -> 0..MaxPolls]
    <3>1. 0 \in 0..MaxPolls
      BY OrchestrationAssumption
    <3>. QED
      BY <1>8, <3>1 DEF StartWait, TasksTyped
  <2>3. SetTask(r, Wait(a), "running") /\ UNCHANGED <<tries, dag, started, raced>>
    BY <1>8 DEF StartWait
  <2>. QED
    BY <1>5, <2>1, <2>2, <2>3, TaskMoves DEF TasksTyped
<1>9. ASSUME NEW r \in DagRuns, NEW a \in WaitedFor, Poll(r, a) PROVE TasksTyped'
  <2>1. /\ Wait(a) \in Tasks /\ task[r][Wait(a)] = "running" /\ Wait(a)[1] = "wait"
        /\ UNCHANGED <<dag, started>>
    BY <1>9, TasksOf DEF Poll
  <2>2. raced' \in BOOLEAN
    BY <1>9 DEF Poll, TasksTyped
  <2>3. CASE SetTask(r, Wait(a), "success") /\ UNCHANGED <<tries, polls>>
    BY <1>5, <2>1, <2>2, <2>3, TaskMoves DEF TasksTyped
  <2>4. CASE TryFails(r, Wait(a)) /\ UNCHANGED polls
    <3> DEFINE state == IF tries[r][Wait(a)] < Retries THEN "up_for_retry" ELSE "failed"
    <3>1. state \in TaskStates /\ SetTask(r, Wait(a), state)
      BY <1>5, <2>4 DEF TryFails
    <3>. HIDE DEF state
    <3>. QED
      BY <2>1, <2>2, <2>4, <3>1, TaskMoves DEF TasksTyped
  <2>5. CASE polls' = [polls EXCEPT ![r] = @ + 1] /\ UNCHANGED <<task, tries>>
    <3>1. polls' \in [DagRuns -> 0..MaxPolls]
      BY <1>9, <2>5, OrchestrationAssumption DEF Poll, TasksTyped
    <3>. QED
      BY <2>1, <2>2, <2>5, <3>1 DEF TasksTyped, Tasks, DagApps
  <2>. QED
    BY <1>9, <2>3, <2>4, <2>5 DEF Poll
<1>10. ASSUME NEW r \in DagRuns, NEW a \in WaitedFor, Timeout(r, a) PROVE TasksTyped'
  <2>1. Wait(a) \in Tasks /\ task[r][Wait(a)] = "running"
    BY <1>10, TasksOf DEF Timeout
  <2>. QED
    BY <1>6, <1>10, <2>1 DEF Timeout
<1>11. ASSUME NEW r \in DagRuns, NEW t \in Tasks, TaskDies(r, t) PROVE TasksTyped'
  <2>1. task[r][t] # "failed"
    BY <1>11 DEF TaskDies, Ready
  <2>. QED
    BY <1>6, <1>11, <2>1 DEF TaskDies
<1>12. ASSUME NEW a \in Apps, OperatorReacts(a) \/ RunJob(a) \/ ContainerDies(a)
       PROVE  TasksTyped'
  BY <1>2, <1>12 DEF OperatorReacts, RunJob, ContainerDies
<1>13. CASE JenkinsDeploys \/ UNCHANGED vars
  BY <1>2, <1>13 DEF JenkinsDeploys, vars
<1>. QED
  BY <1>3, <1>4, <1>7, <1>8, <1>9, <1>10, <1>11, <1>12, <1>13 DEF Next, Airflow

-----------------------------------------------------------------------------
(* The newest version is one of those there are. *)
LEMMA NewestVersion ==
  ASSUME Versions, NEW a \in Apps
  PROVE  /\ Newest(a) \in {1, 2} /\ manifest[a] <= Newest(a)
         /\ a # "flink_merge_streams" => Newest(a) = manifest[a]
         /\ repository <= Newest("flink_merge_streams")
<1>1. "flink_merge_streams" \in Apps
  BY DEF Apps, StreamApps, Services
<1>. QED
  BY <1>1 DEF Newest, Versions

(* Copies that only get newer leave room for what was there before.        *)
LEMMA NewestGrows ==
  ASSUME Versions, manifest' \in [Apps -> {1, 2}], repository' \in {1, 2},
         \A b \in Apps : manifest[b] <= manifest'[b], repository <= repository'
  PROVE  \A b \in Apps :
           /\ Newest(b)' \in {1, 2} /\ manifest'[b] <= Newest(b)'
           /\ Newest(b) <= Newest(b)'
           /\ spec[b] <= Newest(b)' /\ observed[b] <= Newest(b)'
<1> SUFFICES ASSUME NEW b \in Apps
             PROVE  /\ Newest(b)' \in {1, 2} /\ manifest'[b] <= Newest(b)'
                    /\ Newest(b) <= Newest(b)'
                    /\ spec[b] <= Newest(b)' /\ observed[b] <= Newest(b)'
  OBVIOUS
<1>1. manifest[b] \in {1, 2} /\ manifest'[b] \in {1, 2} /\ manifest[b] <= manifest'[b]
      /\ repository \in {1, 2}
  BY DEF Versions
<1>2. Newest(b)' \in {1, 2} /\ manifest'[b] <= Newest(b)' /\ Newest(b) <= Newest(b)'
  BY <1>1 DEF Newest
<1>3. spec[b] \in Nat /\ observed[b] \in Nat /\ Newest(b) \in {1, 2}
      /\ spec[b] <= Newest(b) /\ observed[b] <= Newest(b)
  BY NewestVersion DEF Versions
<1>. QED
  BY <1>2, <1>3

(* Applying a manifest takes its version into the object. *)
LEMMA ApplyKeeps ==
  ASSUME Versions, NEW a \in Apps, Apply(a), Applicable(a), UNCHANGED <<observed, repository>>,
         ReadManifest(a)
  PROVE  /\ Versions'
         /\ spec'[a] # 0
         /\ \A b \in Apps \ {a} : spec'[b] = spec[b]
<1>1. /\ manifest' \in [Apps -> {1, 2}]
      /\ \A b \in Apps \ {a} : manifest'[b] = manifest[b]
      /\ manifest[a] <= manifest'[a]
      /\ spec[a] = 0 => manifest'[a] = manifest[a]
  BY DEF ReadManifest, Versions
<1>2. spec' = [spec EXCEPT ![a] = manifest'[a]]
  BY DEF Apply
<1>3. spec' \in [Apps -> Nat] /\ spec'[a] = manifest'[a]
      /\ \A b \in Apps \ {a} : spec'[b] = spec[b]
  BY <1>1, <1>2 DEF Versions
<1>4. \A b \in Apps : manifest[b] <= manifest'[b]
  <2>1. \A b \in Apps : manifest[b] \in {1, 2}
    BY DEF Versions
  <2>. QED
    BY <1>1, <2>1
<1>5. repository' \in {1, 2} /\ repository <= repository'
  BY DEF Versions
<1>6. \A b \in Apps :
        /\ Newest(b)' \in {1, 2} /\ manifest'[b] <= Newest(b)'
        /\ spec[b] <= Newest(b)' /\ observed[b] <= Newest(b)'
  BY <1>1, <1>4, <1>5, NewestGrows
<1>7. a \in Inserters => spec'[a] <= 1
  <2> SUFFICES ASSUME a \in Inserters PROVE manifest'[a] <= 1
    BY <1>3
  <2>1. CASE spec[a] = 0
    <3>1. manifest[a] = 1
      BY <2>1 DEF Versions
    <3>2. manifest'[a] = manifest[a]
      BY <1>1, <2>1
    <3>. QED
      BY <3>1, <3>2
  <2>2. CASE spec[a] = manifest'[a]
    BY <2>2 DEF Versions
  <2>. QED
    BY <2>1, <2>2 DEF Applicable
<1>8. manifest'[a] \in {1, 2} /\ spec'[a] # 0
  BY <1>1, <1>3
<1>9. a # "flink_merge_streams" => observed[a] <= spec'[a]
  <2> SUFFICES ASSUME a # "flink_merge_streams" PROVE observed[a] <= manifest'[a]
    BY <1>3
  <2>1. observed[a] \in Nat /\ manifest[a] \in {1, 2} /\ observed[a] <= manifest[a]
    BY NewestVersion DEF Versions
  <2>. QED
    BY <1>1, <1>8, <2>1
<1>10. ASSUME NEW b \in Apps
       PROVE  /\ spec'[b] <= Newest(b)' /\ observed'[b] <= Newest(b)'
              /\ spec'[b] = 0 => manifest'[b] = 1 /\ observed'[b] = 0
              /\ b # "flink_merge_streams" => observed'[b] <= spec'[b]
              /\ b \in Inserters => spec'[b] <= 1
  <2>1. CASE b = a
    BY <1>3, <1>6, <1>7, <1>8, <1>9, <2>1
  <2>2. CASE b # a
    BY <1>1, <1>3, <1>6, <2>2 DEF Versions
  <2>. QED
    BY <2>1, <2>2
<1>11. Inserters \subseteq Apps
  BY DEF Apps, StreamApps
<1>12. Versions'
  <2>1. observed' \in [Apps -> Nat]
    BY DEF Versions
  <2>. QED
    BY <1>1, <1>3, <1>5, <1>10, <1>11, <2>1 DEF Versions
<1>. QED
  BY <1>3, <1>8, <1>12

(* So does Jenkins with the other copy. *)
LEMMA DeployKeeps ==
  ASSUME Versions, JenkinsDeploys
  PROVE  /\ Versions'
         /\ spec'["flink_merge_streams"] # 0
         /\ \A b \in Apps \ {"flink_merge_streams"} : spec'[b] = spec[b]
<1> DEFINE flink == "flink_merge_streams"
<1>1. flink \in Apps /\ flink \notin Inserters /\ Inserters \subseteq Apps
  BY DEF Apps, StreamApps, Services, Inserters
<1>2. /\ manifest' = manifest /\ observed' = observed
      /\ repository' \in {1, 2} /\ repository <= repository'
      /\ spec' = [spec EXCEPT ![flink] = repository']
  BY DEF JenkinsDeploys, Versions
<1>3. /\ spec' \in [Apps -> Nat] /\ spec'[flink] = repository'
      /\ \A b \in Apps \ {flink} : spec'[b] = spec[b]
  BY <1>1, <1>2 DEF Versions
<1>4. \A b \in Apps : manifest'[b] \in {1, 2} /\ manifest[b] <= manifest'[b]
  BY <1>2 DEF Versions
<1>5. \A b \in Apps :
        /\ Newest(b)' \in {1, 2} /\ spec[b] <= Newest(b)' /\ observed[b] <= Newest(b)'
  BY <1>2, <1>4, NewestGrows DEF Versions
<1>6. repository' <= Newest(flink)'
  BY <1>1, <1>2, <1>4 DEF Newest
<1>7. ASSUME NEW b \in Apps
      PROVE  /\ spec'[b] <= Newest(b)' /\ observed'[b] <= Newest(b)'
             /\ spec'[b] = 0 => manifest'[b] = 1 /\ observed'[b] = 0
             /\ b # flink => observed'[b] <= spec'[b]
             /\ b \in Inserters => spec'[b] <= 1
  <2>1. CASE b = flink
    BY <1>1, <1>2, <1>3, <1>5, <1>6, <2>1
  <2>2. CASE b # flink
    BY <1>2, <1>3, <1>5, <2>2 DEF Versions
  <2>. QED
    BY <2>1, <2>2
<1>8. Versions'
  BY <1>1, <1>2, <1>3, <1>7 DEF Versions
<1>9. spec'[flink] # 0
  BY <1>2, <1>3
<1>. QED
  BY <1>3, <1>8, <1>9

LEMMA VersionsStep ==
  TasksTyped /\ Versions /\ [Next]_vars =>
    /\ Versions'
    /\ \A a \in Apps : spec[a] # 0 => spec'[a] # 0
<1> SUFFICES ASSUME TasksTyped, Versions, [Next]_vars
             PROVE  Versions' /\ \A a \in Apps : spec[a] # 0 => spec'[a] # 0
  OBVIOUS
<1> USE DEF airflow, objects, copies
<1>1. ASSUME UNCHANGED <<copies, spec, observed>>
      PROVE  Versions' /\ \A a \in Apps : spec[a] # 0 => spec'[a] # 0
  BY <1>1 DEF Versions, Newest
<1>2. ASSUME NEW a \in Apps, UNCHANGED <<repository, spec, observed>>, ReadManifest(a)
      PROVE  Versions' /\ \A b \in Apps : spec[b] # 0 => spec'[b] # 0
  <2>1. /\ manifest' \in [Apps -> {1, 2}]
        /\ \A b \in Apps : manifest[b] <= manifest'[b]
        /\ \A b \in Apps : spec[b] = 0 => manifest'[b] = manifest[b]
    BY <1>2 DEF Versions, ReadManifest
  <2>2. repository' \in {1, 2} /\ repository <= repository'
    BY <1>2 DEF Versions
  <2>3. \A b \in Apps : spec[b] <= Newest(b)' /\ observed[b] <= Newest(b)'
    BY <2>1, <2>2, NewestGrows
  <2>. QED
    BY <1>2, <2>1, <2>2, <2>3 DEF Versions
<1>3. ASSUME NEW a \in Apps, Apply(a), Applicable(a), UNCHANGED <<observed, repository>>,
             ReadManifest(a)
      PROVE  Versions' /\ \A b \in Apps : spec[b] # 0 => spec'[b] # 0
  BY <1>3, ApplyKeeps
<1>4. ASSUME NEW r \in 1..started, NEW a \in DagApps, RunSubmit(r, a)
      PROVE  Versions' /\ \A b \in Apps : spec[b] # 0 => spec'[b] # 0
  BY <1>2, <1>3, <1>4, DagAppsAreApps DEF RunSubmit
<1>5. ASSUME NEW r \in 1..started, NEW a \in WaitedFor, StartWait(r, a) \/ Poll(r, a) \/ Timeout(r, a)
      PROVE  Versions' /\ \A b \in Apps : spec[b] # 0 => spec'[b] # 0
  BY <1>1, <1>5 DEF StartWait, Poll, Timeout
<1>6. ASSUME NEW r \in 1..started, NEW t \in Tasks, TaskDies(r, t)
      PROVE  Versions' /\ \A b \in Apps : spec[b] # 0 => spec'[b] # 0
  <2>1. CASE UNCHANGED spec
    BY <1>1, <1>6, <2>1 DEF TaskDies
  <2>2. CASE t[1] = "submit" /\ Applicable(t[2]) /\ Apply(t[2])
    <3>1. t[2] \in Apps
      BY <2>2, TasksOf, DagAppsAreApps
    <3>. QED
      BY <1>3, <1>6, <2>2, <3>1 DEF TaskDies, ReadManifest
  <2>. QED
    BY <1>6, <2>1, <2>2 DEF TaskDies
<1>7. ASSUME NEW a \in Apps, OperatorReacts(a)
      PROVE  Versions' /\ \A b \in Apps : spec[b] # 0 => spec'[b] # 0
  <2>1. UNCHANGED <<copies, spec>> /\ observed' = [observed EXCEPT ![a] = spec[a]]
    BY <1>7 DEF OperatorReacts
  <2>2. \A b \in Apps : Newest(b)' = Newest(b)
    BY <2>1 DEF Newest
  <2>3. observed' \in [Apps -> Nat] /\ observed'[a] = spec[a]
        /\ \A b \in Apps \ {a} : observed'[b] = observed[b]
    BY <2>1 DEF Versions
  <2>4. ASSUME NEW b \in Apps
        PROVE  /\ spec'[b] <= Newest(b)' /\ observed'[b] <= Newest(b)'
               /\ spec'[b] = 0 => manifest'[b] = 1 /\ observed'[b] = 0
               /\ b # "flink_merge_streams" => observed'[b] <= spec'[b]
    <3>1. spec[b] \in Nat
      BY DEF Versions
    <3>. QED
      BY <2>1, <2>2, <2>3, <3>1 DEF Versions
  <2>. QED
    BY <2>1, <2>3, <2>4 DEF Versions
<1>8. ASSUME NEW a \in Apps, RunJob(a) \/ ContainerDies(a)
      PROVE  Versions' /\ \A b \in Apps : spec[b] # 0 => spec'[b] # 0
  BY <1>1, <1>8 DEF RunJob, ContainerDies
<1>9. CASE JenkinsDeploys
  BY <1>9, DeployKeeps
<1>10. CASE StartDagRun \/ UNCHANGED vars
  BY <1>1, <1>10 DEF StartDagRun, vars
<1>. QED
  BY <1>4, <1>5, <1>6, <1>7, <1>8, <1>9, <1>10 DEF Next, Airflow
-----------------------------------------------------------------------------
LEMMA JobsInvStep == JobsInv /\ [Next]_vars => JobsInv' /\ DataGrows
<1> SUFFICES ASSUME JobsInv, [Next]_vars PROVE JobsInv' /\ DataGrows
  OBVIOUS
<1>1. ASSUME NEW a \in Apps, OperatorReacts(a) \/ RunJob(a) \/ ContainerDies(a)
      PROVE  JobsInv' /\ DataGrows
  BY <1>1, ExecuteKeeps, JobStepKeeps, JobDiesKeeps DEF OperatorReacts, RunJob, ContainerDies
<1>2. CASE UNCHANGED jobs
  BY <1>2, JobsStay
<1>3. CASE StartDagRun \/ JenkinsDeploys \/ UNCHANGED vars
  BY <1>2, <1>3 DEF StartDagRun, JenkinsDeploys, vars
<1>4. CASE Airflow
  BY <1>2, <1>4 DEF Airflow, RunSubmit, StartWait, Poll, Timeout
<1>5. CASE \E r \in 1..started : \E t \in Tasks : TaskDies(r, t)
  BY <1>2, <1>5 DEF TaskDies
<1>. QED
  BY <1>1, <1>3, <1>4, <1>5 DEF Next

LEMMA InitialState == Init => JobsInv /\ TasksTyped /\ Versions
<1> SUFFICES ASSUME Init PROVE JobsInv /\ TasksTyped /\ Versions
  OBVIOUS
<1>1. AppsTyped
  <2>1. NotRun \in Executions
    <3>1. {} \in SUBSET Nat
      OBVIOUS
    <3>2. 0 \in 0..BackoffLimit
      BY JobsAssumption
    <3>. QED
      BY <3>1, <3>2 DEF NotRun, Executions, Statuses
  <2>2. \A a \in Apps : app[a] = NotRun
    BY DEF Init, JobsInit
  <2>3. NotRun.pc = 1
    BY DEF NotRun
  <2>. QED
    BY <2>1, <2>2, <2>3, ProgramLength DEF Init, JobsInit, AppsTyped
<1>2. DataTyped
  BY DEF Init, JobsInit, DataTyped
<1>3. \A a \in Apps : app[a].pc = 1 /\ app[a].seen = {} /\ app[a].status = "new"
  BY DEF Init, JobsInit, NotRun
<1>4. PastSteps
  BY <1>3, ProgramLength DEF PastSteps
<1>5. JobsInv
  BY <1>1, <1>2, <1>3, <1>4 DEF JobsInv
<1>6. TasksTyped
  <2>1. /\ dag \in {"batch", "stream"}
        /\ started \in 0..MaxDagRuns
        /\ raced \in BOOLEAN
    <3>1. started = 0 /\ raced = FALSE /\ dag \in {"batch", "stream"}
      BY DEF Init
    <3>2. 0 \in 0..MaxDagRuns
      BY OrchestrationAssumption
    <3>. QED
      BY <3>1, <3>2
  <2>2. "none" \in TaskStates
    BY DEF TaskStates
  <2>3. 0 \in 0..MaxPolls
    BY OrchestrationAssumption
  <2>4. /\ task \in [DagRuns -> [Tasks -> TaskStates]]
        /\ tries \in [DagRuns -> [Tasks -> Nat]]
        /\ polls \in [DagRuns -> 0..MaxPolls]
    BY <2>2, <2>3 DEF Init
  <2>5. \A a \in DagApps : Submit(a) \in Tasks
    BY <2>1 DEF DagApps, Tasks, BatchTasks, StreamTasks
  <2>6. \A a \in DagApps : \A r \in DagRuns : task[r][Submit(a)] # "running"
    BY <2>5 DEF Init
  <2>7. \A r \in DagRuns : \A t \in Tasks : tries[r][t] <= Retries
    BY DEF Init, Retries
  <2>. QED
    BY <2>1, <2>4, <2>6, <2>7 DEF TasksTyped
<1>7. Versions
  <2>1. Inserters \subseteq Apps
    BY DEF Apps, StreamApps
  <2>. QED
    BY <2>1 DEF Init, Versions, Newest
<1>. QED
  BY <1>5, <1>6, <1>7

LEMMA AlwaysTyped == Spec => [](JobsInv /\ TasksTyped /\ Versions)
BY InitialState, JobsInvStep, TasksStep, VersionsStep, PTL DEF Spec

(* Every variable keeps its type, no task is tried more than twice, and no *)
(* object or operator has a version that no copy of the manifest holds.    *)
THEOREM OrchestrationTypeCorrect == Spec => []OrchestrationTypeOK
<1>1. JobsInv /\ TasksTyped /\ Versions => OrchestrationTypeOK
  <2> SUFFICES ASSUME JobsInv, TasksTyped, Versions PROVE OrchestrationTypeOK
    OBVIOUS
  <2>1. \A a \in Apps :
          /\ app[a].status \in {"new", "running", "completed", "failed"}
          /\ app[a].pc \in 1..(Len(Program(a)) + 1)
          /\ app[a].execution \in Nat
          /\ app[a].seen \subseteq Nat \ {0}
          /\ app[a].restarts \in 0..BackoffLimit
    BY ProgramLength DEF JobsInv, AppsTyped, Executions, Statuses
  <2>2. JobsTypeOK
    BY <2>1 DEF JobsTypeOK, JobsInv, DataTyped
  <2>3. tries \in [DagRuns -> [Tasks -> 0..(Retries + 1)]]
    <3>1. ASSUME NEW r \in DagRuns, NEW t \in Tasks PROVE tries[r][t] \in 0..(Retries + 1)
      <4>1. tries \in [DagRuns -> [Tasks -> Nat]]
        BY DEF TasksTyped
      <4>2. tries[r][t] \in Nat
        BY <4>1
      <4>3. tries[r][t] <= Retries \/ tries[r][t] = Retries + 1
        BY DEF TasksTyped
      <4>. QED
        BY <4>2, <4>3 DEF Retries
    <3>. QED
      BY <3>1 DEF TasksTyped
  <2>4. \A a \in Apps :
          /\ spec[a] \in 0..Newest(a) /\ observed[a] \in 0..Newest(a)
          /\ spec[a] = 0 => observed[a] = 0
          /\ a # "flink_merge_streams" => observed[a] <= spec[a]
    BY NewestVersion DEF Versions
  <2>5. manifest \in [Apps -> {1, 2}] /\ repository \in {1, 2}
    BY DEF Versions
  <2>. QED
    BY <2>2, <2>3, <2>4, <2>5 DEF OrchestrationTypeOK, TasksTyped, TaskStates
<1>. QED
  BY <1>1, AlwaysTyped, PTL

-----------------------------------------------------------------------------
(* An application the operator has not seen has done nothing.              *)
Unstarted ==
  \A a \in Apps : observed[a] = 0 =>
    /\ app[a].status = "new"
    /\ a \in Inserters => \A l \in 1..Lines : rows[a][l] = 0

(* Where an inserter stands: the lines before the current one have a copy  *)
(* more than the later ones, and no line has more copies than the starts   *)
(* that have reached it.                                                   *)
LinesCounted(a) ==
  /\ \A k, l \in 1..Lines : k < l => rows[a][k] >= rows[a][l]
  /\ \A k, l \in 1..Lines : k < app[a].pc /\ app[a].pc <= l => rows[a][k] > rows[a][l]
  /\ \A l \in 1..Lines : rows[a][l] <= app[a].restarts + 1
  /\ \A l \in 1..Lines : l < app[a].pc => rows[a][l] > 0
  /\ app[a].status = "running" =>
       \A l \in 1..Lines : app[a].pc <= l => rows[a][l] <= app[a].restarts

Inserted == Unstarted /\ \A a \in Inserters : LinesCounted(a)

(* One line more. *)
LEMMA InsertCounts ==
  ASSUME JobsInv, NEW a \in Inserters, LinesCounted(a), InsertLine(a)
  PROVE  LinesCounted(a)'
<1>0. PICK now : now = app[a].pc
  OBVIOUS
<1>1. a \in Apps
  BY DEF Apps, StreamApps
<1>2. /\ app[a].status = "running"
      /\ now \in 1..Lines
      /\ Program(a)[now].op = "insert"
      /\ Advance(a)
  BY <1>0, <1>1, ProgramLength, Lengths
     DEF InsertLine, AtStep, JobsInv, AppsTyped, Executions
<1>3. /\ rows \in [Inserters -> [1..Lines -> Nat]]
      /\ content \in [Folders -> Nat]
  BY DEF JobsInv, DataTyped
<1>4. /\ app'[a].pc = now + 1
      /\ app'[a].restarts = app[a].restarts
      /\ app[a].restarts \in Nat
  <2>1. now <= Len(Program(a))
    BY <1>2, Lengths
  <2>2. app[a].restarts \in Nat
    BY <1>1 DEF JobsInv, AppsTyped, Executions
  <2>. QED
    BY <1>0, <1>1, <1>2, <1>3, <2>1, <2>2, AdvanceEffect DEF JobsInv
<1>5. rows[a] \in [1..Lines -> Nat]
  BY <1>3
<1>6. rows' = [rows EXCEPT ![a] = [rows[a] EXCEPT ![now] = rows[a][now] + 1]]
  BY <1>0 DEF InsertLine
<1>7. rows'[a] = [rows[a] EXCEPT ![now] = rows[a][now] + 1]
  BY <1>3, <1>6
<1>8. \A l \in 1..Lines : /\ rows[a][l] \in Nat
                          /\ rows'[a][l] = IF l = now THEN rows[a][l] + 1 ELSE rows[a][l]
  BY <1>5, <1>7
<1>9. Lines \in Nat /\ now \in Nat
  BY <1>2, JobsAssumption
<1>10. /\ \A k, l \in 1..Lines : k < l => rows[a][k] >= rows[a][l]
       /\ \A k, l \in 1..Lines : k < now /\ now <= l => rows[a][k] > rows[a][l]
       /\ \A l \in 1..Lines : rows[a][l] <= app[a].restarts + 1
       /\ \A l \in 1..Lines : l < now => rows[a][l] > 0
       /\ \A l \in 1..Lines : now <= l => rows[a][l] <= app[a].restarts
  BY <1>0, <1>2 DEF LinesCounted
<1>11. \A k, l \in 1..Lines : k < l => rows'[a][k] >= rows'[a][l]
  BY <1>8, <1>9, <1>10
<1>12. \A k, l \in 1..Lines : k < now + 1 /\ now + 1 <= l => rows'[a][k] > rows'[a][l]
  BY <1>8, <1>9, <1>10
<1>13. \A l \in 1..Lines : rows'[a][l] <= app[a].restarts + 1
  BY <1>4, <1>8, <1>9, <1>10
<1>14. \A l \in 1..Lines : l < now + 1 => rows'[a][l] > 0
  BY <1>8, <1>9, <1>10
<1>15. \A l \in 1..Lines : now + 1 <= l => rows'[a][l] <= app[a].restarts
  BY <1>8, <1>9, <1>10
<1>. QED
  BY <1>4, <1>11, <1>12, <1>13, <1>14, <1>15 DEF LinesCounted

(* Back to the first line: the count of starts grows, or nothing goes on.  *)
LEMMA RestartCounts ==
  ASSUME JobsInv, NEW a \in Inserters, LinesCounted(a), JobDies(a)
  PROVE  LinesCounted(a)'
<1>1. a \in Apps /\ a # "flink_merge_streams"
  BY DEF Apps, StreamApps, Inserters
<1>2. rows' = rows /\ rows[a] \in [1..Lines -> Nat]
  BY DEF JobDies, data, JobsInv, DataTyped
<1>3. /\ app'[a].pc = 1
      /\ \/ app'[a].restarts = app[a].restarts + 1
         \/ app'[a].restarts = app[a].restarts /\ app'[a].status = "failed"
  <2>1. CASE Fail(a)
    BY <1>1, <2>1, FailEffect DEF JobsInv
  <2>2. CASE app[a].restarts < BackoffLimit
             /\ app' = [app EXCEPT ![a].pc = 1, ![a].restarts = @ + 1]
    BY <1>1, <2>2, RestartEffect DEF JobsInv
  <2>. QED
    BY <1>1, <2>1, <2>2 DEF JobDies, Crash
<1>4. app[a].restarts \in Nat /\ Lines \in Nat
  BY <1>1, JobsAssumption DEF JobsInv, AppsTyped, Executions
<1>5. \A l \in 1..Lines : rows[a][l] \in Nat /\ ~(l < 1)
  <2>1. rows[a] \in [1..Lines -> Nat]
    BY <1>2
  <2>2. \A l \in 1..Lines : rows[a][l] \in Nat
    BY <2>1
  <2>3. \A l \in 1..Lines : ~(l < 1)
    BY <1>4
  <2>. QED
    BY <2>2, <2>3
<1>6. /\ \A k, l \in 1..Lines : k < l => rows[a][k] >= rows[a][l]
      /\ \A l \in 1..Lines : rows[a][l] <= app[a].restarts + 1
  BY DEF LinesCounted
<1>7. \A l \in 1..Lines : rows[a][l] <= app'[a].restarts + 1
  BY <1>3, <1>4, <1>5, <1>6
<1>8. app'[a].status = "running" => \A l \in 1..Lines : rows[a][l] <= app'[a].restarts
  BY <1>3, <1>6
<1>. QED
  BY <1>2, <1>3, <1>5, <1>6, <1>7, <1>8 DEF LinesCounted

LEMMA RowsOfOthers ==
  ASSUME JobsInv, NEW a \in Apps, JobStep(a)
  PROVE  /\ \A b \in Inserters \ {a} : rows'[b] = rows[b]
         /\ rows' = rows \/ InsertLine(a)
<1>1. rows' = rows \/ InsertLine(a)
  BY DEF JobStep, LoadFolders, WriteFolder, NeedSubject, RegisterSubject, data
<1>2. rows \in [Inserters -> [1..Lines -> Nat]]
  BY DEF JobsInv, DataTyped
<1>. QED
  BY <1>1, <1>2 DEF InsertLine

(* An inserter does nothing but insert. *)
LEMMA InserterStep ==
  ASSUME JobsInv, NEW a \in Inserters, JobStep(a)
  PROVE  InsertLine(a)
<1>1. a \in Apps
  BY DEF Apps, StreamApps
<1>2. app[a].pc \in 1..Len(Program(a))
  BY <1>1, ProgramLength
     DEF JobStep, LoadFolders, WriteFolder, NeedSubject, RegisterSubject, InsertLine, AtStep,
         JobsInv, AppsTyped, Executions
<1>3. Program(a)[app[a].pc].op = "insert"
  BY <1>1, <1>2, InsertersInsert
<1>. QED
  BY <1>3 DEF JobStep, LoadFolders, WriteFolder, NeedSubject, RegisterSubject, AtStep

LEMMA InsertedStep == JobsInv /\ TasksTyped /\ Versions /\ Inserted /\ [Next]_vars => Inserted'
<1> SUFFICES ASSUME JobsInv, TasksTyped, Versions, Inserted, [Next]_vars PROVE Inserted'
  OBVIOUS
<1>0. Inserters \subseteq Apps
  BY DEF Apps, StreamApps
<1>1. ASSUME UNCHANGED <<jobs, observed>> PROVE Inserted'
  BY <1>1 DEF Inserted, Unstarted, LinesCounted, jobs, data
<1>2. ASSUME NEW a \in Apps, RunJob(a) PROVE Inserted'
  <2>1. JobStep(a) /\ observed' = observed
    BY <1>2 DEF RunJob, objects
  <2>2. Runs(a)
    BY <2>1, JobStepKeeps
  <2>3. \A b \in Inserters \ {a} : rows'[b] = rows[b] /\ app'[b] = app[b]
    BY <1>0, <2>1, <2>2, RowsOfOthers DEF Runs
  <2>4. observed[a] # 0
    BY <2>2 DEF Runs, Inserted, Unstarted
  <2>5. Unstarted'
    BY <2>1, <2>2, <2>3, <2>4 DEF Runs, Inserted, Unstarted
  <2>6. \A b \in Inserters \ {a} : LinesCounted(b)'
    BY <2>3 DEF LinesCounted, Inserted
  <2>7. a \in Inserters => LinesCounted(a)'
    BY <2>1, InserterStep, InsertCounts DEF Inserted
  <2>. QED
    BY <2>5, <2>6, <2>7 DEF Inserted
<1>3. ASSUME NEW a \in Apps, ContainerDies(a) PROVE Inserted'
  <2>1. JobDies(a) /\ observed' = observed
    BY <1>3 DEF ContainerDies, objects
  <2>2. Runs(a) /\ rows' = rows
    BY <2>1, JobDiesKeeps DEF JobDies, data
  <2>3. observed[a] # 0
    BY <2>2 DEF Runs, Inserted, Unstarted
  <2>4. Unstarted'
    BY <2>1, <2>2, <2>3 DEF Runs, Inserted, Unstarted
  <2>5. \A b \in Inserters \ {a} : LinesCounted(b)'
    BY <1>0, <2>2 DEF Runs, LinesCounted, Inserted
  <2>6. a \in Inserters => LinesCounted(a)'
    BY <2>1, RestartCounts DEF Inserted
  <2>. QED
    BY <2>4, <2>5, <2>6 DEF Inserted
<1>4. ASSUME NEW a \in Apps, OperatorReacts(a) PROVE Inserted'
  <2>1. /\ Stale(a) /\ Execute(a) /\ rows' = rows
        /\ observed' = [observed EXCEPT ![a] = spec[a]]
    BY <1>4 DEF OperatorReacts, Execute, data
  <2>2. observed[a] \in Nat /\ spec[a] \in Nat /\ observed[a] # spec[a] /\ spec[a] # 0
    BY <2>1 DEF Versions, Stale
  <2>3. observed'[a] # 0
    BY <2>1, <2>2 DEF Versions
  <2>4. \A b \in Apps \ {a} : observed'[b] = observed[b] /\ app'[b] = app[b]
    BY <2>1, ExecuteEffect DEF Versions, JobsInv
  <2>5. Unstarted'
    BY <2>1, <2>3, <2>4 DEF Inserted, Unstarted
  <2>6. \A b \in Inserters \ {a} : LinesCounted(b)'
    BY <1>0, <2>1, <2>4 DEF LinesCounted, Inserted
  <2>7. ASSUME a \in Inserters PROVE LinesCounted(a)'
    <3>1. observed[a] = 0
      <4>1. spec[a] <= 1 /\ observed[a] <= spec[a]
        BY <2>7 DEF Versions, Inserters
      <4>. QED
        BY <2>2, <4>1
    <3>2. \A l \in 1..Lines : rows'[a][l] = 0 /\ ~(l < 1)
      BY <2>1, <2>7, <3>1 DEF Inserted, Unstarted
    <3>3. app'[a].pc = 1 /\ app'[a].restarts = 0
      BY <2>1, ExecuteEffect DEF JobsInv
    <3>. QED
      BY <3>2, <3>3 DEF LinesCounted
  <2>. QED
    BY <2>5, <2>6, <2>7 DEF Inserted
<1>5. CASE StartDagRun \/ JenkinsDeploys \/ UNCHANGED vars
  BY <1>1, <1>5 DEF StartDagRun, JenkinsDeploys, vars, objects, jobs
<1>6. CASE Airflow
  BY <1>1, <1>6 DEF Airflow, RunSubmit, StartWait, Poll, Timeout, objects
<1>7. CASE \E r \in 1..started : \E t \in Tasks : TaskDies(r, t)
  BY <1>1, <1>7 DEF TaskDies
<1>. QED
  BY <1>2, <1>3, <1>4, <1>5, <1>6, <1>7 DEF Next

LEMMA InsertedAlways == Spec => []Inserted
<1>1. Init => Inserted
  <2> SUFFICES ASSUME Init PROVE Inserted
    OBVIOUS
  <2>1. Inserters \subseteq Apps
    BY DEF Apps, StreamApps
  <2>2. \A a \in Apps : app[a].status = "new" /\ app[a].pc = 1 /\ app[a].restarts = 0
    BY DEF Init, JobsInit, NotRun
  <2>3. \A a \in Inserters : \A l \in 1..Lines : rows[a][l] = 0 /\ ~(l < 1)
    BY DEF Init, JobsInit
  <2>. QED
    BY <2>1, <2>2, <2>3 DEF Inserted, Unstarted, LinesCounted
<1>. QED
  BY <1>1, InsertedStep, AlwaysTyped, PTL DEF Spec

(* However often its container dies, an inserter inserts from the first    *)
(* line on, each line at most once per start, and completes only with all  *)
(* of them; the retries of the submit task never start it a second time.   *)
THEOREM InsertersKeepOrder == Spec => []IngestedInOrder
<1>1. JobsInv /\ Inserted => IngestedInOrder
  <2> SUFFICES ASSUME JobsInv, Inserted, NEW a \in Inserters
               PROVE  /\ \A k, l \in 1..Lines : k < l => rows[a][k] >= rows[a][l]
                      /\ \A l \in 1..Lines : rows[a][l] <= app[a].restarts + 1
                      /\ app[a].status = "completed" => rows[a][Lines] > 0
    BY DEF IngestedInOrder
  <2>1. LinesCounted(a)
    BY DEF Inserted
  <2>2. app[a].status = "completed" => app[a].pc = Lines + 1
    BY Lengths DEF JobsInv, Apps, StreamApps
  <2>3. Lines \in 1..Lines /\ Lines < Lines + 1
    BY JobsAssumption
  <2>. QED
    BY <2>1, <2>2, <2>3 DEF LinesCounted
<1>. QED
  BY <1>1, AlwaysTyped, InsertedAlways, PTL
-----------------------------------------------------------------------------
(* Everything application a leaves behind for others is there.             *)
Done(a) == \A i \in 1..Len(Program(a)) : LeftBehind(a, i)

(* A wait task succeeds only over work that is done, and nothing is        *)
(* submitted before the work it rests on.                                  *)
ChainDone ==
  /\ \A r \in DagRuns : \A a \in WaitedFor :
       task[r][Wait(a)] = "success" => Done(a) /\ spec[a] # 0
  /\ \A a \in Apps : spec[a] # 0 => \A b \in Before(a) : Done(b)
  /\ \A f \in Leftover : Exists(f)

LEMMA BeforeTable ==
  /\ Before("merge2delta") = {"raw2delta_avro"}
  /\ Before("adding_uuidv7") = {"raw2delta_avro", "merge2delta"}
  /\ Before("generate_silver_schema") = {"raw2delta_avro", "merge2delta", "adding_uuidv7"}
  /\ Before("generate_data_mart") = {"raw2delta_avro", "merge2delta", "adding_uuidv7"}
  /\ Before("streaming_data") = {"flink_merge_streams"}
  /\ \A a \in Inserters \cup {"raw2delta_avro", "flink_merge_streams"} : Before(a) = {}
BY DEF Before, Inserters

LEMMA BeforeAreApps == \A a \in Apps : Before(a) \subseteq Apps
BY BeforeTable DEF Apps, BatchApps, StreamApps, Services

LEMMA UpstreamTable ==
  /\ Upstream(Submit("merge2delta")) = {Wait("raw2delta_avro")}
  /\ Upstream(Submit("adding_uuidv7")) = {Wait("merge2delta")}
  /\ Upstream(Submit("generate_silver_schema")) = {Wait("adding_uuidv7")}
  /\ Upstream(Submit("generate_data_mart")) = {Wait("adding_uuidv7")}
  /\ Upstream(Submit("streaming_data")) = {Wait("flink_merge_streams")}
  /\ \A a : Upstream(Wait(a)) = {Submit(a)}
<1>1. \A a, b : Submit(a) = Submit(b) => a = b
  BY DEF Submit
<1>2. \A a, b : Submit(a)[1] = "submit" /\ Wait(a)[1] = "wait" /\ Wait(a)[2] = a
  BY DEF Submit, Wait
<1>. QED
  BY <1>1, <1>2 DEF Upstream, BatchUpstream, StreamUpstream

LEMMA DoneStays == ASSUME DataGrows, NEW a \in Apps, Done(a) PROVE Done(a)'
BY LeftBehindStays DEF Done

(* What a poll takes for success is one.                                   *)
LEMMA SucceededDone ==
  ASSUME JobsInv, Versions, Unstarted, NEW a \in Apps, Succeeded(a)
  PROVE  Done(a) /\ spec[a] # 0
<1>1. app[a].pc > Len(Program(a)) /\ app[a].status # "new"
  <2>1. Len(Program(a)) \in Nat
    BY ProgramLength
  <2>2. CASE Serving(a)
    BY <2>2 DEF Serving
  <2>3. CASE app[a].status = "completed"
    BY <2>1, <2>3 DEF JobsInv
  <2>. QED
    BY <2>2, <2>3 DEF Succeeded
<1>2. \A i \in 1..Len(Program(a)) : i < app[a].pc
  BY <1>1, ProgramLength DEF JobsInv, AppsTyped, Executions
<1>3. Done(a)
  BY <1>2 DEF Done, JobsInv, PastSteps
<1>4. observed[a] # 0
  BY <1>1 DEF Unstarted
<1>5. spec[a] = 0 => observed[a] = 0
  BY DEF Versions
<1>. QED
  BY <1>3, <1>4, <1>5

(* When a submit task may run, the work its application rests on is done.  *)
LEMMA ReadyDone ==
  ASSUME TasksTyped, ChainDone, NEW r \in DagRuns, NEW a \in DagApps, Ready(r, Submit(a))
  PROVE  \A b \in Before(a) : Done(b)
<1>1. ASSUME NEW b \in WaitedFor, Upstream(Submit(a)) = {Wait(b)}
      PROVE  Done(b) /\ \A c \in Before(b) : Done(c)
  <2>1. task[r][Wait(b)] = "success"
    BY <1>1 DEF Ready
  <2>2. Done(b) /\ spec[b] # 0
    BY <1>1, <2>1 DEF ChainDone
  <2>. QED
    BY <1>1, <2>2, DagAppsAreApps DEF ChainDone
<1>2. dag = "batch" => {"raw2delta_avro", "merge2delta", "adding_uuidv7"} \subseteq WaitedFor
  BY DEF WaitedFor, DagApps, BatchApps, Tasks, BatchTasks
<1>3. dag # "batch" => "flink_merge_streams" \in WaitedFor
  BY DEF WaitedFor, DagApps, StreamApps, Services, Tasks, StreamTasks
<1>4. CASE a \in {"merge2delta", "adding_uuidv7", "generate_silver_schema", "generate_data_mart"}
  <2>1. dag = "batch"
    BY <1>4 DEF DagApps, StreamApps, Inserters, Services
  <2>2. CASE a = "merge2delta"
    BY <1>1, <1>2, <2>1, <2>2, UpstreamTable, BeforeTable
  <2>3. CASE a = "adding_uuidv7"
    BY <1>1, <1>2, <2>1, <2>3, UpstreamTable, BeforeTable
  <2>4. CASE a \in {"generate_silver_schema", "generate_data_mart"}
    BY <1>1, <1>2, <2>1, <2>4, UpstreamTable, BeforeTable
  <2>. QED
    BY <1>4, <2>2, <2>3, <2>4
<1>5. CASE a = "streaming_data"
  <2>1. dag # "batch"
    BY <1>5 DEF DagApps, BatchApps
  <2>. QED
    BY <1>1, <1>3, <1>5, <2>1, UpstreamTable, BeforeTable
<1>6. CASE a \in Inserters \cup {"raw2delta_avro", "flink_merge_streams"}
  BY <1>6, BeforeTable
<1>7. a \in Apps
  BY DagAppsAreApps
<1>. QED
  BY <1>4, <1>5, <1>6, <1>7 DEF Apps, BatchApps, StreamApps, Services

(* The chain is kept when no wait task succeeds and nothing is applied ... *)
LEMMA ChainStays ==
  ASSUME ChainDone, DataGrows, UNCHANGED dag, \A a \in Apps : spec[a] # 0 => spec'[a] # 0,
         \A r \in DagRuns : \A a \in WaitedFor :
           task'[r][Wait(a)] = "success" =>
             task[r][Wait(a)] = "success" \/ (Done(a) /\ spec[a] # 0),
         \A a \in Apps : spec'[a] # 0 => spec[a] # 0 \/ \A b \in Before(a) : Done(b)
  PROVE  ChainDone'
<1>1. WaitedFor' = WaitedFor
  BY DEF WaitedFor, DagApps, Tasks
<1>2. \A r \in DagRuns : \A a \in WaitedFor :
        task'[r][Wait(a)] = "success" => Done(a)' /\ spec'[a] # 0
  BY DoneStays, DagAppsAreApps DEF ChainDone
<1>3. \A a \in Apps : spec'[a] # 0 => \A b \in Before(a) : Done(b)'
  BY DoneStays, BeforeAreApps DEF ChainDone
<1>4. \A f \in Leftover : Exists(f)'
  BY JobsAssumption DEF ChainDone, DataGrows
<1>. QED
  BY <1>1, <1>2, <1>3, <1>4 DEF ChainDone

LEMMA ChainStep ==
  JobsInv /\ TasksTyped /\ Versions /\ Unstarted /\ ChainDone /\ [Next]_vars => ChainDone'
<1> SUFFICES ASSUME JobsInv, TasksTyped, Versions, Unstarted, ChainDone, [Next]_vars
             PROVE  ChainDone'
  OBVIOUS
<1> USE DEF airflow, objects, copies
<1>1. DataGrows /\ \A a \in Apps : spec[a] # 0 => spec'[a] # 0
  BY JobsInvStep, VersionsStep
<1>2. ASSUME UNCHANGED <<dag, task, spec>> PROVE ChainDone'
  BY <1>1, <1>2, ChainStays
<1>3. ASSUME NEW r \in 1..started PROVE r \in DagRuns
  BY OrchestrationAssumption DEF TasksTyped, DagRuns
<1>4. {"running", "success", "failed", "up_for_retry"} \subseteq TaskStates
  BY DEF TaskStates
<1>5. ASSUME NEW r \in DagRuns, NEW t \in Tasks, TryFails(r, t) PROVE
        \A q \in DagRuns : \A u \in Tasks : task'[q][u] = "success" => task[q][u] = "success"
  <2>1. SetTask(r, t, IF tries[r][t] < Retries THEN "up_for_retry" ELSE "failed")
    BY <1>5 DEF TryFails
  <2> DEFINE state == IF tries[r][t] < Retries THEN "up_for_retry" ELSE "failed"
  <2>2. state \in TaskStates /\ state # "success"
    BY <1>4
  <2>. HIDE DEF state
  <2>3. task'[r][t] = state /\ \A q \in DagRuns : \A u \in Tasks :
          q # r \/ u # t => task'[q][u] = task[q][u]
    BY <2>1, <2>2, SetTaskEffect DEF state
  <2>. QED
    BY <2>2, <2>3
<1>6. \A a \in WaitedFor : Wait(a) \in Tasks
  BY TasksOf
<1>7. ASSUME NEW r \in DagRuns, NEW a \in DagApps, RunSubmit(r, a) PROVE ChainDone'
  <2>1. Submit(a) \in Tasks /\ \A b : Submit(a) # Wait(b)
    BY TasksOf
  <2>2. \A b \in Before(a) : Done(b)
    BY <1>7, ReadyDone DEF RunSubmit
  <2>3. UNCHANGED dag /\ \A b \in Apps \ {a} : spec'[b] = spec[b]
    BY <1>7 DEF RunSubmit, Apply, Versions
  <2>4. \A q \in DagRuns : \A b \in WaitedFor :
          task'[q][Wait(b)] = "success" => task[q][Wait(b)] = "success"
    <3>1. CASE SetTask(r, Submit(a), "success")
      BY <1>4, <1>6, <2>1, <3>1, SetTaskEffect
    <3>2. CASE TryFails(r, Submit(a))
      BY <1>5, <1>6, <2>1, <3>2
    <3>. QED
      BY <1>7, <3>1, <3>2 DEF RunSubmit
  <2>. QED
    BY <1>1, <2>2, <2>3, <2>4, ChainStays
<1>8. ASSUME NEW r \in DagRuns, NEW a \in WaitedFor, StartWait(r, a) PROVE ChainDone'
  <2>1. SetTask(r, Wait(a), "running") /\ UNCHANGED <<dag, spec>>
    BY <1>8 DEF StartWait
  <2>2. \A q \in DagRuns : \A b \in WaitedFor :
          task'[q][Wait(b)] = "success" => task[q][Wait(b)] = "success"
    BY <1>4, <1>6, <2>1, SetTaskEffect
  <2>. QED
    BY <1>1, <2>1, <2>2, ChainStays
<1>9. ASSUME NEW r \in DagRuns, NEW a \in WaitedFor, Poll(r, a) PROVE ChainDone'
  <2>1. UNCHANGED <<dag, spec>>
    BY <1>9 DEF Poll
  <2>2. CASE Succeeded(a) /\ SetTask(r, Wait(a), "success")
    <3>1. Done(a) /\ spec[a] # 0
      BY <2>2, SucceededDone, DagAppsAreApps
    <3>2. \A b \in WaitedFor : Wait(b) = Wait(a) => b = a
      BY DEF Wait
    <3>3. \A q \in DagRuns : \A b \in WaitedFor :
            task'[q][Wait(b)] = "success" => task[q][Wait(b)] = "success" \/ b = a
      BY <1>4, <1>6, <2>2, <3>2, SetTaskEffect
    <3>. QED
      BY <1>1, <2>1, <3>1, <3>3, ChainStays
  <2>3. CASE TryFails(r, Wait(a))
    BY <1>1, <1>5, <1>6, <2>1, <2>3, ChainStays
  <2>4. CASE UNCHANGED task
    BY <1>2, <2>1, <2>4
  <2>. QED
    BY <1>9, <2>2, <2>3, <2>4 DEF Poll
<1>10. ASSUME NEW r \in DagRuns, NEW a \in WaitedFor, Timeout(r, a) PROVE ChainDone'
  <2>1. TryFails(r, Wait(a)) /\ UNCHANGED <<dag, spec>>
    BY <1>10 DEF Timeout
  <2>. QED
    BY <1>1, <1>5, <1>6, <2>1, ChainStays
<1>11. ASSUME NEW r \in DagRuns, NEW t \in Tasks, TaskDies(r, t) PROVE ChainDone'
  <2>1. TryFails(r, t) /\ UNCHANGED dag
    BY <1>11 DEF TaskDies
  <2>2. \A q \in DagRuns : \A b \in WaitedFor :
          task'[q][Wait(b)] = "success" => task[q][Wait(b)] = "success"
    BY <1>5, <1>6, <2>1
  <2>3. CASE UNCHANGED spec
    BY <1>1, <2>1, <2>2, <2>3, ChainStays
  <2>4. CASE t[1] = "submit" /\ Apply(t[2])
    <3>1. PICK a \in DagApps : t = Submit(a)
      BY <2>4, TasksOf
    <3>2. t[2] = a /\ task[r][t] # "running"
      BY <3>1, TasksOf DEF TasksTyped
    <3>3. Ready(r, Submit(a))
      BY <1>11, <3>1, <3>2 DEF TaskDies
    <3>4. \A b \in Before(a) : Done(b)
      BY <3>3, ReadyDone
    <3>5. \A b \in Apps \ {a} : spec'[b] = spec[b]
      BY <2>4, <3>2 DEF Apply, Versions
    <3>. QED
      BY <1>1, <2>1, <2>2, <3>4, <3>5, ChainStays
  <2>. QED
    BY <1>11, <2>3, <2>4 DEF TaskDies
<1>12. ASSUME NEW a \in Apps, OperatorReacts(a) \/ RunJob(a) \/ ContainerDies(a)
       PROVE  ChainDone'
  BY <1>2, <1>12 DEF OperatorReacts, RunJob, ContainerDies
<1>13. CASE JenkinsDeploys
  <2>1. UNCHANGED <<dag, task>>
    BY <1>13 DEF JenkinsDeploys
  <2>2. \A b \in Apps \ {"flink_merge_streams"} : spec'[b] = spec[b]
    BY <1>13 DEF JenkinsDeploys, Versions
  <2>3. \A b \in Before("flink_merge_streams") : Done(b)
    BY BeforeTable
  <2>. QED
    BY <1>1, <2>1, <2>2, <2>3, ChainStays
<1>14. CASE StartDagRun \/ UNCHANGED vars
  BY <1>2, <1>14 DEF StartDagRun, vars
<1>. QED
  BY <1>3, <1>7, <1>8, <1>9, <1>10, <1>11, <1>12, <1>13, <1>14 DEF Next, Airflow

LEMMA ChainAlways == Spec => []ChainDone
<1>1. Init => ChainDone
  <2> SUFFICES ASSUME Init PROVE ChainDone
    OBVIOUS
  <2>1. TasksTyped
    BY InitialState
  <2>2. \A r \in DagRuns : \A a \in WaitedFor : task[r][Wait(a)] = "none"
    BY <2>1, TasksOf DEF Init
  <2>. QED
    BY <2>2, JobsAssumption DEF Init, JobsInit, ChainDone, Exists
<1>2. Inserted => Unstarted
  BY DEF Inserted
<1>. QED
  BY <1>1, <1>2, ChainStep, AlwaysTyped, InsertedAlways, PTL DEF Spec

-----------------------------------------------------------------------------
LEMMA Places ==
  /\ 2 \in 1..Len(Program("raw2delta_avro")) /\ 3 \in 1..Len(Program("raw2delta_avro"))
  /\ 2 \in 1..Len(Program("merge2delta")) /\ 3 \in 1..Len(Program("merge2delta"))
  /\ 2 \in 1..Len(Program("adding_uuidv7"))
<1>1. \A n \in {2, 3} : 2 \in 1..n
  OBVIOUS
<1>2. 3 \in 1..3
  OBVIOUS
<1>. QED
  BY <1>1, <1>2, Lengths

LEMMA StepPlace ==
  ASSUME JobsInv, NEW a \in Apps, NEW op, AtStep(a, op)
  PROVE  /\ app[a].pc \in 1..Len(Program(a))
         /\ Program(a)[app[a].pc].op = op
         /\ app[a].status # "new"
<1>1. app[a].pc \in Nat \ {0}
  BY DEF JobsInv, AppsTyped, Executions
<1>2. app[a].pc <= Len(Program(a)) /\ Len(Program(a)) \in Nat
  BY ProgramLength DEF AtStep
<1>3. app[a].pc \in 1..Len(Program(a))
  BY <1>1, <1>2
<1>. QED
  BY <1>3 DEF AtStep

(* What an application rests on is done as soon as it has started.         *)
LEMMA StartedDone ==
  ASSUME Versions, Unstarted, ChainDone, NEW a \in Apps, app[a].status # "new"
  PROVE  \A b \in Before(a) : Done(b)
<1>1. observed[a] # 0
  BY DEF Unstarted
<1>2. spec[a] = 0 => observed[a] = 0
  BY DEF Versions
<1>3. spec[a] # 0
  BY <1>1, <1>2
<1>. QED
  BY <1>3 DEF ChainDone

(* The streaming job finds the schema of its topic, however the Flink job, *)
(* its containers and the tasks of the DAG are restarted.                  *)
THEOREM SchemaBeforeStreaming == Spec => []StreamingFindsSchema
<1>1. Versions /\ Inserted /\ ChainDone => StreamingFindsSchema
  <2> SUFFICES ASSUME Versions, Unstarted, ChainDone, app["streaming_data"].status # "new"
               PROVE  "merge_metadata_reviews" \in subjects
    BY DEF Inserted, StreamingFindsSchema
  <2>1. "streaming_data" \in Apps
    BY DEF Apps, StreamApps, Services
  <2>2. Done("flink_merge_streams")
    BY <2>1, StartedDone, BeforeTable
  <2>3. 1 \in 1..Len(Program("flink_merge_streams"))
    <3>1. Len(Program("flink_merge_streams")) = 1
      BY Lengths
    <3>. QED
      BY <3>1
  <2>4. LeftBehind("flink_merge_streams", 1)
    BY <2>2, <2>3 DEF Done
  <2>5. Program("flink_merge_streams")[1] = Register(Subjects)
    BY Programs
  <2>6. Program("flink_merge_streams")[1].op = "register"
        /\ Program("flink_merge_streams")[1].from = Subjects
    BY <2>5, StepFields
  <2>7. Subjects \subseteq subjects
    BY <2>4, <2>6 DEF LeftBehind
  <2>. QED
    BY <2>7 DEF Subjects
<1>. QED
  BY <1>1, AlwaysTyped, InsertedAlways, ChainAlways, PTL

(* Under whatever names and with whatever left over, and however the DAG   *)
(* is retried and restarted, a job of the batch chain finds every folder   *)
(* that a job before it writes.                                            *)
THEOREM LoadsFindFolders == Spec => []InputsWritten
<1>1. JobsInv /\ Versions /\ Inserted /\ ChainDone => InputsWritten
  <2> SUFFICES ASSUME JobsInv, Versions, Unstarted, ChainDone,
                      NEW a \in BatchApps, AtStep(a, "load"),
                      NEW f \in Program(a)[app[a].pc].from,
                      f \in Leftover \/ \E b \in Before(a) : f \in Outputs(b)
               PROVE  Exists(f)
    BY DEF Inserted, InputsWritten
  <2>1. a \in Apps
    BY DEF Apps
  <2>2. /\ app[a].pc \in 1..Len(Program(a))
        /\ Program(a)[app[a].pc].op = "load"
        /\ app[a].status # "new"
    BY <2>1, StepPlace
  <2>3. CASE f \in Leftover
    BY <2>3 DEF ChainDone
  <2>4. ASSUME NEW b \in Before(a), f \in Outputs(b) PROVE Exists(f)
    <3>1. Done(b) /\ b \in Apps
      BY <2>1, <2>2, StartedDone, BeforeAreApps
    <3>2. PICK i \in DOMAIN Program(b) :
            Program(b)[i].op = "write" /\ Program(b)[i].on = f
      BY <2>4 DEF Outputs, Writes
    <3>3. i \in 1..Len(Program(b))
      BY <3>1, <3>2, ProgramDomain
    <3>4. f \in Folders
      BY <2>1, <2>2, StepsWellFormed DEF WellFormed
    <3>. QED
      BY <3>1, <3>2, <3>3, <3>4 DEF Done, LeftBehind
  <2>. QED
    BY <2>3, <2>4
<1>. QED
  BY <1>1, AlwaysTyped, InsertedAlways, ChainAlways, PTL
-----------------------------------------------------------------------------
(* The four kinds of steps, as OneVersionRead sees them.  First: a task    *)
(* that was running or ready goes on.                                      *)
TaskMove(r, t) ==
  /\ task[r][t] = "running" \/ Ready(r, t)
  /\ task'[r][t] # "none"
  /\ \A q \in DagRuns : \A u \in Tasks : q # r \/ u # t => task'[q][u] = task[q][u]
  /\ UNCHANGED <<dag, started, jobs, observed>>
  /\ ~raced' => ~raced
  /\ \A a \in Apps : spec'[a] # spec[a] => t = Submit(a)
  /\ \A a \in WaitedFor : t = Wait(a) /\ task'[r][t] = "success" /\ ~raced' =>
       Succeeded(a) /\ ~Stale(a)

(* Second: no task and no application moves; Jenkins may deploy Flink.     *)
Aside ==
  /\ UNCHANGED <<dag, started, task, jobs, observed>>
  /\ ~raced' => ~raced
  /\ \A a \in Apps \ {"flink_merge_streams"} : spec'[a] = spec[a]

(* Third: an application moves, by itself or by its operator.              *)
AppMoves(a) ==
  /\ OperatorReacts(a) \/ RunJob(a) \/ ContainerDies(a)
  /\ UNCHANGED <<dag, started, task, spec, raced>>

(* The fourth is a new run of the DAG. *)
LEMMA StepShapes ==
  ASSUME TasksTyped, Versions, [Next]_vars
  PROVE  \/ StartDagRun
         \/ \E r \in 1..started : \E t \in Tasks : TaskMove(r, t)
         \/ Aside
         \/ \E a \in Apps : AppMoves(a)
<1> DEFINE Shapes == \/ StartDagRun
                     \/ \E r \in 1..started : \E t \in Tasks : TaskMove(r, t)
                     \/ Aside
                     \/ \E a \in Apps : AppMoves(a)
<1> USE DEF airflow, objects, copies
<1>1. \A r \in 1..started : r \in DagRuns
  BY OrchestrationAssumption DEF TasksTyped, DagRuns
<1>2. {"running", "success", "failed", "up_for_retry"} \subseteq TaskStates
  BY DEF TaskStates
<1>3. ASSUME NEW r \in DagRuns, NEW t \in Tasks, TryFails(r, t)
      PROVE  /\ task'[r][t] \in {"failed", "up_for_retry"}
             /\ \A q \in DagRuns : \A u \in Tasks : q # r \/ u # t => task'[q][u] = task[q][u]
  <2> DEFINE state == IF tries[r][t] < Retries THEN "up_for_retry" ELSE "failed"
  <2>1. SetTask(r, t, state) /\ state \in TaskStates /\ state \in {"failed", "up_for_retry"}
    BY <1>2, <1>3 DEF TryFails
  <2>. HIDE DEF state
  <2>. QED
    BY <2>1, SetTaskEffect
<1>4. ASSUME NEW r \in 1..started, NEW a \in DagApps, RunSubmit(r, a) PROVE Shapes
  <2>1. Submit(a) \in Tasks /\ \A b : Submit(a) # Wait(b)
    BY TasksOf
  <2>2. /\ task'[r][Submit(a)] # "none"
        /\ \A q \in DagRuns : \A u \in Tasks : q # r \/ u # Submit(a) => task'[q][u] = task[q][u]
    <3>1. CASE SetTask(r, Submit(a), "success")
      BY <1>1, <1>2, <2>1, <3>1, SetTaskEffect
    <3>2. CASE TryFails(r, Submit(a))
      BY <1>1, <1>3, <2>1, <3>2
    <3>. QED
      BY <1>4, <3>1, <3>2 DEF RunSubmit
  <2>3. \A b \in Apps : spec'[b] # spec[b] => Submit(a) = Submit(b)
    BY <1>4 DEF RunSubmit, Apply, Versions
  <2>4. Ready(r, Submit(a)) /\ UNCHANGED <<dag, started, jobs, observed, raced>>
    BY <1>4 DEF RunSubmit
  <2>5. TaskMove(r, Submit(a))
    BY <2>1, <2>2, <2>3, <2>4 DEF TaskMove
  <2>. QED
    BY <2>1, <2>5
<1>5. ASSUME NEW r \in 1..started, NEW a \in WaitedFor, StartWait(r, a) PROVE Shapes
  <2>1. Wait(a) \in Tasks
    BY TasksOf
  <2>2. SetTask(r, Wait(a), "running")
    BY <1>5 DEF StartWait
  <2>3. /\ task'[r][Wait(a)] = "running"
        /\ \A q \in DagRuns : \A u \in Tasks : q # r \/ u # Wait(a) => task'[q][u] = task[q][u]
    BY <1>1, <1>2, <2>1, <2>2, SetTaskEffect
  <2>4. Ready(r, Wait(a)) /\ UNCHANGED <<dag, started, jobs, observed, spec, raced>>
    BY <1>5 DEF StartWait
  <2>5. TaskMove(r, Wait(a))
    BY <2>3, <2>4 DEF TaskMove
  <2>. QED
    BY <2>1, <2>5
<1>6. ASSUME NEW r \in 1..started, NEW a \in WaitedFor, Poll(r, a) PROVE Shapes
  <2>1. Wait(a) \in Tasks /\ \A b : Wait(a) = Wait(b) => a = b
    BY TasksOf DEF Wait
  <2>2. /\ task[r][Wait(a)] = "running"
        /\ UNCHANGED <<dag, started, jobs, observed, spec>>
        /\ ~raced' => ~raced /\ ~(Stale(a) /\ Succeeded(a))
    BY <1>6 DEF Poll
  <2>3. CASE Succeeded(a) /\ SetTask(r, Wait(a), "success")
    <3>1. /\ task'[r][Wait(a)] # "none"
          /\ \A q \in DagRuns : \A u \in Tasks : q # r \/ u # Wait(a) => task'[q][u] = task[q][u]
      BY <1>1, <1>2, <2>1, <2>3, SetTaskEffect
    <3>2. TaskMove(r, Wait(a))
      BY <2>1, <2>2, <2>3, <3>1 DEF TaskMove
    <3>. QED
      BY <2>1, <3>2
  <2>4. CASE TryFails(r, Wait(a))
    <3>1. TaskMove(r, Wait(a))
      BY <1>1, <1>3, <2>1, <2>2, <2>4 DEF TaskMove
    <3>. QED
      BY <2>1, <3>1
  <2>5. CASE UNCHANGED task
    <3>1. Aside
      BY <2>2, <2>5 DEF Aside
    <3>. QED
      BY <3>1
  <2>. QED
    BY <1>6, <2>3, <2>4, <2>5 DEF Poll
<1>7. ASSUME NEW r \in 1..started, NEW a \in WaitedFor, Timeout(r, a) PROVE Shapes
  <2>1. Wait(a) \in Tasks
    BY TasksOf
  <2>2. /\ task[r][Wait(a)] = "running" /\ TryFails(r, Wait(a))
        /\ UNCHANGED <<dag, started, jobs, observed, spec, raced>>
    BY <1>7 DEF Timeout
  <2>3. TaskMove(r, Wait(a))
    BY <1>1, <1>3, <2>1, <2>2 DEF TaskMove
  <2>. QED
    BY <2>1, <2>3
<1>8. ASSUME NEW r \in 1..started, NEW t \in Tasks, TaskDies(r, t) PROVE Shapes
  <2>1. /\ task[r][t] = "running" \/ Ready(r, t)
        /\ TryFails(r, t)
        /\ UNCHANGED <<dag, started, jobs, observed, raced>>
    BY <1>8 DEF TaskDies
  <2>2. \A a \in Apps : spec'[a] # spec[a] => t = Submit(a)
    <3>1. CASE UNCHANGED spec
      BY <3>1
    <3>2. CASE t[1] = "submit" /\ Apply(t[2])
      <4>1. PICK b \in DagApps : t = Submit(b) /\ t[2] = b
        BY <3>2, TasksOf
      <4>2. \A a \in Apps \ {b} : spec'[a] = spec[a]
        BY <3>2, <4>1 DEF Apply, Versions
      <4>. QED
        BY <4>1, <4>2
    <3>. QED
      BY <1>8, <3>1, <3>2 DEF TaskDies
  <2>3. TaskMove(r, t)
    BY <1>1, <1>3, <2>1, <2>2 DEF TaskMove
  <2>. QED
    BY <2>3
<1>9. ASSUME NEW a \in Apps, OperatorReacts(a) \/ RunJob(a) \/ ContainerDies(a) PROVE Shapes
  <2>1. AppMoves(a)
    BY <1>9 DEF AppMoves, OperatorReacts, RunJob, ContainerDies
  <2>. QED
    BY <2>1
<1>10. CASE JenkinsDeploys
  <2>1. Aside
    BY <1>10 DEF Aside, JenkinsDeploys, Versions
  <2>. QED
    BY <2>1
<1>11. CASE UNCHANGED vars
  <2>1. Aside
    BY <1>11 DEF Aside, vars
  <2>. QED
    BY <2>1
<1>. QED
  BY <1>4, <1>5, <1>6, <1>7, <1>8, <1>9, <1>10, <1>11 DEF Next, Airflow
-----------------------------------------------------------------------------
(* A task leaves "none" only in a run that has started and over upstream   *)
(* tasks that have succeeded, and these never move again.                  *)
UpstreamDone ==
  \A r \in DagRuns : \A t \in Tasks :
    task[r][t] # "none" => r <= started /\ \A u \in Upstream(t) : task[r][u] = "success"

LEMMA UpstreamAreTasks == TasksTyped => \A t \in Tasks : Upstream(t) \subseteq Tasks
<1> SUFFICES ASSUME TasksTyped, NEW t \in Tasks PROVE Upstream(t) \subseteq Tasks
  OBVIOUS
<1>1. \A a, b : Submit(a) # Wait(b) /\ (Submit(a) = Submit(b) => a = b)
  BY TasksOf DEF Submit
<1>2. \A a : Submit(a)[1] = "submit"
  BY TasksOf
<1>3. CASE \E a : t = Wait(a)
  <2>1. PICK a : t = Wait(a)
    BY <1>3
  <2>2. a \in DagApps
    <3>1. \A b : Wait(a) = Wait(b) => a = b
      BY DEF Wait
    <3>. QED
      BY <1>1, <2>1, <3>1, TasksOf
  <2>. QED
    BY <2>1, <2>2, UpstreamTable, TasksOf
<1>4. ASSUME NEW a \in DagApps, t = Submit(a) PROVE Upstream(t) \subseteq Tasks
  <2>1. CASE a \in {"merge2delta", "adding_uuidv7", "generate_silver_schema", "generate_data_mart"}
    <3>1. Upstream(t) \subseteq {Wait(b) : b \in {"raw2delta_avro", "merge2delta", "adding_uuidv7"}}
      BY <1>4, <2>1, UpstreamTable
    <3>2. dag = "batch"
      BY <2>1 DEF DagApps, StreamApps, Inserters, Services
    <3>. QED
      BY <3>1, <3>2 DEF Tasks, BatchTasks
  <2>2. CASE a = "streaming_data"
    <3>1. dag # "batch"
      BY <2>2 DEF DagApps, BatchApps
    <3>. QED
      BY <1>4, <2>2, <3>1, UpstreamTable DEF Tasks, StreamTasks
  <2>3. CASE a = "flink_merge_streams"
    <3>1. dag # "batch"
      BY <2>3 DEF DagApps, BatchApps
    <3>2. Upstream(t) = {Submit(b) : b \in Inserters}
      BY <1>1, <1>2, <1>4, <2>3 DEF Upstream, BatchUpstream, StreamUpstream
    <3>. QED
      BY <3>1, <3>2 DEF Tasks, StreamTasks, StreamApps
  <2>4. CASE a \in Inserters \cup {"raw2delta_avro"}
    <3>1. Upstream(t) = {}
      BY <1>1, <1>2, <1>4, <2>4 DEF Upstream, BatchUpstream, StreamUpstream, Inserters
    <3>. QED
      BY <3>1
  <2>5. a \in Apps
    BY DagAppsAreApps
  <2>. QED
    BY <2>1, <2>2, <2>3, <2>4, <2>5 DEF Apps, BatchApps, StreamApps, Services
<1>. QED
  BY <1>3, <1>4, TasksOf

LEMMA UpstreamStep ==
  TasksTyped /\ Versions /\ UpstreamDone /\ [Next]_vars => UpstreamDone'
<1> SUFFICES ASSUME TasksTyped, Versions, UpstreamDone, [Next]_vars PROVE UpstreamDone'
  OBVIOUS
<1>1. ASSUME UNCHANGED <<dag, task>>, started' >= started PROVE UpstreamDone'
  <2>1. Tasks' = Tasks
    BY <1>1 DEF Tasks
  <2>2. started \in Nat /\ started' \in Nat
    BY TasksStep, OrchestrationAssumption DEF TasksTyped
  <2>3. \A r \in DagRuns : r <= started => r <= started'
    BY <1>1, <2>2 DEF DagRuns
  <2>. QED
    BY <1>1, <2>1, <2>3 DEF UpstreamDone
<1>2. started \in Nat
  BY DEF TasksTyped
<1>3. CASE StartDagRun
  BY <1>1, <1>2, <1>3 DEF StartDagRun
<1>4. ASSUME NEW r \in 1..started, NEW t \in Tasks, TaskMove(r, t) PROVE UpstreamDone'
  <2>1. Tasks' = Tasks /\ started' = started
    BY <1>4 DEF Tasks, TaskMove
  <2>2. task[r][t] # "success" /\ r \in DagRuns /\ r <= started
    BY <1>2, <1>4, OrchestrationAssumption DEF TaskMove, Ready, TasksTyped, DagRuns
  <2>3. \A u \in Upstream(t) : task[r][u] = "success"
    BY <1>4, <2>2 DEF TaskMove, Ready, UpstreamDone
  <2>4. \A q \in DagRuns : \A u \in Tasks : task[q][u] = "success" => task'[q][u] = "success"
    BY <1>4, <2>2 DEF TaskMove
  <2>5. \A q \in DagRuns : \A u \in Tasks : task'[q][u] # "none" =>
          /\ q <= started
          /\ \A w \in Upstream(u) : task[q][w] = "success"
    BY <1>4, <2>2, <2>3 DEF TaskMove, UpstreamDone
  <2>. QED
    BY <2>1, <2>4, <2>5, UpstreamAreTasks DEF UpstreamDone
<1>5. CASE Aside
  BY <1>1, <1>2, <1>5 DEF Aside
<1>6. CASE \E a \in Apps : AppMoves(a)
  BY <1>1, <1>2, <1>6 DEF AppMoves
<1>. QED
  BY <1>3, <1>4, <1>5, <1>6, StepShapes

(* As long as the DAG has not raced with itself: the runs before the last  *)
(* have ended, only the last one has work under way, and where its wait    *)
(* task has succeeded that work is over.                                   *)
Busy(a) == Stale(a) \/ app[a].status = "running"

Alone ==
  ~raced =>
    /\ \A r \in DagRuns : r < started => Ended(r)
    /\ \A a \in BatchApps : Busy(a) =>
         dag = "batch" /\ started \in DagRuns /\ task[started][Submit(a)] # "none"
    /\ \A a \in WaitedFor \cap BatchApps :
         started \in DagRuns /\ task[started][Wait(a)] = "success" => 
           app[a].status = "completed" /\ ~Stale(a)

LEMMA EndedStays ==
  ASSUME TasksTyped, NEW r \in DagRuns, Ended(r), UNCHANGED dag,
         started \in Nat, started' \in Nat, started' >= started,
         \A u \in Tasks : task'[r][u] = task[r][u]
  PROVE  Ended(r)'
<1>1. Tasks' = Tasks
  BY DEF Tasks
<1>2. \A t \in Tasks : Ready(r, t)' => Ready(r, t)
  BY UpstreamAreTasks DEF Ready
<1>3. r <= started'
  BY DEF Ended, DagRuns
<1>4. r \in Nat
  BY DEF DagRuns
<1>. QED
  BY <1>1, <1>2, <1>3 DEF Ended

(* What moves by itself or by its operator had something to do.            *)
LEMMA MoverIsBusy ==
  ASSUME JobsInv, Versions, NEW a \in Apps, AppMoves(a)
  PROVE  /\ Busy(a)
         /\ \A b \in Apps \ {a} : app'[b] = app[b] /\ observed'[b] = observed[b]
<1>1. CASE OperatorReacts(a)
  <2>1. Stale(a) /\ Execute(a) /\ observed' = [observed EXCEPT ![a] = spec[a]]
    BY <1>1 DEF OperatorReacts
  <2>. QED
    BY <2>1, ExecuteEffect DEF JobsInv, Busy, Versions
<1>2. CASE RunJob(a)
  <2>1. JobStep(a) /\ UNCHANGED observed
    BY <1>2 DEF RunJob, objects
  <2>. QED
    BY <2>1, JobStepKeeps DEF Busy, Runs
<1>3. CASE ContainerDies(a)
  <2>1. JobDies(a) /\ UNCHANGED observed
    BY <1>3 DEF ContainerDies, objects
  <2>2. Runs(a)
    BY <2>1, JobDiesKeeps
  <2>. QED
    BY <2>1, <2>2 DEF Busy, Runs
<1>. QED
  BY <1>1, <1>2, <1>3 DEF AppMoves

LEMMA AloneStep ==
  JobsInv /\ TasksTyped /\ Versions /\ UpstreamDone /\ Alone /\ [Next]_vars => Alone'
<1> SUFFICES ASSUME JobsInv, TasksTyped, Versions, UpstreamDone, Alone, [Next]_vars, ~raced'
             PROVE  /\ \A r \in DagRuns : r < started' => Ended(r)'
                    /\ \A a \in BatchApps : Busy(a)' =>
                         /\ dag' = "batch" /\ started' \in DagRuns
                         /\ task'[started'][Submit(a)] # "none"
                    /\ \A a \in WaitedFor' \cap BatchApps :
                         started' \in DagRuns /\ task'[started'][Wait(a)] = "success" =>
                           app'[a].status = "completed" /\ ~Stale(a)'
  BY DEF Alone
<1>1. started \in Nat /\ BatchApps \subseteq Apps
  BY DEF TasksTyped, Apps
<1>2. UNCHANGED dag => WaitedFor' = WaitedFor
  BY DEF WaitedFor, DagApps, Tasks
<1>3. \A a \in WaitedFor : Wait(a) \in Tasks /\ \A b : Submit(b) # Wait(a)
  BY TasksOf
<1>4. CASE StartDagRun
  <2>1. /\ ~raced
        /\ \A r \in 1..started : Ended(r)
        /\ \A a \in BatchApps : ~Busy(a)
        /\ started' = started + 1
        /\ UNCHANGED <<dag, task, jobs, objects>>
    BY <1>4 DEF StartDagRun, Busy
  <2>2. \A r \in DagRuns : r < started' => Ended(r)'
    <3> SUFFICES ASSUME NEW r \in DagRuns, r < started' PROVE Ended(r)'
      OBVIOUS
    <3>1. r \in 1..started
      BY <1>1, <2>1 DEF DagRuns
    <3>. QED
      BY <1>1, <2>1, <3>1, EndedStays
  <2>3. \A a \in BatchApps : ~Busy(a)'
    BY <2>1 DEF Busy, Stale, objects, jobs
  <2>4. \A r \in DagRuns : \A t \in Tasks : r = started' => task'[r][t] = "none"
    BY <1>1, <2>1 DEF UpstreamDone
  <2>. QED
    BY <1>2, <1>3, <2>1, <2>2, <2>3, <2>4
<1>5. ASSUME NEW r \in 1..started, NEW t \in Tasks, TaskMove(r, t)
      PROVE  /\ \A q \in DagRuns : q < started' => Ended(q)'
             /\ \A a \in BatchApps : Busy(a)' =>
                  /\ dag' = "batch" /\ started' \in DagRuns
                  /\ task'[started'][Submit(a)] # "none"
             /\ \A a \in WaitedFor' \cap BatchApps :
                  started' \in DagRuns /\ task'[started'][Wait(a)] = "success" =>
                    app'[a].status = "completed" /\ ~Stale(a)'
  <2>1. /\ ~raced
        /\ task[r][t] = "running" \/ Ready(r, t)
        /\ task'[r][t] # "none"
        /\ UNCHANGED <<dag, started, jobs, observed>>
        /\ \A q \in DagRuns : \A u \in Tasks : q # r \/ u # t => task'[q][u] = task[q][u]
        /\ \A a \in Apps : spec'[a] # spec[a] => t = Submit(a)
    BY <1>5 DEF TaskMove
  <2>2. r \in DagRuns /\ task[r][t] # "success"
    BY <1>1, <2>1, OrchestrationAssumption DEF TasksTyped, DagRuns, Ready
  <2>3. ~Ended(r)
    BY <2>1 DEF Ended
  <2>4. r = started
    <3>1. ~(r < started)
      BY <2>1, <2>2, <2>3 DEF Alone
    <3>. QED
      BY <1>1, <3>1
  <2>5. \A q \in DagRuns : q < started => Ended(q)'
    <3> SUFFICES ASSUME NEW q \in DagRuns, q < started PROVE Ended(q)'
      OBVIOUS
    <3>1. q # r
      BY <1>1, <2>4
    <3>2. Ended(q)
      BY <2>1 DEF Alone
    <3>. QED
      BY <1>1, <2>1, <3>1, <3>2, EndedStays
  <2>6. ASSUME NEW a \in BatchApps, Busy(a)'
        PROVE  dag = "batch" /\ task'[started][Submit(a)] # "none"
    <3>1. CASE Busy(a)
      <4>1. dag = "batch" /\ task[started][Submit(a)] # "none"
        BY <2>1, <3>1 DEF Alone
      <4>2. Submit(a) \in Tasks
        BY <4>1, TasksOf DEF DagApps
      <4>. QED
        BY <2>1, <2>2, <2>4, <4>1, <4>2
    <3>2. CASE ~Busy(a)
      <4>1. spec'[a] # spec[a]
        BY <2>1, <2>6, <3>2 DEF Busy, Stale, jobs
      <4>2. t = Submit(a)
        BY <1>1, <2>1, <4>1
      <4>3. PICK b \in DagApps : t = Submit(b)
        BY <4>2, TasksOf
      <4>4. a = b
        BY <4>2, <4>3 DEF Submit
      <4>5. dag = "batch"
        BY <4>4 DEF DagApps, BatchApps, StreamApps, Inserters, Services
      <4>. QED
        BY <2>1, <2>4, <4>2, <4>5
    <3>. QED
      BY <3>1, <3>2
  <2>7. ASSUME NEW a \in WaitedFor \cap BatchApps, task'[started][Wait(a)] = "success"
        PROVE  app'[a].status = "completed" /\ ~Stale(a)'
    <3>1. a \in Apps /\ a # "flink_merge_streams"
      BY <1>1 DEF BatchApps
    <3>2. CASE t = Wait(a)
      <4>1. Succeeded(a) /\ ~Stale(a)
        BY <1>5, <2>4, <2>7, <3>2 DEF TaskMove
      <4>2. spec'[a] = spec[a]
        BY <1>3, <2>1, <3>1, <3>2
      <4>. QED
        BY <2>1, <3>1, <4>1, <4>2 DEF Succeeded, Stale, jobs
    <3>3. CASE t # Wait(a)
      <4>1. task[started][Wait(a)] = "success"
        BY <1>3, <2>1, <2>2, <2>4, <2>7, <3>3
      <4>2. app[a].status = "completed" /\ ~Stale(a)
        BY <2>1, <2>2, <2>4, <4>1 DEF Alone
      <4>3. task[started][Submit(a)] = "success"
        BY <1>3, <2>2, <2>4, <4>1, UpstreamTable DEF UpstreamDone
      <4>4. spec'[a] = spec[a]
        BY <2>1, <2>2, <2>4, <3>1, <4>3
      <4>. QED
        BY <2>1, <4>2, <4>4 DEF Stale, jobs
    <3>. QED
      BY <3>2, <3>3
  <2>. QED
    BY <1>2, <2>1, <2>2, <2>4, <2>5, <2>6, <2>7
<1>6. ASSUME UNCHANGED <<dag, started, task>>, ~raced,
             \A a \in BatchApps : Busy(a)' => Busy(a),
             \A a \in BatchApps : ~Busy(a) => app'[a] = app[a] /\ (Stale(a)' <=> Stale(a))
      PROVE  /\ \A q \in DagRuns : q < started' => Ended(q)'
             /\ \A a \in BatchApps : Busy(a)' =>
                  /\ dag' = "batch" /\ started' \in DagRuns
                  /\ task'[started'][Submit(a)] # "none"
             /\ \A a \in WaitedFor' \cap BatchApps :
                  started' \in DagRuns /\ task'[started'][Wait(a)] = "success" =>
                    app'[a].status = "completed" /\ ~Stale(a)'
  <2>1. \A q \in DagRuns : q < started' => Ended(q)'
    BY <1>1, <1>6, EndedStays DEF Alone
  <2>2. \A a \in BatchApps : Busy(a)' =>
          /\ dag' = "batch" /\ started' \in DagRuns
          /\ task'[started'][Submit(a)] # "none"
    BY <1>6 DEF Alone
  <2>3. ASSUME NEW a \in WaitedFor' \cap BatchApps,
               started' \in DagRuns, task'[started'][Wait(a)] = "success"
        PROVE  app'[a].status = "completed" /\ ~Stale(a)'
    <3>1. app[a].status = "completed" /\ ~Stale(a)
      BY <1>2, <1>6, <2>3 DEF Alone
    <3>2. ~Busy(a)
      BY <3>1 DEF Busy
    <3>. QED
      BY <1>6, <3>1, <3>2
  <2>. QED
    BY <2>1, <2>2, <2>3
<1>7. CASE Aside
  <2>1. \A a \in BatchApps : a \in Apps \ {"flink_merge_streams"}
    BY <1>1 DEF BatchApps
  <2>2. \A a \in BatchApps : app'[a] = app[a] /\ (Stale(a)' <=> Stale(a))
    BY <1>7, <2>1 DEF Aside, Stale, jobs
  <2>3. UNCHANGED <<dag, started, task>> /\ ~raced
    BY <1>7 DEF Aside
  <2>4. \A a \in BatchApps : Busy(a)' => Busy(a)
    BY <2>2 DEF Busy
  <2>. QED
    BY <1>6, <2>2, <2>3, <2>4
<1>8. ASSUME NEW a \in Apps, AppMoves(a)
      PROVE  /\ \A q \in DagRuns : q < started' => Ended(q)'
             /\ \A b \in BatchApps : Busy(b)' =>
                  /\ dag' = "batch" /\ started' \in DagRuns
                  /\ task'[started'][Submit(b)] # "none"
             /\ \A b \in WaitedFor' \cap BatchApps :
                  started' \in DagRuns /\ task'[started'][Wait(b)] = "success" =>
                    app'[b].status = "completed" /\ ~Stale(b)'
  <2>1. Busy(a) /\ \A b \in Apps \ {a} : app'[b] = app[b] /\ observed'[b] = observed[b]
    BY <1>8, MoverIsBusy
  <2>2. UNCHANGED <<dag, started, task, spec>> /\ ~raced
    BY <1>8 DEF AppMoves
  <2>3. \A b \in Apps \ {a} : app'[b] = app[b] /\ (Stale(b)' <=> Stale(b))
    BY <2>1, <2>2 DEF Stale
  <2>4. \A b \in BatchApps : Busy(b)' => Busy(b)
    BY <1>1, <2>1, <2>3 DEF Busy
  <2>5. \A b \in BatchApps : ~Busy(b) => app'[b] = app[b] /\ (Stale(b)' <=> Stale(b))
    BY <1>1, <2>1, <2>3
  <2>. QED
    BY <1>6, <2>2, <2>4, <2>5
<1>. QED
  BY <1>4, <1>5, <1>7, <1>8, StepShapes
-----------------------------------------------------------------------------
(* What the steps of the jobs do to the folders, and who writes which.     *)
LEMMA FolderWriters ==
  ASSUME NEW a \in Apps, NEW i \in 1..Len(Program(a)),
         Program(a)[i].op = "write", Program(a)[i].on \in Folders
  PROVE  \/ a = "raw2delta_avro" /\ i = 2 /\ Program(a)[i].on = <<DeltaWritten, "reviews">>
         \/ a = "raw2delta_avro" /\ i = 3 /\ Program(a)[i].on = <<DeltaWritten, "metadata">>
         \/ a = "merge2delta" /\ i = 2 /\ Program(a)[i].on = <<Merge, "reviews">>
         \/ a = "merge2delta" /\ i = 3 /\ Program(a)[i].on = <<Merge, "metadata">>
         \/ a = "adding_uuidv7" /\ i = 2 /\ Program(a)[i].on = <<RefinedWritten, "">>
<1>1. /\ Len(Program(a)) = 1 => i = 1
      /\ Len(Program(a)) = 2 => i \in {1, 2}
      /\ Len(Program(a)) = 3 => i \in {1, 2, 3}
      /\ Len(Program(a)) = 6 => i \in {1, 2, 3, 4, 5, 6}
  OBVIOUS
<1>2. CASE a = "raw2delta_avro"
  BY <1>1, <1>2, Lengths, Programs, RawToDeltaSteps
<1>3. CASE a = "merge2delta"
  BY <1>1, <1>3, Lengths, Programs, MergeToDeltaSteps
<1>4. CASE a = "adding_uuidv7"
  BY <1>1, <1>4, Lengths, Programs, AddingUuidsSteps
<1>5. CASE a = "generate_silver_schema"
  BY <1>1, <1>5, Lengths, Programs, SilverSchemaSteps, FolderNames
<1>6. CASE a = "generate_data_mart"
  BY <1>1, <1>6, Lengths, Programs, DataMartsSteps, FolderNames
<1>7. CASE a \in Inserters
  <2>1. i \in 1..Lines /\ Program(a) = [l \in 1..Lines |-> Insert]
    BY <1>7, Lengths, Programs
  <2>2. Program(a)[i] = Insert
    BY <2>1
  <2>. QED
    BY <2>2, StepFields
<1>8. CASE a \in {"flink_merge_streams", "streaming_data"}
  <2>1. i = 1
    BY <1>1, <1>8, Lengths
  <2>2. Program(a)[1] = Register(Subjects) \/ Program(a)[1] = Need({"merge_metadata_reviews"})
    BY <1>8, Programs
  <2>3. Program(a)[1].op = "register" \/ Program(a)[1].op = "need"
    BY <2>2, StepFields
  <2>. QED
    BY <2>1, <2>3
<1>. QED
  BY <1>2, <1>3, <1>4, <1>5, <1>6, <1>7, <1>8 DEF Apps, BatchApps, StreamApps, Services

(* No folder has two writers, and no writer writes a folder twice.         *)
LEMMA OneWriter ==
  ASSUME NEW a \in Apps, NEW i \in 1..Len(Program(a)),
         NEW b \in Apps, NEW j \in 1..Len(Program(b)),
         Program(a)[i].op = "write", Program(a)[i].on \in Folders,
         Program(b)[j].op = "write", Program(b)[j].on = Program(a)[i].on
  PROVE  a = b /\ i = j
<1>1. DeltaWritten # Merge /\ DeltaWritten # RefinedWritten /\ Merge # RefinedWritten
  BY DEF DeltaWritten, Merge, RefinedWritten
<1>2. /\ \A x, y : <<x, "reviews">> # <<y, "metadata">>
      /\ \A x, y : <<x, "reviews">> # <<y, "">>
      /\ \A x, y : <<x, "metadata">> # <<y, "">>
      /\ \A x, y, k : <<x, k>> = <<y, k>> => x = y
  OBVIOUS
<1>3. PICK f : f = Program(a)[i].on
  OBVIOUS
<1> DEFINE Table(c, k) ==
      \/ c = "raw2delta_avro" /\ k = 2 /\ f = <<DeltaWritten, "reviews">>
      \/ c = "raw2delta_avro" /\ k = 3 /\ f = <<DeltaWritten, "metadata">>
      \/ c = "merge2delta" /\ k = 2 /\ f = <<Merge, "reviews">>
      \/ c = "merge2delta" /\ k = 3 /\ f = <<Merge, "metadata">>
      \/ c = "adding_uuidv7" /\ k = 2 /\ f = <<RefinedWritten, "">>
<1>4. Table(a, i)
  BY <1>3, FolderWriters
<1>5. Table(b, j)
  BY <1>3, FolderWriters
<1>6. CASE a = "raw2delta_avro" /\ i = 2 /\ f = <<DeltaWritten, "reviews">>
  BY <1>1, <1>2, <1>5, <1>6
<1>7. CASE a = "raw2delta_avro" /\ i = 3 /\ f = <<DeltaWritten, "metadata">>
  BY <1>1, <1>2, <1>5, <1>7
<1>8. CASE a = "merge2delta" /\ i = 2 /\ f = <<Merge, "reviews">>
  BY <1>1, <1>2, <1>5, <1>8
<1>9. CASE a = "merge2delta" /\ i = 3 /\ f = <<Merge, "metadata">>
  BY <1>1, <1>2, <1>5, <1>9
<1>10. CASE a = "adding_uuidv7" /\ i = 2 /\ f = <<RefinedWritten, "">>
  BY <1>1, <1>2, <1>5, <1>10
<1>. QED
  BY <1>4, <1>6, <1>7, <1>8, <1>9, <1>10

(* An application moves: it starts anew and leaves the folders alone, or   *)
(* it takes the step it is at.                                             *)
Anew(a) ==
  /\ content' = content
  /\ app'[a].pc = 1
  /\ app'[a].status # "completed"
  /\ a \in BatchApps /\ app'[a].status = "running" => app'[a].seen = {}

Step(a, i) ==
  LET s == Program(a)[i] IN
  /\ i = app[a].pc /\ app[a].status = "running"
  /\ app'[a].pc = i + 1 /\ app'[a].execution = app[a].execution
  /\ app'[a].status \in {"running", "completed"}
  /\ app'[a].status = "completed" => i = Len(Program(a))
  /\ s.op # "write" => app'[a].seen = app[a].seen
  /\ s.op = "write" => app'[a].seen = app[a].seen \cup {content[f] : f \in s.from}
  /\ s.op = "load" => \A f \in s.from : Exists(f)
  /\ content' = IF s.op = "write" /\ s.on # Elsewhere
                  THEN [content EXCEPT ![s.on] = app[a].execution + 1] ELSE content

LEMMA StepTaken ==
  ASSUME JobsInv, NEW a \in Apps, AtStep(a, Program(a)[app[a].pc].op), Advance(a),
         Program(a)[app[a].pc].op = "load" =>
           \A f \in Program(a)[app[a].pc].from : Exists(f),
         content' = IF Program(a)[app[a].pc].op = "write" /\ Program(a)[app[a].pc].on # Elsewhere
                      THEN [content EXCEPT ![Program(a)[app[a].pc].on] = app[a].execution + 1]
                      ELSE content
  PROVE  \E i \in 1..Len(Program(a)) : Step(a, i)
<1>1. app[a].pc \in 1..Len(Program(a)) /\ app[a].status = "running"
      /\ app[a].pc <= Len(Program(a))
  BY StepPlace DEF AtStep
<1>2. WellFormed(Program(a), app[a].pc) /\ WellFormed(Program(a), 1)
  <2>1. 1 \in 1..Len(Program(a))
    BY ProgramLength
  <2>. QED
    BY <1>1, <2>1, StepsWellFormed
<1>3. Program(a)[app[a].pc].op = "write" => Program(a)[app[a].pc].from \subseteq Folders
  BY <1>2 DEF WellFormed
<1>4. AppsTyped /\ content \in [Folders -> Nat]
  BY DEF JobsInv, DataTyped
<1>5. Step(a, app[a].pc)
  BY <1>1, <1>3, <1>4, AdvanceEffect DEF Step
<1>. QED
  BY <1>1, <1>5

LEMMA MoverShapes ==
  ASSUME JobsInv, NEW a \in Apps, AppMoves(a)
  PROVE  Anew(a) \/ \E i \in 1..Len(Program(a)) : Step(a, i)
<1>1. AppsTyped
  BY DEF JobsInv
<1>2. ASSUME Fail(a), UNCHANGED data PROVE Anew(a)
  BY <1>1, <1>2, FailEffect DEF Anew, data
<1>3. CASE OperatorReacts(a)
  <2>1. Execute(a) /\ UNCHANGED data
    BY <1>3 DEF OperatorReacts, Execute
  <2>. QED
    BY <1>1, <2>1, ExecuteEffect DEF Anew, data
<1>4. CASE LoadFolders(a)
  <2>1. AtStep(a, "load") /\ UNCHANGED data
    BY <1>4 DEF LoadFolders
  <2>2. Program(a)[app[a].pc].op = "load"
    BY <2>1 DEF AtStep
  <2>3. CASE Fail(a)
    BY <1>2, <2>1, <2>3
  <2>4. CASE Advance(a) /\ \A f \in Program(a)[app[a].pc].from : Exists(f)
    BY <2>1, <2>2, <2>4, StepTaken DEF data
  <2>. QED
    BY <1>4, <2>3, <2>4 DEF LoadFolders
<1>5. CASE WriteFolder(a)
  <2>1. AtStep(a, "write") /\ Advance(a)
        /\ content' = IF Program(a)[app[a].pc].on = Elsewhere THEN content
                      ELSE [content EXCEPT ![Program(a)[app[a].pc].on] = app[a].execution + 1]
    BY <1>5 DEF WriteFolder
  <2>2. Program(a)[app[a].pc].op = "write"
    BY <2>1 DEF AtStep
  <2>. QED
    BY <2>1, <2>2, StepTaken
<1>6. CASE NeedSubject(a)
  <2>1. AtStep(a, "need") /\ UNCHANGED data
    BY <1>6 DEF NeedSubject
  <2>2. Program(a)[app[a].pc].op = "need"
    BY <2>1 DEF AtStep
  <2>3. CASE Fail(a)
    BY <1>2, <2>1, <2>3
  <2>4. CASE Advance(a)
    BY <2>1, <2>2, <2>4, StepTaken DEF data
  <2>. QED
    BY <1>6, <2>3, <2>4 DEF NeedSubject
<1>7. CASE RegisterSubject(a)
  <2>1. AtStep(a, "register") /\ Advance(a) /\ UNCHANGED content
    BY <1>7 DEF RegisterSubject
  <2>2. Program(a)[app[a].pc].op = "register"
    BY <2>1 DEF AtStep
  <2>. QED
    BY <2>1, <2>2, StepTaken
<1>8. CASE InsertLine(a)
  <2>1. AtStep(a, "insert") /\ Advance(a) /\ UNCHANGED content
    BY <1>8 DEF InsertLine
  <2>2. Program(a)[app[a].pc].op = "insert"
    BY <2>1 DEF AtStep
  <2>. QED
    BY <2>1, <2>2, StepTaken
<1>9. CASE ContainerDies(a)
  <2>1. app[a].status = "running" /\ Crash(a) /\ UNCHANGED data
    BY <1>9 DEF ContainerDies, JobDies
  <2>2. CASE Fail(a)
    BY <1>2, <2>1, <2>2
  <2>3. CASE \/ a \in Inserters /\ app[a].restarts < BackoffLimit
                /\ app' = [app EXCEPT ![a].pc = 1, ![a].restarts = @ + 1]
             \/ a = "flink_merge_streams" /\ app' = [app EXCEPT ![a].pc = 1]
    <3>1. a \notin BatchApps
      BY <2>3 DEF BatchApps, Inserters
    <3>. QED
      BY <1>1, <2>1, <2>3, <3>1, RestartEffect DEF Anew, data
  <2>. QED
    BY <2>1, <2>2, <2>3 DEF Crash
<1>. QED
  BY <1>3, <1>4, <1>5, <1>6, <1>7, <1>8, <1>9 DEF AppMoves, RunJob, JobStep
-----------------------------------------------------------------------------
(* What an execution has written stays as it has written it: nobody else   *)
(* writes there.  With the folder names of the manifests nobody at all     *)
(* writes what merge2delta reads.                                          *)
Written ==
  /\ \A a \in Apps : \A i \in 1..Len(Program(a)) :
       i < app[a].pc /\ Program(a)[i].op = "write" /\ Program(a)[i].on \in Folders =>
         content[Program(a)[i].on] = app[a].execution + 1
  /\ Deployed => \A k \in {"reviews", "metadata"} : content[<<DeltaRead, k>>] \in {0, 1}

LEMMA DeltaReadWriters ==
  ASSUME NEW a \in Apps, NEW i \in 1..Len(Program(a)), NEW k \in {"reviews", "metadata"},
         Program(a)[i].op = "write", Program(a)[i].on = <<DeltaRead, k>>
  PROVE  a = "raw2delta_avro" /\ ~Deployed
<1>1. DeltaRead # Merge /\ DeltaRead # RefinedWritten /\ (DeltaRead = DeltaWritten => ~Deployed)
  BY DEF DeltaRead, DeltaWritten, Merge, RefinedWritten
<1>2. \A x, y, m, n : <<x, m>> = <<y, n>> => x = y
  OBVIOUS
<1>3. PICK f : f = Program(a)[i].on
  OBVIOUS
<1>4. f \in Folders
  BY <1>3, FolderNames
<1>5. \/ a = "raw2delta_avro" /\ \E m : f = <<DeltaWritten, m>>
      \/ \E m : f = <<Merge, m>>
      \/ \E m : f = <<RefinedWritten, m>>
  BY <1>3, <1>4, FolderWriters
<1>. QED
  BY <1>1, <1>2, <1>3, <1>5

LEMMA MergeWriters ==
  ASSUME NEW a \in Apps, NEW i \in 1..Len(Program(a)), NEW k \in {"reviews", "metadata"},
         Program(a)[i].op = "write", Program(a)[i].on = <<Merge, k>>
  PROVE  a = "merge2delta"
<1>1. Merge # DeltaWritten /\ Merge # RefinedWritten
  BY DEF DeltaWritten, Merge, RefinedWritten
<1>2. \A x, y, m, n : <<x, m>> = <<y, n>> => x = y
  OBVIOUS
<1>3. PICK f : f = Program(a)[i].on
  OBVIOUS
<1>4. f \in Folders
  BY <1>3, FolderNames
<1>5. \/ \E m : f = <<DeltaWritten, m>>
      \/ a = "merge2delta" /\ \E m : f = <<Merge, m>>
      \/ \E m : f = <<RefinedWritten, m>>
  BY <1>3, <1>4, FolderWriters
<1>. QED
  BY <1>1, <1>2, <1>3, <1>5

(* A step changes one folder at most, and that is the one it writes.       *)
LEMMA StepWrites ==
  ASSUME JobsInv, NEW a \in Apps, NEW i \in 1..Len(Program(a)), Step(a, i)
  PROVE  /\ Program(a)[i].op = "write" /\ Program(a)[i].on \in Folders =>
              content'[Program(a)[i].on] = app[a].execution + 1
         /\ \A f \in Folders : content'[f] # content[f] =>
              Program(a)[i].op = "write" /\ Program(a)[i].on = f
<1>1. content \in [Folders -> Nat]
  BY DEF JobsInv, DataTyped
<1>2. PICK f : f = Program(a)[i].on
  OBVIOUS
<1>3. content' = IF Program(a)[i].op = "write" /\ f # Elsewhere
                   THEN [content EXCEPT ![f] = app[a].execution + 1] ELSE content
  BY <1>2 DEF Step
<1>4. Program(a)[i].op = "write" /\ f \in Folders => content'[f] = app[a].execution + 1
  <2> SUFFICES ASSUME Program(a)[i].op = "write", f \in Folders
               PROVE  content'[f] = app[a].execution + 1
    OBVIOUS
  <2>1. f # Elsewhere
    BY FolderNames
  <2>2. content' = [content EXCEPT ![f] = app[a].execution + 1]
    BY <1>3, <2>1
  <2>. QED
    BY <1>1, <2>2
<1>5. \A g \in Folders : content'[g] # content[g] => Program(a)[i].op = "write" /\ f = g
  BY <1>1, <1>3
<1>. QED
  BY <1>2, <1>4, <1>5

LEMMA WrittenStep == JobsInv /\ TasksTyped /\ Versions /\ Written /\ [Next]_vars => Written'
<1> SUFFICES ASSUME JobsInv, TasksTyped, Versions, Written, [Next]_vars PROVE Written'
  OBVIOUS
<1>1. ASSUME UNCHANGED jobs PROVE Written'
  BY <1>1 DEF jobs, data, Written
<1>2. \A b \in Apps : app[b].pc \in Nat
  BY DEF JobsInv, AppsTyped, Executions
<1>3. ASSUME NEW a \in Apps, AppMoves(a) PROVE Written'
  <2>1. \A b \in Apps \ {a} : app'[b] = app[b]
    BY <1>3, MoverIsBusy
  <2>2. CASE Anew(a)
    <3>1. \A i \in 1..Len(Program(a)) : ~(i < app'[a].pc)
      BY <2>2 DEF Anew
    <3>. QED
      BY <2>1, <2>2, <3>1 DEF Anew, Written
  <2>3. ASSUME NEW n \in 1..Len(Program(a)), Step(a, n) PROVE Written'
    <3>1. app'[a].pc = n + 1 /\ app'[a].execution = app[a].execution /\ n = app[a].pc
      BY <2>3 DEF Step
    <3>2. ASSUME NEW b \in Apps, NEW i \in 1..Len(Program(b)),
                 i < app'[b].pc, Program(b)[i].op = "write", Program(b)[i].on \in Folders
          PROVE  content'[Program(b)[i].on] = app'[b].execution + 1
      <4>1. CASE b = a /\ i = n
        BY <2>3, <3>1, <3>2, <4>1, StepWrites
      <4>2. CASE ~(b = a /\ i = n)
        <5>1. content'[Program(b)[i].on] = content[Program(b)[i].on]
          BY <2>3, <3>2, <4>2, OneWriter, StepWrites
        <5>2. i < app[b].pc
          BY <1>2, <2>1, <3>1, <3>2, <4>2
        <5>3. app'[b].execution = app[b].execution
          BY <2>1, <3>1
        <5>. QED
          BY <3>2, <5>1, <5>2, <5>3 DEF Written
      <4>. QED
        BY <4>1, <4>2
    <3>3. ASSUME Deployed, NEW k \in {"reviews", "metadata"}
          PROVE  content'[<<DeltaRead, k>>] \in {0, 1}
      <4>1. content'[<<DeltaRead, k>>] = content[<<DeltaRead, k>>]
        <5>1. <<DeltaRead, k>> \in Folders
          BY FolderNames
        <5>2. ~(Program(a)[n].op = "write" /\ Program(a)[n].on = <<DeltaRead, k>>)
          BY <3>3, DeltaReadWriters
        <5>. QED
          BY <2>3, <5>1, <5>2, StepWrites
      <4>. QED
        BY <3>3, <4>1 DEF Written
    <3>. QED
      BY <3>2, <3>3 DEF Written
  <2>. QED
    BY <1>3, <2>2, <2>3, MoverShapes
<1>4. CASE StartDagRun
  BY <1>1, <1>4 DEF StartDagRun
<1>5. CASE \E r \in 1..started : \E t \in Tasks : TaskMove(r, t)
  BY <1>1, <1>5 DEF TaskMove
<1>6. CASE Aside
  BY <1>1, <1>6 DEF Aside
<1>. QED
  BY <1>3, <1>4, <1>5, <1>6, StepShapes

-----------------------------------------------------------------------------
(* The two jobs that read what another one writes, and what they read.     *)
Readers == {"merge2delta", "generate_data_mart"}
Inputs(b) ==
  {IF b = "merge2delta" THEN <<DeltaRead, k>> ELSE <<Merge, k>> : k \in {"reviews", "metadata"}}
Feeder(b) == IF b = "merge2delta" THEN "raw2delta_avro" ELSE "merge2delta"

LEMMA InputsOf ==
  /\ Inputs("merge2delta") = {<<DeltaRead, "reviews">>, <<DeltaRead, "metadata">>}
  /\ Inputs("generate_data_mart") = {<<Merge, "reviews">>, <<Merge, "metadata">>}
BY DEF Inputs

LEMMA NotRead ==
  \A k \in {"reviews", "metadata"} :
    <<Merge, k>> \notin Inputs("merge2delta") /\ Elsewhere \notin Inputs("generate_data_mart")
<1>1. Merge # DeltaRead /\ Merge # "elsewhere"
  BY DEF Merge, DeltaRead
<1>2. \A x, y, m, n : <<x, m>> = <<y, n>> => x = y
  OBVIOUS
<1>3. \A k \in {"reviews", "metadata"} : <<Merge, k>> \notin Inputs("merge2delta")
  BY <1>1, <1>2, InputsOf
<1>4. Elsewhere \notin Inputs("generate_data_mart")
  BY <1>1, <1>2, InputsOf DEF Elsewhere
<1>. QED
  BY <1>3, <1>4

LEMMA ReaderPrograms ==
  ASSUME NEW b \in Readers, NEW i \in 1..Len(Program(b))
  PROVE  /\ i = 1 => Program(b)[i].op = "load" /\ Program(b)[i].from = Inputs(b)
         /\ i # 1 => /\ Program(b)[i].op = "write" /\ Program(b)[i].from # {}
                     /\ Program(b)[i].from \subseteq Inputs(b)
                     /\ Program(b)[i].on \notin Inputs(b)
         /\ Len(Program(b)) # 1
<1>1. CASE b = "merge2delta"
  <2>1. Program(b) = MergeToDelta /\ Len(Program(b)) = 3
    BY <1>1, Programs, Lengths
  <2>2. i \in {1, 2, 3}
    BY <2>1
  <2>3. CASE i = 1
    BY <1>1, <2>1, <2>3, InputsOf, MergeToDeltaSteps
  <2>4. CASE i \in {2, 3}
    <3>1. /\ Program(b)[i].op = "write" /\ Program(b)[i].from # {}
          /\ Program(b)[i].from \subseteq Inputs(b)
      BY <1>1, <2>1, <2>4, InputsOf, MergeToDeltaSteps
    <3>2. Program(b)[i].on \notin Inputs(b)
      BY <1>1, <2>1, <2>4, NotRead, MergeToDeltaSteps
    <3>. QED
      BY <2>1, <2>4, <3>1, <3>2
  <2>. QED
    BY <2>2, <2>3, <2>4
<1>2. CASE b = "generate_data_mart"
  <2>1. Program(b) = DataMarts /\ Len(Program(b)) = 6
    BY <1>2, Programs, Lengths
  <2>2. i \in {1, 2, 3, 4, 5, 6}
    BY <2>1
  <2>3. CASE i = 1
    BY <1>2, <2>1, <2>3, InputsOf, DataMartsSteps
  <2>4. CASE i \in {2, 3, 4, 5, 6}
    <3>1. /\ Program(b)[i].op = "write" /\ Program(b)[i].from # {}
          /\ Program(b)[i].from \subseteq Inputs(b)
      BY <1>2, <2>1, <2>4, InputsOf, DataMartsSteps
    <3>2. Program(b)[i].on \notin Inputs(b)
      BY <1>2, <2>1, <2>4, NotRead, DataMartsSteps
    <3>. QED
      BY <2>1, <2>4, <3>1, <3>2
  <2>. QED
    BY <2>2, <2>3, <2>4
<1>. QED
  BY <1>1, <1>2 DEF Readers

(* While a reader runs, the job that feeds it has completed ...            *)
LEMMA FeederCompleted ==
  ASSUME TasksTyped, UpstreamDone, Alone, ~raced, NEW b \in Readers, app[b].status = "running"
  PROVE  app[Feeder(b)].status = "completed"
<1>1. dag = "batch" /\ started \in DagRuns /\ task[started][Submit(b)] # "none"
  BY DEF Alone, Busy, Readers, BatchApps
<1>2. /\ \A a \in {"merge2delta", "adding_uuidv7", "generate_data_mart"} : a \in DagApps
      /\ {"raw2delta_avro", "merge2delta", "adding_uuidv7"} \subseteq WaitedFor \cap BatchApps
  BY <1>1 DEF WaitedFor, DagApps, BatchApps, Tasks, BatchTasks
<1>3. /\ \A a \in {"merge2delta", "adding_uuidv7", "generate_data_mart"} : Submit(a) \in Tasks
      /\ \A a \in {"raw2delta_avro", "merge2delta", "adding_uuidv7"} : Wait(a) \in Tasks
  BY <1>2, TasksOf
<1>4. CASE b = "merge2delta"
  <2>1. task[started][Wait("raw2delta_avro")] = "success"
    BY <1>1, <1>3, <1>4, UpstreamTable DEF UpstreamDone
  <2>. QED
    BY <1>1, <1>2, <1>4, <2>1 DEF Alone, Feeder
<1>5. CASE b = "generate_data_mart"
  <2>1. task[started][Wait("adding_uuidv7")] = "success"
    BY <1>1, <1>3, <1>5, UpstreamTable DEF UpstreamDone
  <2>2. task[started][Submit("adding_uuidv7")] = "success"
    BY <1>1, <1>3, <2>1, UpstreamTable DEF UpstreamDone
  <2>3. task[started][Wait("merge2delta")] = "success"
    BY <1>1, <1>3, <2>2, UpstreamTable DEF UpstreamDone
  <2>. QED
    BY <1>1, <1>2, <1>5, <2>3 DEF Alone, Feeder
<1>. QED
  BY <1>4, <1>5 DEF Readers

(* ... so nothing that runs writes what it reads ...                       *)
LEMMA InputsStill ==
  ASSUME TasksTyped, UpstreamDone, Alone, ~raced, NEW b \in Readers, app[b].status = "running",
         NEW a \in Apps, app[a].status = "running", NEW i \in 1..Len(Program(a)),
         Program(a)[i].op = "write"
  PROVE  Program(a)[i].on \notin Inputs(b)
<1>1. a # Feeder(b)
  BY FeederCompleted
<1>. QED
  BY <1>1, DeltaReadWriters, MergeWriters DEF Inputs, Feeder

(* ... and once it has found its folders, they hold the same version.      *)
LEMMA InputsAgree ==
  ASSUME JobsInv, TasksTyped, UpstreamDone, Alone, Written, ~raced,
         NEW b \in Readers, app[b].status = "running", app[b].pc > 1
  PROVE  \E v : \A f \in Inputs(b) : content[f] = v
<1>1. b \in Apps /\ Feeder(b) \in Apps
  BY DEF Readers, Feeder, Apps, BatchApps
<1>2. app[Feeder(b)].pc = Len(Program(Feeder(b))) + 1
  BY <1>1, FeederCompleted DEF JobsInv
<1>3. /\ 2 \in 1..Len(Program(Feeder(b))) /\ 3 \in 1..Len(Program(Feeder(b)))
      /\ 2 < app[Feeder(b)].pc /\ 3 < app[Feeder(b)].pc
  BY <1>2, Places, Lengths DEF Feeder
<1>4. \A i \in {2, 3} :
        Program(Feeder(b))[i].op = "write" /\ Program(Feeder(b))[i].on \in Folders =>
          content[Program(Feeder(b))[i].on] = app[Feeder(b)].execution + 1
  BY <1>1, <1>3 DEF Written
<1>5. CASE b = "merge2delta" /\ ~Deployed
  <2>1. DeltaRead = DeltaWritten
    BY <1>5 DEF DeltaRead, DeltaWritten
  <2>2. Program(Feeder(b)) = RawToDelta
    BY <1>5, Programs DEF Feeder
  <2>3. /\ content[<<DeltaRead, "reviews">>] = app[Feeder(b)].execution + 1
        /\ content[<<DeltaRead, "metadata">>] = app[Feeder(b)].execution + 1
    BY <1>4, <2>1, <2>2, RawToDeltaSteps, FolderNames
  <2>. QED
    BY <1>5, <2>3 DEF Inputs
<1>6. CASE b = "merge2delta" /\ Deployed
  <2>1. 1 \in 1..Len(Program(b))
    BY <1>1, ProgramLength
  <2>2. LeftBehind(b, 1)
    BY <1>1, <2>1 DEF JobsInv, PastSteps
  <2>3. \A f \in Inputs(b) : content[f] # 0
    BY <2>1, <2>2, ReaderPrograms DEF LeftBehind, Exists
  <2>4. \A f \in Inputs(b) : content[f] \in {0, 1}
    BY <1>6 DEF Inputs, Written
  <2>5. \A f \in Inputs(b) : content[f] = 1
    BY <2>3, <2>4
  <2>. QED
    BY <2>5
<1>7. CASE b # "merge2delta"
  <2>1. Program(Feeder(b)) = MergeToDelta
    BY <1>7, Programs DEF Feeder
  <2>2. /\ content[<<Merge, "reviews">>] = app[Feeder(b)].execution + 1
        /\ content[<<Merge, "metadata">>] = app[Feeder(b)].execution + 1
    BY <1>4, <2>1, MergeToDeltaSteps, FolderNames
  <2>. QED
    BY <1>7, <2>2 DEF Inputs
<1>. QED
  BY <1>5, <1>6, <1>7

(* A running reader has seen versions its inputs still have, one at least  *)
(* once it has written; a completed one has seen one.                      *)
ReadsOne ==
  ~raced => \A b \in Readers :
    /\ app[b].status = "running" =>
         /\ app[b].seen \subseteq {content[f] : f \in Inputs(b)}
         /\ app[b].pc > 2 => app[b].seen # {}
    /\ app[b].status = "completed" => \E v : app[b].seen = {v}

(* A reader takes a step of its own.                                       *)
LEMMA ReaderSteps ==
  ASSUME JobsInv, TasksTyped, Versions, UpstreamDone, Alone, Written, ReadsOne, ~raced,
         NEW b \in Readers, NEW i \in 1..Len(Program(b)), Step(b, i)
  PROVE  /\ app'[b].status = "running" =>
              /\ app'[b].seen \subseteq {content'[f] : f \in Inputs(b)}
              /\ app'[b].pc > 2 => app'[b].seen # {}
         /\ app'[b].status = "completed" => \E v : app'[b].seen = {v}
<1>1. /\ i = app[b].pc /\ app[b].status = "running" /\ app'[b].pc = i + 1
      /\ app'[b].status = "completed" => i = Len(Program(b))
      /\ app[b].seen \subseteq {content[f] : f \in Inputs(b)}
  BY DEF Step, ReadsOne
<1>2. b \in Apps
  BY DEF Readers, Apps, BatchApps
<1>3. CASE i = 1
  <2>1. Program(b)[i].op = "load" /\ Len(Program(b)) # 1
    BY <1>3, ReaderPrograms
  <2>2. app'[b].seen = app[b].seen /\ content' = content
    BY <2>1 DEF Step
  <2>3. ~(app'[b].pc > 2)
    BY <1>1, <1>3
  <2>. QED
    BY <1>1, <1>3, <2>1, <2>2, <2>3
<1>4. CASE i # 1
  <2>1. /\ Program(b)[i].op = "write" /\ Program(b)[i].from # {}
        /\ Program(b)[i].from \subseteq Inputs(b)
        /\ Program(b)[i].on \notin Inputs(b)
    BY <1>4, ReaderPrograms
  <2>2. Inputs(b) \subseteq Folders
    BY FolderNames DEF Inputs
  <2>3. \A f \in Inputs(b) : content'[f] = content[f]
    BY <1>2, <2>1, <2>2, StepWrites
  <2>4. app[b].pc > 1
    BY <1>1, <1>4
  <2>5. PICK v : \A f \in Inputs(b) : content[f] = v
    BY <1>1, <2>4, InputsAgree
  <2>6. app'[b].seen = app[b].seen \cup {content[f] : f \in Program(b)[i].from}
    BY <2>1 DEF Step
  <2>7. app'[b].seen = {v}
    BY <1>1, <2>1, <2>5, <2>6
  <2>8. v \in {content'[f] : f \in Inputs(b)}
    BY <2>1, <2>3, <2>5
  <2>. QED
    BY <2>7, <2>8
<1>. QED
  BY <1>3, <1>4

LEMMA ReadsOneStep ==
  JobsInv /\ TasksTyped /\ Versions /\ UpstreamDone /\ Alone /\ Written /\ ReadsOne
    /\ [Next]_vars => ReadsOne'
<1> SUFFICES ASSUME JobsInv, TasksTyped, Versions, UpstreamDone, Alone, Written, ReadsOne,
                    [Next]_vars, ~raced', NEW b \in Readers
             PROVE  /\ app'[b].status = "running" =>
                         /\ app'[b].seen \subseteq {content'[f] : f \in Inputs(b)}
                         /\ app'[b].pc > 2 => app'[b].seen # {}
                    /\ app'[b].status = "completed" => \E v : app'[b].seen = {v}
  BY DEF ReadsOne
<1>1. ASSUME app'[b] = app[b], ~raced,
             app[b].status = "running" => \A f \in Inputs(b) : content'[f] = content[f]
      PROVE  /\ app'[b].status = "running" =>
                  /\ app'[b].seen \subseteq {content'[f] : f \in Inputs(b)}
                  /\ app'[b].pc > 2 => app'[b].seen # {}
             /\ app'[b].status = "completed" => \E v : app'[b].seen = {v}
  <2>1. {content'[f] : f \in Inputs(b)} = {content[f] : f \in Inputs(b)}
        \/ app[b].status # "running"
    BY <1>1
  <2>. QED
    BY <1>1, <2>1 DEF ReadsOne
<1>2. b \in Apps /\ b \in BatchApps /\ Inputs(b) \subseteq Folders
  BY FolderNames DEF Readers, Apps, BatchApps, Inputs
<1>3. CASE StartDagRun
  BY <1>1, <1>3 DEF StartDagRun, jobs, data
<1>4. CASE \E r \in 1..started : \E t \in Tasks : TaskMove(r, t)
  BY <1>1, <1>4 DEF TaskMove, jobs, data
<1>5. CASE Aside
  BY <1>1, <1>5 DEF Aside, jobs, data
<1>6. ASSUME NEW a \in Apps, AppMoves(a)
      PROVE  /\ app'[b].status = "running" =>
                  /\ app'[b].seen \subseteq {content'[f] : f \in Inputs(b)}
                  /\ app'[b].pc > 2 => app'[b].seen # {}
             /\ app'[b].status = "completed" => \E v : app'[b].seen = {v}
  <2>1. ~raced /\ \A c \in Apps \ {a} : app'[c] = app[c]
    BY <1>6, MoverIsBusy DEF AppMoves
  <2>2. CASE Anew(a) /\ a = b
    BY <1>2, <2>2 DEF Anew
  <2>3. CASE Anew(a) /\ a # b
    BY <1>1, <1>2, <2>1, <2>3 DEF Anew
  <2>4. ASSUME NEW i \in 1..Len(Program(a)), Step(a, i), a # b
        PROVE  \A f \in Inputs(b) : app[b].status = "running" => content'[f] = content[f]
    <3>1. app[a].status = "running"
      BY <2>4 DEF Step
    <3>. QED
      BY <1>2, <2>1, <2>4, <3>1, InputsStill, StepWrites
  <2>5. CASE a # b /\ \E i \in 1..Len(Program(a)) : Step(a, i)
    BY <1>1, <1>2, <2>1, <2>4, <2>5
  <2>6. CASE a = b /\ \E i \in 1..Len(Program(a)) : Step(a, i)
    BY <2>1, <2>6, ReaderSteps
  <2>. QED
    BY <1>6, <2>2, <2>3, <2>5, <2>6, MoverShapes
<1>. QED
  BY <1>3, <1>4, <1>5, <1>6, StepShapes

LEMMA OneReadAlways == Spec => [](UpstreamDone /\ Alone /\ Written /\ ReadsOne)
<1>1. Init => UpstreamDone /\ Alone /\ Written /\ ReadsOne
  <2> SUFFICES ASSUME Init PROVE UpstreamDone /\ Alone /\ Written /\ ReadsOne
    OBVIOUS
  <2>1. TasksTyped
    BY InitialState
  <2>2. \A r \in DagRuns : \A t \in Tasks : task[r][t] = "none"
    BY DEF Init
  <2>3. UpstreamDone
    BY <2>2 DEF UpstreamDone
  <2>4. \A a \in Apps : app[a] = NotRun /\ ~Stale(a)
    BY DEF Init, JobsInit, Stale
  <2>5. \A a \in Apps : app[a].status = "new" /\ app[a].pc = 1
    BY <2>4 DEF NotRun
  <2>6. BatchApps \subseteq Apps /\ Readers \subseteq Apps
    BY DEF Apps, Readers, BatchApps
  <2>7. Alone
    <3>1. \A r \in DagRuns : ~(r < started)
      BY DEF Init, DagRuns
    <3>2. \A a \in BatchApps : ~Busy(a)
      BY <2>4, <2>5, <2>6 DEF Busy
    <3>3. \A a \in WaitedFor : \A r \in DagRuns : task[r][Wait(a)] = "none"
      BY <2>1, <2>2, TasksOf
    <3>. QED
      BY <3>1, <3>2, <3>3 DEF Alone
  <2>8. Written
    <3>1. \A f \in Folders : content[f] \in {0, 1}
      BY DEF Init, JobsInit
    <3>2. \A a \in Apps : \A i \in 1..Len(Program(a)) : ~(i < app[a].pc)
      BY <2>5
    <3>. QED
      BY <3>1, <3>2, FolderNames DEF Written
  <2>9. ReadsOne
    BY <2>5, <2>6 DEF ReadsOne
  <2>. QED
    BY <2>3, <2>7, <2>8, <2>9
<1>. QED
  BY <1>1, UpstreamStep, AloneStep, WrittenStep, ReadsOneStep, AlwaysTyped, PTL DEF Spec

(* A completed job has read one version of its input folders, unless the   *)
(* DAG has raced with itself: for any number of runs, retries, edits,      *)
(* timeouts and deaths, and with either set of folder names.               *)
THEOREM ReadersSeeOneVersion == Spec => []OneVersionRead
<1>1. ReadsOne => OneVersionRead
  <2>1. \A v, S : S = {v} => Cardinality(S) = 1
    BY FS_Singleton
  <2>. QED
    BY <2>1 DEF ReadsOne, OneVersionRead, Readers
<1>. QED
  BY <1>1, OneReadAlways, PTL
=============================================================================
