----------------------------- MODULE Warehouse -----------------------------
(***************************************************************************)
(* The silver schema in Postgres: generate_silver_schema.py drops and      *)
(* creates four tables (create_silver_schema_tables.py) and fills them by  *)
(* four queries over the refined folder, while the writers of Lakehouse    *)
(* keep appending to it.  Every statement and every append is a            *)
(* transaction or several of its own, every query reads the latest version *)
(* of the folder, and the foreign keys of fact_reviews are enforced.       *)
(***************************************************************************)
EXTENDS Lakehouse

CONSTANTS Products,      \* the values of product_id
          ProductOf,     \* the product of each merged record
          Ordered,       \* the job is submitted by the DAG, after adding_uuidv7
          MaxJobs        \* bound: submissions of the job

Tables == {"fact_reviews", "dim_products", "dim_time", "dim_reviews"}
(* Mutant of Dropped: the dimensions are dropped before the facts.         *)
DroppedDimensionsFirst == <<"dim_products", "dim_time", "dim_reviews", "fact_reviews">>

(* The order in which create_tables drops and creates and main fills them. *)
Dropped == <<"fact_reviews", "dim_products", "dim_time", "dim_reviews">>
Created == <<"dim_time", "dim_reviews", "dim_products", "fact_reviews">>
Filled == <<"dim_time", "dim_reviews", "dim_products", "fact_reviews">>

ASSUME WarehouseAssumption ==
  /\ ProductOf \in [Merged \cup Historical -> Products]
  /\ Ordered \in BOOLEAN
  /\ MaxJobs \in Nat

VARIABLES
  step,     \* <<"drop" | "create" | "fill", i>> of the running job, or its outcome
  exists,   \* the tables that exist
  rows,     \* rows[t]: the keys of the rows of table t
  jobs      \* how often the job was submitted

warehouse == <<step, exists, rows, jobs>>
lakehouse == <<topic, checkpoint, query, folders, runs>>
allvars == <<vars, warehouse>>

Phases == {"drop", "create", "fill"}
Outcomes == {"none", "completed", "failed"}
Running == step \notin {<<o, 0>> : o \in Outcomes}

(* Mutant of Selected: the query for dim_products has no GROUP BY.         *)
SelectedWithoutGrouping(t) == refined

(* What the query for a table selects from the refined folder: a row of    *)
(* the folder stands for its review_id and for its time_id.                *)
Selected(t) ==
  IF t = "dim_products" THEN {ProductOf[row.record] : row \in refined} ELSE refined

(* The queries name time_id, which only the streaming job writes.          *)
Readable(t) == columns # NoTable /\ (t \in {"dim_time", "fact_reviews"} => "time_id" \in columns)

(* Mutant of Permitted: fact_reviews has no foreign keys.                  *)
PermittedWithoutForeignKeys(t, added) == added \cap rows[t] = {}

(* Primary keys, and the foreign keys of fact_reviews. *)
Permitted(t, added) ==
  /\ added \cap rows[t] = {}
  /\ t = "fact_reviews" =>
       \A row \in added : /\ row \in rows["dim_reviews"]
                          /\ row \in rows["dim_time"]
                          /\ ProductOf[row.record] \in rows["dim_products"]

-----------------------------------------------------------------------------
WarehouseInit ==
  /\ Init
  /\ step = <<"none", 0>>
  /\ exists = {}
  /\ rows = [t \in Tables |-> {}]
  /\ jobs = 0

(* Some run of adding_uuidv7 completed: what wait_for_adding_uuidv7 sees.  *)
UuidsAdded == Historical \subseteq Stored(refined)

SubmitJob ==
  /\ ~Running
  /\ jobs < MaxJobs
  /\ Ordered => UuidsAdded
  /\ jobs' = jobs + 1
  /\ step' = <<"drop", 1>>
  /\ UNCHANGED <<lakehouse, faults, exists, rows>>

(* DROP TABLE IF EXISTS ... CASCADE *)
DropTable ==
  /\ \E i \in DOMAIN Dropped :
       /\ step = <<"drop", i>>
       /\ step' = IF i < Len(Dropped) THEN <<"drop", i + 1>> ELSE <<"create", 1>>
       /\ exists' = exists \ {Dropped[i]}
       /\ rows' = [rows EXCEPT ![Dropped[i]] = {}]
  /\ UNCHANGED <<lakehouse, faults, jobs>>

(* CREATE TABLE IF NOT EXISTS *)
CreateTable ==
  /\ \E i \in DOMAIN Created :
       /\ step = <<"create", i>>
       /\ step' = IF i < Len(Created) THEN <<"create", i + 1>> ELSE <<"fill", 1>>
       /\ exists' = exists \cup {Created[i]}
  /\ UNCHANGED <<lakehouse, faults, rows, jobs>>

(* A query and its append succeed. *)
FillTable ==
  /\ \E i \in DOMAIN Filled :
       /\ step = <<"fill", i>>
       /\ Readable(Filled[i])
       /\ Permitted(Filled[i], Selected(Filled[i]))
       /\ rows' = [rows EXCEPT ![Filled[i]] = @ \cup Selected(Filled[i])]
       /\ step' = IF i < Len(Filled) THEN <<"fill", i + 1>> ELSE <<"completed", 0>>
  /\ UNCHANGED <<lakehouse, faults, exists, jobs>>

(* An append is refused: the query names an unknown column, or a row       *)
(* violates a key.  The partitions of the append commit on their own, so   *)
(* any permitted part of the rows may be left.                             *)
FillTableFails ==
  /\ \E i \in DOMAIN Filled :
       /\ step = <<"fill", i>>
       /\ \/ /\ ~Readable(Filled[i])
             /\ UNCHANGED rows
          \/ /\ Readable(Filled[i])
             /\ ~Permitted(Filled[i], Selected(Filled[i]))
             /\ \E part \in SUBSET Selected(Filled[i]) :
                  /\ Permitted(Filled[i], part)
                  /\ rows' = [rows EXCEPT ![Filled[i]] = @ \cup part]
       /\ step' = <<"failed", 0>>
  /\ UNCHANGED <<lakehouse, faults, exists, jobs>>

(* The driver dies, and with it what an append had not committed yet.      *)
JobFails ==
  /\ Running
  /\ Fault("driver")
  /\ step' = <<"failed", 0>>
  /\ \/ UNCHANGED rows
     \/ \E i \in DOMAIN Filled :
          /\ step = <<"fill", i>>
          /\ Readable(Filled[i])
          /\ \E part \in SUBSET Selected(Filled[i]) :
               /\ Permitted(Filled[i], part)
               /\ rows' = [rows EXCEPT ![Filled[i]] = @ \cup part]
  /\ UNCHANGED <<lakehouse, exists, jobs>>

Job == DropTable \/ CreateTable \/ FillTable \/ FillTableFails

WarehouseNext ==
  \/ Next /\ UNCHANGED warehouse
  \/ SubmitJob
  \/ Job
  \/ JobFails

WarehouseSpec == WarehouseInit /\ [][WarehouseNext]_allvars

-----------------------------------------------------------------------------
Completed == step = <<"completed", 0>>

(* Every variable of the job has its type.                                 *)
WarehouseTypeOK ==
  /\ step \in ({"drop", "create", "fill"} \X (1..4)) \cup {<<o, 0>> : o \in Outcomes}
  /\ exists \subseteq Tables
  /\ \A t \in Tables : rows[t] \subseteq IF t = "dim_products" THEN Products ELSE Rows
  /\ \A t \in Tables \ exists : rows[t] = {}
  /\ jobs \in 0..MaxJobs

(* A fact never refers to a missing row, in the middle of a rebuild, of a  *)
(* refused append or after a failure (create_silver_schema_tables.py:14-86, *)
(* generate_silver_schema.py:68-146).                                      *)
FactsHaveDimensions ==
  \A row \in rows["fact_reviews"] :
    /\ row \in rows["dim_reviews"] \cap rows["dim_time"]
    /\ ProductOf[row.record] \in rows["dim_products"]

(* What a completed job leaves is one version of the refined folder,       *)
(* although each of its four queries read a version of its own.            *)
CompletedIsSnapshot ==
  Completed =>
    LET facts == rows["fact_reviews"] IN
    /\ rows["dim_reviews"] = facts
    /\ rows["dim_time"] = facts
    /\ rows["dim_products"] = {ProductOf[row.record] : row \in facts}

(* README.md:10: the job "Merges clean batch and stream data" and stores   *)
(* the result in PostgreSQL: run after adding_uuidv7, as the DAG does, and *)
(* undisturbed, it does not fail.                                          *)
SilverJobSucceeds == step # <<"failed", 0>>
=============================================================================
