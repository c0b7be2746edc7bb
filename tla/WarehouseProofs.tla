-------------------------- MODULE WarehouseProofs --------------------------
(***************************************************************************)
(* Theorems about the silver job in Postgres, for every set of records and *)
(* products, any number of jobs and failures, and a refined folder that    *)
(* grows at any moment.                                                    *)
(***************************************************************************)
EXTENDS Warehouse, LakehouseProofs

Create == {<<"create", 1>>, <<"create", 2>>, <<"create", 3>>, <<"create", 4>>}
Fill == {<<"fill", 1>>, <<"fill", 2>>, <<"fill", 3>>, <<"fill", 4>>}

(* The tables a running job has emptied and not filled again yet.          *)
TablesEmpty ==
  /\ step \in {<<"drop", 2>>, <<"drop", 3>>, <<"drop", 4>>} \cup Create \cup Fill
       => rows["fact_reviews"] = {}
  /\ step \in {<<"drop", 3>>, <<"drop", 4>>} \cup Create \cup (Fill \ {<<"fill", 4>>})
       => rows["dim_products"] = {}
  /\ step \in {<<"drop", 4>>} \cup Create \cup {<<"fill", 1>>} => rows["dim_time"] = {}
  /\ step \in Create \cup {<<"fill", 1>>, <<"fill", 2>>} => rows["dim_reviews"] = {}

(* The tables it has created. *)
TablesCreated ==
  /\ step \in (Create \ {<<"create", 1>>}) \cup Fill => "dim_time" \in exists
  /\ step \in {<<"create", 3>>, <<"create", 4>>} \cup Fill => "dim_reviews" \in exists
  /\ step \in {<<"create", 4>>} \cup Fill => "dim_products" \in exists
  /\ step \in Fill => "fact_reviews" \in exists

(* The tables it has filled hold what an earlier version of the refined    *)
(* folder gave them.                                                       *)
TablesFilled ==
  /\ step \in Fill \ {<<"fill", 1>>} => rows["dim_time"] \subseteq refined
  /\ step \in {<<"fill", 3>>, <<"fill", 4>>} => rows["dim_reviews"] \subseteq refined
  /\ step = <<"fill", 4>>
       => rows["dim_products"] \subseteq {ProductOf[row.record] : row \in refined}

JobProgress ==
  /\ rows \in [Tables -> SUBSET (Products \cup Rows)]
  /\ TablesEmpty
  /\ TablesCreated
  /\ TablesFilled

WarehouseInv ==
  /\ TypeOK
  /\ WarehouseTypeOK
  /\ JobProgress
  /\ FactsHaveDimensions
  /\ CompletedIsSnapshot

-----------------------------------------------------------------------------
(* The three orders, table by table. *)
LEMMA Orders ==
  /\ DOMAIN Dropped = 1..4 /\ Len(Dropped) = 4
  /\ Dropped[1] = "fact_reviews" /\ Dropped[2] = "dim_products"
  /\ Dropped[3] = "dim_time" /\ Dropped[4] = "dim_reviews"
  /\ DOMAIN Created = 1..4 /\ Len(Created) = 4
  /\ Created[1] = "dim_time" /\ Created[2] = "dim_reviews"
  /\ Created[3] = "dim_products" /\ Created[4] = "fact_reviews"
  /\ DOMAIN Filled = 1..4 /\ Len(Filled) = 4
  /\ Filled[1] = "dim_time" /\ Filled[2] = "dim_reviews"
  /\ Filled[3] = "dim_products" /\ Filled[4] = "fact_reviews"
BY DEF Dropped, Created, Filled

LEMMA FourCases == \A i \in 1..4 : i = 1 \/ i = 2 \/ i = 3 \/ i = 4
OBVIOUS

(* A drop, one table at a time. *)
LEMMA DropSteps ==
  ASSUME DropTable
  PROVE  \/ /\ step = <<"drop", 1>> /\ step' = <<"drop", 2>>
            /\ exists' = exists \ {"fact_reviews"} /\ rows' = [rows EXCEPT !["fact_reviews"] = {}]
         \/ /\ step = <<"drop", 2>> /\ step' = <<"drop", 3>>
            /\ exists' = exists \ {"dim_products"} /\ rows' = [rows EXCEPT !["dim_products"] = {}]
         \/ /\ step = <<"drop", 3>> /\ step' = <<"drop", 4>>
            /\ exists' = exists \ {"dim_time"} /\ rows' = [rows EXCEPT !["dim_time"] = {}]
         \/ /\ step = <<"drop", 4>> /\ step' = <<"create", 1>>
            /\ exists' = exists \ {"dim_reviews"} /\ rows' = [rows EXCEPT !["dim_reviews"] = {}]
<1>1. PICK i \in DOMAIN Dropped :
        /\ step = <<"drop", i>>
        /\ step' = IF i < Len(Dropped) THEN <<"drop", i + 1>> ELSE <<"create", 1>>
        /\ exists' = exists \ {Dropped[i]}
        /\ rows' = [rows EXCEPT ![Dropped[i]] = {}]
  BY DEF DropTable
<1>2. i \in 1..4 /\ step' = IF i < 4 THEN <<"drop", i + 1>> ELSE <<"create", 1>>
  BY <1>1, Orders
<1>3. CASE i = 1
  BY <1>1, <1>2, <1>3, Orders
<1>4. CASE i = 2
  BY <1>1, <1>2, <1>4, Orders
<1>5. CASE i = 3
  BY <1>1, <1>2, <1>5, Orders
<1>6. CASE i = 4
  BY <1>1, <1>2, <1>6, Orders
<1>. QED
  BY <1>2, <1>3, <1>4, <1>5, <1>6

LEMMA CreateSteps ==
  ASSUME CreateTable
  PROVE  /\ rows' = rows
         /\ \/ /\ step = <<"create", 1>> /\ step' = <<"create", 2>>
               /\ exists' = exists \cup {"dim_time"}
            \/ /\ step = <<"create", 2>> /\ step' = <<"create", 3>>
               /\ exists' = exists \cup {"dim_reviews"}
            \/ /\ step = <<"create", 3>> /\ step' = <<"create", 4>>
               /\ exists' = exists \cup {"dim_products"}
            \/ /\ step = <<"create", 4>> /\ step' = <<"fill", 1>>
               /\ exists' = exists \cup {"fact_reviews"}
<1>1. PICK i \in 1..4 : /\ step = <<"create", i>>
                        /\ step' = IF i < 4 THEN <<"create", i + 1>> ELSE <<"fill", 1>>
                        /\ exists' = exists \cup {Created[i]}
  BY Orders DEF CreateTable
<1>2. rows' = rows
  BY DEF CreateTable
<1>. QED
  BY <1>1, <1>2, FourCases, Orders

LEMMA FillSteps ==
  ASSUME FillTable
  PROVE  \E t \in Tables :
           /\ Permitted(t, Selected(t))
           /\ rows' = [rows EXCEPT ![t] = @ \cup Selected(t)]
           /\ \/ t = "dim_time" /\ step = <<"fill", 1>> /\ step' = <<"fill", 2>>
              \/ t = "dim_reviews" /\ step = <<"fill", 2>> /\ step' = <<"fill", 3>>
              \/ t = "dim_products" /\ step = <<"fill", 3>> /\ step' = <<"fill", 4>>
              \/ t = "fact_reviews" /\ step = <<"fill", 4>> /\ step' = <<"completed", 0>>
<1>1. PICK i \in 1..4 : /\ step = <<"fill", i>>
                        /\ Permitted(Filled[i], Selected(Filled[i]))
                        /\ rows' = [rows EXCEPT ![Filled[i]] = @ \cup Selected(Filled[i])]
                        /\ step' = IF i < 4 THEN <<"fill", i + 1>> ELSE <<"completed", 0>>
  BY Orders DEF FillTable
<1>2. Filled[i] \in Tables
  BY FourCases, Orders DEF Tables
<1>3. \/ Filled[i] = "dim_time" /\ step = <<"fill", 1>> /\ step' = <<"fill", 2>>
      \/ Filled[i] = "dim_reviews" /\ step = <<"fill", 2>> /\ step' = <<"fill", 3>>
      \/ Filled[i] = "dim_products" /\ step = <<"fill", 3>> /\ step' = <<"fill", 4>>
      \/ Filled[i] = "fact_reviews" /\ step = <<"fill", 4>> /\ step' = <<"completed", 0>>
  BY <1>1, FourCases, Orders
<1>. QED
  BY <1>1, <1>2, <1>3

(* A failure leaves the tables, or adds a permitted part of a query to one *)
(* of them.                                                                *)
LEMMA FailSteps ==
  ASSUME FillTableFails \/ JobFails
  PROVE  /\ step' = <<"failed", 0>>
         /\ \/ rows' = rows
            \/ \E t \in Tables : \E part \in SUBSET Selected(t) :
                 /\ Permitted(t, part)
                 /\ rows' = [rows EXCEPT ![t] = @ \cup part]
                 /\ \/ t = "dim_time" /\ step = <<"fill", 1>>
                    \/ t = "dim_reviews" /\ step = <<"fill", 2>>
                    \/ t = "dim_products" /\ step = <<"fill", 3>>
                    \/ t = "fact_reviews" /\ step = <<"fill", 4>>
<1>1. \A i \in 1..4 : step = <<"fill", i>> =>
        /\ Filled[i] \in Tables
        /\ \/ Filled[i] = "dim_time" /\ step = <<"fill", 1>>
           \/ Filled[i] = "dim_reviews" /\ step = <<"fill", 2>>
           \/ Filled[i] = "dim_products" /\ step = <<"fill", 3>>
           \/ Filled[i] = "fact_reviews" /\ step = <<"fill", 4>>
  BY FourCases, Orders DEF Tables
<1>2. step' = <<"failed", 0>>
  BY DEF FillTableFails, JobFails
<1>3. \/ rows' = rows
      \/ \E i \in 1..4 : /\ step = <<"fill", i>>
                         /\ \E part \in SUBSET Selected(Filled[i]) :
                              /\ Permitted(Filled[i], part)
                              /\ rows' = [rows EXCEPT ![Filled[i]] = @ \cup part]
  BY Orders DEF FillTableFails, JobFails
<1>. QED
  BY <1>1, <1>2, <1>3

-----------------------------------------------------------------------------
(* The step relation of the composition, without the actions that only one *)
(* side takes: the writers move and the job stands still, or the other way *)
(* round.                                                                  *)
LEMMA WarehouseCases ==
  ASSUME [WarehouseNext]_allvars
  PROVE  \/ [Next]_vars /\ UNCHANGED <<step, exists, rows, jobs>>
         \/ SubmitJob \/ DropTable \/ CreateTable \/ FillTable \/ FillTableFails \/ JobFails
BY DEF WarehouseNext, Job, allvars, warehouse

LEMMA JobLeavesLakehouse ==
  ASSUME SubmitJob \/ DropTable \/ CreateTable \/ FillTable \/ FillTableFails \/ JobFails
  PROVE  /\ UNCHANGED <<topic, planned, committed, query, streaming, refined, columns, appends, runs>>
         /\ faults' = faults \/ Fault("driver")
BY DEF SubmitJob, DropTable, CreateTable, FillTable, FillTableFails, JobFails, lakehouse,
       checkpoint, folders

(* The job leaves the types of the folders alone.                          *)
LEMMA FoldersTypeStep == TypeOK /\ [WarehouseNext]_allvars => TypeOK'
<1> SUFFICES ASSUME TypeOK, [WarehouseNext]_allvars PROVE TypeOK'
  OBVIOUS
<1>1. CASE [Next]_vars
  BY <1>1, TypeStep
<1>2. CASE SubmitJob \/ DropTable \/ CreateTable \/ FillTable \/ FillTableFails \/ JobFails
  <2>1. faults' \in [FaultKinds -> Nat]
    BY <1>2, JobLeavesLakehouse DEF TypeOK, Fault, FaultKinds
  <2>. QED
    BY <1>2, <2>1, JobLeavesLakehouse DEF TypeOK
<1>. QED
  BY <1>1, <1>2, WarehouseCases

(* A query selects keys of its table.                                      *)
LEMMA SelectedType ==
  ASSUME TypeOK, NEW t \in Tables
  PROVE  Selected(t) \subseteq IF t = "dim_products" THEN Products ELSE Rows
<1>1. refined \subseteq Rows
  BY DEF TypeOK
<1>2. \A row \in Rows : ProductOf[row.record] \in Products
  BY WarehouseAssumption DEF Rows
<1>. QED
  BY <1>1, <1>2 DEF Selected

(* What adding part of a query to its table keeps, whether the whole       *)
(* append succeeds or a failure leaves only a part of it.                  *)
LEMMA Filling ==
  ASSUME WarehouseInv, NEW t \in Tables, NEW part \in SUBSET Selected(t), Permitted(t, part),
         rows' = [rows EXCEPT ![t] = @ \cup part],
         exists' = exists,
         \/ t = "dim_time" /\ step = <<"fill", 1>>
         \/ t = "dim_reviews" /\ step = <<"fill", 2>>
         \/ t = "dim_products" /\ step = <<"fill", 3>>
         \/ t = "fact_reviews" /\ step = <<"fill", 4>>
  PROVE  /\ rows'[t] = part
         /\ \A u \in Tables \ {t} : rows'[u] = rows[u]
         /\ rows' \in [Tables -> SUBSET (Products \cup Rows)]
         /\ \A u \in Tables : rows'[u] \subseteq IF u = "dim_products" THEN Products ELSE Rows
         /\ \A u \in Tables \ exists' : rows'[u] = {}
         /\ FactsHaveDimensions'
<1>1. /\ rows \in [Tables -> SUBSET (Products \cup Rows)]
      /\ \A u \in Tables : rows[u] \subseteq IF u = "dim_products" THEN Products ELSE Rows
      /\ \A u \in Tables \ exists : rows[u] = {}
  BY DEF WarehouseInv, JobProgress, WarehouseTypeOK
<1>2. rows[t] = {} /\ t \in exists
  BY DEF WarehouseInv, JobProgress, TablesEmpty, TablesCreated, Create, Fill
<1>3. part \subseteq IF t = "dim_products" THEN Products ELSE Rows
  BY SelectedType DEF WarehouseInv
<1>4. rows'[t] = part /\ \A u \in Tables \ {t} : rows'[u] = rows[u]
  BY <1>1, <1>2
<1>5. rows' \in [Tables -> SUBSET (Products \cup Rows)]
  BY <1>1, <1>3
<1>6. \A u \in Tables : rows'[u] \subseteq IF u = "dim_products" THEN Products ELSE Rows
  BY <1>1, <1>3, <1>4
<1>7. \A u \in Tables \ exists' : rows'[u] = {}
  BY <1>1, <1>2, <1>4
<1>8. FactsHaveDimensions'
  <2>1. CASE t = "fact_reviews"
    <3>1. /\ rows'["fact_reviews"] = part
          /\ rows'["dim_reviews"] = rows["dim_reviews"]
          /\ rows'["dim_time"] = rows["dim_time"]
          /\ rows'["dim_products"] = rows["dim_products"]
      BY <1>4, <2>1 DEF Tables
    <3>. QED
      BY <2>1, <3>1 DEF Permitted, FactsHaveDimensions
  <2>2. CASE t # "fact_reviews"
    <3>1. rows["fact_reviews"] = {}
      BY <2>2 DEF WarehouseInv, JobProgress, TablesEmpty, Fill
    <3>2. rows'["fact_reviews"] = {}
      BY <1>4, <2>2, <3>1 DEF Tables
    <3>. QED
      BY <3>2 DEF FactsHaveDimensions
  <2>. QED
    BY <2>1, <2>2
<1>. QED
  BY <1>4, <1>5, <1>6, <1>7, <1>8

-----------------------------------------------------------------------------
(* While the writers move, the tables stay and the refined folder grows.   *)
LEMMA WritersStep ==
  ASSUME WarehouseInv, [Next]_vars, UNCHANGED <<step, exists, rows, jobs>>
  PROVE  /\ WarehouseTypeOK' /\ JobProgress'
         /\ FactsHaveDimensions' /\ CompletedIsSnapshot'
<1>1. refined \subseteq refined'
  BY FolderSteps
<1>2. {ProductOf[row.record] : row \in refined} \subseteq {ProductOf[row.record] : row \in refined'}
  BY <1>1
<1>3. JobProgress'
  BY <1>1, <1>2 DEF WarehouseInv, JobProgress, TablesEmpty, TablesCreated, TablesFilled
<1>4. WarehouseTypeOK'
  BY DEF WarehouseInv, WarehouseTypeOK
<1>5. FactsHaveDimensions' /\ CompletedIsSnapshot'
  BY DEF WarehouseInv, FactsHaveDimensions, CompletedIsSnapshot, Completed
<1>. QED
  BY <1>3, <1>4, <1>5

LEMMA SubmitStep ==
  ASSUME WarehouseInv, SubmitJob
  PROVE  /\ WarehouseTypeOK' /\ JobProgress'
         /\ FactsHaveDimensions' /\ CompletedIsSnapshot'
<1>1. step' = <<"drop", 1>> /\ rows' = rows /\ exists' = exists /\ jobs' \in 0..MaxJobs
  BY WarehouseAssumption DEF SubmitJob, WarehouseInv, WarehouseTypeOK
<1>2. WarehouseTypeOK'
  BY <1>1 DEF WarehouseInv, WarehouseTypeOK
<1>3. JobProgress'
  BY <1>1 DEF WarehouseInv, JobProgress, TablesEmpty, TablesCreated, TablesFilled, Create, Fill
<1>4. FactsHaveDimensions' /\ CompletedIsSnapshot'
  BY <1>1 DEF WarehouseInv, FactsHaveDimensions, CompletedIsSnapshot, Completed
<1>. QED
  BY <1>2, <1>3, <1>4

(* The facts go before the dimensions they refer to.                       *)
LEMMA DropStep ==
  ASSUME WarehouseInv, DropTable
  PROVE  /\ WarehouseTypeOK' /\ JobProgress'
         /\ FactsHaveDimensions' /\ CompletedIsSnapshot'
<1>1. /\ rows \in [Tables -> SUBSET (Products \cup Rows)]
      /\ \A u \in Tables : rows[u] \subseteq IF u = "dim_products" THEN Products ELSE Rows
      /\ \A u \in Tables \ exists : rows[u] = {}
      /\ exists \subseteq Tables
  BY DEF WarehouseInv, JobProgress, WarehouseTypeOK
<1>2. PICK t \in Tables : rows' = [rows EXCEPT ![t] = {}] /\ exists' = exists \ {t}
  BY DropSteps DEF Tables
<1>3. rows'[t] = {} /\ \A u \in Tables \ {t} : rows'[u] = rows[u]
  BY <1>1, <1>2
<1>4. /\ rows' \in [Tables -> SUBSET (Products \cup Rows)]
      /\ \A u \in Tables : rows'[u] \subseteq IF u = "dim_products" THEN Products ELSE Rows
      /\ \A u \in Tables \ exists' : rows'[u] = {}
      /\ exists' \subseteq Tables
  BY <1>1, <1>2, <1>3
<1>5. /\ step' \in {<<"drop", 2>>, <<"drop", 3>>, <<"drop", 4>>, <<"create", 1>>}
      /\ jobs' = jobs
  BY DropSteps DEF DropTable
<1>6. WarehouseTypeOK'
  BY <1>4, <1>5 DEF WarehouseInv, WarehouseTypeOK
<1>7. TablesEmpty'
  BY <1>1, DropSteps DEF WarehouseInv, JobProgress, TablesEmpty, Create, Fill, Tables
<1>8. JobProgress'
  BY <1>4, <1>5, <1>7 DEF JobProgress, TablesCreated, TablesFilled, Create, Fill
<1>9. rows'["fact_reviews"] = {}
  BY <1>5, <1>7 DEF TablesEmpty, Create
<1>10. FactsHaveDimensions' /\ CompletedIsSnapshot'
  BY <1>5, <1>9 DEF FactsHaveDimensions, CompletedIsSnapshot, Completed
<1>. QED
  BY <1>6, <1>8, <1>10

LEMMA CreateStep ==
  ASSUME WarehouseInv, CreateTable
  PROVE  /\ WarehouseTypeOK' /\ JobProgress'
         /\ FactsHaveDimensions' /\ CompletedIsSnapshot'
<1>1. /\ rows' = rows /\ jobs' = jobs /\ exists \subseteq exists' /\ exists' \subseteq Tables
      /\ step \in Create
      /\ step' \in (Create \ {<<"create", 1>>}) \cup {<<"fill", 1>>}
  <2>1. rows' = rows /\ jobs' = jobs
    BY DEF CreateTable
  <2>2. \E t \in Tables : exists' = exists \cup {t}
    BY CreateSteps DEF Tables
  <2>3. exists \subseteq Tables
    BY DEF WarehouseInv, WarehouseTypeOK
  <2>4. step \in Create /\ step' \in (Create \ {<<"create", 1>>}) \cup {<<"fill", 1>>}
    BY CreateSteps DEF Create
  <2>. QED
    BY <2>1, <2>2, <2>3, <2>4
<1>2. WarehouseTypeOK'
  BY <1>1 DEF WarehouseInv, WarehouseTypeOK, Create
<1>3. TablesEmpty'
  BY <1>1 DEF WarehouseInv, JobProgress, TablesEmpty, Create, Fill
<1>4. TablesCreated'
  BY CreateSteps DEF WarehouseInv, JobProgress, TablesCreated, Create, Fill
<1>5. TablesFilled'
  BY <1>1 DEF TablesFilled, Create, Fill
<1>6. JobProgress'
  BY <1>1, <1>3, <1>4, <1>5 DEF WarehouseInv, JobProgress
<1>7. FactsHaveDimensions' /\ CompletedIsSnapshot'
  BY <1>1 DEF WarehouseInv, FactsHaveDimensions, CompletedIsSnapshot, Completed, Create
<1>. QED
  BY <1>2, <1>6, <1>7

(* The keys of the last append force the four versions of the folder to be *)
(* one: every fact is in the dimensions, which are not larger than what    *)
(* the last query selected.                                                *)
LEMMA FillStep ==
  ASSUME WarehouseInv, FillTable
  PROVE  /\ WarehouseTypeOK' /\ JobProgress'
         /\ FactsHaveDimensions' /\ CompletedIsSnapshot'
<1>1. exists' = exists /\ jobs' = jobs /\ refined' = refined
  BY DEF FillTable, lakehouse, folders
<1>2. PICK t \in Tables :
        /\ Permitted(t, Selected(t))
        /\ rows' = [rows EXCEPT ![t] = @ \cup Selected(t)]
        /\ \/ t = "dim_time" /\ step = <<"fill", 1>> /\ step' = <<"fill", 2>>
           \/ t = "dim_reviews" /\ step = <<"fill", 2>> /\ step' = <<"fill", 3>>
           \/ t = "dim_products" /\ step = <<"fill", 3>> /\ step' = <<"fill", 4>>
           \/ t = "fact_reviews" /\ step = <<"fill", 4>> /\ step' = <<"completed", 0>>
  BY FillSteps
<1>3. /\ rows'[t] = Selected(t)
      /\ \A u \in Tables \ {t} : rows'[u] = rows[u]
      /\ rows' \in [Tables -> SUBSET (Products \cup Rows)]
      /\ \A u \in Tables : rows'[u] \subseteq IF u = "dim_products" THEN Products ELSE Rows
      /\ \A u \in Tables \ exists' : rows'[u] = {}
      /\ FactsHaveDimensions'
  BY <1>1, <1>2, Filling
<1>4. WarehouseTypeOK'
  BY <1>1, <1>2, <1>3 DEF WarehouseInv, WarehouseTypeOK, Outcomes
<1>5. TablesEmpty'
  BY <1>2, <1>3 DEF WarehouseInv, JobProgress, TablesEmpty, Create, Fill, Tables
<1>6. TablesCreated'
  BY <1>1, <1>2 DEF WarehouseInv, JobProgress, TablesCreated, Create, Fill
<1>7. TablesFilled'
  <2>1. CASE t = "dim_products"
    BY <1>1, <1>2, <1>3, <2>1 DEF WarehouseInv, JobProgress, TablesFilled, Fill, Tables, Selected
  <2>2. CASE t # "dim_products"
    <3>1. Selected(t) = refined
      BY <2>2 DEF Selected
    <3>. QED
      BY <1>1, <1>2, <1>3, <2>2, <3>1 DEF WarehouseInv, JobProgress, TablesFilled, Fill, Tables
  <2>. QED
    BY <2>1, <2>2
<1>8. CompletedIsSnapshot'
  <2>1. CASE t # "fact_reviews"
    BY <1>2, <2>1 DEF CompletedIsSnapshot, Completed
  <2>2. CASE t = "fact_reviews"
    <3>1. /\ rows'["fact_reviews"] = refined
          /\ rows'["dim_reviews"] = rows["dim_reviews"]
          /\ rows'["dim_time"] = rows["dim_time"]
          /\ rows'["dim_products"] = rows["dim_products"]
      BY <1>3, <2>2 DEF Selected, Tables
    <3>2. /\ rows["dim_time"] \subseteq refined
          /\ rows["dim_reviews"] \subseteq refined
          /\ rows["dim_products"] \subseteq {ProductOf[row.record] : row \in refined}
      BY <1>2, <2>2 DEF WarehouseInv, JobProgress, TablesFilled, Fill
    <3>3. \A row \in refined : /\ row \in rows["dim_reviews"]
                              /\ row \in rows["dim_time"]
                              /\ ProductOf[row.record] \in rows["dim_products"]
      BY <1>2, <2>2 DEF Permitted, Selected
    <3>. QED
      BY <3>1, <3>2, <3>3 DEF CompletedIsSnapshot
  <2>. QED
    BY <2>1, <2>2
<1>9. JobProgress'
  BY <1>3, <1>5, <1>6, <1>7 DEF JobProgress
<1>. QED
  BY <1>3, <1>4, <1>8, <1>9

LEMMA FailStep ==
  ASSUME WarehouseInv, FillTableFails \/ JobFails
  PROVE  /\ WarehouseTypeOK' /\ JobProgress'
         /\ FactsHaveDimensions' /\ CompletedIsSnapshot'
<1>1. exists' = exists /\ jobs' = jobs /\ step' = <<"failed", 0>>
  BY FailSteps DEF FillTableFails, JobFails
<1>2. /\ rows' \in [Tables -> SUBSET (Products \cup Rows)]
      /\ \A u \in Tables : rows'[u] \subseteq IF u = "dim_products" THEN Products ELSE Rows
      /\ \A u \in Tables \ exists' : rows'[u] = {}
      /\ FactsHaveDimensions'
  <2>1. CASE rows' = rows
    BY <1>1, <2>1 DEF WarehouseInv, JobProgress, WarehouseTypeOK, FactsHaveDimensions
  <2>2. CASE \E t \in Tables : \E part \in SUBSET Selected(t) :
               /\ Permitted(t, part)
               /\ rows' = [rows EXCEPT ![t] = @ \cup part]
               /\ \/ t = "dim_time" /\ step = <<"fill", 1>>
                  \/ t = "dim_reviews" /\ step = <<"fill", 2>>
                  \/ t = "dim_products" /\ step = <<"fill", 3>>
                  \/ t = "fact_reviews" /\ step = <<"fill", 4>>
    BY <1>1, <2>2, Filling
  <2>. QED
    BY <2>1, <2>2, FailSteps
<1>3. WarehouseTypeOK'
  BY <1>1, <1>2 DEF WarehouseInv, WarehouseTypeOK, Outcomes
<1>4. JobProgress'
  BY <1>1, <1>2 DEF JobProgress, TablesEmpty, TablesCreated, TablesFilled, Create, Fill
<1>5. CompletedIsSnapshot'
  BY <1>1 DEF CompletedIsSnapshot, Completed
<1>. QED
  BY <1>2, <1>3, <1>4, <1>5

LEMMA WarehouseStep == WarehouseInv /\ [WarehouseNext]_allvars => WarehouseInv'
<1> SUFFICES ASSUME WarehouseInv, [WarehouseNext]_allvars PROVE WarehouseInv'
  OBVIOUS
<1>1. TypeOK'
  BY FoldersTypeStep DEF WarehouseInv
<1>2. WarehouseTypeOK' /\ JobProgress' /\ FactsHaveDimensions' /\ CompletedIsSnapshot'
  BY WarehouseCases, WritersStep, SubmitStep, DropStep, CreateStep, FillStep, FailStep
<1>. QED
  BY <1>1, <1>2 DEF WarehouseInv

LEMMA WarehouseStart == WarehouseInit => WarehouseInv
<1> SUFFICES ASSUME WarehouseInit PROVE WarehouseInv
  OBVIOUS
<1>1. /\ step = <<"none", 0>> /\ exists = {} /\ jobs = 0
      /\ rows = [t \in Tables |-> {}]
  BY DEF WarehouseInit
<1>2. TypeOK
  BY LakehouseAssumption DEF WarehouseInit, Init, TypeOK, NoTable
<1>3. \A t \in Tables : rows[t] = {}
  BY <1>1
<1>4. WarehouseTypeOK
  BY <1>1, <1>3, WarehouseAssumption DEF WarehouseTypeOK, Outcomes
<1>5. JobProgress
  BY <1>1 DEF JobProgress, TablesEmpty, TablesCreated, TablesFilled, Create, Fill
<1>6. FactsHaveDimensions /\ CompletedIsSnapshot
  BY <1>1, <1>3 DEF FactsHaveDimensions, CompletedIsSnapshot, Completed, Tables
<1>. QED
  BY <1>2, <1>4, <1>5, <1>6 DEF WarehouseInv

LEMMA WarehouseAlways == WarehouseSpec => []WarehouseInv
BY WarehouseStart, WarehouseStep, PTL DEF WarehouseSpec

(* Types of the tables, and no rows in a table that does not exist, at any *)
(* point of a rebuild.                                                     *)
THEOREM WarehouseTypeCorrect == WarehouseSpec => []WarehouseTypeOK
<1>1. WarehouseInv => WarehouseTypeOK
  BY DEF WarehouseInv
<1>. QED
  BY <1>1, WarehouseAlways, PTL

(* No fact ever refers to a missing row: not between the drops, not after  *)
(* a refused or interrupted append, not while the folder grows.            *)
THEOREM FactsAlwaysHaveDimensions == WarehouseSpec => []FactsHaveDimensions
<1>1. WarehouseInv => FactsHaveDimensions
  BY DEF WarehouseInv
<1>. QED
  BY <1>1, WarehouseAlways, PTL

(* If the job completes, the four tables come from one version of the      *)
(* refined folder, although each query read a version of its own.          *)
THEOREM CompletionIsSnapshot == WarehouseSpec => []CompletedIsSnapshot
<1>1. WarehouseInv => CompletedIsSnapshot
  BY DEF WarehouseInv
<1>. QED
  BY <1>1, WarehouseAlways, PTL
=============================================================================
