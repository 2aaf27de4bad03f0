--------------------------- MODULE StartupProofs ---------------------------
(***************************************************************************)
(* Proofs about Startup, for any number of processes, memories, columns    *)
(* and faults.                                                             *)
(*                                                                         *)
(* A process that drops the vector table has found it not whole, and no    *)
(* process has made it whole since, or the two are crowded.  So nobody     *)
(* serves then, this version has saved nothing yet, and the copy of the    *)
(* process that drops holds all there is.                                  *)
(***************************************************************************)
EXTENDS Startup, TLAPS

\* Steps after ensureMemoryColumns, and those with a whole vector table.
PastColumns == Rebuilding \cup {"check", "tidy", "assemble", "serve"}
Rebuilt == {"restore", "tidy", "assemble", "serve"}

\* What a process knows of the table memories.
ColumnsInv ==
  \A s \in Servers :
    /\ pc[s] \notin {"off", "schema"} => table
    /\ pc[s] = "columns" => Columns \ todo[s] \subseteq columns
    /\ pc[s] = "alter" => Columns \ (todo[s] \cup adding[s]) \subseteq columns
    /\ pc[s] \in PastColumns => columns = Columns

\* What a process knows of the vector table.
ShapeInv ==
  \A s \in Servers :
    /\ pc[s] \in {"exists", "stage", "drop"} => vtable # "full"
    /\ pc[s] = "create" => vtable = "none"
    /\ pc[s] \in Rebuilt => vtable = "full"

\* This version saves with a whole table only.
SavedInv ==
  \A m \in Ids : rows[m] = "current" => vtable = "full" /\ m \in vectors

\* A copy is complete until the drop, and restored when it is given up.
CopyInv ==
  \A s \in Servers :
    /\ pc[s] = "drop" => vectors \subseteq staged[s]
    /\ pc[s] \in {"drop", "tidy"} => staged[s] \cap had \subseteq vectors

\* There is no vector without a table, and what had a vector keeps its row.
Data ==
  /\ vtable = "none" => vectors = {}
  /\ \A m \in had : rows[m] # "none"

\* As long as nobody writes vectors while another one rebuilds.
Calm == ~crowded => ShapeInv /\ SavedInv /\ CopyInv /\ OldVectorsStaged

IInv ==
  /\ TypeOK
  /\ ColumnsInv
  /\ Data
  /\ Calm

---------------------------------------------------------------------------

USE FaultAssumption

\* The initial states, of a database of any age, satisfy the invariant.
LEMMA IInvInit == Init => IInv
<1> SUFFICES ASSUME Init PROVE IInv
  OBVIOUS
<1> USE DEF Init
<1>1. TypeOK
  <2>1. rows \in [Ids -> Rows] /\ vectors \subseteq Ids /\ had = vectors
    BY DEF Rows
  <2>2. /\ pc \in [Servers -> Steps] /\ todo \in [Servers -> SUBSET Columns]
        /\ adding \in [Servers -> SUBSET Columns] /\ staged \in [Servers -> SUBSET Ids]
        /\ \A s \in Servers : adding[s] = {} /\ staged[s] = {}
    BY DEF Steps
  <2>3. /\ table \in BOOLEAN /\ columns \in SUBSET Columns /\ vtable \in VectorTables
        /\ cut \in BOOLEAN /\ crowded \in BOOLEAN
    OBVIOUS
  <2>4. faults \in 0 .. MaxFaults
    OBVIOUS
  <2> QED BY <2>1, <2>2, <2>3, <2>4 DEF TypeOK
<1>2. ColumnsInv /\ ShapeInv /\ CopyInv
  BY DEF ColumnsInv, ShapeInv, CopyInv, PastColumns, Rebuilt, Rebuilding
<1>3. \A m \in Ids : rows[m] # "current"
  OBVIOUS
<1>4. \A m \in had : rows[m] # "none"
  OBVIOUS
<1> QED BY <1>1, <1>2, <1>3, <1>4 DEF IInv, SavedInv, OldVectorsStaged, Data, Calm

\* Every step keeps the types.
LEMMA TypeStep == TypeOK /\ [Next]_vars => TypeOK'
<1> SUFFICES ASSUME TypeOK, [Next]_vars PROVE TypeOK'
  OBVIOUS
<1> USE DEF TypeOK, Steps, Looking, Rebuilding, Rows, VectorTables
<1>1. ASSUME NEW s \in Servers, Start(s) PROVE TypeOK'
  BY <1>1 DEF Start, Goto, database, server, history
<1>2. ASSUME NEW s \in Servers, Schema(s) PROVE TypeOK'
  BY <1>2 DEF Schema, Goto, database, server, history
<1>3. ASSUME NEW s \in Servers, LookForColumn(s) PROVE TypeOK'
  BY <1>3 DEF LookForColumn, Goto, database, server, history
<1>4. ASSUME NEW s \in Servers, AddColumn(s) PROVE TypeOK'
  BY <1>4 DEF AddColumn, Goto, Quit, database, server, history
<1>5. ASSUME NEW s \in Servers, CheckVectorTable(s) PROVE TypeOK'
  BY <1>5 DEF CheckVectorTable, Goto, Whole, database, server, history
<1>6. ASSUME NEW s \in Servers, VectorTableExists(s) PROVE TypeOK'
  BY <1>6 DEF VectorTableExists, Goto, database, server, history
<1>7. ASSUME NEW s \in Servers, Stage(s) PROVE TypeOK'
  BY <1>7 DEF Stage, Goto, Quit, database, server, history
<1>8. ASSUME NEW s \in Servers, Drop(s) PROVE TypeOK'
  BY <1>8 DEF Drop, Goto, WritesVectors, database, server, history
<1>9. ASSUME NEW s \in Servers, Create(s) PROVE TypeOK'
  BY <1>9 DEF Create, Goto, WritesVectors, database, server, history
<1>10. ASSUME NEW s \in Servers, Restore(s) PROVE TypeOK'
  BY <1>10 DEF Restore, Goto, Quit, Restored, WritesVectors, database, server, history
<1>11. ASSUME NEW s \in Servers, Tidy(s) PROVE TypeOK'
  BY <1>11 DEF Tidy, Goto, database, server, history
<1>12. ASSUME NEW s \in Servers, Assemble(s) PROVE TypeOK'
  BY <1>12 DEF Assemble, Goto, database, server, history
<1>13. ASSUME NEW s \in Servers, Fault(s) PROVE TypeOK'
  BY <1>13 DEF Fault, Quit, database, server, history
<1>14. ASSUME NEW s \in Servers, NEW m \in Ids, Save(s, m) PROVE TypeOK'
  BY <1>14 DEF Save, Whole, WritesVectors, database, server, history
<1>15. CASE UNCHANGED vars
  BY <1>15 DEF vars, database, server, history
<1> QED
  BY <1>1, <1>2, <1>3, <1>4, <1>5, <1>6, <1>7, <1>8, <1>9, <1>10, <1>11, <1>12, <1>13, <1>14, <1>15
     DEF Next, Step

\* Columns are only added, and looked for before they are relied on.
LEMMA ColumnsStep == TypeOK /\ ColumnsInv /\ [Next]_vars => ColumnsInv'
<1> SUFFICES ASSUME TypeOK, ColumnsInv, [Next]_vars PROVE ColumnsInv'
  OBVIOUS
<1> USE DEF TypeOK, ColumnsInv, PastColumns, Rebuilding, database, server
<1>1. ASSUME NEW s \in Servers, Start(s) PROVE ColumnsInv'
  BY <1>1 DEF Start, Goto
<1>2. ASSUME NEW s \in Servers, Schema(s) PROVE ColumnsInv'
  BY <1>2 DEF Schema, Goto
<1>3. ASSUME NEW s \in Servers, LookForColumn(s) PROVE ColumnsInv'
  <2>1. UNCHANGED <<table, columns>>
    BY <1>3 DEF LookForColumn
  <2>2. ASSUME NEW c \in todo[s], todo' = [todo EXCEPT ![s] = @ \ {c}],
               c \in columns, UNCHANGED <<pc, adding>>
        PROVE  ColumnsInv'
    BY <1>3, <2>1, <2>2 DEF LookForColumn
  <2>3. ASSUME NEW c \in todo[s], todo' = [todo EXCEPT ![s] = @ \ {c}],
               adding' = [adding EXCEPT ![s] = {c}], Goto(s, "alter")
        PROVE  ColumnsInv'
    BY <1>3, <2>1, <2>3 DEF LookForColumn, Goto
  <2>4. CASE todo[s] = {} /\ Goto(s, "check") /\ UNCHANGED <<todo, adding>>
    BY <1>3, <2>1, <2>4 DEF LookForColumn, Goto
  <2> QED BY <1>3, <2>2, <2>3, <2>4 DEF LookForColumn
<1>4. ASSUME NEW s \in Servers, AddColumn(s) PROVE ColumnsInv'
  BY <1>4 DEF AddColumn, Goto, Quit
<1>5. ASSUME NEW s \in Servers, CheckVectorTable(s) PROVE ColumnsInv'
  BY <1>5 DEF CheckVectorTable, Goto, Whole
<1>6. ASSUME NEW s \in Servers, VectorTableExists(s) PROVE ColumnsInv'
  BY <1>6 DEF VectorTableExists, Goto
<1>7. ASSUME NEW s \in Servers, Stage(s) PROVE ColumnsInv'
  BY <1>7 DEF Stage, Goto, Quit
<1>8. ASSUME NEW s \in Servers, Drop(s) PROVE ColumnsInv'
  BY <1>8 DEF Drop, Goto, WritesVectors
<1>9. ASSUME NEW s \in Servers, Create(s) PROVE ColumnsInv'
  BY <1>9 DEF Create, Goto, WritesVectors
<1>10. ASSUME NEW s \in Servers, Restore(s) PROVE ColumnsInv'
  BY <1>10 DEF Restore, Goto, Quit, Restored, WritesVectors
<1>11. ASSUME NEW s \in Servers, Tidy(s) PROVE ColumnsInv'
  BY <1>11 DEF Tidy, Goto
<1>12. ASSUME NEW s \in Servers, Assemble(s) PROVE ColumnsInv'
  BY <1>12 DEF Assemble, Goto
<1>13. ASSUME NEW s \in Servers, Fault(s) PROVE ColumnsInv'
  BY <1>13 DEF Fault, Quit
<1>14. ASSUME NEW s \in Servers, NEW m \in Ids, Save(s, m) PROVE ColumnsInv'
  BY <1>14 DEF Save, Whole, WritesVectors
<1>15. CASE UNCHANGED vars
  BY <1>15 DEF vars
<1> QED
  BY <1>1, <1>2, <1>3, <1>4, <1>5, <1>6, <1>7, <1>8, <1>9, <1>10, <1>11, <1>12, <1>13, <1>14, <1>15
     DEF Next, Step

\* There are no vectors without a table, and rows stay.
LEMMA DataStep ==
  TypeOK /\ Data /\ [Next]_vars => Data'
<1> SUFFICES ASSUME TypeOK, Data, [Next]_vars PROVE Data'
  OBVIOUS
<1> USE DEF TypeOK, Data, database, server, history
<1>1. ASSUME NEW s \in Servers, Start(s) PROVE Data'
  BY <1>1 DEF Start, Goto
<1>2. ASSUME NEW s \in Servers, Schema(s) PROVE Data'
  BY <1>2 DEF Schema, Goto
<1>3. ASSUME NEW s \in Servers, LookForColumn(s) PROVE Data'
  BY <1>3 DEF LookForColumn, Goto
<1>4. ASSUME NEW s \in Servers, AddColumn(s) PROVE Data'
  BY <1>4 DEF AddColumn, Goto, Quit
<1>5. ASSUME NEW s \in Servers, CheckVectorTable(s) PROVE Data'
  BY <1>5 DEF CheckVectorTable, Goto, Whole
<1>6. ASSUME NEW s \in Servers, VectorTableExists(s) PROVE Data'
  BY <1>6 DEF VectorTableExists, Goto
<1>7. ASSUME NEW s \in Servers, Stage(s) PROVE Data'
  BY <1>7 DEF Stage, Goto, Quit
<1>8. ASSUME NEW s \in Servers, Drop(s) PROVE Data'
  BY <1>8 DEF Drop, Goto, WritesVectors
<1>9. ASSUME NEW s \in Servers, Create(s) PROVE Data'
  BY <1>9 DEF Create, Goto, WritesVectors
<1>10. ASSUME NEW s \in Servers, Restore(s) PROVE Data'
  BY <1>10 DEF Restore, Goto, Quit, Restored, WritesVectors
<1>11. ASSUME NEW s \in Servers, Tidy(s) PROVE Data'
  BY <1>11 DEF Tidy, Goto
<1>12. ASSUME NEW s \in Servers, Assemble(s) PROVE Data'
  BY <1>12 DEF Assemble, Goto
<1>13. ASSUME NEW s \in Servers, Fault(s) PROVE Data'
  BY <1>13 DEF Fault, Quit
<1>14. ASSUME NEW s \in Servers, NEW m \in Ids, Save(s, m) PROVE Data'
  BY <1>14 DEF Save, Whole, WritesVectors
<1>15. CASE UNCHANGED vars
  BY <1>15 DEF vars
<1> QED
  BY <1>1, <1>2, <1>3, <1>4, <1>5, <1>6, <1>7, <1>8, <1>9, <1>10, <1>11, <1>12, <1>13, <1>14, <1>15
     DEF Next, Step

\* Whoever makes the table whole, or drops it, does so while others do not
\* rebuild; so what they have found of it stays true.
LEMMA ShapeInvStep ==
  TypeOK /\ Data /\ Calm /\ [Next]_vars /\ ~crowded' => ShapeInv'
<1> SUFFICES ASSUME TypeOK, Data, Calm, [Next]_vars, ~crowded' PROVE ShapeInv'
  OBVIOUS
<1> USE DEF TypeOK, Calm, database, server, history, ShapeInv, Rebuilt, Rebuilding
<1>1. ASSUME NEW s \in Servers, Start(s) PROVE ShapeInv'
  BY <1>1 DEF Start, Goto
<1>2. ASSUME NEW s \in Servers, Schema(s) PROVE ShapeInv'
  BY <1>2 DEF Schema, Goto
<1>3. ASSUME NEW s \in Servers, LookForColumn(s) PROVE ShapeInv'
  BY <1>3 DEF LookForColumn, Goto
<1>4. ASSUME NEW s \in Servers, AddColumn(s) PROVE ShapeInv'
  BY <1>4 DEF AddColumn, Goto, Quit
<1>5. ASSUME NEW s \in Servers, CheckVectorTable(s) PROVE ShapeInv'
  BY <1>5 DEF CheckVectorTable, Goto, Whole
<1>6. ASSUME NEW s \in Servers, VectorTableExists(s) PROVE ShapeInv'
  BY <1>6 DEF VectorTableExists, Goto
<1>7. ASSUME NEW s \in Servers, Stage(s) PROVE ShapeInv'
  BY <1>7 DEF Stage, Goto, Quit
<1>8. ASSUME NEW s \in Servers, Drop(s) PROVE ShapeInv'
  BY <1>8 DEF Drop, Goto, WritesVectors
<1>9. ASSUME NEW s \in Servers, Create(s) PROVE ShapeInv'
  BY <1>9 DEF Create, Goto, WritesVectors
<1>10. ASSUME NEW s \in Servers, Restore(s) PROVE ShapeInv'
  BY <1>10 DEF Restore, Goto, Quit, Restored, WritesVectors
<1>11. ASSUME NEW s \in Servers, Tidy(s) PROVE ShapeInv'
  BY <1>11 DEF Tidy, Goto
<1>12. ASSUME NEW s \in Servers, Assemble(s) PROVE ShapeInv'
  BY <1>12 DEF Assemble, Goto
<1>13. ASSUME NEW s \in Servers, Fault(s) PROVE ShapeInv'
  BY <1>13 DEF Fault, Quit
<1>14. ASSUME NEW s \in Servers, NEW m \in Ids, Save(s, m) PROVE ShapeInv'
  BY <1>14 DEF Save, Whole, WritesVectors
<1>15. CASE UNCHANGED vars
  BY <1>15 DEF vars
<1> QED
  BY <1>1, <1>2, <1>3, <1>4, <1>5, <1>6, <1>7, <1>8, <1>9, <1>10, <1>11, <1>12, <1>13, <1>14, <1>15
     DEF Next, Step

\* A table that is dropped was not whole, so this version has saved nothing yet.
LEMMA SavedInvStep ==
  TypeOK /\ Data /\ Calm /\ [Next]_vars /\ ~crowded' => SavedInv'
<1> SUFFICES ASSUME TypeOK, Data, Calm, [Next]_vars, ~crowded' PROVE SavedInv'
  OBVIOUS
<1> USE DEF TypeOK, Calm, database, server, history, SavedInv, ShapeInv, Rebuilding
<1>1. ASSUME NEW s \in Servers, Start(s) PROVE SavedInv'
  BY <1>1 DEF Start, Goto
<1>2. ASSUME NEW s \in Servers, Schema(s) PROVE SavedInv'
  BY <1>2 DEF Schema, Goto
<1>3. ASSUME NEW s \in Servers, LookForColumn(s) PROVE SavedInv'
  BY <1>3 DEF LookForColumn, Goto
<1>4. ASSUME NEW s \in Servers, AddColumn(s) PROVE SavedInv'
  BY <1>4 DEF AddColumn, Goto, Quit
<1>5. ASSUME NEW s \in Servers, CheckVectorTable(s) PROVE SavedInv'
  BY <1>5 DEF CheckVectorTable, Goto, Whole
<1>6. ASSUME NEW s \in Servers, VectorTableExists(s) PROVE SavedInv'
  BY <1>6 DEF VectorTableExists, Goto
<1>7. ASSUME NEW s \in Servers, Stage(s) PROVE SavedInv'
  BY <1>7 DEF Stage, Goto, Quit
<1>8. ASSUME NEW s \in Servers, Drop(s) PROVE SavedInv'
  BY <1>8 DEF Drop, Goto, WritesVectors
<1>9. ASSUME NEW s \in Servers, Create(s) PROVE SavedInv'
  BY <1>9 DEF Create, Goto, WritesVectors
<1>10. ASSUME NEW s \in Servers, Restore(s) PROVE SavedInv'
  BY <1>10 DEF Restore, Goto, Quit, Restored, WritesVectors
<1>11. ASSUME NEW s \in Servers, Tidy(s) PROVE SavedInv'
  BY <1>11 DEF Tidy, Goto
<1>12. ASSUME NEW s \in Servers, Assemble(s) PROVE SavedInv'
  BY <1>12 DEF Assemble, Goto
<1>13. ASSUME NEW s \in Servers, Fault(s) PROVE SavedInv'
  BY <1>13 DEF Fault, Quit
<1>14. ASSUME NEW s \in Servers, NEW m \in Ids, Save(s, m) PROVE SavedInv'
  BY <1>14 DEF Save, Whole, WritesVectors
<1>15. CASE UNCHANGED vars
  BY <1>15 DEF vars
<1> QED
  BY <1>1, <1>2, <1>3, <1>4, <1>5, <1>6, <1>7, <1>8, <1>9, <1>10, <1>11, <1>12, <1>13, <1>14, <1>15
     DEF Next, Step

\* Nobody writes vectors between the copy of another process and its drop; what
\* is restored has a row, and is all there was of the older vectors.
LEMMA CopyInvStep ==
  TypeOK /\ Data /\ Calm /\ [Next]_vars /\ ~crowded' => CopyInv'
<1> SUFFICES ASSUME TypeOK, Data, Calm, [Next]_vars, ~crowded' PROVE CopyInv'
  OBVIOUS
<1> USE DEF TypeOK, Calm, database, server, history, CopyInv, ShapeInv, Data, Rebuilding, Rebuilt
<1>1. ASSUME NEW s \in Servers, Start(s) PROVE CopyInv'
  BY <1>1 DEF Start, Goto
<1>2. ASSUME NEW s \in Servers, Schema(s) PROVE CopyInv'
  BY <1>2 DEF Schema, Goto
<1>3. ASSUME NEW s \in Servers, LookForColumn(s) PROVE CopyInv'
  BY <1>3 DEF LookForColumn, Goto
<1>4. ASSUME NEW s \in Servers, AddColumn(s) PROVE CopyInv'
  BY <1>4 DEF AddColumn, Goto, Quit
<1>5. ASSUME NEW s \in Servers, CheckVectorTable(s) PROVE CopyInv'
  BY <1>5 DEF CheckVectorTable, Goto, Whole
<1>6. ASSUME NEW s \in Servers, VectorTableExists(s) PROVE CopyInv'
  BY <1>6 DEF VectorTableExists, Goto
<1>7. ASSUME NEW s \in Servers, Stage(s) PROVE CopyInv'
  BY <1>7 DEF Stage, Goto, Quit
<1>8. ASSUME NEW s \in Servers, Drop(s) PROVE CopyInv'
  BY <1>8 DEF Drop, Goto, WritesVectors
<1>9. ASSUME NEW s \in Servers, Create(s) PROVE CopyInv'
  BY <1>9 DEF Create, Goto, WritesVectors
<1>10. ASSUME NEW s \in Servers, Restore(s) PROVE CopyInv'
  BY <1>10 DEF Restore, Goto, Quit, Restored, WritesVectors
<1>11. ASSUME NEW s \in Servers, Tidy(s) PROVE CopyInv'
  BY <1>11 DEF Tidy, Goto
<1>12. ASSUME NEW s \in Servers, Assemble(s) PROVE CopyInv'
  BY <1>12 DEF Assemble, Goto
<1>13. ASSUME NEW s \in Servers, Fault(s) PROVE CopyInv'
  BY <1>13 DEF Fault, Quit
<1>14. ASSUME NEW s \in Servers, NEW m \in Ids, Save(s, m) PROVE CopyInv'
  BY <1>14 DEF Save, Whole, WritesVectors
<1>15. CASE UNCHANGED vars
  BY <1>15 DEF vars
<1> QED
  BY <1>1, <1>2, <1>3, <1>4, <1>5, <1>6, <1>7, <1>8, <1>9, <1>10, <1>11, <1>12, <1>13, <1>14, <1>15
     DEF Next, Step

\* What the drop deletes is in the copy, and what a copy loses is in the table,
\* but between the two.
LEMMA OldVectorsStagedStep ==
  TypeOK /\ Data /\ Calm /\ [Next]_vars /\ ~crowded' => OldVectorsStaged'
<1> SUFFICES ASSUME TypeOK, Data, Calm, [Next]_vars, ~crowded' PROVE OldVectorsStaged'
  OBVIOUS
<1> USE DEF TypeOK, Calm, database, server, history, OldVectorsStaged, ShapeInv, CopyInv, Data, Rebuilding, Rebuilt
<1>1. ASSUME NEW s \in Servers, Start(s) PROVE OldVectorsStaged'
  BY <1>1 DEF Start, Goto
<1>2. ASSUME NEW s \in Servers, Schema(s) PROVE OldVectorsStaged'
  BY <1>2 DEF Schema, Goto
<1>3. ASSUME NEW s \in Servers, LookForColumn(s) PROVE OldVectorsStaged'
  BY <1>3 DEF LookForColumn, Goto
<1>4. ASSUME NEW s \in Servers, AddColumn(s) PROVE OldVectorsStaged'
  BY <1>4 DEF AddColumn, Goto, Quit
<1>5. ASSUME NEW s \in Servers, CheckVectorTable(s) PROVE OldVectorsStaged'
  BY <1>5 DEF CheckVectorTable, Goto, Whole
<1>6. ASSUME NEW s \in Servers, VectorTableExists(s) PROVE OldVectorsStaged'
  BY <1>6 DEF VectorTableExists, Goto
<1>7. ASSUME NEW s \in Servers, Stage(s) PROVE OldVectorsStaged'
  BY <1>7 DEF Stage, Goto, Quit
<1>8. ASSUME NEW s \in Servers, Drop(s) PROVE OldVectorsStaged'
  BY <1>8 DEF Drop, Goto, WritesVectors
<1>9. ASSUME NEW s \in Servers, Create(s) PROVE OldVectorsStaged'
  BY <1>9 DEF Create, Goto, WritesVectors
<1>10. ASSUME NEW s \in Servers, Restore(s) PROVE OldVectorsStaged'
  BY <1>10 DEF Restore, Goto, Quit, Restored, WritesVectors
<1>11. ASSUME NEW s \in Servers, Tidy(s) PROVE OldVectorsStaged'
  BY <1>11 DEF Tidy, Goto
<1>12. ASSUME NEW s \in Servers, Assemble(s) PROVE OldVectorsStaged'
  BY <1>12 DEF Assemble, Goto
<1>13. ASSUME NEW s \in Servers, Fault(s) PROVE OldVectorsStaged'
  <2> SUFFICES ASSUME ~cut', NEW m \in had
               PROVE  m \in vectors \/ \E t \in Servers : m \in staged'[t]
    BY <1>13 DEF Fault
  <2>1. ~cut /\ pc[s] \notin {"create", "restore"} /\ ~crowded
    BY <1>13 DEF Fault
  <2>2. m \in vectors \/ \E t \in Servers : m \in staged[t]
    BY <2>1
  <2>3. m \in staged[s] => m \in vectors
    BY <2>1
  <2>4. \A t \in Servers \ {s} : staged'[t] = staged[t]
    BY <1>13 DEF Fault, Quit
  <2> QED BY <2>2, <2>3, <2>4
<1>14. ASSUME NEW s \in Servers, NEW m \in Ids, Save(s, m) PROVE OldVectorsStaged'
  BY <1>14 DEF Save, Whole, WritesVectors
<1>15. CASE UNCHANGED vars
  BY <1>15 DEF vars
<1> QED
  BY <1>1, <1>2, <1>3, <1>4, <1>5, <1>6, <1>7, <1>8, <1>9, <1>10, <1>11, <1>12, <1>13, <1>14, <1>15
     DEF Next, Step

---------------------------------------------------------------------------

\* The invariant is one of the specification.
LEMMA Invariant == Spec => []IInv
<1>1. IInv /\ [Next]_vars => IInv'
  <2> SUFFICES ASSUME IInv, [Next]_vars PROVE IInv'
    OBVIOUS
  <2>1. TypeOK' /\ ColumnsInv' /\ Data'
    BY TypeStep, ColumnsStep, DataStep DEF IInv
  <2>2. Calm'
    <3> SUFFICES ASSUME ~crowded'
                 PROVE  ShapeInv' /\ SavedInv' /\ CopyInv' /\ OldVectorsStaged'
      BY DEF Calm
    <3> QED
      BY ShapeInvStep, SavedInvStep, CopyInvStep, OldVectorsStagedStep DEF IInv
  <2> QED BY <2>1, <2>2 DEF IInv
<1> QED BY IInvInit, <1>1, PTL DEF Spec

\* Whatever fails and however often processes are started, states are well typed;
\* a temporary table is held by a process that rebuilds only.
THEOREM StartupTypeCorrect == Spec => []TypeOK
<1>1. IInv => TypeOK
  BY DEF IInv
<1> QED BY Invariant, <1>1, PTL

\* For any number of processes and faults: as long as no process writes vectors
\* while another one rebuilds, what this version saved keeps its vector, and an
\* old vector is lost only between the drop and the restore.
THEOREM VectorsAlwaysKept == Spec => []VectorsKept
<1>1. IInv => VectorsKept
  BY DEF IInv, Calm, SavedInv, VectorsKept, SavedVectorsKept
<1> QED BY Invariant, <1>1, PTL

\* Under the same condition, a process that serves has a whole schema.
THEOREM AlwaysServesWhole == Spec => []ServesWhole
<1>1. IInv => ServesWhole
  BY DEF IInv, Calm, ColumnsInv, ShapeInv, PastColumns, Rebuilt, ServesWhole
<1> QED BY Invariant, <1>1, PTL

=============================================================================
