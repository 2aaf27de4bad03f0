------------------------------ MODULE Startup ------------------------------
(***************************************************************************)
(* Starting a server: bootstrap opens the database, migrates it and puts   *)
(* the runtime together.  A migration is a list of statements, each        *)
(* committed on its own, so an error or a crash can end it after any of    *)
(* them, and another process that starts on the same file can come between *)
(* any two.                                                                *)
(*                                                                         *)
(* The vector table cannot be altered: an old one is copied to a temporary *)
(* table, dropped, created with the partition columns and filled again.    *)
(* The temporary table belongs to the connection and goes with it.         *)
(***************************************************************************)
EXTENDS Integers, FiniteSets

CONSTANTS
  Servers,    \* processes that start on the same database
  Ids,        \* memory ids
  Columns,    \* the columns that ensureMemoryColumns adds to memories
  MaxFaults   \* bound: statements that fail and processes that die

ASSUME FaultAssumption == MaxFaults \in Nat

\* What is known of a row: its storage_version, or that there is none.
Rows == {"none", "old", "current"}

\* memory_vectors does not exist, lacks a partition column, or has them all.
VectorTables == {"none", "old", "full"}

Looking == {"schema", "columns", "alter", "check"}
Rebuilding == {"exists", "stage", "drop", "create", "restore"}
Steps == Looking \cup Rebuilding \cup {"off", "tidy", "assemble", "serve"}

VARIABLES
  table,    \* whether the table memories exists
  columns,  \* those of Columns it has
  rows,     \* the rows of memories
  vtable,   \* the shape of memory_vectors
  vectors,  \* the ids that have a vector
  pc,       \* the step each process is at
  todo,     \* columns that each process has still to look for
  adding,   \* the columns it has found missing and is about to add
  staged,   \* its temporary table
  faults,   \* how many faults there have been
  had,      \* history: the ids that had a vector before any process started
  cut,      \* history: whether a rebuild ended between its drop and its restore
  crowded   \* history: whether vectors were written while another process rebuilt

database == <<table, columns, rows, vtable, vectors>>
server == <<pc, todo, adding, staged>>
history == <<had, cut, crowded>>
vars == <<database, server, faults, history>>

\* A new file, or one that an older version, this one, or a migration that was
\* interrupted has left.
Init ==
  /\ table \in BOOLEAN
  /\ columns \in SUBSET Columns
  /\ rows \in [Ids -> {"none", "old"}]
  /\ vtable \in VectorTables
  /\ vectors \in SUBSET {m \in Ids : rows[m] = "old"}
  /\ ~table => columns = {} /\ vtable = "none" /\ \A m \in Ids : rows[m] = "none"
  /\ vtable = "none" => vectors = {}
  /\ vtable = "full" => table /\ columns = Columns
  /\ pc = [s \in Servers |-> "off"]
  /\ todo = [s \in Servers |-> {}]
  /\ adding = [s \in Servers |-> {}]
  /\ staged = [s \in Servers |-> {}]
  /\ faults = 0
  /\ had = vectors
  /\ cut = FALSE
  /\ crowded = FALSE

---------------------------------------------------------------------------
(* The end of a process, by an error or a crash.  Every error path closes  *)
(* the connection, and the temporary table goes with it.                   *)

Quit(s) ==
  /\ pc' = [pc EXCEPT ![s] = "off"]
  /\ todo' = [todo EXCEPT ![s] = {}]
  /\ adding' = [adding EXCEPT ![s] = {}]
  /\ staged' = [staged EXCEPT ![s] = {}]

Goto(s, step) == pc' = [pc EXCEPT ![s] = step]

\* s writes the vector table or its rows.
WritesVectors(s) ==
  crowded' = (crowded \/ \E t \in Servers \ {s} : pc[t] \in Rebuilding)

Fault(s) ==
  /\ pc[s] # "off"
  /\ faults < MaxFaults
  /\ faults' = faults + 1
  /\ cut' = (cut \/ pc[s] \in {"create", "restore"})
  /\ Quit(s)
  /\ UNCHANGED <<database, had, crowded>>

---------------------------------------------------------------------------
(* The statements of a migration.                                          *)

\* config.Load and sql.Open.
Start(s) ==
  /\ pc[s] = "off"
  /\ Goto(s, "schema")
  /\ UNCHANGED <<database, todo, adding, staged, faults, history>>

\* CREATE TABLE IF NOT EXISTS memories, with every column.
Schema(s) ==
  /\ pc[s] = "schema"
  /\ table' = TRUE
  /\ columns' = IF table THEN columns ELSE Columns
  /\ todo' = [todo EXCEPT ![s] = Columns]
  /\ Goto(s, "columns")
  /\ UNCHANGED <<rows, vtable, vectors, adding, staged, faults, history>>

\* ensureMemoryColumns ranges over a map: any order.  memoryColumnExists first
\* looks; the column is added by another statement.
LookForColumn(s) ==
  /\ pc[s] = "columns"
  /\ \/ \E c \in todo[s] :
          /\ todo' = [todo EXCEPT ![s] = @ \ {c}]
          /\ \/ /\ c \in columns
                /\ UNCHANGED <<pc, adding>>
             \/ /\ c \notin columns
                /\ adding' = [adding EXCEPT ![s] = {c}]
                /\ Goto(s, "alter")
     \/ /\ todo[s] = {}
        /\ Goto(s, "check")
        /\ UNCHANGED <<todo, adding>>
  /\ UNCHANGED <<database, staged, faults, history>>

\* ALTER TABLE ADD COLUMN fails when another process has added the column.
AddColumn(s) ==
  /\ pc[s] = "alter"
  /\ \/ /\ adding[s] \cap columns = {}
        /\ columns' = columns \cup adding[s]
        /\ adding' = [adding EXCEPT ![s] = {}]
        /\ Goto(s, "columns")
        /\ UNCHANGED <<todo, staged>>
     \/ /\ adding[s] \cap columns # {}
        /\ Quit(s)
        /\ UNCHANGED columns
  /\ UNCHANGED <<table, rows, vtable, vectors, faults, history>>

\* memoryVectorPartitionColumnsExist: nothing is to be done on a whole table.
Whole == vtable = "full"
ChecksExistence(s) ==
  /\ pc[s] = "check"
  /\ Goto(s, IF vtable # "none" THEN "assemble" ELSE "exists")
  /\ UNCHANGED <<database, todo, adding, staged, faults, history>>
CheckVectorTable(s) ==
  /\ pc[s] = "check"
  /\ Goto(s, IF Whole THEN "assemble" ELSE "exists")
  /\ UNCHANGED <<database, todo, adding, staged, faults, history>>

\* memoryVectorTableExists; without a table the temporary one stays empty.
StagesAnyway(s) ==
  /\ pc[s] = "exists"
  /\ Goto(s, "stage")
  /\ UNCHANGED <<database, todo, adding, staged, faults, history>>
VectorTableExists(s) ==
  /\ pc[s] = "exists"
  /\ Goto(s, IF vtable = "none" THEN "drop" ELSE "stage")
  /\ UNCHANGED <<database, todo, adding, staged, faults, history>>

\* The copy to the temporary table fails if the table has gone meanwhile.
Stage(s) ==
  /\ pc[s] = "stage"
  /\ \/ /\ vtable # "none"
        /\ staged' = [staged EXCEPT ![s] = vectors]
        /\ Goto(s, "drop")
        /\ UNCHANGED <<todo, adding>>
     \/ /\ vtable = "none"
        /\ Quit(s)
  /\ UNCHANGED <<database, faults, history>>

\* DROP TABLE IF EXISTS memory_vectors.
Drop(s) ==
  /\ pc[s] = "drop"
  /\ vtable' = "none"
  /\ vectors' = {}
  /\ WritesVectors(s)
  /\ Goto(s, "create")
  /\ UNCHANGED <<table, columns, rows, todo, adding, staged, faults, had, cut>>

\* CREATE VIRTUAL TABLE IF NOT EXISTS memory_vectors.
Create(s) ==
  /\ pc[s] = "create"
  /\ vtable' = IF vtable = "none" THEN "full" ELSE vtable
  /\ WritesVectors(s)
  /\ Goto(s, "restore")
  /\ UNCHANGED <<table, columns, rows, vectors, todo, adding, staged, faults, had, cut>>

\* One INSERT of the staged vectors that have a row, all or none: it fails if
\* the table has gone or holds one of them.
RestoredCurrentOnly(s) == {m \in staged[s] : rows[m] = "current"}
Restored(s) == {m \in staged[s] : rows[m] # "none"}
Restore(s) ==
  /\ pc[s] = "restore"
  /\ \/ /\ vtable = "full" /\ Restored(s) \cap vectors = {}
        /\ vectors' = vectors \cup Restored(s)
        /\ WritesVectors(s)
        /\ Goto(s, "tidy")
        /\ UNCHANGED <<todo, adding, staged, cut>>
     \/ /\ ~(vtable = "full" /\ Restored(s) \cap vectors = {})
        /\ cut' = TRUE
        /\ Quit(s)
        /\ UNCHANGED <<vectors, crowded>>
  /\ UNCHANGED <<table, columns, rows, vtable, faults, had>>

LeavesStaged(s) ==
  /\ pc[s] = "tidy"
  /\ Goto(s, "assemble")
  /\ UNCHANGED <<database, todo, adding, staged, faults, history>>
Tidy(s) ==
  /\ pc[s] = "tidy"
  /\ staged' = [staged EXCEPT ![s] = {}]
  /\ Goto(s, "assemble")
  /\ UNCHANGED <<database, todo, adding, faults, history>>

---------------------------------------------------------------------------
(* After the migration.                                                    *)

\* The rest of bootstrap.New and server.Run: the service, the embedder, the
\* model clients and the listener.  Any of them may fail, which is a Fault.
Assemble(s) ==
  /\ pc[s] = "assemble"
  /\ Goto(s, "serve")
  /\ UNCHANGED <<database, todo, adding, staged, faults, history>>

\* MemoryStore.Save of a memory with a vector, one transaction: it fails
\* without a trace when the table is not whole.
Save(s, m) ==
  /\ pc[s] = "serve"
  /\ rows[m] = "none"
  /\ Whole
  /\ rows' = [rows EXCEPT ![m] = "current"]
  /\ vectors' = vectors \cup {m}
  /\ WritesVectors(s)
  /\ UNCHANGED <<table, columns, vtable, server, faults, had, cut>>

Step(s) ==
  \/ Start(s) \/ Schema(s) \/ LookForColumn(s) \/ AddColumn(s)
  \/ CheckVectorTable(s) \/ VectorTableExists(s) \/ Stage(s) \/ Drop(s)
  \/ Create(s) \/ Restore(s) \/ Tidy(s) \/ Assemble(s)

Next == \E s \in Servers : Step(s) \/ Fault(s) \/ \E m \in Ids : Save(s, m)

\* Statements return, and a process that has failed is started again.
Fairness == \A s \in Servers : WF_vars(Step(s))

Spec == Init /\ [][Next]_vars /\ Fairness

---------------------------------------------------------------------------
(* Properties.                                                             *)

\* The types; a process has found a column missing while it adds it, and has a
\* temporary table only while it rebuilds.
TypeOK ==
  /\ table \in BOOLEAN
  /\ columns \in SUBSET Columns
  /\ rows \in [Ids -> Rows]
  /\ vtable \in VectorTables
  /\ vectors \subseteq Ids
  /\ pc \in [Servers -> Steps]
  /\ todo \in [Servers -> SUBSET Columns]
  /\ adding \in [Servers -> SUBSET Columns]
  /\ staged \in [Servers -> SUBSET Ids]
  /\ \A s \in Servers :
       /\ adding[s] # {} => pc[s] = "alter"
       /\ staged[s] # {} => pc[s] \in {"drop", "create", "restore", "tidy"}
  /\ faults \in 0 .. MaxFaults
  /\ had \subseteq Ids /\ cut \in BOOLEAN /\ crowded \in BOOLEAN

\* A memory that this version has saved keeps its vector through every failure,
\* crash and restart.
SavedVectorsKept == \A m \in Ids : rows[m] = "current" => m \in vectors

\* The vectors of the older database are, at every step, in the table or in the
\* copy of the process that rebuilds it, unless a process ended between the drop
\* and the restore.
OldVectorsStaged ==
  ~cut => had \subseteq vectors \cup UNION {staged[s] : s \in Servers}

\* No vector is lost but the old ones in a rebuild that is cut short, unless a
\* process rebuilt the table while another one wrote to it.
VectorsKept == ~crowded => SavedVectorsKept /\ OldVectorsStaged

\* A process that serves has the schema its statements need, unless processes
\* got in each other's way.
ServesWhole ==
  ~crowded => \A s \in Servers :
    pc[s] = "serve" => table /\ columns = Columns /\ vtable = "full"

\* TestMigratePreservesOldMemoryVectors: a server that came up after a
\* migration has the vectors the older database had.
OldVectorsKept ==
  \A s \in Servers : pc[s] = "serve" => had \subseteq vectors

\* Whatever state a failure has left the database in, a server that is started
\* again comes up in the end, unless processes keep getting in each other's way.
ComesUp == \A s \in Servers : []<>(pc[s] = "serve" \/ crowded)

=============================================================================
