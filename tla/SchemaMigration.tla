-------------------------- MODULE SchemaMigration --------------------------
(***************************************************************************)
(* ensureCoreSchema of lib/server/store.ts.  Every server instance brings  *)
(* the shared database to the current schema before it first uses it: one  *)
(* batch creates the missing tables, then each later column is added by a  *)
(* statement of its own.  Instances start together and interleave.         *)
(***************************************************************************)
EXTENDS Naturals

CONSTANTS Instances,  \* server processes
          Columns     \* how many columns were added after the first release

ASSUME ColumnsAssumption == Columns \in Nat

VARIABLES tables,   \* the tables exist
          columns,  \* the added columns the database has
          setup     \* the column each instance adds next; 0 before the tables

schema == <<tables, columns, setup>>

\* The database is new or was left by any earlier release.
SchemaInit ==
  /\ tables \in BOOLEAN
  /\ \E n \in 0 .. Columns : columns = IF tables THEN 1 .. n ELSE {}
  /\ setup = [i \in Instances |-> 0]

\* initialised: no column is left to add.
IsReady(i) == setup[i] = Columns + 1

\* CREATE TABLE IF NOT EXISTS makes the tables of the first release.
CreateTables(i) ==
  /\ setup[i] = 0
  /\ tables' = TRUE
  /\ setup' = [setup EXCEPT ![i] = 1]
  /\ UNCHANGED columns

\* A column another instance or release added is the one error passed over.
AddColumn(i) ==
  /\ setup[i] \in 1 .. Columns
  /\ columns' = columns \cup {setup[i]}
  /\ setup' = [setup EXCEPT ![i] = @ + 1]
  /\ UNCHANGED tables

\* Mutant: any error is taken for a duplicate column.
ColumnFailsPassedOver(i) ==
  /\ setup[i] \in 1 .. Columns
  /\ setup' = [setup EXCEPT ![i] = @ + 1]
  /\ UNCHANGED <<tables, columns>>

\* Any other error ends the request, and the next one starts over.
ColumnFails(i) ==
  /\ setup[i] \in 1 .. Columns
  /\ setup' = [setup EXCEPT ![i] = 0]
  /\ UNCHANGED <<tables, columns>>
=============================================================================
