--------------------------- MODULE SchemaMigration ---------------------------
(***************************************************************************)
(* SchemaMigrationGenerator (compliance/schema_migration.py): the plan     *)
(* diff computes between two snapshots, and what the generated upgrade and *)
(* downgrade scripts do to a database, operation by operation.             *)
(***************************************************************************)
EXTENDS SequencesExt, Lists

CONSTANTS
  Tables, Columns,  \* names
  ColumnTypes       \* column types; "String" is the scripts' default

ASSUME SchemaAssumption ==
  "String" \in ColumnTypes /\ "none" \notin ColumnTypes /\ IsFiniteSet(Tables) /\ IsFiniteSet(Columns)

NoColumn == [type |-> "none", nullable |-> TRUE]
Column == [type : ColumnTypes, nullable : BOOLEAN]
None == [c \in Columns |-> NoColumn]
NoTable == [exists |-> FALSE, columns |-> None, index |-> FALSE]
Table == {NoTable} \cup
         [exists : {TRUE}, columns : [Columns -> Column \cup {NoColumn}], index : BOOLEAN]

VARIABLES
  before, after,  \* the snapshots
  db,             \* the schema of the database
  done_up,        \* operations of the upgrade done
  done_down       \* operations of the downgrade done

schemaVars == <<before, after, db, done_up, done_down>>

SchemaTypeOK ==
  /\ before \in [Tables -> Table] /\ after \in [Tables -> Table] /\ db \in [Tables -> Table]
  /\ done_up \in Nat /\ done_down \in Nat

Op(kind, t, c, type, nullable, columns) ==
  [kind |-> kind, table |-> t, column |-> c, type |-> type, nullable |-> nullable, columns |-> columns]

Has(s, t, c) == s[t].columns[c] # NoColumn

(* A new table's columns are planned by name and type only. *)
TypesOf(s, t) ==
  [c \in Columns |-> IF Has(s, t, c) THEN [type |-> s[t].columns[c].type, nullable |-> TRUE]
                     ELSE NoColumn]

AddTable(t) == Op("add_table", t, "none", "none", TRUE, TypesOf(after, t))
DropTable(t) == Op("drop_table", t, "none", "none", TRUE, None)
OnColumn(kind, t, c) == Op(kind, t, c, after[t].columns[c].type, after[t].columns[c].nullable, None)

NewTables == {t \in Tables : after[t].exists /\ ~before[t].exists}
GoneTables == {t \in Tables : before[t].exists /\ ~after[t].exists}
BothTables == {t \in Tables : before[t].exists /\ after[t].exists}

(* A changed nullability or index is not planned. *)
Added(t) == {c \in Columns : Has(after, t, c) /\ ~Has(before, t, c)}
Dropped(t) == {c \in Columns : Has(before, t, c) /\ ~Has(after, t, c)}
Retyped(t) ==
  {c \in Columns : /\ Has(before, t, c) /\ Has(after, t, c)
                   /\ before[t].columns[c].type # after[t].columns[c].type}

(* The operations on the columns of a table of both snapshots.  SetToSeq   *)
(* stands for sorted.                                                      *)
EachColumn(kind, t, cs) == [i \in DOMAIN SetToSeq(cs) |-> OnColumn(kind, t, SetToSeq(cs)[i])]

ColumnOps(t) ==
  EachColumn("add_column", t, Added(t)) \o EachColumn("drop_column", t, Dropped(t)) \o
  EachColumn("alter_column", t, Retyped(t))

(* diff *)
Plan ==
  [i \in DOMAIN SetToSeq(NewTables) |-> AddTable(SetToSeq(NewTables)[i])] \o
  [i \in DOMAIN SetToSeq(GoneTables) |-> DropTable(SetToSeq(GoneTables)[i])] \o
  Joined([i \in DOMAIN SetToSeq(BothTables) |-> ColumnOps(SetToSeq(BothTables)[i])])

(* _inverse_op: a changed type has no inverse; a dropped table or column   *)
(* comes back without columns, or as a nullable String.                    *)
HasInverse(op) == op.kind # "alter_column"

Reverting(op) ==
  CASE op.kind = "add_table"   -> [op EXCEPT !.kind = "drop_table"]
    [] op.kind = "drop_table"  -> [op EXCEPT !.kind = "add_table"]
    [] op.kind = "add_column"  -> [op EXCEPT !.kind = "drop_column"]
    [] op.kind = "drop_column" -> [op EXCEPT !.kind = "add_column", !.type = "String", !.nullable = TRUE]

(* What the line to_alembic_line writes for an operation does. *)
Applied(s, op) ==
  CASE op.kind = "add_table"    -> [s EXCEPT ![op.table] = [exists |-> TRUE, columns |-> op.columns, index |-> FALSE]]
    [] op.kind = "drop_table"   -> [s EXCEPT ![op.table] = NoTable]
    [] op.kind = "add_column"   -> [s EXCEPT ![op.table].columns[op.column] = [type |-> op.type, nullable |-> op.nullable]]
    [] op.kind = "drop_column"  -> [s EXCEPT ![op.table].columns[op.column] = NoColumn]
    [] op.kind = "alter_column" -> [s EXCEPT ![op.table].columns[op.column].type = op.type]

SchemaInit ==
  /\ before \in [Tables -> Table] /\ after \in [Tables -> Table]
  /\ db = before /\ done_up = 0 /\ done_down = 0

(* upgrade() and then downgrade() of to_alembic_script, which takes the    *)
(* inverses from the last operation to the first.                          *)
UpgradeStep ==
  /\ done_down = 0 /\ done_up < Len(Plan)
  /\ db' = Applied(db, Plan[done_up + 1]) /\ done_up' = done_up + 1
  /\ UNCHANGED <<before, after, done_down>>

DowngradeStep ==
  /\ done_up = Len(Plan) /\ done_down < Len(Plan)
  /\ LET op == Plan[Len(Plan) - done_down]
     IN db' = IF HasInverse(op) THEN Applied(db, Reverting(op)) ELSE db
  /\ done_down' = done_down + 1
  /\ UNCHANGED <<before, after, done_up>>

SchemaNext == UpgradeStep \/ DowngradeStep

---------------------------------------------------------------------------
SameColumns(s, t) == \A c \in Columns : db[t].columns[c].type = s[t].columns[c].type
Lossless == \A i \in DOMAIN Plan : Plan[i].kind \in {"add_table", "add_column"}

(* The upgrade ends with the tables, columns and types of the new          *)
(* snapshot; the downgrade with those of the old one where nothing was     *)
(* dropped or retyped, and in any case with its tables and, in the tables  *)
(* both snapshots have, its columns.                                       *)
MigrationSound ==
  /\ done_up = Len(Plan) /\ done_down = 0 =>
       \A t \in Tables : db[t].exists = after[t].exists /\ SameColumns(after, t)
  /\ done_down = Len(Plan) /\ done_up = Len(Plan) =>
       /\ Lossless => db = before
       /\ \A t \in Tables :
            /\ db[t].exists = before[t].exists
            /\ after[t].exists => \A c \in Columns : Has(db, t, c) <=> Has(before, t, c)
=============================================================================
