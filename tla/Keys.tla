-------------------------------- MODULE Keys --------------------------------
(***************************************************************************)
(* The indexes and foreign keys of one table, from the entity's            *)
(* declarations through a migration, the database's catalog and the        *)
(* readers back to the comparison of migration:create                      *)
(* (src/database/migration/create: entity-reader.ts, comparator.ts,        *)
(* ddl-generator.ts, db-reader.ts).  SchemaDiff has the other statements.  *)
(*                                                                         *)
(* An entity is [refs, indexes].  A reference is [prop, pks, key,          *)
(* onDelete]: its property, how many columns the primary key of the entity *)
(* it refers to has, of which type (one table for each), and its option    *)
(* ("" for none).  An index is [cols, name, unique, spatial], with "" for  *)
(* no name.                                                                *)
(***************************************************************************)
EXTENDS Naturals, Sequences, FiniteSets, SequencesExt

CONSTANTS
    Declared,   \* what entities declare
    Earlier,    \* what they may have declared when the table was made
    IdColumns,  \* properties that are named as ids are
    Points      \* columns that hold coordinates

VARIABLES
    dialect,    \* "mysql" or "postgres"
    entity,     \* what the entity declares
    before,     \* the table's keys before the migration
    keys,       \* and now: [idx, fks]
    stage       \* "declared", "migrated", "refused" by migration:create, or "rejected" by the database

vars == <<dialect, entity, before, keys, stage>>

mysql == dialect = "mysql"

-----------------------------------------------------------------------------
(* What the entity declares. *)

ReadForeignKey(r) ==
    [name |-> <<"fk", r.prop>>, col |-> r.prop, key |-> r.key,
     onDelete |-> IF r.onDelete = "" THEN "CASCADE" ELSE r.onDelete, onUpdate |-> "CASCADE"]

\* A reference to what has no primary key, or one of several columns, gets no column.
Referring(e) == {r \in e.refs : r.pks = 1}
Skipped(e)   == {r.prop : r \in e.refs \ Referring(e)}

NameOf(x) == IF x.name = "" THEN <<"idx">> \o x.cols ELSE <<x.name>>

\* The first of each name.
ReadIndexes(e) ==
    LET resolved == SelectSeq(e.indexes, LAMBDA x : ToSet(x.cols) \cap Skipped(e) = {})
        repeated(i) == \E j \in 1..(i - 1) : NameOf(resolved[j]) = NameOf(resolved[i])
    IN {[name |-> NameOf(resolved[i]), cols |-> resolved[i].cols,
         unique |-> resolved[i].unique, spatial |-> mysql /\ resolved[i].spatial] :
            i \in {j \in DOMAIN resolved : ~repeated(j)}}

ReadTableSchema(e) == [idx |-> ReadIndexes(e), fks |-> {ReadForeignKey(r) : r \in Referring(e)}]

-----------------------------------------------------------------------------
(* What the readers find in the catalogs. *)

\* SHOW INDEX has a row for each column of an index, in no order (external).
ShowIndex(table) ==
    {[name |-> <<"PRIMARY">>, seq |-> 1, col |-> "id", unique |-> TRUE, spatial |-> FALSE]}
    \cup UNION {{[name |-> x.name, seq |-> i, col |-> x.cols[i], unique |-> x.unique, spatial |-> x.spatial] :
                    i \in DOMAIN x.cols} : x \in table.idx}

ReadMySQLIndexes(table) ==
    LET rows == {r \in ShowIndex(table) : r.name # <<"PRIMARY">>}
        of(name) == {r \in rows : r.name = name}
        at(name, i) == CHOOSE r \in of(name) : r.seq = i
    IN {[name |-> n, cols |-> [i \in 1..Cardinality(of(n)) |-> at(n, i).col],
         unique |-> at(n, 1).unique, spatial |-> at(n, 1).spatial] : n \in {r.name : r \in rows}}

\* pg_index has the columns in their order.
ReadPostgresIndexes(table) ==
    {[name |-> x.name, cols |-> x.cols, unique |-> x.unique, spatial |-> FALSE] : x \in table.idx}

\* PostgreSQL keeps letters for the actions of a foreign key.
Actions == [a |-> "NO ACTION", r |-> "RESTRICT", c |-> "CASCADE", n |-> "SET NULL", d |-> "SET DEFAULT"]

ReadPostgresForeignKeys(table) ==
    {[fk EXCEPT !.onDelete = Actions[@], !.onUpdate = Actions[@]] : fk \in table.fks}

ReadMySQLForeignKeys(table) == table.fks

\* MySQL makes an index for a foreign key that has none, and gives it the name of the key.
ReadMySQLTable(table) ==
    LET fks == ReadMySQLForeignKeys(table)
    IN [idx |-> {x \in ReadMySQLIndexes(table) : \A fk \in fks : x.name # fk.name}, fks |-> fks]

ReadPostgresTable(table) == [idx |-> ReadPostgresIndexes(table), fks |-> ReadPostgresForeignKeys(table)]

ReadDatabase(table) == IF mysql THEN ReadMySQLTable(table) ELSE ReadPostgresTable(table)

-----------------------------------------------------------------------------
(* The comparison, and the statements made of it. *)

IndexKey(x) == <<x.cols, x.unique, x.spatial>>

NormalizeFkAction(action) == IF action = "NO ACTION" THEN "RESTRICT" ELSE action
FkKey(fk) == <<fk.col, fk.key, NormalizeFkAction(fk.onDelete), NormalizeFkAction(fk.onUpdate)>>

NewIndexes(these, those) == {x \in these : \A y \in those : IndexKey(x) # IndexKey(y)}
NewFks(these, those)     == {x \in these : \A y \in those : FkKey(x) # FkKey(y)}

Difference(e, d) ==
    [addedIdx |-> NewIndexes(e.idx, d.idx), removedIdx |-> NewIndexes(d.idx, e.idx),
     addedFks |-> NewFks(e.fks, d.fks), removedFks |-> NewFks(d.fks, e.fks)]

NoDifference == [addedIdx |-> {}, removedIdx |-> {}, addedFks |-> {}, removedFks |-> {}]

Each(op, set) == SetToSeq({[op |-> op, key |-> x] : x \in set})

Statements(diff) ==
    Each("dropFk", diff.removedFks) \o Each("dropIndex", diff.removedIdx)
        \o Each("addIndex", diff.addedIdx) \o Each("addFk", diff.addedFks)

\* validateFkAction() throws when migration:create writes the statement.
Writes(diff) == \A fk \in diff.addedFks : mysql => fk.onDelete # "SET DEFAULT"

-----------------------------------------------------------------------------
(* What the database makes of a statement (external). *)

Rejected == [idx |-> {}, fks |-> {}, rejected |-> TRUE]
Serves(x, fk) == x.cols[1] = fk.col /\ ~x.spatial
Stored(x, generated) == [name |-> x.name, cols |-> x.cols, unique |-> x.unique, spatial |-> x.spatial, generated |-> generated]

\* A column counts without a sign in `id`, and where its own name is that of an id.
Comparable(fk) == mysql /\ fk.key = "number" => fk.col \in IdColumns

Accepts(table, s) ==
    LET others == {x \in table.idx : x.name # s.key.name} IN
    CASE s.op = "dropIndex" ->
            mysql => \A fk \in table.fks : Serves(s.key, fk) => \E x \in others : Serves(x, fk)
      [] s.op = "addIndex" -> others = table.idx /\ (~mysql => ToSet(s.key.cols) \cap Points = {})
      [] s.op = "addFk"    -> Comparable(s.key)
      [] OTHER             -> TRUE

Kept(action) == IF mysql THEN action ELSE CHOOSE letter \in DOMAIN Actions : Actions[letter] = action

\* An index that MySQL has made gives way to the first that does its work.
Effect(table, s) ==
    CASE s.op = "dropFk"    -> [table EXCEPT !.fks = {fk \in @ : fk.name # s.key.name}]
      [] s.op = "dropIndex" -> [table EXCEPT !.idx = {x \in @ : x.name # s.key.name}]
      [] s.op = "addIndex"  ->
            [table EXCEPT !.idx = {x \in @ : ~(x.generated /\ x.cols[1] = s.key.cols[1] /\ ~s.key.spatial)}
                                  \cup {Stored(s.key, FALSE)}]
      [] s.op = "addFk"     ->
            [idx |-> table.idx \cup
                IF mysql /\ ~\E x \in table.idx : Serves(x, s.key)
                THEN {Stored([name |-> s.key.name, cols |-> <<s.key.col>>, unique |-> FALSE, spatial |-> FALSE], TRUE)}
                ELSE {},
             fks |-> table.fks \cup {[s.key EXCEPT !.onDelete = Kept(@), !.onUpdate = Kept(@)]}]

Execute(table, s) ==
    IF table # Rejected /\ Accepts(table, s) THEN Effect(table, s) ELSE Rejected

RunAll(table, statements) == FoldLeft(Execute, table, statements)

NoKeys == [idx |-> {}, fks |-> {}]

-----------------------------------------------------------------------------
(* Actions. *)

DifferenceNow == Difference(ReadTableSchema(entity), ReadDatabase(keys))

\* migration:create and migration:run.
Migrate ==
    /\ stage = "declared"
    /\ LET table == RunAll(keys, Statements(DifferenceNow)) IN
       IF ~Writes(DifferenceNow) THEN stage' = "refused" /\ UNCHANGED keys
       ELSE IF table = Rejected THEN stage' = "rejected" /\ UNCHANGED keys
       ELSE stage' = "migrated" /\ keys' = table
    /\ UNCHANGED <<dialect, entity, before>>

\* The table is as another migration has made it, of what was declared earlier.
Init ==
    /\ dialect \in {"mysql", "postgres"}
    /\ entity \in Declared
    /\ \E e \in Earlier : LET made == Difference(ReadTableSchema(e), NoKeys) IN
           Writes(made) /\ keys = RunAll(NoKeys, Statements(made)) /\ keys # Rejected
    /\ before = keys /\ stage = "declared"

Next == Migrate

Spec == Init /\ [][Next]_vars

-----------------------------------------------------------------------------
(* Properties. *)

\* What the migration gets wrong.  On MySQL: a reference to a number by a property that is not
\* named like an id is of another type; an index that a foreign key needs goes before its successor
\* comes, or has none; and when a foreign key goes, the index that MySQL made for it stays.
\* On PostgreSQL: a column of points has no index of the common kind.  On both: a new index may
\* have the name of one that stays for another that is alike.
Ordinary ==
    LET e == ReadTableSchema(entity)
        d == ReadDatabase(before)
        lost == Difference(e, d) IN
    /\ \A x \in lost.addedIdx, y \in d.idx \ lost.removedIdx : x.name # y.name
    /\ IF mysql
       THEN
         /\ \A fk \in e.fks : Comparable(fk) /\ fk.onDelete # "SET DEFAULT"
         /\ \A x \in lost.removedIdx, fk \in before.fks \ lost.removedFks : ~Serves(x, fk)
         /\ \A fk \in lost.removedFks :
                \/ \E x \in before.idx : x.generated = FALSE /\ Serves(x, fk)
                \/ \E x \in lost.addedIdx : Serves(x, fk)
                \/ \E new \in lost.addedFks : new.name = fk.name
       ELSE \A x \in e.idx : ToSet(x.cols) \cap Points = {}

\* Once its migration has run, migration:create finds nothing more to do about a table's keys, and
\* the database accepts that migration (compareIndexes, compareForeignKeys of what is read).
NothingLeft ==
    stage # "declared" /\ Ordinary => stage = "migrated" /\ DifferenceNow = NoDifference
=============================================================================
