----------------------------- MODULE SchemaDiff -----------------------------
(***************************************************************************)
(* migration:create and what its migration does when it runs: the          *)
(* difference between the entities and the database                        *)
(* (src/database/migration/create/comparator.ts), the statements made of   *)
(* it, either as raw SQL (ddl-generator.ts) or as calls of the schema      *)
(* builder (builder-regenerator.ts and schema/Schema.ts), and a database   *)
(* that accepts or rejects each of them.                                   *)
(*                                                                         *)
(* A table is [cols, pk, idx, fks].  A column has a name, a type (all that *)
(* MODIFY would change) and may count by itself; pk is the sequence of the *)
(* primary key's columns; indexes and foreign keys are of one column, and  *)
(* foreign keys refer to the other table's primary key.  Enum types,       *)
(* nullability and defaults are left out; the indexes that MySQL makes for *)
(* foreign keys, and all else about indexes, are in Keys.                  *)
(***************************************************************************)
EXTENDS Naturals, Sequences, FiniteSets, SequencesExt, Functions

CONSTANTS
    Pairs       \* <<entities, database>>: what migration:create may find; both map tables to their contents

VARIABLES
    dialect,    \* "mysql" or "postgres"
    way,        \* "raw" or "builder": how the migration is written
    entities,   \* the tables as the entities declare them
    before,     \* the database when the migration was made
    asked,      \* table -> the renames its user confirmed: new name -> old name
    db,         \* the database
    todo,       \* the statements the migration still has to run
    stage       \* "new", "running", "done" or "rejected"

vars == <<dialect, way, entities, before, asked, db, todo, stage>>

-----------------------------------------------------------------------------
(* Columns. *)

Names(cols) == [i \in DOMAIN cols |-> cols[i].name]
NameSet(cols) == {cols[i].name : i \in DOMAIN cols}
Has(cols, name) == name \in NameSet(cols)
Named(cols, name) == cols[CHOOSE i \in DOMAIN cols : cols[i].name = name]
Place(cols, name) == CHOOSE i \in DOMAIN cols : cols[i].name = name

\* Both readers know only which columns are in the key, in the order of the columns.
Pk(table) == SelectSeq(Names(table.cols), LAMBDA n : n \in ToSet(table.pk))
\* Mutant: a column goes on counting when its key goes.
StillCounts(c) == c

Plain(c) == [c EXCEPT !.auto = FALSE]

\* c goes where a position clause says: "keep" (or the end), "first", or behind a column.
Put(cols, c, after) ==
    LET others == SelectSeq(cols, LAMBDA o : o.name # c.name)
        at == CASE after = "first" -> 1
                [] after = "keep"  -> IF Has(cols, c.name) THEN Place(cols, c.name) ELSE Len(cols) + 1
                [] OTHER           -> Place(others, after) + 1
    IN InsertAt(others, at, c)

-----------------------------------------------------------------------------
(* The difference.  renames maps the new name of a column to the old one: the answers to the    *)
(* questions of detectRenames().                                                                *)

Added(e, d, renames) ==
    SelectSeq(e.cols, LAMBDA c : ~Has(d.cols, c.name) /\ c.name \notin DOMAIN renames)

Removed(e, d, renames) ==
    SelectSeq(d.cols, LAMBDA c : ~Has(e.cols, c.name) /\ c.name \notin Range(renames))

Renamed(e, renames) == SelectSeq(e.cols, LAMBDA c : c.name \in DOMAIN renames)

Differs(new, old) == new.type # old.type \/ new.auto # old.auto

\* Columns of both by the same name, and behind them renamed ones.
Modified(e, d, renames) ==
    LET changed(from) == SelectSeq(e.cols, LAMBDA c :
            c.name \in DOMAIN from /\ Differs(c, Named(d.cols, from[c.name])))
        pairs(from) == [i \in DOMAIN changed(from) |->
            [new |-> changed(from)[i], old |-> Named(d.cols, from[changed(from)[i].name])]]
        same == [n \in NameSet(e.cols) \cap NameSet(d.cols) |-> n]
    IN pairs(same) \o pairs(renames)

NewName(renames, name) ==
    IF name \in Range(renames) THEN CHOOSE n \in DOMAIN renames : renames[n] = name ELSE name

\* Column -> the column it has to follow; where the two orders disagree, place by place.
Reordered(e, d, renames) ==
    LET kept(s, names) == SelectSeq(s, LAMBDA n : n \in names)
        dbOrder == [i \in DOMAIN d.cols |-> NewName(renames, d.cols[i].name)]
        order == kept(Names(e.cols), ToSet(dbOrder))
        current == kept(dbOrder, NameSet(e.cols))
    IN IF dialect = "postgres" THEN <<>>
       ELSE [n \in {order[i] : i \in {j \in DOMAIN order : order[j] # current[j]}} |->
                LET i == CHOOSE j \in DOMAIN order : order[j] = n
                IN IF i = 1 THEN "first" ELSE order[i - 1]]

PkChanged(e, d, renames) ==
    Pk(e) # [i \in DOMAIN Pk(d) |-> NewName(renames, Pk(d)[i])]

-----------------------------------------------------------------------------
(* Statements. *)

ForEach(seq, Stmts(_)) == FlattenSeq([i \in DOMAIN seq |-> Stmts(seq[i])])
If(condition, stmts) == IF condition THEN stmts ELSE <<>>
Column(t, op, c, after) == [op |-> op, table |-> t, col |-> c, after |-> after]

DropFk(t, fk)    == <<[op |-> "dropFk", table |-> t, fk |-> fk]>>
AddFk(t, fk)     == <<[op |-> "addFk", table |-> t, fk |-> fk]>>
DropIndex(t, x)  == <<[op |-> "dropIndex", table |-> t, index |-> x]>>
AddIndex(t, x)   == <<[op |-> "addIndex", table |-> t, index |-> x]>>
DropPk(t)        == <<[op |-> "dropPk", table |-> t]>>
AddPk(t, names)  == <<[op |-> "addPk", table |-> t, names |-> names]>>
Drop(t, name)    == <<[op |-> "drop", table |-> t, name |-> name]>>
Rename(t, f, n)  == <<[op |-> "rename", table |-> t, name |-> f, to |-> n]>>
Add(t, c, after)    == <<Column(t, "add", c, after)>>
Modify(t, c, after) == <<Column(t, "modify", c, after)>>
SetType(t, c)    == <<Column(t, "type", c, "keep")>>
SetAuto(t, c)    == <<Column(t, "auto", c, "keep")>>
CreateTable(t, contents) == <<[op |-> "create", table |-> t, contents |-> [contents EXCEPT !.pk = Pk(contents), !.idx = {}, !.fks = {}]]>>
DropTable(t)     == <<[op |-> "dropTable", table |-> t]>>

\* The nearest column before name, in the order of the entity, that is not skipped.
Behind(cols, name, skipped) ==
    LET before_ == {i \in 1..(Place(cols, name) - 1) : cols[i].name \notin skipped}
    IN IF before_ = {} THEN "first" ELSE cols[CHOOSE i \in before_ : \A j \in before_ : j <= i].name

DropKeys(t, e, d) ==
    ForEach(SetToSeq(d.fks \ e.fks), LAMBDA fk : DropFk(t, fk))
        \o ForEach(SetToSeq(d.idx \ e.idx), LAMBDA x : DropIndex(t, x))

AddIndexes(t, e, d) == ForEach(SetToSeq(e.idx \ d.idx), LAMBDA x : AddIndex(t, x))
AddFks(t, e, d)     == ForEach(SetToSeq(e.fks \ d.fks), LAMBDA fk : AddFk(t, fk))
DropColumns(t, e, d, renames) == ForEach(Removed(e, d, renames), LAMBDA c : Drop(t, c.name))
NewPk(t, e, changed) == If(changed /\ Pk(e) # <<>>, AddPk(t, Pk(e)))

\* What counts by itself has to be in a key, so it stops counting while there is none.
MySqlTable(t, e, d, renames) ==
    LET pk       == PkChanged(e, d, renames)
        rekeyed  == pk /\ Pk(d) # <<>>
        mods     == Modified(e, d, renames)
        moves    == Reordered(e, d, renames)
        added    == Added(e, d, renames)
        position(name) == IF name \in DOMAIN moves THEN moves[name] ELSE "keep"
        counted(c) == c.auto /\ c.name \in ToSet(d.pk)
        modStrip == SelectSeq(mods, LAMBDA m : counted(m.old))
        dropStrip == SelectSeq(Removed(e, d, renames), counted)
        handled  == {modStrip[i].old.name : i \in DOMAIN modStrip} \cup NameSet(dropStrip)
        \* <<name in the database, column of the entity>>
        staying  == SelectSeq(Pk(d), LAMBDA n :
                        /\ n \notin handled /\ Has(e.cols, NewName(renames, n))
                        /\ Named(e.cols, NewName(renames, n)).auto)
        entity(n) == Named(e.cols, NewName(renames, n))
        later(m) == m.new.auto /\ (m.new.auto # m.old.auto \/ pk)
        inPlace  == SelectSeq(mods, LAMBDA m : m.new.name \notin DOMAIN renames)
        done     == DOMAIN renames \cup NameSet(added) \cup {mods[i].new.name : i \in DOMAIN mods}
        renamed  == Renamed(e, renames)
    IN DropKeys(t, e, d)
       \o If(rekeyed,
             ForEach(modStrip, LAMBDA m : Modify(t, Plain(m.old), "keep"))
             \o ForEach(dropStrip, LAMBDA c : Modify(t, Plain(c), "keep"))
             \o ForEach(staying, LAMBDA n : Modify(t, [Plain(entity(n)) EXCEPT !.name = n], "keep"))
             \o DropPk(t))
       \o DropColumns(t, e, d, renames)
       \o ForEach(renamed, LAMBDA c :
             <<[op |-> "change", table |-> t, name |-> renames[c.name], after |-> Behind(e.cols, c.name, NameSet(added)),
                col |-> IF pk THEN Plain(c) ELSE c]>>)
       \o ForEach(SelectSeq(inPlace, LAMBDA m : ~later(m)), LAMBDA m : Modify(t, m.new, position(m.new.name)))
       \o ForEach(added, LAMBDA c : Add(t, Plain(c), Behind(e.cols, c.name, {})))
       \o ForEach(SelectSeq(e.cols, LAMBDA c : c.name \in DOMAIN moves \ done), LAMBDA c :
             Modify(t, c, position(c.name)))
       \o NewPk(t, e, pk)
       \o ForEach(SelectSeq(inPlace, later), LAMBDA m : Modify(t, m.new, position(m.new.name)))
       \o ForEach(SelectSeq(added \o If(pk, renamed), LAMBDA c : c.auto), LAMBDA c : Modify(t, c, "keep"))
       \o If(rekeyed, ForEach(staying, LAMBDA n : Modify(t, entity(n), "keep")))
       \o AddIndexes(t, e, d) \o AddFks(t, e, d)

PostgresTable(t, e, d, renames) ==
    LET pk   == PkChanged(e, d, renames)
        mods == Modified(e, d, renames)
    IN DropKeys(t, e, d)
       \o If(pk /\ Pk(d) # <<>>, DropPk(t))
       \o DropColumns(t, e, d, renames)
       \o ForEach(Renamed(e, renames), LAMBDA c : Rename(t, renames[c.name], c.name))
       \o ForEach(mods, LAMBDA m : If(m.new.type # m.old.type, SetType(t, m.new)))
       \o ForEach(mods, LAMBDA m : If(m.new.auto # m.old.auto, SetAuto(t, m.new)))
       \o ForEach(Added(e, d, renames), LAMBDA c : Add(t, c, "keep"))
       \o NewPk(t, e, pk) \o AddIndexes(t, e, d) \o AddFks(t, e, d)

\* Schema.alter() with what renderAlterBlock() wrote.  On Postgres change() sets the type and,
\* for want of another default, drops the one a counting column has.
BuilderTable(t, e, d, renames) ==
    LET pk    == PkChanged(e, d, renames)
        added == Added(e, d, renames)
        behind(c) == IF dialect = "mysql" THEN Behind(e.cols, c.name, NameSet(added)) ELSE "keep"
        change(c) == IF dialect = "mysql" THEN Modify(t, c, "keep")
                     ELSE SetType(t, c) \o SetAuto(t, Plain(c))
    IN DropKeys(t, e, d)
       \o If(pk /\ Pk(d) # <<>>, DropPk(t))
       \o DropColumns(t, e, d, renames)
       \o ForEach(Renamed(e, renames), LAMBDA c : Rename(t, renames[c.name], c.name))
       \o ForEach(added, LAMBDA c : Add(t, c, behind(c)))
       \o ForEach(Modified(e, d, renames), LAMBDA m : change(m.new))
       \o NewPk(t, e, pk) \o AddIndexes(t, e, d)

\* The whole migration.
Statements(ent, old, answers) ==
    LET added   == SetToSeq(DOMAIN ent \ DOMAIN old)
        removed == SetToSeq(DOMAIN old \ DOMAIN ent)
        both    == SetToSeq(DOMAIN ent \cap DOMAIN old)
        create  == ForEach(added, LAMBDA t :
            CreateTable(t, ent[t]) \o ForEach(SetToSeq(ent[t].idx), LAMBDA x : AddIndex(t, x)))
        addFks  == ForEach(added, LAMBDA t : ForEach(SetToSeq(ent[t].fks), LAMBDA fk : AddFk(t, fk)))
        dropFks == ForEach(removed, LAMBDA t : ForEach(SetToSeq(old[t].fks), LAMBDA fk : DropFk(t, fk)))
        drop    == ForEach(removed, DropTable)
    IN IF way = "raw"
       THEN create
            \o ForEach(both, LAMBDA t : IF dialect = "mysql"
                                        THEN MySqlTable(t, ent[t], old[t], answers[t])
                                        ELSE PostgresTable(t, ent[t], old[t], answers[t]))
            \o addFks \o dropFks \o drop
       ELSE drop \o create
            \o ForEach(both, LAMBDA t : BuilderTable(t, ent[t], old[t], answers[t]))
            \o addFks \o ForEach(both, LAMBDA t : AddFks(t, ent[t], old[t]))

-----------------------------------------------------------------------------
(* The database (external): what it accepts, and what becomes of it. *)

Referenced(t) == \E u \in DOMAIN db \ {t} : \E fk \in db[u].fks : fk.ref = t

\* A column may count only if a key starts with it, and only one may.
WellKeyed(table) ==
    dialect = "mysql" =>
        \A i \in DOMAIN table.cols : table.cols[i].auto =>
            /\ table.cols[i].name \in table.idx \/ (table.pk # <<>> /\ Head(table.pk) = table.cols[i].name)
            /\ \A j \in DOMAIN table.cols : table.cols[j].auto => i = j

\* The table after a statement of ALTER TABLE or about an index.
After(table, s) ==
    LET was(name) == Named(table.cols, name)
        renamed(c) == [i \in DOMAIN table.cols |-> IF table.cols[i].name = s.name THEN c ELSE table.cols[i]]
        to(name, new) == IF name = s.name THEN new ELSE name
        rekey(cols, new) ==
            [cols |-> cols, pk |-> [i \in DOMAIN table.pk |-> to(table.pk[i], new)],
             idx |-> {to(x, new) : x \in table.idx},
             fks |-> {[fk EXCEPT !.col = to(@, new)] : fk \in table.fks}]
    IN CASE s.op = "dropFk"    -> [table EXCEPT !.fks = @ \ {s.fk}]
         [] s.op = "addFk"     -> [table EXCEPT !.fks = @ \cup {s.fk}]
         [] s.op = "dropIndex" -> [table EXCEPT !.idx = @ \ {s.index}]
         [] s.op = "addIndex"  -> [table EXCEPT !.idx = @ \cup {s.index}]
         [] s.op = "dropPk"    -> [table EXCEPT !.pk = <<>>]
         [] s.op = "addPk"     -> [table EXCEPT !.pk = s.names]
         [] s.op = "drop"      -> [table EXCEPT !.cols = SelectSeq(@, LAMBDA o : o.name # s.name),
                                                !.pk = SelectSeq(@, LAMBDA n : n # s.name),
                                                !.idx = @ \ {s.name}]
         [] s.op = "rename"    -> rekey(renamed([was(s.name) EXCEPT !.name = s.to]), s.to)
         [] s.op = "change"    -> rekey(Put(renamed(s.col), s.col, s.after), s.col.name)
         [] s.op = "type"      -> [table EXCEPT !.cols = Put(@, [was(s.col.name) EXCEPT !.type = s.col.type], "keep")]
         [] s.op = "auto"      -> [table EXCEPT !.cols = Put(@, [was(s.col.name) EXCEPT !.auto = s.col.auto], "keep")]
         [] s.op \in {"add", "modify"} -> [table EXCEPT !.cols = Put(@, s.col, s.after)]

\* Whether what a statement names is there, and what it makes is not.
Possible(s) ==
    LET table == db[s.table]
        has(name) == Has(table.cols, name)
    IN CASE s.op = "create"    -> s.table \notin DOMAIN db
         [] s.op = "dropTable" -> ~Referenced(s.table)
         [] s.op = "dropFk"    -> s.fk \in table.fks
         [] s.op = "addFk"     -> has(s.fk.col) /\ s.fk.ref \in DOMAIN db /\ db[s.fk.ref].pk # <<>>
         [] s.op = "dropIndex" -> s.index \in table.idx /\ (dialect = "mysql" => \A fk \in table.fks : fk.col # s.index)
         [] s.op = "addIndex"  -> has(s.index) /\ s.index \notin table.idx
         [] s.op = "dropPk"    -> table.pk # <<>> /\ ~Referenced(s.table)
         [] s.op = "addPk"     -> table.pk = <<>> /\ \A i \in DOMAIN s.names : has(s.names[i])
         [] s.op = "drop"      -> has(s.name) /\ (dialect = "mysql" => Len(table.cols) > 1) /\ \A fk \in table.fks : fk.col # s.name
         [] s.op = "rename"    -> has(s.name) /\ ~has(s.to)
         [] s.op = "change"    -> has(s.name) /\ ~has(s.col.name)
                                  /\ s.after \in {"first", "keep"} \cup (NameSet(table.cols) \ {s.name})
         [] s.op = "add"       -> ~has(s.col.name) /\ s.after \in {"first", "keep"} \cup NameSet(table.cols)
         [] OTHER              -> has(s.col.name)
                                  /\ s.after \in {"first", "keep"} \cup (NameSet(table.cols) \ {s.col.name})

Effect(s) ==
    CASE s.op = "create"    -> [t \in DOMAIN db \cup {s.table} |->
                                   IF t = s.table THEN s.contents ELSE db[t]]
      [] s.op = "dropTable" -> [t \in DOMAIN db \ {s.table} |-> db[t]]
      [] OTHER              -> [db EXCEPT ![s.table] = After(@, s)]

Accepts(s) == Possible(s) /\ \A t \in DOMAIN Effect(s) : WellKeyed(Effect(s)[t])

-----------------------------------------------------------------------------
(* Actions. *)

\* Each new column is one of the removed ones under a new name, or not, as the user answers.
Answers(e, d) ==
    LET new == NameSet(e.cols) \ NameSet(d.cols)
        old == NameSet(d.cols) \ NameSet(e.cols)
    IN UNION {Injection(names, old) : names \in SUBSET new}

\* Another order of the columns is no change by itself.
HasChanges(ent, old, answers) ==
    \/ DOMAIN ent # DOMAIN old
    \/ \E t \in DOMAIN ent :
          \/ Added(ent[t], old[t], answers[t]) # <<>> \/ Removed(ent[t], old[t], answers[t]) # <<>>
          \/ Modified(ent[t], old[t], answers[t]) # <<>> \/ answers[t] # <<>>
          \/ ent[t].idx # old[t].idx \/ ent[t].fks # old[t].fks
          \/ PkChanged(ent[t], old[t], answers[t])

\* migration:create, interactive or not.
MakeMigration ==
    /\ stage = "new"
    /\ LET both == DOMAIN entities \cap DOMAIN db
       IN \E answers \in [both -> UNION {Answers(entities[t], db[t]) : t \in both}] :
             /\ \A t \in both : answers[t] \in Answers(entities[t], db[t])
             /\ asked' = answers
             /\ todo' = If(HasChanges(entities, db, answers), Statements(entities, db, answers))
    /\ stage' = "running"
    /\ UNCHANGED <<dialect, way, entities, before, db>>

\* migration:run, one statement at a time; a rejected one ends it.
Execute ==
    /\ stage = "running" /\ todo # <<>>
    /\ IF Accepts(Head(todo))
       THEN db' = Effect(Head(todo)) /\ UNCHANGED stage
       ELSE stage' = "rejected" /\ UNCHANGED db
    /\ todo' = Tail(todo)
    /\ UNCHANGED <<dialect, way, entities, before, asked>>

Finish ==
    /\ stage = "running" /\ todo = <<>>
    /\ stage' = "done"
    /\ UNCHANGED <<dialect, way, entities, before, asked, db, todo>>

Init ==
    /\ dialect \in {"mysql", "postgres"} /\ way \in {"raw", "builder"}
    /\ \E pair \in Pairs : entities = pair[1] /\ before = pair[2]
    /\ asked = <<>> /\ db = before /\ todo = <<>> /\ stage = "new"

Next == MakeMigration \/ Execute \/ Finish

Spec == Init /\ [][Next]_vars

-----------------------------------------------------------------------------
(* Properties. *)

Both == DOMAIN entities \cap DOMAIN before
Gone == DOMAIN before \ DOMAIN entities

\* Columns drop before others come, and MySQL does not let the last one go.
KeepsAColumn(t) == Len(Removed(entities[t], before[t], asked[t])) < Len(before[t].cols)

\* An index is dropped while a foreign key that stays needs it.
KeepsIndexes(t) == \A fk \in entities[t].fks \cap before[t].fks : fk.col \notin before[t].idx \ entities[t].idx

\* Raw: a column that only moves counts all the time, and moves while there is no key.
CountsInTime(t) ==
    LET e == entities[t]
        d == before[t]
    IN PkChanged(e, d, asked[t]) =>
           \A c \in ToSet(e.cols) \cap ToSet(d.cols) : c.auto => c.name \notin DOMAIN Reordered(e, d, asked[t])

\* Builder: DROP PRIMARY KEY leaves a column counting, and ADD and MODIFY make one count before
\* the new key is there.
NothingCounts(t) ==
    PkChanged(entities[t], before[t], asked[t]) =>
        \A c \in ToSet(entities[t].cols) \cup ToSet(before[t].cols) : ~c.auto

\* Builder: removed tables drop first, also those that foreign keys refer to.
NothingRefers == \A t \in Gone, u \in DOMAIN before : u # t => \A fk \in before[u].fks : fk.ref # t

\* The differences whose migration no database rejects.
Ordinary ==
    /\ way = "builder" => NothingRefers
    /\ dialect = "mysql" => \A t \in Both :
           KeepsAColumn(t) /\ KeepsIndexes(t) /\ IF way = "raw" THEN CountsInTime(t) ELSE NothingCounts(t)

\* The migration of an ordinary difference runs to its end, raw or builder: what a statement needs is
\* there, and what it removes is needed by nothing, the counting column included
\* (ddl-generator.ts, builder-regenerator.ts, Schema.ts).
Accepted == stage = "rejected" => ~Ordinary

\* change() of the builder leaves nothing counting in Postgres.
StopCounting(t) ==
    IF way = "builder" /\ dialect = "postgres" /\ t \in Both
    THEN {m.new.name : m \in ToSet(Modified(entities[t], before[t], asked[t]))} ELSE {}

SameTable(t) ==
    /\ ToSet(db[t].cols) = {IF c.name \in StopCounting(t) THEN Plain(c) ELSE c : c \in ToSet(entities[t].cols)}
    /\ ToSet(db[t].pk) = ToSet(entities[t].pk)
    /\ db[t].idx = entities[t].idx /\ db[t].fks = entities[t].fks

InOrder(t) == Names(db[t].cols) = Names(entities[t].cols)

Moved(t) == DOMAIN Reordered(entities[t], before[t], asked[t]) # {}

\* The order of the columns is new, something else is too, but no column is.
OnlyMoved(t) == ToSet(before[t].cols) = ToSet(entities[t].cols) /\ HasChanges(entities, before, asked)

\* The builder puts two new columns behind the same one.
Reversed(t) ==
    LET added == Added(entities[t], before[t], asked[t])
        behind(c) == Behind(entities[t].cols, c.name, NameSet(added))
    IN \E c, o \in ToSet(added) : c # o /\ behind(c) = behind(o)

\* Raw, an order that has to change together with the columns, or alone, may become another one;
\* the builder leaves the columns that stay as they were.
Misplaced(t) == IF way = "raw" THEN Moved(t) /\ ~OnlyMoved(t) ELSE Moved(t) \/ Reversed(t)

\* A migration that ran to its end has made the database what the entities declare, but for what
\* StopCounting names, in MySQL with their order of columns unless Misplaced
\* (comparator.ts, MigrationCreateCommand.ts).
BecomesEntities ==
    stage = "done" =>
        /\ DOMAIN db = DOMAIN entities
        /\ \A t \in DOMAIN db : SameTable(t)
        /\ dialect = "mysql" => \A t \in DOMAIN db : InOrder(t) \/ (t \in Both /\ Misplaced(t))
=============================================================================
