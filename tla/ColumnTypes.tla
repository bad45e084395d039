----------------------------- MODULE ColumnTypes -----------------------------
(***************************************************************************)
(* The type, nullability and default of one column, on their way from the  *)
(* property of an entity through the migration that creates or changes the *)
(* column, the database, and the reader, back to the comparison of         *)
(* migration:create (src/database/migration/create and schema).            *)
(*                                                                         *)
(* A property declares [kind, note, values, min, max, name, nullable,      *)
(* auto, init, onUpdate]: its TypeScript type, at most one annotation, the *)
(* values of a string enum, the range of a number enum, whether its name   *)
(* looks like an "id" or has "capitals", and its initializer.  Types are   *)
(* written in lower case.  Positions, indexes and keys are SchemaDiff's.   *)
(***************************************************************************)
EXTENDS Integers, Sequences, FiniteSets, TLC

CONSTANTS
    Declared    \* what properties declare

VARIABLES
    dialect,    \* "mysql" or "postgres"
    way,        \* "raw" or "builder": how the migration is written
    property,   \* what the entity's property declares
    column,     \* the column in the database
    stage       \* "declared", "migrated" or "rejected"

vars == <<dialect, way, property, column, stage>>

None    == -1
Missing == [name |-> "missing"]

-----------------------------------------------------------------------------
(* The entity's column. *)

Sized(type, size) ==
    [type |-> type, size |-> size, scale |-> None, unsigned |-> FALSE, values |-> {}, typeName |-> ""]
Plain(type)    == Sized(type, None)
Unsigned(type) == [Plain(type) EXCEPT !.unsigned = TRUE]

NoDefault   == [kind |-> "none", text |-> ""]
Value(text) == [kind |-> "value", text |-> text]
Now         == [kind |-> "expression", text |-> "CURRENT_TIMESTAMP"]

ResolvePrimitive(p) ==
    LET mysql == dialect = "mysql" IN
    CASE p.kind = "string"  -> Sized("varchar", 255)
      [] p.kind = "number"  -> IF mysql /\ p.name = "id" THEN Unsigned("int") ELSE Plain("int")
      [] p.kind = "boolean" -> IF mysql THEN Sized("tinyint", 1) ELSE Plain("boolean")
      [] p.kind = "bigint"  -> Plain("bigint")
      [] p.kind = "Date"    -> IF mysql THEN Plain("datetime") ELSE Plain("timestamp")
      [] p.kind = "bytes"   -> IF mysql THEN Plain("blob") ELSE Plain("bytea")
      [] p.kind = "object"  -> IF mysql THEN Plain("json") ELSE Plain("jsonb")
      [] p.kind = "Coordinate" -> Plain("point")

ResolveEnum(p) ==
    LET typeName == IF p.name = "capitals" THEN "t_aB" ELSE "t_c"
    IN [Plain("enum") EXCEPT !.values = p.values, !.typeName = IF dialect = "postgres" THEN typeName ELSE ""]

ResolveNumbers(p) ==
    IF dialect = "mysql"
    THEN CASE p.min >= 0 /\ p.max <= 255      -> Unsigned("tinyint")
           [] p.min < 0 /\ p.min >= -128 /\ p.max <= 127 -> Plain("tinyint")
           [] p.min >= 0 /\ p.max > 255 /\ p.max <= 65535 -> Unsigned("smallint")
           [] OTHER -> Plain("int")
    ELSE IF p.min >= -32768 /\ p.max <= 32767 THEN Plain("smallint") ELSE Plain("int")

DksfTypes == [uuid |-> Sized("char", 36), date |-> Plain("date"), phone |-> Sized("varchar", 20)]

\* An annotation stands before the type it annotates.
ResolveColumnType(p) ==
    CASE p.note \in DOMAIN DksfTypes -> DksfTypes[p.note]
      [] p.note = "UUIDv4" -> IF dialect = "mysql" THEN Sized("binary", 16) ELSE Plain("uuid")
      [] p.note = "length" -> Sized("char", 2)
      [] p.note = "max"    -> Sized("varchar", 50)
      [] p.note = "none"   -> CASE p.kind = "strings" -> ResolveEnum(p)
                                [] p.kind = "numbers" -> ResolveNumbers(p)
                                [] OTHER -> ResolvePrimitive(p)
      [] OTHER -> Plain(p.note)      \* the type given for the database, as it is

ReadDefault(p) ==
    CASE p.auto \/ p.init = "" -> NoDefault
      [] p.kind = "Date"    -> Now
      [] p.kind = "boolean" -> Value(IF dialect = "postgres" THEN p.init ELSE IF p.init = "true" THEN "1" ELSE "0")
      [] OTHER              -> Value(p.init)

ReadColumn(p) ==
    ResolveColumnType(p) @@
        [nullable |-> p.nullable, auto |-> p.auto, default |-> ReadDefault(p),
         onUpdate |-> p.onUpdate /\ dialect = "mysql"]

-----------------------------------------------------------------------------
(* The builder: renderColumnLine() chooses a method of the blueprint, which makes a column again. *)

\* What the dialect decides.
DialectType(c) ==
    LET mysql == dialect = "mysql" IN
    CASE c.type \in {"datetime", "timestamp"} -> IF mysql THEN Plain("datetime") ELSE Plain("timestamp")
      [] c.type = "timestamptz" -> IF mysql THEN Plain("timestamp") ELSE Plain("timestamptz")
      [] c.type = "uuid" \/ (c.type = "binary" /\ c.size = 16) ->
            IF mysql THEN Sized("binary", 16) ELSE Plain("uuid")
      [] c.type = "binary" /\ c.size # 16 ->
            Sized(IF mysql THEN "binary" ELSE "bytea", IF c.size = None THEN 16 ELSE c.size)
      [] c.type \in {"blob", "bytea"} -> IF mysql THEN Plain("blob") ELSE Plain("bytea")
      [] c.type = "jsonb" -> IF mysql THEN Plain("json") ELSE Plain("jsonb")
      [] c.type = "enum"  -> [Plain("enum") EXCEPT !.values = c.values,
                                 !.typeName = IF c.typeName = "" THEN "t_c_enum" ELSE c.typeName]
      [] OTHER            -> Plain(c.type)

BuilderType(c) ==
    LET sized(n) == IF c.size = None THEN n ELSE c.size IN
    CASE c.type = "varchar"  -> Sized("varchar", sized(255))
      [] c.type = "char"     -> Sized("char", sized(1))
      [] c.type = "tinyint" /\ c.size = 1 -> Plain("boolean")
      [] c.type \in {"int", "integer"} -> Plain("int")
      [] c.type \in {"float", "real"}  -> Plain("float")
      [] c.type \in {"double", "double precision"} -> Plain("double")
      [] c.type \in {"decimal", "numeric"} -> [Sized("decimal", c.size) EXCEPT !.scale = c.scale]
      [] OTHER -> DialectType(c)

BuilderKnows(c) ==
    \/ c.type \in {"varchar", "char", "text", "tinyint", "smallint", "int", "integer", "bigint", "boolean",
                   "float", "real", "double", "double precision", "decimal", "numeric", "date", "datetime",
                   "timestamp", "timestamptz", "binary", "blob", "bytea", "json", "jsonb", "uuid", "enum"}
    \/ c.type = "point" /\ dialect = "mysql"

\* unsigned, nullable, autoIncrement, default and onUpdate go through methods of their own.
Rebuilt(c) == [BuilderType(c) EXCEPT !.unsigned = c.unsigned] @@ c

Written(c) == IF way = "builder" THEN Rebuilt(c) ELSE c

-----------------------------------------------------------------------------
(* The grammars. *)

TypeDef(c) ==
    LET size(n) == IF c.size = None THEN n ELSE c.size
        sql(name, n, scale) == [name |-> name, size |-> n, scale |-> scale]
        decimal(name) == sql(name, c.size, IF c.size = None THEN None ELSE c.scale) IN
    IF dialect = "mysql" THEN
        CASE c.type = "varchar" -> sql("varchar", size(255), None)
          [] c.type = "char"    -> sql("char", size(1), None)
          [] c.type = "binary"  -> sql("binary", size(16), None)
          [] c.type = "tinyint" -> sql("tinyint", IF c.size = 1 THEN 1 ELSE None, None)
          [] c.type = "boolean" -> sql("tinyint", 1, None)
          [] c.type = "decimal" -> decimal("decimal")
          [] OTHER              -> sql(c.type, None, None)
    ELSE
        CASE c.type = "varchar" -> sql("varchar", c.size, None)
          [] c.type = "char"    -> sql("char", size(1), None)
          [] c.type = "int"     -> sql("integer", None, None)
          [] c.type \in {"real", "float"} -> sql("real", None, None)
          [] c.type \in {"double precision", "double"} -> sql("double precision", None, None)
          [] c.type \in {"decimal", "numeric"} -> decimal("numeric")
          [] c.type = "enum"    -> sql(c.typeName, None, None)
          [] OTHER              -> sql(c.type, None, None)
Serial(c) == [name |-> IF c.type = "bigint" THEN "bigint" ELSE "integer", size |-> None, scale |-> None]

NumericTypes ==
    {"tinyint", "smallint", "int", "integer", "bigint", "float", "double", "decimal", "numeric", "real",
     "double precision"}

\* How a default is written: as an expression, bare, or between quotes.
RenderDefault(c) ==
    LET text == c.default.text
        true == text \in {"true", "1"} IN
    CASE c.default.kind = "none"       -> NoDefault
      [] c.default.kind = "expression" -> c.default
      [] c.default.kind = "value" /\ (c.type = "boolean" \/ (dialect = "mysql" /\ c.type = "tinyint" /\ c.size = 1)) ->
            [kind |-> "bare", text |-> IF dialect = "mysql" THEN (IF true THEN "1" ELSE "0")
                                                            ELSE (IF true THEN "true" ELSE "false")]
      [] OTHER -> [kind |-> IF c.type \in NumericTypes THEN "bare" ELSE "quoted", text |-> text]

-----------------------------------------------------------------------------
(* The databases.  A stored column is what information_schema shows of it. *)

\* Types that a property may be given for the database, as MySQL and PostgreSQL read them.
Parsed ==
    [n \in {"varchar(100)", "decimal(10,2)", "int unsigned"} |->
        CASE n = "varchar(100)"  -> [name |-> "varchar", size |-> 100, scale |-> None]
          [] n = "decimal(10,2)" -> [name |-> "decimal", size |-> 10, scale |-> 2]
          [] n = "int unsigned"  -> [name |-> "int", size |-> None, scale |-> None]]

Canonical(name) ==
    LET names == IF dialect = "mysql"
                 THEN [integer |-> "int", numeric |-> "decimal"]
                 ELSE [varchar |-> "character varying", char |-> "character", decimal |-> "numeric", int |-> "integer",
                       timestamp |-> "timestamp without time zone", timestamptz |-> "timestamp with time zone",
                       time |-> "time without time zone"]
    IN IF name \in DOMAIN names THEN names[name] ELSE name

Known(name) ==
    name \in IF dialect = "mysql"
             THEN {"varchar", "char", "text", "mediumtext", "tinyint", "smallint", "int", "bigint", "float", "double",
                   "decimal", "date", "datetime", "timestamp", "time", "binary", "blob", "json", "point", "enum"}
             ELSE {"character varying", "character", "text", "smallint", "integer", "bigint", "real",
                   "double precision", "numeric", "boolean", "date", "timestamp without time zone",
                   "timestamp with time zone", "time without time zone", "bytea", "json", "jsonb", "uuid", "t_c", "t_aB"}

StoredType(sql) ==
    LET parsed == IF sql.name \in DOMAIN Parsed THEN Parsed[sql.name] ELSE sql
        name == Canonical(parsed.name)
        bare == dialect = "mysql" /\ name = "decimal" /\ parsed.size = None
    IN [name |-> name,
        size |-> IF bare THEN 10 ELSE parsed.size,
        scale |-> IF name \in {"decimal", "numeric"} /\ (bare \/ parsed.size # None) /\ parsed.scale = None
                  THEN 0 ELSE parsed.scale]

\* MySQL keeps a default as text; PostgreSQL keeps an expression, in which a string stands between
\* quotes, its own quotes doubled, and has its type behind it.
StoredDefault(c) ==
    LET d == RenderDefault(c) IN
    IF d.kind = "quoted" /\ dialect = "postgres"
    THEN [text |-> IF d.text = "it's" THEN "it''s" ELSE d.text, cast |-> StoredType(TypeDef(c)).name]
    ELSE [text |-> d.text, cast |-> ""]

\* The column that a definition makes.
Stored(c) ==
    LET sql == IF c.auto /\ dialect = "postgres" THEN Serial(c) ELSE TypeDef(c) IN
    StoredType(sql) @@
        [unsigned |-> c.unsigned \/ c.type = "int unsigned",
         values |-> c.values, nullable |-> c.nullable, auto |-> c.auto, onUpdate |-> c.onUpdate,
         default |-> StoredDefault(c)]

\* What the database takes: it knows the type, and the type may have the default.
Takes(c) ==
    LET name == StoredType(TypeDef(c)).name IN
    /\ way = "builder" => BuilderKnows(c)
    /\ Known(name) /\ (dialect = "postgres" => c.type # "int unsigned")
    /\ dialect = "mysql" /\ c.default.kind # "none" => name \notin {"text", "mediumtext", "blob", "json", "point"}
    /\ dialect = "mysql" /\ c.default = Now => name \in {"datetime", "timestamp"}

\* PostgreSQL changes a column's type by itself only within a family, and to a text from anything.
Families ==
    {{"smallint", "integer", "bigint", "real", "double precision", "numeric"},
     {"date", "timestamp without time zone", "timestamp with time zone"}, {"json", "jsonb"}}
CastsItself(from, to) ==
    \/ from = to \/ to \in {"character varying", "character", "text"}
    \/ \E f \in Families : {from, to} \subseteq f

-----------------------------------------------------------------------------
(* The reader. *)

NormalizePostgresType(name) ==
    LET names == ("character varying" :> "varchar") @@ ("character" :> "char") @@ ("integer" :> "int")
                 @@ ("timestamp without time zone" :> "timestamp") @@ ("timestamp with time zone" :> "timestamptz")
    IN IF name \in DOMAIN names THEN names[name] ELSE name

\* Mutant: a boolean is a small integer like any other.
InferSizeOfText(s) == IF s.name \in {"varchar", "char", "binary", "decimal", "character varying", "character", "numeric"} THEN s.size ELSE None

InferSize(s) ==
    IF dialect = "mysql"
    THEN CASE s.name \in {"varchar", "char", "binary", "decimal"} -> s.size
           [] s.name = "tinyint" /\ s.size = 1 -> 1
           [] OTHER -> None
    ELSE IF NormalizePostgresType(s.name) \in {"varchar", "char", "numeric"} THEN s.size ELSE None

\* What looks like an expression is taken for one.  The cast goes, unless capitals put its type
\* between quotes.
ReadBackDefault(s) ==
    LET d == s.default IN
    CASE s.auto \/ d.text = "" -> NoDefault
      [] d.text \in {"CURRENT_TIMESTAMP", "NOW()"} -> [kind |-> "expression", text |-> d.text]
      [] d.text # "" /\ d.cast = "t_aB" -> Value(d.text \o "::" \o d.cast)
      [] OTHER -> Value(d.text)

ReadBack(s) ==
    LET enum == s.values # {}
        name == IF dialect = "mysql" THEN s.name ELSE NormalizePostgresType(s.name) IN
    [type |-> IF enum THEN "enum" ELSE name, size |-> InferSize(s),
     scale |-> IF name \in {"decimal", "numeric"} THEN s.scale ELSE None,
     unsigned |-> s.unsigned, values |-> s.values,
     typeName |-> IF enum /\ dialect = "postgres" THEN s.name ELSE "",
     nullable |-> s.nullable, auto |-> s.auto, default |-> ReadBackDefault(s), onUpdate |-> s.onUpdate]

-----------------------------------------------------------------------------
(* The comparison. *)

NormalizeTypeAlias(type) == IF type = "integer" THEN "int" ELSE IF type = "numeric" THEN "decimal" ELSE type

TypesMatch(e, d) ==
    /\ NormalizeTypeAlias(e.type) = NormalizeTypeAlias(d.type)
    /\ e.size = d.size /\ e.scale = d.scale /\ e.unsigned = d.unsigned
    /\ e.typeName = d.typeName /\ e.values = d.values

NormalizeExpression(text) == IF text = "NOW()" THEN "CURRENT_TIMESTAMP" ELSE text

\* An entity without an initializer says nothing of the default.
DefaultsMatch(e, d) ==
    \/ e.auto \/ d.auto \/ e.default.kind = "none"
    \/ /\ e.default.kind = d.default.kind
       /\ IF e.default.kind = "expression"
          THEN NormalizeExpression(e.default.text) = NormalizeExpression(d.default.text)
          ELSE e.default.text = d.default.text

SameColumn(e, d) ==
    TypesMatch(e, d) /\ DefaultsMatch(e, d) /\ e.nullable = d.nullable /\ e.auto = d.auto /\ e.onUpdate = d.onUpdate

-----------------------------------------------------------------------------
(* The migration. *)

\* PostgreSQL keeps what no statement touches.  The raw statements set what differs, and give an
\* enum back the default that they dropped before they change its type; the builder sets all, but
\* can neither create an enum's cast a second time nor change the type of a counting column.
Altered(c) ==
    LET e == ReadColumn(property)
        d == ReadBack(column)
        new == Stored(c) IN
    IF dialect = "mysql" \/ way = "builder" THEN new
    ELSE [(IF TypesMatch(e, d) THEN column ELSE [new EXCEPT !.default = column.default])
            EXCEPT !.nullable = new.nullable,
                   !.default = IF DefaultsMatch(e, d) THEN column.default ELSE new.default]

Alterable(c) ==
    LET sql == StoredType(TypeDef(c)).name IN
    dialect = "postgres" =>
        /\ way = "raw" => (c.type = "enum" /\ column.values \subseteq c.values)
                          \/ (c.type # "enum" /\ CastsItself(column.name, sql))
        /\ way = "builder" => ~c.auto /\ c.type # "enum" /\ CastsItself(column.name, sql)

\* migration:create writes a migration of what differs, and migration:run runs it.
Migrate ==
    LET c == Written(ReadColumn(property))
        takes == Takes(ReadColumn(property)) /\ (way = "builder" => Takes(c)) IN
    /\ stage = "declared"
    /\ IF column # Missing /\ SameColumn(ReadColumn(property), ReadBack(column))
       THEN stage' = "migrated" /\ UNCHANGED column
       ELSE IF takes /\ (column # Missing => Alterable(c))
       THEN stage' = "migrated" /\ column' = IF column = Missing THEN Stored(c) ELSE Altered(c)
       ELSE stage' = "rejected" /\ UNCHANGED column
    /\ UNCHANGED <<dialect, way, property>>

\* The column does not exist, or is of a property that was declared otherwise.
Init ==
    /\ dialect \in {"mysql", "postgres"}
    /\ way \in {"raw", "builder"}
    /\ stage = "declared"
    /\ \E auto \in BOOLEAN : LET alike == {p \in Declared : p.auto = auto} IN
        /\ column \in {Missing} \cup {Stored(Written(ReadColumn(p))) :
                p \in {q \in alike : Takes(ReadColumn(q)) /\ Takes(Written(ReadColumn(q)))}}
        /\ property \in alike

Next == Migrate

Spec == Init /\ [][Next]_vars

-----------------------------------------------------------------------------
(* Properties. *)

\* What the comparison gets wrong: a type annotated with arguments is never split into type and
\* size; some names differ between what is written and what is read; and so do some defaults.
Ordinary(p) ==
    /\ p.note \notin DOMAIN Parsed
    /\ p.init # "NOW()"
    /\ IF dialect = "mysql"
       THEN p.note # "decimal" /\ (way = "builder" => p.note # "timestamp")
       ELSE /\ p.note \notin {"float", "double", "time"}
            /\ p.init # "it's"
            /\ p.kind = "strings" /\ p.name = "capitals" => p.init = ""

\* Once its migration has run, migration:create finds nothing more to do about a column: else
\* every call writes the same migration again (compareColumn of what the readers make of it).
NothingLeft ==
    stage = "migrated" /\ Ordinary(property) => SameColumn(ReadColumn(property), ReadBack(column))
=============================================================================
