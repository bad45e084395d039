------------------------------ MODULE MCParts ------------------------------
(***************************************************************************)
(* Instances of Transactions, Worker, Migrations, SchemaDiff, ColumnTypes, *)
(* Keys, DevConsole, ReplPage, HttpRequests, Upgrades, ClientMeta,         *)
(* MeshNodes, DevBuild and TestIsolation.  They do not touch one another's *)
(* state, so each behaviour is one of a single part, chosen at the start;  *)
(* the others stay as they are.                                            *)
(***************************************************************************)
EXTENDS MeshNodes, Sequences, Functions

CONSTANTS
    Part,           \* the parts to check
    Txn, MaxHooks, Runner, Job, MaxTerms, MaxLost, Run, Files,
    SameProcess,    \* the transactions are all of one process
    MaxColumns,     \* columns of a table
    Topics, Capacity, MaxThings, MaxSockets, MaxUnread, MaxSpent,
    MaxStreams, MaxChanges, MaxUpdates,
    Proc, Retries,
    TestTxn, MaxTests, MaxWrites, MaxErrors

VARIABLES
    part,
    dialect, txn, stored, row, owner, prepared,
    job, runner, running, recorder, rows, missed, terms, lost,
    run, table, executed, applied, partial, repeated, cron,
    way, entities, before, asked, db, todo, stage,
    property, column, typeStage,
    topic, made, ring, kept, live, doing, sock, browser, view, spent,
    text, popup, timer, items, commands, recalled, busy, results, evals, online,
    request, route, at, chain, error, reply, res, corsHeaders, kernel, cache, loads, given, validated,
    listeners, handler, closed, target, heard, socket, verifying, opened,
    streams, keptMeta, entry, metaChain, pipe, kicks, updates, changes, raced,
    entity, keysBefore, keys, keyStage,
    step, retries, read, lock, state, filling, killed, doubt,
    phase, base, seen, saves, aborted, test, txns, writes, errors

-----------------------------------------------------------------------------
(* Schemas.  One table of up to MaxColumns columns, those of the entity in the order of their     *)
(* names and those of the database in any; or two tables with foreign keys and an index.          *)

ColumnName == {"a", "b", "c"}

Kinds == [type : {"t", "u"}, pk : {FALSE}, auto : {FALSE}] \cup [type : {"t"}, pk : {TRUE}, auto : BOOLEAN]

TableOf(columns, kinds) ==
    [cols |-> [i \in DOMAIN columns |-> [name |-> columns[i], type |-> kinds[i].type, auto |-> kinds[i].auto]],
     pk   |-> SelectSeq(columns, LAMBDA n : \E i \in DOMAIN columns : columns[i] = n /\ kinds[i].pk),
     idx  |-> {}, fks |-> {}]

\* What counts is the first column of the key, as MySQL demands.
CountsFirst(t) == \A i \in DOMAIN t.cols : t.cols[i].auto => t.cols[i].name = t.pk[1]

TablesOver(orders) ==
    {t \in UNION {{TableOf(columns, kinds) : kinds \in [DOMAIN columns -> Kinds]} : columns \in orders} : CountsFirst(t)}

InNameOrder == {SubSeq(<<"a", "b", "c">>, 1, n) : n \in 1..MaxColumns}
InAnyOrder ==
    {columns \in UNION {[1..n -> ColumnName] : n \in 1..MaxColumns} : IsInjective(columns)}

OneTable ==
    {<<[p \in {"p"} |-> e], [p \in {"p"} |-> d]>> : e \in TablesOver(InNameOrder), d \in TablesOver(InAnyOrder)}

Id   == [name |-> "a", type |-> "t", auto |-> TRUE]
Link == [name |-> "b", type |-> "t", auto |-> FALSE]

Linked ==
    {[cols |-> <<Id>>, pk |-> <<"a">>, idx |-> {}, fks |-> {}]}
    \cup [cols : {<<Id, Link>>}, pk : {<<"a">>}, idx : {{}, {"b"}}, fks : SUBSET [col : {"b"}, ref : {"p", "q"}]]

Closed(tables) == \A t \in DOMAIN tables : \A fk \in tables[t].fks : fk.ref \in DOMAIN tables
TwoTables == {some \in UNION {[tables -> Linked] : tables \in SUBSET {"p", "q"}} : Closed(some)}

\* The same columns in another order, and a new index.
MovedTable ==
    {<<[p \in {"p"} |-> [pair[1] EXCEPT !.idx = {"a"}]], [p \in {"p"} |-> pair[2]]>> :
        pair \in {some \in TablesOver(InNameOrder) \X TablesOver(InAnyOrder) :
                     Range(some[1].cols) = Range(some[2].cols)}}

SomeSchemas == OneTable \cup MovedTable \cup (TwoTables \X TwoTables)

-----------------------------------------------------------------------------
(* Properties of an entity. *)

Property(kind, note) ==
    [kind |-> kind, note |-> note, values |-> {}, min |-> 0, max |-> 0, name |-> "plain",
     nullable |-> FALSE, auto |-> FALSE, init |-> "", onUpdate |-> FALSE]

Typed ==
    {Property("string", n) : n \in {"none", "uuid", "date", "phone", "UUIDv4", "length", "max", "text",
                                    "mediumtext", "varchar(100)"}}
    \cup {Property("number", n) : n \in {"none", "float", "double", "decimal", "decimal(10,2)", "int unsigned"}}
    \cup {Property(k, "none") : k \in {"boolean", "bigint", "Date", "bytes", "object", "Coordinate"}}
    \cup {Property("Date", n) : n \in {"timestamp", "timestamptz", "time"}}
    \cup {[Property("strings", "none") EXCEPT !.values = v, !.name = n] :
            v \in {{"x"}, {"x", "y"}}, n \in {"plain", "capitals"}}
    \cup {[Property("numbers", "none") EXCEPT !.min = r[1], !.max = r[2]] :
            r \in {<<0, 255>>, <<-128, 127>>, <<0, 256>>, <<-129, 1>>, <<0, 65536>>}}

Initializers(p) ==
    CASE p.kind = "string" /\ p.note \in {"none", "max", "text"} -> {"s", "it's", "NOW()"}
      [] p.kind = "number"  -> {"0", "-1"}
      [] p.kind = "boolean" -> {"true", "false"}
      [] p.kind = "Date"    -> {"now"}
      [] p.kind = "strings" -> {"x"}
      [] OTHER              -> {}

Properties ==
    {[p EXCEPT !.nullable = n] : p \in Typed, n \in BOOLEAN}
    \cup UNION {{[p EXCEPT !.init = i] : i \in Initializers(p)} : p \in Typed}
    \cup {[Property(k, "none") EXCEPT !.name = "id", !.auto = a] : k \in {"number", "bigint"}, a \in BOOLEAN}
    \cup {[Property("Date", "none") EXCEPT !.onUpdate = TRUE]}

-----------------------------------------------------------------------------
(* Indexes and references.  `g` holds coordinates, `bId` is named like an id. *)

Index(cols, name, unique) == [cols |-> cols, name |-> name, unique |-> unique, spatial |-> FALSE]

PlainIndexes == {Index(cols, "", FALSE) : cols \in {<<"a">>, <<"bId">>, <<"a", "bId">>, <<"bId", "a">>}}
SomeIndexes ==
    PlainIndexes \cup {Index(<<"a">>, "", TRUE), Index(<<"a">>, "n", FALSE), Index(<<"bId">>, "n", FALSE)}
    \cup {[Index(<<"g">>, "", FALSE) EXCEPT !.spatial = s] : s \in BOOLEAN}

Refers(prop, pks, key, onDelete) == {[prop |-> prop, pks |-> pks, key |-> key, onDelete |-> onDelete]}

SomeRefs ==
    {{}} \cup {Refers(p, 1, k, "") : p \in {"a", "bId"}, k \in {"number", "uuid"}}
    \cup {Refers("a", n, "uuid", o) : n \in {1, 2}, o \in {"RESTRICT", "NO ACTION", "SET DEFAULT"}}

WithKeys == [refs : SomeRefs, indexes : {s \in UNION {[1..n -> SomeIndexes] : n \in 0..2} : IsInjective(s)}]
WithKeysEarlier ==
    [refs : {{}, Refers("a", 1, "uuid", ""), Refers("a", 1, "uuid", "RESTRICT"), Refers("bId", 1, "number", "")},
     indexes : {<<>>} \cup {<<x>> : x \in PlainIndexes \cup {Index(<<"a">>, "", TRUE)}}]

-----------------------------------------------------------------------------
(* Requests. *)

SomeMiddlewares == {<<>>, <<"auth">>, <<"http", "auth">>, <<"auth", "plain">>}
AllWants == {"nothing", "jwt", "jwt?", "user", "user?"}

Servers == {"first", "second"}

-----------------------------------------------------------------------------
\* The names of savepoints are told apart, and a row that no transaction wrote.
ASSUME TestAssumption == TestTxn \cap {"after_seed", "none", "seed"} = {}

\* Bounds of Worker.
ASSUME BoundsAssumption == MaxTerms \in Nat /\ MaxLost \in Nat

OfProcess == [t \in Txn |-> IF SameProcess THEN "p" ELSE t]

T == INSTANCE Transactions WITH ProcessOf <- OfProcess
W == INSTANCE Worker WITH MaxFailures <- MaxLost, failures <- lost
M == INSTANCE Migrations
S == INSTANCE SchemaDiff WITH Pairs <- SomeSchemas
C == INSTANCE ColumnTypes WITH Declared <- Properties, stage <- typeStage
D == INSTANCE DevConsole
G == INSTANCE ReplPage WITH Code <- {"x", "two lines"}, Multiline <- {"two lines"}, MaxItems <- 2, MaxCommands <- 2,
                            MaxAsked <- 1, asked <- items, running <- busy
H == INSTANCE HttpRequests WITH Middlewares <- SomeMiddlewares, Wants <- AllWants
U == INSTANCE Upgrades WITH Server <- Servers, PathOf <- [s \in Servers |-> "/srpc"],
                            Kinds <- {"at once", "later", "destroys"}

E == INSTANCE ClientMeta WITH Node <- {"a", "b"}, Field <- {"x"}, Value <- {0, 1}, kept <- keptMeta, chain <- metaChain

K == INSTANCE Keys WITH Declared <- WithKeys, Earlier <- WithKeysEarlier, IdColumns <- {"id", "bId"},
                        Points <- {"g"}, before <- keysBefore, stage <- keyStage
B == INSTANCE DevBuild WITH crashes <- killed
I == INSTANCE TestIsolation

tvars == <<txn, stored, row, owner, prepared>>
wvars == <<job, runner, running, recorder, rows, missed, terms, lost>>
mvars == <<run, table, executed, applied, partial, repeated, cron>>
svars == <<entities, before, asked, db, todo, stage>>
cvars == <<property, column, typeStage>>
dvars == <<topic, made, ring, kept, live, doing, sock, browser, view, spent>>
gvars == <<text, popup, timer, items, commands, recalled, busy, results, evals, online>>
hvars == <<request, route, at, chain, error, reply, res, corsHeaders, kernel, cache, loads, given, validated>>
uvars == <<listeners, handler, closed, target, heard, socket, verifying, opened>>
evars == <<streams, keptMeta, entry, metaChain, pipe, kicks, updates, changes, raced>>
kvars == <<entity, keysBefore, keys, keyStage>>
bvars == <<step, retries, read, lock, state, filling, killed, doubt>>
ivars == <<phase, base, seen, saves, aborted, test, txns, writes, errors>>
allVars == <<part, dialect, way, tvars, wvars, mvars, svars, cvars, dvars, gvars, hvars, uvars, evars, kvars, vars, bvars, ivars>>

NoSchemas == entities = <<>> /\ before = <<>> /\ asked = <<>> /\ db = <<>> /\ todo = <<>> /\ stage = "new"
NoKeys    == entity = <<>> /\ keysBefore = <<>> /\ keys = <<>> /\ keyStage = "declared"
NoColumn  == property = Property("string", "none") /\ column = C!Missing /\ typeStage = "declared"

PartsInit ==
    /\ part \in Part
    /\ T!Init /\ W!Init /\ M!Init
    /\ part # "transactions" => row = "absent" /\ prepared = [p \in T!Process |-> "no"]
    /\ part \notin {"transactions", "schema", "types", "keys", "tests"} => dialect = "mysql"
    /\ part # "migrations" => ~table /\ ~cron
    /\ way \in IF part \in {"schema", "types"} THEN {"raw", "builder"} ELSE {"raw"}
    /\ D!Init
    /\ part # "console" => topic = CHOOSE t \in Topics : TRUE
    /\ G!Init /\ H!Init /\ U!Init /\ E!Init /\ Init /\ B!Init /\ I!Init
    /\ part # "repl" => online
    /\ part # "http" => request = [origin |-> "other", method |-> "GET", verify |-> TRUE]
    /\ IF part = "schema" THEN S!Init ELSE NoSchemas
    /\ IF part = "types" THEN C!Init ELSE NoColumn
    /\ IF part = "keys" THEN K!Init ELSE NoKeys

PartsNext ==
    /\ part' = part
    /\ \/ part = "transactions" /\ T!Next
          /\ UNCHANGED <<way, wvars, mvars, svars, cvars, dvars, gvars, hvars, uvars, evars, kvars, vars, bvars, ivars>>
       \/ part = "worker" /\ W!Next
          /\ UNCHANGED <<dialect, way, tvars, mvars, svars, cvars, dvars, gvars, hvars, uvars, evars, kvars, vars, bvars, ivars>>
       \/ part = "migrations" /\ M!Next
          /\ UNCHANGED <<dialect, way, tvars, wvars, svars, cvars, dvars, gvars, hvars, uvars, evars, kvars, vars, bvars, ivars>>
       \/ part = "schema" /\ S!Next
          /\ UNCHANGED <<tvars, wvars, mvars, cvars, dvars, gvars, hvars, uvars, evars, kvars, vars, bvars, ivars>>
       \/ part = "types" /\ C!Next
          /\ UNCHANGED <<tvars, wvars, mvars, svars, dvars, gvars, hvars, uvars, evars, kvars, vars, bvars, ivars>>
       \/ part = "keys" /\ K!Next
          /\ UNCHANGED <<way, tvars, wvars, mvars, svars, cvars, dvars, gvars, hvars, uvars, evars, vars, bvars, ivars>>
       \/ part = "console" /\ D!Next
          /\ UNCHANGED <<dialect, way, tvars, wvars, mvars, svars, cvars, gvars, hvars, uvars, evars, kvars, vars, bvars, ivars>>
       \/ part = "repl" /\ G!Next
          /\ UNCHANGED <<dialect, way, tvars, wvars, mvars, svars, cvars, dvars, hvars, uvars, evars, kvars, vars, bvars, ivars>>
       \/ part = "http" /\ H!Next
          /\ UNCHANGED <<dialect, way, tvars, wvars, mvars, svars, cvars, dvars, gvars, uvars, evars, kvars, vars, bvars, ivars>>
       \/ part = "upgrades" /\ U!Next
          /\ UNCHANGED <<dialect, way, tvars, wvars, mvars, svars, cvars, dvars, gvars, hvars, evars, kvars, vars, bvars, ivars>>
       \/ part = "metadata" /\ E!Next
          /\ UNCHANGED <<dialect, way, tvars, wvars, mvars, svars, cvars, dvars, gvars, hvars, uvars, kvars, vars, bvars, ivars>>
       \/ part = "devbuild" /\ B!Next
          /\ UNCHANGED <<dialect, way, tvars, wvars, mvars, svars, cvars, dvars, gvars, hvars, uvars, evars, kvars, vars, ivars>>
       \/ part = "tests" /\ I!Next
          /\ UNCHANGED <<way, tvars, wvars, mvars, svars, cvars, dvars, gvars, hvars, uvars, evars, kvars, vars, bvars>>
       \/ part = "nodes" /\ Next
          /\ UNCHANGED <<dialect, way, tvars, wvars, mvars, svars, cvars, dvars, gvars, hvars, uvars, evars, kvars, bvars, ivars>>

PartsSpec == PartsInit /\ [][PartsNext]_allVars

\* Every transaction() stores all or nothing, and runs its hooks to match (common.ts, transaction).
AllOrNothing == part = "transactions" => T!AllOrNothing

\* Session locks exclude each other until commit or rollback (common.ts, acquireSessionLock).
LockExcludes == T!LockExcludes

\* The recorder loses no finished job (recorder.ts, start and logJob).
NoJobForgotten == part = "worker" => W!NoJobForgotten

\* _migrations names what has been applied (MigrationRunCommand.ts, execute).
RecordedWasApplied == part = "migrations" => M!RecordedWasApplied

\* A database accepts the statements of migration:create in their order, raw or the schema builder's,
\* and they make of it what the entities declare, but for the differences that Ordinary, StopCounting
\* and Misplaced name (ddl-generator.ts, builder-regenerator.ts, comparator.ts, compareSchemas).
MigrationFits == part = "schema" => S!Accepted /\ S!BecomesEntities

\* After its migration a column needs no other one, nor do the keys of a table (comparator.ts,
\* compareColumn, compareIndexes, compareForeignKeys).
NothingLeft == (part = "types" => C!NothingLeft) /\ (part = "keys" => K!NothingLeft)

\* A page of the DevConsole whose loads have not failed shows what the process has recorded, and none
\* fails before something is lost or times out (devconsole.store.ts, srpc-client.ts, the views); that of the REPL one result for each command (ReplView.vue, run).
PageAgrees == (part = "console" => D!PageAgrees) /\ (part = "repl" => G!EachItsOwn)

\* A request is handled to its end (kernel.ts, handleRequest, workflow.ts), and of an upgrade
\* request by one party (WebSocketUpgradeHandler.ts).
RequestHandled == (part = "http" => H!RequestHandled) /\ (part = "upgrades" => U!OneAnswers)

\* The registry has the metadata of the client's stream (mesh-srpc-server.ts, syncStreamMeta).
MetaAgrees == part = "metadata" => E!MetaAgrees

\* Processes of `dksf-dev run` build in turn, and none waits for nobody (dksf-dev.ts, ensureDevBuild).
BuiltInTurn == part = "devbuild" => B!BuiltInTurn

\* Tests see the seed and what they wrote themselves (testing/index.ts, resetToSeed).
TestsApart == part = "tests" => I!TestsApart
=============================================================================
