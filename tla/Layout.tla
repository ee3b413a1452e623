------------------------------- MODULE Layout -------------------------------
(***************************************************************************)
(* From the schema of an indexer to its tables                              *)
(* (store/postgres/src/relational.rs and catalog.rs). There are two ways:   *)
(* the registrar validates the schema with the manifest and creates the     *)
(* tables in the transaction that creates the deployment; the runtime of    *)
(* Solana indexers (apis/indexer_api/src/store/store_builder.rs) only       *)
(* parses it, logs an error of the DDL and goes on, and asks Hasura to      *)
(* track the tables and the relationships between them. Later the layout    *)
(* is built again from the schema and the tables in the database.  At the   *)
(* end, with variables of its own, the cache that a node keeps of layouts.  *)
(*                                                                         *)
(* An SQL name is the sequence of its words; joining names with "_" is      *)
(* concatenation.                                                           *)
(***************************************************************************)
EXTENDS Integers, Sequences, FiniteSets, SequencesExt

CONSTANTS
    None,           \* no directive, no argument
    Malformed,      \* an argument that is not what its directive asks for
    Valid(_),       \* DeploymentHash::new / IndexerName::new accept a string
    Suffixed(_),    \* the names X_filter and X_orderBy of a type X
    Documents,      \* the schemas an indexer may come with
    Store,          \* the schemas of other deployments, by deployment
    DataSources,    \* what the other checks of a manifest may find
    to_snake_case(_), \* the words of a GraphQL name in snake case
    Verbatim(_),    \* the words of a GraphQL name as it is written
    ValidIdentifier(_), \* check_valid_identifier accepts a name
    Thread,         \* the threads that ask for a layout
    MaxChanges,     \* bound: changes of the flags of the tables
    MaxFaults       \* bound: reads of the flags that fail

VARIABLES
    path,       \* "registrar" or "runtime"
    doc,        \* the schema
    sources,    \* the complaints about the manifest's data sources
    phase,      \* how far the indexer has come
    resolved,   \* what resolve_schema_references found
    errors,     \* the complaints of the manifest's validation
    layout,     \* the Layout, or None
    db,         \* the namespace of the indexer in the database
    tracked,    \* the relationships Hasura was asked to track
    flags,      \* the account_like flags in the database, as a version
    entry,      \* the cached [value, expired], or None
    pc,         \* what each thread does: idle, loading, refreshing, caching
    value,      \* the layout a thread holds
    refresh,    \* the thread that holds the refresh lock, or None
    faults      \* failed reads of the database so far

vars == <<path, doc, sources, phase, resolved, errors, layout, db, tracked>>

-----------------------------------------------------------------------------
(***************************************************************************)
(* The schema of an indexer (massbit/src/data/schema.rs): parsing its       *)
(* interfaces, following the @import directives of its _Schema_ type        *)
(* through the schemas of other deployments, and validating it.             *)
(*                                                                         *)
(* A document is a record                                                  *)
(*   objects     name -> [fields, implements, entity]                       *)
(*   interfaces  name -> fields                                             *)
(*   enums       set of names                                               *)
(*   imports     sequence of the @import directives of _Schema_             *)
(*   schemaType  what else the _Schema_ type has: fields, other directives  *)
(* where fields maps a field's name to [base, list, nonnull, derived], base *)
(* being the type without list and non-null, and an import is               *)
(* [id, name, types]: the arguments of `from` and the imported types.       *)
(***************************************************************************)
Scalars == {"Boolean", "BigInt", "Bytes", "BigDecimal", "Int", "String", "ID"}

is_scalar(s) == s \in Scalars

(* The fields of the object and interface types, by type name. *)
get_object_and_interface_type_fields(d) ==
    [t \in DOMAIN d.objects \cup DOMAIN d.interfaces |->
        IF t \in DOMAIN d.objects THEN d.objects[t].fields ELSE d.interfaces[t]]

get_named_types(d) == DOMAIN d.objects \cup DOMAIN d.interfaces \cup d.enums

-----------------------------------------------------------------------------
(* Parsing *)

(* Every field of the interface is in the object, with the same type. *)
validate_interface_implementation(object, interface) ==
    \A f \in DOMAIN interface :
        /\ f \in DOMAIN object.fields
        /\ [object.fields[f] EXCEPT !.derived = None] = [interface[f] EXCEPT !.derived = None]

(* Schema::parse fails unless every implemented interface is defined and    *)
(* really implemented.                                                      *)
Parses(d) ==
    \A t \in DOMAIN d.objects : \A i \in d.objects[t].implements :
        /\ i \in DOMAIN d.interfaces
        /\ validate_interface_implementation(d.objects[t], d.interfaces[i])

(* The implementors of each interface, those without one included. *)
types_for_interface(d) ==
    [i \in DOMAIN d.interfaces |->
        {t \in DOMAIN d.objects : i \in d.objects[t].implements}]

-----------------------------------------------------------------------------
(* Imports *)

(* Only an import by id gives a reference; one by name parses to nothing. *)
SchemaReference_parses(import) == import.id \notin {None, Malformed} /\ Valid(import.id)

imported_schemas(d) ==
    LET refs == SelectSeq(d.imports, SchemaReference_parses)
    IN  [i \in DOMAIN refs |-> refs[i].id]

(* The pairs of an imported type and the deployment it comes from. Of the   *)
(* elements of `types`, a string gives the same name and alias; an object   *)
(* gives both of its values as printed, quotes included, so that neither is *)
(* the name of a type.                                                      *)
imported_types(d) ==
    UNION {{[name |-> t.name, alias |-> t.alias, from |-> d.imports[i].id] :
               t \in {u \in d.imports[i].types : u # Malformed}} :
           i \in {j \in DOMAIN d.imports : SchemaReference_parses(d.imports[j])}}

RECURSIVE resolve_import_graph(_, _, _)
(* Follow the imports depth first; the visit log stops at a deployment that *)
(* was already entered. A reference that the store cannot resolve is an     *)
(* error. found = [schemas, visit_log, errors].                             *)
resolve_import_graph(store, d, found) ==
    FoldLeft(LAMBDA f, ref :
        IF ref \notin DOMAIN store THEN [f EXCEPT !.errors = @ \cup {ref}]
        ELSE LET g == [f EXCEPT !.schemas = @ \cup {ref}]
             IN  IF ref \in g.visit_log THEN g
                 ELSE resolve_import_graph(store, store[ref],
                          [g EXCEPT !.visit_log = @ \cup {ref}]),
        found, imported_schemas(d))

resolve_schema_references(store, d) ==
    resolve_import_graph(store, d, [schemas |-> {}, visit_log |-> {}, errors |-> {}])

-----------------------------------------------------------------------------
(* Validation: each check gives the set of its complaints *)

validate_schema_types(d) ==
    IF \A t \in DOMAIN d.objects : d.objects[t].entity THEN {}
    ELSE {"EntityDirectivesMissing"}

validate_schema_type(d) ==
    (IF d.schemaType.fields THEN {"SchemaTypeWithFields"} ELSE {}) \cup
    (IF d.schemaType.directives THEN {"InvalidSchemaTypeDirectives"} ELSE {})

reserved_types(d) ==
    Scalars \cup {"Query", "Subscription"} \cup
    UNION {Suffixed(t) : t \in DOMAIN d.objects \cup DOMAIN d.interfaces}

validate_reserved_types_usage(d) ==
    IF reserved_types(d) \cap get_named_types(d) = {} THEN {}
    ELSE {"UsageOfReservedTypes"}

(* The type a derived field is derived from has the named field, and that   *)
(* field refers back to the object or to one of its interfaces that has the *)
(* derived field; or it is an ID.                                           *)
DerivedFromValid(d, t, f) ==
    LET field  == d.objects[t].fields[f]
        all    == get_object_and_interface_type_fields(d)
        ifaces == {i \in d.objects[t].implements :
                      i \in DOMAIN d.interfaces /\ f \in DOMAIN d.interfaces[i]}
    IN  /\ field.derived # Malformed
        /\ field.base \in DOMAIN all
        /\ field.derived \in DOMAIN all[field.base]
        /\ all[field.base][field.derived].base \in {t, "ID"} \cup ifaces

validate_derived_from(d) ==
    IF \A t \in DOMAIN d.objects : \A f \in DOMAIN d.objects[t].fields :
           d.objects[t].fields[f].derived # None => DerivedFromValid(d, t, f)
    THEN {}
    ELSE {"InvalidDerivedFrom"}

(* A field's type is a scalar, a local type, the alias of an imported type  *)
(* or a local enum.                                                         *)
FieldTypeKnown(d, base) ==
    \/ is_scalar(base)
    \/ base \in DOMAIN get_object_and_interface_type_fields(d)
    \/ \E t \in imported_types(d) : t.alias = base
    \/ base \in d.enums

validate_fields(d) ==
    LET all == get_object_and_interface_type_fields(d)
    IN  IF \A t \in DOMAIN all : \A f \in DOMAIN all[t] : FieldTypeKnown(d, all[t][f].base)
        THEN {}
        ELSE {"FieldTypeUnknown"}

(* An import names exactly one of id and name, both strings, and a list of  *)
(* types that are strings or objects with a name and an alias.              *)
validate_import_directive_arguments(import) ==
    /\ (import.id \in {None, Malformed}) # (import.name \in {None, Malformed})
    /\ Malformed \notin import.types

validate_import_directive_schema_reference_parses(import) ==
    \A s \in {import.id, import.name} \ {None, Malformed} : Valid(s)

validate_import_directives(d) ==
    UNION {(IF validate_import_directive_arguments(d.imports[i]) THEN {}
            ELSE {"ImportDirectiveInvalid"}) \cup
           (IF validate_import_directive_schema_reference_parses(d.imports[i]) THEN {}
            ELSE {"ImportedIndexerInvalid"}) : i \in DOMAIN d.imports}

(* An imported type is a local object type of the schema it comes from or   *)
(* is imported there in turn, one level deep; a schema that was not         *)
(* resolved is not looked at.                                               *)
validate_imported_types(store, schemas, d) ==
    IF \A t \in imported_types(d) : t.from \in schemas =>
           \/ t.name \in DOMAIN store[t.from].objects
           \/ \E u \in imported_types(store[t.from]) : u.alias = t.name
    THEN {}
    ELSE {"ImportedTypeUndefined"}

(* Schema::validate, given the schemas resolve_schema_references found. *)
validate(store, schemas, d) ==
    validate_schema_types(d) \cup validate_derived_from(d) \cup
    validate_schema_type(d) \cup validate_reserved_types_usage(d) \cup
    validate_fields(d) \cup validate_import_directives(d) \cup
    validate_imported_types(store, schemas, d)

-----------------------------------------------------------------------------
PrimaryKey == <<"id">>
EmptyDb == [types |-> {}, tables |-> <<>>]

-----------------------------------------------------------------------------
(* Columns and tables *)

(* IdType of a field's type: String or Bytes; anything else is an error. *)
IdType(base) ==
    CASE base \in {"String", "ID"} -> "String"
      [] base = "Bytes"            -> "BytesId"
      [] OTHER                     -> "error"

HasId(d, t) == "id" \in DOMAIN d.objects[t].fields

(* The id types of an interface's implementors. *)
id_types_for_interface(d, i) ==
    {IdType(d.objects[t].fields["id"].base) : t \in types_for_interface(d)[i]}

(* The type of the id of every object type, and of every interface: the one *)
(* its implementors share, String when it has none.                         *)
id_types(d) ==
    [t \in DOMAIN d.objects \cup DOMAIN d.interfaces |->
        IF t \in DOMAIN d.objects THEN IdType(d.objects[t].fields["id"].base)
        ELSE LET types == id_types_for_interface(d, t)
             IN  IF types = {} THEN "String"
                 ELSE IF Cardinality(types) > 1 THEN "error"
                 ELSE CHOOSE x \in types : TRUE]

(* Catalog: the columns of data type text; a list is of data type ARRAY. *)
is_existing_text_column(base, table, column) ==
    /\ table \in DOMAIN base.tables
    /\ column \in DOMAIN base.tables[table]
    /\ base.tables[table][column].sql = <<"text">>
    /\ ~ base.tables[table][column].list

\* A plausible bug: every reference is a string.
ColumnType_TextReferences(d, ids, f, existing) ==
    CASE f.base \in DOMAIN ids -> <<"String">>
      [] f.base \notin DOMAIN ids /\ f.base \in d.enums ->
             IF existing THEN <<"String">> ELSE <<"enum", f.base>>
      [] f.base \notin DOMAIN ids \cup d.enums /\ is_scalar(f.base) ->
             IF f.base = "ID" THEN <<"String">> ELSE <<f.base>>
      [] OTHER -> <<"error">>
(* ColumnType::from_field_type: a reference has the type of the id it       *)
(* refers to, an enum its own type unless the column exists as text.        *)
ColumnType(d, ids, f, existing) ==
    CASE f.base \in DOMAIN ids -> <<ids[f.base]>>
      [] f.base \notin DOMAIN ids /\ f.base \in d.enums ->
             IF existing THEN <<"String">> ELSE <<"enum", f.base>>
      [] f.base \notin DOMAIN ids \cup d.enums /\ is_scalar(f.base) ->
             IF f.base = "ID" THEN <<"String">> ELSE <<f.base>>
      [] OTHER -> <<"error">>

sql_type(type) ==
    CASE type = <<"String">>                  -> <<"text">>
      [] type \in {<<"Bytes">>, <<"BytesId">>} -> <<"bytea">>
      [] type \in {<<"BigInt">>, <<"BigDecimal">>} -> <<"numeric">>
      [] Len(type) = 2                        -> <<"enum">> \o to_snake_case(type[2])
      [] OTHER                                -> type

is_object_type(d, base) == base \notin d.enums /\ ~ is_scalar(base)

(* Column::new *)
Column(d, base, ids, t, name) ==
    LET f   == d.objects[t].fields[name]
        sql == to_snake_case(name)
    IN  [name |-> sql, field |-> f,
         is_reference |-> sql # PrimaryKey /\ is_object_type(d, f.base),
         type |-> IF sql = PrimaryKey THEN <<IdType(f.base)>>
                  ELSE ColumnType(d, ids, f, is_existing_text_column(base, to_snake_case(t), sql))]

(* Table::new: one column for every field that is not derived. *)
Table(d, base, ids, t) ==
    [name |-> to_snake_case(t),
     columns |-> {Column(d, base, ids, t, f) :
                     f \in {g \in DOMAIN d.objects[t].fields :
                                d.objects[t].fields[g].derived = None}}]

(* Layout::new panics for an object type without an id, *)
LayoutPanics(d) == \E t \in DOMAIN d.objects : ~ HasId(d, t)

(* and fails for an unsuitable id, a type it does not know, or a name that  *)
(* is no SQL identifier.                                                    *)
LayoutFails(d, base) ==
    \/ \E e \in d.enums \cup DOMAIN d.objects : ~ ValidIdentifier(e)
    \/ \E t \in DOMAIN id_types(d) : id_types(d)[t] = "error"
    \/ \E t \in DOMAIN d.objects : \E f \in DOMAIN d.objects[t].fields :
           /\ d.objects[t].fields[f].derived = None
           /\ ~ ValidIdentifier(f) \/ Column(d, base, id_types(d), t, f).type = <<"error">>

new(d, base) ==
    [enums |-> d.enums,
     tables |-> [t \in DOMAIN d.objects |-> Table(d, base, id_types(d), t)]]

-----------------------------------------------------------------------------
(* The database *)

(* One `create table`: the columns, then vid and block_range. *)
TableDdl(table) ==
    LET sql(c) == [sql |-> sql_type(c.type), list |-> c.field.list,
                   notnull |-> c.name = PrimaryKey \/ c.field.nonnull]
    IN  [n \in {c.name : c \in table.columns} |-> sql(CHOOSE c \in table.columns : c.name = n)]

(* The relations a table needs besides itself. *)
IndexNames(table) ==
    {<<"brin">> \o table.name, table.name \o <<"block", "range", "closed">>}

(* The statements of as_ddl are one batch: all of them execute or none.     *)
(* Postgres refuses a type or relation that exists, a column named twice, a *)
(* table without the id its exclusion constraint needs, an unknown type.    *)
DdlExecutes(l, base) ==
    LET tables == {l.tables[t] : t \in DOMAIN l.tables}
        types  == {to_snake_case(e) : e \in l.enums}
    IN  /\ Cardinality(types) = Cardinality(l.enums)
        /\ \A t, u \in DOMAIN l.tables : t # u => l.tables[t].name # l.tables[u].name
        /\ types \cap {t.name : t \in tables} = {}
        /\ (types \cup {t.name : t \in tables}) \cap (base.types \cup DOMAIN base.tables) = {}
        /\ UNION {IndexNames(t) : t \in tables} \cap {t.name : t \in tables} = {}
        /\ \A t \in tables :
            /\ \A c1, c2 \in t.columns : c1.name = c2.name => c1 = c2
            /\ PrimaryKey \in {c.name : c \in t.columns}
            /\ {c.name : c \in t.columns} \cap {<<"vid">>, <<"block", "range">>} = {}
            /\ \A c \in t.columns : Len(c.type) = 2 => to_snake_case(c.type[2]) \in types

execute(l, base) ==
    [types |-> base.types \cup {to_snake_case(e) : e \in l.enums},
     tables |-> [n \in DOMAIN base.tables \cup {l.tables[t].name : t \in DOMAIN l.tables} |->
                    IF n \in DOMAIN base.tables THEN base.tables[n]
                    ELSE TableDdl(CHOOSE x \in {l.tables[t] : t \in DOMAIN l.tables} : x.name = n)]]

(* For a column that refers to an entity: from this table to the entity, *)
ObjectRelationship(l, t, c) ==
    [kind |-> "object", table |-> l.tables[t].name, name |-> Verbatim(c.field.base) \o c.name,
     remote |-> to_snake_case(c.field.base), from |-> c.name, to |-> PrimaryKey, base |-> c.field.base]

(* and from the entity back to the rows of this table. *)
ArrayRelationship(l, t, c) ==
    [kind |-> "array", table |-> to_snake_case(c.field.base), name |-> l.tables[t].name \o c.name,
     remote |-> l.tables[t].name, from |-> PrimaryKey, to |-> c.name, base |-> c.field.base]

create_hasura_tracking_relationships(l) ==
    UNION {UNION {{ObjectRelationship(l, t, c), ArrayRelationship(l, t, c)} :
                     c \in {x \in l.tables[t].columns : x.is_reference /\ ~ x.field.list}} :
           t \in DOMAIN l.tables}

-----------------------------------------------------------------------------
Init ==
    /\ path \in {"registrar", "runtime"}
    /\ doc \in Documents
    /\ sources \in DataSources
    /\ phase = "submitted"
    /\ resolved = None
    /\ errors = {}
    /\ layout = None
    /\ db = EmptyDb
    /\ tracked = {}

(* Schema::parse; the runtime unwraps its result. *)
Parse ==
    /\ phase = "submitted"
    /\ phase' = IF Parses(doc) THEN "parsed" ELSE "refused"
    /\ UNCHANGED <<path, doc, sources, resolved, errors, layout, db, tracked>>

(* UnvalidatedIndexerManifest::validate: the schema and the data sources.   *)
(* What resolve_schema_references could not import is not an error here.    *)
Validate ==
    /\ phase = "parsed" /\ path = "registrar"
    /\ resolved' = resolve_schema_references(Store, doc)
    /\ errors' = sources \cup validate(Store, resolved'.schemas, doc)
    /\ phase' = IF errors' = {} THEN "validated" ELSE "refused"
    /\ UNCHANGED <<path, doc, sources, layout, db, tracked>>

(* Layout::new against the catalog of the database, then the DDL. *)
create_relational_schema ==
    /\ phase = "validated"
    /\ IF LayoutPanics(doc) \/ LayoutFails(doc, db) \/ ~ DdlExecutes(new(doc, db), db)
       THEN phase' = "refused" /\ UNCHANGED <<layout, db>>
       ELSE /\ layout' = new(doc, db)
            /\ db' = execute(new(doc, db), db)
            /\ phase' = "created"
    /\ UNCHANGED <<path, doc, sources, resolved, errors, tracked>>

(* StoreBuilder::create_store: an error of the DDL is logged only. *)
create_store ==
    /\ path = "runtime" /\ phase \in {"parsed", "created"}
    /\ IF LayoutPanics(doc) \/ LayoutFails(doc, db)
       THEN phase' = "refused" /\ UNCHANGED <<layout, db, tracked>>
       ELSE /\ layout' = new(doc, db)
            /\ db' = IF DdlExecutes(layout', db) THEN execute(layout', db) ELSE db
            /\ tracked' = create_hasura_tracking_relationships(layout')
            /\ phase' = IF phase = "parsed" THEN "created" ELSE "reloaded"
    /\ UNCHANGED <<path, doc, sources, resolved, errors>>

(* LayoutCache::load, after a restart of the node. *)
load ==
    /\ path = "registrar" /\ phase = "created"
    /\ layout' = new(doc, db)
    /\ phase' = "reloaded"
    /\ UNCHANGED <<path, doc, sources, resolved, errors, db, tracked>>

Next == Parse \/ Validate \/ create_relational_schema \/ create_store \/ load

Spec == Init /\ [][Next]_vars

-----------------------------------------------------------------------------
(* Properties *)

TypesOf(d) == DOMAIN d.objects

(* The names of the schema stay apart as SQL names. *)
SnakeNamesDistinct(d) ==
    /\ \A x, y \in TypesOf(d) \cup d.enums : x # y => to_snake_case(x) # to_snake_case(y)
    /\ \A t \in TypesOf(d) :
        /\ \A f, g \in DOMAIN d.objects[t].fields :
               f # g => to_snake_case(f) # to_snake_case(g)
        /\ d.objects[t].fields["id"].derived = None

(* Following the imports ends, finds every deployment that can be reached   *)
(* and complains of each one that is missing, cyclic imports included       *)
(* (resolve_import_graph and its visit log).                                *)
EveryImportIsFollowed ==
    resolved # None =>
        LET edges(d)  == ToSet(imported_schemas(d))
            closed(S) == /\ edges(doc) \subseteq S
                         /\ \A r \in S \cap DOMAIN Store : edges(Store[r]) \subseteq S
            reach     == CHOOSE S \in SUBSET (DOMAIN Store \cup edges(doc) \cup
                                              UNION {edges(Store[r]) : r \in DOMAIN Store}) :
                            closed(S) /\ \A T \in SUBSET S : closed(T) => T = S
        IN  /\ resolved.schemas = reach \cap DOMAIN Store
            /\ resolved.errors = reach \ DOMAIN Store

(* A validated schema becomes tables. What validation does not look at are  *)
(* the ids (missing, of a wrong type, or different between the implementors *)
(* of an interface), types that are only imported, and names that are not   *)
(* SQL identifiers or that are the same in snake case: nothing else makes   *)
(* Layout::new or its DDL fail.                                             *)
ValidatedSchemasBuild ==
    phase = "refused" /\ path = "registrar" /\ Parses(doc) /\ errors = {} =>
        \/ LayoutPanics(doc)
        \/ \E t \in DOMAIN id_types(doc) : id_types(doc)[t] = "error"
        \/ \E t \in TypesOf(doc) : \E f \in DOMAIN doc.objects[t].fields :
               \/ \E i \in imported_types(doc) : i.alias = doc.objects[t].fields[f].base
               \/ ~ ValidIdentifier(f)
        \/ \E x \in TypesOf(doc) \cup doc.enums : ~ ValidIdentifier(x)
        \/ ~ SnakeNamesDistinct(doc)

(* In the database, a column that refers to an entity has the SQL type of   *)
(* the id column it refers to; for an interface, that of every table that   *)
(* implements it (id_types and ColumnType::from_field_type).                *)
ReferencesHaveTheTypeOfTheId ==
    \A t \in IF layout = None THEN {} ELSE TypesOf(doc) :
        LET table == layout.tables[t].name
        IN  table \in DOMAIN db.tables /\ SnakeNamesDistinct(doc) =>
            \A c \in {x \in layout.tables[t].columns : x.is_reference} :
            \A u \in IF c.field.base \in TypesOf(doc) THEN {c.field.base}
                     ELSE types_for_interface(doc)[c.field.base] :
                db.tables[table][c.name].sql = db.tables[to_snake_case(u)][PrimaryKey].sql

(* Building the layout again from the schema and the tables that were made  *)
(* from it gives the same layout, although Layout::new now sees the columns *)
(* that exist (is_existing_text_column).                                    *)
ReloadedLayoutIsTheSame ==
    phase = "reloaded" => layout = new(doc, EmptyDb)

(* Every relationship Hasura is asked to track names tables and columns of  *)
(* the namespace, except where the reference is to an interface             *)
(* (create_hasura_tracking_relationships).                                  *)
RelationshipsNameTables ==
    \A r \in IF tracked # {} /\ SnakeNamesDistinct(doc) THEN tracked ELSE {} :
        r.base \notin DOMAIN doc.interfaces =>
            /\ r.table \in DOMAIN db.tables /\ r.from \in DOMAIN db.tables[r.table]
            /\ r.remote \in DOMAIN db.tables /\ r.to \in DOMAIN db.tables[r.remote]

(* Two relationships of a table have different names, also when an entity   *)
(* refers twice to the same entity or to itself; names that contain the     *)
(* separator and types written like their tables are excluded (the rel_name *)
(* of create_hasura_tracking_relationships).                                *)
OneRelationshipPerName ==
    (\A t \in TypesOf(doc) : Len(to_snake_case(t)) = 1 /\ Verbatim(t) # to_snake_case(t)) =>
        \A r, s \in tracked : r.table = s.table /\ r.name = s.name => r = s

(* The tables are what the schema says: every import is followed, what was  *)
(* validated has a layout, references and ids agree, a reload changes       *)
(* nothing, and the relationships fit the tables (schema.rs, relational.rs). *)
LayoutsAreFaithful ==
    /\ EveryImportIsFollowed /\ ValidatedSchemasBuild
    /\ ReferencesHaveTheTypeOfTheId /\ ReloadedLayoutIsTheSame
    /\ RelationshipsNameTables /\ OneRelationshipPerName

-----------------------------------------------------------------------------
(***************************************************************************)
(* The cache of layouts of a node (LayoutCache, used by                     *)
(* DeploymentStore::layout) for one deployment. A layout is stood for by    *)
(* the one thing a refresh changes: the account_like flags it was built     *)
(* with. Threads run get concurrently; the entries are behind a mutex that  *)
(* is held only while they are read or written, the database is read with   *)
(* no lock but the refresh one, which a thread only tries to take.          *)
(***************************************************************************)
cacheVars == <<flags, entry, pc, value, refresh, faults>>

CacheInit ==
    /\ flags = 0
    /\ entry = None
    /\ pc = [t \in Thread |-> "idle"]
    /\ value = [t \in Thread |-> None]
    /\ refresh = None
    /\ faults = 0

(* Another process changes table_stats. *)
Analyze ==
    /\ flags < MaxChanges
    /\ flags' = flags + 1
    /\ UNCHANGED <<entry, pc, value, refresh, faults>>

(* The ttl of the entry passes. *)
Expire ==
    /\ entry # None /\ ~ entry.expired
    /\ entry' = [entry EXCEPT !.expired = TRUE]
    /\ UNCHANGED <<flags, pc, value, refresh, faults>>

(* get: read the entry; without one, load; with a fresh one, return it;     *)
(* with an expired one, refresh it, or return it if another thread is       *)
(* refreshing. Reading the entry and trying the lock are two steps.         *)
get(t) ==
    /\ pc[t] = "idle"
    /\ IF entry = None THEN pc' = [pc EXCEPT ![t] = "loading"] /\ UNCHANGED value
       ELSE /\ value' = [value EXCEPT ![t] = entry.value]
            /\ IF entry.expired THEN pc' = [pc EXCEPT ![t] = "expired"] ELSE UNCHANGED pc
    /\ UNCHANGED <<flags, entry, refresh, faults>>

try_lock(t) ==
    /\ pc[t] = "expired"
    /\ IF refresh = None
       THEN refresh' = t /\ pc' = [pc EXCEPT ![t] = "refreshing"]
       ELSE UNCHANGED refresh /\ pc' = [pc EXCEPT ![t] = "idle"]
    /\ UNCHANGED <<flags, entry, value, faults>>

(* Layout::refresh or load reads the flags; a refresh that fails keeps the  *)
(* old layout, a load that fails is the caller's error.                     *)
ReadFlags(t) ==
    /\ pc[t] \in {"loading", "refreshing"}
    /\ value' = [value EXCEPT ![t] = flags]
    /\ pc' = [pc EXCEPT ![t] = "caching"]
    /\ UNCHANGED <<flags, entry, refresh, faults>>

ReadFails(t) ==
    /\ pc[t] \in {"loading", "refreshing"}
    /\ faults < MaxFaults
    /\ faults' = faults + 1
    /\ pc' = [pc EXCEPT ![t] = IF @ = "loading" THEN "idle" ELSE "caching"]
    /\ UNCHANGED <<flags, entry, value, refresh>>

\* A plausible bug: the lock is kept.
cache_KeepsLock(t) ==
    /\ pc[t] = "caching"
    /\ entry' = [value |-> value[t], expired |-> FALSE]
    /\ refresh' = refresh
    /\ pc' = [pc EXCEPT ![t] = "idle"]
    /\ UNCHANGED <<flags, value, faults>>
(* cache stores the layout with a new expiry and the refresh lock is        *)
(* dropped.                                                                 *)
cache(t) ==
    /\ pc[t] = "caching"
    /\ entry' = [value |-> value[t], expired |-> FALSE]
    /\ refresh' = IF refresh = t THEN None ELSE refresh
    /\ pc' = [pc EXCEPT ![t] = "idle"]
    /\ UNCHANGED <<flags, value, faults>>

CacheNext ==
    \/ Analyze \/ Expire
    \/ \E t \in Thread : get(t) \/ try_lock(t) \/ ReadFlags(t) \/ ReadFails(t) \/ cache(t)

(* Time passes, and callers keep asking for the layout; a thread in get     *)
(* goes on.                                                                 *)
CacheFairness ==
    /\ WF_cacheVars(Expire)
    /\ \A t \in Thread : WF_cacheVars(get(t) \/ try_lock(t) \/ ReadFlags(t) \/ cache(t))

CacheSpec == CacheInit /\ [][CacheNext]_cacheVars /\ CacheFairness

-----------------------------------------------------------------------------
(* At most one thread refreshes an entry: the others return the expired     *)
(* layout instead (the `refresh` mutex and its try_lock).                   *)
OneRefreshAtATime ==
    Cardinality({t \in Thread : pc[t] = "refreshing"}) <= 1

(* A thread that loaded slowly, or whose refresh failed, can put an older   *)
(* layout over a newer one. Still, once the flags and the database are      *)
(* quiet, the cache comes to hold the current flags and keeps them (get,    *)
(* refresh and the expiry set by cache).                                    *)
CacheCatchesUp == <>[](entry # None /\ entry.value = flags)
=============================================================================
