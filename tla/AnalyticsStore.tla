--------------------------- MODULE AnalyticsStore ---------------------------
(***************************************************************************)
(* analytics/src: the statements with which the scanners write (UpsertQuery *)
(* of postgres_queries.rs) and how PostgresAdapter runs them.              *)
(*                                                                         *)
(* A table with a unique constraint is a function from the constrained     *)
(* columns to rows; a table with a serial key only is a bag of rows.  A    *)
(* statement that Postgres refuses is None, and changes nothing.           *)
(***************************************************************************)
EXTENDS Integers, Sequences, Bags, SequencesExt, TLC

CONSTANT None

\* A constraint is the sequence of its columns.
Key(e, columns) ==
    IF Len(columns) = 1 THEN e[columns[1]] ELSE [i \in DOMAIN columns |-> e[columns[i]]]

Unique(entities, columns) ==
    \A i, j \in DOMAIN entities : Key(entities[i], columns) = Key(entities[j], columns) => i = j

Rows(entities, columns) ==
    [k \in {Key(e, columns) : e \in ToSet(entities)} |->
        CHOOSE e \in ToSet(entities) : Key(e, columns) = k]

\* Without a conflict fragment, one row that is there already refuses them all.
Insert(table, entities, columns) ==
    LET new == Rows(entities, columns)
    IN  IF Unique(entities, columns) /\ DOMAIN new \cap DOMAIN table = {}
        THEN table @@ new ELSE None

Conflicts(table, entities, columns) == DOMAIN Rows(entities, columns) \cap DOMAIN table

\* on conflict ON CONSTRAINT ... DO UPDATE SET: set gives every conflicting row
\* after its expressions, None if one cannot be evaluated.  A statement cannot
\* update a row twice.
InsertOrUpdate(table, entities, columns, set) ==
    IF Unique(entities, columns) /\ \A k \in DOMAIN set : set[k] # None
    THEN set @@ table @@ Rows(entities, columns) ELSE None

\* A table without a unique constraint.
Add(table, entities) ==
    FoldLeft(LAMBDA t, e : t (+) SetToBag({e}), table, entities)

\* PostgresAdapter::upsert: what is in the table afterwards.  There may be no
\* connection; the caller logs the error, or drops it.
upsert(table, statement, connected) ==
    IF connected /\ statement # None THEN statement ELSE table

\* A plausible bug: every command for itself.
transact_upserts_Each(tables, statements, connected) ==
    [i \in DOMAIN tables |-> upsert(tables[i], statements[i], connected)]

\* PostgresAdapter::transact_upserts: an error of a command is logged and the
\* others still run, but Postgres has aborted the transaction and its commit
\* rolls everything back.
transact_upserts(tables, statements, connected) ==
    IF connected /\ \A i \in DOMAIN statements : statements[i] # None
    THEN statements ELSE tables
=============================================================================
