------------------------------- MODULE ObjectStore -------------------------------
(* SqliteStore (src/storage/store.rs) over the schema of src/storage/schema.rs:   *)
(* objects, their revisions and the search index, opened by several processes.    *)
(* A handle is one process: the mutex around its connection makes its calls run   *)
(* one at a time.  A call is one step, except update_object, whose deferred       *)
(* transaction reads before it writes and so can be overtaken by another process. *)
EXTENDS Integers, FiniteSets

CONSTANTS Handles,      \* processes that opened the database
          Ids,          \* object ids
          Refs,         \* payload references
          Hashes,       \* payload hashes
          Titles,       \* titles
          Kinds,        \* names of ObjectKind, with Unspecified
          Unspecified,  \* OBJECT_KIND_UNSPECIFIED
          Empty,        \* the empty string
          NewRecords,   \* records callers insert
          Changes,      \* [title, status, payload_ref, payload_hash] callers set in an edit
          MaxRevision   \* bound on the revisions callers ask for

VARIABLES objects,    \* Ids -> {} or {the row}
          revisions,  \* the rows of object_revisions
          search,     \* Ids -> the rows of object_search for it
          tx,         \* Handles -> {} or {the update in progress}
          copy        \* Handles -> {} or {the record get_object last returned}

storeVars == <<objects, revisions, search, tx, copy>>

Statuses == {"unspecified", "active", "deleted"}

\* ObjectRecord, as far as the tables and the checks tell records apart: missing
\* says that it names a workspace or device, and no code ever writes one.
ObjectRecord ==
    [id : Ids \cup {Empty}, kind : Kinds, title : Titles \cup {Empty}, status : Statuses,
     payload_ref : Refs \cup {Empty}, payload_hash : Hashes \cup {Empty},
     current_revision : 0..MaxRevision, missing : BOOLEAN]

\* The fields a caller sets in an edit.
Edit ==
    [title : Titles \cup {Empty}, status : Statuses, payload_ref : Refs \cup {Empty},
     payload_hash : Hashes \cup {Empty}]

ASSUME StoreAssumption ==
    /\ MaxRevision \in Nat /\ Unspecified \in Kinds
    /\ NewRecords \subseteq ObjectRecord /\ Changes \subseteq Edit

---------------------------------------------------------------------------------
(* Conversions between records and rows                                          *)

\* as_str_name yields the full name of the enum member, one prefix included.
object_kind_name(kind) == [prefixes |-> 1, kind |-> kind]

\* The name is looked up with one more prefix put in front.
parse_object_kind(name) == IF name.prefixes = 0 THEN name.kind ELSE Unspecified

status_name(status) == IF status = "unspecified" THEN "active" ELSE status

\* The columns a record goes to; insert_object stores at least revision 1.
Row(object) ==
    [kind |-> object_kind_name(object.kind), title |-> object.title,
     status |-> status_name(object.status), payload_ref |-> object.payload_ref,
     payload_hash |-> object.payload_hash, current_revision |-> object.current_revision]

row_to_object(id, row) ==
    [id |-> id, kind |-> parse_object_kind(row.kind), title |-> row.title, status |-> row.status,
     payload_ref |-> row.payload_ref, payload_hash |-> row.payload_hash,
     current_revision |-> row.current_revision, missing |-> FALSE]

SearchRow(object) == [title |-> object.title, kind |-> object_kind_name(object.kind)]

---------------------------------------------------------------------------------
(* What the checks and the schema accept                                         *)

validate_object(object) ==
    /\ Empty \notin {object.id, object.payload_ref, object.payload_hash, object.title}
    /\ object.current_revision # 0

\* payload_ref is UNIQUE among the objects and the references must exist.
RowAllowed(object) ==
    /\ ~object.missing
    /\ \A id \in Ids \ {object.id} :
           \A row \in objects[id] : row.payload_ref # object.payload_ref

\* PRIMARY KEY (object_id, revision)
RevisionFree(id, revision) ==
    \A r \in revisions : ~(r.object_id = id /\ r.revision = revision)

\* Defect used as a mutant: the revision is taken from the table, not the caller.
MutRevisionIgnored(object, row) == [object EXCEPT !.current_revision = row.current_revision + 1]

\* The record update_object goes on with.
Revised(object, row) == object

\* Defect used as a mutant: any later revision is accepted.
MutRevisionAhead(object, row) == object.current_revision > row.current_revision

RevisionExpected(object, row) == object.current_revision = row.current_revision + 1

---------------------------------------------------------------------------------
(* Operations                                                                    *)

StoreInit ==
    /\ objects = [id \in Ids |-> {}]
    /\ revisions = {}
    /\ search = [id \in Ids |-> {}]
    /\ tx = [h \in Handles |-> {}]
    /\ copy = [h \in Handles |-> {}]

\* A commit makes the snapshots of the transactions still reading old ones.
Overtaken(t) == {[u EXCEPT !.stale = TRUE] : u \in t}

\* Defect used as a mutant: the old row of the index stays.
MutIndexKeepsOld(object) == [search EXCEPT ![object.id] = @ \cup {SearchRow(object)}]

upsert_search(object) == [search EXCEPT ![object.id] = {SearchRow(object)}]

\* The row, the revision and the index change together.  `base' is history: the
\* payload of the copy the caller edited, if it edited one.
Stored(object, row, base) ==
    /\ objects' = [objects EXCEPT ![object.id] = {row}]
    /\ revisions' = revisions \cup
           {[object_id |-> object.id, revision |-> object.current_revision,
             payload_ref |-> object.payload_ref, payload_hash |-> object.payload_hash,
             base |-> base]}
    /\ search' = upsert_search(object)

insert_object(h, object) ==
    /\ tx[h] = {}
    /\ validate_object(object)
    /\ objects[object.id] = {}
    /\ RowAllowed(object)
    /\ RevisionFree(object.id, object.current_revision)
    /\ Stored(object, Row(object), {})
    /\ tx' = [g \in Handles |-> Overtaken(tx[g])]
    /\ UNCHANGED copy

get_object(h, id) ==
    /\ tx[h] = {}
    /\ copy' = [copy EXCEPT ![h] = {row_to_object(id, row) :
                                     row \in {r \in objects[id] : r.status # "deleted"}}]
    /\ UNCHANGED <<objects, revisions, search, tx>>

\* The payload the caller had read, if it numbers its edit as the next revision.
Base(h, object) ==
    {c.payload_hash : c \in {d \in copy[h] : /\ d.id = object.id
                                             /\ d.current_revision + 1 = object.current_revision}}

\* update_object up to its first write: the current revision is read.
UpdateReads(h, object) ==
    /\ tx[h] = {}
    /\ validate_object(object)
    /\ \E row \in objects[object.id] :
           /\ RevisionExpected(Revised(object, row), row)
           /\ tx' = [tx EXCEPT ![h] = {[object |-> Revised(object, row), stale |-> FALSE,
                                         base |-> Base(h, object)]}]
    /\ UNCHANGED <<objects, revisions, search, copy>>

\* The update keeps the kind the row has; the index takes the record's.
UpdatedRow(object, row) == [Row(object) EXCEPT !.kind = row.kind]

\* The writes and the commit: refused by SQLite if another process has committed
\* since the read, and by the schema if a constraint fails; else all take effect.
UpdateWrites(h) ==
    \E t \in tx[h] : \E row \in objects[t.object.id] :
        IF /\ ~t.stale /\ RowAllowed(t.object)
           /\ RevisionFree(t.object.id, t.object.current_revision)
        THEN /\ Stored(t.object, UpdatedRow(t.object, row), t.base)
             /\ tx' = [[g \in Handles |-> Overtaken(tx[g])] EXCEPT ![h] = {}]
             /\ UNCHANGED copy
        ELSE /\ tx' = [tx EXCEPT ![h] = {}]
             /\ UNCHANGED <<objects, revisions, search, copy>>

\* The process dies: an open transaction is rolled back.
Crash(h) ==
    /\ tx' = [tx EXCEPT ![h] = {}]
    /\ copy' = [copy EXCEPT ![h] = {}]
    /\ UNCHANGED <<objects, revisions, search>>

\* Records callers pass to update_object: the copy they have with changes.
Edited(c, e, revision) ==
    [c EXCEPT !.title = e.title, !.status = e.status, !.payload_ref = e.payload_ref,
              !.payload_hash = e.payload_hash, !.current_revision = revision]

Edits(h) == {Edited(c, e, revision) : c \in copy[h], e \in Changes, revision \in 0..MaxRevision}

StoreNext ==
    \E h \in Handles :
        \/ \E object \in NewRecords : insert_object(h, object)
        \/ \E id \in Ids : get_object(h, id)
        \/ \E object \in Edits(h) : UpdateReads(h, object)
        \/ UpdateWrites(h)
        \/ Crash(h)

StoreSpec == StoreInit /\ [][StoreNext]_storeVars

---------------------------------------------------------------------------------
(* Properties                                                                    *)

RevisionsOf(id) == {r.revision : r \in {s \in revisions : s.object_id = id}}

\* Revisions of an object run without gap from the one it was inserted with to the
\* current one, each once, and the current one holds the payload the object names,
\* with any number of processes inserting, updating and dying in between.
HistoryComplete ==
    \A id \in Ids :
        LET own == {s \in revisions : s.object_id = id}
        IN /\ objects[id] = {} => own = {}
           /\ \A row \in objects[id] :
                  /\ \E first \in 1..row.current_revision :
                         RevisionsOf(id) = first..row.current_revision
                  /\ Cardinality(own) = Cardinality(RevisionsOf(id))
                  /\ \A r \in own : r.revision = row.current_revision =>
                         r.payload_ref = row.payload_ref /\ r.payload_hash = row.payload_hash

\* No edit is lost: when a caller edits the copy it read and numbers the edit one
\* higher, the revision that results follows the very one the copy showed.
EditsBuildOnLatest ==
    \A r \in revisions : \A hash \in r.base :
        \E p \in revisions : /\ p.object_id = r.object_id
                             /\ p.revision = r.revision - 1
                             /\ p.payload_hash = hash

\* Every object is in the index exactly once, under the title of its current row.
IndexFollowsObjects ==
    \A id \in Ids : {s.title : s \in search[id]} = {row.title : row \in objects[id]}
                    /\ Cardinality(search[id]) = Cardinality(objects[id])

=================================================================================
