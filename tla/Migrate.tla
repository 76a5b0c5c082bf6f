------------------------------ MODULE Migrate ------------------------------
(***************************************************************************)
(* The migration from Supabase to PocketBase (mogofm-db/migrate.js): the   *)
(* collections are made, pass 1 upserts every row and keeps its foreign    *)
(* keys as they are in temporary fields, pass 2 turns them into relations. *)
(* The operator may start it again after it ended or died.                 *)
(*                                                                         *)
(* An action is one request that writes, with what the script does around  *)
(* it; requests that only read are one action until their answer is used,  *)
(* for nobody else writes to PocketBase.  A column is named by the table   *)
(* it refers to; the columns that are no foreign keys are left out.        *)
(***************************************************************************)
EXTENDS Integers, Sequences, FiniteSets

CONSTANTS
    TABLES,         \* the configured tables, in their order
    RawKeys,        \* keys as they are in Supabase
    Keys, NoKey,    \* what normalizeOldId makes of them
    Norm,           \* normalizeOldId
    Schemas,        \* the foreign keys the tables may have
    Sources,        \* per table: the rows it may have, ordered by primary key
    BATCH_SIZE, POCKETBASE_PAGE_SIZE,
    MaxRuns, MaxFaults, MaxEdits    \* bounds: starts, failed requests, edits

Tables == {TABLES[i] : i \in DOMAIN TABLES}
Row == [key : RawKeys, ref : [Tables -> RawKeys]]

ASSUME MigrateAssumption ==
    /\ TABLES \in Seq(Tables) /\ TABLES # <<>>
    /\ \A i, j \in DOMAIN TABLES : TABLES[i] = TABLES[j] => i = j
    /\ NoKey \notin Keys
    /\ Norm \in [RawKeys -> Keys \cup {NoKey}]
    /\ Schemas \subseteq [Tables -> SUBSET Tables]
    /\ Sources \in [Tables -> SUBSET Seq(Row)]
    /\ BATCH_SIZE \in Nat \ {0} /\ POCKETBASE_PAGE_SIZE \in Nat \ {0}
    /\ MaxRuns \in Nat /\ MaxFaults \in Nat /\ MaxEdits \in Nat

VARIABLES
    fk,         \* fk[t]: the tables that t refers to
    source,     \* Supabase: the rows of each table
    schema,     \* PocketBase: the fields of each collection
    store,      \* PocketBase: its records; a record's id is its place
    pc,         \* what the script does, "off" before it and after it died
    order, at,  \* orderedTables and the table it is at
    known,      \* collectionsByName
    map,        \* existingMap: old_id to record
    batch, pos, offset,     \* the rows fetched, the next one; in pass 2 the next record
    relationMaps,           \* relationMaps of the table pass 2 is at
    runs, faults, edits,    \* bounds
    disturbed,  \* history: in this run a request failed or the source changed
    doubt,      \* history: old_ids the script may not know although they are stored
    dropped     \* history: columns of which a key was written to no field

sourceVars == <<fk, source>>
pocketVars == <<schema, store>>
passVars == <<map, batch, pos, offset, relationMaps>>
boundVars == <<runs, faults, edits, disturbed>>
vars == <<sourceVars, pocketVars, pc, order, at, known, passVars, boundVars,
          doubt, dropped>>

Running == pc \notin {"off", "done"}
table == order[at]

-----------------------------------------------------------------------------
(* Kahn's algorithm.  A table is released when its last parent is placed;  *)
(* a table's references to itself do not count.                            *)

Parents(t, planned) == (fk[t] \cap planned) \ {t}

\* The tables of S in the order in which they are configured.
Configured(S) ==
    LET Upto[n \in 0 .. Len(TABLES)] ==
          IF n = 0 THEN <<>>
          ELSE IF TABLES[n] \in S THEN Append(Upto[n - 1], TABLES[n]) ELSE Upto[n - 1]
    IN  Upto[Len(TABLES)]

\* Mutant: the tables are taken as they are configured.
ConfiguredOrder(planned) == Configured(planned)

Elements(s) == {s[i] : i \in DOMAIN s}

\* The first table of the queue is placed and releases some of its children.
PlaceFirst(s, planned) ==
    LET current == Head(s.queue)
        result == Append(s.result, current)
        released == {t \in planned : /\ current \in Parents(t, planned)
                                     /\ Parents(t, planned) \subseteq Elements(result)}
    IN  [queue |-> Tail(s.queue) \o Configured(released), result |-> result]

topologicalSortTables(planned) ==
    LET tables == Configured(planned)
        Sorted[n \in 0 .. Len(tables)] ==
            IF n = 0
            THEN [queue |-> Configured({t \in planned : Parents(t, planned) = {}}), result |-> <<>>]
            ELSE IF Sorted[n - 1].queue = <<>> THEN Sorted[n - 1]
            ELSE PlaceFirst(Sorted[n - 1], planned)
        sorted == Sorted[Len(tables)].result
    IN  IF Len(sorted) # Len(tables) THEN tables ELSE sorted

-----------------------------------------------------------------------------
NoSchema == [made |-> FALSE, old_id |-> FALSE,
             link |-> [c \in Tables |-> "absent"], temp |-> {}]

Init ==
    /\ fk \in Schemas
    /\ source \in {s \in [Tables -> UNION {Sources[t] : t \in Tables}] :
                      \A t \in Tables : s[t] \in Sources[t]}
    /\ schema = [t \in Tables |-> NoSchema]
    /\ store = [t \in Tables |-> <<>>]
    /\ pc = "off" /\ order = <<>> /\ at = 1
    /\ known = {} /\ map = <<>>
    /\ batch = <<>> /\ pos = 1 /\ offset = 0 /\ relationMaps = <<>>
    /\ runs = 0 /\ faults = 0 /\ edits = 0
    /\ disturbed = FALSE /\ doubt = {} /\ dropped = {}

Smooth == UNCHANGED <<faults, disturbed>>
Fault ==
    /\ faults < MaxFaults
    /\ faults' = faults + 1
    /\ disturbed' = TRUE

\* Mutant: the loop runs once more.
NextTableTooFar(phase, next) ==
    /\ IF at <= Len(order) THEN at' = at + 1 /\ pc' = phase
                           ELSE at' = 1 /\ pc' = next
    /\ pos' = 1 /\ offset' = 0 /\ batch' = <<>> /\ map' = <<>> /\ relationMaps' = <<>>

\* The loops over orderedTables in main: the next table, or the next phase.
NextTable(phase, next) ==
    /\ IF at < Len(order) THEN at' = at + 1 /\ pc' = phase
                          ELSE at' = 1 /\ pc' = next
    /\ pos' = 1 /\ offset' = 0 /\ batch' = <<>> /\ map' = <<>> /\ relationMaps' = <<>>

-----------------------------------------------------------------------------
(* The operator starts the script: plans, order, list of collections.      *)
(* A table whose plan fails is left out of the run.                        *)

Start(planned) ==
    /\ ~Running /\ runs < MaxRuns
    /\ runs' = runs + 1
    /\ IF planned = Tables
       THEN disturbed' = FALSE /\ UNCHANGED faults
       ELSE planned # {} /\ Fault
    /\ order' = topologicalSortTables(planned)
    /\ known' = {t \in Tables : schema[t].made}
    /\ pc' = "ensure" /\ at' = 1 /\ map' = <<>> /\ doubt' = {}
    /\ pos' = 1 /\ offset' = 0 /\ batch' = <<>> /\ relationMaps' = <<>>
    /\ UNCHANGED <<sourceVars, pocketVars, edits, dropped>>

\* buildDesiredFields and syncMissingFields: fields are added, never changed.
\* Without the parent's collection a key gets a text field and no temporary one.
Synced(t) ==
    [made |-> TRUE, old_id |-> TRUE,
     link |-> [c \in Tables |->
                 IF c \notin fk[t] \/ schema[t].link[c] # "absent" THEN schema[t].link[c]
                 ELSE IF c \in known THEN "relation" ELSE "text"],
     temp |-> schema[t].temp \cup (fk[t] \cap known)]

\* createCollection without its fields, then some of them one by one.
PartlySynced(t) ==
    {[made |-> TRUE,
      old_id |-> o \/ schema[t].old_id,
      link |-> [c \in Tables |-> IF c \in L THEN Synced(t).link[c] ELSE schema[t].link[c]],
      temp |-> schema[t].temp \cup T] :
        o \in BOOLEAN, L \in SUBSET fk[t], T \in SUBSET (fk[t] \cap known)}

EnsureCollection ==
    /\ pc = "ensure"
    /\ \/ /\ Smooth
          /\ schema' = [schema EXCEPT ![table] = Synced(table)]
          /\ known' = known \cup {table}
       \/ /\ Fault
          /\ \E s \in PartlySynced(table) : schema' = [schema EXCEPT ![table] = s]
          /\ known' \in {known, known \cup {table}}
       \/ Fault /\ UNCHANGED <<schema, known>>
    /\ NextTable("ensure", "map")
    /\ UNCHANGED <<sourceVars, store, order, runs, edits, doubt, dropped>>

-----------------------------------------------------------------------------
(* buildOldIdToPocketIdMap over the first n records: the last one wins.    *)

\* Mutant: only the first page is read.
MapOfFirstPage(t, n) ==
    LET found == {i \in 1 .. n : store[t][i].old_id # NoKey /\ i <= POCKETBASE_PAGE_SIZE}
    IN  [o \in {store[t][i].old_id : i \in found} |->
            CHOOSE i \in found : /\ store[t][i].old_id = o
                                 /\ \A j \in found : store[t][j].old_id = o => j <= i]

MapOf(t, n) ==
    LET found == {i \in 1 .. n : store[t][i].old_id # NoKey}
    IN  [o \in {store[t][i].old_id : i \in found} |->
            CHOOSE i \in found : /\ store[t][i].old_id = o
                                 /\ \A j \in found : store[t][j].old_id = o => j <= i]

\* A page that cannot be read ends the loop: the records before it are known.
CutAt(t) == {n \in 0 .. Len(store[t]) : /\ n % POCKETBASE_PAGE_SIZE = 0
                                        /\ n = 0 \/ n < Len(store[t])}

\* The records that hold no old_id were written before the field was there.
Keyless(t) == {store[t][i].of : i \in {j \in DOMAIN store[t] : store[t][j].old_id = NoKey}}

BuildExistingMap ==
    /\ pc = "map"
    /\ \/ /\ Smooth
          /\ map' = MapOf(table, Len(store[table]))
          /\ doubt' = Keyless(table)
       \/ /\ Fault
          /\ \E n \in CutAt(table) : map' = MapOf(table, n)
          /\ doubt' = Keys
    /\ pc' = "fetch"
    /\ UNCHANGED <<sourceVars, pocketVars, order, at, known, batch, pos, offset,
                   relationMaps, runs, edits, dropped>>

\* The rows in the order in which an unordered query may return them.
Unordered(rows) ==
    {[i \in DOMAIN rows |-> rows[p[i]]] :
        p \in {q \in [DOMAIN rows -> DOMAIN rows] :
                  \A i, j \in DOMAIN rows : q[i] = q[j] => i = j}}

\* fetchSupabaseBatch: when the ordered query fails, one without an order.
Slice(rows) == SubSeq(rows, offset + 1,
                      IF offset + BATCH_SIZE < Len(rows) THEN offset + BATCH_SIZE
                                                         ELSE Len(rows))

\* Mutant: the offset stays where it is.
FetchSameBatch ==
    /\ pc = "fetch"
    /\ Smooth /\ batch' = Slice(source[table])
    /\ pc' = "rows" /\ pos' = 1
    /\ UNCHANGED <<sourceVars, pocketVars, order, at, known, map, offset, relationMaps,
                   runs, edits, doubt, dropped>>

FetchBatch ==
    /\ pc = "fetch"
    /\ \/ /\ \/ Smooth /\ batch' = Slice(source[table])
             \/ Fault /\ \E rows \in Unordered(source[table]) : batch' = Slice(rows)
          /\ pc' = "rows" /\ pos' = 1
          /\ offset' = offset + BATCH_SIZE
          /\ UNCHANGED <<at, map, relationMaps>>
       \/ Fault /\ NextTable("map", "links")
    /\ UNCHANGED <<sourceVars, pocketVars, order, known, runs, edits, doubt, dropped>>

-----------------------------------------------------------------------------
(* Pass 1.  What a record becomes: fields the collection has not got are   *)
(* ignored.  of and want are history: the row and the keys it came from.   *)

buildPass1RecordPayload(row, t) ==
    LET want == [c \in Tables |-> IF c \in fk[t] THEN Norm[row.ref[c]] ELSE NoKey]
    IN  [of |-> Norm[row.key],
         old_id |-> IF schema[t].old_id THEN Norm[row.key] ELSE NoKey,
         want |-> want,
         temp |-> [c \in Tables |-> IF c \in schema[t].temp THEN want[c] ELSE NoKey],
         link |-> [c \in Tables |-> 0]]

Update(t, i, new) == store' = [store EXCEPT ![t][i] = new]

\* Mutant: the payload of an update does not clear the relations.
UpsertKeepingLinks(t, row) ==
    LET o == Norm[row.key]
        payload == buildPass1RecordPayload(row, t)
    IN  /\ IF o \in DOMAIN map
              THEN Update(t, map[o], [payload EXCEPT !.link = store[t][map[o]].link])
              ELSE store' = [store EXCEPT ![t] = Append(@, payload)]
        /\ dropped' = dropped \cup
              {<<t, c>> : c \in {d \in fk[t] \ schema[t].temp : payload.want[d] # NoKey}}

\* Mutant: the payload of an update clears the relations without the keys.
UpsertKeepingKeys(t, row) ==
    LET o == Norm[row.key]
        payload == buildPass1RecordPayload(row, t)
    IN  /\ IF o \in DOMAIN map
              THEN Update(t, map[o], [payload EXCEPT !.temp = store[t][map[o]].temp])
              ELSE store' = [store EXCEPT ![t] = Append(@, payload)]
        /\ dropped' = dropped \cup
              {<<t, c>> : c \in {d \in fk[t] \ schema[t].temp : payload.want[d] # NoKey}}

Upsert(t, row) ==
    LET o == Norm[row.key]
        payload == buildPass1RecordPayload(row, t)
    IN  /\ IF o \in DOMAIN map THEN Update(t, map[o], payload)
           ELSE store' = [store EXCEPT ![t] = Append(@, payload)]
        /\ dropped' = dropped \cup
              {<<t, c>> : c \in {d \in fk[t] \ schema[t].temp : payload.want[d] # NoKey}}

\* The answer tells the new record's id; without it the row counts as failed.
Remember(t, o) ==
    map' = [k \in DOMAIN map \cup {o} |->
              IF k \in DOMAIN map THEN map[k] ELSE Len(store[t]) + 1]

MigrateRow ==
    /\ pc = "rows" /\ pos <= Len(batch)
    /\ LET row == batch[pos]
           o == Norm[row.key] IN
       \/ /\ o = NoKey \/ ~schema[table].made
          /\ Smooth
          /\ UNCHANGED <<store, map, doubt, dropped>>
       \/ /\ o # NoKey /\ schema[table].made
          /\ \/ Smooth /\ Upsert(table, row) /\ Remember(table, o) /\ UNCHANGED doubt
             \/ Fault /\ Upsert(table, row) /\ UNCHANGED map /\ doubt' = doubt \cup {o}
             \/ Fault /\ UNCHANGED <<store, map, doubt, dropped>>
    /\ pos' = pos + 1
    /\ UNCHANGED <<sourceVars, schema, pc, order, at, known, batch, offset, relationMaps,
                   runs, edits>>

\* Mutant: a table ends with its first batch.
EndFirstBatch ==
    /\ pc = "rows" /\ pos > Len(batch)
    /\ NextTable("map", "links")
    /\ UNCHANGED <<sourceVars, pocketVars, order, known, boundVars, doubt, dropped>>

EndBatch ==
    /\ pc = "rows" /\ pos > Len(batch)
    /\ IF Len(batch) < BATCH_SIZE THEN NextTable("map", "links")
       ELSE pc' = "fetch" /\ UNCHANGED <<at, passVars>>
    /\ UNCHANGED <<sourceVars, pocketVars, order, known, boundVars, doubt, dropped>>

-----------------------------------------------------------------------------
(* Pass 2, record by record.                                               *)

PlannedTables == Elements(order)
record == store[table][pos]
\* Columns of the record that hold a key and refer to a table with a plan.
Unresolved == {c \in fk[table] \cap PlannedTables : record.temp[c] # NoKey}

\* getRelationMap: read when a record first needs it, kept for the table.
ReadRelationMap ==
    /\ pc = "links" /\ pos <= Len(store[table])
    /\ \E c \in Unresolved \ DOMAIN relationMaps :
          /\ \/ /\ Smooth
                /\ relationMaps' = [d \in DOMAIN relationMaps \cup {c} |->
                      IF d = c THEN MapOf(c, Len(store[c])) ELSE relationMaps[d]]
             \/ /\ Fault
                /\ \E n \in CutAt(c) :
                      relationMaps' = [d \in DOMAIN relationMaps \cup {c} |->
                            IF d = c THEN MapOf(c, n) ELSE relationMaps[d]]
    /\ UNCHANGED <<sourceVars, pocketVars, pc, order, at, known, map, batch, pos, offset,
                   runs, edits, doubt, dropped>>

\* The columns whose key has a record: these are patched, the others kept.
Resolved == {c \in Unresolved : record.temp[c] \in DOMAIN relationMaps[c]}

Patched ==
    [record EXCEPT
       !.link = [c \in Tables |-> IF c \in Resolved /\ schema[table].link[c] # "absent"
                                  THEN relationMaps[c][record.temp[c]] ELSE @[c]],
       !.temp = [c \in Tables |-> IF c \in Resolved THEN NoKey ELSE @[c]]]

LinkRecord ==
    /\ pc = "links" /\ fk[table] # {} /\ pos <= Len(store[table])
    /\ Unresolved \subseteq DOMAIN relationMaps
    /\ \/ Resolved = {} /\ Smooth /\ UNCHANGED <<store, dropped>>
       \/ /\ Resolved # {}
          /\ \/ /\ Smooth \/ Fault       \* a fault: the answer is lost
                /\ Update(table, pos, Patched)
                /\ dropped' = dropped \cup
                      {<<table, c>> : c \in {d \in Resolved : schema[table].link[d] = "absent"}}
             \/ Fault /\ UNCHANGED <<store, dropped>>
    /\ pos' = pos + 1
    /\ UNCHANGED <<sourceVars, schema, pc, order, at, known, map, batch, offset,
                   relationMaps, runs, edits, doubt>>

\* The last record is done, or the next page of records cannot be read.
EndLinks ==
    /\ pc = "links"
    /\ \/ (fk[table] = {} \/ pos > Len(store[table])) /\ Smooth
       \/ (pos - 1) % POCKETBASE_PAGE_SIZE = 0 /\ fk[table] # {} /\ Fault
    /\ NextTable("links", "done")
    /\ UNCHANGED <<sourceVars, pocketVars, order, known, runs, edits, doubt, dropped>>

-----------------------------------------------------------------------------
(* The world around the script: it dies, or users change Supabase.         *)

Crash ==
    /\ Running
    /\ pc' = "off" /\ order' = <<>> /\ at' = 1 /\ known' = {} /\ map' = <<>>
    /\ batch' = <<>> /\ pos' = 1 /\ offset' = 0 /\ relationMaps' = <<>>
    /\ doubt' = {} /\ disturbed' = FALSE
    /\ UNCHANGED <<sourceVars, pocketVars, runs, faults, edits, dropped>>

EditSource ==
    /\ edits < MaxEdits
    /\ edits' = edits + 1
    /\ \E t \in Tables : \E rows \in Sources[t] \ {source[t]} :
          source' = [source EXCEPT ![t] = rows]
    /\ disturbed' = TRUE
    /\ UNCHANGED <<fk, pocketVars, pc, order, at, known, passVars, runs, faults,
                   doubt, dropped>>

Ended == ~Running /\ runs = MaxRuns /\ UNCHANGED vars

Step ==
    \/ EnsureCollection \/ BuildExistingMap \/ FetchBatch \/ MigrateRow \/ EndBatch
    \/ ReadRelationMap \/ LinkRecord \/ EndLinks

Next ==
    \/ \E planned \in SUBSET Tables : Start(planned)
    \/ Step
    \/ Crash \/ EditSource \/ Ended

Spec == Init /\ [][Next]_vars
\* Node runs the script on; every request is answered or fails.
FairSpec == Spec /\ WF_vars(Step)

-----------------------------------------------------------------------------
(* What the migration promises.                                            *)

KeyOrNone == Keys \cup {NoKey}
Record == [of : Keys, old_id : KeyOrNone, want : [Tables -> KeyOrNone],
           temp : [Tables -> KeyOrNone], link : [Tables -> Nat]]
Schema == [made : BOOLEAN, old_id : BOOLEAN,
           link : [Tables -> {"absent", "text", "relation"}], temp : SUBSET Tables]
MapInto(f, t) == /\ DOMAIN f \subseteq Keys
                 /\ \A o \in DOMAIN f : f[o] \in DOMAIN store[t]

\* Every variable has its type, and the maps lead to records that exist.
TypeOK ==
    /\ fk \in [Tables -> SUBSET Tables]
    /\ \A t \in Tables : source[t] \in Sources[t]
    /\ schema \in [Tables -> Schema]
    /\ store \in [Tables -> Seq(Record)]
    /\ pc \in {"off", "ensure", "map", "fetch", "rows", "links", "done"}
    /\ order \in Seq(Tables) /\ at \in Nat \ {0}
    /\ Running => at <= Len(order)
    /\ known \subseteq Tables
    /\ pc \in {"fetch", "rows"} => MapInto(map, table)
    /\ batch \in Seq(Row) /\ pos \in Nat \ {0} /\ offset \in Nat
    /\ DOMAIN relationMaps \subseteq Tables
    /\ \A c \in DOMAIN relationMaps : MapInto(relationMaps[c], c)
    /\ runs \in 0 .. MaxRuns /\ faults \in 0 .. MaxFaults /\ edits \in 0 .. MaxEdits
    /\ disturbed \in BOOLEAN /\ doubt \subseteq Keys /\ dropped \subseteq Tables \X Tables

\* The line of a table: its parents come first, unless the references form a
\* cycle.  So while no request fails every key has its temporary field, no
\* relation becomes a text field and nothing is dropped (TABLES is in any order).
Acyclic == /\ \A t \in Tables : t \notin fk[t]
           /\ \A S \in SUBSET Tables \ {{}} : \E t \in S : fk[t] \cap S = {}
ParentsFirst ==
    faults = 0 /\ Acyclic =>
        /\ dropped = {}
        /\ \A t, c \in Tables : schema[t].link[c] # "text"

\* Whatever failed, died or was edited, in this run or an earlier one: a
\* relation that is set leads to a record of the key the row had when it was
\* written, never to another and never to none.
LinksAreRight ==
    \A t, c \in Tables : \A i \in DOMAIN store[t] :
        LET r == store[t][i] IN
        r.link[c] # 0 => /\ r.link[c] \in DOMAIN store[c]
                         /\ store[c][r.link[c]].of = r.want[c]

\* At every moment, a crash between the passes included, each foreign key of
\* each record is there as a key or as a relation.  Only columns that the
\* schema had no field for have lost some.
KeyOrLink ==
    \A t, c \in Tables : \A i \in DOMAIN store[t] :
        LET r == store[t][i] IN
        \/ <<t, c>> \in dropped \/ r.want[c] = NoKey
        \/ r.link[c] # 0 \/ r.temp[c] = r.want[c]

\* A second record for a row is only made when this run could not read the
\* old_ids or lost the answer to a create: restarts alone never duplicate.
Copies(t, o) == {i \in DOMAIN store[t] : store[t][i].of = o}
TwinsComeOfDoubt ==
    [][\A t \in Tables : \A o \in Keys :
          Copies(t, o) # {} /\ Copies(t, o)' # Copies(t, o) => o \in doubt]_vars

\* However earlier runs ended: after a run in which no request failed and the
\* source stood still, every row with a key has its record (of rows whose keys
\* are normalized alike, the last), with every foreign key whose row exists
\* resolved; columns that have no temporary field or no relation are excepted.
MigratedWhole ==
    pc = "done" /\ ~disturbed =>
        \A t \in Tables : \A n \in DOMAIN source[t] :
            LET o == Norm[source[t][n].key]
                HasRow(c, k) == \E m \in DOMAIN source[c] : Norm[source[c][m].key] = k
            IN  \/ o = NoKey
                \/ \E m \in DOMAIN source[t] : m > n /\ Norm[source[t][m].key] = o
                \/ \E i \in Copies(t, o) : \A c \in fk[t] :
                      LET r == store[t][i]
                          k == Norm[source[t][n].ref[c]] IN
                      /\ r.want[c] = k
                      /\ \/ k = NoKey \/ ~HasRow(c, k)
                         \/ c \notin schema[t].temp \/ schema[t].link[c] = "absent"
                         \/ r.link[c] # 0 /\ r.temp[c] = NoKey

\* A run comes to its end: the loops over batches and pages stop.
RunEnds == Running ~> ~Running

\* "Fallback when no relation field is available yet" (migrate.js:1021): the
\* key of a column without a temporary field is kept in the column itself.
KeysAreKept == faults = 0 => dropped = {}

=============================================================================
