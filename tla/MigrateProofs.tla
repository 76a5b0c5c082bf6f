--------------------------- MODULE MigrateProofs ---------------------------
(***************************************************************************)
(* What holds of the migration for any tables, references, keys, batch     *)
(* and page sizes, and any number of runs, failures, crashes and edits:    *)
(* relations are right, keys are not lost, restarts make no twins, parents *)
(* come first, and an undisturbed run migrates everything.                 *)
(*                                                                         *)
(* The order of the tables is computed by a recursive function, on which   *)
(* no induction can be made: what OrderLists says of it is proved by its   *)
(* least counterexample.                                                   *)
(***************************************************************************)
EXTENDS Migrate, TLAPS, WellFoundedInduction, SequenceTheorems, FiniteSetTheorems

\* Every nonempty set of natural numbers has a least element.
LEMMA HasLeast ==
  ASSUME NEW T \in SUBSET Nat, T # {}
  PROVE  \E x \in T : \A y \in T : x <= y
<1>. DEFINE R == OpToRel(<, Nat)
<1>1. R = {ss \in Nat \X Nat : ss[1] < ss[2]}
  BY Zenon DEF OpToRel
<1>2. IsWellFoundedOn(R, Nat)
  BY NatLessThanWellFounded
<1>. HIDE DEF R
<1>3. PICK x \in T : \A y \in T : ~ (<<y, x>> \in R)
  BY <1>2, WFMin
<1>4. \A y \in T : ~ (y < x)
  BY <1>3, <1>1
<1>. QED
  BY <1>4

\* Every nonempty set of numbers up to n has a greatest element.
LEMMA HasGreatest ==
  ASSUME NEW n \in Nat, NEW T \in SUBSET (1 .. n), T # {}
  PROVE  \E x \in T : \A y \in T : y <= x
<1>. DEFINE U == {m \in Nat : n - m \in T}
<1>1. PICK t \in T : TRUE
  OBVIOUS
<1>2. n - t \in U
  OBVIOUS
<1>3. U \in SUBSET Nat /\ U # {}
  BY <1>2
<1>4. PICK u \in U : \A y \in U : u <= y
  BY <1>3, HasLeast
<1>5. n - u \in T
  BY <1>4
<1>6. ASSUME NEW y \in T PROVE y <= n - u
  <2>1. n - y \in U
    OBVIOUS
  <2>2. u <= n - y
    BY <2>1, <1>4
  <2>3. u \in Int /\ y \in Int
    OBVIOUS
  <2>. QED
    BY <2>2, <2>3
<1>. QED
  BY <1>5, <1>6

-----------------------------------------------------------------------------
(* The invariant.                                                          *)

\* The types of what the script reads and writes.
StoreType ==
    /\ fk \in [Tables -> SUBSET Tables]
    /\ source \in [Tables -> Seq(Row)]
    /\ store \in [Tables -> Seq(Record)]
    /\ pos \in Nat \ {0} /\ offset \in Nat
    /\ pc = "rows" => \A t \in Tables : t = table => batch \in Seq(Row)

\* A record holds its own old_id or none, and the keys it was written with.
RecordIsTrue(r) ==
    /\ r.old_id \in {NoKey, r.of}
    /\ \A c \in Tables : r.temp[c] \in {NoKey, r.want[c]}
RecordsAreTrue == \A t \in Tables : \A i \in DOMAIN store[t] : RecordIsTrue(store[t][i])

\* A map leads from an old_id to a record of that row.
Leads(f, t) ==
    \A o \in DOMAIN f : f[o] \in DOMAIN store[t] /\ store[t][f[o]].of = o

\* existingMap leads to the right records and, doubt aside, knows all of them.
MapIsRight ==
    pc \in {"fetch", "rows"} => \A t \in Tables : t = table =>
        /\ Leads(map, t)
        /\ \A i \in DOMAIN store[t] : store[t][i].of \in DOMAIN map \cup doubt

RelationMapsAreRight ==
    \A c \in Tables \cap DOMAIN relationMaps : Leads(relationMaps[c], c)

IInv == /\ StoreType /\ RecordsAreTrue /\ MapIsRight /\ RelationMapsAreRight
        /\ LinksAreRight /\ KeyOrLink

-----------------------------------------------------------------------------
(* What the helpers return.                                                *)

\* buildOldIdToPocketIdMap: each old_id of the records read, and where it is.
LEMMA MapOfLeads ==
  ASSUME StoreType, RecordsAreTrue, NEW t \in Tables, NEW n \in 0 .. Len(store[t])
  PROVE  /\ Leads(MapOf(t, n), t)
         /\ \A i \in 1 .. n : store[t][i].old_id # NoKey => store[t][i].of \in DOMAIN MapOf(t, n)
<1>. DEFINE found == {i \in 1 .. n : store[t][i].old_id # NoKey}
<1>1. /\ store[t] \in Seq(Record) /\ n \in Nat /\ DOMAIN store[t] = 1 .. Len(store[t])
      /\ Len(store[t]) \in Nat
  BY DEF StoreType
<1>2. DOMAIN MapOf(t, n) = {store[t][i].old_id : i \in found}
  BY DEF MapOf
<1>3. \A i \in found : store[t][i].of = store[t][i].old_id
  BY <1>1 DEF RecordsAreTrue, RecordIsTrue
<1>4. ASSUME NEW o \in DOMAIN MapOf(t, n)
      PROVE  MapOf(t, n)[o] \in found /\ store[t][MapOf(t, n)[o]].old_id = o
  <2>. DEFINE T == {i \in found : store[t][i].old_id = o}
  <2>1. T \in SUBSET (1 .. n) /\ T # {}
    BY <1>2
  <2>2. \E x \in T : \A y \in T : y <= x
    BY <1>1, <2>1, HasGreatest
  <2>3. \E i \in found : /\ store[t][i].old_id = o
                         /\ \A j \in found : store[t][j].old_id = o => j <= i
    BY <2>2
  <2>4. MapOf(t, n)[o] = CHOOSE i \in found :
                            /\ store[t][i].old_id = o
                            /\ \A j \in found : store[t][j].old_id = o => j <= i
    BY <1>2 DEF MapOf
  <2>. HIDE DEF found, T
  <2>. QED
    BY <2>3, <2>4
<1>5. \A i \in found : i \in DOMAIN store[t]
  BY <1>1
<1>6. Leads(MapOf(t, n), t)
  BY <1>3, <1>4, <1>5 DEF Leads
<1>7. ASSUME NEW i \in 1 .. n, store[t][i].old_id # NoKey
      PROVE  store[t][i].of \in DOMAIN MapOf(t, n)
  BY <1>2, <1>3, <1>7
<1>. QED
  BY <1>6, <1>7

\* The places where a page may be cut off are within the collection.
LEMMA CutIsWithin ==
  ASSUME NEW t \in Tables, NEW n \in CutAt(t)
  PROVE  n \in 0 .. Len(store[t])
BY DEF CutAt

\* What pass 1 writes is a record of its row, with no relation set.
LEMMA PayloadIsTrue ==
  ASSUME MigrateAssumption, NEW row \in Row, NEW t, Norm[row.key] # NoKey
  PROVE  LET r == buildPass1RecordPayload(row, t) IN
         /\ r \in Record /\ RecordIsTrue(r) /\ r.of = Norm[row.key]
         /\ \A c \in Tables : r.link[c] = 0
         /\ \A c \in Tables : \/ r.want[c] = NoKey \/ r.temp[c] = r.want[c]
                              \/ c \in fk[t] \ schema[t].temp
<1>. DEFINE want == [c \in Tables |-> IF c \in fk[t] THEN Norm[row.ref[c]] ELSE NoKey]
            temp == [c \in Tables |-> IF c \in schema[t].temp THEN want[c] ELSE NoKey]
            link == [c \in Tables |-> 0]
            old == IF schema[t].old_id THEN Norm[row.key] ELSE NoKey
<1>1. Norm[row.key] \in Keys /\ row.ref \in [Tables -> RawKeys]
  BY DEF MigrateAssumption, Row
<1>2. want \in [Tables -> KeyOrNone]
  BY <1>1 DEF MigrateAssumption, KeyOrNone
<1>3. temp \in [Tables -> KeyOrNone]
  BY <1>2 DEF KeyOrNone
<1>4. link \in [Tables -> Nat] /\ old \in {NoKey, Norm[row.key]}
  OBVIOUS
<1>5. buildPass1RecordPayload(row, t) =
        [of |-> Norm[row.key], old_id |-> old, want |-> want, temp |-> temp, link |-> link]
  BY DEF buildPass1RecordPayload
<1>6. \A c \in Tables : temp[c] \in {NoKey, want[c]}
  OBVIOUS
<1>7. \A c \in Tables : want[c] = NoKey \/ temp[c] = want[c] \/ c \in fk[t] \ schema[t].temp
  OBVIOUS
<1>8. \A c \in Tables : link[c] = 0
  OBVIOUS
<1>. HIDE DEF want, temp, link, old
<1>9. [of |-> Norm[row.key], old_id |-> old, want |-> want, temp |-> temp, link |-> link]
        \in Record
  BY <1>1, <1>2, <1>3, <1>4 DEF Record, KeyOrNone
<1>. QED
  BY <1>4, <1>5, <1>6, <1>7, <1>8, <1>9 DEF RecordIsTrue

-----------------------------------------------------------------------------
(* How the collections change.                                             *)

\* What a relation must lead to.
LinksLead(r) ==
    \A c \in Tables : r.link[c] # 0 =>
        r.link[c] \in DOMAIN store[c] /\ store[c][r.link[c]].of = r.want[c]

\* The records stay where they are and remain those of their rows.
Stay == \A t \in Tables : \A i \in DOMAIN store[t] :
            i \in DOMAIN store'[t] /\ store'[t][i].of = store[t][i].of

\* A map that led to the right records still does.
LEMMA LeadsStays ==
  ASSUME Stay, NEW t \in Tables, NEW f, Leads(f, t)
  PROVE  Leads(f, t)'
BY DEF Stay, Leads

\* A relation that led to the right record still does.
LEMMA LinksLeadStays ==
  ASSUME Stay, NEW r, LinksLead(r)
  PROVE  LinksLead(r)'
BY DEF Stay, LinksLead

\* The records after an update.
LEMMA UpdateStores ==
  ASSUME StoreType, NEW t, NEW i, NEW new \in Record, Update(t, i, new)
  PROVE  /\ store' \in [Tables -> Seq(Record)]
         /\ \A u \in Tables : DOMAIN store'[u] = DOMAIN store[u]
         /\ \A u \in Tables : \A j \in DOMAIN store[u] :
               store'[u][j] = IF u = t /\ j = i THEN new ELSE store[u][j]
<1>. DEFINE at_(u) == IF u = t THEN [store[u] EXCEPT ![i] = new] ELSE store[u]
<1>1. store \in [Tables -> Seq(Record)]
  BY DEF StoreType
<1>2. store' = [u \in Tables |-> at_(u)]
  BY <1>1 DEF Update
<1>3. ASSUME NEW u \in Tables
      PROVE  /\ at_(u) \in Seq(Record) /\ DOMAIN at_(u) = DOMAIN store[u]
             /\ \A j \in DOMAIN store[u] :
                   at_(u)[j] = IF u = t /\ j = i THEN new ELSE store[u][j]
  <2>1. store[u] \in Seq(Record)
    BY <1>1
  <2>2. CASE u = t /\ i \in 1 .. Len(store[u])
    BY <2>1, <2>2, ExceptSeq
  <2>3. CASE u = t /\ i \notin 1 .. Len(store[u])
    <3>1. [store[u] EXCEPT ![i] = new] = store[u]
      BY <2>1, <2>3
    <3>. QED
      BY <2>1, <2>3, <3>1
  <2>4. CASE u # t
    BY <2>1, <2>4
  <2>. QED
    BY <2>2, <2>3, <2>4, <2>1
<1>. QED
  BY <1>2, <1>3

\* The records after a create.
LEMMA AppendStores ==
  ASSUME StoreType, NEW t, NEW new \in Record,
         store' = [store EXCEPT ![t] = Append(@, new)]
  PROVE  /\ store' \in [Tables -> Seq(Record)]
         /\ \A u \in Tables : \A j \in DOMAIN store[u] :
               j \in DOMAIN store'[u] /\ store'[u][j] = store[u][j]
         /\ \A u \in Tables : \A j \in DOMAIN store'[u] :
               \/ j \in DOMAIN store[u]
               \/ u = t /\ j = Len(store[t]) + 1 /\ store'[u][j] = new
         /\ t \in Tables => /\ Len(store[t]) + 1 \in DOMAIN store'[t]
                            /\ store'[t][Len(store[t]) + 1] = new
<1>1. store \in [Tables -> Seq(Record)]
  BY DEF StoreType
<1>2. \A u \in Tables : store'[u] = IF u = t THEN Append(store[u], new) ELSE store[u]
  BY <1>1
<1>3. store' \in [Tables -> Seq(Record)]
  <2>1. store' = [u \in Tables |-> IF u = t THEN Append(store[u], new) ELSE store[u]]
    BY <1>1
  <2>2. \A u \in Tables : store[u] \in Seq(Record) /\ Append(store[u], new) \in Seq(Record)
    BY <1>1, AppendProperties
  <2>. QED
    BY <2>1, <2>2
<1>4. ASSUME NEW u \in Tables
      PROVE  /\ \A j \in DOMAIN store[u] : j \in DOMAIN store'[u] /\ store'[u][j] = store[u][j]
             /\ \A j \in DOMAIN store'[u] :
                   \/ j \in DOMAIN store[u]
                   \/ u = t /\ j = Len(store[t]) + 1 /\ store'[u][j] = new
             /\ u = t => /\ Len(store[t]) + 1 \in DOMAIN store'[t]
                        /\ store'[t][Len(store[t]) + 1] = new
  <2>1. /\ store[u] \in Seq(Record) /\ DOMAIN store[u] = 1 .. Len(store[u])
        /\ Len(store[u]) \in Nat
    BY <1>1
  <2>2. CASE u = t
    <3>1. store'[u] = Append(store[u], new)
      BY <1>2, <2>2
    <3>2. /\ Append(store[u], new) \in Seq(Record)
          /\ Len(Append(store[u], new)) = Len(store[u]) + 1
          /\ \A j \in 1 .. Len(store[u]) : Append(store[u], new)[j] = store[u][j]
          /\ Append(store[u], new)[Len(store[u]) + 1] = new
      BY <2>1, AppendProperties
    <3>3. DOMAIN store'[u] = 1 .. Len(store[u]) + 1
      BY <3>1, <3>2
    <3>. QED
      BY <2>1, <2>2, <3>1, <3>2, <3>3
  <2>3. CASE u # t
    BY <1>2, <2>3
  <2>. QED
    BY <2>2, <2>3
<1>. QED
  BY <1>3, <1>4

\* If every record that is there was there, with the same keys, or is a true
\* record whose relations lead right, the relations and the keys are right.
LEMMA RecordsAreKept ==
  ASSUME StoreType, RecordsAreTrue, LinksAreRight, KeyOrLink,
         store' \in [Tables -> Seq(Record)], Stay, dropped \subseteq dropped',
         \A u \in Tables : \A j \in DOMAIN store'[u] :
            \/ j \in DOMAIN store[u] /\ store'[u][j] = store[u][j]
            \/ /\ RecordIsTrue(store'[u][j])
               /\ LinksLead(store'[u][j])
               /\ \A c \in Tables : \/ <<u, c>> \in dropped'
                                    \/ store'[u][j].want[c] = NoKey
                                    \/ store'[u][j].link[c] # 0
                                    \/ store'[u][j].temp[c] = store'[u][j].want[c]
  PROVE  RecordsAreTrue' /\ LinksAreRight' /\ KeyOrLink'
<1>1. RecordsAreTrue'
  BY DEF RecordsAreTrue, RecordIsTrue
<1>2. ASSUME NEW u \in Tables, NEW j \in DOMAIN store'[u]
      PROVE  LinksLead(store'[u][j])
  BY SMTT(30) DEF LinksAreRight, LinksLead
<1>3. ASSUME NEW u \in Tables, NEW c \in Tables, NEW j \in DOMAIN store'[u],
             store'[u][j].link[c] # 0
      PROVE  /\ store'[u][j].link[c] \in DOMAIN store'[c]
             /\ store'[c][store'[u][j].link[c]].of = store'[u][j].want[c]
  <2>1. /\ store'[u][j].link[c] \in DOMAIN store[c]
        /\ store[c][store'[u][j].link[c]].of = store'[u][j].want[c]
    BY <1>2, <1>3 DEF LinksLead
  <2>. QED
    BY <2>1 DEF Stay
<1>4. LinksAreRight'
  BY <1>3 DEF LinksAreRight
<1>5. ASSUME NEW u \in Tables, NEW c \in Tables, NEW j \in DOMAIN store'[u]
      PROVE  \/ <<u, c>> \in dropped' \/ store'[u][j].want[c] = NoKey
             \/ store'[u][j].link[c] # 0 \/ store'[u][j].temp[c] = store'[u][j].want[c]
  <2>1. CASE j \in DOMAIN store[u] /\ store'[u][j] = store[u][j]
    <3>1. \/ <<u, c>> \in dropped \/ store[u][j].want[c] = NoKey
          \/ store[u][j].link[c] # 0 \/ store[u][j].temp[c] = store[u][j].want[c]
      BY <2>1 DEF KeyOrLink
    <3>. QED
      BY <2>1, <3>1
  <2>. QED
    BY <2>1
<1>6. KeyOrLink'
  BY <1>5 DEF KeyOrLink
<1>. QED
  BY <1>1, <1>4, <1>6

-----------------------------------------------------------------------------
(* The steps.                                                              *)

\* A step that leaves the records alone keeps what is said of them.
LEMMA StoreUntouched ==
  ASSUME IInv, UNCHANGED <<fk, store>>, dropped' = dropped
  PROVE  /\ RecordsAreTrue' /\ LinksAreRight' /\ KeyOrLink'
         /\ \A f : \A t \in Tables : Leads(f, t) => Leads(f, t)'
<1>1. Stay
  BY DEF Stay
<1>. QED
  BY <1>1, LeadsStays, SMTT(30) DEF IInv, RecordsAreTrue, LinksAreRight, KeyOrLink, RecordIsTrue

\* So does a step that leaves pass 1, or is not in it, and forgets its maps.
LEMMA ForgetKeeps ==
  ASSUME IInv, UNCHANGED <<fk, store, dropped>>, source' \in [Tables -> Seq(Row)],
         pos' \in Nat \ {0}, offset' \in Nat, pc' \notin {"fetch", "rows"},
         relationMaps' = <<>>
  PROVE  IInv'
<1>1. RecordsAreTrue' /\ LinksAreRight' /\ KeyOrLink'
  BY StoreUntouched
<1>2. StoreType'
  BY DEF IInv, StoreType
<1>3. MapIsRight'
  BY DEF MapIsRight
<1>4. DOMAIN relationMaps' = {}
  OBVIOUS
<1>5. RelationMapsAreRight'
  BY <1>4 DEF RelationMapsAreRight
<1>. QED
  BY <1>1, <1>2, <1>3, <1>5 DEF IInv

LEMMA StartKeeps ==
  ASSUME IInv, NEW planned, Start(planned)
  PROVE  IInv'
<1>1. source' \in [Tables -> Seq(Row)]
  BY DEF Start, sourceVars, IInv, StoreType
<1>. QED
  BY <1>1, ForgetKeeps DEF Start, sourceVars, pocketVars

LEMMA EnsureCollectionKeeps ==
  ASSUME IInv, EnsureCollection
  PROVE  IInv'
<1>1. source' \in [Tables -> Seq(Row)]
  BY DEF EnsureCollection, sourceVars, IInv, StoreType
<1>. QED
  BY <1>1, ForgetKeeps DEF EnsureCollection, NextTable, sourceVars

LEMMA CrashKeeps ==
  ASSUME IInv, Crash
  PROVE  IInv'
<1>1. source' \in [Tables -> Seq(Row)]
  BY DEF Crash, sourceVars, IInv, StoreType
<1>. QED
  BY <1>1, ForgetKeeps DEF Crash, sourceVars, pocketVars

LEMMA EndLinksKeeps ==
  ASSUME IInv, EndLinks
  PROVE  IInv'
<1>1. source' \in [Tables -> Seq(Row)]
  BY DEF EndLinks, sourceVars, IInv, StoreType
<1>. QED
  BY <1>1, ForgetKeeps DEF EndLinks, NextTable, sourceVars, pocketVars

LEMMA EditSourceKeeps ==
  ASSUME MigrateAssumption, IInv, EditSource
  PROVE  IInv'
<1>1. RecordsAreTrue' /\ LinksAreRight' /\ KeyOrLink'
  BY StoreUntouched DEF EditSource, pocketVars
<1>2. \A f : \A t \in Tables : Leads(f, t) => Leads(f, t)'
  BY StoreUntouched DEF EditSource, pocketVars
<1>3. source' \in [Tables -> Seq(Row)]
  BY DEF EditSource, MigrateAssumption, IInv, StoreType
<1>4. StoreType'
  BY <1>3 DEF EditSource, pocketVars, passVars, IInv, StoreType, table
<1>5. MapIsRight'
  BY <1>2 DEF EditSource, pocketVars, passVars, IInv, MapIsRight, table
<1>6. RelationMapsAreRight'
  BY <1>2 DEF EditSource, passVars, IInv, RelationMapsAreRight
<1>. QED
  BY <1>1, <1>4, <1>5, <1>6 DEF IInv

\* Pass 1 begins a table: existingMap is read, in full or up to a page.
LEMMA BuildExistingMapKeeps ==
  ASSUME IInv, BuildExistingMap
  PROVE  IInv'
<1>. USE DEF BuildExistingMap, sourceVars, pocketVars
<1>1. RecordsAreTrue' /\ LinksAreRight' /\ KeyOrLink'
  BY StoreUntouched
<1>2. \A f : \A t \in Tables : Leads(f, t) => Leads(f, t)'
  BY StoreUntouched
<1>3. StoreType'
  BY DEF IInv, StoreType
<1>4. RelationMapsAreRight'
  BY <1>2 DEF IInv, RelationMapsAreRight
<1>5. ASSUME NEW t \in Tables, t = table
      PROVE  /\ Leads(map', t)
             /\ \A i \in DOMAIN store[t] : store[t][i].of \in DOMAIN map' \cup doubt'
  <2>1. /\ StoreType /\ RecordsAreTrue
        /\ store[t] \in Seq(Record) /\ DOMAIN store[t] = 1 .. Len(store[t])
        /\ Len(store[t]) \in 0 .. Len(store[t])
    BY DEF IInv, StoreType
  <2>2. CASE map' = MapOf(table, Len(store[table])) /\ doubt' = Keyless(table)
    <3>1. Leads(map', t)
      BY <1>5, <2>1, <2>2, MapOfLeads
    <3>2. \A i \in 1 .. Len(store[t]) :
             store[t][i].old_id # NoKey => store[t][i].of \in DOMAIN map'
      BY <1>5, <2>1, <2>2, MapOfLeads
    <3>3. \A i \in DOMAIN store[t] :
             store[t][i].old_id = NoKey => store[t][i].of \in doubt'
      BY <1>5, <2>2 DEF Keyless
    <3>. QED
      BY <2>1, <3>1, <3>2, <3>3
  <2>3. CASE (\E n \in CutAt(table) : map' = MapOf(table, n)) /\ doubt' = Keys
    <3>1. PICK n \in CutAt(t) : map' = MapOf(t, n)
      BY <1>5, <2>3
    <3>2. n \in 0 .. Len(store[t])
      BY CutIsWithin
    <3>3. Leads(map', t)
      BY <2>1, <3>1, <3>2, MapOfLeads
    <3>4. \A i \in DOMAIN store[t] : store[t][i] \in Record
      BY <2>1, ElementOfSeq
    <3>5. \A r \in Record : r.of \in Keys
      BY DEF Record
    <3>. QED
      BY <2>3, <3>3, <3>4, <3>5
  <2>. QED
    BY <2>2, <2>3
<1>6. MapIsRight'
  BY <1>2, <1>5 DEF MapIsRight, table, Leads
<1>. QED
  BY <1>1, <1>3, <1>4, <1>6 DEF IInv

\* A batch is a piece of the rows, in their order or in another.
LEMMA SliceOfRows ==
  ASSUME MigrateAssumption, offset \in Nat, NEW rows \in Seq(Row)
  PROVE  Slice(rows) \in Seq(Row)
<1>. DEFINE to == IF offset + BATCH_SIZE < Len(rows) THEN offset + BATCH_SIZE ELSE Len(rows)
<1>1. /\ offset + 1 \in Int /\ to \in Int /\ to <= Len(rows) /\ offset + 1 >= 1
      /\ Len(rows) \in Nat
  BY DEF MigrateAssumption
<1>2. \A i \in offset + 1 .. to : i \in 1 .. Len(rows)
  BY <1>1
<1>3. \A i \in offset + 1 .. to : rows[i] \in Row
  BY <1>2, ElementOfSeq
<1>. HIDE DEF to
<1>4. SubSeq(rows, offset + 1, to) \in Seq(Row)
  BY <1>1, <1>3, SubSeqProperties
<1>. QED
  BY <1>4 DEF Slice, to

LEMMA UnorderedRows ==
  ASSUME NEW rows \in Seq(Row), NEW other \in Unordered(rows)
  PROVE  other \in Seq(Row)
<1>1. PICK p \in [DOMAIN rows -> DOMAIN rows] : other = [i \in DOMAIN rows |-> rows[p[i]]]
  BY DEF Unordered
<1>2. Len(rows) \in Nat /\ DOMAIN rows = 1 .. Len(rows)
  OBVIOUS
<1>3. \A i \in 1 .. Len(rows) : rows[p[i]] \in Row
  BY <1>1, <1>2
<1>4. other \in [1 .. Len(rows) -> Row]
  BY <1>1, <1>2, <1>3
<1>. QED
  BY <1>2, <1>4, SeqDef

LEMMA FetchBatchKeeps ==
  ASSUME MigrateAssumption, IInv, FetchBatch
  PROVE  IInv'
<1>1. /\ source \in [Tables -> Seq(Row)] /\ source' = source
      /\ pos \in Nat \ {0} /\ offset \in Nat
  BY DEF FetchBatch, sourceVars, IInv, StoreType
<1>2. CASE NextTable("map", "links")
  BY <1>1, <1>2, ForgetKeeps DEF FetchBatch, NextTable, sourceVars, pocketVars
<1>3. CASE /\ \/ batch' = Slice(source[table])
              \/ \E rows \in Unordered(source[table]) : batch' = Slice(rows)
           /\ pc' = "rows" /\ pos' = 1
           /\ offset' = offset + BATCH_SIZE
           /\ UNCHANGED <<at, map, relationMaps>>
  <2>1. UNCHANGED <<fk, store, dropped, order, at, map, doubt, relationMaps>>
    BY <1>3 DEF FetchBatch, sourceVars, pocketVars
  <2>2. /\ RecordsAreTrue' /\ LinksAreRight' /\ KeyOrLink'
        /\ \A f : \A t \in Tables : Leads(f, t) => Leads(f, t)'
    BY <2>1, StoreUntouched
  <2>3. ASSUME NEW t \in Tables, t = table PROVE batch' \in Seq(Row)
    <3>1. source[t] \in Seq(Row)
      BY <1>1
    <3>. QED
      BY <1>1, <1>3, <2>3, <3>1, SliceOfRows, UnorderedRows
  <2>4. StoreType'
    BY <1>1, <1>3, <2>1, <2>3 DEF IInv, StoreType, table, MigrateAssumption
  <2>5. pc = "fetch"
    BY DEF FetchBatch
  <2>6. MapIsRight'
    BY <2>1, <2>2, <2>5 DEF IInv, MapIsRight, table
  <2>7. RelationMapsAreRight'
    BY <2>1, <2>2 DEF IInv, RelationMapsAreRight
  <2>. QED
    BY <2>2, <2>4, <2>6, <2>7 DEF IInv
<1>. QED
  BY <1>2, <1>3 DEF FetchBatch

LEMMA EndBatchKeeps ==
  ASSUME IInv, EndBatch
  PROVE  IInv'
<1>1. source' \in [Tables -> Seq(Row)]
  BY DEF EndBatch, sourceVars, IInv, StoreType
<1>2. CASE NextTable("map", "links")
  BY <1>1, <1>2, ForgetKeeps DEF EndBatch, NextTable, sourceVars, pocketVars
<1>3. CASE pc' = "fetch" /\ UNCHANGED <<at, passVars>>
  <2>1. UNCHANGED <<fk, store, dropped, order, at, map, doubt, relationMaps, pos, offset>>
    BY <1>3 DEF EndBatch, sourceVars, pocketVars, passVars
  <2>2. /\ RecordsAreTrue' /\ LinksAreRight' /\ KeyOrLink'
        /\ \A f : \A t \in Tables : Leads(f, t) => Leads(f, t)'
    BY <2>1, StoreUntouched
  <2>3. StoreType'
    BY <1>1, <1>3, <2>1 DEF IInv, StoreType
  <2>4. pc = "rows"
    BY DEF EndBatch
  <2>5. MapIsRight'
    BY <2>1, <2>2, <2>4 DEF IInv, MapIsRight, table
  <2>6. RelationMapsAreRight'
    BY <2>1, <2>2 DEF IInv, RelationMapsAreRight
  <2>. QED
    BY <2>2, <2>3, <2>5, <2>6 DEF IInv
<1>. QED
  BY <1>2, <1>3 DEF EndBatch

LEMMA ReadRelationMapKeeps ==
  ASSUME IInv, ReadRelationMap
  PROVE  IInv'
<1>1. /\ UNCHANGED <<fk, source, store, dropped, order, at, map, doubt, pos, offset, pc>>
      /\ pc = "links"
  BY DEF ReadRelationMap, sourceVars, pocketVars
<1>2. /\ RecordsAreTrue' /\ LinksAreRight' /\ KeyOrLink'
      /\ \A f : \A t \in Tables : Leads(f, t) => Leads(f, t)'
  BY <1>1, StoreUntouched
<1>3. StoreType'
  BY <1>1 DEF IInv, StoreType
<1>4. MapIsRight'
  BY <1>1 DEF MapIsRight
<1>5. PICK c : \E n \in CutAt(c) \cup {Len(store[c])} :
         relationMaps' = [d \in DOMAIN relationMaps \cup {c} |->
                             IF d = c THEN MapOf(c, n) ELSE relationMaps[d]]
  BY DEF ReadRelationMap
<1>6. PICK n \in CutAt(c) \cup {Len(store[c])} :
         relationMaps' = [d \in DOMAIN relationMaps \cup {c} |->
                             IF d = c THEN MapOf(c, n) ELSE relationMaps[d]]
  BY <1>5
<1>7. StoreType /\ RecordsAreTrue /\ RelationMapsAreRight
  BY DEF IInv
<1>8. ASSUME NEW d \in Tables, d \in DOMAIN relationMaps' PROVE Leads(relationMaps'[d], d)
  <2>1. CASE d = c
    <3>1. Len(store[c]) \in 0 .. Len(store[c])
      BY <1>7, <1>8, <2>1 DEF StoreType
    <3>2. n \in 0 .. Len(store[c])
      BY <1>8, <2>1, <3>1, CutIsWithin
    <3>3. Leads(MapOf(c, n), c)
      BY <1>7, <1>8, <2>1, <3>2, MapOfLeads
    <3>. QED
      BY <1>6, <2>1, <3>3
  <2>2. CASE d # c
    BY <1>6, <1>7, <1>8, <2>2 DEF RelationMapsAreRight
  <2>. QED
    BY <2>1, <2>2
<1>9. RelationMapsAreRight'
  BY <1>2, <1>8 DEF RelationMapsAreRight, Leads
<1>. QED
  BY <1>2, <1>3, <1>4, <1>9 DEF IInv

\* Pass 1 writes a row: its record is replaced by one of the same row, or a
\* record of a row that the map does not know is added at the end.
LEMMA UpsertStores ==
  ASSUME MigrateAssumption, IInv, pc = "rows", table \in Tables,
         NEW row \in Row, Norm[row.key] # NoKey, Upsert(table, row)
  PROVE  /\ store' \in [Tables -> Seq(Record)] /\ Stay
         /\ RecordsAreTrue' /\ LinksAreRight' /\ KeyOrLink'
         /\ \A u \in Tables : \A j \in DOMAIN store'[u] :
               \/ j \in DOMAIN store[u]
               \/ /\ u = table /\ j = Len(store[u]) + 1
                  /\ Norm[row.key] \notin DOMAIN map /\ store'[u][j].of = Norm[row.key]
         /\ Norm[row.key] \notin DOMAIN map =>
               /\ Len(store[table]) + 1 \in DOMAIN store'[table]
               /\ store'[table][Len(store[table]) + 1].of = Norm[row.key]
<1>. DEFINE o == Norm[row.key]
            new == buildPass1RecordPayload(row, table)
<1>1. /\ new \in Record /\ RecordIsTrue(new) /\ new.of = o
      /\ \A c \in Tables : new.link[c] = 0
      /\ \A c \in Tables : \/ new.want[c] = NoKey \/ new.temp[c] = new.want[c]
                           \/ c \in fk[table] \ schema[table].temp
  BY PayloadIsTrue
<1>2. dropped' = dropped \cup
         {<<table, c>> : c \in {d \in fk[table] \ schema[table].temp : new.want[d] # NoKey}}
  BY DEF Upsert
<1>3. \/ o \in DOMAIN map /\ Update(table, map[o], new)
      \/ o \notin DOMAIN map /\ store' = [store EXCEPT ![table] = Append(@, new)]
  BY DEF Upsert
<1>. HIDE DEF new
<1>4. dropped \subseteq dropped'
  BY <1>2
<1>5. LinksLead(new)
  BY <1>1 DEF LinksLead
<1>6. \A c \in Tables : \/ <<table, c>> \in dropped' \/ new.want[c] = NoKey
                       \/ new.link[c] # 0 \/ new.temp[c] = new.want[c]
  BY <1>1, <1>2
<1>7. StoreType /\ RecordsAreTrue /\ LinksAreRight /\ KeyOrLink /\ Leads(map, table)
  BY DEF IInv, MapIsRight
<1>8. CASE o \in DOMAIN map /\ Update(table, map[o], new)
  <2>1. /\ store' \in [Tables -> Seq(Record)]
        /\ \A u \in Tables : DOMAIN store'[u] = DOMAIN store[u]
        /\ \A u \in Tables : \A j \in DOMAIN store[u] :
              store'[u][j] = IF u = table /\ j = map[o] THEN new ELSE store[u][j]
    BY <1>1, <1>7, <1>8, UpdateStores
  <2>2. store[table][map[o]].of = o
    BY <1>7, <1>8 DEF Leads
  <2>3. Stay
    <3>1. new.of = o
      BY <1>1
    <3>2. \A u \in Tables : \A j \in DOMAIN store[u] :
             j \in DOMAIN store'[u] /\ store'[u][j].of = store[u][j].of
      BY <2>1, <2>2, <3>1
    <3>. QED
      BY <3>2 DEF Stay
  <2>4. RecordsAreTrue' /\ LinksAreRight' /\ KeyOrLink'
    BY <1>1, <1>4, <1>5, <1>6, <1>7, <2>1, <2>3, RecordsAreKept
  <2>. QED
    BY <1>8, <2>1, <2>3, <2>4
<1>9. CASE o \notin DOMAIN map /\ store' = [store EXCEPT ![table] = Append(@, new)]
  <2>1. /\ store' \in [Tables -> Seq(Record)]
        /\ \A u \in Tables : \A j \in DOMAIN store[u] :
              j \in DOMAIN store'[u] /\ store'[u][j] = store[u][j]
        /\ \A u \in Tables : \A j \in DOMAIN store'[u] :
              \/ j \in DOMAIN store[u]
              \/ u = table /\ j = Len(store[table]) + 1 /\ store'[u][j] = new
        /\ Len(store[table]) + 1 \in DOMAIN store'[table]
        /\ store'[table][Len(store[table]) + 1] = new
    BY <1>1, <1>7, <1>9, AppendStores
  <2>2. Stay
    BY <2>1 DEF Stay
  <2>3. RecordsAreTrue' /\ LinksAreRight' /\ KeyOrLink'
    BY <1>1, <1>4, <1>5, <1>6, <1>7, <2>1, <2>2, RecordsAreKept
  <2>. QED
    BY <1>1, <1>9, <2>1, <2>2, <2>3
<1>. QED
  BY <1>3, <1>8, <1>9

LEMMA MigrateRowKeeps ==
  ASSUME MigrateAssumption, IInv, MigrateRow
  PROVE  IInv'
<1>. DEFINE row == batch[pos]
            o == Norm[row.key]
<1>1. /\ UNCHANGED <<fk, source, schema, pc, order, at, batch, offset, relationMaps>>
      /\ pc = "rows" /\ pos <= Len(batch) /\ pos' = pos + 1
  BY DEF MigrateRow, sourceVars
<1>2. \/ UNCHANGED <<store, map, doubt, dropped>>
      \/ /\ Upsert(table, row) /\ o # NoKey
         /\ \/ Remember(table, o) /\ UNCHANGED doubt
            \/ UNCHANGED map /\ doubt' = doubt \cup {o}
  BY DEF MigrateRow
<1>3. /\ fk \in [Tables -> SUBSET Tables] /\ source \in [Tables -> Seq(Row)]
      /\ pos \in Nat \ {0} /\ offset \in Nat /\ store \in [Tables -> Seq(Record)]
      /\ \A t \in Tables : t = table => batch \in Seq(Row)
      /\ StoreType /\ RecordsAreTrue /\ LinksAreRight /\ KeyOrLink
      /\ RelationMapsAreRight
  BY <1>1 DEF IInv, StoreType
<1>4. table' = table
  BY <1>1 DEF table
<1>5. CASE UNCHANGED <<store, map, doubt, dropped>>
  <2>1. /\ RecordsAreTrue' /\ LinksAreRight' /\ KeyOrLink'
        /\ \A f : \A t \in Tables : Leads(f, t) => Leads(f, t)'
    BY <1>1, <1>5, StoreUntouched
  <2>2. StoreType'
    BY <1>1, <1>3, <1>4, <1>5 DEF StoreType
  <2>3. MapIsRight'
    BY <1>1, <1>4, <1>5, <2>1 DEF IInv, MapIsRight
  <2>4. RelationMapsAreRight'
    BY <1>1, <1>3, <2>1 DEF RelationMapsAreRight
  <2>. QED
    BY <2>1, <2>2, <2>3, <2>4 DEF IInv
<1>6. CASE Upsert(table, row) /\ o # NoKey /\ table \notin Tables
  <2>1. store' = store
    <3>1. \A i, new : [store EXCEPT ![table][i] = new] = store
      BY <1>3, <1>6
    <3>2. \A new : [store EXCEPT ![table] = new] = store
      BY <1>3, <1>6
    <3>. QED
      BY <1>6, <3>1, <3>2 DEF Upsert, Update
  <2>2. Stay /\ dropped \subseteq dropped'
    BY <1>6, <2>1 DEF Stay, Upsert
  <2>3. RecordsAreTrue' /\ LinksAreRight' /\ KeyOrLink'
    BY <1>3, <2>1, <2>2, RecordsAreKept
  <2>4. StoreType'
    BY <1>1, <1>3, <1>4, <2>1 DEF StoreType
  <2>5. MapIsRight'
    BY <1>4, <1>6 DEF MapIsRight
  <2>6. RelationMapsAreRight'
    BY <1>1, <1>3, <2>1 DEF RelationMapsAreRight, Leads
  <2>. QED
    BY <2>3, <2>4, <2>5, <2>6 DEF IInv
<1>7. CASE /\ Upsert(table, row) /\ o # NoKey /\ table \in Tables
           /\ \/ Remember(table, o) /\ UNCHANGED doubt
              \/ UNCHANGED map /\ doubt' = doubt \cup {o}
  <2>1. row \in Row
    <3>1. batch \in Seq(Row) /\ pos \in 1 .. Len(batch)
      BY <1>1, <1>3, <1>7
    <3>. QED
      BY <3>1, ElementOfSeq
  <2>. HIDE DEF row
  <2>2. /\ store' \in [Tables -> Seq(Record)] /\ Stay
        /\ RecordsAreTrue' /\ LinksAreRight' /\ KeyOrLink'
        /\ \A u \in Tables : \A j \in DOMAIN store'[u] :
              \/ j \in DOMAIN store[u]
              \/ /\ u = table /\ j = Len(store[u]) + 1
                 /\ o \notin DOMAIN map /\ store'[u][j].of = o
        /\ o \notin DOMAIN map =>
              /\ Len(store[table]) + 1 \in DOMAIN store'[table]
              /\ store'[table][Len(store[table]) + 1].of = o
    BY <1>1, <1>7, <2>1, UpsertStores
  <2>3. store' \in [Tables -> Seq(Record)]
    BY <2>2
  <2>4. pos + 1 \in Nat \ {0}
    BY <1>3
  <2>5. StoreType'
    BY <1>1, <1>3, <1>4, <2>3, <2>4 DEF StoreType
  <2>6. Stay
    BY <2>2
  <2>7. RelationMapsAreRight'
    BY <1>1, <1>3, <2>6, LeadsStays DEF RelationMapsAreRight
  <2>8. /\ Leads(map, table)
        /\ \A i \in DOMAIN store[table] : store[table][i].of \in DOMAIN map \cup doubt
    BY <1>1, <1>7 DEF IInv, MapIsRight
  <2>9. ASSUME NEW j \in DOMAIN store'[table]
        PROVE  store'[table][j].of \in DOMAIN map \cup doubt \cup {o}
    <3>1. j \in DOMAIN store[table] \/ store'[table][j].of = o
      BY <1>7, <2>2
    <3>2. CASE j \in DOMAIN store[table]
      BY <1>7, <2>6, <2>8, <3>2 DEF Stay
    <3>. QED
      BY <3>1, <3>2
  <2>10. Leads(map, table)'
    <3>1. ASSUME NEW k \in DOMAIN map
          PROVE  map[k] \in DOMAIN store'[table] /\ store'[table][map[k]].of = k
      BY <1>7, <2>6, <2>8 DEF Stay, Leads
    <3>2. CASE UNCHANGED map
      BY <1>4, <3>1, <3>2 DEF Leads
    <3>3. CASE Remember(table, o)
      <4>1. /\ DOMAIN map' = DOMAIN map \cup {o}
            /\ \A k \in DOMAIN map' :
                  map'[k] = IF k \in DOMAIN map THEN map[k] ELSE Len(store[table]) + 1
        BY <3>3 DEF Remember
      <4>2. ASSUME NEW k \in DOMAIN map'
            PROVE  map'[k] \in DOMAIN store'[table] /\ store'[table][map'[k]].of = k
        <5>1. CASE k \in DOMAIN map
          BY <3>1, <4>1, <5>1
        <5>2. CASE k \notin DOMAIN map
          BY <2>2, <4>1, <5>2
        <5>. QED
          BY <5>1, <5>2
      <4>. QED
        BY <1>4, <4>2 DEF Leads
    <3>. QED
      BY <1>7, <3>2, <3>3
  <2>11. DOMAIN map \cup doubt \cup {o} \subseteq DOMAIN map' \cup doubt'
    BY <1>7 DEF Remember
  <2>12. MapIsRight'
    BY <1>4, <2>9, <2>10, <2>11 DEF MapIsRight
  <2>. QED
    BY <2>2, <2>5, <2>7, <2>12 DEF IInv
<1>. QED
  BY <1>2, <1>5, <1>6, <1>7

\* What pass 2 writes: the record with the keys it found turned into relations.
LEMMA PatchedIsTrue ==
  ASSUME IInv, table \in Tables, pos \in DOMAIN store[table],
         Unresolved \subseteq DOMAIN relationMaps
  PROVE  /\ Patched \in Record /\ RecordIsTrue(Patched) /\ LinksLead(Patched)
         /\ Patched.of = record.of
         /\ \A c \in Tables : \/ Patched.want[c] = NoKey \/ Patched.link[c] # 0
                              \/ Patched.temp[c] = Patched.want[c]
                              \/ <<table, c>> \in dropped
                              \/ c \in Resolved /\ schema[table].link[c] = "absent"
<1>1. record \in Record /\ RecordIsTrue(record) /\ LinksLead(record)
  <2>1. store[table] \in Seq(Record)
    BY DEF IInv, StoreType
  <2>2. record \in Record
    BY <2>1, ElementOfSeq DEF record
  <2>. QED
    BY <2>2 DEF IInv, RecordsAreTrue, LinksAreRight, LinksLead, record
<1>2. \A c \in Tables : \/ record.want[c] = NoKey \/ record.link[c] # 0
                       \/ record.temp[c] = record.want[c] \/ <<table, c>> \in dropped
  BY DEF IInv, KeyOrLink, record
<1>3. ASSUME NEW c \in Tables, c \in Resolved
      PROVE  /\ record.temp[c] = record.want[c]
             /\ relationMaps[c][record.temp[c]] \in Nat \ {0}
             /\ relationMaps[c][record.temp[c]] \in DOMAIN store[c]
             /\ store[c][relationMaps[c][record.temp[c]]].of = record.want[c]
  <2>1. /\ c \in DOMAIN relationMaps /\ record.temp[c] # NoKey
        /\ record.temp[c] \in DOMAIN relationMaps[c]
    BY <1>3 DEF Resolved, Unresolved
  <2>2. record.temp[c] = record.want[c]
    BY <1>1, <2>1 DEF RecordIsTrue
  <2>3. Leads(relationMaps[c], c)
    BY <2>1 DEF IInv, RelationMapsAreRight
  <2>4. DOMAIN store[c] \subseteq Nat \ {0}
    BY DEF IInv, StoreType
  <2>. QED
    BY <2>1, <2>2, <2>3, <2>4 DEF Leads
<1>. DEFINE link == [c \in Tables |-> IF c \in Resolved /\ schema[table].link[c] # "absent"
                                     THEN relationMaps[c][record.temp[c]] ELSE record.link[c]]
            temp == [c \in Tables |-> IF c \in Resolved THEN NoKey ELSE record.temp[c]]
<1>4. Patched = [record EXCEPT !.link = link, !.temp = temp]
  BY DEF Patched
<1>5. /\ record.of \in Keys /\ record.old_id \in KeyOrNone
      /\ record.want \in [Tables -> KeyOrNone]
      /\ record.temp \in [Tables -> KeyOrNone] /\ record.link \in [Tables -> Nat]
  BY <1>1 DEF Record
<1>6. link \in [Tables -> Nat]
  BY <1>3, <1>5
<1>7. temp \in [Tables -> KeyOrNone]
  BY <1>5 DEF KeyOrNone
<1>8. \A c \in Tables :
         /\ link[c] = IF c \in Resolved /\ schema[table].link[c] # "absent"
                      THEN relationMaps[c][record.temp[c]] ELSE record.link[c]
         /\ temp[c] = IF c \in Resolved THEN NoKey ELSE record.temp[c]
  OBVIOUS
<1>. HIDE DEF link, temp
<1>9. /\ Patched \in Record /\ Patched.of = record.of /\ Patched.old_id = record.old_id
      /\ Patched.want = record.want /\ Patched.link = link /\ Patched.temp = temp
  BY <1>1, <1>4, <1>6, <1>7 DEF Record
<1>10. RecordIsTrue(Patched)
  BY <1>1, <1>8, <1>9 DEF RecordIsTrue
<1>11. LinksLead(Patched)
  BY <1>1, <1>3, <1>8, <1>9 DEF LinksLead
<1>12. ASSUME NEW c \in Tables
       PROVE  \/ record.want[c] = NoKey \/ link[c] # 0
              \/ temp[c] = record.want[c] \/ <<table, c>> \in dropped
              \/ c \in Resolved /\ schema[table].link[c] = "absent"
  BY <1>2, <1>3, <1>8
<1>. QED
  BY <1>9, <1>10, <1>11, <1>12

\* What a step of pass 2 does to the records.
LEMMA LinkRecordStores ==
  ASSUME IInv, LinkRecord
  PROVE  /\ store' \in [Tables -> Seq(Record)] /\ Stay
         /\ \A u \in Tables : DOMAIN store'[u] = DOMAIN store[u]
         /\ RecordsAreTrue' /\ LinksAreRight' /\ KeyOrLink'
<1>1. /\ StoreType /\ RecordsAreTrue /\ LinksAreRight /\ KeyOrLink
      /\ store \in [Tables -> Seq(Record)] /\ pos \in Nat \ {0}
  BY DEF IInv, StoreType
<1>2. \/ UNCHANGED <<store, dropped>>
      \/ /\ Update(table, pos, Patched)
         /\ dropped' = dropped \cup
               {<<table, c>> : c \in {d \in Resolved : schema[table].link[d] = "absent"}}
  BY DEF LinkRecord
<1>3. CASE store' = store /\ dropped \subseteq dropped'
  <2>1. Stay
    BY <1>3 DEF Stay
  <2>. QED
    BY <1>1, <1>3, <2>1, RecordsAreKept
<1>4. CASE /\ table \in Tables /\ Update(table, pos, Patched)
           /\ dropped' = dropped \cup
                 {<<table, c>> : c \in {d \in Resolved : schema[table].link[d] = "absent"}}
  <2>1. pos \in DOMAIN store[table] /\ Unresolved \subseteq DOMAIN relationMaps
    BY <1>1, <1>4 DEF LinkRecord
  <2>2. /\ Patched \in Record /\ RecordIsTrue(Patched) /\ LinksLead(Patched)
        /\ Patched.of = store[table][pos].of
        /\ \A c \in Tables : \/ Patched.want[c] = NoKey \/ Patched.link[c] # 0
                             \/ Patched.temp[c] = Patched.want[c]
                             \/ <<table, c>> \in dropped
                             \/ c \in Resolved /\ schema[table].link[c] = "absent"
    BY <1>4, <2>1, PatchedIsTrue DEF record
  <2>3. /\ store' \in [Tables -> Seq(Record)]
        /\ \A u \in Tables : DOMAIN store'[u] = DOMAIN store[u]
        /\ \A u \in Tables : \A j \in DOMAIN store[u] :
              store'[u][j] = IF u = table /\ j = pos THEN Patched ELSE store[u][j]
    BY <1>1, <1>4, <2>2, UpdateStores
  <2>4. Stay
    BY <2>2, <2>3 DEF Stay
  <2>5. \A c \in Tables : \/ Patched.want[c] = NoKey \/ Patched.link[c] # 0
                         \/ Patched.temp[c] = Patched.want[c]
                         \/ <<table, c>> \in dropped'
    BY <1>4, <2>2
  <2>6. dropped \subseteq dropped'
    BY <1>4
  <2>7. RecordsAreTrue' /\ LinksAreRight' /\ KeyOrLink'
    BY <1>1, <2>2, <2>3, <2>4, <2>5, <2>6, RecordsAreKept
  <2>. QED
    BY <2>3, <2>4, <2>7
<1>5. ASSUME table \notin Tables, NEW i, NEW new
      PROVE  [store EXCEPT ![table][i] = new] = store
  BY <1>1, <1>5
<1>. QED
  BY <1>2, <1>3, <1>4, <1>5 DEF Update

LEMMA LinkRecordKeeps ==
  ASSUME IInv, LinkRecord
  PROVE  IInv'
<1>1. /\ UNCHANGED <<fk, source, pc, offset, relationMaps>>
      /\ pc = "links" /\ pos' = pos + 1
  BY DEF LinkRecord, sourceVars
<1>2. /\ store' \in [Tables -> Seq(Record)] /\ Stay
      /\ RecordsAreTrue' /\ LinksAreRight' /\ KeyOrLink'
  BY LinkRecordStores
<1>3. StoreType'
  BY <1>1, <1>2 DEF IInv, StoreType
<1>4. MapIsRight'
  BY <1>1 DEF MapIsRight
<1>5. RelationMapsAreRight'
  BY <1>1, <1>2, LeadsStays DEF IInv, RelationMapsAreRight
<1>. QED
  BY <1>2, <1>3, <1>4, <1>5 DEF IInv

-----------------------------------------------------------------------------
LEMMA InitHolds ==
  ASSUME MigrateAssumption, Init
  PROVE  IInv
<1>1. fk \in [Tables -> SUBSET Tables] /\ source \in [Tables -> Seq(Row)]
  BY DEF Init, MigrateAssumption
<1>2. store = [t \in Tables |-> <<>>] /\ pc = "off" /\ DOMAIN relationMaps = {}
  BY DEF Init
<1>3. \A t \in Tables : store[t] = <<>> /\ DOMAIN store[t] = {} /\ <<>> \in Seq(Record)
  BY <1>2
<1>4. StoreType
  <2>1. store \in [Tables -> Seq(Record)]
    BY <1>2, <1>3
  <2>2. pos \in Nat \ {0} /\ offset \in Nat /\ pc # "rows"
    BY DEF Init
  <2>. QED
    BY <1>1, <2>1, <2>2 DEF StoreType
<1>5. MapIsRight /\ RelationMapsAreRight
  BY <1>2 DEF MapIsRight, RelationMapsAreRight
<1>6. RecordsAreTrue /\ LinksAreRight /\ KeyOrLink
  BY <1>3 DEF RecordsAreTrue, LinksAreRight, KeyOrLink
<1>. QED
  BY <1>4, <1>5, <1>6 DEF IInv

LEMMA StutterKeeps ==
  ASSUME IInv, UNCHANGED vars
  PROVE  IInv'
<1>1. /\ UNCHANGED <<fk, source, store, pc, order, at, map, batch, pos, offset,
                     relationMaps, doubt, dropped>>
  BY DEF vars, sourceVars, pocketVars, passVars
<1>. QED
  BY <1>1 DEF IInv, StoreType, RecordsAreTrue, RecordIsTrue, MapIsRight,
              RelationMapsAreRight, Leads, LinksAreRight, KeyOrLink, table

LEMMA NextKeeps ==
  ASSUME MigrateAssumption, IInv, [Next]_vars
  PROVE  IInv'
<1>1. ASSUME NEW planned \in SUBSET Tables, Start(planned) PROVE IInv'
  BY <1>1, StartKeeps
<1>2. CASE EnsureCollection
  BY <1>2, EnsureCollectionKeeps
<1>3. CASE BuildExistingMap
  BY <1>3, BuildExistingMapKeeps
<1>4. CASE FetchBatch
  BY <1>4, FetchBatchKeeps
<1>5. CASE MigrateRow
  BY <1>5, MigrateRowKeeps
<1>6. CASE EndBatch
  BY <1>6, EndBatchKeeps
<1>7. CASE ReadRelationMap
  BY <1>7, ReadRelationMapKeeps
<1>8. CASE LinkRecord
  BY <1>8, LinkRecordKeeps
<1>9. CASE EndLinks
  BY <1>9, EndLinksKeeps
<1>10. CASE Crash
  BY <1>10, CrashKeeps
<1>11. CASE EditSource
  BY <1>11, EditSourceKeeps
<1>12. CASE Ended \/ UNCHANGED vars
  BY <1>12, StutterKeeps DEF Ended
<1>. QED
  BY <1>1, <1>2, <1>3, <1>4, <1>5, <1>6, <1>7, <1>8, <1>9, <1>10, <1>11, <1>12
     DEF Next, Step

LEMMA InvariantHolds == Spec => []IInv
<1>1. Init => IInv
  BY MigrateAssumption, InitHolds
<1>2. IInv /\ [Next]_vars => IInv'
  BY MigrateAssumption, NextKeeps
<1>. QED
  BY <1>1, <1>2, PTL DEF Spec

\* A relation that pass 2 set leads to a record of the key that pass 1 read,
\* whatever failed, died or was edited before, between and after.
THEOREM RelationsAreRight == Spec => []LinksAreRight
<1>1. IInv => LinksAreRight
  BY DEF IInv
<1>. QED
  BY <1>1, InvariantHolds, PTL

\* No foreign key is lost between the passes: it is there as it was read or as
\* a relation, in every column for which the collection had its fields.
THEOREM KeysAreNotLost == Spec => []KeyOrLink
<1>1. IInv => KeyOrLink
  BY DEF IInv
<1>. QED
  BY <1>1, InvariantHolds, PTL

-----------------------------------------------------------------------------
(* Twins.                                                                  *)

\* The copies of a row, seen from the records: they change only with a create.
LEMMA CopiesStay ==
  ASSUME NEW t \in Tables, NEW o, Stay, DOMAIN store'[t] = DOMAIN store[t]
  PROVE  Copies(t, o)' = Copies(t, o)
BY DEF Copies, Stay

LEMMA TwinStep ==
  ASSUME MigrateAssumption, IInv, [Next]_vars, NEW t \in Tables, NEW o \in Keys,
         Copies(t, o) # {}, Copies(t, o)' # Copies(t, o)
  PROVE  o \in doubt
<1>1. ASSUME store' = store PROVE FALSE
  BY <1>1 DEF Copies
<1>2. CASE LinkRecord
  <2>1. Stay /\ DOMAIN store'[t] = DOMAIN store[t]
    BY <1>2, LinkRecordStores
  <2>. QED
    BY <2>1, CopiesStay
<1>3. CASE MigrateRow
  <2>. DEFINE row == batch[pos]
  <2>1. Upsert(table, row) /\ Norm[row.key] # NoKey /\ pc = "rows" /\ pos <= Len(batch)
    BY <1>1, <1>3 DEF MigrateRow
  <2>2. /\ store \in [Tables -> Seq(Record)] /\ pos \in Nat \ {0}
        /\ \A u \in Tables : u = table => batch \in Seq(Row)
    BY <2>1 DEF IInv, StoreType
  <2>3. table \in Tables
    <3>1. SUFFICES ASSUME table \notin Tables PROVE FALSE
      OBVIOUS
    <3>2. \A i, new : [store EXCEPT ![table][i] = new] = store
      BY <2>2, <3>1
    <3>3. \A new : [store EXCEPT ![table] = new] = store
      BY <2>2, <3>1
    <3>. QED
      BY <1>1, <2>1, <3>2, <3>3 DEF Upsert, Update
  <2>4. row \in Row
    <3>1. batch \in Seq(Row) /\ pos \in 1 .. Len(batch)
      BY <2>1, <2>2, <2>3
    <3>. QED
      BY <3>1, ElementOfSeq
  <2>. HIDE DEF row
  <2>5. /\ Stay
        /\ \A u \in Tables : \A j \in DOMAIN store'[u] :
              \/ j \in DOMAIN store[u]
              \/ /\ u = table /\ j = Len(store[u]) + 1
                 /\ Norm[row.key] \notin DOMAIN map /\ store'[u][j].of = Norm[row.key]
    BY <2>1, <2>3, <2>4, UpsertStores
  <2>6. PICK j \in DOMAIN store'[t] : j \notin DOMAIN store[t] /\ store'[t][j].of = o
    BY <2>5 DEF Copies, Stay
  <2>7. t = table /\ o \notin DOMAIN map
    BY <2>5, <2>6
  <2>8. PICK i \in DOMAIN store[t] : store[t][i].of = o
    BY DEF Copies
  <2>9. store[t][i].of \in DOMAIN map \cup doubt
    BY <2>1, <2>7, <2>8 DEF IInv, MapIsRight
  <2>. QED
    BY <2>7, <2>8, <2>9
<1>4. CASE \/ \E planned \in SUBSET Tables : Start(planned)
           \/ EnsureCollection \/ BuildExistingMap \/ FetchBatch \/ EndBatch
           \/ ReadRelationMap \/ EndLinks \/ Crash \/ EditSource \/ Ended
           \/ UNCHANGED vars
  <2>1. store' = store
    BY <1>4 DEF Start, EnsureCollection, BuildExistingMap, FetchBatch, EndBatch,
                ReadRelationMap, EndLinks, Crash, EditSource, Ended, vars, pocketVars
  <2>. QED
    BY <1>1, <2>1
<1>. QED
  BY <1>2, <1>3, <1>4 DEF Next, Step

\* However often the script is started again, a row that has its record gets a
\* second one only in a run that could not read the old_ids or lost an answer.
THEOREM RestartsMakeNoTwins == Spec => TwinsComeOfDoubt
<1>1. IInv /\ [Next]_vars =>
        [\A t \in Tables : \A o \in Keys :
            Copies(t, o) # {} /\ Copies(t, o)' # Copies(t, o) => o \in doubt]_vars
  BY MigrateAssumption, TwinStep
<1>. QED
  BY <1>1, InvariantHolds, PTL DEF Spec, TwinsComeOfDoubt

-----------------------------------------------------------------------------
(* The order of the tables.                                                *)

Once(q) == \A i, j \in DOMAIN q : q[i] = q[j] => i = j

\* q lists the tables of S, each once.
Lists(q, S) == q \in Seq(Tables) /\ Elements(q) = S /\ Once(q)

LEMMA AppendElements ==
  ASSUME NEW q \in Seq(Tables), NEW x \in Tables
  PROVE  /\ Append(q, x) \in Seq(Tables)
         /\ Elements(Append(q, x)) = Elements(q) \cup {x}
         /\ Once(q) /\ x \notin Elements(q) => Once(Append(q, x))
<1>. DEFINE r == Append(q, x)
<1>1. /\ r \in Seq(Tables) /\ Len(q) \in Nat /\ DOMAIN q = 1 .. Len(q)
      /\ DOMAIN r = 1 .. Len(q) + 1 /\ r[Len(q) + 1] = x
      /\ \A i \in 1 .. Len(q) : r[i] = q[i]
  OBVIOUS
<1>. HIDE DEF r
<1>2. \A i \in DOMAIN r : (i \in DOMAIN q /\ r[i] = q[i]) \/ (i = Len(q) + 1 /\ r[i] = x)
  <2>. SUFFICES ASSUME NEW i \in DOMAIN r
                PROVE  (i \in DOMAIN q /\ r[i] = q[i]) \/ (i = Len(q) + 1 /\ r[i] = x)
    OBVIOUS
  <2>1. CASE i \in 1 .. Len(q)
    BY <1>1, <2>1
  <2>2. CASE i \notin 1 .. Len(q)
    <3>1. i = Len(q) + 1
      BY <1>1, <2>2
    <3>. QED
      BY <1>1, <3>1
  <2>. QED
    BY <2>1, <2>2
<1>3. \A i \in DOMAIN q : i \in DOMAIN r /\ r[i] = q[i]
  BY <1>1
<1>4. Elements(r) = Elements(q) \cup {x}
  <2>1. Len(q) + 1 \in DOMAIN r
    BY <1>1
  <2>. QED
    BY <1>1, <1>2, <1>3, <2>1 DEF Elements
<1>5. Once(q) /\ x \notin Elements(q) => Once(r)
  BY <1>2 DEF Once, Elements
<1>. QED
  BY <1>1, <1>4, <1>5 DEF r

LEMMA TailElements ==
  ASSUME NEW q \in Seq(Tables), q # <<>>, Once(q)
  PROVE  /\ Head(q) \in Elements(q) /\ Head(q) \in Tables /\ Tail(q) \in Seq(Tables)
         /\ Once(Tail(q)) /\ Elements(Tail(q)) = Elements(q) \ {Head(q)}
<1>. DEFINE r == Tail(q)
<1>1. /\ Head(q) = q[1] /\ Head(q) \in Tables /\ r \in Seq(Tables) /\ Len(q) \in Nat \ {0}
      /\ DOMAIN q = 1 .. Len(q) /\ DOMAIN r = 1 .. Len(q) - 1
      /\ \A i \in 1 .. Len(q) - 1 : r[i] = q[i + 1]
  BY HeadTailProperties
<1>. HIDE DEF r
<1>2. \A i \in DOMAIN r : i + 1 \in DOMAIN q /\ r[i] = q[i + 1] /\ i + 1 # 1
  BY <1>1
<1>3. \A i \in DOMAIN q : i = 1 \/ (i - 1 \in DOMAIN r /\ q[i] = r[i - 1])
  <2>1. ASSUME NEW i \in 1 .. Len(q), i # 1
        PROVE  i - 1 \in 1 .. Len(q) - 1 /\ (i - 1) + 1 = i
    BY <1>1, <2>1
  <2>2. ASSUME NEW i \in DOMAIN q, i # 1 PROVE i - 1 \in DOMAIN r /\ q[i] = r[i - 1]
    BY <1>1, <2>1, <2>2
  <2>. QED
    BY <2>2
<1>4. 1 \in DOMAIN q
  BY <1>1
<1>5. ASSUME NEW i \in DOMAIN r PROVE r[i] # q[1]
  BY <1>2, <1>4 DEF Once
<1>6. Elements(r) = Elements(q) \ {q[1]}
  <2>1. ASSUME NEW x \in Elements(r) PROVE x \in Elements(q) \ {q[1]}
    BY <1>2, <1>5 DEF Elements
  <2>2. ASSUME NEW x \in Elements(q) \ {q[1]} PROVE x \in Elements(r)
    <3>1. PICK i \in DOMAIN q : q[i] = x
      BY DEF Elements
    <3>2. i - 1 \in DOMAIN r /\ x = r[i - 1]
      BY <1>3, <3>1
    <3>. QED
      BY <3>2 DEF Elements
  <2>. QED
    BY <2>1, <2>2
<1>7. Once(r)
  <2>1. ASSUME NEW i \in DOMAIN r, NEW j \in DOMAIN r, r[i] = r[j] PROVE i = j
    <3>1. i + 1 = j + 1
      BY <1>2, <2>1 DEF Once
    <3>. QED
      BY <1>1, <3>1
  <2>. QED
    BY <2>1 DEF Once
<1>. QED
  BY <1>1, <1>4, <1>6, <1>7 DEF r, Elements

LEMMA ConcatElements ==
  ASSUME NEW p \in Seq(Tables), NEW q \in Seq(Tables)
  PROVE  /\ p \o q \in Seq(Tables) /\ Elements(p \o q) = Elements(p) \cup Elements(q)
         /\ Once(p) /\ Once(q) /\ Elements(p) \cap Elements(q) = {} => Once(p \o q)
<1>. DEFINE r == p \o q
<1>1. /\ r \in Seq(Tables) /\ Len(p) \in Nat /\ Len(q) \in Nat
      /\ DOMAIN p = 1 .. Len(p) /\ DOMAIN q = 1 .. Len(q) /\ DOMAIN r = 1 .. Len(p) + Len(q)
      /\ \A i \in 1 .. Len(p) + Len(q) : r[i] = IF i <= Len(p) THEN p[i] ELSE q[i - Len(p)]
  BY ConcatProperties
<1>. HIDE DEF r
<1>2. \A i \in DOMAIN r : \/ i <= Len(p) /\ i \in DOMAIN p /\ r[i] = p[i]
                          \/ i > Len(p) /\ i - Len(p) \in DOMAIN q /\ r[i] = q[i - Len(p)]
  BY <1>1
<1>3. \A i \in DOMAIN p : i \in DOMAIN r /\ r[i] = p[i]
  BY <1>1
<1>4. \A i \in DOMAIN q : i + Len(p) \in DOMAIN r /\ r[i + Len(p)] = q[i]
  BY <1>1
<1>5. Elements(r) = Elements(p) \cup Elements(q)
  <2>1. \A x \in Elements(r) : x \in Elements(p) \cup Elements(q)
    BY <1>2 DEF Elements
  <2>2. \A x \in Elements(p) : x \in Elements(r)
    BY <1>3 DEF Elements
  <2>3. \A x \in Elements(q) : x \in Elements(r)
    BY <1>4 DEF Elements
  <2>. QED
    BY <2>1, <2>2, <2>3
<1>6. ASSUME Once(p), Once(q), Elements(p) \cap Elements(q) = {},
             NEW i \in DOMAIN r, NEW j \in DOMAIN r, r[i] = r[j]
      PROVE  i = j
  <2>1. CASE i <= Len(p) /\ j <= Len(p)
    <3>1. i \in DOMAIN p /\ j \in DOMAIN p /\ p[i] = p[j]
      BY <1>1, <1>6, <2>1
    <3>. QED
      BY <1>6, <3>1 DEF Once
  <2>2. CASE i > Len(p) /\ j > Len(p)
    <3>1. /\ i - Len(p) \in DOMAIN q /\ j - Len(p) \in DOMAIN q
          /\ q[i - Len(p)] = q[j - Len(p)]
      BY <1>1, <1>6, <2>2
    <3>2. i - Len(p) = j - Len(p)
      BY <1>6, <3>1 DEF Once
    <3>. QED
      BY <1>1, <3>2
  <2>3. CASE ~(i <= Len(p) <=> j <= Len(p))
    <3>1. i <= Len(p) => r[i] \in Elements(p)
      BY <1>1, <1>2 DEF Elements
    <3>2. ~(i <= Len(p)) => r[i] \in Elements(q)
      BY <1>1, <1>2 DEF Elements
    <3>3. j <= Len(p) => r[j] \in Elements(p)
      BY <1>1, <1>2 DEF Elements
    <3>4. ~(j <= Len(p)) => r[j] \in Elements(q)
      BY <1>1, <1>2 DEF Elements
    <3>. QED
      BY <1>6, <2>3, <3>1, <3>2, <3>3, <3>4
  <2>. QED
    BY <1>1, <2>1, <2>2, <2>3
<1>7. Once(p) /\ Once(q) /\ Elements(p) \cap Elements(q) = {} => Once(r)
  BY <1>6 DEF Once
<1>. QED
  BY <1>1, <1>5, <1>7 DEF r

\* The tables of a set, as they are configured.
LEMMA ConfiguredLists ==
  ASSUME MigrateAssumption, NEW S \in SUBSET Tables
  PROVE  Lists(Configured(S), S)
<1>. DEFINE L == Len(TABLES)
            Body(g, n) == IF n = 0 THEN <<>>
                          ELSE IF TABLES[n] \in S THEN Append(g[n - 1], TABLES[n]) ELSE g[n - 1]
            IsUpto(g, m) == g = [n \in 0 .. m |-> Body(g, n)]
            Upto == CHOOSE g : IsUpto(g, L)
<1>1. /\ TABLES \in Seq(Tables) /\ L \in Nat /\ DOMAIN TABLES = 1 .. L
      /\ \A i \in 1 .. L : \A j \in 1 .. L : TABLES[i] = TABLES[j] => i = j
      /\ Tables = {TABLES[i] : i \in 1 .. L}
  BY DEF MigrateAssumption, Tables
<1>2. \A m \in Nat : \E g : IsUpto(g, m)
  <2>. DEFINE B == {m \in Nat : ~ \E g : IsUpto(g, m)}
  <2>1. SUFFICES ASSUME B # {} PROVE FALSE
    OBVIOUS
  <2>2. PICK m \in B : \A y \in B : m <= y
    <3>. HIDE DEF IsUpto
    <3>. QED
      BY <2>1, HasLeast
  <2>3. CASE m = 0
    <3>. DEFINE g == [n \in 0 .. 0 |-> <<>>]
    <3>1. IsUpto(g, 0)
      OBVIOUS
    <3>. HIDE DEF IsUpto
    <3>. QED
      BY <2>3, <3>1
  <2>4. CASE m # 0
    <3>1. m - 1 \in Nat /\ m - 1 \notin B
      <4>1. m \in Nat /\ m - 1 \in Nat /\ ~(m <= m - 1)
        BY <2>4
      <4>. QED
        BY <2>2, <4>1
    <3>2. PICK h : IsUpto(h, m - 1)
      BY <3>1
    <3>. DEFINE g == [n \in 0 .. m |-> IF n = m THEN Body(h, m) ELSE h[n]]
    <3>3. h = [n \in 0 .. m - 1 |-> Body(h, n)]
      BY <3>2
    <3>4. ASSUME NEW n \in 0 .. m PROVE g[n] = Body(g, n)
      <4>1. n = 0 \/ (n - 1 \in 0 .. m /\ n - 1 # m)
        OBVIOUS
      <4>2. n # 0 => g[n - 1] = h[n - 1]
        BY <4>1
      <4>3. Body(g, n) = Body(h, n)
        BY <4>2
      <4>4. n # m => h[n] = Body(h, n)
        <5>1. n # m => n \in 0 .. m - 1
          OBVIOUS
        <5>. HIDE DEF Body
        <5>. QED
          BY <3>3, <5>1
      <4>. HIDE DEF Body
      <4>. QED
        BY <4>3, <4>4
    <3>5. g = [n \in 0 .. m |-> Body(g, n)]
      <4>1. \A n \in 0 .. m : g[n] = Body(g, n)
        BY <3>4
      <4>. HIDE DEF Body
      <4>2. DOMAIN g = 0 .. m
        OBVIOUS
      <4>3. g = [n \in 0 .. m |-> g[n]]
        OBVIOUS
      <4>. HIDE DEF g
      <4>. QED
        BY <4>1, <4>3
    <3>6. IsUpto(g, m)
      BY <3>5
    <3>. HIDE DEF IsUpto, g
    <3>. QED
      BY <3>6
  <2>. QED
    BY <2>3, <2>4
<1>3. Upto = [n \in 0 .. L |-> Body(Upto, n)]
  <2>1. \E g : IsUpto(g, L)
    BY <1>1, <1>2
  <2>2. IsUpto(Upto, L)
    <3>. HIDE DEF IsUpto
    <3>. QED
      BY <2>1
  <2>. HIDE DEF Upto
  <2>. QED
    BY <2>2
<1>4. Configured(S) = Upto[L]
  BY DEF Configured
<1>. HIDE DEF Upto
<1>5. \A n \in 0 .. L : Upto[n] = Body(Upto, n)
  BY <1>3
<1>. DEFINE Found(n) == S \cap {TABLES[i] : i \in 1 .. n}
            Good(n) == Lists(Upto[n], Found(n))
<1>6. Good(0)
  <2>1. Upto[0] = <<>>
    BY <1>1, <1>5
  <2>2. Found(0) = {}
    OBVIOUS
  <2>. QED
    BY <2>1, <2>2 DEF Lists, Elements, Once
<1>7. ASSUME NEW n \in 1 .. L, Good(n - 1) PROVE Good(n)
  <2>1. TABLES[n] \in Tables /\ n - 1 \in 0 .. L /\ n \in 0 .. L /\ n # 0
    BY <1>1
  <2>2. Upto[n] = IF TABLES[n] \in S THEN Append(Upto[n - 1], TABLES[n]) ELSE Upto[n - 1]
    BY <1>5, <2>1
  <2>3. Found(n) = IF TABLES[n] \in S THEN Found(n - 1) \cup {TABLES[n]} ELSE Found(n - 1)
    <3>1. \A i : i \in 1 .. n <=> i \in 1 .. n - 1 \/ i = n
      OBVIOUS
    <3>. QED
      BY <3>1
  <2>4. TABLES[n] \notin Found(n - 1)
    <3>1. \A i \in 1 .. n - 1 : i \in 1 .. L /\ i # n
      BY <1>1
    <3>. QED
      BY <1>1, <3>1
  <2>. HIDE DEF Found
  <2>5. Upto[n - 1] \in Seq(Tables) /\ Elements(Upto[n - 1]) = Found(n - 1) /\ Once(Upto[n - 1])
    BY <1>7 DEF Lists
  <2>6. Lists(Append(Upto[n - 1], TABLES[n]), Found(n - 1) \cup {TABLES[n]})
    BY <2>1, <2>4, <2>5, AppendElements DEF Lists
  <2>. QED
    BY <1>7, <2>2, <2>3, <2>6
<1>8. Good(L)
  <2>. HIDE DEF Good
  <2>. DEFINE B == {n \in 0 .. L : ~Good(n)}
  <2>1. SUFFICES ASSUME B # {} PROVE FALSE
    BY <1>1
  <2>2. PICK n \in B : \A y \in B : n <= y
    <3>1. B \in SUBSET Nat
      BY <1>1
    <3>. QED
      BY <2>1, <3>1, HasLeast
  <2>3. n # 0
    BY <1>6, <2>2
  <2>4. n \in 1 .. L /\ n - 1 \in 0 .. L /\ ~(n <= n - 1)
    BY <1>1, <2>3
  <2>5. Good(n - 1)
    BY <2>2, <2>4
  <2>. QED
    BY <1>7, <2>2, <2>4, <2>5
<1>9. Found(L) = S
  BY <1>1
<1>. QED
  BY <1>4, <1>8, <1>9

\* What the queue and the result of Kahn's algorithm are after n turns.
KahnInv(s, n, planned) ==
    /\ s.queue \in Seq(Tables) /\ s.result \in Seq(Tables)
    /\ Once(s.queue) /\ Once(s.result) /\ Elements(s.queue) \cap Elements(s.result) = {}
    /\ Elements(s.queue) \cup Elements(s.result)
          = {t \in planned : Parents(t, planned) \subseteq Elements(s.result)}
    /\ \A i \in DOMAIN s.result :
          Parents(s.result[i], planned) \subseteq {s.result[j] : j \in 1 .. i - 1}
    /\ s.queue = <<>> \/ Len(s.result) = n

\* A turn of the loop: the first table of the queue has its parents before it,
\* and those tables are released that wait for no other.
LEMMA PlaceFirstKeeps ==
  ASSUME MigrateAssumption, NEW planned \in SUBSET Tables, NEW n \in Nat, NEW s,
         KahnInv(s, n, planned), s.queue # <<>>
  PROVE  KahnInv(PlaceFirst(s, planned), n + 1, planned)
<1>. DEFINE current == Head(s.queue)
            result == Append(s.result, current)
            released == {t \in planned : /\ current \in Parents(t, planned)
                                         /\ Parents(t, planned) \subseteq Elements(result)}
            queue == Tail(s.queue) \o Configured(released)
            Free(S) == {t \in planned : Parents(t, planned) \subseteq S}
<1>1. PlaceFirst(s, planned) = [queue |-> queue, result |-> result]
  BY DEF PlaceFirst
<1>2. /\ s.queue \in Seq(Tables) /\ s.result \in Seq(Tables)
      /\ Once(s.queue) /\ Once(s.result) /\ Elements(s.queue) \cap Elements(s.result) = {}
      /\ Elements(s.queue) \cup Elements(s.result) = Free(Elements(s.result))
      /\ \A i \in DOMAIN s.result :
            Parents(s.result[i], planned) \subseteq {s.result[j] : j \in 1 .. i - 1}
      /\ Len(s.result) = n
  BY DEF KahnInv
<1>3. /\ current \in Elements(s.queue) /\ current \in Tables /\ Tail(s.queue) \in Seq(Tables)
      /\ Once(Tail(s.queue)) /\ Elements(Tail(s.queue)) = Elements(s.queue) \ {current}
  BY <1>2, TailElements
<1>4. current \notin Elements(s.result)
  BY <1>2, <1>3
<1>5. /\ result \in Seq(Tables) /\ Elements(result) = Elements(s.result) \cup {current}
      /\ Once(result)
  BY <1>2, <1>3, <1>4, AppendElements
<1>6. /\ Len(result) = n + 1 /\ DOMAIN result = 1 .. n + 1 /\ result[n + 1] = current
      /\ DOMAIN s.result = 1 .. n /\ \A i \in 1 .. n : result[i] = s.result[i]
  BY <1>2, <1>3
<1>7. released \in SUBSET Tables
  OBVIOUS
<1>8. /\ Configured(released) \in Seq(Tables) /\ Elements(Configured(released)) = released
      /\ Once(Configured(released))
  BY <1>7, ConfiguredLists DEF Lists
<1>9. \A t \in released : t \notin Free(Elements(s.result))
  BY <1>4
<1>. HIDE DEF current, result, released
<1>10. Elements(Tail(s.queue)) \cap released = {}
  BY <1>2, <1>3, <1>9
<1>11. /\ queue \in Seq(Tables) /\ Once(queue)
       /\ Elements(queue) = (Elements(s.queue) \ {current}) \cup released
  BY <1>3, <1>8, <1>10, ConcatElements
<1>. HIDE DEF queue
<1>12. Free(Elements(result)) = Free(Elements(s.result)) \cup released
  BY <1>5 DEF released
<1>13. current \notin released
  BY <1>2, <1>3, <1>9
<1>14. Elements(queue) \cap Elements(result) = {}
  BY <1>2, <1>5, <1>9, <1>11, <1>13
<1>15. Elements(queue) \cup Elements(result) = Free(Elements(result))
  <2>. DEFINE R == Elements(s.result)  Q == Elements(s.queue)
  <2>1. Q \cup R = Free(R) /\ current \in Q
    BY <1>2, <1>3
  <2>2. Elements(queue) = (Q \ {current}) \cup released /\ Elements(result) = R \cup {current}
    BY <1>5, <1>11
  <2>3. Free(Elements(result)) = Free(R) \cup released
    BY <1>12
  <2>. HIDE DEF Free, R, Q
  <2>4. Elements(queue) \cup Elements(result) = (Q \cup R) \cup released
    BY <2>1, <2>2
  <2>. QED
    BY <2>1, <2>3, <2>4
<1>16. ASSUME NEW i \in DOMAIN result
       PROVE  Parents(result[i], planned) \subseteq {result[j] : j \in 1 .. i - 1}
  <2>1. CASE i \in 1 .. n
    <3>1. Parents(s.result[i], planned) \subseteq {s.result[j] : j \in 1 .. i - 1}
      BY <1>2, <1>6, <2>1
    <3>2. \A j \in 1 .. i - 1 : j \in 1 .. n /\ result[j] = s.result[j]
      BY <1>6, <2>1
    <3>3. result[i] = s.result[i]
      BY <1>6, <2>1
    <3>. QED
      BY <3>1, <3>2, <3>3
  <2>2. CASE i = n + 1
    <3>1. Parents(current, planned) \subseteq Elements(s.result)
      BY <1>2, <1>3
    <3>2. \A j \in 1 .. n : j \in 1 .. i - 1
      BY <2>2
    <3>3. Elements(s.result) \subseteq {result[j] : j \in 1 .. i - 1}
      BY <1>6, <3>2 DEF Elements
    <3>. QED
      BY <1>6, <2>2, <3>1, <3>3
  <2>. QED
    BY <1>6, <2>1, <2>2
<1>17. PICK r : r = PlaceFirst(s, planned)
  OBVIOUS
<1>18. r.queue = queue /\ r.result = result
  BY <1>1, <1>17
<1>19. KahnInv(r, n + 1, planned)
  <2>1. /\ r.queue \in Seq(Tables) /\ r.result \in Seq(Tables)
        /\ Once(r.queue) /\ Once(r.result) /\ Elements(r.queue) \cap Elements(r.result) = {}
        /\ Len(r.result) = n + 1
    BY <1>5, <1>6, <1>11, <1>14, <1>18
  <2>2. Elements(r.queue) \cup Elements(r.result)
          = {t \in planned : Parents(t, planned) \subseteq Elements(r.result)}
    BY <1>15, <1>18
  <2>3. \A i \in DOMAIN r.result :
           Parents(r.result[i], planned) \subseteq {r.result[j] : j \in 1 .. i - 1}
    BY <1>16, <1>18
  <2>. QED
    BY <2>1, <2>2, <2>3 DEF KahnInv
<1>. QED
  BY <1>17, <1>19

\* A sequence is as long as what it lists is large.
LEMMA ListLength ==
  ASSUME NEW q \in Seq(Tables), Once(q)
  PROVE  IsFiniteSet(Elements(q)) /\ Cardinality(Elements(q)) = Len(q)
<1>1. Len(q) \in Nat /\ DOMAIN q = 1 .. Len(q) /\ q \in [1 .. Len(q) -> Elements(q)]
  BY DEF Elements
<1>2. q \in Bijection(1 .. Len(q), Elements(q))
  BY <1>1 DEF Bijection, Injection, Surjection, IsInjective, Once, Elements
<1>3. ExistsBijection(1 .. Len(q), Elements(q))
  BY <1>2 DEF ExistsBijection
<1>. QED
  BY <1>1, <1>3, FS_NatBijection, FS_CountingElements

\* Unless the references form a cycle no table is left waiting.
LEMMA NobodyWaits ==
  ASSUME fk \in [Tables -> SUBSET Tables], Acyclic, NEW planned \in SUBSET Tables,
         NEW n, NEW s, KahnInv(s, n, planned), s.queue = <<>>
  PROVE  Elements(s.result) = planned
<1>. DEFINE S == planned \ Elements(s.result)
<1>1. Elements(s.queue) = {}
  BY DEF Elements
<1>2. Elements(s.result) = {t \in planned : Parents(t, planned) \subseteq Elements(s.result)}
  BY <1>1 DEF KahnInv
<1>3. SUFFICES ASSUME S # {} PROVE FALSE
  BY <1>2
<1>4. PICK t \in S : fk[t] \cap S = {}
  BY <1>3 DEF Acyclic
<1>5. Parents(t, planned) \subseteq Elements(s.result)
  BY <1>4 DEF Parents
<1>. QED
  BY <1>2, <1>4, <1>5

\* Each planned table has its place in the order, and unless the references
\* form a cycle its parents come before it.
LEMMA OrderLists ==
  ASSUME MigrateAssumption, fk \in [Tables -> SUBSET Tables], NEW planned \in SUBSET Tables
  PROVE  LET q == topologicalSortTables(planned) IN
         /\ Lists(q, planned)
         /\ Acyclic => \A i \in DOMAIN q :
               Parents(q[i], planned) \subseteq {q[j] : j \in 1 .. i - 1}
<1>. DEFINE tables == Configured(planned)
            L == Len(tables)
            roots == {t \in planned : Parents(t, planned) = {}}
            start == [queue |-> Configured(roots), result |-> <<>>]
            Body(g, n) == IF n = 0 THEN start
                          ELSE IF g[n - 1].queue = <<>> THEN g[n - 1]
                          ELSE PlaceFirst(g[n - 1], planned)
            IsSorted(g, m) == g = [n \in 0 .. m |-> Body(g, n)]
            Sorted == CHOOSE g : IsSorted(g, L)
            sorted == Sorted[L].result
<1>1. tables \in Seq(Tables) /\ Elements(tables) = planned /\ Once(tables) /\ L \in Nat
  BY ConfiguredLists DEF Lists
<1>2. topologicalSortTables(planned) = IF Len(sorted) # L THEN tables ELSE sorted
  BY DEF topologicalSortTables
<1>3. \A m \in Nat : \E g : IsSorted(g, m)
  <2>. DEFINE B == {m \in Nat : ~ \E g : IsSorted(g, m)}
  <2>1. SUFFICES ASSUME B # {} PROVE FALSE
    OBVIOUS
  <2>2. PICK m \in B : \A y \in B : m <= y
    <3>. HIDE DEF IsSorted
    <3>. QED
      BY <2>1, HasLeast
  <2>. HIDE DEF start
  <2>3. CASE m = 0
    <3>. DEFINE g == [n \in 0 .. 0 |-> start]
    <3>1. IsSorted(g, 0)
      OBVIOUS
    <3>. HIDE DEF IsSorted
    <3>. QED
      BY <2>3, <3>1
  <2>4. CASE m # 0
    <3>1. m - 1 \in Nat /\ m - 1 \notin B
      <4>1. m \in Nat /\ m - 1 \in Nat /\ ~(m <= m - 1)
        BY <2>4
      <4>. QED
        BY <2>2, <4>1
    <3>2. PICK h : IsSorted(h, m - 1)
      BY <3>1
    <3>. DEFINE g == [n \in 0 .. m |-> IF n = m THEN Body(h, m) ELSE h[n]]
    <3>3. h = [n \in 0 .. m - 1 |-> Body(h, n)]
      BY <3>2
    <3>4. ASSUME NEW n \in 0 .. m PROVE g[n] = Body(g, n)
      <4>1. n = 0 \/ (n - 1 \in 0 .. m /\ n - 1 # m)
        OBVIOUS
      <4>2. n # 0 => g[n - 1] = h[n - 1]
        BY <4>1
      <4>3. Body(g, n) = Body(h, n)
        BY <4>2
      <4>4. n # m => h[n] = Body(h, n)
        <5>1. n # m => n \in 0 .. m - 1
          OBVIOUS
        <5>. HIDE DEF Body
        <5>. QED
          BY <3>3, <5>1
      <4>. HIDE DEF Body
      <4>. QED
        BY <4>3, <4>4
    <3>5. g = [n \in 0 .. m |-> Body(g, n)]
      <4>1. \A n \in 0 .. m : g[n] = Body(g, n)
        BY <3>4
      <4>. HIDE DEF Body
      <4>2. g = [n \in 0 .. m |-> g[n]]
        OBVIOUS
      <4>. HIDE DEF g
      <4>. QED
        BY <4>1, <4>2
    <3>6. IsSorted(g, m)
      BY <3>5
    <3>. HIDE DEF IsSorted, g
    <3>. QED
      BY <3>6
  <2>. QED
    BY <2>3, <2>4
<1>4. Sorted = [n \in 0 .. L |-> Body(Sorted, n)]
  <2>1. \E g : IsSorted(g, L)
    BY <1>1, <1>3
  <2>2. IsSorted(Sorted, L)
    <3>. HIDE DEF IsSorted
    <3>. QED
      BY <2>1
  <2>. HIDE DEF Sorted
  <2>. QED
    BY <2>2
<1>. HIDE DEF Sorted
<1>5. \A n \in 0 .. L : Sorted[n] = Body(Sorted, n)
  <2>. HIDE DEF Body
  <2>. QED
    BY <1>4
<1>. DEFINE Good(n) == KahnInv(Sorted[n], n, planned)
<1>6. Good(0)
  <2>0. 0 \in 0 .. L
    BY <1>1
  <2>1. Sorted[0] = start
    <3>. HIDE DEF start
    <3>. QED
      BY <1>5, <2>0
  <2>2. Configured(roots) \in Seq(Tables) /\ Elements(Configured(roots)) = roots /\ Once(Configured(roots))
    BY ConfiguredLists DEF Lists
  <2>3. Sorted[0].queue = Configured(roots) /\ Sorted[0].result = <<>>
    BY <2>1
  <2>4. Elements(<<>>) = {} /\ Once(<<>>) /\ <<>> \in Seq(Tables) /\ Len(<<>>) = 0
    BY DEF Elements, Once
  <2>5. roots = {t \in planned : Parents(t, planned) \subseteq {}}
    OBVIOUS
  <2>6. PICK s : s = Sorted[0]
    OBVIOUS
  <2>7. s.queue \in Seq(Tables) /\ Elements(s.queue) = roots /\ Once(s.queue) /\ s.result = <<>>
    BY <2>2, <2>3, <2>6
  <2>8. KahnInv(s, 0, planned)
    <3>1. Elements(s.queue) \cup Elements(s.result)
            = {t \in planned : Parents(t, planned) \subseteq Elements(s.result)}
      BY <2>4, <2>5, <2>7
    <3>2. s.result \in Seq(Tables) /\ Once(s.result) /\ Elements(s.result) = {}
          /\ Len(s.result) = 0 /\ DOMAIN s.result = {}
      BY <2>4, <2>7
    <3>. HIDE DEF roots
    <3>. QED
      BY <2>7, <3>1, <3>2 DEF KahnInv
  <2>. QED
    BY <2>6, <2>8
<1>7. ASSUME NEW n \in 1 .. L, Good(n - 1) PROVE Good(n)
  <2>1. n \in 0 .. L /\ n # 0 /\ n - 1 \in Nat /\ (n - 1) + 1 = n
    BY <1>1
  <2>2. Sorted[n] = IF Sorted[n - 1].queue = <<>> THEN Sorted[n - 1]
                    ELSE PlaceFirst(Sorted[n - 1], planned)
    BY <1>5, <2>1
  <2>3. CASE Sorted[n - 1].queue = <<>>
    <3>1. PICK s : s = Sorted[n - 1]
      OBVIOUS
    <3>2. KahnInv(s, n - 1, planned) /\ s.queue = <<>> /\ Sorted[n] = s
      BY <1>7, <2>2, <2>3, <3>1
    <3>3. KahnInv(s, n, planned)
      BY <3>2 DEF KahnInv
    <3>. QED
      BY <3>2, <3>3
  <2>4. CASE Sorted[n - 1].queue # <<>>
    BY <1>7, <2>1, <2>2, <2>4, PlaceFirstKeeps
  <2>. QED
    BY <2>3, <2>4
<1>8. Good(L)
  <2>. HIDE DEF Good
  <2>. DEFINE B == {n \in 0 .. L : ~Good(n)}
  <2>1. SUFFICES ASSUME B # {} PROVE FALSE
    BY <1>1
  <2>2. PICK n \in B : \A y \in B : n <= y
    <3>1. B \in SUBSET Nat
      BY <1>1
    <3>. QED
      BY <2>1, <3>1, HasLeast
  <2>3. n # 0
    BY <1>6, <2>2
  <2>4. n \in 1 .. L /\ n - 1 \in 0 .. L /\ ~(n <= n - 1)
    BY <1>1, <2>3
  <2>5. Good(n - 1)
    BY <2>2, <2>4
  <2>. QED
    BY <1>7, <2>2, <2>4, <2>5
<1>9. IsFiniteSet(planned) /\ Cardinality(planned) = L
  BY <1>1, ListLength
<1>. HIDE DEF tables, L
<1>10. /\ sorted \in Seq(Tables) /\ Once(sorted) /\ Elements(sorted) \subseteq planned
       /\ \A i \in DOMAIN sorted :
             Parents(sorted[i], planned) \subseteq {sorted[j] : j \in 1 .. i - 1}
       /\ Sorted[L].queue = <<>> \/ Len(sorted) = L
  BY <1>8 DEF KahnInv
<1>11. Len(sorted) = L => Elements(sorted) = planned
  BY <1>9, <1>10, ListLength, FS_Subset
<1>12. Acyclic => Len(sorted) = L
  <2>1. ASSUME Acyclic, Sorted[L].queue = <<>> PROVE Elements(sorted) = planned
    BY <1>8, <2>1, NobodyWaits
  <2>. QED
    BY <1>9, <1>10, <2>1, ListLength
<1>. HIDE DEF sorted
<1>13. CASE Len(sorted) # L
  BY <1>1, <1>2, <1>12, <1>13 DEF Lists
<1>14. CASE Len(sorted) = L
  <2>1. topologicalSortTables(planned) = sorted
    BY <1>2, <1>14
  <2>2. Lists(sorted, planned)
    BY <1>10, <1>11, <1>14 DEF Lists
  <2>. QED
    BY <1>10, <2>1, <2>2
<1>. QED
  BY <1>13, <1>14

-----------------------------------------------------------------------------
(* The types.                                                              *)

TypeInv ==
    /\ \A t \in Tables : source[t] \in Sources[t]
    /\ schema \in [Tables -> Schema]
    /\ pc \in {"off", "ensure", "map", "fetch", "rows", "links", "done"}
    /\ order \in Seq(Tables) /\ at \in Nat \ {0}
    /\ Running => at <= Len(order)
    /\ known \subseteq Tables
    /\ pc \in {"fetch", "rows"} => DOMAIN map \subseteq Keys
    /\ batch \in Seq(Row)
    /\ DOMAIN relationMaps \subseteq Tables
    /\ \A c \in DOMAIN relationMaps : DOMAIN relationMaps[c] \subseteq Keys
    /\ runs \in 0 .. MaxRuns /\ faults \in 0 .. MaxFaults /\ edits \in 0 .. MaxEdits
    /\ disturbed \in BOOLEAN /\ doubt \subseteq Keys /\ dropped \subseteq Tables \X Tables

LEMMA TypeInit ==
  ASSUME MigrateAssumption, Init
  PROVE  TypeInv
<1>1. NoSchema \in Schema
  BY DEF NoSchema, Schema
<1>2. schema \in [Tables -> Schema]
  BY <1>1 DEF Init
<1>3. \A t \in Tables : source[t] \in Sources[t]
  BY DEF Init
<1>4. DOMAIN relationMaps = {} /\ batch \in Seq(Row) /\ order \in Seq(Tables)
  BY DEF Init
<1>5. /\ pc = "off" /\ at = 1 /\ known = {} /\ runs = 0 /\ faults = 0 /\ edits = 0
      /\ disturbed = FALSE /\ doubt = {} /\ dropped = {}
  BY DEF Init
<1>6. MaxRuns \in Nat /\ MaxFaults \in Nat /\ MaxEdits \in Nat
  BY DEF MigrateAssumption
<1>7. runs \in 0 .. MaxRuns /\ faults \in 0 .. MaxFaults /\ edits \in 0 .. MaxEdits
  BY <1>5, <1>6
<1>8. ~Running /\ at \in Nat \ {0}
  BY <1>5 DEF Running
<1>. QED
  BY <1>2, <1>3, <1>4, <1>5, <1>7, <1>8 DEF TypeInv

\* While the script runs it is at a table.
LEMMA TableIsOne ==
  ASSUME TypeInv, Running
  PROVE  /\ at \in DOMAIN order /\ table \in Tables /\ Len(order) \in Nat \ {0}
         /\ DOMAIN order = 1 .. Len(order) /\ at \in 1 .. Len(order)
<1>1. order \in Seq(Tables) /\ at \in Nat \ {0} /\ at <= Len(order)
  BY DEF TypeInv
<1>2. DOMAIN order = 1 .. Len(order) /\ Len(order) \in Nat /\ at \in 1 .. Len(order)
  BY <1>1
<1>. QED
  BY <1>1, <1>2, ElementOfSeq DEF table

\* The next turn of a loop is at a table, too, and starts from nothing.
LEMMA NextTableTypes ==
  ASSUME TypeInv, Running, order' = order, NEW phase, NEW next, NextTable(phase, next)
  PROVE  /\ order' \in Seq(Tables) /\ at' \in Nat \ {0} /\ at' <= Len(order')
         /\ batch' \in Seq(Row) /\ relationMaps' = <<>> /\ map' = <<>>
         /\ DOMAIN relationMaps' = {} /\ DOMAIN map' = {}
         /\ pc' \in {phase, next} /\ pos' = 1 /\ offset' = 0
<1>1. order \in Seq(Tables) /\ at \in 1 .. Len(order) /\ Len(order) \in Nat \ {0}
  BY TableIsOne DEF TypeInv
<1>2. at' \in Nat \ {0} /\ at' <= Len(order)
  BY <1>1 DEF NextTable
<1>3. batch' \in Seq(Row) /\ DOMAIN relationMaps' = {} /\ DOMAIN map' = {}
  BY DEF NextTable
<1>. QED
  BY <1>1, <1>2, <1>3 DEF NextTable

LEMMA SyncedTypes ==
  ASSUME fk \in [Tables -> SUBSET Tables], schema \in [Tables -> Schema], known \subseteq Tables,
         NEW t \in Tables
  PROVE  Synced(t) \in Schema /\ PartlySynced(t) \subseteq Schema
<1>1. /\ schema[t].made \in BOOLEAN /\ schema[t].old_id \in BOOLEAN
      /\ schema[t].link \in [Tables -> {"absent", "text", "relation"}]
      /\ schema[t].temp \subseteq Tables /\ fk[t] \subseteq Tables
  BY DEF Schema
<1>2. Synced(t) \in Schema
  <2>. DEFINE link == [c \in Tables |->
                 IF c \notin fk[t] \/ schema[t].link[c] # "absent" THEN schema[t].link[c]
                 ELSE IF c \in known THEN "relation" ELSE "text"]
              temp == schema[t].temp \cup (fk[t] \cap known)
  <2>1. link \in [Tables -> {"absent", "text", "relation"}] /\ temp \subseteq Tables
    BY <1>1
  <2>2. Synced(t) = [made |-> TRUE, old_id |-> TRUE, link |-> link, temp |-> temp]
    BY DEF Synced
  <2>. HIDE DEF link, temp
  <2>. QED
    BY <2>1, <2>2 DEF Schema
<1>3. ASSUME NEW s \in PartlySynced(t) PROVE s \in Schema
  <2>. DEFINE part(o, L, T) ==
                [made |-> TRUE, old_id |-> o \/ schema[t].old_id,
                 link |-> [c \in Tables |-> IF c \in L THEN Synced(t).link[c]
                                                       ELSE schema[t].link[c]],
                 temp |-> schema[t].temp \cup T]
  <2>0. PartlySynced(t) = {part(o, L, T) : o \in BOOLEAN, L \in SUBSET fk[t],
                                           T \in SUBSET (fk[t] \cap known)}
    BY DEF PartlySynced
  <2>1. PICK o \in BOOLEAN, L \in SUBSET fk[t], T \in SUBSET (fk[t] \cap known) :
           s = part(o, L, T)
    <3>. HIDE DEF part
    <3>. QED
      BY <2>0
  <2>. DEFINE link == [c \in Tables |-> IF c \in L THEN Synced(t).link[c] ELSE schema[t].link[c]]
  <2>2. Synced(t).link \in [Tables -> {"absent", "text", "relation"}]
    BY <1>2 DEF Schema
  <2>3. link \in [Tables -> {"absent", "text", "relation"}]
    BY <1>1, <2>2
  <2>4. (o \/ schema[t].old_id) \in BOOLEAN
    OBVIOUS
  <2>5. schema[t].temp \cup T \subseteq Tables
    BY <1>1
  <2>. HIDE DEF link
  <2>6. s = [made |-> TRUE, old_id |-> o \/ schema[t].old_id, link |-> link,
             temp |-> schema[t].temp \cup T]
    BY <2>1 DEF link, part
  <2>. QED
    BY <2>3, <2>4, <2>5, <2>6 DEF Schema
<1>. QED
  BY <1>2, <1>3

\* buildOldIdToPocketIdMap knows records by keys.
LEMMA MapOfTypes ==
  ASSUME StoreType, NEW t \in Tables, NEW n \in 0 .. Len(store[t])
  PROVE  DOMAIN MapOf(t, n) = {store[t][i].old_id : i \in {j \in 1 .. n : store[t][j].old_id # NoKey}}
         /\ DOMAIN MapOf(t, n) \subseteq Keys
<1>1. store[t] \in Seq(Record) /\ Len(store[t]) \in Nat
  BY DEF StoreType
<1>2. ASSUME NEW i \in 1 .. n PROVE store[t][i].old_id \in Keys \cup {NoKey}
  <2>1. store[t][i] \in Record
    BY <1>1, ElementOfSeq
  <2>. QED
    BY <2>1 DEF Record, KeyOrNone
<1>3. DOMAIN MapOf(t, n) = {store[t][i].old_id : i \in {j \in 1 .. n : store[t][j].old_id # NoKey}}
  BY DEF MapOf
<1>. QED
  BY <1>2, <1>3

LEMMA FaultTypes ==
  ASSUME MigrateAssumption, TypeInv, Smooth \/ Fault
  PROVE  faults' \in 0 .. MaxFaults /\ disturbed' \in BOOLEAN
<1>1. MaxFaults \in Nat /\ faults \in 0 .. MaxFaults /\ disturbed \in BOOLEAN
  BY DEF MigrateAssumption, TypeInv
<1>2. CASE Smooth
  BY <1>1, <1>2 DEF Smooth
<1>3. CASE Fault
  <2>1. faults < MaxFaults /\ faults' = faults + 1 /\ disturbed' = TRUE
    BY <1>3 DEF Fault
  <2>2. faults' \in 0 .. MaxFaults
    BY <1>1, <2>1
  <2>. QED
    BY <2>1, <2>2
<1>. QED
  BY <1>2, <1>3

LEMMA TypeStart ==
  ASSUME MigrateAssumption, IInv, TypeInv, NEW planned \in SUBSET Tables, Start(planned)
  PROVE  TypeInv'
<1>1. fk \in [Tables -> SUBSET Tables]
  BY DEF IInv, StoreType
<1>2. Lists(order', planned) /\ planned # {}
  <2>1. Tables # {}
    BY DEF MigrateAssumption, Tables
  <2>. QED
    BY <1>1, <2>1, OrderLists DEF Start
<1>3. order' \in Seq(Tables) /\ 1 <= Len(order')
  <2>1. order' \in Seq(Tables) /\ order' # <<>>
    BY <1>2 DEF Lists, Elements
  <2>. QED
    BY <2>1, EmptySeq
<1>4. /\ pc' = "ensure" /\ at' = 1 /\ doubt' = {} /\ batch' = <<>> /\ relationMaps' = <<>>
      /\ known' \subseteq Tables /\ runs < MaxRuns /\ runs' = runs + 1
      /\ UNCHANGED <<source, schema, edits, dropped>>
  BY DEF Start, sourceVars, pocketVars
<1>5. faults' \in 0 .. MaxFaults /\ disturbed' \in BOOLEAN
  <2>1. (disturbed' = FALSE /\ faults' = faults) \/ Fault
    BY DEF Start
  <2>. QED
    BY <2>1, FaultTypes DEF TypeInv
<1>6. runs' \in 0 .. MaxRuns
  BY <1>4 DEF TypeInv, MigrateAssumption
<1>7. batch' \in Seq(Row) /\ DOMAIN relationMaps' = {}
  BY <1>4
<1>. QED
  BY <1>3, <1>4, <1>5, <1>6, <1>7 DEF TypeInv

LEMMA TypeEnsure ==
  ASSUME MigrateAssumption, IInv, TypeInv, EnsureCollection
  PROVE  TypeInv'
<1>1. Running /\ order' = order /\ NextTable("ensure", "map") /\ (Smooth \/ Fault)
  BY DEF EnsureCollection, Running
<1>2. table \in Tables
  BY <1>1, TableIsOne
<1>3. /\ fk \in [Tables -> SUBSET Tables] /\ schema \in [Tables -> Schema] /\ known \subseteq Tables
  BY DEF IInv, StoreType, TypeInv
<1>4. Synced(table) \in Schema /\ PartlySynced(table) \subseteq Schema
  BY <1>2, <1>3, SyncedTypes
<1>5. schema' \in [Tables -> Schema] /\ known' \subseteq Tables
  <2>1. \/ schema' = schema
        \/ \E s \in Schema : schema' = [schema EXCEPT ![table] = s]
    BY <1>4 DEF EnsureCollection
  <2>2. known' \subseteq Tables
    BY <1>2, <1>3 DEF EnsureCollection
  <2>. QED
    BY <1>3, <2>1, <2>2
<1>6. faults' \in 0 .. MaxFaults /\ disturbed' \in BOOLEAN
  BY <1>1, FaultTypes
<1>7. UNCHANGED <<source, runs, edits, doubt, dropped>>
  BY DEF EnsureCollection, sourceVars
<1>8. /\ order' \in Seq(Tables) /\ at' \in Nat \ {0} /\ at' <= Len(order')
      /\ batch' \in Seq(Row) /\ DOMAIN relationMaps' = {} /\ pc' \in {"ensure", "map"}
  BY <1>1, NextTableTypes
<1>. QED
  BY <1>5, <1>6, <1>7, <1>8 DEF TypeInv

LEMMA TypeExistingMap ==
  ASSUME MigrateAssumption, IInv, TypeInv, BuildExistingMap
  PROVE  TypeInv'
<1>1. Running /\ (Smooth \/ Fault) /\ StoreType /\ RecordsAreTrue
  BY DEF BuildExistingMap, Running, IInv
<1>2. table \in Tables
  BY <1>1, TableIsOne
<1>3. store[table] \in Seq(Record) /\ Len(store[table]) \in 0 .. Len(store[table])
  BY <1>1, <1>2 DEF StoreType
<1>4. Keyless(table) \subseteq Keys
  <2>1. \A i \in DOMAIN store[table] : store[table][i] \in Record
    BY <1>3
  <2>. QED
    BY <2>1 DEF Keyless, Record
<1>5. DOMAIN map' \subseteq Keys
  <2>1. PICK n \in 0 .. Len(store[table]) : map' = MapOf(table, n)
    BY <1>3, CutIsWithin, <1>2 DEF BuildExistingMap
  <2>. QED
    BY <1>1, <1>2, <2>1, MapOfTypes
<1>6. doubt' \subseteq Keys
  BY <1>4 DEF BuildExistingMap
<1>7. faults' \in 0 .. MaxFaults /\ disturbed' \in BOOLEAN
  BY <1>1, FaultTypes
<1>8. pc' = "fetch" /\ UNCHANGED <<source, schema, order, at, known, batch, relationMaps, runs, edits, dropped>>
  BY DEF BuildExistingMap, sourceVars, pocketVars
<1>. QED
  BY <1>1, <1>5, <1>6, <1>7, <1>8 DEF TypeInv, Running

LEMMA TypeFetch ==
  ASSUME MigrateAssumption, IInv, TypeInv, FetchBatch
  PROVE  TypeInv'
<1>1. Running /\ pc = "fetch" /\ (Smooth \/ Fault) /\ order' = order
  BY DEF FetchBatch, Running
<1>2. table \in Tables /\ source[table] \in Seq(Row) /\ offset \in Nat
  BY <1>1, TableIsOne DEF IInv, StoreType
<1>3. faults' \in 0 .. MaxFaults /\ disturbed' \in BOOLEAN
  BY <1>1, FaultTypes
<1>4. UNCHANGED <<source, schema, known, runs, edits, doubt, dropped>>
  BY DEF FetchBatch, sourceVars, pocketVars
<1>5. CASE NextTable("map", "links")
  <2>1. /\ order' \in Seq(Tables) /\ at' \in Nat \ {0} /\ at' <= Len(order')
        /\ batch' \in Seq(Row) /\ DOMAIN relationMaps' = {} /\ pc' \in {"map", "links"}
    BY <1>1, <1>5, NextTableTypes
  <2>. QED
    BY <1>3, <1>4, <2>1 DEF TypeInv
<1>6. CASE /\ batch' = Slice(source[table]) \/ \E rows \in Unordered(source[table]) : batch' = Slice(rows)
           /\ pc' = "rows" /\ UNCHANGED <<at, map, relationMaps>>
  <2>1. batch' \in Seq(Row)
    BY <1>2, <1>6, SliceOfRows, UnorderedRows
  <2>. QED
    BY <1>1, <1>3, <1>4, <1>6, <2>1 DEF TypeInv, Running
<1>. QED
  BY <1>5, <1>6 DEF FetchBatch

LEMMA TypeRow ==
  ASSUME MigrateAssumption, IInv, TypeInv, MigrateRow
  PROVE  TypeInv'
<1>1. /\ Running /\ pc = "rows" /\ (Smooth \/ Fault)
      /\ UNCHANGED <<source, schema, pc, order, at, known, batch, relationMaps, runs, edits>>
  BY DEF MigrateRow, Running, sourceVars
<1>2. table \in Tables /\ fk[table] \subseteq Tables
  BY <1>1, TableIsOne DEF IInv, StoreType
<1>3. faults' \in 0 .. MaxFaults /\ disturbed' \in BOOLEAN
  BY <1>1, FaultTypes
<1>4. batch[pos] \in Row
  <2>1. batch \in Seq(Row) /\ pos \in 1 .. Len(batch)
    BY DEF TypeInv, MigrateRow, IInv, StoreType
  <2>. QED
    BY <2>1, ElementOfSeq
<1>. DEFINE o == Norm[batch[pos].key]
<1>5. o \in Keys \cup {NoKey}
  BY <1>4 DEF MigrateAssumption, Row
<1>6. CASE UNCHANGED <<map, doubt, dropped>>
  BY <1>1, <1>3, <1>6 DEF TypeInv, Running
<1>7. CASE /\ o # NoKey /\ Upsert(table, batch[pos])
           /\ \/ Remember(table, o) /\ UNCHANGED doubt
              \/ UNCHANGED map /\ doubt' = doubt \cup {o}
  <2>1. DOMAIN map' \subseteq Keys /\ doubt' \subseteq Keys
    BY <1>1, <1>5, <1>7 DEF TypeInv, Remember
  <2>2. dropped' \subseteq Tables \X Tables
    BY <1>2, <1>7 DEF TypeInv, Upsert
  <2>. QED
    BY <1>1, <1>3, <2>1, <2>2 DEF TypeInv, Running
<1>. QED
  BY <1>6, <1>7 DEF MigrateRow

LEMMA TypeEndBatch ==
  ASSUME MigrateAssumption, IInv, TypeInv, EndBatch
  PROVE  TypeInv'
<1>1. /\ Running /\ pc = "rows"
      /\ UNCHANGED <<source, schema, order, known, runs, faults, edits, disturbed, doubt, dropped>>
  BY DEF EndBatch, Running, sourceVars, pocketVars, boundVars
<1>2. CASE NextTable("map", "links")
  <2>1. /\ order' \in Seq(Tables) /\ at' \in Nat \ {0} /\ at' <= Len(order')
        /\ batch' \in Seq(Row) /\ DOMAIN relationMaps' = {} /\ pc' \in {"map", "links"}
    BY <1>1, <1>2, NextTableTypes
  <2>. QED
    BY <1>1, <2>1 DEF TypeInv
<1>3. CASE pc' = "fetch" /\ UNCHANGED <<at, passVars>>
  BY <1>1, <1>3 DEF TypeInv, Running, passVars
<1>. QED
  BY <1>2, <1>3 DEF EndBatch

LEMMA TypeRelationMap ==
  ASSUME MigrateAssumption, IInv, TypeInv, ReadRelationMap
  PROVE  TypeInv'
<1>1. /\ Running /\ pc = "links" /\ (Smooth \/ Fault) /\ StoreType
      /\ UNCHANGED <<source, schema, pc, order, at, known, map, batch, runs, edits, doubt, dropped>>
  BY DEF ReadRelationMap, Running, sourceVars, pocketVars, IInv
<1>2. table \in Tables /\ fk[table] \subseteq Tables
  BY <1>1, TableIsOne DEF IInv, StoreType
<1>3. faults' \in 0 .. MaxFaults /\ disturbed' \in BOOLEAN
  BY <1>1, FaultTypes
<1>4. PICK c \in Unresolved : \E n \in CutAt(c) \cup {Len(store[c])} :
         relationMaps' = [d \in DOMAIN relationMaps \cup {c} |->
                             IF d = c THEN MapOf(c, n) ELSE relationMaps[d]]
  BY DEF ReadRelationMap
<1>5. PICK n \in CutAt(c) \cup {Len(store[c])} :
         relationMaps' = [d \in DOMAIN relationMaps \cup {c} |->
                             IF d = c THEN MapOf(c, n) ELSE relationMaps[d]]
  BY <1>4
<1>6. c \in Tables
  BY <1>2, <1>4 DEF Unresolved
<1>7. n \in 0 .. Len(store[c])
  <2>1. Len(store[c]) \in 0 .. Len(store[c])
    BY <1>1, <1>6 DEF StoreType
  <2>. QED
    BY <1>6, <2>1, CutIsWithin
<1>8. DOMAIN MapOf(c, n) \subseteq Keys
  BY <1>1, <1>6, <1>7, MapOfTypes
<1>9. /\ DOMAIN relationMaps' \subseteq Tables
      /\ \A d \in DOMAIN relationMaps' : DOMAIN relationMaps'[d] \subseteq Keys
  BY <1>5, <1>6, <1>8 DEF TypeInv
<1>. QED
  BY <1>1, <1>3, <1>9 DEF TypeInv, Running

LEMMA TypeLink ==
  ASSUME MigrateAssumption, IInv, TypeInv, LinkRecord
  PROVE  TypeInv'
<1>1. /\ Running /\ pc = "links" /\ (Smooth \/ Fault)
      /\ UNCHANGED <<source, schema, pc, order, at, known, map, batch, relationMaps, runs, edits, doubt>>
  BY DEF LinkRecord, Running, sourceVars
<1>2. table \in Tables /\ fk[table] \subseteq Tables
  BY <1>1, TableIsOne DEF IInv, StoreType
<1>3. faults' \in 0 .. MaxFaults /\ disturbed' \in BOOLEAN
  BY <1>1, FaultTypes
<1>4. Resolved \subseteq Tables
  BY <1>2 DEF Resolved, Unresolved
<1>5. dropped' \subseteq Tables \X Tables
  BY <1>2, <1>4 DEF TypeInv, LinkRecord
<1>. QED
  BY <1>1, <1>3, <1>5 DEF TypeInv, Running

LEMMA TypeEndLinks ==
  ASSUME MigrateAssumption, IInv, TypeInv, EndLinks
  PROVE  TypeInv'
<1>1. /\ Running /\ pc = "links" /\ (Smooth \/ Fault) /\ NextTable("links", "done")
      /\ UNCHANGED <<source, schema, order, known, runs, edits, doubt, dropped>>
  BY DEF EndLinks, Running, sourceVars, pocketVars
<1>2. faults' \in 0 .. MaxFaults /\ disturbed' \in BOOLEAN
  BY <1>1, FaultTypes
<1>3. /\ order' \in Seq(Tables) /\ at' \in Nat \ {0} /\ at' <= Len(order')
      /\ batch' \in Seq(Row) /\ DOMAIN relationMaps' = {} /\ pc' \in {"links", "done"}
  BY <1>1, NextTableTypes
<1>. QED
  BY <1>1, <1>2, <1>3 DEF TypeInv

LEMMA TypeWorld ==
  ASSUME MigrateAssumption, IInv, TypeInv, Crash \/ EditSource \/ UNCHANGED vars
  PROVE  TypeInv'
<1>1. CASE Crash
  <2>1. <<>> \in Seq(Row) /\ <<>> \in Seq(Tables) /\ DOMAIN <<>> = {}
    OBVIOUS
  <2>. QED
    <3>1. /\ pc' = "off" /\ order' = <<>> /\ at' = 1 /\ known' = {} /\ batch' = <<>>
          /\ relationMaps' = <<>> /\ doubt' = {} /\ disturbed' = FALSE
          /\ UNCHANGED <<fk, source, schema, runs, faults, edits, dropped>>
      BY <1>1 DEF Crash, sourceVars, pocketVars
    <3>2. ~Running' /\ at' \in Nat \ {0} /\ DOMAIN relationMaps' = {}
      BY <2>1, <3>1 DEF Running
    <3>. QED
      BY <2>1, <3>1, <3>2 DEF TypeInv
<1>2. CASE EditSource
  <2>1. /\ edits' \in 0 .. MaxEdits /\ disturbed' \in BOOLEAN
        /\ UNCHANGED <<schema, pc, order, at, known, map, batch, relationMaps, runs, faults, doubt, dropped>>
    BY <1>2 DEF EditSource, pocketVars, passVars, TypeInv, MigrateAssumption
  <2>2. \A t \in Tables : source'[t] \in Sources[t]
    BY <1>2 DEF EditSource, TypeInv, IInv, StoreType
  <2>. QED
    BY <2>1, <2>2 DEF TypeInv, Running
<1>3. CASE UNCHANGED vars
  BY <1>3 DEF vars, sourceVars, pocketVars, passVars, boundVars, TypeInv, Running
<1>. QED
  BY <1>1, <1>2, <1>3

LEMMA TypeStep ==
  ASSUME MigrateAssumption, IInv, TypeInv, [Next]_vars
  PROVE  TypeInv'
BY TypeStart, TypeEnsure, TypeExistingMap, TypeFetch, TypeRow, TypeEndBatch, TypeRelationMap,
   TypeLink, TypeEndLinks, TypeWorld DEF Next, Step, Ended

LEMMA TypeIsOK == IInv /\ TypeInv => TypeOK
<1>. SUFFICES ASSUME IInv, TypeInv PROVE TypeOK
  OBVIOUS
<1>1. pc \in {"fetch", "rows"} => MapInto(map, table)
  <2>. SUFFICES ASSUME pc \in {"fetch", "rows"} PROVE MapInto(map, table)
    OBVIOUS
  <2>1. table \in Tables
    BY TableIsOne DEF Running
  <2>. QED
    BY <2>1 DEF IInv, MapIsRight, Leads, TypeInv, MapInto
<1>2. \A c \in DOMAIN relationMaps : MapInto(relationMaps[c], c)
  BY DEF IInv, RelationMapsAreRight, Leads, TypeInv, MapInto
<1>. QED
  BY <1>1, <1>2 DEF IInv, StoreType, TypeInv, TypeOK

LEMMA TypeHolds == Spec => [](IInv /\ TypeInv)
<1>. DEFINE Inv == IInv /\ TypeInv
<1>1. Init => Inv
  BY MigrateAssumption, InitHolds, TypeInit
<1>2. Inv /\ [Next]_vars => Inv'
  BY MigrateAssumption, NextKeeps, TypeStep
<1>. QED
  BY <1>1, <1>2, PTL DEF Spec

\* The state is well typed for any tables, references and bounds: the script is
\* always at a table of its order, and its maps lead to records that exist.
THEOREM MigrationIsTyped == Spec => []TypeOK
<1>1. IInv /\ TypeInv => TypeOK
  BY TypeIsOK
<1>. QED
  BY <1>1, TypeHolds, PTL

-----------------------------------------------------------------------------
(* Parents first: while no request fails, every collection is made with    *)
(* all its fields, because its parents' collections are made before it.    *)

ParentFirst(q) == \A i \in DOMAIN q : \A c \in fk[q[i]] : \E j \in 1 .. i - 1 : q[j] = c

\* A collection was not made, or has all its fields.
Whole(t) ==
    /\ schema[t].made => \A c \in fk[t] : c \in schema[t].temp /\ schema[t].link[c] = "relation"
    /\ ~schema[t].made => schema[t] = NoSchema
    /\ \A c \in Tables : schema[t].link[c] # "text"

AllWhole ==
    /\ dropped = {}
    /\ \A t \in Tables : Whole(t)
    /\ Running => Elements(order) = Tables /\ ParentFirst(order)
    /\ pc = "ensure" => /\ \A t \in known : schema[t].made
                        /\ \A j \in 1 .. at - 1 : order[j] \in known
    /\ pc \in {"map", "fetch", "rows", "links"} => \A t \in Tables : schema[t].made

ParentsInv == faults = 0 /\ Acyclic => AllWhole

\* The references are never changed, and failures only add up.
LEMMA CalmBefore ==
  ASSUME MigrateAssumption, TypeInv, [Next]_vars, ParentsInv, faults' = 0, Acyclic'
  PROVE  /\ fk' = fk /\ faults = 0 /\ ~Fault /\ Acyclic /\ AllWhole
<1>1. fk' = fk
  BY DEF Next, Step, Start, EnsureCollection, BuildExistingMap, FetchBatch, MigrateRow, EndBatch,
         ReadRelationMap, LinkRecord, EndLinks, Crash, EditSource, Ended, vars, sourceVars
<1>2. faults \in Nat /\ ~Fault
  <2>1. faults \in Nat
    BY DEF TypeInv, MigrateAssumption
  <2>. QED
    BY <2>1 DEF Fault
<1>3. faults' = faults
  BY <1>2 DEF Next, Step, Start, EnsureCollection, BuildExistingMap, FetchBatch, MigrateRow,
              EndBatch, ReadRelationMap, LinkRecord, EndLinks, Crash, EditSource, Ended, vars,
              Smooth, boundVars
<1>4. Acyclic
  BY <1>1 DEF Acyclic
<1>. QED
  BY <1>1, <1>2, <1>3, <1>4 DEF ParentsInv

LEMMA WholeStart ==
  ASSUME MigrateAssumption, IInv, TypeInv, AllWhole, Acyclic, ~Fault, fk' = fk,
         NEW planned \in SUBSET Tables, Start(planned)
  PROVE  AllWhole'
<1>1. /\ planned = Tables /\ order' = topologicalSortTables(planned)
      /\ known' = {t \in Tables : schema[t].made}
      /\ pc' = "ensure" /\ at' = 1 /\ UNCHANGED <<schema, dropped>>
  BY DEF Start, pocketVars
<1>2. fk \in [Tables -> SUBSET Tables]
  BY DEF IInv, StoreType
<1>3. Lists(order', Tables)
  BY <1>1, <1>2, OrderLists
<1>4. \A i \in DOMAIN order' : Parents(order'[i], Tables) \subseteq {order'[j] : j \in 1 .. i - 1}
  BY <1>1, <1>2, OrderLists
<1>5. ParentFirst(order)'
  <2>. SUFFICES ASSUME NEW i \in DOMAIN order', NEW c \in fk[order'[i]]
                PROVE  \E j \in 1 .. i - 1 : order'[j] = c
    BY DEF ParentFirst
  <2>1. order'[i] \in Tables
    BY <1>3 DEF Lists
  <2>2. c \in Parents(order'[i], Tables)
    BY <1>2, <2>1 DEF Parents, Acyclic
  <2>. QED
    BY <1>4, <2>2
<1>6. \A t \in Tables : Whole(t)'
  BY <1>1 DEF AllWhole, Whole
<1>7. \A j \in 1 .. at' - 1 : order'[j] \in known'
  BY <1>1
<1>. QED
  BY <1>1, <1>3, <1>5, <1>6, <1>7 DEF AllWhole, Lists

\* The collection that is made or completed has its parents' collections.
LEMMA SyncedIsWhole ==
  ASSUME IInv, TypeInv, AllWhole, Running, pc = "ensure"
  PROVE  LET s == Synced(table) IN
         /\ s.made /\ \A c \in fk[table] : c \in s.temp /\ s.link[c] = "relation"
         /\ \A c \in Tables : s.link[c] # "text"
<1>1. /\ table \in Tables /\ at \in DOMAIN order /\ fk[table] \subseteq Tables
  BY TableIsOne DEF IInv, StoreType
<1>2. fk[table] \subseteq known
  BY <1>1 DEF AllWhole, ParentFirst, table
<1>3. Whole(table)
  BY <1>1 DEF AllWhole
<1>4. \A c \in Tables : schema[table].link[c] # "absent" => schema[table].made
  BY <1>3 DEF Whole, NoSchema
<1>5. /\ Synced(table).made /\ Synced(table).temp = schema[table].temp \cup (fk[table] \cap known)
      /\ Synced(table).link = [c \in Tables |->
              IF c \notin fk[table] \/ schema[table].link[c] # "absent" THEN schema[table].link[c]
              ELSE IF c \in known THEN "relation" ELSE "text"]
  BY DEF Synced
<1>6. \A c \in fk[table] : c \in Synced(table).temp /\ Synced(table).link[c] = "relation"
  BY <1>1, <1>2, <1>3, <1>4, <1>5 DEF Whole
<1>7. \A c \in Tables : Synced(table).link[c] # "text"
  BY <1>2, <1>3, <1>5 DEF Whole
<1>. QED
  BY <1>5, <1>6, <1>7

LEMMA WholeEnsure ==
  ASSUME IInv, TypeInv, AllWhole, ~Fault, fk' = fk, EnsureCollection
  PROVE  AllWhole'
<1>1. /\ Running /\ pc = "ensure" /\ NextTable("ensure", "map") /\ UNCHANGED <<order, dropped>>
      /\ schema' = [schema EXCEPT ![table] = Synced(table)] /\ known' = known \cup {table}
  BY DEF EnsureCollection, Running
<1>2. /\ table \in Tables /\ at \in 1 .. Len(order) /\ DOMAIN order = 1 .. Len(order)
      /\ Len(order) \in Nat /\ table = order[at]
  BY <1>1, TableIsOne DEF table
<1>3. schema \in [Tables -> Schema] /\ known \subseteq Tables
  BY DEF TypeInv
<1>4. /\ schema'[table] = Synced(table)
      /\ \A t \in Tables \ {table} : schema'[t] = schema[t]
  BY <1>1, <1>2, <1>3
<1>5. \A t \in Tables : Whole(t)'
  <2>1. ASSUME NEW t \in Tables, t = table PROVE Whole(t)'
    <3>. DEFINE s == Synced(table)
    <3>1. /\ s.made /\ \A c \in fk[t] : c \in s.temp /\ s.link[c] = "relation"
          /\ \A c \in Tables : s.link[c] # "text"
      BY <1>1, <2>1, SyncedIsWhole
    <3>2. schema'[t] = s
      BY <1>4, <2>1
    <3>. HIDE DEF s
    <3>. QED
      BY <3>1, <3>2 DEF Whole
  <2>2. ASSUME NEW t \in Tables, t # table PROVE Whole(t)'
    BY <1>4, <2>2 DEF Whole, AllWhole
  <2>. QED
    BY <2>1, <2>2
<1>6. \A t \in known' : schema'[t].made
  BY <1>1, <1>3, <1>4, SyncedIsWhole DEF AllWhole
<1>7. Elements(order)' = Tables /\ ParentFirst(order)'
  BY <1>1 DEF AllWhole, ParentFirst, Elements
<1>8. CASE at < Len(order)
  <2>1. at' = at + 1 /\ pc' = "ensure"
    BY <1>1, <1>8 DEF NextTable
  <2>2. \A j \in 1 .. at' - 1 : order'[j] \in known'
    BY <1>1, <1>2, <2>1 DEF AllWhole
  <2>. QED
    BY <1>1, <1>5, <1>6, <1>7, <2>1, <2>2 DEF AllWhole
<1>9. CASE ~(at < Len(order))
  <2>1. pc' = "map" /\ at = Len(order)
    <3>0. at \in Nat /\ Len(order) \in Nat /\ at <= Len(order)
      BY <1>2
    <3>1. at = Len(order)
      BY <3>0, <1>9
    <3>. QED
      BY <1>1, <1>9, <3>1 DEF NextTable
  <2>2. \A j \in DOMAIN order : order[j] \in known'
    BY <1>1, <1>2, <2>1 DEF AllWhole
  <2>3. \A t \in Tables : schema'[t].made
    BY <1>1, <1>6, <2>2 DEF AllWhole, Elements
  <2>. QED
    BY <1>1, <1>5, <1>7, <2>1, <2>3 DEF AllWhole
<1>. QED
  BY <1>8, <1>9

\* The other steps of the script change no collection and drop no key.
LEMMA WholeStays ==
  ASSUME AllWhole, Running, pc # "ensure", pc' \in {"map", "fetch", "rows", "links", "done"},
         pc \in {"map", "fetch", "rows", "links"}, UNCHANGED <<fk, schema, order>>, dropped' = {}
  PROVE  AllWhole'
<1>1. \A t \in Tables : Whole(t)'
  BY DEF AllWhole, Whole
<1>2. Elements(order)' = Tables /\ ParentFirst(order)'
  BY DEF AllWhole, Elements, ParentFirst
<1>. QED
  BY <1>1, <1>2 DEF AllWhole

LEMMA WholeRow ==
  ASSUME IInv, TypeInv, AllWhole, MigrateRow
  PROVE  dropped' = {}
<1>1. Running /\ pc = "rows"
  BY DEF MigrateRow, Running
<1>2. table \in Tables
  BY <1>1, TableIsOne
<1>3. fk[table] \ schema[table].temp = {}
  BY <1>1, <1>2 DEF AllWhole, Whole
<1>4. ASSUME NEW row, Upsert(table, row) PROVE dropped' = {}
  <2>1. dropped' = dropped \cup
          {<<table, c>> : c \in {d \in fk[table] \ schema[table].temp :
                                    buildPass1RecordPayload(row, table).want[d] # NoKey}}
    BY <1>4 DEF Upsert
  <2>. QED
    BY <1>3, <2>1 DEF AllWhole
<1>. QED
  BY <1>4 DEF MigrateRow, AllWhole

LEMMA WholeLink ==
  ASSUME IInv, TypeInv, AllWhole, LinkRecord
  PROVE  dropped' = {}
<1>1. Running /\ pc = "links"
  BY DEF LinkRecord, Running
<1>2. table \in Tables
  BY <1>1, TableIsOne
<1>3. \A c \in Resolved : schema[table].link[c] = "relation"
  BY <1>1, <1>2 DEF AllWhole, Whole, Resolved, Unresolved
<1>4. {d \in Resolved : schema[table].link[d] = "absent"} = {}
  BY <1>3
<1>. QED
  BY <1>4 DEF LinkRecord, AllWhole

LEMMA WholeStep ==
  ASSUME MigrateAssumption, IInv, TypeInv, ParentsInv, [Next]_vars
  PROVE  ParentsInv'
<1>. SUFFICES ASSUME faults' = 0, Acyclic' PROVE AllWhole'
  BY DEF ParentsInv
<1>1. fk' = fk /\ faults = 0 /\ ~Fault /\ Acyclic /\ AllWhole
  BY CalmBefore
<1>2. CASE \E planned \in SUBSET Tables : Start(planned)
  BY <1>1, <1>2, WholeStart
<1>3. CASE EnsureCollection
  BY <1>1, <1>3, WholeEnsure
<1>4. CASE BuildExistingMap
  BY <1>1, <1>4, WholeStays DEF BuildExistingMap, pocketVars, Running, AllWhole
<1>5. CASE FetchBatch
  BY <1>1, <1>5, WholeStays DEF FetchBatch, NextTable, pocketVars, Running, AllWhole
<1>6. CASE MigrateRow
  BY <1>1, <1>6, WholeRow, WholeStays DEF MigrateRow, Running
<1>7. CASE EndBatch
  BY <1>1, <1>7, WholeStays DEF EndBatch, NextTable, pocketVars, Running, AllWhole
<1>8. CASE ReadRelationMap
  BY <1>1, <1>8, WholeStays DEF ReadRelationMap, pocketVars, Running, AllWhole
<1>9. CASE LinkRecord
  BY <1>1, <1>9, WholeLink, WholeStays DEF LinkRecord, Running
<1>10. CASE EndLinks
  BY <1>1, <1>10, WholeStays DEF EndLinks, NextTable, pocketVars, Running, AllWhole
<1>11. CASE Crash
  <2>1. \A t \in Tables : Whole(t)'
    BY <1>1, <1>11 DEF AllWhole, Whole, Crash, pocketVars
  <2>. QED
    BY <1>1, <1>11, <2>1 DEF AllWhole, Crash, Running
<1>12. CASE EditSource \/ UNCHANGED vars
  <2>1. UNCHANGED <<fk, schema, pc, order, at, known, dropped>>
    BY <1>12 DEF EditSource, vars, sourceVars, pocketVars
  <2>2. \A t \in Tables : Whole(t)'
    BY <1>1, <2>1 DEF AllWhole, Whole
  <2>3. Running => Elements(order)' = Tables /\ ParentFirst(order)'
    BY <1>1, <2>1 DEF AllWhole, Elements, ParentFirst
  <2>. QED
    BY <1>1, <2>1, <2>2, <2>3 DEF AllWhole, Running
<1>. QED
  BY <1>2, <1>3, <1>4, <1>5, <1>6, <1>7, <1>8, <1>9, <1>10, <1>11, <1>12 DEF Next, Step, Ended

LEMMA WholeInit == Init => ParentsInv
<1>. SUFFICES ASSUME Init PROVE AllWhole
  BY DEF ParentsInv
<1>1. \A t \in Tables : schema[t] = NoSchema
  BY DEF Init
<1>2. NoSchema.made = FALSE /\ \A c \in Tables : NoSchema.link[c] # "text"
  BY DEF NoSchema
<1>3. \A t \in Tables : Whole(t)
  BY <1>1, <1>2 DEF Whole
<1>. QED
  BY <1>3 DEF AllWhole, Init, Running

\* For any tables, in any order of TABLES: while no request fails and the
\* references form no cycle, topologicalSortTables leaves no key without a
\* field, over any number of runs and crashes.
THEOREM ParentsComeFirst == Spec => []ParentsFirst
<1>1. Init => ParentsInv
  BY WholeInit
<1>2. IInv /\ TypeInv /\ ParentsInv /\ [Next]_vars => ParentsInv'
  BY MigrateAssumption, WholeStep
<1>3. ParentsInv => ParentsFirst
  BY DEF ParentsInv, AllWhole, Whole, ParentsFirst
<1>. QED
  BY <1>1, <1>2, <1>3, TypeHolds, PTL DEF Spec

-----------------------------------------------------------------------------
(* Everything is migrated: while no request of the run has failed and the  *)
(* source stands still, the rows that were read have their records, and    *)
(* the records that pass 2 went over have no key left that can be resolved.*)

Ready(t) == schema[t].made /\ schema[t].old_id

\* Record i of t is the row: its key, and each foreign key as key or relation.
Holds(t, i, row) ==
    LET r == store[t][i]
    IN  /\ r.of = Norm[row.key] /\ r.old_id = r.of
        /\ \A c \in fk[t] :
              /\ r.want[c] = Norm[row.ref[c]]
              /\ \/ c \notin schema[t].temp
                 \/ r.temp[c] = r.want[c]
                 \/ r.temp[c] = NoKey /\ (r.link[c] # 0 \/ schema[t].link[c] = "absent")

\* The first n rows of t have their records, or a later row has the same key.
Written(t, n) ==
    \A k \in 1 .. n :
        \/ Norm[source[t][k].key] = NoKey
        \/ \E m \in k + 1 .. n : Norm[source[t][m].key] = Norm[source[t][k].key]
        \/ \E i \in DOMAIN store[t] : Holds(t, i, source[t][k])

OldIds(c) == {store[c][i].old_id : i \in DOMAIN store[c]}

\* Record i of t has no key left that pass 2 could look up.
Linked(t, i) ==
    \A c \in fk[t] : store[t][i].temp[c] = NoKey \/ store[t][i].temp[c] \notin OldIds(c)

CollectionsAreReady ==
    /\ pc = "ensure" => \A j \in 1 .. at - 1 : Ready(order[j])
    /\ pc \in {"map", "fetch", "rows", "links", "done"} => \A t \in Tables : Ready(t)

\* The batch holds the rows after the first base ones.
BatchAfter(base) ==
    /\ offset = base + BATCH_SIZE /\ pos <= Len(batch) + 1
    /\ Len(batch) = (IF offset < Len(source[table]) THEN offset ELSE Len(source[table])) - base
    /\ \A i \in 1 .. Len(batch) : batch[i] = source[table][base + i]
    /\ Written(table, base + pos - 1)

RowsAreWritten ==
    /\ pc \in {"map", "fetch", "rows"} =>
          \A j \in 1 .. at - 1 : Written(order[j], Len(source[order[j]]))
    /\ pc = "map" => offset = 0
    /\ pc = "fetch" => offset <= Len(source[table]) /\ Written(table, offset)
    /\ pc = "rows" => \E base \in 0 .. Len(source[table]) : BatchAfter(base)
    /\ pc \in {"links", "done"} => \A t \in Tables : Written(t, Len(source[t]))

KeysAreLinked ==
    /\ pc = "links" =>
          /\ \A c \in DOMAIN relationMaps : OldIds(c) \subseteq DOMAIN relationMaps[c] \cup {NoKey}
          /\ \A j \in 1 .. at - 1 : \A i \in DOMAIN store[order[j]] : Linked(order[j], i)
          /\ \A i \in DOMAIN store[table] : i < pos => Linked(table, i)
    /\ pc = "done" => \A t \in Tables : \A i \in DOMAIN store[t] : Linked(t, i)

Undisturbed ==
    /\ Running => Lists(order, Tables)
    /\ CollectionsAreReady /\ RowsAreWritten /\ KeysAreLinked

WholeInv == ~disturbed => Undisturbed

\* What the parts say depends on the records and fields of the table alone.
LEMMA WrittenCarries ==
  ASSUME UNCHANGED <<fk, source, schema>>, NEW t, NEW n, store'[t] = store[t], Written(t, n)
  PROVE  Written(t, n)'
BY DEF Written, Holds

\* The same of all rows of a table, and of the table at a place in the order.
LEMMA TableCarries ==
  ASSUME UNCHANGED <<fk, source, schema>>, NEW t, store'[t] = store[t],
         Written(t, Len(source[t]))
  PROVE  Written(t, Len(source[t]))'
<1>1. PICK n : n = Len(source[t]) /\ n = Len(source'[t])
  OBVIOUS
<1>2. Written(t, n)'
  BY <1>1, WrittenCarries
<1>. QED
  BY <1>1, <1>2

LEMMA PlaceCarries ==
  ASSUME UNCHANGED <<fk, source, schema, order>>, NEW j, store'[order[j]] = store[order[j]],
         Written(order[j], Len(source[order[j]]))
  PROVE  Written(order[j], Len(source[order[j]]))'
<1>1. PICK t : t = order[j] /\ t = order'[j]
  OBVIOUS
<1>2. Written(t, Len(source[t]))'
  BY <1>1, TableCarries
<1>. QED
  BY <1>1, <1>2

LEMMA OldIdsCarry ==
  ASSUME NEW c, DOMAIN store'[c] = DOMAIN store[c],
         \A i \in DOMAIN store[c] : store'[c][i].old_id = store[c][i].old_id
  PROVE  OldIds(c)' = OldIds(c)
BY DEF OldIds

LEMMA LinkedCarries ==
  ASSUME UNCHANGED fk, NEW t, NEW i, store'[t][i] = store[t][i], Linked(t, i),
         \A c \in fk[t] : OldIds(c)' = OldIds(c)
  PROVE  Linked(t, i)'
<1>1. ASSUME NEW c \in fk'[t]
      PROVE  store'[t][i].temp[c] = NoKey \/ store'[t][i].temp[c] \notin OldIds(c)'
  <2>1. store[t][i].temp[c] = NoKey \/ store[t][i].temp[c] \notin OldIds(c)
    BY DEF Linked
  <2>2. OldIds(c)' = OldIds(c)
    OBVIOUS
  <2>. QED
    BY <2>1, <2>2
<1>. QED
  BY <1>1 DEF Linked

\* Where the script is in an undisturbed run.
LEMMA WhereItIs ==
  ASSUME TypeInv, IInv, Undisturbed, Running
  PROVE  /\ table \in Tables /\ table = order[at] /\ Len(order) \in Nat \ {0}
         /\ DOMAIN order = 1 .. Len(order) /\ at \in Nat /\ 1 <= at /\ at <= Len(order)
         /\ \A j \in 1 .. Len(order) : order[j] \in Tables
         /\ \A t \in Tables : \E j \in 1 .. Len(order) : order[j] = t
         /\ \A j \in 1 .. at - 1 : order[j] # table
         /\ source[table] \in Seq(Row) /\ Len(source[table]) \in Nat
         /\ store[table] \in Seq(Record) /\ DOMAIN store[table] = 1 .. Len(store[table])
         /\ Len(store[table]) \in Nat /\ fk[table] \subseteq Tables
<1>1. /\ table \in Tables /\ table = order[at] /\ Len(order) \in Nat \ {0}
      /\ DOMAIN order = 1 .. Len(order) /\ at \in 1 .. Len(order)
  BY TableIsOne DEF table
<1>2. Lists(order, Tables)
  BY DEF Undisturbed
<1>3. /\ \A j \in 1 .. Len(order) : order[j] \in Tables
      /\ \A t \in Tables : \E j \in 1 .. Len(order) : order[j] = t
  BY <1>1, <1>2 DEF Lists, Elements
<1>4. at \in Nat /\ 1 <= at /\ at <= Len(order)
  BY <1>1
<1>5. \A j \in 1 .. at - 1 : order[j] # table
  <2>. SUFFICES ASSUME NEW j \in 1 .. at - 1, order[j] = order[at] PROVE FALSE
    BY <1>1
  <2>1. j \in DOMAIN order /\ at \in DOMAIN order /\ j # at
    BY <1>1, <1>4
  <2>. QED
    BY <1>2, <2>1 DEF Lists, Once
<1>6. source[table] \in Seq(Row) /\ store[table] \in Seq(Record) /\ fk[table] \subseteq Tables
  BY <1>1 DEF IInv, StoreType
<1>. QED
  BY <1>1, <1>3, <1>4, <1>5, <1>6

\* In a run that stays undisturbed nothing fails and the source stands still.
LEMMA QuietBefore ==
  ASSUME TypeInv, WholeInv, EnsureCollection \/ BuildExistingMap \/ FetchBatch \/ MigrateRow
            \/ EndBatch \/ ReadRelationMap \/ LinkRecord \/ EndLinks, ~disturbed'
  PROVE  Undisturbed /\ ~Fault /\ Running /\ UNCHANGED <<fk, source, order>>
<1>1. ~Fault
  BY DEF Fault
<1>2. disturbed' = disturbed
  BY <1>1 DEF EnsureCollection, BuildExistingMap, FetchBatch, MigrateRow, EndBatch,
              ReadRelationMap, LinkRecord, EndLinks, Smooth, boundVars
<1>3. Running /\ UNCHANGED <<fk, source, order>>
  BY DEF EnsureCollection, BuildExistingMap, FetchBatch, MigrateRow, EndBatch,
         ReadRelationMap, LinkRecord, EndLinks, Running, sourceVars
<1>. QED
  BY <1>1, <1>2, <1>3 DEF WholeInv

\* The loops over the tables: the next one, or the next phase after the last.
LEMMA NextTableIs ==
  ASSUME TypeInv, IInv, Undisturbed, Running, NEW phase, NEW next, NextTable(phase, next)
  PROVE  /\ pos' = 1 /\ offset' = 0 /\ relationMaps' = <<>> /\ DOMAIN relationMaps' = {}
         /\ \/ at' = at + 1 /\ pc' = phase
            \/ at' = 1 /\ pc' = next /\ at = Len(order)
<1>1. at \in Nat /\ Len(order) \in Nat /\ at <= Len(order)
  BY WhereItIs
<1>2. ~(at < Len(order)) => at = Len(order)
  BY <1>1
<1>. QED
  BY <1>2 DEF NextTable

LEMMA QuietStart ==
  ASSUME MigrateAssumption, IInv, TypeInv, NEW planned \in SUBSET Tables, Start(planned), ~disturbed'
  PROVE  Undisturbed'
<1>1. /\ planned = Tables /\ order' = topologicalSortTables(planned)
      /\ pc' = "ensure" /\ at' = 1
  BY DEF Start, Fault
<1>2. Lists(order', Tables)
  BY <1>1, OrderLists DEF IInv, StoreType
<1>3. CollectionsAreReady'
  BY <1>1 DEF CollectionsAreReady
<1>. QED
  BY <1>1, <1>2, <1>3 DEF Undisturbed, RowsAreWritten, KeysAreLinked, Lists, Once, Elements

LEMMA QuietEnsure ==
  ASSUME IInv, TypeInv, Undisturbed, ~Fault, EnsureCollection
  PROVE  Undisturbed'
<1>1. /\ Running /\ pc = "ensure" /\ NextTable("ensure", "map") /\ UNCHANGED order
      /\ schema' = [schema EXCEPT ![table] = Synced(table)]
  BY DEF EnsureCollection, Running
<1>2. /\ table \in Tables /\ table = order[at] /\ Len(order) \in Nat \ {0}
      /\ at \in Nat /\ 1 <= at /\ at <= Len(order)
      /\ \A j \in 1 .. Len(order) : order[j] \in Tables
      /\ \A t \in Tables : \E j \in 1 .. Len(order) : order[j] = t
  BY <1>1, WhereItIs
<1>3. Synced(table).made /\ Synced(table).old_id
  BY DEF Synced
<1>4. schema \in [Tables -> Schema]
  BY DEF TypeInv
<1>5. ASSUME NEW t \in Tables, t = table \/ Ready(t) PROVE Ready(t)'
  BY <1>1, <1>2, <1>3, <1>4, <1>5 DEF Ready
<1>6. \A j \in 1 .. at : order[j] = table \/ Ready(order[j])
  <2>1. \A j \in 1 .. at - 1 : Ready(order[j])
    BY <1>1 DEF Undisturbed, CollectionsAreReady
  <2>2. \A j \in 1 .. at : j = at \/ j \in 1 .. at - 1
    BY <1>2
  <2>. QED
    BY <1>2, <2>1, <2>2
<1>7. \A j \in 1 .. at : Ready(order[j])'
  <2>. SUFFICES ASSUME NEW j \in 1 .. at PROVE Ready(order[j])'
    OBVIOUS
  <2>1. PICK t \in Tables : t = order[j]
    BY <1>2
  <2>2. Ready(t)'
    BY <1>5, <1>6, <2>1
  <2>. QED
    BY <1>1, <2>1, <2>2 DEF Ready
<1>8. Lists(order, Tables)'
  BY <1>1 DEF Undisturbed, Lists, Once, Elements
<1>9. pos' = 1 /\ offset' = 0
  BY <1>1, NextTableIs
<1>10. CASE at' = at + 1 /\ pc' = "ensure"
  <2>1. at' - 1 = at
    BY <1>2, <1>10
  <2>2. CollectionsAreReady'
    BY <1>1, <1>7, <1>10, <2>1 DEF CollectionsAreReady, Ready
  <2>. QED
    BY <1>8, <1>10, <2>2 DEF Undisturbed, RowsAreWritten, KeysAreLinked
<1>11. CASE at' = 1 /\ pc' = "map" /\ at = Len(order)
  <2>1. ASSUME NEW t \in Tables PROVE Ready(t)'
    BY <1>2, <1>5, <1>6, <1>11
  <2>2. CollectionsAreReady'
    BY <1>11, <2>1 DEF CollectionsAreReady
  <2>3. RowsAreWritten'
    BY <1>9, <1>11 DEF RowsAreWritten
  <2>. QED
    BY <1>8, <1>11, <2>2, <2>3 DEF Undisturbed, KeysAreLinked
<1>. QED
  BY <1>1, <1>10, <1>11, NextTableIs

LEMMA QuietExistingMap ==
  ASSUME IInv, TypeInv, Undisturbed, ~Fault, UNCHANGED <<fk, source, order>>, BuildExistingMap
  PROVE  Undisturbed'
<1>1. /\ Running /\ pc = "map" /\ pc' = "fetch" /\ UNCHANGED <<schema, store, at, offset>>
  BY DEF BuildExistingMap, Running, pocketVars
<1>2. table \in Tables /\ Len(source[table]) \in Nat /\ table' = table
  BY <1>1, WhereItIs DEF table
<1>3. CollectionsAreReady'
  BY <1>1 DEF Undisturbed, CollectionsAreReady, Ready
<1>4. offset' = 0 /\ offset' <= Len(source[table])
  BY <1>1, <1>2 DEF Undisturbed, RowsAreWritten
<1>5. Written(table, offset)'
  BY <1>4 DEF Written
<1>6. ASSUME NEW j \in 1 .. at' - 1 PROVE Written(order[j], Len(source[order[j]]))'
  <2>1. Written(order[j], Len(source[order[j]]))
    BY <1>1, <1>6 DEF Undisturbed, RowsAreWritten
  <2>. QED
    BY <1>1, <2>1, PlaceCarries
<1>7. RowsAreWritten'
  BY <1>1, <1>2, <1>4, <1>5, <1>6 DEF RowsAreWritten
<1>. QED
  BY <1>1, <1>3, <1>7 DEF Undisturbed, KeysAreLinked, Lists, Once, Elements

\* A batch is the next BATCH_SIZE rows, fewer at the end.
LEMMA SliceIs ==
  ASSUME MigrateAssumption, NEW rows \in Seq(Row), offset \in Nat, offset <= Len(rows)
  PROVE  /\ Len(Slice(rows)) = (IF offset + BATCH_SIZE < Len(rows) THEN offset + BATCH_SIZE
                                                                   ELSE Len(rows)) - offset
         /\ \A i \in 1 .. Len(Slice(rows)) : Slice(rows)[i] = rows[offset + i]
<1>. DEFINE to == IF offset + BATCH_SIZE < Len(rows) THEN offset + BATCH_SIZE ELSE Len(rows)
<1>1. /\ offset + 1 \in Int /\ to \in Int /\ to <= Len(rows) /\ offset <= to
      /\ Len(rows) \in Nat
  BY DEF MigrateAssumption
<1>. HIDE DEF to
<1>2. \A i \in offset + 1 .. to : rows[i] \in Row
  <2>1. \A i \in offset + 1 .. to : i \in 1 .. Len(rows)
    BY <1>1
  <2>. QED
    BY <2>1, ElementOfSeq
<1>3. /\ Len(SubSeq(rows, offset + 1, to)) = IF offset + 1 <= to THEN to - (offset + 1) + 1 ELSE 0
      /\ \A i \in 1 .. to - (offset + 1) + 1 : SubSeq(rows, offset + 1, to)[i] = rows[offset + 1 + i - 1]
  BY <1>1, <1>2, SubSeqProperties
<1>4. Len(SubSeq(rows, offset + 1, to)) = to - offset
  BY <1>1, <1>3
<1>5. \A i \in 1 .. to - offset : SubSeq(rows, offset + 1, to)[i] = rows[offset + i]
  <2>1. to - (offset + 1) + 1 = to - offset /\ \A i \in Int : offset + 1 + i - 1 = offset + i
    BY <1>1
  <2>. QED
    BY <1>1, <1>3, <2>1
<1>6. Slice(rows) = SubSeq(rows, offset + 1, to)
  BY DEF Slice, to
<1>. QED
  BY <1>4, <1>5, <1>6 DEF to

LEMMA QuietFetch ==
  ASSUME MigrateAssumption, IInv, TypeInv, Undisturbed, ~Fault, UNCHANGED <<fk, source, order>>,
         FetchBatch
  PROVE  Undisturbed'
<1>1. /\ Running /\ pc = "fetch" /\ pc' = "rows" /\ UNCHANGED <<schema, store, at>>
      /\ batch' = Slice(source[table]) /\ pos' = 1 /\ offset' = offset + BATCH_SIZE
  BY DEF FetchBatch, Running, pocketVars
<1>2. table \in Tables /\ source[table] \in Seq(Row) /\ Len(source[table]) \in Nat /\ table' = table
  BY <1>1, WhereItIs DEF table
<1>3. CollectionsAreReady'
  BY <1>1 DEF Undisturbed, CollectionsAreReady, Ready
<1>4. offset \in Nat /\ offset <= Len(source[table]) /\ Written(table, offset)
  BY <1>1 DEF IInv, StoreType, Undisturbed, RowsAreWritten
<1>5. /\ Len(batch') = (IF offset' < Len(source[table]) THEN offset' ELSE Len(source[table])) - offset
      /\ \A i \in 1 .. Len(batch') : batch'[i] = source[table][offset + i]
  BY <1>1, <1>2, <1>4, SliceIs
<1>6. pos' <= Len(batch') + 1 /\ offset \in 0 .. Len(source[table])
  <2>1. Len(batch') \in Nat
    BY <1>1, <1>2, <1>4, <1>5 DEF MigrateAssumption
  <2>. QED
    BY <1>1, <1>2, <1>4, <2>1
<1>7. offset + pos' - 1 = offset
  BY <1>1, <1>4
<1>8. ASSUME NEW base \in Nat, base = offset PROVE BatchAfter(base)'
  <2>1. base + pos' - 1 = base /\ Written(table, base)
    BY <1>4, <1>7, <1>8
  <2>2. Written(table, base)'
    <3>1. PICK t : t = table /\ t = table'
      BY <1>2
    <3>2. Written(t, base)'
      BY <1>1, <2>1, <3>1, WrittenCarries
    <3>. QED
      BY <3>1, <3>2
  <2>3. Written(table, base + pos - 1)'
    BY <2>1, <2>2
  <2>. QED
    BY <1>1, <1>2, <1>5, <1>6, <1>8, <2>3 DEF BatchAfter
<1>9. ASSUME NEW j \in 1 .. at' - 1 PROVE Written(order[j], Len(source[order[j]]))'
  <2>1. Written(order[j], Len(source[order[j]]))
    BY <1>1, <1>9 DEF Undisturbed, RowsAreWritten
  <2>. QED
    BY <1>1, <2>1, PlaceCarries
<1>10. RowsAreWritten'
  BY <1>1, <1>2, <1>6, <1>8, <1>9 DEF RowsAreWritten
<1>. QED
  BY <1>1, <1>3, <1>10 DEF Undisturbed, KeysAreLinked, Lists, Once, Elements

\* A table ends with a batch that is not full: all its rows are written.
LEMMA QuietEndBatch ==
  ASSUME MigrateAssumption, IInv, TypeInv, Undisturbed, UNCHANGED <<fk, source, order>>, EndBatch
  PROVE  Undisturbed'
<1>1. Running /\ pc = "rows" /\ pos > Len(batch) /\ UNCHANGED <<schema, store>>
  BY DEF EndBatch, Running, pocketVars
<1>2. /\ table \in Tables /\ table = order[at] /\ Len(order) \in Nat \ {0}
      /\ at \in Nat /\ 1 <= at /\ at <= Len(order)
      /\ \A j \in 1 .. Len(order) : order[j] \in Tables
      /\ \A t \in Tables : \E j \in 1 .. Len(order) : order[j] = t
      /\ Len(source[table]) \in Nat
  BY <1>1, WhereItIs
<1>3. PICK base \in 0 .. Len(source[table]) : BatchAfter(base)
  BY <1>1 DEF Undisturbed, RowsAreWritten
<1>4. /\ Len(batch) \in Nat /\ pos \in Nat /\ offset \in Nat /\ base \in Nat
      /\ BATCH_SIZE \in Nat /\ base <= Len(source[table])
  BY <1>2 DEF IInv, StoreType, TypeInv, MigrateAssumption
<1>5. /\ offset = base + BATCH_SIZE /\ pos <= Len(batch) + 1
      /\ Len(batch) = (IF offset < Len(source[table]) THEN offset ELSE Len(source[table])) - base
      /\ Written(table, base + pos - 1)
  BY <1>3 DEF BatchAfter
<1>6. base + pos - 1 = base + Len(batch)
  <2>1. pos > Len(batch) /\ pos <= Len(batch) + 1
    BY <1>1, <1>5
  <2>2. pos \in Nat /\ Len(batch) \in Nat
    BY <1>4
  <2>3. pos = Len(batch) + 1
    BY <2>1, <2>2
  <2>. QED
    BY <1>4, <2>3
<1>7. CollectionsAreReady' \/ pc' \notin {"map", "fetch", "links"}
  BY <1>1 DEF Undisturbed, CollectionsAreReady, Ready
<1>8. Lists(order, Tables)'
  BY <1>1 DEF Undisturbed, Lists, Once, Elements
<1>9. ASSUME NEW t \in Tables, Written(t, Len(source[t])) PROVE Written(t, Len(source[t]))'
  BY <1>1, <1>9, TableCarries
<1>10. CASE Len(batch) < BATCH_SIZE /\ NextTable("map", "links")
  <2>1. base + pos - 1 = Len(source[table])
    BY <1>2, <1>4, <1>5, <1>6, <1>10
  <2>2. Written(table, Len(source[table]))
    BY <1>5, <2>1
  <2>3. ASSUME NEW j \in 1 .. at PROVE Written(order[j], Len(source[order[j]]))
    <3>1. j = at \/ j \in 1 .. at - 1
      BY <1>2
    <3>2. CASE j = at
      BY <1>2, <2>2, <3>2
    <3>3. CASE j \in 1 .. at - 1
      BY <1>1, <3>3 DEF Undisturbed, RowsAreWritten
    <3>. QED
      BY <3>1, <3>2, <3>3
  <2>4. /\ pos' = 1 /\ offset' = 0 /\ DOMAIN relationMaps' = {}
        /\ \/ at' = at + 1 /\ pc' = "map"
           \/ at' = 1 /\ pc' = "links" /\ at = Len(order)
    BY <1>1, <1>10, NextTableIs
  <2>5. CASE at' = at + 1 /\ pc' = "map"
    <3>1. at' - 1 = at
      BY <1>2, <2>5
    <3>2. ASSUME NEW j \in 1 .. at' - 1 PROVE Written(order[j], Len(source[order[j]]))'
      <4>1. PICK t \in Tables : t = order[j]
        BY <1>2, <3>1
      <4>2. Written(t, Len(source[t]))'
        BY <2>3, <1>9, <3>1, <4>1
      <4>3. t = order'[j]
        BY <4>1
      <4>. QED
        BY <4>2, <4>3
    <3>3. RowsAreWritten'
      BY <2>4, <2>5, <3>2 DEF RowsAreWritten
    <3>. QED
      BY <1>7, <1>8, <2>5, <3>3 DEF Undisturbed, KeysAreLinked
  <2>6. CASE at' = 1 /\ pc' = "links" /\ at = Len(order)
    <3>1. ASSUME NEW t \in Tables PROVE Written(t, Len(source[t]))'
      BY <1>2, <2>3, <1>9, <2>6
    <3>2. RowsAreWritten'
      BY <2>6, <3>1 DEF RowsAreWritten
    <3>3. /\ \A j \in 1 .. at' - 1 : FALSE
          /\ \A i \in DOMAIN store'[table'] : ~ (i < pos')
      <4>1. order'[at'] \in Tables
        BY <1>2, <2>6
      <4>2. DOMAIN store'[table'] \subseteq Nat \ {0}
        BY <1>1, <4>1 DEF IInv, StoreType, table
      <4>. QED
        BY <2>4, <2>6, <4>2
    <3>4. KeysAreLinked'
      BY <2>4, <2>6, <3>3 DEF KeysAreLinked
    <3>. QED
      BY <1>7, <1>8, <2>6, <3>2, <3>4 DEF Undisturbed
  <2>. QED
    BY <2>4, <2>5, <2>6
<1>11. CASE ~ (Len(batch) < BATCH_SIZE) /\ pc' = "fetch" /\ UNCHANGED <<at, passVars>>
  <2>1. UNCHANGED <<at, offset>> /\ table' = table
    BY <1>11 DEF passVars, table
  <2>2. base + pos - 1 = offset /\ offset <= Len(source[table])
    <3>1. ~ (Len(batch) < BATCH_SIZE) /\ offset = base + BATCH_SIZE
      BY <1>5, <1>11
    <3>2. Len(source[table]) \in Nat
      BY <1>2
    <3>3. CASE offset < Len(source[table])
      <4>1. Len(batch) = offset - base
        BY <1>5, <3>3
      <4>. QED
        BY <1>4, <1>6, <3>2, <3>3, <4>1
    <3>4. CASE ~ (offset < Len(source[table]))
      <4>1. Len(batch) = Len(source[table]) - base
        BY <1>5, <3>4
      <4>. QED
        BY <1>4, <1>6, <3>1, <3>2, <3>4, <4>1
    <3>. QED
      BY <3>3, <3>4
  <2>3. Written(table, offset)
    BY <1>5, <2>2
  <2>4. Written(table, offset)'
    <3>1. PICK t, n : t = table /\ n = offset /\ t = table' /\ n = offset'
      BY <2>1
    <3>2. Written(t, n)'
      BY <1>1, <2>3, <3>1, WrittenCarries
    <3>. QED
      BY <3>1, <3>2
  <2>5. ASSUME NEW j \in 1 .. at' - 1 PROVE Written(order[j], Len(source[order[j]]))'
    <3>1. Written(order[j], Len(source[order[j]]))
      BY <1>1, <2>1, <2>5 DEF Undisturbed, RowsAreWritten
    <3>. QED
      BY <1>1, <3>1, PlaceCarries
  <2>6. RowsAreWritten'
    BY <1>11, <2>1, <2>2, <2>4, <2>5 DEF RowsAreWritten
  <2>. QED
    BY <1>7, <1>8, <1>11, <2>6 DEF Undisturbed, KeysAreLinked
<1>. QED
  BY <1>1, <1>10, <1>11 DEF EndBatch

\* getRelationMap knows every old_id of the parents' collection.
LEMMA QuietRelationMap ==
  ASSUME IInv, TypeInv, Undisturbed, ~Fault, UNCHANGED <<fk, source, order>>, ReadRelationMap
  PROVE  Undisturbed'
<1>1. /\ Running /\ pc = "links" /\ UNCHANGED <<schema, store, pc, at, pos, offset>>
  BY DEF ReadRelationMap, Running, pocketVars
<1>2. table \in Tables /\ fk[table] \subseteq Tables /\ table' = table
  BY <1>1, WhereItIs DEF table
<1>3. PICK c \in Unresolved : relationMaps' = [d \in DOMAIN relationMaps \cup {c} |->
                     IF d = c THEN MapOf(c, Len(store[c])) ELSE relationMaps[d]]
  BY DEF ReadRelationMap
<1>4. c \in Tables
  BY <1>2, <1>3 DEF Unresolved
<1>5. OldIds(c) \subseteq DOMAIN MapOf(c, Len(store[c])) \cup {NoKey}
  <2>1. Len(store[c]) \in 0 .. Len(store[c]) /\ DOMAIN store[c] = 1 .. Len(store[c])
    BY <1>4 DEF IInv, StoreType
  <2>2. DOMAIN MapOf(c, Len(store[c])) =
           {store[c][i].old_id : i \in {j \in 1 .. Len(store[c]) : store[c][j].old_id # NoKey}}
    BY <1>4, <2>1, MapOfTypes DEF IInv
  <2>. QED
    BY <2>1, <2>2 DEF OldIds
<1>6. ASSUME NEW d \in DOMAIN relationMaps'
      PROVE  OldIds(d) \subseteq DOMAIN relationMaps'[d] \cup {NoKey}
  <2>1. CASE d = c
    BY <1>3, <1>5, <2>1
  <2>2. CASE d # c
    BY <1>1, <1>3, <2>2 DEF Undisturbed, KeysAreLinked
  <2>. QED
    BY <2>1, <2>2
<1>7. ASSUME NEW d PROVE OldIds(d)' = OldIds(d)
  BY <1>1 DEF OldIds
<1>8. ASSUME NEW t \in Tables, NEW i, Linked(t, i) PROVE Linked(t, i)'
  BY <1>1, <1>7, <1>8, LinkedCarries
<1>9. CollectionsAreReady'
  BY <1>1 DEF Undisturbed, CollectionsAreReady, Ready
<1>10. RowsAreWritten'
  <2>1. ASSUME NEW t \in Tables PROVE Written(t, Len(source[t]))'
    <3>1. Written(t, Len(source[t]))
      BY <1>1 DEF Undisturbed, RowsAreWritten
    <3>. QED
      BY <1>1, <3>1, TableCarries
  <2>. QED
    BY <1>1, <2>1 DEF RowsAreWritten
<1>11. KeysAreLinked'
  <2>1. ASSUME NEW j \in 1 .. at' - 1, NEW i \in DOMAIN store'[order'[j]] PROVE Linked(order[j], i)'
    <3>1. order[j] \in Tables
      <4>1. j \in 1 .. Len(order)
        BY <1>1, WhereItIs
      <4>. QED
        BY <1>1, <4>1, WhereItIs
    <3>2. Linked(order[j], i)
      BY <1>1 DEF Undisturbed, KeysAreLinked
    <3>. QED
      BY <1>1, <1>7, <3>1, <3>2 DEF Linked
  <2>2. ASSUME NEW i \in DOMAIN store'[table'], i < pos' PROVE Linked(table, i)'
    <3>1. Linked(table, i)
      BY <1>1, <1>2, <2>2 DEF Undisturbed, KeysAreLinked
    <3>. QED
      BY <1>1, <1>2, <1>7, <3>1 DEF Linked
  <2>3. ASSUME NEW d \in DOMAIN relationMaps' PROVE OldIds(d)' \subseteq DOMAIN relationMaps'[d] \cup {NoKey}
    BY <1>6, <1>7
  <2>. QED
    BY <1>1, <2>1, <2>2, <2>3 DEF KeysAreLinked
<1>. QED
  BY <1>1, <1>9, <1>10, <1>11 DEF Undisturbed, Lists, Once, Elements

\* Pass 2 leaves a table after its last record.
LEMMA QuietEndLinks ==
  ASSUME IInv, TypeInv, Undisturbed, ~Fault, UNCHANGED <<fk, source, order>>, EndLinks
  PROVE  Undisturbed'
<1>1. /\ Running /\ pc = "links" /\ UNCHANGED <<schema, store>> /\ NextTable("links", "done")
      /\ fk[table] = {} \/ pos > Len(store[table])
  BY DEF EndLinks, Running, pocketVars
<1>2. /\ table \in Tables /\ table = order[at] /\ Len(order) \in Nat \ {0}
      /\ at \in Nat /\ 1 <= at /\ at <= Len(order)
      /\ \A j \in 1 .. Len(order) : order[j] \in Tables
      /\ \A t \in Tables : \E j \in 1 .. Len(order) : order[j] = t
      /\ DOMAIN store[table] = 1 .. Len(store[table]) /\ Len(store[table]) \in Nat
  BY <1>1, WhereItIs
<1>3. \A i \in DOMAIN store[table] : Linked(table, i)
  <2>1. CASE fk[table] = {}
    BY <2>1 DEF Linked
  <2>2. CASE pos > Len(store[table])
    <3>1. \A i \in DOMAIN store[table] : i < pos
      BY <1>2, <2>2 DEF IInv, StoreType
    <3>. QED
      BY <1>1, <3>1 DEF Undisturbed, KeysAreLinked
  <2>. QED
    BY <1>1, <2>1, <2>2
<1>4. ASSUME NEW j \in 1 .. at, NEW i \in DOMAIN store[order[j]] PROVE Linked(order[j], i)
  <2>1. j = at \/ j \in 1 .. at - 1
    BY <1>2
  <2>2. CASE j = at
    BY <1>2, <1>3, <2>2
  <2>3. CASE j \in 1 .. at - 1
    BY <1>1, <2>3 DEF Undisturbed, KeysAreLinked
  <2>. QED
    BY <2>1, <2>2, <2>3
<1>5. ASSUME NEW t \in Tables, NEW i \in DOMAIN store[t], Linked(t, i) PROVE Linked(t, i)'
  <2>1. \A c \in fk[t] : OldIds(c)' = OldIds(c)
    BY <1>1 DEF OldIds
  <2>. QED
    BY <1>1, <1>5, <2>1, LinkedCarries
<1>6. CollectionsAreReady' \/ pc' \notin {"links", "done"}
  BY <1>1 DEF Undisturbed, CollectionsAreReady, Ready
<1>7. ASSUME NEW t \in Tables PROVE Written(t, Len(source[t]))'
  <2>1. Written(t, Len(source[t]))
    BY <1>1 DEF Undisturbed, RowsAreWritten
  <2>. QED
    BY <1>1, <2>1, TableCarries
<1>8. RowsAreWritten' \/ pc' \notin {"links", "done"}
  BY <1>7 DEF RowsAreWritten
<1>9. Lists(order, Tables)'
  BY <1>1 DEF Undisturbed, Lists, Once, Elements
<1>10. /\ pos' = 1 /\ DOMAIN relationMaps' = {}
       /\ \/ at' = at + 1 /\ pc' = "links"
          \/ at' = 1 /\ pc' = "done" /\ at = Len(order)
  BY <1>1, NextTableIs
<1>11. CASE at' = at + 1 /\ pc' = "links"
  <2>1. at' - 1 = at /\ at' \in 1 .. Len(order)
    <3>1. at' <= Len(order)
      BY <1>1, TypeInv, NextTableTypes
    <3>. QED
      BY <1>2, <1>11, <3>1
  <2>2. ASSUME NEW j \in 1 .. at' - 1, NEW i \in DOMAIN store'[order'[j]] PROVE Linked(order[j], i)'
    <3>1. PICK t \in Tables : t = order[j]
      BY <1>2, <2>1
    <3>2. Linked(t, i)'
      BY <1>1, <1>4, <1>5, <2>1, <3>1
    <3>. QED
      BY <3>1, <3>2 DEF Linked
  <2>3. \A i \in DOMAIN store'[table'] : ~ (i < pos')
    <3>1. table' \in Tables
      BY <1>2, <2>1 DEF table
    <3>2. DOMAIN store'[table'] \subseteq Nat \ {0}
      BY <1>1, <3>1 DEF IInv, StoreType
    <3>. QED
      BY <1>10, <3>2
  <2>4. KeysAreLinked'
    BY <1>10, <1>11, <2>2, <2>3 DEF KeysAreLinked
  <2>. QED
    BY <1>6, <1>8, <1>9, <1>11, <2>4 DEF Undisturbed
<1>12. CASE at' = 1 /\ pc' = "done" /\ at = Len(order)
  <2>1. ASSUME NEW t \in Tables, NEW i \in DOMAIN store'[t] PROVE Linked(t, i)'
    <3>1. PICK j \in 1 .. at : order[j] = t
      BY <1>2, <1>12
    <3>. QED
      BY <1>1, <1>4, <1>5, <3>1
  <2>2. KeysAreLinked'
    BY <1>12, <2>1 DEF KeysAreLinked
  <2>. QED
    BY <1>6, <1>8, <1>9, <1>12, <2>2 DEF Undisturbed
<1>. QED
  BY <1>10, <1>11, <1>12

\* What pass 1 writes of a row is the row: its own record or a new one.
LEMMA PayloadHolds ==
  ASSUME MigrateAssumption, UNCHANGED <<fk, schema>>, NEW t \in Tables, fk[t] \subseteq Tables,
         schema[t].old_id, NEW row, NEW i, store'[t][i] = buildPass1RecordPayload(row, t)
  PROVE  Holds(t, i, row)'
<1>. DEFINE new == buildPass1RecordPayload(row, t)
<1>1. /\ new.of = Norm[row.key] /\ new.old_id = Norm[row.key]
      /\ \A c \in Tables : new.want[c] = IF c \in fk[t] THEN Norm[row.ref[c]] ELSE NoKey
      /\ \A c \in Tables : new.temp[c] = IF c \in schema[t].temp THEN new.want[c] ELSE NoKey
  BY DEF buildPass1RecordPayload
<1>2. store'[t][i] = new
  OBVIOUS
<1>. HIDE DEF new
<1>. QED
  BY <1>1, <1>2 DEF Holds

LEMMA UpsertRecords ==
  ASSUME MigrateAssumption, IInv, pc = "rows", table \in Tables, NEW row \in Row,
         Norm[row.key] # NoKey, Upsert(table, row)
  PROVE  /\ \A u \in Tables : u # table => store'[u] = store[u]
         /\ \A j \in DOMAIN store[table] :
               \/ j \in DOMAIN store'[table] /\ store'[table][j] = store[table][j]
               \/ store[table][j].of = Norm[row.key]
         /\ \E i \in DOMAIN store'[table] : store'[table][i] = buildPass1RecordPayload(row, table)
<1>. DEFINE o == Norm[row.key]
            new == buildPass1RecordPayload(row, table)
<1>1. new \in Record /\ StoreType /\ Leads(map, table)
  BY PayloadIsTrue DEF IInv, MapIsRight
<1>2. \/ o \in DOMAIN map /\ Update(table, map[o], new)
      \/ o \notin DOMAIN map /\ store' = [store EXCEPT ![table] = Append(@, new)]
  BY DEF Upsert
<1>. HIDE DEF new
<1>3. \A u \in Tables : u # table => store'[u] = store[u]
  BY <1>1, <1>2 DEF Update, StoreType
<1>4. CASE o \in DOMAIN map /\ Update(table, map[o], new)
  <2>1. /\ DOMAIN store'[table] = DOMAIN store[table]
        /\ \A j \in DOMAIN store[table] :
              store'[table][j] = IF j = map[o] THEN new ELSE store[table][j]
    BY <1>1, <1>4, UpdateStores
  <2>2. map[o] \in DOMAIN store[table] /\ store[table][map[o]].of = o
    BY <1>1, <1>4 DEF Leads
  <2>. QED
    BY <1>3, <2>1, <2>2 DEF new
<1>5. CASE o \notin DOMAIN map /\ store' = [store EXCEPT ![table] = Append(@, new)]
  <2>1. /\ \A u \in Tables : \A j \in DOMAIN store[u] :
              j \in DOMAIN store'[u] /\ store'[u][j] = store[u][j]
        /\ \A u \in Tables : \A j \in DOMAIN store'[u] :
              \/ j \in DOMAIN store[u]
              \/ u = table /\ j = Len(store[table]) + 1 /\ store'[u][j] = new
        /\ Len(store[table]) + 1 \in DOMAIN store'[table]
        /\ store'[table][Len(store[table]) + 1] = new
    BY <1>1, <1>5, AppendStores
  <2>. QED
    BY <1>3, <2>1 DEF new
<1>. QED
  BY <1>2, <1>4, <1>5

\* One more row is written, and the ones before it still are: the record that
\* was replaced was of a row with the key of this later one.
LEMMA WrittenNext ==
  ASSUME MigrateAssumption, IInv, UNCHANGED <<fk, source, schema>>, pc = "rows", table \in Tables,
         Ready(table), NEW n \in Nat, Written(table, n), NEW row \in Row,
         row = source[table][n + 1],
         \/ Norm[row.key] = NoKey /\ store' = store
         \/ Norm[row.key] # NoKey /\ Upsert(table, row)
  PROVE  \A t \in Tables : t = table => Written(t, n + 1)'
<1>. SUFFICES ASSUME NEW t \in Tables, t = table, NEW k \in 1 .. n + 1
              PROVE  \/ Norm[source[t][k].key] = NoKey
                     \/ \E m \in k + 1 .. n + 1 : Norm[source[t][m].key] = Norm[source[t][k].key]
                     \/ \E i \in DOMAIN store'[t] : Holds(t, i, source[t][k])'
  BY DEF Written
<1>1. CASE k = n + 1 /\ Norm[row.key] = NoKey
  BY <1>1
<1>2. CASE k = n + 1 /\ Norm[row.key] # NoKey /\ Upsert(table, row)
  <2>1. PICK i \in DOMAIN store'[t] : store'[t][i] = buildPass1RecordPayload(row, t)
    BY <1>2, UpsertRecords
  <2>2. fk[t] \subseteq Tables /\ schema[t].old_id
    BY DEF IInv, StoreType, Ready
  <2>3. Holds(t, i, row)'
    BY <2>1, <2>2, PayloadHolds
  <2>4. Holds(t, i, source[t][k])'
    BY <1>2, <2>3 DEF Holds
  <2>. QED
    BY <2>4
<1>3. CASE k \in 1 .. n
  <2>1. CASE Norm[source[t][k].key] = NoKey
    BY <2>1
  <2>2. CASE \E m \in k + 1 .. n : Norm[source[t][m].key] = Norm[source[t][k].key]
    <3>1. PICK m \in k + 1 .. n : Norm[source[t][m].key] = Norm[source[t][k].key]
      BY <2>2
    <3>2. m \in k + 1 .. n + 1
      BY <1>3
    <3>. QED
      BY <3>1, <3>2
  <2>3. CASE \E i \in DOMAIN store[t] : Holds(t, i, source[t][k])
    <3>1. PICK i \in DOMAIN store[t] : Holds(t, i, source[t][k])
      BY <2>3
    <3>2. CASE i \in DOMAIN store'[t] /\ store'[t][i] = store[t][i]
      <4>1. Holds(t, i, source[t][k])'
        BY <3>1, <3>2 DEF Holds
      <4>. QED
        BY <3>2, <4>1
    <3>3. CASE store[t][i].of = Norm[row.key]
      <4>1. Norm[source[t][n + 1].key] = Norm[source[t][k].key]
        BY <3>1, <3>3 DEF Holds
      <4>2. n + 1 \in k + 1 .. n + 1
        BY <1>3
      <4>. QED
        BY <4>1, <4>2
    <3>. QED
      BY <3>2, <3>3, UpsertRecords
  <2>4. \/ Norm[source[t][k].key] = NoKey
        \/ \E m \in k + 1 .. n : Norm[source[t][m].key] = Norm[source[t][k].key]
        \/ \E i \in DOMAIN store[t] : Holds(t, i, source[t][k])
    <3>1. Written(t, n)
      OBVIOUS
    <3>. QED
      BY <1>3, <3>1 DEF Written
  <2>. QED
    BY <2>1, <2>2, <2>3, <2>4
<1>. QED
  <2>1. k = n + 1 \/ k \in 1 .. n
    OBVIOUS
  <2>. QED
    BY <1>1, <1>2, <1>3, <2>1

LEMMA QuietRow ==
  ASSUME MigrateAssumption, IInv, TypeInv, Undisturbed, ~Fault, UNCHANGED <<fk, source, order>>,
         MigrateRow
  PROVE  Undisturbed'
<1>1. /\ Running /\ pc = "rows" /\ UNCHANGED <<schema, pc, at, batch, offset>>
      /\ pos <= Len(batch) /\ pos' = pos + 1
  BY DEF MigrateRow, Running
<1>2. /\ table \in Tables /\ table = order[at] /\ Len(order) \in Nat \ {0}
      /\ at \in Nat /\ 1 <= at /\ at <= Len(order)
      /\ \A j \in 1 .. Len(order) : order[j] \in Tables
      /\ \A j \in 1 .. at - 1 : order[j] # table
      /\ Len(source[table]) \in Nat
  BY <1>1, WhereItIs
<1>3. table' = table
  BY <1>1 DEF table
<1>4. \A t \in Tables : Ready(t)
  BY <1>1 DEF Undisturbed, CollectionsAreReady
<1>5. PICK base \in 0 .. Len(source[table]) : BatchAfter(base)
  BY <1>1 DEF Undisturbed, RowsAreWritten
<1>6. base \in Nat /\ pos \in Nat \ {0} /\ Len(batch) \in Nat /\ pos \in 1 .. Len(batch)
  <2>1. base \in Nat /\ pos \in Nat \ {0} /\ Len(batch) \in Nat
    BY <1>2 DEF IInv, StoreType, TypeInv
  <2>2. pos <= Len(batch)
    BY <1>1
  <2>. QED
    BY <2>1, <2>2
<1>0. PICK n \in Nat : n = base + pos - 1
  BY <1>6
<1>7. n \in Nat /\ n + 1 = base + pos /\ n + 1 = base + pos' - 1
  BY <1>0, <1>1, <1>6
<1>8. PICK row \in Row : row = batch[pos] /\ row = source[table][n + 1]
  <2>1. batch[pos] \in Row
    BY <1>6, ElementOfSeq DEF TypeInv
  <2>2. batch[pos] = source[table][base + pos]
    BY <1>5, <1>6 DEF BatchAfter
  <2>. QED
    BY <1>7, <2>1, <2>2
<1>9. \/ Norm[row.key] = NoKey /\ store' = store
      \/ Norm[row.key] # NoKey /\ Upsert(table, row)
  BY <1>2, <1>4, <1>8 DEF MigrateRow, Ready
<1>10. Written(table, n)
  BY <1>0, <1>5 DEF BatchAfter
<1>11. \A t \in Tables : t = table => Written(t, n + 1)'
  BY <1>1, <1>2, <1>4, <1>7, <1>8, <1>9, <1>10, WrittenNext
<1>12. pos' <= Len(batch') + 1
  BY <1>1, <1>6
<1>13. Written(table, base + pos - 1)'
  <2>1. PICK t \in Tables : t = table
    BY <1>2
  <2>2. Written(t, n + 1)'
    BY <1>11, <2>1
  <2>3. t = table' /\ n + 1 = base + pos' - 1
    BY <1>3, <1>7, <2>1
  <2>. QED
    BY <2>2, <2>3
<1>14. BatchAfter(base)'
  <2>1. /\ offset' = base + BATCH_SIZE
        /\ Len(batch') = (IF offset' < Len(source'[table']) THEN offset' ELSE Len(source'[table'])) - base
        /\ \A i \in 1 .. Len(batch') : batch'[i] = source'[table'][base + i]
    BY <1>1, <1>3, <1>5 DEF BatchAfter
  <2>. QED
    BY <1>12, <1>13, <2>1 DEF BatchAfter
<1>15. \A u \in Tables : u # table => store'[u] = store[u]
  BY <1>1, <1>2, <1>8, <1>9, UpsertRecords
<1>16. ASSUME NEW j \in 1 .. at' - 1 PROVE Written(order[j], Len(source[order[j]]))'
  <2>1. j \in 1 .. at - 1 /\ j \in 1 .. Len(order)
    BY <1>1, <1>2
  <2>2. PICK t \in Tables : t = order[j] /\ t # table
    BY <1>2, <2>1
  <2>3. Written(t, Len(source[t]))
    BY <1>1, <2>1, <2>2 DEF Undisturbed, RowsAreWritten
  <2>4. Written(t, Len(source[t]))'
    <3>1. store'[t] = store[t]
      BY <1>15, <2>2
    <3>2. UNCHANGED <<fk, source, schema>>
      BY <1>1
    <3>. QED
      BY <2>3, <3>1, <3>2, TableCarries
  <2>. QED
    <3>1. order'[j] = t
      BY <2>2
    <3>. QED
      BY <2>4, <3>1
<1>17. RowsAreWritten'
  BY <1>1, <1>2, <1>3, <1>14, <1>16 DEF RowsAreWritten
<1>18. CollectionsAreReady'
  BY <1>1, <1>4 DEF CollectionsAreReady, Ready
<1>. QED
  BY <1>1, <1>17, <1>18 DEF Undisturbed, KeysAreLinked, Lists, Once, Elements

\* What pass 2 writes keeps the record's row and old_id; a key is cleared when
\* its relation is set or the collection has no field for it.
LEMMA PatchedIs ==
  ASSUME IInv, table \in Tables, pos \in DOMAIN store[table],
         Unresolved \subseteq DOMAIN relationMaps
  PROVE  /\ Patched \in Record
         /\ Patched.of = record.of /\ Patched.old_id = record.old_id /\ Patched.want = record.want
         /\ \A c \in Tables \ Resolved :
               Patched.temp[c] = record.temp[c] /\ Patched.link[c] = record.link[c]
         /\ \A c \in Tables \cap Resolved :
               /\ Patched.temp[c] = NoKey
               /\ Patched.link[c] # 0 \/ schema[table].link[c] = "absent"
<1>1. record \in Record
  <2>1. store[table] \in Seq(Record)
    BY DEF IInv, StoreType
  <2>. QED
    BY <2>1, ElementOfSeq DEF record
<1>2. ASSUME NEW c \in Tables, c \in Resolved PROVE relationMaps[c][record.temp[c]] # 0
  <2>1. c \in DOMAIN relationMaps /\ record.temp[c] \in DOMAIN relationMaps[c]
    BY <1>2 DEF Resolved
  <2>2. Leads(relationMaps[c], c)
    BY <2>1 DEF IInv, RelationMapsAreRight
  <2>3. relationMaps[c][record.temp[c]] \in DOMAIN store[c]
    BY <2>1, <2>2 DEF Leads
  <2>4. 0 \notin DOMAIN store[c]
    BY DEF IInv, StoreType
  <2>. QED
    BY <2>3, <2>4
<1>. DEFINE link == [c \in Tables |-> IF c \in Resolved /\ schema[table].link[c] # "absent"
                                     THEN relationMaps[c][record.temp[c]] ELSE record.link[c]]
            temp == [c \in Tables |-> IF c \in Resolved THEN NoKey ELSE record.temp[c]]
<1>3. Patched = [record EXCEPT !.link = link, !.temp = temp]
  BY DEF Patched
<1>4. \A c \in Tables :
         /\ link[c] = IF c \in Resolved /\ schema[table].link[c] # "absent"
                      THEN relationMaps[c][record.temp[c]] ELSE record.link[c]
         /\ temp[c] = IF c \in Resolved THEN NoKey ELSE record.temp[c]
  OBVIOUS
<1>. HIDE DEF link, temp
<1>5. /\ Patched.of = record.of /\ Patched.old_id = record.old_id
      /\ Patched.want = record.want /\ Patched.link = link /\ Patched.temp = temp
  BY <1>1, <1>3 DEF Record
<1>. QED
  BY <1>2, <1>4, <1>5, PatchedIsTrue

\* A key that stays in the record has no record in its collection.
LEMMA UnresolvedHasNone ==
  ASSUME IInv, Undisturbed, pc = "links", table \in Tables, NEW c \in fk[table], c \notin Resolved,
         fk[table] \subseteq Tables, Unresolved \subseteq DOMAIN relationMaps
  PROVE  record.temp[c] = NoKey \/ record.temp[c] \notin OldIds(c)
<1>. SUFFICES ASSUME record.temp[c] # NoKey PROVE record.temp[c] \notin OldIds(c)
  OBVIOUS
<1>1. c \in PlannedTables
  BY DEF Undisturbed, Lists, PlannedTables, Running
<1>2. c \in Unresolved
  BY <1>1 DEF Unresolved
<1>3. c \in DOMAIN relationMaps /\ record.temp[c] \notin DOMAIN relationMaps[c]
  BY <1>2 DEF Resolved
<1>4. OldIds(c) \subseteq DOMAIN relationMaps[c] \cup {NoKey}
  BY <1>3 DEF Undisturbed, KeysAreLinked
<1>. QED
  BY <1>3, <1>4

LEMMA QuietLink ==
  ASSUME IInv, TypeInv, Undisturbed, ~Fault, UNCHANGED <<fk, source, order>>, LinkRecord
  PROVE  Undisturbed'
<1>1. /\ Running /\ pc = "links" /\ UNCHANGED <<schema, pc, at, offset, relationMaps>>
      /\ pos <= Len(store[table]) /\ pos' = pos + 1
      /\ Unresolved \subseteq DOMAIN relationMaps
  BY DEF LinkRecord, Running
<1>2. /\ table \in Tables /\ table = order[at] /\ Len(order) \in Nat \ {0}
      /\ at \in Nat /\ 1 <= at /\ at <= Len(order)
      /\ \A j \in 1 .. Len(order) : order[j] \in Tables
      /\ \A j \in 1 .. at - 1 : order[j] # table
      /\ DOMAIN store[table] = 1 .. Len(store[table]) /\ Len(store[table]) \in Nat
      /\ fk[table] \subseteq Tables
  BY <1>1, WhereItIs
<1>3. table' = table
  BY <1>1 DEF table
<1>4. pos \in Nat \ {0} /\ pos \in DOMAIN store[table]
  BY <1>1, <1>2 DEF IInv, StoreType
<1>5. PICK new : new = IF Resolved = {} THEN record ELSE Patched
  OBVIOUS
<1>6. record \in Record /\ record = store[table][pos] /\ Resolved \subseteq fk[table]
  <2>1. store[table] \in Seq(Record)
    BY <1>2 DEF IInv, StoreType
  <2>. QED
    BY <1>2, <1>4, <2>1, ElementOfSeq DEF record, Resolved, Unresolved
<1>7. /\ new \in Record
      /\ new.of = record.of /\ new.old_id = record.old_id /\ new.want = record.want
      /\ \A c \in Tables \ Resolved : new.temp[c] = record.temp[c] /\ new.link[c] = record.link[c]
      /\ \A c \in Tables \cap Resolved :
            new.temp[c] = NoKey /\ (new.link[c] # 0 \/ schema[table].link[c] = "absent")
  <2>1. CASE Resolved = {}
    BY <1>5, <1>6, <2>1
  <2>2. CASE Resolved # {}
    BY <1>1, <1>2, <1>4, <1>5, <2>2, PatchedIs
  <2>. QED
    BY <2>1, <2>2
<1>8. /\ \A u \in Tables : DOMAIN store'[u] = DOMAIN store[u]
      /\ \A u \in Tables : \A j \in DOMAIN store[u] :
            store'[u][j] = IF u = table /\ j = pos THEN new ELSE store[u][j]
  <2>1. CASE Resolved = {} /\ store' = store
    BY <1>5, <1>6, <2>1
  <2>2. CASE Resolved # {} /\ Update(table, pos, Patched)
    <3>1. Update(table, pos, new) /\ StoreType
      BY <1>5, <2>2 DEF IInv
    <3>. QED
      BY <1>7, <3>1, UpdateStores
  <2>. QED
    BY <2>1, <2>2 DEF LinkRecord
<1>9. ASSUME NEW c \in Tables PROVE OldIds(c)' = OldIds(c)
  <2>1. \A i \in DOMAIN store[c] : store'[c][i].old_id = store[c][i].old_id
    BY <1>6, <1>7, <1>8
  <2>. QED
    BY <1>8, <2>1, OldIdsCarry
<1>10. \A u \in Tables : fk[u] \subseteq Tables
  BY DEF IInv, StoreType
<1>11. ASSUME NEW t \in Tables, NEW i \in DOMAIN store[t], t # table \/ i # pos, Linked(t, i)
       PROVE  Linked(t, i)'
  <2>1. store'[t][i] = store[t][i]
    BY <1>8, <1>11
  <2>2. \A c \in fk[t] : OldIds(c)' = OldIds(c)
    BY <1>9, <1>10
  <2>. QED
    BY <1>11, <2>1, <2>2, LinkedCarries
<1>12. ASSUME NEW t \in Tables, NEW i, t = table, i = pos PROVE Linked(t, i)'
  <2>1. store'[t][i] = new
    BY <1>4, <1>8, <1>12
  <2>2. ASSUME NEW c \in fk[t] PROVE new.temp[c] = NoKey \/ new.temp[c] \notin OldIds(c)'
    <3>1. c \in Tables /\ OldIds(c)' = OldIds(c)
      BY <1>9, <1>10
    <3>2. CASE c \in Resolved
      BY <1>7, <3>1, <3>2
    <3>3. CASE c \notin Resolved
      <4>1. record.temp[c] = NoKey \/ record.temp[c] \notin OldIds(c)
        BY <1>1, <1>2, <1>12, <3>3, UnresolvedHasNone
      <4>. QED
        BY <1>7, <3>1, <3>3, <4>1
    <3>. QED
      BY <3>2, <3>3
  <2>. QED
    BY <2>1, <2>2 DEF Linked
<1>13. ASSUME NEW t \in Tables, NEW i \in DOMAIN store[t], NEW row, Holds(t, i, row)
       PROVE  Holds(t, i, row)'
  <2>1. CASE t = table /\ i = pos
    <3>1. store'[t][i] = new /\ store[t][i] = record
      BY <1>6, <1>8, <2>1
    <3>2. /\ record.of = Norm[row.key] /\ record.old_id = record.of
          /\ \A c \in fk[t] :
                /\ record.want[c] = Norm[row.ref[c]]
                /\ \/ c \notin schema[t].temp
                   \/ record.temp[c] = record.want[c]
                   \/ record.temp[c] = NoKey /\ (record.link[c] # 0 \/ schema[t].link[c] = "absent")
      BY <1>13, <3>1 DEF Holds
    <3>3. ASSUME NEW c \in fk[t]
          PROVE  /\ new.want[c] = Norm[row.ref[c]]
                 /\ \/ c \notin schema[t].temp
                    \/ new.temp[c] = new.want[c]
                    \/ new.temp[c] = NoKey /\ (new.link[c] # 0 \/ schema[t].link[c] = "absent")
      <4>1. c \in Tables
        BY <1>10
      <4>2. CASE c \in Resolved
        BY <1>7, <2>1, <3>2, <4>1, <4>2
      <4>3. CASE c \notin Resolved
        BY <1>7, <3>2, <4>1, <4>3
      <4>. QED
        BY <4>2, <4>3
    <3>4. new.of = Norm[row.key] /\ new.old_id = new.of
      BY <1>7, <3>2
    <3>. QED
      BY <1>1, <3>1, <3>3, <3>4 DEF Holds
  <2>2. CASE ~ (t = table /\ i = pos)
    <3>1. store'[t][i] = store[t][i]
      BY <1>8, <2>2
    <3>. QED
      BY <1>1, <1>13, <3>1 DEF Holds
  <2>. QED
    BY <2>1, <2>2
<1>14. ASSUME NEW t \in Tables PROVE Written(t, Len(source[t]))'
  <2>1. Written(t, Len(source[t]))
    BY <1>1 DEF Undisturbed, RowsAreWritten
  <2>2. ASSUME NEW k \in 1 .. Len(source[t]), NEW i \in DOMAIN store[t], Holds(t, i, source[t][k])
        PROVE  Holds(t, i, source[t][k])'
    <3>1. PICK row : row = source[t][k] /\ row = source'[t][k]
      OBVIOUS
    <3>2. Holds(t, i, row)'
      BY <1>13, <2>2, <3>1
    <3>. QED
      BY <3>1, <3>2
  <2>3. DOMAIN store'[t] = DOMAIN store[t] /\ source' = source
    BY <1>8
  <2>. QED
    BY <2>1, <2>2, <2>3 DEF Written
<1>15. RowsAreWritten'
  BY <1>1, <1>14 DEF RowsAreWritten
<1>16. CollectionsAreReady'
  BY <1>1 DEF Undisturbed, CollectionsAreReady, Ready
<1>17. KeysAreLinked'
  <2>1. ASSUME NEW d \in DOMAIN relationMaps'
        PROVE  OldIds(d)' \subseteq DOMAIN relationMaps'[d] \cup {NoKey}
    <3>1. d \in Tables /\ OldIds(d) \subseteq DOMAIN relationMaps[d] \cup {NoKey}
      BY <1>1 DEF TypeInv, Undisturbed, KeysAreLinked
    <3>2. OldIds(d)' = OldIds(d)
      BY <1>9, <3>1
    <3>. QED
      BY <1>1, <3>1, <3>2
  <2>2. ASSUME NEW j \in 1 .. at' - 1, NEW i \in DOMAIN store'[order'[j]] PROVE Linked(order[j], i)'
    <3>1. j \in 1 .. at - 1 /\ j \in 1 .. Len(order)
      BY <1>1, <1>2
    <3>2. PICK t \in Tables : t = order[j] /\ t # table /\ t = order'[j]
      BY <1>2, <3>1
    <3>3. i \in DOMAIN store[t] /\ Linked(t, i)
      BY <1>1, <1>8, <3>1, <3>2 DEF Undisturbed, KeysAreLinked
    <3>4. Linked(t, i)'
      BY <1>11, <3>2, <3>3
    <3>. QED
      BY <3>2, <3>4
  <2>3. ASSUME NEW i \in DOMAIN store'[table'], i < pos' PROVE Linked(table, i)'
    <3>1. PICK t \in Tables : t = table /\ t = table'
      BY <1>2, <1>3
    <3>2. i \in DOMAIN store[t] /\ i \in Nat
      BY <1>2, <1>8, <3>1
    <3>3. CASE i = pos
      <4>1. Linked(t, i)'
        BY <1>12, <3>1, <3>3
      <4>. QED
        BY <3>1, <4>1
    <3>4. CASE i # pos
      <4>1. i < pos
        BY <1>1, <1>4, <2>3, <3>2, <3>4
      <4>2. Linked(t, i)
        BY <1>1, <3>1, <3>2, <4>1 DEF Undisturbed, KeysAreLinked
      <4>3. Linked(t, i)'
        BY <1>11, <3>2, <3>4, <4>2
      <4>. QED
        BY <3>1, <4>3
    <3>. QED
      BY <3>3, <3>4
  <2>. QED
    BY <1>1, <2>1, <2>2, <2>3 DEF KeysAreLinked
<1>. QED
  BY <1>1, <1>15, <1>16, <1>17 DEF Undisturbed, Lists, Once, Elements

LEMMA WholeInvStep ==
  ASSUME MigrateAssumption, IInv, TypeInv, WholeInv, [Next]_vars
  PROVE  WholeInv'
<1>. SUFFICES ASSUME ~disturbed' PROVE Undisturbed'
  BY DEF WholeInv
<1>1. CASE \E planned \in SUBSET Tables : Start(planned)
  BY <1>1, QuietStart
<1>2. CASE EnsureCollection
  BY <1>2, QuietBefore, QuietEnsure
<1>3. CASE BuildExistingMap
  BY <1>3, QuietBefore, QuietExistingMap
<1>4. CASE FetchBatch
  BY <1>4, QuietBefore, QuietFetch
<1>5. CASE MigrateRow
  BY <1>5, QuietBefore, QuietRow
<1>6. CASE EndBatch
  BY <1>6, QuietBefore, QuietEndBatch
<1>7. CASE ReadRelationMap
  BY <1>7, QuietBefore, QuietRelationMap
<1>8. CASE LinkRecord
  BY <1>8, QuietBefore, QuietLink
<1>9. CASE EndLinks
  BY <1>9, QuietBefore, QuietEndLinks
<1>10. CASE Crash
  BY <1>10 DEF Crash, Undisturbed, CollectionsAreReady, RowsAreWritten, KeysAreLinked, Running
<1>11. CASE EditSource
  BY <1>11 DEF EditSource
<1>12. CASE UNCHANGED vars
  <2>1. /\ UNCHANGED <<fk, source, schema, store, pc, order, at, batch, pos, offset, relationMaps>>
        /\ ~disturbed
    BY <1>12 DEF vars, sourceVars, pocketVars, passVars, boundVars
  <2>2. Undisturbed
    BY <2>1 DEF WholeInv
  <2>3. CollectionsAreReady'
    BY <2>1, <2>2 DEF Undisturbed, CollectionsAreReady, Ready
  <2>4. RowsAreWritten'
    <3>1. ASSUME NEW t, NEW n, Written(t, n) PROVE Written(t, n)'
      BY <2>1, <3>1, WrittenCarries
    <3>2. /\ table' = table
          /\ \A t : Len(source'[t]) = Len(source[t])
      BY <2>1 DEF table
    <3>3. ASSUME NEW j, Written(order[j], Len(source[order[j]]))
          PROVE  Written(order[j], Len(source[order[j]]))'
      <4>1. PICK t, n : t = order[j] /\ n = Len(source[t]) /\ t = order'[j] /\ n = Len(source'[t])
        BY <2>1
      <4>2. Written(t, n)'
        BY <3>1, <3>3, <4>1
      <4>. QED
        BY <4>1, <4>2
    <3>4. ASSUME pc = "fetch" PROVE Written(table, offset)'
      <4>1. PICK t, n : t = table /\ n = offset /\ t = table' /\ n = offset'
        BY <2>1, <3>2
      <4>2. Written(t, n)'
        BY <2>2, <3>1, <3>4, <4>1 DEF Undisturbed, RowsAreWritten
      <4>. QED
        BY <4>1, <4>2
    <3>5. ASSUME pc = "rows" PROVE \E base \in 0 .. Len(source'[table']) : BatchAfter(base)'
      <4>1. PICK base \in 0 .. Len(source[table]) : BatchAfter(base)
        BY <2>2, <3>5 DEF Undisturbed, RowsAreWritten
      <4>2. PICK t, n : t = table /\ n = base + pos - 1 /\ t = table' /\ n = base + pos' - 1
        BY <2>1, <3>2
      <4>3. Written(t, n)'
        BY <3>1, <4>1, <4>2 DEF BatchAfter
      <4>4. Written(table, base + pos - 1)'
        BY <4>2, <4>3
      <4>5. BatchAfter(base)'
        BY <2>1, <3>2, <4>1, <4>4 DEF BatchAfter
      <4>. QED
        BY <2>1, <3>2, <4>5
    <3>. QED
      BY <2>1, <2>2, <3>1, <3>2, <3>3, <3>4, <3>5 DEF Undisturbed, RowsAreWritten
  <2>5. KeysAreLinked'
    <3>1. ASSUME NEW c PROVE OldIds(c)' = OldIds(c)
      BY <2>1 DEF OldIds
    <3>2. ASSUME NEW t, NEW i, Linked(t, i) PROVE Linked(t, i)'
      BY <2>1, <3>1, <3>2, LinkedCarries
    <3>3. ASSUME pc = "links", NEW j \in 1 .. at - 1, NEW i \in DOMAIN store[order[j]]
          PROVE  Linked(order[j], i)'
      <4>1. PICK t : t = order[j] /\ t = order'[j]
        BY <2>1
      <4>2. Linked(order[j], i)
        BY <2>2, <3>3 DEF Undisturbed, KeysAreLinked
      <4>3. Linked(t, i)'
        BY <3>2, <4>1, <4>2
      <4>. QED
        BY <4>1, <4>3
    <3>4. ASSUME pc = "links", NEW i \in DOMAIN store[table], i < pos
          PROVE  Linked(table, i)'
      <4>1. PICK t : t = table /\ t = table'
        BY <2>1 DEF table
      <4>2. Linked(t, i)'
        BY <2>2, <3>2, <3>4, <4>1 DEF Undisturbed, KeysAreLinked
      <4>. QED
        BY <4>1, <4>2
    <3>5. table' = table
      BY <2>1 DEF table
    <3>. QED
      BY <2>1, <2>2, <3>1, <3>2, <3>3, <3>4, <3>5 DEF Undisturbed, KeysAreLinked
  <2>. QED
    BY <2>1, <2>2, <2>3, <2>4, <2>5 DEF Undisturbed, Running, Lists, Once, Elements
<1>. QED
  BY <1>1, <1>2, <1>3, <1>4, <1>5, <1>6, <1>7, <1>8, <1>9, <1>10, <1>11, <1>12
     DEF Next, Step, Ended

\* What is written and linked at the end is all that was promised.
LEMMA WholeIsMigrated ==
  ASSUME MigrateAssumption, IInv, WholeInv
  PROVE  MigratedWhole
<1>. SUFFICES ASSUME pc = "done", ~disturbed, NEW t \in Tables, NEW n \in DOMAIN source[t],
                     Norm[source[t][n].key] # NoKey,
                     ~ \E m \in DOMAIN source[t] :
                          m > n /\ Norm[source[t][m].key] = Norm[source[t][n].key]
              PROVE  \E i \in Copies(t, Norm[source[t][n].key]) : \A c \in fk[t] :
                        LET r == store[t][i]
                            k == Norm[source[t][n].ref[c]] IN
                        /\ r.want[c] = k
                        /\ \/ k = NoKey
                           \/ ~ \E m \in DOMAIN source[c] : Norm[source[c][m].key] = k
                           \/ c \notin schema[t].temp \/ schema[t].link[c] = "absent"
                           \/ r.link[c] # 0 /\ r.temp[c] = NoKey
  BY DEF MigratedWhole
<1>1. /\ \A u \in Tables : Written(u, Len(source[u]))
      /\ \A u \in Tables : \A i \in DOMAIN store[u] : Linked(u, i)
  BY DEF WholeInv, Undisturbed, RowsAreWritten, KeysAreLinked
<1>2. /\ \A u \in Tables : DOMAIN source[u] = 1 .. Len(source[u]) /\ Len(source[u]) \in Nat
      /\ fk[t] \subseteq Tables
  BY DEF IInv, StoreType
\* The last row with a key has its record.
<1>3. ASSUME NEW u \in Tables, NEW k \in DOMAIN source[u], Norm[source[u][k].key] # NoKey,
             \A m \in DOMAIN source[u] : m > k => Norm[source[u][m].key] # Norm[source[u][k].key]
      PROVE  \E i \in DOMAIN store[u] : Holds(u, i, source[u][k])
  <2>1. k \in 1 .. Len(source[u]) /\ k \in Nat
    BY <1>2
  <2>2. ASSUME NEW m \in k + 1 .. Len(source[u])
        PROVE  Norm[source[u][m].key] # Norm[source[u][k].key]
    <3>1. m \in DOMAIN source[u] /\ m > k
      BY <1>2, <2>1
    <3>. QED
      BY <1>3, <3>1
  <2>3. Written(u, Len(source[u]))
    BY <1>1
  <2>. QED
    BY <1>3, <2>1, <2>2, <2>3 DEF Written
<1>4. PICK i \in DOMAIN store[t] : Holds(t, i, source[t][n])
  BY <1>3
<1>5. i \in Copies(t, Norm[source[t][n].key])
  BY <1>4 DEF Holds, Copies
\* A key that a row has is an old_id of its collection.
<1>6. ASSUME NEW c \in Tables, NEW k, k # NoKey,
             \E m \in DOMAIN source[c] : Norm[source[c][m].key] = k
      PROVE  k \in OldIds(c)
  <2>. DEFINE T == {m \in DOMAIN source[c] : Norm[source[c][m].key] = k}
  <2>1. T \in SUBSET (1 .. Len(source[c])) /\ T # {} /\ Len(source[c]) \in Nat
    BY <1>2, <1>6
  <2>2. PICK m \in T : \A x \in T : x <= m
    <3>. HIDE DEF T
    <3>. QED
      BY <2>1, HasGreatest
  <2>3. \A x \in DOMAIN source[c] : x > m => Norm[source[c][x].key] # Norm[source[c][m].key]
    <3>. SUFFICES ASSUME NEW x \in DOMAIN source[c], x > m, x \in T PROVE FALSE
      OBVIOUS
    <3>1. x <= m /\ x \in Nat /\ m \in Nat
      BY <1>2, <2>2
    <3>. QED
      BY <3>1
  <2>4. PICK j \in DOMAIN store[c] : Holds(c, j, source[c][m])
    BY <1>3, <1>6, <2>3
  <2>5. store[c][j].old_id = k
    BY <2>4 DEF Holds
  <2>. QED
    BY <2>5 DEF OldIds
<1>7. ASSUME NEW c \in fk[t]
      PROVE  LET r == store[t][i]
                 k == Norm[source[t][n].ref[c]] IN
             /\ r.want[c] = k
             /\ \/ k = NoKey
                \/ ~ \E m \in DOMAIN source[c] : Norm[source[c][m].key] = k
                \/ c \notin schema[t].temp \/ schema[t].link[c] = "absent"
                \/ r.link[c] # 0 /\ r.temp[c] = NoKey
  <2>. DEFINE r == store[t][i]
              k == Norm[source[t][n].ref[c]]
  <2>1. /\ r.want[c] = k
        /\ \/ c \notin schema[t].temp
           \/ r.temp[c] = k
           \/ r.temp[c] = NoKey /\ (r.link[c] # 0 \/ schema[t].link[c] = "absent")
    BY <1>4 DEF Holds
  <2>2. r.temp[c] = NoKey \/ r.temp[c] \notin OldIds(c)
    BY <1>1 DEF Linked
  <2>3. k # NoKey /\ (\E m \in DOMAIN source[c] : Norm[source[c][m].key] = k) => k \in OldIds(c)
    BY <1>2, <1>6
  <2>. QED
    BY <2>1, <2>2, <2>3, Zenon
<1>. QED
  BY <1>5, <1>7

\* For any tables, rows and sizes of batches, however earlier runs ended: an
\* undisturbed run leaves every row with its record and its keys resolved.
THEOREM MigrationIsWhole == Spec => []MigratedWhole
<1>1. Init => WholeInv
  BY DEF Init, WholeInv, Undisturbed, CollectionsAreReady, RowsAreWritten, KeysAreLinked, Running
<1>2. IInv /\ TypeInv /\ WholeInv /\ [Next]_vars => WholeInv'
  BY MigrateAssumption, WholeInvStep
<1>3. IInv /\ WholeInv => MigratedWhole
  BY MigrateAssumption, WholeIsMigrated
<1>. QED
  BY <1>1, <1>2, <1>3, TypeHolds, PTL DEF Spec
=============================================================================
