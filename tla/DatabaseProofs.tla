--------------------------- MODULE DatabaseProofs ---------------------------
(***************************************************************************)
(* The engine's invariant, proved for every value of the constants: lemmas *)
(* about one table, then about db->tables, then one lemma per call; and    *)
(* the action properties, from that invariant and the effects of a step.   *)
(***************************************************************************)
EXTENDS Database, FiniteSetTheorems, WellFoundedInduction, TLAPS

\* A set of naturals with an element has a least one: the record, table or
\* field a first-match loop finds is well defined.
LEMMA LeastNat ==
    ASSUME NEW S, S \subseteq Nat, S # {}
    PROVE  \E x \in S : \A y \in S : x <= y
<1>1. \E x \in S : \A y \in S : ~(<<y, x>> \in OpToRel(<, Nat))
  BY NatLessThanWellFounded, WFMin
<1>2. PICK x \in S : \A y \in S : ~(<<y, x>> \in OpToRel(<, Nat))
  BY <1>1
<1>3. ASSUME NEW y \in S PROVE x <= y
  <2>1. ~(<<y, x>> \in {ss \in Nat \X Nat : ss[1] < ss[2]})
    BY <1>2 DEF OpToRel
  <2> QED BY <2>1
<1> QED BY <1>3

\* A set of integers with an element and a bound has a greatest one: the result of
\* the loop over all ids in generate_record_id is well defined.
LEMMA GreatestInt ==
    ASSUME NEW S, S \subseteq Int, S # {}, NEW bound \in Int, \A x \in S : x <= bound
    PROVE  \E x \in S : \A y \in S : y <= x
<1> DEFINE D == {bound - x : x \in S}
<1>1. D \subseteq Nat /\ D # {}
  <2>1. ASSUME NEW d \in D PROVE d \in Nat
    <3>1. PICK x \in S : d = bound - x
      BY DEF D
    <3> QED BY <3>1
  <2>2. PICK x : x \in S
    OBVIOUS
  <2>3. bound - x \in D
    BY <2>2
  <2> QED BY <2>1, <2>3
<1>2. PICK d \in D : \A e \in D : d <= e
  BY <1>1, LeastNat
<1>3. PICK x \in S : d = bound - x
  OBVIOUS
<1>4. ASSUME NEW y \in S PROVE y <= x
  <2>1. bound - y \in D
    OBVIOUS
  <2> QED BY <1>2, <1>3, <2>1
<1> QED BY <1>4

-----------------------------------------------------------------------------
(***************************************************************************)
(* Operations on one table                                                 *)
(***************************************************************************)
TableInv(t) == TableOK(t) /\ UniqueIds(t) /\ CountedExactly(t)

\* max_id of generate_record_id bounds every id of the table, and is a C int.
LEMMA MaxId ==
    ASSUME NEW t, TableOK(t)
    PROVE  /\ max_id(t) \in 0 .. INT_MAX
           /\ \A i \in Ids(t) : i <= max_id(t)
           /\ max_id(t) \in Ids(t) \cup {0}
<1> DEFINE S == Ids(t) \cup {0}
<1>1. S \subseteq CInt
  BY TableConstants DEF TableOK, Ids, Record, CInt
<1>2. \A x \in S : x \in Int /\ x <= INT_MAX
  BY <1>1, TableConstants DEF CInt
<1>3. S \subseteq Int /\ S # {}
  BY <1>2
<1>4. \E x \in S : \A y \in S : y <= x
  BY <1>2, <1>3, TableConstants, GreatestInt
<1>5. max_id(t) \in S /\ \A y \in S : y <= max_id(t)
  BY <1>4 DEF max_id
<1> QED BY <1>2, <1>5

\* generate_record_id returns C ints, wrap-around included.
LEMMA GenerateType ==
    ASSUME NEW t, TableOK(t), NEW counter \in CInt
    PROVE  /\ generate_record_id(t, counter).id \in CInt
           /\ generate_record_id(t, counter).counter \in CInt
BY MaxId, TableConstants DEF generate_record_id, Succ, CInt

\* generate_record_id returns an id no record of the table has, whatever the
\* shared counter has become, as long as no record has the id INT_MAX.
LEMMA GenerateFresh ==
    ASSUME NEW t, TableOK(t), NEW counter \in CInt, INT_MAX \notin Ids(t)
    PROVE  generate_record_id(t, counter).id \notin Ids(t)
<1>1. max_id(t) # INT_MAX
  <2>1. CASE max_id(t) \in Ids(t)
    BY <2>1
  <2>2. CASE max_id(t) = 0
    BY <2>2, TableConstants
  <2> QED BY <2>1, <2>2, MaxId
<1>2. Succ(max_id(t)) = max_id(t) + 1
  BY <1>1 DEF Succ
<1>3. \A i \in Ids(t) : i \in Int
  BY TableConstants DEF TableOK, Ids, Record, CInt
<1>4. generate_record_id(t, counter).id > max_id(t)
  BY <1>2, MaxId, TableConstants DEF generate_record_id, CInt
<1> QED BY <1>3, <1>4, MaxId, GenerateType, TableConstants DEF CInt

\* A Field array with at least the fields of the table, as callers and the
\* loader pass it
Fits(t, row) == row \in Seq(Field) /\ Len(row) >= Len(t.schema)

\* What a caller passes fits every table.
LEMMA RowsFit ==
    ASSUME NEW t, TableOK(t), NEW row \in Rows
    PROVE  Fits(t, row)
BY DatabaseConstants DEF TableOK, Fits

\* The id a caller gives table_insert_record is a C int.
LEMMA GivenId ==
    ASSUME NEW t, TableOK(t), NEW row, Fits(t, row)
    PROVE  given_id(t, row) \in CInt
<1>1. t.schema \in Seq(FieldDef) /\ row \in Seq(Field) /\ Len(row) >= Len(t.schema)
  BY DatabaseConstants DEF TableOK, Fits
<1>2. ASSUME NEW i \in DOMAIN t.schema PROVE row[i] \in Field
  BY <1>1
<1>3. IntKeys(t, row) \subseteq Nat /\ IntKeys(t, row) \subseteq DOMAIN t.schema
  BY <1>1 DEF IntKeys
<1>4. CASE IntKeys(t, row) = {}
  BY <1>4, TableConstants DEF given_id, CInt
<1>5. CASE IntKeys(t, row) # {}
  <2>1. \E i \in IntKeys(t, row) : \A j \in IntKeys(t, row) : i <= j
    BY <1>3, <1>5, LeastNat
  <2> DEFINE k == CHOOSE i \in IntKeys(t, row) : \A j \in IntKeys(t, row) : i <= j
  <2>2. k \in IntKeys(t, row)
    BY <2>1
  <2>3. row[k].value \in CInt
    BY <2>2, <1>2, <1>3 DEF Field
  <2> QED BY <2>3, <1>5 DEF given_id
<1> QED BY <1>4, <1>5

\* A table has finitely many records.
LEMMA FiniteList ==
    ASSUME NEW t, TableOK(t)
    PROVE  IsFiniteSet(DOMAIN t.records) /\ Cardinality(DOMAIN t.records) \in Nat
<1>0. t.nodes \in Int /\ 1 \in Int
  BY DEF TableOK
<1>1. IsFiniteSet(1 .. t.nodes)
  BY <1>0, FS_Interval
<1>2. DOMAIN t.records \in SUBSET (1 .. t.nodes)
  BY DEF TableOK
<1>3. IsFiniteSet(DOMAIN t.records)
  BY <1>1, <1>2, FS_Subset
<1> QED BY <1>3, FS_CardinalityType

\* Linking a new record with an id no record has keeps the table consistent.
LEMMA AddRecordInv ==
    ASSUME NEW t, TableInv(t), NEW row, Fits(t, row), NEW id \in CInt,
           ~table_find_record(t, id), t.record_count < MAX_RECORDS_PER_TABLE
    PROVE  /\ TableInv(AddRecord(t, id, row))
           /\ AddRecord(t, id, row).record_count = t.record_count + 1
<1> DEFINE u == AddRecord(t, id, row)
           node == t.nodes + 1
           rec == [id |-> id, version |-> 1,
                   fields |-> [i \in DOMAIN t.schema |->
                                 [type |-> t.schema[i].type, value |-> row[i].value]]]
           list == [n \in DOMAIN t.records \cup {node} |->
                       IF n = node THEN rec ELSE t.records[n]]
<1>1. TableOK(t) /\ UniqueIds(t) /\ CountedExactly(t)
  BY DEF TableInv
<1>2. u = [t EXCEPT !.records = list, !.nodes = node, !.record_count = @ + 1]
  BY DEF AddRecord
<1>3. /\ u.records = list /\ u.nodes = node /\ u.record_count = t.record_count + 1
      /\ u.schema = t.schema /\ u.name = t.name /\ u.indexes = t.indexes
      /\ DOMAIN u = DOMAIN t
  <2> HIDE DEF list
  <2> QED BY <1>1, <1>2 DEF TableOK
<1>4. t.schema \in Seq(FieldDef) /\ row \in Seq(Field) /\ Len(row) >= Len(t.schema)
  BY <1>1, DatabaseConstants DEF TableOK, Fits
<1>5. rec.fields \in Seq(Field) /\ Len(rec.fields) = Len(t.schema)
  <2>0. \A i \in 1 .. Len(t.schema) : t.schema[i] \in FieldDef /\ row[i] \in Field
    BY <1>4
  <2>1. \A i \in 1 .. Len(t.schema) : t.schema[i].type \in FieldTypes /\ row[i].value \in CInt
    BY <2>0 DEF FieldDef, Field, FieldTypes
  <2>2. rec.fields = [i \in 1 .. Len(t.schema) |-> [type |-> t.schema[i].type, value |-> row[i].value]]
    BY <1>4
  <2>3. \A i \in 1 .. Len(t.schema) : [type |-> t.schema[i].type, value |-> row[i].value] \in Field
    BY <2>1 DEF Field
  <2>4. Len(t.schema) \in Nat
    BY <1>4
  <2> HIDE DEF rec
  <2> QED BY <2>2, <2>3, <2>4
<1>6. rec \in Record /\ rec.id = id
  BY <1>5 DEF Record
<1>7. node \notin DOMAIN t.records
  BY <1>1 DEF TableOK
<1>8. /\ DOMAIN list = DOMAIN t.records \cup {node}
      /\ list[node] = rec
      /\ \A n \in DOMAIN t.records : list[n] = t.records[n]
  BY <1>7
<1> HIDE DEF list, rec
<1>9. TableOK(u)
  <2>1. list \in [DOMAIN list -> Record]
    BY <1>1, <1>6, <1>8 DEF TableOK, list
  <2>2. DOMAIN list \subseteq 1 .. node
    BY <1>1, <1>8 DEF TableOK
  <2>3. \A n \in DOMAIN list : Len(list[n].fields) = Len(t.schema)
    BY <1>1, <1>5, <1>8 DEF TableOK
  <2> QED BY <1>1, <1>3, <2>1, <2>2, <2>3 DEF TableOK
<1>10. UniqueIds(u)
  BY <1>1, <1>3, <1>6, <1>8 DEF UniqueIds, table_find_record, NodesWithId
<1>11. CountedExactly(u)
  <2>1. Cardinality(DOMAIN list) = Cardinality(DOMAIN t.records) + 1
    BY <1>1, <1>7, <1>8, FiniteList, FS_AddElement
  <2> QED BY <1>1, <1>3, <2>1, FiniteList, TableConstants DEF CountedExactly
<1> QED BY <1>3, <1>9, <1>10, <1>11 DEF TableInv

\* table_insert_record keeps the table consistent; a failure leaves it as it
\* was, and a success adds one record.
LEMMA InsertInv ==
    ASSUME NEW t, TableInv(t), NEW row, Fits(t, row), NEW counter \in CInt,
           NEW r, r = table_insert_record(t, row, counter)
    PROVE  /\ TableInv(r.table)
           /\ r.counter \in CInt
           /\ r.code \in Codes
           /\ r.code # "PENDING"
           /\ IF r.code = "SUCCESS"
              THEN /\ r.table.record_count = t.record_count + 1
                   /\ \E id : r.table = AddRecord(t, id, row)
              ELSE r.table = t
<1>1. TableOK(t)
  BY DEF TableInv
<1>2. CASE t.record_count >= MAX_RECORDS_PER_TABLE
  BY <1>2 DEF table_insert_record, Rejected, Codes
<1>3. CASE /\ ~(t.record_count >= MAX_RECORDS_PER_TABLE)
           /\ row[1].type = "UNKNOWN" \/ ViolatesNotNull(t, row)
  BY <1>3 DEF table_insert_record, Rejected, Codes
<1>4. CASE /\ ~(t.record_count >= MAX_RECORDS_PER_TABLE)
           /\ ~(row[1].type = "UNKNOWN" \/ ViolatesNotNull(t, row))
  <2> DEFINE own == given_id(t, row)
             chosen == IF own = -1 THEN generate_record_id(t, counter)
                                   ELSE [id |-> own, counter |-> counter]
  <2>1. r = IF table_find_record(t, chosen.id)
            THEN Rejected(t, chosen.counter, "ERROR_DUPLICATE_KEY")
            ELSE [table |-> AddRecord(t, chosen.id, row),
                  counter |-> chosen.counter, code |-> "SUCCESS"]
    BY <1>4 DEF table_insert_record, InsertWithId
  <2>2. chosen.id \in CInt /\ chosen.counter \in CInt
    BY <1>1, GivenId, GenerateType
  <2> HIDE DEF chosen
  <2>3. CASE table_find_record(t, chosen.id)
    BY <2>1, <2>2, <2>3 DEF Rejected, Codes
  <2>4. CASE ~table_find_record(t, chosen.id)
    <3>1. t.record_count < MAX_RECORDS_PER_TABLE
      BY <1>1, <1>4, TableConstants DEF TableOK
    <3>2. /\ TableInv(AddRecord(t, chosen.id, row))
          /\ AddRecord(t, chosen.id, row).record_count = t.record_count + 1
      BY <2>2, <2>4, <3>1, AddRecordInv
    <3> QED BY <2>1, <2>2, <2>4, <3>2 DEF Codes
  <2> QED BY <2>3, <2>4
<1> QED BY <1>2, <1>3, <1>4

\* Unlinking any set of nodes and subtracting their number keeps the table
\* consistent: table_delete_record unlinks one, the loop of
\* db_delete_records_by_field all that match.
LEMMA UnlinkInv ==
    ASSUME NEW t, TableInv(t), NEW gone, gone \subseteq DOMAIN t.records,
           NEW u, u = [t EXCEPT !.records = Without(t.records, gone),
                                !.record_count = @ - Cardinality(gone)]
    PROVE  TableInv(u)
<1> DEFINE list == Without(t.records, gone)
<1>1. TableOK(t) /\ UniqueIds(t) /\ CountedExactly(t)
  BY DEF TableInv
<1>2. /\ DOMAIN list = DOMAIN t.records \ gone
      /\ \A n \in DOMAIN list : list[n] = t.records[n]
      /\ list \in [DOMAIN list -> Record]
  BY <1>1 DEF Without, TableOK
<1>3. /\ IsFiniteSet(gone) /\ Cardinality(gone) \in Nat
      /\ Cardinality(DOMAIN list) = Cardinality(DOMAIN t.records) - Cardinality(gone)
      /\ Cardinality(DOMAIN list) \in Nat
  <2>1. IsFiniteSet(DOMAIN t.records) /\ Cardinality(DOMAIN t.records) \in Nat
    BY <1>1, FiniteList
  <2>2. IsFiniteSet(gone) /\ IsFiniteSet(DOMAIN list)
    BY <1>2, <2>1, FS_Subset
  <2>3. Cardinality(gone) \in Nat /\ Cardinality(DOMAIN list) \in Nat
    BY <2>2, FS_CardinalityType
  <2>4. Cardinality(DOMAIN list \cup gone) = Cardinality(DOMAIN list) + Cardinality(gone) - Cardinality(DOMAIN list \cap gone)
    BY <2>2, FS_Union
  <2>5. DOMAIN list \cup gone = DOMAIN t.records /\ DOMAIN list \cap gone = {}
    BY <1>2
  <2>6. Cardinality(DOMAIN t.records) = Cardinality(DOMAIN list) + Cardinality(gone)
    BY <2>3, <2>4, <2>5, FS_EmptySet
  <2> QED BY <2>1, <2>2, <2>3, <2>6
<1> HIDE DEF list
<1>4. u = [t EXCEPT !.records = list, !.record_count = @ - Cardinality(gone)]
  BY DEF list
<1>5. /\ u.records = list /\ u.record_count = t.record_count - Cardinality(gone)
      /\ u.schema = t.schema /\ u.name = t.name /\ u.indexes = t.indexes
      /\ u.nodes = t.nodes /\ DOMAIN u = DOMAIN t
  BY <1>1, <1>4 DEF TableOK
<1>6. TableOK(u)
  BY <1>1, <1>2, <1>3, <1>5 DEF TableOK
<1>7. UniqueIds(u)
  BY <1>1, <1>2, <1>5 DEF UniqueIds
<1>8. CountedExactly(u)
  BY <1>1, <1>3, <1>5, FiniteList, TableConstants DEF CountedExactly
<1> QED BY <1>6, <1>7, <1>8 DEF TableInv

\* table_delete_record keeps the table consistent.
LEMMA DeleteInv ==
    ASSUME NEW t, TableInv(t), NEW id, NEW r, r = table_delete_record(t, id)
    PROVE  TableInv(r.table) /\ r.code \in {"SUCCESS", "ERROR_NOT_FOUND"}
<1>1. CASE ~table_find_record(t, id)
  BY <1>1 DEF table_delete_record
<1>2. CASE table_find_record(t, id)
  <2> DEFINE n == CHOOSE x \in NodesWithId(t, id) : TRUE
  <2>1. n \in DOMAIN t.records
    BY <1>2 DEF table_find_record, NodesWithId
  <2>2. r.table = UnlinkNode(t, n) /\ r.code = "SUCCESS"
    BY <1>2 DEF table_delete_record
  <2> HIDE DEF n
  <2>3. Cardinality({n}) = 1
    BY FS_Singleton
  <2>4. r.table = [t EXCEPT !.records = Without(t.records, {n}),
                            !.record_count = @ - Cardinality({n})]
    BY <2>2, <2>3 DEF UnlinkNode
  <2> QED BY <2>1, <2>2, <2>4, UnlinkInv
<1> QED BY <1>1, <1>2

\* The loop of db_delete_records_by_field keeps the table consistent.
LEMMA UnlinkMatchingInv ==
    ASSUME NEW t, TableInv(t), NEW f, NEW value
    PROVE  TableInv(UnlinkMatching(t, f, value))
BY UnlinkInv DEF UnlinkMatching, Matching

\* table_update_record keeps the table consistent even when it stops at a
\* refused key: ids, list and count are as before.
LEMMA UpdateInv ==
    ASSUME NEW t, TableInv(t), NEW id, NEW row \in Rows,
           NEW r, r = table_update_record(t, id, row)
    PROVE  TableInv(r.table) /\ r.code \in {"SUCCESS", "ERROR_NOT_FOUND", "ERROR_DUPLICATE_KEY"}
<1>1. CASE ~table_find_record(t, id)
  BY <1>1 DEF table_update_record
<1>2. CASE table_find_record(t, id)
  <2> DEFINE n == CHOOSE x \in NodesWithId(t, id) : TRUE
             all == Overwritten(t, t.records[n].id, row, Len(t.schema))
             fields == UpdatedFields(t, n, row)
             rec == [id |-> t.records[n].id, fields |-> fields,
                     version |-> t.records[n].version + (IF all THEN 1 ELSE 0)]
             list == [t.records EXCEPT ![n] = rec]
             u == [t EXCEPT !.records = list]
  <2>1. n \in DOMAIN t.records
    BY <1>2 DEF table_find_record, NodesWithId
  <2>2. r.table = u /\ r.code \in {"SUCCESS", "ERROR_DUPLICATE_KEY"}
    BY <1>2 DEF table_update_record, UpdateNode
  <2>3. TableOK(t) /\ UniqueIds(t) /\ CountedExactly(t)
    BY DEF TableInv
  <2>4. t.records[n] \in Record /\ Len(t.records[n].fields) = Len(t.schema)
    BY <2>1, <2>3 DEF TableOK
  <2>5. fields \in Seq(Field) /\ Len(fields) = Len(t.schema)
    <3>1. t.schema \in Seq(FieldDef) /\ row \in Seq(Field) /\ Len(row) >= Len(t.schema)
      BY <2>3, DatabaseConstants DEF TableOK
    <3>2. t.records[n].fields \in Seq(Field)
      BY <2>4 DEF Record
    <3>3. ASSUME NEW i \in 1 .. Len(t.schema) PROVE row[i] \in Field /\ t.records[n].fields[i] \in Field
      BY <3>1, <3>2, <2>4
    <3>4. ASSUME NEW i \in 1 .. Len(t.schema)
          PROVE  NewField(t.records[n].fields[i], row[i]) \in Field
      BY <3>3 DEF NewField, Field
    <3>5. \A i \in 1 .. Len(t.schema) : fields[i] \in Field
      BY <3>1, <3>3, <3>4, SMTT(30) DEF UpdatedFields
    <3>6. fields = [i \in 1 .. Len(t.schema) |-> fields[i]] /\ Len(t.schema) \in Nat
      BY <3>1 DEF UpdatedFields
    <3> HIDE DEF fields
    <3>7. fields \in [1 .. Len(t.schema) -> Field]
      BY <3>5, <3>6
    <3> QED BY <3>6, <3>7
  <2>6. rec.id = t.records[n].id /\ rec.fields = fields /\ rec \in Record
    <3> HIDE DEF fields, all
    <3>1. t.records[n].id \in CInt /\ t.records[n].version \in Nat
      BY <2>4 DEF Record
    <3> QED BY <2>5, <3>1 DEF Record
  <2> HIDE DEF rec, fields, n
  <2>7. /\ DOMAIN list = DOMAIN t.records /\ list[n] = rec
        /\ \A m \in DOMAIN t.records : m # n => list[m] = t.records[m]
        /\ list \in [DOMAIN list -> Record]
    BY <2>1, <2>3, <2>6 DEF TableOK
  <2> HIDE DEF list
  <2>8. /\ u.records = list /\ u.record_count = t.record_count /\ u.nodes = t.nodes
        /\ u.schema = t.schema /\ u.name = t.name /\ u.indexes = t.indexes
        /\ DOMAIN u = DOMAIN t
    BY <2>3 DEF TableOK
  <2>9. TableOK(u)
    BY <2>3, <2>5, <2>6, <2>7, <2>8 DEF TableOK
  <2>10. UniqueIds(u) /\ CountedExactly(u)
    BY <2>1, <2>3, <2>6, <2>7, <2>8 DEF UniqueIds, CountedExactly
  <2> QED BY <2>2, <2>9, <2>10 DEF TableInv
<1> QED BY <1>1, <1>2

\* A table extends itself by no rows.
LEMMA ExtendNone ==
    ASSUME NEW t, TableOK(t)
    PROVE  Extended(t, t, <<>>)
<1>1. t.nodes \in Nat /\ t.record_count \in Int /\ DOMAIN t.records \subseteq 1 .. t.nodes
  BY DEF TableOK
<1>2. (t.nodes + 1) .. t.nodes = {} /\ Len(<<>>) = 0 /\ DOMAIN <<>> = {}
  BY <1>1
<1> QED BY <1>1, <1>2 DEF Extended

\* Nodes a + 1, a + 2 ... after one more
LEMMA NextNode ==
    \A a \in Nat, k \in Nat : \A b : b = a + k =>
        /\ (a + 1) .. (b + 1) = (a + 1) .. b \cup {b + 1}
        /\ \A j \in 1 .. k : a + j \in (a + 1) .. b
OBVIOUS

\* One more insertion extends the table by one more row.
LEMMA ExtendOne ==
    ASSUME NEW old, TableOK(old), NEW t, TableOK(t), NEW rows \in Seq(Rows), NEW row \in Rows,
           Extended(old, t, rows), NEW id, NEW u, u = AddRecord(t, id, row)
    PROVE  Extended(old, u, Append(rows, row))
<1> DEFINE rec == [id |-> id, version |-> 1,
                   fields |-> [i \in DOMAIN t.schema |->
                                 [type |-> t.schema[i].type, value |-> row[i].value]]]
           node == t.nodes + 1
           list == [n \in DOMAIN t.records \cup {node} |-> IF n = node THEN rec ELSE t.records[n]]
           more == Append(rows, row)
<1>1. /\ Len(rows) \in Nat /\ Len(more) = Len(rows) + 1
      /\ DOMAIN rows = 1 .. Len(rows) /\ DOMAIN more = 1 .. Len(rows) + 1
      /\ \A k \in 1 .. Len(rows) : more[k] = rows[k]
      /\ more[Len(rows) + 1] = row
  OBVIOUS
<1>2. \A i \in DOMAIN t.schema : rec.fields[i].value = row[i].value
  OBVIOUS
<1>3. u = [t EXCEPT !.records = list, !.nodes = node, !.record_count = @ + 1]
  BY DEF AddRecord
<1> HIDE DEF rec, more
<1>4. /\ old.nodes \in Nat /\ t.nodes \in Nat /\ old.record_count \in Int
      /\ DOMAIN old.records \subseteq 1 .. old.nodes /\ DOMAIN t.records \subseteq 1 .. t.nodes
  BY DEF TableOK
<1>5. /\ DOMAIN list = DOMAIN t.records \cup {node} /\ list[node] = rec
      /\ \A n \in DOMAIN t.records : list[n] = t.records[n]
  BY <1>4
<1> HIDE DEF list
<1>6. /\ u.records = list /\ u.nodes = node /\ u.record_count = t.record_count + 1
      /\ u.schema = t.schema /\ u.name = t.name /\ u.indexes = t.indexes
  BY <1>3 DEF TableOK
<1>7. /\ t.nodes = old.nodes + Len(rows) /\ t.record_count = old.record_count + Len(rows)
      /\ DOMAIN t.records = DOMAIN old.records \cup (old.nodes + 1) .. t.nodes
      /\ \A n \in DOMAIN old.records : t.records[n] = old.records[n]
      /\ \A k \in DOMAIN rows, i \in DOMAIN old.schema :
            t.records[old.nodes + k].fields[i].value = rows[k][i].value
      /\ t.schema = old.schema /\ t.name = old.name /\ t.indexes = old.indexes
  BY DEF Extended
<1>8. /\ (old.nodes + 1) .. (t.nodes + 1) = (old.nodes + 1) .. t.nodes \cup {t.nodes + 1}
       /\ old.nodes + (Len(rows) + 1) = t.nodes + 1
       /\ t.record_count + 1 = old.record_count + (Len(rows) + 1)
       /\ \A j \in 1 .. Len(rows) : old.nodes + j \in (old.nodes + 1) .. t.nodes
  <2>1. /\ old.nodes \in Nat /\ Len(rows) \in Nat /\ old.record_count \in Int
        /\ t.nodes = old.nodes + Len(rows) /\ t.record_count = old.record_count + Len(rows)
    BY <1>1, <1>4, <1>7
  <2>2. /\ (old.nodes + 1) .. (t.nodes + 1) = (old.nodes + 1) .. t.nodes \cup {t.nodes + 1}
        /\ \A j \in 1 .. Len(rows) : old.nodes + j \in (old.nodes + 1) .. t.nodes
    BY <2>1, NextNode
  <2> QED BY <2>1, <2>2
<1>9. DOMAIN list = DOMAIN old.records \cup (old.nodes + 1) .. node
  BY <1>5, <1>7, <1>8, Zenon
<1>10. ASSUME NEW k \in DOMAIN more, NEW i \in DOMAIN old.schema
      PROVE  list[old.nodes + k].fields[i].value = more[k][i].value
  <2>1. CASE k = Len(rows) + 1
    <3>1. old.nodes + k = node
      BY <1>8, <2>1
    <3> QED BY <1>1, <1>2, <1>5, <1>7, <2>1, <3>1
  <2>2. CASE k \in DOMAIN rows
    <3>1. old.nodes + k \in (old.nodes + 1) .. t.nodes
      BY <1>1, <1>8, <2>2, Zenon
    <3>2. list[old.nodes + k] = t.records[old.nodes + k]
      BY <1>5, <1>7, <3>1
    <3> QED BY <1>1, <1>7, <2>2, <3>2
  <2> QED BY <1>1, <2>1, <2>2
<1>11. node = old.nodes + Len(more) /\ t.record_count + 1 = old.record_count + Len(more)
  BY <1>1, <1>8, Zenon
<1>12. \A n \in DOMAIN old.records : list[n] = old.records[n]
  BY <1>5, <1>7
<1>13. <<u.name, u.schema, u.indexes>> = <<old.name, old.schema, old.indexes>>
  BY <1>6, <1>7
<1>14. Extended(old, u, more)
  BY <1>6, <1>9, <1>10, <1>11, <1>12, <1>13 DEF Extended
<1> QED BY <1>14 DEF more

-----------------------------------------------------------------------------
(***************************************************************************)
(* The inductive invariant.  Id uniqueness and the exact count hold table  *)
(* by table; the transaction and the batch need each other: a batch ends   *)
(* the transaction it runs in, its remaining records must still fit, and   *)
(* the ones inserted are all that became of what the call found.           *)
(***************************************************************************)
BatchProgress ==
    ~Idle =>
      LET found == batch.before
      IN  /\ found.txn \in [active : BOOLEAN, level : Nat]
          /\ found.txn.active <=> found.txn.level > 0
          /\ txn = Begun(found.txn)
          /\ TableOK(found.tables[batch.table])
          /\ DOMAIN tables = DOMAIN found.tables
          /\ \A j \in DOMAIN tables \ {batch.table} : tables[j] = found.tables[j]
          /\ Extended(found.tables[batch.table], tables[batch.table], batch.done)

IInv == TypeOK /\ IdsUnique /\ CountExact /\ TxnShape /\ BatchFits /\ BatchProgress

TablesOK == tables \in Seq({tables[i] : i \in DOMAIN tables})
                /\ \A i \in DOMAIN tables : TableInv(tables[i])
TxnOK == txn \in [active : BOOLEAN, level : Nat] /\ TxnShape
BatchOK == /\ DOMAIN batch = {"table", "todo", "done", "before"}
           /\ batch.table \in Nat
           /\ {batch.todo, batch.done} \subseteq Seq(Rows)
           /\ Idle \/ (batch.table \in DOMAIN tables /\ batch.todo # <<>>)
           /\ BatchFits
           /\ BatchProgress
RestOK == global_counter \in CInt /\ ret \in [op : Ops, code : Codes]

\* The invariant, split by what the calls change.
LEMMA Parts == IInv <=> TablesOK /\ TxnOK /\ BatchOK /\ RestOK
BY DEF IInv, TypeOK, IdsUnique, CountExact, TablesOK, TxnOK, BatchOK, RestOK, TableInv

\* The same split after a step.
LEMMA PartsPrime == IInv' <=> TablesOK' /\ TxnOK' /\ BatchOK' /\ RestOK'
BY DEF IInv, TypeOK, IdsUnique, CountExact, TablesOK, TxnOK, BatchOK, RestOK, TableInv

\* What is left of a batch with more than one record to insert.
LEMMA TailOfLonger ==
    ASSUME NEW S, NEW s \in Seq(S), Len(s) > 1
    PROVE  Tail(s) \in Seq(S) /\ Len(Tail(s)) = Len(s) - 1 /\ Tail(s) # <<>>
<1> DEFINE u == Tail(s)
<1>1. u \in Seq(S) /\ Len(u) = Len(s) - 1 /\ Len(s) \in Nat
  <2>1. Len(s) \in Nat /\ s # <<>>
    OBVIOUS
  <2> QED BY <2>1
<1>0. Len(u) = Len(s) - 1 /\ Len(s) \in Nat
  BY <1>1
<1> HIDE DEF u
<1>2. Len(u) # 0
  BY <1>0, SMTT(30)
<1>3. u # <<>>
  BY <1>2
<1> QED BY <1>1, <1>3 DEF u

\* A function on 1 .. n is a sequence of its values.
LEMMA FunctionIsSeq ==
    ASSUME NEW S, NEW n \in Nat, NEW f \in [1 .. n -> S]
    PROVE  f \in Seq(S)
OBVIOUS

\* Replacing one table by a consistent one keeps db->tables consistent.
LEMMA ReplaceTable ==
    ASSUME TablesOK, NEW i \in DOMAIN tables, NEW u, TableInv(u),
           tables' = [tables EXCEPT ![i] = u]
    PROVE  /\ TablesOK'
           /\ DOMAIN tables' = DOMAIN tables
           /\ tables'[i] = u
           /\ \A j \in DOMAIN tables : j # i => tables'[j] = tables[j]
<1> DEFINE S == {tables[j] : j \in DOMAIN tables}
           R == {tables'[j] : j \in DOMAIN tables'}
<1>1. tables \in Seq(S)
  BY DEF TablesOK
<1>2. DOMAIN tables' = DOMAIN tables /\ DOMAIN tables = 1 .. Len(tables) /\ Len(tables) \in Nat
  BY <1>1
<1>3. tables' \in [1 .. Len(tables) -> R]
  <2>1. tables' = [j \in 1 .. Len(tables) |-> tables'[j]]
    BY <1>1, <1>2
  <2>2. \A j \in 1 .. Len(tables) : tables'[j] \in R
    BY <1>2
  <2> HIDE DEF R
  <2> QED BY <2>1, <2>2
<1>4. tables' \in Seq(R)
  <2> HIDE DEF R
  <2> QED BY <1>2, <1>3, FunctionIsSeq
<1>5. tables'[i] = u /\ \A j \in DOMAIN tables : j # i => tables'[j] = tables[j]
  BY <1>1
<1> QED BY <1>2, <1>4, <1>5 DEF TablesOK

\* db_get_table finds a position of db->tables, or none (0).
LEMMA GetTable ==
    ASSUME TablesOK, NEW name, db_get_table(name) # 0
    PROVE  db_get_table(name) \in DOMAIN tables
<1>1. Named(name) # {} /\ Named(name) \subseteq DOMAIN tables
  BY DEF db_get_table, Named
<1>2. DOMAIN tables \subseteq Nat
  BY DEF TablesOK
<1>3. \E i \in Named(name) : \A j \in Named(name) : i <= j
  BY <1>1, <1>2, LeastNat
<1> QED BY <1>1, <1>3 DEF db_get_table

\* An early return keeps the invariant.
LEMMA RefuseInv ==
    ASSUME IInv, NEW op \in Ops, NEW code \in Codes, Refuse(op, code)
    PROVE  IInv'
<1>1. TablesOK' /\ TxnOK' /\ BatchOK'
  BY Parts DEF Refuse, TablesOK, TxnOK, TxnShape, BatchOK, BatchFits, BatchProgress, Idle
<1>2. RestOK'
  BY Parts DEF Refuse, Return, RestOK
<1> QED BY <1>1, <1>2, PartsPrime

\* Facts about the transaction functions
LEMMA TxnFunctions ==
    ASSUME NEW x \in [active : BOOLEAN, level : Nat], x.active <=> x.level > 0,
           x.level <= MAX_TRANSACTION_LEVEL
    PROVE  /\ CanBegin(x) => /\ Begun(x) \in [active : BOOLEAN, level : Nat]
                             /\ Begun(x).active /\ Begun(x).level > 0
                             /\ Begun(x).level <= MAX_TRANSACTION_LEVEL
           /\ NoTxn \in [active : BOOLEAN, level : Nat]
           /\ ~NoTxn.active /\ NoTxn.level = 0
           /\ Committed(x) \in [active : BOOLEAN, level : Nat]
           /\ Committed(x).active <=> Committed(x).level > 0
           /\ Committed(x).level <= MAX_TRANSACTION_LEVEL
           /\ ~x.active => CanBegin(x)
BY DatabaseConstants DEF CanBegin, Begun, NoTxn, Committed

\* A single-record call ends with a consistent transaction
LEMMA LocalTxn ==
    ASSUME TxnOK, Idle, NEW code, txn' = LocalTransaction(txn, code), UNCHANGED batch
    PROVE  TxnOK'
<1>1. txn \in [active : BOOLEAN, level : Nat] /\ (txn.active <=> txn.level > 0)
      /\ txn.level <= MAX_TRANSACTION_LEVEL
  BY DEF TxnOK, TxnShape
<1>2. CASE txn.active
  BY <1>1, <1>2 DEF LocalTransaction, TxnOK, TxnShape, Idle
<1>3. CASE ~txn.active
  <2>1. /\ Begun(txn) \in [active : BOOLEAN, level : Nat]
        /\ Begun(txn).active <=> Begun(txn).level > 0
        /\ Begun(txn).level <= MAX_TRANSACTION_LEVEL
    BY <1>1, <1>3, TxnFunctions
  <2>2. txn' \in {Committed(Begun(txn)), NoTxn}
    BY <1>3 DEF LocalTransaction, RolledBack
  <2>3. /\ txn' \in [active : BOOLEAN, level : Nat] /\ (txn'.active <=> txn'.level > 0)
        /\ txn'.level <= MAX_TRANSACTION_LEVEL
    <3>1. CASE txn' = NoTxn
      BY <3>1, DatabaseConstants DEF NoTxn
    <3>2. CASE txn' = Committed(Begun(txn))
      BY <3>2, <2>1, TxnFunctions
    <3> QED BY <2>2, <3>1, <3>2
  <2> QED BY <2>3 DEF TxnOK, TxnShape, Idle
<1> QED BY <1>2, <1>3

\* With no batch under way, the batch part of the invariant is trivial.
LEMMA IdleBatch ==
    ASSUME Idle, UNCHANGED batch
    PROVE  BatchOK'
BY DEF Idle, BatchOK, BatchFits, BatchProgress, NoBatch

\* The common end of insert, update and delete
LEMMA FinishInv ==
    ASSUME IInv, Idle, NEW op \in Ops, NEW i \in DOMAIN tables, NEW r,
           TableInv(r.table), r.code \in Codes, Finish(op, i, r), global_counter' \in CInt
    PROVE  IInv'
<1>1. TablesOK'
  BY Parts, ReplaceTable DEF Finish
<1>2. TxnOK'
  BY Parts, LocalTxn DEF Finish
<1>3. BatchOK'
  BY IdleBatch DEF Finish
<1>4. RestOK'
  BY DEF Finish, Return, RestOK
<1> QED BY <1>1, <1>2, <1>3, <1>4, PartsPrime

-----------------------------------------------------------------------------
(***************************************************************************)
(* One lemma per call                                                      *)
(***************************************************************************)
\* db_add_table keeps the invariant.
LEMMA AddTableInv ==
    ASSUME IInv, NEW name \in Names, NEW schema \in Schemas, db_add_table(name, schema)
    PROVE  IInv'
<1>1. CASE \E code \in Codes : Refuse("add_table", code)
  BY <1>1, RefuseInv DEF Ops
<1>2. CASE /\ Idle
           /\ Len(schema) \in 1 .. MAX_FIELDS_PER_TABLE
           /\ tables' = Append(tables, NewTable(Truncated[name], schema))
           /\ Return("add_table", "SUCCESS")
           /\ UNCHANGED <<txn, global_counter, batch>>
  <2> DEFINE new == NewTable(Truncated[name], schema)
             S == {tables[j] : j \in DOMAIN tables}
             R == {tables'[j] : j \in DOMAIN tables'}
  <2>1. TableInv(new)
    <3>1. /\ new.name \in Names /\ new.schema = schema /\ new.record_count = 0 /\ new.nodes = 0
          /\ new.indexes = {} /\ DOMAIN new.records = {}
          /\ DOMAIN new = {"name", "schema", "records", "record_count", "nodes", "indexes"}
          /\ new.records = [n \in {} |-> 0]
      BY DatabaseConstants DEF NewTable
    <3> HIDE DEF new
    <3>2. new.records \in [DOMAIN new.records -> Record]
      BY <3>1
    <3>3. Len(schema) >= 1
      BY <1>2, DatabaseConstants
    <3>4. TableOK(new)
      BY <3>1, <3>2, <3>3 DEF TableOK
    <3> QED BY <3>1, <3>4, FS_EmptySet, TableConstants DEF TableInv, UniqueIds, CountedExactly
  <2>2. tables \in Seq(S) /\ \A i \in DOMAIN tables : TableInv(tables[i])
    BY Parts DEF TablesOK
  <2> HIDE DEF new
  <2>3. /\ Len(tables) \in Nat /\ DOMAIN tables = 1 .. Len(tables)
        /\ DOMAIN tables' = 1 .. Len(tables) + 1
        /\ \A j \in 1 .. Len(tables) : tables'[j] = tables[j]
        /\ tables'[Len(tables) + 1] = new
    BY <1>2, <2>2 DEF new
  <2>4. tables' \in Seq(R)
    <3>1. tables' = [j \in 1 .. Len(tables) + 1 |-> tables'[j]]
      BY <1>2, <2>2
    <3>2. \A j \in 1 .. Len(tables) + 1 : tables'[j] \in R
      BY <2>3
    <3> HIDE DEF R
    <3>3. tables' \in [1 .. Len(tables) + 1 -> R]
      BY <3>1, <3>2
    <3> QED BY <2>3, <3>3, FunctionIsSeq
  <2>5. TablesOK'
    BY <2>1, <2>2, <2>3, <2>4 DEF TablesOK
  <2>6. TxnOK' /\ BatchOK' /\ RestOK'
    BY <1>2, Parts, IdleBatch DEF TxnOK, TxnShape, Idle, RestOK, Return, Codes, Ops
  <2> QED BY <2>5, <2>6, PartsPrime
<1> QED BY <1>1, <1>2 DEF db_add_table, Codes

\* db_insert_record keeps the invariant.
LEMMA InsertRecordInv ==
    ASSUME IInv, NEW name \in Names, NEW row \in Rows, db_insert_record(name, row)
    PROVE  IInv'
<1> DEFINE i == db_get_table(name)
           r == table_insert_record(tables[i], row, global_counter)
<1>1. CASE i = 0
  BY <1>1, RefuseInv DEF db_insert_record, OnTable, Codes, Ops
<1>2. CASE i # 0
  <2>1. i \in DOMAIN tables /\ TableInv(tables[i]) /\ global_counter \in CInt
    BY <1>2, GetTable, Parts DEF TablesOK, RestOK
  <2>2. Idle /\ global_counter' = r.counter /\ Finish("insert", i, r)
    BY <1>2 DEF db_insert_record, OnTable, InsertInto
  <2> HIDE DEF i
  <2>3. TableInv(r.table) /\ r.counter \in CInt /\ r.code \in Codes
    BY <2>1, InsertInv, RowsFit DEF TableInv
  <2> HIDE DEF r
  <2> QED BY <2>1, <2>2, <2>3, FinishInv DEF Ops
<1> QED BY <1>1, <1>2

\* db_update_record keeps the invariant.
LEMMA UpdateRecordInv ==
    ASSUME IInv, NEW name \in Names, NEW id, NEW row \in Rows, db_update_record(name, id, row)
    PROVE  IInv'
<1> DEFINE i == db_get_table(name)
           r == table_update_record(tables[i], id, row)
<1>1. CASE i = 0
  BY <1>1, RefuseInv DEF db_update_record, OnTable, Codes, Ops
<1>2. CASE i # 0
  <2>1. i \in DOMAIN tables /\ TableInv(tables[i]) /\ global_counter \in CInt
    BY <1>2, GetTable, Parts DEF TablesOK, RestOK
  <2>2. Idle /\ global_counter' = global_counter /\ Finish("update", i, r)
    BY <1>2 DEF db_update_record, OnTable, UpdateIn
  <2> HIDE DEF i
  <2>3. TableInv(r.table) /\ r.code \in Codes
    BY <2>1, UpdateInv DEF Codes
  <2> HIDE DEF r
  <2> QED BY <2>1, <2>2, <2>3, FinishInv DEF Ops
<1> QED BY <1>1, <1>2

\* db_delete_record keeps the invariant.
LEMMA DeleteRecordInv ==
    ASSUME IInv, NEW name \in Names, NEW id, db_delete_record(name, id)
    PROVE  IInv'
<1> DEFINE i == db_get_table(name)
           r == table_delete_record(tables[i], id)
<1>1. CASE i = 0
  BY <1>1, RefuseInv DEF db_delete_record, OnTable, Codes, Ops
<1>2. CASE i # 0
  <2>1. i \in DOMAIN tables /\ TableInv(tables[i]) /\ global_counter \in CInt
    BY <1>2, GetTable, Parts DEF TablesOK, RestOK
  <2>2. Idle /\ global_counter' = global_counter /\ Finish("delete", i, r)
    BY <1>2 DEF db_delete_record, OnTable, DeleteFrom
  <2> HIDE DEF i
  <2>3. TableInv(r.table) /\ r.code \in Codes
    BY <2>1, DeleteInv DEF Codes
  <2> HIDE DEF r
  <2> QED BY <2>1, <2>2, <2>3, FinishInv DEF Ops
<1> QED BY <1>1, <1>2

\* db_delete_records_by_field keeps the invariant.
LEMMA DeleteByFieldInv ==
    ASSUME IInv, NEW name \in Names, NEW f, NEW value,
           db_delete_records_by_field(name, f, value)
    PROVE  IInv'
<1> DEFINE i == db_get_table(name)
<1>1. CASE \E code \in Codes : Refuse("delete_by_field", code)
  BY <1>1, RefuseInv DEF Ops
<1>2. CASE /\ Idle /\ i # 0 /\ CanBegin(txn)
           /\ tables' = [tables EXCEPT ![i] = UnlinkMatching(@, f, value)]
           /\ txn' \in {Committed(Begun(txn)), NoTxn}
           /\ Return("delete_by_field", "SUCCESS")
           /\ UNCHANGED <<global_counter, batch>>
  <2>1. i \in DOMAIN tables /\ TableInv(tables[i])
    BY <1>2, GetTable, Parts DEF TablesOK
  <2> HIDE DEF i
  <2>2. TablesOK'
    BY <1>2, <2>1, Parts, UnlinkMatchingInv, ReplaceTable
  <2>3. /\ Begun(txn) \in [active : BOOLEAN, level : Nat]
        /\ Begun(txn).active <=> Begun(txn).level > 0
        /\ Begun(txn).level <= MAX_TRANSACTION_LEVEL
    BY <1>2, Parts, TxnFunctions DEF TxnOK, TxnShape
  <2>4. TxnOK'
    <3>1. CASE txn' = NoTxn
      BY <1>2, <3>1, DatabaseConstants DEF NoTxn, TxnOK, TxnShape, Idle
    <3>2. CASE txn' = Committed(Begun(txn))
      BY <1>2, <2>3, <3>2, TxnFunctions DEF TxnOK, TxnShape, Idle
    <3> QED BY <1>2, <3>1, <3>2
  <2>5. BatchOK' /\ RestOK'
    BY <1>2, Parts, IdleBatch DEF RestOK, Return, Codes, Ops
  <2> QED BY <2>2, <2>4, <2>5, PartsPrime
<1> QED BY <1>1, <1>2
      DEF db_delete_records_by_field, OnTable, DeleteMatching, Codes, RolledBack

\* db_batch_insert_records reserves room for the whole batch as it starts.
LEMMA StartBatchInv ==
    ASSUME IInv, NEW name \in Names, NEW rows \in Batches, db_batch_insert_records(name, rows)
    PROVE  IInv'
<1> DEFINE i == db_get_table(name)
<1>1. CASE \E code \in Codes : Refuse("batch", code)
  BY <1>1, RefuseInv DEF Ops
<1>2. CASE /\ Idle /\ i # 0 /\ CanBegin(txn)
           /\ Len(rows) \in 1 .. BATCH_INSERT_SIZE
           /\ ~(tables[i].record_count + Len(rows) > MAX_RECORDS_PER_TABLE)
           /\ txn' = Begun(txn)
           /\ batch' = [table |-> i, todo |-> rows, done |-> <<>>,
                        before |-> [tables |-> tables, txn |-> txn]]
           /\ Return("batch", "PENDING")
           /\ UNCHANGED <<tables, global_counter>>
  <2>1. i \in DOMAIN tables /\ TableOK(tables[i]) /\ DOMAIN tables \subseteq Nat
    BY <1>2, GetTable, Parts DEF TablesOK, TableInv
  <2> HIDE DEF i
  <2>2. TablesOK'
    BY <1>2, Parts DEF TablesOK
  <2>3. /\ Begun(txn) \in [active : BOOLEAN, level : Nat]
        /\ Begun(txn).active /\ Begun(txn).level > 0
        /\ Begun(txn).level <= MAX_TRANSACTION_LEVEL
    BY <1>2, Parts, TxnFunctions DEF TxnOK, TxnShape
  <2>4. TxnOK'
    BY <1>2, <2>3 DEF TxnOK, TxnShape
  <2>5. rows \in Seq(Rows) /\ rows # <<>>
    BY <1>2, DatabaseConstants
  <2>6. BatchOK'
    <3>1. tables[i].record_count + Len(rows) <= MAX_RECORDS_PER_TABLE
      BY <1>2, <2>1, <2>5, TableConstants DEF TableOK
    <3>2. BatchProgress'
      <4>1. Extended(tables[i], tables[i], <<>>)
        BY <2>1, ExtendNone
      <4>2. txn \in [active : BOOLEAN, level : Nat] /\ (txn.active <=> txn.level > 0)
        BY Parts DEF TxnOK, TxnShape
      <4> QED BY <1>2, <2>1, <4>1, <4>2, Zenon DEF BatchProgress
    <3>3. BatchFits'
      BY <1>2, <3>1 DEF BatchFits
    <3> QED BY <1>2, <2>1, <2>5, <3>2, <3>3 DEF BatchOK
  <2>7. RestOK'
    BY <1>2, Parts DEF RestOK, Return, Codes, Ops
  <2> QED BY <2>2, <2>4, <2>6, <2>7, PartsPrime
<1> QED BY <1>1, <1>2
      DEF db_batch_insert_records, OnTable, StartBatch, Codes

\* One turn of the batch loop: the record added uses up the room reserved
\* for it, and only the last or a failing turn ends the transaction.
LEMMA BatchInsertInv ==
    ASSUME IInv, BatchInsert
    PROVE  IInv'
<1> DEFINE i == batch.table
           row == Head(batch.todo)
           r == table_insert_record(tables[i], row, global_counter)
           more == r.code = "SUCCESS" /\ Len(batch.todo) > 1
<1>1. /\ ~Idle
      /\ tables' = [tables EXCEPT ![i] = r.table]
      /\ global_counter' = r.counter
      /\ txn' = IF r.code # "SUCCESS" THEN NoTxn
                ELSE IF more THEN txn ELSE Committed(txn)
      /\ batch' = IF more THEN [batch EXCEPT !.todo = Tail(@), !.done = Append(@, row)]
                  ELSE NoBatch
      /\ ret' = [op |-> "batch", code |-> IF more THEN "PENDING" ELSE r.code]
  BY DEF BatchInsert, RolledBack, Return
<1>2. /\ i \in DOMAIN tables /\ i \in Nat /\ TableInv(tables[i])
      /\ batch.todo \in Seq(Rows) /\ batch.todo # <<>> /\ row \in Rows
      /\ batch.done \in Seq(Rows)
      /\ global_counter \in CInt
      /\ tables[i].record_count + Len(batch.todo) <= MAX_RECORDS_PER_TABLE
  BY <1>1, Parts DEF BatchOK, TablesOK, RestOK, BatchFits
<1> HIDE DEF i, row
<1>3. /\ TableInv(r.table) /\ r.counter \in CInt /\ r.code \in Codes
      /\ r.code = "SUCCESS" => /\ r.table.record_count = tables[i].record_count + 1
                               /\ \E id : r.table = AddRecord(tables[i], id, row)
  BY <1>2, InsertInv, RowsFit DEF TableInv
<1> HIDE DEF r
<1>4. /\ TablesOK' /\ DOMAIN tables' = DOMAIN tables /\ tables'[i] = r.table
      /\ \A j \in DOMAIN tables : j # i => tables'[j] = tables[j]
  BY <1>1, <1>2, <1>3, Parts, ReplaceTable
<1>5. RestOK'
  BY <1>1, <1>3 DEF RestOK, Codes, Ops
<1>6. CASE more
  <2>1. TxnOK'
    BY <1>1, <1>6, Parts DEF TxnOK, TxnShape
  <2>2. Tail(batch.todo) \in Seq(Rows) /\ Len(Tail(batch.todo)) = Len(batch.todo) - 1
        /\ Tail(batch.todo) # <<>> /\ Len(batch.todo) \in Nat
    <3>1. batch.todo \in Seq(Rows) /\ Len(batch.todo) \in Nat /\ Len(batch.todo) > 1
      BY <1>2, <1>6
    <3> QED BY <3>1, TailOfLonger
  <2>3. /\ DOMAIN batch' = {"table", "todo", "done", "before"}
        /\ batch'.table = i /\ batch'.todo = Tail(batch.todo)
        /\ batch'.done = Append(batch.done, row) /\ batch'.before = batch.before
    BY <1>1, <1>6, Parts DEF BatchOK, i
  <2>4. tables[i].record_count \in Int
    BY <1>2 DEF TableInv, TableOK
  <2>5. r.table.record_count + Len(Tail(batch.todo)) <= MAX_RECORDS_PER_TABLE
    BY <1>2, <1>3, <1>6, <2>2, <2>4, TableConstants
  <2>6. BatchFits'
    BY <1>4, <2>3, <2>5 DEF BatchFits
  <2>7. Append(batch.done, row) \in Seq(Rows)
    BY <1>2
  <2>8. BatchProgress'
    <3> DEFINE found == batch.before
    <3>1. /\ found.txn \in [active : BOOLEAN, level : Nat]
          /\ found.txn.active <=> found.txn.level > 0
          /\ txn = Begun(found.txn)
          /\ TableOK(found.tables[i])
          /\ DOMAIN tables = DOMAIN found.tables
          /\ \A j \in DOMAIN tables \ {i} : tables[j] = found.tables[j]
          /\ Extended(found.tables[i], tables[i], batch.done)
      BY <1>1, Parts DEF BatchOK, BatchProgress, i
    <3> HIDE DEF found
    <3>2. PICK id : r.table = AddRecord(tables[i], id, row)
      BY <1>3, <1>6
    <3>3. TableOK(tables[i])
      BY <1>2 DEF TableInv
    <3>4. Extended(found.tables[i], r.table, Append(batch.done, row))
      BY <1>2, <3>1, <3>2, <3>3, ExtendOne
    <3>5. txn' = txn
      BY <1>1, <1>6
    <3>6. batch'.before = found
      BY <2>3 DEF found
    <3>7. /\ DOMAIN tables' = DOMAIN found.tables
          /\ \A j \in DOMAIN tables' \ {i} : tables'[j] = found.tables[j]
      BY <1>4, <3>1
    <3> QED BY <1>4, <2>3, <3>1, <3>4, <3>5, <3>6, <3>7, Zenon DEF BatchProgress
  <2>9. BatchOK'
    BY <1>2, <1>4, <2>2, <2>3, <2>6, <2>7, <2>8 DEF BatchOK
  <2> QED BY <1>4, <1>5, <2>1, <2>9, PartsPrime
<1>7. CASE ~more
  <2>1. batch' = NoBatch
    BY <1>1, <1>7
  <2>2. BatchOK'
    BY <2>1 DEF BatchOK, BatchFits, BatchProgress, Idle, NoBatch
  <2>3. txn' \in {NoTxn, Committed(txn)}
    BY <1>1, <1>7
  <2>4. TxnOK'
    <3>1. CASE txn' = NoTxn
      BY <2>1, <3>1, DatabaseConstants DEF NoTxn, TxnOK, TxnShape, Idle
    <3>2. CASE txn' = Committed(txn)
      BY <2>1, <3>2, Parts, TxnFunctions DEF TxnOK, TxnShape, Idle
    <3> QED BY <2>3, <3>1, <3>2
  <2> QED BY <1>4, <1>5, <2>2, <2>4, PartsPrime
<1> QED BY <1>6, <1>7

\* Changing the list of indexes keeps the invariant.
LEMMA IndexInv ==
    ASSUME IInv, Idle, NEW op \in Ops, NEW i \in DOMAIN tables, NEW new, new \subseteq Nat,
           SetIndexes(op, i, new)
    PROVE  IInv'
<1> DEFINE u == [tables[i] EXCEPT !.indexes = new]
<1>1. TableInv(tables[i])
  BY Parts DEF TablesOK
<1>2. /\ u.records = tables[i].records /\ u.record_count = tables[i].record_count
      /\ u.nodes = tables[i].nodes /\ u.schema = tables[i].schema
      /\ u.name = tables[i].name /\ u.indexes = new /\ DOMAIN u = DOMAIN tables[i]
  BY <1>1 DEF TableInv, TableOK
<1>3. tables' = [tables EXCEPT ![i] = u]
  BY DEF SetIndexes
<1> HIDE DEF u
<1>4. TableInv(u)
  BY <1>1, <1>2 DEF TableInv, TableOK, UniqueIds, CountedExactly
<1>5. TablesOK'
  BY <1>3, <1>4, Parts, ReplaceTable
<1>6. TxnOK' /\ BatchOK' /\ RestOK'
  BY Parts, IdleBatch DEF SetIndexes, TxnOK, TxnShape, Idle, RestOK, Return, Codes
<1> QED BY <1>5, <1>6, PartsPrime

\* db_create_index keeps the invariant.
LEMMA CreateIndexInv ==
    ASSUME IInv, NEW name \in Names, NEW f \in FieldArgs, db_create_index(name, f)
    PROVE  IInv'
<1> DEFINE i == db_get_table(name)
<1>1. CASE \E code \in Codes : Refuse("create_index", code)
  BY <1>1, RefuseInv DEF Ops
<1>2. CASE Idle /\ i # 0 /\ SetIndexes("create_index", i, tables[i].indexes \cup {f})
  <2>0. i \in DOMAIN tables
    BY <1>2, GetTable, Parts
  <2> HIDE DEF i
  <2>1. TableInv(tables[i])
    BY <2>0, Parts DEF TablesOK
  <2>2. tables[i].indexes \subseteq Nat
    BY <2>1 DEF TableInv, TableOK
  <2>3. f \in Nat
    BY DatabaseConstants DEF FieldArgs
  <2>4. tables[i].indexes \cup {f} \subseteq Nat
    BY <2>2, <2>3
  <2> QED BY <1>2, <2>0, <2>4, IndexInv DEF Ops
<1> QED BY <1>1, <1>2 DEF db_create_index, OnTable, CreateIndexOn, Codes

\* db_drop_index keeps the invariant.
LEMMA DropIndexInv ==
    ASSUME IInv, NEW name \in Names, NEW f \in FieldArgs, db_drop_index(name, f)
    PROVE  IInv'
<1> DEFINE i == db_get_table(name)
<1>1. CASE \E code \in Codes : Refuse("drop_index", code)
  BY <1>1, RefuseInv DEF Ops
<1>2. CASE Idle /\ i # 0 /\ SetIndexes("drop_index", i, tables[i].indexes \ {f})
  <2>0. i \in DOMAIN tables
    BY <1>2, GetTable, Parts
  <2> HIDE DEF i
  <2>1. TableInv(tables[i])
    BY <2>0, Parts DEF TablesOK
  <2>2. tables[i].indexes \ {f} \subseteq Nat
    BY <2>1 DEF TableInv, TableOK
  <2> QED BY <1>2, <2>0, <2>2, IndexInv DEF Ops
<1> QED BY <1>1, <1>2 DEF db_drop_index, OnTable, DropIndexOn, Codes

\* begin, commit and rollback change the transaction only
LEMMA TransactionInv ==
    ASSUME IInv, db_begin_transaction \/ db_commit_transaction \/ db_rollback_transaction
    PROVE  IInv'
<1>1. CASE \E op \in Ops, code \in Codes : Refuse(op, code)
  BY <1>1, RefuseInv
<1>2. CASE /\ Idle
           /\ \/ CanBegin(txn) /\ txn' = Begun(txn)
              \/ txn' \in {Committed(txn), NoTxn}
           /\ \E op \in Ops : Return(op, "SUCCESS")
           /\ UNCHANGED <<tables, global_counter, batch>>
  <2>1. TablesOK' /\ BatchOK' /\ RestOK'
    BY <1>2, Parts, IdleBatch DEF TablesOK, RestOK, Return, Codes
  <2>2. txn \in [active : BOOLEAN, level : Nat] /\ (txn.active <=> txn.level > 0)
        /\ txn.level <= MAX_TRANSACTION_LEVEL
    BY Parts DEF TxnOK, TxnShape
  <2>3. /\ txn' \in [active : BOOLEAN, level : Nat] /\ (txn'.active <=> txn'.level > 0)
        /\ txn'.level <= MAX_TRANSACTION_LEVEL
    <3>1. CASE CanBegin(txn) /\ txn' = Begun(txn)
      BY <2>2, <3>1, TxnFunctions
    <3>2. CASE txn' = Committed(txn)
      BY <2>2, <3>2, TxnFunctions
    <3>3. CASE txn' = NoTxn
      BY <3>3, DatabaseConstants DEF NoTxn
    <3> QED BY <1>2, <3>1, <3>2, <3>3
  <2>4. TxnOK'
    BY <1>2, <2>3 DEF TxnOK, TxnShape, Idle
  <2> QED BY <2>1, <2>4, PartsPrime
<1> QED BY <1>1, <1>2
      DEF db_begin_transaction, db_commit_transaction, db_rollback_transaction,
          EndTransaction, RolledBack, Codes, Ops

\* The database db_create returns satisfies the invariant.
LEMMA InitInv == Init => IInv
<1> SUFFICES ASSUME Init PROVE IInv
  OBVIOUS
<1>1. TablesOK
  BY DEF Init, TablesOK
<1>2. TxnOK
  BY DatabaseConstants DEF Init, TxnOK, TxnShape, NoTxn, Idle
<1>3. BatchOK
  BY DEF Init, BatchOK, BatchFits, BatchProgress, Idle, NoBatch
<1>4. RestOK
  BY TableConstants DEF Init, RestOK, CInt, Ops, Codes
<1> QED BY <1>1, <1>2, <1>3, <1>4, Parts

\* Every call, and every turn of a batch, keeps the invariant.
LEMMA StepInv == IInv /\ [Next]_vars => IInv'
<1> SUFFICES ASSUME IInv, [Next]_vars PROVE IInv'
  OBVIOUS
<1>1. ASSUME NEW name \in Names, SchemaCalls(name) PROVE IInv'
  BY <1>1, AddTableInv, CreateIndexInv, DropIndexInv DEF SchemaCalls
<1>2. ASSUME NEW name \in Names, RecordCalls(name) PROVE IInv'
  BY <1>2, InsertRecordInv, UpdateRecordInv, DeleteRecordInv, DeleteByFieldInv,
     StartBatchInv DEF RecordCalls
<1>3. CASE UNCHANGED vars
  <2>1. TablesOK' /\ TxnOK' /\ BatchOK' /\ RestOK'
    BY <1>3, Parts DEF vars, TablesOK, TxnOK, TxnShape, BatchOK, BatchFits, BatchProgress, RestOK, Idle
  <2> QED BY <2>1, PartsPrime
<1> QED BY <1>1, <1>2, <1>3, BatchInsertInv, TransactionInv DEF Next

\* In every reachable state of the engine, for every capacity, nesting limit,
\* integer width and set of callers' inputs: the types hold, ids are unique in
\* every table, record_count is exact and within MAX_RECORDS_PER_TABLE, the
\* transaction flag and level agree, and a batch under way still fits and has
\* done nothing but insert its first rows.
THEOREM EngineInvariant == Spec => []IInv
<1>1. Spec => []IInv
  BY InitInv, StepInv, PTL DEF Spec
<1> QED BY <1>1

\* The state of src/database.c keeps its types.
THEOREM TypeCorrect == Spec => []TypeOK
<1>1. IInv => TypeOK
  BY DEF IInv
<1> QED BY <1>1, EngineInvariant, PTL

\* No table ever holds two records with the same id.
THEOREM RecordIdsUnique == Spec => []IdsUnique
<1>1. IInv => IdsUnique
  BY DEF IInv
<1> QED BY <1>1, EngineInvariant, PTL

\* record_count is the length of the record list and within the capacity.
THEOREM RecordCountExact == Spec => []CountExact
<1>1. IInv => CountExact
  BY DEF IInv
<1> QED BY <1>1, EngineInvariant, PTL

\* Transactions nest within MAX_TRANSACTION_LEVEL, and batches run inside one.
THEOREM TransactionsWellFormed == Spec => []TxnShape
<1>1. IInv => TxnShape
  BY DEF IInv
<1> QED BY <1>1, EngineInvariant, PTL

\* The capacity check before the batch loop is enough for the whole batch.
THEOREM BatchCapacityReserved == Spec => []BatchFits
<1>1. IInv => BatchFits
  BY DEF IInv
<1> QED BY <1>1, EngineInvariant, PTL

\* A generated id is free in its table unless the table holds INT_MAX.
THEOREM GeneratedIdsFresh == Spec => []AutoIdFresh
<1>1. IInv => AutoIdFresh
  BY GenerateFresh, Parts DEF AutoIdFresh, TablesOK, RestOK, TableInv
<1> QED BY <1>1, EngineInvariant, PTL

-----------------------------------------------------------------------------
(***************************************************************************)
(* The action properties: what a single call of the engine may never do to *)
(* the tables, the records and the transaction.  StepEffect lists          *)
(* everything a step can do to db->tables; the properties about records    *)
(* follow from it and from the inductive invariant.                        *)
(***************************************************************************)

\* A table value is a record, nothing else with the same fields
IsTable(t) == t = [k \in DOMAIN t |-> t[k]]

\* Records that stay in the list are not touched
Kept(t, u) ==
    /\ IsTable(u)
    /\ u.name = t.name
    /\ \A n \in DOMAIN t.records : n \in DOMAIN u.records => u.records[n] = t.records[n]

\* What table_update_record may do to a record when it returns code
Changed(schema, old, new, code) ==
    /\ new.id = old.id
    /\ \/ code = "SUCCESS" /\ new.version = old.version + 1
       \/ /\ code = "ERROR_DUPLICATE_KEY"
          /\ new.version = old.version
          /\ DiffersBeforeKey(schema, old.fields, new.fields)

\* ... and to a table
Edited(t, u, code) ==
    /\ IsTable(u)
    /\ u.name = t.name
    /\ DOMAIN u.records = DOMAIN t.records
    /\ \A n \in DOMAIN t.records :
         \/ u.records[n] = t.records[n]
         \/ Changed(t.schema, t.records[n], u.records[n], code)
    /\ \/ code = "SUCCESS"
       \/ u = t
       \/ \E n \in DOMAIN t.records :
             /\ u = [t EXCEPT !.records[n].fields = u.records[n].fields]
             /\ DiffersBeforeKey(t.schema, t.records[n].fields, u.records[n].fields)

Replaced(i, u) == tables' = [tables EXCEPT ![i] = u]

AddedOne ==
    \E name \in Names, schema \in Schemas :
        /\ Named(name) = {}
        /\ tables' = Append(tables, NewTable(Truncated[name], schema))
        /\ ret'.code = "SUCCESS"

KeptOne ==
    \E i \in DOMAIN tables : \E u :
        /\ Replaced(i, u)
        /\ Kept(tables[i], u)
        /\ ret'.code \in {"SUCCESS", "PENDING"} \/ u = tables[i]

EditedOne ==
    \E i \in DOMAIN tables : \E u :
        /\ Replaced(i, u)
        /\ Edited(tables[i], u, ret'.code)
        /\ ret'.op = "update"

StepEffect == tables' = tables \/ AddedOne \/ KeptOne \/ EditedOne

-----------------------------------------------------------------------------
(***************************************************************************)
(* One table                                                               *)
(***************************************************************************)
\* table_insert_record touches no record that was there, and nothing at all
\* when it fails.
LEMMA InsertKeeps ==
    ASSUME NEW t, TableOK(t), IsTable(t), NEW row, NEW counter,
           NEW r, r = table_insert_record(t, row, counter)
    PROVE  Kept(t, r.table) /\ (r.code = "SUCCESS" \/ r.table = t)
<1>1. CASE r.table = t
  BY <1>1 DEF Kept
<1>2. CASE \E id : r.table = AddRecord(t, id, row) /\ r.code = "SUCCESS"
  <2>1. PICK id : r.table = AddRecord(t, id, row) /\ r.code = "SUCCESS"
    BY <1>2
  <2> DEFINE rec == [id |-> id, version |-> 1,
                     fields |-> [i \in DOMAIN t.schema |->
                                   [type |-> t.schema[i].type, value |-> row[i].value]]]
             node == t.nodes + 1
             list == [n \in DOMAIN t.records \cup {node} |->
                         IF n = node THEN rec ELSE t.records[n]]
  <2>2. r.table = [t EXCEPT !.records = list, !.nodes = node, !.record_count = @ + 1]
    BY <2>1 DEF AddRecord
  <2> HIDE DEF rec
  <2>3. node \notin DOMAIN t.records
    BY DEF TableOK
  <2>4. \A n \in DOMAIN t.records : list[n] = t.records[n]
    BY <2>3
  <2> HIDE DEF list, node
  <2>5. r.table.records = list /\ r.table.name = t.name
    BY <2>2 DEF TableOK
  <2>6. IsTable(r.table)
    BY <2>2 DEF IsTable
  <2> QED BY <2>1, <2>4, <2>5, <2>6 DEF Kept
<1> QED BY <1>1, <1>2 DEF table_insert_record, InsertWithId, Rejected

\* Unlinking records leaves the others alone.
LEMMA UnlinkKeeps ==
    ASSUME NEW t, TableOK(t), IsTable(t), NEW gone, NEW c, NEW u,
           u = [t EXCEPT !.records = Without(t.records, gone), !.record_count = c]
    PROVE  Kept(t, u)
<1>1. u.records = Without(t.records, gone) /\ u.name = t.name
  BY DEF TableOK
<1>2. IsTable(u)
  BY DEF IsTable
<1> QED BY <1>1, <1>2 DEF Kept, Without

\* table_delete_record touches no record that stays, and nothing at all when
\* it fails.
LEMMA DeleteKeeps ==
    ASSUME NEW t, TableOK(t), IsTable(t), NEW id, NEW r, r = table_delete_record(t, id)
    PROVE  Kept(t, r.table) /\ (r.code = "SUCCESS" \/ r.table = t)
<1>1. CASE r.table = t
  BY <1>1 DEF Kept
<1>2. CASE \E n : r.table = UnlinkNode(t, n) /\ r.code = "SUCCESS"
  BY <1>2, UnlinkKeeps DEF UnlinkNode
<1> QED BY <1>1, <1>2 DEF table_delete_record

\* The loop of db_delete_records_by_field touches no record that stays.
LEMMA UnlinkMatchingKeeps ==
    ASSUME NEW t, TableOK(t), IsTable(t), NEW f, NEW value
    PROVE  Kept(t, UnlinkMatching(t, f, value))
BY UnlinkKeeps DEF UnlinkMatching

\* table_update_record changes one record: never its id, its version exactly
\* when it succeeds, and at most the fields before a key that is refused.
LEMMA UpdateEdits ==
    ASSUME NEW t, TableOK(t), IsTable(t), NEW id, NEW row, NEW r, r = table_update_record(t, id, row)
    PROVE  Edited(t, r.table, r.code)
<1>1. CASE ~table_find_record(t, id)
  BY <1>1 DEF table_update_record, Edited
<1>2. CASE table_find_record(t, id)
  <2> DEFINE n == CHOOSE x \in NodesWithId(t, id) : TRUE
             all == Overwritten(t, t.records[n].id, row, Len(t.schema))
             fields == UpdatedFields(t, n, row)
             rec == [id |-> t.records[n].id, fields |-> fields,
                     version |-> t.records[n].version + (IF all THEN 1 ELSE 0)]
             list == [t.records EXCEPT ![n] = rec]
             u == [t EXCEPT !.records = list]
  <2>1. n \in DOMAIN t.records
    BY <1>2 DEF table_find_record, NodesWithId
  <2>2. r.table = u /\ r.code = IF all THEN "SUCCESS" ELSE "ERROR_DUPLICATE_KEY"
    BY <1>2 DEF table_update_record, UpdateNode
  <2>3. t.records[n] \in Record /\ Len(t.records[n].fields) = Len(t.schema)
    BY <2>1 DEF TableOK
  <2> HIDE DEF n
  <2> DEFINE old == t.records[n]
  <2>4. /\ t.schema \in Seq(FieldDef) /\ Len(t.schema) \in Nat /\ DOMAIN t.schema = 1 .. Len(t.schema)
        /\ old.fields \in Seq(Field) /\ DOMAIN old.fields = DOMAIN t.schema
        /\ old = [id |-> old.id, fields |-> old.fields, version |-> old.version]
        /\ old.version \in Nat
    <3>1. t.schema \in Seq(FieldDef)
      BY DatabaseConstants DEF TableOK
    <3>2. old.fields \in Seq(Field) /\ old.version \in Nat
          /\ old = [id |-> old.id, fields |-> old.fields, version |-> old.version]
      BY <2>3 DEF Record
    <3> QED BY <2>3, <3>1, <3>2
  <2>5. /\ DOMAIN fields = DOMAIN t.schema
        /\ \A j \in DOMAIN t.schema : ~Overwritten(t, old.id, row, j) => fields[j] = old.fields[j]
        /\ fields = [j \in DOMAIN t.schema |-> fields[j]]
    BY DEF UpdatedFields
  <2> HIDE DEF fields
  <2>6. ASSUME ~all PROVE fields = old.fields \/ DiffersBeforeKey(t.schema, old.fields, fields)
    <3>1. PICK k \in 1 .. Len(t.schema) : KeyConflict(t, old.id, row, k)
      BY <2>6 DEF Overwritten
    <3>2. t.schema[k].primary_key
      BY <3>1 DEF KeyConflict
    <3>3. \A j \in k .. Len(t.schema) : ~Overwritten(t, old.id, row, j)
      BY <2>4, <3>1 DEF Overwritten
    <3>4. \A j \in k .. Len(t.schema) : fields[j] = old.fields[j]
      <4>1. k .. Len(t.schema) \subseteq DOMAIN t.schema
        BY <2>4
      <4> HIDE DEF old
      <4> QED BY <2>5, <3>3, <4>1
    <3>5. CASE k = 1
      <4>1. \A j \in DOMAIN t.schema : fields[j] = old.fields[j]
        BY <2>4, <3>4, <3>5
      <4>2. old.fields = [j \in DOMAIN t.schema |-> old.fields[j]]
        BY <2>4
      <4> HIDE DEF old
      <4> QED BY <2>5, <4>1, <4>2
    <3>6. CASE k # 1
      <4>1. k \in 2 .. Len(t.schema)
        BY <2>4, <3>6
      <4> QED BY <3>2, <3>4, <4>1 DEF DiffersBeforeKey
    <3> QED BY <3>5, <3>6
  <2>7. /\ rec.id = old.id /\ rec.fields = fields
        /\ all => rec.version = old.version + 1
        /\ ~all => rec.version = old.version
        /\ rec = [id |-> old.id, fields |-> fields, version |-> rec.version]
    <3> HIDE DEF all
    <3> QED BY <2>4
  <2> HIDE DEF rec, all
  <2>8. u.records = list /\ u.name = t.name /\ IsTable(u)
    BY DEF TableOK, IsTable
  <2>9. /\ DOMAIN list = DOMAIN t.records /\ list[n] = rec
        /\ \A m \in DOMAIN t.records : m # n => list[m] = t.records[m]
    BY <2>1
  <2>10. rec = old \/ Changed(t.schema, old, rec, r.code)
    <3>1. CASE all
      BY <2>2, <2>7, <3>1 DEF Changed
    <3>2. CASE ~all
      BY <2>2, <2>4, <2>6, <2>7, <3>2 DEF Changed
    <3> QED BY <3>1, <3>2
  <2>11. \A m \in DOMAIN t.records :
            list[m] = t.records[m] \/ Changed(t.schema, t.records[m], list[m], r.code)
    BY <2>9, <2>10
  <2>12. ASSUME ~all PROVE u = t \/ /\ u = [t EXCEPT !.records[n].fields = fields]
                                    /\ DiffersBeforeKey(t.schema, old.fields, fields)
    <3>1. rec = [old EXCEPT !.fields = fields]
      BY <2>4, <2>7, <2>12
    <3>2. u = [t EXCEPT !.records[n].fields = fields]
      BY <3>1
    <3>3. CASE fields = old.fields
      <4>1. rec = old
        BY <2>4, <2>7, <2>12, <3>3
      <4>2. list = t.records
        BY <2>1, <4>1 DEF TableOK
      <4>3. t = [t EXCEPT !.records = t.records]
        BY Zenon DEF IsTable
      <4> HIDE DEF list
      <4> QED BY <4>2, <4>3
    <3> QED BY <2>6, <2>12, <3>2, <3>3
  <2>13. list[n].fields = fields
    BY <2>7, <2>9
  <2> HIDE DEF list, u, old
  <2>14. \/ r.code = "SUCCESS"
         \/ u = t
         \/ \E m \in DOMAIN t.records :
               /\ u = [t EXCEPT !.records[m].fields = u.records[m].fields]
               /\ DiffersBeforeKey(t.schema, t.records[m].fields, u.records[m].fields)
    <3>1. CASE all
      BY <2>2, <3>1
    <3>2. CASE ~all
      BY <2>1, <2>8, <2>12, <2>13, <3>2 DEF old
    <3> QED BY <3>1, <3>2
  <2> QED BY <2>2, <2>8, <2>9, <2>11, <2>14 DEF Edited
<1> QED BY <1>1, <1>2

-----------------------------------------------------------------------------
(***************************************************************************)
(* One lemma per call                                                      *)
(***************************************************************************)
AllTables == \A i \in DOMAIN tables : IsTable(tables[i])

\* A table of db->tables, as the lemmas above want it.
LEMMA TableAt ==
    ASSUME IInv, AllTables, NEW i \in DOMAIN tables
    PROVE  TableOK(tables[i]) /\ IsTable(tables[i])
BY Parts DEF TablesOK, TableInv, AllTables

\* An early return leaves the tables alone.
LEMMA RefuseEffect ==
    ASSUME NEW op, NEW code, Refuse(op, code)
    PROVE  StepEffect
BY DEF Refuse, StepEffect

\* db_add_table appends a table under a name no table has.
LEMMA AddTableEffect ==
    ASSUME IInv, AllTables, NEW name \in Names, NEW schema \in Schemas,
           db_add_table(name, schema)
    PROVE  StepEffect
<1>1. CASE \E code : Refuse("add_table", code)
  BY <1>1, RefuseEffect
<1>2. CASE /\ Named(name) = {}
           /\ tables' = Append(tables, NewTable(Truncated[name], schema))
           /\ Return("add_table", "SUCCESS")
  BY <1>2 DEF StepEffect, AddedOne, Return
<1> QED BY <1>1, <1>2 DEF db_add_table

\* db_insert_record leaves the records of its table alone.
LEMMA InsertRecordEffect ==
    ASSUME IInv, AllTables, NEW name \in Names, NEW row \in Rows, db_insert_record(name, row)
    PROVE  StepEffect
<1> DEFINE i == db_get_table(name)
           r == table_insert_record(tables[i], row, global_counter)
<1>1. CASE i = 0
  BY <1>1, RefuseEffect DEF db_insert_record, OnTable
<1>2. CASE i # 0
  <2>1. i \in DOMAIN tables
    BY <1>2, GetTable, Parts
  <2>2. Finish("insert", i, r)
    BY <1>2 DEF db_insert_record, OnTable, InsertInto
  <2> HIDE DEF i
  <2>3. Kept(tables[i], r.table) /\ (r.code = "SUCCESS" \/ r.table = tables[i])
    BY <2>1, TableAt, InsertKeeps
  <2> HIDE DEF r
  <2>4. Replaced(i, r.table) /\ ret'.code = r.code
    BY <2>2 DEF Finish, Return, Replaced
  <2> QED BY <2>1, <2>3, <2>4 DEF StepEffect, KeptOne
<1> QED BY <1>1, <1>2

\* db_update_record edits one record, within what Edited allows.
LEMMA UpdateRecordEffect ==
    ASSUME IInv, AllTables, NEW name \in Names, NEW id, NEW row \in Rows,
           db_update_record(name, id, row)
    PROVE  StepEffect
<1> DEFINE i == db_get_table(name)
           r == table_update_record(tables[i], id, row)
<1>1. CASE i = 0
  BY <1>1, RefuseEffect DEF db_update_record, OnTable
<1>2. CASE i # 0
  <2>1. i \in DOMAIN tables
    BY <1>2, GetTable, Parts
  <2>2. Finish("update", i, r)
    BY <1>2 DEF db_update_record, OnTable, UpdateIn
  <2> HIDE DEF i
  <2>3. Edited(tables[i], r.table, r.code)
    BY <2>1, TableAt, UpdateEdits
  <2> HIDE DEF r
  <2>4. Replaced(i, r.table) /\ ret'.code = r.code /\ ret'.op = "update"
    BY <2>2 DEF Finish, Return, Replaced
  <2> QED BY <2>1, <2>3, <2>4 DEF StepEffect, EditedOne
<1> QED BY <1>1, <1>2

\* db_delete_record leaves the records that stay alone.
LEMMA DeleteRecordEffect ==
    ASSUME IInv, AllTables, NEW name \in Names, NEW id, db_delete_record(name, id)
    PROVE  StepEffect
<1> DEFINE i == db_get_table(name)
           r == table_delete_record(tables[i], id)
<1>1. CASE i = 0
  BY <1>1, RefuseEffect DEF db_delete_record, OnTable
<1>2. CASE i # 0
  <2>1. i \in DOMAIN tables
    BY <1>2, GetTable, Parts
  <2>2. Finish("delete", i, r)
    BY <1>2 DEF db_delete_record, OnTable, DeleteFrom
  <2> HIDE DEF i
  <2>3. Kept(tables[i], r.table) /\ (r.code = "SUCCESS" \/ r.table = tables[i])
    BY <2>1, TableAt, DeleteKeeps
  <2> HIDE DEF r
  <2>4. Replaced(i, r.table) /\ ret'.code = r.code
    BY <2>2 DEF Finish, Return, Replaced
  <2> QED BY <2>1, <2>3, <2>4 DEF StepEffect, KeptOne
<1> QED BY <1>1, <1>2

\* db_delete_records_by_field leaves the records that stay alone.
LEMMA DeleteByFieldEffect ==
    ASSUME IInv, AllTables, NEW name \in Names, NEW f, NEW value,
           db_delete_records_by_field(name, f, value)
    PROVE  StepEffect
<1> DEFINE i == db_get_table(name)
           u == UnlinkMatching(tables[i], f, value)
<1>1. CASE \E code : Refuse("delete_by_field", code)
  BY <1>1, RefuseEffect
<1>2. CASE /\ i # 0
           /\ tables' = [tables EXCEPT ![i] = u]
           /\ Return("delete_by_field", "SUCCESS")
  <2>1. i \in DOMAIN tables
    BY <1>2, GetTable, Parts
  <2>2. Kept(tables[i], u)
    BY <2>1, TableAt, UnlinkMatchingKeeps
  <2> HIDE DEF i, u
  <2>3. Replaced(i, u) /\ ret'.code = "SUCCESS"
    BY <1>2 DEF Replaced, Return
  <2> QED BY <2>1, <2>2, <2>3 DEF StepEffect, KeptOne
<1> QED BY <1>1, <1>2 DEF db_delete_records_by_field, OnTable, DeleteMatching

\* A turn of the batch loop leaves the records of its table alone.
LEMMA BatchInsertEffect ==
    ASSUME IInv, AllTables, BatchInsert
    PROVE  StepEffect
<1> DEFINE i == batch.table
           r == table_insert_record(tables[i], Head(batch.todo), global_counter)
<1>1. i \in DOMAIN tables
  BY Parts DEF BatchOK, BatchInsert
<1>2. /\ tables' = [tables EXCEPT ![i] = r.table]
      /\ ret'.code = "PENDING" \/ ret'.code = r.code
  BY DEF BatchInsert, Return
<1> HIDE DEF i
<1>3. Kept(tables[i], r.table) /\ (r.code = "SUCCESS" \/ r.table = tables[i])
  BY <1>1, TableAt, InsertKeeps
<1> HIDE DEF r
<1> QED BY <1>1, <1>2, <1>3 DEF StepEffect, KeptOne, Replaced

\* Creating and dropping an index leave every record alone.
LEMMA IndexEffect ==
    ASSUME IInv, AllTables, NEW op, NEW i \in DOMAIN tables, NEW new, SetIndexes(op, i, new)
    PROVE  StepEffect
<1> DEFINE u == [tables[i] EXCEPT !.indexes = new]
<1>1. tables' = [tables EXCEPT ![i] = u] /\ ret'.code = "SUCCESS"
  BY DEF SetIndexes, Return
<1>2. u.records = tables[i].records /\ u.name = tables[i].name
  BY TableAt DEF TableOK
<1>3. IsTable(u)
  BY DEF IsTable
<1> HIDE DEF u
<1>4. Kept(tables[i], u)
  BY <1>2, <1>3 DEF Kept
<1> QED BY <1>1, <1>4 DEF StepEffect, KeptOne, Replaced

\* Every step does one of the things StepEffect lists.
LEMMA Effects ==
    ASSUME IInv, AllTables, [Next]_vars
    PROVE  StepEffect
<1>1. ASSUME NEW name \in Names, SchemaCalls(name) PROVE StepEffect
  <2> DEFINE i == db_get_table(name)
  <2>1. CASE \E schema \in Schemas : db_add_table(name, schema)
    BY <2>1, AddTableEffect
  <2>2. CASE \E op, code : Refuse(op, code)
    BY <2>2, RefuseEffect
  <2>3. CASE i # 0 /\ \E op, new : SetIndexes(op, i, new)
    BY <2>3, GetTable, Parts, IndexEffect
  <2>4. ASSUME NEW f, db_create_index(name, f) \/ db_drop_index(name, f) PROVE StepEffect
    BY <2>2, <2>3, <2>4 DEF db_create_index, db_drop_index, OnTable, CreateIndexOn, DropIndexOn
  <2> QED BY <1>1, <2>1, <2>4 DEF SchemaCalls
<1>2. ASSUME NEW name \in Names, NEW rows, db_batch_insert_records(name, rows) PROVE StepEffect
  BY <1>2, RefuseEffect DEF db_batch_insert_records, OnTable, StartBatch, StepEffect
<1>3. ASSUME NEW name \in Names, RecordCalls(name) PROVE StepEffect
  BY <1>2, <1>3, InsertRecordEffect, UpdateRecordEffect, DeleteRecordEffect,
     DeleteByFieldEffect DEF RecordCalls
<1>4. CASE db_begin_transaction \/ db_commit_transaction \/ db_rollback_transaction
  BY <1>4 DEF db_begin_transaction, db_commit_transaction, db_rollback_transaction,
     EndTransaction, Refuse, StepEffect
<1>5. CASE UNCHANGED vars
  BY <1>5 DEF vars, StepEffect
<1> QED BY <1>1, <1>3, <1>4, <1>5, BatchInsertEffect DEF Next

-----------------------------------------------------------------------------
(***************************************************************************)
(* The properties                                                          *)
(***************************************************************************)
\* Where the tables of db->tables are after a step: Replaced keeps the others,
\* AddedOne keeps all.
LEMMA Positions ==
    ASSUME TablesOK
    PROVE  /\ \A i \in DOMAIN tables : \A u : Replaced(i, u) =>
                 /\ DOMAIN tables' = DOMAIN tables
                 /\ tables'[i] = u
                 /\ \A j \in DOMAIN tables : j # i => tables'[j] = tables[j]
           /\ \A t : tables' = Append(tables, t) =>
                 /\ DOMAIN tables' = DOMAIN tables \cup {Len(tables) + 1}
                 /\ tables'[Len(tables) + 1] = t
                 /\ \A j \in DOMAIN tables : tables'[j] = tables[j]
                 /\ Len(tables) + 1 \notin DOMAIN tables
<1> DEFINE S == {tables[j] : j \in DOMAIN tables}
<1>1. tables \in Seq(S)
  BY DEF TablesOK
<1>2. DOMAIN tables = 1 .. Len(tables) /\ Len(tables) \in Nat
  BY <1>1
<1> HIDE DEF S
<1>3. ASSUME NEW i \in DOMAIN tables, NEW u, Replaced(i, u)
      PROVE  /\ DOMAIN tables' = DOMAIN tables
             /\ tables'[i] = u
             /\ \A j \in DOMAIN tables : j # i => tables'[j] = tables[j]
  BY <1>1, <1>3 DEF Replaced
<1>4. ASSUME NEW t, tables' = Append(tables, t)
      PROVE  /\ DOMAIN tables' = DOMAIN tables \cup {Len(tables) + 1}
             /\ tables'[Len(tables) + 1] = t
             /\ \A j \in DOMAIN tables : tables'[j] = tables[j]
             /\ Len(tables) + 1 \notin DOMAIN tables
  <2>1. /\ DOMAIN tables' = 1 .. Len(tables) + 1
        /\ \A j \in 1 .. Len(tables) : tables'[j] = tables[j]
        /\ tables'[Len(tables) + 1] = t
    BY <1>1, <1>2, <1>4
  <2> QED BY <1>2, <2>1
<1> QED BY <1>3, <1>4

\* Table values stay records.
LEMMA AllTablesInv ==
    ASSUME IInv, AllTables, [Next]_vars
    PROVE  AllTables'
<1>1. CASE tables' = tables
  BY <1>1 DEF AllTables
<1>2. CASE AddedOne
  <2>1. \A name, schema : IsTable(NewTable(Truncated[name], schema))
    BY DEF IsTable, NewTable
  <2>2. PICK name \in Names, schema \in Schemas :
            tables' = Append(tables, NewTable(Truncated[name], schema))
    BY <1>2 DEF AddedOne
  <2>3. IsTable(NewTable(Truncated[name], schema))
    BY <2>1
  <2> QED BY <2>2, <2>3, Positions, Parts DEF AllTables
<1>3. CASE KeptOne
  BY <1>3, Positions, Parts DEF KeptOne, Kept, AllTables
<1>4. CASE EditedOne
  BY <1>4, Positions, Parts DEF EditedOne, Edited, AllTables
<1> QED BY <1>1, <1>2, <1>3, <1>4, Effects DEF StepEffect

\* The inductive invariant, with what the properties about steps need.
LEMMA StepInvariant == Spec => [](IInv /\ AllTables)
<1>1. Init => IInv /\ AllTables
  BY InitInv DEF Init, AllTables
<1>2. IInv /\ AllTables /\ [Next]_vars => IInv' /\ AllTables'
  BY StepInv, AllTablesInv
<1> QED BY <1>1, <1>2, PTL DEF Spec

\* Whatever the schema, the rows and the state of the tables, a call that
\* fails leaves the tables as the call found them, except for the rows a batch
\* inserted before the one refused, in order and nothing else, and the fields
\* an update overwrote before the primary key refused.
THEOREM FailedCallsHarmless == Spec => FailedCallHarmless
<1> DEFINE A == ret'.code \notin {"SUCCESS", "PENDING"} =>
                  tables' = Found.tables \/ KeepsEarlierRows \/ KeepsEarlierFields
<1>1. ASSUME IInv, AllTables, [Next]_vars PROVE A
  <2>0. SUFFICES ASSUME ret'.code \notin {"SUCCESS", "PENDING"}
                 PROVE  tables' = Found.tables \/ KeepsEarlierRows \/ KeepsEarlierFields
    OBVIOUS
  <2>1. ASSUME NEW i \in DOMAIN tables, Replaced(i, tables[i]) PROVE tables' = tables
    <3>1. tables \in Seq({tables[j] : j \in DOMAIN tables})
      BY <1>1, Parts DEF TablesOK
    <3> QED BY <2>1, <3>1 DEF Replaced
  <2>2. ASSUME tables' = tables PROVE tables' = Found.tables \/ KeepsEarlierRows
    <3>1. CASE Idle
      BY <2>2, <3>1 DEF Found
    <3>2. CASE ~Idle
      BY <1>1, <2>2, <3>2 DEF IInv, BatchProgress, Found, KeepsEarlierRows
    <3> QED BY <3>1, <3>2
  <2>3. ASSUME ret'.op = "update", NEW i \in DOMAIN tables, NEW u, Replaced(i, u),
               NEW n \in DOMAIN tables[i].records,
               u = [tables[i] EXCEPT !.records[n].fields = u.records[n].fields],
               DiffersBeforeKey(tables[i].schema, tables[i].records[n].fields, u.records[n].fields)
        PROVE  KeepsEarlierFields
    <3>1. tables'[i] = u
      BY <1>1, <2>3, Positions, Parts
    <3>2. tables' = [tables EXCEPT ![i].records[n].fields = u.records[n].fields]
      BY <2>3 DEF Replaced
    <3> QED BY <2>3, <3>1, <3>2 DEF KeepsEarlierFields
  <2>4. CASE AddedOne
    BY <2>0, <2>4 DEF AddedOne
  <2>5. CASE KeptOne
    BY <2>0, <2>1, <2>2, <2>5 DEF KeptOne
  <2>6. CASE EditedOne
    <3>1. PICK i \in DOMAIN tables : \E u : /\ Replaced(i, u)
                                           /\ Edited(tables[i], u, ret'.code)
                                           /\ ret'.op = "update"
      BY <2>6 DEF EditedOne
    <3>2. PICK u : Replaced(i, u) /\ Edited(tables[i], u, ret'.code) /\ ret'.op = "update"
      BY <3>1
    <3>3. \/ u = tables[i]
          \/ \E n \in DOMAIN tables[i].records :
                /\ u = [tables[i] EXCEPT !.records[n].fields = u.records[n].fields]
                /\ DiffersBeforeKey(tables[i].schema, tables[i].records[n].fields,
                                    u.records[n].fields)
      BY <2>0, <3>2 DEF Edited
    <3> QED BY <2>1, <2>2, <2>3, <3>2, <3>3
  <2> QED BY <1>1, <2>2, <2>4, <2>5, <2>6, Effects DEF StepEffect
<1> HIDE DEF A
<1>2. IInv /\ AllTables /\ [Next]_vars => [A]_vars
  BY <1>1
<1>3. Spec => [][A]_vars
  BY <1>2, StepInvariant, PTL DEF Spec
<1> QED BY <1>3 DEF FailedCallHarmless, A

\* A record keeps its id as long as it stays in its table and changes only by
\* db_update_record: in full and with its version when that succeeds, in the
\* fields before the refused primary key and without its version when not.
THEOREM RowHistoryKept == Spec => RowHistory
<1> DEFINE A == \A i \in DOMAIN tables : \A n \in DOMAIN tables[i].records :
                  LET old == tables[i].records[n]
                      new == tables'[i].records[n]
                  IN  (n \in DOMAIN tables'[i].records /\ new # old) =>
                        /\ ret'.op = "update"
                        /\ new.id = old.id
                        /\ \/ ret'.code = "SUCCESS" /\ new.version = old.version + 1
                           \/ /\ ret'.code = "ERROR_DUPLICATE_KEY"
                              /\ new.version = old.version
                              /\ DiffersBeforeKey(tables[i].schema, old.fields, new.fields)
<1>1. ASSUME IInv, AllTables, [Next]_vars PROVE A
  <2>1. SUFFICES ASSUME NEW i \in DOMAIN tables, NEW n \in DOMAIN tables[i].records,
                        n \in DOMAIN tables'[i].records,
                        tables'[i].records[n] # tables[i].records[n]
                 PROVE  /\ ret'.op = "update"
                        /\ Changed(tables[i].schema, tables[i].records[n],
                                   tables'[i].records[n], ret'.code)
    BY DEF Changed
  <2>2. CASE tables' = tables
    BY <2>1, <2>2
  <2>3. CASE AddedOne
    <3>1. tables'[i] = tables[i]
      BY <1>1, <2>3, Positions, Parts DEF AddedOne
    <3> QED BY <2>1, <3>1
  <2>4. CASE KeptOne
    BY <1>1, <2>1, <2>4, Positions, Parts DEF KeptOne, Kept
  <2>5. CASE EditedOne
    <3>1. PICK k \in DOMAIN tables : \E u : Replaced(k, u)
              /\ Edited(tables[k], u, ret'.code) /\ ret'.op = "update"
      BY <2>5 DEF EditedOne
    <3>2. PICK u : Replaced(k, u) /\ Edited(tables[k], u, ret'.code) /\ ret'.op = "update"
      BY <3>1
    <3>3. tables'[k] = u /\ \A j \in DOMAIN tables : j # k => tables'[j] = tables[j]
      BY <1>1, <3>2, Positions, Parts
    <3>4. CASE i # k
      BY <2>1, <3>3, <3>4
    <3>5. CASE i = k
      BY <2>1, <3>2, <3>3, <3>5 DEF Edited
    <3> QED BY <3>4, <3>5
  <2> QED BY <1>1, <2>2, <2>3, <2>4, <2>5, Effects DEF StepEffect
<1> HIDE DEF A
<1>2. IInv /\ AllTables /\ [Next]_vars => [A]_vars
  BY <1>1
<1>3. Spec => [][A]_vars
  BY <1>2, StepInvariant, PTL DEF Spec
<1> QED BY <1>3 DEF RowHistory, A

\* Two tables never share a stored name that was not cut: the duplicate check
\* of db_add_table is enough for the names that fit Table.name, whatever
\* longer names are used beside them.
THEOREM NamesStayDistinct == Spec => []NamesDistinct
<1> DEFINE Long == {Truncated[n] : n \in {m \in Names : Truncated[m] # m}}
<1>0. NamesDistinct <=> \A i, j \in DOMAIN tables :
         i # j /\ tables[i].name = tables[j].name => tables[i].name \in Long
  BY DEF NamesDistinct
<1>1. Init => NamesDistinct
  BY DEF Init, NamesDistinct
<1>2. ASSUME IInv, AllTables, NamesDistinct, [Next]_vars PROVE NamesDistinct'
  <2>0. SUFFICES ASSUME NEW i \in DOMAIN tables', NEW j \in DOMAIN tables', i # j,
                        tables'[i].name = tables'[j].name
                 PROVE  tables'[i].name \in Long
    BY DEF NamesDistinct
  <2>1. CASE tables' = tables
    BY <1>0, <1>2, <2>0, <2>1
  <2>2. CASE AddedOne
    <3>1. PICK name \in Names, schema \in Schemas :
              Named(name) = {} /\ tables' = Append(tables, NewTable(Truncated[name], schema))
      BY <2>2 DEF AddedOne
    <3>2. NewTable(Truncated[name], schema).name = Truncated[name]
      BY DEF NewTable
    <3>3. /\ DOMAIN tables' = DOMAIN tables \cup {Len(tables) + 1}
          /\ tables'[Len(tables) + 1].name = Truncated[name]
          /\ \A k \in DOMAIN tables : tables'[k] = tables[k]
      BY <1>2, <3>1, <3>2, Positions, Parts
    <3>4. \A k \in DOMAIN tables : tables[k].name # name
      BY <3>1 DEF Named
    <3>5. CASE Truncated[name] = name
      BY <1>0, <1>2, <2>0, <3>3, <3>4, <3>5
    <3>6. CASE Truncated[name] # name
      <4>1. Truncated[name] \in Long
        BY <3>6
      <4> HIDE DEF Long
      <4> QED BY <1>0, <1>2, <2>0, <3>3, <4>1
    <3> QED BY <3>5, <3>6
  <2>3. ASSUME \E k \in DOMAIN tables : \E u : Replaced(k, u) /\ u.name = tables[k].name
        PROVE  tables'[i].name \in Long
    <3>1. DOMAIN tables' = DOMAIN tables /\ \A k \in DOMAIN tables : tables'[k].name = tables[k].name
      BY <1>2, <2>3, Positions, Parts
    <3> QED BY <1>0, <1>2, <2>0, <3>1
  <2>4. KeptOne \/ EditedOne => tables'[i].name \in Long
    BY <2>3 DEF KeptOne, EditedOne, Kept, Edited
  <2> QED BY <1>2, <2>1, <2>2, <2>4, Effects DEF StepEffect
<1> QED BY <1>1, <1>2, StepInvariant, PTL DEF Spec

-----------------------------------------------------------------------------
(***************************************************************************)
(* Transactions, from the start of a call to its end                       *)
(***************************************************************************)
\* Inside the caller's transaction the single-record calls leave its level as
\* it was, and without one they leave none.
LEMMA LocalLevel ==
    ASSUME TxnOK, NEW code
    PROVE  LocalTransaction(txn, code).level = txn.level
<1>1. txn \in [active : BOOLEAN, level : Nat] /\ (txn.active <=> txn.level > 0)
  BY DEF TxnOK, TxnShape
<1>2. CASE txn.active
  BY <1>2 DEF LocalTransaction
<1>3. CASE ~txn.active
  <2>1. txn.level = 0
    BY <1>1, <1>3
  <2>2. Committed(Begun(txn)) = NoTxn /\ RolledBack(Begun(txn)) = NoTxn
    BY <1>3 DEF Committed, Begun, RolledBack
  <2>3. LocalTransaction(txn, code) = NoTxn
    BY <1>3, <2>2 DEF LocalTransaction
  <2> QED BY <2>1, <2>3 DEF NoTxn
<1> QED BY <1>2, <1>3

Success(op) == ret' = [op |-> op, code |-> "SUCCESS"]

Owned ==
    batch' = NoBatch =>
      txn'.level =
        CASE EndsAll -> 0
          [] Success("begin") -> Found.txn.level + 1
          [] Success("commit") -> Found.txn.level - 1
          [] OTHER -> Found.txn.level

\* The four kinds of calls, told by what they return
LEMMA OwnedCases ==
    /\ EndsAll /\ txn'.level = 0 => Owned
    /\ ~EndsAll /\ Success("begin") /\ txn'.level = Found.txn.level + 1 => Owned
    /\ ~EndsAll /\ Success("commit") /\ txn'.level = Found.txn.level - 1 => Owned
    /\ ~EndsAll /\ ~Success("begin") /\ ~Success("commit") /\ txn'.level = Found.txn.level => Owned
    /\ batch' # NoBatch => Owned
<1>1. Success("begin") => ~Success("commit")
  BY DEF Success
<1>7. EndsAll => ~Success("begin") /\ ~Success("commit")
  BY DEF EndsAll, Success
<1>2. ASSUME batch' = NoBatch, EndsAll PROVE Owned <=> txn'.level = 0
  BY <1>7, <1>2 DEF Owned
<1>3. ASSUME batch' = NoBatch, ~EndsAll, Success("begin")
      PROVE  Owned <=> txn'.level = Found.txn.level + 1
  BY <1>1, <1>3 DEF Owned
<1>4. ASSUME batch' = NoBatch, ~EndsAll, ~Success("begin"), Success("commit")
      PROVE  Owned <=> txn'.level = Found.txn.level - 1
  BY <1>4 DEF Owned
<1>5. ASSUME batch' = NoBatch, ~EndsAll, ~Success("begin"), ~Success("commit")
      PROVE  Owned <=> txn'.level = Found.txn.level
  BY <1>5 DEF Owned
<1>6. batch' # NoBatch => Owned
  BY DEF Owned
<1> QED BY <1>1, <1>2, <1>3, <1>4, <1>5, <1>6, <1>7

\* A call between batches that leaves the level as it was
LEMMA OwnedLevel ==
    ASSUME Idle, NEW op, NEW code, Return(op, code), txn'.level = txn.level,
           code # "SUCCESS" \/ op \notin {"begin", "commit", "rollback", "delete_by_field"}
    PROVE  Owned
<1>1. ~EndsAll /\ ~Success("begin") /\ ~Success("commit")
  BY DEF Return, EndsAll, Success
<1>2. Found.txn.level = txn.level
  BY DEF Found
<1> QED BY <1>1, <1>2, OwnedCases

\* An early return leaves the transaction alone.
LEMMA OwnedRefuse ==
    ASSUME Idle, NEW op, NEW code, code # "SUCCESS", Refuse(op, code)
    PROVE  Owned
BY OwnedLevel DEF Refuse

\* The loop of db_delete_records_by_field changes the table exactly when
\* something matches.
LEMMA UnlinkMatchingChanges ==
    ASSUME NEW t, TableOK(t), IsTable(t), NEW f, NEW value
    PROVE  UnlinkMatching(t, f, value) = t <=> Matching(t, f, value) = {}
<1> DEFINE gone == Matching(t, f, value)
           list == Without(t.records, gone)
           u == [t EXCEPT !.records = list, !.record_count = @ - Cardinality(gone)]
<1>1. gone \subseteq DOMAIN t.records
  BY DEF Matching
<1> HIDE DEF gone
<1>2. UnlinkMatching(t, f, value) = u
  BY DEF UnlinkMatching, gone
<1>3. DOMAIN list = DOMAIN t.records \ gone
  BY DEF Without
<1>4. CASE gone # {}
  <2>1. list # t.records
    BY <1>1, <1>3, <1>4
  <2> HIDE DEF list
  <2>2. u.records = list
    BY DEF TableOK
  <2> HIDE DEF u
  <2> QED BY <1>2, <1>4, <2>1, <2>2 DEF gone
<1>5. CASE gone = {}
  <2>1. t.records = [n \in DOMAIN t.records |-> t.records[n]]
    BY DEF TableOK
  <2>2. list = [n \in DOMAIN t.records |-> t.records[n]]
    BY <1>5 DEF Without
  <2>3. list = t.records
    BY <2>1, <2>2
  <2>4. t.record_count - Cardinality(gone) = t.record_count
    <3>1. Cardinality({}) = 0
      BY FS_EmptySet
    <3> QED BY <1>5, <3>1 DEF TableOK
  <2>5. t = [t EXCEPT !.records = t.records, !.record_count = t.record_count]
    BY Zenon DEF IsTable
  <2> HIDE DEF list
  <2>6. u = t
    BY <2>3, <2>4, <2>5
  <2> QED BY <1>2, <1>5, <2>6 DEF gone
<1> QED BY <1>4, <1>5

\* db_delete_records_by_field leaves the caller's level when it deleted, and
\* no transaction when nothing matched.
LEMMA OwnedDeleteByField ==
    ASSUME IInv, AllTables, NEW name, NEW f, NEW value,
           db_delete_records_by_field(name, f, value)
    PROVE  Owned
<1> DEFINE i == db_get_table(name)
           u == UnlinkMatching(tables[i], f, value)
<1>1. CASE \E code : code # "SUCCESS" /\ Idle /\ Refuse("delete_by_field", code)
  BY <1>1, OwnedRefuse
<1>2. CASE /\ Idle /\ i # 0
           /\ tables' = [tables EXCEPT ![i] = u]
           /\ txn' = IF Matching(tables[i], f, value) # {}
                     THEN Committed(Begun(txn)) ELSE NoTxn
           /\ Return("delete_by_field", "SUCCESS")
  <2>1. i \in DOMAIN tables
    BY <1>2, GetTable, Parts
  <2>2. TableOK(tables[i]) /\ IsTable(tables[i])
    BY <2>1, TableAt
  <2>3. u = tables[i] <=> Matching(tables[i], f, value) = {}
    BY <2>2, UnlinkMatchingChanges
  <2> HIDE DEF i, u
  <2>4. tables' = tables <=> u = tables[i]
    <3>1. tables'[i] = u
      BY <1>2, <2>1, Positions, Parts DEF Replaced
    <3>2. tables \in Seq({tables[j] : j \in DOMAIN tables})
      BY Parts DEF TablesOK
    <3> QED BY <1>2, <2>1, <3>1, <3>2
  <2>5. /\ ~Success("begin") /\ ~Success("commit")
        /\ EndsAll <=> tables' = tables
        /\ Found.txn.level = txn.level
    BY <1>2 DEF Return, Success, EndsAll, Found
  <2>6. CASE Matching(tables[i], f, value) = {}
    <3>1. txn'.level = 0
      BY <1>2, <2>6 DEF NoTxn
    <3> QED BY <2>3, <2>4, <2>5, <2>6, <3>1, OwnedCases
  <2>7. CASE Matching(tables[i], f, value) # {}
    <3>1. txn \in [active : BOOLEAN, level : Nat] /\ (txn.active <=> txn.level > 0)
      BY Parts DEF TxnOK, TxnShape
    <3>2. txn'.level = txn.level
      BY <1>2, <2>7, <3>1 DEF Committed, Begun, NoTxn
    <3> QED BY <2>3, <2>4, <2>5, <2>7, <3>2, OwnedCases
  <2> QED BY <2>6, <2>7
<1> QED BY <1>1, <1>2
      DEF db_delete_records_by_field, OnTable, DeleteMatching, RolledBack

\* A batch leaves the level its call found, or none when a row was refused.
LEMMA OwnedBatch ==
    ASSUME IInv, BatchInsert
    PROVE  Owned
<1> DEFINE r == table_insert_record(tables[batch.table], Head(batch.todo), global_counter)
           more == r.code = "SUCCESS" /\ Len(batch.todo) > 1
<1>1. /\ ~Idle
      /\ txn' = IF r.code # "SUCCESS" THEN NoTxn
                ELSE IF more THEN txn ELSE Committed(txn)
      /\ batch' = IF more THEN [batch EXCEPT !.todo = Tail(@), !.done = Append(@, Head(batch.todo))]
                  ELSE NoBatch
      /\ ret' = [op |-> "batch", code |-> IF more THEN "PENDING" ELSE r.code]
  BY DEF BatchInsert, RolledBack, Return
<1> HIDE DEF r
<1>2. CASE more
  <2>1. batch'.table = batch.table
    BY <1>1, <1>2, Parts DEF BatchOK
  <2>2. batch.table # 0
    <3>1. batch.table \in DOMAIN tables
      BY <1>1, Parts DEF BatchOK
    <3> QED BY <3>1, Parts DEF TablesOK
  <2>3. batch' # NoBatch
    BY <2>1, <2>2 DEF NoBatch
  <2> QED BY <2>3, OwnedCases
<1>3. CASE r.code # "SUCCESS"
  <2>1. txn'.level = 0 /\ EndsAll
    BY <1>1, <1>3 DEF NoTxn, EndsAll
  <2> QED BY <2>1, OwnedCases
<1>4. CASE r.code = "SUCCESS" /\ ~more
  <2>1. ~EndsAll /\ ~Success("begin") /\ ~Success("commit")
    BY <1>1, <1>4 DEF EndsAll, Success
  <2>2. /\ batch.before.txn \in [active : BOOLEAN, level : Nat]
        /\ batch.before.txn.active <=> batch.before.txn.level > 0
        /\ txn = Begun(batch.before.txn)
    BY <1>1 DEF IInv, BatchProgress
  <2>3. txn' = Committed(txn) /\ Found.txn = batch.before.txn
    BY <1>1, <1>4 DEF Found
  <2>4. txn'.level = Found.txn.level
    BY <2>2, <2>3 DEF Committed, Begun, NoTxn
  <2> QED BY <2>1, <2>4, OwnedCases
<1> QED BY <1>2, <1>3, <1>4

\* begin, commit and rollback move the level by what they are for.
LEMMA OwnedTransaction ==
    ASSUME IInv, db_begin_transaction \/ db_commit_transaction \/ db_rollback_transaction
    PROVE  Owned
<1>1. CASE \E op, code : code # "SUCCESS" /\ Idle /\ Refuse(op, code)
  BY <1>1, OwnedRefuse
<1>2. txn \in [active : BOOLEAN, level : Nat] /\ (txn.active <=> txn.level > 0)
  BY Parts DEF TxnOK, TxnShape
<1>3. CASE Idle /\ txn' = Begun(txn) /\ Return("begin", "SUCCESS")
  <2>1. ~EndsAll /\ Success("begin") /\ Found.txn = txn
    BY <1>3 DEF Return, EndsAll, Success, Found
  <2>2. txn'.level = txn.level + 1
    BY <1>2, <1>3 DEF Begun
  <2> QED BY <2>1, <2>2, OwnedCases
<1>4. CASE Idle /\ txn.active /\ txn' = Committed(txn) /\ Return("commit", "SUCCESS")
  <2>1. ~EndsAll /\ Success("commit") /\ Found.txn = txn
    BY <1>4 DEF Return, EndsAll, Success, Found
  <2>2. txn'.level = txn.level - 1
    BY <1>2, <1>4 DEF Committed, NoTxn
  <2> QED BY <2>1, <2>2, OwnedCases
<1>5. CASE txn' = NoTxn /\ Return("rollback", "SUCCESS")
  <2>1. EndsAll /\ txn'.level = 0
    BY <1>5 DEF Return, EndsAll, NoTxn
  <2> QED BY <2>1, OwnedCases
<1> QED BY <1>1, <1>3, <1>4, <1>5
      DEF db_begin_transaction, db_commit_transaction, db_rollback_transaction,
          EndTransaction, RolledBack

\* Every step leaves the caller's transaction as TransactionsOwned says.
LEMMA OwnedStep ==
    ASSUME IInv, AllTables, Next
    PROVE  Owned
<1>0. TxnOK
  BY Parts
<1>1. ASSUME NEW op, NEW i, NEW r, op \in {"insert", "update", "delete"}, Idle, Finish(op, i, r)
      PROVE  Owned
  <2>1. txn'.level = txn.level /\ Return(op, r.code)
    BY <1>0, <1>1, LocalLevel DEF Finish
  <2> QED BY <1>1, <2>1, OwnedLevel
<1>2. ASSUME NEW name, NEW row, db_insert_record(name, row) PROVE Owned
  BY <1>1, <1>2, OwnedRefuse DEF db_insert_record, OnTable, InsertInto
<1>3. ASSUME NEW name, NEW id, NEW row, db_update_record(name, id, row) PROVE Owned
  BY <1>1, <1>3, OwnedRefuse DEF db_update_record, OnTable, UpdateIn
<1>4. ASSUME NEW name, NEW id, db_delete_record(name, id) PROVE Owned
  BY <1>1, <1>4, OwnedRefuse DEF db_delete_record, OnTable, DeleteFrom
<1>5. ASSUME NEW name, NEW rows, db_batch_insert_records(name, rows) PROVE Owned
  <2>1. CASE \E code : code # "SUCCESS" /\ Idle /\ Refuse("batch", code)
    BY <2>1, OwnedRefuse
  <2>2. CASE \E i : /\ i # 0
                    /\ batch' = [table |-> i, todo |-> rows, done |-> <<>>,
                                 before |-> [tables |-> tables, txn |-> txn]]
    <3>1. batch' # NoBatch
      BY <2>2 DEF NoBatch
    <3> QED BY <3>1, OwnedCases
  <2> QED BY <1>5, <2>1, <2>2 DEF db_batch_insert_records, OnTable, StartBatch
<1>6. ASSUME NEW name \in Names, RecordCalls(name) PROVE Owned
  BY <1>2, <1>3, <1>4, <1>5, <1>6, OwnedDeleteByField DEF RecordCalls
<1>7. ASSUME NEW name, SchemaCalls(name) PROVE Owned
  <2>1. CASE \E op, code : code # "SUCCESS" /\ Idle /\ Refuse(op, code)
    BY <2>1, OwnedRefuse
  <2>2. CASE \E op \in {"add_table", "create_index", "drop_index"} :
               Idle /\ Return(op, "SUCCESS") /\ txn' = txn
    BY <2>2, OwnedLevel
  <2>3. CASE \E schema : db_add_table(name, schema)
    BY <2>1, <2>2, <2>3 DEF db_add_table
  <2>4. CASE \E f : db_create_index(name, f) \/ db_drop_index(name, f)
    BY <2>1, <2>2, <2>4
       DEF db_create_index, db_drop_index, OnTable, CreateIndexOn, DropIndexOn, SetIndexes
  <2> QED BY <1>7, <2>3, <2>4 DEF SchemaCalls
<1> QED BY <1>6, <1>7, OwnedBatch, OwnedTransaction DEF Next

\* Whatever transactions a call begins for itself are ended when it returns,
\* and the caller's is at the level the call found, moved by begin and commit
\* and ended altogether by the three calls that EndsAll names.
THEOREM TransactionsStayOwned == Spec => TransactionsOwned
<1>1. IInv /\ AllTables /\ [Next]_vars => [Owned]_vars
  BY OwnedStep
<1>2. Spec => [][Owned]_vars
  BY <1>1, StepInvariant, PTL DEF Spec
<1> QED BY <1>2 DEF TransactionsOwned, Owned, Success
=============================================================================
