---------------------------- MODULE DatabaseClaims ----------------------------
(***************************************************************************)
(* What a comment of src/database.c says of the primary key, where the     *)
(* code does otherwise.                                                    *)
(***************************************************************************)
EXTENDS MCDatabase

\* table_update_record, "Check constraints if updating primary key"
\* (database.c:1077): two records whose INT primary key was set by an update
\* have different keys (-1, which stands for no key, aside).
UpdatedKeysDistinct ==
    \A i \in DOMAIN tables, f \in 1 .. MAX_FIELDS_PER_TABLE :
        (f \in DOMAIN tables[i].schema /\ tables[i].schema[f].primary_key) =>
            \A m, n \in DOMAIN tables[i].records :
                LET a == tables[i].records[m]
                    b == tables[i].records[n]
                IN  /\ m # n /\ a.version > 1 /\ b.version > 1
                    /\ a.fields[f].type = "INT" /\ b.fields[f].type = "INT"
                    /\ a.fields[f].value # -1
                    => a.fields[f].value # b.fields[f].value
=============================================================================
