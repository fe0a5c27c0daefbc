------------------------------ MODULE Catalog ------------------------------
(***************************************************************************)
(* What the catalog promises.  An ingest takes effect as a whole or not at *)
(* all, as if ingests ran one after the other, with one reservation: of a  *)
(* row that no entry owns and that an overlapping ingest has written, it   *)
(* may leave what that ingest has made of it.                              *)
(***************************************************************************)
CONSTANTS
    Ingester,   \* who ingests, one folder at a time
    Initial,    \* the tables the service may start with
    Ingested,   \* the rows of one ingest, for each provider answer and folder
    Shared      \* the keys of rows that no entry owns

VARIABLES
    catalog,    \* the row of every key that has one
    open,       \* who is ingesting
    contested   \* the shared rows that others have written since an ingest began

Init ==
    /\ catalog \in Initial
    /\ open = {}
    /\ contested = [i \in Ingester |-> {}]

Begin(i) ==
    /\ open' = open \cup {i}
    /\ UNCHANGED <<catalog, contested>>

Abandon(i) ==
    /\ open' = open \ {i}
    /\ contested' = [contested EXCEPT ![i] = {}]
    /\ UNCHANGED catalog

\* The rows that are left are rows the catalog has.
Upsert(rows, left) ==
    catalog' = [k \in DOMAIN rows \cup DOMAIN catalog |->
                    IF k \in DOMAIN rows \ left THEN rows[k] ELSE catalog[k]]

Finish(i, rows, left) ==
    /\ i \in open
    /\ open' = open \ {i}
    /\ Upsert(rows, left)
    /\ contested' = [k \in Ingester |->
                        IF k \in open \ {i} THEN contested[k] \cup (DOMAIN rows \cap Shared) ELSE {}]

Next ==
    \E i \in Ingester :
        \/ Begin(i)
        \/ Abandon(i)
        \/ \E ingest \in DOMAIN Ingested, left \in SUBSET contested[i] :
              Finish(i, Ingested[ingest], left)

Spec == Init /\ [][Next]_<<catalog, open, contested>>
=============================================================================
