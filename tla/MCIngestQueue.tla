--------------------------- MODULE MCIngestQueue ---------------------------
(* Small instances of IngestQueue for TLC.                                 *)
EXTENDS IngestQueue

CONSTANTS u1, u2, u3, w1, w2

\* u1 and u2 are uploads of one name, u3 of another.
MCFileName == [u \in Uploads |-> IF u = u3 THEN "b.parquet" ELSE "a.parquet"]

=============================================================================
