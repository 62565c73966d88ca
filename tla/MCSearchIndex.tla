--------------------------- MODULE MCSearchIndex ---------------------------
(* Small instances of SearchIndex for TLC.                                 *)
EXTENDS SearchIndex

CONSTANTS s1, s2, n1, n2, r1, r2, kafka, error, host, f1, f2

D1 == [terms |-> {kafka}, attrs |-> {host}]
D2 == [terms |-> {error}, attrs |-> {host}]

MCContent == [f \in Files |-> IF f = f1 THEN <<D1>> ELSE <<D2, D1>>]

TextQuery   == [terms |-> {error}, attrs |-> {}]
FilterQuery == [terms |-> {}, attrs |-> {host}]

MCText      == {TextQuery}
MCAll       == {TextQuery, FilterQuery, EmptyQuery}
=============================================================================
