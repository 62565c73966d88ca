--------------------------- MODULE MCCoordinator ---------------------------
(* Small instances of Coordinator for TLC.                                 *)
EXTENDS Coordinator

CONSTANTS f0, f1, d1, d2

\* f0 lies in the directory of shard 0 and hashes to shard 1; f1 has come
\* into the directory of shard 1 after that was started.
MCHash   == [f \in Files |-> IF f = f0 THEN 5 ELSE 7]
MCDisk   == [s \in Shards |-> IF s = 0 THEN {f0} ELSE {f1}]
MCLoaded == [s \in Shards |-> IF s = 0 THEN {f0} ELSE {}]
MCFileOf == [d \in Docs |-> IF d = d1 THEN f0 ELSE f1]
MCScore  == [d \in Docs |-> IF d = d1 THEN 1 ELSE 2]

\* A page that is inside some merges and beyond the end of others.
MCPaging  == {<<2, 1>>}
MCFirst   == {<<1, 1>>}
=============================================================================
