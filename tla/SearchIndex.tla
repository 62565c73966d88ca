---------------------------- MODULE SearchIndex ----------------------------
(***************************************************************************)
(* The in-memory index of the search service and the handlers that share   *)
(* it: indexer/index.go (Index), api/handler.go (search, reindex,          *)
(* ingest-notify) and the bulk load of cmd/server/main.go.                 *)
(*                                                                         *)
(* Every request is a goroutine.  A step is one critical section of mu or  *)
(* of cacheMu, so the interleavings are those of the lock acquisitions.    *)
(* cacheMu protects single accesses and nothing is awaited while it is     *)
(* held: its sections are atomic and need no variable.  mu is held across  *)
(* a cacheMu section in two places, Search (shared) and Reset (exclusive); *)
(* `readers' and `writer' say who holds it there.                          *)
(*                                                                         *)
(* A document is the terms Tokenize finds in it and the field values its   *)
(* filters can match.  Ranking is the subject of module Wand: here an      *)
(* answer is the set of matching postings, for queries of at most one      *)
(* term, all of which fit one page.                                        *)
(***************************************************************************)
EXTENDS Naturals, Sequences, FiniteSets

CONSTANTS
  Terms,         \* tokens
  Attrs,         \* field values a filter can ask for
  Queries,       \* the queries clients send
  Files,         \* parquet file names
  Unreadable,    \* files ReadParquet cannot parse
  Content,       \* Content[f]: the documents of file f, in row order
  InitialFiles,  \* files in DATA_DIR when the process starts
  CacheMax,      \* cacheMaxSize
  Searchers,     \* clients of GET /search, one request at a time each
  Notifiers,     \* POST /ingest-notify requests
  Reindexers,    \* POST /reindex requests
  Main,          \* the goroutine of main()
  NoThread, NoFile

Doc   == [terms : SUBSET Terms, attrs : SUBSET Attrs]
Query == Doc                       \* what a query asks a document to contain
EmptyQuery == [terms |-> {}, attrs |-> {}]

ASSUME QueriesOK == /\ Queries \subseteq Query
                    /\ \A q \in Queries : \A a, b \in q.terms : a = b
ASSUME FilesOK   == /\ Content \in [Files -> Seq(Doc)]
                    /\ InitialFiles \subseteq Files
                    /\ NoFile \notin Files
ASSUME CacheMaxOK == CacheMax \in Nat \ {0}
ASSUME ThreadsOK == /\ Searchers \cap Notifiers = {}
                    /\ Searchers \cap Reindexers = {}
                    /\ Notifiers \cap Reindexers = {}
                    /\ Main \notin Searchers \cup Notifiers \cup Reindexers
                    /\ NoThread \notin Searchers \cup Notifiers
                                         \cup Reindexers \cup {Main}

Loaders == Reindexers \cup {Main}              \* the callers of loadDir
Threads == Searchers \cup Notifiers \cup Loaders

VARIABLES
  docs,      \* docs[id]: Index.docs, ids given in order by nextID
  blocked,   \* terms whose posting list has bounds (maxNorm > 0) somewhere
  dirty,     \* terms with postings added since the last Finalize
  files,     \* Index.files
  ready,     \* Index.ready
  writer,    \* the thread that holds mu exclusively between two steps
  readers,   \* the threads that hold mu shared between two steps
  cache,     \* cache[q]: absent, live or past its expiresAt
  disk,      \* the files of DATA_DIR
  pc, query, result,          \* of each thread: where it is, its search
  pending, toLoad, file,      \* documents left to add, files left to load
  old,       \* history: what Reset has emptied, until it empties the cache
  acked,     \* history: ids added by the notifications that have invalidated
  mine,      \* history: ids a thread added and has not yet acknowledged
  must       \* history: ids the answer of a search may not leave out

index  == <<docs, blocked, dirty, files, ready>>
mu     == <<writer, readers, old>>
search == <<query, result, must>>
load   == <<pending, toLoad, file, mine>>
vars   == <<index, mu, cache, disk, pc, search, load, acked>>

Ids == DOMAIN docs

\* A query that asks for nothing matches nothing (index.go:397).
Matches(q, d) == /\ q # EmptyQuery
                 /\ q.terms \subseteq d.terms /\ q.attrs \subseteq d.attrs

\* Every posting that answers q: document id and content.
Hits(q) == {<<i, docs[i]>> : i \in {j \in Ids : Matches(q, docs[j])}}

\* What the scan finds.  A list without bounds has maxScore 0, never exceeds
\* the threshold 0 and yields nothing; filterScan reads docs, not the lists.
Visible(q) == IF q.terms \subseteq blocked THEN Hits(q) ELSE {}

Nothing == [docs |-> <<>>, acked |-> {}]

Absent == [state |-> "absent", result |-> {}]
Entry  == [state  : {"absent", "live", "expired"},
           result : SUBSET (Nat \X Doc)]
CachedKeys == {q \in Queries : cache[q].state # "absent"}

\* (fault: expiresAt is not looked at)
CacheHitExpired(q) == cache[q].state # "absent"
CacheHit(q) == cache[q].state = "live"

\* Which entry an insertion removes: one of a full cache, else none but the
\* one it replaces.  (fault: the cache is full one entry too late)
VictimsLate(q) == IF Cardinality(CachedKeys) > CacheMax THEN CachedKeys ELSE {q}
Victims(q) == IF Cardinality(CachedKeys) >= CacheMax THEN CachedKeys ELSE {q}

MuFree     == writer = NoThread /\ readers = {}     \* mu.Lock() can return
MuReadable == writer = NoThread                     \* mu.RLock() can return
Serving    == pc[Main] = "done"                     \* r.Run after the load

Go(t, from, to) == pc[t] = from /\ pc' = [pc EXCEPT ![t] = to]

Init ==
  /\ docs = <<>> /\ blocked = {} /\ dirty = {} /\ files = <<>> /\ ready = FALSE
  /\ writer = NoThread /\ readers = {} /\ old = Nothing
  /\ cache = [q \in Queries |-> Absent]
  /\ disk = InitialFiles
  /\ pc = [t \in Threads |-> IF t = Main THEN "glob" ELSE "idle"]
  /\ query = [t \in Threads |-> EmptyQuery]
  /\ result = [t \in Threads |-> {}]
  /\ pending = [t \in Threads |-> <<>>]
  /\ toLoad = [t \in Threads |-> {}]
  /\ file = [t \in Threads |-> NoFile]
  /\ acked = {}
  /\ mine = [t \in Threads |-> {}]
  /\ must = [t \in Threads |-> {}]

-----------------------------------------------------------------------------
(* Index: what the critical sections of mu do.                             *)

FinalizeLocked == blocked' = blocked \cup dirty /\ dirty' = {}

-----------------------------------------------------------------------------
(* Search.  A client sends a query; the cache is consulted first.          *)

Lookup(t, q) ==
  /\ Serving
  /\ pc[t] = "idle"
  /\ query' = [query EXCEPT ![t] = q]
  /\ must' = [must EXCEPT ![t] = acked]
  /\ \/ /\ CacheHit(q)
        /\ result' = [result EXCEPT ![t] = cache[q].result]
        /\ pc' = [pc EXCEPT ![t] = "reply"]
     \/ /\ ~CacheHit(q)
        /\ pc' = [pc EXCEPT ![t] = "finalize"]
        /\ UNCHANGED result
  /\ UNCHANGED <<index, mu, cache, disk, load, acked>>

\* Lock, finalizeLocked, Unlock: every document present now must be found.
SearchFinalize(t) ==
  /\ MuFree
  /\ Go(t, "finalize", "scan")
  /\ FinalizeLocked
  /\ must' = [must EXCEPT ![t] = Ids]
  /\ UNCHANGED <<docs, files, ready, mu, cache, disk, query, result, load, acked>>

\* (fault: RUnlock right after the scan, before the result is stored)
ScanUnlocked(t) ==
  /\ MuReadable
  /\ query[t] # EmptyQuery
  /\ Go(t, "scan", "insert")
  /\ result' = [result EXCEPT ![t] = Visible(query[t])]
  /\ UNCHANGED <<index, mu, cache, disk, query, must, load, acked>>

\* RLock and the scan.  An empty query returns at once and is not cached.
Scan(t) ==
  /\ MuReadable
  /\ query[t] # EmptyQuery
  /\ Go(t, "scan", "insert")
  /\ readers' = readers \cup {t}
  /\ result' = [result EXCEPT ![t] = Visible(query[t])]
  /\ UNCHANGED <<index, writer, old, cache, disk, query, must, load, acked>>

ScanEmptyQuery(t) ==
  /\ MuReadable
  /\ query[t] = EmptyQuery
  /\ Go(t, "scan", "reply")
  /\ UNCHANGED <<index, mu, cache, disk, search, load, acked>>

\* The insertion under cacheMu, still inside mu.RLock; then RUnlock.  A full
\* cache first loses an arbitrary entry (possibly the one being replaced).
Insert(t) ==
  /\ Go(t, "insert", "reply")
  /\ \E victim \in Victims(query[t]) :
       cache' = [cache EXCEPT
                   ![victim] = Absent,
                   ![query[t]] = [state |-> "live", result |-> result[t]]]
  /\ readers' = readers \ {t}
  /\ UNCHANGED <<index, writer, old, disk, search, load, acked>>

Reply(t) ==
  /\ Go(t, "reply", "idle")
  /\ query' = [query EXCEPT ![t] = EmptyQuery]
  /\ result' = [result EXCEPT ![t] = {}]
  /\ must' = [must EXCEPT ![t] = {}]
  /\ UNCHANGED <<index, mu, cache, disk, load, acked>>

\* An entry older than cacheTTL stays in the map but is no longer returned.
Expire(q) ==
  /\ cache[q].state = "live"
  /\ cache' = [cache EXCEPT ![q].state = "expired"]
  /\ UNCHANGED <<index, mu, disk, pc, search, load, acked>>

-----------------------------------------------------------------------------
(* POST /ingest-notify and the loop it shares with loadDir.                *)

Readable(f) == f \in disk \ Unreadable

NotifyRead(t, f) ==
  /\ Serving
  /\ \/ /\ Readable(f)
        /\ Go(t, "idle", "add")
        /\ pending' = [pending EXCEPT ![t] = Content[f]]
        /\ file' = [file EXCEPT ![t] = f]
     \/ /\ ~Readable(f)                              \* 422
        /\ Go(t, "idle", "rejected")
        /\ UNCHANGED <<pending, file>>
  /\ UNCHANGED <<index, mu, cache, disk, search, toLoad, mine, acked>>

AddDocument(t) ==
  /\ pc[t] = "add"
  /\ pending[t] # <<>>
  /\ MuFree
  /\ docs' = Append(docs, Head(pending[t]))
  /\ dirty' = dirty \cup Head(pending[t]).terms
  /\ pending' = [pending EXCEPT ![t] = Tail(@)]
  /\ mine' = [mine EXCEPT ![t] = @ \cup {Len(docs) + 1}]
  /\ UNCHANGED <<blocked, files, ready, mu, cache, disk, pc, search, toLoad,
                 file, acked>>

AddFile(t) ==
  /\ pending[t] = <<>>
  /\ MuFree
  /\ Go(t, "add", IF t \in Notifiers THEN "finalize" ELSE "load")
  /\ files' = Append(files, file[t])
  /\ file' = [file EXCEPT ![t] = NoFile]
  /\ UNCHANGED <<docs, blocked, dirty, ready, mu, cache, disk, search, pending,
                 toLoad, mine, acked>>

\* (fault: the new lists are left dirty)
NotifySkipFinalize(t) ==
  /\ Go(t, "finalize", "invalidate")
  /\ UNCHANGED <<index, mu, cache, disk, search, load, acked>>

NotifyFinalize(t) ==
  /\ MuFree
  /\ Go(t, "finalize", "invalidate")
  /\ FinalizeLocked
  /\ UNCHANGED <<docs, files, ready, mu, cache, disk, search, load, acked>>

\* InvalidateCache; the handler then answers 200.
Invalidate(t) ==
  /\ Go(t, "invalidate", "done")
  /\ cache' = [q \in Queries |-> Absent]
  /\ acked' = acked \cup mine[t]
  /\ mine' = [mine EXCEPT ![t] = {}]
  /\ UNCHANGED <<index, mu, disk, search, pending, toLoad, file>>

-----------------------------------------------------------------------------
(* POST /reindex, and the bulk load of main, which starts at "glob".       *)

\* The first half of Reset; mu stays locked while cacheMu is acquired.  The
\* ids handed out so far name nothing any more.
Reset(t) ==
  /\ Serving
  /\ MuFree
  /\ Go(t, "idle", "clearCache")
  /\ docs' = <<>> /\ blocked' = {} /\ dirty' = {} /\ files' = <<>>
  /\ ready' = FALSE
  /\ writer' = t /\ old' = [docs |-> docs, acked |-> acked]
  /\ acked' = {}
  /\ mine' = [u \in Threads |-> {}]
  /\ must' = [u \in Threads |-> {}]
  /\ UNCHANGED <<readers, cache, disk, query, result, pending, toLoad, file>>

\* (fault: the cache is not emptied)
ResetIndexOnly(t) ==
  /\ Go(t, "clearCache", "glob")
  /\ writer' = NoThread /\ old' = Nothing
  /\ UNCHANGED <<index, readers, cache, disk, search, load, acked>>

ResetCache(t) ==
  /\ Go(t, "clearCache", "glob")
  /\ cache' = [q \in Queries |-> Absent]
  /\ writer' = NoThread /\ old' = Nothing
  /\ UNCHANGED <<index, readers, disk, search, load, acked>>

Glob(t) ==
  /\ Go(t, "glob", "load")
  /\ toLoad' = [toLoad EXCEPT ![t] = disk]
  /\ UNCHANGED <<index, mu, cache, disk, search, pending, file, mine, acked>>

\* (fault: the name of the file is not kept for AddFile)
LoadFileUnnamed(t, f) ==
  /\ f \in toLoad[t]
  /\ Go(t, "load", "add")
  /\ toLoad' = [toLoad EXCEPT ![t] = @ \ {f}]
  /\ pending' = [pending EXCEPT ![t] = Content[f]]
  /\ UNCHANGED <<index, mu, cache, disk, search, file, mine, acked>>

\* (fault: a file that cannot be read is tried again)
LoadFileRetry(t, f) ==
  /\ f \in toLoad[t]
  /\ \/ /\ Readable(f)
        /\ Go(t, "load", "add")
        /\ toLoad' = [toLoad EXCEPT ![t] = @ \ {f}]
        /\ pending' = [pending EXCEPT ![t] = Content[f]]
        /\ file' = [file EXCEPT ![t] = f]
     \/ /\ ~Readable(f)
        /\ pc[t] = "load"
        /\ UNCHANGED <<pc, pending, file, toLoad>>
  /\ UNCHANGED <<index, mu, cache, disk, search, mine, acked>>

\* The next file of the listing: one that cannot be read is skipped.
LoadFile(t, f) ==
  /\ f \in toLoad[t]
  /\ toLoad' = [toLoad EXCEPT ![t] = @ \ {f}]
  /\ \/ /\ Readable(f)
        /\ Go(t, "load", "add")
        /\ pending' = [pending EXCEPT ![t] = Content[f]]
        /\ file' = [file EXCEPT ![t] = f]
     \/ /\ ~Readable(f)
        /\ pc[t] = "load"
        /\ UNCHANGED <<pc, pending, file>>
  /\ UNCHANGED <<index, mu, cache, disk, search, mine, acked>>

LoadFinalize(t) ==
  /\ toLoad[t] = {}
  /\ MuFree
  /\ Go(t, "load", "setReady")
  /\ FinalizeLocked
  /\ UNCHANGED <<docs, files, ready, mu, cache, disk, search, load, acked>>

SetReady(t) ==
  /\ MuFree
  /\ Go(t, "setReady", "done")
  /\ ready' = TRUE
  /\ UNCHANGED <<docs, blocked, dirty, files, mu, cache, disk, search, load, acked>>

-----------------------------------------------------------------------------
(* The ingest service writes a file into the shared directory.             *)

Upload(f) ==
  /\ f \notin disk
  /\ disk' = disk \cup {f}
  /\ UNCHANGED <<index, mu, cache, pc, search, load, acked>>

-----------------------------------------------------------------------------
SearchStep(t) == \/ SearchFinalize(t) \/ Scan(t) \/ ScanEmptyQuery(t)
                 \/ Insert(t) \/ Reply(t)
NotifyStep(t) == \/ AddDocument(t) \/ AddFile(t)
                 \/ NotifyFinalize(t) \/ Invalidate(t)
LoadStep(t)   == \/ ResetCache(t) \/ Glob(t)
                 \/ \E f \in Files : LoadFile(t, f)
                 \/ AddDocument(t) \/ AddFile(t)
                 \/ LoadFinalize(t) \/ SetReady(t)

Next ==
  \/ \E t \in Searchers : (\E q \in Queries : Lookup(t, q)) \/ SearchStep(t)
  \/ \E t \in Notifiers : (\E f \in Files : NotifyRead(t, f)) \/ NotifyStep(t)
  \/ \E t \in Reindexers : Reset(t)
  \/ \E t \in Loaders : LoadStep(t)
  \/ \E q \in Queries : Expire(q)
  \/ \E f \in Files : Upload(f)

Spec == Init /\ [][Next]_vars

\* A started request keeps running: a goroutine blocked on mu gets it, since
\* sync.RWMutex lets no reader overtake a waiting writer for ever.  Time
\* passes, so entries expire.  Nobody has to send a request or a file.
Fairness == /\ \A t \in Searchers : SF_vars(SearchStep(t))
            /\ \A t \in Notifiers : SF_vars(NotifyStep(t))
            /\ \A t \in Loaders : SF_vars(LoadStep(t))
            /\ \A q \in Queries : WF_vars(Expire(q))
FairSpec == Spec /\ Fairness

-----------------------------------------------------------------------------
(* What the index promises.                                                *)

Places == {"idle", "finalize", "scan", "insert", "reply", "add", "invalidate",
           "clearCache", "glob", "load", "setReady", "done", "rejected"}

\* Every variable has its type; a file being loaded has a name.
TypeOK ==
  /\ docs \in Seq(Doc)
  /\ blocked \subseteq Terms /\ dirty \subseteq Terms
  /\ files \in Seq(Files)
  /\ ready \in BOOLEAN
  /\ writer \in Threads \cup {NoThread}
  /\ readers \subseteq Threads
  /\ old \in [docs : Seq(Doc), acked : SUBSET Nat]
  /\ cache \in [Queries -> Entry]
  /\ disk \subseteq Files
  /\ pc \in [Threads -> Places]
  /\ query \in [Threads -> Query]
  /\ result \in [Threads -> SUBSET (Nat \X Doc)]
  /\ pending \in [Threads -> Seq(Doc)]
  /\ toLoad \in [Threads -> SUBSET Files]
  /\ file \in [Threads -> Files \cup {NoFile}]
  /\ \A t \in Threads : pc[t] = "add" => file[t] \in Files
  /\ acked \subseteq Nat
  /\ mine \in [Threads -> SUBSET Nat]
  /\ must \in [Threads -> SUBSET Nat]

\* Outside Reset, the cache holds nothing but documents of the present index:
\* no answer computed before a Reset survives it, however late the search
\* that computed it comes to store it (Search inserts before RUnlock, Reset
\* empties the cache before Unlock).
CacheSound ==
  MuReadable => \A q \in Queries : cache[q].result \subseteq Hits(q)

\* A search that reaches the cache after an ingest-notify has answered, and
\* ends with no Reset in between, finds the documents of that file; one that
\* misses the cache finds whatever was indexed when it took mu.  Holds though
\* other searches fill the cache while the file is half loaded.
ReadYourIngest ==
  \A t \in Searchers : pc[t] = "reply" =>
    \A i \in must[t] \cap Ids :
      Matches(query[t], docs[i]) => <<i, docs[i]>> \in result[t]

\* The cache never has more than cacheMaxSize entries.
CacheBounded == Cardinality(CachedKeys) <= CacheMax

AtRest == {"idle", "done", "rejected"}

\* Every request is answered: nobody waits for mu for ever.
RequestsFinish ==
  \A t \in Threads : []<>(pc[t] \in AtRest)

\* When the last load is over and the last stale entry has expired, every
\* answer is exact: partial answers cached during a reindex, which nothing
\* invalidates, do not outlive cacheTTL.
EventuallyExact ==
  <>[](\A t \in Searchers :
         pc[t] = "reply" => result[t] = Hits(query[t]))

\* README.md:99, "503 until index is loaded": /ready does not answer 200
\* while a goroutine has emptied the index and not finished loading it.
ReadyMeansLoaded ==
  ready => \A t \in Reindexers :
             pc[t] \notin {"clearCache", "glob", "load", "add", "setReady"}

-----------------------------------------------------------------------------
(* The index as its clients see it: a Reset empties it when it empties the *)
(* cache, and a search is answered when it meets the cache or has scanned. *)

Shown    == IF writer = NoThread THEN docs ELSE old.docs
Promised == IF writer = NoThread THEN acked ELSE old.acked
Asked    == [t \in Searchers |-> IF pc[t] \in {"finalize", "scan"} THEN {query[t]} ELSE {}]
Answered == [t \in Searchers |-> IF pc[t] \in {"insert", "reply"} THEN {result[t]} ELSE {}]

AtomicIndex == INSTANCE AtomicIndex WITH Clients <- Searchers, docs <- Shown, due <- Promised,
                                         asked <- Asked, answer <- Answered

\* The cache, the locks, the bounds that are computed late and the loads that take
\* many steps implement AtomicIndex: for every search there is one moment, while
\* it is under way, at which its answer has what was acknowledged by then and
\* nothing that was not there, and each Reset is one such moment for all.
ImplementsAtomicIndex == AtomicIndex!AtomicIndex

-----------------------------------------------------------------------------
(* The inductive invariant behind CacheSound and ReadYourIngest.           *)

Has(t, i) == Matches(query[t], docs[i]) => <<i, docs[i]>> \in result[t]

\* mu is held across two steps exactly by Reset and by searches that scanned.
LockInv ==
  /\ \A t \in Threads : t \in readers <=> pc[t] = "insert"
  /\ \A t \in Threads : pc[t] = "clearCache" => writer = t
  /\ writer # NoThread => readers = {}

\* Searches are on queries of Queries.
QueryInv ==
  \A t \in Searchers :
    pc[t] \in {"finalize", "scan", "insert"} => query[t] \in Queries

\* A posting list without bounds is dirty, and what was promised has bounds.
BoundsInv ==
  /\ \A i \in Ids : docs[i].terms \subseteq blocked \cup dirty
  /\ acked \subseteq Ids
  /\ \A i \in acked : docs[i].terms \subseteq blocked
  /\ \A t \in Threads :
       /\ mine[t] \subseteq Ids
       /\ must[t] \subseteq Ids
       /\ pc[t] = "invalidate" => \A i \in mine[t] : docs[i].terms \subseteq blocked
       /\ pc[t] = "scan" => \A i \in must[t] : docs[i].terms \subseteq blocked

\* A result about to be stored has what is acknowledged, and what a handler
\* at "invalidate" is about to acknowledge without touching the result.
AnswerOK(t) ==
  /\ pc[t] = "insert" =>
       /\ result[t] \subseteq Hits(query[t])
       /\ \A i \in acked \cup must[t] : Has(t, i)
       /\ \A u \in Threads :
            pc[u] = "invalidate" => \A i \in mine[u] : Has(t, i)
  /\ pc[t] = "reply" => \A i \in must[t] : Has(t, i)

AnswerInv == \A t \in Searchers : AnswerOK(t)

\* A live entry has every acknowledged document.
CacheComplete ==
  \A q \in Queries : CacheHit(q) =>
    \A i \in acked : Matches(q, docs[i]) => <<i, docs[i]>> \in cache[q].result

\* The conjunction is inductive (module SearchIndexProofs).
IInv == /\ TypeOK /\ LockInv /\ QueryInv /\ BoundsInv
        /\ AnswerInv /\ CacheSound /\ CacheComplete
=============================================================================
