---------------------------- MODULE Coordinator ----------------------------
(***************************************************************************)
(* The query coordinator in front of the search shards:                    *)
(* coordinator/internal/api/coordinator.go.                                *)
(*                                                                         *)
(* A request is a goroutine of the coordinator; a search and a reindex ask *)
(* every shard at once, a notification the one its file name hashes to.    *)
(* Of a call, `co' is what the coordinator knows and `sh' how far the      *)
(* shard is: after a timeout or a crash of the coordinator the shard still *)
(* does what it was asked.  A shard is a search service of its own; module *)
(* SearchIndex has its interior, here are the effects of its handlers on a *)
(* bag of documents, those that match the one query that is sent, and on   *)
(* the entry of that query in its cache.                                   *)
(***************************************************************************)
EXTENDS Integers, Sequences, FiniteSets, TLC

CONSTANTS
  NumShards,     \* length of SHARD_URLS
  Files, Docs,   \* file names, documents
  Hash,          \* Hash[f]: the FNV-32 sum of a name
  FileOf, Score, \* of a document: its file, its BM25 score
  Sure,          \* documents that have every term of the query
  AskSize,       \* page_size in the calls to the shards: 1000
  MaxPageSize,   \* what a page_size is clamped to: 100
  MaxInt,        \* the largest int
  Paging,        \* <<page, page_size>> of the searches that arrive
  Disk,          \* Disk[s]: the files in the directory of shard s
  Loaded,        \* Loaded[s]: those that were there when s was started
  Asked,         \* shards that get searches nobody here waits for
  MayStop,       \* shards that are restarted now and then
  Searchers, Notifiers, Reindexers,  \* requests, each sent once
  NoFile

Threads == Searchers \cup Notifiers \cup Reindexers
Writers == Notifiers \cup Reindexers
Shards  == 0..(NumShards - 1)

ASSUME SizesOK == /\ NumShards \in Nat \ {0}
                  /\ AskSize \in Int /\ MaxPageSize \in Nat \ {0} /\ MaxInt \in Nat
                  /\ Paging \subseteq Int \X Int
ASSUME DataOK == /\ Hash \in [Files -> Nat] /\ FileOf \in [Docs -> Files]
                 /\ Score \in [Docs -> Nat] /\ Sure \subseteq Docs /\ NoFile \notin Files
                 /\ Disk \in [Shards -> SUBSET Files]
                 /\ \A s \in Shards : Loaded[s] \subseteq Disk[s]
ASSUME DisjointOK == /\ Searchers \cap Writers = {}
                     /\ Notifiers \cap Reindexers = {}

VARIABLES
  held,      \* held[s][d]: how often d is in the index of s
  cache,     \* cache[s]: the live entry of the query, a set of at most one
  down,      \* shards that are starting or stopped
  pc, co, sh,         \* of each request, see above; co and sh by shard
  file, paging,       \* what a notification names, what page a search wants
  merged, reply,      \* the documents received so far; the answer
  promised,  \* history: promised[s]: files reported as indexed on s
  must,      \* history: promised when a search began
  excused    \* history: shards that failed a search, or see `whole'

shards  == <<held, cache, down>>
request == <<pc, co, file, paging>>
answer  == <<merged, reply>>
history == <<promised, must, excused>>
vars    == <<shards, sh, request, answer, history>>

\* The same file name always gets the same shard.  (fault: out of range)
shardIndexRaw(f) == Hash[f]
shardIndex(f) == IF NumShards <= 1 THEN 0 ELSE Hash[f] % NumShards

\* int arithmetic wraps around.
Wrap(x) == ((x + MaxInt + 1) % (2 * (MaxInt + 1))) - (MaxInt + 1)

AtLeastOne(n) == IF n < 1 THEN 1 ELSE n
PageSize(n)   == IF AtLeastOne(n) > MaxPageSize THEN MaxPageSize ELSE AtLeastOne(n)

\* The shard clamps what it is asked for.
Limit == PageSize(AskSize)

Least(a, b) == IF a < b THEN a ELSE b

Nothing  == [d \in Docs |-> 0]
NoReply  == [status |-> "none", docs |-> <<>>]
NoCalls  == [s \in Shards |-> "none"]
Times(a, d) == Cardinality({i \in DOMAIN a : a[i] = d})

\* No reindex of s is between its Reset and the end of its load.
Settled(s) == s \notin down /\ \A r \in Reindexers : sh[r][s] # "reset"

\* A reload may have brought in more of the directory than is in held.
Loading(s, d) ==
  Cardinality({r \in Reindexers : sh[r][s] = "reset" /\ FileOf[d] \in Disk[s]})

\* What a search of s may find: documents by falling score, as many as fit.  All
\* that fit are there but those that miss a term of the query, which WAND may
\* skip (module Wand).  `whole' is history: nothing was missing then, for s was
\* not reloading and the page not full.
Lists == UNION {[1..n -> Docs] : n \in 0..Limit}
Results(s) ==
  {[docs |-> a, whole |-> Settled(s) /\ Len(a) < Limit] :
     a \in {b \in Lists :
             /\ \A i, j \in DOMAIN b : i < j => Score[b[i]] >= Score[b[j]]
             /\ \A d \in Docs :
                  /\ Times(b, d) <= held[s][d] + Loading(s, d)
                  /\ d \in Sure /\ Len(b) < Limit => Times(b, d) >= held[s][d]}}

Init ==
  /\ held = [s \in Shards |-> [d \in Docs |-> IF FileOf[d] \in Loaded[s] THEN 1 ELSE 0]]
  /\ cache = [s \in Shards |-> {}]
  /\ down = {}
  /\ pc = [t \in Threads |-> "idle"]
  /\ co = [t \in Threads |-> NoCalls]
  /\ sh = [t \in Writers |-> NoCalls]
  /\ file = [n \in Notifiers |-> NoFile]
  /\ paging = [t \in Searchers |-> <<1, 1>>]
  /\ merged = [t \in Searchers |-> <<>>]
  /\ reply = [t \in Searchers |-> NoReply]
  /\ promised = [s \in Shards |-> {}]
  /\ must = [t \in Searchers |-> [s \in Shards |-> {}]]
  /\ excused = [t \in Searchers |-> {}]

-----------------------------------------------------------------------------
\* GET /search: one goroutine for each shard.
Search(t) ==
  /\ pc[t] = "idle"
  /\ pc' = [pc EXCEPT ![t] = "wait"]
  /\ co' = [co EXCEPT ![t] = [s \in Shards |-> "wait"]]
  /\ merged' = [merged EXCEPT ![t] = <<>>]
  /\ reply' = [reply EXCEPT ![t] = NoReply]
  /\ must' = [must EXCEPT ![t] = promised]
  /\ excused' = [excused EXCEPT ![t] = {}]
  /\ UNCHANGED <<shards, sh, file, paging, promised>>

Excuse(t, s) == excused' = [excused EXCEPT ![t] = @ \cup {s}]

\* Index.Search of the shard: a live entry is the answer, else what is found, which
\* is stored.  Scan and insertion are one: no writer of the index comes between.
Outcomes(s)  == IF cache[s] # {} THEN cache[s] ELSE Results(s)
Stores(s, e) == cache' = [cache EXCEPT ![s] = {e}]

\* A shard answers, and its goroutine sends the answer into the channel; the
\* merge takes them in that order.  An error status with a JSON body counts
\* as an answer without documents, which is how a call fails here too.
ShardAnswers(t, s) ==
  /\ co[t][s] = "wait" /\ s \notin down
  /\ \E e \in Outcomes(s) :
       /\ Stores(s, e)
       /\ merged' = [merged EXCEPT ![t] = @ \o e.docs]
       /\ IF e.whole THEN UNCHANGED excused ELSE Excuse(t, s)
  /\ co' = [co EXCEPT ![t][s] = "ok"]
  /\ UNCHANGED <<held, down, sh, pc, file, paging, reply, promised, must>>

\* A search whose caller has given up, or that was sent to the shard itself.
OtherSearch(s) ==
  /\ s \in Asked \ down
  /\ \E e \in Outcomes(s) : Stores(s, e)
  /\ UNCHANGED <<held, down, sh, request, answer, history>>

\* Unreachable, no answer in 10 seconds, or one that cannot be decoded.  It is
\* logged and left out of the merge; a reindex puts the error in its answer.
\* (fault: a client without a timeout)
CallFailsDown(t, s) ==
  /\ co[t][s] = "wait" /\ s \in down
  /\ co' = [co EXCEPT ![t][s] = "failed"]
  /\ IF t \in Searchers THEN Excuse(t, s) ELSE UNCHANGED excused
  /\ UNCHANGED <<shards, sh, pc, file, paging, answer, promised, must>>
CallFails(t, s) ==
  /\ co[t][s] = "wait"
  /\ co' = [co EXCEPT ![t][s] = "failed"]
  /\ IF t \in Searchers THEN Excuse(t, s) ELSE UNCHANGED excused
  /\ UNCHANGED <<shards, sh, pc, file, paging, answer, promised, must>>

AllBack(t) == pc[t] = "wait" /\ \A s \in Shards : co[t][s] # "wait"
Over(t) == /\ pc' = [pc EXCEPT ![t] = "done"]
           /\ co' = [co EXCEPT ![t] = NoCalls]

\* The documents carry no _score: every key is 0.
\* SortFunc leaves a list as it is that is in order already.
SortKey(d) == 0
Ranked(m) == IF \A i, j \in DOMAIN m : i < j => SortKey(m[i]) >= SortKey(m[j])
               THEN m ELSE SortSeq(m, LAMBDA a, b : SortKey(a) > SortKey(b))

\* The slice [lo:hi] of the merge; bounds out of order panic, which gin
\* answers with 500.  (fault: pages count from 0)
PageFromZero(m, page, size) ==
  LET lo == Least(Wrap(AtLeastOne(page) * PageSize(size)), Len(m))
      hi == Least(Wrap(lo + PageSize(size)), Len(m))
  IN IF lo < 0 \/ hi < lo THEN [status |-> "panic", docs |-> <<>>]
               ELSE [status |-> "ok", docs |-> SubSeq(m, lo + 1, hi)]
Page(m, page, size) ==
  LET lo == Least(Wrap((AtLeastOne(page) - 1) * PageSize(size)), Len(m))
      hi == Least(Wrap(lo + PageSize(size)), Len(m))
  IN IF lo < 0 \/ hi < lo THEN [status |-> "panic", docs |-> <<>>]
               ELSE [status |-> "ok", docs |-> SubSeq(m, lo + 1, hi)]

\* The page is read from the request only now.
Merge(t) ==
  /\ AllBack(t)
  /\ \E p \in Paging :
       /\ paging' = [paging EXCEPT ![t] = p]
       /\ reply' = [reply EXCEPT ![t] = Page(Ranked(merged[t]), p[1], p[2])]
  /\ Over(t)
  /\ UNCHANGED <<shards, sh, file, merged, history>>

-----------------------------------------------------------------------------
\* POST /ingest-notify goes to one shard, once: the ingest service retries.
Notify(n) ==
  /\ pc[n] = "idle"
  /\ pc' = [pc EXCEPT ![n] = "wait"]
  /\ \E f \in Files :
       /\ file' = [file EXCEPT ![n] = f]
       /\ co' = [co EXCEPT ![n][shardIndex(f)] = "wait"]
       /\ sh' = [sh EXCEPT ![n][shardIndex(f)] = "asked"]
  /\ UNCHANGED <<shards, paging, answer, history>>

\* The shard reads the file from its own directory and adds its documents,
\* again if it has them; without the file it answers 422.
Load(s, S) == held' = [held EXCEPT ![s] =
                 [d \in Docs |-> @[d] + IF FileOf[d] \in S THEN 1 ELSE 0]]

\* In the end the cache is emptied.  (fault: it is not)
ShardIndexesOnly(n, s) ==
  /\ sh[n][s] = "asked" /\ file[n] \in Disk[s] /\ s \notin down
  /\ Load(s, {file[n]})
  /\ sh' = [sh EXCEPT ![n][s] = "served"]
  /\ UNCHANGED <<cache, down, request, answer, history>>
ShardIndexes(n, s) ==
  /\ sh[n][s] = "asked" /\ file[n] \in Disk[s] /\ s \notin down
  /\ Load(s, {file[n]})
  /\ cache' = [cache EXCEPT ![s] = {}]
  /\ sh' = [sh EXCEPT ![n][s] = "served"]
  /\ UNCHANGED <<down, request, answer, history>>

ShardRefuses(n, s) ==
  /\ sh[n][s] = "asked" /\ file[n] \notin Disk[s] /\ s \notin down
  /\ sh' = [sh EXCEPT ![n][s] = "refused"]
  /\ UNCHANGED <<shards, request, answer, history>>

\* The status of the shard is passed on.  (fault: 200 whatever it says)
PassOnOK(n, s) ==
  /\ co[n][s] = "wait" /\ sh[n][s] \in {"served", "refused"}
  /\ co' = [co EXCEPT ![n][s] = "ok"]
  /\ promised' = [promised EXCEPT ![s] = @ \cup {file[n]}]
  /\ UNCHANGED <<shards, sh, pc, file, paging, answer, must, excused>>
PassOn(n, s) ==
  /\ co[n][s] = "wait" /\ sh[n][s] \in {"served", "refused"}
  /\ co' = [co EXCEPT ![n][s] = "ok"]
  /\ promised' = IF sh[n][s] = "served"
                   THEN [promised EXCEPT ![s] = @ \cup {file[n]}] ELSE promised
  /\ UNCHANGED <<shards, sh, pc, file, paging, answer, must, excused>>

\* POST /reindex asks every shard; it lists what each has said.
Reindex(r) ==
  /\ pc[r] = "idle"
  /\ pc' = [pc EXCEPT ![r] = "wait"]
  /\ co' = [co EXCEPT ![r] = [s \in Shards |-> "wait"]]
  /\ sh' = [sh EXCEPT ![r] = [s \in Shards |-> "asked"]]
  /\ UNCHANGED <<shards, file, paging, answer, promised, must, excused>>

\* Reset empties the cache, and nothing empties it when the load has ended.
ShardResets(r, s) ==
  /\ sh[r][s] = "asked" /\ s \notin down
  /\ held' = [held EXCEPT ![s] = Nothing]
  /\ cache' = [cache EXCEPT ![s] = {}]
  /\ sh' = [sh EXCEPT ![r][s] = "reset"]
  /\ UNCHANGED <<down, request, answer, history>>

ShardLoads(r, s) ==
  /\ sh[r][s] = "reset"
  /\ Load(s, Disk[s])
  /\ sh' = [sh EXCEPT ![r][s] = "served"]
  /\ UNCHANGED <<cache, down, request, answer, history>>

\* (fault: the answer is not waited for)
ReindexUnawaited(r, s) ==
  /\ co[r][s] = "wait" /\ sh[r][s] # "none"
  /\ co' = [co EXCEPT ![r][s] = "ok"]
  /\ promised' = [promised EXCEPT ![s] = @ \cup Disk[s]]
  /\ UNCHANGED <<shards, sh, pc, file, paging, answer, must, excused>>
ReindexReturns(r, s) ==
  /\ co[r][s] = "wait" /\ sh[r][s] = "served"
  /\ co' = [co EXCEPT ![r][s] = "ok"]
  /\ promised' = [promised EXCEPT ![s] = @ \cup Disk[s]]
  /\ UNCHANGED <<shards, sh, pc, file, paging, answer, must, excused>>

\* A notification or a reindex has its answers.
Answer(t) ==
  /\ AllBack(t) /\ Over(t)
  /\ UNCHANGED <<shards, sh, file, paging, answer, history>>

-----------------------------------------------------------------------------
\* The process ends and with it every request; the shards do not notice.
Stop ==
  /\ pc' = [t \in Threads |-> IF pc[t] = "wait" THEN "lost" ELSE pc[t]]
  /\ co' = [t \in Threads |-> NoCalls]
  /\ UNCHANGED <<shards, sh, file, paging, answer, history>>

\* An answer whose body is cut short or no JSON object leaves the map nil.  The
\* assignment then panics in a goroutine, where gin does not recover it.  In a
\* notification it is the handler that panics: CallFails.
CutAnswer(r, s) ==
  /\ co[r][s] = "wait" /\ sh[r][s] # "none"
  /\ Stop

ShardStops(s) ==
  /\ s \in MayStop \ down
  /\ down' = down \cup {s}
  /\ held' = [held EXCEPT ![s] = Nothing]
  /\ cache' = [cache EXCEPT ![s] = {}]
  /\ sh' = [t \in Writers |-> [sh[t] EXCEPT ![s] =
              IF @ \in {"asked", "reset"} THEN "none" ELSE @]]
  /\ UNCHANGED <<request, answer, history>>

\* It loads its directory before it listens.  (fault: and is empty until asked)
ShardStartsEmpty(s) ==
  /\ s \in down
  /\ down' = down \ {s}
  /\ UNCHANGED <<held, cache, sh, request, answer, history>>
ShardStarts(s) ==
  /\ s \in down
  /\ down' = down \ {s}
  /\ Load(s, Disk[s])
  /\ UNCHANGED <<cache, sh, request, answer, history>>

\* After 30 seconds, or when other queries need the place.
CacheForgets(s) ==
  /\ cache[s] # {}
  /\ cache' = [cache EXCEPT ![s] = {}]
  /\ UNCHANGED <<held, down, sh, request, answer, history>>

-----------------------------------------------------------------------------
Return(t, s) == \/ CallFails(t, s)
                \/ t \in Searchers /\ ShardAnswers(t, s)
                \/ t \in Notifiers /\ PassOn(t, s)
                \/ t \in Reindexers /\ ReindexReturns(t, s)
End(t) == IF t \in Searchers THEN Merge(t) ELSE Answer(t)

ShardStep(s) ==
  \/ \E n \in Notifiers : ShardIndexes(n, s) \/ ShardRefuses(n, s)
  \/ \E r \in Reindexers : ShardResets(r, s) \/ ShardLoads(r, s)
  \/ OtherSearch(s) \/ ShardStops(s) \/ ShardStarts(s) \/ CacheForgets(s)

Next ==
  \/ \E t \in Searchers : Search(t)
  \/ \E n \in Notifiers : Notify(n)
  \/ \E r \in Reindexers : Reindex(r)
  \/ \E t \in Threads : End(t)
  \/ \E t \in Threads, s \in Shards : Return(t, s)
  \/ \E s \in Shards : ShardStep(s)
  \/ \E r \in Reindexers, s \in Shards : CutAnswer(r, s)

Spec == Init /\ [][Next]_vars

\* The client of the coordinator gives up after 10 seconds.
FairSpec == /\ Spec
            /\ \A t \in Threads : WF_vars(End(t))
            /\ \A t \in Threads, s \in Shards : WF_vars(CallFails(t, s))
-----------------------------------------------------------------------------
Found == [docs : Seq(Docs), whole : BOOLEAN]
CacheOK == cache \in [Shards -> SUBSET Found] /\ \A s \in Shards : \A e, f \in cache[s] : e = f
Phases == {"none", "asked", "reset", "served", "refused"}

\* Types, and: a notification in flight has a file and a shard.
TypeOK ==
  /\ down \subseteq Shards
  /\ held \in [Shards -> [Docs -> Nat]]
  /\ CacheOK
  /\ pc \in [Threads -> {"idle", "wait", "done", "lost"}]
  /\ co \in [Threads -> [Shards -> {"none", "wait", "ok", "failed"}]]
  /\ sh \in [Writers -> [Shards -> Phases]]
  /\ file \in [Notifiers -> Files \cup {NoFile}]
  /\ paging \in [Searchers -> Int \X Int]
  /\ merged \in [Searchers -> Seq(Docs)]
  /\ reply \in [Searchers -> [status : {"none", "ok", "panic"}, docs : Seq(Docs)]]
  /\ promised \in [Shards -> SUBSET Files]
  /\ must \in [Searchers -> [Shards -> SUBSET Files]]
  /\ excused \in [Searchers -> SUBSET Shards]
  /\ \A n \in Notifiers : pc[n] = "wait" =>
       file[n] \in Files /\ \E s \in Shards : co[n][s] # "none"

\* A promise survives: whatever retries, late calls, reindexes and restarts
\* came after a file was reported as indexed on a shard, its documents are in
\* the index of that shard, except while it is down or reloading.
PromiseKept ==
  \A s \in Shards : Settled(s) =>
    \A d \in Docs : FileOf[d] \in promised[s] => held[s][d] > 0

\* A search that began after a file was reported as indexed is answered with its
\* documents in the merge, those that have every term of the query, whatever the
\* caches of the shards have kept and however late they answer.  It may be without
\* those of a shard that failed, that filled the page it is allowed, or whose
\* answer was found while it was reloading: not only now, since what it finds
\* then stays in its cache and is still given after the reindex has returned.
AckedFound ==
  \A t \in Searchers : pc[t] = "done" =>
    \A s \in Shards \ excused[t] : \A d \in Sure :
      FileOf[d] \in must[t][s] => \E i \in DOMAIN merged[t] : merged[t][i] = d

\* A page holds the documents of the merge at positions (page-1)*size+1 to
\* page*size and no others, for every page whose first position is an int (a
\* merge is far shorter than MaxInt): a page past the end is empty, a page or a
\* size below 1 counts as 1.
PageExact ==
  \A t \in Searchers :
    LET first == (AtLeastOne(paging[t][1]) - 1) * PageSize(paging[t][2])
        total == Len(merged[t])
    IN pc[t] = "done" /\ first <= MaxInt /\ total + MaxPageSize <= MaxInt =>
         /\ reply[t].status = "ok"
         /\ Len(reply[t].docs) =
              IF first >= total THEN 0 ELSE Least(PageSize(paging[t][2]), total - first)
         /\ \A i \in DOMAIN reply[t].docs : reply[t].docs[i] = merged[t][first + i]

\* A request that waits for all shards is answered, or the process has ended
\* under it: no shard that hangs or is down makes the others wait for ever.
FanOutEnds == \A t \in Searchers \cup Reindexers : []<>(pc[t] # "wait")

\* coordinator.go:15-17: "Sort globally by score descending - the global top
\* results." then "Paginate": no document outside the first page has a higher
\* score than one in it.
GlobalTop ==
  \A t \in Searchers : pc[t] = "done" /\ paging[t][1] <= 1 /\ reply[t].status = "ok" =>
    \A i \in DOMAIN reply[t].docs, j \in (Len(reply[t].docs) + 1)..Len(merged[t]) :
      Score[reply[t].docs[i]] >= Score[merged[t][j]]
=============================================================================
