------------------------- MODULE AtomicIndexProofs -------------------------
(***************************************************************************)
(* SearchIndex implements AtomicIndex, for any documents, queries, files,  *)
(* clients and requests.                                                   *)
(***************************************************************************)
EXTENDS SearchIndexProofs

-----------------------------------------------------------------------------
(* What a search may answer.                                               *)

\* All that was promised, and nothing that is not shown.
Between(q, A) == AtomicIndex!Due(q) \subseteq A /\ A \subseteq AtomicIndex!Hits(q)

\* Between the two halves of a Reset the index is empty, and what the cache still
\* answers is right for the index that was there.
WindowInv ==
  writer # NoThread =>
    /\ docs = <<>>
    /\ \A q \in Queries : CacheHit(q) => Between(q, cache[q].result)

\* A search has no answer before it has one.
UnansweredInv ==
  \A t \in Searchers : pc[t] \in {"idle", "finalize", "scan"} => result[t] = {}

RefInv == WindowInv /\ UnansweredInv

\* What may be answered depends on what is shown and promised.
LEMMA SameBetween ==
  ASSUME Shown' = Shown, Promised' = Promised, NEW q, NEW A, Between(q, A)
  PROVE  Between(q, A)'
BY DEF Between, AtomicIndex!Due, AtomicIndex!Hits

\* Outside Reset it is the present index that is shown.
LEMMA OpenIndex ==
  ASSUME writer = NoThread, NEW q
  PROVE  /\ Shown = docs /\ Promised = acked
         /\ AtomicIndex!Hits(q) = Hits(q)
         /\ AtomicIndex!Due(q) = {h \in Hits(q) : h[1] \in acked}
BY DEF Shown, Promised, AtomicIndex!Hits, AtomicIndex!Due, Hits, Ids

\* A cached answer is right at any time.
LEMMA CachedAnswer ==
  ASSUME IInv, WindowInv, NEW q \in Queries, CacheHit(q)
  PROVE  Between(q, cache[q].result)
<1>1. CASE writer = NoThread
  <2>1. cache[q].result \subseteq Hits(q)
    BY <1>1 DEF IInv, CacheSound, MuReadable
  <2>2. ASSUME NEW h \in Hits(q), h[1] \in acked
        PROVE  h \in cache[q].result
    <3>1. PICK i \in Ids : Matches(q, docs[i]) /\ h = <<i, docs[i]>>
      BY DEF Hits
    <3> QED BY <2>2, <3>1 DEF IInv, CacheComplete
  <2> QED BY <1>1, <2>1, <2>2, OpenIndex DEF Between
<1>2. CASE writer # NoThread
  BY <1>2 DEF WindowInv
<1> QED BY <1>1, <1>2

\* A thread goes on, the others stay.
LEMMA GoFacts ==
  ASSUME TypeOK, NEW t \in Threads, NEW from, NEW to, Go(t, from, to)
  PROVE  pc[t] = from /\ pc'[t] = to /\ \A u \in Threads \ {t} : pc'[u] = pc[u]
BY DEF Go, TypeOK

-----------------------------------------------------------------------------
(* RefInv is an invariant.                                                 *)

\* A step that changes neither the index nor who holds mu, and makes no entry live,
\* keeps WindowInv.
LEMMA KeepWindow ==
  ASSUME WindowInv, UNCHANGED <<writer, old>>,
         writer = NoThread \/ docs' = docs,
         writer # NoThread => \A q \in Queries : CacheHit(q)' => CacheHit(q) /\ cache'[q] = cache[q]
  PROVE  WindowInv'
<1> SUFFICES ASSUME writer # NoThread
             PROVE  /\ docs' = <<>>
                    /\ \A q \in Queries : CacheHit(q)' => Between(q, cache[q].result)'
  BY DEF WindowInv
<1>1. docs' = <<>>
  BY DEF WindowInv
<1>2. Shown' = Shown /\ Promised' = Promised
  BY DEF Shown, Promised
<1>3. ASSUME NEW q \in Queries, CacheHit(q)'
      PROVE  Between(q, cache[q].result)'
  <2>1. Between(q, cache[q].result) /\ cache'[q] = cache[q]
    BY <1>3 DEF WindowInv
  <2> QED BY <1>2, <2>1, SameBetween DEF Between, AtomicIndex!Due, AtomicIndex!Hits
<1> QED BY <1>1, <1>3

\* A search stores nothing in the cache while a Reset goes on.
LEMMA SearchWindow ==
  ASSUME IInv, WindowInv, NEW t \in Searchers,
         (\E q \in Queries : Lookup(t, q)) \/ SearchStep(t)
  PROVE  WindowInv'
<1> t \in Threads BY DEF Threads
<1>1. UNCHANGED <<docs, writer, old>>
  BY DEF Lookup, SearchStep, SearchFinalize, Scan, ScanEmptyQuery, Insert, Reply, index, mu
<1>2. cache' = cache \/ writer = NoThread
  BY DEF Lookup, SearchStep, SearchFinalize, Scan, ScanEmptyQuery, Insert, Reply, Go,
         IInv, LockInv
<1> QED BY <1>1, <1>2, KeepWindow DEF CacheHit

\* Notifications and loads change the index only while they hold mu.
LEMMA NotifyWindow ==
  ASSUME WindowInv, NEW t \in Threads, (\E f \in Files : NotifyRead(t, f)) \/ NotifyStep(t)
  PROVE  WindowInv'
<1>1. UNCHANGED <<writer, old>> /\ (writer = NoThread \/ docs' = docs)
  BY DEF NotifyRead, NotifyStep, AddDocument, AddFile, NotifyFinalize, Invalidate, index, mu, MuFree
<1>2. cache' = cache \/ cache' = [q \in Queries |-> Absent]
  BY DEF NotifyRead, NotifyStep, AddDocument, AddFile, NotifyFinalize, Invalidate
<1> QED BY <1>1, <1>2, KeepWindow DEF CacheHit, Absent

\* Reset keeps what it empties for as long as the cache answers for it.
LEMMA LoadWindow ==
  ASSUME IInv, WindowInv, NEW t \in Loaders, Reset(t) \/ LoadStep(t)
  PROVE  WindowInv'
<1>1. CASE Reset(t)
  <2>1. writer = NoThread /\ writer' # NoThread
    BY <1>1, ThreadsOK DEF Reset, MuFree, Loaders
  <2>2. Shown' = Shown /\ Promised' = Promised /\ docs' = <<>> /\ cache' = cache
    BY <1>1, <2>1 DEF Reset, Shown, Promised
  <2>3. ASSUME NEW q \in Queries, CacheHit(q)'
        PROVE  Between(q, cache[q].result)'
    <3>1. Between(q, cache[q].result)
      BY <2>2, <2>3, CachedAnswer DEF CacheHit
    <3> QED BY <2>2, <3>1 DEF Between, AtomicIndex!Due, AtomicIndex!Hits
  <2> QED BY <2>1, <2>2, <2>3 DEF WindowInv
<1>2. CASE ResetCache(t)
  BY <1>2 DEF ResetCache, WindowInv
<1>3. CASE AddDocument(t) \/ AddFile(t)
  BY <1>3, NotifyWindow DEF NotifyStep, Threads
<1>4. CASE Glob(t) \/ (\E f \in Files : LoadFile(t, f)) \/ LoadFinalize(t) \/ SetReady(t)
  <2>1. UNCHANGED <<docs, writer, old, cache>>
    BY <1>4 DEF Glob, LoadFile, LoadFinalize, SetReady, index, mu
  <2> QED BY <2>1, KeepWindow DEF CacheHit
<1> QED BY <1>1, <1>2, <1>3, <1>4 DEF LoadStep

\* Time passes, files arrive.
LEMMA OtherWindow ==
  ASSUME WindowInv, TypeOK,
         (\E q \in Queries : Expire(q)) \/ (\E f \in Files : Upload(f)) \/ UNCHANGED vars
  PROVE  WindowInv'
<1>1. UNCHANGED <<docs, writer, old>>
  BY DEF Expire, Upload, vars, index, mu
<1>2. ASSUME NEW q \in Queries, CacheHit(q)'
      PROVE  CacheHit(q) /\ cache'[q] = cache[q]
  <2>1. CASE \E p \in Queries : Expire(p)
    <3>1. PICK p \in Queries : Expire(p)
      BY <2>1
    <3>2. cache'[p].state = "expired" /\ (q # p => cache'[q] = cache[q])
      BY <3>1 DEF Expire, TypeOK, Entry
    <3> QED BY <1>2, <3>2 DEF CacheHit
  <2>2. CASE cache' = cache
    BY <1>2, <2>2 DEF CacheHit
  <2> QED BY <2>1, <2>2 DEF Upload, vars
<1> QED BY <1>1, <1>2, KeepWindow

\* No other request touches a search.
LEMMA OthersRun ==
  ASSUME TypeOK, NEW t \in Notifiers \cup Loaders,
         (\E f \in Files : NotifyRead(t, f)) \/ NotifyStep(t) \/ Reset(t) \/ LoadStep(t)
  PROVE  UNCHANGED <<query, result>> /\ \A u \in Searchers : pc'[u] = pc[u]
<1>1. t \in Threads /\ t \notin Searchers /\ pc \in [Threads -> Places]
  BY ThreadsOK DEF Threads, Loaders, TypeOK
<1>2. UNCHANGED <<query, result>>
  BY DEF NotifyRead, NotifyStep, AddDocument, AddFile, NotifyFinalize, Invalidate, Reset,
         LoadStep, ResetCache, Glob, LoadFile, LoadFinalize, SetReady, search
<1>3. pc' = pc \/ \E p : pc' = [pc EXCEPT ![t] = p]
  BY DEF NotifyRead, NotifyStep, AddDocument, AddFile, NotifyFinalize, Invalidate, Reset,
         LoadStep, ResetCache, Glob, LoadFile, LoadFinalize, SetReady, Go
<1>4. \A u \in Searchers : u \in Threads /\ u # t
  BY <1>1 DEF Threads
<1>5. ASSUME NEW p, pc' = [pc EXCEPT ![t] = p]
      PROVE  \A u \in Searchers : pc'[u] = pc[u]
  BY <1>1, <1>4, <1>5
<1> QED BY <1>2, <1>3, <1>5

\* An answer is made by the step that leaves "idle" or "scan", and forgotten by
\* the one that returns.
LEMMA NextUnanswered ==
  ASSUME TypeOK, UnansweredInv, [Next]_vars
  PROVE  UnansweredInv'
<1>1. CASE \E t \in Searchers : (\E q \in Queries : Lookup(t, q)) \/ SearchStep(t)
  <2>1. PICK t \in Searchers : (\E q \in Queries : Lookup(t, q)) \/ SearchStep(t)
    BY <1>1
  <2>2. /\ \A u \in Searchers \ {t} : pc'[u] = pc[u] /\ result'[u] = result[u]
        /\ pc'[t] \in {"idle", "finalize", "scan"} =>
             result'[t] = {} \/ (pc[t] \in {"idle", "finalize"} /\ result'[t] = result[t])
    <3> USE DEF TypeOK, Threads, Go, search
    <3>1. CASE \E q \in Queries : Lookup(t, q)
      BY <3>1 DEF Lookup
    <3>2. CASE SearchFinalize(t)
      BY <3>2 DEF SearchFinalize
    <3>3. CASE Scan(t)
      BY <3>3 DEF Scan
    <3>4. CASE ScanEmptyQuery(t)
      BY <3>4 DEF ScanEmptyQuery
    <3>5. CASE Insert(t)
      BY <3>5 DEF Insert
    <3>6. CASE Reply(t)
      <4>1. result'[t] = {} /\ \A u \in Searchers \ {t} : result'[u] = result[u]
        BY <3>6 DEF Reply
      <4>2. \A u \in Searchers \ {t} : pc'[u] = pc[u]
        BY <3>6, GoFacts DEF Reply
      <4> QED BY <4>1, <4>2
    <3> QED BY <2>1, <3>1, <3>2, <3>3, <3>4, <3>5, <3>6 DEF SearchStep
  <2> QED BY <2>2 DEF UnansweredInv
<1>2. CASE UNCHANGED result /\ \A u \in Searchers : pc'[u] = pc[u]
  BY <1>2 DEF UnansweredInv
<1>3. CASE (\E q \in Queries : Expire(q)) \/ (\E f \in Files : Upload(f)) \/ UNCHANGED vars
  BY <1>2, <1>3 DEF Expire, Upload, vars, search
<1>4. CASE \/ \E t \in Notifiers : (\E f \in Files : NotifyRead(t, f)) \/ NotifyStep(t)
           \/ \E t \in Reindexers : Reset(t)
           \/ \E t \in Loaders : LoadStep(t)
  BY <1>2, <1>4, OthersRun DEF Loaders
<1> QED BY <1>1, <1>3, <1>4 DEF Next

\* Both parts hold at the start and are kept by every step.
LEMMA NextRefInv ==
  /\ Init => RefInv
  /\ IInv /\ RefInv /\ [Next]_vars => RefInv'
<1>1. Init => RefInv
  BY DEF Init, RefInv, WindowInv, UnansweredInv, Threads
<1>2. ASSUME IInv, RefInv, [Next]_vars
      PROVE  WindowInv'
  <2> Notifiers \subseteq Threads /\ Reindexers \subseteq Loaders
    BY DEF Threads, Loaders
  <2> QED BY <1>2, SearchWindow, NotifyWindow, LoadWindow, OtherWindow DEF Next, RefInv, IInv
<1> QED BY <1>1, <1>2, NextUnanswered DEF RefInv, IInv

-----------------------------------------------------------------------------
(* Every step is a step of AtomicIndex, or none.                           *)

\* The questions and answers of AtomicIndex, one client at a time.
LEMMA AskedFacts ==
  ASSUME NEW t \in Searchers
  PROVE  /\ Asked[t] = IF pc[t] \in {"finalize", "scan"} THEN {query[t]} ELSE {}
         /\ Answered[t] = IF pc[t] \in {"insert", "reply"} THEN {result[t]} ELSE {}
BY DEF Asked, Answered

\* What AtomicIndex sees of a step of which the other searches see nothing.
LEMMA OneSearch ==
  ASSUME NEW t \in Searchers, UNCHANGED <<docs, acked, writer, old>>,
         \A u \in Searchers \ {t} : pc'[u] = pc[u] /\ query'[u] = query[u] /\ result'[u] = result[u]
  PROVE  /\ Shown' = Shown /\ Promised' = Promised
         /\ Asked' = [Asked EXCEPT ![t] = IF pc'[t] \in {"finalize", "scan"} THEN {query'[t]} ELSE {}]
         /\ Answered' = [Answered EXCEPT ![t] = IF pc'[t] \in {"insert", "reply"} THEN {result'[t]} ELSE {}]
BY DEF Shown, Promised, Asked, Answered

\* ... and of one of which no search sees anything.
LEMMA NoSearch ==
  ASSUME UNCHANGED <<query, result>>, \A u \in Searchers : pc'[u] = pc[u]
  PROVE  Asked' = Asked /\ Answered' = Answered
BY DEF Asked, Answered

\* An answer between what is promised and what is shown is one AtomicIndex gives.
LEMMA Answers ==
  ASSUME NEW t \in Searchers, NEW q \in Queries, NEW A, Between(q, A),
         Asked[t] = {q} \/ (Asked[t] = {} /\ Answered[t] = {}),
         Shown' = Shown, Promised' = Promised,
         Asked' = [Asked EXCEPT ![t] = {}], Answered' = [Answered EXCEPT ![t] = {A}]
  PROVE  AtomicIndex!Change
<1>1. AtomicIndex!Answer(t, q, A)
  BY DEF AtomicIndex!Answer, AtomicIndex!Rests, Between
<1>2. A \in SUBSET AtomicIndex!Hits(q)
  BY DEF Between
<1> QED BY <1>1, <1>2 DEF AtomicIndex!Change

\* A query that meets a live entry is answered, another waits.
LEMMA LookupRefines ==
  ASSUME IInv, RefInv, NEW t \in Searchers, NEW q \in Queries, Lookup(t, q)
  PROVE  AtomicIndex!Change
<1>1. /\ pc[t] = "idle" /\ t \in Threads
      /\ query' = [query EXCEPT ![t] = q] /\ UNCHANGED <<docs, acked, writer, old>>
      /\ pc \in [Threads -> Places] /\ query \in [Threads -> Query]
      /\ result \in [Threads -> SUBSET (Nat \X Doc)]
  BY DEF Lookup, index, mu, Threads, IInv, TypeOK
<1>2. Asked[t] = {} /\ Answered[t] = {}
  BY <1>1, AskedFacts
<1>3. CASE CacheHit(q) /\ result' = [result EXCEPT ![t] = cache[q].result] /\ pc' = [pc EXCEPT ![t] = "reply"]
  <2>1. /\ Shown' = Shown /\ Promised' = Promised
        /\ Asked' = [Asked EXCEPT ![t] = {}]
        /\ Answered' = [Answered EXCEPT ![t] = {cache[q].result}]
    BY <1>1, <1>3, OneSearch DEF Threads
  <2>2. Between(q, cache[q].result)
    BY <1>3, CachedAnswer DEF RefInv
  <2> QED BY <1>2, <2>1, <2>2, Answers
<1>4. CASE pc' = [pc EXCEPT ![t] = "finalize"] /\ result' = result
  <2>1. /\ Shown' = Shown /\ Promised' = Promised
        /\ Asked' = [Asked EXCEPT ![t] = {q}]
        /\ Answered' = [Answered EXCEPT ![t] = {}]
    BY <1>1, <1>4, OneSearch DEF Threads
  <2>2. Answered' = Answered
    BY <1>2, <2>1 DEF Answered
  <2>3. AtomicIndex!Ask(t, q)
    BY <1>2, <2>1, <2>2 DEF AtomicIndex!Ask, AtomicIndex!Rests
  <2> QED BY <2>3 DEF AtomicIndex!Change
<1> QED BY <1>3, <1>4 DEF Lookup

\* What the scan finds has everything acknowledged: its terms have bounds.
LEMMA ScanRefines ==
  ASSUME IInv, RefInv, NEW t \in Searchers, Scan(t) \/ ScanEmptyQuery(t)
  PROVE  AtomicIndex!Change
<1> DEFINE A == result'[t]
<1>1. /\ pc[t] = "scan" /\ t \in Threads /\ writer = NoThread
      /\ UNCHANGED <<docs, acked, writer, old, query>>
      /\ pc \in [Threads -> Places] /\ result \in [Threads -> SUBSET (Nat \X Doc)]
  BY DEF Scan, ScanEmptyQuery, Go, index, mu, search, MuReadable, Threads, IInv, TypeOK
<1>2. /\ pc'[t] \in {"insert", "reply"}
      /\ \A u \in Searchers \ {t} : pc'[u] = pc[u] /\ result'[u] = result[u]
  <2>1. pc' = [pc EXCEPT ![t] = "insert"] \/ pc' = [pc EXCEPT ![t] = "reply"]
    BY DEF Scan, ScanEmptyQuery, Go
  <2>2. result' = result \/ \E r : result' = [result EXCEPT ![t] = r]
    BY DEF Scan, ScanEmptyQuery, search
  <2>3. \A u \in Searchers : u \in Threads
    BY DEF Threads
  <2>4. /\ pc'[t] \in {"insert", "reply"}
        /\ \A u \in Searchers \ {t} : pc'[u] = pc[u]
    BY <1>1, <2>1, <2>3
  <2>5. ASSUME NEW r, result' = [result EXCEPT ![t] = r]
        PROVE  \A u \in Searchers \ {t} : result'[u] = result[u]
    BY <1>1, <2>3, <2>5
  <2> QED BY <2>2, <2>4, <2>5
<1>3. query[t] \in Queries /\ Asked[t] = {query[t]}
  BY <1>1, AskedFacts DEF IInv, QueryInv
<1>4. /\ Shown' = Shown /\ Promised' = Promised
      /\ Asked' = [Asked EXCEPT ![t] = {}] /\ Answered' = [Answered EXCEPT ![t] = {A}]
  BY <1>1, <1>2, OneSearch
<1>5. Between(query[t], A)
  <2>1. CASE Scan(t)
    <3>1. A = Visible(query[t])
      BY <1>1, <2>1 DEF Scan
    <3>2. ASSUME NEW h \in Hits(query[t]), h[1] \in acked
          PROVE  query[t].terms \subseteq blocked
      <4>1. PICK i \in Ids : Matches(query[t], docs[i]) /\ h = <<i, docs[i]>>
        BY DEF Hits
      <4> QED BY <3>2, <4>1 DEF Matches, IInv, BoundsInv
    <3> QED BY <1>1, <3>1, <3>2, OpenIndex DEF Between, Visible
  <2>2. CASE ScanEmptyQuery(t)
    <3>1. A = {}
      BY <1>1, <2>2 DEF ScanEmptyQuery, search, RefInv, UnansweredInv
    <3>2. Hits(query[t]) = {}
      BY <2>2 DEF ScanEmptyQuery, Hits, Matches
    <3> QED BY <1>1, <3>1, <3>2, OpenIndex DEF Between
  <2> QED BY <2>1, <2>2
<1> HIDE DEF A
<1> QED BY <1>3, <1>4, <1>5, Answers

\* The other steps of a search.
LEMMA SearchRefines ==
  ASSUME IInv, RefInv, NEW t \in Searchers, SearchStep(t)
  PROVE  [AtomicIndex!Change]_(AtomicIndex!state)
<1> t \in Threads /\ pc \in [Threads -> Places] /\ query \in [Threads -> Query]
    /\ result \in [Threads -> SUBSET (Nat \X Doc)]
  BY DEF Threads, IInv, TypeOK
<1>1. CASE SearchFinalize(t) \/ Insert(t)
  <2>1. /\ UNCHANGED <<docs, acked, writer, old, query, result>>
        /\ \A u \in Searchers \ {t} : pc'[u] = pc[u]
        /\ \/ pc[t] = "finalize" /\ pc'[t] = "scan"
           \/ pc[t] = "insert" /\ pc'[t] = "reply"
    <3>1. UNCHANGED <<docs, acked, writer, old, query, result>>
      BY <1>1 DEF SearchFinalize, Insert, mu, index, search
    <3>2. Go(t, "finalize", "scan") \/ Go(t, "insert", "reply")
      BY <1>1 DEF SearchFinalize, Insert
    <3> QED BY <3>1, <3>2, GoFacts DEF Threads, IInv
  <2>2. Shown' = Shown /\ Promised' = Promised /\ Asked' = Asked /\ Answered' = Answered
    BY <2>1 DEF Shown, Promised, Asked, Answered
  <2> QED BY <2>2 DEF AtomicIndex!state
<1>2. CASE Reply(t)
  <2>1. /\ UNCHANGED <<docs, acked, writer, old>> /\ pc[t] = "reply" /\ pc'[t] = "idle"
        /\ \A u \in Searchers \ {t} : pc'[u] = pc[u] /\ query'[u] = query[u] /\ result'[u] = result[u]
    BY <1>2 DEF Reply, Go, mu, index
  <2>2. /\ Shown' = Shown /\ Promised' = Promised
        /\ Asked' = [Asked EXCEPT ![t] = {}] /\ Answered' = [Answered EXCEPT ![t] = {}]
    BY <2>1, OneSearch
  <2>3. Asked[t] = {} /\ Answered[t] # {}
    BY <2>1, AskedFacts
  <2>4. Asked' = Asked
    BY <2>2, <2>3 DEF Asked
  <2>5. AtomicIndex!Reply(t)
    BY <2>2, <2>3, <2>4 DEF AtomicIndex!Reply
  <2> QED BY <2>5 DEF AtomicIndex!Change
<1>3. CASE Scan(t) \/ ScanEmptyQuery(t)
  BY <1>3, ScanRefines
<1> QED BY <1>1, <1>2, <1>3 DEF SearchStep

\* A notification adds and acknowledges, a load adds; a Reset clears once, when
\* it lets go of mu.
LEMMA OthersRefine ==
  ASSUME IInv, RefInv, NEW t \in Notifiers \cup Loaders,
         (\E f \in Files : NotifyRead(t, f)) \/ NotifyStep(t) \/ Reset(t) \/ LoadStep(t)
  PROVE  [AtomicIndex!Change]_(AtomicIndex!state)
<1>1. Asked' = Asked /\ Answered' = Answered /\ t \in Threads
  BY OthersRun, NoSearch DEF IInv, Threads, Loaders
<1>2. CASE AddDocument(t)
  <2>1. Head(pending[t]) \in Doc
    BY <1>1, <1>2 DEF AddDocument, IInv, TypeOK
  <2>2. AtomicIndex!Add(Head(pending[t]))
    BY <1>1, <1>2 DEF AddDocument, AtomicIndex!Add, MuFree, mu, Shown, Promised
  <2> QED BY <2>1, <2>2 DEF AtomicIndex!Change
<1>3. CASE Invalidate(t)
  <2>1. UNCHANGED <<docs, writer, old>> /\ acked' = acked \cup mine[t] /\ mine[t] \subseteq DOMAIN docs
    BY <1>1, <1>3 DEF Invalidate, index, mu, IInv, BoundsInv, Ids
  <2>2. CASE writer = NoThread
    <3>1. AtomicIndex!Acknowledge(mine[t])
      BY <1>1, <2>1, <2>2 DEF AtomicIndex!Acknowledge, Shown, Promised
    <3>2. mine[t] \in SUBSET DOMAIN Shown
      BY <2>1, <2>2 DEF Shown
    <3> QED BY <3>1, <3>2 DEF AtomicIndex!Change
  <2>3. CASE writer # NoThread
    BY <1>1, <2>1, <2>3 DEF AtomicIndex!state, Shown, Promised
  <2> QED BY <2>2, <2>3
<1>4. CASE ResetCache(t)
  <2>1. /\ writer = t /\ t # NoThread /\ writer' = NoThread
        /\ docs' = docs /\ acked' = acked
    BY <1>1, <1>4, ThreadsOK DEF ResetCache, Go, index, IInv, LockInv, Threads, Loaders
  <2>2. docs = <<>>
    BY <2>1 DEF RefInv, WindowInv
  <2>3. acked = {}
    BY <2>2 DEF IInv, BoundsInv, Ids
  <2>4. AtomicIndex!Clear
    BY <1>1, <2>1, <2>2, <2>3 DEF AtomicIndex!Clear, Shown, Promised
  <2> QED BY <2>4 DEF AtomicIndex!Change
<1>5. CASE Reset(t)
  <2>1. writer = NoThread /\ writer' # NoThread /\ old' = [docs |-> docs, acked |-> acked]
    BY <1>1, <1>5, ThreadsOK DEF Reset, MuFree, Threads, Loaders
  <2> QED BY <1>1, <2>1 DEF Shown, Promised, AtomicIndex!state
<1>6. CASE \/ \E f \in Files : NotifyRead(t, f) \/ LoadFile(t, f)
           \/ AddFile(t) \/ NotifyFinalize(t) \/ Glob(t) \/ LoadFinalize(t) \/ SetReady(t)
  <2>1. UNCHANGED <<docs, acked, writer, old>>
    BY <1>6 DEF NotifyRead, LoadFile, AddFile, NotifyFinalize, Glob, LoadFinalize, SetReady,
                index, mu
  <2> QED BY <1>1, <2>1 DEF Shown, Promised, AtomicIndex!state
<1> QED BY <1>2, <1>3, <1>4, <1>5, <1>6 DEF NotifyStep, LoadStep

\* One lemma for each kind of step.
LEMMA StepRefines ==
  ASSUME IInv, RefInv, [Next]_vars
  PROVE  [AtomicIndex!Change]_(AtomicIndex!state)
<1>1. CASE (\E q \in Queries : Expire(q)) \/ (\E f \in Files : Upload(f)) \/ UNCHANGED vars
  <2>1. UNCHANGED <<docs, acked, writer, old, pc, query, result>>
    BY <1>1 DEF Expire, Upload, vars, index, mu, search
  <2> QED BY <2>1 DEF Shown, Promised, Asked, Answered, AtomicIndex!state
<1> QED BY <1>1, LookupRefines, SearchRefines, OthersRefine DEF Next, Loaders

\* Nobody can tell the index with its cache, its two locks, its late bounds and
\* its loads from one that changes and answers in single steps: every search has
\* a moment at which its answer was right.
THEOREM SearchIndexImplementsAtomicIndex == Spec => ImplementsAtomicIndex
<1>1. Init => AtomicIndex!Begin
  <2> SUFFICES ASSUME Init PROVE AtomicIndex!Begin
    OBVIOUS
  <2>1. \A t \in Searchers : pc[t] = "idle"
    BY ThreadsOK DEF Init, Threads
  <2>2. Asked = [t \in Searchers |-> {}] /\ Answered = [t \in Searchers |-> {}]
    BY <2>1 DEF Asked, Answered
  <2> QED BY <2>2 DEF Init, AtomicIndex!Begin, Shown, Promised
<1>2. Spec => []RefInv
  BY NextRefInv, Inductive, PTL DEF Spec
<1> QED
  BY <1>1, <1>2, StepRefines, Inductive, PTL DEF Spec, ImplementsAtomicIndex, AtomicIndex!AtomicIndex
=============================================================================
