------------------------- MODULE SearchIndexProofs -------------------------
(***************************************************************************)
(* Proofs about SearchIndex, for every set of terms, queries, files and    *)
(* requests: the inductive invariant IInv, and from it type correctness,   *)
(* CacheSound and ReadYourIngest.                                          *)
(***************************************************************************)
EXTENDS SearchIndex, FiniteSetTheorems, TLAPS

USE QueriesOK, FilesOK, CacheMaxOK, ThreadsOK

-----------------------------------------------------------------------------
(* Type correctness.                                                       *)

\* The records the variables hold.
LEMMA RecordTypes ==
  /\ EmptyQuery \in Query
  /\ Queries \subseteq Query
  /\ Absent \in Entry
  /\ \A e \in Entry : e.result \in SUBSET (Nat \X Doc)
  /\ \A e \in Entry : [e EXCEPT !.state = "expired"] \in Entry
  /\ \A r \in SUBSET (Nat \X Doc) : [state |-> "live", result |-> r] \in Entry
  /\ \A d \in Doc : d.terms \subseteq Terms
  /\ Nothing \in [docs : Seq(Doc), acked : SUBSET Nat]
BY DEF EmptyQuery, Query, Absent, Entry, Doc, Nothing

\* What the scan returns are postings.
LEMMA VisibleType ==
  ASSUME TypeOK, NEW q
  PROVE  Visible(q) \in SUBSET (Nat \X Doc)
BY DEF TypeOK, Visible, Hits, Ids

\* Init establishes the types.
LEMMA InitTypeOK == Init => TypeOK
<1> SUFFICES ASSUME Init PROVE TypeOK
  OBVIOUS
<1> USE DEF Init
<1>1. /\ docs \in Seq(Doc) /\ files \in Seq(Files)
      /\ cache \in [Queries -> Entry]
      /\ query \in [Threads -> Query]
      /\ old \in [docs : Seq(Doc), acked : SUBSET Nat]
  BY RecordTypes
<1>2. pc \in [Threads -> Places]
  BY DEF Places
<1>3. /\ result \in [Threads -> SUBSET (Nat \X Doc)]
      /\ toLoad \in [Threads -> SUBSET Files]
      /\ file \in [Threads -> Files \cup {NoFile}]
      /\ mine \in [Threads -> SUBSET Nat] /\ must \in [Threads -> SUBSET Nat]
  OBVIOUS
<1>4. pending \in [Threads -> Seq(Doc)]
  OBVIOUS
<1> QED BY <1>1, <1>2, <1>3, <1>4 DEF TypeOK

\* Every step of a search keeps the types.
LEMMA SearchTypeOK ==
  ASSUME TypeOK, NEW t \in Searchers,
         (\E q \in Queries : Lookup(t, q)) \/ SearchStep(t)
  PROVE  TypeOK'
<1> t \in Threads BY DEF Threads
<1> USE DEF TypeOK, vars, index, mu, search, load, Go, Places
<1>1. CASE \E q \in Queries : Lookup(t, q)
  <2>1. PICK q \in Queries : Lookup(t, q)
    BY <1>1
  <2>2. cache[q].result \in SUBSET (Nat \X Doc) /\ q \in Query
    BY RecordTypes
  <2>3. /\ query' \in [Threads -> Query]
        /\ result' \in [Threads -> SUBSET (Nat \X Doc)]
        /\ must' \in [Threads -> SUBSET Nat]
    BY <2>1, <2>2 DEF Lookup
  <2>4. /\ pc' \in [Threads -> Places]
        /\ \A u \in Threads : pc'[u] = "add" => pc[u] = "add"
    BY <2>1 DEF Lookup
  <2> QED BY <2>1, <2>3, <2>4 DEF Lookup
<1>2. CASE SearchFinalize(t)
  BY <1>2 DEF SearchFinalize, FinalizeLocked, Ids
<1>3. CASE Scan(t)
  BY <1>3, VisibleType DEF Scan
<1>4. CASE ScanEmptyQuery(t)
  BY <1>4 DEF ScanEmptyQuery
<1>5. CASE Insert(t)
  <2>1. PICK victim : cache' = [cache EXCEPT
                   ![victim] = Absent,
                   ![query[t]] = [state |-> "live", result |-> result[t]]]
    BY <1>5 DEF Insert
  <2>2. cache' \in [Queries -> Entry]
    BY <2>1, RecordTypes
  <2> QED BY <1>5, <2>2 DEF Insert
<1>6. CASE Reply(t)
  BY <1>6, RecordTypes DEF Reply
<1> QED BY <1>1, <1>2, <1>3, <1>4, <1>5, <1>6 DEF SearchStep

\* Every step of an ingest notification keeps the types.
LEMMA NotifyTypeOK ==
  ASSUME TypeOK, NEW t \in Threads,
         (\E f \in Files : NotifyRead(t, f)) \/ NotifyStep(t)
  PROVE  TypeOK'
<1> USE DEF TypeOK, vars, index, mu, search, load, Go, Places
<1>1. CASE \E f \in Files : NotifyRead(t, f)
  <2>1. PICK f \in Files : NotifyRead(t, f)
    BY <1>1
  <2>2. Content[f] \in Seq(Doc)
    OBVIOUS
  <2>3. CASE Readable(f)
    <3>1. /\ pc' = [pc EXCEPT ![t] = "add"]
          /\ pending' = [pending EXCEPT ![t] = Content[f]]
          /\ file' = [file EXCEPT ![t] = f]
      BY <2>1, <2>3 DEF NotifyRead
    <3>2. /\ pending' \in [Threads -> Seq(Doc)]
          /\ file' \in [Threads -> Files \cup {NoFile}]
          /\ pc' \in [Threads -> Places]
      BY <3>1, <2>2
    <3>3. \A u \in Threads : pc'[u] = "add" => file'[u] \in Files
      BY <3>1
    <3> QED BY <2>1, <3>2, <3>3 DEF NotifyRead
  <2>4. CASE ~Readable(f)
    BY <2>1, <2>4 DEF NotifyRead
  <2> QED BY <2>1, <2>3, <2>4 DEF NotifyRead
<1>2. CASE AddDocument(t)
  BY <1>2, RecordTypes DEF AddDocument
<1>3. CASE AddFile(t)
  BY <1>3 DEF AddFile
<1>4. CASE NotifyFinalize(t)
  BY <1>4 DEF NotifyFinalize, FinalizeLocked
<1>5. CASE Invalidate(t)
  BY <1>5, RecordTypes DEF Invalidate
<1> QED BY <1>1, <1>2, <1>3, <1>4, <1>5 DEF NotifyStep

\* Every step of a reindex or of the bulk load keeps the types.
LEMMA LoadTypeOK ==
  ASSUME TypeOK, NEW t \in Loaders, Reset(t) \/ LoadStep(t)
  PROVE  TypeOK'
<1> t \in Threads BY DEF Threads
<1> USE DEF TypeOK, vars, index, mu, search, load, Go, Places
<1>1. CASE Reset(t)
  <2>1. /\ docs' \in Seq(Doc) /\ files' \in Seq(Files)
        /\ mine' \in [Threads -> SUBSET Nat] /\ must' \in [Threads -> SUBSET Nat]
    BY <1>1 DEF Reset
  <2>2. /\ pc' \in [Threads -> Places]
        /\ \A u \in Threads : pc'[u] = "add" => pc[u] = "add"
    BY <1>1 DEF Reset
  <2> QED BY <1>1, <2>1, <2>2 DEF Reset
<1>2. CASE ResetCache(t)
  BY <1>2, RecordTypes DEF ResetCache
<1>3. CASE Glob(t)
  BY <1>3 DEF Glob
<1>4. CASE \E f \in Files : LoadFile(t, f)
  <2>1. PICK f \in Files : LoadFile(t, f)
    BY <1>4
  <2>2. Content[f] \in Seq(Doc)
    OBVIOUS
  <2>3. CASE Readable(f)
    <3>1. /\ pc' = [pc EXCEPT ![t] = "add"]
          /\ pending' = [pending EXCEPT ![t] = Content[f]]
          /\ file' = [file EXCEPT ![t] = f]
      BY <2>1, <2>3 DEF LoadFile
    <3>2. /\ pending' \in [Threads -> Seq(Doc)]
          /\ file' \in [Threads -> Files \cup {NoFile}]
          /\ pc' \in [Threads -> Places]
      BY <3>1, <2>2
    <3>3. \A u \in Threads : pc'[u] = "add" => file'[u] \in Files
      BY <3>1
    <3> QED BY <2>1, <3>2, <3>3 DEF LoadFile
  <2>4. CASE ~Readable(f)
    BY <2>1, <2>4 DEF LoadFile
  <2> QED BY <2>1, <2>3, <2>4 DEF LoadFile
<1>5. CASE AddDocument(t) \/ AddFile(t)
  BY <1>5, NotifyTypeOK DEF NotifyStep
<1>6. CASE LoadFinalize(t)
  BY <1>6 DEF LoadFinalize, FinalizeLocked
<1>7. CASE SetReady(t)
  BY <1>7 DEF SetReady
<1> QED BY <1>1, <1>2, <1>3, <1>4, <1>5, <1>6, <1>7 DEF LoadStep

\* Every step keeps the types.
LEMMA NextTypeOK == TypeOK /\ [Next]_vars => TypeOK'
<1> SUFFICES ASSUME TypeOK, [Next]_vars PROVE TypeOK'
  OBVIOUS
<1>1. CASE \E t \in Searchers : (\E q \in Queries : Lookup(t, q)) \/ SearchStep(t)
  BY <1>1, SearchTypeOK
<1>2. CASE \E t \in Notifiers : (\E f \in Files : NotifyRead(t, f)) \/ NotifyStep(t)
  BY <1>2, NotifyTypeOK DEF Threads
<1>3. CASE \E t \in Loaders : Reset(t) \/ LoadStep(t)
  BY <1>3, LoadTypeOK
<1>4. CASE \E q \in Queries : Expire(q)
  <2>1. PICK q \in Queries : Expire(q)
    BY <1>4
  <2>2. [cache[q] EXCEPT !.state = "expired"] \in Entry
    BY RecordTypes DEF TypeOK
  <2>3. cache' = [cache EXCEPT ![q] = [cache[q] EXCEPT !.state = "expired"]]
    BY <2>1 DEF Expire
  <2>4. cache' \in [Queries -> Entry]
    BY <2>2, <2>3 DEF TypeOK
  <2> QED BY <2>1, <2>4 DEF Expire, TypeOK, index, mu, search, load
<1>5. CASE \E f \in Files : Upload(f)
  BY <1>5 DEF Upload, TypeOK, index, mu, search, load
<1>6. CASE UNCHANGED vars
  BY <1>6 DEF TypeOK, vars, index, mu, search, load
<1> QED BY <1>1, <1>2, <1>3, <1>4, <1>5, <1>6 DEF Next, Loaders

\* Every variable has its type in every reachable state.
THEOREM TypeCorrect == Spec => []TypeOK
BY InitTypeOK, NextTypeOK, PTL DEF Spec

-----------------------------------------------------------------------------
(* The inductive invariant.                                                *)

Inv == /\ LockInv /\ QueryInv /\ BoundsInv
       /\ AnswerInv /\ CacheSound /\ CacheComplete

\* Init establishes the inductive invariant.
LEMMA InitIInv == Init => IInv
<1> SUFFICES ASSUME Init PROVE IInv
  OBVIOUS
<1>1. TypeOK
  BY InitTypeOK
<1>2. \A t \in Threads : pc[t] \in {"glob", "idle"}
  BY DEF Init
<1>3. LockInv /\ QueryInv /\ AnswerInv
  BY <1>2 DEF Init, LockInv, QueryInv, AnswerInv, AnswerOK, Threads
<1>4. BoundsInv
  BY <1>2 DEF Init, BoundsInv, Ids
<1>5. CacheSound /\ CacheComplete
  BY DEF Init, CacheSound, CacheComplete, CacheHit, Absent, Hits
<1> QED BY <1>1, <1>3, <1>4, <1>5 DEF IInv

\* The answer of a search is as complete as before when neither it nor the
\* postings nor what is promised change.
LEMMA KeepAnswer ==
  ASSUME NEW s \in Threads, AnswerOK(s), UNCHANGED <<docs, acked, mine>>,
         pc'[s] = pc[s], query'[s] = query[s], result'[s] = result[s],
         must'[s] = must[s],
         \A u \in Threads : pc'[u] = "invalidate" => pc[u] = "invalidate"
  PROVE  AnswerOK(s)'
<1>1. \A i : Has(s, i)' <=> Has(s, i)
  BY DEF Has, Matches
<1>2. Hits(query[s])' = Hits(query[s])
  BY DEF Hits, Matches, Ids
<1> QED BY <1>1, <1>2 DEF AnswerOK

\* The cache is as sound and complete as before when neither it nor the
\* postings nor what is promised change.
LEMMA KeepCache ==
  ASSUME CacheSound, CacheComplete, UNCHANGED <<docs, cache, acked, writer>>
  PROVE  CacheSound' /\ CacheComplete'
<1>1. \A q : Hits(q)' = Hits(q)
  BY DEF Hits, Matches, Ids
<1>2. CacheSound'
  BY <1>1 DEF CacheSound, MuReadable
<1>3. CacheComplete'
  BY DEF CacheComplete, CacheHit, Matches
<1> QED BY <1>2, <1>3

\* A step that leaves the postings, the cache, mu and the searches alone, and
\* moves no thread to or from a place the invariant speaks of.
LEMMA QuietStep ==
  ASSUME IInv,
         UNCHANGED <<docs, blocked, dirty, mu, cache, search, mine, acked>>,
         \A u \in Threads :
           \/ pc'[u] = pc[u]
           \/ /\ u \notin Searchers /\ pc[u] # "insert"
              /\ pc'[u] \notin {"scan", "insert", "invalidate", "clearCache"}
  PROVE  Inv'
<1> USE DEF IInv, mu, search
<1>1. LockInv'
  BY DEF LockInv
<1>2. QueryInv' /\ BoundsInv'
  BY DEF QueryInv, BoundsInv, Ids, Threads
<1>3. AnswerInv'
  BY KeepAnswer DEF AnswerInv, Threads
<1>4. CacheSound' /\ CacheComplete'
  BY KeepCache
<1> QED BY <1>1, <1>2, <1>3, <1>4 DEF Inv

\* A lookup: a hit has every acknowledged document, a miss none yet.
LEMMA LookupStep ==
  ASSUME IInv, NEW t \in Searchers, NEW q \in Queries, Lookup(t, q)
  PROVE  Inv'
<1> t \in Threads BY DEF Threads
<1> USE DEF IInv, Lookup, index, mu, load
<1>1. pc[t] = "idle" /\ pc'[t] \in {"reply", "finalize"}
      /\ \A u \in Threads : u # t => pc'[u] = pc[u]
  BY DEF TypeOK
<1>2. /\ query'[t] = q /\ must'[t] = acked
      /\ \A u \in Threads : u # t => /\ query'[u] = query[u] /\ must'[u] = must[u]
                                     /\ result'[u] = result[u]
  BY DEF TypeOK
<1>3. LockInv' /\ QueryInv'
  BY <1>1, <1>2 DEF LockInv, QueryInv, Threads
<1>4. BoundsInv'
  BY <1>1, <1>2 DEF BoundsInv, Ids
<1>5. AnswerOK(t)'
  <2>1. CASE CacheHit(q)
    <3>1. \A i \in acked : Matches(q, docs[i]) => <<i, docs[i]>> \in cache[q].result
      BY <2>1 DEF CacheComplete
    <3>2. result'[t] = cache[q].result
      BY <2>1 DEF TypeOK
    <3> QED BY <1>1, <1>2, <3>1, <3>2, <2>1 DEF AnswerOK, Has, Matches, TypeOK
  <2>2. CASE ~CacheHit(q)
    BY <1>1, <2>2 DEF TypeOK, AnswerOK
  <2> QED BY <2>1, <2>2
<1>6. AnswerInv'
  BY <1>1, <1>2, <1>5, KeepAnswer DEF AnswerInv, Threads
<1>7. CacheSound' /\ CacheComplete'
  BY KeepCache
<1> QED BY <1>3, <1>4, <1>6, <1>7 DEF Inv

\* While a search holds mu, nobody else can change the postings.
LEMMA NobodyInserts ==
  ASSUME LockInv, MuFree
  PROVE  \A u \in Threads : pc[u] # "insert"
BY DEF LockInv, MuFree

\* Finalize gives bounds to every posting list.
LEMMA FinalizeBounds ==
  ASSUME BoundsInv, FinalizeLocked
  PROVE  \A i \in Ids : docs[i].terms \subseteq blocked'
BY DEF BoundsInv, FinalizeLocked

\* Search's Finalize: the scan may be asked for every document.
LEMMA SearchFinalizeStep ==
  ASSUME IInv, NEW t \in Searchers, SearchFinalize(t)
  PROVE  Inv'
<1> t \in Threads BY DEF Threads
<1> USE DEF IInv, SearchFinalize, mu, load
<1>1. pc[t] = "finalize" /\ pc'[t] = "scan"
      /\ \A u \in Threads : u # t => pc'[u] = pc[u]
  BY DEF TypeOK, Go
<1>2. must'[t] = Ids /\ \A u \in Threads : u # t => must'[u] = must[u]
  BY DEF TypeOK
<1>3. LockInv' /\ QueryInv'
  BY <1>1 DEF LockInv, QueryInv, Threads
<1>4. BoundsInv'
  BY <1>1, <1>2, FinalizeBounds DEF BoundsInv, Ids, FinalizeLocked
<1>5. AnswerOK(t)'
  BY <1>1 DEF AnswerOK
<1>6. AnswerInv'
  BY <1>1, <1>2, <1>5, KeepAnswer DEF AnswerInv, Threads
<1>7. CacheSound' /\ CacheComplete'
  BY KeepCache
<1> QED BY <1>3, <1>4, <1>6, <1>7 DEF Inv

\* The scan finds every matching document whose terms have bounds.
LEMMA ScanFinds ==
  ASSUME NEW q, NEW i \in Ids, docs[i].terms \subseteq blocked, Matches(q, docs[i])
  PROVE  <<i, docs[i]>> \in Visible(q)
BY DEF Matches, Visible, Hits

\* A scan: what was promised has bounds, so the result has it.
LEMMA ScanStep ==
  ASSUME IInv, NEW t \in Searchers, Scan(t)
  PROVE  Inv'
<1> t \in Threads BY DEF Threads
<1> USE DEF IInv, Scan, index, load
<1>1. pc[t] = "scan" /\ pc'[t] = "insert"
      /\ \A u \in Threads : u # t => pc'[u] = pc[u]
  BY DEF TypeOK, Go
<1>2. /\ result'[t] = Visible(query[t])
      /\ \A u \in Threads : u # t => result'[u] = result[u]
  BY DEF TypeOK
<1>3. LockInv' /\ QueryInv'
  BY <1>1 DEF LockInv, QueryInv, Threads, MuReadable
<1>4. BoundsInv'
  BY <1>1 DEF BoundsInv, Ids
<1>5. AnswerOK(t)'
  <2>1. \A i \in Ids : docs[i].terms \subseteq blocked => Has(t, i)'
    BY <1>2, ScanFinds DEF Has, Matches
  <2>2. result'[t] \subseteq Hits(query[t])'
    BY <1>2 DEF Visible, Hits, Ids, Matches
  <2>3. \A i \in acked' \cup must'[t] : Has(t, i)'
    BY <1>1, <2>1 DEF BoundsInv
  <2>4. \A u \in Threads : pc'[u] = "invalidate" => \A i \in mine'[u] : Has(t, i)'
    BY <1>1, <2>1 DEF BoundsInv
  <2> QED BY <1>1, <2>2, <2>3, <2>4 DEF AnswerOK
<1>6. AnswerInv'
  BY <1>1, <1>2, <1>5, KeepAnswer DEF AnswerInv, Threads
<1>7. CacheSound' /\ CacheComplete'
  BY KeepCache
<1> QED BY <1>3, <1>4, <1>6, <1>7 DEF Inv

\* The early return of an empty query, which matches nothing.
LEMMA ScanEmptyQueryStep ==
  ASSUME IInv, NEW t \in Searchers, ScanEmptyQuery(t)
  PROVE  Inv'
<1> t \in Threads BY DEF Threads
<1> USE DEF IInv, ScanEmptyQuery, index, mu, search, load
<1>1. pc[t] = "scan" /\ pc'[t] = "reply"
      /\ \A u \in Threads : u # t => pc'[u] = pc[u]
  BY DEF TypeOK, Go
<1>3. LockInv' /\ QueryInv'
  BY <1>1 DEF LockInv, QueryInv, Threads
<1>4. BoundsInv'
  BY <1>1 DEF BoundsInv, Ids
<1>5. AnswerOK(t)'
  BY <1>1 DEF AnswerOK, Has, Matches
<1>6. AnswerInv'
  BY <1>1, <1>5, KeepAnswer DEF AnswerInv, Threads
<1>7. CacheSound' /\ CacheComplete'
  BY KeepCache
<1> QED BY <1>3, <1>4, <1>6, <1>7 DEF Inv

\* The insertion: the entry is as sound and complete as the result.
LEMMA InsertStep ==
  ASSUME IInv, NEW t \in Searchers, Insert(t)
  PROVE  Inv'
<1> t \in Threads BY DEF Threads
<1> USE DEF IInv, index, search, load
<1>1. pc[t] = "insert" /\ pc'[t] = "reply"
      /\ \A u \in Threads : u # t => pc'[u] = pc[u]
  BY DEF TypeOK, Go, Insert
<1>2. UNCHANGED <<index, writer, disk, search, load, acked>> /\ readers' = readers \ {t}
  BY DEF Insert
<1>3. LockInv' /\ QueryInv'
  BY <1>1, <1>2 DEF LockInv, QueryInv, Threads
<1>4. BoundsInv'
  BY <1>1, <1>2 DEF BoundsInv, Ids
<1>5. AnswerOK(t)
  BY DEF AnswerInv
<1>6. AnswerOK(t)'
  BY <1>1, <1>2, <1>5 DEF AnswerOK, Has, Matches
<1>7. AnswerInv'
  BY <1>1, <1>2, <1>6, KeepAnswer DEF AnswerInv, Threads
<1>8. PICK victim : cache' = [cache EXCEPT
                 ![victim] = Absent,
                 ![query[t]] = [state |-> "live", result |-> result[t]]]
  BY DEF Insert
<1>9. \A q \in Queries : \/ cache'[q] = cache[q]
                         \/ cache'[q] = Absent
                         \/ /\ q = query[t]
                            /\ cache'[q] = [state |-> "live", result |-> result[t]]
  BY <1>8 DEF TypeOK
<1>10. \A q : Hits(q)' = Hits(q)
  BY <1>2 DEF Hits, Matches, Ids
<1>11. CacheSound'
  BY <1>1, <1>2, <1>5, <1>9, <1>10 DEF CacheSound, MuReadable, AnswerOK, Absent
<1>12. CacheComplete'
  BY <1>1, <1>2, <1>5, <1>9 DEF CacheComplete, CacheHit, AnswerOK, Absent, Has, Matches
<1> QED BY <1>3, <1>4, <1>7, <1>11, <1>12 DEF Inv

\* The end of a request.
LEMMA ReplyStep ==
  ASSUME IInv, NEW t \in Searchers, Reply(t)
  PROVE  Inv'
<1> t \in Threads BY DEF Threads
<1> USE DEF IInv, Reply, index, mu, load
<1>1. pc[t] = "reply" /\ pc'[t] = "idle"
      /\ \A u \in Threads : u # t => pc'[u] = pc[u]
  BY DEF TypeOK, Go
<1>2. /\ must'[t] = {}
      /\ \A u \in Threads : u # t => /\ query'[u] = query[u] /\ must'[u] = must[u]
                                     /\ result'[u] = result[u]
  BY DEF TypeOK
<1>3. LockInv' /\ QueryInv'
  BY <1>1, <1>2, ZenonT(40) DEF LockInv, QueryInv, Threads
<1>4. BoundsInv'
  BY <1>1, <1>2 DEF BoundsInv, Ids
<1>5. AnswerOK(t)'
  BY <1>1 DEF AnswerOK
<1>6. AnswerInv'
  BY <1>1, <1>2, <1>5, KeepAnswer DEF AnswerInv, Threads
<1>7. CacheSound' /\ CacheComplete'
  BY KeepCache
<1> QED BY <1>3, <1>4, <1>6, <1>7 DEF Inv

\* An entry that expires is no longer asked to be complete.
LEMMA ExpireStep ==
  ASSUME IInv, NEW q \in Queries, Expire(q)
  PROVE  Inv'
<1> USE DEF IInv, Expire, index, mu, search, load
<1>1. LockInv' /\ QueryInv'
  BY DEF LockInv, QueryInv
<1>2. BoundsInv'
  BY DEF BoundsInv, Ids
<1>3. AnswerInv'
  BY KeepAnswer DEF AnswerInv, Threads
<1>4. \A p \in Queries : /\ cache'[p].result = cache[p].result
                         /\ CacheHit(p)' => CacheHit(p)
  BY DEF TypeOK, Entry, CacheHit
<1>5. \A p : Hits(p)' = Hits(p)
  BY DEF Hits, Matches, Ids
<1>6. CacheSound'
  BY <1>4, <1>5 DEF CacheSound, MuReadable
<1>7. CacheComplete'
  BY <1>4 DEF CacheComplete, Matches
<1> QED BY <1>1, <1>2, <1>3, <1>6, <1>7 DEF Inv

\* What appending a document does to the postings.
LEMMA AppendFacts ==
  ASSUME TypeOK, NEW d \in Doc, docs' = Append(docs, d)
  PROVE  /\ Ids' = Ids \cup {Len(docs) + 1}
         /\ docs'[Len(docs) + 1] = d
         /\ \A i \in Ids : docs'[i] = docs[i]
         /\ \A q : Hits(q) \subseteq Hits(q)'
<1>1. docs \in Seq(Doc)
  BY DEF TypeOK
<1>2. Ids' = Ids \cup {Len(docs) + 1} /\ docs'[Len(docs) + 1] = d
      /\ \A i \in Ids : docs'[i] = docs[i]
  BY <1>1 DEF Ids
<1>3. ASSUME NEW q PROVE Hits(q) \subseteq Hits(q)'
  BY <1>2 DEF Hits, Matches
<1> QED BY <1>2, <1>3

\* A new document: no search holds a result, and nobody has promised it.
LEMMA AddDocumentStep ==
  ASSUME IInv, NEW t \in Threads, AddDocument(t)
  PROVE  Inv'
<1> USE DEF IInv, AddDocument, mu, search
<1>1. LockInv' /\ QueryInv'
  BY DEF LockInv, QueryInv
<1> DEFINE d == Head(pending[t])
<1>2. d \in Doc
  BY DEF TypeOK
<1>3. /\ Ids' = Ids \cup {Len(docs) + 1}
      /\ docs'[Len(docs) + 1] = d
      /\ \A i \in Ids : docs'[i] = docs[i]
      /\ \A q : Hits(q) \subseteq Hits(q)'
  BY <1>2, AppendFacts
<1>4. mine'[t] = mine[t] \cup {Len(docs) + 1} /\ \A u \in Threads : u # t => mine'[u] = mine[u]
  BY DEF TypeOK
<1> HIDE DEF d
<1>5. dirty' = dirty \cup d.terms
  BY DEF d
<1>6. BoundsInv'
  BY <1>3, <1>4, <1>5 DEF BoundsInv
<1>7. \A u \in Threads : pc[u] # "insert"
  BY NobodyInserts
<1>8. AnswerInv'
  BY <1>3, <1>7 DEF AnswerInv, AnswerOK, Has, Matches, BoundsInv, Threads
<1>9. CacheSound'
  BY <1>3 DEF CacheSound, MuReadable
<1>10. CacheComplete'
  BY <1>3 DEF CacheComplete, CacheHit, Matches, BoundsInv
<1> QED BY <1>1, <1>6, <1>8, <1>9, <1>10 DEF Inv

\* Finalize by a notification: its documents have bounds before it promises
\* them, and no search is holding a result that lacks them.
LEMMA NotifyFinalizeStep ==
  ASSUME IInv, NEW t \in Notifiers, NotifyFinalize(t)
  PROVE  Inv'
<1> t \in Threads /\ t \notin Searchers BY DEF Threads
<1> USE DEF IInv, NotifyFinalize, mu, search, load
<1>1. pc[t] = "finalize" /\ pc'[t] = "invalidate"
      /\ \A u \in Threads : u # t => pc'[u] = pc[u]
  BY DEF TypeOK, Go
<1>2. LockInv' /\ QueryInv'
  BY <1>1 DEF LockInv, QueryInv, Threads
<1>3. BoundsInv'
  BY <1>1, FinalizeBounds DEF BoundsInv, Ids, FinalizeLocked
<1>4. \A u \in Threads : pc[u] # "insert"
  BY NobodyInserts
<1>5. AnswerInv'
  BY <1>1, <1>4 DEF AnswerInv, AnswerOK, Has, Matches, Threads
<1>6. CacheSound' /\ CacheComplete'
  BY KeepCache
<1> QED BY <1>2, <1>3, <1>5, <1>6 DEF Inv

\* Finalize by a reindex or the bulk load.
LEMMA LoadFinalizeStep ==
  ASSUME IInv, NEW t \in Loaders, LoadFinalize(t)
  PROVE  Inv'
<1> t \in Threads /\ t \notin Searchers BY DEF Threads, Loaders
<1> USE DEF IInv, LoadFinalize, mu, search, load
<1>1. pc[t] = "load" /\ pc'[t] = "setReady"
      /\ \A u \in Threads : u # t => pc'[u] = pc[u]
  BY DEF TypeOK, Go
<1>2. LockInv' /\ QueryInv'
  BY <1>1 DEF LockInv, QueryInv, Threads
<1>3. BoundsInv'
  BY <1>1, FinalizeBounds DEF BoundsInv, Ids, FinalizeLocked
<1>4. AnswerInv'
  BY <1>1, KeepAnswer DEF AnswerInv, Threads
<1>5. CacheSound' /\ CacheComplete'
  BY KeepCache
<1> QED BY <1>2, <1>3, <1>4, <1>5 DEF Inv

\* The invalidation promises documents that every result in flight has.
LEMMA InvalidateStep ==
  ASSUME IInv, NEW t \in Notifiers, Invalidate(t)
  PROVE  Inv'
<1> t \in Threads /\ t \notin Searchers BY DEF Threads
<1> USE DEF IInv, Invalidate, index, mu, search
<1>1. pc[t] = "invalidate" /\ pc'[t] = "done"
      /\ \A u \in Threads : u # t => pc'[u] = pc[u]
  BY DEF TypeOK, Go
<1>2. acked' = acked \cup mine[t] /\ mine'[t] = {}
      /\ \A u \in Threads : u # t => mine'[u] = mine[u]
  BY DEF TypeOK
<1>3. LockInv' /\ QueryInv'
  BY <1>1 DEF LockInv, QueryInv, Threads
<1>4. BoundsInv'
  BY <1>1, <1>2 DEF BoundsInv, Ids
<1>5. \A s, i : Has(s, i)' <=> Has(s, i)
  BY DEF Has, Matches
<1>6. \A s : Hits(query[s])' = Hits(query[s])
  BY DEF Hits, Matches, Ids
<1>7. ASSUME NEW s \in Searchers PROVE AnswerOK(s)'
  <2>1. AnswerOK(s) /\ pc'[s] = pc[s] /\ s \in Threads
    BY <1>1 DEF AnswerInv, Threads
  <2>2. CASE pc[s] = "insert"
    <3>1. \A i \in acked' \cup must'[s] : Has(s, i)'
      BY <1>1, <1>2, <1>5, <2>1, <2>2 DEF AnswerOK
    <3>2. \A u \in Threads : pc'[u] = "invalidate" => \A i \in mine'[u] : Has(s, i)'
      BY <1>1, <1>2, <1>5, <2>1, <2>2 DEF AnswerOK
    <3> QED BY <1>6, <2>1, <2>2, <3>1, <3>2 DEF AnswerOK
  <2>3. CASE pc[s] # "insert"
    BY <1>5, <2>1, <2>3 DEF AnswerOK
  <2> QED BY <2>2, <2>3
<1>8. CacheSound' /\ CacheComplete'
  BY DEF CacheSound, CacheComplete, CacheHit, Absent
<1>9. AnswerInv'
  BY <1>7 DEF AnswerInv
<1> QED BY <1>3, <1>4, <1>8, <1>9 DEF Inv

\* Reset takes back every promise before it empties the cache.
LEMMA ResetStep ==
  ASSUME IInv, NEW t \in Reindexers, Reset(t)
  PROVE  Inv'
<1> t \in Threads /\ t # NoThread BY DEF Threads, Loaders
<1> USE DEF IInv, Reset
<1>1. pc[t] = "idle" /\ pc'[t] = "clearCache"
      /\ \A u \in Threads : u # t => pc'[u] = pc[u]
  BY DEF TypeOK, Go
<1>2. \A u \in Threads : pc[u] # "insert" /\ pc[u] # "clearCache"
  BY NobodyInserts DEF LockInv, MuFree, Threads, Loaders
<1>3. LockInv'
  BY <1>1, <1>2 DEF LockInv, MuFree
<1>4. QueryInv'
  BY <1>1 DEF QueryInv, Threads
<1>5. acked' = {} /\ \A u \in Threads : mine'[u] = {} /\ must'[u] = {}
  OBVIOUS
<1>6. BoundsInv'
  BY <1>5 DEF BoundsInv, Ids
<1>7. AnswerInv'
  <2>1. \A u \in Threads : pc'[u] # "insert"
    BY <1>1, <1>2
  <2>2. \A u \in Searchers : u \in Threads
    BY DEF Threads
  <2> QED BY <1>5, <2>1, <2>2 DEF AnswerInv, AnswerOK
<1>8. CacheSound' /\ CacheComplete'
  BY <1>5 DEF CacheSound, CacheComplete, MuReadable
<1> QED BY <1>3, <1>4, <1>6, <1>7, <1>8 DEF Inv

\* The second half of Reset: mu is free again, and the cache empty.
LEMMA ResetCacheStep ==
  ASSUME IInv, NEW t \in Loaders, ResetCache(t)
  PROVE  Inv'
<1> t \in Threads /\ t \notin Searchers BY DEF Threads, Loaders
<1> USE DEF IInv, ResetCache, index, search, load
<1>1. pc[t] = "clearCache" /\ pc'[t] = "glob"
      /\ \A u \in Threads : u # t => pc'[u] = pc[u]
  BY DEF TypeOK, Go
<1>2. LockInv' /\ QueryInv'
  BY <1>1 DEF LockInv, QueryInv, Threads
<1>3. BoundsInv'
  BY <1>1 DEF BoundsInv, Ids
<1>4. AnswerInv'
  BY <1>1, KeepAnswer DEF AnswerInv, Threads
<1>5. CacheSound' /\ CacheComplete'
  BY DEF CacheSound, CacheComplete, CacheHit, Absent
<1> QED BY <1>2, <1>3, <1>4, <1>5 DEF Inv

\* The steps the invariant does not notice.
LEMMA OtherSteps ==
  ASSUME IInv, NEW t \in Notifiers \cup Loaders,
         \/ \E f \in Files : NotifyRead(t, f) /\ t \in Notifiers
         \/ AddFile(t) \/ Glob(t) \/ SetReady(t)
         \/ \E f \in Files : LoadFile(t, f)
  PROVE  Inv'
<1>1. t \in Threads /\ t \notin Searchers
  BY DEF Threads, Loaders
<1>2. UNCHANGED <<docs, blocked, dirty, mu, cache, search, mine, acked>>
  BY DEF NotifyRead, AddFile, Glob, SetReady, LoadFile, index, load, mu, search
<1>3. /\ \A u \in Threads : u # t => pc'[u] = pc[u]
      /\ \/ pc'[t] = pc[t]
         \/ /\ pc[t] # "insert"
            /\ pc'[t] \notin {"scan", "insert", "invalidate", "clearCache"}
  BY <1>1 DEF NotifyRead, AddFile, Glob, SetReady, LoadFile, Go, IInv, TypeOK
<1> QED BY <1>1, <1>2, <1>3, QuietStep

\* Every step preserves the inductive invariant.
LEMMA NextIInv == IInv /\ [Next]_vars => IInv'
<1> SUFFICES ASSUME IInv, [Next]_vars PROVE Inv'
  BY NextTypeOK DEF IInv, Inv
<1>1. ASSUME NEW t \in Searchers, (\E q \in Queries : Lookup(t, q)) \/ SearchStep(t)
      PROVE  Inv'
  BY <1>1, LookupStep, SearchFinalizeStep, ScanStep, ScanEmptyQueryStep,
     InsertStep, ReplyStep DEF SearchStep
<1>2. ASSUME NEW t \in Notifiers, (\E f \in Files : NotifyRead(t, f)) \/ NotifyStep(t)
      PROVE  Inv'
  <2> t \in Threads BY DEF Threads
  <2> QED BY <1>2, OtherSteps, AddDocumentStep, NotifyFinalizeStep, InvalidateStep
          DEF NotifyStep
<1>3. ASSUME NEW t \in Loaders, LoadStep(t) PROVE Inv'
  <2> t \in Threads BY DEF Threads
  <2> QED BY <1>3, OtherSteps, AddDocumentStep, LoadFinalizeStep, ResetCacheStep
          DEF LoadStep
<1>4. ASSUME NEW f \in Files, Upload(f) PROVE Inv'
  BY <1>4, QuietStep DEF Upload, index, load
<1>5. CASE UNCHANGED vars
  BY <1>5, QuietStep DEF vars, index, load
<1> QED BY <1>1, <1>2, <1>3, <1>4, <1>5, ResetStep, ExpireStep DEF Next

\* The inductive invariant holds in every reachable state.
THEOREM Inductive == Spec => []IInv
BY InitIInv, NextIInv, PTL DEF Spec

-----------------------------------------------------------------------------
(* What it gives.                                                          *)

\* No cached answer outlives the index it was computed from: outside Reset
\* the cache holds documents of the present index only (Search, Reset).
THEOREM CacheSoundness == Spec => []CacheSound
<1>1. IInv => CacheSound
  BY DEF IInv
<1> QED BY <1>1, Inductive, PTL

\* What an ingest-notify has acknowledged is in every later answer, until a
\* Reset (Search, handleIngestNotify).
THEOREM ReadYourIngestCorrect == Spec => []ReadYourIngest
<1>1. IInv => ReadYourIngest
  BY DEF IInv, AnswerInv, AnswerOK, ReadYourIngest, Has
<1> QED BY <1>1, Inductive, PTL

-----------------------------------------------------------------------------
(* The bound of the cache.                                                 *)

BoundedInv == IsFiniteSet(CachedKeys) /\ Cardinality(CachedKeys) \in 0..CacheMax

\* The insertion evicts before it adds.
LEMMA InsertBounded ==
  ASSUME IInv, BoundedInv, NEW t \in Searchers, Insert(t)
  PROVE  BoundedInv'
<1> t \in Threads BY DEF Threads
<1>1. pc[t] = "insert"
  BY DEF Insert, Go
<1>2. query[t] \in Queries
  BY <1>1 DEF IInv, QueryInv
<1> DEFINE q == query[t]
<1>3. PICK victim \in Victims(q) : cache' = [cache EXCEPT
                 ![victim] = Absent, ![q] = [state |-> "live", result |-> result[t]]]
  BY DEF Insert
<1>4. CachedKeys' = (CachedKeys \ {victim}) \cup {q}
  BY <1>2, <1>3 DEF CachedKeys, Absent, IInv, TypeOK
<1> DEFINE rest == CachedKeys \ {victim}
<1>5. /\ IsFiniteSet(rest) /\ Cardinality(rest) \in Nat
      /\ Cardinality(rest) =
           IF victim \in CachedKeys THEN Cardinality(CachedKeys) - 1
                                    ELSE Cardinality(CachedKeys)
  BY FS_RemoveElement, FS_CardinalityType DEF BoundedInv
<1>6. /\ IsFiniteSet(rest \cup {q})
      /\ Cardinality(rest \cup {q}) =
           IF q \in rest THEN Cardinality(rest) ELSE Cardinality(rest) + 1
  BY <1>5, FS_AddElement
<1> HIDE DEF rest
<1>7. Cardinality(rest) < CacheMax
  <2>1. CASE Cardinality(CachedKeys) >= CacheMax
    BY <1>3, <1>5, <2>1 DEF Victims, BoundedInv
  <2>2. CASE ~(Cardinality(CachedKeys) >= CacheMax)
    BY <1>5, <2>2 DEF BoundedInv
  <2> QED BY <2>1, <2>2
<1>8. CachedKeys' = rest \cup {q}
  BY <1>4 DEF rest
<1>9. Cardinality(rest \cup {q}) \in 0..CacheMax
  BY <1>5, <1>6, <1>7
<1> QED BY <1>6, <1>8, <1>9 DEF BoundedInv

\* Every step keeps the cache within its bound.
LEMMA NextBounded == IInv /\ BoundedInv /\ [Next]_vars => BoundedInv'
<1> SUFFICES ASSUME IInv, BoundedInv, [Next]_vars PROVE BoundedInv'
  OBVIOUS
<1>1. ASSUME CachedKeys' = {} PROVE BoundedInv'
  BY <1>1, FS_EmptySet DEF BoundedInv
<1>2. ASSUME CachedKeys' = CachedKeys PROVE BoundedInv'
  BY <1>2 DEF BoundedInv
<1>3. ASSUME cache' = [q \in Queries |-> Absent] PROVE BoundedInv'
  BY <1>1, <1>3 DEF CachedKeys, Absent
<1>4. ASSUME UNCHANGED cache PROVE BoundedInv'
  BY <1>2, <1>4 DEF CachedKeys
<1>5. ASSUME NEW t \in Searchers, (\E q \in Queries : Lookup(t, q)) \/ SearchStep(t)
      PROVE  BoundedInv'
  BY <1>4, <1>5, InsertBounded
  DEF SearchStep, Lookup, SearchFinalize, Scan, ScanEmptyQuery, Reply
<1>6. ASSUME NEW t \in Notifiers, (\E f \in Files : NotifyRead(t, f)) \/ NotifyStep(t)
      PROVE  BoundedInv'
  BY <1>3, <1>4, <1>6
  DEF NotifyRead, NotifyStep, AddDocument, AddFile, NotifyFinalize, Invalidate
<1>7. ASSUME NEW t \in Loaders, Reset(t) \/ LoadStep(t)
      PROVE  BoundedInv'
  BY <1>3, <1>4, <1>7
  DEF LoadStep, Reset, ResetCache, Glob, LoadFile, AddDocument, AddFile,
      LoadFinalize, SetReady
<1>8. ASSUME NEW q \in Queries, Expire(q) PROVE BoundedInv'
  <2>1. CachedKeys' = CachedKeys
    BY <1>8 DEF Expire, CachedKeys, IInv, TypeOK, Entry
  <2> QED BY <1>2, <2>1
<1>9. ASSUME NEW f \in Files, Upload(f) PROVE BoundedInv'
  BY <1>4, <1>9 DEF Upload
<1>10. CASE UNCHANGED vars
  BY <1>4, <1>10 DEF vars
<1> QED BY <1>5, <1>6, <1>7, <1>8, <1>9, <1>10 DEF Next, Loaders

\* The result cache never holds more than cacheMaxSize entries (Search).
THEOREM CacheIsBounded == Spec => []CacheBounded
<1>1. Init => BoundedInv
  <2> SUFFICES ASSUME Init PROVE BoundedInv
    OBVIOUS
  <2>1. CachedKeys = {}
    BY DEF Init, CachedKeys, Absent
  <2>2. IsFiniteSet({}) /\ Cardinality({}) = 0
    BY FS_EmptySet
  <2> QED BY <2>1, <2>2 DEF BoundedInv
<1>2. BoundedInv => CacheBounded
  BY DEF BoundedInv, CacheBounded
<1> QED BY <1>1, <1>2, NextBounded, Inductive, PTL DEF Spec

=============================================================================
