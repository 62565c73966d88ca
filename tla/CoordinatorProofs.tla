------------------------- MODULE CoordinatorProofs -------------------------
(***************************************************************************)
(* Proofs about Coordinator, for any number of shards, files, documents    *)
(* and requests: the inductive invariant IInv, and from it that promises   *)
(* are kept, that acknowledged files are found, and that pages are exact.  *)
(***************************************************************************)
EXTENDS Coordinator, SequenceTheorems, FiniteSetTheorems, TLAPS

USE SizesOK, DataOK, DisjointOK

-----------------------------------------------------------------------------
(* The inductive invariant.                                                *)

\* Every document of the files S is in the index of s.
Has(s, S) == \A d \in Docs : FileOf[d] \in S => held[s][d] > 0

\* What a shard has answered is in its directory, hence loaded again.
ServedInv ==
  /\ \A w \in Writers : pc[w] = "idle" => sh[w] = NoCalls
  /\ \A s \in Shards : promised[s] \subseteq Disk[s]
  /\ \A n \in Notifiers, s \in Shards : sh[n][s] = "served" => file[n] \in Disk[s]

\* What it has answered, promised or not yet, is in its index.
HeldInv ==
  \A s \in Shards : Settled(s) =>
    /\ Has(s, promised[s])
    /\ \A n \in Notifiers : sh[n][s] = "served" => Has(s, {file[n]})
    /\ \A r \in Reindexers : sh[r][s] = "served" => Has(s, Disk[s])

\* Every sure match in one of the files S is in the answer a.
Covers(a, S) == \A d \in Sure : FileOf[d] \in S => \E i \in DOMAIN a : a[i] = d

\* A whole answer that is still cached has the files acknowledged since, or about
\* to be: the shard has not been reloaded, and a notification empties the cache.
Owes(s, a) ==
  /\ Covers(a, promised[s])
  /\ \A n \in Notifiers : sh[n][s] = "served" => Covers(a, {file[n]})
  /\ \A r \in Reindexers : sh[r][s] = "served" => Covers(a, Disk[s])

Fresh(s) == \A e \in cache[s] : e.whole => Settled(s) /\ Owes(s, e.docs)
CacheInv == \A s \in Shards : Fresh(s)

\* The merge has what the shards owe that have answered so far.
Owed(t, s) ==
  /\ must[t][s] \subseteq promised[s]
  /\ co[t][s] = "failed" => s \in excused[t]
  /\ co[t][s] = "ok" /\ s \notin excused[t] => Covers(merged[t], must[t][s])
  /\ pc[t] = "wait" <=> co[t][s] # "none"

MergeInv == \A t \in Searchers, s \in Shards : Owed(t, s)

IInv == /\ TypeOK /\ ServedInv /\ HeldInv /\ CacheInv /\ MergeInv
        /\ AckedFound /\ PageExact

-----------------------------------------------------------------------------
(* Helpers.                                                                *)

\* A clamped page size is at least 1 and at most the maximum.
LEMMA PageSizeRange ==
  ASSUME NEW n \in Int
  PROVE  PageSize(n) \in 1..MaxPageSize /\ AtLeastOne(n) \in Nat \ {0}
BY DEF PageSize, AtLeastOne

\* int arithmetic is exact on what an int can hold.
LEMMA WrapExact ==
  ASSUME NEW x \in 0..MaxInt PROVE Wrap(x) = x
<1>1. x + MaxInt + 1 \in (MaxInt + 1)..(2 * (MaxInt + 1) - 1)
  OBVIOUS
<1>2. (x + MaxInt + 1) % (2 * (MaxInt + 1)) = x + MaxInt + 1
  BY <1>1
<1> QED BY <1>2 DEF Wrap

LEMMA WrapInt == ASSUME NEW x \in Int PROVE Wrap(x) \in Int
<1> DEFINE k == 2 * (MaxInt + 1)
<1>1. k \in Nat \ {0} /\ x + MaxInt + 1 \in Int
  OBVIOUS
<1>2. (x + MaxInt + 1) % k \in 0..(k - 1)
  <2>1. \A a \in Int, b \in Nat \ {0} : a % b \in 0..(b - 1)
    OBVIOUS
  <2> HIDE DEF k
  <2> QED BY <1>1, <2>1
<1>3. Wrap(x) = ((x + MaxInt + 1) % k) - (MaxInt + 1)
  BY DEF Wrap
<1> HIDE DEF k
<1> QED BY <1>1, <1>2, <1>3

\* Documents without a score stay in the order of their arrival.
LEMMA RankedSame == ASSUME NEW m \in Seq(Docs) PROVE Ranked(m) = m
BY DEF Ranked, SortKey

\* The page that is cut out of a merge, wherever its bounds fall.
LEMMA PageType ==
  ASSUME NEW m \in Seq(Docs), NEW p \in Int, NEW z \in Int
  PROVE  Page(m, p, z) \in [status : {"none", "ok", "panic"}, docs : Seq(Docs)]
<1> DEFINE lo == Least(Wrap((AtLeastOne(p) - 1) * PageSize(z)), Len(m))
           hi == Least(Wrap(lo + PageSize(z)), Len(m))
<1>1. PageSize(z) \in Int /\ AtLeastOne(p) - 1 \in Int
  <2>1. AtLeastOne(p) \in Nat \ {0} /\ PageSize(z) \in 1..MaxPageSize
    BY PageSizeRange
  <2> QED BY <2>1
<1>2. (AtLeastOne(p) - 1) * PageSize(z) \in Int
  BY <1>1
<1>3. lo \in Int /\ lo <= Len(m)
  BY <1>2, WrapInt DEF Least
<1>4. hi \in Int /\ hi <= Len(m)
  <2> HIDE DEF lo
  <2>1. Wrap(lo + PageSize(z)) \in Int
    BY <1>1, <1>3, WrapInt
  <2> QED BY <2>1 DEF Least
<1>5. Page(m, p, z) = IF lo < 0 \/ hi < lo THEN [status |-> "panic", docs |-> <<>>]
                        ELSE [status |-> "ok", docs |-> SubSeq(m, lo + 1, hi)]
  BY DEF Page
<1>6. lo >= 0 => SubSeq(m, lo + 1, hi) \in Seq(Docs)
  <2> HIDE DEF lo, hi
  <2> SUFFICES ASSUME lo >= 0 PROVE SubSeq(m, lo + 1, hi) \in Seq(Docs)
    OBVIOUS
  <2>1. \A i \in (lo + 1)..hi : m[i] \in Docs
    BY <1>3, <1>4
  <2> QED BY <1>3, <1>4, <2>1, SubSeqProperties
<1> HIDE DEF lo, hi
<1> QED BY <1>3, <1>4, <1>5, <1>6

\* The page of a merge that is short enough has exactly its positions.
LEMMA PageCorrect ==
  ASSUME NEW m \in Seq(Docs), NEW p \in Int, NEW z \in Int,
         NEW first, first = (AtLeastOne(p) - 1) * PageSize(z),
         first <= MaxInt, Len(m) + MaxPageSize <= MaxInt
  PROVE  /\ Page(m, p, z).status = "ok"
         /\ Len(Page(m, p, z).docs) =
              IF first >= Len(m) THEN 0 ELSE Least(PageSize(z), Len(m) - first)
         /\ \A i \in DOMAIN Page(m, p, z).docs : Page(m, p, z).docs[i] = m[first + i]
<1> DEFINE size == PageSize(z)
           lo == Least(Wrap(first), Len(m))
           hi == Least(Wrap(lo + size), Len(m))
<1>1. size \in 1..MaxPageSize /\ AtLeastOne(p) - 1 \in Nat
  <2>1. AtLeastOne(p) \in Nat \ {0} /\ PageSize(z) \in 1..MaxPageSize
    BY PageSizeRange
  <2> QED BY <2>1
<1>2. first \in 0..MaxInt
  <2>1. \A a, b \in Nat : a * b \in Nat
    OBVIOUS
  <2> QED BY <1>1, <2>1
<1>3. lo = Least(first, Len(m)) /\ lo \in 0..Len(m)
  BY <1>2, WrapExact DEF Least
<1>4. hi = Least(lo + size, Len(m)) /\ hi \in lo..Len(m)
  <2> HIDE DEF lo, size
  <2>1. lo + size \in 0..MaxInt
    BY <1>1, <1>3
  <2>2. Wrap(lo + size) = lo + size
    BY <2>1, WrapExact
  <2>3. hi = Least(lo + size, Len(m))
    BY <2>2
  <2>4. size \in Nat /\ lo \in 0..Len(m) /\ Len(m) \in Nat
    BY <1>1, <1>3
  <2> HIDE DEF hi
  <2> QED BY ONLY <2>3, <2>4 DEF Least
<1>5. Page(m, p, z) = IF lo < 0 \/ hi < lo THEN [status |-> "panic", docs |-> <<>>]
                        ELSE [status |-> "ok", docs |-> SubSeq(m, lo + 1, hi)]
  BY DEF Page
<1> HIDE DEF lo, hi, size
<1>6. Page(m, p, z) = [status |-> "ok", docs |-> SubSeq(m, lo + 1, hi)]
  BY <1>3, <1>4, <1>5
<1>7. \A i \in (lo + 1)..hi : m[i] \in Docs
  BY <1>3, <1>4
<1>8. /\ SubSeq(m, lo + 1, hi) \in Seq(Docs)
      /\ Len(SubSeq(m, lo + 1, hi)) = hi - lo
      /\ \A i \in 1..(hi - lo) : SubSeq(m, lo + 1, hi)[i] = m[lo + i]
  <2>1. lo + 1 \in Int /\ hi \in Int /\ hi - (lo + 1) + 1 = hi - lo
    BY <1>3, <1>4
  <2>2. /\ SubSeq(m, lo + 1, hi) \in Seq(Docs)
        /\ Len(SubSeq(m, lo + 1, hi)) = IF lo + 1 <= hi THEN hi - (lo + 1) + 1 ELSE 0
        /\ \A i \in 1..(hi - (lo + 1) + 1) : SubSeq(m, lo + 1, hi)[i] = m[(lo + 1) + i - 1]
    BY <2>1, <1>7, SubSeqProperties
  <2>3. ASSUME NEW i \in 1..(hi - lo)
        PROVE  SubSeq(m, lo + 1, hi)[i] = m[lo + i]
    <3>1. i \in 1..(hi - (lo + 1) + 1) /\ (lo + 1) + i - 1 = lo + i
      BY <2>1, <1>3
    <3> QED BY <2>2, <3>1
  <2>4. lo \in Int /\ hi \in Int /\ lo <= hi
    <3>1. Len(m) \in Nat
      OBVIOUS
    <3>2. lo \in 0..Len(m) /\ hi \in lo..Len(m)
      BY <1>3, <1>4
    <3> QED BY ONLY <3>1, <3>2
  <2>5. (IF lo + 1 <= hi THEN hi - (lo + 1) + 1 ELSE 0) = hi - lo
    BY ONLY <2>4
  <2> QED BY ONLY <2>2, <2>3, <2>5
<1>9. hi - lo = IF first >= Len(m) THEN 0 ELSE Least(size, Len(m) - first)
  <2> DEFINE n == Len(m)
  <2>1. size \in Nat /\ first \in Nat /\ n \in Nat
    BY <1>1, <1>2
  <2>2. lo = Least(first, n) /\ hi = Least(lo + size, n)
    BY <1>3, <1>4
  <2> HIDE DEF n
  <2>3. hi - lo = IF first >= n THEN 0 ELSE Least(size, n - first)
    BY ONLY <2>1, <2>2 DEF Least
  <2> QED BY <2>3 DEF n
<1>10. hi - lo > 0 => lo = first
  BY <1>2, <1>3, <1>4 DEF Least
<1>11. DOMAIN SubSeq(m, lo + 1, hi) = 1..(hi - lo)
  BY <1>8
<1>12. ASSUME NEW i \in 1..(hi - lo) PROVE SubSeq(m, lo + 1, hi)[i] = m[first + i]
  <2>1. hi - lo > 0
    BY <1>3, <1>4
  <2> QED BY <2>1, <1>8, <1>10
<1>13. /\ Page(m, p, z).status = "ok"
       /\ Page(m, p, z).docs = SubSeq(m, lo + 1, hi)
  <2> DEFINE cut == SubSeq(m, lo + 1, hi)
  <2>1. Page(m, p, z) = [status |-> "ok", docs |-> cut]
    BY <1>6
  <2> HIDE DEF cut
  <2>2. Page(m, p, z).status = "ok" /\ Page(m, p, z).docs = cut
    BY ONLY <2>1
  <2> QED BY <2>2 DEF cut
<1> QED BY <1>8, <1>9, <1>11, <1>12, <1>13 DEF size

\* What a shard loads joins what it has, and nothing leaves.
LEMMA LoadHas ==
  ASSUME TypeOK, NEW s \in Shards, NEW S, Load(s, S)
  PROVE  /\ held' \in [Shards -> [Docs -> Nat]]
         /\ Has(s, S)'
         /\ \A q \in Shards : \A T : Has(q, T) => Has(q, T)'
         /\ \A q \in Shards \ {s} : held'[q] = held[q]
<1> USE DEF Load, TypeOK
<1>1. \A d \in Docs : held'[s][d] = held[s][d] + (IF FileOf[d] \in S THEN 1 ELSE 0)
  OBVIOUS
<1>2. held' \in [Shards -> [Docs -> Nat]]
  OBVIOUS
<1>3. \A q \in Shards, d \in Docs : held[q][d] \in Nat
  OBVIOUS
<1>4. \A q \in Shards \ {s} : held'[q] = held[q]
  OBVIOUS
<1>5. (\A d \in Docs : FileOf[d] \in S => held[s][d] > 0)'
  BY <1>1, <1>3
<1>6. \A q \in Shards : \A T : Has(q, T) => Has(q, T)'
  BY <1>1, <1>3, <1>4 DEF Has
<1> QED BY <1>2, <1>4, <1>5, <1>6 DEF Has

-----------------------------------------------------------------------------
(* The invariant holds at first.                                           *)

LEMMA InitInv == Init => IInv
<1> SUFFICES ASSUME Init PROVE IInv
  OBVIOUS
<1> USE DEF Init, NoCalls, NoReply
<1>1. TypeOK
  <2>1. held \in [Shards -> [Docs -> Nat]] /\ CacheOK
    BY DEF CacheOK
  <2>2. /\ pc \in [Threads -> {"idle", "wait", "done", "lost"}]
        /\ co \in [Threads -> [Shards -> {"none", "wait", "ok", "failed"}]]
        /\ sh \in [Writers -> [Shards -> Phases]]
    BY DEF Phases
  <2>3. /\ merged \in [Searchers -> Seq(Docs)]
        /\ reply \in [Searchers -> [status : {"none", "ok", "panic"}, docs : Seq(Docs)]]
        /\ paging \in [Searchers -> Int \X Int]
    OBVIOUS
  <2> QED BY <2>1, <2>2, <2>3 DEF TypeOK, Threads, Writers
<1>2. ServedInv
  BY DEF ServedInv, Writers, Threads
<1>3. HeldInv
  BY DEF HeldInv, Has, Writers
<1>4. CacheInv
  BY DEF CacheInv, Fresh
<1>5. MergeInv
  BY DEF MergeInv, Owed, Threads
<1>6. AckedFound /\ PageExact
  BY DEF AckedFound, PageExact, Threads
<1> QED BY <1>1, <1>2, <1>3, <1>4, <1>5, <1>6 DEF IInv

-----------------------------------------------------------------------------
(* Types.                                                                  *)

\* What a search of a shard gives is a list of documents, and how it was found.
LEMMA AnswerType ==
  ASSUME TypeOK, NEW s \in Shards, NEW e \in Outcomes(s)
  PROVE  e \in Found /\ e.docs \in Seq(Docs)
<1>1. CASE e \in cache[s]
  BY <1>1 DEF TypeOK, CacheOK, Found
<1>2. CASE e \in Results(s)
  <2>1. PICK b \in Lists : e = [docs |-> b, whole |-> Settled(s) /\ Len(b) < Limit]
    BY <1>2 DEF Results
  <2>2. b \in Seq(Docs)
    BY <2>1, SMTT(20) DEF Lists
  <2> QED BY <2>1, <2>2 DEF Found
<1> QED BY <1>1, <1>2 DEF Outcomes

\* It takes the place of what the cache has had for the query.
LEMMA StoresType ==
  ASSUME TypeOK, NEW s \in Shards, NEW e \in Found, Stores(s, e)
  PROVE  CacheOK'
<1>1. CacheOK
  BY DEF TypeOK
<1> QED BY ONLY <1>1, s \in Shards, e \in Found, Stores(s, e) DEF Stores, CacheOK

\* An emptied cache.
LEMMA ForgetType ==
  ASSUME TypeOK, NEW s \in Shards, cache' = [cache EXCEPT ![s] = {}]
  PROVE  CacheOK'
<1>1. CacheOK
  BY DEF TypeOK
<1> QED BY ONLY <1>1, s \in Shards, cache' = [cache EXCEPT ![s] = {}] DEF CacheOK

LEMMA CacheType == ASSUME TypeOK, [Next]_vars PROVE CacheOK'
<1> USE DEF vars, shards
<1>1. ASSUME UNCHANGED cache PROVE CacheOK'
  BY <1>1 DEF TypeOK, CacheOK
<1>2. ASSUME NEW t \in Searchers, Search(t) \/ Merge(t) PROVE CacheOK'
  BY <1>1, <1>2 DEF Search, Merge
<1>3. ASSUME NEW t \in Threads, NEW s \in Shards, CallFails(t, s) PROVE CacheOK'
  BY <1>1, <1>3 DEF CallFails
<1>4. ASSUME NEW t \in Searchers, NEW s \in Shards, ShardAnswers(t, s) PROVE CacheOK'
  BY <1>4, AnswerType, StoresType DEF ShardAnswers
<1>5. ASSUME NEW w \in Writers, Notify(w) \/ Reindex(w) \/ Answer(w) PROVE CacheOK'
  BY <1>1, <1>5 DEF Notify, Reindex, Answer
<1>6. ASSUME NEW w \in Writers, NEW s \in Shards,
             PassOn(w, s) \/ ReindexReturns(w, s) \/ CutAnswer(w, s)
      PROVE  CacheOK'
  BY <1>1, <1>6 DEF PassOn, ReindexReturns, CutAnswer, Stop
<1>7. ASSUME NEW w \in Writers, NEW s \in Shards, ShardRefuses(w, s) \/ ShardLoads(w, s)
      PROVE  CacheOK'
  BY <1>1, <1>7 DEF ShardRefuses, ShardLoads
<1>8. ASSUME NEW w \in Writers, NEW s \in Shards, ShardIndexes(w, s) \/ ShardResets(w, s)
      PROVE  CacheOK'
  BY <1>8, ForgetType DEF ShardIndexes, ShardResets
<1>9. ASSUME NEW s \in Shards, ShardStarts(s) PROVE CacheOK'
  BY <1>1, <1>9 DEF ShardStarts
<1>10. ASSUME NEW s \in Shards, ShardStops(s) \/ CacheForgets(s) PROVE CacheOK'
  BY <1>10, ForgetType DEF ShardStops, CacheForgets
<1>11. ASSUME NEW s \in Shards, OtherSearch(s) PROVE CacheOK'
  BY <1>11, AnswerType, StoresType DEF OtherSearch
<1>12. CASE UNCHANGED vars
  BY <1>1, <1>12
<1> QED
  BY <1>2, <1>3, <1>4, <1>5, <1>6, <1>7, <1>8, <1>9, <1>10, <1>11, <1>12
     DEF Next, Return, End, ShardStep, Threads, Writers

LEMMA TypeStep == ASSUME TypeOK, ServedInv, [Next]_vars PROVE TypeOK'
<1> USE DEF TypeOK, vars, shards, request, answer, history
<1> USE DEF Threads, Writers, Phases, NoCalls, NoReply, Nothing
<1> CacheOK'
  BY CacheType
<1>1. ASSUME NEW t \in Searchers, Search(t) PROVE TypeOK'
  <2>1. /\ co' \in [Threads -> [Shards -> {"none", "wait", "ok", "failed"}]]
        /\ \A n \in Notifiers : co'[n] = co[n] /\ pc'[n] = pc[n]
        /\ pc' \in [Threads -> {"idle", "wait", "done", "lost"}]
    BY <1>1 DEF Search
  <2>2. /\ must' \in [Searchers -> [Shards -> SUBSET Files]]
        /\ excused' \in [Searchers -> SUBSET Shards]
    BY <1>1 DEF Search
  <2>3. /\ merged' \in [Searchers -> Seq(Docs)]
        /\ reply' \in [Searchers -> [status : {"none", "ok", "panic"}, docs : Seq(Docs)]]
    BY <1>1, SMTT(20) DEF Search
  <2>4. /\ file' = file /\ paging' = paging /\ sh' = sh /\ promised' = promised
        /\ held' = held /\ down' = down
    BY <1>1 DEF Search
  <2>5. \A n \in Notifiers : pc'[n] = "wait" =>
          file'[n] \in Files /\ \E s \in Shards : co'[n][s] # "none"
    BY <2>1, <2>4
  <2> QED BY <2>1, <2>2, <2>3, <2>4, <2>5
<1>2. ASSUME NEW t \in Searchers, NEW s \in Shards, ShardAnswers(t, s) PROVE TypeOK'
  <2>1. PICK e \in Outcomes(s) :
          /\ Stores(s, e)
          /\ merged' = [merged EXCEPT ![t] = @ \o e.docs]
          /\ IF e.whole THEN UNCHANGED excused ELSE Excuse(t, s)
    BY <1>2 DEF ShardAnswers
  <2>2. e \in Found /\ e.docs \in Seq(Docs) /\ merged[t] \in Seq(Docs)
    BY <2>1, AnswerType
  <2>3. merged' \in [Searchers -> Seq(Docs)]
    <3> DEFINE a == e.docs
    <3>1. merged[t] \o a \in Seq(Docs) /\ merged' = [merged EXCEPT ![t] = merged[t] \o a]
      BY <2>1, <2>2, ConcatProperties
    <3> HIDE DEF a
    <3> QED BY <3>1
  <2>4. excused' \in [Searchers -> SUBSET Shards]
    <3>1. excused' = excused \/ Excuse(t, s)
      BY <2>1
    <3>2. excused \in [Searchers -> SUBSET Shards]
      OBVIOUS
    <3> QED BY ONLY <3>1, <3>2, t \in Searchers, s \in Shards DEF Excuse
  <2>5. co' = [co EXCEPT ![t][s] = "ok"] /\ t \notin Notifiers
    BY <1>2 DEF ShardAnswers
  <2>6. /\ co' \in [Threads -> [Shards -> {"none", "wait", "ok", "failed"}]]
        /\ \A n \in Notifiers : co'[n] = co[n]
    BY <2>5
  <2> QED BY <1>2, <2>3, <2>4, <2>6 DEF ShardAnswers
<1>3. ASSUME NEW t \in Threads, NEW s \in Shards, CallFails(t, s) PROVE TypeOK'
  <2>1. excused' \in [Searchers -> SUBSET Shards]
    <3>1. excused' = excused \/ (t \in Searchers /\ Excuse(t, s))
      BY <1>3 DEF CallFails
    <3>2. excused \in [Searchers -> SUBSET Shards]
      OBVIOUS
    <3> QED BY ONLY <3>1, <3>2, s \in Shards DEF Excuse
  <2>2. co' = [co EXCEPT ![t][s] = "failed"]
    BY <1>3 DEF CallFails
  <2>3. /\ co' \in [Threads -> [Shards -> {"none", "wait", "ok", "failed"}]]
        /\ \A n \in Notifiers, q \in Shards : co[n][q] # "none" => co'[n][q] # "none"
    BY <2>2
  <2> QED BY <1>3, <2>1, <2>3 DEF CallFails
<1>4. ASSUME NEW t \in Searchers, Merge(t) PROVE TypeOK'
  <2>1. PICK p \in Paging :
          /\ paging' = [paging EXCEPT ![t] = p]
          /\ reply' = [reply EXCEPT ![t] = Page(Ranked(merged[t]), p[1], p[2])]
    BY <1>4 DEF Merge
  <2>2. p \in Int \X Int /\ p[1] \in Int /\ p[2] \in Int /\ merged[t] \in Seq(Docs)
    OBVIOUS
  <2>3. Page(Ranked(merged[t]), p[1], p[2])
          \in [status : {"none", "ok", "panic"}, docs : Seq(Docs)]
    BY <2>2, RankedSame, PageType
  <2> QED BY <1>4, <2>1, <2>2, <2>3, SMTT(20) DEF Merge, Over
<1>5. ASSUME NEW n \in Notifiers, Notify(n) PROVE TypeOK'
  <2>1. PICK f \in Files :
          /\ file' = [file EXCEPT ![n] = f]
          /\ co' = [co EXCEPT ![n][shardIndex(f)] = "wait"]
          /\ sh' = [sh EXCEPT ![n][shardIndex(f)] = "asked"]
    BY <1>5 DEF Notify
  <2>2. shardIndex(f) \in Shards
    <3>1. \A a \in Nat, b \in Nat \ {0} : a % b \in 0..(b - 1)
      OBVIOUS
    <3>2. Hash[f] \in Nat
      OBVIOUS
    <3>3. NumShards > 1 => Hash[f] % NumShards \in 0..(NumShards - 1)
      BY <3>1, <3>2
    <3> QED BY <3>3 DEF shardIndex, Shards
  <2> QED BY <1>5, <2>1, <2>2 DEF Notify
<1>6. ASSUME NEW n \in Notifiers, NEW s \in Shards, ShardIndexes(n, s) PROVE TypeOK'
  BY <1>6, LoadHas, SMTT(20) DEF ShardIndexes
<1>7. ASSUME NEW n \in Notifiers, NEW s \in Shards, ShardRefuses(n, s) PROVE TypeOK'
  BY <1>7 DEF ShardRefuses
<1>8. ASSUME NEW n \in Notifiers, NEW s \in Shards, PassOn(n, s) PROVE TypeOK'
  BY <1>8 DEF PassOn, ServedInv
<1>9. ASSUME NEW r \in Reindexers, Reindex(r) PROVE TypeOK'
  BY <1>9 DEF Reindex
<1>10. ASSUME NEW r \in Reindexers, NEW s \in Shards, ShardResets(r, s) PROVE TypeOK'
  BY <1>10 DEF ShardResets
<1>11. ASSUME NEW r \in Reindexers, NEW s \in Shards, ShardLoads(r, s) PROVE TypeOK'
  BY <1>11, LoadHas, SMTT(20) DEF ShardLoads
<1>12. ASSUME NEW r \in Reindexers, NEW s \in Shards, ReindexReturns(r, s) PROVE TypeOK'
  BY <1>12 DEF ReindexReturns
<1>13. ASSUME NEW t \in Writers, Answer(t) PROVE TypeOK'
  BY <1>13 DEF Answer, Over
<1>14. ASSUME NEW r \in Reindexers, NEW s \in Shards, CutAnswer(r, s) PROVE TypeOK'
  BY <1>14 DEF CutAnswer, Stop
<1>15. ASSUME NEW s \in Shards, ShardStops(s) PROVE TypeOK'
  BY <1>15 DEF ShardStops
<1>16. ASSUME NEW s \in Shards, ShardStarts(s) PROVE TypeOK'
  BY <1>16, LoadHas, SMTT(20) DEF ShardStarts
<1>17. ASSUME NEW s \in Shards, OtherSearch(s) PROVE TypeOK'
  BY <1>17 DEF OtherSearch
<1>18. ASSUME NEW s \in Shards, CacheForgets(s) PROVE TypeOK'
  BY <1>18 DEF CacheForgets
<1>19. CASE UNCHANGED vars
  BY <1>19
<1> QED
  BY <1>1, <1>2, <1>3, <1>4, <1>5, <1>6, <1>7, <1>8, <1>9, <1>10, <1>11, <1>12, <1>13, <1>14,
     <1>15, <1>16, <1>17, <1>18, <1>19 DEF Next, Return, End, ShardStep

-----------------------------------------------------------------------------
(* Shards and what they have promised.                                     *)

LEMMA ServedStep == ASSUME TypeOK, ServedInv, [Next]_vars PROVE ServedInv'
<1> USE DEF TypeOK, ServedInv, vars, shards, request, answer, history
<1> USE DEF Threads, Writers, NoCalls
<1>1. ASSUME UNCHANGED <<sh, file, promised>>,
             \A w \in Writers : pc'[w] = "idle" => pc[w] = "idle"
      PROVE  ServedInv'
  BY <1>1
<1>2. ASSUME NEW t \in Searchers, Search(t) \/ Merge(t) PROVE ServedInv'
  <2>1. UNCHANGED <<sh, file, promised>>
    BY <1>2 DEF Search, Merge
  <2>2. \A w \in Writers : pc'[w] = pc[w]
    BY <1>2, SMTT(20) DEF Search, Merge, Over
  <2> QED BY <2>1, <2>2, <1>1
<1>3. ASSUME NEW t \in Threads, NEW s \in Shards, ShardAnswers(t, s) \/ CallFails(t, s)
      PROVE  ServedInv'
  BY <1>1, <1>3 DEF ShardAnswers, CallFails
<1>4. ASSUME NEW n \in Notifiers, Notify(n) PROVE ServedInv'
  <2>1. PICK f \in Files :
          /\ file' = [file EXCEPT ![n] = f]
          /\ sh' = [sh EXCEPT ![n][shardIndex(f)] = "asked"]
    BY <1>4 DEF Notify
  <2>2. promised' = promised /\ pc' = [pc EXCEPT ![n] = "wait"]
    BY <1>4 DEF Notify
  <2>3. \A s \in Shards : sh'[n][s] \in {"none", "asked"}
    BY <1>4, <2>1 DEF Notify
  <2>4. \A w \in Writers \ {n} : sh'[w] = sh[w] /\ pc'[w] = pc[w]
    BY <2>1, <2>2
  <2>5. \A m \in Notifiers \ {n} : file'[m] = file[m]
    BY <2>1
  <2> QED BY <2>2, <2>3, <2>4, <2>5
<1>5. ASSUME NEW n \in Notifiers, NEW s \in Shards, ShardIndexes(n, s) PROVE ServedInv'
  <2>1. pc[n] # "idle"
    BY <1>5 DEF ShardIndexes
  <2> QED BY <2>1, <1>5 DEF ShardIndexes
<1>6. ASSUME NEW n \in Notifiers, NEW s \in Shards, ShardRefuses(n, s) PROVE ServedInv'
  <2>1. pc[n] # "idle"
    BY <1>6 DEF ShardRefuses
  <2> QED BY <2>1, <1>6 DEF ShardRefuses
<1>7. ASSUME NEW n \in Notifiers, NEW s \in Shards, PassOn(n, s) PROVE ServedInv'
  <2>1. \A q \in Shards : promised'[q] \subseteq Disk[q]
    BY <1>7 DEF PassOn
  <2> QED BY <2>1, <1>7 DEF PassOn
<1>8. ASSUME NEW r \in Reindexers, Reindex(r) PROVE ServedInv'
  BY <1>8 DEF Reindex
<1>9. ASSUME NEW r \in Reindexers, NEW s \in Shards, ShardResets(r, s) PROVE ServedInv'
  <2>1. pc[r] # "idle"
    BY <1>9 DEF ShardResets
  <2> QED BY <2>1, <1>9 DEF ShardResets
<1>10. ASSUME NEW r \in Reindexers, NEW s \in Shards, ShardLoads(r, s) PROVE ServedInv'
  <2>1. pc[r] # "idle"
    BY <1>10 DEF ShardLoads
  <2> QED BY <2>1, <1>10 DEF ShardLoads
<1>11. ASSUME NEW r \in Reindexers, NEW s \in Shards, ReindexReturns(r, s) PROVE ServedInv'
  BY <1>11 DEF ReindexReturns
<1>12. ASSUME NEW t \in Writers, Answer(t) PROVE ServedInv'
  BY <1>12, <1>1 DEF Answer, Over
<1>13. ASSUME NEW r \in Reindexers, NEW s \in Shards, CutAnswer(r, s) PROVE ServedInv'
  BY <1>13, <1>1 DEF CutAnswer, Stop
<1>14. ASSUME NEW s \in Shards, ShardStops(s) PROVE ServedInv'
  BY <1>14 DEF ShardStops
<1>15. ASSUME NEW s \in Shards, ShardStarts(s) PROVE ServedInv'
  BY <1>15, <1>1 DEF ShardStarts
<1>16. ASSUME NEW s \in Shards, OtherSearch(s) \/ CacheForgets(s) PROVE ServedInv'
  BY <1>16, <1>1 DEF OtherSearch, CacheForgets
<1>17. CASE UNCHANGED vars
  BY <1>17
<1> QED
  BY <1>2, <1>3, <1>4, <1>5, <1>6, <1>7, <1>8, <1>9, <1>10, <1>11, <1>12, <1>13, <1>14, <1>15,
     <1>16, <1>17 DEF Next, Return, End, ShardStep

\* The steps of a shard other than s leave s alone.
LEMMA HeldStep == ASSUME TypeOK, ServedInv, HeldInv, [Next]_vars PROVE HeldInv'
<1> USE DEF TypeOK, ServedInv, vars, shards, request, answer, history
<1> USE DEF Threads, Writers, NoCalls
\* What HeldInv says of one shard.
<1> DEFINE Good(s) ==
      Settled(s) =>
        /\ Has(s, promised[s])
        /\ \A n \in Notifiers : sh[n][s] = "served" => Has(s, {file[n]})
        /\ \A r \in Reindexers : sh[r][s] = "served" => Has(s, Disk[s])
<1>1. ASSUME NEW s \in Shards,
             held'[s] = held[s], promised'[s] = promised[s], (s \notin down)' => s \notin down,
             \A n \in Notifiers : (sh[n][s] = "served")' =>
               sh[n][s] = "served" /\ file'[n] = file[n],
             \A r \in Reindexers :
               /\ (sh[r][s] = "served")' => sh[r][s] = "served"
               /\ sh[r][s] = "reset" => (sh[r][s] = "reset")'
      PROVE  Good(s)'
  BY <1>1 DEF HeldInv, Has, Settled
<1>2. ASSUME UNCHANGED <<held, down, promised, sh, file>> PROVE HeldInv'
  BY <1>2 DEF HeldInv, Has, Settled
<1>3. ASSUME NEW t \in Threads, Search(t) \/ Merge(t) \/ Answer(t) PROVE HeldInv'
  BY <1>2, <1>3 DEF Search, Merge, Answer
<1>15. ASSUME NEW t \in Threads, NEW s \in Shards,
              ShardAnswers(t, s) \/ CallFails(t, s) \/ CutAnswer(t, s)
       PROVE  HeldInv'
  BY <1>2, <1>15 DEF ShardAnswers, CallFails, CutAnswer, Stop
<1>4. ASSUME NEW n \in Notifiers, Notify(n) PROVE HeldInv'
  <2>1. PICK f \in Files :
          /\ file' = [file EXCEPT ![n] = f]
          /\ sh' = [sh EXCEPT ![n][shardIndex(f)] = "asked"]
    BY <1>4 DEF Notify
  <2>2. \A s \in Shards : sh'[n][s] \in {"none", "asked"}
    BY <1>4, <2>1 DEF Notify
  <2>3. \A w \in Writers \ {n} : sh'[w] = sh[w]
    BY <2>1
  <2>4. \A m \in Notifiers \ {n} : file'[m] = file[m]
    BY <2>1
  <2>5. ASSUME NEW s \in Shards PROVE Good(s)'
    <3>1. held' = held /\ promised' = promised /\ down' = down
      BY <1>4 DEF Notify
    <3> QED BY <1>1, <2>2, <2>3, <2>4, <3>1, ZenonT(40)
  <2> QED BY <2>5 DEF HeldInv
<1>5. ASSUME NEW n \in Notifiers, NEW s \in Shards, ShardIndexes(n, s) PROVE HeldInv'
  <2>1. /\ Load(s, {file[n]}) /\ UNCHANGED <<down, promised, file>>
        /\ sh' = [sh EXCEPT ![n][s] = "served"]
    BY <1>5 DEF ShardIndexes
  <2>2. \A q \in Shards \ {s} : Good(q)'
    BY <1>1, <2>1, LoadHas
  <2>3. Good(s)'
    <3>1. Settled(s)' => Settled(s)
      BY <2>1 DEF Settled
    <3>2. Has(s, {file[n]})' /\ \A T : Has(s, T) => Has(s, T)'
      BY <2>1, LoadHas
    <3> QED BY <2>1, <3>1, <3>2, ZenonT(40) DEF HeldInv, Has
  <2> QED BY <2>2, <2>3 DEF HeldInv
<1>6. ASSUME NEW n \in Notifiers, NEW s \in Shards, ShardRefuses(n, s) PROVE HeldInv'
  <2>1. \A q \in Shards : Good(q)'
    BY <1>1, <1>6 DEF ShardRefuses
  <2> QED BY <2>1 DEF HeldInv
<1>7. ASSUME NEW n \in Notifiers, NEW s \in Shards, PassOn(n, s) PROVE HeldInv'
  BY <1>7 DEF PassOn, HeldInv, Has, Settled
<1>8. ASSUME NEW r \in Reindexers, Reindex(r) PROVE HeldInv'
  <2>1. \A q \in Shards : Good(q)'
    BY <1>1, <1>8 DEF Reindex
  <2> QED BY <2>1 DEF HeldInv
<1>9. ASSUME NEW r \in Reindexers, NEW s \in Shards, ShardResets(r, s) PROVE HeldInv'
  <2>1. \A q \in Shards \ {s} : Good(q)'
    BY <1>1, <1>9 DEF ShardResets
  <2>2. ~ Settled(s)'
    BY <1>9 DEF ShardResets, Settled
  <2> QED BY <2>1, <2>2 DEF HeldInv
<1>10. ASSUME NEW r \in Reindexers, NEW s \in Shards, ShardLoads(r, s) PROVE HeldInv'
  <2>1. /\ Load(s, Disk[s]) /\ UNCHANGED <<down, promised, file>>
        /\ sh' = [sh EXCEPT ![r][s] = "served"]
    BY <1>10 DEF ShardLoads
  <2>2. \A q \in Shards \ {s} : Good(q)'
    BY <1>1, <2>1, LoadHas
  <2>3. Good(s)'
    BY <2>1, LoadHas DEF Has
  <2> QED BY <2>2, <2>3 DEF HeldInv
<1>11. ASSUME NEW r \in Reindexers, NEW s \in Shards, ReindexReturns(r, s) PROVE HeldInv'
  BY <1>11 DEF ReindexReturns, HeldInv, Has, Settled
<1>12. ASSUME NEW s \in Shards, ShardStops(s) PROVE HeldInv'
  <2>1. \A q \in Shards \ {s} : Good(q)'
    BY <1>1, <1>12 DEF ShardStops
  <2>2. ~ Settled(s)'
    BY <1>12 DEF ShardStops, Settled
  <2> QED BY <2>1, <2>2 DEF HeldInv
<1>13. ASSUME NEW s \in Shards, ShardStarts(s) PROVE HeldInv'
  <2>1. Load(s, Disk[s]) /\ down' = down \ {s} /\ UNCHANGED <<promised, file, sh>>
    BY <1>13 DEF ShardStarts
  <2>2. \A q \in Shards \ {s} : Good(q)'
    BY <1>1, <2>1, LoadHas
  <2>3. Good(s)'
    BY <2>1, LoadHas DEF Has
  <2> QED BY <2>2, <2>3 DEF HeldInv
<1>14. ASSUME NEW s \in Shards, OtherSearch(s) \/ CacheForgets(s) PROVE HeldInv'
  BY <1>2, <1>14 DEF OtherSearch, CacheForgets
<1>16. CASE UNCHANGED vars
  BY <1>2, <1>16
<1> QED
  BY <1>3, <1>4, <1>5, <1>6, <1>7, <1>8, <1>9, <1>10, <1>11, <1>12, <1>13, <1>14, <1>15,
     <1>16 DEF Next, Return, End, ShardStep

-----------------------------------------------------------------------------
(* What the caches of the shards still give.                               *)

\* A whole answer, found now or kept, has all the shard is held to.
LEMMA WholeOwes ==
  ASSUME TypeOK, HeldInv, CacheInv, NEW s \in Shards, NEW e \in Outcomes(s), e.whole
  PROVE  Settled(s) /\ Owes(s, e.docs)
<1>1. CASE e \in cache[s]
  BY <1>1 DEF CacheInv, Fresh
<1>2. CASE e \in Results(s)
  <2>1. PICK b \in Lists :
          /\ \A d \in Docs : d \in Sure /\ Len(b) < Limit => Times(b, d) >= held[s][d]
          /\ e = [docs |-> b, whole |-> Settled(s) /\ Len(b) < Limit]
    BY <1>2 DEF Results
  <2>2. Settled(s) /\ Len(b) < Limit /\ e.docs = b
    BY <2>1
  <2>3. ASSUME NEW d \in Sure, held[s][d] > 0 PROVE \E i \in DOMAIN b : b[i] = d
    <3>1. d \in Docs /\ held[s][d] \in Nat
      BY DEF TypeOK
    <3>2. Times(b, d) >= held[s][d]
      BY <2>1, <2>2, <3>1
    <3>3. Times(b, d) # 0
      BY <2>3, <3>1, <3>2
    <3>4. {i \in DOMAIN b : b[i] = d} # {}
      BY <3>3, FS_EmptySet DEF Times
    <3> QED BY <3>4
  <2>4. \A S : Has(s, S) => Covers(b, S)
    BY <2>3 DEF Has, Covers
  <2>5. Owes(s, b)
    BY <2>2, <2>4 DEF HeldInv, Owes
  <2> QED BY <2>2, <2>5
<1> QED BY <1>1, <1>2 DEF Outcomes

LEMMA CacheStep ==
  ASSUME TypeOK, ServedInv, HeldInv, CacheInv, [Next]_vars PROVE CacheInv'
<1> USE DEF TypeOK, vars, shards, request, answer, history
<1> USE DEF Threads, Writers, NoCalls
\* No shard owes more: what is promised was served before.
<1>1. ASSUME NEW s \in Shards, cache'[s] \subseteq cache[s], down' = down,
             \A f \in promised'[s] :
               \/ f \in promised[s]
               \/ \E n \in Notifiers : sh[n][s] = "served" /\ f = file[n]
               \/ \E r \in Reindexers : sh[r][s] = "served" /\ f \in Disk[s],
             \A n \in Notifiers : (sh[n][s] = "served")' =>
               sh[n][s] = "served" /\ file'[n] = file[n],
             \A r \in Reindexers :
               /\ (sh[r][s] = "served")' => sh[r][s] = "served"
               /\ (sh[r][s] = "reset")' => sh[r][s] = "reset"
      PROVE  Fresh(s)'
  <2> SUFFICES ASSUME NEW e \in cache'[s], e.whole PROVE Settled(s)' /\ Owes(s, e.docs)'
    BY DEF Fresh
  <2>1. Settled(s) /\ Owes(s, e.docs)
    BY <1>1 DEF CacheInv, Fresh
  <2>2. Settled(s)'
    BY <1>1, <2>1 DEF Settled
  <2>3. Covers(e.docs, promised'[s])
    <3> SUFFICES ASSUME NEW d \in Sure, FileOf[d] \in promised'[s]
                 PROVE  \E i \in DOMAIN e.docs : e.docs[i] = d
      BY DEF Covers
    <3>1. CASE FileOf[d] \in promised[s]
      BY <2>1, <3>1 DEF Owes, Covers
    <3>2. ASSUME NEW n \in Notifiers, sh[n][s] = "served", FileOf[d] = file[n]
          PROVE  \E i \in DOMAIN e.docs : e.docs[i] = d
      BY <2>1, <3>2 DEF Owes, Covers
    <3>3. ASSUME NEW w \in Reindexers, sh[w][s] = "served", FileOf[d] \in Disk[s]
          PROVE  \E i \in DOMAIN e.docs : e.docs[i] = d
      BY <2>1, <3>3 DEF Owes, Covers
    <3> QED BY <1>1, <3>1, <3>2, <3>3
  <2>4. \A n \in Notifiers : sh'[n][s] = "served" => Covers(e.docs, {file'[n]})
    BY <1>1, <2>1 DEF Owes
  <2>5. \A r \in Reindexers : sh'[r][s] = "served" => Covers(e.docs, Disk[s])
    BY <1>1, <2>1 DEF Owes
  <2> QED BY <2>2, <2>3, <2>4, <2>5 DEF Owes, Covers
<1>2. ASSUME NEW s \in Shards, cache'[s] = {} PROVE Fresh(s)'
  BY <1>2 DEF Fresh
<1>3. ASSUME UNCHANGED <<cache, down, promised, sh, file>> PROVE CacheInv'
  BY <1>1, <1>3 DEF CacheInv
<1>4. ASSUME NEW s \in Shards, NEW e \in Outcomes(s), Stores(s, e),
             UNCHANGED <<down, promised, sh, file>>
      PROVE  CacheInv'
  <2>1. \A q \in Shards \ {s} : Fresh(q)'
    <3>1. \A q \in Shards \ {s} : cache'[q] = cache[q]
      BY <1>4 DEF Stores, CacheOK
    <3> QED BY <1>1, <1>4, <3>1
  <2>2. Fresh(s)'
    <3> SUFFICES ASSUME NEW x \in cache'[s], x.whole PROVE Settled(s)' /\ Owes(s, x.docs)'
      BY DEF Fresh
    <3>1. x = e
      BY <1>4 DEF Stores, CacheOK
    <3>2. Settled(s) /\ Owes(s, x.docs)
      BY <3>1, WholeOwes
    <3> QED BY <1>4, <3>2 DEF Settled, Owes, Covers
  <2> QED BY <2>1, <2>2 DEF CacheInv
<1>5. ASSUME NEW t \in Threads, Search(t) \/ Merge(t) \/ Answer(t) PROVE CacheInv'
  BY <1>3, <1>5 DEF Search, Merge, Answer
<1>6. ASSUME NEW t \in Threads, NEW s \in Shards, CallFails(t, s) \/ CutAnswer(t, s)
      PROVE  CacheInv'
  BY <1>3, <1>6 DEF CallFails, CutAnswer, Stop
<1>7. ASSUME NEW t \in Searchers, NEW s \in Shards, ShardAnswers(t, s) PROVE CacheInv'
  BY <1>4, <1>7 DEF ShardAnswers
<1>8. ASSUME NEW n \in Notifiers, Notify(n) PROVE CacheInv'
  <2>1. PICK f \in Files :
          /\ file' = [file EXCEPT ![n] = f]
          /\ sh' = [sh EXCEPT ![n][shardIndex(f)] = "asked"]
    BY <1>8 DEF Notify
  <2>2. \A s \in Shards : sh'[n][s] \in {"none", "asked"}
    BY <1>8, <2>1 DEF Notify, ServedInv
  <2>3. \A w \in Writers \ {n} : sh'[w] = sh[w]
    BY <2>1
  <2>4. \A m \in Notifiers \ {n} : file'[m] = file[m]
    BY <2>1
  <2>5. ASSUME NEW s \in Shards PROVE Fresh(s)'
    <3>1. cache' = cache /\ promised' = promised /\ down' = down
      BY <1>8 DEF Notify
    <3> QED BY <1>1, <2>2, <2>3, <2>4, <3>1, ZenonT(40)
  <2> QED BY <2>5 DEF CacheInv
<1>9. ASSUME NEW n \in Notifiers, NEW s \in Shards, ShardIndexes(n, s) PROVE CacheInv'
  <2>1. \A q \in Shards : Fresh(q)'
    BY <1>1, <1>2, <1>9 DEF ShardIndexes, CacheOK
  <2> QED BY <2>1 DEF CacheInv
<1>10. ASSUME NEW n \in Notifiers, NEW s \in Shards, ShardRefuses(n, s) PROVE CacheInv'
  <2>1. \A q \in Shards : Fresh(q)'
    BY <1>1, <1>10 DEF ShardRefuses
  <2> QED BY <2>1 DEF CacheInv
<1>11. ASSUME NEW n \in Notifiers, NEW s \in Shards, PassOn(n, s) PROVE CacheInv'
  <2>1. /\ UNCHANGED <<cache, down, sh, file>>
        /\ promised' = IF sh[n][s] = "served"
                         THEN [promised EXCEPT ![s] = @ \cup {file[n]}] ELSE promised
    BY <1>11 DEF PassOn
  <2>2. \A q \in Shards : Fresh(q)'
    BY <1>1, <2>1
  <2> QED BY <2>2 DEF CacheInv
<1>12. ASSUME NEW r \in Reindexers, Reindex(r) PROVE CacheInv'
  <2>1. \A q \in Shards : Fresh(q)'
    BY <1>1, <1>12 DEF Reindex
  <2> QED BY <2>1 DEF CacheInv
<1>13. ASSUME NEW r \in Reindexers, NEW s \in Shards, ShardResets(r, s) PROVE CacheInv'
  <2>1. \A q \in Shards : Fresh(q)'
    BY <1>1, <1>2, <1>13 DEF ShardResets, CacheOK
  <2> QED BY <2>1 DEF CacheInv
\* While it was reloading nothing whole was found.
<1>14. ASSUME NEW r \in Reindexers, NEW s \in Shards, ShardLoads(r, s) PROVE CacheInv'
  <2>1. \A q \in Shards \ {s} : Fresh(q)'
    BY <1>1, <1>14 DEF ShardLoads
  <2>2. ~ Settled(s) /\ cache' = cache
    BY <1>14 DEF ShardLoads, Settled
  <2>3. Fresh(s)'
    BY <2>2 DEF CacheInv, Fresh
  <2> QED BY <2>1, <2>3 DEF CacheInv
<1>15. ASSUME NEW r \in Reindexers, NEW s \in Shards, ReindexReturns(r, s) PROVE CacheInv'
  <2>1. /\ UNCHANGED <<cache, down, sh, file>> /\ sh[r][s] = "served"
        /\ promised' = [promised EXCEPT ![s] = @ \cup Disk[s]]
    BY <1>15 DEF ReindexReturns
  <2>2. \A q \in Shards : Fresh(q)'
    BY <1>1, <2>1
  <2> QED BY <2>2 DEF CacheInv
<1>16. ASSUME NEW s \in Shards, OtherSearch(s) PROVE CacheInv'
  BY <1>4, <1>16 DEF OtherSearch
<1>17. ASSUME NEW s \in Shards, CacheForgets(s) PROVE CacheInv'
  <2>1. \A q \in Shards : Fresh(q)'
    BY <1>1, <1>17 DEF CacheForgets, CacheOK
  <2> QED BY <2>1 DEF CacheInv
<1>18. ASSUME NEW s \in Shards, ShardStops(s) \/ ShardStarts(s) PROVE CacheInv'
  <2>1. ASSUME NEW q \in Shards \ {s} PROVE Fresh(q)'
    <3>1. /\ cache'[q] = cache[q] /\ UNCHANGED <<promised, file>>
          /\ \A w \in Writers : sh'[w][q] = sh[w][q]
          /\ (q \in down)' <=> q \in down
      BY <1>18 DEF ShardStops, ShardStarts, CacheOK
    <3>2. Fresh(q)
      BY DEF CacheInv
    <3> QED BY ONLY <3>1, <3>2 DEF Fresh, Owes, Covers, Settled
  <2>2. Fresh(s)'
    <3>1. CASE ShardStops(s)
      BY <1>2, <3>1 DEF ShardStops, CacheOK
    <3>2. CASE ShardStarts(s)
      BY <3>2 DEF ShardStarts, CacheInv, Fresh, Settled
    <3> QED BY <1>18, <3>1, <3>2
  <2> QED BY <2>1, <2>2 DEF CacheInv
<1>19. CASE UNCHANGED vars
  BY <1>3, <1>19
<1> QED
  BY <1>5, <1>6, <1>7, <1>8, <1>9, <1>10, <1>11, <1>12, <1>13, <1>14, <1>15, <1>16, <1>17,
     <1>18, <1>19 DEF Next, Return, End, ShardStep

-----------------------------------------------------------------------------
(* Searches: what the merge holds.                                         *)

LEMMA MergeStep ==
  ASSUME TypeOK, ServedInv, HeldInv, CacheInv, MergeInv, [Next]_vars PROVE MergeInv'
<1> USE DEF TypeOK, vars, shards, request, answer, history
<1> USE DEF Threads, Writers, NoCalls
\* Steps that leave the calls of one search alone.
<1>15. ASSUME NEW u \in Searchers, merged'[u] = merged[u], must'[u] = must[u],
              excused'[u] = excused[u], co'[u] = co[u], pc'[u] = pc[u],
              \A s \in Shards : promised[s] \subseteq promised'[s]
       PROVE  \A s \in Shards : Owed(u, s)'
  BY <1>15 DEF MergeInv, Owed
<1>16. ASSUME NEW t \in Searchers, \A u \in Searchers \ {t} : \A s \in Shards : Owed(u, s)',
              \A s \in Shards : Owed(t, s)'
       PROVE  MergeInv'
  <2> SUFFICES ASSUME NEW u \in Searchers, NEW s \in Shards PROVE Owed(u, s)'
    BY DEF MergeInv
  <2>1. CASE u = t
    BY <2>1, <1>16
  <2>2. CASE u # t
    BY <2>2, <1>16
  <2> QED BY <2>1, <2>2
\* Steps that leave the calls of searches alone.
<1>1. ASSUME UNCHANGED <<merged, must, excused>>,
             \A t \in Searchers : co'[t] = co[t] /\ pc'[t] = pc[t],
             \A s \in Shards : promised[s] \subseteq promised'[s]
      PROVE  MergeInv'
  BY <1>1, <1>15 DEF MergeInv
<1>2. ASSUME NEW t \in Searchers, Search(t) PROVE MergeInv'
  <2>1. /\ must' = [must EXCEPT ![t] = promised] /\ promised' = promised
        /\ co' = [co EXCEPT ![t] = [s \in Shards |-> "wait"]]
        /\ \A u \in Searchers \ {t} : /\ merged'[u] = merged[u] /\ must'[u] = must[u]
                                      /\ excused'[u] = excused[u] /\ pc'[u] = pc[u]
                                      /\ co'[u] = co[u]
    BY <1>2 DEF Search
  <2>2. \A s \in Shards : must'[t][s] = promised'[s] /\ co'[t][s] = "wait"
    BY <2>1
  <2>3. \A u \in Searchers \ {t} : \A s \in Shards : Owed(u, s)'
    BY <1>15, <2>1
  <2>4. pc'[t] = "wait"
    BY <1>2 DEF Search
  <2>5. \A s \in Shards : Owed(t, s)'
    BY <2>2, <2>4 DEF Owed
  <2> QED BY <2>3, <2>5, <1>16
<1>3. ASSUME NEW t \in Searchers, NEW s \in Shards, ShardAnswers(t, s) PROVE MergeInv'
  <2>1. PICK e \in Outcomes(s) :
          /\ merged' = [merged EXCEPT ![t] = @ \o e.docs]
          /\ IF e.whole THEN UNCHANGED excused ELSE Excuse(t, s)
    BY <1>3 DEF ShardAnswers
  <2> DEFINE a == e.docs
  <2>2. a \in Seq(Docs) /\ merged[t] \in Seq(Docs) /\ merged'[t] = merged[t] \o a
    BY <2>1, AnswerType
  <2> HIDE DEF a
  <2>3. /\ \A i \in DOMAIN merged[t] : i \in DOMAIN merged'[t] /\ merged'[t][i] = merged[t][i]
        /\ \A i \in DOMAIN a : /\ Len(merged[t]) + i \in DOMAIN merged'[t]
                              /\ merged'[t][Len(merged[t]) + i] = a[i]
    <3>1. /\ merged'[t] \in Seq(Docs) /\ Len(merged'[t]) = Len(merged[t]) + Len(a)
          /\ \A i \in 1..(Len(merged[t]) + Len(a)) : merged'[t][i] =
               IF i <= Len(merged[t]) THEN merged[t][i] ELSE a[i - Len(merged[t])]
      BY <2>2, ConcatProperties
    <3>2. ASSUME NEW i \in DOMAIN merged[t]
          PROVE  i \in DOMAIN merged'[t] /\ merged'[t][i] = merged[t][i]
      BY <2>2, <3>1, SMTT(20)
    <3>3. ASSUME NEW i \in DOMAIN a
          PROVE  /\ Len(merged[t]) + i \in DOMAIN merged'[t]
                 /\ merged'[t][Len(merged[t]) + i] = a[i]
      <4>1. /\ Len(merged[t]) + i \in 1..(Len(merged[t]) + Len(a))
            /\ ~ (Len(merged[t]) + i <= Len(merged[t]))
            /\ (Len(merged[t]) + i) - Len(merged[t]) = i
        <5>1. Len(merged[t]) \in Nat /\ Len(a) \in Nat /\ i \in 1..Len(a)
          BY ONLY <2>2, i \in DOMAIN a
        <5> QED BY ONLY <5>1
      <4> DEFINE k == Len(merged[t]) + i
      <4>2. k \in DOMAIN merged'[t]
        BY <4>1, <3>1
      <4>3. merged'[t][k] = IF k <= Len(merged[t]) THEN merged[t][k] ELSE a[k - Len(merged[t])]
        BY <4>1, <3>1
      <4> QED BY <4>1, <4>2, <4>3
    <3> QED BY <3>2, <3>3
  <2>4. UNCHANGED <<must, promised, pc>> /\ co' = [co EXCEPT ![t][s] = "ok"]
    BY <1>3 DEF ShardAnswers
  <2>5. /\ \A u \in Searchers : excused[u] \subseteq excused'[u]
        /\ \A u \in Searchers \ {t} : excused'[u] = excused[u]
        /\ excused'[t] = excused[t] \/ excused'[t] = excused[t] \cup {s}
    <3>1. excused' = excused \/ Excuse(t, s)
      BY <2>1
    <3>2. excused \in [Searchers -> SUBSET Shards]
      OBVIOUS
    <3> QED BY ONLY <3>1, <3>2, t \in Searchers DEF Excuse
  <2>6. s \notin excused'[t] => Covers(a, must[t][s])
    <3>1. SUFFICES ASSUME s \notin excused'[t] PROVE Covers(a, must[t][s])
      OBVIOUS
    <3>2. e.whole
      <4>1. excused \in [Searchers -> SUBSET Shards]
        OBVIOUS
      <4> QED BY ONLY <2>1, <3>1, <4>1, t \in Searchers DEF Excuse
    <3>3. Covers(a, promised[s])
      BY <3>2, WholeOwes DEF Owes, a
    <3>4. must[t][s] \subseteq promised[s]
      BY DEF MergeInv, Owed
    <3> QED BY <3>3, <3>4 DEF Covers
  <2>8. ASSUME NEW q \in Shards, co'[t][q] = "ok", q \notin excused'[t],
               NEW d \in Sure, FileOf[d] \in must'[t][q]
        PROVE  \E i \in DOMAIN merged'[t] : merged'[t][i] = d
    <3>1. CASE q = s
      <4>1. PICK i \in DOMAIN a : a[i] = d
        BY <2>4, <2>6, <2>8, <3>1 DEF Covers
      <4> QED BY <2>3, <4>1
    <3>2. CASE q # s
      <4>1. co[t][q] = "ok" /\ q \notin excused[t] /\ FileOf[d] \in must[t][q]
        BY <2>4, <2>5, <2>8, <3>2
      <4>2. PICK i \in DOMAIN merged[t] : merged[t][i] = d
        BY <4>1 DEF MergeInv, Owed, Covers
      <4> QED BY <2>3, <4>2
    <3> QED BY <3>1, <3>2
  <2>9. \A u \in Searchers \ {t} : merged'[u] = merged[u] /\ co'[u] = co[u]
    BY <2>1, <2>4
  <2>10. \A q \in Shards : /\ co'[t][q] = "failed" => q \in excused'[t]
                           /\ pc'[t] = "wait" <=> co'[t][q] # "none"
                           /\ must'[t][q] \subseteq promised'[q]
    <3>1. pc[t] = "wait" /\ co[t][s] = "wait"
      BY <1>3 DEF ShardAnswers, MergeInv, Owed
    <3> QED BY <2>4, <2>5, <3>1 DEF MergeInv, Owed
  <2>11. \A u \in Searchers \ {t} : \A q \in Shards : Owed(u, q)'
    BY <1>15, <2>4, <2>5, <2>9
  <2>12. \A q \in Shards : Owed(t, q)'
    BY <2>8, <2>10 DEF Owed, Covers
  <2> QED BY <2>11, <2>12, <1>16
<1>4. ASSUME NEW t \in Searchers, NEW s \in Shards, CallFails(t, s) PROVE MergeInv'
  <2>1. /\ UNCHANGED <<must, promised, merged, pc>>
        /\ co[t][s] = "wait" /\ co' = [co EXCEPT ![t][s] = "failed"]
        /\ Excuse(t, s)
    BY <1>4 DEF CallFails
  <2>2. /\ excused'[t] = excused[t] \cup {s}
        /\ \A u \in Searchers \ {t} : excused'[u] = excused[u] /\ co'[u] = co[u]
    BY <2>1 DEF Excuse
  <2>3. \A q \in Shards \ {s} : co'[t][q] = co[t][q]
    BY <2>1
  <2>4. \A u \in Searchers \ {t} : \A q \in Shards : Owed(u, q)'
    BY <1>15, <2>1, <2>2
  <2>5. \A q \in Shards : Owed(t, q)'
    BY <2>1, <2>2, <2>3 DEF MergeInv, Owed
  <2> QED BY <2>4, <2>5, <1>16
<1>5. ASSUME NEW t \in Writers, NEW s \in Shards, CallFails(t, s) PROVE MergeInv'
  <2>1. t \notin Searchers
    OBVIOUS
  <2> QED BY <1>1, <1>5, <2>1 DEF CallFails
<1>6. ASSUME NEW t \in Searchers, Merge(t) PROVE MergeInv'
  BY <1>6 DEF Merge, Over, MergeInv, Owed
<1>7. ASSUME NEW n \in Notifiers, Notify(n) PROVE MergeInv'
  <2>1. \A t \in Searchers : co'[t] = co[t] /\ pc'[t] = pc[t]
    BY <1>7 DEF Notify
  <2> QED BY <1>1, <1>7, <2>1 DEF Notify
<1>8. ASSUME NEW s \in Shards, ShardStep(s) PROVE MergeInv'
  BY <1>1, <1>8 DEF ShardStep, ShardIndexes, ShardRefuses, ShardResets, ShardLoads, OtherSearch,
     ShardStops, ShardStarts, CacheForgets
<1>9. ASSUME NEW n \in Notifiers, NEW s \in Shards, PassOn(n, s) PROVE MergeInv'
  <2>1. \A q \in Shards : promised[q] \subseteq promised'[q]
    BY <1>9 DEF PassOn
  <2> QED BY <1>1, <1>9, <2>1 DEF PassOn
<1>10. ASSUME NEW r \in Reindexers, Reindex(r) PROVE MergeInv'
  BY <1>1, <1>10 DEF Reindex
<1>11. ASSUME NEW r \in Reindexers, NEW s \in Shards, ReindexReturns(r, s) PROVE MergeInv'
  BY <1>1, <1>11 DEF ReindexReturns
<1>12. ASSUME NEW t \in Writers, Answer(t) PROVE MergeInv'
  BY <1>1, <1>12 DEF Answer, Over
<1>13. ASSUME NEW r \in Reindexers, NEW s \in Shards, CutAnswer(r, s) PROVE MergeInv'
  BY <1>13 DEF CutAnswer, Stop, MergeInv, Owed
<1>14. CASE UNCHANGED vars
  BY <1>1, <1>14
<1> QED
  BY <1>2, <1>3, <1>4, <1>5, <1>6, <1>7, <1>8, <1>9, <1>10, <1>11, <1>12, <1>13, <1>14
     DEF Next, Return, End

\* A search that is over is left alone.
Kept(t) ==
  pc'[t] = "done" =>
    /\ pc[t] = "done"
    /\ merged'[t] = merged[t] /\ must'[t] = must[t] /\ excused'[t] = excused[t]
    /\ reply'[t] = reply[t] /\ paging'[t] = paging[t]

LEMMA OverKept ==
  ASSUME TypeOK, MergeInv, [Next]_vars, NEW t \in Searchers, ~ Merge(t)
  PROVE  Kept(t)
<1> USE DEF TypeOK, vars, shards, request, answer, history
<1> USE DEF Threads, Writers, NoCalls, Kept
<1>1. ASSUME NEW u \in Searchers, Search(u) PROVE Kept(t)
  <2>1. CASE u = t
    BY <1>1, <2>1 DEF Search
  <2>2. CASE u # t
    BY <1>1, <2>2 DEF Search
  <2> QED BY <2>1, <2>2
<1>2. ASSUME NEW u \in Threads, NEW s \in Shards, ShardAnswers(u, s) \/ CallFails(u, s)
      PROVE  Kept(t)
  <2>1. pc' = pc /\ reply' = reply /\ paging' = paging /\ must' = must
    BY <1>2 DEF ShardAnswers, CallFails
  <2>2. CASE u = t
    <3>1. co[t][s] = "wait"
      BY <1>2, <2>2 DEF ShardAnswers, CallFails
    <3>2. pc[t] = "wait"
      BY <3>1 DEF MergeInv, Owed
    <3> QED BY <2>1, <3>2
  <2>3. CASE u # t
    <3>1. \/ merged' = merged
          \/ \E e \in Outcomes(s) : merged' = [merged EXCEPT ![u] = @ \o e.docs]
      BY <1>2 DEF ShardAnswers, CallFails
    <3>2. excused' = excused \/ Excuse(u, s)
      BY <1>2 DEF ShardAnswers, CallFails
    <3>3. merged'[t] = merged[t]
      BY <2>3, <3>1
    <3>4. excused'[t] = excused[t]
      <4>1. excused \in [Searchers -> SUBSET Shards]
        OBVIOUS
      <4> QED BY ONLY <2>3, <3>2, <4>1, t \in Searchers DEF Excuse
    <3> QED BY <2>1, <3>3, <3>4
  <2> QED BY <2>2, <2>3
<1>3. ASSUME NEW u \in Searchers, Merge(u) PROVE Kept(t)
  <2>1. u # t
    BY <1>3
  <2>2. UNCHANGED <<merged, must, excused>> /\ pc' = [pc EXCEPT ![u] = "done"]
    BY <1>3 DEF Merge, Over
  <2>3. reply'[t] = reply[t] /\ paging'[t] = paging[t]
    BY <1>3, <2>1 DEF Merge
  <2> QED BY <2>1, <2>2, <2>3
<1>4. ASSUME NEW n \in Notifiers, Notify(n) PROVE Kept(t)
  BY <1>4 DEF Notify
<1>5. ASSUME NEW r \in Reindexers, Reindex(r) PROVE Kept(t)
  BY <1>5 DEF Reindex
<1>6. ASSUME NEW s \in Shards, ShardStep(s) PROVE Kept(t)
  BY <1>6 DEF ShardStep, ShardIndexes, ShardRefuses, ShardResets, ShardLoads, OtherSearch,
     ShardStops, ShardStarts, CacheForgets
<1>7. ASSUME NEW w \in Writers, NEW s \in Shards, PassOn(w, s) \/ ReindexReturns(w, s)
      PROVE  Kept(t)
  BY <1>7 DEF PassOn, ReindexReturns
<1>8. ASSUME NEW w \in Writers, Answer(w) PROVE Kept(t)
  BY <1>8 DEF Answer, Over
<1>9. ASSUME NEW r \in Reindexers, NEW s \in Shards, CutAnswer(r, s) PROVE Kept(t)
  BY <1>9 DEF CutAnswer, Stop
<1>10. CASE UNCHANGED vars
  BY <1>10
<1> QED BY <1>1, <1>2, <1>3, <1>4, <1>5, <1>6, <1>7, <1>8, <1>9, <1>10 DEF Next, Return, End

\* The merge is made when every shard has answered or failed.
LEMMA FoundStep ==
  ASSUME TypeOK, MergeInv, AckedFound, [Next]_vars PROVE AckedFound'
<1> USE DEF TypeOK, Threads
\* What AckedFound says of one search.
<1> DEFINE Merged(t) ==
      \A s \in Shards \ excused[t] : \A d \in Sure :
        FileOf[d] \in must[t][s] => \E i \in DOMAIN merged[t] : merged[t][i] = d
<1> SUFFICES ASSUME NEW t \in Searchers, pc'[t] = "done" PROVE Merged(t)'
  BY DEF AckedFound
<1>1. CASE Merge(t)
  <2>1. UNCHANGED <<merged, must, excused>>
    BY <1>1 DEF Merge, history
  <2>2. \A s \in Shards : co[t][s] \in {"ok", "failed"}
    BY <1>1 DEF Merge, AllBack, MergeInv, Owed
  <2>3. Merged(t)
    BY <2>2 DEF MergeInv, Owed, Covers
  <2> QED BY <2>1, <2>3
<1>2. CASE ~ Merge(t)
  <2>1. /\ pc[t] = "done" /\ merged'[t] = merged[t]
        /\ must'[t] = must[t] /\ excused'[t] = excused[t]
    BY <1>2, OverKept DEF Kept
  <2> QED BY <2>1 DEF AckedFound
<1> QED BY <1>1, <1>2

\* The page is cut when the merge is complete, and read only then.
LEMMA PageStep ==
  ASSUME TypeOK, MergeInv, PageExact, [Next]_vars PROVE PageExact'
<1> USE DEF TypeOK, Threads
\* What PageExact says of one search.
<1> DEFINE Exact(t) ==
      LET first == (AtLeastOne(paging[t][1]) - 1) * PageSize(paging[t][2])
          total == Len(merged[t])
      IN first <= MaxInt /\ total + MaxPageSize <= MaxInt =>
           /\ reply[t].status = "ok"
           /\ Len(reply[t].docs) =
                IF first >= total THEN 0 ELSE Least(PageSize(paging[t][2]), total - first)
           /\ \A i \in DOMAIN reply[t].docs : reply[t].docs[i] = merged[t][first + i]
<1> SUFFICES ASSUME NEW t \in Searchers, pc'[t] = "done" PROVE Exact(t)'
  BY DEF PageExact
<1>1. CASE Merge(t)
  <2>1. PICK p \in Paging :
          /\ paging' = [paging EXCEPT ![t] = p]
          /\ reply' = [reply EXCEPT ![t] = Page(Ranked(merged[t]), p[1], p[2])]
    BY <1>1 DEF Merge
  <2>2. p \in Int \X Int /\ p[1] \in Int /\ p[2] \in Int /\ merged[t] \in Seq(Docs)
    OBVIOUS
  <2>3. paging'[t] = p /\ reply'[t] = Page(merged[t], p[1], p[2]) /\ merged'[t] = merged[t]
    BY <1>1, <2>1, <2>2, RankedSame DEF Merge
  <2> DEFINE first == (AtLeastOne(p[1]) - 1) * PageSize(p[2])
  <2>4. ASSUME first <= MaxInt, Len(merged[t]) + MaxPageSize <= MaxInt
        PROVE  /\ reply'[t].status = "ok"
               /\ Len(reply'[t].docs) = IF first >= Len(merged[t]) THEN 0
                                          ELSE Least(PageSize(p[2]), Len(merged[t]) - first)
               /\ \A i \in DOMAIN reply'[t].docs : reply'[t].docs[i] = merged[t][first + i]
    BY <2>2, <2>3, <2>4, PageCorrect
  <2> QED BY <2>3, <2>4
<1>2. CASE ~ Merge(t)
  <2>1. /\ pc[t] = "done" /\ merged'[t] = merged[t]
        /\ reply'[t] = reply[t] /\ paging'[t] = paging[t]
    BY <1>2, OverKept DEF Kept
  <2>2. Exact(t)
    BY <2>1 DEF PageExact
  <2> QED BY <2>1, <2>2
<1> QED BY <1>1, <1>2

-----------------------------------------------------------------------------
(* The theorems.                                                           *)

\* The invariant is inductive: the strengthening every theorem below rests on.
THEOREM Inductive == Spec => []IInv
<1>1. IInv /\ [Next]_vars => IInv'
  BY TypeStep, ServedStep, HeldStep, CacheStep, MergeStep, FoundStep, PageStep DEF IInv
<1> QED BY InitInv, <1>1, PTL DEF Spec

\* Whatever requests overlap, fail or are cut off by a crash, the state keeps
\* its types.
THEOREM TypeCorrect == Spec => []TypeOK
<1>1. IInv => TypeOK
  BY DEF IInv
<1> QED BY Inductive, <1>1, PTL

\* What the shards have acknowledged stays indexed: a shard that is up and not
\* reloading has every document of every file reported as indexed on it.
THEOREM PromisesKept == Spec => []PromiseKept
<1>1. IInv => PromiseKept
  BY DEF IInv, HeldInv, Has, PromiseKept
<1> QED BY Inductive, <1>1, PTL

\* A search that starts after a file was reported finds its sure matches, or the
\* shard that has them failed, filled its page, or gave what it had found while
\* it was reloading, then or, from its cache, long after the reindex returned.
THEOREM AckedIsFound == Spec => []AckedFound
<1>1. IInv => AckedFound
  BY DEF IInv
<1> QED BY Inductive, <1>1, PTL

\* A page is the slice of the merge its number and size name.
THEOREM PagesAreExact == Spec => []PageExact
<1>1. IInv => PageExact
  BY DEF IInv
<1> QED BY Inductive, <1>1, PTL
=============================================================================
