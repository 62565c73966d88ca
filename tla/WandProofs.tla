----------------------------- MODULE WandProofs -----------------------------
(***************************************************************************)
(* Proofs about the WAND traversal, for every index, block size and size   *)
(* of the heap.  The library's induction theorems take an operator, so     *)
(* what needs an induction is shown by a least counterexample.             *)
(***************************************************************************)
EXTENDS Wand, FiniteSetTheorems, SequenceTheorems, TLAPS

-----------------------------------------------------------------------------
(* Numbers.                                                                *)

\* Of the intervals 0..k, k in S, one includes no other.
LEMMA LeastNumber ==
  ASSUME NEW S, S \subseteq Nat, S # {}
  PROVE  \E m \in S : \A k \in S : m <= k
<1>1. PICK n \in S : TRUE
  OBVIOUS
<1> DEFINE Upto == {0..k : k \in {j \in S : j <= n}}
<1>2. IsFiniteSet(0..n)
  BY <1>1, FS_Interval
<1>3. IsWellFoundedOn(StrictSubsetOrdering(0..n), SUBSET (0..n))
  BY <1>2, FS_StrictSubsetOrderingWellFounded, FS_FiniteSubsetsOfFinite
<1>4. Upto \subseteq SUBSET (0..n) /\ Upto # {}
  BY <1>1
<1>5. PICK x \in Upto : \A y \in Upto : ~ (<<y, x>> \in StrictSubsetOrdering(0..n))
  <2> HIDE DEF Upto
  <2> QED BY <1>3, <1>4, WFMin
<1>6. PICK m \in S : m <= n /\ x = 0..m
  BY <1>5
<1>7. ASSUME NEW k \in S PROVE m <= k
  <2>1. SUFFICES ASSUME k < m PROVE FALSE
    OBVIOUS
  <2>2. 0..k \in Upto
    BY <2>1, <1>6, <1>1
  <2>3. <<0..k, x>> \notin StrictSubsetOrdering(0..n)
    BY <2>2, <1>5
  <2>4. 0..k \subseteq 0..m /\ m \in 0..m /\ m \notin 0..k
    BY <2>1
  <2> HIDE DEF Upto
  <2>5. 0..k \in SUBSET (0..n) /\ 0..m \in SUBSET (0..n)
    BY <2>1, <1>6, <1>1
  <2>6. <<0..k, 0..m>> \in (SUBSET (0..n)) \X (SUBSET (0..n))
    BY ONLY <2>5
  <2> QED BY <2>3, <2>4, <2>6, <1>6 DEF StrictSubsetOrdering
<1> QED
  BY <1>7

\* Min of the library returns the least member of a set of numbers.
LEMMA MinIsLeast ==
  ASSUME NEW S, S \subseteq Nat, S # {}
  PROVE  Min(S) \in S /\ \A k \in S : Min(S) <= k
BY LeastNumber DEF Min

\* Max of the library returns the greatest member of a bounded set.
LEMMA MaxIsGreatest ==
  ASSUME NEW S, NEW b \in Nat, S \subseteq 0..b, S # {}
  PROVE  Max(S) \in S /\ \A k \in S : k <= Max(S)
<1> DEFINE T == {b - k : k \in S}
<1>0. \A k \in S : k \in Nat /\ k <= b /\ b - k \in Nat
  OBVIOUS
<1>1. T \subseteq Nat /\ T # {}
  <2>1. PICK k \in S : TRUE
    OBVIOUS
  <2>2. b - k \in T
    BY <2>1
  <2> QED BY <1>0, <2>2
<1>2. PICK m \in T : \A k \in T : m <= k
  <2> HIDE DEF T
  <2> QED BY <1>1, LeastNumber
<1>3. PICK x \in S : m = b - x
  BY <1>2
<1>4. ASSUME NEW k \in S PROVE x >= k
  <2>1. m <= b - k
    BY <1>2
  <2> QED BY <2>1, <1>0, <1>3
<1> QED BY <1>4 DEF Max

-----------------------------------------------------------------------------
(* Sums.                                                                   *)

\* The partial sums of w.
Term(w, t) == IF t \in DOMAIN w THEN w[t] ELSE 0
IsSum(f, w) ==
  f = [t \in 0..NumTokens |-> IF t = 0 THEN 0 ELSE f[t - 1] + Term(w, t)]

\* They exist, and are numbers.
LEMMA SumsExist ==
  ASSUME NEW w, \A t \in DOMAIN w : w[t] \in Nat
  PROVE  \E f \in [0..NumTokens -> Nat] : IsSum(f, w) /\ SumOf(w) = f[NumTokens]
<1> DEFINE Upto(n, f) == /\ f \in [0..n -> Nat] /\ f[0] = 0
                         /\ \A t \in 1..n : f[t] = f[t - 1] + Term(w, t)
           Missing == {n \in Nat : ~ \E f : Upto(n, f)}
<1>1. \A t : Term(w, t) \in Nat
  BY DEF Term
<1>2. Missing = {}
  <2>1. SUFFICES ASSUME Missing # {} PROVE FALSE
    OBVIOUS
  <2>2. PICK m \in Missing : \A k \in Missing : m <= k
    <3>1. Missing \subseteq Nat
      OBVIOUS
    <3> HIDE DEF Missing
    <3> QED BY <2>1, <3>1, LeastNumber
  <2>3. m # 0
    <3>1. Upto(0, [t \in 0..0 |-> 0])
      OBVIOUS
    <3> QED BY <3>1
  <2>4. m - 1 \in Nat /\ m - 1 \notin Missing
    <3>1. m \in Nat
      BY <2>2
    <3>2. m - 1 \in Nat /\ ~ (m <= m - 1)
      BY <2>3, <3>1
    <3> HIDE DEF Missing
    <3> QED BY <2>2, <3>2
  <2>5. PICK f : Upto(m - 1, f)
    BY <2>4
  <2> DEFINE g == [t \in 0..m |-> IF t = m THEN f[m - 1] + Term(w, m) ELSE f[t]]
  <2>6. Upto(m, g)
    BY <1>1, <2>3, <2>4, <2>5
  <2> QED BY <2>6, <2>2
<1>3. PICK f : Upto(NumTokens, f)
  BY <1>2, SizesOK
<1>4. IsSum(f, w)
  BY <1>3, SizesOK DEF IsSum
<1> DEFINE c == CHOOSE h : IsSum(h, w)
<1>5. IsSum(c, w)
  BY <1>4
<1>6. SumOf(w) = c[NumTokens]
  BY DEF SumOf, IsSum, Term
<1> HIDE DEF c
<1>7. DOMAIN c = 0..NumTokens /\ c[0] = 0
      /\ \A t \in 1..NumTokens : c[t] = c[t - 1] + Term(w, t)
  BY <1>5, SizesOK DEF IsSum
<1>8. \A t \in 0..NumTokens : c[t] \in Nat
  <2> DEFINE Bad == {t \in 0..NumTokens : c[t] \notin Nat}
  <2>1. SUFFICES ASSUME Bad # {} PROVE FALSE
    OBVIOUS
  <2>2. Bad \subseteq Nat
    BY SizesOK
  <2>3. PICK m \in Bad : \A k \in Bad : m <= k
    <3> HIDE DEF Bad
    <3> QED BY <2>1, <2>2, LeastNumber
  <2>4. m # 0 /\ m \in 1..NumTokens /\ m - 1 \in 0..NumTokens
    BY <1>7, <2>3, SizesOK
  <2>5. c[m - 1] \in Nat
    BY <2>3, <2>4, SizesOK
  <2> QED BY <2>3, <2>4, <2>5, <1>7, <1>1
<1>9. c = [t \in 0..NumTokens |-> c[t]]
  BY <1>5 DEF IsSum
<1>10. c \in [0..NumTokens -> Nat]
  BY <1>8, <1>9
<1> QED BY <1>5, <1>6, <1>10

\* A sum is a number.
LEMMA SumIsNat ==
  ASSUME NEW w, \A t \in DOMAIN w : w[t] \in Nat
  PROVE  SumOf(w) \in Nat
BY SumsExist, SizesOK

\* More tokens and larger weights make a larger sum.
LEMMA SumGrows ==
  ASSUME NEW v, NEW w, \A t \in DOMAIN w : w[t] \in Nat, DOMAIN v \subseteq DOMAIN w,
         \A t \in DOMAIN v : v[t] \in Nat /\ v[t] <= w[t]
  PROVE  SumOf(v) <= SumOf(w)
<1>1. PICK f \in [0..NumTokens -> Nat] : IsSum(f, v) /\ SumOf(v) = f[NumTokens]
  BY SumsExist
<1>2. PICK g \in [0..NumTokens -> Nat] : IsSum(g, w) /\ SumOf(w) = g[NumTokens]
  BY SumsExist
<1> DEFINE Bad == {t \in 0..NumTokens : ~ f[t] <= g[t]}
<1>3. Bad = {}
  <2>1. SUFFICES ASSUME Bad # {} PROVE FALSE
    OBVIOUS
  <2>2. Bad \subseteq Nat
    BY SizesOK
  <2>3. PICK m \in Bad : \A k \in Bad : m <= k
    <3> HIDE DEF Bad
    <3> QED BY <2>1, <2>2, LeastNumber
  <2>4. m # 0
    BY <1>1, <1>2, <2>3, SizesOK DEF IsSum
  <2>5. m \in 0..NumTokens /\ m - 1 \in 0..NumTokens /\ f[m - 1] <= g[m - 1]
    BY <2>3, <2>4, SizesOK
  <2>6. f[m] = f[m - 1] + Term(v, m) /\ g[m] = g[m - 1] + Term(w, m)
    BY <1>1, <1>2, <2>4, <2>5 DEF IsSum
  <2>7. Term(v, m) \in Nat /\ Term(w, m) \in Nat /\ Term(v, m) <= Term(w, m)
    BY DEF Term
  <2>8. f[m - 1] \in Nat /\ g[m - 1] \in Nat
    BY <2>5
  <2> QED BY <2>3, <2>5, <2>6, <2>7, <2>8
<1> QED BY <1>1, <1>2, <1>3, SizesOK

\* A positive weight makes a positive sum.
LEMMA SumIsPositive ==
  ASSUME NEW w, \A t \in DOMAIN w : w[t] \in Nat, NEW u \in DOMAIN w \cap Tokens, w[u] > 0
  PROVE  SumOf(w) > 0
<1>1. PICK f \in [0..NumTokens -> Nat] : IsSum(f, w) /\ SumOf(w) = f[NumTokens]
  BY SumsExist
<1>2. \A t \in 1..NumTokens : f[t] = f[t - 1] + Term(w, t) /\ f[t - 1] \in Nat
  BY <1>1, SizesOK DEF IsSum
<1> DEFINE Bad == {t \in u..NumTokens : ~ f[t] > 0}
<1>3. Bad = {}
  <2>1. SUFFICES ASSUME Bad # {} PROVE FALSE
    OBVIOUS
  <2>2. Bad \subseteq Nat
    BY SizesOK DEF Tokens
  <2>3. PICK m \in Bad : \A k \in Bad : m <= k
    <3> HIDE DEF Bad
    <3> QED BY <2>1, <2>2, LeastNumber
  <2>4. m \in 1..NumTokens /\ Term(w, m) \in Nat
    BY <2>3, SizesOK DEF Tokens, Term
  <2>5. CASE m = u
    BY <2>5, <2>3, <2>4, <1>2 DEF Term
  <2>6. CASE m # u
    <3>1. m - 1 \in u..NumTokens /\ m - 1 \notin Bad
      BY <2>6, <2>3, <2>4, SizesOK DEF Tokens
    <3> QED BY <3>1, <2>3, <2>4, <1>2
  <2> QED BY <2>5, <2>6
<1> QED BY <1>1, <1>3, SizesOK DEF Tokens

-----------------------------------------------------------------------------
(* The heap.                                                               *)

Entry == [id : Docs, score : Nat]
Distinct(h) == \A i, j \in DOMAIN h : h[i].id = h[j].id => i = j

\* The fields of the entries of a heap.
LEMMA EntryFacts ==
  ASSUME NEW h \in Seq(Entry)
  PROVE  \A i \in DOMAIN h : h[i] \in Entry /\ h[i].id \in Docs /\ h[i].id \in Nat
<1>1. \A i \in DOMAIN h : h[i] \in Entry
  OBVIOUS
<1> QED BY <1>1 DEF Entry, Docs

\* What is left of a heap after one of its entries is removed.
LEMMA RemoveAtFacts ==
  ASSUME NEW s \in Seq(Entry), NEW k \in 1..Len(s)
  PROVE  /\ RemoveAt(s, k) \in Seq(Entry) /\ Len(RemoveAt(s, k)) = Len(s) - 1
         /\ \A i \in 1..(Len(s) - 1) : RemoveAt(s, k)[i] = s[IF i < k THEN i ELSE i + 1]
<1> DEFINE a == SubSeq(s, 1, k - 1)
           b == SubSeq(s, k + 1, Len(s))
<1>1. /\ a \in Seq(Entry) /\ Len(a) = k - 1
      /\ \A i \in 1..(k - 1) : a[i] = s[i]
  OBVIOUS
<1>2. /\ b \in Seq(Entry) /\ Len(b) = Len(s) - k
      /\ \A i \in 1..(Len(s) - k) : b[i] = s[k + i]
  OBVIOUS
<1>3. RemoveAt(s, k) = a \o b
  BY DEF RemoveAt
<1> HIDE DEF a, b
<1>4. /\ a \o b \in Seq(Entry) /\ Len(a \o b) = Len(a) + Len(b)
      /\ \A i \in 1..(Len(a) + Len(b)) :
           (a \o b)[i] = IF i <= Len(a) THEN a[i] ELSE b[i - Len(a)]
  BY <1>1, <1>2, ConcatProperties
<1>5. ASSUME NEW i \in 1..(Len(s) - 1)
      PROVE  (a \o b)[i] = s[IF i < k THEN i ELSE i + 1]
  <2>1. Len(s) \in Nat /\ k \in 1..Len(s)
    OBVIOUS
  <2>2. CASE i < k
    <3>1. i \in 1..(k - 1) /\ i \in 1..(Len(a) + Len(b)) /\ i <= Len(a)
      BY <2>1, <2>2, <1>1, <1>2
    <3> QED BY <3>1, <1>1, <1>4, <2>2
  <2>3. CASE ~ (i < k)
    <3>1. /\ i - Len(a) \in 1..(Len(s) - k) /\ k + (i - Len(a)) = i + 1
          /\ i \in 1..(Len(a) + Len(b)) /\ ~ (i <= Len(a))
      BY <2>1, <2>3, <1>1, <1>2
    <3> QED BY <3>1, <1>2, <1>4, <2>3
  <2> QED BY <2>2, <2>3
<1>6. Len(a) + Len(b) = Len(s) - 1
  BY <1>1, <1>2
<1> QED BY <1>3, <1>4, <1>5, <1>6

\* The least score of a heap that is not empty.
LEMMA HeapMinFacts ==
  ASSUME NEW h \in Seq(Entry), Len(h) > 0
  PROVE  /\ HeapMin(h) \in Nat
         /\ \E i \in DOMAIN h : h[i].score = HeapMin(h)
         /\ \A i \in DOMAIN h : HeapMin(h) <= h[i].score
<1> DEFINE S == {h[i].score : i \in DOMAIN h}
<1>1. \A i \in DOMAIN h : h[i].score \in Nat
  <2>1. \A i \in DOMAIN h : h[i] \in Entry
    OBVIOUS
  <2> QED BY <2>1 DEF Entry
<1>2. S \subseteq Nat /\ S # {}
  <2>1. 1 \in DOMAIN h
    OBVIOUS
  <2> QED BY <1>1, <2>1
<1>3. HeapMin(h) = Min(S)
  BY DEF HeapMin
<1>4. Min(S) \in S /\ \A k \in S : Min(S) <= k
  <2> HIDE DEF S
  <2> QED BY <1>2, MinIsLeast
<1> QED BY <1>1, <1>3, <1>4

\* What Push and Pop make of a heap: its entries are of the old ones and the
\* new one, and one that is not kept scores no more than any that is.
LEMMA PushPopFacts ==
  ASSUME NEW h \in Seq(Entry), NEW e \in Entry, Len(h) <= TopK, NEW g \in PushPop(h, e)
  PROVE  /\ g \in Seq(Entry) /\ Len(g) <= TopK /\ Len(g) > 0 /\ Len(g) >= Len(h)
         /\ \A i \in DOMAIN g : g[i] = e \/ \E j \in DOMAIN h : g[i] = h[j]
         /\ Distinct(h) /\ (\A j \in DOMAIN h : h[j].id # e.id) => Distinct(g)
         /\ \A x \in {h[j] : j \in DOMAIN h} \cup {e} :
              \/ \E i \in DOMAIN g : g[i] = x
              \/ Len(g) = TopK /\ \A i \in DOMAIN g : g[i].score >= x.score
<1> DEFINE all == Append(h, e)
<1>1. /\ all \in Seq(Entry) /\ Len(all) = Len(h) + 1 /\ all[Len(h) + 1] = e
      /\ \A i \in 1..Len(h) : all[i] = h[i]
  OBVIOUS
<1>2. Len(h) \in Nat /\ TopK \in Nat \ {0} /\ DOMAIN h = 1..Len(h)
  BY SizesOK
<1>3. g \in IF Len(all) <= TopK THEN {all}
            ELSE {RemoveAt(all, i) : i \in {j \in DOMAIN all : all[j].score = HeapMin(all)}}
  BY DEF PushPop
<1> HIDE DEF all
<1>4. \A i \in DOMAIN all : all[i] = e \/ \E j \in DOMAIN h : all[i] = h[j]
  BY <1>1, <1>2
<1>5. ASSUME Distinct(h), \A j \in DOMAIN h : h[j].id # e.id PROVE Distinct(all)
  <2> SUFFICES ASSUME NEW i \in 1..(Len(h) + 1), NEW j \in 1..(Len(h) + 1), all[i].id = all[j].id
               PROVE  i = j
    BY <1>1 DEF Distinct
  <2>1. CASE i \in 1..Len(h) /\ j \in 1..Len(h)
    BY <2>1, <1>1, <1>2, <1>5 DEF Distinct
  <2>2. CASE i = Len(h) + 1 /\ j = Len(h) + 1
    BY <2>2
  <2>3. CASE i = Len(h) + 1 /\ j \in 1..Len(h)
    BY <2>3, <1>1, <1>2, <1>5
  <2>4. CASE j = Len(h) + 1 /\ i \in 1..Len(h)
    BY <2>4, <1>1, <1>2, <1>5
  <2> QED BY <1>2, <2>1, <2>2, <2>3, <2>4
<1>6. \A x \in {h[j] : j \in DOMAIN h} \cup {e} : \E i \in 1..(Len(h) + 1) : all[i] = x
  BY <1>1, <1>2
<1>7. CASE Len(all) <= TopK
  <2>1. g = all
    BY <1>3, <1>7
  <2> QED BY <2>1, <1>1, <1>2, <1>4, <1>5, <1>6, <1>7
<1>8. CASE ~ (Len(all) <= TopK)
  <2>1. PICK k \in DOMAIN all : all[k].score = HeapMin(all) /\ g = RemoveAt(all, k)
    BY <1>3, <1>8
  <2>2. Len(h) = TopK /\ Len(all) = TopK + 1 /\ Len(all) - 1 = TopK /\ k \in 1..Len(all)
    <3>1. DOMAIN all = 1..Len(all) /\ Len(all) = Len(h) + 1
      BY <1>1
    <3>2. Len(h) = TopK
      <4>1. Len(h) \in Nat /\ TopK \in Nat
        BY <1>2
      <4> QED BY ONLY <4>1, <3>1, <1>8, Len(h) <= TopK
    <3> QED BY <3>1, <3>2, <1>2, <2>1
  <2>3. g \in Seq(Entry) /\ Len(g) = TopK
    BY <2>1, <2>2, <1>1, RemoveAtFacts
  <2>4. \A i \in 1..TopK : g[i] = all[IF i < k THEN i ELSE i + 1]
    BY <2>1, <2>2, <1>1, RemoveAtFacts
  <2>5. DOMAIN g = 1..TopK /\ DOMAIN all = 1..(TopK + 1)
    BY <2>2, <2>3, <1>1
  <2>6. ASSUME NEW i \in 1..TopK
        PROVE  \E j \in 1..(TopK + 1) : j # k /\ g[i] = all[j]
    BY <2>4, <1>2
  <2>7. \A j \in 1..(TopK + 1) : all[j].score \in Nat /\ all[k].score <= all[j].score
    <3>1. \A j \in DOMAIN all : HeapMin(all) <= all[j].score /\ all[j] \in Entry
      BY <1>1, <1>2, HeapMinFacts
    <3> QED BY <3>1, <2>1, <2>5 DEF Entry
  <2>8. ASSUME NEW x, NEW j \in 1..(TopK + 1), all[j] = x
        PROVE  \/ \E i \in DOMAIN g : g[i] = x
               \/ Len(g) = TopK /\ \A i \in DOMAIN g : g[i].score >= x.score
    <3>1. CASE j < k
      <4>1. j \in 1..TopK /\ g[j] = all[j]
        BY <3>1, <2>2, <2>4, <1>2
      <4> QED BY <4>1, <2>5, <2>8
    <3>2. CASE j > k
      <4>1. j - 1 \in 1..TopK /\ ~ (j - 1 < k) /\ (j - 1) + 1 = j
        BY <3>2, <2>2, <1>2
      <4>2. g[j - 1] = all[j]
        BY <4>1, <2>4
      <4> QED BY <4>1, <4>2, <2>5, <2>8
    <3>3. CASE j = k
      <4>1. ASSUME NEW i \in 1..TopK PROVE g[i].score >= x.score
        <5>1. PICK l \in 1..(TopK + 1) : g[i] = all[l]
          BY <2>6
        <5> QED BY <5>1, <2>7, <2>8, <3>3
      <4> QED BY <4>1, <2>3, <2>5
    <3> QED BY <3>1, <3>2, <3>3, <2>2
  <2>9. \A x \in {h[j] : j \in DOMAIN h} \cup {e} :
          \/ \E i \in DOMAIN g : g[i] = x
          \/ Len(g) = TopK /\ \A i \in DOMAIN g : g[i].score >= x.score
    BY <1>6, <2>2, <2>8
  <2>10. ASSUME Distinct(all) PROVE Distinct(g)
    <3> SUFFICES ASSUME NEW i \in 1..TopK, NEW j \in 1..TopK, g[i].id = g[j].id PROVE i = j
      BY <2>5 DEF Distinct
    <3> DEFINE at1 == IF i < k THEN i ELSE i + 1
               at2 == IF j < k THEN j ELSE j + 1
    <3>1. at1 \in DOMAIN all /\ at2 \in DOMAIN all /\ (at1 = at2 => i = j)
      BY <2>2, <2>5, <1>2
    <3>2. all[at1].id = all[at2].id
      BY <2>4
    <3> HIDE DEF at1, at2
    <3> QED BY <3>1, <3>2, <2>10 DEF Distinct
  <2>11. \A i \in DOMAIN g : g[i] = e \/ \E j \in DOMAIN h : g[i] = h[j]
    BY <2>5, <2>6, <1>4
  <2> QED BY <2>2, <2>3, <2>9, <2>10, <2>11, <1>2, <1>5
<1> QED BY <1>7, <1>8

-----------------------------------------------------------------------------
(* Cursors.                                                                *)

\* Where the cursors are: none before document L, none past a document of its
\* list from L on.
Passed(L) ==
  \A t \in Tokens :
    /\ at[t] = End \/ (at[t] \in postings[t] /\ at[t] >= L)
    /\ \A e \in postings[t] : e >= L => at[t] <= e

\* Every document before some L has been decided on; those of the heap are
\* among them.
CursorInv ==
  \E L \in 1..End : Passed(L) /\ \A i \in DOMAIN heap : heap[i].id < L

\* The weight of a token is positive.
LEMMA IdfPositive ==
  ASSUME TypeOK, NEW t \in Tokens
  PROVE  Idf(t) \in Nat \ {0}
<1>1. IsFiniteSet(Docs) /\ Cardinality(Docs) = NumDocs
  BY FS_Interval, SizesOK DEF Docs
<1>2. postings[t] \in SUBSET Docs
  BY DEF TypeOK
<1>3. IsFiniteSet(postings[t]) /\ Cardinality(postings[t]) <= NumDocs
  BY <1>1, <1>2, FS_Subset
<1>4. Cardinality(postings[t]) \in Nat
  BY <1>3, FS_CardinalityType
<1> QED BY <1>3, <1>4, SizesOK DEF Idf

\* Where advance(d) leaves a cursor.
LEMMA FirstFromFacts ==
  ASSUME TypeOK, NEW t \in Tokens, NEW d \in Nat
  PROVE  /\ FirstFrom(t, d) \in 1..End
         /\ FirstFrom(t, d) = End \/ (FirstFrom(t, d) \in postings[t] /\ FirstFrom(t, d) >= d)
         /\ \A e \in postings[t] : e >= d => FirstFrom(t, d) <= e
<1> DEFINE S == {e \in postings[t] : e >= d} \cup {End}
<1>1. postings[t] \subseteq Docs
  BY DEF TypeOK
<1>2. S \subseteq 1..End /\ S \subseteq Nat /\ S # {}
  BY <1>1, SizesOK DEF Docs, End
<1>3. FirstFrom(t, d) = Min(S)
  BY DEF FirstFrom
<1>4. Min(S) \in S /\ \A k \in S : Min(S) <= k
  <2> HIDE DEF S
  <2> QED BY <1>2, MinIsLeast
<1> QED BY <1>2, <1>3, <1>4

\* An order lists every active cursor.  With the pivot in it, nothing active
\* but the cursors before the pivot is before the pivot's document, and these are
\* not past it; when these are aligned with it, nothing is before it.
LEMMA PivotFacts ==
  ASSUME TypeOK, NEW o \in Orders, NEW p, p = Pivot(o), p > 0
  PROVE  /\ at[o[p]] \in Docs /\ o[p] \in Active /\ Before(o, p) \subseteq Active
         /\ \A t \in Active \ Before(o, p) : at[t] >= at[o[p]]
         /\ \A t \in Before(o, p) : at[t] <= at[o[p]]
         /\ Aligned(o, p) => \A t \in Active : at[t] >= at[o[p]]
<1> DEFINE n == Cardinality(Active)
<1>1. IsFiniteSet(Active) /\ n \in Nat
  <2>1. IsFiniteSet(Tokens) /\ Active \in SUBSET Tokens
    BY FS_Interval, SizesOK DEF Tokens, Active, Present
  <2>2. IsFiniteSet(Active)
    BY <2>1, FS_Subset
  <2> QED BY <2>2, FS_CardinalityType
<1>2. /\ o \in [1..n -> Active]
      /\ \A i, j \in 1..n : i # j => o[i] # o[j]
      /\ \A i, j \in 1..n : i < j => at[o[i]] <= at[o[j]]
  BY DEF Orders, SetToSeqs
<1>3. \A t \in Active : \E i \in 1..n : o[i] = t
  <2>1. o \in Injection(1..n, Active)
    BY <1>2 DEF Injection, IsInjective
  <2>2. Cardinality(1..n) = n
    BY <1>1, FS_Interval
  <2>3. o \in Surjection(1..n, Active)
    BY <1>1, <2>1, <2>2, FS_Injection
  <2> QED BY <2>3 DEF Surjection
<1>4. p \in 1..n
  <2> DEFINE suffix == CHOOSE f : f = [i \in 1..(Len(o) + 1) |->
                         IF i > Len(o) THEN 0 ELSE MaxScore(o[i]) + f[i + 1]]
             S == {0} \cup {i \in DOMAIN o : suffix[i] > threshold}
  <2>1. p = Max(S)
    BY DEF Pivot
  <2> HIDE DEF suffix
  <2>2. S \subseteq 0..n /\ S # {}
    BY <1>1, <1>2
  <2>3. Max(S) \in S
    <3> HIDE DEF S
    <3> QED BY <1>1, <2>2, MaxIsGreatest
  <2> QED BY <1>1, <2>1, <2>2, <2>3
<1> HIDE DEF n
<1>5. o[p] \in Active /\ \A i \in 1..n : o[i] \in Active
  BY <1>2, <1>4
<1>6. \A t \in Active : at[t] \in Docs
  BY SizesOK DEF TypeOK, Active, Present, End, Docs
<1>7. Before(o, p) \subseteq Active
  BY <1>1, <1>4, <1>5 DEF Before
<1>8. ASSUME NEW t \in Active \ Before(o, p) PROVE at[t] >= at[o[p]]
  <2>1. PICK i \in 1..n : o[i] = t
    BY <1>3
  <2>2. i >= p
    BY <2>1, <1>1, <1>4, <1>8 DEF Before
  <2> QED BY <2>1, <2>2, <1>2, <1>4, <1>5, <1>6 DEF Docs
<1>9. ASSUME Aligned(o, p), NEW t \in Active PROVE at[t] >= at[o[p]]
  <2>1. CASE t \in Before(o, p)
    BY <2>1, <1>9, <1>5, <1>6 DEF Aligned, Docs
  <2>2. CASE t \notin Before(o, p)
    BY <2>2, <1>8
  <2> QED BY <2>1, <2>2
<1>10. ASSUME NEW t \in Before(o, p) PROVE at[t] <= at[o[p]]
  <2>1. PICK i \in 1..(p - 1) : o[i] = t
    BY DEF Before
  <2>2. i \in 1..n /\ i < p
    BY <1>1, <1>4, <2>1
  <2> QED BY <1>2, <1>4, <2>1, <2>2
<1> QED BY <1>5, <1>6, <1>7, <1>8, <1>9, <1>10

\* Moving some cursors up to a document d leaves every cursor where it may be.
LEMMA AdvanceType ==
  ASSUME TypeOK, NEW S, NEW d \in Nat, AdvanceAll(S, d)
  PROVE  at' \in [Tokens -> 1..End]
<1>1. \A t \in Tokens : FirstFrom(t, d) \in 1..End
  BY FirstFromFacts
<1> QED BY <1>1 DEF TypeOK, AdvanceAll

\* All cursors before d move up to d: the lists are passed up to d.
LEMMA AdvancePasses ==
  ASSUME TypeOK, NEW L \in 1..End, Passed(L), NEW S, NEW d \in L..End, AdvanceAll(S, d),
         postings' = postings, \A t \in Active \ S : at[t] >= d
  PROVE  Passed(d)'
<1>1. d \in Nat /\ \A t \in Tokens : postings[t] \subseteq Docs /\ at[t] \in 1..End
  BY SizesOK DEF TypeOK, End
<1> SUFFICES ASSUME NEW t \in Tokens
             PROVE  /\ at'[t] = End \/ (at'[t] \in postings[t] /\ at'[t] >= d)
                    /\ \A e \in postings[t] : e >= d => at'[t] <= e
  BY DEF Passed
<1>2. CASE t \in S
  <2>1. at'[t] = FirstFrom(t, d)
    BY <1>2 DEF AdvanceAll
  <2> QED BY <1>1, <2>1, FirstFromFacts
<1>3. CASE t \notin S
  <2>1. at'[t] = at[t]
    BY <1>3 DEF AdvanceAll
  <2>2. at[t] = End \/ (at[t] \in postings[t] /\ t \in Active)
    BY DEF Passed, Active, Present
  <2>3. at[t] = End \/ (at[t] \in postings[t] /\ at[t] >= d)
    BY <1>3, <2>2
  <2>4. \A e \in postings[t] : e >= d => at[t] <= e
    <3>1. \A e \in postings[t] : e \in Nat /\ L \in Nat /\ d \in Nat /\ d >= L
      BY <1>1, SizesOK DEF Docs, End
    <3>2. \A e \in postings[t] : e >= L => at[t] <= e
      BY DEF Passed
    <3> QED BY <3>1, <3>2
  <2> QED BY <2>1, <2>3, <2>4
<1> QED BY <1>2, <1>3

\* Where no cursor is before d, the cursors of all tokens of d have met there.
LEMMA CursorsMeet ==
  ASSUME TypeOK, NEW L \in 1..End, Passed(L), NEW d \in Docs, d >= L,
         \A t \in Active : at[t] >= d
  PROVE  AtDoc(d) = {t \in Tokens : d \in postings[t]}
<1>1. \A t \in Tokens : at[t] \in 1..End /\ d \in Nat /\ d < End
  BY SizesOK DEF TypeOK, Docs, End
<1>2. ASSUME NEW t \in AtDoc(d) PROVE t \in Tokens /\ d \in postings[t]
  <2>1. t \in Tokens /\ at[t] = d /\ at[t] # End
    BY DEF AtDoc, Active, Present
  <2> QED BY <2>1 DEF Passed
<1>3. ASSUME NEW t \in Tokens, d \in postings[t] PROVE t \in AtDoc(d)
  <2>1. at[t] <= d
    BY <1>3 DEF Passed
  <2>2. t \in Active
    BY <1>1, <1>3, <2>1, SizesOK DEF Active, Present, End
  <2> QED BY <1>1, <2>1, <2>2, SizesOK DEF AtDoc, End
<1> QED BY <1>2, <1>3

-----------------------------------------------------------------------------
(* Scores.                                                                 *)

\* A score is a number.
LEMMA ScoreType ==
  ASSUME TypeOK, NEW S \in SUBSET Tokens, NEW d \in Docs
  PROVE  Score(S, d) \in Nat
<1>1. \A t \in S : Idf(t) * norm[d] \in Nat
  <2>1. norm[d] \in Nat
    BY SizesOK DEF TypeOK
  <2>2. \A a, b \in Nat : a * b \in Nat
    OBVIOUS
  <2> QED BY <2>1, <2>2, IdfPositive
<1> QED BY <1>1, SumIsNat DEF Score

\* Scores depend on the index alone.
LEMMA ScoreSame ==
  ASSUME UNCHANGED input
  PROVE  \A d : FullScore(d)' = FullScore(d)
BY DEF input, FullScore, Score, Idf, SumOf

-----------------------------------------------------------------------------
(* What every state satisfies.                                             *)

IInv == TypeOK /\ CursorInv /\ NoDuplicates /\ ScoresExact

\* The bound of a block is a norm, and no less than that of the document.
LEMMA BlockBound ==
  ASSUME NEW list \in SUBSET Docs, NEW d \in list, NEW f \in [Docs -> 1..MaxNorm]
  PROVE  MaxNormOf(BlockOf(list, d), f) \in 1..MaxNorm /\ f[d] <= MaxNormOf(BlockOf(list, d), f)
<1> DEFINE B == BlockOf(list, d)
           S == {f[e] : e \in B}
<1>1. d \in B /\ B \subseteq Docs
  BY DEF BlockOf
<1> HIDE DEF B
<1>2. S \subseteq 0..MaxNorm /\ S \subseteq 1..MaxNorm /\ f[d] \in S
  BY <1>1, SizesOK
<1>3. MaxNormOf(B, f) = Max(S)
  BY DEF MaxNormOf
<1>4. Max(S) \in S /\ \A k \in S : k <= Max(S)
  <2> HIDE DEF S
  <2> QED BY <1>2, SizesOK, MaxIsGreatest
<1> QED BY <1>2, <1>3, <1>4 DEF B

\* (the tokens whose bounds are stale, and the norms they were made from)
Old(stale, t) == [d \in Docs |-> norm[d] - (IF t \in stale THEN 1 ELSE 0)]

\* The bounds that sortAndBlock gives; no norm exceeds a bound that is fresh.
LEMMA InitBounds ==
  ASSUME Init
  PROVE  /\ \A t \in Tokens : blockNorm[t] \in [postings[t] -> 1..MaxNorm]
         /\ ~ MayBeStale => \A t \in Tokens : \A d \in postings[t] : norm[d] <= blockNorm[t][d]
<1>1. PICK stale \in IF MayBeStale THEN SUBSET Tokens ELSE {{}} :
        blockNorm = [t \in Tokens |-> [d \in postings[t] |->
                       MaxNormOf(BlockOf(postings[t], d), Old(stale, t))]]
  BY DEF Init, Old
<1>2. \A t \in Tokens : Old(stale, t) \in [Docs -> 1..MaxNorm] /\ postings[t] \in SUBSET Docs
  BY SizesOK DEF Init, Old
<1>3. \A t \in Tokens : \A d \in postings[t] :
        /\ blockNorm[t][d] \in 1..MaxNorm
        /\ Old(stale, t)[d] <= blockNorm[t][d]
  BY <1>1, <1>2, BlockBound
<1>4. ASSUME ~ MayBeStale, NEW t \in Tokens, NEW d \in postings[t] PROVE norm[d] <= blockNorm[t][d]
  <2>1. Old(stale, t)[d] = norm[d]
    <3>1. stale = {} /\ d \in Docs /\ norm[d] \in Nat
      BY <1>1, <1>2, <1>4, SizesOK DEF Init
    <3> QED BY <3>1 DEF Old
  <2> QED BY <2>1, <1>3
<1>5. ASSUME NEW t \in Tokens PROVE blockNorm[t] \in [postings[t] -> 1..MaxNorm]
  BY <1>1, <1>3
<1> QED BY <1>4, <1>5

\* The invariant holds when the cursors have been made.
LEMMA InitInv == Init => IInv
<1> SUFFICES ASSUME Init PROVE IInv
  OBVIOUS
<1>1. \A t \in Tokens : FirstFrom(t, 1) \in 1..End /\ at[t] = FirstFrom(t, 1)
                        /\ (at[t] = End \/ (at[t] \in postings[t] /\ at[t] >= 1))
                        /\ \A e \in postings[t] : e >= 1 => at[t] <= e
  <2>1. ASSUME NEW t \in Tokens
        PROVE  /\ FirstFrom(t, 1) \in 1..End
               /\ FirstFrom(t, 1) = End \/ (FirstFrom(t, 1) \in postings[t] /\ FirstFrom(t, 1) >= 1)
               /\ \A e \in postings[t] : e >= 1 => FirstFrom(t, 1) <= e
    <3> DEFINE S == {e \in postings[t] : e >= 1} \cup {End}
    <3>1. S \subseteq 1..End /\ S \subseteq Nat /\ S # {}
      BY SizesOK DEF Init, Docs, End
    <3>2. Min(S) \in S /\ \A k \in S : Min(S) <= k
      <4> HIDE DEF S
      <4> QED BY <3>1, MinIsLeast
    <3> QED BY <3>1, <3>2 DEF FirstFrom
  <2> QED BY <2>1 DEF Init
<1>2. TypeOK
  <2>1. at \in [Tokens -> 1..End]
    BY <1>1 DEF Init
  <2>2. heap \in Seq([id : Docs, score : Nat]) /\ Len(heap) <= TopK
    BY SizesOK DEF Init
  <2> QED BY <2>1, <2>2, InitBounds DEF Init, TypeOK
<1>3. CursorInv
  <2>1. Passed(1) /\ 1 \in 1..End
    BY <1>1, SizesOK DEF Passed, End
  <2> QED BY <2>1 DEF CursorInv, Init
<1> QED BY <1>2, <1>3 DEF IInv, NoDuplicates, ScoresExact, Init

\* A step that only moves cursors up to d.
LEMMA MoveInv ==
  ASSUME IInv, NEW S, NEW d \in Docs \cup {End}, AdvanceAll(S, d),
         UNCHANGED <<input, heap, threshold, phase>>,
         \A t \in Active \ S : at[t] >= d, NEW u \in Active, d >= at[u]
  PROVE  IInv'
<1>1. PICK L \in 1..End : Passed(L) /\ \A i \in DOMAIN heap : heap[i].id < L
  BY DEF IInv, CursorInv
<1>2. d \in L..End /\ d \in 1..End /\ d \in Nat
  <2>1. at[u] >= L /\ at[u] \in 1..End
    BY <1>1 DEF Passed, Active, Present, IInv, TypeOK
  <2> QED BY <2>1, SizesOK DEF Docs, End
<1>3. TypeOK'
  <2>1. at' \in [Tokens -> 1..End]
    BY <1>2, AdvanceType DEF IInv
  <2> QED BY <2>1 DEF IInv, TypeOK, input
<1>4. CursorInv'
  <2>1. Passed(d)'
    BY <1>1, <1>2, AdvancePasses DEF IInv, input
  <2>2. \A i \in DOMAIN heap : heap[i].id < d
    <3>1. heap \in Seq(Entry)
      BY DEF IInv, TypeOK, Entry
    <3>2. \A i \in DOMAIN heap : heap[i].id \in Nat
      BY <3>1, EntryFacts
    <3>3. \A a, b \in Nat : a < L /\ L <= b => a < b
      OBVIOUS
    <3> QED BY <1>1, <1>2, <3>2, <3>3
  <2> QED BY <1>2, <2>1, <2>2 DEF CursorInv
<1>5. (NoDuplicates /\ ScoresExact)'
  BY ScoreSame DEF IInv, NoDuplicates, ScoresExact, input
<1> QED BY <1>3, <1>4, <1>5 DEF IInv

\* The facts about an iteration that scores or skips the pivot's document.
LEMMA AlignedFacts ==
  ASSUME TypeOK, NEW o \in Orders, NEW p, p = Pivot(o), p > 0, Aligned(o, p)
  PROVE  /\ at[o[p]] \in Docs /\ at[o[p]] + 1 \in Docs \cup {End} /\ o[p] \in Active
         /\ at[o[p]] + 1 >= at[o[p]]
         /\ \A t \in Active : at[t] >= at[o[p]]
         /\ \A t \in Active \ AtDoc(at[o[p]]) : at[t] >= at[o[p]] + 1
<1>1. /\ at[o[p]] \in Docs /\ o[p] \in Active
      /\ \A t \in Active : at[t] >= at[o[p]]
  BY PivotFacts
<1>2. \A t \in Active \ AtDoc(at[o[p]]) : at[t] \in Nat /\ at[t] # at[o[p]]
  BY SizesOK DEF AtDoc, Active, Present, TypeOK, End
<1> QED BY <1>1, <1>2, SizesOK DEF Docs, End

\* The pivot's document is scored.
LEMMA ScoreInv ==
  ASSUME IInv, NEW o \in Orders, NEW p, p = Pivot(o), p > 0, ScoreDoc(o, p)
  PROVE  IInv'
<1>0. PICK d : d = at[o[p]]
  OBVIOUS
<1> DEFINE e == [id |-> d, score |-> Score(AtDoc(d), d)]
<1>1. PICK L \in 1..End : Passed(L) /\ \A i \in DOMAIN heap : heap[i].id < L
  BY DEF IInv, CursorInv
<1>2. /\ Aligned(o, p) /\ d \in passes
      /\ AdvanceAll(AtDoc(d), d + 1) /\ UNCHANGED <<input, phase>>
      /\ \/ /\ heap' \in PushPop(heap, e)
            /\ threshold' = IF Len(heap') = TopK THEN HeapMin(heap') ELSE threshold
         \/ UNCHANGED <<heap, threshold>>
  BY <1>0 DEF ScoreDoc, Scored
<1>3. /\ d \in Docs /\ d + 1 \in Docs \cup {End} /\ o[p] \in Active /\ d + 1 >= d
      /\ \A t \in Active : at[t] >= d
      /\ \A t \in Active \ AtDoc(d) : at[t] >= d + 1
  BY <1>0, <1>2, AlignedFacts DEF IInv
<1>4. d >= L /\ d \in Nat /\ d + 1 \in L..End /\ d + 1 \in 1..End
  <2>1. d >= L
    BY <1>0, <1>1, <1>3 DEF Passed, Active, Present
  <2>2. d \in Nat /\ L \in Nat /\ d + 1 <= End /\ End \in Nat
    BY <1>3, SizesOK DEF Docs, End
  <2> QED BY <2>1, <2>2, <1>1
<1>5. AtDoc(d) = {t \in Tokens : d \in postings[t]}
  BY <1>1, <1>3, <1>4, CursorsMeet DEF IInv
<1>6. e.score = FullScore(d) /\ e.id = d /\ e \in Entry
  <2>1. Score(AtDoc(d), d) = FullScore(d)
    BY <1>5 DEF FullScore
  <2>2. Score(AtDoc(d), d) \in Nat
    BY <1>3, <1>5, ScoreType DEF IInv
  <2> QED BY <2>1, <2>2, <1>3 DEF Entry
<1> HIDE DEF e
<1>7. heap \in Seq(Entry) /\ Len(heap) <= TopK
  BY DEF IInv, TypeOK, Entry
<1>8. \A i \in DOMAIN heap : heap[i].id < L /\ heap[i].id \in Nat /\ heap[i].id # e.id
  <2>1. \A i \in DOMAIN heap : heap[i].id < L /\ heap[i].id \in Nat
    BY <1>1, <1>7, EntryFacts
  <2> QED BY <2>1, <1>4, <1>6
<1>9. /\ heap' \in Seq(Entry) /\ Len(heap') <= TopK /\ threshold' \in Nat
      /\ \A i \in DOMAIN heap' : heap'[i] = e \/ \E j \in DOMAIN heap : heap'[i] = heap[j]
      /\ Distinct(heap')
  <2>1. Distinct(heap) /\ threshold \in Nat
    BY DEF IInv, TypeOK, NoDuplicates, Distinct
  <2>2. CASE UNCHANGED <<heap, threshold>>
    BY <2>1, <2>2, <1>7 DEF Distinct
  <2>3. CASE /\ heap' \in PushPop(heap, e)
             /\ threshold' = IF Len(heap') = TopK THEN HeapMin(heap') ELSE threshold
    <3>1. /\ heap' \in Seq(Entry) /\ Len(heap') <= TopK /\ Len(heap') > 0
          /\ \A i \in DOMAIN heap' : heap'[i] = e \/ \E j \in DOMAIN heap : heap'[i] = heap[j]
          /\ Distinct(heap) /\ (\A j \in DOMAIN heap : heap[j].id # e.id) => Distinct(heap')
      BY <2>3, <1>6, <1>7, PushPopFacts
    <3>2. HeapMin(heap') \in Nat
      BY <3>1, HeapMinFacts
    <3> QED BY <3>1, <3>2, <2>1, <2>3, <1>8
  <2> QED BY <2>2, <2>3, <1>2
<1>10. TypeOK'
  <2>1. at' \in [Tokens -> 1..End]
    BY <1>2, <1>4, AdvanceType DEF IInv
  <2> QED BY <2>1, <1>2, <1>9 DEF IInv, TypeOK, input, Entry
<1>11. CursorInv'
  <2>1. Passed(d + 1)'
    <3>1. PICK m : m = d + 1
      OBVIOUS
    <3>2. m \in L..End /\ AdvanceAll(AtDoc(d), m) /\ \A t \in Active \ AtDoc(d) : at[t] >= m
      BY <1>2, <1>3, <1>4, <3>1
    <3>3. Passed(m)'
      BY <1>1, <1>2, <3>2, AdvancePasses DEF IInv, input
    <3> QED BY <3>1, <3>3
  <2>2. \A i \in DOMAIN heap' : heap'[i].id < d + 1
    <3>1. e.id < d + 1 /\ \A j \in DOMAIN heap : heap[j].id < d + 1
      BY <1>4, <1>6, <1>8
    <3> QED BY <3>1, <1>9
  <2>3. PICK m \in 1..End : m = d + 1
    BY <1>4
  <2> QED BY <2>1, <2>2, <2>3 DEF CursorInv
<1>12. NoDuplicates'
  BY <1>9 DEF NoDuplicates, Distinct
<1>13. ScoresExact'
  <2>1. \A j \in DOMAIN heap : heap[j].id \in passes /\ heap[j].score = FullScore(heap[j].id)
    BY DEF IInv, ScoresExact
  <2>2. \A i \in DOMAIN heap' : heap'[i].id \in passes /\ heap'[i].score = FullScore(heap'[i].id)
    BY <2>1, <1>2, <1>6, <1>9
  <2> QED BY <2>2, <1>2, ScoreSame DEF ScoresExact, input
<1> QED BY <1>10, <1>11, <1>12, <1>13 DEF IInv

\* Every step of the loop keeps the invariant.
LEMMA StepInv == ASSUME IInv, [Next]_vars PROVE IInv'
<1>1. ASSUME NEW o \in Orders, NEW p, p = Pivot(o), p > 0, AdvanceToPivot(o, p) PROVE IInv'
  <2>1. /\ at[o[p]] \in Docs /\ o[p] \in Active
        /\ \A t \in Active \ Before(o, p) : at[t] >= at[o[p]]
    BY <1>1, PivotFacts DEF IInv
  <2>2. at[o[p]] >= at[o[p]]
    BY <2>1 DEF Docs
  <2> DEFINE d == at[o[p]]
  <2>3. d \in Docs \cup {End} /\ AdvanceAll(Before(o, p), d) /\ d >= at[o[p]]
        /\ UNCHANGED <<input, heap, threshold, phase>>
        /\ \A t \in Active \ Before(o, p) : at[t] >= d
    BY <1>1, <2>1, <2>2 DEF AdvanceToPivot
  <2> HIDE DEF d
  <2> QED BY <2>1, <2>3, MoveInv
<1>2. ASSUME NEW o \in Orders, NEW p, p = Pivot(o), p > 0, SkipBlock(o, p) \/ SkipFiltered(o, p)
      PROVE  IInv'
  <2> DEFINE d == at[o[p]] + 1
  <2>1. /\ Aligned(o, p) /\ AdvanceAll(AtDoc(at[o[p]]), d)
        /\ UNCHANGED <<input, heap, threshold, phase>>
    BY <1>2 DEF SkipBlock, SkipFiltered
  <2>2. /\ d \in Docs \cup {End} /\ o[p] \in Active /\ d >= at[o[p]]
        /\ \A t \in Active \ AtDoc(at[o[p]]) : at[t] >= d
    BY <1>2, <2>1, AlignedFacts DEF IInv
  <2> HIDE DEF d
  <2> QED BY <2>1, <2>2, MoveInv
<1>3. ASSUME UNCHANGED <<input, at, heap, threshold>>, phase' \in {"traverse", "done"} PROVE IInv'
  <2>1. TypeOK'
    BY <1>3 DEF IInv, TypeOK, input
  <2>2. CursorInv'
    BY <1>3 DEF IInv, CursorInv, Passed, input
  <2>3. (NoDuplicates /\ ScoresExact)'
    BY <1>3, ScoreSame DEF IInv, NoDuplicates, ScoresExact, input
  <2> QED BY <2>1, <2>2, <2>3 DEF IInv
<1>4. CASE Finish \/ UNCHANGED vars
  BY <1>3, <1>4 DEF Finish, vars, IInv, TypeOK
<1> QED BY <1>1, <1>2, <1>4, ScoreInv DEF Next, Step, Iterate, Returned

\* The invariant holds in every reachable state.
THEOREM Inductive == Spec => []IInv
BY InitInv, StepInv, PTL DEF Spec

\* The shapes of the state, whatever the index.
THEOREM TypeCorrect == Spec => []TypeOK
BY Inductive, PTL DEF IInv

\* A document that is returned matches the filters and carries its full score.
THEOREM ScoresAreExact == Spec => []ScoresExact
BY Inductive, PTL DEF IInv

\* No document is returned twice.
THEOREM NothingTwice == Spec => []NoDuplicates
BY Inductive, PTL DEF IInv

-----------------------------------------------------------------------------
(* What must be found, when no bound is stale.                             *)

BoundInv == \A t \in Tokens : \A d \in postings[t] : norm[d] <= blockNorm[t][d]

ThresholdInv ==
  /\ Len(heap) = TopK => threshold = HeapMin(heap)
  /\ Len(heap) < TopK => threshold = 0

HasAll(d)   == d \in passes /\ Present # {} /\ \A t \in Present : d \in postings[t]
Settled(d)  == d \in Results \/ Beaten(d)
Ahead(d)    == phase = "traverse" /\ \A t \in Present : at[t] <= d
FoundInv    == \A d \in passes : HasAll(d) => Settled(d) \/ Ahead(d)

FInv == IInv /\ BoundInv /\ ThresholdInv /\ FoundInv

\* The score of a document that has every token of the index, and is positive.
LEMMA HasAllFacts ==
  ASSUME TypeOK, NEW d, HasAll(d)
  PROVE  /\ d \in Docs /\ Present = {t \in Tokens : d \in postings[t]}
         /\ FullScore(d) = SumOf([t \in Present |-> Idf(t) * norm[d]])
         /\ \A t \in Present : Idf(t) * norm[d] \in Nat
         /\ FullScore(d) \in Nat /\ FullScore(d) > 0
<1>1. d \in Docs /\ Present = {t \in Tokens : d \in postings[t]}
  BY DEF HasAll, Present, TypeOK
<1>2. FullScore(d) = SumOf([t \in Present |-> Idf(t) * norm[d]])
  BY <1>1 DEF FullScore, Score
<1>3. \A t \in Present : Idf(t) * norm[d] \in Nat /\ Idf(t) * norm[d] > 0
  <2>1. norm[d] \in Nat \ {0}
    BY <1>1, SizesOK DEF TypeOK
  <2>2. \A a, b \in Nat \ {0} : a * b \in Nat /\ a * b > 0
    OBVIOUS
  <2> QED BY <2>1, <2>2, IdfPositive DEF Present
<1> DEFINE w == [t \in Present |-> Idf(t) * norm[d]]
<1>4. PICK u \in Present : TRUE
  BY DEF HasAll
<1>5. /\ \A t \in DOMAIN w : w[t] \in Nat
      /\ u \in DOMAIN w \cap Tokens /\ w[u] > 0
  BY <1>3, <1>4 DEF Present
<1>6. SumOf(w) \in Nat /\ SumOf(w) > 0
  <2> HIDE DEF w
  <2> QED BY <1>5, SumIsNat, SumIsPositive
<1> QED BY <1>1, <1>2, <1>3, <1>6

\* The bounds of the blocks of d, and those of the lists, are not below its score.
LEMMA BoundsHold ==
  ASSUME TypeOK, BoundInv, NEW d, HasAll(d)
  PROVE  /\ BlockSum(Present, d) \in Nat /\ FullScore(d) <= BlockSum(Present, d)
         /\ LET s == SumOf([t \in Present |-> MaxScore(t)])
            IN  s \in Nat /\ FullScore(d) <= s
<1>1. /\ d \in Docs
      /\ FullScore(d) = SumOf([t \in Present |-> Idf(t) * norm[d]])
      /\ \A t \in Present : Idf(t) * norm[d] \in Nat
  BY HasAllFacts
<1>2. \A a, x, y \in Nat : x <= y => a * x \in Nat /\ a * y \in Nat /\ a * x <= a * y
  OBVIOUS
<1>3. norm[d] \in Nat
  BY <1>1, SizesOK DEF TypeOK
<1>4. ASSUME NEW t \in Present
      PROVE  /\ Idf(t) * blockNorm[t][d] \in Nat /\ Idf(t) * norm[d] <= Idf(t) * blockNorm[t][d]
             /\ MaxScore(t) \in Nat /\ Idf(t) * norm[d] <= MaxScore(t)
  <2>1. t \in Tokens /\ d \in postings[t] /\ Idf(t) \in Nat
    BY IdfPositive DEF Present, HasAll
  <2>2. blockNorm[t] \in [postings[t] -> 1..MaxNorm]
    BY <2>1 DEF TypeOK
  <2>3. blockNorm[t][d] \in Nat /\ norm[d] <= blockNorm[t][d]
    BY <2>1, <2>2, SizesOK DEF BoundInv
  <2> DEFINE S == {blockNorm[t][c] : c \in postings[t]}
  <2>4. S \subseteq 0..MaxNorm /\ blockNorm[t][d] \in S
    BY <2>1, <2>2, SizesOK
  <2>5. MaxScore(t) = Idf(t) * Max(S)
    BY DEF MaxScore
  <2> HIDE DEF S
  <2>6. Max(S) \in Nat /\ blockNorm[t][d] <= Max(S)
    <3>1. MaxNorm \in Nat /\ S # {}
      BY <2>4, SizesOK
    <3>2. Max(S) \in S /\ \A k \in S : k <= Max(S)
      BY <2>4, <3>1, MaxIsGreatest
    <3>3. S \subseteq Nat
      BY ONLY <2>4
    <3>4. Max(S) \in Nat
      BY ONLY <3>2, <3>3
    <3>5. blockNorm[t][d] <= Max(S)
      BY ONLY <2>4, <3>2
    <3> QED BY ONLY <3>4, <3>5
  <2>7. norm[d] <= Max(S)
    BY <1>3, <2>3, <2>6
  <2> QED BY <1>2, <1>3, <2>1, <2>3, <2>5, <2>6, <2>7
<1> DEFINE v == [t \in Present |-> Idf(t) * norm[d]]
           w == [t \in Present |-> Idf(t) * blockNorm[t][d]]
           m == [t \in Present |-> MaxScore(t)]
<1>5. /\ \A t \in DOMAIN v : v[t] \in Nat /\ v[t] <= w[t] /\ v[t] <= m[t]
      /\ \A t \in DOMAIN w : w[t] \in Nat
      /\ \A t \in DOMAIN m : m[t] \in Nat
      /\ DOMAIN v \subseteq DOMAIN w /\ DOMAIN v \subseteq DOMAIN m
  BY <1>1, <1>4
<1>6. FullScore(d) = SumOf(v) /\ BlockSum(Present, d) = SumOf(w)
  BY <1>1 DEF BlockSum
<1> HIDE DEF v, w
<1>7. SumOf(v) <= SumOf(w) /\ SumOf(w) \in Nat
  BY <1>5, SumGrows, SumIsNat
<1>8. SumOf(v) <= SumOf(m) /\ SumOf(m) \in Nat
  <2> HIDE DEF m
  <2> QED BY <1>5, SumGrows, SumIsNat
<1> QED BY <1>6, <1>7, <1>8

\* A document whose score does not beat the threshold is beaten.
LEMMA BelowThreshold ==
  ASSUME TypeOK, ThresholdInv, NEW d, HasAll(d), FullScore(d) <= threshold
  PROVE  Beaten(d)
<1>1. FullScore(d) \in Nat /\ FullScore(d) > 0
  BY HasAllFacts
<1>2. heap \in Seq(Entry) /\ Len(heap) <= TopK /\ threshold \in Nat /\ Len(heap) \in Nat
  BY DEF TypeOK, Entry
<1>3. threshold # 0
  BY <1>1, <1>2
<1>4. Len(heap) = TopK /\ threshold = HeapMin(heap) /\ Len(heap) > 0
  BY <1>2, <1>3, SizesOK DEF ThresholdInv
<1>5. \A i \in DOMAIN heap : heap[i].score \in Nat /\ HeapMin(heap) <= heap[i].score
  <2>1. \A i \in DOMAIN heap : heap[i].score \in Nat
    BY <1>2, EntryFacts DEF Entry
  <2> QED BY <2>1, <1>2, <1>4, HeapMinFacts
<1>6. \A i \in DOMAIN heap : heap[i].score >= FullScore(d)
  BY <1>1, <1>2, <1>4, <1>5
<1> QED BY <1>4, <1>6 DEF Beaten

\* A cursor at or before d that moves up to d at most stays at or before d.
LEMMA StaysAhead ==
  ASSUME TypeOK, NEW d \in Docs, HasAll(d), Ahead(d), NEW S, NEW x \in Nat, x <= d,
         AdvanceAll(S, x), UNCHANGED <<input, phase>>
  PROVE  Ahead(d)'
<1>1. Present' = Present /\ Present \subseteq Tokens
  BY DEF Present, input
<1>2. ASSUME NEW t \in Present PROVE at'[t] <= d
  <2>1. d \in postings[t] /\ d >= x
    BY DEF HasAll, Docs
  <2>2. FirstFrom(t, x) <= d
    BY <1>1, <2>1, FirstFromFacts
  <2> QED BY <1>1, <2>2 DEF AdvanceAll, Ahead
<1> QED BY <1>1, <1>2 DEF Ahead

\* What was settled stays so when the heap does not change.
LEMMA SettledSame ==
  ASSUME UNCHANGED <<input, heap>>, NEW d, Settled(d)
  PROVE  Settled(d)'
BY ScoreSame DEF Settled, Beaten, Results, input

\* Where the traversal is for a document that is still ahead: its own cursors
\* have met there, or the pivot is before it.
LEMMA PivotAhead ==
  ASSUME TypeOK, NEW d, HasAll(d), Ahead(d), NEW o \in Orders, NEW p, p = Pivot(o), p > 0
  PROVE  /\ at[o[p]] \in Docs /\ at[o[p]] \in Nat /\ d \in Docs /\ d \in Nat
         /\ at[o[p]] <= d
         /\ Aligned(o, p) /\ at[o[p]] = d => AtDoc(d) = Present
<1>1. at[o[p]] \in Docs /\ o[p] \in Active /\ d \in Docs
  BY PivotFacts, HasAllFacts
<1>2. at[o[p]] <= d
  BY <1>1 DEF Ahead, Active
<1>3. ASSUME Aligned(o, p), at[o[p]] = d PROVE AtDoc(d) = Present
  <2>1. \A t \in Active : at[t] >= d
    BY <1>3, PivotFacts
  <2>2. \A t \in Present : at[t] <= d /\ at[t] \in Nat /\ d \in Nat /\ d < End
    BY <1>1, SizesOK DEF Ahead, TypeOK, Present, Docs, End
  <2>3. \A t \in Present : t \in Active /\ at[t] = d
    BY <2>1, <2>2, SizesOK DEF Active, End
  <2> QED BY <2>3 DEF AtDoc, Active
<1> QED BY <1>1, <1>2, <1>3 DEF Docs

\* A document that was found or beaten is so after another is scored.
LEMMA SettledScored ==
  ASSUME IInv, ThresholdInv, NEW d, HasAll(d), Settled(d), NEW e \in Entry,
         Len(heap) < TopK \/ e.score > threshold, heap' \in PushPop(heap, e), UNCHANGED input
  PROVE  Settled(d)'
<1>1. heap \in Seq(Entry) /\ Len(heap) <= TopK /\ Len(heap) \in Nat
  BY DEF IInv, TypeOK, Entry
<1>2. /\ heap' \in Seq(Entry)
      /\ Len(heap') <= TopK /\ Len(heap') >= Len(heap)
      /\ \A i \in DOMAIN heap' : heap'[i] = e \/ \E j \in DOMAIN heap : heap'[i] = heap[j]
      /\ \A x \in {heap[j] : j \in DOMAIN heap} \cup {e} :
           \/ \E i \in DOMAIN heap' : heap'[i] = x
           \/ Len(heap') = TopK /\ \A i \in DOMAIN heap' : heap'[i].score >= x.score
  BY <1>1, PushPopFacts
<1>3. FullScore(d)' = FullScore(d) /\ FullScore(d) \in Nat
  BY ScoreSame, HasAllFacts DEF IInv
<1>4. CASE d \in Results
  <2>1. PICK j \in DOMAIN heap : heap[j].id = d /\ heap[j].score = FullScore(d)
    BY <1>4 DEF Results, IInv, ScoresExact
  <2>2. CASE \E i \in DOMAIN heap' : heap'[i] = heap[j]
    BY <2>1, <2>2 DEF Settled, Results
  <2>3. CASE Len(heap') = TopK /\ \A i \in DOMAIN heap' : heap'[i].score >= heap[j].score
    BY <1>3, <2>1, <2>3 DEF Settled, Beaten
  <2> QED BY <1>2, <2>2, <2>3
<1>5. CASE Beaten(d)
  <2>1. Len(heap) = TopK /\ Len(heap) > 0 /\ \A i \in DOMAIN heap : heap[i].score >= FullScore(d)
    BY <1>5, SizesOK DEF Beaten
  <2>2. e.score > HeapMin(heap)
    BY <2>1, SizesOK DEF ThresholdInv
  <2>3. HeapMin(heap) \in Nat /\ HeapMin(heap) >= FullScore(d)
    BY <1>1, <2>1, HeapMinFacts
  <2>4. e.score >= FullScore(d)
    <3>1. e.score \in Nat
      BY DEF Entry
    <3> QED BY <1>3, <2>2, <2>3, <3>1
  <2>5. Len(heap') = TopK
    <3>1. Len(heap') \in Nat
      BY <1>2
    <3> QED BY <1>2, <2>1, <3>1, SizesOK
  <2>6. \A i \in DOMAIN heap' : heap'[i].score >= FullScore(d)
    BY <1>2, <2>1, <2>4
  <2> QED BY <1>3, <2>5, <2>6 DEF Settled, Beaten
<1> QED BY <1>4, <1>5 DEF Settled

\* Every step keeps threshold at the smallest score of a full heap, or at 0.
LEMMA ThresholdStep ==
  ASSUME IInv, ThresholdInv, [Next]_vars PROVE ThresholdInv'
<1>1. CASE UNCHANGED <<heap, threshold>>
  BY <1>1 DEF ThresholdInv, HeapMin
<1>2. ASSUME NEW o \in Orders, NEW p, p = Pivot(o), p > 0, ScoreDoc(o, p),
             ~ UNCHANGED <<heap, threshold>>
      PROVE  ThresholdInv'
  <2>1. PICK e : /\ heap' \in PushPop(heap, e)
                 /\ threshold' = IF Len(heap') = TopK THEN HeapMin(heap') ELSE threshold
                 /\ e = [id |-> at[o[p]], score |-> Score(AtDoc(at[o[p]]), at[o[p]])]
    BY <1>2 DEF ScoreDoc
  <2>2. e \in Entry
    <3>1. at[o[p]] \in Docs /\ AtDoc(at[o[p]]) \in SUBSET Tokens
      BY <1>2, PivotFacts DEF IInv, AtDoc, Active, Present
    <3>2. Score(AtDoc(at[o[p]]), at[o[p]]) \in Nat
      BY <3>1, ScoreType DEF IInv
    <3> QED BY <2>1, <3>1, <3>2 DEF Entry
  <2>3. heap \in Seq(Entry) /\ Len(heap) <= TopK /\ Len(heap) \in Nat
    BY DEF IInv, TypeOK, Entry
  <2>4. Len(heap') \in Nat /\ Len(heap') >= Len(heap)
    BY <2>1, <2>2, <2>3, PushPopFacts
  <2>5. CASE Len(heap') = TopK
    BY <2>1, <2>5, SizesOK DEF ThresholdInv, HeapMin
  <2>6. CASE Len(heap') # TopK
    <3>1. Len(heap') < TopK => Len(heap) < TopK
      BY <2>3, <2>4, SizesOK
    <3> QED BY <2>1, <2>6, <3>1 DEF ThresholdInv
  <2> QED BY <2>5, <2>6
<1> QED BY <1>1, <1>2 DEF Next, Step, Iterate, Returned, Finish, AdvanceToPivot, SkipBlock,
           SkipFiltered, vars

\* A document that is ahead at the end cannot beat the threshold.
LEMMA FoundAtEnd ==
  ASSUME TypeOK, BoundInv, ThresholdInv, Finish, NEW d, HasAll(d), Ahead(d)
  PROVE  Settled(d)'
<1>1. Active = Present
  <2>1. d \in Docs
    BY HasAllFacts
  <2>2. \A t \in Present : at[t] <= d /\ d < End /\ d \in Nat /\ End \in Nat /\ at[t] \in Nat
    BY <2>1, SizesOK DEF Ahead, Docs, End, Present, TypeOK
  <2>3. \A t \in Present : at[t] # End
    BY ONLY <2>2
  <2> QED BY <2>3 DEF Active
<1>2. PICK s : s = SumOf([t \in Present |-> MaxScore(t)])
  OBVIOUS
<1>3. s \in Nat /\ FullScore(d) <= s /\ s <= threshold
  BY <1>1, <1>2, BoundsHold DEF Finish
<1>4. FullScore(d) \in Nat /\ threshold \in Nat
  BY HasAllFacts DEF TypeOK
<1>5. FullScore(d) <= threshold
  BY ONLY <1>3, <1>4
<1>6. Beaten(d)
  BY <1>5, BelowThreshold
<1> QED BY <1>6, SettledSame DEF Settled, Finish

\* A document that is ahead stays ahead when the pivot is before it, and is
\* found, or beaten, when the cursors have met there.
LEMMA FoundAtPivot ==
  ASSUME IInv, BoundInv, ThresholdInv, NEW o \in Orders, NEW p, p = Pivot(o), p > 0,
         SkipBlock(o, p) \/ SkipFiltered(o, p) \/ ScoreDoc(o, p),
         NEW d, HasAll(d), Ahead(d)
  PROVE  (Settled(d) \/ Ahead(d))'
<1>0. TypeOK
  BY DEF IInv
<1>1. PICK c : c = at[o[p]]
  OBVIOUS
<1>2. /\ c \in Nat /\ d \in Docs /\ d \in Nat /\ c <= d
      /\ Aligned(o, p) /\ c = d => AtDoc(d) = Present
  BY <1>0, <1>1, PivotAhead
<1>3. Aligned(o, p) /\ AdvanceAll(AtDoc(c), c + 1) /\ UNCHANGED <<input, phase>>
  BY <1>1 DEF SkipBlock, SkipFiltered, ScoreDoc, Scored
<1>4. CASE c < d
  <2>1. c + 1 \in Nat /\ c + 1 <= d
    BY ONLY <1>2, <1>4
  <2> QED BY <1>0, <1>2, <1>3, <2>1, StaysAhead
<1>5. CASE c = d
  <2>1. AtDoc(d) = Present
    BY <1>2, <1>3, <1>5
  <2>2. FullScore(d) \in Nat /\ threshold \in Nat
    BY <1>0, HasAllFacts DEF TypeOK
  <2>3. CASE SkipBlock(o, p)
    <3>1. BlockSum(Present, d) <= threshold /\ UNCHANGED <<input, heap>>
      BY <1>1, <1>5, <2>1, <2>3 DEF SkipBlock
    <3>2. BlockSum(Present, d) \in Nat /\ FullScore(d) <= BlockSum(Present, d)
      BY <1>0, BoundsHold
    <3>3. FullScore(d) <= threshold
      BY ONLY <2>2, <3>1, <3>2
    <3>4. Beaten(d)
      BY <1>0, <3>3, BelowThreshold
    <3> QED BY <3>1, <3>4, SettledSame DEF Settled
  <2>4. CASE SkipFiltered(o, p)
    BY <1>1, <1>5, <2>4 DEF SkipFiltered, HasAll
  <2>5. CASE ScoreDoc(o, p)
    <3>1. PICK e : e = [id |-> d, score |-> Score(AtDoc(d), d)]
      OBVIOUS
    <3>2. \/ heap' \in PushPop(heap, e)
          \/ /\ Len(heap) >= TopK /\ e.score <= threshold
             /\ UNCHANGED <<heap, threshold>>
      BY <1>1, <1>5, <2>5, <3>1 DEF ScoreDoc
    <3>3. e.id = d /\ e.score = FullScore(d) /\ e \in Entry
      <4>1. Score(AtDoc(d), d) = FullScore(d)
        BY <1>0, <2>1, HasAllFacts DEF FullScore
      <4> QED BY <1>2, <2>2, <3>1, <4>1 DEF Entry
    <3>4. CASE heap' \in PushPop(heap, e)
      <4>1. heap \in Seq(Entry) /\ Len(heap) <= TopK
        BY <1>0 DEF TypeOK, Entry
      <4>2. \/ \E i \in DOMAIN heap' : heap'[i] = e
            \/ Len(heap') = TopK /\ \A i \in DOMAIN heap' : heap'[i].score >= e.score
        BY <3>3, <3>4, <4>1, PushPopFacts
      <4>3. FullScore(d)' = FullScore(d)
        BY <1>3, ScoreSame
      <4> QED BY <3>3, <4>2, <4>3 DEF Settled, Results, Beaten
    <3>5. CASE e.score <= threshold /\ UNCHANGED <<heap, threshold>>
      <4>1. Beaten(d)
        BY <1>0, <3>3, <3>5, BelowThreshold
      <4> QED BY <1>3, <3>5, <4>1, SettledSame DEF Settled
    <3> QED BY <3>2, <3>4, <3>5
  <2> QED BY <2>3, <2>4, <2>5
<1> QED BY ONLY <1>2, <1>4, <1>5

\* Every step keeps what must be found found, beaten or ahead.
LEMMA FoundStep ==
  ASSUME FInv, [Next]_vars PROVE FoundInv'
<1> USE DEF FInv
<1>0. TypeOK
  BY DEF IInv
<1>1. UNCHANGED input
  BY DEF Next, Step, Iterate, Finish, AdvanceToPivot, SkipBlock, SkipFiltered, ScoreDoc,
         Returned, vars
<1> SUFFICES ASSUME NEW d, HasAll(d)' PROVE (Settled(d) \/ Ahead(d))'
  BY DEF FoundInv
<1>2. HasAll(d) /\ (Settled(d) \/ Ahead(d))
  BY <1>1 DEF HasAll, Present, input, FoundInv
<1>3. ASSUME NEW o \in Orders, NEW p, p = Pivot(o), p > 0, ScoreDoc(o, p), Settled(d)
      PROVE  Settled(d)'
  <2>1. CASE UNCHANGED heap
    BY <1>1, <1>3, <2>1, SettledSame
  <2>2. CASE ~ UNCHANGED heap
    <3>1. PICK e : /\ Len(heap) < TopK \/ e.score > threshold
                   /\ heap' \in PushPop(heap, e)
                   /\ e = [id |-> at[o[p]], score |-> Score(AtDoc(at[o[p]]), at[o[p]])]
      BY <1>3, <2>2 DEF ScoreDoc
    <3>2. at[o[p]] \in Docs /\ AtDoc(at[o[p]]) \in SUBSET Tokens
      BY <1>0, <1>3, PivotFacts DEF AtDoc, Active, Present
    <3>3. e \in Entry
      BY <1>0, <3>1, <3>2, ScoreType DEF Entry
    <3> QED BY <1>1, <1>2, <1>3, <3>1, <3>3, SettledScored
  <2> QED BY <2>1, <2>2
<1>4. CASE Settled(d) /\ UNCHANGED heap
  BY <1>1, <1>4, SettledSame
<1>5. ASSUME NEW o \in Orders, NEW p, p = Pivot(o), p > 0, AdvanceToPivot(o, p), Ahead(d)
      PROVE  Ahead(d)'
  <2>1. PICK c : c = at[o[p]]
    OBVIOUS
  <2>2. c \in Nat /\ d \in Docs /\ c <= d
    BY <1>0, <1>2, <1>5, <2>1, PivotAhead
  <2>3. AdvanceAll(Before(o, p), c) /\ UNCHANGED <<input, phase>>
    BY <1>5, <2>1 DEF AdvanceToPivot
  <2> QED BY <1>0, <1>2, <1>5, <2>2, <2>3, StaysAhead
<1>6. CASE Ahead(d) /\ UNCHANGED vars
  BY <1>6 DEF Ahead, vars, Present, input
<1>7. CASE Ahead(d) /\ Finish
  BY <1>0, <1>2, <1>7, FoundAtEnd
<1>8. CASE Returned
  BY <1>2, <1>4, <1>6, <1>8 DEF Returned, vars
<1>9. ASSUME NEW o \in Orders, NEW p, p = Pivot(o), Iterate(o, p)
      PROVE  (Settled(d) \/ Ahead(d))'
  <2>1. p > 0
    BY <1>9 DEF Iterate
  <2>2. CASE AdvanceToPivot(o, p)
    <3>1. UNCHANGED heap
      BY <2>2 DEF AdvanceToPivot
    <3> QED BY <1>2, <1>4, <1>5, <1>9, <2>1, <2>2, <3>1
  <2>3. CASE (SkipBlock(o, p) \/ SkipFiltered(o, p)) /\ Settled(d)
    BY <1>4, <2>3 DEF SkipBlock, SkipFiltered
  <2>4. CASE ScoreDoc(o, p) /\ Settled(d)
    BY <1>3, <1>9, <2>1, <2>4
  <2>5. CASE (SkipBlock(o, p) \/ SkipFiltered(o, p) \/ ScoreDoc(o, p)) /\ Ahead(d)
    BY <1>2, <1>9, <2>1, <2>5, FoundAtPivot
  <2> QED BY <1>2, <1>9, <2>2, <2>3, <2>4, <2>5 DEF Iterate
<1>10. CASE Finish
  <2>1. UNCHANGED heap
    BY <1>10 DEF Finish
  <2> QED BY <1>2, <1>4, <1>7, <1>10, <2>1
<1>11. CASE UNCHANGED vars
  BY <1>2, <1>4, <1>6, <1>11 DEF vars
<1> QED BY <1>8, <1>9, <1>10, <1>11 DEF Next, Step

\* At the start nothing is in the heap and everything is ahead.
LEMMA FoundInit ==
  ASSUME Init, ~ MayBeStale PROVE FInv
<1>1. IInv /\ TypeOK
  BY InitInv DEF IInv
<1>2. BoundInv
  BY InitBounds DEF BoundInv
<1>3. ThresholdInv
  BY SizesOK DEF ThresholdInv, Init
<1>4. ASSUME NEW d, HasAll(d) PROVE Ahead(d)
  <2>1. d \in Docs /\ d \in Nat /\ d >= 1 /\ \A t \in Present : t \in Tokens /\ d \in postings[t]
    <3>1. d \in Docs
      BY <1>1, <1>4, HasAllFacts
    <3>2. d \in Nat /\ d >= 1
      BY <3>1, SizesOK DEF Docs
    <3> QED BY <1>4, <3>1, <3>2 DEF HasAll, Present
  <2>2. \A t \in Present : at[t] = FirstFrom(t, 1) /\ FirstFrom(t, 1) <= d
    BY <1>1, <2>1, FirstFromFacts DEF Init
  <2> QED BY <2>2 DEF Ahead, Init
<1> QED BY <1>1, <1>2, <1>3, <1>4 DEF FInv, FoundInv

\* Unless a list keeps the bounds of an older avgLen, a document with every
\* token of the index is returned or beaten, whatever was skipped.
THEOREM NothingLost ==
  ASSUME ~ MayBeStale PROVE Spec => []AllTermsFound
<1>1. Init => FInv
  BY FoundInit
<1>2. FInv /\ [Next]_vars => FInv'
  <2> SUFFICES ASSUME FInv, [Next]_vars PROVE FInv'
    OBVIOUS
  <2>1. IInv' /\ ThresholdInv' /\ FoundInv'
    BY StepInv, ThresholdStep, FoundStep DEF FInv
  <2>2. BoundInv'
    BY DEF FInv, BoundInv, Next, Step, Iterate, Finish, AdvanceToPivot, SkipBlock, SkipFiltered,
           ScoreDoc, Returned, vars, input
  <2> QED BY <2>1, <2>2 DEF FInv
<1>3. FInv => AllTermsFound
  BY DEF FInv, FoundInv, AllTermsFound, HasAll, Settled, Ahead
<1> QED BY <1>1, <1>2, <1>3, PTL DEF Spec

-----------------------------------------------------------------------------
(* The loop makes progress.                                                *)

\* Cursors that are not past d go on to d at least.
LEMMA AdvanceForward ==
  ASSUME TypeOK, NEW S \in SUBSET Active, NEW d \in Nat, AdvanceAll(S, d), \A t \in S : at[t] <= d
  PROVE  /\ \A t \in Tokens : at'[t] >= at[t]
         /\ \A t \in S : at[t] < d => at'[t] > at[t]
<1>1. \A t \in Tokens : at[t] \in Nat /\ at[t] <= End /\ End \in Nat
  BY SizesOK DEF TypeOK, End
<1>2. S \subseteq Tokens /\ \A t \in S : at[t] # End
  BY DEF Active, Present
<1>3. ASSUME NEW t \in S
      PROVE  at'[t] \in Nat /\ at'[t] >= at[t] /\ (at[t] < d => at'[t] > at[t])
  <2>1. at'[t] = FirstFrom(t, d)
    BY <1>2 DEF AdvanceAll
  <2>2. at'[t] \in Nat /\ (at'[t] = End \/ at'[t] >= d)
    BY <1>2, <2>1, FirstFromFacts, SizesOK DEF End
  <2>3. at[t] \in Nat /\ at[t] < End /\ at[t] <= d
    BY <1>1, <1>2
  <2> QED BY ONLY <2>2, <2>3, <1>1, d \in Nat
<1>4. ASSUME NEW t \in Tokens \ S
      PROVE  at'[t] = at[t]
  BY DEF AdvanceAll
<1> QED BY <1>1, <1>2, <1>3, <1>4

\* The cursors before an unaligned pivot are not past it, and one is behind.
LEMMA ToPivotAdvances ==
  ASSUME IInv, NEW o \in Orders, NEW p, p = Pivot(o), p > 0, AdvanceToPivot(o, p)
  PROVE  /\ \A t \in Tokens : at'[t] >= at[t]
         /\ \E t \in Tokens : at'[t] > at[t]
<1>1. PICK c : c = at[o[p]]
  OBVIOUS
<1>2. c \in Nat /\ Before(o, p) \in SUBSET Active /\ Active \subseteq Tokens
  BY <1>1, PivotFacts DEF IInv, Docs, Active, Present
<1>3. \A t \in Before(o, p) : at[t] <= c
  BY <1>1, PivotFacts DEF IInv
<1>4. PICK u \in Before(o, p) : at[u] # c
  BY <1>1 DEF AdvanceToPivot, Aligned
<1>5. at[u] < c
  <2>1. at[u] \in Nat
    BY <1>2, <1>4, SizesOK DEF IInv, TypeOK
  <2> QED BY ONLY <1>2, <1>3, <1>4, <2>1
<1>6. AdvanceAll(Before(o, p), c)
  BY <1>1 DEF AdvanceToPivot
<1> QED BY <1>2, <1>3, <1>4, <1>5, <1>6, AdvanceForward DEF IInv

\* The cursors at the pivot's document, of which there is one, leave it.
LEMMA PastPivotAdvances ==
  ASSUME IInv, NEW o \in Orders, NEW p, p = Pivot(o), p > 0,
         SkipBlock(o, p) \/ SkipFiltered(o, p) \/ ScoreDoc(o, p)
  PROVE  /\ \A t \in Tokens : at'[t] >= at[t]
         /\ \E t \in Tokens : at'[t] > at[t]
<1>1. PICK c : c = at[o[p]]
  OBVIOUS
<1>2. c \in Nat /\ o[p] \in AtDoc(c) /\ AtDoc(c) \in SUBSET Active /\ Active \subseteq Tokens
  BY <1>1, PivotFacts DEF IInv, Docs, AtDoc, Active, Present
<1>3. PICK d \in Nat : d = c + 1
  BY <1>2
<1>4. \A t \in AtDoc(c) : at[t] <= d /\ at[t] < d
  BY <1>2, <1>3 DEF AtDoc
<1>5. AdvanceAll(AtDoc(c), d)
  BY <1>1, <1>3 DEF SkipBlock, SkipFiltered, ScoreDoc, Scored
<1> QED BY <1>2, <1>4, <1>5, AdvanceForward DEF IInv

\* What takes a place in a full heap scores more than the one it replaces.
LEMMA ThresholdRises ==
  ASSUME IInv, ThresholdInv, NEW o \in Orders, NEW p, p = Pivot(o), p > 0, ScoreDoc(o, p)
  PROVE  threshold' >= threshold
<1>0. threshold \in Nat
  BY DEF IInv, TypeOK
<1>1. CASE threshold' = threshold
  BY <1>0, <1>1
<1>2. CASE threshold' # threshold
  <2>1. PICK e : /\ heap' \in PushPop(heap, e)
                 /\ Len(heap') = TopK /\ threshold' = HeapMin(heap')
                 /\ Len(heap) < TopK \/ e.score > threshold
                 /\ e = [id |-> at[o[p]], score |-> Score(AtDoc(at[o[p]]), at[o[p]])]
    BY <1>2 DEF ScoreDoc
  <2>2. e \in Entry
    <3>1. at[o[p]] \in Docs /\ AtDoc(at[o[p]]) \in SUBSET Tokens
      BY PivotFacts DEF IInv, AtDoc, Active, Present
    <3> QED BY <2>1, <3>1, ScoreType DEF IInv, Entry
  <2>3. heap \in Seq(Entry) /\ Len(heap) <= TopK /\ Len(heap) \in Nat /\ e.score \in Nat
    BY <2>2 DEF IInv, TypeOK, Entry
  <2>4. /\ heap' \in Seq(Entry) /\ Len(heap') > 0
        /\ \A i \in DOMAIN heap' : heap'[i] = e \/ \E j \in DOMAIN heap : heap'[i] = heap[j]
    BY <2>1, <2>2, <2>3, PushPopFacts, SizesOK
  <2>5. PICK i \in DOMAIN heap' : heap'[i].score = threshold' /\ threshold' \in Nat
    BY <2>1, <2>4, HeapMinFacts
  <2>6. CASE Len(heap) < TopK
    <3>1. threshold = 0
      BY <2>6 DEF ThresholdInv
    <3> QED BY <2>5, <3>1
  <2>7. CASE ~ (Len(heap) < TopK)
    <3>1. threshold = HeapMin(heap) /\ Len(heap) > 0
      BY <2>3, <2>7, SizesOK DEF ThresholdInv
    <3>2. \A j \in DOMAIN heap : heap[j].score \in Nat /\ heap[j].score >= threshold
      <4>1. \A j \in DOMAIN heap : heap[j] \in Entry
        BY <2>3, EntryFacts
      <4>2. \A j \in DOMAIN heap : heap[j].score \in Nat
        BY <4>1 DEF Entry
      <4>3. \A j \in DOMAIN heap : threshold <= heap[j].score
        BY <2>3, <3>1, HeapMinFacts
      <4> QED BY <1>0, <4>2, <4>3
    <3>3. e.score >= threshold
      BY <1>0, <2>1, <2>3, <2>7
    <3> QED BY <2>4, <2>5, <3>2, <3>3
  <2> QED BY <2>6, <2>7
<1> QED BY <1>1, <1>2

\* The loop ends: for any lists, bounds, filters and ties, each iteration takes
\* at least one of finitely many steps and takes none back.
THEOREM LoopAdvances == Spec => EveryStepAdvances
<1>1. Init => ThresholdInv
  BY SizesOK DEF ThresholdInv, Init
<1>2. Spec => []ThresholdInv
  BY <1>1, ThresholdStep, Inductive, PTL DEF Spec
<1> DEFINE Advances == /\ \A t \in Tokens : at'[t] >= at[t]
                       /\ threshold' >= threshold
                       /\ phase' = "done" \/ \E t \in Tokens : at'[t] > at[t]
<1>3. IInv /\ ThresholdInv /\ [Next]_vars => [Advances]_vars
  <2> SUFFICES ASSUME IInv, ThresholdInv, Next, ~ UNCHANGED vars
               PROVE  Advances
    OBVIOUS
  <2>1. threshold \in Nat /\ \A t \in Tokens : at[t] \in Nat
    BY SizesOK DEF IInv, TypeOK
  <2>2. CASE Finish
    BY <2>1, <2>2 DEF Finish
  <2>3. ASSUME NEW o \in Orders, NEW p, p = Pivot(o), p > 0, Iterate(o, p)
        PROVE  Advances
    <3>1. /\ \A t \in Tokens : at'[t] >= at[t]
          /\ \E t \in Tokens : at'[t] > at[t]
      BY <2>3, ToPivotAdvances, PastPivotAdvances DEF Iterate
    <3>2. threshold' >= threshold
      BY <2>1, <2>3, ThresholdRises DEF Iterate, AdvanceToPivot, SkipBlock, SkipFiltered
    <3> QED BY <3>1, <3>2
  <2> QED BY <2>2, <2>3 DEF Next, Step, Iterate, Returned
<1> HIDE DEF Advances
<1> QED BY <1>2, <1>3, Inductive, PTL DEF Spec, EveryStepAdvances, Advances
=============================================================================
