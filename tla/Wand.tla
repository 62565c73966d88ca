-------------------------------- MODULE Wand --------------------------------
(***************************************************************************)
(* One full-text query over the posting lists: wandBM25 of indexer/index.go*)
(* with its cursors, block-max check and top-K min-heap.  The search holds *)
(* mu shared all along, so the lists do not change under it.               *)
(*                                                                         *)
(* A posting list is a set of document ids in id order, cut into blocks of *)
(* BlockSize.  Tokenize returns each token of a document once, so every    *)
(* frequency is 1 and the tf-norm depends on the document's length alone:  *)
(* Norm[d] stands for it, and Idf for the weight of a token, which falls   *)
(* as its document frequency grows.  Both are positive integers; only      *)
(* their sums and comparisons matter to the traversal.                     *)
(***************************************************************************)
EXTENDS Integers, Sequences, FiniteSets, SequencesExt

CONSTANTS
  NumTokens,   \* length of the slice Tokenize returns for the query
  NumDocs,     \* documents of the index: ids 1..NumDocs
  MaxNorm,     \* tf-norms are 2..MaxNorm, so that a stale one stays positive
  BlockSize,   \* blockSize
  TopK,        \* topK
  MayBeStale   \* whether lists may keep bounds of an older, smaller avgLen

ASSUME SizesOK == /\ NumTokens \in Nat /\ NumDocs \in Nat \ {0}
                  /\ MaxNorm \in Nat \ {0, 1} /\ BlockSize \in Nat \ {0}
                  /\ TopK \in Nat \ {0} /\ MayBeStale \in BOOLEAN

Tokens == 1..NumTokens                         \* a token is its place in the slice
Docs   == 1..NumDocs
End    == NumDocs + 1                          \* a cursor that is not valid

VARIABLES
  postings,   \* the documents of each token
  norm,       \* the tf-norm of each document, with the current avgLen
  passes,     \* the documents that match the field filters
  blockNorm,  \* blockNorm[t][d]: maxNorm of the block of d in the list of t
  at,         \* at[t]: docID of the cursor of t, or End
  heap,       \* the min-heap, in the order of its insertions
  threshold,  \* score to beat
  phase       \* "traverse" or "done"

input == <<postings, norm, passes, blockNorm>>
vars  == <<input, at, heap, threshold, phase>>

Present == {t \in Tokens : postings[t] # {}}   \* tokens that get a cursor
Active  == {t \in Present : at[t] # End}       \* what sortActive keeps

-----------------------------------------------------------------------------
(* Scores and bounds.                                                      *)

Idf(t) == NumDocs + 1 - Cardinality(postings[t])

\* The sum of a function on some of the tokens.
SumOf(w) ==
  LET sum[t \in 0..NumTokens] ==
        IF t = 0 THEN 0 ELSE sum[t - 1] + (IF t \in DOMAIN w THEN w[t] ELSE 0)
  IN  sum[NumTokens]

Score(S, d) == SumOf([t \in S |-> Idf(t) * norm[d]])

\* What a document scores: the sum over all query tokens it contains.
FullScore(d) == Score({t \in Tokens : d \in postings[t]}, d)

\* The block that holds document d of a posting list.
BlockOf(list, d) ==
  LET nth(e) == (Cardinality({c \in list : c <= e}) - 1) \div BlockSize
  IN  {e \in list : nth(e) = nth(d)}

\* The maxNorm sortAndBlock gives a block.
MaxNormOf(block, normOf) == Max({normOf[e] : e \in block})

MaxScore(t)    == Idf(t) * Max({blockNorm[t][d] : d \in postings[t]})
BlockSum(S, d) == SumOf([t \in S |-> Idf(t) * blockNorm[t][d]])

-----------------------------------------------------------------------------
(* Cursors.                                                                *)

\* First document of the list from d on: advance(d), and next() from d - 1.
FirstFrom(t, d) == Min({e \in postings[t] : e >= d} \cup {End})

AdvanceAll(S, d) == at' = [t \in Tokens |-> IF t \in S THEN FirstFrom(t, d) ELSE at[t]]

\* The sorted cursors.  The sort is not stable: ties come in any order.
Orders == {o \in SetToSeqs(Active) :
             \A i, j \in DOMAIN o : i < j => at[o[i]] <= at[o[j]]}

\* Right to left, the first position whose suffix of maxScores beats the
\* threshold; 0 if there is none.
Pivot(o) ==
  LET suffix[i \in 1..(Len(o) + 1)] ==
        IF i > Len(o) THEN 0 ELSE MaxScore(o[i]) + suffix[i + 1]
  IN  Max({0} \cup {i \in DOMAIN o : suffix[i] > threshold})

Before(o, p) == {o[i] : i \in 1..(p - 1)}

\* (fault: the cursors before the pivot are not looked at)
AlignedAlways(o, p) == TRUE
Aligned(o, p) == \A t \in Before(o, p) : at[t] = at[o[p]]

AtDoc(d) == {t \in Active : at[t] = d}

-----------------------------------------------------------------------------
\* A list finalized when avgLen was smaller was given smaller norms.
Init ==
  /\ postings \in [Tokens -> SUBSET Docs]
  /\ norm \in [Docs -> 2..MaxNorm]
  /\ passes \in SUBSET Docs
  /\ \E stale \in IF MayBeStale THEN SUBSET Tokens ELSE {{}} :
       LET old(t) == [d \in Docs |-> norm[d] - (IF t \in stale THEN 1 ELSE 0)]
       IN  blockNorm = [t \in Tokens |-> [d \in postings[t] |->
                          MaxNormOf(BlockOf(postings[t], d), old(t))]]
  /\ at = [t \in Tokens |-> FirstFrom(t, 1)]
  /\ heap = <<>>
  /\ threshold = 0
  /\ phase = "traverse"

\* No cursor is left, or none can beat the threshold: drain the heap.
Finish ==
  /\ phase = "traverse"
  /\ SumOf([t \in Active |-> MaxScore(t)]) <= threshold
  /\ phase' = "done"
  /\ UNCHANGED <<input, at, heap, threshold>>

(* One iteration, for the cursors in order o with the pivot at position p. *)

\* (fault: they move past it)
AdvancePastPivot(o, p) ==
  /\ ~Aligned(o, p)
  /\ AdvanceAll(Before(o, p), at[o[p]] + 1)
  /\ UNCHANGED <<input, heap, threshold, phase>>

\* The cursors before the pivot move up to its document.
AdvanceToPivot(o, p) ==
  /\ ~Aligned(o, p)
  /\ AdvanceAll(Before(o, p), at[o[p]])
  /\ UNCHANGED <<input, heap, threshold, phase>>

\* The blocks of the pivot document cannot beat the threshold.
SkipBlock(o, p) ==
  LET d == at[o[p]] IN
  /\ Aligned(o, p)
  /\ BlockSum(AtDoc(d), d) <= threshold
  /\ AdvanceAll(AtDoc(d), d + 1)
  /\ UNCHANGED <<input, heap, threshold, phase>>

\* (fault: the cursors stay where they are)
SkipFilteredStuck(o, p) ==
  LET d == at[o[p]] IN
  /\ Aligned(o, p)
  /\ BlockSum(AtDoc(d), d) > threshold
  /\ d \notin passes
  /\ UNCHANGED vars

\* The pivot document does not match the field filters.
SkipFiltered(o, p) ==
  LET d == at[o[p]] IN
  /\ Aligned(o, p)
  /\ BlockSum(AtDoc(d), d) > threshold
  /\ d \notin passes
  /\ AdvanceAll(AtDoc(d), d + 1)
  /\ UNCHANGED <<input, heap, threshold, phase>>

HeapMin(h) == Min({h[i].score : i \in DOMAIN h})

\* What the heap may be after Push, and Pop of a smallest entry when there
\* are more than topK.  (fault: no Pop)
PushOnly(h, e) == {Append(h, e)}
PushPop(h, e) ==
  LET all == Append(h, e) IN
  IF Len(all) <= TopK THEN {all}
  ELSE {RemoveAt(all, i) : i \in {j \in DOMAIN all : all[j].score = HeapMin(all)}}

\* Which cursors the scoring loop moves on: all those at the document.
\* (faults: only the one of the pivot; none)
ScoredPivot(o, p) == {o[p]}
ScoredNone(o, p) == {}
Scored(o, p) == AtDoc(at[o[p]])

\* Full scoring of the pivot document and the update of the heap.
ScoreDoc(o, p) ==
  LET d == at[o[p]]
      score == Score(AtDoc(d), d) IN
  /\ Aligned(o, p)
  /\ BlockSum(AtDoc(d), d) > threshold
  /\ d \in passes
  /\ \/ /\ Len(heap) < TopK \/ score > threshold
        /\ heap' \in PushPop(heap, [id |-> d, score |-> score])
        /\ threshold' = IF Len(heap') = TopK THEN HeapMin(heap') ELSE threshold
     \/ /\ Len(heap) >= TopK /\ score <= threshold
        /\ UNCHANGED <<heap, threshold>>
  /\ AdvanceAll(Scored(o, p), d + 1)
  /\ UNCHANGED <<input, phase>>

Iterate(o, p) == /\ p > 0
                 /\ \/ AdvanceToPivot(o, p)
                    \/ SkipBlock(o, p)
                    \/ SkipFiltered(o, p)
                    \/ ScoreDoc(o, p)

Step == \/ Finish
        \/ /\ phase = "traverse"
           /\ \E o \in Orders : \E p \in {Pivot(o)} : Iterate(o, p)

Returned == phase = "done" /\ UNCHANGED vars
Next == Step \/ Returned

Spec     == Init /\ [][Next]_vars
FairSpec == Spec /\ WF_vars(Step)         \* one goroutine runs the loop
-----------------------------------------------------------------------------
Results == {heap[i].id : i \in DOMAIN heap}

\* Every variable has its type, and the heap at most topK entries.
TypeOK ==
  /\ postings \in [Tokens -> SUBSET Docs]
  /\ norm \in [Docs -> 2..MaxNorm]
  /\ passes \subseteq Docs
  /\ \A t \in Tokens : blockNorm[t] \in [postings[t] -> 1..MaxNorm]
  /\ at \in [Tokens -> 1..End]
  /\ heap \in Seq([id : Docs, score : Nat]) /\ Len(heap) <= TopK
  /\ threshold \in Nat
  /\ phase \in {"traverse", "done"}

\* A document in the heap matches the filters and carries its full score: at
\* the moment it is scored, the cursors of all its tokens have met there.
ScoresExact ==
  \A i \in DOMAIN heap : /\ heap[i].id \in passes
                         /\ heap[i].score = FullScore(heap[i].id)

\* No document is returned twice.
NoDuplicates == \A i, j \in DOMAIN heap : heap[i].id = heap[j].id => i = j

\* Beaten(d): the heap is full of documents that score at least as much.
Beaten(d) == /\ Len(heap) = TopK
             /\ \A i \in DOMAIN heap : heap[i].score >= FullScore(d)

\* A document with every token that is in the index at all is returned,
\* unless topK others score as much.  In particular a query of one token gets
\* the exact top K.  Needs bounds no older than avgLen.
AllTermsFound ==
  phase = "done" =>
    \A d \in passes :
      /\ Present # {}
      /\ \A t \in Present : d \in postings[t]
      => d \in Results \/ Beaten(d)

\* index.go:9, "WAND skips documents that CANNOT beat the current top-K
\* threshold": whatever matches a token is returned or beaten.
SkipsOnlyBeaten ==
  phase = "done" =>
    \A d \in passes :
      (\E t \in Tokens : d \in postings[t]) => d \in Results \/ Beaten(d)

\* Every iteration moves a cursor on and none back, and the score to beat never
\* falls.  A cursor moves at most NumDocs times, so the loop, which holds mu, has
\* at most NumTokens * NumDocs iterations, however far behind the pivot they are.
EveryStepAdvances ==
  [][/\ \A t \in Tokens : at'[t] >= at[t]
     /\ threshold' >= threshold
     /\ phase' = "done" \/ \E t \in Tokens : at'[t] > at[t]]_vars

\* The loop ends.
Terminates == <>(phase = "done")
=============================================================================
