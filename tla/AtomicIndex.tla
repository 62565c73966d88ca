---------------------------- MODULE AtomicIndex ----------------------------
(***************************************************************************)
(* What the search service promises about its index, without cache, locks, *)
(* bounds or loads: documents come one by one, some are acknowledged, and  *)
(* all go at once.  A search is answered at one moment between request and *)
(* reply, with everything acknowledged that matches and perhaps more that  *)
(* matches, but nothing that is not there.  SearchIndex implements it.     *)
(***************************************************************************)
EXTENDS Naturals, Sequences

CONSTANTS
  Clients,        \* one search at a time each
  Doc,            \* documents
  Queries,
  Matches(_, _)   \* whether a document answers a query

VARIABLES
  docs,     \* the documents in the order in which they came
  due,      \* positions of those no answer may leave out
  asked,    \* asked[c]: the query c waits for, a set of at most one
  answer    \* answer[c]: the answer on its way to c, a set of at most one

state == <<docs, due, asked, answer>>

Begin ==
  /\ docs = <<>> /\ due = {}
  /\ asked = [c \in Clients |-> {}]
  /\ answer = [c \in Clients |-> {}]

Hits(q) == {<<i, docs[i]>> : i \in {j \in DOMAIN docs : Matches(q, docs[j])}}
Due(q)  == {h \in Hits(q) : h[1] \in due}

Add(d) ==
  /\ docs' = Append(docs, d)
  /\ UNCHANGED <<due, asked, answer>>

Acknowledge(S) ==
  /\ due' = due \cup S
  /\ UNCHANGED <<docs, asked, answer>>

Clear ==
  /\ docs' = <<>> /\ due' = {}
  /\ UNCHANGED <<asked, answer>>

Rests(c) == asked[c] = {} /\ answer[c] = {}

Ask(c, q) ==
  /\ Rests(c)
  /\ asked' = [asked EXCEPT ![c] = {q}]
  /\ UNCHANGED <<docs, due, answer>>

\* A query may be answered as soon as it is asked.
Answer(c, q, A) ==
  /\ asked[c] = {q} \/ Rests(c)
  /\ Due(q) \subseteq A
  /\ asked' = [asked EXCEPT ![c] = {}]
  /\ answer' = [answer EXCEPT ![c] = {A}]
  /\ UNCHANGED <<docs, due>>

Reply(c) ==
  /\ answer[c] # {}
  /\ answer' = [answer EXCEPT ![c] = {}]
  /\ UNCHANGED <<docs, due, asked>>

Change ==
  \/ \E d \in Doc : Add(d)
  \/ \E S \in SUBSET DOMAIN docs : Acknowledge(S)
  \/ Clear
  \/ \E c \in Clients : Reply(c)
  \/ \E c \in Clients, q \in Queries : Ask(c, q) \/ \E A \in SUBSET Hits(q) : Answer(c, q, A)

AtomicIndex == Begin /\ [][Change]_state
=============================================================================
