------------------------- MODULE IngestQueueProofs -------------------------
(***************************************************************************)
(* Proofs about IngestQueue, for any uploads, workers, channel capacity    *)
(* and number of attempts: the inductive invariant IInv, and from it that  *)
(* no job is lost, none has two owners, every job is found by its number,  *)
(* nothing is indexed before some job of its name is done, nor more often  *)
(* than the jobs that are done have tries; through any number of restarts  *)
(* that MaxRestarts allows.                                                *)
(***************************************************************************)
EXTENDS IngestQueue, FiniteSetTheorems, TLAPS

USE CapOK, NameOK, RestartsOK DEF table, jobs

-----------------------------------------------------------------------------
(* The inductive invariant.                                                *)

\* A job that is queued or held has left its handler.
HandedOver ==
  \A u \in Uploads :
    Queued(u) \/ (\E w \in Workers : task[w] = u) => request[u] = "accepted"

\* The status of a job says who has it.
StatusInv ==
  /\ \A u \in Uploads :
       /\ request[u] \in {"idle", "saving", "refused", "saved"} => status[u] = "none"
       /\ request[u] = "sending" \/ Queued(u) => status[u] = "pending"
  /\ \A w \in Workers :
       /\ pc[w] = "start" => status[task[w]] = "pending"
       /\ pc[w] \in {"read", "fail", "finish"} => status[task[w]] = "processing"
       /\ pc[w] = "notify" => status[task[w]] = "done"

\* A file is written by uploads of its name; a notification nobody waits for
\* was sent for a job that is done.
FileInv ==
  \A n \in Names :
    /\ disk[n] \subseteq Namesakes(n)
    /\ late[n] > 0 => \E v \in Namesakes(n) : status[v] = "done"

\* A number is given out once between restarts, to an upload that was saved.
NumberInv ==
  /\ \A u \in Uploads : /\ id[u] <= counter
                        /\ request[u] \in {"idle", "saving", "refused", "saved"} => id[u] = 0
  /\ \A u, v \in jobs : id[u] = id[v] => u = v

IInv == /\ TypeOK /\ OneOwner /\ NoTaskLost /\ HandedOver /\ StatusInv
        /\ FileInv /\ IndexedAfterDone /\ NumberInv

\* A step that gives out no number and takes no upload back.
LEMMA SameNumbers ==
  ASSUME NumberInv, UNCHANGED table,
         \A u \in Uploads : request'[u] \in {"idle", "saving", "refused", "saved"} =>
                           request[u] \in {"idle", "saving", "refused", "saved"}
  PROVE  NumberInv'
BY DEF NumberInv

-----------------------------------------------------------------------------
(* The channel.                                                            *)

In(s, u) == \E i \in DOMAIN s : s[i] = u
NoRepeat(s, u) == \A i, j \in DOMAIN s : s[i] = u /\ s[j] = u => i = j

\* A send adds its job and no other.
LEMMA AppendIn ==
  ASSUME NEW s \in Seq(Uploads), NEW v \in Uploads, NEW u
  PROVE  In(Append(s, v), u) <=> In(s, u) \/ u = v
<1>1. /\ DOMAIN Append(s, v) = 1..(Len(s) + 1) /\ DOMAIN s = 1..Len(s)
      /\ \A i \in 1..Len(s) : Append(s, v)[i] = s[i]
      /\ Append(s, v)[Len(s) + 1] = v
      /\ Len(s) \in Nat
  OBVIOUS
<1>2. \A i \in 1..(Len(s) + 1) : i \in 1..Len(s) \/ i = Len(s) + 1
  BY <1>1
<1>3. Len(s) + 1 \in 1..(Len(s) + 1) /\ 1..Len(s) \subseteq 1..(Len(s) + 1)
  BY <1>1
<1> HIDE DEF In
<1>4. ASSUME In(Append(s, v), u) PROVE In(s, u) \/ u = v
  BY <1>1, <1>2, <1>4 DEF In
<1>5. ASSUME In(s, u) \/ u = v PROVE In(Append(s, v), u)
  BY <1>1, <1>3, <1>5 DEF In
<1> QED BY <1>4, <1>5

\* A send of a job that is not queued leaves every job at most once.
LEMMA AppendNoRepeat ==
  ASSUME NEW s \in Seq(Uploads), NEW v \in Uploads, NEW u,
         NoRepeat(s, u), ~In(s, v)
  PROVE  NoRepeat(Append(s, v), u)
<1>1. /\ DOMAIN Append(s, v) = 1..(Len(s) + 1) /\ DOMAIN s = 1..Len(s)
      /\ \A i \in 1..Len(s) : Append(s, v)[i] = s[i]
      /\ Append(s, v)[Len(s) + 1] = v
      /\ Len(s) \in Nat
  OBVIOUS
<1>2. \A i \in 1..(Len(s) + 1) : i \in 1..Len(s) \/ i = Len(s) + 1
  BY <1>1
<1> QED BY <1>1, <1>2 DEF NoRepeat, In

\* A receive takes one job and leaves the others.
LEMMA TailIn ==
  ASSUME NEW s \in Seq(Uploads), s # <<>>, NEW u
  PROVE  /\ In(Tail(s), u) => In(s, u)
         /\ In(s, u) => In(Tail(s), u) \/ u = Head(s)
         /\ NoRepeat(s, u) => NoRepeat(Tail(s), u)
         /\ NoRepeat(s, Head(s)) => ~In(Tail(s), Head(s))
         /\ In(s, Head(s)) /\ Head(s) \in Uploads
<1>1. /\ DOMAIN s = 1..Len(s) /\ Len(s) \in Nat \ {0}
      /\ DOMAIN Tail(s) = 1..(Len(s) - 1)
      /\ \A i \in 1..(Len(s) - 1) : Tail(s)[i] = s[i + 1]
      /\ Head(s) = s[1] /\ Head(s) \in Uploads
  OBVIOUS
<1>2. \A i \in 1..(Len(s) - 1) : i + 1 \in 1..Len(s) /\ i + 1 # 1
  BY <1>1
<1>3. \A i \in 1..Len(s) : i = 1 \/ (i - 1 \in 1..(Len(s) - 1) /\ (i - 1) + 1 = i)
  BY <1>1
<1>4. 1 \in 1..Len(s)
  BY <1>1
<1>5. In(Tail(s), u) => In(s, u)
  BY <1>1, <1>2 DEF In
<1>6. In(s, u) => In(Tail(s), u) \/ u = Head(s)
  BY <1>1, <1>3, ZenonT(40) DEF In
<1>7. ASSUME NoRepeat(s, u) PROVE NoRepeat(Tail(s), u)
  <2> SUFFICES ASSUME NEW i \in 1..(Len(s) - 1), NEW j \in 1..(Len(s) - 1),
                      Tail(s)[i] = u, Tail(s)[j] = u
               PROVE  i = j
    BY <1>1 DEF NoRepeat
  <2>1. i + 1 = j + 1
    BY <1>1, <1>2, <1>7 DEF NoRepeat
  <2> QED BY <2>1, <1>1
<1>8. NoRepeat(s, Head(s)) => ~In(Tail(s), Head(s))
  BY <1>1, <1>2, <1>4 DEF In, NoRepeat
<1>9. In(s, Head(s))
  BY <1>1, <1>4 DEF In
<1> QED BY <1>1, <1>5, <1>6, <1>7, <1>8, <1>9

-----------------------------------------------------------------------------
(* Handlers.                                                               *)

\* It holds before the first upload.
LEMMA InitInv == Init => IInv
<1> SUFFICES ASSUME Init PROVE IInv
  OBVIOUS
<1> USE DEF Init
<1>1. \A u \in Uploads : ~Queued(u) /\ FileName[u] \in Names
  BY DEF Queued, Names
<1>2. TypeOK
  BY DEF TypeOK, Unfinished, Reading
<1>3. OneOwner /\ NoTaskLost /\ HandedOver /\ StatusInv
  BY <1>1 DEF OneOwner, NoTaskLost, HandedOver, StatusInv, Unfinished
<1>4. FileInv /\ IndexedAfterDone /\ NumberInv
  BY DEF FileInv, IndexedAfterDone, NumberInv
<1> QED BY <1>2, <1>3, <1>4 DEF IInv

\* The file of an upload is created.
LEMMA CreateInv ==
  ASSUME IInv, NEW u \in Uploads, Create(u) PROVE IInv'
<1> USE DEF IInv, Create
<1>1. FileName[u] \in Names /\ u \in Namesakes(FileName[u])
  BY DEF Names, Namesakes
<1>2. \A n \in Names : disk'[n] \subseteq disk[n] \cup (Namesakes(n) \cap {u})
  BY <1>1 DEF TypeOK
<1>3. request' = [request EXCEPT ![u] = "saving"] /\ request[u] = "idle"
  OBVIOUS
<1>4. TypeOK'
  BY <1>2, ZenonT(30) DEF TypeOK
<1>5. OneOwner' /\ NoTaskLost' /\ HandedOver'
  BY ZenonT(30) DEF TypeOK, OneOwner, NoTaskLost, HandedOver, Queued
<1>6. StatusInv'
  BY DEF TypeOK, StatusInv, Queued
<1>7. \A n : Namesakes(n)' = Namesakes(n)
  BY DEF Namesakes
<1>8. FileInv'
  BY <1>2, <1>7 DEF FileInv
<1>9. IndexedAfterDone'
  BY <1>7 DEF IndexedAfterDone
<1>10. NumberInv'
  BY <1>3 DEF TypeOK, NumberInv
<1> QED BY <1>4, <1>5, <1>6, <1>8, <1>9, <1>10

\* It is copied, or the copy fails.
LEMMA CopyInv ==
  ASSUME IInv, NEW u \in Uploads, Copy(u) PROVE IInv'
<1> USE DEF IInv, Copy
<1>1. /\ request[u] = "saving" /\ request'[u] \in {"saved", "refused"}
      /\ \A v \in Uploads : v # u => request'[v] = request[v]
      /\ \A v \in Uploads : Queued(v)' <=> Queued(v)
  BY DEF TypeOK, Queued
<1>2. TypeOK'
  BY DEF TypeOK, Written
<1>3. OneOwner' /\ NoTaskLost' /\ HandedOver' /\ StatusInv'
  BY <1>1 DEF OneOwner, NoTaskLost, HandedOver, StatusInv
<1>4. FileInv' /\ IndexedAfterDone'
  BY DEF FileInv, IndexedAfterDone, Namesakes
<1>5. NumberInv'
  BY <1>1 DEF NumberInv
<1> QED BY <1>2, <1>3, <1>4, <1>5

\* The job is registered.
LEMMA RegisterInv ==
  ASSUME IInv, NEW u \in Uploads, Register(u) PROVE IInv'
<1> USE DEF IInv, Register
<1>1. TypeOK'
  BY DEF TypeOK, Written, Unfinished
<1>2. /\ status[u] = "none" /\ ~Queued(u) /\ \A w \in Workers : task[w] # u
      /\ request'[u] = "sending" /\ status'[u] = "pending"
      /\ \A v \in Uploads : v # u => request'[v] = request[v] /\ status'[v] = status[v]
      /\ \A v \in Uploads : Queued(v)' <=> Queued(v)
  BY DEF TypeOK, HandedOver, StatusInv, Queued
<1>3. OneOwner' /\ NoTaskLost' /\ HandedOver'
  BY <1>2 DEF OneOwner, NoTaskLost, HandedOver, Queued
<1>4. \A w \in Workers : pc[w] # "idle" => task[w] \in Uploads \ {u}
  BY <1>2 DEF TypeOK
<1>5. StatusInv'
  BY <1>2, <1>4 DEF StatusInv
<1>6. \A v \in Uploads : status[v] = "done" => status'[v] = "done"
  BY <1>2
<1>7. \A n \in Names : Namesakes(n)' = Namesakes(n) /\ Namesakes(n) \subseteq Uploads
  BY DEF Namesakes
<1>8. FileInv' /\ IndexedAfterDone'
  BY <1>6, <1>7 DEF FileInv, IndexedAfterDone, Namesakes
<1>9. /\ id'[u] = counter + 1 /\ counter' = counter + 1
      /\ \A v \in Uploads : v # u => id'[v] = id[v]
      /\ \A v \in Uploads : id[v] \in Nat /\ counter \in Nat
  BY DEF TypeOK
<1>10. NumberInv'
  <2>1. \A v \in jobs' : v = u \/ (v \in jobs /\ id'[v] = id[v])
    BY <1>9
  <2>2. \A v \in jobs : id[v] <= counter /\ id[v] # counter + 1
    <3> SUFFICES ASSUME NEW v \in jobs PROVE id[v] <= counter /\ id[v] # counter + 1
      OBVIOUS
    <3>1. id[v] <= counter /\ id[v] \in Nat /\ counter \in Nat
      BY <1>9 DEF NumberInv
    <3> QED BY <3>1
  <2>3. \A v, x \in jobs' : id'[v] = id'[x] => v = x
    <3> SUFFICES ASSUME NEW v \in jobs', NEW x \in jobs', id'[v] = id'[x] PROVE v = x
      OBVIOUS
    <3>1. CASE v \in jobs /\ x \in jobs /\ id'[v] = id[v] /\ id'[x] = id[x]
      BY <3>1 DEF NumberInv
    <3> HIDE DEF jobs
    <3>2. CASE v = u \/ x = u
      BY <1>9, <2>1, <2>2, <3>2
    <3> QED BY <2>1, <3>1, <3>2
  <2>4. \A v \in Uploads :
           /\ id'[v] <= counter'
           /\ request'[v] \in {"idle", "saving", "refused", "saved"} => id'[v] = 0
    <3> SUFFICES ASSUME NEW v \in Uploads
                 PROVE  /\ id'[v] <= counter'
                        /\ request'[v] \in {"idle", "saving", "refused", "saved"} => id'[v] = 0
      OBVIOUS
    <3>1. /\ id[v] <= counter /\ id[v] \in Nat /\ counter \in Nat
          /\ request[v] \in {"idle", "saving", "refused", "saved"} => id[v] = 0
      BY <1>9 DEF NumberInv
    <3>2. CASE v = u
      BY <1>2, <1>9, <3>1, <3>2
    <3>3. CASE v # u
      BY <1>2, <1>9, <3>1, <3>3
    <3> QED BY <3>2, <3>3
  <2> HIDE DEF jobs
  <2> QED BY <2>3, <2>4 DEF NumberInv
<1> QED BY <1>1, <1>3, <1>5, <1>8, <1>10

\* The job is sent.
LEMMA SendInv ==
  ASSUME IInv, NEW u \in Uploads, Send(u) PROVE IInv'
<1> USE DEF IInv, Send
<1>1. taskCh \in Seq(Uploads) /\ taskCh' = Append(taskCh, u)
  BY DEF TypeOK
<1>2. TypeOK'
  BY <1>1 DEF TypeOK, Written
<1>3. \A v \in Uploads : Queued(v)' <=> Queued(v) \/ v = u
  <2>1. \A v \in Uploads : In(Append(taskCh, u), v) <=> In(taskCh, v) \/ v = u
    BY <1>1, AppendIn
  <2> QED BY ONLY <1>1, <2>1 DEF Queued, In
<1>4. /\ ~Queued(u) /\ status[u] = "pending" /\ \A w \in Workers : task[w] # u
      /\ request'[u] = "accepted"
      /\ \A v \in Uploads : v # u => request'[v] = request[v]
  BY DEF TypeOK, OneOwner, StatusInv
<1>5. \A v \in Uploads : NoRepeat(taskCh', v)
  BY <1>1, <1>4, AppendNoRepeat DEF OneOwner, NoRepeat, Queued, In
<1>6. OneOwner'
  BY <1>3, <1>4, <1>5 DEF OneOwner, NoRepeat
<1>7. NoTaskLost' /\ HandedOver' /\ StatusInv'
  BY <1>3, <1>4 DEF NoTaskLost, HandedOver, StatusInv
<1>8. FileInv' /\ IndexedAfterDone'
  BY DEF FileInv, IndexedAfterDone, Namesakes
<1>9. NumberInv'
  BY <1>4 DEF NumberInv
<1> QED BY <1>2, <1>6, <1>7, <1>8, <1>9

\* A file is deleted.
LEMMA DeleteInv ==
  ASSUME IInv, NEW n \in Names, DeleteFile(n) PROVE IInv'
<1> USE DEF IInv, DeleteFile
<1>1. TypeOK'
  BY DEF TypeOK
<1>2. OneOwner' /\ NoTaskLost' /\ HandedOver' /\ StatusInv'
  BY DEF OneOwner, NoTaskLost, HandedOver, StatusInv, Queued
<1>3. FileInv' /\ IndexedAfterDone'
  BY DEF TypeOK, FileInv, IndexedAfterDone, Namesakes
<1>4. NumberInv'
  BY SameNumbers
<1> QED BY <1>1, <1>2, <1>3, <1>4

-----------------------------------------------------------------------------
(* Workers.                                                                *)

\* A worker takes the first job of the channel.
LEMMA ReceiveInv ==
  ASSUME IInv, NEW w \in Workers, Receive(w) PROVE IInv'
<1> USE DEF IInv, Receive, Goto
<1> DEFINE u == Head(taskCh)
<1>1. taskCh \in Seq(Uploads) /\ taskCh # <<>> /\ taskCh' = Tail(taskCh)
  BY DEF TypeOK
<1>2. u \in Uploads /\ Queued(u)
  BY <1>1, TailIn DEF Queued, In
<1>3. \A v \in Uploads : NoRepeat(taskCh, v) /\ NoRepeat(taskCh', v)
  BY <1>1, TailIn DEF OneOwner, NoRepeat
<1>4. \A v \in Uploads : Queued(v)' <=> Queued(v) /\ v # u
  BY <1>1, <1>2, <1>3, TailIn DEF Queued, In
<1>5. /\ \A v \in Workers : task[v] # u
      /\ request[u] = "accepted" /\ status[u] = "pending"
  BY <1>2 DEF OneOwner, HandedOver, StatusInv
<1>6. /\ pc[w] = "idle" /\ pc'[w] = "start" /\ task'[w] = u
      /\ \A v \in Workers : v # w => pc'[v] = pc[v] /\ task'[v] = task[v]
  BY DEF TypeOK
<1>7. TypeOK'
  <2>1. taskCh' \in Seq(Uploads) /\ Len(taskCh') <= QueueCap
    BY <1>1 DEF TypeOK
  <2>2. pc' \in [Workers -> {"idle", "notify"} \cup Reading]
        /\ task' \in [Workers -> Uploads \cup {NoUpload}]
    BY <1>2 DEF TypeOK, Reading
  <2>3. \A v \in Workers : pc'[v] # "idle" => task'[v] # NoUpload
    BY <1>2, <1>6 DEF TypeOK
  <2> QED BY <2>1, <2>2, <2>3 DEF TypeOK
<1>8. OneOwner'
  <2>1. \A v \in Uploads : \A x, y \in Workers : task'[x] = v /\ task'[y] = v => x = y
    BY <1>5, <1>6 DEF OneOwner
  <2>2. \A v \in Uploads : request[v] = "sending" =>
          ~Queued(v)' /\ \A x \in Workers : task'[x] # v
    BY <1>4, <1>5, <1>6 DEF OneOwner
  <2>3. \A v \in Uploads : Queued(v)' => \A x \in Workers : task'[x] # v
    BY <1>4, <1>6 DEF OneOwner
  <2> QED BY <1>3, <2>1, <2>2, <2>3 DEF OneOwner, NoRepeat
<1>9. NoTaskLost'
  BY <1>4, <1>6 DEF NoTaskLost, Reading
<1>10. HandedOver' /\ StatusInv'
  BY <1>4, <1>5, <1>6 DEF HandedOver, StatusInv
<1>11. FileInv' /\ IndexedAfterDone'
  BY DEF FileInv, IndexedAfterDone, Namesakes
<1>12. NumberInv'
  BY SameNumbers
<1> QED BY <1>7, <1>8, <1>9, <1>10, <1>11, <1>12

\* The worker's job has no other owner.
LEMMA Mine ==
  ASSUME IInv, NEW w \in Workers, pc[w] # "idle"
  PROVE  /\ task[w] \in Uploads /\ Name(w) \in Names
         /\ ~Queued(task[w]) /\ request[task[w]] = "accepted"
         /\ \A v \in Workers : task[v] = task[w] => v = w
BY DEF IInv, TypeOK, OneOwner, HandedOver, Name, Names

\* A step of a worker that leaves its job and its status with it.
LEMMA KeepsOwners ==
  ASSUME IInv, NEW w \in Workers,
         UNCHANGED <<request, taskCh, status, table>>,
         \A v \in Workers : task'[v] = task[v] \/ (v = w /\ task'[v] = NoUpload),
         \A v \in Workers : v # w => pc'[v] = pc[v],
         pc[w] \notin Reading \/ (pc'[w] \in Reading /\ task'[w] = task[w])
  PROVE  OneOwner' /\ NoTaskLost' /\ HandedOver'
<1> USE DEF IInv
<1>1. \A u \in Uploads : /\ Queued(u)' <=> Queued(u)
                         /\ \A v \in Workers : task'[v] = u => task[v] = u
  BY DEF Queued
<1>2. OneOwner'
  BY <1>1 DEF OneOwner
<1>3. HandedOver'
  BY <1>1 DEF HandedOver
<1>4. \A v \in Workers : pc[v] \in Reading => pc'[v] \in Reading /\ task'[v] = task[v]
  BY DEF TypeOK, Reading
<1>5. NoTaskLost'
  BY <1>1, <1>4 DEF NoTaskLost
<1> QED BY <1>2, <1>3, <1>5

\* A worker marks its job.
LEMMA SetProcessingInv ==
  ASSUME IInv, NEW w \in Workers, SetProcessing(w) PROVE IInv'
<1> USE DEF IInv, SetProcessing, Goto
<1> DEFINE u == task[w]
<1>1. pc[w] = "start" /\ u \in Uploads /\ ~Queued(u) /\ request[u] = "accepted"
      /\ \A v \in Workers : task[v] = u => v = w
  BY Mine
<1>2. /\ status[u] = "pending" /\ status'[u] = "processing" /\ pc'[w] = "read"
      /\ \A v \in Uploads : v # u => status'[v] = status[v]
      /\ \A v \in Workers : v # w => pc'[v] = pc[v]
  BY <1>1 DEF TypeOK, StatusInv
<1>3. TypeOK'
  BY DEF TypeOK, Unfinished, Reading
<1>4. \A v \in Uploads : Queued(v)' <=> Queued(v)
  BY DEF Queued
<1>5. OneOwner' /\ HandedOver'
  BY <1>4 DEF OneOwner, HandedOver
<1>6. NoTaskLost'
  BY <1>1, <1>2, <1>4 DEF NoTaskLost, Reading, Unfinished
<1>7. \A v \in Workers : pc[v] # "idle" /\ v # w => task[v] \in Uploads \ {u}
  BY <1>1 DEF TypeOK
<1>8. StatusInv'
  BY <1>1, <1>2, <1>4, <1>7 DEF StatusInv
<1>9. \A v \in Uploads : status[v] = "done" => status'[v] = "done"
  BY <1>2
<1>10. \A n : Namesakes(n)' = Namesakes(n) /\ Namesakes(n) \subseteq Uploads
  BY DEF Namesakes
<1>11. FileInv' /\ IndexedAfterDone'
  BY <1>9, <1>10 DEF FileInv, IndexedAfterDone
<1>12. NumberInv'
  BY SameNumbers
<1> QED BY <1>3, <1>5, <1>6, <1>8, <1>11, <1>12

\* A worker reads the file, or fails to.
LEMMA ReadFileInv ==
  ASSUME IInv, NEW w \in Workers, ReadFile(w) PROVE IInv'
<1> USE DEF IInv, ReadFile, Goto
<1>1. /\ pc[w] = "read" /\ pc'[w] \in {"fail", "finish"}
      /\ pc' \in [Workers -> {"idle", "notify"} \cup Reading]
      /\ \A v \in Workers : v # w => pc'[v] = pc[v]
  BY DEF TypeOK, Reading
<1>2. TypeOK'
  BY <1>1 DEF TypeOK
<1>3. OneOwner' /\ NoTaskLost' /\ HandedOver'
  <2>1. UNCHANGED <<request, taskCh, status, table>>
    OBVIOUS
  <2>2. \A v \in Workers : task'[v] = task[v] \/ (v = w /\ task'[v] = NoUpload)
    OBVIOUS
  <2>3. \A v \in Workers : v # w => pc'[v] = pc[v]
    BY <1>1
  <2>4. pc[w] \notin Reading \/ (pc'[w] \in Reading /\ task'[w] = task[w])
    BY <1>1 DEF Reading
  <2> HIDE DEF IInv, ReadFile, Goto
  <2> QED BY <2>1, <2>2, <2>3, <2>4, KeepsOwners
<1>4. StatusInv'
  BY <1>1 DEF StatusInv, Queued
<1>5. FileInv' /\ IndexedAfterDone'
  BY DEF FileInv, IndexedAfterDone, Namesakes
<1>6. NumberInv'
  BY SameNumbers
<1> QED BY <1>2, <1>3, <1>4, <1>5, <1>6

\* The end of a job, one way or the other.
LEMMA EndOfJobInv ==
  ASSUME IInv, NEW w \in Workers, Fail(w) \/ Finish(w) PROVE IInv'
<1> USE DEF IInv
<1> DEFINE u == task[w]
<1>1. /\ pc[w] \in {"fail", "finish"}
      /\ UNCHANGED <<request, disk, taskCh, late, copies, table, restarts>>
  BY DEF Fail, Finish, Goto
<1>2. u \in Uploads /\ ~Queued(u) /\ request[u] = "accepted"
      /\ \A v \in Workers : task[v] = u => v = w
  BY <1>1, Mine
<1>3. /\ \/ pc'[w] = "idle" /\ task'[w] = NoUpload /\ status'[u] = "failed"
         \/ pc'[w] = "notify" /\ task'[w] = u /\ status'[u] = "done"
      /\ \A v \in Uploads : v # u => status'[v] = status[v]
      /\ \A v \in Workers : v # w => pc'[v] = pc[v] /\ task'[v] = task[v]
  <2>1. CASE Fail(w)
    <3>1. /\ pc' = [pc EXCEPT ![w] = "idle"] /\ task' = [task EXCEPT ![w] = NoUpload]
          /\ status' = [status EXCEPT ![u] = "failed"]
      BY <2>1 DEF Fail, Goto, Rest
    <3> QED BY <1>2, <3>1 DEF TypeOK
  <2>2. CASE Finish(w)
    BY <1>2, <2>2 DEF TypeOK, Finish, Goto
  <2> QED BY <2>1, <2>2
<1>4. TypeOK'
  <2>1. CASE Fail(w)
    BY <1>2, <2>1 DEF TypeOK, Fail, Goto, Rest, Unfinished, Reading
  <2>2. CASE Finish(w)
    BY <1>2, <2>2 DEF TypeOK, Finish, Goto, Unfinished, Reading
  <2> QED BY <2>1, <2>2
<1>5. \A v \in Uploads : /\ Queued(v)' <=> Queued(v)
                         /\ \A x \in Workers : task'[x] = v => task[x] = v
  BY <1>1, <1>3 DEF Queued
<1>6. OneOwner' /\ HandedOver'
  BY <1>1, <1>5 DEF OneOwner, HandedOver
<1>7. NoTaskLost'
  BY <1>1, <1>2, <1>3, <1>5 DEF NoTaskLost, Unfinished
<1>8. \A v \in Workers : pc[v] # "idle" /\ v # w => task[v] \in Uploads \ {u}
  BY <1>2 DEF TypeOK
<1>9. StatusInv'
  BY <1>1, <1>2, <1>3, <1>5, <1>8 DEF StatusInv
<1>10. status[u] = "processing"
  BY <1>1 DEF StatusInv
<1>11. \A v \in Uploads : status[v] = "done" => status'[v] = "done"
  BY <1>3, <1>10
<1>12. \A n : Namesakes(n)' = Namesakes(n) /\ Namesakes(n) \subseteq Uploads
  BY DEF Namesakes
<1>13. FileInv' /\ IndexedAfterDone'
  BY <1>1, <1>11, <1>12 DEF FileInv, IndexedAfterDone
<1>14. NumberInv'
  BY <1>1, SameNumbers
<1> QED BY <1>4, <1>6, <1>7, <1>9, <1>13, <1>14

\* The choice after an attempt that failed.
LEMMA RetryFacts ==
  ASSUME IInv, NEW w \in Workers, pc[w] = "notify", RetryOrGiveUp(w)
  PROVE  /\ \A v \in Workers : v # w => pc'[v] = pc[v] /\ task'[v] = task[v]
         /\ \/ pc'[w] = "notify" /\ task'[w] = task[w]
            \/ pc'[w] = "idle" /\ task'[w] = NoUpload
         /\ pc' \in [Workers -> {"idle", "notify"} \cup Reading]
         /\ task' \in [Workers -> Uploads \cup {NoUpload}]
         /\ attempt' \in [Workers -> 0..MaxAttempts]
<1>1. attempt[w] \in 0..MaxAttempts /\ 0 \in 0..MaxAttempts
      /\ (attempt[w] < MaxAttempts => attempt[w] + 1 \in 0..MaxAttempts)
  BY DEF IInv, TypeOK
<1>2. CASE attempt[w] < MaxAttempts /\ attempt' = [attempt EXCEPT ![w] = @ + 1]
           /\ UNCHANGED <<pc, task>>
  BY <1>1, <1>2 DEF IInv, TypeOK
<1>3. CASE pc' = [pc EXCEPT ![w] = "idle"] /\ Rest(w)
  BY <1>1, <1>3 DEF IInv, TypeOK, Rest
<1> QED BY <1>2, <1>3 DEF RetryOrGiveUp

\* A step that indexes n, if it indexes anything.
LEMMA IndexFacts ==
  ASSUME IInv, NEW n \in Names, Index(n),
         \E v \in Namesakes(n) : status[v] = "done"
  PROVE  /\ copies' \in [Uploads -> Nat]
         /\ \A u \in Uploads : copies'[u] > 0 =>
              \E v \in Namesakes(FileName[u]) : status[v] = "done"
<1> USE DEF IInv
<1>1. PICK u \in Readable(n) : copies' = [copies EXCEPT ![u] = @ + 1]
  BY DEF Index
<1>2. u \in Uploads /\ FileName[u] = n
  BY DEF Readable, FileInv, Namesakes
<1>3. copies' \in [Uploads -> Nat]
  BY <1>1, <1>2 DEF TypeOK
<1>4. \A v \in Uploads : v # u => copies'[v] = copies[v]
  BY <1>1 DEF TypeOK
<1> QED BY <1>2, <1>3, <1>4 DEF IndexedAfterDone

\* A worker has tried to notify: it has an answer, or a failure, or none in time.
LEMMA NotifyInv ==
  ASSUME IInv, NEW w \in Workers,
         NotifyOK(w) \/ NotifyFails(w) \/ NotifyTimesOut(w)
  PROVE  IInv'
<1> USE DEF IInv
<1> DEFINE n == Name(w)
<1>1. pc[w] = "notify" /\ UNCHANGED <<request, disk, status, taskCh, table, restarts>>
  BY DEF NotifyOK, NotifyFails, NotifyTimesOut, Goto
<1>2. /\ n \in Names /\ task[w] \in Namesakes(n) /\ status[task[w]] = "done"
  BY <1>1, Mine DEF StatusInv, Name, Namesakes
<1>3. /\ \A v \in Workers : v # w => pc'[v] = pc[v] /\ task'[v] = task[v]
      /\ \/ pc'[w] = "notify" /\ task'[w] = task[w]
         \/ pc'[w] = "idle" /\ task'[w] = NoUpload
      /\ pc' \in [Workers -> {"idle", "notify"} \cup Reading]
      /\ task' \in [Workers -> Uploads \cup {NoUpload}]
      /\ attempt' \in [Workers -> 0..MaxAttempts]
  <2>1. CASE NotifyOK(w)
    BY <2>1 DEF NotifyOK, Goto, Rest, TypeOK
  <2>2. CASE NotifyFails(w) \/ NotifyTimesOut(w)
    BY <1>1, <2>2, RetryFacts DEF NotifyFails, NotifyTimesOut
  <2> QED BY <2>1, <2>2
<1>4. /\ late' \in [Names -> Nat]
      /\ \A m \in Names : late'[m] > 0 => late[m] > 0 \/ m = n
  <2>1. CASE NotifyOK(w) \/ NotifyFails(w)
    BY <2>1 DEF NotifyOK, NotifyFails, TypeOK
  <2>2. CASE NotifyTimesOut(w)
    BY <1>2, <2>2 DEF NotifyTimesOut, TypeOK
  <2> QED BY <2>1, <2>2
<1>5. /\ copies' \in [Uploads -> Nat]
      /\ \A u \in Uploads : copies'[u] > 0 =>
           \E v \in Namesakes(FileName[u]) : status[v] = "done"
  <2>1. CASE NotifyOK(w)
    BY <1>2, <2>1, IndexFacts DEF NotifyOK
  <2>2. CASE NotifyFails(w) \/ NotifyTimesOut(w)
    BY <2>2 DEF NotifyFails, NotifyTimesOut, TypeOK, IndexedAfterDone
  <2> QED BY <2>1, <2>2
<1>6. \A v \in Workers : pc'[v] # "idle" => task'[v] # NoUpload
  BY <1>1, <1>3 DEF TypeOK
<1>7. TypeOK'
  BY <1>1, <1>3, <1>4, <1>5, <1>6 DEF TypeOK
<1>8. OneOwner' /\ NoTaskLost' /\ HandedOver'
  <2>1. UNCHANGED <<request, taskCh, status, table>>
    BY <1>1
  <2>2. \A v \in Workers : task'[v] = task[v] \/ (v = w /\ task'[v] = NoUpload)
    BY <1>3
  <2>3. \A v \in Workers : v # w => pc'[v] = pc[v]
    BY <1>3
  <2>4. pc[w] \notin Reading \/ (pc'[w] \in Reading /\ task'[w] = task[w])
    BY <1>1 DEF Reading
  <2> HIDE DEF IInv
  <2> QED BY <2>1, <2>2, <2>3, <2>4, KeepsOwners
<1>9. StatusInv'
  BY <1>1, <1>3 DEF StatusInv, Queued
<1>10. \A m : Namesakes(m)' = Namesakes(m)
  BY DEF Namesakes
<1>11. FileInv'
  BY <1>1, <1>2, <1>4, <1>10 DEF FileInv
<1>12. IndexedAfterDone'
  BY <1>1, <1>5, <1>10 DEF IndexedAfterDone
<1>13. NumberInv'
  BY <1>1, SameNumbers
<1> QED BY <1>7, <1>8, <1>9, <1>11, <1>12, <1>13

\* A notification is served after its sender has given up.
LEMMA LateInv ==
  ASSUME IInv, NEW n \in Names, ServeLate(n) \/ RefuseLate(n)
  PROVE  IInv'
<1> USE DEF IInv
<1>1. /\ late[n] > 0 /\ late' = [late EXCEPT ![n] = @ - 1]
      /\ UNCHANGED <<request, disk, status, taskCh, pc, task, attempt, table, restarts>>
  BY DEF ServeLate, RefuseLate
<1>2. \E v \in Namesakes(n) : status[v] = "done"
  BY <1>1 DEF FileInv
<1>3. late' \in [Names -> Nat] /\ \A m \in Names : late'[m] > 0 => late[m] > 0
  BY <1>1 DEF TypeOK
<1>4. /\ copies' \in [Uploads -> Nat]
      /\ \A u \in Uploads : copies'[u] > 0 =>
           \E v \in Namesakes(FileName[u]) : status[v] = "done"
  <2>1. CASE ServeLate(n)
    BY <1>2, <2>1, IndexFacts DEF ServeLate
  <2>2. CASE RefuseLate(n)
    BY <2>2 DEF RefuseLate, TypeOK, IndexedAfterDone
  <2> QED BY <2>1, <2>2
<1>5. TypeOK'
  BY <1>1, <1>3, <1>4 DEF TypeOK
<1>6. OneOwner' /\ NoTaskLost' /\ HandedOver' /\ StatusInv'
  BY <1>1 DEF OneOwner, NoTaskLost, HandedOver, StatusInv, Queued
<1>7. \A m : Namesakes(m)' = Namesakes(m)
  BY DEF Namesakes
<1>8. FileInv' /\ IndexedAfterDone'
  BY <1>1, <1>3, <1>4, <1>7 DEF FileInv, IndexedAfterDone
<1>9. NumberInv'
  BY <1>1, SameNumbers
<1> QED BY <1>5, <1>6, <1>8, <1>9

-----------------------------------------------------------------------------
\* A restart empties the table, the channel and the hands of the workers, so
\* nothing is left to be lost; what was done before it stays done.
LEMMA RestartInv ==
  ASSUME IInv, Restart PROVE IInv'
<1> USE DEF IInv
<1>1. /\ restarts < MaxRestarts /\ restarts' = restarts + 1
      /\ taskCh' = <<>> /\ counter' = 0
      /\ id' = [u \in Uploads |-> 0]
      /\ pc' = [w \in Workers |-> "idle"]
      /\ task' = [w \in Workers |-> NoUpload]
      /\ attempt' = [w \in Workers |-> 0]
      /\ UNCHANGED <<disk, status, copies>>
  BY DEF Restart
<1>2. PICK W \in SUBSET {w \in Workers : pc[w] = "notify"} :
        late' = [n \in Names |-> late[n] + Cardinality({w \in W : Name(w) = n})]
  BY DEF Restart
<1>3. /\ request' \in [Uploads -> {"idle", "saving", "refused"} \cup Written]
      /\ \A u \in Uploads : /\ request'[u] # "sending" /\ request'[u] # "saved"
                            /\ request'[u] \in {"idle", "saving", "refused"} =>
                                request[u] \in {"idle", "saving", "refused", "saved"}
  BY DEF Restart, TypeOK, Written
<1>4. \A u \in Uploads : ~ Queued(u)'
  BY <1>1 DEF Queued
<1>5. ASSUME NEW n \in Names
      PROVE  /\ late'[n] \in Nat
             /\ late'[n] > 0 => \E v \in Namesakes(n) : status[v] = "done"
  <2> DEFINE S == {w \in W : Name(w) = n}
  <2>1. late'[n] = late[n] + Cardinality(S) /\ late[n] \in Nat
    BY <1>2 DEF TypeOK
  <2>2. S \subseteq Workers /\ IsFiniteSet(S)
    BY FS_Subset
  <2>3. Cardinality(S) \in Nat /\ (Cardinality(S) > 0 => S # {})
    BY <2>2, FS_CardinalityType, FS_EmptySet
  <2>4. \A w \in S : task[w] \in Namesakes(n) /\ status[task[w]] = "done"
    <3> SUFFICES ASSUME NEW w \in S PROVE task[w] \in Namesakes(n) /\ status[task[w]] = "done"
      OBVIOUS
    <3>1. w \in Workers /\ pc[w] = "notify" /\ Name(w) = n
      OBVIOUS
    <3>2. task[w] \in Uploads
      BY <3>1, Mine
    <3> QED BY <3>1, <3>2 DEF StatusInv, Name, Namesakes
  <2> HIDE DEF S
  <2> QED BY <2>1, <2>3, <2>4 DEF FileInv
<1>6. late' \in [Names -> Nat]
  <2>1. DOMAIN late' = Names /\ late' = [n \in Names |-> late'[n]]
    BY <1>2
  <2> QED BY <1>5, <2>1
<1>7. TypeOK'
  BY <1>1, <1>3, <1>6 DEF TypeOK, Reading
<1>8. OneOwner' /\ NoTaskLost' /\ HandedOver' /\ NumberInv'
  BY <1>1, <1>3, <1>4 DEF OneOwner, NoTaskLost, HandedOver, NumberInv, TypeOK, Queued
<1>9. StatusInv'
  <2>1. ASSUME NEW u \in Uploads
        PROVE  /\ request'[u] \in {"idle", "saving", "refused", "saved"} => status[u] = "none"
               /\ ~ (request'[u] = "sending" \/ Queued(u)')
    BY <1>3, <1>4 DEF StatusInv
  <2>2. \A w \in Workers : pc'[w] = "idle"
    BY <1>1
  <2> QED BY <1>1, <2>1, <2>2 DEF StatusInv
<1>10. \A n : Namesakes(n)' = Namesakes(n)
  BY DEF Namesakes
<1>11. FileInv' /\ IndexedAfterDone'
  BY <1>1, <1>5, <1>10 DEF FileInv, IndexedAfterDone
<1> QED BY <1>7, <1>8, <1>9, <1>11

\* Nothing happens.
LEMMA StutterInv ==
  ASSUME IInv, UNCHANGED vars PROVE IInv'
BY DEF IInv, vars, TypeOK, OneOwner, NoTaskLost, HandedOver, StatusInv, FileInv,
       IndexedAfterDone, NumberInv, Queued, Namesakes

-----------------------------------------------------------------------------
\* The invariant of every reachable state.
THEOREM Inductive == Spec => []IInv
<1>1. Init => IInv
  BY InitInv
<1>2. IInv /\ [Next]_vars => IInv'
  <2> SUFFICES ASSUME IInv, [Next]_vars PROVE IInv'
    OBVIOUS
  <2>1. ASSUME NEW u \in Uploads, Create(u) \/ Handle(u) PROVE IInv'
    BY <2>1, CreateInv, CopyInv, RegisterInv, SendInv DEF Handle
  <2>2. ASSUME NEW n \in Names, DeleteFile(n) \/ ServeLate(n) \/ RefuseLate(n)
        PROVE  IInv'
    BY <2>2, DeleteInv, LateInv
  <2>3. ASSUME NEW w \in Workers, Work(w) PROVE IInv'
    BY <2>3, ReceiveInv, SetProcessingInv, ReadFileInv, EndOfJobInv, NotifyInv DEF Work
  <2>4. ASSUME Restart PROVE IInv'
    BY <2>4, RestartInv
  <2>5. CASE UNCHANGED vars
    BY <2>5, StutterInv
  <2> QED BY <2>1, <2>2, <2>3, <2>4, <2>5 DEF Next
<1> QED BY <1>1, <1>2, PTL DEF Spec

\* Every variable keeps its type, and the channel its capacity.
THEOREM TypeCorrect == Spec => []TypeOK
BY Inductive, PTL DEF IInv

\* A job that Submit has registered is never lost on its way through the
\* handler, the channel and the workers.
THEOREM JobsAreNotLost == Spec => []NoTaskLost
BY Inductive, PTL DEF IInv

\* A job is never worked on by two workers, nor while it is in the channel.
THEOREM JobsHaveOneOwner == Spec => []OneOwner
BY Inductive, PTL DEF IInv

\* A page that polls is told of its own job, until a restart.
THEOREM JobsAreFound == Spec => []FoundByNumber
<1>1. IInv => FoundByNumber
  BY DEF IInv, NumberInv, FoundByNumber, getJob
<1> QED BY <1>1, Inductive, PTL

\* OnDone, and so the search service, only ever follows a job that is done.
THEOREM IndexingFollowsDone == Spec => []IndexedAfterDone
BY Inductive, PTL DEF IInv

-----------------------------------------------------------------------------
(* What bounds the copies in the index: the tries that are left.           *)

\* The tries of the workers that are notifying of n, each with its number.
TriesLeft(n) ==
  {p \in Workers \X (1..MaxAttempts) :
     pc[p[1]] = "notify" /\ Name(p[1]) = n /\ attempt[p[1]] <= p[2]}

BoundInv ==
  /\ \A w \in Workers : pc[w] = "notify" => attempt[w] # 0
  /\ \A n \in Names :
       /\ IsFiniteSet(Indexings(n)) /\ IsFiniteSet(Done(n))
       /\ late[n] + Cardinality(Indexings(n)) + Cardinality(TriesLeft(n))
            <= MaxAttempts * Cardinality(Done(n))

\* The sizes are numbers, before a step and after it.
LEMMA TriesFinite ==
  ASSUME NEW n
  PROVE  /\ IsFiniteSet(TriesLeft(n)) /\ Cardinality(TriesLeft(n)) \in Nat
         /\ IsFiniteSet(TriesLeft(n)') /\ Cardinality(TriesLeft(n)') \in Nat
<1>1. IsFiniteSet(1..MaxAttempts)
  BY FS_Interval
<1>2. IsFiniteSet(Workers \X (1..MaxAttempts))
  BY <1>1, FS_Product
<1>3. /\ TriesLeft(n) \in SUBSET (Workers \X (1..MaxAttempts))
      /\ TriesLeft(n)' \in SUBSET (Workers \X (1..MaxAttempts))
  BY DEF TriesLeft
<1> QED BY <1>2, <1>3, FS_Subset, FS_CardinalityType

\* ... and so are the others of the bound.
LEMMA BoundFacts ==
  ASSUME IInv, BoundInv, NEW n \in Names
  PROVE  /\ late[n] \in Nat /\ Cardinality(Indexings(n)) \in Nat /\ Cardinality(Done(n)) \in Nat
         /\ Cardinality(TriesLeft(n)) \in Nat /\ MaxAttempts * Cardinality(Done(n)) \in Nat
<1>1. late[n] \in Nat /\ IsFiniteSet(Indexings(n)) /\ IsFiniteSet(Done(n))
  BY DEF IInv, TypeOK, BoundInv
<1>2. Cardinality(Indexings(n)) \in Nat /\ Cardinality(Done(n)) \in Nat
  BY <1>1, FS_CardinalityType
<1> QED BY <1>1, <1>2, TriesFinite

\* The members of the two sets of pairs.
LEMMA InIndexings ==
  ASSUME NEW n, NEW p
  PROVE  p \in Indexings(n) <=>
           \E u \in Namesakes(n) : \E k \in 1..copies[u] : p = <<u, k>>
BY DEF Indexings

\* The index does not change.
LEMMA SameIndexings ==
  ASSUME UNCHANGED copies, NEW n PROVE Indexings(n)' = Indexings(n)
BY DEF Indexings, Namesakes

\* To index a content of n adds one element to the contents of n, none to others.
LEMMA IndexAdds ==
  ASSUME IInv, BoundInv, NEW n \in Names, Index(n)
  PROVE  /\ IsFiniteSet(Indexings(n)')
         /\ Cardinality(Indexings(n)') = Cardinality(Indexings(n)) + 1
         /\ \A m \in Names \ {n} : Indexings(m)' = Indexings(m)
<1>1. PICK u \in Readable(n) : copies' = [copies EXCEPT ![u] = @ + 1]
  BY DEF Index
<1>2. u \in Namesakes(n) /\ u \in Uploads /\ FileName[u] = n
  BY DEF Readable, IInv, FileInv, Namesakes
<1>3. PICK k \in Nat : k = copies[u]
  BY <1>2 DEF IInv, TypeOK
<1>4. copies'[u] = k + 1 /\ \A v \in Uploads \ {u} : copies'[v] = copies[v]
  BY <1>1, <1>2, <1>3 DEF IInv, TypeOK
<1>5. 1..(k + 1) = (1..k) \cup {k + 1} /\ k + 1 \notin 1..k
  OBVIOUS
<1>6. \A m : Namesakes(m)' = Namesakes(m) /\ Namesakes(m) \subseteq Uploads
  BY DEF Namesakes
<1>7. \A m \in Names \ {n} : Indexings(m)' = Indexings(m)
  <2> SUFFICES ASSUME NEW m \in Names \ {n} PROVE Indexings(m)' = Indexings(m)
    OBVIOUS
  <2>1. \A v \in Namesakes(m) : copies'[v] = copies[v]
    BY <1>2, <1>4 DEF Namesakes
  <2> QED BY <1>6, <2>1 DEF Indexings
<1>8. Indexings(n)' = Indexings(n) \cup {<<u, k + 1>>}
  <2>1. \A p : p \in Indexings(n)' <=> \E v \in Namesakes(n) : \E j \in 1..copies'[v] : p = <<v, j>>
    BY <1>6 DEF Indexings
  <2>2. \A p : p \in Indexings(n) <=> \E v \in Namesakes(n) : \E j \in 1..copies[v] : p = <<v, j>>
    BY InIndexings
  <2>3. ASSUME NEW p \in Indexings(n)' PROVE p \in Indexings(n) \cup {<<u, k + 1>>}
    <3>0. PICK v \in Namesakes(n) : \E j \in 1..copies'[v] : p = <<v, j>>
      BY <2>1, <2>3
    <3>1. PICK j \in 1..copies'[v] : p = <<v, j>>
      BY <3>0
    <3>2. CASE v = u
      BY <1>3, <1>4, <1>5, <2>2, <3>1, <3>2
    <3>3. CASE v # u
      BY <1>4, <1>6, <2>2, <3>1, <3>3
    <3> QED BY <3>2, <3>3
  <2>4. ASSUME NEW p \in Indexings(n) PROVE p \in Indexings(n)'
    <3>0. PICK v \in Namesakes(n) : \E j \in 1..copies[v] : p = <<v, j>>
      BY <2>2, <2>4
    <3>1. PICK j \in 1..copies[v] : p = <<v, j>>
      BY <3>0
    <3>2. j \in 1..copies'[v]
      BY <1>3, <1>4, <1>5, <1>6, <3>1
    <3> QED BY <2>1, <3>1, <3>2
  <2>5. <<u, k + 1>> \in Indexings(n)'
    <3>1. k + 1 \in 1..copies'[u]
      BY <1>4
    <3> QED BY <1>2, <2>1, <3>1
  <2> QED BY <2>3, <2>4, <2>5
<1>9. <<u, k + 1>> \notin Indexings(n)
  <2> SUFFICES ASSUME NEW v \in Namesakes(n), NEW j \in 1..copies[v], <<u, k + 1>> = <<v, j>>
               PROVE  FALSE
    BY InIndexings
  <2>1. k + 1 \in 1..k
    BY <1>3
  <2> QED BY <1>5, <2>1
<1>10. IsFiniteSet(Indexings(n))
  BY DEF BoundInv
<1>11. PICK I : I = Indexings(n)
  OBVIOUS
<1>12. IsFiniteSet(I \cup {<<u, k + 1>>}) /\ Cardinality(I \cup {<<u, k + 1>>}) = Cardinality(I) + 1
  BY ONLY <1>9, <1>10, <1>11, FS_AddElement
<1> QED BY ONLY <1>7, <1>8, <1>11, <1>12

\* A step that finishes no job and no try.
LEMMA SameBound ==
  ASSUME IInv, BoundInv, UNCHANGED <<late, copies>>,
         \A u \in Uploads : status'[u] = "done" <=> status[u] = "done",
         \A w \in Workers : pc'[w] = "notify" <=> pc[w] = "notify",
         \A w \in Workers : pc[w] = "notify" => task'[w] = task[w] /\ attempt'[w] = attempt[w]
  PROVE  BoundInv'
<1>1. \A n : Indexings(n)' = Indexings(n)
  BY SameIndexings
<1>2. \A n : Done(n)' = Done(n)
  BY DEF Done, Namesakes
<1>3. \A n : TriesLeft(n)' = TriesLeft(n)
  BY DEF TriesLeft, Name
<1> QED BY <1>1, <1>2, <1>3 DEF BoundInv

\* The job of a worker is done, and has MaxAttempts tries.
LEMMA FinishBound ==
  ASSUME IInv, BoundInv, NEW w \in Workers, Finish(w) PROVE BoundInv'
<1>0. PICK n : n = Name(w)
  OBVIOUS
<1>1. /\ pc[w] = "finish" /\ pc' = [pc EXCEPT ![w] = "notify"]
      /\ status' = [status EXCEPT ![task[w]] = "done"] /\ attempt' = [attempt EXCEPT ![w] = 1]
      /\ UNCHANGED <<task, late, copies>>
  BY DEF Finish, Goto
<1>2. task[w] \in Namesakes(n) /\ task[w] \in Uploads /\ n \in Names /\ status[task[w]] = "processing"
  BY <1>0, <1>1, Mine DEF IInv, StatusInv, Name, Namesakes
<1>3. /\ \A v \in Workers : pc'[v] = IF v = w THEN "notify" ELSE pc[v]
      /\ \A v \in Workers : attempt'[v] = IF v = w THEN 1 ELSE attempt[v]
      /\ \A u \in Uploads : status'[u] = IF u = task[w] THEN "done" ELSE status[u]
  BY <1>1, <1>2 DEF IInv, TypeOK
<1>4. \A m : Indexings(m)' = Indexings(m) /\ Namesakes(m)' = Namesakes(m) /\ Namesakes(m) \subseteq Uploads
  BY <1>1, SameIndexings DEF Namesakes
<1>5. \A v \in Workers : pc'[v] = "notify" => attempt'[v] # 0
  BY <1>3 DEF BoundInv
<1>6. ASSUME NEW m \in Names, m # n
      PROVE  Done(m)' = Done(m) /\ TriesLeft(m)' = TriesLeft(m)
  <2>1. Done(m)' = Done(m)
    BY <1>2, <1>3, <1>4, <1>6 DEF Done, Namesakes
  <2>2. \A v \in Workers : Name(v)' = Name(v) /\ (Name(v) = m => v # w)
    BY <1>0, <1>1, <1>6 DEF Name
  <2>3. TriesLeft(m)' = TriesLeft(m)
    BY <1>3, <2>2 DEF TriesLeft
  <2> QED BY <2>1, <2>3
<1>7. IsFiniteSet(Done(n)') /\ Cardinality(Done(n)') = Cardinality(Done(n)) + 1
  <2>2. Done(n)' = Done(n) \cup {task[w]} /\ task[w] \notin Done(n)
    BY <1>2, <1>3, <1>4 DEF Done
  <2>3. IsFiniteSet(Done(n))
    BY <1>2 DEF BoundInv
  <2> QED BY <2>2, <2>3, FS_AddElement
<1>8. Cardinality(TriesLeft(n)') = Cardinality(TriesLeft(n)) + MaxAttempts
  <2> DEFINE S == {w} \X (1..MaxAttempts)
  <2>1. \A v \in Workers : Name(v)' = Name(v)
    BY <1>1 DEF Name
  <2>3. TriesLeft(n)' = TriesLeft(n) \cup S /\ TriesLeft(n) \cap S = {}
    <3>1. \A p \in Workers \X (1..MaxAttempts) :
            p \in TriesLeft(n)' <=> p \in TriesLeft(n) \/ p[1] = w
      BY <1>0, <1>1, <1>3, <2>1 DEF TriesLeft
    <3>2. \A p \in TriesLeft(n) : p[1] # w
      BY <1>1 DEF TriesLeft
    <3>3. /\ TriesLeft(n)' \subseteq Workers \X (1..MaxAttempts)
          /\ TriesLeft(n) \subseteq Workers \X (1..MaxAttempts)
          /\ \A p \in Workers \X (1..MaxAttempts) : p \in S <=> p[1] = w
          /\ S \subseteq Workers \X (1..MaxAttempts)
      BY DEF TriesLeft
    <3> HIDE DEF S
    <3> QED BY <3>1, <3>2, <3>3
  <2>4. IsFiniteSet(S) /\ Cardinality(S) = MaxAttempts
    <3>1. IsFiniteSet(1..MaxAttempts) /\ Cardinality(1..MaxAttempts) = MaxAttempts
      BY FS_Interval
    <3>2. IsFiniteSet({w}) /\ Cardinality({w}) = 1
      BY FS_Singleton
    <3>3. IsFiniteSet(S) /\ Cardinality(S) = Cardinality({w}) * Cardinality(1..MaxAttempts)
      BY <3>1, <3>2, FS_Product
    <3> HIDE DEF S
    <3> QED BY <3>1, <3>2, <3>3
  <2>5. IsFiniteSet(TriesLeft(n)) /\ Cardinality(TriesLeft(n)) \in Nat
    BY TriesFinite
  <2>6. Cardinality(TriesLeft(n) \cup S) = Cardinality(TriesLeft(n)) + Cardinality(S) - Cardinality({})
    <3> HIDE DEF S
    <3> QED BY <2>3, <2>4, <2>5, FS_Union
  <2>7. Cardinality({}) = 0
    BY FS_EmptySet
  <2> HIDE DEF S
  <2> QED BY <2>3, <2>4, <2>5, <2>6, <2>7
<1>9. /\ IsFiniteSet(Indexings(n)') /\ IsFiniteSet(Done(n)')
      /\ late'[n] + Cardinality(Indexings(n)') + Cardinality(TriesLeft(n)')
           <= MaxAttempts * Cardinality(Done(n)')
  <2>1. /\ late[n] \in Nat /\ Cardinality(Indexings(n)) \in Nat /\ Cardinality(Done(n)) \in Nat
        /\ Cardinality(TriesLeft(n)) \in Nat /\ MaxAttempts * Cardinality(Done(n)) \in Nat
    BY <1>2, BoundFacts
  <2>2. /\ IsFiniteSet(Indexings(n))
        /\ late[n] + Cardinality(Indexings(n)) + Cardinality(TriesLeft(n))
             <= MaxAttempts * Cardinality(Done(n))
    BY <1>2 DEF BoundInv
  <2>3. MaxAttempts * (Cardinality(Done(n)) + 1) = MaxAttempts * Cardinality(Done(n)) + MaxAttempts
    BY <2>1
  <2>4. late' = late /\ Indexings(n)' = Indexings(n)
    BY <1>1, <1>4
  <2> QED BY <1>7, <1>8, <2>1, <2>2, <2>3, <2>4
<1> QED BY <1>1, <1>4, <1>5, <1>6, <1>9 DEF BoundInv

\* A notification that is answered or given up uses up one try, or all.
LEMMA TrySpent ==
  ASSUME IInv, BoundInv, NEW w \in Workers, pc[w] = "notify", NEW n, n = Name(w),
         \A v \in Workers : v # w => pc'[v] = pc[v] /\ task'[v] = task[v] /\ attempt'[v] = attempt[v],
         \/ pc'[w] = "notify" /\ task'[w] = task[w] /\ attempt'[w] = attempt[w] + 1
         \/ pc'[w] = "idle"
  PROVE  /\ \A v \in Workers : pc'[v] = "notify" => attempt'[v] # 0
         /\ \A m \in Names \ {n} : TriesLeft(m)' = TriesLeft(m)
         /\ Cardinality(TriesLeft(n)') + 1 <= Cardinality(TriesLeft(n))
<1>1. attempt[w] \in 1..MaxAttempts
  BY DEF IInv, TypeOK, BoundInv
<1>2. \A v \in Workers : v # w => Name(v)' = Name(v)
  BY DEF Name
<1>3. pc'[w] = "notify" => Name(w)' = n
  BY DEF Name
<1>4. \A v \in Workers : pc'[v] = "notify" => attempt'[v] # 0
  BY <1>1 DEF BoundInv
<1>5. ASSUME NEW m \in Names \ {n} PROVE TriesLeft(m)' = TriesLeft(m)
  BY <1>2, <1>3 DEF TriesLeft
<1>6. TriesLeft(n)' \subseteq TriesLeft(n) \ {<<w, attempt[w]>>}
  <2> SUFFICES ASSUME NEW v \in Workers, NEW k \in 1..MaxAttempts, <<v, k>> \in TriesLeft(n)'
               PROVE  <<v, k>> \in TriesLeft(n) /\ <<v, k>> # <<w, attempt[w]>>
    BY DEF TriesLeft
  <2>1. pc'[v] = "notify" /\ Name(v)' = n /\ attempt'[v] <= k
    BY DEF TriesLeft
  <2>2. CASE v # w
    BY <1>2, <2>1, <2>2 DEF TriesLeft
  <2>3. CASE v = w
    <3>1. attempt[w] + 1 <= k
      BY <2>1, <2>3
    <3>2. attempt[w] <= k /\ attempt[w] # k
      BY <1>1, <3>1
    <3> QED BY <2>3, <3>2 DEF TriesLeft
  <2> QED BY <2>2, <2>3
<1>7. <<w, attempt[w]>> \in TriesLeft(n)
  BY <1>1 DEF TriesLeft
<1>8. IsFiniteSet(TriesLeft(n)) /\ Cardinality(TriesLeft(n)) \in Nat
  BY TriesFinite
<1>9. PICK R : R = TriesLeft(n) \ {<<w, attempt[w]>>}
  OBVIOUS
<1>10. IsFiniteSet(R) /\ Cardinality(R) = Cardinality(TriesLeft(n)) - 1
  BY <1>7, <1>8, <1>9, FS_RemoveElement
<1>11. Cardinality(TriesLeft(n)') <= Cardinality(R) /\ Cardinality(TriesLeft(n)') \in Nat
  <2>1. TriesLeft(n)' \in SUBSET R
    BY <1>6, <1>9
  <2> QED BY <1>10, <2>1, FS_Subset, FS_CardinalityType
<1>12. Cardinality(TriesLeft(n)') + 1 <= Cardinality(TriesLeft(n))
  BY <1>8, <1>10, <1>11
<1> QED BY <1>4, <1>5, <1>12

\* The bound is kept when a try or a late notification is used for each copy.
LEMMA Balance ==
  ASSUME IInv, BoundInv, IInv', NEW n \in Names, UNCHANGED status,
         \A w \in Workers : pc'[w] = "notify" => attempt'[w] # 0,
         \A m \in Names \ {n} : /\ late'[m] = late[m] /\ TriesLeft(m)' = TriesLeft(m)
                                /\ Indexings(m)' = Indexings(m),
         IsFiniteSet(Indexings(n)'),
         late'[n] + Cardinality(Indexings(n)') + Cardinality(TriesLeft(n)')
           <= late[n] + Cardinality(Indexings(n)) + Cardinality(TriesLeft(n))
  PROVE  BoundInv'
<1>1. \A m : Done(m)' = Done(m)
  BY DEF Done, Namesakes
<1>2. late'[n] \in Nat /\ Cardinality(Indexings(n)') \in Nat /\ Cardinality(TriesLeft(n)') \in Nat
  <2>1. Cardinality(Indexings(n)') \in Nat
    BY FS_CardinalityType
  <2>2. Cardinality(TriesLeft(n)') \in Nat
    BY TriesFinite
  <2> QED BY <2>1, <2>2 DEF IInv, TypeOK
<1>3. late'[n] + Cardinality(Indexings(n)') + Cardinality(TriesLeft(n)')
        <= MaxAttempts * Cardinality(Done(n)')
  <2>1. /\ late[n] \in Nat /\ Cardinality(Indexings(n)) \in Nat
        /\ Cardinality(TriesLeft(n)) \in Nat /\ MaxAttempts * Cardinality(Done(n)) \in Nat
    BY BoundFacts
  <2>2. late[n] + Cardinality(Indexings(n)) + Cardinality(TriesLeft(n))
          <= MaxAttempts * Cardinality(Done(n))
    BY DEF BoundInv
  <2> QED BY <1>1, <1>2, <2>1, <2>2
<1> QED BY <1>1, <1>3 DEF BoundInv

\* An answer, a failure or a timeout.
LEMMA NotifyBound ==
  ASSUME IInv, BoundInv, IInv', NEW w \in Workers,
         NotifyOK(w) \/ NotifyFails(w) \/ NotifyTimesOut(w)
  PROVE  BoundInv'
<1>0. PICK n : n = Name(w)
  OBVIOUS
<1>1. pc[w] = "notify" /\ UNCHANGED status
  BY DEF NotifyOK, NotifyFails, NotifyTimesOut, Goto
<1>2. n \in Names
  BY <1>0, <1>1, Mine
<1>3. /\ \A v \in Workers : v # w => pc'[v] = pc[v] /\ task'[v] = task[v] /\ attempt'[v] = attempt[v]
      /\ \/ pc'[w] = "notify" /\ task'[w] = task[w] /\ attempt'[w] = attempt[w] + 1
         \/ pc'[w] = "idle"
  <2>1. CASE NotifyOK(w)
    BY <2>1 DEF IInv, NotifyOK, Goto, Rest, TypeOK
  <2>2. CASE RetryOrGiveUp(w)
    <3>1. CASE attempt' = [attempt EXCEPT ![w] = @ + 1] /\ UNCHANGED <<pc, task>>
      BY <1>1, <3>1 DEF IInv, TypeOK
    <3>2. CASE pc' = [pc EXCEPT ![w] = "idle"] /\ Rest(w)
      BY <3>2 DEF IInv, TypeOK, Rest
    <3> QED BY <2>2, <3>1, <3>2 DEF RetryOrGiveUp
  <2> QED BY <2>1, <2>2 DEF NotifyFails, NotifyTimesOut
<1>4. /\ \A v \in Workers : pc'[v] = "notify" => attempt'[v] # 0
      /\ \A m \in Names \ {n} : TriesLeft(m)' = TriesLeft(m)
      /\ Cardinality(TriesLeft(n)') + 1 <= Cardinality(TriesLeft(n))
  BY <1>0, <1>1, <1>3, TrySpent
<1>5. /\ \A m \in Names \ {n} : late'[m] = late[m] /\ Indexings(m)' = Indexings(m)
      /\ IsFiniteSet(Indexings(n)')
      /\ late'[n] + Cardinality(Indexings(n)') = late[n] + Cardinality(Indexings(n)) \/
         late'[n] + Cardinality(Indexings(n)') = late[n] + Cardinality(Indexings(n)) + 1
  <2>0. late[n] \in Nat /\ Cardinality(Indexings(n)) \in Nat /\ IsFiniteSet(Indexings(n))
    BY <1>2, BoundFacts DEF BoundInv
  <2>1. CASE NotifyOK(w)
    <3>1. Index(n) /\ late' = late
      BY <1>0, <2>1 DEF NotifyOK
    <3>2. /\ IsFiniteSet(Indexings(n)')
          /\ Cardinality(Indexings(n)') = Cardinality(Indexings(n)) + 1
          /\ \A m \in Names \ {n} : Indexings(m)' = Indexings(m)
      BY <1>2, <3>1, IndexAdds
    <3> QED BY <2>0, <3>1, <3>2
  <2>2. CASE NotifyFails(w)
    <3>1. late' = late /\ \A m : Indexings(m)' = Indexings(m)
      BY <2>2, SameIndexings DEF NotifyFails
    <3> QED BY <2>0, <3>1
  <2>3. CASE NotifyTimesOut(w)
    <3>1. \A m : Indexings(m)' = Indexings(m)
      BY <2>3, SameIndexings DEF NotifyTimesOut
    <3>2. late'[n] = late[n] + 1 /\ \A m \in Names \ {n} : late'[m] = late[m]
      BY <1>0, <1>2, <2>3 DEF NotifyTimesOut, IInv, TypeOK
    <3> QED BY <2>0, <3>1, <3>2
  <2> QED BY <2>1, <2>2, <2>3
<1>6. /\ late[n] \in Nat /\ Cardinality(Indexings(n)) \in Nat /\ Cardinality(TriesLeft(n)) \in Nat
      /\ late'[n] \in Nat /\ Cardinality(Indexings(n)') \in Nat
  BY <1>2, <1>5, BoundFacts, FS_CardinalityType DEF IInv, TypeOK
<1>7. Cardinality(TriesLeft(n)') \in Nat
  BY TriesFinite
<1>8. late'[n] + Cardinality(Indexings(n)') + Cardinality(TriesLeft(n)')
        <= late[n] + Cardinality(Indexings(n)) + Cardinality(TriesLeft(n))
  BY <1>4, <1>5, <1>6, <1>7
<1> QED BY <1>1, <1>2, <1>4, <1>5, <1>8, Balance

\* A notification that nobody waits for is served or refused.
LEMMA LateBound ==
  ASSUME IInv, BoundInv, IInv', NEW n \in Names, ServeLate(n) \/ RefuseLate(n)
  PROVE  BoundInv'
<1>1. /\ late[n] > 0 /\ late' = [late EXCEPT ![n] = @ - 1]
      /\ UNCHANGED <<status, pc, task, attempt>>
  BY DEF ServeLate, RefuseLate
<1>2. \A m : TriesLeft(m)' = TriesLeft(m)
  BY <1>1 DEF TriesLeft, Name
<1>3. late'[n] = late[n] - 1 /\ \A m \in Names \ {n} : late'[m] = late[m]
  BY <1>1 DEF IInv, TypeOK
<1>4. /\ late[n] \in Nat /\ Cardinality(Indexings(n)) \in Nat /\ Cardinality(TriesLeft(n)) \in Nat
      /\ IsFiniteSet(Indexings(n))
  BY BoundFacts DEF BoundInv
<1>5. /\ \A m \in Names \ {n} : Indexings(m)' = Indexings(m)
      /\ IsFiniteSet(Indexings(n)')
      /\ Cardinality(Indexings(n)') \in {Cardinality(Indexings(n)), Cardinality(Indexings(n)) + 1}
  <2>1. CASE ServeLate(n)
    BY <2>1, IndexAdds DEF ServeLate
  <2>2. CASE RefuseLate(n)
    <3>1. \A m : Indexings(m)' = Indexings(m)
      BY <2>2, SameIndexings DEF RefuseLate
    <3> QED BY <1>4, <3>1
  <2> QED BY <2>1, <2>2
<1>6. late'[n] + Cardinality(Indexings(n)') + Cardinality(TriesLeft(n)')
        <= late[n] + Cardinality(Indexings(n)) + Cardinality(TriesLeft(n))
  BY <1>1, <1>2, <1>3, <1>4, <1>5
<1>7. \A w \in Workers : pc'[w] = "notify" => attempt'[w] # 0
  BY <1>1 DEF BoundInv
<1> QED BY <1>1, <1>2, <1>3, <1>5, <1>6, <1>7, Balance

\* A restart turns one try at most of each worker into a late notification.
LEMMA RestartBound ==
  ASSUME IInv, BoundInv, IInv', Restart PROVE BoundInv'
<1>1. pc' = [w \in Workers |-> "idle"] /\ UNCHANGED <<status, copies>>
  BY DEF Restart
<1>2. PICK W \in SUBSET {w \in Workers : pc[w] = "notify"} :
        late' = [n \in Names |-> late[n] + Cardinality({w \in W : Name(w) = n})]
  BY DEF Restart
<1>3. \A w \in Workers : pc'[w] # "notify"
  BY <1>1
<1>4. \A n : Done(n)' = Done(n) /\ Indexings(n)' = Indexings(n)
  BY <1>1, SameIndexings DEF Done, Namesakes
<1>5. \A n : TriesLeft(n)' = {}
  BY <1>3 DEF TriesLeft
<1>6. ASSUME NEW n \in Names
      PROVE  late'[n] + Cardinality(Indexings(n)) + 0 <= MaxAttempts * Cardinality(Done(n))
  <2> DEFINE S == {w \in W : Name(w) = n}
  <2>1. late'[n] = late[n] + Cardinality(S)
    BY <1>2
  <2>2. Cardinality(S) \in Nat /\ Cardinality(S) <= Cardinality(TriesLeft(n))
    <3>1. \A w \in S : <<w, attempt[w]>> \in TriesLeft(n)
      <4> SUFFICES ASSUME NEW w \in S PROVE <<w, attempt[w]>> \in TriesLeft(n)
        OBVIOUS
      <4>1. w \in Workers /\ pc[w] = "notify" /\ Name(w) = n
        OBVIOUS
      <4>2. attempt[w] \in 1..MaxAttempts
        BY <4>1 DEF IInv, TypeOK, BoundInv
      <4> QED BY <4>1, <4>2 DEF TriesLeft
    <3> DEFINE f == [w \in S |-> <<w, attempt[w]>>]
    <3>2. f \in [S -> TriesLeft(n)] /\ \A v, w \in S : f[v] = f[w] => v = w
      BY <3>1
    <3> HIDE DEF S, f
    <3>3. f \in Injection(S, TriesLeft(n))
      BY <3>2 DEF Injection, IsInjective
    <3>4. IsFiniteSet(TriesLeft(n))
      BY TriesFinite
    <3> QED BY <3>3, <3>4, FS_Injection, FS_CardinalityType
  <2>3. /\ late[n] \in Nat /\ Cardinality(Indexings(n)) \in Nat
        /\ Cardinality(TriesLeft(n)) \in Nat /\ MaxAttempts * Cardinality(Done(n)) \in Nat
    BY BoundFacts
  <2>4. late[n] + Cardinality(Indexings(n)) + Cardinality(TriesLeft(n))
          <= MaxAttempts * Cardinality(Done(n))
    BY DEF BoundInv
  <2> HIDE DEF S
  <2> QED BY <2>1, <2>2, <2>3, <2>4
<1>7. Cardinality({}) = 0
  BY FS_EmptySet
<1> QED BY <1>3, <1>4, <1>5, <1>6, <1>7 DEF BoundInv

\* Nothing is done, and nothing indexed, in the beginning.
LEMMA InitBound == Init => BoundInv
<1> SUFFICES ASSUME Init PROVE BoundInv
  OBVIOUS
<1>1. \A w \in Workers : pc[w] # "notify"
  BY DEF Init
<1>2. ASSUME NEW n \in Names
      PROVE  Indexings(n) = {} /\ Done(n) = {} /\ TriesLeft(n) = {} /\ late[n] = 0
  <2>1. \A u \in Namesakes(n) : copies[u] = 0 /\ status[u] # "done"
    BY DEF Init, Namesakes
  <2>2. \A u \in Namesakes(n) : 1..copies[u] = {}
    BY <2>1
  <2>3. Indexings(n) = {}
    BY <2>2 DEF Indexings
  <2> QED BY <1>1, <2>1, <2>3 DEF Init, Done, TriesLeft
<1>3. IsFiniteSet({}) /\ Cardinality({}) = 0 /\ MaxAttempts * 0 = 0
  BY FS_EmptySet
<1>4. ASSUME NEW n \in Names
      PROVE  /\ IsFiniteSet(Indexings(n)) /\ IsFiniteSet(Done(n))
             /\ late[n] + Cardinality(Indexings(n)) + Cardinality(TriesLeft(n))
                  <= MaxAttempts * Cardinality(Done(n))
  BY <1>2, <1>3
<1> QED BY <1>1, <1>4 DEF BoundInv

\* Every step keeps the bound.
LEMMA NextBound ==
  ASSUME IInv, BoundInv, IInv', [Next]_vars PROVE BoundInv'
<1>1. ASSUME NEW u \in Uploads, Create(u) \/ Handle(u) PROVE BoundInv'
  <2>1. UNCHANGED <<late, copies, pc, task, attempt>>
    BY <1>1 DEF Create, Handle, Copy, Register, Send
  <2>2. \A v \in Uploads : status'[v] = "done" <=> status[v] = "done"
    <3>1. CASE Register(u)
      <4>1. status[u] # "done" /\ status' = [status EXCEPT ![u] = "pending"]
        BY <3>1 DEF Register, IInv, StatusInv
      <4> QED BY <4>1 DEF IInv, TypeOK
    <3>2. CASE ~ Register(u)
      BY <1>1, <3>2 DEF Create, Handle, Copy, Send
    <3> QED BY <3>1, <3>2
  <2> QED BY <2>1, <2>2, SameBound
<1>2. ASSUME NEW n \in Names, DeleteFile(n) PROVE BoundInv'
  BY <1>2, SameBound DEF DeleteFile
<1>3. ASSUME NEW w \in Workers, Receive(w) \/ SetProcessing(w) \/ ReadFile(w) \/ Fail(w)
      PROVE  BoundInv'
  <2>1. /\ pc[w] # "notify" /\ pc'[w] # "notify" /\ UNCHANGED <<late, copies>>
        /\ \A v \in Workers : v # w => pc'[v] = pc[v] /\ task'[v] = task[v] /\ attempt'[v] = attempt[v]
    BY <1>3 DEF Receive, SetProcessing, ReadFile, Fail, Goto, Rest, IInv, TypeOK
  <2>2. \A v \in Uploads : status'[v] = "done" <=> status[v] = "done"
    <3>1. CASE SetProcessing(w)
      <4>1. status[task[w]] # "done" /\ status' = [status EXCEPT ![task[w]] = "processing"]
        BY <3>1 DEF SetProcessing, Goto, IInv, StatusInv
      <4> QED BY <4>1 DEF IInv, TypeOK
    <3>2. CASE Fail(w)
      <4>1. status[task[w]] # "done" /\ status' = [status EXCEPT ![task[w]] = "failed"]
        BY <3>2 DEF Fail, Goto, IInv, StatusInv
      <4> QED BY <4>1 DEF IInv, TypeOK
    <3>3. CASE Receive(w) \/ ReadFile(w)
      BY <3>3 DEF Receive, ReadFile
    <3> QED BY <1>3, <3>1, <3>2, <3>3
  <2> QED BY <2>1, <2>2, SameBound
<1>4. ASSUME NEW w \in Workers, Work(w) PROVE BoundInv'
  BY <1>3, <1>4, FinishBound, NotifyBound DEF Work
<1>5. CASE UNCHANGED vars
  BY <1>5, SameBound DEF vars
<1> QED BY <1>1, <1>2, <1>4, <1>5, LateBound, RestartBound DEF Next

\* Whatever is retried, late or overwritten: the contents of a name are indexed no
\* more often than its jobs that are done have tries.
THEOREM DuplicatesAreBounded == Spec => []DuplicatesBounded
<1>1. Init => BoundInv
  BY InitBound
<1>2. IInv /\ BoundInv /\ [Next]_vars /\ IInv' => BoundInv'
  BY NextBound
<1>3. IInv /\ BoundInv => DuplicatesBounded
  <2> SUFFICES ASSUME IInv, BoundInv, NEW n \in Names
               PROVE  late[n] + Cardinality(Indexings(n)) <= MaxAttempts * Cardinality(Done(n))
    BY DEF DuplicatesBounded
  <2>1. /\ late[n] \in Nat /\ Cardinality(Indexings(n)) \in Nat
        /\ Cardinality(TriesLeft(n)) \in Nat /\ MaxAttempts * Cardinality(Done(n)) \in Nat
    BY BoundFacts
  <2>2. late[n] + Cardinality(Indexings(n)) + Cardinality(TriesLeft(n))
          <= MaxAttempts * Cardinality(Done(n))
    BY DEF BoundInv
  <2> QED BY <2>1, <2>2
<1> QED BY <1>1, <1>2, <1>3, Inductive, PTL DEF Spec
=============================================================================
