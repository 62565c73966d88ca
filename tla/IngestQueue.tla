---------------------------- MODULE IngestQueue ----------------------------
(***************************************************************************)
(* The ingest service: upload and delete handlers (api/handler.go), the job*)
(* table, task channel and worker pool (worker/queue.go), and the retried  *)
(* notification of the search service, which is outside this module and    *)
(* may answer, fail, or index the file after the caller has given up.      *)
(*                                                                         *)
(* An upload request carries a file name and a content; it creates one     *)
(* job, so a job is named by its upload.  Saving overwrites a file of the  *)
(* same name: what a worker or the search service reads later may be the   *)
(* content of another upload.  The page that sent it polls for its job by  *)
(* number.  The table, the channel and the numbers are in memory only: a   *)
(* restart leaves the files, and the notifications on their way.           *)
(***************************************************************************)
EXTENDS Naturals, Sequences, FiniteSets

CONSTANTS
  Uploads,      \* POST /upload requests that pass the PAR1 check
  FileName,     \* FileName[u]: what ensureParquetExt makes of its name
  Corrupt,      \* uploads whose content readParquetFile rejects
  Workers,      \* worker goroutines (4 in main)
  QueueCap,     \* capacity of taskCh (100)
  MaxAttempts,  \* tries of notifySearchService (3)
  MaxRestarts,  \* bound: restarts of the service
  NoUpload

ASSUME CapOK  == QueueCap \in Nat \ {0} /\ MaxAttempts \in Nat \ {0}
ASSUME NameOK == NoUpload \notin Uploads /\ Corrupt \subseteq Uploads
ASSUME RestartsOK == MaxRestarts \in Nat /\ IsFiniteSet(Workers)

Names == {FileName[u] : u \in Uploads}

VARIABLES
  request,    \* where the handler of an upload is
  disk,       \* disk[n]: the uploads that wrote the file n, {} if there is none
  status,     \* Job.Status, "none" before the job exists
  taskCh,     \* the buffered channel
  pc, task,   \* of each worker
  attempt,    \* of each worker: the notification it is trying
  late,       \* late[n]: notifications of n nobody waits for any longer
  copies,     \* copies[u]: times the search service has indexed u's content
  id,         \* id[u]: the number of u's job in the table, 0 if it is not there
  counter,    \* the last number given out
  restarts

table == <<id, counter>>
vars  == <<request, disk, status, taskCh, pc, task, attempt, late, copies,
           table, restarts>>

\* The job table.
jobs == {u \in Uploads : id[u] # 0}

\* What GetJob finds under a number, for a page that polls for it.
getJob(n) == {u \in jobs : id[u] = n}

Queued(u) == \E i \in DOMAIN taskCh : taskCh[i] = u

Init ==
  /\ request = [u \in Uploads |-> "idle"]
  /\ disk = [n \in Names |-> {}]
  /\ status = [u \in Uploads |-> "none"]
  /\ taskCh = <<>>
  /\ pc = [w \in Workers |-> "idle"]
  /\ task = [w \in Workers |-> NoUpload]
  /\ attempt = [w \in Workers |-> 0]
  /\ late = [n \in Names |-> 0]
  /\ copies = [u \in Uploads |-> 0]
  /\ id = [u \in Uploads |-> 0] /\ counter = 0
  /\ restarts = 0

-----------------------------------------------------------------------------
(* Handlers.                                                               *)

\* SaveUploadedFile creates or truncates the file, then copies into it.  Saves
\* of one name that overlap write to the same file.
Create(u) ==
  /\ request[u] = "idle"
  /\ request' = [request EXCEPT ![u] = "saving"]
  /\ disk' = [disk EXCEPT ![FileName[u]] = {u} \cup {v \in @ : request[v] = "saving"}]
  /\ UNCHANGED <<status, taskCh, pc, task, attempt, late, copies, table, restarts>>

\* The copy is complete, or fails: 500, and what was written stays.
Copy(u) ==
  /\ request[u] = "saving"
  /\ \E r \in {"saved", "refused"} : request' = [request EXCEPT ![u] = r]
  /\ UNCHANGED <<disk, status, taskCh, pc, task, attempt, late, copies, table, restarts>>

\* Submit takes the next number, by an atomic addition, and then enters the job in
\* the table under mu.  They are one: nobody looks for a number not yet in the table.
\* (fault: the counter is read and written, and an increment between is lost)
RegisterRacy(u) ==
  /\ request[u] = "saved"
  /\ request' = [request EXCEPT ![u] = "sending"]
  /\ status' = [status EXCEPT ![u] = "pending"]
  /\ id' = [id EXCEPT ![u] = counter + 1]
  /\ counter' = IF \E v \in Uploads \ {u} : request[v] = "saved" THEN counter ELSE counter + 1
  /\ UNCHANGED <<disk, taskCh, pc, task, attempt, late, copies, restarts>>
Register(u) ==
  /\ request[u] = "saved"
  /\ request' = [request EXCEPT ![u] = "sending"]
  /\ status' = [status EXCEPT ![u] = "pending"]
  /\ id' = [id EXCEPT ![u] = counter + 1]
  /\ counter' = counter + 1
  /\ UNCHANGED <<disk, taskCh, pc, task, attempt, late, copies, restarts>>

\* (fault: a select with a default drops the task of a full queue)
SendOrDrop(u) ==
  /\ request[u] = "sending"
  /\ request' = [request EXCEPT ![u] = "accepted"]
  /\ taskCh' = IF Len(taskCh) < QueueCap THEN Append(taskCh, u) ELSE taskCh
  /\ UNCHANGED <<disk, status, pc, task, attempt, late, copies, table, restarts>>

\* The send blocks while the channel is full; the handler then answers 202.
Send(u) ==
  /\ request[u] = "sending"
  /\ Len(taskCh) < QueueCap
  /\ request' = [request EXCEPT ![u] = "accepted"]
  /\ taskCh' = Append(taskCh, u)
  /\ UNCHANGED <<disk, status, pc, task, attempt, late, copies, table, restarts>>

\* os.Remove; neither the job table nor the search service hears of it.
DeleteFile(n) ==
  /\ disk[n] # {}
  /\ disk' = [disk EXCEPT ![n] = {}]
  /\ UNCHANGED <<request, status, taskCh, pc, task, attempt, late, copies, table, restarts>>

-----------------------------------------------------------------------------
(* Workers.                                                                *)

Goto(w, from, to) == pc[w] = from /\ pc' = [pc EXCEPT ![w] = to]

\* (fault: the task stays in the channel)
Peek(w) ==
  /\ taskCh # <<>>
  /\ Goto(w, "idle", "start")
  /\ task' = [task EXCEPT ![w] = Head(taskCh)]
  /\ UNCHANGED <<request, disk, status, taskCh, attempt, late, copies, table, restarts>>

Receive(w) ==
  /\ taskCh # <<>>
  /\ Goto(w, "idle", "start")
  /\ task' = [task EXCEPT ![w] = Head(taskCh)]
  /\ taskCh' = Tail(taskCh)
  /\ UNCHANGED <<request, disk, status, attempt, late, copies, table, restarts>>

SetProcessing(w) ==
  /\ Goto(w, "start", "read")
  /\ status' = [status EXCEPT ![task[w]] = "processing"]
  /\ UNCHANGED <<request, disk, taskCh, task, attempt, late, copies, table, restarts>>

Name(w) == FileName[task[w]]

Written == {"saved", "sending", "accepted", "lost"}

\* What readers can make of a file: a content that was written to the end, or
\* an error if it is absent, corrupt or incomplete.  Overlapping saves may have
\* left either.
Readable(n)   == {u \in disk[n] \ Corrupt : request[u] \in Written}
Unreadable(n) == Cardinality(Readable(n)) # 1 \/ Readable(n) # disk[n]

\* readParquetFile.
ReadFile(w) ==
  /\ pc[w] = "read"
  /\ \/ Readable(Name(w)) # {} /\ Goto(w, "read", "finish")
     \/ Unreadable(Name(w)) /\ Goto(w, "read", "fail")
  /\ UNCHANGED <<request, disk, status, taskCh, task, attempt, late, copies, table, restarts>>

Rest(w) == /\ task' = [task EXCEPT ![w] = NoUpload]
           /\ attempt' = [attempt EXCEPT ![w] = 0]

\* (fault: the worker's loop ends with the failed task)
FailAndExit(w) ==
  /\ Goto(w, "fail", "exited")
  /\ status' = [status EXCEPT ![task[w]] = "failed"]
  /\ Rest(w)
  /\ UNCHANGED <<request, disk, taskCh, late, copies, table, restarts>>

Fail(w) ==
  /\ Goto(w, "fail", "idle")
  /\ status' = [status EXCEPT ![task[w]] = "failed"]
  /\ Rest(w)
  /\ UNCHANGED <<request, disk, taskCh, late, copies, table, restarts>>

\* (fault: OnDone is called first)
FinishLate(w) ==
  /\ Goto(w, "finish", "notify")
  /\ attempt' = [attempt EXCEPT ![w] = 1]
  /\ UNCHANGED <<request, disk, status, taskCh, task, late, copies, table, restarts>>

\* The job is done before the search service has heard of the file.
Finish(w) ==
  /\ Goto(w, "finish", "notify")
  /\ status' = [status EXCEPT ![task[w]] = "done"]
  /\ attempt' = [attempt EXCEPT ![w] = 1]
  /\ UNCHANGED <<request, disk, taskCh, task, late, copies, table, restarts>>

\* What an ingest-notify for name n does: the search service reads the file
\* when it serves the request, adds its documents to those it has, and
\* refuses a missing or unreadable file (422).
Index(n) == \E u \in Readable(n) : copies' = [copies EXCEPT ![u] = @ + 1]

\* (fault: one attempt more than there are)
RetryOnceMore(w) ==
  \/ /\ attempt[w] <= MaxAttempts
     /\ attempt' = [attempt EXCEPT ![w] = @ + 1]
     /\ UNCHANGED <<pc, task>>
  \/ /\ attempt[w] > MaxAttempts
     /\ pc' = [pc EXCEPT ![w] = "idle"]
     /\ Rest(w)

\* The next attempt, or none.
RetryOrGiveUp(w) ==
  \/ /\ attempt[w] < MaxAttempts
     /\ attempt' = [attempt EXCEPT ![w] = @ + 1]
     /\ UNCHANGED <<pc, task>>
  \/ /\ attempt[w] >= MaxAttempts
     /\ pc' = [pc EXCEPT ![w] = "idle"]
     /\ Rest(w)

\* 200.
NotifyOK(w) ==
  /\ Goto(w, "notify", "idle")
  /\ Index(Name(w))
  /\ Rest(w)
  /\ UNCHANGED <<request, disk, status, taskCh, late, table, restarts>>

\* An error status, or the service was not reached.
NotifyFails(w) ==
  /\ pc[w] = "notify"
  /\ RetryOrGiveUp(w)
  /\ UNCHANGED <<request, disk, status, taskCh, late, copies, table, restarts>>

\* The client's timeout expires, the request is still being served.
NotifyTimesOut(w) ==
  /\ pc[w] = "notify"
  /\ RetryOrGiveUp(w)
  /\ late' = [late EXCEPT ![Name(w)] = @ + 1]
  /\ UNCHANGED <<request, disk, status, taskCh, copies, table, restarts>>

ServeLate(n) ==
  /\ late[n] > 0
  /\ Index(n)
  /\ late' = [late EXCEPT ![n] = @ - 1]
  /\ UNCHANGED <<request, disk, status, taskCh, pc, task, attempt, table, restarts>>

RefuseLate(n) ==
  /\ late[n] > 0
  /\ Unreadable(n)
  /\ late' = [late EXCEPT ![n] = @ - 1]
  /\ UNCHANGED <<request, disk, status, taskCh, pc, task, attempt, copies, table, restarts>>

-----------------------------------------------------------------------------
(* The process.                                                            *)

\* The process ends and starts again.  Files stay as they are, requests break
\* off, and of the notifications under way some are served all the same.
Restart ==
  /\ restarts < MaxRestarts /\ restarts' = restarts + 1
  /\ request' = [u \in Uploads |-> CASE request[u] = "saving" -> "refused"
                                    [] request[u] \in {"saved", "sending"} -> "lost"
                                    [] OTHER -> request[u]]
  /\ taskCh' = <<>>
  /\ id' = [u \in Uploads |-> 0] /\ counter' = 0
  /\ pc' = [w \in Workers |-> "idle"]
  /\ task' = [w \in Workers |-> NoUpload]
  /\ attempt' = [w \in Workers |-> 0]
  /\ \E W \in SUBSET {w \in Workers : pc[w] = "notify"} :
       late' = [n \in Names |-> late[n] + Cardinality({w \in W : Name(w) = n})]
  /\ UNCHANGED <<disk, status, copies>>

-----------------------------------------------------------------------------
Handle(u) == Copy(u) \/ Register(u) \/ Send(u)
Work(w)   == \/ Receive(w) \/ SetProcessing(w) \/ ReadFile(w) \/ Fail(w)
             \/ Finish(w) \/ NotifyOK(w) \/ NotifyFails(w) \/ NotifyTimesOut(w)

Next == \/ \E u \in Uploads : Create(u) \/ Handle(u)
        \/ \E n \in Names : DeleteFile(n) \/ ServeLate(n) \/ RefuseLate(n)
        \/ \E w \in Workers : Work(w)
        \/ Restart

Spec == Init /\ [][Next]_vars

\* Goroutines that can go on do: some handler, and some worker.  An upload has
\* finitely many steps, so nobody need be fair to each of them.
Fairness == WF_vars(\E u \in Uploads : Handle(u)) /\ WF_vars(\E w \in Workers : Work(w))
FairSpec == Spec /\ Fairness
-----------------------------------------------------------------------------
Namesakes(n) == {u \in Uploads : FileName[u] = n}
Unfinished == {"pending", "processing"}
Reading    == {"start", "read", "fail", "finish"}

TypeOK ==
  /\ request \in [Uploads -> {"idle", "saving", "refused"} \cup Written]
  /\ disk \in [Names -> SUBSET Uploads]
  /\ status \in [Uploads -> {"none", "done", "failed"} \cup Unfinished]
  /\ taskCh \in Seq(Uploads) /\ Len(taskCh) <= QueueCap
  /\ pc \in [Workers -> {"idle", "notify"} \cup Reading]
  /\ task \in [Workers -> Uploads \cup {NoUpload}]
  /\ \A w \in Workers : pc[w] # "idle" => task[w] # NoUpload
  /\ attempt \in [Workers -> 0..MaxAttempts]
  /\ late \in [Names -> Nat] /\ copies \in [Uploads -> Nat]
  /\ id \in [Uploads -> Nat] /\ counter \in Nat
  /\ restarts \in 0..MaxRestarts

\* No job is orphaned, but by a restart: one of the table that is pending or
\* processing is still held by its handler, by the channel, or by a worker that
\* has not yet finished it.
NoTaskLost ==
  \A u \in jobs : status[u] \in Unfinished =>
    \/ request[u] = "sending"
    \/ Queued(u)
    \/ \E w \in Workers : pc[w] \in Reading /\ task[w] = u

\* No job is in two hands: two workers never hold the same one, and none is
\* worked on while it is queued or being sent, or queued twice.
OneOwner ==
  \A u \in Uploads :
    /\ \A v, w \in Workers : task[v] = u /\ task[w] = u => v = w
    /\ \A i, j \in DOMAIN taskCh : taskCh[i] = u /\ taskCh[j] = u => i = j
    /\ request[u] = "sending" => ~Queued(u) /\ \A w \in Workers : task[w] # u
    /\ Queued(u) => \A w \in Workers : task[w] # u

\* Whatever the search service indexes, late or not, went under a name that
\* some worker had read and reported done before.
IndexedAfterDone ==
  \A u \in Uploads : copies[u] > 0 =>
    \E v \in Namesakes(FileName[u]) : status[v] = "done"

\* The contents of n in the index, one element for each time that one was indexed.
Indexings(n) == UNION {{u} \X (1..copies[u]) : u \in Namesakes(n)}
Done(n)      == {u \in Namesakes(n) : status[u] = "done"}

\* A retry after a timeout may index a file again, and an overwritten file is
\* indexed for each of its jobs, but no more often than the jobs that are done
\* have tries: documents are not duplicated without bound.
DuplicatesBounded ==
  \A n \in Names :
    late[n] + Cardinality(Indexings(n)) <= MaxAttempts * Cardinality(Done(n))

\* The page that sent a file polls for its job by number, and is told of that job
\* and no other as long as the service is not restarted.  After a restart the
\* numbers are given out again, while the page goes on asking for the old one.
FoundByNumber == \A u \in jobs : getJob(id[u]) = {u}

\* Every job of the table is eventually done or failed, though the workers
\* spend their time on retries and the channel is full.
JobsFinish ==
  []<>(\A u \in jobs : status[u] \notin Unfinished)

\* UploadPage.jsx:32 reports a job that is done as "Indexed N documents": at
\* least when nobody is notifying any more, the index has a file of its name.
DoneMeansIndexed ==
  \A u \in Uploads :
    status[u] = "done" /\ late[FileName[u]] = 0 /\ (\A w \in Workers : task[w] # u)
      => \E v \in Namesakes(FileName[u]) : copies[v] > 0
=============================================================================
