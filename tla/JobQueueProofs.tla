--------------------------- MODULE JobQueueProofs ---------------------------
(***************************************************************************)
(* Theorems about JobQueue, for any jobs, workers and handlers, whatever   *)
(* the bounds.  The first part holds under every schedule, the second in a *)
(* disciplined deployment: no job is executed twice at once, the result    *)
(* shown is that of the newest attempt, the attempts are accounted for,    *)
(* and the queue implements JobLifecycle.  The third is about the          *)
(* deployment with embedded workers: it implements JobQueue, so that what  *)
(* is proved of the queue holds in it; and a thread's life is tied to its  *)
(* process and to its loop.                                                *)
(***************************************************************************)
EXTENDS EmbeddedWorker, TLAPS

USE JobsAssumption, NoneAssumption, BoundsAssumption

-----------------------------------------------------------------------------
(* What the writers of a row make of it.                                   *)

\* The updates that the queue's functions make turn rows into rows.
LEMMA CountedRequeueMakesRows ==
    ASSUME NEW row \in Row, NEW n \in Nat
    PROVE  /\ RequeuedWith(row, n) \in Row
           /\ [row EXCEPT !.status = "completed", !.result = n] \in Row
<1>1. RequeuedWith(row, n) \in Row
  BY DEF Row, Status, RequeuedWith, Requeued
<1>2. [row EXCEPT !.status = "completed", !.result = n] \in Row
  BY DEF Row, Status
<1> QED BY <1>1, <1>2

LEMMA ClaimMakesRows ==
    ASSUME NEW row \in Row, NEW w \in Workers
    PROVE  ClaimedBy(row, w) \in Row
BY DEF Row, Status, ClaimedBy

LEMMA UpdatesMakeRows ==
    ASSUME NEW row \in Row
    PROVE  /\ Requeued(row) \in Row
           /\ Retried(row) \in Row
           /\ Cancelled(row) \in Row
           /\ [row EXCEPT !.status = "failed"] \in Row
           /\ [row EXCEPT !.last_heartbeat = "fresh"] \in Row
           /\ [row EXCEPT !.last_heartbeat = "expired"] \in Row
           /\ StaleHandled(row) \in Row
<1>1. Requeued(row) \in Row
  BY DEF Row, Status, Requeued
<1>2. Retried(row) \in Row
  BY CountedRequeueMakesRows DEF Retried
<1>3. Cancelled(row) \in Row
  BY DEF Row, Status, Cancelled
<1>4. [row EXCEPT !.status = "failed"] \in Row
  BY DEF Row, Status
<1>5. /\ [row EXCEPT !.last_heartbeat = "fresh"] \in Row
      /\ [row EXCEPT !.last_heartbeat = "expired"] \in Row
  BY DEF Row
<1>6. StaleHandled(row) \in Row
  <2>1. row.retry_count + 1 \in Nat
    BY DEF Row
  <2> QED BY <1>4, <2>1, CountedRequeueMakesRows DEF StaleHandled
<1> QED BY <1>1, <1>2, <1>3, <1>4, <1>5, <1>6

\* An ORM flush turns rows into a row.
LEMMA FlushMakesRows ==
    ASSUME NEW row \in Row, NEW old \in Row, NEW new \in Row
    PROVE  Flush(row, old, new) \in Row
BY DEF Row, Flush, Column

\* The constant rows are rows.
LEMMA ConstantRows == AbsentRow \in Row /\ NewRow \in Row /\ NoScan \in [Jobs -> Row]
BY DEF AbsentRow, NewRow, NoScan, Row, Status

\* A request in flight is not the record of an idle handler.
LEMMA InFlight ==
    ASSUME NEW r, r \in {NoRequest} \cup
                        [kind : {"cancel", "retry"}, job : Jobs, row : Row],
           r # NoRequest
    PROVE  /\ r.job \in Jobs /\ r.row \in Row
           /\ Wanted(r) \in Row
BY UpdatesMakeRows DEF Wanted

-----------------------------------------------------------------------------
(* Type correctness.                                                       *)

LEMMA InitTypeOK == Init => TypeOK
BY ConstantRows DEF Init, TypeOK, NoScan

\* A worker that has a job in its loop.
LEMMA HeldJob ==
    ASSUME TypeOK, NEW w \in Workers, pc[w] \notin {"down", "idle"}
    PROVE  held[w] \in Jobs
BY DEF TypeOK

\* What a heartbeat does to a row: nothing, or it renews the lease of its worker.
HeartbeatOn(w, k) ==
    \/ job'[k] = job[k]
    \/ /\ k = beat[w] /\ job[k].status = "running" /\ job[k].worker_id = w
       /\ job'[k] = [job[k] EXCEPT !.last_heartbeat = "fresh"]

LEMMA HeartbeatRenews ==
    ASSUME TypeOK, NEW w \in Workers, Heartbeat(w), NEW k \in Jobs
    PROVE  HeartbeatOn(w, k)
<1>1. beat[w] \in Jobs
  BY DEF Heartbeat, TypeOK
<1> QED BY <1>1 DEF Heartbeat, Renewed, TypeOK, HeartbeatOn

LEMMA HeartbeatKeeps ==
    ASSUME TypeOK, NEW w \in Workers, Heartbeat(w), NEW k \in Jobs
    PROVE  /\ job'[k] \in Row
           /\ job'[k].status = job[k].status /\ job'[k].worker_id = job[k].worker_id
           /\ job'[k].retry_count = job[k].retry_count /\ job'[k].result = job[k].result
           /\ job[k].status # "running" => job'[k] = job[k]
<1>1. HeartbeatOn(w, k)
  BY HeartbeatRenews
<1>2. job[k] \in Row
  BY DEF TypeOK
<1> QED BY <1>1, <1>2 DEF HeartbeatOn, Row

LEMMA ApiKeepsTypes ==
    ASSUME TypeOK, \/ \E j \in Jobs : Submit(j)
                   \/ \E h \in Handlers : RequestStep(h)
    PROVE  TypeOK'
<1>1. ASSUME NEW j \in Jobs, Submit(j) PROVE TypeOK'
  BY <1>1, ConstantRows DEF Submit, TypeOK, loop, bounds
<1>2. ASSUME NEW h \in Handlers, NEW j \in Jobs, NEW kind \in {"cancel", "retry"},
             Accept(h, kind, j)
      PROVE  TypeOK'
  BY <1>2 DEF Accept, TypeOK, loop, table
<1>3. ASSUME NEW h \in Handlers, RequestCommits(h) PROVE TypeOK'
  <2> DEFINE r == request[h]
  <2>1. r.job \in Jobs /\ r.row \in Row /\ Wanted(r) \in Row
    BY <1>3, InFlight DEF RequestCommits, TypeOK
  <2>2. Flush(job[r.job], r.row, Wanted(r)) \in Row
    BY <2>1, FlushMakesRows DEF TypeOK
  <2> QED BY <1>3, <2>1, <2>2 DEF RequestCommits, TypeOK, loop, bounds
<1>4. ASSUME NEW h \in Handlers, RequestAborts(h) PROVE TypeOK'
  BY <1>4 DEF RequestAborts, TypeOK, loop, bounds, table
<1> QED BY <1>1, <1>2, <1>3, <1>4 DEF RequestStep, CancelChecked, RetryChecked

LEMMA WorkerKeepsTypes ==
    ASSUME TypeOK, NEW w \in Workers, WorkerStep(w)
    PROVE  TypeOK'
<1> USE DEF TypeOK, loop, bounds, table
<1>1. CASE Start(w)
  BY <1>1, UpdatesMakeRows DEF Start
<1>2. CASE Poll(w)
  BY <1>2 DEF Poll
<1>3. CASE Claim(w)
  <2>1. held[w] \in Jobs BY <1>3, HeldJob DEF Claim
  <2>2. ClaimedBy(job[held[w]], w) \in Row
    BY <2>1, ClaimMakesRows
  <2>3. claims[held[w]] \in Nat
    BY <2>1
  <2>4. claims[held[w]] + 1 \in Nat
    BY ONLY <2>3
  <2> QED BY <1>3, <2>1, <2>2, <2>4 DEF Claim
<1>4. CASE LoseClaim(w)
  BY <1>4 DEF LoseClaim, Release
<1>5. CASE Load(w)
  <2>1. held[w] \in Jobs BY <1>5, HeldJob DEF Load
  <2>2. job[held[w]].retry_count \in Nat BY <2>1 DEF Row
  <2> QED BY <1>5, <2>2 DEF Load
<1>6. CASE Complete(w)
  BY <1>6, HeldJob, CountedRequeueMakesRows DEF Complete, Release
<1>7. CASE Raise(w)
  BY <1>7 DEF Raise
<1>8. CASE MarkFailed(w)
  <2>1. held[w] \in Jobs BY <1>8, HeldJob DEF MarkFailed
  <2>2. RequeuedWith(job[held[w]], loaded[w] + 1) \in Row
    <3>1. job[held[w]] \in Row /\ loaded[w] \in Nat
      BY <2>1
    <3>2. loaded[w] + 1 \in Nat
      BY ONLY <3>1
    <3> QED BY <3>1, <3>2, CountedRequeueMakesRows
  <2>3. [job[held[w]] EXCEPT !.status = "failed"] \in Row
    BY <2>1, UpdatesMakeRows
  <2> QED BY <1>8, <2>1, <2>2, <2>3 DEF MarkFailed, Release
<1>9. CASE Heartbeat(w)
  <2>1. \A k \in Jobs : job'[k] \in Row
    BY <1>9, HeartbeatKeeps
  <2>2. job' \in [Jobs -> Row]
    BY <1>9, <2>1 DEF Heartbeat
  <2>3. beat' \in [Workers -> Jobs \cup {None}]
    BY <1>9 DEF Heartbeat
  <2> QED BY <1>9, <2>2, <2>3 DEF Heartbeat
<1>10. CASE Stopped(w)
  BY <1>10 DEF Stopped
<1>11. CASE Beat(w)
  BY <1>11, HeldJob DEF Beat, Beating
<1> QED
  BY <1>1, <1>2, <1>3, <1>4, <1>5, <1>6, <1>7, <1>8, <1>9, <1>10, <1>11 DEF WorkerStep

LEMMA TroubleKeepsTypes ==
    ASSUME TypeOK, \/ \E w \in Workers : WorkerTrouble(w)
                   \/ \E j \in Jobs : Expire(j)
                   \/ StaleScan \/ StaleCommit \/ StaleCommitFails
    PROVE  TypeOK'
<1> USE DEF TypeOK, loop, bounds, table, Fault, Depart
<1>1. ASSUME NEW w \in Workers, LoadFails(w) PROVE TypeOK'
  BY <1>1 DEF LoadFails, Release
<1>2. ASSUME NEW w \in Workers, CompleteFails(w) PROVE TypeOK'
  <2>1. held[w] \in Jobs BY <1>2, HeldJob DEF CompleteFails
  <2>2. job[held[w]].retry_count \in Nat BY <2>1 DEF Row
  <2> QED BY <1>2, <2>2 DEF CompleteFails
<1>3. ASSUME NEW w \in Workers, MarkFailedFails(w) PROVE TypeOK'
  BY <1>3 DEF MarkFailedFails, Release
<1>4. ASSUME NEW w \in Workers, Crash(w) PROVE TypeOK'
  BY <1>4 DEF Crash
<1>5. ASSUME NEW w \in Workers, Stop(w) PROVE TypeOK'
  BY <1>5 DEF Stop
<1>6. ASSUME NEW j \in Jobs, Expire(j) PROVE TypeOK'
  BY <1>6, UpdatesMakeRows DEF Expire
<1>7. CASE StaleScan
  BY <1>7, ConstantRows DEF StaleScan
<1>8. CASE StaleCommit
  <2>1. ASSUME NEW j \in Jobs PROVE Flush(job[j], scan[j], StaleHandled(scan[j])) \in Row
    <3>1. scan[j] \in Row /\ job[j] \in Row OBVIOUS
    <3>2. StaleHandled(scan[j]) \in Row
      BY <3>1, UpdatesMakeRows
    <3> QED BY <3>1, <3>2, FlushMakesRows
  <2> QED BY <1>8, <2>1, ConstantRows DEF StaleCommit
<1>9. CASE StaleCommitFails
  BY <1>9, ConstantRows DEF StaleCommitFails
<1>10. ASSUME NEW w \in Workers, HeartbeatFails(w) PROVE TypeOK'
  BY <1>10 DEF HeartbeatFails
<1> QED
  BY <1>1, <1>2, <1>3, <1>4, <1>5, <1>6, <1>7, <1>8, <1>9, <1>10 DEF WorkerTrouble

\* The tables and the programs' variables always hold values of their types.
THEOREM TypeCorrect == Spec => []TypeOK
<1>1. TypeOK /\ [Next]_vars => TypeOK'
  <2> SUFFICES ASSUME TypeOK, [Next]_vars PROVE TypeOK'
    OBVIOUS
  <2>1. CASE UNCHANGED vars
    BY <2>1 DEF vars, TypeOK
  <2> QED
    BY <2>1, ApiKeepsTypes, WorkerKeepsTypes, TroubleKeepsTypes DEF Next
<1> QED BY <1>1, InitTypeOK, PTL DEF Spec

-----------------------------------------------------------------------------
(* The rows under every schedule.  RunningIsOwned, RetryBudget and         *)
(* CompletedHasResult are claims about single rows, so the argument is     *)
(* that every writer turns a sound row into a sound row.  For the writers  *)
(* that flush a copy read earlier this needs what the session found when   *)
(* it read the copy: a flush from a copy that was running, queued, failed  *)
(* or cancelled always changes the status, and so never leaves "running"   *)
(* or "completed" behind with half of its columns.                         *)

SoundRow(row) ==
    /\ row.status = "running" => row.worker_id \in Workers /\ row.last_heartbeat # "null"
    /\ row.status = "completed" => row.result > 0
    /\ row.retry_count <= MaxRetries

\* What the checks of the routes and the query of the stale checker established.
CheckedCopies ==
    /\ \A h \in Handlers :
          request[h] # NoRequest =>
              request[h].row.status \in
                  (IF request[h].kind = "cancel" THEN {"queued"}
                                                 ELSE {"failed", "cancelled"})
    /\ \A j \in Jobs : scan[j] # AbsentRow => scan[j].status = "running"

RowInv ==
    /\ TypeOK
    /\ \A j \in Jobs : SoundRow(job[j])
    /\ CheckedCopies
    /\ \A w \in Workers : InHand(w) => attempt[w] > 0

\* The guarded and unguarded updates keep a row sound.
LEMMA UpdatesKeepSound ==
    ASSUME NEW row \in Row, SoundRow(row), NEW w \in Workers
    PROVE  /\ SoundRow(ClaimedBy(row, w))
           /\ SoundRow(Requeued(row))
           /\ SoundRow([row EXCEPT !.status = "failed"])
           /\ SoundRow([row EXCEPT !.last_heartbeat = "fresh"])
           /\ SoundRow([row EXCEPT !.last_heartbeat = "expired"])
<1>1. SoundRow(ClaimedBy(row, w)) /\ SoundRow(Requeued(row))
  BY DEF SoundRow, Row, ClaimedBy, Requeued
<1>2. SoundRow([row EXCEPT !.status = "failed"])
  BY DEF SoundRow, Row
<1>3. /\ SoundRow([row EXCEPT !.last_heartbeat = "fresh"])
      /\ SoundRow([row EXCEPT !.last_heartbeat = "expired"])
  BY DEF SoundRow, Row
<1> QED BY <1>1, <1>2, <1>3

\* The updates that count: the counts they write are within the budget.
LEMMA CountsKeepSound ==
    ASSUME NEW row \in Row, SoundRow(row), NEW n \in Nat
    PROVE  /\ n <= MaxRetries => SoundRow(RequeuedWith(row, n))
           /\ n > 0 => SoundRow([row EXCEPT !.status = "completed", !.result = n])
BY DEF SoundRow, Row, RequeuedWith, Requeued

\* A flush of the stale checker puts the row back or fails it.
LEMMA StaleFlush ==
    ASSUME NEW row \in Row, SoundRow(row), NEW old \in Row, old.status = "running"
    PROVE  /\ SoundRow(Flush(row, old, StaleHandled(old)))
           /\ Flush(row, old, StaleHandled(old)).status \in {"queued", "failed"}
<1> DEFINE new == StaleHandled(old)
<1>1. new \in Row BY UpdatesMakeRows
<1>2. new.status \in {"queued", "failed"}
  BY DEF StaleHandled, RequeuedWith, Requeued, Row
<1>3. new.retry_count = old.retry_count \/ new.retry_count <= MaxRetries
  BY DEF StaleHandled, RequeuedWith, Requeued, Row
<1> HIDE DEF new
<1>4. Flush(row, old, new).status = new.status
  BY <1>2 DEF Flush, Column
<1>5. Flush(row, old, new).retry_count <= MaxRetries
  BY <1>1, <1>3 DEF Flush, Column, SoundRow, Row
<1>6. SoundRow(Flush(row, old, new))
  BY <1>2, <1>4, <1>5 DEF SoundRow
<1> QED BY <1>2, <1>4, <1>6 DEF new

\* A flush of a request puts the row back or cancels it.
LEMMA RequestFlush ==
    ASSUME NEW row \in Row, SoundRow(row),
           NEW r \in [kind : {"cancel", "retry"}, job : Jobs, row : Row],
           r.row.status \in (IF r.kind = "cancel" THEN {"queued"}
                                                 ELSE {"failed", "cancelled"})
    PROVE  /\ SoundRow(Flush(row, r.row, Wanted(r)))
           /\ Flush(row, r.row, Wanted(r)).status \in {"queued", "cancelled"}
<1> DEFINE new == Wanted(r)
<1>1. new \in Row BY UpdatesMakeRows DEF Wanted
<1>2. new.status \in {"queued", "cancelled"} /\ new.status # r.row.status
  BY DEF Wanted, Cancelled, Retried, RequeuedWith, Requeued, Row
<1>3. new.retry_count = r.row.retry_count \/ new.retry_count <= MaxRetries
  BY DEF Wanted, Cancelled, Retried, RequeuedWith, Requeued, Row
<1> HIDE DEF new
<1>4. Flush(row, r.row, new).status = new.status
  BY <1>2 DEF Flush, Column
<1>5. Flush(row, r.row, new).retry_count <= MaxRetries
  BY <1>1, <1>3 DEF Flush, Column, SoundRow, Row
<1>6. SoundRow(Flush(row, r.row, new))
  BY <1>2, <1>4, <1>5 DEF SoundRow
<1> QED BY <1>2, <1>4, <1>6 DEF new

LEMMA InitRowInv == Init => RowInv
BY InitTypeOK DEF Init, RowInv, SoundRow, AbsentRow, NoScan, CheckedCopies, InHand

LEMMA ApiKeepsRows ==
    ASSUME RowInv, TypeOK', \/ \E j \in Jobs : Submit(j)
                            \/ \E h \in Handlers : RequestStep(h)
    PROVE  RowInv'
<1> USE DEF RowInv, TypeOK, InHand, loop, table
<1>1. ASSUME NEW j \in Jobs, Submit(j) PROVE RowInv'
  <2>1. SoundRow(NewRow) BY DEF SoundRow, NewRow, AbsentRow
  <2> QED BY <1>1, <2>1 DEF Submit, CheckedCopies
<1>2. ASSUME NEW h \in Handlers, NEW j \in Jobs, CancelChecked(h, j) PROVE RowInv'
  BY <1>2 DEF CancelChecked, Accept, CheckedCopies
<1>3. ASSUME NEW h \in Handlers, NEW j \in Jobs, RetryChecked(h, j) PROVE RowInv'
  BY <1>3 DEF RetryChecked, Accept, CheckedCopies
<1>4. ASSUME NEW h \in Handlers, RequestCommits(h) PROVE RowInv'
  <2> DEFINE r == request[h]
  <2>1. r \in [kind : {"cancel", "retry"}, job : Jobs, row : Row]
    BY <1>4 DEF RequestCommits
  <2>2. SoundRow(Flush(job[r.job], r.row, Wanted(r)))
    BY <1>4, <2>1, RequestFlush DEF RequestCommits, CheckedCopies
  <2>3. \A j \in Jobs : SoundRow(job'[j])
    BY <1>4, <2>1, <2>2 DEF RequestCommits
  <2>4. CheckedCopies'
    BY <1>4 DEF RequestCommits, CheckedCopies
  <2> QED BY <1>4, <2>3, <2>4 DEF RequestCommits
<1>5. ASSUME NEW h \in Handlers, RequestAborts(h) PROVE RowInv'
  BY <1>5 DEF RequestAborts, CheckedCopies
<1> QED BY <1>1, <1>2, <1>3, <1>4, <1>5 DEF RequestStep

LEMMA WorkerKeepsRows ==
    ASSUME RowInv, TypeOK', NEW w \in Workers, WorkerStep(w)
    PROVE  RowInv'
<1> USE DEF RowInv, TypeOK, InHand, loop, table, CheckedCopies
<1>1. CASE Start(w)
  <2>1. \A j \in Jobs : SoundRow(job'[j])
    BY <1>1, UpdatesKeepSound DEF Start
  <2> QED BY <1>1, <2>1 DEF Start
<1>2. CASE Poll(w)
  BY <1>2 DEF Poll
<1>3. CASE Claim(w)
  <2>1. held[w] \in Jobs BY <1>3, HeldJob DEF Claim
  <2>2. SoundRow(ClaimedBy(job[held[w]], w))
    BY <2>1, UpdatesKeepSound
  <2>3. \A j \in Jobs : SoundRow(job'[j])
    BY <1>3, <2>1, <2>2 DEF Claim
  <2>4. claims[held[w]] \in Nat BY <2>1
  <2>5. claims[held[w]] + 1 > 0 BY ONLY <2>4
  <2> QED BY <1>3, <2>3, <2>5 DEF Claim
<1>4. CASE LoseClaim(w)
  BY <1>4 DEF LoseClaim, Release
<1>5. CASE Load(w)
  BY <1>5 DEF Load
<1>6. CASE Complete(w)
  <2>1. held[w] \in Jobs BY <1>6, HeldJob DEF Complete
  <2>2. SoundRow([job[held[w]] EXCEPT !.status = "completed", !.result = attempt[w]])
    BY <1>6, <2>1, CountsKeepSound DEF Complete
  <2>3. \A j \in Jobs : SoundRow(job'[j])
    BY <1>6, <2>1, <2>2 DEF Complete
  <2> QED BY <1>6, <2>3 DEF Complete, Release
<1>7. CASE Raise(w)
  BY <1>7 DEF Raise
<1>8. CASE MarkFailed(w)
  <2>1. held[w] \in Jobs BY <1>8, HeldJob DEF MarkFailed
  <2>2. loaded[w] \in Nat /\ job[held[w]] \in Row BY <2>1
  <2>3. loaded[w] < MaxRetries => SoundRow(RequeuedWith(job[held[w]], loaded[w] + 1))
    <3>1. SoundRow(job[held[w]]) BY <2>1
    <3>2. loaded[w] + 1 \in Nat /\ (loaded[w] < MaxRetries => loaded[w] + 1 <= MaxRetries)
      BY ONLY <2>2, BoundsAssumption
    <3> QED BY <2>2, <3>1, <3>2, CountsKeepSound
  <2>4. SoundRow([job[held[w]] EXCEPT !.status = "failed"])
    BY <2>1, UpdatesKeepSound
  <2>5. \A j \in Jobs : SoundRow(job'[j])
    BY <1>8, <2>1, <2>3, <2>4 DEF MarkFailed
  <2> QED BY <1>8, <2>5 DEF MarkFailed, Release
<1>9. CASE Heartbeat(w)
  <2>1. ASSUME NEW j \in Jobs PROVE SoundRow(job'[j])
    <3>1. HeartbeatOn(w, j) /\ job[j] \in Row /\ SoundRow(job[j])
      BY <1>9, HeartbeatRenews
    <3>2. SoundRow([job[j] EXCEPT !.last_heartbeat = "fresh"])
      BY <3>1, UpdatesKeepSound
    <3> QED BY <3>1, <3>2 DEF HeartbeatOn
  <2> QED BY <1>9, <2>1 DEF Heartbeat
<1>10. CASE Stopped(w)
  BY <1>10 DEF Stopped
<1>11. CASE Beat(w)
  BY <1>11 DEF Beat
<1> QED
  BY <1>1, <1>2, <1>3, <1>4, <1>5, <1>6, <1>7, <1>8, <1>9, <1>10, <1>11 DEF WorkerStep

LEMMA TroubleKeepsRows ==
    ASSUME RowInv, TypeOK', \/ \E w \in Workers : WorkerTrouble(w)
                            \/ \E j \in Jobs : Expire(j)
                            \/ StaleScan \/ StaleCommit \/ StaleCommitFails
    PROVE  RowInv'
<1> USE DEF RowInv, TypeOK, InHand, loop, table, CheckedCopies, Release
<1>1. ASSUME NEW w \in Workers, WorkerTrouble(w) PROVE RowInv'
  <2>1. CASE LoadFails(w) BY <2>1 DEF LoadFails
  <2>2. CASE CompleteFails(w) BY <2>2 DEF CompleteFails
  <2>3. CASE MarkFailedFails(w) BY <2>3 DEF MarkFailedFails
  <2>4. CASE Crash(w) BY <2>4 DEF Crash
  <2>5. CASE Stop(w) BY <2>5 DEF Stop
  <2>6. CASE HeartbeatFails(w) BY <2>6 DEF HeartbeatFails
  <2> QED BY <1>1, <2>1, <2>2, <2>3, <2>4, <2>5, <2>6 DEF WorkerTrouble
<1>2. ASSUME NEW j \in Jobs, Expire(j) PROVE RowInv'
  <2>1. SoundRow([job[j] EXCEPT !.last_heartbeat = "expired"]) /\ j \in Jobs
    <3>1. job[j] \in Row /\ SoundRow(job[j]) OBVIOUS
    <3> QED BY <3>1 DEF SoundRow, Row
  <2>2. \A k \in Jobs : SoundRow(job'[k])
    BY <1>2, <2>1 DEF Expire
  <2> QED BY <1>2, <2>2 DEF Expire
<1>3. CASE StaleScan
  BY <1>3 DEF StaleScan, IsStale
<1>4. CASE StaleCommit
  <2>1. \A j \in Jobs : SoundRow(job'[j])
    BY <1>4, StaleFlush DEF StaleCommit
  <2>2. \A j \in Jobs : scan'[j] = AbsentRow
    BY <1>4 DEF StaleCommit, NoScan
  <2> QED BY <1>4, <2>1, <2>2 DEF StaleCommit
<1>5. CASE StaleCommitFails
  BY <1>5 DEF StaleCommitFails, NoScan
<1> QED BY <1>1, <1>2, <1>3, <1>4, <1>5

LEMMA RowInvInductive == RowInv /\ [Next]_vars => RowInv'
<1> SUFFICES ASSUME RowInv, [Next]_vars, TypeOK' PROVE RowInv'
  <2>1. TypeOK /\ [Next]_vars => TypeOK'
    BY ApiKeepsTypes, WorkerKeepsTypes, TroubleKeepsTypes DEF Next, vars, TypeOK
  <2> QED BY <2>1 DEF RowInv
<1>1. CASE UNCHANGED vars
  BY <1>1 DEF vars, RowInv, CheckedCopies, InHand
<1> QED BY <1>1, ApiKeepsRows, WorkerKeepsRows, TroubleKeepsRows DEF Next

\* The rows are sound under every schedule.
LEMMA RowsStaySound == Spec => []RowInv
BY RowInvInductive, InitRowInv, PTL DEF Spec

\* A running row always names a worker and carries a heartbeat.
THEOREM RunningRowsAreOwned == Spec => []RunningIsOwned
<1>1. RowInv => RunningIsOwned BY DEF RowInv, SoundRow, RunningIsOwned
<1> QED BY <1>1, RowsStaySound, PTL

\* No schedule of stale writers pushes a row past its retry budget.
THEOREM RetriesStayInBudget == Spec => []RetryBudget
<1>1. RowInv => RetryBudget BY DEF RowInv, SoundRow, RetryBudget
<1> QED BY <1>1, RowsStaySound, PTL

\* A completed row always has a result.
THEOREM CompletedRowsHaveResults == Spec => []CompletedHasResult
<1>1. RowInv => CompletedHasResult BY DEF RowInv, SoundRow, CompletedHasResult
<1> QED BY <1>1, RowsStaySound, PTL

\* Both: no mix of writers leaves a running row without an owner or a completed one
\* without a result.
THEOREM RowsStayWhole == Spec => []RowsAreWhole
BY RunningRowsAreOwned, CompletedRowsHaveResults, PTL DEF RowsAreWhole

-----------------------------------------------------------------------------
(* Steps.  Only Claim makes a row run, and a row that runs is never        *)
(* flushed back to running, so only a heartbeat renews a lease.  That the  *)
(* heartbeat of a job its worker has left finds the row no longer running  *)
(* needs one invariant more: while the database has raised no error, the   *)
(* owner of a running row has the job in hand or is down, and who is down  *)
(* beats no more.                                                          *)

OwnersHold ==
    /\ faults = 0 =>
          \A j \in Jobs :
              job[j].status = "running" =>
                  LET w == job[j].worker_id IN pc[w] = "down" \/ (InHand(w) /\ held[w] = j)
    /\ \A w \in Workers : pc[w] = "down" => beat[w] = None

OwnedInv == RowInv /\ OwnersHold

StartStep ==
    \A j \in Jobs :
        claims'[j] # claims[j] \/ (job'[j].status = "running" /\ job[j].status # "running")
        => /\ job[j].status = "queued" /\ job'[j].status = "running"
           /\ claims'[j] = claims[j] + 1

RenewalStep ==
    \A j \in Jobs :
        IsStale(j) /\ job'[j].status = "running" /\ job'[j].last_heartbeat = "fresh"
        => \E w \in Workers : /\ job[j].worker_id = w
                              /\ beat[w] = j /\ beat'[w] = None
                              /\ (InHand(w) /\ held[w] = j) \/ faults > 0

\* A flush, whether of a request or of the stale checker, leaves no row running
\* that it wrote.
LEMMA FlushesStopRunning ==
    ASSUME RowInv, StaleCommit \/ \E h \in Handlers : RequestCommits(h),
           NEW j \in Jobs
    PROVE  claims' = claims /\ (job'[j] = job[j] \/ job'[j].status # "running")
<1>1. CASE StaleCommit
  <2>1. scan[j] # AbsentRow => Flush(job[j], scan[j], StaleHandled(scan[j])).status # "running"
    BY StaleFlush DEF RowInv, TypeOK, CheckedCopies
  <2> QED BY <1>1, <2>1 DEF StaleCommit, RowInv, TypeOK
<1>2. ASSUME NEW h \in Handlers, RequestCommits(h)
      PROVE  claims' = claims /\ (job'[j] = job[j] \/ job'[j].status # "running")
  <2> DEFINE r == request[h]
  <2>1. r \in [kind : {"cancel", "retry"}, job : Jobs, row : Row]
    BY <1>2 DEF RequestCommits, RowInv, TypeOK
  <2>2. Flush(job[r.job], r.row, Wanted(r)).status # "running"
    BY <1>2, <2>1, RequestFlush DEF RequestCommits, CheckedCopies, RowInv, TypeOK
  <2> QED BY <1>2, <2>1, <2>2 DEF RequestCommits, RowInv, TypeOK
<1> QED BY <1>1, <1>2

\* A row that was put back waits.
LEMMA RequeuedWaits == \A row \in Row : Requeued(row).status = "queued"
BY DEF Requeued, Row

LEMMA WorkersStepRows ==
    ASSUME OwnedInv, NEW w \in Workers, WorkerStep(w)
    PROVE  StartStep /\ RenewalStep
<1> USE DEF OwnedInv, RowInv, TypeOK, Row, loop, table, Release, StartStep, RenewalStep,
            IsStale
<1>1. CASE Start(w)
  <2>1. \A j \in Jobs : Requeued(job[j]).status = "queued"
    BY RequeuedWaits DEF RowInv, TypeOK
  <2>2. claims' = claims /\ \A j \in Jobs : job'[j].status # "running"
    BY <1>1, <2>1 DEF Start
  <2> QED BY <2>2
<1>2. CASE Poll(w) BY <1>2 DEF Poll
<1>3. CASE Claim(w) BY <1>3, HeldJob DEF Claim, ClaimedBy
<1>4. CASE LoseClaim(w) BY <1>4 DEF LoseClaim
<1>5. CASE Load(w) BY <1>5 DEF Load
<1>6. CASE Complete(w) BY <1>6, HeldJob DEF Complete
<1>7. CASE Raise(w) BY <1>7 DEF Raise
<1>8. CASE MarkFailed(w) BY <1>8, HeldJob DEF MarkFailed, RequeuedWith, Requeued
<1>9. CASE Heartbeat(w)
  <2>1. claims' = claims /\ \A j \in Jobs : job'[j].status = job[j].status
    BY <1>9, HeartbeatKeeps DEF Heartbeat
  <2>2. StartStep
    BY <2>1
  <2>3. ASSUME NEW j \in Jobs, job[j].status = "running", job'[j] # job[j]
        PROVE  /\ job[j].worker_id = w /\ beat[w] = j /\ beat'[w] = None
               /\ (InHand(w) /\ held[w] = j) \/ faults > 0
    <3>1. job[j].worker_id = w /\ beat[w] = j /\ beat'[w] = None
      <4>1. HeartbeatOn(w, j)
        BY <1>9, HeartbeatRenews
      <4>2. beat'[w] = None
        BY <1>9 DEF Heartbeat
      <4> QED BY <2>3, <4>1, <4>2 DEF HeartbeatOn
    <3>2. pc[w] # "down"
      BY <3>1 DEF OwnersHold
    <3>3. faults = 0 => InHand(w) /\ held[w] = j
      BY <2>3, <3>1, <3>2 DEF OwnersHold
    <3>4. faults \in Nat
      OBVIOUS
    <3> QED BY <3>1, <3>3, <3>4
  <2>4. RenewalStep
    BY <2>3 DEF RenewalStep, IsStale
  <2> QED BY <2>2, <2>4
<1>10. CASE Stopped(w) BY <1>10 DEF Stopped
<1>11. CASE Beat(w) BY <1>11 DEF Beat
<1> QED
  BY <1>1, <1>2, <1>3, <1>4, <1>5, <1>6, <1>7, <1>8, <1>9, <1>10, <1>11 DEF WorkerStep

LEMMA OthersStepRows ==
    ASSUME RowInv, \/ \E w \in Workers : WorkerTrouble(w)
                   \/ \E j \in Jobs : Submit(j) \/ Expire(j)
                   \/ \E h \in Handlers : RequestStep(h)
                   \/ StaleScan \/ StaleCommit \/ StaleCommitFails
                   \/ UNCHANGED vars
    PROVE  StartStep /\ RenewalStep
<1> USE DEF RowInv, TypeOK, Row, loop, table, StartStep, RenewalStep, IsStale
<1>1. ASSUME NEW w \in Workers, WorkerTrouble(w) PROVE job' = job /\ claims' = claims
  BY <1>1 DEF WorkerTrouble, LoadFails, CompleteFails, MarkFailedFails, HeartbeatFails,
              Crash, Stop
<1>2. ASSUME NEW j \in Jobs, Submit(j) PROVE StartStep /\ RenewalStep
  BY <1>2 DEF Submit, NewRow, AbsentRow
<1>3. ASSUME NEW j \in Jobs, Expire(j) PROVE StartStep /\ RenewalStep
  BY <1>3 DEF Expire
<1>4. ASSUME NEW h \in Handlers, RequestStep(h), ~RequestCommits(h)
      PROVE  job' = job /\ claims' = claims
  BY <1>4 DEF RequestStep, CancelChecked, RetryChecked, Accept, RequestAborts
<1>5. CASE StaleCommit \/ \E h \in Handlers : RequestCommits(h)
  BY <1>5, FlushesStopRunning
<1>6. CASE StaleScan \/ StaleCommitFails \/ UNCHANGED vars
  BY <1>6 DEF StaleScan, StaleCommitFails, vars
<1> QED BY <1>1, <1>2, <1>3, <1>4, <1>5, <1>6

LEMMA EveryStep == OwnedInv /\ [Next]_vars => StartStep /\ RenewalStep
BY WorkersStepRows, OthersStepRows DEF Next, OwnedInv

\* A step that leaves the loops and beats alone, adds no running row and keeps the owners
\* of those that run keeps OwnersHold.
LEMMA LoopsKeepHolding ==
    ASSUME OwnedInv, faults' = 0 => faults = 0, UNCHANGED <<pc, held, beat>>,
           \A j \in Jobs : job'[j].status = "running" =>
                              job[j].status = "running" /\ job'[j].worker_id = job[j].worker_id
    PROVE  OwnersHold'
BY DEF OwnedInv, OwnersHold, InHand

\* What one worker does: the other loops stay as they are, and so do the owners of the
\* rows that go on running; the rows it owns that run are in its hand afterwards, or it
\* is down, without a beat.
LEMMA WorkerKeepsHolding ==
    ASSUME OwnedInv, TypeOK', NEW w \in Workers, faults' = 0 => faults = 0,
           \A v \in Workers \ {w} : pc'[v] = pc[v] /\ held'[v] = held[v] /\ beat'[v] = beat[v],
           pc'[w] = "down" => beat'[w] = None,
           \A j \in Jobs :
              job'[j].status = "running" /\ faults' = 0 =>
                 \/ job'[j].worker_id = w /\ (pc'[w] = "down" \/ (InHand(w)' /\ held'[w] = j))
                 \/ /\ job[j].status = "running" /\ job'[j].worker_id = job[j].worker_id
                    /\ job[j].worker_id # w
    PROVE  OwnersHold'
<1>1. \A v \in Workers : pc'[v] = "down" => beat'[v] = None
  BY DEF OwnedInv, OwnersHold
<1> DEFINE HeldAfter(v, j) ==
             \/ pc'[v] = "down"
             \/ pc'[v] \in {"claimed", "executing", "failing"} /\ held'[v] = j
<1>2. ASSUME NEW j \in Jobs, faults' = 0, job'[j].status = "running"
      PROVE  HeldAfter(job'[j].worker_id, j)
  <2>1. CASE job'[j].worker_id = w /\ (pc'[w] = "down" \/ (InHand(w)' /\ held'[w] = j))
    BY <2>1 DEF InHand
  <2>2. CASE /\ job[j].status = "running" /\ job'[j].worker_id = job[j].worker_id
             /\ job[j].worker_id # w
    <3>1. PICK v \in Workers \ {w} : v = job[j].worker_id
      BY <2>2 DEF OwnedInv, RowInv, SoundRow
    <3>2. pc[v] = "down" \/ (InHand(v) /\ held[v] = j)
      BY <1>2, <2>2, <3>1 DEF OwnedInv, OwnersHold
    <3>3. pc'[v] = pc[v] /\ held'[v] = held[v]
      BY <3>1
    <3> QED BY <2>2, <3>1, <3>2, <3>3 DEF InHand
  <2> QED BY <1>2, <2>1, <2>2
<1> QED BY <1>1, <1>2 DEF OwnersHold, InHand

\* A worker without a job in hand owns no running row, if it is up and no error struck.
LEMMA EmptyHandsOwnNothing ==
    ASSUME OwnedInv, NEW w \in Workers, pc[w] # "down", faults = 0,
           NEW j \in Jobs, job[j].status = "running", job[j].worker_id = w
    PROVE  InHand(w) /\ held[w] = j
BY DEF OwnedInv, OwnersHold

LEMMA WorkersKeepOwning ==
    ASSUME OwnedInv, TypeOK', NEW w \in Workers, WorkerStep(w)
    PROVE  OwnersHold'
<1> DEFINE Others == \A v \in Workers \ {w} :
                        pc'[v] = pc[v] /\ held'[v] = held[v] /\ beat'[v] = beat[v]
<1>0. /\ RowInv /\ TypeOK
      /\ pc \in [Workers -> {"down", "idle", "selected", "claimed", "executing", "failing"}]
      /\ held \in [Workers -> Jobs \cup {None}] /\ beat \in [Workers -> Jobs \cup {None}]
      /\ job \in [Jobs -> Row]
  BY DEF OwnedInv, RowInv, TypeOK
<1>1. CASE Start(w)
  <2>1. \A j \in Jobs : job'[j].status # "running"
    BY <1>0, <1>1, RequeuedWaits DEF Start
  <2>2. pc' = [pc EXCEPT ![w] = "idle"] /\ beat' = beat
    BY <1>1 DEF Start
  <2> QED BY <1>0, <2>1, <2>2 DEF OwnersHold, OwnedInv
<1>2. CASE Poll(w) \/ LoseClaim(w) \/ Load(w) \/ Raise(w) \/ Stopped(w)
  <2>1. /\ Others /\ job' = job /\ faults' = faults /\ pc[w] # "down"
        /\ pc'[w] = "down" => beat'[w] = None
        /\ InHand(w) => InHand(w)' /\ held'[w] = held[w]
    BY <1>0, <1>2 DEF Poll, LoseClaim, Load, Raise, Stopped, Release, InHand, table, bounds,
                      OwnedInv, OwnersHold
  <2> QED BY <2>1, EmptyHandsOwnNothing, WorkerKeepsHolding
<1>3. CASE Claim(w)
  <2>1. /\ Others /\ faults' = faults /\ pc[w] = "selected" /\ pc'[w] = "claimed"
        /\ held'[w] = held[w] /\ held[w] \in Jobs
        /\ job' = [job EXCEPT ![held[w]] = ClaimedBy(@, w)]
    BY <1>0, <1>3, HeldJob DEF Claim, bounds
  <2>2. ClaimedBy(job[held[w]], w).worker_id = w
    BY <1>0, <2>1 DEF ClaimedBy, Row
  <2>3. \A j \in Jobs : job[j].status = "running" /\ faults = 0 => job[j].worker_id # w
    BY <2>1, EmptyHandsOwnNothing DEF InHand
  <2> QED BY <1>0, <2>1, <2>2, <2>3, WorkerKeepsHolding DEF InHand
<1>4. CASE Complete(w) \/ MarkFailed(w)
  <2>1. /\ Others /\ faults' = faults /\ pc[w] # "down" /\ pc'[w] = "idle"
        /\ held[w] \in Jobs
    BY <1>0, <1>4, HeldJob DEF Complete, MarkFailed, Release, bounds
  <2>2. \A j \in Jobs : j # held[w] => job'[j] = job[j]
    BY <1>0, <1>4 DEF Complete, MarkFailed
  <2>3. job'[held[w]].status # "running"
    <3>1. \A n : RequeuedWith(job[held[w]], n).status = "queued"
      BY <1>0, <2>1 DEF RequeuedWith, Requeued, Row
    <3>2. CASE Complete(w)
      BY <1>0, <2>1, <3>2 DEF Complete, Row
    <3>3. CASE MarkFailed(w)
      BY <1>0, <2>1, <3>1, <3>3 DEF MarkFailed, Row
    <3> QED BY <1>4, <3>2, <3>3
  <2>4. \A j \in Jobs : job[j].status = "running" /\ faults = 0 /\ j # held[w]
                           => job[j].worker_id # w
    BY <2>1, EmptyHandsOwnNothing
  <2> QED BY <2>1, <2>2, <2>3, <2>4, WorkerKeepsHolding
<1>5. CASE Beat(w)
  <2>1. /\ Others /\ job' = job /\ faults' = faults /\ pc' = pc /\ held' = held
        /\ pc[w] # "down"
    BY <1>0, <1>5 DEF Beat, Beating, table, bounds
  <2> QED BY <2>1, EmptyHandsOwnNothing, WorkerKeepsHolding DEF InHand
<1>6. CASE Heartbeat(w)
  <2>1. /\ Others /\ faults' = faults /\ pc' = pc /\ held' = held /\ beat'[w] = None
        /\ \A j \in Jobs : /\ job'[j].status = job[j].status
                           /\ job'[j].worker_id = job[j].worker_id
    BY <1>0, <1>6, HeartbeatKeeps DEF Heartbeat, bounds
  <2>2. pc[w] # "down"
    BY <1>6 DEF Heartbeat, OwnedInv, OwnersHold
  <2> QED BY <2>1, <2>2, EmptyHandsOwnNothing, WorkerKeepsHolding DEF InHand
<1> QED BY <1>1, <1>2, <1>3, <1>4, <1>5, <1>6 DEF WorkerStep

LEMMA OthersKeepOwning ==
    ASSUME OwnedInv, TypeOK', \/ \E w \in Workers : WorkerTrouble(w)
                              \/ \E j \in Jobs : Submit(j) \/ Expire(j)
                              \/ \E h \in Handlers : RequestStep(h)
                              \/ StaleScan \/ StaleCommit \/ StaleCommitFails
    PROVE  OwnersHold'
<1>0. RowInv /\ job \in [Jobs -> Row] /\ faults \in Nat
      /\ pc \in [Workers -> {"down", "idle", "selected", "claimed", "executing", "failing"}]
      /\ held \in [Workers -> Jobs \cup {None}] /\ beat \in [Workers -> Jobs \cup {None}]
  BY DEF OwnedInv, RowInv, TypeOK
<1>1. ASSUME NEW w \in Workers, LoadFails(w) \/ CompleteFails(w) \/ MarkFailedFails(w)
                                \/ HeartbeatFails(w)
      PROVE  OwnersHold'
  <2>1. faults' # 0
    BY <1>0, <1>1 DEF LoadFails, CompleteFails, MarkFailedFails, HeartbeatFails, Fault
  <2>2. /\ pc'[w] = "down" => pc[w] = "down"
        /\ \A v \in Workers \ {w} : pc'[v] = pc[v] /\ beat'[v] = beat[v]
        /\ beat'[w] \in {beat[w], None}
    BY <1>0, <1>1 DEF LoadFails, CompleteFails, MarkFailedFails, HeartbeatFails, Release
  <2> QED BY <2>1, <2>2 DEF OwnedInv, OwnersHold
<1>2. ASSUME NEW w \in Workers, Crash(w) PROVE OwnersHold'
  <2>1. /\ \A v \in Workers \ {w} : pc'[v] = pc[v] /\ held'[v] = held[v] /\ beat'[v] = beat[v]
        /\ pc'[w] = "down" /\ beat'[w] = None /\ job' = job /\ faults' = faults
    BY <1>0, <1>2 DEF Crash, Depart, table
  <2> QED BY <2>1, WorkerKeepsHolding
<1>3. ASSUME NEW w \in Workers, Stop(w) PROVE OwnersHold'
  BY <1>3, LoopsKeepHolding DEF Stop, Depart, table
<1>4. ASSUME NEW j \in Jobs, Submit(j) PROVE OwnersHold'
  BY <1>0, <1>4, LoopsKeepHolding DEF Submit, NewRow, AbsentRow, loop, bounds
<1>5. ASSUME NEW j \in Jobs, Expire(j) PROVE OwnersHold'
  BY <1>0, <1>5, LoopsKeepHolding DEF Expire, loop, bounds, Row
<1>6. ASSUME NEW h \in Handlers, RequestStep(h), ~RequestCommits(h) PROVE OwnersHold'
  BY <1>6, LoopsKeepHolding
     DEF RequestStep, CancelChecked, RetryChecked, Accept, RequestAborts, loop, bounds, table
<1>7. CASE StaleCommit \/ \E h \in Handlers : RequestCommits(h)
  <2>1. UNCHANGED <<pc, held, beat, faults>>
    BY <1>7 DEF StaleCommit, RequestCommits, loop, bounds
  <2> QED BY <1>0, <1>7, <2>1, FlushesStopRunning, LoopsKeepHolding
<1>8. CASE StaleScan \/ StaleCommitFails
  <2>1. UNCHANGED <<job, pc, held, beat>> /\ (faults' = 0 => faults = 0)
    BY <1>0, <1>8 DEF StaleScan, StaleCommitFails, Fault, loop, bounds, table
  <2> QED BY <2>1, LoopsKeepHolding
<1> QED BY <1>1, <1>2, <1>3, <1>4, <1>5, <1>6, <1>7, <1>8 DEF WorkerTrouble

LEMMA OwnersAlwaysHold == Spec => []OwnedInv
<1>1. Init => OwnedInv
  BY InitRowInv DEF Init, OwnedInv, OwnersHold, AbsentRow
<1>2. OwnedInv /\ [Next]_vars => OwnedInv'
  <2> SUFFICES ASSUME OwnedInv, [Next]_vars PROVE OwnedInv'
    OBVIOUS
  <2>1. RowInv' /\ TypeOK'
    BY RowInvInductive DEF OwnedInv, RowInv
  <2>2. CASE UNCHANGED vars
    BY <2>1, <2>2 DEF vars, OwnedInv, OwnersHold, InHand
  <2>3. CASE Next
    BY <2>1, <2>3, WorkersKeepOwning, OthersKeepOwning DEF Next, OwnedInv
  <2> QED BY <2>2, <2>3
<1> QED BY <1>1, <1>2, PTL DEF Spec

\* A job starts only from the queue, by one claim.
THEOREM JobsStartOnlyFromQueue == Spec => StartsOnlyFromQueue
<1>1. Spec => [][StartStep]_vars
  BY EveryStep, OwnersAlwaysHold, PTL DEF Spec
<1> QED BY <1>1 DEF StartsOnlyFromQueue, StartStep

\* An expired lease is renewed only by a beat of the row's owner, which has the job in
\* hand unless an error of the database made it drop a running job.
THEOREM LeasesRenewedByOwners == Spec => LeaseRenewedByOwner
<1>1. Spec => [][RenewalStep]_vars
  BY EveryStep, OwnersAlwaysHold, PTL DEF Spec
<1> QED BY <1>1 DEF LeaseRenewedByOwner, RenewalStep

-----------------------------------------------------------------------------
(* A disciplined deployment (Disciplined).                                 *)

\* The heart of it: whoever has a job in hand owns its row, so nobody else does.
\* It survives a restart because workers start only while no job is in hand, and
\* the requests because the only one in flight is a retry of a settled job, which
\* nobody else can move.
HoldersOwn ==
    /\ scan = NoScan
    /\ \A h \in Handlers :
          request[h] # NoRequest =>
              /\ request[h].kind = "retry"
              /\ job[request[h].job].status \in {"failed", "cancelled"}
              /\ job[request[h].job] = request[h].row
    /\ \A w \in Workers :
          InHand(w) => /\ job[held[w]].status = "running"
                       /\ job[held[w]].worker_id = w
                       /\ attempt[w] = claims[held[w]]
    /\ \A w \in Workers :
          pc[w] \in {"executing", "failing"} => loaded[w] = job[held[w]].retry_count
    /\ \A j \in Jobs : job[j].status = "completed" => job[j].result = claims[j]
    /\ \A j \in Jobs : job[j].status = "absent" => job[j] = AbsentRow

DisciplineInv == RowInv /\ HoldersOwn

LEMMA InitHoldersOwn == Init => HoldersOwn
BY DEF Init, HoldersOwn, InHand, AbsentRow, NoScan

\* Two workers never have the same job in hand.
LEMMA HoldersDiffer ==
    ASSUME DisciplineInv, NEW v \in Workers, NEW w \in Workers, v # w,
           InHand(v), InHand(w)
    PROVE  held[v] # held[w]
BY DEF DisciplineInv, HoldersOwn

LEMMA ApiKeepsOwners ==
    ASSUME Disciplined, DisciplineInv,
           \/ \E j \in Jobs : Submit(j)
           \/ \E h \in Handlers : RequestStep(h)
    PROVE  HoldersOwn'
<1> USE DEF DisciplineInv, RowInv, TypeOK, HoldersOwn, InHand, loop, table
<1>1. ASSUME NEW j \in Jobs, Submit(j) PROVE HoldersOwn'
  <2>1. \A k \in Jobs : job'[k] = job[k] \/ (job[k].status = "absent" /\ job'[k] = NewRow)
    BY <1>1 DEF Submit
  <2>2. NewRow.status = "queued" BY DEF NewRow, AbsentRow
  <2>3. \A w \in Workers : InHand(w) => job'[held[w]] = job[held[w]]
    BY <2>1, HeldJob
  <2>4. ASSUME NEW h \in Handlers, request[h] # NoRequest
        PROVE  job'[request[h].job] = job[request[h].job]
    <3>1. request[h].job \in Jobs /\ job[request[h].job].status \in {"failed", "cancelled"}
      BY <2>4
    <3> QED BY <2>1, <3>1
  <2> QED BY <1>1, <2>1, <2>2, <2>3, <2>4 DEF Submit
<1>2. ASSUME NEW h \in Handlers, NEW j \in Jobs, RetryChecked(h, j) PROVE HoldersOwn'
  BY <1>2 DEF RetryChecked, Accept
<1>3. ASSUME NEW h \in Handlers, RequestCommits(h) PROVE HoldersOwn'
  <2> DEFINE r == request[h]
  <2>1. r \in [kind : {"cancel", "retry"}, job : Jobs, row : Row]
    BY <1>3 DEF RequestCommits
  <2>2. Flush(job[r.job], r.row, Wanted(r)).status \in {"queued", "cancelled"}
    BY <1>3, <2>1, RequestFlush DEF RequestCommits, CheckedCopies
  <2>3. \A k \in Jobs : job'[k] = job[k] \/ (k = r.job /\ job'[k].status \in {"queued", "cancelled"})
    BY <1>3, <2>1, <2>2 DEF RequestCommits
  <2>4. \A w \in Workers : InHand(w) => job'[held[w]] = job[held[w]]
    BY <1>3, <2>3, HeldJob DEF RequestCommits
  <2>5. \A g \in Handlers : request'[g] = NoRequest
    BY <1>3 DEF RequestCommits, Disciplined
  <2>6. UNCHANGED <<loop, scan, claims>>
    BY <1>3 DEF RequestCommits
  <2>7. /\ scan' = NoScan
        /\ \A k \in Jobs : /\ job'[k].status = "completed" => job'[k].result = claims'[k]
                           /\ job'[k].status = "absent" => job'[k] = AbsentRow
    BY <2>3, <2>6
  <2>8. \A w \in Workers :
            InHand(w)' => /\ job'[held'[w]].status = "running"
                          /\ job'[held'[w]].worker_id = w
                          /\ attempt'[w] = claims'[held'[w]]
    BY <2>4, <2>6
  <2>9. \A w \in Workers :
            pc'[w] \in {"executing", "failing"} => loaded'[w] = job'[held'[w]].retry_count
    BY <2>4, <2>6
  <2> QED BY <2>5, <2>7, <2>8, <2>9
<1>4. ASSUME NEW h \in Handlers, RequestAborts(h) PROVE HoldersOwn'
  BY <1>4 DEF RequestAborts
<1>5. ASSUME NEW h \in Handlers, NEW j \in Jobs PROVE ~CancelChecked(h, j)
  BY DEF CancelChecked, Accept, Disciplined
<1> QED BY <1>1, <1>2, <1>3, <1>4, <1>5 DEF RequestStep

\* A step of a worker that changes only the row of the job in its hands.
LEMMA OwnRowOnly ==
    ASSUME DisciplineInv, NEW w \in Workers, InHand(w),
           \A k \in Jobs : k # held[w] => job'[k] = job[k]
    PROVE  /\ \A v \in Workers : v # w /\ InHand(v) => job'[held[v]] = job[held[v]]
           /\ \A h \in Handlers :
                 request[h] # NoRequest => job'[request[h].job] = job[request[h].job]
<1>1. \A v \in Workers : v # w /\ InHand(v) => job'[held[v]] = job[held[v]]
  BY HoldersDiffer, HeldJob DEF DisciplineInv, RowInv, InHand
<1>2. ASSUME NEW h \in Handlers, request[h] # NoRequest
      PROVE  job'[request[h].job] = job[request[h].job]
  <2>1. request[h].job \in Jobs BY <1>2 DEF DisciplineInv, RowInv, TypeOK
  <2>2. request[h].job # held[w] BY <1>2 DEF DisciplineInv, HoldersOwn
  <2> QED BY <2>1, <2>2
<1> QED BY <1>1, <1>2

\* A worker that lets its job go in a settled or queued state, and changes no
\* other row, leaves every other holder as it was.
LEMMA LettingGoKeepsOwners ==
    ASSUME DisciplineInv, NEW w \in Workers, InHand(w), Release(w), claims' = claims,
           \A k \in Jobs : k # held[w] => job'[k] = job[k],
           job'[held[w]].status \in {"queued", "completed", "failed"},
           job'[held[w]].status = "completed" => job'[held[w]].result = claims[held[w]]
    PROVE  HoldersOwn'
<1>1. scan' = NoScan
  BY DEF Release, DisciplineInv, HoldersOwn
<1>2. \A h \in Handlers :
          request'[h] # NoRequest =>
              /\ request'[h].kind = "retry"
              /\ job'[request'[h].job].status \in {"failed", "cancelled"}
              /\ job'[request'[h].job] = request'[h].row
  BY OwnRowOnly DEF Release, DisciplineInv, HoldersOwn
<1>3. \A v \in Workers :
          /\ InHand(v)' => v # w
          /\ v # w => /\ pc'[v] = pc[v] /\ held'[v] = held[v] /\ attempt'[v] = attempt[v]
                      /\ loaded'[v] = loaded[v]
  BY DEF Release, InHand, DisciplineInv, RowInv, TypeOK, loop
<1>4. \A v \in Workers : InHand(v)' => InHand(v) /\ job'[held'[v]] = job[held[v]]
  BY <1>3, OwnRowOnly DEF InHand
<1>5. \A v \in Workers :
          InHand(v)' => /\ job'[held'[v]].status = "running"
                        /\ job'[held'[v]].worker_id = v
                        /\ attempt'[v] = claims'[held'[v]]
  BY <1>3, <1>4 DEF DisciplineInv, HoldersOwn
<1>6. \A v \in Workers :
          pc'[v] \in {"executing", "failing"} => loaded'[v] = job'[held'[v]].retry_count
  <2> SUFFICES ASSUME NEW v \in Workers, pc'[v] \in {"executing", "failing"}
               PROVE  loaded'[v] = job'[held'[v]].retry_count
    OBVIOUS
  <2>1. InHand(v)' BY DEF InHand
  <2>2. pc[v] \in {"executing", "failing"} /\ loaded'[v] = loaded[v]
    BY <2>1, <1>3
  <2> QED BY <2>1, <2>2, <1>4 DEF DisciplineInv, HoldersOwn
<1>7. \A k \in Jobs : job'[k].status = "completed" => job'[k].result = claims'[k]
  BY DEF DisciplineInv, HoldersOwn
<1>8. \A k \in Jobs : job'[k].status = "absent" => job'[k] = AbsentRow
  BY DEF DisciplineInv, HoldersOwn
<1> QED BY <1>1, <1>2, <1>5, <1>6, <1>7, <1>8 DEF HoldersOwn

LEMMA WorkerKeepsOwners ==
    ASSUME Disciplined, DisciplineInv, NEW w \in Workers, WorkerStep(w)
    PROVE  HoldersOwn'
<1> USE DEF DisciplineInv, RowInv, TypeOK, HoldersOwn, InHand, loop, table, bounds
<1>1. CASE Start(w)
  <2>1. \A v \in Workers : ~InHand(v) /\ ~InHand(v)'
    BY <1>1 DEF Start, Disciplined, Quiet
  <2>2. \A j \in Jobs : job'[j] = job[j] \/ (job[j].status = "running" /\ job'[j].status = "queued")
    BY <1>1, RequeuedWaits DEF Start
  <2>3. \A h \in Handlers : request[h] # NoRequest => job'[request[h].job] = job[request[h].job]
    BY <2>2, ZenonT(120)
  <2> QED BY <1>1, <2>1, <2>2, <2>3, SMTT(60), ZenonT(60) DEF Start
<1>2. CASE Poll(w)
  BY <1>2 DEF Poll
<1>3. CASE Claim(w)
  <2> DEFINE j == held[w]
  <2>1. j \in Jobs /\ job[j].status = "queued" BY <1>3, HeldJob DEF Claim
  <2>2. \A v \in Workers : InHand(v) => v # w /\ held[v] # j
    BY <1>3, <2>1 DEF Claim
  <2>3. /\ \A k \in Jobs \ {j} : job'[k] = job[k] /\ claims'[k] = claims[k]
        /\ job'[j] = ClaimedBy(job[j], w)
        /\ claims'[j] = claims[j] + 1 /\ attempt'[w] = claims[j] + 1
    BY <1>3, <2>1 DEF Claim
  <2>4. job'[j].status = "running" /\ job'[j].worker_id = w
    BY <2>1, <2>3 DEF ClaimedBy, Row
  <2>5. \A v \in Workers : v # w => /\ InHand(v)' <=> InHand(v)
                                    /\ pc'[v] = pc[v] /\ attempt'[v] = attempt[v]
    BY <1>3 DEF Claim
  <2>6. \A v \in Workers : InHand(v) => job'[held[v]] = job[held[v]] /\ claims'[held[v]] = claims[held[v]]
    BY <2>2, <2>3, HeldJob, ZenonT(60)
  <2>7. \A h \in Handlers : request[h] # NoRequest => job'[request[h].job] = job[request[h].job]
    BY <2>1, <2>3, ZenonT(60)
  <2>8. pc'[w] = "claimed" /\ held' = held /\ loaded' = loaded /\ request' = request /\ scan' = scan
    BY <1>3 DEF Claim
  <2> QED BY <2>1, <2>3, <2>4, <2>5, <2>6, <2>7, <2>8
<1>4. CASE LoseClaim(w)
  BY <1>4 DEF LoseClaim, Release
<1>5. CASE Load(w)
  BY <1>5 DEF Load
<1>6. CASE Complete(w)
  <2> DEFINE j == held[w]
  <2>1. j \in Jobs /\ InHand(w) BY <1>6, HeldJob DEF Complete
  <2>2. \A k \in Jobs : k # j => job'[k] = job[k]
    BY <1>6 DEF Complete
  <2>3. job'[j].result = claims[j]
    BY <1>6, <2>1 DEF Complete, Row
  <2>4. job'[j].status = "completed"
    BY <1>6, <2>1 DEF Complete, Row
  <2>5. Release(w) /\ claims' = claims BY <1>6 DEF Complete
  <2> HIDE DEF DisciplineInv, HoldersOwn, InHand
  <2> QED BY <2>1, <2>2, <2>3, <2>4, <2>5, LettingGoKeepsOwners
<1>7. CASE Raise(w)
  BY <1>7 DEF Raise
<1>8. CASE MarkFailed(w)
  <2> DEFINE j == held[w]
  <2>1. j \in Jobs /\ InHand(w) BY <1>8, HeldJob DEF MarkFailed
  <2>2. \A k \in Jobs : k # j => job'[k] = job[k]
    BY <1>8 DEF MarkFailed
  <2>3. RequeuedWith(job[j], loaded[w] + 1).status = "queued"
    BY <2>1 DEF RequeuedWith, Requeued
  <2>4. job'[j].status \in {"queued", "failed"}
    BY <1>8, <2>1, <2>3 DEF MarkFailed
  <2>5. Release(w) /\ claims' = claims BY <1>8 DEF MarkFailed
  <2> HIDE DEF DisciplineInv, HoldersOwn, InHand
  <2> QED BY <2>1, <2>2, <2>4, <2>5, LettingGoKeepsOwners
<1>9. CASE Heartbeat(w)
  <2>1. UNCHANGED <<pc, held, loaded, attempt, request, scan, claims>>
    BY <1>9 DEF Heartbeat
  <2>2. \A k \in Jobs : /\ job'[k].status = job[k].status
                        /\ job'[k].worker_id = job[k].worker_id
                        /\ job'[k].retry_count = job[k].retry_count
                        /\ job'[k].result = job[k].result
                        /\ job[k].status # "running" => job'[k] = job[k]
    BY <1>9, HeartbeatKeeps
  <2>3. \A v \in Workers : InHand(v) => held[v] \in Jobs
    BY HeldJob
  <2>4. \A h \in Handlers : request[h] # NoRequest => job'[request[h].job] = job[request[h].job]
    BY <2>2, ZenonT(60)
  <2>5. \A h \in Handlers :
            request'[h] # NoRequest =>
                /\ request'[h].kind = "retry"
                /\ job'[request'[h].job].status \in {"failed", "cancelled"}
                /\ job'[request'[h].job] = request'[h].row
    BY <2>1, <2>4
  <2>6. ASSUME NEW v \in Workers, InHand(v)
        PROVE  /\ job'[held[v]].status = "running" /\ job'[held[v]].worker_id = v
               /\ attempt[v] = claims[held[v]]
               /\ pc[v] \in {"executing", "failing"} => loaded[v] = job'[held[v]].retry_count
    <3>1. held[v] \in Jobs
      BY <2>3, <2>6
    <3>2. /\ job'[held[v]].status = job[held[v]].status
          /\ job'[held[v]].worker_id = job[held[v]].worker_id
          /\ job'[held[v]].retry_count = job[held[v]].retry_count
      BY <2>2, <3>1
    <3> QED BY <2>6, <3>2
  <2>7. /\ \A v \in Workers :
              InHand(v)' => /\ job'[held'[v]].status = "running"
                            /\ job'[held'[v]].worker_id = v
                            /\ attempt'[v] = claims'[held'[v]]
        /\ \A v \in Workers :
              pc'[v] \in {"executing", "failing"} => loaded'[v] = job'[held'[v]].retry_count
    BY <2>1, <2>6
  <2>8. /\ scan' = NoScan
        /\ \A k \in Jobs : /\ job'[k].status = "completed" => job'[k].result = claims'[k]
                           /\ job'[k].status = "absent" => job'[k] = AbsentRow
    BY <2>1, <2>2
  <2> QED BY <2>5, <2>7, <2>8
<1>10. CASE Stopped(w)
  BY <1>10 DEF Stopped
<1>11. CASE Beat(w)
  BY <1>11 DEF Beat
<1> QED
  BY <1>1, <1>2, <1>3, <1>4, <1>5, <1>6, <1>7, <1>8, <1>9, <1>10, <1>11 DEF WorkerStep

LEMMA TroubleKeepsOwners ==
    ASSUME Disciplined, DisciplineInv,
           \/ \E w \in Workers : WorkerTrouble(w)
           \/ \E j \in Jobs : Expire(j)
           \/ StaleScan \/ StaleCommit \/ StaleCommitFails
    PROVE  HoldersOwn'
<1> USE DEF DisciplineInv, RowInv, TypeOK, HoldersOwn, InHand, loop, table, bounds
<1>1. ASSUME NEW w \in Workers, WorkerTrouble(w) PROVE HoldersOwn'
  <2>1. CASE LoadFails(w) BY <2>1 DEF LoadFails, Release
  <2>2. CASE CompleteFails(w) BY <2>2 DEF CompleteFails
  <2>3. CASE MarkFailedFails(w) BY <2>3 DEF MarkFailedFails, Release
  <2>4. CASE Crash(w) BY <2>4 DEF Crash
  <2>5. CASE Stop(w) BY <2>5 DEF Stop
  <2>6. CASE HeartbeatFails(w) BY <2>6 DEF HeartbeatFails
  <2> QED BY <1>1, <2>1, <2>2, <2>3, <2>4, <2>5, <2>6 DEF WorkerTrouble
<1>2. ASSUME NEW j \in Jobs, Expire(j) PROVE HoldersOwn'
  <2>1. \A k \in Jobs : /\ job'[k].status = job[k].status
                        /\ job'[k].worker_id = job[k].worker_id
                        /\ job'[k].retry_count = job[k].retry_count
                        /\ job'[k].result = job[k].result
    BY <1>2 DEF Expire, Row
  <2>2. \A v \in Workers : InHand(v) => held[v] \in Jobs
    BY HeldJob
  <2>3. \A h \in Handlers : request[h] # NoRequest => job'[request[h].job] = job[request[h].job]
    BY <1>2 DEF Expire
  <2> QED BY <1>2, <2>1, <2>2, <2>3 DEF Expire
<1>3. ~StaleScan /\ ~StaleCommit /\ ~StaleCommitFails
  BY DEF StaleScan, StaleCommit, StaleCommitFails, Disciplined
<1> QED BY <1>1, <1>2, <1>3

LEMMA DisciplineInvariant ==
    ASSUME Disciplined
    PROVE  Spec => []DisciplineInv
<1>1. Init => DisciplineInv
  BY InitRowInv, InitHoldersOwn DEF DisciplineInv
<1>2. DisciplineInv /\ [Next]_vars => DisciplineInv'
  <2> SUFFICES ASSUME DisciplineInv, [Next]_vars PROVE DisciplineInv'
    OBVIOUS
  <2>1. RowInv' BY RowInvInductive DEF DisciplineInv
  <2>2. CASE UNCHANGED vars
    BY <2>1, <2>2 DEF vars, DisciplineInv, HoldersOwn, InHand
  <2>3. CASE Next
    BY <2>1, <2>3, ApiKeepsOwners, WorkerKeepsOwners, TroubleKeepsOwners
       DEF Next, DisciplineInv
  <2> QED BY <2>2, <2>3
<1> QED BY <1>1, <1>2, PTL DEF Spec

\* In a disciplined deployment no job is executed by two workers at once.
THEOREM NoJobIsExecutedTwice ==
    ASSUME Disciplined
    PROVE  Spec => []NoDuplicateExecution
<1>1. DisciplineInv => NoDuplicateExecution
  BY HoldersDiffer DEF NoDuplicateExecution
<1> QED BY <1>1, DisciplineInvariant, PTL

\* In a disciplined deployment a completed job shows its newest attempt's result.
THEOREM ResultsAreNewest ==
    ASSUME Disciplined
    PROVE  Spec => []ResultIsNewest
<1>1. DisciplineInv => ResultIsNewest
  BY DEF DisciplineInv, HoldersOwn, ResultIsNewest
<1> QED BY <1>1, DisciplineInvariant, PTL

-----------------------------------------------------------------------------
(* The attempts.  Every attempt that begins was granted: by the submission *)
(* or by a retry, MaxRetries + 1 each, or by a crash or an error that left *)
(* a row running with nobody at work on it.  The balance counts for every  *)
(* job the claims made, those that its row still grants and those that a   *)
(* request under way will grant; no step takes it above the limit.         *)

InSomeHand(j) == \E w \in Workers : InHand(w) /\ held[w] = j

\* An orphan, which runs in nobody's hand, has the attempt it lost still to come.
Granted(j) ==
    CASE job[j].status \in {"absent", "queued"} -> MaxRetries + 1 - job[j].retry_count
      [] job[j].status = "running" /\ InSomeHand(j) -> MaxRetries - job[j].retry_count
      [] job[j].status = "running" /\ ~InSomeHand(j) -> MaxRetries + 1 - job[j].retry_count
      [] OTHER -> 0

IsAsked(j) == \E h \in Handlers : request[h] # NoRequest /\ request[h].job = j

Asked(j) == IF IsAsked(j) THEN MaxRetries + 1 ELSE 0

Balance(j) == claims[j] + Granted(j) + Asked(j)

Limit == (MaxRetries + 1) * (requests + 1) + departures + faults

AccountsBalance == \A j \in Jobs : Balance(j) <= Limit

LEMMA LimitIsNat == ASSUME TypeOK PROVE Limit \in Nat
<1>1. \A a, b \in Nat : a * b \in Nat
  OBVIOUS
<1>2. (MaxRetries + 1) * (requests + 1) \in Nat
  BY <1>1 DEF TypeOK
<1> QED BY <1>2 DEF Limit, TypeOK

\* What a step that leaves the requests alone does to the limit, and what the check of
\* a request does.
LEMMA LimitMoves ==
    ASSUME TypeOK
    PROVE  /\ UNCHANGED bounds => Limit' = Limit
           /\ departures' = departures + 1 /\ UNCHANGED <<requests, faults>> => Limit' = Limit + 1
           /\ faults' = faults + 1 /\ UNCHANGED <<requests, departures>> => Limit' = Limit + 1
           /\ requests' = requests + 1 /\ UNCHANGED <<departures, faults>>
              => Limit' = Limit + MaxRetries + 1
<1> DEFINE K == MaxRetries + 1
<1>1. \A k, r \in Nat : k * (r + 1) \in Nat /\ k * ((r + 1) + 1) = k * (r + 1) + k
  OBVIOUS
<1>2. K \in Nat
  OBVIOUS
<1>3. Limit = K * (requests + 1) + departures + faults
      /\ Limit' = K * (requests' + 1) + departures' + faults'
  BY DEF Limit
<1> HIDE DEF K
<1>4. K * (requests + 1) \in Nat /\ K * ((requests + 1) + 1) = K * (requests + 1) + K
  BY <1>1, <1>2 DEF TypeOK
<1>5. requests \in Nat /\ departures \in Nat /\ faults \in Nat
  BY DEF TypeOK
<1>6. UNCHANGED bounds => Limit' = Limit
  BY <1>3 DEF bounds
<1>7. /\ departures' = departures + 1 /\ UNCHANGED <<requests, faults>> => Limit' = Limit + 1
      /\ faults' = faults + 1 /\ UNCHANGED <<requests, departures>> => Limit' = Limit + 1
  <2> DEFINE P == K * (requests + 1)
  <2>1. /\ P \in Nat /\ Limit = P + departures + faults
        /\ requests' = requests => Limit' = P + departures' + faults'
    BY <1>3, <1>4
  <2> HIDE DEF P
  <2> QED BY <1>5, <2>1
<1>8. ASSUME requests' = requests + 1, UNCHANGED <<departures, faults>>
      PROVE  Limit' = Limit + K
  <2> DEFINE P == K * (requests + 1)
             Q == K * ((requests + 1) + 1)
  <2>1. P \in Nat /\ Limit = P + departures + faults /\ Limit' = Q + departures + faults
    BY <1>3, <1>4, <1>8
  <2>2. Q = P + K
    BY <1>4
  <2> HIDE DEF P, Q
  <2> QED BY <1>2, <1>5, <2>1, <2>2
<1>9. Limit + MaxRetries + 1 = Limit + K
  BY LimitIsNat DEF K
<1> QED BY <1>6, <1>7, <1>8, <1>9

\* A row grants no fewer than none, and no more than its budget.
LEMMA GrantedBounds ==
    ASSUME RowInv, NEW j \in Jobs
    PROVE  /\ Granted(j) \in Int /\ 0 <= Granted(j)
           /\ claims[j] \in Nat /\ Asked(j) \in Nat
           /\ job[j].status \in {"absent", "queued"} =>
                 Granted(j) = MaxRetries + 1 - job[j].retry_count
           /\ job[j].status = "running" =>
                 Granted(j) = IF InSomeHand(j) THEN MaxRetries - job[j].retry_count
                              ELSE MaxRetries + 1 - job[j].retry_count
           /\ job[j].status \notin {"absent", "queued", "running"} => Granted(j) = 0
<1>1. job[j].retry_count \in Nat /\ job[j].retry_count <= MaxRetries
  BY DEF RowInv, TypeOK, Row, SoundRow
<1>2. claims[j] \in Nat /\ Asked(j) \in Nat
  BY DEF RowInv, TypeOK, Asked
<1>3. CASE job[j].status \in {"absent", "queued"}
  BY <1>1, <1>2, <1>3 DEF Granted
<1>4. CASE job[j].status = "running"
  BY <1>1, <1>2, <1>4 DEF Granted
<1>5. CASE job[j].status \notin {"absent", "queued", "running"}
  BY <1>1, <1>2, <1>5 DEF Granted
<1> QED BY <1>3, <1>4, <1>5

\* A step that leaves a job's status, its retries and its hands alone leaves what it is
\* granted alone.
LEMMA GrantedStays ==
    ASSUME NEW j \in Jobs, job'[j].status = job[j].status,
           job'[j].retry_count = job[j].retry_count, InSomeHand(j)' <=> InSomeHand(j)
    PROVE  Granted(j)' = Granted(j)
BY DEF Granted

\* Whose hands a step of one worker fills or empties.
LEMMA HandsMove ==
    ASSUME DisciplineInv, NEW w \in Workers,
           \A v \in Workers \ {w} : pc'[v] = pc[v] /\ held'[v] = held[v],
           NEW j \in Jobs
    PROVE  /\ InHand(w)' = InHand(w) /\ held'[w] = held[w] => (InSomeHand(j)' <=> InSomeHand(j))
           /\ ~InHand(w) /\ ~InHand(w)' => (InSomeHand(j)' <=> InSomeHand(j))
           /\ InHand(w) /\ ~InHand(w)' => (InSomeHand(j)' <=> InSomeHand(j) /\ j # held[w])
           /\ ~InHand(w) /\ InHand(w)' /\ held'[w] = held[w] =>
                 (InSomeHand(j)' <=> InSomeHand(j) \/ j = held[w])
<1>1. \A v \in Workers \ {w} : (InHand(v)' <=> InHand(v)) /\ held'[v] = held[v]
  BY DEF InHand
<1>2. \A v \in Workers \ {w} : InHand(w) /\ InHand(v) => held[v] # held[w]
  BY HoldersDiffer
<1>3. /\ InSomeHand(j) <=> (InHand(w) /\ held[w] = j) \/ \E v \in Workers \ {w} : InHand(v) /\ held[v] = j
      /\ InSomeHand(j)' <=> (InHand(w)' /\ held'[w] = j) \/ \E v \in Workers \ {w} : InHand(v)' /\ held'[v] = j
  BY DEF InSomeHand
<1> HIDE DEF InHand
<1>4. (\E v \in Workers \ {w} : InHand(v)' /\ held'[v] = j) <=> (\E v \in Workers \ {w} : InHand(v) /\ held[v] = j)
  BY <1>1
<1> QED BY <1>2, <1>3, <1>4

\* The same of the state after a step.
LEMMA GrantedAfter ==
    ASSUME TypeOK', NEW j \in Jobs
    PROVE  /\ Granted(j)' \in Int /\ claims'[j] \in Nat
           /\ job'[j].status \in {"absent", "queued"} =>
                 Granted(j)' = MaxRetries + 1 - job'[j].retry_count
           /\ job'[j].status = "running" /\ InSomeHand(j)' =>
                 Granted(j)' = MaxRetries - job'[j].retry_count
           /\ job'[j].status = "running" /\ ~InSomeHand(j)' =>
                 Granted(j)' = MaxRetries + 1 - job'[j].retry_count
           /\ job'[j].status \notin {"absent", "queued", "running"} => Granted(j)' = 0
<1>1. job'[j].retry_count \in Nat /\ claims'[j] \in Nat
  BY DEF TypeOK, Row
<1>2. CASE job'[j].status \in {"absent", "queued"}
  BY <1>1, <1>2 DEF Granted
<1>3. CASE job'[j].status = "running"
  BY <1>1, <1>3 DEF Granted
<1>4. CASE job'[j].status \notin {"absent", "queued", "running"}
  BY <1>1, <1>4 DEF Granted
<1> QED BY <1>2, <1>3, <1>4

\* A step that is no request moves a balance by what it claims and grants.
LEMMA BalanceMoves ==
    ASSUME RowInv, TypeOK', AccountsBalance, request' = request,
           NEW d \in Nat, Limit' = Limit + d,
           NEW j \in Jobs, claims'[j] + Granted(j)' <= claims[j] + Granted(j) + d
    PROVE  Balance(j)' <= Limit'
<1>1. Asked(j)' = Asked(j)
  BY DEF Asked, IsAsked
<1>2. Limit \in Nat /\ Asked(j) \in Nat /\ claims[j] \in Nat /\ Granted(j) \in Int
      /\ claims'[j] \in Nat /\ Granted(j)' \in Int
  BY LimitIsNat, GrantedBounds, GrantedAfter DEF RowInv
<1>3. claims[j] + Granted(j) + Asked(j) <= Limit
  BY DEF AccountsBalance, Balance
<1>4. Balance(j)' = claims'[j] + Granted(j)' + Asked(j)
  BY <1>1 DEF Balance
<1> QED BY <1>2, <1>3, <1>4

\* The steps that leave every row's status and retries, the claims and the hands alone.
LEMMA BalanceStays ==
    ASSUME RowInv, TypeOK', AccountsBalance, request' = request, claims' = claims,
           NEW d \in Nat, Limit' = Limit + d,
           \A j \in Jobs : /\ job'[j].status = job[j].status
                           /\ job'[j].retry_count = job[j].retry_count
                           /\ InSomeHand(j)' <=> InSomeHand(j)
    PROVE  AccountsBalance'
<1> SUFFICES ASSUME NEW j \in Jobs PROVE Balance(j)' <= Limit'
  BY DEF AccountsBalance
<1>1. Granted(j)' = Granted(j)
  BY GrantedStays
<1>2. Granted(j) \in Int /\ claims[j] \in Nat
  BY GrantedBounds
<1> QED BY <1>1, <1>2, BalanceMoves

\* The API: a submission grants what it is taken to have granted, a retry what the
\* limit was raised by when it was checked.
LEMMA ApiBalances ==
    ASSUME Disciplined, DisciplineInv, TypeOK', AccountsBalance,
           \/ \E j \in Jobs : Submit(j)
           \/ \E h \in Handlers : RequestStep(h)
    PROVE  AccountsBalance'
<1> USE DEF DisciplineInv, RowInv
<1> DEFINE K == MaxRetries + 1
<1>0. Limit \in Nat /\ \A k \in Jobs : Balance(k) <= Limit
  BY LimitIsNat DEF AccountsBalance
<1>1. ASSUME NEW j \in Jobs, Submit(j) PROVE AccountsBalance'
  <2> SUFFICES ASSUME NEW k \in Jobs PROVE Balance(k)' <= Limit'
    BY DEF AccountsBalance
  <2>1. Limit' = Limit /\ request' = request /\ claims' = claims /\ (InSomeHand(k)' <=> InSomeHand(k))
    BY <1>1, LimitMoves DEF Submit, InSomeHand, InHand, loop
  <2>2. CASE k # j
    <3>1. job'[k] = job[k] BY <1>1, <2>2 DEF Submit
    <3>2. Granted(k)' = Granted(k) /\ Granted(k) \in Int /\ claims[k] \in Nat
      BY <2>1, <3>1, GrantedStays, GrantedBounds
    <3>3. Limit' = Limit + 0 /\ claims'[k] + Granted(k)' <= claims[k] + Granted(k) + 0
      BY <1>0, <2>1, <3>2
    <3> QED BY <2>1, <3>3, BalanceMoves
  <2>3. CASE k = j
    <3>1. job[k].status = "absent" /\ job[k].retry_count = 0
      BY <1>1, <2>3 DEF Submit, HoldersOwn, AbsentRow
    <3>2. job'[k].status = "queued" /\ job'[k].retry_count = 0
      BY <1>1, <2>3 DEF Submit, TypeOK, NewRow, AbsentRow
    <3>3. Granted(k) = MaxRetries + 1 - 0
      BY <3>1, GrantedBounds
    <3>4. Granted(k)' = MaxRetries + 1 - 0
      BY <3>2, GrantedAfter
    <3>5. claims[k] \in Nat
      BY DEF TypeOK
    <3>6. Limit' = Limit + 0 /\ claims'[k] + Granted(k)' <= claims[k] + Granted(k) + 0
      BY <1>0, <2>1, <3>3, <3>4, <3>5
    <3> QED BY <2>1, <3>6, BalanceMoves
  <2> QED BY <2>2, <2>3
<1>2. ASSUME NEW h \in Handlers, NEW j \in Jobs, RetryChecked(h, j) PROVE AccountsBalance'
  <2> SUFFICES ASSUME NEW k \in Jobs PROVE Balance(k)' <= Limit'
    BY DEF AccountsBalance
  <2>1. /\ claims' = claims /\ job' = job /\ (InSomeHand(k)' <=> InSomeHand(k))
        /\ requests' = requests + 1 /\ UNCHANGED <<departures, faults>>
    BY <1>2 DEF RetryChecked, Accept, InSomeHand, InHand, loop, table
  <2>2. Limit' = Limit + MaxRetries + 1
    BY <2>1, LimitMoves
  <2>3. ~IsAsked(k)
    BY <1>2 DEF RetryChecked, Accept, IsAsked, Disciplined
  <2>4. Asked(k) = 0 /\ Asked(k)' \in {0, K}
    BY <2>3 DEF Asked
  <2>5. Granted(k)' = Granted(k) /\ Granted(k) \in Int /\ claims[k] \in Nat
    BY <2>1, GrantedStays, GrantedBounds
  <2>6. Balance(k) = claims[k] + Granted(k) + 0 /\ Balance(k)' = claims[k] + Granted(k) + Asked(k)'
    BY <2>1, <2>4, <2>5 DEF Balance
  <2> QED BY <1>0, <2>2, <2>4, <2>5, <2>6
<1>3. ASSUME NEW h \in Handlers, RequestCommits(h) PROVE AccountsBalance'
  <2> SUFFICES ASSUME NEW k \in Jobs PROVE Balance(k)' <= Limit'
    BY DEF AccountsBalance
  <2> DEFINE r == request[h]
  <2>1. /\ r \in [kind : {"cancel", "retry"}, job : Jobs, row : Row] /\ r # NoRequest
        /\ r.kind = "retry" /\ job[r.job].status \in {"failed", "cancelled"}
        /\ job[r.job] = r.row /\ r.row.status \in {"failed", "cancelled"}
    BY <1>3 DEF RequestCommits, HoldersOwn, TypeOK
  <2>2. Limit' = Limit /\ claims' = claims /\ (InSomeHand(k)' <=> InSomeHand(k))
    BY <1>3, LimitMoves DEF RequestCommits, InSomeHand, InHand, loop
  <2>3. Asked(k)' = 0
    <3>1. request'[h] = NoRequest /\ \A g \in Handlers : g = h
      BY <1>3 DEF RequestCommits, TypeOK, Disciplined
    <3> QED BY <3>1 DEF Asked, IsAsked
  <2>4. CASE k # r.job
    <3>1. job'[k] = job[k]
      BY <1>3, <2>1, <2>4 DEF RequestCommits
    <3>2. ~IsAsked(k)
      BY <1>3, <2>4 DEF IsAsked, Disciplined
    <3>3. Granted(k)' = Granted(k) /\ Asked(k) = 0
      BY <2>2, <3>1, <3>2, GrantedStays DEF Asked
    <3> QED BY <1>0, <2>2, <2>3, <3>3 DEF Balance
  <2>5. CASE k = r.job
    <3>1. IsAsked(k)
      BY <1>3, <2>1, <2>5 DEF IsAsked
    <3>2. Asked(k) = K /\ Granted(k) = 0 /\ claims[k] \in Nat
      BY <2>1, <2>5, <3>1, GrantedBounds DEF Asked
    <3>3. job'[k] = Flush(job[k], job[k], Retried(job[k]))
      BY <1>3, <2>1, <2>5 DEF RequestCommits, TypeOK, Wanted
    <3>4. job'[k].status = "queued" /\ job'[k].retry_count = 0
      <4>1. Retried(job[k]).status = "queued" /\ Retried(job[k]).retry_count = 0
        BY DEF Retried, RequeuedWith, Requeued, TypeOK, Row
      <4>2. \A row, new : /\ Flush(row, row, new).status = new.status
                          /\ Flush(row, row, new).retry_count = new.retry_count
        BY DEF Flush, Column
      <4> QED BY <3>3, <4>1, <4>2
    <3>5. Granted(k)' = K
      BY <3>4, GrantedAfter
    <3>6. Balance(k) = claims[k] + 0 + K /\ Balance(k)' = claims[k] + K + 0
      BY <2>2, <2>3, <3>2, <3>5 DEF Balance
    <3> QED BY <1>0, <2>2, <3>2, <3>6
  <2> QED BY <2>4, <2>5
<1>4. ASSUME NEW h \in Handlers, RequestAborts(h) PROVE AccountsBalance'
  <2> SUFFICES ASSUME NEW k \in Jobs PROVE Balance(k)' <= Limit'
    BY DEF AccountsBalance
  <2>1. /\ Limit' = Limit /\ claims' = claims /\ job' = job
        /\ InSomeHand(k)' <=> InSomeHand(k)
    BY <1>4, LimitMoves DEF RequestAborts, InSomeHand, InHand, loop, table
  <2>2. Asked(k)' = 0
    BY <1>4 DEF RequestAborts, TypeOK, Disciplined, Asked, IsAsked
  <2>3. Granted(k)' = Granted(k) /\ Granted(k) \in Int /\ claims[k] \in Nat /\ Asked(k) \in Nat
    BY <2>1, GrantedStays, GrantedBounds
  <2>4. Balance(k) = claims[k] + Granted(k) + Asked(k) /\ Balance(k)' = claims[k] + Granted(k) + 0
    BY <2>1, <2>2, <2>3 DEF Balance
  <2> QED BY <1>0, <2>1, <2>3, <2>4
<1>5. ASSUME NEW h \in Handlers, NEW j \in Jobs PROVE ~CancelChecked(h, j)
  BY DEF CancelChecked, Accept, Disciplined
<1> QED BY <1>1, <1>2, <1>3, <1>4, <1>5 DEF RequestStep

\* A worker that lets go of its job leaves what the other rows grant alone.
LEMMA OthersStay ==
    ASSUME DisciplineInv, NEW w \in Workers, InHand(w), ~InHand(w)',
           \A v \in Workers \ {w} : pc'[v] = pc[v] /\ held'[v] = held[v],
           NEW k \in Jobs, k # held[w], job'[k] = job[k]
    PROVE  Granted(k)' = Granted(k)
<1>1. InSomeHand(k)' <=> InSomeHand(k)
  BY HandsMove
<1> QED BY <1>1, GrantedStays

\* The worker: a claim takes one of the attempts that the row grants, a failure counts
\* the one that ended, and a recovery finds only orphans.
LEMMA WorkerBalances ==
    ASSUME Disciplined, DisciplineInv, TypeOK', AccountsBalance,
           NEW w \in Workers, WorkerStep(w)
    PROVE  AccountsBalance'
<1> DEFINE j == held[w]
<1>0. /\ RowInv /\ HoldersOwn /\ Limit \in Nat
      /\ pc \in [Workers -> {"down", "idle", "selected", "claimed", "executing", "failing"}]
      /\ held \in [Workers -> Jobs \cup {None}] /\ job \in [Jobs -> Row]
      /\ \A k \in Jobs : /\ job[k].retry_count \in Nat /\ job[k].retry_count <= MaxRetries
                         /\ claims[k] \in Nat
  BY LimitIsNat DEF DisciplineInv, RowInv, TypeOK, Row, SoundRow
<1>1. Limit' = Limit + 0 /\ request' = request
      /\ \A v \in Workers \ {w} : pc'[v] = pc[v] /\ held'[v] = held[v]
  <2>1. UNCHANGED bounds /\ request' = request
        /\ \A v \in Workers \ {w} : pc'[v] = pc[v] /\ held'[v] = held[v]
    BY <1>0 DEF WorkerStep, Start, Poll, Claim, LoseClaim, Load, Complete, Raise, MarkFailed,
          Beat, Heartbeat, Stopped, Release, loop, bounds
  <2> QED BY <1>0, <2>1, LimitMoves DEF RowInv
<1>2. CASE Start(w)
  <2> SUFFICES ASSUME NEW k \in Jobs PROVE Balance(k)' <= Limit'
    BY DEF AccountsBalance
  <2>1. ~InSomeHand(k) /\ ~InSomeHand(k)' /\ claims' = claims
    BY <1>2, <1>0 DEF Start, Disciplined, Quiet, InSomeHand, InHand
  <2>2. job[k].status = "running" =>
           job'[k].status = "queued" /\ job'[k].retry_count = job[k].retry_count
    BY <1>2, <1>0 DEF Start, Requeued, Row
  <2>3. job[k].status # "running" => job'[k] = job[k]
    BY <1>2 DEF Start
  <2>4. Granted(k)' = Granted(k)
    BY <2>1, <2>2, <2>3, GrantedStays DEF Granted
  <2>5. Granted(k) \in Int /\ claims[k] \in Nat
    BY <1>0, GrantedBounds
  <2>6. claims'[k] + Granted(k)' <= claims[k] + Granted(k) + 0
    BY <2>1, <2>4, <2>5
  <2> QED BY <1>0, <1>1, <2>6, BalanceMoves
<1>3. CASE \/ Poll(w) \/ Load(w) \/ Raise(w) \/ LoseClaim(w) \/ Stopped(w)
           \/ Beat(w) \/ Heartbeat(w)
  <2>1. \A k \in Jobs : InSomeHand(k)' <=> InSomeHand(k)
    BY <1>0, <1>1, <1>3, HandsMove
       DEF Poll, Load, Raise, LoseClaim, Stopped, Beat, Heartbeat, Release, InHand, loop
  <2>2. \A k \in Jobs : /\ job'[k].status = job[k].status
                        /\ job'[k].retry_count = job[k].retry_count
    <3>1. CASE Heartbeat(w)
      BY <1>0, <3>1, HeartbeatKeeps DEF RowInv
    <3>2. CASE ~Heartbeat(w)
      BY <1>3, <3>2 DEF Poll, Load, Raise, LoseClaim, Stopped, Beat, Release, table
    <3> QED BY <3>1, <3>2
  <2>3. claims' = claims
    BY <1>3 DEF Poll, Load, Raise, LoseClaim, Stopped, Beat, Heartbeat
  <2> QED BY <1>0, <1>1, <2>1, <2>2, <2>3, BalanceStays
<1>4. CASE Claim(w)
  <2> SUFFICES ASSUME NEW k \in Jobs PROVE Balance(k)' <= Limit'
    BY DEF AccountsBalance
  <2>1. /\ j \in Jobs /\ job[j].status = "queued" /\ ~InHand(w) /\ InHand(w)'
        /\ held'[w] = held[w]
    BY <1>0, <1>4, HeldJob DEF Claim, InHand, RowInv
  <2>2. InSomeHand(k)' <=> InSomeHand(k) \/ k = j
    BY <1>1, <2>1, HandsMove
  <2>3. CASE k # j
    <3>1. job'[k] = job[k] /\ claims'[k] = claims[k]
      BY <1>0, <1>4, <2>1, <2>3 DEF Claim, RowInv, TypeOK
    <3>2. Granted(k)' = Granted(k) /\ Granted(k) \in Int
      BY <1>0, <2>2, <2>3, <3>1, GrantedStays, GrantedBounds
    <3>3. claims'[k] + Granted(k)' <= claims[k] + Granted(k) + 0
      BY <1>0, <3>1, <3>2
    <3> QED BY <1>0, <1>1, <3>3, BalanceMoves
  <2>4. CASE k = j
    <3>1. job'[k] = ClaimedBy(job[k], w) /\ claims'[k] = claims[k] + 1
      BY <1>0, <1>4, <2>1, <2>4 DEF Claim, RowInv, TypeOK
    <3>2. job'[k].status = "running" /\ job'[k].retry_count = job[k].retry_count
      BY <1>0, <3>1 DEF ClaimedBy, Row
    <3>3. Granted(k)' = MaxRetries - job[k].retry_count
      BY <2>2, <2>4, <3>2, GrantedAfter
    <3>4. Granted(k) = MaxRetries + 1 - job[k].retry_count
      BY <1>0, <2>1, <2>4, GrantedBounds
    <3>5. claims'[k] + Granted(k)' <= claims[k] + Granted(k) + 0
      BY <1>0, <3>1, <3>3, <3>4
    <3> QED BY <1>0, <1>1, <3>5, BalanceMoves
  <2> QED BY <2>3, <2>4
<1>5. CASE Complete(w) \/ MarkFailed(w)
  <2> SUFFICES ASSUME NEW k \in Jobs PROVE Balance(k)' <= Limit'
    BY DEF AccountsBalance
  <2>1. j \in Jobs /\ InHand(w) /\ ~InHand(w)' /\ claims' = claims
    BY <1>0, <1>5, HeldJob DEF Complete, MarkFailed, Release, InHand, RowInv
  <2>2. CASE k # j
    <3>1. job'[k] = job[k]
      BY <1>0, <1>5, <2>1, <2>2 DEF Complete, MarkFailed
    <3>2. Granted(k)' = Granted(k) /\ Granted(k) \in Int
      BY <1>0, <1>1, <2>1, <2>2, <3>1, OthersStay, GrantedBounds
    <3>3. claims'[k] + Granted(k)' <= claims[k] + Granted(k) + 0
      BY <1>0, <2>1, <3>2
    <3> QED BY <1>0, <1>1, <3>3, BalanceMoves
  <2>3. CASE k = j
    <3>1. job[k].status = "running" /\ InSomeHand(k)
      BY <1>0, <2>1, <2>3 DEF HoldersOwn, InSomeHand
    <3>2. Granted(k) = MaxRetries - job[k].retry_count
      BY <1>0, <3>1, GrantedBounds
    <3>3. \/ job'[k].status \in {"completed", "failed"}
          \/ job'[k].status = "queued" /\ job'[k].retry_count = job[k].retry_count + 1
      <4>1. CASE Complete(w)
        BY <1>0, <2>1, <2>3, <4>1 DEF Complete, Row
      <4>2. CASE MarkFailed(w)
        <5>1. loaded[w] = job[k].retry_count
          BY <1>0, <2>3, <4>2 DEF MarkFailed, HoldersOwn
        <5>2. job'[k] = IF loaded[w] < MaxRetries THEN RequeuedWith(job[k], loaded[w] + 1)
                        ELSE [job[k] EXCEPT !.status = "failed"]
          BY <1>0, <2>1, <2>3, <4>2 DEF MarkFailed
        <5>3. \A n : /\ RequeuedWith(job[k], n).status = "queued"
                     /\ RequeuedWith(job[k], n).retry_count = n
          BY <1>0 DEF RequeuedWith, Requeued, Row
        <5>4. [job[k] EXCEPT !.status = "failed"].status = "failed"
          BY <1>0 DEF Row
        <5> QED BY <5>1, <5>2, <5>3, <5>4
      <4> QED BY <1>5, <4>1, <4>2
    <3>4. Granted(k)' \in {0, MaxRetries + 1 - (job[k].retry_count + 1)}
      BY <3>3, GrantedAfter
    <3>5. claims'[k] + Granted(k)' <= claims[k] + Granted(k) + 0
      BY <1>0, <2>1, <3>2, <3>4
    <3> QED BY <1>0, <1>1, <3>5, BalanceMoves
  <2> QED BY <2>2, <2>3
<1> QED BY <1>2, <1>3, <1>4, <1>5 DEF WorkerStep

\* A worker that drops the job in its hands leaves an orphan: one attempt more to come,
\* and one crash or error more in the limit.
LEMMA DropBalances ==
    ASSUME DisciplineInv, TypeOK', AccountsBalance, NEW w \in Workers, InHand(w), ~InHand(w)',
           \A v \in Workers \ {w} : pc'[v] = pc[v] /\ held'[v] = held[v],
           UNCHANGED <<job, claims, request>>, Limit' = Limit + 1
    PROVE  AccountsBalance'
<1> SUFFICES ASSUME NEW k \in Jobs PROVE Balance(k)' <= Limit'
  BY DEF AccountsBalance
<1>1. RowInv /\ Limit \in Nat /\ job[k].retry_count \in Nat /\ claims[k] \in Nat
  BY LimitIsNat DEF DisciplineInv, RowInv, TypeOK, Row
<1>2. claims'[k] + Granted(k)' <= claims[k] + Granted(k) + 1
  <2>1. CASE k # held[w]
    <3>1. Granted(k)' = Granted(k) /\ Granted(k) \in Int
      BY <1>1, <2>1, OthersStay, GrantedBounds
    <3> QED BY <1>1, <3>1
  <2>2. CASE k = held[w]
    <3>1. job[k].status = "running" /\ InSomeHand(k)
      BY <2>2 DEF DisciplineInv, HoldersOwn, InSomeHand
    <3>2. ~InSomeHand(k)'
      BY <2>2, HandsMove
    <3>3. Granted(k) = MaxRetries - job[k].retry_count
      BY <1>1, <3>1, GrantedBounds
    <3>4. Granted(k)' = MaxRetries + 1 - job[k].retry_count
      BY <3>1, <3>2, GrantedAfter
    <3> QED BY <1>1, <3>3, <3>4
  <2> QED BY <2>1, <2>2
<1> QED BY <1>1, <1>2, BalanceMoves

LEMMA TroubleBalances ==
    ASSUME Disciplined, DisciplineInv, TypeOK', AccountsBalance,
           \/ \E w \in Workers : WorkerTrouble(w)
           \/ \E j \in Jobs : Expire(j)
           \/ StaleScan \/ StaleCommit \/ StaleCommitFails
    PROVE  AccountsBalance'
<1>0. /\ RowInv /\ job \in [Jobs -> Row]
      /\ pc \in [Workers -> {"down", "idle", "selected", "claimed", "executing", "failing"}]
      /\ held \in [Workers -> Jobs \cup {None}] /\ Limit \in Nat
  BY LimitIsNat DEF DisciplineInv, RowInv, TypeOK
<1>1. ASSUME NEW w \in Workers, WorkerTrouble(w) PROVE AccountsBalance'
  <2>1. /\ UNCHANGED <<job, claims, request>>
        /\ \A v \in Workers \ {w} : pc'[v] = pc[v] /\ held'[v] = held[v]
    BY <1>0, <1>1 DEF WorkerTrouble, LoadFails, CompleteFails, MarkFailedFails,
                      HeartbeatFails, Crash, Stop, Release, table
  <2>2. Limit' = Limit + 1
    <3>1. \/ departures' = departures + 1 /\ UNCHANGED <<requests, faults>>
          \/ faults' = faults + 1 /\ UNCHANGED <<requests, departures>>
      BY <1>1 DEF WorkerTrouble, LoadFails, CompleteFails, MarkFailedFails,
                  HeartbeatFails, Crash, Stop, Fault, Depart
    <3> QED BY <1>0, <3>1, LimitMoves DEF RowInv
  <2>3. CASE InHand(w) /\ ~InHand(w)'
    BY <2>1, <2>2, <2>3, DropBalances
  <2>4. CASE \A k \in Jobs : InSomeHand(k)' <=> InSomeHand(k)
    BY <1>0, <2>1, <2>2, <2>4, BalanceStays
  <2>5. (InHand(w) /\ ~InHand(w)') \/ (~InHand(w) /\ ~InHand(w)')
        \/ (InHand(w)' = InHand(w) /\ held'[w] = held[w])
    BY <1>0, <1>1 DEF WorkerTrouble, LoadFails, CompleteFails, MarkFailedFails,
                      HeartbeatFails, Crash, Stop, Release, InHand
  <2> QED BY <2>1, <2>3, <2>4, <2>5, HandsMove
<1>2. ASSUME NEW j \in Jobs, Expire(j) PROVE AccountsBalance'
  <2>1. \A k \in Jobs : /\ job'[k].status = job[k].status
                        /\ job'[k].retry_count = job[k].retry_count
                        /\ InSomeHand(k)' <=> InSomeHand(k)
    BY <1>0, <1>2 DEF Expire, Row, InSomeHand, InHand, loop
  <2>2. request' = request /\ claims' = claims /\ Limit' = Limit + 0
    BY <1>0, <1>2, LimitMoves DEF Expire, RowInv
  <2> QED BY <1>0, <2>1, <2>2, BalanceStays
<1>3. ~StaleScan /\ ~StaleCommit /\ ~StaleCommitFails
  BY DEF StaleScan, StaleCommit, StaleCommitFails, Disciplined, DisciplineInv, HoldersOwn
<1> QED BY <1>1, <1>2, <1>3

LEMMA BalanceInvariant ==
    ASSUME Disciplined
    PROVE  Spec => []AccountsBalance
<1>1. ASSUME Init PROVE AccountsBalance
  <2> SUFFICES ASSUME NEW k \in Jobs PROVE Balance(k) <= Limit
    BY DEF AccountsBalance
  <2>1. RowInv
    BY <1>1, InitRowInv
  <2>2. claims[k] = 0 /\ ~IsAsked(k) /\ job[k].status = "absent" /\ job[k].retry_count = 0
    BY <1>1 DEF Init, IsAsked, AbsentRow
  <2>3. Granted(k) = MaxRetries + 1 - 0
    BY <2>1, <2>2, GrantedBounds
  <2>4. Limit = MaxRetries + 1
    BY <1>1 DEF Init, Limit
  <2> QED BY <2>2, <2>3, <2>4 DEF Balance, Asked
<1>2. DisciplineInv /\ TypeOK' /\ AccountsBalance /\ [Next]_vars => AccountsBalance'
  <2> SUFFICES ASSUME DisciplineInv, TypeOK', AccountsBalance, [Next]_vars PROVE AccountsBalance'
    OBVIOUS
  <2>1. CASE UNCHANGED vars
    BY <2>1 DEF vars, AccountsBalance, Balance, Granted, Asked, IsAsked, InSomeHand, InHand, Limit
  <2>2. CASE Next
    BY <2>2, ApiBalances, WorkerBalances, TroubleBalances DEF Next
  <2> QED BY <2>1, <2>2
<1> QED BY <1>1, <1>2, DisciplineInvariant, TypeCorrect, PTL DEF Spec

\* In a disciplined deployment no job is attempted more often than its submission, its
\* retries, the crashes and the errors explain.
THEOREM AttemptsAreAccounted ==
    ASSUME Disciplined
    PROVE  Spec => []AttemptsAccounted
<1>1. ASSUME DisciplineInv, AccountsBalance PROVE AttemptsAccounted
  <2> SUFFICES ASSUME NEW j \in Jobs PROVE claims[j] <= Limit
    BY DEF AttemptsAccounted, Limit
  <2>1. RowInv /\ Limit \in Nat
    BY <1>1, LimitIsNat DEF DisciplineInv, RowInv
  <2>2. Granted(j) \in Int /\ 0 <= Granted(j) /\ claims[j] \in Nat /\ Asked(j) \in Nat
    BY <2>1, GrantedBounds
  <2>3. claims[j] + Granted(j) + Asked(j) <= Limit
    BY <1>1 DEF AccountsBalance, Balance
  <2> QED BY <2>1, <2>2, <2>3
<1> QED BY <1>1, DisciplineInvariant, BalanceInvariant, PTL

-----------------------------------------------------------------------------
(* The refinement.  Every step leaves the life of a job as it is or moves  *)
(* it as JobLifecycle allows; Lifecycle!life is [j \in Jobs |->            *)
(* LifeOf(job[j])].                                                        *)

LifeMoves(k) ==
    \/ LifeOf(job'[k]) = LifeOf(job[k])
    \/ LifeOf(job[k]) = Lifecycle!Absent /\ LifeOf(job'[k]) = Lifecycle!Waiting(0)
    \/ /\ job[k].status = "queued"
       /\ \E w \in Workers : LifeOf(job'[k]) =
             Lifecycle!Life("running", w, job[k].retry_count)
    \/ /\ job[k].status = "running"
       /\ LifeOf(job'[k]) = Lifecycle!Life("completed", None, job[k].retry_count)
    \/ /\ job[k].status = "running" /\ job[k].retry_count < MaxRetries
       /\ LifeOf(job'[k]) = Lifecycle!Waiting(job[k].retry_count + 1)
    \/ /\ job[k].status = "running"
       /\ LifeOf(job'[k]) = Lifecycle!Waiting(job[k].retry_count)
    \/ /\ job[k].status = "running" /\ job[k].retry_count = MaxRetries
       /\ LifeOf(job'[k]) = Lifecycle!Life("failed", None, job[k].retry_count)
    \/ /\ job[k].status \in {"failed", "cancelled"}
       /\ LifeOf(job'[k]) = Lifecycle!Waiting(0)

\* LifeMoves says of rows what JobLifecycle says of lives.
LEMMA MovesAreLifecycleSteps ==
    ASSUME \A k \in Jobs : LifeMoves(k)
    PROVE  Lifecycle!Next
<1> SUFFICES ASSUME NEW k \in Jobs
             PROVE  \/ Lifecycle!Move(k)
                    \/ LifeOf(job'[k]) = LifeOf(job[k])
  BY DEF Lifecycle!Next
<1> USE DEF LifeOf
<1>1. LifeMoves(k) OBVIOUS
<1> QED
  BY <1>1 DEF LifeMoves, Lifecycle!Move, Lifecycle!Submit, Lifecycle!Start,
       Lifecycle!Complete, Lifecycle!TryAgain, Lifecycle!GiveBack, Lifecycle!GiveUp,
       Lifecycle!Revive, Lifecycle!Waiting, Lifecycle!Absent, Lifecycle!Life

\* The only flush is that of a retry: the row is failed or cancelled, and so was the
\* copy; a number of retries that is not in the copy is zero in it and in the row.
LEMMA RetryFlush ==
    ASSUME NEW row \in Row, NEW old \in Row,
           old.status \in {"failed", "cancelled"}, old.retry_count = row.retry_count
    PROVE  LifeOf(Flush(row, old, Retried(old))) = Lifecycle!Waiting(0)
BY DEF LifeOf, Flush, Column, Retried, RequeuedWith, Requeued, Row, Lifecycle!Waiting, Lifecycle!Life

\* What the updates of a row do to the life of its job.
LEMMA LifeOfClaimed ==
    ASSUME NEW row \in Row, NEW w \in Workers
    PROVE  LifeOf(ClaimedBy(row, w)) = Lifecycle!Life("running", w, row.retry_count)
BY DEF LifeOf, Row, ClaimedBy, Lifecycle!Life

LEMMA LifeOfCounted ==
    ASSUME NEW row \in Row, NEW n \in Nat
    PROVE  /\ LifeOf(RequeuedWith(row, n)) = Lifecycle!Waiting(n)
           /\ LifeOf([row EXCEPT !.status = "completed", !.result = n]) =
                 Lifecycle!Life("completed", None, row.retry_count)
<1>1. LifeOf(RequeuedWith(row, n)) = Lifecycle!Waiting(n)
  BY DEF LifeOf, Row, RequeuedWith, Requeued, Lifecycle!Waiting, Lifecycle!Life
<1>2. LifeOf([row EXCEPT !.status = "completed", !.result = n]) =
         Lifecycle!Life("completed", None, row.retry_count)
  BY DEF LifeOf, Row, Lifecycle!Life
<1> QED BY <1>1, <1>2

LEMMA LifeOfReleased ==
    ASSUME NEW row \in Row
    PROVE  /\ LifeOf(Requeued(row)) = Lifecycle!Waiting(row.retry_count)
           /\ LifeOf([row EXCEPT !.status = "failed"]) =
                 Lifecycle!Life("failed", None, row.retry_count)
<1>1. LifeOf(Requeued(row)) = Lifecycle!Waiting(row.retry_count)
  BY DEF LifeOf, Row, Requeued, Lifecycle!Waiting, Lifecycle!Life
<1>2. LifeOf([row EXCEPT !.status = "failed"]) =
         Lifecycle!Life("failed", None, row.retry_count)
  BY DEF LifeOf, Row, Lifecycle!Life
<1> QED BY <1>1, <1>2

\* A heartbeat that comes or does not come is not part of the life.
LEMMA BeatsDoNotMoveLives ==
    ASSUME NEW row \in Row, NEW b \in {"fresh", "expired"}
    PROVE  LifeOf([row EXCEPT !.last_heartbeat = b]) = LifeOf(row)
BY DEF LifeOf, Row

LEMMA WorkersMoveLives ==
    ASSUME Disciplined, DisciplineInv, NEW w \in Workers, WorkerStep(w)
    PROVE  \A k \in Jobs : LifeMoves(k)
<1> USE DEF DisciplineInv, RowInv, TypeOK, HoldersOwn, InHand, loop, table, bounds
<1> SUFFICES ASSUME NEW k \in Jobs PROVE LifeMoves(k)
  OBVIOUS
<1>1. CASE Start(w)
  <2>1. job[k].status = "running" => LifeOf(job'[k]) = Lifecycle!Waiting(job[k].retry_count)
    BY <1>1, LifeOfReleased DEF Start
  <2>2. job[k].status # "running" => job'[k] = job[k]
    BY <1>1 DEF Start
  <2> QED BY <2>1, <2>2 DEF LifeMoves
<1>2. CASE Poll(w) \/ LoseClaim(w) \/ Load(w) \/ Raise(w) \/ Stopped(w) \/ Beat(w)
  BY <1>2 DEF Poll, LoseClaim, Load, Raise, Stopped, Beat, LifeMoves
<1>3. CASE Claim(w)
  <2>1. CASE k = held[w]
    <3>1. job'[k] = ClaimedBy(job[k], w) /\ job[k].status = "queued"
      BY <1>3, <2>1 DEF Claim
    <3>2. LifeOf(ClaimedBy(job[k], w)) =
             Lifecycle!Life("running", w, job[k].retry_count)
      BY LifeOfClaimed
    <3> QED BY <3>1, <3>2 DEF LifeMoves
  <2>2. CASE k # held[w] BY <1>3, <2>2 DEF Claim, LifeMoves
  <2> QED BY <2>1, <2>2
<1>4. CASE Complete(w)
  <2>1. CASE k = held[w]
    <3>1. /\ job'[k] = [job[k] EXCEPT !.status = "completed", !.result = attempt[w]]
          /\ job[k].status = "running"
      BY <1>4, <2>1 DEF Complete
    <3>2. LifeOf(job'[k]) = Lifecycle!Life("completed", None, job[k].retry_count)
      <4>1. job[k] \in Row /\ attempt[w] \in Nat
        OBVIOUS
      <4>2. LifeOf([job[k] EXCEPT !.status = "completed", !.result = attempt[w]]) =
               Lifecycle!Life("completed", None, job[k].retry_count)
        BY ONLY <4>1, LifeOfCounted
      <4> QED BY ONLY <3>1, <4>2
    <3> QED BY <3>1, <3>2 DEF LifeMoves
  <2>2. CASE k # held[w] BY <1>4, <2>2 DEF Complete, LifeMoves
  <2> QED BY <2>1, <2>2
<1>5. CASE MarkFailed(w)
  <2>1. CASE k = held[w]
    <3>1. job[k].status = "running" /\ loaded[w] = job[k].retry_count
      BY <1>5, <2>1 DEF MarkFailed
    <3>2. CASE job[k].retry_count < MaxRetries
      <4>1. job'[k] = RequeuedWith(job[k], job[k].retry_count + 1)
        BY <1>5, <2>1, <3>1, <3>2 DEF MarkFailed
      <4>2. LifeOf(job'[k]) = Lifecycle!Waiting(job[k].retry_count + 1)
        <5>1. job[k] \in Row /\ job[k].retry_count \in Nat
          BY DEF Row
        <5>2. job[k].retry_count + 1 \in Nat
          BY ONLY <5>1
        <5>3. LifeOf(RequeuedWith(job[k], job[k].retry_count + 1)) =
                 Lifecycle!Waiting(job[k].retry_count + 1)
          BY ONLY <5>1, <5>2, LifeOfCounted
        <5> QED BY ONLY <4>1, <5>3
      <4> QED BY <3>1, <3>2, <4>2 DEF LifeMoves
    <3>3. CASE ~(job[k].retry_count < MaxRetries)
      <4>1. job'[k] = [job[k] EXCEPT !.status = "failed"]
        BY <1>5, <2>1, <3>1, <3>3 DEF MarkFailed
      <4>2. LifeOf(job'[k]) = Lifecycle!Life("failed", None, job[k].retry_count)
        BY <4>1, LifeOfReleased
      <4>3. job[k].retry_count = MaxRetries
        <5>1. SoundRow(job[k]) /\ job[k].retry_count \in Nat
          BY DEF Row
        <5>2. job[k].retry_count <= MaxRetries
          BY <5>1 DEF SoundRow
        <5> QED BY ONLY <3>3, <5>1, <5>2, BoundsAssumption
      <4> QED BY <3>1, <4>2, <4>3 DEF LifeMoves
    <3> QED BY <3>2, <3>3
  <2>2. CASE k # held[w] BY <1>5, <2>2 DEF MarkFailed, LifeMoves
  <2> QED BY <2>1, <2>2
<1>6. CASE Heartbeat(w)
  <2>1. \/ job'[k] = job[k]
        \/ job'[k] = [job[k] EXCEPT !.last_heartbeat = "fresh"]
    BY <1>6, HeartbeatRenews DEF HeartbeatOn
  <2>2. LifeOf(job'[k]) = LifeOf(job[k])
    BY <2>1, BeatsDoNotMoveLives, ZenonT(60)
  <2> QED BY <2>2 DEF LifeMoves
<1> QED BY <1>1, <1>2, <1>3, <1>4, <1>5, <1>6 DEF WorkerStep

LEMMA OthersMoveLives ==
    ASSUME Disciplined, DisciplineInv,
           \/ \E w \in Workers : WorkerTrouble(w)
           \/ \E j \in Jobs : Submit(j) \/ Expire(j)
           \/ \E h \in Handlers : RequestStep(h)
           \/ StaleScan \/ StaleCommit \/ StaleCommitFails
    PROVE  \A k \in Jobs : LifeMoves(k)
<1> USE DEF DisciplineInv, RowInv, TypeOK, HoldersOwn, InHand, loop, table, bounds
<1> SUFFICES ASSUME NEW k \in Jobs PROVE LifeMoves(k)
  OBVIOUS
<1>1. ASSUME NEW w \in Workers, WorkerTrouble(w) PROVE LifeMoves(k)
  BY <1>1 DEF WorkerTrouble, LoadFails, CompleteFails, MarkFailedFails, HeartbeatFails,
              Crash, Stop, LifeMoves
<1>2. ASSUME NEW j \in Jobs, Expire(j) PROVE LifeMoves(k)
  <2>1. \/ job'[k] = job[k]
        \/ job'[k] = [job[k] EXCEPT !.last_heartbeat = "expired"]
    BY <1>2 DEF Expire
  <2>2. LifeOf(job'[k]) = LifeOf(job[k])
    BY <2>1, BeatsDoNotMoveLives, ZenonT(60)
  <2> QED BY <2>2 DEF LifeMoves
<1>3. ASSUME NEW j \in Jobs, Submit(j) PROVE LifeMoves(k)
  <2>1. job'[k] = job[k] \/ (job[k] = AbsentRow /\ job'[k] = NewRow)
    BY <1>3 DEF Submit
  <2>2. LifeOf(AbsentRow) = Lifecycle!Absent /\ LifeOf(NewRow) = Lifecycle!Waiting(0)
    BY DEF LifeOf, AbsentRow, NewRow, Lifecycle!Absent, Lifecycle!Waiting, Lifecycle!Life
  <2> QED BY <2>1, <2>2 DEF LifeMoves
<1>4. ASSUME NEW h \in Handlers, RequestCommits(h) PROVE LifeMoves(k)
  <2> DEFINE r == request[h]
  <2>1. /\ r \in [kind : {"cancel", "retry"}, job : Jobs, row : Row]
        /\ r.kind = "retry" /\ job[r.job] = r.row
        /\ r.row.status \in {"failed", "cancelled"}
    BY <1>4 DEF RequestCommits
  <2>2. CASE k = r.job
    <3>1. job'[k] = Flush(job[k], r.row, Retried(r.row))
      BY <1>4, <2>1, <2>2 DEF RequestCommits, Wanted
    <3>2. LifeOf(job'[k]) = Lifecycle!Waiting(0)
      BY <2>1, <2>2, <3>1, RetryFlush
    <3> QED BY <2>1, <2>2, <3>2 DEF LifeMoves
  <2>3. CASE k # r.job
    BY <1>4, <2>1, <2>3 DEF RequestCommits, LifeMoves
  <2> QED BY <2>2, <2>3
<1>5. ASSUME NEW h \in Handlers, RequestStep(h), ~RequestCommits(h) PROVE LifeMoves(k)
  BY <1>5 DEF RequestStep, CancelChecked, RetryChecked, Accept, RequestAborts, LifeMoves
<1>6. ~StaleScan /\ ~StaleCommit /\ ~StaleCommitFails
  BY DEF StaleScan, StaleCommit, StaleCommitFails, Disciplined
<1> QED BY <1>1, <1>2, <1>3, <1>4, <1>5, <1>6

\* In a disciplined deployment the queue implements the lifecycle of a job.
THEOREM QueueImplementsLifecycle ==
    ASSUME Disciplined
    PROVE  Spec => ImplementsLifecycle
<1>1. Init => Lifecycle!Init
  BY DEF Init, Lifecycle!Init, Lifecycle!Absent, Lifecycle!Life, LifeOf, AbsentRow
<1>2. DisciplineInv /\ [Next]_vars => [Lifecycle!Next]_([j \in Jobs |-> LifeOf(job[j])])
  <2> SUFFICES ASSUME DisciplineInv, [Next]_vars
               PROVE  \/ Lifecycle!Next
                      \/ UNCHANGED [j \in Jobs |-> LifeOf(job[j])]
    OBVIOUS
  <2>1. CASE UNCHANGED vars
    BY <2>1 DEF vars
  <2>2. CASE Next
    BY <2>2, WorkersMoveLives, OthersMoveLives, MovesAreLifecycleSteps DEF Next
  <2> QED BY <2>1, <2>2
<1> QED
  BY <1>1, <1>2, DisciplineInvariant, PTL DEF Spec, ImplementsLifecycle, Lifecycle!Spec

-----------------------------------------------------------------------------
(* Every step of the deployment is a step of the queue or a stutter.       *)

SubmissionInv == submission = NoSubmission \/ submission.job \in Jobs

LEMMA SubmissionsNameJobs == EmbeddedSpec => []SubmissionInv
<1>1. EmbeddedInit => SubmissionInv
  BY DEF EmbeddedInit, SubmissionInv
<1>2. SubmissionInv /\ [EmbeddedNext]_embeddedVars => SubmissionInv'
  <2> SUFFICES ASSUME SubmissionInv, [EmbeddedNext]_embeddedVars PROVE SubmissionInv'
    OBVIOUS
  <2>1. ASSUME NEW p \in Workers, NEW j \in Jobs, Submitting(p, j) PROVE SubmissionInv'
    BY <2>1 DEF Submitting, SubmissionInv
  <2>2. CASE SubmissionEnds
    BY <2>2 DEF SubmissionEnds, SubmissionInv, NoSubmission
  <2>3. ASSUME NEW p \in Workers,
               Boot(p) \/ Dies(p) \/ Starting(p) \/ RecoveryRaises(p) \/ Working(p)
        PROVE  SubmissionInv'
    BY <2>3 DEF Boot, Dies, Starting, RecoveryRaises, Working, embedding, SubmissionInv,
                NoSubmission
  <2>4. ASSUME NEW h \in Handlers, RequestEnds(h) \/ \E p \in Workers : Requesting(h, p)
        PROVE  SubmissionInv'
    BY <2>4 DEF RequestEnds, Requesting, SubmissionInv, NoSubmission
  <2>5. CASE TimePasses \/ UNCHANGED embeddedVars
    BY <2>5 DEF TimePasses, embeddedVars, embedding, SubmissionInv, NoSubmission
  <2> QED BY <2>1, <2>2, <2>3, <2>4, <2>5 DEF EmbeddedNext
<1> QED BY <1>1, <1>2, PTL DEF EmbeddedSpec

LEMMA EmbeddedSteps == SubmissionInv /\ [EmbeddedNext]_embeddedVars => [Next]_vars
<1> SUFFICES ASSUME SubmissionInv, [EmbeddedNext]_embeddedVars PROVE [Next]_vars
  OBVIOUS
<1>1. ASSUME NEW p \in Workers, Boot(p) \/ RecoveryRaises(p) PROVE UNCHANGED vars
  BY <1>1 DEF Boot, RecoveryRaises
<1>2. ASSUME NEW p \in Workers, Dies(p) PROVE [Next]_vars
  BY <1>2 DEF Dies, Next, WorkerTrouble
<1>3. ASSUME NEW p \in Workers, Starting(p) \/ Working(p) PROVE Next
  BY <1>3 DEF Starting, Working, Next, WorkerStep, WorkerTrouble
<1>4. ASSUME NEW p \in Workers, NEW j \in Jobs, Submitting(p, j) PROVE UNCHANGED vars
  BY <1>4 DEF Submitting
<1>5. ASSUME NEW h \in Handlers, RequestEnds(h) \/ \E p \in Workers : Requesting(h, p)
      PROVE Next
  BY <1>5 DEF RequestEnds, Requesting, Next
<1>6. CASE TimePasses
  BY <1>6 DEF TimePasses, Next
<1>7. CASE SubmissionEnds
  <2>1. CASE UNCHANGED vars
    BY <2>1
  <2>2. CASE Submit(submission.job)
    BY <1>7, <2>2 DEF SubmissionEnds, SubmissionInv, Next
  <2> QED BY <1>7, <2>1, <2>2 DEF SubmissionEnds
<1>8. CASE UNCHANGED embeddedVars
  BY <1>8 DEF embeddedVars
<1> QED BY <1>1, <1>2, <1>3, <1>4, <1>5, <1>6, <1>7, <1>8 DEF EmbeddedNext

\* Embedded workers, API processes that die and boot, submissions that ensure a worker
\* before they commit: all of it is a behaviour of JobQueue.
THEOREM EmbeddedImplementsQueue == EmbeddedSpec => Spec
<1>1. EmbeddedInit => Init BY DEF EmbeddedInit
<1> QED BY <1>1, EmbeddedSteps, SubmissionsNameJobs, PTL DEF EmbeddedSpec, Spec

\* What the queue promises under every schedule, the deployment keeps.
THEOREM EmbeddedRowsStayWhole == EmbeddedSpec => [](RowsAreWhole /\ RetryBudget)
BY EmbeddedImplementsQueue, RowsStayWhole, RetriesStayInBudget, PTL

\* In a disciplined deployment the life of a job is that of JobLifecycle.
THEOREM EmbeddedImplementsLifecycle ==
    ASSUME Disciplined
    PROVE  EmbeddedSpec => ImplementsLifecycle
BY EmbeddedImplementsQueue, QueueImplementsLifecycle

\* In a disciplined deployment no embedded worker doubles another's execution, and the
\* deaths of API processes count like any other crash.
THEOREM EmbeddedAttemptsAccounted ==
    ASSUME Disciplined
    PROVE  EmbeddedSpec => [](NoDuplicateExecution /\ AttemptsAccounted)
BY EmbeddedImplementsQueue, NoJobIsExecutedTwice, AttemptsAreAccounted, PTL

-----------------------------------------------------------------------------
(* A worker's loop runs in a thread of a process that is up.               *)

\* Where a loop runs its thread lives, in a process that is up; a process that is up
\* has created its worker, dead or alive.
LoopsHaveThreads ==
    \A p \in Workers : /\ Alive(p) <=> thread[p] = "alive"
                       /\ api[p] = "up" <=> thread[p] # "none"

LifeInv ==
    /\ api \in [Workers -> {"up", "down"}]
    /\ thread \in [Workers -> {"none", "starting", "alive", "dead"}]
    /\ \A p \in Workers : ~stopping[p]
    /\ LoopsHaveThreads

\* The loop of a worker neither starts nor ends but with its thread.
LEMMA LoopsGoOn ==
    ASSUME TypeOK, LifeInv, NEW p \in Workers, Working(p)
    PROVE  LifeInv'
<1>1. UNCHANGED <<api, thread, stopping>>
  BY DEF Working, WorkerStep, embedding, Start, Poll, Claim, LoseClaim, Load, Complete, Raise,
         MarkFailed, Beat, Heartbeat, Stopped, LoadFails, CompleteFails, MarkFailedFails,
         HeartbeatFails, Release, loop, LifeInv
<1>2. \A q \in Workers : Alive(q)' <=> Alive(q)
  BY DEF Working, WorkerStep, Start, Poll, Claim, LoseClaim, Load, Complete, Raise,
         MarkFailed, Beat, Heartbeat, Stopped, LoadFails, CompleteFails, MarkFailedFails,
         HeartbeatFails, Release, loop, LifeInv, LoopsHaveThreads, Alive, TypeOK
<1> QED BY <1>1, <1>2 DEF LifeInv, LoopsHaveThreads

THEOREM LoopsAlwaysHaveThreads == EmbeddedSpec => []LoopsHaveThreads
<1>1. EmbeddedInit => LifeInv
  BY DEF EmbeddedInit, Init, LifeInv, LoopsHaveThreads, Alive
<1>2. TypeOK /\ LifeInv /\ [EmbeddedNext]_embeddedVars => LifeInv'
  <2> SUFFICES ASSUME TypeOK, LifeInv, [EmbeddedNext]_embeddedVars PROVE LifeInv'
    OBVIOUS
  <2> USE DEF LifeInv, LoopsHaveThreads
  <2>1. ASSUME NEW p \in Workers, Boot(p) PROVE LifeInv'
    BY <2>1 DEF Boot, Ensure, vars, Alive
  <2>2. ASSUME NEW p \in Workers, Dies(p) PROVE LifeInv'
    <3>1. CASE Crash(p)
      BY <2>2, <3>1 DEF Dies, Crash, Alive, TypeOK
    <3>2. CASE ~Alive(p) /\ UNCHANGED vars
      BY <2>2, <3>2 DEF Dies, vars, Alive, TypeOK
    <3> QED BY <2>2, <3>1, <3>2 DEF Dies
  <2>3. ASSUME NEW p \in Workers, Starting(p) PROVE LifeInv'
    BY <2>3 DEF Starting, Start, Alive, TypeOK
  <2>4. ASSUME NEW p \in Workers, RecoveryRaises(p) PROVE LifeInv'
    BY <2>4 DEF RecoveryRaises, vars, Alive
  <2>5. ASSUME NEW p \in Workers, Working(p) PROVE LifeInv'
    BY <2>5, LoopsGoOn
  <2>6. ASSUME NEW p \in Workers, NEW j \in Jobs, Submitting(p, j) PROVE LifeInv'
    BY <2>6 DEF Submitting, Ensure, vars, Alive
  <2>7. CASE SubmissionEnds
    BY <2>7 DEF SubmissionEnds, Submit, vars, loop, Alive
  <2>8. ASSUME NEW h \in Handlers, RequestStep(h) PROVE UNCHANGED <<pc, stopping>>
    BY <2>8 DEF RequestStep, CancelChecked, RetryChecked, Accept, RequestCommits,
                RequestAborts, loop
  <2>9. ASSUME NEW h \in Handlers, NEW p \in Workers, Requesting(h, p) PROVE LifeInv'
    BY <2>8, <2>9 DEF Requesting, Ensure, Alive
  <2>10. ASSUME NEW h \in Handlers, RequestEnds(h) PROVE LifeInv'
    BY <2>8, <2>10 DEF RequestEnds, Alive
  <2>11. CASE TimePasses
    BY <2>11 DEF TimePasses, Expire, embedding, loop, Alive
  <2>12. CASE UNCHANGED embeddedVars
    BY <2>12 DEF embeddedVars, embedding, vars, Alive
  <2> QED BY <2>1, <2>2, <2>3, <2>4, <2>5, <2>6, <2>7, <2>9, <2>10, <2>11, <2>12
             DEF EmbeddedNext
<1>3. EmbeddedSpec => []TypeOK
  BY EmbeddedImplementsQueue, TypeCorrect, PTL
<1>4. LifeInv => LoopsHaveThreads
  BY DEF LifeInv
<1> QED BY <1>1, <1>2, <1>3, <1>4, PTL DEF EmbeddedSpec
=============================================================================
