--------------------------- MODULE JobQueueProofs ---------------------------
(***************************************************************************)
(* Proofs about the lease protocol of JobQueue, for any number of jobs and *)
(* workers, any leases, clocks and back-off.                               *)
(***************************************************************************)
EXTENDS JobQueue, TLAPS

-----------------------------------------------------------------------------
(***************************************************************************)
(* The inductive invariants behind the properties of JobQueue.             *)
(***************************************************************************)

Past(w) == pc[w] \in {"process", "fail"}

\* Workers hold jobs that were submitted.
JobsKnown ==
    \A w \in Workers : pc[w] # "idle" => jobs[item[w].job].status # "absent"

\* No worker knows a token the row has not reached: a claim adds one to the
\* token it read and one to the row's.
TokensBounded ==
    \A w \in Workers : pc[w] # "idle" => item[w].token <= jobs[item[w].job].token

\* At most one worker past its claim knows the row's current token.
TokensDistinct ==
    \A v, w \in Workers :
        /\ Past(v) /\ Past(w) /\ item[v].job = item[w].job
        /\ item[v].token = jobs[item[v].job].token
        /\ item[w].token = jobs[item[w].job].token
        => v = w

\* The instant a claim captured is not ahead of the worker's clock.
CapturedNow ==
    \A w \in Workers : pc[w] = "claim" => item[w].at <= Now(w)

\* A job that may still run has an attempt left, one not submitted has made
\* none.
OpenAttempts ==
    \A j \in Jobs :
        /\ jobs[j].status \in {"queued", "running"} =>
              jobs[j].attempts < maxProcessingAttempts
        /\ jobs[j].status = "absent" => jobs[j].attempts = 0

\* The worker that passes the fence is at most one failure behind the row.
HolderAttempts ==
    \A w \in Workers :
        HoldsFence(w) => /\ item[w].attempts <= jobs[item[w].job].attempts
                         /\ jobs[item[w].job].attempts <= item[w].attempts + 1

\* So is a claim that read the row's token, for the token moves between two
\* failures; while the job runs the claim knows the count.
ReadAttempts ==
    \A w \in Workers, j \in Jobs :
        ReadToken(w, j) =>
            /\ item[w].attempts <= jobs[j].attempts
            /\ jobs[j].attempts <= item[w].attempts + 1
            /\ jobs[j].status = "running" => item[w].attempts = jobs[j].attempts

TokenInv == QueueTypeOK /\ JobsKnown /\ TokensBounded /\ TokensDistinct

AttemptsInv == OpenAttempts /\ HolderAttempts /\ ReadAttempts

-----------------------------------------------------------------------------
(***************************************************************************)
(* What the operators on rows return.                                      *)
(***************************************************************************)

\* The values that a worker and the clock contribute are natural numbers.
LEMMA NowType ==
    ASSUME NEW w \in Workers, clock \in Nat \ {0}
    PROVE  /\ Now(w) \in Nat \ {0}
           /\ Now(w) + LeaseTTL[w] \in Nat
           /\ LeaseTTL[w] \in Nat \ {0}
           /\ Skew[w] \in Nat
           /\ Owner(w) \in Owners \ {""}
BY QueueAssumption DEF Now, Owner, Owners

\* The claiming UPDATE yields a row, and what it leaves in it.
LEMMA ClaimedRow ==
    ASSUME NEW r \in JobRow, NEW w \in Workers, NEW now \in Nat
    PROVE  /\ Claimed(r, w, now) \in JobRow
           /\ Claimed(r, w, now).status = "running" /\ Claimed(r, w, now).token = r.token + 1
           /\ Claimed(r, w, now).owner = Owner(w) /\ Claimed(r, w, now).lease = now + LeaseTTL[w]
           /\ Claimed(r, w, now).attempts = r.attempts
           /\ Claimed(r, w, now).chunks = r.chunks /\ Claimed(r, w, now).cursor = r.cursor
           /\ Claimed(r, w, now).checkpoint = r.checkpoint
<1>1. PICK l \in Nat : l = now + LeaseTTL[w]
  BY QueueAssumption
<1>2. PICK t \in Nat : t = r.token + 1
  BY DEF JobRow
<1>3. PICK o \in Owners : o = Owner(w)
  BY DEF Owner, Owners
<1>4. PICK d : d = [r EXCEPT !.status = "running", !.owner = o, !.lease = l,
                             !.next = NoTime, !.token = t]
  OBVIOUS
<1>5. Claimed(r, w, now) = d
  BY <1>1, <1>2, <1>3, <1>4, Zenon DEF Claimed
<1>6. /\ d \in JobRow
      /\ d.status = "running" /\ d.token = t /\ d.owner = o /\ d.lease = l
      /\ d.attempts = r.attempts
      /\ d.chunks = r.chunks /\ d.cursor = r.cursor
      /\ d.checkpoint = r.checkpoint
  BY <1>4 DEF JobRow, Statuses, NoTime
<1>7. QED
  BY <1>1, <1>2, <1>3, <1>5, <1>6, Zenon

\* Fail's UPDATE yields a row, and what it leaves in it.
LEMMA FailedRow ==
    ASSUME NEW r \in JobRow, NEW n \in Nat, NEW now \in Nat
    PROVE  /\ Failed(r, n, now) \in JobRow
           /\ Failed(r, n, now).status \in {"queued", "failed"}
           /\ Failed(r, n, now).status = IF n + 1 < maxProcessingAttempts THEN "queued" ELSE "failed"
           /\ Failed(r, n, now).token = r.token
           /\ Failed(r, n, now).attempts = n + 1
           /\ Failed(r, n, now).status = "queued" => Failed(r, n, now).next >= now + RetryDelay
           /\ Failed(r, n, now).chunks = r.chunks /\ Failed(r, n, now).cursor = r.cursor
           /\ Failed(r, n, now).checkpoint = r.checkpoint
<1>1. PICK s \in {"queued", "failed"} :
         s = IF n + 1 < maxProcessingAttempts THEN "queued" ELSE "failed"
  OBVIOUS
<1>2. PICK m \in Nat : m = n + 1
  OBVIOUS
<1>3. PICK t \in Nat :
         /\ t = IF n + 1 < maxProcessingAttempts THEN now + Backoff(n) ELSE NoTime
         /\ s = "queued" => t >= now + RetryDelay
  <2>1. PICK b \in Nat : b = Backoff(n) /\ b >= RetryDelay
    BY QueueAssumption DEF Backoff
  <2>2. CASE n + 1 < maxProcessingAttempts
    BY <2>1, <2>2, QueueAssumption
  <2>3. CASE ~(n + 1 < maxProcessingAttempts)
    BY <1>1, <2>3 DEF NoTime
  <2>4. QED
    BY <2>2, <2>3
<1>4. PICK d : d = [r EXCEPT !.status = s, !.attempts = m, !.next = t,
                             !.owner = "", !.lease = NoTime]
  OBVIOUS
<1>5. Failed(r, n, now) = d
  BY <1>1, <1>2, <1>3, <1>4, Zenon DEF Failed
<1>6. /\ d \in JobRow
      /\ d.status = s /\ d.token = r.token /\ d.attempts = m /\ d.next = t
      /\ d.chunks = r.chunks /\ d.cursor = r.cursor
      /\ d.checkpoint = r.checkpoint
  BY <1>4 DEF JobRow, Statuses, Owners, NoTime
<1>7. QED
  BY <1>1, <1>2, <1>3, <1>5, <1>6, Zenon

\* Complete's UPDATE yields a row, and what it leaves in it.
LEMMA CompletedRow ==
    ASSUME NEW r \in JobRow
    PROVE  /\ Completed(r) \in JobRow
           /\ Completed(r).status = "completed"
           /\ Completed(r).token = r.token /\ Completed(r).attempts = r.attempts
           /\ Completed(r).chunks = r.chunks /\ Completed(r).cursor = r.cursor
           /\ Completed(r).checkpoint = r.checkpoint
BY DEF JobRow, Completed, Statuses, Owners, NoTime

\* A heartbeat yields a row.
LEMMA RenewedRow ==
    ASSUME NEW r \in JobRow, NEW t \in Nat
    PROVE  /\ Renewed(r, t) \in JobRow
           /\ Renewed(r, t).status = r.status /\ Renewed(r, t).token = r.token /\ Renewed(r, t).lease = t
           /\ Renewed(r, t).attempts = r.attempts /\ Renewed(r, t).next = r.next
           /\ Renewed(r, t).owner = r.owner
           /\ Renewed(r, t).chunks = r.chunks /\ Renewed(r, t).cursor = r.cursor
           /\ Renewed(r, t).checkpoint = r.checkpoint
BY DEF JobRow, Renewed

\* Cancel yields a row and leaves everything but the status alone.
LEMMA CancelledRow ==
    ASSUME NEW r \in JobRow
    PROVE  /\ Cancelled(r) \in JobRow
           /\ Cancelled(r).status = "cancelled" /\ Cancelled(r).token = r.token /\ Cancelled(r).lease = r.lease
           /\ Cancelled(r).attempts = r.attempts /\ Cancelled(r).next = r.next
           /\ Cancelled(r).owner = r.owner
           /\ Cancelled(r).chunks = r.chunks /\ Cancelled(r).cursor = r.cursor
           /\ Cancelled(r).checkpoint = r.checkpoint
BY DEF JobRow, Cancelled, Statuses

\* A submission yields a row.
LEMMA FreshRow ==
    ASSUME NEW now \in Nat
    PROVE  /\ Fresh(now) \in JobRow
           /\ Fresh(now).status = "queued" /\ Fresh(now).attempts = 0 /\ Fresh(now).token = 0
           /\ Fresh(now).chunks = 0 /\ Fresh(now).cursor = 0 /\ Fresh(now).checkpoint = 0
BY DEF Fresh, NoRow, JobRow, Statuses, Owners, NoTime

\* A progress write yields a row and leaves the lease columns alone.
LEMMA ProgressRow ==
    ASSUME NEW r \in JobRow, NEW c \in Nat, NEW u \in Nat, NEW n \in Nat
    PROVE  /\ Progressed(r, c, u, n) \in JobRow
           /\ Progressed(r, c, u, n).status = r.status /\ Progressed(r, c, u, n).token = r.token
           /\ Progressed(r, c, u, n).lease = r.lease /\ Progressed(r, c, u, n).attempts = r.attempts
           /\ Progressed(r, c, u, n).next = r.next /\ Progressed(r, c, u, n).owner = r.owner
           /\ Progressed(r, c, u, n).chunks = n /\ Progressed(r, c, u, n).cursor = u /\ Progressed(r, c, u, n).checkpoint = c
BY DEF JobRow, Progressed

\* The item of a worker whose claim succeeded.
LEMMA ClaimedItem ==
    ASSUME NEW x \in WorkItem
    PROVE  /\ Taken(x) \in WorkItem
           /\ Taken(x).job = x.job /\ Taken(x).token = x.token + 1
           /\ Taken(x).attempts = x.attempts
<1>1. PICK t \in Nat : t = x.token + 1
  BY DEF WorkItem
<1>2. PICK z : z = [x EXCEPT !.token = t, !.at = NoTime]
  OBVIOUS
<1>3. Taken(x) = z
  BY <1>1, <1>2, Zenon DEF Taken
<1>4. z \in WorkItem /\ z.job = x.job /\ z.token = t /\ z.attempts = x.attempts
  BY <1>2 DEF WorkItem, NoTime
<1>5. QED
  BY <1>1, <1>3, <1>4, Zenon

\* A row without a job and an idle worker's item are well formed.
LEMMA Blanks == NoRow \in JobRow /\ NoItem \in WorkItem
BY DEF NoRow, NoItem, JobRow, WorkItem, Statuses, Owners, NoTime

-----------------------------------------------------------------------------
(***************************************************************************)
(* Type correctness.                                                       *)
(***************************************************************************)

\* A worker stays with the job, the token and the count of its claim.
KeepsClaim(v) ==
    /\ item'[v].job = item[v].job /\ item'[v].token = item[v].token
    /\ item'[v].attempts = item[v].attempts

\* A worker that lets go of its job leaves the workers' variables typed.
LEMMA IdleType ==
    ASSUME QueueTypeOK, NEW w \in Workers, Idle(w)
    PROVE  /\ pc' \in [Workers -> {"idle", "claim", "process", "fail"}]
           /\ item' \in [Workers -> WorkItem]
           /\ live' \in [Workers -> BOOLEAN]
           /\ \A v \in Workers : pc'[v] # "idle" => item'[v].job \in Jobs
BY Blanks DEF QueueTypeOK, Idle

\* A worker that plans to report a failure keeps its job and its claim.
LEMMA PlanShape ==
    ASSUME QueueTypeOK, NEW w \in Workers, PlanFailure(w)
    PROVE  /\ pc' \in [Workers -> {"idle", "claim", "process", "fail"}]
           /\ item' \in [Workers -> WorkItem]
           /\ pc'[w] = "fail"
           /\ \A v \in Workers \ {w} : pc'[v] = pc[v] /\ item'[v] = item[v]
           /\ \A v \in Workers : KeepsClaim(v)
<1>1. PICK t \in Nat : t = Now(w)
  BY NowType DEF QueueTypeOK
<1>2. item' = [item EXCEPT ![w].at = t]
  BY <1>1 DEF PlanFailure
<1>3. /\ item[w] \in WorkItem /\ item \in [Workers -> WorkItem]
      /\ pc \in [Workers -> {"idle", "claim", "process", "fail"}]
  BY DEF QueueTypeOK
<1>4. PICK x : x = [item[w] EXCEPT !.at = t]
  OBVIOUS
<1>5. x \in WorkItem /\ x.job = item[w].job /\ x.token = item[w].token
      /\ x.attempts = item[w].attempts
  BY <1>3, <1>4 DEF WorkItem
<1>6. item' = [item EXCEPT ![w] = x]
  BY <1>2, <1>3, <1>4
<1>7. QED
  BY <1>3, <1>5, <1>6 DEF PlanFailure, KeepsClaim

\* An error only plans its report.
LEMMA ErrorShape ==
    ASSUME QueueTypeOK, NEW w \in Workers, ProcessError(w)
    PROVE  /\ pc[w] = "process" /\ pc'[w] = "fail" /\ UNCHANGED <<clock, jobs, live>>
           /\ \A v \in Workers \ {w} : pc'[v] = pc[v] /\ item'[v] = item[v]
           /\ \A v \in Workers : KeepsClaim(v)
BY PlanShape DEF ProcessError

\* What a progress write leaves alone.
LEMMA ProgressShape ==
    ASSUME QueueTypeOK, NEW w \in Workers, SomeProgress(w)
    PROVE  LET j == item[w].job
           IN  /\ j \in Jobs
               /\ jobs'[j] \in JobRow
               /\ jobs'[j].status = jobs[j].status
               /\ jobs'[j].token = jobs[j].token
               /\ jobs'[j].lease = jobs[j].lease
               /\ jobs'[j].attempts = jobs[j].attempts
               /\ jobs'[j].next = jobs[j].next
               /\ jobs'[j].owner = jobs[j].owner
               /\ jobs' = [jobs EXCEPT ![j] = jobs'[j]]
<1> DEFINE j == item[w].job
<1>1. j \in Jobs /\ jobs[j] \in JobRow /\ jobs \in [Jobs -> JobRow]
  BY DEF QueueTypeOK, SomeProgress, Progress, Processing
<1>2. jobs'[j] \in JobRow
  BY DEF SomeProgress
<1>3. PICK c \in Nat, u \in Nat, n \in Nat :
         c = jobs'[j].checkpoint /\ u = jobs'[j].cursor /\ n = jobs'[j].chunks
  BY <1>2 DEF JobRow
<1>4. jobs' = [jobs EXCEPT ![j] = Progressed(jobs[j], c, u, n)]
  BY <1>3 DEF SomeProgress, Progress
<1>5. jobs'[j] = Progressed(jobs[j], c, u, n)
  BY <1>1, <1>4
<1>6. jobs' = [jobs EXCEPT ![j] = jobs'[j]]
  BY <1>1, <1>4
<1>7. /\ jobs'[j].status = jobs[j].status /\ jobs'[j].token = jobs[j].token
      /\ jobs'[j].lease = jobs[j].lease
      /\ jobs'[j].attempts = jobs[j].attempts
      /\ jobs'[j].next = jobs[j].next /\ jobs'[j].owner = jobs[j].owner
  <2>1. PICK r \in JobRow : r = jobs[j]
    BY <1>1
  <2>2. PICK s : s = Progressed(r, c, u, n)
    OBVIOUS
  <2>3. /\ s.status = r.status /\ s.token = r.token /\ s.lease = r.lease
        /\ s.attempts = r.attempts /\ s.next = r.next /\ s.owner = r.owner
    BY <2>2 DEF Progressed, JobRow
  <2>4. QED
    BY <1>5, <2>1, <2>2, <2>3, Zenon
<1>8. QED
  BY <1>1, <1>2, <1>6, <1>7, Zenon

\* Each step of the lease protocol preserves the types.
LEMMA QueueTypeStep ==
    ASSUME QueueTypeOK, [QueueNext]_qvars
    PROVE  QueueTypeOK'
<1> USE DEF QueueTypeOK
<1>1. ASSUME NEW j \in Jobs, Submit(j) PROVE QueueTypeOK'
  <2>1. Fresh(clock) \in JobRow
    BY FreshRow
  <2>2. QED
    BY <1>1, <2>1 DEF Submit
<1>2. ASSUME NEW j \in Jobs, Cancel(j) PROVE QueueTypeOK'
  <2>1. Cancelled(jobs[j]) \in JobRow
    BY CancelledRow
  <2>2. QED
    BY <1>2, <2>1 DEF Cancel
<1>3. CASE Tick
  BY <1>3 DEF Tick
<1>4. ASSUME NEW w \in Workers, NEW j \in Jobs, ClaimSelect(w, j)
      PROVE  QueueTypeOK'
  <2>1. [job |-> j, token |-> jobs[j].token, attempts |-> jobs[j].attempts,
         at |-> Now(w)] \in WorkItem
    BY NowType DEF WorkItem, JobRow
  <2>2. QED
    BY <1>4, <2>1 DEF ClaimSelect
<1>5. ASSUME NEW w \in Workers, ClaimUpdate(w) PROVE QueueTypeOK'
  <2>1. item[w].job \in Jobs /\ item[w].at \in Nat /\ item[w] \in WorkItem
    BY <1>5 DEF ClaimUpdate, WorkItem
  <2>2. Claimed(jobs[item[w].job], w, item[w].at) \in JobRow
    BY <2>1, ClaimedRow
  <2>3. Taken(item[w]) \in WorkItem /\ Taken(item[w]).job = item[w].job
    BY <2>1, ClaimedItem
  <2>4. QED
    BY <1>5, <2>1, <2>2, <2>3 DEF ClaimUpdate
<1>6. ASSUME NEW w \in Workers, SomeProgress(w) PROVE QueueTypeOK'
  BY <1>6, ProgressShape DEF SomeProgress, Progress
<1>7. ASSUME NEW w \in Workers, Heartbeat(w) PROVE QueueTypeOK'
  <2>1. item[w].job \in Jobs
    BY <1>7 DEF Heartbeat, Processing
  <2>2. Renewed(jobs[item[w].job], Now(w) + LeaseTTL[w]) \in JobRow
    BY <2>1, NowType, RenewedRow
  <2>3. QED
    BY <1>7, <2>1, <2>2 DEF Heartbeat
<1>8. ASSUME NEW w \in Workers, Interrupt(w) PROVE QueueTypeOK'
  BY <1>8 DEF Interrupt
<1>9. ASSUME NEW w \in Workers, ProcessError(w) PROVE QueueTypeOK'
  <2>1. PlanFailure(w) /\ pc[w] = "process" /\ UNCHANGED <<clock, jobs, live>>
    BY <1>9 DEF ProcessError
  <2>2. QED
    BY <2>1, PlanShape DEF KeepsClaim
<1>10. ASSUME NEW w \in Workers, NEW ack \in BOOLEAN, Complete(w, ack)
       PROVE  QueueTypeOK'
  <2>1. item[w].job \in Jobs
    BY <1>10 DEF Complete, Processing
  <2>2. jobs' \in [Jobs -> JobRow] /\ clock' = clock
    BY <1>10, <2>1, CompletedRow DEF Complete
  <2>3. CASE ack
    BY <1>10, <2>2, <2>3, IdleType DEF Complete
  <2>4. CASE ~ack
    <3>1. PlanFailure(w) /\ UNCHANGED live
      BY <1>10, <2>4 DEF Complete
    <3>2. QED
      BY <2>1, <2>2, <3>1, PlanShape DEF KeepsClaim
  <2>5. QED
    BY <2>3, <2>4
<1>11. ASSUME NEW w \in Workers, Fail(w) PROVE QueueTypeOK'
  <2>1. item[w].job \in Jobs /\ item[w].attempts \in Nat /\ item[w].at \in Nat
    BY <1>11 DEF Fail, WorkItem
  <2>2. Failed(jobs[item[w].job], item[w].attempts, item[w].at) \in JobRow
    BY <2>1, FailedRow
  <2>3. QED
    BY <1>11, <2>1, <2>2, IdleType DEF Fail
<1>12. ASSUME NEW w \in Workers, ClaimMissed(w) \/ FailStale(w) \/ Crash(w)
       PROVE  QueueTypeOK'
  BY <1>12, IdleType DEF ClaimMissed, FailStale, Crash
<1>13. CASE UNCHANGED qvars
  BY <1>13 DEF qvars
<1>14. QED
  BY <1>1, <1>2, <1>3, <1>4, <1>5, <1>6, <1>7, <1>8, <1>9, <1>10, <1>11,
     <1>12, <1>13 DEF QueueNext, WorkerStep

\* The job table and the workers stay well typed.
THEOREM QueueTypeCorrect == QueueSpec => []QueueTypeOK
<1>1. QueueInit => QueueTypeOK
  BY Blanks DEF QueueInit, QueueTypeOK, NoItem
<1>2. QueueTypeOK /\ [QueueNext]_qvars => QueueTypeOK'
  BY QueueTypeStep
<1>3. QED
  BY <1>1, <1>2, PTL DEF QueueSpec

-----------------------------------------------------------------------------
(***************************************************************************)
(* The fence.  Every step is one of a few shapes as far as tokens go.      *)
(***************************************************************************)

\* Worker w alone changes place, and it lets go of its job.
Released(w) ==
    /\ pc'[w] = "idle"
    /\ \A v \in Workers \ {w} : pc'[v] = pc[v] /\ item'[v] = item[v]

\* No worker moves across its claim.
Steady ==
    /\ \A v \in Workers : KeepsClaim(v)
    /\ \A v \in Workers : (Past(v) <=> Past(v)') /\ (pc[v] = "idle" <=> pc'[v] = "idle")

\* The tokens and the presence of rows stay.
RowsKeep ==
    \A j \in Jobs :
        /\ jobs'[j].token = jobs[j].token
        /\ jobs[j].status # "absent" => jobs'[j].status # "absent"

\* A worker that goes idle and a table whose tokens stay preserve the fence.
LEMMA ReleasePreserves ==
    ASSUME TokenInv, QueueTypeOK', NEW w \in Workers, Released(w), RowsKeep
    PROVE  TokenInv'
<1> USE DEF TokenInv, QueueTypeOK
<1>1. \A v \in Workers : pc'[v] # "idle" =>
         pc'[v] = pc[v] /\ item'[v] = item[v] /\ item[v].job \in Jobs
  BY DEF Released
<1>2. \A v \in Workers : pc'[v] # "idle" =>
         /\ jobs'[item'[v].job].token = jobs[item[v].job].token
         /\ jobs[item[v].job].status # "absent" =>
               jobs'[item'[v].job].status # "absent"
  BY <1>1 DEF RowsKeep
<1>3. JobsKnown' /\ TokensBounded'
  BY <1>1, <1>2 DEF JobsKnown, TokensBounded
<1>4. TokensDistinct'
  BY <1>1, <1>2 DEF TokensDistinct, Past
<1>5. QED
  BY <1>3, <1>4

\* So do steps in which nobody moves across a claim.
LEMMA SteadyPreserves ==
    ASSUME TokenInv, QueueTypeOK', Steady, RowsKeep
    PROVE  TokenInv'
<1> USE DEF TokenInv, QueueTypeOK
<1>1. \A v \in Workers : pc'[v] # "idle" =>
         /\ item'[v].job = item[v].job /\ item'[v].token = item[v].token
         /\ pc[v] # "idle"
         /\ jobs'[item[v].job].token = jobs[item[v].job].token
         /\ jobs[item[v].job].status # "absent" =>
               jobs'[item[v].job].status # "absent"
  BY DEF Steady, RowsKeep, KeepsClaim
<1>2. JobsKnown' /\ TokensBounded'
  BY <1>1 DEF JobsKnown, TokensBounded
<1>3. TokensDistinct'
  BY <1>1 DEF Steady, TokensDistinct, Past
<1>4. QED
  BY <1>2, <1>3

\* Each step of the lease protocol preserves the fence.
LEMMA TokenStep ==
    ASSUME TokenInv, [QueueNext]_qvars
    PROVE  TokenInv'
<1> USE DEF TokenInv
<1>0. QueueTypeOK'
  BY QueueTypeStep
<1> USE DEF QueueTypeOK
<1>1. ASSUME NEW j \in Jobs, Submit(j) PROVE TokenInv'
  <2>1. /\ jobs' = [jobs EXCEPT ![j] = jobs'[j]]
        /\ item' = item /\ pc' = pc
        /\ \A v \in Workers : pc[v] # "idle" => item[v].job # j
    BY <1>1 DEF Submit, JobsKnown
  <2>2. \A v \in Workers : pc'[v] # "idle" =>
           item[v].job \in Jobs /\ jobs'[item[v].job] = jobs[item[v].job]
    BY <2>1
  <2>3. JobsKnown' /\ TokensBounded'
    BY <2>1, <2>2 DEF JobsKnown, TokensBounded
  <2>4. TokensDistinct'
    BY <2>1, <2>2 DEF TokensDistinct, Past
  <2>5. QED
    BY <1>0, <2>3, <2>4
<1>2. ASSUME NEW j \in Jobs, Cancel(j) PROVE TokenInv'
  <2>1. RowsKeep
    BY <1>2, CancelledRow DEF Cancel, RowsKeep
  <2>2. Steady
    BY <1>2 DEF Cancel, Steady, KeepsClaim, Past
  <2>3. QED
    BY <1>0, <2>1, <2>2, SteadyPreserves
<1>3. CASE Tick
  <2>1. Steady /\ RowsKeep
    BY <1>3 DEF Tick, Steady, KeepsClaim, RowsKeep, Past
  <2>2. QED
    BY <1>0, <2>1, SteadyPreserves
<1>4. ASSUME NEW w \in Workers, NEW j \in Jobs, ClaimSelect(w, j)
      PROVE  TokenInv'
  <2>1. jobs' = jobs /\ jobs[j].status # "absent"
    BY <1>4 DEF ClaimSelect, Candidate, Claimable, ReadyQueued, LeaseExpired
  <2>2. /\ \A v \in Workers \ {w} : pc'[v] = pc[v] /\ item'[v] = item[v]
        /\ pc'[w] = "claim" /\ item'[w].job = j
        /\ item'[w].token = jobs[j].token
    BY <1>4 DEF ClaimSelect
  <2>3. JobsKnown' /\ TokensBounded'
    BY <2>1, <2>2 DEF JobsKnown, TokensBounded, JobRow
  <2>4. TokensDistinct'
    BY <2>1, <2>2 DEF TokensDistinct, Past
  <2>5. QED
    BY <1>0, <2>3, <2>4
<1>5. ASSUME NEW w \in Workers, ClaimUpdate(w) PROVE TokenInv'
  <2> DEFINE j == item[w].job
  <2>1. j \in Jobs /\ item[w] \in WorkItem /\ item[w].at \in Nat
    BY <1>5 DEF ClaimUpdate, WorkItem
  <2>2. /\ jobs'[j] = Claimed(jobs[j], w, item[w].at)
        /\ \A k \in Jobs \ {j} : jobs'[k] = jobs[k]
    BY <1>5, <2>1 DEF ClaimUpdate
  <2>3. jobs'[j].token = jobs[j].token + 1 /\ jobs'[j].status = "running"
    BY <2>1, <2>2, ClaimedRow
  <2>4. /\ \A v \in Workers \ {w} : pc'[v] = pc[v] /\ item'[v] = item[v]
        /\ pc'[w] = "process" /\ item'[w].job = j
        /\ item'[w].token = item[w].token + 1
    BY <1>5, <2>1, ClaimedItem DEF ClaimUpdate
  <2>5. /\ \A v \in Workers : item[v].token \in Nat
        /\ \A k \in Jobs : jobs[k].token \in Nat
    BY DEF WorkItem, JobRow
  <2>6. pc[w] = "claim" /\ item[w].token <= jobs[j].token
    BY <1>5 DEF ClaimUpdate, TokensBounded
  <2>7. JobsKnown'
    BY <2>2, <2>3, <2>4 DEF JobsKnown
  <2>8. TokensBounded'
    BY <2>1, <2>2, <2>3, <2>4, <2>5, <2>6 DEF TokensBounded
  <2>9. TokensDistinct'
    <3>1. \A v \in Workers \ {w} :
             Past(v)' /\ item'[v].job = j => item'[v].token # jobs'[j].token
      BY <2>1, <2>3, <2>4, <2>5 DEF Past, TokensBounded
    <3>2. QED
      BY <2>1, <2>2, <2>4, <3>1 DEF TokensDistinct, Past
  <2>10. QED
    BY <1>0, <2>7, <2>8, <2>9
<1>6. ASSUME NEW w \in Workers, SomeProgress(w) PROVE TokenInv'
  <2>1. RowsKeep
    BY <1>6, ProgressShape DEF RowsKeep
  <2>2. Steady
    BY <1>6 DEF SomeProgress, Progress, Steady, KeepsClaim, Past
  <2>3. QED
    BY <1>0, <2>1, <2>2, SteadyPreserves
<1>7. ASSUME NEW w \in Workers, Heartbeat(w) PROVE TokenInv'
  <2>1. RowsKeep
    <3>1. item[w].job \in Jobs /\ Now(w) + LeaseTTL[w] \in Nat
      BY <1>7, NowType DEF Heartbeat, Processing
    <3>2. QED
      BY <1>7, <3>1, RenewedRow DEF Heartbeat, RowsKeep
  <2>2. Steady
    BY <1>7 DEF Heartbeat, Steady, KeepsClaim, Past
  <2>3. QED
    BY <1>0, <2>1, <2>2, SteadyPreserves
<1>8. ASSUME NEW w \in Workers, Interrupt(w) \/ ProcessError(w) PROVE TokenInv'
  <2>1. RowsKeep
    BY <1>8 DEF Interrupt, ProcessError, RowsKeep
  <2>2. Interrupt(w) => Steady
    BY DEF Interrupt, Steady, KeepsClaim, Past
  <2>3. ASSUME ProcessError(w) PROVE Steady
    <3>1. PlanFailure(w) /\ pc[w] = "process"
      BY <2>3 DEF ProcessError
    <3>2. QED
      BY <3>1, PlanShape DEF Steady, Past
  <2>4. QED
    BY <1>0, <1>8, <2>1, <2>2, <2>3, SteadyPreserves
<1>9. ASSUME NEW w \in Workers, NEW ack \in BOOLEAN, Complete(w, ack)
      PROVE  TokenInv'
  <2>1. item[w].job \in Jobs
    BY <1>9 DEF Complete, Processing
  <2>2. RowsKeep
    BY <1>9, <2>1, CompletedRow DEF Complete, RowsKeep
  <2>3. CASE ack
    <3>1. Released(w)
      BY <1>9, <2>3 DEF Complete, Idle, Released
    <3>2. QED
      BY <1>0, <2>2, <3>1, ReleasePreserves
  <2>4. CASE ~ack
    <3>0. PlanFailure(w) /\ pc[w] = "process"
      BY <1>9, <2>4 DEF Complete, Processing
    <3>1. Steady
      BY <3>0, PlanShape DEF Steady, Past
    <3>2. QED
      BY <1>0, <2>2, <3>1, SteadyPreserves
  <2>5. QED
    BY <2>3, <2>4
<1>10. ASSUME NEW w \in Workers, Fail(w) PROVE TokenInv'
  <2>1. item[w].job \in Jobs /\ item[w].attempts \in Nat /\ item[w].at \in Nat
    BY <1>10 DEF Fail, WorkItem
  <2>2. RowsKeep
    <3>1. /\ jobs'[item[w].job] =
               Failed(jobs[item[w].job], item[w].attempts, item[w].at)
          /\ \A k \in Jobs \ {item[w].job} : jobs'[k] = jobs[k]
      BY <1>10, <2>1 DEF Fail
    <3>2. /\ jobs'[item[w].job].token = jobs[item[w].job].token
          /\ jobs'[item[w].job].status \in {"queued", "failed"}
      <4>1. PICK r \in JobRow, n \in Nat, now \in Nat :
               r = jobs[item[w].job] /\ n = item[w].attempts /\ now = item[w].at
        BY <2>1
      <4>2. /\ Failed(r, n, now).token = r.token
            /\ Failed(r, n, now).status \in {"queued", "failed"}
        BY FailedRow
      <4>3. QED
        BY <3>1, <4>1, <4>2, Zenon
    <3>3. QED
      BY <3>1, <3>2 DEF RowsKeep
  <2>3. Released(w)
    BY <1>10 DEF Fail, Idle, Released
  <2>4. QED
    BY <1>0, <2>2, <2>3, ReleasePreserves
<1>11. ASSUME NEW w \in Workers, ClaimMissed(w) \/ FailStale(w) \/ Crash(w)
       PROVE  TokenInv'
  <2>1. Released(w) /\ RowsKeep
    BY <1>11 DEF ClaimMissed, FailStale, Crash, Idle, Released, RowsKeep
  <2>2. QED
    BY <1>0, <2>1, ReleasePreserves
<1>12. CASE UNCHANGED qvars
  <2>1. Steady /\ RowsKeep
    BY <1>12 DEF qvars, Steady, KeepsClaim, RowsKeep, Past
  <2>2. QED
    BY <1>0, <2>1, SteadyPreserves
<1>13. QED
  BY <1>1, <1>2, <1>3, <1>4, <1>5, <1>6, <1>7, <1>8, <1>9, <1>10, <1>11,
     <1>12 DEF QueueNext, WorkerStep

\* Two workers never pass the fence of a job at the same time.
THEOREM FenceIsUnique == QueueSpec => []FenceUnique
<1>1. QueueInit => TokenInv
  BY Blanks DEF QueueInit, TokenInv, QueueTypeOK, JobsKnown, TokensBounded,
                TokensDistinct, Past
<1>2. TokenInv /\ [QueueNext]_qvars => TokenInv'
  BY TokenStep
<1>3. TokenInv => FenceUnique
  BY DEF TokenInv, TokensDistinct, FenceUnique, HoldsFence, fencedJob, Past
<1>4. QED
  BY <1>1, <1>2, <1>3, PTL DEF QueueSpec

-----------------------------------------------------------------------------
(***************************************************************************)
(* What a step may do to a row.                                            *)
(***************************************************************************)

\* Only rows that have not ended change.
LEMMA OnlyOpenRowsChange ==
    ASSUME QueueTypeOK, [QueueNext]_qvars, NEW j \in Jobs, jobs'[j] # jobs[j]
    PROVE  jobs[j].status \in {"absent", "queued", "running"}
<1> USE DEF QueueTypeOK
<1>1. ASSUME NEW k \in Jobs, Submit(k) \/ Cancel(k)
      PROVE  jobs[j].status \in {"absent", "queued", "running"}
  BY <1>1 DEF Submit, Cancel
<1>2. ASSUME NEW w \in Workers, ClaimUpdate(w)
      PROVE  jobs[j].status \in {"absent", "queued", "running"}
  BY <1>2 DEF ClaimUpdate, Claimable, ReadyQueued, LeaseExpired
<1>3. ASSUME NEW w \in Workers,
             \/ SomeProgress(w) \/ Heartbeat(w) \/ Fail(w)
             \/ \E ack \in BOOLEAN : Complete(w, ack)
      PROVE  jobs[j].status \in {"absent", "queued", "running"}
  BY <1>3 DEF SomeProgress, Progress, Heartbeat, Fail, Complete, fencedJob
<1>4. ASSUME NEW w \in Workers,
             \/ \E k \in Jobs : ClaimSelect(w, k)
             \/ ClaimMissed(w) \/ Interrupt(w) \/ ProcessError(w)
             \/ FailStale(w) \/ Crash(w)
      PROVE  FALSE
  BY <1>4 DEF ClaimSelect, ClaimMissed, Interrupt, ProcessError, FailStale, Crash
<1>5. CASE Tick \/ UNCHANGED qvars
  BY <1>5 DEF Tick, qvars
<1>6. QED
  BY <1>1, <1>2, <1>3, <1>4, <1>5 DEF QueueNext, WorkerStep

\* A job that has ended is never touched again, by no late heartbeat,
\* progress, completion or failure.
THEOREM EndedJobsAreFinal == QueueSpec => EndedIsFinal
<1>1. QueueTypeOK /\ [QueueNext]_qvars =>
         [\A j \in Jobs : jobs[j].status \in Ended => jobs'[j] = jobs[j]]_qvars
  BY OnlyOpenRowsChange DEF Ended
<1>2. QED
  BY <1>1, QueueTypeCorrect, PTL DEF QueueSpec, EndedIsFinal

\* The instant that a claim captured stays behind the worker's clock.
LEMMA CapturedStep ==
    ASSUME QueueTypeOK, CapturedNow, [QueueNext]_qvars
    PROVE  CapturedNow'
<1> USE DEF QueueTypeOK
<1>1. \A w \in Workers : Now(w) \in Nat /\ Skew[w] \in Nat /\ item[w].at \in Nat
  BY NowType DEF WorkItem
<1>2. ASSUME NEW w \in Workers, NEW j \in Jobs, ClaimSelect(w, j)
      PROVE  CapturedNow'
  <2>1. /\ item'[w].at = Now(w) /\ clock' = clock
        /\ \A v \in Workers \ {w} : pc'[v] = pc[v] /\ item'[v] = item[v]
    BY <1>2 DEF ClaimSelect
  <2>2. QED
    BY <1>1, <2>1 DEF CapturedNow, Now
<1>3. CASE Tick
  BY <1>1, <1>3 DEF Tick, CapturedNow, Now
<1>4. ASSUME clock' = clock,
             \A v \in Workers : pc'[v] = "claim" =>
                                   pc[v] = "claim" /\ item'[v] = item[v]
      PROVE  CapturedNow'
  BY <1>4 DEF CapturedNow, Now
<1>5. ASSUME NEW j \in Jobs, Submit(j) \/ Cancel(j) PROVE CapturedNow'
  BY <1>4, <1>5 DEF Submit, Cancel
<1>6. ASSUME NEW w \in Workers, ClaimUpdate(w) PROVE CapturedNow'
  BY <1>4, <1>6 DEF ClaimUpdate
<1>7. ASSUME NEW w \in Workers,
             SomeProgress(w) \/ Heartbeat(w) \/ Interrupt(w) \/ ProcessError(w)
      PROVE  CapturedNow'
  <2>1. CASE ProcessError(w)
    BY <1>4, <2>1, PlanShape DEF ProcessError
  <2>2. CASE ~ProcessError(w)
    BY <1>4, <1>7, <2>2 DEF SomeProgress, Progress, Heartbeat, Interrupt
  <2>3. QED
    BY <2>1, <2>2
<1>8. ASSUME NEW w \in Workers, NEW ack \in BOOLEAN, Complete(w, ack)
      PROVE  CapturedNow'
  <2>1. CASE ack
    BY <1>4, <1>8, <2>1 DEF Complete, Idle
  <2>2. CASE ~ack
    BY <1>4, <1>8, <2>2, PlanShape DEF Complete
  <2>3. QED
    BY <2>1, <2>2
<1>9. ASSUME NEW w \in Workers,
             ClaimMissed(w) \/ Fail(w) \/ FailStale(w) \/ Crash(w)
      PROVE  CapturedNow'
  BY <1>4, <1>9 DEF ClaimMissed, Fail, FailStale, Crash, Idle
<1>10. CASE UNCHANGED qvars
  BY <1>4, <1>10 DEF qvars
<1>11. QED
  BY <1>2, <1>3, <1>5, <1>6, <1>7, <1>8, <1>9, <1>10 DEF QueueNext, WorkerStep

\* Only a claim moves the token of a row.
LEMMA OnlyClaimsMoveTokens ==
    ASSUME TokenInv, [QueueNext]_qvars, NEW j \in Jobs,
           jobs'[j].token # jobs[j].token
    PROVE  \/ jobs[j].status = "absent"
           \/ \E w \in Workers : ClaimUpdate(w) /\ item[w].job = j
<1> USE DEF TokenInv, QueueTypeOK
<1>1. ASSUME NEW k \in Jobs, Submit(k) PROVE jobs[j].status = "absent"
  BY <1>1 DEF Submit
<1>2. ASSUME NEW k \in Jobs, Cancel(k) PROVE FALSE
  BY <1>2, CancelledRow DEF Cancel
<1>3. ASSUME NEW w \in Workers, ClaimUpdate(w) PROVE item[w].job = j
  BY <1>3 DEF ClaimUpdate
<1>4. ASSUME NEW w \in Workers, SomeProgress(w) PROVE FALSE
  BY <1>4, ProgressShape
<1>5. ASSUME NEW w \in Workers, Heartbeat(w) PROVE FALSE
  <2>1. item[w].job \in Jobs /\ Now(w) + LeaseTTL[w] \in Nat
    BY <1>5, NowType DEF Heartbeat, Processing
  <2>2. QED
    BY <1>5, <2>1, RenewedRow DEF Heartbeat
<1>6. ASSUME NEW w \in Workers, NEW ack \in BOOLEAN, Complete(w, ack) PROVE FALSE
  BY <1>6, CompletedRow DEF Complete, Processing
<1>7. ASSUME NEW w \in Workers, Fail(w) PROVE FALSE
  <2>1. PICK k \in Jobs, n \in Nat, now \in Nat :
           k = item[w].job /\ n = item[w].attempts /\ now = item[w].at
    BY <1>7 DEF Fail, WorkItem
  <2>2. jobs' = [jobs EXCEPT ![k] = Failed(jobs[k], n, now)]
    BY <1>7, <2>1 DEF Fail
  <2>3. Failed(jobs[k], n, now).token = jobs[k].token
    <3>1. PICK r \in JobRow : r = jobs[k]
      BY <2>1
    <3>2. Failed(r, n, now).token = r.token
      BY FailedRow
    <3>3. QED
      BY <3>1, <3>2, Zenon
  <2>4. QED
    BY <2>2, <2>3
<1>8. ASSUME NEW w \in Workers,
             \/ \E k \in Jobs : ClaimSelect(w, k)
             \/ ClaimMissed(w) \/ Interrupt(w) \/ ProcessError(w)
             \/ FailStale(w) \/ Crash(w)
      PROVE  FALSE
  BY <1>8 DEF ClaimSelect, ClaimMissed, Interrupt, ProcessError, FailStale, Crash
<1>9. CASE Tick \/ UNCHANGED qvars
  BY <1>9 DEF Tick, qvars
<1>10. QED
  BY <1>1, <1>2, <1>3, <1>4, <1>5, <1>6, <1>7, <1>8, <1>9 DEF QueueNext, WorkerStep

LEMMA SlackType == Slack \in Nat
BY QueueAssumption DEF Slack

\* An instant that reads as past is past, or lies ahead by less than Slack.
LEMMA BeforeWithin ==
    ASSUME NEW s \in Nat, NEW t \in Nat, Before(s, t)
    PROVE  s < t + Slack
<1>1. Second \in Nat \ {0}
  BY QueueAssumption
<1>2. CASE s \div Second < t \div Second
  <2>1. s < t
    BY <1>1, <1>2
  <2>2. QED
    BY <2>1, SlackType
<1>3. CASE /\ s \div Second = t \div Second
           /\ FractionRank[s % Second] < FractionRank[t % Second]
  <2>1. s < t + Second
    BY <1>1, <1>3
  <2>2. CASE Second = 1
    <3>1. s \div 1 = s /\ t \div 1 = t
      OBVIOUS
    <3>2. s = t
      BY <1>3, <2>2, <3>1
    <3>3. s % Second \in 0 .. Second - 1
      BY <1>1
    <3>4. FractionRank[s % Second] \in Nat
      BY <3>3, QueueAssumption
    <3>5. QED
      BY <1>3, <3>2, <3>4
  <2>3. QED
    BY <2>1, <2>2 DEF Slack
<1>4. QED
  BY <1>2, <1>3 DEF Before

\* A running job changes hands only once its lease, as the last heartbeat
\* left it, has run out on the clock of a claimer, text order's second aside.
THEOREM LiveLeasesAreKept == QueueSpec => LiveLeaseKept
<1>1. QueueInit => TokenInv /\ CapturedNow
  BY Blanks DEF QueueInit, TokenInv, QueueTypeOK, JobsKnown, TokensBounded,
                TokensDistinct, Past, CapturedNow
<1>2. TokenInv /\ CapturedNow /\ [QueueNext]_qvars => TokenInv' /\ CapturedNow'
  BY TokenStep, CapturedStep DEF TokenInv
<1>3. TokenInv /\ CapturedNow /\ [QueueNext]_qvars =>
         [\A j \in Jobs :
             jobs[j].status = "running" /\ jobs'[j].token # jobs[j].token =>
                \E w \in Workers : jobs[j].lease < Now(w) + Slack]_qvars
  <2>1. SUFFICES ASSUME TokenInv, CapturedNow, [QueueNext]_qvars, NEW j \in Jobs,
                        jobs[j].status = "running", jobs'[j].token # jobs[j].token
                 PROVE  \E w \in Workers : jobs[j].lease < Now(w) + Slack
    OBVIOUS
  <2>2. PICK w \in Workers : ClaimUpdate(w) /\ item[w].job = j
    BY <2>1, OnlyClaimsMoveTokens
  <2>3. Before(jobs[j].lease, item[w].at) /\ item[w].at <= Now(w)
    BY <2>1, <2>2 DEF ClaimUpdate, Claimable, ReadyQueued, LeaseExpired, CapturedNow
  <2>4. jobs[j].lease \in Nat /\ item[w].at \in Nat /\ Now(w) \in Nat
    BY <2>1, <2>2, NowType DEF TokenInv, QueueTypeOK, JobRow, WorkItem
  <2>5. jobs[j].lease < item[w].at + Slack
    BY <2>3, <2>4, BeforeWithin
  <2>6. QED
    BY <2>3, <2>4, <2>5, SlackType
<1>4. QED
  BY <1>1, <1>2, <1>3, PTL DEF QueueSpec, LiveLeaseKept

\* A job that waits for its retry is claimed once next_attempt_at has passed
\* on the clock of a claimer, text order's second aside.
THEOREM BackoffsAreKept == QueueSpec => BackoffKept
<1>1. QueueInit => TokenInv /\ CapturedNow
  BY Blanks DEF QueueInit, TokenInv, QueueTypeOK, JobsKnown, TokensBounded,
                TokensDistinct, Past, CapturedNow
<1>2. TokenInv /\ CapturedNow /\ [QueueNext]_qvars => TokenInv' /\ CapturedNow'
  BY TokenStep, CapturedStep DEF TokenInv
<1>3. TokenInv /\ CapturedNow /\ [QueueNext]_qvars =>
         [\A j \in Jobs :
             /\ jobs[j].status = "queued" /\ jobs[j].next # NoTime
             /\ jobs'[j].token # jobs[j].token
             => \E w \in Workers : jobs[j].next < Now(w) + Slack]_qvars
  <2>1. SUFFICES ASSUME TokenInv, CapturedNow, [QueueNext]_qvars, NEW j \in Jobs,
                        jobs[j].status = "queued", jobs[j].next # NoTime,
                        jobs'[j].token # jobs[j].token
                 PROVE  \E w \in Workers : jobs[j].next < Now(w) + Slack
    OBVIOUS
  <2>2. PICK w \in Workers : ClaimUpdate(w) /\ item[w].job = j
    BY <2>1, OnlyClaimsMoveTokens
  <2>3. Before(jobs[j].next, item[w].at) /\ item[w].at <= Now(w)
    BY <2>1, <2>2 DEF ClaimUpdate, Claimable, ReadyQueued, LeaseExpired, CapturedNow
  <2>4. jobs[j].next \in Nat /\ item[w].at \in Nat /\ Now(w) \in Nat
    BY <2>1, <2>2, NowType DEF TokenInv, QueueTypeOK, JobRow, WorkItem
  <2>5. jobs[j].next < item[w].at + Slack
    BY <2>3, <2>4, BeforeWithin
  <2>6. QED
    BY <2>3, <2>4, <2>5, SlackType
<1>4. QED
  BY <1>1, <1>2, <1>3, PTL DEF QueueSpec, BackoffKept

-----------------------------------------------------------------------------
(***************************************************************************)
(* The count of failures.                                                  *)
(***************************************************************************)

\* The columns that fences and failures read stay, or the job ends and only
\* its token and its count stay.
CountKeeps(j) ==
    /\ jobs'[j].token = jobs[j].token /\ jobs'[j].attempts = jobs[j].attempts
    /\ \/ jobs'[j].status = jobs[j].status /\ jobs'[j].owner = jobs[j].owner
       \/ jobs'[j].status \in Ended

\* Nobody takes up a claim or a job.
NoNewcomer ==
    \A v \in Workers :
        /\ pc'[v] = "claim" => pc[v] = "claim" /\ KeepsClaim(v)
        /\ Past(v)' => Past(v) /\ KeepsClaim(v)

\* A step that leaves the counts and brings no newcomer.
LEMMA QuietPreserves ==
    ASSUME TokenInv, AttemptsInv, QueueTypeOK', NoNewcomer,
           \A j \in Jobs : CountKeeps(j)
    PROVE  AttemptsInv'
<1> USE DEF QueueTypeOK, TokenInv, AttemptsInv
<1>1. OpenAttempts'
  BY DEF OpenAttempts, CountKeeps, Ended
<1>2. \A v \in Workers : pc[v] # "idle" => item[v].job \in Jobs
  OBVIOUS
<1>3. \A v \in Workers : HoldsFence(v)' =>
         /\ HoldsFence(v) /\ KeepsClaim(v)
         /\ jobs'[item[v].job].attempts = jobs[item[v].job].attempts
  BY <1>2 DEF NoNewcomer, HoldsFence, Past, fencedJob, CountKeeps, KeepsClaim, Ended
<1>4. HolderAttempts'
  BY <1>3 DEF HolderAttempts, KeepsClaim
<1>5. \A v \in Workers, j \in Jobs : ReadToken(v, j)' =>
         /\ ReadToken(v, j) /\ KeepsClaim(v)
         /\ jobs'[j].status = "running" => jobs[j].status = "running"
  BY DEF NoNewcomer, ReadToken, CountKeeps, KeepsClaim, Ended
<1>6. ReadAttempts'
  BY <1>5 DEF ReadAttempts, CountKeeps, KeepsClaim
<1>7. QED
  BY <1>1, <1>4, <1>6

\* A submission: nobody knows the job yet.
LEMMA SubmitPreserves ==
    ASSUME TokenInv, AttemptsInv, QueueTypeOK', NEW j \in Jobs, Submit(j)
    PROVE  AttemptsInv'
<1> USE DEF QueueTypeOK, TokenInv, AttemptsInv
<1>1. /\ jobs'[j].status = "queued" /\ jobs'[j].attempts = 0
      /\ \A k \in Jobs \ {j} : jobs'[k] = jobs[k]
      /\ pc' = pc /\ item' = item
  BY DEF Submit, Fresh, NoRow
<1>2. \A v \in Workers : pc[v] # "idle" => item[v].job # j /\ item[v].job \in Jobs
  BY DEF Submit, JobsKnown
<1>3. OpenAttempts'
  BY <1>1 DEF OpenAttempts, maxProcessingAttempts
<1>4. \A v \in Workers : HoldsFence(v)' =>
         HoldsFence(v) /\ jobs'[item[v].job] = jobs[item[v].job]
  BY <1>1, <1>2 DEF HoldsFence, fencedJob
<1>5. HolderAttempts'
  BY <1>1, <1>4 DEF HolderAttempts
<1>6. \A v \in Workers, k \in Jobs : ReadToken(v, k)' =>
         ReadToken(v, k) /\ jobs'[k] = jobs[k]
  BY <1>1, <1>2 DEF ReadToken
<1>7. ReadAttempts'
  BY <1>1, <1>6 DEF ReadAttempts
<1>8. QED
  BY <1>3, <1>5, <1>7

\* A claim that has only been read: the count it read is the row's.
LEMMA SelectPreserves ==
    ASSUME TokenInv, AttemptsInv, QueueTypeOK',
           NEW w \in Workers, NEW j \in Jobs, ClaimSelect(w, j)
    PROVE  AttemptsInv'
<1> USE DEF QueueTypeOK, TokenInv, AttemptsInv
<1>1. /\ jobs' = jobs
      /\ \A v \in Workers \ {w} : pc'[v] = pc[v] /\ item'[v] = item[v]
      /\ pc'[w] = "claim" /\ item'[w].job = j
      /\ item'[w].attempts = jobs[j].attempts
      /\ jobs[j].attempts \in Nat
  BY DEF ClaimSelect, JobRow
<1>2. OpenAttempts'
  BY <1>1 DEF OpenAttempts
<1>3. \A v \in Workers : HoldsFence(v)' => HoldsFence(v) /\ item'[v] = item[v]
  BY <1>1 DEF HoldsFence, fencedJob
<1>4. HolderAttempts'
  BY <1>1, <1>3 DEF HolderAttempts
<1>5. \A v \in Workers \ {w}, k \in Jobs :
         ReadToken(v, k)' => ReadToken(v, k) /\ item'[v] = item[v]
  BY <1>1 DEF ReadToken
<1>6. \A k \in Jobs : ReadToken(w, k)' => k = j
  BY <1>1 DEF ReadToken
<1>7. ReadAttempts'
  BY <1>1, <1>5, <1>6 DEF ReadAttempts
<1>8. QED
  BY <1>2, <1>4, <1>7

\* A claim that succeeds moves the token: it holds the fence only if it read
\* the token the row had, and every other claim has read an older one.
LEMMA ClaimPreserves ==
    ASSUME TokenInv, AttemptsInv, QueueTypeOK', NEW w \in Workers, ClaimUpdate(w)
    PROVE  AttemptsInv'
<1> USE DEF QueueTypeOK, TokenInv, AttemptsInv
<1>1. PICK j \in Jobs, t \in Nat, r \in JobRow, x \in WorkItem :
         /\ j = item[w].job /\ t = item[w].at /\ r = jobs[j] /\ x = item[w]
         /\ pc[w] = "claim" /\ Claimable(r, t)
  BY DEF ClaimUpdate, WorkItem
<1>2. /\ jobs'[j] = Claimed(r, w, t)
      /\ \A k \in Jobs \ {j} : jobs'[k] = jobs[k]
      /\ pc'[w] = "process" /\ item'[w] = Taken(x)
      /\ \A v \in Workers \ {w} : pc'[v] = pc[v] /\ item'[v] = item[v]
  BY <1>1 DEF ClaimUpdate
<1>3. /\ Claimed(r, w, t).status = "running" /\ Claimed(r, w, t).token = r.token + 1
      /\ Claimed(r, w, t).attempts = r.attempts
  BY ClaimedRow
<1>4. Taken(x).job = x.job /\ Taken(x).token = x.token + 1 /\ Taken(x).attempts = x.attempts
  BY ClaimedItem
<1>5. /\ jobs'[j].status = "running" /\ jobs'[j].token = jobs[j].token + 1
      /\ jobs'[j].attempts = jobs[j].attempts
  BY <1>1, <1>2, <1>3, Zenon
<1>6. /\ item'[w].job = j /\ item'[w].token = item[w].token + 1
      /\ item'[w].attempts = item[w].attempts
  BY <1>1, <1>2, <1>4, Zenon
<1>7. /\ \A v \in Workers : item[v].token \in Nat /\ item[v].attempts \in Nat
      /\ \A k \in Jobs : jobs[k].token \in Nat /\ jobs[k].attempts \in Nat
  BY DEF WorkItem, JobRow
<1>8. \A v \in Workers \ {w} :
         pc'[v] # "idle" /\ item'[v].job = j => item'[v].token # jobs'[j].token
  BY <1>2, <1>5, <1>7 DEF TokensBounded
<1>9. OpenAttempts'
  <2>1. jobs[j].status \in {"queued", "running"}
    BY <1>1 DEF Claimable, ReadyQueued, LeaseExpired
  <2>2. QED
    BY <1>2, <1>5, <2>1 DEF OpenAttempts
<1>10. ASSUME NEW v \in Workers, HoldsFence(v)'
       PROVE  /\ item'[v].attempts <= jobs'[item'[v].job].attempts
              /\ jobs'[item'[v].job].attempts <= item'[v].attempts + 1
  <2>1. item'[v].job \in Jobs /\ pc'[v] # "idle"
        /\ item'[v].token = jobs'[item'[v].job].token
    BY <1>10 DEF HoldsFence, fencedJob
  <2>2. CASE v = w
    <3>1. item[w].token = jobs[j].token
      <4>1. item[w].token + 1 = jobs[j].token + 1
        BY <1>5, <1>6, <2>1, <2>2, Zenon
      <4>2. item[w].token \in Nat /\ jobs[j].token \in Nat
        BY <1>1, <1>7
      <4>3. QED
        BY <4>1, <4>2
    <3>2. ReadToken(w, j)
      BY <1>1, <3>1 DEF ReadToken
    <3>3. QED
      BY <1>5, <1>6, <2>2, <3>2 DEF ReadAttempts
  <2>3. CASE v # w
    <3>1. item'[v].job # j /\ item'[v] = item[v] /\ pc'[v] = pc[v]
      BY <1>2, <1>8, <2>1, <2>3
    <3>2. jobs'[item[v].job] = jobs[item[v].job]
      BY <1>2, <2>1, <3>1
    <3>3. HoldsFence(v)
      BY <1>10, <3>1, <3>2 DEF HoldsFence, fencedJob
    <3>4. QED
      BY <3>1, <3>2, <3>3 DEF HolderAttempts
  <2>4. QED
    BY <2>2, <2>3
<1>11. HolderAttempts'
  BY <1>10 DEF HolderAttempts
<1>12. \A v \in Workers, k \in Jobs : ReadToken(v, k)' =>
          ReadToken(v, k) /\ item'[v] = item[v] /\ jobs'[k] = jobs[k]
  BY <1>2, <1>8 DEF ReadToken
<1>13. ReadAttempts'
  BY <1>12 DEF ReadAttempts
<1>14. QED
  BY <1>9, <1>11, <1>13

\* A failure that is reported writes one more than the count its claim read,
\* which is the row's count or the one before it.
LEMMA FailShape ==
    ASSUME TokenInv, AttemptsInv, NEW w \in Workers, Fail(w)
    PROVE  /\ item[w].job \in Jobs
           /\ jobs[item[w].job].status = "running"
           /\ jobs[item[w].job].token = item[w].token
           /\ item[w].attempts \in Nat
           /\ jobs[item[w].job].attempts \in Nat
           /\ item[w].attempts <= jobs[item[w].job].attempts
           /\ jobs[item[w].job].attempts <= item[w].attempts + 1
           /\ jobs[item[w].job].attempts < maxProcessingAttempts
           /\ jobs'[item[w].job].token = jobs[item[w].job].token
           /\ jobs'[item[w].job].attempts = item[w].attempts + 1
           /\ jobs'[item[w].job].status =
                 IF item[w].attempts + 1 < maxProcessingAttempts
                 THEN "queued" ELSE "failed"
           /\ \A k \in Jobs \ {item[w].job} : jobs'[k] = jobs[k]
<1> USE DEF QueueTypeOK, TokenInv, AttemptsInv
<1>1. PICK j \in Jobs, r \in JobRow, n \in Nat, now \in Nat :
         /\ j = item[w].job /\ r = jobs[j] /\ n = item[w].attempts /\ now = item[w].at
  BY DEF Fail, WorkItem
<1>2. r.status = "running" /\ r.token = item[w].token /\ HoldsFence(w)
  BY <1>1 DEF Fail, HoldsFence, fencedJob
<1>3. /\ n <= r.attempts /\ r.attempts <= n + 1 /\ r.attempts \in Nat
      /\ r.attempts < maxProcessingAttempts
  BY <1>1, <1>2 DEF HolderAttempts, OpenAttempts, JobRow
<1>4. /\ jobs'[j] = Failed(r, n, now)
      /\ \A k \in Jobs \ {j} : jobs'[k] = jobs[k]
  BY <1>1 DEF Fail
<1>5. /\ Failed(r, n, now).status =
            IF n + 1 < maxProcessingAttempts THEN "queued" ELSE "failed"
      /\ Failed(r, n, now).attempts = n + 1
      /\ Failed(r, n, now).token = r.token
  BY FailedRow
<1>6. /\ jobs'[j].attempts = n + 1 /\ jobs'[j].token = r.token
      /\ jobs'[j].status =
            IF n + 1 < maxProcessingAttempts THEN "queued" ELSE "failed"
  BY <1>4, <1>5, Zenon
<1>7. QED
  BY <1>1, <1>2, <1>3, <1>4, <1>6, Zenon

\* A failure takes the job from its holder; the claims that read its token
\* knew the count and are now one behind it at most.
LEMMA FailPreserves ==
    ASSUME TokenInv, AttemptsInv, QueueTypeOK', NEW w \in Workers, Fail(w)
    PROVE  AttemptsInv'
<1> USE DEF QueueTypeOK, TokenInv
<1>1. PICK j \in Jobs : j = item[w].job
  BY FailShape
<1>2. /\ jobs[j].status = "running" /\ item[w].attempts \in Nat /\ jobs[j].attempts \in Nat
      /\ item[w].attempts <= jobs[j].attempts /\ jobs[j].attempts <= item[w].attempts + 1
      /\ jobs'[j].token = jobs[j].token /\ jobs'[j].attempts = item[w].attempts + 1
      /\ jobs'[j].status = IF item[w].attempts + 1 < maxProcessingAttempts
                           THEN "queued" ELSE "failed"
      /\ \A k \in Jobs \ {j} : jobs'[k] = jobs[k]
  BY <1>1, FailShape
<1>3. /\ pc'[w] = "idle"
      /\ \A v \in Workers \ {w} : pc'[v] = pc[v] /\ item'[v] = item[v]
  BY DEF Fail, Idle
<1>4. OpenAttempts'
  BY <1>2 DEF AttemptsInv, OpenAttempts
<1>5. \A v \in Workers : HoldsFence(v)' =>
         /\ HoldsFence(v) /\ item'[v] = item[v]
         /\ jobs'[item[v].job] = jobs[item[v].job]
  BY <1>2, <1>3 DEF HoldsFence, fencedJob
<1>6. HolderAttempts'
  BY <1>5 DEF AttemptsInv, HolderAttempts
<1>7. ASSUME NEW v \in Workers, NEW k \in Jobs, ReadToken(v, k)'
      PROVE  /\ item'[v].attempts <= jobs'[k].attempts
             /\ jobs'[k].attempts <= item'[v].attempts + 1
             /\ jobs'[k].status = "running" => item'[v].attempts = jobs'[k].attempts
  <2>1. item'[v] = item[v] /\ ReadToken(v, k)
    BY <1>2, <1>3, <1>7 DEF ReadToken
  <2>2. CASE k = j
    <3>1. item[v].attempts = jobs[j].attempts
      BY <1>2, <2>1, <2>2 DEF AttemptsInv, ReadAttempts
    <3>2. QED
      BY <1>2, <2>1, <2>2, <3>1
  <2>3. CASE k # j
    BY <1>2, <2>1, <2>3 DEF AttemptsInv, ReadAttempts
  <2>4. QED
    BY <2>2, <2>3
<1>8. ReadAttempts'
  BY <1>7 DEF ReadAttempts
<1>9. QED
  BY <1>4, <1>6, <1>8 DEF AttemptsInv

\* Each step of the lease protocol preserves the count's invariant.
LEMMA AttemptsStep ==
    ASSUME TokenInv, AttemptsInv, [QueueNext]_qvars
    PROVE  AttemptsInv'
<1> USE DEF TokenInv
<1>0. QueueTypeOK'
  BY QueueTypeStep
<1> USE DEF QueueTypeOK
<1>1. ASSUME NEW j \in Jobs, Submit(j) PROVE AttemptsInv'
  BY <1>0, <1>1, SubmitPreserves
<1>2. ASSUME NEW w \in Workers, NEW j \in Jobs, ClaimSelect(w, j)
      PROVE  AttemptsInv'
  BY <1>0, <1>2, SelectPreserves
<1>3. ASSUME NEW w \in Workers, ClaimUpdate(w) PROVE AttemptsInv'
  BY <1>0, <1>3, ClaimPreserves
<1>4. ASSUME NEW w \in Workers, Fail(w) PROVE AttemptsInv'
  BY <1>0, <1>4, FailPreserves
<1>5. ASSUME UNCHANGED <<pc, item>> PROVE NoNewcomer
  BY <1>5 DEF NoNewcomer, KeepsClaim, Past
<1>6. ASSUME NEW j \in Jobs, Cancel(j) PROVE AttemptsInv'
  <2>1. \A k \in Jobs : CountKeeps(k)
    BY <1>6, CancelledRow DEF Cancel, CountKeeps, Ended
  <2>2. NoNewcomer
    BY <1>5, <1>6 DEF Cancel
  <2>3. QED
    BY <1>0, <2>1, <2>2, QuietPreserves
<1>7. ASSUME NEW w \in Workers, SomeProgress(w) PROVE AttemptsInv'
  <2>1. \A j \in Jobs : CountKeeps(j)
    BY <1>7, ProgressShape DEF CountKeeps
  <2>2. NoNewcomer
    BY <1>5, <1>7 DEF SomeProgress, Progress
  <2>3. QED
    BY <1>0, <2>1, <2>2, QuietPreserves
<1>8. ASSUME NEW w \in Workers, Heartbeat(w) PROVE AttemptsInv'
  <2>1. \A j \in Jobs : CountKeeps(j)
    <3>1. item[w].job \in Jobs /\ Now(w) + LeaseTTL[w] \in Nat
      BY <1>8, NowType DEF Heartbeat, Processing
    <3>2. QED
      BY <1>8, <3>1, RenewedRow DEF Heartbeat, CountKeeps
  <2>2. NoNewcomer
    BY <1>5, <1>8 DEF Heartbeat
  <2>3. QED
    BY <1>0, <2>1, <2>2, QuietPreserves
<1>9. ASSUME NEW w \in Workers, NEW ack \in BOOLEAN, Complete(w, ack)
      PROVE  AttemptsInv'
  <2>1. \A j \in Jobs : CountKeeps(j)
    BY <1>9, CompletedRow DEF Complete, Processing, CountKeeps, Ended
  <2>2. NoNewcomer
    <3>1. CASE ack
      BY <1>9, <3>1 DEF Complete, Idle, NoNewcomer, KeepsClaim, Past
    <3>2. CASE ~ack
      <4>1. PlanFailure(w) /\ pc[w] = "process"
        BY <1>9, <3>2 DEF Complete, Processing
      <4>2. QED
        BY <4>1, PlanShape DEF NoNewcomer, Past
    <3>3. QED
      BY <3>1, <3>2
  <2>3. QED
    BY <1>0, <2>1, <2>2, QuietPreserves
<1>10. ASSUME NEW w \in Workers,
              \/ Interrupt(w) \/ ProcessError(w) \/ ClaimMissed(w)
              \/ FailStale(w) \/ Crash(w)
       PROVE  AttemptsInv'
  <2>1. \A j \in Jobs : CountKeeps(j)
    BY <1>10 DEF Interrupt, ProcessError, ClaimMissed, FailStale, Crash, CountKeeps
  <2>2. ASSUME ProcessError(w) PROVE NoNewcomer
    <3>1. PlanFailure(w) /\ pc[w] = "process"
      BY <2>2 DEF ProcessError
    <3>2. QED
      BY <3>1, PlanShape DEF NoNewcomer, Past
  <2>3. ASSUME Idle(w) PROVE NoNewcomer
    BY <2>3 DEF Idle, NoNewcomer, KeepsClaim, Past
  <2>4. NoNewcomer
    BY <1>5, <1>10, <2>2, <2>3 DEF Interrupt, ClaimMissed, FailStale, Crash
  <2>5. QED
    BY <1>0, <2>1, <2>4, QuietPreserves
<1>11. CASE Tick \/ UNCHANGED qvars
  <2>1. \A j \in Jobs : CountKeeps(j)
    BY <1>11 DEF Tick, qvars, CountKeeps
  <2>2. NoNewcomer
    BY <1>5, <1>11 DEF Tick, qvars
  <2>3. QED
    BY <1>0, <2>1, <2>2, QuietPreserves
<1>12. QED
  BY <1>1, <1>2, <1>3, <1>4, <1>6, <1>7, <1>8, <1>9, <1>10, <1>11
     DEF QueueNext, WorkerStep

\* What AttemptsCounted says of the row of j.
CountedStep(j) ==
    IF jobs[j].status = "running" /\ jobs'[j].status \in {"queued", "failed"}
    THEN /\ \/ jobs'[j].attempts = jobs[j].attempts + 1
            \/ /\ jobs'[j].attempts = jobs[j].attempts
               /\ \E w \in Workers : CarriesLess(w, j)
               /\ \A w \in Workers :
                     ReadToken(w, j) => item[w].attempts = jobs'[j].attempts
         /\ jobs'[j].status = "failed" <=> jobs'[j].attempts = maxProcessingAttempts
    ELSE jobs'[j].attempts = jobs[j].attempts

\* A failure counts, unless the count its claim read was overtaken.
LEMMA FailCounts ==
    ASSUME TokenInv, AttemptsInv, NEW w \in Workers, Fail(w), NEW j \in Jobs
    PROVE  CountedStep(j)
<1>1. CASE j # item[w].job
  BY <1>1, FailShape DEF CountedStep
<1>2. CASE j = item[w].job
  <2>1. /\ jobs[j].status = "running" /\ jobs[j].token = item[w].token
        /\ item[w].attempts \in Nat /\ jobs[j].attempts \in Nat
        /\ item[w].attempts <= jobs[j].attempts
        /\ jobs[j].attempts <= item[w].attempts + 1
        /\ jobs[j].attempts < maxProcessingAttempts
        /\ jobs'[j].attempts = item[w].attempts + 1
        /\ jobs'[j].status = IF item[w].attempts + 1 < maxProcessingAttempts
                             THEN "queued" ELSE "failed"
    BY <1>2, FailShape
  <2>2. jobs'[j].status = "failed" <=> jobs'[j].attempts = maxProcessingAttempts
    BY <2>1 DEF maxProcessingAttempts
  <2>3. jobs'[j].status \in {"queued", "failed"}
    BY <2>1
  <2>4. CASE jobs[j].attempts = item[w].attempts
    BY <2>1, <2>2, <2>3, <2>4 DEF CountedStep
  <2>5. CASE jobs[j].attempts = item[w].attempts + 1
    <3>1. CarriesLess(w, j)
      BY <1>2, <2>1, <2>5 DEF CarriesLess, Fail
    <3>2. \A v \in Workers : ReadToken(v, j) => item[v].attempts = jobs'[j].attempts
      BY <2>1, <2>5 DEF AttemptsInv, ReadAttempts
    <3>3. QED
      BY <2>1, <2>2, <2>3, <2>5, <3>1, <3>2 DEF CountedStep
  <2>6. QED
    BY <2>1, <2>4, <2>5
<1>3. QED
  BY <1>1, <1>2

\* Each step counts the failures it reports.
LEMMA EveryStepCounts ==
    ASSUME TokenInv, AttemptsInv, [QueueNext]_qvars, NEW j \in Jobs
    PROVE  CountedStep(j)
<1> USE DEF TokenInv, QueueTypeOK
<1>1. ASSUME NEW k \in Jobs, Submit(k) PROVE CountedStep(j)
  <2>1. CASE j = k
    <3>1. jobs[j].status = "absent" /\ jobs[j].attempts = 0 /\ jobs'[j].attempts = 0
      BY <1>1, <2>1 DEF Submit, Fresh, NoRow, AttemptsInv, OpenAttempts
    <3>2. QED
      BY <3>1 DEF CountedStep
  <2>2. CASE j # k
    BY <1>1, <2>2 DEF Submit, CountedStep
  <2>3. QED
    BY <2>1, <2>2
<1>2. ASSUME NEW k \in Jobs, Cancel(k) PROVE CountedStep(j)
  BY <1>2, CancelledRow DEF Cancel, CountedStep
<1>3. ASSUME NEW w \in Workers, ClaimUpdate(w) PROVE CountedStep(j)
  <2>1. PICK k \in Jobs, t \in Nat : k = item[w].job /\ t = item[w].at
    BY <1>3 DEF ClaimUpdate, WorkItem
  <2>2. jobs' = [jobs EXCEPT ![k] = Claimed(jobs[k], w, t)]
    BY <1>3, <2>1 DEF ClaimUpdate
  <2>3. /\ Claimed(jobs[k], w, t).status = "running"
        /\ Claimed(jobs[k], w, t).attempts = jobs[k].attempts
    BY ClaimedRow
  <2>4. QED
    BY <2>2, <2>3 DEF CountedStep
<1>4. ASSUME NEW w \in Workers, SomeProgress(w) PROVE CountedStep(j)
  BY <1>4, ProgressShape DEF CountedStep
<1>5. ASSUME NEW w \in Workers, Heartbeat(w) PROVE CountedStep(j)
  <2>1. item[w].job \in Jobs /\ Now(w) + LeaseTTL[w] \in Nat
    BY <1>5, NowType DEF Heartbeat, Processing
  <2>2. QED
    BY <1>5, <2>1, RenewedRow DEF Heartbeat, CountedStep
<1>6. ASSUME NEW w \in Workers, NEW ack \in BOOLEAN, Complete(w, ack)
      PROVE  CountedStep(j)
  BY <1>6, CompletedRow DEF Complete, Processing, CountedStep
<1>7. ASSUME NEW w \in Workers, Fail(w) PROVE CountedStep(j)
  BY <1>7, FailCounts
<1>8. ASSUME NEW w \in Workers,
             \/ \E k \in Jobs : ClaimSelect(w, k)
             \/ ClaimMissed(w) \/ Interrupt(w) \/ ProcessError(w)
             \/ FailStale(w) \/ Crash(w)
      PROVE  CountedStep(j)
  BY <1>8 DEF ClaimSelect, ClaimMissed, Interrupt, ProcessError, FailStale,
              Crash, CountedStep
<1>9. CASE Tick \/ UNCHANGED qvars
  BY <1>9 DEF Tick, qvars, CountedStep
<1>10. QED
  BY <1>1, <1>2, <1>3, <1>4, <1>5, <1>6, <1>7, <1>8, <1>9 DEF QueueNext, WorkerStep

\* However late a failure is written and however clocks differ, a failure goes
\* uncounted only if another one overtook its claim, never two in a row, and
\* the last allowed one ends the job.
THEOREM FailuresAreCounted == QueueSpec => AttemptsCounted
<1>1. QueueInit => TokenInv /\ AttemptsInv
  <2>1. QueueInit => TokenInv
    BY Blanks DEF QueueInit, TokenInv, QueueTypeOK, JobsKnown, TokensBounded,
                  TokensDistinct, Past
  <2>2. QueueInit => HolderAttempts /\ ReadAttempts
    BY DEF QueueInit, HolderAttempts, ReadAttempts, ReadToken, HoldsFence
  <2>3. QueueInit => OpenAttempts
    <3>1. NoRow.status = "absent" /\ NoRow.attempts = 0
      BY DEF NoRow
    <3>2. QED
      BY <3>1 DEF QueueInit, OpenAttempts
  <2>4. QED
    BY <2>1, <2>2, <2>3 DEF AttemptsInv
<1>2. TokenInv /\ AttemptsInv /\ [QueueNext]_qvars => TokenInv' /\ AttemptsInv'
  BY TokenStep, AttemptsStep
<1>3. TokenInv /\ AttemptsInv /\ [QueueNext]_qvars => [\A j \in Jobs : CountedStep(j)]_qvars
  BY EveryStepCounts
<1>4. [\A j \in Jobs : CountedStep(j)]_qvars =>
      [\A j \in Jobs :
          LET r == jobs[j]
              s == jobs'[j]
          IN  IF r.status = "running" /\ s.status \in {"queued", "failed"}
              THEN /\ \/ s.attempts = r.attempts + 1
                      \/ /\ s.attempts = r.attempts
                         /\ \E w \in Workers : CarriesLess(w, j)
                         /\ \A w \in Workers :
                               ReadToken(w, j) => item[w].attempts = s.attempts
                   /\ s.status = "failed" <=> s.attempts = maxProcessingAttempts
              ELSE s.attempts = r.attempts]_qvars
  BY Zenon DEF CountedStep
<1>5. QED
  BY <1>1, <1>2, <1>3, <1>4, PTL DEF QueueSpec, AttemptsCounted

-----------------------------------------------------------------------------
(***************************************************************************)
(* What the proofs about exports and imports rest on.                      *)
(***************************************************************************)

\* The progress columns of a row stay, and whether the job was submitted.
ProgressKeeps(j) ==
    /\ jobs'[j].cursor = jobs[j].cursor /\ jobs'[j].chunks = jobs[j].chunks
    /\ jobs'[j].checkpoint = jobs[j].checkpoint
    /\ jobs'[j].status = "absent" <=> jobs[j].status = "absent"

\* Of the steps of a worker, only the fenced progress writes them.
LEMMA WorkerKeepsProgress ==
    ASSUME QueueTypeOK, JobsKnown, NEW w \in Workers,
           \/ \E j \in Jobs : ClaimSelect(w, j)
           \/ ClaimUpdate(w) \/ ClaimMissed(w) \/ Heartbeat(w) \/ Interrupt(w)
           \/ ProcessError(w) \/ Fail(w) \/ FailStale(w) \/ Crash(w)
           \/ \E ack \in BOOLEAN : Complete(w, ack)
    PROVE  \A j \in Jobs : ProgressKeeps(j)
<1> USE DEF QueueTypeOK
<1>1. CASE ClaimUpdate(w)
  <2>1. PICK k \in Jobs, t \in Nat : k = item[w].job /\ t = item[w].at
    BY <1>1 DEF ClaimUpdate, WorkItem
  <2>2. jobs' = [jobs EXCEPT ![k] = Claimed(jobs[k], w, t)]
    BY <1>1, <2>1 DEF ClaimUpdate
  <2>3. /\ Claimed(jobs[k], w, t).status = "running"
        /\ Claimed(jobs[k], w, t).cursor = jobs[k].cursor
        /\ Claimed(jobs[k], w, t).chunks = jobs[k].chunks
        /\ Claimed(jobs[k], w, t).checkpoint = jobs[k].checkpoint
    BY ClaimedRow
  <2>4. jobs[k].status # "absent"
    BY <1>1, <2>1 DEF ClaimUpdate, JobsKnown
  <2>5. QED
    BY <2>2, <2>3, <2>4 DEF ProgressKeeps
<1>2. CASE Heartbeat(w)
  <2>1. item[w].job \in Jobs /\ Now(w) + LeaseTTL[w] \in Nat
    BY <1>2, NowType DEF Heartbeat, Processing
  <2>2. QED
    BY <1>2, <2>1, RenewedRow DEF Heartbeat, ProgressKeeps
<1>3. ASSUME NEW ack \in BOOLEAN, Complete(w, ack)
      PROVE  \A j \in Jobs : ProgressKeeps(j)
  BY <1>3, CompletedRow DEF Complete, Processing, fencedJob, ProgressKeeps
<1>4. CASE Fail(w)
  <2>1. PICK k \in Jobs, n \in Nat, now \in Nat :
           k = item[w].job /\ n = item[w].attempts /\ now = item[w].at
    BY <1>4 DEF Fail, WorkItem
  <2>2. /\ jobs' = [jobs EXCEPT ![k] = Failed(jobs[k], n, now)]
        /\ jobs[k].status = "running"
    BY <1>4, <2>1 DEF Fail, fencedJob
  <2>3. /\ Failed(jobs[k], n, now).status \in {"queued", "failed"}
        /\ Failed(jobs[k], n, now).cursor = jobs[k].cursor
        /\ Failed(jobs[k], n, now).chunks = jobs[k].chunks
        /\ Failed(jobs[k], n, now).checkpoint = jobs[k].checkpoint
    <3>1. PICK r \in JobRow : r = jobs[k]
      BY <2>1
    <3>2. /\ Failed(r, n, now).status \in {"queued", "failed"}
          /\ Failed(r, n, now).cursor = r.cursor
          /\ Failed(r, n, now).chunks = r.chunks
          /\ Failed(r, n, now).checkpoint = r.checkpoint
      BY FailedRow
    <3>3. QED
      BY <3>1, <3>2, Zenon
  <2>4. QED
    BY <2>2, <2>3 DEF ProgressKeeps
<1>5. CASE \/ \E j \in Jobs : ClaimSelect(w, j)
           \/ ClaimMissed(w) \/ Interrupt(w) \/ ProcessError(w)
           \/ FailStale(w) \/ Crash(w)
  BY <1>5 DEF ClaimSelect, ClaimMissed, Interrupt, ProcessError, FailStale,
              Crash, ProgressKeeps
<1>6. QED
  BY <1>1, <1>2, <1>3, <1>4, <1>5

\* Cancelling a job leaves its progress columns alone.
LEMMA CancelKeepsProgress ==
    ASSUME QueueTypeOK, NEW j \in Jobs, Cancel(j)
    PROVE  \A k \in Jobs : ProgressKeeps(k)
BY CancelledRow DEF QueueTypeOK, Cancel, ProgressKeeps

\* A submitted job starts without progress.
LEMMA SubmitShape ==
    ASSUME QueueTypeOK, NEW j \in Jobs, Submit(j)
    PROVE  /\ jobs[j].status = "absent" /\ jobs'[j].status = "queued"
           /\ jobs'[j].chunks = 0 /\ jobs'[j].cursor = 0 /\ jobs'[j].checkpoint = 0
           /\ \A k \in Jobs \ {j} : jobs'[k] = jobs[k]
           /\ UNCHANGED <<clock, pc, item, live>>
<1>1. /\ Fresh(clock).status = "queued" /\ Fresh(clock).chunks = 0
      /\ Fresh(clock).cursor = 0 /\ Fresh(clock).checkpoint = 0
  BY FreshRow DEF QueueTypeOK
<1>2. jobs[j].status = "absent" /\ jobs' = [jobs EXCEPT ![j] = Fresh(clock)]
  BY DEF Submit
<1>3. jobs'[j] = Fresh(clock) /\ \A k \in Jobs \ {j} : jobs'[k] = jobs[k]
  BY <1>2 DEF QueueTypeOK
<1>4. QED
  BY <1>1, <1>2, <1>3 DEF Submit

\* What a step may do to the row of j, as far as fences and ends go.
RowStep(j) ==
    \/ jobs'[j] = jobs[j]
    \/ Submit(j) /\ jobs[j].status = "absent" /\ jobs'[j].status = "queued"
    \/ jobs'[j].status = "cancelled" /\ jobs'[j].token = jobs[j].token
    \/ /\ \E w \in Workers : ClaimUpdate(w) /\ item[w].job = j
       /\ jobs'[j].status = "running" /\ jobs'[j].token = jobs[j].token + 1
    \/ /\ jobs[j].status = "running" /\ jobs'[j].status = "running"
       /\ jobs'[j].token = jobs[j].token /\ jobs'[j].owner = jobs[j].owner
    \/ /\ jobs[j].status = "running" /\ jobs'[j].status \in {"queued", "failed"}
       /\ jobs'[j].token = jobs[j].token
    \/ /\ \E w \in Workers, ack \in BOOLEAN : Complete(w, ack) /\ item[w].job = j
       /\ jobs'[j].status = "completed" /\ jobs'[j].token = jobs[j].token

\* Every step does one of these to every row.
LEMMA RowSteps ==
    ASSUME QueueTypeOK, [QueueNext]_qvars, NEW j \in Jobs
    PROVE  RowStep(j)
<1> USE DEF QueueTypeOK
<1>1. ASSUME NEW k \in Jobs, Submit(k) PROVE RowStep(j)
  BY <1>1, SubmitShape DEF RowStep
<1>2. ASSUME NEW k \in Jobs, Cancel(k) PROVE RowStep(j)
  BY <1>2, CancelledRow DEF Cancel, RowStep
<1>3. ASSUME NEW w \in Workers, ClaimUpdate(w) PROVE RowStep(j)
  <2>1. PICK k \in Jobs, t \in Nat, r \in JobRow :
           k = item[w].job /\ t = item[w].at /\ r = jobs[k]
    BY <1>3 DEF ClaimUpdate, WorkItem
  <2>2. jobs' = [jobs EXCEPT ![k] = Claimed(r, w, t)]
    BY <1>3, <2>1 DEF ClaimUpdate
  <2>3. Claimed(r, w, t).status = "running" /\ Claimed(r, w, t).token = r.token + 1
    BY ClaimedRow
  <2>4. QED
    BY <1>3, <2>1, <2>2, <2>3 DEF RowStep
<1>4. ASSUME NEW w \in Workers, SomeProgress(w) PROVE RowStep(j)
  BY <1>4, ProgressShape DEF SomeProgress, Progress, fencedJob, RowStep
<1>5. ASSUME NEW w \in Workers, Heartbeat(w) PROVE RowStep(j)
  <2>1. PICK k \in Jobs, t \in Nat, r \in JobRow :
           k = item[w].job /\ t = Now(w) + LeaseTTL[w] /\ r = jobs[k]
    BY <1>5, NowType DEF Heartbeat, Processing
  <2>2. jobs' = [jobs EXCEPT ![k] = Renewed(r, t)] /\ r.status = "running"
    BY <1>5, <2>1 DEF Heartbeat, fencedJob
  <2>3. /\ Renewed(r, t).status = r.status /\ Renewed(r, t).token = r.token
        /\ Renewed(r, t).owner = r.owner
    BY RenewedRow
  <2>4. QED
    BY <2>1, <2>2, <2>3 DEF RowStep
<1>6. ASSUME NEW w \in Workers, NEW ack \in BOOLEAN, Complete(w, ack) PROVE RowStep(j)
  <2>1. PICK k \in Jobs, r \in JobRow : k = item[w].job /\ r = jobs[k]
    BY <1>6 DEF Complete, Processing
  <2>2. jobs' = [jobs EXCEPT ![k] = Completed(r)]
    BY <1>6, <2>1 DEF Complete
  <2>3. Completed(r).status = "completed" /\ Completed(r).token = r.token
    BY CompletedRow
  <2>4. QED
    BY <1>6, <2>1, <2>2, <2>3 DEF RowStep
<1>7. ASSUME NEW w \in Workers, Fail(w) PROVE RowStep(j)
  <2>1. PICK k \in Jobs, n \in Nat, now \in Nat, r \in JobRow :
           k = item[w].job /\ n = item[w].attempts /\ now = item[w].at /\ r = jobs[k]
    BY <1>7 DEF Fail, WorkItem
  <2>2. jobs' = [jobs EXCEPT ![k] = Failed(r, n, now)] /\ r.status = "running"
    BY <1>7, <2>1 DEF Fail, fencedJob
  <2>3. /\ Failed(r, n, now).status \in {"queued", "failed"}
        /\ Failed(r, n, now).token = r.token
    BY FailedRow
  <2>4. QED
    BY <2>1, <2>2, <2>3 DEF RowStep
<1>8. ASSUME jobs' = jobs PROVE RowStep(j)
  BY <1>8 DEF RowStep
<1>9. ASSUME NEW w \in Workers,
             \/ \E k \in Jobs : ClaimSelect(w, k)
             \/ ClaimMissed(w) \/ Interrupt(w) \/ ProcessError(w)
             \/ FailStale(w) \/ Crash(w)
      PROVE  jobs' = jobs
  BY <1>9 DEF ClaimSelect, ClaimMissed, Interrupt, ProcessError, FailStale, Crash
<1>10. CASE Tick \/ UNCHANGED qvars
  BY <1>8, <1>10 DEF Tick, qvars
<1>11. QED
  BY <1>1, <1>2, <1>3, <1>4, <1>5, <1>6, <1>7, <1>8, <1>9, <1>10, Zenon
     DEF QueueNext, WorkerStep

\* Submitted jobs stay and their tokens only grow.
LEMMA TokensGrow ==
    ASSUME QueueTypeOK, [QueueNext]_qvars, NEW j \in Jobs, jobs[j].status # "absent"
    PROVE  jobs'[j].status # "absent" /\ jobs'[j].token >= jobs[j].token
<1>1. jobs[j].token \in Nat
  BY DEF QueueTypeOK, JobRow
<1>2. QED
  BY <1>1, RowSteps DEF RowStep

\* A fence is never regained: a worker that passes the fence of the job it
\* held before the step passed it before the step.
LEMMA FenceNotRegained ==
    ASSUME TokenInv, [QueueNext]_qvars, NEW w \in Workers, pc[w] # "idle",
           KeepsClaim(w), fencedJob(jobs[item[w].job], w)'
    PROVE  fencedJob(jobs[item[w].job], w)
<1>1. PICK j \in Jobs : j = item[w].job
  BY DEF TokenInv, QueueTypeOK
<1>2. jobs'[j].status = "running" /\ jobs'[j].owner = Owner(w) /\ jobs'[j].token = item[w].token
  BY <1>1 DEF fencedJob, KeepsClaim
<1>3. item[w].token <= jobs[j].token /\ jobs[j].token \in Nat /\ item[w].token \in Nat
  BY <1>1 DEF TokenInv, QueueTypeOK, TokensBounded, JobRow, WorkItem
<1>4. QED
  BY <1>1, <1>2, <1>3, RowSteps DEF TokenInv, RowStep, fencedJob

\* Only Complete completes a job.
LEMMA OnlyCompleteCompletes ==
    ASSUME QueueTypeOK, [QueueNext]_qvars, NEW j \in Jobs,
           jobs'[j].status = "completed"
    PROVE  \/ jobs'[j] = jobs[j]
           \/ \E w \in Workers, ack \in BOOLEAN : Complete(w, ack) /\ item[w].job = j
BY RowSteps DEF RowStep

\* How a step moves a worker.
LEMMA WorkerMoves ==
    ASSUME QueueTypeOK, [QueueNext]_qvars, NEW w \in Workers
    PROVE  \/ pc'[w] = pc[w] /\ item'[w] = item[w]
           \/ pc'[w] = "idle"
           \/ pc'[w] = "fail" /\ KeepsClaim(w)
           \/ \E j \in Jobs : ClaimSelect(w, j)
           \/ ClaimUpdate(w)
<1> DEFINE Moved == \/ pc'[w] = pc[w] /\ item'[w] = item[w]
                    \/ pc'[w] = "idle"
                    \/ pc'[w] = "fail" /\ KeepsClaim(w)
                    \/ \E j \in Jobs : ClaimSelect(w, j)
                    \/ ClaimUpdate(w)
<1> USE DEF QueueTypeOK
<1>1. ASSUME NEW v \in Workers, Idle(v) PROVE Moved
  BY <1>1 DEF Idle
<1>2. ASSUME NEW v \in Workers,
             \/ ClaimMissed(v) \/ Fail(v) \/ FailStale(v) \/ Crash(v)
      PROVE  Moved
  BY <1>1, <1>2 DEF ClaimMissed, Fail, FailStale, Crash
<1>3. ASSUME NEW v \in Workers, NEW ack \in BOOLEAN, Complete(v, ack) PROVE Moved
  BY <1>1, <1>3, PlanShape DEF Complete
<1>4. ASSUME NEW v \in Workers, ProcessError(v) PROVE Moved
  BY <1>4, PlanShape DEF ProcessError
<1>5. ASSUME NEW v \in Workers, NEW j \in Jobs, ClaimSelect(v, j) PROVE Moved
  BY <1>5 DEF ClaimSelect
<1>6. ASSUME NEW v \in Workers, ClaimUpdate(v) PROVE Moved
  BY <1>6 DEF ClaimUpdate
<1>7. ASSUME UNCHANGED <<pc, item>> PROVE Moved
  BY <1>7
<1>8. ASSUME NEW v \in Workers, SomeProgress(v) \/ Heartbeat(v) \/ Interrupt(v)
      PROVE  Moved
  BY <1>7, <1>8 DEF SomeProgress, Progress, Heartbeat, Interrupt
<1>9. ASSUME NEW j \in Jobs, Submit(j) \/ Cancel(j) PROVE Moved
  BY <1>7, <1>9 DEF Submit, Cancel
<1>10. CASE Tick \/ UNCHANGED qvars
  BY <1>7, <1>10 DEF Tick, qvars
<1>11. QED
  BY <1>2, <1>3, <1>4, <1>5, <1>6, <1>8, <1>9, <1>10, Zenon DEF QueueNext, WorkerStep
=============================================================================
