------------------------------ MODULE JobQueue ------------------------------
(***************************************************************************)
(* The durable job table of Data Exchange and the lease protocol by which  *)
(* workers claim a job, keep it alive, fail it and give it up.             *)
(*                                                                         *)
(* A job is a row of _data_exchange_jobs.  A worker reads a claimable row  *)
(* (SELECT), claims it with a conditional UPDATE that re-checks the same   *)
(* predicate at the same captured `now', and from then on every write it   *)
(* makes is fenced: status = running, its lease_owner and its              *)
(* fencing_token.  The lease itself is only checked by claimers, so a      *)
(* worker whose lease ran out goes on writing until somebody claims over   *)
(* it.  What a worker does between claim and end is the composing module's *)
(* business (ExportJob, ImportJob); here it is any fenced Progress.        *)
(***************************************************************************)
EXTENDS Integers

CONSTANTS
    Jobs,        \* job identities
    NoJob,       \* the job of an idle worker
    Workers,     \* goroutines that claim jobs: pollers and inline requests
    Inline,      \* the workers that are MaterializeExport calls
    LeaseTTL,    \* LeaseTTL[w]: the lease a worker asks for
    Skew,        \* Skew[w]: how far the host clock of w runs ahead
    RetryDelay,  \* retryInitialDelay
    Second,      \* instants in a second
    FractionRank,\* FractionRank[f]: the place of fraction f in text order
    MaxClock     \* bound: the last instant of the modelled period

ASSUME QueueAssumption ==
    /\ NoJob \notin Jobs
    /\ Inline \subseteq Workers
    /\ LeaseTTL \in [Workers -> Nat \ {0}]
    /\ Skew \in [Workers -> Nat]
    /\ RetryDelay \in Nat \ {0}
    /\ Second \in Nat \ {0}
    /\ FractionRank \in [0 .. Second - 1 -> Nat]
    /\ MaxClock \in Nat

VARIABLES
    clock,   \* true time; instants start at 1
    jobs,    \* jobs[j]: the row of j in _data_exchange_jobs
    pc,      \* pc[w]: where worker w is
    item,    \* item[w]: the WorkItem of w, read by the SELECT of its claim
    live     \* live[w]: the processing context of w is not cancelled

qvars == <<clock, jobs, pc, item, live>>

maxProcessingAttempts == 3

Statuses == {"absent", "queued", "running", "completed", "failed", "cancelled"}
Ended == {"completed", "failed", "cancelled"}
Owners == {"", "worker", "inline"}

\* The store keeps "" where there is no instant; 0 stands for it.
NoTime == 0

JobRow == [status: Statuses, checkpoint: Nat, cursor: Nat, chunks: Nat,
           token: Nat, owner: Owners, lease: Nat, attempts: Nat, next: Nat,
           created: Nat]

WorkItem == [job: Jobs \cup {NoJob}, token: Nat, attempts: Nat, at: Nat]

NoRow == [status |-> "absent", checkpoint |-> 0, cursor |-> 0, chunks |-> 0,
          token |-> 0, owner |-> "", lease |-> NoTime, attempts |-> 0,
          next |-> NoTime, created |-> NoTime]

Fresh(now) == [NoRow EXCEPT !.status = "queued", !.created = now]

NoItem == [job |-> NoJob, token |-> 0, attempts |-> 0, at |-> NoTime]

-----------------------------------------------------------------------------
(***************************************************************************)
(* Operators on a row.                                                     *)
(***************************************************************************)

\* Every poller of a runtime presents the same owner string, every inline
\* request the same one with the suffix ":inline".
Owner(w) == IF w \in Inline THEN "inline" ELSE "worker"

\* time.Now() on the host of w.
Now(w) == clock + Skew[w]

\* The store keeps instants as RFC 3339 text and compares the text.  Seconds
\* have a fixed width and order as they should; the fraction is written
\* without its trailing zeros, so within a second the order is that of
\* FractionRank (module TimeText), not that of time.
Before(s, t) ==
    \/ s \div Second < t \div Second
    \/ /\ s \div Second = t \div Second
       /\ FractionRank[s % Second] < FractionRank[t % Second]

\* How far ahead an instant may lie that reads as past.
Slack == IF Second = 1 THEN 0 ELSE Second

\* Mutant of ReadyQueued: a job that waits for its retry is ready, too.
ReadyQueuedAtOnce(r, now) == r.status = "queued"

ReadyQueued(r, now) ==
    /\ r.status = "queued"
    /\ r.next = NoTime \/ Before(r.next, now)

LeaseExpired(r, now) ==
    /\ r.status = "running"
    /\ r.lease # NoTime
    /\ Before(r.lease, now)

Claimable(r, now) == ReadyQueued(r, now) \/ LeaseExpired(r, now)

\* The job a claim's SELECT may return: the oldest claimable row for a
\* poller, the requested row for an inline request.
Candidate(w, j) ==
    /\ Claimable(jobs[j], Now(w))
    /\ \/ w \in Inline
       \/ \A k \in Jobs : Claimable(jobs[k], Now(w)) =>
                             ~Before(jobs[k].created, jobs[j].created)

\* Mutant of Claimed: a claim starts the job over.
ClaimedAfresh(r, w, now) ==
    [r EXCEPT !.status = "running", !.owner = Owner(w),
              !.lease = now + LeaseTTL[w], !.next = NoTime,
              !.token = r.token + 1, !.cursor = 0, !.chunks = 0]

Claimed(r, w, now) ==
    [r EXCEPT !.status = "running", !.owner = Owner(w),
              !.lease = now + LeaseTTL[w], !.next = NoTime,
              !.token = r.token + 1]

\* The work item of a successful claim: the token it read, plus one.
Taken(x) == [x EXCEPT !.token = x.token + 1, !.at = NoTime]

\* Mutant of fencedJob: the fence forgets the token.
fencedByOwner(r, w) ==
    /\ r.status = "running"
    /\ r.owner = Owner(w)

\* Mutant of fencedJob: the fence forgets the status.
fencedAnyStatus(r, w) ==
    /\ r.owner = Owner(w)
    /\ r.token = item[w].token

fencedJob(r, w) ==
    /\ r.status = "running"
    /\ r.owner = Owner(w)
    /\ r.token = item[w].token

\* retryInitialDelay * (1 << n).  A job is retried after its first and its
\* second failure only, so n is 0 or 1.
Backoff(n) == IF n = 0 THEN RetryDelay ELSE 2 * RetryDelay

\* PlanProcessingFailure(attempts, code, now) as Fail stores it.
Failed(r, attempts, now) ==
    LET again == attempts + 1 < maxProcessingAttempts
    IN  [r EXCEPT !.status = IF again THEN "queued" ELSE "failed",
                  !.attempts = attempts + 1,
                  !.next = IF again THEN now + Backoff(attempts)
                                    ELSE NoTime,
                  !.owner = "", !.lease = NoTime]

Cancelled(r) == [r EXCEPT !.status = "cancelled"]

Renewed(r, lease) == [r EXCEPT !.lease = lease]

Progressed(r, checkpoint, cursor, chunks) ==
    [r EXCEPT !.checkpoint = checkpoint, !.cursor = cursor, !.chunks = chunks]

Completed(r) ==
    [r EXCEPT !.status = "completed", !.next = NoTime, !.owner = "",
              !.lease = NoTime]

-----------------------------------------------------------------------------
(***************************************************************************)
(* Actions.                                                                *)
(***************************************************************************)

\* Mutant of Idle: the work item is dropped but the worker does not stop.
IdleStillBusy(w) ==
    /\ item' = [item EXCEPT ![w] = NoItem]
    /\ UNCHANGED <<pc, live>>

Idle(w) ==
    /\ pc' = [pc EXCEPT ![w] = "idle"]
    /\ item' = [item EXCEPT ![w] = NoItem]
    /\ live' = [live EXCEPT ![w] = TRUE]

\* The worker holds a claimed job and can still reach the store.
Processing(w) == pc[w] = "process" /\ live[w]

\* The row of a submitted job; a second submission of it finds the row.
Submit(j) ==
    /\ jobs[j].status = "absent"
    /\ jobs' = [jobs EXCEPT ![j] = Fresh(clock)]
    /\ UNCHANGED <<clock, pc, item, live>>

ClaimSelect(w, j) ==
    /\ pc[w] = "idle"
    /\ Candidate(w, j)
    /\ pc' = [pc EXCEPT ![w] = "claim"]
    /\ item' = [item EXCEPT ![w] =
                  [job |-> j, token |-> jobs[j].token,
                   attempts |-> jobs[j].attempts, at |-> Now(w)]]
    /\ UNCHANGED <<clock, jobs, live>>

\* Mutant of ClaimUpdate: the UPDATE names the job and re-checks nothing.
ClaimUpdateBlind(w) ==
    LET x == item[w]
    IN  /\ pc[w] = "claim"
        /\ jobs' = [jobs EXCEPT ![x.job] = Claimed(@, w, x.at)]
        /\ item' = [item EXCEPT ![w] = Taken(@)]
        /\ pc' = [pc EXCEPT ![w] = "process"]
        /\ live' = [live EXCEPT ![w] = TRUE]
        /\ UNCHANGED clock

\* The conditional UPDATE found the row still claimable at the captured now.
ClaimUpdate(w) ==
    LET x == item[w]
    IN  /\ pc[w] = "claim"
        /\ Claimable(jobs[x.job], x.at)
        /\ jobs' = [jobs EXCEPT ![x.job] = Claimed(@, w, x.at)]
        /\ item' = [item EXCEPT ![w] = Taken(@)]
        /\ pc' = [pc EXCEPT ![w] = "process"]
        /\ live' = [live EXCEPT ![w] = TRUE]
        /\ UNCHANGED clock

\* It did not: no row was updated and the claim reports nothing found.
ClaimMissed(w) ==
    /\ pc[w] = "claim"
    /\ ~Claimable(jobs[item[w].job], item[w].at)
    /\ Idle(w)
    /\ UNCHANGED <<clock, jobs>>

\* A fenced write of the progress columns.
Progress(w, checkpoint, cursor, chunks) ==
    LET j == item[w].job
    IN  /\ Processing(w)
        /\ fencedJob(jobs[j], w)
        /\ jobs' = [jobs EXCEPT ![j] = Progressed(@, checkpoint, cursor, chunks)]
        /\ UNCHANGED <<clock, pc, item, live>>

Heartbeat(w) ==
    LET j == item[w].job
    IN  /\ Processing(w)
        /\ fencedJob(jobs[j], w)
        /\ jobs' = [jobs EXCEPT ![j] = Renewed(@, Now(w) + LeaseTTL[w])]
        /\ UNCHANGED <<clock, pc, item, live>>

\* The processing context is cancelled: a heartbeat failed (a stale fence or
\* a store error), the runtime is closing, or the inline request went away.
Interrupt(w) ==
    /\ Processing(w)
    /\ live' = [live EXCEPT ![w] = FALSE]
    /\ UNCHANGED <<clock, jobs, pc, item>>

\* processClaimed goes to report a failure; the instant it plans the retry
\* from is taken now, and the UPDATE may follow at any later time.
PlanFailure(w) ==
    /\ pc' = [pc EXCEPT ![w] = "fail"]
    /\ item' = [item EXCEPT ![w].at = Now(w)]

\* Process returned an error: the provider's, the store's (a rejected fence,
\* a key conflict, a write whose acknowledgement was lost) or the context's.
ProcessError(w) ==
    /\ pc[w] = "process"
    /\ PlanFailure(w)
    /\ UNCHANGED <<clock, jobs, live>>

\* The completing write went through.  Its acknowledgement may be lost, and
\* then the worker goes on to Fail the job it has completed.
Complete(w, ack) ==
    LET j == item[w].job
    IN  /\ Processing(w)
        /\ fencedJob(jobs[j], w)
        /\ jobs' = [jobs EXCEPT ![j] = Completed(@)]
        /\ IF ack THEN Idle(w)
                  ELSE PlanFailure(w) /\ UNCHANGED live
        /\ UNCHANGED clock

\* The fenced UPDATE, with the count that the claim's SELECT read and the
\* instant of the plan; nothing cancels or times it.
Fail(w) ==
    LET x == item[w]
    IN  /\ pc[w] = "fail"
        /\ fencedJob(jobs[x.job], w)
        /\ jobs' = [jobs EXCEPT ![x.job] = Failed(@, x.attempts, x.at)]
        /\ Idle(w)
        /\ UNCHANGED clock

FailStale(w) ==
    /\ pc[w] = "fail"
    /\ ~fencedJob(jobs[item[w].job], w)
    /\ Idle(w)
    /\ UNCHANGED <<clock, jobs>>

\* The process dies, or the store fails under Claim or Fail: the worker
\* forgets the job and the row stays as it is.
Crash(w) ==
    /\ pc[w] # "idle"
    /\ Idle(w)
    /\ UNCHANGED <<clock, jobs>>

\* Cancel leaves the fence columns of the row alone.
Cancel(j) ==
    /\ jobs[j].status \in {"queued", "running"}
    /\ jobs' = [jobs EXCEPT ![j] = Cancelled(@)]
    /\ UNCHANGED <<clock, pc, item, live>>

Tick ==
    /\ clock < MaxClock
    /\ clock' = clock + 1
    /\ UNCHANGED <<jobs, pc, item, live>>

-----------------------------------------------------------------------------
QueueInit ==
    /\ clock = 1
    /\ jobs = [j \in Jobs |-> NoRow]
    /\ pc = [w \in Workers |-> "idle"]
    /\ item = [w \in Workers |-> NoItem]
    /\ live = [w \in Workers |-> TRUE]

\* Some fenced write of the progress columns, whatever it writes.
SomeProgress(w) ==
    LET r == jobs'[item[w].job]
    IN  /\ r \in JobRow
        /\ Progress(w, r.checkpoint, r.cursor, r.chunks)

WorkerStep(w) ==
    \/ \E j \in Jobs : ClaimSelect(w, j)
    \/ ClaimUpdate(w)
    \/ ClaimMissed(w)
    \/ SomeProgress(w)
    \/ Heartbeat(w)
    \/ Interrupt(w)
    \/ ProcessError(w)
    \/ \E ack \in BOOLEAN : Complete(w, ack)
    \/ Fail(w)
    \/ FailStale(w)
    \/ Crash(w)

QueueNext ==
    \/ \E j \in Jobs : Submit(j) \/ Cancel(j)
    \/ \E w \in Workers : WorkerStep(w)
    \/ Tick

QueueSpec == QueueInit /\ [][QueueNext]_qvars

-----------------------------------------------------------------------------
(***************************************************************************)
(* Properties.                                                             *)
(***************************************************************************)

\* The variables stay in their types: rows hold the statuses, owners and
\* counters of the schema, and a worker that is not idle has a job.
QueueTypeOK ==
    /\ clock \in Nat \ {0}
    /\ jobs \in [Jobs -> JobRow]
    /\ pc \in [Workers -> {"idle", "claim", "process", "fail"}]
    /\ item \in [Workers -> WorkItem]
    /\ live \in [Workers -> BOOLEAN]
    /\ \A w \in Workers : pc[w] # "idle" => item[w].job \in Jobs

\* Worker w is past its claim and its writes to its job would be accepted.
HoldsFence(w) ==
    /\ pc[w] \in {"process", "fail"}
    /\ fencedJob(jobs[item[w].job], w)

\* Two workers never pass the fence of one job at once, although all the
\* pollers of a runtime share one lease_owner and clocks differ: the token
\* that the claiming UPDATE increments tells them apart (claimWorkspace,
\* fencedJob).
FenceUnique ==
    \A v, w \in Workers :
        HoldsFence(v) /\ HoldsFence(w) /\ item[v].job = item[w].job => v = w

\* The failing worker that knows the token of j carries a count that was
\* overtaken.
CarriesLess(w, j) ==
    /\ pc[w] = "fail" /\ item[w].job = j
    /\ item[w].token = jobs[j].token
    /\ item[w].attempts < jobs[j].attempts

\* A claim of j between its SELECT and its UPDATE that read the row's token;
\* no other claim of the row as it stands can come to hold the fence.
ReadToken(w, j) ==
    /\ pc[w] = "claim" /\ item[w].job = j
    /\ item[w].token = jobs[j].token

\* Fail writes one more than the count its claim's SELECT read
\* (WorkItem.Attempts), not one more than the row's, and its UPDATE may come
\* late: a failure written between the SELECT and the UPDATE of the next
\* claim makes that claim's own failure go uncounted.  That is all that is
\* ever lost.  The count never falls nor skips, moves only as a running job
\* goes back to the queue, and ends the job with the last allowed attempt;
\* and every claim that could follow an uncounted failure carries the row's
\* count, so that two failures in a row never go uncounted and a job ends
\* with its fifth failure at the latest.
AttemptsCounted ==
    [][\A j \in Jobs :
          LET r == jobs[j]
              s == jobs'[j]
          IN  IF r.status = "running" /\ s.status \in {"queued", "failed"}
              THEN /\ \/ s.attempts = r.attempts + 1
                      \/ /\ s.attempts = r.attempts
                         /\ \E w \in Workers : CarriesLess(w, j)
                         /\ \A w \in Workers :
                               ReadToken(w, j) => item[w].attempts = s.attempts
                   /\ s.status = "failed" <=> s.attempts = maxProcessingAttempts
              ELSE s.attempts = r.attempts]_qvars

\* A running job changes hands only once its lease has run out on some
\* worker's clock, the lease as the last heartbeat left it: a heartbeat
\* between a claim's SELECT and its UPDATE defeats the claim.  Compared as
\* text, a lease may run out early, but by less than a second.
LiveLeaseKept ==
    [][\A j \in Jobs :
          jobs[j].status = "running" /\ jobs'[j].token # jobs[j].token =>
             \E w \in Workers : jobs[j].lease < Now(w) + Slack]_qvars

\* A failed processing is tried again only after its back-off: a job that
\* waits is claimed once next_attempt_at has passed on some worker's clock,
\* less the second that text order may take off it.  The first back-off is a
\* second, so that first retry may follow at once; the next one waits at
\* least a second.
BackoffKept ==
    [][\A j \in Jobs :
          /\ jobs[j].status = "queued" /\ jobs[j].next # NoTime
          /\ jobs'[j].token # jobs[j].token
          => \E w \in Workers : jobs[j].next < Now(w) + Slack]_qvars

\* completed, failed and cancelled are final: no late write of any worker
\* touches a row that has ended.
EndedIsFinal ==
    [][\A j \in Jobs : jobs[j].status \in Ended => jobs'[j] = jobs[j]]_qvars

=============================================================================
