------------------------------ MODULE PollLoop ------------------------------
(***************************************************************************)
(* The background workers of Data Exchange: the poll loop of Start, which  *)
(* claims up to BatchSize jobs between two ticks, the discovery of work    *)
(* over the workspaces registered by submissions, and what a shutdown or a *)
(* crash does to the jobs in progress.  The question is whether every job  *)
(* that was submitted comes to an end.                                     *)
(*                                                                         *)
(* Time is reduced to what a claim asks of it: whether a retry is due and  *)
(* whether a lease still runs.  The fencing token is reduced to the poller *)
(* that made the last claim (JobQueue proves that the token tells workers  *)
(* apart).  A job that has ended makes room for a new one, so the workers  *)
(* face an endless stream of submissions with a bounded backlog.           *)
(***************************************************************************)
EXTENDS Naturals, Sequences, SequencesExt

CONSTANTS
    Jobs,          \* places for jobs that have not ended
    NoJob,         \* the job of a poller that has none
    Workspaces,    \* the workspaces that submit jobs
    WorkspaceOf,   \* WorkspaceOf[j]: workspace_id of j
    Pollers,       \* runtimes with an enabled worker
    NoPoller,      \* the holder of a job that was never claimed
    Closing,       \* the runtimes that may be shut down
    BatchSize,     \* BatchSize[p]: WorkerConfig.BatchSize
    MaxAttempts,   \* maxProcessingAttempts
    MaxFaults      \* bound: crashes, store errors and late heartbeats

ASSUME PollAssumption ==
    /\ NoJob \notin Jobs /\ NoPoller \notin Pollers
    /\ WorkspaceOf \in [Jobs -> Workspaces]
    /\ Closing \subseteq Pollers
    /\ BatchSize \in [Pollers -> Nat \ {0}] /\ MaxAttempts \in Nat \ {0}
    /\ MaxFaults \in Nat

VARIABLES
    rows,     \* rows[j]: status, attempts, whether due or leased, the holder
    queues,   \* queues[v]: the jobs of v that have not ended, by created_at
    scopes,   \* the registered workspaces, by updated_at
    pc,       \* pc[p]: where the loop of p is
    todo,     \* todo[p]: the workspaces this Claim has yet to visit
    taken,    \* taken[p]: the jobs claimed since the last tick
    job,      \* job[p]: the job p has selected or holds
    closed,   \* closed[p]: Close has cancelled the context of p
    cut,      \* cut[p]: the job whose claim Close cut off, as a history
    faults    \* how many faults there were

vars == <<rows, queues, scopes, pc, todo, taken, job, closed, cut, faults>>

NoRow == [status |-> "ended", attempts |-> 0, due |-> TRUE, leased |-> FALSE,
          holder |-> NoPoller]

Fresh == [NoRow EXCEPT !.status = "queued"]

Open(j) == rows[j].status \in {"queued", "running"}

Claimable(r) ==
    \/ r.status = "queued" /\ r.due
    \/ r.status = "running" /\ ~r.leased

\* Where the claimable jobs of a workspace stand among its jobs.
Candidates(ws) ==
    {i \in DOMAIN queues[ws] : Claimable(rows[queues[ws][i]])}

\* Poller p is past its claim and the fence of its job lets it through.
Holds(p) ==
    /\ pc[p] = "process"
    /\ rows[job[p]].status = "running"
    /\ rows[job[p]].holder = p

\* A poller that selected job j finds it changed: its UPDATE compares with
\* an instant captured before, and matches no row.  (The row of a failure that
\* was reported after its lease and its own back-off were over matches still:
\* JobQueue has it.  Each such case takes a late heartbeat, a fault here.)
Spoil(j, p) ==
    job' = [q \in Pollers |-> IF q # p /\ pc[q] = "update" /\ job[q] = j
                              THEN NoJob ELSE job[q]]

\* The same, and p is done with the job it held.
LetGo(p) ==
    job' = [q \in Pollers |->
              IF q = p \/ (pc[q] = "update" /\ job[q] = job[p])
              THEN NoJob ELSE job[q]]

-----------------------------------------------------------------------------
(***************************************************************************)
(* Submissions and what else happens to a row.                             *)
(***************************************************************************)

\* Mutant of registerScope: an INSERT that leaves an existing row alone.
registerScopeOnce(ws) ==
    scopes' = IF Contains(scopes, ws) THEN scopes ELSE Append(scopes, ws)

\* Mutant of registerScope: an INSERT without the key.
registerScopeAgain(ws) == scopes' = Append(scopes, ws)

\* The upsert sets updated_at: the workspace is now the last one visited.
registerScope(ws) ==
    scopes' = Append(RemoveFirst(scopes, ws), ws)

Submit(j) ==
    /\ ~Open(j)
    /\ rows' = [rows EXCEPT ![j] = Fresh]
    /\ queues' = [queues EXCEPT ![WorkspaceOf[j]] = Append(@, j)]
    /\ registerScope(WorkspaceOf[j])
    /\ UNCHANGED <<pc, todo, taken, job, closed, cut, faults>>

\* The row of j ends, by whatever hand.
End(j) ==
    /\ rows' = [rows EXCEPT ![j] = NoRow]
    /\ queues' = [queues EXCEPT ![WorkspaceOf[j]] = RemoveFirst(@, j)]

Cancel(j) ==
    /\ Open(j)
    /\ End(j)
    /\ Spoil(j, NoPoller)
    /\ UNCHANGED <<scopes, pc, todo, taken, closed, cut, faults>>

\* The back-off of a failed job is over.
Due(j) ==
    /\ rows[j].status = "queued" /\ ~rows[j].due
    /\ rows' = [rows EXCEPT ![j].due = TRUE]
    /\ UNCHANGED <<queues, scopes, pc, todo, taken, job, closed, cut, faults>>

Orphaned(j) == \A p \in Pollers : ~(Holds(p) /\ job[p] = j)

\* A lease that nobody renews runs out.  One that is renewed runs out only
\* if its heartbeats are late.
LeaseEnds(j) ==
    /\ rows[j].status = "running" /\ rows[j].leased
    /\ rows' = [rows EXCEPT ![j].leased = FALSE]
    /\ IF Orphaned(j) THEN UNCHANGED faults
       ELSE faults < MaxFaults /\ faults' = faults + 1
    /\ UNCHANGED <<queues, scopes, pc, todo, taken, job, closed, cut>>

-----------------------------------------------------------------------------
(***************************************************************************)
(* The loop of a poller.                                                   *)
(***************************************************************************)
Goto(p, place) == pc' = [pc EXCEPT ![p] = place]

\* The loop over the batch is left, with its counter.
Wait(p) ==
    /\ Goto(p, "select")
    /\ taken' = [taken EXCEPT ![p] = 0]

\* for claimed < BatchSize: after a job the next one, or the ticker.
NextClaim(p) ==
    IF taken[p] + 1 < BatchSize[p]
    THEN Goto(p, "claim") /\ taken' = [taken EXCEPT ![p] = @ + 1]
    ELSE Wait(p)

\* Claim lists the workspaces.
ListScopes(p) ==
    /\ pc[p] = "claim" /\ ~closed[p]
    /\ IF scopes = << >>
       THEN Wait(p) /\ UNCHANGED todo
       ELSE Goto(p, "visit") /\ todo' = [todo EXCEPT ![p] = scopes] /\ UNCHANGED taken
    /\ UNCHANGED <<rows, queues, scopes, job, closed, cut, faults>>

\* The workspace yielded nothing: the next one, or nothing found at all.
NextScope(p) ==
    /\ todo' = [todo EXCEPT ![p] = Tail(@)]
    /\ IF Len(todo[p]) > 1 THEN Goto(p, "visit") /\ UNCHANGED taken ELSE Wait(p)

\* Mutant of Oldest: the SELECT takes the job submitted last.
Newest(ws) == queues[ws][Max(Candidates(ws))]

Oldest(ws) == queues[ws][Min(Candidates(ws))]

\* claimWorkspace, its SELECT: the oldest claimable job.
Visit(p) ==
    LET ws == Head(todo[p])
    IN  /\ pc[p] = "visit" /\ ~closed[p]
        /\ IF Candidates(ws) = {}
           THEN NextScope(p) /\ UNCHANGED job
           ELSE /\ job' = [job EXCEPT ![p] = Oldest(ws)]
                /\ Goto(p, "update")
                /\ UNCHANGED <<todo, taken>>
        /\ UNCHANGED <<rows, queues, scopes, closed, cut, faults>>

\* claimWorkspace, its UPDATE: it finds the row as it was selected.
UpdateApplied(p) ==
    /\ pc[p] = "update" /\ job[p] # NoJob
    /\ rows' = [rows EXCEPT ![job[p]].status = "running", ![job[p]].leased = TRUE,
                            ![job[p]].due = TRUE, ![job[p]].holder = p]

Claim(p) ==
    /\ ~closed[p]
    /\ UpdateApplied(p)
    /\ Spoil(job[p], p)
    /\ todo' = [todo EXCEPT ![p] = << >>]
    /\ Goto(p, "process")
    /\ UNCHANGED <<queues, scopes, taken, closed, cut, faults>>

\* The row has changed: no row updated, on to the next workspace.
ClaimMissed(p) ==
    /\ pc[p] = "update" /\ ~closed[p]
    /\ job[p] = NoJob
    /\ NextScope(p)
    /\ UNCHANGED <<rows, queues, scopes, job, closed, cut, faults>>

\* Mutant of ClaimError: the loop goes on after an error.
ClaimErrorRetries(p) ==
    /\ pc[p] \in {"claim", "visit", "update"}
    /\ IF closed[p] THEN UNCHANGED faults
       ELSE faults < MaxFaults /\ faults' = faults + 1
    /\ Goto(p, "claim")
    /\ job' = [job EXCEPT ![p] = NoJob]
    /\ todo' = [todo EXCEPT ![p] = << >>]
    /\ UNCHANGED <<rows, queues, scopes, taken, closed, cut>>

\* The UPDATE of a claim is applied and its answer is not waited for, or
\* lost: nobody works on the job before its lease has run out.
ClaimCut(p) ==
    /\ UpdateApplied(p)
    /\ LetGo(p)
    /\ cut' = IF closed[p] THEN [cut EXCEPT ![p] = job[p]] ELSE cut

\* A statement of Claim fails: always once the context is cancelled,
\* otherwise as a fault.  The batch is over.
ClaimError(p) ==
    /\ pc[p] \in {"claim", "visit", "update"}
    /\ IF closed[p] THEN UNCHANGED faults
       ELSE faults < MaxFaults /\ faults' = faults + 1
    /\ Wait(p)
    /\ todo' = [todo EXCEPT ![p] = << >>]
    /\ \/ job' = [job EXCEPT ![p] = NoJob] /\ UNCHANGED <<rows, cut>>
       \/ ClaimCut(p)
    /\ UNCHANGED <<queues, scopes, closed>>

\* The heartbeat of p renews a lease that had run out, before anybody else
\* claimed the job.
Heartbeat(p) ==
    /\ Holds(p) /\ ~closed[p]
    /\ ~rows[job[p]].leased
    /\ rows' = [rows EXCEPT ![job[p]].leased = TRUE]
    /\ Spoil(job[p], p)
    /\ UNCHANGED <<queues, scopes, pc, todo, taken, closed, cut, faults>>

\* Process succeeds: the completing write needs the fence and a context
\* that is not cancelled.
Completed(p) ==
    /\ Holds(p) /\ ~closed[p]
    /\ End(job[p])
    /\ LetGo(p)
    /\ NextClaim(p)
    /\ UNCHANGED <<scopes, todo, closed, cut, faults>>

\* PlanProcessingFailure.
Failed(j) ==
    IF rows[j].attempts + 1 < MaxAttempts
    THEN /\ rows' = [rows EXCEPT ![j] =
                       [Fresh EXCEPT !.due = FALSE,
                                     !.attempts = rows[j].attempts + 1]]
         /\ UNCHANGED queues
    ELSE End(j)

\* Mutant of Fail: the failure is reported with the cancelled context.
FailCancelled(p) ==
    /\ pc[p] = "process"
    /\ IF Holds(p) /\ ~closed[p]
       THEN Failed(job[p]) /\ LetGo(p)
       ELSE job' = [job EXCEPT ![p] = NoJob] /\ UNCHANGED <<rows, queues>>
    /\ NextClaim(p)
    /\ UNCHANGED <<scopes, todo, closed, cut, faults>>

\* Process returns an error (the provider's, a lost fence, the cancelled
\* context) and Fail reports it, with a context that Close does not cancel.
\* A stale fence leaves the row alone.
Fail(p) ==
    /\ pc[p] = "process"
    /\ IF Holds(p)
       THEN Failed(job[p]) /\ LetGo(p)
       ELSE job' = [job EXCEPT ![p] = NoJob] /\ UNCHANGED <<rows, queues>>
    /\ NextClaim(p)
    /\ UNCHANGED <<scopes, todo, closed, cut, faults>>

\* The store fails under Fail: the row stays running until its lease ends.
FailError(p) ==
    /\ pc[p] = "process"
    /\ faults < MaxFaults
    /\ faults' = faults + 1
    /\ job' = [job EXCEPT ![p] = NoJob]
    /\ NextClaim(p)
    /\ UNCHANGED <<rows, queues, scopes, todo, closed, cut>>

\* The ticker fires.
Tick(p) ==
    /\ pc[p] = "select"
    /\ Goto(p, "claim")
    /\ UNCHANGED <<rows, queues, scopes, todo, taken, job, closed, cut, faults>>

\* The context is done: the goroutine returns.
Stop(p) ==
    /\ pc[p] = "select" /\ closed[p]
    /\ Goto(p, "stopped")
    /\ UNCHANGED <<rows, queues, scopes, todo, taken, job, closed, cut, faults>>

Close(p) ==
    /\ p \in Closing /\ ~closed[p] /\ pc[p] # "down"
    /\ closed' = [closed EXCEPT ![p] = TRUE]
    /\ UNCHANGED <<rows, queues, scopes, pc, todo, taken, job, cut, faults>>

\* The process dies with whatever it was doing.
Crash(p) ==
    /\ pc[p] \notin {"down", "stopped"}
    /\ faults < MaxFaults
    /\ faults' = faults + 1
    /\ Goto(p, "down")
    /\ job' = [job EXCEPT ![p] = NoJob]
    /\ todo' = [todo EXCEPT ![p] = << >>]
    /\ taken' = [taken EXCEPT ![p] = 0]
    /\ UNCHANGED <<rows, queues, scopes, closed, cut>>

Restart(p) ==
    /\ pc[p] = "down"
    /\ Goto(p, "claim")
    /\ closed' = [closed EXCEPT ![p] = FALSE]
    /\ cut' = [cut EXCEPT ![p] = NoJob]
    /\ UNCHANGED <<rows, queues, scopes, todo, taken, job, faults>>

-----------------------------------------------------------------------------
Init ==
    /\ rows = [j \in Jobs |-> NoRow]
    /\ queues = [ws \in Workspaces |-> << >>]
    /\ scopes = << >>
    /\ pc = [p \in Pollers |-> "claim"]
    /\ todo = [p \in Pollers |-> << >>]
    /\ taken = [p \in Pollers |-> 0]
    /\ job = [p \in Pollers |-> NoJob]
    /\ closed = [p \in Pollers |-> FALSE]
    /\ cut = [p \in Pollers |-> NoJob]
    /\ faults = 0

\* The steps of the loop that only wait for the scheduler or the provider.
Loop(p) ==
    \/ ListScopes(p) \/ Visit(p) \/ Claim(p) \/ ClaimMissed(p)
    \/ Completed(p) \/ Fail(p)
    \/ ClaimError(p) /\ closed[p]

Next ==
    \/ \E j \in Jobs : Submit(j) \/ Cancel(j) \/ Due(j) \/ LeaseEnds(j)
    \/ \E p \in Pollers :
          \/ Loop(p) \/ Tick(p) \/ Stop(p) \/ Heartbeat(p)
          \/ ClaimError(p) \/ FailError(p)
          \/ Close(p) \/ Crash(p) \/ Restart(p)

Fairness ==
    /\ \A p \in Pollers :
          /\ WF_vars(Loop(p)) /\ WF_vars(Tick(p)) /\ SF_vars(Stop(p))
          /\ WF_vars(Restart(p))
    /\ \A j \in Jobs :
          WF_vars(Due(j)) /\ WF_vars(Orphaned(j) /\ LeaseEnds(j))

Spec == Init /\ [][Next]_vars /\ Fairness
-----------------------------------------------------------------------------
(***************************************************************************)
(* Properties.                                                             *)
(***************************************************************************)

\* The variables stay in their types.
TypeOK ==
    /\ rows \in [Jobs -> [status: {"queued", "running", "ended"},
                          attempts: 0 .. MaxAttempts - 1, due: BOOLEAN,
                          leased: BOOLEAN, holder: Pollers \cup {NoPoller}]]
    /\ \A ws \in Workspaces :
          /\ Range(queues[ws]) = {j \in Jobs : Open(j) /\ WorkspaceOf[j] = ws}
          /\ IsInjective(queues[ws])
    /\ Range(scopes) \subseteq Workspaces /\ IsInjective(scopes)
    /\ taken \in [Pollers -> Nat]
    /\ job \in [Pollers -> Jobs \cup {NoJob}]
    /\ cut \in [Pollers -> Jobs \cup {NoJob}]

Submits(ws) == \E j \in Jobs : WorkspaceOf[j] = ws /\ Submit(j)

\* Every job that was submitted ends, although workers fail it, crash, lose
\* leases and are shut down, as long as one runtime stays: no job is
\* forgotten by a crash (lease expiry in claimWorkspace), none is retried
\* for ever (PlanProcessingFailure), and no workspace starves another that
\* waits, however much it submits (registerScope).  A workspace can only
\* starve itself: each of its own submissions sends it behind the others, so
\* while both it and another one submit for ever, its jobs may wait for ever.
EveryJobEnds ==
    \A j \in Jobs :
        \/ Open(j) ~> ~Open(j)
        \/ /\ []<><<Submits(WorkspaceOf[j])>>_vars
           /\ \E ws \in Workspaces \ {WorkspaceOf[j]} : []<><<Submits(ws)>>_vars

\* A runtime that is closed returns from its loop, unless it crashes, also
\* when it is closed in the middle of a claim or of a job.
CloseStops == \A p \in Pollers : closed[p] ~> pc[p] \in {"stopped", "down"}

\* A runtime that was closed leaves no job behind that others must wait a
\* lease for: the job it was working on went back to the queue with one
\* more attempt (processClaimed reports with context.WithoutCancel), unless
\* the store failed under it.  The one exception is a claim that Close cut
\* off after its UPDATE was applied (Claim runs with the cancelled context).
ShutdownReturnsJobs ==
    \A p \in Pollers : pc[p] = "stopped" /\ faults = 0 =>
        \A j \in Jobs : rows[j].status = "running" /\ rows[j].holder = p => j = cut[p]
=============================================================================
