-------------------------- MODULE ExportJobProofs ---------------------------
(***************************************************************************)
(* Proofs about paged exports: ExportJob runs the lease protocol of        *)
(* JobQueue, so what is proved there holds of it, and its chunks are       *)
(* numbered without a gap, for any provider, stalled or not.               *)
(***************************************************************************)
EXTENDS ExportJob, JobQueueProofs

(***************************************************************************)
(* The inductive invariant behind ChunksContiguous and ProgressKept.       *)
(*                                                                         *)
(* It is stated for all jobs but those of a set G, of which no more is     *)
(* asked than that they have ended: where accounts are erased, a worker    *)
(* may hold on to a job whose row and chunks are gone.  Exports by         *)
(* themselves erase nothing, and G is empty.                               *)
(***************************************************************************)
AllEnded(G) == \A j \in G : j \in Jobs /\ jobs[j].status \in Ended

\* No worker is ahead of the chunks of its job; one whose claim was read
\* before the last commit of its predecessor is behind them.
SeqBounded(G) ==
    \A w \in Workers : pc[w] # "idle" /\ item[w].job \notin G =>
        mem[w].seq <= jobs[item[w].job].chunks

\* A worker level with the chunks has counted the rows they were made of.
TotalsCounted(G) ==
    \A w \in Workers :
        (/\ pc[w] # "idle" /\ item[w].job \notin G
         /\ mem[w].seq = jobs[item[w].job].chunks) =>
            mem[w].total >= jobs[item[w].job].checkpoint

\* A job that was not submitted has no progress.
AbsentBare ==
    \A j \in Jobs : jobs[j].status = "absent" =>
        jobs[j].chunks = 0 /\ jobs[j].checkpoint = 0

ChunkInv(G) ==
    /\ TypeOK /\ TokenInv /\ ChunksContiguous /\ AbsentBare
    /\ AllEnded(G) /\ SeqBounded(G) /\ TotalsCounted(G)

-----------------------------------------------------------------------------
\* Page numbers and row counts are natural numbers.
LEMMA PageTypes ==
    /\ 0 \in Pages /\ Pages \subseteq Nat
    /\ \A p \in Pages : PageRows[p] \in Nat
BY ExportAssumption DEF Pages

-----------------------------------------------------------------------------
(***************************************************************************)
(* Every step of an export is one of the lease protocol.                   *)
(***************************************************************************)

\* The commit of a page is a fenced write of the progress columns.
LEMMA CommitIsProgress ==
    ASSUME TypeOK, NEW w \in Workers, NEW next \in Pages, Commit(w, next)
    PROVE  /\ SomeProgress(w)
           /\ item[w].job \in Jobs
           /\ jobs'[item[w].job].cursor = next
           /\ jobs'[item[w].job].chunks = mem[w].seq + 1
           /\ jobs'[item[w].job].checkpoint = mem[w].total + PageRows[mem[w].cursor]
           /\ \A k \in Jobs \ {item[w].job} : jobs'[k] = jobs[k]
<1>1. PICK j \in Jobs, r \in JobRow, c \in Nat, u \in Nat, n \in Nat :
         /\ j = item[w].job /\ r = jobs[j] /\ u = next
         /\ c = mem[w].total + PageRows[mem[w].cursor] /\ n = mem[w].seq + 1
  <2>1. item[w].job \in Jobs /\ jobs[item[w].job] \in JobRow
    BY DEF TypeOK, QueueTypeOK, Commit, Progress, Processing
  <2>2. mem[w].cursor \in Pages /\ mem[w].seq \in Nat /\ mem[w].total \in Nat
    BY DEF TypeOK
  <2>3. PageRows[mem[w].cursor] \in Nat /\ next \in Nat
    BY <2>2, PageTypes
  <2>4. mem[w].total + PageRows[mem[w].cursor] \in Nat /\ mem[w].seq + 1 \in Nat
    BY <2>2, <2>3
  <2>5. QED
    BY <2>1, <2>3, <2>4
<1>2. Progress(w, c, u, n)
  BY <1>1 DEF Commit
<1>3. jobs' = [jobs EXCEPT ![j] = Progressed(jobs[j], c, u, n)]
  BY <1>1, <1>2 DEF Progress
<1>4. /\ jobs'[j] = Progressed(r, c, u, n)
      /\ \A k \in Jobs \ {j} : jobs'[k] = jobs[k]
  BY <1>1, <1>3 DEF TypeOK, QueueTypeOK
<1>5. /\ Progressed(r, c, u, n) \in JobRow
      /\ Progressed(r, c, u, n).checkpoint = c
      /\ Progressed(r, c, u, n).cursor = u /\ Progressed(r, c, u, n).chunks = n
  BY ProgressRow
<1>6. /\ jobs'[j] \in JobRow /\ jobs'[j].checkpoint = c
      /\ jobs'[j].cursor = u /\ jobs'[j].chunks = n
  BY <1>4, <1>5, Zenon
<1>7. SomeProgress(w)
  BY <1>1, <1>2, <1>6 DEF SomeProgress
<1>8. QED
  BY <1>1, <1>4, <1>6, <1>7

\* Every step is a step of the queue or leaves the queue's variables alone.
LEMMA NextIsQueueStep ==
    ASSUME TypeOK, [Next]_vars
    PROVE  [QueueNext]_qvars
<1>1. ASSUME NEW w \in Workers, NEW next \in Pages, SkipPage(w, next)
      PROVE  [QueueNext]_qvars
  BY <1>1 DEF SkipPage, QueueNext, WorkerStep
<1>2. ASSUME NEW w \in Workers, NEW next \in Pages, CommitResultPage(w, next)
      PROVE  [QueueNext]_qvars
  BY <1>2, CommitIsProgress DEF CommitResultPage, QueueNext, WorkerStep
<1>3. ASSUME NEW w \in Workers, CommitStalledPage(w)
      PROVE  [QueueNext]_qvars
  <2>1. mem[w].cursor \in Pages
    BY DEF TypeOK
  <2>2. QED
    BY <1>3, <2>1, CommitIsProgress DEF CommitStalledPage, QueueNext, WorkerStep
<1>4. ASSUME NEW w \in Workers, ResultIdentity(w) \/ CompleteExport(w)
      PROVE  [QueueNext]_qvars
  BY <1>4 DEF ResultIdentity, CompleteExport
<1>5. ASSUME NEW w \in Workers, NEW ack \in BOOLEAN, CompleteJob(w, ack)
      PROVE  [QueueNext]_qvars
  BY <1>5 DEF CompleteJob, QueueNext, WorkerStep
<1>6. ASSUME NEW w \in Workers,
             \/ \E j \in Jobs : ExportClaimSelect(w, j)
             \/ ExportClaimUpdate(w) \/ GiveUp(w) \/ QueueOnly(w)
      PROVE  [QueueNext]_qvars
  BY <1>6 DEF ExportClaimSelect, ExportClaimUpdate, GiveUp, QueueOnly,
              QueueNext, WorkerStep
<1>7. ASSUME NEW j \in Jobs, Submit(j) \/ Cancel(j) PROVE [QueueNext]_qvars
  BY <1>7 DEF QueueNext
<1>8. CASE Tick \/ UNCHANGED vars
  BY <1>8 DEF QueueNext, vars, qvars
<1>9. QED
  BY <1>1, <1>2, <1>3, <1>4, <1>5, <1>6, <1>7, <1>8 DEF Next, ExportWorker

-----------------------------------------------------------------------------
(***************************************************************************)
(* Type correctness.                                                       *)
(***************************************************************************)

ChunksTyped ==
    /\ DOMAIN chunks = Jobs
    /\ \A j \in Jobs : \A s \in DOMAIN chunks[j] :
          s \in Nat /\ chunks[j][s] \in Pages

\* A commit keeps the chunks typed.
LEMMA CommitChunks ==
    ASSUME TypeOK, NEW w \in Workers, NEW next \in Pages, Commit(w, next)
    PROVE  /\ ChunksTyped'
           /\ DOMAIN chunks'[item[w].job] = DOMAIN chunks[item[w].job] \cup {mem[w].seq}
           /\ \A s \in DOMAIN chunks[item[w].job] :
                 chunks'[item[w].job][s] = chunks[item[w].job][s]
           /\ \A k \in Jobs \ {item[w].job} : chunks'[k] = chunks[k]
           /\ mem[w].seq \notin DOMAIN chunks[item[w].job]
<1>1. PICK j \in Jobs, s \in Nat, p \in Pages :
         j = item[w].job /\ s = mem[w].seq /\ p = mem[w].cursor
  BY CommitIsProgress DEF TypeOK
<1>2. /\ chunks' = [chunks EXCEPT ![j] = AddChunk(chunks[j], s, p)]
      /\ s \notin DOMAIN chunks[j]
  BY <1>1 DEF Commit, ChunkFree
<1>3. /\ DOMAIN AddChunk(chunks[j], s, p) = DOMAIN chunks[j] \cup {s}
      /\ \A i \in DOMAIN chunks[j] \cup {s} :
            AddChunk(chunks[j], s, p)[i] = IF i = s THEN p ELSE chunks[j][i]
  BY DEF AddChunk
<1>4. /\ chunks'[j] = AddChunk(chunks[j], s, p)
      /\ \A k \in Jobs \ {j} : chunks'[k] = chunks[k]
      /\ DOMAIN chunks' = Jobs
  BY <1>2 DEF TypeOK
<1>5. \A i \in DOMAIN chunks'[j] : i \in Nat /\ chunks'[j][i] \in Pages
  BY <1>3, <1>4 DEF TypeOK
<1>6. ChunksTyped'
  BY <1>4, <1>5 DEF TypeOK, ChunksTyped
<1>7. QED
  BY <1>1, <1>2, <1>3, <1>4, <1>6

Locals == [cursor: Pages, seq: Nat, total: Nat]

\* The locals of the workers stay typed.
MemTyped ==
    mem \in [Workers -> Locals] /\ DOMAIN sha = Workers /\ step \in [Workers -> Steps]

\* Nothing is committed.
NoCommit == chunks' = chunks /\ \A j \in Jobs : ProgressKeeps(j)

\* A step that commits nothing keeps the types if the locals keep theirs.
LEMMA NoCommitTyped ==
    ASSUME TypeOK, QueueTypeOK', NoCommit, MemTyped'
    PROVE  TypeOK'
BY DEF TypeOK, NoCommit, MemTyped, ProgressKeeps, Locals

\* A worker that forgets its locals keeps them typed.
LEMMA ResetTyped ==
    ASSUME TypeOK, NEW w \in Workers, ResetLocals(w)
    PROVE  MemTyped'
<1>1. NoMem \in Locals /\ "none" \in Steps
  BY PageTypes DEF NoMem, Locals, Steps
<1>2. QED
  BY <1>1 DEF TypeOK, ResetLocals, MemTyped, Locals

\* The loop of processExport goes on to one of its steps.
LEMMA NextStepTyped ==
    ASSUME NEW m \in Locals PROVE NextStep(m) \in Steps
BY DEF NextStep, Steps

\* The locals after a page, committed or skipped.
LEMMA PageLocals ==
    ASSUME NEW m \in Locals, NEW next \in Pages
    PROVE  /\ [cursor |-> next, seq |-> m.seq + 1,
               total |-> m.total + PageRows[m.cursor]] \in Locals
           /\ [m EXCEPT !.cursor = next, !.total = @ + PageRows[m.cursor]] \in Locals
           /\ [m EXCEPT !.cursor = next, !.total = @ + PageRows[m.cursor]].seq = m.seq
           /\ [m EXCEPT !.cursor = next, !.total = @ + PageRows[m.cursor]].total >= m.total
<1>1. m.cursor \in Pages /\ m.seq \in Nat /\ m.total \in Nat
  BY DEF Locals
<1>2. PageRows[m.cursor] \in Nat
  BY <1>1, PageTypes
<1>3. PICK t \in Nat : t = m.total + PageRows[m.cursor] /\ t >= m.total
  BY <1>1, <1>2
<1>4. /\ [cursor |-> next, seq |-> m.seq + 1, total |-> t] \in Locals
      /\ [m EXCEPT !.cursor = next, !.total = t] \in Locals
      /\ [m EXCEPT !.cursor = next, !.total = t].seq = m.seq
      /\ [m EXCEPT !.cursor = next, !.total = t].total = t
  <2>1. PICK d : d = [m EXCEPT !.cursor = next, !.total = t]
    OBVIOUS
  <2>2. d \in Locals /\ d.seq = m.seq /\ d.total = t
    BY <2>1 DEF Locals
  <2>3. [cursor |-> next, seq |-> m.seq + 1, total |-> t] \in Locals
    BY <1>1 DEF Locals
  <2>4. QED
    BY <2>1, <2>2, <2>3, Zenon
<1>5. QED
  BY <1>3, <1>4, Zenon

-----------------------------------------------------------------------------
(***************************************************************************)
(* The three kinds of steps: a submission, a commit, and all the others.   *)
(***************************************************************************)

\* The sequence number of a worker stays and its total does not shrink, or
\* both were just read from the row.
SeqKept ==
    \A v \in Workers : pc'[v] # "idle" =>
        \/ /\ pc[v] # "idle" /\ item'[v].job = item[v].job
           /\ mem'[v].seq = mem[v].seq /\ mem'[v].total >= mem[v].total
        \/ /\ mem'[v].seq = jobs[item'[v].job].chunks
           /\ mem'[v].total = jobs[item'[v].job].checkpoint

Quiet == NoCommit /\ MemTyped' /\ SeqKept

\* A commit of w, which moves its own sequence number by at most one.
Committed(w) ==
    /\ \E next \in Pages : Commit(w, next)
    /\ MemTyped'
    /\ \/ mem'[w] = mem[w]
       \/ /\ mem'[w].seq = mem[w].seq + 1
          /\ mem'[w].total = mem[w].total + PageRows[mem[w].cursor]
    /\ \A v \in Workers \ {w} : mem'[v] = mem[v]

\* The SELECT of a claim only reads the progress columns.
LEMMA SelectIsQuiet ==
    ASSUME TypeOK, TokenInv, NEW w \in Workers, NEW j \in Jobs,
           ExportClaimSelect(w, j)
    PROVE  Quiet
<1> DEFINE m == [cursor |-> jobs[j].cursor, seq |-> jobs[j].chunks,
                 total |-> jobs[j].checkpoint]
<1>1. m \in Locals
  BY DEF TypeOK, QueueTypeOK, JobRow, Locals
<1>2. /\ ClaimSelect(w, j)
      /\ mem' = [mem EXCEPT ![w] = m]
      /\ UNCHANGED <<chunks, sha, step>>
  BY DEF ExportClaimSelect
<1>3. NoCommit
  BY <1>2, WorkerKeepsProgress DEF NoCommit, TokenInv
<1>4. MemTyped'
  BY <1>1, <1>2 DEF TypeOK, MemTyped, Locals
<1>5. /\ \A v \in Workers \ {w} : mem'[v] = mem[v] /\ pc'[v] = pc[v] /\ item'[v] = item[v]
      /\ item'[w].job = j
  BY <1>2 DEF ClaimSelect, TypeOK, QueueTypeOK
<1>6. mem'[w].seq = jobs[j].chunks /\ mem'[w].total = jobs[j].checkpoint
  BY <1>2 DEF TypeOK
<1>7. SeqKept
  <2>1. \A v \in Workers : mem[v].total >= mem[v].total
    BY DEF TypeOK
  <2>2. QED
    BY <1>5, <1>6, <2>1 DEF SeqKept
<1>8. QED
  BY <1>3, <1>4, <1>7 DEF Quiet

\* The UPDATE of a claim leaves progress and locals alone.
LEMMA UpdateIsQuiet ==
    ASSUME TypeOK, TokenInv, NEW w \in Workers, ExportClaimUpdate(w)
    PROVE  Quiet
<1>1. /\ ClaimUpdate(w)
      /\ step' = [step EXCEPT ![w] = NextStep(mem[w])]
      /\ UNCHANGED <<chunks, mem, sha>>
  BY DEF ExportClaimUpdate
<1>2. NoCommit
  BY <1>1, WorkerKeepsProgress DEF NoCommit, TokenInv
<1>3. MemTyped'
  <2>1. mem[w] \in Locals
    BY DEF TypeOK, Locals
  <2>2. NextStep(mem[w]) \in Steps
    BY <2>1, NextStepTyped
  <2>3. QED
    BY <1>1, <2>2 DEF TypeOK, MemTyped, Locals
<1>4. item[w] \in WorkItem /\ item' = [item EXCEPT ![w] = Taken(item[w])]
  BY <1>1 DEF ClaimUpdate, TypeOK, QueueTypeOK
<1>5. item'[w].job = item[w].job
  BY <1>4, ClaimedItem DEF TypeOK, QueueTypeOK
<1>6. \A v \in Workers \ {w} : item'[v] = item[v] /\ pc'[v] = pc[v]
  BY <1>1 DEF ClaimUpdate, TypeOK, QueueTypeOK
<1>7. SeqKept
  BY <1>1, <1>5, <1>6 DEF SeqKept, ClaimUpdate, TypeOK
<1>8. QED
  BY <1>2, <1>3, <1>7 DEF Quiet

\* A worker that becomes idle and forgets its locals.
LEMMA ResetIsQuiet ==
    ASSUME TypeOK, NoCommit, NEW w \in Workers, Idle(w), ResetLocals(w)
    PROVE  Quiet
<1>1. MemTyped'
  BY ResetTyped
<1>2. SeqKept
  BY DEF SeqKept, Idle, ResetLocals, TypeOK, QueueTypeOK
<1>3. QED
  BY <1>1, <1>2 DEF Quiet

\* A step that keeps the locals, the workers' jobs and who is idle.
LEMMA SteadyIsQuiet ==
    ASSUME TypeOK, NoCommit, UNCHANGED <<mem, sha, step>>,
           \A v \in Workers : pc'[v] # "idle" =>
                                 pc[v] # "idle" /\ item'[v].job = item[v].job
    PROVE  Quiet
BY DEF Quiet, TypeOK, MemTyped, Locals, SeqKept

\* Completing a job leaves its progress columns and its chunks alone.
LEMMA CompleteIsQuiet ==
    ASSUME TypeOK, TokenInv, NEW w \in Workers, NEW ack \in BOOLEAN,
           CompleteJob(w, ack)
    PROVE  Quiet
<1>1. Complete(w, ack) /\ chunks' = chunks
  BY DEF CompleteJob
<1>2. NoCommit
  BY <1>1, WorkerKeepsProgress DEF NoCommit, TokenInv
<1>3. CASE ack
  BY <1>2, <1>3, ResetIsQuiet DEF CompleteJob, Complete
<1>4. CASE ~ack
  <2>1. UNCHANGED <<mem, sha, step>> /\ PlanFailure(w) /\ pc[w] = "process"
    BY <1>4 DEF CompleteJob, Complete, Processing
  <2>2. \A v \in Workers : pc'[v] # "idle" =>
           pc[v] # "idle" /\ item'[v].job = item[v].job
    BY <2>1, PlanShape DEF KeepsClaim, TypeOK
  <2>3. QED
    BY <1>2, <2>1, <2>2, SteadyIsQuiet
<1>5. QED
  BY <1>3, <1>4

\* A page without content moves the locals of its worker and no row.
LEMMA SkipIsQuiet ==
    ASSUME TypeOK, TokenInv, NEW w \in Workers, NEW next \in Pages, SkipPage(w, next)
    PROVE  Quiet
<1> DEFINE m == mem[w]
           n == [m EXCEPT !.cursor = next, !.total = @ + PageRows[m.cursor]]
<1>1. chunks' = chunks /\ sha' = sha
  BY DEF SkipPage
<1>2. CASE next # 0 /\ next = m.cursor
  <2>1. ProcessError(w) /\ UNCHANGED <<mem, step>>
    BY <1>2 DEF SkipPage
  <2>2. NoCommit
    BY <1>1, <2>1, WorkerKeepsProgress DEF NoCommit, TokenInv
  <2>3. \A v \in Workers : pc'[v] # "idle" =>
           pc[v] # "idle" /\ item'[v].job = item[v].job
    BY <2>1, ErrorShape DEF KeepsClaim, TypeOK
  <2>4. QED
    BY <1>1, <2>1, <2>2, <2>3, SteadyIsQuiet
<1>3. CASE ~(next # 0 /\ next = m.cursor)
  <2>1. /\ mem' = [mem EXCEPT ![w] = n]
        /\ step' = [step EXCEPT ![w] = NextStep(n)]
        /\ UNCHANGED qvars
    BY <1>3 DEF SkipPage
  <2>2. m \in Locals
    BY DEF TypeOK, Locals
  <2>3. n \in Locals /\ n.seq = m.seq /\ n.total >= m.total
    BY <2>2, PageLocals
  <2>4. NextStep(n) \in Steps
    BY <2>3, NextStepTyped
  <2> HIDE DEF n
  <2>5. MemTyped'
    BY <1>1, <2>1, <2>3, <2>4 DEF TypeOK, MemTyped, Locals
  <2>6. \A v \in Workers : mem'[v].seq = mem[v].seq /\ mem'[v].total >= mem[v].total
    BY <2>1, <2>3 DEF TypeOK
  <2>7. NoCommit /\ SeqKept
    BY <1>1, <2>1, <2>6 DEF NoCommit, ProgressKeeps, SeqKept, qvars
  <2>8. QED
    BY <2>5, <2>7 DEF Quiet
<1>4. QED
  BY <1>2, <1>3

\* ResultIdentity and CompleteExport leave the queue and the chunks alone.
LEMMA FinishingIsQuiet ==
    ASSUME TypeOK, NEW w \in Workers, ResultIdentity(w) \/ CompleteExport(w)
    PROVE  Quiet
<1>1. UNCHANGED qvars /\ chunks' = chunks /\ mem' = mem
  BY DEF ResultIdentity, CompleteExport
<1>2. DOMAIN sha' = Workers
  BY DEF ResultIdentity, CompleteExport, TypeOK
<1>3. step' \in [Workers -> Steps]
  BY DEF ResultIdentity, CompleteExport, TypeOK, Steps
<1>4. QED
  BY <1>1, <1>2, <1>3 DEF Quiet, NoCommit, ProgressKeeps, SeqKept, MemTyped,
                          TypeOK, Locals, qvars

\* A worker that gives up its job leaves the progress as it is.
LEMMA GiveUpIsQuiet ==
    ASSUME TypeOK, TokenInv, NEW w \in Workers, GiveUp(w)
    PROVE  Quiet
<1>1. ClaimMissed(w) \/ Fail(w) \/ FailStale(w) \/ Crash(w)
  BY DEF GiveUp
<1>2. NoCommit
  BY <1>1, WorkerKeepsProgress DEF NoCommit, TokenInv, GiveUp
<1>3. Idle(w)
  BY <1>1 DEF ClaimMissed, Fail, FailStale, Crash
<1>4. QED
  BY <1>2, <1>3, ResetIsQuiet DEF GiveUp

\* Heartbeats, interruptions and errors commit nothing.
LEMMA QueueOnlyIsQuiet ==
    ASSUME TypeOK, TokenInv, NEW w \in Workers, QueueOnly(w)
    PROVE  Quiet
<1>1. Heartbeat(w) \/ Interrupt(w) \/ ProcessError(w)
  BY DEF QueueOnly
<1>2. UNCHANGED <<chunks, mem, sha, step>>
  BY DEF QueueOnly, evars
<1>3. NoCommit
  BY <1>1, <1>2, WorkerKeepsProgress DEF NoCommit, TokenInv
<1>4. \A v \in Workers : pc'[v] # "idle" =>
         pc[v] # "idle" /\ item'[v].job = item[v].job
  <2>1. CASE ProcessError(w)
    BY <2>1, ErrorShape DEF KeepsClaim, TypeOK
  <2>2. CASE Heartbeat(w) \/ Interrupt(w)
    BY <2>2 DEF Heartbeat, Interrupt
  <2>3. QED
    BY <1>1, <2>1, <2>2
<1>5. QED
  BY <1>2, <1>3, <1>4, SteadyIsQuiet

\* A page is committed and its worker moves on to the next one.
LEMMA PageIsCommitted ==
    ASSUME TypeOK, NEW w \in Workers, NEW next \in Pages,
           CommitResultPage(w, next)
    PROVE  Committed(w)
<1> DEFINE m == mem[w]
           n == [cursor |-> next, seq |-> m.seq + 1,
                 total |-> m.total + PageRows[m.cursor]]
<1>1. m \in Locals
  BY DEF TypeOK, Locals
<1>2. /\ n \in Locals /\ n.seq = m.seq + 1
      /\ n.total = m.total + PageRows[m.cursor]
  BY <1>1, PageLocals
<1>3. NextStep(n) \in Steps
  BY <1>2, NextStepTyped
<1>4. /\ Commit(w, next)
      /\ mem' = [mem EXCEPT ![w] = n]
      /\ step' = [step EXCEPT ![w] = NextStep(n)]
      /\ sha' = sha
  BY DEF CommitResultPage
<1> HIDE DEF n
<1>5. MemTyped'
  BY <1>2, <1>3, <1>4 DEF TypeOK, MemTyped, Locals
<1>6. /\ mem'[w].seq = m.seq + 1
      /\ mem'[w].total = m.total + PageRows[m.cursor]
      /\ \A v \in Workers \ {w} : mem'[v] = mem[v]
  BY <1>2, <1>4 DEF TypeOK
<1>7. QED
  BY <1>4, <1>5, <1>6 DEF Committed

\* A stalled page is committed and its worker stays where it is.
LEMMA StalledPageIsCommitted ==
    ASSUME TypeOK, NEW w \in Workers, CommitStalledPage(w)
    PROVE  Committed(w)
<1>1. mem[w].cursor \in Pages
  BY DEF TypeOK
<1>2. Commit(w, mem[w].cursor) /\ UNCHANGED <<mem, sha>>
  BY DEF CommitStalledPage
<1>3. step' \in [Workers -> Steps]
  BY DEF CommitStalledPage, TypeOK, Steps
<1>4. MemTyped'
  BY <1>2, <1>3 DEF TypeOK, MemTyped, Locals
<1>5. QED
  BY <1>1, <1>2, <1>4 DEF Committed

\* Every step is of one of the three kinds.
LEMMA StepKinds ==
    ASSUME TypeOK, TokenInv, [Next]_vars
    PROVE  \/ \E j \in Jobs : Submit(j) /\ UNCHANGED evars
           \/ \E w \in Workers : Committed(w)
           \/ Quiet
<1>1. ASSUME NEW j \in Jobs, Cancel(j), UNCHANGED evars PROVE Quiet
  BY <1>1, CancelKeepsProgress, SteadyIsQuiet DEF TypeOK, NoCommit, Cancel, evars
<1>2. CASE (Tick /\ UNCHANGED evars) \/ UNCHANGED vars
  BY <1>2, SteadyIsQuiet DEF NoCommit, ProgressKeeps, Tick, evars, vars, qvars
<1>3. ASSUME NEW w \in Workers, ExportWorker(w)
      PROVE  Committed(w) \/ Quiet
  BY <1>3, SelectIsQuiet, UpdateIsQuiet, SkipIsQuiet, FinishingIsQuiet,
     CompleteIsQuiet, GiveUpIsQuiet, QueueOnlyIsQuiet, PageIsCommitted,
     StalledPageIsCommitted
  DEF ExportWorker
<1>4. QED
  BY <1>1, <1>2, <1>3 DEF Next

\* Every step keeps the types and the token invariant.
LEMMA TypeStep ==
    ASSUME TypeOK, TokenInv, [Next]_vars
    PROVE  TypeOK' /\ TokenInv'
<1>1. [QueueNext]_qvars
  BY NextIsQueueStep
<1>2. QueueTypeOK' /\ TokenInv'
  BY <1>1, TokenStep DEF TokenInv
<1>3. ASSUME NEW j \in Jobs, Submit(j), UNCHANGED evars PROVE TypeOK'
  BY <1>2, <1>3, SubmitShape, PageTypes DEF TypeOK, evars
<1>4. ASSUME NEW w \in Workers, Committed(w) PROVE TypeOK'
  <2>1. PICK next \in Pages : Commit(w, next)
    BY <1>4 DEF Committed
  <2>2. ChunksTyped'
    BY <2>1, CommitChunks
  <2>3. \A k \in Jobs : jobs'[k].cursor \in Pages
    BY <2>1, CommitIsProgress DEF TypeOK
  <2>4. QED
    BY <1>2, <1>4, <2>2, <2>3 DEF TypeOK, ChunksTyped, Committed, MemTyped, Locals
<1>5. CASE Quiet
  BY <1>2, <1>5, NoCommitTyped DEF Quiet
<1>6. QED
  BY <1>2, <1>3, <1>4, <1>5, StepKinds

-----------------------------------------------------------------------------
(***************************************************************************)
(* The chunks of a result.                                                 *)
(***************************************************************************)

\* A worker that commits is level with the chunks: it is not ahead of them,
\* and the key of the chunk is free.
LEMMA CommitterIsLevel ==
    ASSUME NEW G, ChunkInv(G), NEW w \in Workers, NEW next \in Pages, Commit(w, next)
    PROVE  /\ item[w].job \in Jobs /\ pc[w] = "process"
           /\ mem[w].seq = jobs[item[w].job].chunks
           /\ mem[w].total >= jobs[item[w].job].checkpoint
           /\ jobs[item[w].job].status = "running" /\ item[w].job \notin G
           /\ UNCHANGED <<pc, item>>
<1> USE DEF ChunkInv
<1>1. /\ item[w].job \in Jobs /\ mem[w].seq \in Nat
      /\ jobs[item[w].job].chunks \in Nat
  BY CommitIsProgress DEF TypeOK, QueueTypeOK, JobRow
<1>2. /\ pc[w] = "process" /\ jobs[item[w].job].status = "running"
      /\ UNCHANGED <<pc, item>>
  BY DEF Commit, Progress, Processing, fencedJob
<1>3. item[w].job \notin G /\ mem[w].seq <= jobs[item[w].job].chunks
  BY <1>2 DEF SeqBounded, AllEnded, Ended
<1>4. mem[w].seq \notin 0 .. (jobs[item[w].job].chunks - 1)
  BY <1>1, CommitChunks DEF ChunksContiguous
<1>5. mem[w].seq = jobs[item[w].job].chunks
  BY <1>1, <1>3, <1>4
<1>6. QED
  BY <1>1, <1>2, <1>3, <1>5 DEF TotalsCounted

\* Every step keeps the invariant of the chunks.
LEMMA ChunkStep ==
    ASSUME NEW G, ChunkInv(G), [Next]_vars
    PROVE  ChunkInv(G)'
<1> USE DEF ChunkInv
<1>1. TypeOK' /\ TokenInv' /\ AllEnded(G)'
  <2>1. TypeOK' /\ TokenInv'
    BY TypeStep
  <2>2. AllEnded(G)'
    BY NextIsQueueStep, OnlyOpenRowsChange DEF AllEnded, Ended, TokenInv
  <2>3. QED
    BY <2>1, <2>2
<1>2. ASSUME NEW j \in Jobs, Submit(j), UNCHANGED evars PROVE ChunkInv(G)'
  <2>1. /\ jobs[j].status = "absent" /\ jobs'[j].status = "queued"
        /\ jobs'[j].chunks = 0
        /\ jobs[j].chunks = 0
        /\ \A k \in Jobs \ {j} : jobs'[k] = jobs[k]
        /\ UNCHANGED <<pc, item, mem, chunks>>
    BY <1>2, SubmitShape DEF TypeOK, AbsentBare, evars
  <2>2. \A w \in Workers : pc[w] # "idle" => item[w].job \in Jobs \ {j}
    BY <2>1 DEF TypeOK, QueueTypeOK, TokenInv, JobsKnown
  <2>3. ChunksContiguous'
    BY <2>1 DEF ChunksContiguous
  <2>4. SeqBounded(G)' /\ TotalsCounted(G)'
    BY <2>1, <2>2 DEF SeqBounded, TotalsCounted
  <2>5. AbsentBare'
    BY <2>1 DEF AbsentBare
  <2>6. QED
    BY <1>1, <2>3, <2>4, <2>5
<1>3. ASSUME NEW w \in Workers, Committed(w) PROVE ChunkInv(G)'
  <2>1. PICK next \in Pages : Commit(w, next)
    BY <1>3 DEF Committed
  <2>2. PICK j \in Jobs : j = item[w].job
    BY <2>1, CommitterIsLevel
  <2>3. /\ mem[w].seq = jobs[j].chunks
        /\ jobs[j].status = "running" /\ UNCHANGED <<pc, item>>
    BY <2>1, <2>2, CommitterIsLevel
  <2>4. /\ jobs'[j].chunks = jobs[j].chunks + 1
        /\ jobs'[j].checkpoint = mem[w].total + PageRows[mem[w].cursor]
        /\ \A k \in Jobs \ {j} : jobs'[k] = jobs[k]
    BY <2>1, <2>2, <2>3, CommitIsProgress
  <2>5. /\ DOMAIN chunks'[j] = DOMAIN chunks[j] \cup {jobs[j].chunks}
        /\ \A k \in Jobs \ {j} : chunks'[k] = chunks[k]
    BY <2>1, <2>2, <2>3, CommitChunks
  <2>6. jobs[j].chunks \in Nat
    BY DEF TypeOK, QueueTypeOK, JobRow
  <2>7. ChunksContiguous'
    <3>1. 0 .. ((jobs[j].chunks + 1) - 1)
             = (0 .. (jobs[j].chunks - 1)) \cup {jobs[j].chunks}
      BY <2>6
    <3>2. DOMAIN chunks'[j] = 0 .. (jobs'[j].chunks - 1)
      BY <2>4, <2>5, <3>1 DEF ChunksContiguous
    <3>3. QED
      BY <2>4, <2>5, <3>2 DEF ChunksContiguous
  <2>8. \A v \in Workers : mem[v].seq \in Nat /\ mem'[v].seq \in Nat
    BY <1>1 DEF TypeOK
  <2>9. \A v \in Workers \ {w} : mem'[v] = mem[v]
    BY <1>3 DEF Committed
  <2>10. \/ mem'[w].seq = mem[w].seq
         \/ mem'[w].seq = mem[w].seq + 1 /\ mem'[w].total = jobs'[j].checkpoint
    BY <1>3, <2>4 DEF Committed
  <2>11. SeqBounded(G)'
    BY <2>2, <2>3, <2>4, <2>6, <2>8, <2>9, <2>10 DEF SeqBounded, TypeOK, QueueTypeOK
  <2>12. jobs'[j].checkpoint \in Nat
    BY <1>1 DEF TypeOK, QueueTypeOK, JobRow
  <2>13. TotalsCounted(G)'
    BY <2>2, <2>3, <2>4, <2>6, <2>8, <2>9, <2>10, <2>12
    DEF SeqBounded, TotalsCounted, TypeOK, QueueTypeOK
  <2>14. jobs'[j].status # "absent"
    BY <2>1, <2>2, <2>3, CommitIsProgress, ProgressShape DEF TypeOK
  <2>15. AbsentBare'
    BY <2>4, <2>14 DEF AbsentBare
  <2>16. QED
    BY <1>1, <2>7, <2>11, <2>13, <2>15
<1>4. CASE Quiet
  <2>1. /\ chunks' = chunks
        /\ \A j \in Jobs : /\ jobs'[j].chunks = jobs[j].chunks
                           /\ jobs'[j].checkpoint = jobs[j].checkpoint
                           /\ jobs'[j].status = "absent" <=> jobs[j].status = "absent"
    BY <1>4 DEF Quiet, NoCommit, ProgressKeeps
  <2>2. \A v \in Workers : pc'[v] # "idle" => item'[v].job \in Jobs
    BY <1>1 DEF TypeOK, QueueTypeOK
  <2>3. \A j \in Jobs : jobs[j].chunks \in Nat /\ jobs[j].checkpoint \in Nat
    BY DEF TypeOK, QueueTypeOK, JobRow
  <2>4. \A v \in Workers : /\ mem[v].seq \in Nat /\ mem'[v].seq \in Nat
                           /\ mem[v].total \in Nat /\ mem'[v].total \in Nat
    BY <1>1 DEF TypeOK
  <2>5. SeqBounded(G)' /\ TotalsCounted(G)'
    BY <1>4, <2>1, <2>2, <2>3, <2>4 DEF Quiet, SeqKept, SeqBounded, TotalsCounted
  <2>6. ChunksContiguous' /\ AbsentBare'
    BY <2>1 DEF ChunksContiguous, AbsentBare
  <2>7. QED
    BY <1>1, <2>5, <2>6
<1>5. QED
  BY <1>2, <1>3, <1>4, StepKinds

\* The invariant of the chunks holds initially.
LEMMA ChunkInit == Init => ChunkInv({})
<1> SUFFICES ASSUME Init PROVE ChunkInv({})
  OBVIOUS
<1>1. TokenInv
  BY Blanks DEF Init, ResultInit, QueueInit, TokenInv, QueueTypeOK, JobsKnown, TokensBounded,
                TokensDistinct, Past
<1>2. \A j \in Jobs : /\ jobs[j].cursor = 0 /\ jobs[j].chunks = 0
                      /\ jobs[j].checkpoint = 0 /\ chunks[j] = << >>
  BY DEF Init, ResultInit, QueueInit, NoRow
<1>3. DOMAIN << >> = {} /\ 0 .. (0 - 1) = {}
  OBVIOUS
<1>4. NoMem \in Locals /\ "none" \in Steps
  BY PageTypes DEF NoMem, Locals, Steps
<1>5. /\ mem \in [Workers -> Locals] /\ step \in [Workers -> Steps]
      /\ DOMAIN sha = Workers /\ DOMAIN chunks = Jobs
  BY <1>4 DEF Init, ResultInit
<1>6. TypeOK
  BY <1>1, <1>2, <1>3, <1>5, PageTypes DEF TypeOK, TokenInv, Locals
<1>7. ChunksContiguous /\ AbsentBare
  BY <1>2, <1>3 DEF ChunksContiguous, AbsentBare
<1>8. \A w \in Workers : pc[w] = "idle"
  BY DEF Init, ResultInit, QueueInit
<1>9. QED
  BY <1>1, <1>6, <1>7, <1>8 DEF ChunkInv, AllEnded, SeqBounded, TotalsCounted

\* What one step does to the progress of a job.
KeptStep(j) ==
    /\ jobs'[j].chunks >= jobs[j].chunks
    /\ jobs'[j].checkpoint >= jobs[j].checkpoint
    /\ \A s \in DOMAIN chunks[j] :
          s \in DOMAIN chunks'[j] /\ chunks'[j][s] = chunks[j][s]

\* No step takes back or rewrites progress of a job.
LEMMA EveryStepKeeps ==
    ASSUME NEW G, ChunkInv(G), [Next]_vars, NEW j \in Jobs
    PROVE  KeptStep(j)
<1> USE DEF ChunkInv
<1>1. jobs[j].chunks \in Nat /\ jobs[j].checkpoint \in Nat
  BY DEF TypeOK, QueueTypeOK, JobRow
<1>2. ASSUME NEW k \in Jobs, Submit(k), UNCHANGED evars PROVE KeptStep(j)
  <2>1. j = k => jobs[j].chunks = 0 /\ jobs[j].checkpoint = 0
                 /\ jobs'[j].chunks = 0 /\ jobs'[j].checkpoint = 0
    BY <1>2, SubmitShape DEF TypeOK, AbsentBare
  <2>2. j # k => jobs'[j] = jobs[j]
    BY <1>2, SubmitShape DEF TypeOK
  <2>3. chunks' = chunks
    BY <1>2 DEF evars
  <2>4. QED
    BY <1>1, <2>1, <2>2, <2>3 DEF KeptStep
<1>3. ASSUME NEW w \in Workers, Committed(w) PROVE KeptStep(j)
  <2>1. PICK next \in Pages : Commit(w, next)
    BY <1>3 DEF Committed
  <2>2. CASE j = item[w].job
    <3>1. /\ mem[w].seq = jobs[j].chunks /\ mem[w].total >= jobs[j].checkpoint
          /\ mem[w].total \in Nat /\ PageRows[mem[w].cursor] \in Nat
      BY <2>1, <2>2, CommitterIsLevel, PageTypes DEF TypeOK
    <3>2. /\ jobs'[j].chunks = mem[w].seq + 1
          /\ jobs'[j].checkpoint = mem[w].total + PageRows[mem[w].cursor]
      BY <2>1, <2>2, CommitIsProgress
    <3>3. \A s \in DOMAIN chunks[j] :
             s \in DOMAIN chunks'[j] /\ chunks'[j][s] = chunks[j][s]
      BY <2>1, <2>2, CommitChunks
    <3>4. QED
      BY <1>1, <3>1, <3>2, <3>3 DEF KeptStep
  <2>3. CASE j # item[w].job
    <3>1. jobs'[j] = jobs[j] /\ chunks'[j] = chunks[j]
      BY <2>1, <2>3, CommitIsProgress, CommitChunks
    <3>2. QED
      BY <1>1, <3>1 DEF KeptStep
  <2>4. QED
    BY <2>2, <2>3
<1>4. CASE Quiet
  BY <1>1, <1>4 DEF Quiet, NoCommit, ProgressKeeps, KeptStep
<1>5. QED
  BY <1>2, <1>3, <1>4, StepKinds

-----------------------------------------------------------------------------
(***************************************************************************)
(* The theorems.                                                           *)
(***************************************************************************)

\* The invariant of the chunks always holds.
LEMMA ChunkInvariant == Spec => []ChunkInv({})
<1>1. ChunkInv({}) /\ [Next]_vars => ChunkInv({})'
  BY ChunkStep
<1>2. QED
  BY <1>1, ChunkInit, PTL DEF Spec

\* An export keeps every variable in its type: whatever a worker resumes
\* from, the cursor it stores and the chunks it writes are pages of the
\* provider.
THEOREM TypeCorrect == Spec => []TypeOK
<1>1. ChunkInv({}) => TypeOK
  BY DEF ChunkInv
<1>2. QED
  BY <1>1, ChunkInvariant, PTL

\* Exports run the lease protocol of JobQueue: processExport touches the job
\* row through fenced writes of its progress columns only, so all that is
\* proved of the protocol holds of exports.
THEOREM ExportsRunTheQueue == Spec => QueueSpec
<1>1. Init => QueueInit
  BY DEF Init, ResultInit
<1>2. ChunkInv({}) /\ [Next]_vars => [QueueNext]_qvars
  BY NextIsQueueStep DEF ChunkInv
<1>3. QED
  BY <1>1, <1>2, ChunkInvariant, PTL DEF Spec, QueueSpec

\* No two workers ever pass the fence of one export, so no two of them write
\* chunks of it at the same time.
THEOREM ExportFenceIsUnique == Spec => []FenceUnique
BY ExportsRunTheQueue, FenceIsUnique, PTL

\* The chunks of an export are numbered 0, 1, ... without a gap and
\* result_chunks counts them, with any provider, whoever wrote them and
\* however many workers were interrupted between two pages: CommitResultPage
\* commits the chunk and the row together, under the fence and the key.
THEOREM ChunksHaveNoGap == Spec => []ChunksContiguous
<1>1. ChunkInv({}) => ChunksContiguous
  BY DEF ChunkInv
<1>2. QED
  BY <1>1, ChunkInvariant, PTL

\* Committed progress is kept: no step takes back a chunk, rewrites one or
\* lowers result_chunks or checkpoint_value, not even the commit of a worker
\* whose claim read the row before its predecessor's last commit.
THEOREM CommittedProgressIsKept == Spec => ProgressKept
<1>1. ChunkInv({}) /\ [Next]_vars =>
         [\A j \in Jobs :
             /\ jobs'[j].chunks >= jobs[j].chunks
             /\ jobs'[j].checkpoint >= jobs[j].checkpoint
             /\ \A s \in DOMAIN chunks[j] :
                   s \in DOMAIN chunks'[j] /\ chunks'[j][s] = chunks[j][s]]_vars
  BY EveryStepKeeps DEF KeptStep
<1>2. QED
  BY <1>1, ChunkInvariant, PTL DEF Spec, ProgressKept
=============================================================================
