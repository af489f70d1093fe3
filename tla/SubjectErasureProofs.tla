------------------------ MODULE SubjectErasureProofs ------------------------
(***************************************************************************)
(* Proofs about account erasure while workers go on with what they hold,   *)
(* and about downloads meanwhile, for any number of subjects, jobs,        *)
(* workers, requests and readers.                                          *)
(***************************************************************************)
EXTENDS Download, ExportOnceProofs

(***************************************************************************)
(* The inductive invariant.  What carries it is that a fenced subject has  *)
(* ended jobs only: ended rows are out of reach of every fenced write, and *)
(* a fenced subject gets no new ones, so the plan of a receipt stays the   *)
(* list of all its jobs.                                                   *)
(***************************************************************************)

\* A receipt has three columns; its subject is fenced, and it plans all of
\* the subject's jobs.
ReceiptsPlan ==
    \A q \in Requests : \A x \in receipts[q] :
        /\ x = [subject |-> x.subject, plan |-> x.plan, erased |-> x.erased]
        /\ fences[x.subject] # NoRequest
        /\ DOMAIN x.plan = JobsOf(x.subject)

\* A request has no receipt or one.
ReceiptsSingle ==
    /\ DOMAIN receipts = Requests
    /\ \A q \in Requests : \A x, y \in receipts[q] : x = y

ErasureInv ==
    /\ ErasureTypeOK /\ ReceiptsSingle /\ TokenInv
    /\ FencedSubjectIdle /\ ReceiptsPlan
    /\ ErasedStaysErased /\ InventoryExact

-----------------------------------------------------------------------------
(***************************************************************************)
(* What the operators on rows return.                                      *)
(***************************************************************************)

\* A queued job is cancelled and re-fenced, another row stays.
LEMMA WithdrawnRow ==
    ASSUME NEW r \in JobRow
    PROVE  /\ Withdrawn(r) \in JobRow
           /\ Withdrawn(r).token >= r.token
           /\ Withdrawn(r).cursor = r.cursor /\ Withdrawn(r).chunks = r.chunks
           /\ Withdrawn(r).checkpoint = r.checkpoint
           /\ r.status = "queued" => Withdrawn(r).status = "cancelled"
           /\ r.status # "queued" => Withdrawn(r) = r
<1>1. CASE r.status = "queued"
  <2>1. PICK t \in Nat : t = r.token + 1 /\ t >= r.token
    BY DEF JobRow
  <2>2. PICK d : d = [r EXCEPT !.status = "cancelled", !.next = NoTime, !.token = t]
    OBVIOUS
  <2>3. Withdrawn(r) = d
    BY <1>1, <2>1, <2>2, Zenon DEF Withdrawn
  <2>4. /\ d \in JobRow /\ d.token = t /\ d.status = "cancelled"
        /\ d.cursor = r.cursor /\ d.chunks = r.chunks /\ d.checkpoint = r.checkpoint
    BY <2>2 DEF JobRow, Statuses, NoTime
  <2>5. QED
    BY <1>1, <2>1, <2>3, <2>4
<1>2. CASE r.status # "queued"
  <2>1. Withdrawn(r) = r
    BY <1>2 DEF Withdrawn
  <2>2. r.token \in Nat /\ r.token >= r.token
    BY DEF JobRow
  <2>3. QED
    BY <1>2, <2>1, <2>2
<1>3. QED
  BY <1>1, <1>2

\* A redacted row is cancelled, re-fenced and bare.
LEMMA RedactedRow ==
    ASSUME NEW r \in JobRow
    PROVE  /\ Redacted(r) \in JobRow
           /\ Redacted(r).token = r.token + 1 /\ Redacted(r).status = "cancelled"
           /\ Redacted(r).cursor = 0 /\ Redacted(r).chunks = 0
           /\ Redacted(r).checkpoint = 0
<1>1. PICK t \in Nat : t = r.token + 1
  BY DEF JobRow
<1>2. PICK d : d = [r EXCEPT !.status = "cancelled", !.chunks = 0, !.checkpoint = 0,
                             !.cursor = 0, !.owner = "", !.lease = NoTime,
                             !.next = NoTime, !.token = t]
  OBVIOUS
<1>3. Redacted(r) = d
  BY <1>1, <1>2, Zenon DEF Redacted
<1>4. /\ d \in JobRow /\ d.token = t /\ d.status = "cancelled"
      /\ d.cursor = 0 /\ d.chunks = 0 /\ d.checkpoint = 0
  BY <1>2 DEF JobRow, Statuses, Owners, NoTime
<1>5. QED
  BY <1>1, <1>3, <1>4

-----------------------------------------------------------------------------
(***************************************************************************)
(* The steps of exports among erasures.                                    *)
(***************************************************************************)

\* What an export's step leaves alone of a job.
Untouched(j) ==
    jobs'[j] = jobs[j] /\ chunks'[j] = chunks[j] /\ ArtifactsOf(j)' = ArtifactsOf(j)

\* No step of an export reaches a job that has ended.
LEMMA EndedUntouched ==
    ASSUME TypeOK, TokenInv, [Next]_vars, NEW j \in Jobs, jobs[j].status \in Ended
    PROVE  Untouched(j)
<1>1. jobs'[j] = jobs[j]
  BY NextIsQueueStep, OnlyOpenRowsChange DEF TokenInv, Ended
<1>2. ASSUME NEW w \in Workers, NEW next \in Pages, Commit(w, next)
      PROVE  chunks'[j] = chunks[j]
  <2>1. item[w].job \in Jobs /\ jobs[item[w].job].status = "running"
    BY <1>2, CommitIsProgress DEF Commit, Progress, fencedJob
  <2>2. j # item[w].job
    BY <2>1 DEF Ended
  <2>3. QED
    BY <1>2, <2>2, CommitChunks
<1>3. ASSUME NEW w \in Workers, NEW ack \in BOOLEAN, CompleteJob(w, ack)
      PROVE  ArtifactsOf(j)' = ArtifactsOf(j) /\ chunks'[j] = chunks[j]
  <2>1. /\ jobs[item[w].job].status = "running" /\ chunks' = chunks
        /\ artifacts' = artifacts \cup {[job |-> item[w].job, sha |-> sha[w]]}
    BY <1>3 DEF CompleteJob, Complete, fencedJob
  <2>2. j # item[w].job
    BY <2>1 DEF Ended
  <2>3. QED
    BY <2>1, <2>2 DEF ArtifactsOf
<1>4. ASSUME NEW w \in Workers, NEW next \in Pages, CommitResultPage(w, next)
      PROVE  ArtifactsOf(j)' = ArtifactsOf(j) /\ chunks'[j] = chunks[j]
  BY <1>2, <1>4 DEF CommitResultPage, ArtifactsOf
<1>5. ASSUME NEW w \in Workers, CommitStalledPage(w)
      PROVE  ArtifactsOf(j)' = ArtifactsOf(j) /\ chunks'[j] = chunks[j]
  <2>1. mem[w].cursor \in Pages
    BY DEF TypeOK
  <2>2. QED
    BY <1>2, <1>5, <2>1 DEF CommitStalledPage, ArtifactsOf
<1>6. ASSUME chunks' = chunks, artifacts' = artifacts
      PROVE  ArtifactsOf(j)' = ArtifactsOf(j) /\ chunks'[j] = chunks[j]
  BY <1>6 DEF ArtifactsOf
<1>7. ASSUME NEW w \in Workers,
             \/ \E k \in Jobs : ExportClaimSelect(w, k)
             \/ ExportClaimUpdate(w) \/ GiveUp(w) \/ QueueOnly(w)
             \/ \E next \in Pages : SkipPage(w, next)
             \/ ResultIdentity(w) \/ CompleteExport(w)
      PROVE  chunks' = chunks /\ artifacts' = artifacts
  BY <1>7 DEF ExportClaimSelect, ExportClaimUpdate, GiveUp, QueueOnly, SkipPage,
              ResultIdentity, CompleteExport, evars
<1>8. ASSUME NEW w \in Workers, ExportWorker(w)
      PROVE  ArtifactsOf(j)' = ArtifactsOf(j) /\ chunks'[j] = chunks[j]
  BY <1>3, <1>4, <1>5, <1>6, <1>7, <1>8, Zenon DEF ExportWorker
<1>9. CASE UNCHANGED evars \/ UNCHANGED vars
  <2>1. chunks' = chunks /\ artifacts' = artifacts
    BY <1>9 DEF evars, vars
  <2>2. QED
    BY <1>1, <1>6, <2>1, Zenon DEF Untouched
<1>10. QED
  BY <1>1, <1>8, <1>9, Zenon DEF Next, Untouched

\* No worker brings a job into being or makes one vanish.
LEMMA JobsStay ==
    ASSUME TypeOK, TokenInv, NEW w \in Workers, ExportWorker(w), NEW j \in Jobs
    PROVE  jobs'[j].status = "absent" <=> jobs[j].status = "absent"
<1>1. Committed(w) \/ Quiet
  BY SelectIsQuiet, UpdateIsQuiet, SkipIsQuiet, PageIsCommitted,
     StalledPageIsCommitted, FinishingIsQuiet, CompleteIsQuiet, GiveUpIsQuiet,
     QueueOnlyIsQuiet DEF ExportWorker
<1>2. CASE Committed(w)
  <2>1. PICK next \in Pages : Commit(w, next)
    BY <1>2 DEF Committed
  <2>2. /\ jobs'[item[w].job].status = jobs[item[w].job].status
        /\ \A k \in Jobs \ {item[w].job} : jobs'[k] = jobs[k]
    BY <2>1, CommitIsProgress, ProgressShape DEF TypeOK
  <2>3. QED
    BY <2>2
<1>3. CASE Quiet
  BY <1>3 DEF Quiet, NoCommit, ProgressKeeps
<1>4. QED
  BY <1>1, <1>2, <1>3

\* An export's step takes no chunk away.
LEMMA ChunksStay ==
    ASSUME TypeOK, TokenInv, [Next]_vars, NEW j \in Jobs
    PROVE  DOMAIN chunks[j] \subseteq DOMAIN chunks'[j]
<1>1. ASSUME NEW w \in Workers, Committed(w)
      PROVE  DOMAIN chunks[j] \subseteq DOMAIN chunks'[j]
  BY <1>1, CommitChunks, CommitIsProgress DEF Committed
<1>2. CASE Quiet
  BY <1>2 DEF Quiet, NoCommit
<1>3. ASSUME UNCHANGED evars PROVE DOMAIN chunks[j] \subseteq DOMAIN chunks'[j]
  BY <1>3 DEF evars
<1>4. QED
  BY <1>1, <1>2, <1>3, StepKinds

\* The jobs of a fenced subject stay the same ones.
NoLateJob ==
    \A j \in Jobs : fences[SubjectOf[j]] # NoRequest =>
        (jobs'[j].status = "absent" <=> jobs[j].status = "absent")

\* A step of exports that submits for no fenced subject preserves all of it.
LEMMA ExportStepPreserves ==
    ASSUME ErasureInv, [Next]_vars, UNCHANGED xvars, NoLateJob
    PROVE  ErasureInv'
<1> USE DEF ErasureInv
<1>1. TypeOK' /\ TokenInv'
  BY TypeStep DEF ErasureTypeOK
<1>2. fences' = fences /\ receipts' = receipts
  BY DEF xvars
<1>3. ErasureTypeOK' /\ ReceiptsSingle'
  BY <1>1, <1>2 DEF ErasureTypeOK, ReceiptsSingle
<1>4. ASSUME NEW s \in Subjects, fences[s] # NoRequest
      PROVE  /\ JobsOf(s)' = JobsOf(s)
             /\ \A j \in JobsOf(s) : Untouched(j) /\ jobs[j].status \in Ended
  <2>1. JobsOf(s)' = JobsOf(s)
    BY <1>4 DEF NoLateJob, JobsOf
  <2>2. ASSUME NEW j \in JobsOf(s) PROVE Untouched(j) /\ jobs[j].status \in Ended
    <3>1. j \in Jobs /\ jobs[j].status \in Ended
      BY <1>4, <2>2 DEF FencedSubjectIdle, JobsOf
    <3>2. QED
      BY <3>1, EndedUntouched DEF ErasureTypeOK
  <2>3. QED
    BY <2>1, <2>2
<1>5. FencedSubjectIdle'
  <2>1. SUFFICES ASSUME NEW s \in Subjects, fences'[s] # NoRequest,
                        NEW j \in JobsOf(s)'
                 PROVE  jobs'[j].status \in Ended
    BY DEF FencedSubjectIdle
  <2>2. QED
    BY <1>2, <1>4, <2>1 DEF Untouched
<1>6. ASSUME NEW q \in Requests, NEW x \in receipts[q]
      PROVE  x.subject \in Subjects /\ fences[x.subject] # NoRequest
  BY <1>6 DEF ErasureTypeOK, ReceiptsPlan
<1>7. ReceiptsPlan'
  <2>1. SUFFICES ASSUME NEW q \in Requests, NEW x \in receipts[q]
                 PROVE  fences[x.subject] # NoRequest /\ DOMAIN x.plan = JobsOf(x.subject)'
    BY <1>2 DEF ErasureInv, ReceiptsPlan
  <2>2. JobsOf(x.subject)' = JobsOf(x.subject)
    BY <1>4, <1>6
  <2>3. QED
    BY <1>6, <2>2 DEF ReceiptsPlan
<1>8. \A s \in Subjects : Executed(s)' <=> Executed(s)
  BY <1>2 DEF Executed
<1>9. ErasedStaysErased'
  <2>1. SUFFICES ASSUME NEW s \in Subjects, Executed(s), NEW j \in JobsOf(s)'
                 PROVE  /\ jobs'[j].status = "cancelled"
                        /\ chunks'[j] = << >> /\ jobs'[j].chunks = 0
                        /\ jobs'[j].cursor = 0 /\ ArtifactsOf(j)' = {}
    BY <1>8 DEF ErasedStaysErased
  <2>2. fences[s] # NoRequest
    BY <1>6, <2>1 DEF Executed
  <2>3. j \in JobsOf(s) /\ Untouched(j)
    BY <1>4, <2>1, <2>2
  <2>4. /\ jobs[j].status = "cancelled" /\ chunks[j] = << >>
        /\ jobs[j].chunks = 0 /\ jobs[j].cursor = 0 /\ ArtifactsOf(j) = {}
    BY <2>1, <2>3 DEF ErasedStaysErased
  <2>5. QED
    BY <2>3, <2>4, Zenon DEF Untouched
<1>10. InventoryExact'
  <2>1. SUFFICES ASSUME NEW q \in Requests, NEW x \in receipts[q],
                        ~Executed(x.subject)
                 PROVE  x.plan = Inventory(x.subject)'
    BY <1>2, <1>6, <1>8 DEF InventoryExact
  <2>2. /\ JobsOf(x.subject)' = JobsOf(x.subject)
        /\ \A j \in JobsOf(x.subject) : Untouched(j)
    BY <1>4, <1>6
  <2>3. Inventory(x.subject)' = Inventory(x.subject)
    BY <2>2 DEF Inventory, Untouched
  <2>4. QED
    BY <2>1, <2>3 DEF InventoryExact
<1>11. QED
  BY <1>1, <1>3, <1>5, <1>7, <1>9, <1>10

-----------------------------------------------------------------------------
(***************************************************************************)
(* Preparing and executing an erasure.                                     *)
(***************************************************************************)

\* Rows may be re-fenced from outside: nobody then knows the row's token.
LEMMA RefencedRows ==
    ASSUME TokenInv, jobs' \in [Jobs -> JobRow], UNCHANGED <<clock, pc, item, live>>,
           \A j \in Jobs : /\ jobs'[j].token >= jobs[j].token
                           /\ jobs[j].status # "absent" => jobs'[j].status # "absent"
    PROVE  TokenInv'
<1>1. QueueTypeOK'
  BY DEF TokenInv, QueueTypeOK
<1>2. \A w \in Workers : pc[w] # "idle" =>
         /\ item[w].job \in Jobs /\ item[w].token \in Nat
         /\ jobs[item[w].job].token \in Nat /\ jobs'[item[w].job].token \in Nat
         /\ item[w].token <= jobs[item[w].job].token
         /\ jobs'[item[w].job].token >= jobs[item[w].job].token
         /\ jobs'[item[w].job].status # "absent"
  <2>1. SUFFICES ASSUME NEW w \in Workers, pc[w] # "idle"
                 PROVE  /\ item[w].job \in Jobs /\ item[w].token \in Nat
                        /\ jobs[item[w].job].token \in Nat
                        /\ jobs'[item[w].job].token \in Nat
                        /\ item[w].token <= jobs[item[w].job].token
                        /\ jobs'[item[w].job].token >= jobs[item[w].job].token
                        /\ jobs'[item[w].job].status # "absent"
    OBVIOUS
  <2>2. item[w].job \in Jobs /\ item[w] \in WorkItem
    BY <2>1 DEF TokenInv, QueueTypeOK
  <2>3. jobs[item[w].job] \in JobRow /\ jobs'[item[w].job] \in JobRow
    BY <2>2 DEF TokenInv, QueueTypeOK
  <2>4. /\ item[w].token \in Nat /\ jobs[item[w].job].token \in Nat
        /\ jobs'[item[w].job].token \in Nat
    BY <2>2, <2>3 DEF WorkItem, JobRow
  <2>5. QED
    BY <2>1, <2>2, <2>4 DEF TokenInv, TokensBounded, JobsKnown
<1>3. JobsKnown' /\ TokensBounded'
  BY <1>2 DEF JobsKnown, TokensBounded
<1>4. \A w \in Workers : Past(w) /\ item[w].token = jobs'[item[w].job].token =>
         item[w].token = jobs[item[w].job].token
  BY <1>2 DEF Past
<1>5. TokensDistinct'
  BY <1>4 DEF TokensDistinct, Past, TokenInv
<1>6. QED
  BY <1>1, <1>3, <1>5 DEF TokenInv

\* The types and the fence survive rewritten rows and pruned chunks.
LEMMA RewrittenTables ==
    ASSUME ErasureTypeOK, TokenInv, jobs' \in [Jobs -> JobRow],
           UNCHANGED <<clock, pc, item, live, mem, sha, step>>,
           \A j \in Jobs : /\ jobs'[j].token >= jobs[j].token
                           /\ jobs[j].status # "absent" => jobs'[j].status # "absent"
                           /\ jobs'[j].cursor \in {0, jobs[j].cursor},
           DOMAIN chunks' = Jobs,
           \A j \in Jobs : chunks'[j] = chunks[j] \/ chunks'[j] = << >>
    PROVE  TypeOK' /\ TokenInv'
<1>1. TokenInv' /\ QueueTypeOK'
  BY RefencedRows DEF TokenInv
<1>2. \A j \in Jobs : jobs'[j].cursor \in Pages
  BY PageTypes DEF ErasureTypeOK, TypeOK
<1>3. /\ DOMAIN chunks' = Jobs
      /\ \A j \in Jobs : \A s \in DOMAIN chunks'[j] : s \in Nat /\ chunks'[j][s] \in Pages
  BY DEF ErasureTypeOK, TypeOK
<1>4. QED
  BY <1>1, <1>2, <1>3 DEF ErasureTypeOK, TypeOK

\* What a preparation leaves in the rows: queued jobs of the subject are
\* cancelled, all others are as they were.
LEMMA PrepareShape ==
    ASSUME ErasureInv, NEW q \in Requests, NEW s \in Subjects,
           PrepareSubjectErasure(q, s), NEW j \in Jobs
    PROVE  /\ jobs'[j] \in JobRow /\ jobs'[j].token >= jobs[j].token
           /\ jobs'[j].status = "absent" <=> jobs[j].status = "absent"
           /\ jobs'[j].cursor = jobs[j].cursor /\ jobs'[j].chunks = jobs[j].chunks
           /\ jobs'[j].checkpoint = jobs[j].checkpoint
           /\ j \in JobsOf(s) => jobs'[j].status \in Ended
           /\ j \notin JobsOf(s) \/ jobs[j].status \in Ended => jobs'[j] = jobs[j]
<1>1. jobs[j] \in JobRow
  BY DEF ErasureInv, TokenInv, QueueTypeOK
<1>2. PICK r \in JobRow : r = jobs[j]
  BY <1>1
<1>3. r.token \in Nat /\ r.token >= r.token /\ r.status \in Statuses
  BY DEF JobRow
<1>4. CASE j \in JobsOf(s)
  <2>1. jobs'[j] = Withdrawn(r) /\ r.status # "running" /\ r.status # "absent"
    BY <1>2, <1>4 DEF PrepareSubjectErasure, JobsOf
  <2>2. /\ Withdrawn(r) \in JobRow /\ Withdrawn(r).token >= r.token
        /\ Withdrawn(r).cursor = r.cursor /\ Withdrawn(r).chunks = r.chunks
        /\ Withdrawn(r).checkpoint = r.checkpoint
        /\ r.status = "queued" => Withdrawn(r).status = "cancelled"
        /\ r.status # "queued" => Withdrawn(r) = r
    BY WithdrawnRow
  <2>3. Withdrawn(r).status \in Ended
    BY <1>3, <2>1, <2>2 DEF Statuses, Ended
  <2>4. Withdrawn(r).status # "absent"
    BY <2>3 DEF Ended
  <2>5. r.status \in Ended => Withdrawn(r) = r
    BY <2>2 DEF Ended
  <2>6. QED
    BY <1>2, <1>4, <2>1, <2>2, <2>3, <2>4, <2>5, Zenon
<1>5. CASE j \notin JobsOf(s)
  <2>1. jobs'[j] = r
    BY <1>2, <1>5 DEF PrepareSubjectErasure
  <2>2. QED
    BY <1>2, <1>3, <1>5, <2>1
<1>6. QED
  BY <1>4, <1>5

\* A preparation preserves the invariant.
LEMMA PreparePreserves ==
    ASSUME ErasureInv, NEW q \in Requests, NEW s \in Subjects,
           PrepareSubjectErasure(q, s)
    PROVE  ErasureInv'
<1> USE DEF ErasureInv
<1>1. /\ UNCHANGED <<clock, pc, item, live, mem, sha, step>>
      /\ chunks' = chunks /\ artifacts' = artifacts
  BY DEF PrepareSubjectErasure, evars
<1>2. TypeOK' /\ TokenInv'
  <2>1. jobs' \in [Jobs -> JobRow]
    BY PrepareShape DEF PrepareSubjectErasure
  <2>2. \A j \in Jobs : /\ jobs'[j].token >= jobs[j].token
                        /\ jobs[j].status # "absent" => jobs'[j].status # "absent"
                        /\ jobs'[j].cursor \in {0, jobs[j].cursor}
    BY PrepareShape
  <2>3. DOMAIN chunks' = Jobs
    BY <1>1 DEF ErasureTypeOK, TypeOK
  <2>4. QED
    BY <1>1, <2>1, <2>2, <2>3, RewrittenTables
<1>3. \A t \in Subjects : JobsOf(t)' = JobsOf(t)
  BY PrepareShape DEF JobsOf
<1>4. \A t \in Subjects : Inventory(t)' = Inventory(t)
  BY <1>1, <1>3 DEF Inventory, ArtifactsOf
<1>5. PICK new : new = [subject |-> s, plan |-> Inventory(s), erased |-> FALSE]
  OBVIOUS
<1>6. /\ new.subject = s /\ new.plan = Inventory(s) /\ ~new.erased
      /\ DOMAIN new.plan = JobsOf(s)
  BY <1>5 DEF Inventory
<1>7. receipts[q] = {} /\ receipts' = [receipts EXCEPT ![q] = {new}]
  BY <1>5 DEF PrepareSubjectErasure
<1>8. /\ ReceiptsSingle'
      /\ \A p \in Requests : \A x \in receipts'[p] : x \in receipts[p] \/ x = new
      /\ \A p \in Requests : receipts[p] \subseteq receipts'[p]
  BY <1>7 DEF ReceiptsSingle
<1>9. PICK f \in Requests \cup {NoRequest} :
         f = (IF fences[s] = NoRequest THEN q ELSE fences[s]) /\ f # NoRequest
  BY ErasureAssumption DEF ErasureTypeOK
<1>10. fences' = [fences EXCEPT ![s] = f]
  BY <1>9, Zenon DEF PrepareSubjectErasure
<1>11. /\ fences' \in [Subjects -> Requests \cup {NoRequest}]
       /\ fences'[s] # NoRequest
       /\ \A t \in Subjects \ {s} : fences'[t] = fences[t]
  BY <1>9, <1>10 DEF ErasureTypeOK
<1>12. ErasureTypeOK'
  <2>1. \A p \in Requests : \A x \in receipts'[p] :
           x.subject \in Subjects /\ DOMAIN x.plan \subseteq Jobs
    BY <1>6, <1>8 DEF ErasureTypeOK, JobsOf
  <2>2. QED
    BY <1>2, <1>11, <2>1 DEF ErasureTypeOK
<1>13. FencedSubjectIdle'
  <2>1. SUFFICES ASSUME NEW t \in Subjects, fences'[t] # NoRequest,
                        NEW j \in JobsOf(t)'
                 PROVE  jobs'[j].status \in Ended
    BY DEF FencedSubjectIdle
  <2>2. j \in JobsOf(t) /\ j \in Jobs
    BY <1>3, <2>1 DEF JobsOf
  <2>3. CASE t = s
    BY <2>2, <2>3, PrepareShape
  <2>4. CASE t # s
    <3>1. jobs[j].status \in Ended
      BY <1>11, <2>1, <2>2, <2>4 DEF FencedSubjectIdle
    <3>2. QED
      BY <2>2, <3>1, PrepareShape
  <2>5. QED
    BY <2>3, <2>4
<1>14. ReceiptsPlan'
  <2>1. SUFFICES ASSUME NEW p \in Requests, NEW x \in receipts'[p]
                 PROVE  /\ x = [subject |-> x.subject, plan |-> x.plan, erased |-> x.erased]
                        /\ fences'[x.subject] # NoRequest
                        /\ DOMAIN x.plan = JobsOf(x.subject)'
    BY DEF ReceiptsPlan
  <2>2. x.subject \in Subjects
    BY <1>12, <2>1 DEF ErasureTypeOK
  <2>3. CASE x = new
    BY <1>3, <1>5, <1>6, <1>11, <2>3
  <2>4. CASE x \in receipts[p]
    BY <1>3, <1>11, <2>2, <2>4 DEF ReceiptsPlan
  <2>5. QED
    BY <1>8, <2>1, <2>3, <2>4
<1>15. \A t \in Subjects : Executed(t)' <=> Executed(t)
  BY <1>6, <1>8 DEF Executed
<1>16. ErasedStaysErased'
  <2>1. SUFFICES ASSUME NEW t \in Subjects, Executed(t), NEW j \in JobsOf(t)'
                 PROVE  /\ jobs'[j].status = "cancelled"
                        /\ chunks'[j] = << >> /\ jobs'[j].chunks = 0
                        /\ jobs'[j].cursor = 0 /\ ArtifactsOf(j)' = {}
    BY <1>15 DEF ErasedStaysErased
  <2>2. j \in JobsOf(t) /\ j \in Jobs
    BY <1>3, <2>1 DEF JobsOf
  <2>3. /\ jobs[j].status = "cancelled" /\ chunks[j] = << >>
        /\ jobs[j].chunks = 0 /\ jobs[j].cursor = 0 /\ ArtifactsOf(j) = {}
    BY <2>1, <2>2 DEF ErasedStaysErased
  <2>4. jobs'[j] = jobs[j]
    BY <2>2, <2>3, PrepareShape DEF Ended
  <2>5. ArtifactsOf(j)' = ArtifactsOf(j)
    BY <1>1 DEF ArtifactsOf
  <2>6. QED
    BY <1>1, <2>3, <2>4, <2>5
<1>17. InventoryExact'
  <2>1. SUFFICES ASSUME NEW p \in Requests, NEW x \in receipts'[p],
                        ~Executed(x.subject)'
                 PROVE  x.plan = Inventory(x.subject)'
    BY DEF InventoryExact
  <2>2. x.subject \in Subjects
    BY <1>12, <2>1 DEF ErasureTypeOK
  <2>3. CASE x = new
    BY <1>4, <1>6, <2>3
  <2>4. CASE x \in receipts[p]
    BY <1>4, <1>15, <2>1, <2>2, <2>4 DEF InventoryExact
  <2>5. QED
    BY <1>8, <2>1, <2>3, <2>4
<1>18. QED
  BY <1>2, <1>8, <1>12, <1>13, <1>14, <1>16, <1>17

\* What an execution leaves of the rows, chunks and artifacts, and of the
\* receipt: the planned jobs, which are all jobs of the subject, are bare,
\* and every other job is as it was.
LEMMA EraseShape ==
    ASSUME ErasureInv, NEW q \in Requests, NEW s \in Subjects,
           ErasePreparedSubject(q, s)
    PROVE  /\ fences[s] # NoRequest
           /\ \A j \in Jobs : j \in JobsOf(s) =>
                 /\ jobs'[j] \in JobRow /\ jobs'[j].token >= jobs[j].token
                 /\ jobs'[j].status = "cancelled"
                 /\ jobs'[j].cursor = 0 /\ jobs'[j].chunks = 0
                 /\ chunks'[j] = << >> /\ ArtifactsOf(j)' = {}
           /\ \A j \in Jobs : j \notin JobsOf(s) => Untouched(j)
           /\ jobs' = [j \in Jobs |-> jobs'[j]] /\ DOMAIN chunks' = Jobs
           /\ artifacts' \subseteq artifacts
           /\ \E x, y :
                 /\ x \in receipts[q] /\ x.subject = s /\ y.subject = s /\ y.plan = x.plan /\ y.erased
                 /\ y = [subject |-> y.subject, plan |-> y.plan, erased |-> y.erased]
                 /\ receipts' = [receipts EXCEPT ![q] = {y}]
<1>1. PICK x \in receipts[q] :
         /\ x.subject = s
         /\ artifacts' = {a \in artifacts : a.job \notin DOMAIN x.plan}
         /\ chunks' = [j \in Jobs |-> IF j \in DOMAIN x.plan THEN << >> ELSE chunks[j]]
         /\ jobs' = [j \in Jobs |-> IF j \in DOMAIN x.plan THEN Redacted(jobs[j])
                                                           ELSE jobs[j]]
         /\ receipts' = [receipts EXCEPT ![q] = {[x EXCEPT !.erased = TRUE]}]
  BY DEF ErasePreparedSubject
<1>2. DOMAIN x.plan = JobsOf(s)
  BY <1>1 DEF ErasureInv, ReceiptsPlan
<1>3. ASSUME NEW j \in Jobs, j \in JobsOf(s)
      PROVE  /\ jobs'[j] \in JobRow /\ jobs'[j].token >= jobs[j].token
             /\ jobs'[j].status = "cancelled"
             /\ jobs'[j].cursor = 0 /\ jobs'[j].chunks = 0
             /\ chunks'[j] = << >> /\ ArtifactsOf(j)' = {}
  <2>1. PICK r \in JobRow : r = jobs[j]
    BY DEF ErasureInv, TokenInv, QueueTypeOK
  <2>2. jobs'[j] = Redacted(r)
    BY <1>1, <1>2, <1>3, <2>1
  <2>3. /\ Redacted(r) \in JobRow /\ Redacted(r).token = r.token + 1
        /\ Redacted(r).status = "cancelled"
        /\ Redacted(r).cursor = 0 /\ Redacted(r).chunks = 0
    BY RedactedRow
  <2>4. r.token \in Nat
    BY DEF JobRow
  <2>5. Redacted(r).token >= r.token
    BY <2>3, <2>4
  <2>6. chunks'[j] = << >> /\ ArtifactsOf(j)' = {}
    BY <1>1, <1>2, <1>3 DEF ArtifactsOf
  <2>7. QED
    BY <2>1, <2>2, <2>3, <2>5, <2>6, Zenon
<1>4. ASSUME NEW j \in Jobs, j \notin JobsOf(s) PROVE Untouched(j)
  <2>1. jobs'[j] = jobs[j] /\ chunks'[j] = chunks[j]
    BY <1>1, <1>2, <1>4
  <2>2. ArtifactsOf(j)' = ArtifactsOf(j)
    BY <1>1, <1>2, <1>4 DEF ArtifactsOf
  <2>3. QED
    BY <2>1, <2>2 DEF Untouched
<1>5. /\ jobs' = [j \in Jobs |-> jobs'[j]] /\ DOMAIN chunks' = Jobs
      /\ artifacts' \subseteq artifacts
  BY <1>1
<1>6. \E y : /\ y.subject = s /\ y.plan = x.plan /\ y.erased
             /\ y = [subject |-> y.subject, plan |-> y.plan, erased |-> y.erased]
             /\ receipts' = [receipts EXCEPT ![q] = {y}]
  <2>1. PICK p, e : x = [subject |-> s, plan |-> p, erased |-> e]
    BY <1>1 DEF ErasureInv, ReceiptsPlan
  <2>2. PICK y : y = [subject |-> s, plan |-> p, erased |-> TRUE]
    OBVIOUS
  <2>3. [x EXCEPT !.erased = TRUE] = y
    <3>1. PICK f : f = TRUE
      OBVIOUS
    <3>2. PICK z : z = [subject |-> s, plan |-> p, erased |-> f]
      OBVIOUS
    <3>3. [x EXCEPT !.erased = f] = z
      BY <2>1, <3>2
    <3>4. [x EXCEPT !.erased = TRUE] = z
      BY <3>1, <3>3, Zenon
    <3>5. y = z
      BY <2>2, <3>1, <3>2, Zenon
    <3>6. QED
      BY <3>4, <3>5
  <2>4. x.plan = p /\ y.subject = s /\ y.plan = p /\ y.erased = TRUE
    BY <2>1, <2>2
  <2>5. y = [subject |-> y.subject, plan |-> y.plan, erased |-> y.erased]
    BY <2>2, <2>4
  <2>6. receipts' = [receipts EXCEPT ![q] = {y}]
    BY <1>1, <2>3
  <2>7. QED
    BY <2>4, <2>5, <2>6
<1>7. fences[s] # NoRequest
  BY DEF ErasePreparedSubject
<1>8. QED
  BY <1>1, <1>3, <1>4, <1>5, <1>6, <1>7

\* An execution preserves the invariant.
LEMMA ErasePreserves ==
    ASSUME ErasureInv, NEW q \in Requests, NEW s \in Subjects,
           ErasePreparedSubject(q, s)
    PROVE  ErasureInv'
<1> USE DEF ErasureInv
<1>1. UNCHANGED <<clock, pc, item, live, mem, sha, step, fences>>
  BY DEF ErasePreparedSubject
<1>2. /\ fences[s] # NoRequest
      /\ \A j \in JobsOf(s) :
            /\ jobs'[j] \in JobRow /\ jobs'[j].token >= jobs[j].token
            /\ jobs'[j].status = "cancelled"
            /\ jobs'[j].cursor = 0 /\ jobs'[j].chunks = 0
            /\ chunks'[j] = << >> /\ ArtifactsOf(j)' = {}
      /\ \A j \in Jobs : j \notin JobsOf(s) => Untouched(j)
      /\ jobs' = [j \in Jobs |-> jobs'[j]] /\ DOMAIN chunks' = Jobs
  BY EraseShape DEF JobsOf
<1>3. PICK x, y :
         /\ x \in receipts[q] /\ x.subject = s /\ y.subject = s /\ y.plan = x.plan /\ y.erased
         /\ y = [subject |-> y.subject, plan |-> y.plan, erased |-> y.erased]
         /\ receipts' = [receipts EXCEPT ![q] = {y}]
  BY EraseShape
<1>4. /\ ReceiptsSingle' /\ receipts'[q] = {y}
      /\ \A p \in Requests \ {q} : receipts'[p] = receipts[p]
      /\ \A p \in Requests : \A z \in receipts'[p] : z \in receipts[p] \/ z = y
  BY <1>3 DEF ReceiptsSingle
<1>5. TypeOK' /\ TokenInv'
  <2>1. \A j \in Jobs : jobs[j] \in JobRow /\ jobs[j].token >= jobs[j].token
    BY DEF TokenInv, QueueTypeOK, JobRow
  <2>2. \A j \in Jobs : /\ jobs'[j] \in JobRow /\ jobs'[j].token >= jobs[j].token
                        /\ jobs[j].status # "absent" => jobs'[j].status # "absent"
                        /\ jobs'[j].cursor \in {0, jobs[j].cursor}
                        /\ chunks'[j] = chunks[j] \/ chunks'[j] = << >>
    BY <1>2, <2>1 DEF Untouched
  <2>3. jobs' \in [Jobs -> JobRow]
    BY <1>2, <2>2
  <2>4. QED
    BY <1>1, <1>2, <2>2, <2>3, RewrittenTables
<1>6. \A t \in Subjects : JobsOf(t)' = JobsOf(t)
  BY <1>2 DEF JobsOf, Untouched
<1>7. \A t \in Subjects : t # s => \A j \in JobsOf(t) : j \in Jobs /\ j \notin JobsOf(s)
  BY DEF JobsOf
<1>8. \A t \in Subjects : t # s => Inventory(t)' = Inventory(t)
  BY <1>2, <1>6, <1>7 DEF Inventory, Untouched
<1>9. Executed(s)' /\ \A t \in Subjects : t # s => (Executed(t)' <=> Executed(t))
  <2>1. Executed(s)'
    BY <1>3, <1>4, Zenon DEF Executed
  <2>2. \A t \in Subjects : t # s => (Executed(t)' <=> Executed(t))
    <3>1. \A t \in Subjects, p \in Requests : \A z : t # s /\ z.subject = t =>
             (z \in receipts'[p] <=> z \in receipts[p])
      <4>1. \A z \in receipts[q] : z.subject = s
        BY <1>3 DEF ReceiptsSingle
      <4>2. QED
        BY <1>3, <1>4, <4>1
    <3>2. QED
      BY <3>1, Zenon DEF Executed
  <2>3. QED
    BY <2>1, <2>2
<1>10. ErasureTypeOK'
  <2>1. \A p \in Requests : \A z \in receipts'[p] :
           z.subject \in Subjects /\ DOMAIN z.plan \subseteq Jobs
    BY <1>3, <1>4 DEF ErasureTypeOK
  <2>2. QED
    BY <1>1, <1>5, <2>1 DEF ErasureTypeOK
<1>11. FencedSubjectIdle'
  <2>1. SUFFICES ASSUME NEW t \in Subjects, fences[t] # NoRequest, NEW j \in JobsOf(t)
                 PROVE  jobs'[j].status \in Ended
    BY <1>1, <1>6 DEF FencedSubjectIdle
  <2>2. CASE t = s
    BY <1>2, <2>1, <2>2 DEF Ended
  <2>3. CASE t # s
    BY <1>2, <1>7, <2>1, <2>3 DEF FencedSubjectIdle, Untouched
  <2>4. QED
    BY <2>2, <2>3
<1>12. ReceiptsPlan'
  <2>1. SUFFICES ASSUME NEW p \in Requests, NEW z \in receipts'[p]
                 PROVE  /\ z = [subject |-> z.subject, plan |-> z.plan, erased |-> z.erased]
                        /\ fences[z.subject] # NoRequest
                        /\ DOMAIN z.plan = JobsOf(z.subject)'
    BY <1>1 DEF ReceiptsPlan
  <2>2. z.subject \in Subjects
    BY <1>10, <2>1 DEF ErasureTypeOK
  <2>3. CASE z = y
    BY <1>2, <1>3, <1>6, <2>2, <2>3 DEF ReceiptsPlan
  <2>4. CASE z \in receipts[p]
    BY <1>6, <2>2, <2>4 DEF ReceiptsPlan
  <2>5. QED
    BY <1>4, <2>1, <2>3, <2>4
<1>13. ErasedStaysErased'
  <2>1. SUFFICES ASSUME NEW t \in Subjects, Executed(t)', NEW j \in JobsOf(t)
                 PROVE  /\ jobs'[j].status = "cancelled"
                        /\ chunks'[j] = << >> /\ jobs'[j].chunks = 0
                        /\ jobs'[j].cursor = 0 /\ ArtifactsOf(j)' = {}
    BY <1>6 DEF ErasedStaysErased
  <2>2. CASE t = s
    BY <1>2, <2>1, <2>2
  <2>3. CASE t # s
    <3>1. /\ jobs[j].status = "cancelled" /\ chunks[j] = << >>
          /\ jobs[j].chunks = 0 /\ jobs[j].cursor = 0 /\ ArtifactsOf(j) = {}
      BY <1>9, <2>1, <2>3 DEF ErasedStaysErased
    <3>2. Untouched(j)
      BY <1>2, <1>7, <2>1, <2>3
    <3>3. QED
      BY <3>1, <3>2 DEF Untouched
  <2>4. QED
    BY <2>2, <2>3
<1>14. InventoryExact'
  <2>1. SUFFICES ASSUME NEW p \in Requests, NEW z \in receipts'[p],
                        ~Executed(z.subject)'
                 PROVE  z.plan = Inventory(z.subject)'
    BY DEF InventoryExact
  <2>2. z.subject \in Subjects /\ z.subject # s
    BY <1>9, <1>10, <2>1 DEF ErasureTypeOK
  <2>3. z \in receipts[p] /\ ~Executed(z.subject)
    BY <1>3, <1>4, <1>9, <2>1, <2>2
  <2>4. QED
    BY <1>8, <2>2, <2>3 DEF InventoryExact
<1>15. QED
  BY <1>4, <1>5, <1>10, <1>11, <1>12, <1>13, <1>14

-----------------------------------------------------------------------------
(***************************************************************************)
(* The invariant and what follows from it.                                 *)
(***************************************************************************)

\* Every step of ErasureNext prepares, executes or is one of an export that
\* respects the fences.
LEMMA ErasureStepKinds ==
    ASSUME ErasureInv, [ErasureNext]_allvars
    PROVE  \/ \E q \in Requests, s \in Subjects :
                 PrepareSubjectErasure(q, s) \/ ErasePreparedSubject(q, s)
           \/ [Next]_vars /\ UNCHANGED xvars /\ NoLateJob
<1> USE DEF ErasureInv, ErasureTypeOK
<1>1. ASSUME NEW j \in Jobs, SubjectSubmit(j)
      PROVE  [Next]_vars /\ UNCHANGED xvars /\ NoLateJob
  <2>1. Submit(j) /\ UNCHANGED evars /\ UNCHANGED xvars /\ fences[SubjectOf[j]] = NoRequest
    BY <1>1 DEF SubjectSubmit, evars, xvars
  <2>2. \A k \in Jobs \ {j} : jobs'[k] = jobs[k]
    BY <2>1, SubmitShape DEF TypeOK
  <2>3. QED
    BY <2>1, <2>2 DEF Next, NoLateJob
<1>2. ASSUME NEW j \in Jobs, Cancel(j) /\ UNCHANGED <<evars, xvars>>
      PROVE  [Next]_vars /\ UNCHANGED xvars /\ NoLateJob
  <2>1. Cancel(j) /\ UNCHANGED evars /\ UNCHANGED xvars
    BY <1>2 DEF evars, xvars
  <2>2. \A k \in Jobs : ProgressKeeps(k)
    BY <2>1, CancelKeepsProgress DEF TypeOK
  <2>3. QED
    BY <2>1, <2>2 DEF Next, NoLateJob, ProgressKeeps
<1>3. ASSUME NEW w \in Workers, ExportWorker(w), UNCHANGED xvars
      PROVE  [Next]_vars /\ UNCHANGED xvars /\ NoLateJob
  BY <1>3, JobsStay DEF Next, NoLateJob
<1>4. CASE Tick /\ UNCHANGED <<evars, xvars>>
  BY <1>4 DEF Next, NoLateJob, Tick, evars, xvars
<1>5. CASE UNCHANGED allvars
  BY <1>5 DEF allvars, vars, qvars, NoLateJob
<1>6. QED
  BY <1>1, <1>2, <1>3, <1>4, <1>5 DEF ErasureNext

\* The invariant holds of every reachable state.
LEMMA ErasureInvariant == ErasureSpec => []ErasureInv
<1>1. ErasureInit => ErasureInv
  <2>1. SUFFICES ASSUME ErasureInit PROVE ErasureInv
    OBVIOUS
  <2>2. TypeOK /\ TokenInv
    BY <2>1, ChunkInit DEF ErasureInit, ChunkInv
  <2>3. fences \in [Subjects -> Requests \cup {NoRequest}] /\ \A s \in Subjects : fences[s] = NoRequest
    BY <2>1 DEF ErasureInit
  <2>4. DOMAIN receipts = Requests /\ \A q \in Requests : receipts[q] = {}
    BY <2>1 DEF ErasureInit
  <2>5. QED
    BY <2>2, <2>3, <2>4 DEF ErasureInv, ErasureTypeOK, ReceiptsSingle, FencedSubjectIdle,
       ReceiptsPlan, ErasedStaysErased, InventoryExact, Executed
<1>2. ErasureInv /\ [ErasureNext]_allvars => ErasureInv'
  BY ErasureStepKinds, PreparePreserves, ErasePreserves, ExportStepPreserves
<1>3. QED
  BY <1>1, <1>2, PTL DEF ErasureSpec

\* The tables of exports and erasures stay well typed.
THEOREM ErasureTypeCorrect == ErasureSpec => []ErasureTypeOK
BY ErasureInvariant, PTL DEF ErasureInv

\* Every job of a fenced subject has ended, so that an accepted preparation
\* can be executed (prepareSubjectErasure, erasePreparedSubject).
THEOREM FencedSubjectsAreIdle == ErasureSpec => []FencedSubjectIdle
BY ErasureInvariant, PTL DEF ErasureInv

\* After an executed erasure no worker, however late, brings a chunk, an
\* artifact or progress of the subject back (fencedJob, CommitResultPage).
THEOREM ErasureIsLasting == ErasureSpec => []ErasedStaysErased
BY ErasureInvariant, PTL DEF ErasureInv

\* Until its subject is erased a receipt lists exactly the jobs, chunks and
\* artifacts there are.
THEOREM InventoriesAreExact == ErasureSpec => []InventoryExact
BY ErasureInvariant, PTL DEF ErasureInv

\* What a step may do to a job that has ended, and to chunks.
OtherKept(j) ==
    /\ jobs[j].status \in Ended => jobs'[j].status \in Ended
    /\ jobs[j].status \in Ended /\ jobs'[j] # jobs[j] =>
          fences[SubjectOf[j]] # NoRequest
    /\ ~(DOMAIN chunks[j] \subseteq DOMAIN chunks'[j]) =>
          fences[SubjectOf[j]] # NoRequest

\* Every step keeps to it.
LEMMA EveryStepKeepsOthers ==
    ASSUME ErasureInv, [ErasureNext]_allvars, NEW j \in Jobs
    PROVE  OtherKept(j)
<1> USE DEF ErasureInv
<1>1. ASSUME NEW q \in Requests, NEW s \in Subjects, PrepareSubjectErasure(q, s)
      PROVE  OtherKept(j)
  <2>1. chunks' = chunks
    BY <1>1 DEF PrepareSubjectErasure, evars
  <2>2. jobs[j].status \in Ended => jobs'[j] = jobs[j]
    BY <1>1, PrepareShape
  <2>3. QED
    BY <2>1, <2>2 DEF OtherKept
<1>2. ASSUME NEW q \in Requests, NEW s \in Subjects, ErasePreparedSubject(q, s)
      PROVE  OtherKept(j)
  <2>1. fences[s] # NoRequest
    BY <1>2, EraseShape
  <2>2. CASE j \in JobsOf(s)
    <3>1. jobs'[j].status = "cancelled"
      BY <1>2, <2>2, EraseShape
    <3>2. SubjectOf[j] = s
      BY <2>2 DEF JobsOf
    <3>3. QED
      BY <2>1, <3>1, <3>2 DEF OtherKept, Ended
  <2>3. CASE j \notin JobsOf(s)
    <3>1. Untouched(j)
      BY <1>2, <2>3, EraseShape
    <3>2. QED
      BY <3>1 DEF Untouched, OtherKept
  <2>4. QED
    BY <2>2, <2>3
<1>3. ASSUME [Next]_vars PROVE OtherKept(j)
  <2>1. jobs[j].status \in Ended => Untouched(j)
    BY <1>3, EndedUntouched DEF ErasureTypeOK
  <2>2. DOMAIN chunks[j] \subseteq DOMAIN chunks'[j]
    BY <1>3, ChunksStay DEF ErasureTypeOK
  <2>3. QED
    BY <2>1, <2>2 DEF Untouched, OtherKept
<1>4. QED
  BY <1>1, <1>2, <1>3, ErasureStepKinds

\* Only the erasure of a fenced subject deletes chunks or rewrites a row
\* that has ended, only rows of that subject, and it revives none.
THEOREM ErasureSparesOthers == ErasureSpec => OthersUntouched
<1>1. ErasureInv /\ [ErasureNext]_allvars =>
         [\A j \in Jobs :
            /\ jobs[j].status \in Ended => jobs'[j].status \in Ended
            /\ jobs[j].status \in Ended /\ jobs'[j] # jobs[j] =>
                  fences[SubjectOf[j]] # NoRequest
            /\ ~(DOMAIN chunks[j] \subseteq DOMAIN chunks'[j]) =>
                  fences[SubjectOf[j]] # NoRequest]_allvars
  BY EveryStepKeepsOthers DEF OtherKept
<1>2. QED
  BY <1>1, ErasureInvariant, PTL DEF ErasureSpec, OthersUntouched


-----------------------------------------------------------------------------
(***************************************************************************)
(* Results among erasures.                                                 *)
(*                                                                         *)
(* What is known of results without erasures is known of all but the jobs  *)
(* that are gone.  Those have ended, so no claim, commit or completion     *)
(* reaches them; a worker that still holds one may tell the provider what  *)
(* it likes, but writes nothing.                                           *)
(***************************************************************************)
ResultInv == \E G : ChunkInv(G) /\ OnceInv(G)

\* They hold initially, when nothing is gone.
LEMMA ResultsInit == Init => ResultInv
BY ChunkInit, OnceInit DEF ResultInv

\* A preparation withdraws queued jobs only and leaves all progress as it is.
LEMMA PrepareKeepsResults ==
    ASSUME ErasureInv, ResultInv, NEW q \in Requests, NEW s \in Subjects,
           PrepareSubjectErasure(q, s)
    PROVE  ResultInv'
<1>1. PICK G : ChunkInv(G) /\ OnceInv(G)
  BY DEF ResultInv
<1>2. /\ UNCHANGED <<pc, item, mem, sha, step>>
      /\ UNCHANGED <<chunks, artifacts, completions>>
  BY DEF PrepareSubjectErasure, evars
<1>3. TypeOK' /\ TokenInv' /\ TypeOK
  BY PreparePreserves DEF ErasureInv, ErasureTypeOK
<1>4. \A j \in Jobs : ProgressKeeps(j) /\ (jobs[j].status \in Ended => jobs'[j] = jobs[j])
  BY PrepareShape DEF ProgressKeeps
<1>5. NoCommit
  BY <1>2, <1>4 DEF NoCommit
<1>6. CompletedKept
  <2>1. SUFFICES ASSUME NEW j \in Jobs
                 PROVE  jobs'[j].status = "completed" <=> jobs[j].status = "completed"
    BY DEF CompletedKept
  <2>2. CASE jobs[j].status = "completed"
    BY <1>4, <2>2 DEF Ended
  <2>3. CASE jobs[j].status # "completed"
    <3>1. jobs'[j] = jobs[j] \/ jobs'[j] = Withdrawn(jobs[j])
      BY DEF PrepareSubjectErasure
    <3>2. jobs[j] \in JobRow
      BY DEF ErasureInv, TokenInv, QueueTypeOK
    <3>3. Withdrawn(jobs[j]).status \in {"cancelled", jobs[j].status}
      BY <3>2, WithdrawnRow
    <3>4. QED
      BY <2>3, <3>1, <3>3
  <2>4. QED
    BY <2>2, <2>3
<1>7. \A v \in Workers : Stays(v)
  BY <1>2 DEF Stays
<1>8. OnceInv(G)'
  <2>1. \A v \in Workers : WorkerTells(G, v)'
    BY <1>1, <1>2, <1>3, <1>5, <1>7, StayingTells DEF OnceInv
  <2>2. QED
    BY <1>1, <1>2, <1>3, <1>5, <1>6, <2>1, QuietKeepsOnce
<1>9. ChunkInv(G)'
  <2>1. /\ \A j \in Jobs : /\ jobs'[j].chunks = jobs[j].chunks
                           /\ jobs'[j].checkpoint = jobs[j].checkpoint
                           /\ jobs'[j].status = "absent" => jobs[j].status = "absent"
        /\ \A w \in Workers : pc[w] # "idle" => item[w].job \in Jobs
    BY <1>3, <1>4 DEF ProgressKeeps, TypeOK, QueueTypeOK
  <2>2. ChunksContiguous' /\ AbsentBare'
    BY <1>1, <1>2, <2>1 DEF ChunkInv, ChunksContiguous, AbsentBare
  <2>3. AllEnded(G)'
    BY <1>1, <1>4 DEF ChunkInv, AllEnded
  <2>4. SeqBounded(G)' /\ TotalsCounted(G)'
    BY <1>1, <1>2, <2>1 DEF ChunkInv, SeqBounded, TotalsCounted
  <2>5. QED
    BY <1>3, <2>2, <2>3, <2>4 DEF ChunkInv
<1>10. QED
  BY <1>8, <1>9 DEF ResultInv

\* An execution adds the jobs of the subject to those that are gone.
LEMMA EraseKeepsResults ==
    ASSUME ErasureInv, ResultInv, NEW q \in Requests, NEW s \in Subjects,
           ErasePreparedSubject(q, s)
    PROVE  ResultInv'
<1>1. PICK G : ChunkInv(G) /\ OnceInv(G)
  BY DEF ResultInv
<1>2. PICK E : E = JobsOf(s) /\ E \subseteq Jobs
  BY DEF JobsOf
<1>3. PICK H : H = G \cup E
  OBVIOUS
<1>4. UNCHANGED <<pc, item, mem, sha, step, completions>>
  BY DEF ErasePreparedSubject
<1>5. /\ \A j \in E : /\ jobs'[j].status = "cancelled"
                      /\ jobs'[j].cursor = 0 /\ jobs'[j].chunks = 0
                      /\ chunks'[j] = << >> /\ ArtifactsOf(j)' = {}
      /\ \A j \in Jobs \ E : Untouched(j)
      /\ artifacts' \subseteq artifacts
  <2>1. \A j \in Jobs : j \in JobsOf(s) =>
           /\ jobs'[j].status = "cancelled"
           /\ jobs'[j].cursor = 0 /\ jobs'[j].chunks = 0
           /\ chunks'[j] = << >> /\ ArtifactsOf(j)' = {}
    BY EraseShape
  <2>2. /\ \A j \in Jobs : j \notin JobsOf(s) => Untouched(j)
        /\ artifacts' \subseteq artifacts
    BY EraseShape
  <2>3. QED
    BY <1>2, <2>1, <2>2
<1>6. TypeOK' /\ TokenInv'
  BY ErasePreserves DEF ErasureInv, ErasureTypeOK
<1>7. \A w \in Workers : pc[w] # "idle" => item[w].job \in Jobs
  BY DEF ErasureInv, TokenInv, QueueTypeOK
<1>8. /\ \A j \in Jobs \ E : jobs'[j] = jobs[j] /\ chunks'[j] = chunks[j]
      /\ \A j \in Jobs \ E : ArtifactsOf(j)' = ArtifactsOf(j)
  BY <1>5 DEF Untouched
<1>9. ChunkInv(H)'
  <2>1. AllEnded(H)'
    BY <1>1, <1>2, <1>3, <1>5, <1>8 DEF ChunkInv, AllEnded, Ended
  <2>2. ChunksContiguous'
    <3>1. DOMAIN << >> = {} /\ 0 .. (0 - 1) = {}
      OBVIOUS
    <3>2. QED
      BY <1>1, <1>5, <1>8, <3>1 DEF ChunkInv, ChunksContiguous
  <2>3. AbsentBare'
    BY <1>1, <1>5, <1>8 DEF ChunkInv, AbsentBare
  <2>4. SeqBounded(H)' /\ TotalsCounted(H)'
    BY <1>1, <1>3, <1>4, <1>7, <1>8 DEF ChunkInv, SeqBounded, TotalsCounted
  <2>5. QED
    BY <1>6, <2>1, <2>2, <2>3, <2>4 DEF ChunkInv
<1>10. ASSUME NEW j \in Jobs
       PROVE  ResultTells(jobs'[j], chunks'[j]) /\ CompletedPublished(j)'
  <2>1. CASE j \in E
    <3>1. DOMAIN chunks'[j] = {}
      BY <1>5, <2>1
    <3>2. ResultTells(jobs'[j], chunks'[j])
      BY <1>5, <2>1, <3>1 DEF ResultTells, PagesOf, PagesOrdered, CursorTells
    <3>3. QED
      BY <1>5, <2>1, <3>2 DEF CompletedPublished
  <2>2. CASE j \notin E
    BY <1>1, <1>8, <2>2 DEF OnceInv, CompletedPublished, ArtifactsOf
  <2>3. QED
    BY <2>1, <2>2
<1>11. ASSUME NEW w \in Workers PROVE WorkerTells(H, w)'
  <2>1. WorkerTells(G, w)
    BY <1>1 DEF OnceInv
  <2>2. CASE pc[w] = "idle"
    <3>1. pc'[w] = "idle" /\ step'[w] = "none"
      BY <1>4, <2>1, <2>2 DEF WorkerTells
    <3>2. QED
      BY <3>1, IdleTells
  <2>3. CASE pc[w] # "idle"
    <3>1. CASE item[w].job \in H
      BY <1>4, <2>1, <3>1 DEF WorkerTells
    <3>2. CASE item[w].job \notin H
      <4>1. item[w].job \in Jobs \ E /\ item[w].job \notin G
        BY <1>3, <1>7, <2>3, <3>2
      <4>2. QED
        BY <1>4, <1>8, <2>1, <4>1 DEF WorkerTells, StepTells
    <3>3. QED
      BY <3>1, <3>2
  <2>4. QED
    BY <2>2, <2>3
<1>12. ASSUME NEW c \in completions PROVE CompletionTrue(H, c)'
  <2>1. CompletionTrue(G, c)
    BY <1>1 DEF OnceInv
  <2>2. QED
    BY <1>3, <1>8, <2>1 DEF CompletionTrue
<1>13. ASSUME NEW a \in artifacts' PROVE ArtifactTrue(a)'
  <2>1. a \in artifacts /\ ArtifactTrue(a)
    BY <1>1, <1>5 DEF OnceInv
  <2>2. a.job \in Jobs \ E
    BY <1>5, <2>1 DEF ArtifactTrue, ArtifactsOf
  <2>3. QED
    BY <1>4, <1>8, <2>1, <2>2 DEF ArtifactTrue
<1>14. OnceInv(H)'
  BY <1>4, <1>10, <1>11, <1>12, <1>13 DEF OnceInv
<1>15. QED
  BY <1>9, <1>14 DEF ResultInv

\* Every step keeps what is known of the results.
LEMMA ResultStep ==
    ASSUME ErasureInv, ResultInv, [ErasureNext]_allvars
    PROVE  ResultInv'
<1>1. ASSUME [Next]_vars PROVE ResultInv'
  BY <1>1, ChunkStep, OnceStep DEF ResultInv
<1>2. QED
  BY <1>1, ErasureStepKinds, PrepareKeepsResults, EraseKeepsResults

\* And so it holds of every reachable state.
LEMMA ResultInvariant == ErasureSpec => [](ErasureInv /\ ResultInv)
<1>1. ErasureInit => ResultInv
  BY ResultsInit DEF ErasureInit
<1>2. ErasureInv /\ ResultInv /\ [ErasureNext]_allvars => ResultInv'
  BY ResultStep
<1>3. QED
  BY <1>1, <1>2, ErasureInvariant, PTL DEF ErasureSpec

\* While accounts are erased under the workers, what is left of the results
\* is as good as without erasures: the chunks are numbered without a gap,
\* the pages are in order and a completed export has all of them.
THEOREM ResultsSurviveErasures ==
    ErasureSpec => [](ChunksContiguous /\ OrderedDespiteStalls)
<1>1. ResultInv => ChunksContiguous /\ OrderedDespiteStalls
  <2>1. SUFFICES ASSUME ResultInv PROVE ChunksContiguous /\ OrderedDespiteStalls
    OBVIOUS
  <2>2. PICK G : ChunkInv(G) /\ OnceInv(G)
    BY <2>1 DEF ResultInv
  <2>3. ASSUME NEW j \in Jobs
        PROVE  /\ PagesOrdered(chunks[j])
               /\ jobs[j].status = "completed" => PagesOf(chunks[j]) = ContentPages
    <3>1. ResultTells(jobs[j], chunks[j]) /\ CompletedPublished(j)
      BY <2>2 DEF OnceInv
    <3>2. QED
      BY <3>1, TerminalHasAll DEF ResultTells, CompletedPublished
  <2>4. QED
    BY <2>2, <2>3 DEF ChunkInv, OrderedDespiteStalls, PagesOrdered, PagesOf
<1>2. QED
  BY <1>1, ResultInvariant, PTL

\* A job is completed exactly while it has its one artifact, whose digest is
\* that of its chunks: an erasure takes both away together, and no worker
\* puts one of them back.
THEOREM ArtifactsSurviveErasures == ErasureSpec => []ArtifactIdentity
<1>1. ResultInv => ArtifactIdentity
  BY DEF ResultInv, OnceInv, ArtifactTrue, CompletedPublished, ArtifactIdentity
<1>2. QED
  BY <1>1, ResultInvariant, PTL


-----------------------------------------------------------------------------
(***************************************************************************)
(* Downloads.  From the artifact's row on a handler knows the digest of a  *)
(* whole result, and all that the query on the chunks can bring is that    *)
(* result or, after an erasure, nothing.                                   *)
(***************************************************************************)

\* Every page once and in order, numbered without a gap.
Whole(f) ==
    /\ Size(f) \in Nat /\ DOMAIN f = 0 .. (Size(f) - 1)
    /\ PagesOf(f) = ContentPages
    /\ \A s, t \in DOMAIN f : s < t => f[s] < f[t]

\* What has been sent are the first of the rows that were found.
Sent(x) ==
    /\ x.got \in Seq(Pages)
    /\ \A i \in DOMAIN x.got : i - 1 \in DOMAIN x.rest /\ x.got[i] = x.rest[i - 1]

\* What the handler of a download holds at each of its statements.
StreamTells(x) ==
    /\ x = [at |-> x.at, job |-> x.job, sha |-> x.sha, rest |-> x.rest,
            length |-> x.length, got |-> x.got]
    /\ x.at \in {"job", "artifact"} => x.job \in Jobs /\ x.got = << >>
    /\ x.at \in {"artifact", "chunks", "send", "ended"} => Whole(x.sha)
    /\ x.at = "artifact" => /\ jobs[x.job].status \in Ended
                            /\ chunks[x.job] \in {x.sha, << >>}
    /\ x.at \in {"chunks", "send", "ended"} => x.rest \in {x.sha, << >>} /\ Sent(x)
    /\ x.at \in {"send", "ended"} => x.length = Size(x.sha)

StreamInv == DOMAIN stream = Readers /\ \A d \in Readers : StreamTells(stream[d])

\* The steps of downloads leave the tables alone.
LEMMA DownloadIsErasure == DownloadSpec => ErasureSpec
<1>1. DownloadInit => ErasureInit
  BY DEF DownloadInit
<1>2. [DownloadNext]_<<allvars, dvars>> => [ErasureNext]_allvars
  BY DEF DownloadNext, RequestDownload, OpenArtifact, OpenChunks, SendHead,
         SendChunk, EndStream, Expire, Reading
<1>3. QED
  BY <1>1, <1>2, PTL DEF DownloadSpec, ErasureSpec

\* A result that is numbered without a gap has the size of its numbering.
LEMMA GaplessSize ==
    ASSUME NEW f, NEW n \in Nat, DOMAIN f = 0 .. (n - 1)
    PROVE  Size(f) = n
<1>1. Cardinality(0 .. (n - 1)) = IF 0 > n - 1 THEN 0 ELSE (n - 1) - 0 + 1
  <2>1. 0 \in Int /\ n - 1 \in Int
    OBVIOUS
  <2>2. QED
    BY <2>1, FS_Interval
<1>2. QED
  BY <1>1 DEF Size

\* The artifact of a completed job has the digest of a whole result, and
\* the chunks are that result.
LEMMA PublishedWhole ==
    ASSUME Stalls = {}, ResultInv, NEW j \in Jobs, NEW a \in ArtifactsOf(j)
    PROVE  a.sha = chunks[j] /\ Whole(chunks[j]) /\ jobs[j].status \in Ended
<1>1. PICK G : ChunkInv(G) /\ OnceInv(G)
  BY DEF ResultInv
<1>2. ArtifactTrue(a) /\ a.job = j
  BY <1>1 DEF OnceInv, ArtifactsOf
<1>3. a.sha = chunks[j] /\ jobs[j].status = "completed"
  BY <1>2 DEF ArtifactTrue
<1>4. ResultTells(jobs[j], chunks[j]) /\ Terminal(jobs[j])
  BY <1>1, <1>3 DEF OnceInv, CompletedPublished
<1>5. PagesOf(chunks[j]) = ContentPages
  BY <1>4, TerminalHasAll DEF ResultTells
<1>6. \A s, t \in DOMAIN chunks[j] : s < t => chunks[j][s] < chunks[j][t]
  BY <1>4 DEF ResultTells, PagesOrdered
<1>7. Size(chunks[j]) \in Nat /\ DOMAIN chunks[j] = 0 .. (Size(chunks[j]) - 1)
  <2>1. PICK n, f : /\ n \in Nat /\ n = jobs[j].chunks
                      /\ f = chunks[j] /\ DOMAIN f = 0 .. (n - 1)
    BY <1>1 DEF ChunkInv, ChunksContiguous, TypeOK, QueueTypeOK, JobRow
  <2>2. QED
    BY <2>1, GaplessSize
<1>8. QED
  BY <1>3, <1>5, <1>6, <1>7 DEF Whole, Ended

\* A stream that carries nothing yet.
LEMMA BareStreams ==
    /\ StreamTells(NoStream)
    /\ StreamTells([NoStream EXCEPT !.at = "refused"])
    /\ \A j \in Jobs : StreamTells([NoStream EXCEPT !.at = "job", !.job = j])
<1>1. ASSUME NEW at \in {"idle", "refused", "job"}, NEW j, at = "job" => j \in Jobs, NEW x,
             x = [at |-> at, job |-> j, sha |-> NoSha, rest |-> << >>,
                  length |-> 0, got |-> << >>]
      PROVE  StreamTells(x)
  <2>1. /\ x.at = at /\ x.job = j /\ x.got = << >>
        /\ x = [at |-> x.at, job |-> x.job, sha |-> x.sha, rest |-> x.rest,
                length |-> x.length, got |-> x.got]
    BY <1>1
  <2>2. QED
    BY <1>1, <2>1 DEF StreamTells
<1>2. StreamTells(NoStream)
  BY <1>1 DEF NoStream
<1>3. StreamTells([NoStream EXCEPT !.at = "refused"])
  <2>1. PICK x : x = [NoStream EXCEPT !.at = "refused"]
    OBVIOUS
  <2>2. x = [at |-> "refused", job |-> NoJob, sha |-> NoSha, rest |-> << >>,
             length |-> 0, got |-> << >>]
    BY <2>1 DEF NoStream
  <2>3. StreamTells(x)
    BY <1>1, <2>2
  <2>4. QED
    BY <2>1, <2>3
<1>4. ASSUME NEW j \in Jobs
      PROVE  StreamTells([NoStream EXCEPT !.at = "job", !.job = j])
  <2>1. PICK x : x = [NoStream EXCEPT !.at = "job", !.job = j]
    OBVIOUS
  <2>2. x = [at |-> "job", job |-> j, sha |-> NoSha, rest |-> << >>,
             length |-> 0, got |-> << >>]
    BY <2>1 DEF NoStream
  <2>3. StreamTells(x)
    BY <1>1, <2>2
  <2>4. QED
    BY <2>1, <2>3
<1>5. QED
  BY <1>2, <1>3, <1>4

\* Nothing but the stream of d changes.
LEMMA OneStream ==
    ASSUME StreamInv, NEW d \in Readers, DOMAIN stream' = Readers,
           StreamTells(stream'[d]), UNCHANGED allvars,
           \A e \in Readers \ {d} : stream'[e] = stream[e]
    PROVE  StreamInv'
<1>1. UNCHANGED <<jobs, chunks>>
  BY DEF allvars, vars, qvars, evars
<1>2. ASSUME NEW e \in Readers PROVE StreamTells(stream[e])'
  <2>1. PICK x : x = stream'[e] /\ StreamTells(x)
    BY DEF StreamInv
  <2>2. StreamTells(x)'
    BY <1>1, <2>1 DEF StreamTells
  <2>3. QED
    BY <2>1, <2>2
<1>3. QED
  BY <1>2 DEF StreamInv

\* A refusal and a request start over.
LEMMA StartsOver ==
    ASSUME StreamInv, UNCHANGED allvars, NEW d \in Readers,
           \/ Refused(d)
           \/ \E j \in Jobs :
                 stream' = [stream EXCEPT ![d] = [NoStream EXCEPT !.at = "job", !.job = j]]
    PROVE  StreamInv'
<1>1. PICK x : StreamTells(x) /\ stream' = [stream EXCEPT ![d] = x]
  BY BareStreams DEF Refused
<1>2. /\ DOMAIN stream' = Readers /\ stream'[d] = x
      /\ \A e \in Readers \ {d} : stream'[e] = stream[e]
  BY <1>1 DEF StreamInv
<1>3. QED
  BY <1>1, <1>2, OneStream

\* The artifact's row of a completed job names a whole result.
LEMMA OpenArtifactTells ==
    ASSUME Stalls = {}, ResultInv, StreamInv, NEW d \in Readers, OpenArtifact(d)
    PROVE  StreamInv'
<1>1. PICK x : x = stream[d] /\ StreamTells(x) /\ x.at = "job"
  BY DEF StreamInv, OpenArtifact
<1>2. x.job \in Jobs /\ x.got = << >>
  BY <1>1 DEF StreamTells
<1>3. UNCHANGED allvars
  BY DEF OpenArtifact, Reading
<1>4. CASE Refused(d)
  BY <1>3, <1>4, StartsOver
<1>5. ASSUME NEW a \in ArtifactsOf(x.job),
             stream' = [stream EXCEPT ![d].at = "artifact", ![d].sha = a.sha]
      PROVE  StreamInv'
  <2>1. PICK y : y = [at |-> "artifact", job |-> x.job, sha |-> a.sha,
                      rest |-> x.rest, length |-> x.length, got |-> x.got]
    OBVIOUS
  <2>2. a.sha = chunks[x.job] /\ Whole(a.sha) /\ jobs[x.job].status \in Ended
    BY <1>2, PublishedWhole
  <2>3. StreamTells(y)
    BY <1>2, <2>1, <2>2 DEF StreamTells
  <2>4. /\ DOMAIN stream' = Readers /\ stream'[d] = y
        /\ \A e \in Readers \ {d} : stream'[e] = stream[e]
    BY <1>1, <1>5, <2>1 DEF StreamInv, StreamTells
  <2>5. QED
    BY <1>3, <2>3, <2>4, OneStream
<1>6. QED
  BY <1>1, <1>4, <1>5 DEF OpenArtifact

\* The query on the chunks brings the whole result or nothing.
LEMMA OpenChunksTells ==
    ASSUME StreamInv, NEW d \in Readers, OpenChunks(d)
    PROVE  StreamInv'
<1>1. PICK x : x = stream[d] /\ StreamTells(x) /\ x.at = "artifact"
  BY DEF StreamInv, OpenChunks
<1>2. /\ Whole(x.sha) /\ chunks[x.job] \in {x.sha, << >>} /\ x.got = << >>
  BY <1>1 DEF StreamTells
<1>3. UNCHANGED allvars
  BY DEF OpenChunks, Reading
<1>4. PICK y : y = [at |-> "chunks", job |-> x.job, sha |-> x.sha,
                    rest |-> chunks[x.job], length |-> x.length, got |-> x.got]
  OBVIOUS
<1>5. Sent(y)
  BY <1>2, <1>4 DEF Sent
<1>6. StreamTells(y)
  BY <1>2, <1>4, <1>5 DEF StreamTells
<1>7. /\ DOMAIN stream' = Readers /\ stream'[d] = y
      /\ \A e \in Readers \ {d} : stream'[e] = stream[e]
  BY <1>1, <1>4 DEF OpenChunks, StreamInv, StreamTells
<1>8. QED
  BY <1>3, <1>6, <1>7, OneStream

\* The head announces the size of the whole result.
LEMMA SendHeadTells ==
    ASSUME StreamInv, NEW d \in Readers, SendHead(d)
    PROVE  StreamInv'
<1>1. PICK x : x = stream[d] /\ StreamTells(x) /\ x.at = "chunks"
  BY DEF StreamInv, SendHead
<1>2. Whole(x.sha) /\ x.rest \in {x.sha, << >>} /\ Sent(x)
  BY <1>1 DEF StreamTells
<1>3. UNCHANGED allvars
  BY DEF SendHead, Reading
<1>4. CASE Refused(d)
  BY <1>3, <1>4, StartsOver
<1>5. CASE stream' = [stream EXCEPT ![d].at = "send", ![d].length = Size(stream[d].sha)]
  <2>1. PICK y : y = [at |-> "send", job |-> x.job, sha |-> x.sha, rest |-> x.rest,
                      length |-> Size(x.sha), got |-> x.got]
    OBVIOUS
  <2>2. StreamTells(y)
    BY <1>2, <2>1 DEF StreamTells, Sent
  <2>3. /\ DOMAIN stream' = Readers /\ stream'[d] = y
        /\ \A e \in Readers \ {d} : stream'[e] = stream[e]
    BY <1>1, <1>5, <2>1 DEF StreamInv, StreamTells
  <2>4. QED
    BY <1>3, <2>2, <2>3, OneStream
<1>6. QED
  BY <1>4, <1>5 DEF SendHead

\* The next row goes out.
LEMMA SendChunkTells ==
    ASSUME StreamInv, NEW d \in Readers, SendChunk(d)
    PROVE  StreamInv'
<1>1. PICK x : x = stream[d] /\ StreamTells(x) /\ x.at = "send"
  BY DEF StreamInv, SendChunk
<1>2. /\ Whole(x.sha) /\ x.rest \in {x.sha, << >>} /\ Sent(x)
      /\ x.length = Size(x.sha)
  BY <1>1 DEF StreamTells
<1>3. UNCHANGED allvars
  BY DEF SendChunk, Reading
<1>4. PICK n \in Nat : n = Len(x.got) /\ n \in DOMAIN x.rest
  BY <1>1, <1>2 DEF SendChunk, Sent
<1>5. x.rest[n] \in Pages
  BY <1>2, <1>4 DEF Whole, PagesOf, ContentPages
<1>6. PICK at \in {"send", "ended"} : at = IF n + 1 > Size(x.sha) THEN "ended" ELSE "send"
  OBVIOUS
<1>7. PICK got : got = Append(x.got, x.rest[n])
  OBVIOUS
<1>8. /\ got \in Seq(Pages)
      /\ \A i \in DOMAIN got : i - 1 \in DOMAIN x.rest /\ got[i] = x.rest[i - 1]
  <2>1. x.got \in Seq(Pages) /\ DOMAIN x.got = 1 .. n
    BY <1>2, <1>4 DEF Sent
  <2>2. got \in Seq(Pages) /\ DOMAIN got = 1 .. (n + 1)
    BY <1>4, <1>5, <1>7, <2>1
  <2>3. got[n + 1] = x.rest[n] /\ \A i \in 1 .. n : got[i] = x.got[i]
    BY <1>4, <1>5, <1>7, <2>1
  <2>4. ASSUME NEW i \in 1 .. (n + 1)
        PROVE  i - 1 \in DOMAIN x.rest /\ got[i] = x.rest[i - 1]
    <3>1. CASE i = n + 1
      <4>1. i - 1 = n
        BY <3>1
      <4>2. QED
        BY <1>4, <2>3, <3>1, <4>1
    <3>2. CASE i # n + 1
      <4>1. i \in 1 .. n
        BY <3>2
      <4>2. QED
        BY <1>2, <2>1, <2>3, <4>1 DEF Sent
    <3>3. QED
      BY <3>1, <3>2
  <2>5. QED
    BY <2>2, <2>4
<1>9. PICK y : y = [at |-> at, job |-> x.job, sha |-> x.sha, rest |-> x.rest,
                    length |-> x.length, got |-> got]
  OBVIOUS
<1>10. StreamTells(y)
  BY <1>2, <1>8, <1>9 DEF StreamTells, Sent
<1>11. /\ DOMAIN stream' = Readers /\ stream'[d] = y
       /\ \A e \in Readers \ {d} : stream'[e] = stream[e]
  BY <1>1, <1>4, <1>6, <1>7, <1>9 DEF SendChunk, StreamInv, StreamTells
<1>12. QED
  BY <1>3, <1>10, <1>11, OneStream

\* The copy ends, wherever it is.
LEMMA EndStreamTells ==
    ASSUME StreamInv, NEW d \in Readers, EndStream(d)
    PROVE  StreamInv'
<1>1. PICK x : x = stream[d] /\ StreamTells(x) /\ x.at = "send"
  BY DEF StreamInv, EndStream
<1>2. UNCHANGED allvars
  BY DEF EndStream, Reading
<1>3. PICK y : y = [at |-> "ended", job |-> x.job, sha |-> x.sha, rest |-> x.rest,
                    length |-> x.length, got |-> x.got]
  OBVIOUS
<1>4. StreamTells(y)
  BY <1>1, <1>3 DEF StreamTells, Sent
<1>5. /\ DOMAIN stream' = Readers /\ stream'[d] = y
      /\ \A e \in Readers \ {d} : stream'[e] = stream[e]
  BY <1>1, <1>3 DEF EndStream, StreamInv, StreamTells
<1>6. QED
  BY <1>2, <1>4, <1>5, OneStream

\* A job that has ended stays so and its result stays or is erased whole.
LEMMA EndedResult ==
    ASSUME ErasureInv, [ErasureNext]_allvars, NEW j \in Jobs, jobs[j].status \in Ended
    PROVE  jobs'[j].status \in Ended /\ chunks'[j] \in {chunks[j], << >>}
<1>1. jobs'[j].status \in Ended
  BY EveryStepKeepsOthers DEF OtherKept
<1>2. ASSUME NEW q \in Requests, NEW s \in Subjects, PrepareSubjectErasure(q, s)
      PROVE  chunks'[j] \in {chunks[j], << >>}
  BY <1>2 DEF PrepareSubjectErasure, evars
<1>3. ASSUME NEW q \in Requests, NEW s \in Subjects, ErasePreparedSubject(q, s)
      PROVE  chunks'[j] \in {chunks[j], << >>}
  <2>1. /\ j \in JobsOf(s) => chunks'[j] = << >>
        /\ j \notin JobsOf(s) => Untouched(j)
    BY <1>3, EraseShape
  <2>2. QED
    BY <2>1 DEF Untouched
<1>4. ASSUME [Next]_vars PROVE chunks'[j] \in {chunks[j], << >>}
  BY <1>4, EndedUntouched DEF Untouched, ErasureInv, ErasureTypeOK
<1>5. QED
  BY <1>1, <1>2, <1>3, <1>4, ErasureStepKinds

\* Whatever happens to the tables, the handlers hold what they did.
LEMMA TablesMove ==
    ASSUME ErasureInv, StreamInv, [ErasureNext]_allvars, stream' = stream
    PROVE  StreamInv'
<1>1. ASSUME NEW d \in Readers PROVE StreamTells(stream[d])'
  <2>1. PICK x : x = stream[d] /\ x = stream'[d] /\ StreamTells(x)
    BY DEF StreamInv
  <2>2. x.at = "artifact" => jobs'[x.job].status \in Ended /\ chunks'[x.job] \in {x.sha, << >>}
    BY <2>1, EndedResult DEF StreamTells
  <2>3. StreamTells(x)'
    BY <2>1, <2>2 DEF StreamTells
  <2>4. QED
    BY <2>1, <2>3
<1>2. QED
  BY <1>1 DEF StreamInv

\* Every step keeps what the handlers hold.
LEMMA StreamStep ==
    ASSUME Stalls = {}, ErasureInv, ResultInv, StreamInv, [DownloadNext]_<<allvars, dvars>>
    PROVE  StreamInv'
<1>1. CASE (ErasureNext /\ UNCHANGED dvars) \/ UNCHANGED <<allvars, dvars>>
  <2>1. [ErasureNext]_allvars /\ stream' = stream
    BY <1>1 DEF dvars
  <2>2. QED
    BY <2>1, TablesMove
<1>2. ASSUME NEW d \in Readers, NEW j \in Jobs, RequestDownload(d, j) PROVE StreamInv'
  BY <1>2, StartsOver DEF RequestDownload, Reading
<1>3. ASSUME NEW j \in Jobs, Expire(j) PROVE StreamInv'
  BY <1>3, TablesMove DEF Expire
<1>4. QED
  BY <1>1, <1>2, <1>3, OpenArtifactTells, OpenChunksTells, SendHeadTells,
     SendChunkTells, EndStreamTells DEF DownloadNext

\* A handler that has sent as many chunks as the head announced has sent the
\* whole result.
LEMMA AllSent ==
    ASSUME NEW x, StreamTells(x), x.at = "ended", Len(x.got) = x.length
    PROVE  /\ {x.got[i] : i \in DOMAIN x.got} = ContentPages
           /\ \A i, k \in DOMAIN x.got : i < k => x.got[i] < x.got[k]
<1>1. /\ Whole(x.sha) /\ x.rest \in {x.sha, << >>} /\ Sent(x)
      /\ Len(x.got) = Size(x.sha)
  BY DEF StreamTells
<1>2. PICK n, f, got :
         /\ n \in Nat /\ n = Size(x.sha) /\ f = x.sha /\ got = x.got
         /\ DOMAIN f = 0 .. (n - 1) /\ DOMAIN got = 1 .. n
  BY <1>1 DEF Whole, Sent
<1>3. n # 0
  BY <1>1, <1>2, ContentTypes DEF Whole, PagesOf
<1>4. x.rest = f
  <2>1. 1 \in DOMAIN got
    BY <1>2, <1>3
  <2>2. x.rest # << >>
    BY <1>1, <1>2, <2>1 DEF Sent
  <2>3. QED
    BY <1>1, <1>2, <2>2
<1>5. \A i \in 1 .. n : i - 1 \in 0 .. (n - 1) /\ got[i] = f[i - 1]
  BY <1>1, <1>2, <1>4 DEF Sent
<1>6. {got[i] : i \in 1 .. n} = PagesOf(f)
  <2>1. \A s \in 0 .. (n - 1) : s + 1 \in 1 .. n /\ (s + 1) - 1 = s
    BY <1>2
  <2>2. \A s \in 0 .. (n - 1) : got[s + 1] = f[s]
    BY <1>5, <2>1
  <2>3. PagesOf(f) = {f[s] : s \in 0 .. (n - 1)}
    BY <1>2 DEF PagesOf
  <2>4. ASSUME NEW p \in {got[i] : i \in 1 .. n} PROVE p \in PagesOf(f)
    BY <1>5, <2>3
  <2>5. ASSUME NEW p \in PagesOf(f) PROVE p \in {got[i] : i \in 1 .. n}
    BY <2>1, <2>2, <2>3
  <2>6. QED
    BY <2>4, <2>5
<1>7. \A i, k \in 1 .. n : i < k => got[i] < got[k]
  <2>1. SUFFICES ASSUME NEW i \in 1 .. n, NEW k \in 1 .. n, i < k
                 PROVE  got[i] < got[k]
    OBVIOUS
  <2>2. i - 1 < k - 1
    BY <2>1
  <2>3. QED
    BY <1>1, <1>2, <1>5, <2>1, <2>2 DEF Whole
<1>8. QED
  BY <1>1, <1>2, <1>6, <1>7 DEF Whole

\* With a provider that pages steadily, a client that got as many bytes as
\* the head announced has the whole result, every page once and in order,
\* whatever was erased or expired between the statements of the handler and
\* whatever workers, crashes and retries made the result.
THEOREM DownloadsAreWhole ==
    ASSUME Stalls = {}
    PROVE  DownloadSpec => []DownloadWhole
<1>1. DownloadInit => StreamInv
  BY BareStreams DEF DownloadInit, StreamInv
<1>2. ErasureInv /\ ResultInv /\ StreamInv /\ [DownloadNext]_<<allvars, dvars>> => StreamInv'
  BY StreamStep
<1>3. StreamInv => DownloadWhole
  BY AllSent DEF StreamInv, DownloadWhole
<1>4. QED
  BY <1>1, <1>2, <1>3, DownloadIsErasure, ResultInvariant, PTL DEF DownloadSpec
=============================================================================
