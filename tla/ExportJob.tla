----------------------------- MODULE ExportJob ------------------------------
(***************************************************************************)
(* A paged export job: a worker reads the provider's pages one cursor at a *)
(* time, commits each page as a result chunk together with the cursor of   *)
(* the next one, and publishes an artifact once the last page is in.       *)
(*                                                                         *)
(* The provider (external) serves a fixed sequence of pages 0..LastPage.   *)
(* Cursor 0 is the empty cursor: it asks for page 0, and as the cursor a   *)
(* page returns it says that there is no further page.  Cursor p > 0 asks  *)
(* for page p.  The content of a chunk is the page it was made from; a     *)
(* digest of a result is the function from sequence numbers to pages.      *)
(***************************************************************************)
EXTENDS ExportResult

CONSTANTS
    LastPage,   \* the number of the provider's last page
    PageRows,   \* PageRows[p]: how many rows page p has
    Stalls      \* the pages that may come back with their own cursor

Pages == 0 .. LastPage

ASSUME ExportAssumption ==
    /\ LastPage \in Nat
    /\ PageRows \in [Pages -> Nat]
    /\ Stalls \subseteq Pages \ {0}

-----------------------------------------------------------------------------
(***************************************************************************)
(* processExport.                                                          *)
(***************************************************************************)

\* NextCursor of page p: the next page, the empty cursor after the last
\* one, or, for a provider that stalls, the cursor that asked for p.
NextCursors(p) ==
    {IF p = LastPage THEN 0 ELSE p + 1} \cup (Stalls \cap {p})

\* for seq == 0 || cursor != "": a job with chunks and no cursor has all of
\* its pages and only wants finishing.
NextStep(m) == IF m.seq = 0 \/ m.cursor # 0 THEN "page" ELSE "identity"

\* The CSV of a page is empty when it has no row and the header, written
\* with chunk 0, is already out.
HasContent(m) == m.seq = 0 \/ PageRows[m.cursor] > 0

\* The worker reads a page without content: it only moves its own cursor.
SkipPage(w, next) ==
    LET m == mem[w]
        n == [m EXCEPT !.cursor = next, !.total = @ + PageRows[m.cursor]]
    IN  /\ Processing(w) /\ step[w] = "page"
        /\ ~HasContent(m)
        /\ next \in NextCursors(m.cursor)
        /\ IF next # 0 /\ next = m.cursor
           THEN ProcessError(w) /\ UNCHANGED <<mem, step>>
           ELSE /\ mem' = [mem EXCEPT ![w] = n]
                /\ step' = [step EXCEPT ![w] = NextStep(n)]
                /\ UNCHANGED qvars
        /\ UNCHANGED <<chunks, artifacts, sha, completions>>

\* Mutant of Commit: the worker counts pages up itself instead of storing
\* the cursor that the provider returned.
CommitCounted(w, next) ==
    LET m == mem[w]
        j == item[w].job
    IN  /\ ChunkFree(j, m.seq)
        /\ Progress(w, m.total + PageRows[m.cursor], m.cursor + 1, m.seq + 1)
        /\ chunks' = [chunks EXCEPT ![j] = AddChunk(@, m.seq, m.cursor)]

\* Mutant of Commit: the chunk stays although the fenced UPDATE found no row.
CommitUnchecked(w, next) ==
    LET m == mem[w]
        j == item[w].job
    IN  /\ ChunkFree(j, m.seq)
        /\ \/ Progress(w, m.total + PageRows[m.cursor], next, m.seq + 1)
           \/ Processing(w) /\ ~fencedJob(jobs[j], w) /\ UNCHANGED qvars
        /\ chunks' = [chunks EXCEPT ![j] = AddChunk(@, m.seq, m.cursor)]

\* CommitResultPage: chunk and progress in one transaction.
Commit(w, next) ==
    LET m == mem[w]
        j == item[w].job
    IN  /\ ChunkFree(j, m.seq)
        /\ Progress(w, m.total + PageRows[m.cursor], next, m.seq + 1)
        /\ chunks' = [chunks EXCEPT ![j] = AddChunk(@, m.seq, m.cursor)]

\* The worker reads a page with content and commits it.
CommitResultPage(w, next) ==
    LET m == mem[w]
        n == [cursor |-> next, seq |-> m.seq + 1,
              total |-> m.total + PageRows[m.cursor]]
    IN  /\ step[w] = "page"
        /\ HasContent(m)
        /\ next \in NextCursors(m.cursor)
        /\ next = 0 \/ next # m.cursor
        /\ Commit(w, next)
        /\ mem' = [mem EXCEPT ![w] = n]
        /\ step' = [step EXCEPT ![w] = NextStep(n)]
        /\ UNCHANGED <<artifacts, sha, completions>>

\* The page came back with the cursor that asked for it.  It is committed
\* before the worker notices; the error is raised by the loop afterwards.
CommitStalledPage(w) ==
    LET m == mem[w]
    IN  /\ step[w] = "page"
        /\ HasContent(m)
        /\ m.cursor # 0 /\ m.cursor \in NextCursors(m.cursor)
        /\ Commit(w, m.cursor)
        /\ step' = [step EXCEPT ![w] = "stalled"]
        /\ UNCHANGED <<artifacts, mem, sha, completions>>

-----------------------------------------------------------------------------
(***************************************************************************)
(* The steps of the job queue, with the locals of processExport.           *)
(***************************************************************************)

\* Mutant of ExportClaimUpdate: a resumed export always reads a page, also
\* when the stored cursor says that there is none left.
ExportClaimRereads(w) ==
    /\ ClaimUpdate(w)
    /\ step' = [step EXCEPT ![w] = "page"]
    /\ UNCHANGED <<chunks, artifacts, mem, sha, completions>>

ExportClaimUpdate(w) ==
    /\ ClaimUpdate(w)
    /\ step' = [step EXCEPT ![w] = NextStep(mem[w])]
    /\ UNCHANGED <<chunks, artifacts, mem, sha, completions>>

-----------------------------------------------------------------------------
Init == ResultInit

ExportWorker(w) ==
    \/ \E j \in Jobs : ExportClaimSelect(w, j)
    \/ ExportClaimUpdate(w)
    \/ \E next \in Pages : SkipPage(w, next) \/ CommitResultPage(w, next)
    \/ CommitStalledPage(w)
    \/ ResultIdentity(w)
    \/ CompleteExport(w)
    \/ \E ack \in BOOLEAN : CompleteJob(w, ack)
    \/ GiveUp(w)
    \/ QueueOnly(w)

Next ==
    \/ \E j \in Jobs : (Submit(j) \/ Cancel(j)) /\ UNCHANGED evars
    \/ \E w \in Workers : ExportWorker(w)
    \/ Tick /\ UNCHANGED evars

Spec == Init /\ [][Next]_vars

-----------------------------------------------------------------------------
(***************************************************************************)
(* Properties.                                                             *)
(***************************************************************************)

Steps == {"none", "page", "stalled", "identity", "finalize", "complete"}

\* The variables stay in their types: the queue's, and chunks that hold
\* pages of the provider.
TypeOK ==
    /\ QueueTypeOK
    /\ DOMAIN chunks = Jobs
    /\ \A j \in Jobs : \A s \in DOMAIN chunks[j] : s \in Nat /\ chunks[j][s] \in Pages
    /\ \A j \in Jobs : jobs[j].cursor \in Pages
    /\ mem \in [Workers -> [cursor: Pages, seq: Nat, total: Nat]]
    /\ DOMAIN sha = Workers
    /\ step \in [Workers -> Steps]

\* result_chunks counts the chunks and they are numbered without a gap,
\* whoever wrote them: the chunk and the row commit together or not at all
\* (CommitResultPage under a lost fence, a conflict or a crash).
ChunksContiguous ==
    \A j \in Jobs : DOMAIN chunks[j] = 0 .. (jobs[j].chunks - 1)

\* The pages that yield a chunk.
ContentPages == {p \in Pages : p = 0 \/ PageRows[p] > 0}

\* The result of a provider that pages steadily holds no page twice and
\* keeps the order of the pages, over any number of claims, crashes and
\* retries; and once the job is completed it holds every page
\* (processExport resuming at checkpoint_cursor).
ExactlyOnce ==
    \A j \in Jobs :
        /\ \A s, t \in DOMAIN chunks[j] : s < t => chunks[j][s] < chunks[j][t]
        /\ jobs[j].status = "completed" =>
              {chunks[j][s] : s \in DOMAIN chunks[j]} = ContentPages

\* A provider whose cursor fails to advance now and then: the stalled page
\* is committed before the worker notices, and again by the retry, so it may
\* be there twice, but no other page is, the order of the pages is kept and
\* a completed job has them all.
OrderedDespiteStalls ==
    \A j \in Jobs :
        /\ \A s, t \in DOMAIN chunks[j] :
              s < t => \/ chunks[j][s] < chunks[j][t]
                       \/ chunks[j][s] = chunks[j][t] /\ chunks[j][s] \in Stalls
        /\ jobs[j].status = "completed" =>
              {chunks[j][s] : s \in DOMAIN chunks[j]} = ContentPages

\* A job is completed exactly when it has its one artifact, and the digest
\* the artifact was published with is that of the chunks a download will
\* read, from then on.
ArtifactIdentity ==
    /\ \A j \in Jobs : jobs[j].status = "completed" <=>
                          \E a \in artifacts : a.job = j
    /\ \A a \in artifacts : a.sha = chunks[a.job]
    /\ \A a, b \in artifacts : a.job = b.job => a = b

\* CompleteExport may be called by several workers, for a job that is then
\* cancelled or claimed over; but all the calls for a job describe one and
\* the same artifact, the one that gets published.
CompletionsAgree ==
    /\ \A c, d \in completions : c.job = d.job => c = d
    /\ \A a \in artifacts : \E c \in completions : c.job = a.job /\ c.sha = a.sha

\* Committed progress is never lost or rewritten while a job is worked on.
ProgressKept ==
    [][\A j \in Jobs :
          /\ jobs'[j].chunks >= jobs[j].chunks
          /\ jobs'[j].checkpoint >= jobs[j].checkpoint
          /\ \A s \in DOMAIN chunks[j] :
                s \in DOMAIN chunks'[j] /\ chunks'[j][s] = chunks[j][s]]_vars

(***************************************************************************)
(* The promise of an export job, and how the tables keep it.               *)
(***************************************************************************)
Phase(r) == IF r.status \in {"queued", "running"} THEN "open" ELSE r.status

Promise == INSTANCE ExportPromise WITH
    Pages     <- ContentPages,
    phase     <- [j \in Jobs |-> Phase(jobs[j])],
    result    <- chunks,
    published <- [j \in Jobs |-> {a.sha : a \in {b \in artifacts : b.job = j}}]

\* Every step of the workers, callers and clocks on the job, chunk and
\* artifact tables is a step of ExportPromise or changes nothing it sees.
KeepsPromise == Promise!Spec
=============================================================================
