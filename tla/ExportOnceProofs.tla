-------------------------- MODULE ExportOnceProofs --------------------------
(***************************************************************************)
(* Proofs about the result of a paged export: its pages are in order, none *)
(* is there twice unless the provider stalled on it, a completed export    *)
(* has all of them, and every digest that anybody was told is that of the  *)
(* chunks.  For any number of workers, jobs, pages, crashes and retries.   *)
(***************************************************************************)
EXTENDS ExportJobProofs, FiniteSetTheorems

(***************************************************************************)
(* The inductive invariant.                                                *)
(*                                                                         *)
(* The row's cursor is the one place that says how far a result has come.  *)
(* A worker level with the chunks stands at that cursor or beyond it, with *)
(* nothing but pages without content in between; a worker that is behind   *)
(* has a page in front of it that somebody else has committed, so it can   *)
(* neither commit a page nor get to the end.  In what follows r is the row *)
(* of a job, f its chunks and m the locals of a worker that holds it.      *)
(***************************************************************************)
PagesOf(f) == {f[s] : s \in DOMAIN f}

\* The pages are in order, and only a page that stalled is there twice.
PagesOrdered(f) ==
    \A s, t \in DOMAIN f :
        s < t => f[s] < f[t] \/ (f[s] = f[t] /\ f[s] \in Stalls)

\* A stored cursor: every page with content before it is in, none after it
\* is, and its own only if the provider stalled on it.  The empty cursor:
\* nothing is in yet, or everything is.
CursorTells(r, f) ==
    /\ r.cursor = 0 => r.chunks = 0 \/ ContentPages \subseteq PagesOf(f)
    /\ r.cursor # 0 =>
          /\ \A s \in DOMAIN f :
                f[s] < r.cursor \/ (f[s] = r.cursor /\ r.cursor \in Stalls)
          /\ \A p \in ContentPages : p < r.cursor => p \in PagesOf(f)

ResultTells(r, f) ==
    PagesOf(f) \subseteq ContentPages /\ PagesOrdered(f) /\ CursorTells(r, f)

\* From the stored cursor, pages without content lead to the cursor c.
Onward(stored, c) ==
    /\ stored = 0 => c = 0
    /\ c # 0 => stored <= c
    /\ stored # 0 => \A p \in ContentPages : stored <= p => c # 0 /\ c <= p

\* A worker that is level with the chunks is at the stored cursor or onward
\* of it; one that is behind has not passed the page committed in its place.
LocalsTell(m, r, f) ==
    /\ m.seq = r.chunks => Onward(r.cursor, m.cursor) /\ m.total = r.checkpoint
    /\ m.seq # 0 /\ m.seq < r.chunks => m.cursor # 0 /\ m.cursor <= f[m.seq]

\* No page with content is left to commit.
Terminal(r) ==
    /\ r.chunks # 0
    /\ r.cursor = 0 \/ \A p \in ContentPages : p < r.cursor

FinishSteps == {"identity", "finalize", "complete"}

\* Where the processExport of w is agrees with its locals; a worker that
\* finishes is level, and the digest it holds is that of the chunks.
StepTells(w) ==
    LET j == item[w].job
    IN  /\ step[w] = "page" => mem[w].seq = 0 \/ mem[w].cursor # 0
        /\ step[w] \in FinishSteps =>
              mem[w].seq = jobs[j].chunks /\ Terminal(jobs[j])
        /\ step[w] \in {"finalize", "complete"} => sha[w] = chunks[j]
        /\ step[w] = "complete" => \E c \in completions : c.job = j

\* A worker tells of any job but those that are gone.
WorkerTells(G, w) ==
    /\ pc[w] \in {"idle", "claim"} => step[w] = "none"
    /\ item[w].job \notin G =>
          /\ StepTells(w)
          /\ pc[w] # "idle" =>
                LocalsTell(mem[w], jobs[item[w].job], chunks[item[w].job])

\* What the provider was told about a job describes the result as it is.
CompletionTrue(G, c) ==
    /\ c.job \in Jobs
    /\ c.job \notin G =>
          /\ Terminal(jobs[c.job])
          /\ c = [job |-> c.job, sha |-> chunks[c.job],
                  rows |-> jobs[c.job].checkpoint, chunks |-> jobs[c.job].chunks]

\* An artifact belongs to a completed job and was announced.
ArtifactTrue(a) ==
    /\ a.job \in Jobs /\ jobs[a.job].status = "completed"
    /\ a = [job |-> a.job, sha |-> chunks[a.job]]
    /\ \E c \in completions : c.job = a.job

CompletedPublished(j) ==
    jobs[j].status = "completed" =>
        Terminal(jobs[j]) /\ \E a \in artifacts : a.job = j

OnceInv(G) ==
    /\ \A j \in Jobs : ResultTells(jobs[j], chunks[j]) /\ CompletedPublished(j)
    /\ \A w \in Workers : WorkerTells(G, w)
    /\ \A c \in completions : CompletionTrue(G, c)
    /\ \A a \in artifacts : ArtifactTrue(a)

-----------------------------------------------------------------------------
(***************************************************************************)
(* What the definitions say, for any row, chunks and locals.               *)
(***************************************************************************)

\* Pages with content are pages, and page 0 is one of them.
LEMMA ContentTypes ==
    /\ 0 \in ContentPages
    /\ \A p \in ContentPages : p \in Nat /\ p <= LastPage
    /\ \A p \in Pages : p # 0 /\ p \notin ContentPages => PageRows[p] = 0
    /\ LastPage \in Nat
BY ExportAssumption, PageTypes DEF ContentPages, Pages

\* A worker at the empty cursor that has chunks is level and all is in.
LEMMA EmptyCursorEnds ==
    ASSUME NEW m, NEW r, NEW f, LocalsTell(m, r, f),
           m.seq \in Nat, r.chunks \in Nat, r.cursor \in Nat,
           m.seq <= r.chunks, m.seq # 0, m.cursor = 0
    PROVE  m.seq = r.chunks /\ Terminal(r)
<1>1. m.seq = r.chunks
  BY DEF LocalsTell
<1>2. Onward(r.cursor, 0)
  BY <1>1 DEF LocalsTell
<1>3. QED
  BY <1>1, <1>2, ContentTypes DEF Onward, Terminal

\* A terminal result has every page with content.
LEMMA TerminalHasAll ==
    ASSUME NEW r, NEW f, CursorTells(r, f), Terminal(r)
    PROVE  ContentPages \subseteq PagesOf(f)
BY DEF CursorTells, Terminal

\* The successor of a page.
LEMMA NextCursorIs ==
    ASSUME NEW c \in Pages, NEW next \in NextCursors(c)
    PROVE  /\ next \in Pages
           /\ \/ next = 0 /\ c = LastPage
              \/ next = c + 1 /\ c < LastPage
              \/ next = c /\ c \in Stalls /\ c # 0
BY ExportAssumption DEF NextCursors, Pages

\* A page without content leads onward.
LEMMA SkipOnward ==
    ASSUME NEW stored \in Nat, NEW c \in Pages, NEW next \in NextCursors(c),
           Onward(stored, c), c # 0, c \notin ContentPages, next = 0 \/ next # c
    PROVE  Onward(stored, next)
<1>1. (next = 0 /\ c = LastPage) \/ (next = c + 1 /\ c < LastPage)
  BY NextCursorIs
<1>2. stored # 0 /\ stored <= c /\ c \in Nat /\ c <= LastPage
  BY ContentTypes DEF Onward, Pages
<1>3. \A p \in ContentPages : stored <= p => c < p
  BY <1>2, ContentTypes DEF Onward
<1>4. CASE next = 0 /\ c = LastPage
  BY <1>2, <1>3, <1>4, ContentTypes DEF Onward
<1>5. CASE next = c + 1 /\ c < LastPage
  BY <1>2, <1>3, <1>5, ContentTypes DEF Onward
<1>6. QED
  BY <1>1, <1>4, <1>5

\* The locals of a worker that is level and about to commit a page.
Committing(m, r) ==
    /\ m.seq = r.chunks
    /\ Onward(r.cursor, m.cursor)
    /\ m.seq = 0 \/ m.cursor # 0
    /\ m.seq = 0 \/ PageRows[m.cursor] > 0

\* It commits the next page with content, and the result was not terminal.
LEMMA CommittingPage ==
    ASSUME NEW m, NEW r, NEW f, m.cursor \in Pages, r.cursor \in Nat, r.chunks \in Nat,
           DOMAIN f = 0 .. (r.chunks - 1), CursorTells(r, f), Committing(m, r)
    PROVE  /\ m.cursor \in ContentPages /\ ~Terminal(r)
           /\ r.chunks = 0 => r.cursor = 0 /\ m.cursor = 0
           /\ r.chunks # 0 => r.cursor # 0 /\ r.cursor <= m.cursor
<1>1. CASE r.chunks = 0
  <2>1. PagesOf(f) = {}
    BY <1>1 DEF PagesOf
  <2>2. r.cursor = 0
    BY <2>1, ContentTypes DEF CursorTells
  <2>3. m.cursor = 0
    BY <2>2 DEF Committing, Onward
  <2>4. QED
    BY <1>1, <2>2, <2>3, ContentTypes DEF Terminal
<1>2. CASE r.chunks # 0
  <2>1. m.cursor # 0 /\ PageRows[m.cursor] > 0
    BY <1>2 DEF Committing
  <2>2. r.cursor # 0 /\ r.cursor <= m.cursor
    BY <2>1 DEF Committing, Onward
  <2>3. m.cursor \in ContentPages /\ m.cursor \in Nat
    BY <2>1, PageTypes DEF ContentPages
  <2>4. QED
    BY <1>2, <2>2, <2>3 DEF Terminal
<1>3. QED
  BY <1>1, <1>2

\* The page is the one that comes next after the pages in the result.
LEMMA CommittingIsNext ==
    ASSUME NEW m, NEW r, NEW f, m.cursor \in Pages, r.cursor \in Nat, r.chunks \in Nat,
           DOMAIN f = 0 .. (r.chunks - 1), ResultTells(r, f), Committing(m, r)
    PROVE  /\ \A s \in DOMAIN f :
                 f[s] < m.cursor \/ (f[s] = m.cursor /\ m.cursor \in Stalls)
           /\ \A p \in ContentPages : p < m.cursor => p \in PagesOf(f)
<1>1. /\ m.cursor \in ContentPages /\ m.cursor \in Nat
      /\ r.chunks = 0 => r.cursor = 0 /\ m.cursor = 0
      /\ r.chunks # 0 => r.cursor # 0 /\ r.cursor <= m.cursor
  BY CommittingPage, PageTypes DEF ResultTells
<1>2. \A s \in DOMAIN f : f[s] \in Nat
  BY ContentTypes DEF ResultTells, PagesOf
<1>3. CASE r.chunks = 0
  BY <1>1, <1>3, ContentTypes
<1>4. CASE r.chunks # 0
  <2>1. \A s \in DOMAIN f :
           f[s] < m.cursor \/ (f[s] = m.cursor /\ m.cursor \in Stalls)
    BY <1>1, <1>2, <1>4 DEF ResultTells, CursorTells
  <2>2. \A p \in ContentPages : p < m.cursor => p \in PagesOf(f)
    BY <1>1, <1>4, ContentTypes DEF ResultTells, CursorTells, Committing, Onward
  <2>3. QED
    BY <2>1, <2>2
<1>5. QED
  BY <1>3, <1>4

\* The chunk it adds.
LEMMA AddedChunk ==
    ASSUME NEW f, NEW n \in Nat, NEW p \in Nat, DOMAIN f = 0 .. (n - 1)
    PROVE  /\ DOMAIN AddChunk(f, n, p) = 0 .. n
           /\ AddChunk(f, n, p)[n] = p
           /\ \A s \in 0 .. (n - 1) : AddChunk(f, n, p)[s] = f[s]
           /\ PagesOf(AddChunk(f, n, p)) = PagesOf(f) \cup {p}
<1> DEFINE g == AddChunk(f, n, p)
<1>1. g = [s \in (0 .. (n - 1)) \cup {n} |-> IF s = n THEN p ELSE f[s]]
  BY DEF AddChunk
<1>2. (0 .. (n - 1)) \cup {n} = 0 .. n /\ n \notin 0 .. (n - 1)
  OBVIOUS
<1> HIDE DEF g
<1>3. /\ DOMAIN g = 0 .. n /\ g[n] = p
      /\ \A s \in 0 .. (n - 1) : g[s] = f[s]
  BY <1>1, <1>2
<1>4. PagesOf(g) = PagesOf(f) \cup {p}
  BY <1>2, <1>3 DEF PagesOf
<1>5. QED
  BY <1>3, <1>4 DEF g

\* The result and the row after the commit tell what they should.
LEMMA CommittedTells ==
    ASSUME NEW m, NEW r, NEW f, m.cursor \in Pages, r.cursor \in Nat, r.chunks \in Nat,
           DOMAIN f = 0 .. (r.chunks - 1), ResultTells(r, f), Committing(m, r),
           NEW next \in NextCursors(m.cursor),
           NEW q, q.cursor = next, q.chunks = r.chunks + 1
    PROVE  ResultTells(q, AddChunk(f, r.chunks, m.cursor))
<1> DEFINE n == r.chunks
           c == m.cursor
           g == AddChunk(f, n, c)
<1>1. /\ c \in ContentPages /\ c \in Nat /\ n \in Nat
      /\ n = 0 => r.cursor = 0 /\ c = 0
      /\ n # 0 => r.cursor # 0 /\ r.cursor <= c
  BY CommittingPage, PageTypes DEF ResultTells
<1>2. /\ DOMAIN g = 0 .. n /\ g[n] = c
      /\ \A s \in 0 .. (n - 1) : g[s] = f[s]
      /\ PagesOf(g) = PagesOf(f) \cup {c}
  <2>1. DOMAIN f = 0 .. (n - 1)
    OBVIOUS
  <2>2. n \in Nat /\ c \in Nat
    BY <1>1
  <2> HIDE DEF n, c
  <2>. QED
    BY ONLY <2>1, <2>2, AddedChunk DEF g
<1>3. \A s \in DOMAIN f : f[s] \in Nat
  BY ContentTypes DEF ResultTells, PagesOf
<1>4. \A s \in DOMAIN f : f[s] < c \/ (f[s] = c /\ c \in Stalls)
  BY CommittingIsNext
<1>5. \A p \in ContentPages : p < c => p \in PagesOf(f)
  BY CommittingIsNext
<1> HIDE DEF g, n, c
<1>6. PagesOf(g) \subseteq ContentPages
  BY <1>1, <1>2 DEF ResultTells
<1>7. DOMAIN f = 0 .. (n - 1)
  BY DEF n
<1>8. PagesOrdered(g)
  <2>1. SUFFICES ASSUME NEW s \in 0 .. n, NEW t \in 0 .. n, s < t
                 PROVE  g[s] < g[t] \/ (g[s] = g[t] /\ g[s] \in Stalls)
    BY <1>2 DEF PagesOrdered
  <2>2. s \in 0 .. (n - 1) /\ g[s] = f[s]
    BY <1>1, <1>2, <2>1
  <2>3. CASE t = n
    BY <1>2, <1>4, <1>7, <2>2, <2>3
  <2>4. CASE t # n
    <3>1. t \in 0 .. (n - 1) /\ g[t] = f[t]
      BY <1>1, <1>2, <2>4
    <3>2. QED
      BY <1>7, <2>1, <2>2, <3>1 DEF ResultTells, PagesOrdered
  <2>5. QED
    BY <2>3, <2>4
<1>9. \/ next = 0 /\ c = LastPage
      \/ next = c + 1
      \/ next = c /\ c \in Stalls /\ c # 0
  BY NextCursorIs DEF c
<1>10. CursorTells(q, g)
  <2>1. CASE next = 0 /\ c = LastPage
    <3>1. ContentPages \subseteq PagesOf(g)
      BY <1>1, <1>2, <1>5, <2>1, ContentTypes
    <3>2. QED
      BY <2>1, <3>1 DEF CursorTells
  <2>2. CASE next = c + 1 \/ (next = c /\ c \in Stalls /\ c # 0)
    <3>1. \A s \in DOMAIN g : g[s] < next \/ (g[s] = next /\ next \in Stalls)
      <4>1. SUFFICES ASSUME NEW s \in 0 .. n
                     PROVE  g[s] < next \/ (g[s] = next /\ next \in Stalls)
        BY <1>2
      <4>2. CASE s = n
        BY <1>1, <1>2, <2>2, <4>2
      <4>3. CASE s # n
        <5>1. s \in 0 .. (n - 1) /\ g[s] = f[s]
          BY <1>1, <1>2, <4>3
        <5>2. QED
          BY <1>1, <1>3, <1>4, <1>7, <2>2, <5>1
      <4>4. QED
        BY <4>2, <4>3
    <3>2. \A p \in ContentPages : p < next => p \in PagesOf(g)
      BY <1>1, <1>2, <1>5, <2>2, ContentTypes
    <3>3. next # 0
      BY <1>1, <2>2
    <3>4. QED
      BY <3>1, <3>2, <3>3 DEF CursorTells
  <2>3. QED
    BY <1>9, <2>1, <2>2
<1>11. QED
  BY <1>6, <1>8, <1>10 DEF ResultTells, g, n, c

-----------------------------------------------------------------------------
(***************************************************************************)
(* Steps that commit nothing.                                              *)
(***************************************************************************)

\* The definitions look at the progress columns of a row only.
LEMMA SameProgress ==
    ASSUME NEW r, NEW q, q.cursor = r.cursor, q.chunks = r.chunks,
           q.checkpoint = r.checkpoint
    PROVE  /\ Terminal(q) <=> Terminal(r)
           /\ \A f : ResultTells(r, f) => ResultTells(q, f)
           /\ \A m, f : LocalsTell(m, r, f) => LocalsTell(m, q, f)
BY DEF Terminal, ResultTells, CursorTells, LocalsTell

\* A worker whose locals, job and place stay; it may have met an error.
Stays(v) ==
    /\ mem'[v] = mem[v] /\ sha'[v] = sha[v] /\ step'[v] = step[v]
    /\ item'[v].job = item[v].job
    /\ pc'[v] = "idle" <=> pc[v] = "idle"
    /\ pc'[v] = "claim" => pc[v] = "claim"

\* Such a worker goes on telling the truth if nothing is committed.
LEMMA StayingTells ==
    ASSUME NEW G, TypeOK, NoCommit, NEW v \in Workers, WorkerTells(G, v), Stays(v),
           completions \subseteq completions'
    PROVE  WorkerTells(G, v)'
<1>1. CASE pc[v] = "idle"
  <2>1. pc'[v] = "idle" /\ step'[v] = "none"
    BY <1>1 DEF Stays, WorkerTells, StepTells
  <2>2. QED
    BY <2>1 DEF WorkerTells, StepTells, FinishSteps
<1>2. CASE pc[v] # "idle" /\ item[v].job \notin G
  <2>1. PICK j \in Jobs : j = item[v].job
    BY <1>2 DEF TypeOK, QueueTypeOK
  <2>2. /\ jobs'[j].cursor = jobs[j].cursor /\ jobs'[j].chunks = jobs[j].chunks
        /\ jobs'[j].checkpoint = jobs[j].checkpoint /\ chunks' = chunks
    BY DEF NoCommit, ProgressKeeps
  <2>3. /\ Terminal(jobs'[j]) <=> Terminal(jobs[j])
        /\ \A m, f : LocalsTell(m, jobs[j], f) => LocalsTell(m, jobs'[j], f)
    BY <2>2, SameProgress
  <2>4. LocalsTell(mem'[v], jobs'[j], chunks'[j])
    BY <1>2, <2>1, <2>2, <2>3 DEF WorkerTells, Stays
  <2>5. StepTells(v)'
    BY <1>2, <2>1, <2>2, <2>3 DEF WorkerTells, Stays, StepTells
  <2>6. QED
    BY <2>1, <2>4, <2>5 DEF WorkerTells, Stays
<1>3. CASE item[v].job \in G
  BY <1>3 DEF WorkerTells, Stays
<1>4. QED
  BY <1>1, <1>2, <1>3

\* A worker that has let go of its job has nothing to tell.
LEMMA IdleTells ==
    ASSUME NEW G, NEW v \in Workers, pc'[v] = "idle", step'[v] = "none"
    PROVE  WorkerTells(G, v)'
BY DEF WorkerTells, StepTells, FinishSteps

\* No job is completed, or brought back from it.
CompletedKept ==
    \A j \in Jobs : jobs'[j].status = "completed" <=> jobs[j].status = "completed"

\* A step that neither commits nor completes keeps the invariant if it keeps
\* that of the workers and says nothing untrue to the provider.
LEMMA QuietKeepsOnce ==
    ASSUME NEW G, TypeOK, OnceInv(G), NoCommit, CompletedKept, artifacts' = artifacts,
           completions \subseteq completions',
           \A v \in Workers : WorkerTells(G, v)',
           \A c \in completions' \ completions : CompletionTrue(G, c)'
    PROVE  OnceInv(G)'
<1>1. \A j \in Jobs :
         /\ jobs'[j].cursor = jobs[j].cursor /\ jobs'[j].chunks = jobs[j].chunks
         /\ jobs'[j].checkpoint = jobs[j].checkpoint /\ chunks' = chunks
  BY DEF NoCommit, ProgressKeeps
<1>2. \A j \in Jobs : /\ Terminal(jobs'[j]) <=> Terminal(jobs[j])
                      /\ ResultTells(jobs[j], chunks[j]) => ResultTells(jobs'[j], chunks[j])
  BY <1>1, SameProgress
<1>3. ASSUME NEW j \in Jobs
      PROVE  ResultTells(jobs'[j], chunks'[j]) /\ CompletedPublished(j)'
  <2>1. ResultTells(jobs'[j], chunks'[j])
    BY <1>1, <1>2 DEF OnceInv
  <2>2. CompletedPublished(j)'
    BY <1>2 DEF OnceInv, CompletedPublished, CompletedKept
  <2>3. QED
    BY <2>1, <2>2
<1>4. ASSUME NEW c \in completions PROVE CompletionTrue(G, c)'
  BY <1>1, <1>2 DEF OnceInv, CompletionTrue
<1>5. ASSUME NEW a \in artifacts PROVE ArtifactTrue(a)'
  BY <1>1 DEF OnceInv, ArtifactTrue, CompletedKept
<1>6. QED
  BY <1>3, <1>4, <1>5 DEF OnceInv

\* Of the queue's steps only a completion completes.
LEMMA StepKeepsCompleted ==
    ASSUME QueueTypeOK, NEW w \in Workers,
           \/ \E j \in Jobs : ClaimSelect(w, j)
           \/ ClaimUpdate(w) \/ ClaimMissed(w) \/ Heartbeat(w) \/ Interrupt(w)
           \/ ProcessError(w) \/ Fail(w) \/ FailStale(w) \/ Crash(w)
    PROVE  CompletedKept
<1> USE DEF QueueTypeOK
<1>1. CASE ClaimUpdate(w)
  <2>1. PICK k \in Jobs, t \in Nat : k = item[w].job /\ t = item[w].at
    BY <1>1 DEF ClaimUpdate, WorkItem
  <2>2. jobs' = [jobs EXCEPT ![k] = Claimed(jobs[k], w, t)]
    BY <1>1, <2>1 DEF ClaimUpdate
  <2>3. Claimed(jobs[k], w, t).status = "running"
    BY ClaimedRow
  <2>4. jobs[k].status \in {"queued", "running"}
    BY <1>1, <2>1 DEF ClaimUpdate, Claimable, ReadyQueued, LeaseExpired
  <2>5. QED
    BY <2>2, <2>3, <2>4 DEF CompletedKept
<1>2. CASE Heartbeat(w)
  <2>1. item[w].job \in Jobs /\ Now(w) + LeaseTTL[w] \in Nat
    BY <1>2, NowType DEF Heartbeat, Processing
  <2>2. QED
    BY <1>2, <2>1, RenewedRow DEF Heartbeat, CompletedKept
<1>3. CASE Fail(w)
  <2>1. PICK k \in Jobs, r \in JobRow, n \in Nat, now \in Nat :
           k = item[w].job /\ r = jobs[k] /\ n = item[w].attempts /\ now = item[w].at
    BY <1>3 DEF Fail, WorkItem
  <2>2. /\ jobs' = [jobs EXCEPT ![k] = Failed(r, n, now)]
        /\ jobs[k].status = "running"
    BY <1>3, <2>1 DEF Fail, fencedJob
  <2>3. Failed(r, n, now).status \in {"queued", "failed"}
    BY FailedRow
  <2>4. QED
    BY <2>2, <2>3 DEF CompletedKept
<1>4. CASE \/ \E j \in Jobs : ClaimSelect(w, j)
           \/ ClaimMissed(w) \/ Interrupt(w) \/ ProcessError(w)
           \/ FailStale(w) \/ Crash(w)
  BY <1>4 DEF ClaimSelect, ClaimMissed, Interrupt, ProcessError, FailStale,
              Crash, CompletedKept
<1>5. QED
  BY <1>1, <1>2, <1>3, <1>4

\* Only w does something that its locals show.
LEMMA OthersTell ==
    ASSUME NEW G, TypeOK, OnceInv(G), NoCommit, NEW w \in Workers, WorkerTells(G, w)',
           \A v \in Workers \ {w} : Stays(v), completions \subseteq completions'
    PROVE  \A v \in Workers : WorkerTells(G, v)'
BY StayingTells DEF OnceInv

\* A claim's SELECT reads the row's cursor.
LEMMA SelectOnce ==
    ASSUME NEW G, ChunkInv(G), OnceInv(G), NEW w \in Workers, NEW j \in Jobs,
           ExportClaimSelect(w, j)
    PROVE  OnceInv(G)'
<1> USE DEF ChunkInv
<1>1. ClaimSelect(w, j) /\ NoCommit /\ CompletedKept
  <2>1. ClaimSelect(w, j) /\ Quiet
    BY SelectIsQuiet DEF ExportClaimSelect
  <2>2. QED
    BY <2>1, StepKeepsCompleted DEF Quiet, TypeOK
<1>2. /\ pc[w] = "idle" /\ pc'[w] = "claim" /\ item'[w].job = j
      /\ jobs' = jobs /\ chunks' = chunks
      /\ UNCHANGED <<artifacts, completions, sha, step>>
      /\ \A v \in Workers \ {w} : Stays(v)
  BY DEF ExportClaimSelect, ClaimSelect, TypeOK, QueueTypeOK, Stays
<1>3. /\ mem'[w].cursor = jobs[j].cursor /\ mem'[w].seq = jobs[j].chunks
      /\ mem'[w].total = jobs[j].checkpoint
  BY DEF ExportClaimSelect, TypeOK
<1>4. Onward(jobs[j].cursor, jobs[j].cursor)
  BY DEF Onward, TypeOK, QueueTypeOK, JobRow
<1>5. ~(jobs[j].chunks < jobs[j].chunks)
  BY DEF TypeOK, QueueTypeOK, JobRow
<1>6. LocalsTell(mem'[w], jobs'[j], chunks'[j])
  BY <1>2, <1>3, <1>4, <1>5 DEF LocalsTell
<1>7. step'[w] = "none"
  BY <1>2 DEF OnceInv, WorkerTells, StepTells
<1>8. WorkerTells(G, w)'
  BY <1>2, <1>6, <1>7 DEF WorkerTells, StepTells, FinishSteps
<1>9. QED
  BY <1>1, <1>2, <1>8, OthersTell, QuietKeepsOnce

\* A successful claim reads a page or, if the stored cursor is empty and
\* there are chunks, finishes the result.
LEMMA UpdateOnce ==
    ASSUME NEW G, ChunkInv(G), OnceInv(G), NEW w \in Workers, ExportClaimUpdate(w)
    PROVE  OnceInv(G)'
<1> USE DEF ChunkInv
<1>1. NoCommit /\ CompletedKept
  <2>1. ClaimUpdate(w) /\ Quiet
    BY UpdateIsQuiet DEF ExportClaimUpdate
  <2>2. QED
    BY <2>1, StepKeepsCompleted DEF Quiet, TypeOK
<1>2. /\ pc[w] = "claim" /\ pc'[w] = "process"
      /\ UNCHANGED <<chunks, mem, artifacts, completions, sha>>
      /\ step'[w] = NextStep(mem[w])
      /\ \A v \in Workers \ {w} : Stays(v)
  BY DEF ExportClaimUpdate, ClaimUpdate, TypeOK, QueueTypeOK, Stays
<1>3. item'[w].job = item[w].job
  BY ClaimedItem DEF ExportClaimUpdate, ClaimUpdate, TypeOK, QueueTypeOK
<1>4. PICK j \in Jobs : j = item[w].job /\ j \notin G
  <2>1. jobs[item[w].job].status \in {"queued", "running"}
    BY DEF ExportClaimUpdate, ClaimUpdate, Claimable, ReadyQueued, LeaseExpired
  <2>2. QED
    BY <1>2, <2>1 DEF TypeOK, QueueTypeOK, AllEnded, Ended
<1>5. /\ jobs'[j].cursor = jobs[j].cursor /\ jobs'[j].chunks = jobs[j].chunks
      /\ jobs'[j].checkpoint = jobs[j].checkpoint
  BY <1>1 DEF NoCommit, ProgressKeeps
<1>6. /\ LocalsTell(mem[w], jobs[j], chunks[j])
      /\ LocalsTell(mem[w], jobs'[j], chunks[j])
  BY <1>2, <1>4, <1>5, SameProgress DEF OnceInv, WorkerTells
<1>7. /\ mem[w].seq \in Nat /\ jobs'[j].chunks \in Nat /\ jobs'[j].cursor \in Nat
      /\ mem[w].seq <= jobs'[j].chunks
  BY <1>2, <1>4, <1>5 DEF TypeOK, QueueTypeOK, JobRow, SeqBounded
<1>8. step'[w] = "identity" => mem[w].seq = jobs'[j].chunks /\ Terminal(jobs'[j])
  BY <1>2, <1>6, <1>7, EmptyCursorEnds DEF NextStep
<1>9. /\ step'[w] \in {"page", "identity"}
      /\ step'[w] = "page" => mem[w].seq = 0 \/ mem[w].cursor # 0
  BY <1>2 DEF NextStep
<1>10. WorkerTells(G, w)'
  BY <1>2, <1>3, <1>4, <1>6, <1>8, <1>9 DEF WorkerTells, StepTells, FinishSteps
<1>11. QED
  BY <1>1, <1>2, <1>10, OthersTell, QuietKeepsOnce

\* The digest is taken over the chunks.
LEMMA IdentityOnce ==
    ASSUME NEW G, ChunkInv(G), OnceInv(G), NEW w \in Workers, ResultIdentity(w)
    PROVE  OnceInv(G)'
<1> USE DEF ChunkInv
<1>1. NoCommit /\ CompletedKept
  BY DEF ResultIdentity, qvars, NoCommit, ProgressKeeps, CompletedKept
<1>2. /\ pc[w] = "process" /\ step[w] = "identity"
      /\ UNCHANGED <<jobs, pc, item, chunks, mem, artifacts, completions>>
      /\ step'[w] = "finalize" /\ sha'[w] = chunks[item[w].job]
      /\ \A v \in Workers \ {w} : Stays(v)
  BY DEF ResultIdentity, Processing, qvars, TypeOK, QueueTypeOK, Stays
<1>3. WorkerTells(G, w)'
  BY <1>2 DEF OnceInv, WorkerTells, StepTells, FinishSteps
<1>4. QED
  BY <1>1, <1>2, <1>3, OthersTell, QuietKeepsOnce

\* The provider is told of the result as it is and stays.
LEMMA CompleteExportOnce ==
    ASSUME NEW G, ChunkInv(G), OnceInv(G), NEW w \in Workers, CompleteExport(w)
    PROVE  OnceInv(G)'
<1> USE DEF ChunkInv
<1>1. NoCommit /\ CompletedKept
  BY DEF CompleteExport, qvars, NoCommit, ProgressKeeps, CompletedKept
<1>0. PICK told : told = [job |-> item[w].job, sha |-> sha[w],
                         rows |-> mem[w].total, chunks |-> mem[w].seq]
  OBVIOUS
<1>2. /\ pc[w] = "process" /\ step[w] = "finalize"
      /\ UNCHANGED <<jobs, pc, item, chunks, mem, artifacts, sha>>
      /\ step'[w] = "complete" /\ completions' = completions \cup {told}
      /\ \A v \in Workers \ {w} : Stays(v)
  BY <1>0 DEF CompleteExport, qvars, TypeOK, QueueTypeOK, Stays
<1>3. PICK j \in Jobs : j = item[w].job
  BY <1>2 DEF TypeOK, QueueTypeOK
<1>4. j \notin G => /\ sha[w] = chunks[j] /\ mem[w].seq = jobs[j].chunks
                     /\ Terminal(jobs[j]) /\ mem[w].total = jobs[j].checkpoint
  BY <1>2, <1>3 DEF OnceInv, WorkerTells, StepTells, FinishSteps, LocalsTell
<1>5. /\ told.job = j
      /\ j \notin G => told = [job |-> j, sha |-> chunks[j],
                               rows |-> jobs[j].checkpoint, chunks |-> jobs[j].chunks]
  BY <1>0, <1>3, <1>4
<1>6. CompletionTrue(G, told)'
  BY <1>2, <1>4, <1>5 DEF CompletionTrue
<1>7. WorkerTells(G, w)'
  BY <1>2, <1>3, <1>5 DEF OnceInv, WorkerTells, StepTells, FinishSteps
<1>8. QED
  BY <1>1, <1>2, <1>6, <1>7, OthersTell, QuietKeepsOnce

\* A page without content moves the worker's own cursor onward.
LEMMA SkipOnce ==
    ASSUME NEW G, ChunkInv(G), OnceInv(G), NEW w \in Workers, NEW next \in Pages,
           SkipPage(w, next)
    PROVE  OnceInv(G)'
<1> USE DEF ChunkInv
<1>1. NoCommit
  BY SkipIsQuiet DEF Quiet
<1>2. UNCHANGED <<chunks, artifacts, sha, completions>>
  BY DEF SkipPage
<1>3. /\ pc[w] = "process" /\ step[w] = "page" /\ ~HasContent(mem[w])
      /\ next \in NextCursors(mem[w].cursor)
  BY DEF SkipPage, Processing
<1>4. CASE next # 0 /\ next = mem[w].cursor
  <2>1. ProcessError(w) /\ UNCHANGED <<mem, step>>
    BY <1>4 DEF SkipPage
  <2>2. CompletedKept
    BY <2>1, StepKeepsCompleted DEF TypeOK
  <2>3. \A v \in Workers : Stays(v)
    BY <1>2, <2>1, ErrorShape DEF KeepsClaim, TypeOK, Stays
  <2>4. QED
    BY <1>1, <1>2, <2>2, <2>3, StayingTells, QuietKeepsOnce DEF OnceInv
<1>5. CASE next = 0 \/ next # mem[w].cursor
  <2>1. PICK m \in Locals : m = mem[w]
    BY DEF TypeOK, Locals
  <2>2. PICK n \in Locals :
           n = [m EXCEPT !.cursor = next, !.total = @ + PageRows[m.cursor]]
    BY PageLocals
  <2>3. /\ UNCHANGED qvars
        /\ mem' = [mem EXCEPT ![w] = n]
        /\ step' = [step EXCEPT ![w] = NextStep(n)]
    BY <1>5, <2>1, <2>2 DEF SkipPage
  <2>4. /\ mem'[w] = n /\ step'[w] = NextStep(n)
        /\ UNCHANGED <<jobs, pc, item>>
        /\ \A v \in Workers \ {w} : Stays(v)
    BY <1>2, <2>3 DEF TypeOK, qvars, Stays
  <2>5. CompletedKept
    BY <2>4 DEF CompletedKept
  <2>6. PICK j \in Jobs : j = item[w].job
    BY <1>3 DEF TypeOK, QueueTypeOK
  <2>0. CASE j \in G
    <3>1. WorkerTells(G, w)'
      BY <1>3, <2>0, <2>4, <2>6 DEF WorkerTells
    <3>2. QED
      BY <1>1, <1>2, <2>4, <2>5, <3>1, OthersTell, QuietKeepsOnce
  <2> SUFFICES ASSUME j \notin G PROVE OnceInv(G)'
    BY <2>0
  <2>7. m.seq # 0 /\ m.cursor # 0 /\ m.cursor \in Pages /\ ~(PageRows[m.cursor] > 0)
    BY <1>3, <2>1, <2>6 DEF OnceInv, WorkerTells, StepTells, HasContent, Locals
  <2>8. PageRows[m.cursor] = 0 /\ m.cursor \notin ContentPages
    <3>1. PageRows[m.cursor] \in Nat
      BY <2>7, PageTypes
    <3>2. QED
      BY <2>7, <3>1 DEF ContentPages
  <2>9. n.cursor = next /\ n.seq = m.seq /\ n.total = m.total
    <3>1. m.total \in Nat /\ m.total + 0 = m.total
      BY DEF Locals
    <3>2. n = [m EXCEPT !.cursor = next, !.total = m.total]
      BY <2>2, <2>8, <3>1
    <3>3. QED
      BY <3>2 DEF Locals
  <2>10. LocalsTell(m, jobs[j], chunks[j])
    BY <1>3, <2>1, <2>6 DEF OnceInv, WorkerTells
  <2>11. /\ jobs[j].cursor \in Nat /\ jobs[j].chunks \in Nat /\ m.seq \in Nat
         /\ m.seq <= jobs[j].chunks
    BY <1>3, <2>1, <2>6 DEF TypeOK, QueueTypeOK, JobRow, SeqBounded
  <2>12. LocalsTell(n, jobs[j], chunks[j])
    <3>1. CASE m.seq = jobs[j].chunks
      <4>1. Onward(jobs[j].cursor, next)
        BY <1>3, <1>5, <2>1, <2>7, <2>8, <2>10, <2>11, <3>1, SkipOnward
        DEF LocalsTell
      <4>2. QED
        BY <2>9, <2>10, <2>11, <3>1, <4>1 DEF LocalsTell
    <3>2. CASE m.seq < jobs[j].chunks
      <4>1. m.cursor <= chunks[j][m.seq] /\ m.seq \in DOMAIN chunks[j]
        BY <2>7, <2>10, <2>11, <3>2 DEF LocalsTell, ChunksContiguous
      <4>2. chunks[j][m.seq] \in ContentPages
        BY <4>1 DEF OnceInv, ResultTells, PagesOf
      <4>3. /\ m.cursor < chunks[j][m.seq] /\ chunks[j][m.seq] <= LastPage
            /\ m.cursor \in Nat /\ chunks[j][m.seq] \in Nat
        <5>1. /\ m.cursor \in Nat /\ chunks[j][m.seq] \in Nat
              /\ chunks[j][m.seq] <= LastPage
          BY <2>7, <4>2, ContentTypes, PageTypes
        <5>2. m.cursor # chunks[j][m.seq]
          BY <2>8, <4>2
        <5>3. QED
          BY <4>1, <5>1, <5>2
      <4>4. next = m.cursor + 1
        BY <1>3, <1>5, <2>1, <2>7, <4>3, NextCursorIs, ContentTypes
      <4>5. QED
        BY <2>7, <2>9, <2>11, <3>2, <4>3, <4>4 DEF LocalsTell
    <3>3. QED
      BY <2>11, <3>1, <3>2
  <2>13. step'[w] = "identity" => n.seq = jobs[j].chunks /\ Terminal(jobs[j])
    BY <2>4, <2>7, <2>9, <2>11, <2>12, EmptyCursorEnds DEF NextStep
  <2>14. /\ step'[w] \in {"page", "identity"}
         /\ step'[w] = "page" => n.seq = 0 \/ n.cursor # 0
    BY <2>4 DEF NextStep
  <2>15. WorkerTells(G, w)'
    BY <1>2, <1>3, <2>4, <2>6, <2>12, <2>13, <2>14
    DEF WorkerTells, StepTells, FinishSteps
  <2>16. QED
    BY <1>1, <1>2, <2>4, <2>5, <2>15, OthersTell, QuietKeepsOnce
<1>6. QED
  BY <1>4, <1>5

\* A worker that gives up tells nothing.
LEMMA GiveUpOnce ==
    ASSUME NEW G, ChunkInv(G), OnceInv(G), NEW w \in Workers, GiveUp(w)
    PROVE  OnceInv(G)'
<1> USE DEF ChunkInv
<1>1. NoCommit
  BY GiveUpIsQuiet DEF Quiet
<1>2. CompletedKept
  BY StepKeepsCompleted DEF GiveUp, TypeOK
<1>3. Idle(w) /\ ResetLocals(w) /\ UNCHANGED <<artifacts, completions>>
  BY DEF GiveUp, ClaimMissed, Fail, FailStale, Crash
<1>4. pc'[w] = "idle" /\ step'[w] = "none" /\ \A v \in Workers \ {w} : Stays(v)
  BY <1>3 DEF Idle, ResetLocals, TypeOK, QueueTypeOK, Stays
<1>5. QED
  BY <1>1, <1>2, <1>3, <1>4, IdleTells, OthersTell, QuietKeepsOnce

\* Heartbeats, interruptions, errors, cancellations and time change nothing
\* that the invariant looks at.
LEMMA SteadyOnce ==
    ASSUME NEW G, ChunkInv(G), OnceInv(G), UNCHANGED evars,
           \/ \E w \in Workers : Heartbeat(w) \/ Interrupt(w) \/ ProcessError(w)
           \/ \E j \in Jobs : Cancel(j)
           \/ Tick \/ UNCHANGED qvars
    PROVE  OnceInv(G)'
<1> USE DEF ChunkInv
<1>1. NoCommit /\ CompletedKept /\ \A v \in Workers : Stays(v)
  <2>1. ASSUME NEW w \in Workers, Heartbeat(w) \/ Interrupt(w) \/ ProcessError(w)
        PROVE  NoCommit /\ CompletedKept /\ \A v \in Workers : Stays(v)
    <3>1. NoCommit /\ CompletedKept
      BY <2>1, WorkerKeepsProgress, StepKeepsCompleted
      DEF NoCommit, TokenInv, TypeOK, evars
    <3>2. \A v \in Workers : Stays(v)
      <4>1. CASE ProcessError(w)
        BY <4>1, ErrorShape DEF KeepsClaim, TypeOK, Stays, evars
      <4>2. CASE Heartbeat(w) \/ Interrupt(w)
        BY <4>2 DEF Heartbeat, Interrupt, Stays, evars
      <4>3. QED
        BY <2>1, <4>1, <4>2
    <3>3. QED
      BY <3>1, <3>2
  <2>2. ASSUME NEW j \in Jobs, Cancel(j)
        PROVE  NoCommit /\ CompletedKept /\ \A v \in Workers : Stays(v)
    <3>1. NoCommit
      BY <2>2, CancelKeepsProgress DEF NoCommit, TypeOK, evars
    <3>2. CompletedKept
      BY <2>2, CancelledRow DEF Cancel, CompletedKept, TypeOK, QueueTypeOK
    <3>3. \A v \in Workers : Stays(v)
      BY <2>2 DEF Cancel, Stays, evars
    <3>4. QED
      BY <3>1, <3>2, <3>3
  <2>3. CASE Tick \/ UNCHANGED qvars
    BY <2>3 DEF Tick, qvars, evars, NoCommit, ProgressKeeps, CompletedKept, Stays
  <2>4. QED
    BY <2>1, <2>2, <2>3
<1>2. UNCHANGED <<artifacts, completions>>
  BY DEF evars
<1>3. QED
  BY <1>1, <1>2, StayingTells, QuietKeepsOnce DEF OnceInv

-----------------------------------------------------------------------------
(***************************************************************************)
(* Completions, submissions and commits.                                   *)
(***************************************************************************)

\* The worker that completes the job publishes the digest of its chunks.
LEMMA CompleteJobOnce ==
    ASSUME NEW G, ChunkInv(G), OnceInv(G), NEW w \in Workers, NEW ack \in BOOLEAN,
           CompleteJob(w, ack)
    PROVE  OnceInv(G)'
<1> USE DEF ChunkInv
<1>1. NoCommit
  BY CompleteIsQuiet DEF Quiet
<1>2. /\ Complete(w, ack) /\ step[w] = "complete"
      /\ UNCHANGED <<chunks, completions>>
      /\ pc[w] = "process"
  BY DEF CompleteJob, Complete, Processing
<1>3. PICK j \in Jobs : j = item[w].job /\ j \notin G
  BY <1>2 DEF TypeOK, QueueTypeOK, Complete, fencedJob, AllEnded, Ended
<1>4. PICK new : new = [job |-> j, sha |-> sha[w]]
  OBVIOUS
<1>5. artifacts' = artifacts \cup {new} /\ new.job = j
  BY <1>3, <1>4 DEF CompleteJob
<1>6. /\ jobs'[j].status = "completed"
      /\ \A k \in Jobs \ {j} : jobs'[k] = jobs[k]
  BY <1>2, <1>3, CompletedRow DEF Complete, TypeOK, QueueTypeOK
<1>7. \A k \in Jobs : /\ Terminal(jobs'[k]) <=> Terminal(jobs[k])
                      /\ ResultTells(jobs'[k], chunks'[k])
                      /\ jobs'[k].chunks = jobs[k].chunks
                      /\ jobs'[k].checkpoint = jobs[k].checkpoint
  BY <1>1, <1>2, SameProgress DEF NoCommit, ProgressKeeps, OnceInv
<1>8. /\ Terminal(jobs[j]) /\ sha[w] = chunks[j]
      /\ \E c \in completions : c.job = j
  BY <1>2, <1>3 DEF OnceInv, WorkerTells, StepTells, FinishSteps
<1>9. \A v \in Workers : WorkerTells(G, v)'
  <2>0. ack = FALSE => PlanFailure(w) /\ UNCHANGED <<mem, sha, step>>
    BY DEF CompleteJob, Complete
  <2>1. \A v \in Workers \ {w} : Stays(v)
    <3>1. CASE ack = TRUE
      BY <3>1 DEF CompleteJob, Complete, Idle, ResetLocals, TypeOK, QueueTypeOK, Stays
    <3>2. CASE ack = FALSE
      BY <2>0, <3>2, PlanShape DEF TypeOK, Stays
    <3>3. QED
      BY <3>1, <3>2
  <2>2. CASE ack = TRUE
    <3>1. pc'[w] = "idle" /\ step'[w] = "none"
      BY <2>2 DEF CompleteJob, Complete, Idle, ResetLocals, TypeOK, QueueTypeOK
    <3>2. QED
      BY <1>1, <1>2, <2>1, <3>1, IdleTells, OthersTell
  <2>3. CASE ack = FALSE
    <3>1. Stays(w)
      BY <1>2, <2>0, <2>3, PlanShape DEF KeepsClaim, TypeOK, Stays
    <3>2. QED
      BY <1>1, <1>2, <2>1, <3>1, StayingTells DEF OnceInv
  <2>4. QED
    BY <2>2, <2>3
<1>10. ASSUME NEW k \in Jobs PROVE CompletedPublished(k)'
  <2>1. CASE k = j
    BY <1>5, <1>7, <1>8, <2>1 DEF CompletedPublished
  <2>2. CASE k # j
    BY <1>5, <1>6, <1>7, <2>2 DEF OnceInv, CompletedPublished
  <2>3. QED
    BY <2>1, <2>2
<1>11. ASSUME NEW c \in completions' PROVE CompletionTrue(G, c)'
  BY <1>2, <1>7 DEF OnceInv, CompletionTrue
<1>12. ASSUME NEW a \in artifacts' PROVE ArtifactTrue(a)'
  <2>1. CASE a = new
    BY <1>2, <1>4, <1>5, <1>6, <1>8, <2>1 DEF ArtifactTrue
  <2>2. CASE a \in artifacts
    BY <1>2, <1>6, <2>2 DEF OnceInv, ArtifactTrue
  <2>3. QED
    BY <1>5, <2>1, <2>2
<1>13. QED
  BY <1>7, <1>9, <1>10, <1>11, <1>12 DEF OnceInv

\* A submitted job has no result yet, and nobody holds it.
LEMMA SubmitOnce ==
    ASSUME NEW G, ChunkInv(G), OnceInv(G), NEW j \in Jobs, Submit(j), UNCHANGED evars
    PROVE  OnceInv(G)'
<1> USE DEF ChunkInv
<1>1. /\ jobs[j].status = "absent" /\ jobs'[j].status = "queued"
      /\ jobs'[j].chunks = 0 /\ jobs'[j].cursor = 0 /\ jobs[j].chunks = 0
      /\ \A k \in Jobs \ {j} : jobs'[k] = jobs[k]
      /\ UNCHANGED <<pc, item, chunks, artifacts, mem, sha, step, completions>>
  BY SubmitShape DEF TypeOK, AbsentBare, evars
<1>2. \A w \in Workers : pc[w] # "idle" => item[w].job \in Jobs \ {j}
  BY <1>1 DEF TypeOK, QueueTypeOK, TokenInv, JobsKnown
<1>3. ~Terminal(jobs[j]) /\ j \notin G
  BY <1>1 DEF Terminal, AllEnded, Ended
<1>4. ASSUME NEW k \in Jobs
      PROVE  ResultTells(jobs'[k], chunks'[k]) /\ CompletedPublished(k)'
  BY <1>1 DEF OnceInv, ResultTells, CursorTells, CompletedPublished
<1>5. ASSUME NEW w \in Workers PROVE WorkerTells(G, w)'
  <2>1. CASE pc[w] = "idle"
    <3>1. pc'[w] = "idle" /\ step'[w] = "none"
      BY <1>1, <2>1 DEF OnceInv, WorkerTells, StepTells
    <3>2. QED
      BY <3>1, IdleTells
  <2>2. CASE pc[w] # "idle"
    <3>1. jobs'[item[w].job] = jobs[item[w].job]
      BY <1>1, <1>2, <2>2
    <3>2. QED
      BY <1>1, <3>1 DEF OnceInv, WorkerTells, StepTells
  <2>3. QED
    BY <2>1, <2>2
<1>6. ASSUME NEW c \in completions PROVE CompletionTrue(G, c)'
  <2>1. CompletionTrue(G, c) /\ c.job \in Jobs \ {j}
    BY <1>3 DEF OnceInv, CompletionTrue
  <2>2. QED
    BY <1>1, <2>1 DEF CompletionTrue
<1>7. ASSUME NEW a \in artifacts PROVE ArtifactTrue(a)'
  <2>1. ArtifactTrue(a) /\ a.job \in Jobs \ {j}
    BY <1>1 DEF OnceInv, ArtifactTrue
  <2>2. QED
    BY <1>1, <2>1 DEF ArtifactTrue
<1>8. QED
  BY <1>1, <1>4, <1>5, <1>6, <1>7 DEF OnceInv

\* The worker reads a page with content, and next is the cursor it got.
CommitsPage(w, next) ==
    /\ Commit(w, next)
    /\ step[w] = "page" /\ HasContent(mem[w])
    /\ next \in NextCursors(mem[w].cursor)
    /\ UNCHANGED <<artifacts, completions>>

\* What a commit does to the job and its result.
LEMMA CommitEffect ==
    ASSUME NEW G, ChunkInv(G), OnceInv(G), NEW w \in Workers, NEW next \in Pages,
           CommitsPage(w, next), NEW j, j = item[w].job
    PROVE  /\ j \in Jobs /\ j \notin G
           /\ pc[w] = "process" /\ mem[w].cursor \in ContentPages
           /\ mem[w].seq = jobs[j].chunks /\ jobs[j].chunks \in Nat
           /\ ~Terminal(jobs[j]) /\ jobs'[j].status = "running"
           /\ jobs[j].status = "running"
           /\ jobs'[j].cursor = next /\ jobs'[j].chunks = jobs[j].chunks + 1
           /\ jobs'[j].checkpoint = mem[w].total + PageRows[mem[w].cursor]
           /\ chunks'[j] = AddChunk(chunks[j], jobs[j].chunks, mem[w].cursor)
           /\ \A k \in Jobs \ {j} : jobs'[k] = jobs[k] /\ chunks'[k] = chunks[k]
           /\ jobs[j].chunks # 0 => /\ jobs[j].cursor # 0
                                    /\ jobs[j].cursor <= mem[w].cursor
           /\ ResultTells(jobs'[j], chunks'[j])
           /\ \A s \in DOMAIN chunks[j] :
                 \/ chunks[j][s] < mem[w].cursor
                 \/ chunks[j][s] = mem[w].cursor /\ mem[w].cursor \in Stalls
           /\ \A p \in ContentPages : p < mem[w].cursor => p \in PagesOf(chunks[j])
           /\ UNCHANGED <<pc, item>>
<1> USE DEF ChunkInv
<1>1. /\ j \in Jobs /\ j \notin G
      /\ pc[w] = "process" /\ mem[w].seq = jobs[j].chunks
      /\ jobs[j].status = "running" /\ UNCHANGED <<pc, item>>
  BY CommitterIsLevel DEF CommitsPage
<1>2. /\ jobs'[j].cursor = next /\ jobs'[j].chunks = jobs[j].chunks + 1
      /\ jobs'[j].checkpoint = mem[w].total + PageRows[mem[w].cursor]
      /\ \A k \in Jobs \ {j} : jobs'[k] = jobs[k]
  BY <1>1, CommitIsProgress DEF CommitsPage
<1>3. jobs'[j].status = "running"
  BY <1>1, CommitIsProgress, ProgressShape DEF CommitsPage, TypeOK
<1>4. /\ chunks'[j] = AddChunk(chunks[j], jobs[j].chunks, mem[w].cursor)
      /\ \A k \in Jobs \ {j} : chunks'[k] = chunks[k]
  BY <1>1 DEF CommitsPage, Commit, TypeOK
<1>5. /\ mem[w].cursor \in Pages /\ jobs[j].chunks \in Nat /\ jobs[j].cursor \in Nat
      /\ DOMAIN chunks[j] = 0 .. (jobs[j].chunks - 1)
  BY <1>1 DEF TypeOK, QueueTypeOK, JobRow, ChunksContiguous
<1>6. Committing(mem[w], jobs[j])
  BY <1>1 DEF OnceInv, WorkerTells, LocalsTell, StepTells, CommitsPage,
              HasContent, Committing
<1>7. ResultTells(jobs[j], chunks[j]) /\ CursorTells(jobs[j], chunks[j])
  BY <1>1 DEF OnceInv, ResultTells
<1>8. /\ mem[w].cursor \in ContentPages /\ ~Terminal(jobs[j])
      /\ jobs[j].chunks # 0 => jobs[j].cursor # 0 /\ jobs[j].cursor <= mem[w].cursor
  BY <1>5, <1>6, <1>7, CommittingPage
<1>9. ResultTells(jobs'[j], AddChunk(chunks[j], jobs[j].chunks, mem[w].cursor))
  BY <1>2, <1>5, <1>6, <1>7, CommittedTells DEF CommitsPage
<1>10. /\ \A s \in DOMAIN chunks[j] :
             \/ chunks[j][s] < mem[w].cursor
             \/ chunks[j][s] = mem[w].cursor /\ mem[w].cursor \in Stalls
       /\ \A p \in ContentPages : p < mem[w].cursor => p \in PagesOf(chunks[j])
  BY <1>5, <1>6, <1>7, CommittingIsNext
<1>11. QED
  BY <1>1, <1>2, <1>3, <1>4, <1>5, <1>8, <1>9, <1>10

\* Whoever held the same locals before is behind now and has the committed
\* page in front of it; this includes a worker that stalled on the page.
LEMMA CommitLeavesBehind ==
    ASSUME NEW G, ChunkInv(G), OnceInv(G), NEW w \in Workers, NEW next \in Pages,
           CommitsPage(w, next), NEW v \in Workers, pc[v] # "idle",
           item[v].job \notin G
    PROVE  LocalsTell(mem[v], jobs'[item[v].job], chunks'[item[v].job])
<1> USE DEF ChunkInv
<1>1. PICK j : j = item[w].job
  OBVIOUS
<1>2. /\ j \in Jobs /\ mem[w].cursor \in ContentPages
      /\ jobs[j].chunks \in Nat
      /\ jobs'[j].chunks = jobs[j].chunks + 1
      /\ chunks'[j] = AddChunk(chunks[j], jobs[j].chunks, mem[w].cursor)
      /\ \A k \in Jobs \ {j} : jobs'[k] = jobs[k] /\ chunks'[k] = chunks[k]
      /\ jobs[j].chunks # 0 => jobs[j].cursor # 0 /\ jobs[j].cursor <= mem[w].cursor
  BY <1>1, CommitEffect
<1>3. item[v].job \in Jobs /\ LocalsTell(mem[v], jobs[item[v].job], chunks[item[v].job])
  BY DEF TypeOK, QueueTypeOK, OnceInv, WorkerTells
<1>4. CASE item[v].job # j
  BY <1>2, <1>3, <1>4
<1>5. CASE item[v].job = j
  <2>1. mem[v].seq \in Nat /\ mem[v].seq <= jobs[j].chunks
    BY <1>5 DEF TypeOK, SeqBounded
  <2>2. DOMAIN chunks[j] = 0 .. (jobs[j].chunks - 1) /\ mem[w].cursor \in Nat
    BY <1>2, ContentTypes DEF ChunksContiguous
  <2>3. /\ chunks'[j][jobs[j].chunks] = mem[w].cursor
        /\ \A s \in 0 .. (jobs[j].chunks - 1) : chunks'[j][s] = chunks[j][s]
    <3>0. PICK f : f = chunks[j]
      OBVIOUS
    <3>1. PICK n \in Nat, p \in Nat :
             n = jobs[j].chunks /\ p = mem[w].cursor /\ f = chunks[j]
      BY <1>2, <2>2, <3>0
    <3>2. DOMAIN f = 0 .. (n - 1)
      BY <2>2, <3>1
    <3>3. /\ AddChunk(f, n, p)[n] = p
          /\ \A s \in 0 .. (n - 1) : AddChunk(f, n, p)[s] = f[s]
      BY <3>2, AddedChunk
    <3>4. chunks'[j] = AddChunk(f, n, p)
      BY <1>2, <3>1
    <3>5. QED
      BY <3>1, <3>3, <3>4, Zenon
  <2>4. mem[v].seq # 0 => mem[v].cursor # 0 /\ mem[v].cursor <= chunks'[j][mem[v].seq]
    <3>1. CASE mem[v].seq = jobs[j].chunks
      BY <1>2, <1>3, <1>5, <2>3, <3>1 DEF LocalsTell, Onward
    <3>2. CASE mem[v].seq < jobs[j].chunks
      BY <1>2, <1>3, <1>5, <2>1, <2>3, <3>2 DEF LocalsTell
    <3>3. QED
      BY <1>2, <2>1, <3>1, <3>2
  <2>5. QED
    BY <1>2, <1>5, <2>1, <2>4 DEF LocalsTell
<1>6. QED
  BY <1>4, <1>5

\* A commit keeps the invariant if its worker goes on rightly.
LEMMA CommitOnce ==
    ASSUME NEW G, ChunkInv(G), OnceInv(G), NEW w \in Workers, NEW next \in Pages,
           CommitsPage(w, next), WorkerTells(G, w)',
           \A v \in Workers \ {w} : mem'[v] = mem[v] /\ sha'[v] = sha[v]
                                    /\ step'[v] = step[v]
    PROVE  OnceInv(G)'
<1> USE DEF ChunkInv
<1>1. PICK j : j = item[w].job
  OBVIOUS
<1>2. /\ j \in Jobs /\ j \notin G /\ ~Terminal(jobs[j])
      /\ jobs[j].status = "running" /\ jobs'[j].status = "running"
      /\ \A k \in Jobs \ {j} : jobs'[k] = jobs[k] /\ chunks'[k] = chunks[k]
      /\ ResultTells(jobs'[j], chunks'[j])
      /\ UNCHANGED <<pc, item, artifacts, completions>>
  BY <1>1, CommitEffect DEF CommitsPage
<1>3. ASSUME NEW v \in Workers \ {w} PROVE WorkerTells(G, v)'
  <2>1. mem'[v] = mem[v] /\ sha'[v] = sha[v] /\ step'[v] = step[v]
    OBVIOUS
  <2>2. CASE pc[v] = "idle"
    <3>1. pc'[v] = "idle" /\ step'[v] = "none"
      BY <1>2, <2>1, <2>2 DEF OnceInv, WorkerTells, StepTells
    <3>2. QED
      BY <3>1, IdleTells
  <2>3. CASE pc[v] # "idle" /\ item[v].job \notin G
    <3>1. LocalsTell(mem'[v], jobs'[item'[v].job], chunks'[item'[v].job])
      BY <1>2, <2>1, <2>3, CommitLeavesBehind
    <3>2. item[v].job \in Jobs /\ StepTells(v)
      BY <2>3 DEF TypeOK, QueueTypeOK, OnceInv, WorkerTells
    <3>3. step[v] \in {"finalize", "complete"} => step[v] \in FinishSteps
      BY DEF FinishSteps
    <3>4. step[v] \in FinishSteps => item[v].job # j
      BY <1>2, <3>2 DEF StepTells
    <3>5. StepTells(v)'
      BY <1>2, <2>1, <3>2, <3>3, <3>4 DEF StepTells
    <3>6. QED
      BY <1>2, <2>1, <2>3, <3>1, <3>5 DEF OnceInv, WorkerTells
  <2>4. CASE item[v].job \in G
    BY <1>2, <2>1, <2>4 DEF OnceInv, WorkerTells
  <2>5. QED
    BY <2>2, <2>3, <2>4
<1>4. ASSUME NEW k \in Jobs
      PROVE  ResultTells(jobs'[k], chunks'[k]) /\ CompletedPublished(k)'
  BY <1>2 DEF OnceInv, CompletedPublished
<1>5. ASSUME NEW c \in completions PROVE CompletionTrue(G, c)'
  <2>1. CompletionTrue(G, c) /\ c.job \in Jobs \ {j}
    BY <1>2 DEF OnceInv, CompletionTrue
  <2>2. QED
    BY <1>2, <2>1 DEF CompletionTrue
<1>6. ASSUME NEW a \in artifacts PROVE ArtifactTrue(a)'
  <2>1. ArtifactTrue(a) /\ a.job \in Jobs \ {j}
    BY <1>2 DEF OnceInv, ArtifactTrue
  <2>2. QED
    BY <1>2, <2>1 DEF ArtifactTrue
<1>7. QED
  BY <1>2, <1>3, <1>4, <1>5, <1>6 DEF OnceInv

\* The worker moves on with the cursor it stored.
LEMMA PageOnce ==
    ASSUME NEW G, ChunkInv(G), OnceInv(G), NEW w \in Workers, NEW next \in Pages,
           CommitResultPage(w, next)
    PROVE  OnceInv(G)'
<1> USE DEF ChunkInv
<1>1. CommitsPage(w, next)
  BY DEF CommitResultPage, CommitsPage
<1>2. PICK j : j = item[w].job
  OBVIOUS
<1>3. /\ j \in Jobs /\ pc[w] = "process" /\ mem[w].seq = jobs[j].chunks
      /\ jobs[j].chunks \in Nat
      /\ jobs'[j].cursor = next /\ jobs'[j].chunks = jobs[j].chunks + 1
      /\ jobs'[j].checkpoint = mem[w].total + PageRows[mem[w].cursor]
      /\ UNCHANGED <<pc, item>>
  BY <1>1, <1>2, CommitEffect
<1>4. PICK n : n = [cursor |-> next, seq |-> mem[w].seq + 1,
                    total |-> mem[w].total + PageRows[mem[w].cursor]]
  OBVIOUS
<1>5. /\ n.cursor = next /\ n.seq = mem[w].seq + 1
      /\ n.total = mem[w].total + PageRows[mem[w].cursor]
  BY <1>4
<1>6. /\ mem' = [mem EXCEPT ![w] = n]
      /\ step' = [step EXCEPT ![w] = NextStep(n)] /\ sha' = sha
  BY <1>4 DEF CommitResultPage
<1>7. /\ mem'[w] = n /\ step'[w] = NextStep(n)
      /\ \A v \in Workers \ {w} : mem'[v] = mem[v] /\ sha'[v] = sha[v]
                                  /\ step'[v] = step[v]
  BY <1>6 DEF TypeOK
<1>8. Onward(next, next)
  BY PageTypes DEF Onward
<1>9. LocalsTell(n, jobs'[j], chunks'[j])
  BY <1>3, <1>5, <1>8 DEF LocalsTell
<1>10. NextStep(n) = "identity" => Terminal(jobs'[j])
  BY <1>3, <1>5 DEF NextStep, Terminal
<1>11. NextStep(n) \in {"page", "identity"}
       /\ (NextStep(n) = "page" => n.seq = 0 \/ n.cursor # 0)
  BY DEF NextStep
<1>12. WorkerTells(G, w)'
  BY <1>2, <1>3, <1>5, <1>7, <1>9, <1>10, <1>11 DEF WorkerTells, StepTells, FinishSteps
<1>13. QED
  BY <1>1, <1>7, <1>12, CommitOnce

\* The worker that stalled keeps its locals: it is behind its own commit.
LEMMA StalledPageOnce ==
    ASSUME NEW G, ChunkInv(G), OnceInv(G), NEW w \in Workers, CommitStalledPage(w)
    PROVE  OnceInv(G)'
<1> USE DEF ChunkInv
<1>1. mem[w].cursor \in Pages /\ CommitsPage(w, mem[w].cursor)
  BY DEF CommitStalledPage, CommitsPage, TypeOK
<1>2. pc[w] = "process" /\ item[w].job \notin G /\ UNCHANGED <<pc, item>>
  BY <1>1, CommitEffect
<1>3. /\ step'[w] = "stalled" /\ UNCHANGED <<mem, sha>>
      /\ \A v \in Workers \ {w} : mem'[v] = mem[v] /\ sha'[v] = sha[v]
                                  /\ step'[v] = step[v]
  BY DEF CommitStalledPage, TypeOK
<1>4. LocalsTell(mem'[w], jobs'[item'[w].job], chunks'[item'[w].job])
  BY <1>1, <1>2, <1>3, CommitLeavesBehind
<1>5. WorkerTells(G, w)'
  BY <1>2, <1>3, <1>4 DEF WorkerTells, StepTells, FinishSteps
<1>6. QED
  BY <1>1, <1>3, <1>5, CommitOnce

-----------------------------------------------------------------------------
(***************************************************************************)
(* The invariant and what it implies.                                      *)
(***************************************************************************)

\* Every step of an export keeps the invariant.
LEMMA OnceStep ==
    ASSUME NEW G, ChunkInv(G), OnceInv(G), [Next]_vars
    PROVE  OnceInv(G)'
<1>1. ASSUME NEW j \in Jobs, Submit(j) \/ Cancel(j), UNCHANGED evars PROVE OnceInv(G)'
  BY <1>1, SubmitOnce, SteadyOnce
<1>2. CASE (Tick /\ UNCHANGED evars) \/ UNCHANGED vars
  BY <1>2, SteadyOnce DEF vars
<1>3. ASSUME NEW w \in Workers, ExportWorker(w) PROVE OnceInv(G)'
  <2>1. ASSUME QueueOnly(w) PROVE OnceInv(G)'
    BY <2>1, SteadyOnce DEF QueueOnly
  <2>2. QED
    BY <1>3, <2>1, SelectOnce, UpdateOnce, SkipOnce, PageOnce, StalledPageOnce,
       IdentityOnce, CompleteExportOnce, CompleteJobOnce, GiveUpOnce
    DEF ExportWorker
<1>4. QED
  BY <1>1, <1>2, <1>3 DEF Next

\* It holds initially: there is no result and nobody works.
LEMMA OnceInit == Init => OnceInv({})
<1> SUFFICES ASSUME Init PROVE OnceInv({})
  OBVIOUS
<1>1. /\ artifacts = {} /\ completions = {}
      /\ \A w \in Workers : pc[w] = "idle" /\ step[w] = "none"
      /\ \A j \in Jobs : /\ jobs[j].cursor = 0 /\ jobs[j].chunks = 0
                         /\ jobs[j].status = "absent" /\ chunks[j] = << >>
  BY DEF Init, ResultInit, QueueInit, NoRow
<1>2. DOMAIN << >> = {}
  OBVIOUS
<1>3. \A j \in Jobs : ResultTells(jobs[j], chunks[j]) /\ CompletedPublished(j)
  BY <1>1, <1>2 DEF ResultTells, PagesOf, PagesOrdered, CursorTells,
                    CompletedPublished
<1>4. \A w \in Workers : WorkerTells({}, w)
  BY <1>1 DEF WorkerTells, StepTells, FinishSteps
<1>5. QED
  BY <1>1, <1>3, <1>4 DEF OnceInv

\* The invariant always holds.
LEMMA OnceInvariant == Spec => [](ChunkInv({}) /\ OnceInv({}))
<1>1. Init => ChunkInv({}) /\ OnceInv({})
  BY ChunkInit, OnceInit
<1>2. ChunkInv({}) /\ OnceInv({}) /\ [Next]_vars => ChunkInv({})' /\ OnceInv({})'
  BY ChunkStep, OnceStep
<1>3. QED
  BY <1>1, <1>2, PTL DEF Spec

\* The result of an export keeps the order of the provider's pages and holds
\* no page twice except one the provider stalled on, and a completed export
\* holds all of them, over any number of claims, crashes, lost leases and
\* late writes (processExport, CommitResultPage).
THEOREM ResultsAreOrdered == Spec => []OrderedDespiteStalls
<1>1. ChunkInv({}) /\ OnceInv({}) => OrderedDespiteStalls
  <2>1. SUFFICES ASSUME OnceInv({}), NEW j \in Jobs
        PROVE  /\ PagesOrdered(chunks[j])
               /\ jobs[j].status = "completed" => PagesOf(chunks[j]) = ContentPages
    BY DEF OrderedDespiteStalls, PagesOrdered, PagesOf
  <2>2. ResultTells(jobs[j], chunks[j]) /\ CompletedPublished(j)
    BY <2>1 DEF OnceInv
  <2>3. QED
    BY <2>2, TerminalHasAll DEF ResultTells, CompletedPublished
<1>2. QED
  BY <1>1, OnceInvariant, PTL

\* With a provider that pages steadily, no page is in a result twice, the
\* pages are in order, and a completed export holds every page exactly once.
THEOREM PagesOnce ==
    ASSUME Stalls = {}
    PROVE  Spec => []ExactlyOnce
<1>1. OrderedDespiteStalls => ExactlyOnce
  BY DEF OrderedDespiteStalls, ExactlyOnce
<1>2. QED
  BY <1>1, ResultsAreOrdered, PTL

\* A job is completed exactly when it has its one artifact, and the digest
\* published with the artifact is that of the chunks, with any provider:
\* nobody adds a chunk between ResultIdentity and Complete, or later.
THEOREM ArtifactsIdentify == Spec => []ArtifactIdentity
<1>1. OnceInv({}) => ArtifactIdentity
  BY DEF OnceInv, ArtifactTrue, CompletedPublished, ArtifactIdentity
<1>2. QED
  BY <1>1, OnceInvariant, PTL

\* All calls of CompleteExport for a job, by whatever workers, before or
\* after they lost the fence, name the same digest, rows and chunks, and the
\* artifact that is published is the one they named.
THEOREM CompletionsAreOne == Spec => []CompletionsAgree
<1>1. OnceInv({}) => CompletionsAgree
  <2>1. SUFFICES ASSUME OnceInv({}) PROVE CompletionsAgree
    OBVIOUS
  <2>2. \A c, d \in completions : c.job = d.job => c = d
    BY <2>1 DEF OnceInv, CompletionTrue
  <2>3. ASSUME NEW a \in artifacts
        PROVE  \E c \in completions : c.job = a.job /\ c.sha = a.sha
    <3>1. PICK c \in completions : c.job = a.job
      BY <2>1 DEF OnceInv, ArtifactTrue
    <3>2. c.sha = chunks[c.job]
      BY <2>1 DEF OnceInv, CompletionTrue
    <3>3. a.sha = chunks[a.job]
      BY <2>1 DEF OnceInv, ArtifactTrue
    <3>4. QED
      BY <3>1, <3>2, <3>3
  <2>4. QED
    BY <2>2, <2>3 DEF CompletionsAgree
<1>2. QED
  BY <1>1, OnceInvariant, PTL

-----------------------------------------------------------------------------
(***************************************************************************)
(* The promise of an export job.                                           *)
(***************************************************************************)

\* A result that is numbered without a gap grows by the chunk that a commit
\* adds.
LEMMA GrownIsAdded ==
    ASSUME NEW f, NEW n \in Nat, NEW p, DOMAIN f = 0 .. (n - 1)
    PROVE  Promise!Grown(f, p) = AddChunk(f, n, p)
<1>1. Cardinality(0 .. (n - 1)) = n
  <2>1. 0 \in Int /\ n - 1 \in Int
    OBVIOUS
  <2>2. Cardinality(0 .. (n - 1)) = IF 0 > n - 1 THEN 0 ELSE (n - 1) - 0 + 1
    BY <2>1, FS_Interval
  <2>3. QED
    BY <2>2
<1>2. Promise!Grown(f, p) = [i \in 0 .. n |-> IF i = n THEN p ELSE f[i]]
  <2>1. Promise!Cardinality(DOMAIN f) = n
    BY <1>1 DEF Promise!Cardinality, Cardinality
  <2>2. QED
    BY <2>1 DEF Promise!Grown
<1>3. (0 .. (n - 1)) \cup {n} = 0 .. n
  OBVIOUS
<1>4. QED
  BY <1>2, <1>3 DEF AddChunk

\* A commit grows the result by its next page.
LEMMA CommitGrows ==
    ASSUME NEW G, Stalls = {}, ChunkInv(G), OnceInv(G), NEW w \in Workers, NEW next \in Pages,
           CommitsPage(w, next)
    PROVE  Promise!Next
<1> USE DEF ChunkInv
<1>1. PICK j : j = item[w].job
  OBVIOUS
<1>2. /\ j \in Jobs /\ mem[w].cursor \in ContentPages /\ jobs[j].chunks \in Nat
      /\ jobs[j].status = "running" /\ jobs'[j].status = "running"
      /\ chunks'[j] = AddChunk(chunks[j], jobs[j].chunks, mem[w].cursor)
      /\ \A k \in Jobs \ {j} : jobs'[k] = jobs[k] /\ chunks'[k] = chunks[k]
      /\ \A s \in DOMAIN chunks[j] : chunks[j][s] < mem[w].cursor
      /\ \A p \in ContentPages : p < mem[w].cursor => p \in PagesOf(chunks[j])
  BY <1>1, CommitEffect
<1>3. PICK p \in ContentPages : p = mem[w].cursor
  BY <1>2
<1>4. chunks' = [chunks EXCEPT ![j] = AddChunk(chunks[j], jobs[j].chunks, p)]
  BY <1>1, <1>2, <1>3 DEF CommitsPage, Commit, TypeOK
<1>5. Promise!Grown(chunks[j], p) = AddChunk(chunks[j], jobs[j].chunks, p)
  BY <1>2, GrownIsAdded DEF ChunksContiguous
<1>6. Promise!IsNext(chunks[j], p)
  BY <1>2, <1>3 DEF Promise!IsNext, Promise!Held, PagesOf
<1>7. [k \in Jobs |-> Phase(jobs'[k])] = [k \in Jobs |-> Phase(jobs[k])]
  BY <1>2 DEF Phase
<1>8. Phase(jobs[j]) = "open" /\ artifacts' = artifacts
  BY <1>2 DEF Phase, CommitsPage
<1>9. Promise!Grow(j)
  BY <1>2, <1>4, <1>5, <1>6, <1>7, <1>8 DEF Promise!Grow
<1>10. QED
  BY <1>2, <1>9 DEF Promise!Next

\* A completion publishes the whole result.
LEMMA CompletePublishes ==
    ASSUME NEW G, ChunkInv(G), OnceInv(G), NEW w \in Workers, NEW ack \in BOOLEAN,
           CompleteJob(w, ack)
    PROVE  Promise!Next
<1> USE DEF ChunkInv
<1> DEFINE Published(as) == [k \in Jobs |-> {a.sha : a \in {b \in as : b.job = k}}]
<1>1. /\ Complete(w, ack) /\ step[w] = "complete" /\ chunks' = chunks
      /\ pc[w] = "process"
  BY DEF CompleteJob, Complete, Processing
<1>2. PICK j \in Jobs : j = item[w].job /\ j \notin G
  BY <1>1 DEF TypeOK, QueueTypeOK, Complete, fencedJob, AllEnded, Ended
<1>3. /\ jobs[j].status = "running" /\ jobs'[j].status = "completed"
      /\ \A k \in Jobs \ {j} : jobs'[k] = jobs[k]
  BY <1>1, <1>2, CompletedRow DEF Complete, fencedJob, TypeOK, QueueTypeOK
<1>4. Terminal(jobs[j]) /\ sha[w] = chunks[j]
  BY <1>1, <1>2 DEF OnceInv, WorkerTells, StepTells, FinishSteps
<1>5. /\ artifacts' = artifacts \cup {[job |-> j, sha |-> chunks[j]]}
      /\ \A a \in artifacts : a.job # j
  BY <1>2, <1>4 DEF CompleteJob
<1>6. Promise!Held(chunks[j]) = ContentPages
  BY <1>4, TerminalHasAll DEF OnceInv, ResultTells, PagesOf, Promise!Held
<1>7. [k \in Jobs |-> Phase(jobs'[k])]
         = [[k \in Jobs |-> Phase(jobs[k])] EXCEPT ![j] = "completed"]
  BY <1>3 DEF Phase
<1>8. Published(artifacts') = [Published(artifacts) EXCEPT ![j] = {chunks[j]}]
  <2>1. {a.sha : a \in {b \in artifacts' : b.job = j}} = {chunks[j]}
    <3>1. PICK new : new = [job |-> j, sha |-> chunks[j]]
      OBVIOUS
    <3>2. new.job = j /\ new.sha = chunks[j]
      BY <3>1
    <3>3. {b \in artifacts' : b.job = j} = {new}
      BY <1>5, <3>1, <3>2
    <3>4. QED
      BY <3>2, <3>3
  <2>2. ASSUME NEW k \in Jobs \ {j}
        PROVE  {a.sha : a \in {b \in artifacts' : b.job = k}}
                  = {a.sha : a \in {b \in artifacts : b.job = k}}
    <3>1. {b \in artifacts' : b.job = k} = {b \in artifacts : b.job = k}
      BY <1>5
    <3>2. QED
      BY <3>1
  <2>3. QED
    BY <2>1, <2>2
<1>9. Phase(jobs[j]) = "open"
  BY <1>3 DEF Phase
<1>10. Promise!Publish(j)
  BY <1>1, <1>2, <1>6, <1>7, <1>8, <1>9 DEF Promise!Publish
<1>11. QED
  BY <1>2, <1>10 DEF Promise!Next

\* The phase of at most one job changes: it was open and is given up.
OneAbandoned ==
    \E k \in Jobs :
        /\ \A i \in Jobs \ {k} : Phase(jobs'[i]) = Phase(jobs[i])
        /\ \/ Phase(jobs'[k]) = Phase(jobs[k])
           \/ Phase(jobs[k]) = "open" /\ Phase(jobs'[k]) \in {"failed", "cancelled"}

\* A step that touches neither results nor artifacts may give up a job.
LEMMA AbandonsOrStutters ==
    ASSUME chunks' = chunks, artifacts' = artifacts, OneAbandoned \/ jobs' = jobs
    PROVE  [Promise!Next]_Promise!pvars
<1>1. CASE jobs' = jobs
  BY <1>1 DEF Promise!pvars
<1>2. CASE OneAbandoned
  <2>1. PICK k \in Jobs :
        /\ \A i \in Jobs \ {k} : Phase(jobs'[i]) = Phase(jobs[i])
        /\ \/ Phase(jobs'[k]) = Phase(jobs[k])
           \/ Phase(jobs[k]) = "open" /\ Phase(jobs'[k]) \in {"failed", "cancelled"}
    BY <1>2 DEF OneAbandoned
  <2>2. CASE Phase(jobs'[k]) = Phase(jobs[k])
    <3>1. [i \in Jobs |-> Phase(jobs'[i])] = [i \in Jobs |-> Phase(jobs[i])]
      BY <2>1, <2>2
    <3>2. QED
      BY <3>1 DEF Promise!pvars
  <2>3. CASE Phase(jobs[k]) = "open" /\ Phase(jobs'[k]) \in {"failed", "cancelled"}
    <3>1. [i \in Jobs |-> Phase(jobs'[i])]
             = [[i \in Jobs |-> Phase(jobs[i])] EXCEPT ![k] = Phase(jobs'[k])]
      BY <2>1
    <3>2. Promise!Abandon(k)
      BY <2>3, <3>1 DEF Promise!Abandon
    <3>3. QED
      BY <3>2 DEF Promise!Next
  <2>4. QED
    BY <2>1, <2>2, <2>3
<1>3. QED
  BY <1>1, <1>2

\* Claims, heartbeats, failures and cancellations give up one job at most.
LEMMA QueueAbandons ==
    ASSUME QueueTypeOK,
           \/ \E w \in Workers :
                 \/ \E j \in Jobs : ClaimSelect(w, j)
                 \/ ClaimUpdate(w) \/ ClaimMissed(w) \/ Heartbeat(w) \/ Interrupt(w)
                 \/ ProcessError(w) \/ Fail(w) \/ FailStale(w) \/ Crash(w)
           \/ \E j \in Jobs : Cancel(j)
           \/ Tick
    PROVE  OneAbandoned \/ jobs' = jobs
<1> USE DEF QueueTypeOK
<1>1. ASSUME NEW w \in Workers, ClaimUpdate(w) PROVE OneAbandoned
  <2>1. PICK k \in Jobs, t \in Nat : k = item[w].job /\ t = item[w].at
    BY <1>1 DEF ClaimUpdate, WorkItem
  <2>2. jobs' = [jobs EXCEPT ![k] = Claimed(jobs[k], w, t)]
    BY <1>1, <2>1 DEF ClaimUpdate
  <2>3. Claimed(jobs[k], w, t).status = "running"
    BY ClaimedRow
  <2>4. jobs[k].status \in {"queued", "running"}
    BY <1>1, <2>1 DEF ClaimUpdate, Claimable, ReadyQueued, LeaseExpired
  <2>5. QED
    BY <2>2, <2>3, <2>4 DEF OneAbandoned, Phase
<1>2. ASSUME NEW w \in Workers, Heartbeat(w) PROVE OneAbandoned
  <2>1. item[w].job \in Jobs /\ Now(w) + LeaseTTL[w] \in Nat
    BY <1>2, NowType DEF Heartbeat, Processing
  <2>2. QED
    BY <1>2, <2>1, RenewedRow DEF Heartbeat, OneAbandoned, Phase
<1>3. ASSUME NEW w \in Workers, Fail(w) PROVE OneAbandoned
  <2>1. PICK k \in Jobs, r \in JobRow, n \in Nat, now \in Nat :
           k = item[w].job /\ r = jobs[k] /\ n = item[w].attempts /\ now = item[w].at
    BY <1>3 DEF Fail, WorkItem
  <2>2. /\ jobs' = [jobs EXCEPT ![k] = Failed(r, n, now)]
        /\ jobs[k].status = "running"
    BY <1>3, <2>1 DEF Fail, fencedJob
  <2>3. Failed(r, n, now).status \in {"queued", "failed"}
    BY FailedRow
  <2>4. QED
    BY <2>2, <2>3 DEF OneAbandoned, Phase
<1>4. ASSUME NEW j \in Jobs, Cancel(j) PROVE OneAbandoned
  BY <1>4, CancelledRow DEF Cancel, OneAbandoned, Phase
<1>5. CASE \/ \E w \in Workers :
                 \/ \E j \in Jobs : ClaimSelect(w, j)
                 \/ ClaimMissed(w) \/ Interrupt(w) \/ ProcessError(w)
                 \/ FailStale(w) \/ Crash(w)
           \/ Tick
  BY <1>5 DEF ClaimSelect, ClaimMissed, Interrupt, ProcessError, FailStale, Crash, Tick
<1>6. QED
  BY <1>1, <1>2, <1>3, <1>4, <1>5

\* A submission opens a job.
LEMMA SubmitOpens ==
    ASSUME QueueTypeOK, NEW j \in Jobs, Submit(j), UNCHANGED evars
    PROVE  Promise!Next
<1>1. /\ Phase(jobs[j]) = "absent" /\ Phase(jobs'[j]) = "open"
      /\ \A k \in Jobs \ {j} : jobs'[k] = jobs[k]
      /\ UNCHANGED <<chunks, artifacts>>
  BY SubmitShape DEF Phase, evars
<1>2. [k \in Jobs |-> Phase(jobs'[k])]
         = [[k \in Jobs |-> Phase(jobs[k])] EXCEPT ![j] = "open"]
  <2>1. \A k \in Jobs \ {j} : Phase(jobs'[k]) = Phase(jobs[k])
    BY <1>1
  <2>2. QED
    BY <1>1, <2>1
<1>3. Promise!Open(j)
  BY <1>1, <1>2 DEF Promise!Open
<1>4. QED
  BY <1>3 DEF Promise!Next

\* Every step of an export is one that the promise allows.
LEMMA StepKeepsPromise ==
    ASSUME NEW G, Stalls = {}, ChunkInv(G), OnceInv(G), [Next]_vars
    PROVE  [Promise!Next]_Promise!pvars
<1> USE DEF ChunkInv
<1>1. ASSUME NEW w \in Workers, NEW next \in Pages, CommitResultPage(w, next)
      PROVE  Promise!Next
  BY <1>1, CommitGrows DEF CommitResultPage, CommitsPage
<1>2. ASSUME NEW w \in Workers, CommitStalledPage(w) PROVE Promise!Next
  BY <1>2, CommitGrows DEF CommitStalledPage, CommitsPage, TypeOK
<1>3. ASSUME NEW w \in Workers, NEW ack \in BOOLEAN, CompleteJob(w, ack)
      PROVE  Promise!Next
  BY <1>3, CompletePublishes
<1>4. ASSUME NEW j \in Jobs, Submit(j), UNCHANGED evars PROVE Promise!Next
  BY <1>4, SubmitOpens DEF TypeOK
<1>5. ASSUME NEW w \in Workers,
             \/ \E j \in Jobs : ExportClaimSelect(w, j)
             \/ ExportClaimUpdate(w) \/ GiveUp(w) \/ QueueOnly(w)
      PROVE  [Promise!Next]_Promise!pvars
  <2>1. chunks' = chunks /\ artifacts' = artifacts
    BY <1>5 DEF ExportClaimSelect, ExportClaimUpdate, GiveUp, QueueOnly, evars
  <2>2. OneAbandoned \/ jobs' = jobs
    BY <1>5, QueueAbandons
    DEF ExportClaimSelect, ExportClaimUpdate, GiveUp, QueueOnly, TypeOK
  <2>3. QED
    BY <2>1, <2>2, AbandonsOrStutters
<1>6. ASSUME NEW w \in Workers,
             \/ \E next \in Pages : SkipPage(w, next)
             \/ ResultIdentity(w) \/ CompleteExport(w)
      PROVE  [Promise!Next]_Promise!pvars
  BY <1>6, AbandonsOrStutters
  DEF SkipPage, ProcessError, ResultIdentity, CompleteExport, qvars
<1>7. ASSUME UNCHANGED evars, Tick \/ \E j \in Jobs : Cancel(j)
      PROVE  [Promise!Next]_Promise!pvars
  <2>1. chunks' = chunks /\ artifacts' = artifacts
    BY <1>7 DEF evars
  <2>2. OneAbandoned \/ jobs' = jobs
    BY <1>7, QueueAbandons DEF TypeOK
  <2>3. QED
    BY <2>1, <2>2, AbandonsOrStutters
<1>8. CASE UNCHANGED vars
  BY <1>8, AbandonsOrStutters DEF vars, qvars, evars
<1>9. QED
  BY <1>1, <1>2, <1>3, <1>4, <1>5, <1>6, <1>7, <1>8 DEF Next, ExportWorker

\* With a provider that pages steadily, exports implement ExportPromise: a
\* result grows by the next page and only while the job is open, is published
\* once and whole, and an ended job stays as it ended.
THEOREM PromiseIsKept ==
    ASSUME Stalls = {}
    PROVE  Spec => KeepsPromise
<1>1. Init => Promise!Init
  <2>1. SUFFICES ASSUME Init PROVE Promise!Init
    OBVIOUS
  <2>2. /\ chunks = [j \in Jobs |-> << >>] /\ artifacts = {}
        /\ \A j \in Jobs : Phase(jobs[j]) = "absent"
    BY <2>1 DEF Init, ResultInit, QueueInit, NoRow, Phase
  <2>3. QED
    BY <2>2 DEF Promise!Init
<1>2. ChunkInv({}) /\ OnceInv({}) /\ [Next]_vars => [Promise!Next]_Promise!pvars
  BY StepKeepsPromise
<1>3. QED
  BY <1>1, <1>2, OnceInvariant, PTL DEF Spec, KeepsPromise, Promise!Spec
=============================================================================
