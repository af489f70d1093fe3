------------------------ MODULE ArtifactExportProofs ------------------------
(***************************************************************************)
(* Proofs about ArtifactExport, for any builds, chunk size, jobs and       *)
(* workers.                                                                *)
(***************************************************************************)
EXTENDS ArtifactExport, JobQueueProofs, WellFoundedInduction, SequenceTheorems,
        FiniteSetTheorems

-----------------------------------------------------------------------------
(***************************************************************************)
(* The bytes of a result.  What FlattenSeq computes is shown by induction: *)
(* a set of naturals that are counterexamples has no least element.        *)
(***************************************************************************)

\* A set of naturals has a least element.
LEMMA Least ==
    ASSUME NEW T, T \subseteq Nat, T # {}
    PROVE  \E n \in T : \A m \in T : n <= m
<1>1. PICK R : R = OpToRel(<, Nat)
  OBVIOUS
<1>2. IsWellFoundedOn(R, Nat)
  BY <1>1, NatLessThanWellFounded
<1>3. PICK n \in T : \A m \in T : <<m, n>> \notin R
  BY <1>2, WFMin, Zenon
<1>4. ASSUME NEW m \in T PROVE n <= m
  <2>1. n \in Nat /\ m \in Nat
    BY <1>3
  <2>2. m < n => <<m, n>> \in R
    BY <1>1, <2>1 DEF OpToRel
  <2>. QED
    BY <1>3, <2>1, <2>2
<1>. QED
  BY <1>3, <1>4

\* One content after another.
Join(a, b) == a \o b

\* f adds up the first n elements of s.
Adds(f, s, n) == f = [i \in 1 .. n |-> IF i = 1 THEN s[i] ELSE Join(f[i - 1], s[i])]

Agree(f, g, n) == \A i \in 1 .. n : f[i] = g[i]

\* There are such sums.
LEMMA AddsExists ==
    ASSUME NEW s, NEW n \in Nat \ {0}
    PROVE  \E f : Adds(f, s, n)
<1> DEFINE T == {k \in Nat \ {0} : ~ \E f : Adds(f, s, k)}
<1> SUFFICES ASSUME T # {} PROVE FALSE
  OBVIOUS
<1>1. PICK k \in T : \A m \in T : k <= m
  BY Least
<1>2. k \in Nat \ {0} /\ ~ \E f : Adds(f, s, k)
  BY <1>1
<1>3. CASE k = 1
  <2>1. PICK f : f = [i \in 1 .. 1 |-> s[i]]
    OBVIOUS
  <2>2. Adds(f, s, 1)
    BY <2>1 DEF Adds
  <2>. QED
    BY <1>2, <1>3, <2>2
<1>4. CASE k # 1
  <2>1. k - 1 \in Nat \ {0} /\ k - 1 \notin T
    BY <1>1, <1>2, <1>4
  <2>2. PICK f : Adds(f, s, k - 1)
    BY <2>1
  <2>3. PICK g : g = [i \in 1 .. k |-> IF i = k THEN Join(f[k - 1], s[k]) ELSE f[i]]
    OBVIOUS
  <2>4. ASSUME NEW i \in 1 .. k PROVE g[i] = IF i = 1 THEN s[i] ELSE Join(g[i - 1], s[i])
    <3>1. CASE i = k
      BY <1>2, <1>4, <2>3, <3>1
    <3>2. CASE i # k
      <4>1. f[i] = IF i = 1 THEN s[i] ELSE Join(f[i - 1], s[i])
        BY <1>2, <2>2, <3>2 DEF Adds
      <4>. QED
        BY <1>2, <2>3, <3>2, <4>1
    <3>. QED
      BY <3>1, <3>2
  <2>5. Adds(g, s, k)
    BY <2>3, <2>4 DEF Adds
  <2>. QED
    BY <1>2, <2>5
<1>. QED
  BY <1>3, <1>4

\* They depend on the elements added up only.
LEMMA AddsAgree ==
    ASSUME NEW n \in Nat, NEW s, NEW t, NEW f, NEW g,
           Agree(s, t, n), Adds(f, s, n), Adds(g, t, n + 1)
    PROVE  Agree(f, g, n)
<1> DEFINE T == {k \in 1 .. n : f[k] # g[k]}
<1> SUFFICES ASSUME T # {} PROVE FALSE
  BY DEF Agree
<1>1. PICK k \in T : \A i \in T : k <= i
  <2>1. T \subseteq Nat
    OBVIOUS
  <2>. QED
    BY <2>1, Least
<1>2. k \in 1 .. n /\ f[k] # g[k]
  BY <1>1
<1>3. /\ f[k] = IF k = 1 THEN s[k] ELSE Join(f[k - 1], s[k])
      /\ g[k] = IF k = 1 THEN t[k] ELSE Join(g[k - 1], t[k])
  BY <1>2 DEF Adds
<1>4. k # 1 => f[k - 1] = g[k - 1]
  BY <1>1, <1>2
<1>. QED
  BY <1>2, <1>3, <1>4 DEF Agree

\* The last of the sums is the sequence of sequences, flattened.
LEMMA FlatAdds ==
    ASSUME NEW s, NEW n \in Nat \ {0}, Len(s) = n
    PROVE  \E f : Adds(f, s, n) /\ FlattenSeq(s) = f[n]
<1>1. PICK g : Adds(g, s, n)
  BY AddsExists
<1> DEFINE h == CHOOSE f : Adds(f, s, n)
<1>2. Adds(h, s, n)
  BY <1>1, Zenon
<1>3. FlattenSeq(s) = h[n]
  BY Zenon DEF FlattenSeq, Adds, Join
<1>. QED
  BY <1>2, <1>3

\* The elements of a sequence.
LEMMA SeqOfElements ==
    ASSUME NEW E, NEW n \in Nat, NEW s \in [1 .. n -> E]
    PROVE  s \in Seq(E) /\ Len(s) = n
<1>1. s \in Seq(E)
  BY SeqDef
<1>2. Len(s) \in Nat /\ DOMAIN s = 1 .. Len(s)
  BY <1>1, LenProperties
<1>. QED
  BY <1>1, <1>2

\* A result without chunks has no bytes.
LEMMA BytesOfNone ==
    ASSUME NEW c, DOMAIN c = {}
    PROVE  Bytes(c) = << >>
<1>1. Cardinality(DOMAIN c) = 0
  BY FS_EmptySet
<1>2. PICK s : s = [i \in 1 .. Cardinality(DOMAIN c) |-> c[i - 1]]
  OBVIOUS
<1>3. s = << >>
  BY <1>1, <1>2
<1>4. FlattenSeq(s) = << >>
  BY <1>3 DEF FlattenSeq
<1>. QED
  BY <1>2, <1>4, Zenon DEF Bytes

\* A chunk that is added comes after the bytes that were there.
LEMMA BytesOfMore ==
    ASSUME NEW E, NEW n \in Nat, NEW c, DOMAIN c = 0 .. (n - 1),
           \A s \in 0 .. (n - 1) : c[s] \in Seq(E),
           NEW x \in Seq(E)
    PROVE  Bytes(AddChunk(c, n, x)) = Bytes(c) \o x
<1>1. PICK d : d = AddChunk(c, n, x)
  OBVIOUS
<1>2. /\ DOMAIN d = 0 .. n /\ d[n] = x
      /\ \A s \in 0 .. (n - 1) : d[s] = c[s]
  BY <1>1 DEF AddChunk
<1>3. Cardinality(DOMAIN c) = n /\ Cardinality(DOMAIN d) = n + 1
  <2>1. /\ 0 \in Int /\ n \in Int /\ n - 1 \in Int
        /\ Cardinality(0 .. (n - 1)) = IF 0 > n - 1 THEN 0 ELSE n - 1 - 0 + 1
        /\ Cardinality(0 .. n) = IF 0 > n THEN 0 ELSE n - 0 + 1
    BY FS_Interval
  <2>. QED
    BY <1>2, <2>1
<1>4. PICK s : s = [i \in 1 .. n |-> c[i - 1]]
  OBVIOUS
<1>5. PICK t : t = [i \in 1 .. (n + 1) |-> d[i - 1]]
  OBVIOUS
<1>6. /\ s \in [1 .. n -> Seq(E)] /\ t \in [1 .. (n + 1) -> Seq(E)] /\ t[n + 1] = x
      /\ \A i \in 1 .. n : s[i] = t[i]
  BY <1>2, <1>4, <1>5
<1>7. Len(s) = n /\ Len(t) = n + 1
  BY <1>6, SeqOfElements
<1>8. Bytes(c) = FlattenSeq(s) /\ Bytes(d) = FlattenSeq(t)
  BY <1>3, <1>4, <1>5, Zenon DEF Bytes
<1>9. PICK g : Adds(g, t, n + 1) /\ FlattenSeq(t) = g[n + 1]
  BY <1>7, FlatAdds
<1>10. CASE n = 0
  <2>1. Bytes(c) = << >>
    BY <1>10, BytesOfNone
  <2>2. g[1] = t[1]
    BY <1>9, <1>10 DEF Adds
  <2>3. Bytes(d) = x
    BY <1>6, <1>8, <1>9, <1>10, <2>2
  <2>4. << >> \o x = x
    BY ConcatEmptySeq
  <2>. QED
    BY <1>1, <2>1, <2>3, <2>4, Zenon
<1>11. CASE n # 0
  <2>1. PICK f : Adds(f, s, n) /\ FlattenSeq(s) = f[n]
    BY <1>7, <1>11, FlatAdds
  <2>2. f[n] = g[n]
    <3>1. Agree(s, t, n)
      BY <1>6 DEF Agree
    <3>2. Agree(f, g, n)
      BY <1>9, <2>1, <3>1, AddsAgree
    <3>. QED
      BY <1>11, <3>2 DEF Agree
  <2>3. g[n + 1] = Join(g[n], t[n + 1])
    <3>1. n + 1 \in 1 .. (n + 1) /\ n + 1 # 1 /\ n + 1 - 1 = n
      BY <1>11
    <3>2. g[n + 1] = IF n + 1 = 1 THEN t[n + 1] ELSE Join(g[n + 1 - 1], t[n + 1])
      BY <1>9, <3>1 DEF Adds
    <3>. QED
      BY <3>1, <3>2
  <2>. QED
    BY <1>1, <1>6, <1>8, <1>9, <2>1, <2>2, <2>3, Zenon DEF Join
<1>. QED
  BY <1>10, <1>11


-----------------------------------------------------------------------------
(***************************************************************************)
(* The inductive invariant behind the properties of ArtifactExport.        *)
(***************************************************************************)

Byte == 0 .. 255
Offsets == [cursor: Nat, seq: Nat, total: Nat]

\* The bytes committed for j.
Stored(j) == Bytes(chunks[j])

\* What is committed for j begins a build.
Begun(j) == \E b \in built[j] : IsPrefix(Stored(j), b)

\* It is a whole build, or else an empty one was built as well.
Publishable(j) ==
    \E b \in built[j] : /\ IsPrefix(Stored(j), b)
                        /\ Stored(j) = b \/ << >> \in built[j]

\* The chunks of j are numbered without a gap, none is empty, and all of
\* them together begin a build.
ResultShape(j) ==
    /\ DOMAIN chunks[j] = 0 .. (jobs[j].chunks - 1)
    /\ \A s \in 0 .. (jobs[j].chunks - 1) :
          chunks[j][s] \in Seq(Byte) /\ Len(chunks[j][s]) \in 1 .. ChunkSize
    /\ Stored(j) \in Seq(Byte)
    /\ jobs[j].chunks > 0 => Len(Stored(j)) > 0 /\ Begun(j)
    /\ jobs[j].status = "absent" => jobs[j].chunks = 0 /\ jobs[j].cursor = 0

LocalTypes ==
    /\ mem \in [Workers -> Offsets]
    /\ build \in [Workers -> Builds \cup {<< >>}]
    /\ built \in [Jobs -> SUBSET Builds]
    /\ DOMAIN chunks = Jobs /\ DOMAIN sha = Workers /\ DOMAIN step = Workers

\* What w read of its row is what the row says, or its predecessor has
\* committed since: then w reads as at the very beginning, or its offset is
\* short of the bytes there are.
RowRead(w) ==
    LET j == item[w].job
        m == mem[w]
    IN  \/ m.seq = jobs[j].chunks /\ m.cursor = jobs[j].cursor
        \/ /\ m.seq < jobs[j].chunks
           /\ \/ m.seq = 0 /\ m.cursor = 0
              \/ 0 < m.cursor /\ m.cursor < Len(Stored(j))

\* What is committed is the part of its build that w has read.
Reading(w) ==
    LET j == item[w].job
        m == mem[w]
    IN  /\ m.seq = jobs[j].chunks
        /\ m.cursor \in 0 .. Len(build[w])
        /\ Stored(j) = SubSeq(build[w], 1, m.cursor)
        /\ jobs[j].cursor = m.cursor \/ m.cursor = Len(build[w])

\* w starts at the beginning of a result that has begun.
Behind(w) ==
    mem[w].seq = 0 /\ mem[w].cursor = 0 /\ jobs[item[w].job].chunks > 0

\* What w goes by: until it reads, the row; once it reads, as long as it
\* passes the fence, the result as w itself has made it.
WorkerKnows(w) ==
    LET j == item[w].job
    IN  /\ pc[w] = "claim" \/ (pc[w] = "process" /\ step[w] \in {"build", "resume"})
              => RowRead(w)
        /\ pc[w] = "process" /\ step[w] = "resume" => mem[w].cursor > 0
        /\ pc[w] = "process" /\ step[w] \in {"resume", "read"} => build[w] \in built[j]
        /\ pc[w] = "process" /\ fencedJob(jobs[j], w) =>
              /\ step[w] = "read" => Reading(w) \/ Behind(w)
              /\ step[w] \in {"identity", "finalize", "complete"} => Publishable(j)
              /\ step[w] \in {"finalize", "complete"} => sha[w] = chunks[j]

\* An artifact belongs to a completed job.
ArtifactsCompleted ==
    \A a \in artifacts : a.job \in Jobs /\ jobs[a.job].status = "completed"

ArtInv ==
    /\ TokenInv /\ LocalTypes
    /\ \A j \in Jobs : ResultShape(j)
    /\ \A w \in Workers : WorkerKnows(w)
    /\ CursorTruthful /\ PublishedIsABuild /\ ArtifactsCompleted


-----------------------------------------------------------------------------
(***************************************************************************)
(* Every step of an artifact export is one of the lease protocol.          *)
(***************************************************************************)

\* How far the read loop comes with one chunk.
ReadTo(w) ==
    IF mem[w].cursor + ChunkSize < Len(build[w])
    THEN mem[w].cursor + ChunkSize ELSE Len(build[w])

\* The builds are sequences of bytes.
LEMMA BuildTypes ==
    ASSUME LocalTypes, NEW w \in Workers
    PROVE  /\ build[w] \in Seq(Byte) /\ Len(build[w]) \in Nat
           /\ mem[w] \in Offsets
           /\ mem[w].cursor \in Nat /\ mem[w].seq \in Nat /\ mem[w].total \in Nat
<1>1. mem[w] \in Offsets
  BY DEF LocalTypes
<1>2. << >> \in Seq(Byte)
  OBVIOUS
<1>3. build[w] \in Seq(Byte)
  BY <1>2, ArtifactAssumption DEF LocalTypes, Byte
<1>4. Len(build[w]) \in Nat
  BY <1>3, LenProperties
<1>. QED
  BY <1>1, <1>3, <1>4 DEF Offsets

\* A chunk ends after it begins, and is no longer than ChunkSize.
LEMMA ReadToType ==
    ASSUME LocalTypes, NEW w \in Workers, mem[w].cursor < Len(build[w])
    PROVE  /\ ReadTo(w) \in Nat /\ mem[w].cursor < ReadTo(w)
           /\ ReadTo(w) <= Len(build[w]) /\ ReadTo(w) - mem[w].cursor <= ChunkSize
<1>1. PICK c \in Nat, l \in Nat, z \in Nat \ {0} :
         c = mem[w].cursor /\ l = Len(build[w]) /\ z = ChunkSize
  BY BuildTypes, ArtifactAssumption
<1>. QED
  BY <1>1 DEF ReadTo

\* The commit of a chunk is a fenced write of the progress columns.
LEMMA ChunkIsProgress ==
    ASSUME QueueTypeOK, LocalTypes, NEW w \in Workers, CommitChunk(w)
    PROVE  /\ SomeProgress(w)
           /\ item[w].job \in Jobs
           /\ jobs'[item[w].job].cursor = (IF ReadTo(w) < Len(build[w]) THEN ReadTo(w) ELSE 0)
           /\ jobs'[item[w].job].chunks = mem[w].seq + 1
           /\ \A k \in Jobs \ {item[w].job} : jobs'[k] = jobs[k]
<1>1. mem[w].cursor < Len(build[w])
  BY DEF CommitChunk
<1>2. PICK j \in Jobs, r \in JobRow, c \in Nat, u \in Nat, n \in Nat :
         /\ j = item[w].job /\ r = jobs[j]
         /\ u = (IF ReadTo(w) < Len(build[w]) THEN ReadTo(w) ELSE 0)
         /\ c = mem[w].total /\ n = mem[w].seq + 1
  <2>1. item[w].job \in Jobs /\ jobs[item[w].job] \in JobRow
    BY DEF QueueTypeOK, CommitChunk, Progress, Processing
  <2>2. ReadTo(w) \in Nat /\ mem[w].total \in Nat /\ mem[w].seq + 1 \in Nat
    BY <1>1, ReadToType, BuildTypes
  <2>. QED
    BY <2>1, <2>2
<1>3. Progress(w, c, u, n)
  BY <1>2 DEF CommitChunk, ReadTo
<1>4. jobs' = [jobs EXCEPT ![j] = Progressed(jobs[j], c, u, n)]
  BY <1>2, <1>3 DEF Progress
<1>5. /\ jobs'[j] = Progressed(r, c, u, n)
      /\ \A k \in Jobs \ {j} : jobs'[k] = jobs[k]
  BY <1>2, <1>4 DEF QueueTypeOK
<1>6. /\ Progressed(r, c, u, n) \in JobRow
      /\ Progressed(r, c, u, n).checkpoint = c
      /\ Progressed(r, c, u, n).cursor = u /\ Progressed(r, c, u, n).chunks = n
  BY ProgressRow
<1>7. /\ jobs'[j] \in JobRow /\ jobs'[j].checkpoint = c
      /\ jobs'[j].cursor = u /\ jobs'[j].chunks = n
  BY <1>5, <1>6, Zenon
<1>8. SomeProgress(w)
  BY <1>2, <1>3, <1>7 DEF SomeProgress
<1>. QED
  BY <1>2, <1>5, <1>7, <1>8

\* Every step is a step of the queue or leaves the queue's variables alone.
LEMMA ArtifactIsQueueStep ==
    ASSUME QueueTypeOK, LocalTypes, [ArtifactNext]_allvars
    PROVE  [QueueNext]_qvars
<1>1. ASSUME NEW w \in Workers, ArtifactClaimUpdate(w) PROVE [QueueNext]_qvars
  BY <1>1 DEF ArtifactClaimUpdate, QueueNext, WorkerStep
<1>2. ASSUME NEW w \in Workers, NEW content \in Builds, BuildExportArtifact(w, content)
      PROVE  [QueueNext]_qvars
  BY <1>2 DEF BuildExportArtifact
<1>3. ASSUME NEW w \in Workers, ResumeArtifact(w) PROVE [QueueNext]_qvars
  BY <1>3 DEF ResumeArtifact, QueueNext, WorkerStep
<1>4. ASSUME NEW w \in Workers, CommitChunk(w) PROVE [QueueNext]_qvars
  BY <1>4, ChunkIsProgress DEF QueueNext, WorkerStep
<1>5. ASSUME NEW w \in Workers, EndOfContent(w) PROVE [QueueNext]_qvars
  BY <1>5 DEF EndOfContent
<1>6. ASSUME NEW w \in Workers, Shared(w) PROVE [QueueNext]_qvars
  <2>1. CASE ResultIdentity(w) \/ CompleteExport(w)
    BY <2>1 DEF ResultIdentity, CompleteExport
  <2>2. ASSUME NEW ack \in BOOLEAN, CompleteJob(w, ack) PROVE [QueueNext]_qvars
    BY <2>2 DEF CompleteJob, QueueNext, WorkerStep
  <2>3. CASE \/ \E j \in Jobs : ExportClaimSelect(w, j)
             \/ GiveUp(w) \/ QueueOnly(w)
    BY <2>3 DEF ExportClaimSelect, GiveUp, QueueOnly, QueueNext, WorkerStep
  <2>. QED
    BY <1>6, <2>1, <2>2, <2>3 DEF Shared
<1>7. ASSUME NEW j \in Jobs, Submit(j) \/ Cancel(j) PROVE [QueueNext]_qvars
  BY <1>7 DEF QueueNext
<1>8. CASE Tick \/ UNCHANGED allvars
  BY <1>8 DEF QueueNext, allvars, vars, qvars
<1>. QED
  BY <1>1, <1>2, <1>3, <1>4, <1>5, <1>6, <1>7, <1>8, Zenon DEF ArtifactNext, ArtifactWorker


-----------------------------------------------------------------------------
(***************************************************************************)
(* Steps that commit nothing.                                              *)
(***************************************************************************)

\* The result of every job stays, and so do the builds made for it.
ResultKept ==
    /\ chunks' = chunks
    /\ \A j \in Jobs : /\ jobs'[j].chunks = jobs[j].chunks
                       /\ jobs'[j].cursor = jobs[j].cursor
                       /\ jobs'[j].status = "absent" => jobs[j].status = "absent"
                       /\ built[j] \subseteq built'[j]

\* The step leaves w where it is.
Unmoved(w) ==
    /\ pc'[w] = pc[w] /\ item'[w] = item[w] /\ mem'[w] = mem[w]
    /\ step'[w] = step[w] /\ build'[w] = build[w] /\ sha'[w] = sha[w]

\* What is committed goes on beginning a build.
LEMMA GrowingBuilds ==
    ASSUME NEW j \in Jobs, chunks'[j] = chunks[j], built[j] \subseteq built'[j]
    PROVE  (Begun(j) => Begun(j)') /\ (Publishable(j) => Publishable(j)')
BY DEF Begun, Publishable, Stored

\* A whole build can be published, and so can its beginning next to an
\* empty build.
LEMMA WholeOrEmpty ==
    ASSUME NEW j \in Jobs,
           Stored(j) \in built[j] \/ (Begun(j) /\ << >> \in built[j])
    PROVE  Publishable(j)
<1>1. CASE Stored(j) \in built[j]
  <2>1. IsPrefix(Stored(j), Stored(j))
    <3>1. Len(Stored(j)) <= Len(Stored(j))
      OBVIOUS
    <3>. QED
      BY <3>1 DEF IsPrefix
  <2>. QED
    BY <1>1, <2>1 DEF Publishable
<1>2. CASE Begun(j) /\ << >> \in built[j]
  BY <1>2 DEF Begun, Publishable
<1>. QED
  BY <1>1, <1>2

\* A worker that no step has moved knows what it knew.
LEMMA UnmovedKnows ==
    ASSUME TokenInv, [QueueNext]_qvars, ResultKept, NEW w \in Workers,
           WorkerKnows(w), Unmoved(w)
    PROVE  WorkerKnows(w)'
<1>1. CASE pc[w] \notin {"claim", "process"}
  BY <1>1 DEF WorkerKnows, Unmoved
<1>2. CASE pc[w] \in {"claim", "process"}
  <2>1. PICK j \in Jobs : j = item[w].job /\ j = item'[w].job
    BY <1>2 DEF TokenInv, QueueTypeOK, Unmoved
  <2>2. fencedJob(jobs[j], w)' => fencedJob(jobs[j], w)
    <3>1. KeepsClaim(w)
      BY DEF Unmoved, KeepsClaim
    <3>. QED
      BY <1>2, <2>1, <3>1, FenceNotRegained DEF Unmoved
  <2>3. Stored(j)' = Stored(j) /\ chunks'[j] = chunks[j]
    BY DEF ResultKept, Stored
  <2>4. RowRead(w) => RowRead(w)'
    BY <2>1, <2>3 DEF ResultKept, Unmoved, RowRead
  <2>5. Reading(w) \/ Behind(w) => (Reading(w) \/ Behind(w))'
    BY <2>1, <2>3 DEF ResultKept, Unmoved, Reading, Behind
  <2>6. built[j] \subseteq built'[j]
    BY DEF ResultKept
  <2>7. Publishable(j) => Publishable(j)'
    BY <2>3, <2>6, GrowingBuilds
  <2>. QED
    BY <2>1, <2>2, <2>3, <2>4, <2>5, <2>6, <2>7 DEF WorkerKnows, Unmoved
<1>. QED
  BY <1>1, <1>2

\* A worker that has let go of its job, or goes on to fail it, is not asked.
LEMMA LeftKnows ==
    ASSUME NEW w \in Workers, pc'[w] \in {"idle", "fail"}
    PROVE  WorkerKnows(w)'
BY DEF WorkerKnows

\* The results, their cursors and the artifacts are as they were.
LEMMA KeptResults ==
    ASSUME ArtInv, ResultKept
    PROVE  /\ \A j \in Jobs : ResultShape(j)'
           /\ CursorTruthful'
           /\ \A a \in artifacts : /\ a.sha = chunks'[a.job]
                                   /\ a.job \in Jobs /\ Publishable(a.job)'
<1>1. ASSUME NEW j \in Jobs PROVE ResultShape(j)'
  <2>1. ResultShape(j)
    BY DEF ArtInv
  <2>2. Stored(j)' = Stored(j) /\ chunks'[j] = chunks[j]
    BY DEF ResultKept, Stored
  <2>3. Begun(j) => Begun(j)'
    BY <2>2, GrowingBuilds DEF ResultKept
  <2>. QED
    BY <2>1, <2>2, <2>3 DEF ResultShape, ResultKept
<1>2. CursorTruthful'
  <2>1. CursorTruthful /\ chunks' = chunks
    BY DEF ArtInv, ResultKept
  <2>. QED
    BY <2>1 DEF CursorTruthful, ResultKept
<1>3. ASSUME NEW a \in artifacts
      PROVE  a.sha = chunks'[a.job] /\ a.job \in Jobs /\ Publishable(a.job)'
  <2>1. /\ a.sha = chunks[a.job] /\ Publishable(a.job)
        /\ a.job \in Jobs /\ chunks' = chunks
    BY DEF ArtInv, PublishedIsABuild, ArtifactsCompleted, ResultKept, Publishable, Stored
  <2>. QED
    BY <2>1, GrowingBuilds DEF ResultKept
<1>. QED
  BY <1>1, <1>2, <1>3

\* A step of the queue leaves the jobs of the artifacts completed.
LEMMA CompletedStay ==
    ASSUME ArtInv, [QueueNext]_qvars
    PROVE  \A a \in artifacts : a.job \in Jobs /\ jobs'[a.job].status = "completed"
<1>1. SUFFICES ASSUME NEW a \in artifacts
               PROVE  a.job \in Jobs /\ jobs'[a.job].status = "completed"
  OBVIOUS
<1>2. a.job \in Jobs /\ jobs[a.job].status = "completed"
  BY DEF ArtInv, ArtifactsCompleted
<1>3. jobs'[a.job] = jobs[a.job]
  BY <1>2, OnlyOpenRowsChange DEF ArtInv, TokenInv
<1>. QED
  BY <1>2, <1>3

\* A step that commits and publishes nothing keeps the invariant if the
\* worker that moves knows what it should.
LEMMA QuietKeeps ==
    ASSUME ArtInv, [QueueNext]_qvars, ResultKept, LocalTypes', artifacts' = artifacts,
           \A v \in Workers : Unmoved(v) \/ WorkerKnows(v)'
    PROVE  ArtInv'
<1>1. TokenInv'
  BY TokenStep DEF ArtInv
<1>2. ASSUME NEW v \in Workers PROVE WorkerKnows(v)'
  BY UnmovedKnows DEF ArtInv
<1>3. ArtifactsCompleted'
  BY CompletedStay DEF ArtifactsCompleted
<1>4. PublishedIsABuild'
  BY KeptResults DEF PublishedIsABuild, Publishable, Stored
<1>. QED
  BY <1>1, <1>2, <1>3, <1>4, KeptResults DEF ArtInv


\* Of the queue's steps, those of a worker that are no progress keep the
\* results.
LEMMA WorkerKeepsResult ==
    ASSUME ArtInv, chunks' = chunks, built' = built, NEW w \in Workers,
           \/ \E j \in Jobs : ClaimSelect(w, j)
           \/ ClaimUpdate(w) \/ ClaimMissed(w) \/ Heartbeat(w) \/ Interrupt(w)
           \/ ProcessError(w) \/ Fail(w) \/ FailStale(w) \/ Crash(w)
           \/ \E ack \in BOOLEAN : Complete(w, ack)
    PROVE  ResultKept
<1>1. \A j \in Jobs : ProgressKeeps(j)
  BY WorkerKeepsProgress DEF ArtInv, TokenInv
<1>. QED
  BY <1>1 DEF ResultKept, ProgressKeeps

\* A step that leaves the queue and the chunks alone keeps the results.
LEMMA AsideKeepsResult ==
    ASSUME UNCHANGED qvars, chunks' = chunks,
           \A j \in Jobs : built[j] \subseteq built'[j]
    PROVE  ResultKept
BY DEF ResultKept, qvars

\* The SELECT of a claim reads the row.
LEMMA SelectKeeps ==
    ASSUME ArtInv, [QueueNext]_qvars, NEW w \in Workers, NEW j \in Jobs,
           ExportClaimSelect(w, j), build' = build, built' = built
    PROVE  ArtInv'
<1> USE DEF ArtInv, TokenInv, QueueTypeOK
<1>1. PICK m \in Offsets :
         m = [cursor |-> jobs[j].cursor, seq |-> jobs[j].chunks,
              total |-> jobs[j].checkpoint]
  BY DEF JobRow, Offsets
<1>2. /\ ClaimSelect(w, j) /\ mem' = [mem EXCEPT ![w] = m]
      /\ UNCHANGED <<chunks, artifacts, sha, step, completions>>
  BY <1>1, Zenon DEF ExportClaimSelect
<1>3. ResultKept
  BY <1>2, WorkerKeepsResult, Zenon
<1>4. LocalTypes'
  BY <1>2 DEF LocalTypes
<1>5. \A v \in Workers \ {w} : Unmoved(v)
  BY <1>2 DEF ClaimSelect, Unmoved, LocalTypes
<1>6. pc'[w] = "claim" /\ item'[w].job = j /\ mem'[w] = m /\ jobs' = jobs
  BY <1>2 DEF ClaimSelect, LocalTypes
<1>7. m.seq = jobs[j].chunks /\ m.cursor = jobs[j].cursor
  BY <1>1
<1>8. WorkerKnows(w)'
  BY <1>6, <1>7 DEF WorkerKnows, RowRead
<1>. QED
  BY <1>2, <1>3, <1>4, <1>5, <1>8, QuietKeeps

\* The UPDATE of a claim leaves what was read.
LEMMA UpdateKeeps ==
    ASSUME ArtInv, [QueueNext]_qvars, NEW w \in Workers, ArtifactClaimUpdate(w)
    PROVE  ArtInv'
<1>1. /\ ClaimUpdate(w) /\ step' = [step EXCEPT ![w] = "build"]
      /\ UNCHANGED <<chunks, artifacts, mem, sha, completions, build, built>>
  BY DEF ArtifactClaimUpdate, bvars
<1>2. ResultKept
  BY <1>1, WorkerKeepsResult
<1> USE DEF ArtInv, TokenInv, QueueTypeOK
<1>3. LocalTypes'
  BY <1>1 DEF LocalTypes
<1>4. \A v \in Workers \ {w} : Unmoved(v)
  BY <1>1 DEF ClaimUpdate, Unmoved, LocalTypes
<1>5. /\ pc[w] = "claim" /\ pc'[w] = "process" /\ step'[w] = "build"
      /\ item' = [item EXCEPT ![w] = Taken(item[w])] /\ item[w] \in WorkItem
  BY <1>1 DEF ClaimUpdate, LocalTypes
<1>6. item'[w].job = item[w].job /\ item[w].job \in Jobs
  BY <1>5, ClaimedItem
<1>7. PICK j \in Jobs : j = item[w].job
  BY <1>6
<1>8. Stored(j)' = Stored(j)
  BY <1>1 DEF Stored
<1>9. RowRead(w)
  BY <1>5 DEF WorkerKnows
<1>10. RowRead(w)'
  BY <1>1, <1>2, <1>6, <1>7, <1>8, <1>9 DEF RowRead, ResultKept
<1>11. WorkerKnows(w)'
  BY <1>5, <1>10 DEF WorkerKnows
<1>. QED
  BY <1>1, <1>2, <1>3, <1>4, <1>11, QuietKeeps

\* A worker that forgets its locals keeps them typed.
LEMMA ForgetTyped ==
    ASSUME LocalTypes, chunks' = chunks, built' = built, NEW w \in Workers,
           ResetLocals(w), build' = [build EXCEPT ![w] = << >>]
    PROVE  LocalTypes'
<1>1. NoMem \in Offsets
  BY DEF NoMem, Offsets
<1>. QED
  BY <1>1 DEF LocalTypes, ResetLocals

\* A worker that gives up its job knows nothing of it.
LEMMA GiveUpKeeps ==
    ASSUME ArtInv, [QueueNext]_qvars, NEW w \in Workers, GiveUp(w),
           built' = built, build' = [build EXCEPT ![w] = << >>]
    PROVE  ArtInv'
<1>1. /\ ClaimMissed(w) \/ Fail(w) \/ FailStale(w) \/ Crash(w)
      /\ ResetLocals(w) /\ UNCHANGED <<chunks, artifacts, completions>>
  BY DEF GiveUp
<1>2. ResultKept
  BY <1>1, WorkerKeepsResult
<1>3. LocalTypes'
  BY <1>1, ForgetTyped DEF ArtInv
<1>4. Idle(w)
  BY <1>1 DEF ClaimMissed, Fail, FailStale, Crash
<1>5. \A v \in Workers \ {w} : Unmoved(v)
  BY <1>1, <1>4 DEF Unmoved, Idle, ResetLocals, ArtInv, TokenInv, QueueTypeOK, LocalTypes
<1>6. pc'[w] = "idle"
  BY <1>4 DEF Idle, ArtInv, TokenInv, QueueTypeOK
<1>. QED
  BY <1>1, <1>2, <1>3, <1>5, <1>6, LeftKnows, QuietKeeps

\* Heartbeats, interruptions and errors leave the locals alone.
LEMMA QueueOnlyKeeps ==
    ASSUME ArtInv, [QueueNext]_qvars, NEW w \in Workers, QueueOnly(w), UNCHANGED bvars
    PROVE  ArtInv'
<1>1. /\ Heartbeat(w) \/ Interrupt(w) \/ ProcessError(w)
      /\ UNCHANGED <<chunks, artifacts, mem, sha, step, build, built>>
  BY DEF QueueOnly, evars, bvars
<1>2. ResultKept
  BY <1>1, WorkerKeepsResult
<1>3. LocalTypes'
  BY <1>1 DEF ArtInv, LocalTypes
<1>4. \A v \in Workers : Unmoved(v) \/ pc'[v] = "fail"
  <2>1. CASE Heartbeat(w) \/ Interrupt(w)
    BY <1>1, <2>1 DEF Unmoved, Heartbeat, Interrupt
  <2>2. CASE ProcessError(w)
    BY <1>1, <2>2, ErrorShape DEF Unmoved, ArtInv, TokenInv
  <2>. QED
    BY <1>1, <2>1, <2>2
<1>. QED
  BY <1>1, <1>2, <1>3, <1>4, LeftKnows, QuietKeeps

\* Submissions, cancellations and the clock move no worker.
LEMMA OutsideKeeps ==
    ASSUME ArtInv, [QueueNext]_qvars, UNCHANGED <<evars, bvars>>,
           \/ \E j \in Jobs : Submit(j) \/ Cancel(j)
           \/ Tick
           \/ UNCHANGED qvars
    PROVE  ArtInv'
<1>1. UNCHANGED <<pc, item, chunks, artifacts, mem, sha, step, build, built>>
  BY DEF Submit, Cancel, Tick, qvars, evars, bvars
<1>2. ASSUME NEW j \in Jobs, Submit(j) PROVE ResultKept
  <2>1. /\ jobs[j].status = "absent" /\ jobs'[j].status = "queued"
        /\ jobs'[j].chunks = 0 /\ jobs'[j].cursor = 0
        /\ \A k \in Jobs \ {j} : jobs'[k] = jobs[k]
    BY <1>2, SubmitShape DEF ArtInv, TokenInv
  <2>2. jobs[j].chunks = 0 /\ jobs[j].cursor = 0
    BY <2>1 DEF ArtInv, ResultShape
  <2>. QED
    BY <1>1, <2>1, <2>2 DEF ResultKept
<1>3. ASSUME NEW j \in Jobs, Cancel(j) PROVE ResultKept
  <2>1. \A k \in Jobs : ProgressKeeps(k)
    BY <1>3, CancelKeepsProgress DEF ArtInv, TokenInv
  <2>. QED
    BY <1>1, <2>1 DEF ResultKept, ProgressKeeps
<1>4. ASSUME Tick \/ UNCHANGED qvars PROVE ResultKept
  BY <1>1, <1>4 DEF Tick, qvars, ResultKept
<1>5. ResultKept
  BY <1>2, <1>3, <1>4
<1>6. LocalTypes'
  BY <1>1 DEF ArtInv, LocalTypes
<1>. QED
  BY <1>1, <1>5, <1>6, QuietKeeps DEF Unmoved


-----------------------------------------------------------------------------
(***************************************************************************)
(* From the row to the end of the stream, and the end of the job.          *)
(***************************************************************************)

\* What is committed is a sequence of bytes, none as long as there are no
\* chunks.
LEMMA StoredType ==
    ASSUME ArtInv, NEW j \in Jobs
    PROVE  /\ Stored(j) \in Seq(Byte) /\ Len(Stored(j)) \in Nat
           /\ jobs[j].chunks \in Nat /\ jobs[j].cursor \in Nat
           /\ jobs[j].chunks = 0 => Stored(j) = << >>
<1>1. ResultShape(j)
  BY DEF ArtInv
<1>2. Stored(j) \in Seq(Byte) /\ DOMAIN chunks[j] = 0 .. (jobs[j].chunks - 1)
  BY <1>1 DEF ResultShape
<1>3. Len(Stored(j)) \in Nat
  BY <1>2, LenProperties
<1>4. jobs[j].chunks \in Nat /\ jobs[j].cursor \in Nat
  BY DEF ArtInv, TokenInv, QueueTypeOK, JobRow
<1>5. ASSUME jobs[j].chunks = 0 PROVE Stored(j) = << >>
  <2>1. DOMAIN chunks[j] = {}
    BY <1>2, <1>5
  <2>. QED
    BY <2>1, BytesOfNone DEF Stored
<1>. QED
  BY <1>2, <1>3, <1>4, <1>5

\* Nothing read is nothing of any build.
LEMMA NothingRead ==
    ASSUME NEW s \in Seq(Byte)
    PROVE  SubSeq(s, 1, 0) = << >> /\ SubSeq(s, 1, Len(s)) = s
<1>1. SubSeq(s, 1, 0) = << >>
  BY SubSeqEmpty
<1>2. SubSeq(s, 1, Len(s)) = s
  BY SubSeqFull
<1>. QED
  BY <1>1, <1>2

\* With the artifact built, the row tells where to go on.
LEMMA BuildKeeps ==
    ASSUME ArtInv, [QueueNext]_qvars, NEW w \in Workers, NEW content \in Builds,
           BuildExportArtifact(w, content)
    PROVE  ArtInv'
<1> USE DEF ArtInv, TokenInv, QueueTypeOK
<1>1. /\ pc[w] = "process" /\ step[w] = "build"
      /\ build' = [build EXCEPT ![w] = content]
      /\ step' = [step EXCEPT ![w] = AfterBuild(mem[w])]
      /\ UNCHANGED <<clock, jobs, pc, item, live>>
      /\ UNCHANGED <<chunks, artifacts, sha, completions>>
  BY DEF BuildExportArtifact, qvars
<1>2. PICK j \in Jobs : j = item[w].job
  BY <1>1
<1>3. content \in Seq(Byte) /\ Len(content) \in Nat
  BY ArtifactAssumption, LenProperties DEF Byte
<1>4. built' = [built EXCEPT ![j] = built[j] \cup {content}]
  BY <1>2 DEF BuildExportArtifact
<1>5. PICK m \in Offsets : m = mem[w]
  BY BuildTypes
<1>6. PICK n \in Offsets : /\ n = [m EXCEPT !.total = Len(content)]
                           /\ n.cursor = m.cursor /\ n.seq = m.seq
  <2>1. PICK n : n = [m EXCEPT !.total = Len(content)]
    OBVIOUS
  <2>2. n \in Offsets /\ n.cursor = m.cursor /\ n.seq = m.seq
    BY <1>3, <2>1 DEF Offsets
  <2>. QED
    BY <2>1, <2>2, Zenon
<1>7. mem' = [mem EXCEPT ![w] = n]
  BY <1>5, <1>6, Zenon DEF BuildExportArtifact
<1>8. ResultKept
  BY <1>1, <1>4 DEF ResultKept, LocalTypes
<1>9. LocalTypes'
  <2>1. built[j] \cup {content} \in SUBSET Builds
    BY DEF LocalTypes
  <2>. QED
    BY <1>1, <1>4, <1>7, <2>1 DEF LocalTypes
<1>10. \A v \in Workers \ {w} : Unmoved(v)
  BY <1>1, <1>7 DEF Unmoved, LocalTypes
<1>11. /\ build'[w] = content /\ content \in built'[j] /\ built[j] \subseteq built'[j]
       /\ mem'[w] = n /\ step'[w] = AfterBuild(m) /\ Stored(j)' = Stored(j)
       /\ item'[w] = item[w] /\ jobs' = jobs
  BY <1>1, <1>4, <1>5, <1>7 DEF LocalTypes, Stored
<1>12. \/ m.seq = jobs[j].chunks /\ m.cursor = jobs[j].cursor
       \/ /\ m.seq < jobs[j].chunks
          /\ \/ m.seq = 0 /\ m.cursor = 0
             \/ 0 < m.cursor /\ m.cursor < Len(Stored(j))
  BY <1>1, <1>2, <1>5 DEF WorkerKnows, RowRead
<1>13. m.cursor \in Nat /\ m.seq \in Nat
  BY DEF Offsets
<1>14. ASSUME m.cursor > 0 PROVE WorkerKnows(w)'
  <2>1. step'[w] = "resume"
    BY <1>11, <1>14 DEF AfterBuild
  <2>2. RowRead(w)'
    BY <1>2, <1>6, <1>11, <1>12 DEF RowRead
  <2>. QED
    BY <1>2, <1>6, <1>11, <1>14, <2>1, <2>2 DEF WorkerKnows
<1>15. ASSUME m.cursor = 0, m.seq = 0 PROVE WorkerKnows(w)'
  <2>1. step'[w] = "read"
    BY <1>11, <1>15 DEF AfterBuild
  <2>2. ASSUME jobs[j].chunks = 0 PROVE Reading(w)'
    <3>1. Stored(j) = << >> /\ jobs[j].cursor = 0
      BY <1>12, <1>15, <2>2, StoredType
    <3>2. Stored(j) = SubSeq(content, 1, 0)
      BY <1>3, <3>1, NothingRead
    <3>. QED
      BY <1>2, <1>3, <1>6, <1>11, <1>15, <2>2, <3>1, <3>2 DEF Reading
  <2>3. ASSUME jobs[j].chunks # 0 PROVE Behind(w)'
    BY <1>2, <1>6, <1>11, <1>15, <2>3, StoredType DEF Behind
  <2>4. (Reading(w) \/ Behind(w))'
    BY <2>2, <2>3
  <2>. QED
    BY <1>1, <1>2, <1>11, <2>1, <2>4 DEF WorkerKnows
<1>16. ASSUME m.cursor = 0, m.seq # 0 PROVE WorkerKnows(w)'
  <2>1. step'[w] = "identity"
    BY <1>11, <1>13, <1>16 DEF AfterBuild
  <2>2. jobs[j].chunks > 0 /\ jobs[j].cursor = 0
    BY <1>12, <1>13, <1>16
  <2>3. Publishable(j)
    BY <2>2, WholeOrEmpty DEF CursorTruthful, Stored
  <2>4. Publishable(j)'
    BY <1>1, <1>11, <2>3, GrowingBuilds
  <2>. QED
    BY <1>1, <1>2, <1>11, <2>1, <2>4 DEF WorkerKnows
<1>17. WorkerKnows(w)'
  BY <1>13, <1>14, <1>15, <1>16
<1> HIDE DEF ArtInv, TokenInv, QueueTypeOK
<1>. QED
  BY <1>1, <1>8, <1>9, <1>10, <1>17, QuietKeeps


\* The prefix check lets a worker read on only where the chunks end.
LEMMA ResumeKeeps ==
    ASSUME ArtInv, [QueueNext]_qvars, NEW w \in Workers, ResumeArtifact(w)
    PROVE  ArtInv'
<1>1. /\ pc[w] = "process" /\ step[w] = "resume"
      /\ UNCHANGED <<chunks, artifacts, mem, sha, build, built>>
  BY DEF ResumeArtifact, Processing, bvars
<1>2. CASE ~PrefixKept(w)
  <2>1. ProcessError(w) /\ step' = step
    BY <1>2 DEF ResumeArtifact
  <2>2. ResultKept
    BY <1>1, <2>1, WorkerKeepsResult
  <2>3. LocalTypes'
    BY <1>1, <2>1 DEF ArtInv, LocalTypes
  <2>4. /\ \A v \in Workers \ {w} : Unmoved(v)
        /\ pc'[w] = "fail"
    BY <1>1, <2>1, ErrorShape DEF Unmoved, ArtInv, TokenInv
  <2>. QED
    BY <1>1, <2>2, <2>3, <2>4, LeftKnows, QuietKeeps
<1>3. CASE PrefixKept(w)
  <2>1. step' = [step EXCEPT ![w] = "read"] /\ UNCHANGED qvars
    BY <1>3 DEF ResumeArtifact
  <2>2. ResultKept
    BY <1>1, <2>1, AsideKeepsResult
  <2>3. LocalTypes'
    BY <1>1, <2>1 DEF ArtInv, LocalTypes
  <2>4. /\ \A v \in Workers \ {w} : Unmoved(v)
        /\ pc'[w] = "process" /\ step'[w] = "read" /\ item'[w] = item[w]
        /\ jobs' = jobs
    BY <1>1, <2>1 DEF Unmoved, qvars, ArtInv, LocalTypes
  <2>5. PICK j \in Jobs : j = item[w].job
    BY <1>1 DEF ArtInv, TokenInv, QueueTypeOK
  <2>6. /\ RowRead(w) /\ mem[w].cursor > 0 /\ build[w] \in built[j]
    BY <1>1, <2>5 DEF ArtInv, WorkerKnows
  <2>7. /\ mem[w].cursor \in Nat /\ mem[w].seq \in Nat
        /\ build[w] \in Seq(Byte) /\ Len(build[w]) \in Nat
    BY BuildTypes DEF ArtInv
  <2>8. /\ Len(Stored(j)) = mem[w].cursor /\ Len(Stored(j)) <= Len(build[w])
        /\ SubSeq(Stored(j), 1, Len(Stored(j))) = SubSeq(build[w], 1, Len(Stored(j)))
    BY <1>3, <2>5, Zenon DEF PrefixKept, IsPrefix, Stored
  <2>9. /\ Stored(j) \in Seq(Byte) /\ Len(Stored(j)) \in Nat
        /\ jobs[j].chunks \in Nat /\ jobs[j].cursor \in Nat
    BY StoredType
  <2>10. Stored(j) = SubSeq(build[w], 1, mem[w].cursor)
    <3>1. SubSeq(Stored(j), 1, Len(Stored(j))) = Stored(j)
      BY <2>9, NothingRead
    <3>. QED
      BY <2>8, <3>1, Zenon
  <2>11. mem[w].seq = jobs[j].chunks /\ mem[w].cursor = jobs[j].cursor
    BY <2>5, <2>6, <2>7, <2>8, <2>9 DEF RowRead
  <2>12. Reading(w)'
    <3>1. Stored(j)' = Stored(j)
      BY <1>1 DEF Stored
    <3>2. Reading(w)
      BY <2>5, <2>7, <2>8, <2>10, <2>11 DEF Reading
    <3>. QED
      BY <1>1, <2>4, <2>5, <3>1, <3>2 DEF Reading
  <2>13. WorkerKnows(w)'
    BY <1>1, <2>4, <2>5, <2>6, <2>12 DEF WorkerKnows
  <2>. QED
    BY <1>1, <2>2, <2>3, <2>4, <2>13, QuietKeeps
<1>. QED
  BY <1>2, <1>3

\* At the end of its stream, a worker that passes the fence has committed
\* all of its build, or its build is empty.
LEMMA EndKeeps ==
    ASSUME ArtInv, [QueueNext]_qvars, NEW w \in Workers, EndOfContent(w)
    PROVE  ArtInv'
<1>1. /\ pc[w] = "process" /\ step[w] = "read" /\ mem[w].cursor = Len(build[w])
      /\ step' = [step EXCEPT ![w] = "identity"]
      /\ UNCHANGED qvars /\ UNCHANGED <<chunks, artifacts, mem, sha, build, built>>
  BY DEF EndOfContent, bvars
<1>2. ResultKept
  BY <1>1, AsideKeepsResult
<1>3. LocalTypes'
  BY <1>1 DEF ArtInv, LocalTypes
<1>4. /\ \A v \in Workers \ {w} : Unmoved(v)
      /\ pc'[w] = "process" /\ step'[w] = "identity" /\ item'[w] = item[w]
      /\ jobs' = jobs
  BY <1>1 DEF Unmoved, qvars, ArtInv, LocalTypes
<1>5. PICK j \in Jobs : j = item[w].job
  BY <1>1 DEF ArtInv, TokenInv, QueueTypeOK
<1>6. build[w] \in built[j] /\ build[w] \in Seq(Byte)
  BY <1>1, <1>5, BuildTypes DEF ArtInv, WorkerKnows
<1>7. ASSUME fencedJob(jobs[j], w) PROVE Publishable(j)
  <2>1. Reading(w) \/ Behind(w)
    BY <1>1, <1>5, <1>7 DEF ArtInv, WorkerKnows
  <2>2. CASE Reading(w)
    <3>1. Stored(j) = SubSeq(build[w], 1, Len(build[w]))
      BY <1>1, <1>5, <2>2 DEF Reading
    <3>. QED
      BY <1>6, <3>1, NothingRead, WholeOrEmpty
  <2>3. CASE Behind(w)
    <3>1. Len(build[w]) = 0 /\ jobs[j].chunks > 0
      BY <1>1, <1>5, <2>3 DEF Behind
    <3>2. build[w] = << >>
      BY <1>6, <3>1, EmptySeq
    <3>3. Begun(j)
      BY <3>1 DEF ArtInv, ResultShape
    <3>. QED
      BY <1>6, <3>2, <3>3, WholeOrEmpty
  <2>. QED
    BY <2>1, <2>2, <2>3
<1>8. WorkerKnows(w)'
  <2>1. Stored(j)' = Stored(j)
    BY <1>1 DEF Stored
  <2>2. fencedJob(jobs[j], w)' => fencedJob(jobs[j], w)
    BY <1>4 DEF fencedJob
  <2>3. Publishable(j) => Publishable(j)'
    BY <1>1, GrowingBuilds
  <2>. QED
    BY <1>1, <1>4, <1>5, <1>7, <2>1, <2>2, <2>3 DEF WorkerKnows
<1>. QED
  BY <1>1, <1>2, <1>3, <1>4, <1>8, QuietKeeps

\* The digest is taken of, and the provider completes, what is committed.
LEMMA FinishKeeps ==
    ASSUME ArtInv, [QueueNext]_qvars, NEW w \in Workers,
           ResultIdentity(w) \/ CompleteExport(w), UNCHANGED bvars
    PROVE  ArtInv'
<1>1. /\ UNCHANGED qvars /\ UNCHANGED <<chunks, artifacts, mem, build, built>>
      /\ pc[w] = "process"
  BY DEF ResultIdentity, CompleteExport, bvars, Processing
<1>2. ResultKept
  BY <1>1, AsideKeepsResult
<1>3. LocalTypes'
  BY <1>1 DEF ResultIdentity, CompleteExport, ArtInv, LocalTypes
<1>4. /\ \A v \in Workers \ {w} : Unmoved(v)
      /\ pc'[w] = "process" /\ item'[w] = item[w] /\ jobs' = jobs
  BY <1>1 DEF ResultIdentity, CompleteExport, Unmoved, qvars, ArtInv, LocalTypes
<1>5. PICK j \in Jobs : j = item[w].job
  BY <1>1 DEF ArtInv, TokenInv, QueueTypeOK
<1>6. \/ /\ step[w] = "identity" /\ step'[w] = "finalize" /\ sha'[w] = chunks[j]
      \/ /\ step[w] = "finalize" /\ step'[w] = "complete" /\ sha'[w] = sha[w]
  BY <1>5 DEF ResultIdentity, CompleteExport, ArtInv, LocalTypes
<1>7. WorkerKnows(w)'
  <2>1. Stored(j)' = Stored(j) /\ chunks'[j] = chunks[j]
    BY <1>1 DEF Stored
  <2>2. fencedJob(jobs[j], w)' => fencedJob(jobs[j], w)
    BY <1>4 DEF fencedJob
  <2>3. WorkerKnows(w)
    BY DEF ArtInv
  <2>4. Publishable(j) => Publishable(j)'
    BY <1>1, <2>1, GrowingBuilds
  <2>. QED
    BY <1>1, <1>4, <1>5, <1>6, <2>1, <2>2, <2>3, <2>4 DEF WorkerKnows
<1>. QED
  BY <1>1, <1>2, <1>3, <1>4, <1>7, QuietKeeps

\* What is published is what the worker that passes the fence has made.
LEMMA PublishKeeps ==
    ASSUME ArtInv, [QueueNext]_qvars, NEW w \in Workers, NEW ack \in BOOLEAN,
           CompleteJob(w, ack), built' = built,
           build' = IF pc'[w] = "idle" THEN [build EXCEPT ![w] = << >>] ELSE build
    PROVE  ArtInv'
<1>1. PICK j \in Jobs : j = item[w].job
  BY DEF CompleteJob, Complete, Processing, ArtInv, TokenInv, QueueTypeOK
<1>2. /\ Complete(w, ack) /\ step[w] = "complete" /\ chunks' = chunks
      /\ artifacts' = artifacts \cup {[job |-> j, sha |-> sha[w]]}
      /\ IF ack THEN ResetLocals(w) ELSE UNCHANGED <<mem, sha, step>>
  BY <1>1 DEF CompleteJob
<1>3. ResultKept
  BY <1>2, WorkerKeepsResult
<1>4. /\ pc[w] = "process" /\ fencedJob(jobs[j], w)
      /\ jobs' = [jobs EXCEPT ![j] = Completed(jobs[j])]
      /\ IF ack THEN Idle(w) ELSE PlanFailure(w)
  BY <1>1, <1>2 DEF Complete, Processing
<1>5. sha[w] = chunks[j] /\ Publishable(j)
  BY <1>1, <1>2, <1>4 DEF ArtInv, WorkerKnows
<1>6. pc'[w] \in {"idle", "fail"} /\ (ack => pc'[w] = "idle") /\ (~ack => pc'[w] = "fail")
  <2>1. CASE ack
    BY <1>4, <2>1 DEF Idle, ArtInv, TokenInv, QueueTypeOK
  <2>2. CASE ~ack
    BY <1>4, <2>2, PlanShape DEF ArtInv, TokenInv
  <2>. QED
    BY <2>1, <2>2
<1>7. /\ LocalTypes'
      /\ \A v \in Workers \ {w} : Unmoved(v)
  <2>1. CASE ack
    <3>1. ResetLocals(w) /\ Idle(w) /\ build' = [build EXCEPT ![w] = << >>]
      BY <1>2, <1>4, <1>6, <2>1
    <3>2. LocalTypes'
      BY <1>2, <3>1, ForgetTyped DEF ArtInv
    <3>. QED
      BY <3>1, <3>2 DEF Unmoved, Idle, ResetLocals, ArtInv, TokenInv, QueueTypeOK, LocalTypes
  <2>2. CASE ~ack
    <3>1. UNCHANGED <<mem, sha, step, build>> /\ PlanFailure(w)
      BY <1>2, <1>4, <1>6, <2>2
    <3>2. \A v \in Workers \ {w} : Unmoved(v)
      BY <3>1, PlanShape DEF Unmoved, ArtInv, TokenInv
    <3>. QED
      BY <1>2, <3>1, <3>2 DEF ArtInv, LocalTypes
  <2>. QED
    BY <2>1, <2>2
<1>8. TokenInv'
  BY TokenStep DEF ArtInv
<1>9. ASSUME NEW v \in Workers PROVE WorkerKnows(v)'
  BY <1>3, <1>6, <1>7, LeftKnows, UnmovedKnows DEF ArtInv
<1>10. jobs'[j].status = "completed"
  BY <1>4, CompletedRow DEF ArtInv, TokenInv, QueueTypeOK
<1>11. PICK new : new = [job |-> j, sha |-> sha[w]]
  OBVIOUS
<1>12. /\ artifacts' = artifacts \cup {new}
       /\ new.job = j /\ new.sha = sha[w]
  <2>1. new.job = j /\ new.sha = sha[w]
    BY <1>11
  <2>. QED
    BY <1>2, <1>11, <2>1, Zenon
<1>13. ArtifactsCompleted'
  BY <1>10, <1>12, CompletedStay DEF ArtifactsCompleted
<1>14. PublishedIsABuild'
  <2>1. Publishable(j)'
    BY <1>2, <1>5, GrowingBuilds
  <2>2. new.sha = chunks'[new.job] /\ Publishable(new.job)'
    BY <1>2, <1>5, <1>12, <2>1
  <2>. QED
    BY <1>3, <1>12, <2>2, KeptResults DEF PublishedIsABuild, Publishable, Stored
<1>. QED
  BY <1>3, <1>7, <1>8, <1>9, <1>13, <1>14, KeptResults DEF ArtInv


-----------------------------------------------------------------------------
(***************************************************************************)
(* The commit of a chunk.                                                  *)
(***************************************************************************)

\* A piece of a build, and the build up to its end.
LEMMA Pieces ==
    ASSUME NEW s \in Seq(Byte), NEW c \in Nat, NEW e \in Nat, c < e, e <= Len(s)
    PROVE  /\ SubSeq(s, c + 1, e) \in Seq(Byte) /\ Len(SubSeq(s, c + 1, e)) = e - c
           /\ SubSeq(s, 1, e) \in Seq(Byte) /\ Len(SubSeq(s, 1, e)) = e
           /\ SubSeq(s, 1, c) \o SubSeq(s, c + 1, e) = SubSeq(s, 1, e)
           /\ SubSeq(s, 1, c) \in Seq(Byte) /\ Len(SubSeq(s, 1, c)) = c
<1>1. Len(s) \in Nat /\ \A i \in 1 .. Len(s) : s[i] \in Byte
  BY ElementOfSeq, LenProperties
<1>2. /\ c + 1 \in Int /\ 1 \in Int
      /\ \A i \in (c + 1) .. e : s[i] \in Byte
      /\ \A i \in 1 .. e : s[i] \in Byte
      /\ \A i \in 1 .. c : s[i] \in Byte
  BY <1>1
<1>3. /\ SubSeq(s, c + 1, e) \in Seq(Byte)
      /\ Len(SubSeq(s, c + 1, e)) = IF c + 1 <= e THEN e - (c + 1) + 1 ELSE 0
  BY <1>2, SubSeqProperties
<1>4. /\ SubSeq(s, 1, e) \in Seq(Byte)
      /\ Len(SubSeq(s, 1, e)) = IF 1 <= e THEN e - 1 + 1 ELSE 0
  BY <1>2, SubSeqProperties
<1>5. /\ SubSeq(s, 1, c) \in Seq(Byte)
      /\ Len(SubSeq(s, 1, c)) = IF 1 <= c THEN c - 1 + 1 ELSE 0
  BY <1>2, SubSeqProperties
<1>6. 1 \in 1 .. (Len(s) + 1) /\ c \in (1 - 1) .. Len(s) /\ e \in c .. Len(s)
  BY <1>1
<1>7. SubSeq(s, 1, c) \o SubSeq(s, c + 1, e) = SubSeq(s, 1, e)
  BY <1>6, ConcatAdjacentSubSeq
<1>. QED
  BY <1>3, <1>4, <1>5, <1>7

\* A worker that is behind finds its sequence number taken.
LEMMA CommitReads ==
    ASSUME ArtInv, NEW w \in Workers, CommitChunk(w)
    PROVE  /\ item[w].job \in Jobs /\ pc[w] = "process" /\ step[w] = "read"
           /\ fencedJob(jobs[item[w].job], w)
           /\ Reading(w)
           /\ jobs[item[w].job].cursor = mem[w].cursor
           /\ mem[w].cursor < Len(build[w])
           /\ build[w] \in built[item[w].job]
<1>1. PICK j \in Jobs : j = item[w].job
  BY DEF CommitChunk, Progress, Processing, ArtInv, TokenInv, QueueTypeOK
<1>2. /\ pc[w] = "process" /\ step[w] = "read" /\ fencedJob(jobs[j], w)
      /\ mem[w].cursor < Len(build[w]) /\ mem[w].seq \notin DOMAIN chunks[j]
  BY <1>1 DEF CommitChunk, Progress, Processing, ChunkFree
<1>3. build[w] \in built[j] /\ (Reading(w) \/ Behind(w))
  BY <1>1, <1>2 DEF ArtInv, WorkerKnows
<1>4. ~Behind(w)
  <2>1. DOMAIN chunks[j] = 0 .. (jobs[j].chunks - 1) /\ jobs[j].chunks \in Nat
    BY StoredType DEF ArtInv, ResultShape
  <2>. QED
    BY <1>1, <1>2, <2>1 DEF Behind
<1>5. mem[w].cursor \in Nat /\ Len(build[w]) \in Nat
  BY BuildTypes DEF ArtInv
<1>6. Reading(w) /\ jobs[j].cursor = mem[w].cursor
  BY <1>1, <1>2, <1>3, <1>4, <1>5 DEF Reading
<1>. QED
  BY <1>1, <1>2, <1>3, <1>6

\* The result after the commit: the build up to the end of the chunk.
LEMMA CommitStores ==
    ASSUME ArtInv, NEW w \in Workers, CommitChunk(w)
    PROVE  LET j == item[w].job
               n == jobs[j].chunks
           IN  /\ Bytes(chunks'[j]) = SubSeq(build[w], 1, ReadTo(w))
               /\ Bytes(chunks'[j]) \in Seq(Byte) /\ Len(Bytes(chunks'[j])) = ReadTo(w)
               /\ Len(Stored(j)) = mem[w].cursor
               /\ DOMAIN chunks' = Jobs
               /\ DOMAIN chunks'[j] = 0 .. n
               /\ \A s \in 0 .. n : /\ chunks'[j][s] \in Seq(Byte)
                                    /\ Len(chunks'[j][s]) \in 1 .. ChunkSize
               /\ \A k \in Jobs \ {j} : chunks'[k] = chunks[k]
<1>1. PICK j \in Jobs : j = item[w].job
  BY CommitReads
<1>2. PICK n \in Nat : n = jobs[j].chunks
  BY StoredType
<1>3. PICK b \in Seq(Byte), c \in Nat, e \in Nat :
         /\ b = build[w] /\ c = mem[w].cursor /\ e = ReadTo(w)
         /\ c < e /\ e <= Len(b) /\ e - c <= ChunkSize
  BY CommitReads, BuildTypes, ReadToType DEF ArtInv
<1>4. PICK x : x = SubSeq(b, c + 1, e)
  OBVIOUS
<1>5. x \in Seq(Byte) /\ Len(x) \in 1 .. ChunkSize
  <2>1. x \in Seq(Byte) /\ Len(x) = e - c
    BY <1>3, <1>4, Pieces
  <2>. QED
    BY <1>3, <2>1, ArtifactAssumption
<1>6. mem[w].seq = n /\ Stored(j) = SubSeq(b, 1, c)
  BY <1>1, <1>2, <1>3, CommitReads DEF Reading
<1>7. chunks' = [chunks EXCEPT ![j] = AddChunk(chunks[j], n, x)]
  BY <1>1, <1>3, <1>4, <1>6 DEF CommitChunk, ReadTo
<1>8. /\ chunks'[j] = AddChunk(chunks[j], n, x) /\ DOMAIN chunks' = Jobs
      /\ \A k \in Jobs \ {j} : chunks'[k] = chunks[k]
  BY <1>7 DEF ArtInv, LocalTypes
<1>9. /\ DOMAIN chunks[j] = 0 .. (n - 1)
      /\ \A s \in 0 .. (n - 1) : /\ chunks[j][s] \in Seq(Byte)
                                 /\ Len(chunks[j][s]) \in 1 .. ChunkSize
  BY <1>2 DEF ArtInv, ResultShape
<1>10. /\ DOMAIN chunks'[j] = 0 .. n
       /\ \A s \in 0 .. n : chunks'[j][s] = IF s = n THEN x ELSE chunks[j][s]
  BY <1>8, <1>9 DEF AddChunk
<1>11. \A s \in 0 .. n : /\ chunks'[j][s] \in Seq(Byte)
                         /\ Len(chunks'[j][s]) \in 1 .. ChunkSize
  <2>1. SUFFICES ASSUME NEW s \in 0 .. n
                 PROVE  chunks'[j][s] \in Seq(Byte) /\ Len(chunks'[j][s]) \in 1 .. ChunkSize
    BY Zenon
  <2>2. CASE s = n
    <3>1. chunks'[j][s] = x
      BY <1>10, <2>2
    <3>. QED
      BY <1>5, <3>1, Zenon
  <2>3. CASE s # n
    <3>1. s \in 0 .. (n - 1) /\ chunks'[j][s] = chunks[j][s]
      BY <1>10, <2>3
    <3>. QED
      BY <1>9, <3>1, Zenon
  <2>. QED
    BY <2>2, <2>3
<1>12. Bytes(chunks'[j]) = Stored(j) \o x
  <2>1. Bytes(AddChunk(chunks[j], n, x)) = Bytes(chunks[j]) \o x
    BY <1>5, <1>9, BytesOfMore
  <2>. QED
    BY <1>8, <2>1, Zenon DEF Stored
<1>13. SubSeq(b, 1, c) \o x = SubSeq(b, 1, e)
  BY <1>3, <1>4, Pieces
<1>14. Bytes(chunks'[j]) = SubSeq(b, 1, e)
  BY <1>6, <1>12, <1>13, Zenon
<1>15. /\ SubSeq(b, 1, e) \in Seq(Byte) /\ Len(SubSeq(b, 1, e)) = e
       /\ Len(SubSeq(b, 1, c)) = c
  BY <1>3, Pieces
<1>16. /\ Bytes(chunks'[j]) = SubSeq(build[w], 1, ReadTo(w))
       /\ Bytes(chunks'[j]) \in Seq(Byte) /\ Len(Bytes(chunks'[j])) = ReadTo(w)
       /\ Len(Stored(j)) = mem[w].cursor
  BY <1>3, <1>6, <1>14, <1>15, Zenon
<1>. QED
  BY <1>1, <1>2, <1>8, <1>10, <1>11, <1>16


\* The locals of the worker that commits.
LEMMA CommitLocals ==
    ASSUME ArtInv, NEW w \in Workers, CommitChunk(w)
    PROVE  /\ mem'[w] \in Offsets
           /\ mem'[w].cursor = ReadTo(w) /\ mem'[w].seq = mem[w].seq + 1
           /\ mem' = [mem EXCEPT ![w] = mem'[w]]
           /\ UNCHANGED <<clock, pc, item, live, artifacts, sha, step, build, built>>
<1>1. PICK m \in Offsets : m = mem[w]
  BY BuildTypes DEF ArtInv
<1>2. PICK e \in Nat : e = ReadTo(w)
  BY CommitReads, ReadToType DEF ArtInv
<1>3. PICK t \in Nat : t = m.seq + 1
  BY DEF Offsets
<1>4. PICK n : n = [m EXCEPT !.cursor = e, !.seq = t]
  OBVIOUS
<1>5. n \in Offsets /\ n.cursor = e /\ n.seq = m.seq + 1
  <2>1. n \in Offsets /\ n.cursor = e /\ n.seq = t
    BY <1>4 DEF Offsets
  <2>. QED
    BY <1>3, <2>1
<1>6. mem' = [mem EXCEPT ![w] = n]
  BY <1>1, <1>2, <1>3, <1>4, Zenon DEF CommitChunk, ReadTo
<1>7. mem'[w] = n
  BY <1>6 DEF ArtInv, LocalTypes
<1>8. UNCHANGED <<clock, pc, item, live, artifacts, sha, step, build, built>>
  BY DEF CommitChunk, Progress, bvars
<1>. QED
  BY <1>1, <1>2, <1>5, <1>6, <1>7, <1>8

\* What the others read of the row is outdated now, in one of the two ways
\* that RowRead allows.
LEMMA CommitOutdates ==
    ASSUME ArtInv, NEW w \in Workers, CommitChunk(w),
           NEW v \in Workers \ {w}, item[v].job = item[w].job, RowRead(v)
    PROVE  RowRead(v)'
<1>1. PICK j \in Jobs : j = item[w].job /\ j = item[v].job
  BY CommitReads
<1>2. /\ jobs[j].cursor = mem[w].cursor /\ Len(Stored(j)) = mem[w].cursor
      /\ mem[w].seq = jobs[j].chunks
  BY <1>1, CommitReads, CommitStores DEF Reading
<1>3. Len(Stored(j)') = ReadTo(w)
  BY <1>1, CommitStores DEF Stored
<1>4. mem[w].cursor < ReadTo(w) /\ ReadTo(w) \in Nat
  BY CommitReads, ReadToType DEF ArtInv
<1>5. jobs'[j].chunks = mem[w].seq + 1
  BY <1>1, ChunkIsProgress DEF ArtInv, TokenInv
<1>6. /\ mem[w].seq \in Nat /\ mem[w].cursor \in Nat
      /\ mem[v].seq \in Nat /\ mem[v].cursor \in Nat
  BY BuildTypes DEF ArtInv
<1>7. mem'[v] = mem[v] /\ item'[v] = item[v]
  BY CommitLocals DEF ArtInv, LocalTypes
<1>8. Len(Stored(j)) = 0 => jobs[j].chunks = 0
  <2>1. jobs[j].chunks > 0 => Len(Stored(j)) > 0
    BY DEF ArtInv, ResultShape
  <2>2. jobs[j].chunks \in Nat /\ Len(Stored(j)) \in Nat
    BY StoredType
  <2>. QED
    BY <2>1, <2>2
<1>9. \/ mem[v].seq = jobs[j].chunks /\ mem[v].cursor = jobs[j].cursor
      \/ /\ mem[v].seq < jobs[j].chunks
         /\ \/ mem[v].seq = 0 /\ mem[v].cursor = 0
            \/ 0 < mem[v].cursor /\ mem[v].cursor < Len(Stored(j))
  BY <1>1 DEF RowRead
<1>10. /\ mem[v].seq < jobs'[j].chunks
       /\ \/ mem[v].seq = 0 /\ mem[v].cursor = 0
          \/ 0 < mem[v].cursor /\ mem[v].cursor < ReadTo(w)
  BY <1>2, <1>4, <1>5, <1>6, <1>8, <1>9
<1>. QED
  BY <1>1, <1>3, <1>7, <1>10 DEF RowRead

\* The commit of a chunk keeps the invariant.
LEMMA CommitKeeps ==
    ASSUME ArtInv, [QueueNext]_qvars, NEW w \in Workers, CommitChunk(w)
    PROVE  ArtInv'
<1>1. PICK j \in Jobs : j = item[w].job
  BY CommitReads
<1>2. TokenInv'
  BY TokenStep DEF ArtInv
<1>3. LocalTypes'
  BY CommitLocals, CommitStores DEF ArtInv, LocalTypes
<1>4. /\ jobs'[j].chunks = mem[w].seq + 1 /\ mem[w].seq = jobs[j].chunks
      /\ jobs[j].chunks \in Nat
      /\ jobs'[j].cursor = IF ReadTo(w) < Len(build[w]) THEN ReadTo(w) ELSE 0
      /\ \A k \in Jobs \ {j} : jobs'[k] = jobs[k] /\ chunks'[k] = chunks[k]
  BY <1>1, CommitReads, CommitStores, ChunkIsProgress, StoredType
     DEF ArtInv, TokenInv, Reading
<1>5. /\ Stored(j)' = SubSeq(build[w], 1, ReadTo(w))
      /\ Stored(j)' \in Seq(Byte) /\ Len(Stored(j)') = ReadTo(w)
      /\ DOMAIN chunks'[j] = 0 .. jobs[j].chunks
      /\ \A s \in 0 .. jobs[j].chunks : /\ chunks'[j][s] \in Seq(Byte)
                                        /\ Len(chunks'[j][s]) \in 1 .. ChunkSize
  BY <1>1, CommitStores DEF Stored
<1>6. /\ 0 < ReadTo(w) /\ ReadTo(w) \in Nat /\ ReadTo(w) <= Len(build[w])
      /\ build[w] \in Seq(Byte) /\ Len(build[w]) \in Nat
  BY CommitReads, ReadToType, BuildTypes DEF ArtInv
<1>7. \A k \in Jobs \ {j} : Stored(k)' = Stored(k)
  BY <1>4 DEF Stored
<1>8. ASSUME NEW k \in Jobs PROVE ResultShape(k)'
  <2>1. ASSUME k # j PROVE ResultShape(k)'
    <3>1. Begun(k) => Begun(k)'
      BY <1>4, <2>1, CommitLocals, GrowingBuilds
    <3>. QED
      BY <1>4, <1>7, <2>1, <3>1 DEF ArtInv, ResultShape
  <2>2. ResultShape(j)'
    <3>1. jobs'[j].status # "absent"
      <4>1. jobs[j].status # "absent"
        BY <1>1, CommitReads DEF fencedJob
      <4>. QED
        BY <4>1, TokensGrow DEF ArtInv, TokenInv
    <3>2. jobs'[j].chunks - 1 = jobs[j].chunks
      BY <1>4
    <3>3. Begun(j)'
      <4>1. SubSeq(Stored(j)', 1, ReadTo(w)) = Stored(j)'
        BY <1>5, NothingRead
      <4>2. IsPrefix(Stored(j)', build[w])
        BY <1>5, <1>6, <4>1, Zenon DEF IsPrefix
      <4>3. build[w] \in built'[j]
        BY <1>1, CommitReads, CommitLocals
      <4>. QED
        BY <4>2, <4>3 DEF Begun
    <3>. QED
      BY <1>5, <1>6, <3>1, <3>2, <3>3 DEF ResultShape
  <2>. QED
    BY <2>1, <2>2
<1>9. CursorTruthful'
  <2>1. ASSUME NEW k \in Jobs \ {j}
        PROVE  /\ jobs'[k].cursor > 0 => Len(Stored(k)') = jobs'[k].cursor
               /\ jobs'[k].cursor = 0 /\ jobs'[k].chunks > 0 => Stored(k)' \in built'[k]
    BY <1>4, <1>7, CommitLocals DEF ArtInv, CursorTruthful, Stored
  <2>2. jobs'[j].cursor > 0 => Len(Stored(j)') = jobs'[j].cursor
    BY <1>4, <1>5
  <2>3. ASSUME jobs'[j].cursor = 0 PROVE Stored(j)' \in built'[j]
    <3>1. ReadTo(w) = Len(build[w])
      BY <1>4, <1>6, <2>3
    <3>2. Stored(j)' = build[w]
      BY <1>5, <1>6, <3>1, NothingRead
    <3>. QED
      BY <1>1, <3>2, CommitReads, CommitLocals
  <2>. QED
    BY <2>1, <2>2, <2>3 DEF CursorTruthful, Stored
<1>10. \A a \in artifacts : a.job \in Jobs \ {j}
  <2>1. jobs[j].status = "running"
    BY <1>1, CommitReads DEF fencedJob
  <2>. QED
    BY <2>1 DEF ArtInv, ArtifactsCompleted
<1>11. PublishedIsABuild' /\ ArtifactsCompleted'
  <2>1. artifacts' = artifacts /\ built' = built
    BY CommitLocals
  <2>2. ArtifactsCompleted'
    BY <2>1, CompletedStay DEF ArtifactsCompleted
  <2>3. PublishedIsABuild'
    BY <1>4, <1>10, <2>1 DEF ArtInv, PublishedIsABuild
  <2>. QED
    BY <2>2, <2>3
<1>12. /\ \A v \in Workers : /\ pc'[v] = pc[v] /\ item'[v] = item[v] /\ step'[v] = step[v]
                             /\ build'[v] = build[v] /\ sha'[v] = sha[v]
       /\ built' = built
       /\ \A v \in Workers \ {w} : mem'[v] = mem[v]
  BY CommitLocals DEF ArtInv, LocalTypes
<1>13. WorkerKnows(w)'
  <2>1. mem'[w].cursor = ReadTo(w) /\ mem'[w].seq = mem[w].seq + 1
    BY CommitLocals
  <2>2. Reading(w)'
    BY <1>1, <1>4, <1>5, <1>6, <1>12, <2>1 DEF Reading
  <2>. QED
    BY <1>1, <1>12, <2>2, CommitReads DEF WorkerKnows
<1>14. ASSUME NEW v \in Workers \ {w} PROVE WorkerKnows(v)'
  <2>1. WorkerKnows(v)
    BY DEF ArtInv
  <2>2. CASE pc[v] \notin {"claim", "process"}
    BY <1>12, <2>2 DEF WorkerKnows
  <2>3. CASE pc[v] \in {"claim", "process"}
    <3>1. PICK k \in Jobs : k = item[v].job
      BY <2>3 DEF ArtInv, TokenInv, QueueTypeOK
    <3>2. fencedJob(jobs[k], v)' => fencedJob(jobs[k], v)
      <4>1. KeepsClaim(v)
        BY <1>12 DEF KeepsClaim
      <4>. QED
        BY <1>12, <2>3, <3>1, <4>1, FenceNotRegained DEF ArtInv
    <3>3. CASE k = j
      <4>1. ~(pc[v] = "process" /\ fencedJob(jobs[k], v))
        <5>1. pc[w] = "process" /\ jobs[j].token = item[w].token
          BY <1>1, CommitReads DEF fencedJob
        <5>2. Past(w) /\ (pc[v] = "process" => Past(v))
          BY <5>1 DEF Past
        <5>. QED
          BY <1>1, <3>1, <3>3, <5>1, <5>2 DEF ArtInv, TokenInv, TokensDistinct, fencedJob
      <4>2. RowRead(v) => RowRead(v)'
        BY <1>1, <3>1, <3>3, CommitOutdates
      <4>. QED
        BY <1>12, <2>1, <3>1, <3>2, <4>1, <4>2 DEF WorkerKnows
    <3>4. CASE k # j
      <4>1. jobs'[k] = jobs[k] /\ chunks'[k] = chunks[k] /\ Stored(k)' = Stored(k)
        BY <1>4, <1>7, <3>4
      <4>2. RowRead(v) => RowRead(v)'
        BY <1>12, <3>1, <4>1 DEF RowRead
      <4>3. Reading(v) \/ Behind(v) => (Reading(v) \/ Behind(v))'
        BY <1>12, <3>1, <4>1 DEF Reading, Behind
      <4>4. Publishable(k) => Publishable(k)'
        BY <1>12, <4>1, GrowingBuilds
      <4>. QED
        BY <1>12, <2>1, <3>1, <3>2, <4>1, <4>2, <4>3, <4>4 DEF WorkerKnows
    <3>. QED
      BY <3>3, <3>4
  <2>. QED
    BY <2>2, <2>3
<1>. QED
  BY <1>2, <1>3, <1>8, <1>9, <1>11, <1>13, <1>14 DEF ArtInv

-----------------------------------------------------------------------------
(***************************************************************************)
(* The theorems.                                                           *)
(***************************************************************************)

\* Every step keeps the invariant.
LEMMA ArtInvStep ==
    ASSUME ArtInv, [ArtifactNext]_allvars
    PROVE  ArtInv'
<1>1. [QueueNext]_qvars
  BY ArtifactIsQueueStep DEF ArtInv, TokenInv
<1>2. ASSUME NEW w \in Workers, Shared(w), built' = built,
             build' = IF pc'[w] = "idle" THEN [build EXCEPT ![w] = << >>] ELSE build
      PROVE  ArtInv'
  <2>1. ASSUME NEW j \in Jobs, ExportClaimSelect(w, j) PROVE ArtInv'
    <3>1. pc'[w] = "claim"
      BY <2>1 DEF ExportClaimSelect, ClaimSelect, ArtInv, TokenInv, QueueTypeOK
    <3>2. build' = build
      BY <1>2, <3>1
    <3>. QED
      BY <1>1, <1>2, <2>1, <3>2, SelectKeeps
  <2>2. CASE ResultIdentity(w) \/ CompleteExport(w)
    <3>1. pc'[w] = "process"
      BY <2>2 DEF ResultIdentity, CompleteExport, Processing, qvars
    <3>2. UNCHANGED bvars
      BY <1>2, <3>1 DEF bvars
    <3>. QED
      BY <1>1, <2>2, <3>2, FinishKeeps
  <2>3. ASSUME NEW ack \in BOOLEAN, CompleteJob(w, ack) PROVE ArtInv'
    BY <1>1, <1>2, <2>3, PublishKeeps
  <2>4. CASE GiveUp(w)
    <3>1. pc'[w] = "idle"
      BY <2>4 DEF GiveUp, ClaimMissed, Fail, FailStale, Crash, Idle,
                  ArtInv, TokenInv, QueueTypeOK
    <3>2. build' = [build EXCEPT ![w] = << >>]
      BY <1>2, <3>1
    <3>. QED
      BY <1>1, <1>2, <2>4, <3>2, GiveUpKeeps
  <2>5. CASE QueueOnly(w)
    <3>1. pc'[w] # "idle"
      <4>1. CASE ProcessError(w)
        BY <4>1, ErrorShape DEF ArtInv, TokenInv
      <4>2. CASE Heartbeat(w) \/ Interrupt(w)
        BY <4>2 DEF Heartbeat, Interrupt, Processing
      <4>. QED
        BY <2>5, <4>1, <4>2 DEF QueueOnly
    <3>2. UNCHANGED bvars
      BY <1>2, <3>1 DEF bvars
    <3>. QED
      BY <1>1, <2>5, <3>2, QueueOnlyKeeps
  <2>. QED
    BY <1>2, <2>1, <2>2, <2>3, <2>4, <2>5, Zenon DEF Shared
<1>3. ASSUME NEW w \in Workers, ArtifactWorker(w) PROVE ArtInv'
  <2>1. ASSUME NEW content \in Builds, BuildExportArtifact(w, content) PROVE ArtInv'
    BY <1>1, <2>1, BuildKeeps
  <2>2. CASE ArtifactClaimUpdate(w)
    BY <1>1, <2>2, UpdateKeeps
  <2>3. CASE ResumeArtifact(w)
    BY <1>1, <2>3, ResumeKeeps
  <2>4. CASE CommitChunk(w)
    BY <1>1, <2>4, CommitKeeps
  <2>5. CASE EndOfContent(w)
    BY <1>1, <2>5, EndKeeps
  <2>. QED
    BY <1>2, <1>3, <2>1, <2>2, <2>3, <2>4, <2>5, Zenon DEF ArtifactWorker
<1>4. ASSUME NEW j \in Jobs, Submit(j) \/ Cancel(j), UNCHANGED <<evars, bvars>>
      PROVE  ArtInv'
  BY <1>1, <1>4, OutsideKeeps
<1>5. CASE Tick /\ UNCHANGED <<evars, bvars>>
  BY <1>1, <1>5, OutsideKeeps
<1>6. CASE UNCHANGED allvars
  <2>1. UNCHANGED qvars /\ UNCHANGED <<evars, bvars>>
    BY <1>6 DEF allvars, vars
  <2>. QED
    BY <1>1, <2>1, OutsideKeeps
<1>. QED
  BY <1>3, <1>4, <1>5, <1>6, Zenon DEF ArtifactNext

\* The invariant holds at the start.
LEMMA ArtInvInit ==
    ASSUME ArtifactInit
    PROVE  ArtInv
<1>1. QueueInit /\ chunks = [j \in Jobs |-> << >>] /\ artifacts = {}
  BY DEF ArtifactInit, ResultInit
<1>2. TokenInv
  BY <1>1, Blanks DEF QueueInit, TokenInv, QueueTypeOK, JobsKnown, TokensBounded,
                      TokensDistinct, Past
<1>3. LocalTypes
  <2>1. NoMem \in Offsets
    BY DEF NoMem, Offsets
  <2>. QED
    BY <2>1 DEF ArtifactInit, ResultInit, LocalTypes
<1>4. \A j \in Jobs : jobs[j].chunks = 0 /\ jobs[j].cursor = 0
  BY <1>1 DEF QueueInit, NoRow
<1>5. ASSUME NEW j \in Jobs PROVE ResultShape(j)
  <2>1. << >> \in Seq(Byte)
    OBVIOUS
  <2>2. DOMAIN chunks[j] = {}
    BY <1>1
  <2>3. Stored(j) = << >>
    BY <2>2, BytesOfNone DEF Stored
  <2>4. 0 .. (jobs[j].chunks - 1) = {} /\ ~(jobs[j].chunks > 0)
    BY <1>4
  <2>. QED
    BY <1>4, <2>1, <2>2, <2>3, <2>4 DEF ResultShape
<1>6. CursorTruthful
  <2>1. ASSUME NEW j \in Jobs PROVE ~(jobs[j].chunks > 0) /\ ~(jobs[j].cursor > 0)
    <3>1. jobs[j].chunks = 0 /\ jobs[j].cursor = 0
      BY <1>4
    <3>. QED
      BY <3>1
  <2>. QED
    BY <2>1 DEF CursorTruthful
<1>7. PublishedIsABuild /\ ArtifactsCompleted
  BY <1>1 DEF PublishedIsABuild, ArtifactsCompleted
<1>8. \A w \in Workers : WorkerKnows(w)
  BY <1>1 DEF QueueInit, WorkerKnows
<1>. QED
  BY <1>2, <1>3, <1>5, <1>6, <1>7, <1>8 DEF ArtInv

\* An artifact export runs the lease protocol: building, resuming, reading
\* and publishing (processExportArtifact) are steps of JobQueue or leave its
\* variables alone, so all that is proved of QueueSpec holds of it.
THEOREM ArtifactsRunTheQueue == ArtifactSpec => QueueSpec
<1>1. ArtifactInit => QueueInit
  BY DEF ArtifactInit, ResultInit
<1>2. ArtifactInit => ArtInv
  BY ArtInvInit
<1>3. ArtInv /\ [ArtifactNext]_allvars => ArtInv'
  BY ArtInvStep
<1>4. ArtInv /\ [ArtifactNext]_allvars => [QueueNext]_qvars
  BY ArtifactIsQueueStep DEF ArtInv, TokenInv
<1>. QED
  BY <1>1, <1>2, <1>3, <1>4, PTL DEF ArtifactSpec, QueueSpec

\* The variables of an artifact export stay in their types, and no chunk is
\* empty or longer than ChunkSize (the read loop of processExportArtifact).
THEOREM ArtifactTypeCorrect == ArtifactSpec => []ArtifactTypeOK
<1>1. ArtifactInit => ArtInv
  BY ArtInvInit
<1>2. ArtInv /\ [ArtifactNext]_allvars => ArtInv'
  BY ArtInvStep
<1>3. ArtInv => ArtifactTypeOK
  BY DEF ArtInv, TokenInv, LocalTypes, ResultShape, Offsets, ArtifactTypeOK
<1>. QED
  BY <1>1, <1>2, <1>3, PTL DEF ArtifactSpec

\* The stored cursor tells the truth about the chunks, whatever claims, stale
\* workers and changing builds came before (CommitResultPage).
THEOREM CursorsAreTruthful == ArtifactSpec => []CursorTruthful
<1>1. ArtifactInit => ArtInv
  BY ArtInvInit
<1>2. ArtInv /\ [ArtifactNext]_allvars => ArtInv'
  BY ArtInvStep
<1>3. ArtInv => CursorTruthful
  BY DEF ArtInv
<1>. QED
  BY <1>1, <1>2, <1>3, PTL DEF ArtifactSpec

\* What is published is one artifact as the provider built it, whole, and the
\* beginning of one at least if the provider built an empty one as well
\* (processExportArtifact and the fenced Complete).
THEOREM PublishedAreBuilds == ArtifactSpec => []PublishedIsABuild
<1>1. ArtifactInit => ArtInv
  BY ArtInvInit
<1>2. ArtInv /\ [ArtifactNext]_allvars => ArtInv'
  BY ArtInvStep
<1>3. ArtInv => PublishedIsABuild
  BY DEF ArtInv
<1>. QED
  BY <1>1, <1>2, <1>3, PTL DEF ArtifactSpec
=============================================================================
