# Data Exchange in TLA+

Data Exchange runs imports and exports as durable jobs: rows of a SQL table that
workers claim under a lease, process page by page or batch by batch against an
application's provider, and finish with an artifact. These modules specify the
parts of it in which several actors meet in the database, from the submission of a
job to the download of its result and the erasure of the account, check them with TLC
on small instances and prove with TLAPS, for instances of any size, nearly all of the
safety properties.

## The system

| Component | State | Operations | Meets others through |
|---|---|---|---|
| Job table and lease protocol (`store.go`, `request_validation.go`) | `_data_exchange_jobs`: status, lease owner and expiry, fencing token, attempts, next attempt, checkpoint, cursor, result chunks | Submit, Claim / ClaimJob, Heartbeat, Progress, Complete, Fail, Cancel | the rows, which all workers and callers share |
| Worker loop (`service.go`: `Start`, `MaterializeExport`, `processClaimed`, `processWithHeartbeat`) | the claimed work item, a cancellable context | claim, process, heartbeat from a second goroutine, report a failure, stop | fenced writes; `context` cancellation |
| Paged export (`processExport`, `CommitResultPage`, `ResultIdentity`) | `_data_exchange_job_chunks`, `_data_exchange_artifacts`; locals cursor, seq, total | read a page, commit a page, digest, `CompleteExport`, complete | provider calls; chunk and artifact rows |
| Import (`processImport`, `readImport`, `processImportArtifact`) | source chunks (written at submission), progress columns | validate every batch, apply every batch, progress, complete | provider calls outside any transaction |
| Account erasure (`subject_erasure.go`, `subject_lifecycle.go`) | fence and receipt tables | prepare, execute, preview | the job rows, chunks and artifacts of one actor; a row lock shared with submissions |
| Submission and idempotency | idempotency key, request fingerprint, staged source chunks | SubmitImport, SubmitExport | unique job id |
| Artifact export (`processExportArtifact`) | byte cursor | resume at an offset, verify the prefix, commit 8 MiB pieces | as paged export |
| Job authorization (`job_authorization.go`) | none | ResolveJobAccess | predicates pushed into SQL |
| Download (`Artifact`, `verifyingReadCloser`, `adapter.go`) | stream position and digest | read, verify at the end | chunk rows, while an erasure may delete them |
| Workspace queue discovery | `_data_exchange_queue_scopes` | registerScope, the workspace loop of Claim | the poll loop |
| HTTP adapter, assembly, SaaS transport, SDK binding, schema, capability documents | none of their own | forwarding and wiring | |

What is hard here: a claim is two statements without a transaction; every poller of a
runtime has the same owner string; a lease is looked at by claimers only, so a worker that
lost it goes on until a fenced write fails; clocks of hosts differ; acknowledgements get
lost; crashes fall between a page's commit and the job's completion; providers are called
outside the transactions; instants are compared as text; submissions decide about a replay
in one statement and read it in another; downloads send their head before they have
verified anything; and erasure deletes the rows that workers may still be writing and
readers reading. `PROJECT.json` lists these places as hazards, each at its line, with the
properties aimed at it.

## The modules

```
JobQueue -- ExportResult -- ExportJob -- SubjectErasure -- Download
   |             |             |
   |             |             +-- refines ExportPromise
   |             +-- ArtifactExport
   +-- ImportJob
PollLoop        JobAccess -- JobApi        TimeText
```

`JobQueue` is the job table and the lease protocol. A row `jobs[j]` has the columns that
control reads, a worker has a program counter `pc`, a work item and a context (`live`).
`ClaimSelect` and `ClaimUpdate` / `ClaimMissed` are the two statements of
`claimWorkspace`, with the `now` captured before the first one used in both; `fencedJob`
is the predicate of every later write. `Interrupt` is any cancellation of the processing
context, `ProcessError` any error `Process` may return (a rejected fence included).
`PlanFailure` takes the instant from which `processClaimed` plans the retry; `Fail` /
`FailStale` is the UPDATE that reports it, at any later time, since nothing cancels or
times it. `Complete(w, FALSE)` is a completion whose acknowledgement is lost, `Crash` the
end of the process at any point. Time is a natural number; the clock of worker `w` is
`clock + Skew[w]`; the empty string that the store keeps for "no instant" is 0.
`SomeProgress` stands for what the composing modules do, so that `QueueSpec` covers them
all.

Instants are compared by `Before`, as the store compares them: it keeps them as
`RFC3339Nano` text, whose seconds have a fixed width but whose fraction loses its
trailing zeros. There are `Second` instants in a second and `FractionRank` orders
them; the proofs take any order. `TimeText` (external: `time.Format` and the text
order of a database) computes the real one: `"5Z"` sorts after `"5.9Z"`. Runs that
ask another question set `Second` to 1, where text order and time agree.

`PollLoop` is the goroutine of `Start`, in as many runtimes as there are pollers:
`ListScopes`, `Visit`, `Claim` / `ClaimMissed` / `ClaimError` are the statements of
`Claim` over the workspaces that `registerScope` put in order, `NextClaim` and `Wait` the
batch loop, `Tick` and `Stop` the select, `Close` the cancelled context, `Crash` and
`Restart` the process. A statement of `Claim` that fails leaves its row alone or not
(`ClaimCut`): an UPDATE may be applied although its answer is lost, or is no longer waited
for because `Close` cancelled the context; `cut` remembers such a claim. Here time is
reduced to what a claim asks of it (`due`, `leased`), and the fencing token to the poller
that claimed last; `JobQueue` shows what makes that right; that a failure reported very
late may be claimed over by an outdated claim is in `JobQueue` only (here each such case
would take one of the bounded faults, a late heartbeat). A job that has ended makes room
for a new one, so that submissions never stop.

`ExportResult` has what both kinds of exports share: the chunk and artifact tables,
the locals of `processExport`, resume at a claim, digest, `CompleteExport`, completion.
A digest is the whole function from sequence numbers to contents: two digests are
equal exactly when the contents are. `completions` records every call of
`CompleteExport`; a provider without that interface is the same without the record.

`ExportJob` extends it with `processExport`. A provider (external) serves pages
`0 .. LastPage`, of which some are empty (`PageRows`) and some may come back with
the cursor that asked for them (`Stalls`). A chunk's content is the page it was
made from. One step reads a page and commits it, because the pages do not change and
nothing a worker reads before the commit is used after it but the page itself.

`ExportPromise` is the abstract specification of an export job: opened, grown
page by page, published whole or abandoned. `ExportJob!KeepsPromise` is the
refinement.

`ArtifactExport` extends `ExportResult` with `processExportArtifact`. The provider
(external) builds a sequence of bytes, at every claim any of `Builds`; the cursor is
a byte offset and 0 stands for the empty one. Builds may be empty, beside others that
are not.

`ImportJob` extends `JobQueue` with `processImport`. A source is a number of rows;
`ReadRow` buffers one, `FlushFull` hands over a full batch once another row follows,
`FlushFinal` the last one. Provider calls are recorded with the claim (worker and
token) that made them. An artifact provider is the case of a single row, where
applying another number of records than were validated is a rejection.

`SubjectErasure` extends `ExportJob` with `PrepareSubjectErasure` and
`ErasePreparedSubject`, serializable transactions that lock the subject's fence
row as every submission does, hence one step each. A repeated request is answered
from the receipt and changes nothing, so it is no step. A request with legal holds
never reaches the store.

`Download` extends it with the HTTP handler: job, artifact row and chunks are read in
three steps, the head goes out with the artifact's size, and the chunks follow through
`verifyingReadCloser`. Its final check can only cut the connection, because the head
is out; what a client can tell is whether it got the announced length.

`JobAccess` is `ResolveJobAccess`, with the loops over grants and policies as folds,
and `Entitled`, what the decision is meant to be; a principal without a bundle and a
scope without a workspace or an actor are among the cases. `JobApi` extends it with the
requests of callers: a submission is a transaction of several steps
(`BeginSubmission`, which takes the lock of the fence row, `LookupSubmission`,
`CommitSubmission` or `InsertConflict`), then `lookupIdempotent` and `requestHash`
outside of it. Job ids and fingerprints are modelled by what they are digests of.
A list is ordered by `created_at`, then by id, and cut at its limit; instants need not
be distinct, and the order of the ids is that of digests, any order (`DigestRank`). What
workers and erasures do to a row is reduced to its status, key, fingerprint and source.

The modules named `MC...` give the constants their values; those named `...Proofs` hold
the inductive invariants and the proofs (`ExportJobProofs` about the numbering of the
chunks, `ExportOnceProofs` about their contents). The modules also define the mutants,
each in front of the definition it would replace: the plausible mistakes by which the
properties were tried out. No specification uses them.

## The runs

All runs but `PollLoop` and `PollFairness` are safety runs without fairness. Those with a
clock stop where `MaxClock` stops time, so deadlock is not checked there; it is checked
in `PollLoop`, `PollFairness` and `JobApi`.

| Run | Instance | What it shows |
|---|---|---|
| `LeaseProtocol` | one job of three pages, an empty and a full one that may stall; two pollers, one inline worker with a clock one tick ahead; leases of 2, back-off 1, 5 ticks | `FenceUnique`, `AttemptsCounted`, `LiveLeaseKept`, `EndedIsFinal`, `ChunksContiguous`, `OrderedDespiteStalls` |
| `TextTimestamps` | four instants to a second, ordered as text; leases and back-off of a second, two workers, 12 ticks | `LiveLeaseKept`, `BackoffKept` |
| `PollLoop` | two runtimes, one that may be closed and takes two jobs a round; two workspaces with an open job each at most, two attempts, one fault | `EveryJobEnds`, `CloseStops`, `ShutdownReturnsJobs` |
| `PollFairness` | one runtime that takes two jobs a round; two workspaces, one of which may have two open jobs, two attempts, two faults | `EveryJobEnds` |
| `ExportExactlyOnce` | four pages, the second empty; two workers, 7 ticks | `ExactlyOnce`, `ArtifactIdentity`, `CompletionsAgree`, `ProgressKept`, `KeepsPromise` |
| `ArtifactExport` | three builds of two and three bytes and an empty one, chunks of two; two workers, 5 ticks | `PublishedIsABuild`, `CursorTruthful` |
| `ImportJob` | 0, 2 or 3 rows in batches of two, two workers, leases of 1, 4 ticks | `BatchesTile`, `ValidatedFirst`, `CompletedIsApplied`, `CheckpointTruthful` |
| `ImportReplay`, `ImportCancel` | two batches, as `ImportJob` | violations: see Findings |
| `ErasureTwoSubjects` | two subjects with a job each, one worker, two requests, 3 ticks | `FencedSubjectIdle`, `OthersUntouched` |
| `ErasureLateWorkers` | one job of two pages, two workers, a download, two requests and one under legal hold, 4 ticks | `ErasedStaysErased`, `InventoryExact`, `DownloadWhole` |
| `JobApi` | two callers; one actor with two requests under one key for either operation, another actor, two instants of creation; default limit 1, lists asked with none or with 2; 16 principals, one of another workspace | `AnswersAgree`, `SubmittedWhole`, `AnswersOnlyOwners` |

The bounds let the cases that matter happen. The clocks run long enough for two leases to
expire one after the other (`ExportExactlyOnce`), for three failures with their back-off
(1 + 2 ticks) to end in `failed`, and for a failure that is written after its lease and
its back-off, between the two statements of the next claim (`LeaseProtocol`, where TLC
reaches a failure that goes uncounted); two workers suffice for a holder and a claimer,
and the third of `LeaseProtocol` adds a second owner string and a second clock. An empty
page in the middle makes the cursor in memory run ahead of the stored one. The builds of
`ArtifactExport` begin differently, are one the beginning of another, or empty, so that a resumed export meets each of these. The rows of
`ImportJob` are none, exactly a batch, and one more. Two binary digits of a second are
enough for a fraction that is written shorter than a smaller one; the instance does reach
a takeover of a lease that is still running. The principals of `JobApi` fail
`ResolveJobAccess` in every way it has, and some of them only for one action; an actor may
have more jobs than the default limit shows. In `PollLoop` a workspace has one open job at
most, in `PollFairness` it may submit while one of its jobs waits.

`PollLoop` and `PollFairness` assume weak fairness of the loop's own steps (a goroutine
that can run does; a provider call returns some time, successfully or not), of the ticker
and of a restart by the host, weak fairness of time (a back-off and a lease that nobody
renews run out), and strong fairness of `Stop`: at every round the select of Go chooses at
random between a ticker that fired and a context that is done. Nothing is assumed of
submissions, cancellations, heartbeats or of whether a processing succeeds. Faults
(crashes, failing statements, late heartbeats) are bounded, `MaxFaults`. Symmetry is used
over workers with equal constants and over erasure requests; no run with symmetry checks
liveness.

Things the runs taught:

- `Fail` writes one more than the count its claim's SELECT read. A failure whose UPDATE
  comes after its lease and its own back-off are over does not keep a claim that has made
  its SELECT from making its UPDATE; the count this claim carries is then one too low, and
  its own failure goes uncounted. No skew is needed for it. `AttemptsCounted` says how much
  is lost: never two failures in a row, so a job ends with its fifth failure at the latest.
- Compared as text, a live lease may be taken up to a second early and the first
  retry may follow at once; the fencing token, which does not look at time, keeps the
  results right all the same.
- `EveryJobEnds` rests on `registerScope` moving a workspace to the end of the order at
  every submission. An upsert that left the row alone lets a busy workspace starve
  the ones after it. The rule has a price: a workspace that goes on submitting while
  another one does, too, keeps sending itself to the end, and its own waiting jobs may
  starve. The property excludes exactly that case. Two more are outside it because faults
  are bounded: a workspace whose claim fails again and again hides those after it, and a
  job that kills its worker every time is claimed for ever, since crashes are not counted.
- A shutdown costs the job in progress one of its three attempts. A claim whose UPDATE is
  under way when `Close` cancels its context may be applied all the same; that job waits
  for its lease.
- A claim that read its row before another one's first chunk was committed, and whose
  provider then builds an empty artifact, has nothing to commit that could fail: it
  publishes the chunks that are there, a part of the other build. A claim with a build
  that is not empty runs into the primary key. `PublishedIsABuild` allows no other part.
- A list shows no more than its limit, 50 where the request names none; older jobs take
  a larger limit, a filter or their id.
- A job whose account is erased between the two reads of a replay is answered with an
  error, never with another caller's job.
- A crash or a lost lease does not count as an attempt, so only reported
  failures lead to `failed`. "Retry three times" in the repository's README is three
  attempts in all.
- `CompleteExport` may be called for a job that is then cancelled or erased, and
  several times; `CompletionsAgree` is what a provider may rely on.
- Two erasure requests prepared before either is executed hold the same plan, and
  both report the deleted chunks as theirs.

## Findings

`ImportReplay`: `capability/agent/import.md` says that after a lost lease a worker
"continues from the last committed cursor without replaying earlier chunks".
`processImport` starts every claim with the first batch (`service.go`:243-271); only
exports resume. TLC shows a batch applied by two claims.

`ImportCancel`: the same document says "Cancellation stops future chunk claims".
`Cancel` sets the status and the worker notices at its next heartbeat, a third of
the lease later, or at the end of the pass; until then it hands over further batches.

## What is proved

`JobQueueProofs`, for any sets of jobs and workers, any leases, skews and back-off,
and any order of the instants within a second (`QueueAssumption`):

- `QueueTypeCorrect`: `QueueSpec => []QueueTypeOK`;
- `FenceIsUnique`: `QueueSpec => []FenceUnique`. By itself `FenceUnique` is not
  inductive: it says nothing of a worker that has yet to claim. `TokenInv` adds that
  no worker knows a token above its job's (`TokensBounded`) and that at most one worker
  past its claim knows the current one (`TokensDistinct`); a claim raises the row's token
  above all of them. Neither leases nor clocks appear in the argument: they decide who
  claims, not who may write;
- `EndedJobsAreFinal`: `QueueSpec => EndedIsFinal`. Claims, cancellations and fenced
  writes all ask for an open status, the fence for `running`;
- `LiveLeasesAreKept`: `QueueSpec => LiveLeaseKept`. A token moves by a claiming UPDATE
  only, which compares the lease with an instant captured earlier (`CapturedNow`). Text
  order may call an instant past that lies less than a second ahead (`BeforeWithin`), so
  the statement allows for `Slack`;
- `BackoffsAreKept`: `QueueSpec => BackoffKept`, by the same argument for retries;
- `FailuresAreCounted`: `QueueSpec => AttemptsCounted`, for any clocks and however late a
  failure is written. `Fail` writes the count its claim read, so the worker behind the
  fence must not be more than one failure behind the row (`HolderAttempts`). That is
  inductive with `ReadAttempts`: a claim between its SELECT and its UPDATE that read the
  row's token is at most one failure behind, because the token moves between two failures,
  and not at all while the job runs. A claim that read an older token may still update
  the row, but the token it then presents is one the row has passed.

`ExportJobProofs`, for any number of pages, any row counts and any stalled pages too
(`ExportAssumption`):

- `ExportsRunTheQueue`: `Spec => QueueSpec`, so the theorems above hold of exports;
  `ExportFenceIsUnique` draws the first of them;
- `TypeCorrect`: `Spec => []TypeOK`;
- `ChunksHaveNoGap`: `Spec => []ChunksContiguous`. The fence does not suffice for it: a
  worker may hold the fence with locals it read before its predecessor's last commit.
  `SeqBounded` says that its sequence number is then behind the chunks, and the primary
  key turns its commit down; a commit that gets through is level with them
  (`CommitterIsLevel`). The invariant, `ChunkInv(G)`, leaves out the workers on the jobs
  of a set `G`, of which it knows only that they have ended. Here `G` is empty; with
  erasures it is the set of erased jobs;
- `CommittedProgressIsKept`: `Spec => ProgressKept`. `TotalsCounted` adds that a worker
  level with the chunks has counted all their rows.

`ExportOnceProofs`, for the same exports, through `OnceInv(G)`, again with `G` empty:

- `ResultsAreOrdered`: `Spec => []OrderedDespiteStalls`, and with it `PagesOnce`:
  `Spec => []ExactlyOnce` where no page stalls (`Stalls = {}`). The properties speak of
  chunks only, and what the next chunk will be depends on the locals of a worker. `OnceInv`
  says what the stored cursor tells (`CursorTells`: every page with content before it is
  in, none after it), that a worker level with the chunks stands at that cursor or beyond
  it with only empty pages in between, and that a worker which is behind has a page in
  front of it that somebody else committed (`LocalsTell`), so that it can neither commit
  nor reach the end. The fence is not needed for it;
- `ArtifactsIdentify`: `Spec => []ArtifactIdentity`, and `CompletionsAreOne`:
  `Spec => []CompletionsAgree`. A worker that finishes is level with chunks to which nobody
  can add (`Terminal`), so all digests anybody was told are equal;
- `PromiseIsKept`: `Spec => KeepsPromise` where no page stalls: the refinement of
  `ExportPromise`, action by action.

`ArtifactExportProofs`, for any builds, empty ones included, and any chunk size, jobs and
workers (`ArtifactAssumption`), through `ArtInv`:

- `ArtifactsRunTheQueue`: `ArtifactSpec => QueueSpec`;
- `ArtifactTypeCorrect`: `ArtifactSpec => []ArtifactTypeOK`;
- `CursorsAreTruthful`: `ArtifactSpec => []CursorTruthful`;
- `PublishedAreBuilds`: `ArtifactSpec => []PublishedIsABuild`. Here the fence is needed,
  for two claims may hold different builds. What a worker read of its row is right or
  outdated in one of two ways (`RowRead`): it starts from the beginning of a result that
  has begun, and the primary key turns its first commit down, or its offset is short of the
  bytes there are, and the prefix check turns it down. A worker that reads its build and
  passes the fence has committed exactly the part it has read (`Reading`), or stands at
  the beginning of a result that has begun (`Behind`); by `TokensDistinct` no other commit
  comes between. The latter gets to the end only if its build is empty, so what is
  there is `Publishable`: a whole build, or the beginning of one beside an empty one.

The bytes of a result are its chunks flattened. That a chunk adds its bytes at the end
(`BytesOfMore`) is an induction over the chunks, done as an argument about the least
counterexample (`Least`, from the well-foundedness of the naturals).

`ImportJobProofs`, for any numbers of rows and any batch size, through `ImportInv`:
`ImportsRunTheQueue`: `Spec => QueueSpec`; `ImportTypeCorrect`, `BatchesTileSource`,
`ValidationComesFirst`, `CompletedImportsAreApplied` and `CheckpointsAreTruthful`:
`Spec => []TypeOK`, `[]BatchesTile`, `[]ValidatedFirst`, `[]CompletedIsApplied` and
`[]CheckpointTruthful`. The properties are about recorded calls; `ImportInv` says what the
calls of the claim that a worker holds amount to: they end where its buffer starts, and
the provider accepted the rows handed over, and all rows in the pass before. It needs
`CallsPast`, that a claim's token is new, so that no earlier call of the same worker is
taken for one of the claim.

`SubjectErasureProofs`, for any subjects, jobs, workers and requests, through `ErasureInv`:
`ErasureTypeCorrect`, `FencedSubjectsAreIdle`, `ErasureIsLasting`, `InventoriesAreExact`
(`ErasureSpec => []ErasureTypeOK`, `[]FencedSubjectIdle`, `[]ErasedStaysErased`,
`[]InventoryExact`) and `ErasureSparesOthers` (`ErasureSpec => OthersUntouched`). A fenced
subject has ended jobs only: ended rows are out of reach of every fenced write, and a
fenced subject gets no new ones, so that a receipt goes on listing all its jobs
(`ReceiptsPlan`). A withdrawn job is re-fenced, so `TokenInv` holds here although erasures
are no steps of `QueueSpec`. On top of it:

- `ResultsSurviveErasures` and `ArtifactsSurviveErasures`: `ErasureSpec =>
  [](ChunksContiguous /\ OrderedDespiteStalls)` and `[]ArtifactIdentity`. A worker that
  still holds an erased job is ahead of a result that is no longer there, and may tell the
  provider of a digest that no chunks have, so neither the invariant of exports nor
  `CompletionsAgree` survives an erasure. `ResultInv` says that there is a set `G` with
  `ChunkInv(G)` and `OnceInv(G)`: an execution adds its jobs to `G`, and since those have
  ended, no claim, commit or completion meets one of them;
- `DownloadsAreWhole`: `DownloadSpec => []DownloadWhole` where no page stalls. `StreamInv`
  says what a handler holds after each of its statements: from the artifact's row on, the
  digest of a whole result (`Whole`), of a job that has ended; so the query on the chunks
  finds that result or, after an erasure, nothing (`EndedResult`), and the announced length,
  taken from the artifact and never zero, tells the two apart.

`JobApiProofs`, for any callers, scopes and requests, through `ApiInv`: `ApiTypeCorrect`,
`AnswersAlwaysAgree` and `SubmissionsAreWhole` (`ApiSpec => []ApiTypeOK`,
`[]AnswersAgree`, `[]SubmittedWhole`). A caller inside its transaction holds the lock of a
subject that is not fenced (`LocksHeld`); what a caller outside goes by is still true or
has been erased (`CallersKnow`). `KeyAssumption` says that no submission has the key of an
erased row or the empty fingerprint: the code writes `"erased:"` and a digest of the job
id, and fingerprints are digests.

- `AccessIsEntitlement`: for bundles of any length, `ResolveJobAccess` gives the access of
  the principal's own scope if it is `Entitled`, and none otherwise. The loops over grants
  and policies are folds: the recursive function behind each is shown to exist
  (`GrantLoopExists`), and what it returns is shown by the least position in the list at
  which it would be wrong;
- `OnlyOwnersAreAnswered`: `ApiSpec => []AnswersOnlyOwners`, by what the access lets a
  query find. `AccessAssumption` says that a scope is a record of a workspace and an
  actor, and that the grants, policies and guardrails of a bundle are lists;
  `ListAssumption`, that different jobs have different ids, which a database orders. A
  list is a page of the caller's own jobs (`NewestIsPage`): all of them, or as many as the
  limit allows and none older than one left out. The lemma takes the oldest of the
  jobs shown (`OldestOf`).

`PollLoopProofs`:

- `ShutdownReturns`: `Spec => []ShutdownReturnsJobs`. While nothing has failed, the poller
  a running row names is working on that very job, or the job is the one whose claim
  `Close` cut off (`HoldersWork`). A runtime has one such claim at most: after it the loop
  claims nothing more (`CutOnce`);
- `PollTypeCorrect`: `Spec => []TypeOK`, that is, a queue lists exactly the open jobs of
  its workspace, each once, and no workspace is registered twice. `ListsInv` adds what a
  loop in the middle of `Claim` goes by (`LoopTells`): one that visits or updates has a
  workspace left, one that processes has a job, and a job selected for the update is still
  open. The lemmas about lists without repetition (`RemovedOnce`, `AppendedOnce`) carry the
  rotation of `registerScope`.

The first lemmas of each module say what the operators return; the step lemmas go through
the actions one by one, those of exports through kinds of steps (`StepKinds`: submissions,
commits, and steps that leave the progress alone). `JobQueueProofs` ends with what all the
composing modules need: which steps touch which columns (`RowSteps`,
`WorkerKeepsProgress`), and that a fence is never regained (`FenceNotRegained`). Every
inductive invariant was model-checked on the instances above, and `ErasureInv` also with
two subjects and two requests, before it was proved.

Model-checked only:

- `EveryJobEnds` and `CloseStops`: liveness and `ENABLED` are out of the prover's reach.

All invariants of the runs, and all their action properties and the refinement, are proved.

## Plan

The components with state of their own are modelled, and what the runs check of them is
proved, liveness aside. Should the code change, the place to start is the run of the
component: its mutants say which guard each property rests on, and a proof that no longer
goes through names the action that broke its invariant.

## Not modelled

SQL dialects and migrations, CSV encoding and decoding, payloads, file names, HTTP
routing, parameters and projections of jobs, the assembly of a module or a SaaS
client, forwarding and the embedded documents: text and wiring without state that
the properties could tell apart. A `Close` before `Start` uses up `closeOnce`, so that a
later `Close` does nothing; the models close a runtime after it was started. Chunks do
not rot in the database, so the digest of a single chunk has nothing to find.

The database is taken to execute each statement atomically and each transaction
serializably where the code asks for that; a page commit needs atomicity only, because its
UPDATE carries the fence.
