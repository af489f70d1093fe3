-------------------------- MODULE ImportJobProofs ---------------------------
(***************************************************************************)
(* Proofs about imports: any number of jobs and workers, sources and       *)
(* batches of any size, any answers of the provider.                       *)
(***************************************************************************)
EXTENDS ImportJob, JobQueueProofs

(***************************************************************************)
(* The inductive invariant.  It says of every worker past its claim what   *)
(* the calls of that claim amount to; a claim's token is new, so that no   *)
(* earlier call of the same worker can be taken for one of them.           *)
(***************************************************************************)

Call == [op: {"validate", "apply"}, job: Jobs, worker: Workers, token: Nat,
         batch: Nat, final: BOOLEAN, first: Nat, last: Nat,
         outcome: {"ok", "rejected", "error"}]

\* The calls of the claim that w holds.
Mine(w, c) == c.worker = w /\ c.job = item[w].job /\ c.token = item[w].token

\* Calls were made under tokens the row has reached; a worker that is about
\* to claim its job once more will do so under a new one.
CallsPast ==
    /\ calls \subseteq Call
    /\ \A c \in calls : /\ jobs[c.job].status # "absent"
                        /\ c.token <= jobs[c.job].token
    /\ \A w \in Workers : pc[w] = "claim" =>
          \A c \in calls : c.worker = w /\ c.job = item[w].job =>
                              c.token <= item[w].token

\* The rows of the pass that are handed over.
Handed(p) == p.read - p.buffer

\* The pass that the calls of p belong to.
Kind(p) == IF p.op = "finish" THEN "apply" ELSE p.op

\* The provider has accepted the first n rows in the pass op of w's claim.
AcceptedRows(w, op, n) ==
    \A i \in 1 .. n :
        \E d \in calls : /\ Mine(w, d) /\ d.op = op
                         /\ i \in d.first .. d.last
                         /\ d.outcome = "ok"

\* It has rejected none.
NoneRejected(w, op) ==
    \A d \in calls : Mine(w, d) /\ d.op = op => d.outcome # "rejected"

\* A pass is somewhere in the source.
PassBounded(w) ==
    /\ pass[w].op # "none"
    /\ pass[w].buffer <= pass[w].read
    /\ pass[w].read <= source[item[w].job]

\* The batches handed over so far end where the buffer starts.
PassLinked(w) ==
    /\ pass[w].batch = 0 => Handed(pass[w]) = 0
    /\ pass[w].batch > 0 =>
          \E d \in calls : /\ Mine(w, d) /\ d.op = Kind(pass[w])
                           /\ d.batch = pass[w].batch /\ d.last = Handed(pass[w])

\* Unless rows were rejected, the rows handed over are accepted.
PassAccepted(w) ==
    ~pass[w].rejected =>
        /\ AcceptedRows(w, Kind(pass[w]), Handed(pass[w]))
        /\ NoneRejected(w, Kind(pass[w]))

\* The first pass comes before any apply, and the second after a validation
\* of the whole source.
PassOrdered(w) ==
    IF pass[w].op = "validate"
    THEN \A d \in calls : Mine(w, d) => d.op = "validate"
    ELSE /\ AcceptedRows(w, "validate", source[item[w].job])
         /\ NoneRejected(w, "validate")

\* A worker about to complete its job has handed over everything.
PassFinished(w) ==
    pass[w].op = "finish" =>
        ~pass[w].rejected /\ Handed(pass[w]) = source[item[w].job]

PassTells(w) ==
    /\ PassBounded(w) /\ PassLinked(w) /\ PassAccepted(w)
    /\ PassOrdered(w) /\ PassFinished(w)

PassesTell == \A w \in Workers : pc[w] = "process" => PassTells(w)

\* The job of a worker that may complete it reports all rows.
FinisherReports ==
    \A w \in Workers :
        /\ pc[w] = "process" /\ pass[w].op = "finish"
        /\ fencedJob(jobs[item[w].job], w)
        => jobs[item[w].job].checkpoint = source[item[w].job]

ImportInv ==
    /\ TypeOK /\ TokenInv /\ CallsPast /\ PassesTell
    /\ BatchesTile /\ ValidatedFirst
    /\ CheckpointTruthful /\ FinisherReports /\ CompletedIsApplied

-----------------------------------------------------------------------------
(***************************************************************************)
(* Every step of an import is one of the lease protocol.                   *)
(***************************************************************************)

\* A checkpoint is a fenced write of the progress columns.
LEMMA CheckpointIsProgress ==
    ASSUME TypeOK, NEW w \in Workers, NEW n \in Nat, ImportProgress(w, n)
    PROVE  /\ SomeProgress(w)
           /\ item[w].job \in Jobs
           /\ fencedJob(jobs[item[w].job], w)
           /\ jobs'[item[w].job].checkpoint = n
           /\ jobs'[item[w].job].status = jobs[item[w].job].status
           /\ \A k \in Jobs \ {item[w].job} : jobs'[k] = jobs[k]
           /\ UNCHANGED <<clock, pc, item, live>>
           /\ pc[w] = "process"
<1>1. PICK j \in Jobs, r \in JobRow : j = item[w].job /\ r = jobs[j]
  BY DEF TypeOK, QueueTypeOK, ImportProgress, Progress, Processing
<1>2. PICK u \in Nat, c \in Nat : u = r.cursor /\ c = r.chunks
  BY DEF JobRow
<1>3. Progress(w, n, u, c)
  BY <1>1, <1>2 DEF ImportProgress
<1>4. jobs' = [jobs EXCEPT ![j] = Progressed(r, n, u, c)]
  BY <1>1, <1>3 DEF Progress
<1>5. /\ jobs'[j] = Progressed(r, n, u, c)
      /\ \A k \in Jobs \ {j} : jobs'[k] = jobs[k]
  BY <1>4 DEF TypeOK, QueueTypeOK
<1>6. /\ Progressed(r, n, u, c) \in JobRow
      /\ Progressed(r, n, u, c).checkpoint = n
      /\ Progressed(r, n, u, c).cursor = u /\ Progressed(r, n, u, c).chunks = c
      /\ Progressed(r, n, u, c).status = r.status
  BY ProgressRow
<1>7. /\ jobs'[j] \in JobRow /\ jobs'[j].checkpoint = n /\ jobs'[j].cursor = u
      /\ jobs'[j].chunks = c /\ jobs'[j].status = r.status
  BY <1>5, <1>6, Zenon
<1>8. SomeProgress(w)
  BY <1>1, <1>3, <1>7 DEF SomeProgress
<1>9. QED
  BY <1>1, <1>3, <1>5, <1>7, <1>8 DEF Progress, Processing

\* Every step is a step of the queue or leaves the queue's variables alone.
LEMMA NextIsQueueStep ==
    ASSUME TypeOK, [Next]_vars
    PROVE  [QueueNext]_qvars
<1>1. ASSUME NEW w \in Workers, NEW outcome \in {"ok", "rejected", "error"},
             FlushFull(w, outcome) \/ FlushFinal(w, outcome)
      PROVE  [QueueNext]_qvars
  <2>1. ProcessError(w) \/ UNCHANGED qvars
    BY <1>1 DEF FlushFull, FlushFinal, flush
  <2>2. QED
    BY <2>1 DEF QueueNext, WorkerStep
<1>2. ASSUME NEW w \in Workers, ReadRow(w) PROVE [QueueNext]_qvars
  BY <1>2 DEF ReadRow
<1>3. ASSUME NEW w \in Workers, ValidationDone(w) \/ ApplyDone(w)
      PROVE  SomeProgress(w)
  <2>1. CASE ValidationDone(w)
    BY <2>1, CheckpointIsProgress DEF ValidationDone
  <2>2. CASE ApplyDone(w)
    <3>1. item[w].job \in Jobs
      BY <2>2 DEF ApplyDone, ImportProgress, Progress, Processing, TypeOK, QueueTypeOK
    <3>2. source[item[w].job] \in Nat
      BY <3>1, ImportAssumption DEF TypeOK
    <3>3. QED
      BY <2>2, <3>2, CheckpointIsProgress DEF ApplyDone
  <2>3. QED
    BY <1>3, <2>1, <2>2
<1>4. ASSUME NEW w \in Workers, ValidationDone(w) \/ ApplyDone(w)
      PROVE  [QueueNext]_qvars
  BY <1>3, <1>4 DEF QueueNext, WorkerStep
<1>5. ASSUME NEW w \in Workers, NEW ack \in BOOLEAN, ImportComplete(w, ack)
      PROVE  [QueueNext]_qvars
  BY <1>5 DEF ImportComplete, QueueNext, WorkerStep
<1>6. ASSUME NEW w \in Workers,
             \/ ImportClaimUpdate(w) \/ PassRejected(w) \/ ImportGiveUp(w)
             \/ ImportQueueOnly(w)
      PROVE  [QueueNext]_qvars
  BY <1>6 DEF ImportClaimUpdate, PassRejected, ImportGiveUp, ImportQueueOnly,
              QueueNext, WorkerStep
<1>7. ASSUME NEW j \in Jobs, Submit(j) \/ Cancel(j) PROVE [QueueNext]_qvars
  BY <1>7 DEF QueueNext
<1>8. CASE Tick \/ UNCHANGED vars
  BY <1>8 DEF QueueNext, vars, qvars
<1>9. QED
  BY <1>1, <1>2, <1>4, <1>5, <1>6, <1>7, <1>8 DEF Next, ImportWorker

-----------------------------------------------------------------------------
(***************************************************************************)
(* How a step changes the pass of a worker.                                *)
(***************************************************************************)

PassRow == [op: {"none", "validate", "apply", "finish"}, read: Nat,
            buffer: 0 .. importBatchRows, batch: Nat, rejected: BOOLEAN]

\* The pass after a batch was handed over.
Flushed(p, outcome) ==
    [p EXCEPT !.batch = @ + 1, !.buffer = 0,
              !.rejected = @ \/ outcome = "rejected"]

\* The fields it leaves.
LEMMA FlushedPass ==
    ASSUME NEW p \in PassRow, NEW outcome
    PROVE  /\ Flushed(p, outcome) \in PassRow
           /\ Flushed(p, outcome).op = p.op /\ Flushed(p, outcome).read = p.read
           /\ Flushed(p, outcome).buffer = 0
           /\ Flushed(p, outcome).batch = p.batch + 1
           /\ ~Flushed(p, outcome).rejected => ~p.rejected /\ outcome # "rejected"
<1>1. PICK b \in Nat : b = p.batch + 1
  BY DEF PassRow
<1>2. PICK e \in BOOLEAN : e = (p.rejected \/ outcome = "rejected")
  BY Zenon
<1>3. PICK z \in 0 .. importBatchRows : z = 0
  BY ImportAssumption
<1>4. PICK d : d = [p EXCEPT !.batch = b, !.buffer = z, !.rejected = e]
  OBVIOUS
<1>5. Flushed(p, outcome) = d
  BY <1>1, <1>2, <1>3, <1>4, Zenon DEF Flushed
<1>6. /\ d \in PassRow /\ d.op = p.op /\ d.read = p.read /\ d.buffer = z
      /\ d.batch = b /\ d.rejected = e
  BY <1>4 DEF PassRow
<1>7. ~d.rejected => ~p.rejected /\ outcome # "rejected"
  BY <1>2, <1>6, Zenon
<1>8. QED
  BY <1>1, <1>3, <1>5, <1>6, <1>7

\* The pass after one more row was decoded.
LEMMA ReadPass ==
    ASSUME NEW p \in PassRow, p.buffer < importBatchRows,
           NEW d, d = [p EXCEPT !.read = p.read + 1, !.buffer = p.buffer + 1]
    PROVE  /\ d \in PassRow /\ d.op = p.op /\ d.batch = p.batch
           /\ d.rejected = p.rejected
           /\ d.read = p.read + 1 /\ d.buffer = p.buffer + 1
<1>1. PICK n \in Nat, b \in 0 .. importBatchRows : n = p.read + 1 /\ b = p.buffer + 1
  BY ImportAssumption DEF PassRow
<1>2. d = [p EXCEPT !.read = n, !.buffer = b]
  BY <1>1
<1>3. QED
  BY <1>1, <1>2 DEF PassRow

\* The pass before a claim and at its start.
LEMMA StartPass ==
    /\ NoPass \in PassRow /\ NoPass.op = "none"
    /\ \A op \in {"validate", "apply"} :
          /\ Pass(op) \in PassRow /\ Pass(op).op = op
          /\ Pass(op).read = 0 /\ Pass(op).buffer = 0 /\ Pass(op).batch = 0
          /\ ~Pass(op).rejected
<1>1. PICK f \in BOOLEAN : f = FALSE
  OBVIOUS
<1>2. PICK z \in 0 .. importBatchRows : z = 0
  BY ImportAssumption
<1>3. PICK p : p = [op |-> "none", read |-> 0, buffer |-> z, batch |-> 0, rejected |-> f]
  OBVIOUS
<1>4. NoPass = p
  BY <1>1, <1>2, <1>3, Zenon DEF NoPass
<1>5. p \in PassRow /\ p.op = "none"
  BY <1>3 DEF PassRow
<1>6. ASSUME NEW op \in {"validate", "apply"}
      PROVE  /\ Pass(op) \in PassRow /\ Pass(op).op = op
             /\ Pass(op).read = 0 /\ Pass(op).buffer = 0 /\ Pass(op).batch = 0
             /\ ~Pass(op).rejected
  <2>1. PICK d : d = [p EXCEPT !.op = op]
    OBVIOUS
  <2>2. Pass(op) = d
    BY <1>4, <2>1, Zenon DEF Pass
  <2>3. /\ d \in PassRow /\ d.op = op /\ d.read = 0 /\ d.buffer = z /\ d.batch = 0
        /\ d.rejected = f
    BY <1>3, <2>1 DEF PassRow
  <2>4. QED
    BY <1>1, <1>2, <2>2, <2>3, Zenon
<1>7. QED
  BY <1>4, <1>5, <1>6, Zenon

\* The batch that w hands over now.
TheCall(w, final, outcome) ==
    [op |-> pass[w].op, job |-> item[w].job, worker |-> w,
     token |-> item[w].token, batch |-> pass[w].batch + 1, final |-> final,
     first |-> pass[w].read - pass[w].buffer + 1, last |-> pass[w].read,
     outcome |-> outcome]

\* A provider call: what is recorded and where it leaves the worker.
Called(w, final, outcome) ==
    /\ pc[w] = "process" /\ pass[w].op \in {"validate", "apply"}
    /\ pass[w].buffer > 0
    /\ final <=> pass[w].read = source[item[w].job]
    /\ calls' = calls \cup {TheCall(w, final, outcome)}
    /\ pass' = [pass EXCEPT ![w] = Flushed(pass[w], outcome)]
    /\ UNCHANGED <<clock, jobs, live, source>>
    /\ \A v \in Workers \ {w} : pc'[v] = pc[v] /\ item'[v] = item[v]
    /\ \A v \in Workers : KeepsClaim(v)
    /\ outcome # "error" => item' = item
    /\ pc'[w] = IF outcome = "error" THEN "fail" ELSE "process"

\* Both kinds of batches are such calls.
LEMMA FlushIsCall ==
    ASSUME TypeOK, PassesTell, NEW w \in Workers,
           NEW outcome \in {"ok", "rejected", "error"},
           FlushFull(w, outcome) \/ FlushFinal(w, outcome)
    PROVE  \E final \in BOOLEAN : Called(w, final, outcome)
<1>1. PICK final \in BOOLEAN :
         /\ flush(w, final, outcome) /\ Reading(w) /\ pass[w].buffer > 0
         /\ final <=> ~MoreRows(w)
  <2>1. importBatchRows > 0
    BY ImportAssumption
  <2>2. CASE FlushFull(w, outcome)
    <3>1. flush(w, FALSE, outcome) /\ Reading(w) /\ pass[w].buffer > 0 /\ MoreRows(w)
      BY <2>1, <2>2, Zenon DEF FlushFull
    <3>2. QED
      BY <3>1, Zenon
  <2>3. CASE FlushFinal(w, outcome)
    <3>1. flush(w, TRUE, outcome) /\ Reading(w) /\ pass[w].buffer > 0 /\ ~MoreRows(w)
      BY <2>3, Zenon DEF FlushFinal
    <3>2. QED
      BY <3>1, Zenon
  <2>4. QED
    BY <2>2, <2>3
<1>2. pc[w] = "process" /\ pass[w].op \in {"validate", "apply"}
  BY <1>1 DEF Reading
<1>3. item[w].job \in Jobs /\ pass[w].read \in Nat
  BY <1>2 DEF TypeOK, QueueTypeOK
<1>4. source[item[w].job] \in Nat
  BY <1>3, ImportAssumption DEF TypeOK
<1>5. pass[w].read <= source[item[w].job]
  BY <1>2 DEF PassesTell, PassTells, PassBounded
<1>6. final <=> pass[w].read = source[item[w].job]
  BY <1>1, <1>3, <1>4, <1>5 DEF MoreRows
<1>7. /\ calls' = calls \cup {TheCall(w, final, outcome)} /\ source' = source
      /\ pass' = [pass EXCEPT ![w] = Flushed(pass[w], outcome)]
  BY <1>1, Zenon DEF flush, TheCall, Flushed
<1>8. /\ UNCHANGED <<clock, jobs, live>>
      /\ \A v \in Workers \ {w} : pc'[v] = pc[v] /\ item'[v] = item[v]
      /\ \A v \in Workers : KeepsClaim(v)
      /\ outcome # "error" => item' = item
      /\ pc'[w] = IF outcome = "error" THEN "fail" ELSE "process"
  <2>1. CASE outcome = "error"
    BY <1>1, <2>1, ErrorShape DEF flush, TypeOK
  <2>2. CASE outcome # "error"
    BY <1>1, <1>2, <2>2 DEF flush, qvars, KeepsClaim
  <2>3. QED
    BY <2>1, <2>2
<1>9. QED
  BY <1>1, <1>2, <1>6, <1>7, <1>8 DEF Called

\* The recorded call.
LEMMA CallFields ==
    ASSUME TypeOK, PassesTell, NEW w \in Workers, NEW final \in BOOLEAN,
           NEW outcome \in {"ok", "rejected", "error"}, Called(w, final, outcome)
    PROVE  /\ TheCall(w, final, outcome) \in Call
           /\ TheCall(w, final, outcome).op = pass[w].op
           /\ TheCall(w, final, outcome).job = item[w].job
           /\ TheCall(w, final, outcome).worker = w
           /\ TheCall(w, final, outcome).token = item[w].token
           /\ TheCall(w, final, outcome).batch = pass[w].batch + 1
           /\ TheCall(w, final, outcome).final = final
           /\ TheCall(w, final, outcome).first = Handed(pass[w]) + 1
           /\ TheCall(w, final, outcome).last = pass[w].read
           /\ TheCall(w, final, outcome).outcome = outcome
<1>1. PICK p \in PassRow, x \in WorkItem : p = pass[w] /\ x = item[w]
  BY DEF TypeOK, QueueTypeOK, PassRow
<1>2. /\ x.job \in Jobs /\ p.op \in {"validate", "apply"} /\ x.token \in Nat
      /\ p.buffer <= p.read /\ p.read \in Nat /\ p.buffer \in Nat /\ p.batch \in Nat
  <2>1. pc[w] = "process" /\ p.op \in {"validate", "apply"}
    BY <1>1 DEF Called
  <2>2. x.job \in Jobs /\ x.token \in Nat
    BY <1>1, <2>1 DEF TypeOK, QueueTypeOK, WorkItem
  <2>3. p.buffer <= p.read
    BY <1>1, <2>1 DEF PassesTell, PassTells, PassBounded
  <2>4. QED
    BY <2>1, <2>2, <2>3, ImportAssumption DEF PassRow
<1>3. PICK f \in Nat, b \in Nat : f = p.read - p.buffer + 1 /\ b = p.batch + 1
  BY <1>2
<1>4. PICK c : c = [op |-> p.op, job |-> x.job, worker |-> w, token |-> x.token,
                    batch |-> b, final |-> final, first |-> f, last |-> p.read,
                    outcome |-> outcome]
  OBVIOUS
<1>5. TheCall(w, final, outcome) = c
  BY <1>1, <1>3, <1>4, Zenon DEF TheCall
<1>6. /\ c \in Call /\ c.op = p.op /\ c.job = x.job /\ c.worker = w
      /\ c.token = x.token /\ c.batch = b /\ c.first = f
      /\ c.last = p.read /\ c.outcome = outcome
  BY <1>2, <1>4 DEF Call
<1>7. c.final = final
  BY <1>4
<1>8. QED
  BY <1>1, <1>3, <1>5, <1>6, <1>7, Zenon DEF Handed

\* Worker v keeps its pass, or is not in one after the step, and makes no
\* call.
Still(v) ==
    /\ pc'[v] = "process" =>
          pc[v] = "process" /\ item'[v] = item[v] /\ pass'[v] = pass[v]
    /\ \A c \in calls' \ calls : c.worker # v

\* What the step of a worker does to passes and calls.
PassStep(w) ==
    \/ /\ calls' = calls /\ source' = source
       /\ \A v \in Workers : Still(v)
    \/ /\ calls' = calls /\ source' = source
       /\ \A v \in Workers \ {w} : Still(v)
       /\ ImportClaimUpdate(w) \/ ReadRow(w) \/ ValidationDone(w) \/ ApplyDone(w)
    \/ /\ \A v \in Workers \ {w} : Still(v)
       /\ \E final \in BOOLEAN, outcome \in {"ok", "rejected", "error"} :
             Called(w, final, outcome)

\* Every step of a worker is one of these.
LEMMA WorkerPassSteps ==
    ASSUME TypeOK, PassesTell, [QueueNext]_qvars, NEW w \in Workers, ImportWorker(w)
    PROVE  PassStep(w)
<1>1. pass \in [Workers -> PassRow]
  BY DEF TypeOK, PassRow
<1>2. ASSUME calls' = calls, NEW v \in Workers, pass'[v] = pass[v],
             pc'[v] = pc[v], item'[v] = item[v]
      PROVE  Still(v)
  BY <1>2 DEF Still
<1>3. ASSUME NEW outcome \in {"ok", "rejected", "error"},
             FlushFull(w, outcome) \/ FlushFinal(w, outcome)
      PROVE  PassStep(w)
  <2>1. PICK final \in BOOLEAN : Called(w, final, outcome)
    BY <1>3, FlushIsCall
  <2>2. \A c \in calls' \ calls : c.worker = w
    <3>1. TheCall(w, final, outcome).worker = w
      BY <2>1, CallFields
    <3>2. calls' = calls \cup {TheCall(w, final, outcome)}
      BY <2>1 DEF Called
    <3>3. QED
      BY <3>1, <3>2
  <2>3. \A v \in Workers \ {w} : Still(v)
    BY <1>1, <2>1, <2>2 DEF Called, Still
  <2>4. QED
    BY <2>1, <2>3 DEF PassStep
<1>4. CASE ReadRow(w)
  <2>1. /\ calls' = calls /\ source' = source /\ UNCHANGED <<pc, item>>
        /\ \A v \in Workers \ {w} : pass'[v] = pass[v]
    BY <1>1, <1>4 DEF ReadRow, qvars
  <2>2. QED
    BY <1>2, <1>4, <2>1 DEF PassStep
<1>5. CASE ValidationDone(w)
  <2>1. /\ calls' = calls /\ source' = source /\ UNCHANGED <<pc, item>>
        /\ \A v \in Workers \ {w} : pass'[v] = pass[v]
    BY <1>1, <1>5 DEF ValidationDone, ImportProgress, Progress
  <2>2. QED
    BY <1>2, <1>5, <2>1 DEF PassStep
<1>6. CASE ApplyDone(w)
  <2>1. /\ calls' = calls /\ source' = source /\ UNCHANGED <<pc, item>>
        /\ \A v \in Workers \ {w} : pass'[v] = pass[v]
    BY <1>1, <1>6 DEF ApplyDone, ImportProgress, Progress
  <2>2. QED
    BY <1>2, <1>6, <2>1 DEF PassStep
<1>7. CASE ImportClaimUpdate(w)
  <2>1. /\ calls' = calls /\ source' = source
        /\ \A v \in Workers \ {w} :
              pass'[v] = pass[v] /\ pc'[v] = pc[v] /\ item'[v] = item[v]
    BY <1>1, <1>7 DEF ImportClaimUpdate, ClaimUpdate, TypeOK, QueueTypeOK
  <2>2. QED
    BY <1>2, <1>7, <2>1 DEF PassStep
<1>8. ASSUME calls' = calls, source' = source, pc'[w] # "process",
             \A v \in Workers \ {w} :
                pass'[v] = pass[v] /\ pc'[v] = pc[v] /\ item'[v] = item[v]
      PROVE  PassStep(w)
  <2>1. \A v \in Workers : Still(v)
    BY <1>8 DEF Still
  <2>2. QED
    BY <1>8, <2>1 DEF PassStep
<1>9. CASE ImportGiveUp(w)
  <2>1. Idle(w) /\ calls' = calls /\ source' = source
        /\ pass' = [pass EXCEPT ![w] = NoPass]
    BY <1>9 DEF ImportGiveUp, ClaimMissed, Fail, FailStale, Crash
  <2>2. QED
    BY <1>1, <1>8, <2>1 DEF Idle, TypeOK, QueueTypeOK
<1>10. ASSUME NEW ack \in BOOLEAN, ImportComplete(w, ack) PROVE PassStep(w)
  <2>1. /\ calls' = calls /\ source' = source
        /\ \A v \in Workers \ {w} : pass'[v] = pass[v]
    BY <1>1, <1>10 DEF ImportComplete
  <2>2. /\ pc'[w] # "process"
        /\ \A v \in Workers \ {w} : pc'[v] = pc[v] /\ item'[v] = item[v]
    <3>1. Complete(w, ack)
      BY <1>10 DEF ImportComplete
    <3>2. CASE ack
      BY <3>1, <3>2 DEF Complete, Idle, TypeOK, QueueTypeOK
    <3>3. CASE ~ack
      BY <3>1, <3>3, PlanShape DEF Complete, TypeOK
    <3>4. QED
      BY <3>2, <3>3
  <2>3. QED
    BY <1>8, <2>1, <2>2
<1>11. CASE PassRejected(w)
  <2>1. calls' = calls /\ source' = source /\ pass' = pass /\ ProcessError(w)
    BY <1>11 DEF PassRejected, ivars
  <2>2. QED
    BY <1>8, <2>1, ErrorShape DEF TypeOK
<1>12. CASE ImportQueueOnly(w)
  <2>1. calls' = calls /\ source' = source /\ pass' = pass
    BY <1>12 DEF ImportQueueOnly, ivars
  <2>2. \A v \in Workers : pc'[v] = "process" => pc[v] = "process" /\ item'[v] = item[v]
    <3>1. CASE ProcessError(w)
      BY <3>1, ErrorShape DEF TypeOK
    <3>2. CASE ~ProcessError(w)
      BY <1>12, <3>2 DEF ImportQueueOnly, ClaimSelect, Heartbeat, Interrupt,
                         TypeOK, QueueTypeOK
    <3>3. QED
      BY <3>1, <3>2
  <2>3. QED
    BY <2>1, <2>2 DEF PassStep, Still
<1>13. QED
  BY <1>3, <1>4, <1>5, <1>6, <1>7, <1>9, <1>10, <1>11, <1>12 DEF ImportWorker

-----------------------------------------------------------------------------
(***************************************************************************)
(* The passes go on telling the truth.                                     *)
(***************************************************************************)

\* Calls of others do not touch what a pass tells.
LEMMA OthersCalls ==
    ASSUME NEW v \in Workers, PassTells(v), calls \subseteq calls',
           source' = source, item'[v] = item[v], pass'[v] = pass[v],
           \A c \in calls' \ calls : c.worker # v
    PROVE  PassTells(v)'
<1>1. \A c : Mine(v, c)' <=> Mine(v, c)
  BY DEF Mine
<1>2. \A c \in calls' : Mine(v, c) => c \in calls
  BY DEF Mine
<1>3. ASSUME NEW op, NEW n
      PROVE  /\ AcceptedRows(v, op, n) => AcceptedRows(v, op, n)'
             /\ NoneRejected(v, op) => NoneRejected(v, op)'
  BY <1>1, <1>2 DEF AcceptedRows, NoneRejected
<1>4. PassBounded(v)' /\ PassFinished(v)'
  BY DEF PassTells, PassBounded, PassFinished, Handed
<1>5. PassLinked(v)'
  BY <1>1 DEF PassTells, PassLinked, Handed, Kind
<1>6. PassAccepted(v)'
  <2>1. Kind(pass[v])' = Kind(pass[v]) /\ Handed(pass[v])' = Handed(pass[v])
    BY DEF Kind, Handed
  <2>2. QED
    BY <1>3, <2>1 DEF PassTells, PassAccepted
<1>7. PassOrdered(v)'
  BY <1>1, <1>2, <1>3 DEF PassTells, PassOrdered
<1>8. QED
  BY <1>4, <1>5, <1>6, <1>7 DEF PassTells

\* A claim starts over under a token of its own.
LEMMA ClaimTells ==
    ASSUME ImportInv, NEW w \in Workers, ImportClaimUpdate(w)
    PROVE  PassTells(w)'
<1>1. PICK x \in WorkItem : x = item[w] /\ x.job \in Jobs /\ x.token \in Nat
  BY DEF ImportInv, TypeOK, QueueTypeOK, ImportClaimUpdate, ClaimUpdate, WorkItem
<1>2. item'[w] = Taken(x) /\ pc[w] = "claim"
  BY <1>1 DEF ImportInv, TypeOK, QueueTypeOK, ImportClaimUpdate, ClaimUpdate
<1>3. item'[w].job = x.job /\ item'[w].token = x.token + 1
  BY <1>2, ClaimedItem
<1>4. calls' = calls /\ source' = source /\ pass'[w] = Pass("validate")
  BY DEF ImportInv, TypeOK, ImportClaimUpdate
<1>5. /\ pass'[w].op = "validate" /\ pass'[w].read = 0 /\ pass'[w].buffer = 0
      /\ pass'[w].batch = 0 /\ ~pass'[w].rejected
  BY <1>4, StartPass
<1>6. \A c \in calls : ~Mine(w, c)'
  <2>1. SUFFICES ASSUME NEW c \in calls, Mine(w, c)' PROVE FALSE
    OBVIOUS
  <2>2. c.worker = w /\ c.job = x.job /\ c.token = x.token + 1
    BY <1>3, <2>1 DEF Mine
  <2>3. c.token <= x.token
    BY <1>1, <1>2, <2>2 DEF ImportInv, CallsPast
  <2>4. QED
    BY <1>1, <2>2, <2>3
<1>7. source[x.job] \in Nat
  BY <1>1, ImportAssumption DEF ImportInv, TypeOK
<1>8. Handed(pass[w])' = 0 /\ Kind(pass[w])' = "validate"
  BY <1>5 DEF Handed, Kind
<1>9. PassBounded(w)' /\ PassLinked(w)' /\ PassFinished(w)'
  BY <1>1, <1>3, <1>4, <1>5, <1>7, <1>8 DEF PassBounded, PassLinked, PassFinished
<1>10. PassAccepted(w)'
  BY <1>4, <1>6, <1>8 DEF PassAccepted, AcceptedRows, NoneRejected
<1>11. PassOrdered(w)'
  BY <1>4, <1>5, <1>6 DEF PassOrdered
<1>12. QED
  BY <1>9, <1>10, <1>11 DEF PassTells

\* A row goes to the buffer.
LEMMA ReadTells ==
    ASSUME ImportInv, NEW w \in Workers, ReadRow(w)
    PROVE  PassTells(w)'
<1>1. PICK p \in PassRow : p = pass[w]
  BY DEF ImportInv, TypeOK, PassRow
<1>2. PICK d : d = [p EXCEPT !.read = p.read + 1, !.buffer = p.buffer + 1]
  OBVIOUS
<1>3. p.buffer < importBatchRows /\ p.read < source[item[w].job]
  BY <1>1 DEF ReadRow, MoreRows
<1>4. /\ d.op = p.op /\ d.batch = p.batch /\ d.rejected = p.rejected
      /\ d.read = p.read + 1 /\ d.buffer = p.buffer + 1
  BY <1>2, <1>3, ReadPass
<1>5. pass'[w] = d
  BY <1>1, <1>2 DEF ImportInv, TypeOK, ReadRow
<1>6. item' = item /\ source' = source /\ calls' = calls /\ pc[w] = "process"
  BY DEF ReadRow, Reading, qvars
<1>7. p.read \in Nat /\ p.buffer \in Nat /\ source[item[w].job] \in Nat
  <2>1. item[w].job \in Jobs
    BY <1>6 DEF ImportInv, TypeOK, QueueTypeOK
  <2>2. source[item[w].job] \in Nat
    BY <2>1, ImportAssumption DEF ImportInv, TypeOK
  <2>3. QED
    BY <2>2, ImportAssumption DEF PassRow
<1>8. PassTells(w)
  BY <1>6 DEF ImportInv, PassesTell
<1>9. Handed(pass[w])' = Handed(pass[w]) /\ Kind(pass[w])' = Kind(pass[w])
  BY <1>1, <1>4, <1>5, <1>7 DEF Handed, Kind
<1>10. \A c : Mine(w, c)' <=> Mine(w, c)
  BY <1>6 DEF Mine
<1>11. ASSUME NEW op, NEW n
       PROVE  /\ AcceptedRows(w, op, n) => AcceptedRows(w, op, n)'
              /\ NoneRejected(w, op) => NoneRejected(w, op)'
  BY <1>6, <1>10 DEF AcceptedRows, NoneRejected
<1>12. PassBounded(w)'
  BY <1>1, <1>3, <1>4, <1>5, <1>6, <1>7, <1>8 DEF PassTells, PassBounded
<1>13. PassFinished(w)'
  BY <1>1, <1>4, <1>5, <1>6, <1>8, <1>9, Zenon DEF PassTells, PassFinished
<1>14. PassLinked(w)'
  BY <1>1, <1>4, <1>5, <1>6, <1>8, <1>9, <1>10 DEF PassTells, PassLinked
<1>15. PassAccepted(w)'
  BY <1>1, <1>4, <1>5, <1>8, <1>9, <1>11, Zenon DEF PassTells, PassAccepted
<1>16. PassOrdered(w)'
  BY <1>1, <1>4, <1>5, <1>6, <1>8, <1>10, <1>11 DEF PassTells, PassOrdered
<1>17. QED
  BY <1>12, <1>13, <1>14, <1>15, <1>16 DEF PassTells

\* A batch is handed over.
LEMMA CallTells ==
    ASSUME ImportInv, NEW w \in Workers, NEW final \in BOOLEAN,
           NEW outcome \in {"ok", "rejected"}, Called(w, final, outcome)
    PROVE  PassTells(w)'
<1>1. PICK p \in PassRow : p = pass[w]
  BY DEF ImportInv, TypeOK, PassRow
<1>2. PICK c : c = TheCall(w, final, outcome)
  OBVIOUS
<1>3. /\ c.op = p.op /\ c.job = item[w].job /\ c.worker = w
      /\ c.token = item[w].token /\ c.batch = p.batch + 1
      /\ c.first = Handed(p) + 1 /\ c.last = p.read /\ c.outcome = outcome
  BY <1>1, <1>2, CallFields DEF ImportInv
<1>4. /\ calls' = calls \cup {c} /\ item' = item /\ source' = source
      /\ p.op \in {"validate", "apply"} /\ p.buffer > 0 /\ pc[w] = "process"
  BY <1>1, <1>2 DEF Called
<1>5. pass'[w] = Flushed(p, outcome)
  BY <1>1 DEF ImportInv, TypeOK, Called
<1>6. /\ pass'[w].op = p.op /\ pass'[w].read = p.read /\ pass'[w].buffer = 0
      /\ pass'[w].batch = p.batch + 1
      /\ ~pass'[w].rejected => ~p.rejected /\ outcome # "rejected"
  BY <1>5, FlushedPass
<1>7. /\ p.read \in Nat /\ p.buffer \in Nat /\ p.batch \in Nat
      /\ source[item[w].job] \in Nat
  <2>1. item[w].job \in Jobs
    BY <1>4 DEF ImportInv, TypeOK, QueueTypeOK
  <2>2. source[item[w].job] \in Nat
    BY <2>1, ImportAssumption DEF ImportInv, TypeOK
  <2>3. QED
    BY <2>2, ImportAssumption DEF PassRow
<1>8. PassTells(w)
  BY <1>4 DEF ImportInv, PassesTell
<1>9. Handed(pass[w])' = p.read /\ Kind(pass[w])' = p.op /\ Kind(p) = p.op
  BY <1>4, <1>6, <1>7 DEF Handed, Kind
<1>10. (\A d : Mine(w, d)' <=> Mine(w, d)) /\ Mine(w, c)
  BY <1>3, <1>4 DEF Mine
<1>11. PassBounded(w)'
  BY <1>1, <1>4, <1>6, <1>7, <1>8 DEF PassTells, PassBounded
<1>12. PassFinished(w)'
  BY <1>4, <1>6 DEF PassFinished
<1>13. PassLinked(w)'
  BY <1>3, <1>4, <1>6, <1>7, <1>9, <1>10 DEF PassLinked
<1>14. PassAccepted(w)'
  <2>1. SUFFICES ASSUME ~pass'[w].rejected
                 PROVE  AcceptedRows(w, p.op, p.read)' /\ NoneRejected(w, p.op)'
    BY <1>9 DEF PassAccepted
  <2>2. ~p.rejected /\ outcome = "ok"
    BY <1>6, <2>1
  <2>3. AcceptedRows(w, p.op, Handed(p)) /\ NoneRejected(w, p.op)
    BY <1>1, <1>8, <1>9, <2>2 DEF PassTells, PassAccepted
  <2>4. AcceptedRows(w, p.op, p.read)'
    <3>1. SUFFICES ASSUME NEW i \in 1 .. p.read
                   PROVE  \E d \in calls' : /\ Mine(w, d) /\ d.op = p.op
                                            /\ i \in d.first .. d.last
                                            /\ d.outcome = "ok"
      BY <1>10 DEF AcceptedRows
    <3>2. Handed(p) \in Int
      BY <1>7 DEF Handed
    <3>3. CASE i \in 1 .. Handed(p)
      BY <1>4, <2>3, <3>3 DEF AcceptedRows
    <3>4. CASE i \notin 1 .. Handed(p)
      <4>1. i \in c.first .. c.last
        BY <1>3, <1>7, <3>1, <3>2, <3>4
      <4>2. QED
        BY <1>3, <1>4, <1>10, <2>2, <4>1
    <3>5. QED
      BY <3>3, <3>4
  <2>5. NoneRejected(w, p.op)'
    BY <1>3, <1>4, <1>10, <2>2, <2>3 DEF NoneRejected
  <2>6. QED
    BY <2>4, <2>5
<1>15. PassOrdered(w)'
  <2>1. CASE p.op = "validate"
    BY <1>1, <1>3, <1>4, <1>6, <1>8, <1>10, <2>1 DEF PassTells, PassOrdered
  <2>2. CASE p.op = "apply"
    <3>1. /\ AcceptedRows(w, "validate", source[item[w].job])
          /\ NoneRejected(w, "validate")
      BY <1>1, <1>8, <2>2 DEF PassTells, PassOrdered
    <3>2. AcceptedRows(w, "validate", source[item[w].job])'
      BY <1>4, <1>10, <3>1 DEF AcceptedRows
    <3>3. NoneRejected(w, "validate")'
      BY <1>3, <1>4, <1>10, <2>2, <3>1 DEF NoneRejected
    <3>4. QED
      BY <1>6, <2>2, <3>2, <3>3 DEF PassOrdered
  <2>3. QED
    BY <1>4, <2>1, <2>2
<1>16. QED
  BY <1>11, <1>12, <1>13, <1>14, <1>15 DEF PassTells

\* A pass that is done has handed over the whole source.
LEMMA DoneIsWhole ==
    ASSUME ImportInv, NEW w \in Workers, pc[w] = "process", PassDone(w)
    PROVE  /\ item[w].job \in Jobs /\ source[item[w].job] \in Nat
           /\ Handed(pass[w]) = source[item[w].job]
<1>1. item[w].job \in Jobs
  BY DEF ImportInv, TypeOK, QueueTypeOK
<1>2. source[item[w].job] \in Nat
  BY <1>1, ImportAssumption DEF ImportInv, TypeOK
<1>3. pass[w].read \in Nat
  BY DEF ImportInv, TypeOK
<1>4. pass[w].read <= source[item[w].job]
  BY DEF ImportInv, PassesTell, PassTells, PassBounded
<1>5. QED
  BY <1>1, <1>2, <1>3, <1>4 DEF PassDone, MoreRows, Handed

\* The validation is over and the second pass begins.
LEMMA ValidationTells ==
    ASSUME ImportInv, NEW w \in Workers, ValidationDone(w)
    PROVE  PassTells(w)'
<1>1. /\ pc[w] = "process" /\ item' = item /\ source' = source /\ calls' = calls
      /\ pass[w].op = "validate" /\ ~pass[w].rejected /\ PassDone(w)
  BY DEF ValidationDone, ImportProgress, Progress, Processing
<1>2. pass'[w] = Pass("apply")
  BY DEF ImportInv, TypeOK, ValidationDone
<1>3. /\ pass'[w].op = "apply" /\ pass'[w].read = 0 /\ pass'[w].buffer = 0
      /\ pass'[w].batch = 0 /\ ~pass'[w].rejected
  BY <1>2, StartPass
<1>4. PassTells(w)
  BY <1>1 DEF ImportInv, PassesTell
<1>5. Handed(pass[w]) = source[item[w].job] /\ source[item[w].job] \in Nat
  BY <1>1, DoneIsWhole
<1>6. \A d : Mine(w, d)' <=> Mine(w, d)
  BY <1>1 DEF Mine
<1>7. Handed(pass[w])' = 0 /\ Kind(pass[w])' = "apply" /\ Kind(pass[w]) = "validate"
  BY <1>1, <1>3 DEF Handed, Kind
<1>8. PassBounded(w)' /\ PassLinked(w)' /\ PassFinished(w)'
  BY <1>1, <1>3, <1>5, <1>7 DEF PassBounded, PassLinked, PassFinished
<1>9. PassAccepted(w)'
  <2>1. \A d \in calls : Mine(w, d) => d.op = "validate"
    BY <1>1, <1>4 DEF PassTells, PassOrdered
  <2>2. QED
    BY <1>1, <1>6, <1>7, <2>1 DEF PassAccepted, AcceptedRows, NoneRejected
<1>10. PassOrdered(w)'
  <2>1. /\ AcceptedRows(w, "validate", source[item[w].job])
        /\ NoneRejected(w, "validate")
    BY <1>1, <1>4, <1>5, <1>7 DEF PassTells, PassAccepted
  <2>2. QED
    BY <1>1, <1>3, <1>6, <2>1 DEF PassOrdered, AcceptedRows, NoneRejected
<1>11. QED
  BY <1>8, <1>9, <1>10 DEF PassTells

\* The second pass is over.
LEMMA ApplyTells ==
    ASSUME ImportInv, NEW w \in Workers, ApplyDone(w)
    PROVE  PassTells(w)'
<1>1. /\ pc[w] = "process" /\ item' = item /\ source' = source /\ calls' = calls
      /\ pass[w].op = "apply" /\ ~pass[w].rejected /\ PassDone(w)
  BY DEF ApplyDone, ImportProgress, Progress, Processing
<1>2. PICK p \in PassRow : p = pass[w]
  BY DEF ImportInv, TypeOK, PassRow
<1>3. PICK d : d = [p EXCEPT !.op = "finish"]
  OBVIOUS
<1>4. pass'[w] = d
  BY <1>2, <1>3 DEF ImportInv, TypeOK, ApplyDone
<1>5. /\ d.op = "finish" /\ d.read = p.read /\ d.buffer = p.buffer
      /\ d.batch = p.batch /\ d.rejected = p.rejected
  BY <1>3 DEF PassRow
<1>6. PassTells(w)
  BY <1>1 DEF ImportInv, PassesTell
<1>7. Handed(pass[w]) = source[item[w].job]
  BY <1>1, DoneIsWhole
<1>8. \A c : Mine(w, c)' <=> Mine(w, c)
  BY <1>1 DEF Mine
<1>9. /\ Handed(pass[w])' = Handed(pass[w])
      /\ Kind(pass[w])' = "apply" /\ Kind(pass[w]) = "apply"
  BY <1>1, <1>2, <1>4, <1>5 DEF Handed, Kind
<1>10. PassBounded(w)' /\ PassLinked(w)'
  BY <1>1, <1>2, <1>4, <1>5, <1>6, <1>8, <1>9 DEF PassTells, PassBounded, PassLinked
<1>11. PassFinished(w)'
  BY <1>1, <1>2, <1>4, <1>5, <1>7, <1>9, Zenon DEF PassFinished
<1>12. PassAccepted(w)'
  <2>1. AcceptedRows(w, "apply", Handed(pass[w])) /\ NoneRejected(w, "apply")
    BY <1>1, <1>6, <1>9 DEF PassTells, PassAccepted
  <2>2. AcceptedRows(w, "apply", Handed(pass[w]))' /\ NoneRejected(w, "apply")'
    BY <1>1, <1>8, <1>9, <2>1 DEF AcceptedRows, NoneRejected
  <2>3. QED
    BY <1>9, <2>2 DEF PassAccepted
<1>13. PassOrdered(w)'
  <2>1. /\ AcceptedRows(w, "validate", source[item[w].job])
        /\ NoneRejected(w, "validate")
    BY <1>1, <1>6 DEF PassTells, PassOrdered
  <2>2. QED
    BY <1>1, <1>4, <1>5, <1>8, <2>1 DEF PassOrdered, AcceptedRows, NoneRejected
<1>14. QED
  BY <1>10, <1>11, <1>12, <1>13 DEF PassTells

-----------------------------------------------------------------------------
(***************************************************************************)
(* The invariant is kept, one conjunct after the other.                    *)
(***************************************************************************)

\* What a step does to passes and calls.
LEMMA PassSteps ==
    ASSUME TypeOK, PassesTell, [Next]_vars
    PROVE  \/ UNCHANGED <<source, calls>> /\ \A v \in Workers : Still(v)
           \/ \E w \in Workers : PassStep(w)
<1>1. [QueueNext]_qvars
  BY NextIsQueueStep
<1>2. ASSUME UNCHANGED <<pc, item, ivars>>
      PROVE  UNCHANGED <<source, calls>> /\ \A v \in Workers : Still(v)
  BY <1>2 DEF Still, ivars
<1>3. ASSUME NEW j \in Jobs, Submit(j) \/ Cancel(j), UNCHANGED ivars
      PROVE  UNCHANGED <<pc, item, ivars>>
  BY <1>3 DEF Submit, Cancel
<1>4. ASSUME (Tick /\ UNCHANGED ivars) \/ UNCHANGED vars
      PROVE  UNCHANGED <<pc, item, ivars>>
  BY <1>4 DEF Tick, vars, qvars
<1>5. QED
  BY <1>1, <1>2, <1>3, <1>4, WorkerPassSteps DEF Next

\* Calls are only added and sources stay.
LEMMA CallsGrow ==
    ASSUME TypeOK, PassesTell, [Next]_vars
    PROVE  calls \subseteq calls' /\ source' = source
BY PassSteps DEF PassStep, Called

\* The types are kept.
LEMMA ImportTypeStep ==
    ASSUME TypeOK, PassesTell, [Next]_vars
    PROVE  TypeOK'
<1>1. QueueTypeOK' /\ source' = source
  BY NextIsQueueStep, QueueTypeStep, CallsGrow DEF TypeOK
<1>2. pass \in [Workers -> PassRow]
  BY DEF TypeOK, PassRow
<1>3. ASSUME NEW w \in Workers, NEW outcome \in {"ok", "rejected", "error"},
             FlushFull(w, outcome) \/ FlushFinal(w, outcome)
      PROVE  pass' \in [Workers -> PassRow]
  <2>1. pass' = [pass EXCEPT ![w] = Flushed(pass[w], outcome)]
    BY <1>3, FlushIsCall DEF Called
  <2>2. Flushed(pass[w], outcome) \in PassRow
    BY <1>2, FlushedPass
  <2>3. QED
    BY <1>2, <2>1, <2>2
<1>4. ASSUME NEW w \in Workers, ReadRow(w) PROVE pass' \in [Workers -> PassRow]
  <2>1. PICK p \in PassRow : p = pass[w]
    BY <1>2
  <2>2. PICK d : d = [p EXCEPT !.read = p.read + 1, !.buffer = p.buffer + 1]
    OBVIOUS
  <2>3. pass' = [pass EXCEPT ![w] = d]
    BY <1>2, <1>4, <2>1, <2>2 DEF ReadRow
  <2>4. d \in PassRow
    BY <1>4, <2>1, <2>2, ReadPass DEF ReadRow
  <2>5. QED
    BY <1>2, <2>3, <2>4
<1>5. ASSUME NEW w \in Workers, ApplyDone(w) PROVE pass' \in [Workers -> PassRow]
  <2>1. PICK p \in PassRow : p = pass[w]
    BY <1>2
  <2>2. PICK d : d = [p EXCEPT !.op = "finish"]
    OBVIOUS
  <2>3. pass' = [pass EXCEPT ![w] = d]
    BY <1>2, <1>5, <2>1, <2>2 DEF ApplyDone
  <2>4. d \in PassRow
    BY <2>2 DEF PassRow
  <2>5. QED
    BY <1>2, <2>3, <2>4
<1>6. ASSUME NEW w \in Workers, ValidationDone(w) \/ ImportClaimUpdate(w) \/ ImportGiveUp(w)
      PROVE  pass' \in [Workers -> PassRow]
  <2>1. PICK d \in PassRow : pass' = [pass EXCEPT ![w] = d]
    BY <1>6, StartPass DEF ValidationDone, ImportClaimUpdate, ImportGiveUp
  <2>2. QED
    BY <1>2, <2>1
<1>7. ASSUME NEW w \in Workers, NEW ack \in BOOLEAN, ImportComplete(w, ack)
      PROVE  pass' \in [Workers -> PassRow]
  BY <1>2, <1>7, StartPass DEF ImportComplete
<1>8. ASSUME NEW w \in Workers, PassRejected(w) \/ ImportQueueOnly(w)
      PROVE  pass' = pass
  BY <1>8 DEF PassRejected, ImportQueueOnly, ivars
<1>9. ASSUME UNCHANGED ivars \/ UNCHANGED vars PROVE pass' = pass
  BY <1>9 DEF ivars, vars
<1>10. pass' \in [Workers -> PassRow]
  BY <1>2, <1>3, <1>4, <1>5, <1>6, <1>7, <1>8, <1>9, Zenon DEF Next, ImportWorker
<1>11. QED
  BY <1>1, <1>10 DEF TypeOK, PassRow

\* The passes go on telling.
LEMMA PassesStep ==
    ASSUME ImportInv, [Next]_vars
    PROVE  PassesTell'
<1>1. SUFFICES ASSUME NEW v \in Workers, pc'[v] = "process" PROVE PassTells(v)'
  BY DEF PassesTell
<1>2. calls \subseteq calls' /\ source' = source
  BY CallsGrow DEF ImportInv
<1>3. CASE Still(v)
  <2>1. PassTells(v)
    BY <1>1, <1>3 DEF Still, ImportInv, PassesTell
  <2>2. QED
    BY <1>1, <1>2, <1>3, <2>1, OthersCalls DEF Still
<1>4. CASE ImportClaimUpdate(v) \/ ReadRow(v) \/ ValidationDone(v) \/ ApplyDone(v)
  BY <1>4, ClaimTells, ReadTells, ValidationTells, ApplyTells
<1>5. ASSUME NEW final \in BOOLEAN, NEW outcome \in {"ok", "rejected", "error"},
             Called(v, final, outcome)
      PROVE  PassTells(v)'
  <2>1. outcome # "error"
    BY <1>1, <1>5 DEF Called
  <2>2. QED
    BY <1>5, <2>1, CallTells
<1>6. QED
  BY <1>3, <1>4, <1>5, PassSteps DEF ImportInv, PassStep

\* Tokens of calls stay behind.
LEMMA CallsPastStep ==
    ASSUME ImportInv, [Next]_vars
    PROVE  CallsPast'
<1> USE DEF ImportInv
<1>1. [QueueNext]_qvars
  BY NextIsQueueStep
<1>2. \A c \in calls : /\ c.job \in Jobs /\ c.token \in Nat
                       /\ jobs'[c.job].status # "absent"
                       /\ c.token <= jobs'[c.job].token
  <2>1. SUFFICES ASSUME NEW c \in calls
                 PROVE  /\ c.job \in Jobs /\ c.token \in Nat
                        /\ jobs'[c.job].status # "absent"
                        /\ c.token <= jobs'[c.job].token
    OBVIOUS
  <2>2. c.job \in Jobs /\ c.token \in Nat
    BY DEF CallsPast, Call
  <2>3. /\ jobs[c.job].token \in Nat /\ jobs'[c.job].token \in Nat
    BY <1>1, <2>2, QueueTypeStep DEF TypeOK, QueueTypeOK, JobRow
  <2>4. /\ jobs'[c.job].status # "absent" /\ jobs'[c.job].token >= jobs[c.job].token
        /\ c.token <= jobs[c.job].token
    BY <1>1, <2>2, TokensGrow DEF CallsPast, TypeOK
  <2>5. QED
    BY <2>2, <2>3, <2>4
<1>3. ASSUME NEW w \in Workers, NEW final \in BOOLEAN,
             NEW outcome \in {"ok", "rejected", "error"}, Called(w, final, outcome)
      PROVE  \A c \in calls' \ calls :
                /\ c \in Call /\ jobs'[c.job].status # "absent"
                /\ c.token <= jobs'[c.job].token
                /\ c.worker = w
  <2>1. PICK d : d = TheCall(w, final, outcome)
    OBVIOUS
  <2>2. d \in Call /\ d.job = item[w].job /\ d.token = item[w].token /\ d.worker = w
    BY <1>3, <2>1, CallFields
  <2>3. calls' = calls \cup {d} /\ jobs' = jobs /\ pc[w] = "process"
    BY <1>3, <2>1 DEF Called
  <2>4. jobs[item[w].job].status # "absent" /\ item[w].token <= jobs[item[w].job].token
    BY <2>3 DEF TokenInv, JobsKnown, TokensBounded
  <2>5. QED
    BY <2>2, <2>3, <2>4
<1>4. \A c \in calls' \ calls :
         /\ c \in Call /\ jobs'[c.job].status # "absent"
         /\ c.token <= jobs'[c.job].token
         /\ pc[c.worker] = "process"
  <2>1. CASE calls' = calls
    BY <2>1
  <2>2. ASSUME NEW w \in Workers, NEW final \in BOOLEAN,
               NEW outcome \in {"ok", "rejected", "error"}, Called(w, final, outcome)
        PROVE  \A c \in calls' \ calls :
                  /\ c \in Call /\ jobs'[c.job].status # "absent"
                  /\ c.token <= jobs'[c.job].token
                  /\ pc[c.worker] = "process"
    BY <1>3, <2>2 DEF Called
  <2>3. QED
    BY <2>1, <2>2, PassSteps DEF PassStep
<1>5. ASSUME NEW w \in Workers, pc'[w] = "claim", NEW c \in calls', c.worker = w,
             c.job = item'[w].job
      PROVE  c.token <= item'[w].token
  <2>1. CASE pc'[w] = pc[w] /\ item'[w] = item[w]
    <3>1. c \in calls
      BY <1>4, <1>5, <2>1
    <3>2. QED
      BY <1>5, <2>1, <3>1 DEF CallsPast
  <2>2. ASSUME NEW j \in Jobs, ClaimSelect(w, j) PROVE c.token <= item'[w].token
    <3>1. /\ item'[w].job = j /\ item'[w].token = jobs[j].token /\ pc[w] = "idle"
      BY <2>2 DEF ClaimSelect, TypeOK, QueueTypeOK
    <3>2. c \in calls
      BY <1>4, <1>5, <3>1
    <3>3. QED
      BY <1>5, <3>1, <3>2 DEF CallsPast
  <2>3. ASSUME ClaimUpdate(w) PROVE FALSE
    BY <1>5, <2>3 DEF ClaimUpdate, TypeOK, QueueTypeOK
  <2>4. QED
    BY <1>1, <1>5, <2>1, <2>2, <2>3, WorkerMoves DEF TypeOK
<1>6. QED
  BY <1>2, <1>4, <1>5 DEF CallsPast

\* What a claim has had accepted stays accepted.
LEMMA AcceptedStays ==
    ASSUME calls \subseteq calls', source' = source, NEW c, NEW op, Accepted(c, op)
    PROVE  Accepted(c, op)'
BY DEF Accepted

\* Each new batch continues the one before it.
LEMMA TileStep ==
    ASSUME ImportInv, [Next]_vars
    PROVE  BatchesTile'
<1> USE DEF ImportInv
<1>1. calls \subseteq calls' /\ source' = source
  BY CallsGrow
<1>2. SUFFICES ASSUME NEW c \in calls'
               PROVE  /\ c.first <= c.last /\ c.last - c.first < importBatchRows
                      /\ c.final <=> c.last = source[c.job]
                      /\ IF c.batch = 1
                         THEN c.first = 1
                         ELSE \E d \in calls' : /\ SameClaim(c, d) /\ d.op = c.op
                                                /\ d.batch = c.batch - 1
                                                /\ d.last = c.first - 1
  BY <1>1 DEF BatchesTile
<1>3. CASE c \in calls
  BY <1>1, <1>3 DEF BatchesTile
<1>4. ASSUME NEW w \in Workers, NEW final \in BOOLEAN,
             NEW outcome \in {"ok", "rejected", "error"}, Called(w, final, outcome),
             c \notin calls
      PROVE  /\ c.first <= c.last /\ c.last - c.first < importBatchRows
             /\ c.final <=> c.last = source[c.job]
             /\ IF c.batch = 1
                THEN c.first = 1
                ELSE \E d \in calls' : /\ SameClaim(c, d) /\ d.op = c.op
                                       /\ d.batch = c.batch - 1
                                       /\ d.last = c.first - 1
  <2>1. PICK p \in PassRow : p = pass[w]
    BY DEF TypeOK, PassRow
  <2>2. c = TheCall(w, final, outcome)
    BY <1>2, <1>4 DEF Called
  <2>3. /\ c.op = p.op /\ c.job = item[w].job /\ c.worker = w
        /\ c.token = item[w].token /\ c.batch = p.batch + 1 /\ c.final = final
        /\ c.first = Handed(p) + 1 /\ c.last = p.read
    BY <1>4, <2>1, <2>2, CallFields
  <2>4. /\ pc[w] = "process" /\ p.op \in {"validate", "apply"} /\ p.buffer > 0
        /\ final <=> p.read = source[item[w].job]
    BY <1>4, <2>1 DEF Called
  <2>5. /\ p.read \in Nat /\ p.buffer \in Nat /\ p.batch \in Nat
        /\ p.buffer <= importBatchRows /\ importBatchRows \in Nat
    BY ImportAssumption DEF PassRow
  <2>6. PassTells(w) /\ Kind(p) = p.op
    BY <2>4 DEF PassesTell, Kind
  <2>7. c.first <= c.last /\ c.last - c.first < importBatchRows
    BY <2>3, <2>4, <2>5 DEF Handed
  <2>8. c.final <=> c.last = source[c.job]
    BY <2>3, <2>4
  <2>9. CASE p.batch = 0
    <3>1. Handed(p) = 0
      BY <2>1, <2>6, <2>9 DEF PassTells, PassLinked
    <3>2. c.batch = 1 /\ c.first = 1
      BY <2>3, <2>9, <3>1
    <3>3. QED
      BY <2>7, <2>8, <3>2
  <2>10. CASE p.batch > 0
    <3>1. PICK d \in calls : /\ Mine(w, d) /\ d.op = p.op
                             /\ d.batch = p.batch /\ d.last = Handed(p)
      BY <2>1, <2>6, <2>10 DEF PassTells, PassLinked
    <3>2. SameClaim(c, d) /\ d.op = c.op
      BY <2>3, <3>1 DEF Mine, SameClaim
    <3>3. d.batch = c.batch - 1 /\ d.last = c.first - 1 /\ c.batch # 1
      BY <2>3, <2>5, <2>10, <3>1 DEF Handed
    <3>4. QED
      BY <1>1, <2>7, <2>8, <3>2, <3>3
  <2>11. QED
    BY <2>5, <2>9, <2>10
<1>5. QED
  BY <1>2, <1>3, <1>4, PassSteps DEF PassStep

\* A claim applies only what it has validated.
LEMMA ValidatedStep ==
    ASSUME ImportInv, [Next]_vars
    PROVE  ValidatedFirst'
<1> USE DEF ImportInv
<1>1. calls \subseteq calls' /\ source' = source
  BY CallsGrow
<1>2. CASE calls' = calls
  BY <1>1, <1>2, AcceptedStays DEF ValidatedFirst
<1>3. ASSUME NEW w \in Workers, NEW final \in BOOLEAN,
             NEW outcome \in {"ok", "rejected", "error"}, Called(w, final, outcome)
      PROVE  ValidatedFirst'
  <2>1. PICK e : e = TheCall(w, final, outcome)
    OBVIOUS
  <2>2. /\ e.op = pass[w].op /\ e.job = item[w].job /\ e.worker = w
        /\ e.token = item[w].token
    BY <1>3, <2>1, CallFields
  <2>3. calls' = calls \cup {e} /\ pc[w] = "process"
    BY <1>3, <2>1 DEF Called
  <2>4. PassTells(w)
    BY <2>3 DEF PassesTell
  <2>5. SUFFICES ASSUME NEW c \in calls', c.op = "apply"
                 PROVE  /\ Accepted(c, "validate")'
                        /\ ~ \E d \in calls' : /\ SameClaim(c, d) /\ d.op = "validate"
                                               /\ d.outcome = "rejected"
    BY DEF ValidatedFirst
  <2>6. CASE c \in calls
    <3>1. Accepted(c, "validate")'
      BY <1>1, <2>5, <2>6, AcceptedStays DEF ValidatedFirst
    <3>2. ~(SameClaim(c, e) /\ e.op = "validate")
      <4>1. SUFFICES ASSUME SameClaim(c, e), e.op = "validate" PROVE FALSE
        OBVIOUS
      <4>2. Mine(w, c)
        BY <2>2, <4>1 DEF SameClaim, Mine
      <4>3. pass[w].op = "validate"
        BY <2>2, <4>1
      <4>4. QED
        BY <2>4, <2>5, <2>6, <4>2, <4>3 DEF PassTells, PassOrdered
    <3>3. QED
      BY <2>3, <2>5, <2>6, <3>1, <3>2 DEF ValidatedFirst
  <2>7. CASE c = e
    <3>1. /\ AcceptedRows(w, "validate", source[item[w].job])
          /\ NoneRejected(w, "validate")
      BY <2>2, <2>4, <2>5, <2>7 DEF PassTells, PassOrdered
    <3>2. \A d : SameClaim(c, d) <=> Mine(w, d)
      BY <2>2, <2>7 DEF SameClaim, Mine
    <3>3. Accepted(c, "validate")
      BY <2>2, <2>7, <3>1, <3>2 DEF Accepted, AcceptedRows
    <3>4. QED
      BY <1>1, <2>3, <2>5, <2>7, <3>1, <3>2, <3>3, AcceptedStays DEF NoneRejected
  <2>8. QED
    BY <2>3, <2>5, <2>6, <2>7
<1>4. QED
  BY <1>2, <1>3, PassSteps DEF PassStep

\* A worker that has handed over the whole source in its second pass has
\* had it applied.
LEMMA FinisherApplied ==
    ASSUME ImportInv, NEW w \in Workers, pc[w] = "process",
           Kind(pass[w]) = "apply", ~pass[w].rejected,
           Handed(pass[w]) = source[item[w].job]
    PROVE  /\ item[w].job \in Jobs /\ source[item[w].job] \in Nat
           /\ source[item[w].job] > 0 =>
                 \E c \in calls : c.job = item[w].job /\ Accepted(c, "apply")
<1>1. item[w].job \in Jobs
  BY DEF ImportInv, TypeOK, QueueTypeOK
<1>2. source[item[w].job] \in Nat
  BY <1>1, ImportAssumption DEF ImportInv, TypeOK
<1>3. AcceptedRows(w, "apply", source[item[w].job])
  BY DEF ImportInv, PassesTell, PassTells, PassAccepted
<1>4. ASSUME source[item[w].job] > 0
      PROVE  \E c \in calls : c.job = item[w].job /\ Accepted(c, "apply")
  <2>1. 1 \in 1 .. source[item[w].job]
    BY <1>2, <1>4
  <2>2. PICK c \in calls : Mine(w, c)
    BY <1>3, <2>1 DEF AcceptedRows
  <2>3. c.job = item[w].job /\ \A d : SameClaim(c, d) <=> Mine(w, d)
    BY <2>2 DEF SameClaim, Mine
  <2>4. Accepted(c, "apply")
    BY <1>3, <2>3 DEF Accepted, AcceptedRows
  <2>5. QED
    BY <2>3, <2>4
<1>5. QED
  BY <1>1, <1>2, <1>4

\* Steps of the queue other than Complete complete no job.
LEMMA NotCompleting ==
    ASSUME QueueTypeOK, NEW j \in Jobs, jobs'[j].status = "completed",
           \/ \E k \in Jobs : Submit(k) \/ Cancel(k)
           \/ \E w \in Workers : ClaimUpdate(w) \/ Heartbeat(w) \/ Fail(w)
    PROVE  jobs'[j] = jobs[j]
<1> USE DEF QueueTypeOK
<1>1. ASSUME NEW k \in Jobs, Submit(k) PROVE jobs'[j] = jobs[j]
  BY <1>1, SubmitShape
<1>2. ASSUME NEW k \in Jobs, Cancel(k) PROVE jobs'[j] = jobs[j]
  BY <1>2, CancelledRow DEF Cancel
<1>3. ASSUME NEW w \in Workers, ClaimUpdate(w) PROVE jobs'[j] = jobs[j]
  <2>1. PICK k \in Jobs, t \in Nat, r \in JobRow :
           k = item[w].job /\ t = item[w].at /\ r = jobs[k]
    BY <1>3 DEF ClaimUpdate, WorkItem
  <2>2. jobs' = [jobs EXCEPT ![k] = Claimed(r, w, t)]
    BY <1>3, <2>1 DEF ClaimUpdate
  <2>3. Claimed(r, w, t).status = "running"
    BY ClaimedRow
  <2>4. QED
    BY <2>2, <2>3
<1>4. ASSUME NEW w \in Workers, Heartbeat(w) PROVE jobs'[j] = jobs[j]
  <2>1. PICK k \in Jobs, t \in Nat, r \in JobRow :
           k = item[w].job /\ t = Now(w) + LeaseTTL[w] /\ r = jobs[k]
    BY <1>4, NowType DEF Heartbeat, Processing
  <2>2. jobs' = [jobs EXCEPT ![k] = Renewed(r, t)] /\ r.status = "running"
    BY <1>4, <2>1 DEF Heartbeat, fencedJob
  <2>3. Renewed(r, t).status = r.status
    BY RenewedRow
  <2>4. QED
    BY <2>2, <2>3
<1>5. ASSUME NEW w \in Workers, Fail(w) PROVE jobs'[j] = jobs[j]
  <2>1. PICK k \in Jobs, n \in Nat, now \in Nat, r \in JobRow :
           k = item[w].job /\ n = item[w].attempts /\ now = item[w].at /\ r = jobs[k]
    BY <1>5 DEF Fail, WorkItem
  <2>2. jobs' = [jobs EXCEPT ![k] = Failed(r, n, now)]
    BY <1>5, <2>1 DEF Fail
  <2>3. Failed(r, n, now).status \in {"queued", "failed"}
    BY FailedRow
  <2>4. QED
    BY <2>2, <2>3
<1>6. QED
  BY <1>1, <1>2, <1>3, <1>4, <1>5

\* A job is completed by a worker that has finished both passes.
LEMMA CompletedByFinisher ==
    ASSUME TypeOK, [Next]_vars, NEW j \in Jobs, jobs'[j].status = "completed",
           jobs'[j] # jobs[j]
    PROVE  \E w \in Workers, ack \in BOOLEAN : ImportComplete(w, ack) /\ item[w].job = j
<1>1. ASSUME NEW w \in Workers, NEW ack \in BOOLEAN, ImportComplete(w, ack)
      PROVE  item[w].job = j
  BY <1>1 DEF ImportComplete, Complete, TypeOK, QueueTypeOK
<1>2. ASSUME NEW w \in Workers, NEW n \in Nat, ImportProgress(w, n) PROVE FALSE
  BY <1>2, CheckpointIsProgress DEF fencedJob
<1>3. ASSUME NEW w \in Workers, ValidationDone(w) PROVE FALSE
  BY <1>2, <1>3 DEF ValidationDone
<1>4. ASSUME NEW w \in Workers, ApplyDone(w) PROVE FALSE
  <2>1. item[w].job \in Jobs
    BY <1>4 DEF ApplyDone, ImportProgress, Progress, Processing, TypeOK, QueueTypeOK
  <2>2. source[item[w].job] \in Nat
    BY <2>1, ImportAssumption DEF TypeOK
  <2>3. QED
    BY <1>2, <1>4, <2>2 DEF ApplyDone
<1>5. ASSUME NEW w \in Workers, NEW outcome \in {"ok", "rejected", "error"},
             FlushFull(w, outcome) \/ FlushFinal(w, outcome)
      PROVE  jobs' = jobs
  BY <1>5 DEF FlushFull, FlushFinal, flush, ProcessError, qvars
<1>6. ASSUME NEW w \in Workers, ReadRow(w) \/ PassRejected(w) PROVE jobs' = jobs
  BY <1>6 DEF ReadRow, PassRejected, ProcessError, qvars
<1>7. ASSUME NEW w \in Workers, ImportClaimUpdate(w) \/ ImportGiveUp(w) \/ ImportQueueOnly(w)
      PROVE  jobs' = jobs \/ ClaimUpdate(w) \/ Heartbeat(w) \/ Fail(w)
  BY <1>7 DEF ImportClaimUpdate, ImportGiveUp, ImportQueueOnly, ClaimMissed,
              FailStale, Crash, ClaimSelect, Interrupt, ProcessError
<1>8. ASSUME Tick \/ UNCHANGED vars PROVE jobs' = jobs
  BY <1>8 DEF Tick, vars, qvars
<1>9. ASSUME \/ jobs' = jobs
             \/ \E k \in Jobs : Submit(k) \/ Cancel(k)
             \/ \E w \in Workers : ClaimUpdate(w) \/ Heartbeat(w) \/ Fail(w)
      PROVE  FALSE
  BY <1>9, NotCompleting DEF TypeOK
<1>10. QED
  BY <1>1, <1>3, <1>4, <1>5, <1>6, <1>7, <1>8, <1>9 DEF Next, ImportWorker

\* Only the ends of the two passes write checkpoints.
LEMMA CheckpointSteps ==
    ASSUME TypeOK, TokenInv, [Next]_vars, NEW j \in Jobs
    PROVE  \/ jobs'[j].checkpoint = jobs[j].checkpoint
           \/ jobs[j].status = "absent" /\ jobs'[j].checkpoint = 0
           \/ \E w \in Workers : /\ item[w].job = j
                                 /\ ValidationDone(w) \/ ApplyDone(w)
<1>1. ASSUME NEW k \in Jobs, Submit(k)
      PROVE  \/ jobs'[j].checkpoint = jobs[j].checkpoint
             \/ jobs[j].status = "absent" /\ jobs'[j].checkpoint = 0
  BY <1>1, SubmitShape DEF TypeOK
<1>2. ASSUME NEW k \in Jobs, Cancel(k)
      PROVE  jobs'[j].checkpoint = jobs[j].checkpoint
  BY <1>2, CancelKeepsProgress DEF TypeOK, ProgressKeeps
<1>3. ASSUME NEW w \in Workers, ValidationDone(w)
      PROVE  item[w].job = j \/ jobs'[j] = jobs[j]
  BY <1>3, CheckpointIsProgress DEF ValidationDone
<1>4. ASSUME NEW w \in Workers, ApplyDone(w)
      PROVE  item[w].job = j \/ jobs'[j] = jobs[j]
  <2>1. item[w].job \in Jobs
    BY <1>4 DEF ApplyDone, ImportProgress, Progress, Processing, TypeOK, QueueTypeOK
  <2>2. source[item[w].job] \in Nat
    BY <2>1, ImportAssumption DEF TypeOK
  <2>3. QED
    BY <1>4, <2>2, CheckpointIsProgress DEF ApplyDone
<1>5. ASSUME NEW w \in Workers, NEW outcome \in {"ok", "rejected", "error"},
             FlushFull(w, outcome) \/ FlushFinal(w, outcome)
      PROVE  jobs' = jobs
  BY <1>5 DEF FlushFull, FlushFinal, flush, ProcessError, qvars
<1>6. ASSUME NEW w \in Workers, ReadRow(w) \/ PassRejected(w) PROVE jobs' = jobs
  BY <1>6 DEF ReadRow, PassRejected, ProcessError, qvars
<1>7. ASSUME NEW w \in Workers,
             \/ ImportClaimUpdate(w) \/ ImportGiveUp(w) \/ ImportQueueOnly(w)
             \/ \E ack \in BOOLEAN : ImportComplete(w, ack)
      PROVE  jobs'[j].checkpoint = jobs[j].checkpoint
  <2>1. \/ \E k \in Jobs : ClaimSelect(w, k)
        \/ ClaimUpdate(w) \/ ClaimMissed(w) \/ Heartbeat(w) \/ Interrupt(w)
        \/ ProcessError(w) \/ Fail(w) \/ FailStale(w) \/ Crash(w)
        \/ \E ack \in BOOLEAN : Complete(w, ack)
    BY <1>7 DEF ImportClaimUpdate, ImportGiveUp, ImportQueueOnly, ImportComplete
  <2>2. QED
    BY <2>1, WorkerKeepsProgress DEF TypeOK, TokenInv, ProgressKeeps
<1>8. ASSUME Tick \/ UNCHANGED vars PROVE jobs' = jobs
  BY <1>8 DEF Tick, vars, qvars
<1>9. QED
  BY <1>1, <1>2, <1>3, <1>4, <1>5, <1>6, <1>7, <1>8, Zenon DEF Next, ImportWorker

\* The end of a validation and of an application, as the row shows them.
LEMMA PassEnds ==
    ASSUME ImportInv, NEW w \in Workers, ValidationDone(w) \/ ApplyDone(w)
    PROVE  /\ pc[w] = "process" /\ item[w].job \in Jobs
           /\ fencedJob(jobs[item[w].job], w)
           /\ ValidationDone(w) => /\ pass[w].op = "validate"
                                   /\ jobs'[item[w].job].checkpoint = 0
           /\ ApplyDone(w) =>
                 /\ pass[w].op = "apply" /\ ~pass[w].rejected
                 /\ Handed(pass[w]) = source[item[w].job]
                 /\ jobs'[item[w].job].checkpoint = source[item[w].job]
<1>1. pc[w] = "process" /\ PassDone(w)
  BY DEF ValidationDone, ApplyDone, ImportProgress, Progress, Processing
<1>2. source[item[w].job] \in Nat /\ Handed(pass[w]) = source[item[w].job]
  BY <1>1, DoneIsWhole
<1>3. CASE ValidationDone(w)
  <2>1. pass[w].op = "validate" /\ ImportProgress(w, 0)
    BY <1>3 DEF ValidationDone
  <2>2. ~ApplyDone(w)
    BY <2>1 DEF ApplyDone
  <2>3. QED
    BY <1>1, <2>1, <2>2, CheckpointIsProgress DEF ImportInv
<1>4. CASE ApplyDone(w)
  <2>1. pass[w].op = "apply" /\ ~pass[w].rejected /\ ImportProgress(w, source[item[w].job])
    BY <1>4 DEF ApplyDone
  <2>2. ~ValidationDone(w)
    BY <2>1 DEF ValidationDone
  <2>3. QED
    BY <1>1, <1>2, <2>1, <2>2, CheckpointIsProgress DEF ImportInv
<1>5. QED
  BY <1>3, <1>4

\* The worker that may complete a job has written its checkpoint, and nobody
\* has set it back since.
LEMMA FinisherStep ==
    ASSUME ImportInv, [Next]_vars
    PROVE  FinisherReports'
<1> USE DEF ImportInv
<1>1. [QueueNext]_qvars /\ source' = source
  BY NextIsQueueStep, CallsGrow
<1>2. SUFFICES ASSUME NEW w \in Workers, pc'[w] = "process", pass'[w].op = "finish",
                      fencedJob(jobs[item[w].job], w)'
               PROVE  jobs'[item'[w].job].checkpoint = source[item'[w].job]
  BY <1>1 DEF FinisherReports
<1>3. CASE Still(w)
  <2>1. /\ pc[w] = "process" /\ item'[w] = item[w] /\ pass[w].op = "finish"
        /\ KeepsClaim(w)
    BY <1>2, <1>3 DEF Still, KeepsClaim
  <2>2. fencedJob(jobs[item[w].job], w)
    BY <1>1, <1>2, <2>1, FenceNotRegained
  <2>3. item[w].job \in Jobs
    BY <2>1 DEF TypeOK, QueueTypeOK
  <2>4. jobs[item[w].job].checkpoint = source[item[w].job]
    BY <2>1, <2>2 DEF FinisherReports
  <2>5. jobs[item[w].job].status # "absent"
    BY <2>2 DEF fencedJob
  <2>6. ASSUME NEW v \in Workers, item[v].job = item[w].job,
               ValidationDone(v) \/ ApplyDone(v)
        PROVE  FALSE
    <3>1. pc[v] = "process" /\ fencedJob(jobs[item[v].job], v)
      BY <2>6, PassEnds
    <3>2. v = w
      BY <2>1, <2>2, <2>6, <3>1 DEF TokenInv, TokensDistinct, Past, fencedJob
    <3>3. QED
      BY <2>1, <2>6, <3>2 DEF ValidationDone, ApplyDone
  <2>7. QED
    BY <2>1, <2>3, <2>4, <2>5, <2>6, CheckpointSteps
<1>4. CASE ApplyDone(w)
  <2>1. item' = item
    BY <1>4 DEF ApplyDone, ImportProgress, Progress
  <2>2. QED
    BY <1>4, <2>1, PassEnds
<1>5. CASE ImportClaimUpdate(w) \/ ValidationDone(w)
  <2>1. pass'[w] = Pass("validate") \/ pass'[w] = Pass("apply")
    BY <1>5 DEF ImportClaimUpdate, ValidationDone, TypeOK
  <2>2. QED
    BY <1>2, <2>1, StartPass
<1>6. CASE ReadRow(w)
  <2>1. PICK p \in PassRow : p = pass[w]
    BY DEF TypeOK, PassRow
  <2>2. PICK d : d = [p EXCEPT !.read = p.read + 1, !.buffer = p.buffer + 1]
    OBVIOUS
  <2>3. pass'[w] = d /\ p.buffer < importBatchRows /\ p.op # "finish"
    BY <1>6, <2>1, <2>2 DEF TypeOK, ReadRow, Reading
  <2>4. d.op = p.op
    BY <2>2, <2>3, ReadPass
  <2>5. QED
    BY <1>2, <2>3, <2>4
<1>7. ASSUME NEW final \in BOOLEAN, NEW outcome \in {"ok", "rejected", "error"},
             Called(w, final, outcome)
      PROVE  FALSE
  <2>1. PICK p \in PassRow : p = pass[w]
    BY DEF TypeOK, PassRow
  <2>2. pass'[w] = Flushed(p, outcome) /\ p.op # "finish"
    BY <1>7, <2>1 DEF TypeOK, Called
  <2>3. Flushed(p, outcome).op = p.op
    BY FlushedPass
  <2>4. QED
    BY <1>2, <2>2, <2>3
<1>8. QED
  BY <1>3, <1>4, <1>5, <1>6, <1>7, PassSteps DEF PassStep

\* Checkpoints and completions go on telling the truth.
LEMMA CheckpointStep ==
    ASSUME ImportInv, [Next]_vars
    PROVE  CheckpointTruthful' /\ CompletedIsApplied'
<1> USE DEF ImportInv
<1>1. calls \subseteq calls' /\ source' = source
  BY CallsGrow
<1>2. \A j \in Jobs : (\E c \in calls : c.job = j /\ Accepted(c, "apply")) =>
         \E c \in calls' : c.job = j /\ Accepted(c, "apply")'
  BY <1>1, AcceptedStays
<1>3. ASSUME NEW j \in Jobs, jobs'[j].checkpoint > 0
      PROVE  \E c \in calls' : c.job = j /\ Accepted(c, "apply")'
  <2>1. CASE jobs'[j].checkpoint = jobs[j].checkpoint
    BY <1>2, <1>3, <2>1 DEF CheckpointTruthful
  <2>2. ASSUME NEW w \in Workers, item[w].job = j, ApplyDone(w)
        PROVE  \E c \in calls' : c.job = j /\ Accepted(c, "apply")'
    <3>1. /\ pc[w] = "process" /\ ~pass[w].rejected /\ Kind(pass[w]) = "apply"
          /\ Handed(pass[w]) = source[j] /\ source[j] > 0
      BY <1>3, <2>2, PassEnds DEF Kind
    <3>2. QED
      BY <1>2, <2>2, <3>1, FinisherApplied
  <2>3. ASSUME NEW w \in Workers, item[w].job = j, ValidationDone(w) PROVE FALSE
    BY <1>3, <2>3, PassEnds
  <2>4. QED
    BY <1>3, <2>1, <2>2, <2>3, CheckpointSteps
<1>4. ASSUME NEW j \in Jobs, jobs'[j].status = "completed"
      PROVE  /\ jobs'[j].checkpoint = source[j]
             /\ source[j] > 0 => \E c \in calls' : c.job = j /\ Accepted(c, "apply")'
  <2>1. CASE jobs'[j] = jobs[j]
    BY <1>2, <1>4, <2>1 DEF CheckpointTruthful, CompletedIsApplied
  <2>2. ASSUME NEW w \in Workers, NEW ack \in BOOLEAN, ImportComplete(w, ack),
               item[w].job = j
        PROVE  /\ jobs'[j].checkpoint = source[j]
               /\ source[j] > 0 => \E c \in calls' : c.job = j /\ Accepted(c, "apply")'
    <3>1. /\ pc[w] = "process" /\ pass[w].op = "finish" /\ Complete(w, ack)
          /\ fencedJob(jobs[item[w].job], w)
      BY <2>2 DEF ImportComplete, Complete, Processing
    <3>2. jobs[j].checkpoint = source[j]
      BY <2>2, <3>1 DEF FinisherReports
    <3>3. jobs'[j].checkpoint = jobs[j].checkpoint
      BY <3>1, WorkerKeepsProgress DEF TypeOK, TokenInv, ProgressKeeps
    <3>4. /\ ~pass[w].rejected /\ Kind(pass[w]) = "apply" /\ Handed(pass[w]) = source[j]
      BY <2>2, <3>1 DEF PassesTell, PassTells, PassFinished, Kind
    <3>5. QED
      BY <1>2, <2>2, <3>1, <3>2, <3>3, <3>4, FinisherApplied
  <2>3. QED
    BY <1>4, <2>1, <2>2, CompletedByFinisher
<1>5. QED
  BY <1>1, <1>3, <1>4 DEF CheckpointTruthful, CompletedIsApplied

-----------------------------------------------------------------------------
(***************************************************************************)
(* The invariant and what follows from it.                                 *)
(***************************************************************************)

\* The invariant holds of every reachable state.
LEMMA ImportInvariant == Spec => []ImportInv
<1>1. Init => ImportInv
  <2>1. SUFFICES ASSUME Init PROVE ImportInv
    OBVIOUS
  <2>2. TokenInv
    BY <2>1, Blanks DEF Init, QueueInit, TokenInv, QueueTypeOK, JobsKnown,
       TokensBounded, TokensDistinct, Past, NoItem
  <2>3. calls = {} /\ source \in [Jobs -> RowCounts] /\ pass \in [Workers -> PassRow]
    BY <2>1, StartPass DEF Init
  <2>4. \A w \in Workers : pc[w] = "idle"
    BY <2>1 DEF Init, QueueInit
  <2>5. \A j \in Jobs : jobs[j].status = "absent" /\ jobs[j].checkpoint = 0
    BY <2>1 DEF Init, QueueInit, NoRow
  <2>6. TypeOK
    BY <2>2, <2>3 DEF TokenInv, TypeOK, PassRow
  <2>7. QED
    BY <2>2, <2>3, <2>4, <2>5, <2>6 DEF ImportInv, CallsPast, PassesTell, BatchesTile,
       ValidatedFirst, CheckpointTruthful, FinisherReports, CompletedIsApplied
<1>2. ImportInv /\ [Next]_vars => ImportInv'
  <2>1. SUFFICES ASSUME ImportInv, [Next]_vars PROVE ImportInv'
    OBVIOUS
  <2>2. TypeOK' /\ TokenInv'
    BY <2>1, ImportTypeStep, NextIsQueueStep, TokenStep DEF ImportInv
  <2>3. QED
    BY <2>1, <2>2, CallsPastStep, PassesStep, TileStep, ValidatedStep,
       CheckpointStep, FinisherStep DEF ImportInv
<1>3. QED
  BY <1>1, <1>2, PTL DEF Spec

\* Imports run the lease protocol: all that is proved of it holds of them.
THEOREM ImportsRunTheQueue == Spec => QueueSpec
<1>1. Init => QueueInit
  BY DEF Init
<1>2. ImportInv /\ [Next]_vars => [QueueNext]_qvars
  BY NextIsQueueStep DEF ImportInv
<1>3. QED
  BY <1>1, <1>2, ImportInvariant, PTL DEF Spec, QueueSpec

\* Rows, workers and passes stay well typed.
THEOREM ImportTypeCorrect == Spec => []TypeOK
BY ImportInvariant, PTL DEF ImportInv

\* The batches of every pass tile the source, whatever its size and the
\* batch size, and Final marks the last one only (readImport).
THEOREM BatchesTileSource == Spec => []BatchesTile
BY ImportInvariant, PTL DEF ImportInv

\* No claim applies a batch before it has itself validated the whole source
\* and seen no rejection (processImport).
THEOREM ValidationComesFirst == Spec => []ValidatedFirst
BY ImportInvariant, PTL DEF ImportInv

\* A completed import has been applied as a whole by a single claim.
THEOREM CompletedImportsAreApplied == Spec => []CompletedIsApplied
BY ImportInvariant, PTL DEF ImportInv

\* The checkpoint of an import never reports rows that were not applied, and
\* a completed import reports all of them.
THEOREM CheckpointsAreTruthful == Spec => []CheckpointTruthful
BY ImportInvariant, PTL DEF ImportInv
=============================================================================
