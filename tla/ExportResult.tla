---------------------------- MODULE ExportResult ----------------------------
(***************************************************************************)
(* The result of an export job: its chunks, their digest and the artifact, *)
(* and how a worker resumes at a claim, finishes the result and publishes  *)
(* it.  Both ways of producing the chunks share it: pages of rows          *)
(* (ExportJob) and a stream of bytes (ArtifactExport).  A digest of a      *)
(* result is the function from sequence numbers to contents.               *)
(***************************************************************************)
EXTENDS JobQueue

VARIABLES
    chunks,      \* chunks[j]: sequence_no -> content, direction "result"
    artifacts,   \* the rows of _data_exchange_artifacts
    mem,         \* mem[w]: the locals cursor, seq, total of processExport
    sha,         \* sha[w]: the digest ResultIdentity returned to w
    step,        \* step[w]: where processExport is
    completions  \* every call of the provider's CompleteExport, as a history

evars == <<chunks, artifacts, mem, sha, step, completions>>
vars == <<qvars, evars>>

NoSha == << >>
NoMem == [cursor |-> 0, seq |-> 0, total |-> 0]

-----------------------------------------------------------------------------
\* PRIMARY KEY (workspace_id, job_id, direction, sequence_no).
ChunkFree(j, seq) == seq \notin DOMAIN chunks[j]

AddChunk(c, seq, content) ==
    [s \in DOMAIN c \cup {seq} |-> IF s = seq THEN content ELSE c[s]]

ResetLocals(w) ==
    /\ mem' = [mem EXCEPT ![w] = NoMem]
    /\ sha' = [sha EXCEPT ![w] = NoSha]
    /\ step' = [step EXCEPT ![w] = "none"]

\* Mutant of ExportClaimSelect: a resumed export counts its rows from zero.
ExportClaimUncounted(w, j) ==
    /\ ClaimSelect(w, j)
    /\ mem' = [mem EXCEPT ![w] = [cursor |-> jobs[j].cursor,
                                  seq |-> jobs[j].chunks, total |-> 0]]
    /\ UNCHANGED <<chunks, artifacts, sha, step, completions>>

\* The SELECT of the claim also reads the progress columns.
ExportClaimSelect(w, j) ==
    /\ ClaimSelect(w, j)
    /\ mem' = [mem EXCEPT ![w] = [cursor |-> jobs[j].cursor,
                                  seq |-> jobs[j].chunks,
                                  total |-> jobs[j].checkpoint]]
    /\ UNCHANGED <<chunks, artifacts, sha, step, completions>>

GiveUp(w) ==
    /\ ClaimMissed(w) \/ Fail(w) \/ FailStale(w) \/ Crash(w)
    /\ ResetLocals(w)
    /\ UNCHANGED <<chunks, artifacts, completions>>

\* Heartbeats, interruptions and errors leave the locals alone.
QueueOnly(w) ==
    /\ Heartbeat(w) \/ Interrupt(w) \/ ProcessError(w)
    /\ UNCHANGED evars

-----------------------------------------------------------------------------
\* ResultIdentity: the digest over all chunks, as they are now.
ResultIdentity(w) ==
    /\ Processing(w) /\ step[w] = "identity"
    /\ step' = [step EXCEPT ![w] = "finalize"]
    /\ sha' = [sha EXCEPT ![w] = chunks[item[w].job]]
    /\ UNCHANGED <<qvars, chunks, artifacts, mem, completions>>

\* The provider's CompleteExport runs before the job is completed, and it
\* may run although the context is cancelled or the fence is lost.
CompleteExport(w) ==
    /\ pc[w] = "process" /\ step[w] = "finalize"
    /\ completions' = completions \cup
          {[job |-> item[w].job, sha |-> sha[w], rows |-> mem[w].total,
            chunks |-> mem[w].seq]}
    /\ step' = [step EXCEPT ![w] = "complete"]
    /\ UNCHANGED <<qvars, chunks, artifacts, mem, sha>>

\* Mutant of CompleteJob: the artifact stays although the fenced UPDATE
\* found no row.
CompleteJobUnchecked(w, ack) ==
    LET j == item[w].job
    IN  /\ step[w] = "complete"
        /\ \A a \in artifacts : a.job # j
        /\ \/ Complete(w, ack)
           \/ Processing(w) /\ ~fencedJob(jobs[j], w) /\ ack
              /\ Idle(w) /\ UNCHANGED <<clock, jobs>>
        /\ artifacts' = artifacts \cup {[job |-> j, sha |-> sha[w]]}
        /\ IF ack THEN ResetLocals(w) ELSE UNCHANGED <<mem, sha, step>>
        /\ UNCHANGED <<chunks, completions>>

\* Complete: the artifact row (its id is the job's) and the job row in one
\* transaction.
CompleteJob(w, ack) ==
    LET j == item[w].job
    IN  /\ step[w] = "complete"
        /\ \A a \in artifacts : a.job # j
        /\ Complete(w, ack)
        /\ artifacts' = artifacts \cup {[job |-> j, sha |-> sha[w]]}
        /\ IF ack THEN ResetLocals(w) ELSE UNCHANGED <<mem, sha, step>>
        /\ UNCHANGED <<chunks, completions>>

-----------------------------------------------------------------------------
ResultInit ==
    /\ QueueInit
    /\ chunks = [j \in Jobs |-> << >>]
    /\ artifacts = {}
    /\ mem = [w \in Workers |-> NoMem]
    /\ sha = [w \in Workers |-> NoSha]
    /\ step = [w \in Workers |-> "none"]
    /\ completions = {}
=============================================================================
