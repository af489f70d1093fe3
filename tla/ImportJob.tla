----------------------------- MODULE ImportJob ------------------------------
(***************************************************************************)
(* An import job: a worker reads the stored source twice, cutting its rows *)
(* into batches, and first hands every batch to the provider's             *)
(* ValidateImportBatch and, if none of them was rejected, then every batch *)
(* to ApplyImportBatch.  A claim always starts over with the first row:    *)
(* the checkpoint of an import says how far it got and is not read back.   *)
(*                                                                         *)
(* A provider with the artifact interface gets the whole source in one     *)
(* call instead; that is the same protocol with one batch, where an apply  *)
(* of fewer records than were validated counts as a rejection.             *)
(*                                                                         *)
(* The provider (external) runs outside the job table's transactions: its  *)
(* calls are recorded in a history, with the claim that made them.         *)
(***************************************************************************)
EXTENDS JobQueue

CONSTANTS
    RowCounts,        \* the sizes a source may have, in rows
    importBatchRows   \* rows in a batch

ASSUME ImportAssumption ==
    /\ RowCounts \subseteq Nat
    /\ importBatchRows \in Nat \ {0}

VARIABLES
    source,  \* source[j]: the number of rows in the stored source of j
    pass,    \* pass[w]: the locals of the readImport of w
    calls    \* the provider calls made so far

ivars == <<source, pass, calls>>
vars == <<qvars, ivars>>

\* read: rows decoded so far; buffer: how many of them, the last ones, are
\* not handed over yet; batch: batchNo.
NoPass == [op |-> "none", read |-> 0, buffer |-> 0, batch |-> 0, rejected |-> FALSE]

\* readImport opens the source at its beginning.
Pass(op) == [NoPass EXCEPT !.op = op]

Reading(w) == pc[w] = "process" /\ pass[w].op \in {"validate", "apply"}

\* Rows of the source are left to decode.
MoreRows(w) == pass[w].read < source[item[w].job]

\* Every row of the source has been handed over.
PassDone(w) == ~MoreRows(w) /\ pass[w].buffer = 0

-----------------------------------------------------------------------------
\* The decoder hands readImport a row, and the buffer has room for it.
ReadRow(w) ==
    /\ Reading(w)
    /\ MoreRows(w) /\ pass[w].buffer < importBatchRows
    /\ pass' = [pass EXCEPT ![w].read = @ + 1, ![w].buffer = @ + 1]
    /\ UNCHANGED <<qvars, source, calls>>

\* flush: one call of the provider with the rows of the buffer.  The provider
\* accepts the batch, rejects rows of it or returns an error.  The call is
\* made although the fence is lost, and maybe although the context is
\* cancelled.
flush(w, final, outcome) ==
    LET p == pass[w]
    IN  /\ calls' = calls \cup
              {[op |-> p.op, job |-> item[w].job, worker |-> w,
                token |-> item[w].token, batch |-> p.batch + 1, final |-> final,
                first |-> p.read - p.buffer + 1, last |-> p.read,
                outcome |-> outcome]}
        /\ pass' = [pass EXCEPT ![w] =
                      [p EXCEPT !.batch = @ + 1, !.buffer = 0,
                                !.rejected = @ \/ outcome = "rejected"]]
        /\ IF outcome = "error" THEN ProcessError(w) ELSE UNCHANGED qvars
        /\ UNCHANGED source

\* Mutant of FlushFull: a full buffer is handed over at once.
FlushAtOnce(w, outcome) ==
    /\ Reading(w)
    /\ pass[w].buffer = importBatchRows
    /\ flush(w, FALSE, outcome)

\* A further row shows that the full buffer is not the last batch.
FlushFull(w, outcome) ==
    /\ Reading(w)
    /\ MoreRows(w) /\ pass[w].buffer = importBatchRows
    /\ flush(w, FALSE, outcome)

\* The source has ended: what is in the buffer is the last batch.
FlushFinal(w, outcome) ==
    /\ Reading(w)
    /\ ~MoreRows(w) /\ pass[w].buffer > 0
    /\ flush(w, TRUE, outcome)

\* A pass in which rows were rejected fails the processing.
PassRejected(w) ==
    /\ Reading(w)
    /\ PassDone(w) /\ pass[w].rejected
    /\ ProcessError(w)
    /\ UNCHANGED ivars

\* Progress(x, checkpoint, total); the other progress columns stay.
ImportProgress(w, checkpoint) ==
    LET r == jobs[item[w].job]
    IN  Progress(w, checkpoint, r.cursor, r.chunks)

\* Mutant of ValidationDone: the rejections of the validation are not looked at.
ValidationUnread(w) ==
    /\ pass[w].op = "validate"
    /\ PassDone(w)
    /\ ImportProgress(w, 0)
    /\ pass' = [pass EXCEPT ![w] = Pass("apply")]
    /\ UNCHANGED <<source, calls>>

\* The validation accepted every batch: progress 0 and the second pass.
ValidationDone(w) ==
    /\ pass[w].op = "validate"
    /\ PassDone(w) /\ ~pass[w].rejected
    /\ ImportProgress(w, 0)
    /\ pass' = [pass EXCEPT ![w] = Pass("apply")]
    /\ UNCHANGED <<source, calls>>

\* Mutant of ApplyDone: the rejections of the apply pass are not looked at.
ApplyUnread(w) ==
    /\ pass[w].op = "apply"
    /\ PassDone(w)
    /\ ImportProgress(w, source[item[w].job])
    /\ pass' = [pass EXCEPT ![w].op = "finish"]
    /\ UNCHANGED <<source, calls>>

ApplyDone(w) ==
    /\ pass[w].op = "apply"
    /\ PassDone(w) /\ ~pass[w].rejected
    /\ ImportProgress(w, source[item[w].job])
    /\ pass' = [pass EXCEPT ![w].op = "finish"]
    /\ UNCHANGED <<source, calls>>

\* Complete without an artifact.
ImportComplete(w, ack) ==
    /\ pass[w].op = "finish"
    /\ Complete(w, ack)
    /\ pass' = IF ack THEN [pass EXCEPT ![w] = NoPass] ELSE pass
    /\ UNCHANGED <<source, calls>>

-----------------------------------------------------------------------------
ImportClaimUpdate(w) ==
    /\ ClaimUpdate(w)
    /\ pass' = [pass EXCEPT ![w] = Pass("validate")]
    /\ UNCHANGED <<source, calls>>

ImportGiveUp(w) ==
    /\ ClaimMissed(w) \/ Fail(w) \/ FailStale(w) \/ Crash(w)
    /\ pass' = [pass EXCEPT ![w] = NoPass]
    /\ UNCHANGED <<source, calls>>

ImportQueueOnly(w) ==
    /\ \/ \E j \in Jobs : ClaimSelect(w, j)
       \/ Heartbeat(w) \/ Interrupt(w) \/ ProcessError(w)
    /\ UNCHANGED ivars

Init ==
    /\ QueueInit
    /\ source \in [Jobs -> RowCounts]
    /\ pass = [w \in Workers |-> NoPass]
    /\ calls = {}

ImportWorker(w) ==
    \/ ImportClaimUpdate(w)
    \/ ReadRow(w)
    \/ \E outcome \in {"ok", "rejected", "error"} :
          FlushFull(w, outcome) \/ FlushFinal(w, outcome)
    \/ PassRejected(w)
    \/ ValidationDone(w)
    \/ ApplyDone(w)
    \/ \E ack \in BOOLEAN : ImportComplete(w, ack)
    \/ ImportGiveUp(w)
    \/ ImportQueueOnly(w)

Next ==
    \/ \E j \in Jobs : (Submit(j) \/ Cancel(j)) /\ UNCHANGED ivars
    \/ \E w \in Workers : ImportWorker(w)
    \/ Tick /\ UNCHANGED ivars

Spec == Init /\ [][Next]_vars

-----------------------------------------------------------------------------
(***************************************************************************)
(* Properties.                                                             *)
(***************************************************************************)

\* The variables stay in their types: the queue's, and passes over the rows.
TypeOK ==
    /\ QueueTypeOK
    /\ source \in [Jobs -> RowCounts]
    /\ pass \in [Workers -> [op: {"none", "validate", "apply", "finish"},
                             read: Nat, buffer: 0 .. importBatchRows,
                             batch: Nat, rejected: BOOLEAN]]

\* The calls that one claim made: its worker and token identify it.
SameClaim(c, d) == c.job = d.job /\ c.worker = d.worker /\ c.token = d.token

\* The claim of call c handed over every row in the pass op and the provider
\* accepted them all.
Accepted(c, op) ==
    \A i \in 1 .. source[c.job] :
        \E d \in calls : /\ SameClaim(c, d) /\ d.op = op
                         /\ i \in d.first .. d.last
                         /\ d.outcome = "ok"

\* The batches of a pass tile the source: the first starts with the first
\* row, each starts where the one before it ended, none is empty or too
\* large, and Final marks the one that holds the last row and no other, also
\* when the rows fill the last batch exactly ("release attempt-scoped state
\* on an exact batch-size boundary").
BatchesTile ==
    \A c \in calls :
        /\ c.first <= c.last /\ c.last - c.first < importBatchRows
        /\ c.final <=> c.last = source[c.job]
        /\ IF c.batch = 1
           THEN c.first = 1
           ELSE \E d \in calls : /\ SameClaim(c, d) /\ d.op = c.op
                                 /\ d.batch = c.batch - 1 /\ d.last = c.first - 1

\* "Import validates the complete source before any Apply batch runs": a
\* claim that applies a batch has validated every batch itself, and no
\* validation of another claim stands in for it.
ValidatedFirst ==
    \A c \in calls : c.op = "apply" =>
        /\ Accepted(c, "validate")
        /\ ~ \E d \in calls : /\ SameClaim(c, d) /\ d.op = "validate"
                              /\ d.outcome = "rejected"

\* A completed import has been applied as a whole by one claim; batches of
\* different, partly failed claims never add up to a completed job.
CompletedIsApplied ==
    \A j \in Jobs :
        jobs[j].status = "completed" /\ source[j] > 0 =>
            \E c \in calls : c.job = j /\ Accepted(c, "apply")

\* A checkpoint tells the truth whoever wrote it last: a job that reports
\* applied rows has had all of them applied, and one that completed reports
\* all of them, no late worker having set it back (the fenced Progress).
CheckpointTruthful ==
    \A j \in Jobs :
        /\ jobs[j].checkpoint > 0 =>
              \E c \in calls : c.job = j /\ Accepted(c, "apply")
        /\ jobs[j].status = "completed" => jobs[j].checkpoint = source[j]

(***************************************************************************)
(* What import.md says of imports and the code does not do.                *)
(***************************************************************************)

\* "continues from the last committed cursor without replaying earlier
\* chunks": no batch is applied by two claims of a job.
NoBatchReplayed ==
    \A c, d \in calls :
        /\ c.op = "apply" /\ d.op = "apply"
        /\ c.job = d.job /\ c.batch = d.batch
        => SameClaim(c, d)

\* "Cancellation stops future chunk claims": no batch of a cancelled job is
\* handed to ApplyImportBatch.
CancelStopsApply ==
    [][\A c \in calls' \ calls :
          c.op = "apply" => jobs[c.job].status # "cancelled"]_vars
=============================================================================
