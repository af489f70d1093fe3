--------------------------- MODULE SubjectErasure ---------------------------
(***************************************************************************)
(* Account erasure over the export jobs: a request is prepared (the jobs   *)
(* of the subject are inventoried, queued ones cancelled, the subject      *)
(* fenced against submissions) and later executed (chunks and artifacts    *)
(* deleted, rows redacted), while workers go on with whatever they hold.   *)
(*                                                                         *)
(* Prepare and Erase are serializable transactions that lock the subject's *)
(* fence row, as every submission does, and so are atomic here.  A         *)
(* repeated Prepare or Erase answers from the receipt and changes nothing. *)
(***************************************************************************)
EXTENDS ExportJob, FiniteSets

CONSTANTS
    Subjects,    \* actors that submit jobs
    SubjectOf,   \* SubjectOf[j]: actor_id of job j
    Requests,    \* erasure request ids
    OnHold,      \* the requests that come with legal holds
    NoRequest    \* the fence of a subject nobody has asked to erase

ASSUME ErasureAssumption ==
    /\ SubjectOf \in [Jobs -> Subjects]
    /\ NoRequest \notin Requests
    /\ OnHold \subseteq Requests

VARIABLES
    fences,     \* fences[s]: request_id of the fence row of s
    receipts    \* receipts[q]: the receipt rows of q, none or one

xvars == <<fences, receipts>>
allvars == <<vars, xvars>>

JobsOf(s) == {j \in Jobs : SubjectOf[j] = s /\ jobs[j].status # "absent"}

ArtifactsOf(j) == {a \in artifacts : a.job = j}

\* The plan: the jobs of the subject with their chunk and artifact counts.
Inventory(s) ==
    [j \in JobsOf(s) |-> [chunks |-> Cardinality(DOMAIN chunks[j]),
                          artifacts |-> Cardinality(ArtifactsOf(j))]]

\* Mutant of Withdrawn: queued jobs are left in the queue.
WithdrawnNot(r) == r

\* Mutant of Withdrawn: a status of its own that the schema does not know.
WithdrawnPending(r) ==
    IF r.status = "queued"
    THEN [r EXCEPT !.status = "erasure_pending", !.next = NoTime, !.token = @ + 1]
    ELSE r

\* subject_erasure_pending: only queued jobs are cancelled and re-fenced.
Withdrawn(r) ==
    IF r.status = "queued"
    THEN [r EXCEPT !.status = "cancelled", !.next = NoTime, !.token = @ + 1]
    ELSE r

\* subject_erased.
Redacted(r) ==
    [r EXCEPT !.status = "cancelled", !.chunks = 0, !.checkpoint = 0,
              !.cursor = 0, !.owner = "", !.lease = NoTime, !.next = NoTime,
              !.token = @ + 1]

\* A request with a legal hold is refused before it reaches the store.
validateSubjectErasure(q) == q \notin OnHold

-----------------------------------------------------------------------------
\* Mutant of SubjectSubmit: the fence is not looked at.
SubjectSubmitUnfenced(j) ==
    /\ Submit(j)
    /\ UNCHANGED <<evars, xvars>>

\* SubmitExport under the subject's lock: a fenced subject is refused.
SubjectSubmit(j) ==
    /\ fences[SubjectOf[j]] = NoRequest
    /\ Submit(j)
    /\ UNCHANGED <<evars, xvars>>

\* Mutant of PrepareSubjectErasure: running jobs do not stand in the way.
PrepareWhileRunning(q, s) ==
    /\ validateSubjectErasure(q)
    /\ receipts[q] = {}
    /\ jobs' = [j \in Jobs |-> IF j \in JobsOf(s) THEN Withdrawn(jobs[j])
                                                  ELSE jobs[j]]
    /\ fences' = [fences EXCEPT ![s] = IF @ = NoRequest THEN q ELSE @]
    /\ receipts' = [receipts EXCEPT ![q] = {[subject |-> s,
                                             plan |-> Inventory(s),
                                             erased |-> FALSE]}]
    /\ UNCHANGED <<clock, pc, item, live, evars>>

PrepareSubjectErasure(q, s) ==
    /\ validateSubjectErasure(q)
    /\ receipts[q] = {}
    /\ \A j \in JobsOf(s) : jobs[j].status # "running"
    /\ jobs' = [j \in Jobs |-> IF j \in JobsOf(s) THEN Withdrawn(jobs[j])
                                                  ELSE jobs[j]]
    /\ fences' = [fences EXCEPT ![s] = IF @ = NoRequest THEN q ELSE @]
    /\ receipts' = [receipts EXCEPT ![q] = {[subject |-> s,
                                             plan |-> Inventory(s),
                                             erased |-> FALSE]}]
    /\ UNCHANGED <<clock, pc, item, live, evars>>

\* Mutant of ErasePreparedSubject: the deletions are not restricted to the
\* planned jobs.
EraseEveryJob(q, s) ==
    /\ validateSubjectErasure(q)
    /\ fences[s] # NoRequest
    /\ \E x \in receipts[q] :
          /\ x.subject = s
          /\ ~x.erased
          /\ \A j \in DOMAIN x.plan : SubjectOf[j] = s /\ jobs[j].status # "running"
          /\ artifacts' = {}
          /\ chunks' = [j \in Jobs |-> << >>]
          /\ jobs' = [j \in Jobs |-> IF j \in DOMAIN x.plan THEN Redacted(jobs[j])
                                                            ELSE jobs[j]]
          /\ receipts' = [receipts EXCEPT ![q] = {[x EXCEPT !.erased = TRUE]}]
    /\ UNCHANGED <<clock, pc, item, live, mem, sha, step, completions, fences>>

\* The redaction must find each planned job of the subject, not running, or
\* the whole transaction rolls back.
ErasePreparedSubject(q, s) ==
    /\ validateSubjectErasure(q)
    /\ fences[s] # NoRequest
    /\ \E x \in receipts[q] :
          LET planned == DOMAIN x.plan
          IN  /\ x.subject = s
              /\ ~x.erased
              /\ \A j \in planned : SubjectOf[j] = s /\ jobs[j].status # "running"
              /\ artifacts' = {a \in artifacts : a.job \notin planned}
              /\ chunks' = [j \in Jobs |-> IF j \in planned THEN << >> ELSE chunks[j]]
              /\ jobs' = [j \in Jobs |-> IF j \in planned THEN Redacted(jobs[j])
                                                          ELSE jobs[j]]
              /\ receipts' = [receipts EXCEPT ![q] = {[x EXCEPT !.erased = TRUE]}]
    /\ UNCHANGED <<clock, pc, item, live, mem, sha, step, completions, fences>>

-----------------------------------------------------------------------------
ErasureInit ==
    /\ Init
    /\ fences = [s \in Subjects |-> NoRequest]
    /\ receipts = [q \in Requests |-> {}]

ErasureNext ==
    \/ \E j \in Jobs : \/ SubjectSubmit(j)
                       \/ Cancel(j) /\ UNCHANGED <<evars, xvars>>
    \/ \E q \in Requests, s \in Subjects :
          PrepareSubjectErasure(q, s) \/ ErasePreparedSubject(q, s)
    \/ \E w \in Workers : ExportWorker(w) /\ UNCHANGED xvars
    \/ Tick /\ UNCHANGED <<evars, xvars>>

ErasureSpec == ErasureInit /\ [][ErasureNext]_allvars

-----------------------------------------------------------------------------
(***************************************************************************)
(* Properties.                                                             *)
(***************************************************************************)

\* The receipts of a subject that have been executed.
Executed(s) == \E q \in Requests : \E x \in receipts[q] : x.subject = s /\ x.erased

\* The variables stay in their types: the export's, and fences and receipts
\* that name requests, subjects and jobs.
ErasureTypeOK ==
    /\ TypeOK
    /\ fences \in [Subjects -> Requests \cup {NoRequest}]
    /\ \A q \in Requests : \A x \in receipts[q] :
          x.subject \in Subjects /\ DOMAIN x.plan \subseteq Jobs

\* "Stale workers cannot recreate chunks or artifacts": from an executed
\* erasure on, no job of the subject has a chunk or an artifact and all are
\* cancelled, whatever workers still hold and however late they write.
ErasedStaysErased ==
    \A s \in Subjects : Executed(s) =>
        \A j \in JobsOf(s) :
            /\ jobs[j].status = "cancelled"
            /\ chunks[j] = << >> /\ jobs[j].chunks = 0 /\ jobs[j].cursor = 0
            /\ ArtifactsOf(j) = {}

\* A fenced subject has no job that is queued, running or yet to come, so
\* that an accepted preparation can always be executed: the error
\* "job ownership or execution changed" is never met.
FencedSubjectIdle ==
    \A s \in Subjects : fences[s] # NoRequest =>
        \A j \in JobsOf(s) : jobs[j].status \in Ended

\* "Persists the exact job inventory": until the subject is erased, every
\* receipt lists all of its jobs, with the chunks and artifacts they have at
\* that moment; no worker adds to them and no submission is missed.
InventoryExact ==
    \A q \in Requests : \A x \in receipts[q] :
        ~Executed(x.subject) => x.plan = Inventory(x.subject)

\* Erasing deletes and redacts jobs of fenced subjects only, and never
\* brings a job that has ended back to life.
OthersUntouched ==
    [][\A j \in Jobs :
          /\ jobs[j].status \in Ended => jobs'[j].status \in Ended
          /\ jobs[j].status \in Ended /\ jobs'[j] # jobs[j] =>
                fences[SubjectOf[j]] # NoRequest
          /\ ~(DOMAIN chunks[j] \subseteq DOMAIN chunks'[j]) =>
                fences[SubjectOf[j]] # NoRequest]_allvars
=============================================================================
