------------------------------- MODULE JobApi -------------------------------
(***************************************************************************)
(* What callers do with jobs: submit them under an idempotency key, list,  *)
(* read and cancel them.  Submissions are transactions of several          *)
(* statements that run side by side, lose their acknowledgement, are       *)
(* repeated, and race the erasure of the account.                          *)
(*                                                                         *)
(* A job id is a digest of scope, provider, operation, object key and      *)
(* idempotency key and a fingerprint one of the request; both are modelled *)
(* by what goes in; provider and object key stay the same here.  Each      *)
(* submission begins with the no-op upsert of the subject's fence row, so  *)
(* it holds that row's lock until it ends.  A list is the set of the jobs  *)
(* it shows.                                                               *)
(*                                                                         *)
(* What workers do to a job (JobQueue) is here a change of its status.     *)
(***************************************************************************)
EXTENDS JobAccess

CONSTANTS
    Scopes,       \* workspaces with an actor: [workspace, actor]
    Submissions,  \* requests: [scope, operation, key, body]
    Callers,      \* goroutines that submit
    Nobody,       \* the holder of a lock that is free
    Principals,   \* principals that contexts may carry
    Instants,     \* Instants[id]: what created_at of a job may be
    DigestRank,   \* DigestRank[id]: the place of a job id among the digests
    Limits,       \* limits that lists are asked with, 0 for none
    DefaultLimit  \* limit of a list that is asked without one

ASSUME ApiAssumption ==
    /\ \A r \in Submissions : r.scope \in Scopes
                              /\ r.operation \in {"import", "export"}
    /\ Nobody \notin Callers

\* Fingerprints are digests, never empty, and the key of an erased row is a
\* digest of its id: no request comes with it.
ASSUME KeyAssumption == \A r \in Submissions : r.key # "erased" /\ r.body # ""

\* A scope is a workspace with an actor, and the bundle of a principal holds
\* lists.
ASSUME AccessAssumption ==
    /\ \A s \in Scopes \cup {p.scope : p \in Principals} :
          s = [workspace |-> s.workspace, actor |-> s.actor]
    /\ \A p \in Principals : p.bundle # NoBundle =>
          \A list \in {p.bundle.grants, p.bundle.policies, p.bundle.guardrails} :
             list \in Seq(Range(list))

VARIABLES
    rows,      \* job id -> its row
    sources,   \* job id -> its source chunks, for jobs that have some
    queues,    \* the workspaces in _data_exchange_queue_scopes
    fenced,    \* the scopes fenced for erasure
    lock,      \* lock[s]: who holds the fence row of s
    caller,    \* caller[c]: the submission of c and how far it is
    answers    \* the jobs that submissions were answered with, as a history

table == <<rows, sources, queues, fenced>>
apivars == <<table, lock, caller, answers>>

NoCall == [at |-> "idle"]

\* jobID.
jobID(r) == [scope |-> r.scope, operation |-> r.operation, key |-> r.key]

\* Two jobs have two ids, and a database has them in one order.
ASSUME ListAssumption ==
    LET ids == {jobID(r) : r \in Submissions}
    IN  /\ Instants \in [ids -> SUBSET Nat] /\ Limits \subseteq Nat /\ DefaultLimit \in Nat
        /\ DigestRank \in [ids -> Nat]
        /\ \A j, k \in ids : DigestRank[j] = DigestRank[k] => j = k

\* fingerprint: the request with its source or options.
fingerprint(r) == r.body

\* The rows with the scope, operation and idempotency key of r, as
\* SubmitImport and lookupIdempotent select them.
Same(r) == {id \in DOMAIN rows : /\ id.scope = r.scope
                                 /\ id.operation = r.operation
                                 /\ rows[id].key = r.key}

NewRow(r, now) ==
    [status |-> "queued", key |-> r.key, hash |-> fingerprint(r), created |-> now]

With(f, id, v) == [k \in DOMAIN f \cup {id} |-> IF k = id THEN v ELSE f[k]]

Without(f, ids) == [k \in DOMAIN f \ ids |-> f[k]]

Released(c) == [s \in Scopes |-> IF lock[s] = c THEN Nobody ELSE lock[s]]

-----------------------------------------------------------------------------
(***************************************************************************)
(* SubmitImport and SubmitExport.                                          *)
(***************************************************************************)

\* BeginTx and checkSubjectSubmission; a fenced subject is refused.
BeginSubmission(c, r) ==
    /\ caller[c] = NoCall
    /\ lock[r.scope] = Nobody
    /\ r.scope \notin fenced
    /\ lock' = [lock EXCEPT ![r.scope] = c]
    /\ caller' = [caller EXCEPT ![c] =
          [at |-> IF r.operation = "import" THEN "lookup" ELSE "insert", req |-> r]]
    /\ UNCHANGED <<table, answers>>

\* An import looks for its key inside the transaction, its source already
\* staged there, and rolls back when there is a job.
LookupSubmission(c) ==
    LET r == caller[c].req
        found == Same(r)
    IN  /\ caller[c].at = "lookup"
        /\ IF found = {}
           THEN caller' = [caller EXCEPT ![c].at = "insert"] /\ UNCHANGED lock
           ELSE /\ caller' = [caller EXCEPT ![c] =
                      IF \E id \in found : rows[id].hash = fingerprint(r)
                      THEN [at |-> "replay", req |-> r] ELSE NoCall]
                /\ lock' = Released(c)
        /\ UNCHANGED <<table, answers>>

Answer(c, id) ==
    /\ answers' = answers \cup {[id |-> id, body |-> caller[c].req.body]}
    /\ caller' = [caller EXCEPT ![c] = NoCall]

\* Mutant of CommitSubmission: the source stays under its staging id.
CommitSubmissionStaged(c, ack) ==
    LET r == caller[c].req
    IN  /\ caller[c].at = "insert" /\ jobID(r) \notin DOMAIN rows
        /\ \E now \in Instants[jobID(r)] : rows' = With(rows, jobID(r), NewRow(r, now))
        /\ queues' = queues \cup {r.scope.workspace}
        /\ lock' = Released(c)
        /\ IF ack THEN Answer(c, jobID(r))
                  ELSE caller' = [caller EXCEPT ![c] = NoCall] /\ UNCHANGED answers
        /\ UNCHANGED <<sources, fenced>>

\* The row, the staged source under the job's id and the workspace's queue,
\* in one commit, whose acknowledgement may be lost.
CommitSubmission(c, ack) ==
    LET r == caller[c].req
        id == jobID(r)
    IN  /\ caller[c].at = "insert" /\ id \notin DOMAIN rows
        /\ \E now \in Instants[id] : rows' = With(rows, id, NewRow(r, now))
        /\ sources' = IF r.operation = "import" THEN With(sources, id, r.body)
                                                ELSE sources
        /\ queues' = queues \cup {r.scope.workspace}
        /\ lock' = Released(c)
        /\ IF ack THEN Answer(c, id)
                  ELSE caller' = [caller EXCEPT ![c] = NoCall] /\ UNCHANGED answers
        /\ UNCHANGED fenced

\* The INSERT meets the primary key: roll back, then look outside.
InsertConflict(c) ==
    /\ caller[c].at = "insert"
    /\ jobID(caller[c].req) \in DOMAIN rows
    /\ caller' = [caller EXCEPT ![c].at = "conflict"]
    /\ lock' = Released(c)
    /\ UNCHANGED <<table, answers>>

\* Outside the transaction an import that has compared fingerprints answers
\* with the job it finds; nothing found is an error.
lookupIdempotent(c) ==
    LET found == Same(caller[c].req)
    IN  /\ caller[c].at \in {"replay", "conflict"}
        /\ \/ /\ found = {}
              /\ caller' = [caller EXCEPT ![c] = NoCall]
              /\ UNCHANGED answers
           \/ /\ caller[c].at = "replay"
              /\ \E id \in found : Answer(c, id)
           \/ /\ caller[c].at = "conflict"
              /\ \E id \in found : caller' = [caller EXCEPT ![c] =
                    [at |-> "compare", req |-> caller[c].req, id |-> id]]
              /\ UNCHANGED answers
        /\ UNCHANGED <<table, lock>>

\* Mutant of requestHash: a conflict on the key is taken for a replay.
requestHashUnread(c) ==
    /\ caller[c].at = "compare"
    /\ Answer(c, caller[c].id)
    /\ UNCHANGED <<table, lock>>

\* requestHash: the fingerprint of the job that was found, read once more.
requestHash(c) ==
    /\ caller[c].at = "compare"
    /\ IF rows[caller[c].id].hash = fingerprint(caller[c].req)
       THEN Answer(c, caller[c].id)
       ELSE caller' = [caller EXCEPT ![c] = NoCall] /\ UNCHANGED answers
    /\ UNCHANGED <<table, lock>>

\* Mutant of AbandonSubmission: no deferred Rollback.
AbandonSubmissionOpen(c) ==
    /\ caller[c] # NoCall
    /\ caller' = [caller EXCEPT ![c] = NoCall]
    /\ UNCHANGED <<table, lock, answers>>

\* A source that cannot be read or is too large, a database error, a caller
\* that goes away or a process that dies: the transaction rolls back.
AbandonSubmission(c) ==
    /\ caller[c] # NoCall
    /\ caller' = [caller EXCEPT ![c] = NoCall]
    /\ lock' = Released(c)
    /\ UNCHANGED <<table, answers>>

-----------------------------------------------------------------------------
(***************************************************************************)
(* Reading and cancelling.                                                 *)
(***************************************************************************)
Permission(action) == [resource |-> "data_exchange.jobs", action |-> action]

\* Mutant of jobCandidatePredicate: the workspace is enough.
jobOfWorkspace(access, operation, id) ==
    /\ \E a \in access : id.scope.workspace = a.workspace
    /\ operation \in {"", id.operation}

\* The workspace and actor that the access was resolved to, and the
\* operation where the request names one.
jobCandidatePredicate(access, operation, id) ==
    /\ \E a \in access : id.scope = [workspace |-> a.workspace, actor |-> a.owner]
    /\ operation \in {"", id.operation}

\* The requests of the principals that need one of the permissions, for
\* their own scope or another, and what they are resolved to.
Requests(actions) ==
    {[by |-> p.scope,
      access |-> ResolveJobAccess(p, s, Permission(action)),
      entitled |-> Entitled(p, s, Permission(action))] :
        p \in Principals, s \in Scopes \cup {p.scope : p \in Principals},
        action \in actions}

ListRequests == Requests({"list"})
CancelRequests == Requests({"cancel"})
JobRequests == Requests({"get", "cancel", "download"})

\* httpJobRequest, JobForAction, Job and writeError: the status of the
\* answer and the jobs in it.
JobForAction(access, operation, id) ==
    CASE access = Denied -> [code |-> 403, jobs |-> {}]
      [] id \in DOMAIN rows /\ jobCandidatePredicate(access, operation, id)
            -> [code |-> 200, jobs |-> {id}]
      [] OTHER -> [code |-> 404, jobs |-> {}]

\* The order of a list: by created_at, then by id, both descending.
Newer(k, id) ==
    \/ rows[k].created > rows[id].created
    \/ rows[k].created = rows[id].created /\ DigestRank[k] > DigestRank[id]

EffectiveLimit(limit) == IF limit = 0 THEN DefaultLimit ELSE limit

\* The first n jobs of a set in that order.
Newest(ids, n) == {id \in ids : Cardinality({k \in ids : Newer(k, id)}) < n}

\* listJobs and Jobs, with their filters.
ListJobs(access, operation, status, limit) ==
    LET found == {id \in DOMAIN rows : /\ jobCandidatePredicate(access, operation, id)
                                       /\ status \in {"", rows[id].status}}
    IN  IF access = Denied
        THEN [code |-> 403, jobs |-> {}]
        ELSE [code |-> 200, jobs |-> Newest(found, EffectiveLimit(limit))]

\* Cancel: an open job is cancelled, one that has ended is left alone.
CancelJob(access, id) ==
    /\ jobCandidatePredicate(access, "", id)
    /\ rows[id].status \in {"queued", "running"}
    /\ rows' = [rows EXCEPT ![id].status = "cancelled"]
    /\ UNCHANGED <<sources, queues, fenced, lock, caller, answers>>

-----------------------------------------------------------------------------
(***************************************************************************)
(* Workers and erasures, as far as they touch these rows.                  *)
(***************************************************************************)
\* A claim, a failure that is tried again, and the end of a processing:
\* "completed" stands for failed as well.
WorkerMoves(id, status) ==
    /\ \/ rows[id].status = "queued" /\ status = "running"
       \/ rows[id].status = "running" /\ status \in {"queued", "completed"}
    /\ rows' = [rows EXCEPT ![id].status = status]
    /\ UNCHANGED <<sources, queues, fenced, lock, caller, answers>>

\* The fence of an account without a running job; queued ones are cancelled.
FenceSubject(s) ==
    /\ lock[s] = Nobody /\ s \notin fenced
    /\ \A id \in DOMAIN rows : id.scope = s => rows[id].status # "running"
    /\ rows' = [id \in DOMAIN rows |->
          IF id.scope = s /\ rows[id].status = "queued"
          THEN [rows[id] EXCEPT !.status = "cancelled"] ELSE rows[id]]
    /\ fenced' = fenced \cup {s}
    /\ UNCHANGED <<sources, queues, lock, caller, answers>>

\* ErasePreparedSubject: key and fingerprint are overwritten.
EraseSubject(s) ==
    LET own == {id \in DOMAIN rows : id.scope = s}
    IN  /\ lock[s] = Nobody /\ s \in fenced
        /\ rows' = [id \in DOMAIN rows |->
              IF id \in own
              THEN [rows[id] EXCEPT !.status = "cancelled", !.key = "erased", !.hash = ""]
              ELSE rows[id]]
        /\ sources' = Without(sources, own)
        /\ UNCHANGED <<queues, fenced, lock, caller, answers>>

-----------------------------------------------------------------------------
ApiInit ==
    /\ rows = << >> /\ sources = << >> /\ queues = {} /\ fenced = {}
    /\ lock = [s \in Scopes |-> Nobody]
    /\ caller = [c \in Callers |-> NoCall]
    /\ answers = {}

ApiNext ==
    \/ \E c \in Callers :
          \/ \E r \in Submissions : BeginSubmission(c, r)
          \/ LookupSubmission(c)
          \/ \E ack \in BOOLEAN : CommitSubmission(c, ack)
          \/ InsertConflict(c) \/ lookupIdempotent(c) \/ requestHash(c)
          \/ AbandonSubmission(c)
    \/ \E id \in DOMAIN rows :
          \/ \E q \in CancelRequests : CancelJob(q.access, id)
          \/ \E status \in {"queued", "running", "completed"} : WorkerMoves(id, status)
    \/ \E s \in Scopes : FenceSubject(s) \/ EraseSubject(s)

ApiSpec == ApiInit /\ [][ApiNext]_apivars

-----------------------------------------------------------------------------
(***************************************************************************)
(* Properties.                                                             *)
(***************************************************************************)

\* The variables stay in their types: rows under the id of a submission, in
\* a known status, and locks held by callers at work.
ApiTypeOK ==
    /\ DOMAIN rows \subseteq {jobID(r) : r \in Submissions}
    /\ \A id \in DOMAIN rows :
          rows[id].status \in {"queued", "running", "completed", "cancelled"}
    /\ \A s \in Scopes : lock[s] # Nobody =>
          caller[lock[s]].at \in {"lookup", "insert"} /\ caller[lock[s]].req.scope = s

\* "Idempotency compares the immutable source/request fingerprint": callers
\* that were answered with one job sent one and the same request, and the
\* row has that request's fingerprint until it is erased.  It holds for
\* submissions that race each other, repeat a commit whose acknowledgement
\* was lost, or read outside their transaction while the account is erased.
AnswersAgree ==
    \A a \in answers :
        /\ a.id \in DOMAIN rows
        /\ rows[a.id].hash \in {a.body, ""}
        /\ rows[a.id].hash = "" => a.id.scope \in fenced
        /\ \A b \in answers : a.id = b.id => a.body = b.body

\* What a job's worker will read is the source that its fingerprint was
\* taken of, it is there for every import until the account is erased and
\* for nothing else, and the pollers find the job's workspace.
SubmittedWhole ==
    /\ \A id \in DOMAIN rows :
          /\ id.scope.workspace \in queues
          /\ id.operation = "import" /\ rows[id].hash # "" =>
                id \in DOMAIN sources /\ sources[id] = rows[id].hash
    /\ \A id \in DOMAIN sources : /\ id \in DOMAIN rows
                                  /\ rows[id].hash = sources[id]

\* What a list may show of the jobs it is about: at most n, all of them if
\* there are no more, and otherwise none that is older than one left out.
IsPage(shown, ids, n) ==
    /\ shown \subseteq ids /\ Cardinality(shown) <= n
    /\ Cardinality(ids) <= n => shown = ids
    /\ \A id \in shown, k \in ids \ shown : Newer(id, k)

\* An answer shows jobs of the caller's own workspace and actor only, and
\* only to a principal that is entitled to ask; an entitled one is shown the
\* job it asks for, and in a list its own jobs, the newest ones if they are
\* more than the limit.
AnswersOnlyOwners ==
    /\ \A q \in ListRequests, status \in {"", "queued"} :
          LET mine == {id \in DOMAIN rows : /\ id.scope = q.by
                                            /\ status \in {"", rows[id].status}}
          IN  \A limit \in Limits :
                 LET answer == ListJobs(q.access, "", status, limit)
                 IN  IF q.entitled
                     THEN /\ answer.code = 200
                          /\ IsPage(answer.jobs, mine, EffectiveLimit(limit))
                     ELSE answer = [code |-> 403, jobs |-> {}]
    /\ \A q \in JobRequests, id \in DOMAIN rows, operation \in {"", "export"} :
          JobForAction(q.access, operation, id).jobs =
             {k \in {id} : q.entitled /\ k.scope = q.by /\ operation \in {"", k.operation}}
=============================================================================
