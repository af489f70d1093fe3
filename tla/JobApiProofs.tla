---------------------------- MODULE JobApiProofs ----------------------------
(***************************************************************************)
(* Proofs about JobApi, for any callers, scopes, requests and principals.  *)
(*                                                                         *)
(* A submission may read its job three times: under the lock of its        *)
(* subject's fence row, and twice outside its transaction.  What it read   *)
(* first is still true, or has been erased, when it answers: that is what  *)
(* ApiInv says of the callers, and why the answers agree.                  *)
(*                                                                         *)
(* Who may read a job is decided by loops with early returns; the second   *)
(* part shows that they decide what is meant.                              *)
(***************************************************************************)
EXTENDS JobApi, TLAPS, WellFoundedInduction, SequenceTheorems, FiniteSetTheorems

Ids == {jobID(r) : r \in Submissions}
Keys == {r.key : r \in Submissions}
Bodies == {r.body : r \in Submissions}

Statuses == {"queued", "running", "completed", "cancelled"}

Row == [status : Statuses, key : Keys \cup {"erased"}, hash : Bodies \cup {""},
        created : Nat]

Calls == [at : {"lookup", "insert", "replay", "conflict"}, req : Submissions]

Compares == [at : {"compare"}, req : Submissions, id : Ids]

\* The shapes of the state.
Shapes ==
    /\ DOMAIN rows \subseteq Ids /\ IsFiniteSet(DOMAIN rows)
    /\ rows \in [DOMAIN rows -> Row]
    /\ sources \in [DOMAIN sources -> Bodies]
    /\ lock \in [Scopes -> Callers \cup {Nobody}]
    /\ caller \in [Callers -> {NoCall} \cup Calls \cup Compares]
    /\ answers \subseteq [id : Ids, body : Bodies]

\* A caller inside its transaction holds the lock of a subject that is not
\* fenced, and nobody else holds a lock.
LocksHeld ==
    /\ \A c \in Callers : caller[c].at \in {"lookup", "insert"} =>
          lock[caller[c].req.scope] = c /\ caller[c].req.scope \notin fenced
    /\ \A s \in Scopes : lock[s] # Nobody =>
          caller[lock[s]].at \in {"lookup", "insert"} /\ caller[lock[s]].req.scope = s

\* A row has the key of its id and a fingerprint, or is erased.
RowsKeyed ==
    \A id \in DOMAIN rows :
        \/ rows[id].key = id.key /\ rows[id].hash # ""
        \/ rows[id].key = "erased" /\ rows[id].hash = "" /\ id.scope \in fenced

\* What a caller outside its transaction goes by: the job it found is there,
\* and a replay's has the fingerprint of the request until it is erased.
CallersKnow ==
    \A c \in Callers :
        /\ caller[c].at = "compare" =>
              caller[c].id = jobID(caller[c].req) /\ caller[c].id \in DOMAIN rows
        /\ caller[c].at = "replay" =>
              /\ jobID(caller[c].req) \in DOMAIN rows
              /\ rows[jobID(caller[c].req)].hash \in {caller[c].req.body, ""}

ApiInv ==
    /\ Shapes
    /\ LocksHeld
    /\ RowsKeyed
    /\ CallersKnow
    /\ AnswersAgree
    /\ SubmittedWhole

-----------------------------------------------------------------------------
(***************************************************************************)
(* Lemmas.                                                                 *)
(***************************************************************************)

\* An id is the id of every request with its scope, operation and key.
LEMMA IdOf ==
    ASSUME NEW id \in Ids, NEW r \in Submissions,
           id.scope = r.scope, id.operation = r.operation, id.key = r.key
    PROVE  id = jobID(r)
<1>1. PICK q \in Submissions : id = jobID(q)
  BY DEF Ids
<1>. QED
  BY <1>1 DEF jobID

\* What a lookup by the key of a request finds is the job of the request,
\* and it is not erased.
LEMMA FoundIsOwn ==
    ASSUME ApiInv, NEW r \in Submissions, NEW id \in Same(r)
    PROVE  id = jobID(r) /\ id \in DOMAIN rows /\ rows[id].hash # ""
<1>1. /\ id \in DOMAIN rows /\ id \in Ids
      /\ id.scope = r.scope /\ id.operation = r.operation /\ rows[id].key = r.key
  BY DEF Same, ApiInv, Shapes
<1>2. r.key # "erased"
  BY KeyAssumption
<1>3. id.key = r.key /\ rows[id].hash # ""
  BY <1>1, <1>2 DEF ApiInv, RowsKeyed
<1>. QED
  BY <1>1, <1>3, IdOf

\* The shape of a caller that is at work.
LEMMA CallerAtWork ==
    ASSUME ApiInv, NEW c \in Callers, caller[c].at # "idle"
    PROVE  /\ caller[c].req \in Submissions
           /\ caller[c].at # "compare" =>
                 /\ caller[c] \in Calls
                 /\ caller[c] = [at |-> caller[c].at, req |-> caller[c].req]
           /\ caller[c].at = "compare" => caller[c] \in Compares
<1>1. caller[c] \in {NoCall} \cup Calls \cup Compares
  BY DEF ApiInv, Shapes
<1>2. caller[c] # NoCall
  BY DEF NoCall
<1>. QED
  BY <1>1, <1>2 DEF Calls, Compares

\* Ending a transaction gives back its lock and no other.
LEMMA ReleasedLocks ==
    ASSUME ApiInv, NEW c \in Callers
    PROVE  /\ Released(c) \in [Scopes -> Callers \cup {Nobody}]
           /\ \A s \in Scopes : Released(c)[s] # Nobody =>
                 Released(c)[s] = lock[s] /\ lock[s] # c
           /\ \A s \in Scopes : lock[s] # c => Released(c)[s] = lock[s]
<1>1. lock \in [Scopes -> Callers \cup {Nobody}]
  BY DEF ApiInv, Shapes
<1>. QED
  BY <1>1 DEF Released

-----------------------------------------------------------------------------
(***************************************************************************)
(* Steps of a submission that leave the table as it is.                    *)
(***************************************************************************)

\* What is left to show of a step that leaves the table as it is: the shape
\* of the callers, of the locks and of the answers, and what they tell.
LEMMA TableKept ==
    ASSUME ApiInv, UNCHANGED table,
           lock' \in [Scopes -> Callers \cup {Nobody}],
           caller' \in [Callers -> {NoCall} \cup Calls \cup Compares],
           answers' \subseteq [id : Ids, body : Bodies],
           LocksHeld', CallersKnow', AnswersAgree'
    PROVE  ApiInv'
<1>1. Shapes'
  BY DEF ApiInv, Shapes, table
<1>2. RowsKeyed'
  BY DEF ApiInv, RowsKeyed, table
<1>3. SubmittedWhole'
  BY DEF ApiInv, SubmittedWhole, table
<1>. QED
  BY <1>1, <1>2, <1>3 DEF ApiInv

\* A transaction that ends, with or without something to do afterwards.
LEMMA TransactionEnds ==
    ASSUME ApiInv, NEW c \in Callers, NEW next,
           caller' = [caller EXCEPT ![c] = next], lock' = Released(c),
           next.at \notin {"lookup", "insert"}
    PROVE  /\ lock' \in [Scopes -> Callers \cup {Nobody}]
           /\ fenced' = fenced => LocksHeld'
<1>1. lock' \in [Scopes -> Callers \cup {Nobody}]
  BY ReleasedLocks
<1>2. ASSUME fenced' = fenced, NEW v \in Callers, caller'[v].at \in {"lookup", "insert"}
      PROVE  lock'[caller'[v].req.scope] = v /\ caller'[v].req.scope \notin fenced'
  <2>1. v # c /\ caller'[v] = caller[v]
    BY <1>2 DEF ApiInv, Shapes
  <2>2. caller[v].req \in Submissions
    BY <1>2, <2>1, CallerAtWork
  <2>3. caller[v].req.scope \in Scopes
    BY <2>2, ApiAssumption
  <2>4. lock[caller[v].req.scope] = v /\ caller[v].req.scope \notin fenced
    BY <1>2, <2>1 DEF ApiInv, LocksHeld
  <2>. QED
    BY <1>2, <2>1, <2>3, <2>4, ReleasedLocks
<1>3. ASSUME NEW s \in Scopes, lock'[s] # Nobody
      PROVE  caller'[lock'[s]].at \in {"lookup", "insert"} /\ caller'[lock'[s]].req.scope = s
  <2>1. lock'[s] = lock[s] /\ lock[s] # c /\ lock[s] \in Callers
    BY <1>1, <1>3, ReleasedLocks
  <2>2. caller'[lock[s]] = caller[lock[s]]
    BY <2>1 DEF ApiInv, Shapes
  <2>. QED
    BY <1>3, <2>1, <2>2 DEF ApiInv, LocksHeld
<1>. QED
  BY <1>1, <1>2, <1>3 DEF LocksHeld

\* A submission begins: it locks a fence row that is free and not fenced.
LEMMA BeginKeeps ==
    ASSUME ApiInv, NEW c \in Callers, NEW r \in Submissions, BeginSubmission(c, r)
    PROVE  ApiInv'
<1> DEFINE new == [at |-> IF r.operation = "import" THEN "lookup" ELSE "insert", req |-> r]
<1>1. /\ new \in Calls /\ new.at \in {"lookup", "insert"} /\ new.req = r
      /\ r.scope \in Scopes
  BY ApiAssumption DEF Calls
<1>2. /\ caller' = [caller EXCEPT ![c] = new] /\ lock' = [lock EXCEPT ![r.scope] = c]
      /\ lock[r.scope] = Nobody /\ r.scope \notin fenced /\ caller[c].at = "idle"
      /\ UNCHANGED table /\ UNCHANGED answers
      /\ UNCHANGED rows /\ UNCHANGED fenced
  BY DEF BeginSubmission, table, NoCall
<1> HIDE DEF new
<1>3. /\ lock' \in [Scopes -> Callers \cup {Nobody}]
      /\ caller' \in [Callers -> {NoCall} \cup Calls \cup Compares]
      /\ answers' \subseteq [id : Ids, body : Bodies]
  BY <1>1, <1>2 DEF ApiInv, Shapes
<1>4. LocksHeld'
  <2>1. ASSUME NEW v \in Callers, caller'[v].at \in {"lookup", "insert"}
        PROVE  lock'[caller'[v].req.scope] = v /\ caller'[v].req.scope \notin fenced'
    <3>1. CASE v = c
      BY <3>1, <1>1, <1>2 DEF ApiInv, Shapes
    <3>2. CASE v # c
      <4>1. caller'[v] = caller[v]
        BY <1>2, <3>2 DEF ApiInv, Shapes
      <4>2. lock[caller[v].req.scope] = v /\ caller[v].req.scope \notin fenced
        BY <2>1, <4>1 DEF ApiInv, LocksHeld
      <4>3. caller[v].req \in Submissions
        BY <2>1, <4>1, CallerAtWork
      <4>4. caller[v].req.scope \in Scopes /\ caller[v].req.scope # r.scope
        BY <1>2, <4>2, <4>3, ApiAssumption
      <4>. QED
        BY <1>2, <4>1, <4>2, <4>4 DEF ApiInv, Shapes
    <3>. QED
      BY <3>1, <3>2
  <2>2. ASSUME NEW s \in Scopes, lock'[s] # Nobody
        PROVE  /\ caller'[lock'[s]].at \in {"lookup", "insert"}
               /\ caller'[lock'[s]].req.scope = s
    <3>1. CASE s = r.scope
      BY <3>1, <1>1, <1>2 DEF ApiInv, Shapes
    <3>2. CASE s # r.scope
      <4>1. lock'[s] = lock[s] /\ lock[s] \in Callers
        BY <1>2, <2>2, <3>2 DEF ApiInv, Shapes
      <4>2. caller[lock[s]].at \in {"lookup", "insert"} /\ caller[lock[s]].req.scope = s
        BY <2>2, <4>1 DEF ApiInv, LocksHeld
      <4>3. lock[s] # c
        BY <1>2, <4>2
      <4>. QED
        BY <1>2, <4>1, <4>2, <4>3 DEF ApiInv, Shapes
    <3>. QED
      BY <3>1, <3>2
  <2>. QED
    BY <2>1, <2>2 DEF LocksHeld
<1>5. CallersKnow'
  <2>1. \A v \in Callers : caller'[v] = caller[v] \/ caller'[v] = new
    BY <1>2 DEF ApiInv, Shapes
  <2>. QED
    BY <1>1, <1>2, <2>1 DEF ApiInv, CallersKnow
<1>6. AnswersAgree'
  BY <1>2 DEF ApiInv, AnswersAgree
<1>. QED
  BY <1>2, <1>3, <1>4, <1>5, <1>6, TableKept

\* A caller's step from one place to another outside of transactions, with
\* the lock given back or none to give, and nothing answered.
LEMMA MovedOn ==
    ASSUME ApiInv, NEW c \in Callers, UNCHANGED <<table, answers>>,
           NEW next \in {NoCall} \cup Calls \cup Compares,
           caller' = [caller EXCEPT ![c] = next],
           lock' = Released(c),
           next.at \notin {"lookup", "insert"},
           next.at = "compare" => next.id = jobID(next.req) /\ next.id \in DOMAIN rows,
           next.at = "replay" =>
              /\ jobID(next.req) \in DOMAIN rows
              /\ rows[jobID(next.req)].hash \in {next.req.body, ""}
    PROVE  ApiInv'
<1>1. UNCHANGED table /\ UNCHANGED answers /\ UNCHANGED rows /\ UNCHANGED fenced
  BY DEF table
<1>2. lock' \in [Scopes -> Callers \cup {Nobody}] /\ LocksHeld'
  BY <1>1, TransactionEnds
<1>3. /\ caller' \in [Callers -> {NoCall} \cup Calls \cup Compares]
      /\ answers' \subseteq [id : Ids, body : Bodies]
  BY <1>1 DEF ApiInv, Shapes
<1>4. CallersKnow'
  <2>1. \A v \in Callers : caller'[v] = caller[v] \/ caller'[v] = next
    BY DEF ApiInv, Shapes
  <2>. QED
    BY <1>1, <2>1 DEF ApiInv, CallersKnow
<1>5. AnswersAgree'
  BY <1>1 DEF ApiInv, AnswersAgree
<1>. QED
  BY <1>1, <1>2, <1>3, <1>4, <1>5, TableKept

\* A caller outside its transaction has no lock to give back.
LEMMA NothingToRelease ==
    ASSUME ApiInv, NEW c \in Callers, caller[c].at \notin {"lookup", "insert"}
    PROVE  Released(c) = lock
<1>1. lock \in [Scopes -> Callers \cup {Nobody}] /\ \A s \in Scopes : lock[s] # c
  BY ApiAssumption DEF ApiInv, Shapes, LocksHeld
<1>. QED
  BY <1>1 DEF Released

\* The lookup under the lock.
LEMMA LookupKeeps ==
    ASSUME ApiInv, NEW c \in Callers, LookupSubmission(c)
    PROVE  ApiInv'
<1>1. /\ caller[c].at = "lookup" /\ caller[c].req \in Submissions
      /\ caller[c] = [at |-> caller[c].at, req |-> caller[c].req]
      /\ UNCHANGED <<table, answers>>
      /\ UNCHANGED table /\ UNCHANGED answers /\ UNCHANGED rows /\ UNCHANGED fenced
  BY CallerAtWork DEF LookupSubmission, table
<1>2. PICK r \in Submissions : r = caller[c].req
  BY <1>1
<1>3. CASE Same(r) = {}
  <2>1. PICK new \in Calls : new = [at |-> "insert", req |-> r]
    BY DEF Calls
  <2>2. caller' = [caller EXCEPT ![c] = new] /\ lock' = lock
    BY <1>1, <1>2, <1>3, <2>1 DEF LookupSubmission
  <2>3. /\ caller' \in [Callers -> {NoCall} \cup Calls \cup Compares]
        /\ lock' \in [Scopes -> Callers \cup {Nobody}]
        /\ answers' \subseteq [id : Ids, body : Bodies]
    BY <1>1, <2>2 DEF ApiInv, Shapes
  <2>4. /\ caller'[c] = new /\ new.at = "insert" /\ new.req = r
        /\ \A v \in Callers : v # c => caller'[v] = caller[v]
    BY <2>1, <2>2 DEF ApiInv, Shapes
  <2>5. LocksHeld'
    BY <1>1, <1>2, <2>2, <2>4 DEF ApiInv, Shapes, LocksHeld
  <2>6. CallersKnow'
    BY <1>1, <2>4 DEF ApiInv, CallersKnow
  <2>7. AnswersAgree'
    BY <1>1 DEF ApiInv, AnswersAgree
  <2>. QED
    BY <1>1, <2>3, <2>5, <2>6, <2>7, TableKept
<1>4. CASE Same(r) # {} /\ \E id \in Same(r) : rows[id].hash = fingerprint(r)
  <2>1. PICK new \in Calls : new = [at |-> "replay", req |-> r]
    BY DEF Calls
  <2>2. caller' = [caller EXCEPT ![c] = new] /\ lock' = Released(c)
    BY <1>1, <1>2, <1>4, <2>1 DEF LookupSubmission
  <2>3. jobID(r) \in DOMAIN rows /\ rows[jobID(r)].hash = r.body
    BY <1>4, FoundIsOwn DEF fingerprint
  <2>4. new.at = "replay" /\ new.req = r
    BY <2>1
  <2>. QED
    BY <1>1, <2>2, <2>3, <2>4, MovedOn
<1>5. CASE Same(r) # {} /\ ~ \E id \in Same(r) : rows[id].hash = fingerprint(r)
  <2>1. caller' = [caller EXCEPT ![c] = NoCall] /\ lock' = Released(c)
    BY <1>1, <1>2, <1>5 DEF LookupSubmission
  <2>2. NoCall.at = "idle"
    BY DEF NoCall
  <2>. QED
    BY <1>1, <2>1, <2>2, MovedOn
<1>. QED
  BY <1>3, <1>4, <1>5

\* The INSERT that meets the primary key.
LEMMA ConflictKeeps ==
    ASSUME ApiInv, NEW c \in Callers, InsertConflict(c)
    PROVE  ApiInv'
<1>1. /\ caller[c].at = "insert" /\ caller[c].req \in Submissions
      /\ caller[c] = [at |-> caller[c].at, req |-> caller[c].req]
  BY CallerAtWork DEF InsertConflict
<1>2. PICK new \in Calls : new = [at |-> "conflict", req |-> caller[c].req]
  BY <1>1 DEF Calls
<1>3. PICK x \in Calls : x = caller[c]
  BY <1>1, CallerAtWork
<1>4. [x EXCEPT !.at = "conflict"] = new
  BY <1>1, <1>2, <1>3 DEF Calls
<1>5. caller' = [caller EXCEPT ![c] = [x EXCEPT !.at = "conflict"]]
  BY <1>3, Zenon DEF InsertConflict
<1>6. /\ caller' = [caller EXCEPT ![c] = new] /\ lock' = Released(c)
      /\ UNCHANGED <<table, answers>> /\ new.at = "conflict"
  BY <1>2, <1>4, <1>5 DEF InsertConflict
<1>. QED
  BY <1>6, MovedOn

\* A submission that fails.
LEMMA AbandonKeeps ==
    ASSUME ApiInv, NEW c \in Callers, AbandonSubmission(c)
    PROVE  ApiInv'
<1>1. NoCall.at = "idle"
  BY DEF NoCall
<1>. QED
  BY <1>1, MovedOn DEF AbandonSubmission

\* An answer with a job that has the fingerprint of the request.
LEMMA AnsweredKeeps ==
    ASSUME ApiInv, NEW c \in Callers, caller[c].at \in {"replay", "compare"},
           NEW r \in Submissions, r = caller[c].req,
           NEW id \in DOMAIN rows, rows[id].hash = r.body,
           Answer(c, id), UNCHANGED <<table, lock>>
    PROVE  ApiInv'
<1>1. /\ UNCHANGED table /\ UNCHANGED rows /\ UNCHANGED fenced
      /\ lock' = Released(c) /\ caller' = [caller EXCEPT ![c] = NoCall]
      /\ NoCall.at = "idle"
  BY NothingToRelease DEF table, Answer, NoCall
<1>2. lock' \in [Scopes -> Callers \cup {Nobody}] /\ LocksHeld'
  BY <1>1, TransactionEnds
<1>3. PICK new \in [id : Ids, body : Bodies] : new = [id |-> id, body |-> r.body]
  BY DEF ApiInv, Shapes, Bodies
<1>4. answers' = answers \cup {new} /\ new.id = id /\ new.body = r.body
  BY <1>3 DEF Answer
<1>5. /\ caller' \in [Callers -> {NoCall} \cup Calls \cup Compares]
      /\ answers' \subseteq [id : Ids, body : Bodies]
  BY <1>1, <1>4 DEF ApiInv, Shapes
<1>6. CallersKnow'
  <2>1. \A v \in Callers : caller'[v] = caller[v] \/ caller'[v] = NoCall
    BY <1>1 DEF ApiInv, Shapes
  <2>. QED
    BY <1>1, <2>1 DEF ApiInv, CallersKnow
<1>7. r.body # ""
  BY KeyAssumption
<1>8. AnswersAgree'
  <2>1. ASSUME NEW a \in answers' PROVE a.id \in DOMAIN rows /\ rows[a.id].hash \in {a.body, ""}
    BY <1>4 DEF ApiInv, AnswersAgree
  <2>2. ASSUME NEW a \in answers', rows[a.id].hash = "" PROVE a.id.scope \in fenced
    BY <2>2, <1>4, <1>7 DEF ApiInv, AnswersAgree
  <2>3. ASSUME NEW a \in answers, a.id = id PROVE a.body = r.body
    BY <2>3, <1>7 DEF ApiInv, AnswersAgree
  <2>4. ASSUME NEW a \in answers', NEW b \in answers', a.id = b.id PROVE a.body = b.body
    BY <1>4, <2>3, <2>4 DEF ApiInv, AnswersAgree
  <2>. QED
    BY <1>1, <2>1, <2>2, <2>4 DEF AnswersAgree
<1>. QED
  BY <1>1, <1>2, <1>5, <1>6, <1>8, TableKept

\* The lookup outside the transaction.
LEMMA LookupOutsideKeeps ==
    ASSUME ApiInv, NEW c \in Callers, lookupIdempotent(c)
    PROVE  ApiInv'
<1>1. /\ caller[c].at \in {"replay", "conflict"} /\ caller[c].req \in Submissions
      /\ UNCHANGED <<table, lock>> /\ lock' = Released(c)
  BY CallerAtWork, NothingToRelease DEF lookupIdempotent
<1>2. PICK r \in Submissions : r = caller[c].req
  BY <1>1
<1>3. CASE caller' = [caller EXCEPT ![c] = NoCall] /\ UNCHANGED answers
  <2>1. NoCall.at = "idle" /\ UNCHANGED <<table, answers>>
    BY <1>1, <1>3 DEF NoCall
  <2>. QED
    BY <1>1, <1>3, <2>1, MovedOn
<1>4. ASSUME NEW id \in Same(r), caller[c].at = "replay", Answer(c, id)
      PROVE  ApiInv'
  <2>1. id = jobID(r) /\ id \in DOMAIN rows /\ rows[id].hash # ""
    BY <1>4, FoundIsOwn
  <2>2. rows[id].hash = r.body
    BY <1>2, <1>4, <2>1 DEF ApiInv, CallersKnow
  <2>. QED
    BY <1>1, <1>2, <1>4, <2>1, <2>2, AnsweredKeeps
<1>5. ASSUME NEW id \in Same(r), UNCHANGED answers,
             caller' = [caller EXCEPT ![c] = [at |-> "compare", req |-> caller[c].req, id |-> id]]
      PROVE  ApiInv'
  <2>1. id = jobID(r) /\ id \in DOMAIN rows /\ id \in Ids
    BY FoundIsOwn DEF ApiInv, Shapes
  <2>2. PICK new \in Compares : new = [at |-> "compare", req |-> r, id |-> id]
    BY <2>1 DEF Compares
  <2>3. /\ new.at = "compare" /\ new.id = jobID(new.req) /\ new.id \in DOMAIN rows
        /\ caller' = [caller EXCEPT ![c] = new] /\ UNCHANGED <<table, answers>>
    BY <1>1, <1>2, <1>5, <2>1, <2>2
  <2>. QED
    BY <1>1, <2>3, MovedOn
<1>. QED
  BY <1>2, <1>3, <1>4, <1>5 DEF lookupIdempotent

\* The comparison after a conflict.
LEMMA CompareKeeps ==
    ASSUME ApiInv, NEW c \in Callers, requestHash(c)
    PROVE  ApiInv'
<1>1. /\ caller[c].at = "compare" /\ caller[c].req \in Submissions
      /\ caller[c].id \in DOMAIN rows
      /\ UNCHANGED <<table, lock>> /\ lock' = Released(c)
  BY CallerAtWork, NothingToRelease DEF requestHash, ApiInv, CallersKnow
<1>2. CASE rows[caller[c].id].hash = fingerprint(caller[c].req)
  <2>1. Answer(c, caller[c].id)
    BY <1>2 DEF requestHash
  <2>. QED
    BY <1>1, <1>2, <2>1, AnsweredKeeps DEF fingerprint
<1>3. CASE rows[caller[c].id].hash # fingerprint(caller[c].req)
  <2>1. /\ caller' = [caller EXCEPT ![c] = NoCall] /\ UNCHANGED <<table, answers>>
        /\ NoCall.at = "idle"
    BY <1>1, <1>3 DEF requestHash, NoCall
  <2>. QED
    BY <1>1, <2>1, MovedOn
<1>. QED
  BY <1>2, <1>3

-----------------------------------------------------------------------------
(***************************************************************************)
(* Steps that change the table.                                            *)
(***************************************************************************)

\* A row with another status.
LEMMA MovedRow ==
    ASSUME NEW x \in Row, NEW s \in Statuses
    PROVE  /\ [x EXCEPT !.status = s] \in Row
           /\ [x EXCEPT !.status = s].key = x.key
           /\ [x EXCEPT !.status = s].hash = x.hash
BY DEF Row

\* A row whose key and fingerprint are overwritten.
LEMMA ErasedRow ==
    ASSUME NEW x \in Row
    PROVE  LET y == [x EXCEPT !.status = "cancelled", !.key = "erased", !.hash = ""]
           IN  y \in Row /\ y.key = "erased" /\ y.hash = ""
<1>1. PICK y : y = [x EXCEPT !.status = "cancelled", !.key = "erased", !.hash = ""]
  OBVIOUS
<1>2. y \in Row /\ y.key = "erased" /\ y.hash = ""
  BY <1>1 DEF Row, Statuses
<1>. QED
  BY <1>1, <1>2, Zenon

\* What a step of a worker, a cancellation, a fence or an erasure may do:
\* no row comes or goes, each keeps its key and fingerprint or is erased,
\* in a scope that is fenced, together with its source.
RowsMove ==
    /\ DOMAIN rows' = DOMAIN rows /\ rows' \in [DOMAIN rows -> Row]
    /\ \A id \in DOMAIN rows :
          \/ rows'[id].key = rows[id].key /\ rows'[id].hash = rows[id].hash
          \/ /\ rows'[id].key = "erased" /\ rows'[id].hash = ""
             /\ id.scope \in fenced' /\ id \notin DOMAIN sources'
    /\ sources' \in [DOMAIN sources' -> Bodies] /\ DOMAIN sources' \subseteq DOMAIN sources
    /\ \A id \in DOMAIN sources' : sources'[id] = sources[id]
    /\ \A id \in DOMAIN sources \ DOMAIN sources' : id \in DOMAIN rows => rows'[id].hash = ""
    /\ fenced \subseteq fenced'
    /\ \A s \in fenced' \ fenced : s \in Scopes /\ lock[s] = Nobody
    /\ UNCHANGED <<queues, lock, caller, answers>>

\* Such a step keeps the invariant, whoever is submitting meanwhile.
LEMMA RowsMoveKeeps ==
    ASSUME ApiInv, RowsMove
    PROVE  ApiInv'
<1>1. UNCHANGED queues /\ UNCHANGED lock /\ UNCHANGED caller /\ UNCHANGED answers
  BY DEF RowsMove
<1>2. Shapes'
  BY <1>1 DEF RowsMove, ApiInv, Shapes
<1>3. LocksHeld'
  <2>1. ASSUME NEW c \in Callers, caller[c].at \in {"lookup", "insert"}
        PROVE  lock[caller[c].req.scope] = c /\ caller[c].req.scope \notin fenced'
    <3>2. lock[caller[c].req.scope] = c /\ caller[c].req.scope \notin fenced
      BY <2>1 DEF ApiInv, LocksHeld
    <3>3. c # Nobody
      BY ApiAssumption
    <3>. QED
      BY <3>2, <3>3 DEF RowsMove
  <2>. QED
    BY <1>1, <2>1 DEF ApiInv, LocksHeld
<1>4. RowsKeyed'
  BY DEF ApiInv, RowsKeyed, RowsMove
<1>5. CallersKnow'
  BY <1>1 DEF ApiInv, CallersKnow, RowsMove
<1>6. AnswersAgree'
  <2>1. \A a \in answers : /\ a.id \in DOMAIN rows'
                           /\ rows'[a.id].hash \in {a.body, ""}
                           /\ rows'[a.id].hash = "" => a.id.scope \in fenced'
    BY DEF ApiInv, AnswersAgree, RowsMove
  <2>. QED
    BY <1>1, <2>1 DEF ApiInv, AnswersAgree
<1>7. SubmittedWhole'
  <2>1. ASSUME NEW id \in DOMAIN rows'
        PROVE  /\ id.scope.workspace \in queues
               /\ id.operation = "import" /\ rows'[id].hash # "" =>
                     id \in DOMAIN sources' /\ sources'[id] = rows'[id].hash
    BY DEF ApiInv, SubmittedWhole, RowsMove
  <2>2. ASSUME NEW id \in DOMAIN sources'
        PROVE  id \in DOMAIN rows' /\ rows'[id].hash = sources'[id]
    BY DEF ApiInv, SubmittedWhole, RowsMove
  <2>. QED
    BY <1>1, <2>1, <2>2 DEF SubmittedWhole
<1>. QED
  BY <1>2, <1>3, <1>4, <1>5, <1>6, <1>7 DEF ApiInv

\* Workers and cancellations.
LEMMA StatusKeeps ==
    ASSUME ApiInv, NEW id \in DOMAIN rows, NEW s \in Statuses,
           rows' = [rows EXCEPT ![id].status = s],
           UNCHANGED <<sources, queues, fenced, lock, caller, answers>>
    PROVE  ApiInv'
<1>1. rows \in [DOMAIN rows -> Row] /\ sources \in [DOMAIN sources -> Bodies]
  BY DEF ApiInv, Shapes
<1>2. PICK y \in Row : /\ y = [rows[id] EXCEPT !.status = s]
                       /\ y.key = rows[id].key /\ y.hash = rows[id].hash
  BY <1>1, MovedRow, Zenon
<1>3. rows' = [rows EXCEPT ![id] = y]
  BY <1>2, Zenon
<1>4. RowsMove
  BY <1>1, <1>2, <1>3 DEF RowsMove
<1>. QED
  BY <1>4, RowsMoveKeeps

\* The fence.
LEMMA FenceKeeps ==
    ASSUME ApiInv, NEW s \in Scopes, FenceSubject(s)
    PROVE  ApiInv'
<1>1. rows \in [DOMAIN rows -> Row] /\ sources \in [DOMAIN sources -> Bodies]
  BY DEF ApiInv, Shapes
<1>2. ASSUME NEW id \in DOMAIN rows
      PROVE  rows'[id] \in Row /\ rows'[id].key = rows[id].key /\ rows'[id].hash = rows[id].hash
  <2>1. PICK x \in Row : x = rows[id]
    BY <1>1
  <2>2. rows'[id] = x \/ rows'[id] = [x EXCEPT !.status = "cancelled"]
    BY <2>1, Zenon DEF FenceSubject
  <2>3. "cancelled" \in Statuses
    BY DEF Statuses
  <2>4. /\ [x EXCEPT !.status = "cancelled"] \in Row
        /\ [x EXCEPT !.status = "cancelled"].key = x.key
        /\ [x EXCEPT !.status = "cancelled"].hash = x.hash
    BY <2>3, MovedRow
  <2>. QED
    BY <2>1, <2>2, <2>4, Zenon
<1>3. /\ DOMAIN rows' = DOMAIN rows /\ rows' = [id \in DOMAIN rows |-> rows'[id]]
      /\ fenced' = fenced \cup {s} /\ lock[s] = Nobody
      /\ UNCHANGED <<sources, queues, lock, caller, answers>>
  BY DEF FenceSubject
<1>4. rows' \in [DOMAIN rows -> Row]
  BY <1>2, <1>3
<1>5. RowsMove
  BY <1>1, <1>2, <1>3, <1>4 DEF RowsMove
<1>. QED
  BY <1>5, RowsMoveKeeps

\* The erasure.
LEMMA EraseKeeps ==
    ASSUME ApiInv, NEW s \in Scopes, EraseSubject(s)
    PROVE  ApiInv'
<1>1. rows \in [DOMAIN rows -> Row] /\ sources \in [DOMAIN sources -> Bodies]
  BY DEF ApiInv, Shapes
<1>2. ASSUME NEW id \in DOMAIN rows
      PROVE  /\ rows'[id] \in Row
             /\ id.scope = s => rows'[id].key = "erased" /\ rows'[id].hash = ""
             /\ id.scope # s => rows'[id] = rows[id]
  <2>1. PICK x \in Row : x = rows[id]
    BY <1>1
  <2>2. CASE id.scope = s
    <3>1. rows'[id] = [x EXCEPT !.status = "cancelled", !.key = "erased", !.hash = ""]
      BY <2>1, <2>2, Zenon DEF EraseSubject
    <3>. QED
      BY <2>2, <3>1, ErasedRow, Zenon
  <2>3. CASE id.scope # s
    BY <1>1, <2>3, Zenon DEF EraseSubject
  <2>. QED
    BY <2>2, <2>3
<1>3. /\ DOMAIN rows' = DOMAIN rows /\ rows' = [id \in DOMAIN rows |-> rows'[id]]
      /\ s \in fenced /\ fenced' = fenced
      /\ UNCHANGED <<queues, lock, caller, answers>>
  BY DEF EraseSubject
<1>4. /\ DOMAIN sources' = {id \in DOMAIN sources : ~(id \in DOMAIN rows /\ id.scope = s)}
      /\ \A id \in DOMAIN sources' : sources'[id] = sources[id]
      /\ sources' = [id \in DOMAIN sources' |-> sources'[id]]
  BY DEF EraseSubject, Without
<1>5. rows' \in [DOMAIN rows -> Row] /\ sources' \in [DOMAIN sources' -> Bodies]
  BY <1>1, <1>2, <1>3, <1>4
<1>6. RowsMove
  BY <1>2, <1>3, <1>4, <1>5 DEF RowsMove
<1>. QED
  BY <1>6, RowsMoveKeeps

\* The commit: a row, its source and its queue at once.  Nobody else knows
\* of the job yet, and nobody was answered with it.
LEMMA CommitKeeps ==
    ASSUME ApiInv, NEW c \in Callers, NEW ack \in BOOLEAN, CommitSubmission(c, ack)
    PROVE  ApiInv'
<1>1. /\ caller[c].at = "insert" /\ caller[c].req \in Submissions
      /\ caller[c].req.scope \notin fenced
  BY CallerAtWork DEF CommitSubmission, ApiInv, LocksHeld
<1>2. PICK r \in Submissions : r = caller[c].req
  BY <1>1
<1>3. PICK k \in Ids : k = jobID(r)
  BY DEF Ids
<1>4. /\ k.scope = r.scope /\ k.operation = r.operation /\ k.key = r.key
      /\ r.body # "" /\ r.body \in Bodies /\ r.scope \notin fenced
  BY <1>1, <1>2, <1>3, KeyAssumption DEF jobID, Bodies
<1>5. PICK x \in Row : rows' = With(rows, k, x) /\ x.key = r.key /\ x.hash = r.body
  <2>1. PICK now \in Instants[k] : rows' = With(rows, k, NewRow(r, now))
    BY <1>2, <1>3, Zenon DEF CommitSubmission
  <2>2. now \in Nat
    BY ListAssumption DEF Ids
  <2>3. PICK y : y = [status |-> "queued", key |-> r.key, hash |-> r.body, created |-> now]
    OBVIOUS
  <2>4. y \in Row /\ y.key = r.key /\ y.hash = r.body
    BY <2>2, <2>3 DEF Row, Statuses, Keys, Bodies
  <2>. QED
    BY <2>1, <2>3, <2>4, Zenon DEF NewRow, fingerprint
<1>6. /\ k \notin DOMAIN rows
      /\ rows' = With(rows, k, x)
      /\ sources' = IF r.operation = "import" THEN With(sources, k, r.body) ELSE sources
      /\ queues' = queues \cup {r.scope.workspace}
      /\ lock' = Released(c) /\ fenced' = fenced
      /\ caller' = [caller EXCEPT ![c] = NoCall]
      /\ answers' = answers \/ answers' = answers \cup {[id |-> k, body |-> r.body]}
  BY <1>2, <1>3, <1>5 DEF CommitSubmission, Answer
<1>7. /\ DOMAIN rows' = DOMAIN rows \cup {k} /\ rows'[k] = x
      /\ \A id \in DOMAIN rows : rows'[id] = rows[id]
      /\ rows' = [id \in DOMAIN rows' |-> rows'[id]]
  BY <1>6 DEF With
<1>8. k \notin DOMAIN sources
  BY <1>6 DEF ApiInv, SubmittedWhole
<1>9. /\ DOMAIN sources' = DOMAIN sources \cup (IF r.operation = "import" THEN {k} ELSE {})
      /\ k \in DOMAIN sources' => sources'[k] = r.body
      /\ \A id \in DOMAIN sources : sources'[id] = sources[id]
      /\ sources' \in [DOMAIN sources' -> Bodies]
  <2>1. sources \in [DOMAIN sources -> Bodies]
    BY DEF ApiInv, Shapes
  <2>2. CASE r.operation = "import"
    BY <1>4, <1>6, <1>8, <2>1, <2>2 DEF With
  <2>3. CASE r.operation # "import"
    BY <1>6, <1>8, <2>1, <2>3
  <2>. QED
    BY <2>2, <2>3
<1>10. /\ NoCall.at = "idle" /\ \A v \in Callers : caller'[v] = caller[v] \/ caller'[v] = NoCall
  BY <1>6 DEF ApiInv, Shapes, NoCall
<1>11. lock' \in [Scopes -> Callers \cup {Nobody}] /\ LocksHeld'
  BY <1>6, <1>10, TransactionEnds
<1>12. PICK new \in [id : Ids, body : Bodies] :
          new = [id |-> k, body |-> r.body] /\ new.id = k /\ new.body = r.body
  <2>1. PICK y : y = [id |-> k, body |-> r.body]
    OBVIOUS
  <2>2. y \in [id : Ids, body : Bodies] /\ y.id = k /\ y.body = r.body
    BY <1>4, <2>1
  <2>. QED
    BY <2>1, <2>2, Zenon
<1>13. Shapes'
  <2>0. IsFiniteSet(DOMAIN rows')
    BY <1>7, FS_AddElement DEF ApiInv, Shapes
  <2>1. DOMAIN rows' \subseteq Ids /\ rows' \in [DOMAIN rows' -> Row]
    BY <1>7 DEF ApiInv, Shapes
  <2>2. caller' \in [Callers -> {NoCall} \cup Calls \cup Compares]
    BY <1>6 DEF ApiInv, Shapes
  <2>3. answers' \subseteq [id : Ids, body : Bodies]
    BY <1>6, <1>12 DEF ApiInv, Shapes
  <2>. QED
    BY <1>9, <1>11, <2>0, <2>1, <2>2, <2>3 DEF Shapes
<1>14. RowsKeyed'
  <2>1. ASSUME NEW id \in DOMAIN rows
        PROVE  \/ rows'[id].key = id.key /\ rows'[id].hash # ""
               \/ rows'[id].key = "erased" /\ rows'[id].hash = "" /\ id.scope \in fenced'
    BY <1>6, <1>7 DEF ApiInv, RowsKeyed
  <2>2. rows'[k].key = k.key /\ rows'[k].hash # ""
    BY <1>4, <1>5, <1>7
  <2>. QED
    BY <1>7, <2>1, <2>2 DEF RowsKeyed
<1>15. CallersKnow'
  <2>1. CallersKnow
    BY DEF ApiInv
  <2>2. ASSUME NEW v \in Callers, caller'[v].at \in {"compare", "replay"}
        PROVE  caller'[v] = caller[v]
    BY <1>10, <2>2
  <2>3. ASSUME NEW v \in Callers, caller'[v].at = "compare"
        PROVE  caller'[v].id = jobID(caller'[v].req) /\ caller'[v].id \in DOMAIN rows'
    BY <1>7, <2>1, <2>2, <2>3 DEF CallersKnow
  <2>4. ASSUME NEW v \in Callers, caller'[v].at = "replay"
        PROVE  /\ jobID(caller'[v].req) \in DOMAIN rows'
               /\ rows'[jobID(caller'[v].req)].hash \in {caller'[v].req.body, ""}
    <3>1. /\ caller'[v] = caller[v] /\ jobID(caller[v].req) \in DOMAIN rows
          /\ rows[jobID(caller[v].req)].hash \in {caller[v].req.body, ""}
      BY <2>1, <2>2, <2>4 DEF CallersKnow
    <3>2. /\ jobID(caller[v].req) \in DOMAIN rows'
          /\ rows'[jobID(caller[v].req)] = rows[jobID(caller[v].req)]
      BY <1>7, <3>1
    <3>. QED
      BY <3>1, <3>2
  <2>. QED
    BY <2>3, <2>4 DEF CallersKnow
<1>16. AnswersAgree'
  <2>1. ASSUME NEW a \in answers
        PROVE  a.id \in DOMAIN rows /\ a.id # k /\ rows'[a.id] = rows[a.id]
    <3>1. a.id \in DOMAIN rows
      BY DEF ApiInv, AnswersAgree
    <3>. QED
      BY <1>6, <1>7, <3>1
  <2>2. \A a \in answers' : a \in answers \/ a = new
    BY <1>6, <1>12
  <2>3. ASSUME NEW a \in answers'
        PROVE  /\ a.id \in DOMAIN rows' /\ rows'[a.id].hash \in {a.body, ""}
               /\ rows'[a.id].hash = "" => a.id.scope \in fenced'
    <3>1. CASE a \in answers
      <4>1. /\ rows[a.id].hash \in {a.body, ""}
            /\ rows[a.id].hash = "" => a.id.scope \in fenced
        BY <3>1 DEF ApiInv, AnswersAgree
      <4>. QED
        BY <1>6, <1>7, <2>1, <3>1, <4>1
    <3>2. CASE a = new
      BY <1>4, <1>5, <1>7, <1>12, <3>2
    <3>. QED
      BY <2>2, <3>1, <3>2
  <2>4. ASSUME NEW a \in answers', NEW b \in answers', a.id = b.id PROVE a.body = b.body
    BY <1>12, <2>1, <2>2, <2>4 DEF ApiInv, AnswersAgree
  <2>. QED
    BY <2>3, <2>4 DEF AnswersAgree
<1>17. SubmittedWhole'
  <2>1. ASSUME NEW id \in DOMAIN rows'
        PROVE  /\ id.scope.workspace \in queues'
               /\ id.operation = "import" /\ rows'[id].hash # "" =>
                     id \in DOMAIN sources' /\ sources'[id] = rows'[id].hash
    <3>1. CASE id = k
      BY <3>1, <1>4, <1>5, <1>6, <1>7, <1>9
    <3>2. CASE id # k
      BY <3>2, <1>6, <1>7, <1>9 DEF ApiInv, SubmittedWhole
    <3>. QED
      BY <3>1, <3>2
  <2>2. ASSUME NEW id \in DOMAIN sources'
        PROVE  id \in DOMAIN rows' /\ rows'[id].hash = sources'[id]
    BY <1>5, <1>7, <1>9 DEF ApiInv, SubmittedWhole
  <2>. QED
    BY <2>1, <2>2 DEF SubmittedWhole
<1>. QED
  BY <1>11, <1>13, <1>14, <1>15, <1>16, <1>17 DEF ApiInv

-----------------------------------------------------------------------------
(***************************************************************************)
(* Theorems.                                                               *)
(***************************************************************************)

\* The empty tables.
LEMMA ApiInitInv == ApiInit => ApiInv
<1> SUFFICES ASSUME ApiInit PROVE ApiInv
  OBVIOUS
<1>1. rows = << >> /\ sources = << >> /\ DOMAIN rows = {} /\ DOMAIN sources = {}
  BY DEF ApiInit
<1>2. /\ \A c \in Callers : caller[c].at = "idle"
      /\ \A s \in Scopes : lock[s] = Nobody
      /\ answers = {}
  BY DEF ApiInit, NoCall
<1>3. rows \in [DOMAIN rows -> Row] /\ sources \in [DOMAIN sources -> Bodies]
  BY <1>1
<1>4. Shapes
  BY <1>1, <1>3, FS_EmptySet DEF ApiInit, Shapes
<1>5. LocksHeld /\ RowsKeyed /\ CallersKnow
  BY <1>1, <1>2 DEF LocksHeld, RowsKeyed, CallersKnow
<1>6. AnswersAgree /\ SubmittedWhole
  BY <1>1, <1>2 DEF AnswersAgree, SubmittedWhole
<1>. QED
  BY <1>4, <1>5, <1>6 DEF ApiInv

\* Every step keeps the invariant.
LEMMA ApiStepInv == ApiInv /\ [ApiNext]_apivars => ApiInv'
<1> SUFFICES ASSUME ApiInv, [ApiNext]_apivars PROVE ApiInv'
  OBVIOUS
<1>1. ASSUME NEW id \in DOMAIN rows, NEW q \in CancelRequests, CancelJob(q.access, id)
      PROVE  ApiInv'
  BY <1>1, StatusKeeps DEF CancelJob, Statuses
<1>2. ASSUME NEW id \in DOMAIN rows, NEW status \in {"queued", "running", "completed"},
             WorkerMoves(id, status)
      PROVE  ApiInv'
  BY <1>2, StatusKeeps DEF WorkerMoves, Statuses
<1>3. ASSUME UNCHANGED apivars PROVE ApiInv'
  <2>1. UNCHANGED <<rows, sources, queues, fenced, lock, caller, answers>>
    BY <1>3 DEF apivars, table
  <2>2. RowsMove
    BY <2>1 DEF RowsMove, ApiInv, Shapes
  <2>. QED
    BY <2>2, RowsMoveKeeps
<1>. QED
  BY <1>1, <1>2, <1>3, BeginKeeps, LookupKeeps, CommitKeeps, ConflictKeeps,
     LookupOutsideKeeps, CompareKeeps, AbandonKeeps, FenceKeeps, EraseKeeps
  DEF ApiNext

\* What the theorems below rest on.
LEMMA ApiInvariant == ApiSpec => []ApiInv
BY ApiInitInv, ApiStepInv, PTL DEF ApiSpec

\* Rows come from submissions, are in a known status, and a fence row's lock
\* is held only by a submission of that account that is inside its
\* transaction, for any number of callers and accounts.
THEOREM ApiTypeCorrect == ApiSpec => []ApiTypeOK
<1>1. ApiInv => ApiTypeOK
  BY DEF ApiInv, Shapes, LocksHeld, ApiTypeOK, Row, Statuses, Ids
<1>. QED
  BY <1>1, ApiInvariant, PTL

\* Idempotency: callers that were answered with one job sent one and the
\* same request, however their lookups, commits, lost acknowledgements and
\* the erasure of the account interleave (SubmitImport, SubmitExport,
\* lookupIdempotent, requestHash).
THEOREM AnswersAlwaysAgree == ApiSpec => []AnswersAgree
<1>1. ApiInv => AnswersAgree
  BY DEF ApiInv
<1>. QED
  BY <1>1, ApiInvariant, PTL

\* A job is visible with its source and its queue or not at all, and keeps
\* its source until it is erased.
THEOREM SubmissionsAreWhole == ApiSpec => []SubmittedWhole
<1>1. ApiInv => SubmittedWhole
  BY DEF ApiInv
<1>. QED
  BY <1>1, ApiInvariant, PTL

-----------------------------------------------------------------------------
(***************************************************************************)
(* Who is answered.  The loops over grants and data policies are folds of  *)
(* lists; what they find is shown by induction on the length of the list:  *)
(* a set of lengths that are counterexamples has no least element.         *)
(***************************************************************************)

\* A set of naturals has a least element.
LEMMA Least ==
    ASSUME NEW T, T \subseteq Nat, T # {}
    PROVE  \E n \in T : \A m \in T : n <= m
<1>1. PICK R : R = OpToRel(<, Nat)
  OBVIOUS
<1>2. IsWellFoundedOn(R, Nat)
  BY <1>1, NatLessThanWellFounded
<1>3. PICK n \in T : \A m \in T : <<m, n>> \notin R
  BY <1>2, WFMin, Zenon
<1>4. ASSUME NEW m \in T PROVE n <= m
  <2>1. n \in Nat /\ m \in Nat
    BY <1>3
  <2>2. m < n => <<m, n>> \in R
    BY <1>1, <2>1 DEF OpToRel
  <2>. QED
    BY <1>3, <2>1, <2>2
<1>. QED
  BY <1>3, <1>4

\* The last position of a set of positions.
LEMMA LastPosition ==
    ASSUME NEW n \in Nat, NEW s \in SUBSET (1 .. n), s # {}
    PROVE  Max(s) \in s /\ \A y \in s : y <= Max(s)
<1> DEFINE T == {k \in Nat : \A y \in s : y <= k}
<1>1. n \in T
  OBVIOUS
<1>2. PICK k \in T : \A m \in T : k <= m
  BY <1>1, Least
<1>3. k \in s
  <2>1. SUFFICES ASSUME k \notin s PROVE FALSE
    OBVIOUS
  <2>2. \A y \in s : y <= k - 1
    BY <1>2, <2>1
  <2>3. k - 1 \in Nat
    <3>1. PICK y \in s : y \in 1 .. n
      OBVIOUS
    <3>2. k \in Nat /\ y <= k - 1
      BY <1>2, <2>2
    <3>. QED
      BY <3>1, <3>2
  <2>4. k - 1 \in T
    BY <2>2, <2>3
  <2>. QED
    BY <1>2, <2>4
<1>4. \E x \in s : \A y \in s : x >= y
  BY <1>2, <1>3
<1>5. Max(s) \in s /\ \A y \in s : Max(s) >= y
  BY <1>4 DEF Max
<1>. QED
  BY <1>5

\* It is the end, where the end is among them.
LEMMA EndIsLast ==
    ASSUME NEW k \in Nat, NEW s \in SUBSET (1 .. k), k \in s
    PROVE  Max(s) = k
<1>1. Max(s) \in s /\ \A y \in s : y <= Max(s)
  BY LastPosition
<1>2. Max(s) \in 1 .. k /\ k <= Max(s)
  BY <1>1
<1>. QED
  BY <1>2

\* What a loop over n elements does: f[s] is its state after the elements at
\* the positions s, from the state b on, with the turns of its body.
Loops(f, n, b, turn) ==
    f = [s \in SUBSET (1 .. n) |->
           IF s = {} THEN b ELSE LET x == Max(s) IN turn[<<f[s \ {x}], x>>]]

\* There is such a function.
LEMMA LoopExists ==
    ASSUME NEW n \in Nat, NEW V, NEW b \in V, NEW turn \in [V \X (1 .. n) -> V]
    PROVE  \E f \in [SUBSET (1 .. n) -> V] : Loops(f, n, b, turn)
<1> DEFINE T == {k \in 0 .. n : ~ \E f \in [SUBSET (1 .. k) -> V] : Loops(f, k, b, turn)}
<1>1. SUFFICES ASSUME T # {} PROVE FALSE
  <2>1. n \in 0 .. n
    OBVIOUS
  <2>. QED
    BY <2>1, Zenon
<1>2. PICK k \in T : \A m \in T : k <= m
  <2>1. T \subseteq Nat
    OBVIOUS
  <2>. QED
    BY <1>1, <2>1, Least, Zenon
<1>3. k \in 0 .. n /\ ~ \E f \in [SUBSET (1 .. k) -> V] : Loops(f, k, b, turn)
  BY <1>2
<1>4. CASE k = 0
  <2>1. PICK f : f = [s \in SUBSET (1 .. 0) |-> b]
    OBVIOUS
  <2>2. SUBSET (1 .. 0) = {{}}
    OBVIOUS
  <2>3. f \in [SUBSET (1 .. 0) -> V] /\ Loops(f, 0, b, turn)
    BY <2>1, <2>2 DEF Loops
  <2>. QED
    BY <1>3, <1>4, <2>3
<1>5. CASE k # 0
  <2>1. k \in 1 .. n /\ k - 1 \in 0 .. n /\ k - 1 \in Nat
    BY <1>3, <1>5
  <2>2. k - 1 \notin T
    <3>1. ~(k <= k - 1)
      BY <2>1
    <3>. QED
      BY <1>2, <3>1, Zenon
  <2>3. PICK f \in [SUBSET (1 .. (k - 1)) -> V] : Loops(f, k - 1, b, turn)
    BY <2>1, <2>2, Zenon
  <2>4. PICK g : g = [s \in SUBSET (1 .. k) |->
                        IF k \in s THEN turn[<<f[s \ {k}], k>>] ELSE f[s]]
    OBVIOUS
  <2>5. \A s \in SUBSET (1 .. k) : /\ s \ {k} \in SUBSET (1 .. (k - 1))
                                   /\ k \notin s => s \in SUBSET (1 .. (k - 1))
    BY <2>1
  <2>6. g \in [SUBSET (1 .. k) -> V]
    BY <2>1, <2>3, <2>4, <2>5
  <2>7. ASSUME NEW s \in SUBSET (1 .. k)
        PROVE  g[s] = IF s = {} THEN b ELSE LET x == Max(s) IN turn[<<g[s \ {x}], x>>]
    <3>1. CASE k \in s
      <4>1. Max(s) = k
        BY <2>1, <3>1, EndIsLast
      <4>2. g[s \ {k}] = f[s \ {k}] /\ g[s] = turn[<<f[s \ {k}], k>>]
        BY <2>4, <2>5, <3>1
      <4>. QED
        BY <3>1, <4>1, <4>2
    <3>2. CASE k \notin s
      <4>1. s \in SUBSET (1 .. (k - 1)) /\ g[s] = f[s]
        BY <2>4, <2>5, <3>2
      <4>2. f[s] = IF s = {} THEN b ELSE LET x == Max(s) IN turn[<<f[s \ {x}], x>>]
        BY <2>3, <4>1 DEF Loops
      <4>3. \A x : g[s \ {x}] = f[s \ {x}]
        <5>1. \A x : /\ s \ {x} \in SUBSET (1 .. (k - 1)) /\ s \ {x} \in SUBSET (1 .. k)
                     /\ k \notin s \ {x}
          BY <2>1, <3>2, <4>1
        <5>. QED
          BY <2>4, <5>1
      <4>. QED
        BY <4>1, <4>2, <4>3
    <3>. QED
      BY <3>1, <3>2
  <2>8. Loops(g, k, b, turn)
    BY <2>6, <2>7 DEF Loops
  <2>. QED
    BY <1>3, <2>6, <2>8
<1>. QED
  BY <1>4, <1>5

\* The body of the loop over the grants.
GrantTurn(found, g, perm) ==
    IF /\ found # "deny" /\ SamePermission(g, perm)
       /\ g.effect \in {"deny", "allow"}
    THEN g.effect ELSE found

GrantLoop(f, grants, perm) ==
    f = [s \in SUBSET DOMAIN grants |->
           IF s = {} THEN "none"
           ELSE LET x == Max(s) IN GrantTurn(f[s \ {x}], grants[x], perm)]

\* There is one: the operator that hasExactFunctionGrant folds is a function
\* of its verdicts and the positions.
LEMMA GrantLoopExists ==
    ASSUME NEW n \in Nat, NEW grants, DOMAIN grants = 1 .. n, NEW perm
    PROVE  \E f : GrantLoop(f, grants, perm)
<1>1. PICK V : V = {"none", "allow", "deny"}
  OBVIOUS
<1>2. \A found \in V : \A g : GrantTurn(found, g, perm) \in V
  BY <1>1 DEF GrantTurn
<1>3. PICK turn : turn = [p \in V \X (1 .. n) |-> GrantTurn(p[1], grants[p[2]], perm)]
  OBVIOUS
<1>4. turn \in [V \X (1 .. n) -> V]
  BY <1>2, <1>3
<1>5. \A found \in V, x \in 1 .. n : turn[<<found, x>>] = GrantTurn(found, grants[x], perm)
  BY <1>3
<1>6. PICK f \in [SUBSET (1 .. n) -> V] : Loops(f, n, "none", turn)
  <2>1. "none" \in V
    BY <1>1
  <2>. QED
    BY <1>4, <2>1, LoopExists
<1>7. ASSUME NEW s \in SUBSET (1 .. n)
      PROVE  f[s] = IF s = {} THEN "none"
                    ELSE LET x == Max(s) IN GrantTurn(f[s \ {x}], grants[x], perm)
  <2>1. f[s] = IF s = {} THEN "none" ELSE LET x == Max(s) IN turn[<<f[s \ {x}], x>>]
    BY <1>6 DEF Loops
  <2>2. CASE s = {}
    BY <2>1, <2>2
  <2>3. CASE s # {}
    <3>1. PICK x \in 1 .. n : x = Max(s)
      BY <2>3, LastPosition
    <3>2. f[s \ {x}] \in V
      BY <1>6
    <3>3. f[s] = turn[<<f[s \ {x}], x>>]
      BY <2>1, <2>3, <3>1
    <3>4. f[s] = GrantTurn(f[s \ {x}], grants[x], perm)
      BY <1>5, <3>2, <3>3
    <3>. QED
      BY <2>3, <3>1, <3>4, Zenon
  <2>. QED
    BY <2>2, <2>3
<1>8. GrantLoop(f, grants, perm)
  <2>1. f = [s \in SUBSET (1 .. n) |-> f[s]]
    BY <1>6
  <2>. QED
    BY <1>7, <2>1 DEF GrantLoop
<1>. QED
  BY <1>8

\* One element after the other.
LEMMA GrantLoopTurns ==
    ASSUME NEW n \in Nat, NEW grants, DOMAIN grants = 1 .. n, NEW perm, NEW f,
           GrantLoop(f, grants, perm)
    PROVE  /\ f[1 .. 0] = "none"
           /\ \A k \in 1 .. n :
                 f[1 .. k] = GrantTurn(f[1 .. (k - 1)], grants[k], perm)
<1>1. f[1 .. 0] = "none"
  BY DEF GrantLoop
<1>2. ASSUME NEW k \in 1 .. n
      PROVE  f[1 .. k] = GrantTurn(f[1 .. (k - 1)], grants[k], perm)
  <2>1. 1 .. k \in SUBSET (1 .. n) /\ 1 .. k # {} /\ k \in 1 .. k
    <3>1. k \in 1 .. k /\ \A x \in 1 .. k : x \in 1 .. n
      OBVIOUS
    <3>. QED
      BY <3>1
  <2>2. Max(1 .. k) = k
    BY <2>1, EndIsLast
  <2>3. (1 .. k) \ {k} = 1 .. (k - 1)
    OBVIOUS
  <2>4. f[1 .. k] = LET x == Max(1 .. k) IN GrantTurn(f[(1 .. k) \ {x}], grants[x], perm)
    BY <2>1 DEF GrantLoop
  <2>. QED
    BY <2>2, <2>3, <2>4
<1>. QED
  BY <1>1, <1>2

\* What is among the first k elements, and what the loop has found in them.
DeniedIn(grants, perm, k) ==
    \E i \in 1 .. k : SamePermission(grants[i], perm) /\ grants[i].effect = "deny"

AllowedIn(grants, perm, k) ==
    \E i \in 1 .. k : SamePermission(grants[i], perm) /\ grants[i].effect = "allow"

GrantVerdict(grants, perm, k) ==
    IF DeniedIn(grants, perm, k) THEN "deny"
    ELSE IF AllowedIn(grants, perm, k) THEN "allow" ELSE "none"

\* It finds that.
LEMMA GrantLoopFinds ==
    ASSUME NEW n \in Nat, NEW grants, DOMAIN grants = 1 .. n, NEW perm, NEW f,
           GrantLoop(f, grants, perm)
    PROVE  f[1 .. n] = GrantVerdict(grants, perm, n)
<1> DEFINE T == {k \in 0 .. n : f[1 .. k] # GrantVerdict(grants, perm, k)}
<1>1. SUFFICES ASSUME T # {} PROVE FALSE
  <2>1. n \in 0 .. n
    OBVIOUS
  <2>. QED
    BY <2>1, Zenon
<1>2. PICK k \in T : \A m \in T : k <= m
  <2>1. T \subseteq Nat
    OBVIOUS
  <2>. QED
    BY <1>1, <2>1, Least, Zenon
<1>3. k \in 0 .. n /\ f[1 .. k] # GrantVerdict(grants, perm, k)
  BY <1>2
<1>4. CASE k = 0
  <2>1. f[1 .. 0] = "none"
    BY GrantLoopTurns
  <2>2. GrantVerdict(grants, perm, 0) = "none"
    BY DEF GrantVerdict, DeniedIn, AllowedIn
  <2>. QED
    BY <1>3, <1>4, <2>1, <2>2
<1>5. CASE k # 0
  <2>1. k \in 1 .. n /\ k - 1 \in 0 .. n /\ ~(k <= k - 1)
    BY <1>3, <1>5
  <2>2. k - 1 \notin T
    BY <1>2, <2>1, Zenon
  <2>3. f[1 .. (k - 1)] = GrantVerdict(grants, perm, k - 1)
    BY <2>1, <2>2, Zenon
  <2>4. f[1 .. k] = GrantTurn(GrantVerdict(grants, perm, k - 1), grants[k], perm)
    BY <2>1, <2>3, GrantLoopTurns
  <2>5. \A i : i \in 1 .. k <=> i \in 1 .. (k - 1) \/ i = k
    BY <2>1
  <2>6. GrantTurn(GrantVerdict(grants, perm, k - 1), grants[k], perm)
        = GrantVerdict(grants, perm, k)
    <3>1. DeniedIn(grants, perm, k) <=>
             \/ DeniedIn(grants, perm, k - 1)
             \/ SamePermission(grants[k], perm) /\ grants[k].effect = "deny"
      BY <2>5 DEF DeniedIn
    <3>2. AllowedIn(grants, perm, k) <=>
             \/ AllowedIn(grants, perm, k - 1)
             \/ SamePermission(grants[k], perm) /\ grants[k].effect = "allow"
      BY <2>5 DEF AllowedIn
    <3>3. CASE DeniedIn(grants, perm, k - 1)
      BY <3>1, <3>3 DEF GrantTurn, GrantVerdict
    <3>4. CASE ~DeniedIn(grants, perm, k - 1) /\ ~SamePermission(grants[k], perm)
      BY <3>1, <3>2, <3>4 DEF GrantTurn, GrantVerdict
    <3>5. CASE ~DeniedIn(grants, perm, k - 1) /\ SamePermission(grants[k], perm)
      <4>1. GrantVerdict(grants, perm, k - 1) =
               IF AllowedIn(grants, perm, k - 1) THEN "allow" ELSE "none"
        BY <3>5 DEF GrantVerdict
      <4>. QED
        BY <3>1, <3>2, <3>5, <4>1 DEF GrantTurn, GrantVerdict
    <3>. QED
      BY <3>3, <3>4, <3>5
  <2>. QED
    BY <1>3, <2>4, <2>6
<1>. QED
  BY <1>4, <1>5

\* A permission is granted when it is allowed somewhere and denied nowhere.
LEMMA GrantsDecide ==
    ASSUME NEW n \in Nat, NEW grants, DOMAIN grants = 1 .. n, NEW perm
    PROVE  hasExactFunctionGrant(grants, perm) <=>
              AllowedIn(grants, perm, n) /\ ~DeniedIn(grants, perm, n)
<1>1. PICK e : GrantLoop(e, grants, perm)
  BY GrantLoopExists
<1>2. PICK f : f = CHOOSE h : GrantLoop(h, grants, perm)
  OBVIOUS
<1>3. GrantLoop(f, grants, perm)
  BY <1>1, <1>2, Zenon
<1>4. hasExactFunctionGrant(grants, perm) <=> f[DOMAIN grants] = "allow"
  BY <1>2, Zenon DEF hasExactFunctionGrant, FoldLeft, MapThenFoldSet, GrantLoop, GrantTurn
<1>5. f[1 .. n] = GrantVerdict(grants, perm, n)
  BY <1>3, GrantLoopFinds
<1>. QED
  BY <1>4, <1>5 DEF GrantVerdict

\* The body of the loop over the data policies.
PolicyTurn(found, policy, perm) ==
    IF found # "refused" /\ SamePermission(policy, perm)
    THEN IF OwnerPolicy(policy) THEN "allowed" ELSE "refused"
    ELSE found

PolicyLoop(f, policies, perm) ==
    f = [s \in SUBSET DOMAIN policies |->
           IF s = {} THEN "none"
           ELSE LET x == Max(s) IN PolicyTurn(f[s \ {x}], policies[x], perm)]

\* There is one: the operator that matchedAllow folds is a function
\* of its verdicts and the positions.
LEMMA PolicyLoopExists ==
    ASSUME NEW n \in Nat, NEW policies, DOMAIN policies = 1 .. n, NEW perm
    PROVE  \E f : PolicyLoop(f, policies, perm)
<1>1. PICK V : V = {"none", "allowed", "refused"}
  OBVIOUS
<1>2. \A found \in V : \A g : PolicyTurn(found, g, perm) \in V
  BY <1>1 DEF PolicyTurn
<1>3. PICK turn : turn = [p \in V \X (1 .. n) |-> PolicyTurn(p[1], policies[p[2]], perm)]
  OBVIOUS
<1>4. turn \in [V \X (1 .. n) -> V]
  BY <1>2, <1>3
<1>5. \A found \in V, x \in 1 .. n : turn[<<found, x>>] = PolicyTurn(found, policies[x], perm)
  BY <1>3
<1>6. PICK f \in [SUBSET (1 .. n) -> V] : Loops(f, n, "none", turn)
  <2>1. "none" \in V
    BY <1>1
  <2>. QED
    BY <1>4, <2>1, LoopExists
<1>7. ASSUME NEW s \in SUBSET (1 .. n)
      PROVE  f[s] = IF s = {} THEN "none"
                    ELSE LET x == Max(s) IN PolicyTurn(f[s \ {x}], policies[x], perm)
  <2>1. f[s] = IF s = {} THEN "none" ELSE LET x == Max(s) IN turn[<<f[s \ {x}], x>>]
    BY <1>6 DEF Loops
  <2>2. CASE s = {}
    BY <2>1, <2>2
  <2>3. CASE s # {}
    <3>1. PICK x \in 1 .. n : x = Max(s)
      BY <2>3, LastPosition
    <3>2. f[s \ {x}] \in V
      BY <1>6
    <3>3. f[s] = turn[<<f[s \ {x}], x>>]
      BY <2>1, <2>3, <3>1
    <3>4. f[s] = PolicyTurn(f[s \ {x}], policies[x], perm)
      BY <1>5, <3>2, <3>3
    <3>. QED
      BY <2>3, <3>1, <3>4, Zenon
  <2>. QED
    BY <2>2, <2>3
<1>8. PolicyLoop(f, policies, perm)
  <2>1. f = [s \in SUBSET (1 .. n) |-> f[s]]
    BY <1>6
  <2>. QED
    BY <1>7, <2>1 DEF PolicyLoop
<1>. QED
  BY <1>8

\* One element after the other.
LEMMA PolicyLoopTurns ==
    ASSUME NEW n \in Nat, NEW policies, DOMAIN policies = 1 .. n, NEW perm, NEW f,
           PolicyLoop(f, policies, perm)
    PROVE  /\ f[1 .. 0] = "none"
           /\ \A k \in 1 .. n :
                 f[1 .. k] = PolicyTurn(f[1 .. (k - 1)], policies[k], perm)
<1>1. f[1 .. 0] = "none"
  BY DEF PolicyLoop
<1>2. ASSUME NEW k \in 1 .. n
      PROVE  f[1 .. k] = PolicyTurn(f[1 .. (k - 1)], policies[k], perm)
  <2>1. 1 .. k \in SUBSET (1 .. n) /\ 1 .. k # {} /\ k \in 1 .. k
    <3>1. k \in 1 .. k /\ \A x \in 1 .. k : x \in 1 .. n
      OBVIOUS
    <3>. QED
      BY <3>1
  <2>2. Max(1 .. k) = k
    BY <2>1, EndIsLast
  <2>3. (1 .. k) \ {k} = 1 .. (k - 1)
    OBVIOUS
  <2>4. f[1 .. k] = LET x == Max(1 .. k) IN PolicyTurn(f[(1 .. k) \ {x}], policies[x], perm)
    BY <2>1 DEF PolicyLoop
  <2>. QED
    BY <2>2, <2>3, <2>4
<1>. QED
  BY <1>1, <1>2

\* What is among the first k elements, and what the loop has found in them.
RefusedIn(policies, perm, k) ==
    \E i \in 1 .. k : SamePermission(policies[i], perm) /\ ~OwnerPolicy(policies[i])

MatchedIn(policies, perm, k) ==
    \E i \in 1 .. k : SamePermission(policies[i], perm)

PolicyVerdict(policies, perm, k) ==
    IF RefusedIn(policies, perm, k) THEN "refused"
    ELSE IF MatchedIn(policies, perm, k) THEN "allowed" ELSE "none"

\* It finds that.
LEMMA PolicyLoopFinds ==
    ASSUME NEW n \in Nat, NEW policies, DOMAIN policies = 1 .. n, NEW perm, NEW f,
           PolicyLoop(f, policies, perm)
    PROVE  f[1 .. n] = PolicyVerdict(policies, perm, n)
<1> DEFINE T == {k \in 0 .. n : f[1 .. k] # PolicyVerdict(policies, perm, k)}
<1>1. SUFFICES ASSUME T # {} PROVE FALSE
  <2>1. n \in 0 .. n
    OBVIOUS
  <2>. QED
    BY <2>1, Zenon
<1>2. PICK k \in T : \A m \in T : k <= m
  <2>1. T \subseteq Nat
    OBVIOUS
  <2>. QED
    BY <1>1, <2>1, Least, Zenon
<1>3. k \in 0 .. n /\ f[1 .. k] # PolicyVerdict(policies, perm, k)
  BY <1>2
<1>4. CASE k = 0
  <2>1. f[1 .. 0] = "none"
    BY PolicyLoopTurns
  <2>2. PolicyVerdict(policies, perm, 0) = "none"
    BY DEF PolicyVerdict, RefusedIn, MatchedIn
  <2>. QED
    BY <1>3, <1>4, <2>1, <2>2
<1>5. CASE k # 0
  <2>1. k \in 1 .. n /\ k - 1 \in 0 .. n /\ ~(k <= k - 1)
    BY <1>3, <1>5
  <2>2. k - 1 \notin T
    BY <1>2, <2>1, Zenon
  <2>3. f[1 .. (k - 1)] = PolicyVerdict(policies, perm, k - 1)
    BY <2>1, <2>2, Zenon
  <2>4. f[1 .. k] = PolicyTurn(PolicyVerdict(policies, perm, k - 1), policies[k], perm)
    BY <2>1, <2>3, PolicyLoopTurns
  <2>5. \A i : i \in 1 .. k <=> i \in 1 .. (k - 1) \/ i = k
    BY <2>1
  <2>6. PolicyTurn(PolicyVerdict(policies, perm, k - 1), policies[k], perm)
        = PolicyVerdict(policies, perm, k)
    <3>1. RefusedIn(policies, perm, k) <=>
             \/ RefusedIn(policies, perm, k - 1)
             \/ SamePermission(policies[k], perm) /\ ~OwnerPolicy(policies[k])
      BY <2>5 DEF RefusedIn
    <3>2. MatchedIn(policies, perm, k) <=>
             MatchedIn(policies, perm, k - 1) \/ SamePermission(policies[k], perm)
      BY <2>5 DEF MatchedIn
    <3>3. CASE RefusedIn(policies, perm, k - 1)
      BY <3>1, <3>3 DEF PolicyTurn, PolicyVerdict
    <3>4. CASE ~RefusedIn(policies, perm, k - 1) /\ ~SamePermission(policies[k], perm)
      BY <3>1, <3>2, <3>4 DEF PolicyTurn, PolicyVerdict
    <3>5. CASE ~RefusedIn(policies, perm, k - 1) /\ SamePermission(policies[k], perm)
      <4>1. PolicyVerdict(policies, perm, k - 1) =
               IF MatchedIn(policies, perm, k - 1) THEN "allowed" ELSE "none"
        BY <3>5 DEF PolicyVerdict
      <4>. QED
        BY <3>1, <3>2, <3>5, <4>1 DEF PolicyTurn, PolicyVerdict
    <3>. QED
      BY <3>3, <3>4, <3>5
  <2>. QED
    BY <1>3, <2>4, <2>6
<1>. QED
  BY <1>4, <1>5

\* The data policies on a permission decide for its owner when there is one
\* and each is the owner policy.
LEMMA PoliciesDecide ==
    ASSUME NEW n \in Nat, NEW policies, DOMAIN policies = 1 .. n, NEW perm
    PROVE  matchedAllow(policies, perm) <=>
              MatchedIn(policies, perm, n) /\ ~RefusedIn(policies, perm, n)
<1>1. PICK e : PolicyLoop(e, policies, perm)
  BY PolicyLoopExists
<1>2. PICK f : f = CHOOSE h : PolicyLoop(h, policies, perm)
  OBVIOUS
<1>3. PolicyLoop(f, policies, perm)
  BY <1>1, <1>2, Zenon
<1>4. matchedAllow(policies, perm) <=> f[DOMAIN policies] = "allowed"
  BY <1>2, Zenon DEF matchedAllow, FoldLeft, MapThenFoldSet, PolicyLoop, PolicyTurn
<1>5. f[1 .. n] = PolicyVerdict(policies, perm, n)
  BY <1>3, PolicyLoopFinds
<1>. QED
  BY <1>4, <1>5 DEF PolicyVerdict

-----------------------------------------------------------------------------
(***************************************************************************)
(* The decision.                                                           *)
(***************************************************************************)

\* A list has its elements at 1, 2, ..., n.
LEMMA Positions ==
    ASSUME NEW list, list \in Seq(Range(list))
    PROVE  \E n \in Nat : DOMAIN list = 1 .. n
<1>1. Len(list) \in Nat /\ DOMAIN list = 1 .. Len(list)
  BY LenProperties
<1>. QED
  BY <1>1

\* What is granted, by the positions and by the effects.
LEMMA GrantsMean ==
    ASSUME NEW grants, grants \in Seq(Range(grants)), NEW perm,
           NEW effects,
           effects = {g.effect : g \in {x \in Range(grants) : SamePermission(x, perm)}}
    PROVE  hasExactFunctionGrant(grants, perm) <=>
              "allow" \in effects /\ "deny" \notin effects
<1>1. PICK n \in Nat : DOMAIN grants = 1 .. n
  BY Positions
<1>2. \A e : e \in effects <=>
         \E i \in 1 .. n : SamePermission(grants[i], perm) /\ grants[i].effect = e
  BY <1>1 DEF Range
<1>3. hasExactFunctionGrant(grants, perm) <=>
         AllowedIn(grants, perm, n) /\ ~DeniedIn(grants, perm, n)
  BY <1>1, GrantsDecide
<1>. QED
  BY <1>2, <1>3 DEF AllowedIn, DeniedIn

\* What the data policies allow.
LEMMA PoliciesMean ==
    ASSUME NEW policies, policies \in Seq(Range(policies)), NEW perm,
           NEW on, on = {x \in Range(policies) : SamePermission(x, perm)}
    PROVE  matchedAllow(policies, perm) <=>
              on # {} /\ \A policy \in on : OwnerPolicy(policy)
<1>1. PICK n \in Nat : DOMAIN policies = 1 .. n
  BY Positions
<1>2. \A x : x \in on <=> \E i \in 1 .. n : x = policies[i] /\ SamePermission(x, perm)
  BY <1>1 DEF Range
<1>3. matchedAllow(policies, perm) <=>
         MatchedIn(policies, perm, n) /\ ~RefusedIn(policies, perm, n)
  BY <1>1, PoliciesDecide
<1>4. MatchedIn(policies, perm, n) <=> on # {}
  BY <1>2 DEF MatchedIn
<1>5. RefusedIn(policies, perm, n) <=> \E policy \in on : ~OwnerPolicy(policy)
  BY <1>2 DEF RefusedIn
<1>. QED
  BY <1>3, <1>4, <1>5

\* A principal gets the access of its own scope when it is entitled to it,
\* and no access otherwise: the loops of ResolveJobAccess, with their early
\* returns, decide what they are meant to, for bundles of any length.
THEOREM AccessIsEntitlement ==
    ASSUME NEW p \in Principals, NEW s, NEW perm
    PROVE  ResolveJobAccess(p, s, perm) =
              IF Entitled(p, s, perm)
              THEN {[workspace |-> s.workspace, owner |-> s.actor]} ELSE Denied
<1>0. CASE p.bundle = NoBundle \/ s.workspace = "" \/ s.actor = ""
  <2>1. ~Entitled(p, s, perm)
    BY <1>0, Zenon DEF Entitled
  <2>2. ResolveJobAccess(p, s, perm) = Denied
    BY <1>0, Zenon DEF ResolveJobAccess
  <2>. QED
    BY <2>1, <2>2, Zenon
<1> SUFFICES ASSUME p.bundle # NoBundle, s.workspace # "", s.actor # ""
             PROVE  ResolveJobAccess(p, s, perm) =
                       IF Entitled(p, s, perm)
                       THEN {[workspace |-> s.workspace, owner |-> s.actor]} ELSE Denied
  BY <1>0, Zenon
<1>1. PICK b : b = p.bundle
  OBVIOUS
<1>2. /\ b.grants \in Seq(Range(b.grants)) /\ b.policies \in Seq(Range(b.policies))
  BY <1>1, AccessAssumption
<1>3. PICK effects :
         effects = {g.effect : g \in {x \in Range(b.grants) : SamePermission(x, perm)}}
  OBVIOUS
<1>4. PICK on : on = {x \in Range(b.policies) : SamePermission(x, perm)}
  OBVIOUS
<1>5. hasExactFunctionGrant(b.grants, perm) <=> "allow" \in effects /\ "deny" \notin effects
  BY <1>2, <1>3, GrantsMean
<1>6. matchedAllow(b.policies, perm) <=>
         on # {} /\ \A policy \in on : OwnerPolicy(policy)
  BY <1>2, <1>4, PoliciesMean
<1>7. (\E i \in DOMAIN b.guardrails : GuardrailStops(b.guardrails[i], perm)) <=>
      \E g \in Range(b.guardrails) : GuardrailStops(g, perm)
  BY DEF Range
<1>8. Entitled(p, s, perm) <=>
         /\ p.scope = s /\ b.subject = s
         /\ hasExactFunctionGrant(b.grants, perm)
         /\ matchedAllow(b.policies, perm)
         /\ ~ \E i \in DOMAIN b.guardrails : GuardrailStops(b.guardrails[i], perm)
  BY <1>1, <1>3, <1>4, <1>5, <1>6, <1>7, Zenon DEF Entitled
<1>9. ResolveJobAccess(p, s, perm) =
         IF Entitled(p, s, perm)
         THEN {[workspace |-> s.workspace, owner |-> b.subject.actor]} ELSE Denied
  BY <1>1, <1>8, Zenon DEF ResolveJobAccess
<1>10. Entitled(p, s, perm) => b.subject = s
  BY <1>8
<1>. QED
  BY <1>9, <1>10, Zenon

\* What a request reads: the jobs of its scope if it is entitled to them.
LEMMA RequestReads ==
    ASSUME NEW actions, NEW q \in Requests(actions)
    PROVE  /\ q.entitled => q.access # Denied
           /\ ~q.entitled => q.access = Denied
           /\ \A id, operation : jobCandidatePredicate(q.access, operation, id) <=>
                 q.entitled /\ id.scope = q.by /\ operation \in {"", id.operation}
<1>1. PICK p \in Principals, s \in Scopes \cup {x.scope : x \in Principals},
           action \in actions :
         q = [by |-> p.scope,
              access |-> ResolveJobAccess(p, s, Permission(action)),
              entitled |-> Entitled(p, s, Permission(action))]
  BY DEF Requests
<1>2. PICK e : e = Entitled(p, s, Permission(action))
  OBVIOUS
<1>3. PICK a : a = ResolveJobAccess(p, s, Permission(action))
  OBVIOUS
<1>4. PICK g : g = [workspace |-> s.workspace, owner |-> s.actor]
  OBVIOUS
<1>5. a = IF e THEN {g} ELSE Denied
  BY <1>2, <1>3, <1>4, AccessIsEntitlement, Zenon
<1>6. e => p.scope = s
  BY <1>2, Zenon DEF Entitled
<1>7. q.by = p.scope /\ q.access = a /\ q.entitled = e
  <2>1. q = [by |-> p.scope, access |-> a, entitled |-> e]
    BY <1>1, <1>2, <1>3, Zenon
  <2>. QED
    BY <2>1
<1>8. s = [workspace |-> g.workspace, actor |-> g.owner]
  BY <1>4, AccessAssumption
<1>9. ASSUME NEW id, NEW operation
      PROVE  jobCandidatePredicate(a, operation, id) <=>
                e /\ id.scope = p.scope /\ operation \in {"", id.operation}
  <2>1. CASE e
    <3>1. a = {g}
      BY <1>5, <2>1
    <3>2. jobCandidatePredicate(a, operation, id) <=>
             id.scope = s /\ operation \in {"", id.operation}
      BY <1>8, <3>1, Zenon DEF jobCandidatePredicate
    <3>. QED
      BY <1>6, <2>1, <3>2
  <2>2. CASE ~e
    BY <1>5, <2>2 DEF jobCandidatePredicate, Denied
  <2>. QED
    BY <2>1, <2>2
<1>10. (e => a # Denied) /\ (~e => a = Denied)
  BY <1>5 DEF Denied
<1>. QED
  BY <1>7, <1>9, <1>10

\* The jobs of a list stand in one order.
LEMMA OneOrder ==
    ASSUME ApiInv, NEW ids \in SUBSET DOMAIN rows
    PROVE  /\ \A j, k \in ids : j = k \/ Newer(j, k) \/ Newer(k, j)
           /\ \A j \in ids : ~Newer(j, j)
           /\ \A j, k, l \in ids : Newer(j, k) /\ Newer(k, l) => Newer(j, l)
<1>1. \A j \in ids : j \in Ids /\ rows[j].created \in Nat
  BY DEF ApiInv, Shapes, Row
<1>2. /\ \A j \in Ids : DigestRank[j] \in Nat
      /\ \A j, k \in Ids : DigestRank[j] = DigestRank[k] => j = k
  BY ListAssumption DEF Ids
<1>. QED
  BY <1>1, <1>2 DEF Newer

\* A set of jobs has one that is older than all the others.
LEMMA OldestOf ==
    ASSUME ApiInv, NEW ids \in SUBSET DOMAIN rows, ids # {}
    PROVE  \E z \in ids : \A k \in ids \ {z} : Newer(k, z)
<1>1. \A j \in ids : j \in Ids /\ rows[j].created \in Nat /\ DigestRank[j] \in Nat
  BY ListAssumption DEF ApiInv, Shapes, Row, Ids
<1>2. PICK first : first = {rows[j].created : j \in ids}
  OBVIOUS
<1>3. PICK t \in first : \A u \in first : t <= u
  <2>1. first \subseteq Nat /\ first # {}
    BY <1>1, <1>2
  <2>. QED
    BY <2>1, Least, Zenon
<1>4. PICK ranks : ranks = {DigestRank[j] : j \in {k \in ids : rows[k].created = t}}
  OBVIOUS
<1>5. PICK n \in ranks : \A m \in ranks : n <= m
  <2>1. ranks \subseteq Nat /\ ranks # {}
    BY <1>1, <1>2, <1>3, <1>4
  <2>. QED
    BY <2>1, Least, Zenon
<1>6. PICK z \in ids : rows[z].created = t /\ DigestRank[z] = n
  BY <1>4, <1>5
<1>7. ASSUME NEW k \in ids \ {z} PROVE Newer(k, z)
  <2>1. ~Newer(z, k)
    <3>1. t <= rows[k].created /\ t \in Nat /\ rows[k].created \in Nat
      BY <1>1, <1>2, <1>3
    <3>2. rows[k].created = t => n <= DigestRank[k]
      BY <1>4, <1>5
    <3>3. n \in Nat /\ DigestRank[k] \in Nat
      BY <1>1, <1>6
    <3>. QED
      BY <1>6, <3>1, <3>2, <3>3 DEF Newer
  <2>. QED
    BY <2>1, OneOrder
<1>. QED
  BY <1>7

\* The first n of the jobs found are a page of them.
LEMMA NewestIsPage ==
    ASSUME ApiInv, NEW ids \in SUBSET DOMAIN rows, NEW n \in Nat
    PROVE  IsPage(Newest(ids, n), ids, n)
<1> DEFINE Above(id) == {k \in ids : Newer(k, id)}
<1>1. PICK shown : shown = Newest(ids, n)
  OBVIOUS
<1>2. shown \subseteq ids /\ \A id \in ids : id \in shown <=> Cardinality(Above(id)) < n
  BY <1>1 DEF Newest
<1>3. IsFiniteSet(ids) /\ Cardinality(ids) \in Nat
  BY FS_Subset, FS_CardinalityType DEF ApiInv, Shapes
<1>4. ASSUME NEW id \in ids
      PROVE  /\ IsFiniteSet(Above(id)) /\ Cardinality(Above(id)) \in Nat
             /\ Cardinality(Above(id)) <= Cardinality(ids) - 1
  <2>1. IsFiniteSet(ids \ {id}) /\ Cardinality(ids \ {id}) = Cardinality(ids) - 1
    BY <1>3, FS_RemoveElement
  <2>2. Above(id) \in SUBSET (ids \ {id})
    BY OneOrder
  <2>. QED
    BY <2>1, <2>2, FS_Subset, FS_CardinalityType
<1> HIDE DEF Above
<1>5. Cardinality(ids) <= n => shown = ids
  BY <1>2, <1>3, <1>4
<1>6. ASSUME NEW id \in shown, NEW k \in ids \ shown PROVE Newer(id, k)
  <2>1. Cardinality(Above(id)) < n /\ ~(Cardinality(Above(k)) < n)
    BY <1>2
  <2>2. ASSUME Newer(k, id) PROVE FALSE
    <3>1. Above(k) \in SUBSET Above(id)
      BY <1>2, <2>2, OneOrder DEF Above
    <3>2. Cardinality(Above(k)) <= Cardinality(Above(id))
      BY <1>2, <1>4, <3>1, FS_Subset
    <3>. QED
      BY <1>2, <1>4, <2>1, <3>2
  <2>. QED
    BY <1>2, <2>2, OneOrder
<1>7. Cardinality(shown) <= n
  <2>1. IsFiniteSet(shown) /\ Cardinality(shown) \in Nat
    BY <1>2, <1>3, FS_Subset, FS_CardinalityType
  <2>2. CASE shown = {}
    BY <2>2, FS_EmptySet
  <2>3. CASE shown # {}
    <3>1. PICK z \in shown : \A k \in shown \ {z} : Newer(k, z)
      BY <1>2, <2>3, OldestOf
    <3>2. shown \ {z} \in SUBSET Above(z)
      BY <1>2, <3>1 DEF Above
    <3>3. Cardinality(shown \ {z}) = Cardinality(shown) - 1
      BY <2>1, <3>1, FS_RemoveElement
    <3>4. Cardinality(shown \ {z}) <= Cardinality(Above(z))
      BY <1>2, <1>4, <3>1, <3>2, FS_Subset
    <3>5. Cardinality(Above(z)) < n /\ Cardinality(Above(z)) \in Nat
      BY <1>2, <1>4, <3>1
    <3>. QED
      BY <2>1, <3>3, <3>4, <3>5
  <2>. QED
    BY <2>2, <2>3
<1>. QED
  BY <1>1, <1>2, <1>5, <1>6, <1>7, Zenon DEF IsPage

\* What a list answers.
LEMMA ListAnswers ==
    ASSUME ApiInv, NEW q \in ListRequests, NEW status, NEW limit \in Limits
    PROVE  LET mine == {id \in DOMAIN rows : /\ id.scope = q.by
                                             /\ status \in {"", rows[id].status}}
               answer == ListJobs(q.access, "", status, limit)
           IN  IF q.entitled
               THEN /\ answer.code = 200
                    /\ IsPage(answer.jobs, mine, EffectiveLimit(limit))
               ELSE answer = [code |-> 403, jobs |-> {}]
<1>0. /\ q.entitled => q.access # Denied
      /\ ~q.entitled => q.access = Denied
      /\ \A id, operation : jobCandidatePredicate(q.access, operation, id) <=>
            q.entitled /\ id.scope = q.by /\ operation \in {"", id.operation}
  BY RequestReads, Zenon DEF ListRequests
<1>1. PICK mine : mine = {id \in DOMAIN rows : /\ id.scope = q.by
                                               /\ status \in {"", rows[id].status}}
  OBVIOUS
<1>2. PICK answer : answer = ListJobs(q.access, "", status, limit)
  OBVIOUS
<1>3. PICK n \in Nat : n = EffectiveLimit(limit)
  BY ListAssumption DEF EffectiveLimit
<1>4. CASE ~q.entitled
  BY <1>0, <1>2, <1>4, Zenon DEF ListJobs
<1>5. CASE q.entitled
  <2>1. PICK found : found = {id \in DOMAIN rows :
                                 /\ jobCandidatePredicate(q.access, "", id)
                                 /\ status \in {"", rows[id].status}}
    OBVIOUS
  <2>2. found = mine
    BY <1>0, <1>1, <1>5, <2>1
  <2>3. answer = [code |-> 200, jobs |-> Newest(found, n)]
    BY <1>0, <1>2, <1>3, <1>5, <2>1, Zenon DEF ListJobs
  <2>4. answer.code = 200 /\ answer.jobs = Newest(mine, n)
    BY <2>2, <2>3
  <2>5. mine \in SUBSET DOMAIN rows
    BY <1>1
  <2>6. IsPage(Newest(mine, n), mine, n)
    BY <2>5, NewestIsPage
  <2>. QED
    BY <1>1, <1>2, <1>3, <1>5, <2>4, <2>6, Zenon
<1>. QED
  BY <1>1, <1>2, <1>4, <1>5, Zenon

\* What a request for one job answers.
LEMMA JobAnswers ==
    ASSUME NEW q \in JobRequests, NEW id \in DOMAIN rows, NEW operation
    PROVE  JobForAction(q.access, operation, id).jobs =
              {k \in {id} : q.entitled /\ k.scope = q.by /\ operation \in {"", k.operation}}
<1>0. /\ q.entitled => q.access # Denied
      /\ ~q.entitled => q.access = Denied
      /\ jobCandidatePredicate(q.access, operation, id) <=>
            q.entitled /\ id.scope = q.by /\ operation \in {"", id.operation}
  BY RequestReads, Zenon DEF JobRequests
<1>1. CASE ~q.entitled
  <2>1. JobForAction(q.access, operation, id) = [code |-> 403, jobs |-> {}]
    BY <1>0, <1>1 DEF JobForAction
  <2>2. [code |-> 403, jobs |-> {}].jobs = {}
    OBVIOUS
  <2>. QED
    BY <1>1, <2>1, <2>2, Zenon
<1>2. CASE q.entitled
  <2>1. JobForAction(q.access, operation, id) =
           IF jobCandidatePredicate(q.access, operation, id)
           THEN [code |-> 200, jobs |-> {id}] ELSE [code |-> 404, jobs |-> {}]
    BY <1>0, <1>2 DEF JobForAction
  <2>2. JobForAction(q.access, operation, id).jobs =
           IF jobCandidatePredicate(q.access, operation, id) THEN {id} ELSE {}
    BY <2>1
  <2>3. {k \in {id} : q.entitled /\ k.scope = q.by /\ operation \in {"", k.operation}} =
           IF jobCandidatePredicate(q.access, operation, id) THEN {id} ELSE {}
    BY <1>0, <1>2
  <2>. QED
    BY <2>2, <2>3
<1>. QED
  BY <1>1, <1>2

\* No answer to a list or a job request shows a job of another workspace or
\* actor, or any job to a principal that is not entitled to ask.  One that
\* is gets the job it asks for, and in a list all its jobs up to the limit,
\* and the newest ones if they are more: for any principals, grants,
\* policies, guardrails, jobs and limits (ResolveJobAccess,
\* jobCandidatePredicate, JobForAction, Jobs, listJobs).
THEOREM OnlyOwnersAreAnswered == ApiSpec => []AnswersOnlyOwners
<1>1. ASSUME ApiInv PROVE AnswersOnlyOwners
  <2>1. ASSUME NEW q \in ListRequests, NEW status \in {"", "queued"}
        PROVE  LET mine == {id \in DOMAIN rows : /\ id.scope = q.by
                                                 /\ status \in {"", rows[id].status}}
               IN  \A limit \in Limits :
                      LET answer == ListJobs(q.access, "", status, limit)
                      IN  IF q.entitled
                          THEN /\ answer.code = 200
                               /\ IsPage(answer.jobs, mine, EffectiveLimit(limit))
                          ELSE answer = [code |-> 403, jobs |-> {}]
    BY <1>1, ListAnswers, Zenon
  <2>2. \A q \in JobRequests, id \in DOMAIN rows, operation \in {"", "export"} :
           JobForAction(q.access, operation, id).jobs =
              {k \in {id} : q.entitled /\ k.scope = q.by /\ operation \in {"", k.operation}}
    BY JobAnswers, Zenon
  <2>. QED
    BY <2>1, <2>2, Zenon DEF AnswersOnlyOwners
<1>. QED
  BY <1>1, ApiInvariant, PTL
=============================================================================
