---------------------------- MODULE PollLoopProofs --------------------------
(***************************************************************************)
(* Proofs about PollLoop, for any runtimes, workspaces and jobs: what a    *)
(* shutdown leaves behind, and that the lists a Claim goes through are     *)
(* complete and without repetition.                                        *)
(***************************************************************************)
EXTENDS PollLoop, TLAPS, WellFoundedInduction, SequenceTheorems

Row == [status : {"queued", "running", "ended"}, attempts : 0 .. (MaxAttempts - 1),
        due : BOOLEAN, leased : BOOLEAN, holder : Pollers \cup {NoPoller}]

Places == {"select", "claim", "visit", "update", "process", "stopped", "down"}

\* As long as nothing has gone wrong, who holds a running job is working on
\* it, or Close cut off its claim: no loop is elsewhere, or at another job,
\* while a row names its poller.
HoldersWork ==
    faults = 0 =>
       \A p \in Pollers :
          /\ pc[p] # "down"
          /\ \A j \in Jobs :
                rows[j].status = "running" /\ rows[j].holder = p =>
                   (pc[p] = "process" /\ job[p] = j) \/ j = cut[p]

\* A claim is cut off once, and the loop makes no other after that.
CutOnce ==
    /\ DOMAIN cut = Pollers /\ DOMAIN closed = Pollers
    /\ \A p \in Pollers :
          cut[p] # NoJob =>
             closed[p] /\ pc[p] \in {"select", "claim", "stopped", "down"}

\* The inductive invariant.
PollInv ==
    /\ rows \in [Jobs -> Row]
    /\ pc \in [Pollers -> Places]
    /\ DOMAIN job = Pollers
    /\ faults \in Nat
    /\ HoldersWork

-----------------------------------------------------------------------------
(***************************************************************************)
(* Rows.                                                                   *)
(***************************************************************************)

\* The row of a job that has ended, and of one that is submitted.
LEMMA PlainRows ==
    /\ NoRow \in Row /\ NoRow.status = "ended"
    /\ Fresh \in Row /\ Fresh.status = "queued"
<1>1. PICK t \in BOOLEAN, f \in BOOLEAN : t = TRUE /\ f = FALSE
  OBVIOUS
<1>2. PICK x : x = [status |-> "ended", attempts |-> 0, due |-> t, leased |-> f,
                    holder |-> NoPoller]
  OBVIOUS
<1>3. x \in Row /\ x.status = "ended"
  BY <1>2, PollAssumption DEF Row
<1>4. x = NoRow
  BY <1>1, <1>2, Zenon DEF NoRow
<1>5. PICK y : y = [x EXCEPT !.status = "queued"]
  OBVIOUS
<1>6. y \in Row /\ y.status = "queued"
  BY <1>3, <1>5 DEF Row
<1>7. y = Fresh
  BY <1>4, <1>5, Zenon DEF Fresh
<1>. QED
  BY <1>3, <1>4, <1>6, <1>7, Zenon

\* A row that is due, or whose lease is renewed or runs out.
LEMMA FlaggedRows ==
    ASSUME NEW r \in Row, NEW b \in BOOLEAN
    PROVE  /\ [r EXCEPT !.due = b] \in Row
           /\ [r EXCEPT !.due = b].status = r.status
           /\ [r EXCEPT !.due = b].holder = r.holder
           /\ [r EXCEPT !.leased = b] \in Row
           /\ [r EXCEPT !.leased = b].status = r.status
           /\ [r EXCEPT !.leased = b].holder = r.holder
BY DEF Row

\* A row that is claimed.
LEMMA ClaimedRow ==
    ASSUME NEW r \in Row, NEW b \in BOOLEAN, NEW p \in Pollers
    PROVE  LET s == [r EXCEPT !.status = "running", !.leased = b, !.due = b, !.holder = p]
           IN  s \in Row /\ s.holder = p
<1>1. PICK s : s = [r EXCEPT !.status = "running", !.leased = b, !.due = b, !.holder = p]
  OBVIOUS
<1>2. s \in Row /\ s.holder = p
  BY <1>1 DEF Row
<1>. QED
  BY <1>1, <1>2, Zenon

\* A row that goes back to the queue.
LEMMA RequeuedRow ==
    ASSUME NEW n \in 0 .. (MaxAttempts - 1)
    PROVE  LET s == [Fresh EXCEPT !.due = FALSE, !.attempts = n]
           IN  s \in Row /\ s.status = "queued"
<1>1. PICK x \in Row, f \in BOOLEAN : x = Fresh /\ f = FALSE /\ x.status = "queued"
  BY PlainRows
<1>2. PICK s : s = [x EXCEPT !.due = f, !.attempts = n]
  OBVIOUS
<1>3. s \in Row /\ s.status = "queued"
  BY <1>1, <1>2 DEF Row
<1>. QED
  BY <1>1, <1>2, <1>3, Zenon

-----------------------------------------------------------------------------
(***************************************************************************)
(* Steps.                                                                  *)
(***************************************************************************)
\* No row gets a holder, and a poller that leaves its job leaves no row that
\* names it, or something has gone wrong.
Loosens ==
    /\ rows' \in [Jobs -> Row]
    /\ \A k \in Jobs : rows'[k].status = "running" =>
          rows[k].status = "running" /\ rows'[k].holder = rows[k].holder
    /\ pc' \in [Pollers -> Places] /\ DOMAIN job' = Pollers
    /\ faults' \in Nat /\ faults' >= faults
    /\ faults' # 0 \/
       \A q \in Pollers :
          /\ cut'[q] = cut[q] /\ (pc'[q] = "down" => pc[q] = "down")
          /\ \/ pc[q] = "process" => pc'[q] = "process" /\ job'[q] = job[q]
             \/ \A k \in Jobs :
                   rows'[k].status = "running" /\ rows'[k].holder = q => k = cut[q]

\* Such a step keeps the invariant.
LEMMA LoosensKeeps ==
    ASSUME PollInv, Loosens
    PROVE  PollInv'
<1>1. ASSUME faults' = 0, NEW p \in Pollers, NEW j \in Jobs,
             rows'[j].status = "running", rows'[j].holder = p
      PROVE  (pc'[p] = "process" /\ job'[p] = j) \/ j = cut'[p]
  <2>1. faults = 0 /\ rows[j].status = "running" /\ rows[j].holder = p
    BY <1>1 DEF PollInv, Loosens
  <2>2. (pc[p] = "process" /\ job[p] = j) \/ j = cut[p]
    BY <2>1 DEF PollInv, HoldersWork
  <2>. QED
    BY <1>1, <2>2 DEF Loosens
<1>2. ASSUME faults' = 0, NEW p \in Pollers PROVE pc'[p] # "down"
  <2>1. faults = 0
    BY <1>2 DEF PollInv, Loosens
  <2>. QED
    BY <1>2, <2>1 DEF PollInv, HoldersWork, Loosens
<1>3. HoldersWork'
  BY <1>1, <1>2 DEF HoldersWork
<1>. QED
  BY <1>3 DEF PollInv, Loosens, Places

\* Loops that leave the rows alone, of pollers that hold no job.
LEMMA IdleLoopKeeps ==
    ASSUME PollInv, NEW p \in Pollers, pc[p] # "process", UNCHANGED rows,
           pc' \in [Pollers -> Places], DOMAIN job' = Pollers,
           faults' \in Nat, faults' >= faults,
           faults' # 0 \/ (cut' = cut /\ pc'[p] # "down"),
           \A q \in Pollers \ {p} : pc'[q] = pc[q] /\ job'[q] = job[q]
    PROVE  PollInv'
<1>1. ASSUME faults' = 0, NEW k \in Jobs, rows'[k].status = "running", rows'[k].holder = p
      PROVE  k = cut[p]
  <2>1. faults = 0
    BY <1>1 DEF PollInv
  <2>. QED
    BY <1>1, <2>1 DEF PollInv, HoldersWork
<1>2. Loosens
  BY <1>1 DEF PollInv, Loosens
<1>. QED
  BY <1>2, LoosensKeeps

\* The places that the loop goes to.
LEMMA WhereTo ==
    ASSUME PollInv, NEW p \in Pollers,
           Wait(p) \/ NextClaim(p) \/ (\E place \in Places \ {"down"} : Goto(p, place))
    PROVE  /\ pc' \in [Pollers -> Places] /\ pc'[p] # "down"
           /\ \A q \in Pollers \ {p} : pc'[q] = pc[q]
BY DEF PollInv, Wait, NextClaim, Goto, Places

\* The steps of a loop that is not processing.
LEMMA ClaimLoopKeeps ==
    ASSUME PollInv, NEW p \in Pollers,
           \/ ListScopes(p) \/ Visit(p) \/ ClaimMissed(p)
           \/ ClaimError(p) /\ job' = [job EXCEPT ![p] = NoJob] /\ UNCHANGED <<rows, cut>>
           \/ Tick(p) \/ Stop(p) \/ Restart(p)
    PROVE  PollInv'
<1> USE DEF Places
<1>1. CASE ListScopes(p)
  <2>1. Wait(p) \/ Goto(p, "visit")
    BY <1>1 DEF ListScopes
  <2>2. pc[p] # "process" /\ UNCHANGED <<rows, job, cut, faults>>
    BY <1>1 DEF ListScopes
  <2>. QED
    BY <2>1, <2>2, WhereTo, IdleLoopKeeps DEF PollInv
<1>2. CASE Visit(p)
  <2>1. Wait(p) \/ Goto(p, "visit") \/ Goto(p, "update")
    BY <1>2 DEF Visit, NextScope
  <2>2. /\ pc[p] # "process" /\ UNCHANGED <<rows, cut, faults>>
        /\ DOMAIN job' = Pollers /\ \A q \in Pollers \ {p} : job'[q] = job[q]
    BY <1>2 DEF Visit, PollInv
  <2>. QED
    BY <2>1, <2>2, WhereTo, IdleLoopKeeps DEF PollInv
<1>3. CASE ClaimMissed(p)
  <2>1. Wait(p) \/ Goto(p, "visit")
    BY <1>3 DEF ClaimMissed, NextScope
  <2>2. pc[p] # "process" /\ UNCHANGED <<rows, job, cut, faults>>
    BY <1>3 DEF ClaimMissed
  <2>. QED
    BY <2>1, <2>2, WhereTo, IdleLoopKeeps DEF PollInv
<1>4. CASE ClaimError(p) /\ job' = [job EXCEPT ![p] = NoJob] /\ UNCHANGED <<rows, cut>>
  <2>1. /\ pc[p] # "process" /\ UNCHANGED <<rows, cut>> /\ Wait(p)
        /\ faults' \in Nat /\ faults' >= faults
        /\ DOMAIN job' = Pollers /\ \A q \in Pollers \ {p} : job'[q] = job[q]
    BY <1>4 DEF ClaimError, PollInv
  <2>. QED
    BY <2>1, WhereTo, IdleLoopKeeps
<1>5. CASE Tick(p) \/ Stop(p) \/ Restart(p)
  <2>1. /\ pc[p] # "process" /\ UNCHANGED <<rows, job, faults>>
        /\ Goto(p, "claim") \/ Goto(p, "stopped")
    BY <1>5 DEF Tick, Stop, Restart
  <2>2. faults # 0 \/ UNCHANGED cut
    BY <1>5 DEF Tick, Stop, Restart, PollInv, HoldersWork
  <2>. QED
    BY <2>1, <2>2, WhereTo, IdleLoopKeeps DEF PollInv
<1>. QED
  BY <1>1, <1>2, <1>3, <1>4, <1>5

\* What spoils a selected job, and what lets a job go, leaves the jobs of
\* the others that process alone.
LEMMA SpoilShape ==
    ASSUME NEW j, NEW p, Spoil(j, p)
    PROVE  /\ DOMAIN job' = Pollers
           /\ \A q \in Pollers : q = p \/ pc[q] = "process" => job'[q] = job[q]
BY DEF Spoil

\* The same of a job that is let go.
LEMMA LetGoShape ==
    ASSUME NEW p, LetGo(p)
    PROVE  /\ DOMAIN job' = Pollers
           /\ \A q \in Pollers \ {p} : pc[q] = "process" => job'[q] = job[q]
BY DEF LetGo

\* A row that ends or goes back to the queue.
LEMMA RowLeaves ==
    ASSUME PollInv, NEW j, NEW s \in Row, s.status # "running",
           rows' = [rows EXCEPT ![j] = s]
    PROVE  /\ rows' \in [Jobs -> Row]
           /\ \A k \in Jobs : rows'[k].status = "running" =>
                 /\ k # j /\ rows[k].status = "running"
                 /\ rows'[k].holder = rows[k].holder
BY DEF PollInv

\* Submissions, cancellations, due retries and leases that run out.
LEMMA RowStepKeeps ==
    ASSUME PollInv, NEW j \in Jobs,
           Submit(j) \/ Cancel(j) \/ Due(j) \/ LeaseEnds(j)
    PROVE  PollInv'
<1>1. CASE Submit(j)
  <2>1. rows' = [rows EXCEPT ![j] = Fresh] /\ UNCHANGED <<pc, job, cut, faults>>
    BY <1>1 DEF Submit
  <2>2. Loosens
    BY <2>1, PlainRows, RowLeaves DEF Loosens, PollInv, Places
  <2>. QED
    BY <2>2, LoosensKeeps
<1>2. CASE Cancel(j)
  <2>1. /\ rows' = [rows EXCEPT ![j] = NoRow] /\ UNCHANGED <<pc, cut, faults>>
        /\ Spoil(j, NoPoller)
    BY <1>2 DEF Cancel, End
  <2>2. Loosens
    BY <2>1, PlainRows, RowLeaves, SpoilShape DEF Loosens, PollInv, Places
  <2>. QED
    BY <2>2, LoosensKeeps
<1>3. ASSUME NEW s \in Row, s.status = rows[j].status, s.holder = rows[j].holder,
             rows' = [rows EXCEPT ![j] = s], UNCHANGED <<pc, job, cut>>,
             faults' \in Nat, faults' >= faults
      PROVE  PollInv'
  <2>1. Loosens
    BY <1>3 DEF Loosens, PollInv, Places
  <2>. QED
    BY <2>1, LoosensKeeps
<1>4. PICK r \in Row : r = rows[j]
  BY DEF PollInv
<1>5. CASE Due(j)
  <2>1. rows' = [rows EXCEPT ![j] = [r EXCEPT !.due = TRUE]]
    BY <1>4, <1>5, Zenon DEF Due
  <2>2. UNCHANGED <<pc, job, cut>> /\ faults' \in Nat /\ faults' >= faults
    BY <1>5 DEF Due, PollInv
  <2>3. PICK s \in Row : s = [r EXCEPT !.due = TRUE] /\ s.status = r.status /\ s.holder = r.holder
    BY FlaggedRows, Zenon
  <2>. QED
    BY <1>3, <1>4, <2>1, <2>2, <2>3
<1>6. CASE LeaseEnds(j)
  <2>1. rows' = [rows EXCEPT ![j] = [r EXCEPT !.leased = FALSE]]
    BY <1>4, <1>6, Zenon DEF LeaseEnds
  <2>2. UNCHANGED <<pc, job, cut>> /\ faults' \in Nat /\ faults' >= faults
    BY <1>6 DEF LeaseEnds, PollInv
  <2>3. PICK s \in Row : s = [r EXCEPT !.leased = FALSE] /\ s.status = r.status /\ s.holder = r.holder
    BY FlaggedRows, Zenon
  <2>. QED
    BY <1>3, <1>4, <2>1, <2>2, <2>3
<1>. QED
  BY <1>1, <1>2, <1>5, <1>6

\* The UPDATE of a claim gives the row of the job selected to the claimer.
LEMMA UpdatedRows ==
    ASSUME PollInv, NEW p \in Pollers, UpdateApplied(p)
    PROVE  /\ rows' \in [Jobs -> Row]
           /\ \A k \in Jobs : rows'[k] = rows[k] \/ (k = job[p] /\ rows'[k].holder = p)
<1>1. PICK j : j = job[p]
  OBVIOUS
<1>2. CASE j \in Jobs
  <2>1. PICK r \in Row : r = rows[j]
    BY <1>2 DEF PollInv
  <2>2. rows' = [rows EXCEPT ![j] =
           [r EXCEPT !.status = "running", !.leased = TRUE, !.due = TRUE, !.holder = p]]
    BY <1>1, <2>1, Zenon DEF UpdateApplied
  <2>3. PICK s \in Row :
           /\ s = [r EXCEPT !.status = "running", !.leased = TRUE, !.due = TRUE, !.holder = p]
           /\ s.holder = p
    <3>1. TRUE \in BOOLEAN
      OBVIOUS
    <3>. QED
      BY <3>1, ClaimedRow, Zenon
  <2>. QED
    BY <1>1, <1>2, <2>2, <2>3 DEF PollInv
<1>3. CASE j \notin Jobs
  <2>1. DOMAIN rows = Jobs
    BY DEF PollInv
  <2>2. PICK s : rows' = [rows EXCEPT ![j] = s]
    BY <1>1, Zenon DEF UpdateApplied
  <2>. QED
    BY <1>3, <2>1, <2>2 DEF PollInv
<1>. QED
  BY <1>2, <1>3

\* A claim: the claimer held nothing before.
LEMMA ClaimKeeps ==
    ASSUME PollInv, NEW p \in Pollers, Claim(p)
    PROVE  PollInv'
<1>1. PICK j : j = job[p]
  OBVIOUS
<1>2. /\ pc[p] = "update" /\ Spoil(j, p) /\ pc' = [pc EXCEPT ![p] = "process"]
      /\ UNCHANGED <<cut, faults>>
  BY <1>1 DEF Claim, UpdateApplied, Goto
<1>3. /\ pc' \in [Pollers -> Places] /\ pc'[p] = "process"
      /\ \A q \in Pollers \ {p} : pc'[q] = pc[q]
  BY <1>2 DEF PollInv, Places
<1>4. /\ DOMAIN job' = Pollers /\ job'[p] = j
      /\ \A q \in Pollers : pc[q] = "process" => job'[q] = job[q]
  BY <1>1, <1>2, SpoilShape
<1>5. rows' \in [Jobs -> Row] /\ \A k \in Jobs : rows'[k] = rows[k] \/ (k = j /\ rows'[k].holder = p)
  BY <1>1, UpdatedRows DEF Claim
<1>6. ASSUME faults' = 0, NEW q \in Pollers, NEW k \in Jobs,
             rows'[k].status = "running", rows'[k].holder = q
      PROVE  (pc'[q] = "process" /\ job'[q] = k) \/ k = cut'[q]
  <2>1. CASE rows'[k] = rows[k]
    <3>1. (pc[q] = "process" /\ job[q] = k) \/ k = cut[q]
      BY <1>2, <1>6, <2>1 DEF PollInv, HoldersWork
    <3>. QED
      BY <1>2, <1>3, <1>4, <3>1
  <2>2. CASE k = j /\ rows'[k].holder = p
    BY <1>3, <1>4, <1>6, <2>2
  <2>. QED
    BY <1>5, <2>1, <2>2
<1>7. \A q \in Pollers : pc'[q] = "down" => pc[q] = "down"
  BY <1>3
<1>8. HoldersWork'
  BY <1>2, <1>6, <1>7 DEF HoldersWork, PollInv
<1>. QED
  BY <1>2, <1>3, <1>4, <1>5, <1>8 DEF PollInv, Places

\* A claim that is cut off: the loop that is closed made no other before.
LEMMA CutKeeps ==
    ASSUME PollInv, CutOnce, NEW p \in Pollers, ClaimError(p), ClaimCut(p)
    PROVE  PollInv'
<1>1. PICK j : j = job[p]
  OBVIOUS
<1>2. /\ pc[p] = "update" /\ Wait(p) /\ LetGo(p) /\ faults' \in Nat /\ faults' >= faults
      /\ faults' # 0 \/ (faults = 0 /\ closed[p])
  BY DEF ClaimError, ClaimCut, UpdateApplied, PollInv
<1>3. /\ pc' \in [Pollers -> Places] /\ pc'[p] # "down"
      /\ \A q \in Pollers \ {p} : pc'[q] = pc[q]
  BY <1>2, WhereTo
<1>4. /\ DOMAIN job' = Pollers
      /\ \A q \in Pollers \ {p} : pc[q] = "process" => job'[q] = job[q]
  BY <1>2, LetGoShape
<1>5. /\ rows' \in [Jobs -> Row]
      /\ \A k \in Jobs : rows'[k] = rows[k] \/ (k = j /\ rows'[k].holder = p)
  BY <1>1, UpdatedRows DEF ClaimCut
<1>6. cut[p] = NoJob
  BY <1>2 DEF CutOnce
<1>7. ASSUME faults' = 0 PROVE HoldersWork'
  <2>1. faults = 0 /\ cut' = [cut EXCEPT ![p] = j]
    BY <1>1, <1>2, <1>7 DEF ClaimCut
  <2>2. cut'[p] = j /\ \A q \in Pollers \ {p} : cut'[q] = cut[q]
    BY <2>1 DEF CutOnce
  <2>3. ASSUME NEW q \in Pollers, NEW k \in Jobs,
               rows'[k].status = "running", rows'[k].holder = q
        PROVE  (pc'[q] = "process" /\ job'[q] = k) \/ k = cut'[q]
    <3>1. CASE rows'[k] = rows[k]
      <4>1. (pc[q] = "process" /\ job[q] = k) \/ k = cut[q]
        BY <2>1, <2>3, <3>1 DEF PollInv, HoldersWork
      <4>2. q # p
        BY <1>2, <1>6, <4>1, PollAssumption
      <4>. QED
        BY <1>3, <1>4, <2>2, <4>1, <4>2
    <3>2. CASE k = j /\ rows'[k].holder = p
      BY <2>2, <2>3, <3>2
    <3>. QED
      BY <1>5, <3>1, <3>2
  <2>4. \A q \in Pollers : pc'[q] # "down"
    BY <1>3, <2>1 DEF PollInv, HoldersWork
  <2>. QED
    BY <2>3, <2>4 DEF HoldersWork
<1>8. HoldersWork'
  BY <1>7 DEF HoldersWork
<1>. QED
  BY <1>2, <1>3, <1>4, <1>5, <1>8 DEF PollInv, Places

\* A renewed lease.
LEMMA HeartbeatKeeps ==
    ASSUME PollInv, NEW p \in Pollers, Heartbeat(p)
    PROVE  PollInv'
<1>1. PICK j : j = job[p]
  OBVIOUS
<1>2. Spoil(j, p) /\ UNCHANGED <<pc, cut, faults>>
  BY <1>1 DEF Heartbeat
<1>3. rows' \in [Jobs -> Row]
      /\ \A k \in Jobs : rows'[k].status = rows[k].status /\ rows'[k].holder = rows[k].holder
  <2>1. CASE j \in Jobs
    <3>1. PICK r \in Row : r = rows[j]
      BY <2>1 DEF PollInv
    <3>2. rows' = [rows EXCEPT ![j] = [r EXCEPT !.leased = TRUE]]
      BY <1>1, <3>1, Zenon DEF Heartbeat
    <3>3. PICK s \in Row : s = [r EXCEPT !.leased = TRUE] /\ s.status = r.status /\ s.holder = r.holder
      BY FlaggedRows, Zenon
    <3>. QED
      BY <2>1, <3>1, <3>2, <3>3 DEF PollInv
  <2>2. CASE j \notin Jobs
    <3>1. PICK s : rows' = [rows EXCEPT ![j] = s]
      BY <1>1, Zenon DEF Heartbeat
    <3>. QED
      BY <2>2, <3>1 DEF PollInv
  <2>. QED
    BY <2>1, <2>2
<1>4. Loosens
  BY <1>2, <1>3, SpoilShape DEF Loosens, PollInv, Places
<1>. QED
  BY <1>4, LoosensKeeps

\* The poller that was done with its job holds no other.
LEMMA LeavesNothing ==
    ASSUME PollInv, NEW p \in Pollers, NEW s \in Row, s.status # "running",
           rows' = [rows EXCEPT ![job[p]] = s], LetGo(p), NextClaim(p), UNCHANGED <<cut, faults>>
    PROVE  PollInv'
<1>1. /\ rows' \in [Jobs -> Row]
      /\ \A k \in Jobs : rows'[k].status = "running" =>
            /\ k # job[p] /\ rows[k].status = "running"
            /\ rows'[k].holder = rows[k].holder
  BY RowLeaves
<1>2. /\ pc' \in [Pollers -> Places] /\ pc'[p] # "down"
      /\ \A q \in Pollers \ {p} : pc'[q] = pc[q]
  BY WhereTo
<1>3. /\ DOMAIN job' = Pollers
      /\ \A q \in Pollers \ {p} : pc[q] = "process" => job'[q] = job[q]
  BY LetGoShape
<1>4. ASSUME faults = 0, NEW k \in Jobs, rows'[k].status = "running", rows'[k].holder = p
      PROVE  k = cut[p]
  BY <1>1, <1>4 DEF PollInv, HoldersWork
<1>5. Loosens
  BY <1>1, <1>2, <1>3, <1>4 DEF Loosens, PollInv
<1>. QED
  BY <1>5, LoosensKeeps

\* The ends of a processing.
LEMMA ProcessedKeeps ==
    ASSUME PollInv, NEW p \in Pollers, Completed(p) \/ Fail(p) \/ FailError(p)
    PROVE  PollInv'
<1>1. CASE Completed(p)
  BY <1>1, PlainRows, LeavesNothing DEF Completed, End
<1>2. CASE Fail(p) /\ Holds(p)
  <2>1. Failed(job[p]) /\ LetGo(p) /\ NextClaim(p) /\ UNCHANGED <<cut, faults>>
    BY <1>2 DEF Fail
  <2>2. PICK s \in Row : s.status # "running" /\ rows' = [rows EXCEPT ![job[p]] = s]
    <3>1. CASE job[p] \in Jobs /\ rows[job[p]].attempts + 1 < MaxAttempts
      <4>1. PICK n \in 0 .. (MaxAttempts - 1) : n = rows[job[p]].attempts + 1
        BY <3>1, PollAssumption DEF PollInv, Row
      <4>. QED
        BY <2>1, <3>1, <4>1, RequeuedRow DEF Failed
    <3>2. CASE ~(rows[job[p]].attempts + 1 < MaxAttempts)
      BY <2>1, <3>2, PlainRows DEF Failed, End
    <3>3. CASE job[p] \notin Jobs
      <4>1. PICK s : rows' = [rows EXCEPT ![job[p]] = s]
        BY <2>1, Zenon DEF Failed, End
      <4>2. rows' = [rows EXCEPT ![job[p]] = NoRow]
        BY <3>3, <4>1 DEF PollInv
      <4>. QED
        BY <4>2, PlainRows
    <3>. QED
      BY <3>1, <3>2, <3>3
  <2>. QED
    BY <2>1, <2>2, LeavesNothing
<1>3. CASE Fail(p) /\ ~Holds(p)
  <2>1. /\ pc[p] = "process" /\ job' = [job EXCEPT ![p] = NoJob]
        /\ UNCHANGED <<rows, cut, faults>> /\ NextClaim(p)
    BY <1>3 DEF Fail
  <2>2. /\ pc' \in [Pollers -> Places] /\ pc'[p] # "down"
        /\ \A q \in Pollers \ {p} : pc'[q] = pc[q]
    BY <2>1, WhereTo
  <2>3. ASSUME faults = 0, NEW k \in Jobs, rows[k].status = "running", rows[k].holder = p
        PROVE  k = cut[p]
    BY <1>3, <2>1, <2>3 DEF PollInv, HoldersWork, Holds
  <2>4. DOMAIN job' = Pollers /\ \A q \in Pollers \ {p} : job'[q] = job[q]
    BY <2>1 DEF PollInv
  <2>5. rows' = rows /\ faults' = faults /\ cut' = cut
    BY <2>1
  <2>6. \A q \in Pollers :
           \/ pc[q] = "process" => pc'[q] = "process" /\ job'[q] = job[q]
           \/ faults # 0
           \/ \A k \in Jobs : rows[k].status = "running" /\ rows[k].holder = q => k = cut[q]
    BY <2>2, <2>3, <2>4
  <2>7. Loosens
    BY <2>2, <2>4, <2>5, <2>6 DEF Loosens, PollInv
  <2>. QED
    BY <2>7, LoosensKeeps
<1>4. CASE FailError(p)
  <2>1. /\ job' = [job EXCEPT ![p] = NoJob] /\ UNCHANGED rows /\ NextClaim(p)
        /\ faults' = faults + 1
    BY <1>4 DEF FailError
  <2>2. Loosens
    BY <2>1, WhereTo DEF Loosens, PollInv
  <2>. QED
    BY <2>2, LoosensKeeps
<1>. QED
  BY <1>1, <1>2, <1>3, <1>4

\* No step cuts off a second claim.
LEMMA CutStepInv == PollInv /\ CutOnce /\ [Next]_vars => CutOnce'
<1> SUFFICES ASSUME PollInv, CutOnce, [Next]_vars PROVE CutOnce'
  OBVIOUS
<1> DEFINE Before == {"select", "claim", "stopped", "down"}
<1>1. ASSUME NEW p \in Pollers, UNCHANGED <<cut, closed>>,
             \A q \in Pollers \ {p} : pc'[q] = pc[q],
             cut[p] # NoJob => pc'[p] \in Before
      PROVE  CutOnce'
  BY <1>1 DEF CutOnce
<1>2. ASSUME UNCHANGED <<pc, cut, closed>> PROVE CutOnce'
  BY <1>2 DEF CutOnce
<1>3. ASSUME NEW j \in Jobs, Submit(j) \/ Cancel(j) \/ Due(j) \/ LeaseEnds(j)
      PROVE  CutOnce'
  BY <1>2, <1>3 DEF Submit, Cancel, Due, LeaseEnds
<1>4. ASSUME NEW p \in Pollers, ListScopes(p) \/ Visit(p) \/ Claim(p) \/ ClaimMissed(p)
      PROVE  CutOnce'
  <2>1. UNCHANGED <<cut, closed>> /\ ~closed[p]
    BY <1>4 DEF ListScopes, Visit, Claim, ClaimMissed
  <2>2. \E place \in Places \ {"down"} : Wait(p) \/ Goto(p, place)
    BY <1>4 DEF ListScopes, Visit, Claim, ClaimMissed, NextScope, Places
  <2>. QED
    BY <1>1, <2>1, <2>2, WhereTo DEF CutOnce
<1>5. ASSUME NEW p \in Pollers, Heartbeat(p) PROVE CutOnce'
  BY <1>2, <1>5 DEF Heartbeat
<1>6. ASSUME NEW p \in Pollers, Completed(p) \/ Fail(p) \/ FailError(p) PROVE CutOnce'
  <2>1. UNCHANGED <<cut, closed>> /\ pc[p] = "process" /\ NextClaim(p)
    BY <1>6 DEF Completed, Holds, Fail, FailError
  <2>. QED
    BY <1>1, <2>1, WhereTo DEF CutOnce
<1>7. ASSUME NEW p \in Pollers, Tick(p) \/ Stop(p) \/ Crash(p) PROVE CutOnce'
  <2>1. /\ UNCHANGED <<cut, closed>>
        /\ Goto(p, "claim") \/ Goto(p, "stopped") \/ Goto(p, "down")
    BY <1>7 DEF Tick, Stop, Crash
  <2>2. pc'[p] \in Before /\ \A q \in Pollers \ {p} : pc'[q] = pc[q]
    BY <2>1 DEF Goto, PollInv
  <2>. QED
    BY <1>1, <2>1, <2>2
<1>8. ASSUME NEW p \in Pollers, Close(p) PROVE CutOnce'
  BY <1>8 DEF Close, CutOnce
<1>9. ASSUME NEW p \in Pollers, Restart(p) PROVE CutOnce'
  <2>1. /\ closed' = [closed EXCEPT ![p] = FALSE] /\ cut' = [cut EXCEPT ![p] = NoJob]
        /\ pc' = [pc EXCEPT ![p] = "claim"]
    BY <1>9 DEF Restart, Goto
  <2>. QED
    BY <2>1 DEF CutOnce, PollInv
<1>10. ASSUME NEW p \in Pollers, ClaimError(p) PROVE CutOnce'
  <2>1. /\ closed' = closed /\ pc' = [pc EXCEPT ![p] = "select"]
        /\ cut' = cut \/ (closed[p] /\ cut' = [cut EXCEPT ![p] = job[p]])
    BY <1>10 DEF ClaimError, ClaimCut, Wait, Goto
  <2>. QED
    BY <2>1 DEF CutOnce, PollInv
<1>11. ASSUME UNCHANGED vars PROVE CutOnce'
  BY <1>2, <1>11 DEF vars
<1>. QED
  BY <1>3, <1>4, <1>5, <1>6, <1>7, <1>8, <1>9, <1>10, <1>11 DEF Next, Loop

\* Every step keeps the invariant.
LEMMA PollStepInv == PollInv /\ CutOnce /\ [Next]_vars => PollInv'
<1> SUFFICES ASSUME PollInv, CutOnce, [Next]_vars PROVE PollInv'
  OBVIOUS
<1>1. ASSUME UNCHANGED <<rows, pc, job, cut, faults>> PROVE PollInv'
  BY <1>1 DEF PollInv, HoldersWork
<1>2. ASSUME NEW p \in Pollers, Close(p) PROVE PollInv'
  BY <1>1, <1>2 DEF Close
<1>3. ASSUME NEW p \in Pollers, Crash(p) PROVE PollInv'
  <2>1. /\ job' = [job EXCEPT ![p] = NoJob] /\ UNCHANGED rows /\ Goto(p, "down")
        /\ faults' = faults + 1
    BY <1>3 DEF Crash
  <2>2. pc' \in [Pollers -> Places]
    BY <2>1 DEF Goto, PollInv, Places
  <2>3. Loosens
    <3>1. DOMAIN job' = Pollers /\ rows' = rows
      BY <2>1 DEF PollInv
    <3>2. faults' \in Nat /\ faults' >= faults /\ faults' # 0
      BY <2>1 DEF PollInv
    <3>. QED
      BY <2>2, <3>1, <3>2 DEF Loosens, PollInv
  <2>. QED
    BY <2>3, LoosensKeeps
<1>4. ASSUME UNCHANGED vars PROVE PollInv'
  BY <1>1, <1>4 DEF vars
<1>5. ASSUME NEW p \in Pollers, ClaimError(p) PROVE PollInv'
  <2>1. \/ job' = [job EXCEPT ![p] = NoJob] /\ UNCHANGED <<rows, cut>>
        \/ ClaimCut(p)
    BY <1>5 DEF ClaimError
  <2>. QED
    BY <1>5, <2>1, CutKeeps, ClaimLoopKeeps
<1>. QED
  BY <1>2, <1>3, <1>4, <1>5, RowStepKeeps, ClaimLoopKeeps, ClaimKeeps, HeartbeatKeeps,
     ProcessedKeeps
  DEF Next, Loop

-----------------------------------------------------------------------------
\* A runtime that was closed and has stopped left no job running in its
\* name, however many runtimes, workspaces and jobs there are, and whatever
\* the jobs were doing when Close came: only a crash, a failing store or the
\* one claim that Close cut off makes others wait for a lease (Start,
\* processClaimed, Close).
THEOREM ShutdownReturns == Spec => []ShutdownReturnsJobs
<1>1. Init => PollInv
  <2> SUFFICES ASSUME Init PROVE PollInv
    OBVIOUS
  <2>1. /\ rows \in [Jobs -> Row] /\ \A j \in Jobs : rows[j].status = "ended"
    BY PlainRows DEF Init
  <2>. QED
    BY <2>1 DEF Init, PollInv, HoldersWork, Places
<1>2. Init => CutOnce
  BY DEF Init, CutOnce
<1>3. PollInv => ShutdownReturnsJobs
  BY DEF PollInv, HoldersWork, ShutdownReturnsJobs
<1>. QED
  BY <1>1, <1>2, <1>3, PollStepInv, CutStepInv, PTL DEF Spec

-----------------------------------------------------------------------------
(***************************************************************************)
(* Lists without repetition.                                               *)
(***************************************************************************)

\* A set of naturals has a least element, and Min finds it.
LEMMA LeastIsMin ==
    ASSUME NEW T, T \subseteq Nat, T # {}
    PROVE  Min(T) \in T /\ \A m \in T : Min(T) <= m
<1>1. PICK R : R = OpToRel(<, Nat)
  OBVIOUS
<1>2. IsWellFoundedOn(R, Nat)
  BY <1>1, NatLessThanWellFounded
<1>3. PICK n \in T : \A m \in T : <<m, n>> \notin R
  BY <1>2, WFMin, Zenon
<1>4. ASSUME NEW m \in T PROVE n <= m
  <2>1. n \in Nat /\ m \in Nat
    BY <1>3
  <2>2. m < n => <<m, n>> \in R
    BY <1>1, <2>1 DEF OpToRel
  <2>. QED
    BY <1>3, <2>1, <2>2
<1>5. n \in T /\ \A m \in T : n <= m
  BY <1>3, <1>4
<1>. QED
  BY <1>5 DEF Min

\* A list without its n-th element.
LEMMA Removed ==
    ASSUME NEW E, NEW s \in Seq(E), NEW n \in 1 .. Len(s)
    PROVE  /\ RemoveAt(s, n) \in Seq(E) /\ Len(RemoveAt(s, n)) = Len(s) - 1
           /\ \A i \in 1 .. Len(RemoveAt(s, n)) :
                 RemoveAt(s, n)[i] = IF i < n THEN s[i] ELSE s[i + 1]
<1>0. PICK t : t = RemoveAt(s, n)
  OBVIOUS
<1> DEFINE a == SubSeq(s, 1, n - 1)
           b == SubSeq(s, n + 1, Len(s))
<1>1. a \in Seq(E) /\ Len(a) = n - 1 /\ \A i \in 1 .. (n - 1) : a[i] = s[i]
  OBVIOUS
<1>2. b \in Seq(E) /\ Len(b) = Len(s) - n /\ \A i \in 1 .. (Len(s) - n) : b[i] = s[n + i]
  OBVIOUS
<1>3. t = a \o b
  BY <1>0, Zenon DEF RemoveAt
<1> HIDE DEF a, b
<1>4. /\ t \in Seq(E) /\ Len(t) = Len(a) + Len(b)
      /\ \A i \in 1 .. Len(a) + Len(b) : t[i] = IF i <= Len(a) THEN a[i] ELSE b[i - Len(a)]
  <2>1. /\ a \o b \in Seq(E) /\ Len(a \o b) = Len(a) + Len(b)
        /\ \A i \in 1 .. Len(a) + Len(b) :
              (a \o b)[i] = IF i <= Len(a) THEN a[i] ELSE b[i - Len(a)]
    BY <1>1, <1>2, ConcatProperties, Zenon
  <2>. QED
    BY <1>3, <2>1, Zenon
<1>5. Len(s) \in Nat /\ Len(t) = Len(s) - 1
  BY <1>1, <1>2, <1>4
<1>6. ASSUME NEW i \in 1 .. Len(t), i < n PROVE t[i] = s[i]
  <2>1. i \in 1 .. Len(a) + Len(b) /\ i <= Len(a) /\ i \in 1 .. (n - 1)
    BY <1>1, <1>2, <1>5, <1>6
  <2>. QED
    BY <1>1, <1>4, <2>1, Zenon
<1>7. ASSUME NEW i \in 1 .. Len(t), ~(i < n) PROVE t[i] = s[i + 1]
  <2>1. /\ i \in 1 .. Len(a) + Len(b) /\ ~(i <= Len(a))
        /\ i - Len(a) \in 1 .. (Len(s) - n) /\ n + (i - Len(a)) = i + 1
    BY <1>1, <1>2, <1>5, <1>7
  <2>2. t[i] = b[i - Len(a)]
    BY <1>4, <2>1, Zenon
  <2>3. b[i - Len(a)] = s[n + (i - Len(a))]
    BY <1>2, <2>1, Zenon
  <2>. QED
    BY <2>1, <2>2, <2>3, Zenon
<1>. QED
  BY <1>0, <1>4, <1>5, <1>6, <1>7, Zenon

\* What is in a list.
LEMMA InList ==
    ASSUME NEW E, NEW s \in Seq(E), NEW x
    PROVE  x \in Range(s) <=> \E i \in 1 .. Len(s) : s[i] = x
BY DEF Range

\* A list that has no element twice.
LEMMA Once ==
    ASSUME NEW E, NEW s \in Seq(E)
    PROVE  IsInjective(s) <=> \A i, k \in 1 .. Len(s) : s[i] = s[k] => i = k
BY DEF IsInjective

\* A list that has no element twice, without its n-th element.
LEMMA Shrunk ==
    ASSUME NEW E, NEW s \in Seq(E), IsInjective(s), NEW n \in 1 .. Len(s)
    PROVE  /\ IsInjective(RemoveAt(s, n))
           /\ Range(RemoveAt(s, n)) = Range(s) \ {s[n]}
<1>0. PICK t \in Seq(E) :
         /\ t = RemoveAt(s, n) /\ Len(t) = Len(s) - 1
         /\ \A i \in 1 .. Len(t) : t[i] = IF i < n THEN s[i] ELSE s[i + 1]
  BY Removed, Zenon
<1>1. PICK l \in Nat :
         /\ l = Len(s) /\ Len(t) = l - 1 /\ n \in 1 .. l
         /\ \A i \in 1 .. (l - 1) : t[i] = IF i < n THEN s[i] ELSE s[i + 1]
  BY <1>0
<1>2. \A i, k \in 1 .. l : s[i] = s[k] => i = k
  BY <1>1, Once
<1>3. ASSUME NEW i \in 1 .. (l - 1)
      PROVE  \E u \in 1 .. l : u = (IF i < n THEN i ELSE i + 1) /\ u # n /\ t[i] = s[u]
  <2>1. CASE i < n
    BY <1>1, <2>1
  <2>2. CASE ~(i < n)
    BY <1>1, <2>2
  <2>. QED
    BY <2>1, <2>2
<1>4. ASSUME NEW i \in 1 .. (l - 1), NEW k \in 1 .. (l - 1), t[i] = t[k] PROVE i = k
  <2>1. PICK u \in 1 .. l : u = (IF i < n THEN i ELSE i + 1) /\ t[i] = s[u]
    BY <1>3
  <2>2. PICK v \in 1 .. l : v = (IF k < n THEN k ELSE k + 1) /\ t[k] = s[v]
    BY <1>3
  <2>3. u = v
    BY <1>2, <1>4, <2>1, <2>2, Zenon
  <2>. QED
    BY <1>1, <2>1, <2>2, <2>3
<1>5. IsInjective(t)
  BY <1>1, <1>4, Once
<1>6. ASSUME NEW y, NEW i \in 1 .. (l - 1), t[i] = y
      PROVE  y # s[n] /\ \E k \in 1 .. l : s[k] = y
  <2>1. PICK u \in 1 .. l : u # n /\ t[i] = s[u]
    BY <1>3
  <2>. QED
    BY <1>1, <1>2, <1>6, <2>1, Zenon
<1>7. ASSUME NEW y, NEW k \in 1 .. l, s[k] = y, y # s[n]
      PROVE  \E i \in 1 .. (l - 1) : t[i] = y
  <2>1. k # n
    BY <1>7
  <2>2. CASE k < n
    <3>1. k \in 1 .. (l - 1) /\ t[k] = s[k]
      BY <1>1, <2>2
    <3>. QED
      BY <1>7, <3>1, Zenon
  <2>3. CASE k > n
    <3>1. k - 1 \in 1 .. (l - 1) /\ ~(k - 1 < n) /\ (k - 1) + 1 = k
      BY <1>1, <2>3
    <3>2. t[k - 1] = s[k]
      BY <1>1, <3>1
    <3>. QED
      BY <1>7, <3>1, <3>2, Zenon
  <2>. QED
    BY <1>1, <2>1, <2>2, <2>3
<1>8. ASSUME NEW y PROVE y \in Range(t) <=> y \in Range(s) /\ y # s[n]
  <2>1. y \in Range(t) <=> \E i \in 1 .. (l - 1) : t[i] = y
    BY <1>1, InList
  <2>2. y \in Range(s) <=> \E i \in 1 .. l : s[i] = y
    BY <1>1, InList
  <2>. QED
    BY <1>6, <1>7, <2>1, <2>2, Zenon
<1>9. Range(t) = Range(s) \ {s[n]}
  BY <1>8
<1>. QED
  BY <1>0, <1>5, <1>9, Zenon

\* A list that has no element twice, one element taken out.
LEMMA RemovedOnce ==
    ASSUME NEW E, NEW s \in Seq(E), IsInjective(s), NEW x
    PROVE  /\ RemoveFirst(s, x) \in Seq(E) /\ IsInjective(RemoveFirst(s, x))
           /\ Range(RemoveFirst(s, x)) = Range(s) \ {x}
<1>1. CASE \E i \in 1 .. Len(s) : s[i] = x
  <2> DEFINE T == {i \in 1 .. Len(s) : s[i] = x}
             n == Min(T)
  <2>1. T \subseteq Nat /\ T # {}
    BY <1>1
  <2>2. n \in T
    BY <2>1, LeastIsMin
  <2>3. RemoveFirst(s, x) = RemoveAt(s, n)
    BY <1>1, <2>1, Zenon DEF RemoveFirst, SelectInSeq
  <2>4. n \in 1 .. Len(s) /\ s[n] = x
    BY <2>2
  <2> HIDE DEF n, T
  <2>5. RemoveAt(s, n) \in Seq(E)
    BY <2>4, Removed, Zenon
  <2>6. IsInjective(RemoveAt(s, n)) /\ Range(RemoveAt(s, n)) = Range(s) \ {s[n]}
    BY <2>4, Shrunk, Zenon
  <2>. QED
    BY <2>3, <2>4, <2>5, <2>6, Zenon
<1>2. CASE ~\E i \in 1 .. Len(s) : s[i] = x
  <2>1. RemoveFirst(s, x) = s
    BY <1>2, Zenon DEF RemoveFirst
  <2>2. x \notin Range(s)
    BY <1>2, InList
  <2>. QED
    BY <2>1, <2>2
<1>. QED
  BY <1>1, <1>2

\* A list that has no element twice, with a new one at its end.
LEMMA AppendedOnce ==
    ASSUME NEW E, NEW s \in Seq(E), IsInjective(s), NEW x \in E, x \notin Range(s)
    PROVE  /\ Append(s, x) \in Seq(E) /\ IsInjective(Append(s, x))
           /\ Range(Append(s, x)) = Range(s) \cup {x}
<1>0. PICK t : t = Append(s, x)
  OBVIOUS
<1>1. PICK l \in Nat : l = Len(s)
  OBVIOUS
<1>2. /\ t \in Seq(E) /\ Len(t) = l + 1 /\ t[l + 1] = x
      /\ \A i \in 1 .. l : t[i] = s[i]
  BY <1>0, <1>1
<1>3. \A i \in 1 .. l : s[i] # x
  BY <1>1, InList
<1>4. \A i, k \in 1 .. l : s[i] = s[k] => i = k
  BY <1>1, Once
<1>5. \A i \in 1 .. (l + 1) : i \in 1 .. l \/ i = l + 1
  BY <1>1
<1>6. \A i, k \in 1 .. (l + 1) : t[i] = t[k] => i = k
  BY <1>2, <1>3, <1>4, <1>5, Zenon
<1>7. IsInjective(t)
  BY <1>2, <1>6, Once
<1>8. ASSUME NEW y PROVE y \in Range(t) <=> y \in Range(s) \/ y = x
  <2>1. y \in Range(t) <=> \E i \in 1 .. (l + 1) : t[i] = y
    BY <1>2, InList
  <2>2. y \in Range(s) <=> \E i \in 1 .. l : s[i] = y
    BY <1>1, InList
  <2>3. l + 1 \in 1 .. (l + 1) /\ \A i \in 1 .. l : i \in 1 .. (l + 1)
    BY <1>1
  <2>. QED
    BY <1>2, <1>5, <2>1, <2>2, <2>3, Zenon
<1>9. Range(t) = Range(s) \cup {x}
  BY <1>8
<1>. QED
  BY <1>0, <1>2, <1>7, <1>9, Zenon

-----------------------------------------------------------------------------
(***************************************************************************)
(* What a Claim goes through.                                              *)
(***************************************************************************)

\* The jobs of a workspace that have not ended are in its queue, once.
QueueListsOpen(ws) ==
    /\ Range(queues[ws]) = {j \in Jobs : Open(j) /\ WorkspaceOf[j] = ws}
    /\ IsInjective(queues[ws])

QueuesInv ==
    /\ queues \in [Workspaces -> Seq(Jobs)]
    /\ \A ws \in Workspaces : QueueListsOpen(ws)

\* No workspace is registered twice.
ScopesInv == scopes \in Seq(Workspaces) /\ IsInjective(scopes)

\* Where a loop is tells what it has: a workspace to visit, a job to work
\* on, and at its UPDATE a job that has not ended, or a row that changed.
LoopTells(p) ==
    /\ pc[p] \in {"visit", "update"} => todo[p] # << >>
    /\ pc[p] = "process" => job[p] \in Jobs
    /\ pc[p] = "update" /\ job[p] # NoJob => Open(job[p])

LoopsInv ==
    /\ job \in [Pollers -> Jobs \cup {NoJob}]
    /\ taken \in [Pollers -> Nat]
    /\ todo \in [Pollers -> Seq(Workspaces)]
    /\ \A p \in Pollers : LoopTells(p)

\* The second inductive invariant.
ListsInv == QueuesInv /\ ScopesInv /\ LoopsInv

\* What Close cut off was the claim of a job.
CutType == cut \in [Pollers -> Jobs \cup {NoJob}]

\* Together with the first it is the type invariant, and more.
LEMMA ListsType == PollInv /\ ListsInv /\ CutType => TypeOK
<1> SUFFICES ASSUME PollInv, ListsInv, CutType PROVE TypeOK
  OBVIOUS
<1>1. rows \in [Jobs -> [status : {"queued", "running", "ended"},
                         attempts : 0 .. (MaxAttempts - 1), due : BOOLEAN,
                         leased : BOOLEAN, holder : Pollers \cup {NoPoller}]]
  BY Zenon DEF PollInv, Row
<1>2. \A ws \in Workspaces :
         /\ Range(queues[ws]) = {j \in Jobs : Open(j) /\ WorkspaceOf[j] = ws}
         /\ IsInjective(queues[ws])
  BY Zenon DEF ListsInv, QueuesInv, QueueListsOpen
<1>3. Range(scopes) \subseteq Workspaces /\ IsInjective(scopes)
  BY RangeOfSeq DEF ListsInv, ScopesInv
<1>4. taken \in [Pollers -> Nat] /\ job \in [Pollers -> Jobs \cup {NoJob}]
  BY Zenon DEF ListsInv, LoopsInv
<1>. QED
  BY <1>1, <1>2, <1>3, <1>4, Zenon DEF TypeOK, CutType

\* No step cuts off anything else.
LEMMA CutTypeStep == LoopsInv /\ CutType /\ [Next]_vars => CutType'
<1> SUFFICES ASSUME LoopsInv, CutType, [Next]_vars PROVE CutType'
  OBVIOUS
<1>1. ASSUME NEW p \in Pollers, cut' = [cut EXCEPT ![p] = job[p]] PROVE CutType'
  BY <1>1 DEF CutType, LoopsInv
<1>2. ASSUME NEW p \in Pollers, cut' = [cut EXCEPT ![p] = NoJob] PROVE CutType'
  BY <1>2 DEF CutType
<1>3. ASSUME UNCHANGED cut PROVE CutType'
  BY <1>3 DEF CutType
<1>4. ASSUME NEW j \in Jobs, Submit(j) \/ Cancel(j) \/ Due(j) \/ LeaseEnds(j)
      PROVE  CutType'
  BY <1>3, <1>4 DEF Submit, Cancel, Due, LeaseEnds
<1>5. ASSUME NEW p \in Pollers,
             \/ ListScopes(p) \/ Visit(p) \/ Claim(p) \/ ClaimMissed(p) \/ Completed(p)
             \/ Fail(p) \/ Tick(p) \/ Stop(p) \/ Heartbeat(p) \/ FailError(p)
             \/ Close(p) \/ Crash(p)
      PROVE  CutType'
  BY <1>3, <1>5 DEF ListScopes, Visit, Claim, ClaimMissed, Completed, Fail, Tick, Stop,
                    Heartbeat, FailError, Close, Crash
<1>6. ASSUME NEW p \in Pollers, ClaimError(p) PROVE CutType'
  <2>1. cut' = cut \/ cut' = [cut EXCEPT ![p] = job[p]]
    BY <1>6 DEF ClaimError, ClaimCut
  <2>. QED
    BY <1>1, <1>3, <2>1
<1>7. ASSUME NEW p \in Pollers, Restart(p) PROVE CutType'
  BY <1>2, <1>7 DEF Restart
<1>8. ASSUME UNCHANGED vars PROVE CutType'
  BY <1>3, <1>8 DEF vars
<1>. QED
  BY <1>4, <1>5, <1>6, <1>7, <1>8 DEF Next, Loop

-----------------------------------------------------------------------------
\* The jobs that have not ended after a step.
OpenNext(j) == rows'[j].status \in {"queued", "running"}

\* A step that ends no job and submits none leaves the queues right.
LEMMA SameQueues ==
    ASSUME QueuesInv, UNCHANGED queues, \A j \in Jobs : OpenNext(j) <=> Open(j)
    PROVE  QueuesInv'
<1>1. ASSUME NEW ws \in Workspaces PROVE QueueListsOpen(ws)'
  <2>1. {j \in Jobs : Open(j)' /\ WorkspaceOf[j] = ws}
          = {j \in Jobs : Open(j) /\ WorkspaceOf[j] = ws}
    BY DEF Open, OpenNext
  <2>. QED
    BY <2>1 DEF QueuesInv, QueueListsOpen
<1>. QED
  BY <1>1 DEF QueuesInv

\* A step that adds a job to its queue or takes it out, with its row.
LEMMA ChangedQueue ==
    ASSUME QueuesInv, NEW j \in Jobs, NEW q \in Seq(Jobs), IsInjective(q),
           queues' = [queues EXCEPT ![WorkspaceOf[j]] = q],
           \A k \in Jobs \ {j} : OpenNext(k) <=> Open(k),
           \A k : k \in Range(q) <=>
              IF k = j THEN OpenNext(j) ELSE k \in Range(queues[WorkspaceOf[j]])
    PROVE  QueuesInv'
<1>1. WorkspaceOf[j] \in Workspaces
  BY PollAssumption
<1>2. /\ queues' \in [Workspaces -> Seq(Jobs)] /\ queues'[WorkspaceOf[j]] = q
      /\ \A ws \in Workspaces : ws # WorkspaceOf[j] => queues'[ws] = queues[ws]
  BY <1>1 DEF QueuesInv
<1>3. ASSUME NEW ws \in Workspaces PROVE QueueListsOpen(ws)'
  <2>1. /\ Range(queues[ws]) = {k \in Jobs : Open(k) /\ WorkspaceOf[k] = ws}
        /\ IsInjective(queues[ws])
    BY DEF QueuesInv, QueueListsOpen
  <2>2. CASE ws = WorkspaceOf[j]
    <3>1. ASSUME NEW k
          PROVE  k \in Range(q) <=> k \in Jobs /\ OpenNext(k) /\ WorkspaceOf[k] = ws
      BY <2>1, <2>2
    <3>2. Range(q) = {k \in Jobs : OpenNext(k) /\ WorkspaceOf[k] = ws}
      BY <3>1
    <3>. QED
      BY <1>2, <2>2, <3>2 DEF QueueListsOpen, Open, OpenNext
  <2>3. CASE ws # WorkspaceOf[j]
    <3>1. {k \in Jobs : Open(k) /\ WorkspaceOf[k] = ws}
            = {k \in Jobs : OpenNext(k) /\ WorkspaceOf[k] = ws}
      BY <2>3
    <3>. QED
      BY <1>2, <2>1, <2>3, <3>1 DEF QueueListsOpen, Open, OpenNext
  <2>. QED
    BY <2>2, <2>3
<1>. QED
  BY <1>2, <1>3 DEF QueuesInv

\* A submission.
LEMMA SubmitQueues ==
    ASSUME PollInv, QueuesInv, NEW j \in Jobs, Submit(j)
    PROVE  QueuesInv'
<1>1. PICK s : s = queues[WorkspaceOf[j]]
  OBVIOUS
<1>2. /\ s \in Seq(Jobs) /\ IsInjective(s) /\ WorkspaceOf[j] \in Workspaces
      /\ Range(s) = {k \in Jobs : Open(k) /\ WorkspaceOf[k] = WorkspaceOf[j]}
  BY <1>1, PollAssumption DEF QueuesInv, QueueListsOpen
<1>3. ~Open(j) /\ rows' = [rows EXCEPT ![j] = Fresh]
  BY DEF Submit
<1>4. s \in Seq(Jobs) /\ IsInjective(s) /\ j \notin Range(s)
  BY <1>2, <1>3
<1>5. PICK q :
         /\ q = Append(s, j)
         /\ q \in Seq(Jobs) /\ IsInjective(q) /\ Range(q) = Range(s) \cup {j}
  <2>1. j \in Jobs
    OBVIOUS
  <2>2. /\ Append(s, j) \in Seq(Jobs) /\ IsInjective(Append(s, j))
        /\ Range(Append(s, j)) = Range(s) \cup {j}
    BY <1>4, <2>1, AppendedOnce, SMT
  <2>. QED
    BY <2>2, Zenon
<1>6. queues' = [queues EXCEPT ![WorkspaceOf[j]] = q]
  BY <1>1, <1>5, Zenon DEF Submit
<1>7. OpenNext(j) /\ \A k \in Jobs \ {j} : OpenNext(k) <=> Open(k)
  BY <1>3, PlainRows DEF PollInv, Open, OpenNext
<1>. QED
  BY <1>1, <1>5, <1>6, <1>7, ChangedQueue

\* The end of a job.
LEMMA EndQueues ==
    ASSUME PollInv, QueuesInv, NEW j \in Jobs, End(j)
    PROVE  QueuesInv'
<1>1. PICK s : s = queues[WorkspaceOf[j]]
  OBVIOUS
<1>2. /\ s \in Seq(Jobs) /\ IsInjective(s) /\ WorkspaceOf[j] \in Workspaces
  BY <1>1, PollAssumption DEF QueuesInv, QueueListsOpen
<1>3. rows' = [rows EXCEPT ![j] = NoRow]
  BY DEF End
<1>4. PICK q : q = RemoveFirst(s, j)
  OBVIOUS
<1>5. q \in Seq(Jobs) /\ IsInjective(q) /\ Range(q) = Range(s) \ {j}
  BY <1>2, <1>4, RemovedOnce, Zenon
<1>6. queues' = [queues EXCEPT ![WorkspaceOf[j]] = q]
  BY <1>1, <1>4, Zenon DEF End
<1>7. ~OpenNext(j) /\ \A k \in Jobs \ {j} : OpenNext(k) <=> Open(k)
  BY <1>3, PlainRows DEF PollInv, Open, OpenNext
<1>. QED
  BY <1>1, <1>5, <1>6, <1>7, ChangedQueue

\* The upsert of a workspace.
LEMMA RegisteredOnce ==
    ASSUME ScopesInv, NEW ws \in Workspaces, registerScope(ws)
    PROVE  ScopesInv'
<1>1. PICK t : t = RemoveFirst(scopes, ws)
  OBVIOUS
<1>2. t \in Seq(Workspaces) /\ IsInjective(t) /\ Range(t) = Range(scopes) \ {ws}
  BY <1>1, RemovedOnce, Zenon DEF ScopesInv
<1>3. ws \notin Range(t)
  BY <1>2
<1>4. scopes' = Append(t, ws)
  BY <1>1, Zenon DEF registerScope
<1>. QED
  BY <1>2, <1>3, <1>4, AppendedOnce, Zenon DEF ScopesInv

-----------------------------------------------------------------------------
\* What a step leaves of a loop that does not take it: at most the job it
\* has selected is spoilt, and a selected job that is not spoilt stays open.
KeptLoop(q) ==
    /\ pc'[q] = pc[q] /\ todo'[q] = todo[q]
    /\ \/ job'[q] = job[q]
          /\ (pc[q] = "update" /\ job[q] # NoJob /\ Open(job[q]) => OpenNext(job[q]))
       \/ pc[q] = "update" /\ job'[q] = NoJob

\* Such a loop still tells what it has.
LEMMA KeptTells ==
    ASSUME NEW q, LoopTells(q), KeptLoop(q)
    PROVE  LoopTells(q)'
BY PollAssumption DEF LoopTells, KeptLoop, Open, OpenNext

\* A loop that has no workspace and no job to speak of.
LEMMA FreeTells ==
    ASSUME NEW p, pc'[p] \in {"select", "claim", "stopped", "down"}
    PROVE  LoopTells(p)'
BY DEF LoopTells

\* A step that moves at most one loop.
LEMMA OneLoop ==
    ASSUME LoopsInv, NEW p, p \in Pollers => LoopTells(p)',
           job' \in [Pollers -> Jobs \cup {NoJob}], taken' \in [Pollers -> Nat],
           todo' \in [Pollers -> Seq(Workspaces)],
           \A q \in Pollers \ {p} : KeptLoop(q)
    PROVE  LoopsInv'
BY KeptTells DEF LoopsInv

\* Where the loop goes after a job or after the last workspace.
LEMMA LeftBatch ==
    ASSUME PollInv, LoopsInv, NEW p \in Pollers, Wait(p) \/ NextClaim(p)
    PROVE  /\ taken' \in [Pollers -> Nat] /\ pc'[p] \in {"select", "claim"}
           /\ \A q \in Pollers \ {p} : pc'[q] = pc[q]
<1>1. PICK n \in Nat : n = taken[p]
  BY DEF LoopsInv
<1>2. \/ pc' = [pc EXCEPT ![p] = "select"] /\ taken' = [taken EXCEPT ![p] = 0]
      \/ pc' = [pc EXCEPT ![p] = "claim"] /\ taken' = [taken EXCEPT ![p] = n + 1]
  BY <1>1 DEF Wait, NextClaim, Goto
<1>3. PICK m \in Nat, x \in {"select", "claim"} :
         pc' = [pc EXCEPT ![p] = x] /\ taken' = [taken EXCEPT ![p] = m]
  BY <1>2
<1>4. taken' \in [Pollers -> Nat]
  BY <1>3 DEF LoopsInv
<1>5. pc'[p] = x /\ \A q \in Pollers \ {p} : pc'[q] = pc[q]
  BY <1>3 DEF PollInv
<1>. QED
  BY <1>3, <1>4, <1>5

\* A selected job is spoilt, or let go, and nothing else happens to the jobs.
LEMMA SpoiltJobs ==
    ASSUME LoopsInv, NEW j, NEW p, Spoil(j, p)
    PROVE  /\ job' \in [Pollers -> Jobs \cup {NoJob}]
           /\ \A q \in Pollers :
                 \/ job'[q] = job[q] /\ ~(q # p /\ pc[q] = "update" /\ job[q] = j)
                 \/ q # p /\ pc[q] = "update" /\ job'[q] = NoJob
BY DEF Spoil, LoopsInv

\* The same of a job that is let go.
LEMMA LetGoJobs ==
    ASSUME LoopsInv, NEW p, LetGo(p)
    PROVE  /\ job' \in [Pollers -> Jobs \cup {NoJob}]
           /\ \A q \in Pollers \ {p} :
                 \/ job'[q] = job[q] /\ ~(pc[q] = "update" /\ job[q] = job[p])
                 \/ pc[q] = "update" /\ job'[q] = NoJob
BY DEF LetGo, LoopsInv

\* Submissions, cancellations, due retries and leases that run out.
LEMMA RowStepLoops ==
    ASSUME PollInv, ListsInv, NEW j \in Jobs,
           Submit(j) \/ Cancel(j) \/ Due(j) \/ LeaseEnds(j)
    PROVE  LoopsInv'
<1> USE DEF ListsInv
<1>1. CASE Submit(j) \/ Due(j) \/ LeaseEnds(j)
  <2>1. UNCHANGED <<pc, todo, taken, job>>
    BY <1>1 DEF Submit, Due, LeaseEnds
  <2>2. ASSUME NEW k \in Jobs, Open(k) PROVE OpenNext(k)
    <3>1. CASE k # j
      <4>1. rows'[k] = rows[k]
        BY <1>1, <3>1 DEF PollInv, Submit, Due, LeaseEnds
      <4>. QED
        BY <2>2, <4>1 DEF Open, OpenNext
    <3>2. CASE k = j /\ Submit(j)
      BY <2>2, <3>2 DEF Submit
    <3>3. CASE k = j /\ (Due(j) \/ LeaseEnds(j))
      <4>1. rows'[j].status = rows[j].status
        <5>1. PICK r \in Row : r = rows[j]
          BY DEF PollInv
        <5>2. \/ rows' = [rows EXCEPT ![j] = [r EXCEPT !.due = TRUE]]
              \/ rows' = [rows EXCEPT ![j] = [r EXCEPT !.leased = FALSE]]
          BY <3>3, <5>1, Zenon DEF Due, LeaseEnds
        <5>3. PICK s : s.status = r.status /\ rows' = [rows EXCEPT ![j] = s]
          BY <5>2, FlaggedRows, Zenon
        <5>. QED
          BY <5>1, <5>3 DEF PollInv
      <4>. QED
        BY <2>2, <3>3, <4>1 DEF Open, OpenNext
    <3>. QED
      BY <1>1, <3>1, <3>2, <3>3
  <2>3. \A q \in Pollers : KeptLoop(q)
    BY <2>1, <2>2 DEF KeptLoop, LoopsInv
  <2>. QED
    BY <2>1, <2>3, OneLoop, PollAssumption DEF LoopsInv
<1>2. CASE Cancel(j)
  <2>1. UNCHANGED <<pc, todo, taken>> /\ Spoil(j, NoPoller)
        /\ rows' = [rows EXCEPT ![j] = NoRow]
    BY <1>2 DEF Cancel, End
  <2>2. ASSUME NEW q \in Pollers PROVE KeptLoop(q)
    <3>1. q # NoPoller /\ job[q] \in Jobs \cup {NoJob}
      BY PollAssumption DEF LoopsInv
    <3>2. \A k \in Jobs \ {j} : rows'[k] = rows[k]
      BY <2>1 DEF PollInv
    <3>. QED
      BY <2>1, <3>1, <3>2, SpoiltJobs DEF KeptLoop, Open, OpenNext
  <2>. QED
    BY <2>1, <2>2, SpoiltJobs, OneLoop, PollAssumption DEF LoopsInv
<1>. QED
  BY <1>1, <1>2

\* The steps of a loop that leave the rows alone and go where nothing is
\* needed.
LEMMA FreeLoop ==
    ASSUME PollInv, ListsInv, NEW p \in Pollers, UNCHANGED rows,
           pc'[p] \in {"select", "claim", "stopped", "down"},
           \A q \in Pollers \ {p} :
              pc'[q] = pc[q] /\ todo'[q] = todo[q] /\ job'[q] = job[q],
           job' \in [Pollers -> Jobs \cup {NoJob}], taken' \in [Pollers -> Nat],
           todo' \in [Pollers -> Seq(Workspaces)]
    PROVE  LoopsInv'
<1>1. \A q \in Pollers \ {p} : KeptLoop(q)
  BY DEF KeptLoop, Open, OpenNext
<1>. QED
  BY <1>1, FreeTells, OneLoop DEF ListsInv

\* The next workspace, or none.
LEMMA NextScopeLoops ==
    ASSUME PollInv, ListsInv, NEW p \in Pollers, todo[p] # << >>, NextScope(p),
           UNCHANGED <<rows, job>>
    PROVE  LoopsInv'
<1> USE DEF ListsInv
<1>1. PICK t \in Seq(Workspaces) : t = todo[p] /\ t # << >>
  BY DEF LoopsInv
<1>2. Tail(t) \in Seq(Workspaces) /\ (Len(t) > 1 => Tail(t) # << >>)
  <2>1. Tail(t) \in Seq(Workspaces) /\ Len(Tail(t)) = Len(t) - 1
    BY <1>1
  <2>. QED
    BY <1>1, <2>1
<1>3. todo' = [todo EXCEPT ![p] = Tail(t)]
  BY <1>1, Zenon DEF NextScope
<1>4. /\ todo' \in [Pollers -> Seq(Workspaces)] /\ todo'[p] = Tail(t)
      /\ \A q \in Pollers \ {p} : todo'[q] = todo[q]
  BY <1>2, <1>3 DEF LoopsInv
<1>5. CASE Len(t) > 1
  <2>1. /\ pc'[p] = "visit" /\ \A q \in Pollers \ {p} : pc'[q] = pc[q]
        /\ UNCHANGED taken
    BY <1>1, <1>5 DEF NextScope, Goto, PollInv
  <2>2. LoopTells(p)'
    BY <1>2, <1>4, <1>5, <2>1 DEF LoopTells
  <2>3. \A q \in Pollers \ {p} : KeptLoop(q)
    BY <1>4, <2>1 DEF KeptLoop, Open, OpenNext
  <2>. QED
    BY <1>4, <2>1, <2>2, <2>3, OneLoop DEF LoopsInv
<1>6. CASE ~(Len(t) > 1)
  <2>1. Wait(p)
    BY <1>1, <1>6 DEF NextScope
  <2>. QED
    BY <1>4, <2>1, LeftBatch, FreeLoop DEF LoopsInv
<1>. QED
  BY <1>5, <1>6

\* The steps of a loop on its way to a claim.
LEMMA ClaimLoopLoops ==
    ASSUME PollInv, ListsInv, NEW p \in Pollers,
           \/ ListScopes(p) \/ Visit(p) \/ ClaimMissed(p)
           \/ ClaimError(p) /\ job' = [job EXCEPT ![p] = NoJob] /\ UNCHANGED rows
           \/ Tick(p) \/ Stop(p) \/ Restart(p) \/ Crash(p) \/ Close(p)
    PROVE  LoopsInv'
<1> USE DEF ListsInv
<1>1. CASE ListScopes(p)
  <2>1. UNCHANGED <<rows, job>>
    BY <1>1 DEF ListScopes
  <2>2. CASE scopes = << >>
    <3>1. Wait(p) /\ UNCHANGED todo
      BY <1>1, <2>2 DEF ListScopes
    <3>. QED
      BY <2>1, <3>1, LeftBatch, FreeLoop DEF LoopsInv
  <2>3. CASE scopes # << >>
    <3>1. /\ pc' = [pc EXCEPT ![p] = "visit"] /\ todo' = [todo EXCEPT ![p] = scopes]
          /\ UNCHANGED taken
      BY <1>1, <2>3 DEF ListScopes, Goto
    <3>2. /\ todo' \in [Pollers -> Seq(Workspaces)]
          /\ pc'[p] = "visit" /\ todo'[p] = scopes
          /\ \A q \in Pollers \ {p} : pc'[q] = pc[q] /\ todo'[q] = todo[q]
      BY <3>1 DEF PollInv, LoopsInv, ScopesInv
    <3>3. LoopTells(p)'
      BY <2>3, <3>2 DEF LoopTells
    <3>4. \A q \in Pollers \ {p} : KeptLoop(q)
      BY <2>1, <3>2 DEF KeptLoop, Open, OpenNext
    <3>. QED
      BY <2>1, <3>1, <3>2, <3>3, <3>4, OneLoop DEF LoopsInv
  <2>. QED
    BY <2>2, <2>3
<1>2. CASE Visit(p)
  <2>1. PICK ws : ws = Head(todo[p])
    OBVIOUS
  <2>2. pc[p] = "visit" /\ UNCHANGED <<rows, queues>>
    BY <1>2 DEF Visit
  <2>3. todo[p] \in Seq(Workspaces) /\ todo[p] # << >>
    BY <2>2 DEF LoopsInv, LoopTells
  <2>4. ws \in Workspaces
    BY <2>1, <2>3
  <2>5. CASE Candidates(ws) = {}
    BY <1>2, <2>1, <2>3, <2>5, NextScopeLoops DEF Visit
  <2>6. CASE Candidates(ws) # {}
    <3>1. PICK i : i = Min(Candidates(ws))
      OBVIOUS
    <3>2. queues[ws] \in Seq(Jobs)
      BY <2>4 DEF QueuesInv
    <3>3. Candidates(ws) \subseteq Nat
      BY <3>2 DEF Candidates
    <3>4. i \in DOMAIN queues[ws]
      BY <2>6, <3>1, <3>3, LeastIsMin DEF Candidates
    <3>5. PICK j : j = queues[ws][i]
      OBVIOUS
    <3>6. j \in Jobs /\ Open(j)
      <4>1. j \in Range(queues[ws])
        BY <3>4, <3>5 DEF Range
      <4>. QED
        BY <2>4, <4>1 DEF QueuesInv, QueueListsOpen
    <3>7. /\ job' = [job EXCEPT ![p] = j] /\ pc' = [pc EXCEPT ![p] = "update"]
          /\ UNCHANGED <<todo, taken>>
      BY <1>2, <2>1, <2>6, <3>1, <3>5 DEF Visit, Oldest, Goto
    <3>8. /\ job' \in [Pollers -> Jobs \cup {NoJob}]
          /\ pc'[p] = "update" /\ job'[p] = j
          /\ \A q \in Pollers \ {p} : pc'[q] = pc[q] /\ job'[q] = job[q]
      BY <3>6, <3>7 DEF PollInv, LoopsInv
    <3>9. LoopTells(p)'
      BY <2>2, <2>3, <3>6, <3>7, <3>8 DEF LoopTells, Open
    <3>10. \A q \in Pollers \ {p} : KeptLoop(q)
      BY <2>2, <3>7, <3>8 DEF KeptLoop, Open, OpenNext
    <3>. QED
      BY <3>7, <3>8, <3>9, <3>10, OneLoop DEF LoopsInv
  <2>. QED
    BY <2>5, <2>6
<1>3. CASE ClaimMissed(p)
  BY <1>3, NextScopeLoops DEF ClaimMissed, LoopsInv, LoopTells
<1>4. CASE ClaimError(p) /\ job' = [job EXCEPT ![p] = NoJob] /\ UNCHANGED rows
  <2>1. /\ Wait(p) /\ UNCHANGED rows /\ job' = [job EXCEPT ![p] = NoJob]
        /\ todo' = [todo EXCEPT ![p] = << >>]
    BY <1>4 DEF ClaimError
  <2>2. /\ job' \in [Pollers -> Jobs \cup {NoJob}]
        /\ todo' \in [Pollers -> Seq(Workspaces)]
        /\ \A q \in Pollers \ {p} : todo'[q] = todo[q] /\ job'[q] = job[q]
    BY <2>1 DEF LoopsInv
  <2>. QED
    BY <2>1, <2>2, LeftBatch, FreeLoop
<1>5. CASE Tick(p) \/ Stop(p) \/ Restart(p)
  <2>1. /\ UNCHANGED <<rows, todo, taken, job>>
        /\ pc' = [pc EXCEPT ![p] = "claim"] \/ pc' = [pc EXCEPT ![p] = "stopped"]
    BY <1>5 DEF Tick, Stop, Restart, Goto
  <2>2. pc'[p] \in {"claim", "stopped"} /\ \A q \in Pollers \ {p} : pc'[q] = pc[q]
    BY <2>1 DEF PollInv
  <2>3. job' = job /\ taken' = taken /\ todo' = todo
    BY <2>1
  <2>. QED
    BY <2>1, <2>2, <2>3, FreeLoop DEF LoopsInv
<1>6. CASE Crash(p)
  <2>1. /\ UNCHANGED rows /\ job' = [job EXCEPT ![p] = NoJob]
        /\ todo' = [todo EXCEPT ![p] = << >>] /\ taken' = [taken EXCEPT ![p] = 0]
        /\ pc' = [pc EXCEPT ![p] = "down"]
    BY <1>6 DEF Crash, Goto
  <2>2. /\ job' \in [Pollers -> Jobs \cup {NoJob}] /\ taken' \in [Pollers -> Nat]
        /\ todo' \in [Pollers -> Seq(Workspaces)] /\ pc'[p] = "down"
        /\ \A q \in Pollers \ {p} :
              pc'[q] = pc[q] /\ todo'[q] = todo[q] /\ job'[q] = job[q]
    BY <2>1 DEF LoopsInv, PollInv
  <2>. QED
    BY <2>1, <2>2, FreeLoop
<1>7. CASE Close(p)
  BY <1>7 DEF Close, LoopsInv, LoopTells, Open
<1>. QED
  BY <1>1, <1>2, <1>3, <1>4, <1>5, <1>6, <1>7

\* A claim, and a renewed lease: the row they find has not ended and has not
\* after it.
LEMMA ClaimLists ==
    ASSUME PollInv, ListsInv, NEW p \in Pollers, Claim(p) \/ Heartbeat(p)
    PROVE  LoopsInv' /\ QueuesInv'
<1> USE DEF ListsInv
<1>1. PICK j : j = job[p]
  OBVIOUS
<1>2. j \in Jobs /\ Open(j)
  <2>1. CASE Claim(p)
    BY <1>1, <2>1 DEF Claim, UpdateApplied, LoopsInv, LoopTells
  <2>2. CASE Heartbeat(p)
    BY <1>1, <2>2 DEF Heartbeat, Holds, LoopsInv, LoopTells, Open
  <2>. QED
    BY <2>1, <2>2
<1>3. Spoil(j, p) /\ UNCHANGED <<queues, taken>>
  BY <1>1 DEF Claim, Heartbeat
<1>4. PICK r \in Row : r = rows[j]
  BY <1>2 DEF PollInv
<1>5. rows'[j].status \in {"queued", "running"} /\ \A k \in Jobs \ {j} : rows'[k] = rows[k]
  <2>1. CASE Claim(p)
    <3>1. rows' = [rows EXCEPT ![j] =
             [r EXCEPT !.status = "running", !.leased = TRUE, !.due = TRUE, !.holder = p]]
      BY <1>1, <1>4, <2>1, Zenon DEF Claim, UpdateApplied
    <3>2. PICK s : s = [r EXCEPT !.status = "running", !.leased = TRUE, !.due = TRUE,
                                 !.holder = p]
      OBVIOUS
    <3>3. s.status = "running"
      BY <3>2 DEF Row
    <3>4. rows' = [rows EXCEPT ![j] = s]
      BY <3>1, <3>2, Zenon
    <3>. QED
      BY <1>2, <3>3, <3>4 DEF PollInv
  <2>2. CASE Heartbeat(p)
    <3>1. rows' = [rows EXCEPT ![j] = [r EXCEPT !.leased = TRUE]]
      BY <1>1, <1>4, <2>2, Zenon DEF Heartbeat
    <3>2. PICK s : s = [r EXCEPT !.leased = TRUE]
      OBVIOUS
    <3>3. s.status = rows[j].status
      BY <1>4, <3>2 DEF Row
    <3>4. rows' = [rows EXCEPT ![j] = s]
      BY <3>1, <3>2, Zenon
    <3>. QED
      BY <1>2, <3>3, <3>4 DEF Open, PollInv
  <2>. QED
    BY <2>1, <2>2
<1>6. \A k \in Jobs : OpenNext(k) <=> Open(k)
  BY <1>2, <1>5 DEF PollInv, Open, OpenNext
<1>7. QueuesInv'
  BY <1>3, <1>6, SameQueues
<1>8. /\ todo' \in [Pollers -> Seq(Workspaces)] /\ pc'[p] = "process"
      /\ \A q \in Pollers \ {p} : pc'[q] = pc[q] /\ todo'[q] = todo[q]
  <2>1. CASE Claim(p)
    <3>1. todo' = [todo EXCEPT ![p] = << >>] /\ pc' = [pc EXCEPT ![p] = "process"]
      BY <2>1 DEF Claim, Goto
    <3>. QED
      BY <3>1 DEF LoopsInv, PollInv
  <2>2. CASE Heartbeat(p)
    BY <2>2 DEF Heartbeat, Holds, LoopsInv, PollInv
  <2>. QED
    BY <2>1, <2>2
<1>9. job' \in [Pollers -> Jobs \cup {NoJob}] /\ job'[p] = j
  BY <1>1, <1>3, SpoiltJobs
<1>10. LoopTells(p)'
  BY <1>2, <1>8, <1>9 DEF LoopTells
<1>11. ASSUME NEW q \in Pollers \ {p} PROVE KeptLoop(q)
  <2>1. job[q] \in Jobs \cup {NoJob}
    BY DEF LoopsInv
  <2>. QED
    BY <1>3, <1>6, <1>8, <2>1, SpoiltJobs DEF KeptLoop
<1>12. LoopsInv'
  BY <1>3, <1>8, <1>9, <1>10, <1>11, OneLoop DEF LoopsInv
<1>. QED
  BY <1>7, <1>12

\* The job of a loop that is done with it: others that had selected it lost
\* it, and no other row has changed.
LEMMA DoneLoops ==
    ASSUME PollInv, ListsInv, NEW p \in Pollers, LetGo(p), Wait(p) \/ NextClaim(p),
           todo' \in [Pollers -> Seq(Workspaces)],
           \A q \in Pollers \ {p} : todo'[q] = todo[q],
           \A k \in Jobs \ {job[p]} : rows'[k] = rows[k]
    PROVE  LoopsInv'
<1> USE DEF ListsInv
<1>1. ASSUME NEW q \in Pollers \ {p} PROVE KeptLoop(q)
  <2>1. job[q] \in Jobs \cup {NoJob}
    BY DEF LoopsInv
  <2>. QED
    BY <2>1, LetGoJobs, LeftBatch DEF KeptLoop, Open, OpenNext
<1>2. job' \in [Pollers -> Jobs \cup {NoJob}]
  BY LetGoJobs
<1>3. LoopTells(p)' /\ taken' \in [Pollers -> Nat]
  BY LeftBatch, FreeTells
<1>. QED
  BY <1>1, <1>2, <1>3, OneLoop

\* A claim that is applied and cut off: the row it finds has not ended and
\* has not after it.
LEMMA CutLists ==
    ASSUME PollInv, ListsInv, NEW p \in Pollers, ClaimError(p), ClaimCut(p)
    PROVE  LoopsInv' /\ QueuesInv'
<1> USE DEF ListsInv
<1>1. PICK j : j = job[p]
  OBVIOUS
<1>2. /\ pc[p] = "update" /\ j # NoJob /\ LetGo(p) /\ Wait(p) /\ UNCHANGED queues
      /\ todo' = [todo EXCEPT ![p] = << >>]
  BY <1>1 DEF ClaimError, ClaimCut, UpdateApplied
<1>3. j \in Jobs /\ Open(j)
  BY <1>1, <1>2 DEF LoopsInv, LoopTells
<1>4. PICK r \in Row : r = rows[j]
  BY <1>3 DEF PollInv
<1>5. PICK s : s = [r EXCEPT !.status = "running", !.leased = TRUE, !.due = TRUE,
                             !.holder = p]
  OBVIOUS
<1>6. s.status = "running"
  BY <1>5 DEF Row
<1>7. rows' = [rows EXCEPT ![j] = s]
  BY <1>1, <1>4, <1>5, Zenon DEF ClaimCut, UpdateApplied
<1>8. rows'[j].status = "running" /\ \A k \in Jobs \ {j} : rows'[k] = rows[k]
  BY <1>3, <1>6, <1>7 DEF PollInv
<1>9. \A k \in Jobs : OpenNext(k) <=> Open(k)
  BY <1>3, <1>8 DEF PollInv, Open, OpenNext
<1>10. /\ todo' \in [Pollers -> Seq(Workspaces)]
       /\ \A q \in Pollers \ {p} : todo'[q] = todo[q]
  BY <1>2 DEF LoopsInv
<1>11. LoopsInv'
  BY <1>1, <1>2, <1>8, <1>10, DoneLoops
<1>. QED
  BY <1>2, <1>9, <1>11, SameQueues

\* The ends of a processing.
LEMMA ProcessedLists ==
    ASSUME PollInv, ListsInv, NEW p \in Pollers, Completed(p) \/ Fail(p) \/ FailError(p)
    PROVE  LoopsInv' /\ QueuesInv'
<1> USE DEF ListsInv
<1>1. PICK j : j = job[p]
  OBVIOUS
<1>2. pc[p] = "process" /\ NextClaim(p) /\ UNCHANGED todo
  BY DEF Completed, Holds, Fail, FailError
<1>3. /\ j \in Jobs /\ todo' \in [Pollers -> Seq(Workspaces)]
      /\ \A q \in Pollers \ {p} : todo'[q] = todo[q]
  BY <1>1, <1>2 DEF LoopsInv, LoopTells
<1>4. ASSUME UNCHANGED <<rows, queues>>, job' = [job EXCEPT ![p] = NoJob]
      PROVE  LoopsInv' /\ QueuesInv'
  <2>1. QueuesInv'
    BY <1>4, SameQueues DEF Open, OpenNext
  <2>2. /\ job' \in [Pollers -> Jobs \cup {NoJob}]
        /\ \A q \in Pollers \ {p} : job'[q] = job[q]
    BY <1>4 DEF LoopsInv
  <2>3. LoopsInv'
    BY <1>2, <1>4, <2>2, LeftBatch, FreeLoop DEF LoopsInv
  <2>. QED
    BY <2>1, <2>3
<1>5. ASSUME End(j), LetGo(p) PROVE LoopsInv' /\ QueuesInv'
  <2>1. \A k \in Jobs \ {j} : rows'[k] = rows[k]
    BY <1>5 DEF End, PollInv
  <2>. QED
    BY <1>1, <1>2, <1>3, <1>5, <2>1, EndQueues, DoneLoops
<1>6. CASE Completed(p)
  BY <1>1, <1>5, <1>6 DEF Completed
<1>7. CASE FailError(p)
  BY <1>4, <1>7 DEF FailError
<1>8. CASE Fail(p) /\ ~Holds(p)
  BY <1>4, <1>8 DEF Fail
<1>9. CASE Fail(p) /\ Holds(p)
  <2>1. Failed(j) /\ LetGo(p) /\ rows[j].status = "running"
    BY <1>1, <1>9 DEF Fail, Holds
  <2>2. CASE ~(rows[j].attempts + 1 < MaxAttempts)
    BY <1>5, <2>1, <2>2 DEF Failed
  <2>3. CASE rows[j].attempts + 1 < MaxAttempts
    <3>1. PICK n \in 0 .. (MaxAttempts - 1) : n = rows[j].attempts + 1
      BY <1>3, <2>3, PollAssumption DEF PollInv, Row
    <3>2. PICK s : s.status = "queued" /\ rows' = [rows EXCEPT ![j] = s]
      BY <2>1, <2>3, <3>1, RequeuedRow DEF Failed
    <3>3. \A k \in Jobs \ {j} : rows'[k] = rows[k]
      BY <3>2 DEF PollInv
    <3>4. \A k \in Jobs : OpenNext(k) <=> Open(k)
      BY <1>3, <2>1, <3>2 DEF PollInv, Open, OpenNext
    <3>5. UNCHANGED queues
      BY <2>1, <2>3 DEF Failed
    <3>. QED
      BY <1>1, <1>2, <1>3, <2>1, <3>3, <3>4, <3>5, SameQueues, DoneLoops
  <2>. QED
    BY <2>2, <2>3
<1>. QED
  BY <1>6, <1>7, <1>8, <1>9

\* Every step keeps the second invariant.
LEMMA ListsStepInv == PollInv /\ ListsInv /\ [Next]_vars => ListsInv'
<1> SUFFICES ASSUME PollInv, ListsInv, [Next]_vars PROVE ListsInv'
  OBVIOUS
<1>1. QueuesInv /\ ScopesInv /\ LoopsInv
  BY DEF ListsInv
<1>2. ASSUME UNCHANGED <<rows, queues>> PROVE QueuesInv'
  BY <1>1, <1>2, SameQueues DEF Open, OpenNext
<1>3. ASSUME UNCHANGED scopes PROVE ScopesInv'
  BY <1>1, <1>3 DEF ScopesInv
<1>4. ASSUME NEW j \in Jobs, Submit(j) PROVE ListsInv'
  <2>1. WorkspaceOf[j] \in Workspaces /\ registerScope(WorkspaceOf[j])
    BY <1>4, PollAssumption DEF Submit
  <2>. QED
    BY <1>1, <1>4, <2>1, SubmitQueues, RegisteredOnce, RowStepLoops DEF ListsInv
<1>5. ASSUME NEW j \in Jobs, Cancel(j) PROVE ListsInv'
  <2>1. End(j) /\ UNCHANGED scopes
    BY <1>5 DEF Cancel
  <2>. QED
    BY <1>1, <1>3, <1>5, <2>1, EndQueues, RowStepLoops DEF ListsInv
<1>6. ASSUME NEW j \in Jobs, Due(j) \/ LeaseEnds(j) PROVE ListsInv'
  <2>1. UNCHANGED <<queues, scopes>>
    BY <1>6 DEF Due, LeaseEnds
  <2>2. PICK s : s.status = rows[j].status /\ rows' = [rows EXCEPT ![j] = s]
    <3>1. PICK r \in Row : r = rows[j]
      BY DEF PollInv
    <3>2. \/ rows' = [rows EXCEPT ![j] = [r EXCEPT !.due = TRUE]]
          \/ rows' = [rows EXCEPT ![j] = [r EXCEPT !.leased = FALSE]]
      BY <1>6, <3>1, Zenon DEF Due, LeaseEnds
    <3>. QED
      BY <3>1, <3>2, FlaggedRows, Zenon
  <2>3. \A k \in Jobs : OpenNext(k) <=> Open(k)
    BY <2>2 DEF PollInv, Open, OpenNext
  <2>. QED
    BY <1>1, <1>3, <1>6, <2>1, <2>3, SameQueues, RowStepLoops DEF ListsInv
<1>7. ASSUME NEW p \in Pollers,
             \/ ListScopes(p) \/ Visit(p) \/ ClaimMissed(p)
             \/ ClaimError(p) /\ job' = [job EXCEPT ![p] = NoJob] /\ UNCHANGED rows
             \/ Tick(p) \/ Stop(p) \/ Restart(p) \/ Crash(p) \/ Close(p)
      PROVE  ListsInv'
  <2>1. UNCHANGED <<rows, queues, scopes>>
    BY <1>7 DEF ListScopes, Visit, ClaimMissed, ClaimError, Tick, Stop, Restart, Crash, Close
  <2>. QED
    BY <1>2, <1>3, <1>7, <2>1, ClaimLoopLoops DEF ListsInv
<1>8. ASSUME NEW p \in Pollers,
             Claim(p) \/ Heartbeat(p) \/ Completed(p) \/ Fail(p) \/ FailError(p)
      PROVE  ListsInv'
  <2>1. UNCHANGED scopes
    BY <1>8 DEF Claim, Heartbeat, Completed, Fail, FailError
  <2>. QED
    BY <1>3, <1>8, <2>1, ClaimLists, ProcessedLists DEF ListsInv
<1>9. ASSUME NEW p \in Pollers, ClaimError(p) PROVE ListsInv'
  <2>1. \/ job' = [job EXCEPT ![p] = NoJob] /\ UNCHANGED rows
        \/ ClaimCut(p)
    BY <1>9 DEF ClaimError
  <2>2. UNCHANGED scopes
    BY <1>9 DEF ClaimError
  <2>. QED
    BY <1>3, <1>7, <1>9, <2>1, <2>2, CutLists DEF ListsInv
<1>10. ASSUME UNCHANGED vars PROVE ListsInv'
  <2>1. LoopsInv'
    BY <1>1, <1>10 DEF vars, LoopsInv, LoopTells, Open
  <2>. QED
    BY <1>2, <1>3, <1>10, <2>1 DEF vars, ListsInv
<1>. QED
  BY <1>4, <1>5, <1>6, <1>7, <1>8, <1>9, <1>10 DEF Next, Loop

-----------------------------------------------------------------------------
\* However jobs are submitted, cancelled, retried and ended, a queue lists
\* exactly the jobs of its workspace that have not ended, each once, and no
\* workspace is registered twice: nothing that Claim must find is out of its
\* sight, and what it selects is a job (registerScope, claimWorkspace).
THEOREM PollTypeCorrect == Spec => []TypeOK
<1>1. Init => PollInv
  <2> SUFFICES ASSUME Init PROVE PollInv
    OBVIOUS
  <2>1. /\ rows \in [Jobs -> Row] /\ \A j \in Jobs : rows[j].status = "ended"
    BY PlainRows DEF Init
  <2>. QED
    BY <2>1 DEF Init, PollInv, HoldersWork, Places
<1>2. Init => ListsInv
  <2> SUFFICES ASSUME Init PROVE ListsInv
    OBVIOUS
  <2>1. QueuesInv
    <3>1. \A j \in Jobs : ~Open(j)
      BY PlainRows DEF Init, Open
    <3>2. ASSUME NEW ws \in Workspaces PROVE queues[ws] = << >> /\ QueueListsOpen(ws)
      BY <3>1 DEF Init, QueueListsOpen, Range, IsInjective
    <3>. QED
      BY <3>2 DEF Init, QueuesInv
  <2>2. ScopesInv
    BY DEF Init, ScopesInv, IsInjective
  <2>3. LoopsInv
    BY DEF Init, LoopsInv, LoopTells
  <2>. QED
    BY <2>1, <2>2, <2>3 DEF ListsInv
<1>3. Init => CutOnce /\ CutType
  BY DEF Init, CutOnce, CutType
<1>4. ListsInv => LoopsInv
  BY DEF ListsInv
<1>. QED
  BY <1>1, <1>2, <1>3, <1>4, PollStepInv, CutStepInv, ListsStepInv, CutTypeStep, ListsType,
     PTL DEF Spec
=============================================================================
