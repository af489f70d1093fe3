--------------------------- MODULE ExportPromise ----------------------------
(***************************************************************************)
(* What an export job promises, with no worker, lease or clock in sight:   *)
(* its result grows by the provider's pages in their order, one at a time  *)
(* and only while the job is open; it is published once, whole, and never  *)
(* changes after that; and a job that failed or was cancelled stays so.    *)
(* ExportJob implements it for a provider that pages steadily.             *)
(***************************************************************************)
EXTENDS Integers, FiniteSets

CONSTANTS Jobs,
          Pages    \* the pages that make up a result, as numbers in order

VARIABLES phase,      \* phase[j]: absent, open, completed, failed, cancelled
          result,     \* result[j]: a function from 0 .. n-1 to Pages
          published   \* published[j]: {} or the result that was published

pvars == <<phase, result, published>>

Held(r) == {r[i] : i \in DOMAIN r}

\* p is the page that comes next after the ones in r.
IsNext(r, p) ==
    /\ \A q \in Held(r) : q < p
    /\ \A q \in Pages : q < p => q \in Held(r)

Grown(r, p) ==
    LET n == Cardinality(DOMAIN r)
    IN  [i \in 0 .. n |-> IF i = n THEN p ELSE r[i]]

Init ==
    /\ phase = [j \in Jobs |-> "absent"]
    /\ result = [j \in Jobs |-> << >>]
    /\ published = [j \in Jobs |-> {}]

Open(j) ==
    /\ phase[j] = "absent"
    /\ phase' = [phase EXCEPT ![j] = "open"]
    /\ UNCHANGED <<result, published>>

Grow(j) ==
    /\ phase[j] = "open"
    /\ \E p \in Pages :
          /\ IsNext(result[j], p)
          /\ result' = [result EXCEPT ![j] = Grown(@, p)]
    /\ UNCHANGED <<phase, published>>

Publish(j) ==
    /\ phase[j] = "open"
    /\ Held(result[j]) = Pages
    /\ phase' = [phase EXCEPT ![j] = "completed"]
    /\ published' = [published EXCEPT ![j] = {result[j]}]
    /\ UNCHANGED result

Abandon(j) ==
    /\ phase[j] = "open"
    /\ \E s \in {"failed", "cancelled"} : phase' = [phase EXCEPT ![j] = s]
    /\ UNCHANGED <<result, published>>

Next == \E j \in Jobs : Open(j) \/ Grow(j) \/ Publish(j) \/ Abandon(j)

Spec == Init /\ [][Next]_pvars
=============================================================================
