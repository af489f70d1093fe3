----------------------------- MODULE JobAccess ------------------------------
(***************************************************************************)
(* Who may list, read, cancel or download jobs: the decision that          *)
(* ResolveJobAccess takes over the grants, data policies and guardrails of *)
(* a principal, as the code takes it (loops over lists with early          *)
(* returns), and as it is meant.                                           *)
(*                                                                         *)
(* A permission is its resource and its action (permissionParts).  Names   *)
(* carry no blanks here: the code trims them all alike.                    *)
(***************************************************************************)
EXTENDS Sequences, SequencesExt

CONSTANT NoBundle   \* the access bundle of a principal that has none

\* An allowed access is the predicate pushed into storage, refused is {}.
Denied == {}

SamePermission(x, perm) == x.resource = perm.resource /\ x.action = perm.action

\* The loop over the grants: a matching deny ends it.
hasExactFunctionGrant(grants, perm) ==
    LET visit(found, g) ==
          IF /\ found # "deny" /\ SamePermission(g, perm)
             /\ g.effect \in {"deny", "allow"}
          THEN g.effect ELSE found
    IN  FoldLeft(visit, "none", grants) = "allow"

\* owner_user_id == $subject.id, and nothing else.
isOwnerPredicate(predicate) == predicate = "owner"

OwnerPolicy(policy) ==
    /\ policy.effect = "allow"
    /\ policy.scopes = <<"owner">>
    /\ isOwnerPredicate(policy.predicate)

\* The loop over the data policies: one that matches and is not the owner
\* policy refuses, whatever the others say.
matchedAllow(policies, perm) ==
    LET visit(found, policy) ==
          IF found # "refused" /\ SamePermission(policy, perm)
          THEN IF OwnerPolicy(policy) THEN "allowed" ELSE "refused"
          ELSE found
    IN  FoldLeft(visit, "none", policies) = "allowed"

\* A deny guardrail on the whole object; "" and "*" match everything.
GuardrailStops(guardrail, perm) ==
    /\ guardrail.resource \in {"", "*", perm.resource}
    /\ guardrail.action \in {"", "*", perm.action}
    /\ guardrail.effect = "deny"
    /\ guardrail.field = ""

\* principal: workspace, user and access bundle of the context; scope: the
\* workspace and actor that the request names.
ResolveJobAccess(principal, scope, perm) ==
    LET bundle == principal.bundle
    IN  IF \/ bundle = NoBundle
           \/ scope.workspace = "" \/ scope.actor = ""
           \/ scope # principal.scope
           \/ scope # bundle.subject
           \/ ~hasExactFunctionGrant(bundle.grants, perm)
           \/ ~matchedAllow(bundle.policies, perm)
           \/ \E i \in DOMAIN bundle.guardrails :
                 GuardrailStops(bundle.guardrails[i], perm)
        THEN Denied
        ELSE {[workspace |-> scope.workspace, owner |-> bundle.subject.actor]}

(***************************************************************************)
(* What is meant: the principal is somebody and acts for itself, the       *)
(* permission is granted and nowhere denied, the data policies on it say   *)
(* owner and nothing else, and no guardrail stands against it.             *)
(***************************************************************************)
Entitled(principal, scope, perm) ==
    LET On(list) == {x \in Range(list) : SamePermission(x, perm)}
        effects == {g.effect : g \in On(principal.bundle.grants)}
        policies == On(principal.bundle.policies)
    IN  /\ principal.bundle # NoBundle
        /\ "" \notin {scope.workspace, scope.actor}
        /\ principal.scope = scope /\ principal.bundle.subject = scope
        /\ "allow" \in effects /\ "deny" \notin effects
        /\ policies # {} /\ \A policy \in policies : OwnerPolicy(policy)
        /\ ~ \E g \in Range(principal.bundle.guardrails) : GuardrailStops(g, perm)
=============================================================================
