------------------------------ MODULE MCJobApi ------------------------------
(***************************************************************************)
(* Instances of JobApi for TLC: an actor with two requests under one key   *)
(* for each operation, and another actor of its workspace; principals that *)
(* fail each test of ResolveJobAccess, one of another workspace among      *)
(* them; and a default limit that two jobs exceed.                         *)
(***************************************************************************)
EXTENDS JobApi, TLC

CONSTANTS c1, c2

Ax == [workspace |-> "A", actor |-> "x"]
Ay == [workspace |-> "A", actor |-> "y"]
Bx == [workspace |-> "B", actor |-> "x"]

A0 == [workspace |-> "A", actor |-> ""]

MCScopes == {Ax, Ay}

Request(scope, operation, body) ==
    [scope |-> scope, operation |-> operation, key |-> "k", body |-> body]

MCSubmissions ==
    {Request(Ax, operation, body) : operation \in {"import", "export"}, body \in {"b1", "b2"}}
    \cup {Request(Ay, "export", "b1")}

Grant(action, effect) ==
    [resource |-> "data_exchange.jobs", action |-> action, effect |-> effect]

Policy(action, effect, scopes, predicate) ==
    [resource |-> "data_exchange.jobs", action |-> action, effect |-> effect,
     scopes |-> scopes, predicate |-> predicate]

Guardrail(resource, action, effect, field) ==
    [resource |-> resource, action |-> action, effect |-> effect, field |-> field]

Actions == <<"list", "get", "cancel", "download">>

\* Every action allowed to its owner, by one grant and one policy each.
Grants == [i \in DOMAIN Actions |-> Grant(Actions[i], "allow")]
Policies == [i \in DOMAIN Actions |-> Policy(Actions[i], "allow", <<"owner">>, "owner")]

Bundle(subject, grants, policies, guardrails) ==
    [subject |-> subject, grants |-> grants, policies |-> policies,
     guardrails |-> guardrails]

Full(subject) == Bundle(subject, Grants, Policies, << >>)

Bundles ==
    {Full(Ax), Full(Ay),
     Bundle(Ax, << >>, Policies, << >>),
     Bundle(Ax, Grants \o <<Grant("get", "deny")>>, Policies, << >>),
     Bundle(Ax, <<Grant("list", "deny")>> \o Grants, Policies, << >>),
     Bundle(Ax, Grants, << >>, << >>),
     Bundle(Ax, Grants, <<Policy("get", "allow", <<"all">>, "owner")>> \o Policies, << >>),
     Bundle(Ax, Grants, Policies \o <<Policy("list", "deny", <<"owner">>, "owner")>>, << >>),
     Bundle(Ax, Grants, Policies \o <<Policy("get", "allow", <<"owner">>, "any")>>, << >>),
     Bundle(Ax, Grants, Policies, <<Guardrail("", "get", "deny", "")>>),
     Bundle(Ax, Grants, Policies, <<Guardrail("other", "*", "deny", ""),
                                    Guardrail("*", "list", "deny", "error_code")>>),
     Bundle(Ax, Grants, Policies, <<Guardrail("data_exchange.jobs", "*", "deny", "")>>)}

MCPrincipals ==
    {[scope |-> Ax, bundle |-> bundle] : bundle \in Bundles}
    \cup {[scope |-> s, bundle |-> Full(s)] : s \in {Ay, Bx, A0}}
    \cup {[scope |-> Ax, bundle |-> NoBundle]}

\* An export of Ax may be newer than the import, or as old: then the digest of
\* the import decides.  Jobs of two scopes are in no list together.
MCInstants ==
    [id \in {jobID(r) : r \in MCSubmissions} |->
        IF id.scope = Ax /\ id.operation = "export" THEN {1, 2} ELSE {1}]

\* The digest of an import is the greater one.
MCDigestRank ==
    [id \in {jobID(r) : r \in MCSubmissions} |->
        CASE id.operation = "import" -> 3
          [] id.scope = Ax -> 2
          [] OTHER -> 1]

MCSymmetry == Permutations({c1, c2})
=============================================================================
