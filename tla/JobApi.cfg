SPECIFICATION ApiSpec
CONSTANTS
    c1 = c1
    c2 = c2
    Callers = {c1, c2}
    Nobody = Nobody
    Scopes <- MCScopes
    Submissions <- MCSubmissions
    Principals <- MCPrincipals
    NoBundle = NoBundle
    Instants <- MCInstants
    DigestRank <- MCDigestRank
    Limits = {0, 2}
    DefaultLimit = 1
SYMMETRY MCSymmetry
INVARIANTS
    ApiTypeOK
    AnswersAgree
    SubmittedWhole
    AnswersOnlyOwners
