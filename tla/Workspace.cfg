SPECIFICATION Spec
CONSTANTS
    Workers = {w1, w2}
    Emails = {"e1", "e2"}
    MaxSignups = 3
    Failures = TRUE
    Editors = {x1, x2}
    People = {"p1", "p2", "p3"}
    Sessions = {c1, c2}
    Users = {"u1", "u2"}
    Limit = 2
    Window = 2
    MaxTime = 4
    MaxTurns = 3
    Requests = {r1, r2}
    Companies = {"a", "b"}
    CaseIds = {"k1", "k2"}
    Creator = e1
    Colleagues = {e2, e3}
    Candidates = {j1, j2}
    Looks = {l1}
    Typists = {t1, t2}
    Clerks = {h1, h2}
    MaxAsked = 3
    Pages = {g1, g2}
    MaxSaves = 3
    Workloads <- Everything
INVARIANTS FounderSignsIn ChainsEnd GrantsSettle QuestionsAnswered Isolation TasksFollow BlindHolds SecretsCarried RecordFollows HandEditsKept OnePrimary OptionsKept
CHECK_DEADLOCK FALSE
