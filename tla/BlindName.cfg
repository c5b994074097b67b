SPECIFICATION Spec
CONSTANTS
    Workers = {w1}
    Emails = {"e1"}
    MaxSignups = 1
    Failures = TRUE
    Editors = {x1}
    People = {"p1"}
    Sessions = {c1}
    Users = {"u1"}
    Limit = 1
    Window = 1
    MaxTime = 1
    MaxTurns = 1
    Requests = {r1}
    Companies = {"a"}
    CaseIds = {"k1"}
    Creator = e1
    Colleagues = {e2}
    Candidates = {j1}
    Looks = {l1}
    Typists = {t1}
    Clerks = {h1}
    MaxAsked = 1
    Pages = {g1}
    MaxSaves = 1
    Workloads <- ViewsOnly
INVARIANT NameNeverLeaks
CHECK_DEADLOCK FALSE
