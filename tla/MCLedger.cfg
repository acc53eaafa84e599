SPECIFICATION MCSpec
CONSTANTS
    None = None
    Parts = {"corrections", "replacements", "roles"}

    x = x  m1 = m1  m2 = m2  c1 = c1  r1 = r1  k1 = k1  k2 = k2
    Keep = Keep  Inherit = Inherit  Clear = Clear
    Transactions = {x, y}  Merchants = {m1, m2}  Categories = {c1}  Roles = {r1}
    Tags = {g}  Corrections = {k1, k2}  Suggesting = {k1}
    PatchOf <- MCPatchOf  TargetOf <- MCTargetOf  TagsOf <- MCTagsOf
    MaxFaults = 1  MaxVersion = 3

    p1 = p1  p2 = p2  s1 = s1  s2 = s2
    Old = {p1, p2}  New = {s1, s2}  Score <- MCScore  Runs = {u1, u2}
    MaxDeletions = 2  MaxEdits = 1  MaxDeaths = 1

    t1 = t1  t2 = t2  t3 = t3
    Rows = {t1, t2, t3}  AccountOf <- MCAccountOf  FactsOf <- MCFactsOf
    Detectors = {d1, d2}  Tolerance = 1  TransferWindow = 1  RefundWindow = 3
    CandidateLimit = 2  MaxChanges = 2

    q1 = q1  q2 = q2  q3 = q3  q4 = q4  q5 = q5  a1 = a1  a2 = a2
    n1 = n1  n2 = n2
    Ids = {n1, n2}  Keys = {"desc", "name"}  Hashes = {"h"}
    Sessions = {q1, q2, q3, q4, q5, a1, a2}  Does <- MCDoes  Input <- MCInput  Fits <- MCFits

    Currencies = {"BRL"}  Histories <- MCHistories  Reviewers = {v1, v2}  MaxSeries = 3
    MaxSeriesChanges = 1
SYMMETRY MCSymmetry
INVARIANTS TransfersMatchLinks RolesAreBacked
PROPERTIES ImplementsRegister OnlyTheShownIsReplaced NothingOverwritten
CHECK_DEADLOCK FALSE
