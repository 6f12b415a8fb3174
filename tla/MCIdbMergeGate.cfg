CONSTANTS
    Fields = {comments}
    Keys = {k1,k2,k3}
    Values <- MCValues
    NoValue = NoValue
    Unknown = Unknown
    s1 = s1
    s2 = s2
    g = g
    x = x
    Sids = {s1, s2}
    Adopted = {g}
    NoText = NoText
    NoSid = NoSid
    NoBaseline = NoBaseline
    Shas = {h1, h2, Unknown}
    Bases = {b1, Unknown}
    Pristine <- TwoAnalyses
    Requests <- ReportRequests
    Batch = 2
    MaxEdits = 0
SPECIFICATION MCFairSpec
INVARIANTS
    NoCrossBinaryWrite
    ReportedAsAppliedIsThere
PROPERTY
    MergeEnds
\* One merge a run.
CHECK_DEADLOCK FALSE
