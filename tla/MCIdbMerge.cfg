CONSTANTS
    Fields = {comments}
    Keys = {k1}
    Values <- MCValues
    NoValue = NoValue
    Unknown = Unknown
    s1 = s1
    s2 = s2
    g = g
    x = x
    Sids = {s1, s2}
    Adopted = {g}
    NoText = NoText
    NoSid = NoSid
    NoBaseline = NoBaseline
    Shas = {h}
    Bases = {b}
    Pristine <- Blank
    Requests <- EditRequests
    Batch = 1
    MaxEdits = 2
SPECIFICATION Spec
INVARIANTS
    TypeOK
    OkMergeKeepsEveryEdit
    TargetKeepsItsEdits
\* One merge a run: it ends, and so may the agents.
CHECK_DEADLOCK FALSE
