CONSTANTS
    Fields = {comments}
    Keys = {k1}
    Values <- MCValues
    NoValue = NoValue
    Unknown = Unknown
    s1 = s1
    s2 = s2
    g = g
    x = x
    Sids = {s1, s2}
    Adopted = {g}
    NoText = NoText
    NoSid = NoSid
    NoBaseline = NoBaseline
    Shas = {h}
    Bases = {b}
    Pristine <- Blank
    Requests <- FindingRequests
    Batch = 1
    MaxEdits = 2
SPECIFICATION Spec
PROPERTIES
    CapturedBeforeAnyEdit
\* One merge a run.
CHECK_DEADLOCK FALSE
