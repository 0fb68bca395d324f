CONSTANTS
    h = h
    m = m
    o = o
    q1 = q1
    q2 = q2
    q3 = q3
    q4 = q4
    d1 = d1
    d2 = d2
    s1 = s1
    s2 = s2
    NoStudy = NoStudy
    NoOwner = NoOwner
    ProviderSeq <- MCProviderSeq
    QuestionSeq <- MCQuestionSeq
    ModelMaxAttempts = 6
    MinDelta <- MCHalf
    MaxP <- MCHalf
    Drivers = {d1, d2}
    Studies = {s1, s2}
    Evidences <- MCEvidences
    Preserved <- MCPreserved
    MaxStarts = 3
    MaxKills = 1
    MaxSeals = 3
INIT MCInit
NEXT Next
INVARIANTS SelectorNamesWhole MarkedReportStands LeaderIsProven PathsAgree
PROPERTIES SavedStays
SYMMETRY MCSymmetry
CHECK_DEADLOCK FALSE
