SPECIFICATION Spec
CONSTANTS
    s1 = s1
    s2 = s2
    t1 = t1
    t2 = t2
    t3 = t3
    k1 = k1
    k2 = k2
    a = a
    b = b
    st1 = st1
    st2 = st2
    w1 = w1
    w2 = w2
    Absent = Absent
    NULL = NULL
    EmptyString = EmptyString
    Session = {s1}
    Table = {t1}
    Key = {k1, k2}
    NumColumns = 1
    Value = {a, EmptyString}
    Stream = {st1}
    MaxSeq = 3
    Rekeys <- Rekey
    Registrations <- NoCalls
    NewRelationships <- NoCalls
    InitialJournalled <- OnePlain
    Writer = {w1}
    Funding = 3
    Occurring = {}
    MaxRuns = 1
    MayCrash = FALSE
PROPERTY PassMeansEqual
CHECK_DEADLOCK FALSE
