SPECIFICATION FairSpec
CONSTANTS
    s1 = s1
    s2 = s2
    t1 = t1
    t2 = t2
    t3 = t3
    k1 = k1
    k2 = k2
    a = a
    b = b
    st1 = st1
    st2 = st2
    w1 = w1
    w2 = w2
    Absent = Absent
    NULL = NULL
    EmptyString = EmptyString
    Session = {s1, s2}
    Table = {t1, t2, t3}
    Key = {k1}
    NumColumns = 1
    Value = {a}
    Stream = {st1, st2}
    MaxSeq = 3
    Rekeys <- NoCalls
    Registrations <- NoCalls
    NewRelationships <- NoCalls
    InitialJournalled <- PlainTwiceAndHidden
    Writer = {w1}
    Funding = 3
    Occurring = {a}
    MaxRuns = 1
    MayCrash = FALSE
INVARIANTS CommitmentsOpen RebuildIsSnapshot CleanRun
PROPERTIES AlarmMeansPending ImplementsLedger RunDelivers
CHECK_DEADLOCK FALSE
