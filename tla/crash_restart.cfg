SPECIFICATION Spec
CONSTANTS
    s1 = s1
    s2 = s2
    t1 = t1
    t2 = t2
    t3 = t3
    k1 = k1
    k2 = k2
    a = a
    b = b
    st1 = st1
    st2 = st2
    w1 = w1
    w2 = w2
    Absent = Absent
    NULL = NULL
    EmptyString = EmptyString
    Session = {s1}
    Table = {t1}
    Key = {k1}
    NumColumns = 2
    Value = {a}
    Stream = {st1}
    MaxSeq = 4
    Rekeys <- NoCalls
    Registrations <- LateTable
    NewRelationships = {st1}
    InitialJournalled <- NoneYet
    Writer = {w1, w2}
    Funding = 2
    Occurring = {}
    MaxRuns = 1
    MayCrash = TRUE
SYMMETRY SymWriters
INVARIANTS TypeOK SentAnchored IndexSound ChainLinked CoinsOwned VerifyTellsTruth
CHECK_DEADLOCK FALSE
