SPECIFICATION CaptureSpec
CONSTANTS
    s1 = s1
    s2 = s2
    t1 = t1
    t2 = t2
    k1 = k1
    k2 = k2
    a = a
    b = b
    st1 = st1
    st2 = st2
    Absent = Absent
    NULL = NULL
    EmptyString = EmptyString
    Session = {s1, s2}
    Table = {t1}
    Key = {k1, k2}
    NumColumns = 1
    Value = {a, NULL}
    Stream = {st1, st2}
    MaxSeq = 4
    Rekeys <- RekeyOne
    Registrations <- ReRegister
    NewRelationships = {st2}
    InitialJournalled <- JournalledT1
SYMMETRY SymSessions
INVARIANTS LastChangeIsLive EveryRowCaptured
CHECK_DEADLOCK FALSE
