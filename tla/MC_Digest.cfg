SPECIFICATION Spec
CONSTANTS
    Items = {i1, i2}
    Forgettable = {i1}
    MaxWindow = 3
    Senders = {s1, s2}
    MaxFaults = 3
INVARIANTS TypeOK OneSender InOneEmail SentMeansEmailed NothingLeftBehind
PROPERTY ItemsSettle
CHECK_DEADLOCK FALSE
