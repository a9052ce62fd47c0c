CONSTANTS
    Targets = {t1, t2}
    Threads = {1, 2}
    Overlapping = {t1}
    Movable = {t1}
    Missing = {t2}
    Entries = {1, 2, 3}
    NoEntry = NoEntry
    NoCall = NoCall
    Pools = {"block", "single", "legacy"}
    Clients = {1, 2, 3, 4}
    MaxFaults = 1
    MaxEdits = 1
SPECIFICATION Spec
CHECK_DEADLOCK FALSE
INVARIANTS TypeOK OneAtATime AnswersStayTrue PublishedIsRecoverable OneClient
PROPERTIES RebuildKeepsGeneration LiveClientKept KubeletServed
