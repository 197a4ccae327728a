CONSTANTS
    Date = {1, 2, 3}
    Covered = {1, 2}
    Reads <- MCReads
    Chain = {1, 2, 3}
    Value = {a, b}
    Missing = Missing
    Cut = Cut
    Stored <- MCStored
    Thread = {t1, t2}
    MaxEntries = 1
    MaxWrites = 2
SPECIFICATION Spec
SYMMETRY Symmetry
INVARIANTS
    CurrentEntriesAreRecent
    QuietAnswersAreRecent
CHECK_DEADLOCK FALSE
