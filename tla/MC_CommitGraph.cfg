\* Deadlock is not checked: a bundle is finished once every commit is in it.
SPECIFICATION Spec
CONSTANTS
    MaxCommits = 4
    MaxHistory = 4
    BranchNames = {main, dev}
    Objects = {o1, o2}
    Absent = Absent
    NoSnapshot = NoSnapshot
    ScanLimit = 2
    NoteRows = 4
    RowHeight = 2
    Width = 3
    MaxMessages = 4
    MaxWait = 2
INVARIANTS SortedParentsFirst FastForwardTestsAgree NegotiationSound BrowsingAgrees ScoresAgree
CHECK_DEADLOCK FALSE
