\* Deadlock is not checked: every request is used once.
SPECIFICATION AllSpec
CONSTANTS
    Reviewing = {1, 2, 3}
    Reviewers = {u, v}
    Tracking = {1, 2, 3, 4, 5}
    IssueLabels = {l}
    MaxNumber = 2
    Requests = {1, 2, 3, 4}
    Releasing = {1, 2, 3, 4}
    ReleaseTags = {a}
    Clients = {"service", "have"}
    PullObjects = {1, 2, 3}
    PageSize = 1
    MaxPushes = 2
    Asking = {1, 2, 3}
    Members = {"o", "a", "b"}
    Creator = "o"
    Settings = {"column", "flag1", "flag2"}
    FlagSettings = {"flag1", "flag2"}
    Admins = {"a"}
    AskedCalls <- MCAskedCalls
    Forking = {1, 2, 3, 4, 5}
    Forkers = {"u", "v", "w"}
    ForkCommits = {1, 2}
    Marking = {1, 2, 3}
    Places = {x, y}
    Labelling = {1, 2, 3, 4}
    LabelNames = {m, n}
    LabelPulls = {p}
    RowIds = {1, 2, 3}
    MaxTime = 3
    Limit = 1
    Storing = {1, 2, 3}
    Pushers = {"u", "v"}
    Stores = {"x", "y"}
    StoreOwner <- MCStoreOwner
    StoredObjects = {1, 2, 3}
    ObjectSize <- MCObjectSize
    StorePushes <- MCStorePushes
    QuotaBytes = 6
    Tagging = {1, 2, 3}
    TagPushes <- MCTagPushes
INVARIANTS ReviewsHold TrackerHolds  ReleasesHold  AccessHolds LineageHolds MarksHold LabelsHold WalksCover QuotaHolds TagsTogether
CHECK_DEADLOCK FALSE
