SPECIFICATION Spec
CONSTANTS
    s1 = s1  s2 = s2
    main = main  dev = dev
    c1 = c1  c2 = c2  c3 = c3
    m1 = m1  m2 = m2
    p1 = p1
    Empty = Empty
    None = None
    Sessions = {s1, s2}
    Branches = {main, dev}
    Commits = {c1, c2, c3}
    MergeIds = {m1, m2}
    PullRequests = {p1}
    InitialDefault = main
    Kinds = {"wire", "ingest", "merge"}
    Parents <- MCParents
    FromBranch <- MCFromBranch
    ToBranch <- MCToBranch
    Bundles <- OneTip
    Targets <- OneWriter
INVARIANTS HistoryClosed OneRowPerBranch
PROPERTIES HeadsMoveForward OkMeansPublished MergedIsFinal ImplementsAtomicRefs
SYMMETRY MergeIdSymmetry
