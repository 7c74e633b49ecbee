SPECIFICATION FairSpec
CONSTANTS
    s1 = s1  s2 = s2
    r1 = r1
    o1 = o1  o2 = o2
    NoObject = NoObject
    NoRow = NoRow
    Sessions = {s1, s2}
    Repos = {r1}
    Objects = {o1, o2}
    Kinds = {"wire", "ingest"}
    DiesIn <- NotInAWrite
INVARIANT RowHasFile
PROPERTIES  TruncationHeals
