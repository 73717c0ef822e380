CONSTANTS
    o1 = o1
    o2 = o2
    p1 = p1
    p2 = p2
    h1 = h1
    h2 = h2
    t1 = t1
    t2 = t2
    kUnspecified = kUnspecified
    kNote = kNote
    empty = empty
    Handles = {a, b}
    Ids = {o1, o2}
    Refs = {p1, p2}
    Hashes = {h1, h2}
    Titles = {t1, t2}
    Kinds = {kUnspecified, kNote}
    Unspecified = kUnspecified
    Empty = empty
    NewRecords <- MCNewRecords
    Changes <- MCChanges
    MaxRevision = 3
    PayloadRefs = {p1, p2}
    Objects = {o1, o2}
    Revisions = {1, 2}
    MediaTypes = {t1, t2}
    Plaintexts = {h1, h2}
    NoBytes = empty
    MaxPuts = 3
    Ops = {x, y}
    Old = old
    NoFile = nofile
    OldSize = 1
    MaxSize = 2
    Sizes = {0, 1, 2}
    Procs = {p, q}
    Missing = missing
SYMMETRY Alike
SPECIFICATION Spec
INVARIANT NoPanic
CHECK_DEADLOCK FALSE
