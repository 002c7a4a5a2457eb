\* One upload with two removals and one reader, one warehouse with one removal.
CONSTANTS
    up = up
    wh = wh
    d1 = d1
    d2 = d2
    d3 = d3
    q1 = q1
    None = None
    Uploads = {up}
    Connects = {wh}
    Removals = {d1, d2, d3}
    Uses = {q1}
    Of <- Named
    MaxCrashes = 1
SPECIFICATION FairSpec
INVARIANTS
    ActiveHasTable
    NoOrphans
PROPERTIES
    RequestsEnd
CHECK_DEADLOCK FALSE
