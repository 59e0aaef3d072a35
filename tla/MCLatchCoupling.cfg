SPECIFICATION FairSpec
CONSTANTS
    Threads = {t1, t2, t3}
    Nodes <- MCNodes
    Root = "root"
    Kids <- MCKids
    Above <- MCAbove
    None = None
INVARIANTS
    TypeOK
    LatchesOwned
    SearchesLatched
    NoOvertaking
PROPERTIES
    SomeFindEnds
