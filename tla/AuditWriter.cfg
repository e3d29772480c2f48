SPECIFICATION FairSpec
CONSTANTS
    keyed = keyed
    e1 = e1
    Rows = {keyed, row2, row3, row4}
    Entities = {e1}
    RefersTo <- MCRefersTo
    Capacity = 2
    BatchSize = 2
CHECK_DEADLOCK FALSE
INVARIANTS TypeOK NothingSlipsAway AtMostOnce
PROPERTIES TrailSpec TrailProgress DrainsWhenClosed
