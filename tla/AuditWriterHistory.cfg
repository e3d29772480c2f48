SPECIFICATION Spec
CONSTANTS
    keyed = keyed
    e1 = e1
    Rows = {keyed, row2}
    Entities = {e1}
    RefersTo <- MCRefersTo
    Capacity = 2
    BatchSize = 2
CHECK_DEADLOCK FALSE
INVARIANT HistoryOutlivesEntities
