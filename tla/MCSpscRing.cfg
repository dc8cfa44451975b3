CONSTANTS
    Capacity = 3
    Chunk = 4
    ItemSizes = {1, 2, 3}
    InPlace = TRUE
    MaxSent = 10
SPECIFICATION Spec
INVARIANTS FifoContents NoSharedSlot BatchesAreWholeItems
PROPERTIES ImplementsFifo
CHECK_DEADLOCK FALSE
