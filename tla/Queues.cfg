SPECIFICATION Spec
CONSTANTS
    Producers = {p1, p2}
    Consumers = {c1, c2}
    Owner = c1
    Capacity = 2
    MaxPushes = 6
    NoValue = NoValue
INVARIANTS SlotOwned ByteRingIsFifo
PROPERTIES RefusedOnlyIfFull EmptyOnlyIfUnpublished IsBoundedFifo
SYMMETRY ProducerSymmetry
