SPECIFICATION Spec
CONSTANTS
    Types <- AllTypes
    SizeOf <- SizeTable
    AlignOf <- AlignTable
    Decay <- DecayTable
    Null = Null
    Objects = {a, b, c}
    Promises = {p, q}
    Futures = {f, g}
    Resources = {r1, r2}
    ArgLists <- Lists
    MaxMade = 2
SYMMETRY Places
CHECK_DEADLOCK FALSE
INVARIANTS
    OneSettler
    BufferReturned
    StateReturned
    LayoutSound
