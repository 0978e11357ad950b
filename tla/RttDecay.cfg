SPECIFICATION Spec
CONSTANTS
    Types <- AllTypes
    SizeOf <- SizeTable
    AlignOf <- AlignTable
    Decay <- DecayTable
    Null = Null
    Objects = {a, b, c}
    Promises = {p, q}
    Futures = {f, g}
    Resources = {r1, r2}
    ArgLists <- Lists
    MaxMade = 2
CHECK_DEADLOCK FALSE
INVARIANT ForceAlignFits
