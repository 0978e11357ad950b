SPECIFICATION Spec
CONSTANTS
    Methods <- Functions_
    MaxMethods = 3
    Actors = {a1, a2}
    Slots = {s1, s2}
    Null = Null
CHECK_DEADLOCK FALSE
INVARIANTS
    RightMethod
