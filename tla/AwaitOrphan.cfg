SPECIFICATION Spec
CONSTANTS
    m1 = m1
    m2 = m2
    l1 = l1
    l2 = l2
    Root = Root
    Dispatch = Dispatch
    Null = Null
    Methods <- TwoMethods
    Leaves <- TwoLeaves
CHECK_DEADLOCK FALSE
INVARIANT OutlivingFutureFails
