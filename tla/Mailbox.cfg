SPECIFICATION Spec
CONSTANTS
    n1 = n1
    n2 = n2
    n3 = n3
    n4 = n4
    s1 = s1
    s2 = s2
    Null = Null
    Nodes <- Addresses
    Senders <- Threads
SYMMETRY Symmetry
INVARIANT Accounted
PROPERTY ImplementsFifo
