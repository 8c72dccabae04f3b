SPECIFICATION Spec
CONSTANTS
    alice = alice
    bob = bob
    p1 = p1
    p2 = p2
    q1 = q1
    r1 = r1
    nobody = nobody
    Processes <- OneProcess
    Threads <- TwoThreads
    Owner <- OwnerBoth
    Rebuilders <- OneRebuilder
    Nobody = nobody
    MaxEdits = 1
    MaxVersion = 3
SYMMETRY SameThread
INVARIANTS UnchangedSincePreflight
