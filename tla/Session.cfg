SPECIFICATION Spec
CONSTANTS
    alice = alice
    bob = bob
    p1 = p1
    p2 = p2
    q1 = q1
    r1 = r1
    nobody = nobody
    Processes <- TwoProcesses
    Threads <- ThreeThreads
    Owner <- OwnerOfThree
    Rebuilders <- OneRebuilder
    Nobody = nobody
    MaxEdits = 1
    MaxVersion = 3
CONSTRAINT OneEdit
SYMMETRY SameThread
INVARIANTS CheckedIsUnchanged WritesItsOwnDump OneWriterPerPreparation
PROPERTIES DumpIsNeverRestarted
