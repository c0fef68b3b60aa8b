CONSTANTS
    Wims = {A, B}
    Names = {n1, n2}
    Hashes = {h1, h2}
    A = A
    B = B
    n1 = n1
    n2 = n2
    h1 = h1
    h2 = h2
    Null = Null
    Absent = Absent
    NodeCount <- MCNodeCount
    Parent <- MCParent
    DirNodes <- MCDirNodes
    Faults = {}
    MaxImages = 2
SPECIFICATION Spec
CONSTRAINT RefcntBound
INVARIANTS RefcountExact StreamsResolve
PROPERTIES BootFollowsImage
