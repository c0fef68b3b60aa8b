CONSTANTS
    i1 = i1  i2 = i2  b1 = b1  b2 = b2  n1 = n1  u = u
    Inodes <- MCInodes
    Blobs <- MCBlobs
    Names = {n1}
    Unnamed = u
    Null = Null
    Lists <- MCLists
    MaxOpen = 3
    ReparseMax = 3
    Faults <- MCFaults
SPECIFICATION Spec
INVARIANTS TypeOK InodeOpenOnce ClosedBetweenBlobs BlobsIntact ReparseBufBounded ErrorsReported
PROPERTIES ErrorNotMasked
