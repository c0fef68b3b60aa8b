CONSTANTS
    t1 = t1  t2 = t2  t3 = t3
    f1 = f1  f2 = f2  f3 = f3  f4 = f4
    Threads <- MCThreads
    Fps <- MCFps
    Null = Null
    MaxReads = 1
    OpenFaults = TRUE
    ReallocFails = TRUE
SPECIFICATION Spec
INVARIANTS Exclusive
PROPERTIES CallsReturn
