---------------------------- MODULE MC_NtfsApply ----------------------------
EXTENDS NtfsApply, TLC

CONSTANTS i1, i2, b1, b2, n1, u

MCInodes == {i1, i2}
MCBlobs == {b1, b2}

\* A blob on two streams of one inode and the reparse point of another,
\* read in two unequal chunks, then a blob on a third stream.
MCList1 ==
    << [blob |-> b1, chunks |-> <<2, 1>>,
        targets |-> << [inode |-> i1, type |-> "data", name |-> u],
                       [inode |-> i2, type |-> "reparse", name |-> u],
                       [inode |-> i1, type |-> "data", name |-> n1] >>],
       [blob |-> b2, chunks |-> <<1, 1>>,
        targets |-> << [inode |-> i2, type |-> "data", name |-> u] >>] >>

\* A blob too large for a reparse point after one data target.
MCList2 ==
    << [blob |-> b2, chunks |-> <<2, 2>>,
        targets |-> << [inode |-> i2, type |-> "data", name |-> n1],
                       [inode |-> i1, type |-> "reparse", name |-> u] >>] >>

\* A blob of exactly REPARSE_DATA_MAX_SIZE bytes whose reparse target
\* comes last, then a blob in one chunk on the unnamed streams of both.
MCList3 ==
    << [blob |-> b1, chunks |-> <<1, 2>>,
        targets |-> << [inode |-> i2, type |-> "data", name |-> n1],
                       [inode |-> i1, type |-> "reparse", name |-> u] >>],
       [blob |-> b2, chunks |-> <<3>>,
        targets |-> << [inode |-> i1, type |-> "data", name |-> u],
                       [inode |-> i2, type |-> "data", name |-> u] >>] >>

MCLists == {MCList1, MCList2, MCList3}

MCFaults == Calls
====
