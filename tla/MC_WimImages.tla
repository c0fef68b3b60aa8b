--------------------------- MODULE MC_WimImages ---------------------------
(* Small instances of WimImages: two WIMs, two image names, two file      *)
(* contents, and a captured directory holding a file f1 and a             *)
(* subdirectory d1 with a file f2 (entries in readdir preorder).          *)
EXTENDS WimImages, TLC

CONSTANTS A, B, n1, n2, h1, h2

MCNodeCount == 3
MCParent == <<0, 1, 1>>         \* d1 = 1, its files 2 and 3
MCDirNodes == {1}
MCParentFlat == <<0, 0, 2>>     \* file 1, d2 = 2, its file 3
MCDirNodesFlat == {2}

\* Failed captures and exports leak references, growing a refcnt without
\* end: the runs explore the states whose refcnts stay within MaxRefcnt.
MaxRefcnt == 4
RefcntBound == \A w \in Wims, h \in Hashes : table[w][h] <= MaxRefcnt
=============================================================================
