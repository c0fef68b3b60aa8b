--------------------------- MODULE NtfsApply_proofs ---------------------------
(***************************************************************************)
(* Proofs about the NTFS-3G apply callbacks (NtfsApply).                   *)
(*                                                                         *)
(* ReportInv says what the failed flag means at each point of             *)
(* ntfs_3g_extract: nothing has failed while a blob is being set up or    *)
(* written, end_blob fails exactly when its status does, and once the     *)
(* volume is being unmounted a failure is in ret.  It gives               *)
(* ErrorsReported.                                                         *)
(*                                                                         *)
(* CtxInv says what the callbacks' context holds: the inodes open in      *)
(* ctx->open_inodes are distinct, each open handle of an inode is the one *)
(* in the table, the inodes of the blob being begun are those with        *)
(* i_visited, and between blobs the context is empty.  It gives TypeOK,   *)
(* ClosedBetweenBlobs and InodeOpenOnce.                                   *)
(***************************************************************************)
EXTENDS NtfsApply, FiniteSetTheorems, SequenceTheorems, TLAPS

ReportInv ==
    /\ failed \in BOOLEAN
    /\ pc \in {"mount", "structure", "begin", "open_inode", "instance", "chunk"} => ~failed
    /\ pc = "end" => (failed <=> status # "ok")
    /\ pc \in {"umount", "done"} => (failed => ret # "ok")

\* Whether inode i is in ctx->open_inodes.
IsOpen(i) == \E j \in DOMAIN open_inodes : open_inodes[j] = i

CtxInv ==
    /\ TypeOK
    /\ status \in {"ok", "ntfs", "hash"}
    /\ c \in Nat \ {0}
    /\ pc \in {"open_inode", "instance", "chunk", "end"} =>
          /\ k <= Len(xl)
          /\ bi \in 1 .. Len(Entry.targets)
    /\ pc = "instance" => ni = Target.inode
    /\ \A a, b \in DOMAIN open_inodes : open_inodes[a] = open_inodes[b] => a = b
    /\ \A i \in Inodes : handles[i] = IF IsOpen(i) THEN 1 ELSE 0
    /\ pc \in {"open_inode", "instance"} =>
          /\ \A j \in DOMAIN open_inodes : open_inodes[j] \in visited
          /\ visited \subseteq EntryInodes
    /\ pc \in {"chunk", "end"} => visited = {}
    /\ pc \in {"mount", "structure", "begin", "umount", "done"} =>
          /\ open_attrs = <<>> /\ open_inodes = <<>> /\ rp_inodes = <<>>
          /\ rp_ptr = Null /\ offset = 0 /\ visited = {}

-----------------------------------------------------------------------------
(* ErrorsReported.                                                         *)

\* end_blob's result after cleanup is 0 only when its own result was 0 and
\* every close succeeded.
LEMMA CloseResultOk ==
    ASSUME NEW r, NEW close_ok \in BOOLEAN
    PROVE  CloseResult(r, close_ok) = "ok" <=> r = "ok" /\ close_ok
BY DEF CloseResult

LEMMA InitReport == Init => ReportInv
BY DEF Init, ReportInv

LEMMA NextReport == ReportInv /\ [Next]_vars => ReportInv'
<1> SUFFICES ASSUME ReportInv, [Next]_vars PROVE ReportInv'
  OBVIOUS
<1> USE DEF ReportInv
<1>1. CASE Mount
  BY <1>1 DEF Mount, Outcomes
<1>2. CASE Structure
  BY <1>2 DEF Structure, Outcomes
<1>3. CASE BeginBlob
  BY <1>3 DEF BeginBlob
<1>4. CASE OpenInode
  BY <1>4 DEF OpenInode, BeginFails, CleanupCtx, Outcomes
<1>5. CASE BeginInstance
  BY <1>5 DEF BeginInstance, BeginFails, CleanupCtx, NextTarget, Outcomes
<1>6. CASE ExtractChunk
  BY <1>6 DEF ExtractChunk
<1>7. CASE ChunksDone
  BY <1>7 DEF ChunksDone, Outcomes
<1>8. CASE EndBlob
  <2>1. pc = "end"
    BY <1>8 DEF EndBlob
  <2>2. PICK n : \E close_ok \in BOOLEAN :
          LET r == IF status # "ok" THEN status
                   ELSE IF n < Len(rp_inodes) THEN "set_reparse" ELSE "ok"
              r2 == CloseResult(r, close_ok)
          IN  /\ ret' = r2
              /\ failed' = (failed \/ r # status \/ ~close_ok)
              /\ pc' = IF r2 = "ok" THEN "begin" ELSE "umount"
    BY <1>8 DEF EndBlob, Outcomes
  <2>6. PICK close_ok \in BOOLEAN :
          LET r == IF status # "ok" THEN status
                   ELSE IF n < Len(rp_inodes) THEN "set_reparse" ELSE "ok"
              r2 == CloseResult(r, close_ok)
          IN  /\ ret' = r2
              /\ failed' = (failed \/ r # status \/ ~close_ok)
              /\ pc' = IF r2 = "ok" THEN "begin" ELSE "umount"
    BY <2>2
  <2>. DEFINE r == IF status # "ok" THEN status
                   ELSE IF n < Len(rp_inodes) THEN "set_reparse" ELSE "ok"
  <2>3. CloseResult(r, close_ok) = "ok" <=> r = "ok" /\ close_ok
    BY CloseResultOk
  <2>4. r = "ok" => status = "ok"
    OBVIOUS
  <2>5. QED
    BY <2>1, <2>6, <2>3, <2>4
<1>9. CASE Umount
  BY <1>9 DEF Umount, Outcomes
<1>10. CASE Finished \/ UNCHANGED vars
  BY <1>10 DEF Finished, vars
<1>11. QED
  BY <1>1, <1>2, <1>3, <1>4, <1>5, <1>6, <1>7, <1>8, <1>9, <1>10 DEF Next

\* ntfs_3g_extract never returns 0 after a libntfs-3g call, the SHA-1
\* check of a blob or the reparse size check has failed: every failure
\* reaches ret through begin_blob's error path, end_blob's status, its
\* close result or the final umount, whichever callbacks failed and in
\* whatever order, for every extraction list.
THEOREM ErrorsAreReported == Spec => []ErrorsReported
<1>1. ReportInv => ErrorsReported
  BY DEF ReportInv, ErrorsReported
<1>2. QED
  BY <1>1, InitReport, NextReport, PTL DEF Spec

-----------------------------------------------------------------------------
(* Lemmas about the context's tables.                                      *)

\* With no inode twice in ctx->open_inodes, Opened(i), the number of its
\* handles that ntfs_3g_cleanup_blob_extract closes, is 1 for an open
\* inode and 0 for another.
LEMMA OpenedCount ==
    ASSUME NEW i,
           \A a, b \in DOMAIN open_inodes : open_inodes[a] = open_inodes[b] => a = b
    PROVE  Opened(i) = IF IsOpen(i) THEN 1 ELSE 0
<1> DEFINE S == {j \in DOMAIN open_inodes : open_inodes[j] = i}
<1>1. CASE IsOpen(i)
  <2>1. PICK j0 \in DOMAIN open_inodes : open_inodes[j0] = i
    BY <1>1 DEF IsOpen
  <2>2. S = {j0}
    BY <2>1
  <2>3. Cardinality(S) = 1
    BY <2>2, FS_Singleton
  <2>4. QED
    BY <1>1, <2>3 DEF Opened
<1>2. CASE ~IsOpen(i)
  <2>1. S = {}
    BY <1>2 DEF IsOpen
  <2>2. QED
    BY <1>2, <2>1, FS_EmptySet DEF Opened
<1>3. QED
  BY <1>1, <1>2

\* The entry being extracted and its current target have their types.
LEMMA EntryType ==
    ASSUME xl \in Lists, k \in 1 .. Len(xl)
    PROVE  /\ Entry \in Entries
           /\ Entry.targets \in Seq(Targets)
           /\ Entry.chunks \in Seq(Nat \ {0})
           /\ Len(Entry.targets) \in 1 .. MaxOpen
           /\ bi \in 1 .. Len(Entry.targets) => Target \in Targets
<1>1. Entry \in Entries
  <2>1. xl \in Seq(Entries)
    BY ApplyAssumption
  <2>2. QED
    BY <2>1, ElementOfSeq DEF Entry
<1>2. Len(Entry.targets) \in 1 .. MaxOpen
  BY ApplyAssumption DEF Entry
<1>3. QED
  BY <1>1, <1>2, ElementOfSeq DEF Entries, Target

\* A chunk's bytes are as many as its size in the chunk list.
LEMMA ChunkLen ==
    ASSUME NEW e, NEW i, e.chunks[i] \in Nat
    PROVE  Len(ChunkBytes(e, i)) = e.chunks[i]
BY DEF ChunkBytes

\* ntfs_3g_cleanup_blob_extract leaves the context empty and every inode
\* with no open handle.
LEMMA CleanupEmpties ==
    ASSUME CtxInv, CleanupCtx
    PROVE  /\ open_attrs' = <<>> /\ open_inodes' = <<>> /\ rp_inodes' = <<>>
           /\ rp_ptr' = Null /\ offset' = 0
           /\ handles' \in [Inodes -> Nat]
           /\ (\A a, b \in DOMAIN open_inodes : open_inodes[a] = open_inodes[b] => a = b)'
           /\ (\A i \in Inodes : handles[i] = IF IsOpen(i) THEN 1 ELSE 0)'
<1>1. ASSUME NEW i \in Inodes
      PROVE  handles'[i] = 0
  <2>1. Opened(i) = IF IsOpen(i) THEN 1 ELSE 0
    BY OpenedCount DEF CtxInv
  <2>2. handles[i] = IF IsOpen(i) THEN 1 ELSE 0
    BY DEF CtxInv
  <2>3. QED
    BY <2>1, <2>2 DEF CleanupCtx
<1>2. open_inodes' = <<>>
  BY DEF CleanupCtx
<1>4. QED
  BY <1>1, <1>2 DEF CleanupCtx, IsOpen

-----------------------------------------------------------------------------
(* CtxInv.                                                                 *)

LEMMA InitCtx == Init => CtxInv
<1> SUFFICES ASSUME Init PROVE CtxInv
  OBVIOUS
<1>1. xl \in Seq(Entries)
  BY ApplyAssumption DEF Init
<1>2. Len(xl) \in Nat
  BY <1>1, LenProperties
<1>3. TypeOK
  <2>1. <<>> \in Seq(Targets) /\ <<>> \in Seq(Inodes)
    BY EmptySeq
  <2>2. k \in 1 .. Len(xl) + 1
    BY <1>2 DEF Init
  <2>3. QED
    BY <2>1, <2>2 DEF Init, TypeOK
<1>4. \A i \in Inodes : handles[i] = IF IsOpen(i) THEN 1 ELSE 0
  BY DEF Init, IsOpen
<1>5. \A a, b \in DOMAIN open_inodes : open_inodes[a] = open_inodes[b] => a = b
  BY DEF Init
<1>6. QED
  BY <1>3, <1>4, <1>5 DEF Init, CtxInv

\* begin_blob's error path, from either of its steps: the context is
\* cleaned up and every target inode loses i_visited.
LEMMA BeginFailsCtx ==
    ASSUME CtxInv, pc \in {"open_inode", "instance"},
           NEW err \in {"ntfs", "invalid_reparse"}, BeginFails(err),
           UNCHANGED <<xl, k, status>>, c' \in Nat \ {0}, created' \subseteq Targets
    PROVE  CtxInv'
<1>1. visited \subseteq EntryInodes
  BY DEF CtxInv
<1>2. visited' = {}
  BY <1>1 DEF BeginFails, EntryInodes, Entry
<1>3. /\ open_attrs' = <<>> /\ open_inodes' = <<>> /\ rp_inodes' = <<>>
      /\ rp_ptr' = Null /\ offset' = 0
      /\ handles' \in [Inodes -> Nat]
      /\ (\A a, b \in DOMAIN open_inodes : open_inodes[a] = open_inodes[b] => a = b)'
      /\ (\A i \in Inodes : handles[i] = IF IsOpen(i) THEN 1 ELSE 0)'
  BY CleanupEmpties DEF BeginFails
<1>4. TypeOK'
  <2>1. <<>> \in Seq(Targets) /\ <<>> \in Seq(Inodes)
    BY EmptySeq
  <2>2. QED
    BY <1>2, <1>3, <2>1 DEF BeginFails, CtxInv, TypeOK
<1>5. QED
  BY <1>2, <1>3, <1>4 DEF BeginFails, CtxInv

\* ntfs_mount, the file-structure phase and the final ntfs_umount touch
\* no part of the context.
LEMMA MountCtx ==
    ASSUME CtxInv, Mount \/ Structure \/ Umount
    PROVE  CtxInv'
<1>1. /\ UNCHANGED <<xl, k, bi, c, ni, status, visited, handles, created>>
      /\ open_attrs' = open_attrs /\ open_inodes' = open_inodes
      /\ rp_inodes' = rp_inodes /\ rp_ptr' = rp_ptr /\ offset' = offset
  BY DEF Mount, Structure, Umount, ctx
<1>2. pc \in {"mount", "structure", "umount"} /\ pc' \in {"structure", "begin", "umount", "done"}
  BY DEF Mount, Structure, Umount, Outcomes
<1>3. ret' \in {"ok", "ntfs", "invalid_reparse", "hash", "set_reparse"}
  BY DEF Mount, Structure, Umount, Outcomes, CtxInv, TypeOK
<1>4. failed' \in BOOLEAN
  BY DEF Mount, Structure, Umount, Outcomes
<1>5. TypeOK'
  BY <1>1, <1>2, <1>3, <1>4 DEF CtxInv, TypeOK
<1>6. QED
  BY <1>1, <1>2, <1>5 DEF CtxInv, IsOpen

\* begin_blob starts on the first target of the next entry, or the list
\* is done.
LEMMA BeginBlobCtx ==
    ASSUME CtxInv, BeginBlob
    PROVE  CtxInv'
<1>1. /\ UNCHANGED <<xl, k, c, ni, status, ret, visited, handles, created, failed>>
      /\ open_attrs' = open_attrs /\ open_inodes' = open_inodes
      /\ rp_inodes' = rp_inodes /\ rp_ptr' = rp_ptr /\ offset' = offset
  BY DEF BeginBlob, ctx
<1>2. CASE k <= Len(xl)
  <2>1. k \in 1 .. Len(xl)
    BY <1>2 DEF CtxInv, TypeOK
  <2>2. Len(Entry.targets) \in 1 .. MaxOpen
    BY <2>1, EntryType DEF CtxInv, TypeOK
  <2>3. pc' = "open_inode" /\ bi' = 1
    BY <1>2 DEF BeginBlob
  <2>4. bi' \in 1 .. Len(Entry'.targets)
    BY <1>1, <2>2, <2>3 DEF Entry
  <2>5. visited = {} /\ open_inodes = <<>>
    BY DEF BeginBlob, CtxInv
  <2>6. TypeOK'
    BY <1>1, <2>3 DEF CtxInv, TypeOK
  <2>7. QED
    BY <1>1, <1>2, <2>3, <2>4, <2>5, <2>6 DEF CtxInv, IsOpen
<1>3. CASE ~(k <= Len(xl))
  <2>1. pc' = "umount"
    BY <1>3 DEF BeginBlob
  <2>2. TypeOK'
    BY <1>1, <2>1 DEF CtxInv, TypeOK
  <2>3. QED
    BY <1>1, <2>1, <2>2 DEF BeginBlob, CtxInv, IsOpen
<1>4. QED
  BY <1>2, <1>3

\* After the last chunk the SHA-1 result goes to end_blob; nothing else
\* changes.
LEMMA ChunksDoneCtx ==
    ASSUME CtxInv, ChunksDone
    PROVE  CtxInv'
<1>1. /\ UNCHANGED <<xl, k, bi, c, ni, ret, visited, handles, created>>
      /\ open_attrs' = open_attrs /\ open_inodes' = open_inodes
      /\ rp_inodes' = rp_inodes /\ rp_ptr' = rp_ptr /\ offset' = offset
  BY DEF ChunksDone, ctx
<1>2. pc = "chunk" /\ pc' = "end" /\ status' \in {"ok", "hash"} /\ failed' \in BOOLEAN
  BY DEF ChunksDone, Outcomes, CtxInv, TypeOK
<1>3. TypeOK'
  BY <1>1, <1>2 DEF CtxInv, TypeOK
<1>4. QED
  BY <1>1, <1>2, <1>3 DEF CtxInv, IsOpen, Entry, Target

\* ntfs_3g_open_inode: an inode with i_visited is already in the table
\* and is reused; any other inode is not open yet, so opening it keeps
\* the table free of duplicates and its handle count at 1.
LEMMA OpenInodeCtx ==
    ASSUME CtxInv, OpenInode
    PROVE  CtxInv'
<1> DEFINE T == Target.inode
<1>1. /\ pc = "open_inode" /\ k \in 1 .. Len(xl) /\ bi \in 1 .. Len(Entry.targets)
      /\ UNCHANGED <<xl, k, bi, c, status, created>>
  BY DEF OpenInode, CtxInv, TypeOK
<1>2. /\ Target \in Targets /\ T \in Inodes
      /\ T \in EntryInodes
  BY <1>1, EntryType DEF CtxInv, TypeOK, Targets, EntryInodes, Target
<1>3. Entry' = Entry /\ Target' = Target /\ EntryInodes' = EntryInodes
  BY <1>1 DEF Entry, Target, EntryInodes
<1>4. CASE T \in visited /\ IsOpen(T)
  <2>1. /\ ni' = T /\ pc' = "instance"
        /\ UNCHANGED <<visited, handles, ret, failed>>
        /\ open_attrs' = open_attrs /\ open_inodes' = open_inodes
        /\ rp_inodes' = rp_inodes /\ rp_ptr' = rp_ptr /\ offset' = offset
    BY <1>4 DEF OpenInode, IsOpen, ctx
  <2>2. TypeOK'
    BY <1>1, <2>1 DEF CtxInv, TypeOK
  <2>3. QED
    BY <1>1, <1>3, <2>1, <2>2 DEF CtxInv, IsOpen
<1>5. CASE ~(T \in visited /\ IsOpen(T))
  <2>1. ~IsOpen(T)
    BY <1>1, <1>5 DEF CtxInv, IsOpen
  <2>2. PICK ok \in Outcomes("inode_open") :
          /\ ni' = IF ok THEN T ELSE Null
          /\ IF ok
               THEN /\ open_inodes' = Append(open_inodes, T)
                    /\ handles' = [handles EXCEPT ![T] = @ + 1]
                    /\ visited' = visited \cup {T}
                    /\ pc' = "instance"
                    /\ UNCHANGED <<open_attrs, rp_inodes, rp_ptr, offset, ret, failed>>
               ELSE BeginFails("ntfs")
    BY <1>5 DEF OpenInode, IsOpen
  <2>3. CASE ~ok
    <3>1. BeginFails("ntfs") /\ c' = c
      BY <1>1, <2>2, <2>3
    <3>2. c' \in Nat \ {0} /\ created' \subseteq Targets
      BY <1>1, <3>1 DEF CtxInv, TypeOK
    <3>3. QED
      BY <1>1, <3>1, <3>2, BeginFailsCtx
  <2>4. CASE ok
    <3>1. /\ open_inodes' = Append(open_inodes, T)
          /\ handles' = [handles EXCEPT ![T] = @ + 1]
          /\ visited' = visited \cup {T}
          /\ pc' = "instance" /\ ni' = T
          /\ UNCHANGED <<open_attrs, rp_inodes, rp_ptr, offset, ret, failed>>
      BY <2>2, <2>4
    <3>2. /\ open_inodes \in Seq(Inodes)
          /\ open_inodes' \in Seq(Inodes)
          /\ Len(open_inodes') = Len(open_inodes) + 1
          /\ DOMAIN open_inodes' = 1 .. Len(open_inodes) + 1
          /\ DOMAIN open_inodes = 1 .. Len(open_inodes)
          /\ \A j \in 1 .. Len(open_inodes) : open_inodes'[j] = open_inodes[j]
          /\ open_inodes'[Len(open_inodes) + 1] = T
      BY <1>2, <3>1, AppendProperties, LenProperties DEF CtxInv, TypeOK
    <3>3. (\A a, b \in DOMAIN open_inodes : open_inodes[a] = open_inodes[b] => a = b)'
      BY <2>1, <3>2 DEF CtxInv, IsOpen
    <3>4. ASSUME NEW i \in Inodes
          PROVE  IsOpen(i)' <=> IsOpen(i) \/ i = T
      BY <3>2 DEF IsOpen
    <3>5. (\A i \in Inodes : handles[i] = IF IsOpen(i) THEN 1 ELSE 0)'
      BY <1>2, <2>1, <3>1, <3>4 DEF CtxInv, TypeOK
    <3>6. (\A j \in DOMAIN open_inodes : open_inodes[j] \in visited)'
      BY <1>1, <3>1, <3>2 DEF CtxInv
    <3>7. visited' \subseteq EntryInodes'
      BY <1>1, <1>2, <1>3, <3>1 DEF CtxInv
    <3>8. handles' \in [Inodes -> Nat]
      BY <1>2, <3>1 DEF CtxInv, TypeOK
    <3>9. TypeOK'
      BY <1>1, <1>2, <3>1, <3>2, <3>8 DEF CtxInv, TypeOK
    <3>10. QED
      BY <1>1, <1>3, <3>1, <3>3, <3>5, <3>6, <3>7, <3>9 DEF CtxInv
  <2>5. QED
    BY <2>3, <2>4 DEF Outcomes
<1>6. QED
  BY <1>4, <1>5

\* After a target that begin_blob_instance has set up, begin_blob goes on
\* with the next target, or clears i_visited and hands over to the chunks.
LEMMA NextTargetCtx ==
    ASSUME CtxInv, pc = "instance", NextTarget,
           UNCHANGED <<xl, k, status, ret, failed, open_inodes, handles, offset>>,
           open_attrs' \in Seq(Targets), rp_inodes' \in Seq(Inodes),
           rp_ptr' \in Nat \cup {Null}, created' \subseteq Targets
    PROVE  CtxInv'
<1>1. /\ k \in 1 .. Len(xl) /\ bi \in 1 .. Len(Entry.targets)
      /\ visited \subseteq EntryInodes
      /\ \A j \in DOMAIN open_inodes : open_inodes[j] \in visited
  BY DEF CtxInv, TypeOK
<1>2. Len(Entry.targets) \in Nat
  BY <1>1, EntryType DEF CtxInv, TypeOK
<1>3. Entry' = Entry /\ EntryInodes' = EntryInodes
  BY DEF Entry, EntryInodes
<1>5. (\A i \in Inodes : handles[i] = IF IsOpen(i) THEN 1 ELSE 0)'
  BY DEF CtxInv, IsOpen
<1>6. CASE bi = Len(Entry.targets)
  <2>1. pc' = "chunk" /\ c' = 1 /\ bi' = bi /\ visited' = {}
    BY <1>1, <1>6 DEF NextTarget
  <2>2. TypeOK'
    BY <2>1 DEF CtxInv, TypeOK
  <2>3. QED
    BY <1>1, <1>3, <1>5, <2>1, <2>2 DEF CtxInv
<1>7. CASE bi # Len(Entry.targets)
  <2>1. pc' = "open_inode" /\ c' = c /\ bi' = bi + 1 /\ visited' = visited
    BY <1>7 DEF NextTarget
  <2>2. bi' \in 1 .. Len(Entry'.targets)
    BY <1>1, <1>2, <1>3, <1>7, <2>1
  <2>3. TypeOK'
    BY <2>1 DEF CtxInv, TypeOK
  <2>4. QED
    BY <1>1, <1>3, <1>5, <2>1, <2>2, <2>3 DEF CtxInv
<1>8. QED
  BY <1>6, <1>7

\* ntfs_3g_begin_extract_blob_instance: a queued reparse point or an
\* opened attribute is one more table entry, its inode already open; any
\* failure takes begin_blob's error path.
LEMMA BeginInstanceCtx ==
    ASSUME CtxInv, BeginInstance
    PROVE  CtxInv'
<1>1. /\ pc = "instance" /\ k \in 1 .. Len(xl) /\ bi \in 1 .. Len(Entry.targets)
      /\ ni = Target.inode
      /\ UNCHANGED <<xl, k, ni, status>>
  BY DEF BeginInstance, CtxInv, TypeOK
<1>2. Target \in Targets
  BY <1>1, EntryType DEF CtxInv, TypeOK
<1>3. CASE Target.type = "reparse" /\ ~ReparseFits(Entry)
  <2>1. BeginFails("invalid_reparse") /\ c' = c /\ created' = created
    BY <1>3 DEF BeginInstance
  <2>2. c' \in Nat \ {0} /\ created' \subseteq Targets
    BY <2>1 DEF CtxInv, TypeOK
  <2>3. QED
    BY <1>1, <2>1, <2>2, BeginFailsCtx
<1>4. CASE Target.type = "reparse" /\ ReparseFits(Entry)
  <2>1. /\ rp_ptr' = 0 /\ rp_inodes' = Append(rp_inodes, ni) /\ NextTarget
        /\ UNCHANGED <<open_attrs, open_inodes, offset, handles, ret, failed, created>>
    BY <1>4 DEF BeginInstance
  <2>2. rp_inodes' \in Seq(Inodes)
    BY <1>1, <1>2, <2>1, AppendProperties DEF CtxInv, TypeOK, Targets
  <2>3. QED
    BY <1>1, <2>1, <2>2, NextTargetCtx DEF CtxInv, TypeOK
<1>5. CASE Target.type # "reparse"
  <2>1. PICK add_ok \in IF Target.name = Unnamed THEN {TRUE} ELSE Outcomes("attr_add") :
          \E open_ok \in Outcomes("attr_open") :
            /\ created' = IF add_ok /\ Target.name # Unnamed
                            THEN created \cup {Target} ELSE created
            /\ IF add_ok /\ open_ok
                 THEN /\ open_attrs' = Append(open_attrs, Target)
                      /\ data' = [data EXCEPT ![Target] = [j \in 1 .. SizeOf(Entry) |-> 0]]
                      /\ NextTarget
                      /\ UNCHANGED <<open_inodes, rp_inodes, rp_ptr, offset,
                                     handles, ret, failed>>
                 ELSE /\ BeginFails("ntfs")
                      /\ UNCHANGED <<bi, c, data>>
    BY <1>5 DEF BeginInstance
  <2>2. PICK open_ok \in Outcomes("attr_open") :
            /\ created' = IF add_ok /\ Target.name # Unnamed
                            THEN created \cup {Target} ELSE created
            /\ IF add_ok /\ open_ok
                 THEN /\ open_attrs' = Append(open_attrs, Target)
                      /\ data' = [data EXCEPT ![Target] = [j \in 1 .. SizeOf(Entry) |-> 0]]
                      /\ NextTarget
                      /\ UNCHANGED <<open_inodes, rp_inodes, rp_ptr, offset,
                                     handles, ret, failed>>
                 ELSE /\ BeginFails("ntfs")
                      /\ UNCHANGED <<bi, c, data>>
    BY <2>1
  <2>3. created' \subseteq Targets
    BY <1>2, <2>2 DEF CtxInv, TypeOK
  <2>4. CASE add_ok /\ open_ok
    <3>1. /\ open_attrs' = Append(open_attrs, Target) /\ NextTarget
          /\ UNCHANGED <<open_inodes, rp_inodes, rp_ptr, offset, handles, ret, failed>>
      BY <2>2, <2>4
    <3>2. open_attrs' \in Seq(Targets)
      BY <1>2, <3>1, AppendProperties DEF CtxInv, TypeOK
    <3>3. QED
      BY <1>1, <2>3, <3>1, <3>2, NextTargetCtx DEF CtxInv, TypeOK
  <2>5. CASE ~(add_ok /\ open_ok)
    <3>1. BeginFails("ntfs") /\ c' = c
      BY <2>2, <2>5
    <3>2. c' \in Nat \ {0}
      BY <3>1 DEF CtxInv
    <3>3. QED
      BY <1>1, <2>3, <3>1, <3>2, BeginFailsCtx
  <2>6. QED
    BY <2>4, <2>5
<1>6. QED
  BY <1>3, <1>4, <1>5

\* ntfs_3g_extract_chunk moves ctx->offset and reparse_ptr on by the
\* chunk's size, or hands a short write to end_blob; the tables of open
\* attributes and inodes stay as begin_blob left them.
LEMMA ExtractChunkCtx ==
    ASSUME CtxInv, ExtractChunk
    PROVE  CtxInv'
<1>1. /\ pc = "chunk" /\ k \in 1 .. Len(xl) /\ c \in 1 .. Len(Entry.chunks)
      /\ visited = {}
      /\ UNCHANGED <<xl, k, bi, ni, ret, open_attrs, open_inodes, rp_inodes,
                     visited, handles, created>>
  BY DEF ExtractChunk, CtxInv, TypeOK
<1>2. Len(ChunkBytes(Entry, c)) \in Nat
  <2>1. Entry.chunks[c] \in Nat \ {0}
    BY <1>1, EntryType, ElementOfSeq DEF CtxInv, TypeOK
  <2>2. QED
    BY <2>1, ChunkLen
<1>3. Entry' = Entry
  BY <1>1 DEF Entry
<1>4. PICK n \in Nat :
        IF n = Len(open_attrs)
          THEN /\ rp_ptr' = IF rp_ptr = Null THEN Null ELSE rp_ptr + Len(ChunkBytes(Entry, c))
               /\ offset' = offset + Len(ChunkBytes(Entry, c))
               /\ c' = c + 1
               /\ UNCHANGED <<pc, status, failed>>
          ELSE /\ status' = "ntfs"
               /\ pc' = "end"
               /\ failed' = TRUE
               /\ UNCHANGED <<rp_ptr, offset, c>>
  BY DEF ExtractChunk
<1>5. CASE n = Len(open_attrs)
  <2>1. /\ rp_ptr' \in Nat \cup {Null} /\ offset' \in Nat /\ c' \in Nat \ {0}
        /\ pc' = "chunk" /\ status' = status /\ failed' = failed
    BY <1>1, <1>2, <1>4, <1>5 DEF CtxInv, TypeOK
  <2>2. TypeOK'
    BY <1>1, <2>1 DEF CtxInv, TypeOK
  <2>3. QED
    BY <1>1, <1>3, <2>1, <2>2 DEF CtxInv, IsOpen, Target
<1>6. CASE n # Len(open_attrs)
  <2>1. /\ rp_ptr' = rp_ptr /\ offset' = offset /\ c' = c
        /\ pc' = "end" /\ status' = "ntfs" /\ failed' = TRUE
    BY <1>4, <1>6
  <2>2. TypeOK'
    BY <1>1, <2>1 DEF CtxInv, TypeOK
  <2>3. QED
    BY <1>1, <1>3, <2>1, <2>2 DEF CtxInv, IsOpen, Target
<1>7. QED
  BY <1>5, <1>6

\* ntfs_3g_end_extract_blob ends in ntfs_3g_cleanup_blob_extract on every
\* path, so the next blob, or the unmount, finds the context empty.
LEMMA EndBlobCtx ==
    ASSUME CtxInv, EndBlob
    PROVE  CtxInv'
<1>1. /\ pc = "end" /\ k \in 1 .. Len(xl) /\ visited = {}
      /\ UNCHANGED <<xl, bi, c, ni, status, visited, created>>
  BY DEF EndBlob, CtxInv, TypeOK
<1>2. /\ open_attrs' = <<>> /\ open_inodes' = <<>> /\ rp_inodes' = <<>>
      /\ rp_ptr' = Null /\ offset' = 0
      /\ handles' \in [Inodes -> Nat]
      /\ (\A a, b \in DOMAIN open_inodes : open_inodes[a] = open_inodes[b] => a = b)'
      /\ (\A i \in Inodes : handles[i] = IF IsOpen(i) THEN 1 ELSE 0)'
  BY CleanupEmpties DEF EndBlob
<1>3. PICK n \in Nat, close_ok \in BOOLEAN :
        LET r == IF status # "ok" THEN status
                 ELSE IF n < Len(rp_inodes) THEN "set_reparse" ELSE "ok"
            r2 == CloseResult(r, close_ok)
        IN  /\ ret' = r2
            /\ failed' = (failed \/ r # status \/ ~close_ok)
            /\ pc' = IF r2 = "ok" THEN "begin" ELSE "umount"
            /\ k' = IF r2 = "ok" THEN k + 1 ELSE k
  <2> DEFINE NS == IF status = "ok" /\ "set_reparse" \in Faults
                    THEN 0 .. Len(rp_inodes)
                    ELSE {IF status = "ok" THEN Len(rp_inodes) ELSE 0}
  <2>1. NS \subseteq Nat
    BY LenProperties DEF CtxInv, TypeOK
  <2>2. PICK n \in NS :
          \E close_ok \in IF open_attrs = <<>> /\ open_inodes = <<>>
                            THEN {TRUE} ELSE Outcomes("close") :
            LET r == IF status # "ok" THEN status
                     ELSE IF n < Len(rp_inodes) THEN "set_reparse" ELSE "ok"
                r2 == CloseResult(r, close_ok)
            IN  /\ ret' = r2
                /\ failed' = (failed \/ r # status \/ ~close_ok)
                /\ pc' = IF r2 = "ok" THEN "begin" ELSE "umount"
                /\ k' = IF r2 = "ok" THEN k + 1 ELSE k
    BY DEF EndBlob
  <2>3. QED
    BY <2>1, <2>2 DEF Outcomes
<1>4. /\ ret' \in {"ok", "ntfs", "invalid_reparse", "hash", "set_reparse"}
      /\ failed' \in BOOLEAN
      /\ pc' \in {"begin", "umount"}
      /\ k' \in 1 .. Len(xl) + 1
  BY <1>1, <1>3 DEF CtxInv, TypeOK, CloseResult
<1>5. TypeOK'
  BY <1>1, <1>2, <1>4, EmptySeq DEF CtxInv, TypeOK
<1>6. QED
  BY <1>1, <1>2, <1>4, <1>5 DEF CtxInv

LEMMA NextCtx == CtxInv /\ [Next]_vars => CtxInv'
<1> SUFFICES ASSUME CtxInv, [Next]_vars PROVE CtxInv'
  OBVIOUS
<1>1. CASE Mount \/ Structure \/ Umount
  BY <1>1, MountCtx
<1>2. CASE BeginBlob
  BY <1>2, BeginBlobCtx
<1>3. CASE OpenInode
  BY <1>3, OpenInodeCtx
<1>4. CASE BeginInstance
  BY <1>4, BeginInstanceCtx
<1>5. CASE ExtractChunk
  BY <1>5, ExtractChunkCtx
<1>6. CASE ChunksDone
  BY <1>6, ChunksDoneCtx
<1>7. CASE EndBlob
  BY <1>7, EndBlobCtx
<1>8. CASE Finished \/ UNCHANGED vars
  <2>1. UNCHANGED vars
    BY <1>8 DEF Finished
  <2>2. QED
    BY <2>1 DEF vars, CtxInv, TypeOK, IsOpen, Entry, Target, EntryInodes
<1>9. QED
  BY <1>1, <1>2, <1>3, <1>4, <1>5, <1>6, <1>7, <1>8 DEF Next

\* Every state ntfs_3g_extract and the callbacks reach has its type.
THEOREM TypeCorrect == Spec => []TypeOK
<1>1. CtxInv => TypeOK
  BY DEF CtxInv
<1>2. QED
  BY <1>1, InitCtx, NextCtx, PTL DEF Spec

\* Between blobs and after extraction stops, whichever callback failed,
\* ntfs_3g_cleanup_blob_extract has closed every attribute and inode and
\* reset the context, and i_visited is clear on every inode.
THEOREM ContextClosed == Spec => []ClosedBetweenBlobs
<1>1. CtxInv => ClosedBetweenBlobs
  <2> SUFFICES ASSUME CtxInv, pc \in {"begin", "umount", "done"}
               PROVE  ClosedBetweenBlobs
    BY DEF ClosedBetweenBlobs
  <2>1. open_inodes = <<>>
    BY DEF CtxInv
  <2>2. \A i \in Inodes : ~IsOpen(i)
    BY <2>1 DEF IsOpen
  <2>3. QED
    BY <2>2 DEF CtxInv, ClosedBetweenBlobs
<1>2. QED
  BY <1>1, InitCtx, NextCtx, PTL DEF Spec

\* No inode ever has two libntfs-3g handles open: i_visited makes a blob
\* reuse the handle of an inode it already opened, and cleanup closes
\* every handle before the next blob opens any.
THEOREM InodesOpenOnce == Spec => []InodeOpenOnce
<1>1. CtxInv => InodeOpenOnce
  BY DEF CtxInv, InodeOpenOnce
<1>2. QED
  BY <1>1, InitCtx, NextCtx, PTL DEF Spec

-----------------------------------------------------------------------------
(* ErrorNotMasked.                                                         *)

\* ntfs_3g_extract's ret holds 0 until it reaches out_unmount: every error
\* sends it there at once.
RetInv == pc \notin {"umount", "done"} => ret = "ok"

LEMMA InitRet == Init => RetInv
BY DEF Init, RetInv

LEMMA NextRet == RetInv /\ [Next]_vars => RetInv'
<1> SUFFICES ASSUME RetInv, [Next]_vars PROVE RetInv'
  OBVIOUS
<1>1. CASE Mount \/ Structure \/ Umount \/ BeginBlob \/ ExtractChunk \/ ChunksDone
  BY <1>1 DEF Mount, Structure, Umount, BeginBlob, ExtractChunk, ChunksDone, RetInv
<1>2. CASE OpenInode
  BY <1>2 DEF OpenInode, BeginFails, RetInv
<1>3. CASE BeginInstance
  BY <1>3 DEF BeginInstance, BeginFails, NextTarget, RetInv
<1>4. CASE EndBlob
  BY <1>4 DEF EndBlob, RetInv
<1>5. CASE Finished \/ UNCHANGED vars
  BY <1>5 DEF Finished, vars, RetInv
<1>6. QED
  BY <1>1, <1>2, <1>3, <1>4, <1>5 DEF Next

\* No step replaces an error already in ret or handed to end_blob.
LEMMA NextNotMasked ==
    ASSUME RetInv, [Next]_vars
    PROVE  [ /\ ret # "ok" => ret' = ret
             /\ pc = "end" /\ status # "ok" => ret' = status ]_vars
<1>1. CASE UNCHANGED vars
  BY <1>1 DEF vars
<1>2. ASSUME Next, ret # "ok" PROVE ret' = ret
  <2>1. pc \in {"umount", "done"}
    BY <1>2 DEF RetInv
  <2>2. Umount \/ Finished
    BY <1>2, <2>1 DEF Next, Mount, Structure, BeginBlob, OpenInode,
                      BeginInstance, ExtractChunk, ChunksDone, EndBlob
  <2>. QED
    BY <1>2, <2>2 DEF Umount, Finished, vars
<1>3. ASSUME Next, pc = "end", status # "ok" PROVE ret' = status
  <2>1. EndBlob
    BY <1>3 DEF Next, Mount, Structure, BeginBlob, OpenInode, BeginInstance,
                ExtractChunk, ChunksDone, Umount, Finished
  <2>2. \A close_ok \in BOOLEAN : CloseResult(status, close_ok) = status
    BY <1>3 DEF CloseResult
  <2>3. \E close_ok \in BOOLEAN :
          ret' = CloseResult(status, close_ok)
    <3>1. PICK n, close_ok : close_ok \in BOOLEAN /\
            ret' = CloseResult(IF status # "ok" THEN status
                               ELSE IF n < Len(rp_inodes) THEN "set_reparse" ELSE "ok",
                               close_ok)
      BY <2>1 DEF EndBlob, Outcomes
    <3>. QED
      BY <1>3, <3>1
  <2>. QED
    BY <2>2, <2>3, <1>3
<1>. QED
  BY <1>1, <1>2, <1>3

\* Whichever libntfs-3g calls fail, and in whatever order, an error once
\* produced is the one ntfs_3g_extract returns: the cleanup after end_blob
\* and ntfs_umount report their own failure only when nothing failed
\* before.
THEOREM ErrorsNotMasked == Spec => ErrorNotMasked
<1>1. RetInv /\ [Next]_vars =>
        [ /\ ret # "ok" => ret' = ret
          /\ pc = "end" /\ status # "ok" => ret' = status ]_vars
  BY NextNotMasked
<1>. QED
  BY <1>1, InitRet, NextRet, PTL DEF Spec, ErrorNotMasked

====
