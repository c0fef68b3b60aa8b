------------------------------ MODULE NtfsApply ------------------------------
(***************************************************************************)
(* Extraction of an image onto an NTFS volume with libntfs-3g             *)
(* (ntfs-3g_apply.c): ntfs_3g_extract mounts the volume, creates the file *)
(* structure, then extract_blob_list feeds every blob to three callbacks: *)
(* ntfs_3g_begin_extract_blob opens the inode and the data attribute of   *)
(* each target stream (or queues a reparse point), ntfs_3g_extract_chunk  *)
(* writes each chunk to every open attribute at ctx->offset, and          *)
(* ntfs_3g_end_extract_blob sets the reparse points and closes            *)
(* everything (ntfs_3g_cleanup_blob_extract).                              *)
(*                                                                         *)
(* A blob's bytes are abstracted to <<blob, position>>; a stream's        *)
(* contents to a function from byte positions to bytes (0 for a zero).    *)
(***************************************************************************)
EXTENDS Naturals, Sequences, FiniteSets, Functions

CONSTANTS
    Inodes,       \* the inodes of the image (their MFT numbers)
    Blobs,        \* the blobs of the image
    Names,        \* the names of named data streams
    Unnamed,      \* the empty stream name
    Null,         \* NULL
    Lists,        \* the extraction lists extract_blob_list may produce
    MaxOpen,      \* MAX_OPEN_FILES
    ReparseMax,   \* REPARSE_DATA_MAX_SIZE
    Faults        \* the libntfs-3g calls that may fail

\* A target stream of a blob: a data stream (named or not) or the reparse
\* point of an inode.
Targets == [inode : Inodes, type : {"data", "reparse"}, name : Names \cup {Unnamed}]

\* One call of begin_blob, chunk* and end_blob: a blob, the sizes of the
\* chunks it is read in, and the targets handed to begin_blob.
Entries == [blob : Blobs, chunks : Seq(Nat \ {0}), targets : Seq(Targets)]

Calls == {"mount", "structure", "inode_open", "attr_add", "attr_open",
          "pwrite", "hash", "set_reparse", "close", "umount"}

ASSUME ApplyAssumption ==
    /\ Null \notin Inodes \cup Names \cup {Unnamed}
    /\ MaxOpen \in Nat \ {0}
    /\ ReparseMax \in Nat
    /\ Faults \subseteq Calls
    /\ Lists \subseteq Seq(Entries)
    \* extract_blob_list hands begin_blob at most MAX_OPEN_FILES targets,
    \* and at least one: a blob is listed for the streams that refer to it
    /\ \A l \in Lists : \A j \in DOMAIN l : Len(l[j].targets) \in 1 .. MaxOpen

VARIABLES
    xl,          \* the extraction list of this apply
    pc,          \* where ntfs_3g_extract and the callbacks are
    k,           \* the entry of xl being extracted
    bi,          \* the target begin_blob is at
    c,           \* the next chunk of the blob
    ni,          \* the inode open_inode returned (Null on failure)
    status,      \* the status extract_blob_list hands to end_blob
    ret,         \* what ntfs_3g_extract returns
    open_attrs,  \* ctx->open_attrs[0 .. num_open_attrs - 1]
    open_inodes, \* ctx->open_inodes[0 .. num_open_inodes - 1]
    rp_inodes,   \* ctx->ntfs_reparse_inodes[0 .. num_reparse_inodes - 1]
    rp_ptr,      \* ctx->reparse_ptr - ctx->rpbuf.rpdata, or Null
    rpbuf,       \* ctx->rpbuf.rpdata
    offset,      \* ctx->offset
    visited,     \* the inodes with i_visited set
    handles,     \* how many ntfs_inode handles of each inode are open
    created,     \* the named data attributes ntfs_attr_add has made
    data,        \* the contents of each data stream on the volume
    reparse,     \* the reparse data set on each inode, or Null
    failed       \* whether some libntfs-3g call has failed

vars == <<xl, pc, k, bi, c, ni, status, ret, open_attrs, open_inodes,
          rp_inodes, rp_ptr, rpbuf, offset, visited, handles, created,
          data, reparse, failed>>

ctx == <<open_attrs, open_inodes, rp_inodes, rp_ptr, offset>>

\* Whether a call succeeds: always, unless it is among the Faults.
Outcomes(call) == IF call \in Faults THEN BOOLEAN ELSE {TRUE}

Entry == xl[k]
Target == Entry.targets[bi]

SizeOf(e) ==
    LET s[i \in 0 .. Len(e.chunks)] == IF i = 0 THEN 0 ELSE s[i - 1] + e.chunks[i]
    IN  s[Len(e.chunks)]

BlobBytes(e) == [j \in 1 .. SizeOf(e) |-> <<e.blob, j>>]

\* The bytes of chunk i of entry e.
ChunkBytes(e, i) ==
    LET before == SizeOf([e EXCEPT !.chunks = SubSeq(e.chunks, 1, i - 1)])
    IN  [j \in 1 .. e.chunks[i] |-> <<e.blob, before + j>>]

\* Writing bytes at an offset of a stream or buffer, extending it if needed.
WriteAt(d, off, bytes) ==
    [j \in DOMAIN d \cup (off + 1 .. off + Len(bytes)) |->
        IF j > off /\ j <= off + Len(bytes) THEN bytes[j - off] ELSE d[j]]

\* How many of the handles in open_inodes are of inode i.
Opened(i) == Cardinality({j \in DOMAIN open_inodes : open_inodes[j] = i})

\* The inodes of the targets of the current entry: their i_visited flags
\* are cleared when begin_blob returns.
EntryInodes == {Entry.targets[j].inode : j \in DOMAIN Entry.targets}

-----------------------------------------------------------------------------

Init ==
    /\ xl \in Lists
    /\ pc = "mount"
    /\ k = 1 /\ bi = 1 /\ c = 1 /\ ni = Null
    /\ status = "ok" /\ ret = "ok"
    /\ open_attrs = <<>> /\ open_inodes = <<>> /\ rp_inodes = <<>>
    /\ rp_ptr = Null /\ rpbuf = <<>> /\ offset = 0
    /\ visited = {}
    /\ handles = [i \in Inodes |-> 0]
    /\ created = {}
    /\ data = [t \in Targets |-> <<>>]
    /\ reparse = [i \in Inodes |-> Null]
    /\ failed = FALSE

\* ntfs_mount: the volume is mounted, or ntfs_3g_extract fails at once.
Mount ==
    /\ pc = "mount"
    /\ \E ok \in Outcomes("mount") :
          /\ pc' = IF ok THEN "structure" ELSE "done"
          /\ ret' = IF ok THEN "ok" ELSE "ntfs"
          /\ failed' = ~ok
    /\ UNCHANGED <<xl, k, bi, c, ni, status, ctx, rpbuf, visited, handles,
                   created, data, reparse>>

\* start_file_structure_phase, ntfs_3g_create_directories,
\* ntfs_3g_create_nondirectories and end_file_structure_phase, as one
\* step that creates every file empty or fails.
Structure ==
    /\ pc = "structure"
    /\ \E ok \in Outcomes("structure") :
          /\ pc' = IF ok THEN "begin" ELSE "umount"
          /\ ret' = IF ok THEN "ok" ELSE "ntfs"
          /\ failed' = ~ok
    /\ UNCHANGED <<xl, k, bi, c, ni, status, ctx, rpbuf, visited, handles,
                   created, data, reparse>>

\* extract_blob_list calls begin_blob for the next entry, or returns 0
\* when there is none.
BeginBlob ==
    /\ pc = "begin"
    /\ IF k <= Len(xl)
         THEN pc' = "open_inode" /\ bi' = 1
         ELSE pc' = "umount" /\ bi' = bi
    /\ UNCHANGED <<xl, k, c, ni, status, ret, ctx, rpbuf, visited, handles,
                   created, data, reparse, failed>>

CleanupCtxKeepOffset ==
    /\ open_attrs' = <<>>
    /\ open_inodes' = <<>>
    /\ handles' = [i \in Inodes |-> handles[i] - Opened(i)]
    /\ offset' = offset
    /\ rp_ptr' = Null
    /\ rp_inodes' = <<>>
BeginFailsNoCleanup(err) ==
    /\ UNCHANGED <<open_attrs, open_inodes, handles, offset, rp_ptr, rp_inodes>>
    /\ visited' = visited \ EntryInodes
    /\ ret' = err
    /\ failed' = TRUE
    /\ pc' = "umount"

\* ntfs_3g_cleanup_blob_extract: every open attribute and inode is closed
\* (closing a NULL inode does nothing), and the counts, ctx->offset and
\* reparse_ptr are reset.
CleanupCtx ==
    /\ open_attrs' = <<>>
    /\ open_inodes' = <<>>
    /\ handles' = [i \in Inodes |-> handles[i] - Opened(i)]
    /\ offset' = 0
    /\ rp_ptr' = Null
    /\ rp_inodes' = <<>>

\* The error path of begin_blob: out_cleanup (its result is ignored),
\* then out, which clears i_visited on every target's inode;
\* extract_blob_list then returns the error without calling end_blob.
BeginFails(err) ==
    /\ CleanupCtx
    /\ visited' = visited \ EntryInodes
    /\ ret' = err
    /\ failed' = TRUE
    /\ pc' = "umount"
OpenInodeNoVisited ==
    /\ pc = "open_inode"
    /\ \E ok \in Outcomes("inode_open") :
         /\ ni' = IF ok THEN Target.inode ELSE Null
         /\ IF ok
              THEN /\ open_inodes' = Append(open_inodes, Target.inode)
                   /\ handles' = [handles EXCEPT ![Target.inode] = @ + 1]
                   /\ visited' = visited \cup {Target.inode}
                   /\ pc' = "instance"
                   /\ UNCHANGED <<open_attrs, rp_inodes, rp_ptr, offset, ret, failed>>
              ELSE BeginFails("ntfs")
    /\ UNCHANGED <<xl, k, bi, c, status, rpbuf, created, data, reparse>>

\* ntfs_3g_open_inode for the current target: the inode open for an
\* earlier target of the blob (i_visited) is reused; otherwise it is
\* opened, and the result, NULL included, is stored and counted.
OpenInode ==
    /\ pc = "open_inode"
    /\ IF Target.inode \in visited /\ \E j \in DOMAIN open_inodes : open_inodes[j] = Target.inode
         THEN /\ ni' = Target.inode
              /\ pc' = "instance"
              /\ UNCHANGED <<ctx, visited, handles, ret, failed>>
         ELSE \E ok \in Outcomes("inode_open") :
                /\ ni' = IF ok THEN Target.inode ELSE Null
                /\ IF ok
                     THEN /\ open_inodes' = Append(open_inodes, Target.inode)
                          /\ handles' = [handles EXCEPT ![Target.inode] = @ + 1]
                          /\ visited' = visited \cup {Target.inode}
                          /\ pc' = "instance"
                          /\ UNCHANGED <<open_attrs, rp_inodes, rp_ptr, offset, ret, failed>>
                     ELSE BeginFails("ntfs")
    /\ UNCHANGED <<xl, k, bi, c, status, rpbuf, created, data, reparse>>

ReparseFitsAlways(e) == TRUE
\* A reparse point's data must fit rpbuf (REPARSE_DATA_MAX_SIZE bytes).
ReparseFits(e) == SizeOf(e) <= ReparseMax

\* After a target: begin_blob goes on with the next one, or returns 0 at
\* out, clearing i_visited, and the blob's chunks follow.
NextTarget ==
    IF bi = Len(Entry.targets)
      THEN /\ pc' = "chunk" /\ c' = 1 /\ bi' = bi
           /\ visited' = visited \ EntryInodes
      ELSE /\ pc' = "open_inode" /\ c' = c /\ bi' = bi + 1
           /\ UNCHANGED visited

\* ntfs_3g_begin_extract_blob_instance: a reparse target is queued and
\* its bytes are to be buffered, if the blob fits REPARSE_DATA_MAX_SIZE;
\* a data target has its named attribute added, then its attribute opened
\* and truncated to the blob's size.
BeginInstance ==
    /\ pc = "instance"
    /\ IF Target.type = "reparse"
         THEN IF ~ReparseFits(Entry)
                THEN /\ BeginFails("invalid_reparse")
                     /\ UNCHANGED <<bi, c, data, created>>
                ELSE /\ rp_ptr' = 0
                     /\ rp_inodes' = Append(rp_inodes, ni)
                     /\ NextTarget
                     /\ UNCHANGED <<open_attrs, open_inodes, offset, handles,
                                    ret, failed, data, created>>
         ELSE \E add_ok \in IF Target.name = Unnamed THEN {TRUE} ELSE Outcomes("attr_add"),
                 open_ok \in Outcomes("attr_open") :
                /\ created' = IF add_ok /\ Target.name # Unnamed
                                THEN created \cup {Target} ELSE created
                /\ IF add_ok /\ open_ok
                     THEN /\ open_attrs' = Append(open_attrs, Target)
                          /\ data' = [data EXCEPT ![Target] = [j \in 1 .. SizeOf(Entry) |-> 0]]
                          /\ NextTarget
                          /\ UNCHANGED <<open_inodes, rp_inodes, rp_ptr, offset,
                                         handles, ret, failed>>
                     ELSE /\ BeginFails("ntfs")
                          /\ UNCHANGED <<bi, c, data>>
    /\ UNCHANGED <<xl, k, ni, status, rpbuf, reparse>>

\* ntfs_3g_extract_chunk for the next chunk: it is written at ctx->offset
\* of every open attribute in turn; a short write stops the loop, and
\* extract_blob_list hands the error to end_blob.  Otherwise the chunk is
\* buffered for the reparse points and ctx->offset advances.
ExtractChunk ==
    /\ pc = "chunk"
    /\ c <= Len(Entry.chunks)
    /\ LET bytes == ChunkBytes(Entry, c) IN
       \E n \in IF "pwrite" \in Faults THEN 0 .. Len(open_attrs) ELSE {Len(open_attrs)} :
          /\ data' = [t \in Targets |->
                        IF \E j \in 1 .. n : open_attrs[j] = t
                          THEN WriteAt(data[t], offset, bytes) ELSE data[t]]
          /\ IF n = Len(open_attrs)
               THEN /\ rpbuf' = IF rp_ptr = Null THEN rpbuf ELSE WriteAt(rpbuf, rp_ptr, bytes)
                    /\ rp_ptr' = IF rp_ptr = Null THEN Null ELSE rp_ptr + Len(bytes)
                    /\ offset' = offset + Len(bytes)
                    /\ c' = c + 1
                    /\ UNCHANGED <<pc, status, failed>>
               ELSE /\ status' = "ntfs"
                    /\ pc' = "end"
                    /\ failed' = TRUE
                    /\ UNCHANGED <<rpbuf, rp_ptr, offset, c>>
    /\ UNCHANGED <<xl, k, bi, ni, ret, open_attrs, open_inodes, rp_inodes,
                   visited, handles, created, reparse>>

\* After the last chunk extract_blob_list checks the blob's SHA-1 and
\* calls end_blob with the result.
ChunksDone ==
    /\ pc = "chunk"
    /\ c > Len(Entry.chunks)
    /\ \E ok \in Outcomes("hash") :
          /\ status' = IF ok THEN "ok" ELSE "hash"
          /\ failed' = (failed \/ ~ok)
    /\ pc' = "end"
    /\ UNCHANGED <<xl, k, bi, c, ni, ret, ctx, rpbuf, visited, handles,
                   created, data, reparse>>

CloseResultIgnored(r, close_ok) == r
CloseResultRaw(r, close_ok) == IF close_ok THEN r ELSE "-1"
\* What end_blob returns once ntfs_3g_cleanup_blob_extract has run: a
\* failed close becomes WIMLIB_ERR_NTFS_3G unless an error came first.
CloseResult(r, close_ok) == IF ~close_ok /\ r = "ok" THEN "ntfs" ELSE r

\* ntfs_3g_end_extract_blob: with a good status the buffered reparse data
\* is set on each queued inode in turn until one fails; then every
\* attribute and inode is closed (a failure there is reported only if
\* nothing failed before) and the context reset.  extract_blob_list goes
\* on with the next entry only if end_blob returned 0.
EndBlob ==
    /\ pc = "end"
    /\ \E n \in IF status = "ok" /\ "set_reparse" \in Faults
                  THEN 0 .. Len(rp_inodes)
                  ELSE {IF status = "ok" THEN Len(rp_inodes) ELSE 0},
          close_ok \in IF open_attrs = <<>> /\ open_inodes = <<>>
                         THEN {TRUE} ELSE Outcomes("close") :
          LET r == IF status # "ok" THEN status
                   ELSE IF n < Len(rp_inodes) THEN "set_reparse" ELSE "ok"
              r2 == CloseResult(r, close_ok)
          IN  /\ reparse' = [i \in Inodes |->
                               IF \E j \in 1 .. n : rp_inodes[j] = i
                                 THEN [p \in 1 .. SizeOf(Entry) |->
                                         IF p \in DOMAIN rpbuf THEN rpbuf[p] ELSE 0]
                                 ELSE reparse[i]]
              /\ ret' = r2
              /\ failed' = (failed \/ r # status \/ ~close_ok)
              /\ pc' = IF r2 = "ok" THEN "begin" ELSE "umount"
              /\ k' = IF r2 = "ok" THEN k + 1 ELSE k
    /\ CleanupCtx
    /\ UNCHANGED <<xl, bi, c, ni, status, rpbuf, visited, created, data>>

UmountOverwrite ==
    /\ pc = "umount"
    /\ \E ok \in Outcomes("umount") :
          /\ ret' = IF ~ok THEN "ntfs" ELSE ret
          /\ failed' = (failed \/ ~ok)
    /\ pc' = "done"
    /\ UNCHANGED <<xl, k, bi, c, ni, status, ctx, rpbuf, visited, handles,
                   created, data, reparse>>

\* ntfs_umount at out_unmount; its failure is reported only if nothing
\* failed before.
Umount ==
    /\ pc = "umount"
    /\ \E ok \in Outcomes("umount") :
          /\ ret' = IF ~ok /\ ret = "ok" THEN "ntfs" ELSE ret
          /\ failed' = (failed \/ ~ok)
    /\ pc' = "done"
    /\ UNCHANGED <<xl, k, bi, c, ni, status, ctx, rpbuf, visited, handles,
                   created, data, reparse>>

\* ntfs_3g_extract has returned.
Finished ==
    /\ pc = "done"
    /\ UNCHANGED vars

Next ==
    \/ Mount \/ Structure \/ BeginBlob \/ OpenInode \/ BeginInstance
    \/ ExtractChunk \/ ChunksDone \/ EndBlob \/ Umount \/ Finished

Spec == Init /\ [][Next]_vars

-----------------------------------------------------------------------------
(* Properties                                                              *)

TypeOK ==
    /\ xl \in Lists
    /\ pc \in {"mount", "structure", "begin", "open_inode", "instance",
               "chunk", "end", "umount", "done"}
    /\ k \in 1 .. Len(xl) + 1
    /\ open_attrs \in Seq(Targets)
    /\ open_inodes \in Seq(Inodes)
    /\ rp_inodes \in Seq(Inodes)
    /\ rp_ptr \in Nat \cup {Null}
    /\ offset \in Nat
    /\ visited \subseteq Inodes
    /\ handles \in [Inodes -> Nat]
    /\ created \subseteq Targets
    /\ ret \in {"ok", "ntfs", "invalid_reparse", "hash", "set_reparse"}
    /\ failed \in BOOLEAN

\* libntfs-3g never has one inode open twice: a blob with several target
\* streams on one inode opens it once (i_visited), and every handle of a
\* blob is closed before the next blob's are opened, on every error path.
InodeOpenOnce == \A i \in Inodes : handles[i] <= 1

\* Between blobs, and once extraction stops, the callbacks' context holds
\* nothing: no attribute or inode is open, no reparse point is queued,
\* ctx->offset is back at 0 and no inode keeps i_visited, whichever of
\* begin_blob, extract_chunk, the SHA-1 check or end_blob failed.
ClosedBetweenBlobs ==
    pc \in {"begin", "umount", "done"} =>
        /\ open_attrs = <<>> /\ open_inodes = <<>> /\ rp_inodes = <<>>
        /\ rp_ptr = Null /\ offset = 0 /\ visited = {}
        /\ \A i \in Inodes : handles[i] = 0

\* Every blob that end_blob has finished is on the volume, whole and in
\* place: each data target holds exactly the blob's bytes at their
\* offsets, and each reparse target the blob as reparse data, however
\* the chunks were cut and whatever blobs came before.
BlobsIntact ==
    \A j \in 1 .. k - 1 : \A m \in DOMAIN xl[j].targets :
        LET t == xl[j].targets[m]
        IN  IF t.type = "data" THEN data[t] = BlobBytes(xl[j])
                               ELSE reparse[t.inode] = BlobBytes(xl[j])

\* Never more than REPARSE_DATA_MAX_SIZE bytes are buffered in rpbuf: the
\* size check of begin_extract_blob_instance keeps larger blobs out.
ReparseBufBounded == rp_ptr # Null => rp_ptr <= ReparseMax

\* A later failure never replaces an earlier error: the error status
\* extract_blob_list hands end_blob is what end_blob returns, whatever
\* the closes in ntfs_3g_cleanup_blob_extract do ('if (... && !ret)'), and
\* once ntfs_3g_extract's ret holds an error, a failing ntfs_umount keeps
\* it.
ErrorNotMasked ==
    [][ /\ ret # "ok" => ret' = ret
        /\ pc = "end" /\ status # "ok" => ret' = status ]_vars

\* No failure is lost: if any libntfs-3g call, the SHA-1 check or the
\* reparse size check failed, ntfs_3g_extract does not return 0.
ErrorsReported == pc = "done" /\ failed => ret # "ok"

====
