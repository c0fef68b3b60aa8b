----------------------------- MODULE ResourceIO -----------------------------
(***************************************************************************)
(* Extracting a resource to a file descriptor (resource.c):               *)
(* extract_wim_resource reads the first size bytes of a resource chunk by  *)
(* chunk with read_wim_resource, hashes them when the whole resource is   *)
(* read, and hands each chunk to extract_wim_chunk_to_fd, which writes it *)
(* with full_write.  A read comes from wherever the resource is: the WIM  *)
(* (ChunkRead models that path), a staging file or a file on disk, an     *)
(* attached buffer, or an attribute of an NTFS volume.                    *)
(*                                                                         *)
(* Byte j of the resource is <<j, "good">>, or <<j, "bad">> when the      *)
(* stored data is corrupt; byte j of a reparse header is <<j, "header">>; *)
(* bytes of the stack past buf are "garbage".                             *)
(***************************************************************************)
EXTENDS Naturals, Sequences

CONSTANTS
    ChunkSize,    \* WIM_CHUNK_SIZE
    Sizes,        \* the resource sizes (wim_resource_size) to try
    Locations,    \* the resource locations to try
    Faults,       \* the calls that may fail
    ShortWrites,  \* whether write() may write fewer bytes than asked
    MaxWrites     \* write() calls per chunk (bounds EINTR retries)

\* Where a resource is: its lte->resource_location, whether it already has
\* an open file_on_disk_fp, and whether it is an NTFS reparse point.
Locs == [kind : {"wim", "file", "buffer", "ntfs"}, has_fp : BOOLEAN, reparse : BOOLEAN]

Calls == {"read", "open", "write", "eintr"}

ASSUME IOAssumption ==
    /\ ChunkSize \in Nat \ {0}
    /\ Sizes \subseteq Nat
    /\ Locations \subseteq Locs
    /\ Faults \subseteq Calls
    /\ ShortWrites \in BOOLEAN
    /\ MaxWrites \in Nat \ {0}

VARIABLES
    loc,        \* where the resource is
    usize,      \* wim_resource_size(lte)
    size,       \* the bytes extract_wim_resource is asked for
    corrupt,    \* whether the stored data differs from what lte->hash says
    pc,         \* where extract_wim_resource is
    remaining,  \* bytes_remaining
    offset,     \* offset
    buf,        \* buf[0 .. to_read - 1] after the read
    hash_bad,   \* whether the SHA-1 of the bytes hashed so far is off
    tmp_fp,     \* whether read_wim_resource has a FILE of its own open
    file,       \* the bytes written to fd
    total,      \* full_write's total
    p,          \* full_write's p - buf
    writes,     \* write() calls of this full_write
    ret         \* what extract_wim_resource returns

vars == <<loc, usize, size, corrupt, pc, remaining, offset, buf, hash_bad, tmp_fp,
          file, total, p, writes, ret>>

Min(a, b) == IF a < b THEN a ELSE b

\* The bytes of the resource as stored, and as found in the place it is:
\* an NTFS reparse point attribute starts with an 8-byte header.
Data(j) == <<j, IF corrupt THEN "bad" ELSE "good">>
Stored(j) == IF loc.kind = "ntfs" /\ loc.reparse
               THEN IF j <= 8 THEN <<j, "header">> ELSE Data(j - 8)
               ELSE Data(j)

\* sizeof(buf): the array is min(WIM_CHUNK_SIZE, size) bytes.
BufLen == Min(ChunkSize, size)

\* Byte i of the stack from buf on: buf's bytes, then what lies past it.
BufByte(i) == IF i <= Len(buf) THEN buf[i] ELSE "garbage"

Outcomes(call) == IF call \in Faults THEN BOOLEAN ELSE {TRUE}

Init ==
    /\ loc \in Locations
    /\ usize \in Sizes
    /\ size \in 0 .. usize
    /\ corrupt \in IF usize = 0 THEN {FALSE} ELSE BOOLEAN
    /\ pc = "loop"
    /\ remaining = size
    /\ offset = 0
    /\ buf = <<>>
    /\ hash_bad = FALSE
    /\ tmp_fp = FALSE
    /\ file = <<>>
    /\ total = 0 /\ p = 0 /\ writes = 0
    /\ ret = "ok"

\* The while loop of extract_wim_resource: another chunk, or the end.
Loop ==
    /\ pc = "loop"
    /\ pc' = IF remaining > 0 THEN "read" ELSE "hash"
    /\ UNCHANGED <<loc, usize, size, corrupt, remaining, offset, buf, hash_bad,
                   tmp_fp, file, total, p, writes, ret>>

\* read_wim_resource(lte, buf, to_read, offset, 0) fails: extract_wim_resource
\* returns its error at once.
ReadFails(err) ==
    /\ ret' = err
    /\ pc' = "done"
    /\ UNCHANGED <<buf, hash_bad>>

\* read_wim_resource succeeds with bytes: they are hashed when the whole
\* resource is being extracted, and full_write starts on them.
ReadDone(bytes) ==
    /\ buf' = bytes
    /\ hash_bad' = (hash_bad \/ (size = usize /\
                     \E m \in DOMAIN bytes : bytes[m] # <<offset + m, "good">>))
    /\ pc' = "write"
    /\ UNCHANGED ret

ReadOffsetNoSkip(o) == o
\* Where the bytes at resource offset o are: past the reparse header for an
\* NTFS reparse point.
ReadOffset(o) == IF loc.kind = "ntfs" /\ loc.reparse THEN o + 8 ELSE o

ToRead == Min(remaining, BufLen)

BytesAt(o, n) == [m \in 1 .. n |-> Stored(ReadOffset(o) + m)]

\* read_wim_resource for a resource in the WIM, in an attached buffer
\* (memcpy), in an NTFS attribute (ntfs_attr_pread), or in a file whose
\* FILE is already open; a file without one is opened first.
Read ==
    /\ pc = "read"
    /\ \/ /\ loc.kind = "file" /\ ~loc.has_fp
          /\ \E ok \in Outcomes("open") :
                IF ok THEN tmp_fp' = TRUE /\ pc' = "file_read" /\ UNCHANGED <<buf, hash_bad, ret>>
                      ELSE ReadFails("open") /\ UNCHANGED tmp_fp
       \/ /\ loc.kind = "buffer"
          /\ ReadDone(BytesAt(offset, ToRead))
          /\ UNCHANGED tmp_fp
       \/ /\ loc.kind \in {"wim", "ntfs"} \/ (loc.kind = "file" /\ loc.has_fp)
          /\ \E ok \in Outcomes("read") :
                IF ok THEN ReadDone(BytesAt(offset, ToRead))
                      ELSE ReadFails(IF loc.kind = "ntfs" THEN "ntfs" ELSE "read")
          /\ UNCHANGED tmp_fp
    /\ UNCHANGED <<loc, usize, size, corrupt, remaining, offset, file, total, p, writes>>

ReadFileLeakOnError ==
    /\ pc = "file_read"
    /\ \E ok \in Outcomes("read") :
          IF ok THEN ReadDone(BytesAt(offset, ToRead)) /\ tmp_fp' = FALSE
                ELSE ReadFails("read") /\ UNCHANGED tmp_fp
    /\ UNCHANGED <<loc, usize, size, corrupt, remaining, offset, file, total, p, writes>>
\* read_uncompressed_resource on the FILE read_wim_resource opened, then
\* fclose, whatever the read returned.
ReadFile ==
    /\ pc = "file_read"
    /\ \E ok \in Outcomes("read") :
          IF ok THEN ReadDone(BytesAt(offset, ToRead)) ELSE ReadFails("read")
    /\ tmp_fp' = FALSE
    /\ UNCHANGED <<loc, usize, size, corrupt, remaining, offset, file, total, p, writes>>

\* One write(fd, p, n) of full_write while total != n: interrupted (and
\* retried), failed (the loop breaks), or writing r of the n bytes asked
\* for, starting at p, which need not be within buf.
Write ==
    /\ pc = "write"
    /\ total # Len(buf)
    /\ \/ /\ "eintr" \in Faults /\ writes + 1 < MaxWrites
          /\ writes' = writes + 1
          /\ UNCHANGED <<pc, file, total, p>>
       \/ /\ "write" \in Faults
          /\ pc' = "write_ret"
          /\ UNCHANGED <<file, total, p, writes>>
       \/ /\ writes < MaxWrites
          /\ \E r \in IF ShortWrites THEN 1 .. Len(buf) ELSE {Len(buf)} :
                /\ file' = file \o [m \in 1 .. r |-> BufByte(p + m)]
                /\ total' = total + r
                /\ p' = p + r
                /\ writes' = writes + 1
          /\ UNCHANGED pc
    /\ UNCHANGED <<loc, usize, size, corrupt, remaining, offset, buf, hash_bad,
                   tmp_fp, ret>>

ChunkDoneSubtractChunk ==
    /\ \/ pc = "write_ret"
       \/ pc = "write" /\ total = Len(buf)
    /\ IF total < Len(buf)
         THEN ret' = "write" /\ pc' = "done" /\ UNCHANGED <<remaining, offset>>
         ELSE /\ remaining' = remaining - ChunkSize
              /\ offset' = offset + Len(buf)
              /\ pc' = "loop"
              /\ UNCHANGED ret
    /\ total' = 0 /\ p' = 0 /\ writes' = 0
    /\ UNCHANGED <<loc, usize, size, corrupt, buf, hash_bad, tmp_fp, file>>
\* full_write returns total; extract_wim_chunk_to_fd turns a short count
\* into WIMLIB_ERR_WRITE, which extract_wim_resource returns; otherwise
\* the loop moves past the chunk.
ChunkDone ==
    /\ \/ pc = "write_ret"
       \/ pc = "write" /\ total = Len(buf)
    /\ IF total < Len(buf)
         THEN ret' = "write" /\ pc' = "done" /\ UNCHANGED <<remaining, offset>>
         ELSE /\ remaining' = remaining - Len(buf)
              /\ offset' = offset + Len(buf)
              /\ pc' = "loop"
              /\ UNCHANGED ret
    /\ total' = 0 /\ p' = 0 /\ writes' = 0
    /\ UNCHANGED <<loc, usize, size, corrupt, buf, hash_bad, tmp_fp, file>>

\* After the loop: when the whole resource was extracted, its SHA-1 must
\* be lte->hash.
HashCheck ==
    /\ pc = "hash"
    /\ ret' = IF size = usize /\ hash_bad THEN "hash" ELSE "ok"
    /\ pc' = "done"
    /\ UNCHANGED <<loc, usize, size, corrupt, remaining, offset, buf, hash_bad,
                   tmp_fp, file, total, p, writes>>

\* extract_wim_resource has returned.
Finished ==
    /\ pc = "done"
    /\ UNCHANGED vars

Next == Loop \/ Read \/ ReadFile \/ Write \/ ChunkDone \/ HashCheck \/ Finished

Spec == Init /\ [][Next]_vars

-----------------------------------------------------------------------------
(* Properties                                                              *)

TypeOK ==
    /\ loc \in Locations
    /\ size \in 0 .. usize
    /\ remaining \in 0 .. size
    /\ offset \in 0 .. size
    /\ buf \in Seq(UNION {{<<j, "good">>, <<j, "bad">>} : j \in 1 .. usize} \cup {<<j, "header">> : j \in 1 .. 8})
    /\ pc \in {"loop", "read", "file_read", "write", "write_ret", "hash", "done"}
    /\ ret \in {"ok", "read", "open", "ntfs", "write", "hash"}

\* When extract_wim_resource returns 0, the descriptor holds exactly the
\* first size bytes of the resource, in order, wherever the resource was
\* read from and however it was cut into chunks; and when the whole
\* resource was asked for, its data was intact.
ExtractCorrect ==
    pc = "done" /\ ret = "ok" =>
        /\ file = [j \in 1 .. size |-> Data(j)]
        /\ size = usize => ~corrupt

\* The FILE read_wim_resource opens for a staging file or a file on disk
\* is closed before it returns, on the error path as well.
NoFileLeak == tmp_fp => pc = "file_read"

\* full_write writes the n bytes of buf to fd, retrying on interrupts and
\* on short writes (its comment): while it runs, fd has received buf's
\* first total bytes after the earlier chunks, and total never passes n.
FullWriteExact ==
    pc \in {"write", "write_ret"} =>
        /\ total <= Len(buf)
        /\ Len(file) = offset + total
        /\ \A m \in 1 .. total : file[offset + m] = buf[m]

====
