----------------------------- MODULE ChunkRead -----------------------------
(***************************************************************************)
(* Reading part of a WIM resource, as in resource.c: read_wim_resource    *)
(* dispatching to read_uncompressed_resource or read_compressed_resource, *)
(* whose loop reads one chunk per step.                                   *)
(*                                                                         *)
(* The WIM file is a function from byte offsets to cells.  A cell is a    *)
(* byte of the uncompressed stream (identified by its 1-based position in *)
(* the stream, so that a misplaced read shows), a chunk table entry       *)
(* (whose first byte carries the whole offset), the first byte of a       *)
(* compressed chunk (which carries the index of the chunk it decompresses *)
(* to), or padding.  The codecs are abstracted to that: decompress        *)
(* succeeds on a chunk's compressed bytes and the chunk's length.         *)
(***************************************************************************)
EXTENDS Integers, Sequences, FiniteSets

CONSTANTS
    WIM_CHUNK_SIZE,  \* chunk size (32768 in the format; small here)
    WideAt,          \* uncompressed sizes from which table entries are 8 bytes (2^32)
    MaxSize,         \* largest uncompressed resource size tried
    ResOffset,       \* resource_entry.offset of the resource in the file
    Corrupt,         \* whether one chunk table entry may hold any value
    IOFaults         \* whether fread may fail with an I/O error

ASSUME ChunkAssumption ==
    /\ WIM_CHUNK_SIZE \in Nat \ {0, 1}
    /\ WideAt \in Nat \ {0}
    /\ MaxSize \in Nat \ {0}
    /\ ResOffset \in Nat
    /\ Corrupt \in BOOLEAN
    /\ IOFaults \in BOOLEAN

Byte(n) == [k |-> "byte", v |-> n]
Entry(n) == [k |-> "entry", v |-> n]
Token(j) == [k |-> "z", v |-> j]
Pad == [k |-> "pad", v |-> 0]

-----------------------------------------------------------------------------
(* The resource as the writer lays it out (the format of the spec; the   *)
(* writer, write_wim_resource, is not in this source tree).              *)

NumChunks(usize) == (usize + WIM_CHUNK_SIZE - 1) \div WIM_CHUNK_SIZE

\* Uncompressed size of chunk j (0-based) of a resource of usize bytes.
ChunkLen(usize, j) ==
    IF j < NumChunks(usize) - 1 THEN WIM_CHUNK_SIZE
    ELSE usize - (NumChunks(usize) - 1) * WIM_CHUNK_SIZE

EntrySize(usize) == IF usize >= WideAt THEN 8 ELSE 4

\* Stored sizes of the chunks: verbatim (the chunk length) or compressed
\* to fewer bytes.
StoredSizes(usize) ==
    {cs \in [0 .. NumChunks(usize) - 1 -> 1 .. WIM_CHUNK_SIZE] :
        \A j \in DOMAIN cs : cs[j] <= ChunkLen(usize, j)}

\* Offset of chunk j from the end of the chunk table.
ChunkStart(cs, j) ==
    LET f[m \in 0 .. j] == IF m = 0 THEN 0 ELSE f[m - 1] + cs[m - 1]
    IN f[j]

\* A resource: its sizes, the table entries as stored, and the layout.
Resources ==
    UNION {{[usize |-> u, cs |-> cs,
             tbl |-> [e \in 1 .. NumChunks(u) - 1 |-> ChunkStart(cs, e)]]
              : cs \in StoredSizes(u)} : u \in 1 .. MaxSize}

\* A resource whose chunk table has one entry overwritten.
Corrupted(r) ==
    {[r EXCEPT !.tbl = [@ EXCEPT ![e] = x]] :
        e \in DOMAIN r.tbl,
        x \in 0 .. ChunkStart(r.cs, NumChunks(r.usize) - 1) + WIM_CHUNK_SIZE}

TableSize(r) == EntrySize(r.usize) * (NumChunks(r.usize) - 1)
StoredSize(r) == TableSize(r) + ChunkStart(r.cs, NumChunks(r.usize))

\* Bytes of the WIM after the resource (other resources, the lookup
\* table, the XML data).
Trailer == WIM_CHUNK_SIZE

\* The file holding the resource r at ResOffset.
FileOf(r) ==
    [p \in 0 .. ResOffset + StoredSize(r) + Trailer - 1 |->
        LET q == p - ResOffset
            d == q - TableSize(r)
            j == CHOOSE j \in 0 .. NumChunks(r.usize) - 1 :
                    ChunkStart(r.cs, j) <= d /\ d < ChunkStart(r.cs, j + 1)
        IN  IF q < 0 \/ q >= StoredSize(r) THEN Pad
            ELSE IF q < TableSize(r)
              THEN IF q % EntrySize(r.usize) = 0
                     THEN Entry(r.tbl[q \div EntrySize(r.usize) + 1]) ELSE Pad
            ELSE IF r.cs[j] = ChunkLen(r.usize, j)
              THEN Byte(j * WIM_CHUNK_SIZE + (d - ChunkStart(r.cs, j)) + 1)
            ELSE IF d = ChunkStart(r.cs, j) THEN Token(j) ELSE Pad]

\* A file holding the resource uncompressed.
PlainFileOf(usize) ==
    [p \in 0 .. ResOffset + usize + Trailer - 1 |->
        IF p < ResOffset \/ p >= ResOffset + usize THEN Pad
        ELSE Byte(p - ResOffset + 1)]

-----------------------------------------------------------------------------
(* A call of read_wim_resource: the resource, how it is read ("comp":     *)
(* read_compressed_resource; "plain": an uncompressed resource; "raw":    *)
(* WIMLIB_RESOURCE_FLAG_RAW on a compressed one), offset and length.     *)

NoCall == [r |-> [usize |-> 0, cs |-> <<>>, tbl |-> <<>>], mode |-> "none",
           offset |-> 0, len |-> 0, file |-> <<>>]

\* The file the call reads, laid out when the call starts.
File(c) == c.file
FileLen(c) == Cardinality(DOMAIN File(c))

\* The value read from a chunk table entry at file offset p; a read that
\* is not aligned on an entry yields an offset past the end of the file.
EntryAt(c, p) ==
    IF p \in DOMAIN File(c) /\ File(c)[p].k = "entry"
      THEN File(c)[p].v ELSE 2 * FileLen(c)

\* The quantities read_compressed_resource derives from its arguments.
StartChunkMinusOne(c) == c.offset \div WIM_CHUNK_SIZE - 1
StartChunk(c) == c.offset \div WIM_CHUNK_SIZE
StartChunkOffset(c) == c.offset % WIM_CHUNK_SIZE
EndChunk(c) == (c.offset + c.len - 1) \div WIM_CHUNK_SIZE
EndChunkOffsetPastEnd(c) == (c.offset + c.len) % WIM_CHUNK_SIZE
EndChunkOffset(c) == (c.offset + c.len - 1) % WIM_CHUNK_SIZE
NumNeededChunksNoExtra(c) == EndChunk(c) - StartChunk(c) + 1
NumNeededChunks(c) ==
    EndChunk(c) - StartChunk(c) + 1
      + (IF EndChunk(c) # NumChunks(c.r.usize) - 1 THEN 1 ELSE 0)
StartTableIdxOff(c) == StartChunk(c)
StartTableIdx(c) == IF StartChunk(c) = 0 THEN 0 ELSE StartChunk(c) - 1
NumNeededEntries(c) ==
    IF StartChunk(c) = 0 THEN NumNeededChunks(c) - 1 ELSE NumNeededChunks(c)

\* chunk_offsets[] as filled from the table read at file offset
\* ResOffset + StartTableIdx * entry size.
ChunkOffsets(c) ==
    LET E == EntrySize(c.r.usize)
        shift == IF StartChunk(c) = 0 THEN 1 ELSE 0
    IN [k \in 0 .. NumNeededChunks(c) - 1 |->
          IF k < shift THEN 0
          ELSE EntryAt(c, ResOffset + (StartTableIdx(c) + k - shift) * E)]

\* The uncompressed size of chunk i: the last one holds the remainder.
UncompressedChunkSize(c, i) ==
    IF i # NumChunks(c.r.usize) - 1 THEN WIM_CHUNK_SIZE
    ELSE IF c.r.usize % WIM_CHUNK_SIZE = 0 THEN WIM_CHUNK_SIZE
    ELSE c.r.usize % WIM_CHUNK_SIZE

\* The compressed size of chunk i from the offsets in co: a difference of
\* two entries, or what the resource has left for the last chunk.  The
\* code keeps it in an unsigned int; a negative value here stands for the
\* wrapped one, larger than any buffer.
CompressedChunkSize(c, co, i) ==
    IF i # NumChunks(c.r.usize) - 1
      THEN co[i + 1 - StartChunk(c)] - co[i - StartChunk(c)]
      ELSE StoredSize(c.r) - TableSize(c.r) - co[i - StartChunk(c)]

\* decompress(): the chunk's compressed bytes, in full, give its content.
Decompress(c, p, csize, usize) ==
    IF /\ csize > 0
       /\ File(c)[p].k = "z"
       /\ c.r.cs[File(c)[p].v] = csize
       /\ ChunkLen(c.r.usize, File(c)[p].v) = usize
      THEN [m \in 1 .. usize |-> Byte(File(c)[p].v * WIM_CHUNK_SIZE + m)]
      ELSE <<>>

\* fread of n cells at file offset p.
Cells(c, p, n) == [m \in 1 .. n |-> File(c)[p + m - 1]]

-----------------------------------------------------------------------------
VARIABLES
    call,  \* the arguments of the read in progress, or NoCall
    pc,    \* "idle", "table" (before the chunk table), "chunks", "done"
    co,    \* chunk_offsets[]
    i,     \* the chunk the loop reads next
    pos,   \* the file position of fp
    out,   \* what has been written to contents_ret
    ret    \* the return value: "ok", "read" (WIMLIB_ERR_READ), "decompression"

vars == <<call, pc, co, i, pos, out, ret>>

\* Whether an fread of n cells at p may complete.
CanRead(c, p, n) == n >= 0 /\ p + n <= FileLen(c)

Init ==
    /\ call = NoCall
    /\ pc = "idle"
    /\ co = <<>>
    /\ i = 0
    /\ pos = 0
    /\ out = <<>>
    /\ ret = "ok"

\* read_uncompressed_resource: one fseeko to p and one fread of len bytes.
ReadUncompressedResource(c, p, len) ==
    \/ /\ CanRead(c, p, len)
       /\ out' = Cells(c, p, len)
       /\ pos' = p + len
       /\ ret' = "ok"
    \/ /\ ~CanRead(c, p, len) \/ IOFaults
       /\ ret' = "read"
       /\ UNCHANGED <<pos, out>>

\* read_wim_resource on a resource in the WIM: an uncompressed resource or
\* a raw read goes to read_uncompressed_resource (one fseeko, one fread);
\* a compressed one starts read_compressed_resource.  offset + size must
\* be within the resource (the wimlib_assert at its start).
ReadWimResource(r, mode, offset, len) ==
    LET c == [r |-> r, mode |-> mode, offset |-> offset, len |-> len,
              file |-> IF mode = "plain" THEN PlainFileOf(r.usize) ELSE FileOf(r)]
        size == IF mode = "raw" THEN StoredSize(r) ELSE r.usize
        p == ResOffset + offset
    IN
    /\ pc = "idle"
    /\ offset + len <= size
    /\ call' = c
    /\ co' = <<>>
    /\ i' = 0
    /\ IF mode = "comp"
         THEN /\ pc' = "table"
              /\ UNCHANGED <<pos, out, ret>>
         ELSE /\ pc' = "done"
              /\ ReadUncompressedResource(c, p, len)

\* read_compressed_resource up to its chunk loop: the trivial read of no
\* bytes; else the needed slice of the chunk table is read into
\* chunk_offsets[] and fp is moved to the first needed chunk.
ReadChunkTable ==
    LET c == call
        E == EntrySize(c.r.usize)
        p == ResOffset + StartTableIdx(c) * E
        n == NumNeededEntries(c) * E
    IN
    /\ pc = "table"
    /\ IF c.len = 0
         THEN pc' = "done" /\ ret' = "ok" /\ UNCHANGED <<co, i, pos, out>>
         ELSE \/ /\ CanRead(c, p, n)
                 /\ co' = ChunkOffsets(c)
                 /\ pos' = ResOffset + TableSize(c.r) + co'[0]
                 /\ i' = StartChunk(c)
                 /\ pc' = "chunks"
                 /\ UNCHANGED <<out, ret>>
              \/ /\ ~CanRead(c, p, n) \/ IOFaults
                 /\ pc' = "done" /\ ret' = "read"
                 /\ UNCHANGED <<co, i, pos, out>>
    /\ UNCHANGED call

\* One iteration of the chunk loop of read_compressed_resource: chunk i is
\* copied verbatim when its compressed size equals its uncompressed size,
\* and read into compressed_buf and decompressed otherwise; only the part
\* between start_offset and end_offset goes to the output.
ReadChunk ==
    LET c == call
        csize == CompressedChunkSize(c, co, i)
        usize == UncompressedChunkSize(c, i)
        startOff == IF i = StartChunk(c) THEN StartChunkOffset(c) ELSE 0
        endOff == IF i = EndChunk(c) THEN EndChunkOffset(c) ELSE WIM_CHUNK_SIZE - 1
        partial == endOff + 1 - startOff
        data == Decompress(c, pos, csize, usize)
        last == i = EndChunk(c)
    IN
    /\ pc = "chunks"
    /\ \/ /\ csize = usize
          /\ \/ /\ CanRead(c, pos + startOff, partial)
                /\ out' = out \o Cells(c, pos + startOff, partial)
                /\ pos' = pos + startOff + partial
                /\ i' = i + 1
                /\ pc' = IF last THEN "done" ELSE "chunks"
                /\ UNCHANGED ret
             \/ /\ ~CanRead(c, pos + startOff, partial) \/ IOFaults
                /\ pc' = "done" /\ ret' = "read"
                /\ UNCHANGED <<i, pos, out>>
       \/ /\ csize # usize
          /\ \/ /\ CanRead(c, pos, csize)
                /\ data # <<>>
                /\ out' = out \o SubSeq(data, startOff + 1, startOff + partial)
                /\ pos' = pos + csize
                /\ i' = i + 1
                /\ pc' = IF last THEN "done" ELSE "chunks"
                /\ UNCHANGED ret
             \/ /\ CanRead(c, pos, csize)
                /\ data = <<>>
                /\ pc' = "done" /\ ret' = "decompression"
                /\ UNCHANGED <<i, pos, out>>
             \/ /\ ~CanRead(c, pos, csize) \/ IOFaults
                /\ pc' = "done" /\ ret' = "read"
                /\ UNCHANGED <<i, pos, out>>
    /\ UNCHANGED <<call, co>>

\* The caller takes the result.  Every read seeks before it reads, so the
\* position fp is left at is forgotten.
Return ==
    /\ pc = "done"
    /\ pc' = "idle"
    /\ call' = NoCall
    /\ co' = <<>>
    /\ i' = 0
    /\ pos' = 0
    /\ out' = <<>>
    /\ ret' = "ok"

\* The resources a caller may read: as written, or with a corrupt table.
Readable == Resources \cup (IF Corrupt THEN UNION {Corrupted(r) : r \in Resources} ELSE {})

Next ==
    \/ \E r \in Readable, mode \in {"comp", "plain", "raw"},
          offset \in 0 .. MaxSize, len \in 0 .. MaxSize :
          ReadWimResource(r, mode, offset, len)
    \/ ReadChunkTable
    \/ ReadChunk
    \/ Return

Spec == Init /\ [][Next]_vars

-----------------------------------------------------------------------------
(* Properties                                                              *)

Cell == [k : {"byte", "entry", "z", "pad"}, v : Int]
TypeOK ==
    /\ pc \in {"idle", "table", "chunks", "done"}
    /\ ret \in {"ok", "read", "decompression"}
    /\ out \in Seq(Cell)
    /\ pos \in Nat
    /\ i \in Nat

\* What a read of call must return: the bytes offset+1 .. offset+len of the
\* uncompressed stream, or for a raw read the stored bytes there.
Expected(c) ==
    IF c.mode = "raw" THEN Cells(c, ResOffset + c.offset, c.len)
    ELSE [m \in 1 .. c.len |-> Byte(c.offset + m)]

\* Without I/O errors, every read of a well-formed resource within its
\* bounds returns 0 with exactly the requested bytes: read_compressed_
\* resource's chunk index arithmetic, its slice of the chunk table, the
\* last chunk's sizes and the partial first and last chunks all agree with
\* the format, so no fread runs short and no chunk fails to decompress.
ReadCorrect ==
    pc = "done" => ret = "ok" /\ out = Expected(call)

\* A read never silently truncates (spec, error policy): returning 0
\* means contents_ret holds all len bytes, even for a corrupt table.
NoSilentTruncation ==
    pc = "done" /\ ret = "ok" => Len(out) = call.len

\* The chunk loop indexes chunk_offsets[], an array of num_needed_chunks
\* entries, only within its bounds: at entry i - start_chunk, and at the
\* next entry for every chunk but the resource's last (the extra entry the
\* table slice holds when end_chunk is not the last chunk).
ChunkOffsetsInBounds ==
    pc = "chunks" =>
        LET k == i - StartChunk(call)
        IN  /\ k \in DOMAIN co
            /\ i # NumChunks(call.r.usize) - 1 => k + 1 \in DOMAIN co

\* Before a compressed chunk is read into compressed_buf, whose size is
\* WIM_CHUNK_SIZE - 1, its compressed size fits there (the spec asks for
\* CorruptResource when a chunk size is negative or exceeds the chunk size).
CompressedBufferFits ==
    pc = "chunks" =>
        LET csize == CompressedChunkSize(call, co, i)
        IN  csize # UncompressedChunkSize(call, i) => csize \in 0 .. WIM_CHUNK_SIZE - 1

=============================================================================
