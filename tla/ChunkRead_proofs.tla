-------------------------- MODULE ChunkRead_proofs --------------------------
(***************************************************************************)
(* Proofs about ChunkRead: the chunk loop of read_compressed_resource      *)
(* indexes chunk_offsets[] only within its num_needed_chunks entries, for *)
(* every chunk size, resource size, offset and length, and whatever the   *)
(* chunk table holds.                                                      *)
(***************************************************************************)
EXTENDS ChunkRead, TLAPS

\* The loop's state is tied to the call it serves: a compressed read of a
\* non-empty in-bounds range, an index between start_chunk and end_chunk,
\* and chunk_offsets[] of num_needed_chunks entries.
LoopInv ==
    /\ pc \in {"idle", "table", "chunks", "done"}
    /\ pc \in {"table", "chunks"} =>
          /\ call.mode = "comp"
          /\ call.r.usize \in Nat
          /\ call.offset \in Nat
          /\ call.len \in Nat
          /\ call.offset + call.len <= call.r.usize
    /\ pc = "chunks" =>
          /\ call.len > 0
          /\ i \in StartChunk(call) .. EndChunk(call)
          /\ DOMAIN co = 0 .. NumNeededChunks(call) - 1

\* Every resource a caller may read, as written or with a corrupt chunk
\* table, has a natural uncompressed size.
LEMMA ReadableUsize == \A r \in Readable : r.usize \in Nat
<1>1. \A r \in Resources : r.usize \in 1 .. MaxSize
  BY DEF Resources
<1>2. \A r \in Resources : \A x \in Corrupted(r) : x.usize = r.usize
  BY DEF Corrupted, Resources
<1>3. \A x \in UNION {Corrupted(r) : r \in Resources} : x.usize \in 1 .. MaxSize
  BY <1>1, <1>2
<1>. QED
  BY <1>1, <1>3, ChunkAssumption DEF Readable

\* Integer division by a positive constant is monotone: the chunk holding
\* a later byte comes no earlier.
LEMMA DivMonotone ==
    ASSUME NEW a \in Nat, NEW b \in Nat, NEW d \in Nat \ {0}, a <= b
    PROVE  a \div d <= b \div d
BY SMT

\* No state is reached from Init but through LoopInv.
LEMMA InitLoopInv == Init => LoopInv
BY DEF Init, LoopInv

\* A read of a well-formed or corrupt resource keeps the loop's state tied
\* to its call.
LEMMA NextLoopInv == LoopInv /\ [Next]_vars => LoopInv'
<1>. SUFFICES ASSUME LoopInv, [Next]_vars PROVE LoopInv'
  OBVIOUS
<1>1. ASSUME NEW r \in Readable, NEW mode \in {"comp", "plain", "raw"},
             NEW offset \in 0 .. MaxSize, NEW len \in 0 .. MaxSize,
             ReadWimResource(r, mode, offset, len)
      PROVE  LoopInv'
  <2>1. r.usize \in Nat
    BY ReadableUsize
  <2>2. CASE mode = "comp"
    BY <2>1, <2>2, <1>1, ChunkAssumption DEF ReadWimResource, LoopInv
  <2>3. CASE mode # "comp"
    BY <2>3, <1>1 DEF ReadWimResource, LoopInv
  <2>. QED
    BY <2>2, <2>3
<1>2. ASSUME ReadChunkTable PROVE LoopInv'
  <2>1. pc = "table" /\ call' = call
    BY <1>2 DEF ReadChunkTable
  <2>2. CASE call.len = 0
    BY <1>2, <2>1, <2>2 DEF ReadChunkTable, LoopInv
  <2>3. CASE call.len # 0 /\ pc' = "chunks"
    <3>1. /\ co' = ChunkOffsets(call)
          /\ i' = StartChunk(call)
      BY <1>2, <2>3 DEF ReadChunkTable
    <3>2. /\ call.r.usize \in Nat /\ call.offset \in Nat /\ call.len \in Nat
          /\ call.len > 0 /\ call.mode = "comp"
          /\ call.offset + call.len <= call.r.usize
      BY <2>1, <2>3 DEF LoopInv
    <3>3. StartChunk(call) <= EndChunk(call)
      <4>1. /\ call.offset + call.len - 1 \in Nat
            /\ call.offset <= call.offset + call.len - 1
        BY <3>2
      <4>2. WIM_CHUNK_SIZE \in Nat \ {0}
        BY ChunkAssumption
      <4>3. call.offset \div WIM_CHUNK_SIZE
              <= (call.offset + call.len - 1) \div WIM_CHUNK_SIZE
        BY <4>1, <4>2, <3>2, DivMonotone
      <4>. QED
        BY <4>3 DEF StartChunk, EndChunk
    <3>4. DOMAIN co' = 0 .. NumNeededChunks(call) - 1
      BY <3>1 DEF ChunkOffsets
    <3>5. StartChunk(call) \in Int /\ EndChunk(call) \in Int
      BY <3>2, ChunkAssumption DEF StartChunk, EndChunk
    <3>. QED
      BY <2>1, <2>3, <3>1, <3>2, <3>3, <3>4, <3>5 DEF LoopInv
  <2>4. CASE call.len # 0 /\ pc' # "chunks"
    BY <1>2, <2>1, <2>4 DEF ReadChunkTable, LoopInv
  <2>. QED
    BY <2>2, <2>3, <2>4
<1>3. ASSUME ReadChunk PROVE LoopInv'
  <2>1. /\ pc = "chunks" /\ call' = call /\ co' = co
        /\ pc' \in {"chunks", "done"}
        /\ pc' = "chunks" => i # EndChunk(call) /\ i' = i + 1
    BY <1>3 DEF ReadChunk
  <2>2. /\ call.len > 0
        /\ call.offset + call.len <= call.r.usize
        /\ call.r.usize \in Nat /\ call.offset \in Nat /\ call.len \in Nat
        /\ call.mode = "comp"
        /\ i \in StartChunk(call) .. EndChunk(call)
        /\ DOMAIN co = 0 .. NumNeededChunks(call) - 1
    BY <2>1 DEF LoopInv
  <2>3. StartChunk(call) \in Int /\ EndChunk(call) \in Int
    BY <2>2, ChunkAssumption DEF StartChunk, EndChunk
  <2>4. CASE pc' = "chunks"
    <3>1. i' \in StartChunk(call) .. EndChunk(call)
      BY <2>1, <2>2, <2>3, <2>4
    <3>. QED
      BY <2>1, <2>2, <3>1, <2>4 DEF LoopInv
  <2>5. CASE pc' = "done"
    BY <2>1, <2>5 DEF LoopInv
  <2>. QED
    BY <2>1, <2>4, <2>5
<1>4. ASSUME Return PROVE LoopInv'
  BY <1>4 DEF Return, LoopInv
<1>5. ASSUME UNCHANGED vars PROVE LoopInv'
  BY <1>5 DEF vars, LoopInv
<1>. QED
  BY <1>1, <1>2, <1>3, <1>4, <1>5 DEF Next

\* LoopInv bounds both chunk_offsets[] indices the loop body reads.
LEMMA LoopInvBounds == LoopInv => ChunkOffsetsInBounds
<1>. SUFFICES ASSUME LoopInv, pc = "chunks"
              PROVE  ChunkOffsetsInBounds
  BY DEF ChunkOffsetsInBounds
<1>1. /\ call.r.usize \in Nat /\ call.offset \in Nat /\ call.len \in Nat
      /\ call.len > 0
      /\ i \in StartChunk(call) .. EndChunk(call)
      /\ DOMAIN co = 0 .. NumNeededChunks(call) - 1
  BY DEF LoopInv
<1>2. /\ StartChunk(call) \in Int /\ EndChunk(call) \in Int
      /\ NumChunks(call.r.usize) \in Int
  BY <1>1, ChunkAssumption DEF StartChunk, EndChunk, NumChunks
<1>. QED
  BY <1>1, <1>2 DEF ChunkOffsetsInBounds, NumNeededChunks

\* For every chunk size, resource size, offset and length, and whatever the
\* chunk table holds, read_compressed_resource's loop reads chunk_offsets[]
\* only at its num_needed_chunks entries (the extra entry is there exactly
\* when the loop needs it).
THEOREM ChunkOffsetsSafe == Spec => []ChunkOffsetsInBounds
<1>1. Init => LoopInv
  BY InitLoopInv
<1>2. LoopInv /\ [Next]_vars => LoopInv'
  BY NextLoopInv
<1>3. LoopInv => ChunkOffsetsInBounds
  BY LoopInvBounds
<1>. QED
  BY <1>1, <1>2, <1>3, PTL DEF Spec

-----------------------------------------------------------------------------
(* NoSilentTruncation                                                      *)

\* s is a sequence of exactly n elements.
IsSeqOfLen(s, n) == s = [j \in 1 .. n |-> s[j]]

\* How many bytes of the requested range precede chunk i: none before the
\* first needed chunk, and from offset up to the chunk's start after it.
Progress(c, j) == IF j = StartChunk(c) THEN 0 ELSE j * WIM_CHUNK_SIZE - c.offset

\* What contents_ret holds at each point of read_wim_resource: nothing
\* before the chunk loop, the bytes of the range up to chunk i inside it,
\* and all len bytes once the call returns 0.
LenInv ==
    /\ LoopInv
    /\ pc \in {"idle", "table"} => out = << >> /\ ret = "ok"
    /\ pc = "chunks" => ret = "ok" /\ IsSeqOfLen(out, Progress(call, i))
    /\ pc = "done" /\ ret = "ok" => call.len \in Nat /\ IsSeqOfLen(out, call.len)

\* A sequence of n elements of R is in Seq(R) and has length n.
LEMMA SeqOfLenLen ==
    ASSUME NEW s, NEW n \in Nat, NEW R, IsSeqOfLen(s, n),
           \A j \in 1 .. n : s[j] \in R
    PROVE  s \in Seq(R) /\ Len(s) = n
<1>1. s \in [1 .. n -> R]
  BY DEF IsSeqOfLen
<1>. QED
  BY <1>1

\* Appending m elements to n elements gives n + m elements.
LEMMA ConcatOfLen ==
    ASSUME NEW s, NEW t, NEW n \in Nat, NEW m \in Nat,
           IsSeqOfLen(s, n), IsSeqOfLen(t, m)
    PROVE  IsSeqOfLen(s \o t, n + m)
<1>. DEFINE R == {s[j] : j \in 1 .. n} \cup {t[j] : j \in 1 .. m}
<1>1. s \in Seq(R) /\ Len(s) = n
  <2>1. \A j \in 1 .. n : s[j] \in R
    OBVIOUS
  <2>. QED
    BY <2>1, SeqOfLenLen
<1>2. t \in Seq(R) /\ Len(t) = m
  <2>1. \A j \in 1 .. m : t[j] \in R
    OBVIOUS
  <2>. QED
    BY <2>1, SeqOfLenLen
<1>. HIDE DEF R
<1>3. s \o t \in Seq(R) /\ Len(s \o t) = n + m
  BY <1>1, <1>2
<1>. QED
  BY <1>3 DEF IsSeqOfLen

\* SubSeq(s, a, b) has b - a + 1 elements, whatever s holds.
LEMMA SubSeqOfLen ==
    ASSUME NEW s, NEW a \in Int, NEW b \in Int, b >= a - 1
    PROVE  IsSeqOfLen(SubSeq(s, a, b), b - a + 1)
BY DEF IsSeqOfLen

\* An fread of n cells returns n cells.
LEMMA CellsOfLen ==
    ASSUME NEW c, NEW p, NEW n \in Nat
    PROVE  IsSeqOfLen(Cells(c, p, n), n)
BY DEF Cells, IsSeqOfLen

\* The bytes one chunk contributes (end_offset + 1 - start_offset) carry
\* the count of bytes delivered from offset to the next chunk's start, or
\* to offset + len after end_chunk.
LEMMA ChunkArith ==
    ASSUME NEW W \in Nat \ {0}, NEW o \in Nat, NEW len \in Nat \ {0},
           NEW j \in Int, o \div W <= j, j <= (o + len - 1) \div W
    PROVE  LET so == IF j = o \div W THEN o % W ELSE 0
               eo == IF j = (o + len - 1) \div W THEN (o + len - 1) % W ELSE W - 1
               prog(k) == IF k = o \div W THEN 0 ELSE k * W - o
           IN  /\ eo + 1 - so \in Nat
               /\ j # (o + len - 1) \div W => prog(j) + (eo + 1 - so) = prog(j + 1)
               /\ j = (o + len - 1) \div W => prog(j) + (eo + 1 - so) = len
               /\ prog(j) \in Nat
<1>. DEFINE S == o \div W  E == (o + len - 1) \div W
            so == o % W  eo == (o + len - 1) % W
<1>1. o = S * W + so /\ so \in 0 .. W - 1
  BY SMT
<1>2. o + len - 1 = E * W + eo /\ eo \in 0 .. W - 1
  BY SMT
<1>3. S \in Nat /\ E \in Nat
  BY SMT
<1>4. j \in Nat
  BY <1>3
<1>5. j > S => j * W >= S * W + W
  BY <1>3, <1>4, SMT
<1>6. j < E => j * W + W <= E * W
  BY <1>3, <1>4, SMT
<1>7. (j + 1) * W = j * W + W
  BY <1>4, SMT
<1>. HIDE DEF S, E, so, eo
<1>. QED
  BY <1>1, <1>2, <1>3, <1>4, <1>5, <1>6, <1>7 DEF S, E, so, eo

\* end_offset + 1 - start_offset: the bytes chunk j of the call delivers.
Partial(c, j) ==
    (IF j = EndChunk(c) THEN EndChunkOffset(c) ELSE WIM_CHUNK_SIZE - 1) + 1
      - (IF j = StartChunk(c) THEN StartChunkOffset(c) ELSE 0)

\* Inside the loop, the bytes delivered so far and those of chunk i are
\* natural numbers, and together they reach the next chunk's start or,
\* after end_chunk, offset + len.
LEMMA ChunkStepLen ==
    ASSUME LoopInv, pc = "chunks"
    PROVE  /\ Partial(call, i) \in Nat
           /\ Progress(call, i) \in Nat
           /\ i # EndChunk(call) =>
                 Progress(call, i) + Partial(call, i) = Progress(call, i + 1)
           /\ i = EndChunk(call) =>
                 Progress(call, i) + Partial(call, i) = call.len
<1>1. /\ call.offset \in Nat /\ call.len \in Nat \ {0}
      /\ i \in StartChunk(call) .. EndChunk(call)
  BY DEF LoopInv
<1>2. WIM_CHUNK_SIZE \in Nat \ {0}
  BY ChunkAssumption
<1>3. /\ call.offset \div WIM_CHUNK_SIZE <= i
      /\ i <= (call.offset + call.len - 1) \div WIM_CHUNK_SIZE
      /\ i \in Int
  BY <1>1, <1>2 DEF StartChunk, EndChunk
<1>. DEFINE W == WIM_CHUNK_SIZE  o == call.offset  len == call.len
            so == IF i = o \div W THEN o % W ELSE 0
            eo == IF i = (o + len - 1) \div W THEN (o + len - 1) % W ELSE W - 1
            prog(k) == IF k = o \div W THEN 0 ELSE k * W - o
<1>4. /\ eo + 1 - so \in Nat
      /\ i # (o + len - 1) \div W => prog(i) + (eo + 1 - so) = prog(i + 1)
      /\ i = (o + len - 1) \div W => prog(i) + (eo + 1 - so) = len
      /\ prog(i) \in Nat
  BY <1>1, <1>2, <1>3, ChunkArith
<1>5. /\ Partial(call, i) = eo + 1 - so
      /\ Progress(call, i) = prog(i)
      /\ Progress(call, i + 1) = prog(i + 1)
      /\ EndChunk(call) = (o + len - 1) \div W
      /\ len = call.len
  BY DEF Partial, Progress, StartChunk, EndChunk, StartChunkOffset, EndChunkOffset
<1>. HIDE DEF W, o, len, so, eo, prog
<1>. QED
  BY <1>4, <1>5

\* One iteration of the chunk loop either fails, returning an error, or
\* appends the Partial(call, i) bytes of chunk i and moves to the next one.
LEMMA ReadChunkShape ==
    ASSUME LoopInv, ReadChunk
    PROVE  \/ pc' = "done" /\ ret' # "ok"
           \/ /\ ret' = ret /\ i' = i + 1
              /\ pc' = IF i = EndChunk(call) THEN "done" ELSE "chunks"
              /\ \E x : IsSeqOfLen(x, Partial(call, i)) /\ out' = out \o x
<1>. DEFINE c == call
            csize == CompressedChunkSize(c, co, i)
            usize == UncompressedChunkSize(c, i)
            startOff == IF i = StartChunk(c) THEN StartChunkOffset(c) ELSE 0
            data == Decompress(c, pos, csize, usize)
<1>1. pc = "chunks"
  BY DEF ReadChunk
<1>2. Partial(call, i) \in Nat /\ startOff \in Int
  <2>1. call.offset \in Nat
    BY <1>1 DEF LoopInv
  <2>. QED
    BY <1>1, ChunkStepLen, ChunkAssumption, <2>1 DEF StartChunkOffset
<1>3. IsSeqOfLen(Cells(c, pos + startOff, Partial(call, i)), Partial(call, i))
  BY <1>2, CellsOfLen
<1>4. IsSeqOfLen(SubSeq(data, startOff + 1, startOff + Partial(call, i)),
                 Partial(call, i))
  <2>1. startOff + Partial(call, i) - (startOff + 1) + 1 = Partial(call, i)
    BY <1>2
  <2>. QED
    BY <1>2, <2>1, SubSeqOfLen
<1>. HIDE DEF c, csize, usize, startOff, data
<1>. QED
  BY <1>3, <1>4 DEF ReadChunk, Partial, c, csize, usize, startOff, data

\* The empty sequence has no elements.
LEMMA EmptyOfLen == IsSeqOfLen(<< >>, 0)
BY DEF IsSeqOfLen

\* Init starts with nothing read and no error.
LEMMA InitLenInv == Init => LenInv
BY InitLoopInv DEF Init, LenInv

\* Every step keeps contents_ret's length in step with the bytes of the
\* range the call has reached.
LEMMA NextLenInv == LenInv /\ [Next]_vars => LenInv'
<1>. SUFFICES ASSUME LenInv, [Next]_vars PROVE LenInv'
  OBVIOUS
<1>6. LoopInv'
  BY NextLoopInv DEF LenInv
<1>1. ASSUME NEW r \in Readable, NEW mode \in {"comp", "plain", "raw"},
             NEW offset \in 0 .. MaxSize, NEW len \in 0 .. MaxSize,
             ReadWimResource(r, mode, offset, len)
      PROVE  LenInv'
  <2>1. /\ pc = "idle" /\ out = << >> /\ ret = "ok"
        /\ call'.len = len
    BY <1>1 DEF ReadWimResource, LenInv
  <2>2. CASE mode = "comp"
    BY <1>6, <1>1, <2>1, <2>2 DEF ReadWimResource, LenInv
  <2>3. CASE mode # "comp"
    <3>1. /\ pc' = "done"
          /\ ret' = "ok" => \E p : out' = Cells(call', p, len)
      BY <1>1, <2>3 DEF ReadWimResource, ReadUncompressedResource
    <3>. QED
      BY <1>6, <2>1, <3>1, CellsOfLen DEF LenInv
  <2>. QED
    BY <2>2, <2>3
<1>2. ASSUME ReadChunkTable PROVE LenInv'
  <2>1. /\ pc = "table" /\ out = << >> /\ ret = "ok" /\ call' = call
        /\ out' = out
        /\ pc' \in {"chunks", "done"}
        /\ pc' = "chunks" => ret' = "ok" /\ i' = StartChunk(call)
        /\ pc' = "done" /\ ret' = "ok" => call.len = 0
    BY <1>2 DEF ReadChunkTable, LenInv
  <2>2. Progress(call, StartChunk(call)) = 0
    BY DEF Progress
  <2>. QED
    BY <1>6, <2>1, <2>2, EmptyOfLen DEF LenInv
<1>3. ASSUME ReadChunk PROVE LenInv'
  <2>1. /\ pc = "chunks" /\ ret = "ok" /\ call' = call
        /\ IsSeqOfLen(out, Progress(call, i))
    BY <1>3 DEF ReadChunk, LenInv
  <2>2. /\ Partial(call, i) \in Nat
        /\ Progress(call, i) \in Nat
        /\ i # EndChunk(call) =>
              Progress(call, i) + Partial(call, i) = Progress(call, i + 1)
        /\ i = EndChunk(call) =>
              Progress(call, i) + Partial(call, i) = call.len
    BY <2>1, ChunkStepLen DEF LenInv
  <2>3. CASE pc' = "done" /\ ret' # "ok"
    BY <1>6, <2>3 DEF LenInv
  <2>4. CASE /\ ret' = ret /\ i' = i + 1
             /\ pc' = IF i = EndChunk(call) THEN "done" ELSE "chunks"
             /\ \E x : IsSeqOfLen(x, Partial(call, i)) /\ out' = out \o x
    <3>1. PICK x : IsSeqOfLen(x, Partial(call, i)) /\ out' = out \o x
      BY <2>4
    <3>2. IsSeqOfLen(out', Progress(call, i) + Partial(call, i))
      BY <2>1, <2>2, <3>1, ConcatOfLen
    <3>3. call.len \in Nat
      BY <2>1 DEF LenInv, LoopInv
    <3>. QED
      BY <1>6, <2>1, <2>2, <2>4, <3>2, <3>3 DEF LenInv
  <2>. QED
    BY <1>3, <2>3, <2>4, ReadChunkShape DEF LenInv
<1>4. ASSUME Return PROVE LenInv'
  BY <1>6, <1>4 DEF Return, LenInv
<1>5. ASSUME UNCHANGED vars PROVE LenInv'
  BY <1>6, <1>5 DEF vars, LenInv
<1>. QED
  BY <1>1, <1>2, <1>3, <1>4, <1>5 DEF Next

\* For every chunk size, resource size, offset and length, with a corrupt
\* chunk table and I/O errors allowed, read_wim_resource never returns 0
\* with fewer or more than the len bytes asked for: the partial first and
\* last chunks of read_compressed_resource add up to exactly the range.
THEOREM NeverTruncates == Spec => []NoSilentTruncation
<1>1. Init => LenInv
  BY InitLenInv
<1>2. LenInv /\ [Next]_vars => LenInv'
  BY NextLenInv
<1>3. LenInv => NoSilentTruncation
  <2>. SUFFICES ASSUME LenInv, pc = "done", ret = "ok"
                PROVE  Len(out) = call.len
    BY DEF NoSilentTruncation
  <2>1. IsSeqOfLen(out, call.len) /\ call.len \in Nat
    BY DEF LenInv
  <2>. DEFINE R == {out[j] : j \in 1 .. call.len}
  <2>2. \A j \in 1 .. call.len : out[j] \in R
    OBVIOUS
  <2>. HIDE DEF R
  <2>. QED
    BY <2>1, <2>2, SeqOfLenLen
<1>. QED
  BY <1>1, <1>2, <1>3, PTL DEF Spec

=============================================================================
