-------------------------- MODULE ResourceIO_proofs --------------------------
(***************************************************************************)
(* Proofs about extract_wim_resource and full_write (ResourceIO).          *)
(*                                                                         *)
(* TInv says where the extraction loop is in the resource: offset and     *)
(* bytes_remaining always add up to size, and while full_write runs, buf  *)
(* holds the next bytes of the resource, no more than remain.  It gives   *)
(* TypeOK and NoFileLeak for every value of the constants.                *)
(*                                                                         *)
(* EInv adds what the descriptor holds at each point of the loop.  It     *)
(* needs write() to write all it is asked for (~ShortWrites): after a    *)
(* short write full_write sends n bytes from p, past the end of buf, and  *)
(* when a later write() fails it returns a count above n, which           *)
(* extract_wim_chunk_to_fd takes for success; extract_wim_resource then   *)
(* returns 0 with garbage in the descriptor (resource_short_write shows   *)
(* the overrun).                                                          *)
(***************************************************************************)
EXTENDS ResourceIO, SequenceTheorems, TLAPS

\* The first n bytes of the resource, and the bytes of the chunk at offset.
DataSeq(n) == [j \in 1 .. n |-> Data(j)]
Chunk(o, n) == [m \in 1 .. n |-> Data(o + m)]

TInv ==
    /\ TypeOK
    /\ usize \in Nat
    /\ offset + remaining = size
    /\ pc \in {"read", "file_read"} => remaining > 0
    /\ pc \in {"write", "write_ret"} =>
          /\ Len(buf) <= remaining
          /\ buf = Chunk(offset, Len(buf))
    /\ NoFileLeak

EInv ==
    /\ TInv
    /\ corrupt \in BOOLEAN
    /\ hash_bad \in BOOLEAN
    /\ corrupt => usize > 0
    /\ hash_bad => size = usize /\ corrupt
    /\ pc # "done" => ret = "ok"
    /\ pc \in {"loop", "read", "file_read", "hash"} =>
          /\ file = DataSeq(offset)
          /\ total = 0 /\ p = 0
          /\ size = usize /\ corrupt /\ offset > 0 => hash_bad
    /\ pc = "hash" => remaining = 0
    /\ pc \in {"write", "write_ret"} =>
          /\ Len(buf) > 0
          /\ p = total
          /\ total \in {0, Len(buf)}
          /\ file = DataSeq(offset + total)
          /\ size = usize /\ corrupt => hash_bad
    /\ ExtractCorrect

-----------------------------------------------------------------------------
(* Lemmas about the operators the model is built from.                     *)

\* The bytes read_wim_resource returns for n bytes at resource offset o
\* are the resource's bytes o+1 .. o+n, wherever it is stored: the read
\* skips the header of an NTFS reparse point.
LEMMA BytesAtChunk ==
    ASSUME NEW o \in Nat, NEW n \in Nat
    PROVE  BytesAt(o, n) = Chunk(o, n)
<1>1. ASSUME NEW m \in 1 .. n
      PROVE  Stored(ReadOffset(o) + m) = Data(o + m)
  BY DEF Stored, ReadOffset
<1>2. QED
  BY <1>1 DEF BytesAt, Chunk

\* A chunk within the resource's usize bytes has the type of buf.
LEMMA ChunkType ==
    ASSUME NEW o \in Nat, NEW n \in Nat, NEW u \in Nat, o + n <= u
    PROVE  Chunk(o, n) \in Seq(UNION {{<<j, "good">>, <<j, "bad">>} : j \in 1 .. u}
                                 \cup {<<j, "header">> : j \in 1 .. 8})
<1> DEFINE S == UNION {{<<j, "good">>, <<j, "bad">>} : j \in 1 .. u}
                      \cup {<<j, "header">> : j \in 1 .. 8}
<1>1. ASSUME NEW m \in 1 .. n
      PROVE  Data(o + m) \in S
  <2>1. o + m \in 1 .. u
    OBVIOUS
  <2>2. Data(o + m) \in {<<o + m, "good">>, <<o + m, "bad">>}
    BY DEF Data
  <2>3. QED
    BY <2>1, <2>2
<1>2. Chunk(o, n) \in [1 .. n -> S]
  BY <1>1 DEF Chunk
<1>3. Seq(S) = UNION {[1 .. k -> S] : k \in Nat}
  BY SeqDef
<1>4. QED
  BY <1>2, <1>3

\* to_read = min(bytes_remaining, sizeof(buf)) is a positive number of
\* bytes, no more than remain, when bytes remain.
LEMMA ToReadBounds ==
    ASSUME NEW r \in Nat, NEW s \in Nat, r > 0, r <= s,
           remaining = r, size = s
    PROVE  ToRead \in 1 .. r
BY IOAssumption DEF ToRead, BufLen, Min

-----------------------------------------------------------------------------
(* TInv: the loop's position in the resource.                             *)

LEMMA InitTInv == Init => TInv
<1> SUFFICES ASSUME Init PROVE TInv
  OBVIOUS
<1>1. usize \in Nat /\ size \in 0 .. usize
  BY IOAssumption DEF Init
<1>2. <<>> \in Seq(UNION {{<<j, "good">>, <<j, "bad">>} : j \in 1 .. usize}
                         \cup {<<j, "header">> : j \in 1 .. 8})
  BY EmptySeq
<1>3. QED
  BY <1>1, <1>2 DEF Init, TInv, TypeOK, NoFileLeak

\* A read at the loop's position reads bytes offset+1 .. offset+to_read of
\* the resource, and they lie within bytes_remaining and within usize.
LEMMA ReadBytes ==
    ASSUME TInv, pc \in {"read", "file_read"}
    PROVE  /\ BytesAt(offset, ToRead) = Chunk(offset, ToRead)
           /\ Len(Chunk(offset, ToRead)) = ToRead
           /\ ToRead <= remaining
           /\ Chunk(offset, ToRead)
                \in Seq(UNION {{<<j, "good">>, <<j, "bad">>} : j \in 1 .. usize}
                        \cup {<<j, "header">> : j \in 1 .. 8})
<1>0. /\ size \in Nat /\ remaining \in Nat /\ offset \in Nat /\ usize \in Nat
      /\ offset + remaining <= usize /\ remaining > 0 /\ remaining <= size
  BY DEF TInv, TypeOK
<1>1. ToRead \in 1 .. remaining
  BY <1>0, ToReadBounds
<1>2. BytesAt(offset, ToRead) = Chunk(offset, ToRead)
  BY <1>1, <1>0, BytesAtChunk
<1>3. Chunk(offset, ToRead)
        \in Seq(UNION {{<<j, "good">>, <<j, "bad">>} : j \in 1 .. usize}
                \cup {<<j, "header">> : j \in 1 .. 8})
  <2>1. ToRead \in Nat /\ offset + ToRead <= usize
    BY <1>1, <1>0
  <2>2. QED
    BY <2>1, <1>0, ChunkType
<1>4. Len(Chunk(offset, ToRead)) = ToRead
  BY <1>1 DEF Chunk
<1>5. QED
  BY <1>1, <1>2, <1>3, <1>4

\* What a read step (read_wim_resource, with its fopen and fclose) can do:
\* open the FILE and go on to read it, fail, or fill buf and start
\* full_write; it closes any FILE it opened on the way out.
HashAfter(bytes) ==
    hash_bad \/ (size = usize /\ \E m \in DOMAIN bytes : bytes[m] # <<offset + m, "good">>)

LEMMA ReadSteps ==
    ASSUME NoFileLeak, Read \/ ReadFile
    PROVE  /\ \/ /\ pc = "read" /\ pc' = "file_read" /\ tmp_fp'
                 /\ UNCHANGED <<buf, hash_bad, ret>>
              \/ /\ pc \in {"read", "file_read"} /\ pc' = "done" /\ ~tmp_fp'
                 /\ ret' \in {"read", "open", "ntfs"}
                 /\ UNCHANGED <<buf, hash_bad>>
              \/ /\ pc \in {"read", "file_read"} /\ pc' = "write" /\ ~tmp_fp'
                 /\ buf' = BytesAt(offset, ToRead)
                 /\ hash_bad' = HashAfter(BytesAt(offset, ToRead))
                 /\ UNCHANGED ret
           /\ UNCHANGED <<loc, usize, size, corrupt, remaining, offset, file, total, p, writes>>
<1>1. CASE Read
  <2>1. ~tmp_fp
    BY <1>1 DEF Read, NoFileLeak
  <2>2. QED
    BY <1>1, <2>1 DEF Read, ReadDone, ReadFails, HashAfter
<1>2. CASE ReadFile
  BY <1>2 DEF ReadFile, ReadDone, ReadFails, HashAfter
<1>3. QED
  BY <1>1, <1>2

\* One step of extract_wim_resource keeps offset + bytes_remaining = size,
\* and the chunk in buf within the bytes that remain.
LEMMA NextTInv == TInv /\ [Next]_vars => TInv'
<1> SUFFICES ASSUME TInv, [Next]_vars PROVE TInv'
  OBVIOUS
<1> USE DEF TInv, TypeOK, NoFileLeak
<1>0. /\ size \in Nat /\ remaining \in Nat /\ offset \in Nat
  OBVIOUS
<1>2. CASE Loop
  BY <1>2 DEF Loop, Chunk, Data
<1>3. CASE Read \/ ReadFile
  <2>1. pc \in {"read", "file_read"}
    BY <1>3 DEF Read, ReadFile
  <2>2. /\ BytesAt(offset, ToRead) = Chunk(offset, ToRead)
        /\ Len(Chunk(offset, ToRead)) = ToRead
        /\ ToRead <= remaining
        /\ Chunk(offset, ToRead)
             \in Seq(UNION {{<<j, "good">>, <<j, "bad">>} : j \in 1 .. usize}
                     \cup {<<j, "header">> : j \in 1 .. 8})
    BY <2>1, ReadBytes
  <2>3. UNCHANGED <<loc, usize, size, corrupt, remaining, offset>>
    BY <1>3, ReadSteps
  <2>5. CASE pc = "read" /\ pc' = "file_read" /\ tmp_fp' /\ UNCHANGED <<buf, hash_bad, ret>>
    BY <2>5, <2>3
  <2>6. CASE pc' = "done" /\ ~tmp_fp' /\ ret' \in {"read", "open", "ntfs"}
             /\ UNCHANGED <<buf, hash_bad>>
    BY <2>6, <2>3
  <2>7. CASE pc' = "write" /\ ~tmp_fp' /\ buf' = BytesAt(offset, ToRead) /\ UNCHANGED ret
    <3>1. buf' = Chunk(offset, ToRead) /\ Len(buf') = ToRead
      BY <2>7, <2>2
    <3>2. (buf = Chunk(offset, Len(buf)))'
      BY <3>1, <2>3 DEF Chunk, Data
    <3>3. QED
      BY <3>1, <3>2, <2>7, <2>3, <2>2, <2>1
  <2>8. QED
    BY <1>3, ReadSteps, <2>5, <2>6, <2>7
<1>5. CASE Write
  BY <1>5 DEF Write, Chunk, Data
<1>6. CASE ChunkDone
  <2>1. pc \in {"write", "write_ret"}
    BY <1>6 DEF ChunkDone
  <2>2. Len(buf) \in Nat
    BY <2>1, LenProperties
  <2>3. CASE total < Len(buf)
    BY <1>6, <2>3 DEF ChunkDone
  <2>4. CASE ~(total < Len(buf))
    <3>1. /\ remaining' = remaining - Len(buf)
          /\ offset' = offset + Len(buf)
          /\ pc' = "loop"
          /\ UNCHANGED <<loc, usize, size, buf, tmp_fp, ret>>
      BY <1>6, <2>4 DEF ChunkDone
    <3>2. remaining' \in 0 .. size' /\ offset' \in 0 .. size'
          /\ offset' + remaining' = size'
      BY <3>1, <2>1, <2>2, <1>0
    <3>3. loc' = loc /\ usize' = usize /\ size' = size /\ buf' = buf
          /\ tmp_fp' = tmp_fp /\ ret' = ret
      BY <3>1
    <3>4. QED
      BY <3>1, <3>2, <3>3, <2>1
  <2>5. QED
    BY <2>3, <2>4
<1>7. CASE HashCheck
  BY <1>7 DEF HashCheck
<1>8. CASE Finished \/ UNCHANGED vars
  <2>1. UNCHANGED vars
    BY <1>8 DEF Finished
  <2>2. QED
    BY <2>1 DEF vars, Chunk, Data
<1>10. QED
  BY <1>2, <1>3, <1>5, <1>6, <1>7, <1>8 DEF Next

\* TInv holds throughout: types, and no FILE left open.
THEOREM TypeCorrect == Spec => []TypeOK
<1>1. TInv => TypeOK
  BY DEF TInv
<1>2. QED
  BY <1>1, InitTInv, NextTInv, PTL DEF Spec

\* The FILE read_wim_resource opens is closed before it returns, on every
\* path, for every resource location and every failure.
THEOREM FileClosed == Spec => []NoFileLeak
<1>1. TInv => NoFileLeak
  BY DEF TInv
<1>2. QED
  BY <1>1, InitTInv, NextTInv, PTL DEF Spec

-----------------------------------------------------------------------------
(* EInv: what the descriptor holds.                                        *)

\* Writing the chunk at offset o after the first o bytes gives the first
\* o + n bytes.
LEMMA DataConcat ==
    ASSUME NEW o \in Nat, NEW n \in Nat
    PROVE  DataSeq(o) \o Chunk(o, n) = DataSeq(o + n)
<1> DEFINE S == {Data(j) : j \in Nat}
<1>1. DataSeq(o) \in Seq(S) /\ Chunk(o, n) \in Seq(S)
  <2>1. DataSeq(o) \in [1 .. o -> S] /\ Chunk(o, n) \in [1 .. n -> S]
    BY DEF DataSeq, Chunk
  <2>2. QED
    BY <2>1, SeqDef
<1>2. Len(DataSeq(o)) = o /\ Len(Chunk(o, n)) = n
  BY DEF DataSeq, Chunk
<1>3. QED
  BY <1>1, <1>2, ConcatProperties DEF DataSeq, Chunk

\* full_write called with total = 0 and every write() complete appends buf
\* as it is: the bytes it sends from p = buf are buf's own.
LEMMA WholeWrite ==
    ASSUME NEW S, buf \in Seq(S)
    PROVE  [m \in 1 .. Len(buf) |-> BufByte(0 + m)] = buf
BY LenProperties DEF BufByte

\* The SHA-1 of the resource's bytes is off after hashing a non-empty
\* chunk exactly when it was off before, or the whole resource is being
\* hashed and the stored data is corrupt.
LEMMA HashChunk ==
    ASSUME NEW n \in Nat \ {0}, offset \in Nat, hash_bad \in BOOLEAN, corrupt \in BOOLEAN
    PROVE  HashAfter(Chunk(offset, n)) <=> hash_bad \/ (size = usize /\ corrupt)
<1>1. DOMAIN Chunk(offset, n) = 1 .. n /\ 1 \in 1 .. n
  BY DEF Chunk
<1>2. ASSUME NEW m \in 1 .. n
      PROVE  Chunk(offset, n)[m] # <<offset + m, "good">> <=> corrupt
  BY DEF Chunk, Data
<1>3. QED
  BY <1>1, <1>2 DEF HashAfter

LEMMA InitEInv == Init => EInv
<1> SUFFICES ASSUME Init PROVE EInv
  OBVIOUS
<1>1. TInv
  BY InitTInv
<1>2. usize \in Nat
  BY IOAssumption DEF Init
<1>3. file = DataSeq(offset)
  BY DEF Init, DataSeq
<1>4. corrupt \in BOOLEAN /\ (corrupt => usize > 0)
  <2>1. corrupt \in IF usize = 0 THEN {FALSE} ELSE BOOLEAN
    BY DEF Init
  <2>2. CASE usize = 0
    BY <2>1, <2>2
  <2>3. CASE usize # 0
    BY <2>1, <2>3, <1>2
  <2>4. QED
    BY <2>2, <2>3
<1>5. /\ hash_bad = FALSE /\ pc = "loop" /\ ret = "ok"
      /\ total = 0 /\ p = 0 /\ offset = 0
  BY DEF Init
<1>6. ~(pc \in {"write", "write_ret"}) /\ pc # "hash" /\ pc # "done"
  BY <1>5
<1>7. pc \in {"loop", "read", "file_read", "hash"} =>
          /\ file = DataSeq(offset)
          /\ total = 0 /\ p = 0
          /\ size = usize /\ corrupt /\ offset > 0 => hash_bad
  BY <1>3, <1>5
<1>8. hash_bad \in BOOLEAN /\ (hash_bad => size = usize /\ corrupt) /\ (pc # "done" => ret = "ok")
  BY <1>5
<1>9. QED
  BY <1>1, <1>4, <1>6, <1>7, <1>8 DEF EInv, ExtractCorrect

\* A read step keeps the descriptor as it was and starts full_write on the
\* next chunk, or ends the call with an error.
LEMMA ReadEInv ==
    ASSUME EInv, Read \/ ReadFile
    PROVE  EInv'
<1> USE DEF EInv
<1>1. TInv'
  BY NextTInv DEF Next
<1>2. /\ pc \in {"read", "file_read"} /\ remaining > 0
      /\ size \in Nat /\ remaining \in Nat /\ offset \in Nat /\ remaining <= size
  BY DEF Read, ReadFile, TInv, TypeOK
<1>3. /\ loc' = loc /\ usize' = usize /\ size' = size /\ corrupt' = corrupt
      /\ remaining' = remaining /\ offset' = offset /\ file' = file
      /\ total' = total /\ p' = p
  BY ReadSteps DEF TInv
<1>4. DataSeq(offset)' = DataSeq(offset)
  BY <1>3 DEF DataSeq, Data
<1>5. CASE pc = "read" /\ pc' = "file_read" /\ tmp_fp' /\ UNCHANGED <<buf, hash_bad, ret>>
  BY <1>1, <1>3, <1>4, <1>5 DEF ExtractCorrect
<1>6. CASE pc' = "done" /\ ~tmp_fp' /\ ret' \in {"read", "open", "ntfs"}
           /\ UNCHANGED <<buf, hash_bad>>
  BY <1>1, <1>3, <1>6 DEF ExtractCorrect
<1>7. CASE pc' = "write" /\ ~tmp_fp' /\ buf' = BytesAt(offset, ToRead)
           /\ hash_bad' = HashAfter(BytesAt(offset, ToRead)) /\ UNCHANGED ret
  <2>1. ToRead \in 1 .. remaining
    BY <1>2, ToReadBounds
  <2>2. buf' = Chunk(offset, ToRead) /\ Len(buf') = ToRead
    BY <1>7, <1>2, ReadBytes DEF EInv
  <2>3. hash_bad' <=> hash_bad \/ (size = usize /\ corrupt)
    BY <1>7, <2>1, <2>2, <1>2, HashChunk, ReadBytes
  <2>4. hash_bad' \in BOOLEAN
    BY <2>3
  <2>5. total = 0 /\ p = 0 /\ file = DataSeq(offset) /\ ret = "ok"
    BY <1>2
  <2>6. file' = DataSeq(offset' + total')
    BY <2>5, <1>3, <1>4, <1>2
  <2>7. /\ Len(buf') > 0
        /\ p' = total'
        /\ total' \in {0, Len(buf')}
        /\ (size = usize /\ corrupt => hash_bad)'
    BY <2>1, <2>2, <2>3, <2>5, <1>3
  <2>8. (hash_bad => size = usize /\ corrupt)' /\ (pc # "done" => ret = "ok")'
    BY <2>3, <2>5, <1>3, <1>7
  <2>9. QED
    BY <1>1, <1>3, <1>7, <2>4, <2>6, <2>7, <2>8 DEF ExtractCorrect, DataSeq, Data
<1>8. QED
  BY <1>5, <1>6, <1>7, ReadSteps DEF TInv

\* With every write() complete, one step of full_write either retries an
\* interrupted call, fails, or sends all of buf after the earlier chunks.
LEMMA WriteEInv ==
    ASSUME ~ShortWrites, EInv, Write
    PROVE  EInv'
<1> USE DEF EInv
<1>1. TInv'
  BY NextTInv DEF Next
<1>2. /\ pc = "write" /\ Len(buf) > 0 /\ p = total /\ total = 0
      /\ file = DataSeq(offset) /\ offset \in Nat
      /\ buf \in Seq(UNION {{<<j, "good">>, <<j, "bad">>} : j \in 1 .. usize}
                     \cup {<<j, "header">> : j \in 1 .. 8})
  BY DEF Write, TInv, TypeOK
<1>3. /\ loc' = loc /\ usize' = usize /\ size' = size /\ corrupt' = corrupt
      /\ remaining' = remaining /\ offset' = offset /\ buf' = buf
      /\ hash_bad' = hash_bad /\ tmp_fp' = tmp_fp /\ ret' = ret
  BY DEF Write
<1>4. CASE pc' = pc /\ file' = file /\ total' = total /\ p' = p
  BY <1>1, <1>2, <1>3, <1>4 DEF ExtractCorrect, DataSeq, Data
<1>5. CASE pc' = "write_ret" /\ file' = file /\ total' = total /\ p' = p
  BY <1>1, <1>2, <1>3, <1>5 DEF ExtractCorrect, DataSeq, Data
<1>6. CASE /\ pc' = pc
           /\ file' = file \o [m \in 1 .. Len(buf) |-> BufByte(p + m)]
           /\ total' = total + Len(buf) /\ p' = p + Len(buf)
  <2>1. buf = Chunk(offset, Len(buf)) /\ Len(buf) \in Nat
    BY <1>2, LenProperties DEF TInv
  <2>2. file' = DataSeq(offset + Len(buf))
    BY <1>2, <1>6, <2>1, WholeWrite, DataConcat
  <2>3. total' = Len(buf') /\ p' = total'
    BY <1>2, <1>3, <1>6
  <2>4. QED
    BY <1>1, <1>2, <1>3, <1>6, <2>2, <2>3 DEF ExtractCorrect, DataSeq, Data
<1>7. QED
  <2>1. ~ShortWrites /\ ShortWrites \in BOOLEAN
    BY IOAssumption
  <2>2. QED
    BY <1>4, <1>5, <1>6, <1>2, <2>1 DEF Write

\* extract_wim_chunk_to_fd turns a short count into an error; a full one
\* moves offset past the chunk the descriptor now holds.
LEMMA ChunkDoneEInv ==
    ASSUME EInv, ChunkDone
    PROVE  EInv'
<1> USE DEF EInv
<1>1. TInv'
  BY NextTInv DEF Next
<1>2. /\ pc \in {"write", "write_ret"} /\ Len(buf) \in Nat
      /\ total \in {0, Len(buf)} /\ file = DataSeq(offset + total)
      /\ (size = usize /\ corrupt => hash_bad) /\ ret = "ok"
  BY LenProperties DEF ChunkDone, TInv, TypeOK
<1>3. /\ loc' = loc /\ usize' = usize /\ size' = size /\ corrupt' = corrupt
      /\ buf' = buf /\ hash_bad' = hash_bad /\ tmp_fp' = tmp_fp /\ file' = file
      /\ total' = 0 /\ p' = 0
  BY DEF ChunkDone
<1>4. CASE total < Len(buf)
  <2>1. pc' = "done" /\ ret' = "write"
    BY <1>4 DEF ChunkDone
  <2>2. QED
    BY <1>1, <1>3, <2>1 DEF ExtractCorrect
<1>5. CASE ~(total < Len(buf))
  <2>1. /\ offset' = offset + Len(buf) /\ pc' = "loop" /\ ret' = ret
        /\ total = Len(buf)
    BY <1>2, <1>5 DEF ChunkDone
  <2>2. file' = DataSeq(offset')
    BY <1>2, <1>3, <2>1 DEF DataSeq, Data
  <2>3. QED
    BY <1>1, <1>2, <1>3, <2>1, <2>2 DEF ExtractCorrect, DataSeq, Data
<1>6. QED
  BY <1>4, <1>5

\* The loop test, and the SHA-1 check after it: extract_wim_resource
\* returns 0 only after writing all size bytes, and, when it hashed the
\* whole resource, only when the resource is intact.
LEMMA LoopHashEInv ==
    ASSUME EInv, Loop \/ HashCheck
    PROVE  EInv'
<1> USE DEF EInv
<1>1. TInv'
  BY NextTInv DEF Next
<1>2. /\ remaining \in Nat /\ offset \in Nat /\ size \in Nat /\ usize \in Nat
      /\ offset + remaining = size
  BY DEF TInv, TypeOK
<1>3. CASE Loop
  <2>1. /\ loc' = loc /\ usize' = usize /\ size' = size /\ corrupt' = corrupt
        /\ remaining' = remaining /\ offset' = offset /\ buf' = buf
        /\ hash_bad' = hash_bad /\ tmp_fp' = tmp_fp /\ file' = file
        /\ total' = total /\ p' = p /\ ret' = ret
        /\ pc = "loop" /\ pc' = IF remaining > 0 THEN "read" ELSE "hash"
    BY <1>3 DEF Loop
  <2>2. pc' = "hash" => remaining' = 0
    BY <2>1, <1>2
  <2>3. QED
    BY <1>1, <2>1, <2>2 DEF ExtractCorrect, DataSeq, Data
<1>4. CASE HashCheck
  <2>1. /\ loc' = loc /\ usize' = usize /\ size' = size /\ corrupt' = corrupt
        /\ remaining' = remaining /\ offset' = offset /\ buf' = buf
        /\ hash_bad' = hash_bad /\ tmp_fp' = tmp_fp /\ file' = file
        /\ total' = total /\ p' = p
        /\ pc = "hash" /\ pc' = "done"
        /\ ret' = IF size = usize /\ hash_bad THEN "hash" ELSE "ok"
    BY <1>4 DEF HashCheck
  <2>2. offset = size /\ file = DataSeq(size)
    BY <2>1, <1>2
  <2>3. ret' = "ok" /\ size = usize => ~corrupt
    <3>1. /\ corrupt => usize > 0
          /\ size = usize /\ corrupt /\ offset > 0 => hash_bad
      BY <2>1
    <3>2. QED
      BY <2>1, <2>2, <3>1, <1>2
  <2>4. QED
    BY <1>1, <2>1, <2>2, <2>3 DEF ExtractCorrect, DataSeq, Data
<1>5. QED
  BY <1>3, <1>4

LEMMA NextEInv ==
    ASSUME ~ShortWrites
    PROVE  EInv /\ [Next]_vars => EInv'
<1> SUFFICES ASSUME EInv, [Next]_vars PROVE EInv'
  OBVIOUS
<1>1. CASE Read \/ ReadFile
  BY <1>1, ReadEInv
<1>2. CASE Write
  BY <1>2, WriteEInv
<1>3. CASE ChunkDone
  BY <1>3, ChunkDoneEInv
<1>4. CASE Loop \/ HashCheck
  BY <1>4, LoopHashEInv
<1>5. CASE Finished \/ UNCHANGED vars
  <2>1. UNCHANGED vars
    BY <1>5 DEF Finished
  <2>2. QED
    BY <2>1 DEF vars, EInv, TInv, TypeOK, NoFileLeak, ExtractCorrect, DataSeq,
                Chunk, Data
<1>6. QED
  BY <1>1, <1>2, <1>3, <1>4, <1>5 DEF Next

\* When extract_wim_resource returns 0, the descriptor holds exactly the
\* first size bytes of the resource, wherever the resource is and however
\* the reads, opens and writes fail, for every chunk size and resource
\* size, as long as write() writes all it is asked for.
THEOREM ExtractionCorrect ==
    ASSUME ~ShortWrites
    PROVE  Spec => []ExtractCorrect
<1>1. EInv => ExtractCorrect
  BY DEF EInv
<1>2. EInv /\ [Next]_vars => EInv'
  BY NextEInv
<1>3. QED
  BY <1>1, <1>2, InitEInv, PTL DEF Spec

====
