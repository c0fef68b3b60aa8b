--------------------------- MODULE MC_ChunkRead ---------------------------
(* Chunks of 4 bytes, resources of up to 3 chunks, and 8-byte chunk table *)
(* entries from 8 bytes on, so that both entry sizes, a short last chunk  *)
(* and a last chunk of a full WIM_CHUNK_SIZE all occur.                   *)
EXTENDS ChunkRead
=============================================================================
