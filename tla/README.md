# TLA+ models of wimlib

This directory holds TLA+ models of the wimlib sources under `src/`, the TLC
configurations that model-check them, and TLAPS proofs about them.
`PROJECT.json` lists the components, the runs, the mutants, the line map from
each definition to the code it models, the findings, the hazards, and the
theorems.

## 1. The system

wimlib reads, writes and modifies WIM archives. A WIM holds:

- a set of *images*. Each image is a dentry tree with security data, and a
  metadata resource in the file.
- a *lookup table*. It maps the SHA-1 of every stream to a `lookup_table_entry`:
  where the blob lives and its `refcnt`, the number of dentries that refer to it.
- an XML document. It describes each image (name, description, Windows
  information).
- a header. It holds among others `image_count` and `boot_idx`.

The source tree holds these parts:

| Part | Source | State | Operations |
|---|---|---|---|
| Image management | `src/unnamed/part_002` (modify.c) | image metadata array, lookup table refcnts, `hdr.image_count`, `hdr.boot_idx`, `current_image`, XML image list | `wimlib_add_image` (with `build_dentry_tree`), `wimlib_delete_image`, `wimlib_export_image` (with `add_lookup_table_entry_to_dest_wim`, `add_new_dentry_tree`) |
| Resource I/O | `src/src/resource.c` | chunk tables, output buffers, `fp_tab` pool of FILE* (FUSE) | `read_compressed_resource`, `read_uncompressed_resource`, `read_wim_resource`, `extract_wim_resource`, `copy_resource`, `full_write`, `wim_get_fp`/`wim_release_fp` |
| NTFS-3G apply | `src/src/ntfs-3g_apply.c` | open attributes and inodes of the current blob, reparse buffer, DOS-name fixups | `create_directories`, `create_nondirectories`, `begin_extract_blob`, `extract_chunk`, `end_extract_blob`, `set_metadata` |
| NTFS-3G capture | `src/unnamed/part_003` | `sd_set` of security descriptors (rb-tree), DOS-name tree, lookup table | `build_dentry_tree_ntfs(_recursive)`, `capture_ntfs_streams`, `sd_set_add_sd` |
| Windows XML info | `src/src/xml_windows.c` | `windows_info_ctx` (oom flag), loaded hives | `set_windows_specific_info`, `language_id_to_name`, the hive queries |
| Byte helpers | `src/unnamed/part_000`, `part_001` | none | unaligned loads/stores, bitstream byte writers |

How the parts interact:

- Image management is the hub. A capture (`build_dentry_tree` or the NTFS
  capture) interns the streams it finds in the lookup table.
- Deleting or exporting an image walks its dentry tree. It decrements
  refcnts, or increments them in another WIM's table.
- The resource layer reads the blobs that the lookup table names.
- Apply asks the resource layer for the blobs of an image and writes them
  to the volume.

**Hard behaviours.** The image operations have several failure points each.
These include a failed stat, opendir or sha1sum, a failed allocation, and a
name collision. Several failure points sit *after* some state has already
changed, so the order of the steps decides what is left behind. The
multi-image export is a loop of single exports that stops at the first error.
The fd pool is shared between FUSE threads. The NTFS apply keeps bounded
tables of open attributes and inodes across callbacks.

## 2. The models

### WimImages (image management) — `WimImages.tla`

**Constants.**

- `Wims`: the WIMStructs a program holds.
- `Names`: image names.
- `Hashes`: stream SHA-1s.
- The directory being captured: `NodeCount` entries, numbered in the preorder
  in which `build_dentry_tree` visits them. `Parent` gives each entry's
  directory (0 is the captured directory), and `DirNodes` says which entries
  are directories. `TreeAssumption` states the preorder shape.
- `Faults ⊆ {"io","nomem"}`: which failures the environment may cause.
- `MaxImages`: the image bound.

**Variables** (per WIM).

| Variable | Code | Abstraction |
|---|---|---|
| `images[w]` | `w->image_metadata[*].root_dentry` | each tree is a function from entry to the SHA-1 of its file, or `Absent` |
| `table[w]` | `w->lookup_table` | SHA-1 ↦ `refcnt`, with 0 meaning no entry |
| `xml[w]` | `w->wim_info` | the list of image names |
| `boot[w]` | `hdr.boot_idx` | |
| `cur[w]` | `current_image` | |
| `exp` | the loop of an in-progress `wimlib_export_image(WIM_ALL_IMAGES)` | |

**Actions.**

- **`AddImage`** models the whole of `wimlib_add_image`.
  - *Capture.* `build_dentry_tree` may stop at any entry (`CaptureStops`). It
    stops on stat, opendir or sha1sum in every run with `"io"`, and on a
    failed STRDUP or `new_lookup_table_entry` at a file whose hash has no
    entry yet in runs with `"nomem"`.
  - *The capture's result.* The files before the stop have been interned
    (`Interned`, `Built`). Only the subtrees whose `build_dentry_tree` returned
    0 have been linked to the root (`Linked`, `TreeOf`). `err1` then releases
    what is linked (`Release`).
  - *Success.* `add_new_dentry_tree` appends and selects the image, then the
    boot flag is applied, then `xml_add_image` runs.
  - *xml_add_image failing.* The image stays, but `err1` frees its tree.
  - *Left out.* Calls that fail before the capture change nothing. They are
    stutters and are omitted.
- **`DeleteImage`** releases the image's tree and removes the image. It also
  removes the image's XML entry (when it has one), fixes `boot_idx`, and
  clears `current_image`.
- **`DeleteAllImages`** is the `WIM_ALL_IMAGES` branch: a repeated delete of
  image 1 in closed form.
- **`ExportImage`** is the argument handling of `wimlib_export_image`.
  - For a multi-image source, its error checks come first, then it starts the
    loop.
  - Otherwise it calls `ExportOne`, the single-image body. That body covers
    the name collision, the increments of `add_lookup_table_entry_to_dest_wim`
    (stopping at a NOMEM, whose result the code ignores), and
    `add_new_dentry_tree` failing. On success it selects the image, sets the
    boot index and calls `xml_export_image`.
- **`ExportNext`** is one iteration of the loop. The source's image count is
  re-read at each iteration.

Helpers modelled from the specification, because their code is not under
`src/`: `free_dentry_tree` (`Release`, a refcnt never going below 0),
`wimlib_image_name_in_use`, `wimlib_get_image_name`, the XML functions, and
the initial WIM. They are marked `spec_modelled` in the map.

**Properties.**

| Property | Kind | Meaning |
|---|---|---|
| `TypeOK` | invariant | the variables keep their types |
| `IndicesValid` | invariant | `boot_idx` and `current_image` are 0 or name an image, and the XML lists no more images than the WIM has |
| `RefcountExact` | invariant | the spec's "refcounts equal the number of stream references across all retained images" (spec.md §8) |
| `StreamsResolve` | invariant | every file dentry of every image has a lookup table entry |
| `BootFollowsImage` | action property | the boot index keeps naming the same image (identified by its name) across deletes and exports, is reset only when that image goes, and moves only to a newly added image |

### ChunkRead (reading a WIM resource) — `ChunkRead.tla`

`read_wim_resource` (src/src/resource.c) reads `size` bytes at `offset` of
one resource of the WIM file. It has three paths:

- an uncompressed resource, or a raw read (`WIMLIB_RESOURCE_FLAG_RAW`), goes
  to `read_uncompressed_resource`. That is one `fseeko` and one `fread`;
- a compressed resource goes to `read_compressed_resource`. It reads the
  needed slice of the chunk table into `chunk_offsets[]`, seeks to the first
  needed chunk, then loops over the chunks. A chunk whose compressed size
  equals its uncompressed size is copied verbatim. Any other chunk is read
  into `compressed_buf` and decompressed. Only the part of the first and
  last chunk inside the range goes to the output.

**State.**

- `call`: the arguments, with the file as it lies on disk.
- `pc`: `idle`, `table`, `chunks` or `done`.
- `co`: `chunk_offsets[]`.
- `i`: the loop index.
- `pos`: the file position of `fp`.
- `out`: what has been written to `contents_ret`.
- `ret`: the return value.

**The file.** A file is a function from offsets to cells:

- a byte of the uncompressed stream, tagged with its position, so that a
  misplaced read shows;
- a chunk table entry;
- a token marking the start of compressed chunk `j`;
- padding.

The codecs are abstracted. `decompress` succeeds exactly when it is given a
chunk's token, that chunk's full stored size and its uncompressed length.
Table entries are 4 bytes, or 8 from the uncompressed size `WideAt` on;
`WideAt` stands for 2^32. A read at an offset that is not the start of an
entry yields an offset past the end of the file.

The writer's layout (`Resources`, `FileOf`) comes from the format in the
spec, because `write_wim_resource` is not in this source tree. A corrupt
resource has one table entry replaced by any value up to past the end of
the data (`Corrupted`).

**Actions.**

| Action | Code |
|---|---|
| `ReadWimResource` | `read_wim_resource`'s dispatch, with the over-run assertion as its guard. Plain and raw reads complete in the same step (`ReadUncompressedResource`). |
| `ReadChunkTable` | `read_compressed_resource` up to the loop: the trivial `len == 0` case, the slice of the table, the seek to the first chunk. |
| `ReadChunk` | one loop iteration: the size derivations at lines 240–268, then the verbatim or compressed branch, each with its `fread` and decompression failures. |
| `Return` | the caller takes the result. |

An `fread` fails when it would run past the end of the file, or at any point
when `IOFaults` is true.

**Properties.**

| Property | Kind | Meaning |
|---|---|---|
| `TypeOK` | invariant | the variables keep their types; the loop index is a natural number |
| `ReadCorrect` | invariant | without I/O errors, every in-bounds read of a well-formed resource returns 0 with exactly the requested bytes |
| `ChunkOffsetsInBounds` | invariant | the loop reads `chunk_offsets[]` only inside its `num_needed_chunks` entries |
| `CompressedBufferFits` | invariant | a chunk read into `compressed_buf` fits its `WIM_CHUNK_SIZE - 1` bytes (checked on corrupt tables only, `chunk_overflow`; on the well-formed tables of `chunk_valid` it holds by construction) |
| `NoSilentTruncation` | invariant | a read returning 0 has written all `len` bytes, even from a corrupt table |

### FilePool and FdPool (the FUSE descriptor pool) — `FilePool.tla`, `FdPool.tla`

`FilePool` is the spec's file-handle pool, written as an abstract
specification:

- `free` is the set of handles the pool keeps;
- `held[t]` is the handle reader `t` owns;
- `Acquire(t)` takes a kept handle or opens a new one;
- `Release(t)` gives the handle back.

`FdPool` models resource.c under `WITH_FUSE`:

- `fp_tab` is `w->fp_tab`, a sequence of length `num_allocated_fps` whose
  empty slots hold `Null`;
- `mutex` is the holder of `fp_tab_mutex`;
- `pc[t]` is where thread `t` is in `read_wim_resource` with
  `WIMLIB_RESOURCE_FLAG_MULTITHREADED`;
- `fp[t]` is the thread's pointer;
- `opened` is the set of FILE pointers open in the process.

The actions:

- `Call` enters `read_wim_resource`.
- `Lock` is the `pthread_mutex_lock` of either function. A thread blocked
  on the mutex is a thread whose `Lock` is disabled.
- `GetFp` is the body of `wim_get_fp` and its unlock. It takes the first
  non-NULL slot, or `tfopen`s a new pointer, or fails with
  `WIMLIB_ERR_OPEN`.
- `Read` is the read on the thread's own pointer. It succeeds or fails;
  ChunkRead details it.
- `ReleaseFp` is the body of `wim_release_fp` and its unlock. It stores the
  pointer in the first empty slot. With no empty slot, it grows the table
  by 4. When `REALLOC` fails it returns `WIMLIB_ERR_NOMEM`.

The loops' "first slot of its kind" is `IsFirst(i, S)` under `\E`, rather
than `CHOOSE`, so that the proofs can reason about it.

Fairness is weak fairness of each thread's steps. A POSIX thread that is
runnable is eventually scheduled. A thread waiting for the mutex is
runnable whenever the mutex is free, and the mutex is free on every path
out of either function.

`ImplementsFilePool` instantiates `FilePool` with `free <- Pooled` (the
non-NULL slots) and `held <- fp`, and checks its `Spec` as a property.

- The lock step and the read step are stutters of the abstract pool.
- Taking a pointer, pooled or new, is `Acquire`.
- Storing it back is `Release`.

### NtfsApply (extraction onto an NTFS volume) — `NtfsApply.tla`

This models `ntfs_3g_extract` and its blob callbacks.

**The extraction list.** The input is `xl`, one of `Lists`. Each entry is a
blob, the sizes of the chunks it is read in, and its targets. A target is a
data stream (named or unnamed) of an inode, or an inode's reparse point. The
spec describes the list as what `extract_blob_list` hands the callbacks.
`extract_blob_list` is outside `src/`, so the list is taken from the spec.

**The state.** The variables follow `struct ntfs_3g_apply_ctx`:

- `open_attrs` and `open_inodes`: the tables of open attributes and inodes,
  bounded by `MAX_OPEN_FILES`;
- `rp_inodes`, `rp_ptr` and `rpbuf`: the reparse buffer;
- `offset`: the write position.

The effects on the volume are:

- `handles[i]`: how often inode `i` is open;
- `data`: each stream's contents, as a function from byte positions to
  `<<blob, position>>`;
- `reparse`;
- `failed`: whether a libntfs-3g call has failed.

**The steps.** Each callback is a sequence of steps, one per call it makes:

- `Mount`;
- `Structure`, the file-structure phase;
- `BeginBlob`, then `OpenInode` and `BeginInstance` for each target, with
  `NextTarget` between targets. `ReparseFits` is the `REPARSE_DATA_MAX_SIZE`
  check;
- `ExtractChunk`, which does `ntfs_attr_pwrite` to every open attribute;
- `ChunksDone`;
- `EndBlob`, which sets the reparse points and closes everything through
  `ntfs_3g_cleanup_blob_extract`. `CloseResult` is how a failed
  `ntfs_inode_close` turns a 0 into `WIMLIB_ERR_NTFS_3G`;
- `Umount`.

Every call in `Faults` may fail, and a failure takes the code's error path.
`BeginFails` cleans up the context, as `out_cleanup` does.

**Abstractions.** The file-structure phase is one step that succeeds or
fails. Its work formats names, timestamps and security descriptors, which no
blob property depends on.

### ResourceIO (extracting a resource) — `ResourceIO.tla`

This models `extract_wim_resource` with `extract_wim_chunk_to_fd`, the
non-WIM locations of `read_wim_resource`, and `full_write`.

**The resource.** `loc` is the location (one of `Locs`):

- a WIM;
- a file on disk, with or without an open FILE;
- an attached buffer;
- an NTFS attribute, possibly a reparse point.

The other constants and inputs are:

- `usize` is the resource size and `size` the number of bytes extracted;
- `corrupt` says whether the data differs from `lte->hash`. Byte `j` of the
  resource is `<<j, "good">>` or `<<j, "bad">>`;
- a reparse point stored by NTFS-3G has an 8-byte header before the data,
  which the read skips (`ReadOffset`).

**The loop** (`Loop`, `Read`, `ReadFile`, `Write`, `ChunkDone`) reads chunks
of `min(WIM_CHUNK_SIZE, size)` bytes into `buf`, then writes each through
`full_write` and appends it to `file`. A full extraction ends with the
SHA-1 check (`HashCheck`). `tmp_fp` is the FILE that `read_wim_resource`
opens when the location has none.

**`Write` is `full_write`'s loop.** Each step is one `write()` of `n` bytes
from `p` (the code's arguments). A step is one of:

- `EINTR`, which retries;
- another error, which breaks out of the loop;
- a write of `r` bytes. `r` is `n`, or with `ShortWrites` any of `1..n`.

Bytes past the end of `buf` are `"garbage"`. `MaxWrites` bounds the calls.

The WIM read itself is one step. ChunkRead models it in detail.

## 3. Runs and bounds

### MC_WimImages

The instance:

- two WIMs and two names;
- a captured directory with a subdirectory `d1` holding two files. This is
  the smallest shape where a capture can fail *inside* a subdirectory after
  interning a file;
- `MaxImages = 2`, enough to delete an image before or after the boot image,
  and to run the export loop over two images;
- refcnts explored up to `MaxRefcnt = 4` through the `RefcntBound`
  constraint. Failed captures leak references, so refcnts are otherwise
  unbounded. 4 is the most that two images of two files can legitimately
  hold.

The fault-free run uses two hashes, so blobs are shared and distinct between
images and WIMs. The fault runs use one hash, which keeps them within
minutes; sharing still happens between the two files.

| Run | Faults | Checks | Result |
|---|---|---|---|
| `images_faultfree` | none | RefcountExact, StreamsResolve, BootFollowsImage | pass (341,569 states) |
| `images_nomem` | io, nomem | TypeOK, IndicesValid | pass (264,325 states) |
| `images_dangling` | nomem | StreamsResolve | **violation** |

**Findings.**

- A capture leak, which no run keeps. A capture stopped by a failing stat,
  opendir or sha1sum inside a subdirectory leaves the refcnts of the files
  already hashed there raised. No tree holds those dentries, so `err1`'s
  `free_dentry_tree` never sees them (part_002:99). The WIM then keeps blobs
  that no image uses, against spec §8. With the io fault on, TLC finds
  `RefcountExact` violated this way, which is why that property is checked
  fault-free only. `BootFollowsImage` is checked fault-free too. With
  faults, the `xml_add_image` failure of `images_dangling` leaves the image,
  and the boot index set to it, with no XML entry, which breaks it.
- `images_dangling`: when `xml_add_image` fails (part_002:502), the image
  added by `add_new_dentry_tree` stays in the WIM while `err1` has released
  its blobs. The image's streams then dangle. The ignored result of the
  export tree walk (part_002:340) leads to the same state.

**Fairness.** None is assumed. The API is sequential: a program calls these
functions one at a time and may stop at any point. No liveness property is
claimed.

**Mutants.** Every property of a passing run fails under a plausible bug of
the code it is about:

- the boot fix without its reset (`BootAfterDeleteNoReset`);
- the boot fix without its decrement (`BootAfterDeleteNoDecrement`);
- releasing a blob once per tree rather than once per dentry
  (`ReleaseOncePerBlob`);
- a refcnt decremented below zero (`ReleaseUnsaturated`).

### MC_ChunkRead

The instance has chunks of 4 bytes, `WideAt = 8`, and the resource at file
offset 2, with 4 bytes of other data after it. For every resource size,
every choice of stored chunk sizes is tried, verbatim or compressed, and
every offset and length. This covers:

- reads inside one chunk, and reads across chunk boundaries;
- reads that start or end on a boundary;
- reads that start at chunk 0, whose offset is implicit in the table;
- reads that end in the last chunk, which needs no extra table entry, and
  reads that end before it, which do;
- 4- and 8-byte entries.

Sizes up to 9 give three chunks, the smallest case with a middle chunk. The
corrupt runs stop at 5 bytes (two chunks, one table entry), because every
corrupt value of every entry multiplies the state space.

| Run | Corrupt | I/O faults | Checks | Result |
|---|---|---|---|---|
| `chunk_valid` | no | no | TypeOK, ReadCorrect, ChunkOffsetsInBounds | pass (14,322 states) |
| `chunk_corrupt` | yes | yes | NoSilentTruncation | pass (6,542 states) |
| `chunk_overflow` | yes | yes | CompressedBufferFits | **violation** |

**Finding.** `chunk_overflow`: the compressed size of a chunk is a
difference of table entries (resource.c:245, :257). Nothing checks it
before `fread` into `compressed_buf[WIM_CHUNK_SIZE - 1]`. TLC's trace has a
5-byte resource with its one table entry raised to 5. The first chunk then
gets a "compressed" size of 5 - 0 = 5, where 3 is the most the buffer holds. The spec asks
for `CorruptResource` when a chunk size is negative or above the chunk size.
A negative difference wraps to a huge unsigned value. The property counts
that as an overrun too. In the model such an `fread` runs short and returns
`WIMLIB_ERR_READ`, which is why `NoSilentTruncation` still holds.

**Fairness.** None. Each call runs to completion in the code, but the
properties are invariants, and a caller may stop between calls.

**Mutants.**

- the start chunk one too low (`StartChunkMinusOne`, breaks TypeOK);
- the table slice started at `start_chunk` (`StartTableIdxOff`, breaks
  ReadCorrect);
- `num_needed_chunks` without the extra entry (`NumNeededChunksNoExtra`,
  breaks ChunkOffsetsInBounds);
- the end offset past the last byte (`EndChunkOffsetPastEnd`, breaks
  NoSilentTruncation).

### MC_FdPool

The instance has three threads and four FILE pointers. Three threads are
the fewest in which two threads hold pointers while a third finds the table
full. Four pointers are one more than the threads.

| Run | Reads per thread | Faults | Checks | Result |
|---|---|---|---|---|
| `fdpool_safe` | 2 | fopen | TypeOK, Exclusive, FpAccounted, FpsBounded, CallsReturn, ImplementsFilePool, PoolChangesLocked | pass (492,107 states) |
| `fdpool_nomem` | 1 | fopen, REALLOC | Exclusive, CallsReturn | pass (30,622 states) |
| `fdpool_leak` | 1 | REALLOC | FpAccounted | **violation** |

With two reads per thread, a pointer is stored, taken again by another
thread, and the table grows. With one read per thread, the table grows once
(to 4 slots) and `REALLOC` can fail on the growth.

**What the properties say.**

- `Exclusive`: no pointer is held by two threads, held and pooled at once,
  or in two slots.
- `FpAccounted`: every opened pointer is held or pooled.
- `FpsBounded`: the pool opens no more pointers than there are threads, and
  keeps fewer than 4 slots beyond them.
- `CallsReturn`: every call returns (under the fairness above).
- `PoolChangesLocked` (an action property): a step that changes `fp_tab`
  is taken while a thread holds `fp_tab_mutex`. A step that gives a thread
  a pointer, or takes it back, is taken while that thread holds the mutex.

**Findings.**

- `fdpool_leak` (resource.c:467). When `REALLOC` fails, `wim_release_fp`
  returns `WIMLIB_ERR_NOMEM` with the pointer neither stored nor closed. The
  descriptor leaks for the life of the mount.
- An observation, kept as a hazard rather than a run (resource.c:444).
  `wim_get_fp` calls `tfopen` while it holds `fp_tab_mutex`. The spec says
  the pool blocks on the mutex but never on I/O while the lock is held. In
  the model, every step that opens a pointer is a `GetFp` taken under the
  lock.

**Mutants.**

- The `memset` of the new slots dropped when the table grows
  (`ReleaseFpNoMemset`, resource.c:473-474) leaves them uninitialized, and
  breaks TypeOK.
- The slot not cleared when a pointer is taken breaks Exclusive.
- The pointer not stored when the table grows breaks FpAccounted and
  ImplementsFilePool.
- The full-slot scan starting at the second slot breaks FpsBounded.
- The unlock dropped on the fopen path breaks CallsReturn.
- A missing `pthread_mutex_lock` breaks PoolChangesLocked.

### MC_NtfsApply

The instance has two inodes, two blobs, one stream name, `MAX_OPEN_FILES =
3` and `REPARSE_DATA_MAX_SIZE = 3`. Every libntfs-3g call may fail. The
three lists put:

- two targets of one blob on the same inode, which must be opened once;
- a reparse target, of a blob that fits (exactly 3 bytes) and of one that
  does not (4 bytes);
- a second blob after the first, on the inode the first blob left open or
  closed;
- chunks of unequal sizes, so that the offset matters.

`apply_faults` passes (148 states). It checks:

- `InodeOpenOnce`: an inode is never open twice at once;
- `ClosedBetweenBlobs`: between blobs, and once extraction stops, nothing
  is left open and the context is reset, whichever step failed;
- `BlobsIntact`: every blob that `end_blob` has finished is on the volume.
  Each of its data targets holds exactly the blob's bytes, and each of its
  reparse targets holds the blob as reparse data;
- `ReparseBufBounded`: `rpbuf` never buffers more than
  `REPARSE_DATA_MAX_SIZE` bytes;
- `ErrorsReported`: a run in which some call failed does not return 0;
- `ErrorNotMasked` (an action property): a later failure never replaces an
  earlier error. `end_blob` returns the status `extract_blob_list` hands it,
  whatever the closes in `ntfs_3g_cleanup_blob_extract` do, and a failing
  `ntfs_umount` keeps an error already in `ret` (`if (... && !ret)`).

Its mutants drop, in turn:

- the "already open" check in `ntfs_3g_open_inode` (InodeOpenOnce);
- the cleanup on a failed begin (ClosedBetweenBlobs);
- the offset reset (BlobsIntact);
- the reparse size check (ReparseBufBounded);
- the close result in `ntfs_3g_cleanup_blob_extract` (ErrorsReported);
- the `&& !ret` in `ntfs_3g_extract`'s unmount (`UmountOverwrite`: a
  failing `ntfs_umount` then overwrites an earlier error, ErrorNotMasked).

One more mutant keeps the raw `-1` from `ntfs_inode_close` (TypeOK).

### MC_ResourceIO

The chunk size is 2. The resource sizes are 0, 1 and 3:

- 0 is the empty loop;
- 1 fits in one chunk;
- 3 takes a full chunk and a short last one.

The instance also covers:

- partial extractions;
- corrupt data;
- all six locations;
- read, open and write failures and `EINTR`.

| Run | Checks | Result |
|---|---|---|
| `resource_extract` | TypeOK, ExtractCorrect, NoFileLeak | pass (844 states) |
| `resource_short_write` | FullWriteExact | **violation** |

**What the properties say.**

- `ExtractCorrect`: an extraction that returns 0 wrote exactly bytes
  `1..size` of the resource, never a reparse header, and a full one was not
  corrupt.
- `NoFileLeak`: the temporary FILE is closed on every path.
- `FullWriteExact`: inside `full_write`, the file holds the chunk's first
  `total` bytes and `total <= n`.

**Finding.** `resource_short_write` (resource.c:691). After a short write,
`full_write` calls `write(fd, p, n)` with the full `n` rather than
`n - total`. TLC's trace has a 3-byte buffer resource:

1. The first write of the 2-byte chunk writes 1 byte.
2. The retry writes byte 2 and one byte past the end of `buf`.

Stack garbage reaches the file, and `total` can pass `n`, so the
`total != n` loop need not end. The first run, with full writes only, shows
that nothing else is wrong with the loop.

**Mutants.**

- The remaining count reduced by a whole chunk breaks TypeOK.
- The reparse offset without the header skip breaks ExtractCorrect.
- The temporary FILE left open on a failed read breaks NoFileLeak.

## 4. Proofs

### WimImages_proofs

`TypeCorrect` (Spec ⇒ □TypeOK) and `IndicesStayValid` (Spec ⇒ □IndicesValid)
are proved for every value of the constants that satisfies `TreeAssumption`
and `ConstAssumption`.

The inductive invariant is `Inv == TypeOK /\ IndicesValid`. Neither half is
inductive alone:

- the bounds need the types to reason about lengths;
- the types need the bounds, because the loop's index must be a valid
  image.

The proof has one lemma per action (`AddImageInv`, `DeleteImageInv`,
`DeleteAllImagesInv`, `ExportImageInv`, `ExportNextInv`). They share
`ExportOneInv`, which covers the single-image export body used both by a
direct call and by each loop iteration. These rest on lemmas about the
helpers:

- `NodeCardinality` and `RefsInNat`: counts are naturals, because the sets
  counted are finite;
- `ReleaseType`, `BuiltType` and `TreeOfType`;
- `DropImageProps`: removing an element from a sequence shortens it by one,
  which is the shift of the image array.

The proofs use the `FiniteSetTheorems` and `SequenceTheorems` libraries.

### WimImages_refcount

`RefcountsStayExact` (Spec ⇒ □RefcountExact) and `StreamsAlwaysResolve`
(Spec ⇒ □StreamsResolve) are proved under the hypothesis `Faults = {}`: no
call fails. That is the configuration of the `images_faultfree` run. The
hypothesis is needed, because `images_dangling` shows both properties
broken once a capture or export may fail part way.

The inductive invariant is `RInv == Inv /\ RefcountExact`:

- `Inv` is needed for the types and the index bounds;
- export needs `StreamsResolve` to find the entry of every hash it copies.
  That comes from the count itself (`RefsPositive`: a hash some image holds
  has a positive count, so its entry was not freed).

Counting is done on `RefSet(imgs, h)`, the set of (image, dentry) pairs
whose stream is h. `RefsIn` is its cardinality. The lemmas about it are:

- `RefsSplit`: the references split into one image's and the others';
- `RefsAppend`: adding an image adds its count;
- `RefsDrop`: deleting image i subtracts its count. It is proved with a
  bijection that shifts the images after i down by one (`DropImageAt`), and
  `FS_Bijection`;
- `CaptureWhole`: a captured tree holds a hash as many times as it has
  interned files with it;
- `CardBijection` and `CardDisjointUnion`: the finite-set facts these rest
  on.

There is one lemma per action (`AddImageRef`, `DeleteImageRef`,
`DeleteAllImagesRef`, `ExportOneRef`, `ExportImageRef`, `ExportNextRef`).
Each says that the action's refcount updates match the change in
`RefsIn`.

### ChunkRead_proofs

`ChunkOffsetsSafe` (Spec ⇒ □ChunkOffsetsInBounds) is proved for every value
of the constants that satisfies `ChunkAssumption`:

- any chunk size of at least 2;
- any resource size, offset and length;
- a corrupt table or not, and I/O faults or not.

It needs no fact about the table's contents, so it also covers corrupt WIMs.
The invariant alone is not inductive, because it says nothing about the
state between calls. The strengthening `LoopInv` ties the loop to its call:

- while the chunk table or the chunks are read, the call is a compressed
  read whose range lies within the resource. This comes from the assertion
  at the start of `read_wim_resource`;
- in the loop, the length is positive, `i` lies between `start_chunk` and
  `end_chunk`, and `chunk_offsets[]` has `num_needed_chunks` entries.

`ReadChunkTable` establishes the loop's part. It rests on `DivMonotone`,
which says integer division by the chunk size is monotone, so
`start_chunk <= end_chunk`. `ReadChunk` keeps it, because the loop goes on
only when `i` is not `end_chunk`. `LoopInvBounds` then derives both indices
from the definition of `num_needed_chunks`. `ReadableUsize` gives every
readable resource, corrupted or not, a natural size.

`NeverTruncates` (Spec ⇒ □NoSilentTruncation) is proved under the same
assumptions, corrupt tables and I/O faults included. Its inductive
invariant `LenInv` extends `LoopInv` with the length of `contents_ret`:

- before the loop it is empty and no error is set;
- at the top of the loop for chunk `i`, it holds `Progress(call, i)`
  elements. That is 0 at `start_chunk`, and `i * WIM_CHUNK_SIZE - offset`
  after it;
- once a call is done with 0, `len` is a natural number and it holds
  exactly `len` elements.

The property alone is not inductive, because it says nothing while the loop
runs. The proof never needs the chunk table's contents or the file layout.
Only lengths matter: an `fread` of n cells returns n cells (`CellsOfLen`),
and a `SubSeq` of the decompressed chunk has the length of its bounds
(`SubSeqOfLen`). `ReadChunkShape` reduces each loop iteration to two cases:
it fails with an error, or it appends `Partial(call, i)`
(`end_offset + 1 - start_offset`) elements. `ChunkArith` is the arithmetic
that makes the count come out right. Writing `offset = S*W + so` and
`offset + len - 1 = E*W + eo`, the partial chunks add up to the next chunk
boundary, or to `len` at `end_chunk`. The lemmas `SeqOfLenLen` and
`ConcatOfLen` cover the sequences. `IsSeqOfLen(s, n)` says that s is a
function on `1..n`. It stands in for a type on the bytes, because the
contents cannot be typed (see below).

Not proved, only model-checked:

- `BootFollowsImage` of WimImages.
- `ReadCorrect` and `TypeOK` of ChunkRead. Both need the contents of
  `FileOf`, whose chunk positions come from `ChunkStart`, a running sum over
  the chunk sizes written as a recursive function. What it yields for every
  size is induction over data. (A cell's value is an integer only if every
  running sum is one.)
- `CompressedBufferFits`, which is false (`chunk_overflow`).
- No liveness property is stated. The calls are sequential, and a caller may
  stop between them.

### FdPool_proofs

`PoolExclusive` (Spec ⇒ □Exclusive) is proved for any threads, pointers and
read bound, with or without fopen and REALLOC faults. `Exclusive` alone is
not inductive. A pointer `GetFp` opens must be new, so the proof must know
that `opened` covers every held and pooled pointer. The inductive invariant
`IInv` adds:

- the types of `fp_tab` and `fp`;
- `Held \cup Pooled \subseteq opened`.

The proof has one lemma per kind of step:

- `TakePooledInv`: taking the first full slot and clearing it;
- `OpenNewInv`: opening a pointer outside `opened`;
- `DropInv`: the REALLOC failure, where a pointer leaves both sets;
- `StoreInv`: storing into the first free slot;
- `GrowInv`: appending `<<fp[t], Null, Null, Null>>`.

`NextIInv` combines them with a case per action. `FpAccounted` does not hold
when REALLOC may fail (`fdpool_leak`), so this module does not state it.

### FdPool_refinement

This module proves, for any set of threads and pointers and any read bound:

- `TypeCorrect` (Spec ⇒ □TypeOK);
- three theorems under the hypothesis `~ReallocFails`, the setting of the
  `fdpool_safe` run:
  - `PoolAccounted` (Spec ⇒ □FpAccounted);
  - `PoolRefinement` (Spec ⇒ ImplementsFilePool);
  - `PoolBounded` (Spec ⇒ □FpsBounded), which also needs
    `IsFiniteSet(Threads)`.

The hypothesis is needed. With REALLOC failing, `wim_release_fp` drops the
pointer (resource.c:467). The `fdpool_leak` run shows that `FpAccounted`
then fails, and the pool can go on opening new pointers.

`PoolAssumption` says `Null` is neither a pointer nor a thread. The code
relies on this: `NULL` is never a `FILE *` that fopen returns, and never a
thread.

`CInv` ties each thread's program counter to what it owns:

- a thread holds a pointer exactly between `wim_get_fp`'s success and
  `wim_release_fp`;
- it holds `fp_tab_mutex` exactly inside the two bodies;
- a thread inside a call has a read left.

`RInv == IInv /\ CInv` is inductive (`InitCInv`, `NextCInv`). The lemma
`StepKinds` classifies every step into one of three kinds:

- `TakeStep`: a thread takes a pooled pointer, or opens a new one when
  none is pooled;
- `GiveStep`: a thread puts its pointer back, into a free slot or after
  growing `fp_tab` by 4;
- a step that leaves `fp_tab`, `fp` and `opened` alone.

Under the refinement mapping `free <- Pooled, held <- fp`, these three
kinds are FilePool's `Acquire`, `Release` and a stutter. The refinement is
proved step by step (`Init ⇒ Pool!Init` and
`RInv /\ [Next]_vars ⇒ [Pool!Next]_<<Pooled, fp>>`), then closed by PTL.
The set lemmas `TakePooledSets`, `StoreSets`, `GrowSets`, `HeldAdd` and
`HeldRemove` compute `Pooled` and `Held` after each kind of step.
`NextAccounted` applies them to `FpAccounted`.

`PoolBounded` adds the counting invariant `BInv`:

- the threads holding a pointer plus the pooled pointers number at most
  the threads;
- `fp_tab` has at most `|Threads| + 3` slots.

The table grows only when no slot is free, that is when every slot holds a
pooled pointer. `PooledCard`, `HeldCard` and `BusyBound` do the counting
with `FiniteSetTheorems`. `BoundsFromInv` derives `FpsBounded` from it,
because `opened` is exactly the held and pooled pointers.

`PoolLocked` (Spec ⇒ PoolChangesLocked) is the action property. It holds
for all constants, REALLOC faults included. It follows from `RInv`, because
`CInv` gives the mutex to exactly the thread inside `wim_get_fp` or
`wim_release_fp`. First `[]RInv` is derived. Then every `[Next]_vars` step
under `RInv` is shown to be a locked step, and PTL lifts that to the
behaviour.

`CallsReturn` is checked by TLC only. It is liveness under weak fairness,
and that is out of the prover's reach.

### ResourceIO_proofs

The proofs in this module hold for every chunk size, set of resource sizes,
set of locations and set of failing calls.

`TypeCorrect` (Spec ⇒ □TypeOK) and `FileClosed` (Spec ⇒ □NoFileLeak) rest
on `TInv`, which says where the loop is in the resource:

- `offset + bytes_remaining = size`;
- in a read, bytes remain;
- while full_write runs, `buf` is the resource's bytes
  `offset+1 .. offset+Len(buf)`, and no more than remain;
- NoFileLeak: `tmp_fp` is set only in the middle of `read_wim_resource`.

The types of `buf` need the chunk bound, and the chunk bound needs the
offset sum. That is why `TypeOK` alone is not inductive.

The operator lemmas are:

- `BytesAtChunk`: a read at offset `o` returns the resource's bytes
  `o+1 ..`, including past the 8-byte header of an NTFS reparse point;
- `ChunkType`;
- `ToReadBounds`: `to_read` lies in `1 .. bytes_remaining`;
- `ReadSteps`: the outcomes of a read step.

`ExtractionCorrect` (Spec ⇒ □ExtractCorrect) is proved under
`~ShortWrites`, the setting of the `resource_extract` run. Its invariant
`EInv` adds what the descriptor holds at each point of the loop:

- between chunks, it holds the first `offset` bytes, and `total = p = 0`;
- inside full_write, it holds the first `offset + total` bytes, with
  `total` either 0 or `Len(buf)`;
- `hash_bad` is set exactly when the whole resource is hashed, the data is
  corrupt, and some bytes were hashed. A corrupt resource has `usize > 0`,
  so such a resource always hashes bad.

The lemmas are:

- `DataConcat`: the first `o` bytes followed by the chunk at `o` are the
  first `o + n` bytes;
- `WholeWrite`: a complete write sends buf itself;
- `HashChunk`: what hashing a non-empty chunk does to `hash_bad`;
- one lemma per kind of step: `ReadEInv`, `WriteEInv`, `ChunkDoneEInv`,
  `LoopHashEInv`.

The hypothesis `~ShortWrites` is needed, and TLC shows this. With short
writes, and a `write()` that fails after one of them, full_write returns a
count above `n`. `extract_wim_chunk_to_fd` takes that count for success,
and `extract_wim_resource` returns 0 with garbage in the file. This is the
full_write bug of `resource_short_write`.

### NtfsApply_proofs

The proofs in this module hold for every extraction list, every set of
failing libntfs-3g calls, every `MAX_OPEN_FILES` and every
`REPARSE_DATA_MAX_SIZE`. They use one hypothesis on the lists, part of
`ApplyAssumption`. Every entry has between 1 and `MAX_OPEN_FILES` targets.
`extract_blob_list` splits a blob's targets into groups of at most
`MAX_OPEN_FILES`, and lists a blob only for the streams that refer to it.

`ErrorsAreReported` (Spec ⇒ □ErrorsReported) rests on `ReportInv`, which
says what `failed` means at each point:

- nothing has failed while a blob is being set up or written;
- at `end_blob`, something has failed exactly when the status is not 0;
- from `out_unmount` on, a failure is in `ret`.

The `EndBlob` step uses `CloseResultOk`: the result after cleanup is 0
only when the result before it was 0 and every close succeeded.

`TypeCorrect` (Spec ⇒ □TypeOK), `ContextClosed`
(Spec ⇒ □ClosedBetweenBlobs) and `InodesOpenOnce` (Spec ⇒ □InodeOpenOnce)
rest on `CtxInv`:

- no inode appears twice in `ctx->open_inodes`;
- `handles[i]` is 1 for an inode in the table and 0 for any other;
- while a blob is being begun, every open inode has `i_visited`, and only
  inodes of the blob's targets have it;
- from the first chunk to `end_blob`, no inode has `i_visited`;
- between blobs the context is empty;
- where the callbacks run, `k` and `bi` point into the list, and at
  `BeginInstance` the inode in hand is the target's.

`InodeOpenOnce` alone is not inductive. Opening an inode keeps it at one
handle only because an inode with no `i_visited` is not in the table, and
cleanup brings every count back to 0 only because `Opened(i)` counts exactly
the table's copies of `i`. The lemma `OpenedCount` states that last fact.
The other lemmas are:

- `EntryType`: the types of the entry and the target in hand;
- `ChunkLen`: a chunk has as many bytes as its listed size;
- `CleanupEmpties`: the effect of `ntfs_3g_cleanup_blob_extract`;
- `BeginFailsCtx`: begin_blob's error path, from either of its steps;
- `NextTargetCtx`;
- one lemma per step.

`ErrorsNotMasked` (Spec ⇒ ErrorNotMasked) rests on `RetInv`: `ret` stays
`"ok"` until the model reaches `umount`, since every error path of the
extraction loop goes there through the `status` that `end_blob` returns.
With it, a step keeps an error in two ways:

- `end_blob` returns `CloseResult(status, close_ok)`, which is `status`
  whenever `status` is an error, whatever the close did;
- `Umount` sets `ret` to the unmount error only when `ret` was `"ok"`.

`NextNotMasked` proves `[A]_vars` from `RetInv` and `[Next]_vars` with one
case per action, and the theorem follows by PTL.

Not proved, only model-checked:

- `BlobsIntact` and `ReparseBufBounded`. Both need the value of `SizeOf`, a
  sum over the chunk list written as a recursive function: what it
  computes for every list is induction over data.
- `FullWriteExact`, which is false (`resource_short_write`).

## 5. Plan for the rest of the system

1. **NtfsCapture** (part_003). `capture_ntfs_streams`' handling of shared
   lookup table entries, and the `sd_set` of security ids.
2. **LanguageMap** (xml_windows.c). The binary search in
   `language_id_to_name`, checked against a linear search, and the u16
   truncation of the parsed id.
3. The file-structure phase of NtfsApply (`create_directories`,
   `create_nondirectories`, DOS names), now a single step.
4. An abstract lookup-table store (a bag of references) that WimImages
   refines in the fault-free case.

## 6. Not modelled

- Compression codecs: not in the source tree.
- `unaligned.h` and `comp.h`: pure byte helpers with no state.
- `win32.h`: declarations only.
- Security-data refcounts in export: a pointer copy with `refcnt++`.
- Full paths and names as strings: only whether a name is in use matters to
  the properties.
- `copy_resource` and the writer of resources: `write_wim_resource` is
  outside `src/`.
- The `RESOURCE_WIN32` location of `read_wim_resource`: Windows only.
- The allocation and freeing of `fp_tab` (wim.c, outside `src/`): FdPool's
  `Init` takes them from the spec.
- `extract_blob_list`, which drives NtfsApply's callbacks, is outside
  `src/`: the extraction lists are taken from the spec.
