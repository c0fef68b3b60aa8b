----------------------------- MODULE WimImages -----------------------------
(***************************************************************************)
(* Image-level operations on WIM files and their lookup (blob) tables, as *)
(* implemented in modify.c (src/unnamed/part_002): wimlib_add_image with  *)
(* its capture build_dentry_tree, wimlib_delete_image and                  *)
(* wimlib_export_image with add_lookup_table_entry_to_dest_wim and        *)
(* add_new_dentry_tree.                                                    *)
(*                                                                         *)
(* Data abstraction.  A dentry tree is kept as the function from the      *)
(* entries of the captured directory (numbered in the preorder in which   *)
(* build_dentry_tree visits them) to the SHA-1 of the file found there,   *)
(* or Absent for directories and for entries not linked into the tree.   *)
(* A lookup table is the function from SHA-1 to the refcnt of its entry, *)
(* 0 standing for "no entry": lookup_table_insert always inserts with     *)
(* refcnt 1 and free_dentry_tree removes an entry whose refcnt reaches 0. *)
(* The XML document of a WIM is the sequence of its image names.          *)
(***************************************************************************)
EXTENDS Integers, Sequences, FiniteSets

CONSTANTS
    Wims,       \* the WIMStructs a caller holds
    Names,      \* image names a caller may pass
    Hashes,     \* SHA-1 message digests of file contents
    NodeCount,  \* number of entries below the captured directory
    Parent,     \* Parent[n]: the directory holding entry n (0: the captured one)
    DirNodes,   \* the entries that are directories
    Faults,     \* failures the environment may cause: "io", "nomem"
    MaxImages,  \* bound on the image count of a WIM
    Null,       \* a NULL name argument
    Absent      \* no file at this entry of a tree

Nodes == 1 .. NodeCount
FileNodes == Nodes \ DirNodes

\* The directories above entry n, up to and including the captured one (0).
Anc[n \in 0 .. NodeCount] ==
    IF n = 0 THEN {} ELSE {Parent[n]} \cup Anc[Parent[n]]

ASSUME TreeAssumption ==
    /\ NodeCount \in Nat
    /\ DirNodes \subseteq Nodes
    /\ Parent \in [Nodes -> 0 .. NodeCount]
    /\ \A n \in Nodes : /\ Parent[n] < n
                        /\ Parent[n] \in DirNodes \cup {0}
                        \* preorder: n follows its parent's previous child's subtree
                        /\ Parent[n] \in {n - 1} \cup Anc[n - 1]

ASSUME ConstAssumption ==
    /\ MaxImages \in Nat
    /\ Faults \subseteq {"io", "nomem"}
    /\ Null \notin Names
    /\ Absent \notin Hashes

Tree == [Nodes -> Hashes \cup {Absent}]

\* The image argument that selects every image (wimlib.h).
WIM_ALL_IMAGES == -1

\* wimlib_export_image(WIM_ALL_IMAGES) in progress, or NoExport.
ExportLoop == [src : Wims, dest : Wims, i : Nat \ {0}, bootIdx : Nat, flag : BOOLEAN]
NoExport == [src |-> Null, dest |-> Null, i |-> 0, bootIdx |-> 0, flag |-> FALSE]

VARIABLES
    images,  \* images[w]: w->image_metadata, the dentry tree of each image
    xml,     \* xml[w]: the image names of w->wim_info
    table,   \* table[w]: w->lookup_table, SHA-1 -> refcnt (0 = no entry)
    boot,    \* boot[w]: w->hdr.boot_idx (0 = none)
    cur,     \* cur[w]: w->current_image (0 = WIM_NO_IMAGE)
    exp      \* the loop of a multi-image export, or NoExport

vars == <<images, xml, table, boot, cur, exp>>

-----------------------------------------------------------------------------
(* Helpers                                                                 *)

\* Number of entries of tree t holding a file with hash h.
Occ(t, h) == Cardinality({n \in Nodes : t[n] = h})

\* Number of references to h from the dentry trees of a sequence of images.
RefsIn(imgs, h) ==
    Cardinality({p \in (1 .. Len(imgs)) \X Nodes : imgs[p[1]][p[2]] = h})

ImageNames(s) == {s[i] : i \in 1 .. Len(s)}

DropImage(s, i) == SubSeq(s, 1, i - 1) \o SubSeq(s, i + 1, Len(s))

\* A capture or export that does not stop early.
Done == NodeCount + 1

\* The entry whose failure stopped a capture, and the directories above it:
\* their build_dentry_tree calls return an error, so none of them is linked.
Stopped(k) == IF k = Done THEN {} ELSE ({k} \cup Anc[k]) \ {0}

\* Files a capture stopped at k has hashed and entered in the lookup table.
Interned(k) == {f \in FileNodes : f < k}

\* Entries a capture stopped at k has linked into the tree of the root:
\* every directory between them and the root returned successfully.
Linked(k) == {n \in Nodes : n < k /\ (({n} \cup Anc[n]) \cap Stopped(k)) = {}}

\* The lookup table t after build_dentry_tree, stopped at k, has interned
\* the files of contents c (lookup_resource; refcnt++ or a new entry).
Built(t, c, k) ==
    [h \in Hashes |-> t[h] + Cardinality({f \in Interned(k) : c[f] = h})]

\* The dentry tree of the root after a capture stopped at k.
TreeOf(c, k) ==
    [n \in Nodes |-> IF n \in FileNodes /\ n \in Linked(k) THEN c[n] ELSE Absent]

\* Where a capture of contents c into table t may stop: a failed stat,
\* opendir or sha1sum anywhere; a failed STRDUP or new_lookup_table_entry
\* at a file whose hash has no entry yet.
CaptureStops(t, c) ==
    (IF "io" \in Faults THEN Nodes ELSE {})
    \cup (IF "nomem" \in Faults
            THEN {f \in FileNodes : Built(t, c, f)[c[f]] = 0} ELSE {})

ReleaseUnsaturated(t, tr) == [h \in Hashes |-> t[h] - Occ(tr, h)]
ReleaseOncePerBlob(t, tr) ==
    [h \in Hashes |-> IF Occ(tr, h) > 0 THEN 0 ELSE t[h]]

\* free_dentry_tree(root, lookup_table, true): each file dentry decrements
\* the entry of its hash, and the entry is freed when refcnt reaches 0.
Release(t, tr) ==
    [h \in Hashes |-> IF t[h] > Occ(tr, h) THEN t[h] - Occ(tr, h) ELSE 0]

BootAfterDeleteAlwaysShift(b, i) == IF b = i THEN 0 ELSE b - 1
BootAfterDeleteNoDecrement(b, i) == IF b = i THEN 0 ELSE b
BootAfterDeleteNoReset(b, i) == IF b > i THEN b - 1 ELSE b

\* The boot index after image i is deleted.
BootAfterDelete(b, i) ==
    IF b = i THEN 0 ELSE IF b > i THEN b - 1 ELSE b

-----------------------------------------------------------------------------
Init ==
    /\ images = [w \in Wims |-> << >>]
    /\ xml = [w \in Wims |-> << >>]
    /\ table = [w \in Wims |-> [h \in Hashes |-> 0]]
    /\ boot = [w \in Wims |-> 0]
    /\ cur = [w \in Wims |-> 0]
    /\ exp = NoExport

Idle == exp = NoExport

(***************************************************************************)
(* wimlib_add_image(w, dir, name, ...) capturing a directory whose files  *)
(* have contents c.  Calls that fail before build_dentry_tree (NULL or    *)
(* empty name, name in use, stat of dir) change nothing and are left out; *)
(* so is a NOMEM of calculate_dentry_full_path or add_new_dentry_tree,    *)
(* whose err1 path releases exactly what the capture interned.            *)
(***************************************************************************)
AddImage(w, name, c, bootFlag) ==
    LET t == table[w]
        n == Len(images[w]) + 1
    IN
    /\ Idle
    /\ name \notin ImageNames(xml[w])
    /\ \/ \* build_dentry_tree fails at k: err1 frees the linked tree only
          \E k \in CaptureStops(t, c) :
             /\ table' = [table EXCEPT ![w] = Release(Built(t, c, k), TreeOf(c, k))]
             /\ UNCHANGED <<images, xml, boot, cur>>
       \/ \* add_new_dentry_tree appends and selects the image; then
          \* wimlib_set_boot_idx and xml_add_image
          /\ Len(images[w]) < MaxImages
          /\ images' = [images EXCEPT ![w] = Append(@, TreeOf(c, Done))]
          /\ cur' = [cur EXCEPT ![w] = n]
          /\ boot' = IF bootFlag THEN [boot EXCEPT ![w] = n] ELSE boot
          /\ \/ /\ xml' = [xml EXCEPT ![w] = Append(@, name)]
                /\ table' = [table EXCEPT ![w] = Built(t, c, Done)]
             \/ \* xml_add_image fails: err1 frees the tree of the new image
                /\ "nomem" \in Faults
                /\ table' = [table EXCEPT ![w] =
                               Release(Built(t, c, Done), TreeOf(c, Done))]
                /\ UNCHANGED xml
    /\ UNCHANGED exp

(***************************************************************************)
(* wimlib_delete_image(w, i) for an image i of w.                          *)
(***************************************************************************)
DeleteImage(w, i) ==
    /\ Idle
    /\ i \in 1 .. Len(images[w])
    /\ table' = [table EXCEPT ![w] = Release(@, images[w][i])]
    /\ images' = [images EXCEPT ![w] = DropImage(@, i)]
    /\ xml' = IF i <= Len(xml[w]) THEN [xml EXCEPT ![w] = DropImage(@, i)] ELSE xml
    /\ boot' = [boot EXCEPT ![w] = BootAfterDelete(@, i)]
    /\ cur' = [cur EXCEPT ![w] = 0]
    /\ UNCHANGED exp

\* wimlib_delete_image(w, WIM_ALL_IMAGES): image 1, as many times as w has
\* images.  No call fails: every image of the model is in memory.
DeleteAllImages(w) ==
    /\ Idle
    /\ images[w] # << >>
    /\ table' = [table EXCEPT ![w] =
                   [h \in Hashes |-> IF @[h] > RefsIn(images[w], h)
                                       THEN @[h] - RefsIn(images[w], h) ELSE 0]]
    /\ images' = [images EXCEPT ![w] = << >>]
    /\ xml' = [xml EXCEPT ![w] = << >>]
    /\ boot' = [boot EXCEPT ![w] = 0]
    /\ cur' = [cur EXCEPT ![w] = 0]
    /\ UNCHANGED exp

(***************************************************************************)
(* wimlib_export_image of the single image i of src into dest under name  *)
(* (after wimlib_select_image(src, i) succeeded).  ok is whether the call *)
(* returns 0; nexp is the loop state after the call.                      *)
(***************************************************************************)
ExportOne(src, i, dest, name, bootFlag, ok) ==
    LET tr == images[src][i]
        n == Len(images[dest]) + 1
        \* wim_lookup_resource(src_wim, dentry) finds an entry
        InSrc(m) == tr[m] # Absent /\ table[src][tr[m]] > 0
        \* add_lookup_table_entry_to_dest_wim over the entries before j
        DestT(j) == [h \in Hashes |->
                        table[dest][h] + Cardinality({m \in Nodes : m < j /\ InSrc(m) /\ tr[m] = h})]
        \* entries where new_lookup_table_entry may return NULL
        Stops == IF "nomem" \in Faults
                   THEN {m \in Nodes : InSrc(m) /\ DestT(m)[tr[m]] = 0} ELSE {}
    IN
    \/ \* wimlib_image_name_in_use(dest_wim, dest_name)
       /\ name \in ImageNames(xml[dest])
       /\ ~ok
       /\ cur' = [cur EXCEPT ![src] = i]
       /\ UNCHANGED <<images, xml, table, boot>>
    \/ /\ name \notin ImageNames(xml[dest])
       \* the NOMEM of the tree walk is ignored: for_dentry_in_tree's result is dropped
       /\ \E j \in Stops \cup {Done} :
            table' = [table EXCEPT ![dest] = DestT(j)]
       /\ \/ \* add_new_dentry_tree fails
             /\ "nomem" \in Faults
             /\ ~ok
             /\ cur' = [cur EXCEPT ![src] = i]
             /\ UNCHANGED <<images, xml, boot>>
          \/ /\ Len(images[dest]) < MaxImages
             /\ images' = [images EXCEPT ![dest] = Append(@, tr)]
             /\ cur' = [[cur EXCEPT ![src] = i] EXCEPT ![dest] = n]
             /\ boot' = IF bootFlag THEN [boot EXCEPT ![dest] = n] ELSE boot
             /\ \/ \* xml_export_image
                   /\ ok /\ name # Null
                   /\ xml' = [xml EXCEPT ![dest] = Append(@, name)]
                \/ /\ ~ok /\ ("nomem" \in Faults \/ name = Null)
                   /\ UNCHANGED xml

\* wimlib_get_image_name(src_wim, i), NULL if i has no XML entry.
SrcName(src, i) == IF i <= Len(xml[src]) THEN xml[src][i] ELSE Null

(***************************************************************************)
(* wimlib_export_image(src, srcImage, dest, name, desc, flags).  A call   *)
(* with WIM_ALL_IMAGES on a WIM of several images only starts the loop   *)
(* (its argument checks failing change nothing); ExportNext runs it.      *)
(***************************************************************************)
ExportImage(src, srcImage, dest, name, desc, bootFlag) ==
    /\ Idle
    /\ IF srcImage = WIM_ALL_IMAGES /\ Len(images[src]) > 1
         THEN /\ ~(bootFlag /\ boot[src] = 0)
              /\ name = Null /\ ~desc
              /\ exp' = [src |-> src, dest |-> dest, i |-> 1,
                         bootIdx |-> IF bootFlag THEN boot[src] ELSE 0,
                         flag |-> bootFlag]
              /\ UNCHANGED <<images, xml, table, boot, cur>>
         ELSE LET i == IF srcImage = WIM_ALL_IMAGES THEN 1 ELSE srcImage
              IN /\ i \in 1 .. Len(images[src])
                 /\ \E ok \in BOOLEAN :
                       ExportOne(src, i, dest,
                                 IF name = Null THEN SrcName(src, i) ELSE name,
                                 bootFlag, ok)
                 /\ UNCHANGED exp

\* One iteration of the loop of a multi-image export: export image i with
\* the boot flag kept only for the source's boot image; stop at an error.
ExportNext ==
    /\ exp # NoExport
    /\ IF exp.i > Len(images[exp.src])
         THEN /\ exp' = NoExport
              /\ UNCHANGED <<images, xml, table, boot, cur>>
         ELSE \E ok \in BOOLEAN :
                 /\ ExportOne(exp.src, exp.i, exp.dest, SrcName(exp.src, exp.i),
                              exp.flag /\ exp.i = exp.bootIdx, ok)
                 /\ exp' = IF ok THEN [exp EXCEPT !.i = @ + 1] ELSE NoExport

Next ==
    \/ \E w \in Wims, name \in Names, c \in [FileNodes -> Hashes], b \in BOOLEAN :
          AddImage(w, name, c, b)
    \/ \E w \in Wims, i \in 1 .. MaxImages : DeleteImage(w, i)
    \/ \E w \in Wims : DeleteAllImages(w)
    \/ \E src, dest \in Wims, s \in (1 .. MaxImages) \cup {WIM_ALL_IMAGES},
          name \in Names \cup {Null}, desc, b \in BOOLEAN :
          ExportImage(src, s, dest, name, desc, b)
    \/ ExportNext

Spec == Init /\ [][Next]_vars

-----------------------------------------------------------------------------
(* Properties                                                              *)

TypeOK ==
    /\ images \in [Wims -> Seq(Tree)]
    /\ xml \in [Wims -> Seq(Names)]
    /\ table \in [Wims -> [Hashes -> Nat]]
    /\ boot \in [Wims -> Nat]
    /\ cur \in [Wims -> Nat]
    /\ exp \in ExportLoop \cup {NoExport}

\* The boot index and the current image of every WIM name one of its
\* images or none (after deletions renumber the images, and after a failed
\* xml_add_image or xml_export_image left an image without XML entry).
IndicesValid ==
    \A w \in Wims :
        /\ boot[w] \in 0 .. Len(images[w])
        /\ cur[w] \in 0 .. Len(images[w])
        /\ Len(xml[w]) <= Len(images[w])

\* The spec's refcount invariant: after any sequence of add, delete and
\* export calls, the refcnt of every lookup table entry is the number of
\* file dentries of the WIM's images whose hash it is (build_dentry_tree,
\* add_lookup_table_entry_to_dest_wim, free_dentry_tree).
RefcountExact ==
    \A w \in Wims, h \in Hashes : table[w][h] = RefsIn(images[w], h)

\* Every file dentry of every image resolves to a lookup table entry of its
\* WIM: no image keeps a hash whose entry free_dentry_tree has freed.
StreamsResolve ==
    \A w \in Wims : \A i \in 1 .. Len(images[w]), m \in Nodes :
        images[w][i][m] # Absent => table[w][images[w][i][m]] > 0

\* The boot index follows its image: when images are deleted or exported
\* the boot index keeps naming the same image, it becomes 0 only when that
\* image is deleted, and it moves only to a newly added image.
BootFollowsImage ==
    [][\A w \in Wims :
         /\ boot'[w] # 0 =>
               \/ boot'[w] = Len(images'[w]) /\ Len(images'[w]) > Len(images[w])
               \/ /\ boot[w] \in DOMAIN xml[w]
                  /\ boot'[w] \in DOMAIN xml'[w]
                  /\ xml'[w][boot'[w]] = xml[w][boot[w]]
         /\ boot[w] # 0 /\ boot'[w] = 0 =>
               /\ boot[w] \in DOMAIN xml[w]
               /\ xml[w][boot[w]] \notin ImageNames(xml'[w])
      ]_vars

=============================================================================
