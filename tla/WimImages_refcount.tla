------------------------- MODULE WimImages_refcount -------------------------
(***************************************************************************)
(* The lookup table refcount invariant of WimImages, proved for every     *)
(* instance of the constants in which no call fails (Faults = {}).       *)
(*                                                                         *)
(* RefsIn(imgs, h) counts the pairs <<image, entry>> whose file has hash  *)
(* h.  The counting lemmas below say how that count changes when         *)
(* add_new_dentry_tree appends a tree and when wimlib_delete_image drops *)
(* one: each is a split of a finite set into two disjoint parts and a     *)
(* bijection onto one of them.  With them every call keeps               *)
(* refcnt = RefsIn, and a positive count makes every hash resolve.        *)
(***************************************************************************)
EXTENDS WimImages_proofs

\* The pairs <<image, entry>> of imgs whose file has hash h.
RefSet(imgs, h) == {p \in (1 .. Len(imgs)) \X Nodes : imgs[p[1]][p[2]] = h}

\* The entries of tree t whose file has hash h.
OccSet(t, h) == {n \in Nodes : t[n] = h}

-----------------------------------------------------------------------------
(* Counting lemmas                                                         *)

\* A bijection onto T from a finite set S gives T the size of S.
LEMMA CardBijection ==
    ASSUME NEW S, NEW T, NEW f, IsFiniteSet(S),
           f \in [S -> T],
           \A x, y \in S : f[x] = f[y] => x = y,
           \A y \in T : \E x \in S : f[x] = y
    PROVE  IsFiniteSet(T) /\ Cardinality(T) = Cardinality(S)
<1>1. f \in Bijection(S, T)
    BY DEF Bijection, Injection, Surjection, IsInjective
<1>. QED
    BY <1>1, FS_Bijection DEF ExistsBijection

\* Two disjoint finite sets: the size of their union is the sum of theirs.
LEMMA CardDisjointUnion ==
    ASSUME NEW S, NEW T, IsFiniteSet(S), IsFiniteSet(T), S \cap T = {}
    PROVE  Cardinality(S \cup T) = Cardinality(S) + Cardinality(T)
<1>1. Cardinality(S \cap T) = 0
    BY FS_EmptySet
<1>2. Cardinality(S) \in Nat /\ Cardinality(T) \in Nat
    BY FS_CardinalityType
<1>3. Cardinality(S \cup T) = Cardinality(S) + Cardinality(T) - Cardinality(S \cap T)
    BY FS_Union
<1>. QED
    BY <1>1, <1>2, <1>3

LEMMA NodesFinite == IsFiniteSet(Nodes)
BY TreeAssumption, FS_Interval DEF Nodes

LEMMA RefSetFinite ==
    ASSUME NEW imgs \in Seq(Tree), NEW h
    PROVE  IsFiniteSet(RefSet(imgs, h))
<1>1. IsFiniteSet(1 .. Len(imgs))
    BY LenProperties, FS_Interval
<1>2. IsFiniteSet((1 .. Len(imgs)) \X Nodes)
    BY <1>1, NodesFinite, FS_Product
<1>. QED
    BY <1>2, FS_Subset DEF RefSet

\* The references of image i are Occ(imgs[i], h) of the count; the rest
\* come from the other images.
LEMMA RefsSplit ==
    ASSUME NEW imgs \in Seq(Tree), NEW h, NEW i \in 1 .. Len(imgs)
    PROVE  RefsIn(imgs, h) =
               Occ(imgs[i], h) + Cardinality({p \in RefSet(imgs, h) : p[1] # i})
<1>. DEFINE A == {p \in RefSet(imgs, h) : p[1] = i}
            B == {p \in RefSet(imgs, h) : p[1] # i}
<1>1. IsFiniteSet(A) /\ IsFiniteSet(B)
    BY RefSetFinite, FS_Subset
<1>2. RefSet(imgs, h) = A \cup B /\ A \cap B = {}
    OBVIOUS
<1>3. Cardinality(A) = Occ(imgs[i], h)
    <2>. DEFINE f == [n \in OccSet(imgs[i], h) |-> <<i, n>>]
    <2>1. IsFiniteSet(OccSet(imgs[i], h))
        BY NodesFinite, FS_Subset DEF OccSet
    <2>2. f \in [OccSet(imgs[i], h) -> A]
        BY DEF OccSet, RefSet
    <2>3. \A y \in A : \E x \in OccSet(imgs[i], h) : f[x] = y
        BY DEF OccSet, RefSet
    <2>. HIDE DEF f
    <2>4. \A x, y \in OccSet(imgs[i], h) : f[x] = f[y] => x = y
        BY DEF f
    <2>. QED
        BY <2>1, <2>2, <2>3, <2>4, CardBijection DEF Occ, OccSet
<1>. HIDE DEF A, B
<1>4. Cardinality(A \cup B) = Cardinality(A) + Cardinality(B)
    BY <1>1, <1>2, CardDisjointUnion
<1>5. RefsIn(imgs, h) = Cardinality(RefSet(imgs, h))
    BY DEF RefsIn, RefSet
<1>. QED
    BY <1>2, <1>3, <1>4, <1>5 DEF B
\* An image list with no image holds no reference.
LEMMA RefsEmpty ==
    ASSUME NEW h
    PROVE  RefsIn(<< >>, h) = 0
<1>1. {p \in (1 .. Len(<< >>)) \X Nodes : << >>[p[1]][p[2]] = h} = {}
    OBVIOUS
<1>. QED
    BY <1>1, FS_EmptySet DEF RefsIn

\* add_new_dentry_tree: appending tree t adds its references to the count.
LEMMA RefsAppend ==
    ASSUME NEW imgs \in Seq(Tree), NEW t \in Tree, NEW h
    PROVE  RefsIn(Append(imgs, t), h) = RefsIn(imgs, h) + Occ(t, h)
<1>. DEFINE s == Append(imgs, t)
            n == Len(imgs)
<1>1. s \in Seq(Tree) /\ Len(s) = n + 1 /\ s[n + 1] = t
      /\ \A j \in 1 .. n : s[j] = imgs[j]
    BY AppendProperties
<1>2. n + 1 \in 1 .. Len(s)
    BY <1>1, LenProperties
<1>3. {p \in RefSet(s, h) : p[1] # n + 1} = RefSet(imgs, h)
    BY <1>1, LenProperties DEF RefSet
<1>4. RefsIn(imgs, h) = Cardinality(RefSet(imgs, h))
    BY DEF RefsIn, RefSet
<1>5. RefsIn(s, h) = Occ(s[n + 1], h) + Cardinality({p \in RefSet(s, h) : p[1] # n + 1})
    BY <1>1, <1>2, RefsSplit
<1>6. Occ(s[n + 1], h) = Occ(t, h)
    BY <1>1
<1>7. RefsIn(s, h) = Occ(t, h) + RefsIn(imgs, h)
    BY <1>3, <1>4, <1>5, <1>6
<1>. QED
    BY <1>7, NodeCardinality, RefsInNat DEF Occ

\* Image j of the list wimlib_delete_image leaves after dropping image i.
LEMMA DropImageAt ==
    ASSUME NEW S, NEW s \in Seq(S), NEW i \in 1 .. Len(s)
    PROVE  \A j \in 1 .. Len(s) - 1 :
               DropImage(s, i)[j] = IF j < i THEN s[j] ELSE s[j + 1]
<1>. DEFINE front == SubSeq(s, 1, i - 1)
            back == SubSeq(s, i + 1, Len(s))
<1>1. /\ front \in Seq(S) /\ Len(front) = i - 1
      /\ \A j \in 1 .. i - 1 : front[j] = s[j]
    BY SubSeqProperties
<1>2. /\ back \in Seq(S) /\ Len(back) = Len(s) - i
      /\ \A j \in 1 .. Len(s) - i : back[j] = s[i + j]
    BY SubSeqProperties
<1>3. \A j \in 1 .. Len(front) + Len(back) :
          (front \o back)[j] = IF j <= Len(front) THEN front[j] ELSE back[j - Len(front)]
    BY <1>1, <1>2, ConcatProperties
<1>4. DropImage(s, i) = front \o back
    BY DEF DropImage
<1>5. Len(s) \in Nat
    BY LenProperties
<1>. HIDE DEF front, back
<1>. QED
    BY <1>1, <1>2, <1>3, <1>4, <1>5

\* wimlib_delete_image: dropping image i takes exactly its references out
\* of the count; the images after it move down by one.
LEMMA RefsDrop ==
    ASSUME NEW imgs \in Seq(Tree), NEW h, NEW i \in 1 .. Len(imgs)
    PROVE  RefsIn(imgs, h) = Occ(imgs[i], h) + RefsIn(DropImage(imgs, i), h)
<1>. DEFINE D == DropImage(imgs, i)
            B == {p \in RefSet(imgs, h) : p[1] # i}
            f == [p \in RefSet(D, h) |-> IF p[1] < i THEN p ELSE <<p[1] + 1, p[2]>>]
<1>1. D \in Seq(Tree) /\ Len(D) = Len(imgs) - 1
    BY DropImageProps
<1>2. \A j \in 1 .. Len(imgs) - 1 : D[j] = IF j < i THEN imgs[j] ELSE imgs[j + 1]
    BY DropImageAt
<1>3. Len(imgs) \in Nat
    BY LenProperties
<1>. HIDE DEF f
<1>4. f \in [RefSet(D, h) -> B]
    BY <1>1, <1>2, <1>3 DEF RefSet, f
<1>5. \A x, y \in RefSet(D, h) : f[x] = f[y] => x = y
    BY <1>1, <1>3 DEF RefSet, f
<1>6. \A y \in B : \E x \in RefSet(D, h) : f[x] = y
    <2>. SUFFICES ASSUME NEW y \in B PROVE \E x \in RefSet(D, h) : f[x] = y
        OBVIOUS
    <2>1. PICK b \in 1 .. Len(imgs), m \in Nodes : y = <<b, m>> /\ imgs[b][m] = h /\ b # i
        BY DEF RefSet
    <2>2. CASE b < i
        <3>1. b \in 1 .. Len(D) /\ D[b][m] = h
            BY <1>1, <1>2, <1>3, <2>1, <2>2
        <3>2. <<b, m>> \in (1 .. Len(D)) \X Nodes
            BY <2>1, <3>1
        <3>3. <<b, m>> \in RefSet(D, h)
            BY <3>1, <3>2 DEF RefSet
        <3>4. f[<<b, m>>] = <<b, m>>
            BY <2>2, <3>3 DEF f
        <3>. QED
            BY <2>1, <3>3, <3>4
    <2>3. CASE b > i
        <3>1. b - 1 \in 1 .. Len(D) /\ ~(b - 1 < i)
            BY <1>1, <1>3, <2>1, <2>3
        <3>2. D[b - 1][m] = h
            BY <1>1, <1>2, <2>1, <3>1
        <3>3. <<b - 1, m>> \in (1 .. Len(D)) \X Nodes
            BY <2>1, <3>1
        <3>4. <<b - 1, m>> \in RefSet(D, h)
            BY <3>2, <3>3 DEF RefSet
        <3>5. f[<<b - 1, m>>] = <<b, m>>
            BY <2>1, <3>1, <3>4 DEF f
        <3>. QED
            BY <2>1, <3>4, <3>5
    <2>4. b < i \/ b > i
        BY <1>3, <2>1
    <2>. QED
        BY <2>2, <2>3, <2>4, Zenon
<1>7. IsFiniteSet(RefSet(D, h))
    BY <1>1, RefSetFinite
<1>8. Cardinality(B) = Cardinality(RefSet(D, h))
    <2>1. PICK g \in [RefSet(D, h) -> B] :
              /\ \A x, y \in RefSet(D, h) : g[x] = g[y] => x = y
              /\ \A y \in B : \E x \in RefSet(D, h) : g[x] = y
        BY <1>4, <1>5, <1>6
    <2>2. ExistsBijection(RefSet(D, h), B)
        BY <2>1 DEF ExistsBijection, Bijection, Injection, Surjection, IsInjective
    <2>. HIDE DEF B, D
    <2>. QED
        BY <1>7, <2>2, FS_Bijection
<1>9. RefsIn(D, h) = Cardinality(RefSet(D, h))
    BY DEF RefsIn, RefSet
<1>. HIDE DEF D, B
<1>10. RefsIn(imgs, h) = Occ(imgs[i], h) + Cardinality(B)
    BY RefsSplit DEF B
<1>. QED
    BY <1>8, <1>9, <1>10 DEF D

\* A hash that some image refers to has a positive count.
LEMMA RefsPositive ==
    ASSUME NEW imgs \in Seq(Tree), NEW h, NEW i \in 1 .. Len(imgs), NEW m \in Nodes,
           imgs[i][m] = h
    PROVE  RefsIn(imgs, h) > 0
<1>1. <<i, m>> \in RefSet(imgs, h)
    BY DEF RefSet
<1>2. IsFiniteSet(RefSet(imgs, h))
    BY RefSetFinite
<1>3. Cardinality(RefSet(imgs, h)) \in Nat /\ Cardinality(RefSet(imgs, h)) # 0
    BY <1>1, <1>2, FS_EmptySet, FS_CardinalityType
<1>. QED
    BY <1>3 DEF RefsIn, RefSet

\* A capture that runs to the end (no call fails) links every file it
\* interns: the tree of the new image refers to each hash as often as
\* build_dentry_tree took a reference to it.
LEMMA CaptureWhole ==
    ASSUME NEW c \in [FileNodes -> Hashes], NEW h \in Hashes
    PROVE  Occ(TreeOf(c, Done), h) = Cardinality({f \in Interned(Done) : c[f] = h})
<1>1. Stopped(Done) = {}
    BY DEF Stopped
<1>2. Linked(Done) = Nodes
    BY <1>1, TreeAssumption DEF Linked, Done, Nodes
<1>3. Interned(Done) = FileNodes
    BY TreeAssumption DEF Interned, Done, FileNodes, Nodes
<1>4. {n \in Nodes : TreeOf(c, Done)[n] = h} = {f \in FileNodes : c[f] = h}
    BY <1>2, ConstAssumption DEF TreeOf, FileNodes
<1>. QED
    BY <1>3, <1>4 DEF Occ

-----------------------------------------------------------------------------
(* Each call keeps the refcounts exact when no call fails                  *)

\* A table equal to the reference count at every hash.
Exact(t, imgs) == \A h \in Hashes : t[h] = RefsIn(imgs, h)

\* wimlib_add_image: build_dentry_tree takes one reference per file it
\* captures, and add_new_dentry_tree links them all into the new image.
LEMMA AddImageRef ==
    ASSUME Faults = {}, Inv, RefcountExact,
           NEW w \in Wims, NEW name \in Names,
           NEW c \in [FileNodes -> Hashes], NEW b \in BOOLEAN,
           AddImage(w, name, c, b)
    PROVE  RefcountExact'
<1>. DEFINE t == table[w]
<1>1. CaptureStops(t, c) = {}
    BY DEF CaptureStops
<1>2. /\ images' = [images EXCEPT ![w] = Append(@, TreeOf(c, Done))]
      /\ table' = [table EXCEPT ![w] = Built(t, c, Done)]
    BY <1>1 DEF AddImage
<1>3. Exact(Built(t, c, Done), Append(images[w], TreeOf(c, Done)))
    <2>. SUFFICES ASSUME NEW h \in Hashes
                  PROVE  Built(t, c, Done)[h] = RefsIn(Append(images[w], TreeOf(c, Done)), h)
        BY DEF Exact
    <2>1. images[w] \in Seq(Tree) /\ TreeOf(c, Done) \in Tree
        BY TreeOfType DEF Inv, TypeOK
    <2>2. RefsIn(Append(images[w], TreeOf(c, Done)), h)
              = RefsIn(images[w], h) + Occ(TreeOf(c, Done), h)
        BY <2>1, RefsAppend
    <2>3. Built(t, c, Done)[h] = t[h] + Occ(TreeOf(c, Done), h)
        BY CaptureWhole DEF Built
    <2>. QED
        BY <2>2, <2>3 DEF RefcountExact
<1>4. images \in [Wims -> Seq(Tree)] /\ table \in [Wims -> [Hashes -> Nat]]
    BY DEF Inv, TypeOK
<1>. HIDE DEF t
<1>. QED
    BY <1>2, <1>3, <1>4 DEF RefcountExact, Exact

\* wimlib_delete_image: free_dentry_tree gives back exactly the references
\* of the deleted image, so no entry it frees is still referred to.
LEMMA DeleteImageRef ==
    ASSUME Inv, RefcountExact, NEW w \in Wims, NEW i \in Nat, DeleteImage(w, i)
    PROVE  RefcountExact'
<1>. DEFINE s == images[w]
<1>1. i \in 1 .. Len(s) /\ s \in Seq(Tree)
    BY DEF DeleteImage, Inv, TypeOK
<1>2. /\ images' = [images EXCEPT ![w] = DropImage(s, i)]
      /\ table' = [table EXCEPT ![w] = Release(table[w], s[i])]
    BY DEF DeleteImage
<1>3. Exact(Release(table[w], s[i]), DropImage(s, i))
    <2>. SUFFICES ASSUME NEW h \in Hashes
                  PROVE  Release(table[w], s[i])[h] = RefsIn(DropImage(s, i), h)
        BY DEF Exact
    <2>1. table[w][h] = Occ(s[i], h) + RefsIn(DropImage(s, i), h)
        BY <1>1, RefsDrop DEF RefcountExact
    <2>2. Occ(s[i], h) \in Nat /\ RefsIn(DropImage(s, i), h) \in Nat
        BY <1>1, DropImageProps, RefsInNat, NodeCardinality DEF Occ
    <2>. QED
        BY <2>1, <2>2 DEF Release
<1>4. images \in [Wims -> Seq(Tree)] /\ table \in [Wims -> [Hashes -> Nat]]
    BY DEF Inv, TypeOK
<1>. HIDE DEF s
<1>. QED
    BY <1>2, <1>3, <1>4 DEF RefcountExact, Exact

\* wimlib_delete_image(WIM_ALL_IMAGES) gives back every reference of the
\* WIM's images, leaving its lookup table empty.
LEMMA DeleteAllImagesRef ==
    ASSUME Inv, RefcountExact, NEW w \in Wims, DeleteAllImages(w)
    PROVE  RefcountExact'
<1>1. \A h \in Hashes : RefsIn(<< >>, h) = 0
    BY RefsEmpty
<1>2. images \in [Wims -> Seq(Tree)] /\ table \in [Wims -> [Hashes -> Nat]]
    BY DEF Inv, TypeOK
<1>. QED
    BY <1>1, <1>2 DEF DeleteAllImages, RefcountExact

\* wimlib_export_image of one image: add_lookup_table_entry_to_dest_wim
\* takes one reference in dest per file dentry of the image, since every
\* hash of a source image resolves in the source table, and the image is
\* appended to dest (src = dest included).
LEMMA ExportOneRef ==
    ASSUME Faults = {}, Inv, RefcountExact,
           NEW src \in Wims, NEW dest \in Wims,
           NEW i \in 1 .. Len(images[src]),
           NEW name, NEW bootFlag, NEW ok,
           ExportOne(src, i, dest, name, bootFlag, ok)
    PROVE  RefcountExact'
<1>. DEFINE tr == images[src][i]
            InSrc(m) == tr[m] # Absent /\ table[src][tr[m]] > 0
            DestT(j) == [h \in Hashes |->
                           table[dest][h] + Cardinality({m \in Nodes : m < j /\ InSrc(m) /\ tr[m] = h})]
<1>1. images \in [Wims -> Seq(Tree)] /\ table \in [Wims -> [Hashes -> Nat]]
      /\ tr \in Tree
    BY ElementOfSeq DEF Inv, TypeOK
<1>2. CASE name \in ImageNames(xml[dest])
    <2>1. UNCHANGED <<images, table>>
        BY <1>2 DEF ExportOne
    <2>. QED
        BY <2>1 DEF RefcountExact
<1>3. CASE name \notin ImageNames(xml[dest])
    <2>1. /\ table' = [table EXCEPT ![dest] = DestT(Done)]
          /\ images' = [images EXCEPT ![dest] = Append(@, tr)]
        BY <1>3 DEF ExportOne
    <2>2. Exact(DestT(Done), Append(images[dest], tr))
        <3>. SUFFICES ASSUME NEW h \in Hashes
                      PROVE  DestT(Done)[h] = RefsIn(Append(images[dest], tr), h)
            BY DEF Exact
        <3>1. {m \in Nodes : m < Done /\ InSrc(m) /\ tr[m] = h} = OccSet(tr, h)
            <4>1. ASSUME NEW m \in Nodes, tr[m] = h
                  PROVE  table[src][h] > 0
                <5>1. RefsIn(images[src], h) > 0
                    BY <1>1, <4>1, RefsPositive
                <5>. QED
                    BY <5>1 DEF RefcountExact
            <4>. QED
                BY <4>1, ConstAssumption, TreeAssumption DEF OccSet, Done, Nodes
        <3>2. DestT(Done)[h] = table[dest][h] + Occ(tr, h)
            BY <3>1 DEF Occ, OccSet
        <3>3. RefsIn(Append(images[dest], tr), h) = RefsIn(images[dest], h) + Occ(tr, h)
            BY <1>1, RefsAppend
        <3>. QED
            BY <3>2, <3>3 DEF RefcountExact
    <2>. HIDE DEF DestT, tr
    <2>. QED
        BY <1>1, <2>1, <2>2 DEF RefcountExact, Exact
<1>. QED
    BY <1>2, <1>3

\* wimlib_export_image: starting the loop of a multi-image export changes
\* no table; a single-image export is ExportOne.
LEMMA ExportImageRef ==
    ASSUME Faults = {}, Inv, RefcountExact,
           NEW src \in Wims, NEW s, NEW dest \in Wims, NEW name, NEW desc, NEW b,
           ExportImage(src, s, dest, name, desc, b)
    PROVE  RefcountExact'
<1>1. CASE s = WIM_ALL_IMAGES /\ Len(images[src]) > 1
    <2>1. UNCHANGED <<images, table>>
        BY <1>1 DEF ExportImage
    <2>. QED
        BY <2>1 DEF RefcountExact
<1>2. CASE ~(s = WIM_ALL_IMAGES /\ Len(images[src]) > 1)
    <2>. DEFINE i == IF s = WIM_ALL_IMAGES THEN 1 ELSE s
    <2>1. /\ i \in 1 .. Len(images[src])
          /\ \E ok \in BOOLEAN :
               ExportOne(src, i, dest, IF name = Null THEN SrcName(src, i) ELSE name, b, ok)
        BY <1>2 DEF ExportImage
    <2>. QED
        BY <2>1, ExportOneRef
<1>. QED
    BY <1>1, <1>2

\* One iteration of the loop of a multi-image export.
LEMMA ExportNextRef ==
    ASSUME Faults = {}, Inv, RefcountExact, ExportNext
    PROVE  RefcountExact'
<1>1. exp \in ExportLoop
    BY DEF ExportNext, Inv, TypeOK
<1>2. CASE exp.i > Len(images[exp.src])
    <2>1. UNCHANGED <<images, table>>
        BY <1>2 DEF ExportNext
    <2>. QED
        BY <2>1 DEF RefcountExact
<1>3. CASE ~(exp.i > Len(images[exp.src]))
    <2>1. /\ exp.src \in Wims /\ exp.dest \in Wims
          /\ exp.i \in 1 .. Len(images[exp.src])
        BY <1>1, <1>3, LenProperties DEF ExportLoop, Inv, TypeOK
    <2>2. \E ok \in BOOLEAN :
              ExportOne(exp.src, exp.i, exp.dest, SrcName(exp.src, exp.i),
                        exp.flag /\ exp.i = exp.bootIdx, ok)
        BY <1>3 DEF ExportNext
    <2>. QED
        BY <2>1, <2>2, ExportOneRef
<1>. QED
    BY <1>2, <1>3

\* With no failing call, every call keeps the refcounts exact.
LEMMA NextRef ==
    ASSUME Faults = {}
    PROVE  Inv /\ RefcountExact /\ [Next]_vars => RefcountExact'
<1>. SUFFICES ASSUME Inv, RefcountExact, [Next]_vars PROVE RefcountExact'
    OBVIOUS
<1>1. CASE \E w \in Wims, name \in Names, c \in [FileNodes -> Hashes], b \in BOOLEAN :
              AddImage(w, name, c, b)
    BY <1>1, AddImageRef
<1>2. CASE \E w \in Wims, i \in 1 .. MaxImages : DeleteImage(w, i)
    BY <1>2, DeleteImageRef
<1>3. CASE \E w \in Wims : DeleteAllImages(w)
    BY <1>3, DeleteAllImagesRef
<1>4. CASE \E src, dest \in Wims, s \in (1 .. MaxImages) \cup {WIM_ALL_IMAGES},
              name \in Names \cup {Null}, desc, b \in BOOLEAN :
              ExportImage(src, s, dest, name, desc, b)
    BY <1>4, ExportImageRef
<1>5. CASE ExportNext
    BY <1>5, ExportNextRef
<1>6. CASE UNCHANGED vars
    BY <1>6 DEF vars, RefcountExact
<1>. QED
    BY <1>1, <1>2, <1>3, <1>4, <1>5, <1>6 DEF Next

-----------------------------------------------------------------------------
(* The theorems                                                            *)

\* The refcounts and the image references together form the inductive
\* invariant: RefcountExact alone says nothing of the types its counts need.
RInv == Inv /\ RefcountExact

LEMMA InitRInv == Init => RInv
<1>. SUFFICES ASSUME Init PROVE RInv
    OBVIOUS
<1>1. \A h \in Hashes : RefsIn(<< >>, h) = 0
    BY RefsEmpty
<1>. QED
    BY <1>1, InitInv DEF Init, RInv, RefcountExact

LEMMA NextRInv ==
    ASSUME Faults = {}
    PROVE  RInv /\ [Next]_vars => RInv'
BY NextInv, NextRef DEF RInv

\* When no call fails, after any sequence of wimlib_add_image,
\* wimlib_delete_image and wimlib_export_image calls (single images, all
\* images, src = dest), the refcnt of every lookup table entry of every WIM
\* is exactly the number of file dentries of its images with that hash,
\* for any number of WIMs, images, hashes and any captured tree.
THEOREM RefcountsStayExact ==
    ASSUME Faults = {}
    PROVE  Spec => []RefcountExact
<1>1. RInv => RefcountExact
    BY DEF RInv
<1>. QED
    BY <1>1, InitRInv, NextRInv, PTL DEF Spec

\* When no call fails, no image ever keeps a hash whose lookup table entry
\* free_dentry_tree has freed: every file dentry resolves.
THEOREM StreamsAlwaysResolve ==
    ASSUME Faults = {}
    PROVE  Spec => []StreamsResolve
<1>1. RInv => StreamsResolve
    <2>. SUFFICES ASSUME RInv, NEW w \in Wims, NEW i \in 1 .. Len(images[w]), NEW m \in Nodes,
                         images[w][i][m] # Absent
                  PROVE  table[w][images[w][i][m]] > 0
        BY DEF StreamsResolve
    <2>1. images[w] \in Seq(Tree)
        BY DEF RInv, Inv, TypeOK
    <2>2. images[w][i][m] \in Hashes
        BY <2>1, ElementOfSeq DEF Tree
    <2>3. RefsIn(images[w], images[w][i][m]) > 0
        BY <2>1, RefsPositive
    <2>. QED
        BY <2>2, <2>3 DEF RInv, RefcountExact
<1>. QED
    BY <1>1, InitRInv, NextRInv, PTL DEF Spec

====
