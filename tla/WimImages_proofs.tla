-------------------------- MODULE WimImages_proofs --------------------------
(***************************************************************************)
(* Proofs about WimImages for every instance of its constants: the type   *)
(* invariant, and that the boot index, the current image and the XML     *)
(* image list stay within the image count through every add, delete and *)
(* export call, whatever fails.                                           *)
(***************************************************************************)
EXTENDS WimImages, FiniteSetTheorems, SequenceTheorems, TLAPS

-----------------------------------------------------------------------------
(* Lemmas about the helpers                                                *)

\* Every count the model takes of a set of tree entries is a natural.
LEMMA NodeCardinality ==
    ASSUME NEW T \in SUBSET Nodes
    PROVE  Cardinality(T) \in Nat
<1>1. IsFiniteSet(Nodes)
    BY TreeAssumption, FS_Interval DEF Nodes
<1>. QED
    BY <1>1, FS_Subset, FS_CardinalityType

\* The number of references to a hash in a sequence of trees is a natural.
LEMMA RefsInNat ==
    ASSUME NEW imgs \in Seq(Tree), NEW h
    PROVE  RefsIn(imgs, h) \in Nat
<1>1. IsFiniteSet(1 .. Len(imgs))
    BY LenProperties, FS_Interval
<1>2. IsFiniteSet(Nodes)
    BY TreeAssumption, FS_Interval DEF Nodes
<1>3. IsFiniteSet((1 .. Len(imgs)) \X Nodes)
    BY <1>1, <1>2, FS_Product
<1>. QED
    BY <1>3, FS_Subset, FS_CardinalityType DEF RefsIn

\* Releasing a tree leaves a lookup table of naturals (free_dentry_tree
\* never drives a refcnt below 0).
LEMMA ReleaseType ==
    ASSUME NEW t \in [Hashes -> Nat], NEW tr \in Tree
    PROVE  Release(t, tr) \in [Hashes -> Nat]
<1>. \A h \in Hashes : Occ(tr, h) \in Nat
    BY NodeCardinality DEF Occ
<1>. QED
    BY DEF Release

\* Interning the files of a capture leaves a lookup table of naturals.
LEMMA BuiltType ==
    ASSUME NEW t \in [Hashes -> Nat], NEW c, NEW k
    PROVE  Built(t, c, k) \in [Hashes -> Nat]
<1>. \A h \in Hashes : Cardinality({f \in Interned(k) : c[f] = h}) \in Nat
    BY NodeCardinality DEF Interned, FileNodes
<1>. QED
    BY DEF Built

\* The tree a capture builds is a tree.
LEMMA TreeOfType ==
    ASSUME NEW c \in [FileNodes -> Hashes], NEW k
    PROVE  TreeOf(c, k) \in Tree
BY DEF TreeOf, Tree

\* Removing image i from a sequence: what wimlib_delete_image does to the
\* image metadata array and xml_delete_image to the XML image list.
LEMMA DropImageProps ==
    ASSUME NEW S, NEW s \in Seq(S), NEW i \in 1 .. Len(s)
    PROVE  /\ DropImage(s, i) \in Seq(S)
           /\ Len(DropImage(s, i)) = Len(s) - 1
<1>. DEFINE front == SubSeq(s, 1, i - 1)
            back == SubSeq(s, i + 1, Len(s))
<1>1. front \in Seq(S) /\ Len(front) = i - 1
    BY SubSeqProperties
<1>2. back \in Seq(S) /\ Len(back) = Len(s) - i
    BY SubSeqProperties
<1>3. front \o back \in Seq(S) /\ Len(front \o back) = Len(front) + Len(back)
    BY <1>1, <1>2, ConcatProperties
<1>4. DropImage(s, i) = front \o back
    BY DEF DropImage
<1>. HIDE DEF front, back
<1>5. Len(front) + Len(back) = Len(s) - 1
    BY <1>1, <1>2
<1>. QED
    BY <1>3, <1>4, <1>5, Zenon

-----------------------------------------------------------------------------
(* The invariant                                                           *)

\* What every reachable state satisfies and the induction needs: the types
\* of the variables and the bounds on the indices.
Inv == TypeOK /\ IndicesValid

\* The variables other than exp keep their types and bounds through one
\* call exporting image i of src into dest (wimlib_export_image after
\* wimlib_select_image succeeded), whether it succeeds or fails.
LEMMA ExportOneInv ==
    ASSUME Inv,
           NEW src \in Wims, NEW dest \in Wims,
           NEW i \in 1 .. Len(images[src]),
           NEW name \in Names \cup {Null}, NEW bootFlag \in BOOLEAN, NEW ok,
           ExportOne(src, i, dest, name, bootFlag, ok)
    PROVE  /\ images' \in [Wims -> Seq(Tree)]
           /\ xml' \in [Wims -> Seq(Names)]
           /\ table' \in [Wims -> [Hashes -> Nat]]
           /\ boot' \in [Wims -> Nat]
           /\ cur' \in [Wims -> Nat]
           /\ IndicesValid'
<1>. DEFINE tr == images[src][i]
            n == Len(images[dest]) + 1
            InSrc(m) == tr[m] # Absent /\ table[src][tr[m]] > 0
            DestT(j) == [h \in Hashes |->
                           table[dest][h] + Cardinality({m \in Nodes : m < j /\ InSrc(m) /\ tr[m] = h})]
<1>1. tr \in Tree
    BY DEF Inv, TypeOK
<1>2. \A j : DestT(j) \in [Hashes -> Nat]
    <2>. SUFFICES ASSUME NEW j, NEW h \in Hashes
                  PROVE  DestT(j)[h] \in Nat
        OBVIOUS
    <2>1. Cardinality({m \in Nodes : m < j /\ InSrc(m) /\ tr[m] = h}) \in Nat
        BY NodeCardinality
    <2>. QED
        BY <2>1 DEF Inv, TypeOK
<1>3. CASE name \in ImageNames(xml[dest])
    <2>1. cur' = [cur EXCEPT ![src] = i] /\ UNCHANGED <<images, xml, table, boot>>
        BY <1>3 DEF ExportOne
    <2>. QED
        BY <2>1 DEF Inv, TypeOK, IndicesValid
<1>4. CASE name \notin ImageNames(xml[dest])
    <2>0. /\ \E j : table' = [table EXCEPT ![dest] = DestT(j)]
          /\ \/ /\ "nomem" \in Faults
                /\ ~ok
                /\ cur' = [cur EXCEPT ![src] = i]
                /\ UNCHANGED <<images, xml, boot>>
             \/ /\ Len(images[dest]) < MaxImages
                /\ images' = [images EXCEPT ![dest] = Append(@, tr)]
                /\ cur' = [[cur EXCEPT ![src] = i] EXCEPT ![dest] = n]
                /\ boot' = IF bootFlag THEN [boot EXCEPT ![dest] = n] ELSE boot
                /\ \/ ok /\ name # Null /\ xml' = [xml EXCEPT ![dest] = Append(@, name)]
                   \/ UNCHANGED xml
        BY <1>4 DEF ExportOne
    <2>1. table' \in [Wims -> [Hashes -> Nat]]
        <3>1. PICK j : table' = [table EXCEPT ![dest] = DestT(j)]
            BY <2>0
        <3>2. DestT(j) \in [Hashes -> Nat]
            BY <1>2
        <3>. HIDE DEF DestT
        <3>. QED
            BY <3>1, <3>2 DEF Inv, TypeOK
    <2>2. CASE /\ "nomem" \in Faults
               /\ ~ok
               /\ cur' = [cur EXCEPT ![src] = i]
               /\ UNCHANGED <<images, xml, boot>>
        BY <2>1, <2>2 DEF Inv, TypeOK, IndicesValid
    <2>3. CASE /\ Len(images[dest]) < MaxImages
               /\ images' = [images EXCEPT ![dest] = Append(@, tr)]
               /\ cur' = [[cur EXCEPT ![src] = i] EXCEPT ![dest] = n]
               /\ boot' = IF bootFlag THEN [boot EXCEPT ![dest] = n] ELSE boot
               /\ \/ ok /\ name # Null /\ xml' = [xml EXCEPT ![dest] = Append(@, name)]
                  \/ UNCHANGED xml
        <3>1. Append(images[dest], tr) \in Seq(Tree)
              /\ Len(Append(images[dest], tr)) = n
            BY <1>1, AppendProperties DEF Inv, TypeOK
        <3>2. images' \in [Wims -> Seq(Tree)]
              /\ \A w \in Wims : Len(images'[w]) = IF w = dest THEN n ELSE Len(images[w])
            BY <2>3, <3>1 DEF Inv, TypeOK
        <3>3. xml' \in [Wims -> Seq(Names)]
              /\ \A w \in Wims : Len(xml'[w]) <= Len(images'[w])
            <4>1. CASE ok /\ name # Null /\ xml' = [xml EXCEPT ![dest] = Append(@, name)]
                <5>1. name \in Names
                    BY <4>1
                <5>2. Append(xml[dest], name) \in Seq(Names)
                      /\ Len(Append(xml[dest], name)) = Len(xml[dest]) + 1
                    BY <5>1, AppendProperties DEF Inv, TypeOK
                <5>3. xml \in [Wims -> Seq(Names)]
                      /\ \A w \in Wims : Len(xml[w]) <= Len(images[w])
                    BY DEF Inv, TypeOK, IndicesValid
                <5>4. xml' \in [Wims -> Seq(Names)]
                    BY <4>1, <5>2, <5>3
                <5>5. ASSUME NEW w \in Wims PROVE Len(xml'[w]) <= Len(images'[w])
                    <6>1. CASE w = dest
                        <7>1. xml'[dest] = Append(xml[dest], name)
                            BY <4>1, <5>3
                        <7>2. Len(xml[dest]) \in Nat /\ Len(images[dest]) \in Nat
                              /\ Len(xml[dest]) <= Len(images[dest])
                            BY <5>3 DEF Inv, TypeOK
                        <7>3. Len(images'[dest]) = Len(images[dest]) + 1
                            BY <3>2
                        <7>. QED
                            BY <5>2, <6>1, <7>1, <7>2, <7>3
                    <6>2. CASE w # dest
                        BY <4>1, <3>2, <5>3, <6>2
                    <6>. QED
                        BY <6>1, <6>2
                <5>. QED
                    BY <5>4, <5>5
            <4>2. CASE UNCHANGED xml
                BY <4>2, <3>2 DEF Inv, TypeOK, IndicesValid
            <4>. QED
                BY <2>3, <4>1, <4>2
        <3>4. boot' \in [Wims -> Nat] /\ \A w \in Wims : boot'[w] \in 0 .. Len(images'[w])
            BY <2>3, <3>2 DEF Inv, TypeOK, IndicesValid
        <3>5. cur' \in [Wims -> Nat] /\ \A w \in Wims : cur'[w] \in 0 .. Len(images'[w])
            <4>0. cur' \in [Wims -> Nat]
                <5>1. n \in Nat /\ i \in Nat
                    BY LenProperties DEF Inv, TypeOK
                <5>2. [cur EXCEPT ![src] = i] \in [Wims -> Nat]
                    BY <5>1 DEF Inv, TypeOK
                <5>. QED
                    BY <2>3, <5>1, <5>2
            <4>. SUFFICES ASSUME NEW w \in Wims
                          PROVE  cur'[w] \in 0 .. Len(images'[w])
                BY <4>0
            <4>1. CASE w = dest
                BY <2>3, <3>2, <4>1 DEF Inv, TypeOK
            <4>2. CASE w = src /\ w # dest
                <5>1. cur'[w] = i
                    BY <2>3, <4>2 DEF Inv, TypeOK
                <5>2. Len(images'[w]) = Len(images[src])
                    BY <3>2, <4>2
                <5>. QED
                    BY <5>1, <5>2
            <4>3. CASE w # src /\ w # dest
                BY <2>3, <3>2, <4>3 DEF Inv, TypeOK, IndicesValid
            <4>. QED
                BY <4>1, <4>2, <4>3
        <3>. QED
            BY <2>1, <3>2, <3>3, <3>4, <3>5 DEF IndicesValid
    <2>. QED
        BY <2>0, <2>2, <2>3
<1>. QED
    BY <1>3, <1>4

\* wimlib_add_image keeps the invariant, whether the capture, the image
\* array or xml_add_image fails or not.
LEMMA AddImageInv ==
    ASSUME Inv, NEW w \in Wims, NEW name \in Names,
           NEW c \in [FileNodes -> Hashes], NEW b \in BOOLEAN,
           AddImage(w, name, c, b)
    PROVE  Inv'
<1>. DEFINE t == table[w]
            n == Len(images[w]) + 1
<1>1. t \in [Hashes -> Nat] /\ n \in Nat
    BY LenProperties DEF Inv, TypeOK
<1>2. \A k : /\ Built(t, c, k) \in [Hashes -> Nat]
             /\ TreeOf(c, k) \in Tree
             /\ Release(Built(t, c, k), TreeOf(c, k)) \in [Hashes -> Nat]
    BY <1>1, BuiltType, TreeOfType, ReleaseType
<1>3. exp' = exp
    BY DEF AddImage
<1>4. CASE \E k \in CaptureStops(t, c) :
             /\ table' = [table EXCEPT ![w] = Release(Built(t, c, k), TreeOf(c, k))]
             /\ UNCHANGED <<images, xml, boot, cur>>
    BY <1>2, <1>3, <1>4 DEF Inv, TypeOK, IndicesValid
<1>5. CASE /\ images' = [images EXCEPT ![w] = Append(@, TreeOf(c, Done))]
           /\ cur' = [cur EXCEPT ![w] = n]
           /\ boot' = IF b THEN [boot EXCEPT ![w] = n] ELSE boot
           /\ \/ /\ xml' = [xml EXCEPT ![w] = Append(@, name)]
                 /\ table' = [table EXCEPT ![w] = Built(t, c, Done)]
              \/ /\ table' = [table EXCEPT ![w] =
                               Release(Built(t, c, Done), TreeOf(c, Done))]
                 /\ UNCHANGED xml
    <2>1. Append(images[w], TreeOf(c, Done)) \in Seq(Tree)
          /\ Len(Append(images[w], TreeOf(c, Done))) = n
        BY <1>2, AppendProperties DEF Inv, TypeOK
    <2>2. images' \in [Wims -> Seq(Tree)]
          /\ \A v \in Wims : Len(images'[v]) = IF v = w THEN n ELSE Len(images[v])
        BY <1>5, <2>1 DEF Inv, TypeOK
    <2>3. Append(xml[w], name) \in Seq(Names)
          /\ Len(Append(xml[w], name)) = Len(xml[w]) + 1
        BY AppendProperties DEF Inv, TypeOK
    <2>4. /\ xml' \in [Wims -> Seq(Names)]
          /\ table' \in [Wims -> [Hashes -> Nat]]
          /\ \A v \in Wims : Len(xml'[v]) <= Len(images'[v])
        <3>1. CASE /\ xml' = [xml EXCEPT ![w] = Append(@, name)]
                   /\ table' = [table EXCEPT ![w] = Built(t, c, Done)]
            BY <1>2, <2>2, <2>3, <3>1 DEF Inv, TypeOK, IndicesValid
        <3>2. CASE /\ table' = [table EXCEPT ![w] =
                                  Release(Built(t, c, Done), TreeOf(c, Done))]
                   /\ UNCHANGED xml
            BY <1>2, <2>2, <3>2 DEF Inv, TypeOK, IndicesValid
        <3>. QED
            BY <1>5, <3>1, <3>2
    <2>5. /\ boot' \in [Wims -> Nat]
          /\ cur' \in [Wims -> Nat]
          /\ \A v \in Wims : boot'[v] \in 0 .. Len(images'[v])
          /\ \A v \in Wims : cur'[v] \in 0 .. Len(images'[v])
        BY <1>1, <1>5, <2>2 DEF Inv, TypeOK, IndicesValid
    <2>. QED
        BY <1>3, <2>2, <2>4, <2>5 DEF Inv, TypeOK, IndicesValid
<1>. QED
    BY <1>4, <1>5 DEF AddImage

\* wimlib_delete_image keeps the invariant: the boot index is reset or
\* shifted down with the images after the deleted one.
LEMMA DeleteImageInv ==
    ASSUME Inv, NEW w \in Wims, NEW i \in Nat, DeleteImage(w, i)
    PROVE  Inv'
<1>1. i \in 1 .. Len(images[w])
    BY DEF DeleteImage
<1>2. /\ DropImage(images[w], i) \in Seq(Tree)
      /\ Len(DropImage(images[w], i)) = Len(images[w]) - 1
    BY <1>1, DropImageProps DEF Inv, TypeOK
<1>3. images' \in [Wims -> Seq(Tree)]
      /\ \A v \in Wims : Len(images'[v]) = IF v = w THEN Len(images[w]) - 1
                                                ELSE Len(images[v])
    BY <1>2 DEF DeleteImage, Inv, TypeOK
<1>4. table' \in [Wims -> [Hashes -> Nat]]
    BY ReleaseType, ElementOfSeq, <1>1 DEF DeleteImage, Inv, TypeOK
<1>5. xml' \in [Wims -> Seq(Names)] /\ \A v \in Wims : Len(xml'[v]) <= Len(images'[v])
    <2>1. CASE i <= Len(xml[w])
        <3>1. /\ DropImage(xml[w], i) \in Seq(Names)
              /\ Len(DropImage(xml[w], i)) = Len(xml[w]) - 1
            BY <2>1, <1>1, DropImageProps DEF Inv, TypeOK
        <3>. QED
            BY <2>1, <1>3, <3>1 DEF DeleteImage, Inv, TypeOK, IndicesValid
    <2>2. CASE ~(i <= Len(xml[w]))
        BY <2>2, <1>1, <1>3 DEF DeleteImage, Inv, TypeOK, IndicesValid
    <2>. QED
        BY <2>1, <2>2
<1>6. boot' \in [Wims -> Nat] /\ \A v \in Wims : boot'[v] \in 0 .. Len(images'[v])
    BY <1>1, <1>3 DEF DeleteImage, BootAfterDelete, Inv, TypeOK, IndicesValid
<1>. QED
    BY <1>3, <1>4, <1>5, <1>6 DEF DeleteImage, Inv, TypeOK, IndicesValid

\* wimlib_delete_image(WIM_ALL_IMAGES) keeps the invariant.
LEMMA DeleteAllImagesInv ==
    ASSUME Inv, NEW w \in Wims, DeleteAllImages(w)
    PROVE  Inv'
<1>1. \A h \in Hashes : RefsIn(images[w], h) \in Nat
    BY RefsInNat DEF Inv, TypeOK
<1>2. table' \in [Wims -> [Hashes -> Nat]]
    BY <1>1 DEF DeleteAllImages, Inv, TypeOK
<1>. QED
    BY <1>2 DEF DeleteAllImages, Inv, TypeOK, IndicesValid

\* The start of a multi-image wimlib_export_image, and its single-image
\* form, keep the invariant.
LEMMA ExportImageInv ==
    ASSUME Inv, NEW src \in Wims, NEW s \in (1 .. MaxImages) \cup {WIM_ALL_IMAGES},
           NEW dest \in Wims, NEW name \in Names \cup {Null},
           NEW desc \in BOOLEAN, NEW b \in BOOLEAN,
           ExportImage(src, s, dest, name, desc, b)
    PROVE  Inv'
<1>1. CASE s = WIM_ALL_IMAGES /\ Len(images[src]) > 1
    <2>1. exp' \in ExportLoop
        BY <1>1 DEF ExportImage, ExportLoop, Inv, TypeOK
    <2>. QED
        BY <1>1, <2>1 DEF ExportImage, Inv, TypeOK, IndicesValid
<1>2. CASE ~(s = WIM_ALL_IMAGES /\ Len(images[src]) > 1)
    <2>. DEFINE i == IF s = WIM_ALL_IMAGES THEN 1 ELSE s
    <2>1. /\ i \in 1 .. Len(images[src])
          /\ \E ok \in BOOLEAN :
                ExportOne(src, i, dest, IF name = Null THEN SrcName(src, i) ELSE name, b, ok)
          /\ exp' = exp
        BY <1>2 DEF ExportImage
    <2>2. (IF name = Null THEN SrcName(src, i) ELSE name) \in Names \cup {Null}
        BY DEF SrcName, Inv, TypeOK
    <2>3. PICK ok \in BOOLEAN :
             ExportOne(src, i, dest, IF name = Null THEN SrcName(src, i) ELSE name, b, ok)
        BY <2>1
    <2>4. /\ images' \in [Wims -> Seq(Tree)]
          /\ xml' \in [Wims -> Seq(Names)]
          /\ table' \in [Wims -> [Hashes -> Nat]]
          /\ boot' \in [Wims -> Nat]
          /\ cur' \in [Wims -> Nat]
          /\ IndicesValid'
        BY <2>1, <2>2, <2>3, ExportOneInv
    <2>. QED
        BY <2>1, <2>4 DEF Inv, TypeOK
<1>. QED
    BY <1>1, <1>2

\* One iteration of the loop of a multi-image export keeps the invariant.
LEMMA ExportNextInv ==
    ASSUME Inv, ExportNext
    PROVE  Inv'
<1>1. exp \in ExportLoop
    BY DEF ExportNext, Inv, TypeOK
<1>2. CASE exp.i > Len(images[exp.src])
    BY <1>2 DEF ExportNext, Inv, TypeOK, IndicesValid
<1>3. CASE ~(exp.i > Len(images[exp.src]))
    <2>1. PICK ok \in BOOLEAN :
             /\ ExportOne(exp.src, exp.i, exp.dest, SrcName(exp.src, exp.i),
                          exp.flag /\ exp.i = exp.bootIdx, ok)
             /\ exp' = IF ok THEN [exp EXCEPT !.i = @ + 1] ELSE NoExport
        BY <1>3 DEF ExportNext
    <2>2. /\ exp.i \in 1 .. Len(images[exp.src])
          /\ SrcName(exp.src, exp.i) \in Names \cup {Null}
          /\ (exp.flag /\ exp.i = exp.bootIdx) \in BOOLEAN
        BY <1>1, <1>3 DEF ExportLoop, SrcName, Inv, TypeOK
    <2>3. exp' \in ExportLoop \cup {NoExport}
        BY <1>1, <2>1 DEF ExportLoop
    <2>4. /\ images' \in [Wims -> Seq(Tree)]
          /\ xml' \in [Wims -> Seq(Names)]
          /\ table' \in [Wims -> [Hashes -> Nat]]
          /\ boot' \in [Wims -> Nat]
          /\ cur' \in [Wims -> Nat]
          /\ IndicesValid'
        <3>. exp.src \in Wims /\ exp.dest \in Wims
            BY <1>1 DEF ExportLoop
        <3>. QED
            BY <2>1, <2>2, ExportOneInv
    <2>. QED
        BY <2>3, <2>4 DEF Inv, TypeOK
<1>. QED
    BY <1>2, <1>3

-----------------------------------------------------------------------------
(* The theorems                                                            *)

\* The initial state (WIMStructs with no image) satisfies the invariant.
LEMMA InitInv == Init => Inv
BY DEF Init, Inv, TypeOK, IndicesValid, NoExport, ExportLoop

\* Every call of the API keeps the invariant.
LEMMA NextInv == Inv /\ [Next]_vars => Inv'
<1>. SUFFICES ASSUME Inv, [Next]_vars PROVE Inv'
    OBVIOUS
<1>1. CASE \E w \in Wims, name \in Names, c \in [FileNodes -> Hashes], b \in BOOLEAN :
              AddImage(w, name, c, b)
    BY <1>1, AddImageInv
<1>2. CASE \E w \in Wims, i \in 1 .. MaxImages : DeleteImage(w, i)
    BY <1>2, DeleteImageInv
<1>3. CASE \E w \in Wims : DeleteAllImages(w)
    BY <1>3, DeleteAllImagesInv
<1>4. CASE \E src, dest \in Wims, s \in (1 .. MaxImages) \cup {WIM_ALL_IMAGES},
              name \in Names \cup {Null}, desc, b \in BOOLEAN :
              ExportImage(src, s, dest, name, desc, b)
    BY <1>4, ExportImageInv
<1>5. CASE ExportNext
    BY <1>5, ExportNextInv
<1>6. CASE UNCHANGED vars
    BY <1>6 DEF vars, Inv, TypeOK, IndicesValid
<1>. QED
    BY <1>1, <1>2, <1>3, <1>4, <1>5, <1>6 DEF Next

\* Whatever add, delete and export calls a program makes, and whichever of
\* them fail, the variables keep their types.
THEOREM TypeCorrect == Spec => []TypeOK
<1>1. Inv => TypeOK
    BY DEF Inv
<1>. QED
    BY InitInv, NextInv, <1>1, PTL DEF Spec

\* Whatever add, delete and export calls a program makes, and whichever of
\* them fail, hdr.boot_idx and current_image name an image or none, and the
\* XML data never lists more images than the WIM has.
THEOREM IndicesStayValid == Spec => []IndicesValid
<1>1. Inv => IndicesValid
    BY DEF Inv
<1>. QED
    BY InitInv, NextInv, <1>1, PTL DEF Spec

=============================================================================
