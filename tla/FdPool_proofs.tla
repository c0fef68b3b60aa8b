---------------------------- MODULE FdPool_proofs ----------------------------
(***************************************************************************)
(* Proofs about FdPool: for any number of threads and FILE pointers, and  *)
(* with fopen and REALLOC failing or not, no FILE pointer of the pool is  *)
(* ever used by two threads at once.                                      *)
(***************************************************************************)
EXTENDS FdPool, SequenceTheorems, TLAPS

\* Exclusive is not inductive alone: a pointer fopen returns is new only
\* because every held or pooled pointer is among the open ones.
IInv ==
    /\ fp_tab \in Seq(Fps \cup {Null})
    /\ fp \in [Threads -> Fps \cup {Null}]
    /\ opened \subseteq Fps
    /\ Exclusive
    /\ Held \cup Pooled \subseteq opened

\* The variables Exclusive is about stay as they are.
LEMMA UnchangedInv ==
    ASSUME IInv, UNCHANGED <<fp_tab, fp, opened>>
    PROVE  IInv'
BY DEF IInv, Exclusive, Held, Pooled, FullSlots

\* wim_get_fp, taking the first pooled pointer out of fp_tab.
LEMMA TakePooledInv ==
    ASSUME IInv, NEW t \in Threads, NEW i \in FullSlots,
           fp' = [fp EXCEPT ![t] = fp_tab[i]],
           fp_tab' = [fp_tab EXCEPT ![i] = Null],
           opened' = opened
    PROVE  IInv'
<1>1. /\ i \in 1 .. Len(fp_tab)
      /\ fp_tab[i] \in Fps
      /\ fp_tab[i] \in Pooled
  BY PoolAssumption DEF IInv, FullSlots, Pooled, Range
<1>2. fp_tab' \in Seq(Fps \cup {Null})
  BY <1>1 DEF IInv
<1>3. fp' \in [Threads -> Fps \cup {Null}]
  BY <1>1 DEF IInv
<1>4. Held' \subseteq Held \cup {fp_tab[i]}
  BY DEF Held, Range, IInv
<1>5. Pooled' = Pooled \ {fp_tab[i]}
  BY <1>1 DEF IInv, Exclusive, Pooled, Range, FullSlots
<1>6. \A u \in Threads : u # t /\ fp[u] # Null => fp[u] # fp_tab[i]
  BY <1>1 DEF IInv, Exclusive, Held, Range
<1>7. Exclusive'
  <2>1. \A u, v \in Threads : u # v /\ fp'[u] # Null => fp'[u] # fp'[v]
    BY <1>6 DEF IInv, Exclusive
  <2>2. Held' \cap Pooled' = {}
    BY <1>4, <1>5 DEF IInv, Exclusive
  <2>3. \A k, j \in FullSlots' : fp_tab'[k] = fp_tab'[j] => k = j
    BY <1>1 DEF IInv, Exclusive, FullSlots
  <2>. QED
    BY <2>1, <2>2, <2>3 DEF Exclusive
<1>8. Held' \cup Pooled' \subseteq opened'
  BY <1>1, <1>4, <1>5 DEF IInv
<1>. QED
  BY <1>2, <1>3, <1>7, <1>8 DEF IInv

\* wim_get_fp, opening a pointer that is not open yet.
LEMMA OpenNewInv ==
    ASSUME IInv, NEW t \in Threads, NEW f \in Fps \ opened,
           fp' = [fp EXCEPT ![t] = f],
           fp_tab' = fp_tab,
           opened' = opened \cup {f}
    PROVE  IInv'
<1>1. f \notin Held /\ f \notin Pooled
  BY DEF IInv
<1>2. \A u \in Threads : fp[u] # f
  BY <1>1, PoolAssumption DEF IInv, Held, Range
<1>3. Held' \subseteq Held \cup {f}
  BY DEF Held, Range, IInv
<1>4. Exclusive'
  BY <1>1, <1>2, <1>3 DEF IInv, Exclusive, Pooled, FullSlots
<1>. QED
  BY <1>1, <1>3, <1>4 DEF IInv, Pooled

\* wim_release_fp, dropping the thread's pointer.
LEMMA DropInv ==
    ASSUME IInv, NEW t \in Threads,
           fp' = [fp EXCEPT ![t] = Null],
           fp_tab' = fp_tab,
           opened' = opened
    PROVE  IInv'
<1>1. Held' \subseteq Held
  BY DEF Held, Range, IInv
<1>. QED
  BY <1>1, PoolAssumption DEF IInv, Exclusive, Pooled, FullSlots

\* wim_release_fp, storing the thread's pointer in an empty slot.
LEMMA StoreInv ==
    ASSUME IInv, NEW t \in Threads, NEW i \in FreeSlots,
           fp' = [fp EXCEPT ![t] = Null],
           fp_tab' = [fp_tab EXCEPT ![i] = fp[t]],
           opened' = opened
    PROVE  IInv'
<1>1. i \in 1 .. Len(fp_tab) /\ fp_tab[i] = Null
  BY DEF IInv, FreeSlots
<1>2. fp[t] # Null => fp[t] \notin Pooled /\ fp[t] \in opened
  BY DEF IInv, Exclusive, Held, Range
<1>3. Held' \subseteq Held \ {fp[t]}
  BY PoolAssumption DEF IInv, Exclusive, Held, Range
<1>4. Pooled' \subseteq Pooled \cup ({fp[t]} \ {Null})
  BY <1>1 DEF IInv, Pooled, Range
<1>5. \A k \in FullSlots' : k # i => k \in FullSlots /\ fp_tab'[k] = fp_tab[k]
  BY <1>1 DEF IInv, FullSlots
<1>6. \A k \in FullSlots : fp_tab[k] \in Pooled
  BY DEF FullSlots, Pooled, Range
<1>7. Exclusive'
  <2>1. \A u, v \in Threads : u # v /\ fp'[u] # Null => fp'[u] # fp'[v]
    BY DEF IInv, Exclusive
  <2>2. Held' \cap Pooled' = {}
    BY <1>3, <1>4 DEF IInv, Exclusive
  <2>3. \A k, j \in FullSlots' : fp_tab'[k] = fp_tab'[j] => k = j
    BY <1>1, <1>2, <1>5, <1>6 DEF IInv, Exclusive, FullSlots
  <2>. QED
    BY <2>1, <2>2, <2>3 DEF Exclusive
<1>8. fp_tab' \in Seq(Fps \cup {Null})
  BY <1>1 DEF IInv
<1>9. Held' \cup Pooled' \subseteq opened'
  BY <1>2, <1>3, <1>4 DEF IInv
<1>. QED
  BY <1>7, <1>8, <1>9 DEF IInv

\* wim_release_fp with fp_tab full: the table grows by 4 slots and the
\* thread's pointer goes to the first new one.
LEMMA GrowInv ==
    ASSUME IInv, NEW t \in Threads,
           fp' = [fp EXCEPT ![t] = Null],
           fp_tab' = fp_tab \o <<fp[t], Null, Null, Null>>,
           opened' = opened
    PROVE  IInv'
<1>. DEFINE n == Len(fp_tab)
<1>1. fp[t] \in Fps \cup {Null} /\ n \in Nat
  BY DEF IInv
<1>2. /\ fp_tab' \in Seq(Fps \cup {Null})
      /\ Len(fp_tab') = n + 4
      /\ \A k \in 1 .. n : fp_tab'[k] = fp_tab[k]
      /\ fp_tab'[n + 1] = fp[t]
      /\ \A k \in n + 2 .. n + 4 : fp_tab'[k] = Null
  BY <1>1 DEF IInv
<1>3. DOMAIN fp_tab' = (1 .. n) \cup {n + 1} \cup (n + 2 .. n + 4)
  BY <1>1, <1>2
<1>4. fp[t] # Null => fp[t] \notin Pooled /\ fp[t] \in opened
  BY DEF IInv, Exclusive, Held, Range
<1>5. Held' \subseteq Held \ {fp[t]}
  BY PoolAssumption DEF IInv, Exclusive, Held, Range
<1>6. Pooled' \subseteq Pooled \cup ({fp[t]} \ {Null})
  BY <1>2, <1>3 DEF IInv, Pooled, Range
<1>7. \A k \in 1 .. n : fp_tab[k] # Null => fp_tab[k] \in Pooled
  BY DEF IInv, Pooled, Range
<1>8. Exclusive'
  <2>1. \A u, v \in Threads : u # v /\ fp'[u] # Null => fp'[u] # fp'[v]
    BY DEF IInv, Exclusive
  <2>2. Held' \cap Pooled' = {}
    BY <1>5, <1>6 DEF IInv, Exclusive
  <2>3. \A k, j \in FullSlots' : fp_tab'[k] = fp_tab'[j] => k = j
    BY <1>2, <1>3, <1>4, <1>7 DEF IInv, Exclusive, FullSlots
  <2>. QED
    BY <2>1, <2>2, <2>3 DEF Exclusive
<1>9. Held' \cup Pooled' \subseteq opened'
  BY <1>4, <1>5, <1>6 DEF IInv
<1>. QED
  BY <1>2, <1>8, <1>9 DEF IInv

\* No state is reached from Init but through IInv.
LEMMA InitIInv == Init => IInv
BY DEF Init, IInv, Exclusive, Held, Pooled, FullSlots, Range

\* Every step of every thread keeps IInv.
LEMMA NextIInv == IInv /\ [Next]_vars => IInv'
<1>. SUFFICES ASSUME IInv, [Next]_vars PROVE IInv'
  OBVIOUS
<1>1. ASSUME NEW t \in Threads, GetFp(t) PROVE IInv'
  <2>1. CASE FullSlots # {}
    <3>1. PICK i \in FullSlots :
              /\ fp' = [fp EXCEPT ![t] = fp_tab[i]]
              /\ fp_tab' = [fp_tab EXCEPT ![i] = Null]
              /\ opened' = opened
      BY <1>1, <2>1 DEF GetFp, GetFpBody
    <3>. QED
      BY <3>1, TakePooledInv
  <2>2. CASE FullSlots = {}
    <3>1. CASE \E f \in Fps \ opened :
                   /\ fp' = [fp EXCEPT ![t] = f]
                   /\ opened' = opened \cup {f}
                   /\ fp_tab' = fp_tab
      BY <3>1, OpenNewInv
    <3>2. CASE UNCHANGED <<fp_tab, fp, opened>>
      BY <3>2, UnchangedInv
    <3>. QED
      BY <1>1, <2>2, <3>1, <3>2 DEF GetFp, GetFpBody
  <2>. QED
    BY <2>1, <2>2
<1>2. ASSUME NEW t \in Threads, ReleaseFp(t) PROVE IInv'
  <2>1. /\ fp' = [fp EXCEPT ![t] = Null]
        /\ opened' = opened
    BY <1>2 DEF ReleaseFp
  <2>2. CASE \E i \in FreeSlots : fp_tab' = [fp_tab EXCEPT ![i] = fp[t]]
    BY <2>1, <2>2, StoreInv
  <2>3. CASE fp_tab' = fp_tab \o <<fp[t], Null, Null, Null>>
    BY <2>1, <2>3, GrowInv
  <2>4. CASE fp_tab' = fp_tab
    BY <2>1, <2>4, DropInv
  <2>. QED
    BY <1>2, <2>2, <2>3, <2>4 DEF ReleaseFp
<1>3. ASSUME NEW t \in Threads, Call(t) \/ Lock(t) \/ Read(t) PROVE IInv'
  BY <1>3, UnchangedInv DEF Call, Lock, Read
<1>4. ASSUME Finished \/ UNCHANGED vars PROVE IInv'
  BY <1>4, UnchangedInv DEF Finished, vars
<1>. QED
  BY <1>1, <1>2, <1>3, <1>4 DEF Next, Thread

\* Whatever the number of FUSE reader threads and of FILE pointers, and
\* whether fopen and REALLOC fail, wim_get_fp never hands a FILE pointer
\* to a thread while another thread uses it or fp_tab still keeps it, and
\* wim_release_fp never stores one pointer in two slots.
THEOREM PoolExclusive == Spec => []Exclusive
<1>1. Init => IInv
  BY InitIInv
<1>2. IInv /\ [Next]_vars => IInv'
  BY NextIInv
<1>3. IInv => Exclusive
  BY DEF IInv
<1>. QED
  BY <1>1, <1>2, <1>3, PTL DEF Spec

====
