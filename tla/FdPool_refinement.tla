-------------------------- MODULE FdPool_refinement --------------------------
(***************************************************************************)
(* More proofs about FdPool: the types of its variables, and, when REALLOC *)
(* of fp_tab does not fail, that every FILE pointer the pool opened is    *)
(* accounted for and that FdPool implements the abstract file-handle pool *)
(* FilePool; and, for all constants, that fp_tab and the threads' FILE    *)
(* pointers change only under fp_tab_mutex.                               *)
(***************************************************************************)
EXTENDS FdPool_proofs, FiniteSetTheorems

\* Where a thread is in read_wim_resource decides what it owns: it holds
\* a FILE pointer exactly from wim_get_fp's success to wim_release_fp, it
\* holds fp_tab_mutex exactly inside the two bodies, and a thread inside a
\* call has a read left.
CInv ==
    /\ TypeOK
    /\ \A t \in Threads : pc[t] # "idle" => reads[t] < MaxReads
    /\ \A t \in Threads : fp[t] = Null <=> pc[t] \in {"idle", "get", "get_fp"}
    /\ \A t \in Threads : mutex = t <=> pc[t] \in {"get_fp", "release_fp"}

\* The invariant of the refinement proof: IInv of FdPool_proofs and CInv.
RInv == IInv /\ CInv


LEMMA InitCInv == Init => CInv
BY PoolAssumption DEF Init, CInv, TypeOK

\* Every step of every thread keeps CInv.
LEMMA NextCInv == RInv /\ [Next]_vars => CInv'
<1>. SUFFICES ASSUME RInv, [Next]_vars PROVE CInv'
  OBVIOUS
<1>0. IInv'
  BY NextIInv DEF RInv
<1>. USE PoolAssumption DEF RInv, CInv, TypeOK
<1>1. ASSUME NEW t \in Threads, Call(t) PROVE CInv'
  BY <1>1 DEF Call
<1>2. ASSUME NEW t \in Threads, Lock(t) PROVE CInv'
  BY <1>2 DEF Lock
<1>3. ASSUME NEW t \in Threads, GetFp(t) PROVE CInv'
  <2>1. /\ pc[t] = "get_fp" /\ mutex = t /\ mutex' = Null
        /\ reads[t] < MaxReads
        /\ fp_tab' \in Seq(Fps \cup {Null}) /\ fp' \in [Threads -> Fps \cup {Null}]
        /\ opened' \subseteq Fps
    BY <1>0, <1>3 DEF IInv, GetFp, GetFpBody
  <2>2. \A u \in Threads : u # t => fp'[u] = fp[u]
    BY <1>3 DEF GetFp, GetFpBody
  <2>3. CASE FullSlots # {}
    <3>1. PICK i \in FullSlots : fp' = [fp EXCEPT ![t] = fp_tab[i]]
      BY <1>3, <2>3 DEF GetFp, GetFpBody
    <3>2. fp'[t] # Null
      BY <3>1 DEF FullSlots
    <3>3. /\ pc' = [pc EXCEPT ![t] = "read"]
          /\ UNCHANGED <<reads, ret>>
      BY <1>3, <2>3 DEF GetFp, GetFpBody
    <3>. QED
      BY <2>1, <2>2, <3>2, <3>3
  <2>4. CASE FullSlots = {} /\ pc' = [pc EXCEPT ![t] = "read"]
    <3>1. PICK f \in Fps \ opened : fp' = [fp EXCEPT ![t] = f] /\ UNCHANGED <<reads, ret>>
      BY <1>3, <2>4 DEF GetFp, GetFpBody
    <3>. QED
      BY <2>1, <2>2, <2>4, <3>1
  <2>5. CASE FullSlots = {} /\ pc' = [pc EXCEPT ![t] = "idle"]
    <3>1. /\ reads' = [reads EXCEPT ![t] = @ + 1]
          /\ ret' = [ret EXCEPT ![t] = "open"]
          /\ fp' = fp
      BY <1>3, <2>5 DEF GetFp, GetFpBody
    <3>. QED
      BY <2>1, <3>1, <2>5
  <2>. QED
    BY <1>3, <2>3, <2>4, <2>5 DEF GetFp, GetFpBody
<1>4. ASSUME NEW t \in Threads, Read(t) PROVE CInv'
  BY <1>4 DEF Read
<1>5. ASSUME NEW t \in Threads, ReleaseFp(t) PROVE CInv'
  <2>1. /\ pc[t] = "release_fp" /\ mutex = t /\ mutex' = Null
        /\ reads[t] < MaxReads
        /\ pc' = [pc EXCEPT ![t] = "idle"]
        /\ fp' = [fp EXCEPT ![t] = Null]
        /\ reads' = [reads EXCEPT ![t] = @ + 1]
        /\ fp_tab' \in Seq(Fps \cup {Null})
        /\ opened' = opened
    BY <1>0, <1>5 DEF IInv, ReleaseFp
  <2>2. ret' \in [Threads -> {"ok", "open", "read", "nomem"}]
    <3>1. ret' = ret \/ ret' = [ret EXCEPT ![t] = IF @ = "ok" THEN "nomem" ELSE @]
      BY <1>5 DEF ReleaseFp
    <3>. QED
      BY <3>1
  <2>3. TypeOK'
    <3>1. reads' \in [Threads -> 0 .. MaxReads]
      BY <2>1
    <3>2. pc' \in [Threads -> {"idle", "get", "get_fp", "read", "release", "release_fp"}]
      BY <2>1
    <3>3. fp' \in [Threads -> Fps \cup {Null}] /\ mutex' \in Threads \cup {Null}
      BY <2>1
    <3>. QED
      BY <2>1, <2>2, <3>1, <3>2, <3>3
  <2>4. \A u \in Threads : pc'[u] # "idle" => reads'[u] < MaxReads
    BY <2>1
  <2>5. \A u \in Threads : fp'[u] = Null <=> pc'[u] \in {"idle", "get", "get_fp"}
    BY <2>1
  <2>6. \A u \in Threads : mutex' = u <=> pc'[u] \in {"get_fp", "release_fp"}
    BY <2>1
  <2>. QED
    BY <2>3, <2>4, <2>5, <2>6
<1>6. CASE Finished \/ UNCHANGED vars
  BY <1>6 DEF Finished, vars
<1>. QED
  BY <1>1, <1>2, <1>3, <1>4, <1>5, <1>6 DEF Next, Thread

\* Whatever the number of threads and pointers, and whether fopen and
\* REALLOC fail, the pool's variables keep their types: in particular no
\* thread makes more than MaxReads calls of read_wim_resource, since the
\* count is raised only on the way out of a call that Call let in.
THEOREM TypeCorrect == Spec => []TypeOK
<1>1. Init => RInv
  BY InitIInv, InitCInv DEF RInv
<1>2. RInv /\ [Next]_vars => RInv'
  BY NextIInv, NextCInv DEF RInv
<1>3. RInv => TypeOK
  BY DEF RInv, CInv
<1>. QED
  BY <1>1, <1>2, <1>3, PTL DEF Spec

-----------------------------------------------------------------------------
(* How the pooled and the held pointers change.                            *)

\* Taking a full slot's pointer removes it from the pool (it is in no other
\* slot).
LEMMA TakePooledSets ==
    ASSUME IInv, NEW i \in FullSlots, fp_tab' = [fp_tab EXCEPT ![i] = Null]
    PROVE  Pooled' = Pooled \ {fp_tab[i]}
BY DEF IInv, Exclusive, FullSlots, Pooled, Range

\* Storing a pointer in an empty slot adds it to the pool.
LEMMA StoreSets ==
    ASSUME IInv, NEW i \in FreeSlots, NEW x \in Fps,
           fp_tab' = [fp_tab EXCEPT ![i] = x]
    PROVE  Pooled' = Pooled \cup {x}
BY PoolAssumption DEF IInv, FreeSlots, Pooled, Range

\* Growing fp_tab by <<x, Null, Null, Null>> adds x to the pool.
LEMMA GrowSets ==
    ASSUME IInv, NEW x \in Fps,
           fp_tab' = fp_tab \o <<x, Null, Null, Null>>
    PROVE  Pooled' = Pooled \cup {x}
<1>. DEFINE n == Len(fp_tab)
<1>1. /\ Len(fp_tab') = n + 4
      /\ \A k \in 1 .. n : fp_tab'[k] = fp_tab[k]
      /\ fp_tab'[n + 1] = x
      /\ \A k \in n + 2 .. n + 4 : fp_tab'[k] = Null
      /\ DOMAIN fp_tab' = (1 .. n) \cup {n + 1} \cup (n + 2 .. n + 4)
  BY DEF IInv
<1>2. Pooled' \subseteq Pooled \cup {x}
  <2>1. \A k \in DOMAIN fp_tab' : fp_tab'[k] \in Range(fp_tab) \cup {x, Null}
    BY <1>1 DEF IInv, Range
  <2>. QED
    BY <2>1 DEF Pooled, Range
<1>3. Pooled \subseteq Pooled'
  <2>1. SUFFICES ASSUME NEW k \in 1 .. n, fp_tab[k] # Null
                 PROVE  fp_tab[k] \in Pooled'
    BY DEF IInv, Pooled, Range
  <2>. QED
    BY <1>1, <2>1 DEF Pooled, Range
<1>4. x \in Pooled'
  BY <1>1, PoolAssumption DEF Pooled, Range, IInv
<1>. QED
  BY <1>2, <1>3, <1>4

\* A thread without a pointer that takes x adds x to the held pointers.
LEMMA HeldAdd ==
    ASSUME IInv, NEW t \in Threads, NEW x \in Fps, fp[t] = Null,
           fp' = [fp EXCEPT ![t] = x]
    PROVE  Held' = Held \cup {x}
BY PoolAssumption DEF IInv, Held, Range

\* A thread giving its pointer up removes it from the held pointers (no
\* other thread holds it).
LEMMA HeldRemove ==
    ASSUME IInv, NEW t \in Threads, fp[t] # Null,
           fp' = [fp EXCEPT ![t] = Null]
    PROVE  Held' = Held \ {fp[t]}
BY DEF IInv, Exclusive, Held, Range

-----------------------------------------------------------------------------
(* The pool's steps, when REALLOC does not fail.                           *)

\* Thread t takes pointer x, which it did not hold: x leaves the pool, or
\* the pool was empty and x is opened; fp_tab keeps its length.
TakeStep(t, x) ==
    /\ fp[t] = Null
    /\ fp' = [fp EXCEPT ![t] = x]
    /\ Pooled' = Pooled \ {x}
    /\ opened' = opened \cup ({x} \ Pooled)
    /\ x \in Pooled \/ Pooled = {}
    /\ Len(fp_tab') = Len(fp_tab)

\* Thread t gives its pointer to the pool, in a slot that was free or in
\* one of 4 new slots when none was.
GiveStep(t) ==
    /\ fp[t] # Null
    /\ fp' = [fp EXCEPT ![t] = Null]
    /\ Pooled' = Pooled \cup {fp[t]}
    /\ Held' = Held \ {fp[t]}
    /\ opened' = opened
    /\ \/ Len(fp_tab') = Len(fp_tab)
       \/ FreeSlots = {} /\ Len(fp_tab') = Len(fp_tab) + 4

\* Every step takes a pointer that no thread holds, gives one back, or
\* changes neither the pointers nor fp_tab.
LEMMA StepKinds ==
    ASSUME ~ReallocFails, RInv, [Next]_vars
    PROVE  \/ \E t \in Threads : \E x \in Fps \ Held : TakeStep(t, x)
           \/ \E t \in Threads : GiveStep(t)
           \/ UNCHANGED <<fp_tab, fp, opened>>
<1>. USE DEF RInv, CInv
<1>1. ASSUME NEW t \in Threads, GetFp(t)
      PROVE  \/ \E x \in Fps \ Held : TakeStep(t, x)
             \/ UNCHANGED <<fp_tab, fp, opened>>
  <2>1. fp[t] = Null /\ fp_tab \in Seq(Fps \cup {Null})
    BY <1>1 DEF GetFp, GetFpBody, IInv
  <2>2. CASE FullSlots # {}
    <3>1. PICK i \in FullSlots :
              /\ fp' = [fp EXCEPT ![t] = fp_tab[i]]
              /\ fp_tab' = [fp_tab EXCEPT ![i] = Null]
              /\ opened' = opened
      BY <1>1, <2>2 DEF GetFp, GetFpBody
    <3>2. fp_tab[i] \in Pooled /\ fp_tab[i] \in Fps
      BY <3>1, PoolAssumption DEF IInv, FullSlots, Pooled, Range
    <3>3. fp_tab[i] \notin Held
      BY <3>2 DEF IInv, Exclusive
    <3>4. Pooled' = Pooled \ {fp_tab[i]}
      BY <3>1, TakePooledSets
    <3>5. Len(fp_tab') = Len(fp_tab)
      BY <2>1, <3>1
    <3>. QED
      BY <2>1, <3>1, <3>2, <3>3, <3>4, <3>5 DEF TakeStep
  <2>3. CASE FullSlots = {}
    <3>0. Pooled = {}
      BY <2>3 DEF FullSlots, Pooled, Range
    <3>1. CASE \E f \in Fps \ opened :
                   /\ fp' = [fp EXCEPT ![t] = f]
                   /\ opened' = opened \cup {f}
                   /\ fp_tab' = fp_tab
      <4>1. PICK f \in Fps \ opened :
                   /\ fp' = [fp EXCEPT ![t] = f]
                   /\ opened' = opened \cup {f}
                   /\ fp_tab' = fp_tab
        BY <3>1
      <4>2. f \notin Held /\ f \notin Pooled
        BY DEF IInv
      <4>3. Pooled' = Pooled
        BY <4>1 DEF Pooled
      <4>. QED
        BY <2>1, <3>0, <4>1, <4>2, <4>3 DEF TakeStep
    <3>2. CASE UNCHANGED <<fp_tab, fp, opened>>
      BY <3>2
    <3>. QED
      BY <1>1, <2>3, <3>1, <3>2 DEF GetFp, GetFpBody
  <2>. QED
    BY <2>2, <2>3
<1>2. ASSUME NEW t \in Threads, ReleaseFp(t) PROVE GiveStep(t)
  <2>1. /\ fp[t] # Null /\ fp[t] \in Fps
        /\ fp' = [fp EXCEPT ![t] = Null]
        /\ opened' = opened
        /\ fp_tab \in Seq(Fps \cup {Null})
    BY <1>2 DEF ReleaseFp, TypeOK, IInv
  <2>2. Held' = Held \ {fp[t]}
    BY <2>1, HeldRemove
  <2>3. CASE \E i \in FreeSlots : fp_tab' = [fp_tab EXCEPT ![i] = fp[t]]
    <3>1. PICK i \in FreeSlots : fp_tab' = [fp_tab EXCEPT ![i] = fp[t]]
      BY <2>3
    <3>2. Pooled' = Pooled \cup {fp[t]}
      BY <2>1, <3>1, StoreSets
    <3>. QED
      BY <2>1, <2>2, <3>1, <3>2 DEF GiveStep
  <2>4. CASE FreeSlots = {} /\ fp_tab' = fp_tab \o <<fp[t], Null, Null, Null>>
    <3>1. Pooled' = Pooled \cup {fp[t]}
      BY <2>1, <2>4, GrowSets
    <3>2. Len(fp_tab') = Len(fp_tab) + 4
      BY <2>1, <2>4
    <3>. QED
      BY <2>1, <2>2, <2>4, <3>1, <3>2 DEF GiveStep
  <2>. QED
    BY <1>2, <2>3, <2>4 DEF ReleaseFp
<1>3. ASSUME NEW t \in Threads, Call(t) \/ Lock(t) \/ Read(t)
      PROVE  UNCHANGED <<fp_tab, fp, opened>>
  BY <1>3 DEF Call, Lock, Read
<1>4. ASSUME Finished \/ UNCHANGED vars
      PROVE  UNCHANGED <<fp_tab, fp, opened>>
  BY <1>4 DEF Finished, vars
<1>. QED
  BY <1>1, <1>2, <1>3, <1>4 DEF Next, Thread

\* A step keeps every opened pointer held or kept.
LEMMA NextAccounted ==
    ASSUME ~ReallocFails, RInv, FpAccounted, [Next]_vars
    PROVE  FpAccounted'
<1>1. CASE \E t \in Threads : \E x \in Fps \ Held : TakeStep(t, x)
  <2>1. PICK t \in Threads, x \in Fps \ Held : TakeStep(t, x)
    BY <1>1
  <2>2. Held' = Held \cup {x}
    BY <2>1, HeldAdd DEF RInv, TakeStep
  <2>. QED
    BY <2>1, <2>2 DEF FpAccounted, TakeStep
<1>2. CASE \E t \in Threads : GiveStep(t)
  <2>1. PICK t \in Threads : GiveStep(t)
    BY <1>2
  <2>2. fp[t] \in Held
    BY <2>1 DEF Held, Range, RInv, IInv, GiveStep
  <2>. QED
    BY <2>1, <2>2 DEF FpAccounted, GiveStep
<1>3. CASE UNCHANGED <<fp_tab, fp, opened>>
  BY <1>3 DEF FpAccounted, Held, Pooled
<1>. QED
  BY <1>1, <1>2, <1>3, StepKinds

\* When REALLOC of fp_tab does not fail, every FILE pointer the pool has
\* opened is held by a reader or kept in fp_tab, for any number of threads
\* and pointers and whether fopen fails (with REALLOC failing,
\* wim_release_fp loses the pointer: run fdpool_leak).
THEOREM PoolAccounted ==
    ASSUME ~ReallocFails
    PROVE  Spec => []FpAccounted
<1>1. Init => RInv /\ FpAccounted
  BY InitIInv, InitCInv DEF RInv, Init, FpAccounted, Held, Pooled, Range
<1>2. RInv /\ FpAccounted /\ [Next]_vars => (RInv /\ FpAccounted)'
  BY NextIInv, NextCInv, NextAccounted DEF RInv
<1>. QED
  BY <1>1, <1>2, PTL DEF Spec

\* When REALLOC of fp_tab does not fail, FdPool implements the spec's
\* file-handle pool under the mapping free <- Pooled, held <- fp: every
\* step of read_wim_resource, wim_get_fp and wim_release_fp is an acquire,
\* a release or a stutter of FilePool.
THEOREM PoolRefinement ==
    ASSUME ~ReallocFails
    PROVE  Spec => ImplementsFilePool
<1>1. Init => Pool!Init
  BY DEF Init, Pool!Init, Pooled, Range
<1>2. RInv /\ [Next]_vars => [Pool!Next]_<<Pooled, fp>>
  <2>. SUFFICES ASSUME RInv, [Next]_vars
                PROVE  [Pool!Next]_<<Pooled, fp>>
    OBVIOUS
  <2>1. Pool!Handles(fp) = Held
    BY DEF Pool!Handles, Pool!Range, Held, Range
  <2>2. CASE \E t \in Threads : \E x \in Fps \ Held : TakeStep(t, x)
    <3>1. PICK t \in Threads, x \in Fps \ Held : TakeStep(t, x)
      BY <2>2
    <3>2. Pool!Acquire(t)
      BY <2>1, <3>1 DEF Pool!Acquire, TakeStep
    <3>. QED
      BY <3>2 DEF Pool!Next
  <2>3. CASE \E t \in Threads : GiveStep(t)
    <3>1. PICK t \in Threads : GiveStep(t)
      BY <2>3
    <3>2. Pool!Release(t)
      BY <3>1 DEF Pool!Release, GiveStep
    <3>. QED
      BY <3>2 DEF Pool!Next
  <2>4. CASE UNCHANGED <<fp_tab, fp, opened>>
    BY <2>4 DEF Pooled
  <2>. QED
    BY <2>2, <2>3, <2>4, StepKinds
<1>3. RInv /\ [Next]_vars => RInv'
  BY NextIInv, NextCInv DEF RInv
<1>4. Init => RInv
  BY InitIInv, InitCInv DEF RInv
<1>. QED
  BY <1>1, <1>2, <1>3, <1>4, PTL DEF Spec, ImplementsFilePool, Pool!Spec

-----------------------------------------------------------------------------
(* Bounds on the pool, when REALLOC does not fail.                         *)

\* The threads that hold a FILE pointer.
Busy == {u \in Threads : fp[u] # Null}

\* Each pointer is held by one thread or kept in one slot, and a new one is
\* opened only when none is kept: the holders and the kept pointers
\* together never outnumber the threads.  fp_tab grows only when every
\* slot is full and the releasing thread still holds its pointer.
BInv ==
    /\ Cardinality(Busy) + Cardinality(Pooled) <= Cardinality(Threads)
    /\ Len(fp_tab) <= Cardinality(Threads) + 3

\* fp_tab keeps each pointer in one slot: it keeps as many pointers as it
\* has full slots.
LEMMA PooledCard ==
    ASSUME IInv
    PROVE  /\ IsFiniteSet(Pooled)
           /\ Cardinality(Pooled) = Cardinality(FullSlots)
<1>. DEFINE f == [k \in FullSlots |-> fp_tab[k]]
<1>1. IsFiniteSet(FullSlots)
  <2>1. FullSlots \subseteq 1 .. Len(fp_tab) /\ Len(fp_tab) \in Nat
    BY DEF IInv, FullSlots
  <2>2. IsFiniteSet(1 .. Len(fp_tab))
    BY <2>1, FS_Interval
  <2>. QED
    BY <2>1, <2>2, FS_Subset
<1>2. f \in Surjection(FullSlots, Pooled)
  BY DEF Surjection, FullSlots, Pooled, Range
<1>3. f \in Injection(FullSlots, Pooled)
  BY <1>2 DEF Injection, IsInjective, Surjection, IInv, Exclusive
<1>. QED
  BY <1>1, <1>2, <1>3, FS_Surjection

\* Each held pointer has one holder: there are as many as there are
\* busy threads.
LEMMA HeldCard ==
    ASSUME IInv, IsFiniteSet(Threads)
    PROVE  /\ IsFiniteSet(Held)
           /\ Cardinality(Held) = Cardinality(Busy)
<1>. DEFINE g == [u \in Busy |-> fp[u]]
<1>1. IsFiniteSet(Busy)
  BY FS_Subset DEF Busy
<1>2. g \in Surjection(Busy, Held)
  BY DEF Surjection, Busy, Held, Range, IInv
<1>3. g \in Injection(Busy, Held)
  BY <1>2 DEF Injection, IsInjective, Surjection, IInv, Exclusive, Busy
<1>. QED
  BY <1>1, <1>2, <1>3, FS_Surjection

\* A thread that holds no pointer leaves the others at most one fewer
\* than all threads to hold pointers.
LEMMA BusyBound ==
    ASSUME IsFiniteSet(Threads), NEW t \in Threads, fp[t] = Null
    PROVE  Cardinality(Busy) <= Cardinality(Threads) - 1
<1>1. Busy \subseteq Threads \ {t}
  BY DEF Busy
<1>2. IsFiniteSet(Threads \ {t}) /\ Cardinality(Threads \ {t}) = Cardinality(Threads) - 1
  BY FS_RemoveElement
<1>. QED
  BY <1>1, <1>2, FS_Subset

\* FInv gives the bounds: the open pointers are the held and the kept ones.
LEMMA BoundsFromInv ==
    ASSUME IsFiniteSet(Threads), RInv, FpAccounted, BInv
    PROVE  FpsBounded
<1>1. IsFiniteSet(Held) /\ Cardinality(Held) = Cardinality(Busy)
  BY HeldCard DEF RInv
<1>2. IsFiniteSet(Pooled)
  BY PooledCard DEF RInv
<1>3. /\ Cardinality(Held \cup Pooled) \in Nat
      /\ Cardinality(Held \cup Pooled) <= Cardinality(Held) + Cardinality(Pooled)
  <2>1. IsFiniteSet(Held \cap Pooled)
    BY <1>1, FS_Subset
  <2>2. Cardinality(Held \cap Pooled) \in Nat
    BY <2>1, FS_CardinalityType
  <2>3. Cardinality(Held \cup Pooled)
          = Cardinality(Held) + Cardinality(Pooled) - Cardinality(Held \cap Pooled)
    BY <1>1, <1>2, FS_Union
  <2>4. Cardinality(Held) \in Nat /\ Cardinality(Pooled) \in Nat
    BY <1>1, <1>2, FS_CardinalityType
  <2>5. IsFiniteSet(Held \cup Pooled)
    BY <1>1, <1>2, FS_Union
  <2>. QED
    BY <2>2, <2>3, <2>4, <2>5, FS_CardinalityType
<1>4. Cardinality(Busy) \in Nat /\ Cardinality(Pooled) \in Nat
      /\ Cardinality(Held) \in Nat /\ Cardinality(Threads) \in Nat
  BY <1>1, <1>2, FS_CardinalityType
<1>5. Cardinality(opened) = Cardinality(Held \cup Pooled)
  BY DEF FpAccounted
<1>6. Cardinality(Held) + Cardinality(Pooled) <= Cardinality(Threads)
  BY <1>1, <1>4 DEF BInv
<1>7. Cardinality(Held \cup Pooled) <= Cardinality(Threads)
  BY <1>3, <1>4, <1>6
<1>. QED
  BY <1>5, <1>7 DEF BInv, FpsBounded

\* Every step keeps BInv.
LEMMA NextBInv ==
    ASSUME ~ReallocFails, IsFiniteSet(Threads), RInv, BInv, [Next]_vars
    PROVE  BInv'
<1>. DEFINE nT == Cardinality(Threads)
            nB == Cardinality(Busy)
            nP == Cardinality(Pooled)
<1>1. /\ IsFiniteSet(Busy) /\ nB \in Nat
      /\ IsFiniteSet(Pooled) /\ nP \in Nat
      /\ nT \in Nat
  <2>1. IsFiniteSet(Busy)
    BY FS_Subset DEF Busy
  <2>2. IsFiniteSet(Pooled)
    BY PooledCard DEF RInv
  <2>. QED
    BY <2>1, <2>2, FS_CardinalityType
<1>2. CASE \E t \in Threads : \E x \in Fps \ Held : TakeStep(t, x)
  <2>1. PICK t \in Threads, x \in Fps \ Held : TakeStep(t, x)
    BY <1>2
  <2>2. Busy' = Busy \cup {t} /\ t \notin Busy
    BY <2>1, PoolAssumption DEF TakeStep, Busy, RInv, IInv
  <2>3. Cardinality(Busy') = nB + 1
    BY <1>1, <2>2, FS_AddElement
  <2>4. nB <= nT - 1
    BY <2>1, BusyBound DEF TakeStep
  <2>5. Cardinality(Busy') + Cardinality(Pooled') <= nT
    <3>1. CASE x \in Pooled
      <4>1. Cardinality(Pooled') = nP - 1
        BY <1>1, <2>1, <3>1, FS_RemoveElement DEF TakeStep
      <4>. QED
        BY <1>1, <2>3, <4>1 DEF BInv
    <3>2. CASE Pooled = {}
      <4>1. Pooled' = {}
        BY <2>1, <3>2 DEF TakeStep
      <4>2. Cardinality(Pooled') = 0
        BY <4>1, FS_EmptySet
      <4>. QED
        BY <1>1, <2>3, <2>4, <4>2
    <3>. QED
      BY <2>1, <3>1, <3>2 DEF TakeStep
  <2>. QED
    BY <2>1, <2>5 DEF TakeStep, BInv
<1>3. CASE \E t \in Threads : GiveStep(t)
  <2>1. PICK t \in Threads : GiveStep(t)
    BY <1>3
  <2>2. Busy' = Busy \ {t} /\ t \in Busy
    BY <2>1 DEF GiveStep, Busy, RInv, IInv
  <2>3. Cardinality(Busy') = nB - 1 /\ nB >= 1
    <3>1. Cardinality(Busy') = nB - 1
      BY <1>1, <2>2, FS_RemoveElement
    <3>2. nB # 0
      BY <1>1, <2>2, FS_EmptySet
    <3>. QED
      BY <1>1, <3>1, <3>2
  <2>4. IsFiniteSet(Pooled') /\ Cardinality(Pooled') \in Nat
        /\ Cardinality(Pooled') <= nP + 1
    <3>1. Pooled' = Pooled \cup {fp[t]}
      BY <2>1 DEF GiveStep
    <3>2. /\ IsFiniteSet(Pooled \cup {fp[t]})
          /\ Cardinality(Pooled \cup {fp[t]}) =
               IF fp[t] \in Pooled THEN nP ELSE nP + 1
      BY <1>1, FS_AddElement
    <3>3. Cardinality(Pooled \cup {fp[t]}) \in Nat
      BY <3>2, FS_CardinalityType
    <3>. QED
      BY <1>1, <3>1, <3>2, <3>3
  <2>5. Len(fp_tab') <= nT + 3
    <3>1. CASE Len(fp_tab') = Len(fp_tab)
      BY <3>1 DEF BInv
    <3>2. CASE FreeSlots = {} /\ Len(fp_tab') = Len(fp_tab) + 4
      <4>1. FullSlots = 1 .. Len(fp_tab) /\ Len(fp_tab) \in Nat
        BY <3>2 DEF FreeSlots, FullSlots, RInv, IInv
      <4>2. Cardinality(FullSlots) = Len(fp_tab)
        <5>1. Cardinality(1 .. Len(fp_tab)) = IF 1 > Len(fp_tab) THEN 0 ELSE Len(fp_tab) - 1 + 1
          BY <4>1, FS_Interval
        <5>. QED
          BY <4>1, <5>1
      <4>3. nP = Len(fp_tab)
        BY <4>2, PooledCard DEF RInv
      <4>. QED
        BY <1>1, <2>3, <3>2, <4>1, <4>3 DEF BInv
    <3>. QED
      BY <2>1, <3>1, <3>2 DEF GiveStep
  <2>. QED
    BY <1>1, <2>3, <2>4, <2>5 DEF BInv
<1>4. CASE UNCHANGED <<fp_tab, fp, opened>>
  BY <1>4 DEF BInv, Busy, Pooled
<1>. QED
  BY <1>2, <1>3, <1>4, StepKinds

\* For any finite number of FUSE reader threads and any set of pointers,
\* and when REALLOC does not fail: the pool never has more FILE pointers
\* open than there are readers, and fp_tab never has more than 3 slots
\* beyond the readers (a new pointer is opened only when none is kept, and
\* the table grows by 4 only when every slot is full).
THEOREM PoolBounded ==
    ASSUME ~ReallocFails, IsFiniteSet(Threads)
    PROVE  Spec => []FpsBounded
<1>. DEFINE FInv == RInv /\ FpAccounted /\ BInv
<1>1. Init => FInv
  <2>. SUFFICES ASSUME Init PROVE FInv
    OBVIOUS
  <2>1. RInv /\ FpAccounted
    BY InitIInv, InitCInv DEF RInv, Init, FpAccounted, Held, Pooled, Range
  <2>2. Busy = {} /\ Pooled = {} /\ Len(fp_tab) = 0
    BY PoolAssumption DEF Init, Busy, Pooled, Range
  <2>3. Cardinality(Threads) \in Nat
    BY FS_CardinalityType
  <2>. QED
    BY <2>1, <2>2, <2>3, FS_EmptySet DEF BInv
<1>2. FInv /\ [Next]_vars => FInv'
  <2>. SUFFICES ASSUME FInv, [Next]_vars PROVE FInv'
    OBVIOUS
  <2>1. (RInv /\ FpAccounted)'
    BY NextIInv, NextCInv, NextAccounted DEF RInv
  <2>2. BInv'
    BY NextBInv
  <2>. QED
    BY <2>1, <2>2
<1>3. FInv => FpsBounded
  BY BoundsFromInv
<1>. QED
  BY <1>1, <1>2, <1>3, PTL DEF Spec

-----------------------------------------------------------------------------
(* The locking discipline of fp_tab_mutex.                                 *)

\* For any threads and pointers, with or without fopen and REALLOC faults:
\* fp_tab changes only while a thread holds fp_tab_mutex, and a thread's
\* FILE pointer changes only while that thread holds it (wim_get_fp and
\* wim_release_fp run their bodies between lock and unlock).
THEOREM PoolLocked == Spec => PoolChangesLocked
<1>. DEFINE Locked == /\ fp_tab' # fp_tab => mutex \in Threads
                      /\ \A t \in Threads : fp'[t] # fp[t] => mutex = t
<1>1. RInv /\ [Next]_vars => [Locked]_vars
  <2>. SUFFICES ASSUME RInv, [Next]_vars PROVE [Locked]_vars
    OBVIOUS
  <2>1. fp \in [Threads -> Fps \cup {Null}]
    BY DEF RInv, CInv, TypeOK
  <2>2. ASSUME NEW t \in Threads, GetFp(t) \/ ReleaseFp(t)
        PROVE  Locked
    <3>1. pc[t] \in {"get_fp", "release_fp"}
      BY <2>2 DEF GetFp, GetFpBody, ReleaseFp
    <3>2. mutex = t
      BY <3>1 DEF RInv, CInv
    <3>3. fp' = fp \/ \E f : fp' = [fp EXCEPT ![t] = f]
      BY <2>2 DEF GetFp, GetFpBody, ReleaseFp
    <3>4. \A u \in Threads : u # t => fp'[u] = fp[u]
      BY <3>3, <2>1
    <3>5. QED
      BY <3>2, <3>4
  <2>3. ASSUME NEW t \in Threads, Call(t) \/ Lock(t) \/ Read(t)
        PROVE  Locked
    BY <2>3 DEF Call, Lock, Read
  <2>4. CASE Finished \/ UNCHANGED vars
    BY <2>4 DEF Finished, vars
  <2>5. QED
    BY <2>2, <2>3, <2>4 DEF Next, Thread
<1>2. Init => RInv
  BY InitIInv, InitCInv DEF RInv
<1>3. RInv /\ [Next]_vars => RInv'
  BY NextIInv, NextCInv DEF RInv
<1>4. Spec => [][Next]_vars /\ []RInv
  BY <1>2, <1>3, PTL DEF Spec
<1>5. [][Next]_vars /\ []RInv => [][Locked]_vars
  BY <1>1, PTL
<1>6. QED
  BY <1>4, <1>5 DEF PoolChangesLocked

====
