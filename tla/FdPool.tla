------------------------------- MODULE FdPool -------------------------------
(***************************************************************************)
(* The pool of FILE pointers of a WIM that FUSE reader threads share      *)
(* (resource.c, WITH_FUSE): read_wim_resource with                        *)
(* WIMLIB_RESOURCE_FLAG_MULTITHREADED takes a pointer with wim_get_fp,    *)
(* reads through it, and gives it back with wim_release_fp.  Both         *)
(* functions run under fp_tab_mutex.  fp_tab is a sequence whose length   *)
(* is num_allocated_fps; an empty slot holds Null.                        *)
(***************************************************************************)
EXTENDS Naturals, Sequences, FiniteSets, Functions

CONSTANTS
    Threads,       \* the FUSE reader threads
    Fps,           \* the FILE pointers the process can have open at once
    Null,          \* NULL
    MaxReads,      \* reads each thread makes (bounds the model)
    OpenFaults,    \* whether fopen may fail below the descriptor limit
    ReallocFails   \* whether REALLOC of fp_tab may fail

ASSUME PoolAssumption ==
    /\ Null \notin Fps \cup Threads
    /\ MaxReads \in Nat
    /\ OpenFaults \in BOOLEAN
    /\ ReallocFails \in BOOLEAN

VARIABLES
    fp_tab,  \* w->fp_tab[0 .. num_allocated_fps - 1]
    mutex,   \* the thread holding fp_tab_mutex, or Null
    pc,      \* where each thread is in read_wim_resource
    fp,      \* the FILE pointer each thread has taken, or Null
    opened,  \* the FILE pointers open in the process
    reads,   \* the reads each thread has finished
    ret      \* what each thread's last read returned

vars == <<fp_tab, mutex, pc, fp, opened, reads, ret>>

Pooled == Range(fp_tab) \ {Null}
Held == Range(fp) \ {Null}

\* The empty and the filled slots of fp_tab; the loops scan from index 0,
\* so each stops at the first slot of its kind.
FreeSlots == {i \in DOMAIN fp_tab : fp_tab[i] = Null}
FullSlotsFromSecond == {i \in 2 .. Len(fp_tab) : fp_tab[i] # Null}
FullSlots == {i \in DOMAIN fp_tab : fp_tab[i] # Null}
IsFirst(i, S) == i \in S /\ \A j \in S : i <= j

Init ==
    /\ fp_tab = <<>>
    /\ mutex = Null
    /\ pc = [t \in Threads |-> "idle"]
    /\ fp = [t \in Threads |-> Null]
    /\ opened = {}
    /\ reads = [t \in Threads |-> 0]
    /\ ret = [t \in Threads |-> "ok"]

\* A FUSE callback calls read_wim_resource with the multithreaded flag.
Call(t) ==
    /\ pc[t] = "idle"
    /\ reads[t] < MaxReads
    /\ pc' = [pc EXCEPT ![t] = "get"]
    /\ UNCHANGED <<fp_tab, mutex, fp, opened, reads, ret>>

LockMissing(t) ==
    /\ pc[t] \in {"get", "release"}
    /\ pc' = [pc EXCEPT ![t] = IF @ = "get" THEN "get_fp" ELSE "release_fp"]
    /\ UNCHANGED <<fp_tab, mutex, fp, opened, reads, ret>>
\* pthread_mutex_lock at the start of wim_get_fp or wim_release_fp.
Lock(t) ==
    /\ pc[t] \in {"get", "release"}
    /\ mutex = Null
    /\ mutex' = t
    /\ pc' = [pc EXCEPT ![t] = IF @ = "get" THEN "get_fp" ELSE "release_fp"]
    /\ UNCHANGED <<fp_tab, fp, opened, reads, ret>>

\* The body of wim_get_fp: the first pooled pointer is taken out of
\* fp_tab; with none, a new one is opened, and a failed fopen makes
\* read_wim_resource return WIMLIB_ERR_OPEN.
GetFpBodyNoClear(t) ==
    /\ pc[t] = "get_fp"
    /\ IF FullSlots # {}
         THEN /\ \E i \in FullSlots :
                   IsFirst(i, FullSlots) /\ fp' = [fp EXCEPT ![t] = fp_tab[i]]
              /\ pc' = [pc EXCEPT ![t] = "read"]
              /\ UNCHANGED <<fp_tab, opened, reads, ret>>
         ELSE /\ \E f \in Fps \ opened :
                   /\ fp' = [fp EXCEPT ![t] = f]
                   /\ opened' = opened \cup {f}
                   /\ pc' = [pc EXCEPT ![t] = "read"]
              /\ UNCHANGED <<fp_tab, reads, ret>>
GetFpBody(t) ==
    /\ pc[t] = "get_fp"
    /\ IF FullSlots # {}
         THEN /\ \E i \in FullSlots :
                   /\ IsFirst(i, FullSlots)
                   /\ fp' = [fp EXCEPT ![t] = fp_tab[i]]
                   /\ fp_tab' = [fp_tab EXCEPT ![i] = Null]
              /\ pc' = [pc EXCEPT ![t] = "read"]
              /\ UNCHANGED <<opened, reads, ret>>
         ELSE /\ \/ \E f \in Fps \ opened :
                       /\ fp' = [fp EXCEPT ![t] = f]
                       /\ opened' = opened \cup {f}
                       /\ pc' = [pc EXCEPT ![t] = "read"]
                       /\ UNCHANGED <<reads, ret>>
                 \/ /\ OpenFaults \/ opened = Fps
                    /\ pc' = [pc EXCEPT ![t] = "idle"]
                    /\ reads' = [reads EXCEPT ![t] = @ + 1]
                    /\ ret' = [ret EXCEPT ![t] = "open"]
                    /\ UNCHANGED <<fp, opened>>
              /\ UNCHANGED fp_tab

GetFpNoUnlock(t) ==
    /\ GetFpBody(t)
    /\ mutex' = IF FullSlots # {} THEN t ELSE Null
\* wim_get_fp: its body, then pthread_mutex_unlock at out.
GetFp(t) ==
    /\ GetFpBody(t)
    /\ mutex' = Null

\* The read itself (read_compressed_resource or read_uncompressed_resource
\* on the thread's own pointer), which succeeds or fails.
Read(t) ==
    /\ pc[t] = "read"
    /\ pc' = [pc EXCEPT ![t] = "release"]
    /\ \E r \in {"ok", "read"} : ret' = [ret EXCEPT ![t] = r]
    /\ UNCHANGED <<fp_tab, mutex, fp, opened, reads>>

\* The body of wim_release_fp, then the unlock: the pointer goes to the
\* first empty slot; with none, fp_tab grows by 4 slots and the pointer
\* goes to the first new one.  When REALLOC fails, the pointer is neither
\* stored nor closed, and WIMLIB_ERR_NOMEM replaces a successful read's 0.
ReleaseFpStoreBeforeMemset(t) ==
    /\ pc[t] = "release_fp"
    /\ mutex' = Null
    /\ pc' = [pc EXCEPT ![t] = "idle"]
    /\ fp' = [fp EXCEPT ![t] = Null]
    /\ reads' = [reads EXCEPT ![t] = @ + 1]
    /\ IF FreeSlots # {}
         THEN \E i \in FreeSlots :
                 IsFirst(i, FreeSlots) /\ fp_tab' = [fp_tab EXCEPT ![i] = fp[t]]
         ELSE fp_tab' = fp_tab \o <<Null, Null, Null, Null>>
    /\ UNCHANGED <<opened, ret>>
ReleaseFpNoMemset(t) ==
    /\ pc[t] = "release_fp"
    /\ mutex' = Null
    /\ pc' = [pc EXCEPT ![t] = "idle"]
    /\ fp' = [fp EXCEPT ![t] = Null]
    /\ reads' = [reads EXCEPT ![t] = @ + 1]
    /\ \/ /\ \E i \in FreeSlots :
                IsFirst(i, FreeSlots) /\ fp_tab' = [fp_tab EXCEPT ![i] = fp[t]]
          /\ UNCHANGED ret
       \/ /\ FreeSlots = {}
          /\ \E g \in {Null, "uninit"} : fp_tab' = fp_tab \o <<fp[t], g, g, g>>
          /\ UNCHANGED ret
       \/ /\ FreeSlots = {} /\ ReallocFails
          /\ ret' = [ret EXCEPT ![t] = IF @ = "ok" THEN "nomem" ELSE @]
          /\ UNCHANGED fp_tab
    /\ UNCHANGED opened
ReleaseFp(t) ==
    /\ pc[t] = "release_fp"
    /\ mutex' = Null
    /\ pc' = [pc EXCEPT ![t] = "idle"]
    /\ fp' = [fp EXCEPT ![t] = Null]
    /\ reads' = [reads EXCEPT ![t] = @ + 1]
    /\ \/ /\ \E i \in FreeSlots :
                IsFirst(i, FreeSlots) /\ fp_tab' = [fp_tab EXCEPT ![i] = fp[t]]
          /\ UNCHANGED ret
       \/ /\ FreeSlots = {}
          /\ fp_tab' = fp_tab \o <<fp[t], Null, Null, Null>>
          /\ UNCHANGED ret
       \/ /\ FreeSlots = {} /\ ReallocFails
          /\ ret' = [ret EXCEPT ![t] = IF @ = "ok" THEN "nomem" ELSE @]
          /\ UNCHANGED fp_tab
    /\ UNCHANGED opened

\* Every thread has made its reads; the mount stays up without reading.
Finished ==
    /\ \A t \in Threads : pc[t] = "idle" /\ reads[t] = MaxReads
    /\ UNCHANGED vars

Thread(t) == Call(t) \/ Lock(t) \/ GetFp(t) \/ Read(t) \/ ReleaseFp(t)

Next == (\E t \in Threads : Thread(t)) \/ Finished

\* The scheduler runs every runnable thread: a thread whose next step is
\* enabled for good takes it.  Blocked on the mutex, a thread is runnable
\* only while nobody holds it.
Fairness == \A t \in Threads : WF_vars(Thread(t))

Spec == Init /\ [][Next]_vars /\ Fairness

-----------------------------------------------------------------------------
(* Properties                                                              *)

TypeOK ==
    /\ fp_tab \in Seq(Fps \cup {Null})
    /\ mutex \in Threads \cup {Null}
    /\ pc \in [Threads -> {"idle", "get", "get_fp", "read", "release", "release_fp"}]
    /\ fp \in [Threads -> Fps \cup {Null}]
    /\ opened \subseteq Fps
    /\ reads \in [Threads -> 0 .. MaxReads]
    /\ ret \in [Threads -> {"ok", "open", "read", "nomem"}]

\* No FILE pointer is used by two threads at once, nor handed out while
\* fp_tab still offers it, nor kept in two slots: whatever order the
\* threads take and give back pointers under fp_tab_mutex, and whether the
\* pool hands out a kept pointer or opens a new one.
Exclusive ==
    /\ \A t, u \in Threads : t # u /\ fp[t] # Null => fp[t] # fp[u]
    /\ Held \cap Pooled = {}
    /\ \A i, j \in FullSlots : fp_tab[i] = fp_tab[j] => i = j

\* fp_tab and the threads' FILE pointers change only inside wim_get_fp and
\* wim_release_fp, under fp_tab_mutex: a step that changes fp_tab is taken
\* while some thread holds the mutex, and a step that gives a thread a
\* pointer or takes it back is taken while that thread holds it.
PoolChangesLocked ==
    [][ /\ fp_tab' # fp_tab => mutex \in Threads
        /\ \A t \in Threads : fp'[t] # fp[t] => mutex = t ]_vars

\* Every FILE pointer opened for the pool is held by a thread or kept in
\* fp_tab, so that freeing the WIM can close it (wim_release_fp).
FpAccounted == opened = Held \cup Pooled

\* The pool opens a new descriptor only when it keeps none, so it never
\* has more open than there are readers, and fp_tab grows by 4 slots only
\* when all are in use, so it has fewer than 4 slots beyond the readers.
FpsBounded ==
    /\ Cardinality(opened) <= Cardinality(Threads)
    /\ Len(fp_tab) <= Cardinality(Threads) + 3

\* Every call of read_wim_resource returns: the mutex is released on every
\* path of wim_get_fp and wim_release_fp, and no thread waits for it
\* forever.
CallsReturn == \A t \in Threads : pc[t] # "idle" ~> pc[t] = "idle"

\* The pool implements the file-handle pool of the spec: the slots of
\* fp_tab are the handles it keeps, and fp the handles the readers own.
Pool == INSTANCE FilePool WITH free <- Pooled, held <- fp
ImplementsFilePool == Pool!Spec

====
