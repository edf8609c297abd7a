----------------------------- MODULE BufferPool -----------------------------
(***************************************************************************)
(* BufferPool on top of MemoryRegistry (rdma/): buffers that several       *)
(* threads borrow and give back.                                           *)
(*                                                                         *)
(* Acquire and Release each run under the pool's mutex.  A thread gives    *)
(* back what it has borrowed, and may by mistake give it back a second     *)
(* time, before it borrows again (the code answers that by looking in      *)
(* free_keys_).                                                            *)
(* The registry is shared with its owner, which registers memory of its    *)
(* own (RdmaClient::SubmitTask) but releases no buffer of the pool, so     *)
(* Lookup finds every key of the pool.                                     *)
(***************************************************************************)
EXTENDS Naturals, Sequences, FiniteSets

CONSTANTS
  Threads,       \* users of the pool
  Buffers,       \* BufferPoolConfig.buffers
  MaxRegions     \* bound on the regions registered

ASSUME PoolAssumption ==
  /\ Buffers \in Nat /\ MaxRegions \in Nat
  /\ Buffers <= MaxRegions

None == 0        \* no region; keys are "mr-1", "mr-2", ...

VARIABLES
  regions,       \* keys of MemoryRegistry::regions_
  nextRegion,    \* next_region_id_
  free,          \* free_keys_
  knownKeys,     \* known_keys_
  held,          \* thread -> the buffer it has borrowed
  last,          \* thread -> the buffer it gave back last, until it borrows
  misused        \* history: a buffer was given back while another used it

poolVars == <<regions, nextRegion, free, knownKeys, held, last, misused>>

(* The constructor has registered the configured number of buffers. *)
PoolInit ==
  /\ regions = 1 .. Buffers
  /\ nextRegion = Buffers
  /\ free = [i \in 1 .. Buffers |-> i]
  /\ knownKeys = 1 .. Buffers
  /\ held = [t \in Threads |-> None]
  /\ last = [t \in Threads |-> None]
  /\ misused = FALSE

FreeKeys == {free[i] : i \in DOMAIN free}
HeldKeys == {held[t] : t \in Threads} \ {None}

(* MemoryRegistry::Register: a fresh key. *)
Register ==
  /\ nextRegion < MaxRegions
  /\ nextRegion' = nextRegion + 1
  /\ regions' = regions \cup {nextRegion + 1}

(* Mutated form: the front key is copied, not taken. *)
AcquireFreeShared(t) ==
  /\ held[t] = None
  /\ free # <<>>
  /\ held' = [held EXCEPT ![t] = Head(free)]
  /\ last' = [last EXCEPT ![t] = None]
  /\ UNCHANGED <<regions, nextRegion, knownKeys, free, misused>>

(* Acquire with a free buffer. *)
AcquireFree(t) ==
  /\ held[t] = None
  /\ free # <<>>
  /\ held' = [held EXCEPT ![t] = Head(free)]
  /\ last' = [last EXCEPT ![t] = None]
  /\ free' = Tail(free)
  /\ UNCHANGED <<regions, nextRegion, knownKeys, misused>>

(* Acquire without one: the pool grows. *)
AcquireNew(t) ==
  /\ held[t] = None
  /\ free = <<>>
  /\ Register
  /\ knownKeys' = knownKeys \cup {nextRegion'}
  /\ held' = [held EXCEPT ![t] = nextRegion']
  /\ last' = [last EXCEPT ![t] = None]
  /\ UNCHANGED <<free, misused>>

(* Mutated form: every key given back is appended. *)
PutBackAlways(key) == Append(free, key)

(* free_keys_ after Release(key): unknown and already free keys are       *)
(* ignored.                                                                *)
PutBack(key) ==
  IF key \in knownKeys /\ key \notin FreeKeys THEN Append(free, key) ELSE free

Release(t) ==
  /\ held[t] # None
  /\ free' = PutBack(held[t])
  /\ held' = [held EXCEPT ![t] = None]
  /\ last' = [last EXCEPT ![t] = held[t]]
  /\ UNCHANGED <<regions, nextRegion, knownKeys, misused>>

(* The same key once more, perhaps after another thread has borrowed it. *)
ReleaseAgain(t) ==
  /\ last[t] # None
  /\ free' = PutBack(last[t])
  /\ last' = [last EXCEPT ![t] = None]
  /\ misused' = (misused \/ last[t] \in HeldKeys)
  /\ UNCHANGED <<regions, nextRegion, knownKeys, held>>

(* The owner of the registry registers memory that is not the pool's. *)
RegisterOther ==
  /\ Register
  /\ UNCHANGED <<free, knownKeys, held, last, misused>>

PoolNext ==
  \/ \E t \in Threads :
       AcquireFree(t) \/ AcquireNew(t) \/ Release(t) \/ ReleaseAgain(t)
  \/ RegisterOther

PoolSpec == PoolInit /\ [][PoolNext]_poolVars

-----------------------------------------------------------------------------
(***************************************************************************)
(* Properties                                                              *)
(***************************************************************************)

(* Every buffer the pool has ever made is registered and is free or        *)
(* borrowed, and none is listed free twice: releases, repeated ones        *)
(* included, and growth under load lose and double none of them.           *)
NoKeyLost ==
  /\ knownKeys = FreeKeys \cup HeldKeys /\ knownKeys \subseteq regions
  /\ \A i, j \in DOMAIN free : free[i] = free[j] => i = j

(* Two threads never write into the same buffer: what is borrowed is       *)
(* neither free nor borrowed by another thread.  Repeated releases do not  *)
(* change that, unless one comes after the buffer was borrowed again,      *)
(* which Release cannot tell from a first one.                             *)
Exclusive ==
  ~misused =>
    /\ HeldKeys \cap FreeKeys = {}
    /\ \A s, t \in Threads : held[s] # None /\ held[s] = held[t] => s = t
=============================================================================
