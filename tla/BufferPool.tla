---------------------------- MODULE BufferPool ----------------------------
(***************************************************************************)
(* The buffers that decompressed files are read from: io/buffer.rs and its *)
(* use by decompress_zstd of io/compression.rs.                            *)
(*                                                                         *)
(* A decoded region does not copy the packed sections out of the file's    *)
(* bytes; its sections are slices that share the buffer (an Arc).  With    *)
(* the last of them the buffer goes to the pool of the thread that dropped *)
(* it, if it is large enough and the pool has room, and is overwritten by  *)
(* a later file.                                                           *)
(*                                                                         *)
(* The slices that one owner has of a buffer come and go together and are  *)
(* one reference here, named after the owner.                              *)
(***************************************************************************)
EXTENDS Integers, Sequences, FiniteSets

CONSTANTS
  Threads,
  Buffers,            \* bound: addresses of buffers
  MIN_POOL_CAPACITY,
  MAX_POOL_DEPTH

ASSUME PoolOK == MIN_POOL_CAPACITY \in Nat \ {0} /\ MAX_POOL_DEPTH \in Nat

VARIABLE heap  \* memory: the allocated buffers; pool: POOL of each thread

NoData == <<>>

EmptyHeap == [memory |-> <<>>, pool |-> [t \in Threads |-> <<>>]]

Allocated(h) == DOMAIN h.memory

(* Whoever calls it does not see which address it is given.                *)
Unused(h) == CHOOSE b \in Buffers \ Allocated(h) : TRUE

(* Bound: two more buffers can be allocated. *)
HasRoom(h) == \E b, c \in Buffers \ Allocated(h) : b # c

Allocate(h, capacity, element) ==
  [h EXCEPT !.memory =
     [b \in Allocated(h) \cup {Unused(h)} |->
        IF b = Unused(h)
        THEN [capacity |-> capacity, element |-> element, data |-> NoData, refs |-> {}]
        ELSE h.memory[b]]]

Deallocate(h, b) == [h EXCEPT !.memory = [c \in Allocated(h) \ {b} |-> h.memory[c]]]

-----------------------------------------------------------------------------
(* take_pooled_buffer                                                      *)

(* The last takes the place of the one that is removed.                    *)
SwapRemove(seq, i) ==
  [k \in 1..(Len(seq) - 1) |-> IF k = i THEN seq[Len(seq)] ELSE seq[k]]

Fitting(h, t, min_cap) ==
  {i \in DOMAIN h.pool[t] : h.memory[h.pool[t][i]].capacity >= min_cap}

FirstFit(h, t, min_cap) ==
  CHOOSE i \in Fitting(h, t, min_cap) : \A k \in Fitting(h, t, min_cap) : i <= k

TakenBuffer(h, t, min_cap) ==
  IF Fitting(h, t, min_cap) = {} THEN Unused(h) ELSE h.pool[t][FirstFit(h, t, min_cap)]

TakePooledBuffer(h, t, min_cap) ==
  IF Fitting(h, t, min_cap) = {}
  THEN Allocate(h, min_cap, "u8")
  ELSE [h EXCEPT !.pool[t] = SwapRemove(@, FirstFit(h, t, min_cap))]

-----------------------------------------------------------------------------
(* PooledBytes                                                             *)

(* from_vec, of a buffer that nothing refers to.                           *)
FromVec(h, b, data, owner) ==
  [h EXCEPT !.memory[b].data = data, !.memory[b].refs = {owner}]

(* slice and clone.                                                        *)
Share(h, b, owner) == [h EXCEPT !.memory[b].refs = @ \cup {owner}]

DropEntryMutant(h, t, b) ==
  IF Len(h.pool[t]) < MAX_POOL_DEPTH
  THEN [h EXCEPT !.memory[b].data = NoData, !.pool[t] = Append(@, b)]
  ELSE Deallocate(h, b)

(* PoolEntry::drop.                                                        *)
DropEntry(h, t, b) ==
  IF h.memory[b].capacity >= MIN_POOL_CAPACITY /\ Len(h.pool[t]) < MAX_POOL_DEPTH
  THEN [h EXCEPT !.memory[b].data = NoData, !.pool[t] = Append(@, b)]
  ELSE Deallocate(h, b)

HeldBy(h, owner) == {b \in Allocated(h) : owner \in h.memory[b].refs}

ReleaseMutant(h, t, owner) ==
  IF HeldBy(h, owner) = {} THEN h
  ELSE LET b == CHOOSE b \in HeldBy(h, owner) : TRUE
           released == [h EXCEPT !.memory[b].refs = @ \ {owner}]
       IN  DropEntry(released, t, b)

(* An owner drops its slices, and the last owner the entry.                *)
Release(h, t, owner) ==
  IF HeldBy(h, owner) = {} THEN h
  ELSE LET b == CHOOSE b \in HeldBy(h, owner) : TRUE
           released == [h EXCEPT !.memory[b].refs = @ \ {owner}]
       IN  IF released.memory[b].refs = {} THEN DropEntry(released, t, b) ELSE released

-----------------------------------------------------------------------------
(* decompress_zstd, followed by from_vec as its callers do                 *)

(* How a file may be: one frame with its size in its header ("sized"), as  *)
(* all that this code writes; without ("unsized"); several frames, the     *)
(* first with its size ("several"); damaged.  What is decoded has all      *)
(* bytes; the bulk decompressor needs a buffer that has room for them.     *)
Decompresses(frame) == frame.kind # "damaged"

HasContentSize(frame) == frame.kind \in {"sized", "several"}

IsDecompressedInto(h, b, frame) ==
  HasContentSize(frame) /\ h.memory[b].capacity >= frame.all

Decompressed(h, t, frame, data, owner) ==
  LET min_cap == IF HasContentSize(frame) THEN frame.size ELSE 0
      b == TakenBuffer(h, t, min_cap)
      taken == TakePooledBuffer(h, t, min_cap)
      decoded_all == Allocate(Deallocate(taken, b), frame.all, "u8")
  IN  IF ~Decompresses(frame) THEN Deallocate(taken, b)
      ELSE IF IsDecompressedInto(taken, b, frame) THEN FromVec(taken, b, data, owner)
      ELSE FromVec(decoded_all, Unused(Deallocate(taken, b)), data, owner)

-----------------------------------------------------------------------------

(***************************************************************************)
(* A pooled buffer is in one pool once, nothing refers to it, its memory   *)
(* was allocated as bytes (and not as the words of a section packed in     *)
(* memory, vec_u64_to_bytes) and holds no old contents; no pool is larger  *)
(* than its limits; every other buffer is kept by someone or freed.        *)
(***************************************************************************)
PoolIsSound ==
  /\ \A t \in Threads : Len(heap.pool[t]) <= MAX_POOL_DEPTH
  /\ \A t, u \in Threads : \A i \in DOMAIN heap.pool[t], j \in DOMAIN heap.pool[u] :
       heap.pool[t][i] = heap.pool[u][j] => t = u /\ i = j
  /\ \A t \in Threads : \A i \in DOMAIN heap.pool[t] :
       /\ heap.pool[t][i] \in Allocated(heap)
       /\ LET entry == heap.memory[heap.pool[t][i]]
          IN  /\ entry.refs = {}
              /\ entry.element = "u8"
              /\ entry.capacity >= MIN_POOL_CAPACITY
              /\ entry.data = NoData
  /\ \A b \in Allocated(heap) :
       heap.memory[b].refs = {} =>
         \E t \in Threads : \E i \in DOMAIN heap.pool[t] : heap.pool[t][i] = b

=============================================================================
