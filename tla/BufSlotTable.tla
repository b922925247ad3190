---------------------------- MODULE BufSlotTable ----------------------------
(***************************************************************************)
(* The output-buffer handle table that each native extension shim keeps   *)
(* (openssl_shim.c, zlib_shim.c): two static arrays g_bufs[MAX_BUFS] and   *)
(* g_lens[MAX_BUFS] indexed by a u32 handle.  Handle 0 is never handed out *)
(* (it is the failure value of every *_alloc entry point); a slot is free  *)
(* when g_bufs[slot] is the NULL pointer.                                  *)
(*                                                                         *)
(* The process heap is part of the state so that leaks, dangling slots and *)
(* double frees are visible: heap maps each live malloc'd address to the   *)
(* block stored there, a record of its allocation size and the bytes the   *)
(* shim itself wrote into it (bytes written by libcrypto or zlib are       *)
(* opaque and not kept).                                                   *)
(***************************************************************************)
EXTENDS Naturals, Sequences, FiniteSetsExt, Functions, TLC

CONSTANTS
  MAX_BUFS,  \* X07_EXT_*_MAX_BUFS: the number of slots, slot 0 included
  Addrs,     \* the heap addresses malloc can return
  NULL       \* the null pointer

ASSUME MAX_BUFS \in Nat /\ MAX_BUFS >= 2
ASSUME NULL \notin Addrs

VARIABLES
  g_bufs,    \* slot -> address of the buffer it owns, or NULL
  g_lens,    \* slot -> the length recorded for that buffer
  heap       \* live address -> [size |-> n, data |-> bytes the shim wrote]

tableVars == <<g_bufs, g_lens, heap>>

Slots == 0 .. MAX_BUFS - 1

Byte == 0 .. 255

Block == [size : Nat, data : Seq(Byte)]

TableTypeOK ==
  /\ g_bufs \in [Slots -> Addrs \cup {NULL}]
  /\ g_lens \in [Slots -> Nat]
  /\ DOMAIN heap \subseteq Addrs
  /\ \A a \in DOMAIN heap : heap[a] \in Block

TableInit ==
  /\ g_bufs = [s \in Slots |-> NULL]     \* static storage is zeroed
  /\ g_lens = [s \in Slots |-> 0]
  /\ heap = [a \in {} |-> 0]

(***************************************************************************)
(* malloc: the lowest free address, or NULL when the heap is exhausted.    *)
(* The choice of address is immaterial; taking the lowest keeps a          *)
(* malloc followed by free from changing the state.  Whether malloc may    *)
(* also fail on a heap that is not exhausted is the caller's choice.       *)
(***************************************************************************)
CanMalloc == Addrs \ DOMAIN heap # {}

FreshAddr == Min(Addrs \ DOMAIN heap)

FreeBlock(h, a) == Restrict(h, DOMAIN h \ {a})

(***************************************************************************)
(* alloc_buf_slot(): the first slot from 1 whose g_bufs entry is NULL, or  *)
(* 0 when every slot is taken.                                             *)
(***************************************************************************)
AllocBufSlotReturnsBound ==   \* seeded fault: "return MAX_BUFS" when full
  LET free == {i \in 1 .. MAX_BUFS - 1 : g_bufs[i] = NULL}
  IN IF free = {} THEN MAX_BUFS ELSE Min(free)

AllocBufSlot ==
  LET free == {i \in 1 .. MAX_BUFS - 1 : g_bufs[i] = NULL}
  IN IF free = {} THEN 0 ELSE Min(free)

(* buf_len(handle) and buf_ptr(handle): 0 / NULL outside 1..MAX_BUFS-1.    *)
BufLen(handle) ==
  IF handle = 0 \/ handle >= MAX_BUFS THEN 0 ELSE g_lens[handle]

BufPtr(handle) ==
  IF handle = 0 \/ handle >= MAX_BUFS THEN NULL ELSE g_bufs[handle]

(***************************************************************************)
(* buf_free(handle): an out-of-range handle returns at once (a stutter);   *)
(* otherwise the buffer, if any, is freed and the slot cleared.            *)
(***************************************************************************)
BufFree(handle) ==
  /\ handle # 0 /\ handle < MAX_BUFS
  /\ heap' = IF g_bufs[handle] = NULL THEN heap
             ELSE FreeBlock(heap, g_bufs[handle])
  /\ g_bufs' = [g_bufs EXCEPT ![handle] = NULL]
  /\ g_lens' = [g_lens EXCEPT ![handle] = 0]

(***************************************************************************)
(* The tail every *_alloc entry point shares once its output block `blk`   *)
(* has been malloc'd: with a free slot, g_bufs[slot] = buf and             *)
(* g_lens[slot] = len; on a full table, free(buf) and fail.                *)
(***************************************************************************)
StoreBlock(slot, blk, len) ==
  LET a == FreshAddr IN
  /\ heap' = heap @@ (a :> blk)
  /\ g_bufs' = [g_bufs EXCEPT ![slot] = a]
  /\ g_lens' = [g_lens EXCEPT ![slot] = len]

SlotExhaustedLeaks(blk) ==     \* seeded fault: the free(buf) is missing
  /\ heap' = heap @@ (FreshAddr :> blk)
  /\ UNCHANGED <<g_bufs, g_lens>>

SlotExhausted(blk) ==
  /\ heap' = heap             \* buf = malloc(..); ...; free(buf)
  /\ UNCHANGED <<g_bufs, g_lens>>

PublishBlock(blk, len) ==
  IF AllocBufSlot # 0 THEN StoreBlock(AllocBufSlot, blk, len)
  ELSE SlotExhausted(blk)

=============================================================================
