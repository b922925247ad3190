------------------------- MODULE OpensslShimThreads -------------------------
(***************************************************************************)
(* rand_bytes_alloc of x07-ext-openssl-c 0.1.3 (ffi/openssl_shim.c) run    *)
(* by several threads of one process, each call split at the points where *)
(* another thread can observe the shared table:                            *)
(*   Begin  -- lines 110-139: build the Result document in a private      *)
(*             malloc'd buffer (malloc is thread-safe; nothing shared);   *)
(*   Scan   -- line 141: alloc_buf_slot() reads g_bufs for a NULL entry;   *)
(*   Store  -- lines 146-149: g_bufs[slot] = doc, g_lens[slot] = need.     *)
(* The table has no lock.  Spec section 5 lets independent instances be    *)
(* driven from different threads and prescribes no locking for buf-slot    *)
(* tables beyond "one instance, one driving thread at a time".  With       *)
(* SERIALIZED the callers start a call (or a buf_free) only when no other  *)
(* call is in progress; without it, any interleaving is possible (the      *)
(* unsynchronised accesses are taken to be sequentially consistent, one of *)
(* the outcomes the build can produce).                                    *)
(***************************************************************************)
EXTENDS ShimClients

CONSTANTS
  RAND_LENS,   \* len arguments given to rand_bytes_alloc
  SERIALIZED   \* callers never overlap their calls into the shim

ASSUME SERIALIZED \in BOOLEAN

VARIABLES
  pc,     \* thread -> "idle", "scan" or "store": where it is in a call
  doc,    \* thread -> address of the document it built (NULL when idle)
  need,   \* thread -> the length it will record for it
  slot,   \* thread -> the slot alloc_buf_slot returned to it
  call    \* thread -> the call in progress

threadVars == <<pc, doc, need, slot, call>>

allVars == <<g_bufs, g_lens, heap, held, released, last, pc, doc, need, slot, call>>

RAND_MAX_LEN == 1024 * 1024

(* x07_ext_write_u32_le and x07_ext_make_err_doc: a 9-byte Err document.  *)
x07_ext_write_u32_le(v) == [i \in 1 .. 4 |-> (v \div 2^(8 * (i - 1))) % 256]

x07_ext_make_err_doc(code) ==
  [size |-> 9,
   data |-> <<0>> \o x07_ext_write_u32_le(code) \o x07_ext_write_u32_le(0)]

(* The thread returns from the call; its locals go out of scope.           *)
Leave(t) ==
  /\ pc' = [pc EXCEPT ![t] = "idle"]
  /\ doc' = [doc EXCEPT ![t] = NULL]
  /\ need' = [need EXCEPT ![t] = 0]
  /\ slot' = [slot EXCEPT ![t] = 0]
  /\ call' = [call EXCEPT ![t] = <<>>]

(* A thread may enter the shim: it is idle and, when the callers serialize *)
(* their calls, so is every other thread.                                  *)
MayEnter(t) ==
  /\ pc[t] = "idle"
  /\ SERIALIZED => \A u \in Clients : pc[u] = "idle"

(***************************************************************************)
(* Begin: *out_handle = 0; a len over 1 MiB gets an Err document, code 3; *)
(* otherwise doc = [1, len random bytes]; if RAND_bytes fails the doc is   *)
(* freed and an Err document with code 1 built instead, need = 9.  Any     *)
(* malloc returning NULL ends the call with -1, having freed what it had.  *)
(***************************************************************************)
Built(t, c, blk, n) ==
  /\ CanMalloc
  /\ heap' = heap @@ (FreshAddr :> blk)
  /\ pc' = [pc EXCEPT ![t] = "scan"]
  /\ doc' = [doc EXCEPT ![t] = FreshAddr]
  /\ need' = [need EXCEPT ![t] = n]
  /\ call' = [call EXCEPT ![t] = c]
  /\ UNCHANGED <<g_bufs, g_lens, held, released, last, slot>>

Begin(t, len) ==
  LET c == <<"rand_bytes_alloc", len>> IN
  /\ MayEnter(t)
  /\ \/ Failed(t, c, -1) /\ UNCHANGED threadVars  \* a malloc returned NULL
     \/ len > RAND_MAX_LEN /\ Built(t, c, x07_ext_make_err_doc(3), 9)
     \/ len <= RAND_MAX_LEN /\ Built(t, c, [size |-> 1 + len, data |-> <<1>>], 1 + len)
     \/ /\ len <= RAND_MAX_LEN /\ len # 0           \* RAND_bytes != 1
        /\ Built(t, c, x07_ext_make_err_doc(1), 9)

(***************************************************************************)
(* Scan: slot = x07_ext_openssl_alloc_buf_slot(); with none free,          *)
(* free(doc) and return -1.                                                *)
(***************************************************************************)
x07_ext_openssl_alloc_buf_slot == AllocBufSlot

ScanFullLeaks(t) ==  \* seeded fault: "if (!slot) return -1;" without free(doc)
  /\ pc[t] = "scan"
  /\ IF x07_ext_openssl_alloc_buf_slot = 0
     THEN /\ last' = [last EXCEPT ![t] = <<call[t], -1, 0>>]
          /\ Leave(t)
          /\ UNCHANGED <<g_bufs, g_lens, heap, held, released>>
     ELSE /\ slot' = [slot EXCEPT ![t] = x07_ext_openssl_alloc_buf_slot]
          /\ pc' = [pc EXCEPT ![t] = "store"]
          /\ UNCHANGED <<g_bufs, g_lens, heap, held, released, last, doc, need, call>>

Scan(t) ==
  /\ pc[t] = "scan"
  /\ IF x07_ext_openssl_alloc_buf_slot = 0
     THEN /\ heap' = FreeBlock(heap, doc[t])
          /\ last' = [last EXCEPT ![t] = <<call[t], -1, 0>>]
          /\ Leave(t)
          /\ UNCHANGED <<g_bufs, g_lens, held, released>>
     ELSE /\ slot' = [slot EXCEPT ![t] = x07_ext_openssl_alloc_buf_slot]
          /\ pc' = [pc EXCEPT ![t] = "store"]
          /\ UNCHANGED <<g_bufs, g_lens, heap, held, released, last, doc, need, call>>

(* Store: g_bufs[slot] = doc; g_lens[slot] = need; *out_handle = slot;    *)
(* return 0.  The caller now owns the handle.                              *)
Store(t) ==
  /\ pc[t] = "store"
  /\ g_bufs' = [g_bufs EXCEPT ![slot[t]] = doc[t]]
  /\ g_lens' = [g_lens EXCEPT ![slot[t]] = need[t]]
  /\ last' = [last EXCEPT ![t] = <<call[t], 0, slot[t]>>]
  /\ held' = [held EXCEPT ![t] = (slot[t] :> [addr |-> doc[t], call |-> call[t]]) @@ @]
  /\ released' = [released EXCEPT ![t] = @ \ {slot[t]}]
  /\ Leave(t)
  /\ UNCHANGED heap

(* x07_ext_openssl_buf_free(handle) of a handle the thread owns.           *)
x07_ext_openssl_buf_free(t, h) ==
  /\ MayEnter(t)
  /\ Release(t, h)
  /\ UNCHANGED threadVars

Init ==
  /\ ShimInit
  /\ pc = [t \in Clients |-> "idle"]
  /\ doc = [t \in Clients |-> NULL]
  /\ need = [t \in Clients |-> 0]
  /\ slot = [t \in Clients |-> 0]
  /\ call = [t \in Clients |-> <<>>]

(* The steps a thread takes inside a call, which run without blocking.     *)
Finish(t) == Scan(t) \/ Store(t)

Next ==
  \E t \in Clients :
    \/ \E len \in RAND_LENS : Begin(t, len)
    \/ Finish(t)
    \/ \E h \in Slots : x07_ext_openssl_buf_free(t, h)

Spec == Init /\ [][Next]_allVars

(***************************************************************************)
(* Properties                                                              *)
(***************************************************************************)
TypeOK ==
  /\ ShimTypeOK({"rand_bytes_alloc"} \X Nat)
  /\ pc \in [Clients -> {"idle", "scan", "store"}]
  /\ doc \in [Clients -> Addrs \cup {NULL}]
  /\ need \in [Clients -> Nat]
  /\ slot \in [Clients -> Slots]

(* The documents built by calls in progress, not yet in the table.          *)
InFlight == {doc[t] : t \in {u \in Clients : pc[u] # "idle"}}

(* The heap as the atomic model sees it: without the documents in flight.  *)
AbsHeap == Restrict(heap, DOMAIN heap \ InFlight)

Atomic == INSTANCE OpensslShim
            WITH heap <- AbsHeap, SK_LENS <- {}, N_LENS <- {}, JWK_BITS <- {}

(* Calls made one at a time (spec 5), the split rand_bytes_alloc of 0.1.3  *)
(* with its private document, its slot scan and its store implements the  *)
(* atomic rand_bytes_alloc and buf_free of the OpensslShim model (0.1.9):  *)
(* every step is one of its steps or a stutter, so the table, heap and     *)
(* handle invariants checked there hold here too.                          *)
AtomicRefined == Atomic!Spec

=============================================================================
