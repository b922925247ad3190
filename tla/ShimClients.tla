----------------------------- MODULE ShimClients -----------------------------
(***************************************************************************)
(* The callers of a shim's *_alloc entry points (the generated x07 code   *)
(* behind the ext packages' FFI wrappers).  Each caller remembers the      *)
(* handles it owns (held), the call that produced each one, the handles it *)
(* has freed, and the return value and out handle of its last call.       *)
(* A caller reads a handle with buf_len / buf_ptr and gives it back with   *)
(* buf_free, once.  Every shim that keeps a BufSlotTable extends this.     *)
(***************************************************************************)
EXTENDS BufSlotTable

CONSTANT Clients   \* callers in the generated program

VARIABLES
  held,      \* client -> (handle -> [addr, call]) of the handles it owns
  released,  \* client -> handles it has freed and not been given again
  last       \* client -> <<call, return value, out handle>> of its last call (<<>> before any)

vars == <<g_bufs, g_lens, heap, held, released, last>>

(***************************************************************************)
(* What the caller observes of one call: its return value and handle.  A  *)
(* non-zero handle becomes the caller's, naming the block just malloc'd.  *)
(***************************************************************************)
Returned(c, call, ret, handle) ==
  /\ last' = [last EXCEPT ![c] = <<call, ret, handle>>]
  /\ held' = IF handle = 0 THEN held
             ELSE [held EXCEPT ![c] =
                     (handle :> [addr |-> FreshAddr, call |-> call]) @@ @]
  /\ released' = [released EXCEPT ![c] = @ \ {handle}]

(* A call that fails after freeing everything it allocated.                *)
Failed(c, call, ret) ==
  /\ UNCHANGED tableVars
  /\ Returned(c, call, ret, 0)

(* The caller frees a handle it owns with buf_free.                        *)
Release(c, h) ==
  /\ h \in DOMAIN held[c]
  /\ BufFree(h)
  /\ held' = [held EXCEPT ![c] = Restrict(@, DOMAIN @ \ {h})]
  /\ released' = [released EXCEPT ![c] = @ \cup {h}]
  /\ UNCHANGED last

ShimInit ==
  /\ TableInit
  /\ held = [c \in Clients |-> [h \in {} |-> 0]]
  /\ released = [c \in Clients |-> {}]
  /\ last = [c \in Clients |-> <<<<>>, 0, 0>>]

ShimTypeOK(CallDescs) ==
  /\ TableTypeOK
  /\ \A c \in Clients :
       /\ DOMAIN held[c] \subseteq Slots
       /\ \A h \in DOMAIN held[c] :
            held[c][h] \in [addr : Addrs, call : CallDescs]
  /\ released \in [Clients -> SUBSET Slots]
  /\ last \in [Clients -> (CallDescs \cup {<<>>}) \X Int \X Slots]

LiveSlots == {s \in Slots : g_bufs[s] # NULL}

(* Every block malloc'd and not freed -- the shim's output buffers and any *)
(* state a library allocated during a call -- is owned by exactly one slot *)
(* of the table, and every slot points at a live block: the *_alloc entry  *)
(* points free (or have the library free) everything on every failure path *)
(* and buf_free clears what it frees, so nothing leaks, dangles or is      *)
(* owned twice.                                                            *)
HeapOwnedByTable ==
  /\ g_bufs[0] = NULL
  /\ DOMAIN heap = {g_bufs[s] : s \in LiveSlots}
  /\ \A s, t \in LiveSlots : g_bufs[s] = g_bufs[t] => s = t

(* A handle a caller owns still names the buffer that caller was given,   *)
(* buf_len(handle) is within that buffer's allocation (the caller reads   *)
(* buf_ptr(handle)[0 .. buf_len(handle)) ), and no other caller owns the  *)
(* same handle: calls by several callers, frees and slot reuse in any     *)
(* order never hand one slot to two owners.                                *)
OwnedHandlesIntact ==
  \A c \in Clients : \A h \in DOMAIN held[c] :
    /\ BufPtr(h) = held[c][h].addr
    /\ BufPtr(h) \in DOMAIN heap
    /\ BufLen(h) <= heap[BufPtr(h)].size
    /\ \A d \in Clients \ {c} : h \notin DOMAIN held[d]

=============================================================================
