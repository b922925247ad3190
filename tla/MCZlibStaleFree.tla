--------------------------- MODULE MCZlibStaleFree ---------------------------
(* Callers of the zlib shim that also free a handle a second time: one     *)
(* they freed before and have not been given again.  Spec section 4.4      *)
(* requires a drop of an already-closed handle to be a safe no-op.         *)
EXTENDS MCZlibShim

ZlibStaleFree(c, h) ==
  /\ h \in released[c]
  /\ BufFree(h)
  /\ UNCHANGED <<held, released, last>>

ZlibStaleNext ==
  \/ Next
  \/ \E c \in Clients : \E h \in released[c] : ZlibStaleFree(c, h)

ZlibStaleSpec == Init /\ [][ZlibStaleNext]_vars
=============================================================================
