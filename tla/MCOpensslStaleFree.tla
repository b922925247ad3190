-------------------------- MODULE MCOpensslStaleFree --------------------------
(* Callers that also free a handle a second time: a handle they freed      *)
(* before and have not been given again (the generated code's drop of an   *)
(* already-closed handle, which spec section 4.4 requires to be a safe     *)
(* no-op).                                                                 *)
EXTENDS MCOpensslShim

StaleFree(c, h) ==
  /\ h \in released[c]
  /\ BufFree(h)
  /\ UNCHANGED <<held, released, last>>

StaleNext ==
  \/ Next
  \/ \E c \in Clients : \E h \in released[c] : StaleFree(c, h)

StaleSpec == Init /\ [][StaleNext]_vars
=============================================================================
