----------------------------- MODULE MCAbiLayout -----------------------------
(* Targets by pointer width and the alignment of a uint64_t member.        *)
EXTENDS AbiLayout

LP64 == [name |-> "x86_64-linux", ptr |-> 8, u64align |-> 8, le |-> TRUE]
LLP64 == [name |-> "x86_64-windows", ptr |-> 8, u64align |-> 8, le |-> TRUE]
I386 == [name |-> "i386-sysv", ptr |-> 4, u64align |-> 4, le |-> TRUE]
ARM32 == [name |-> "arm-eabi", ptr |-> 4, u64align |-> 8, le |-> TRUE]
X32 == [name |-> "x86_64-x32", ptr |-> 4, u64align |-> 8, le |-> TRUE]

PassTargets == {LP64, LLP64, I386}
EightAlignedU64Ilp32 == {ARM32, X32}
AllTargets == PassTargets \cup EightAlignedU64Ilp32

(* The static assertions of abi_layout.c hold, in both build modes, on the *)
(* targets whose uint64_t is no more aligned than a pointer: x86_64 Linux  *)
(* and Windows and i386.  (On the others they fail in debug-borrow builds: *)
(* the abi_asserts_ilp32 run.)                                            *)
StaticAssertsHoldOnPassTargets == tgt \in PassTargets => StaticAssertsHold
=============================================================================
