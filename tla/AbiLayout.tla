------------------------------ MODULE AbiLayout ------------------------------
(***************************************************************************)
(* The value layouts of the x07 C backend ABI (x07_abi_v1.h, x07_abi_v2.h) *)
(* and the static layout assertions of crates/x07c/tests/abi_layout.c.     *)
(*                                                                         *)
(* A C type is a scalar (U32, U64, PTR -- data and function pointers      *)
(* alike) or a struct or union of member types.  Its size and alignment    *)
(* on a target follow the C record layout rule: each member at the next    *)
(* offset that is a multiple of its alignment, the record aligned to its   *)
(* most aligned member and padded to a multiple of that.  Targets differ   *)
(* in the pointer width and in the alignment of uint64_t inside a struct   *)
(* (8 on LP64 and 32-bit ARM EABI, 4 on i386 System V).                    *)
(*                                                                         *)
(* A behaviour picks one compilation: a target, whether X07_DEBUG_BORROW   *)
(* is defined, an ABI version and one of its types.  The properties check  *)
(* each compilation.                                                       *)
(***************************************************************************)
EXTENDS Naturals, Sequences, FiniteSetsExt

CONSTANT Targets   \* records [name, ptr, u64align, le]: the ABIs compiled for

ASSUME Targets \subseteq [name : STRING, ptr : {4, 8}, u64align : {4, 8},
                          le : BOOLEAN]

VARIABLES
  tgt,      \* the target compiled for
  dbg,      \* X07_DEBUG_BORROW defined
  version,  \* 1 or 2: which header
  name      \* the type under consideration

vars == <<tgt, dbg, version, name>>

U32 == [kind |-> "u32"]
U64 == [kind |-> "u64"]
PTR == [kind |-> "ptr"]

IsScalar(t) == t.kind \in {"u32", "u64", "ptr"}

Struct(fs) == [kind |-> "struct", fields |-> fs]
Union(fs) == [kind |-> "union", fields |-> fs]

(***************************************************************************)
(* The types of x07_abi_v1.h.  Debug-borrow members exist only when dbg.   *)
(***************************************************************************)
ev_bytes_v1_t == Struct(<<PTR, U32>>)

ev_bytes_view_v1_t(d) ==
  Struct(<<PTR, U32>> \o (IF d THEN <<U64, U64, U32>> ELSE <<>>))

VecWithoutDebugId(d) ==  \* seeded fault: dbg_aid left out of the v1 vector
  Struct(<<PTR, U32, U32>>)

ev_vec_u8_v1_t(d) ==
  Struct(<<PTR, U32, U32>> \o (IF d THEN <<U64>> ELSE <<>>))

ev_box_bytes_v1_t == ev_bytes_v1_t

ev_option_i32_v1_t == Struct(<<U32, U32>>)

ev_option_bytes_v1_t == Struct(<<U32, ev_bytes_v1_t>>)

ev_result_i32_v1_t == Struct(<<U32, Union(<<U32, U32>>)>>)

ev_result_bytes_v1_t == Struct(<<U32, Union(<<ev_bytes_v1_t, U32>>)>>)

ev_iface_v1_t == Struct(<<U32, U32>>)

ev_allocator_v1_t == Struct(<<PTR, PTR, PTR, PTR>>)

(***************************************************************************)
(* The types of x07_abi_v2.h (which repeats ev_allocator_v1_t).            *)
(***************************************************************************)
ev_bytes_v2_t == Struct(<<PTR, U32>>)

ev_bytes_view_v2_t(d) ==
  Struct(<<PTR, U32>> \o (IF d THEN <<U64, U64, U32>> ELSE <<>>))

ev_vec_u8_v2_t(d) ==
  Struct(<<PTR, U32, U32>> \o (IF d THEN <<U64>> ELSE <<>>))

ev_option_i32_v2_t == Struct(<<U32, U32>>)

ev_option_bytes_v2_t == Struct(<<U32, ev_bytes_v2_t>>)

ev_result_i32_v2_t == Struct(<<U32, Union(<<U32, U32>>)>>)

IfaceAsPointers ==  \* seeded fault: the interface handle as two pointers
  Struct(<<PTR, PTR>>)

ev_iface_v2_t == Struct(<<U32, U32>>)

ev_result_bytes_v2_t == Struct(<<U32, Union(<<ev_bytes_v2_t, U32>>)>>)

ev_allocator_v2_t == Struct(<<PTR, PTR, PTR, PTR>>)

(***************************************************************************)
(* The backend ABI headers (math, time, fs, stdio, rand, db, regex,        *)
(* jsonschema) each declare their own copy of the value types they use,    *)
(* "must match x07c's runtime ABI", with no X07_DEBUG_BORROW variant.  The *)
(* copies are textually identical; each header declares a subset.          *)
(***************************************************************************)
EvBytesSizeT ==  \* seeded fault: "size_t len" (pointer-sized on every target)
  Struct(<<PTR, PTR>>)

ev_bytes == Struct(<<PTR, U32>>)

ev_result_bytes == Struct(<<U32, Union(<<ev_bytes, U32>>)>>)

ev_result_i32 == Struct(<<U32, Union(<<U32, U32>>)>>)

(* The value types each backend header declares, by runtime name.          *)
x07_math_abi_v1 == {"bytes", "result_bytes", "result_i32"}
x07_time_abi_v1 == {"bytes"}
x07_ext_fs_abi_v1 == {"bytes", "result_bytes", "result_i32"}
x07_ext_stdio_abi_v1 == {"bytes", "result_bytes", "result_i32"}
x07_ext_rand_abi_v1 == {"bytes", "result_bytes"}
x07_ext_db_sqlite_abi_v1 == {"bytes"}
x07_ext_db_pg_abi_v1 == {"bytes"}
x07_ext_db_mysql_abi_v1 == {"bytes"}
x07_ext_db_redis_abi_v1 == {"bytes"}
x07_ext_regex_abi_v1 == {"bytes"}
x07_ext_jsonschema_abi_v1 == {"bytes"}
x07_stream_xf_plugin_abi_v1 == {"bytes"}   \* its runtime hooks take ev_bytes

BackendHeaders ==
  [math |-> x07_math_abi_v1, time |-> x07_time_abi_v1, fs |-> x07_ext_fs_abi_v1,
   stdio |-> x07_ext_stdio_abi_v1, rand |-> x07_ext_rand_abi_v1,
   db_sqlite |-> x07_ext_db_sqlite_abi_v1, db_pg |-> x07_ext_db_pg_abi_v1,
   db_mysql |-> x07_ext_db_mysql_abi_v1, db_redis |-> x07_ext_db_redis_abi_v1,
   regex |-> x07_ext_regex_abi_v1, jsonschema |-> x07_ext_jsonschema_abi_v1,
   xf |-> x07_stream_xf_plugin_abi_v1]

BackendType ==
  [bytes |-> ev_bytes, result_bytes |-> ev_result_bytes,
   result_i32 |-> ev_result_i32]

(***************************************************************************)
(* The stream transducer plugin descriptor's abi_tag: the header gives it  *)
(* as "'X7XF' as u32: 0x46584637 (little-endian)".  A host and a plugin    *)
(* agree on it only if the number and the four characters are the same    *)
(* u32 when read from the descriptor on the target.                        *)
(***************************************************************************)
X07_XF_ABI_TAG == \h46584637

XfTagChars == <<88, 55, 88, 70>>   \* 'X', '7', 'X', 'F' in ASCII, in memory order

(* The u32 a target reads from four bytes in memory order.                 *)
U32FromBytes(b, t) ==
  IF t.le THEN b[1] + 256 * b[2] + 65536 * b[3] + 16777216 * b[4]
          ELSE b[4] + 256 * b[3] + 65536 * b[2] + 16777216 * b[1]

(* Each header's types by the name common to v1 and v2.                    *)
TypeNames == {"bytes", "bytes_view", "vec_u8", "option_i32", "option_bytes",
              "result_i32", "result_bytes", "iface", "allocator"}

AbiType(v, d) ==
  IF v = 1
  THEN [bytes |-> ev_bytes_v1_t, bytes_view |-> ev_bytes_view_v1_t(d),
        vec_u8 |-> ev_vec_u8_v1_t(d), option_i32 |-> ev_option_i32_v1_t,
        option_bytes |-> ev_option_bytes_v1_t,
        result_i32 |-> ev_result_i32_v1_t,
        result_bytes |-> ev_result_bytes_v1_t, iface |-> ev_iface_v1_t,
        allocator |-> ev_allocator_v1_t]
  ELSE [bytes |-> ev_bytes_v2_t, bytes_view |-> ev_bytes_view_v2_t(d),
        vec_u8 |-> ev_vec_u8_v2_t(d), option_i32 |-> ev_option_i32_v2_t,
        option_bytes |-> ev_option_bytes_v2_t,
        result_i32 |-> ev_result_i32_v2_t,
        result_bytes |-> ev_result_bytes_v2_t, iface |-> ev_iface_v2_t,
        allocator |-> ev_allocator_v2_t]

(***************************************************************************)
(* C record layout.                                                        *)
(***************************************************************************)
ScalarSize(s, tg) == CASE s = U32 -> 4 [] s = U64 -> 8 [] s = PTR -> tg.ptr

ScalarAlign(s, tg) == CASE s = U32 -> 4 [] s = U64 -> tg.u64align
                        [] s = PTR -> tg.ptr

(* The least multiple of a at or above n.                                  *)
RoundUp(n, a) == ((n + a - 1) \div a) * a

RECURSIVE AlignOf(_, _), SizeOf(_, _), EndOf(_, _, _)

AlignOf(t, tg) ==
  IF IsScalar(t) THEN ScalarAlign(t, tg)
  ELSE Max({AlignOf(t.fields[i], tg) : i \in DOMAIN t.fields})

(* The end of the first n members of a struct laid out in order.           *)
EndOf(fs, n, tg) ==
  IF n = 0 THEN 0
  ELSE RoundUp(EndOf(fs, n - 1, tg), AlignOf(fs[n], tg)) + SizeOf(fs[n], tg)

SizeOf(t, tg) ==
  IF IsScalar(t) THEN ScalarSize(t, tg)
  ELSE IF t.kind = "struct"
       THEN RoundUp(EndOf(t.fields, Len(t.fields), tg), AlignOf(t, tg))
       ELSE RoundUp(Max({SizeOf(t.fields[i], tg) : i \in DOMAIN t.fields}),
                    AlignOf(t, tg))

(* The offset of member i of a struct.                                     *)
OffsetOf(t, i, tg) == RoundUp(EndOf(t.fields, i - 1, tg), AlignOf(t.fields[i], tg))

(* The scalars of a type with their offsets: what a caller and a callee    *)
(* compiled from different declarations must agree on.                     *)
RECURSIVE ScalarsAt(_, _, _)
ScalarsAt(t, base, tg) ==
  IF IsScalar(t) THEN {<<base, t.kind>>}
  ELSE UNION {ScalarsAt(t.fields[i],
                        base + (IF t.kind = "struct" THEN OffsetOf(t, i, tg) ELSE 0),
                        tg) : i \in DOMAIN t.fields}

Layout(t, tg) ==
  [size |-> SizeOf(t, tg), align |-> AlignOf(t, tg), scalars |-> ScalarsAt(t, 0, tg)]

Init ==
  /\ tgt \in Targets
  /\ dbg \in BOOLEAN
  /\ version \in {1, 2}
  /\ name \in TypeNames

(* Each compilation is checked on its own: nothing follows it.             *)
Next == UNCHANGED vars

Spec == Init /\ [][Next]_vars

(***************************************************************************)
(* Properties                                                              *)
(***************************************************************************)
Cur == AbiType(version, dbg)[name]

(* The static assertions of abi_layout.c hold for the v2 type on this      *)
(* target and build mode: each value type is at least as large as its      *)
(* members and as aligned as a pointer (bytes, views, vectors, allocator)   *)
(* or a u32 (options, results, interface handles), and an interface handle  *)
(* is exactly two u32.                                                      *)
StaticAssertsHold ==
  LET T(n) == AbiType(2, dbg)[n]
      sz(n) == SizeOf(T(n), tgt)
      al(n) == AlignOf(T(n), tgt)
      P == tgt.ptr
  IN version = 2 =>
     CASE name = "bytes" -> sz("bytes") >= P + 4 /\ al("bytes") = P
       [] name = "bytes_view" -> sz("bytes_view") >= P + 4 /\ al("bytes_view") = P
       [] name = "vec_u8" -> sz("vec_u8") >= P + 2 * 4 /\ al("vec_u8") = P
       [] name = "option_i32" -> sz("option_i32") >= 2 * 4 /\ al("option_i32") = 4
       [] name = "option_bytes" -> sz("option_bytes") >= 4 + sz("bytes")
                                   /\ al("option_bytes") = al("bytes")
       [] name = "result_i32" -> sz("result_i32") >= 2 * 4 /\ al("result_i32") = 4
       [] name = "result_bytes" -> sz("result_bytes") >= 4 + sz("bytes")
                                   /\ al("result_bytes") = al("bytes")
       [] name = "iface" -> sz("iface") = 2 * 4 /\ al("iface") = 4
       [] name = "allocator" -> sz("allocator") >= 4 * P /\ al("allocator") = P

(* Spec 8: a v1 and a v2 instance of the same container have the same size *)
(* and alignment when compiled in the same environment, debug mode too.    *)
V1MatchesV2 ==
  LET t1 == AbiType(1, dbg)[name]
      t2 == AbiType(2, dbg)[name]
  IN SizeOf(t1, tgt) = SizeOf(t2, tgt) /\ AlignOf(t1, tgt) = AlignOf(t2, tgt)

(* Every backend header's copy of a value type has the layout of the       *)
(* runtime's v2 type of that name -- size, alignment and each scalar at    *)
(* the same offset -- on this target and in this build mode, so that a     *)
(* ByteBuffer or Result returned across the boundary is read as written.  *)
BackendTypesMatchRuntime ==
  \A h \in DOMAIN BackendHeaders : \A n \in BackendHeaders[h] :
    Layout(BackendType[n], tgt) = Layout(AbiType(2, dbg)[n], tgt)

(* x07_stream_xf_plugin_abi_v1.h :65: the abi_tag value the header gives  *)
(* is the u32 a plugin stores by writing the characters 'X7XF' into the    *)
(* descriptor's tag field, on the (little-endian) target compiled for.     *)
XfAbiTagSpellsX7XF == U32FromBytes(XfTagChars, tgt) = X07_XF_ABI_TAG

=============================================================================
