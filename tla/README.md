# TLA+ models of the x07 native ABI and extension shims

These TLA+ modules model the C side of x07. That means the ABI headers under
`crates/x07c/include` and the native shims of the ext packages
(`packages/ext/*/ffi/*.c`), as they interact with the generated code that
calls them. TLC checks the models. `spec.md` is the design document these
parts answer to.

## The system

| Part | Source | State | Operations |
|---|---|---|---|
| Buffer-handle table of a shim | `openssl_shim.c` 0.1.9 :105-133 (0.1.3 :63-90); `zlib_shim.c` :8-18, :163-178 | `g_bufs[4096]` (pointer or NULL) and `g_lens[4096]`; slot 0 is reserved as the failure value | `alloc_buf_slot` (lowest free slot), `buf_len`, `buf_ptr`, `buf_free` |
| openssl *_alloc entry points | `openssl_shim.c` 0.1.9 :210-746 | the table and the process heap | `rand_bytes_alloc`, `ed25519_sign_alloc`, `ed25519_pk_from_seed_alloc`, `rsa_pkcs1_sha256_sign_alloc`, `rsa_rs256_private_jwk_generate_alloc` |
| openssl 0.1.3 `rand_bytes_alloc` | `openssl_shim.c` 0.1.3 :109-150 | the table and the heap, read and written by each thread in turn | build the document, scan for a slot, store |
| openssl text encoders | `openssl_shim.c` 0.1.9 :152-208 | none | `b64url_nopad`, `bn_b64url` (JWK members) |
| openssl wrappers' libcrypto objects | same file :75-104, :253-872 | keys, contexts, BIGNUMs, signatures and strings each wrapper creates, with libcrypto's ownership (free, set0, set1, get0) | `sha256`/`sha512`, `hmac`, `rand_bytes`, the ed25519/rsa/ecdsa verifies and signs, and the libcrypto part of the four key `*_alloc` entry points |
| zlib entry points | `zlib_shim.c` :20-161 | the table, the heap, zlib's inflate state | `compress_alloc`, `uncompress_alloc`, `gzip_decompress_alloc`, `inflate_raw_alloc` |
| Stream transducer plugin ABI | `x07_stream_xf_plugin_abi_v1.h` | none: types, function pointers and the descriptor's `abi_tag`/`abi_version` constants | none in this repository: the host that calls `init`, `step`, `flush`, `drop` and serves `emit_alloc`/`emit_commit` is x07's runtime wrapper |
| Value ABI layouts | `x07_abi_v1.h`, `x07_abi_v2.h`, `tests/abi_layout.c` | none (layouts) | none: static size and alignment asserts, modelled as one compilation per behaviour |
| Backend ABIs (math, time, db, fs, regex, stdio, rand, jsonschema) | the other headers | none | declarations only, each with its own copy of `ev_bytes` (and `ev_result_*`) "that must match x07c's runtime ABI"; math and time fix trap codes 9100-9102 and 9200 |
| Import smoke test | `import_sources/c/.../smoke.c` | none | `add1`, `abs_i32` |

How the parts interact:
- Generated x07 code calls a shim's `*_alloc` entry point.
- The entry point allocates the output with `malloc`, stores it in the shim's
  table and returns the slot index as a handle.
- The caller reads the buffer with `buf_len`/`buf_ptr`. It gives the buffer
  back with `buf_free`, exactly once (spec 4.2, 4.4).
- Each shim has one table, shared by every caller in the process. The table
  has no lock.
- A stream transducer plugin is driven by a host: x07's runtime wrapper, which
  is not in this repository. Host and plugin meet only in the header, so what
  is checked of it is what the header fixes: the layout of its `ev_bytes` hook
  type and the `abi_tag` value.

What makes these parts hard to test:
- Callers interleave their calls and frees. Slots and heap addresses are reused.
- `malloc` or the library can fail at any step, after something has already been
  allocated.
- The table can be full.
- `malloc(0)` may return NULL or a unique pointer, depending on the C library.
- A handle can be freed a second time after its slot was reused.

## Modules

| Module | Models | Kind |
|---|---|---|
| `BufSlotTable` | the table and the heap: `AllocBufSlot`, `BufLen`, `BufPtr`, `BufFree`, and the publish-or-free tail shared by every `*_alloc` (`PublishBlock`, `StoreBlock`, `SlotExhausted`) | helper, from openssl 0.1.9 |
| `ShimClients` | the callers: the handles each one owns, its last call and result, and `Release` (`buf_free` of an owned handle); the table invariants shared by both shims | extends `BufSlotTable` |
| `OpensslShim` | one action per openssl `*_alloc` entry point, with every early return and free-and-fail path as a disjunct | extends `ShimClients` |
| `ZlibShim` | one action per zlib entry point; zlib's return codes as a function of an abstract input; `malloc(0)` as the constant `MALLOC0` | extends `ShimClients` |
| `AbiLayout` | every v1/v2 value type as a C type term (debug-borrow members when `X07_DEBUG_BORROW`), a recursive C record layout (`SizeOf`, `AlignOf`, `OffsetOf`) per target, and the `abi_layout.c` asserts; a behaviour is one compilation (target, build mode, version, type); also the value types the backend and stream-plugin headers redeclare (`BackendType`), a layout as the set of scalar offsets (`Layout`), and the plugin descriptor's `abi_tag` (`X07_XF_ABI_TAG`) with the u32 a target reads from the characters it names (`U32FromBytes`) | pure algorithm |
| `OpensslShimThreads` | the 0.1.3 `rand_bytes_alloc` and `buf_free` called by several threads: each call is `Begin` (build the document privately), `Scan` (`alloc_buf_slot`) and `Store`, with a per-thread `pc` and locals; `SERIALIZED` says whether callers overlap their calls | extends `ShimClients`, refines `OpensslShim` |
| `B64Url` | `x07_ext_b64url_char`, `x07_ext_b64url_nopad` (the loop as a RECURSIVE operator over 3-byte groups, then the tail) and `x07_ext_bn_b64url` (`BN_num_bits`, `BN_bn2bin` as recursive operators); `bnArg` is the BIGNUM last encoded; `OpensslObjects` extends it, so each `x07_ext_bn_b64url` call of `jwk_generate_alloc` (`DoEncode`) draws the value, and a failing encoding is that call's NULL | pure algorithm |
| `OpensslObjects` | each 0.1.9 wrapper body as a sequence of statements (`New`, `Check`, `Lib`, `Result`, `Free`, `IfOk`, `Publish`, `Ret`) run one at a time by `DoNew`, `DoCheck`, ...; every early return carries the exact free list of the code. libcrypto's objects are a bag of reference counts: `Release` is RECURSIVE and frees what a dying object owns (`RSA_set0_key` and `ECDSA_SIG_set0` hand their BIGNUMs over, `EVP_PKEY_set1_*` adds a reference, `RSA_get0_*` borrows). Argument guards, the `(int)` casts of lengths and the `== 1 ? 1 : 0` normalisation are kept. For `jwk_generate_alloc` the member lengths (`jwkLen`), the allocated `total` (`DoTotal`, `JwkTotal`: nine literals and eight strings) and the cursor the `memcpy` chain ends at (`DoWrite`, `JwkWritten`) are state | `x07_ext_openssl_*` in 0.1.9 :75-104, :253-872 |
| `MCOpensslShim`, `MCOpensslStaleFree`, `MCOpensslShimThreads`, `MCZlibShim`, `MCZlibStaleFree`, `MCAbiLayout`, `MCOpensslObjects` | constants for TLC; `MCOpensslStaleFree` and `MCZlibStaleFree` add callers that free a handle twice | MC modules |

How state and actions correspond to the code:
- `g_bufs`/`g_lens` are the C arrays.
- `heap` maps each live `malloc`'d address to its size and the bytes the shim
  wrote itself. Bytes written by libcrypto or zlib are opaque.
- Each entry point is one atomic action, because the calls are synchronous.
  `OpensslShimThreads` drops that assumption for `rand_bytes_alloc`: the
  document is private to the thread until `Store`, so only the `Scan` and the
  `Store` touch shared state, and they are separate steps. It is shown to
  implement the atomic model through `AbsHeap`, the heap without the documents
  still in flight.
  Its guard comes from the code's checks. Its disjuncts are the code's paths:
  success, and each failure with the `free` that precedes it.
- `last` records the call, the return value and the out handle, so each failure
  path is a distinct state.

## Runs

| Run | Checks | Shows |
|---|---|---|
| `openssl_table` (pass) | `TypeOK`, `HeapOwnedByTable`, `OwnedHandlesIntact`, `RandDocDecodes` | Two callers' allocs and frees interleave, with malloc, `RAND_bytes` and signing failing anywhere and the table filling up. Throughout, the heap and the table stay one-to-one, every owned handle names its own buffer, and every rand document decodes to the right Ok/Err. |
| `openssl_stale_free` (violation) | `OwnedHandlesIntact` | A second `buf_free` of a handle whose slot was reused frees another caller's buffer. Spec 4.4 asks for a safe no-op here, and spec 9 recommends a generation counter. |
| `zlib_table` (pass) | `TypeOK`, `HeapOwnedByTable`, `OwnedHandlesIntact` | Every zlib and malloc outcome, with `malloc(0)` returning NULL or a block, leaks neither a buffer nor zlib's inflate state. Handles stay unshared, including zero-length outputs on a contended slot. |
| `zlib_malloc0` (violation) | `FittingDecompressSucceeds` | Where `malloc(0)` is NULL, a valid empty gzip or raw stream with `max_size` 0 returns -2. The guard at `zlib_shim.c:95` lets the NULL through to `inflate`, which rejects a NULL `next_out`. |
| `abi_layout` (pass) | `V1MatchesV2`, `BackendTypesMatchRuntime`, `StaticAssertsHoldOnPassTargets` | The `abi_layout.c` asserts hold on x86_64 Linux and Windows and on i386, in both modes. Each v1 type has its v2 twin's size and alignment (spec 8). The backend headers' and the stream-plugin header's copies of `ev_bytes`, `ev_result_bytes` and `ev_result_i32` have the runtime types' size, alignment and scalar offsets. |
| `abi_asserts_ilp32` (violation) | `StaticAssertsHold` | On ARM EABI and x32 (4-byte pointers, 8-aligned `uint64_t`), `X07_DEBUG_BORROW` makes `ev_bytes_view_v2_t` and `ev_vec_u8_v2_t` 8-aligned, against `alignof(void*)` = 4 (`abi_layout.c:11`, `:14`). Spec 6 and 9 promise layouts verified in both modes. |
| `openssl_threads` (pass) | `TypeOK`, `AtomicRefined` | Two threads calling the 0.1.3 `rand_bytes_alloc` and `buf_free` one call at a time (spec 5) implement the atomic `OpensslShim` model (`INSTANCE OpensslShim WITH heap <- AbsHeap, ...`), so its table invariants carry over. Calls never overlap in this run; the overlap is `openssl_race`. |
| `openssl_race` (violation) | `OwnedHandlesIntact` | With calls overlapping, both threads scan the same free slot and both store into it. One document leaks and both callers hold the same handle. Spec 5 says nothing about serializing calls into a shim's process-wide table. |
| `openssl_objects` (pass) | `TypeOK`, `NoLeakOnReturn`, `NoDeadObjectTouched`, `IntCastsPreserveLengths`, `B64MatchesRfc4648`, `BnIsBase64urlUInt`, `JwkWritesExactlyTotal` | Every 0.1.9 wrapper but `hmac`, on every path of argument guards and library failures: returns 0 or 1 (or a slot), has freed every libcrypto object it made when it returns, never frees or uses an object already released (a BIGNUM after `RSA_set0_key`, a `get0` pointer), and hands libcrypto only lengths the `(int)` cast keeps. The encoders `jwk_generate_alloc` writes its members with: `b64url_nopad` writes exactly the unpadded base64url of RFC 4648 (defined bit by bit, without the loop) of each BIGNUM's raw bytes, within its `cap + 1` buffer, and `bn_b64url` writes the RFC 7518 Base64urlUInt (minimal octets, zero as `AA`) of each bignum. The JSON document is written up to exactly the `total` it was allocated with: no overrun and no unwritten tail. |
| `zlib_stale_free` (violation) | `OwnedHandlesIntact` | The same stale second free on the zlib shim's own table (`zlib_shim.c:173`): it frees the buffer of the caller the slot was given to next. |
| `xf_abi_tag` (violation) | `XfAbiTagSpellsX7XF` | `x07_stream_xf_plugin_abi_v1.h:65` gives `abi_tag` as "'X7XF' as u32: 0x46584637 (little-endian)". The characters 'X7XF' in memory read as 0x46583758 on a little-endian target; 0x46584637 is the bytes '7FXF'. A plugin and a host built from the two halves of the comment reject each other at load (spec 4.5). |
| `openssl_hmac_cast` (violation) | `IntCastsPreserveLengths` | `x07_ext_openssl_hmac` casts `key_len` to `int` with no `INT32_MAX` check (0.1.9 :96), so a key over 2 GiB reaches `HMAC` as a negative length. Every other wrapper returns 0 for such lengths. |

`PROJECT.json` gives each passing property a mutant: a plausible bug in the
mapped code, which TLC must catch. The mutants:
- a slot scan that tests `g_lens` instead of `g_bufs`;
- a missing `free` on a full table;
- a missing `inflateEnd`;
- a missing `need = doc_len`;
- a big-endian u32;
- a v1 vector without its debug id;
- the interface handle as two pointers;
- a full-table scan that returns without freeing the document (breaks the refinement);
- a backend `ev_bytes` with a `size_t` length;
- a base64url buffer of `(len / 3) * 4`;
- a bignum byte count of `bits / 8`;
- `rand_bytes` returning `RAND_bytes`' int unnormalised;
- ecdsa without `EC_KEY_free(ec)` after `EVP_PKEY_set1_EC_KEY`;
- rsa verify freeing `n` and `e` after `RSA_set0_key`;
- rsa verify without its `INT32_MAX` length check (:461);
- a JWK `total` that leaves out the closing literal `a8`.

## Bounds and why they are enough

- **openssl:**
  - 3 slots (2 usable), 3 heap addresses and 2 callers, with symmetry over the
    callers.
  - That is enough for the table to fill up, a slot to be freed and reused by
    the other caller, and a document in flight to meet a full table. malloc
    fails as a nondeterministic outcome; the three addresses are never all
    taken at once, since two blocks in the table and one in flight is the most.
  - rand lengths are 0, 2, 1 MiB and 1 MiB + 1: both sides of each guard.
  - The other entry points each get one valid and one invalid argument.
- **zlib:**
  - 2 slots (1 usable) and 2 addresses, so the callers contend for one handle.
  - Three intact streams (an empty gzip, a 2-byte raw, a 2-byte zlib). Each is
    also fed to the entry points of the other formats, where it counts as
    damaged.
  - `max_size` is 0 or 2, so outputs fit, overflow and are empty.
  - TLC's integers stop at 2^31-1, so `UINT32_MAX` is a constant given the
    value 40 in the MC module. Compress of 30 bytes then exceeds it, which
    keeps the `:24` comparison.
- **openssl threads:** 2 threads, 3 slots (2 usable), 3 addresses; `len` is
  0, 2 and 1 MiB + 1. So the table fills while a third document is in flight,
  both threads can be between `Scan` and `Store` at once, and each `Begin`
  path (too long, `RAND_bytes` failure, malloc failure) occurs.
- **b64url** (checked in `openssl_objects`): each of the eight BIGNUMs
  `jwk_generate_alloc` encodes takes a value of 0, 1, 255, 256, 65535, 65537,
  0xA55A00, 0x5AA5FF and 0xFFFFFF: zero, both sides of each byte-count
  boundary, raw strings of 1, 2 and 3 bytes (both tails and a whole group) and
  6-bit groups of 0, 63 and the alternating patterns. `e` is always 65537,
  as `RSA_generate_key_ex` is called with `RSA_F4`. The member lengths are
  kept only while no earlier member has come back NULL: after that the call
  can only free and return 0, and no length is read again. `b64url_nopad` is called
  only on these raw bytes. TLC's integers rule out RSA-sized values, but
  the code's arithmetic depends on the bit count only through `(bits + 7) / 8`.
- **openssl objects:** `INT32_MAX` is a constant set to 100, so lengths are
  0, 32, 64 and 101: empty, the fixed key and signature sizes, and one over
  the cast limit; `IntCast` wraps as two's complement at that scale. Every
  library call may fail or succeed and every constructor may return NULL, so
  each early return of each wrapper is taken. One wrapper runs at a time: the
  wrappers share no state but libcrypto's objects, which each call creates
  for itself.
- **AbiLayout:** five targets (x86_64 Linux and Windows, i386, ARM EABI, x32)
  cover both pointer widths and both `uint64_t` alignments. Together with both
  build modes, both versions and all nine types, they are every compilation
  the headers admit up to those two parameters. All five are little-endian,
  as the `abi_tag` comment assumes.

## Fairness

- **OpensslObjects:** none; only safety is checked (state invariants on every
  path).
- **Shims:** no liveness is claimed of callers, since they are free to stop calling.
- **OpensslShimThreads:** none. The rest of a call after `Begin` is
  straight-line code that takes no lock and never waits, so that every call
  returns holds by the shape of the code and is not stated as a property.

## Not modelled (yet), and the plan

Later sittings, in this order:

1. The 0.1.9 `*_alloc` entry points split into steps like the 0.1.3 one, where
   a document in flight crosses a second table scan (`jwk_generate_alloc`).
2. Larger thread counts for `openssl_threads`, within TLC's time.

Out of reach or without state:
- 0.1.3's `rand_bytes` and `ed25519_verify`: the same code as 0.1.9's, which
  `OpensslObjects` models; `sha512` is `sha256` with another digest;
- the reference an `EVP_MD_CTX` takes on its pkey during `DigestVerifyInit`:
  it is released by `EVP_MD_CTX_free`, which every path calls before the
  pkey's free, so the model counts only the caller's reference;
- `smoke.c`: `add1` and `abs_i32` are pure 32-bit functions with no contract
  beyond C's. Their overflow at `INT32_MAX` and `INT32_MIN` is undefined
  behaviour and is listed as a hazard;
- that every backend header typedefs its own `ev_bytes`, so one unit cannot
  include two of them. That is a compile-time fact;
- the stream transducer plugin lifecycle (descriptor check at load, init,
  step, flush, drop, budgets, `emit_alloc`/`emit_commit`): the header only
  declares it, and the host that implements it is not in this repository, so
  a model of it would check its own assumptions rather than code;
- the trap codes of the math and time headers, which no code here raises;
- libcrypto and zlib themselves, which are collaborators whose results are
  taken as nondeterministic outcomes.
