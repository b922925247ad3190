------------------------------ MODULE ZlibShim ------------------------------
(***************************************************************************)
(* The entry points of x07-ext-zlib-c 0.1.2 (ffi/zlib_shim.c): compress,   *)
(* uncompress, gzip-decompress and raw-inflate into a malloc'd buffer      *)
(* published in the shim's own handle table, plus buf_len / buf_ptr /      *)
(* buf_free.  Each entry point is one atomic action.                       *)
(*                                                                         *)
(* zlib is a collaborator: its results are modelled by what it does with   *)
(* the input it is given.  A compressed input is a record of its format    *)
(* (zlib, gzip or raw deflate), whether it is intact, and the length it    *)
(* decompresses to.  malloc(n) may return NULL; what malloc(0) returns    *)
(* (NULL or a unique pointer) is the C library's choice, the constant      *)
(* MALLOC0.  inflateInit2 allocates zlib's inflate state, which the shim   *)
(* must release with inflateEnd on every path after a successful init.     *)
(***************************************************************************)
EXTENDS ShimClients

CONSTANTS
  SRC_LENS,   \* source_len arguments given to compress_alloc
  Sources,    \* compressed inputs given to the decompressing entry points
  MAX_SIZES,  \* max_size arguments
  MALLOC0,    \* what malloc(0) can return: a subset of {"null", "block"}
  UINT32_MAX  \* the largest u32 (4294967295; scaled down for TLC)

ASSUME MALLOC0 \subseteq {"null", "block"} /\ MALLOC0 # {}

Formats == {"zlib", "gzip", "raw"}

ASSUME Sources \subseteq [fmt : Formats, valid : BOOLEAN, n : Nat]

(* zlib return codes *)
Z_OK == 0
Z_STREAM_END == 1
Z_STREAM_ERROR == -2
Z_DATA_ERROR == -3
Z_MEM_ERROR == -4
Z_BUF_ERROR == -5

(* A buffer whose contents zlib writes; the shim writes none of it.        *)
Opaque(n) == [size |-> n, data |-> <<>>]

(* zlib's inflate state, allocated by inflateInit2 (its size abstracted).  *)
InflateState == Opaque(0)

(* compressBound(sourceLen), in a 64-bit uLong.  TLC's integers stop at   *)
(* 2^31 - 1, so a model gives UINT32_MAX a small value and source lengths  *)
(* around it: the comparison at :24 is kept, the divisors keep their       *)
(* values (so those terms vanish for small lengths).                       *)
compressBound(len) ==
  len + len \div 4096 + len \div 16384 + len \div 33554432 + 13

(* What malloc(n) may return in the current heap.                          *)
MallocResults(n) ==
  (IF n = 0 THEN MALLOC0 ELSE {"null", "block"})
    \ (IF CanMalloc THEN {} ELSE {"block"})

(***************************************************************************)
(* x07_ext_zlib_alloc_slot(): the first slot from 1 with a NULL g_bufs     *)
(* entry, or 0 -- the scan of BufSlotTable's AllocBufSlot.                 *)
(***************************************************************************)
ZlibAllocSlotReturnsBound ==   \* seeded fault: "return MAX_BUFS" when full
  LET free == {i \in 1 .. MAX_BUFS - 1 : g_bufs[i] = NULL}
  IN IF free = {} THEN MAX_BUFS ELSE Min(free)

ZlibAllocSlotByLen ==  \* seeded fault: "if (!g_lens[i]) return i"
  LET free == {i \in 1 .. MAX_BUFS - 1 : g_lens[i] = 0}
  IN IF free = {} THEN 0 ELSE Min(free)

x07_ext_zlib_alloc_slot == AllocBufSlot

(***************************************************************************)
(* The shared tail once the output is in buf: with a slot h, g_bufs[h] =  *)
(* buf, g_lens[h] = the output length, *out_handle = h, return 0; on a    *)
(* full table free(buf) and return -1.                                     *)
(***************************************************************************)
ZlibPublish(c, call, blk, len) ==
  LET h == x07_ext_zlib_alloc_slot IN
  /\ IF h = 0 THEN SlotExhausted(blk) ELSE StoreBlock(h, blk, len)
  /\ Returned(c, call, IF h = 0 THEN -1 ELSE 0, h)

(***************************************************************************)
(* compress_alloc(source, source_len, &out_handle): -2 when the bound      *)
(* exceeds UINT32_MAX; malloc(bound) (never 0 bytes), NULL gives -1;       *)
(* compress() may fail for memory (Z_MEM_ERROR, buf freed); the output is *)
(* at most the bound, so the out_len check at :35 never fires.  The        *)
(* compressed length is abstracted to the two extremes: the 8-byte         *)
(* minimum of a zlib stream and the bound.                                 *)
(***************************************************************************)
x07_ext_zlib_compress_alloc(c, len) ==
  LET call == <<"compress_alloc", len>>
      bound == compressBound(len)
  IN
  \/ /\ bound > UINT32_MAX
     /\ Failed(c, call, -2)
  \/ /\ bound <= UINT32_MAX
     /\ \E m \in MallocResults(bound) :
          \/ m = "null" /\ Failed(c, call, -1)
          \/ m = "block" /\ Failed(c, call, Z_MEM_ERROR)
          \/ m = "block" /\ \E outLen \in {8, bound} :
                              ZlibPublish(c, call, Opaque(bound), outLen)

(***************************************************************************)
(* uncompress(): Z_DATA_ERROR for input that is not an intact zlib stream, *)
(* Z_BUF_ERROR when the output exceeds destLen, else Z_OK with the output  *)
(* length (zlib handles a zero destLen itself).  It may also fail with     *)
(* Z_MEM_ERROR when its inflate state cannot be allocated.                 *)
(***************************************************************************)
UncompressRc(src, max) ==
  CASE ~(src.fmt = "zlib" /\ src.valid) -> Z_DATA_ERROR
    [] src.n > max -> Z_BUF_ERROR
    [] OTHER -> Z_OK

(***************************************************************************)
(* uncompress_alloc(source, source_len, max_size, &out_handle): the        *)
(* max_size > UINT32_MAX check at :58 is dead (max_size is a u32);         *)
(* malloc(max_size) NULL -- malloc(0) included -- gives -1; a zlib error  *)
(* frees buf and is returned as is.                                        *)
(***************************************************************************)
x07_ext_zlib_uncompress_alloc(c, src, max) ==
  LET call == <<"uncompress_alloc", src, max>> IN
  \E m \in MallocResults(max) :
    \/ m = "null" /\ Failed(c, call, -1)
    \/ m = "block" /\ Failed(c, call, Z_MEM_ERROR)
    \/ /\ m = "block"
       /\ \/ UncompressRc(src, max) # Z_OK
             /\ Failed(c, call, UncompressRc(src, max))
          \/ UncompressRc(src, max) = Z_OK
             /\ ZlibPublish(c, call, Opaque(max), src.n)

(***************************************************************************)
(* inflate(&strm, Z_FINISH) with next_out = buf, avail_out = max_size:     *)
(* zlib returns Z_STREAM_ERROR when next_out is NULL, Z_DATA_ERROR for a   *)
(* stream not in the window_bits format or damaged, Z_BUF_ERROR when the   *)
(* output does not fit, and Z_STREAM_END when the stream is complete.     *)
(***************************************************************************)
InflateRc(m, fmt, src, max) ==
  CASE m = "null" -> Z_STREAM_ERROR
    [] ~(src.fmt = fmt /\ src.valid) -> Z_DATA_ERROR
    [] src.n > max -> Z_BUF_ERROR
    [] OTHER -> Z_STREAM_END

(* inflate failed: inflateEnd(&strm) releases zlib's state; free(buf).     *)
InflateFailedSkipsEnd(c, call, rc) ==  \* seeded fault: no inflateEnd
  /\ CanMalloc
  /\ heap' = heap @@ (FreshAddr :> InflateState)
  /\ UNCHANGED <<g_bufs, g_lens>>
  /\ Returned(c, call, rc, 0)

InflateFailed(c, call, rc) == Failed(c, call, rc)

(***************************************************************************)
(* inflate_alloc_window_bits(source, source_len, max_size, window_bits,   *)
(* &out_handle): a NULL buf fails only when max_size is not 0 (:95), so a *)
(* NULL from malloc(0) is handed to zlib; inflateInit2 may fail for       *)
(* memory (zlib frees its own state; buf freed); inflateEnd after a        *)
(* completed stream returns Z_OK; total_out <= max_size, so the check at  *)
(* :123 never fires.  fmt is the format window_bits selects.              *)
(***************************************************************************)
x07_ext_zlib_inflate_alloc_window_bits(c, entry, fmt, src, max) ==
  LET call == <<entry, src, max>> IN
  \E m \in MallocResults(max) :
    \/ m = "null" /\ max # 0 /\ Failed(c, call, -1)
    \/ /\ m = "block" \/ max = 0
       /\ \/ Failed(c, call, Z_MEM_ERROR)
          \/ InflateRc(m, fmt, src, max) # Z_STREAM_END
             /\ InflateFailed(c, call, InflateRc(m, fmt, src, max))
          \/ InflateRc(m, fmt, src, max) = Z_STREAM_END
             /\ ZlibPublish(c, call, Opaque(max), src.n)

(* gzip_decompress_alloc: window_bits 16 + MAX_WBITS, the gzip wrapper.    *)
x07_ext_zlib_gzip_decompress_alloc(c, src, max) ==
  x07_ext_zlib_inflate_alloc_window_bits(c, "gzip_decompress_alloc", "gzip", src, max)

(* inflate_raw_alloc: window_bits -MAX_WBITS, raw deflate.                 *)
x07_ext_zlib_inflate_raw_alloc(c, src, max) ==
  x07_ext_zlib_inflate_alloc_window_bits(c, "inflate_raw_alloc", "raw", src, max)

(* x07_ext_zlib_buf_free(handle), called by a caller on a handle it owns.  *)
x07_ext_zlib_buf_free(c, h) == Release(c, h)

Init == ShimInit

Next ==
  \E c \in Clients :
    \/ \E len \in SRC_LENS : x07_ext_zlib_compress_alloc(c, len)
    \/ \E src \in Sources, max \in MAX_SIZES :
         \/ x07_ext_zlib_uncompress_alloc(c, src, max)
         \/ x07_ext_zlib_gzip_decompress_alloc(c, src, max)
         \/ x07_ext_zlib_inflate_raw_alloc(c, src, max)
    \/ \E h \in Slots : x07_ext_zlib_buf_free(c, h)

Spec == Init /\ [][Next]_vars

(***************************************************************************)
(* Properties                                                              *)
(***************************************************************************)
Entries == {"uncompress_alloc", "gzip_decompress_alloc", "inflate_raw_alloc"}

CallDescs == ({"compress_alloc"} \X Nat) \cup (Entries \X Sources \X Nat)

TypeOK == ShimTypeOK(CallDescs)

(* The format each decompressing entry point accepts.                      *)
EntryFormat(entry) ==
  CASE entry = "uncompress_alloc" -> "zlib"
    [] entry = "gzip_decompress_alloc" -> "gzip"
    [] entry = "inflate_raw_alloc" -> "raw"

(* A decompressing call given an intact stream of its format whose output *)
(* fits max_size either succeeds or fails for lack of memory or of a      *)
(* handle (-1, Z_MEM_ERROR): it never reports the input as bad.  The      *)
(* :95 guard lets a NULL buffer from malloc(0) reach inflate, as if an     *)
(* empty output needed no buffer.                                          *)
FittingDecompressSucceeds ==
  \A c \in Clients :
    LET call == last[c][1]
        ret == last[c][2]
    IN (call # <<>> /\ call[1] \in Entries
        /\ call[2].fmt = EntryFormat(call[1]) /\ call[2].valid
        /\ call[2].n <= call[3])
       => ret \in {0, -1, Z_MEM_ERROR}

=============================================================================
