----------------------------- MODULE OpensslShim -----------------------------
(***************************************************************************)
(* The *_alloc entry points of x07-ext-openssl-c 0.1.9 (ffi/openssl_shim.c)*)
(* and the generated code that calls them.  Each entry point is one atomic *)
(* action (calls are synchronous): it validates its arguments, asks        *)
(* libcrypto for the output, mallocs the output buffer and publishes it in *)
(* the shim's handle table, or frees it and fails.  libcrypto's own        *)
(* results (RAND_bytes, signing, key generation) are nondeterministic      *)
(* successes or failures; every malloc may return NULL.                    *)
(***************************************************************************)
EXTENDS ShimClients

CONSTANTS
  RAND_LENS,      \* len arguments given to rand_bytes_alloc
  SK_LENS,        \* sk_len arguments given to the ed25519 entry points
  N_LENS,         \* n_len arguments given to rsa_pkcs1_sha256_sign_alloc
  JWK_BITS        \* bits arguments given to rsa_rs256_private_jwk_generate_alloc

RAND_MAX_LEN == 1024 * 1024
INT32_MAX == 2147483647

WriteU32BigEndian(v) ==       \* seeded fault: most significant byte first
  [i \in 1 .. 4 |-> (v \div 2^(8 * (4 - i))) % 256]

(* x07_ext_write_u32_le: v as four bytes, least significant first.         *)
x07_ext_write_u32_le(v) == [i \in 1 .. 4 |-> (v \div 2^(8 * (i - 1))) % 256]

(* x07_ext_make_err_doc: a 9-byte Err document: tag 0, code, 0.            *)
x07_ext_make_err_doc(code) ==
  [size |-> 9,
   data |-> <<0>> \o x07_ext_write_u32_le(code) \o x07_ext_write_u32_le(0)]

(* A buffer whose contents are written by libcrypto, not by the shim.      *)
Opaque(n) == [size |-> n, data |-> <<>>]

(* x07_ext_b64url_nopad: the number of characters it writes for len bytes. *)
B64UrlNopadLen(len) ==
  4 * (len \div 3) + (CASE len % 3 = 1 -> 2 [] len % 3 = 2 -> 3 [] OTHER -> 0)

(* The common ending of the int32 entry points that return the slot.      *)
PublishSlot(c, call, blk, len) ==
  /\ CanMalloc
  /\ PublishBlock(blk, len)
  /\ Returned(c, call, AllocBufSlot, AllocBufSlot)

(***************************************************************************)
(* rand_bytes_alloc(len, &out_handle): *out_handle = 0 first; a len over   *)
(* 1 MiB yields an Err document with code 3.  Otherwise doc = [1, bytes]   *)
(* of 1 + len bytes; when RAND_bytes fails the doc is freed and replaced   *)
(* by an Err document with code 1, and need becomes its length.  Returns   *)
(* 0 with the slot in *out_handle, or -1 (malloc failure, full table).     *)
(***************************************************************************)
RandPublish(c, call, blk, need) ==
  /\ CanMalloc
  /\ PublishBlock(blk, need)
  /\ Returned(c, call, IF AllocBufSlot # 0 THEN 0 ELSE -1, AllocBufSlot)

RandTooLong(c, len) ==
  LET call == <<"rand_bytes_alloc", len>> IN
  /\ len > RAND_MAX_LEN
  /\ \/ Failed(c, call, -1)                       \* make_err_doc: malloc NULL
     \/ RandPublish(c, call, x07_ext_make_err_doc(3), 9)

RandFillStaleNeed(c, len) ==  \* seeded fault: "need = doc_len" is missing
  LET call == <<"rand_bytes_alloc", len>>
      need == 1 + len
  IN
  /\ len <= RAND_MAX_LEN
  /\ \/ Failed(c, call, -1)
     \/ RandPublish(c, call, [size |-> need, data |-> <<1>>], need)
     \/ /\ len # 0
        /\ \/ Failed(c, call, -1)
           \/ RandPublish(c, call, x07_ext_make_err_doc(1), need)

RandFill(c, len) ==
  LET call == <<"rand_bytes_alloc", len>>
      need == 1 + len
  IN
  /\ len <= RAND_MAX_LEN
  /\ \/ Failed(c, call, -1)                       \* malloc(need) is NULL
     \/ RandPublish(c, call, [size |-> need, data |-> <<1>>], need)
     \/ /\ len # 0                                \* RAND_bytes(doc+1, len) != 1
        /\ \/ Failed(c, call, -1)                 \* free(doc); err doc NULL
           \/ RandPublish(c, call, x07_ext_make_err_doc(1), 9)

x07_ext_openssl_rand_bytes_alloc(c, len) ==
  RandTooLong(c, len) \/ RandFill(c, len)

(***************************************************************************)
(* ed25519_sign_alloc(sk, sk_len, msg, msg_len): sk_len must be 32; the   *)
(* 64-byte signature is malloc'd, filled by ed25519_sign (freed when that *)
(* fails) and published.  Returns the slot, 0 on any failure.             *)
(***************************************************************************)
x07_ext_openssl_ed25519_sign_alloc(c, sk_len) ==
  LET call == <<"ed25519_sign_alloc", sk_len>> IN
  \/ /\ sk_len # 32
     /\ Failed(c, call, 0)
  \/ /\ sk_len = 32
     /\ \/ Failed(c, call, 0)      \* malloc(64) NULL, or sign fails: free(sig)
        \/ PublishSlot(c, call, Opaque(64), 64)

(***************************************************************************)
(* ed25519_pk_from_seed_alloc(sk, sk_len): sk_len must be 32; libcrypto    *)
(* derives the public key into a stack array, which is copied into a      *)
(* malloc'd 32-byte buffer and published.                                  *)
(***************************************************************************)
x07_ext_openssl_ed25519_pk_from_seed_alloc(c, sk_len) ==
  LET call == <<"ed25519_pk_from_seed_alloc", sk_len>> IN
  \/ /\ sk_len # 32
     /\ Failed(c, call, 0)
  \/ /\ sk_len = 32
     /\ \/ Failed(c, call, 0)      \* a libcrypto step fails, or malloc(32) NULL
        \/ PublishSlot(c, call, Opaque(32), 32)

(***************************************************************************)
(* rsa_pkcs1_sha256_sign_alloc(n, n_len, e, e_len, d, d_len, msg, msg_len):*)
(* zero or over-INT32_MAX lengths fail; the signature buffer is n_len      *)
(* bytes and is freed unless EVP_DigestSign wrote exactly n_len bytes.     *)
(* e_len and d_len are taken valid; they are checked like n_len.           *)
(***************************************************************************)
x07_ext_openssl_rsa_pkcs1_sha256_sign_alloc(c, n_len) ==
  LET call == <<"rsa_pkcs1_sha256_sign_alloc", n_len>> IN
  \/ /\ n_len = 0 \/ n_len > INT32_MAX
     /\ Failed(c, call, 0)
  \/ /\ n_len # 0 /\ n_len <= INT32_MAX
     /\ \/ Failed(c, call, 0)      \* key setup, signing or malloc fails
        \/ PublishSlot(c, call, Opaque(n_len), n_len)

(***************************************************************************)
(* rsa_rs256_private_jwk_generate_alloc(bits): bits below 2048 become      *)
(* 2048, above 8192 fail.  The JWK text is the fixed JSON punctuation (73  *)
(* bytes) around the base64url of n, e, d, p, q, dp, dq, qi; taken here at *)
(* their full byte lengths (n, d: bits/8; e = 65537: 3; the rest bits/16). *)
(***************************************************************************)
JwkTotal(bits) ==
  73 + 2 * B64UrlNopadLen(bits \div 8) + B64UrlNopadLen(3)
     + 5 * B64UrlNopadLen(bits \div 16)

x07_ext_openssl_rsa_rs256_private_jwk_generate_alloc(c, bits0) ==
  LET bits == IF bits0 < 2048 THEN 2048 ELSE bits0
      call == <<"rsa_rs256_private_jwk_generate_alloc", bits0>>
  IN
  \/ /\ bits > 8192
     /\ Failed(c, call, 0)
  \/ /\ bits <= 8192
     /\ \/ Failed(c, call, 0)      \* keygen, an encoding or malloc fails
        \/ PublishSlot(c, call, Opaque(JwkTotal(bits)), JwkTotal(bits))

Init == ShimInit

Next ==
  \E c \in Clients :
    \/ \E len \in RAND_LENS : x07_ext_openssl_rand_bytes_alloc(c, len)
    \/ \E k \in SK_LENS : x07_ext_openssl_ed25519_sign_alloc(c, k)
    \/ \E k \in SK_LENS : x07_ext_openssl_ed25519_pk_from_seed_alloc(c, k)
    \/ \E n \in N_LENS : x07_ext_openssl_rsa_pkcs1_sha256_sign_alloc(c, n)
    \/ \E b \in JWK_BITS : x07_ext_openssl_rsa_rs256_private_jwk_generate_alloc(c, b)
    \/ \E h \in Slots : Release(c, h)

Spec == Init /\ [][Next]_vars

(***************************************************************************)
(* Properties                                                              *)
(***************************************************************************)
Calls == STRING \X Nat

TypeOK == ShimTypeOK(Calls)

(* The reader's decoding of a little-endian u32 (x07 runtime side).        *)
ReadU32LE(s) == s[1] + 256 * s[2] + 65536 * s[3] + 16777216 * s[4]

(* A handle from rand_bytes_alloc(len) names a Result document the caller *)
(* can decode by its length: Ok (tag 1) with exactly len random bytes, or *)
(* Err (tag 0) in 9 bytes whose code is 3 when len exceeds 1 MiB and 1     *)
(* when RAND_bytes failed, followed by a zero u32.                         *)
RandDocDecodes ==
  \A c \in Clients : \A h \in DOMAIN held[c] :
    (held[c][h].call[1] = "rand_bytes_alloc" /\ BufPtr(h) \in DOMAIN heap) =>
      LET len == held[c][h].call[2]
          doc == heap[BufPtr(h)].data
      IN \/ /\ doc = <<1>>
            /\ len <= RAND_MAX_LEN
            /\ BufLen(h) = 1 + len
         \/ /\ Len(doc) = 9 /\ doc[1] = 0 /\ BufLen(h) = 9
            /\ ReadU32LE(SubSeq(doc, 6, 9)) = 0
            /\ \/ len > RAND_MAX_LEN /\ ReadU32LE(SubSeq(doc, 2, 5)) = 3
               \/ 0 < len /\ len <= RAND_MAX_LEN /\ ReadU32LE(SubSeq(doc, 2, 5)) = 1

=============================================================================
