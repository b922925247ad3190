--------------------------- MODULE OpensslObjects ---------------------------
(***************************************************************************)
(* The libcrypto objects the stateless wrappers of x07-ext-openssl-c 0.1.9 *)
(* (ffi/openssl_shim.c) create and release: EVP_PKEY, EVP_MD_CTX, BIGNUM,  *)
(* RSA, EC_KEY, ECDSA_SIG and the malloc'd DER signature.  A wrapper keeps *)
(* nothing between calls, but within a call every early return must        *)
(* release exactly what is still owned, after RSA_set0_key and             *)
(* ECDSA_SIG_set0 have moved the BIGNUMs into their holder and             *)
(* EVP_PKEY_set1_* has added a reference to the key.                       *)
(*                                                                         *)
(* Each wrapper's body is written as its sequence of library calls, in the *)
(* code's order, each with the frees its failure branch performs; the      *)
(* actions execute one call at a time.  An object is named by the local    *)
(* that holds it (a call creates each at most once).  libcrypto's results  *)
(* are nondeterministic; its ownership rules are those of its manual:      *)
(* *_free drops one reference and, at zero, the references the object      *)
(* holds; set0 hands the arguments' references to the holder on success;   *)
(* set1 adds one.                                                          *)
(***************************************************************************)
EXTENDS Naturals, Sequences, SequencesExt, BagsExt, B64Url

CONSTANTS
  WRAPPERS,    \* the wrappers called
  LENS,        \* the uint32 length arguments given to them
  INT32_MAX    \* 2147483647 in the code; a small stand-in for TLC

ASSUME LENS \subseteq Nat /\ INT32_MAX \in Nat

VARIABLES
  fn,      \* the wrapper being executed, "none" between calls
  ip,      \* the index of its next library call
  args,    \* its length arguments
  badArg,  \* an argument fails a non-length check: a NULL pointer, bits > 8192
  bound,   \* locals whose constructor returned non-NULL
  mem,     \* libcrypto's objects: refs (a bag), owns, bad (a dead one touched)
  ok,      \* the normalised result of the final verify/sign
  ret,     \* the value the last call returned (0 before any)
  casts,   \* the length arguments converted to int in this call
  jwkLen,  \* jwk_generate_alloc: the length of each member string (n_len, ...)
  outCap,  \* jwk_generate_alloc: total, the bytes malloc'd for the JSON text
  written  \* jwk_generate_alloc: bytes the memcpy chain wrote (w - out)

jwk == <<jwkLen, outCap, written>>

vars == <<fn, ip, args, badArg, bound, mem, ok, ret, casts, bnArg, jwk>>

(* The BIGNUMs RSA_generate_key_ex gives the key (RSA_get0_key, _factors, *)
(* _crt_params borrow them), and the base64url strings of the JWK.        *)
RsaParts == {"n_bn", "e_bn", "d_bn", "p_bn", "q_bn", "dp_bn", "dq_bn", "qi_bn"}

JwkStrs == {"n", "e_s", "d", "p", "q", "dp", "dq", "qi"}

Locals == {"pkey", "sk_pkey", "pk_pkey", "ctx", "rsa", "bn_n", "bn_e", "ec",
           "bn_x", "bn_y", "ecdsa_sig", "r", "s", "der", "bn_d", "sig", "out", "e"}
          \cup RsaParts \cup JwkStrs

(***************************************************************************)
(* libcrypto's ownership rules (the declarations at lines 20-73).         *)
(***************************************************************************)
RECURSIVE Release(_, _)
Release(m, o) ==
  IF o \notin DOMAIN m.refs THEN [m EXCEPT !.bad = TRUE]
  ELSE IF m.refs[o] > 1 THEN [m EXCEPT !.refs = BagRemove(@, o)]
  ELSE FoldSet(LAMBDA x, acc : Release(acc, x),
               [m EXCEPT !.refs = BagRemove(@, o), !.owns[o] = {}],
               m.owns[o])

Use(m, S) == [m EXCEPT !.bad = @ \/ ~(S \subseteq DOMAIN m.refs)]

Created(m, o) == [m EXCEPT !.refs = BagAdd(@, o), !.owns[o] = {}]

(* RSA_generate_key_ex: the key's BIGNUMs, each held only by the RSA.     *)
Generated(m, h, K) ==
  [m EXCEPT !.refs = m.refs @@ [k \in K |-> 1],
            !.owns = [o \in Locals |-> IF o = h THEN K ELSE IF o \in K THEN {} ELSE m.owns[o]]]

Set0(m, h, K) == [m EXCEPT !.owns[h] = @ \cup K]

Set1(m, h, k) == [m EXCEPT !.refs = BagAdd(@, k), !.owns[h] = @ \cup {k}]

Effect(m, e) ==
  CASE e[1] = "set0" -> Set0(m, e[2], e[3])
    [] e[1] = "set1" -> Set1(m, e[2], e[3])
    [] e[1] = "gen" -> Generated(m, e[2], e[3])
    [] OTHER -> m

(* A free list: "free" x, or "freeif" x (if (x) free(x)).                 *)
Frees(m, fl, b) ==
  FoldLeft(LAMBDA acc, c : IF c[1] = "freeif" /\ c[2] \notin b THEN acc
                           ELSE Release(acc, c[2]), m, fl)

(* (int)v for a uint32 v: two's-complement wrap above INT32_MAX.           *)
IntCast(v) == IF v > INT32_MAX THEN v - 2 * (INT32_MAX + 1) ELSE v

(* The result conversion "== 1 ? 1 : 0" the wrappers apply.                *)
OneOrZeroRaw(r) ==  \* seeded fault: the library's int returned as is
  r

OneOrZero(r) == IF r = 1 THEN 1 ELSE 0

(***************************************************************************)
(* The instructions a wrapper body is made of.                             *)
(***************************************************************************)
None == <<"none">>
F(x) == <<"free", x>>
FI(x) == <<"freeif", x>>
Ins(op, x, uses, eff, ints, fl) ==
  [op |-> op, x |-> x, uses |-> uses, eff |-> eff, ints |-> ints, fl |-> fl]
Args == Ins("args", "", {}, None, {}, <<>>)
New(x, ints) == Ins("new", x, {}, None, ints, <<>>)       \* x = ctor(...)
Enc(x, b) == Ins("enc", x, {b}, None, {}, <<>>)      \* x = x07_ext_bn_b64url(b, ...)
Check(S, fl) == Ins("check", "", S, None, {}, fl)        \* if (!x ...) {fl; return 0;}
Lib(uses, eff, fl) == Ins("call", "", uses, eff, {}, fl)  \* if (call(...) != 1) {fl; return 0;}
Result(uses, conv, ints) == Ins("result", conv, uses, None, ints, <<>>)
Free(fl) == Ins("free", "", {}, None, {}, fl)
Ret == Ins("ret", "", {}, None, {}, <<>>)
IfOk(fl) == Ins("ifok", "", {}, None, {}, fl)           \* if (!ok || ...) {fl; return 0;}
Publish(x) == Ins("publish", x, {x}, None, {}, <<F(x)>>) \* slot = alloc_buf_slot(); if (!slot) {free(x); return 0;}

(***************************************************************************)
(* The argument checks each wrapper makes before its first library call:  *)
(* <<>> to go on, or <<v>> when it returns v.                              *)
(***************************************************************************)
RandBytesGuard(a, n) ==
  CASE a.len = 0 -> <<1>> [] n -> <<0>> [] a.len > INT32_MAX -> <<0>> [] OTHER -> <<>>

Ed25519Guard(a, n, key) ==
  IF n \/ a[key] # 32 \/ a.sig_len # 64 THEN <<0>> ELSE <<>>

RsaGuardNoIntMax(a, n) ==  \* seeded fault: line 461 left out
  IF n \/ 0 \in {a.n_len, a.e_len, a.sig_len} \/ a.sig_len # a.n_len THEN <<0>>
  ELSE <<>>

RsaGuard(a, n) ==
  IF \/ n \/ 0 \in {a.n_len, a.e_len, a.sig_len} \/ a.sig_len # a.n_len
     \/ \E v \in {a.n_len, a.e_len, a.msg_len} : v > INT32_MAX
  THEN <<0>> ELSE <<>>

Ed25519AllocGuard(a, n) == IF n \/ a.sk_len # 32 THEN <<0>> ELSE <<>>

RsaSignGuard(a, n) ==
  IF \/ n \/ 0 \in {a.n_len, a.e_len, a.d_len}
     \/ \E v \in {a.n_len, a.e_len, a.d_len, a.msg_len} : v > INT32_MAX
  THEN <<0>> ELSE <<>>

EcdsaGuard(a, n) ==
  IF \/ n \/ a.x_len # 32 \/ a.y_len # 32 \/ a.sig_len # 64
     \/ a.msg_len > INT32_MAX
  THEN <<0>> ELSE <<>>

(***************************************************************************)
(* The wrapper bodies.                                                     *)
(***************************************************************************)
x07_ext_openssl_sha256 == <<Result({}, "ptr", {}), Ret>>

x07_ext_openssl_hmac == <<Result({}, "ptr", {"key_len"}), Ret>>

x07_ext_openssl_rand_bytes == <<Args, Result({}, "eq1", {"len"}), Ret>>

(* ed25519_verify and ed25519_sign: one raw key, one digest context; for  *)
(* sign the final "siglen == 64" check folds into the result.             *)
Ed25519OneKey ==
  << Args,
     Lib({}, None, <<>>),                                  \* OBJ_txt2nid
     New("pkey", {}), Check({"pkey"}, <<>>),
     New("ctx", {}), Check({"ctx"}, <<F("pkey")>>),
     Lib({"ctx", "pkey"}, None, <<F("ctx"), F("pkey")>>),  \* Digest*Init
     Result({"ctx"}, "eq1", {}),                           \* EVP_Digest{Verify,Sign}
     Free(<<F("ctx"), F("pkey")>>),
     Ret >>

x07_ext_openssl_ed25519_verify_sk ==
  << Args,
     Lib({}, None, <<>>),
     New("sk_pkey", {}), Check({"sk_pkey"}, <<>>),
     Lib({"sk_pkey"}, None, <<F("sk_pkey")>>),             \* get_raw_public_key
     New("pk_pkey", {}), Free(<<F("sk_pkey")>>), Check({"pk_pkey"}, <<>>),
     New("ctx", {}), Check({"ctx"}, <<F("pk_pkey")>>),
     Lib({"ctx", "pk_pkey"}, None, <<F("ctx"), F("pk_pkey")>>),
     Result({"ctx"}, "eq1", {}),
     Free(<<F("ctx"), F("pk_pkey")>>),
     Ret >>

(* RSA_new, BN_bin2bn of n and e, RSA_set0_key (lines 466-483).         *)
RsaKeyFreesBns ==  \* seeded fault: BN_free of n and e after RSA_set0_key
  << New("rsa", {}), Check({"rsa"}, <<>>),
     New("bn_n", {"n_len"}), New("bn_e", {"e_len"}),
     Check({"bn_n", "bn_e"}, <<FI("bn_n"), FI("bn_e"), F("rsa")>>),
     Lib({"rsa", "bn_n", "bn_e"}, <<"set0", "rsa", {"bn_n", "bn_e"}>>,
         <<F("bn_n"), F("bn_e"), F("rsa")>>),
     Free(<<F("bn_n"), F("bn_e")>>) >>

RsaKey ==
  << New("rsa", {}), Check({"rsa"}, <<>>),
     New("bn_n", {"n_len"}), New("bn_e", {"e_len"}),
     Check({"bn_n", "bn_e"}, <<FI("bn_n"), FI("bn_e"), F("rsa")>>),
     Lib({"rsa", "bn_n", "bn_e"}, <<"set0", "rsa", {"bn_n", "bn_e"}>>,
         <<F("bn_n"), F("bn_e"), F("rsa")>>) >>

x07_ext_openssl_rsa_pkcs1_sha256_verify ==
  <<Args>> \o RsaKey \o
  << New("pkey", {}), Check({"pkey"}, <<F("rsa")>>),
     Lib({"pkey", "rsa"}, <<"set1", "pkey", "rsa">>, <<F("pkey"), F("rsa")>>),
     Free(<<F("rsa")>>),
     New("ctx", {}), Check({"ctx"}, <<F("pkey")>>),
     Lib({"ctx", "pkey"}, None, <<F("ctx"), F("pkey")>>),
     Result({"ctx"}, "eq1", {}),
     Free(<<F("ctx"), F("pkey")>>),
     Ret >>

(* EC_KEY from the curve with x and y copied in, checked, and an EVP_PKEY *)
(* holding it (lines 765-805).                                             *)
EcPkeyKeepsEc ==  \* seeded fault: EC_KEY_free(ec) after EVP_PKEY_set1_EC_KEY left out
  << Lib({}, None, <<>>),
     New("ec", {}), Check({"ec"}, <<>>),
     New("bn_x", {"x_len"}), New("bn_y", {"y_len"}),
     Check({"bn_x", "bn_y"}, <<FI("bn_x"), FI("bn_y"), F("ec")>>),
     Lib({"ec", "bn_x", "bn_y"}, None, <<F("bn_x"), F("bn_y"), F("ec")>>),
     Free(<<F("bn_x"), F("bn_y")>>),
     Lib({"ec"}, None, <<F("ec")>>),
     New("pkey", {}), Check({"pkey"}, <<F("ec")>>),
     Lib({"pkey", "ec"}, <<"set1", "pkey", "ec">>, <<F("pkey"), F("ec")>>) >>

EcPkey ==
  << Lib({}, None, <<>>),                                           \* OBJ_txt2nid
     New("ec", {}), Check({"ec"}, <<>>),
     New("bn_x", {"x_len"}), New("bn_y", {"y_len"}),
     Check({"bn_x", "bn_y"}, <<FI("bn_x"), FI("bn_y"), F("ec")>>),
     Lib({"ec", "bn_x", "bn_y"}, None, <<F("bn_x"), F("bn_y"), F("ec")>>), \* set_public_key_affine_coordinates
     Free(<<F("bn_x"), F("bn_y")>>),
     Lib({"ec"}, None, <<F("ec")>>),                                \* EC_KEY_check_key
     New("pkey", {}), Check({"pkey"}, <<F("ec")>>),
     Lib({"pkey", "ec"}, <<"set1", "pkey", "ec">>, <<F("pkey"), F("ec")>>),
     Free(<<F("ec")>>) >>

(* Then an ECDSA_SIG owning r and s, encoded to DER, and the verify.       *)
x07_ext_openssl_ecdsa_p256_sha256_verify_rawsig ==
  <<Args>> \o EcPkey \o
  << New("ecdsa_sig", {}), Check({"ecdsa_sig"}, <<F("pkey")>>),
     New("r", {}), New("s", {}),
     Check({"r", "s"}, <<FI("r"), FI("s"), F("ecdsa_sig"), F("pkey")>>),
     Lib({"ecdsa_sig", "r", "s"}, <<"set0", "ecdsa_sig", {"r", "s"}>>,
         <<F("r"), F("s"), F("ecdsa_sig"), F("pkey")>>),
     Lib({"ecdsa_sig"}, None, <<F("ecdsa_sig"), F("pkey")>>),       \* der_len <= 0
     New("der", {}), Check({"der"}, <<F("ecdsa_sig"), F("pkey")>>), \* malloc
     Lib({"ecdsa_sig", "der"}, None, <<F("der"), F("ecdsa_sig"), F("pkey")>>),
     Free(<<F("ecdsa_sig")>>),
     New("ctx", {}), Check({"ctx"}, <<F("der"), F("pkey")>>),
     Lib({"ctx", "pkey"}, None, <<F("ctx"), F("der"), F("pkey")>>),
     Result({"ctx", "der"}, "eq1", {}),
     Free(<<F("ctx"), F("der"), F("pkey")>>),
     Ret >>

x07_ext_openssl_ed25519_sign_alloc ==
  << Args,
     New("sig", {}), Check({"sig"}, <<>>),
     Lib({"sig"}, None, <<F("sig")>>),             \* x07_ext_openssl_ed25519_sign
     Publish("sig") >>

x07_ext_openssl_ed25519_pk_from_seed_alloc ==
  << Args,
     Lib({}, None, <<>>),
     New("sk_pkey", {}), Check({"sk_pkey"}, <<>>),
     Lib({"sk_pkey"}, None, <<F("sk_pkey")>>),     \* get_raw_public_key
     Free(<<F("sk_pkey")>>),
     New("out", {}), Check({"out"}, <<>>),
     Publish("out") >>

x07_ext_openssl_rsa_pkcs1_sha256_sign_alloc ==
  << Args,
     New("rsa", {}), Check({"rsa"}, <<>>),
     New("bn_n", {"n_len"}), New("bn_e", {"e_len"}), New("bn_d", {"d_len"}),
     Check({"bn_n", "bn_e", "bn_d"}, <<FI("bn_n"), FI("bn_e"), FI("bn_d"), F("rsa")>>),
     Lib({"rsa", "bn_n", "bn_e", "bn_d"}, <<"set0", "rsa", {"bn_n", "bn_e", "bn_d"}>>,
         <<F("bn_n"), F("bn_e"), F("bn_d"), F("rsa")>>),
     New("pkey", {}), Check({"pkey"}, <<F("rsa")>>),
     Lib({"pkey", "rsa"}, <<"set1", "pkey", "rsa">>, <<F("pkey"), F("rsa")>>),
     Free(<<F("rsa")>>),
     New("ctx", {}), Check({"ctx"}, <<F("pkey")>>),
     Lib({"ctx", "pkey"}, None, <<F("ctx"), F("pkey")>>),
     New("sig", {}), Check({"sig"}, <<F("ctx"), F("pkey")>>),
     Result({"ctx", "sig"}, "eq1", {}),                  \* EVP_DigestSign
     Free(<<F("ctx"), F("pkey")>>),
     IfOk(<<F("sig")>>),                                 \* !ok || siglen != n_len
     Publish("sig") >>

(* The member strings in the code's order, and the lengths of the JSON   *)
(* literals a0 .. a8 around them ("{\"kty\":\"RSA\",\"n\":\"" ... "\"}\n").    *)
JwkOrder == <<"n", "e_s", "d", "p", "q", "dp", "dq", "qi">>

JwkLits == <<18, 7, 7, 7, 7, 8, 8, 8, 3>>

(* The members encoded before x.  Once one of them is NULL the call can   *)
(* only fail, and the lengths are not read again.                          *)
JwkBefore(x) == {JwkOrder[j] : j \in {i \in 1 .. 8 : \E k \in 1 .. 8 : JwkOrder[k] = x /\ i < k}}

(* The eight string frees, in the code's order; kind "free" or "freeif".  *)
JwkStrFrees(kind) == [i \in 1 .. 8 |-> <<kind, JwkOrder[i]>>]

(* The pieces the memcpy chain copies, in order: a0, n, a1, e_s, ..., a8,  *)
(* and the bytes it writes with w advancing by each.                      *)
JwkPieces(lens) ==
  FlattenSeq([i \in 1 .. 8 |-> <<JwkLits[i], lens[JwkOrder[i]]>>]) \o <<JwkLits[9]>>

JwkWritten(lens) == FoldLeft(+, 0, JwkPieces(lens))

JwkTotalNoTail(lens) ==  \* seeded fault: strlen(a8) left out of total
  FoldLeft(+, 0, [i \in 1 .. 8 |-> JwkLits[i] + lens[JwkOrder[i]]])

(* total = strlen(a0) + n_len + strlen(a1) + ... + qi_len + strlen(a8).    *)
JwkTotal(lens) ==
  FoldLeft(+, 0, [i \in 1 .. 8 |-> JwkLits[i] + lens[JwkOrder[i]]]) + JwkLits[9]

(* A 65537 exponent, a generated key, the base64url of its eight          *)
(* borrowed BIGNUMs, the JSON text built from them, and the RSA freed      *)
(* (with the BIGNUMs it holds) before the text is published.              *)
x07_ext_openssl_rsa_rs256_private_jwk_generate_alloc ==
  << Args,
     New("rsa", {}), Check({"rsa"}, <<>>),
     New("e", {}), Check({"e"}, <<F("rsa")>>),
     Lib({"e"}, None, <<F("e"), F("rsa")>>),                       \* BN_set_word
     Lib({"rsa", "e"}, <<"gen", "rsa", RsaParts>>, <<F("e"), F("rsa")>>),
     Free(<<F("e")>>),
     Lib({"rsa"}, None, <<F("rsa")>>),                             \* RSA_get0_*, NULL checks
     Enc("n", "n_bn"), Enc("e_s", "e_bn"), Enc("d", "d_bn"), Enc("p", "p_bn"),
     Enc("q", "q_bn"), Enc("dp", "dp_bn"), Enc("dq", "dq_bn"), Enc("qi", "qi_bn"),
     Check(JwkStrs, JwkStrFrees("freeif") \o <<F("rsa")>>),
     Ins("total", "", {}, None, {}, <<>>),
     New("out", {}), Check({"out"}, JwkStrFrees("free") \o <<F("rsa")>>),
     Ins("write", "out", JwkStrs \cup {"out"}, None, {}, <<>>),    \* the memcpy chain
     Free(JwkStrFrees("free") \o <<F("rsa")>>),
     Publish("out") >>

Params ==
  [sha256 |-> {"len"}, hmac |-> {"key_len", "data_len"}, rand_bytes |-> {"len"},
   ed25519_verify |-> {"pk_len", "msg_len", "sig_len"},
   ed25519_sign |-> {"sk_len", "msg_len", "sig_len"},
   ed25519_verify_sk |-> {"sk_len", "msg_len", "sig_len"},
   rsa_verify |-> {"n_len", "e_len", "msg_len", "sig_len"},
   ecdsa_verify |-> {"x_len", "y_len", "msg_len", "sig_len"},
   ed25519_sign_alloc |-> {"sk_len", "msg_len"},
   ed25519_pk_from_seed_alloc |-> {"sk_len"},
   rsa_sign_alloc |-> {"n_len", "e_len", "d_len", "msg_len"},
   jwk_generate_alloc |-> {}]

Body ==
  [sha256 |-> x07_ext_openssl_sha256, hmac |-> x07_ext_openssl_hmac,
   rand_bytes |-> x07_ext_openssl_rand_bytes,
   ed25519_verify |-> Ed25519OneKey, ed25519_sign |-> Ed25519OneKey,
   ed25519_verify_sk |-> x07_ext_openssl_ed25519_verify_sk,
   rsa_verify |-> x07_ext_openssl_rsa_pkcs1_sha256_verify,
   ecdsa_verify |-> x07_ext_openssl_ecdsa_p256_sha256_verify_rawsig,
   ed25519_sign_alloc |-> x07_ext_openssl_ed25519_sign_alloc,
   ed25519_pk_from_seed_alloc |-> x07_ext_openssl_ed25519_pk_from_seed_alloc,
   rsa_sign_alloc |-> x07_ext_openssl_rsa_pkcs1_sha256_sign_alloc,
   jwk_generate_alloc |-> x07_ext_openssl_rsa_rs256_private_jwk_generate_alloc]

Guard(f, a, n) ==
  CASE f = "rand_bytes" -> RandBytesGuard(a, n)
    [] f = "ed25519_verify" -> Ed25519Guard(a, n, "pk_len")
    [] f \in {"ed25519_sign", "ed25519_verify_sk"} -> Ed25519Guard(a, n, "sk_len")
    [] f = "rsa_verify" -> RsaGuard(a, n)
    [] f = "ecdsa_verify" -> EcdsaGuard(a, n)
    [] f \in {"ed25519_sign_alloc", "ed25519_pk_from_seed_alloc"} -> Ed25519AllocGuard(a, n)
    [] f = "rsa_sign_alloc" -> RsaSignGuard(a, n)
    [] f = "jwk_generate_alloc" -> IF n THEN <<0>> ELSE <<>>
    [] OTHER -> <<>>

(***************************************************************************)
(* Actions                                                                 *)
(***************************************************************************)
Cur == Body[fn][ip]

Init ==
  /\ fn = "none" /\ ip = 0 /\ args = <<>> /\ badArg = FALSE /\ bound = {}
  /\ mem = [refs |-> EmptyBag, owns |-> [l \in Locals |-> {}], bad |-> FALSE]
  /\ ok = 0 /\ ret = 0 /\ casts = {} /\ bnArg = <<>>
  /\ jwkLen = [x \in JwkStrs |-> 0] /\ outCap = 0 /\ written = 0

(* A caller enters a wrapper with some arguments; objects leaked by       *)
(* earlier calls stay in mem.                                              *)
Call(f) ==
  /\ fn = "none"
  /\ \E a \in [Params[f] -> LENS], n \in BOOLEAN :
       /\ fn' = f /\ ip' = 1 /\ args' = a /\ badArg' = n
       /\ bound' = {} /\ ok' = 0 /\ ret' = 0 /\ casts' = {} /\ bnArg' = <<>>
  /\ UNCHANGED <<mem, jwk>>

(* The wrapper returns v; its locals go out of scope.                      *)
Return(v) ==
  /\ fn' = "none" /\ ip' = 0 /\ args' = <<>> /\ badArg' = FALSE /\ bound' = {}
  /\ ret' = v /\ ok' = 0 /\ casts' = casts /\ bnArg' = <<>>
  /\ jwkLen' = [x \in JwkStrs |-> 0] /\ outCap' = 0 /\ written' = 0

Next1 == ip' = ip + 1 /\ bnArg' = <<>> /\ UNCHANGED <<fn, args, badArg, ret, jwk>>

Step == ip' = ip + 1 /\ UNCHANGED <<fn, args, badArg, ret, ok, casts>>

DoArgs ==
  /\ fn # "none" /\ Cur.op = "args"
  /\ LET g == Guard(fn, args, badArg) IN
       IF g = <<>> THEN Next1 /\ UNCHANGED <<bound, ok, casts>> ELSE Return(g[1])
  /\ UNCHANGED mem

(* x = constructor(...): an object, or NULL.                               *)
DoNew ==
  /\ fn # "none" /\ Cur.op = "new"
  /\ casts' = casts \cup {args[p] : p \in Cur.ints}
  /\ \/ mem' = Created(mem, Cur.x) /\ bound' = bound \cup {Cur.x}
     \/ UNCHANGED mem /\ bound' = bound \ {Cur.x}
  /\ Next1 /\ UNCHANGED ok

(* if (!x || ...) { frees; return 0; }                                     *)
DoCheck ==
  /\ fn # "none" /\ Cur.op = "check"
  /\ IF Cur.uses \subseteq bound
     THEN Next1 /\ UNCHANGED <<mem, bound, ok, casts>>
     ELSE mem' = Frees(mem, Cur.fl, bound) /\ Return(0)

(* if (call(...) != 1) { frees; return 0; } -- on success its ownership   *)
(* effect.                                                                 *)
DoCall ==
  /\ fn # "none" /\ Cur.op = "call"
  /\ \/ mem' = Effect(Use(mem, Cur.uses), Cur.eff) /\ Next1 /\ UNCHANGED <<bound, ok, casts>>
     \/ mem' = Frees(Use(mem, Cur.uses), Cur.fl, bound) /\ Return(0)

(* The final library call whose result the wrapper returns: "eq1" is      *)
(* "== 1 ? 1 : 0" of an int that may be negative; "ptr" is a pointer      *)
(* returned as is (non-NULL or NULL).                                      *)
DoResult ==
  /\ fn # "none" /\ Cur.op = "result"
  /\ casts' = casts \cup {args[p] : p \in Cur.ints}
  /\ mem' = Use(mem, Cur.uses)
  /\ IF Cur.x = "eq1" THEN \E r \in {-1, 0, 1} : ok' = OneOrZero(r)
                      ELSE ok' \in {0, 1}
  /\ Next1 /\ UNCHANGED bound

DoFree ==
  /\ fn # "none" /\ Cur.op = "free"
  /\ mem' = Frees(Use(mem, Cur.uses), Cur.fl, bound)
  /\ Next1 /\ UNCHANGED <<bound, ok, casts>>

DoIfOk ==
  /\ fn # "none" /\ Cur.op = "ifok"
  /\ \/ ok = 1 /\ Next1 /\ UNCHANGED <<mem, bound, ok, casts>>
     \/ mem' = Frees(mem, Cur.fl, bound) /\ Return(0)

(* The output goes into g_bufs[slot] and leaves the call's ownership, or   *)
(* with no slot free it is freed and the call returns 0.                   *)
DoPublish ==
  /\ fn # "none" /\ Cur.op = "publish"
  /\ LET m == Use(mem, Cur.uses) IN
       \/ mem' = [m EXCEPT !.refs = BagRemove(@, Cur.x)] /\ Return(1)
       \/ mem' = Frees(m, Cur.fl, bound) /\ Return(0)

(* x07_ext_bn_b64url of a borrowed BIGNUM: the text, or NULL when a       *)
(* malloc fails or BN_bn2bin writes other than the n bytes it was sized   *)
(* for.                                                                    *)
DoEncode ==
  /\ fn # "none" /\ Cur.op = "enc"
  /\ \E v \in IF Cur.uses = {"e_bn"} THEN {65537} ELSE BigNums :
       /\ bnArg' = <<v>>
       /\ \/ /\ x07_ext_bn_b64url(v).ok /\ mem' = Created(Use(mem, Cur.uses), Cur.x)
             /\ bound' = bound \cup {Cur.x}
             /\ jwkLen' = IF JwkBefore(Cur.x) \subseteq bound
                          THEN [jwkLen EXCEPT ![Cur.x] = Len(x07_ext_bn_b64url(v).out)]
                          ELSE jwkLen
          \/ mem' = Use(mem, Cur.uses) /\ bound' = bound \ {Cur.x} /\ UNCHANGED jwkLen
  /\ Step /\ UNCHANGED <<outCap, written>>

(* size_t total = strlen(a0) + n_len + ... + strlen(a8);                  *)
DoTotal ==
  /\ fn # "none" /\ Cur.op = "total"
  /\ outCap' = JwkTotal(jwkLen)
  /\ bnArg' = <<>> /\ Step /\ UNCHANGED <<mem, bound, jwkLen, written>>

(* The memcpy chain: each literal and member copied at w, w advanced by    *)
(* its length.                                                             *)
DoWrite ==
  /\ fn # "none" /\ Cur.op = "write"
  /\ mem' = Use(mem, Cur.uses)
  /\ written' = JwkWritten(jwkLen)
  /\ bnArg' = <<>> /\ Step /\ UNCHANGED <<bound, jwkLen, outCap>>

DoRet ==
  /\ fn # "none" /\ Cur.op = "ret"
  /\ Return(ok)
  /\ UNCHANGED mem

Next ==
  \/ \E f \in WRAPPERS : Call(f)
  \/ DoArgs \/ DoNew \/ DoCheck \/ DoCall \/ DoResult \/ DoFree \/ DoIfOk \/ DoPublish \/ DoEncode \/ DoTotal \/ DoWrite \/ DoRet

Spec == Init /\ [][Next]_vars

(***************************************************************************)
(* Properties                                                              *)
(***************************************************************************)
TypeOK ==
  /\ fn \in WRAPPERS \cup {"none"}
  /\ ret \in {0, 1} /\ ok \in {0, 1}
  /\ bound \subseteq Locals /\ casts \subseteq LENS
  /\ DOMAIN mem.refs \subseteq Locals
  /\ bnArg \in {<<>>} \cup {<<v>> : v \in BigNums \cup {65537}}
  /\ jwkLen \in [JwkStrs -> Nat] /\ outCap \in Nat /\ written \in Nat

(* Every path of every wrapper, the early returns after any failing       *)
(* library call or NULL constructor included, has released every object   *)
(* it created by the time it returns: nothing the BIGNUMs, keys, contexts *)
(* and signature hold stays reachable after set0 moved and set1 shared    *)
(* them.                                                                   *)
NoLeakOnReturn == fn = "none" => mem.refs = EmptyBag

(* No wrapper frees an object whose last reference is gone or hands one   *)
(* to libcrypto: no double free of a BIGNUM after set0 gave it to its     *)
(* holder, no use of a key after its last free.                            *)
NoDeadObjectTouched == ~mem.bad

(* Every uint32 length a wrapper converts to int (for BN_bin2bn,           *)
(* RAND_bytes, HMAC) is at most INT32_MAX, so libcrypto sees the length   *)
(* the caller gave: the entry points check this before the cast.          *)
IntCastsPreserveLengths == \A v \in casts : IntCast(v) = v

(* jwk_generate_alloc mallocs total bytes (:674-677) and then copies the  *)
(* nine literals and eight members with a moving cursor (:692-725): the   *)
(* cursor ends exactly at total, so nothing is written past the buffer    *)
(* and none of the g_lens[slot] = total bytes it publishes is left         *)
(* unwritten, whatever the lengths of the members.                        *)
JwkWritesExactlyTotal == written # 0 => written = outCap

=============================================================================
