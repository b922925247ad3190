------------------------------- MODULE B64Url -------------------------------
(***************************************************************************)
(* The text encoders of x07-ext-openssl-c 0.1.9 (ffi/openssl_shim.c) that *)
(* rsa_rs256_private_jwk_generate_alloc uses to write a JWK:               *)
(* x07_ext_b64url_nopad (base64url without padding, into a buffer of       *)
(* ((len + 2) / 3) * 4 + 1 bytes) and x07_ext_bn_b64url (a bignum as its   *)
(* big-endian bytes, then base64url).  Characters are their ASCII codes.   *)
(*                                                                         *)
(* x07_ext_b64url_nopad is called only by x07_ext_bn_b64url, on the raw   *)
(* bytes of a BIGNUM, and that only by jwk_generate_alloc, which           *)
(* OpensslObjects models: bnArg is the BIGNUM the step just taken encoded *)
(* in a call.  The properties compare the code's results for it with      *)
(* RFC 4648 section 5 and RFC 7518 section 2 stated without loops.         *)
(***************************************************************************)
EXTENDS Naturals, Sequences, SequencesExt, Bitwise

CONSTANT BigNums    \* the values a BIGNUM given to x07_ext_bn_b64url may have

ASSUME BigNums \subseteq Nat

VARIABLE bnArg     \* <<v>>: the BIGNUM given to the x07_ext_bn_b64url call just made, else <<>>

(***************************************************************************)
(* x07_ext_b64url_char(v): tbl[v & 0x3f] of "A-Z a-z 0-9 - _".             *)
(***************************************************************************)
x07_ext_b64url_char(v) ==
  LET k == v & 63 IN
  CASE k < 26 -> 65 + k [] k < 52 -> 97 + k - 26 [] k < 62 -> 48 + k - 52
    [] k = 62 -> 45 [] OTHER -> 95

(* The characters of the 6-bit groups of v at the given shifts.            *)
Chars(v, shifts) == [i \in 1 .. Len(shifts) |-> x07_ext_b64url_char(shiftR(v, shifts[i]) & 63)]

(***************************************************************************)
(* The loop over whole 3-byte groups from index i, then the 1 or 2 bytes   *)
(* left: v = d[i] << 16 | d[i+1] << 8 | d[i+2], four characters per group, *)
(* two for one byte left, three for two.                                   *)
(***************************************************************************)
RECURSIVE EncodeFrom(_, _)
EncodeFrom(d, i) ==
  LET rem == Len(d) - i + 1 IN
  CASE rem >= 3 ->
         Chars((d[i] * 2^16) | (d[i + 1] * 2^8) | d[i + 2], <<18, 12, 6, 0>>)
           \o EncodeFrom(d, i + 3)
    [] rem = 1 -> Chars(d[i] * 2^16, <<18, 12>>)
    [] rem = 2 -> Chars((d[i] * 2^16) | (d[i + 1] * 2^8), <<18, 12, 6>>)
    [] OTHER -> <<>>

CapFloor(len) ==  \* seeded fault: "cap = (len / 3) * 4"
  (len \div 3) * 4

(* cap: the characters the output buffer holds before its '\0'.            *)
B64Cap(len) == ((len + 2) \div 3) * 4

(* x07_ext_b64url_nopad(data, len): the buffer size and the text written.  *)
x07_ext_b64url_nopad(d) == [cap |-> B64Cap(Len(d)), out |-> EncodeFrom(d, 1)]

(***************************************************************************)
(* x07_ext_bn_b64url(bn): bits = BN_num_bits(bn); n = 1 for zero, else    *)
(* (bits + 7) / 8; raw = one zero byte for zero, else BN_bn2bin, which    *)
(* writes the value's minimal big-endian bytes and fails the call (NULL)  *)
(* unless it wrote exactly n.                                              *)
(***************************************************************************)
RECURSIVE BN_num_bits(_)
BN_num_bits(v) == IF v = 0 THEN 0 ELSE 1 + BN_num_bits(v \div 2)

RECURSIVE BN_bn2bin(_)
BN_bn2bin(v) == IF v = 0 THEN <<>> ELSE BN_bn2bin(v \div 256) \o <<v % 256>>

BnBytesFloor(bits) ==  \* seeded fault: "n = bits / 8"
  IF bits <= 0 THEN 1 ELSE bits \div 8

BnBytes(bits) == IF bits <= 0 THEN 1 ELSE (bits + 7) \div 8

x07_ext_bn_b64url(v) ==
  LET bits == BN_num_bits(v)
      n == BnBytes(bits)
      Enc(raw) == [ok |-> TRUE, raw |-> raw, out |-> x07_ext_b64url_nopad(raw).out]
  IN CASE bits <= 0 -> Enc(<<0>>)
       [] Len(BN_bn2bin(v)) # n -> [ok |-> FALSE, raw |-> <<>>, out |-> <<>>]
       [] OTHER -> Enc(BN_bn2bin(v))

(***************************************************************************)
(* Properties                                                              *)
(***************************************************************************)

(* RFC 4648 section 5: the URL-safe alphabet, A-Z a-z 0-9 '-' '_'.          *)
UrlAlphabet ==
  [i \in 1 .. 26 |-> 64 + i] \o [i \in 1 .. 26 |-> 96 + i]
    \o [i \in 1 .. 10 |-> 47 + i] \o <<45, 95>>

(* Base64url without padding, by its definition: the bits of d, most       *)
(* significant first, zero-filled to a multiple of 6, each 6 bits one      *)
(* character.                                                              *)
Base64UrlNoPad(d) ==
  LET Bit(k) == IF k > 8 * Len(d) THEN 0
                ELSE (d[(k - 1) \div 8 + 1] \div 2^(7 - ((k - 1) % 8))) % 2
      Group(g) == LET b(j) == Bit(6 * (g - 1) + j)
                  IN 32 * b(1) + 16 * b(2) + 8 * b(3) + 4 * b(4) + 2 * b(5) + b(6)
  IN [g \in 1 .. (8 * Len(d) + 5) \div 6 |-> UrlAlphabet[Group(g) + 1]]

(* x07_ext_b64url_nopad writes exactly the unpadded base64url of the raw  *)
(* bytes bn_b64url gives it, and never past its buffer: the characters and *)
(* the '\0' after them fit in the cap + 1 bytes it mallocs, for every      *)
(* remainder of len modulo 3.                                              *)
B64MatchesRfc4648 ==
  \A v \in Range(bnArg) :
    LET d == x07_ext_bn_b64url(v).raw
        r == x07_ext_b64url_nopad(d)
    IN x07_ext_bn_b64url(v).ok => r.out = Base64UrlNoPad(d) /\ Len(r.out) < r.cap + 1

(* RFC 7518 section 2 (Base64urlUInt), required of every JWK member the    *)
(* shim writes: the base64url of the value's shortest big-endian octets,  *)
(* zero as a single zero octet ("AA").  bn_b64url gives exactly that and   *)
(* does not fail for any value.                                            *)
BnIsBase64urlUInt ==
  \A bn \in Range(bnArg) :
  LET k == CHOOSE m \in 1 .. 3 : bn < 256^m /\ (m = 1 \/ bn >= 256^(m - 1))
      octets == [i \in 1 .. k |-> (bn \div 256^(k - i)) % 256]
  IN x07_ext_bn_b64url(bn).ok /\ x07_ext_bn_b64url(bn).out = Base64UrlNoPad(octets)

=============================================================================
