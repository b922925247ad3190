------------------------- MODULE MCOpensslObjects --------------------------
(* INT32_MAX scaled to 100 (TLC's integers are 32-bit); lengths 0, the    *)
(* key and signature sizes 32 and 64, and one just past INT32_MAX.        *)
(* The BIGNUMs jwk_generate_alloc encodes: zero, 1 to 3 raw bytes on both *)
(* sides of each byte-length boundary (65537 the exponent), and 3-byte    *)
(* values whose 6-bit groups are 0, 63 and alternating (0xA55A00,         *)
(* 0x5AA5FF, 0xFFFFFF).                                                   *)
EXTENDS OpensslObjects

MCLens == {0, 32, 64, INT32_MAX + 1}

MCWrappers == DOMAIN Body \ {"hmac"}

MCBigNums == {0, 1, 255, 256, 65535, 65537, 10836480, 5940735, 2^24 - 1}
=============================================================================
