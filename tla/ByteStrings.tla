---------------------------- MODULE ByteStrings -----------------------------
(* Byte strings and the numbers in them: most significant octet first in       *)
(* src/src/pqc_crypto.c, last in verification/cbmc/cbmc_bridge_bounds.c.        *)
EXTENDS Integers, Sequences

Byte == 0..255

(* Below 2^32, what four octets hold. *)
Fits32(n) == n \div 65536 < 65536
HighWord(n) == (n \div 65536) \div 65536
Fits64(n) == Fits32(HighWord(n))

(* write_u32_be and write_u64_be. *)
U32(n) == <<(n \div 16777216) % 256, (n \div 65536) % 256, (n \div 256) % 256, n % 256>>
U64(n) == U32(HighWord(n)) \o U32(n)

(* Mutated: the loop over the bytes ends one early. *)
LE32Three(n) == <<n % 256, (n \div 256) % 256, (n \div 65536) % 256>>

LE32(n) == <<n % 256, (n \div 256) % 256, (n \div 65536) % 256, (n \div 16777216) % 256>>
LE64(n) == LE32(n) \o LE32(HighWord(n))
=============================================================================
