--------------------------- MODULE MigrationCodec ---------------------------
(***************************************************************************)
(* Three pure parts of the migration engine that verification/cbmc/           *)
(* cbmc_pqc_migration.c and cbmc_pqc_migration_actual.c copy: mig_hex_to_bin,  *)
(* which decodes an imported key, wal_crc32, which guards a log record, and    *)
(* the packed layout of the record it is taken over.  An execution decodes one *)
(* string, or seals one record, which then changes under its sum.              *)
(*                                                                         *)
(* In the checksum a byte, a register and the polynomial are the sets of the    *)
(* positions of their one bits, and exclusive or is symmetric difference.      *)
(***************************************************************************)
EXTENDS ByteStrings

CONSTANTS
  Char, MaxHex,    \* hex strings: over Char, up to MaxHex long
  OutMax,          \* sizes of the output buffer
  Sample, Error,   \* records, and what may happen to their bits
  Written          \* fields of the records a log may hold

ByteBits == SUBSET (0 .. 7)     \* a byte, as the checksum takes it

(* What the fields of a log record hold: octets, words, and a C string.       *)
RecordFields ==
  [operation : Byte, key_id : Seq(1 .. 255), new_state : Byte,
   seq : {n \in Nat : Fits64(n)}, peer_state : Byte,
   peer_shard_id : {n \in Nat : Fits32(n)}, peer_updated_at : {n \in Nat : Fits64(n)}]

ASSUME CodecConstants ==
  /\ MaxHex \in Nat /\ OutMax \subseteq Nat
  /\ Sample \subseteq Seq(ByteBits) /\ Error \subseteq SUBSET Nat
  /\ Written \subseteq RecordFields

VARIABLES
  given,     \* the string decoded, or the fields that were written
  decoded,   \* what mig_hex_to_bin gave
  stored,    \* the bytes under the sum
  sum,       \* the sum that was sealed
  done       \* "nothing", "decoded", "sealed", "spoiled", "logged", "replaced"

codecVars == <<given, decoded, stored, sum, done>>

-----------------------------------------------------------------------------
(* Mutated: a capital letter counts from nought. *)
HexNibbleCapital(c) ==
  CASE c \in 48 .. 57 -> c - 48
    [] c \in 97 .. 102 -> c - 97 + 10
    [] c \in 65 .. 70 -> c - 65
    [] OTHER -> -1

HexNibble(c) ==
  CASE c \in 48 .. 57 -> c - 48
    [] c \in 97 .. 102 -> c - 97 + 10
    [] c \in 65 .. 70 -> c - 65 + 10
    [] OTHER -> -1

(* The bytes decoded, as a set: empty when the string is refused.            *)
HexToBin(hex, out_max) ==
  LET n == Len(hex) \div 2
      hi == [i \in 1 .. n |-> HexNibble(hex[2 * i - 1])]
      lo == [i \in 1 .. n |-> HexNibble(hex[2 * i])]
  IN IF Len(hex) % 2 # 0 \/ n > out_max \/ \E i \in 1 .. n : hi[i] < 0 \/ lo[i] < 0
       THEN {}
       ELSE {[i \in 1 .. n |-> hi[i] * 16 + lo[i]]}

-----------------------------------------------------------------------------
Register == SUBSET (0 .. 31)
Xor(r, s) == (r \ s) \cup (s \ r)

(* 0xEDB88320 *)
Polynomial == {31, 30, 29, 27, 26, 24, 23, 21, 20, 19, 15, 9, 8, 5}

ShiftOnce(r) ==
  LET shifted == {i - 1 : i \in r \ {0}}
  IN IF 0 \in r THEN Xor(shifted, Polynomial) ELSE shifted

(* The inner loop, over the bits of a byte. *)
Shift[r \in Register] ==
  LET crc[j \in 0 .. 8] == IF j = 0 THEN r ELSE ShiftOnce(crc[j - 1])
  IN crc[8]

(* The loop over the bytes: the register before the first, and after each.   *)
Registers(data) ==
  LET crc[i \in 0 .. Len(data)] ==
        IF i = 0 THEN 0 .. 31 ELSE Shift[Xor(crc[i - 1], data[i])]
  IN crc

(* Mutated: the last byte before the sum is not covered. *)
WalCrc32ButLast(data) == (0 .. 31) \ Registers(data)[Len(data) - 1]

WalCrc32(data) == (0 .. 31) \ Registers(data)[Len(data)]

-----------------------------------------------------------------------------
(* The packed record: magic, version, then the fields, then the sum *)

Magic == <<72, 73, 71, 95, 77, 73, 71, 0>>      \* "HIG_MIG"
Version == 2

(* key_id as snprintf leaves it in 65 zeroed bytes: the last is always zero.  *)
KeyKept(id) == SubSeq(id, 1, IF Len(id) < 64 THEN Len(id) ELSE 64)
KeyField(id) == KeyKept(id) \o [i \in 1 .. 65 - Len(KeyKept(id)) |-> 0]

(* Mutated: the record of before the peer fields, as wp_pqc_migration.c has it. *)
WalBytesNoPeer(w) ==
  Magic \o <<Version, w.operation>> \o KeyField(w.key_id) \o <<w.new_state>> \o LE64(w.seq)

WalBytes(w) ==
  Magic \o <<Version, w.operation>> \o KeyField(w.key_id) \o <<w.new_state>> \o LE64(w.seq)
    \o <<w.peer_state>> \o LE32(w.peer_shard_id) \o LE64(w.peer_updated_at)

CrcSize == 4
RecordSize == 101
CrcDataLength == RecordSize - CrcSize

OneBits(b) == {i \in 0 .. 7 : (b \div 2 ^ i) % 2 = 1}

(* The bytes the sum of w is taken over.                                     *)
Covered(w) == LET bytes == WalBytes(w) IN [i \in 1 .. Len(bytes) |-> OneBits(bytes[i])]

-----------------------------------------------------------------------------
HexString == UNION {[1 .. n -> Char] : n \in 0 .. MaxHex}

Decode ==
  /\ done = "nothing" /\ done' = "decoded"
  /\ \E hex \in HexString, out_max \in OutMax :
       /\ given' = {[hex |-> hex, out_max |-> out_max]}
       /\ decoded' = HexToBin(hex, out_max)
  /\ UNCHANGED <<stored, sum>>

Stores(data, s) == stored' = data /\ sum' = s

Seal ==
  /\ done = "nothing" /\ done' = "sealed"
  /\ \E data \in Sample : Stores(data, WalCrc32(data))
  /\ UNCHANGED <<given, decoded>>

(* wal_write fills a record and sums what lies before the sum.               *)
LogRecord ==
  /\ done = "nothing" /\ done' = "logged"
  /\ \E w \in Written :
       given' = {w} /\ Stores(Covered(w), WalCrc32(Covered(w)))
  /\ UNCHANGED decoded

BitsOf(e, i) == {b - 8 * (i - 1) : b \in e \cap (8 * (i - 1) .. 8 * i - 1)}

(* The bits of an error flip. *)
Spoil ==
  /\ done = "sealed" /\ done' = "spoiled"
  /\ \E e \in Error :
       Stores([i \in 1 .. Len(stored) |-> Xor(stored[i], BitsOf(e, i))], sum)
  /\ UNCHANGED <<given, decoded>>

(* The fields of another record under the old sum. *)
Replace ==
  /\ done = "logged" /\ done' = "replaced"
  /\ \E w \in Written : given' = given \cup {w} /\ Stores(Covered(w), sum)
  /\ UNCHANGED decoded

CodecInit ==
  /\ given = {} /\ decoded = {} /\ stored = << >> /\ sum = {} /\ done = "nothing"

CodecNext == Decode \/ Seal \/ Spoil \/ LogRecord \/ Replace

CodecSpec == CodecInit /\ [][CodecNext]_codecVars

-----------------------------------------------------------------------------
(* Properties *)

NumberOf(digits, base) ==
  LET v[i \in 0 .. Len(digits)] == IF i = 0 THEN 0 ELSE v[i - 1] * base + digits[i]
  IN v[Len(digits)]

(* The sixteen digits as they are written, '0' to '9' and 'a' or 'A' to 'f' or    *)
(* 'F', and the place of a character among them.                              *)
HexDigits ==
  <<{48}, {49}, {50}, {51}, {52}, {53}, {54}, {55}, {56}, {57},
    {97, 65}, {98, 66}, {99, 67}, {100, 68}, {101, 69}, {102, 70}>>

Stands(c, k) == c \in HexDigits[k + 1]
IsDigit(c) == \E k \in 0 .. 15 : Stands(c, k)
DigitOf(c) == CHOOSE k \in 0 .. 15 : Stands(c, k)

(* A hex string is decoded exactly when it is made of whole bytes of hex       *)
(* digits that fit the buffer, and then stands for the same number, leading     *)
(* zeros kept, in either case of its letters (cbmc_pqc_migration.c:126-168).   *)
HexDecodes ==
  done = "decoded" =>
    \A g \in given :
      LET whole == /\ Len(g.hex) % 2 = 0 /\ Len(g.hex) <= 2 * g.out_max
                   /\ \A i \in 1 .. Len(g.hex) : IsDigit(g.hex[i])
          digits == [i \in 1 .. Len(g.hex) |-> DigitOf(g.hex[i])]
      IN /\ decoded # {} <=> whole
         /\ \A bytes \in decoded :
              /\ bytes \in [1 .. Len(g.hex) \div 2 -> 0 .. 255]
              /\ NumberOf(bytes, 256) = NumberOf(digits, 16)

(* Whichever bits flipped, the sum no longer fits: up to three bits anywhere,    *)
(* and whatever happens to eight in a row, the last byte of the record included  *)
(* (wal_crc32, cbmc_pqc_migration.c:88-98; "Tampering detection",              *)
(* cbmc_pqc_migration_actual.c:310-314).                                      *)
CrcDetects == done = "spoiled" => WalCrc32(stored) # sum

(* What a record says and what its sum covers agree: the sum is the last four    *)
(* of the 101 bytes, and the fields of another record pass under it only when    *)
(* they differ in nothing but what key_id cannot hold                          *)
(* (cbmc_pqc_migration_actual.c:237-321).                                     *)
RecordsTold ==
  done \in {"logged", "replaced"} =>
    LET Kept(w) == [w EXCEPT !.key_id = KeyKept(@)]
    IN /\ Len(stored) = CrcDataLength
       /\ WalCrc32(stored) = sum <=> \A w, v \in given : Kept(w) = Kept(v)
=============================================================================
