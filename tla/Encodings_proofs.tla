--------------------------- MODULE Encodings_proofs --------------------------
(***************************************************************************)
(* What the encodings give back, for every length and value their fields hold,  *)
(* and what the checksum of a log record tells, whatever the record holds.     *)
(*                                                                         *)
(* A number that fits its octets is given back by them, in either order, and a  *)
(* concatenation by its parts once the length of one of them is known.  From    *)
(* that: the encoding of (domain, message) is injective, and so no signature    *)
(* verifies for a pair that was not signed; transfer ids and lock proofs        *)
(* identify what they are taken from; and the bytes of a log record give back    *)
(* its fields.  TLC checks short strings; here the lengths go up to what their   *)
(* fields hold.  And a hex string that is decoded stands for the same number,    *)
(* of any length.                                                           *)
(*                                                                         *)
(* A shift of the checksum's register is linear and loses nothing.  So the       *)
(* registers of two strings differ by what their differing bits alone leave in   *)
(* an empty one, and that is not empty when those bits lie within 32 in a row.   *)
(***************************************************************************)
EXTENDS DomainSeparation, BridgeIds, MigrationCodec, Sums_proofs, SequenceTheorems

(* Four octets hold a number below 2^32 and give it back.                   *)
LEMMA U32Type == \A n \in Nat : U32(n) \in Seq(Byte) /\ Len(U32(n)) = 4
<1> SUFFICES ASSUME NEW n \in Nat
             PROVE  U32(n) \in Seq(Byte) /\ Len(U32(n)) = 4
  OBVIOUS
<1>1. /\ (n \div 16777216) % 256 \in 0..255
      /\ (n \div 65536) % 256 \in 0..255
      /\ (n \div 256) % 256 \in 0..255
      /\ n % 256 \in 0..255
  OBVIOUS
<1>2. QED
  BY <1>1 DEF U32, Byte

(* The number four octets stand for. *)
Value(s) == 16777216 * s[1] + 65536 * s[2] + 256 * s[3] + s[4]

LEMMA U32Value ==
  ASSUME NEW n \in Nat, Fits32(n)
  PROVE  n = Value(U32(n))
<1>1. n = 256 * (n \div 256) + (n % 256)
  OBVIOUS
<1>2. n \div 256 = 256 * (n \div 65536) + ((n \div 256) % 256)
  OBVIOUS
<1>3. n \div 65536 = 256 * (n \div 16777216) + ((n \div 65536) % 256)
  OBVIOUS
<1>4. (n \div 16777216) % 256 = n \div 16777216
  BY DEF Fits32
<1>5. /\ U32(n)[1] = (n \div 16777216) % 256
      /\ U32(n)[2] = (n \div 65536) % 256
      /\ U32(n)[3] = (n \div 256) % 256
      /\ U32(n)[4] = n % 256
  BY DEF U32
<1>6. QED
  BY <1>1, <1>2, <1>3, <1>4, <1>5 DEF Value

LEMMA U32Injective ==
  ASSUME NEW n \in Nat, NEW m \in Nat, Fits32(n), Fits32(m),
         U32(n) = U32(m)
  PROVE  n = m
<1>1. n = Value(U32(n)) /\ m = Value(U32(m))
  BY U32Value
<1>2. QED
  BY <1>1

(* Concatenation under a name of its own, so that the lemmas below are all   *)
(* the provers know of it.                                                 *)
Cat(a, c) == a \o c

(* Concatenation of byte strings: type, length, and where the parts are.    *)
LEMMA Parts ==
  ASSUME NEW a \in Seq(Byte), NEW c \in Seq(Byte)
  PROVE  /\ Cat(a, c) \in Seq(Byte)
         /\ Len(Cat(a, c)) = Len(a) + Len(c)
         /\ \A i \in 1..Len(a) : Cat(a, c)[i] = a[i]
         /\ \A i \in 1..Len(c) : Cat(a, c)[Len(a) + i] = c[i]
<1>1. Len(a) \in Nat /\ Len(c) \in Nat
  BY LenProperties
<1>2. /\ Cat(a, c) \in Seq(Byte)
      /\ Len(Cat(a, c)) = Len(a) + Len(c)
      /\ \A i \in 1..(Len(a) + Len(c)) :
           Cat(a, c)[i] = IF i <= Len(a) THEN a[i] ELSE c[i - Len(a)]
  BY ConcatProperties DEF Cat
<1>3. ASSUME NEW i \in 1..Len(a) PROVE Cat(a, c)[i] = a[i]
  BY <1>1, <1>2
<1>4. ASSUME NEW i \in 1..Len(c) PROVE Cat(a, c)[Len(a) + i] = c[i]
  <2>1. Len(a) + i \in 1..(Len(a) + Len(c)) /\ ~(Len(a) + i <= Len(a)) /\ (Len(a) + i) - Len(a) = i
    BY <1>1
  <2>2. Cat(a, c)[Len(a) + i] = c[(Len(a) + i) - Len(a)]
    BY <1>2, <2>1
  <2>3. QED
    BY <2>1, <2>2
<1>5. QED
  BY <1>2, <1>3, <1>4

LEMMA U64Type == ASSUME NEW n \in Nat PROVE U64(n) \in Seq(Byte) /\ Len(U64(n)) = 8
<1>1. HighWord(n) \in Nat
  BY DEF HighWord
<1>2. PICK high, low \in Seq(Byte) :
        /\ high = U32(HighWord(n)) /\ Len(high) = 4
        /\ low = U32(n) /\ Len(low) = 4
  BY <1>1, U32Type
<1>3. U64(n) = Cat(high, low)
  BY <1>2 DEF U64, Cat
<1>4. Len(Cat(high, low)) = Len(high) + Len(low) /\ Cat(high, low) \in Seq(Byte)
  BY Parts
<1>5. Len(high) + Len(low) = 8
  <2>1. Len(high) = 4 /\ Len(low) = 4
    BY <1>2
  <2>2. QED
    BY <2>1
<1>6. Len(Cat(high, low)) = 8
  BY <1>4, <1>5
<1>7. QED
  BY <1>3, <1>4, <1>6

(* A concatenation determines its parts once their lengths are known.       *)
LEMMA Cancel ==
  ASSUME NEW a \in Seq(Byte), NEW b \in Seq(Byte), NEW c \in Seq(Byte), NEW d \in Seq(Byte),
         Len(a) = Len(b), Cat(a, c) = Cat(b, d)
  PROVE  a = b /\ c = d
<1>0. Len(a) \in Nat /\ Len(c) \in Nat /\ Len(d) \in Nat
  BY LenProperties
<1>1. ASSUME NEW i \in 1..Len(a) PROVE a[i] = b[i]
  <2>1. Cat(a, c)[i] = a[i]
    BY Parts
  <2>2. i \in 1..Len(b)
    OBVIOUS
  <2>3. Cat(b, d)[i] = b[i]
    BY <2>2, Parts
  <2>4. Cat(a, c)[i] = Cat(b, d)[i]
    BY Zenon
  <2>5. QED
    BY <2>1, <2>3, <2>4
<1>2. a = b
  BY <1>1, SeqEqual
<1>3. Len(c) = Len(d)
  <2>1. Len(Cat(a, c)) = Len(a) + Len(c) /\ Len(Cat(b, d)) = Len(b) + Len(d)
    BY Parts
  <2>2. QED
    BY <1>0, <2>1
<1>4. ASSUME NEW i \in 1..Len(c) PROVE c[i] = d[i]
  <2>1. Cat(a, c)[Len(a) + i] = c[i]
    BY Parts
  <2>2. i \in 1..Len(d)
    BY <1>3
  <2>3. Cat(b, d)[Len(b) + i] = d[i]
    BY <2>2, Parts
  <2>4. Cat(a, c)[Len(a) + i] = Cat(b, d)[Len(b) + i]
    BY Zenon
  <2>5. QED
    BY <2>1, <2>3, <2>4
<1>5. c = d
  BY <1>3, <1>4, SeqEqual
<1>6. QED
  BY <1>2, <1>5

(* The same from the other end: the second length is known.                 *)
LEMMA CancelBack ==
  ASSUME NEW a \in Seq(Byte), NEW b \in Seq(Byte), NEW c \in Seq(Byte), NEW d \in Seq(Byte),
         Len(c) = Len(d), Cat(a, c) = Cat(b, d)
  PROVE  a = b /\ c = d
<1>1. Len(a) = Len(b)
  <2>1. Len(Cat(a, c)) = Len(a) + Len(c) /\ Len(Cat(b, d)) = Len(b) + Len(d)
    BY Parts
  <2>2. Len(a) \in Nat /\ Len(b) \in Nat /\ Len(c) \in Nat
    BY LenProperties
  <2>3. QED
    BY <2>1, <2>2
<1>2. QED
  BY <1>1, Cancel

-----------------------------------------------------------------------------
(* Least significant octet first *)

LEMMA LE32Type == ASSUME NEW n \in Nat PROVE LE32(n) \in Seq(Byte) /\ Len(LE32(n)) = 4
<1>1. /\ (n \div 16777216) % 256 \in 0..255
      /\ (n \div 65536) % 256 \in 0..255
      /\ (n \div 256) % 256 \in 0..255
      /\ n % 256 \in 0..255
  OBVIOUS
<1>2. QED
  BY <1>1 DEF LE32, Byte

ValueBack(s) == 16777216 * s[4] + 65536 * s[3] + 256 * s[2] + s[1]

(* Digits to the base 256. *)
LEMMA Digits ==
  ASSUME NEW n \in Int, NEW x \in Int, NEW y \in Int, NEW z \in Int, NEW h \in Int,
         NEW a \in Int, NEW b \in Int, NEW c \in Int, NEW d \in Int,
         n = 256 * x + a, x = 256 * y + b, y = 256 * z + c, z = 256 * h + d
  PROVE  n = 16777216 * d + 65536 * c + 256 * b + a + 256 * (16777216 * h)
OBVIOUS

(* Four octets and the high word give a number back. *)
LEMMA LE32Value ==
  ASSUME NEW n \in Nat
  PROVE  n = ValueBack(LE32(n)) + 256 * (16777216 * HighWord(n))
<1>1. PICK x \in Int, y \in Int, z \in Int, h \in Int :
        /\ x = n \div 256 /\ y = n \div 65536 /\ z = n \div 16777216
        /\ h = (n \div 65536) \div 65536
  OBVIOUS
<1>2. PICK a \in Int, b \in Int, c \in Int, d \in Int :
        /\ a = n % 256 /\ b = (n \div 256) % 256 /\ c = (n \div 65536) % 256
        /\ d = (n \div 16777216) % 256
  OBVIOUS
<1>3. n = 256 * x + a
  BY <1>1, <1>2
<1>4. x = 256 * y + b
  BY <1>1, <1>2
<1>5. y = 256 * z + c
  BY <1>1, <1>2
<1>6. z = 256 * h + d
  BY <1>1, <1>2
<1>7. n = 16777216 * d + 65536 * c + 256 * b + a + 256 * (16777216 * h)
  BY <1>3, <1>4, <1>5, <1>6, Digits
<1>8. LE32(n)[4] = d /\ LE32(n)[3] = c /\ LE32(n)[2] = b /\ LE32(n)[1] = a
  BY <1>2 DEF LE32
<1>9. HighWord(n) = h
  BY <1>1 DEF HighWord
<1>10. QED
  BY <1>7, <1>8, <1>9 DEF ValueBack

LEMMA LE32Injective ==
  ASSUME NEW n \in Nat, NEW m \in Nat, Fits32(n), Fits32(m), LE32(n) = LE32(m)
  PROVE  n = m
<1>1. HighWord(n) = 0 /\ HighWord(m) = 0
  BY DEF HighWord, Fits32
<1>2. ValueBack(LE32(n)) = ValueBack(LE32(m))
  OBVIOUS
<1>3. n = ValueBack(LE32(n)) + 256 * (16777216 * 0) /\ m = ValueBack(LE32(m)) + 256 * (16777216 * 0)
  BY <1>1, LE32Value
<1>4. QED
  BY <1>2, <1>3

LEMMA LE64Type == ASSUME NEW n \in Nat PROVE LE64(n) \in Seq(Byte) /\ Len(LE64(n)) = 8
<1>1. HighWord(n) \in Nat
  BY DEF HighWord
<1>2. PICK low, high \in Seq(Byte) :
        /\ low = LE32(n) /\ Len(low) = 4
        /\ high = LE32(HighWord(n)) /\ Len(high) = 4
  BY <1>1, LE32Type
<1>3. LE64(n) = Cat(low, high)
  BY <1>2 DEF LE64, Cat
<1>4. Len(Cat(low, high)) = Len(low) + Len(high) /\ Cat(low, high) \in Seq(Byte)
  BY Parts
<1>5. Len(low) + Len(high) = 8
  <2>1. Len(low) = 4 /\ Len(high) = 4
    BY <1>2
  <2>2. QED
    BY <2>1
<1>6. Len(Cat(low, high)) = 8
  BY <1>4, <1>5
<1>7. QED
  BY <1>3, <1>4, <1>6

LEMMA LE64Injective ==
  ASSUME NEW n \in Nat, NEW m \in Nat, Fits64(n), Fits64(m), LE64(n) = LE64(m)
  PROVE  n = m
<1>1. HighWord(n) \in Nat /\ HighWord(m) \in Nat
  BY DEF HighWord
<1>2. PICK ln, lm, hn, hm \in Seq(Byte) :
        /\ ln = LE32(n) /\ lm = LE32(m) /\ Len(ln) = 4 /\ Len(lm) = 4
        /\ hn = LE32(HighWord(n)) /\ hm = LE32(HighWord(m))
  BY <1>1, LE32Type
<1>3. Len(ln) = Len(lm) /\ Cat(ln, hn) = Cat(lm, hm)
  BY <1>2 DEF LE64, Cat
<1>4. ln = lm /\ hn = hm
  BY <1>3, Cancel
<1>5. HighWord(n) = HighWord(m)
  BY <1>1, <1>2, <1>4, LE32Injective DEF Fits64
<1>6. ValueBack(LE32(n)) = ValueBack(LE32(m))
  BY <1>2, <1>4
<1>7. QED
  BY <1>5, <1>6, LE32Value

-----------------------------------------------------------------------------
(* Domain separation *)

(* "The mapping (domain, message) -> signed bytes must be injective"         *)
(* (pqc_crypto.c:25), for every tag the length check lets through.          *)
THEOREM EncodeInjective ==
  ASSUME NEW t \in Seq(Byte), NEW u \in Seq(Byte), NEW m \in Seq(Byte), NEW n \in Seq(Byte),
         Len(t) <= DomMax, Len(u) <= DomMax, Encode(t, m) = Encode(u, n)
  PROVE  t = u /\ m = n
<1>0. Len(t) \in Nat /\ Len(u) \in Nat /\ Len(m) \in Nat /\ Len(n) \in Nat
  BY LenProperties
<1>1. PICK lt, lu \in Seq(Byte) :
         lt = U32(Len(t)) /\ lu = U32(Len(u)) /\ Len(lt) = 4 /\ Len(lu) = 4
  BY <1>0, U32Type
<1>2. PICK lm, ln \in Seq(Byte) :
         lm = U64(Len(m)) /\ ln = U64(Len(n)) /\ Len(lm) = 8 /\ Len(ln) = 8
  BY <1>0, U64Type
<1>3. PICK bm, bn \in Seq(Byte) : bm = Cat(lm, m) /\ bn = Cat(ln, n)
  BY Parts
<1>4. PICK bt, bu \in Seq(Byte) : bt = Cat(t, bm) /\ bu = Cat(u, bn)
  BY Parts
<1>5. PICK et, eu \in Seq(Byte) : et = Cat(lt, bt) /\ eu = Cat(lu, bu)
  BY Parts
<1>6. Cat(Prefix, et) = Cat(Prefix, eu)
  BY <1>1, <1>2, <1>3, <1>4, <1>5 DEF Encode, Cat
<1>7. et = eu
  BY <1>6, EncodingBounds, Cancel
<1>8. lt = lu /\ bt = bu
  <2>1. Len(lt) = Len(lu) /\ Cat(lt, bt) = Cat(lu, bu)
    BY <1>1, <1>5, <1>7
  <2>2. QED
    BY <2>1, Cancel
<1>9. Len(t) = Len(u)
  <2>1. Fits32(Len(t)) /\ Fits32(Len(u))
    BY <1>0, EncodingBounds DEF Fits32
  <2>2. U32(Len(t)) = U32(Len(u))
    BY <1>1, <1>8
  <2>3. QED
    BY <1>0, <2>1, <2>2, U32Injective
<1>10. t = u /\ bm = bn
  <2>1. Cat(t, bm) = Cat(u, bn)
    BY <1>4, <1>8
  <2>2. QED
    BY <1>9, <2>1, Cancel
<1>11. m = n
  <2>1. Len(lm) = Len(ln) /\ Cat(lm, m) = Cat(ln, n)
    BY <1>2, <1>3, <1>10
  <2>2. QED
    BY <2>1, Cancel
<1>12. QED
  BY <1>10, <1>11

(* The positions of a string of length n are n.                             *)
LEMMA Positions ==
  ASSUME NEW n \in Nat
  PROVE  IsFiniteSet(1..n) /\ Cardinality(1..n) = n
<1>1. 1 \in Int /\ n \in Int
  OBVIOUS
<1>2. IsFiniteSet(1..n) /\ Cardinality(1..n) = IF 1 > n THEN 0 ELSE n - 1 + 1
  BY <1>1, FS_Interval
<1>3. QED
  BY <1>2

(* What C sees of a byte string is a byte string.                           *)
LEMMA TagType == ASSUME NEW d \in Domain PROVE Tag(d) \in Seq(Byte)
<1>1. CASE d = NULL
  BY <1>1 DEF Tag
<1>2. CASE d # NULL
  <2>1. d \in Seq(Byte) /\ Len(d) \in Nat /\ \A i \in 1..Len(d) : d[i] \in Byte
    BY <1>2, Arguments, LenProperties
  <2>2. IsFiniteSet(1..Len(d)) /\ Cardinality(1..Len(d)) = Len(d)
    BY <2>1, Positions
  <2> DEFINE prefixes == {n \in 1..Len(d) : 0 \notin {d[i] : i \in 1..n}}
  <2>3. Cardinality(prefixes) \in Nat /\ Cardinality(prefixes) <= Len(d)
    BY <2>2, FS_Subset, FS_CardinalityType
  <2> HIDE DEF prefixes
  <2>4. \A i \in 1..Cardinality(prefixes) : d[i] \in Byte
    BY <2>1, <2>3
  <2>5. SubSeq(d, 1, Cardinality(prefixes)) \in Seq(Byte)
    BY <2>3, <2>4, SubSeqProperties
  <2>6. QED
    BY <1>2, <2>5 DEF Tag, CString, prefixes
<1>3. QED
  BY <1>1, <1>2

(* Only encodings of buildable requests are signed.                         *)
Traced == signed \subseteq {Encode(Tag(s[1]), s[2]) : s \in asked}
Buildable == asked \subseteq {s \in Domain \X Message : Len(Tag(s[1])) <= DomMax}
SepInv == Traced /\ Buildable /\ NoCrossDomainAcceptance

(* The property follows from the injectivity of the encoding and from the    *)
(* fact that a call whose domain is too long builds nothing, so neither the *)
(* signed pair nor the accepted one can have an overflowing length field.   *)
THEOREM SepSpecInv == SepSpec => []SepInv
<1>1. SepInit => SepInv
  BY DEF SepInit, SepInv, Traced, Buildable, NoCrossDomainAcceptance
<1>2. SepInv /\ [SepNext]_sepVars => SepInv'
  <2> SUFFICES ASSUME SepInv, [SepNext]_sepVars PROVE SepInv'
    OBVIOUS
  <2>1. CASE UNCHANGED sepVars
    BY <2>1 DEF sepVars, SepInv, Traced, Buildable, NoCrossDomainAcceptance
  <2>2. ASSUME NEW d \in Domain, NEW msg \in Message, Sign(d, msg) PROVE SepInv'
    <3>1. /\ Len(Tag(d)) <= DomMax
          /\ Build(d, msg) = {Encode(Tag(d), msg)}
      <4>1. Len(Tag(d)) \in Int
        BY TagType, LenProperties
      <4>2. ~(Len(msg) > MsgMax \/ Len(Tag(d)) > DomMax)
        BY <2>2 DEF Sign, Build
      <4>3. QED
        BY <4>1, <4>2, EncodingBounds DEF Build
    <3>2. Traced'
      BY <2>2, <3>1 DEF Sign, SepInv, Traced
    <3>3. Buildable'
      BY <2>2, <3>1 DEF Sign, SepInv, Buildable
    <3>4. NoCrossDomainAcceptance'
      BY <2>2 DEF Sign, SepInv, NoCrossDomainAcceptance
    <3>5. QED
      BY <3>2, <3>3, <3>4 DEF SepInv
  <2>3. ASSUME NEW d \in Domain, NEW msg \in Message, Verify(d, msg) PROVE SepInv'
    <3>1. Traced' /\ Buildable'
      BY <2>3 DEF Verify, SepInv, Traced, Buildable
    <3>2. ASSUME Build(d, msg) \subseteq signed
          PROVE  \E s \in asked : Tag(s[1]) = Tag(d) /\ s[2] = msg
      <4>1. /\ Len(Tag(d)) <= DomMax
            /\ Encode(Tag(d), msg) \in signed
        <5>1. Len(Tag(d)) \in Int
          BY TagType, LenProperties
        <5>2. ~(Len(msg) > MsgMax \/ Len(Tag(d)) > DomMax)
          BY <2>3 DEF Verify, Build
        <5>3. QED
          BY <3>2, <5>1, <5>2, EncodingBounds DEF Build
      <4>2. PICK s \in asked : Encode(Tag(d), msg) = Encode(Tag(s[1]), s[2])
        BY <4>1 DEF SepInv, Traced
      <4>3. s[1] \in Domain /\ s[2] \in Message /\ Len(Tag(s[1])) <= DomMax
        BY DEF SepInv, Buildable
      <4>4. Tag(d) \in Seq(Byte) /\ Tag(s[1]) \in Seq(Byte) /\ msg \in Seq(Byte) /\ s[2] \in Seq(Byte)
        BY <4>3, TagType, Arguments
      <4>5. PICK t, u, m, n \in Seq(Byte) : t = Tag(d) /\ u = Tag(s[1]) /\ m = msg /\ n = s[2]
        BY <4>4
      <4>6. t = u /\ m = n
        <5>1. Len(t) <= DomMax /\ Len(u) <= DomMax /\ Encode(t, m) = Encode(u, n)
          BY <4>1, <4>2, <4>3, <4>5
        <5>2. QED
          BY <5>1, EncodeInjective
      <4>7. QED
        BY <4>5, <4>6
    <3>3. NoCrossDomainAcceptance'
      BY <2>3, <3>2 DEF Verify, NoCrossDomainAcceptance
    <3>4. QED
      BY <3>1, <3>3 DEF SepInv
  <2>4. QED
    BY <2>1, <2>2, <2>3 DEF SepNext
<1>3. QED
  BY <1>1, <1>2, PTL DEF SepSpec

(* pqc_verify accepts only what pqc_sign was asked to sign, whatever the     *)
(* limits, the domains and the messages (pqc_crypto.c:24-28).               *)
THEOREM NoCrossDomain == SepSpec => []NoCrossDomainAcceptance
<1>1. SepInv => NoCrossDomainAcceptance
  BY DEF SepInv
<1>2. QED
  BY <1>1, SepSpecInv, PTL

-----------------------------------------------------------------------------
(* Bridge identifiers: the fields of fixed length are peeled off from both ends; *)
(* the two addresses, which have no length of their own, stay one string.        *)

LEMMA CappedType == ASSUME NEW s \in Address PROVE Capped(s) \in Seq(Byte)
<1>1. s \in Seq(Byte) /\ Len(s) \in Nat /\ \A i \in 1 .. Len(s) : s[i] \in Byte
  BY BridgeConstants, LenProperties, ElementOfSeq
<1>2. CASE Len(s) > AddressMax
  <2>1. SubSeq(s, 1, AddressMax) \in Seq(Byte)
    <3>1. \A i \in 1 .. AddressMax : s[i] \in Byte
      BY <1>1, <1>2, BridgeConstants
    <3>2. QED
      BY <3>1, BridgeConstants, SubSeqProperties
  <2>2. QED
    BY <1>2, <2>1 DEF Capped
<1>3. CASE ~(Len(s) > AddressMax)
  BY <1>1, <1>3 DEF Capped
<1>4. QED
  BY <1>2, <1>3

LEMMA WordsType == ASSUME NEW m \in Nat, NEW n \in Nat PROVE Words(m, n) \in Seq(Byte) /\ Len(Words(m, n)) = 16
<1>1. PICK a \in Seq(Byte), b \in Seq(Byte) : a = LE64(m) /\ b = LE64(n) /\ Len(a) = 8 /\ Len(b) = 8
  BY LE64Type
<1>2. Words(m, n) = Cat(a, b)
  BY <1>1 DEF Words, Cat
<1>3. Cat(a, b) \in Seq(Byte) /\ Len(Cat(a, b)) = Len(a) + Len(b)
  BY Parts
<1>4. Len(a) + Len(b) = 16
  BY <1>1
<1>5. QED
  BY <1>2, <1>3, <1>4

LEMMA WordsInjective ==
  ASSUME NEW m \in Nat, NEW n \in Nat, NEW k \in Nat, NEW l \in Nat,
         Fits64(m), Fits64(n), Fits64(k), Fits64(l), Words(m, n) = Words(k, l)
  PROVE  m = k /\ n = l
<1>1. PICK a \in Seq(Byte), b \in Seq(Byte), c \in Seq(Byte), d \in Seq(Byte) :
        /\ a = LE64(m) /\ b = LE64(n) /\ c = LE64(k) /\ d = LE64(l)
        /\ Len(a) = 8 /\ Len(c) = 8
  BY LE64Type
<1>2. Len(a) = Len(c) /\ Cat(a, b) = Cat(c, d)
  BY <1>1 DEF Words, Cat
<1>3. a = c /\ b = d
  BY <1>2, Cancel
<1>4. QED
  BY <1>1, <1>3, LE64Injective

(* The words of two transfers give back their amounts and timelocks.         *)
LEMMA AmountsGivenBack ==
  ASSUME NEW p \in Parameters, NEW q \in Parameters,
         Words(p.amount, p.timelock) = Words(q.amount, q.timelock)
  PROVE  p.amount = q.amount /\ p.timelock = q.timelock
<1>1. p.amount \in Nat /\ p.timelock \in Nat /\ Fits64(p.amount) /\ Fits64(p.timelock)
  BY BridgeConstants DEF Parameters
<1>2. q.amount \in Nat /\ q.timelock \in Nat /\ Fits64(q.amount) /\ Fits64(q.timelock)
  BY BridgeConstants DEF Parameters
<1>3. QED
  BY <1>1, <1>2, WordsInjective

(* An id, once its fields are peeled off, gives them back.                    *)
LEMMA ParametersIdentify ==
  ASSUME NEW p \in Parameters, NEW q \in Parameters
  PROVE  TransferId(p) = TransferId(q) <=> SameTransfer(p, q)
<1>1. ASSUME p.src = q.src, p.dst = q.dst, p.amount = q.amount, p.timelock = q.timelock,
             Capped(p.from) \o Capped(p.to) = Capped(q.from) \o Capped(q.to)
      PROVE  TransferId(p) = TransferId(q)
  BY <1>1 DEF TransferId
<1>2. ASSUME TransferId(p) = TransferId(q)
      PROVE  /\ p.src = q.src /\ p.dst = q.dst
             /\ p.amount = q.amount /\ p.timelock = q.timelock
             /\ Capped(p.from) \o Capped(p.to) = Capped(q.from) \o Capped(q.to)
  <2>1. /\ p.from \in Address /\ p.to \in Address /\ q.from \in Address /\ q.to \in Address
        /\ p.src \in Byte /\ p.dst \in Byte /\ q.src \in Byte /\ q.dst \in Byte
        /\ p.amount \in Nat /\ p.timelock \in Nat /\ q.amount \in Nat /\ q.timelock \in Nat
        /\ Fits64(p.amount) /\ Fits64(p.timelock) /\ Fits64(q.amount) /\ Fits64(q.timelock)
    BY BridgeConstants DEF Parameters
  <2>2. PICK pf \in Seq(Byte), pt \in Seq(Byte), qf \in Seq(Byte), qt \in Seq(Byte) :
          pf = Capped(p.from) /\ pt = Capped(p.to) /\ qf = Capped(q.from) /\ qt = Capped(q.to)
    BY <2>1, CappedType
  <2>3. PICK pa \in Seq(Byte), qa \in Seq(Byte) : pa = Cat(pf, pt) /\ qa = Cat(qf, qt)
    BY Parts
  <2>4. PICK pw \in Seq(Byte), qw \in Seq(Byte) :
          /\ pw = Words(p.amount, p.timelock) /\ qw = Words(q.amount, q.timelock)
          /\ Len(pw) = 16 /\ Len(qw) = 16
    BY <2>1, WordsType
  <2>5. PICK pr \in Seq(Byte), qr \in Seq(Byte) : pr = Cat(pa, pw) /\ qr = Cat(qa, qw)
    BY Parts
  <2>6. PICK pc \in Seq(Byte), qc \in Seq(Byte) :
          /\ pc = <<p.src, p.dst>> /\ qc = <<q.src, q.dst>> /\ Len(pc) = 2 /\ Len(qc) = 2
    <3>1. \A a, b \in Byte : <<a, b>> \in Seq(Byte) /\ Len(<<a, b>>) = 2
      OBVIOUS
    <3>2. QED
      BY <2>1, <3>1
  <2>7. PICK ps \in Seq(Byte), qs \in Seq(Byte) : ps = Cat(pc, pr) /\ qs = Cat(qc, qr)
    BY Parts
  <2>8. Cat(BridgeTag, ps) = Cat(BridgeTag, qs)
    BY <1>2, <2>2, <2>3, <2>4, <2>5, <2>6, <2>7 DEF TransferId, Cat
  <2>9. ps = qs
    BY <2>8, BridgeConstants, Cancel
  <2>10. pc = qc /\ pr = qr
    <3>1. Len(pc) = Len(qc) /\ Cat(pc, pr) = Cat(qc, qr)
      BY <2>6, <2>7, <2>9
    <3>2. QED
      BY <3>1, Cancel
  <2>11. pa = qa /\ pw = qw
    <3>1. Len(pw) = Len(qw) /\ Cat(pa, pw) = Cat(qa, qw)
      BY <2>4, <2>5, <2>10
    <3>2. QED
      BY <3>1, CancelBack
  <2>12. p.src = q.src /\ p.dst = q.dst
    BY <2>6, <2>10
  <2>13. p.amount = q.amount /\ p.timelock = q.timelock
    <3>1. Words(p.amount, p.timelock) = Words(q.amount, q.timelock)
      BY <2>4, <2>11
    <3>2. QED
      BY <3>1, AmountsGivenBack
  <2>14. Capped(p.from) \o Capped(p.to) = Capped(q.from) \o Capped(q.to)
    BY <2>2, <2>3, <2>11 DEF Cat
  <2>15. QED
    BY <2>12, <2>13, <2>14
<1>3. QED
  BY <1>1, <1>2 DEF SameTransfer

(* So does what a relay signs.                                              *)
LEMMA LocksGivenBack ==
  ASSUME NEW m \in LockProof, NEW n \in LockProof, LockMessage(m) = LockMessage(n)
  PROVE  m = n
<1>1. /\ m.tx \in Seq(Byte) /\ n.tx \in Seq(Byte) /\ m.id \in Seq(Byte) /\ n.id \in Seq(Byte)
      /\ Len(m.tx) = Len(n.tx)
      /\ m.height \in Nat /\ n.height \in Nat /\ Fits64(m.height) /\ Fits64(n.height)
      /\ m.confirmations \in Nat /\ n.confirmations \in Nat
      /\ Fits32(m.confirmations) /\ Fits32(n.confirmations)
  BY BridgeConstants DEF LockProof
<1>2. PICK mc \in Seq(Byte), nc \in Seq(Byte), mh \in Seq(Byte), nh \in Seq(Byte) :
        /\ mc = LE32(m.confirmations) /\ nc = LE32(n.confirmations)
        /\ mh = LE64(m.height) /\ nh = LE64(n.height)
        /\ Len(mc) = 4 /\ Len(nc) = 4 /\ Len(mh) = 8 /\ Len(nh) = 8
  BY <1>1, LE32Type, LE64Type
<1>3. PICK mi \in Seq(Byte), ni \in Seq(Byte) : mi = Cat(mc, m.id) /\ ni = Cat(nc, n.id)
  BY <1>1, Parts
<1>4. PICK mr \in Seq(Byte), nr \in Seq(Byte) : mr = Cat(mh, mi) /\ nr = Cat(nh, ni)
  BY Parts
<1>5. m.tx = n.tx /\ mr = nr
  <2>1. Cat(m.tx, mr) = Cat(n.tx, nr)
    BY <1>2, <1>3, <1>4 DEF LockMessage, Cat
  <2>2. QED
    BY <1>1, <2>1, Cancel
<1>6. mh = nh /\ mi = ni
  <2>1. Len(mh) = Len(nh) /\ Cat(mh, mi) = Cat(nh, ni)
    BY <1>2, <1>4, <1>5
  <2>2. QED
    BY <2>1, Cancel
<1>7. mc = nc /\ m.id = n.id
  <2>1. Len(mc) = Len(nc) /\ Cat(mc, m.id) = Cat(nc, n.id)
    BY <1>2, <1>3, <1>6
  <2>2. QED
    BY <1>1, <2>1, Cancel
<1>8. m.height = n.height /\ m.confirmations = n.confirmations
  BY <1>1, <1>2, <1>6, <1>7, LE64Injective, LE32Injective
<1>9. \A x \in LockProof :
        x = [tx |-> x.tx, height |-> x.height, confirmations |-> x.confirmations, id |-> x.id]
  BY DEF LockProof
<1>10. QED
  BY <1>5, <1>7, <1>8, <1>9

-----------------------------------------------------------------------------
BInv == transfers \subseteq Parameters /\ attested \subseteq LockProof

LEMMA BridgeInvariant == BridgeSpec => []BInv
<1>1. BridgeInit => BInv
  BY DEF BridgeInit, BInv
<1>2. BInv /\ [BridgeNext]_bridgeVars => BInv'
  BY DEF BInv, BridgeNext, InitiateTransfer, Attest, bridgeVars
<1>3. QED
  BY <1>1, <1>2, PTL DEF BridgeSpec

(* A transfer id stands for the chains, the amount, the timelock and the two    *)
(* capped addresses in a row, and for nothing less (cbmc_bridge_bounds.c:50-98).*)
THEOREM TransferIdsIdentify == BridgeSpec => []IdsIdentify
<1>1. BInv => IdsIdentify
  BY ParametersIdentify DEF BInv, IdsIdentify
<1>2. QED
  BY <1>1, BridgeInvariant, PTL

(* What a relay signs stands for one transaction, height, number of             *)
(* confirmations and transfer (cbmc_bridge_bounds.c:155-177).                  *)
THEOREM LockProofsIdentify == BridgeSpec => []LocksIdentify
<1>1. BInv => LocksIdentify
  BY LocksGivenBack DEF BInv, LocksIdentify
<1>2. QED
  BY <1>1, BridgeInvariant, PTL

-----------------------------------------------------------------------------
(* Hex strings: the digits read two by two, in base 256, and one by one, in       *)
(* base 16.                                                                  *)

IsValue(v, d, n, base) == v = [i \in 0 .. n |-> IF i = 0 THEN 0 ELSE v[i - 1] * base + d[i]]
ValueOf(d, n, base) == CHOOSE v : IsValue(v, d, n, base)

LEMMA NumberIsValue == \A d, base : NumberOf(d, base) = ValueOf(d, Len(d), base)[Len(d)]
BY DEF NumberOf, ValueOf, IsValue

LEMMA ValueExists ==
  ASSUME NEW d, NEW n \in Nat, NEW base
  PROVE  IsValue(ValueOf(d, n, base), d, n, base)
<1> DEFINE Digit(v, i) == IF i = 0 THEN 0 ELSE v[i - 1] * base + d[i]
           Upto(v, k) == \A i \in 0 .. n : i <= k => v[i] = Digit(v, i)
           Longer(v) == [i \in 0 .. n |-> Digit(v, i)]
           G == {k \in Nat : \E v : Upto(v, k)}
<1>1. 0 \in G
  <2>1. Upto([i \in 0 .. n |-> 0], 0)
    OBVIOUS
  <2>2. \E v : Upto(v, 0)
    <3> HIDE DEF Upto
    <3>1. QED
      BY <2>1
  <2>3. QED
    BY <2>2
<1>2. ASSUME NEW k \in G PROVE k + 1 \in G
  <2>1. PICK v : Upto(v, k)
    OBVIOUS
  <2>2. ASSUME NEW i \in 0 .. n, i <= k + 1 PROVE Longer(v)[i] = Digit(Longer(v), i)
    <3>1. CASE i = 0
      BY <3>1
    <3>2. CASE i # 0
      <4>1. i - 1 \in 0 .. n /\ i - 1 <= k
        BY <2>2, <3>2
      <4>2. Longer(v)[i - 1] = v[i - 1]
        BY <2>1, <4>1
      <4>3. QED
        BY <3>2, <4>2
    <3>3. QED
      BY <3>1, <3>2
  <2>3. Upto(Longer(v), k + 1)
    BY <2>2
  <2>4. \E w : Upto(w, k + 1)
    <3> HIDE DEF Upto, Longer
    <3>1. QED
      BY <2>3
  <2>5. QED
    BY <2>4
<1>3. n \in G
  <2>1. G \in SUBSET Nat
    OBVIOUS
  <2> HIDE DEF G
  <2>2. QED
    BY <1>1, <1>2, <2>1, NaturalInduction
<1>4. PICK v : Upto(v, n)
  BY <1>3
<1>5. \A i \in 0 .. n : v[i] = Digit(v, i)
  BY <1>4
<1>6. IsValue(Longer(v), d, n, base)
  <2>1. ASSUME NEW i \in 0 .. n PROVE Digit(Longer(v), i) = Digit(v, i)
    <3>1. i # 0 => i - 1 \in 0 .. n
      OBVIOUS
    <3>2. QED
      BY <1>5, <3>1
  <2>2. QED
    BY <2>1 DEF IsValue
<1>7. QED
  BY <1>6 DEF ValueOf

LEMMA ValueStep ==
  ASSUME NEW d, NEW n \in Nat, NEW base
  PROVE  LET v == ValueOf(d, n, base)
         IN /\ v[0] = 0
            /\ \A i \in 1 .. n : v[i] = v[i - 1] * base + d[i]
<1> DEFINE v == ValueOf(d, n, base)
           F == [i \in 0 .. n |-> IF i = 0 THEN 0 ELSE v[i - 1] * base + d[i]]
<1>1. v = F
  BY ValueExists DEF IsValue
<1> HIDE DEF v
<1>2. F[0] = 0 /\ \A i \in 1 .. n : F[i] = v[i - 1] * base + d[i]
  OBVIOUS
<1> HIDE DEF F
<1>3. v[0] = 0 /\ \A i \in 1 .. n : v[i] = v[i - 1] * base + d[i]
  BY <1>1, <1>2
<1>4. QED
  BY <1>3 DEF v

LEMMA TwoNibbles == \A p, q \in 0 .. 15 : p * 16 + q \in 0 .. 255
OBVIOUS

(* Two digits in base 16 are one in base 256. *)
Paired(d, b, m) == \A i \in 1 .. m : b[i] = d[2 * i - 1] * 16 + d[2 * i]

LEMMA PairsAreBytes ==
  ASSUME NEW m \in Nat, NEW d \in [1 .. 2 * m -> Int], NEW b \in [1 .. m -> Int], Paired(d, b, m)
  PROVE  ValueOf(d, 2 * m, 16)[2 * m] = ValueOf(b, m, 256)[m]
<1> DEFINE v == ValueOf(d, 2 * m, 16)
           w == ValueOf(b, m, 256)
           G == {i \in Nat : i <= m => v[2 * i] = w[i] /\ w[i] \in Int}
<1>1. v[0] = 0 /\ \A i \in 1 .. 2 * m : v[i] = v[i - 1] * 16 + d[i]
  <2>1. 2 * m \in Nat
    OBVIOUS
  <2>2. QED
    BY <2>1, ValueStep
<1>2. w[0] = 0 /\ \A i \in 1 .. m : w[i] = w[i - 1] * 256 + b[i]
  BY ValueStep
<1> HIDE DEF v, w
<1>3. 0 \in G
  BY <1>1, <1>2
<1>4. ASSUME NEW i \in G PROVE i + 1 \in G
  <2>1. CASE i + 1 <= m
    <3>1. v[2 * i] = w[i] /\ w[i] \in Int
      BY <1>4, <2>1
    <3>2. /\ 2 * i + 1 \in 1 .. 2 * m /\ 2 * i + 2 \in 1 .. 2 * m /\ i + 1 \in 1 .. m
          /\ (2 * i + 1) - 1 = 2 * i /\ (2 * i + 2) - 1 = 2 * i + 1
          /\ 2 * (i + 1) = 2 * i + 2 /\ 2 * (i + 1) - 1 = 2 * i + 1 /\ (i + 1) - 1 = i
      BY <2>1
    <3>3. v[2 * i + 1] = w[i] * 16 + d[2 * i + 1]
      BY <1>1, <3>1, <3>2
    <3>4. v[2 * i + 2] = v[2 * i + 1] * 16 + d[2 * i + 2]
      BY <1>1, <3>2
    <3>5. w[i + 1] = w[i] * 256 + (d[2 * i + 1] * 16 + d[2 * i + 2])
      <4>1. b[i + 1] = d[2 * i + 1] * 16 + d[2 * i + 2]
        BY <3>2 DEF Paired
      <4>2. QED
        BY <1>2, <3>2, <4>1
    <3>6. d[2 * i + 1] \in Int /\ d[2 * i + 2] \in Int
      BY <3>2
    <3>7. v[2 * i + 2] = w[i + 1] /\ w[i + 1] \in Int
      <4>1. v[2 * i + 2] = (w[i] * 16 + d[2 * i + 1]) * 16 + d[2 * i + 2]
        BY <3>3, <3>4
      <4>2. PICK x \in Int, p \in Int, q \in Int :
              x = w[i] /\ p = d[2 * i + 1] /\ q = d[2 * i + 2]
        BY <3>1, <3>6
      <4>3. v[2 * i + 2] = (x * 16 + p) * 16 + q /\ w[i + 1] = x * 256 + (p * 16 + q)
        BY <4>1, <4>2, <3>5
      <4>4. QED
        BY <4>3
    <3>8. QED
      BY <3>2, <3>7
  <2>2. QED
    BY <2>1
<1>5. m \in G
  <2>1. G \in SUBSET Nat
    OBVIOUS
  <2> HIDE DEF G
  <2>2. QED
    BY <1>3, <1>4, <2>1, NaturalInduction
<1>6. QED
  BY <1>5 DEF v, w

LEMMA NibbleType ==
  ASSUME NEW c
  PROVE  HexNibble(c) \in 0 .. 15 \/ HexNibble(c) = -1
<1>1. CASE c \in 48 .. 57
  <2>1. HexNibble(c) = c - 48
    <3>1. c \notin 97 .. 102 /\ c \notin 65 .. 70
      BY <1>1
    <3>2. QED
      BY <1>1, <3>1 DEF HexNibble
  <2>2. QED
    BY <1>1, <2>1
<1>2. CASE c \in 97 .. 102
  <2>1. HexNibble(c) = c - 97 + 10
    <3>1. c \notin 48 .. 57 /\ c \notin 65 .. 70
      BY <1>2
    <3>2. QED
      BY <1>2, <3>1 DEF HexNibble
  <2>2. QED
    BY <1>2, <2>1
<1>3. CASE c \in 65 .. 70
  <2>1. HexNibble(c) = c - 65 + 10
    <3>1. c \notin 48 .. 57 /\ c \notin 97 .. 102
      BY <1>3
    <3>2. QED
      BY <1>3, <3>1 DEF HexNibble
  <2>2. QED
    BY <1>3, <2>1
<1>4. CASE c \notin 48 .. 57 /\ c \notin 97 .. 102 /\ c \notin 65 .. 70
  BY <1>4 DEF HexNibble
<1>5. QED
  BY <1>1, <1>2, <1>3, <1>4

(* A character stands for the number hex_nibble gives it, and for none when it    *)
(* gives -1.                                                                 *)
LEMMA NibbleIsPlace ==
  ASSUME NEW c
  PROVE  /\ \A k \in 0 .. 15 : Stands(c, k) <=> HexNibble(c) = k
         /\ IsDigit(c) <=> HexNibble(c) \in 0 .. 15
         /\ IsDigit(c) => DigitOf(c) = HexNibble(c)
<1>1. ASSUME NEW k \in 0 .. 15
      PROVE  HexDigits[k + 1] = IF k < 10 THEN {48 + k} ELSE {87 + k, 55 + k}
  <2>1. /\ HexDigits[1] = {48} /\ HexDigits[2] = {49} /\ HexDigits[3] = {50} /\ HexDigits[4] = {51}
        /\ HexDigits[5] = {52} /\ HexDigits[6] = {53} /\ HexDigits[7] = {54} /\ HexDigits[8] = {55}
        /\ HexDigits[9] = {56} /\ HexDigits[10] = {57} /\ HexDigits[11] = {97, 65} /\ HexDigits[12] = {98, 66}
        /\ HexDigits[13] = {99, 67} /\ HexDigits[14] = {100, 68} /\ HexDigits[15] = {101, 69} /\ HexDigits[16] = {102, 70}
    BY DEF HexDigits
  <2>2. CASE k < 10
    <3>1. \/ k = 0 \/ k = 1 \/ k = 2 \/ k = 3 \/ k = 4
          \/ k = 5 \/ k = 6 \/ k = 7 \/ k = 8 \/ k = 9
      BY <2>2
    <3>2. QED
      BY <2>1, <2>2, <3>1
  <2>3. CASE ~(k < 10)
    <3>1. k = 10 \/ k = 11 \/ k = 12 \/ k = 13 \/ k = 14 \/ k = 15
      BY <2>3
    <3>2. QED
      BY <2>1, <2>3, <3>1
  <2>4. QED
    BY <2>2, <2>3
<1>2. ASSUME NEW k \in 0 .. 15
      PROVE  Stands(c, k) <=> HexNibble(c) = k
  <2>1. Stands(c, k) <=> \/ k < 10 /\ c = 48 + k
                         \/ k >= 10 /\ (c = 87 + k \/ c = 55 + k)
    BY <1>1 DEF Stands
  <2>2. CASE c \in 48 .. 57
    <3>1. HexNibble(c) = c - 48
      <4>1. c \notin 97 .. 102 /\ c \notin 65 .. 70
        BY <2>2
      <4>2. QED
        BY <2>2, <4>1 DEF HexNibble
    <3>2. QED
      BY <2>1, <2>2, <3>1
  <2>3. CASE c \in 97 .. 102
    <3>1. HexNibble(c) = c - 97 + 10
      <4>1. c \notin 48 .. 57 /\ c \notin 65 .. 70
        BY <2>3
      <4>2. QED
        BY <2>3, <4>1 DEF HexNibble
    <3>2. QED
      BY <2>1, <2>3, <3>1
  <2>4. CASE c \in 65 .. 70
    <3>1. HexNibble(c) = c - 65 + 10
      <4>1. c \notin 48 .. 57 /\ c \notin 97 .. 102
        BY <2>4
      <4>2. QED
        BY <2>4, <4>1 DEF HexNibble
    <3>2. QED
      BY <2>1, <2>4, <3>1
  <2>5. CASE c \notin 48 .. 57 /\ c \notin 97 .. 102 /\ c \notin 65 .. 70
    <3>1. HexNibble(c) = -1
      BY <2>5 DEF HexNibble
    <3>2. QED
      BY <2>1, <2>5, <3>1
  <2>6. QED
    BY <2>2, <2>3, <2>4, <2>5
<1>3. IsDigit(c) <=> HexNibble(c) \in 0 .. 15
  BY <1>2 DEF IsDigit
<1>4. IsDigit(c) => DigitOf(c) = HexNibble(c)
  BY <1>2 DEF IsDigit, DigitOf
<1>5. QED
  BY <1>2, <1>3, <1>4

(* What HexDecodes says of a string h, a buffer of o bytes and what came out. *)
Right(h, o, out) ==
  LET digits == [i \in 1 .. Len(h) |-> DigitOf(h[i])]
  IN /\ out # {} <=> /\ Len(h) % 2 = 0 /\ Len(h) <= 2 * o
                     /\ \A i \in 1 .. Len(h) : IsDigit(h[i])
     /\ \A bytes \in out :
          /\ bytes \in [1 .. Len(h) \div 2 -> 0 .. 255]
          /\ NumberOf(bytes, 256) = NumberOf(digits, 16)

LEMMA HexPairs ==
  ASSUME NEW n \in Nat, NEW hex \in [1 .. n -> Char], NEW max \in Nat
  PROVE  Right(hex, max, HexToBin(hex, max))
<1>1. hex \in Seq(Char) /\ Len(hex) = n
  OBVIOUS
<1> DEFINE m == n \div 2
           digits == [i \in 1 .. n |-> HexNibble(hex[i])]
           hi == [i \in 1 .. m |-> HexNibble(hex[2 * i - 1])]
           lo == [i \in 1 .. m |-> HexNibble(hex[2 * i])]
           bytes == [i \in 1 .. m |-> hi[i] * 16 + lo[i]]
           whole == n % 2 = 0 /\ n <= 2 * max /\ \A i \in 1 .. n : digits[i] \in 0 .. 15
<1>2. m \in Nat /\ (n % 2 = 0 <=> n = 2 * m) /\ 2 * m <= n
  OBVIOUS
<1>3. ASSUME NEW i \in 1 .. m
      PROVE  2 * i \in 1 .. n /\ 2 * i - 1 \in 1 .. n
  BY <1>2
<1>4. HexToBin(hex, max) = IF whole THEN {bytes} ELSE {}
  <2>1. HexToBin(hex, max) = IF n % 2 # 0 \/ m > max \/ \E i \in 1 .. m : hi[i] < 0 \/ lo[i] < 0
                             THEN {} ELSE {bytes}
    BY <1>1 DEF HexToBin
  <2>2. CASE n % 2 = 0
    <3>1. m > max <=> ~(n <= 2 * max)
      BY <1>2, <2>2
    <3>2. (\E i \in 1 .. m : hi[i] < 0 \/ lo[i] < 0) <=> ~(\A i \in 1 .. n : digits[i] \in 0 .. 15)
      <4>1. ASSUME NEW i \in 1 .. m, hi[i] < 0 \/ lo[i] < 0
            PROVE  \E j \in 1 .. n : digits[j] \notin 0 .. 15
        <5>1. hi[i] = digits[2 * i - 1] /\ lo[i] = digits[2 * i]
          BY <1>3
        <5>2. digits[2 * i - 1] \notin 0 .. 15 \/ digits[2 * i] \notin 0 .. 15
          BY <4>1, <5>1
        <5>3. QED
          BY <1>3, <5>2
      <4>2. ASSUME NEW j \in 1 .. n, digits[j] \notin 0 .. 15
            PROVE  \E i \in 1 .. m : hi[i] < 0 \/ lo[i] < 0
        <5>1. digits[j] = -1
          BY <4>2, NibbleType
        <5>2. PICK i \in 1 .. m : j = 2 * i \/ j = 2 * i - 1
          <6>1. (j + 1) \div 2 \in 1 .. m /\ (j = 2 * ((j + 1) \div 2) \/ j = 2 * ((j + 1) \div 2) - 1)
            BY <1>2, <2>2
          <6>2. QED
            BY <6>1
        <5>3. hi[i] = digits[2 * i - 1] /\ lo[i] = digits[2 * i]
          BY <1>3
        <5>4. QED
          BY <5>1, <5>2, <5>3
      <4>3. QED
        BY <4>1, <4>2
    <3>3. QED
      BY <2>1, <2>2, <3>1, <3>2
  <2>3. QED
    BY <2>1, <2>2
<1>5. ASSUME whole
      PROVE  bytes \in [1 .. m -> 0 .. 255] /\ NumberOf(bytes, 256) = NumberOf(digits, 16)
  <2>1. n = 2 * m /\ digits \in [1 .. 2 * m -> 0 .. 15]
    BY <1>2, <1>5
  <2>2. ASSUME NEW i \in 1 .. m
        PROVE  hi[i] = digits[2 * i - 1] /\ lo[i] = digits[2 * i] /\ hi[i] \in 0 .. 15 /\ lo[i] \in 0 .. 15
    BY <1>3, <1>5
  <2>3. ASSUME NEW i \in 1 .. m PROVE bytes[i] \in 0 .. 255 /\ bytes[i] = digits[2 * i - 1] * 16 + digits[2 * i]
    <3>1. bytes[i] = hi[i] * 16 + lo[i]
      OBVIOUS
    <3>2. hi[i] * 16 + lo[i] \in 0 .. 255
      <4> HIDE DEF hi, lo
      <4>1. QED
        BY <2>2, TwoNibbles
    <3>3. QED
      BY <2>2, <3>1, <3>2
  <2>4. bytes \in [1 .. m -> 0 .. 255]
    BY <2>3
  <2>5. Len(bytes) = m /\ Len(digits) = 2 * m
    <3> HIDE DEF bytes, digits
    <3>1. \A k \in Nat : \A S, f : f \in [1 .. k -> S] => Len(f) = k
      OBVIOUS
    <3>2. QED
      BY <1>2, <2>1, <2>4, <3>1
  <2> HIDE DEF bytes, digits, hi, lo
  <2>6. bytes \in [1 .. m -> Int] /\ digits \in [1 .. 2 * m -> Int]
    <3>1. \A k, S, T : S \subseteq T => [1 .. k -> S] \subseteq [1 .. k -> T]
      OBVIOUS
    <3>2. 0 .. 255 \subseteq Int /\ 0 .. 15 \subseteq Int
      OBVIOUS
    <3>3. QED
      BY <2>1, <2>4, <3>1, <3>2
  <2>7. ValueOf(digits, 2 * m, 16)[2 * m] = ValueOf(bytes, m, 256)[m]
    <3>1. Paired(digits, bytes, m)
      BY <2>3 DEF Paired
    <3>2. m \in Nat
      BY <1>2
    <3> HIDE DEF m
    <3>3. QED
      BY <2>6, <3>1, <3>2, PairsAreBytes
  <2>8. QED
    BY <2>4, <2>5, <2>7, NumberIsValue
<1> DEFINE out == HexToBin(hex, max)
<1>6. \A b \in out : b \in [1 .. m -> 0 .. 255] /\ NumberOf(b, 256) = NumberOf(digits, 16)
  <2> HIDE DEF out, bytes, whole
  <2>1. out = IF whole THEN {bytes} ELSE {}
    BY <1>4 DEF out
  <2>2. QED
    BY <1>5, <2>1
<1>7. out # {} <=> whole
  <2> HIDE DEF out, bytes, whole
  <2>1. out = IF whole THEN {bytes} ELSE {}
    BY <1>4 DEF out
  <2>2. QED
    BY <2>1
<1> DEFINE places == [i \in 1 .. n |-> DigitOf(hex[i])]
<1>8. whole <=> n % 2 = 0 /\ n <= 2 * max /\ \A i \in 1 .. n : IsDigit(hex[i])
  BY NibbleIsPlace
<1>9. whole => places = digits
  <2>1. SUFFICES ASSUME whole, NEW i \in 1 .. n PROVE DigitOf(hex[i]) = HexNibble(hex[i])
    OBVIOUS
  <2>2. QED
    BY <2>1, NibbleIsPlace
<1>10. \A b \in out : b \in [1 .. m -> 0 .. 255] /\ NumberOf(b, 256) = NumberOf(places, 16)
  <2> HIDE DEF out, whole, digits, places
  <2>1. QED
    BY <1>6, <1>7, <1>9
<1> HIDE DEF out, bytes, hi, lo
<1>11. Right(hex, max, out)
  <2> HIDE DEF whole
  <2>1. QED
    BY <1>1, <1>7, <1>8, <1>10 DEF Right
<1>12. QED
  BY <1>11 DEF out

(* A hex string is decoded exactly when it is made of whole bytes of hex digits   *)
(* that fit the buffer, and then stands for the same number, leading zeros kept, *)
(* in either case of its letters (cbmc_pqc_migration.c:126-168), of any length.  *)
THEOREM HexIsDecoded == CodecSpec => []HexDecodes
<1> DEFINE Decoded ==
      /\ done = "decoded" => \E hex \in HexString, max \in OutMax :
           given = {[hex |-> hex, out_max |-> max]} /\ decoded = HexToBin(hex, max)
<1>1. CodecInit => Decoded
  BY DEF CodecInit
<1>2. Decoded /\ [CodecNext]_codecVars => Decoded'
  BY DEF CodecNext, Decode, Seal, Spoil, LogRecord, Replace, codecVars
<1>3. Decoded => HexDecodes
  <2> SUFFICES ASSUME Decoded, done = "decoded" PROVE HexDecodes
    BY DEF HexDecodes
  <2>1. PICK hex \in HexString, max \in OutMax :
          given = {[hex |-> hex, out_max |-> max]} /\ decoded = HexToBin(hex, max)
    OBVIOUS
  <2>2. max \in Nat /\ \E n \in Nat : hex \in [1 .. n -> Char]
    BY CodecConstants DEF HexString
  <2>3. \A g \in given : g.hex = hex /\ g.out_max = max
    BY <2>1
  <2>4. Right(hex, max, decoded)
    <3>1. PICK n \in Nat : hex \in [1 .. n -> Char]
      BY <2>2
    <3>2. Right(hex, max, HexToBin(hex, max))
      BY <2>2, <3>1, HexPairs
    <3>3. QED
      BY <2>1, <3>2
  <2>5. (\A g \in given : Right(g.hex, g.out_max, decoded)) => HexDecodes
    BY DEF HexDecodes, Right
  <2>6. QED
    BY <2>3, <2>4, <2>5
<1>4. QED
  BY <1>1, <1>2, <1>3, PTL DEF CodecSpec

-----------------------------------------------------------------------------
(* The checksum: shifts and exclusive or *)

LEMMA XorBit == \A r, s, i : i \in Xor(r, s) <=> ((i \in r) # (i \in s))
BY DEF Xor

LEMMA XorType == ASSUME NEW r \in Register, NEW s \in Register PROVE Xor(r, s) \in Register
BY DEF Xor, Register

LEMMA XorFacts ==
  /\ \A r, s : Xor(r, s) = Xor(s, r)
  /\ \A r, s, u : Xor(Xor(r, s), u) = Xor(r, Xor(s, u))
  /\ \A r : Xor(r, {}) = r /\ Xor(r, r) = {}
  /\ \A r, s : Xor(r, s) = {} => r = s
BY DEF Xor

LEMMA PolynomialType == Polynomial \in Register /\ 31 \in Polynomial
BY DEF Polynomial, Register

(* Bit j after a shift. *)
LEMMA ShiftBit ==
  ASSUME NEW r \in Register, NEW j \in Nat
  PROVE  j \in ShiftOnce(r) <=> ((j + 1 \in r) # (0 \in r /\ j \in Polynomial))
<1> DEFINE shifted == {i - 1 : i \in r \ {0}}
<1>1. j \in shifted <=> j + 1 \in r
  <2>1. ASSUME j + 1 \in r PROVE j \in shifted
    <3>1. j + 1 \in r \ {0} /\ (j + 1) - 1 = j
      BY <2>1
    <3>2. QED
      BY <3>1
  <2>2. ASSUME NEW i \in r \ {0}, j = i - 1 PROVE j + 1 = i
    BY <2>2 DEF Register
  <2>3. QED
    BY <2>1, <2>2
<1> HIDE DEF shifted
<1>2. ShiftOnce(r) = IF 0 \in r THEN Xor(shifted, Polynomial) ELSE shifted
  BY DEF ShiftOnce, shifted
<1>3. QED
  BY <1>1, <1>2, XorBit

LEMMA ShiftType == ASSUME NEW r \in Register PROVE ShiftOnce(r) \in Register
<1> DEFINE shifted == {i - 1 : i \in r \ {0}}
<1>1. shifted \in Register
  BY DEF Register
<1>2. Xor(shifted, Polynomial) \in Register
  BY <1>1, PolynomialType, XorType
<1>3. QED
  BY <1>1, <1>2 DEF ShiftOnce

LEMMA ShiftXor ==
  ASSUME NEW r \in Register, NEW s \in Register
  PROVE  ShiftOnce(Xor(r, s)) = Xor(ShiftOnce(r), ShiftOnce(s))
<1>1. Xor(r, s) \in Register
  BY XorType
<1>2. /\ ShiftOnce(Xor(r, s)) \subseteq Nat
      /\ Xor(ShiftOnce(r), ShiftOnce(s)) \subseteq Nat
  <2>1. ShiftOnce(r) \in Register /\ ShiftOnce(s) \in Register /\ ShiftOnce(Xor(r, s)) \in Register
    BY <1>1, ShiftType
  <2>2. Xor(ShiftOnce(r), ShiftOnce(s)) \in Register
    BY <2>1, XorType
  <2>3. Register \subseteq SUBSET Nat
    BY DEF Register
  <2>4. QED
    BY <2>1, <2>2, <2>3
<1>3. ASSUME NEW j \in Nat
      PROVE  j \in ShiftOnce(Xor(r, s)) <=> j \in Xor(ShiftOnce(r), ShiftOnce(s))
  <2>1. j \in ShiftOnce(Xor(r, s)) <=> ((j + 1 \in Xor(r, s)) # (0 \in Xor(r, s) /\ j \in Polynomial))
    BY <1>1, ShiftBit
  <2>2. j \in ShiftOnce(r) <=> ((j + 1 \in r) # (0 \in r /\ j \in Polynomial))
    BY ShiftBit
  <2>3. j \in ShiftOnce(s) <=> ((j + 1 \in s) # (0 \in s /\ j \in Polynomial))
    BY ShiftBit
  <2>4. QED
    BY <2>1, <2>2, <2>3, XorBit
<1>4. QED
  BY <1>2, <1>3

(* The shift loses nothing, because the polynomial has the highest bit.       *)
LEMMA ShiftLosesNothing ==
  ASSUME NEW r \in Register, ShiftOnce(r) = {}
  PROVE  r = {}
<1>1. 0 \notin r
  <2>1. 31 \in ShiftOnce(r) <=> ((31 + 1 \in r) # (0 \in r /\ 31 \in Polynomial))
    BY ShiftBit
  <2>2. 31 + 1 \notin r
    BY DEF Register
  <2>3. QED
    BY <2>1, <2>2, PolynomialType
<1>2. ASSUME NEW i \in r PROVE FALSE
  <2>1. i \in Nat /\ i # 0 /\ i - 1 \in Nat /\ (i - 1) + 1 = i
    BY <1>1 DEF Register
  <2>2. i - 1 \in ShiftOnce(r) <=> (((i - 1) + 1 \in r) # (0 \in r /\ i - 1 \in Polynomial))
    BY <2>1, ShiftBit
  <2>3. QED
    BY <1>1, <2>1, <2>2
<1>3. QED
  BY <1>2

LEMMA ShiftZero == ShiftOnce({}) = {}
BY DEF ShiftOnce

LEMMA ShiftSingle == ASSUME NEW j \in 1 .. 31 PROVE ShiftOnce({j}) = {j - 1}
BY DEF ShiftOnce

(* The registers after 0, 1, 2... shifts of r. *)
Shifted(r) ==
  CHOOSE v \in [Nat -> Register] : v[0] = r /\ \A n \in Nat : v[n + 1] = ShiftOnce(v[n])

LEMMA ShiftedStep ==
  ASSUME NEW r \in Register
  PROVE  /\ Shifted(r) \in [Nat -> Register] /\ Shifted(r)[0] = r
         /\ \A n \in Nat : Shifted(r)[n + 1] = ShiftOnce(Shifted(r)[n])
<1> DEFINE F == [s \in Register |-> ShiftOnce(s)]
           P(v) == v[0] = r /\ \A n \in Nat : v[n + 1] = ShiftOnce(v[n])
<1>1. F \in [Register -> Register]
  BY ShiftType
<1>2. PICK v \in [Nat -> Register] : v[0] = r /\ \A n \in Nat : v[n + 1] = F[v[n]]
  <2> HIDE DEF F
  <2>1. r \in Register
    OBVIOUS
  <2>2. \E v : IsRun(v, F, r, Register)
    BY <1>1, <2>1, RunExists
  <2>3. QED
    BY <2>2 DEF IsRun
<1>3. P(v)
  BY <1>2
<1>4. Shifted(r) = CHOOSE u \in [Nat -> Register] : P(u)
  BY DEF Shifted
<1>5. Shifted(r) \in [Nat -> Register] /\ P(Shifted(r))
  <2> HIDE DEF P
  <2>1. QED
    BY <1>3, <1>4
<1>6. QED
  BY <1>5

LEMMA ShiftedXor ==
  ASSUME NEW r \in Register, NEW s \in Register, NEW n \in Nat
  PROVE  Shifted(Xor(r, s))[n] = Xor(Shifted(r)[n], Shifted(s)[n])
<1> DEFINE G == {k \in Nat : Shifted(Xor(r, s))[k] = Xor(Shifted(r)[k], Shifted(s)[k])}
<1>1. Xor(r, s) \in Register
  BY XorType
<1>2. 0 \in G
  BY <1>1, ShiftedStep
<1>3. ASSUME NEW k \in G PROVE k + 1 \in G
  <2>1. Shifted(r)[k] \in Register /\ Shifted(s)[k] \in Register
    BY ShiftedStep
  <2>2. /\ Shifted(r)[k + 1] = ShiftOnce(Shifted(r)[k])
        /\ Shifted(s)[k + 1] = ShiftOnce(Shifted(s)[k])
        /\ Shifted(Xor(r, s))[k + 1] = ShiftOnce(Shifted(Xor(r, s))[k])
    BY <1>1, ShiftedStep
  <2>3. QED
    BY <2>1, <2>2, ShiftXor
<1>4. G = Nat
  <2>1. G \in SUBSET Nat
    OBVIOUS
  <2> HIDE DEF G
  <2>2. QED
    BY <1>2, <1>3, <2>1, NaturalInduction
<1>5. QED
  BY <1>4

LEMMA ShiftedEmpty ==
  ASSUME NEW r \in Register, NEW n \in Nat
  PROVE  Shifted(r)[n] = {} <=> r = {}
<1> DEFINE G == {k \in Nat : Shifted(r)[k] = {} <=> r = {}}
<1>1. 0 \in G
  BY ShiftedStep
<1>2. ASSUME NEW k \in G PROVE k + 1 \in G
  <2>1. Shifted(r)[k] \in Register /\ Shifted(r)[k + 1] = ShiftOnce(Shifted(r)[k])
    BY ShiftedStep
  <2>2. ShiftOnce(Shifted(r)[k]) = {} <=> Shifted(r)[k] = {}
    BY <2>1, ShiftZero, ShiftLosesNothing
  <2>3. QED
    BY <2>1, <2>2
<1>3. G = Nat
  <2>1. G \in SUBSET Nat
    OBVIOUS
  <2> HIDE DEF G
  <2>2. QED
    BY <1>1, <1>2, <2>1, NaturalInduction
<1>4. QED
  BY <1>3

(* A bit alone comes to the low end, and nothing else has changed before.       *)
LEMMA ShiftedSingle ==
  ASSUME NEW j \in 0 .. 31
  PROVE  {j} \in Register /\ Shifted({j})[j] = {0}
<1> DEFINE P(k) == k <= j => Shifted({j})[k] = {j - k}
           G == {k \in Nat : P(k)}
<1>1. {j} \in Register
  BY DEF Register
<1>2. P(0)
  <2>1. j - 0 = j
    OBVIOUS
  <2>2. QED
    BY <1>1, <2>1, ShiftedStep
<1>3. ASSUME NEW k \in Nat, P(k) PROVE P(k + 1)
  <2> SUFFICES ASSUME k + 1 <= j PROVE Shifted({j})[k + 1] = {j - (k + 1)}
    OBVIOUS
  <2>1. Shifted({j})[k] = {j - k}
    BY <1>3
  <2>2. j - k \in 1 .. 31 /\ (j - k) - 1 = j - (k + 1)
    OBVIOUS
  <2>3. Shifted({j})[k + 1] = ShiftOnce(Shifted({j})[k])
    BY <1>1, ShiftedStep
  <2>4. ShiftOnce({j - k}) = {(j - k) - 1}
    BY <2>2, ShiftSingle
  <2>5. QED
    BY <2>1, <2>2, <2>3, <2>4
<1>4. P(j)
  <2> HIDE DEF P
  <2>1. 0 \in G /\ (\A k \in G : k + 1 \in G) /\ G \in SUBSET Nat
    BY <1>2, <1>3
  <2>2. G = Nat
    <3> HIDE DEF G
    <3>1. QED
      BY <2>1, NaturalInduction
  <2>3. QED
    BY <2>2
<1>5. j - j = 0
  OBVIOUS
<1>6. QED
  BY <1>1, <1>4, <1>5

LEMMA EightShifts == ASSUME NEW r \in Register PROVE Shift[r] = Shifted(r)[8]
<1> DEFINE Next8(f) == [j \in 0 .. 8 |-> IF j = 0 THEN r ELSE ShiftOnce(f[j - 1])]
           f0 == [j \in 0 .. 8 |-> Shifted(r)[j]]
           g == CHOOSE f : f = Next8(f)
<1>1. f0 = Next8(f0)
  <2>1. ASSUME NEW j \in 0 .. 8
        PROVE  Shifted(r)[j] = IF j = 0 THEN r ELSE ShiftOnce(f0[j - 1])
    <3>1. CASE j = 0
      BY <3>1, ShiftedStep
    <3>2. CASE j # 0
      <4>1. j - 1 \in 0 .. 8 /\ j - 1 \in Nat /\ (j - 1) + 1 = j
        BY <3>2
      <4>2. QED
        BY <3>2, <4>1, ShiftedStep
    <3>3. QED
      BY <3>1, <3>2
  <2>2. QED
    BY <2>1
<1>2. Shift[r] = g[8]
  BY DEF Shift
<1>3. g = Next8(g)
  <2> HIDE DEF Next8, f0
  <2>1. QED
    BY <1>1
<1>4. ASSUME NEW j \in 0 .. 8 PROVE g[j] = IF j = 0 THEN r ELSE ShiftOnce(g[j - 1])
  <2>1. Next8(g)[j] = IF j = 0 THEN r ELSE ShiftOnce(g[j - 1])
    <3> HIDE DEF g
    <3>1. QED
      OBVIOUS
  <2>2. QED
    <3> HIDE DEF g, Next8
    <3>1. QED
      BY <1>3, <2>1
<1> HIDE DEF g
<1> DEFINE P(k) == k <= 8 => g[k] = Shifted(r)[k]
           G == {k \in Nat : P(k)}
<1>5. P(0)
  <2>1. 0 \in 0 .. 8
    OBVIOUS
  <2>2. g[0] = r
    BY <1>4, <2>1
  <2>3. QED
    BY <2>2, ShiftedStep
<1>6. ASSUME NEW k \in Nat, P(k) PROVE P(k + 1)
  <2> SUFFICES ASSUME k + 1 <= 8 PROVE g[k + 1] = Shifted(r)[k + 1]
    OBVIOUS
  <2>1. k + 1 \in 0 .. 8 /\ k + 1 # 0 /\ (k + 1) - 1 = k /\ k <= 8 /\ k \in Nat
    OBVIOUS
  <2>2. g[k + 1] = ShiftOnce(g[k])
    BY <1>4, <2>1
  <2>3. Shifted(r)[k + 1] = ShiftOnce(Shifted(r)[k])
    BY <2>1, ShiftedStep
  <2>4. QED
    BY <1>6, <2>1, <2>2, <2>3
<1>7. P(8)
  <2> HIDE DEF P
  <2>1. 0 \in G /\ (\A k \in G : k + 1 \in G) /\ G \in SUBSET Nat
    BY <1>5, <1>6
  <2>2. G = Nat
    <3> HIDE DEF G
    <3>1. QED
      BY <2>1, NaturalInduction
  <2>3. QED
    BY <2>2
<1>8. QED
  BY <1>2, <1>7

-----------------------------------------------------------------------------
(* The registers of wal_crc32 *)

LEMMA RegistersStep ==
  ASSUME NEW data \in Seq(ByteBits)
  PROVE  LET n == Len(data)
             c == Registers(data)
         IN /\ c[0] = 0 .. 31
            /\ \A i \in 1 .. n : c[i] = Shift[Xor(c[i - 1], data[i])]
<1> DEFINE n == Len(data)
           Reg(c, i) == IF i = 0 THEN 0 .. 31 ELSE Shift[Xor(c[i - 1], data[i])]
           Upto(c, k) == \A i \in 0 .. n : i <= k => c[i] = Reg(c, i)
           Longer(c) == [i \in 0 .. n |-> Reg(c, i)]
           P(k) == \E c : Upto(c, k)
           G == {k \in Nat : P(k)}
<1>0. n \in Nat
  OBVIOUS
<1> HIDE DEF n
<1>1. P(0)
  <2>1. Upto([i \in 0 .. n |-> 0 .. 31], 0)
    OBVIOUS
  <2> HIDE DEF Upto
  <2>2. QED
    BY <2>1
<1>2. ASSUME NEW k \in Nat, P(k) PROVE P(k + 1)
  <2>1. PICK c : Upto(c, k)
    BY <1>2
  <2>2. ASSUME NEW i \in 0 .. n, i <= k + 1 PROVE Longer(c)[i] = Reg(Longer(c), i)
    <3>1. CASE i = 0
      BY <3>1
    <3>2. CASE i # 0
      <4>1. i - 1 \in 0 .. n /\ i - 1 <= k
        BY <1>0, <2>2, <3>2
      <4>2. Longer(c)[i - 1] = c[i - 1]
        BY <2>1, <4>1
      <4>3. QED
        BY <3>2, <4>2
    <3>3. QED
      BY <3>1, <3>2
  <2>3. Upto(Longer(c), k + 1)
    BY <2>2
  <2> HIDE DEF Upto, Longer
  <2>4. QED
    BY <2>3
<1>3. P(n)
  <2> HIDE DEF P
  <2>1. 0 \in G /\ (\A k \in G : k + 1 \in G) /\ G \in SUBSET Nat
    BY <1>1, <1>2
  <2>2. G = Nat
    <3> HIDE DEF G
    <3>1. QED
      BY <2>1, NaturalInduction
  <2>3. QED
    BY <1>0, <2>2
<1>4. PICK c : Upto(c, n)
  BY <1>3
<1>5. \A i \in 0 .. n : c[i] = Reg(c, i)
  BY <1>0, <1>4
<1>6. Longer(c) = [i \in 0 .. n |-> Reg(Longer(c), i)]
  <2>1. ASSUME NEW i \in 0 .. n PROVE Reg(Longer(c), i) = Reg(c, i)
    <3>1. i # 0 => i - 1 \in 0 .. n
      BY <1>0
    <3>2. QED
      BY <1>5, <3>1
  <2>2. QED
    BY <2>1
<1> DEFINE r == Registers(data)
           F == [i \in 0 .. n |-> Reg(r, i)]
<1>7. r = F
  <2>1. r = CHOOSE d : d = [i \in 0 .. n |-> Reg(d, i)]
    BY DEF Registers, n
  <2> HIDE DEF Reg, Longer
  <2>2. QED
    BY <1>6, <2>1
<1> HIDE DEF r
<1>8. F[0] = 0 .. 31 /\ \A i \in 1 .. n : F[i] = Shift[Xor(r[i - 1], data[i])]
  BY <1>0
<1> HIDE DEF F
<1>9. r[0] = 0 .. 31 /\ \A i \in 1 .. n : r[i] = Shift[Xor(r[i - 1], data[i])]
  BY <1>7, <1>8
<1>10. QED
  BY <1>9 DEF r, n

LEMMA ByteIsRegister ==
  ASSUME NEW data \in Seq(ByteBits), NEW i \in 1 .. Len(data)
  PROVE  data[i] \in ByteBits /\ data[i] \in Register
<1>1. data[i] \in ByteBits
  OBVIOUS
<1>2. QED
  BY <1>1 DEF ByteBits, Register

LEMMA RegistersType ==
  ASSUME NEW data \in Seq(ByteBits), NEW i \in 0 .. Len(data)
  PROVE  Registers(data)[i] \in Register
<1> DEFINE P(k) == k <= Len(data) => Registers(data)[k] \in Register
           G == {k \in Nat : P(k)}
<1>1. P(0)
  BY RegistersStep DEF Register
<1>2. ASSUME NEW k \in Nat, P(k) PROVE P(k + 1)
  <2> SUFFICES ASSUME k + 1 <= Len(data) PROVE Registers(data)[k + 1] \in Register
    OBVIOUS
  <2>1. k + 1 \in 1 .. Len(data) /\ (k + 1) - 1 = k /\ k <= Len(data)
    OBVIOUS
  <2>2. Registers(data)[k + 1] = Shift[Xor(Registers(data)[k], data[k + 1])]
    BY <2>1, RegistersStep
  <2>3. Xor(Registers(data)[k], data[k + 1]) \in Register
    BY <1>2, <2>1, ByteIsRegister, XorType
  <2>4. QED
    BY <2>2, <2>3, EightShifts, ShiftedStep
<1>3. P(i)
  <2> HIDE DEF P
  <2>1. 0 \in G /\ (\A k \in G : k + 1 \in G) /\ G \in SUBSET Nat
    BY <1>1, <1>2
  <2>2. G = Nat
    <3> HIDE DEF G
    <3>1. QED
      BY <2>1, NaturalInduction
  <2>3. QED
    BY <2>2
<1>4. QED
  BY <1>3

(* The registers of two strings differ by what the difference of the strings   *)
(* leaves in a register that starts empty.                                  *)
LEMMA DifferenceStep ==
  ASSUME NEW d \in Seq(ByteBits), NEW f \in Seq(ByteBits), Len(d) = Len(f), NEW i \in 1 .. Len(d)
  PROVE  LET D(j) == Xor(Registers(d)[j], Registers(f)[j])
         IN /\ D(0) = {} /\ D(i - 1) \in Register /\ Xor(d[i], f[i]) \in ByteBits
            /\ Xor(d[i], f[i]) \in Register
            /\ D(i) = Shifted(Xor(D(i - 1), Xor(d[i], f[i])))[8]
<1> DEFINE R(s, j) == Registers(s)[j]
<1>1. /\ R(d, i - 1) \in Register /\ R(f, i - 1) \in Register /\ i \in 1 .. Len(f)
      /\ d[i] \in Register /\ f[i] \in Register
      /\ d[i] \in ByteBits /\ f[i] \in ByteBits
  <2>1. i - 1 \in 0 .. Len(d) /\ i - 1 \in 0 .. Len(f) /\ i \in 1 .. Len(f)
    OBVIOUS
  <2>2. QED
    BY <2>1, RegistersType, ByteIsRegister
<1>2. /\ R(d, i) = Shift[Xor(R(d, i - 1), d[i])]
      /\ R(f, i) = Shift[Xor(R(f, i - 1), f[i])]
      /\ R(d, 0) = 0 .. 31 /\ R(f, 0) = 0 .. 31
  BY <1>1, RegistersStep
<1> HIDE DEF R
<1>3. Xor(R(d, i - 1), d[i]) \in Register /\ Xor(R(f, i - 1), f[i]) \in Register
  BY <1>1, XorType
<1>4. Xor(R(d, i), R(f, i)) = Shifted(Xor(Xor(R(d, i - 1), d[i]), Xor(R(f, i - 1), f[i])))[8]
  BY <1>2, <1>3, EightShifts, ShiftedXor
<1>5. Xor(Xor(R(d, i - 1), d[i]), Xor(R(f, i - 1), f[i]))
        = Xor(Xor(R(d, i - 1), R(f, i - 1)), Xor(d[i], f[i]))
  BY DEF Xor
<1>6. Xor(R(d, i - 1), R(f, i - 1)) \in Register /\ Xor(d[i], f[i]) \in Register
  BY <1>1, XorType
<1>7. Xor(d[i], f[i]) \in ByteBits
  BY <1>1 DEF ByteBits, Xor
<1>8. Xor(R(d, 0), R(f, 0)) = {}
  BY <1>2, XorFacts
<1>9. QED
  BY <1>4, <1>5, <1>6, <1>7, <1>8 DEF R

-----------------------------------------------------------------------------
(* Bit by bit *)

Low(e, t) == IF t \in e THEN {0} ELSE {}

(* A register that takes in the bits of e, lowest first, and shifts after each. *)
TakesBits(Y, e, N) ==
  /\ Y[0] = {}
  /\ \A t \in 0 .. N - 1 : Y[t + 1] = ShiftOnce(Xor(Y[t], Low(e, t)))

(* The first q bits of e from k on, at the low end of a register. *)
Piece(e, k, q) == {b \in 0 .. 31 : b < q /\ k + b \in e}

(* Taking in one more bit, at the low end of a register that was shifted q times, *)
(* is as good as having had it at position q before.                          *)
LEMMA OneMoreBit ==
  ASSUME NEW r \in Register, NEW q \in 0 .. 31, NEW b \in {{}, {q}}
  PROVE  LET low == IF b = {} THEN {} ELSE {0}
         IN /\ Xor(r, b) \in Register
            /\ ShiftOnce(Xor(Shifted(r)[q], low)) = Shifted(Xor(r, b))[q + 1]
            /\ Xor(Shifted(r)[q], low) = Shifted(Xor(r, b))[q]
<1> DEFINE low == IF b = {} THEN {} ELSE {0}
<1>1. b \in Register /\ {} \in Register
  BY DEF Register
<1>2. Shifted(b)[q] = low
  <2>1. CASE b = {}
    BY <1>1, <2>1, ShiftedEmpty
  <2>2. CASE b = {q}
    BY <2>2, ShiftedSingle
  <2>3. QED
    BY <2>1, <2>2
<1>3. Xor(r, b) \in Register
  BY <1>1, XorType
<1>4. Xor(Shifted(r)[q], low) = Shifted(Xor(r, b))[q]
  BY <1>1, <1>2, ShiftedXor
<1>5. Shifted(Xor(r, b))[q + 1] = ShiftOnce(Shifted(Xor(r, b))[q])
  BY <1>3, ShiftedStep
<1>6. QED
  BY <1>3, <1>4, <1>5

LEMMA PieceStep ==
  ASSUME NEW e, NEW k \in Nat, NEW q \in 0 .. 31
  PROVE  LET b == IF k + q \in e THEN {q} ELSE {}
         IN Piece(e, k, q) \in Register /\ Piece(e, k, q + 1) = Xor(Piece(e, k, q), b)
<1>1. Piece(e, k, q) \in Register
  BY DEF Piece, Register
<1>2. \A b \in 0 .. 31 : b < q + 1 <=> (b < q \/ b = q)
  OBVIOUS
<1>3. CASE k + q \in e
  <2>1. ASSUME NEW b \in 0 .. 31
        PROVE  b \in Piece(e, k, q + 1) <=> b \in Xor(Piece(e, k, q), {q})
    BY <1>2, <1>3 DEF Piece, Xor
  <2>2. Piece(e, k, q + 1) \subseteq 0 .. 31 /\ Xor(Piece(e, k, q), {q}) \subseteq 0 .. 31
    BY DEF Piece, Xor
  <2>3. QED
    BY <1>1, <1>3, <2>1, <2>2
<1>4. CASE k + q \notin e
  <2>1. Piece(e, k, q + 1) = Piece(e, k, q)
    BY <1>2, <1>4 DEF Piece
  <2>2. QED
    BY <1>1, <1>4, <2>1, XorFacts
<1>5. QED
  BY <1>3, <1>4

(* A register that has taken in a burst is not empty. *)
LEMMA BurstStays ==
  ASSUME NEW N \in Nat, NEW e \in SUBSET (0 .. N - 1), e # {},
         NEW k \in Nat, e \subseteq k .. k + 31,
         NEW Y, TakesBits(Y, e, N)
  PROVE  Y[N] # {}
<1>1. k < N
  <2>1. PICK p \in e : p \in 0 .. N - 1 /\ p \in k .. k + 31
    OBVIOUS
  <2>2. QED
    BY <2>1
<1> DEFINE P(t) == t <= k => Y[t] = {}
           G == {t \in Nat : P(t)}
<1>2. P(k)
  <2>1. P(0)
    BY DEF TakesBits
  <2>2. ASSUME NEW t \in Nat, P(t) PROVE P(t + 1)
    <3> SUFFICES ASSUME t + 1 <= k PROVE Y[t + 1] = {}
      OBVIOUS
    <3>1. t \in 0 .. N - 1 /\ t \notin e /\ t <= k
      BY <1>1
    <3>2. Y[t + 1] = ShiftOnce(Xor(Y[t], {}))
      BY <3>1 DEF TakesBits, Low
    <3>3. Y[t] = {}
      BY <2>2, <3>1
    <3>4. QED
      BY <3>2, <3>3, ShiftZero, XorFacts
  <2> HIDE DEF P
  <2>3. 0 \in G /\ (\A t \in G : t + 1 \in G) /\ G \in SUBSET Nat
    BY <2>1, <2>2
  <2>4. G = Nat
    <3> HIDE DEF G
    <3>1. QED
      BY <2>3, NaturalInduction
  <2>5. QED
    BY <2>4
<1> DEFINE Q(q) == q <= 32 /\ k + q <= N => Y[k + q] = Shifted(Piece(e, k, q))[q]
           H == {q \in Nat : Q(q)}
<1>3. \A q \in Nat : Q(q)
  <2>1. Q(0)
    <3>1. Piece(e, k, 0) = {}
      BY DEF Piece
    <3>2. {} \in Register
      BY DEF Register
    <3>3. Shifted({})[0] = {}
      BY <3>2, ShiftedStep
    <3>4. k + 0 = k /\ k <= k /\ Y[k] = {}
      BY <1>2
    <3>5. QED
      BY <3>1, <3>3, <3>4
  <2>2. ASSUME NEW q \in Nat, Q(q) PROVE Q(q + 1)
    <3> SUFFICES ASSUME q + 1 <= 32, k + (q + 1) <= N
                 PROVE  Y[k + (q + 1)] = Shifted(Piece(e, k, q + 1))[q + 1]
      OBVIOUS
    <3> DEFINE b == IF k + q \in e THEN {q} ELSE {}
               low == IF b = {} THEN {} ELSE {0}
    <3>1. k + q \in 0 .. N - 1 /\ q \in 0 .. 31 /\ k + (q + 1) = (k + q) + 1
      OBVIOUS
    <3>2. Y[k + q] = Shifted(Piece(e, k, q))[q]
      BY <2>2, <3>1
    <3>3. Y[(k + q) + 1] = ShiftOnce(Xor(Y[k + q], low))
      BY <3>1 DEF TakesBits, Low
    <3>4. Piece(e, k, q) \in Register /\ Piece(e, k, q + 1) = Xor(Piece(e, k, q), b)
      BY <3>1, PieceStep
    <3>5. b \in {{}, {q}}
      OBVIOUS
    <3> HIDE DEF b
    <3>6. ShiftOnce(Xor(Shifted(Piece(e, k, q))[q], low)) = Shifted(Xor(Piece(e, k, q), b))[q + 1]
      BY <3>1, <3>4, <3>5, OneMoreBit
    <3> HIDE DEF low
    <3>7. QED
      BY <3>1, <3>2, <3>3, <3>4, <3>6
  <2> HIDE DEF Q
  <2>3. 0 \in H /\ (\A t \in H : t + 1 \in H) /\ H \in SUBSET Nat
    BY <2>1, <2>2
  <2>4. H = Nat
    <3> HIDE DEF H
    <3>1. QED
      BY <2>3, NaturalInduction
  <2>5. QED
    BY <2>4
<1> HIDE DEF P, Q
<1> DEFINE q == IF k + 32 <= N THEN 32 ELSE N - k
<1>4. q \in Nat /\ q <= 32 /\ k + q <= N /\ (k + q = N \/ q = 32)
  BY <1>1
<1>5. Piece(e, k, q) # {} /\ Piece(e, k, q) \in Register
  <2>1. PICK p \in e : TRUE
    OBVIOUS
  <2>2. p \in 0 .. N - 1 /\ p \in k .. k + 31
    OBVIOUS
  <2>3. p - k \in 0 .. 31 /\ p - k < q /\ k + (p - k) = p
    BY <1>1, <2>2
  <2>4. p - k \in Piece(e, k, q)
    BY <2>3 DEF Piece
  <2>5. QED
    BY <2>4 DEF Piece, Register
<1> HIDE DEF q
<1>6. Y[k + q] # {} /\ Y[k + q] \in Register
  <2>1. Y[k + q] = Shifted(Piece(e, k, q))[q]
    BY <1>3, <1>4 DEF Q
  <2>2. Shifted(Piece(e, k, q)) \in [Nat -> Register]
    BY <1>5, ShiftedStep
  <2>3. Shifted(Piece(e, k, q))[q] # {}
    BY <1>4, <1>5, ShiftedEmpty
  <2>4. QED
    BY <1>4, <2>1, <2>2, <2>3
<1> DEFINE S(t) == t >= k + q /\ t <= N => Y[t] # {} /\ Y[t] \in Register
           J == {t \in Nat : S(t)}
<1>7. S(N)
  <2>1. S(0)
    <3>1. 0 >= k + q => k + q = 0
      BY <1>4
    <3>2. QED
      BY <1>6, <3>1
  <2>2. ASSUME NEW t \in Nat, S(t) PROVE S(t + 1)
    <3> SUFFICES ASSUME t + 1 >= k + q, t + 1 <= N PROVE Y[t + 1] # {} /\ Y[t + 1] \in Register
      OBVIOUS
    <3>1. CASE t + 1 = k + q
      BY <1>6, <3>1
    <3>2. CASE t + 1 # k + q
      <4>1. t >= k + q /\ t <= N /\ t \in 0 .. N - 1 /\ t >= k + 32
        BY <1>4, <3>2
      <4>2. t \notin e
        BY <4>1
      <4>3. Y[t] # {} /\ Y[t] \in Register
        BY <2>2, <4>1
      <4>4. Y[t + 1] = ShiftOnce(Xor(Y[t], {}))
        BY <4>1, <4>2 DEF TakesBits, Low
      <4>5. Y[t + 1] = ShiftOnce(Y[t])
        BY <4>4, XorFacts
      <4>6. QED
        BY <4>3, <4>5, ShiftLosesNothing, ShiftType
    <3>3. QED
      BY <3>1, <3>2
  <2> HIDE DEF S
  <2>3. 0 \in J /\ (\A t \in J : t + 1 \in J) /\ J \in SUBSET Nat
    BY <2>1, <2>2
  <2>4. J = Nat
    <3> HIDE DEF J
    <3>1. QED
      BY <2>3, NaturalInduction
  <2>5. QED
    BY <2>4
<1>8. N >= k + q
  BY <1>4
<1>9. QED
  BY <1>7, <1>8

(* A register takes in a set of bits in one way. *)
LEMMA TakesBitsOnce ==
  ASSUME NEW N \in Nat, NEW e, NEW Y, NEW Z, TakesBits(Y, e, N), TakesBits(Z, e, N)
  PROVE  Y[N] = Z[N]
<1> DEFINE P(t) == t <= N => Y[t] = Z[t]
           G == {t \in Nat : P(t)}
<1>1. P(0)
  BY DEF TakesBits
<1>2. ASSUME NEW t \in Nat, P(t) PROVE P(t + 1)
  <2> SUFFICES ASSUME t + 1 <= N PROVE Y[t + 1] = Z[t + 1]
    OBVIOUS
  <2>1. t \in 0 .. N - 1 /\ t <= N
    OBVIOUS
  <2>2. /\ Y[t + 1] = ShiftOnce(Xor(Y[t], Low(e, t)))
        /\ Z[t + 1] = ShiftOnce(Xor(Z[t], Low(e, t)))
    BY <2>1 DEF TakesBits
  <2>3. QED
    BY <1>2, <2>1, <2>2
<1>3. P(N)
  <2> HIDE DEF P
  <2>1. 0 \in G /\ (\A t \in G : t + 1 \in G) /\ G \in SUBSET Nat
    BY <1>1, <1>2
  <2>2. G = Nat
    <3> HIDE DEF G
    <3>1. QED
      BY <2>1, NaturalInduction
  <2>3. QED
    BY <2>2
<1>4. QED
  BY <1>3

(* The bits in which two strings of one length differ, counted from the first.  *)
Differ(d, f) == {p \in 0 .. 8 * Len(d) - 1 : p % 8 \in Xor(d[p \div 8 + 1], f[p \div 8 + 1])}

(* What the registers of d and f differ by after t bits. *)
After(d, f, t) ==
  LET i == t \div 8
      early == {b \in 0 .. 7 : b < t % 8 /\ 8 * i + b \in Differ(d, f)}
  IN Shifted(Xor(Xor(Registers(d)[i], Registers(f)[i]), early))[t % 8]

LEMMA BitByBit ==
  ASSUME NEW d \in Seq(ByteBits), NEW f \in Seq(ByteBits), Len(d) = Len(f)
  PROVE  LET N == 8 * Len(d)
             Y == [t \in 0 .. N |-> After(d, f, t)]
         IN /\ TakesBits(Y, Differ(d, f), N)
            /\ Y[N] = Xor(Registers(d)[Len(d)], Registers(f)[Len(d)])
<1> DEFINE n == Len(d)
           N == 8 * n
           e == Differ(d, f)
           D(i) == Xor(Registers(d)[i], Registers(f)[i])
           Early(i, j) == {b \in 0 .. 7 : b < j /\ 8 * i + b \in e}
           Y == [t \in 0 .. N |-> After(d, f, t)]
<1>1. n \in Nat /\ N \in Nat
  OBVIOUS
<1>2. ASSUME NEW i \in 0 .. n PROVE D(i) \in Register
  <2>1. i \in 0 .. Len(f)
    OBVIOUS
  <2>2. QED
    BY <2>1, RegistersType, XorType
<1>3. D(0) = {}
  BY RegistersStep, XorFacts
<1>4. ASSUME NEW i \in 0 .. n - 1 PROVE D(i + 1) = Shifted(Xor(D(i), Early(i, 8)))[8]
  <2>1. i + 1 \in 1 .. Len(d) /\ (i + 1) - 1 = i
    OBVIOUS
  <2>2. /\ D(i + 1) = Shifted(Xor(D(i), Xor(d[i + 1], f[i + 1])))[8]
        /\ Xor(d[i + 1], f[i + 1]) \in ByteBits
    BY <2>1, DifferenceStep
  <2>3. ASSUME NEW b \in 0 .. 7 PROVE 8 * i + b \in e <=> b \in Xor(d[i + 1], f[i + 1])
    <3>1. (8 * i + b) % 8 = b /\ (8 * i + b) \div 8 = i /\ 8 * i + b \in 0 .. 8 * n - 1
      OBVIOUS
    <3>2. QED
      BY <3>1 DEF Differ
  <2>4. Early(i, 8) = Xor(d[i + 1], f[i + 1])
    <3>1. \A b \in 0 .. 7 : b < 8
      OBVIOUS
    <3>2. Xor(d[i + 1], f[i + 1]) \subseteq 0 .. 7
      BY <2>2 DEF ByteBits
    <3> HIDE DEF e
    <3>3. QED
      BY <2>3, <3>1, <3>2
  <2>5. QED
    BY <2>2, <2>4
<1> HIDE DEF D, e
<1>5. ASSUME NEW i \in 0 .. n, NEW j \in 0 .. 7, 8 * i + j \in 0 .. N
      PROVE  Y[8 * i + j] = Shifted(Xor(D(i), Early(i, j)))[j]
  <2>1. (8 * i + j) % 8 = j /\ (8 * i + j) \div 8 = i
    OBVIOUS
  <2>2. Y[8 * i + j] = After(d, f, 8 * i + j)
    BY <1>5
  <2>3. QED
    BY <2>1, <2>2 DEF After, D, e
<1>6. ASSUME NEW i \in 0 .. n PROVE Y[8 * i] = D(i)
  <2>1. 8 * i + 0 = 8 * i /\ 8 * i + 0 \in 0 .. N /\ 0 \in 0 .. 7
    OBVIOUS
  <2>2. Early(i, 0) = {}
    OBVIOUS
  <2>3. Y[8 * i] = Shifted(Xor(D(i), {}))[0]
    BY <1>5, <2>1, <2>2
  <2>4. QED
    BY <1>2, <2>3, XorFacts, ShiftedStep
<1> HIDE DEF Y
<1>7. ASSUME NEW t \in 0 .. N - 1 PROVE Y[t + 1] = ShiftOnce(Xor(Y[t], Low(e, t)))
  <2> DEFINE i == t \div 8
             j == t % 8
             b == IF t \in e THEN {j} ELSE {}
             low == IF b = {} THEN {} ELSE {0}
  <2>1. /\ t = 8 * i + j /\ i \in 0 .. n - 1 /\ j \in 0 .. 7 /\ i \in 0 .. n /\ i + 1 \in 0 .. n
        /\ 8 * i + j \in 0 .. N
    OBVIOUS
  <2> HIDE DEF i, j
  <2>2. Y[t] = Shifted(Xor(D(i), Early(i, j)))[j]
    BY <1>5, <2>1
  <2>3. Early(i, j + 1) = Xor(Early(i, j), b)
    <3>1. ASSUME NEW c \in 0 .. 7 PROVE c < j + 1 <=> (c < j \/ c = j)
      BY <2>1
    <3>2. ASSUME NEW c \in 0 .. 7 PROVE c = j /\ 8 * i + c \in e <=> c \in b
      BY <2>1
    <3>3. b \subseteq 0 .. 7
      BY <2>1
    <3>4. ~(j < j)
      BY <2>1
    <3> HIDE DEF b
    <3>5. ASSUME NEW c \in 0 .. 7 PROVE c \in Early(i, j + 1) <=> c \in Xor(Early(i, j), b)
      BY <3>1, <3>2, <3>4, XorBit
    <3>6. Early(i, j + 1) \subseteq 0 .. 7 /\ Xor(Early(i, j), b) \subseteq 0 .. 7
      BY <3>3 DEF Xor
    <3>7. QED
      BY <3>5, <3>6
  <2>4. Early(i, j) \in Register /\ Xor(D(i), Early(i, j)) \in Register
    <3>1. Early(i, j) \in Register
      BY DEF Register
    <3>2. QED
      BY <1>2, <2>1, <3>1, XorType
  <2>5. b \in {{}, {j}} /\ Low(e, t) = low
    BY DEF Low
  <2> HIDE DEF b
  <2>6. ShiftOnce(Xor(Y[t], low)) = Shifted(Xor(Xor(D(i), Early(i, j)), b))[j + 1]
    <3>1. j \in 0 .. 31
      BY <2>1
    <3> DEFINE x == Xor(D(i), Early(i, j))
    <3>2. x \in Register /\ Y[t] = Shifted(x)[j]
      BY <2>2, <2>4
    <3> HIDE DEF x
    <3>3. ShiftOnce(Xor(Shifted(x)[j], low)) = Shifted(Xor(x, b))[j + 1]
      BY <2>5, <3>1, <3>2, OneMoreBit
    <3>4. QED
      BY <3>2, <3>3 DEF x
  <2>7. Xor(Xor(D(i), Early(i, j)), b) = Xor(D(i), Early(i, j + 1))
    <3> HIDE DEF Early
    <3>1. QED
      BY <2>3, XorFacts
  <2>8. Y[t + 1] = Shifted(Xor(D(i), Early(i, j + 1)))[j + 1]
    <3>1. CASE j = 7
      <4>1. t + 1 = 8 * (i + 1) /\ j + 1 = 8
        BY <2>1, <3>1
      <4>2. Y[t + 1] = D(i + 1)
        BY <1>6, <2>1, <4>1
      <4>3. QED
        BY <1>4, <2>1, <4>1, <4>2
    <3>2. CASE j # 7
      <4>1. t + 1 = 8 * i + (j + 1) /\ j + 1 \in 0 .. 7 /\ t + 1 \in 0 .. N
        BY <2>1, <3>2
      <4>2. QED
        BY <1>5, <2>1, <4>1
    <3>3. QED
      BY <3>1, <3>2
  <2> HIDE DEF low, Early
  <2>9. QED
    BY <2>5, <2>6, <2>7, <2>8
<1>8. Y[0] = {}
  <2>1. 0 \in 0 .. n /\ 8 * 0 = 0
    BY <1>1
  <2>2. QED
    BY <1>3, <1>6, <2>1
<1>9. Y[N] = D(n)
  <2>1. n \in 0 .. n
    BY <1>1
  <2>2. QED
    BY <1>6, <2>1
<1>10. QED
  BY <1>7, <1>8, <1>9 DEF TakesBits, Y, D, e

(* Bits that lie within 32 in a row. *)
IsBurst(e) == e # {} /\ \E k \in Nat : e \subseteq k .. k + 31

LEMMA SumsAgree ==
  ASSUME NEW d \in Seq(ByteBits), NEW f \in Seq(ByteBits), Len(d) = Len(f)
  PROVE  WalCrc32(d) = WalCrc32(f) <=> Xor(Registers(d)[Len(d)], Registers(f)[Len(d)]) = {}
<1>1. Registers(d)[Len(d)] \in SUBSET (0 .. 31) /\ Registers(f)[Len(d)] \in SUBSET (0 .. 31)
  <2>1. Len(d) \in 0 .. Len(d) /\ Len(d) \in 0 .. Len(f)
    OBVIOUS
  <2>2. QED
    BY <2>1, RegistersType DEF Register
<1>2. WalCrc32(d) = WalCrc32(f) <=> Registers(d)[Len(d)] = Registers(f)[Len(d)]
  <2> DEFINE r == Registers(d)[Len(d)]
             s == Registers(f)[Len(d)]
  <2>1. WalCrc32(d) = (0 .. 31) \ r /\ WalCrc32(f) = (0 .. 31) \ s
    BY DEF WalCrc32
  <2> HIDE DEF r, s
  <2>2. r \in SUBSET (0 .. 31) /\ s \in SUBSET (0 .. 31)
    BY <1>1 DEF r, s
  <2>3. WalCrc32(d) = WalCrc32(f) <=> r = s
    BY <2>1, <2>2
  <2>4. QED
    BY <2>3 DEF r, s
<1>3. QED
  BY <1>2, XorFacts

(* Two strings of one length whose differences lie within 32 bits in a row have  *)
(* different sums.                                                          *)
LEMMA BurstChangesSum ==
  ASSUME NEW d \in Seq(ByteBits), NEW f \in Seq(ByteBits), Len(d) = Len(f), IsBurst(Differ(d, f))
  PROVE  WalCrc32(d) # WalCrc32(f)
<1> DEFINE N == 8 * Len(d)
           Y == [t \in 0 .. N |-> After(d, f, t)]
<1>1. PICK k \in Nat : Differ(d, f) \subseteq k .. k + 31
  BY DEF IsBurst
<1>2. N \in Nat /\ Differ(d, f) \in SUBSET (0 .. N - 1) /\ Differ(d, f) # {}
  BY DEF IsBurst, Differ
<1>3. TakesBits(Y, Differ(d, f), N) /\ Y[N] = Xor(Registers(d)[Len(d)], Registers(f)[Len(d)])
  BY BitByBit
<1> HIDE DEF Y, N
<1>4. Y[N] # {}
  BY <1>1, <1>2, <1>3, BurstStays
<1>5. QED
  BY <1>3, <1>4, SumsAgree

(* Whether the sums of two strings agree depends on nothing but their length     *)
(* and where they differ.                                                   *)
LEMMA DifferenceDecides ==
  ASSUME NEW d \in Seq(ByteBits), NEW f \in Seq(ByteBits), Len(d) = Len(f),
         NEW c \in Seq(ByteBits), NEW g \in Seq(ByteBits), Len(c) = Len(g), Len(c) = Len(d),
         Differ(d, f) = Differ(c, g)
  PROVE  WalCrc32(d) = WalCrc32(f) <=> WalCrc32(c) = WalCrc32(g)
<1> DEFINE N == 8 * Len(d)
           e == Differ(d, f)
           Y == [t \in 0 .. N |-> After(d, f, t)]
           Z == [t \in 0 .. N |-> After(c, g, t)]
<1>1. TakesBits(Y, e, N) /\ Y[N] = Xor(Registers(d)[Len(d)], Registers(f)[Len(d)])
  BY BitByBit
<1>2. TakesBits(Z, e, N) /\ Z[N] = Xor(Registers(c)[Len(c)], Registers(g)[Len(c)])
  BY BitByBit
<1>3. N \in Nat
  OBVIOUS
<1> HIDE DEF Y, Z, N, e
<1>4. Y[N] = Z[N]
  BY <1>1, <1>2, <1>3, TakesBitsOnce
<1>5. QED
  BY <1>1, <1>2, <1>4, SumsAgree

-----------------------------------------------------------------------------
(* The bytes of a log record *)

LEMMA EightBits ==
  ASSUME NEW n \in Byte
  PROVE  /\ 0 \in OneBits(n) <=> n % 2 = 1
         /\ 1 \in OneBits(n) <=> (n \div 2) % 2 = 1
         /\ 2 \in OneBits(n) <=> (n \div 4) % 2 = 1
         /\ 3 \in OneBits(n) <=> (n \div 8) % 2 = 1
         /\ 4 \in OneBits(n) <=> (n \div 16) % 2 = 1
         /\ 5 \in OneBits(n) <=> (n \div 32) % 2 = 1
         /\ 6 \in OneBits(n) <=> (n \div 64) % 2 = 1
         /\ 7 \in OneBits(n) <=> (n \div 128) % 2 = 1
<1>1. /\ 2 ^ 0 = 1 /\ 2 ^ 1 = 2 /\ 2 ^ 2 = 4 /\ 2 ^ 3 = 8 /\ 2 ^ 4 = 16 /\ 2 ^ 5 = 32
      /\ 2 ^ 6 = 64 /\ 2 ^ 7 = 128
  OBVIOUS
<1>2. n \div 1 = n
  BY DEF Byte
<1>3. \A i \in 0 .. 7 : i \in OneBits(n) <=> (n \div 2 ^ i) % 2 = 1
  BY DEF OneBits
<1>4. 0 \in 0 .. 7 /\ 1 \in 0 .. 7 /\ 2 \in 0 .. 7 /\ 3 \in 0 .. 7 /\ 4 \in 0 .. 7
      /\ 5 \in 0 .. 7 /\ 6 \in 0 .. 7 /\ 7 \in 0 .. 7
  OBVIOUS
<1>5. QED
  BY <1>1, <1>2, <1>3, <1>4

LEMMA SumOfBits ==
  ASSUME NEW n \in Byte
  PROVE  /\ n = (n % 2) + 2 * ((n \div 2) % 2) + 4 * ((n \div 4) % 2) + 8 * ((n \div 8) % 2)
                + 16 * ((n \div 16) % 2) + 32 * ((n \div 32) % 2) + 64 * ((n \div 64) % 2)
                + 128 * ((n \div 128) % 2)
         /\ n % 2 \in {0, 1} /\ (n \div 2) % 2 \in {0, 1} /\ (n \div 4) % 2 \in {0, 1}
         /\ (n \div 8) % 2 \in {0, 1} /\ (n \div 16) % 2 \in {0, 1} /\ (n \div 32) % 2 \in {0, 1}
         /\ (n \div 64) % 2 \in {0, 1} /\ (n \div 128) % 2 \in {0, 1}
BY DEF Byte

(* The bits of a byte determine it. *)
LEMMA BitsDetermine ==
  ASSUME NEW b \in Byte, NEW c \in Byte, OneBits(b) = OneBits(c)
  PROVE  b = c
<1>1. /\ b % 2 = c % 2 /\ (b \div 2) % 2 = (c \div 2) % 2 /\ (b \div 4) % 2 = (c \div 4) % 2
      /\ (b \div 8) % 2 = (c \div 8) % 2 /\ (b \div 16) % 2 = (c \div 16) % 2
      /\ (b \div 32) % 2 = (c \div 32) % 2 /\ (b \div 64) % 2 = (c \div 64) % 2
      /\ (b \div 128) % 2 = (c \div 128) % 2
  BY EightBits, SumOfBits
<1>2. QED
  BY <1>1, SumOfBits

LEMMA Single == ASSUME NEW a \in Byte PROVE <<a>> \in Seq(Byte) /\ Len(<<a>>) = 1
OBVIOUS

LEMMA SingleInjective == \A a, b : <<a>> = <<b>> => a = b
OBVIOUS

(* What is left of a key id, and what the field holds. *)
LEMMA KeyFieldType ==
  ASSUME NEW id \in Seq(1 .. 255)
  PROVE  LET k == KeyKept(id)
         IN /\ k \in Seq(1 .. 255) /\ Len(k) \in 0 .. 64
            /\ KeyField(id) \in Seq(Byte) /\ Len(KeyField(id)) = 65
            /\ \A i \in 1 .. Len(k) : KeyField(id)[i] = k[i]
            /\ \A i \in Len(k) + 1 .. 65 : KeyField(id)[i] = 0
<1> DEFINE m == IF Len(id) < 64 THEN Len(id) ELSE 64
           k == KeyKept(id)
           z == [i \in 1 .. 65 - Len(k) |-> 0]
<1>1. Len(id) \in Nat /\ \A i \in 1 .. Len(id) : id[i] \in 1 .. 255
  BY LenProperties
<1>2. k = SubSeq(id, 1, m) /\ m \in 0 .. 64 /\ m <= Len(id)
  <2>1. k = SubSeq(id, 1, m)
    BY DEF KeyKept
  <2>2. \A n \in Nat : (IF n < 64 THEN n ELSE 64) \in 0 .. 64 /\ (IF n < 64 THEN n ELSE 64) <= n
    OBVIOUS
  <2>3. m \in 0 .. 64 /\ m <= Len(id)
    BY <1>1, <2>2
  <2>4. QED
    BY <2>1, <2>3
<1>3. k \in Seq(1 .. 255) /\ Len(k) = m
  <2>1. \A i \in 1 .. m : id[i] \in 1 .. 255
    BY <1>1, <1>2
  <2> HIDE DEF m
  <2>2. SubSeq(id, 1, m) \in Seq(1 .. 255) /\ Len(SubSeq(id, 1, m)) = IF 1 <= m THEN m - 1 + 1 ELSE 0
    BY <1>1, <1>2, <2>1, SubSeqProperties
  <2>3. (IF 1 <= m THEN m - 1 + 1 ELSE 0) = m
    BY <1>2
  <2>4. QED
    BY <1>2, <2>2, <2>3
<1> HIDE DEF k, m
<1>4. k \in Seq(Byte)
  <2>1. Seq(1 .. 255) \subseteq Seq(Byte)
    BY DEF Byte
  <2>2. QED
    BY <1>3, <2>1
<1>5. z \in Seq(Byte) /\ Len(z) = 65 - m /\ \A i \in 1 .. Len(z) : z[i] = 0
  BY <1>2, <1>3 DEF Byte
<1>6. KeyField(id) = Cat(k, z)
  BY DEF KeyField, Cat, k
<1> HIDE DEF z
<1>7. /\ Cat(k, z) \in Seq(Byte) /\ Len(Cat(k, z)) = Len(k) + Len(z)
      /\ \A i \in 1 .. Len(k) : Cat(k, z)[i] = k[i]
      /\ \A i \in 1 .. Len(z) : Cat(k, z)[Len(k) + i] = z[i]
  BY <1>4, <1>5, Parts
<1>8. Len(k) + Len(z) = 65
  BY <1>2, <1>3, <1>5
<1>9. ASSUME NEW i \in Len(k) + 1 .. 65 PROVE Cat(k, z)[i] = 0
  <2>1. i - Len(k) \in 1 .. Len(z) /\ Len(k) + (i - Len(k)) = i
    BY <1>2, <1>3, <1>5
  <2>2. QED
    BY <1>5, <1>7, <2>1
<1>10. /\ k \in Seq(1 .. 255) /\ Len(k) \in 0 .. 64
       /\ KeyField(id) \in Seq(Byte) /\ Len(KeyField(id)) = 65
  BY <1>2, <1>3, <1>6, <1>7, <1>8
<1>11. /\ \A i \in 1 .. Len(k) : KeyField(id)[i] = k[i]
       /\ \A i \in Len(k) + 1 .. 65 : KeyField(id)[i] = 0
  BY <1>6, <1>7, <1>9, Zenon
<1>12. QED
  BY <1>10, <1>11, Zenon DEF k

(* A name holds no zero, so the field shows where it ends. *)
LEMMA NameEnds ==
  ASSUME NEW id \in Seq(1 .. 255), NEW jd \in Seq(1 .. 255), KeyField(id) = KeyField(jd)
  PROVE  ~(Len(KeyKept(id)) < Len(KeyKept(jd)))
<1> SUFFICES ASSUME Len(KeyKept(id)) < Len(KeyKept(jd)) PROVE FALSE
  OBVIOUS
<1>1. PICK m \in 0 .. 64, n \in 0 .. 64 : m = Len(KeyKept(id)) /\ n = Len(KeyKept(jd))
  BY KeyFieldType
<1>2. m + 1 \in m + 1 .. 65 /\ m + 1 \in 1 .. n
  <2>1. m < n
    BY <1>1
  <2>2. QED
    BY <2>1
<1>3. KeyField(id)[m + 1] = 0
  <2>1. \A i \in m + 1 .. 65 : KeyField(id)[i] = 0
    BY <1>1, KeyFieldType
  <2>2. QED
    BY <1>2, <2>1
<1>4. KeyField(jd)[m + 1] = KeyKept(jd)[m + 1]
  BY <1>1, <1>2, KeyFieldType
<1>5. KeyKept(jd)[m + 1] \in 1 .. 255
  <2>1. KeyKept(jd) \in Seq(1 .. 255)
    BY KeyFieldType
  <2>2. KeyKept(jd) \in [1 .. Len(KeyKept(jd)) -> 1 .. 255]
    BY <2>1, LenProperties
  <2>3. \A i \in 1 .. Len(KeyKept(jd)) : KeyKept(jd)[i] \in 1 .. 255
    BY <2>2, Zenon
  <2>4. QED
    BY <1>1, <1>2, <2>3, Zenon
<1>6. \A i \in 1 .. 255 : i # 0
  OBVIOUS
<1>7. QED
  BY <1>3, <1>4, <1>5, <1>6, Zenon

LEMMA KeyFieldInjective ==
  ASSUME NEW id \in Seq(1 .. 255), NEW jd \in Seq(1 .. 255), KeyField(id) = KeyField(jd)
  PROVE  KeyKept(id) = KeyKept(jd)
<1>1. KeyKept(id) \in Seq(1 .. 255) /\ KeyKept(jd) \in Seq(1 .. 255)
  BY KeyFieldType
<1>2. Len(KeyKept(id)) \in Int /\ Len(KeyKept(jd)) \in Int
  BY <1>1, LenProperties
<1>3. Len(KeyKept(id)) = Len(KeyKept(jd))
  <2>1. ~(Len(KeyKept(id)) < Len(KeyKept(jd))) /\ ~(Len(KeyKept(jd)) < Len(KeyKept(id)))
    BY NameEnds
  <2>2. QED
    BY <1>2, <2>1
<1>4. ASSUME NEW i \in 1 .. Len(KeyKept(id)) PROVE KeyKept(id)[i] = KeyKept(jd)[i]
  <2>1. KeyField(id)[i] = KeyKept(id)[i]
    BY KeyFieldType
  <2>2. KeyField(jd)[i] = KeyKept(jd)[i]
    BY <1>3, KeyFieldType
  <2>3. QED
    BY <2>1, <2>2
<1>5. QED
  BY <1>1, <1>3, <1>4, SeqEqual

(* The bytes of a record, from the last field forward.                       *)
Head2(w) == <<Version, w.operation>>
Upto3(w) == Cat(Cat(Magic, Head2(w)), KeyField(w.key_id))
Upto5(w) == Cat(Cat(Upto3(w), <<w.new_state>>), LE64(w.seq))
Upto7(w) == Cat(Cat(Upto5(w), <<w.peer_state>>), LE32(w.peer_shard_id))

Bytes(n) == {s \in Seq(Byte) : Len(s) = n}

LEMMA FieldTypes ==
  ASSUME NEW w \in RecordFields
  PROVE  /\ w.key_id \in Seq(1 .. 255)
         /\ Magic \in Bytes(8) /\ Head2(w) \in Bytes(2) /\ KeyField(w.key_id) \in Bytes(65)
         /\ <<w.new_state>> \in Bytes(1) /\ LE64(w.seq) \in Bytes(8)
         /\ <<w.peer_state>> \in Bytes(1) /\ LE32(w.peer_shard_id) \in Bytes(4)
         /\ LE64(w.peer_updated_at) \in Bytes(8)
<1>1. /\ w.operation \in Byte /\ w.key_id \in Seq(1 .. 255) /\ w.new_state \in Byte
      /\ w.seq \in Nat /\ w.peer_state \in Byte /\ w.peer_shard_id \in Nat
      /\ w.peer_updated_at \in Nat
  BY DEF RecordFields
<1>2. Magic \in Bytes(8)
  BY DEF Magic, Byte, Bytes
<1>3. Head2(w) \in Bytes(2)
  <2>1. Version \in Byte
    BY DEF Version, Byte
  <2>2. QED
    BY <1>1, <2>1 DEF Head2, Bytes
<1>4. KeyField(w.key_id) \in Bytes(65)
  BY <1>1, KeyFieldType DEF Bytes
<1>5. <<w.new_state>> \in Bytes(1) /\ <<w.peer_state>> \in Bytes(1)
  BY <1>1, Single DEF Bytes
<1>6. /\ LE64(w.seq) \in Bytes(8) /\ LE32(w.peer_shard_id) \in Bytes(4)
      /\ LE64(w.peer_updated_at) \in Bytes(8)
  BY <1>1, LE64Type, LE32Type DEF Bytes
<1>7. QED
  BY <1>1, <1>2, <1>3, <1>4, <1>5, <1>6

LEMMA CatBytes ==
  ASSUME NEW m \in Nat, NEW n \in Nat, NEW a \in Bytes(m), NEW c \in Bytes(n)
  PROVE  Cat(a, c) \in Bytes(m + n)
BY Parts DEF Bytes

LEMMA PartsAgree ==
  ASSUME NEW m, NEW n, NEW a \in Bytes(m), NEW b \in Bytes(m), NEW c \in Bytes(n), NEW d \in Bytes(n),
         Cat(a, c) = Cat(b, d)
  PROVE  a = b /\ c = d
BY Cancel DEF Bytes

LEMMA RecordIsBytes ==
  ASSUME NEW w \in RecordFields
  PROVE  /\ Cat(Magic, Head2(w)) \in Bytes(10)
         /\ Upto3(w) \in Bytes(75) /\ Cat(Upto3(w), <<w.new_state>>) \in Bytes(76)
         /\ Upto5(w) \in Bytes(84) /\ Cat(Upto5(w), <<w.peer_state>>) \in Bytes(85)
         /\ Upto7(w) \in Bytes(89)
         /\ WalBytes(w) = Cat(Upto7(w), LE64(w.peer_updated_at))
         /\ WalBytes(w) \in Bytes(97)
<1>1. Cat(Magic, Head2(w)) \in Bytes(10)
  <2>1. Cat(Magic, Head2(w)) \in Bytes(8 + 2)
    BY FieldTypes, CatBytes
  <2>2. QED
    BY <2>1
<1>2. Upto3(w) \in Bytes(75)
  <2>1. Cat(Cat(Magic, Head2(w)), KeyField(w.key_id)) \in Bytes(10 + 65)
    BY <1>1, FieldTypes, CatBytes
  <2>2. QED
    BY <2>1 DEF Upto3
<1>3. Cat(Upto3(w), <<w.new_state>>) \in Bytes(76)
  <2>1. Cat(Upto3(w), <<w.new_state>>) \in Bytes(75 + 1)
    BY <1>2, FieldTypes, CatBytes
  <2>2. QED
    BY <2>1
<1>4. Upto5(w) \in Bytes(84)
  <2>1. Cat(Cat(Upto3(w), <<w.new_state>>), LE64(w.seq)) \in Bytes(76 + 8)
    BY <1>3, FieldTypes, CatBytes
  <2>2. QED
    BY <2>1 DEF Upto5
<1>5. Cat(Upto5(w), <<w.peer_state>>) \in Bytes(85)
  <2>1. Cat(Upto5(w), <<w.peer_state>>) \in Bytes(84 + 1)
    BY <1>4, FieldTypes, CatBytes
  <2>2. QED
    BY <2>1
<1>6. Upto7(w) \in Bytes(89)
  <2>1. Cat(Cat(Upto5(w), <<w.peer_state>>), LE32(w.peer_shard_id)) \in Bytes(85 + 4)
    BY <1>5, FieldTypes, CatBytes
  <2>2. QED
    BY <2>1 DEF Upto7
<1>7. Cat(Upto7(w), LE64(w.peer_updated_at)) \in Bytes(97)
  <2>1. Cat(Upto7(w), LE64(w.peer_updated_at)) \in Bytes(89 + 8)
    BY <1>6, FieldTypes, CatBytes
  <2>2. QED
    BY <2>1
<1>8. WalBytes(w) = Cat(Upto7(w), LE64(w.peer_updated_at))
  BY DEF WalBytes, Upto7, Upto5, Upto3, Head2, Cat
<1>9. QED
  BY <1>1, <1>2, <1>3, <1>4, <1>5, <1>6, <1>7, <1>8

(* The bytes before the sum give back every field, of key_id what is kept.     *)
LEMMA RecordsGivenBack ==
  ASSUME NEW w \in RecordFields, NEW v \in RecordFields, WalBytes(w) = WalBytes(v)
  PROVE  /\ w.operation = v.operation /\ KeyKept(w.key_id) = KeyKept(v.key_id)
         /\ w.new_state = v.new_state /\ w.seq = v.seq /\ w.peer_state = v.peer_state
         /\ w.peer_shard_id = v.peer_shard_id /\ w.peer_updated_at = v.peer_updated_at
<1>1. Upto7(w) = Upto7(v) /\ LE64(w.peer_updated_at) = LE64(v.peer_updated_at)
  <2>1. Cat(Upto7(w), LE64(w.peer_updated_at)) = Cat(Upto7(v), LE64(v.peer_updated_at))
    BY RecordIsBytes
  <2>2. /\ Upto7(w) \in Bytes(89) /\ Upto7(v) \in Bytes(89)
        /\ LE64(w.peer_updated_at) \in Bytes(8) /\ LE64(v.peer_updated_at) \in Bytes(8)
    BY FieldTypes, RecordIsBytes
  <2>3. QED
    BY <2>1, <2>2, PartsAgree
<1>2. Cat(Upto5(w), <<w.peer_state>>) = Cat(Upto5(v), <<v.peer_state>>)
      /\ LE32(w.peer_shard_id) = LE32(v.peer_shard_id)
  <2>1. Cat(Cat(Upto5(w), <<w.peer_state>>), LE32(w.peer_shard_id))
          = Cat(Cat(Upto5(v), <<v.peer_state>>), LE32(v.peer_shard_id))
    BY <1>1 DEF Upto7
  <2>2. /\ Cat(Upto5(w), <<w.peer_state>>) \in Bytes(85) /\ Cat(Upto5(v), <<v.peer_state>>) \in Bytes(85)
        /\ LE32(w.peer_shard_id) \in Bytes(4) /\ LE32(v.peer_shard_id) \in Bytes(4)
    BY FieldTypes, RecordIsBytes
  <2>3. QED
    BY <2>1, <2>2, PartsAgree
<1>3. Upto5(w) = Upto5(v) /\ <<w.peer_state>> = <<v.peer_state>>
  <2>1. /\ Upto5(w) \in Bytes(84) /\ Upto5(v) \in Bytes(84)
        /\ <<w.peer_state>> \in Bytes(1) /\ <<v.peer_state>> \in Bytes(1)
    BY FieldTypes, RecordIsBytes
  <2>2. QED
    BY <1>2, <2>1, PartsAgree
<1>4. Cat(Upto3(w), <<w.new_state>>) = Cat(Upto3(v), <<v.new_state>>) /\ LE64(w.seq) = LE64(v.seq)
  <2>1. Cat(Cat(Upto3(w), <<w.new_state>>), LE64(w.seq))
          = Cat(Cat(Upto3(v), <<v.new_state>>), LE64(v.seq))
    BY <1>3 DEF Upto5
  <2>2. /\ Cat(Upto3(w), <<w.new_state>>) \in Bytes(76) /\ Cat(Upto3(v), <<v.new_state>>) \in Bytes(76)
        /\ LE64(w.seq) \in Bytes(8) /\ LE64(v.seq) \in Bytes(8)
    BY FieldTypes, RecordIsBytes
  <2>3. QED
    BY <2>1, <2>2, PartsAgree
<1>5. Upto3(w) = Upto3(v) /\ <<w.new_state>> = <<v.new_state>>
  <2>1. /\ Upto3(w) \in Bytes(75) /\ Upto3(v) \in Bytes(75)
        /\ <<w.new_state>> \in Bytes(1) /\ <<v.new_state>> \in Bytes(1)
    BY FieldTypes, RecordIsBytes
  <2>2. QED
    BY <1>4, <2>1, PartsAgree
<1>6. Cat(Magic, Head2(w)) = Cat(Magic, Head2(v)) /\ KeyField(w.key_id) = KeyField(v.key_id)
  <2>1. Cat(Cat(Magic, Head2(w)), KeyField(w.key_id)) = Cat(Cat(Magic, Head2(v)), KeyField(v.key_id))
    BY <1>5 DEF Upto3
  <2>2. /\ Cat(Magic, Head2(w)) \in Bytes(10) /\ Cat(Magic, Head2(v)) \in Bytes(10)
        /\ KeyField(w.key_id) \in Bytes(65) /\ KeyField(v.key_id) \in Bytes(65)
    BY FieldTypes, RecordIsBytes
  <2>3. QED
    BY <2>1, <2>2, PartsAgree
<1>7. Head2(w) = Head2(v)
  <2>1. /\ Magic \in Bytes(8) /\ Magic \in Bytes(8)
        /\ Head2(w) \in Bytes(2) /\ Head2(v) \in Bytes(2)
    BY FieldTypes, RecordIsBytes
  <2>2. QED
    BY <1>6, <2>1, PartsAgree
<1>8. w.operation = v.operation
  BY <1>7 DEF Head2
<1>9. w.new_state = v.new_state /\ w.peer_state = v.peer_state
  BY <1>3, <1>5, SingleInjective
<1>10. /\ w.seq = v.seq /\ w.peer_shard_id = v.peer_shard_id
       /\ w.peer_updated_at = v.peer_updated_at
  <2>1. /\ w.seq \in Nat /\ v.seq \in Nat /\ Fits64(w.seq) /\ Fits64(v.seq)
        /\ w.peer_shard_id \in Nat /\ v.peer_shard_id \in Nat
        /\ Fits32(w.peer_shard_id) /\ Fits32(v.peer_shard_id)
        /\ w.peer_updated_at \in Nat /\ v.peer_updated_at \in Nat
        /\ Fits64(w.peer_updated_at) /\ Fits64(v.peer_updated_at)
    BY DEF RecordFields
  <2>2. QED
    BY <1>1, <1>2, <1>4, <2>1, LE64Injective, LE32Injective
<1>11. KeyKept(w.key_id) = KeyKept(v.key_id)
  <2>1. w.key_id \in Seq(1 .. 255) /\ v.key_id \in Seq(1 .. 255)
    BY FieldTypes
  <2>2. QED
    BY <1>6, <2>1, KeyFieldInjective
<1>12. QED
  BY <1>8, <1>9, <1>10, <1>11

-----------------------------------------------------------------------------
(* What the sum tells *)

Flip(d, e) == [i \in 1 .. Len(d) |-> Xor(d[i], BitsOf(e, i))]
Zeros(n) == [i \in 1 .. n |-> {}]

(* The sum of n zero bytes changes when the bits of e are set. *)
Seen(e, n) == WalCrc32(Flip(Zeros(n), e)) # WalCrc32(Zeros(n))

LEMMA FlipDiffers ==
  ASSUME NEW d \in Seq(ByteBits), NEW e \in SUBSET (0 .. 8 * Len(d) - 1)
  PROVE  /\ Flip(d, e) \in Seq(ByteBits) /\ Len(Flip(d, e)) = Len(d)
         /\ Differ(d, Flip(d, e)) = e
<1> DEFINE n == Len(d)
<1>1. n \in Nat /\ \A i \in 1 .. n : d[i] \in ByteBits
  BY LenProperties
<1> HIDE DEF n
<1>2. ASSUME NEW i \in 1 .. n PROVE BitsOf(e, i) \in ByteBits
  BY <1>1 DEF BitsOf, ByteBits
<1>3. ASSUME NEW i \in 1 .. n PROVE Xor(d[i], BitsOf(e, i)) \in ByteBits
  BY <1>1, <1>2 DEF ByteBits, Xor
<1>4. Flip(d, e) = [i \in 1 .. n |-> Xor(d[i], BitsOf(e, i))]
  BY DEF Flip, n
<1>5. Flip(d, e) \in Seq(ByteBits) /\ Len(Flip(d, e)) = n
  <2> DEFINE g == [i \in 1 .. n |-> Xor(d[i], BitsOf(e, i))]
  <2>1. g \in [1 .. n -> ByteBits]
    BY <1>3
  <2> HIDE DEF g
  <2>2. g \in Seq(ByteBits) /\ Len(g) = n
    BY <1>1, <2>1
  <2>3. QED
    BY <1>4, <2>2 DEF g
<1>6. ASSUME NEW p \in 0 .. 8 * n - 1
      PROVE  p % 8 \in Xor(d[p \div 8 + 1], Flip(d, e)[p \div 8 + 1]) <=> p \in e
  <2> DEFINE i == p \div 8 + 1
             b == p % 8
  <2>1. i \in 1 .. n /\ b \in 0 .. 7 /\ p = 8 * (i - 1) + b
    BY <1>1
  <2> HIDE DEF i, b
  <2>2. Flip(d, e)[i] = Xor(d[i], BitsOf(e, i))
    BY <1>4, <2>1
  <2>3. b \in Xor(d[i], Flip(d, e)[i]) <=> b \in BitsOf(e, i)
    BY <2>2, XorBit
  <2>4. b \in BitsOf(e, i) <=> p \in e
    <3>1. ASSUME p \in e PROVE b \in BitsOf(e, i)
      <4>1. p \in e \cap (8 * (i - 1) .. 8 * i - 1) /\ b = p - 8 * (i - 1)
        BY <2>1, <3>1
      <4>2. QED
        BY <4>1 DEF BitsOf
    <3>2. ASSUME NEW q \in e \cap (8 * (i - 1) .. 8 * i - 1), b = q - 8 * (i - 1) PROVE p = q
      BY <2>1, <3>2
    <3>3. QED
      BY <3>1, <3>2 DEF BitsOf
  <2>5. QED
    BY <2>3, <2>4 DEF i, b
<1>7. QED
  BY <1>5, <1>6 DEF Differ, n

(* So a string is told from another of its length by the sum when they differ    *)
(* in a burst, or in bits that one sum of zero bytes is seen to tell.           *)
LEMMA TellsApart ==
  ASSUME NEW d \in Seq(ByteBits), NEW f \in Seq(ByteBits), Len(d) = Len(f),
         IsBurst(Differ(d, f)) \/ Seen(Differ(d, f), Len(d))
  PROVE  WalCrc32(d) # WalCrc32(f)
<1>1. CASE IsBurst(Differ(d, f))
  BY <1>1, BurstChangesSum
<1>2. CASE Seen(Differ(d, f), Len(d))
  <2> DEFINE z == Zeros(Len(d))
             e == Differ(d, f)
  <2>1. z \in Seq(ByteBits) /\ Len(z) = Len(d)
    BY DEF Zeros, ByteBits
  <2>2. e \in SUBSET (0 .. 8 * Len(z) - 1)
    BY <2>1 DEF Differ
  <2>3. WalCrc32(z) # WalCrc32(Flip(z, e))
    BY <1>2 DEF Seen
  <2> HIDE DEF z, e
  <2>4. Flip(z, e) \in Seq(ByteBits) /\ Len(Flip(z, e)) = Len(z) /\ Differ(z, Flip(z, e)) = e
    BY <2>1, <2>2, FlipDiffers
  <2>5. Differ(d, f) = Differ(z, Flip(z, e))
    BY <2>4 DEF e
  <2>6. WalCrc32(d) = WalCrc32(f) <=> WalCrc32(z) = WalCrc32(Flip(z, e))
    BY <2>1, <2>4, <2>5, DifferenceDecides
  <2>7. QED
    BY <2>3, <2>6
<1>3. QED
  BY <1>1, <1>2

(* An error that is told in a string of n bytes.                             *)
Told(e, n) == e \subseteq 0 .. 8 * n - 1 /\ (IsBurst(e) \/ Seen(e, n))

(* Whatever a record holds, an error within 32 bits in a row changes its sum, and  *)
(* a wider one does exactly when it changes the sum of as many zero bytes           *)
(* (wal_crc32, cbmc_pqc_migration.c:88-98; "Tampering detection",                *)
(* cbmc_pqc_migration_actual.c:310-314).                                        *)
THEOREM ErrorsAreDetected ==
  ASSUME \A d \in Sample : \A e \in Error : Told(e, Len(d))
  PROVE  CodecSpec => []CrcDetects
<1> DEFINE Sealed ==
      /\ done = "sealed" => stored \in Sample /\ sum = WalCrc32(stored)
      /\ done = "spoiled" => \E d \in Sample : \E e \in Error : stored = Flip(d, e) /\ sum = WalCrc32(d)
<1>1. CodecInit => Sealed
  BY DEF CodecInit
<1>2. Sealed /\ [CodecNext]_codecVars => Sealed'
  <2> SUFFICES ASSUME Sealed, [CodecNext]_codecVars PROVE Sealed'
    OBVIOUS
  <2>1. CASE Decode
    BY <2>1 DEF Decode
  <2>2. CASE Seal
    BY <2>2 DEF Seal, Stores
  <2>3. CASE Spoil
    BY <2>3 DEF Spoil, Stores, Flip
  <2>4. CASE LogRecord
    BY <2>4 DEF LogRecord
  <2>5. CASE Replace
    BY <2>5 DEF Replace
  <2>6. CASE UNCHANGED codecVars
    BY <2>6 DEF codecVars
  <2>7. QED
    BY <2>1, <2>2, <2>3, <2>4, <2>5, <2>6 DEF CodecNext
<1>3. Sealed => CrcDetects
  <2> SUFFICES ASSUME NEW d \in Sample, NEW e \in Error PROVE WalCrc32(Flip(d, e)) # WalCrc32(d)
    BY DEF CrcDetects
  <2>1. d \in Seq(ByteBits) /\ e \in SUBSET (0 .. 8 * Len(d) - 1)
        /\ (IsBurst(e) \/ Seen(e, Len(d)))
    BY CodecConstants DEF Told
  <2>2. Flip(d, e) \in Seq(ByteBits) /\ Len(Flip(d, e)) = Len(d) /\ Differ(d, Flip(d, e)) = e
    BY <2>1, FlipDiffers
  <2>3. QED
    BY <2>1, <2>2, TellsApart
<1>4. QED
  BY <1>1, <1>2, <1>3, PTL DEF CodecSpec

-----------------------------------------------------------------------------
LEMMA CoveredType ==
  ASSUME NEW w \in RecordFields
  PROVE  /\ Covered(w) \in Seq(ByteBits) /\ Len(Covered(w)) = CrcDataLength
         /\ Covered(w) = [i \in 1 .. 97 |-> OneBits(WalBytes(w)[i])]
<1>1. Len(WalBytes(w)) = 97 /\ CrcDataLength = 97
  <2>1. WalBytes(w) \in Bytes(97)
    BY RecordIsBytes
  <2>2. Len(WalBytes(w)) = 97
    BY <2>1, Zenon DEF Bytes
  <2>3. CrcDataLength = 97
    BY DEF CrcDataLength, RecordSize, CrcSize
  <2>4. QED
    BY <2>2, <2>3
<1>2. \A b : OneBits(b) \in ByteBits
  BY DEF OneBits, ByteBits
<1>3. Covered(w) = [i \in 1 .. 97 |-> OneBits(WalBytes(w)[i])]
  BY <1>1 DEF Covered
<1>4. Covered(w) \in [1 .. 97 -> ByteBits]
  BY <1>2, <1>3
<1>5. QED
  BY <1>1, <1>3, <1>4

(* A record as far as it can be read back. *)
KeptFields(w) == [w EXCEPT !.key_id = KeyKept(@)]

(* The bytes under the sum agree exactly when the kept fields do. *)
LEMMA CoveredInjective ==
  ASSUME NEW w \in RecordFields, NEW v \in RecordFields
  PROVE  Covered(w) = Covered(v) <=> KeptFields(w) = KeptFields(v)
<1>1. ASSUME Covered(w) = Covered(v) PROVE KeptFields(w) = KeptFields(v)
  <2>1. WalBytes(w) \in Bytes(97) /\ WalBytes(v) \in Bytes(97)
    BY RecordIsBytes
  <2>0. ASSUME NEW s \in Bytes(97) PROVE s \in [1 .. 97 -> Byte]
    <3>1. s \in Seq(Byte) /\ Len(s) = 97
      BY Zenon DEF Bytes
    <3>2. s \in [1 .. Len(s) -> Byte]
      BY <3>1, LenProperties, Zenon
    <3>3. QED
      BY <3>1, <3>2, Zenon
  <2>2. ASSUME NEW i \in 1 .. 97 PROVE WalBytes(w)[i] = WalBytes(v)[i]
    <3>1. WalBytes(w)[i] \in Byte /\ WalBytes(v)[i] \in Byte
      BY <2>1, <2>0
    <3>2. Covered(w)[i] = OneBits(WalBytes(w)[i]) /\ Covered(v)[i] = OneBits(WalBytes(v)[i])
      BY CoveredType
    <3>3. QED
      BY <1>1, <3>1, <3>2, BitsDetermine
  <2>3. WalBytes(w) = WalBytes(v)
    BY <2>1, <2>2, <2>0
  <2>4. QED
    BY <2>3, RecordsGivenBack DEF RecordFields, KeptFields
<1>2. ASSUME KeptFields(w) = KeptFields(v) PROVE Covered(w) = Covered(v)
  <2>1. /\ w.operation = v.operation /\ KeyKept(w.key_id) = KeyKept(v.key_id)
        /\ w.new_state = v.new_state /\ w.seq = v.seq /\ w.peer_state = v.peer_state
        /\ w.peer_shard_id = v.peer_shard_id /\ w.peer_updated_at = v.peer_updated_at
    BY <1>2 DEF RecordFields, KeptFields
  <2>2. WalBytes(w) = WalBytes(v)
    BY <2>1 DEF WalBytes, KeyField
  <2>3. QED
    BY <2>2 DEF Covered
<1>3. QED
  BY <1>1, <1>2

(* The 97 bytes before the sum give back every field of a record but what         *)
(* key_id cannot hold, and two records whose bytes differ within 32 bits in a row,  *)
(* or in bits the sum of 97 zero bytes tells, do not pass under each other's sum    *)
(* (cbmc_pqc_migration_actual.c:237-321).                                        *)
THEOREM RecordsAreTold ==
  ASSUME \A w, v \in Written :
           Covered(w) # Covered(v) => Told(Differ(Covered(w), Covered(v)), CrcDataLength)
  PROVE  CodecSpec => []RecordsTold
<1> DEFINE Logged ==
      /\ done = "logged" =>
           \E w \in Written :
             given = {w} /\ stored = Covered(w) /\ sum = WalCrc32(Covered(w))
      /\ done = "replaced" =>
           \E w, v \in Written :
             given = {w, v} /\ stored = Covered(v) /\ sum = WalCrc32(Covered(w))
<1>1. CodecInit => Logged
  BY DEF CodecInit
<1>2. Logged /\ [CodecNext]_codecVars => Logged'
  <2> SUFFICES ASSUME Logged, [CodecNext]_codecVars PROVE Logged'
    OBVIOUS
  <2>1. CASE Decode
    BY <2>1 DEF Decode
  <2>2. CASE Seal
    BY <2>2 DEF Seal
  <2>3. CASE Spoil
    BY <2>3 DEF Spoil
  <2>4. CASE LogRecord
    BY <2>4 DEF LogRecord, Stores
  <2>5. CASE Replace
    BY <2>5 DEF Replace, Stores
  <2>6. CASE UNCHANGED codecVars
    BY <2>6 DEF codecVars
  <2>7. QED
    BY <2>1, <2>2, <2>3, <2>4, <2>5, <2>6 DEF CodecNext
<1>3. Logged => RecordsTold
  <2> SUFFICES ASSUME Logged, done \in {"logged", "replaced"}
               PROVE  /\ Len(stored) = CrcDataLength
                      /\ WalCrc32(stored) = sum
                           <=> \A w, v \in given : KeptFields(w) = KeptFields(v)
    BY DEF RecordsTold, KeptFields
  <2>1. PICK w \in Written, v \in Written :
          given = {w, v} /\ stored = Covered(v) /\ sum = WalCrc32(Covered(w))
    <3>1. \A w : {w, w} = {w}
      OBVIOUS
    <3>2. QED
      BY <3>1
  <2>2. w \in RecordFields /\ v \in RecordFields
    BY CodecConstants
  <2>3. /\ Covered(w) \in Seq(ByteBits) /\ Len(Covered(w)) = CrcDataLength
        /\ Covered(v) \in Seq(ByteBits) /\ Len(Covered(v)) = CrcDataLength
    BY <2>2, CoveredType
  <2>4. Covered(w) # Covered(v) => WalCrc32(Covered(w)) # WalCrc32(Covered(v))
    BY <2>3, TellsApart DEF Told
  <2>5. Covered(w) = Covered(v) <=> KeptFields(w) = KeptFields(v)
    BY <2>2, CoveredInjective
  <2>6. (\A x, y \in given : KeptFields(x) = KeptFields(y)) <=> KeptFields(w) = KeptFields(v)
    BY <2>1
  <2>7. QED
    BY <2>1, <2>3, <2>4, <2>5, <2>6
<1>4. QED
  BY <1>1, <1>2, <1>3, PTL DEF CodecSpec
=============================================================================
