--------------------------- MODULE KeystoreProofs ---------------------------
(***************************************************************************)
(* Theorems about Keystore, for all keys, strings and relying parties.     *)
(***************************************************************************)
EXTENDS Keystore, LencodeProofs, WellFoundedInduction

(* The credential ids.                                                     *)

LEMMA RandomBytes ==
  \A k \in Keys :
    /\ Random[k].private \in Bytes /\ Len(Random[k].private) <= MaxLen
    /\ Random[k].public \in Bytes /\ Len(Random[k].public) <= MaxLen
    /\ Random[k].seed \in Bytes /\ Len(Random[k].seed) <= MaxLen
    /\ Random[k].nonce \in Bytes /\ Random[k].cipherText \in Bytes
BY RandomAssumption DEF Blobs

LEMMA EncodeOne ==
  ASSUME NEW s \in Bytes, NEW msg \in Bytes, Len(msg) <= MaxLen
  PROVE  /\ s \o Frame(msg) \in Bytes
         /\ Encode([out |-> s, failed |-> FALSE], msg)
              = [out |-> s \o Frame(msg), failed |-> FALSE]
<1>1. Frame(msg) \in Bytes
  BY FrameParts
<1>2. s \o Frame(msg) \in Bytes
  BY <1>1, BytesJoin
<1>3. ~(Len(msg) > MaxLen)
  BY BytesLen, LencodeAssumption
<1> QED BY <1>2, <1>3 DEF Encode

\* What RegisterKey of the TPM returns.
LEMMA TPMHandleFrames ==
  ASSUME NEW k \in Keys
  PROVE  /\ TPMHandle(k) \in Bytes
         /\ TPMHandle(k) = Frame(Random[k].private)
                             \o (Frame(Random[k].public) \o (Frame(Random[k].seed) \o <<>>))
<1> DEFINE a == Random[k].private
           b == Random[k].public
           c == Random[k].seed
<1>1. a \in Bytes /\ Len(a) <= MaxLen /\ b \in Bytes /\ Len(b) <= MaxLen
      /\ c \in Bytes /\ Len(c) <= MaxLen
  BY RandomBytes
<1> HIDE DEF a, b, c
<1>2. <<>> \in Bytes /\ NewEncoder = [out |-> <<>>, failed |-> FALSE]
  BY EmptySeq DEF Bytes, NewEncoder
<1>3. Frame(a) \in Bytes /\ Frame(b) \in Bytes /\ Frame(c) \in Bytes
  BY <1>1, FrameParts
<1>4. <<>> \o Frame(a) = Frame(a) /\ Frame(c) \o <<>> = Frame(c)
  BY <1>3, ConcatEmptySeq DEF Bytes
<1>5. Encode(NewEncoder, a) = [out |-> Frame(a), failed |-> FALSE]
  BY <1>1, <1>2, <1>4, EncodeOne
<1>6. /\ Frame(a) \o Frame(b) \in Bytes
      /\ Encode(Encode(NewEncoder, a), b) = [out |-> Frame(a) \o Frame(b), failed |-> FALSE]
  BY <1>1, <1>3, <1>5, EncodeOne
<1>7. /\ (Frame(a) \o Frame(b)) \o Frame(c) \in Bytes
      /\ Encode(Encode(Encode(NewEncoder, a), b), c)
           = [out |-> (Frame(a) \o Frame(b)) \o Frame(c), failed |-> FALSE]
  BY <1>1, <1>6, EncodeOne
<1>8. TPMHandle(k) = (Frame(a) \o Frame(b)) \o Frame(c)
  BY <1>7 DEF TPMHandle, a, b, c
<1>9. (Frame(a) \o Frame(b)) \o Frame(c) = Frame(a) \o (Frame(b) \o Frame(c))
  BY <1>3, BytesAssoc
<1> QED BY <1>4, <1>7, <1>8, <1>9 DEF a, b, c

LEMMA MemHandleBytes ==
  ASSUME NEW k \in Keys
  PROVE  /\ MemHandle(k) \in Bytes /\ Len(MemHandle(k)) >= NonceSize
         /\ SubSeq(MemHandle(k), 1, NonceSize) = Random[k].nonce
         /\ Drop(MemHandle(k), NonceSize) = Random[k].cipherText
<1>1. Random[k].nonce \in Bytes /\ Random[k].cipherText \in Bytes
  BY RandomBytes
<1>2. Len(Random[k].nonce) = NonceSize /\ NonceSize \in Nat
  BY RandomAssumption
<1>3. Len(Random[k].cipherText) \in Nat
  BY <1>1, BytesLen
<1>4. /\ MemHandle(k) \in Bytes
      /\ Len(MemHandle(k)) = Len(Random[k].nonce) + Len(Random[k].cipherText)
      /\ SubSeq(MemHandle(k), 1, Len(Random[k].nonce)) = Random[k].nonce
      /\ Drop(MemHandle(k), Len(Random[k].nonce)) = Random[k].cipherText
  BY <1>1, BytesJoin DEF MemHandle
<1> QED BY <1>2, <1>3, <1>4

LEMMA DecodeFailed ==
  ASSUME NEW d, d.err # "none" PROVE Decode(d) = d
<1>1. ReadPrefix(d) = d
  BY DEF ReadPrefix
<1> QED BY <1>1 DEF Decode

\* The TPM's SignASN1 reads back from an id what RegisterKey put into it.
LEMMA DecodesOwn ==
  ASSUME NEW k \in Keys
  PROVE  LET blobs == DecodeHandle(TPMHandle(k))
         IN /\ blobs.ok
            /\ blobs.private = Random[k].private
            /\ blobs.public = Random[k].public
            /\ blobs.seed = Random[k].seed
<1> DEFINE a == Random[k].private
           b == Random[k].public
           c == Random[k].seed
           d0 == NewDecoder(TPMHandle(k))
           d1 == Decode(d0)
           d2 == Decode(d1)
           d3 == Decode(d2)
<1>1. a \in Bytes /\ Len(a) <= MaxLen /\ b \in Bytes /\ Len(b) <= MaxLen
      /\ c \in Bytes /\ Len(c) <= MaxLen
  BY RandomBytes
<1>2. /\ TPMHandle(k) \in Bytes
      /\ TPMHandle(k) = Frame(a) \o (Frame(b) \o (Frame(c) \o <<>>))
  BY TPMHandleFrames
<1>3. Ready(d0) /\ d0.rest = TPMHandle(k)
  BY <1>2, NewDecoderReady
<1>4. <<>> \in Bytes
  BY EmptySeq DEF Bytes
<1>5. Frame(b) \in Bytes /\ Frame(c) \in Bytes
  BY <1>1, FrameParts
<1>6. Frame(c) \o <<>> \in Bytes
  BY <1>4, <1>5, BytesJoin
<1>7. Frame(b) \o (Frame(c) \o <<>>) \in Bytes
  BY <1>5, <1>6, BytesJoin
<1> HIDE DEF a, b, c, d0, d1, d2, d3
<1>8. Ready(d1) /\ d1.msg = a /\ d1.rest = Frame(b) \o (Frame(c) \o <<>>)
  <2> DEFINE t == Frame(b) \o (Frame(c) \o <<>>)
  <2>1. t \in Bytes /\ d0.rest = Frame(a) \o t
    BY <1>2, <1>3, <1>7
  <2> HIDE DEF t
  <2>2. Ready(Decode(d0)) /\ Decode(d0).msg = a /\ Decode(d0).rest = t
    BY <1>1, <1>3, <2>1, DecodeFrame
  <2> QED BY <2>2 DEF d1, t
<1>9. Ready(d2) /\ d2.msg = b /\ d2.rest = Frame(c) \o <<>>
  BY <1>1, <1>6, <1>8, DecodeFrame DEF d2
<1>10. Ready(d3) /\ d3.msg = c /\ d3.rest = <<>>
  BY <1>1, <1>4, <1>9, DecodeFrame DEF d3
<1>11. Decode(d3).err = "EOF" /\ d3.err = "none"
  BY <1>10, DecodeEnd DEF Ready
<1>12. DecodeHandle(TPMHandle(k)) = [ok |-> TRUE, private |-> a, public |-> b, seed |-> c]
  BY <1>8, <1>9, <1>10, <1>11 DEF DecodeHandle, d0, d1, d2, d3
<1> QED BY <1>12 DEF a, b, c

\* And it reads three messages from nothing but their frames.
LEMMA DecodesOnlyFrames ==
  ASSUME NEW h \in Bytes, DecodeHandle(h).ok
  PROVE  LET blobs == DecodeHandle(h)
         IN h = Frame(blobs.private) \o (Frame(blobs.public) \o (Frame(blobs.seed) \o <<>>))
<1> DEFINE d0 == NewDecoder(h)
           d1 == Decode(d0)
           d2 == Decode(d1)
           d3 == Decode(d2)
<1>1. d3.err = "none" /\ Decode(d3).err = "EOF"
  BY DEF DecodeHandle
<1>2. DecodeHandle(h).private = d1.msg /\ DecodeHandle(h).public = d2.msg
      /\ DecodeHandle(h).seed = d3.msg
  BY DEF DecodeHandle
<1>3. Ready(d0) /\ d0.rest = h
  BY NewDecoderReady
<1> HIDE DEF d0, d1, d2, d3
<1>4. d2.err = "none"
  BY <1>1, DecodeFailed DEF d3
<1>5. d1.err = "none"
  BY <1>4, DecodeFailed DEF d2
<1>6. Ready(d1) /\ h = Frame(d1.msg) \o d1.rest
  BY <1>3, <1>5, DecodeCanonical DEF d1
<1>7. Ready(d2) /\ d1.rest = Frame(d2.msg) \o d2.rest
  BY <1>4, <1>6, DecodeCanonical DEF d2
<1>8. Ready(d3) /\ d2.rest = Frame(d3.msg) \o d3.rest
  BY <1>1, <1>7, DecodeCanonical DEF d3
<1>9. d3.rest = <<>>
  BY <1>1, <1>8, DecodeEnd
<1> QED BY <1>2, <1>6, <1>7, <1>8, <1>9

-----------------------------------------------------------------------------
(* What is true of the keys that have been made.                           *)

MadeRight ==
  \A k \in Keys : made[k] # None =>
    /\ made[k].by = "tpm" =>
         /\ made[k].handle = TPMHandle(k)
         /\ made[k].under = PrimaryKeyTmpl(Random[k].seed, made[k].rp)
    /\ made[k].by = "memory" =>
         /\ made[k].handle = MemHandle(k)
         /\ \E m \in 0 .. master :
              made[k].under = <<"fido_wrapping_key", <<m>>, made[k].rp>>

\* OnlyItsHandle holds wherever the keys were made as MadeRight says.
LEMMA OpensOnlyItsHandle ==
  ASSUME TypeOK, MadeRight,
         NEW h \in Strings, NEW rp \in RPs, NEW k \in Keys, Opens(h, rp, k)
  PROVE  Current(k) /\ h = made[k].handle /\ rp = made[k].rp
<1>1. h \in Bytes
  BY BoundsAssumption
<1>2. CASE TPMOpens(h, rp, k)
  <2> DEFINE blobs == DecodeHandle(h)
  <2>1. Decoded[h] = blobs
    BY DEF Decoded
  <2>2. /\ backend = "tpm" /\ made[k] # None /\ made[k].by = "tpm"
        /\ blobs.ok /\ blobs.private = Random[k].private /\ blobs.public = Random[k].public
        /\ PrimaryKeyTmpl(blobs.seed, rp) = made[k].under
    BY <1>2, <2>1 DEF TPMOpens, MadeBy
  <2>3. h = Frame(blobs.private) \o (Frame(blobs.public) \o (Frame(blobs.seed) \o <<>>))
    BY <1>1, <2>2, DecodesOnlyFrames
  <2> HIDE DEF blobs
  <2>4. /\ made[k].handle = TPMHandle(k)
        /\ made[k].under = PrimaryKeyTmpl(Random[k].seed, made[k].rp)
    BY <2>2 DEF MadeRight
  <2>5. blobs.seed = Random[k].seed /\ rp = made[k].rp
    BY <2>2, <2>4 DEF PrimaryKeyTmpl
  <2>6. h = made[k].handle
    BY <2>2, <2>3, <2>4, <2>5, TPMHandleFrames
  <2>7. Current(k)
    BY <2>2 DEF Current
  <2> QED BY <2>5, <2>6, <2>7
<1>3. CASE MemOpens(h, rp, k)
  <2>1. /\ backend = "memory" /\ made[k] # None /\ made[k].by = "memory"
        /\ Len(h) >= NonceSize
        /\ SubSeq(h, 1, NonceSize) = Random[k].nonce
        /\ Drop(h, NonceSize) = Random[k].cipherText
        /\ <<"fido_wrapping_key", <<master>>, rp>> = made[k].under
    BY <1>3 DEF MemOpens, MadeBy, Sealed
  <2>2. PICK m \in 0 .. master :
          /\ made[k].handle = MemHandle(k)
          /\ made[k].under = <<"fido_wrapping_key", <<m>>, made[k].rp>>
    BY <2>1 DEF MadeRight
  <2>3. rp = made[k].rp /\ made[k].under[2] = <<master>>
    BY <2>1, <2>2
  <2>4. NonceSize \in 0 .. Len(h)
    BY <1>1, <2>1, BytesLen, RandomAssumption
  <2>5. h = MemHandle(k)
    BY <1>1, <2>1, <2>4, BytesCut DEF MemHandle
  <2>6. Current(k)
    BY <2>1, <2>3 DEF Current
  <2> QED BY <2>2, <2>3, <2>5, <2>6
<1> QED BY <1>2, <1>3 DEF Opens

\* And so does HandlesLast.
LEMMA OwnHandleOpens ==
  ASSUME TypeOK, MadeRight, NEW k \in Keys, Current(k), made[k].handle \in Strings
  PROVE  Opens(made[k].handle, made[k].rp, k)
<1>1. made[k] # None /\ made[k].by = backend /\ made[k] \in MadeKey
  BY DEF Current, TypeOK
<1>2. CASE backend = "tpm"
  <2>1. /\ made[k].handle = TPMHandle(k)
        /\ made[k].under = PrimaryKeyTmpl(Random[k].seed, made[k].rp)
    BY <1>1, <1>2 DEF MadeRight
  <2> DEFINE blobs == DecodeHandle(TPMHandle(k))
  <2>2. Decoded[made[k].handle] = blobs
    BY <2>1 DEF Decoded
  <2>3. blobs.ok /\ blobs.private = Random[k].private /\ blobs.public = Random[k].public
        /\ blobs.seed = Random[k].seed
    BY DecodesOwn
  <2> HIDE DEF blobs
  <2>4. TPMOpens(made[k].handle, made[k].rp, k)
    BY <1>1, <1>2, <2>1, <2>2, <2>3 DEF TPMOpens, MadeBy
  <2> QED BY <2>4 DEF Opens
<1>3. CASE backend = "memory"
  <2>1. made[k].handle = MemHandle(k)
    BY <1>1, <1>3 DEF MadeRight
  <2>2. PICK m \in 0 .. master : made[k].under = <<"fido_wrapping_key", <<m>>, made[k].rp>>
    BY <1>1, <1>3 DEF MadeRight
  <2>3. made[k].under[2] = <<master>>
    BY <1>1, <1>3 DEF Current
  <2>4. <<m>> = <<master>>
    BY <2>2, <2>3
  <2>5. Sealed(made[k].rp) = made[k].under
    BY <2>2, <2>4 DEF Sealed
  <2>6. MemOpens(made[k].handle, made[k].rp, k)
    BY <1>1, <1>3, <2>1, <2>5, MemHandleBytes DEF MemOpens, MadeBy
  <2> QED BY <2>6 DEF Opens
<1> QED BY <1>1, <1>2, <1>3 DEF MadeKey

-----------------------------------------------------------------------------
(* The bytes that a key signs, and what a relying party reads from them.   *)

LEMMA FunctionSeq ==
  ASSUME NEW S, NEW n \in Nat, NEW x \in [1 .. n -> S]
  PROVE  x \in Seq(S) /\ Len(x) = n /\ \A i \in 1 .. n : x[i] \in S
<1>1. \A i \in 1 .. n : x[i] \in S
  OBVIOUS
<1>2. [i \in 1 .. n |-> x[i]] \in Seq(S) /\ Len([i \in 1 .. n |-> x[i]]) = n
  BY <1>1
<1>3. x = [i \in 1 .. n |-> x[i]]
  OBVIOUS
<1> QED BY <1>1, <1>2, <1>3

LEMMA WordBytes ==
  ASSUME NEW n \in Nat, NEW x \in [1 .. n -> 0 .. 255]
  PROVE  x \in Seq(Nat) /\ Len(x) = n /\ \A i \in 1 .. n : x[i] \in Nat
<1> DEFINE S == 0 .. 255
<1>1. S \subseteq Nat
  OBVIOUS
<1> HIDE DEF S
<1>2. x \in Seq(S) /\ Len(x) = n /\ \A i \in 1 .. n : x[i] \in S
  BY FunctionSeq DEF S
<1> QED BY <1>1, <1>2, SeqMonotonic

LEMMA Zeros ==
  ASSUME NEW S, 0 \in S, NEW n \in Nat
  PROVE  /\ [i \in 1 .. n |-> 0] \in Seq(S) /\ Len([i \in 1 .. n |-> 0]) = n
         /\ \A i \in 1 .. n : [j \in 1 .. n |-> 0][i] = 0
OBVIOUS

LEMMA FirstNonZero ==
  ASSUME NEW x, Len(x) = 32
  PROVE  \E n \in 1 .. Len(x) + 1 :
           (\A i \in 1 .. n - 1 : x[i] = 0) /\ (n <= Len(x) => x[n] # 0)
<1> DEFINE T == {n \in 1 .. 33 : n <= 32 => x[n] # 0}
<1>1. T \subseteq Nat /\ T # {}
  <2>1. 33 \in T
    OBVIOUS
  <2> QED BY <2>1
<1>2. PICK n \in T : \A m \in T : ~(<<m, n>> \in OpToRel(<, Nat))
  BY <1>1, WFMin, NatLessThanWellFounded
<1>3. \A m \in T : ~(m < n)
  BY <1>1, <1>2 DEF OpToRel
<1>4. \A i \in 1 .. n - 1 : x[i] = 0
  BY <1>3
<1> QED BY <1>4

\* What is cut off is put back.
LEMMA Padding ==
  ASSUME NEW S, 0 \in S, NEW x \in Seq(S), Len(x) = 32,
         NEW n \in 1 .. 33, \A i \in 1 .. n - 1 : x[i] = 0
  PROVE  PadTo32(SubSeq(x, n, 32)) = x
<1> DEFINE b == SubSeq(x, n, 32)
<1>1. /\ b \in Seq(S) /\ Len(b) = 33 - n
      /\ \A i \in 1 .. 33 - n : b[i] = x[n + i - 1]
  <2>1. \A i \in n .. 32 : x[i] \in S
    <3>1. n \in Nat /\ 32 \in Nat /\ 1 <= n /\ 32 <= Len(x)
      OBVIOUS
    <3> QED BY <3>1, Element
  <2>2. /\ b \in Seq(S)
        /\ Len(b) = IF n <= 32 THEN 32 - n + 1 ELSE 0
        /\ \A i \in 1 .. 32 - n + 1 : b[i] = x[n + i - 1]
    BY <2>1, SubSeqProperties
  <2> QED BY <2>2
<1>2. CASE n = 1
  <2>1. b = x
    BY <1>2, SubSeqFull
  <2>2. PadTo32(x) = SubSeq(x, 1, 32)
    BY DEF PadTo32
  <2> HIDE DEF b
  <2>3. PadTo32(b) = x
    BY <2>1, <2>2, SubSeqFull
  <2> QED BY <2>3 DEF b
<1>3. CASE n > 1
  <2> DEFINE z == [i \in 1 .. n - 1 |-> 0]
  <2>1. n - 1 \in Nat
    BY <1>3
  <2>2. z \in Seq(S) /\ Len(z) = n - 1 /\ \A i \in 1 .. n - 1 : z[i] = 0
    BY <2>1, Zeros
  <2> HIDE DEF b
  <2>3. PadTo32(b) = z \o b
    <3>1. ~(Len(b) >= 32) /\ 32 - Len(b) = n - 1
      BY <1>1, <1>3
    <3> QED BY <3>1 DEF PadTo32
  <2> HIDE DEF z
  <2>4. /\ z \o b \in Seq(S) /\ Len(z \o b) = Len(z) + Len(b)
        /\ \A i \in 1 .. Len(z) + Len(b) :
             (z \o b)[i] = IF i <= Len(z) THEN z[i] ELSE b[i - Len(z)]
    BY <1>1, <2>2, ConcatProperties, ZenonT(60)
  <2>5. Len(z) + Len(b) = 32
    BY <1>1, <2>2
  <2>6. \A i \in 1 .. 32 : (z \o b)[i] = x[i]
    <3> SUFFICES ASSUME NEW i \in 1 .. 32 PROVE (z \o b)[i] = x[i]
      OBVIOUS
    <3>0. (z \o b)[i] = IF i <= n - 1 THEN z[i] ELSE b[i - (n - 1)]
      BY <2>2, <2>4, <2>5
    <3>1. CASE i <= n - 1
      <4>1. i \in 1 .. n - 1
        BY <3>1
      <4> QED BY <2>2, <3>0, <3>1, <4>1
    <3>2. CASE i > n - 1
      <4>1. i - (n - 1) \in 1 .. 33 - n /\ n + (i - (n - 1)) - 1 = i
        BY <3>2
      <4>2. b[i - (n - 1)] = x[i]
        BY <1>1, <4>1
      <4> QED BY <3>0, <3>2, <4>2
    <3>3. i <= n - 1 \/ i > n - 1
      OBVIOUS
    <3> QED BY <3>1, <3>2, <3>3
  <2>7. z \o b = x
    BY <2>4, <2>5, <2>6, SeqEqual, ZenonT(60)
  <2> QED BY <2>3, <2>7 DEF b
<1> QED BY <1>2, <1>3

\* PadTo32 puts back what big.Int.Bytes leaves out of a coordinate, however
\* many leading zeros that is: the COSE key holds the 32 bytes of each.
THEOREM CoordinatePadded ==
  ASSUME NEW x \in Word
  PROVE  PadTo32(BigIntBytes(x)) = x
<1>1. x \in Seq(Nat) /\ Len(x) = 32
  BY WordBytes DEF Word
<1>2. PICK n \in 1 .. 33 :
        (\A i \in 1 .. n - 1 : x[i] = 0) /\ BigIntBytes(x) = SubSeq(x, n, 32)
  <2> DEFINE P(n) == (\A i \in 1 .. n - 1 : x[i] = 0) /\ (n <= Len(x) => x[n] # 0)
  <2>1. \E n \in 1 .. Len(x) + 1 : P(n)
    BY <1>1, FirstNonZero
  <2> DEFINE f == CHOOSE n \in 1 .. Len(x) + 1 : P(n)
  <2> HIDE DEF P
  <2>2. f \in 1 .. Len(x) + 1 /\ P(f)
    BY <2>1
  <2>3. BigIntBytes(x) = SubSeq(x, f, Len(x))
    BY DEF BigIntBytes, P
  <2>4. \A i \in 1 .. f - 1 : x[i] = 0
    BY <2>2 DEF P
  <2> HIDE DEF f
  <2>5. f \in 1 .. 33 /\ BigIntBytes(x) = SubSeq(x, f, 32)
    BY <1>1, <2>2, <2>3
  <2> QED BY <2>4, <2>5
<1> QED BY <1>1, <1>2, Padding

LEMMA Uint16Reads ==
  ASSUME NEW n \in Nat, n < 65536
  PROVE  /\ Uint16(n) \in Octets /\ Len(Uint16(n)) = 2
         /\ Uint16(n)[1] * 256 + Uint16(n)[2] = n
<1> DEFINE a == (n \div 256) % 256
           b == n % 256
<1>1. a \in Nat /\ b \in Nat /\ a * 256 + b = n
  OBVIOUS
<1> HIDE DEF a, b
<1>2. Uint16(n) = <<a, b>>
  BY DEF Uint16, a, b
<1> QED BY <1>1, <1>2 DEF Octets

LEMMA Remainder ==
  ASSUME NEW n \in Nat
  PROVE  \E q, r \in Nat : q = n \div 256 /\ r = n % 256 /\ n = q * 256 + r
<1> DEFINE q == n \div 256
           r == n % 256
<1>1. q \in Nat
  BY SMT
<1>2. r \in 0 .. 255
  BY SMT
<1>3. r = n - q * 256
  BY SMT
<1>4. q = n \div 256 /\ r = n % 256
  OBVIOUS
<1> HIDE DEF q, r
<1>5. r \in Nat /\ n = q * 256 + r
  BY <1>1, <1>2, <1>3
<1> QED BY <1>1, <1>4, <1>5

LEMMA Quotient ==
  ASSUME NEW n \in Nat
  PROVE  (n \div 256) \div 256 = n \div 65536
BY SMT

LEMMA Uint32Sum ==
  ASSUME NEW n \in Nat
  PROVE  \E q, r, t \in Nat :
           /\ q = n \div 65536 /\ r = (n \div 256) % 256 /\ t = n % 256
           /\ (q * 256 + r) * 256 + t = n
<1>1. PICK m, t \in Nat : m = n \div 256 /\ t = n % 256 /\ n = m * 256 + t
  BY Remainder
<1>2. PICK q, r \in Nat : q = m \div 256 /\ r = m % 256 /\ m = q * 256 + r
  BY <1>1, Remainder
<1>3. q = n \div 65536 /\ r = (n \div 256) % 256
  BY <1>1, <1>2, Quotient
<1>4. (q * 256 + r) * 256 + t = n
  <2>1. m = q * 256 + r /\ n = m * 256 + t
    BY <1>1, <1>2
  <2> QED BY <2>1
<1> QED BY <1>1, <1>3, <1>4

LEMMA Pairs ==
  ASSUME NEW a \in Octets, NEW b \in Octets, Len(a) = 2, Len(b) = 2
  PROVE  /\ a \o b \in Octets /\ Len(a \o b) = 4
         /\ (a \o b)[1] = a[1] /\ (a \o b)[2] = a[2]
         /\ (a \o b)[3] = b[1] /\ (a \o b)[4] = b[2]
<1> DEFINE u == a \o b
           m == Len(a)
           n == Len(b)
<1>1. /\ u \in Octets /\ Len(u) = m + n
      /\ \A i \in 1 .. m : u[i] = a[i]
      /\ \A i \in 1 .. n : u[m + i] = b[i]
  BY OctetsJoin, Joined
<1>2. m = 2 /\ n = 2
  OBVIOUS
<1> HIDE DEF u, m, n
<1> QED BY <1>1, <1>2 DEF u

\* A number that 32 bits tell.
Small(n) == n \in Nat /\ n \div 65536 < 65536

LEMMA Uint32Reads ==
  ASSUME NEW n, Small(n)
  PROVE  /\ Uint32(n) \in Octets /\ Len(Uint32(n)) = 4
         /\ ((Uint32(n)[1] * 256 + Uint32(n)[2]) * 256 + Uint32(n)[3]) * 256
              + Uint32(n)[4] = n
<1> DEFINE a == Uint16(n \div 65536)
           b == Uint16(n)
           u == a \o b
<1>1. PICK q, r, t \in Nat :
        /\ q = n \div 65536 /\ r = (n \div 256) % 256 /\ t = n % 256
        /\ (q * 256 + r) * 256 + t = n
  BY Uint32Sum DEF Small
<1>2. a \in Octets /\ Len(a) = 2 /\ a[1] * 256 + a[2] = q
  BY <1>1, Uint16Reads DEF Small
<1>3. b \in Octets /\ Len(b) = 2 /\ b[1] = r /\ b[2] = t
  <2>1. b = <<r, t>>
    BY <1>1 DEF Uint16
  <2> QED BY <2>1 DEF Octets
<1>4. (q * 256 + r) * 256 + t = n
  BY <1>1
<1>5. Uint32(n) = u
  BY DEF Uint32
<1> HIDE DEF a, b
<1>6. u \in Octets /\ Len(u) = 4
      /\ u[1] = a[1] /\ u[2] = a[2] /\ u[3] = b[1] /\ u[4] = b[2]
  <2>1. a \in Octets /\ b \in Octets /\ Len(a) = 2 /\ Len(b) = 2
    BY <1>2, <1>3
  <2> QED BY <2>1, Pairs
<1> HIDE DEF u
<1>7. u[1] * 256 + u[2] = q
  BY <1>2, <1>6
<1>8. u[3] = r /\ u[4] = t
  BY <1>3, <1>6
<1>9. ((u[1] * 256 + u[2]) * 256 + u[3]) * 256 + u[4] = n
  BY <1>4, <1>7, <1>8
<1> QED BY <1>5, <1>6, <1>9

LEMMA WordOctets ==
  ASSUME NEW x \in Word PROVE x \in Octets /\ Len(x) = 32
BY WordBytes DEF Word, Octets

\* What is constant in a COSE key.
KeyHead == <<165, 1, 2, 3, 38, 32, 1, 33>>

KeyMiddle == <<34>>

StringHead == <<88, 32>>

LEMMA Heads ==
  /\ KeyHead \in Octets /\ Len(KeyHead) = 8
  /\ KeyMiddle \in Octets /\ Len(KeyMiddle) = 1
  /\ StringHead \in Octets /\ Len(StringHead) = 2
BY DEF KeyHead, KeyMiddle, StringHead, Octets

LEMMA KeyParts ==
  ASSUME NEW x \in Word, NEW y \in Word, NEW h \in Octets
  PROVE  /\ BuildCOSEPublicKeyES256(x, y) \in Octets
         /\ BuildCOSEPublicKeyES256(x, y) ++ h
              = KeyHead ++ (StringHead ++ (x ++ (KeyMiddle ++ (StringHead ++ (y ++ h)))))
<1> DEFINE p == StringHead ++ x
           q == StringHead ++ y
           t == KeyMiddle ++ (q ++ h)
<1>1. x \in Octets /\ Len(x) = 32 /\ y \in Octets /\ Len(y) = 32
  BY WordOctets
<1>2. ByteString(PadTo32(BigIntBytes(x))) = p /\ ByteString(PadTo32(BigIntBytes(y))) = q
  <2>1. \A z : Len(z) = 32 => ByteString(z) = StringHead ++ z
    BY DEF ByteString, StringHead, ++
  <2>2. PadTo32(BigIntBytes(x)) = x /\ PadTo32(BigIntBytes(y)) = y
    BY CoordinatePadded
  <2>3. ByteString(x) = p /\ ByteString(y) = q
    BY <1>1, <2>1
  <2> QED BY <2>2, <2>3
<1>3. p \in Octets /\ q \in Octets /\ t \in Octets
  BY <1>1, Heads, CatIn
<1>4. q ++ h = StringHead ++ (y ++ h)
  BY <1>1, Heads, CatAssoc
<1>5. p ++ t = StringHead ++ (x ++ t)
  BY <1>1, <1>3, Heads, CatAssoc
<1> HIDE DEF p, q
<1>6. BuildCOSEPublicKeyES256(x, y) = ((KeyHead ++ p) ++ KeyMiddle) ++ q
  BY <1>2 DEF BuildCOSEPublicKeyES256, KeyHead, KeyMiddle, ++
<1>7. ((KeyHead ++ p) ++ KeyMiddle) ++ q \in Octets
  BY <1>3, Heads, Regroup4
<1>8. (((KeyHead ++ p) ++ KeyMiddle) ++ q) ++ h = KeyHead ++ (p ++ (KeyMiddle ++ (q ++ h)))
  BY <1>3, Heads, Regroup5
<1> QED BY <1>4, <1>5, <1>6, <1>7, <1>8

\* The flags' bits.
LEMMA Flags ==
  /\ FlagUserPresent + FlagUserVerified + FlagAttestedCredData = 69
  /\ FlagUserPresent + FlagUserVerified = 5
  /\ Has(69, FlagAttestedCredData) /\ ~Has(69, FlagExtensionData)
  /\ ~Has(5, FlagAttestedCredData) /\ ~Has(5, FlagExtensionData)
BY DEF FlagUserPresent, FlagUserVerified, FlagAttestedCredData, FlagExtensionData, Has

LEMMA AttestationParts ==
  ASSUME NEW rp \in Word, NEW n, Small(n),
         NEW id \in Octets, Len(id) < 65536, NEW pk \in Octets, NEW h \in Octets
  PROVE  /\ <<69>> \in Octets /\ Uint32(n) \in Octets /\ AAGUID \in Octets
         /\ Uint16(Len(id)) \in Octets
         /\ ToSign(Attestation(rp, n, id, pk), h)
              = rp ++ (<<69>> ++ (Uint32(n) ++
                  (AAGUID ++ (Uint16(Len(id)) ++ (id ++ (pk ++ h))))))
<1> DEFINE f == <<69>>
           u == Uint32(n)
           l == Uint16(Len(id))
           v == ((AAGUID ++ l) ++ id) ++ pk
           w == (rp ++ f) ++ u
           t == v ++ h
<1>1. rp \in Octets /\ f \in Octets /\ u \in Octets /\ AAGUID \in Octets /\ l \in Octets
  <2>1. AAGUID \in Octets
    <3>1. AAGUID \in [1 .. 16 -> 0 .. 255] /\ 16 \in Nat
      BY AAGUIDAssumption
    <3>2. AAGUID \in Seq(Nat)
      BY ONLY <3>1, WordBytes
    <3> QED BY <3>2 DEF Octets
  <2>2. l \in Octets
    BY OctetsLen, Uint16Reads
  <2>3. u \in Octets
    BY Uint32Reads
  <2>4. f \in Octets
    BY DEF Octets
  <2> QED BY <2>1, <2>2, <2>3, <2>4, WordOctets
<1> DEFINE ad == Attestation(rp, n, id, pk)
           acd == [aaguid |-> AAGUID, credentialID |-> id, credentialPublicKey |-> pk]
<1>2. ad.rpIDHash = rp /\ ad.flags = 69 /\ ad.signCount = n /\ ad.acd = acd
  BY Flags DEF Attestation
<1>3. acd # None
  BY AAGUIDAssumption DEF Octets
<1>4. acd.aaguid = AAGUID /\ acd.credentialID = id /\ acd.credentialPublicKey = pk
  OBVIOUS
<1> HIDE DEF ad, acd
<1>5. Marshal(ad) = (w ++ v) ++ <<>>
  <2>1. Has(ad.flags, FlagAttestedCredData) /\ ~Has(ad.flags, FlagExtensionData)
    BY <1>2, Flags
  <2> QED BY <1>2, <1>3, <1>4, <2>1 DEF Marshal, ++
<1> HIDE DEF f, u, l
<1>6. v \in Octets /\ w \in Octets /\ t \in Octets /\ w ++ v \in Octets
  BY <1>1, CatIn
<1>7. t = AAGUID ++ (l ++ (id ++ (pk ++ h)))
  BY <1>1, Regroup5
<1> HIDE DEF v, t
<1>8. w ++ t = rp ++ (f ++ (u ++ t))
  BY <1>1, <1>6, Regroup4
<1> HIDE DEF w
<1>9. ToSign(ad, h) = (w ++ v) ++ h
  <2>1. (w ++ v) ++ <<>> = w ++ v
    BY <1>6, ConcatEmptySeq DEF Octets, ++
  <2> QED BY <1>5, <2>1 DEF ToSign, ++
<1>10. (w ++ v) ++ h = w ++ t
  BY <1>6, CatAssoc DEF t
<1> QED BY <1>1, <1>7, <1>8, <1>9, <1>10 DEF ad, f, u, l

LEMMA AssertionParts ==
  ASSUME NEW rp \in Word, NEW n, Small(n), NEW h \in Octets
  PROVE  /\ <<5>> \in Octets /\ Uint32(n) \in Octets
         /\ ToSign(Assertion(rp, n), h) = rp ++ (<<5>> ++ (Uint32(n) ++ h))
<1> DEFINE f == <<5>>
           u == Uint32(n)
           w == (rp ++ f) ++ u
           ad == Assertion(rp, n)
<1>1. rp \in Octets /\ f \in Octets /\ u \in Octets
  <2>1. u \in Octets
    BY Uint32Reads
  <2>2. f \in Octets
    BY DEF Octets
  <2> QED BY <2>1, <2>2, WordOctets
<1>2. ad.rpIDHash = rp /\ ad.flags = 5 /\ ad.signCount = n
  BY Flags DEF Assertion
<1> HIDE DEF ad
<1>3. Marshal(ad) = (w ++ <<>>) ++ <<>>
  <2>1. ~Has(ad.flags, FlagAttestedCredData) /\ ~Has(ad.flags, FlagExtensionData)
    BY <1>2, Flags
  <2> QED BY <1>2, <2>1 DEF Marshal, ++
<1> HIDE DEF f, u
<1>4. w \in Octets /\ w ++ h = rp ++ (f ++ (u ++ h))
  BY <1>1, CatIn, Regroup4
<1> HIDE DEF w
<1>5. w ++ <<>> = w
  BY <1>4, ConcatEmptySeq DEF Octets, ++
<1>6. ToSign(ad, h) = w ++ h
  BY <1>3, <1>5 DEF ToSign, ++
<1> QED BY <1>1, <1>4, <1>6 DEF ad, f, u

\* From the bytes that an assertion's signature covers a relying party reads
\* what they were made from, and no credential.
THEOREM AssertionReads ==
  ASSUME NEW rp \in Word, NEW n, Small(n), NEW h \in Word
  PROVE  Read(ToSign(Assertion(rp, n), h)) = Reading(rp, 5, n, None, None, None, h)
<1> DEFINE f == <<5>>
           u == Uint32(n)
           t1 == u ++ h
           t2 == f ++ t1
           s == rp ++ t2
<1>1. /\ rp \in Octets /\ Len(rp) = 32 /\ h \in Octets
      /\ f \in Octets /\ Len(f) = 1 /\ f[1] = 5
      /\ u \in Octets /\ Len(u) = 4
  BY WordOctets, AssertionParts, Uint32Reads
<1>2. ((u[1] * 256 + u[2]) * 256 + u[3]) * 256 + u[4] = n
  BY Uint32Reads
<1>3. ToSign(Assertion(rp, n), h) = s
  BY <1>1, AssertionParts
<1> HIDE DEF f, u
<1>4. t1 \in Octets /\ t2 \in Octets /\ s \in Octets
  BY <1>1, CatIn
<1> HIDE DEF t1, t2, s
<1>5. Stands(s, 0, rp ++ t2)
  BY <1>4, ReadFrom DEF s
<1>6. Stands(s, 32, f ++ t1) /\ SubSeq(s, 1, 32) = rp
  <2>1. Stands(s, Len(rp), t2) /\ SubSeq(s, 1, Len(rp)) = rp
    BY <1>1, <1>4, <1>5, FirstStands
  <2> QED BY <1>1, <2>1 DEF t2
<1>7. Stands(s, 33, u ++ h) /\ s[33] = 5
  <2>1. Stands(s, 32 + 1, t1) /\ s[32 + 1] = f[1]
    BY <1>1, <1>4, <1>6, OneStands
  <2> QED BY <1>1, <2>1 DEF t1
<1>8. /\ Stands(s, 37, h)
      /\ s[34] = u[1] /\ s[35] = u[2] /\ s[36] = u[3] /\ s[37] = u[4]
  <2>1. Stands(s, 33 + Len(u), h)
    BY <1>1, <1>4, <1>7, NextStands
  <2>3. \A i \in 1 .. Len(u) : s[33 + i] = u[i]
    BY <1>1, <1>4, <1>7, NextElements, SMTT(20)
  <2>2. s[33 + 1] = u[1] /\ s[33 + 2] = u[2] /\ s[33 + 3] = u[3] /\ s[33 + 4] = u[4]
    BY <1>1, <2>3
  <2> QED BY <1>1, <2>1, <2>2
<1>11. s[33] = 5
  BY <1>7
<1>13. ((s[34] * 256 + s[35]) * 256 + s[36]) * 256 + s[37] = n
  BY <1>2, <1>8
<1>14. SubSeq(s, 1, 32) = rp /\ SubSeq(s, 38, Len(s)) = h
  BY <1>6, <1>8 DEF Drop, Stands
<1>15. Read(s) = Reading(SubSeq(s, 1, 32), s[33], n, None, None, None, SubSeq(s, 38, Len(s)))
  BY <1>11, <1>13, Flags DEF Read
<1> QED BY <1>3, <1>11, <1>14, <1>15

\* Behind the id: the coordinates and the client data hash.
LEMMA KeyReads ==
  ASSUME NEW s \in Octets, NEW key \in Nat, NEW x \in Word, NEW y \in Word, NEW h \in Octets,
         Stands(s, key, BuildCOSEPublicKeyES256(x, y) ++ h)
  PROVE  /\ SubSeq(s, key + 11, key + 42) = x
         /\ SubSeq(s, key + 46, key + 77) = y
         /\ SubSeq(s, key + 78, Len(s)) = h
<1> DEFINE r5 == y ++ h
           r4 == StringHead ++ r5
           r3 == KeyMiddle ++ r4
           r2 == x ++ r3
           r1 == StringHead ++ r2
           k1 == key + 8
           k2 == key + 10
           k3 == key + 42
           k4 == key + 43
           k5 == key + 45
           k6 == key + 77
<1>1. x \in Octets /\ y \in Octets /\ s \in Octets /\ h \in Octets /\ StringHead \in Octets
      /\ KeyHead \in Octets /\ KeyMiddle \in Octets /\ key \in Nat
  BY WordOctets, Heads
<1>2. r5 \in Octets /\ r4 \in Octets /\ r3 \in Octets /\ r2 \in Octets /\ r1 \in Octets
  BY <1>1, CatIn
<1>3. /\ k1 \in Nat /\ k2 \in Nat /\ k3 \in Nat /\ k4 \in Nat /\ k5 \in Nat /\ k6 \in Nat
      /\ key + Len(KeyHead) = k1 /\ k1 + Len(StringHead) = k2 /\ k2 + Len(x) = k3
      /\ k3 + Len(KeyMiddle) = k4 /\ k4 + Len(StringHead) = k5 /\ k5 + Len(y) = k6
  <2>1. /\ Len(KeyHead) = 8 /\ Len(StringHead) = 2 /\ Len(KeyMiddle) = 1
        /\ Len(x) = 32 /\ Len(y) = 32
    BY WordOctets, Heads
  <2> QED BY ONLY <1>1, <2>1 DEF k1, k2, k3, k4, k5, k6
<1>4. k2 + 1 = key + 11 /\ k5 + 1 = key + 46 /\ k6 + 1 = key + 78
  OBVIOUS
<1>5. Stands(s, key, KeyHead ++ r1)
  BY KeyParts
<1> HIDE DEF r5, r4, r3, r2, r1, k1, k2, k3, k4, k5, k6
<1>6. Stands(s, k1, StringHead ++ r2)
  BY ONLY <1>1, <1>2, <1>3, <1>5, StepBy, Zenon DEF r1
<1>7. Stands(s, k2, x ++ r3)
  BY ONLY <1>1, <1>2, <1>3, <1>6, StepBy, Zenon DEF r2
<1>8. Stands(s, k3, KeyMiddle ++ r4) /\ SubSeq(s, k2 + 1, k3) = x
  <2>1. Stands(s, k3, r3) /\ SubSeq(s, k2 + 1, k3) = x
    <3>1. /\ s \in Octets /\ x \in Octets /\ r3 \in Octets /\ k2 \in Nat /\ k3 \in Nat
          /\ Stands(s, k2, x ++ r3) /\ k2 + Len(x) = k3
      BY ONLY <1>1, <1>2, <1>3, <1>7
    <3> QED BY ONLY <3>1, StepOn, SMT
  <2> QED BY ONLY <2>1 DEF r3
<1>9. Stands(s, k4, StringHead ++ r5)
  BY ONLY <1>1, <1>2, <1>3, <1>8, StepBy, Zenon DEF r4
<1>10. Stands(s, k5, y ++ h)
  BY ONLY <1>1, <1>2, <1>3, <1>9, StepBy, Zenon DEF r5
<1>11. Stands(s, k6, h) /\ SubSeq(s, k5 + 1, k6) = y
  <2>1. /\ s \in Octets /\ y \in Octets /\ h \in Octets /\ k5 \in Nat /\ k6 \in Nat
        /\ Stands(s, k5, y ++ h) /\ k5 + Len(y) = k6
    BY ONLY <1>1, <1>3, <1>10
  <2> QED BY ONLY <2>1, StepOn, SMT
<1>12. SubSeq(s, k6 + 1, Len(s)) = h
  BY ONLY <1>11 DEF Stands, Drop
<1> QED BY ONLY <1>4, <1>8, <1>11, <1>12, Zenon DEF k3, k6

\* And from an attestation's also the id and the point of the key, for every
\* length of an id, every counter and every coordinate.
THEOREM AttestationReads ==
  ASSUME NEW rp \in Word, NEW n, Small(n), NEW id \in Octets, Len(id) < 65536,
         NEW x \in Word, NEW y \in Word, NEW h \in Word
  PROVE  Read(ToSign(Attestation(rp, n, id, BuildCOSEPublicKeyES256(x, y)), h))
           = Reading(rp, 69, n, id, x, y, h)
<1> DEFINE f == <<69>>
           u == Uint32(n)
           l == Uint16(Len(id))
           pk == BuildCOSEPublicKeyES256(x, y)
           r6 == pk ++ h
           r5 == id ++ r6
           r4 == l ++ r5
           r3 == AAGUID ++ r4
           r2 == u ++ r3
           r1 == f ++ r2
           s == rp ++ r1
           key == 55 + Len(id)
<1>1. f \in Octets /\ Len(f) = 1 /\ f[1] = 69
  BY DEF Octets
<1>2. u \in Octets /\ Len(u) = 4
  BY Uint32Reads
<1>3. ((u[1] * 256 + u[2]) * 256 + u[3]) * 256 + u[4] = n
  BY Uint32Reads
<1>4. l \in Octets /\ Len(l) = 2 /\ l[1] * 256 + l[2] = Len(id) /\ Len(id) \in Nat
  BY OctetsLen, Uint16Reads
<1>5. AAGUID \in Octets /\ Len(AAGUID) = 16
  <2>1. AAGUID \in [1 .. 16 -> 0 .. 255] /\ 16 \in Nat
    BY AAGUIDAssumption
  <2>2. AAGUID \in Seq(Nat) /\ Len(AAGUID) = 16
    BY ONLY <2>1, WordBytes
  <2> QED BY <2>2 DEF Octets
<1>6. rp \in Octets /\ Len(rp) = 32 /\ h \in Octets
  BY WordOctets
<1>7. pk \in Octets
  BY <1>6, KeyParts
<1>8. ToSign(Attestation(rp, n, id, pk), h) = s
  <2> HIDE DEF pk
  <2> QED BY <1>6, <1>7, AttestationParts
<1>9. key \in Nat /\ 55 + Len(id) = key
  BY <1>4
<1> HIDE DEF f, u, l, pk
<1>10. /\ rp \in Octets /\ f \in Octets /\ u \in Octets /\ AAGUID \in Octets /\ l \in Octets
       /\ id \in Octets /\ h \in Octets /\ pk \in Octets
  BY <1>1, <1>2, <1>4, <1>5, <1>6, <1>7
<1>11. /\ r6 \in Octets /\ r5 \in Octets /\ r4 \in Octets /\ r3 \in Octets
       /\ r2 \in Octets /\ r1 \in Octets /\ s \in Octets
  BY ONLY <1>10, CatIn
<1> HIDE DEF r6, r5, r4, r3, r2, r1, s, key
<1>12. /\ 32 \in Nat /\ 33 \in Nat /\ 37 \in Nat /\ 53 \in Nat /\ 55 \in Nat
       /\ 32 + 1 = 33 /\ 33 + 4 = 37 /\ 37 + 16 = 53 /\ 53 + 2 = 55 /\ 55 + 1 = 56
  OBVIOUS
<1>13. Stands(s, 32, f ++ r2) /\ SubSeq(s, 1, 32) = rp
  <2>1. Stands(s, 0, rp ++ r1)
    BY ONLY <1>11, ReadFrom, Zenon DEF s
  <2>2. Stands(s, Len(rp), r1) /\ SubSeq(s, 1, Len(rp)) = rp
    BY ONLY <1>10, <1>11, <2>1, FirstStands
  <2> QED BY ONLY <1>6, <2>2 DEF r1
<1>14. Stands(s, 33, u ++ r3) /\ s[33] = 69
  <2>1. Stands(s, 32 + 1, r2) /\ s[32 + 1] = f[1]
    BY ONLY <1>1, <1>10, <1>11, <1>12, <1>13, OneStands, SMTT(20)
  <2> QED BY ONLY <1>1, <1>12, <2>1 DEF r2
<1>15. /\ Stands(s, 37, AAGUID ++ r4)
       /\ s[34] = u[1] /\ s[35] = u[2] /\ s[36] = u[3] /\ s[37] = u[4]
  <2>1. /\ Stands(s, 33 + 4, r3)
        /\ s[33 + 1] = u[1] /\ s[33 + 2] = u[2] /\ s[33 + 3] = u[3] /\ s[33 + 4] = u[4]
    BY ONLY <1>2, <1>10, <1>11, <1>12, <1>14, FourStand
  <2> QED BY ONLY <2>1 DEF r3
<1>16. Stands(s, 53, l ++ r5)
  <2>1. Stands(s, 37 + Len(AAGUID), r4)
    BY ONLY <1>10, <1>11, <1>12, <1>15, NextStands
  <2>2. 37 + Len(AAGUID) = 53
    BY ONLY <1>5
  <2> QED BY ONLY <2>1, <2>2 DEF r4
<1>17. Stands(s, 55, id ++ r6) /\ s[54] = l[1] /\ s[55] = l[2]
  <2>1. Len(l) = 2
    BY <1>4
  <2>2. Stands(s, 53 + 2, r5) /\ s[53 + 1] = l[1] /\ s[53 + 2] = l[2]
    BY ONLY <1>10, <1>11, <1>12, <1>16, <2>1, TwoStand
  <2> QED BY ONLY <2>2 DEF r5
<1>18. Stands(s, key, pk ++ h) /\ SubSeq(s, 56, key) = id
  <2>1. Stands(s, 55 + Len(id), r6) /\ SubSeq(s, 55 + 1, 55 + Len(id)) = id
    BY ONLY <1>10, <1>11, <1>12, <1>17, NextStands
  <2> QED BY ONLY <1>9, <1>12, <2>1 DEF r6
<1>19. /\ SubSeq(s, key + 11, key + 42) = x
       /\ SubSeq(s, key + 46, key + 77) = y
       /\ SubSeq(s, key + 78, Len(s)) = h
  <2>1. x \in Word /\ y \in Word /\ Stands(s, key, BuildCOSEPublicKeyES256(x, y) ++ h)
    BY <1>18 DEF pk
  <2> QED BY ONLY <1>9, <1>10, <1>11, <2>1, KeyReads
<1>20. ((s[34] * 256 + s[35]) * 256 + s[36]) * 256 + s[37] = n
  <2>1. s[34] = u[1] /\ s[35] = u[2] /\ s[36] = u[3] /\ s[37] = u[4]
    BY <1>15
  <2> QED BY ONLY <1>3, <2>1, ZenonT(30)
<1>21. 55 + s[54] * 256 + s[55] = key
  <2>1. l[1] \in Nat /\ l[2] \in Nat
    <3>1. l \in Seq(Nat) /\ 1 \in 1 .. Len(l) /\ 2 \in 1 .. Len(l)
      BY <1>4 DEF Octets
    <3> QED BY ONLY <3>1, ElementOfSeq
  <2>2. l[1] * 256 + l[2] = Len(id) /\ Len(id) \in Nat
    BY <1>4
  <2>3. 55 + l[1] * 256 + l[2] = key
    BY ONLY <1>9, <2>1, <2>2
  <2>4. s[54] = l[1] /\ s[55] = l[2]
    BY <1>17
  <2> QED BY ONLY <2>3, <2>4, Zenon
<1>22. Read(s) = Reading(SubSeq(s, 1, 32), s[33], n, SubSeq(s, 56, key),
                         SubSeq(s, key + 11, key + 42), SubSeq(s, key + 46, key + 77),
                         SubSeq(s, key + 78, Len(s)))
  BY ONLY <1>14, <1>20, <1>21, Flags DEF Read
<1>23. Read(s) = Reading(rp, 69, n, id, x, y, h)
  BY ONLY <1>13, <1>14, <1>18, <1>19, <1>22, Zenon
<1> QED BY <1>8, <1>23 DEF pk

-----------------------------------------------------------------------------
(* The inductive invariant.                                                *)

\* What is signed and taken is bounded by the counter of the next operation.
CountersBounded ==
  /\ backend = "none" => \A o \in Ops : taken[o] = None
  /\ made[watched] = None => highest = None
  /\ backend = "memory" =>
       /\ \A o \in Ops : taken[o] # None => taken[o] <= counter
       /\ Current(watched) /\ highest # None => highest <= counter
  /\ clock >= -1 /\ clock <= MaxClock
  /\ ~setBack =>
       /\ backend = "tpm" => \A o \in Ops : taken[o] # None => taken[o] <= Seconds
       /\ made[watched] # None /\ made[watched].by = "tpm" /\ highest # None
            => highest <= Seconds

\* The process uses the only file.
OnlyFile ==
  ~blind /\ backend # "none" => \A p \in Paths : Exists(p) => p = path

\* The counters are uint32.
CountersFit == \A o \in Ops : taken[o] # None => taken[o] < CounterMod

IInv ==
  TypeOK /\ MadeRight /\ CountersBounded /\ CountersFit /\ OnlyFile /\ NothingForgotten

LEMMA SecondsSmall ==
  ASSUME NEW n \in 0 .. MaxClock PROVE n % CounterMod = n
<1>1. CounterMod \in Nat \ {0} /\ MaxClock \in Nat /\ MaxClock < CounterMod
  BY BoundsAssumption
<1> QED BY <1>1

LEMMA CounterSmall ==
  ASSUME NEW n \in Nat, n < MaxCounter PROVE (n + 1) % CounterMod = n + 1
<1>1. CounterMod \in Nat \ {0} /\ MaxCounter \in Nat /\ MaxCounter < CounterMod
  BY BoundsAssumption
<1> QED BY <1>1

\* A record of a key that has been made.
LEMMA KeyMade ==
  ASSUME NEW rp \in RPs, NEW handle \in Bytes, NEW by \in {"tpm", "memory"},
         NEW label \in {"authentik-biometric-application-key-v1", "fido_wrapping_key"},
         NEW s \in Seq(Nat)
  PROVE  /\ Key(rp, handle, by, <<label, s, rp>>) \in MadeKey
         /\ Key(rp, handle, by, <<label, s, rp>>).rp = rp
         /\ Key(rp, handle, by, <<label, s, rp>>).handle = handle
         /\ Key(rp, handle, by, <<label, s, rp>>).by = by
         /\ Key(rp, handle, by, <<label, s, rp>>).under = <<label, s, rp>>
<1>1. <<label, s, rp>>
        \in {"authentik-biometric-application-key-v1", "fido_wrapping_key"} \X Seq(Nat) \X RPs
  OBVIOUS
<1> DEFINE u == <<label, s, rp>>
<1> HIDE DEF u
<1>2. [rp |-> rp, handle |-> handle, by |-> by, under |-> u] \in MadeKey
  BY <1>1 DEF MadeKey, u
<1> QED BY <1>2 DEF Key, u

LEMMA InitInv == Init => IInv
<1> SUFFICES ASSUME Init PROVE IInv
  OBVIOUS
<1>1. PICK rp \in RPs :
        made = [k \in Keys |->
                 IF k \in LegacyKeys
                 THEN Key(rp, TPMHandle(k), "tpm",
                          <<"authentik-biometric-application-key-v1", Random[k].seed, rp>>)
                 ELSE None]
  BY DEF Init
<1>2. PICK legacy \in {LegacyKeys, None} :
        /\ file = [p \in Paths |-> IF p = "legacy" THEN legacy ELSE None]
        /\ acked = IF legacy = None THEN {} ELSE LegacyKeys
  BY DEF Init
<1>3. \A k \in Keys : TPMHandle(k) \in Bytes /\ Random[k].seed \in Seq(Nat)
  <2> TAKE k \in Keys
  <2>1. Random[k].seed \in Seq(0 .. MaxLen) /\ 0 .. MaxLen \subseteq Nat
    BY RandomBytes, LencodeAssumption DEF Bytes
  <2>2. Random[k].seed \in Seq(Nat)
    BY <2>1, SeqMonotonic
  <2> QED BY <2>2, TPMHandleFrames
<1>4. \A k \in Keys : made[k] # None =>
        /\ made[k] \in MadeKey /\ made[k].rp = rp /\ made[k].by = "tpm"
        /\ made[k].handle = TPMHandle(k)
        /\ made[k].under = PrimaryKeyTmpl(Random[k].seed, rp)
  <2> SUFFICES ASSUME NEW k \in Keys, made[k] # None
               PROVE  /\ made[k] \in MadeKey /\ made[k].rp = rp /\ made[k].by = "tpm"
                      /\ made[k].handle = TPMHandle(k)
                      /\ made[k].under = PrimaryKeyTmpl(Random[k].seed, rp)
    OBVIOUS
  <2>1. made[k] = Key(rp, TPMHandle(k), "tpm",
                      <<"authentik-biometric-application-key-v1", Random[k].seed, rp>>)
    BY <1>1
  <2> QED BY <1>3, <2>1, KeyMade DEF PrimaryKeyTmpl
<1>5. made \in [Keys -> MadeKey \cup {None}]
  BY <1>1, <1>4
<1>6. file \in [Paths -> (SUBSET Keys) \cup {None}] /\ acked \in SUBSET Keys
  <2>1. LegacyKeys \in SUBSET Keys
    BY RandomAssumption
  <2>2. acked \in SUBSET Keys
    BY <1>2, <2>1
  <2> DEFINE C == (SUBSET Keys) \cup {None}
  <2>3. None \in C /\ LegacyKeys \in C
    BY <2>1
  <2> HIDE DEF C
  <2>4. legacy \in C
    BY <2>3
  <2>5. file \in [Paths -> C]
    BY <1>2, <2>3, <2>4
  <2> QED BY <2>2, <2>5 DEF C
<1>7. TypeOK
  <2>1. /\ backend \in {"none", "tpm", "memory"} /\ master \in Nat /\ starts \in Nat
        /\ path \in Paths /\ list \in SUBSET Keys
        /\ counter \in Nat /\ clock \in Int
    BY DEF Init, Paths
  <2>2. /\ taken \in [Ops -> Nat \cup {None}]
        /\ watched \in Keys /\ highest \in Nat \cup {None}
        /\ blind \in BOOLEAN /\ setBack \in BOOLEAN
    BY DEF Init
  <2> QED BY <1>5, <1>6, <2>1, <2>2 DEF TypeOK
<1>8. MadeRight
  BY <1>4 DEF MadeRight
<1>9. CountersBounded
  BY BoundsAssumption DEF Init, CountersBounded
<1>10. CountersFit
  BY DEF Init, CountersFit
<1>11. OnlyFile
  BY DEF Init, OnlyFile
<1>12. NothingForgotten
  <2>1. ~Exists("current")
    BY <1>2 DEF Exists, Paths
  <2>2. acked # {} => Exists("legacy") /\ acked \subseteq file["legacy"]
    BY <1>2 DEF Exists, Paths
  <2>3. backend = "none"
    BY DEF Init
  <2> QED BY <2>1, <2>2, <2>3 DEF NothingForgotten, Paths
<1> QED BY <1>7, <1>8, <1>9, <1>10, <1>11, <1>12 DEF IInv

-----------------------------------------------------------------------------
(* The choice of the file.                                                 *)

LEMMA Chosen ==
  ASSUME TypeOK, NEW p \in Paths, NEW missed \in BOOLEAN,
         CredentialStoragePath(p, missed)
  PROVE  /\ file' \in [Paths -> (SUBSET Keys) \cup {None}]
         /\ ~missed =>
              \/ /\ file' = file
                 /\ p = "current" => Exists("current") \/ ~Exists("legacy")
                 /\ p = "legacy" => ~Exists("current") /\ Exists("legacy")
              \/ /\ ~Exists("current") /\ Exists("legacy") /\ p = "current"
                 /\ file' = [file EXCEPT !["current"] = file["legacy"], !["legacy"] = None]
<1>1. PICK sawCurrent \in BOOLEAN, sawLegacy \in BOOLEAN :
        /\ sawCurrent => Exists("current")
        /\ sawLegacy => Exists("legacy")
        /\ missed = \/ ~sawCurrent /\ Exists("current")
                    \/ ~sawCurrent /\ ~sawLegacy /\ Exists("legacy")
        /\ ChoosePath(p, sawCurrent, sawLegacy)
  BY DEF CredentialStoragePath
<1>2. file \in [Paths -> (SUBSET Keys) \cup {None}]
  BY DEF TypeOK
<1>3. /\ file["legacy"] \in (SUBSET Keys) \cup {None}
      /\ [file EXCEPT !["current"] = file["legacy"], !["legacy"] = None]
           \in [Paths -> (SUBSET Keys) \cup {None}]
  <2> DEFINE C == (SUBSET Keys) \cup {None}
  <2>1. file \in [Paths -> C] /\ None \in C
    BY <1>2
  <2> HIDE DEF C
  <2>2. /\ file["legacy"] \in C
        /\ [file EXCEPT !["current"] = file["legacy"], !["legacy"] = None] \in [Paths -> C]
    BY <2>1 DEF Paths
  <2> QED BY <2>2 DEF C
<1>4. CASE (sawCurrent \/ ~sawLegacy) /\ p = "current" /\ UNCHANGED file
  BY <1>1, <1>2, <1>4
<1>5. CASE ~sawCurrent /\ sawLegacy /\ p = "legacy" /\ UNCHANGED file
  BY <1>1, <1>2, <1>5
<1>6. CASE /\ ~sawCurrent /\ sawLegacy /\ Writable("legacy")
           /\ p = "current"
           /\ file' = [file EXCEPT !["current"] = file["legacy"], !["legacy"] = None]
  BY <1>1, <1>3, <1>6
<1> QED BY <1>1, <1>4, <1>5, <1>6 DEF ChoosePath

\* A start leaves no process, or one that has read the file at its path.
LEMMA Started ==
  ASSUME NEW signer \in {"tpm", "memory"}, Start(signer)
  PROVE  /\ UNCHANGED <<taken, made, acked, clock, setBack, watched, highest>>
         /\ backend = "none" /\ starts' = starts + 1
         /\ \E p \in Paths, missed \in BOOLEAN :
              /\ CredentialStoragePath(p, missed)
              /\ \/ /\ backend' = "none" /\ UNCHANGED <<master, counter, path, list>>
                    /\ blind' = (blind \/ missed)
                 \/ /\ backend' = signer
                    /\ IF signer = "memory" THEN counter' = 0 /\ master' = master + 1
                                            ELSE UNCHANGED <<master, counter>>
                    /\ path' = p
                    /\ \E unread \in BOOLEAN :
                         /\ list' = IF unread \/ file'[p] = None THEN {} ELSE file'[p]
                         /\ blind' = (blind \/ missed \/ unread)
<1>1. /\ UNCHANGED <<taken, made, acked, clock, setBack, watched, highest>>
      /\ backend = "none" /\ starts' = starts + 1
  BY DEF Start, world, signatures
<1>2. PICK p \in Paths, missed \in BOOLEAN :
        CredentialStoragePath(p, missed) /\ (Launch(signer, p, missed) \/ LaunchFails(missed))
  BY DEF Start
<1>3. CASE LaunchFails(missed)
  BY <1>1, <1>2, <1>3 DEF LaunchFails
<1>4. CASE Launch(signer, p, missed)
  <2>1. /\ backend' = signer
        /\ IF signer = "memory" THEN counter' = 0 /\ master' = master + 1
                                ELSE UNCHANGED <<master, counter>>
    BY <1>4 DEF Launch, New
  <2>2. PICK unread \in BOOLEAN :
          NewCredentialStorage(p, unread) /\ blind' = (blind \/ missed \/ unread)
    BY <1>4 DEF Launch
  <2>3. /\ path' = p
        /\ list' = IF unread \/ file'[p] = None THEN {} ELSE file'[p]
    BY <2>2 DEF NewCredentialStorage
  <2> QED BY <1>1, <1>2, <2>1, <2>2, <2>3
<1> QED BY <1>2, <1>3, <1>4

-----------------------------------------------------------------------------
(* Every step preserves the invariant, conjunct by conjunct.               *)

LEMMA StepType == TypeOK /\ [Next]_vars => TypeOK'
<1> SUFFICES ASSUME TypeOK, [Next]_vars PROVE TypeOK'
  OBVIOUS
<1> USE DEF TypeOK
<1>1. ASSUME NEW signer \in {"tpm", "memory"}, Start(signer) PROVE TypeOK'
  <2>1. PICK p \in Paths, missed \in BOOLEAN :
          /\ CredentialStoragePath(p, missed)
          /\ \/ /\ backend' = "none" /\ UNCHANGED <<master, counter, path, list>>
                /\ blind' = (blind \/ missed)
             \/ /\ backend' = signer
                /\ IF signer = "memory" THEN counter' = 0 /\ master' = master + 1
                                        ELSE UNCHANGED <<master, counter>>
                /\ path' = p
                /\ \E unread \in BOOLEAN :
                     /\ list' = IF unread \/ file'[p] = None THEN {} ELSE file'[p]
                     /\ blind' = (blind \/ missed \/ unread)
    BY <1>1, Started
  <2>2. file' \in [Paths -> (SUBSET Keys) \cup {None}]
    BY <2>1, Chosen
  <2>3. path' \in Paths /\ list' \in SUBSET Keys
    <3>1. file'[p] \in (SUBSET Keys) \cup {None}
      BY <2>2
    <3>2. CASE UNCHANGED <<path, list>>
      BY <3>2
    <3>3. CASE path' = p /\ list' = {}
      BY <3>3
    <3>4. CASE path' = p /\ file'[p] # None /\ list' = file'[p]
      <4>1. file'[p] \in SUBSET Keys
        BY <3>1, <3>4
      <4> QED BY <3>4, <4>1
    <3> QED BY <2>1, <3>2, <3>3, <3>4
  <2>4. blind' \in BOOLEAN
    BY <2>1
  <2>5. /\ backend' \in {"none", "tpm", "memory"}
        /\ master' \in Nat /\ counter' \in Nat
    BY <2>1
  <2>6. /\ UNCHANGED <<taken, made, acked, clock, setBack, watched, highest>>
        /\ starts' \in Nat
    BY <1>1, Started
  <2> QED BY <2>2, <2>3, <2>4, <2>5, <2>6
<1>2. CASE Stop
  <2>1. /\ backend' = "none" /\ path' = "current" /\ list' = {} /\ counter' = 0
        /\ taken' = [o \in Ops |-> None]
        /\ UNCHANGED <<master, starts, made, file, acked, blind, clock, setBack,
                       watched, highest>>
    BY <1>2 DEF Stop, disk, world, signatures
  <2>2. path' \in Paths
    BY <2>1 DEF Paths
  <2> QED BY <2>1, <2>2
<1>3. ASSUME NEW k \in Keys, NEW rp \in RPs, RegisterKey(k, rp) PROVE TypeOK'
  <2>1. UNCHANGED <<backend, master, starts, path, list, counter, taken, file, acked,
                    blind, clock, setBack, watched, highest>>
    BY <1>3 DEF RegisterKey, process, disk, world, signatures
  <2>2. Key(rp, TPMHandle(k), "tpm", PrimaryKeyTmpl(Random[k].seed, rp)) \in MadeKey
    <3>1. Random[k].seed \in Seq(0 .. MaxLen) /\ 0 .. MaxLen \subseteq Nat
      BY RandomBytes, LencodeAssumption DEF Bytes
    <3>2. Random[k].seed \in Seq(Nat)
      BY <3>1, SeqMonotonic
    <3> QED BY <3>2, TPMHandleFrames, KeyMade DEF PrimaryKeyTmpl
  <2>3. Key(rp, MemHandle(k), "memory", Sealed(rp)) \in MadeKey
    <3>1. <<master>> \in Seq(Nat)
      OBVIOUS
    <3> QED BY <3>1, MemHandleBytes, KeyMade DEF Sealed
  <2>4. made' \in [Keys -> MadeKey \cup {None}]
    BY <1>3, <2>2, <2>3 DEF RegisterKey
  <2> QED BY <2>1, <2>4
<1>4. ASSUME NEW k \in Keys, SaveCredential(k) PROVE TypeOK'
  <2>1. UNCHANGED <<backend, master, starts, path, counter, taken, blind, made, clock,
                    setBack, watched, highest>>
    BY <1>4 DEF SaveCredential, world, signatures
  <2>2. list' \in SUBSET Keys
    BY <1>4 DEF SaveCredential
  <2>3. acked' \in SUBSET Keys
    BY <1>4 DEF SaveCredential
  <2>4. file' \in [Paths -> (SUBSET Keys) \cup {None}]
    BY <1>4, <2>2 DEF SaveCredential
  <2> QED BY <2>1, <2>2, <2>3, <2>4
<1>5. ASSUME NEW o \in Ops, Counter(o) PROVE TypeOK'
  <2>1. UNCHANGED <<backend, master, starts, path, list, made, file, acked, blind,
                    clock, setBack, watched, highest>>
    BY <1>5 DEF Counter, disk, world, signatures
  <2>2. Seconds \in Nat
    BY BoundsAssumption DEF Seconds
  <2>3. counter' \in Nat /\ taken' \in [Ops -> Nat \cup {None}]
    <3>1. CASE backend = "tpm"
      BY <1>5, <2>2, <3>1 DEF Counter
    <3>2. CASE backend # "tpm"
      <4>1. counter < MaxCounter /\ counter' = (counter + 1) % CounterMod
            /\ taken' = [taken EXCEPT ![o] = counter']
        BY <1>5, <3>2 DEF Counter
      <4>2. counter' = counter + 1
        BY <4>1, CounterSmall
      <4> QED BY <4>1, <4>2
    <3> QED BY <3>1, <3>2
  <2> QED BY <2>1, <2>3
<1>6. ASSUME NEW o \in Ops, SignASN1(o) PROVE TypeOK'
  <2>1. UNCHANGED <<watched, backend, master, starts, path, list, counter, made, file,
                    acked, blind, clock, setBack>>
    BY <1>6 DEF SignASN1, disk, world
  <2>2. taken' \in [Ops -> Nat \cup {None}]
    BY <1>6 DEF SignASN1
  <2>3. taken[o] \in Nat
    BY <1>6 DEF SignASN1
  <2>4. highest' \in Nat \cup {None}
    BY <1>6, <2>3 DEF SignASN1, Greatest
  <2> QED BY <2>1, <2>2, <2>4
<1>7. CASE Tick
  BY <1>7 DEF Tick, process, disk, signatures
<1>8. CASE SetClockBack
  BY <1>8 DEF SetClockBack, process, disk, signatures
<1>9. CASE UNCHANGED vars
  BY <1>9 DEF vars, process, disk, world, signatures
<1> QED BY <1>1, <1>2, <1>3, <1>4, <1>5, <1>6, <1>7, <1>8, <1>9 DEF Next

LEMMA StepMadeRight == TypeOK /\ MadeRight /\ [Next]_vars => MadeRight'
<1> SUFFICES ASSUME TypeOK, MadeRight, [Next]_vars,
                    NEW k \in Keys, made'[k] # None
             PROVE  /\ made'[k].by = "tpm" =>
                         /\ made'[k].handle = TPMHandle(k)
                         /\ made'[k].under = PrimaryKeyTmpl(Random[k].seed, made'[k].rp)
                    /\ made'[k].by = "memory" =>
                         /\ made'[k].handle = MemHandle(k)
                         /\ \E m \in 0 .. master' :
                              made'[k].under = <<"fido_wrapping_key", <<m>>, made'[k].rp>>
  BY DEF MadeRight, TPMHandle, PrimaryKeyTmpl, MemHandle
<1>1. master' \in Nat /\ master \in Nat /\ master <= master'
  <2>1. CASE \E signer \in {"tpm", "memory"} : Start(signer)
    BY <2>1, Started DEF TypeOK
  <2>2. CASE ~\E signer \in {"tpm", "memory"} : Start(signer)
    <3>1. UNCHANGED master
      BY <2>2 DEF Next, Stop, RegisterKey, SaveCredential, Counter, SignASN1, Tick,
                  SetClockBack, vars, process
    <3> QED BY <3>1 DEF TypeOK
  <2> QED BY <2>1, <2>2
<1>2. CASE made'[k] = made[k]
  BY <1>1, <1>2 DEF MadeRight
<1>3. CASE made'[k] # made[k]
  <2>1. PICK l \in Keys, rp \in RPs : RegisterKey(l, rp)
    BY <1>3 DEF Next, Start, Stop, SaveCredential, Counter, SignASN1, Tick,
                SetClockBack, vars
  <2>2. made'[k] = IF backend = "tpm"
                   THEN Key(rp, TPMHandle(k), "tpm", PrimaryKeyTmpl(Random[k].seed, rp))
                   ELSE Key(rp, MemHandle(k), "memory", Sealed(rp))
    BY <1>3, <2>1 DEF RegisterKey, TypeOK
  <2>3. CASE backend = "tpm"
    BY <2>2, <2>3 DEF Key
  <2>4. CASE backend # "tpm"
    <3>1. /\ made'[k].rp = rp /\ made'[k].by = "memory" /\ made'[k].handle = MemHandle(k)
          /\ made'[k].under = Sealed(rp)
      BY <2>2, <2>4 DEF Key
    <3>2. master \in 0 .. master'
      BY <1>1
    <3> QED BY <3>1, <3>2 DEF Sealed
  <2> QED BY <2>3, <2>4
<1> QED BY <1>2, <1>3

LEMMA StepOnlyFile == TypeOK /\ OnlyFile /\ NothingForgotten /\ [Next]_vars => OnlyFile'
<1> SUFFICES ASSUME TypeOK, OnlyFile, NothingForgotten, [Next]_vars,
                    ~blind', backend' # "none", NEW p \in Paths, file'[p] # None
             PROVE  p = path'
  BY DEF OnlyFile, Exists
<1>1. ASSUME NEW signer \in {"tpm", "memory"}, Start(signer) PROVE p = path'
  <2>1. PICK missed \in BOOLEAN : ~missed /\ CredentialStoragePath(path', missed)
        /\ path' \in Paths /\ ~blind
    BY <1>1, Started
  <2>2. ~(Exists("current") /\ Exists("legacy"))
    BY <2>1 DEF NothingForgotten
  <2>3. CASE /\ file' = file
             /\ path' = "current" => Exists("current") \/ ~Exists("legacy")
             /\ path' = "legacy" => ~Exists("current") /\ Exists("legacy")
    BY <2>1, <2>2, <2>3 DEF Exists, Paths
  <2>4. CASE /\ path' = "current"
             /\ file' = [file EXCEPT !["current"] = file["legacy"], !["legacy"] = None]
    BY <2>4 DEF Paths, TypeOK
  <2> QED BY <2>1, <2>3, <2>4, Chosen
<1>2. CASE Stop
  BY <1>2 DEF Stop
<1>3. CASE UNCHANGED <<backend, path, file, blind>>
  BY <1>3 DEF OnlyFile, Exists
<1>4. ASSUME NEW k \in Keys, SaveCredential(k) PROVE p = path'
  <2>1. ~blind /\ backend # "none" /\ path' = path
    BY <1>4 DEF SaveCredential
  <2>2. CASE file' = file
    BY <2>1, <2>2 DEF OnlyFile, Exists
  <2>3. CASE file' = [file EXCEPT ![path] = list']
    BY <2>1, <2>3 DEF OnlyFile, Exists, TypeOK
  <2> QED BY <1>4, <2>2, <2>3 DEF SaveCredential
<1> QED BY <1>1, <1>2, <1>3, <1>4 DEF Next, RegisterKey, Counter, SignASN1, Tick,
                                      SetClockBack, vars, process, disk

LEMMA StepNothingForgotten ==
  TypeOK /\ OnlyFile /\ NothingForgotten /\ [Next]_vars => NothingForgotten'
<1> SUFFICES ASSUME TypeOK, OnlyFile, NothingForgotten, [Next]_vars, ~blind'
             PROVE  /\ ~(file'["current"] # None /\ file'["legacy"] # None)
                    /\ acked' # {} => \E p \in Paths : file'[p] # None /\ acked' \subseteq file'[p]
                    /\ backend' # "none" => acked' \subseteq list'
  BY DEF NothingForgotten, Exists
<1> USE DEF Exists
<1>1. ASSUME NEW signer \in {"tpm", "memory"}, Start(signer)
      PROVE  /\ ~(file'["current"] # None /\ file'["legacy"] # None)
             /\ acked' # {} => \E p \in Paths : file'[p] # None /\ acked' \subseteq file'[p]
             /\ backend' # "none" => acked' \subseteq list'
  <2>1. PICK q \in Paths :
          /\ CredentialStoragePath(q, FALSE)
          /\ ~blind /\ acked' = acked
          /\ backend' # "none" => list' = IF file'[q] = None THEN {} ELSE file'[q]
    BY <1>1, Started
  <2>2. /\ ~(Exists("current") /\ Exists("legacy"))
        /\ acked # {} => \E p \in Paths : Exists(p) /\ acked \subseteq file[p]
    BY <2>1 DEF NothingForgotten
  <2>3. file \in [Paths -> (SUBSET Keys) \cup {None}]
    BY DEF TypeOK
  <2>4. CASE /\ file' = file
             /\ q = "current" => Exists("current") \/ ~Exists("legacy")
             /\ q = "legacy" => ~Exists("current") /\ Exists("legacy")
    <3>1. acked # {} => file'[q] # None /\ acked \subseteq file'[q]
      BY <2>1, <2>2, <2>4 DEF Paths
    <3>2. backend' # "none" => acked \subseteq list'
      BY <2>1, <3>1
    <3> QED BY <2>1, <2>2, <2>4, <3>1, <3>2
  <2>5. CASE /\ ~Exists("current") /\ Exists("legacy") /\ q = "current"
             /\ file' = [file EXCEPT !["current"] = file["legacy"], !["legacy"] = None]
    <3>1. file'["current"] = file["legacy"] /\ file'["legacy"] = None
      BY <2>3, <2>5 DEF Paths
    <3>2. acked # {} => acked \subseteq file["legacy"]
      BY <2>2, <2>5 DEF Paths
    <3>3. acked # {} => file'[q] # None /\ acked \subseteq file'[q]
      BY <2>5, <3>1, <3>2
    <3>4. backend' # "none" => acked \subseteq list'
      BY <2>1, <3>3
    <3> QED BY <2>1, <3>1, <3>3, <3>4
  <2> QED BY <2>1, <2>4, <2>5, Chosen
<1>2. CASE Stop
  BY <1>2 DEF Stop, disk, NothingForgotten
<1>3. CASE UNCHANGED <<backend, list, file, acked, blind>>
  BY <1>3 DEF NothingForgotten
<1>4. ASSUME NEW k \in Keys, SaveCredential(k)
      PROVE  /\ ~(file'["current"] # None /\ file'["legacy"] # None)
             /\ acked' # {} => \E p \in Paths : file'[p] # None /\ acked' \subseteq file'[p]
             /\ backend' # "none" => acked' \subseteq list'
  <2>1. ~blind /\ backend # "none" /\ path' = path /\ path \in Paths
        /\ list' = list \cup {k} /\ acked \subseteq list
    BY <1>4 DEF SaveCredential, TypeOK, NothingForgotten
  <2>2. CASE UNCHANGED <<file, acked>>
    BY <2>1, <2>2 DEF NothingForgotten
  <2>3. CASE file' = [file EXCEPT ![path] = list'] /\ acked' = acked \cup {k}
    <3>1. file \in [Paths -> (SUBSET Keys) \cup {None}] /\ list' \in SUBSET Keys
      BY <2>1 DEF TypeOK
    <3>2. file'[path] = list' /\ \A p \in Paths : p # path => file'[p] = None
      BY <2>1, <2>3, <3>1 DEF OnlyFile
    <3>3. list' # None
      BY <3>1, BoundsAssumption
    <3>4. acked' \subseteq list'
      BY <2>1, <2>3
    <3> QED BY <2>1, <3>2, <3>3, <3>4 DEF Paths
  <2> QED BY <1>4, <2>2, <2>3 DEF SaveCredential
<1> QED BY <1>1, <1>2, <1>3, <1>4 DEF Next, RegisterKey, Counter, SignASN1, Tick,
                                      SetClockBack, vars, process, disk

\* Time that passes without a jump leaves the TPM's counter where it was or
\* raises it.
LEMMA StepSeconds ==
  TypeOK /\ CountersBounded /\ [Next]_vars =>
    /\ clock' >= -1 /\ clock' <= MaxClock
    /\ ~setBack' => ~setBack /\ Seconds <= Seconds'
<1> SUFFICES ASSUME TypeOK, CountersBounded, [Next]_vars
             PROVE  /\ clock' >= -1 /\ clock' <= MaxClock
                    /\ ~setBack' => ~setBack /\ Seconds <= Seconds'
  OBVIOUS
<1>1. clock \in Int /\ clock >= -1 /\ clock <= MaxClock /\ MaxClock \in Nat
      /\ CounterMod \in Nat \ {0} /\ MaxClock < CounterMod
  BY BoundsAssumption DEF TypeOK, CountersBounded
<1>2. CASE Tick
  <2>1. clock < MaxClock /\ clock' = clock + 1
    BY <1>2 DEF Tick
  <2>0. ~setBack' => ~setBack /\ clock' # 0
    BY <1>2 DEF Tick
  <2>2. CASE clock >= 0
    <3>1. clock \in 0 .. MaxClock /\ clock' \in 0 .. MaxClock
      BY <1>1, <2>1, <2>2
    <3>2. Seconds = clock /\ Seconds' = clock'
      BY <3>1, SecondsSmall DEF Seconds
    <3>3. clock' >= -1 /\ clock' <= MaxClock /\ Seconds <= Seconds'
      BY <1>1, <2>1, <2>2, <3>2
    <3> QED BY <2>0, <3>3
  <2>3. CASE clock < 0
    <3>1. clock' >= -1 /\ clock' <= MaxClock /\ clock' = 0
      BY <1>1, <2>1, <2>3
    <3> QED BY <2>0, <3>1
  <2> QED BY <1>1, <2>2, <2>3
<1>3. CASE SetClockBack
  BY <1>1, <1>3 DEF SetClockBack
<1>4. CASE UNCHANGED world
  <2>1. clock' = clock /\ setBack' = setBack
    BY <1>4 DEF world
  <2>2. Seconds \in Int
    BY <1>1 DEF Seconds
  <2> QED BY <1>1, <2>1, <2>2 DEF Seconds
<1> QED BY <1>2, <1>3, <1>4 DEF Next, Start, Stop, RegisterKey, SaveCredential, Counter,
                                SignASN1, vars

LEMMA StepCountersBounded ==
  TypeOK /\ MadeRight /\ CountersBounded /\ [Next]_vars => CountersBounded'
<1> SUFFICES ASSUME TypeOK, MadeRight, CountersBounded, [Next]_vars PROVE CountersBounded'
  OBVIOUS
<1>0. /\ clock' >= -1 /\ clock' <= MaxClock
      /\ ~setBack' => ~setBack /\ Seconds <= Seconds'
  BY StepSeconds
<1>S. Seconds \in Nat /\ Seconds' \in Nat
  <2>1. clock' \in Int
    BY StepType DEF TypeOK
  <2>2. \A n \in Int : n % CounterMod \in Nat
    BY BoundsAssumption
  <2>3. clock \in Int
    BY DEF TypeOK
  <2>4. Seconds = clock % CounterMod /\ Seconds' = clock' % CounterMod
    BY DEF Seconds
  <2> QED BY <2>1, <2>2, <2>3, <2>4
<1>T. watched \in Keys /\ watched' = watched
  BY DEF TypeOK, Next, Start, Stop, RegisterKey, SaveCredential, Counter, SignASN1, Tick,
         SetClockBack, vars, signatures
<1>V. /\ highest \in Nat \cup {None} /\ taken \in [Ops -> Nat \cup {None}] /\ counter \in Nat
      /\ master \in Nat
  BY DEF TypeOK
<1>C. /\ backend = "none" => \A o \in Ops : taken[o] = None
      /\ made[watched] = None => highest = None
      /\ backend = "memory" =>
           /\ \A o \in Ops : taken[o] # None => taken[o] <= counter
           /\ Current(watched) /\ highest # None => highest <= counter
      /\ ~setBack =>
           /\ backend = "tpm" => \A o \in Ops : taken[o] # None => taken[o] <= Seconds
           /\ made[watched] # None /\ made[watched].by = "tpm" /\ highest # None
                => highest <= Seconds
  BY DEF CountersBounded
<1> DEFINE
     Goal == /\ backend' = "none" => \A o \in Ops : taken'[o] = None
             /\ made'[watched] = None => highest' = None
             /\ backend' = "memory" =>
                  /\ \A o \in Ops : taken'[o] # None => taken'[o] <= counter'
                  /\ Current(watched)' /\ highest' # None => highest' <= counter'
             /\ ~setBack' =>
                  /\ backend' = "tpm" => \A o \in Ops : taken'[o] # None => taken'[o] <= Seconds'
                  /\ made'[watched] # None /\ made'[watched].by = "tpm" /\ highest' # None
                       => highest' <= Seconds'
<1>Q. SUFFICES Goal
  BY <1>0, <1>T DEF CountersBounded, Current
<1>1. ASSUME NEW signer \in {"tpm", "memory"}, Start(signer) PROVE Goal
  <2>1. /\ backend = "none" /\ backend' \in {"none", signer}
        /\ backend' = "memory" => counter' = 0 /\ master' = master + 1
        /\ UNCHANGED <<taken, made, clock, setBack, watched, highest>>
    BY <1>1, Started
  <2>2. \A o \in Ops : taken'[o] = None
    BY <1>C, <2>1
  <2>3. CASE backend' = "memory"
    <3>1. ~Current(watched)'
      <4> SUFFICES ASSUME made[watched] # None, made[watched].by = "memory",
                          made[watched].under[2] = <<master + 1>>
                   PROVE  FALSE
        BY <2>1, <2>3 DEF Current
      <4>1. PICK m \in 0 .. master :
              made[watched].under = <<"fido_wrapping_key", <<m>>, made[watched].rp>>
        BY <1>T DEF MadeRight
      <4>2. <<m>> = <<master + 1>>
        BY <4>1
      <4>3. m = master + 1
        BY <4>2
      <4> QED BY <1>V, <4>3
    <3> QED BY <1>0, <1>C, <1>S, <1>V, <2>1, <2>2, <2>3, <3>1
  <2>4. CASE backend' \in {"none", "tpm"}
    BY <1>0, <1>C, <1>S, <1>V, <2>1, <2>2, <2>4
  <2> QED BY <2>1, <2>3, <2>4
<1>2. CASE Stop
  <2>1. /\ backend' = "none" /\ taken' = [o \in Ops |-> None]
        /\ UNCHANGED <<made, clock, setBack, watched, highest>>
    BY <1>2 DEF Stop, world, signatures
  <2> QED BY <1>0, <1>C, <1>S, <1>V, <2>1
<1>3. ASSUME NEW k \in Keys, NEW rp \in RPs, RegisterKey(k, rp) PROVE Goal
  <2>1. /\ made[k] = None
        /\ UNCHANGED <<backend, master, counter, taken, clock, setBack, watched, highest>>
        /\ \A l \in Keys : l # k => made'[l] = made[l]
    BY <1>3 DEF RegisterKey, process, world, signatures, TypeOK
  <2>2. Seconds' = Seconds
    BY <2>1 DEF Seconds
  <2>3. CASE watched = k
    <3>1. highest = None
      BY <1>C, <2>1, <2>3
    <3> QED BY <1>C, <2>1, <2>2, <3>1
  <2>4. CASE watched # k
    <3>1. made'[watched] = made[watched]
      BY <1>T, <2>1, <2>4
    <3>2. Current(watched)' <=> Current(watched)
      BY <2>1, <3>1 DEF Current
    <3> QED BY <1>C, <2>1, <2>2, <3>1, <3>2
  <2> QED BY <2>3, <2>4
<1>4. ASSUME NEW o \in Ops, Counter(o) PROVE Goal
  <2>1. UNCHANGED <<backend, master, made, clock, setBack, watched, highest>>
    BY <1>4 DEF Counter, world, signatures
  <2>2. Current(watched)' <=> Current(watched)
    BY <2>1 DEF Current
  <2>3. Seconds' = Seconds
    BY <2>1 DEF Seconds
  <2>4. CASE backend = "tpm"
    <3>1. taken' = [taken EXCEPT ![o] = Seconds] /\ counter' = counter
      BY <1>4, <2>4 DEF Counter
    <3>2. \A p \in Ops : taken'[p] = IF p = o THEN Seconds ELSE taken[p]
      BY <1>V, <3>1
    <3> QED BY <1>C, <1>S, <2>1, <2>3, <2>4, <3>2
  <2>5. CASE backend # "tpm"
    <3>1. /\ backend = "memory" /\ counter < MaxCounter
          /\ counter' = (counter + 1) % CounterMod /\ taken' = [taken EXCEPT ![o] = counter']
      BY <1>4, <2>5 DEF Counter, TypeOK
    <3>2. counter' = counter + 1
      BY <1>V, <3>1, CounterSmall
    <3>3. \A p \in Ops : taken'[p] = IF p = o THEN counter + 1 ELSE taken[p]
      BY <1>V, <3>1, <3>2
    <3>4. \A p \in Ops : taken'[p] # None => taken'[p] <= counter'
      BY <1>C, <1>V, <3>1, <3>2, <3>3
    <3>5. Current(watched)' /\ highest' # None => highest' <= counter'
      BY <1>C, <1>V, <2>1, <2>2, <3>1, <3>2
    <3> QED BY <1>C, <2>1, <2>3, <3>1, <3>4, <3>5
  <2> QED BY <2>4, <2>5
<1>5. ASSUME NEW o \in Ops, SignASN1(o) PROVE Goal
  <2>1. UNCHANGED <<backend, master, counter, made, clock, setBack, watched>>
    BY <1>5 DEF SignASN1, world
  <2>2. Current(watched)' <=> Current(watched)
    BY <2>1 DEF Current
  <2>3. Seconds' = Seconds
    BY <2>1 DEF Seconds
  <2>4. taken[o] \in Nat /\ \A p \in Ops : taken'[p] # None => taken'[p] = taken[p]
    BY <1>5, <1>V DEF SignASN1
  <2>5. \A p \in Ops : taken[p] = None => taken'[p] = None
    BY <1>5, <1>V DEF SignASN1
  <2>6. CASE highest' = highest
    BY <1>C, <2>1, <2>2, <2>3, <2>4, <2>5, <2>6
  <2>7. CASE highest' # highest
    <3>1. highest' = Greatest(highest, taken[o])
          /\ \E rp \in RPs, h \in Strings : Opens(h, rp, watched)
      BY <1>5, <2>7 DEF SignASN1
    <3>2. Current(watched)
      BY <1>T, <3>1, OpensOnlyItsHandle
    <3>3. made[watched] # None /\ made[watched].by = backend
      BY <3>2 DEF Current
    <3>4. highest' = highest \/ highest' = taken[o]
      BY <3>1 DEF Greatest
    <3>5. highest' = taken[o]
      BY <2>7, <3>4
    <3> QED BY <1>C, <2>1, <2>2, <2>3, <2>4, <2>5, <3>3, <3>5
  <2> QED BY <2>6, <2>7
<1>6. CASE UNCHANGED <<backend, master, counter, taken, made, watched, highest>>
  <2>1. Current(watched)' <=> Current(watched)
    BY <1>6 DEF Current
  <2> QED BY <1>0, <1>C, <1>S, <1>V, <1>6, <2>1
<1> QED BY <1>1, <1>2, <1>3, <1>4, <1>5, <1>6 DEF Next, SaveCredential, Tick, SetClockBack,
                                                  vars, process, signatures

LEMMA StepCountersFit == TypeOK /\ CountersFit /\ [Next]_vars => CountersFit'
<1> SUFFICES ASSUME TypeOK, CountersFit, [Next]_vars, NEW o \in Ops, taken'[o] # None
             PROVE  taken'[o] < CounterMod
  BY DEF CountersFit
<1>1. CASE taken'[o] = taken[o]
  BY <1>1 DEF CountersFit
<1>2. ASSUME NEW p \in Ops, Counter(p) PROVE taken'[o] < CounterMod
  <2>1. p = o \/ taken'[o] = taken[o]
    BY <1>2 DEF Counter, TypeOK
  <2>2. CASE p = o
    <3>1. CASE backend = "tpm"
      <4>1. taken'[o] = clock % CounterMod
        BY <1>2, <2>2, <3>1 DEF Counter, TypeOK, Seconds
      <4>2. clock \in Int /\ CounterMod \in Nat \ {0}
        BY BoundsAssumption DEF TypeOK
      <4>3. clock % CounterMod < CounterMod
        BY ONLY <4>2
      <4> QED BY <4>1, <4>3
    <3>2. CASE backend # "tpm"
      <4>1. taken'[o] = (counter + 1) % CounterMod
        BY <1>2, <2>2, <3>2 DEF Counter, TypeOK
      <4>2. counter \in Nat /\ CounterMod \in Nat \ {0}
        BY BoundsAssumption DEF TypeOK
      <4>3. (counter + 1) % CounterMod < CounterMod
        BY ONLY <4>2
      <4> QED BY <4>1, <4>3
    <3> QED BY <3>1, <3>2
  <2> QED BY <1>1, <2>1, <2>2
<1>3. CASE Stop
  BY <1>3 DEF Stop
<1>4. ASSUME NEW p \in Ops, SignASN1(p) PROVE taken'[o] < CounterMod
  BY <1>1, <1>4 DEF SignASN1, TypeOK
<1> QED BY <1>1, <1>2, <1>3, <1>4 DEF Next, Start, RegisterKey, SaveCredential, Tick,
                                      SetClockBack, vars, process

-----------------------------------------------------------------------------
(* The theorems.                                                           *)

\* The invariant that the theorems below are read off.
THEOREM Invariance == Spec => []IInv
<1>1. IInv /\ [Next]_vars => IInv'
  BY StepType, StepMadeRight, StepCountersBounded, StepCountersFit, StepOnlyFile,
     StepNothingForgotten DEF IInv
<1> QED BY InitInv, <1>1, PTL DEF Spec

\* Keys, files, counters and clocks keep their types.
THEOREM TypeCorrect == Spec => []TypeOK
<1>1. IInv => TypeOK
  BY DEF IInv
<1> QED BY Invariance, <1>1, PTL

\* Whatever strings hosts offer, of whatever length.
THEOREM HandlesExact == Spec => []OnlyItsHandle
<1>1. IInv => OnlyItsHandle
  BY OpensOnlyItsHandle DEF IInv, OnlyItsHandle
<1> QED BY Invariance, <1>1, PTL

\* A credential id that was handed out goes on to sign, through any restarts.
THEOREM HandlesServe == Spec => []HandlesLast
<1>1. IInv => HandlesLast
  BY OwnHandleOpens DEF IInv, HandlesLast
<1> QED BY Invariance, <1>1, PTL

\* Through any starts, those included that end in main after the file was
\* chosen or renamed, what was acknowledged is in the one file there is, and
\* a process that comes to run lists it.
THEOREM FilesKeepAll == Spec => []NothingForgotten
<1>1. IInv => NothingForgotten
  BY DEF IInv
<1> QED BY Invariance, <1>1, PTL

LEMMA CounterReads ==
  ASSUME TypeOK, CountersFit, NEW o \in Ops, taken[o] # None
  PROVE  Small(taken[o])
<1>1. taken[o] \in Nat /\ taken[o] < CounterMod /\ CounterMod \in Nat \ {0}
      /\ (CounterMod - 1) \div 65536 < 65536
  BY BoundsAssumption, ResponseAssumption DEF TypeOK, CountersFit
<1> DEFINE n == taken[o]
           m == CounterMod - 1
<1>2. n \in Nat /\ m \in Nat /\ n <= m /\ m \div 65536 < 65536
  BY <1>1
<1> HIDE DEF n, m
<1>3. n \div 65536 < 65536
  BY ONLY <1>2
<1> QED BY <1>2, <1>3 DEF Small, n

LEMMA BytesOctets == Bytes \subseteq Octets
<1>1. 0 .. MaxLen \subseteq Nat
  BY LencodeAssumption
<1> QED BY <1>1, SeqMonotonic DEF Bytes, Octets

LEMMA PrefixNat == PrefixLen \in Nat
BY LenProperties, LencodeAssumption DEF PrefixLen

LEMMA FrameLen ==
  ASSUME NEW a \in Bytes, Len(a) <= MaxLen
  PROVE  Frame(a) \in Bytes /\ Len(Frame(a)) = PrefixLen + Len(a)
<1>1. /\ Separator \o <<Len(a)>> \in Bytes /\ Len(Separator \o <<Len(a)>>) = PrefixLen
      /\ Frame(a) = (Separator \o <<Len(a)>>) \o a
  BY FrameParts
<1> QED BY <1>1, BytesJoin

LEMMA FramesLen ==
  ASSUME NEW a \in Bytes, NEW b \in Bytes, NEW c \in Bytes,
         Len(a) <= MaxLen, Len(b) <= MaxLen, Len(c) <= MaxLen
  PROVE  Len(Frame(a) \o (Frame(b) \o (Frame(c) \o <<>>))) <= 3 * (PrefixLen + MaxLen)
<1>1. /\ Frame(a) \in Bytes /\ Frame(b) \in Bytes /\ Frame(c) \in Bytes
      /\ Len(Frame(a)) = PrefixLen + Len(a) /\ Len(Frame(b)) = PrefixLen + Len(b)
      /\ Len(Frame(c)) = PrefixLen + Len(c)
  BY FrameLen
<1> DEFINE u == Frame(a)
           v == Frame(b)
           w == Frame(c)
<1>2. u \in Bytes /\ v \in Bytes /\ w \in Bytes
  BY <1>1
<1> HIDE DEF u, v, w
<1>3. w \o <<>> = w
  BY <1>2, ConcatEmptySeq DEF Bytes
<1>4. v \o w \in Bytes /\ Len(v \o w) = Len(v) + Len(w)
  BY <1>2, BytesJoin
<1>5. Len(u \o (v \o w)) = Len(u) + Len(v \o w)
  BY <1>2, <1>4, BytesJoin
<1>6. Len(u) = PrefixLen + Len(a) /\ Len(v) = PrefixLen + Len(b) /\ Len(w) = PrefixLen + Len(c)
  BY <1>1 DEF u, v, w
<1>7. /\ Len(a) \in Nat /\ Len(b) \in Nat /\ Len(c) \in Nat
      /\ Len(a) <= MaxLen /\ Len(b) <= MaxLen /\ Len(c) <= MaxLen
      /\ MaxLen \in Nat /\ PrefixLen \in Nat
  BY BytesLen, LencodeAssumption, PrefixNat
<1>8. Len(u \o (v \o (w \o <<>>))) = Len(u) + (Len(v) + Len(w))
  BY <1>3, <1>4, <1>5
<1>9. Len(u) + (Len(v) + Len(w)) <= 3 * (PrefixLen + MaxLen)
  BY ONLY <1>6, <1>7
<1> QED BY <1>8, <1>9 DEF u, v, w

\* An id's length is told by two bytes.
LEMMA HandleFits ==
  ASSUME TypeOK, MadeRight, NEW k \in Keys, made[k] # None
  PROVE  made[k].handle \in Octets /\ Len(made[k].handle) < 65536
<1>1. made[k] \in MadeKey
  BY DEF TypeOK
<1>2. made[k].handle \in Octets
  BY <1>1, BytesOctets DEF MadeKey
<1>3. CASE made[k].by = "tpm"
  <2> DEFINE a == Random[k].private
             b == Random[k].public
             c == Random[k].seed
  <2>1. /\ a \in Bytes /\ Len(a) <= MaxLen /\ b \in Bytes /\ Len(b) <= MaxLen
        /\ c \in Bytes /\ Len(c) <= MaxLen
    BY RandomBytes
  <2>2. made[k].handle = Frame(a) \o (Frame(b) \o (Frame(c) \o <<>>))
    BY <1>3, TPMHandleFrames DEF MadeRight
  <2> HIDE DEF a, b, c
  <2>3. Len(made[k].handle) <= 3 * (PrefixLen + MaxLen)
    BY <2>1, <2>2, FramesLen
  <2> QED BY <2>3, <1>2, OctetsLen, PrefixNat, LencodeAssumption, ResponseAssumption
<1>4. CASE made[k].by = "memory"
  <2>1. made[k].handle = Random[k].nonce \o Random[k].cipherText
    BY <1>4 DEF MadeRight, MemHandle
  <2>2. Random[k].nonce \in Bytes /\ Random[k].cipherText \in Bytes
        /\ Len(Random[k].nonce) = NonceSize
    BY RandomBytes, RandomAssumption
  <2>3. Len(made[k].handle) = NonceSize + Len(Random[k].cipherText)
    BY <2>1, <2>2, BytesJoin
  <2>4. NonceSize + Len(Random[k].cipherText) < 65536
    BY ResponseAssumption
  <2> QED BY <1>2, <2>3, <2>4
<1> QED BY <1>1, <1>2, <1>3, <1>4 DEF MadeKey

\* Whatever keys are made and whatever counters they reach, a relying party
\* reads back what a response says: its own RP's hash, the counter, the
\* client data hash, and a new key's id and point, with all leading zeros.
THEOREM ResponsesRead == Spec => []ResponsesReadBack
<1>1. IInv => ResponsesReadBack
  <2> SUFFICES ASSUME IInv, NEW o \in Ops, taken[o] # None, made[watched] # None
               PROVE  LET rp == Digest[made[watched].rp]
                          id == made[watched].handle
                          point == Point[watched]
                      IN /\ Read(ToSign(Attestation(rp, taken[o], id, PublicKey[watched]),
                                        Digest[o]))
                              = Reading(rp, 69, taken[o], id, point.x, point.y, Digest[o])
                         /\ Read(ToSign(Assertion(rp, taken[o]), Digest[o]))
                              = Reading(rp, 5, taken[o], None, None, None, Digest[o])
    BY DEF ResponsesReadBack
  <2> DEFINE rp == Digest[made[watched].rp]
             id == made[watched].handle
             x == Point[watched].x
             y == Point[watched].y
             h == Digest[o]
             n == taken[o]
  <2>1. TypeOK /\ MadeRight /\ CountersFit /\ watched \in Keys
    BY DEF IInv, TypeOK
  <2>2. rp \in Word /\ h \in Word
    <3>1. made[watched].rp \in RPs
      BY <2>1 DEF TypeOK, MadeKey
    <3> QED BY <3>1, ResponseAssumption
  <2>3. x \in Word /\ y \in Word /\ PublicKey[watched] = BuildCOSEPublicKeyES256(x, y)
    BY <2>1, ResponseAssumption DEF PublicKey
  <2>4. id \in Octets /\ Len(id) < 65536
    BY <2>1, HandleFits
  <2>5. Small(n)
    BY <2>1, CounterReads
  <2> HIDE DEF rp, id, x, y, h, n
  <2>6. Read(ToSign(Attestation(rp, n, id, BuildCOSEPublicKeyES256(x, y)), h))
          = Reading(rp, 69, n, id, x, y, h)
    BY ONLY <2>2, <2>3, <2>4, <2>5, AttestationReads
  <2>7. Read(ToSign(Assertion(rp, n), h)) = Reading(rp, 5, n, None, None, None, h)
    BY ONLY <2>2, <2>5, AssertionReads
  <2> QED BY <2>3, <2>6, <2>7 DEF rp, id, x, y, h, n
<1> QED BY Invariance, <1>1, PTL

\* The counters of a signer that runs grow.
THEOREM CountersOrdered == Spec => CountersGrow
<1> DEFINE
     Grows == \A o \in Ops : taken[o] = None /\ taken'[o] # None =>
                \A n \in {taken[p] : p \in Ops}
                           \cup IF Current(watched) THEN {highest} ELSE {} :
                  n # None => IF backend = "memory" THEN n < taken'[o]
                              ELSE setBack \/ n <= taken'[o]
<1>1. IInv /\ [Next]_vars => Grows
  <2> SUFFICES ASSUME IInv, [Next]_vars, NEW o \in Ops, taken[o] = None, taken'[o] # None,
                      NEW n \in {taken[p] : p \in Ops}
                                  \cup IF Current(watched) THEN {highest} ELSE {},
                      n # None
               PROVE  IF backend = "memory" THEN n < taken'[o]
                      ELSE setBack \/ n <= taken'[o]
    OBVIOUS
  <2>1. TypeOK /\ CountersBounded
    BY DEF IInv
  <2>2. PICK q \in Ops : Counter(q)
    BY DEF Next, Start, Stop, RegisterKey, SaveCredential, SignASN1, Tick, SetClockBack,
           vars, process, TypeOK, IInv
  <2>3. q = o
    BY <2>1, <2>2 DEF Counter, TypeOK
  <2>4. \/ \E p \in Ops : n = taken[p]
        \/ Current(watched) /\ n = highest
    OBVIOUS
  <2>5. CASE backend = "memory"
    <3>1. counter < MaxCounter /\ counter' = (counter + 1) % CounterMod
          /\ taken' = [taken EXCEPT ![o] = counter']
      BY <2>2, <2>3, <2>5 DEF Counter
    <3>2. counter \in Nat /\ taken'[o] = counter + 1
      BY <2>1, <3>1, CounterSmall DEF TypeOK
    <3>3. n \in Nat /\ n <= counter
      BY <2>1, <2>4, <2>5, BoundsAssumption DEF CountersBounded, TypeOK
    <3> QED BY <2>5, <3>2, <3>3
  <2>6. CASE backend = "tpm" /\ ~setBack
    <3>1. taken'[o] = Seconds
      BY <2>1, <2>2, <2>3, <2>6 DEF Counter, TypeOK
    <3>2. n <= Seconds
      BY <2>1, <2>4, <2>6 DEF CountersBounded, Current
    <3> QED BY <2>6, <3>1, <3>2
  <2>7. backend \in {"tpm", "memory"}
    BY <2>1, <2>2 DEF Counter, TypeOK
  <2> QED BY <2>5, <2>6, <2>7
<1> QED BY Invariance, <1>1, PTL DEF Spec, CountersGrow

=============================================================================
