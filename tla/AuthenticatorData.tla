-------------------------- MODULE AuthenticatorData --------------------------
(***************************************************************************)
(* What a credential's key signs (ctap2/authenticatordata.go): the         *)
(* authenticator data, with the credential's id and its COSE public key    *)
(* when it is new, and the client data hash, as bytes; and how a relying   *)
(* party reads them.  A byte is a number, a 32-byte word a hash or a       *)
(* coordinate of a point.                                                  *)
(***************************************************************************)
EXTENDS Integers, Sequences

CONSTANTS
  AAGUID,  \* Handler.aaguid
  None     \* Go's nil

Word == [1 .. 32 -> 0 .. 255]

ASSUME AAGUIDAssumption ==
  /\ AAGUID \in [1 .. 16 -> 0 .. 255]
  /\ None \notin [aaguid : {AAGUID}, credentialID : Seq(Nat), credentialPublicKey : Seq(Nat)]

FlagUserPresent == 1
FlagUserVerified == 4
FlagAttestedCredData == 64
FlagExtensionData == 128
Has(flags, flag) == (flags \div flag) % 2 = 1

\* binary.BigEndian of a uint16 and a uint32.
Uint16(n) == <<(n \div 256) % 256, n % 256>>
Uint32(n) == Uint16(n \div 65536) \o Uint16(n)

\* A byte string in CBOR, of less than 256 bytes.
ByteString(b) == (IF Len(b) < 24 THEN <<64 + Len(b)>> ELSE <<88, Len(b)>>) \o b

\* big.Int.Bytes: the number without its leading zeros.
BigIntBytes(x) ==
  LET first == CHOOSE n \in 1 .. Len(x) + 1 :
                 (\A i \in 1 .. n - 1 : x[i] = 0) /\ (n <= Len(x) => x[n] # 0)
  IN SubSeq(x, first, Len(x))

\* Mutated form: what is missing is appended.
PadRight(b) == IF Len(b) >= 32 THEN SubSeq(b, 1, 32) ELSE b \o [i \in 1 .. 32 - Len(b) |-> 0]

PadTo32(b) == IF Len(b) >= 32 THEN SubSeq(b, 1, 32) ELSE [i \in 1 .. 32 - Len(b) |-> 0] \o b

\* {1: 2, 3: -7, -1: 1, -2: x, -3: y}, in canonical order.
BuildCOSEPublicKeyES256(x, y) ==
  <<165, 1, 2, 3, 38, 32, 1, 33>> \o ByteString(PadTo32(BigIntBytes(x)))
    \o <<34>> \o ByteString(PadTo32(BigIntBytes(y)))

\* A part is left out without its flag, or without its data.
Marshal(ad) ==
  ad.rpIDHash \o <<ad.flags>> \o Uint32(ad.signCount)
    \o (IF Has(ad.flags, FlagAttestedCredData) /\ ad.acd # None
        THEN ad.acd.aaguid \o Uint16(Len(ad.acd.credentialID)) \o ad.acd.credentialID
               \o ad.acd.credentialPublicKey
        ELSE <<>>)
    \o (IF Has(ad.flags, FlagExtensionData) THEN ad.extensions ELSE <<>>)

\* What MakeCredential and the two forms of GetAssertion fill in.
Attestation(rpIDHash, count, id, publicKey) ==
  [rpIDHash |-> rpIDHash, signCount |-> count, extensions |-> <<>>,
   flags |-> FlagUserPresent + FlagUserVerified + FlagAttestedCredData,
   acd |-> [aaguid |-> AAGUID, credentialID |-> id, credentialPublicKey |-> publicKey]]

Assertion(rpIDHash, count) ==
  [rpIDHash |-> rpIDHash, signCount |-> count, extensions |-> <<>>,
   flags |-> FlagUserPresent + FlagUserVerified, acd |-> None]

ToSign(ad, clientDataHash) == Marshal(ad) \o clientDataHash

-----------------------------------------------------------------------------
(* The relying party: every part is where the lengths before it say.       *)

Reading(rpIDHash, flags, signCount, id, x, y, clientDataHash) ==
  [rpIDHash |-> rpIDHash, flags |-> flags, signCount |-> signCount, id |-> id,
   x |-> x, y |-> y, clientDataHash |-> clientDataHash]

Read(s) ==
  LET attested == Has(s[33], FlagAttestedCredData)
      key == 55 + s[54] * 256 + s[55]
      count == ((s[34] * 256 + s[35]) * 256 + s[36]) * 256 + s[37]
  IN IF attested
     THEN Reading(SubSeq(s, 1, 32), s[33], count, SubSeq(s, 56, key),
                  SubSeq(s, key + 11, key + 42), SubSeq(s, key + 46, key + 77),
                  SubSeq(s, key + 78, Len(s)))
     ELSE Reading(SubSeq(s, 1, 32), s[33], count, None, None, None, SubSeq(s, 38, Len(s)))

=============================================================================
