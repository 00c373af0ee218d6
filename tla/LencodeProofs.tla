--------------------------- MODULE LencodeProofs ---------------------------
(***************************************************************************)
(* Theorems about Lencode, for every separator, every greatest length and  *)
(* every byte string: what the decoder accepts is exactly what the encoder *)
(* writes.                                                                 *)
(***************************************************************************)
EXTENDS Lencode, SequenceTheorems, TLAPS

(* Cutting a string in two and joining two strings.                        *)

LEMMA Element ==
  ASSUME NEW S, NEW s \in Seq(S), NEW m \in Nat, NEW n \in Nat, 1 <= m, n <= Len(s)
  PROVE  \A i \in m .. n : s[i] \in S
<1> SUFFICES ASSUME NEW i \in m .. n PROVE s[i] \in S
  OBVIOUS
<1>1. Len(s) \in Nat
  BY LenProperties
<1>2. i \in 1 .. Len(s)
  BY <1>1
<1> QED BY <1>2, ElementOfSeq

LEMMA CutJoin ==
  ASSUME NEW S, NEW s \in Seq(S), NEW n \in 0 .. Len(s)
  PROVE  /\ SubSeq(s, 1, n) \in Seq(S) /\ Len(SubSeq(s, 1, n)) = n
         /\ Drop(s, n) \in Seq(S) /\ Len(Drop(s, n)) = Len(s) - n
         /\ SubSeq(s, 1, n) \o Drop(s, n) = s
<1>1. Len(s) \in Nat /\ n \in Nat /\ n <= Len(s)
  BY LenProperties
<1>2. /\ SubSeq(s, 1, n) \in Seq(S)
      /\ Len(SubSeq(s, 1, n)) = IF 1 <= n THEN n - 1 + 1 ELSE 0
  <2>1. \A i \in 1 .. n : s[i] \in S
    BY <1>1, Element
  <2> QED BY <1>1, <2>1, SubSeqProperties
<1>3. /\ SubSeq(s, n + 1, Len(s)) \in Seq(S)
      /\ Len(SubSeq(s, n + 1, Len(s))) = IF n + 1 <= Len(s) THEN Len(s) - (n + 1) + 1 ELSE 0
  <2>1. n + 1 \in Nat /\ 1 <= n + 1
    BY <1>1
  <2>2. \A i \in n + 1 .. Len(s) : s[i] \in S
    BY <1>1, <2>1, Element
  <2> QED BY <1>1, <2>1, <2>2, SubSeqProperties
<1>4. SubSeq(s, 1, n) \o SubSeq(s, n + 1, Len(s)) = SubSeq(s, 1, Len(s))
  <2>1. 1 \in 1 .. Len(s) + 1 /\ n \in 1 - 1 .. Len(s) /\ Len(s) \in n .. Len(s)
    BY <1>1
  <2> QED BY <2>1, ConcatAdjacentSubSeq
<1>5. SubSeq(s, 1, Len(s)) = s
  BY SubSeqFull
<1>6. Len(SubSeq(s, 1, n)) = n
  BY <1>1, <1>2
<1>7. Len(SubSeq(s, n + 1, Len(s))) = Len(s) - n
  BY <1>1, <1>3
<1> QED BY <1>2, <1>3, <1>4, <1>5, <1>6, <1>7 DEF Drop

LEMMA JoinCut ==
  ASSUME NEW S, NEW s \in Seq(S), NEW t \in Seq(S)
  PROVE  /\ s \o t \in Seq(S) /\ Len(s \o t) = Len(s) + Len(t)
         /\ Len(s) \in 0 .. Len(s \o t)
         /\ SubSeq(s \o t, 1, Len(s)) = s
         /\ Drop(s \o t, Len(s)) = t
<1> DEFINE u == s \o t
           m == Len(s)
           n == Len(t)
           v == SubSeq(u, 1, m)
<1>1. m \in Nat /\ n \in Nat
  BY LenProperties
<1>2. /\ u \in Seq(S) /\ Len(u) = m + n
      /\ \A i \in 1 .. m + n : u[i] = IF i <= m THEN s[i] ELSE t[i - m]
  BY ConcatProperties
<1> HIDE DEF u, m, n
<1>3. v = s
  <2>1. \A i \in 1 .. m : u[i] \in S
    BY <1>1, <1>2, Element
  <2>2. /\ v \in Seq(S)
        /\ Len(v) = IF 1 <= m THEN m - 1 + 1 ELSE 0
        /\ \A i \in 1 .. m - 1 + 1 : v[i] = u[1 + i - 1]
    BY <1>1, <2>1, SubSeqProperties
  <2> HIDE DEF v
  <2>3. Len(v) = m /\ \A i \in 1 .. m : v[i] = u[i]
    BY <1>1, <2>2
  <2>4. \A i \in 1 .. m : v[i] = s[i]
    BY <1>1, <1>2, <2>3
  <2> QED BY <2>2, <2>3, <2>4, SeqEqual DEF m
<1>4. m \in 0 .. m + n
  BY <1>1
<1>5. Drop(u, m) = t
  <2>1. m \in 0 .. Len(u)
    BY <1>2, <1>4
  <2>2. Drop(u, m) \in Seq(S) /\ v \o Drop(u, m) = u
    BY <1>2, <2>1, CutJoin
  <2>3. s \o Drop(u, m) = s \o t
    BY <1>3, <2>2 DEF u
  <2> HIDE DEF v
  <2> QED BY ONLY <2>2, <2>3, s \in Seq(S), t \in Seq(S), ConcatSimplifications
<1> QED BY <1>2, <1>3, <1>4, <1>5 DEF u, m, n

(* The same of byte strings.                                               *)

LEMMA BytesLen == \A s \in Bytes : Len(s) \in Nat
BY LenProperties DEF Bytes

LEMMA BytesElement == \A s \in Bytes : \A i \in 1 .. Len(s) : s[i] \in 0 .. MaxLen
BY ElementOfSeq DEF Bytes

LEMMA BytesCut ==
  \A s \in Bytes : \A n \in 0 .. Len(s) :
    /\ SubSeq(s, 1, n) \in Bytes /\ Len(SubSeq(s, 1, n)) = n
    /\ Drop(s, n) \in Bytes /\ Len(Drop(s, n)) = Len(s) - n
    /\ SubSeq(s, 1, n) \o Drop(s, n) = s
BY CutJoin DEF Bytes

LEMMA BytesJoin ==
  \A s, t \in Bytes :
    /\ s \o t \in Bytes /\ Len(s \o t) = Len(s) + Len(t)
    /\ Len(s) \in 0 .. Len(s \o t)
    /\ SubSeq(s \o t, 1, Len(s)) = s
    /\ Drop(s \o t, Len(s)) = t
BY JoinCut DEF Bytes

LEMMA BytesAssoc == \A s, t, u \in Bytes : (s \o t) \o u = s \o (t \o u)
BY ConcatAssociative DEF Bytes

LEMMA BytesFront ==
  \A s, t \in Bytes : \A n \in 1 .. Len(s) :
    SubSeq(s \o t, 1, n) = SubSeq(s, 1, n) /\ (s \o t)[n] = s[n]
<1> SUFFICES ASSUME NEW s \in Bytes, NEW t \in Bytes, NEW n \in 1 .. Len(s)
             PROVE  SubSeq(s \o t, 1, n) = SubSeq(s, 1, n) /\ (s \o t)[n] = s[n]
  OBVIOUS
<1>1. Len(s) \in Nat /\ Len(t) \in Nat
  BY BytesLen
<1>2. 1 \in 1 .. Len(s) /\ n \in 1 .. Len(s) + Len(t) /\ n <= Len(s)
  BY <1>1
<1>3. SubSeq(s \o t, 1, n) = SubSeq(s, 1, n)
  BY <1>2, SubSeqOfConcat1 DEF Bytes
<1>4. (s \o t)[n] = s[n]
  BY <1>2, ConcatProperties DEF Bytes
<1> QED BY <1>3, <1>4

LEMMA Prefix ==
  Separator \in Bytes /\ PrefixLen \in Nat /\ PrefixLen = Len(Separator) + 1 /\ Len(Separator) \in Nat
<1>1. Separator \in Bytes
  BY LencodeAssumption DEF Bytes
<1>2. Len(Separator) \in Nat
  BY LencodeAssumption, LenProperties
<1> QED BY <1>1, <1>2 DEF PrefixLen

LEMMA One ==
  ASSUME NEW n \in 0 .. MaxLen
  PROVE  <<n>> \in Bytes /\ Len(<<n>>) = 1 /\ <<n>>[1] = n
BY DEF Bytes

\* A frame is a string of bytes, and begins with its prefix.
LEMMA FrameParts ==
  ASSUME NEW msg \in Bytes, Len(msg) <= MaxLen
  PROVE  /\ Separator \o <<Len(msg)>> \in Bytes
         /\ Len(Separator \o <<Len(msg)>>) = PrefixLen
         /\ (Separator \o <<Len(msg)>>)[PrefixLen] = Len(msg)
         /\ SubSeq(Separator \o <<Len(msg)>>, 1, Len(Separator)) = Separator
         /\ Frame(msg) \in Bytes
         /\ Frame(msg) = (Separator \o <<Len(msg)>>) \o msg
<1> DEFINE n == Len(msg)
           u == Separator \o <<n>>
<1>1. n \in 0 .. MaxLen
  BY LenProperties DEF Bytes
<1>2. <<n>> \in Bytes /\ Len(<<n>>) = 1 /\ <<n>>[1] = n
  BY <1>1, One
<1>3. /\ u \in Bytes /\ Len(u) = Len(Separator) + 1
      /\ \A i \in 1 .. Len(Separator) + 1 :
           u[i] = IF i <= Len(Separator) THEN Separator[i] ELSE <<n>>[i - Len(Separator)]
  BY <1>2, Prefix, ConcatProperties DEF Bytes
<1>4. SubSeq(u, 1, Len(Separator)) = Separator
  BY <1>2, Prefix, JoinCut DEF Bytes
<1>5. u[PrefixLen] = n
  <2>1. PrefixLen \in 1 .. Len(Separator) + 1 /\ ~(PrefixLen <= Len(Separator))
        /\ PrefixLen - Len(Separator) = 1
    BY Prefix
  <2> QED BY <1>2, <1>3, <2>1
<1>6. u \o msg \in Bytes
  BY <1>3, ConcatProperties DEF Bytes
<1> QED BY <1>3, <1>4, <1>5, <1>6, Prefix DEF Frame

-----------------------------------------------------------------------------
(* The decoder.                                                            *)

Errors == {"none", "EOF", "UnexpectedEOF", "SeparatorMismatch", "BufferTooSmall", "panic"}

Decoder == [rest : Bytes, err : Errors, pendingLen : Int, msg : Bytes]

\* No call has failed, and no message is begun.
Ready(d) == d \in Decoder /\ d.err = "none" /\ d.pendingLen = -1

LEMMA NewDecoderReady ==
  ASSUME NEW s \in Bytes PROVE Ready(NewDecoder(s)) /\ NewDecoder(s).rest = s
<1>1. <<>> \in Bytes
  BY EmptySeq DEF Bytes
<1>2. NewDecoder(s) \in Decoder /\ NewDecoder(s).rest = s
  BY <1>1 DEF Decoder, NewDecoder, Errors
<1> QED BY <1>2 DEF Ready, NewDecoder

\* A prefix is read only from where the separator and one more byte stand.
LEMMA PrefixRead ==
  ASSUME NEW d, Ready(d), ReadPrefix(d).err = "none"
  PROVE  /\ PrefixLen \in 1 .. Len(d.rest)
         /\ SubSeq(d.rest, 1, Len(Separator)) = Separator
         /\ d.rest[PrefixLen] \in 0 .. MaxLen
         /\ Drop(d.rest, PrefixLen) \in Bytes
         /\ ReadPrefix(d) \in Decoder
         /\ ReadPrefix(d).pendingLen = d.rest[PrefixLen]
         /\ ReadPrefix(d).rest = Drop(d.rest, PrefixLen)
<1>1. d.rest \in Bytes /\ Len(d.rest) \in Nat /\ d.err = "none" /\ d.pendingLen = -1
      /\ d \in Decoder
  BY BytesLen DEF Ready, Decoder
<1>2. d.rest # <<>> /\ ~(Len(d.rest) < PrefixLen)
      /\ SubSeq(d.rest, 1, Len(Separator)) = Separator
      /\ ReadPrefix(d) = [d EXCEPT !.pendingLen = d.rest[PrefixLen],
                                   !.rest = Drop(@, PrefixLen)]
  BY <1>1 DEF ReadPrefix, Decoder
<1>3. PrefixLen \in 1 .. Len(d.rest)
  BY <1>1, <1>2, Prefix
<1>4. d.rest[PrefixLen] \in 0 .. MaxLen
  BY <1>1, <1>3, BytesElement
<1>5. Drop(d.rest, PrefixLen) \in Bytes
  BY <1>1, <1>3, BytesCut
<1>6. d.rest[PrefixLen] \in Int
  BY <1>4, LencodeAssumption
<1>7. /\ ReadPrefix(d) \in Decoder
      /\ ReadPrefix(d).pendingLen = d.rest[PrefixLen]
      /\ ReadPrefix(d).rest = Drop(d.rest, PrefixLen)
  BY <1>1, <1>2, <1>5, <1>6 DEF Decoder
<1> QED BY <1>2, <1>3, <1>4, <1>5, <1>7

\* A prefix is read wherever a frame begins.
LEMMA PrefixOfFrame ==
  ASSUME NEW d, Ready(d), NEW msg \in Bytes, NEW t \in Bytes,
         Len(msg) <= MaxLen, d.rest = Frame(msg) \o t
  PROVE  /\ msg \o t \in Bytes
         /\ ReadPrefix(d) \in Decoder
         /\ ReadPrefix(d).err = "none"
         /\ ReadPrefix(d).pendingLen = Len(msg)
         /\ ReadPrefix(d).rest = msg \o t
<1> DEFINE pre == Separator \o <<Len(msg)>>
           r == d.rest
<1>1. pre \in Bytes /\ Len(pre) = PrefixLen /\ pre[PrefixLen] = Len(msg)
      /\ SubSeq(pre, 1, Len(Separator)) = Separator /\ Frame(msg) = pre \o msg
  BY FrameParts
<1>2. d \in Decoder /\ d.err = "none" /\ d.pendingLen = -1 /\ r \in Bytes
  BY DEF Ready, Decoder
<1>3. msg \o t \in Bytes
  BY BytesJoin
<1> HIDE DEF pre
<1>4. r = pre \o (msg \o t)
  BY <1>1, BytesAssoc
<1>5. Len(r) \in Nat /\ PrefixLen \in 1 .. Len(r)
      /\ SubSeq(r, 1, PrefixLen) = pre /\ Drop(r, PrefixLen) = msg \o t
  <2>1. PrefixLen \in 0 .. Len(pre \o (msg \o t))
        /\ SubSeq(pre \o (msg \o t), 1, PrefixLen) = pre
        /\ Drop(pre \o (msg \o t), PrefixLen) = msg \o t
    BY <1>1, <1>3, BytesJoin
  <2>2. Len(r) \in Nat
    BY <1>2, BytesLen
  <2> QED BY <1>4, <2>1, <2>2, Prefix
<1>6. PrefixLen \in 1 .. Len(pre)
  BY <1>1, Prefix
<1>7. r[PrefixLen] = Len(msg)
  BY <1>1, <1>3, <1>4, <1>6, BytesFront
<1>8. SubSeq(r, 1, Len(Separator)) = Separator
  <2>1. CASE Len(Separator) = 0
    <3>1. SubSeq(r, 1, Len(Separator)) = <<>>
      BY <2>1, SubSeqEmpty
    <3>2. Separator = <<>>
      BY <2>1, Prefix, EmptySeq DEF Bytes
    <3> QED BY <3>1, <3>2
  <2>2. CASE Len(Separator) # 0
    <3>1. 1 \in 1 .. Len(pre) /\ Len(Separator) \in 1 .. Len(pre)
      BY <1>1, <2>2, Prefix
    <3>2. SubSeq(pre \o (msg \o t), 1, Len(Separator)) = SubSeq(pre, 1, Len(Separator))
      BY <1>1, <1>3, <3>1, BytesFront
    <3> QED BY <1>1, <1>4, <3>2
  <2> QED BY <2>1, <2>2
<1>9. ~(Len(r) < PrefixLen) /\ r # <<>>
  BY <1>2, <1>5, Prefix, EmptySeq
<1>10. ReadPrefix(d) = [d EXCEPT !.pendingLen = r[PrefixLen], !.rest = Drop(@, PrefixLen)]
  BY <1>2, <1>8, <1>9 DEF ReadPrefix
<1>11. Len(msg) \in Int
  BY BytesLen
<1> QED BY <1>2, <1>3, <1>5, <1>7, <1>10, <1>11, ZenonT(60) DEF Decoder

LEMMA DecodeFails ==
  ASSUME NEW d, ReadPrefix(d).err # "none" PROVE Decode(d) = ReadPrefix(d)
BY DEF Decode

\* NextLen reads the prefix once: DecodeInto goes on from there, and with a
\* slice of that length it does what Decode does.
LEMMA DecodeReads ==
  ASSUME NEW d, Ready(d), ReadPrefix(d).err = "none"
  PROVE  LET p == ReadPrefix(d)
         IN /\ NextLen(d) = p.pendingLen
            /\ DecodeInto(p, NextLen(d), NextLen(d)) = Decode(d)
            /\ Decode(d) = IF Len(p.rest) < p.pendingLen
                            THEN [p EXCEPT !.err = "UnexpectedEOF", !.rest = <<>>]
                            ELSE [p EXCEPT !.msg = SubSeq(p.rest, 1, p.pendingLen),
                                           !.pendingLen = -1, !.rest = Drop(@, p.pendingLen)]
<1> DEFINE p == ReadPrefix(d)
<1>1. p.err = "none" /\ p.pendingLen \in 0 .. MaxLen
  BY PrefixRead
<1>2. ReadPrefix(p) = p /\ ~(p.pendingLen < p.pendingLen) /\ NextLen(d) = p.pendingLen
  BY <1>1, LencodeAssumption DEF ReadPrefix, NextLen
<1> HIDE DEF p
<1>3. Decode(d) = DecodeInto(p, p.pendingLen, p.pendingLen)
  BY <1>1 DEF Decode, p
<1>4. DecodeInto(p, p.pendingLen, p.pendingLen) =
        IF Len(p.rest) < p.pendingLen
        THEN [p EXCEPT !.err = "UnexpectedEOF", !.rest = <<>>]
        ELSE [p EXCEPT !.msg = SubSeq(p.rest, 1, p.pendingLen),
                       !.pendingLen = -1, !.rest = Drop(@, p.pendingLen)]
  BY <1>1, <1>2 DEF DecodeInto
<1> QED BY <1>2, <1>3, <1>4 DEF p

\* Soundness of the decoder, for the separator and the exactness that
\* lencode.go promises: a message it accepts stands in the stream exactly as
\* the encoder would have written it, and the decoder is left behind it.
THEOREM DecodeCanonical ==
  ASSUME NEW d, Ready(d), Decode(d).err = "none"
  PROVE  /\ Ready(Decode(d))
         /\ Len(Decode(d).msg) <= MaxLen
         /\ d.rest = Frame(Decode(d).msg) \o Decode(d).rest
<1> DEFINE r == d.rest
           p == ReadPrefix(d)
           n == r[PrefixLen]
           q == Drop(r, PrefixLen)
           msg == SubSeq(q, 1, n)
           pre == Separator \o <<n>>
<1>1. p.err = "none" /\ ~(Len(p.rest) < p.pendingLen)
      /\ Decode(d) = [p EXCEPT !.msg = SubSeq(p.rest, 1, p.pendingLen),
                               !.pendingLen = -1, !.rest = Drop(@, p.pendingLen)]
  <2>1. p.err = "none"
    BY DecodeFails
  <2>2. p \in Decoder
    BY <2>1, PrefixRead
  <2> HIDE DEF p
  <2> QED BY <2>1, <2>2, DecodeReads DEF p, Decoder
<1>2. /\ PrefixLen \in 1 .. Len(r) /\ SubSeq(r, 1, Len(Separator)) = Separator
      /\ n \in 0 .. MaxLen /\ q \in Bytes
      /\ p \in Decoder /\ p.pendingLen = n /\ p.rest = q
  BY <1>1, PrefixRead
<1>3. d \in Decoder /\ d.err = "none" /\ r \in Bytes /\ Len(r) \in Nat
  BY BytesLen DEF Ready, Decoder
<1> HIDE DEF p, q, n
<1>4. p.rest = q /\ p.pendingLen = n /\ p \in Decoder /\ p.err = "none"
  BY <1>1, <1>2
<1>5. n \in 0 .. Len(q)
  BY <1>1, <1>2, <1>4, BytesLen
<1>6. msg \in Bytes /\ Len(msg) = n /\ Drop(q, n) \in Bytes /\ msg \o Drop(q, n) = q
  BY <1>2, <1>5, BytesCut
<1> HIDE DEF msg
<1>7. Decode(d) = [p EXCEPT !.msg = msg, !.pendingLen = -1, !.rest = Drop(q, n)]
  BY <1>1, <1>4 DEF msg, Decoder
<1>8. Ready(Decode(d)) /\ Decode(d).msg = msg /\ Decode(d).rest = Drop(q, n)
  BY <1>4, <1>6, <1>7 DEF Ready, Decoder
<1>9. SubSeq(r, 1, PrefixLen) = pre
  <2>1. SubSeq(r, 1, PrefixLen) = SubSeq(r, 1, PrefixLen - 1) \o <<n>>
    BY <1>2, <1>3, SubSeqRecursiveSecond, Prefix DEF Bytes, n
  <2>2. PrefixLen - 1 = Len(Separator)
    BY Prefix
  <2> QED BY <1>2, <2>1, <2>2
<1>10. r = pre \o q
  <2>1. PrefixLen \in 0 .. Len(r)
    BY <1>2, <1>3
  <2>2. SubSeq(r, 1, PrefixLen) \o q = r
    BY <1>3, <2>1, BytesCut DEF q
  <2> QED BY <1>9, <2>2
<1>11. pre \in Bytes /\ Frame(msg) = pre \o msg
  <2>1. Len(msg) <= MaxLen
    BY <1>2, <1>6, LencodeAssumption
  <2> QED BY <1>6, <2>1, FrameParts
<1> HIDE DEF pre
<1>12. r = Frame(msg) \o Drop(q, n)
  <2>1. pre \o (msg \o Drop(q, n)) = (pre \o msg) \o Drop(q, n)
    BY <1>6, <1>11, BytesAssoc
  <2>2. r = pre \o (msg \o Drop(q, n))
    BY <1>6, <1>10
  <2> QED BY <1>11, <2>1, <2>2
<1>13. n <= MaxLen
  BY <1>2, LencodeAssumption
<1> QED BY <1>6, <1>8, <1>12, <1>13

\* Completeness: from where a message was encoded the decoder returns it and
\* goes on behind it.
THEOREM DecodeFrame ==
  ASSUME NEW d, Ready(d), NEW msg \in Bytes, NEW t \in Bytes,
         Len(msg) <= MaxLen, d.rest = Frame(msg) \o t
  PROVE  Ready(Decode(d)) /\ Decode(d).msg = msg /\ Decode(d).rest = t
<1> DEFINE p == ReadPrefix(d)
<1>1. /\ msg \o t \in Bytes
      /\ p \in Decoder /\ p.err = "none" /\ p.pendingLen = Len(msg) /\ p.rest = msg \o t
  BY PrefixOfFrame
<1>3. Len(msg) \in Nat /\ ~(Len(msg \o t) < Len(msg))
      /\ SubSeq(msg \o t, 1, Len(msg)) = msg /\ Drop(msg \o t, Len(msg)) = t
  <2>1. /\ Len(msg) \in Nat /\ Len(msg) \in 0 .. Len(msg \o t)
        /\ SubSeq(msg \o t, 1, Len(msg)) = msg /\ Drop(msg \o t, Len(msg)) = t
    BY BytesJoin, BytesLen
  <2>2. Len(msg \o t) \in Nat
    BY <1>1, BytesLen
  <2> QED BY <2>1, <2>2
<1> HIDE DEF p
<1>4. Decode(d) = [p EXCEPT !.msg = msg, !.pendingLen = -1, !.rest = t]
  BY <1>1, <1>3, DecodeReads DEF p, Decoder
<1> QED BY <1>1, <1>4 DEF Ready, Decoder

\* At the end of the stream, and only there, the decoder says so.
LEMMA DecodeEnd ==
  ASSUME NEW d, Ready(d)
  PROVE  Decode(d).err = "EOF" <=> d.rest = <<>>
<1> DEFINE p == ReadPrefix(d)
<1>1. d \in Decoder /\ d.err = "none" /\ d.pendingLen = -1
  BY DEF Ready
<1>2. CASE d.rest = <<>>
  <2>1. p.err = "EOF"
    BY <1>1, <1>2 DEF ReadPrefix, Decoder
  <2>2. Decode(d) = p
    BY <2>1, DecodeFails
  <2> QED BY <1>2, <2>1, <2>2
<1>3. CASE d.rest # <<>>
  <2>1. p \in [rest : {<<>>} \cup {Drop(d.rest, PrefixLen)}, err : Errors \ {"EOF"},
               pendingLen : {-1, d.rest[PrefixLen]}, msg : Bytes]
    BY <1>1, <1>3 DEF ReadPrefix, Decoder, Errors
  <2> HIDE DEF p
  <2>2. CASE p.err # "none"
    <3>1. Decode(d) = p
      BY <2>2, DecodeFails DEF p
    <3> QED BY <1>3, <2>1, <3>1
  <2>3. CASE p.err = "none"
    <3>1. Decode(d).err \in {"UnexpectedEOF", p.err}
      BY <2>1, <2>3, DecodeReads DEF p
    <3> QED BY <1>3, <2>3, <3>1
  <2> QED BY <2>2, <2>3
<1> QED BY <1>2, <1>3

-----------------------------------------------------------------------------
(* Reading parts out of a string that joins them.                          *)

\* Strings of numbers, joined.
Octets == Seq(Nat)

s ++ t == s \o t

LEMMA Assoc == \A s, t, u \in Octets : (s \o t) \o u = s \o (t \o u)
BY ConcatAssociative, SMTT(20) DEF Octets

LEMMA OctetsLen == \A s \in Octets : Len(s) \in Nat
BY LenProperties DEF Octets

LEMMA OctetsJoin ==
  \A s, t \in Octets :
    /\ s \o t \in Octets /\ Len(s \o t) = Len(s) + Len(t)
    /\ Len(s) \in 0 .. Len(s \o t)
    /\ SubSeq(s \o t, 1, Len(s)) = s
    /\ Drop(s \o t, Len(s)) = t
BY JoinCut DEF Octets

LEMMA OctetsCut ==
  \A s \in Octets : \A n \in 0 .. Len(s) :
    /\ SubSeq(s, 1, n) \in Octets /\ Len(SubSeq(s, 1, n)) = n
    /\ SubSeq(s, 1, n) \o Drop(s, n) = s
BY CutJoin DEF Octets

LEMMA Joined ==
  \A s, t \in Octets :
    /\ \A i \in 1 .. Len(s) : (s \o t)[i] = s[i]
    /\ \A i \in 1 .. Len(t) : (s \o t)[Len(s) + i] = t[i]
<1> SUFFICES ASSUME NEW s \in Octets, NEW t \in Octets
             PROVE  /\ \A i \in 1 .. Len(s) : (s \o t)[i] = s[i]
                    /\ \A i \in 1 .. Len(t) : (s \o t)[Len(s) + i] = t[i]
  OBVIOUS
<1> DEFINE u == s \o t
           m == Len(s)
           n == Len(t)
<1>1. m \in Nat /\ n \in Nat
  BY OctetsLen
<1>2. \A i \in 1 .. m + n : u[i] = IF i <= m THEN s[i] ELSE t[i - m]
  BY ConcatProperties DEF Octets
<1> HIDE DEF u, m, n
<1>3. \A i \in 1 .. m : u[i] = s[i]
  BY <1>1, <1>2
<1>4. \A i \in 1 .. n : u[m + i] = t[i]
  <2> SUFFICES ASSUME NEW i \in 1 .. n PROVE u[m + i] = t[i]
    OBVIOUS
  <2> DEFINE j == m + i
  <2>1. j \in 1 .. m + n /\ ~(j <= m) /\ j - m = i
    BY <1>1
  <2> HIDE DEF j
  <2>2. u[j] = t[j - m]
    BY <1>2, <2>1
  <2>3. u[j] = t[i]
    BY <2>1, <2>2
  <2> QED BY <2>3 DEF j
<1> QED BY <1>2, <1>3, <1>4 DEF u, m, n

LEMMA CatAssoc == \A s, t, u \in Octets : (s ++ t) ++ u = s ++ (t ++ u)
BY Assoc DEF ++

LEMMA CatIn == \A s, t \in Octets : s ++ t \in Octets
BY OctetsJoin DEF ++

LEMMA CatLen == \A s, t \in Octets : Len(s ++ t) = Len(s) + Len(t)
BY OctetsJoin DEF ++

LEMMA CatCut ==
  \A s, t \in Octets :
    /\ Len(s) \in 0 .. Len(s ++ t)
    /\ SubSeq(s ++ t, 1, Len(s)) = s
    /\ Drop(s ++ t, Len(s)) = t
BY OctetsJoin DEF ++

LEMMA CatElements ==
  \A s, t \in Octets :
    /\ \A i \in 1 .. Len(s) : (s ++ t)[i] = s[i]
    /\ \A i \in 1 .. Len(t) : (s ++ t)[Len(s) + i] = t[i]
BY Joined DEF ++

LEMMA CutCat ==
  \A s \in Octets : \A n \in 0 .. Len(s) :
    /\ SubSeq(s, 1, n) \in Octets /\ Len(SubSeq(s, 1, n)) = n
    /\ s = SubSeq(s, 1, n) ++ Drop(s, n)
BY OctetsCut DEF ++

LEMMA SliceRight ==
  ASSUME NEW p \in Octets, NEW t \in Octets,
         NEW i \in Len(p) + 1 .. Len(p) + Len(t), NEW j \in Len(p) + 1 .. Len(p) + Len(t)
  PROVE  SubSeq(p ++ t, i, j) = SubSeq(t, i - Len(p), j - Len(p))
BY SubSeqOfConcat2 DEF Octets, ++

LEMMA Regroup4 ==
  ASSUME NEW a \in Octets, NEW b \in Octets, NEW c \in Octets, NEW d \in Octets
  PROVE  /\ ((a ++ b) ++ c) ++ d \in Octets
         /\ ((a ++ b) ++ c) ++ d = a ++ (b ++ (c ++ d))
BY CatAssoc, CatIn, SMTT(20)

LEMMA Regroup5 ==
  ASSUME NEW a \in Octets, NEW b \in Octets, NEW c \in Octets, NEW d \in Octets,
         NEW e \in Octets
  PROVE  (((a ++ b) ++ c) ++ d) ++ e = a ++ (b ++ (c ++ (d ++ e)))
<1>1. d ++ e \in Octets /\ (a ++ b) ++ c \in Octets
  BY CatIn
<1>2. (((a ++ b) ++ c) ++ d) ++ e = ((a ++ b) ++ c) ++ (d ++ e)
  BY <1>1, CatAssoc
<1>3. ((a ++ b) ++ c) ++ (d ++ e) = a ++ (b ++ (c ++ (d ++ e)))
  BY <1>1, Regroup4
<1> QED BY <1>2, <1>3

\* t stands in s behind its first k numbers.
Stands(s, k, t) == k \in 0 .. Len(s) /\ Drop(s, k) = t

LEMMA ReadFrom == \A s \in Octets : Stands(s, 0, s)
<1> SUFFICES ASSUME NEW s \in Octets PROVE Stands(s, 0, s)
  OBVIOUS
<1>1. Len(s) \in Nat
  BY OctetsLen
<1>2. Drop(s, 0) = s
  BY SubSeqFull DEF Drop, Octets
<1> QED BY <1>1, <1>2 DEF Stands

\* Reading on: where b stands before c, and what is left behind it.
LEMMA ReadOn ==
  ASSUME NEW s \in Octets, NEW b \in Octets, NEW c \in Octets, NEW k \in Nat,
         Stands(s, k, b ++ c)
  PROVE  /\ Stands(s, k + Len(b), c)
         /\ SubSeq(s, k + 1, k + Len(b)) = b
         /\ \A i \in 1 .. Len(b) : s[k + i] = b[i]
<1> DEFINE p == SubSeq(s, 1, k)
           q == p ++ b
           t == b ++ c
           n == Len(b)
<1>1. p \in Octets /\ Len(p) = k /\ s = p ++ t
  BY CutCat DEF Stands
<1>2. n \in Nat /\ k \in Nat /\ Len(c) \in Nat
  BY OctetsLen
<1> HIDE DEF p
<1>3. q \in Octets /\ Len(q) = k + n
  BY <1>1, CatIn, CatLen
<1>4. s = q ++ c
  BY <1>1, CatAssoc
<1>5. t \in Octets /\ Len(t) = n + Len(c) /\ SubSeq(t, 1, n) = b
      /\ \A i \in 1 .. n : t[i] = b[i]
  BY CatIn, CatLen, CatCut, CatElements, OctetsLen
<1> HIDE DEF q, t
<1>6. Len(q) \in 0 .. Len(s) /\ Drop(s, Len(q)) = c
  BY <1>3, <1>4, CatCut
<1>7. \A i \in 1 .. n : s[k + i] = b[i]
  <2>1. \A i \in 1 .. Len(t) : s[k + i] = t[i]
    BY <1>1, <1>5, CatElements
  <2>2. \A i \in 1 .. n : i \in 1 .. Len(t)
    BY <1>2, <1>5
  <2> QED BY <1>5, <2>1, <2>2
<1> HIDE DEF n
<1>8. SubSeq(s, k + 1, k + n) = b
  <2>1. CASE n = 0
    <3>1. SubSeq(s, k + 1, k + n) = <<>>
      BY <1>2, <2>1, SubSeqEmpty
    <3>2. b = <<>>
      BY <2>1, EmptySeq DEF n, Octets
    <3> QED BY <3>1, <3>2
  <2>2. CASE n # 0
    <3> DEFINE i == k + 1
               j == k + n
    <3>1. i \in k + 1 .. k + Len(t) /\ j \in k + 1 .. k + Len(t)
          /\ i - k = 1 /\ j - k = n
      BY <1>2, <1>5, <2>2
    <3> HIDE DEF i, j
    <3>2. i \in Len(p) + 1 .. Len(p) + Len(t) /\ j \in Len(p) + 1 .. Len(p) + Len(t)
          /\ i - Len(p) = 1 /\ j - Len(p) = n
      BY <1>1, <3>1
    <3>4. SubSeq(p ++ t, i, j) = SubSeq(t, i - Len(p), j - Len(p))
      <4>1. p \in Octets /\ t \in Octets
        BY <1>1, <1>5
      <4> QED BY <3>2, <4>1, SliceRight
    <3>5. SubSeq(s, i, j) = b
      BY <1>1, <1>5, <3>2, <3>4
    <3> QED BY <3>5 DEF i, j
  <2> QED BY <2>1, <2>2
<1> QED BY <1>2, <1>3, <1>6, <1>7, <1>8 DEF n, Stands

LEMMA NextStands ==
  \A s, b, c \in Octets : \A k \in Nat : Stands(s, k, b ++ c) =>
    Stands(s, k + Len(b), c) /\ SubSeq(s, k + 1, k + Len(b)) = b
BY ReadOn

LEMMA NextElements ==
  \A s, b, c \in Octets : \A k \in Nat : Stands(s, k, b ++ c) =>
    \A i \in 1 .. Len(b) : s[k + i] = b[i]
BY ReadOn

LEMMA FirstStands ==
  \A s, b, c \in Octets : Stands(s, 0, b ++ c) =>
    Stands(s, Len(b), c) /\ SubSeq(s, 1, Len(b)) = b
<1> SUFFICES ASSUME NEW s \in Octets, NEW b \in Octets, NEW c \in Octets,
                    Stands(s, 0, b ++ c)
             PROVE  Stands(s, Len(b), c) /\ SubSeq(s, 1, Len(b)) = b
  OBVIOUS
<1>1. Stands(s, 0 + Len(b), c) /\ SubSeq(s, 0 + 1, 0 + Len(b)) = b
  BY NextStands
<1>2. 0 + Len(b) = Len(b)
  BY OctetsLen
<1> QED BY <1>1, <1>2

LEMMA OneStands ==
  \A s, b, c \in Octets : \A k \in Nat : Stands(s, k, b ++ c) /\ Len(b) = 1 =>
    Stands(s, k + 1, c) /\ s[k + 1] = b[1]
<1> SUFFICES ASSUME NEW s \in Octets, NEW b \in Octets, NEW c \in Octets, NEW k \in Nat,
                    Stands(s, k, b ++ c), Len(b) = 1
             PROVE  Stands(s, k + 1, c) /\ s[k + 1] = b[1]
  OBVIOUS
<1>1. Stands(s, k + 1, c)
  BY NextStands
<1>2. s[k + 1] = b[1]
  BY NextElements, SMTT(20)
<1> QED BY <1>1, <1>2

\* The same, for what is read next and where it ends.
LEMMA StepBy ==
  \A s, b, c \in Octets : \A k, m \in Nat : Stands(s, k, b ++ c) /\ k + Len(b) = m =>
    Stands(s, m, c) /\ SubSeq(s, k + 1, m) = b
BY NextStands

LEMMA StepOn ==
  ASSUME NEW s \in Octets, NEW b \in Octets, NEW c \in Octets, NEW k \in Nat, NEW m \in Nat,
         Stands(s, k, b ++ c), k + Len(b) = m
  PROVE  Stands(s, m, c) /\ SubSeq(s, k + 1, m) = b
BY NextStands

LEMMA TwoStand ==
  \A s, b, c \in Octets : \A k \in Nat : Stands(s, k, b ++ c) /\ Len(b) = 2 =>
    Stands(s, k + 2, c) /\ s[k + 1] = b[1] /\ s[k + 2] = b[2]
<1> SUFFICES ASSUME NEW s \in Octets, NEW b \in Octets, NEW c \in Octets, NEW k \in Nat,
                    Stands(s, k, b ++ c), Len(b) = 2
             PROVE  Stands(s, k + 2, c) /\ s[k + 1] = b[1] /\ s[k + 2] = b[2]
  OBVIOUS
<1>1. Stands(s, k + 2, c)
  BY NextStands
<1>2. \A i \in 1 .. Len(b) : s[k + i] = b[i]
  BY NextElements
<1> QED BY <1>1, <1>2

LEMMA FourStand ==
  \A s, b, c \in Octets : \A k \in Nat : Stands(s, k, b ++ c) /\ Len(b) = 4 =>
    /\ Stands(s, k + 4, c)
    /\ s[k + 1] = b[1] /\ s[k + 2] = b[2] /\ s[k + 3] = b[3] /\ s[k + 4] = b[4]
<1> SUFFICES ASSUME NEW s \in Octets, NEW b \in Octets, NEW c \in Octets, NEW k \in Nat,
                    Stands(s, k, b ++ c), Len(b) = 4
             PROVE  /\ Stands(s, k + 4, c)
                    /\ s[k + 1] = b[1] /\ s[k + 2] = b[2]
                    /\ s[k + 3] = b[3] /\ s[k + 4] = b[4]
  OBVIOUS
<1>1. Stands(s, k + 4, c)
  BY NextStands
<1>2. \A i \in 1 .. Len(b) : s[k + i] = b[i]
  BY NextElements
<1> QED BY <1>1, <1>2

=============================================================================
