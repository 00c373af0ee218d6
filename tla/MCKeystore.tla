----------------------------- MODULE MCKeystore -----------------------------
(* Instances of Keystore for TLC.  The separator is one byte, and the      *)
(* greatest length two, so that blobs have every length; the blobs also    *)
(* hold bytes equal to the separator and to lengths.                       *)
EXTENDS Keystore, TLC

CONSTANTS k0, k1

MCSeparator == <<2>>
MCLegacyKeys == {k0}

\* One point has coordinates that are small numbers.
Numbered(n) == [i \in 1 .. 32 |-> n + i]
Zero == [i \in 1 .. 32 |-> 0]
Short == [i \in 1 .. 32 |-> IF i <= 2 THEN 0 ELSE 8 + i]

MCRandom ==
  [k \in Keys |->
    CASE k = k0 -> [private |-> <<0, 1>>, public |-> <<>>, seed |-> <<1>>,
                    nonce |-> <<0>>, cipherText |-> <<0, 0>>]
      [] OTHER -> [private |-> <<2>>, public |-> <<2, 1>>, seed |-> <<2>>,
                   nonce |-> <<2>>, cipherText |-> <<1, 2, 2>>]]

MCPoint ==
  [k \in Keys |-> IF k = k0 THEN [x |-> Numbered(64), y |-> Numbered(200)]
                  ELSE [x |-> Short, y |-> Zero]]

\* One hash for all relying parties and one for all operations: they are
\* interchangeable.
MCDigest == [a \in RPs \cup Ops |-> IF a \in RPs THEN Numbered(0) ELSE Numbered(32)]
MCAAGUID == [i \in 1 .. 16 |-> 255]

Handles == {TPMHandle(k0), TPMHandle(k1), MemHandle(k1)}
Tampered == {TPMHandle(k0), MemHandle(k1)}

\* What a host can do to an id: cut it, extend it by a byte or a message,
\* change a byte, or put the beginning of one before the end of another.
MCStrings ==
  Handles
    \cup UNION {{SubSeq(h, 1, n) : n \in 0 .. Len(h)} : h \in Tampered}
    \cup {h \o <<0>> : h \in Handles} \cup {h \o Frame(<<1>>) : h \in Handles}
    \cup UNION {{[h EXCEPT ![i] = (@ + 1) % 3] : i \in DOMAIN h} : h \in Tampered}
    \cup {SubSeq(TPMHandle(k0), 1, i) \o Drop(TPMHandle(k1), i) : i \in 1 .. 8}

\* Operations and relying parties are interchangeable.
Symmetry == Permutations(Ops) \cup Permutations(RPs)

\* A bound: no run has both an unread file and a clock that was set back.
OneFault == ~(blind /\ setBack)
=============================================================================
