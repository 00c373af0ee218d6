------------------------------ MODULE Keystore ------------------------------
(***************************************************************************)
(* The keys of the daemon over its processes: the TPM signer (tpm/tpm.go)  *)
(* and the memory signer (memory/memory.go), the credential ids they hand  *)
(* out as byte strings, the signature counters, and the choice of the      *)
(* credentials file at start (credentialStoragePath of main.go), which     *)
(* takes over the file of the product's old name.                          *)
(*                                                                         *)
(* The signers' calls hold a mutex or touch one atomic, and are one action *)
(* each; a save commits the list as a whole, or not at all, which          *)
(* CredentialStorage.tla shows.  Hosts offer any byte string as a          *)
(* credential id.  Encryption, HMAC and key derivation are ideal: a blob   *)
(* opens under what it was made under and under nothing else.              *)
(***************************************************************************)
EXTENDS Lencode, AuthenticatorData, FiniteSets

CONSTANTS
  Keys,        \* the keys that will be made (a bound on them)
  LegacyKeys,  \* those that the product made under its old name
  Random,      \* the random bytes of each key: TPM2_Create's private and
               \* public blobs and the seed, or the memory signer's nonce and
               \* ciphertext
  Point,       \* the public point of each key
  NonceSize,   \* of AES-GCM: 12
  Strings,     \* the byte strings hosts offer as credential ids
  RPs,         \* the relying parties' applicationParam
  Ops,         \* operations that sign at a time (a bound on them)
  Digest,      \* the bytes of an applicationParam, and of the client data
               \* hash of an operation
  CounterMod,  \* the counters are uint32: 2^32
  Sandboxed,   \* systemd runs the daemon: of the home directory only the
               \* new data directory is writable
  MaxStarts, MaxClock, MaxCounter   \* bounds of a run

Blobs == [private : Bytes, public : Bytes, seed : Bytes, nonce : Bytes,
          cipherText : Bytes]

\* The blobs of a P-256 key and a 20-byte seed fit into one byte of length
\* (RegisterKey does not look at the encoder's errors); random bytes differ.
ASSUME RandomAssumption ==
  /\ LegacyKeys \subseteq Keys
  /\ Random \in [Keys -> Blobs]
  /\ NonceSize \in Nat
  /\ \A k \in Keys :
       /\ Len(Random[k].private) <= MaxLen
       /\ Len(Random[k].public) <= MaxLen
       /\ Len(Random[k].seed) <= MaxLen
       /\ Len(Random[k].nonce) = NonceSize
  /\ \A k, l \in Keys :
       \/ Random[k].private = Random[l].private
       \/ /\ Random[k].nonce = Random[l].nonce
          /\ Random[k].cipherText = Random[l].cipherText
       => k = l

\* SHA-256 gives 32 bytes; a credential id's length is told in 16 bits and a
\* counter in 32.
ASSUME ResponseAssumption ==
  /\ Digest \in [RPs \cup Ops -> Word]
  /\ Point \in [Keys -> [x : Word, y : Word]]
  /\ 3 * (PrefixLen + MaxLen) < 65536
  /\ \A k \in Keys : NonceSize + Len(Random[k].cipherText) < 65536
  /\ (CounterMod - 1) \div 65536 < 65536

ASSUME BoundsAssumption ==
  /\ Strings \subseteq Bytes
  /\ CounterMod \in Nat \ {0}
  /\ Sandboxed \in BOOLEAN
  /\ MaxStarts \in Nat /\ MaxClock \in Nat /\ MaxCounter \in Nat
  /\ MaxClock < CounterMod /\ MaxCounter < CounterMod
  /\ None \notin Nat /\ \A ks \in SUBSET Keys : ks # None

VARIABLES
  backend,   \* the process: "none", or the signer it runs with
  master,    \* Mem.masterPrivateKey, numbered
  starts,    \* processes so far, also those that ended in main
  made,      \* what each key was made for and under, or None
  file,      \* the credentials files: their keys, or None without a file
  path,      \* the file the process uses
  list,      \* CredentialStorage: the keys the process knows
  counter,   \* Mem.signCounter
  clock,     \* the machine's clock, in seconds since baseTime
  taken,     \* the counter each signing operation took, or None
  watched,   \* history: one of the keys
  highest,   \* history: the greatest counter signed with it, or None
  acked,     \* history: the keys whose Save succeeded, or that were there
  blind,     \* history: a file that is there was not found or not read
  setBack    \* history: the clock was set back, or passed baseTime

process == <<backend, master, starts, path, list, counter, taken>>
disk == <<file, acked, blind>>
world == <<clock, setBack>>
signatures == <<watched, highest>>
vars == <<process, made, disk, world, signatures>>

Paths == {"current", "legacy"}

-----------------------------------------------------------------------------
(* Credential ids and what opens them.                                     *)

\* Mutated form: the label follows the renaming of the product.
RenamedKeyTmpl(seed, rp) == <<"blueripple-passkey-application-key-v1", seed, rp>>

\* The parent's template: HKDF of the seed, under a label of the old product
\* and for the RP.
PrimaryKeyTmpl(seed, rp) == <<"authentik-biometric-application-key-v1", seed, rp>>

\* What AES-GCM seals under: the master key, and the RP as additional data.
Sealed(rp) == <<"fido_wrapping_key", <<master>>, rp>>

TPMHandle(k) ==
  Encode(Encode(Encode(NewEncoder, Random[k].private), Random[k].public),
         Random[k].seed).out

MemHandle(k) == Random[k].nonce \o Random[k].cipherText

\* Mutated form: what follows the seed is not looked at.
DecodeOpenHandle(h) ==
  LET private == Decode(NewDecoder(h))
      public == Decode(private)
      seed == Decode(public)
  IN [ok |-> seed.err = "none", private |-> private.msg, public |-> public.msg,
      seed |-> seed.msg]

\* SignASN1 of the TPM: three messages, then the end.
DecodeHandle(h) ==
  LET private == Decode(NewDecoder(h))
      public == Decode(private)
      seed == Decode(public)
  IN [ok |-> seed.err = "none" /\ Decode(seed).err = "EOF",
      private |-> private.msg, public |-> public.msg, seed |-> seed.msg]

\* Worked out once for the strings and the keys of a run.
Decoded == [h \in Strings |-> DecodeHandle(h)]
PublicKey == [k \in Keys |-> BuildCOSEPublicKeyES256(Point[k].x, Point[k].y)]

MadeBy(k, signer) == made[k] # None /\ made[k].by = signer

\* TPM2_Load succeeds for the blobs of a key under the parent it was made
\* under.
TPMOpens(h, rp, k) ==
  /\ backend = "tpm" /\ MadeBy(k, "tpm")
  /\ LET blobs == Decoded[h]
     IN /\ blobs.ok
        /\ blobs.private = Random[k].private
        /\ blobs.public = Random[k].public
        /\ PrimaryKeyTmpl(blobs.seed, rp) = made[k].under

\* The memory signer's SignASN1: a nonce, and what AES-GCM opens.
MemOpens(h, rp, k) ==
  /\ backend = "memory" /\ MadeBy(k, "memory")
  /\ Len(h) >= NonceSize
  /\ SubSeq(h, 1, NonceSize) = Random[k].nonce
  /\ Drop(h, NonceSize) = Random[k].cipherText
  /\ Sealed(rp) = made[k].under

\* Credential id h signs for rp, with key k.
Opens(h, rp, k) == TPMOpens(h, rp, k) \/ MemOpens(h, rp, k)

Key(rp, handle, by, under) == [rp |-> rp, handle |-> handle, by |-> by, under |-> under]

MadeKey == [rp : RPs, handle : Bytes, by : {"tpm", "memory"},
            under : {"authentik-biometric-application-key-v1", "fido_wrapping_key"}
                      \X Seq(Nat) \X RPs]

TypeOK ==
  /\ backend \in {"none", "tpm", "memory"}
  /\ master \in Nat /\ starts \in Nat
  /\ made \in [Keys -> MadeKey \cup {None}]
  /\ file \in [Paths -> (SUBSET Keys) \cup {None}]
  /\ path \in Paths /\ list \in SUBSET Keys
  /\ counter \in Nat /\ clock \in Int
  /\ taken \in [Ops -> Nat \cup {None}]
  /\ watched \in Keys /\ highest \in Nat \cup {None}
  /\ acked \in SUBSET Keys
  /\ blind \in BOOLEAN /\ setBack \in BOOLEAN

\* A machine on which the product has run under its old name, or not.
Init ==
  /\ backend = "none"
  /\ master = 0 /\ starts = 0
  /\ \E rp \in RPs :
       made = [k \in Keys |->
                 IF k \in LegacyKeys
                 THEN Key(rp, TPMHandle(k), "tpm",
                          <<"authentik-biometric-application-key-v1", Random[k].seed, rp>>)
                 ELSE None]
  /\ \E legacy \in {LegacyKeys, None} :
       /\ file = [p \in Paths |-> IF p = "legacy" THEN legacy ELSE None]
       /\ acked = IF legacy = None THEN {} ELSE LegacyKeys
  /\ path = "current" /\ list = {}
  /\ counter = 0 /\ clock \in -1 .. 0
  /\ taken = [o \in Ops |-> None]
  /\ watched \in Keys /\ highest = None
  /\ blind = FALSE /\ setBack = FALSE

-----------------------------------------------------------------------------
(* The start and the end of a process.                                     *)

Exists(p) == file[p] # None

\* Mutated form: the new path is used although the rename failed.
ChooseCurrent(p, sawCurrent, sawLegacy) ==
  /\ p = "current"
  /\ \/ UNCHANGED file
     \/ /\ ~sawCurrent /\ sawLegacy
        /\ file' = [file EXCEPT !["current"] = file["legacy"], !["legacy"] = None]

\* The daemon may change the files and modes of p's directory.
Writable(p) == Sandboxed => p = "current"

\* The path p for what the two Stats saw.  MkdirAll and Rename may fail, and
\* Rename does if it may not take the file from the old directory.
ChoosePath(p, sawCurrent, sawLegacy) ==
  \/ (sawCurrent \/ ~sawLegacy) /\ p = "current" /\ UNCHANGED file
  \/ ~sawCurrent /\ sawLegacy /\ p = "legacy" /\ UNCHANGED file
  \/ /\ ~sawCurrent /\ sawLegacy /\ Writable("legacy")
     /\ p = "current"
     /\ file' = [file EXCEPT !["current"] = file["legacy"], !["legacy"] = None]

\* A Stat may fail for a file that is there; it never sees one that is not.
CredentialStoragePath(p, missed) ==
  \E sawCurrent, sawLegacy \in BOOLEAN :
    /\ sawCurrent => Exists("current")
    /\ sawLegacy => Exists("legacy")
    /\ missed = \/ ~sawCurrent /\ Exists("current")
                \/ ~sawCurrent /\ ~sawLegacy /\ Exists("legacy")
    /\ ChoosePath(p, sawCurrent, sawLegacy)

\* Mutated form: the master key outlives the process.
NewKeepsMaster == counter' = 0 /\ UNCHANGED master

\* memory.New: a fresh master key, and a counter from zero.
New == counter' = 0 /\ master' = master + 1

\* NewCredentialStorage reads the file at the path, once it has made the
\* directory and the file private.  The storage starts empty if there is no
\* file or it cannot be read.
NewCredentialStorage(p, unread) ==
  /\ Writable(p)
  /\ unread => file'[p] # None
  /\ path' = p
  /\ list' = IF unread \/ file'[p] = None THEN {} ELSE file'[p]

\* main: the signer, the path, then the storage.
Launch(signer, p, missed) ==
  /\ backend' = signer
  /\ IF signer = "memory" THEN New ELSE UNCHANGED <<master, counter>>
  /\ \E unread \in BOOLEAN :
       /\ NewCredentialStorage(p, unread)
       /\ blind' = (blind \/ missed \/ unread)

\* Its MkdirAll or Chmod fails: log.Fatalf, after the path was chosen and
\* the file perhaps renamed.
LaunchFails(missed) ==
  /\ blind' = (blind \/ missed)
  /\ UNCHANGED <<backend, master, counter, path, list>>

\* A signer that cannot be made ends main before anything has changed.
Start(signer) ==
  /\ backend = "none" /\ starts < MaxStarts
  /\ starts' = starts + 1
  /\ \E p \in Paths, missed \in BOOLEAN :
       /\ CredentialStoragePath(p, missed)
       /\ Launch(signer, p, missed) \/ LaunchFails(missed)
  /\ UNCHANGED <<taken, made, acked, world, signatures>>

\* The process exits or is killed: what it holds in memory is gone.
Stop ==
  /\ backend # "none"
  /\ backend' = "none"
  /\ path' = "current" /\ list' = {}
  /\ taken' = [o \in Ops |-> None] /\ counter' = 0
  /\ UNCHANGED <<master, starts, made, disk, world, signatures>>

-----------------------------------------------------------------------------
(* The signers and the storage.                                            *)

\* signer.RegisterKey.
RegisterKey(k, rp) ==
  /\ backend # "none" /\ made[k] = None
  /\ made' = [made EXCEPT ![k] =
       IF backend = "tpm"
       THEN Key(rp, TPMHandle(k), "tpm", PrimaryKeyTmpl(Random[k].seed, rp))
       ELSE Key(rp, MemHandle(k), "memory", Sealed(rp))]
  /\ UNCHANGED <<process, disk, world, signatures>>

\* storage.Save: the list is written as a whole, or only changed in memory.
SaveCredential(k) ==
  /\ backend # "none" /\ made[k] # None /\ k \notin list
  /\ list' = list \cup {k}
  /\ \/ UNCHANGED <<file, acked>>
     \/ /\ file' = [file EXCEPT ![path] = list']
        /\ acked' = acked \cup {k}
  /\ UNCHANGED <<backend, master, starts, path, counter, taken, blind,
                 made, world, signatures>>

\* Mutated form: the difference is not made a uint32.
SignedSeconds == clock

\* TPM.Counter: uint32 of the seconds since baseTime.
Seconds == clock % CounterMod

\* Operation o takes the counter of its response.  Mem's is an atomic add.
Counter(o) ==
  /\ backend # "none" /\ taken[o] = None
  /\ IF backend = "tpm"
     THEN /\ taken' = [taken EXCEPT ![o] = Seconds]
          /\ UNCHANGED counter
     ELSE /\ counter < MaxCounter
          /\ counter' = (counter + 1) % CounterMod
          /\ taken' = [taken EXCEPT ![o] = counter']
  /\ UNCHANGED <<backend, master, starts, path, list, made, disk, world,
                 signatures>>

Greatest(m, n) == IF m = None \/ m < n THEN n ELSE m

\* signer.SignASN1 for the response, with whatever credential id the host
\* has offered.  It may fail.
SignASN1(o) ==
  /\ taken[o] # None
  /\ taken' = [taken EXCEPT ![o] = None]
  /\ \/ UNCHANGED highest
     \/ /\ \E rp \in RPs, h \in Strings : Opens(h, rp, watched)
        /\ highest' = Greatest(highest, taken[o])
  /\ UNCHANGED <<watched, backend, master, starts, path, list, counter, made, disk,
                 world>>

-----------------------------------------------------------------------------
(* The machine's clock.                                                    *)

Tick ==
  /\ clock < MaxClock
  /\ clock' = clock + 1
  /\ setBack' = (setBack \/ clock' = 0)
  /\ UNCHANGED <<process, made, disk, signatures>>

\* Once: nothing is promised of the TPM signer's counter from then on.
SetClockBack ==
  /\ ~setBack
  /\ \E c \in -1 .. clock - 1 : clock' = c
  /\ setBack' = TRUE
  /\ UNCHANGED <<process, made, disk, signatures>>

-----------------------------------------------------------------------------

Next ==
  \/ \E signer \in {"tpm", "memory"} : Start(signer)
  \/ Stop
  \/ \E k \in Keys, rp \in RPs : RegisterKey(k, rp)
  \/ \E k \in Keys : SaveCredential(k)
  \/ \E o \in Ops : Counter(o) \/ SignASN1(o)
  \/ Tick \/ SetClockBack

Spec == Init /\ [][Next]_vars

-----------------------------------------------------------------------------
(* Properties.                                                             *)

\* The key was made by the signer that runs now: a memory key lives as long
\* as its process, a TPM key for ever.
Current(k) ==
  /\ made[k] # None /\ made[k].by = backend
  /\ made[k].by = "memory" => made[k].under[2] = <<master>>

\* Whatever byte string a host offers as a credential id, and for whatever
\* RP: if it signs at all, it is, byte for byte, the one that RegisterKey
\* returned for a key of this RP, and the signer is the one that made it.
\* So no key has two ids, and neither the exclude list nor the storage,
\* which compare ids, can be led past a key.
OnlyItsHandle ==
  \A h \in Strings, rp \in RPs, k \in Keys :
    Opens(h, rp, k) => Current(k) /\ h = made[k].handle /\ rp = made[k].rp

\* A credential id goes on to sign for its RP: a TPM key's in every later
\* process, also if the product made it under its old name, and a memory
\* key's until its process ends.
HandlesLast ==
  \A k \in Keys :
    Current(k) /\ made[k].handle \in Strings => Opens(made[k].handle, made[k].rp, k)

\* A relying party reads from the bytes that an operation is about to sign
\* with a key what they are about, and nothing else: its own RP, the counter
\* the operation took, its client data hash and, in an attestation, the id
\* and the point of the key, also when a coordinate is a small number.
ResponsesReadBack ==
  \A o \in Ops : taken[o] # None /\ made[watched] # None =>
    LET rp == Digest[made[watched].rp]
        id == made[watched].handle
        point == Point[watched]
    IN /\ Read(ToSign(Attestation(rp, taken[o], id, PublicKey[watched]), Digest[o]))
            = Reading(rp, 69, taken[o], id, point.x, point.y, Digest[o])
       /\ Read(ToSign(Assertion(rp, taken[o]), Digest[o]))
            = Reading(rp, 5, taken[o], None, None, None, Digest[o])

\* Unless a file that is there could not be found or read, no credential
\* whose Save succeeded is left behind in a file that is not used: not by
\* the renaming of the product, a failed rename, a start that ends because
\* the directory cannot be made private, or a restart between any of them;
\* and every process that comes to run lists it.
NothingForgotten ==
  ~blind =>
    /\ ~(Exists("current") /\ Exists("legacy"))
    /\ acked # {} => \E p \in Paths : Exists(p) /\ acked \subseteq file[p]
    /\ backend # "none" => acked \subseteq list

\* Claim of the comment at install.sh:115-116 ("Credential metadata is
\* migrated by BlueRipple Passkey on first launch"): once the daemon has
\* been started, and has seen the files that are there, the old product's
\* file is at the new path.
MigratedOnFirstLaunch == starts > 0 /\ ~blind => ~Exists("legacy")

\* The counter an operation takes exceeds all that a key able to sign now
\* has signed, and all that overlapping operations have taken, although the
\* memory signer counts from zero in every process.  The TPM signer's
\* seconds may repeat, and fall if the clock is set back.
CountersGrow ==
  [][\A o \in Ops : taken[o] = None /\ taken'[o] # None =>
       \A n \in {taken[p] : p \in Ops} \cup IF Current(watched) THEN {highest} ELSE {} :
         n # None => IF backend = "memory" THEN n < taken'[o]
                     ELSE setBack \/ n <= taken'[o]]_vars

=============================================================================
