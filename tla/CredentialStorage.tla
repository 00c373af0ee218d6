-------------------------- MODULE CredentialStorage --------------------------
(***************************************************************************)
(* ctap2/storage.go: the discoverable credentials in memory and the JSON   *)
(* file they are written to through a temporary file, fsync and rename.    *)
(* The process may be killed and the machine may lose power between any    *)
(* two steps; every file operation may fail.                               *)
(*                                                                         *)
(* Save and Delete hold the write lock from the change in memory to the    *)
(* end of the file operations, so at most one of them is under way.  The   *)
(* order of the list is abstracted: it is a set of credentials, and with   *)
(* it the indexes, which every change rebuilds under the same lock.        *)
(***************************************************************************)
EXTENDS Integers

CONSTANTS
  RPs,     \* relying-party ids
  Users,   \* user handles
  Ids,     \* credential ids; each is registered once (a bound on the saves)
  None     \* no id

ASSUME NoneAssumption == None \notin Ids

Credential == [id : Ids, rp : RPs, user : Users]
Lists == SUBSET Credential

\* What a file may hold: nothing (there is no file), a list, or incomplete
\* content that does not decode.
File == [state : {"absent", "whole", "torn"}, creds : Lists]
AbsentFile == [state |-> "absent", creds |-> {}]
TornFile == [state |-> "torn", creds |-> {}]
Whole(list) == [state |-> "whole", creds |-> list]

VARIABLES
  running,     \* the process has loaded its storage
  credentials, \* CredentialStorage.credentials
  writer,      \* the next file operation of the call that holds the lock
  saving,      \* the id the call under way saves, or None
  tmp,         \* the list written to the temporary file, once it is
  synced,      \* the temporary file's content is on the disk
  file,        \* the credentials file as processes see it
  onDisk,      \* what the file may hold after a power loss
  used,        \* history: ids passed to Save
  acked,       \* history: ids whose Save succeeded, and that the file must hold
  refused      \* history: ids whose Save returned an error to this process

vars == <<running, credentials, writer, saving, tmp, synced, file,
          onDisk, used, acked, refused>>

memory == <<running, credentials>>
history == <<used, acked, refused>>

TypeOK ==
  /\ running \in BOOLEAN
  /\ credentials \in Lists
  /\ writer \in {"idle", "create", "write", "sync", "rename"}
  /\ saving \in Ids \cup {None}
  /\ tmp \in Lists
  /\ synced \in BOOLEAN
  /\ file \in File
  /\ onDisk \in SUBSET File
  /\ used \in SUBSET Ids
  /\ acked \in SUBSET Ids
  /\ refused \in SUBSET Ids

IdsOf(creds) == {c.id : c \in creds}

Init ==
  /\ running = FALSE
  /\ credentials = {}
  /\ writer = "idle"
  /\ saving = None
  /\ tmp = {}
  /\ synced = FALSE
  /\ file = AbsentFile
  /\ onDisk = {AbsentFile}
  /\ used = {} /\ acked = {} /\ refused = {}

-----------------------------------------------------------------------------
(* The calls.                                                              *)

\* The list Save makes: the account's credential is replaced or added.
WithoutReplace(c) == credentials \cup {c}  \* mutated form: no replacement

\* Mutated form: the metadata has no credential id.
WithoutId(c) == credentials \cup {[c EXCEPT !.id = None]}

WithSaved(c) ==
  {d \in credentials : ~(d.rp = c.rp /\ d.user = c.user)} \cup {c}

\* Save, up to save().  From here on the file need not hold the account's
\* old credential.
Save(c) ==
  /\ running /\ writer = "idle"
  /\ c.id \notin used
  /\ credentials' = WithSaved(c)
  /\ writer' = "create"
  /\ saving' = c.id
  /\ used' = used \cup {c.id}
  /\ acked' = acked \cap IdsOf(WithSaved(c))
  /\ UNCHANGED <<running, tmp, synced, file, onDisk, refused>>

\* Delete of a credential that exists, up to save().
Delete(c) ==
  /\ running /\ writer = "idle"
  /\ c \in credentials
  /\ credentials' = {d \in credentials : d.id # c.id}
  /\ writer' = "create"
  /\ saving' = None
  /\ acked' = acked \ {c.id}
  /\ UNCHANGED <<running, tmp, synced, file, onDisk, used, refused>>

-----------------------------------------------------------------------------
(* save().                                                                 *)

CreateTemp ==
  /\ writer = "create"
  /\ writer' = "write"
  /\ tmp' = {}
  /\ synced' = FALSE
  /\ UNCHANGED <<memory, saving, file, onDisk, history>>

\* Mutated form: the file itself is truncated and rewritten.
WriteInPlace ==
  /\ writer = "write"
  /\ writer' = "sync"
  /\ tmp' = credentials
  /\ file' = TornFile
  /\ UNCHANGED <<memory, saving, synced, onDisk, history>>

WriteTemp ==
  /\ writer = "write"
  /\ writer' = "sync"
  /\ tmp' = credentials
  /\ UNCHANGED <<memory, saving, synced, file, onDisk, history>>

\* Mutated form: no fsync.
SyncNothing ==
  /\ writer = "sync"
  /\ writer' = "rename"
  /\ UNCHANGED <<memory, saving, tmp, synced, file, onDisk, history>>

SyncTemp ==
  /\ writer = "sync"
  /\ writer' = "rename"
  /\ synced' = TRUE
  /\ UNCHANGED <<memory, saving, tmp, file, onDisk, history>>

\* The rename is atomic, but the directory is not synced: until the file
\* system writes it back, a power loss may bring the old file back.  Data
\* that was not synced may be missing then.
Rename ==
  /\ writer = "rename"
  /\ file' = Whole(tmp)
  /\ onDisk' = onDisk \cup (IF synced THEN {Whole(tmp)} ELSE {Whole(tmp), TornFile})
  /\ tmp' = {}
  /\ writer' = "idle"
  /\ saving' = None
  /\ acked' = acked \cup ({saving} \cap Ids)
  /\ UNCHANGED <<memory, synced, used, refused>>

\* Mutated form: the error is lost on the way out.
FailQuietly ==
  /\ writer # "idle"
  /\ writer' = "idle"
  /\ tmp' = {}
  /\ saving' = None
  /\ acked' = acked \cup ({saving} \cap Ids)
  /\ UNCHANGED <<memory, synced, file, onDisk, used, refused>>

\* A file operation fails: the temporary file is removed (or left behind
\* under a name no later call uses) and the error returned.  The list in
\* memory stays as the call made it.
Fail ==
  /\ writer # "idle"
  /\ writer' = "idle"
  /\ tmp' = {}
  /\ saving' = None
  /\ refused' = refused \cup ({saving} \cap Ids)
  /\ UNCHANGED <<memory, synced, file, onDisk, used, acked>>

-----------------------------------------------------------------------------
(* The process and the machine.                                            *)

\* NewCredentialStorage: load the file.
Start ==
  /\ ~running
  /\ running' = TRUE
  /\ credentials' = file.creds  \* empty if there is no file or it does not decode
  /\ refused' = {}
  /\ UNCHANGED <<writer, saving, tmp, synced, file, onDisk, used, acked>>

\* NewCredentialStorage when the file cannot be read: a warning, and an
\* empty storage; the next save replaces the file.
StartUnreadable ==
  /\ ~running
  /\ file.state # "absent"
  /\ running' = TRUE
  /\ credentials' = {}
  /\ refused' = {}
  /\ acked' = {}
  /\ UNCHANGED <<writer, saving, tmp, synced, file, onDisk, used>>

StopProcess ==
  /\ running' = FALSE
  /\ credentials' = {}
  /\ writer' = "idle"
  /\ saving' = None
  /\ tmp' = {}

\* The process is killed, or ends.
Crash ==
  /\ running
  /\ StopProcess
  /\ refused' = {}
  /\ UNCHANGED <<synced, file, onDisk, used, acked>>

\* The machine loses power.
PowerLoss ==
  /\ StopProcess
  /\ file' \in onDisk
  /\ onDisk' = {file'}
  /\ refused' = {}
  /\ acked' = acked \cap IdsOf(file'.creds)
  /\ UNCHANGED <<synced, used>>

\* The file system writes the directory back.
WriteBack ==
  /\ onDisk # {file}
  /\ onDisk' = {file}
  /\ UNCHANGED <<memory, writer, saving, tmp, synced, file, history>>

Next ==
  \/ \E c \in Credential : Save(c) \/ Delete(c)
  \/ CreateTemp \/ WriteTemp \/ SyncTemp \/ Rename \/ Fail
  \/ Start \/ StartUnreadable
  \/ Crash \/ PowerLoss \/ WriteBack

Spec == Init /\ [][Next]_vars

-----------------------------------------------------------------------------
(* Properties.                                                             *)

\* Lists in which no account has two credentials.
OnePerAccount(creds) ==
  \A c, d \in creds : c.rp = d.rp /\ c.user = d.user => c = d

\* The file always decodes: no crash or power loss at any point of a save
\* leaves a torn one, so the branch of NewCredentialStorage that goes on
\* with an empty storage is never taken because of this program's writes.
FileIntact == TornFile \notin {file} \cup onDisk

\* A credential whose Save succeeded is in the file until its account's
\* credential is replaced or deleted: killing the process at any later
\* point, also in the middle of another save, does not lose it.  (A power
\* loss before the directory is written back, and a file that cannot be
\* read at start, may.)
AckedSurvives == acked \subseteq IdsOf(file.creds)

\* One credential per account, in memory and in the file, through any
\* sequence of saves, failures and restarts.
AccountsUnique ==
  /\ OnePerAccount(credentials)
  /\ OnePerAccount(file.creds)

\* The file changes only by taking over, in one step, the list in memory at
\* that time, or by a power loss that brings back a list it held before.
FileCommitsAtomically ==
  [][file' # file => file' = Whole(credentials) \/ (~running' /\ file' \in onDisk)]_vars

\* The storage implements the committed list of CredentialStore: hidden
\* are the temporary file and the steps of a save, and no crash, failure or
\* power loss between them shows.
Store == INSTANCE CredentialStore
           WITH list <- credentials, committed <- file.creds,
                possible <- {f.creds : f \in onDisk}
ImplementsStore == Store!Spec

\* Claim of the comment at makecredential.go:120 ("the credential is still
\* valid, just not discoverable"): a credential whose Save failed is not
\* found by GetByRPID.
FailedSaveNotDiscoverable == refused \cap IdsOf(credentials) = {}

=============================================================================
