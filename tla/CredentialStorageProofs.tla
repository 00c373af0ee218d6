----------------------- MODULE CredentialStorageProofs -----------------------
(***************************************************************************)
(* Theorems about CredentialStorage, for any relying parties, users and    *)
(* credential ids, and any sequence of calls, failures, crashes and power  *)
(* losses.                                                                 *)
(***************************************************************************)
EXTENDS CredentialStorage, TLAPS

\* What a save in progress maintains: it runs in a live process, it writes
\* the list in memory, that list holds the credential being saved, and it
\* reaches the rename only with synced data.
SaveInProgress ==
  /\ writer # "idle" => running
  /\ writer \in {"sync", "rename"} => tmp = credentials
  /\ writer = "rename" => synced
  /\ writer # "idle" => saving \in IdsOf(credentials) \cup {None}

\* The list in memory holds what the file must hold.
MemoryHoldsAcked == running => acked \subseteq IdsOf(credentials)

\* No file content that may come back holds two credentials of an account.
DiskUnique == \A f \in onDisk : OnePerAccount(f.creds)

IInv ==
  /\ TypeOK
  /\ SaveInProgress
  /\ MemoryHoldsAcked
  /\ DiskUnique
  /\ FileIntact
  /\ AckedSurvives
  /\ AccountsUnique
 

-----------------------------------------------------------------------------

\* Save keeps the list free of second credentials of an account.
LEMMA WithSavedUnique ==
  ASSUME OnePerAccount(credentials), NEW c
  PROVE  OnePerAccount(WithSaved(c))
BY DEF OnePerAccount, WithSaved

LEMMA InitIInv == Init => IInv
<1> SUFFICES ASSUME Init PROVE IInv
  OBVIOUS
<1>1. AbsentFile \in File /\ AbsentFile # TornFile /\ AbsentFile.creds = {}
  BY DEF AbsentFile, TornFile, File, Lists
<1>2. TypeOK
  BY <1>1 DEF Init, TypeOK, Lists
<1>3. SaveInProgress /\ MemoryHoldsAcked
  BY DEF Init, SaveInProgress, MemoryHoldsAcked, IdsOf
<1>4. DiskUnique /\ AccountsUnique
  BY <1>1 DEF Init, DiskUnique, AccountsUnique, OnePerAccount
<1>5. FileIntact /\ AckedSurvives
  BY <1>1 DEF Init, FileIntact, AckedSurvives, IdsOf
<1> QED BY <1>2, <1>3, <1>4, <1>5 DEF IInv

LEMMA SaveStep ==
  ASSUME IInv, NEW c \in Credential, Save(c)
  PROVE  IInv'
<1>1. c \in WithSaved(c) /\ WithSaved(c) \in Lists /\ c.id \in Ids
  BY DEF WithSaved, Lists, Credential, IInv, TypeOK
<1>2. credentials' = WithSaved(c)
  BY DEF Save
<1>3. TypeOK'
  BY <1>1, <1>2 DEF IInv, TypeOK, Save
<1>4. SaveInProgress'
  BY <1>1, <1>2 DEF IInv, SaveInProgress, Save, IdsOf
<1>5. MemoryHoldsAcked' /\ AckedSurvives'
  BY <1>2 DEF IInv, MemoryHoldsAcked, AckedSurvives, Save
<1>6. DiskUnique' /\ FileIntact' /\ AccountsUnique'
  BY <1>2, WithSavedUnique
     DEF IInv, DiskUnique, FileIntact, AccountsUnique, Save
<1> QED BY <1>3, <1>4, <1>5, <1>6 DEF IInv

LEMMA DeleteStep ==
  ASSUME IInv, NEW c \in Credential, Delete(c)
  PROVE  IInv'
<1> DEFINE rest == {d \in credentials : d.id # c.id}
<1>1. rest \in Lists /\ OnePerAccount(rest)
  BY DEF Lists, IInv, TypeOK, AccountsUnique, OnePerAccount
<1>2. credentials' = rest
  BY DEF Delete
<1>3. TypeOK'
  BY <1>1, <1>2 DEF IInv, TypeOK, Delete
<1>4. SaveInProgress'
  BY <1>2 DEF IInv, SaveInProgress, Delete
<1>5. MemoryHoldsAcked' /\ AckedSurvives'
  BY <1>2 DEF IInv, MemoryHoldsAcked, AckedSurvives, Delete, IdsOf
<1>6. DiskUnique' /\ FileIntact' /\ AccountsUnique'
  BY <1>1, <1>2
     DEF IInv, DiskUnique, FileIntact, AccountsUnique, Delete
<1> QED BY <1>3, <1>4, <1>5, <1>6 DEF IInv

\* The file operations before the rename.
LEMMA TempSteps ==
  ASSUME IInv, CreateTemp \/ WriteTemp \/ SyncTemp
  PROVE  IInv'
<1> USE DEF IInv, CreateTemp, WriteTemp, SyncTemp, memory, history
<1>1. TypeOK'
  BY DEF TypeOK, Lists
<1>2. SaveInProgress'
  BY DEF SaveInProgress, TypeOK
<1>3. MemoryHoldsAcked' /\ AckedSurvives'
  BY DEF MemoryHoldsAcked, AckedSurvives
<1>4. DiskUnique' /\ FileIntact' /\ AccountsUnique'
  BY DEF DiskUnique, FileIntact, AccountsUnique
<1> QED BY <1>1, <1>2, <1>3, <1>4

LEMMA RenameStep ==
  ASSUME IInv, Rename
  PROVE  IInv' /\ file' = Whole(credentials)
<1>1. /\ file' = Whole(credentials) /\ onDisk' = onDisk \cup {Whole(credentials)}
      /\ running /\ saving \in IdsOf(credentials) \cup {None}
  BY DEF IInv, SaveInProgress, Rename
<1>2. /\ Whole(credentials) \in File /\ Whole(credentials) # TornFile
      /\ Whole(credentials).creds = credentials
  BY DEF Whole, TornFile, File, IInv, TypeOK
<1>3. TypeOK'
  BY <1>1, <1>2 DEF IInv, TypeOK, Rename, memory, Lists
<1>4. SaveInProgress'
  BY DEF IInv, SaveInProgress, Rename, memory
<1>5. acked' \subseteq IdsOf(credentials)
  BY <1>1, NoneAssumption DEF IInv, MemoryHoldsAcked, Rename
<1>6. MemoryHoldsAcked' /\ AckedSurvives'
  BY <1>1, <1>2, <1>5 DEF MemoryHoldsAcked, AckedSurvives, Rename, memory
<1>7. DiskUnique' /\ FileIntact' /\ AccountsUnique'
  BY <1>1, <1>2
     DEF IInv, DiskUnique, FileIntact, AccountsUnique, Rename, memory
<1> QED BY <1>1, <1>3, <1>4, <1>6, <1>7 DEF IInv

LEMMA FailStep ==
  ASSUME IInv, Fail
  PROVE  IInv'
<1> USE DEF IInv, Fail, memory
<1>1. TypeOK'
  BY DEF TypeOK, Lists
<1>2. SaveInProgress' /\ MemoryHoldsAcked' /\ AckedSurvives'
  BY DEF SaveInProgress, MemoryHoldsAcked, AckedSurvives
<1>3. DiskUnique' /\ FileIntact' /\ AccountsUnique'
  BY DEF DiskUnique, FileIntact, AccountsUnique
<1> QED BY <1>1, <1>2, <1>3

LEMMA StartSteps ==
  ASSUME IInv, Start \/ StartUnreadable
  PROVE  IInv'
<1> USE DEF IInv, Start, StartUnreadable
<1>1. file.creds \in Lists
  BY DEF TypeOK, File
<1>2. TypeOK'
  BY <1>1 DEF TypeOK, Lists
<1>3. SaveInProgress'
  BY DEF SaveInProgress
<1>4. MemoryHoldsAcked' /\ AckedSurvives'
  BY DEF MemoryHoldsAcked, AckedSurvives
<1>5. DiskUnique' /\ FileIntact' /\ AccountsUnique'
  BY DEF DiskUnique, FileIntact, AccountsUnique, OnePerAccount
<1> QED BY <1>2, <1>3, <1>4, <1>5

LEMMA CrashStep ==
  ASSUME IInv, Crash
  PROVE  IInv'
<1> USE DEF IInv, Crash, StopProcess
<1>1. TypeOK'
  BY DEF TypeOK, Lists
<1>2. SaveInProgress' /\ MemoryHoldsAcked' /\ AckedSurvives'
  BY DEF SaveInProgress, MemoryHoldsAcked, AckedSurvives
<1>3. DiskUnique' /\ FileIntact' /\ AccountsUnique'
  BY DEF DiskUnique, FileIntact, AccountsUnique, OnePerAccount
<1> QED BY <1>1, <1>2, <1>3

LEMMA PowerLossStep ==
  ASSUME IInv, PowerLoss
  PROVE  IInv'
<1> USE DEF IInv, PowerLoss, StopProcess
<1>1. TypeOK'
  BY DEF TypeOK, Lists
<1>2. SaveInProgress' /\ MemoryHoldsAcked' /\ AckedSurvives'
  BY DEF SaveInProgress, MemoryHoldsAcked, AckedSurvives
<1>3. DiskUnique' /\ FileIntact' /\ AccountsUnique'
  BY DEF DiskUnique, FileIntact, AccountsUnique, OnePerAccount
<1> QED BY <1>1, <1>2, <1>3

LEMMA WriteBackStep ==
  ASSUME IInv, WriteBack
  PROVE  IInv'
<1> USE DEF IInv, WriteBack, memory, history
<1>1. TypeOK'
  BY DEF TypeOK
<1>2. SaveInProgress' /\ MemoryHoldsAcked' /\ AckedSurvives'
  BY DEF SaveInProgress, MemoryHoldsAcked, AckedSurvives
<1>3. DiskUnique' /\ FileIntact' /\ AccountsUnique'
  BY DEF DiskUnique, FileIntact, AccountsUnique
<1> QED BY <1>1, <1>2, <1>3

-----------------------------------------------------------------------------

LEMMA NextIInv == IInv /\ [Next]_vars => IInv'
<1> SUFFICES ASSUME IInv, [Next]_vars PROVE IInv'
  OBVIOUS
<1>1. CASE \E c \in Credential : Save(c) \/ Delete(c)
  BY <1>1, SaveStep, DeleteStep
<1>2. CASE CreateTemp \/ WriteTemp \/ SyncTemp
  BY <1>2, TempSteps
<1>3. CASE Rename
  BY <1>3, RenameStep
<1>4. CASE Fail
  BY <1>4, FailStep
<1>5. CASE Start \/ StartUnreadable
  BY <1>5, StartSteps
<1>6. CASE Crash
  BY <1>6, CrashStep
<1>7. CASE PowerLoss
  BY <1>7, PowerLossStep
<1>8. CASE WriteBack
  BY <1>8, WriteBackStep
<1>9. CASE UNCHANGED vars
  BY <1>9 DEF IInv, vars, TypeOK, SaveInProgress, MemoryHoldsAcked, DiskUnique,
              FileIntact, AckedSurvives, AccountsUnique
<1> QED BY <1>1, <1>2, <1>3, <1>4, <1>5, <1>6, <1>7, <1>8, <1>9 DEF Next

\* The inductive invariant holds in every reachable state.
THEOREM Invariance == Spec => []IInv
<1> QED BY InitIInv, NextIInv, PTL DEF Spec

\* The data of storage.go and of the file keep their types.
THEOREM TypeCorrect == Spec => []TypeOK
<1>1. IInv => TypeOK
  BY DEF IInv
<1> QED BY <1>1, Invariance, PTL

\* No crash, power loss or failure leaves a credentials file that does not
\* decode.
THEOREM FileNeverTorn == Spec => []FileIntact
<1>1. IInv => FileIntact
  BY DEF IInv
<1> QED BY <1>1, Invariance, PTL

\* A credential whose Save succeeded is not lost by a crash.
THEOREM AckedCredentialsSurvive == Spec => []AckedSurvives
<1>1. IInv => AckedSurvives
  BY DEF IInv
<1> QED BY <1>1, Invariance, PTL

\* One credential per account, in memory and in the file.
THEOREM AccountsStayUnique == Spec => []AccountsUnique
<1>1. IInv => AccountsUnique
  BY DEF IInv
<1> QED BY <1>1, Invariance, PTL

\* The file only ever takes over the whole list in memory, or returns to a
\* content it had, at a power loss.
THEOREM CommitsAreAtomic == Spec => FileCommitsAtomically
<1>1. IInv /\ [Next]_vars =>
        [file' # file => file' = Whole(credentials) \/ (~running' /\ file' \in onDisk)]_vars
  <2> SUFFICES ASSUME IInv, Next, file' # file
               PROVE  file' = Whole(credentials) \/ (~running' /\ file' \in onDisk)
    OBVIOUS
  <2>1. CASE Rename
    BY <2>1, RenameStep
  <2>2. CASE PowerLoss
    BY <2>2 DEF PowerLoss, StopProcess
  <2>3. ~Rename /\ ~PowerLoss => file' = file
    BY DEF Next, Save, Delete, CreateTemp, WriteTemp, SyncTemp, Fail, Start,
           StartUnreadable, Crash, WriteBack
  <2> QED BY <2>1, <2>2, <2>3
<1> QED BY <1>1, Invariance, PTL DEF Spec, FileCommitsAtomically

-----------------------------------------------------------------------------
(* The refinement.                                                         *)

\* Every step of a save but the rename is hidden.
LEMMA HiddenSteps ==
  ASSUME CreateTemp \/ WriteTemp \/ SyncTemp \/ Fail
  PROVE  UNCHANGED Store!vars
BY DEF CreateTemp, WriteTemp, SyncTemp, Fail, memory, history, Store!vars

\* Every step maps to a step of CredentialStore, or is hidden.
LEMMA StepSimulation ==
  ASSUME IInv, [Next]_vars
  PROVE  [Store!Next]_Store!vars
<1> USE DEF Store!Next
<1>1. ASSUME NEW c \in Credential, Save(c) PROVE Store!Next
  <2>1. Store!Put(c) /\ c \in Store!Credential
    BY <1>1 DEF Save, WithSaved, Store!Put, Store!Credential, Credential
  <2> QED BY <2>1
<1>2. ASSUME NEW c \in Credential, Delete(c) PROVE Store!Next
  <2>1. Store!Remove(c) /\ c \in Store!Credential
    BY <1>2 DEF Delete, Store!Remove, Store!Credential, Credential
  <2> QED BY <2>1
<1>3. CASE Rename
  <2>1. /\ file' = Whole(credentials) /\ onDisk' = onDisk \cup {Whole(credentials)}
        /\ running /\ Whole(credentials).creds = credentials
    BY <1>3 DEF IInv, SaveInProgress, Rename, Whole
  <2>2. {f.creds : f \in onDisk'} = {f.creds : f \in onDisk} \cup {credentials}
    BY <2>1
  <2>3. Store!Commit
    BY <1>3, <2>1, <2>2 DEF Rename, memory, Store!Commit
  <2> QED BY <2>3
<1>4. CASE Start \/ StartUnreadable
  <2>1. Store!Load
    BY <1>4 DEF Start, StartUnreadable, Store!Load
  <2> QED BY <2>1
<1>5. CASE Crash
  <2>1. Store!Stop
    BY <1>5 DEF Crash, StopProcess, Store!Stop
  <2> QED BY <2>1
<1>6. CASE PowerLoss
  <2>1. Store!PowerLoss
    BY <1>6 DEF PowerLoss, StopProcess, Store!PowerLoss
  <2> QED BY <2>1
<1>7. CASE WriteBack
  <2>1. Store!Settle
    BY <1>7 DEF WriteBack, memory, Store!Settle
  <2> QED BY <2>1
<1>8. CASE UNCHANGED vars
  BY <1>8 DEF vars, Store!vars
<1> QED BY <1>1, <1>2, <1>3, <1>4, <1>5, <1>6, <1>7, <1>8, HiddenSteps DEF Next

\* storage.go implements a list that is committed as a whole.
THEOREM StoreImplemented == Spec => ImplementsStore
<1>1. Init => Store!Init
  <2> SUFFICES ASSUME Init PROVE Store!Init
    OBVIOUS
  <2>1. AbsentFile.creds = {}
    BY DEF AbsentFile
  <2>2. {f.creds : f \in onDisk} = {{}}
    BY <2>1 DEF Init
  <2> QED BY <2>1, <2>2 DEF Init, Store!Init
<1>2. IInv /\ [Next]_vars => [Store!Next]_Store!vars
  BY StepSimulation
<1> QED BY <1>1, <1>2, Invariance, PTL DEF Spec, Store!Spec, ImplementsStore

=============================================================================
